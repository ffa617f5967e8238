--------------------------- MODULE RecordsProofs ---------------------------
(***************************************************************************)
(* Theorems about Records: the accounts, the notifications and the seeding *)
(* keep what they promise for every number of calls, users, devices,       *)
(* documents and starts.  Each part has an inductive invariant of its own; *)
(* a behaviour follows one part, so that the parts need not know of each   *)
(* other.                                                                  *)
(***************************************************************************)
EXTENDS Records, RealtimeHubProofs

-----------------------------------------------------------------------------
(* Accounts *)

\* The two lists of an account.
AdminPairs == [extra : Admin!Lists, revoked : Admin!Lists]

\* Nothing under way, a change that has read its target, a new account between its checks.
AdminLocals ==
    {Admin!Idle}
    \cup [pc : {"write"}, req : {q \in AdminRequests : q.kind # "create"}, actor : Rows,
          target : Rows, read : AdminPairs]
    \cup [pc : {"username", "insert"}, req : {q \in AdminRequests : q.kind = "create"},
          actor : Rows, target : {None}, read : {None}]

\* What a token says of its account.
AdminClaim == [role : Admin!RoleSlugs, perms : SUBSET (Admin!AllAssignablePermissions \cup {"*"})]

\* What every variable holds; a row that is there stays, so that a request never finds its
\* target gone.
AdminTyped ==
    /\ users \in [Rows -> Admin!User \cup {None}]
    /\ claims \in [Rows -> AdminClaim \cup {None}]
    /\ links \subseteq {r \in Rows : users[r] # None}
    /\ request \in [Calls -> AdminLocals]
    /\ \A o \in Calls : request[o].pc = "write" => users[request[o].target] # None
    /\ begun \in 0..MaxRequests /\ faults \in 0..MaxFaults
    /\ asked \in [Rows -> AdminPairs \cup {None}]
    /\ \A r \in Rows : users[r] # None => asked[r] \in AdminPairs
    /\ crossed \subseteq Rows

\* What a request is about to write was found valid: the pair completed from what was
\* read, and the lists of a new account.
GrantsPending ==
    /\ \A o \in Calls :
          LET c == request[o]
              u == Admin!Completed(c.req, c.read)
          IN  c.pc = "write" /\ Admin!ListsOf(c.req)
                => Admin!ValidPermissionGrant(u.extra, u.revoked)
    /\ \A o \in Calls : request[o].pc = "insert"
          => Admin!ValidPermissionGrant(request[o].req.extra, request[o].req.revoked)

\* The call is between the read and the write of somebody's lists.
Changing(o) == request[o].pc = "write" /\ Admin!ListsOf(request[o].req)

\* Two such calls on one row have crossed; on a row that no calls crossed on, the lists
\* that were read are those that were last asked for.
ListsPending ==
    /\ \A o, p \in Calls :
          o # p /\ Changing(o) /\ Changing(p) /\ request[o].target = request[p].target
              => request[o].target \in crossed
    /\ \A o \in Calls : Changing(o) /\ request[o].target \notin crossed =>
          /\ request[o].read.extra = asked[request[o].target].extra
          /\ request[o].read.revoked = asked[request[o].target].revoked

\* All that is known of accounts and the requests about them.
AdminInv ==
    /\ AdminTyped
    /\ Admin!GrantUnambiguous /\ Admin!NamesUnique /\ Admin!LostOnlyToOverlap
    /\ GrantsPending /\ ListsPending

-----------------------------------------------------------------------------
(* Notifications *)

\* What a preferences row can switch off.
PrefKeys == MutedKeys \cup Notice!DefaultPreferences.off

\* A row of preferences: whether its id can be read, and what it switches off.
Pref == [id : {None, "uuid", "objectid"}, off : SUBSET PrefKeys]

\* The steps of a call at which it has a recipient.
WithRecipient == {"insert", "push", "silent", "fcm", "stale", "email", "in_app", "record"}

\* The locals of a call, with a recipient or between two.
NoticeLocals ==
    {c \in [pc : {"idle", "next", "done"} \cup WithRecipient, req : NoticeRequests \cup {Notice!NoReq},
            todo : SUBSET Users, user : Users \cup {None}, tokens : SUBSET Tokens,
            stale : SUBSET Tokens, ok : BOOLEAN] :
        /\ c.pc # "idle" => c.req \in NoticeRequests
        /\ c.user \in Users <=> c.pc \in WithRecipient
        /\ c.user \notin c.todo
        /\ c.tokens # {} => c.pc = "fcm"}

\* A notification that is kept: in-app, or failed, or read.
NoticeRow ==
    {n \in [id : Calls \X Users, user : Users, channel : {"push", "silent", "email", "in_app", None},
            status : {"sent", "failed", "read"}, isRead : BOOLEAN] :
        n.channel = "in_app" \/ n.status \in {"failed", "read"}}

\* What every variable of the notifications holds.
NoticeTyped ==
    /\ prefs \in [Users -> Pref]
    /\ device \in [Tokens -> [owner : Users \cup {None}, isActive : BOOLEAN]]
    /\ inbox \subseteq NoticeRow
    /\ op \in [Calls -> NoticeLocals]
    /\ choice \in [Users -> SUBSET PrefKeys]
    /\ holder \in [Tokens -> Users \cup {None}]
    /\ optedOut \in [Calls -> SUBSET Users]
    /\ held \in [Calls -> SUBSET ((Users \cup {None}) \X Tokens)]
    /\ reached \in [Calls -> SUBSET (Users \X (Tokens \cup {"email", "live"}))]
    /\ refused \subseteq Tokens

\* A recipient has one notification of a call at most: it is written when the call is
\* done with the recipient.
InboxSound ==
    /\ \A n, m \in inbox : n.id = m.id => n = m
    /\ \A n \in inbox :
          LET c == op[n.id[1]]
          IN  c.pc # "idle" /\ n.id[2] \notin c.todo /\ n.id[2] # c.user

\* An active device is its holder's; whoever holds one is in the books of every call, and
\* so is every token a call has in hand. A call that has not begun has delivered nothing.
DevicesSound ==
    /\ \A t \in Tokens : device[t].isActive => holder[t] = device[t].owner /\ holder[t] # None
    /\ \A o \in Calls, t \in Tokens :
          op[o].pc # "idle" /\ holder[t] # None => <<holder[t], t>> \in held[o]
    /\ \A o \in Calls : \A t \in op[o].tokens : <<op[o].user, t>> \in held[o]
    /\ \A o \in Calls : op[o].stale \subseteq refused
    /\ \A o \in Calls : op[o].pc = "idle" => reached[o] = {}

\* Who opted out of what a call sends is not its recipient, and has a row already.
OptOutsPending ==
    /\ \A o \in Calls : \A u \in optedOut[o] : choice[u] \cap Notice!KeysOf(op[o].req) # {}
    /\ \A o \in Calls : \A u \in optedOut[o] :
          Notice!Decodable(prefs[u]) /\ op[o].req.kind = "send" => op[o].user # u

\* All that is known of preferences, devices and the calls that read them.
NoticeInv ==
    /\ NoticeTyped /\ InboxSound
    /\ DevicesSound /\ Notice!PushReachesHolder /\ Notice!SilencedOnlyIfRefused
    /\ OptOutsPending /\ Notice!OptOutKept

-----------------------------------------------------------------------------
(* Seeding *)

\* Every process makes its own id for a document.
BootIds == Boot!Procs \X Boot!Slugs

\* The steps of a boot, a seed run and the migration.
BootSteps == {"off", "index", "roles", "serving", "users", "end"}

\* The locals of one.
Proc == [pc : BootSteps, n : Nat, seen : BOOLEAN, release : Releases]

\* What every variable of the seeding holds; a loop stands at an element of its list.
BootTyped ==
    /\ roles \subseteq [id : BootIds, slug : Boot!Slugs, perms : Releases]
    /\ slugIndex \in {None, "idx_role_slug", "idx_slug_unique"}
    /\ accounts \subseteq [id : BootIds, email : Boot!Slugs, role : BootIds,
                           password : {"seeded", "own"}]
    /\ userIndex \in BOOLEAN
    /\ proc \in [Boot!Procs -> Proc]
    /\ \A p \in Boot!Procs :
          /\ proc[p].pc = "roles" => proc[p].n \in 1..Len(SystemSlugs)
          /\ proc[p].pc = "users" => proc[p].n \in 1..Len(Accounts)
    /\ boots \in 0..MaxBoots /\ failures \in 0..MaxFaults

\* An instance has the index before it writes, and its roles are there with the index.
IndexFirst ==
    /\ \A a \in Instances : proc[a].pc = "roles" => slugIndex # None
    /\ \A d \in roles : d.id[1] \notin SeedRuns => slugIndex # None

\* The seed run's role s is there, or the run knows that it is not.
Settled(p, s) == (\E d \in roles : d.id = <<p, s>>) \/ <<p, s>> \in kept

\* A seed run has settled every role it is past.
SeedsSettled ==
    \A p \in SeedRuns :
        /\ proc[p].pc = "roles" => \A i \in 1..(proc[p].n - 1) : Settled(p, SystemSlugs[i])
        /\ proc[p].pc \in {"users", "end"} => \A s \in Boot!Slugs : Settled(p, s)

\* All that is known of the seeded documents and of who is seeding.
BootInv ==
    /\ BootTyped /\ IndexFirst /\ Boot!TwinsAreSeeded
    /\ SeedsSettled /\ Boot!DanglesOnlyIfOvertaken

-----------------------------------------------------------------------------

\* Each part keeps its invariant in the behaviours that follow it.
RecordsInv ==
    /\ focus = "notice" => NoticeInv
    /\ focus = "admin" => AdminInv
    /\ focus = "boot" => BootInv
-----------------------------------------------------------------------------
(* Notifications keep their invariant *)

\* The locals of a call.
LEMMA CallFields ==
    ASSUME NoticeTyped, NEW o \in Calls
    PROVE  /\ op[o] \in NoticeLocals
           /\ op[o].pc \in {"idle", "next", "done"} \cup WithRecipient
           /\ op[o].pc # "idle" => op[o].req \in NoticeRequests
           /\ op[o].user \in Users <=> op[o].pc \in WithRecipient
           /\ op[o].user \in Users \cup {None} /\ op[o].user \notin op[o].todo
           /\ op[o].todo \subseteq Users /\ op[o].tokens \subseteq Tokens
           /\ op[o].stale \subseteq Tokens
  BY DEF NoticeTyped, NoticeLocals

\* What a request asks for.
LEMMA NoticeRequestFields ==
    ASSUME NEW req \in NoticeRequests
    PROVE  /\ req.to \subseteq Users
           /\ req.channel \in {"push", "silent", "email", "in_app", None}
           /\ req.kind # "preferences" => req.channel \in {"push", "silent", "email", "in_app"}
  BY NoticeAssumption DEF Notice!Request

\* No call has begun and nothing is stored.
LEMMA NoticeStarts == Notice!Init => NoticeInv
<1> SUFFICES ASSUME Notice!Init PROVE NoticeInv
  OBVIOUS
<1>0. \A o \in Calls : /\ op[o] = Notice!Idle
                       /\ optedOut[o] = {} /\ held[o] = {} /\ reached[o] = {}
  BY DEF Notice!Init
<1>1. /\ Notice!Idle \in NoticeLocals /\ Notice!Idle.pc = "idle"
      /\ Notice!Idle.tokens = {} /\ Notice!Idle.stale = {}
  BY NoticeAssumption DEF Notice!Idle, NoticeLocals, WithRecipient
<1>2. NoticeTyped
  <2>1. op \in [Calls -> NoticeLocals]
    BY <1>1 DEF Notice!Init
  <2>2. Notice!NoPrefs \in Pref
    BY DEF Notice!NoPrefs, Pref
  <2>3. prefs \in [Users -> Pref] /\ choice \in [Users -> SUBSET PrefKeys]
    BY <2>2 DEF Notice!Init
  <2>4. /\ device \in [Tokens -> [owner : Users \cup {None}, isActive : BOOLEAN]]
        /\ holder \in [Tokens -> Users \cup {None}]
    BY DEF Notice!Init
  <2>5. /\ optedOut \in [Calls -> SUBSET Users]
        /\ held \in [Calls -> SUBSET ((Users \cup {None}) \X Tokens)]
        /\ reached \in [Calls -> SUBSET (Users \X (Tokens \cup {"email", "live"}))]
        /\ inbox = {} /\ refused = {}
    BY DEF Notice!Init
  <2> QED
    BY <2>1, <2>3, <2>4, <2>5 DEF NoticeTyped
<1>3. InboxSound
  BY DEF Notice!Init, InboxSound
<1>4. DevicesSound /\ Notice!SilencedOnlyIfRefused
  BY <1>0, <1>1 DEF Notice!Init, DevicesSound, Notice!SilencedOnlyIfRefused
<1>5. Notice!PushReachesHolder /\ OptOutsPending
  BY <1>0 DEF Notice!PushReachesHolder, OptOutsPending
<1>6. Notice!OptOutKept
  BY <1>0 DEF Notice!Init, Notice!OptOutKept
<1> QED
  BY <1>2, <1>3, <1>4, <1>5, <1>6 DEF NoticeInv

\* Whoever opted out of what a call sends has a row by then.
LEMMA OptOutHasRow ==
    ASSUME NoticeInv, NEW o \in Calls, NEW u \in optedOut[o]
    PROVE  /\ u \in Users /\ prefs[u] # Notice!NoPrefs
           /\ ~Notice!Enabled(prefs[u], op[o].req)
<1>1. u \in Users
  BY DEF NoticeInv, NoticeTyped
<1>2. choice[u] \cap Notice!KeysOf(op[o].req) # {} /\ choice[u] \subseteq prefs[u].off
  BY <1>1 DEF NoticeInv, OptOutsPending, Notice!OptOutKept
<1> QED
  BY <1>1, <1>2 DEF Notice!Enabled, Notice!NoPrefs

\* A step of a call that has begun: it goes through its recipients one by one, delivers to
\* the one it has, to the tokens it has in hand, and touches the rows of nobody else.
CallGoesOn(o) ==
    /\ \A p \in Calls : p # o => op'[p] = op[p] /\ reached'[p] = reached[p]
    /\ op[o].pc # "idle" /\ op'[o].pc # "idle" /\ op'[o].req = op[o].req
    /\ op'[o].todo \subseteq op[o].todo
    /\ \/ op'[o].user = op[o].user
       \/ op'[o].user = None
       \/ /\ op'[o].user \in op[o].todo /\ prefs' = prefs
          /\ op'[o].user \in optedOut'[o] /\ Notice!Decodable(prefs[op'[o].user])
                => op[o].req.kind # "send"
    /\ \A t \in op'[o].tokens : <<op'[o].user, t>> \in held[o]
    /\ refused \subseteq refused' /\ op'[o].stale \subseteq refused'
    /\ \A t \in Tokens : device'[t] = device[t] \/ (t \in refused /\ ~device'[t].isActive)
    /\ \A u \in Users : prefs'[u] = prefs[u] \/ prefs[u] = Notice!NoPrefs
    /\ choice' = choice /\ holder' = holder /\ held' = held
    /\ \A p \in Calls : optedOut'[p] \subseteq optedOut[p]
    /\ reached'[o] \subseteq
          reached[o] \cup ({op[o].user} \X (op[o].tokens \cup {"email", "live"}))
    /\ \/ inbox' = inbox
       \/ /\ op[o].pc \in WithRecipient /\ op'[o].user = None
          /\ \E n : n.id = <<o, op[o].user>> /\ inbox' = inbox \cup {n}

\* Whatever the call does, going on in this way keeps the invariant.
LEMMA CallKeeps ==
    ASSUME NoticeInv, NoticeTyped', NEW o \in Calls, CallGoesOn(o)
    PROVE  NoticeInv'
<1>1. /\ NoticeTyped /\ InboxSound /\ DevicesSound /\ Notice!PushReachesHolder
      /\ Notice!SilencedOnlyIfRefused /\ OptOutsPending /\ Notice!OptOutKept
  BY DEF NoticeInv
<1>2. InboxSound'
  <2>1. \A n \in inbox : n.id \in Calls \X Users
    BY <1>1 DEF NoticeTyped, NoticeRow
  <2>2. ASSUME NEW n \in inbox
        PROVE  LET c == op'[n.id[1]]
               IN  c.pc # "idle" /\ n.id[2] \notin c.todo /\ n.id[2] # c.user
    <3>1. n.id[1] \in Calls /\ n.id[2] \in Users /\ n.id[2] # None
      BY <2>1, NoticeAssumption
    <3>2. CASE n.id[1] = o
      BY <1>1, <3>1, <3>2 DEF CallGoesOn, InboxSound
    <3>3. CASE n.id[1] # o
      BY <1>1, <3>1, <3>3 DEF CallGoesOn, InboxSound
    <3> QED
      BY <3>2, <3>3
  <2>3. CASE inbox' = inbox
    BY <1>1, <2>2, <2>3 DEF InboxSound
  <2>4. ASSUME op[o].pc \in WithRecipient, op'[o].user = None,
               NEW n, n.id = <<o, op[o].user>>, inbox' = inbox \cup {n}
        PROVE  InboxSound'
    <3>1. op[o].user \in Users /\ op[o].user # None /\ op[o].user \notin op[o].todo
      BY <1>1, <2>4, CallFields, NoticeAssumption
    <3>2. \A m \in inbox : m.id # n.id
      BY <1>1, <2>4 DEF InboxSound
    <3>3. op'[o].pc # "idle" /\ op[o].user \notin op'[o].todo /\ op[o].user # op'[o].user
      BY <2>4, <3>1 DEF CallGoesOn
    <3>4. n.id[1] = o /\ n.id[2] = op[o].user
      BY <2>4
    <3> QED
      BY <1>1, <2>2, <2>4, <3>2, <3>3, <3>4 DEF InboxSound
  <2> QED
    BY <2>3, <2>4 DEF CallGoesOn
<1>3. DevicesSound'
  <2>1. \A t \in Tokens : device'[t].isActive => device'[t] = device[t]
    BY DEF CallGoesOn
  <2>2. \A t \in Tokens : device'[t].isActive => holder'[t] = device'[t].owner /\ holder'[t] # None
    BY <1>1, <2>1 DEF DevicesSound, CallGoesOn
  <2>3. \A p \in Calls, t \in Tokens :
           op'[p].pc # "idle" /\ holder'[t] # None => <<holder'[t], t>> \in held'[p]
    BY <1>1 DEF DevicesSound, CallGoesOn
  <2>4. \A p \in Calls : /\ \A t \in op'[p].tokens : <<op'[p].user, t>> \in held'[p]
                         /\ op'[p].stale \subseteq refused'
                         /\ op'[p].pc = "idle" => reached'[p] = {}
    BY <1>1 DEF DevicesSound, CallGoesOn
  <2> QED
    BY <2>2, <2>3, <2>4 DEF DevicesSound
<1>4. Notice!PushReachesHolder'
  <2>1. ASSUME NEW u \in Users, NEW t \in Tokens, <<u, t>> \in reached'[o]
        PROVE  <<u, t>> \in held[o]
    <3>1. t \notin {"email", "live"}
      BY NoticeAssumption
    <3>2. <<u, t>> \in reached[o] \/ (u = op[o].user /\ t \in op[o].tokens)
      BY <2>1, <3>1 DEF CallGoesOn
    <3> QED
      BY <1>1, <3>2 DEF DevicesSound, Notice!PushReachesHolder
  <2> QED
    BY <1>1, <2>1 DEF CallGoesOn, Notice!PushReachesHolder
<1>5. Notice!SilencedOnlyIfRefused'
  BY <1>1 DEF CallGoesOn, Notice!SilencedOnlyIfRefused
<1>6. ASSUME NEW p \in Calls, NEW u \in optedOut'[p], Notice!Decodable(prefs'[u])
      PROVE  /\ u \in optedOut[p] /\ u \in Users
             /\ Notice!Decodable(prefs[u]) /\ op'[p].req = op[p].req
  <2>1. u \in optedOut[p]
    BY DEF CallGoesOn
  <2>2. u \in Users /\ prefs[u] # Notice!NoPrefs
    BY <2>1, OptOutHasRow
  <2>3. prefs'[u] = prefs[u]
    BY <2>2 DEF CallGoesOn
  <2> QED
    BY <1>6, <2>1, <2>2, <2>3 DEF CallGoesOn
<1>7. ASSUME NEW p \in Calls, NEW u \in optedOut'[p], Notice!Decodable(prefs'[u]),
             op'[p].req.kind = "send"
      PROVE  op'[p].user # u
  <2>1. /\ u \in optedOut[p] /\ u \in Users /\ Notice!Decodable(prefs[u])
        /\ op[p].req.kind = "send"
    BY <1>6, <1>7
  <2>2. op[p].user # u
    BY <1>1, <2>1 DEF OptOutsPending
  <2>3. u # None
    BY <2>1, NoticeAssumption
  <2> QED
    BY <1>7, <2>1, <2>2, <2>3 DEF CallGoesOn
<1>8. OptOutsPending'
  <2>1. \A p \in Calls : \A u \in optedOut'[p] : choice'[u] \cap Notice!KeysOf(op'[p].req) # {}
    BY <1>1 DEF CallGoesOn, OptOutsPending
  <2> QED
    BY <1>7, <2>1 DEF OptOutsPending, Notice!Decodable, Notice!KeysOf
<1>9. Notice!OptOutKept'
  <2>1. ASSUME NEW u \in Users PROVE choice'[u] \subseteq prefs'[u].off
    BY <1>1 DEF CallGoesOn, Notice!OptOutKept, Notice!NoPrefs
  <2>2. ASSUME NEW p \in Calls, NEW u \in optedOut'[p], Notice!Decodable(prefs'[u]),
               op'[p].req.kind = "send", NEW what \in Tokens \cup {"email", "live"}
        PROVE  <<u, what>> \notin reached'[p]
    <3>1. /\ u \in optedOut[p] /\ u \in Users /\ Notice!Decodable(prefs[u])
          /\ op[p].req.kind = "send"
      BY <1>6, <2>2
    <3>2. <<u, what>> \notin reached[p] /\ op[p].user # u
      BY <1>1, <3>1 DEF OptOutsPending, Notice!OptOutKept
    <3> QED
      BY <3>2 DEF CallGoesOn
  <2> QED
    BY <2>1, <2>2 DEF Notice!OptOutKept, Notice!Decodable
<1> QED
  BY <1>2, <1>3, <1>4, <1>5, <1>8, <1>9 DEF NoticeInv

\* On to the next recipient, or to the channel with this one.
LEMMA PassedMoves ==
    ASSUME NoticeTyped, NEW o \in Calls, op[o].pc \in {"next", "insert"},
           NEW u \in Users, NEW allowed, Notice!Passed(o, u, allowed)
    PROVE  /\ op' \in [Calls -> NoticeLocals]
           /\ \A p \in Calls : p # o => op'[p] = op[p]
           /\ op'[o].pc # "idle" /\ op'[o].req = op[o].req
           /\ op'[o].todo = op[o].todo \ {u}
           /\ op'[o].tokens = {} /\ op'[o].stale = op[o].stale
           /\ \/ op'[o].user = None
              \/ op'[o].user = u /\ allowed
<1> DEFINE c == op[o]
           on == allowed /\ c.req.kind # "preferences"
           d == [c EXCEPT !.pc = IF on THEN c.req.channel ELSE "next",
                          !.user = IF on THEN u ELSE None, !.todo = c.todo \ {u}]
<1>1. /\ op \in [Calls -> NoticeLocals] /\ c \in NoticeLocals /\ c.pc # "idle"
      /\ c.req \in NoticeRequests /\ c.tokens = {}
  BY CallFields DEF NoticeTyped, NoticeLocals
<1>2. op' = [op EXCEPT ![o] = d]
  BY <1>1 DEF Notice!Passed
<1>3. c.req.kind # "preferences" => c.req.channel \in {"push", "silent", "email", "in_app"}
  BY <1>1, NoticeRequestFields
<1>4. CASE on
  <2>1. d = [c EXCEPT !.pc = c.req.channel, !.user = u, !.todo = c.todo \ {u}]
    BY <1>4
  <2>2. c.req.channel \in WithRecipient /\ c.req.channel # "idle"
    BY <1>3, <1>4 DEF WithRecipient
  <2>3. d \in NoticeLocals
    BY <1>1, <2>1, <2>2 DEF NoticeLocals
  <2>4. /\ d.pc # "idle" /\ d.req = c.req /\ d.todo = c.todo \ {u} /\ d.user = u
        /\ d.tokens = {} /\ d.stale = c.stale
    BY <1>1, <2>1, <2>2 DEF NoticeLocals
  <2> QED
    BY <1>1, <1>2, <1>4, <2>3, <2>4
<1>5. CASE ~on
  <2>1. d = [c EXCEPT !.pc = "next", !.user = None, !.todo = c.todo \ {u}]
    BY <1>5
  <2>2. "next" \notin WithRecipient /\ None \notin Users
    BY NoticeAssumption DEF WithRecipient
  <2>3. d \in NoticeLocals
    BY <1>1, <2>1, <2>2 DEF NoticeLocals
  <2>4. /\ d.pc # "idle" /\ d.req = c.req /\ d.todo = c.todo \ {u} /\ d.user = None
        /\ d.tokens = {} /\ d.stale = c.stale
    BY <1>1, <2>1 DEF NoticeLocals
  <2> QED
    BY <1>1, <1>2, <2>3, <2>4
<1> QED
  BY <1>4, <1>5

\* The call leaves its recipient.
LEMMA RecordedMoves ==
    ASSUME NoticeTyped, NEW o \in Calls, op[o].pc \in WithRecipient,
           NEW ok \in BOOLEAN, Notice!Recorded(o, ok)
    PROVE  /\ op' \in [Calls -> NoticeLocals]
           /\ \A p \in Calls : p # o => op'[p] = op[p]
           /\ op'[o].pc # "idle" /\ op'[o].req = op[o].req
           /\ op'[o].todo = op[o].todo /\ op'[o].user = op[o].user
           /\ op'[o].tokens = {} /\ op'[o].stale = op[o].stale
<1> DEFINE c == op[o]
           d == [c EXCEPT !.pc = "record", !.tokens = {}, !.ok = ok]
<1>1. op \in [Calls -> NoticeLocals] /\ c \in NoticeLocals
  BY DEF NoticeTyped
<1>2. op' = [op EXCEPT ![o] = d]
  BY <1>1 DEF Notice!Recorded
<1>3. d \in NoticeLocals
  BY <1>1 DEF NoticeLocals, WithRecipient
<1>4. /\ d.pc # "idle" /\ d.req = c.req /\ d.todo = c.todo /\ d.user = c.user
      /\ d.tokens = {} /\ d.stale = c.stale
  BY <1>1 DEF NoticeLocals
<1> QED
  BY <1>1, <1>2, <1>3, <1>4

\* The preferences are looked up: who opted out is passed over.
LEMMA FindPreferencesKeeps ==
    ASSUME NoticeInv, NEW o \in Calls, Notice!FindPreferences(o) PROVE NoticeInv'
<1> DEFINE c == op[o]
<1>1. /\ NoticeTyped /\ DevicesSound /\ c.pc = "next"
      /\ prefs' = prefs /\ device' = device /\ inbox' = inbox /\ choice' = choice
      /\ holder' = holder /\ held' = held /\ reached' = reached /\ refused' = refused
  BY DEF NoticeInv, Notice!FindPreferences, Notice!store
<1>2. /\ c \in NoticeLocals /\ c.todo \subseteq Users /\ c.stale \subseteq refused
      /\ c.req \in NoticeRequests
  BY <1>1, CallFields DEF DevicesSound
<1>3. ASSUME NEW u \in c.todo,
             op' \in [Calls -> NoticeLocals], \A p \in Calls : p # o => op'[p] = op[p],
             op'[o].pc # "idle", op'[o].req = c.req, op'[o].todo = c.todo \ {u},
             op'[o].tokens = {}, op'[o].stale = c.stale,
             \A p \in Calls : optedOut'[p] \subseteq optedOut[p],
             optedOut' \in [Calls -> SUBSET Users],
             \/ op'[o].user = None
             \/ /\ op'[o].user = u
                /\ u \in optedOut'[o] => ~Notice!Decodable(prefs[u])
      PROVE  NoticeInv'
  <2>1. NoticeTyped'
    BY <1>1, <1>3 DEF NoticeTyped, Pref
  <2>2. CallGoesOn(o)
    BY <1>1, <1>2, <1>3 DEF CallGoesOn
  <2> QED
    BY <2>1, <2>2, CallKeeps
<1>4. PICK u \in c.todo :
          \/ /\ prefs[u] = Notice!NoPrefs
             /\ op' = [op EXCEPT ![o].pc = "insert", ![o].user = u, ![o].todo = @ \ {u}]
             /\ UNCHANGED optedOut
          \/ /\ prefs[u] # Notice!NoPrefs
             /\ Notice!Passed(o, u, Notice!Decodable(prefs[u])
                                      => Notice!Enabled(prefs[u], op[o].req))
             /\ UNCHANGED optedOut
          \/ /\ Notice!Passed(o, u, TRUE)
             /\ optedOut' = [optedOut EXCEPT ![o] = @ \ {u}]
  BY DEF Notice!FindPreferences
<1>5. u \in Users /\ optedOut \in [Calls -> SUBSET Users]
  BY <1>1, <1>2 DEF NoticeTyped
<1>6. CASE /\ prefs[u] = Notice!NoPrefs
           /\ op' = [op EXCEPT ![o].pc = "insert", ![o].user = u, ![o].todo = @ \ {u}]
           /\ UNCHANGED optedOut
  <2> DEFINE d == [c EXCEPT !.pc = "insert", !.user = u, !.todo = c.todo \ {u}]
  <2>1. op \in [Calls -> NoticeLocals]
    BY <1>1 DEF NoticeTyped
  <2>2. op' = [op EXCEPT ![o] = d]
    BY <1>6, <2>1
  <2>3. d \in NoticeLocals
    BY <1>1, <1>2, <1>5 DEF NoticeLocals, WithRecipient
  <2>4. /\ d.pc # "idle" /\ d.req = c.req /\ d.todo = c.todo \ {u} /\ d.user = u
        /\ d.tokens = {} /\ d.stale = c.stale
    BY <1>1, <1>2 DEF NoticeLocals
  <2>5. u \notin optedOut[o]
    BY <1>6, OptOutHasRow
  <2> HIDE DEF d
  <2>6. /\ op' \in [Calls -> NoticeLocals] /\ op'[o] = d
        /\ \A p \in Calls : p # o => op'[p] = op[p]
    BY <2>1, <2>2, <2>3
  <2> QED
    BY <1>3, <1>5, <1>6, <2>4, <2>5, <2>6
<1>7. CASE /\ Notice!Passed(o, u, Notice!Decodable(prefs[u])
                                    => Notice!Enabled(prefs[u], op[o].req))
           /\ UNCHANGED optedOut
  <2>1. /\ op' \in [Calls -> NoticeLocals]
        /\ \A p \in Calls : p # o => op'[p] = op[p]
        /\ op'[o].pc # "idle" /\ op'[o].req = op[o].req
        /\ op'[o].todo = op[o].todo \ {u}
        /\ op'[o].tokens = {} /\ op'[o].stale = op[o].stale
        /\ \/ op'[o].user = None
           \/ /\ op'[o].user = u
              /\ Notice!Decodable(prefs[u]) => Notice!Enabled(prefs[u], op[o].req)
    BY <1>1, <1>5, <1>7, PassedMoves
  <2>2. u \in optedOut[o] => ~Notice!Enabled(prefs[u], op[o].req)
    BY OptOutHasRow
  <2> QED
    BY <1>3, <1>5, <1>7, <2>1, <2>2
<1>8. CASE /\ Notice!Passed(o, u, TRUE)
           /\ optedOut' = [optedOut EXCEPT ![o] = @ \ {u}]
  <2>1. /\ op' \in [Calls -> NoticeLocals]
        /\ \A p \in Calls : p # o => op'[p] = op[p]
        /\ op'[o].pc # "idle" /\ op'[o].req = op[o].req
        /\ op'[o].todo = op[o].todo \ {u}
        /\ op'[o].tokens = {} /\ op'[o].stale = op[o].stale
        /\ (op'[o].user = None \/ op'[o].user = u)
    BY <1>1, <1>5, <1>8, PassedMoves
  <2>2. /\ \A p \in Calls : optedOut'[p] \subseteq optedOut[p]
        /\ optedOut' \in [Calls -> SUBSET Users] /\ u \notin optedOut'[o]
    BY <1>5, <1>8
  <2> QED
    BY <1>3, <2>1, <2>2
<1> QED
  BY <1>4, <1>6, <1>7, <1>8

\* The row is made, unless somebody made one, and the call goes on with the defaults.
LEMMA GetPreferencesKeeps ==
    ASSUME NoticeInv, NEW o \in Calls, Notice!GetPreferences(o) PROVE NoticeInv'
<1> DEFINE c == op[o]
<1>1. /\ NoticeTyped /\ DevicesSound /\ c.pc = "insert"
      /\ device' = device /\ inbox' = inbox /\ choice' = choice /\ optedOut' = optedOut
      /\ holder' = holder /\ held' = held /\ reached' = reached /\ refused' = refused
      /\ Notice!InsertDefaults(c.user) \/ prefs' = prefs
  BY DEF NoticeInv, Notice!GetPreferences, Notice!history
<1>2. /\ c \in NoticeLocals /\ c.stale \subseteq refused /\ c.user \in Users
      /\ c.todo \subseteq Users /\ c.user \notin c.todo
  <2>1. "insert" \in WithRecipient
    BY DEF WithRecipient
  <2> QED
    BY <1>1, <2>1, CallFields DEF DevicesSound
<1>3. /\ op' \in [Calls -> NoticeLocals]
      /\ \A p \in Calls : p # o => op'[p] = op[p]
      /\ op'[o].pc # "idle" /\ op'[o].req = c.req
      /\ op'[o].todo = c.todo \ {c.user} /\ op'[o].tokens = {} /\ op'[o].stale = c.stale
      /\ (op'[o].user = None \/ op'[o].user = c.user)
  <2> DEFINE ok == Notice!Enabled(Notice!DefaultPreferences, c.req)
  <2>1. Notice!Passed(o, c.user, ok)
    BY DEF Notice!GetPreferences
  <2> HIDE DEF ok
  <2> QED
    BY <1>1, <1>2, <2>1, PassedMoves
<1>4. Notice!DefaultPreferences \in Pref
  BY DEF Notice!DefaultPreferences, Pref, PrefKeys
<1>5. prefs \in [Users -> Pref]
  BY <1>1 DEF NoticeTyped
<1>6. /\ prefs' \in [Users -> Pref]
      /\ \A u \in Users : prefs'[u] = prefs[u] \/ prefs[u] = Notice!NoPrefs
  BY <1>1, <1>2, <1>4, <1>5 DEF Notice!InsertDefaults
<1>7. NoticeTyped'
  BY <1>1, <1>3, <1>6 DEF NoticeTyped
<1>8. CallGoesOn(o)
  BY <1>1, <1>2, <1>3, <1>6 DEF CallGoesOn
<1> QED
  BY <1>7, <1>8, CallKeeps

\* The recipient's active tokens: each is in the books of the call, since it has a holder.
LEMMA ReadTokensKeeps ==
    ASSUME NoticeInv, NEW o \in Calls, Notice!ReadTokens(o) PROVE NoticeInv'
<1> DEFINE c == op[o]
           mine == Notice!ActiveTokens(c.user)
<1>1. /\ NoticeTyped /\ DevicesSound /\ c.pc \in {"push", "silent"}
      /\ prefs' = prefs /\ device' = device /\ inbox' = inbox /\ choice' = choice
      /\ optedOut' = optedOut /\ holder' = holder /\ held' = held /\ reached' = reached
      /\ refused' = refused
  BY DEF NoticeInv, Notice!ReadTokens, Notice!store, Notice!history
<1>2. /\ c \in NoticeLocals /\ c.stale \subseteq refused /\ c.user \in Users
      /\ c.pc \in WithRecipient /\ c.pc # "idle" /\ c.tokens = {}
  <2>1. c.pc \in WithRecipient
    BY <1>1 DEF WithRecipient
  <2> QED
    BY <1>1, <2>1, CallFields DEF DevicesSound, NoticeLocals
<1>3. ASSUME op' \in [Calls -> NoticeLocals], \A p \in Calls : p # o => op'[p] = op[p],
             op'[o].pc # "idle", op'[o].req = c.req, op'[o].todo = c.todo,
             op'[o].user = c.user, op'[o].stale = c.stale, op'[o].tokens \subseteq mine
      PROVE  NoticeInv'
  <2>1. NoticeTyped'
    BY <1>1, <1>3 DEF NoticeTyped
  <2>2. \A t \in op'[o].tokens : <<op'[o].user, t>> \in held[o]
    <3>1. ASSUME NEW t \in mine PROVE <<c.user, t>> \in held[o]
      <4>1. t \in Tokens /\ device[t] = [owner |-> c.user, isActive |-> TRUE]
        BY DEF Notice!ActiveTokens
      <4>2. device[t].isActive /\ device[t].owner = c.user
        BY <4>1
      <4> QED
        BY <1>1, <1>2, <4>1, <4>2 DEF DevicesSound
    <3> QED
      BY <1>3, <3>1
  <2>3. CallGoesOn(o)
    BY <1>1, <1>2, <1>3, <2>2 DEF CallGoesOn
  <2> QED
    BY <2>1, <2>3, CallKeeps
<1>4. CASE op' = [op EXCEPT ![o].pc = "fcm", ![o].tokens = mine]
  <2> DEFINE d == [c EXCEPT !.pc = "fcm", !.tokens = mine]
  <2>1. op \in [Calls -> NoticeLocals] /\ mine \subseteq Tokens
    BY <1>1 DEF NoticeTyped, Notice!ActiveTokens
  <2>2. op' = [op EXCEPT ![o] = d]
    BY <1>4, <2>1
  <2>3. d \in NoticeLocals
    BY <1>1, <1>2, <2>1 DEF NoticeLocals, WithRecipient
  <2>4. /\ d.pc # "idle" /\ d.req = c.req /\ d.todo = c.todo /\ d.user = c.user
        /\ d.tokens = mine /\ d.stale = c.stale
    BY <1>2 DEF NoticeLocals
  <2> HIDE DEF d
  <2>5. /\ op' \in [Calls -> NoticeLocals] /\ op'[o] = d
        /\ \A p \in Calls : p # o => op'[p] = op[p]
    BY <2>1, <2>2, <2>3
  <2> QED
    BY <1>3, <2>4, <2>5
<1>5. CASE Notice!Recorded(o, c.pc = "silent")
  <2> DEFINE ok == (c.pc = "silent")
  <2>1. ok \in BOOLEAN /\ Notice!Recorded(o, ok)
    BY <1>5
  <2> HIDE DEF ok
  <2> QED
    BY <1>1, <1>2, <1>3, <2>1, RecordedMoves
<1> QED
  BY <1>4, <1>5 DEF Notice!ReadTokens

\* FCM answers for the tokens in hand.
LEMMA SendMulticastKeeps ==
    ASSUME NoticeInv, NEW o \in Calls, Notice!SendMulticast(o) PROVE NoticeInv'
<1> DEFINE c == op[o]
<1>1. /\ NoticeTyped /\ DevicesSound /\ c.pc = "fcm"
      /\ prefs' = prefs /\ device' = device /\ inbox' = inbox /\ choice' = choice
      /\ optedOut' = optedOut /\ holder' = holder /\ held' = held
  BY DEF NoticeInv, Notice!SendMulticast, Notice!store
<1>2. /\ c \in NoticeLocals /\ c.stale \subseteq refused /\ c.user \in Users
      /\ c.pc \in WithRecipient /\ c.pc # "idle" /\ c.tokens \subseteq Tokens
  <2>1. c.pc \in WithRecipient
    BY <1>1 DEF WithRecipient
  <2> QED
    BY <1>1, <2>1, CallFields DEF DevicesSound
<1>3. ASSUME op' \in [Calls -> NoticeLocals], \A p \in Calls : p # o => op'[p] = op[p],
             op'[o].pc # "idle", op'[o].req = c.req, op'[o].todo = c.todo,
             op'[o].user = c.user, op'[o].tokens = {}, op'[o].stale \subseteq refused',
             refused \subseteq refused', refused' \subseteq Tokens,
             reached' \in [Calls -> SUBSET (Users \X (Tokens \cup {"email", "live"}))],
             \A p \in Calls : p # o => reached'[p] = reached[p],
             reached'[o] \subseteq reached[o] \cup ({c.user} \X c.tokens)
      PROVE  NoticeInv'
  <2>1. NoticeTyped'
    BY <1>1, <1>3 DEF NoticeTyped
  <2>2. CallGoesOn(o)
    BY <1>1, <1>2, <1>3 DEF CallGoesOn
  <2> QED
    BY <2>1, <2>2, CallKeeps
<1>4. /\ op \in [Calls -> NoticeLocals] /\ refused \subseteq Tokens
      /\ reached \in [Calls -> SUBSET (Users \X (Tokens \cup {"email", "live"}))]
  BY <1>1 DEF NoticeTyped
<1>5. CASE Notice!Recorded(o, FALSE) /\ UNCHANGED <<reached, refused>>
  BY <1>1, <1>2, <1>3, <1>4, <1>5, RecordedMoves
<1>6. ASSUME NEW answer \in [c.tokens -> Notice!Answers],
             NEW good, NEW bad, NEW stale,
             good = {t \in c.tokens : answer[t] = "delivered"},
             bad = {t \in c.tokens : answer[t] = "stale"},
             stale = IF c.req.channel = "push" THEN bad ELSE {},
             reached' = [reached EXCEPT ![o] = @ \cup ({c.user} \X good)],
             refused' = refused \cup bad,
             op' = [op EXCEPT ![o].pc = IF stale = {} THEN "record" ELSE "stale",
                              ![o].tokens = {}, ![o].stale = stale]
      PROVE  NoticeInv'
  <2> DEFINE step == IF stale = {} THEN "record" ELSE "stale"
             d == [c EXCEPT !.pc = step, !.tokens = {}, !.stale = stale]
  <2>1. op' = [op EXCEPT ![o] = d]
    BY <1>4, <1>6
  <2>2. stale \subseteq bad /\ bad \subseteq Tokens /\ good \subseteq c.tokens
    BY <1>2, <1>6
  <2>3. step \in {"record", "stale"}
    OBVIOUS
  <2> HIDE DEF step
  <2>4. d \in NoticeLocals
    BY <1>2, <2>2, <2>3 DEF NoticeLocals, WithRecipient
  <2>5. /\ d.pc # "idle" /\ d.req = c.req /\ d.todo = c.todo /\ d.user = c.user
        /\ d.tokens = {} /\ d.stale = stale
    BY <1>2, <2>3 DEF NoticeLocals
  <2> HIDE DEF d
  <2>6. /\ op' \in [Calls -> NoticeLocals] /\ op'[o] = d
        /\ \A p \in Calls : p # o => op'[p] = op[p]
    BY <1>4, <2>1, <2>4
  <2>7. /\ reached'[o] = reached[o] \cup ({c.user} \X good)
        /\ \A p \in Calls : p # o => reached'[p] = reached[p]
        /\ DOMAIN reached' = Calls /\ reached' = [p \in Calls |-> reached'[p]]
    BY <1>4, <1>6
  <2>8. {c.user} \X good \subseteq Users \X (Tokens \cup {"email", "live"})
    BY <1>2, <2>2
  <2>9. reached' \in [Calls -> SUBSET (Users \X (Tokens \cup {"email", "live"}))]
    BY <1>4, <2>7, <2>8
  <2> QED
    BY <1>3, <1>4, <1>6, <2>2, <2>5, <2>6, <2>7, <2>9
<1>7. ASSUME NEW answer \in [c.tokens -> Notice!Answers],
             LET With(a) == {t \in c.tokens : answer[t] = a}
                 stale == IF c.req.channel = "push" THEN With("stale") ELSE {}
             IN  /\ reached' = [reached EXCEPT ![o] = @ \cup ({c.user} \X With("delivered"))]
                 /\ refused' = refused \cup With("stale")
                 /\ op' = [op EXCEPT ![o].pc = IF stale = {} THEN "record" ELSE "stale",
                                     ![o].tokens = {}, ![o].stale = stale]
      PROVE  NoticeInv'
  <2> DEFINE good == {t \in c.tokens : answer[t] = "delivered"}
             bad == {t \in c.tokens : answer[t] = "stale"}
             stale == IF c.req.channel = "push" THEN bad ELSE {}
  <2>1. /\ reached' = [reached EXCEPT ![o] = @ \cup ({c.user} \X good)]
        /\ refused' = refused \cup bad
        /\ op' = [op EXCEPT ![o].pc = IF stale = {} THEN "record" ELSE "stale",
                            ![o].tokens = {}, ![o].stale = stale]
    BY <1>7
  <2>2. PICK g, b, s : /\ g = good /\ b = bad /\ s = stale
    OBVIOUS
  <2> HIDE DEF good, bad, stale
  <2>3. /\ reached' = [reached EXCEPT ![o] = @ \cup ({c.user} \X g)]
        /\ refused' = refused \cup b
        /\ op' = [op EXCEPT ![o].pc = IF s = {} THEN "record" ELSE "stale",
                            ![o].tokens = {}, ![o].stale = s]
    BY <2>1, <2>2
  <2>4. /\ g = {t \in c.tokens : answer[t] = "delivered"}
        /\ b = {t \in c.tokens : answer[t] = "stale"}
        /\ s = IF c.req.channel = "push" THEN b ELSE {}
    BY <2>2 DEF good, bad, stale
  <2> HIDE DEF c
  <2> QED
    BY <1>6, <2>3, <2>4 DEF c
<1> QED
  BY <1>1, <1>5, <1>7 DEF Notice!SendMulticast

\* A token FCM refused is deactivated, whoever has it.
LEMMA DeactivateStaleKeeps ==
    ASSUME NoticeInv, NEW o \in Calls, Notice!DeactivateStale(o) PROVE NoticeInv'
<1> DEFINE c == op[o]
<1>1. /\ NoticeTyped /\ DevicesSound /\ c.pc = "stale"
      /\ prefs' = prefs /\ inbox' = inbox /\ choice' = choice
      /\ optedOut' = optedOut /\ holder' = holder /\ held' = held
      /\ reached' = reached /\ refused' = refused
  BY DEF NoticeInv, Notice!DeactivateStale, Notice!history
<1>2. /\ c \in NoticeLocals /\ c.stale \subseteq refused /\ c.user \in Users
      /\ c.pc \in WithRecipient /\ c.pc # "idle" /\ c.tokens = {}
  <2>1. c.pc \in WithRecipient
    BY <1>1 DEF WithRecipient
  <2> QED
    BY <1>1, <2>1, CallFields DEF DevicesSound, NoticeLocals
<1>3. /\ op \in [Calls -> NoticeLocals] /\ refused \subseteq Tokens
      /\ device \in [Tokens -> [owner : Users \cup {None}, isActive : BOOLEAN]]
  BY <1>1 DEF NoticeTyped
<1>4. PICK t \in c.stale :
         /\ \/ device' = [device EXCEPT ![t].isActive = FALSE]
            \/ UNCHANGED device
         /\ op' = [op EXCEPT ![o].stale = @ \ {t},
                             ![o].pc = IF c.stale = {t} THEN "record" ELSE "stale"]
  BY DEF Notice!DeactivateStale
<1>5. /\ device' \in [Tokens -> [owner : Users \cup {None}, isActive : BOOLEAN]]
      /\ \A s \in Tokens : device'[s] = device[s] \/ (s \in refused /\ ~device'[s].isActive)
  BY <1>2, <1>3, <1>4
<1> DEFINE step == IF c.stale = {t} THEN "record" ELSE "stale"
           d == [c EXCEPT !.pc = step, !.stale = c.stale \ {t}]
<1>6. op' = [op EXCEPT ![o] = d]
  BY <1>3, <1>4
<1>7. step \in {"record", "stale"}
  OBVIOUS
<1> HIDE DEF step
<1>8. d \in NoticeLocals
  BY <1>2, <1>7 DEF NoticeLocals, WithRecipient
<1>9. /\ d.pc # "idle" /\ d.req = c.req /\ d.todo = c.todo /\ d.user = c.user
      /\ d.tokens = {} /\ d.stale \subseteq c.stale
  BY <1>2, <1>7 DEF NoticeLocals
<1> HIDE DEF d
<1>10. /\ op' \in [Calls -> NoticeLocals] /\ op'[o] = d
       /\ \A p \in Calls : p # o => op'[p] = op[p]
  BY <1>3, <1>6, <1>8
<1>11. NoticeTyped'
  BY <1>1, <1>5, <1>10 DEF NoticeTyped
<1>12. CallGoesOn(o)
  BY <1>1, <1>2, <1>5, <1>9, <1>10 DEF CallGoesOn
<1> QED
  BY <1>11, <1>12, CallKeeps

\* An e-mail is delivered, or not.
LEMMA SendEmailKeeps ==
    ASSUME NoticeInv, NEW o \in Calls, Notice!SendEmail(o) \/ Notice!SendInApp(o)
    PROVE  NoticeInv'
<1> DEFINE c == op[o]
<1>1. /\ NoticeTyped /\ DevicesSound /\ c.pc \in {"email", "in_app"}
      /\ prefs' = prefs /\ device' = device /\ inbox' = inbox /\ choice' = choice
      /\ optedOut' = optedOut /\ holder' = holder /\ held' = held /\ refused' = refused
  BY DEF NoticeInv, Notice!SendEmail, Notice!SendInApp, Notice!store, Notice!history
<1>2. /\ c \in NoticeLocals /\ c.stale \subseteq refused /\ c.user \in Users
      /\ c.pc \in WithRecipient /\ c.pc # "idle"
  <2>1. c.pc \in WithRecipient
    BY <1>1 DEF WithRecipient
  <2> QED
    BY <1>1, <2>1, CallFields DEF DevicesSound
<1>3. reached \in [Calls -> SUBSET (Users \X (Tokens \cup {"email", "live"}))]
  BY <1>1 DEF NoticeTyped
<1>4. PICK ok \in BOOLEAN : Notice!Recorded(o, ok)
  BY DEF Notice!SendEmail, Notice!SendInApp
<1>5. /\ op' \in [Calls -> NoticeLocals]
      /\ \A p \in Calls : p # o => op'[p] = op[p]
      /\ op'[o].pc # "idle" /\ op'[o].req = c.req /\ op'[o].todo = c.todo
      /\ op'[o].user = c.user /\ op'[o].tokens = {} /\ op'[o].stale = c.stale
  BY <1>1, <1>2, <1>4, RecordedMoves
<1>6. reached' = reached \/ reached' = [reached EXCEPT ![o] = @ \cup {<<c.user, "email">>}]
  BY DEF Notice!SendEmail, Notice!SendInApp, Notice!history
<1>7. /\ reached' \in [Calls -> SUBSET (Users \X (Tokens \cup {"email", "live"}))]
      /\ \A p \in Calls : p # o => reached'[p] = reached[p]
      /\ reached'[o] \subseteq reached[o] \cup {<<c.user, "email">>}
  BY <1>2, <1>3, <1>6
<1>8. NoticeTyped'
  BY <1>1, <1>5, <1>7 DEF NoticeTyped
<1>9. CallGoesOn(o)
  BY <1>1, <1>2, <1>5, <1>7 DEF CallGoesOn
<1> QED
  BY <1>8, <1>9, CallKeeps

\* The call is done with its recipient: an in-app or failed notification may be kept.
LEMMA RecordKeeps ==
    ASSUME NoticeInv, NEW o \in Calls, Notice!Record(o) PROVE NoticeInv'
<1> DEFINE c == op[o]
           n == [id |-> <<o, c.user>>, user |-> c.user, channel |-> c.req.channel,
                 status |-> IF c.ok THEN "sent" ELSE "failed", isRead |-> FALSE]
           d == [c EXCEPT !.pc = "next", !.user = None, !.ok = TRUE]
<1>1. /\ NoticeTyped /\ DevicesSound /\ c.pc = "record"
      /\ prefs' = prefs /\ device' = device /\ choice' = choice
      /\ optedOut' = optedOut /\ holder' = holder /\ held' = held /\ refused' = refused
      /\ reached' = [reached EXCEPT ![o] = @ \cup {<<c.user, "live">>}]
      /\ (Notice!Keeps(c.req.channel, c.ok) /\ inbox' = inbox \cup {n}) \/ inbox' = inbox
  BY DEF NoticeInv, Notice!Record
<1>2. /\ c \in NoticeLocals /\ c.stale \subseteq refused /\ c.user \in Users
      /\ c.pc \in WithRecipient /\ c.pc # "idle" /\ c.tokens = {}
      /\ c.req \in NoticeRequests /\ None \notin Users
  <2>1. c.pc \in WithRecipient
    BY <1>1 DEF WithRecipient
  <2> QED
    BY <1>1, <2>1, CallFields, NoticeAssumption DEF DevicesSound, NoticeLocals
<1>3. /\ reached \in [Calls -> SUBSET (Users \X (Tokens \cup {"email", "live"}))]
      /\ op \in [Calls -> NoticeLocals] /\ inbox \subseteq NoticeRow
  BY <1>1 DEF NoticeTyped
<1>4. op' = [op EXCEPT ![o] = d]
  BY <1>3 DEF Notice!Record
<1>5. d \in NoticeLocals
  <2>1. "next" \notin WithRecipient
    BY DEF WithRecipient
  <2> QED
    BY <1>2, <2>1 DEF NoticeLocals
<1>6. /\ d.pc # "idle" /\ d.req = c.req /\ d.todo = c.todo /\ d.user = None
      /\ d.tokens = {} /\ d.stale = c.stale
  BY <1>2 DEF NoticeLocals
<1> HIDE DEF d
<1>7. /\ op' \in [Calls -> NoticeLocals] /\ op'[o] = d
      /\ \A p \in Calls : p # o => op'[p] = op[p]
  BY <1>3, <1>4, <1>5
<1>8. Notice!Keeps(c.req.channel, c.ok) => n \in NoticeRow
  <2>1. c.req.channel \in {"push", "silent", "email", "in_app", None}
    BY <1>2, NoticeRequestFields
  <2>2. c.ok \in BOOLEAN /\ <<o, c.user>> \in Calls \X Users
    BY <1>2 DEF NoticeLocals
  <2>3. c.ok => n.status = "sent"
    OBVIOUS
  <2>4. ~c.ok => n.status = "failed"
    OBVIOUS
  <2>5. n.channel = c.req.channel
    OBVIOUS
  <2>6. n \in [id : Calls \X Users, user : Users,
               channel : {"push", "silent", "email", "in_app", None},
               status : {"sent", "failed", "read"}, isRead : BOOLEAN]
    BY <1>2, <2>1, <2>2
  <2> QED
    BY <2>3, <2>4, <2>5, <2>6 DEF NoticeRow, Notice!Keeps
<1>9. n.id = <<o, c.user>>
  OBVIOUS
<1> HIDE DEF n
<1>10. /\ reached' \in [Calls -> SUBSET (Users \X (Tokens \cup {"email", "live"}))]
       /\ \A p \in Calls : p # o => reached'[p] = reached[p]
       /\ reached'[o] \subseteq reached[o] \cup {<<c.user, "live">>}
  BY <1>1, <1>2, <1>3
<1>11. NoticeTyped'
  BY <1>1, <1>3, <1>7, <1>8, <1>10 DEF NoticeTyped
<1>12. CallGoesOn(o)
  BY <1>1, <1>2, <1>6, <1>7, <1>9, <1>10 DEF CallGoesOn
<1> QED
  BY <1>11, <1>12, CallKeeps

\* The call has gone through its recipients.
LEMMA ReturnKeeps ==
    ASSUME NoticeInv, NEW o \in Calls, Notice!Return(o) PROVE NoticeInv'
<1> DEFINE c == op[o]
           d == [Notice!Idle EXCEPT !.pc = "done", !.req = c.req]
<1>1. /\ NoticeTyped /\ c.pc = "next" /\ op' = [op EXCEPT ![o] = d]
      /\ prefs' = prefs /\ device' = device /\ choice' = choice /\ inbox' = inbox
      /\ optedOut' = optedOut /\ holder' = holder /\ held' = held /\ refused' = refused
      /\ reached' = reached
  BY DEF NoticeInv, Notice!Return, Notice!store, Notice!history
<1>2. c.req \in NoticeRequests /\ op \in [Calls -> NoticeLocals]
  BY <1>1, CallFields DEF NoticeTyped
<1>3. /\ d \in NoticeLocals
      /\ d.pc # "idle" /\ d.req = c.req /\ d.todo = {} /\ d.user = None
      /\ d.tokens = {} /\ d.stale = {}
  BY <1>2, NoticeAssumption DEF Notice!Idle, NoticeLocals, WithRecipient
<1> HIDE DEF d
<1>4. /\ op' \in [Calls -> NoticeLocals] /\ op'[o] = d
      /\ \A p \in Calls : p # o => op'[p] = op[p]
  BY <1>1, <1>2, <1>3
<1>5. NoticeTyped'
  BY <1>1, <1>4 DEF NoticeTyped
<1>6. CallGoesOn(o)
  BY <1>1, <1>3, <1>4 DEF CallGoesOn
<1> QED
  BY <1>5, <1>6, CallKeeps

\* A call begins: the history notes who holds which device and who has opted out.
LEMMA BeginKeeps ==
    ASSUME NoticeInv, NEW o \in Calls, Notice!Begin(o) PROVE NoticeInv'
<1>1. /\ NoticeTyped /\ InboxSound /\ DevicesSound /\ Notice!PushReachesHolder
      /\ Notice!SilencedOnlyIfRefused /\ OptOutsPending /\ Notice!OptOutKept
      /\ op[o].pc = "idle" /\ reached[o] = {}
      /\ prefs' = prefs /\ device' = device /\ choice' = choice /\ inbox' = inbox
      /\ holder' = holder /\ refused' = refused
      /\ held' = [held EXCEPT ![o] = {<<holder[t], t>> : t \in Tokens}]
  BY DEF NoticeInv, DevicesSound, Notice!Begin, Notice!store
<1>2. PICK req \in NoticeRequests :
         /\ IF req.kind = "broadcast" /\ req.channel = "email"
            THEN Notice!BroadcastEmailAsync(o, req)
            ELSE Notice!ToEach(o, req)
         /\ optedOut' = [optedOut EXCEPT ![o] =
                            {u \in req.to : choice[u] \cap Notice!KeysOf(req) # {}}]
  BY DEF Notice!Begin
<1>3. /\ op \in [Calls -> NoticeLocals] /\ req.to \subseteq Users
      /\ reached \in [Calls -> SUBSET (Users \X (Tokens \cup {"email", "live"}))]
      /\ held \in [Calls -> SUBSET ((Users \cup {None}) \X Tokens)]
      /\ optedOut \in [Calls -> SUBSET Users] /\ holder \in [Tokens -> Users \cup {None}]
  BY <1>1, NoticeRequestFields DEF NoticeTyped
<1>4. PICK d \in NoticeLocals :
         /\ op' = [op EXCEPT ![o] = d]
         /\ d.pc # "idle" /\ d.req = req /\ d.user = None /\ d.tokens = {} /\ d.stale = {}
  <2> DEFINE e == [Notice!Idle EXCEPT !.pc = "done", !.req = req]
             f == [Notice!Idle EXCEPT !.pc = "next", !.req = req, !.todo = req.to]
  <2>1. /\ e \in NoticeLocals
        /\ e.pc # "idle" /\ e.req = req /\ e.user = None /\ e.tokens = {} /\ e.stale = {}
    BY <1>2, NoticeAssumption DEF Notice!Idle, NoticeLocals, WithRecipient
  <2>2. /\ f \in NoticeLocals
        /\ f.pc # "idle" /\ f.req = req /\ f.user = None /\ f.tokens = {} /\ f.stale = {}
    BY <1>2, <1>3, NoticeAssumption DEF Notice!Idle, NoticeLocals, WithRecipient
  <2>3. op' = [op EXCEPT ![o] = e] \/ op' = [op EXCEPT ![o] = f]
    BY <1>2 DEF Notice!BroadcastEmailAsync, Notice!ToEach
  <2> HIDE DEF e, f
  <2> QED
    BY <2>1, <2>2, <2>3
<1>5. /\ op' \in [Calls -> NoticeLocals] /\ op'[o] = d
      /\ \A p \in Calls : p # o => op'[p] = op[p]
  BY <1>3, <1>4
<1>6. /\ reached' \in [Calls -> SUBSET (Users \X (Tokens \cup {"email", "live"}))]
      /\ \A p \in Calls : p # o => reached'[p] = reached[p]
      /\ reached'[o] = {} \/ (req.kind = "broadcast" /\ reached'[o] \subseteq Users \X {"email"})
  <2>1. CASE UNCHANGED reached
    BY <1>1, <1>3, <2>1
  <2>2. ASSUME req.kind = "broadcast", NEW queued \in SUBSET req.to,
               reached' = [reached EXCEPT ![o] = queued \X {"email"}]
        PROVE  <1>6!:
    BY <1>3, <2>2
  <2> QED
    BY <1>2, <2>1, <2>2 DEF Notice!BroadcastEmailAsync, Notice!ToEach
<1>7. /\ held' \in [Calls -> SUBSET ((Users \cup {None}) \X Tokens)]
      /\ \A t \in Tokens : <<holder[t], t>> \in held'[o]
      /\ \A p \in Calls : p # o => held'[p] = held[p]
  <2>1. {<<holder[t], t>> : t \in Tokens} \subseteq (Users \cup {None}) \X Tokens
    BY <1>3
  <2> QED
    BY <1>1, <1>3, <2>1
<1>8. /\ optedOut' \in [Calls -> SUBSET Users]
      /\ \A u \in optedOut'[o] : u \in Users /\ choice[u] \cap Notice!KeysOf(req) # {}
      /\ \A p \in Calls : p # o => optedOut'[p] = optedOut[p]
  BY <1>2, <1>3
<1>9. NoticeTyped'
  BY <1>1, <1>5, <1>6, <1>7, <1>8 DEF NoticeTyped
<1>10. InboxSound'
  <2>1. \A n \in inbox : n.id[1] \in Calls
    BY <1>1 DEF NoticeTyped, NoticeRow
  <2> QED
    BY <1>1, <1>5, <2>1 DEF InboxSound
<1>11. DevicesSound'
  BY <1>1, <1>4, <1>5, <1>6, <1>7 DEF DevicesSound
<1>12. Notice!PushReachesHolder'
  <2>1. \A u \in Users, t \in Tokens : <<u, t>> \notin reached'[o]
    BY <1>6, NoticeAssumption
  <2> QED
    BY <1>1, <1>6, <1>7, <2>1 DEF Notice!PushReachesHolder
<1>13. Notice!SilencedOnlyIfRefused'
  BY <1>1 DEF Notice!SilencedOnlyIfRefused
<1>14. OptOutsPending'
  <2>1. \A u \in optedOut'[o] : op'[o].user # u
    BY <1>4, <1>5, <1>8, NoticeAssumption
  <2>2. \A p \in Calls : \A u \in optedOut'[p] : choice'[u] \cap Notice!KeysOf(op'[p].req) # {}
    BY <1>1, <1>4, <1>5, <1>8 DEF OptOutsPending
  <2>3. \A p \in Calls : \A u \in optedOut'[p] :
            prefs'[u].id = "uuid" /\ op'[p].req.kind = "send" => op'[p].user # u
    BY <1>1, <1>5, <1>8, <2>1 DEF OptOutsPending, Notice!Decodable
  <2> QED
    BY <2>2, <2>3 DEF OptOutsPending, Notice!Decodable, Notice!KeysOf
<1>15. Notice!OptOutKept'
  <2>1. req.kind = "send" => reached'[o] = {}
    BY <1>6
  <2> QED
    BY <1>1, <1>4, <1>5, <1>6, <1>8, <2>1 DEF Notice!OptOutKept, Notice!Decodable
<1> QED
  BY <1>9, <1>10, <1>11, <1>12, <1>13, <1>14, <1>15 DEF NoticeInv

\* A device is registered: it is its holder's, and in the books of every call.
LEMMA RegisterDeviceKeeps ==
    ASSUME NoticeInv, NEW u \in Users, NEW t \in Tokens, Notice!RegisterDevice(u, t)
    PROVE  NoticeInv'
<1>1. /\ NoticeTyped /\ InboxSound /\ DevicesSound /\ Notice!PushReachesHolder
      /\ Notice!SilencedOnlyIfRefused /\ OptOutsPending /\ Notice!OptOutKept
      /\ prefs' = prefs /\ choice' = choice /\ inbox' = inbox /\ op' = op
      /\ optedOut' = optedOut /\ reached' = reached /\ refused' = refused
      /\ device' = [device EXCEPT ![t] = [owner |-> u, isActive |-> TRUE]]
      /\ holder' = [holder EXCEPT ![t] = u]
      /\ held' = [o \in Calls |-> held[o] \cup {<<u, t>>}]
  BY DEF NoticeInv, Notice!RegisterDevice, Notice!Owned
<1>2. NoticeTyped'
  BY <1>1 DEF NoticeTyped
<1>3. InboxSound' /\ OptOutsPending' /\ Notice!OptOutKept'
  BY <1>1 DEF InboxSound, OptOutsPending, Notice!OptOutKept, Notice!Decodable, Notice!KeysOf
<1>4. /\ DOMAIN device = Tokens /\ DOMAIN holder = Tokens /\ u # None
      /\ \A o \in Calls : held[o] \subseteq held'[o] /\ <<u, t>> \in held'[o]
  BY <1>1, NoticeAssumption DEF NoticeTyped
<1>5. DevicesSound'
  BY <1>1, <1>4 DEF DevicesSound
<1>6. Notice!PushReachesHolder' /\ Notice!SilencedOnlyIfRefused'
  BY <1>1, <1>4 DEF Notice!PushReachesHolder, Notice!SilencedOnlyIfRefused
<1> QED
  BY <1>2, <1>3, <1>5, <1>6 DEF NoticeInv

\* A device is removed by its user, or by somebody whose device it is not.
LEMMA RemoveDeviceKeeps ==
    ASSUME NoticeInv, NEW u \in Users, NEW t \in Tokens, Notice!RemoveDevice(u, t)
    PROVE  NoticeInv'
<1>1. /\ NoticeTyped /\ InboxSound /\ DevicesSound /\ Notice!PushReachesHolder
      /\ Notice!SilencedOnlyIfRefused /\ OptOutsPending /\ Notice!OptOutKept
      /\ prefs' = prefs /\ choice' = choice /\ inbox' = inbox /\ op' = op
      /\ optedOut' = optedOut /\ reached' = reached /\ refused' = refused /\ held' = held
      /\ device' = [device EXCEPT ![t].isActive = @ /\ device[t].owner # u]
      /\ holder' = [holder EXCEPT ![t] = IF @ = u THEN None ELSE @]
  BY DEF NoticeInv, Notice!RemoveDevice, Notice!Deactivated
<1>2. /\ device \in [Tokens -> [owner : Users \cup {None}, isActive : BOOLEAN]]
      /\ holder \in [Tokens -> Users \cup {None}] /\ u # None
  BY <1>1, NoticeAssumption DEF NoticeTyped
<1> DEFINE row == [device[t] EXCEPT !.isActive = device[t].isActive /\ device[t].owner # u]
<1>3. device' = [device EXCEPT ![t] = row]
  BY <1>1, <1>2
<1>4. /\ row \in [owner : Users \cup {None}, isActive : BOOLEAN]
      /\ row.isActive => row = device[t] /\ device[t].isActive /\ device[t].owner # u
      /\ device[t].owner # u => row = device[t]
  <2>1. device[t] \in [owner : Users \cup {None}, isActive : BOOLEAN]
    BY <1>2
  <2> QED
    BY <2>1
<1> HIDE DEF row
<1>5. /\ device' \in [Tokens -> [owner : Users \cup {None}, isActive : BOOLEAN]]
      /\ holder' \in [Tokens -> Users \cup {None}]
  BY <1>1, <1>2, <1>3, <1>4
<1>6. NoticeTyped'
  BY <1>1, <1>5 DEF NoticeTyped
<1>7. InboxSound' /\ OptOutsPending' /\ Notice!OptOutKept' /\ Notice!PushReachesHolder'
  BY <1>1 DEF InboxSound, OptOutsPending, Notice!OptOutKept, Notice!Decodable, Notice!KeysOf,
              Notice!PushReachesHolder
<1>8. \A s \in Tokens : holder'[s] = holder[s] \/ (s = t /\ holder[t] = u /\ holder'[s] = None)
  BY <1>1, <1>2
<1>9. ASSUME NEW s \in Tokens, device'[s].isActive
      PROVE  holder'[s] = device'[s].owner /\ holder'[s] # None
  <2>1. device'[s] = device[s] /\ device[s].isActive /\ (s = t => device[s].owner # u)
    BY <1>2, <1>3, <1>4, <1>9
  <2> QED
    BY <1>1, <1>8, <2>1 DEF DevicesSound
<1>10. DevicesSound'
  BY <1>1, <1>8, <1>9 DEF DevicesSound
<1>11. ASSUME NEW s \in Tokens, holder'[s] # None,
              device'[s] # [owner |-> holder'[s], isActive |-> TRUE]
       PROVE  s \in refused
  <2>1. holder'[s] = holder[s] /\ holder[s] # None /\ (s = t => holder[t] # u)
    BY <1>1, <1>2, <1>8, <1>11
  <2>2. CASE device[s] = [owner |-> holder[s], isActive |-> TRUE]
    <3>1. device[s].owner = holder[s]
      BY <2>2
    <3>2. device'[s] = device[s]
      BY <1>2, <1>3, <1>4, <2>1, <3>1
    <3> QED
      BY <1>11, <2>1, <2>2, <3>2
  <2>3. CASE device[s] # [owner |-> holder[s], isActive |-> TRUE]
    BY <1>1, <2>1, <2>3 DEF Notice!SilencedOnlyIfRefused
  <2> QED
    BY <2>2, <2>3
<1>12. Notice!SilencedOnlyIfRefused'
  BY <1>1, <1>11 DEF Notice!SilencedOnlyIfRefused
<1> QED
  BY <1>6, <1>7, <1>10, <1>12 DEF NoticeInv

\* A preference is switched: who switches it back on is no longer among those who opted out.
LEMMA UpdatePreferencesKeeps ==
    ASSUME NoticeInv, NEW u \in Users, NEW key \in MutedKeys, NEW on \in BOOLEAN,
           Notice!UpdatePreferences(u, key, on)
    PROVE  NoticeInv'
<1> DEFINE off == IF on THEN prefs[u].off \ {key} ELSE prefs[u].off \cup {key}
           chosen == IF on THEN choice[u] \ {key} ELSE choice[u] \cup {key}
           row == [id |-> IF prefs[u] = Notice!NoPrefs THEN "objectid" ELSE prefs[u].id,
                   off |-> off]
<1>1. /\ NoticeTyped /\ InboxSound /\ DevicesSound /\ Notice!PushReachesHolder
      /\ Notice!SilencedOnlyIfRefused /\ OptOutsPending /\ Notice!OptOutKept
      /\ device' = device /\ inbox' = inbox /\ op' = op
      /\ reached' = reached /\ refused' = refused /\ held' = held /\ holder' = holder
      /\ optedOut' = [o \in Calls |-> IF on /\ key \in Notice!KeysOf(op[o].req)
                                      THEN optedOut[o] \ {u} ELSE optedOut[o]]
  BY DEF NoticeInv, Notice!UpdatePreferences
<1>2. /\ prefs \in [Users -> Pref] /\ choice \in [Users -> SUBSET PrefKeys]
      /\ optedOut \in [Calls -> SUBSET Users]
  BY <1>1 DEF NoticeTyped
<1>3. prefs' = [prefs EXCEPT ![u] = row] /\ choice' = [choice EXCEPT ![u] = chosen]
  BY <1>2 DEF Notice!UpdatePreferences
<1>4. /\ row \in Pref /\ row.off = off /\ row.id \in {"objectid", prefs[u].id}
      /\ chosen \in SUBSET PrefKeys
  <2>1. prefs[u].off \subseteq PrefKeys /\ prefs[u].id \in {None, "uuid", "objectid"}
    BY <1>2 DEF Pref
  <2>2. key \in PrefKeys
    BY DEF PrefKeys
  <2>3. off \subseteq PrefKeys
    BY <2>1, <2>2
  <2>4. chosen \subseteq PrefKeys
    BY <1>2, <2>2
  <2> HIDE DEF off, chosen
  <2> QED
    BY <2>1, <2>3, <2>4 DEF Pref
<1>5. chosen \subseteq off
  BY <1>1 DEF Notice!OptOutKept
<1> HIDE DEF row, off
<1>6. /\ prefs' \in [Users -> Pref] /\ choice' \in [Users -> SUBSET PrefKeys]
      /\ optedOut' \in [Calls -> SUBSET Users]
      /\ \A o \in Calls : optedOut'[o] \subseteq optedOut[o]
      /\ \A v \in Users : Notice!Decodable(prefs'[v]) => Notice!Decodable(prefs[v])
  BY <1>1, <1>2, <1>3, <1>4 DEF Notice!Decodable
<1>7. NoticeTyped'
  BY <1>1, <1>6 DEF NoticeTyped
<1>8. /\ InboxSound' /\ DevicesSound' /\ Notice!PushReachesHolder'
      /\ Notice!SilencedOnlyIfRefused'
  BY <1>1 DEF InboxSound, DevicesSound, Notice!PushReachesHolder, Notice!SilencedOnlyIfRefused
<1>9. ASSUME NEW o \in Calls, NEW v \in optedOut'[o]
      PROVE  choice'[v] \cap Notice!KeysOf(op[o].req) # {}
  <2>1. /\ v \in optedOut[o] /\ v \in Users
        /\ v = u /\ on => key \notin Notice!KeysOf(op[o].req)
    BY <1>1, <1>2
  <2>2. choice[v] \cap Notice!KeysOf(op[o].req) # {}
    BY <1>1, <2>1 DEF OptOutsPending
  <2>3. v # u => choice'[v] = choice[v]
    BY <1>2, <1>3, <2>1
  <2>4. choice'[u] = chosen
    BY <1>2, <1>3
  <2> QED
    BY <2>1, <2>2, <2>3, <2>4
<1>10. OptOutsPending'
  <2>1. \A o \in Calls : \A v \in optedOut'[o] :
            Notice!Decodable(prefs'[v]) /\ op[o].req.kind = "send" => op[o].user # v
    BY <1>1, <1>2, <1>6 DEF OptOutsPending
  <2> QED
    BY <1>1, <1>9, <2>1 DEF OptOutsPending, Notice!Decodable, Notice!KeysOf
<1>11. Notice!OptOutKept'
  <2>1. \A v \in Users : choice'[v] \subseteq prefs'[v].off
    BY <1>1, <1>2, <1>3, <1>4, <1>5 DEF Notice!OptOutKept
  <2>2. \A o \in Calls : \A v \in optedOut'[o] :
            Notice!Decodable(prefs'[v]) /\ op[o].req.kind = "send"
                => \A what \in Tokens \cup {"email", "live"} : <<v, what>> \notin reached[o]
    BY <1>1, <1>2, <1>6 DEF Notice!OptOutKept
  <2> QED
    BY <1>1, <2>1, <2>2 DEF Notice!OptOutKept, Notice!Decodable
<1> QED
  BY <1>7, <1>8, <1>10, <1>11 DEF NoticeInv

\* The inbox is read or emptied: a notification that is read keeps its identity.
LEMMA InboxKeeps ==
    ASSUME NoticeInv, NEW new, Notice!Inbox(new),
           \/ new \subseteq inbox
           \/ \E some \in SUBSET inbox :
                 new = (inbox \ some) \cup {Notice!Read(n) : n \in some}
    PROVE  NoticeInv'
<1>1. /\ NoticeTyped /\ InboxSound /\ DevicesSound /\ Notice!PushReachesHolder
      /\ Notice!SilencedOnlyIfRefused /\ OptOutsPending /\ Notice!OptOutKept
      /\ device' = device /\ prefs' = prefs /\ choice' = choice /\ op' = op
      /\ reached' = reached /\ refused' = refused /\ held' = held /\ holder' = holder
      /\ optedOut' = optedOut /\ inbox' = new
  BY DEF NoticeInv, Notice!Inbox, Notice!history
<1>2. inbox \subseteq NoticeRow
  BY <1>1 DEF NoticeTyped
<1>3. ASSUME NEW n \in inbox PROVE Notice!Read(n) \in NoticeRow /\ Notice!Read(n).id = n.id
  BY <1>2 DEF NoticeRow, Notice!Read
<1>4. CASE new \subseteq inbox
  <2>1. NoticeTyped' /\ InboxSound'
    BY <1>1, <1>2, <1>4 DEF NoticeTyped, InboxSound
  <2> QED
    BY <1>1, <2>1 DEF NoticeInv, DevicesSound, Notice!PushReachesHolder,
       Notice!SilencedOnlyIfRefused, OptOutsPending, Notice!OptOutKept, Notice!Decodable,
       Notice!KeysOf
<1>5. ASSUME NEW some \in SUBSET inbox, new = (inbox \ some) \cup {Notice!Read(n) : n \in some}
      PROVE  NoticeInv'
  <2>1. NoticeTyped'
    BY <1>1, <1>2, <1>3, <1>5 DEF NoticeTyped
  <2>2. \A m \in new : \E n \in inbox : /\ m.id = n.id
                                        /\ n \in some => m = Notice!Read(n)
                                        /\ n \notin some => m = n
    <3> SUFFICES ASSUME NEW m \in new
                 PROVE  \E n \in inbox : /\ m.id = n.id
                                         /\ n \in some => m = Notice!Read(n)
                                         /\ n \notin some => m = n
      OBVIOUS
    <3>1. CASE m \in inbox \ some
      BY <3>1
    <3>2. ASSUME NEW n \in some, m = Notice!Read(n)
          PROVE  \E k \in inbox : /\ m.id = k.id
                                  /\ k \in some => m = Notice!Read(k)
                                  /\ k \notin some => m = k
      <4>1. n \in inbox /\ m.id = n.id
        BY <1>3, <3>2
      <4> QED
        BY <3>2, <4>1
    <3> QED
      BY <1>5, <3>1, <3>2
  <2>3. \A n, m \in inbox : n.id = m.id => n = m
    BY <1>1 DEF InboxSound
  <2>4. \A n, m \in new : n.id = m.id => n = m
    BY <2>2, <2>3
  <2>5. \A n \in new :
           LET c == op[n.id[1]]
           IN  c.pc # "idle" /\ n.id[2] \notin c.todo /\ n.id[2] # c.user
    BY <1>1, <2>2 DEF InboxSound
  <2>6. InboxSound'
    BY <1>1, <2>4, <2>5 DEF InboxSound
  <2> QED
    BY <1>1, <2>1, <2>6 DEF NoticeInv, DevicesSound, Notice!PushReachesHolder,
       Notice!SilencedOnlyIfRefused, OptOutsPending, Notice!OptOutKept, Notice!Decodable,
       Notice!KeysOf
<1> QED
  BY <1>4, <1>5

\* Every step of the notifications keeps the invariant.
LEMMA NoticeKeeps == ASSUME NoticeInv, Notice!Next PROVE NoticeInv'
<1>1. ASSUME NEW o \in Calls, Notice!Call(o) PROVE NoticeInv'
  BY <1>1, BeginKeeps, FindPreferencesKeeps, GetPreferencesKeeps, ReadTokensKeeps,
     SendMulticastKeeps, DeactivateStaleKeeps, SendEmailKeeps, RecordKeeps, ReturnKeeps
     DEF Notice!Call
<1>2. ASSUME NEW u \in Users, NEW n \in inbox, Notice!MarkRead(u, n) PROVE NoticeInv'
  <2>1. /\ Notice!Inbox((inbox \ {n}) \cup {Notice!Read(n)})
        /\ {n} \in SUBSET inbox /\ {Notice!Read(n)} = {Notice!Read(m) : m \in {n}}
    BY <1>2 DEF Notice!MarkRead
  <2> QED
    BY <2>1, InboxKeeps
<1>3. ASSUME NEW u \in Users, NEW n \in inbox, Notice!Delete(u, n) PROVE NoticeInv'
  <2>1. Notice!Inbox(inbox \ {n}) /\ inbox \ {n} \subseteq inbox
    BY <1>3 DEF Notice!Delete
  <2> QED
    BY <2>1, InboxKeeps
<1>4. ASSUME NEW u \in Users, Notice!MarkAllRead(u) PROVE NoticeInv'
  <2> DEFINE unread == {n \in Notice!InApp(u) : ~n.isRead}
             new == (inbox \ unread) \cup {Notice!Read(n) : n \in unread}
  <2>1. Notice!Inbox(new) /\ unread \in SUBSET inbox
    BY <1>4 DEF Notice!MarkAllRead, Notice!InApp
  <2>2. \E some \in SUBSET inbox : new = (inbox \ some) \cup {Notice!Read(n) : n \in some}
    BY <2>1
  <2> HIDE DEF new
  <2> QED
    BY <2>1, <2>2, InboxKeeps
<1>5. ASSUME NEW u \in Users, NEW readOnly \in BOOLEAN, Notice!DeleteAll(u, readOnly)
      PROVE  NoticeInv'
  <2> DEFINE new == inbox \ {n \in Notice!InApp(u) : readOnly => n.isRead}
  <2>1. Notice!Inbox(new) /\ new \subseteq inbox
    BY <1>5 DEF Notice!DeleteAll
  <2> HIDE DEF new
  <2> QED
    BY <2>1, InboxKeeps
<1> QED
  BY <1>1, <1>2, <1>3, <1>4, <1>5, RegisterDeviceKeeps, RemoveDeviceKeeps,
     UpdatePreferencesKeeps DEF Notice!Next
-----------------------------------------------------------------------------
(* The accounts keep their invariant *)

\* The locals of a request by the step it is at.
LEMMA AdminLocalsByStep ==
    ASSUME NEW c \in AdminLocals
    PROVE  /\ c.pc \in {"idle", "write", "username", "insert"}
           /\ c.pc = "idle" <=> c = Admin!Idle
           /\ c.pc = "write" => /\ c.req \in AdminRequests /\ c.req.kind # "create"
                                /\ c.actor \in Rows /\ c.target \in Rows
                                /\ c.read \in AdminPairs
           /\ c.pc \in {"username", "insert"} =>
                /\ c.req \in AdminRequests /\ c.req.kind = "create" /\ c.actor \in Rows
                /\ [c EXCEPT !.pc = "insert"] \in AdminLocals
  BY DEF AdminLocals, Admin!Idle

\* A body has the fields of a body.
LEMMA AdminRequestFields ==
    ASSUME NEW q \in AdminRequests
    PROVE  /\ q \in Admin!Request
           /\ q.kind \in {"create", "update", "password", "reset", "link", "block", "unblock",
                          "delete", "login", "failedLogin"}
           /\ q.role \in Admin!RoleSlugs \cup {None}
           /\ q.extra \in Admin!Lists \cup {None} /\ q.revoked \in Admin!Lists \cup {None}
           /\ q.name \in STRING \cup {None} /\ q.new \in STRING
           /\ q.kind = "create" =>
                /\ q.role \in Admin!RoleSlugs /\ q.extra \in Admin!Lists
                /\ q.revoked \in Admin!Lists /\ q.name \in STRING
                /\ q.email \in STRING /\ q.username \in STRING
  BY AdminAssumption DEF Admin!Request, Admin!Kept

\* The fields of a document.
LEMMA UserFields ==
    ASSUME NEW u \in Admin!User
    PROVE  /\ u # None
           /\ u.role \in Admin!RoleSlugs /\ u.extra \in Admin!Lists /\ u.revoked \in Admin!Lists
           /\ [extra |-> u.extra, revoked |-> u.revoked] \in AdminPairs
           /\ Admin!Claimed(u) \in AdminClaim
<1>1. /\ u # None
      /\ u.role \in Admin!RoleSlugs /\ u.extra \in Admin!Lists /\ u.revoked \in Admin!Lists
  BY AdminAssumption DEF Admin!User
<1>2. Admin!SystemRoles(u.role) \subseteq Admin!AllAssignablePermissions \cup {"*"}
  BY <1>1 DEF Admin!SystemRoles, Admin!AllAssignablePermissions, Admin!PermAll, Admin!RoleSlugs,
              Admin!AssignableTenantRoles
<1>3. Admin!GrantedBy(u) \subseteq Admin!AllAssignablePermissions \cup {"*"}
  BY <1>1, <1>2 DEF Admin!GrantedBy, Admin!EffectivePermissions, Admin!Lists
<1> QED
  BY <1>1, <1>3 DEF Admin!Claimed, AdminClaim, AdminPairs

\* The seeded accounts are sound.
LEMMA AdminStarts == Admin!Init => AdminInv
<1> SUFFICES ASSUME Admin!Init PROVE AdminInv
  OBVIOUS
<1>0. \A o \in Calls : request[o] = Admin!Idle /\ request[o].pc = "idle"
  BY DEF Admin!Init, Admin!Idle
<1>1. AdminTyped
  <2>1. \A r \in Rows : Seeded[r] = None \/ Seeded[r] \in Admin!User
    BY AdminAssumption
  <2>2. claims \in [Rows -> AdminClaim \cup {None}]
    BY <2>1, UserFields DEF Admin!Init
  <2>3. /\ asked \in [Rows -> AdminPairs \cup {None}]
        /\ \A r \in Rows : users[r] # None => asked[r] \in AdminPairs
    BY <2>1, UserFields DEF Admin!Init
  <2>4. request \in [Calls -> AdminLocals]
    BY DEF Admin!Init, AdminLocals
  <2> QED
    BY <1>0, <2>2, <2>3, <2>4, AdminAssumption, BootAssumption DEF Admin!Init, AdminTyped
<1>2. Admin!GrantUnambiguous /\ Admin!NamesUnique
  BY AdminAssumption DEF Admin!Init, Admin!GrantUnambiguous, Admin!NamesUnique
<1>3. Admin!LostOnlyToOverlap
  BY AdminAssumption DEF Admin!Init, Admin!LostOnlyToOverlap
<1>4. GrantsPending /\ ListsPending
  BY <1>0 DEF GrantsPending, ListsPending, Changing
<1> QED
  BY <1>1, <1>2, <1>3, <1>4 DEF AdminInv

\* A request that ends leaves the other requests alone.
LEMMA AdminEnds ==
    ASSUME AdminTyped, NEW o \in Calls, Admin!Ends(o)
    PROVE  /\ request' \in [Calls -> AdminLocals]
           /\ request'[o] = Admin!Idle /\ request'[o].pc = "idle"
           /\ \A p \in Calls : p # o => request'[p] = request[p]
  BY DEF AdminTyped, Admin!Ends, Admin!Idle, AdminLocals

\* What is pending stays sound where no request comes to a write or an insert, and nobody's
\* last lists change under one that is about to write them.
LEMMA PendingKept ==
    ASSUME AdminInv, crossed' = crossed,
           \A p \in Calls : request'[p] = request[p] \/ request'[p].pc \in {"idle", "username"},
           \A p \in Calls : Changing(p) /\ request'[p] = request[p] /\ request[p].target \notin crossed
                => asked'[request[p].target] = asked[request[p].target]
    PROVE  GrantsPending' /\ ListsPending'
<1>1. GrantsPending /\ ListsPending
  BY DEF AdminInv
<1>2. GrantsPending'
  BY <1>1 DEF GrantsPending
<1>3. \A p \in Calls : Changing(p)' => Changing(p) /\ request'[p] = request[p]
  BY DEF Changing
<1>4. ListsPending'
  BY <1>1, <1>3 DEF ListsPending
<1> QED
  BY <1>2, <1>4

\* A document that is written over keeps its address, its name and its kind of fields; its
\* lists change with a change of lists only, and then to the completed pair.
LEMMA WrittenDocument ==
    ASSUME NEW q \in AdminRequests, q.kind \notin {"create", "link", "failedLogin"},
           NEW read \in AdminPairs, NEW u \in Admin!User
    PROVE  LET v == Admin!SetFields(q, read, u)
           IN  /\ v \in Admin!User
               /\ v.email = u.email /\ v.username = u.username
               /\ IF Admin!ListsOf(q)
                  THEN /\ v.extra = Admin!Completed(q, read).extra
                       /\ v.revoked = Admin!Completed(q, read).revoked
                       /\ v.extra = Admin!Given(q.extra, read.extra)
                       /\ v.revoked = Admin!Given(q.revoked, read.revoked)
                  ELSE v.extra = u.extra /\ v.revoked = u.revoked
<1>0. /\ q.kind \in {"update", "password", "reset", "block", "unblock", "delete", "login"}
      /\ q.role \in Admin!RoleSlugs \cup {None} /\ q.name \in STRING \cup {None}
      /\ q.extra \in Admin!Lists \cup {None} /\ q.revoked \in Admin!Lists \cup {None}
      /\ q.new \in STRING
  BY AdminRequestFields
<1>1. CASE q.kind = "update"
  <2> DEFINE v == Admin!UpdatedUser(q, read, u)
             w == IF Admin!ChangesLists(q)
                  THEN [u EXCEPT !.extra = Admin!Completed(q, read).extra,
                                 !.revoked = Admin!Completed(q, read).revoked]
                  ELSE u
  <2>1. Admin!SetFields(q, read, u) = v
    BY <1>1 DEF Admin!SetFields
  <2>2. /\ Admin!Completed(q, read).extra = Admin!Given(q.extra, read.extra)
        /\ Admin!Completed(q, read).revoked = Admin!Given(q.revoked, read.revoked)
        /\ Admin!Given(q.extra, read.extra) \in Admin!Lists
        /\ Admin!Given(q.revoked, read.revoked) \in Admin!Lists
    BY <1>0 DEF Admin!Completed, Admin!Given, Admin!Kept, AdminPairs
  <2>3. /\ w \in Admin!User /\ w.email = u.email /\ w.username = u.username
        /\ Admin!ChangesLists(q) => /\ w.extra = Admin!Completed(q, read).extra
                                    /\ w.revoked = Admin!Completed(q, read).revoked
        /\ ~Admin!ChangesLists(q) => w = u
    BY <2>2 DEF Admin!User
  <2>4. v = [w EXCEPT !.role = Admin!Given(q.role, w.role), !.name = Admin!Given(q.name, w.name)]
    BY DEF Admin!UpdatedUser
  <2>5. /\ Admin!Given(q.role, w.role) \in Admin!RoleSlugs
        /\ Admin!Given(q.name, w.name) \in STRING
    BY <1>0, <2>3 DEF Admin!Given, Admin!Kept, Admin!User
  <2> HIDE DEF v, w
  <2>6. /\ v \in Admin!User /\ v.email = w.email /\ v.username = w.username
        /\ v.extra = w.extra /\ v.revoked = w.revoked
    BY <2>3, <2>4, <2>5 DEF Admin!User
  <2> QED
    BY <1>1, <2>1, <2>2, <2>3, <2>6 DEF Admin!ListsOf
<1>2. CASE q.kind \in {"password", "reset"}
  BY <1>0, <1>2 DEF Admin!SetFields, Admin!User, Admin!ListsOf
<1>3. CASE q.kind \in {"block", "unblock", "delete", "login"}
  BY <1>0, <1>3 DEF Admin!SetFields, Admin!User, Admin!ListsOf
<1> QED
  BY <1>0, <1>1, <1>2, <1>3

\* The write of a change; a deleted row is left as it is.
LEMMA WriteKeeps ==
    ASSUME AdminInv, NEW o \in Calls, Admin!Write(o) PROVE AdminInv'
<1> DEFINE q == request[o].req
           t == request[o].target
           read == request[o].read
           v == Admin!SetFields(q, read, users[t])
<1>1. /\ AdminTyped /\ Admin!GrantUnambiguous /\ Admin!NamesUnique
      /\ Admin!LostOnlyToOverlap /\ GrantsPending /\ ListsPending
  BY DEF AdminInv
<1>2. /\ q \in AdminRequests /\ q.kind \notin {"create", "link", "failedLogin"}
      /\ t \in Rows /\ read \in AdminPairs
      /\ request[o].pc = "write"
  BY <1>1, AdminLocalsByStep DEF Admin!Write, AdminTyped
<1>3. /\ users[t] \in Admin!User /\ users[t] # None
      /\ users \in [Rows -> Admin!User \cup {None}]
      /\ asked \in [Rows -> AdminPairs \cup {None}]
  BY <1>1, <1>2 DEF AdminTyped
<1>4. /\ Admin!Update(t, v)
      /\ asked' = IF Admin!ListsOf(q) /\ Admin!FindByID(t)
                  THEN [asked EXCEPT ![t] = [extra |-> Admin!Given(q.extra, @.extra),
                                             revoked |-> Admin!Given(q.revoked, @.revoked)]]
                  ELSE asked
      /\ Admin!Ends(o)
      /\ claims' = claims /\ links' = links /\ begun' = begun /\ faults' = faults
      /\ crossed' = crossed
  BY DEF Admin!Write
<1>5. /\ v \in Admin!User /\ v.email = users[t].email /\ v.username = users[t].username
      /\ Admin!ListsOf(q) => /\ v.extra = Admin!Completed(q, read).extra
                             /\ v.revoked = Admin!Completed(q, read).revoked
                             /\ v.extra = Admin!Given(q.extra, read.extra)
                             /\ v.revoked = Admin!Given(q.revoked, read.revoked)
      /\ ~Admin!ListsOf(q) => v.extra = users[t].extra /\ v.revoked = users[t].revoked
  BY <1>2, <1>3, WrittenDocument
<1>6. /\ request' \in [Calls -> AdminLocals]
      /\ request'[o] = Admin!Idle /\ request'[o].pc = "idle"
      /\ \A p \in Calls : p # o => request'[p] = request[p]
  BY <1>1, <1>4, AdminEnds
<1> HIDE DEF v
<1>7. CASE ~Admin!FindByID(t)
  <2>1. users' = users /\ asked' = asked
    BY <1>4, <1>7 DEF Admin!Update
  <2>2. AdminTyped'
    BY <1>1, <1>4, <1>6, <2>1 DEF AdminTyped
  <2>3. GrantsPending' /\ ListsPending'
    BY <1>4, <1>6, <2>1, PendingKept
  <2>4. Admin!GrantUnambiguous' /\ Admin!NamesUnique' /\ Admin!LostOnlyToOverlap'
    BY <1>1, <1>4, <2>1 DEF Admin!GrantUnambiguous, Admin!NamesUnique, Admin!LostOnlyToOverlap
  <2> QED
    BY <2>2, <2>3, <2>4 DEF AdminInv
<1>8. CASE Admin!FindByID(t)
  <2>1. /\ users' = [users EXCEPT ![t] = v]
        /\ users' \in [Rows -> Admin!User \cup {None}]
        /\ users'[t] = v /\ v # None
        /\ \A r \in Rows : r # t => users'[r] = users[r]
    BY <1>2, <1>3, <1>4, <1>5, <1>8, UserFields DEF Admin!Update
  <2>2. /\ \A r \in Rows : r # t => asked'[r] = asked[r]
        /\ ~Admin!ListsOf(q) => asked' = asked
        /\ Admin!ListsOf(q) => /\ asked'[t].extra = Admin!Given(q.extra, asked[t].extra)
                               /\ asked'[t].revoked = Admin!Given(q.revoked, asked[t].revoked)
    BY <1>2, <1>3, <1>4, <1>8
  <2>3. asked' \in [Rows -> AdminPairs \cup {None}]
    <3>1. CASE ~Admin!ListsOf(q)
      BY <1>3, <2>2, <3>1
    <3>2. CASE Admin!ListsOf(q)
      <4>1. asked[t] \in AdminPairs
        BY <1>1, <1>2, <1>3 DEF AdminTyped
      <4>2. /\ Admin!Given(q.extra, asked[t].extra) \in Admin!Lists
            /\ Admin!Given(q.revoked, asked[t].revoked) \in Admin!Lists
        BY <1>2, <4>1, AdminRequestFields DEF Admin!Given, Admin!Kept, AdminPairs
      <4>3. asked' = [asked EXCEPT ![t] = [extra |-> Admin!Given(q.extra, asked[t].extra),
                                           revoked |-> Admin!Given(q.revoked, asked[t].revoked)]]
        BY <1>4, <1>8, <3>2
      <4> QED
        BY <1>2, <1>3, <4>2, <4>3 DEF AdminPairs
    <3> QED
      BY <3>1, <3>2
  <2>4. \A r \in Rows : users'[r] # None => asked'[r] \in AdminPairs
    <3>1. asked'[t] \in AdminPairs \/ asked'[t] = asked[t]
      <4>1. CASE Admin!ListsOf(q)
        <5>1. asked[t] \in AdminPairs
          BY <1>1, <1>2, <1>3 DEF AdminTyped
        <5>2. /\ Admin!Given(q.extra, asked[t].extra) \in Admin!Lists
              /\ Admin!Given(q.revoked, asked[t].revoked) \in Admin!Lists
          BY <1>2, <5>1, AdminRequestFields DEF Admin!Given, Admin!Kept, AdminPairs
        <5> QED
          BY <1>2, <1>3, <1>4, <1>8, <4>1, <5>2 DEF AdminPairs
      <4> QED
        BY <2>2, <4>1
    <3> QED
      BY <1>1, <1>2, <1>3, <2>1, <2>2, <3>1 DEF AdminTyped
  <2>5. AdminTyped'
    <3>1. links' \subseteq {r \in Rows : users'[r] # None}
      BY <1>1, <1>4, <2>1 DEF AdminTyped
    <3>2. \A p \in Calls : request'[p].pc = "write" => users'[request'[p].target] # None
      BY <1>1, <1>6, <2>1, AdminLocalsByStep DEF AdminTyped
    <3> QED
      BY <1>1, <1>4, <1>6, <2>1, <2>3, <2>4, <3>1, <3>2 DEF AdminTyped
  <2>6. Admin!GrantUnambiguous'
    <3>1. Admin!ListsOf(q) => Admin!ValidPermissionGrant(v.extra, v.revoked)
      BY <1>1, <1>2, <1>5 DEF GrantsPending
    <3>2. Admin!ValidPermissionGrant(v.extra, v.revoked)
      BY <1>1, <1>2, <1>3, <1>5, <3>1 DEF Admin!GrantUnambiguous
    <3> QED
      BY <1>1, <2>1, <3>2 DEF Admin!GrantUnambiguous
  <2>7. Admin!NamesUnique'
    BY <1>1, <1>3, <1>5, <2>1 DEF Admin!NamesUnique
  <2>8. Admin!LostOnlyToOverlap'
    <3>1. t \notin crossed => v.extra = asked'[t].extra /\ v.revoked = asked'[t].revoked
      <4>1. CASE Admin!ListsOf(q)
        BY <1>1, <1>2, <1>5, <2>2, <4>1 DEF ListsPending, Changing
      <4>2. CASE ~Admin!ListsOf(q)
        BY <1>1, <1>2, <1>3, <1>5, <2>2, <4>2 DEF Admin!LostOnlyToOverlap
      <4> QED
        BY <4>1, <4>2
    <3> QED
      BY <1>1, <1>4, <2>1, <2>2, <3>1 DEF Admin!LostOnlyToOverlap
  <2>9. GrantsPending' /\ ListsPending'
    <3>1. ASSUME NEW p \in Calls, Changing(p), request'[p] = request[p],
                 request[p].target \notin crossed
          PROVE  asked'[request[p].target] = asked[request[p].target]
      <4>1. p # o
        BY <1>2, <1>6, <3>1
      <4>2. request[p].target \in Rows
        BY <1>1, <3>1, AdminLocalsByStep DEF Changing, AdminTyped
      <4>3. request[p].target = t => ~Changing(o)
        BY <1>1, <3>1, <4>1 DEF ListsPending
      <4> QED
        BY <1>2, <2>2, <4>2, <4>3 DEF Changing
    <3> QED
      BY <1>4, <1>6, <3>1, PendingKept
  <2> QED
    BY <2>5, <2>6, <2>7, <2>8, <2>9 DEF AdminInv
<1> QED
  BY <1>7, <1>8

\* A failure that is counted changes the counter of a document and nothing else.
LEMMA FailureKeeps ==
    ASSUME AdminInv, NEW o \in Calls, Admin!IncrementPasswordAttempts(o) PROVE AdminInv'
<1> DEFINE t == request[o].target
           v == [users[t] EXCEPT !.attempts = @ + 1]
<1>1. /\ AdminTyped /\ Admin!GrantUnambiguous /\ Admin!NamesUnique
      /\ Admin!LostOnlyToOverlap /\ GrantsPending /\ ListsPending
  BY DEF AdminInv
<1>2. /\ t \in Rows /\ users[t] # None /\ users[t] \in Admin!User
      /\ users \in [Rows -> Admin!User \cup {None}]
  BY <1>1, AdminLocalsByStep DEF Admin!IncrementPasswordAttempts, AdminTyped
<1>3. /\ users' = [users EXCEPT ![t] = v]
      /\ Admin!Ends(o)
      /\ claims' = claims /\ links' = links /\ begun' = begun /\ faults' = faults
      /\ asked' = asked /\ crossed' = crossed
  BY <1>2 DEF Admin!IncrementPasswordAttempts
<1>4. /\ v \in Admin!User /\ v.email = users[t].email /\ v.username = users[t].username
      /\ v.extra = users[t].extra /\ v.revoked = users[t].revoked
  BY <1>2 DEF Admin!User
<1>5. v # None
  BY <1>4, UserFields
<1> HIDE DEF v
<1>6. /\ request' \in [Calls -> AdminLocals]
      /\ request'[o].pc = "idle"
      /\ \A p \in Calls : p # o => request'[p] = request[p]
  BY <1>1, <1>3, AdminEnds
<1>7. /\ users' \in [Rows -> Admin!User \cup {None}] /\ users'[t] = v
      /\ \A r \in Rows : r # t => users'[r] = users[r]
      /\ \A r \in Rows : users'[r] # None <=> users[r] # None
  BY <1>2, <1>3, <1>4, <1>5
<1>8. AdminTyped'
  BY <1>1, <1>3, <1>6, <1>7, AdminLocalsByStep DEF AdminTyped
<1>9. Admin!GrantUnambiguous' /\ Admin!NamesUnique' /\ Admin!LostOnlyToOverlap'
  BY <1>1, <1>2, <1>3, <1>4, <1>7
     DEF Admin!GrantUnambiguous, Admin!NamesUnique, Admin!LostOnlyToOverlap
<1>10. GrantsPending' /\ ListsPending'
  BY <1>3, <1>6, PendingKept
<1> QED
  BY <1>8, <1>9, <1>10 DEF AdminInv

\* A link, a call that fails and the two look-ups of a new account write no document.
LEMMA QuietKeeps ==
    ASSUME AdminInv, NEW o \in Calls,
           \/ Admin!Link(o) \/ Admin!Fail(o) \/ Admin!CheckUsername(o)
           \/ \E q \in AdminRequests, a \in Rows : Admin!CheckEmail(o, q, a)
    PROVE  AdminInv'
<1>1. /\ AdminTyped /\ Admin!GrantUnambiguous /\ Admin!NamesUnique
      /\ Admin!LostOnlyToOverlap /\ GrantsPending /\ ListsPending
  BY DEF AdminInv
<1>2. users' = users /\ claims' = claims /\ asked' = asked /\ crossed' = crossed
  BY DEF Admin!Link, Admin!Fail, Admin!CheckUsername, Admin!CheckEmail
<1>3. Admin!GrantUnambiguous' /\ Admin!NamesUnique' /\ Admin!LostOnlyToOverlap'
  BY <1>1, <1>2 DEF Admin!GrantUnambiguous, Admin!NamesUnique, Admin!LostOnlyToOverlap
<1>4. CASE Admin!Link(o) \/ Admin!Fail(o)
  <2>1. /\ request' \in [Calls -> AdminLocals]
        /\ request'[o].pc = "idle"
        /\ \A p \in Calls : p # o => request'[p] = request[p]
    BY <1>1, <1>4, AdminEnds DEF Admin!Link, Admin!Fail
  <2>2. ASSUME Admin!Link(o) PROVE AdminTyped'
    <3>1. /\ request[o].pc = "write" /\ links' = links \cup {request[o].target}
          /\ begun' = begun /\ faults' = faults
      BY <2>2 DEF Admin!Link
    <3>2. request[o].target \in Rows /\ users[request[o].target] # None
      BY <1>1, <3>1, AdminLocalsByStep DEF AdminTyped
    <3> QED
      BY <1>1, <1>2, <2>1, <3>1, <3>2, AdminLocalsByStep DEF AdminTyped
  <2>3. ASSUME Admin!Fail(o) PROVE AdminTyped'
    <3>1. /\ links' = links /\ begun' = begun
          /\ faults < MaxFaults /\ faults' = faults + 1
      BY <2>3 DEF Admin!Fail
    <3>2. faults' \in 0..MaxFaults
      BY <1>1, <3>1, BootAssumption DEF AdminTyped
    <3> QED
      BY <1>1, <1>2, <2>1, <3>1, <3>2, AdminLocalsByStep DEF AdminTyped
  <2>4. GrantsPending' /\ ListsPending'
    BY <1>2, <2>1, PendingKept
  <2> QED
    BY <1>3, <1>4, <2>2, <2>3, <2>4 DEF AdminInv
<1>5. ASSUME NEW q \in AdminRequests, NEW a \in Rows, Admin!CheckEmail(o, q, a)
      PROVE  AdminInv'
  <2>1. /\ request' = [request EXCEPT ![o] = [Admin!Idle EXCEPT !.pc = "username", !.req = q,
                                                                !.actor = a]]
        /\ q.kind = "create" /\ links' = links /\ faults' = faults
        /\ begun < MaxRequests /\ begun' = begun + 1
    BY <1>5 DEF Admin!CheckEmail, Admin!Begins
  <2>2. /\ [Admin!Idle EXCEPT !.pc = "username", !.req = q, !.actor = a] \in AdminLocals
        /\ [Admin!Idle EXCEPT !.pc = "username", !.req = q, !.actor = a].pc = "username"
    BY <2>1 DEF AdminLocals, Admin!Idle
  <2>3. /\ request' \in [Calls -> AdminLocals]
        /\ request'[o].pc = "username"
        /\ \A p \in Calls : p # o => request'[p] = request[p]
    BY <1>1, <2>1, <2>2 DEF AdminTyped
  <2>4. AdminTyped'
    BY <1>1, <1>2, <2>1, <2>3, AdminAssumption, AdminLocalsByStep DEF AdminTyped
  <2>5. GrantsPending' /\ ListsPending'
    BY <1>2, <2>3, PendingKept
  <2> QED
    BY <1>3, <2>4, <2>5 DEF AdminInv
<1>6. CASE Admin!CheckUsername(o)
  <2> DEFINE q == request[o].req
  <2>1. /\ request[o].pc = "username"
        /\ links' = links /\ faults' = faults /\ begun' = begun
        /\ \/ /\ Admin!ValidPermissionGrant(q.extra, q.revoked)
              /\ Admin!Goes(o, "insert")
           \/ Admin!Ends(o)
    BY <1>6 DEF Admin!CheckUsername
  <2>2. CASE Admin!Ends(o)
    <3>1. /\ request' \in [Calls -> AdminLocals]
          /\ request'[o].pc = "idle"
          /\ \A p \in Calls : p # o => request'[p] = request[p]
      BY <1>1, <2>2, AdminEnds
    <3>2. AdminTyped'
      BY <1>1, <1>2, <2>1, <3>1, AdminLocalsByStep DEF AdminTyped
    <3>3. GrantsPending' /\ ListsPending'
      BY <1>2, <3>1, PendingKept
    <3> QED
      BY <1>3, <3>2, <3>3 DEF AdminInv
  <2>3. CASE Admin!ValidPermissionGrant(q.extra, q.revoked) /\ Admin!Goes(o, "insert")
    <3>1. request' = [request EXCEPT ![o] = [request[o] EXCEPT !.pc = "insert"]]
      BY <1>1, <2>3 DEF Admin!Goes, AdminTyped
    <3>2. /\ request[o] \in AdminLocals
          /\ [request[o] EXCEPT !.pc = "insert"] \in AdminLocals
          /\ [request[o] EXCEPT !.pc = "insert"].pc = "insert"
          /\ [request[o] EXCEPT !.pc = "insert"].req = q
      BY <1>1, <2>1, AdminLocalsByStep DEF AdminTyped, AdminLocals
    <3>3. /\ request' \in [Calls -> AdminLocals]
          /\ request'[o].pc = "insert" /\ request'[o].req = q
          /\ \A p \in Calls : p # o => request'[p] = request[p]
      BY <1>1, <3>1, <3>2 DEF AdminTyped
    <3>4. AdminTyped'
      BY <1>1, <1>2, <2>1, <3>3, AdminLocalsByStep DEF AdminTyped
    <3>5. GrantsPending'
      BY <1>1, <2>3, <3>3 DEF GrantsPending
    <3>6. ListsPending'
      BY <1>1, <1>2, <3>3 DEF ListsPending, Changing
    <3> QED
      BY <1>3, <3>4, <3>5, <3>6 DEF AdminInv
  <2> QED
    BY <2>1, <2>2, <2>3
<1> QED
  BY <1>4, <1>5, <1>6

\* The read of a change, with what is validated on it.
LEMMA ReadKeeps ==
    ASSUME AdminInv, NEW o \in Calls, NEW q \in AdminRequests, NEW a \in Rows, NEW t \in Rows,
           Admin!Read(o, q, a, t)
    PROVE  AdminInv'
<1> DEFINE read == [extra |-> users[t].extra, revoked |-> users[t].revoked]
           c == [pc |-> "write", req |-> q, actor |-> a, target |-> t, read |-> read]
<1>1. /\ AdminTyped /\ Admin!GrantUnambiguous /\ Admin!NamesUnique
      /\ Admin!LostOnlyToOverlap /\ GrantsPending /\ ListsPending
  BY DEF AdminInv
<1>2. /\ q.kind # "create" /\ users[t] # None /\ Admin!Allows(q, a, t)
      /\ request[o] = Admin!Idle /\ request' = [request EXCEPT ![o] = c]
      /\ begun < MaxRequests /\ begun' = begun + 1
      /\ users' = users /\ claims' = claims /\ links' = links
      /\ asked' = asked
  BY DEF Admin!Read, Admin!FindByID, Admin!Begins
<1>f. faults' \in 0..MaxFaults
  BY <1>1, BootAssumption DEF Admin!Read, Admin!TargetFor, AdminTyped
<1>3. crossed' = crossed \cup
         (IF Admin!ListsOf(q) /\ \E p \in Calls : /\ request[p].pc = "write" /\ request[p].target = t
                                                  /\ Admin!ListsOf(request[p].req)
          THEN {t} ELSE {})
  BY DEF Admin!Read
<1>4. users[t] \in Admin!User /\ read \in AdminPairs
  BY <1>1, <1>2, UserFields DEF AdminTyped
<1>5. c \in AdminLocals
  BY <1>2, <1>4 DEF AdminLocals
<1>6. /\ request' \in [Calls -> AdminLocals]
      /\ request'[o] = c
      /\ \A p \in Calls : p # o => request'[p] = request[p]
  BY <1>1, <1>2, <1>5 DEF AdminTyped
<1>7. /\ request'[o].pc = "write" /\ request'[o].req = q /\ request'[o].target = t
      /\ request'[o].read = read
      /\ read.extra = users[t].extra /\ read.revoked = users[t].revoked
  BY <1>6
<1> HIDE DEF c, read
<1>8. AdminTyped'
  <2>1. crossed' \subseteq Rows
    BY <1>1, <1>3 DEF AdminTyped
  <2>2. begun' \in 0..MaxRequests
    BY <1>1, <1>2, AdminAssumption DEF AdminTyped
  <2>3. \A p \in Calls : request'[p].pc = "write" => users'[request'[p].target] # None
    BY <1>1, <1>2, <1>6, <1>7 DEF AdminTyped
  <2> QED
    BY <1>1, <1>2, <1>f, <1>6, <2>1, <2>2, <2>3 DEF AdminTyped
<1>9. Admin!GrantUnambiguous' /\ Admin!NamesUnique'
  BY <1>1, <1>2 DEF Admin!GrantUnambiguous, Admin!NamesUnique
<1>10. Admin!LostOnlyToOverlap'
  BY <1>1, <1>2, <1>3 DEF Admin!LostOnlyToOverlap
<1>11. GrantsPending'
  <2>1. Admin!ListsOf(q) =>
          Admin!ValidPermissionGrant(Admin!Completed(q, read).extra, Admin!Completed(q, read).revoked)
    <3>1. /\ Admin!Completed(q, read).extra = Admin!Given(q.extra, users[t].extra)
          /\ Admin!Completed(q, read).revoked = Admin!Given(q.revoked, users[t].revoked)
      BY <1>4, <1>7 DEF Admin!Completed, AdminPairs
    <3>2. /\ Admin!Completed(q, users[t]).extra = Admin!Given(q.extra, users[t].extra)
          /\ Admin!Completed(q, users[t]).revoked = Admin!Given(q.revoked, users[t].revoked)
      BY <1>4 DEF Admin!Completed, Admin!User
    <3> QED
      BY <1>2, <3>1, <3>2 DEF Admin!Allows, Admin!ListsOf
  <2> QED
    BY <1>1, <1>6, <1>7, <2>1 DEF GrantsPending
<1>12. ListsPending'
  <2>1. /\ Changing(o)' <=> Admin!ListsOf(q)
        /\ \A p \in Calls : p # o => (Changing(p)' <=> Changing(p))
    BY <1>6, <1>7 DEF Changing
  <2>2. ~Changing(o)
    BY <1>2 DEF Changing, Admin!Idle
  <2>3. ASSUME NEW p \in Calls, NEW s \in Calls, p # s, Changing(p)', Changing(s)',
               request'[p].target = request'[s].target
        PROVE  request'[p].target \in crossed'
    <3>1. CASE p = o
      BY <1>3, <1>6, <1>7, <2>1, <2>3, <3>1 DEF Changing
    <3>2. CASE s = o
      BY <1>3, <1>6, <1>7, <2>1, <2>3, <3>2 DEF Changing
    <3>3. CASE p # o /\ s # o
      BY <1>1, <1>3, <1>6, <2>1, <2>3, <3>3 DEF ListsPending
    <3> QED
      BY <3>1, <3>2, <3>3
  <2>4. ASSUME NEW p \in Calls, Changing(p)', request'[p].target \notin crossed'
        PROVE  /\ request'[p].read.extra = asked'[request'[p].target].extra
               /\ request'[p].read.revoked = asked'[request'[p].target].revoked
    <3>1. CASE p = o
      BY <1>1, <1>2, <1>3, <1>7, <2>4, <3>1 DEF Admin!LostOnlyToOverlap
    <3>2. CASE p # o
      BY <1>1, <1>2, <1>3, <1>6, <2>1, <2>4, <3>2 DEF ListsPending
    <3> QED
      BY <3>1, <3>2
  <2> QED
    BY <2>3, <2>4 DEF ListsPending
<1> QED
  BY <1>8, <1>9, <1>10, <1>11, <1>12 DEF AdminInv

\* A new account takes a free row, unless an index refuses it.
LEMMA InsertKeeps ==
    ASSUME AdminInv, NEW o \in Calls, Admin!InsertUser(o) PROVE AdminInv'
<1> DEFINE q == request[o].req
           u == Admin!NewUser(q)
<1>1. /\ AdminTyped /\ Admin!GrantUnambiguous /\ Admin!NamesUnique
      /\ Admin!LostOnlyToOverlap /\ GrantsPending /\ ListsPending
  BY DEF AdminInv
<1>2. /\ request[o].pc = "insert" /\ q \in AdminRequests /\ q.kind = "create"
  BY <1>1, AdminLocalsByStep DEF Admin!InsertUser, AdminTyped
<1>3. /\ Admin!Ends(o) /\ claims' = claims /\ links' = links /\ begun' = begun
      /\ faults' = faults /\ crossed' = crossed
      /\ \/ users' = users /\ asked' = asked
         \/ /\ ~Admin!Duplicate(u)
            /\ \E r \in Rows :
                 /\ users[r] = None
                 /\ users' = [users EXCEPT ![r] = u]
                 /\ asked' = [asked EXCEPT ![r] = [extra |-> u.extra, revoked |-> u.revoked]]
  BY DEF Admin!InsertUser
<1>4. /\ request' \in [Calls -> AdminLocals]
      /\ request'[o].pc = "idle"
      /\ \A p \in Calls : p # o => request'[p] = request[p]
  BY <1>1, <1>3, AdminEnds
<1>5. /\ u \in Admin!User /\ u # None /\ u.extra = q.extra /\ u.revoked = q.revoked
      /\ [extra |-> u.extra, revoked |-> u.revoked] \in AdminPairs
  <2>1. u \in Admin!User
    BY <1>2, AdminRequestFields DEF Admin!NewUser, Admin!User
  <2> QED
    BY <2>1, UserFields DEF Admin!NewUser
<1>6. Admin!ValidPermissionGrant(u.extra, u.revoked)
  BY <1>1, <1>2, <1>5 DEF GrantsPending
<1> HIDE DEF u
<1>7. CASE users' = users /\ asked' = asked
  <2>1. AdminTyped'
    BY <1>1, <1>3, <1>4, <1>7 DEF AdminTyped
  <2>2. GrantsPending' /\ ListsPending'
    BY <1>3, <1>4, <1>7, PendingKept
  <2>3. Admin!GrantUnambiguous' /\ Admin!NamesUnique' /\ Admin!LostOnlyToOverlap'
    BY <1>1, <1>3, <1>7 DEF Admin!GrantUnambiguous, Admin!NamesUnique, Admin!LostOnlyToOverlap
  <2> QED
    BY <2>1, <2>2, <2>3 DEF AdminInv
<1>8. ASSUME ~Admin!Duplicate(u), NEW r \in Rows, users[r] = None,
             users' = [users EXCEPT ![r] = u],
             asked' = [asked EXCEPT ![r] = [extra |-> u.extra, revoked |-> u.revoked]]
      PROVE  AdminInv'
  <2>1. /\ users' \in [Rows -> Admin!User \cup {None}] /\ users'[r] = u
        /\ \A s \in Rows : s # r => users'[s] = users[s]
    BY <1>1, <1>5, <1>8 DEF AdminTyped
  <2>2. /\ asked' \in [Rows -> AdminPairs \cup {None}]
        /\ asked'[r] = [extra |-> u.extra, revoked |-> u.revoked]
        /\ \A s \in Rows : s # r => asked'[s] = asked[s]
    BY <1>1, <1>5, <1>8 DEF AdminTyped
  <2>3. \A s \in Rows : users[s] # None => s # r /\ users'[s] = users[s]
    BY <1>8, <2>1
  <2>4. AdminTyped'
    <3>1. links' \subseteq {s \in Rows : users'[s] # None}
      BY <1>1, <1>3, <2>3 DEF AdminTyped
    <3>2. ASSUME NEW p \in Calls, request'[p].pc = "write"
          PROVE  users'[request'[p].target] # None
      <4>1. request'[p] = request[p]
        BY <1>4, <3>2
      <4>2. request[p].target \in Rows /\ users[request[p].target] # None
        BY <1>1, <3>2, <4>1, AdminLocalsByStep DEF AdminTyped
      <4> QED
        BY <2>3, <4>1, <4>2
    <3>3. \A s \in Rows : users'[s] # None => asked'[s] \in AdminPairs
      BY <1>1, <1>5, <2>1, <2>2 DEF AdminTyped
    <3> QED
      BY <1>1, <1>3, <1>4, <2>1, <2>2, <3>1, <3>2, <3>3 DEF AdminTyped
  <2>5. Admin!GrantUnambiguous'
    BY <1>1, <1>6, <2>1 DEF Admin!GrantUnambiguous
  <2>6. Admin!NamesUnique'
    BY <1>1, <1>8, <2>1 DEF Admin!NamesUnique, Admin!Duplicate
  <2>7. Admin!LostOnlyToOverlap'
    BY <1>1, <1>3, <2>1, <2>2 DEF Admin!LostOnlyToOverlap
  <2>8. GrantsPending' /\ ListsPending'
    <3>1. \A p \in Calls : Changing(p) => asked'[request[p].target] = asked[request[p].target]
      BY <1>1, <2>2, <2>3, AdminLocalsByStep DEF Changing, AdminTyped
    <3> QED
      BY <1>3, <1>4, <3>1, PendingKept
  <2> QED
    BY <2>4, <2>5, <2>6, <2>7, <2>8 DEF AdminInv
<1> QED
  BY <1>3, <1>7, <1>8

\* Every step of the administrators keeps the invariant.
LEMMA AdminKeeps == AdminInv /\ [Admin!Next]_adminVars => AdminInv'
<1> SUFFICES ASSUME AdminInv, [Admin!Next]_adminVars PROVE AdminInv'
  OBVIOUS
<1>1. CASE UNCHANGED adminVars
  BY <1>1 DEF adminVars, AdminInv, AdminTyped, GrantsPending, ListsPending, Changing,
              Admin!GrantUnambiguous, Admin!NamesUnique, Admin!LostOnlyToOverlap
<1>2. ASSUME NEW a \in Rows, Admin!SignIn(a) PROVE AdminInv'
  <2>1. /\ users' = users /\ links' = links /\ request' = request /\ begun' = begun
        /\ faults' = faults /\ asked' = asked /\ crossed' = crossed
        /\ users[a] # None
        /\ claims' = [claims EXCEPT ![a] = Admin!Claimed(users[a])]
    BY <1>2 DEF Admin!SignIn, Admin!FindByID
  <2>2. claims' \in [Rows -> AdminClaim \cup {None}]
    BY <2>1, UserFields DEF AdminInv, AdminTyped
  <2>3. AdminTyped'
    BY <2>1, <2>2 DEF AdminInv, AdminTyped
  <2> QED
    BY <2>1, <2>3 DEF AdminInv, GrantsPending, ListsPending, Changing,
                      Admin!GrantUnambiguous, Admin!NamesUnique, Admin!LostOnlyToOverlap
<1>3. ASSUME NEW o \in Calls,
             \/ Admin!Create(o) \/ Admin!Write(o) \/ Admin!IncrementPasswordAttempts(o)
             \/ Admin!Link(o) \/ Admin!Fail(o)
      PROVE  AdminInv'
  BY <1>3, WriteKeeps, FailureKeeps, QuietKeeps, InsertKeeps DEF Admin!Create
<1>4. ASSUME NEW o \in Calls, NEW q \in AdminRequests, NEW a \in Rows, NEW t \in Rows,
             Admin!Read(o, q, a, t)
      PROVE  AdminInv'
  BY <1>4, ReadKeeps
<1> QED
  BY <1>1, <1>2, <1>3, <1>4 DEF Admin!Next

\* No step of the accounts changes a document that is deleted, but the count of a failed
\* login that had read it; and none reads it.
LEMMA DeletedStay ==
    ASSUME AdminTyped, Admin!Next PROVE Admin!DeletedKept
<1> SUFFICES ASSUME NEW r \in Rows, users[r] # None, users[r].deleted
             PROVE  /\ \A o \in Calls : Admin!Counts(o, r)' => Admin!Counts(o, r)
                    /\ \/ users'[r] = users[r]
                       \/ /\ users'[r] = [users[r] EXCEPT !.attempts = @ + 1]
                          /\ \E o \in Calls : Admin!Counts(o, r) /\ ~Admin!Counts(o, r)'
  BY DEF Admin!DeletedKept
<1>0. users \in [Rows -> Admin!User \cup {None}] /\ request \in [Calls -> AdminLocals]
  BY DEF AdminTyped
<1>e. ASSUME NEW o \in Calls, Admin!Ends(o)
      PROVE  /\ ~Admin!Counts(o, r)'
             /\ \A p \in Calls : Admin!Counts(p, r)' => Admin!Counts(p, r)
  BY <1>0, <1>e, AdminEnds DEF Admin!Counts
<1>1. ASSUME NEW o \in Calls, Admin!Write(o)
      PROVE  users'[r] = users[r] /\ \A p \in Calls : Admin!Counts(p, r)' => Admin!Counts(p, r)
  BY <1>0, <1>1, <1>e DEF Admin!Write, Admin!Update, Admin!FindByID
<1>2. ASSUME NEW o \in Calls, Admin!IncrementPasswordAttempts(o)
      PROVE  /\ \A p \in Calls : Admin!Counts(p, r)' => Admin!Counts(p, r)
             /\ \/ users'[r] = users[r]
                \/ /\ users'[r] = [users[r] EXCEPT !.attempts = @ + 1]
                   /\ Admin!Counts(o, r) /\ ~Admin!Counts(o, r)'
  <2>1. /\ request[o].pc = "write" /\ request[o].req.kind = "failedLogin"
        /\ users' = [users EXCEPT ![request[o].target] = [users[request[o].target]
                                                           EXCEPT !.attempts = @ + 1]]
        /\ Admin!Ends(o)
    BY <1>2 DEF Admin!IncrementPasswordAttempts
  <2>2. CASE request[o].target = r
    BY <1>0, <1>e, <2>1, <2>2 DEF Admin!Counts
  <2>3. CASE request[o].target # r
    BY <1>0, <1>e, <2>1, <2>3
  <2> QED
    BY <2>2, <2>3
<1>3. ASSUME NEW o \in Calls, Admin!InsertUser(o)
      PROVE  users'[r] = users[r] /\ \A p \in Calls : Admin!Counts(p, r)' => Admin!Counts(p, r)
  BY <1>0, <1>3, <1>e DEF Admin!InsertUser
<1>4. ASSUME NEW o \in Calls, Admin!Link(o) \/ Admin!Fail(o)
      PROVE  users'[r] = users[r] /\ \A p \in Calls : Admin!Counts(p, r)' => Admin!Counts(p, r)
  BY <1>4, <1>e DEF Admin!Link, Admin!Fail
<1>5. ASSUME NEW o \in Calls,
             Admin!CheckUsername(o) \/ \E q \in AdminRequests, a \in Rows : Admin!CheckEmail(o, q, a)
      PROVE  users'[r] = users[r] /\ \A p \in Calls : Admin!Counts(p, r)' => Admin!Counts(p, r)
  <2>1. CASE Admin!Ends(o)
    BY <1>5, <1>e, <2>1 DEF Admin!CheckUsername, Admin!CheckEmail
  <2>2. CASE \E q \in AdminRequests, a \in Rows : Admin!CheckEmail(o, q, a)
    <3>1. /\ request'[o].pc = "username"
          /\ \A p \in Calls : p # o => request'[p] = request[p]
      BY <1>0, <2>2 DEF Admin!CheckEmail, Admin!Begins, Admin!Idle
    <3> QED
      BY <1>5, <3>1 DEF Admin!Counts, Admin!CheckUsername, Admin!CheckEmail
  <2>3. CASE Admin!CheckUsername(o) /\ Admin!Goes(o, "insert")
    <3>1. /\ request[o].pc = "username" /\ request[o] \in AdminLocals
          /\ request' = [request EXCEPT ![o] = [request[o] EXCEPT !.pc = "insert"]]
      BY <1>0, <2>3 DEF Admin!CheckUsername, Admin!Goes
    <3>2. [request[o] EXCEPT !.pc = "insert"].pc = "insert"
      BY <3>1, AdminLocalsByStep DEF AdminLocals
    <3>3. /\ request'[o].pc = "insert"
          /\ \A p \in Calls : p # o => request'[p] = request[p]
      BY <1>0, <3>1, <3>2
    <3> QED
      BY <2>3, <3>3 DEF Admin!Counts, Admin!CheckUsername
  <2> QED
    BY <1>5, <2>1, <2>2, <2>3 DEF Admin!CheckUsername
<1>6. ASSUME NEW o \in Calls, NEW q \in AdminRequests, NEW a \in Rows, NEW t \in Rows,
             Admin!Read(o, q, a, t)
      PROVE  users'[r] = users[r] /\ \A p \in Calls : Admin!Counts(p, r)' => Admin!Counts(p, r)
  <2>1. /\ users' = users /\ t # r
        /\ request'[o].target = t
        /\ \A p \in Calls : p # o => request'[p] = request[p]
    BY <1>0, <1>6 DEF Admin!Read, Admin!FindByID, Admin!Begins
  <2> QED
    BY <2>1 DEF Admin!Counts
<1>7. ASSUME NEW a \in Rows, Admin!SignIn(a)
      PROVE  users'[r] = users[r] /\ \A p \in Calls : Admin!Counts(p, r)' => Admin!Counts(p, r)
  BY <1>7 DEF Admin!SignIn, Admin!Counts
<1> QED
  BY <1>1, <1>2, <1>3, <1>4, <1>5, <1>6, <1>7 DEF Admin!Next, Admin!Create

-----------------------------------------------------------------------------
(* Seeding keeps its invariant *)

\* The system roles and the accounts of the seed are lists of slugs.
LEMMA SeedLists ==
    /\ \A i \in 1..Len(SystemSlugs) : SystemSlugs[i] \in Boot!Slugs
    /\ \A i \in 1..Len(Accounts) : Accounts[i] \in Boot!Slugs
    /\ \A s \in Boot!Slugs : \E i \in 1..Len(SystemSlugs) : SystemSlugs[i] = s
    /\ Len(SystemSlugs) \in Nat \ {0} /\ Len(Accounts) \in Nat \ {0}
<1>1. /\ SystemSlugs \in Seq(STRING) /\ SystemSlugs # <<>>
      /\ Accounts \in Seq(Boot!Slugs) /\ Accounts # <<>>
  BY BootAssumption
<1>2. Boot!Slugs = {SystemSlugs[i] : i \in 1..Len(SystemSlugs)}
  BY <1>1 DEF Boot!Slugs, Boot!ToSet
<1> QED
  BY <1>1, <1>2

\* Nothing runs and the database is empty.
LEMMA BootStarts == Boot!Init => BootInv
<1> SUFFICES ASSUME Boot!Init PROVE BootInv
  OBVIOUS
<1>1. BootTyped
  <2>1. proc \in [Boot!Procs -> Proc]
    BY BootAssumption DEF Boot!Init, Proc, BootSteps
  <2>2. \A p \in Boot!Procs : proc[p].pc = "off"
    BY DEF Boot!Init
  <2>3. /\ roles = {} /\ slugIndex = None /\ accounts = {} /\ userIndex = FALSE
        /\ boots = 0 /\ failures = 0
    BY DEF Boot!Init
  <2>4. boots \in 0..MaxBoots /\ failures \in 0..MaxFaults
    BY <2>3, BootAssumption
  <2> QED
    BY <2>1, <2>2, <2>3, <2>4 DEF BootTyped
<1>2. IndexFirst /\ SeedsSettled
  BY BootAssumption DEF Boot!Init, IndexFirst, SeedsSettled, Boot!Procs
<1>3. Boot!TwinsAreSeeded /\ Boot!DanglesOnlyIfOvertaken
  BY DEF Boot!Init, Boot!TwinsAreSeeded, Boot!DanglesOnlyIfOvertaken
<1> QED
  BY <1>1, <1>2, <1>3 DEF BootInv

\* A process that goes on to a step, with the n-th document next.
LEMMA GotoMoves ==
    ASSUME BootTyped, NEW p \in Boot!Procs, NEW n \in Nat,
           NEW pc \in BootSteps, Boot!Goto(p, pc, n)
    PROVE  /\ proc' \in [Boot!Procs -> Proc]
           /\ proc'[p].pc = pc /\ proc'[p].n = n
           /\ \A b \in Boot!Procs : b # p => proc'[b] = proc[b]
<1>1. proc \in [Boot!Procs -> Proc] /\ proc[p] \in Proc
  BY DEF BootTyped
<1>2. proc' = [proc EXCEPT ![p] = [proc[p] EXCEPT !.pc = pc, !.n = n, !.seen = FALSE]]
  BY <1>1 DEF Boot!Goto
<1>3. [proc[p] EXCEPT !.pc = pc, !.n = n, !.seen = FALSE] \in Proc
  BY <1>1 DEF Proc
<1> QED
  BY <1>1, <1>2, <1>3 DEF Proc

\* A loop goes on with the next document, or to the next step after the last one.
LEMMA LoopMoves ==
    ASSUME BootTyped, NEW p \in Boot!Procs, NEW list, NEW next \in BootSteps,
           Len(list) \in Nat, proc[p].n \in 1..Len(list), Boot!Loop(p, list, next)
    PROVE  /\ proc' \in [Boot!Procs -> Proc]
           /\ \A b \in Boot!Procs : b # p => proc'[b] = proc[b]
           /\ \/ /\ proc'[p].pc = proc[p].pc /\ proc'[p].n = proc[p].n + 1
                 /\ proc'[p].n \in 1..Len(list)
              \/ proc'[p].pc = next /\ proc'[p].n = 1 /\ proc[p].n = Len(list)
<1>1. proc[p].pc \in BootSteps /\ proc[p].n \in Nat
  BY DEF BootTyped, Proc
<1>2. CASE proc[p].n < Len(list)
  <2>1. Boot!Goto(p, proc[p].pc, proc[p].n + 1) /\ proc[p].n + 1 \in Nat
    BY <1>1, <1>2 DEF Boot!Loop
  <2>2. /\ proc' \in [Boot!Procs -> Proc]
        /\ proc'[p].pc = proc[p].pc /\ proc'[p].n = proc[p].n + 1
        /\ \A b \in Boot!Procs : b # p => proc'[b] = proc[b]
    BY <1>1, <2>1, GotoMoves
  <2> QED
    BY <1>1, <1>2, <2>2
<1>3. CASE ~(proc[p].n < Len(list))
  <2>1. Boot!Goto(p, next, 1) /\ proc[p].n = Len(list)
    BY <1>1, <1>3 DEF Boot!Loop
  <2>2. /\ proc' \in [Boot!Procs -> Proc]
        /\ proc'[p].pc = next /\ proc'[p].n = 1
        /\ \A b \in Boot!Procs : b # p => proc'[b] = proc[b]
    BY <2>1, GotoMoves
  <2> QED
    BY <2>1, <2>2
<1> QED
  BY <1>2, <1>3

\* What is settled stays settled, and so does a seed run that writes no role.
LEMMA SettledStay ==
    ASSUME SeedsSettled, Boot!IdentityKept, kept \subseteq kept',
           \A p \in SeedRuns :
              \/ proc'[p].pc = proc[p].pc /\ proc'[p].n = proc[p].n
              \/ proc'[p].pc = "roles" /\ proc'[p].n = 1
              \/ proc'[p].pc \notin {"roles", "users", "end"}
              \/ proc'[p].pc = "end" /\ proc[p].pc = "users"
              \/ proc'[p].pc = "users" /\ proc[p].pc = "users"
    PROVE  SeedsSettled'
<1>1. \A p, s : Settled(p, s) => Settled(p, s)'
  BY DEF Settled, Boot!IdentityKept
<1>2. ASSUME NEW p \in SeedRuns
      PROVE  /\ proc'[p].pc = "roles" => \A i \in 1..(proc'[p].n - 1) : Settled(p, SystemSlugs[i])'
             /\ proc'[p].pc \in {"users", "end"} => \A s \in Boot!Slugs : Settled(p, s)'
  BY <1>1 DEF SeedsSettled
<1> QED
  BY <1>2 DEF SeedsSettled

\* What the documents keep to while none is added and no index is dropped.
LEMMA DocumentsStay ==
    ASSUME BootInv, roles' = roles, accounts' = accounts, kept' = kept,
           slugIndex' = slugIndex \/ slugIndex' # None,
           \A a \in Instances : proc'[a].pc = "roles" =>
              slugIndex' # None \/ proc[a].pc = "roles"
    PROVE  /\ IndexFirst' /\ Boot!TwinsAreSeeded' /\ Boot!DanglesOnlyIfOvertaken'
           /\ Boot!IdentityKept /\ Boot!OwnAccountKept
  BY DEF BootInv, IndexFirst, Boot!TwinsAreSeeded, Boot!DanglesOnlyIfOvertaken,
         Boot!IdentityKept, Boot!OwnAccountKept

\* The index is there after the step that makes it, and a role writer comes after it.
LEMMA QuietBoot ==
    ASSUME BootInv,
           \/ \E a \in Instances : \/ \E r \in Releases : Boot!Boot(a, r)
                                   \/ Boot!CreateSlugIndex(a) \/ Boot!Stop(a)
           \/ Boot!MigrateUsers \/ Boot!MigrateRoles
           \/ \E p \in SeedRuns : Boot!StartSeed(p)
           \/ \E p \in Instances \cup SeedRuns : Boot!LookUp(p)
    PROVE  BootInv' /\ Boot!IdentityKept /\ Boot!OwnAccountKept
<1>0. /\ BootTyped /\ IndexFirst /\ SeedsSettled
      /\ Instances \subseteq Boot!Procs /\ SeedRuns \subseteq Boot!Procs /\ Migration \in Boot!Procs
  BY DEF BootInv, Boot!Procs
<1>1. roles' = roles /\ accounts' = accounts /\ kept' = kept
  BY DEF Boot!Boot, Boot!CreateSlugIndex, Boot!Stop, Boot!MigrateUsers, Boot!MigrateRoles,
         Boot!StartSeed, Boot!LookUp
<1> SUFFICES /\ BootTyped' /\ (slugIndex' = slugIndex \/ slugIndex' # None)
             /\ \A a \in Instances : proc'[a].pc = "roles" =>
                   slugIndex' # None \/ proc[a].pc = "roles"
             /\ \A p \in SeedRuns :
                   \/ proc'[p].pc = proc[p].pc /\ proc'[p].n = proc[p].n
                   \/ proc'[p].pc = "roles" /\ proc'[p].n = 1
                   \/ proc'[p].pc \notin {"roles", "users", "end"}
  <2>1. /\ IndexFirst' /\ Boot!TwinsAreSeeded' /\ Boot!DanglesOnlyIfOvertaken'
        /\ Boot!IdentityKept /\ Boot!OwnAccountKept
    BY <1>1, DocumentsStay
  <2>2. SeedsSettled'
    BY <1>0, <1>1, <2>1, SettledStay
  <2> QED
    BY <2>1, <2>2 DEF BootInv
<1>2. ASSUME NEW a \in Instances, NEW r \in Releases, Boot!Boot(a, r)
      PROVE  /\ BootTyped' /\ slugIndex' = slugIndex
             /\ proc'[a].pc = "index" /\ \A b \in Boot!Procs : b # a => proc'[b] = proc[b]
  <2>1. /\ proc' = [proc EXCEPT ![a] = [pc |-> "index", n |-> 1, seen |-> FALSE, release |-> r]]
        /\ slugIndex' = slugIndex /\ userIndex' = userIndex /\ failures' = failures
        /\ boots < MaxBoots /\ boots' = boots + 1
    BY <1>2 DEF Boot!Boot
  <2>2. [pc |-> "index", n |-> 1, seen |-> FALSE, release |-> r] \in Proc
    BY DEF Proc, BootSteps
  <2>3. /\ proc' \in [Boot!Procs -> Proc] /\ proc'[a].pc = "index"
        /\ \A b \in Boot!Procs : b # a => proc'[b] = proc[b]
    BY <1>0, <2>1, <2>2 DEF BootTyped
  <2>4. boots' \in 0..MaxBoots
    BY <1>0, <2>1, BootAssumption DEF BootTyped
  <2> QED
    BY <1>0, <1>1, <2>1, <2>3, <2>4 DEF BootTyped
<1>3. ASSUME NEW p \in Boot!Procs, NEW pc \in BootSteps \ {"users"}, Boot!Goto(p, pc, 1),
             boots' = boots, userIndex' \in BOOLEAN,
             slugIndex' \in {None, "idx_role_slug", "idx_slug_unique"},
             failures' = failures \/ Boot!Fault
      PROVE  /\ BootTyped' /\ proc'[p].pc = pc /\ proc'[p].n = 1
             /\ \A b \in Boot!Procs : b # p => proc'[b] = proc[b]
  <2>1. /\ proc' \in [Boot!Procs -> Proc]
        /\ proc'[p].pc = pc /\ proc'[p].n = 1
        /\ \A b \in Boot!Procs : b # p => proc'[b] = proc[b]
    BY <1>0, <1>3, GotoMoves
  <2>2. failures' \in 0..MaxFaults
    BY <1>0, <1>3, BootAssumption DEF BootTyped, Boot!Fault
  <2>3. \A b \in Boot!Procs :
          /\ proc'[b].pc = "roles" => proc'[b].n \in 1..Len(SystemSlugs)
          /\ proc'[b].pc = "users" => proc'[b].n \in 1..Len(Accounts)
    BY <1>0, <1>3, <2>1, SeedLists DEF BootTyped
  <2>4. /\ roles' \subseteq [id : BootIds, slug : Boot!Slugs, perms : Releases]
        /\ accounts' \subseteq [id : BootIds, email : Boot!Slugs, role : BootIds,
                               password : {"seeded", "own"}]
        /\ boots' \in 0..MaxBoots
    BY <1>0, <1>1, <1>3 DEF BootTyped
  <2> QED
    BY <1>3, <2>1, <2>2, <2>3, <2>4 DEF BootTyped
<1>4. ASSUME NEW a \in Instances, Boot!CreateSlugIndex(a)
      PROVE  /\ BootTyped' /\ (slugIndex' = slugIndex \/ slugIndex' # None)
             /\ proc'[a].pc = "serving" \/ (proc'[a].pc = "roles" /\ slugIndex' # None)
             /\ \A b \in Boot!Procs : b # a => proc'[b] = proc[b]
  <2>1. /\ boots' = boots /\ userIndex' = userIndex
        /\ \/ slugIndex' = "idx_role_slug" /\ Boot!Goto(a, "roles", 1) /\ failures' = failures
           \/ slugIndex' = slugIndex /\ Boot!Goto(a, "serving", 1)
              /\ (failures' = failures \/ Boot!Fault)
    BY <1>4 DEF Boot!CreateSlugIndex
  <2>2. userIndex' \in BOOLEAN /\ slugIndex' \in {None, "idx_role_slug", "idx_slug_unique"}
    BY <1>0, <2>1 DEF BootTyped
  <2>3. \A pc \in {"roles", "serving"} : pc \in BootSteps \ {"users"}
    BY DEF BootSteps
  <2>4. CASE slugIndex' = "idx_role_slug" /\ Boot!Goto(a, "roles", 1) /\ failures' = failures
    BY <1>0, <1>3, <2>1, <2>2, <2>3, <2>4, BootAssumption
  <2>5. CASE slugIndex' = slugIndex /\ Boot!Goto(a, "serving", 1)
             /\ (failures' = failures \/ Boot!Fault)
    BY <1>0, <1>3, <2>1, <2>2, <2>3, <2>5
  <2> QED
    BY <2>1, <2>4, <2>5
<1>5. ASSUME NEW a \in Instances, Boot!Stop(a)
      PROVE  /\ BootTyped' /\ slugIndex' = slugIndex /\ proc'[a].pc = "off"
             /\ \A b \in Boot!Procs : b # a => proc'[b] = proc[b]
  <2>1. /\ Boot!Goto(a, "off", 1) /\ slugIndex' = slugIndex /\ userIndex' = userIndex
        /\ boots' = boots /\ failures' = failures
        /\ userIndex' \in BOOLEAN /\ slugIndex' \in {None, "idx_role_slug", "idx_slug_unique"}
    BY <1>0, <1>5 DEF Boot!Stop, BootTyped
  <2>2. "off" \in BootSteps \ {"users"}
    BY DEF BootSteps
  <2> QED
    BY <1>0, <1>3, <2>1, <2>2
<1>6. ASSUME Boot!MigrateUsers \/ Boot!MigrateRoles
      PROVE  /\ BootTyped' /\ (slugIndex' = slugIndex \/ slugIndex' # None)
             /\ \A b \in Boot!Procs : b # Migration => proc'[b] = proc[b]
  <2>1. "roles" \in BootSteps \ {"users"} /\ "end" \in BootSteps \ {"users"}
    BY DEF BootSteps
  <2>2. /\ Boot!Goto(Migration, "roles", 1) \/ Boot!Goto(Migration, "end", 1)
        /\ boots' = boots /\ (failures' = failures \/ Boot!Fault)
        /\ slugIndex' = slugIndex \/ slugIndex' = "idx_slug_unique"
    BY <1>6 DEF Boot!MigrateUsers, Boot!MigrateRoles
  <2>3. userIndex' \in BOOLEAN
    BY <1>0, <1>6 DEF Boot!MigrateUsers, Boot!MigrateRoles, Boot!Unique, BootTyped
  <2>4. slugIndex' \in {None, "idx_role_slug", "idx_slug_unique"}
    BY <1>0, <2>2 DEF BootTyped
  <2> QED
    BY <1>0, <1>3, <2>1, <2>2, <2>3, <2>4, BootAssumption
<1>7. ASSUME NEW p \in SeedRuns, Boot!StartSeed(p)
      PROVE  /\ BootTyped' /\ slugIndex' = slugIndex /\ proc'[p].pc = "roles" /\ proc'[p].n = 1
             /\ \A b \in Boot!Procs : b # p => proc'[b] = proc[b]
  <2>1. /\ Boot!Goto(p, "roles", 1) /\ slugIndex' = slugIndex /\ userIndex' = userIndex
        /\ boots' = boots /\ failures' = failures
        /\ userIndex' \in BOOLEAN /\ slugIndex' \in {None, "idx_role_slug", "idx_slug_unique"}
    BY <1>0, <1>7 DEF Boot!StartSeed, BootTyped
  <2>2. "roles" \in BootSteps \ {"users"}
    BY DEF BootSteps
  <2> QED
    BY <1>0, <1>3, <2>1, <2>2
<1>8. ASSUME NEW p \in Instances \cup SeedRuns, Boot!LookUp(p)
      PROVE  /\ BootTyped' /\ slugIndex' = slugIndex
             /\ \A b \in Boot!Procs : proc'[b].pc = proc[b].pc /\ proc'[b].n = proc[b].n
  <2>1. /\ proc' = [proc EXCEPT ![p] = [proc[p] EXCEPT !.seen = TRUE]]
        /\ slugIndex' = slugIndex /\ userIndex' = userIndex
        /\ boots' = boots /\ failures' = failures
    BY <1>0, <1>8 DEF Boot!LookUp, BootTyped
  <2>2. /\ proc[p] \in Proc /\ [proc[p] EXCEPT !.seen = TRUE] \in Proc
        /\ [proc[p] EXCEPT !.seen = TRUE].pc = proc[p].pc
        /\ [proc[p] EXCEPT !.seen = TRUE].n = proc[p].n
    BY <1>0 DEF BootTyped, Proc
  <2>3. /\ proc' \in [Boot!Procs -> Proc]
        /\ \A b \in Boot!Procs : proc'[b].pc = proc[b].pc /\ proc'[b].n = proc[b].n
    BY <1>0, <2>1, <2>2 DEF BootTyped
  <2> QED
    BY <1>0, <1>1, <2>1, <2>3 DEF BootTyped
<1> QED
  <2>1. \A a \in Instances, p \in SeedRuns : a # p /\ a # Migration /\ p # Migration
    BY BootAssumption
  <2>2. CASE \E a \in Instances : \/ \E r \in Releases : Boot!Boot(a, r)
                                 \/ Boot!CreateSlugIndex(a) \/ Boot!Stop(a)
    <3>1. PICK a \in Instances : \/ \E r \in Releases : Boot!Boot(a, r)
                                \/ Boot!CreateSlugIndex(a) \/ Boot!Stop(a)
      BY <2>2
    <3>2. /\ BootTyped' /\ (slugIndex' = slugIndex \/ slugIndex' # None)
          /\ proc'[a].pc = "roles" => slugIndex' # None
          /\ \A b \in Boot!Procs : b # a => proc'[b] = proc[b]
      BY <1>2, <1>4, <1>5, <3>1
    <3> QED
      BY <1>0, <2>1, <3>2
  <2>3. CASE Boot!MigrateUsers \/ Boot!MigrateRoles
    BY <1>0, <1>6, <2>1, <2>3, BootAssumption
  <2>4. CASE \E p \in SeedRuns : Boot!StartSeed(p)
    <3>1. PICK p \in SeedRuns : Boot!StartSeed(p)
      BY <2>4
    <3> QED
      BY <1>0, <1>7, <2>1, <3>1
  <2>5. CASE \E p \in Instances \cup SeedRuns : Boot!LookUp(p)
    BY <1>0, <1>8, <2>5
  <2> QED
    BY <2>2, <2>3, <2>4, <2>5

\* What an instance writes for a slug.
RoleOf(a, s) == [id |-> <<a, s>>, slug |-> s, perms |-> proc[a].release]

\* The roles as an instance writes them: one more under the index, or each of the slug with
\* its permissions replaced.
LEMMA RolesWritten ==
    ASSUME BootInv, NEW a \in Instances, proc[a].pc = "roles",
           NEW s \in Boot!Slugs,
           roles' = (roles \ Boot!Roles(s)) \cup
               IF Boot!Inserts(a, Boot!Roles(s), slugIndex # None)
               THEN Boot!Roles(s) \cup {RoleOf(a, s)} ELSE Boot!Refreshed(Boot!Roles(s), RoleOf(a, s))
    PROVE  /\ slugIndex # None
           /\ roles' \subseteq [id : BootIds, slug : Boot!Slugs, perms : Releases]
           /\ \/ Boot!Roles(s) = {} /\ roles' = roles \cup {RoleOf(a, s)}
              \/ \A e \in roles' : \E d \in roles :
                    e = IF d.slug = s THEN [d EXCEPT !.perms = RoleOf(a, s).perms] ELSE d
           /\ Boot!IdentityKept
<1> DEFINE doc == RoleOf(a, s)
           Written(d) == IF d.slug = s THEN [d EXCEPT !.perms = doc.perms] ELSE d
<1>1. /\ roles \subseteq [id : BootIds, slug : Boot!Slugs, perms : Releases]
      /\ proc[a].release \in Releases /\ slugIndex # None
      /\ a \in Boot!Procs
  BY DEF BootInv, BootTyped, IndexFirst, Proc, Boot!Procs
<1>2. doc \in [id : BootIds, slug : Boot!Slugs, perms : Releases] /\ doc.perms \in Releases
  BY <1>1 DEF BootIds, RoleOf
<1>3. Boot!Inserts(a, Boot!Roles(s), slugIndex # None) <=> Boot!Roles(s) = {}
  BY <1>1 DEF Boot!Inserts
<1>4. CASE Boot!Roles(s) = {}
  <2>1. roles' = roles \cup {doc}
    BY <1>3, <1>4
  <2> QED
    BY <1>1, <1>2, <1>4, <2>1 DEF Boot!IdentityKept
<1>5. CASE Boot!Roles(s) # {}
  <2>1. roles' = (roles \ Boot!Roles(s)) \cup {[d EXCEPT !.perms = doc.perms] : d \in Boot!Roles(s)}
    BY <1>3, <1>5 DEF Boot!Refreshed
  <2>2. roles' = {Written(d) : d \in roles}
    BY <2>1 DEF Boot!Roles
  <2>3. \A d \in roles : /\ Written(d) \in [id : BootIds, slug : Boot!Slugs, perms : Releases]
                         /\ Written(d).id = d.id /\ Written(d).slug = d.slug
    BY <1>1, <1>2
  <2> HIDE DEF Written
  <2>4. Boot!IdentityKept
    BY <2>2, <2>3 DEF Boot!IdentityKept
  <2>5. \A e \in roles' : \E d \in roles : e = Written(d)
    BY <2>2
  <2> QED
    BY <1>1, <2>2, <2>3, <2>4, <2>5 DEF Written
<1> QED
  BY <1>4, <1>5

\* An instance writes a role.
LEMMA EnsureRoleKeeps ==
    ASSUME BootInv, NEW a \in Instances, Boot!EnsureRole(a)
    PROVE  BootInv' /\ Boot!IdentityKept /\ Boot!OwnAccountKept
<1> DEFINE s == SystemSlugs[proc[a].n]
           doc == RoleOf(a, s)
<1>0. /\ BootTyped /\ IndexFirst /\ SeedsSettled /\ Boot!TwinsAreSeeded
      /\ Boot!DanglesOnlyIfOvertaken
      /\ a \in Boot!Procs /\ a \notin SeedRuns /\ SeedRuns \subseteq Boot!Procs
  BY BootAssumption DEF BootInv, Boot!Procs
<1>1. /\ proc[a].pc = "roles"
      /\ slugIndex' = slugIndex /\ accounts' = accounts /\ userIndex' = userIndex
      /\ boots' = boots /\ kept' = kept
      /\ \/ /\ roles' = (roles \ Boot!Roles(s)) \cup
                  IF Boot!Inserts(a, Boot!Roles(s), slugIndex # None)
                  THEN Boot!Roles(s) \cup {doc} ELSE Boot!Refreshed(Boot!Roles(s), doc)
            /\ Boot!Loop(a, SystemSlugs, "serving")
            /\ failures' = failures
         \/ Boot!Fault /\ Boot!Goto(a, "serving", 1) /\ roles' = roles
  BY DEF Boot!EnsureRole, Boot!At, RoleOf
<1>2. proc[a].n \in 1..Len(SystemSlugs) /\ s \in Boot!Slugs
  BY <1>0, <1>1, SeedLists DEF BootTyped
<1>3. /\ proc' \in [Boot!Procs -> Proc]
      /\ proc'[a].pc \in {"roles", "serving"}
      /\ proc'[a].pc = "roles" => proc'[a].n \in 1..Len(SystemSlugs)
      /\ \A b \in Boot!Procs : b # a => proc'[b] = proc[b]
  <2>1. "serving" \in BootSteps
    BY DEF BootSteps
  <2>2. CASE Boot!Loop(a, SystemSlugs, "serving")
    BY <1>0, <1>1, <1>2, <2>1, <2>2, LoopMoves, SeedLists
  <2>3. CASE Boot!Goto(a, "serving", 1)
    BY <1>0, <2>1, <2>3, GotoMoves
  <2> QED
    BY <1>1, <2>2, <2>3
<1>4. failures' \in 0..MaxFaults
  BY <1>0, <1>1, BootAssumption DEF BootTyped, Boot!Fault
<1>5. \A b \in Boot!Procs :
        /\ proc'[b].pc = "roles" => proc'[b].n \in 1..Len(SystemSlugs)
        /\ proc'[b].pc = "users" => proc'[b].n \in 1..Len(Accounts)
  BY <1>0, <1>3 DEF BootTyped
<1>6. /\ slugIndex # None
      /\ roles' \subseteq [id : BootIds, slug : Boot!Slugs, perms : Releases]
      /\ \/ Boot!Roles(s) = {} /\ roles' = roles \cup {doc}
         \/ \A e \in roles' : \E d \in roles :
               e = IF d.slug = s THEN [d EXCEPT !.perms = doc.perms] ELSE d
         \/ roles' = roles
      /\ Boot!IdentityKept
  <2>1. CASE roles' = roles
    BY <1>0, <1>1, <2>1 DEF BootTyped, IndexFirst, Boot!IdentityKept
  <2>2. CASE roles' = (roles \ Boot!Roles(s)) \cup
                  IF Boot!Inserts(a, Boot!Roles(s), slugIndex # None)
                  THEN Boot!Roles(s) \cup {doc} ELSE Boot!Refreshed(Boot!Roles(s), doc)
    <3> HIDE DEF s
    <3> QED
      BY <1>1, <1>2, <2>2, RolesWritten
  <2> QED
    BY <1>1, <2>1, <2>2
<1>7. BootTyped'
  BY <1>0, <1>1, <1>3, <1>4, <1>5, <1>6 DEF BootTyped
<1>8. IndexFirst'
  BY <1>1, <1>6 DEF IndexFirst
<1>9. Boot!TwinsAreSeeded'
  <2>1. CASE Boot!Roles(s) = {} /\ roles' = roles \cup {doc}
    BY <1>0, <2>1 DEF Boot!TwinsAreSeeded, Boot!Roles, RoleOf
  <2>2. ASSUME \A e \in roles' : \E d \in roles :
                  e = IF d.slug = s THEN [d EXCEPT !.perms = doc.perms] ELSE d,
               NEW e1 \in roles', NEW e2 \in roles', e1.slug = e2.slug, e1 # e2
        PROVE  e1.id[1] \in SeedRuns /\ e2.id[1] \in SeedRuns
    <3>1. PICK d1 \in roles : e1 = IF d1.slug = s THEN [d1 EXCEPT !.perms = doc.perms] ELSE d1
      BY <2>2
    <3>2. PICK d2 \in roles : e2 = IF d2.slug = s THEN [d2 EXCEPT !.perms = doc.perms] ELSE d2
      BY <2>2
    <3>3. /\ e1.id = d1.id /\ e1.slug = d1.slug /\ e2.id = d2.id /\ e2.slug = d2.slug
      BY <1>0, <3>1, <3>2 DEF BootTyped
    <3>4. d1 # d2
      BY <2>2, <3>1, <3>2
    <3> QED
      BY <1>0, <2>2, <3>3, <3>4 DEF Boot!TwinsAreSeeded
  <2> QED
    BY <1>0, <1>6, <2>1, <2>2 DEF Boot!TwinsAreSeeded
<1>10. SeedsSettled'
  <2>1. \A p \in SeedRuns : proc'[p] = proc[p]
    BY <1>0, <1>3
  <2> QED
    BY <1>0, <1>1, <1>6, <2>1, SettledStay
<1>11. Boot!DanglesOnlyIfOvertaken'
  BY <1>0, <1>1, <1>6 DEF Boot!DanglesOnlyIfOvertaken, Boot!IdentityKept
<1>12. Boot!OwnAccountKept
  BY <1>1 DEF Boot!OwnAccountKept
<1> QED
  BY <1>6, <1>7, <1>8, <1>9, <1>10, <1>11, <1>12 DEF BootInv

\* A seed run writes a role, or learns that it does not.
LEMMA SeedRoleKeeps ==
    ASSUME BootInv, NEW p \in SeedRuns, Boot!SeedRole(p)
    PROVE  BootInv' /\ Boot!IdentityKept /\ Boot!OwnAccountKept
<1> DEFINE s == SystemSlugs[proc[p].n]
           doc == [id |-> <<p, s>>, slug |-> s, perms |-> 1]
           inserts == Boot!Inserts(p, Boot!Roles(s), slugIndex # None)
<1>0. /\ BootTyped /\ IndexFirst /\ SeedsSettled /\ Boot!TwinsAreSeeded
      /\ Boot!DanglesOnlyIfOvertaken
      /\ p \in Boot!Procs /\ p \notin Instances /\ SeedRuns \subseteq Boot!Procs
      /\ Instances \subseteq Boot!Procs
  BY BootAssumption DEF BootInv, Boot!Procs
<1>1. /\ proc[p].pc = "roles" /\ Boot!Loop(p, SystemSlugs, "users")
      /\ slugIndex' = slugIndex /\ accounts' = accounts /\ userIndex' = userIndex
      /\ boots' = boots
      /\ \/ /\ roles' = roles \cup {d \in {doc} : inserts}
            /\ kept' = kept \cup {x \in {<<p, s>>} : ~inserts}
            /\ failures' = failures
         \/ Boot!Fault /\ kept' = kept \cup {<<p, s>>} /\ roles' = roles
  BY DEF Boot!SeedRole, Boot!At, Boot!RoleDoc, Boot!SeededId
<1>2. proc[p].n \in 1..Len(SystemSlugs) /\ s \in Boot!Slugs
  BY <1>0, <1>1, SeedLists DEF BootTyped
<1>3. /\ proc' \in [Boot!Procs -> Proc]
      /\ \A b \in Boot!Procs : b # p => proc'[b] = proc[b]
      /\ \/ /\ proc'[p].pc = "roles" /\ proc'[p].n = proc[p].n + 1
            /\ proc'[p].n \in 1..Len(SystemSlugs)
         \/ proc'[p].pc = "users" /\ proc'[p].n = 1 /\ proc[p].n = Len(SystemSlugs)
  <2>1. "users" \in BootSteps
    BY DEF BootSteps
  <2> QED
    BY <1>0, <1>1, <1>2, <2>1, LoopMoves, SeedLists
<1>4. failures' \in 0..MaxFaults
  BY <1>0, <1>1, BootAssumption DEF BootTyped, Boot!Fault
<1>5. \A b \in Boot!Procs :
        /\ proc'[b].pc = "roles" => proc'[b].n \in 1..Len(SystemSlugs)
        /\ proc'[b].pc = "users" => proc'[b].n \in 1..Len(Accounts)
  BY <1>0, <1>3, SeedLists DEF BootTyped
<1>6. doc \in [id : BootIds, slug : Boot!Slugs, perms : Releases]
  BY <1>0, <1>2, BootAssumption DEF BootIds
<1>7. /\ roles \subseteq roles' /\ kept \subseteq kept' /\ Boot!IdentityKept
      /\ \/ roles' = roles
         \/ roles' = roles \cup {doc} /\ (Boot!Roles(s) = {} \/ slugIndex = None)
      /\ doc \in roles' \/ <<p, s>> \in kept'
  BY <1>1 DEF Boot!Inserts, Boot!IdentityKept
<1>8. BootTyped'
  BY <1>0, <1>1, <1>3, <1>4, <1>5, <1>6, <1>7 DEF BootTyped
<1>9. IndexFirst'
  BY <1>0, <1>1, <1>3, <1>7 DEF IndexFirst
<1>10. Boot!TwinsAreSeeded'
  BY <1>0, <1>7 DEF Boot!TwinsAreSeeded, IndexFirst, Boot!Roles
<1>11. SeedsSettled'
  <2>1. \A q, x : Settled(q, x) => Settled(q, x)'
    BY <1>7 DEF Settled
  <2>2. \A x : x = s => Settled(p, x)'
    BY <1>7 DEF Settled
  <2> HIDE DEF s
  <2>3. \A i \in 1..(proc[p].n - 1) : Settled(p, SystemSlugs[i])
    BY <1>0, <1>1 DEF SeedsSettled
  <2>4. \A i \in 1..proc[p].n : Settled(p, SystemSlugs[i])'
    <3>1. ASSUME NEW i \in 1..proc[p].n PROVE Settled(p, SystemSlugs[i])'
      <4>1. CASE i = proc[p].n
        BY <2>2, <4>1 DEF s
      <4>2. CASE i # proc[p].n
        BY <1>2, <2>1, <2>3, <4>2, SeedLists
      <4> QED
        BY <4>1, <4>2
    <3> QED
      BY <3>1
  <2>5. CASE proc'[p].pc = "roles" /\ proc'[p].n = proc[p].n + 1
    <3>1. proc'[p].n - 1 = proc[p].n
      BY <1>2, <2>5, SeedLists
    <3> QED
      BY <1>0, <1>3, <2>1, <2>4, <2>5, <3>1 DEF SeedsSettled
  <2>6. CASE proc'[p].pc = "users" /\ proc[p].n = Len(SystemSlugs)
    <3>1. \A x \in Boot!Slugs : Settled(p, x)'
      BY <2>4, <2>6, SeedLists
    <3> QED
      BY <1>0, <1>3, <2>1, <2>6, <3>1 DEF SeedsSettled
  <2> QED
    BY <1>3, <2>5, <2>6
<1>12. Boot!DanglesOnlyIfOvertaken'
  BY <1>0, <1>1, <1>7 DEF Boot!DanglesOnlyIfOvertaken
<1>13. Boot!OwnAccountKept
  BY <1>1 DEF Boot!OwnAccountKept
<1> QED
  BY <1>7, <1>8, <1>9, <1>10, <1>11, <1>12, <1>13 DEF BootInv

\* A seed run writes an account; its roles are settled by then.
LEMMA SeedUserKeeps ==
    ASSUME BootInv, NEW p \in SeedRuns, Boot!SeedUser(p)
    PROVE  BootInv' /\ Boot!IdentityKept /\ Boot!OwnAccountKept
<1> DEFINE e == Accounts[proc[p].n]
           doc == [id |-> <<p, e>>, email |-> e, role |-> <<p, e>>, password |-> "seeded"]
<1>0. /\ BootTyped /\ IndexFirst /\ SeedsSettled /\ Boot!TwinsAreSeeded
      /\ Boot!DanglesOnlyIfOvertaken
      /\ p \in Boot!Procs /\ p \notin Instances /\ SeedRuns \subseteq Boot!Procs
      /\ Instances \subseteq Boot!Procs
  BY BootAssumption DEF BootInv, Boot!Procs
<1>1. /\ proc[p].pc = "users" /\ Boot!Loop(p, Accounts, "end")
      /\ slugIndex' = slugIndex /\ roles' = roles /\ userIndex' = userIndex
      /\ boots' = boots /\ kept' = kept
      /\ \/ /\ accounts' = (accounts \ Boot!UsersOf(e)) \cup
                  IF Boot!Inserts(p, Boot!UsersOf(e), userIndex)
                  THEN Boot!UsersOf(e) \cup {doc} ELSE Boot!UpsertUser(Boot!UsersOf(e), doc)
            /\ failures' = failures
         \/ Boot!Fault /\ accounts' = accounts
  BY DEF Boot!SeedUser, Boot!At
<1>2. proc[p].n \in 1..Len(Accounts) /\ e \in Boot!Slugs
  BY <1>0, <1>1, SeedLists DEF BootTyped
<1>3. /\ proc' \in [Boot!Procs -> Proc]
      /\ \A b \in Boot!Procs : b # p => proc'[b] = proc[b]
      /\ \/ proc'[p].pc = "users" /\ proc'[p].n \in 1..Len(Accounts)
         \/ proc'[p].pc = "end"
  <2>1. "end" \in BootSteps
    BY DEF BootSteps
  <2> QED
    BY <1>0, <1>1, <1>2, <2>1, LoopMoves, SeedLists
<1>4. failures' \in 0..MaxFaults
  BY <1>0, <1>1, BootAssumption DEF BootTyped, Boot!Fault
<1>5. \A b \in Boot!Procs :
        /\ proc'[b].pc = "roles" => proc'[b].n \in 1..Len(SystemSlugs)
        /\ proc'[b].pc = "users" => proc'[b].n \in 1..Len(Accounts)
  BY <1>0, <1>3 DEF BootTyped
<1>6. doc \in [id : BootIds, email : Boot!Slugs, role : BootIds, password : {"seeded", "own"}]
  BY <1>0, <1>2 DEF BootIds
<1>7. accounts \subseteq accounts' /\ accounts' \subseteq accounts \cup {doc}
  BY <1>1 DEF Boot!UsersOf, Boot!UpsertUser
<1>8. BootTyped'
  BY <1>0, <1>1, <1>3, <1>4, <1>5, <1>6, <1>7 DEF BootTyped
<1>9. IndexFirst'
  BY <1>0, <1>1, <1>3 DEF IndexFirst
<1>10. Boot!TwinsAreSeeded' /\ Boot!IdentityKept
  BY <1>0, <1>1 DEF Boot!TwinsAreSeeded, Boot!IdentityKept
<1>11. SeedsSettled'
  <2>1. kept \subseteq kept'
    BY <1>1
  <2> QED
    BY <1>0, <1>1, <1>3, <1>10, <2>1, SettledStay
<1>12. Boot!DanglesOnlyIfOvertaken'
  <2>1. Settled(p, e)
    BY <1>0, <1>1, <1>2 DEF SeedsSettled
  <2> QED
    BY <1>0, <1>1, <1>7, <2>1 DEF Boot!DanglesOnlyIfOvertaken, Settled
<1>13. Boot!OwnAccountKept
  BY <1>7 DEF Boot!OwnAccountKept
<1> QED
  BY <1>8, <1>9, <1>10, <1>11, <1>12, <1>13 DEF BootInv

\* Every step of a start, a seed run or a migration keeps the invariant, every role's id
\* and what the owner of an account changed.
LEMMA BootKeeps ==
    ASSUME BootInv, Boot!Next
    PROVE  BootInv' /\ Boot!IdentityKept /\ Boot!OwnAccountKept
<1>1. ASSUME NEW u \in accounts, Boot!ChangePassword(u)
      PROVE  BootInv' /\ Boot!IdentityKept /\ Boot!OwnAccountKept
  <2>1. /\ u.password = "seeded"
        /\ accounts' = (accounts \ {u}) \cup {[u EXCEPT !.password = "own"]}
        /\ roles' = roles /\ slugIndex' = slugIndex /\ userIndex' = userIndex /\ proc' = proc
        /\ boots' = boots /\ failures' = failures /\ kept' = kept
    BY <1>1 DEF Boot!ChangePassword
  <2>2. accounts \subseteq [id : BootIds, email : Boot!Slugs, role : BootIds,
                            password : {"seeded", "own"}]
    BY DEF BootInv, BootTyped
  <2>3. /\ [u EXCEPT !.password = "own"] \in [id : BootIds, email : Boot!Slugs, role : BootIds,
                                              password : {"seeded", "own"}]
        /\ [u EXCEPT !.password = "own"].role = u.role
    BY <2>2
  <2>4. BootTyped'
    BY <2>1, <2>2, <2>3 DEF BootInv, BootTyped
  <2>5. IndexFirst' /\ SeedsSettled' /\ Boot!TwinsAreSeeded' /\ Boot!IdentityKept
    BY <2>1 DEF BootInv, IndexFirst, SeedsSettled, Settled, Boot!TwinsAreSeeded, Boot!IdentityKept
  <2>6. Boot!DanglesOnlyIfOvertaken' /\ Boot!OwnAccountKept
    BY <2>1, <2>3 DEF BootInv, Boot!DanglesOnlyIfOvertaken, Boot!OwnAccountKept
  <2> QED
    BY <2>4, <2>5, <2>6 DEF BootInv
<1>2. CASE \E a \in Instances : \/ \E r \in Releases : Boot!Boot(a, r)
                                \/ Boot!CreateSlugIndex(a) \/ Boot!EnsureRole(a) \/ Boot!Stop(a)
  BY <1>2, QuietBoot, EnsureRoleKeeps
<1>3. CASE Boot!MigrateUsers \/ Boot!MigrateRoles
  BY <1>3, QuietBoot
<1>4. CASE \E p \in SeedRuns : Boot!StartSeed(p) \/ Boot!SeedRole(p) \/ Boot!SeedUser(p)
  BY <1>4, QuietBoot, SeedRoleKeeps, SeedUserKeeps
<1>5. CASE \E p \in Instances \cup SeedRuns : Boot!LookUp(p)
  BY <1>5, QuietBoot
<1> QED
  BY <1>1, <1>2, <1>3, <1>4, <1>5 DEF Boot!Next


-----------------------------------------------------------------------------
(* The parts together *)

\* Each part starts from its own initial state.
LEMMA RecordsStart == RecordsInit => TInv /\ RecordsInv
  BY InitTyped, NoticeStarts, AdminStarts, BootStarts DEF RecordsInit, RecordsInv

\* A step of a part follows the part's next-state relation, and the others rest.
LEMMA RecordsStep ==
    ASSUME TInv, RecordsInv, [RecordsNext]_recordsVars
    PROVE  /\ TInv' /\ RecordsInv'
           /\ (focus = "admin" => Admin!DeletedKept) \/ UNCHANGED adminVars
           /\ (focus = "boot" => Boot!IdentityKept /\ Boot!OwnAccountKept) \/ UNCHANGED bootVars
<1>1. CASE UNCHANGED recordsVars
  <2>1. UNCHANGED vars /\ focus' = focus
    BY <1>1 DEF recordsVars
  <2>2. TInv'
    BY <2>1, NextTyped
  <2>3. focus = "notice" => NoticeInv'
    BY <1>1 DEF RecordsInv, recordsVars, noticeVars, NoticeInv, NoticeTyped, InboxSound,
       DevicesSound, OptOutsPending, Notice!PushReachesHolder, Notice!SilencedOnlyIfRefused,
       Notice!OptOutKept, Notice!Decodable, Notice!KeysOf
  <2>4. focus = "admin" => AdminInv'
    <3>1. UNCHANGED adminVars
      BY <1>1 DEF recordsVars
    <3> QED
      BY <3>1, AdminKeeps DEF RecordsInv
  <2>5. focus = "boot" => BootInv'
    BY <1>1 DEF RecordsInv, recordsVars, bootVars, BootInv, BootTyped, IndexFirst,
       SeedsSettled, Settled, Boot!TwinsAreSeeded, Boot!DanglesOnlyIfOvertaken
  <2> QED
    BY <1>1, <2>1, <2>2, <2>3, <2>4, <2>5 DEF RecordsInv, recordsVars
<1>2. CASE Step("hub", Next)
  <2>1. Next /\ focus = "hub" /\ focus' = focus
    BY <1>2 DEF Step
  <2> QED
    BY <2>1, NextTyped DEF RecordsInv
<1>3. CASE Step("notice", Notice!Next)
  <2>1. Notice!Next /\ focus = "notice" /\ focus' = focus /\ UNCHANGED vars
    BY <1>3 DEF Step, Resting
  <2> QED
    BY <2>1, NextTyped, NoticeKeeps DEF RecordsInv
<1>4. CASE Step("admin", Admin!Next)
  <2>1. Admin!Next /\ focus = "admin" /\ focus' = focus /\ UNCHANGED vars
    BY <1>4 DEF Step, Resting
  <2>2. AdminInv /\ AdminTyped
    BY <2>1 DEF RecordsInv, AdminInv
  <2> QED
    BY <2>1, <2>2, NextTyped, AdminKeeps, DeletedStay DEF RecordsInv
<1>5. CASE Step("boot", Boot!Next)
  <2>1. Boot!Next /\ focus = "boot" /\ focus' = focus /\ UNCHANGED vars
    BY <1>5 DEF Step, Resting
  <2> QED
    BY <2>1, NextTyped, BootKeeps DEF RecordsInv
<1> QED
  BY <1>1, <1>2, <1>3, <1>4, <1>5 DEF RecordsNext

\* The invariants hold of every part.
THEOREM RecordsInvariant == RecordsSpec => [](TInv /\ RecordsInv)
<1>1. RecordsInit => TInv /\ RecordsInv
  BY RecordsStart
<1>2. TInv /\ RecordsInv /\ [RecordsNext]_recordsVars => (TInv /\ RecordsInv)'
  BY RecordsStep
<1> QED
  BY <1>1, <1>2, PTL DEF RecordsSpec

\* The types of the hub, the notifications, the accounts and the seeding.
THEOREM RecordsTypeCorrect == RecordsSpec => []TypesOK
<1>1. TInv /\ RecordsInv => TypesOK
  <2> SUFFICES ASSUME TInv, RecordsInv PROVE TypesOK
    OBVIOUS
  <2>1. ASSUME NoticeInv PROVE Notice!TypeOK
    <3>1. \A u \in Users : prefs[u].id \in {None, "uuid", "objectid"}
      BY <2>1 DEF NoticeInv, NoticeTyped, Pref
    <3>2. /\ \A n, m \in inbox : n.id = m.id => n = m
          /\ \A n \in inbox : n.channel = "in_app" \/ n.status \in {"failed", "read"}
      BY <2>1 DEF NoticeInv, NoticeTyped, NoticeRow, InboxSound
    <3>3. \A o \in Calls : op[o].user # None => op[o].user \notin op[o].todo
      BY <2>1 DEF NoticeInv, NoticeTyped, NoticeLocals
    <3> QED
      BY <2>1, <3>1, <3>2, <3>3 DEF Notice!TypeOK, NoticeInv, NoticeTyped
  <2>2. ASSUME AdminInv PROVE Admin!TypeOK
    <3>1. \A o \in Calls : request[o].pc \in {"idle", "write", "username", "insert"}
      BY <2>2 DEF AdminInv, AdminTyped, AdminLocals, Admin!Idle
    <3>2. begun <= MaxRequests /\ faults <= MaxFaults
      BY <2>2 DEF AdminInv, AdminTyped
    <3>3. \A r \in Rows : /\ users[r] = None \/ users[r] \in Admin!User
                          /\ claims[r] = None \/ claims[r].role \in Admin!RoleSlugs
      BY <2>2 DEF AdminInv, AdminTyped, AdminClaim
    <3> QED
      BY <2>2, <3>1, <3>2, <3>3 DEF Admin!TypeOK, AdminInv, AdminTyped
  <2>3. ASSUME BootInv PROVE Boot!TypeOK
    <3>1. /\ boots <= MaxBoots /\ failures <= MaxFaults
          /\ \A p \in Boot!Procs : proc[p].pc \in BootSteps
          /\ \A d \in roles : d.slug \in Boot!Slugs /\ d.id \in Boot!Procs \X Boot!Slugs
                              /\ d.perms \in Releases
      BY <2>3 DEF BootInv, BootTyped, Proc, BootIds
    <3> QED
      BY <2>3, <3>1 DEF Boot!TypeOK, BootInv, BootTyped, BootSteps
  <2> QED
    BY <2>1, <2>2, <2>3 DEF RecordsInv, TypesOK, TInv
<1> QED
  BY <1>1, RecordsInvariant, PTL

\* A push reaches a device its user had registered while the call ran, whatever happens to
\* the device meanwhile; a device its holder keeps stays active until FCM refuses it; what
\* a user switched off stays off, and a later send heeds it (NotificationService).
THEOREM NoticesAreSound == RecordsSpec => []NoticesReachTheRight
<1>1. TInv /\ RecordsInv => NoticesReachTheRight
  BY DEF RecordsInv, NoticeInv, NoticesReachTheRight
<1> QED
  BY <1>1, RecordsInvariant, PTL

\* However many administrators change one account at once, no permission is both granted
\* and withdrawn, nobody shares an address or a name, and a list that was asked for is
\* there unless two changes of it overlapped (UserService).
THEOREM AccountsAreSound == RecordsSpec => []AccountsSound
<1>1. TInv /\ RecordsInv => AccountsSound
  BY DEF RecordsInv, AdminInv, AccountsSound
<1> QED
  BY <1>1, RecordsInvariant, PTL

\* A deleted account is never changed again, by a request that had read it before either, but
\* for its counter, to which each failed login that was under way adds one at most
\* (UserRepository.Update, IncrementPasswordAttempts).
THEOREM DeletedStayDeleted == RecordsSpec => DeletedIsFinal
<1>1. TInv /\ RecordsInv /\ [RecordsNext]_recordsVars
        => [focus = "admin" => Admin!DeletedKept]_adminVars
  BY RecordsStep
<1> QED
  BY <1>1, RecordsInvariant, PTL DEF RecordsSpec, DeletedIsFinal

\* Only overlapping seed runs make two documents of one role, and a seeded account names a
\* role that exists unless its seed run was overtaken (EnsureRoles, seedUser).
THEOREM SeedsAreSound == RecordsSpec => []SeedsMatch
<1>1. TInv /\ RecordsInv => SeedsMatch
  BY DEF RecordsInv, BootInv, SeedsMatch
<1> QED
  BY <1>1, RecordsInvariant, PTL

\* A role keeps its id through every start, seed run and migration, and seeding again leaves
\* alone what the owner of a seeded account changed.
THEOREM SeedingIsSafe == RecordsSpec => SeedingKeeps
<1>1. TInv /\ RecordsInv /\ [RecordsNext]_recordsVars
        => [focus = "boot" => Boot!IdentityKept /\ Boot!OwnAccountKept]_bootVars
  BY RecordsStep
<1> QED
  BY <1>1, RecordsInvariant, PTL DEF RecordsSpec, SeedingKeeps
=============================================================================
