------------------------------ MODULE Passkey ------------------------------
(***************************************************************************)
(* WebAuthn ceremonies (modules/passkey): a challenge is kept in Redis     *)
(* between the two requests of a ceremony, under one key per user and kind,*)
(* and the credentials in a collection with a unique credential id.  Each  *)
(* Redis or MongoDB call is one step of a request.  The cryptography of    *)
(* go-webauthn is the comparison it stands for.  The service is modelled;  *)
(* today's routes reach its sign-in half only without a user.              *)
(***************************************************************************)
EXTENDS Naturals, FiniteSets

CONSTANTS
    Users,
    Creds,          \* authenticators, each with one credential
    Ops,            \* requests that finish a ceremony, in flight together
    MaxCeremonies,  \* bound on the challenges handed out
    MaxSigns,       \* bound on the signature count an authenticator answers
    MaxFaults,      \* bound on failed Redis calls
    None

VARIABLES
    passkeys,   \* the collection: [Creds -> None or [id, user, count]]
    made,       \* documents inserted so far, the source of fresh ids
    ceremony,   \* the ceremonies in Redis: records [kind, user, ch]
    issued,     \* challenges handed out so far
    op,         \* the locals of each request
    faults,
    accepted,   \* history: ceremonies accepted for each challenge
    shared,     \* history: challenges two requests read before one deleted them
    crossed     \* history: credentials used or registered again during a sign-in

vars == <<passkeys, made, ceremony, issued, op, faults, accepted, shared, crossed>>

Challenges == 1..MaxCeremonies
Idle == [pc |-> "idle", kind |-> None, user |-> None, ch |-> 0, cred |-> None,
         count |-> 0, session |-> 0, own |-> {}, id |-> 0]

Init ==
    /\ passkeys = [c \in Creds |-> None] /\ made = 0
    /\ ceremony = {} /\ issued = 0
    /\ op = [o \in Ops |-> Idle]
    /\ faults = 0
    /\ accepted = [n \in Challenges |-> 0]
    /\ shared = [n \in Challenges |-> 0]
    /\ crossed = {}

store == <<passkeys, made>>
history == <<accepted, shared, crossed>>

OwnedBy(u) == {c \in Creds : passkeys[c] # None /\ passkeys[c].user = u}

-----------------------------------------------------------------------------
(* The first request of a ceremony *)

Key(kind, u) == {k \in ceremony : k.kind = kind /\ k.user = u}

\* SET overwrites the ceremony this user had open; an error is not looked at.
Open(kind, u) ==
    /\ issued < MaxCeremonies
    /\ issued' = issued + 1
    /\ \/ /\ ceremony' = (ceremony \ Key(kind, u)) \cup
                           {[kind |-> kind, user |-> u, ch |-> issued + 1]}
          /\ UNCHANGED faults
       \/ /\ faults < MaxFaults
          /\ faults' = faults + 1
          /\ UNCHANGED ceremony
    /\ UNCHANGED <<store, op, history>>

BeginRegistration(u) == Open("reg", u)

\* FindByUserID and the SET in one step: a passkey deleted between the two is missed when
\* the ceremony is finished, which looks the passkeys of the user up again.
BeginLogin(u) == OwnedBy(u) # {} /\ Open("auth", u)

\* The session of a sign-in without a user name has a key of its own, which no
\* request reads: FinishDiscoverableLogin has no user and is always refused.
BeginDiscoverableLogin == Open("disc", issued + 1)

Expire ==
    /\ \E k \in ceremony : ceremony' = ceremony \ {k}
    /\ UNCHANGED <<store, issued, op, faults, history>>

-----------------------------------------------------------------------------
(* The second request *)

\* A sign-in with the credential is under way.
InUse(c) == {d \in {c} : \E p \in Ops : op[p].kind = "auth" /\ op[p].cred = d}

\* What an authenticator answers to a challenge: its credential and a signature
\* count, that of a clone too. FindByUserID is the first call of either request.
Finish(o, kind, u, ch, c, count) ==
    /\ op[o] = Idle /\ ch <= issued
    /\ op' = [op EXCEPT ![o] =
                [Idle EXCEPT !.pc = "get", !.kind = kind, !.user = u, !.ch = ch, !.cred = c,
                    !.count = count, !.own = {<<d, passkeys[d].count>> : d \in OwnedBy(u)}]]
    /\ crossed' = crossed \cup (IF kind = "auth" THEN InUse(c) ELSE {})
    /\ UNCHANGED <<store, ceremony, issued, faults, accepted, shared>>

\* GET; without a session the request is refused.
GetSession(o) ==
    /\ op[o].pc = "get"
    /\ LET found == Key(op[o].kind, op[o].user)
       IN  IF found = {} THEN op' = [op EXCEPT ![o] = Idle] /\ UNCHANGED shared
           ELSE LET n == (CHOOSE k \in found : TRUE).ch
                IN  /\ op' = [op EXCEPT ![o].pc = "del", ![o].session = n]
                    /\ shared' = [shared EXCEPT ![n] = @ +
                          (IF \E p \in Ops : op[p].pc = "del" /\ op[p].session = n THEN 1 ELSE 0)]
    /\ UNCHANGED <<store, ceremony, issued, faults, accepted, crossed>>

\* Bug for comparison: the session is left to expire.
KeepSession(o) == ceremony' = ceremony /\ UNCHANGED faults

\* DEL, whose error is not looked at; it deletes what the key holds by now.
DelSession(o) ==
    \/ ceremony' = ceremony \ Key(op[o].kind, op[o].user) /\ UNCHANGED faults
    \/ faults < MaxFaults /\ faults' = faults + 1 /\ UNCHANGED ceremony

\* CreateCredential and ValidateLogin: the answer is to the challenge of the
\* session, and a sign-in is by a credential the user had.
Verified(l) ==
    /\ l.session = l.ch
    /\ l.kind = "auth" => \E d \in l.own : d[1] = l.cred

DelAndVerify(o) ==
    /\ op[o].pc = "del"
    /\ DelSession(o)
    /\ op' = [op EXCEPT ![o] =
                IF Verified(op[o]) THEN [op[o] EXCEPT !.pc = op[o].kind] ELSE Idle]
    /\ UNCHANGED <<store, issued, history>>

Accept(o) == accepted' = [accepted EXCEPT ![op[o].ch] = @ + 1]

\* InsertOne, which the unique index refuses for a known credential.
CreatePasskey(o) ==
    /\ op[o].pc = "reg"
    /\ LET c == op[o].cred
       IN  IF passkeys[c] # None THEN UNCHANGED <<store, accepted>>
           ELSE /\ made' = made + 1
                /\ passkeys' = [passkeys EXCEPT ![c] =
                      [id |-> made + 1, user |-> op[o].user, count |-> op[o].count]]
                /\ Accept(o)
    /\ crossed' = crossed \cup InUse(op[o].cred)
    /\ op' = [op EXCEPT ![o] = Idle]
    /\ UNCHANGED <<ceremony, issued, faults, shared>>

\* Bug for comparison: the counter of the answer, whatever was stored.
AnsweredCount(l) == l.count

\* UpdateCounter: a counter that does not advance raises CloneWarning, which
\* nobody reads, and leaves the count as it was read.
VerifiedCount(l) ==
    LET known == (CHOOSE d \in l.own : d[1] = l.cred)[2]
    IN  IF l.count > known THEN l.count ELSE known

\* FindByCredentialID: a passkey deleted meanwhile signs nobody in.
FindPasskey(o) ==
    /\ op[o].pc = "auth"
    /\ LET p == passkeys[op[o].cred]
       IN  op' = [op EXCEPT ![o] = IF p = None THEN Idle
                                   ELSE [@ EXCEPT !.pc = "count", !.id = p.id]]
    /\ UNCHANGED <<store, ceremony, issued, faults, history>>

\* $set by _id: a document that was replaced by now is left alone.
SameRow(o) == passkeys[op[o].cred] # None /\ passkeys[op[o].cred].id = op[o].id

UpdateSignCount(o) ==
    /\ op[o].pc = "count"
    /\ passkeys' = IF SameRow(o)
                   THEN [passkeys EXCEPT ![op[o].cred].count = VerifiedCount(op[o])]
                   ELSE passkeys
    /\ Accept(o)
    /\ op' = [op EXCEPT ![o] = Idle]
    /\ UNCHANGED <<made, ceremony, issued, faults, shared, crossed>>

\* DeleteOne by id and owner.
Delete(u, c) ==
    /\ c \in OwnedBy(u)
    /\ passkeys' = [passkeys EXCEPT ![c] = None]
    /\ UNCHANGED <<made, ceremony, issued, op, faults, history>>

\* An answer to any challenge so far, by any credential.
Answer(o, kind) ==
    \E u \in Users, c \in Creds, n \in Challenges, count \in 0..MaxSigns :
        Finish(o, kind, u, n, c, count)

FinishRegistration(o) == Answer(o, "reg") \/ CreatePasskey(o)

FinishLogin(o) == Answer(o, "auth") \/ FindPasskey(o) \/ UpdateSignCount(o)

Next ==
    \/ \E u \in Users : BeginRegistration(u) \/ BeginLogin(u)
    \/ BeginDiscoverableLogin \/ Expire
    \/ \E o \in Ops : \/ FinishRegistration(o) \/ FinishLogin(o)
                      \/ GetSession(o) \/ DelAndVerify(o)
    \/ \E u \in Users, c \in Creds : Delete(u, c)

Spec == Init /\ [][Next]_vars

-----------------------------------------------------------------------------
(* Correctness *)

TypeOK ==
    /\ \A c \in Creds : passkeys[c] = None \/ passkeys[c] \in
          [id : 1..made, user : Users, count : 0..MaxSigns]
    /\ \A c, d \in Creds : c # d /\ passkeys[c] # None /\ passkeys[d] # None =>
          passkeys[c].id # passkeys[d].id
    /\ \A k, l \in ceremony : k.kind = l.kind /\ k.user = l.user => k = l
    /\ issued \in 0..MaxCeremonies /\ faults \in 0..MaxFaults
    /\ \A o \in Ops : op[o].pc \in {"idle", "get", "del", "reg", "auth", "count"}

\* A challenge is accepted once, and once more only for each request that read
\* it before another had deleted it, and each delete that failed
\* (FinishRegistration, FinishLogin: GET, then DEL).
ReplayBudget == \A n \in Challenges : accepted[n] <= 1 + shared[n] + faults

\* The stored signature count of one document never goes back, what a cloned
\* authenticator answers included, unless another sign-in or a registration of
\* the same credential overlapped: the update is blind (FinishLogin,
\* UpdateSignCount).
CountKept ==
    \A c \in Creds : passkeys[c] # None /\ passkeys'[c] # None =>
        passkeys'[c].count >= passkeys[c].count \/ c \in crossed

CountNeverBack == [][CountKept]_vars
=============================================================================
