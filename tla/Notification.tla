---------------------------- MODULE Notification ----------------------------
(***************************************************************************)
(* Notifications (modules/notification): Send and Broadcast go through the *)
(* recipients one by one, each a chain of calls to MongoDB and to FCM or   *)
(* the mail queue, while users change their devices, their preferences and *)
(* their inbox. FCM and the mail queue are external: any answer.           *)
(***************************************************************************)
EXTENDS Naturals, FiniteSets

CONSTANTS
    Users, Tokens,
    Ops,           \* calls of Send, Broadcast and GetPreferences
    Requests,      \* the requests they may carry
    MutedKeys,     \* the preference keys users change, <<type or "any", channel>>
    MaxChanges,    \* bound: changes of devices, preferences and inbox together
    None

VARIABLES
    prefs,         \* notification_preferences by user
    device,        \* device_tokens by token (unique index)
    inbox,         \* notifications
    op,            \* the calls under way
    choice,        \* history: the keys a user has switched off
    holder,        \* history: who registered the device and has not removed it
    optedOut,      \* history: recipients of a call that had opted out before it,
                   \* but for those whose preferences could not be asked for
    held,          \* history: <<user, token>> registered while the call ran
    reached,       \* history: <<user, what>> the call delivered
    refused,       \* history: tokens FCM has called stale
    changes

store   == <<prefs, device, inbox>>
history == <<choice, holder, optedOut, held, reached, refused>>
vars    == <<prefs, device, inbox, op, choice, holder, optedOut, held, reached,
             refused, changes>>

NoPrefs == [id |-> None, off |-> {}]

\* The keys DefaultPreferences switches off, of those modelled.
DefaultPreferences == [id |-> "uuid", off |-> {<<"promotion", "push">>, <<"info", "email">>}]

\* The UUID codec refuses an ObjectID: such a row is an error for every reader.
Decodable(row) == row.id = "uuid"

KeysOf(req) == {<<"any", req.channel>>, <<req.type, req.channel>>}

\* The toggle of the channel, then that of the type.
Enabled(row, req) == row.off \cap KeysOf(req) = {}

ActiveTokens(u) == {t \in Tokens : device[t] = [owner |-> u, isActive |-> TRUE]}

\* What a caller may ask for.
Request ==
    {q \in [kind : {"send", "broadcast", "preferences"}, type : STRING \cup {None},
            channel : {"push", "silent", "email", "in_app", None}, to : SUBSET Users] :
        q.kind # "preferences" => q.channel # None}

NoReq == [kind |-> None, type |-> None, channel |-> None, to |-> {}]

Idle == [pc |-> "idle", req |-> NoReq, todo |-> {}, user |-> None, tokens |-> {},
         stale |-> {}, ok |-> TRUE]

Init ==
    /\ prefs = [u \in Users |-> NoPrefs]
    /\ device = [t \in Tokens |-> [owner |-> None, isActive |-> FALSE]]
    /\ inbox = {}
    /\ op = [o \in Ops |-> Idle]
    /\ choice = [u \in Users |-> {}]
    /\ holder = [t \in Tokens |-> None]
    /\ optedOut = [o \in Ops |-> {}]
    /\ held = [o \in Ops |-> {}]
    /\ reached = [o \in Ops |-> {}]
    /\ refused = {}
    /\ changes = 0

-----------------------------------------------------------------------------
(* Send, Broadcast, GetPreferences *)

\* The call leaves the current recipient: delivered, refused or failed.
Recorded(o, ok) ==
    op' = [op EXCEPT ![o].pc = "record", ![o].tokens = {}, ![o].ok = ok]

\* broadcastEmailAsync: a mail for each recipient into the promotional queue, to
\* the one address of the request, and no preference is looked at.
BroadcastEmailAsync(o, req) ==
    /\ op' = [op EXCEPT ![o] = [Idle EXCEPT !.pc = "done", !.req = req]]
    /\ \E queued \in SUBSET req.to :
          reached' = [reached EXCEPT ![o] = queued \X {"email"}]

ToEach(o, req) ==
    /\ op' = [op EXCEPT ![o] = [Idle EXCEPT !.pc = "next", !.req = req, !.todo = req.to]]
    /\ UNCHANGED reached

Begin(o) ==
    /\ op[o].pc = "idle"
    /\ \E req \in Requests :
          /\ IF req.kind = "broadcast" /\ req.channel = "email"
             THEN BroadcastEmailAsync(o, req)
             ELSE ToEach(o, req)
          /\ optedOut' = [optedOut EXCEPT ![o] = {u \in req.to : choice[u] \cap KeysOf(req) # {}}]
    /\ held' = [held EXCEPT ![o] = {<<holder[t], t>> : t \in Tokens}]
    /\ UNCHANGED <<store, choice, holder, refused, changes>>

\* The channel to deliver through, or on to the next recipient.
Passed(o, u, allowed) ==
    LET req == op[o].req
        on  == allowed /\ req.kind # "preferences"
    IN  op' = [op EXCEPT ![o].pc = IF on THEN req.channel ELSE "next",
                         ![o].user = IF on THEN u ELSE None, ![o].todo = @ \ {u}]

\* isChannelEnabled: a row that cannot be read, or a failing call, allows.
FindPreferences(o) ==
    /\ op[o].pc = "next"
    /\ \E u \in op[o].todo :
          \/ /\ prefs[u] = NoPrefs
             /\ op' = [op EXCEPT ![o].pc = "insert", ![o].user = u, ![o].todo = @ \ {u}]
             /\ UNCHANGED optedOut
          \/ /\ prefs[u] # NoPrefs
             /\ Passed(o, u, Decodable(prefs[u]) => Enabled(prefs[u], op[o].req))
             /\ UNCHANGED optedOut
          \/ /\ Passed(o, u, TRUE)
             /\ optedOut' = [optedOut EXCEPT ![o] = @ \ {u}]
    /\ UNCHANGED <<store, choice, holder, held, reached, refused, changes>>

PutDefaults(u) == prefs' = [prefs EXCEPT ![u] = DefaultPreferences]

\* The unique index refuses a second row; the error is ignored.
InsertDefaults(u) ==
    prefs' = [prefs EXCEPT ![u] = IF @ = NoPrefs THEN DefaultPreferences ELSE @]

\* The call goes on with the defaults it made, whatever is stored by now.
GetPreferences(o) ==
    /\ op[o].pc = "insert"
    /\ InsertDefaults(op[o].user) \/ UNCHANGED prefs
    /\ Passed(o, op[o].user, Enabled(DefaultPreferences, op[o].req))
    /\ UNCHANGED <<device, inbox, history, changes>>

\* No device is an error for a push, and nothing to do for a silent one.
ReadTokens(o) ==
    /\ op[o].pc \in {"push", "silent"}
    /\ \/ /\ ActiveTokens(op[o].user) # {}
          /\ op' = [op EXCEPT ![o].pc = "fcm", ![o].tokens = ActiveTokens(op[o].user)]
       \/ /\ ActiveTokens(op[o].user) = {}
          /\ Recorded(o, op[o].pc = "silent")
    /\ UNCHANGED <<store, history, changes>>

Answers == {"delivered", "stale", "failed"}

\* The push is sent if FCM answers at all, even when no token was reached.
SendMulticast(o) ==
    /\ op[o].pc = "fcm"
    /\ \/ /\ Recorded(o, FALSE)
          /\ UNCHANGED <<reached, refused>>
       \/ \E answer \in [op[o].tokens -> Answers] :
             LET With(a) == {t \in op[o].tokens : answer[t] = a}
                 stale == IF op[o].req.channel = "push" THEN With("stale") ELSE {}
             IN  /\ reached' = [reached EXCEPT ![o] = @ \cup ({op[o].user} \X With("delivered"))]
                 /\ refused' = refused \cup With("stale")
                 /\ op' = [op EXCEPT ![o].pc = IF stale = {} THEN "record" ELSE "stale",
                                     ![o].tokens = {}, ![o].stale = stale]
    /\ UNCHANGED <<store, choice, holder, optedOut, held, changes>>

\* By token alone: whoever owns it by now.
DeactivateStale(o) ==
    /\ op[o].pc = "stale"
    /\ \E t \in op[o].stale :
          /\ \/ device' = [device EXCEPT ![t].isActive = FALSE]
             \/ UNCHANGED device
          /\ op' = [op EXCEPT ![o].stale = @ \ {t},
                              ![o].pc = IF op[o].stale = {t} THEN "record" ELSE "stale"]
    /\ UNCHANGED <<prefs, inbox, history, changes>>

\* Without an address, a queue and a mailer it fails; with them it may.
SendEmail(o) ==
    /\ op[o].pc = "email"
    /\ \/ /\ reached' = [reached EXCEPT ![o] = @ \cup {<<op[o].user, "email">>}]
          /\ Recorded(o, TRUE)
       \/ UNCHANGED reached /\ Recorded(o, FALSE)
    /\ UNCHANGED <<store, choice, holder, optedOut, held, refused, changes>>

SendInApp(o) ==
    /\ op[o].pc = "in_app"
    /\ Recorded(o, TRUE)
    /\ UNCHANGED <<store, history, changes>>

KeepsAll(channel, ok) == TRUE

Keeps(channel, ok) == channel = "in_app" \/ ~ok

\* In-app and failed notifications are kept, if the insert succeeds; then the
\* live event goes out whatever came of the channel.
Record(o) ==
    /\ op[o].pc = "record"
    /\ LET c == op[o]
           n == [id |-> <<o, c.user>>, user |-> c.user, channel |-> c.req.channel,
                 status |-> IF c.ok THEN "sent" ELSE "failed", isRead |-> FALSE]
       IN  /\ \/ /\ Keeps(c.req.channel, c.ok)
                 /\ inbox' = inbox \cup {n}
              \/ UNCHANGED inbox
           /\ reached' = [reached EXCEPT ![o] = @ \cup {<<c.user, "live">>}]
    /\ op' = [op EXCEPT ![o].pc = "next", ![o].user = None, ![o].ok = TRUE]
    /\ UNCHANGED <<prefs, device, choice, holder, optedOut, held, refused, changes>>

Return(o) ==
    /\ op[o].pc = "next" /\ op[o].todo = {}
    /\ op' = [op EXCEPT ![o] = [Idle EXCEPT !.pc = "done", !.req = op[o].req]]
    /\ UNCHANGED <<store, history, changes>>

-----------------------------------------------------------------------------
(* What users do meanwhile *)

Changed == changes < MaxChanges /\ changes' = changes + 1

OwnedOnInsert(u, t) ==
    device' = [device EXCEPT ![t] =
        [owner |-> IF device[t].owner = None THEN u ELSE @.owner, isActive |-> TRUE]]

\* Upsert by token: the token passes to the user.
Owned(u, t) == device' = [device EXCEPT ![t] = [owner |-> u, isActive |-> TRUE]]

RegisterDevice(u, t) ==
    /\ Changed
    /\ Owned(u, t)
    /\ holder' = [holder EXCEPT ![t] = u]
    /\ held' = [o \in Ops |-> held[o] \cup {<<u, t>>}]
    /\ UNCHANGED <<prefs, inbox, op, choice, optedOut, reached, refused>>

DeactivatedByToken(u, t) == device' = [device EXCEPT ![t].isActive = FALSE]

Deactivated(u, t) ==
    device' = [device EXCEPT ![t].isActive = @ /\ device[t].owner # u]

RemoveDevice(u, t) ==
    /\ Changed
    /\ Deactivated(u, t)
    /\ holder' = [holder EXCEPT ![t] = IF @ = u THEN None ELSE @]
    /\ UNCHANGED <<prefs, inbox, op, choice, optedOut, held, reached, refused>>

\* An upsert that sets the given keys only.
UpdatePreferences(u, key, on) ==
    /\ Changed
    /\ LET Set(off) == IF on THEN off \ {key} ELSE off \cup {key}
       IN  /\ prefs' = [prefs EXCEPT ![u] =
                [id |-> IF @ = NoPrefs THEN "objectid" ELSE @.id, off |-> Set(@.off)]]
           /\ choice' = [choice EXCEPT ![u] = Set(@)]
    /\ optedOut' = [o \in Ops |->
          IF on /\ key \in KeysOf(op[o].req) THEN optedOut[o] \ {u} ELSE optedOut[o]]
    /\ UNCHANGED <<device, inbox, op, holder, held, reached, refused>>

InApp(u) == {n \in inbox : n.user = u /\ n.channel = "in_app"}

Read(n) == [n EXCEPT !.isRead = TRUE, !.status = "read"]

Inbox(new) ==
    /\ Changed /\ new # inbox /\ inbox' = new
    /\ UNCHANGED <<prefs, device, op, history>>

MarkRead(u, n) == n \in inbox /\ n.user = u /\ Inbox((inbox \ {n}) \cup {Read(n)})

MarkAllRead(u) ==
    LET unread == {n \in InApp(u) : ~n.isRead}
    IN  Inbox((inbox \ unread) \cup {Read(n) : n \in unread})

Delete(u, n) == n \in inbox /\ n.user = u /\ Inbox(inbox \ {n})

DeleteAll(u, readOnly) == Inbox(inbox \ {n \in InApp(u) : readOnly => n.isRead})

Call(o) ==
    \/ Begin(o) \/ FindPreferences(o) \/ GetPreferences(o) \/ ReadTokens(o)
    \/ SendMulticast(o) \/ DeactivateStale(o) \/ SendEmail(o) \/ SendInApp(o)
    \/ Record(o) \/ Return(o)

Next ==
    \/ \E o \in Ops : Call(o)
    \/ \E u \in Users, t \in Tokens : RegisterDevice(u, t) \/ RemoveDevice(u, t)
    \/ \E u \in Users, key \in MutedKeys, on \in BOOLEAN : UpdatePreferences(u, key, on)
    \/ \E u \in Users, n \in inbox : MarkRead(u, n) \/ Delete(u, n)
    \/ \E u \in Users, readOnly \in BOOLEAN : MarkAllRead(u) \/ DeleteAll(u, readOnly)

Spec == Init /\ [][Next]_vars

-----------------------------------------------------------------------------
(* Correctness *)

TypeOK ==
    /\ \A u \in Users : prefs[u].id \in {None, "uuid", "objectid"}
    /\ device \in [Tokens -> [owner : Users \cup {None}, isActive : BOOLEAN]]
    /\ \A n, m \in inbox : n.id = m.id => n = m
    /\ \A n \in inbox : n.channel = "in_app" \/ n.status \in {"failed", "read"}
    /\ \A o \in Ops : op[o].user # None => op[o].user \notin op[o].todo

\* A push reaches a device only if its user had it registered at some time since
\* the call began: a phone that is handed on, or logged out, gets at most what
\* was on its way.
PushReachesHolder ==
    \A o \in Ops, u \in Users, t \in Tokens : <<u, t>> \in reached[o] => <<u, t>> \in held[o]

\* A device its holder keeps registered stays active, whatever other users
\* register, remove or are sent, unless FCM has called it stale.
SilencedOnlyIfRefused ==
    \A t \in Tokens :
        holder[t] # None /\ device[t] # [owner |-> holder[t], isActive |-> TRUE] => t \in refused

\* What a user switched off stays off in a row that can be read, however the
\* defaults are inserted meanwhile; and a send that begins later heeds it.
OptOutKept ==
    /\ \A u \in Users : choice[u] \subseteq prefs[u].off
    /\ \A o \in Ops : \A u \in optedOut[o] :
          Decodable(prefs[u]) /\ op[o].req.kind = "send"
              => \A what \in Tokens \cup {"email", "live"} : <<u, what>> \notin reached[o]

\* README: per-user preferences control which channels a notification type is
\* delivered through.
OptOutHonoured ==
    \A o \in Ops : \A u \in optedOut[o] :
        \A what \in Tokens \cup {"email"} : <<u, what>> \notin reached[o]
=============================================================================
