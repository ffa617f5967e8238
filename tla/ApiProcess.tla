---------------------------- MODULE ApiProcess -----------------------------
(***************************************************************************)
(* Instances of the API from boot to exit (apps/api), what a request in    *)
(* flight finds of the connections the process holds, and the MQTT round   *)
(* trip of a simulated reading: published over the broker, received by the *)
(* subscriber in the process, persisted (modules/iot, pkg/mqtt).           *)
(*                                                                         *)
(* Every instance connects under the one MQTT_CLIENT_ID, with a clean      *)
(* session: the broker keeps one connection of that name and forgets its   *)
(* subscription when it breaks.                                            *)
(***************************************************************************)
EXTENDS FiniteSets, Naturals, Sequences

CONSTANTS
    Apis,       \* instances
    Calls,      \* requests; each is made once
    MaxBoots,   \* bound on boots
    MaxLosses,  \* bound on broken connections to the broker
    MaxFaults,  \* bound on failed inserts
    None

VARIABLES
    phase,       \* [Apis -> Phases]
    open,        \* [Apis -> SUBSET {"mongo", "redis", "queue"}]
    link,        \* [Apis -> {"none", "up", "lost"}], the connection to the broker
    subscribed,  \* SUBSET Apis, whom the broker delivers readings to
    inbox,       \* [Apis -> Seq(Calls)], readings delivered and not yet handled
    call,        \* [Calls -> [pc, api]]
    copies,      \* [Calls -> Nat], readings stored
    boots, losses, faults

vars == <<phase, open, link, subscribed, inbox, call, copies, boots, losses, faults>>

Phases == {"down", "mongo", "wiring", "ready", "serving", "draining",
           "disconnected", "unqueued", "offline"}

Init ==
    /\ phase = [a \in Apis |-> "down"] /\ open = [a \in Apis |-> {}]
    /\ link = [a \in Apis |-> "none"] /\ subscribed = {}
    /\ inbox = [a \in Apis |-> <<>>]
    /\ call = [c \in Calls |-> [pc |-> "new", api |-> None]]
    /\ copies = [c \in Calls |-> 0]
    /\ boots = 0 /\ losses = 0 /\ faults = 0

To(a, p) == phase' = [phase EXCEPT ![a] = p]
InFlight(a) == {c \in Calls : call[c].api = a /\ call[c].pc \notin {"new", "done", "cut"}}

\* The process is gone, and with it what it was doing; the clean session ends.
Exit(a) ==
    /\ To(a, "down")
    /\ open' = [open EXCEPT ![a] = {}]
    /\ link' = [link EXCEPT ![a] = "none"]
    /\ subscribed' = subscribed \ {a}
    /\ inbox' = [inbox EXCEPT ![a] = <<>>]
    /\ call' = [c \in Calls |-> IF c \in InFlight(a) THEN [call[c] EXCEPT !.pc = "cut"] ELSE call[c]]

-----------------------------------------------------------------------------
(* Boot *)

\* NewMongoDBWithMonitor: a primary answered one of ten pings.
ConnectMongo(a) ==
    /\ phase[a] = "down" /\ boots < MaxBoots
    /\ boots' = boots + 1
    /\ To(a, "mongo")
    /\ open' = [open EXCEPT ![a] = {"mongo"}]
    /\ UNCHANGED <<link, subscribed, inbox, call, copies, losses, faults>>

\* NewRedis pings once; without an answer the process ends.
ConnectRedis(a) ==
    /\ phase[a] = "mongo"
    /\ \/ /\ To(a, "wiring")
          /\ open' = [open EXCEPT ![a] = @ \cup {"redis"}]
          /\ UNCHANGED <<link, subscribed, inbox, call>>
       \/ Exit(a)
    /\ UNCHANGED <<copies, boots, losses, faults>>

\* The broker drops the older connection of the same client id, and with it what
\* that had not acknowledged.
TakenOver(a) == [b \in Apis |-> IF b = a THEN "up" ELSE IF link[b] = "up" THEN "lost" ELSE link[b]]

\* Bug for comparison: each instance has an id of its own.
BesideOthers(a) == [link EXCEPT ![a] = "up"]

Connected(a) == TakenOver(a)

\* A subscription lives as long as its connection.
Subscribers(a) == {b \in subscribed \ {a} : Connected(a)[b] = "up"}

\* New: the queue, then the broker (a failed dial disables modules/iot), then
\* IoTService.Start subscribes; main listens for signals once New has returned.
Wire(a) ==
    /\ phase[a] = "wiring"
    /\ To(a, "ready")
    /\ open' = [open EXCEPT ![a] = @ \cup {"queue"}]
    /\ \/ /\ link' = Connected(a)
          /\ subscribed' = Subscribers(a) \cup {a}
       \/ UNCHANGED <<link, subscribed>>
    /\ UNCHANGED <<inbox, call, copies, boots, losses, faults>>

\* The goroutine of main; after Shutdown it returns ErrServerClosed at once.
Listen(a) ==
    /\ phase[a] = "ready"
    /\ To(a, "serving")
    /\ UNCHANGED <<open, link, subscribed, inbox, call, copies, boots, losses, faults>>

\* main: one after the other.
Boot(a) == ConnectMongo(a) \/ ConnectRedis(a) \/ Wire(a) \/ Listen(a)

-----------------------------------------------------------------------------
(* Requests *)

Step(c, pc) == call' = [call EXCEPT ![c].pc = pc]

Arrive(c, a) ==
    /\ phase[a] = "serving" /\ call[c].pc = "new"
    /\ call' = [call EXCEPT ![c] = [pc |-> "check", api |-> a]]
    /\ UNCHANGED <<phase, open, link, subscribed, inbox, copies, boots, losses, faults>>

\* The session of the token is looked up in Redis; then either an operation that
\* writes and enqueues its mail, or a simulated reading, which fails at once when
\* the broker is not configured.
Check(c) ==
    /\ call[c].pc = "check"
    /\ \/ Step(c, "insert")
       \/ Step(c, IF link[call[c].api] = "none" THEN "done" ELSE "publish")
    /\ UNCHANGED <<phase, open, link, subscribed, inbox, copies, boots, losses, faults>>

Insert(c) ==
    /\ call[c].pc = "insert"
    /\ Step(c, "enqueue")
    /\ UNCHANGED <<phase, open, link, subscribed, inbox, copies, boots, losses, faults>>

Enqueue(c) ==
    /\ call[c].pc = "enqueue"
    /\ Step(c, "done")
    /\ UNCHANGED <<phase, open, link, subscribed, inbox, copies, boots, losses, faults>>

\* SimulateTelemetry: QoS 1; while the link is lost the message waits in the store
\* of the client, and the call with it.
Publish(c) ==
    /\ call[c].pc = "publish" /\ link[call[c].api] = "up"
    /\ Step(c, "unacked")
    /\ inbox' = [a \in Apis |-> IF a \in subscribed THEN Append(inbox[a], c) ELSE inbox[a]]
    /\ UNCHANGED <<phase, open, link, subscribed, copies, boots, losses, faults>>

\* token.Wait has no timeout and does not look at the context of the request.
PubAck(c) ==
    /\ call[c].pc = "unacked" /\ link[call[c].api] = "up"
    /\ Step(c, "done")
    /\ UNCHANGED <<phase, open, link, subscribed, inbox, copies, boots, losses, faults>>

\* handleTelemetry, one message at a time: a reading that cannot be inserted is
\* logged, and acknowledged all the same.
HandleTelemetry(a) ==
    /\ inbox[a] # <<>>
    /\ inbox' = [inbox EXCEPT ![a] = Tail(@)]
    /\ \/ /\ "mongo" \in open[a]
          /\ copies' = [copies EXCEPT ![Head(inbox[a])] = @ + 1]
          /\ UNCHANGED faults
       \/ /\ "mongo" \notin open[a]
          /\ UNCHANGED <<copies, faults>>
       \/ faults < MaxFaults /\ faults' = faults + 1 /\ UNCHANGED copies
    /\ UNCHANGED <<phase, open, link, subscribed, call, boots, losses>>

LoseLink(a) ==
    /\ link[a] = "up" /\ losses < MaxLosses
    /\ losses' = losses + 1
    /\ link' = [link EXCEPT ![a] = "lost"]
    /\ subscribed' = subscribed \ {a}
    /\ UNCHANGED <<phase, open, inbox, call, copies, boots, faults>>

\* AutoReconnect: what was not acknowledged is sent again; nobody subscribes again.
Reconnect(a) ==
    /\ link[a] = "lost"
    /\ link' = Connected(a)
    /\ subscribed' = Subscribers(a)
    /\ call' = [c \in Calls |-> IF call[c].api = a /\ call[c].pc = "unacked"
                               THEN [call[c] EXCEPT !.pc = "publish"] ELSE call[c]]
    /\ UNCHANGED <<phase, open, inbox, copies, boots, losses, faults>>

-----------------------------------------------------------------------------
(* Shutdown *)

Signal(a) ==
    /\ phase[a] \in {"ready", "serving"}
    /\ To(a, "draining")
    /\ UNCHANGED <<open, link, subscribed, inbox, call, copies, boots, losses, faults>>

\* Bug for comparison: the connections are closed beside the requests.
NoWait(a) == TRUE

\* server.Shutdown returns nil once no request is in flight.
Drained(a) == InFlight(a) = {}

DisconnectMongo(a) ==
    /\ phase[a] = "draining" /\ Drained(a)
    /\ To(a, "disconnected")
    /\ open' = [open EXCEPT ![a] = @ \ {"mongo"}]
    /\ UNCHANGED <<link, subscribed, inbox, call, copies, boots, losses, faults>>

\* Bug for comparison: Shutdown is given a context without a deadline.
Patient(a) == FALSE

\* After 30 seconds: Shutdown returns the error, and main exits with nothing closed.
TimedOut(a) == InFlight(a) # {}

GiveUp(a) ==
    /\ phase[a] = "draining" /\ TimedOut(a)
    /\ Exit(a)
    /\ UNCHANGED <<copies, boots, losses, faults>>

CloseQueue(a) ==
    /\ phase[a] = "disconnected"
    /\ To(a, "unqueued")
    /\ open' = [open EXCEPT ![a] = @ \ {"queue"}]
    /\ UNCHANGED <<link, subscribed, inbox, call, copies, boots, losses, faults>>

\* Disconnect(250): what is still in the inbox then is dropped.
CloseMqtt(a) ==
    /\ phase[a] = "unqueued"
    /\ To(a, "offline")
    /\ link' = [link EXCEPT ![a] = "none"]
    /\ subscribed' = subscribed \ {a}
    /\ inbox' = [inbox EXCEPT ![a] = <<>>]
    /\ UNCHANGED <<open, call, copies, boots, losses, faults>>

\* rdb.Close, and main returns.
CloseRedis(a) ==
    /\ phase[a] = "offline"
    /\ Exit(a)
    /\ UNCHANGED <<copies, boots, losses, faults>>

\* A crash, or a signal before main listens for one.
Die(a) ==
    /\ phase[a] # "down"
    /\ Exit(a)
    /\ UNCHANGED <<copies, boots, losses, faults>>

Closing(a) == DisconnectMongo(a) \/ GiveUp(a) \/ CloseQueue(a) \/ CloseMqtt(a) \/ CloseRedis(a)

Next ==
    \/ \E a \in Apis :
        \/ Boot(a)
        \/ HandleTelemetry(a) \/ LoseLink(a) \/ Reconnect(a)
        \/ Signal(a) \/ Closing(a) \/ Die(a)
        \/ \E c \in Calls : Arrive(c, a)
    \/ \E c \in Calls : Check(c) \/ Insert(c) \/ Enqueue(c) \/ Publish(c) \/ PubAck(c)

\* The closing goroutine runs; requests, the broker and the database need not.
Fairness == \A a \in Apis : WF_vars(Closing(a))
Spec == Init /\ [][Next]_vars /\ Fairness

-----------------------------------------------------------------------------
(* Correctness *)

TypeOK ==
    /\ phase \in [Apis -> Phases] /\ open \in [Apis -> SUBSET {"mongo", "redis", "queue"}]
    /\ link \in [Apis -> {"none", "up", "lost"}] /\ subscribed \subseteq Apis
    /\ \A a \in subscribed : link[a] = "up"
    /\ \A c \in Calls : call[c].pc \in {"new", "check", "insert", "enqueue", "publish",
                                        "unacked", "done", "cut"}
    /\ boots <= MaxBoots /\ losses <= MaxLosses /\ faults <= MaxFaults

\* What a step of a request needs of the process.
Needs(pc) == CASE pc = "check" -> {"redis"} [] pc = "insert" -> {"mongo"}
               [] pc = "enqueue" -> {"queue"} [] OTHER -> {}

\* A request in flight never finds a connection closed under it, whenever the
\* signal comes (Shutdown drains before it closes, or exits with all open).
InFlightServed ==
    \A c \in Calls : call[c].pc \in {"check", "insert", "enqueue"} =>
        Needs(call[c].pc) \subseteq open[call[c].api]

\* One simulated reading is stored once at most, although its message is sent again
\* after every broken connection and any number of instances subscribe.
OneReading == \A c \in Calls : copies[c] <= 1

\* A process told to stop stops, also while a request waits for a broker that does
\* not answer (the 30 seconds of main).
StopEnds == \A a \in Apis : phase[a] = "draining" ~> phase[a] = "down"
=============================================================================
