---------------------------- MODULE RealtimeHub ----------------------------
(***************************************************************************)
(* The live fan-out (pkg/realtime, modules/realtime): publishers snapshot  *)
(* a topic's subscribers, offer the event to each of them without waiting  *)
(* and drop from the topic those that did not take it.  A WebSocket has a  *)
(* goroutine that reads its control frames and one that writes events out; *)
(* an event stream (SSE) has one goroutine, cut off by the HTTP server's   *)
(* write timeout.  What a mutex encloses is one step.                      *)
(***************************************************************************)
EXTENDS Naturals, Sequences, FiniteSets

CONSTANTS
    WebSockets,
    EventStreams,
    Topics,
    Publishers,        \* goroutines that publish, one event after another
    ClientSendBuffer,  \* clientSendBuffer
    MaxEvents,         \* bound on the events of each publisher
    None

Clients == WebSockets \cup EventStreams

\* A connection is a WebSocket or a stream; its channel holds an event at least.
ASSUME HubAssumption ==
    /\ WebSockets \cap EventStreams = {}
    /\ IsFiniteSet(Clients)
    /\ None \notin Topics
    /\ ClientSendBuffer \in Nat \ {0}
    /\ MaxEvents \in Nat

VARIABLES
    topics,    \* Hub.topics: the clients subscribed to each topic
    send,      \* chanClient.send, the buffered channel of each client
    closed,    \* chanClient.closed
    peer,      \* the other end of each connection
    expired,   \* connections whose write deadline is over
    loop,      \* wsReadPump, or what ends the event stream's handler
    pump,      \* wsWritePump, or the event stream's select loop
    pub,       \* the locals of Publish in each publisher
    received,  \* history: what reached each peer, in order
    gap        \* history: <<t, c>> when c missed an event of t since it subscribed

connVars == <<send, closed, peer, expired, loop, pump>>
vars == <<topics, connVars, pub, received, gap>>

-----------------------------------------------------------------------------
(* Types *)

\* The n-th event of a publisher.
Events == [by : Publishers, n : 1..MaxEvents]

NoEvent == [by |-> None, n |-> 0]

Publication ==
    [pc : {"idle", "send"},
     n : 0..MaxEvents,
     topic : Topics \cup {None},
     todo : SUBSET Clients,     \* clients of the snapshot not yet offered the event
     dead : SUBSET Clients]     \* clients that did not take it

Pump == [pc : {"none", "wait", "write", "done"}, evt : Events \cup {NoEvent}]

TypeOK ==
    /\ topics \in [Topics -> SUBSET Clients]
    /\ send \in [Clients -> Seq(Events)]
    /\ \A c \in Clients : Len(send[c]) <= ClientSendBuffer
    /\ closed \in [Clients -> BOOLEAN]
    /\ peer \in [Clients -> {"absent", "reading", "stalled", "gone"}]
    /\ expired \in SUBSET EventStreams
    /\ loop \in [Clients -> {"none", "run", "leave", "close", "done"}]
    /\ pump \in [Clients -> Pump]
    /\ pub \in [Publishers -> Publication]
    /\ received \in [Clients -> Seq(Events)]
    /\ gap \in SUBSET (Topics \X Clients)

Init ==
    /\ topics = [t \in Topics |-> {}]
    /\ send = [c \in Clients |-> <<>>]
    /\ closed = [c \in Clients |-> FALSE]
    /\ peer = [c \in Clients |-> "absent"]
    /\ expired = {}
    /\ loop = [c \in Clients |-> "none"]
    /\ pump = [c \in Clients |-> [pc |-> "none", evt |-> NoEvent]]
    /\ pub = [p \in Publishers |->
                [pc |-> "idle", n |-> 0, topic |-> None, todo |-> {}, dead |-> {}]]
    /\ received = [c \in Clients |-> <<>>]
    /\ gap = {}

-----------------------------------------------------------------------------
(* Hub.Subscribe, Unsubscribe, UnsubscribeAll *)

Subscribe(t, c) ==
    /\ topics' = [topics EXCEPT ![t] = @ \cup {c}]
    /\ gap' = gap \ {<<t, c>>}

Unsubscribe(t, c) == topics' = [topics EXCEPT ![t] = @ \ {c}]

\* Bug for comparison: only one topic is left.
UnsubscribeOne(c) ==
    IF \E t \in Topics : c \in topics[t]
    THEN Unsubscribe(CHOOSE t \in Topics : c \in topics[t], c)
    ELSE UNCHANGED topics

UnsubscribeAll(c) == topics' = [t \in Topics |-> topics[t] \ {c}]

-----------------------------------------------------------------------------
(* Hub.Publish *)

\* Under the read lock: who is subscribed now.
Publish(p, t) ==
    /\ pub[p].pc = "idle"
    /\ pub[p].n < MaxEvents
    /\ pub' = [pub EXCEPT ![p] = [pc |-> "send", n |-> @.n + 1, topic |-> t,
                                  todo |-> topics[t], dead |-> {}]]
    /\ UNCHANGED <<topics, connVars, received, gap>>

Event(p) == [by |-> p, n |-> pub[p].n]

\* Bug for comparison: one event too many for the buffer.
AcceptsOneMore(c) == ~closed[c] /\ Len(send[c]) <= ClientSendBuffer

\* Bug for comparison: a closed channel is not noticed.
AcceptsEvenClosed(c) == Len(send[c]) < ClientSendBuffer

\* Whether chanClient.Send returns true.
Accepts(c) == ~closed[c] /\ Len(send[c]) < ClientSendBuffer

\* Bug for comparison: a full channel is waited for.
Waits(c) == closed[c] \/ Len(send[c]) < ClientSendBuffer

\* Send never waits: its select has a default, so it can always go on.
Ready(c) == TRUE

\* The clients are offered the event in any order: the snapshot ranges a map.
Offer(p, c) ==
    /\ pub[p].pc = "send"
    /\ c \in pub[p].todo
    /\ Ready(c)
    /\ IF Accepts(c)
       THEN /\ send' = [send EXCEPT ![c] = Append(@, Event(p))]
            /\ pub' = [pub EXCEPT ![p].todo = @ \ {c}]
            /\ UNCHANGED gap
       ELSE /\ pub' = [pub EXCEPT ![p].todo = @ \ {c}, ![p].dead = @ \cup {c}]
            /\ gap' = gap \cup {<<pub[p].topic, c>>}
            /\ UNCHANGED send
    /\ UNCHANGED <<topics, closed, peer, expired, loop, pump, received>>

Return(p) == pub' = [pub EXCEPT ![p].pc = "idle", ![p].topic = None, ![p].dead = {}]

\* Bug for comparison: a client that missed an event stays subscribed.
KeepDead(p) == UNCHANGED topics

DropDead(p) == topics' = [topics EXCEPT ![pub[p].topic] = @ \ pub[p].dead]

\* The clients that did not take the event are dropped under the write lock,
\* by identity: one that has subscribed again meanwhile is dropped too.
Cleanup(p) ==
    /\ pub[p].pc = "send"
    /\ pub[p].todo = {}
    /\ DropDead(p)
    /\ Return(p)
    /\ UNCHANGED <<connVars, received, gap>>

-----------------------------------------------------------------------------
(* Connections *)

\* The handler subscribes the new connection and starts its goroutines.
Connect(c, t) ==
    /\ peer[c] = "absent"
    /\ peer' = [peer EXCEPT ![c] = "reading"]
    /\ Subscribe(t, c)
    /\ loop' = [loop EXCEPT ![c] = "run"]
    /\ pump' = [pump EXCEPT ![c].pc = "wait"]
    /\ UNCHANGED <<send, closed, expired, pub, received>>

WebSocket(c, t) == c \in WebSockets /\ Connect(c, t)

\* An event stream has one topic, for as long as it lasts.
SSE(c, t) == c \notin WebSockets /\ Connect(c, t)

Running(c) == loop[c] = "run" /\ peer[c] # "gone"

\* wsReadPump: a control frame to join or leave a topic.
ReadSubscribe(c, t) ==
    /\ c \in WebSockets
    /\ Running(c)
    /\ Subscribe(t, c)
    /\ UNCHANGED <<connVars, pub, received>>

ReadUnsubscribe(c, t) ==
    /\ c \in WebSockets
    /\ Running(c)
    /\ Unsubscribe(t, c)
    /\ UNCHANGED <<connVars, pub, received, gap>>

\* wsReadPump: the connection failed, so its deferred calls run.
ReadError(c) ==
    /\ c \in WebSockets
    /\ loop[c] = "run"
    /\ peer[c] = "gone"
    /\ loop' = [loop EXCEPT ![c] = "leave"]
    /\ UNCHANGED <<topics, send, closed, peer, expired, pump, pub, received, gap>>

\* The deferred calls: out of every topic, then the channel is closed.
Leave(c) ==
    /\ loop[c] = "leave"
    /\ UnsubscribeAll(c)
    /\ loop' = [loop EXCEPT ![c] = "close"]
    /\ UNCHANGED <<send, closed, peer, expired, pump, pub, received, gap>>

Close(c) ==
    /\ loop[c] = "close"
    /\ closed' = [closed EXCEPT ![c] = TRUE]
    /\ loop' = [loop EXCEPT ![c] = "done"]
    /\ UNCHANGED <<topics, send, peer, expired, pump, pub, received, gap>>

-----------------------------------------------------------------------------
(* Events on their way out *)

Take(c) ==
    /\ pump[c].pc = "wait"
    /\ send[c] # <<>>
    /\ pump' = [pump EXCEPT ![c] = [pc |-> "write", evt |-> Head(send[c])]]
    /\ send' = [send EXCEPT ![c] = Tail(@)]
    /\ UNCHANGED <<topics, closed, peer, expired, loop, pub, received, gap>>

PumpGoesTo(c, label) == pump' = [pump EXCEPT ![c] = [pc |-> label, evt |-> NoEvent]]

\* The write gets through; while the peer is stalled it blocks.
Write(c) ==
    /\ pump[c].pc = "write"
    /\ peer[c] = "reading"
    /\ c \notin expired
    /\ received' = [received EXCEPT ![c] = Append(@, pump[c].evt)]
    /\ PumpGoesTo(c, "wait")
    /\ UNCHANGED <<topics, send, closed, peer, expired, loop, pub, gap>>

\* Bug for comparison: the event is queued again.
Requeued(c) == send' = [send EXCEPT ![c] = Append(@, pump[c].evt)]

Lost(c) == UNCHANGED send

\* The event is lost.  A WebSocket's writer returns; the event stream's loop
\* pays no attention to the error.
WriteFails(c) ==
    /\ pump[c].pc = "write"
    /\ peer[c] = "gone" \/ c \in expired
    /\ Lost(c)
    /\ PumpGoesTo(c, IF c \in WebSockets THEN "done" ELSE "wait")
    /\ UNCHANGED <<topics, closed, peer, expired, loop, pub, received, gap>>

\* Bug for comparison: nothing but the end of the channel is noticed.
NoticesClose(c) == closed[c] /\ send[c] = <<>>

\* Bug for comparison: a ping to a stalled peer ends the connection.
NoticesStall(c) == peer[c] \in {"stalled", "gone"}

\* A ping fails, or the stream's loop wakes and finds its client gone.
NoticesEnd(c) == peer[c] = "gone"

PumpEnds(c) ==
    /\ pump[c].pc = "wait"
    /\ NoticesEnd(c)
    /\ PumpGoesTo(c, "done")
    /\ loop' = IF c \in EventStreams THEN [loop EXCEPT ![c] = "leave"] ELSE loop
    /\ UNCHANGED <<topics, send, closed, peer, expired, pub, received, gap>>

-----------------------------------------------------------------------------
(* The environment *)

PeerBecomes(c, state) ==
    /\ peer' = [peer EXCEPT ![c] = state]
    /\ UNCHANGED <<topics, send, closed, expired, loop, pump, pub, received, gap>>

Stall(c) == peer[c] = "reading" /\ PeerBecomes(c, "stalled")

Resume(c) == peer[c] = "stalled" /\ PeerBecomes(c, "reading")

Disconnect(c) == peer[c] \in {"reading", "stalled"} /\ PeerBecomes(c, "gone")

\* WriteTimeout of the HTTP server, from the start of the request.  A hijacked
\* connection has none.
WriteDeadline(c) ==
    /\ c \in EventStreams \ expired
    /\ peer[c] # "absent"
    /\ expired' = expired \cup {c}
    /\ UNCHANGED <<topics, send, closed, peer, loop, pump, pub, received, gap>>

-----------------------------------------------------------------------------

PublisherStep(p) == Cleanup(p) \/ \E c \in Clients : Offer(p, c)

Next ==
    \/ \E p \in Publishers : PublisherStep(p) \/ \E t \in Topics : Publish(p, t)
    \/ \E c \in Clients :
          \/ \E t \in Topics : WebSocket(c, t) \/ SSE(c, t) \/ ReadSubscribe(c, t) \/ ReadUnsubscribe(c, t)
          \/ ReadError(c) \/ Leave(c) \/ Close(c)
          \/ Take(c) \/ Write(c) \/ WriteFails(c) \/ PumpEnds(c)
          \/ Stall(c) \/ Resume(c) \/ Disconnect(c) \/ WriteDeadline(c)

\* Goroutines are scheduled and timers fire; nobody has to connect, publish or
\* read.
Fairness ==
    /\ \A p \in Publishers : WF_vars(PublisherStep(p))
    /\ \A c \in Clients :
          /\ WF_vars(ReadError(c) \/ Leave(c) \/ Close(c))
          /\ WF_vars(Take(c) \/ Write(c) \/ WriteFails(c))
          /\ WF_vars(PumpEnds(c))
          /\ WF_vars(WriteDeadline(c))

Spec == Init /\ [][Next]_vars /\ Fairness

-----------------------------------------------------------------------------
(* Properties *)

Held(c) == IF pump[c].evt = NoEvent THEN <<>> ELSE <<pump[c].evt>>

\* What c received and what is on its way to it, in order.
Stream(c) == received[c] \o Held(c) \o send[c]

\* However the publishers interleave, a client gets the events of each of them
\* in the order they were published and none of them twice.
PublisherOrder ==
    \A c \in Clients : \A i, j \in DOMAIN Stream(c) :
        i < j /\ Stream(c)[i].by = Stream(c)[j].by => Stream(c)[i].n < Stream(c)[j].n

\* A slow client is dropped from the topic, it does not skip events: a
\* subscription that missed one is about to be ended by the publisher that
\* could not deliver it.
NoSilentGap ==
    \A t \in Topics, c \in Clients :
        <<t, c>> \in gap /\ c \in topics[t] =>
            \E p \in Publishers : pub[p].topic = t /\ c \in pub[p].dead

\* "a Publish racing a client disconnect can never send on [...] an
\* already-closed channel".
NothingSentAfterClose ==
    [][\A c \in Clients : closed[c] => Len(send'[c]) <= Len(send[c])]_vars

\* A connection that has run its deferred calls is in no topic and never gets
\* into one again: the hub does not leak clients.
NoLeakedClient ==
    \A c \in Clients, t \in Topics :
        loop[c] \in {"close", "done"} => c \notin topics[t]

\* Whoever is subscribed is fed, and whoever is gone is not subscribed.
SubscribersSound == NoSilentGap /\ NoLeakedClient

\* Publish returns however slow or dead its subscribers are: it waits for none.
PublishReturns ==
    \A p \in Publishers : pub[p].pc = "send" ~> pub[p].pc = "idle"

CleanedUp(c) ==
    /\ closed[c] /\ loop[c] = "done" /\ pump[c].pc = "done"
    /\ \A t \in Topics : c \notin topics[t]

\* After a disconnect both goroutines of the connection end, its channel is
\* closed and it is in no topic, even if it was slow or had been dropped.
GoneIsCleanedUp ==
    \A c \in Clients : peer[c] = "gone" ~> CleanedUp(c)

\* Nobody holds up a publisher, and nothing a clean-up.
NobodyIsHeldUp == PublishReturns /\ GoneIsCleanedUp

Reaches(e, c) ==
    (\E i \in DOMAIN send[c] : send[c][i] = e)
        ~> (\E i \in DOMAIN received[c] : received[c][i] = e) \/ peer[c] # "reading"

\* An event a WebSocket's channel took reaches the peer, unless it stops
\* reading or leaves.
SocketDelivery == \A c \in WebSockets, e \in Events : Reaches(e, c)

\* "Returns how many connections actually received it": an event that was
\* counted as delivered reaches the peer, unless it stops reading or leaves.
CountedIsReceived == \A c \in Clients, e \in Events : Reaches(e, c)
=============================================================================
