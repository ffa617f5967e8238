------------------------- MODULE RealtimeHubProofs -------------------------
(***************************************************************************)
(* Theorems of RealtimeHub for every set of connections, topics and        *)
(* publishers, every buffer size and every number of events.               *)
(***************************************************************************)
EXTENDS RealtimeHub, SequenceTheorems, TLAPS

-----------------------------------------------------------------------------
(* Type correctness *)

\* A publisher that is sending has an event and a topic; between two events it
\* remembers neither a topic nor a client.
PublicationSound ==
    \A p \in Publishers :
        /\ pub[p].pc = "send" => pub[p].n >= 1 /\ pub[p].topic \in Topics
        /\ pub[p].pc = "idle" => /\ pub[p].topic = None
                                 /\ pub[p].todo = {}
                                 /\ pub[p].dead = {}

\* A writer holds an event exactly while it is writing it.
PumpSound ==
    \A c \in Clients : pump[c].evt \in Events <=> pump[c].pc = "write"

\* Only a connection that was opened has goroutines.
LoopSound ==
    \A c \in Clients : /\ loop[c] = "none" <=> peer[c] = "absent"
                       /\ pump[c].pc = "none" <=> peer[c] = "absent"

\* The types and what the goroutines hold.
TInv == TypeOK /\ PublicationSound /\ PumpSound /\ LoopSound

\* Nothing has been published and nobody is connected.
LEMMA InitTyped == Init => TInv
<1> SUFFICES ASSUME Init PROVE TInv
  OBVIOUS
<1>1. NoEvent \notin Events
  BY DEF NoEvent, Events
<1>2. <<>> \in Seq(Events) /\ Len(<<>>) = 0
  BY EmptySeq
<1>3. TypeOK
  BY <1>2, HubAssumption DEF Init, TypeOK, Publication, Pump
<1>4. PublicationSound
  BY DEF Init, PublicationSound
<1>5. PumpSound /\ LoopSound
  BY <1>1 DEF Init, PumpSound, LoopSound
<1> QED
  BY <1>3, <1>4, <1>5 DEF TInv

\* The event a publisher is sending is one of its events.
LEMMA EventType ==
    ASSUME TInv, NEW p \in Publishers, pub[p].pc = "send"
    PROVE  Event(p) \in Events
<1>1. pub[p] \in Publication
  BY DEF TInv, TypeOK
<1>2. pub[p].n \in 1..MaxEvents
  BY <1>1, HubAssumption DEF TInv, PublicationSound, Publication
<1> QED
  BY <1>2 DEF Event, Events

\* What each publisher's step leaves.
LEMMA PublisherTyped ==
    ASSUME TInv, NEW p \in Publishers,
           (\E t \in Topics : Publish(p, t)) \/ (\E c \in Clients : Offer(p, c)) \/ Cleanup(p)
    PROVE  TInv'
<1>0. pub \in [Publishers -> Publication] /\ topics \in [Topics -> SUBSET Clients]
  BY DEF TInv, TypeOK
<1>1. ASSUME NEW t \in Topics, Publish(p, t) PROVE TInv'
  <2>1. pub' \in [Publishers -> Publication]
    BY <1>0, <1>1, HubAssumption DEF Publish, Publication
  <2>2. PublicationSound'
    BY <1>0, <1>1 DEF Publish, TInv, PublicationSound, Publication
  <2> QED
    BY <1>1, <2>1, <2>2 DEF Publish, TInv, TypeOK, PumpSound, LoopSound, connVars
<1>2. ASSUME NEW c \in Clients, Offer(p, c) PROVE TInv'
  <2>0. pub[p].topic \in Topics /\ pub[p].pc = "send"
    BY <1>2 DEF Offer, TInv, PublicationSound
  <2>1. pub' \in [Publishers -> Publication] /\ PublicationSound'
    <3>1. pub[p] \in Publication /\ PublicationSound
      BY <1>0 DEF TInv
    <3>2. CASE Accepts(c)
      <4>1. pub' = [pub EXCEPT ![p].todo = @ \ {c}]
        BY <1>2, <3>2 DEF Offer
      <4> QED
        BY <1>0, <2>0, <3>1, <4>1 DEF Publication, PublicationSound
    <3>3. CASE ~Accepts(c)
      <4>1. pub' = [pub EXCEPT ![p] = [pub[p] EXCEPT !.todo = @ \ {c}, !.dead = @ \cup {c}]]
        BY <1>2, <3>3 DEF Offer
      <4>2. [pub[p] EXCEPT !.todo = @ \ {c}, !.dead = @ \cup {c}] \in Publication
        BY <3>1 DEF Publication
      <4> QED
        BY <1>0, <2>0, <3>1, <4>1, <4>2 DEF Publication, PublicationSound
    <3> QED
      BY <3>2, <3>3
  <2>2. send' \in [Clients -> Seq(Events)] /\ \A d \in Clients : Len(send'[d]) <= ClientSendBuffer
    <3>1. send \in [Clients -> Seq(Events)] /\ \A d \in Clients : Len(send[d]) <= ClientSendBuffer
      BY DEF TInv, TypeOK
    <3>2. CASE Accepts(c)
      <4>1. Event(p) \in Events
        BY <2>0, EventType
      <4>2. send' = [send EXCEPT ![c] = Append(send[c], Event(p))]
        BY <1>2, <3>2 DEF Offer
      <4>3. Append(send[c], Event(p)) \in Seq(Events) /\ Len(Append(send[c], Event(p))) = Len(send[c]) + 1
        BY <3>1, <4>1, AppendProperties
      <4> QED
        BY <3>1, <3>2, <4>2, <4>3, HubAssumption DEF Accepts
    <3>3. CASE ~Accepts(c)
      BY <1>2, <3>1, <3>3 DEF Offer
    <3> QED
      BY <3>2, <3>3
  <2>3. gap' \in SUBSET (Topics \X Clients)
    BY <1>2, <2>0 DEF Offer, TInv, TypeOK
  <2> QED
    BY <1>2, <2>1, <2>2, <2>3 DEF Offer, TInv, TypeOK, PumpSound, LoopSound
<1>3. ASSUME Cleanup(p) PROVE TInv'
  <2>1. pub' \in [Publishers -> Publication] /\ PublicationSound'
    <3>1. pub[p] \in Publication /\ PublicationSound /\ pub[p].todo = {}
      BY <1>0, <1>3 DEF TInv, Cleanup
    <3>2. pub' = [pub EXCEPT ![p] = [pub[p] EXCEPT !.pc = "idle", !.topic = None, !.dead = {}]]
      BY <1>3 DEF Cleanup, Return
    <3>3. [pub[p] EXCEPT !.pc = "idle", !.topic = None, !.dead = {}] \in Publication
      BY <3>1 DEF Publication
    <3> QED
      BY <1>0, <3>1, <3>2, <3>3 DEF Publication, PublicationSound
  <2>2. topics' \in [Topics -> SUBSET Clients]
    BY <1>0, <1>3 DEF Cleanup, DropDead
  <2> QED
    BY <1>3, <2>1, <2>2 DEF Cleanup, TInv, TypeOK, PumpSound, LoopSound, connVars
<1> QED
  BY <1>1, <1>2, <1>3

\* A subscription leaves the topics well typed.
LEMMA TopicsType ==
    ASSUME TypeOK, NEW c \in Clients
    PROVE  /\ \A t \in Topics : [topics EXCEPT ![t] = @ \cup {c}] \in [Topics -> SUBSET Clients]
           /\ \A t \in Topics : [topics EXCEPT ![t] = @ \ {c}] \in [Topics -> SUBSET Clients]
           /\ [t \in Topics |-> topics[t] \ {c}] \in [Topics -> SUBSET Clients]
  BY DEF TypeOK

\* What a connection's goroutines leave.
LEMMA ConnectionTyped ==
    ASSUME TInv, NEW c \in Clients,
           \/ \E t \in Topics : Connect(c, t) \/ ReadSubscribe(c, t) \/ ReadUnsubscribe(c, t)
           \/ ReadError(c) \/ Leave(c) \/ Close(c)
           \/ Take(c) \/ Write(c) \/ WriteFails(c) \/ PumpEnds(c)
    PROVE  TInv'
<1>0. /\ TypeOK /\ PublicationSound /\ PumpSound /\ LoopSound
      /\ pump \in [Clients -> Pump] /\ pump[c] \in Pump
      /\ NoEvent \notin Events
  <2>1. NoEvent \notin Events
    BY DEF NoEvent, Events
  <2> QED
    BY <2>1 DEF TInv, TypeOK
<1>1. ASSUME NEW t \in Topics, Connect(c, t) PROVE TInv'
  <2>1. topics' \in [Topics -> SUBSET Clients] /\ gap' \in SUBSET (Topics \X Clients)
    BY <1>0, <1>1, TopicsType DEF Connect, Subscribe, TypeOK
  <2>2. pump' \in [Clients -> Pump] /\ PumpSound' /\ LoopSound'
    BY <1>0, <1>1 DEF Connect, Pump, PumpSound, LoopSound, TypeOK
  <2> QED
    BY <1>0, <1>1, <2>1, <2>2 DEF Connect, TInv, TypeOK, PublicationSound
<1>2. ASSUME NEW t \in Topics, ReadSubscribe(c, t) PROVE TInv'
  <2>1. topics' \in [Topics -> SUBSET Clients] /\ gap' \in SUBSET (Topics \X Clients)
    BY <1>0, <1>2, TopicsType DEF ReadSubscribe, Subscribe, TypeOK
  <2> QED
    BY <1>0, <1>2, <2>1
    DEF ReadSubscribe, TInv, TypeOK, PublicationSound, PumpSound, LoopSound, connVars
<1>3. ASSUME NEW t \in Topics, ReadUnsubscribe(c, t) PROVE TInv'
  <2>1. topics' \in [Topics -> SUBSET Clients]
    BY <1>0, <1>3, TopicsType DEF ReadUnsubscribe, Unsubscribe
  <2> QED
    BY <1>0, <1>3, <2>1
    DEF ReadUnsubscribe, TInv, TypeOK, PublicationSound, PumpSound, LoopSound, connVars
<1>4. ASSUME ReadError(c) \/ Leave(c) \/ Close(c) PROVE TInv'
  <2>1. topics' \in [Topics -> SUBSET Clients]
    BY <1>0, <1>4, TopicsType DEF ReadError, Leave, Close, UnsubscribeAll, TypeOK
  <2>2. /\ loop' \in [Clients -> {"none", "run", "leave", "close", "done"}]
        /\ closed' \in [Clients -> BOOLEAN]
        /\ LoopSound'
    BY <1>0, <1>4 DEF ReadError, Leave, Close, TypeOK, LoopSound
  <2> QED
    BY <1>0, <1>4, <2>1, <2>2
    DEF ReadError, Leave, Close, TInv, TypeOK, PublicationSound, PumpSound
<1>5. ASSUME Take(c) PROVE TInv'
  <2>1. /\ send[c] \in Seq(Events) /\ send[c] # <<>> /\ Len(send[c]) <= ClientSendBuffer
        /\ send' = [send EXCEPT ![c] = Tail(send[c])]
        /\ pump' = [pump EXCEPT ![c] = [pc |-> "write", evt |-> Head(send[c])]]
    BY <1>0, <1>5 DEF Take, TypeOK
  <2>2. /\ Head(send[c]) \in Events /\ Tail(send[c]) \in Seq(Events)
        /\ Len(Tail(send[c])) = Len(send[c]) - 1 /\ Len(send[c]) \in Nat
    BY <2>1, HeadTailProperties, LenProperties
  <2>3. /\ send' \in [Clients -> Seq(Events)]
        /\ \A d \in Clients : Len(send'[d]) <= ClientSendBuffer
    BY <1>0, <2>1, <2>2, HubAssumption DEF TypeOK
  <2>4. pump' \in [Clients -> Pump] /\ PumpSound' /\ LoopSound'
    BY <1>0, <1>5, <2>1, <2>2 DEF Take, Pump, PumpSound, LoopSound
  <2> QED
    BY <1>0, <1>5, <2>3, <2>4 DEF Take, TInv, TypeOK, PublicationSound
<1>6. ASSUME Write(c) PROVE TInv'
  <2>1. pump[c].evt \in Events /\ received[c] \in Seq(Events)
    BY <1>0, <1>6 DEF Write, PumpSound, TypeOK
  <2>2. received' \in [Clients -> Seq(Events)]
    <3>1. Append(received[c], pump[c].evt) \in Seq(Events)
      BY <2>1, AppendProperties
    <3> QED
      BY <1>0, <1>6, <3>1 DEF Write, TypeOK
  <2>3. pump' \in [Clients -> Pump] /\ PumpSound' /\ LoopSound'
    BY <1>0, <1>6 DEF Write, PumpGoesTo, Pump, PumpSound, LoopSound
  <2> QED
    BY <1>0, <1>6, <2>2, <2>3 DEF Write, TInv, TypeOK, PublicationSound
<1>7. ASSUME WriteFails(c) PROVE TInv'
  <2>1. pump' \in [Clients -> Pump] /\ PumpSound' /\ LoopSound'
    BY <1>0, <1>7 DEF WriteFails, PumpGoesTo, Pump, PumpSound, LoopSound
  <2> QED
    BY <1>0, <1>7, <2>1 DEF WriteFails, Lost, TInv, TypeOK, PublicationSound
<1>8. ASSUME PumpEnds(c) PROVE TInv'
  <2>1. pump' \in [Clients -> Pump] /\ PumpSound' /\ LoopSound'
    BY <1>0, <1>8 DEF PumpEnds, PumpGoesTo, Pump, PumpSound, LoopSound, NoticesEnd, TypeOK
  <2>2. loop' \in [Clients -> {"none", "run", "leave", "close", "done"}]
    BY <1>0, <1>8 DEF PumpEnds, TypeOK
  <2> QED
    BY <1>0, <1>8, <2>1, <2>2 DEF PumpEnds, TInv, TypeOK, PublicationSound
<1> QED
  BY <1>1, <1>2, <1>3, <1>4, <1>5, <1>6, <1>7, <1>8

\* What the peers and the server's write timeout leave.
LEMMA EnvironmentTyped ==
    ASSUME TInv, NEW c \in Clients,
           Stall(c) \/ Resume(c) \/ Disconnect(c) \/ WriteDeadline(c)
    PROVE  TInv'
<1>1. /\ peer' \in [Clients -> {"absent", "reading", "stalled", "gone"}]
      /\ expired' \in SUBSET EventStreams
      /\ LoopSound'
  BY DEF Stall, Resume, Disconnect, WriteDeadline, PeerBecomes, TInv, TypeOK, LoopSound
<1> QED
  BY <1>1 DEF Stall, Resume, Disconnect, WriteDeadline, PeerBecomes, TInv, TypeOK,
              PublicationSound, PumpSound

\* Every step leaves the hub well typed.
LEMMA NextTyped == TInv /\ [Next]_vars => TInv'
<1> SUFFICES ASSUME TInv, [Next]_vars PROVE TInv'
  OBVIOUS
<1>1. ASSUME NEW p \in Publishers, PublisherStep(p) \/ \E t \in Topics : Publish(p, t)
      PROVE  TInv'
  BY <1>1, PublisherTyped DEF PublisherStep
<1>2. ASSUME NEW c \in Clients,
             \/ \E t \in Topics : WebSocket(c, t) \/ SSE(c, t) \/ ReadSubscribe(c, t) \/ ReadUnsubscribe(c, t)
             \/ ReadError(c) \/ Leave(c) \/ Close(c)
             \/ Take(c) \/ Write(c) \/ WriteFails(c) \/ PumpEnds(c)
      PROVE  TInv'
  BY <1>2, ConnectionTyped DEF WebSocket, SSE
<1>3. ASSUME NEW c \in Clients, Stall(c) \/ Resume(c) \/ Disconnect(c) \/ WriteDeadline(c)
      PROVE  TInv'
  BY <1>3, EnvironmentTyped
<1>4. CASE UNCHANGED vars
  BY <1>4 DEF vars, connVars, TInv, TypeOK, PublicationSound, PumpSound, LoopSound
<1> QED
  BY <1>1, <1>2, <1>3, <1>4 DEF Next

\* The hub's state and every goroutine's locals stay well typed, and the locals
\* agree with where the goroutine is.
LEMMA Typed == Spec => []TInv
  BY InitTyped, NextTyped, PTL DEF Spec

\* The hub, its channels and its goroutines stay well typed, and no channel ever
\* holds more than its buffer.
THEOREM HubTypeCorrect == Spec => []TypeOK
<1>1. TInv => TypeOK
  BY DEF TInv
<1> QED
  BY <1>1, Typed, PTL

-----------------------------------------------------------------------------
(* Nothing is sent after the close *)

\* Only Offer makes a channel longer, and it finds a closed one closed: Send and
\* Close share the client's mutex.
THEOREM ClosedChannelsDrain == Spec => NothingSentAfterClose
<1>1. ASSUME TInv, [Next]_vars, NEW c \in Clients, closed[c]
      PROVE  Len(send'[c]) <= Len(send[c])
  <2>0. send \in [Clients -> Seq(Events)] /\ Len(send[c]) \in Nat
    BY <1>1, LenProperties DEF TInv, TypeOK
  <2>1. ASSUME NEW p \in Publishers, NEW d \in Clients, Offer(p, d)
        PROVE  send'[c] = send[c]
    BY <1>1, <2>0, <2>1 DEF Offer, Accepts
  <2>2. ASSUME NEW d \in Clients, Take(d)
        PROVE  Len(send'[c]) <= Len(send[c])
    <3>1. CASE d = c
      <4>1. send[c] \in Seq(Events) /\ send[c] # <<>> /\ send'[c] = Tail(send[c])
        BY <2>0, <2>2, <3>1 DEF Take
      <4>2. Len(Tail(send[c])) = Len(send[c]) - 1
        BY <4>1, HeadTailProperties
      <4> QED
        BY <2>0, <4>1, <4>2
    <3>2. CASE d # c
      BY <2>0, <2>2, <3>2 DEF Take
    <3> QED
      BY <3>1, <3>2
  <2>3. CASE send' = send
    BY <2>0, <2>3
  <2>4. ASSUME Next, send' # send
        PROVE  \/ \E p \in Publishers, d \in Clients : Offer(p, d)
               \/ \E d \in Clients : Take(d)
    BY <2>4 DEF Next, PublisherStep, Cleanup, Publish, WebSocket, SSE, Connect, ReadSubscribe,
       ReadUnsubscribe, ReadError, Leave, Close, Write, WriteFails, Lost, PumpEnds, Stall, Resume,
       Disconnect, WriteDeadline, PeerBecomes, connVars
  <2>5. CASE UNCHANGED vars
    BY <2>3, <2>5 DEF vars, connVars
  <2> QED
    BY <1>1, <2>0, <2>1, <2>2, <2>3, <2>4, <2>5
<1>2. TInv /\ [Next]_vars =>
        [\A c \in Clients : closed[c] => Len(send'[c]) <= Len(send[c])]_vars
  BY <1>1
<1> QED
  BY <1>2, Typed, PTL DEF Spec, NothingSentAfterClose

-----------------------------------------------------------------------------
(* Subscribers *)

\* A publisher's step keeps the promise: a client that missed an event of a
\* topic it is in waits among the dead of the publisher that could not deliver.
LEMMA PublisherKeepsSubscribers ==
    ASSUME TInv, SubscribersSound, NEW p \in Publishers,
           (\E t \in Topics : Publish(p, t)) \/ (\E c \in Clients : Offer(p, c)) \/ Cleanup(p)
    PROVE  SubscribersSound'
<1>0. /\ TypeOK /\ PublicationSound /\ NoSilentGap /\ NoLeakedClient
      /\ pub \in [Publishers -> Publication] /\ topics \in [Topics -> SUBSET Clients]
  BY DEF TInv, TypeOK, SubscribersSound
<1>1. ASSUME NEW e \in Topics, Publish(p, e) PROVE SubscribersSound'
  <2>1. ASSUME NEW t \in Topics, NEW c \in Clients, <<t, c>> \in gap, c \in topics[t]
        PROVE  \E q \in Publishers : pub'[q].topic = t /\ c \in pub'[q].dead
    <3>1. PICK q \in Publishers : pub[q].topic = t /\ c \in pub[q].dead
      BY <1>0, <2>1 DEF NoSilentGap
    <3>2. q # p
      BY <1>0, <1>1, <3>1 DEF Publish, PublicationSound
    <3>3. pub'[q] = pub[q]
      BY <1>0, <1>1, <3>2 DEF Publish
    <3> QED
      BY <3>1, <3>3
  <2>2. NoLeakedClient'
    BY <1>0, <1>1 DEF Publish, connVars, NoLeakedClient
  <2>3. NoSilentGap'
    BY <1>1, <2>1 DEF Publish, NoSilentGap
  <2> QED
    BY <2>2, <2>3 DEF SubscribersSound
<1>2. ASSUME NEW d \in Clients, Offer(p, d) PROVE SubscribersSound'
  <2>1. /\ pub[p] \in Publication
        /\ \A q \in Publishers : /\ pub'[q].topic = pub[q].topic
                                 /\ pub[q].dead \subseteq pub'[q].dead
        /\ ~Accepts(d) => d \in pub'[p].dead
    <3>1. pub[p] \in Publication
      BY <1>0
    <3>2. CASE Accepts(d)
      <4>1. pub' = [pub EXCEPT ![p].todo = @ \ {d}]
        BY <1>2, <3>2 DEF Offer
      <4> QED
        BY <1>0, <3>1, <3>2, <4>1 DEF Publication
    <3>3. CASE ~Accepts(d)
      <4>1. pub' = [pub EXCEPT ![p] = [pub[p] EXCEPT !.todo = @ \ {d}, !.dead = @ \cup {d}]]
        BY <1>2, <3>3 DEF Offer
      <4> QED
        BY <1>0, <3>1, <4>1 DEF Publication
    <3> QED
      BY <3>1, <3>2, <3>3
  <2>2. \A x \in gap' \ gap : x = <<pub[p].topic, d>> /\ ~Accepts(d)
    BY <1>2 DEF Offer
  <2>3. ASSUME NEW t \in Topics, NEW c \in Clients, <<t, c>> \in gap', c \in topics[t]
        PROVE  \E q \in Publishers : pub'[q].topic = t /\ c \in pub'[q].dead
    <3>1. CASE <<t, c>> \in gap
      BY <1>0, <2>1, <2>3, <3>1 DEF NoSilentGap
    <3>2. CASE <<t, c>> \notin gap
      BY <2>1, <2>2, <2>3, <3>2
    <3> QED
      BY <3>1, <3>2
  <2>4. NoLeakedClient'
    BY <1>0, <1>2 DEF Offer, NoLeakedClient
  <2>5. NoSilentGap'
    BY <1>2, <2>3 DEF Offer, NoSilentGap
  <2> QED
    BY <2>4, <2>5 DEF SubscribersSound
<1>3. ASSUME Cleanup(p) PROVE SubscribersSound'
  <2>0. pub[p].topic \in Topics
    BY <1>0, <1>3 DEF Cleanup, PublicationSound
  <2>1. \A t \in Topics : /\ topics'[t] \subseteq topics[t]
                          /\ t = pub[p].topic => topics'[t] = topics[t] \ pub[p].dead
    BY <1>0, <1>3, <2>0 DEF Cleanup, DropDead
  <2>2. \A q \in Publishers \ {p} : pub'[q] = pub[q]
    BY <1>0, <1>3 DEF Cleanup, Return
  <2>3. ASSUME NEW t \in Topics, NEW c \in Clients, <<t, c>> \in gap, c \in topics'[t]
        PROVE  \E q \in Publishers : pub'[q].topic = t /\ c \in pub'[q].dead
    <3>1. PICK q \in Publishers : pub[q].topic = t /\ c \in pub[q].dead
      BY <1>0, <2>1, <2>3 DEF NoSilentGap
    <3>2. q # p
      BY <2>1, <2>3, <3>1
    <3> QED
      BY <2>2, <3>1, <3>2
  <2>4. NoLeakedClient'
    BY <1>0, <1>3, <2>1 DEF Cleanup, connVars, NoLeakedClient
  <2>5. NoSilentGap'
    BY <1>3, <2>3 DEF Cleanup, NoSilentGap
  <2> QED
    BY <2>4, <2>5 DEF SubscribersSound
<1> QED
  BY <1>1, <1>2, <1>3

\* Who subscribes has missed nothing yet, and only a connection whose read loop
\* still runs subscribes.
LEMMA SubscribeKeepsSubscribers ==
    ASSUME TInv, SubscribersSound, NEW c \in Clients, NEW t \in Topics,
           Subscribe(t, c), pub' = pub,
           loop' = loop \/ loop' = [loop EXCEPT ![c] = "run"],
           loop'[c] = "run"
    PROVE  SubscribersSound'
<1>1. /\ topics' = [topics EXCEPT ![t] = @ \cup {c}] /\ gap' = gap \ {<<t, c>>}
      /\ topics \in [Topics -> SUBSET Clients]
      /\ loop \in [Clients -> {"none", "run", "leave", "close", "done"}]
      /\ NoSilentGap /\ NoLeakedClient
  BY DEF Subscribe, TInv, TypeOK, SubscribersSound
<1>2. NoSilentGap'
  <2>1. ASSUME NEW s \in Topics, NEW d \in Clients, <<s, d>> \in gap', d \in topics'[s]
        PROVE  <<s, d>> \in gap /\ d \in topics[s]
    BY <1>1, <2>1
  <2> QED
    BY <1>1, <2>1 DEF NoSilentGap
<1>3. NoLeakedClient'
  <2>1. ASSUME NEW s \in Topics, NEW d \in Clients, loop'[d] \in {"close", "done"}
        PROVE  d \notin topics'[s]
    <3>1. d # c /\ loop[d] \in {"close", "done"}
      BY <1>1, <2>1
    <3> QED
      BY <1>1, <3>1 DEF NoLeakedClient
  <2> QED
    BY <2>1 DEF NoLeakedClient
<1> QED
  BY <1>2, <1>3 DEF SubscribersSound

\* A step that adds no subscription and no gap, leaves the publishers alone and
\* sends a read loop past its deferred UnsubscribeAll only after that call.
LEMMA OthersKeepSubscribers ==
    ASSUME TInv, SubscribersSound, pub' = pub, gap' = gap,
           \A t \in Topics : topics'[t] \subseteq topics[t],
           \A c \in Clients : loop'[c] \in {"close", "done"} =>
                loop[c] \in {"close", "done"} \/ \A t \in Topics : c \notin topics'[t]
    PROVE  SubscribersSound'
<1>1. NoSilentGap'
  BY DEF SubscribersSound, NoSilentGap
<1>2. NoLeakedClient'
  BY DEF SubscribersSound, NoLeakedClient
<1> QED
  BY <1>1, <1>2 DEF SubscribersSound

\* However publishers, connections and their ends interleave, whoever is
\* subscribed is fed or about to be dropped, and whoever has left stays out.
THEOREM SubscribersAreSound == Spec => []SubscribersSound
<1>1. Init => SubscribersSound
  BY DEF Init, SubscribersSound, NoSilentGap, NoLeakedClient
<1>2. TInv /\ SubscribersSound /\ [Next]_vars => SubscribersSound'
  <2> SUFFICES ASSUME TInv, SubscribersSound, [Next]_vars PROVE SubscribersSound'
    OBVIOUS
  <2>0. /\ topics \in [Topics -> SUBSET Clients]
        /\ loop \in [Clients -> {"none", "run", "leave", "close", "done"}]
    BY DEF TInv, TypeOK
  <2>1. ASSUME NEW p \in Publishers, PublisherStep(p) \/ \E t \in Topics : Publish(p, t)
        PROVE  SubscribersSound'
    BY <2>1, PublisherKeepsSubscribers DEF PublisherStep
  <2>2. ASSUME NEW c \in Clients, NEW t \in Topics, Connect(c, t)
        PROVE  SubscribersSound'
    BY <2>0, <2>2, SubscribeKeepsSubscribers DEF Connect
  <2>3. ASSUME NEW c \in Clients, NEW t \in Topics, ReadSubscribe(c, t)
        PROVE  SubscribersSound'
    BY <2>3, SubscribeKeepsSubscribers DEF ReadSubscribe, Running, connVars
  <2>4. ASSUME NEW c \in Clients, NEW t \in Topics, ReadUnsubscribe(c, t)
        PROVE  SubscribersSound'
    BY <2>0, <2>4, OthersKeepSubscribers DEF ReadUnsubscribe, Unsubscribe, connVars
  <2>5. ASSUME NEW c \in Clients, ReadError(c) PROVE SubscribersSound'
    BY <2>0, <2>5, OthersKeepSubscribers DEF ReadError
  <2>6. ASSUME NEW c \in Clients, Leave(c) PROVE SubscribersSound'
    BY <2>0, <2>6, OthersKeepSubscribers DEF Leave, UnsubscribeAll
  <2>7. ASSUME NEW c \in Clients, Close(c) PROVE SubscribersSound'
    BY <2>0, <2>7, OthersKeepSubscribers DEF Close
  <2>8. ASSUME NEW c \in Clients, PumpEnds(c) PROVE SubscribersSound'
    BY <2>0, <2>8, OthersKeepSubscribers DEF PumpEnds
  <2>9. ASSUME NEW c \in Clients,
               \/ Take(c) \/ Write(c) \/ WriteFails(c)
               \/ Stall(c) \/ Resume(c) \/ Disconnect(c) \/ WriteDeadline(c)
        PROVE  SubscribersSound'
    BY <2>0, <2>9, OthersKeepSubscribers
    DEF Take, Write, WriteFails, Stall, Resume, Disconnect, WriteDeadline, PeerBecomes
  <2>10. CASE UNCHANGED vars
    BY <2>10, OthersKeepSubscribers DEF vars, connVars
  <2> QED
    BY <2>1, <2>2, <2>3, <2>4, <2>5, <2>6, <2>7, <2>8, <2>9, <2>10 DEF Next, WebSocket, SSE
<1> QED
  BY <1>1, <1>2, Typed, PTL DEF Spec

-----------------------------------------------------------------------------
(* Order of delivery *)

\* A stream has the events of each publisher in order, it is not ahead of any,
\* and a client that is still to be offered the event a publisher is sending has
\* only earlier ones of that publisher.
StreamSound(c) ==
    /\ \A i, j \in 1..Len(Stream(c)) :
          i < j /\ Stream(c)[i].by = Stream(c)[j].by => Stream(c)[i].n < Stream(c)[j].n
    /\ \A i \in 1..Len(Stream(c)) :
          LET e == Stream(c)[i]
          IN  /\ e.n <= pub[e.by].n
              /\ c \in pub[e.by].todo => e.n < pub[e.by].n

\* Every client's stream is in order.
OInv == \A c \in Clients : StreamSound(c)

\* Events are numbered by the publishers that sent them.
LEMMA EventFields ==
    ASSUME NEW e \in Events
    PROVE  e.by \in Publishers /\ e.n \in Nat /\ e.n \in 1..MaxEvents
  BY HubAssumption DEF Events

\* One run of events after another.
LEMMA EventsConcat ==
    ASSUME NEW s \in Seq(Events), NEW t \in Seq(Events)
    PROVE  /\ s \o t \in Seq(Events)
           /\ Len(s \o t) = Len(s) + Len(t)
           /\ \A i \in 1..Len(s) + Len(t) :
                 (s \o t)[i] = IF i <= Len(s) THEN s[i] ELSE t[i - Len(s)]
  BY ConcatProperties

\* What was received, the event in the writer's hand and what is queued, in one.
Join(r, w, s) == r \o (IF w = NoEvent THEN <<>> ELSE <<w>>) \o s

\* Which event is where in a stream.
LEMMA JoinParts ==
    ASSUME NEW r \in Seq(Events), NEW s \in Seq(Events), NEW w \in Events \cup {NoEvent},
           NEW h \in {0, 1}, h = IF w = NoEvent THEN 0 ELSE 1
    PROVE  /\ Join(r, w, s) \in Seq(Events)
           /\ Len(Join(r, w, s)) = Len(r) + h + Len(s)
           /\ \A i \in 1..Len(r) + h + Len(s) :
                 Join(r, w, s)[i] = IF i <= Len(r) THEN r[i]
                                    ELSE IF i <= Len(r) + h THEN w
                                    ELSE s[i - Len(r) - h]
<1> DEFINE held == IF w = NoEvent THEN <<>> ELSE <<w>>
           front == r \o held
<1>1. held \in Seq(Events) /\ Len(held) = h /\ (h = 1 => held[1] = w)
  BY EmptySeq
<1>2. Len(r) \in Nat /\ Len(s) \in Nat
  BY LenProperties
<1>3. Join(r, w, s) = front \o s
  BY DEF Join
<1> HIDE DEF held
<1>4. /\ front \in Seq(Events) /\ Len(front) = Len(r) + h
      /\ \A i \in 1..Len(r) + Len(held) :
            front[i] = IF i <= Len(r) THEN r[i] ELSE held[i - Len(r)]
  BY <1>1, EventsConcat
<1> HIDE DEF front
<1>5. /\ front \o s \in Seq(Events) /\ Len(front \o s) = Len(front) + Len(s)
      /\ \A i \in 1..Len(front) + Len(s) :
            (front \o s)[i] = IF i <= Len(front) THEN front[i] ELSE s[i - Len(front)]
  BY <1>4, EventsConcat
<1>6. ASSUME NEW i \in 1..Len(r) + h + Len(s)
      PROVE  Join(r, w, s)[i] = IF i <= Len(r) THEN r[i]
                                ELSE IF i <= Len(r) + h THEN w
                                ELSE s[i - Len(r) - h]
  <2>1. CASE i <= Len(r)
    BY <1>1, <1>2, <1>3, <1>4, <1>5, <2>1
  <2>2. CASE i > Len(r) /\ i <= Len(r) + h
    <3>1. h = 1 /\ i - Len(r) = 1
      BY <1>2, <2>2
    <3> QED
      BY <1>1, <1>2, <1>3, <1>4, <1>5, <2>2, <3>1
  <2>3. CASE i > Len(r) + h
    BY <1>1, <1>2, <1>3, <1>4, <1>5, <2>3
  <2> QED
    BY <1>2, <2>1, <2>2, <2>3
<1> QED
  BY <1>2, <1>3, <1>4, <1>5, <1>6

\* The stream while an event is being written.
LEMMA JoinHeld ==
    ASSUME NEW r \in Seq(Events), NEW s \in Seq(Events), NEW w \in Events
    PROVE  /\ Join(r, w, s) \in Seq(Events)
           /\ Len(Join(r, w, s)) = Len(r) + 1 + Len(s)
           /\ \A i \in 1..Len(r) + 1 + Len(s) :
                 Join(r, w, s)[i] = IF i <= Len(r) THEN r[i]
                                    ELSE IF i <= Len(r) + 1 THEN w
                                    ELSE s[i - Len(r) - 1]
<1>1. w # NoEvent
  BY DEF NoEvent, Events
<1>2. PICK h \in {0, 1} : h = 1
  OBVIOUS
<1> QED
  BY <1>1, <1>2, JoinParts

\* The stream while none is.
LEMMA JoinFree ==
    ASSUME NEW r \in Seq(Events), NEW s \in Seq(Events)
    PROVE  /\ Join(r, NoEvent, s) \in Seq(Events)
           /\ Len(Join(r, NoEvent, s)) = Len(r) + Len(s)
           /\ \A i \in 1..Len(r) + Len(s) :
                 Join(r, NoEvent, s)[i] = IF i <= Len(r) THEN r[i] ELSE s[i - Len(r)]
<1>1. Len(r) \in Nat /\ Len(s) \in Nat
  BY LenProperties
<1>2. PICK h \in {0, 1} : h = 0
  OBVIOUS
<1>3. /\ Join(r, NoEvent, s) \in Seq(Events)
      /\ Len(Join(r, NoEvent, s)) = Len(r) + h + Len(s)
      /\ \A i \in 1..Len(r) + h + Len(s) :
            Join(r, NoEvent, s)[i] = IF i <= Len(r) THEN r[i]
                                     ELSE IF i <= Len(r) + h THEN NoEvent
                                     ELSE s[i - Len(r) - h]
  BY <1>2, JoinParts
<1>4. Len(r) + h + Len(s) = Len(r) + Len(s) /\ Len(r) + h = Len(r)
  BY <1>1, <1>2
<1>5. ASSUME NEW i \in 1..Len(r) + Len(s)
      PROVE  Join(r, NoEvent, s)[i] = IF i <= Len(r) THEN r[i] ELSE s[i - Len(r)]
  BY <1>1, <1>2, <1>3, <1>4
<1> QED
  BY <1>3, <1>4, <1>5

\* Taking the first event off the queue leaves the stream as it is.
LEMMA JoinTake ==
    ASSUME NEW r \in Seq(Events), NEW s \in Seq(Events), s # <<>>
    PROVE  Join(r, Head(s), Tail(s)) = Join(r, NoEvent, s)
<1>1. /\ Head(s) \in Events /\ Tail(s) \in Seq(Events) /\ Head(s) = s[1]
      /\ Len(Tail(s)) = Len(s) - 1 /\ Len(r) \in Nat /\ Len(s) \in Nat
      /\ \A i \in 1..Len(s) - 1 : Tail(s)[i] = s[i + 1]
  BY HeadTailProperties, LenProperties
<1>2. Head(s) # NoEvent
  BY <1>1 DEF NoEvent, Events
<1>3. /\ Join(r, Head(s), Tail(s)) \in Seq(Events)
      /\ Len(Join(r, Head(s), Tail(s))) = Len(r) + 1 + Len(Tail(s))
      /\ \A i \in 1..Len(r) + 1 + Len(Tail(s)) :
            Join(r, Head(s), Tail(s))[i] = IF i <= Len(r) THEN r[i]
                                           ELSE IF i <= Len(r) + 1 THEN Head(s)
                                           ELSE Tail(s)[i - Len(r) - 1]
  BY <1>1, <1>2, JoinHeld
<1>4. /\ Join(r, NoEvent, s) \in Seq(Events)
      /\ Len(Join(r, NoEvent, s)) = Len(r) + Len(s)
      /\ \A i \in 1..Len(r) + Len(s) :
            Join(r, NoEvent, s)[i] = IF i <= Len(r) THEN r[i] ELSE s[i - Len(r)]
  BY JoinFree
<1>5. ASSUME NEW i \in 1..Len(r) + Len(s)
      PROVE  Join(r, Head(s), Tail(s))[i] = Join(r, NoEvent, s)[i]
  <2>1. i \in Nat /\ i \in 1..Len(r) + 1 + Len(Tail(s))
    BY <1>1
  <2>2. CASE i <= Len(r) + 1
    BY <1>1, <1>3, <1>4, <2>1, <2>2
  <2>3. CASE i > Len(r) + 1
    <3>0. i - Len(r) - 1 \in 1..Len(s) - 1
      BY <1>1, <2>1, <2>3
    <3>1. PICK k \in 1..Len(s) - 1 : k = i - Len(r) - 1
      BY <3>0
    <3>2. Tail(s)[k] = s[i - Len(r)]
      BY <1>1, <2>1, <3>1
    <3> QED
      BY <1>1, <1>3, <1>4, <2>1, <2>3, <3>1, <3>2
  <2> QED
    BY <1>1, <2>1, <2>2, <2>3
<1> QED
  BY <1>1, <1>3, <1>4, <1>5, SeqEqual

\* Writing the event in hand leaves the stream as it is.
LEMMA JoinWrite ==
    ASSUME NEW r \in Seq(Events), NEW s \in Seq(Events), NEW w \in Events
    PROVE  Join(Append(r, w), NoEvent, s) = Join(r, w, s)
<1>1. w # NoEvent /\ <<w>> \in Seq(Events) /\ <<>> \in Seq(Events)
  BY DEF NoEvent, Events
<1>2. Append(r, w) = r \o <<w>> /\ Append(r, w) \in Seq(Events)
  BY AppendIsConcat, AppendProperties
<1>3. Append(r, w) \o <<>> = Append(r, w)
  BY <1>2, ConcatEmptySeq
<1> QED
  BY <1>1, <1>2, <1>3 DEF Join

\* Losing the event in hand takes it out of the stream.
LEMMA JoinLose ==
    ASSUME NEW r \in Seq(Events), NEW s \in Seq(Events), NEW w \in Events
    PROVE  /\ Len(r) \in Nat
           /\ Len(Join(r, NoEvent, s)) = Len(Join(r, w, s)) - 1
           /\ \A i \in 1..Len(Join(r, w, s)) - 1 :
                 Join(r, NoEvent, s)[i] = Join(r, w, s)[IF i < Len(r) + 1 THEN i ELSE i + 1]
<1>1. w # NoEvent
  BY DEF NoEvent, Events
<1>2. Len(r) \in Nat /\ Len(s) \in Nat
  BY LenProperties
<1>3. /\ Len(Join(r, w, s)) = Len(r) + 1 + Len(s)
      /\ \A i \in 1..Len(r) + 1 + Len(s) :
            Join(r, w, s)[i] = IF i <= Len(r) THEN r[i]
                               ELSE IF i <= Len(r) + 1 THEN w
                               ELSE s[i - Len(r) - 1]
  BY <1>1, JoinHeld
<1>4. /\ Len(Join(r, NoEvent, s)) = Len(r) + Len(s)
      /\ \A i \in 1..Len(r) + Len(s) :
            Join(r, NoEvent, s)[i] = IF i <= Len(r) THEN r[i] ELSE s[i - Len(r)]
  BY JoinFree
<1> QED
  BY <1>2, <1>3, <1>4

\* An event that is queued is the last of the stream.
LEMMA JoinSend ==
    ASSUME NEW r \in Seq(Events), NEW s \in Seq(Events), NEW w \in Events \cup {NoEvent},
           NEW e \in Events
    PROVE  Join(r, w, Append(s, e)) = Append(Join(r, w, s), e)
<1> DEFINE held == IF w = NoEvent THEN <<>> ELSE <<w>>
           front == r \o held
<1>1. held \in Seq(Events) /\ <<e>> \in Seq(Events)
  OBVIOUS
<1> HIDE DEF held
<1>2. front \in Seq(Events)
  BY <1>1, EventsConcat
<1> HIDE DEF front
<1>3. front \o s \in Seq(Events)
  BY <1>2, EventsConcat
<1>4. Append(s, e) = s \o <<e>> /\ Append(front \o s, e) = (front \o s) \o <<e>>
  BY <1>3, AppendIsConcat
<1>5. (front \o s) \o <<e>> = front \o (s \o <<e>>)
  BY <1>1, <1>2, ConcatAssociative
<1>6. Join(r, w, s) = front \o s /\ Join(r, w, Append(s, e)) = front \o Append(s, e)
  BY DEF Join, front, held
<1> QED
  BY <1>4, <1>5, <1>6

\* The stream of a client, put together.
LEMMA StreamParts ==
    ASSUME TInv, NEW c \in Clients
    PROVE  /\ received[c] \in Seq(Events) /\ send[c] \in Seq(Events)
           /\ pump[c].evt \in Events \cup {NoEvent}
           /\ pump[c].pc = "write" <=> pump[c].evt # NoEvent
           /\ Stream(c) = Join(received[c], pump[c].evt, send[c])
           /\ Stream(c) \in Seq(Events)
<1>1. received[c] \in Seq(Events) /\ send[c] \in Seq(Events) /\ pump[c] \in Pump
  BY DEF TInv, TypeOK
<1>2. pump[c].evt \in Events \cup {NoEvent}
  BY <1>1 DEF Pump
<1>3. NoEvent \notin Events
  BY DEF NoEvent, Events
<1>4. pump[c].pc = "write" <=> pump[c].evt # NoEvent
  BY <1>2, <1>3 DEF TInv, PumpSound
<1>5. Stream(c) = Join(received[c], pump[c].evt, send[c])
  BY DEF Stream, Held, Join
<1>6. Join(received[c], pump[c].evt, send[c]) \in Seq(Events)
  BY <1>1, <1>2, JoinParts
<1> QED
  BY <1>1, <1>2, <1>4, <1>5, <1>6

\* The counters of the publishers only go up, and a client gets onto the list of
\* a publication only when it begins.
PublishersAdvance ==
    \A p \in Publishers :
        /\ pub[p].n \in Nat /\ pub'[p].n \in Nat
        /\ pub[p].n <= pub'[p].n
        /\ pub'[p].todo \subseteq pub[p].todo \/ pub[p].n < pub'[p].n

\* A step that leaves a stream as it is keeps it sound.
LEMMA SameStream ==
    ASSUME TInv, PublishersAdvance, NEW c \in Clients, StreamSound(c),
           Stream(c)' = Stream(c)
    PROVE  StreamSound(c)'
<1>1. Stream(c) \in Seq(Events)
  BY StreamParts
<1>2. \A i \in 1..Len(Stream(c)) : Stream(c)[i].by \in Publishers /\ Stream(c)[i].n \in Nat
  BY <1>1, ElementOfSeq, EventFields
<1> QED
  BY <1>2 DEF PublishersAdvance, StreamSound

\* A stream that loses one of its events is sound if it was.
LEMMA LostEvent ==
    ASSUME TInv, PublishersAdvance, NEW c \in Clients, StreamSound(c),
           NEW k \in Nat, Len(Stream(c)') = Len(Stream(c)) - 1,
           \A i \in 1..Len(Stream(c)) - 1 :
              Stream(c)'[i] = Stream(c)[IF i < k THEN i ELSE i + 1]
    PROVE  StreamSound(c)'
<1>1. Stream(c) \in Seq(Events) /\ Len(Stream(c)) \in Nat
  BY StreamParts, LenProperties
<1>2. \A i \in 1..Len(Stream(c)) : Stream(c)[i].by \in Publishers /\ Stream(c)[i].n \in Nat
  BY <1>1, ElementOfSeq, EventFields
<1> DEFINE pos(i) == IF i < k THEN i ELSE i + 1
<1>3. /\ \A i \in 1..Len(Stream(c)) - 1 : pos(i) \in 1..Len(Stream(c)) /\ Stream(c)'[i] = Stream(c)[pos(i)]
      /\ \A i, j \in 1..Len(Stream(c)) - 1 : i < j => pos(i) < pos(j)
  BY <1>1
<1> HIDE DEF pos
<1>4. ASSUME NEW i \in 1..Len(Stream(c)) - 1, NEW j \in 1..Len(Stream(c)) - 1,
             i < j, Stream(c)'[i].by = Stream(c)'[j].by
      PROVE  Stream(c)'[i].n < Stream(c)'[j].n
  BY <1>3, <1>4 DEF StreamSound
<1>5. ASSUME NEW i \in 1..Len(Stream(c)) - 1
      PROVE  LET e == Stream(c)'[i]
             IN  e.n <= pub'[e.by].n /\ (c \in pub'[e.by].todo => e.n < pub'[e.by].n)
  <2>1. PICK m \in 1..Len(Stream(c)) : Stream(c)'[i] = Stream(c)[m]
    BY <1>3
  <2>2. LET e == Stream(c)[m]
        IN  /\ e.by \in Publishers /\ e.n \in Nat /\ e.n <= pub[e.by].n
            /\ c \in pub[e.by].todo => e.n < pub[e.by].n
    BY <1>2 DEF StreamSound
  <2> QED
    BY <2>1, <2>2 DEF PublishersAdvance
<1> QED
  BY <1>4, <1>5 DEF StreamSound

\* A stream that gets the event a publisher is sending is sound if it was: the
\* publisher takes the client off its list in the same step.
LEMMA NextEvent ==
    ASSUME TInv, NEW c \in Clients, NEW p \in Publishers, StreamSound(c),
           pub[p].pc = "send", c \in pub[p].todo,
           pub' = [pub EXCEPT ![p].todo = @ \ {c}],
           Stream(c)' = Append(Stream(c), Event(p))
    PROVE  StreamSound(c)'
<1>1. Stream(c) \in Seq(Events) /\ Len(Stream(c)) \in Nat
  BY StreamParts, LenProperties
<1>2. \A i \in 1..Len(Stream(c)) : Stream(c)[i].by \in Publishers /\ Stream(c)[i].n \in Nat
  BY <1>1, ElementOfSeq, EventFields
<1>3. Event(p) \in Events /\ Event(p).by = p /\ Event(p).n = pub[p].n /\ pub[p].n \in Nat
  BY EventType, EventFields DEF Event
<1>4. /\ Len(Stream(c)') = Len(Stream(c)) + 1
      /\ \A i \in 1..Len(Stream(c)) : Stream(c)'[i] = Stream(c)[i]
      /\ Stream(c)'[Len(Stream(c)) + 1] = Event(p)
  BY <1>1, <1>3, AppendProperties
<1>5. /\ pub \in [Publishers -> Publication] /\ pub[p] \in Publication
      /\ \A q \in Publishers : pub'[q].n = pub[q].n /\ pub'[q].todo \subseteq pub[q].todo
      /\ c \notin pub'[p].todo
  BY DEF TInv, TypeOK, Publication
<1>6. \A i \in 1..Len(Stream(c)) : Stream(c)[i].by = p => Stream(c)[i].n < pub[p].n
  BY <1>2 DEF StreamSound
<1>7. ASSUME NEW i \in 1..Len(Stream(c)) + 1, NEW j \in 1..Len(Stream(c)) + 1,
             i < j, Stream(c)'[i].by = Stream(c)'[j].by
      PROVE  Stream(c)'[i].n < Stream(c)'[j].n
  <2>1. i \in 1..Len(Stream(c))
    BY <1>1, <1>7
  <2>2. CASE j \in 1..Len(Stream(c))
    BY <1>4, <1>7, <2>1, <2>2 DEF StreamSound
  <2>3. CASE j = Len(Stream(c)) + 1
    BY <1>3, <1>4, <1>6, <1>7, <2>1, <2>3
  <2> QED
    BY <1>1, <2>2, <2>3
<1>8. ASSUME NEW i \in 1..Len(Stream(c)) + 1
      PROVE  LET e == Stream(c)'[i]
             IN  e.n <= pub'[e.by].n /\ (c \in pub'[e.by].todo => e.n < pub'[e.by].n)
  <2>1. CASE i \in 1..Len(Stream(c))
    BY <1>2, <1>4, <1>5, <2>1 DEF StreamSound
  <2>2. CASE i = Len(Stream(c)) + 1
    BY <1>3, <1>4, <1>5, <2>2
  <2> QED
    BY <1>1, <2>1, <2>2
<1> QED
  BY <1>4, <1>7, <1>8 DEF StreamSound

\* Publishing, offering and cleaning up keep every stream sound.
LEMMA PublisherKeepsOrder ==
    ASSUME TInv, OInv, NEW p \in Publishers,
           (\E t \in Topics : Publish(p, t)) \/ (\E c \in Clients : Offer(p, c)) \/ Cleanup(p)
    PROVE  OInv'
<1>0. /\ pub \in [Publishers -> Publication]
      /\ \A q \in Publishers : pub[q] \in Publication /\ pub[q].n \in Nat
      /\ send \in [Clients -> Seq(Events)]
  BY DEF TInv, TypeOK, Publication
<1> SUFFICES ASSUME NEW c \in Clients PROVE StreamSound(c)'
  BY DEF OInv
<1>1. StreamSound(c)
  BY DEF OInv
<1>2. ASSUME NEW t \in Topics, Publish(p, t) PROVE StreamSound(c)'
  <2>1. Stream(c)' = Stream(c)
    BY <1>2 DEF Publish, connVars, Stream, Held
  <2>2. PublishersAdvance
    BY <1>0, <1>2 DEF Publish, PublishersAdvance
  <2> QED
    BY <1>1, <2>1, <2>2, SameStream
<1>3. ASSUME NEW d \in Clients, Offer(p, d) PROVE StreamSound(c)'
  <2>1. CASE ~Accepts(d) \/ d # c
    <3>1. Stream(c)' = Stream(c)
      BY <1>0, <1>3, <2>1 DEF Offer, Stream, Held
    <3>2. PublishersAdvance
      <4>1. CASE Accepts(d)
        <5>1. pub' = [pub EXCEPT ![p].todo = @ \ {d}]
          BY <1>3, <4>1 DEF Offer
        <5> QED
          BY <1>0, <5>1 DEF PublishersAdvance, Publication
      <4>2. CASE ~Accepts(d)
        <5>1. pub' = [pub EXCEPT ![p] = [pub[p] EXCEPT !.todo = @ \ {d}, !.dead = @ \cup {d}]]
          BY <1>3, <4>2 DEF Offer
        <5> QED
          BY <1>0, <5>1 DEF PublishersAdvance, Publication
      <4> QED
        BY <4>1, <4>2
    <3> QED
      BY <1>1, <3>1, <3>2, SameStream
  <2>2. CASE Accepts(d) /\ d = c
    <3>1. /\ pub[p].pc = "send" /\ c \in pub[p].todo
          /\ pub' = [pub EXCEPT ![p].todo = @ \ {c}]
          /\ send'[c] = Append(send[c], Event(p))
          /\ received' = received /\ pump' = pump
      BY <1>0, <1>3, <2>2 DEF Offer
    <3>2. Event(p) \in Events /\ Held(c)' = Held(c)
      BY <3>1, EventType DEF Held
    <3>3. Stream(c)' = Append(Stream(c), Event(p))
      <4>1. Stream(c)' = Join(received[c], pump[c].evt, Append(send[c], Event(p)))
        BY <3>1, <3>2 DEF Stream, Held, Join
      <4>2. /\ received[c] \in Seq(Events) /\ send[c] \in Seq(Events)
            /\ pump[c].evt \in Events \cup {NoEvent}
            /\ Stream(c) = Join(received[c], pump[c].evt, send[c])
        BY StreamParts
      <4>3. Join(received[c], pump[c].evt, Append(send[c], Event(p)))
               = Append(Join(received[c], pump[c].evt, send[c]), Event(p))
        BY <3>2, <4>2, JoinSend
      <4> QED
        BY <4>1, <4>2, <4>3
    <3> QED
      BY <1>1, <3>1, <3>3, NextEvent
  <2> QED
    BY <2>1, <2>2
<1>4. ASSUME Cleanup(p) PROVE StreamSound(c)'
  <2>1. Stream(c)' = Stream(c)
    BY <1>4 DEF Cleanup, connVars, Stream, Held
  <2>2. PublishersAdvance
    <3>1. pub' = [pub EXCEPT ![p] = [pub[p] EXCEPT !.pc = "idle", !.topic = None, !.dead = {}]]
      BY <1>4 DEF Cleanup, Return
    <3> QED
      BY <1>0, <3>1 DEF PublishersAdvance, Publication
  <2> QED
    BY <1>1, <2>1, <2>2, SameStream
<1> QED
  BY <1>2, <1>3, <1>4

\* A writer that takes an event off its channel, writes it or loses it keeps
\* every stream sound.
LEMMA WriterKeepsOrder ==
    ASSUME TInv, OInv, NEW d \in Clients, Take(d) \/ Write(d) \/ WriteFails(d)
    PROVE  OInv'
<1>0. /\ PublishersAdvance
      /\ pump \in [Clients -> Pump] /\ send \in [Clients -> Seq(Events)]
      /\ received \in [Clients -> Seq(Events)]
  BY DEF Take, Write, WriteFails, PublishersAdvance, TInv, TypeOK, Publication
<1> SUFFICES ASSUME NEW c \in Clients PROVE StreamSound(c)'
  BY DEF OInv
<1>1. StreamSound(c)
  BY DEF OInv
<1>2. CASE c # d
  <2>1. Stream(c)' = Stream(c)
    BY <1>0, <1>2 DEF Take, Write, WriteFails, Lost, PumpGoesTo, Stream, Held
  <2> QED
    BY <1>0, <1>1, <2>1, SameStream
<1>3. Stream(c)' = Join(received'[c], pump'[c].evt, send'[c])
  BY DEF Stream, Held, Join
<1>4. CASE c = d /\ Take(d)
  <2>1. /\ pump[c].pc = "wait" /\ send[c] # <<>>
        /\ pump'[c].evt = Head(send[c])
        /\ send'[c] = Tail(send[c]) /\ received' = received
    BY <1>0, <1>4 DEF Take
  <2>2. Stream(c)' = Join(received[c], NoEvent, send[c])
    BY <1>3, <2>1, StreamParts, JoinTake
  <2>3. Stream(c)' = Stream(c)
    BY <2>1, <2>2, StreamParts
  <2> QED
    BY <1>0, <1>1, <2>3, SameStream
<1>5. CASE c = d /\ Write(d)
  <2>1. /\ pump'[c].evt = NoEvent /\ pump[c].evt \in Events
        /\ received'[c] = Append(received[c], pump[c].evt) /\ send' = send
    BY <1>0, <1>5 DEF Write, PumpGoesTo, TInv, PumpSound
  <2>2. Stream(c)' = Stream(c)
    BY <1>3, <2>1, StreamParts, JoinWrite
  <2> QED
    BY <1>0, <1>1, <2>2, SameStream
<1>6. CASE c = d /\ WriteFails(d)
  <2>1. /\ pump'[c].evt = NoEvent /\ pump[c].evt \in Events
        /\ received' = received /\ send' = send
    BY <1>0, <1>6 DEF WriteFails, Lost, PumpGoesTo, TInv, PumpSound
  <2>2. /\ Stream(c) = Join(received[c], pump[c].evt, send[c])
        /\ Stream(c)' = Join(received[c], NoEvent, send[c])
    BY <1>3, <2>1, StreamParts
  <2>3. received[c] \in Seq(Events) /\ send[c] \in Seq(Events)
    BY StreamParts
  <2>4. PICK k \in Nat : k = Len(received[c]) + 1
    BY <2>3, LenProperties
  <2>5. /\ Len(Stream(c)') = Len(Stream(c)) - 1
        /\ \A i \in 1..Len(Stream(c)) - 1 :
              Stream(c)'[i] = Stream(c)[IF i < k THEN i ELSE i + 1]
    BY <2>1, <2>2, <2>3, <2>4, JoinLose
  <2> QED
    BY <1>0, <1>1, <2>5, LostEvent
<1> QED
  BY <1>2, <1>4, <1>5, <1>6

\* However the publishers interleave and the connections fail, a client gets the
\* events of each publisher in the order they were published, none twice.
THEOREM PublishersInOrder == Spec => []PublisherOrder
<1>1. Init => OInv
  BY DEF Init, OInv, StreamSound, Stream, Held, NoEvent
<1>2. TInv /\ OInv /\ [Next]_vars => OInv'
  <2> SUFFICES ASSUME TInv, OInv, [Next]_vars PROVE OInv'
    OBVIOUS
  <2>1. ASSUME NEW p \in Publishers, PublisherStep(p) \/ \E t \in Topics : Publish(p, t)
        PROVE  OInv'
    BY <2>1, PublisherKeepsOrder DEF PublisherStep
  <2>2. ASSUME NEW c \in Clients, Take(c) \/ Write(c) \/ WriteFails(c) PROVE OInv'
    BY <2>2, WriterKeepsOrder
  <2>3. ASSUME UNCHANGED <<send, received, pub>>,
               \A c \in Clients : pump'[c].evt = pump[c].evt
        PROVE  OInv'
    <3>1. PublishersAdvance
      BY <2>3 DEF PublishersAdvance, TInv, TypeOK, Publication
    <3>2. \A c \in Clients : Stream(c)' = Stream(c)
      BY <2>3 DEF Stream, Held
    <3> QED
      BY <3>1, <3>2, SameStream DEF OInv
  <2>4. ASSUME NEW d \in Clients, NEW t \in Topics,
               Connect(d, t) \/ ReadSubscribe(d, t) \/ ReadUnsubscribe(d, t)
        PROVE  OInv'
    BY <2>3, <2>4 DEF Connect, ReadSubscribe, ReadUnsubscribe, connVars, TInv, TypeOK, Pump
  <2>5. ASSUME NEW d \in Clients,
               \/ ReadError(d) \/ Leave(d) \/ Close(d)
               \/ Stall(d) \/ Resume(d) \/ Disconnect(d) \/ WriteDeadline(d)
        PROVE  OInv'
    BY <2>3, <2>5
    DEF ReadError, Leave, Close, Stall, Resume, Disconnect, WriteDeadline, PeerBecomes
  <2>6. ASSUME NEW d \in Clients, PumpEnds(d) PROVE OInv'
    BY <2>3, <2>6 DEF PumpEnds, PumpGoesTo, TInv, TypeOK, Pump, PumpSound
  <2>7. CASE UNCHANGED vars
    BY <2>3, <2>7 DEF vars, connVars
  <2> QED
    BY <2>1, <2>2, <2>4, <2>5, <2>6, <2>7 DEF Next, WebSocket, SSE
<1>3. TInv /\ OInv => PublisherOrder
  <2> SUFFICES ASSUME TInv, OInv, NEW c \in Clients
               PROVE  \A i, j \in DOMAIN Stream(c) :
                         i < j /\ Stream(c)[i].by = Stream(c)[j].by => Stream(c)[i].n < Stream(c)[j].n
    BY DEF PublisherOrder
  <2>1. DOMAIN Stream(c) = 1..Len(Stream(c))
    BY StreamParts, LenProperties
  <2> QED
    BY <2>1 DEF OInv, StreamSound
<1> QED
  BY <1>1, <1>2, <1>3, Typed, PTL DEF Spec
=============================================================================
