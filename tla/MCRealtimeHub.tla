--------------------------- MODULE MCRealtimeHub ---------------------------
EXTENDS RealtimeHub

\* All connections but one have come and gone: the states a quiet hour leaves
\* behind, small enough for the temporal properties.
LoneInit ==
    \E lone \in Clients :
        LET Others(live, past) == [c \in Clients |-> IF c = lone THEN live ELSE past]
        IN  /\ topics = [t \in Topics |-> {}]
            /\ send = [c \in Clients |-> <<>>]
            /\ closed = Others(FALSE, TRUE)
            /\ peer = Others("absent", "gone")
            /\ expired = EventStreams \ {lone}
            /\ loop = Others("none", "done")
            /\ pump = Others([pc |-> "none", evt |-> NoEvent], [pc |-> "done", evt |-> NoEvent])
            /\ pub = [p \in Publishers |->
                        [pc |-> "idle", n |-> 0, topic |-> None, todo |-> {}, dead |-> {}]]
            /\ received = [c \in Clients |-> <<>>]
            /\ gap = {}

LoneSpec == LoneInit /\ [][Next]_vars /\ Fairness
=============================================================================
