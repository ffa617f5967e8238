SPECIFICATION LoneSpec
CONSTANTS
    WebSockets = {w1}
    EventStreams = {e1}
    Topics = {t1}
    Publishers = {p1, p2}
    ClientSendBuffer = 1
    MaxEvents = 2
    None = None
INVARIANTS PublisherOrder
PROPERTIES NobodyIsHeldUp SocketDelivery
CHECK_DEADLOCK FALSE
