SPECIFICATION Spec
CONSTANTS
    WebSockets = {}
    EventStreams = {e1}
    Topics = {t1}
    Publishers = {p1}
    ClientSendBuffer = 1
    MaxEvents = 1
    None = None
PROPERTIES CountedIsReceived
CHECK_DEADLOCK FALSE
