SPECIFICATION FairSpec
CONSTANTS
    Symbols = {s1}
    Calls = {k1}
    Kinds = {"TRADE"}
    Asked = {s1}
    EventBufferSize = 1
    MaxEvents = 2
    Clients = {c1}
    SendBuffer = 1
    MaxRequests = 2
    Streams = {g1}
    StreamTypes = {"TRADE"}
    Publishers = {p1}
INVARIANTS
    NoSendOnClosed
    EventsInOrder
PROPERTIES
    EngineProceeds
    LostIsForgotten
CHECK_DEADLOCK FALSE
