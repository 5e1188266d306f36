SPECIFICATION AllSpec
CONSTANTS
    Nodes = {"a", "b"}
    Global = "all"
    Messages = {"two", "three", "other", "short", "back", "all2", "long", "long2", "longback", "fast2", "fast3"}
    FastMessages = {"fast2", "fast3"}
    Threads = {"two", "three", "other", "short", "back", "all2", "long", "long2", "longback", "fast2", "fast3"}
    From <- MCFrom
    To <- MCTo
    Pgn <- MCPgn
    Size <- MCSize
    MaxSessions = 3
    PacketsPerCts = 3
    PacketsPerDpo = 2
    FramesPerUpdate = 2
    MAX_PROTOCOL_DATA_LENGTH = 21
    Callers = {"app"}
    Capacity = 3
    MaxFrames = 2
    Scenarios <- MCThreads
\* The messages are finitely many: the last state has nothing left to do.
CHECK_DEADLOCK FALSE
INVARIANT DeliveredComplete
