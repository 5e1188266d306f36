SPECIFICATION AllSpec
CONSTANTS
    Nodes = {"a", "b"}
    Global = "all"
    Messages = {"two", "three", "other", "short", "back", "all2", "long", "long2", "longback", "fast2", "fast3"}
    FastMessages = {"fast2", "fast3"}
    Threads = {"a", "b"}
    From <- MCFrom
    To <- MCTo
    Pgn <- MCPgn
    Size <- MCSize
    MaxSessions = 3
    PacketsPerCts = 2
    PacketsPerDpo = 2
    FramesPerUpdate = 2
    MAX_PROTOCOL_DATA_LENGTH = 21
    Callers = {"app"}
    Capacity = 3
    MaxFrames = 2
    Scenarios <- MCScenarios
\* The messages are finitely many: the last state has nothing left to do.
CHECK_DEADLOCK FALSE
INVARIANTS
    WindowsKept
    OneSessionPerPair
    FramesHandedOn
PROPERTIES
    TransferSpec
    ExtendedTransferSpec
    FastTransferSpec
    EveryTransferEnds
