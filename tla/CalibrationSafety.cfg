CONSTANTS
    Buttons = {"StartPlant", "StopPlant"}
    Actions = {3}
    StoredBytes = {40, 255}
    MaxRestarts = 1
SPECIFICATION Spec
INVARIANTS
    TypeOK
    PointsOrdered
    RestartFindsSaved
