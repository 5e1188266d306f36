CONSTANTS
    RELAY_ACTIVE_LOW = FALSE
    Actions = {1}
    MaxRestarts = 0
    PlantButtons = {"LIMITED_LIFT"}
SPECIFICATION FairSpec
PROPERTIES
    FaultLeadsToLockout
    HandlerReturns
