CONSTANTS
    RELAY_ACTIVE_LOW = FALSE
    Actions = {1}
    MaxRestarts = 1
    PlantButtons = {"LOWERED"}
SPECIFICATION Spec
INVARIANT
    PreloadReachesEveryPort
