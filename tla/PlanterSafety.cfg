CONSTANTS
    RELAY_ACTIVE_LOW = TRUE
    Actions = {1, 6}
    MaxRestarts = 1
    PlantButtons = {"FULL_LIFT", "LOWERED"}
SPECIFICATION Spec
INVARIANTS
    ActionFromAllOff
    FailSafeOff
    LockoutSticks
    LitIsActive
    OutputsExplained
    ColdBootSilent
PROPERTIES
    NoEnergiseUnderFault
