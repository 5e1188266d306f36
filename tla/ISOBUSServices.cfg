SPECIFICATION ServicesSpec
CONSTANTS
    TCSetups <- MCTCSetups
    TCFaults <- MCTCFaults
    MeasurePlans <- MCMeasurePlans
    MaxClock = 3
    Builds <- MCBuilds
    Dropped <- MCDropped
    DiagnosticPlans <- MCDiagnosticPlans
    Tools = {"tool", "other"}
    Senders = {"terminal"}
    Top = 3
    HeartFaults <- MCHeartFaults
    Machines = {"a", "b"}
    MachinePlans <- MCMachinePlans
    Buttons = {"isb1", "isb2"}
    MaxNumber = 3
    ButtonFaults <- MCButtonFaults
    KeyPlans <- MCKeyPlans
\* A terminated client and a pool that was built have nothing left to do.
CHECK_DEADLOCK FALSE
INVARIANTS
    PowerKept
PROPERTIES
    OwnPoolGetsActive
    MeasurementsTold
    PoolReadAsBuilt
    TroubleCodesTold
    HeartbeatsWatched
    MachinesAsSent
    StopHonoured
