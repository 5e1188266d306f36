SPECIFICATION TerminalSpec
CONSTANTS
    PoolNames <- MCPoolNames
    Pool <- ScaledPool
    Sizes <- MCSizes
    Commands <- MCCommands
    ClientCommands <- MCClientCommands
    Version = 4
    ScalingRequests <- MCScalingRequests
    Pools = {1, 2}
    Setups <- MCSetups
    FaultBudgets <- MCFaultBudgets
    Callers = {"app", "can"}
    Plans <- MCPlans
    OperatorPlans <- MCOperatorPlans
    MaxHistory = 2
    AuxPlans <- MCAuxPlans
\* A refused pool, calls that were all made and events that were all heard leave
\* nothing to do.
CHECK_DEADLOCK FALSE
INVARIANTS
    ScaledPoolFits
    BothSidesAgree
PROPERTIES
    TreeIsThePool
    CommandsAnswered
    ConnectsWithEveryPool
    CommandsReachTerminal
