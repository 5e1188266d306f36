--------------------------- MODULE VirtualTerminal ---------------------------
(***************************************************************************)
(* A virtual terminal and its client: the session and the upload, the      *)
(* terminal's parser and command handlers, the client's scaling of its     *)
(* pools, its command queue, the operator's events with the application's  *)
(* copy of what is shown, and the auxiliary inputs.  In the code these     *)
(* parts of VirtualTerminalClient and VirtualTerminalServer keep separate  *)
(* data and meet only in "the session is connected", which the parts       *)
(* other than the session take as given or as an input.  Each behaviour    *)
(* therefore runs one part, and the variables of the others stay idle.     *)
(***************************************************************************)
EXTENDS VTServerCommands, VTScaling

CONSTANTS
    Pools, Setups, FaultBudgets,    \* the session's
    Callers, Plans,                 \* the command queue's
    OperatorPlans, MaxHistory,      \* the operator's
    AuxPlans                        \* the auxiliary inputs'

ASSUME PoolsAssumption == Pools = 1..Cardinality(Pools)

VARIABLES
    part,       \* the part that runs
    setup, faults, conn, toVT, toClient, transfer, vt,
    plan, commandQueue, awaiting, lockedBy, doing, unsupported, linked, bus, responses, accepted,
    opPlan, toListener, toDisplay, display, tracked, setting, hearing, heard, overwritten,
    auxPlan, assigned, order, answer, believed, inputs, link, shown, wanted

Session == INSTANCE VTSession
Queue == INSTANCE VTCommandQueue
Operator == INSTANCE VTOperator
Aux == INSTANCE VTAuxiliary

ASSUME OperatorPlansAssumption == OperatorPlans \subseteq Operator!OperatorSetups

ASSUME AuxPlansAssumption == AuxPlans \subseteq Aux!AuxSetups

sessionVars == <<setup, faults, conn, toVT, toClient, transfer, vt>>
queueVars == <<plan, commandQueue, awaiting, lockedBy, doing, unsupported, linked, bus,
               responses, accepted>>
operatorVars ==
    <<opPlan, toListener, toDisplay, display, tracked, setting, hearing, heard, overwritten>>
auxVars == <<auxPlan, assigned, order, answer, believed, inputs, link, shown, wanted>>
terminalVars == <<part, vars, scalingVars, sessionVars, queueVars, operatorVars, auxVars>>

-----------------------------------------------------------------------------
Idle(variable) == variable = 0

NoParser == Idle(pool) /\ Idle(size) /\ Idle(next) /\ Idle(left) /\ Idle(outcome) /\ Idle(tree)
               /\ Idle(workingSetID)
NoCommands == Idle(nulls) /\ Idle(focus) /\ Idle(todo) /\ Idle(client) /\ Idle(answers)
                 /\ Idle(sent) /\ Idle(thrown)
NoPools == NoParser /\ NoCommands
NoScaling == Idle(request) /\ Idle(walk)
NoSession == Idle(setup) /\ Idle(faults) /\ Idle(conn) /\ Idle(toVT) /\ Idle(toClient)
                /\ Idle(transfer) /\ Idle(vt)
NoQueue == Idle(plan) /\ Idle(commandQueue) /\ Idle(awaiting) /\ Idle(lockedBy) /\ Idle(doing)
              /\ Idle(unsupported) /\ Idle(linked) /\ Idle(bus) /\ Idle(responses) /\ Idle(accepted)
NoOperator == Idle(opPlan) /\ Idle(toListener) /\ Idle(toDisplay) /\ Idle(display)
                 /\ Idle(tracked) /\ Idle(setting) /\ Idle(hearing) /\ Idle(heard)
                 /\ Idle(overwritten)
NoAux == Idle(auxPlan) /\ Idle(assigned) /\ Idle(order) /\ Idle(answer) /\ Idle(believed)
            /\ Idle(inputs) /\ Idle(link) /\ Idle(shown) /\ Idle(wanted)

TerminalInit ==
    \/ part = "pools" /\ ServerInit /\ NoScaling /\ NoSession /\ NoQueue /\ NoOperator /\ NoAux
    \/ part = "scaling" /\ ScalingInit /\ NoPools /\ NoSession /\ NoQueue /\ NoOperator /\ NoAux
    \/ part = "session" /\ Session!SessionInit /\ NoPools /\ NoScaling /\ NoQueue /\ NoOperator /\ NoAux
    \/ part = "queue" /\ Queue!QueueInit /\ NoPools /\ NoScaling /\ NoSession /\ NoOperator /\ NoAux
    \/ part = "operator" /\ Operator!OperatorInit /\ NoPools /\ NoScaling /\ NoSession /\ NoQueue /\ NoAux
    \/ part = "aux" /\ Aux!AuxInit /\ NoPools /\ NoScaling /\ NoSession /\ NoQueue /\ NoOperator

\* A step of one part leaves the others idle.
Except(p, step, idle) == part = p /\ step /\ UNCHANGED <<part, idle>>

InPools(work) == Except("pools", work, <<scalingVars, sessionVars, queueVars, operatorVars, auxVars>>)
InScaling(work) == Except("scaling", work, <<vars, sessionVars, queueVars, operatorVars, auxVars>>)
InSession(work) == Except("session", work, <<vars, scalingVars, queueVars, operatorVars, auxVars>>)
InQueue(work) == Except("queue", work, <<vars, scalingVars, sessionVars, operatorVars, auxVars>>)
InOperator(work) == Except("operator", work, <<vars, scalingVars, sessionVars, queueVars, auxVars>>)
InAux(work) == Except("aux", work, <<vars, scalingVars, sessionVars, queueVars, operatorVars>>)

TerminalNext ==
    \/ InPools(Next) \/ InScaling(ScalingNext) \/ InSession(Session!SessionNext)
    \/ InQueue(Queue!QueueNext) \/ InOperator(Operator!OperatorNext) \/ InAux(Aux!AuxNext)

\* What the threads of the part that runs go on doing.
TerminalWork ==
    \/ InPools(Parse \/ Work) \/ InScaling(ScalingNext) \/ InSession(Session!SessionSystem)
    \/ InQueue(Queue!QueueSystem) \/ InOperator(Operator!OperatorNext) \/ InAux(Aux!AuxWork)

TerminalSpec == TerminalInit /\ [][TerminalNext]_terminalVars /\ WF_terminalVars(TerminalWork)

-----------------------------------------------------------------------------
\* Properties of each part, in the behaviours that run it

\* The tree of the terminal is the pool the client sent, and stays a valid one:
\* parse_iop_into_objects parses a pool that arrived whole to its end and refuses one
\* that was cut off, but for the pools that its length checks get wrong and that
\* WholeIsParsed and CutIsRefused of VTPoolParser name, with what happens to them; and
\* no command of the client makes a valid tree invalid, nor puts a value into an
\* attribute that its field cannot hold (StaysValid and TypeOK of VTServerCommands).
TreeIsThePool ==
    [][part = "pools" => WholeIsParsed /\ CutIsRefused /\ StaysValid /\ TypeOK']_vars

\* A client that waits for the answer to its command gets that one before those of
\* the macros it triggered (AnsweredInOrder of VTServerCommands); and macros that
\* do not trigger themselves come to an end: the handler returns.
CommandsAnswered ==
    /\ [](part = "pools" => AnsweredInOrder)
    /\ []<>(part = "pools" => HandlerReturned)

\* A scaled pool is the same pool at another size: the walk of the client over the
\* raw data meets every object, but for the types whose length it gets wrong, and goes
\* on to the end, but at a terminal that lacks two neighbouring fonts and for a pool
\* without a size; a child inside its parent is inside it after resize_object too, and
\* the fonts keep the text within its field (VTScaling).
ScaledPoolFits ==
    part = "scaling" => WalkMeetsObjects /\ StaysInside /\ ScaledTextFits

\* A connected client's pools are all in the terminal (ConnectedMeansParsed of
\* VTSession), and a client that is not connected gets connected again and again
\* ("Retry connecting after a while"), whatever frames, answers or power the
\* terminal lost: as long as no upload's outcome outlived its connection or was
\* overwritten.
ConnectsWithEveryPool ==
    /\ [](part = "session" => Session!SessionTypeOK /\ Session!ConnectedMeansParsed)
    /\ []<>(part = "session" => Session!ConnectedOrStuck)

\* What the application wants shown reaches the terminal: the newest command of a
\* destination is not lost before it is sent, across threads and lost connections,
\* and none older is sent after it, but where it overtook one that waited (LatestNotLost
\* of VTCommandQueue names the cases); once there is a terminal the queue drains,
\* whether answers come, come late or are lost, and no thread waits for the lock for
\* ever; and the status of its auxiliary inputs that others heard last becomes the
\* value the application set last, although the driver may refuse a frame
\* (VTAuxiliary).
CommandsReachTerminal ==
    /\ [](part = "queue" => Queue!LatestNotLost /\ Queue!QueueTypeOK)
    /\ <>[](part = "queue" /\ plan.terminal => Queue!Drained)
    /\ <>[](part = "aux" => Aux!LatestShown)

\* Terminal and client agree, whoever acted last and whatever crossed or got lost:
\* on the operator's events and the number that both change, unless a call of the
\* update helper wrote its number late (NumberTracked of VTOperator); and on the
\* auxiliary inputs that are assigned (VTAuxiliary).
BothSidesAgree ==
    /\ part = "operator" => Operator!HeardAsMeant /\ Operator!NumberTracked
    /\ part = "aux" => Aux!AssignmentsAgree
=============================================================================
