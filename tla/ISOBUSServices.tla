--------------------------- MODULE ISOBUSServices ---------------------------
(***************************************************************************)
(* The services an implement talks to, or offers, beside its terminal: the *)
(* task controller's session, its measurements and device descriptors, the *)
(* diagnostic protocol, heartbeats, the machine messages, the shortcut     *)
(* button and the key switch.  Each is an object of its own with its own   *)
(* data and its own update; they meet only at the bus, where each takes    *)
(* the messages of its own parameter groups.  Each behaviour runs one      *)
(* service, and the variables of the others stay idle.                     *)
(***************************************************************************)
EXTENDS Integers, Sequences, FiniteSets

CONSTANTS
    TCSetups, TCFaults,             \* the session's
    MeasurePlans, MaxClock,         \* the measurements'
    Builds, Dropped,                \* the device descriptors'
    DiagnosticPlans, Tools,         \* the diagnostic protocol's
    Senders, Top, HeartFaults,      \* the heartbeat's
    Machines, MachinePlans,         \* the machine messages'
    Buttons, MaxNumber, ButtonFaults,   \* the shortcut button's
    KeyPlans                        \* the key switch's

\* The driver refuses single frames while power is kept.
ASSUME KeyPlansAssumption ==
    KeyPlans \subseteq [time : Nat, turns : Nat, refused : 0..1]

VARIABLES
    service,    \* the one that runs
    tcSetup, tcFaults, tc, toTC, fromTC, upload, tcServer,
    ahead, refusals, clock, measured, data, client, trigger, phase, measurements,
    todo, pool, poolServer, last,
    plan, lists, flags, at, polled, responses, pending, suspension, sinceDM1, told,
    enabled, tracked, others, heartFaults, heartPolled, noted,
    machinePlan, sender, received, shown, stepped,
    button, heard, stopTold, trouble, updated,
    keyPlan, keyOff, keyNotOff, sinceSent, sendFlag, ranSince, power

Session == INSTANCE TCSession WITH server <- tcServer
Measure == INSTANCE TCMeasurements WITH polled <- measured, heard <- measurements
Device == INSTANCE DeviceDescriptors WITH server <- poolServer
Diagnostic == INSTANCE Diagnostics
Heart == INSTANCE Heartbeat WITH faults <- heartFaults, polled <- heartPolled
Machine == INSTANCE MachineMessages
Shortcut == INSTANCE ShortcutButton WITH told <- stopTold
Key == INSTANCE KeySwitch

\* What a task controller sends, an application calls, and the defaults it has.
ASSUME MeasurePlansAssumption ==
    \A plans \in MeasurePlans : \E kinds \in SUBSET Measure!Kinds :
        plans \in [server : Seq([command : Measure!Kinds \union {"request", "default", "set", "setAck"},
                                value : Int]),
                  application : Seq([do : {"value", "distance", "changed"}, value : Int]),
                  ends : Nat, defaults : [kinds -> Int]]

\* The driver refuses some of the messages of the diagnostic protocol.
ASSUME DiagnosticPlansAssumption ==
    \A plans \in DiagnosticPlans : "refusals" \in DOMAIN plans /\ plans.refusals \in Nat

tcVars == <<tcSetup, tcFaults, tc, toTC, fromTC, upload, tcServer>>
measureVars == <<ahead, refusals, clock, measured, data, client, trigger, phase, measurements>>
deviceVars == <<todo, pool, poolServer, last>>
diagnosticVars == <<plan, lists, flags, at, polled, responses, pending, suspension, sinceDM1, told>>
heartVars == <<enabled, tracked, others, heartFaults, heartPolled, noted>>
machineVars == <<machinePlan, sender, received, shown, stepped>>
buttonVars == <<button, heard, stopTold, trouble, updated>>
keyVars == <<keyPlan, keyOff, keyNotOff, sinceSent, sendFlag, ranSince, power>>
serviceVars == <<service, tcVars, measureVars, deviceVars, diagnosticVars, heartVars, machineVars,
                 buttonVars, keyVars>>

-----------------------------------------------------------------------------
Idle(variable) == variable = 0

NoSession == Idle(tcSetup) /\ Idle(tcFaults) /\ Idle(tc) /\ Idle(toTC) /\ Idle(fromTC)
                /\ Idle(upload) /\ Idle(tcServer)
NoMeasuring == Idle(ahead) /\ Idle(refusals) /\ Idle(clock) /\ Idle(measured) /\ Idle(data)
                  /\ Idle(client) /\ Idle(trigger) /\ Idle(phase) /\ Idle(measurements)
NoDevice == Idle(todo) /\ Idle(pool) /\ Idle(poolServer) /\ Idle(last)
NoDiagnostics == Idle(plan) /\ Idle(lists) /\ Idle(flags) /\ Idle(at) /\ Idle(polled)
                    /\ Idle(responses) /\ Idle(pending) /\ Idle(suspension) /\ Idle(sinceDM1)
                    /\ Idle(told)
NoHeartbeat == Idle(enabled) /\ Idle(tracked) /\ Idle(others) /\ Idle(heartFaults)
                  /\ Idle(heartPolled) /\ Idle(noted)
NoMachines == Idle(machinePlan) /\ Idle(sender) /\ Idle(received) /\ Idle(shown) /\ Idle(stepped)
NoButtons == Idle(button) /\ Idle(heard) /\ Idle(stopTold) /\ Idle(trouble) /\ Idle(updated)
NoKey == Idle(keyPlan) /\ Idle(keyOff) /\ Idle(keyNotOff) /\ Idle(sinceSent) /\ Idle(sendFlag)
            /\ Idle(ranSince) /\ Idle(power)

NoTaskController == NoSession /\ NoMeasuring /\ NoDevice
NoOther == NoDiagnostics /\ NoHeartbeat /\ NoMachines /\ NoButtons /\ NoKey

ServicesInit ==
    \/ service = "session" /\ Session!TCInit /\ NoMeasuring /\ NoDevice /\ NoOther
    \/ service = "measure" /\ Measure!MeasureInit /\ NoSession /\ NoDevice /\ NoOther
    \/ service = "device" /\ Device!DescriptorsInit /\ NoSession /\ NoMeasuring /\ NoOther
    \/ /\ service = "diagnostic" /\ Diagnostic!DiagnosticInit
       /\ NoTaskController /\ NoHeartbeat /\ NoMachines /\ NoButtons /\ NoKey
    \/ /\ service = "heart" /\ Heart!HeartInit
       /\ NoTaskController /\ NoDiagnostics /\ NoMachines /\ NoButtons /\ NoKey
    \/ /\ service = "machine" /\ Machine!MachineInit
       /\ NoTaskController /\ NoDiagnostics /\ NoHeartbeat /\ NoButtons /\ NoKey
    \/ /\ service = "shortcut" /\ Shortcut!ButtonInit
       /\ NoTaskController /\ NoDiagnostics /\ NoHeartbeat /\ NoMachines /\ NoKey
    \/ /\ service = "key" /\ Key!KeyInit
       /\ NoTaskController /\ NoDiagnostics /\ NoHeartbeat /\ NoMachines /\ NoButtons

\* A step of one service leaves the others idle.
Except(s, step, idle) == service = s /\ step /\ UNCHANGED <<service, idle>>

taskVars == <<tcVars, measureVars, deviceVars>>
InSession(work) ==
    Except("session", work, <<measureVars, deviceVars, diagnosticVars, heartVars, machineVars, buttonVars, keyVars>>)
InMeasure(work) ==
    Except("measure", work, <<tcVars, deviceVars, diagnosticVars, heartVars, machineVars, buttonVars, keyVars>>)
InDevice(work) ==
    Except("device", work, <<tcVars, measureVars, diagnosticVars, heartVars, machineVars, buttonVars, keyVars>>)
InDiagnostic(work) ==
    Except("diagnostic", work, <<taskVars, heartVars, machineVars, buttonVars, keyVars>>)
InHeart(work) == Except("heart", work, <<taskVars, diagnosticVars, machineVars, buttonVars, keyVars>>)
InMachine(work) == Except("machine", work, <<taskVars, diagnosticVars, heartVars, buttonVars, keyVars>>)
InShortcut(work) == Except("shortcut", work, <<taskVars, diagnosticVars, heartVars, machineVars, keyVars>>)
InKey(work) == Except("key", work, <<taskVars, diagnosticVars, heartVars, machineVars, buttonVars>>)

ServicesNext ==
    \/ InSession(Session!TCNext) \/ InMeasure(Measure!MeasureNext) \/ InDevice(Device!DescriptorsNext)
    \/ InDiagnostic(Diagnostic!DiagnosticNext) \/ InHeart(Heart!HeartNext)
    \/ InMachine(Machine!MachineNext) \/ InShortcut(Shortcut!ButtonNext) \/ InKey(Key!KeyNext)

\* What the service that runs, and the time, go on doing.
ServicesWork ==
    \/ InSession(Session!TCSystem) \/ InMeasure(Measure!Worker)
    \/ InDiagnostic(Diagnostic!DiagnosticRuns) \/ InHeart(Heart!HeartRuns)
    \/ InMachine(Machine!MachineRuns) \/ InShortcut(Shortcut!ButtonsRun) \/ InKey(Key!KeyRuns)

ServicesSpec == ServicesInit /\ [][ServicesNext]_serviceVars /\ WF_serviceVars(ServicesWork)

-----------------------------------------------------------------------------
\* Properties of each service, in the behaviours that run it

\* A connected client's own pool is the active one, not an older one, and a
\* client's pool gets activated in the end, and again after every fault, unless the
\* client gave up for good (OwnPoolActive and Activated of TCSession).
OwnPoolGetsActive ==
    /\ [](service = "session" => Session!TCTypeOK /\ Session!OwnPoolActive)
    /\ []<>(service = "session" => Session!Activated)

\* A value beyond a limit, far enough from the last one, or overdue is told in the
\* end; a threshold counts as passed only when the server heard of it; and the set
\* point is the one the server commanded last (TCMeasurements).
MeasurementsTold ==
    /\ [](service = "measure" => Measure!ReportedWasSent /\ Measure!LastCommandWins)
    /\ []<>(service = "measure" => ~Measure!Untold)

\* A device descriptor pool that arrives whole is read object for object as it was
\* built, one that is cut off is refused and changes no other object, and the
\* geometry of an implement names every section exactly once (DeviceDescriptors).
PoolReadAsBuilt ==
    /\ [](service = "device" => Device!ReadAsBuilt /\ Device!EverySectionOnce)
    /\ [][service = "device" => Device!CutIsRefused]_serviceVars

\* A trouble code is in one list and there once, a DM1 shows the lamps its codes
\* want, and each request to clear a code has its one answer (Diagnostics). A code
\* that becomes active is reported in a DM1, or is active no more: a suspension ends
\* by itself and a refused message is repeated. And an answer that waits alone is
\* sent in the end, unless another joins it.
TroubleCodesTold ==
    /\ [](service = "diagnostic" =>
             Diagnostic!DTCsOnce /\ Diagnostic!EveryClearOneAnswer /\ Diagnostic!LampsAsReported)
    /\ [][service = "diagnostic" /\ Diagnostic!OneAnswerWaits =>
             Diagnostic!OneAnswerWaits' \/ Len(responses') # 1]_serviceVars
    /\ []<>(service = "diagnostic" => ~Diagnostic!OneAnswerWaits)
    /\ \A code \in Diagnostic!Codes :
          []<>(service = "diagnostic" => Diagnostic!ActiveIsReported(code))

\* No time-out is told of a sender that was heard in time; and a heartbeat that is
\* asked for goes on and on while the interface stays enabled, whatever is received,
\* lost, refused or asked for again in between (Heartbeat).
HeartbeatsWatched ==
    /\ [](service = "heart" => Heart!NoFalseTimeout)
    /\ [][service = "heart" /\ Heart!Asked => Heart!Asked' \/ Heart!Kept']_serviceVars
    /\ []<>(service = "heart" /\ Heart!Asked => Heart!Kept)

\* What is received of a machine is what it sent, field by field; an application
\* that redraws when it is told of a change shows what is received; and a machine
\* that left is forgotten, however many others go on sending (MachineMessages).
MachinesAsSent ==
    /\ [](service = "machine" => Machine!ReadAsSent /\ Machine!ChangesTold)
    /\ <>[](service = "machine" => Machine!LeaversForgotten)

\* The application of a stopped implement was told so; a stop is lifted by the button
\* that gave it, or when that was silent for the time-out; and when all buttons stay
\* released or have left, the implement may work again for good (ShortcutButton).
StopHonoured ==
    /\ [](service = "shortcut" => Shortcut!StopTold)
    /\ [][service = "shortcut" => Shortcut!LiftedByItsButton]_serviceVars
    /\ <>[](service = "shortcut" => Shortcut!AllReleased) => <>[](service = "shortcut" => Shortcut!MayWork)

\* The tractor never waits too long for the message that keeps its power on, and
\* the application hears of each turn of the key once (KeySwitch).
PowerKept == service = "key" => Key!PowerKept /\ Key!EachTurnTold
=============================================================================
