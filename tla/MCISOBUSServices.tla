-------------------------- MODULE MCISOBUSServices --------------------------
\* The small instances of every service; those with many values are modules of
\* their own.
EXTENDS ISOBUSServices

\* What the values are built from, apart from the constants they are for.
SessionNames == INSTANCE TCSession WITH TCSetups <- {}, TCFaults <- {}, server <- tcServer
DeviceValues == INSTANCE MCDeviceDescriptors WITH Builds <- {}, Dropped <- {}, server <- poolServer
MachineNames == INSTANCE MachineMessages WITH MachinePlans <- {}

MCBuilds == DeviceValues!MCBuilds
MCDropped == DeviceValues!MCDropped

\* Codes that share a code with different lamps, raised, lowered, cleared by two
\* tools and by a violation; suspensions by a tool and by the application.
Dtc(code, light, flash) == [code |-> code, lamp |-> [light |-> light, flash |-> flash]]
Does(do, dtc) == [do |-> do, dtc |-> dtc]
Suspends(seconds) == [do |-> "suspend", seconds |-> seconds]
Clears(from, code, active) == [kind |-> "DM22", from |-> from, code |-> code, active |-> active]
Requests(from, pgn, toAll) == [kind |-> "request", from |-> from, pgn |-> pgn, toAll |-> toAll]
Dm13(own, link, signal, seconds) == [kind |-> "DM13", own |-> own, link |-> link, signal |-> signal, seconds |-> seconds]
DiagnosticPlan(j1939, network, software, refuses, application, bus) ==
    [j1939 |-> j1939, network |-> network, software |-> software, refusals |-> refuses,
     application |-> application, bus |-> bus]

AmberFast == Dtc(1, "amber", "fast")
AmberSlow == Dtc(1, "amber", "slow")
RedSolid == Dtc(2, "red", "solid")
NoLamp == Dtc(3, "none", "solid")

MCDiagnosticPlans ==
    {DiagnosticPlan(TRUE, 3, FALSE, 2, <<Does("raise", AmberFast), Does("raise", AmberSlow)>> \o after,
                    <<Clears("tool", 1, TRUE), Clears("other", 1, FALSE), Clears("tool", 4, TRUE)>>) :
        after \in {<<Does("raise", AmberFast)>>, <<Does("lower", AmberFast)>>}}
      \union
    {DiagnosticPlan(FALSE, network, FALSE, 1, <<Does("raise", RedSolid), Does("violation", NoLamp)>>,
                    <<Dm13("leave", link, signal, 5), Requests("tool", pgn, FALSE), Requests("other", pgn, TRUE)>>) :
        network \in {2, 10}, link \in {"stop"}, signal \in {"temporary", "indefinite"}, pgn \in {"product", "software"}}
      \union
    {DiagnosticPlan(TRUE, 3, TRUE, 1, <<Suspends(3), Does("raise", AmberSlow), Does("lower", RedSolid), Does("violation", NoLamp)>>,
                    <<Requests("tool", r[1], FALSE), Requests("tool", r[2], TRUE), Dm13("stop", "start", "none", 0)>>) :
        r \in {<<"DM11", "DM1">>, <<"DM2", "DM3">>, <<"software", "protocol">>, <<"ecu", "unknown">>}}

\* The task controller's session: two pools that differ in one label, at a server
\* that has none or one of them, with one fault of each kind, or a reupload with
\* one fault.
NoFaults == [k \in SessionNames!TCFaultKinds |-> 0]
MCTCFaults ==
    {[NoFaults EXCEPT ![k] = 1] : k \in SessionNames!TCFaultKinds}
       \union {[NoFaults EXCEPT !["reupload"] = 1, ![k] = 1] : k \in SessionNames!TCFaultKinds \ {"reupload"}}
First == <<"a", "en">>
Seconds == {<<"a", "de">>, <<"b", "en">>}
Given(ddop, mode) == [ddop |-> ddop, mode |-> mode]
MCTCSetups ==
    {[stored |-> s, echo |-> e, measures |-> TRUE, pools |-> p] :
        s \in {SessionNames!NoPool, First, <<"a", "de">>}, e \in BOOLEAN,
        p \in {<<Given(First, "objects"), Given(<<"a", "de">>, "pointer")>>,
               <<Given(First, "pointer"), Given(<<"b", "en">>, "objects")>>}}
      \union
    {[stored |-> SessionNames!NoPool, echo |-> TRUE, measures |-> FALSE,
      pools |-> <<Given(First, "objects"), Given(p, "vector")>>] : p \in Seconds}

\* Thresholds, a change trigger and a time trigger, set, replaced and cleared
\* while the value rises and falls; requests and commands with and without
\* acknowledgement; the defaults.
Sends(command, value) == [command |-> command, value |-> value]
Value(v) == [do |-> "value", value |-> v]
Distance(d) == [do |-> "distance", value |-> d]
Changed == [do |-> "changed", value |-> 0]
Plan(server, application, ends) ==
    [server |-> server, application |-> application, ends |-> ends,
     defaults |-> [max |-> 2, min |-> 2, change |-> 2]]

MCMeasurePlans ==
    {Plan(<<Sends("max", 1), Sends("max", m), Sends("min", 1)>>, <<Value(2), Value(a), Value(3)>>, 0) :
        m \in {0, 2}, a \in 0..1}
      \union
    {Plan(<<Sends("change", c), Sends("time", 1), Sends("request", 0)>>, <<Value(1), Value(-2), Value(3)>>, 1) :
        c \in 1..2}
      \union
    {Plan(<<Sends("set", 1), Sends(a, 2), Sends(b, 3)>>, <<Changed, Distance(2)>>, 1) :
        a \in {"set", "setAck"}, b \in {"set", "setAck"}}
      \union
    {Plan(<<Sends("min", 2), Sends("default", 0), Sends("distance", 2)>>, <<Value(3), Distance(2), Value(1)>>, 1)}

\* Heartbeats are refused or lost, or their interface is switched off and on.
MCHeartFaults == {[refused |-> 1, lost |-> 1, disabled |-> 0], [refused |-> 1, lost |-> 0, disabled |-> 2]}

\* Two shortcut buttons; frames are lost or refused, a button is pressed and
\* released, one may leave while it stops.
MCButtonFaults ==
    [refused : {0}, lost : {1}, pressed : {2}, leaves : {{}, {"isb1"}}, numbers : {[isb1 |-> 0, isb2 |-> 1], [isb1 |-> 2, isb2 |-> 3]}]
      \union [refused : {1}, lost : {0}, pressed : {3}, leaves : {{"isb2"}}, numbers : {[isb1 |-> 3, isb2 |-> 0]}]

\* The key is turned four times, with power asked for at once, for a while or long.
MCKeyPlans == [time : {0, 1500, 4000}, turns : {4}, refused : {1}]

\* Each message of the machine with values at the ends of its fields.
MessageValues(message) ==
    CASE message = "wheel" ->
            <<[speed |-> 64255, distance |-> MachineNames!Distance(65535, 64255), power |-> 254, direction |-> 1, key |-> 1, start |-> 0, reversed |-> 2],
              [speed |-> 64256, distance |-> MachineNames!Distance(0, 64256), power |-> 254, direction |-> 1, key |-> 1, start |-> 1, reversed |-> 2]>>
      [] message = "selected" ->
            <<[speed |-> 257, distance |-> MachineNames!Distance(256, 1), exit |-> 0, direction |-> 2, source |-> 4, limit |-> 3],
              [speed |-> 257, distance |-> MachineNames!Distance(256, 1), exit |-> 0, direction |-> 2, source |-> 5, limit |-> 3]>>
      [] message = "ground" ->
            <<[speed |-> 1, distance |-> MachineNames!Distance(65535, 65535), direction |-> 0],
              [speed |-> 1, distance |-> MachineNames!Distance(1, 2), direction |-> 1]>>
      [] message = "speed command" ->
            <<[speed |-> 65535, limit |-> 64255, direction |-> 1], [speed |-> 300, limit |-> 300, direction |-> 0]>>
      [] message = "guidance command" ->
            <<[curvature |-> 32127, status |-> 1, estimated |-> 0], [curvature |-> -32128, status |-> 0, estimated |-> 0]>>
      [] message = "guidance info" ->
            <<[curvature |-> -1, lockout |-> 1, ready |-> 2, input |-> 0, reset |-> 1, limit |-> 6, exit |-> 62, engage |-> 1],
              [curvature |-> 255, lockout |-> 0, ready |-> 1, input |-> 2, reset |-> 0, limit |-> 1, exit |-> 0, engage |-> 2]>>
      [] message = "power" ->
            <<[actuator |-> 1, ecu |-> 0, work |-> 1, ready |-> 0, park |-> 2, transport |-> 1],
              [actuator |-> 0, ecu |-> 1, work |-> 0, ready |-> 1, park |-> 0, transport |-> 2]>>

MCMachinePlans ==
    {[message |-> message, values |-> [m \in Machines |-> IF m = "a" THEN MessageValues(message) ELSE <<>>],
      faults |-> 1, leaves |-> "a"] :
        message \in {"wheel", "selected", "ground", "speed command", "guidance command", "guidance info", "power"}}
=============================================================================
