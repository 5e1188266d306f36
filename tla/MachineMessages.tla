---------------------------- MODULE MachineMessages ----------------------------
\* The cyclic machine messages: speed and distance, guidance, maintain power. One
\* control function sends each of them every interval, another keeps the last one
\* of every sender until it is stale and tells its application.
\* Source: isobus_speed_distance_messages.cpp, isobus_guidance_interface.cpp,
\* isobus_maintain_power_interface.cpp.
EXTENDS Integers, Sequences, SequencesExt, FiniteSetsExt

CONSTANTS
    Machines,       \* the control functions that send
    MachinePlans    \* [message, values: what each machine's application sets, faults]

VARIABLES
    machinePlan,
    sender,     \* of each machine: its data, flag, ms since the last interval, silent
    received,   \* the listener's Seq of [from, data, age]
    shown,      \* history: what the listener's application shows of each machine, and
                \* what the machine last told the bus
    stepped     \* who has run an update since time passed

machineVars == <<machinePlan, sender, received, shown, stepped>>

SPEED_DISTANCE_MESSAGE_TX_INTERVAL_MS == 100
SPEED_DISTANCE_MESSAGE_RX_TIMEOUT_MS == 300
GUIDANCE_MESSAGE_TX_INTERVAL_MS == 100
GUIDANCE_MESSAGE_TIMEOUT_MS == 150
MAINTAIN_POWER_TIMEOUT_MS == 2000
SAEvl01_MAX_VALUE == 64255
SAEds05_MAX_VALUE == 64255      \* of the upper of a distance's two words
ZERO_CURVATURE_INVERSE_KM == 32128
CURVATURE_COMMAND_MAX == 32127  \* in quarters of an inverse km

Word(v) == <<v % 256, v \div 256>>
WordAt(b, i) == b[i + 1] + 256 * b[i + 2]
Bits(byte, at, width) == (byte \div 2^at) % 2^width
Rest(n) == [i \in 1..n |-> 255]
Distance(low, high) == [low |-> low, high |-> high]
DistanceBytes(d) == Word(d.low) \o Word(d.high)
DistanceAt(b, i) == Distance(WordAt(b, i), WordAt(b, i + 2))

\* What the accessors show of a value beyond the valid range.
ValidSpeed(v) == IF v > SAEvl01_MAX_VALUE THEN 0 ELSE v
ValidDistance(d) == IF d.high > SAEds05_MAX_VALUE THEN Distance(0, 0) ELSE d

-----------------------------------------------------------------------------
\* The messages: what a new one holds, the bytes that are sent and what is read.
\* A distance beyond 31 bits is two words.

WheelBasedMachineSpeedData ==
    [speed |-> 0, distance |-> Distance(0, 0), power |-> 0, direction |-> 3, key |-> 3, start |-> 3, reversed |-> 3]
send_wheel_based_speed(d) ==
    Word(ValidSpeed(d.speed)) \o DistanceBytes(ValidDistance(d.distance))
      \o <<d.power, d.direction + 4 * d.key + 16 * d.start + 64 * d.reversed>>
process_wheel_based_speed(b) ==
    [speed |-> WordAt(b, 0), distance |-> DistanceAt(b, 2), power |-> b[7],
     direction |-> Bits(b[8], 0, 2), key |-> Bits(b[8], 2, 2),
     start |-> Bits(b[8], 4, 2), reversed |-> Bits(b[8], 6, 2)]

MachineSelectedSpeedData ==
    [speed |-> 0, distance |-> Distance(0, 0), exit |-> 63, direction |-> 3, source |-> 7, limit |-> 7]
\* Bits 6 and 7 are set beside an exit code of seven bits.
send_machine_selected_speed(d) ==
    Word(ValidSpeed(d.speed)) \o DistanceBytes(ValidDistance(d.distance))
      \o <<192 + (d.exit % 64), (d.direction + 4 * d.source + 32 * d.limit) % 256>>
\* The limit has three bits, two of them are read.
\* Mutant: the speed source is read one bit too narrow.
process_machine_selected_speed_TwoBits(b) ==
    [speed |-> WordAt(b, 0), distance |-> DistanceAt(b, 2), exit |-> Bits(b[7], 0, 6),
     direction |-> Bits(b[8], 0, 2), source |-> Bits(b[8], 2, 2), limit |-> Bits(b[8], 5, 2)]
process_machine_selected_speed(b) ==
    [speed |-> WordAt(b, 0), distance |-> DistanceAt(b, 2), exit |-> Bits(b[7], 0, 6),
     direction |-> Bits(b[8], 0, 2), source |-> Bits(b[8], 2, 3), limit |-> Bits(b[8], 5, 2)]

GroundBasedSpeedData == [speed |-> 0, distance |-> Distance(0, 0), direction |-> 3]
send_ground_based_speed(d) ==
    Word(ValidSpeed(d.speed)) \o DistanceBytes(ValidDistance(d.distance)) \o <<255, 252 + d.direction>>
process_ground_based_speed(b) ==
    [speed |-> WordAt(b, 0), distance |-> DistanceAt(b, 2), direction |-> Bits(b[8], 0, 2)]

MachineSelectedSpeedCommandData == [speed |-> 0, limit |-> 0, direction |-> 3]
send_machine_selected_speed_command(d) ==
    Word(ValidSpeed(d.speed)) \o Word(ValidSpeed(d.limit)) \o Rest(3) \o <<252 + d.direction>>
process_machine_selected_speed_command(b) ==
    [speed |-> WordAt(b, 0), limit |-> WordAt(b, 2), direction |-> Bits(b[8], 0, 2)]

\* Curvatures are counted in quarters of an inverse km. The upper limit looks at
\* the estimated curvature of the machine, for a command too.
Encoded(curvature, estimated) ==
    IF estimated > CURVATURE_COMMAND_MAX THEN 32127 + ZERO_CURVATURE_INVERSE_KM
    ELSE IF curvature + ZERO_CURVATURE_INVERSE_KM < 0 THEN 0
    ELSE curvature + ZERO_CURVATURE_INVERSE_KM

GuidanceSystemCommand == [curvature |-> 0, status |-> 3, estimated |-> 0]
send_guidance_system_command(d) == Word(Encoded(d.curvature, d.estimated)) \o <<252 + d.status>> \o Rest(5)
process_guidance_system_command(b) ==
    [curvature |-> WordAt(b, 0) - ZERO_CURVATURE_INVERSE_KM, status |-> Bits(b[3], 0, 2), estimated |-> 0]

GuidanceMachineInfo ==
    [curvature |-> 0, lockout |-> 3, ready |-> 3, input |-> 3, reset |-> 3, limit |-> 7, exit |-> 63, engage |-> 3]
send_guidance_machine_info(d) ==
    Word(Encoded(d.curvature, d.curvature))
      \o <<d.lockout + 4 * d.ready + 16 * d.input + 64 * d.reset, 32 * d.limit, (d.exit % 64) + 64 * d.engage>> \o Rest(3)
process_guidance_machine_info(b) ==
    [curvature |-> WordAt(b, 0) - ZERO_CURVATURE_INVERSE_KM,
     lockout |-> Bits(b[3], 0, 2), ready |-> Bits(b[3], 2, 2), input |-> Bits(b[3], 4, 2), reset |-> Bits(b[3], 6, 2),
     limit |-> Bits(b[4], 5, 3), exit |-> Bits(b[5], 0, 6), engage |-> Bits(b[5], 6, 2)]

MaintainPowerData == [actuator |-> 3, ecu |-> 3, work |-> 3, ready |-> 3, park |-> 3, transport |-> 3]
send_maintain_power(d) ==
    <<15 + 16 * d.actuator + 64 * d.ecu, d.work + 4 * d.ready + 16 * d.park + 64 * d.transport>> \o Rest(6)
process_maintain_power(b) ==
    [actuator |-> Bits(b[1], 4, 2), ecu |-> Bits(b[1], 6, 2), work |-> Bits(b[2], 0, 2),
     ready |-> Bits(b[2], 2, 2), park |-> Bits(b[2], 4, 2), transport |-> Bits(b[2], 6, 2)]

New(message) ==
    CASE message = "wheel" -> WheelBasedMachineSpeedData
      [] message = "selected" -> MachineSelectedSpeedData
      [] message = "ground" -> GroundBasedSpeedData
      [] message = "speed command" -> MachineSelectedSpeedCommandData
      [] message = "guidance command" -> GuidanceSystemCommand
      [] message = "guidance info" -> GuidanceMachineInfo
      [] message = "power" -> MaintainPowerData

Bytes(message, d) ==
    CASE message = "wheel" -> send_wheel_based_speed(d)
      [] message = "selected" -> send_machine_selected_speed(d)
      [] message = "ground" -> send_ground_based_speed(d)
      [] message = "speed command" -> send_machine_selected_speed_command(d)
      [] message = "guidance command" -> send_guidance_system_command(d)
      [] message = "guidance info" -> send_guidance_machine_info(d)
      [] message = "power" -> send_maintain_power(d)

Read(message, b) ==
    CASE message = "wheel" -> process_wheel_based_speed(b)
      [] message = "selected" -> process_machine_selected_speed(b)
      [] message = "ground" -> process_ground_based_speed(b)
      [] message = "speed command" -> process_machine_selected_speed_command(b)
      [] message = "guidance command" -> process_guidance_system_command(b)
      [] message = "guidance info" -> process_guidance_machine_info(b)
      [] message = "power" -> process_maintain_power(b)

Guidance == {"guidance command", "guidance info"}
Interval(message) ==
    IF message = "power" THEN MAINTAIN_POWER_TIMEOUT_MS \div 2
    ELSE IF message \in Guidance THEN GUIDANCE_MESSAGE_TX_INTERVAL_MS ELSE SPEED_DISTANCE_MESSAGE_TX_INTERVAL_MS
Timeout(message) ==
    IF message = "power" THEN MAINTAIN_POWER_TIMEOUT_MS
    ELSE IF message \in Guidance THEN GUIDANCE_MESSAGE_TIMEOUT_MS ELSE SPEED_DISTANCE_MESSAGE_RX_TIMEOUT_MS

-----------------------------------------------------------------------------
MachineInit ==
    /\ machinePlan \in MachinePlans
    /\ sender = [m \in Machines |-> [data |-> New(machinePlan.message), flag |-> FALSE, age |-> 0, silent |-> FALSE]]
    /\ received = <<>>
    /\ shown = [m \in Machines |-> [data |-> New(machinePlan.message), sent |-> New(machinePlan.message)]]
    /\ stepped = Machines \union {"listener"}

Message == machinePlan.message
Entry(m) == SelectInSeq(received, LAMBDA e : e.from = m)

\* The set functions of the transmit data.
MachineSets(m) ==
    /\ machinePlan.values[m] # <<>>
    /\ sender' = [sender EXCEPT ![m].data = Head(machinePlan.values[m])]
    /\ machinePlan' = [machinePlan EXCEPT !.values[m] = Tail(@)]
    /\ UNCHANGED <<received, shown, stepped>>

\* Whether a set function changed anything. The fields of a speed command are set
\* without asking.
\* Mutant: only a change of the speed or the curvature counts.
Changed_FirstField(old, new) ==
    /\ Message # "speed command"
    /\ IF "speed" \in DOMAIN new THEN old.speed # new.speed ELSE old # new
Changed(old, new) == Message # "speed command" /\ old # new

\* The entry of the machine whose message arrives.
\* Mutant: every message keeps all entries fresh.
Refreshed_All(m, data) ==
    [i \in 1..Len(received) |-> [received[i] EXCEPT !.age = 0, !.data = IF received[i].from = m THEN data ELSE @]]
Refreshed(m, data) ==
    [i \in 1..Len(received) |->
        IF received[i].from = m THEN [received[i] EXCEPT !.age = 0, !.data = data] ELSE received[i]]

process_rx_message(m, bytes) ==
    LET data == Read(Message, bytes)
        old == IF Entry(m) = 0 THEN New(Message) ELSE received[Entry(m)].data
    IN  /\ received' = IF Entry(m) = 0 THEN Append(received, [from |-> m, data |-> data, age |-> 0])
                       ELSE Refreshed(m, data)
        /\ shown' = [shown EXCEPT ![m].data = IF Entry(m) = 0 \/ Changed(old, data) THEN data ELSE @,
                                  ![m].sent = sender[m].data]

process_flags(m, due) ==
    LET s == [sender[m] EXCEPT !.age = IF due THEN 0 ELSE @]
    IN  \/ /\ process_rx_message(m, Bytes(Message, s.data))
           /\ sender' = [sender EXCEPT ![m] = [s EXCEPT !.flag = FALSE]]
           /\ UNCHANGED machinePlan
        \/ /\ machinePlan.faults > 0
           /\ machinePlan' = [machinePlan EXCEPT !.faults = @ - 1]
           /\ \E lost \in BOOLEAN : sender' = [sender EXCEPT ![m] = [s EXCEPT !.flag = ~lost]]
           /\ UNCHANGED <<received, shown>>

update(m) ==
    /\ m \notin stepped
    /\ stepped' = stepped \union {m}
    /\ LET due == ~sender[m].silent /\ sender[m].age >= Interval(Message)
       IN  IF due \/ sender[m].flag THEN process_flags(m, due)
           ELSE UNCHANGED <<machinePlan, sender, received, shown>>

\* The listener's update drops what is stale.
update_received ==
    /\ "listener" \notin stepped
    /\ stepped' = stepped \union {"listener"}
    /\ received' = SelectSeq(received, LAMBDA e : e.age < Timeout(Message))
    /\ UNCHANGED <<machinePlan, sender, shown>>

\* A machine leaves the bus.
MachineLeaves(m) ==
    /\ machinePlan.leaves = m /\ ~sender[m].silent
    /\ sender' = [sender EXCEPT ![m].silent = TRUE, ![m].flag = FALSE]
    /\ UNCHANGED <<machinePlan, received, shown, stepped>>

\* Half an interval: all have run their update since the last one.
Aged(age) == Min({age + Interval(Message) \div 2, Timeout(Message)})
TimePasses ==
    /\ stepped = Machines \union {"listener"}
    /\ stepped' = {}
    /\ sender' = [m \in Machines |-> [sender[m] EXCEPT !.age = Aged(@)]]
    /\ received' = [i \in 1..Len(received) |-> [received[i] EXCEPT !.age = Aged(@)]]
    /\ UNCHANGED <<machinePlan, shown>>

MachineRuns == (\E m \in Machines : update(m)) \/ update_received \/ TimePasses
MachineNext == (\E m \in Machines : MachineSets(m) \/ MachineLeaves(m)) \/ MachineRuns

\* The applications call the updates cyclically, and time does not stand still.
MachineSpec == MachineInit /\ [][MachineNext]_machineVars /\ WF_machineVars(MachineRuns)

-----------------------------------------------------------------------------
\* What the listener holds of a machine is what that machine last got onto the
\* bus, field by field, with the values the accessors show; of the limit of a
\* selected speed only what two bits tell.
Accessible(d) ==
    [f \in DOMAIN d |-> IF f = "speed" \/ (f = "limit" /\ Message = "speed command") THEN ValidSpeed(d[f])
                        ELSE IF f = "distance" THEN ValidDistance(d[f])
                        ELSE IF f = "limit" /\ Message = "selected" THEN d[f] % 4 ELSE d[f]]
ReadAsSent ==
    \A i \in 1..Len(received) : Accessible(received[i].data) = Accessible(shown[received[i].from].sent)

\* An application that redraws only when it is told of a change shows what is
\* received, also when a machine is forgotten and comes back.
ChangesTold ==
    Message # "speed command" => \A i \in 1..Len(received) : shown[received[i].from].data = received[i].data

\* A machine that left is forgotten, however many others go on sending.
LeaversForgotten == \A m \in Machines : sender[m].silent => Entry(m) = 0
=============================================================================
