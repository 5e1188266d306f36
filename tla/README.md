# A TLA+ verification of the 1200PT planter controller and its ISOBUS stack

The repository holds AgIsoStack++, an ISOBUS (ISO 11783) library in C++
(`isobus/`, `hardware_integration/`, `utility/`), and a firmware built on it,
`examples/1200PT`: the controller of a planter that folds and lifts a machine
with hydraulic solenoids, regulates a fan and a vacuum, and shows buttons on a
tractor's virtual terminal. This directory holds TLA+ models of both: of the
parts that decide whether the machine moves when it should not, and of the
protocols by which an implement, its terminal and its task controller come to
agree. TLC checks the models; TLAPS checks proofs about the firmware, the
transports, the addresses, the terminal and some of the services.

`PROJECT.json` lists components, runs, mutants (a plausible bug per property
that its run must catch), the map from definitions to source lines, findings,
hazards and theorems. Comments name the code; definitions keep its names.

## 1. Inventory

### Firmware (`examples/1200PT`)

Two threads matter. `app_main` boots the output boards, starts the CAN stack and
loops every 100 ms. The virtual-terminal client's thread delivers key and button
events, one handler at a time. What they share is protected unevenly.

| Part | State | Operations | What makes it correct |
|---|---|---|---|
| Output boards (`mcp23017_output.cpp`, `mcp23017_output_safety.h`) | latches and directions of two expanders, board health, the bus mutex | register write, fault latch, relay polarity | a fault never lets a solenoid be energised; the mutex is always given back |
| Sequencer (`fold_sequence.cpp`) | `currentState`, `currentStep` (no lock) | boot, start a fold or unfold action, cancel | one action's solenoids at a time, from all-off; what fails is switched off |
| Plant control (`plant_control.cpp`) | current mode | lift, lower, apply mode | outputs are those of some request |
| Interlock and buttons (`main.cpp`, `ui_state.h`, `lockout_feedback.h`) | inhibit flag, lit button, lockout text | sample fault, exchange inhibit, cancel, reset buttons, handlers | a lockout comes, sticks, and the lit button is the running action |
| Fan and vacuum (`fan_vac_control.cpp`) | targets, readings, duties, PID terms, power, fault | update, buttons | targets and duties in range, power buttons obeyed, no drive after a fault |
| Calibration (`calibration_settings.h`, `main.cpp`) | points in memory and in flash | load, save with a way back, derive the position | points ordered and in range, a restart finds what was saved |

### Library (`isobus/src`, `hardware_integration/src`)

An application works with objects (terminal client, task controller client,
diagnostic protocol, ...) that each have their data, a cyclic `update` (in a
worker thread, or from the network manager), and handlers the network manager
calls for the messages of their parameter groups. They send through the network
manager, which cuts long messages with one of three transport protocols and
hands frames to the hardware interface. The parts meet at the bus and in "I have
an address", not in shared data; the hard behaviours are inside a part and its
counterpart: threads without a lock, frames that are lost, refused or late,
restarts of either side, and what one session leaves for the next.

| Part | State | Operations | What makes it correct |
|---|---|---|---|
| Hardware interface | two rings per channel, two threads, a lock | receive, transmit, update, start, stop, assign | every frame handed on once, in order; stops and starts return |
| Address claiming and control-function table | claim state, table, inactive list, partners | receive a claim, work off the queue, claim, prune, find a partner | distinct addresses, tables that agree, an end to the claims |
| Transport, extended transport, fast packet | sessions per node | submit, receive each control message, update, time out | whole messages once, honest outcome, no session for ever |
| VT client: session and upload | connection state, upload state per pool, version label | update, replies, callback of the transport, restart | connected means that every pool is in the terminal; gets connected again |
| VT client: scaling | raw pools, fonts, factors | walk, resize | the same pool at another size |
| VT client: command queue | queue, flag "awaiting an answer" | every `send_` function, worker pass, answers | the newest command of a destination is not lost, the queue drains |
| VT client: operator, tracker, update helper | copy of numbers and masks | events, status, set, step | the copy is what the terminal shows |
| VT client: auxiliary inputs | assignments, values and states of own inputs | assign, unassign, update, enable | both sides agree; the last value is sent |
| VT server and working set | object tree, parsing thread, stored versions, focus | parse, every command, macros, load, store, delete | the tree is the pool, and a valid one; one answer per command, in order |
| TC client and server: session | state machine, labels, pool | update, messages of both sides, reupload, restart, terminate | the active pool is the client's own |
| TC client: measurements | queues, triggers of five kinds | commands, requests, the worker's passes | what should be told is told; last command wins |
| Device descriptors | objects, compatibility level | edit, write, read, XML, implement geometry | read as built, or refused |
| Diagnostic protocol | two lists of codes, flags, suspension, answers | raise, lower, requests, clear, suspend, update | codes once, one answer each, reported in the end |
| Heartbeat | tracked senders, counters | request, send, receive, update | no false time-out; goes on while enabled |
| Speed, guidance, power messages | one record per sender | set, send, receive, prune | read as sent; changes told; leavers forgotten |
| Key switch (maintain power) | times of the turns, flag | receive, update | power is kept long enough, turns are told once |
| Shortcut button | list of buttons with their transition numbers | set, send, receive, update | a stop is told and only ended by its button |

Every part, with its files and the reason when it is not or only partly
modelled, is in `PROJECT.json`, `components`. `hazards` lists what is hard to
test, each at its line with the properties that would catch it; neighbouring
hazards that one property catches are one entry.

## 2. Modules

| Module | Models | Used by |
|---|---|---|
| `SolenoidOutputs` | solenoids, ports, action and plant tables, relay levels | `PlanterHydraulics` |
| `PlanterHydraulics` | boards, bus mutex, sequencer, plant control, handlers, interlock, boot and restart: one composition of two threads | the planter runs, `PlanterHydraulicsProofs` |
| `FanVacControl` | both control loops against the event thread | `MCFanVacControl`, `FanVacControlProofs` |
| `CalibrationStore` | calibration points, flash, display position | its run, `CalibrationStoreProofs` |
| `MessageTransfer` | what a transport promises the code above it | refined by the three protocols |
| `TransportProtocol` | the sessions of every node, the bus, the callers' threads | `NetworkTransports` |
| `ExtendedTransportProtocol` | as above, without threads | `NetworkTransports` |
| `FastPacketProtocol` | its sessions, frames and timeouts | `NetworkTransports`, `FastPacketProtocolProofs` |
| `CANHardwareInterface` | rings, receive and update thread, senders, start and stop | `NetworkTransports` |
| `NetworkTransports` | the three managers of a port side by side, and the interface below | `MCTransportProtocol`, `TransportProtocolProofs` |
| `AddressClaim` | claim state machine and table of every node, the bus | `MCAddressClaim`, `AddressClaimProofs` |
| `VTObjects` | the object types: attributes to read and set, validity | `VTPoolParser` |
| `VTPoolParser` | the terminal's parser of raw pools | `VTServerCommands`, `VTScaling` |
| `VTServerCommands` | the terminal's command handlers, answers, macros | `VirtualTerminal` |
| `VTScaling` | the client's walk over its raw pools, sizes and fonts | `VirtualTerminal` |
| `VTSession` | connection, upload, versions, both sides and the parsing thread | `VirtualTerminal` |
| `VTCommandQueue` | the client's queue and its three threads | `VirtualTerminal` |
| `VTOperator` | the operator's events, tracker and update helper | `VirtualTerminal` |
| `VTAuxiliary` | auxiliary assignments and own inputs | `VirtualTerminal` |
| `VirtualTerminal` | the terminal and its client, part by part | `MCVirtualTerminal`, `VirtualTerminalProofs` |
| `TCSession`, `TCMeasurements`, `DeviceDescriptors` | the task controller, both sides | `ISOBUSServices` |
| `Diagnostics`, `Heartbeat`, `MachineMessages`, `ShortcutButton`, `KeySwitch` | one service each | `ISOBUSServices` |
| `ISOBUSServices` | the services, one by one | `MCISOBUSServices`, `ISOBUSServicesProofs` |

The modules whose name begins with `MC` hold the instances; those of a part with
many values have one of their own, which the composition's takes them from. The
modules whose name ends in `Proofs` hold theorems and nothing a run uses.

Operators whose name ends in a word after an underscore and whose comment
begins with "Mutant" or "Wrong variant" are used by no specification; they are
the plausible bugs of `mutants`.

`VirtualTerminal` and `ISOBUSServices` run one part in each behaviour and leave
the variables of the others idle. The parts keep separate data in the code, and
what one gives another (being connected, having an address, a bus that refuses)
is an input of the other's model; interleaving them would multiply the states
and add no behaviour of either. `NetworkTransports` is a product of that kind
too: a scenario says which messages are sent, and so which protocols run.

### PlanterHydraulics

A step of a thread is at most one access to shared state. A critical section is
a `job`: the row to write, the next port, the port at which a failure turns the
rest into switch-offs. `WriteRegister` may fail, and a write that fails may have
reached the chip. `main` boots (`Probe`, `Preload`, `Direct`, `BootOff`,
`CanStart`), initialises plant control and loops (`SampleFault`,
`ExchangeInhibit`, `FaultOff`, `FaultReset`, `update_lockout_feedback`). `vt`
runs action buttons (`PressAction` to `ActivateRet`), navigation and plant
buttons. `Restart` starts the memory afresh and keeps the boards' registers.
Abstractions: the sequencer's state and step are one variable (they are two
adjacent statics written together); terminal events only come once the main loop
runs, since the client is started right before; the terminal's display is left
out except for the lit button and the lockout text.

### FanVacControl

`fan_vac_update` is cut at every access to what the buttons write: power,
PID terms, duty, fault, state. `pid_compute` is one step; its gains are
multiples of 0.05 and kept as integers in twentieths, so no floating point is
needed. The pulse counter, its interrupt and the ADC are an arbitrary reading.

### CalibrationStore

Loading (with its checks and defaults), saving (`SetValue`, `Commit`, and the way
back `UndoSet`, `UndoCommit`), the display update that derives the position a
save stores (two reads of the sequencer with no lock), and restarts at any
moment. `fellBack` remembers which points of a pair that was out of order in the
flash have the default in memory only, because nothing was saved since. The flash (ESP-IDF NVS) is external: a staged value may become durable
before its commit, a failed commit may have made any part durable, the store may
be unusable or erased at a boot.

### TransportProtocol and MessageTransfer

Every node has its list of sessions with the code's counters (8 bits, `% 256`),
and an inbox in bus order. Each handler and each update of a session is an
action; `protocol_transmit_message` is cut where it takes and gives the lock
(check, insert, serve, set the state). Frames carry no message identity in the
code; the model's packets do, as history, so that a mixed-up message is visible.
A handler's frames are accepted or refused together, and the validity of an
address is seen by all nodes at once. A scenario whose `threaded` is `FALSE` is
the build with `CAN_STACK_DISABLE_THREADS`: a call runs to its end.

A timeout (750 ms or 1250 ms) fires when no frame is on its way and no call is in
progress. Without this assumption the promise does not hold: a late frame of a
transfer that was given up looks like one of the next transfer.

`MessageTransfer` is the abstract specification: accepted messages are handed
over whole, at most once per node, only where they belong, and "success" is
reported only after the hand-over. `TransferSpec` is checked as a property with
the mapping from delivered bytes to the message they are, `"garbled"` when they
are none.

### ExtendedTransportProtocol, FastPacketProtocol, NetworkTransports

The extended protocol has the same shape with windows that start where a DPO says,
and no lock at all, so a call is one step. Its upper bound on the length (117 million
bytes) is left out, no model comes near it. Fast packets have no handshake: the
receiver sees a gap only at the next message. A call takes the lock twice, to look
for a session (`SendCheck`) and to insert one (`SendInsert`); an update goes on with
a session it has just closed and may report it a second time (`twice`). Both
implement `MessageTransfer` (`ExtendedTransferSpec`, `FastTransferSpec`; for fast
packets "success" is "sent", and a second report is "failed" like the first).
`NetworkTransports` puts the three managers of a port and the hardware interface
side by side. They share the valid addresses, the budget of faults and the
scenario, which says who sends what and so who has work.

### CANHardwareInterface

The two rings with their indices, read and written at separate steps; the receive
thread with the frame in its hand; the update thread with its bound per pass; the
threads that call `transmit_can_frame` between loading the write index and storing
it; `start` and `stop` with the lock and the joins. `scenario.hardware` says which
frames come, which are sent and how often the interface is stopped. The driver is
external: it may refuse to open, give a frame or none, take a frame or not.
`FramesHandedOn` is an invariant: what was given (written) and what still waits is
what was read (accepted). A frame that was handed on stays in its queue until the
pop, which the invariant says too. That the calls return and nothing waits for ever
(`InterfaceAtRest`) is part of `EveryTransferEnds`.

### AddressClaim

One internal control function per node, one port, at most one partner. A frame
that arrives changes the table at once (`update_control_functions`); the queued
message is worked off by the next `Update` (`update_new_partners`,
`process_rx_messages`, `update_address_claiming`, `update_internal_cfs`).
`MaxBatch` bounds the frames between two updates. A NAME is a number, a filter a
set of NAMEs, objects are identified as the C++ pointers are: the own one, one
external per NAME, the partner. The table has the slot 254 that the code writes
past the end of its row. A node receives its own requests, as
`process_transmitted_can_message_frame` arranges. The contention period is over
when every frame has been received and every request answered; the 755 ms before
pruning, when nobody has anything to do. Frames are refused per handler.

### VirtualTerminal

`VTSession`: the client's state machine (worker pass and receive handlers), the
upload with the transport's callback, versions and labels, and the server's
working set with its parsing thread. Frames, answers and power may be lost within
a budget; a time-out fires when nothing else that takes less can happen. A first
scaling that fails is left out: the state is set to `Failed`, but the same pass goes
on and sends the pool (`isobus_virtual_terminal_client.cpp:1568-1578`).
`VTScaling`: the walk over the raw pool, with the lengths the client computes; how
it ends is one of the outcomes, among them `"no length"` and `"no font"` for the two
ways it never does. `VTPoolParser`: every part of every object with its length and
whether the code compares it with what remains, so that cuts at any byte are inputs;
`AskedFor` and `ReadBeyond` list where the comparisons ask for too many or too few
bytes, and the two properties say what happens there too. `VTObjects`:
attribute tables. `VTServerCommands`: one action per command, a stack of packets
for macros. `VTCommandQueue`: an access of a thread to the queue or the flag is one
step; `accepted` is history, per destination: the newest command, whether it was
sent, and whether an older one may follow it (`overtaken`). `VTOperator`: events that
cross commands, in every protocol version. A call of the update helper compares,
sends and writes its copy in three steps (`CompareCopy`, `SendCommand`, `WriteCopy`),
between which the network thread hears a message in two (`TrackerHears`,
`ListenersHear`); `overwritten` is history: a late write replaced what was heard.
`VTAuxiliary`: the assignment table before and after version 6, own inputs with
their values and lock.

### ISOBUSServices

`TCSession` and `TCMeasurements` take the worker's pass and the handlers of the
client as actions and the server as the other side. `DeviceDescriptors` writes and
reads real bytes at the code's offsets. `Diagnostics`, `Heartbeat`,
`MachineMessages`, `ShortcutButton` and `KeySwitch` take each call of the
application, each received message and each `update` as an action; time advances in
steps that reach the next deadline of the code. A refused frame is an outcome of
every send.

## 3. Runs

| Run | Instance | Checks | Distinct states |
|---|---|---|---|
| `planter_safety` | two actions, two plant modes, active-low relays, one restart | `ActionFromAllOff`, `FailSafeOff`, `LockoutSticks`, `LitIsActive`, `OutputsExplained`, `ColdBootSilent`, `NoEnergiseUnderFault` | 1.7 million |
| `planter_liveness` | one action, one mode, active-high, fair | `FaultLeadsToLockout`, `HandlerReturns` | 262,000 |
| `planter_preload` | finding 1 | `PreloadReachesEveryPort` violated | |
| `fan_vac` | readings at rest, near the threshold and absurd, fair | `TargetInRange`, `DutyInRange`, `NoDriveAfterFault`, `RunningFollowsPower` | 443,000 |
| `fan_vac_off` | finding 2 | `OffStops` violated | |
| `calibration_safety` | two keys, valid, invalid and missing bytes, one restart | `TypeOK`, `PointsOrdered`, `RestartFindsSaved` | 2.0 million |
| `transport` | two nodes; messages of two and three packets, one and two PGNs, both directions, a broadcast, long and fast ones; faults of one or two kinds; the hardware interface with stops, new starts, a driver that fails, and two threads that send | `WindowsKept`, `OneSessionPerPair`, `TransferSpec`, `ExtendedTransferSpec`, `FastTransferSpec`, `EveryTransferEnds`, `FramesHandedOn` | 145,000 |
| `transport_threads` | finding 3 | `DeliveredComplete` violated | |
| `address_claim` | three nodes, or two with a restart, a refused frame, traffic, a commanded address, a partner; fair | `AddressesDistinct`, `TableAgrees`, `Settles` | 188,000 |
| `address_complete` | finding 4 | `CompleteHasAddress` violated | |
| `isobus_terminal` | the terminal and its client, part by part | `ScaledPoolFits`, `BothSidesAgree`, `TreeIsThePool`, `CommandsAnswered`, `ConnectsWithEveryPool`, `CommandsReachTerminal` | 782,000 |
| `isobus_services` | the other services, one by one | `PowerKept`, `OwnPoolGetsActive`, `MeasurementsTold`, `PoolReadAsBuilt`, `TroubleCodesTold`, `HeartbeatsWatched`, `MachinesAsSent`, `StopHonoured` | 561,000 |

A property of a composition is a conjunction of its part's own properties, each
under "this behaviour runs that part": `[](part = "session" => ...)`. The parts are
listed where the property is defined.

Bounds. The planter needs two actions so that one can replace another, two modes
so that a mode can replace a mode and meet an action, and one restart so that the
boot meets energised ports; each write may fail without bound. The fan's limits
are scaled so that two presses reach each end. Two keys are the two points whose
order matters. Messages of two and three packets with a window of two give a
transfer with one and with two windows; enough frames are lost in one scenario
that every wait is reached with the other end gone. Three nodes that prefer one of
three addresses force a winner, an arbitrary claim and a node that must give up;
two frames per batch let a second claim meet the state the first one left. Pools
contain each type of object, with a child, a macro and a list where the type has
them, and are cut at every byte. Two pools are what an upload needs to confuse one
with the other. Clocks run to the first value past the longest deadline of the
service. The runs with finitely many messages, calls or events end, so deadlock is
not checked there; the others check it.

Fairness. `planter_liveness`: strong fairness of both threads, because FreeRTOS
mutexes queue their waiters and an I2C transaction has a timeout. `fan_vac`: the
loop comes round and a handler that began ends. `transport`: both threads run, and
a wait that nothing ends is ended by its timeout. `address_claim`: every node's
stack thread runs. `isobus_terminal`, `isobus_services`: one weak fairness for the
work of the part that runs, which is enough since nobody else does: something is
done while there is something to do, and faults are finitely many. Operators,
applications, faults, restarts and the bus's losses are never assumed.

## 4. Findings

1. `planter_preload`: when the preload of port A of board 1 fails, port B is
   never written; after a warm restart it stays energised and nothing switches
   it off.
2. `fan_vac_off`: switching a drive off during the update that latches a fault
   leaves it driven for ever.
3. `transport_threads`: two threads that submit to one destination both pass
   `has_session`; a part of a message is handed over.
4. `address_complete`: a refused answer to a request makes the strongest NAME
   lose its address and report a completed claim with address 254.

Seen while modelling, with no run of their own:

- The fan's first update finds it at rest, under 80 % of its target, and latches
  the fault that ends regulation until a reboot.
- After a change of screen the tracked plant mode may be a lift with every
  solenoid off (`OutputsExplained` therefore admits "all off").
- A save reported as failed may change what the next boot loads, when the way
  back fails too; `calPosition` may come from a cancelled action.
- A boot that finds the stop point above the start point in the flash puts the
  defaults in memory and leaves the flash as it is (`calibration_settings.h:80-84`).
  If the operator then saves one point of the pair, the next boot compares it with
  the old other one. With 40 and 60 in the flash, a start point saved as 50 is
  dropped for the defaults again, and one saved as 70 brings the old stop point 60
  back. `RestartFindsSaved` says what a restart finds in every other case, and of the
  other keys in this one.
- At the session limit a new RTS is refused before the stale session of the same
  sender is looked for, and that session takes the next message's packets.
- Frames carry no identity: a loss together with a repeat or a refusal, a burst
  of lost broadcast frames, or an abort that also closes the other direction can
  garble or truncate a message. The runs keep these combinations apart, so what
  they show is tolerance of each kind by itself.
- With threads a call and an update may each send the RTS of one message
  (`protocol_transmit_message` serves its new session without the lock). The receiver
  starts over at the second RTS. The sender takes its CTS although it is further on,
  and `last - ack` exceeds the window: a transfer of two windows gets there without
  any fault, and with windows of three one of a single window does when the driver
  refuses a frame. The 8-bit difference wraps and the sender goes on beyond the end
  of the message. `WindowsKept` therefore claims `NoCounterWraps` for the build
  without threads only.
- With threads a broadcast may be announced twice in the same way. The second
  announcement leaves a reception open, and when the announcement of the next
  broadcast is lost its packets are taken for the first's: one message is handed over
  under the length of another. The scenario with threads has one broadcast.
- A partner created between a claim and the pruning starts unmarked and is
  dropped although it answered; so is a control function that came back from the
  inactive list, after two restarts. `TableAgrees` leaves nodes with a partner
  out for the first reason, and the run stays at one restart for the second.
- A commanded address compares NAMEs the other way round from its comment; the
  inactive list is never cleaned of those that came back.
- Two nodes at rest with one address. A node holds 1, is told to move to 2, and its
  driver refuses the claim: it begins anew and keeps 1 meanwhile. Another node, with
  a partner object that has no NAME yet, claims 1; in the first node's table the
  partner takes the slot before the contention is looked at
  (`can_network_manager.cpp:756`, then `:774`), so the contention does not see that
  the slot was the node's own, and `address_violation` answers only when complete.
  No other address is free and the "cannot claim" is refused as well: the node ends
  in UnableToClaim and still has 1. It takes two refusals, a command and a partner;
  found while looking for the invariant of `AddressesStayDistinct`, in a scenario of
  thirty-five steps. No scenario of the run has both a refused frame and a command.
- `CANHardwareInterface`: two threads that send at once load the same write index,
  and one accepted frame overwrites the other; the terminal client's worker and the
  update thread are two such threads. A frame whose push overlaps `stop()` survives
  the clearing and is sent after the next start. `queueCapacity` n holds n - 1
  frames. A driver that does not open at start never gets a receive thread. `stop()`
  from a listener joins its own thread.
- Extended protocol: a CTS repeated after its window was sent wraps the window
  (`WindowKept` is claimed while no frame is repeated); a sender that never got a
  CTS aborts, since its limit starts at 255. Fast packets: a comment says "Correct
  sequence number, copy the data", but no number is compared, so two lost frames or
  a repeated one deliver a garbled message; a refused first frame is a timeout. Two
  threads that submit fast packets of one PGN both pass `has_session`, as in finding 3
  (`nmea2000_fast_packet_protocol.cpp:158`, `:186`); and a message whose sender or
  receiver lost its address before a frame was sent, or after 750 ms without one, is
  reported as failed twice (`:198-208`, `:526-529`).
- Terminal server: `get_is_valid` is called by tests only; an output list's item
  must be a number variable although validity rejects that; the null ID passes the
  validity of an auxiliary control designator and is dereferenced; macro packets
  that do not have 8 bytes are skipped and success is answered; a macro that
  executes itself recurses without bound; `ChangePriority` answers success and
  stores nothing; several commands are never answered; the end of the pool is
  answered with success after a failed parse; the parsing thread and the handlers
  share the tree without a lock.
- Terminal client: the upload's outcome outlives its connection, so the next
  session may mark pool 1 as uploaded without sending it; a transfer that ends while
  disconnected strands the client in `UploadObjectPool`; a `set_state` after a NACK
  overwrites `Disconnected`; pools given as a vector pointer are ignored and marked
  uploaded. Queued commands of several functions replace one another although they
  are not the same command; `send_draw_polygon` writes only the first point.
  Validation by the state tracker never happens once it knows the server; the update
  helper's test of its callback's result is inverted.
- The scaling walk works with wrong lengths for four types, never ends on one, and
  divides by zero for a pool without scaling data when another asked for it. It never
  ends either at a terminal that lacks a font and the one below it: the search for the
  next smaller font (`isobus_virtual_terminal_client.cpp:3518-3527`) tries
  `originalFont - 1` again and again. The run reaches this with the fonts
  {0, 3, 5, 8, 10}; `WalkMeetsObjects` says in which cases, and only in which, the
  walk goes astray or does not end.
- The terminal's parser (`isobus_virtual_terminal_working_set_base.cpp`) refuses valid
  pools whose last object is short: a working set is taken with 10 bytes but needs 16
  left in the pool (`:143-155`), a data mask with 8 needs 12 (`:220-229`), an input
  string one more than it takes, and so do input attributes with an empty string; with
  more objects behind it the same object is accepted. And it reads behind a pool that was cut:
  the count of macros of a container, key group, output string or input attributes, a
  colour map, the macros or the pixels of a picture, and long lists of positions,
  whose length is kept in a byte. `WholeIsParsed` and `CutIsRefused` say so object by
  object; for every other cut they promise a refusal.
- The newest command is not always the last word. `queue_command` sends at once when
  nothing is awaited (`isobus_virtual_terminal_client.cpp:4536`), without a look at the
  queue. After a time-out or a reconnection an older command of the same destination
  may still wait there, is sent later (`:4667-4685`) and undoes the newer one on the
  terminal. A pass that has to leave a command because the wait began again may send a
  newer one behind it first, and a text replaces a waiting one of its own length only,
  which may stand before one of another length. `LatestNotLost` excuses these three
  (`overtaken`) and no others.
- The update helper writes its copy after the command was sent, without a lock
  (`isobus_virtual_terminal_client_update_helper.cpp:81-85`). When the network thread
  has meanwhile heard the answer and then a value the operator entered
  (`isobus_virtual_terminal_client_state_tracker.cpp:361`, `:376`), the late write puts
  the older value over it. The copy then differs from the display until the number
  changes again, and `set_numeric_value` of the stale value sends nothing.
  `NumberTracked` excuses a number that was written over (`overwritten`) until it is
  heard again; the run reaches it.
- Auxiliary inputs: a unit replaced by one of the same model code is not
  registered; a status triggers the first function with that input number at every
  unit.
- Task controller: the server echoes the label the client asked with, so a client of
  this stack never recognises its own stored pool; pools given as a vector are never
  uploaded; a reupload of objects ends with an empty pool; the search for the label
  may not end; a stored pool and `DeleteObjectPool` leave flags behind.
  `MeasurementsTold` excuses a threshold that the network thread sets anew between the
  worker's report and its mark (`raced`): the new one counts as passed untold.
  The default minimum threshold is stored as a bool; triggers that are replaced keep
  their old reference.
- Device descriptors: designators of 128 bytes and more are built and cannot be
  read; lowering the level later truncates nothing; only the first element below the
  device enters the geometry.
- Diagnostics: a suspension is stored as seconds in a field of milliseconds; the
  size of DM2 wraps at 64 codes; a refused first DM22 answer waits for the next
  request. Heartbeat: the new counter goes to the last sender tracked (the
  model has one, so this is not checked); the first 0
  after an initial 251 counts as invalid. Shortcut button: its time stamp is never
  updated, so it sends at every update. Speed: the limit status is sent with three
  bits and read with two (`ReadAsSent` compares two). Maintain power: the pending
  flag stays when the key is turned back; the error state ends the hold.

## 5. Proofs

For every value of the constants, from the assumptions named in the modules:

- `PlanterHydraulicsProofs`: `TypeCorrect`, `LockoutIsFinal` (`LockoutSticks`)
  and `Interlock` (`NoEnergiseUnderFault`). `LockoutSticks` is not inductive:
  it says nothing of a handler in flight. The inductive invariant `SafetyInv` adds
  who may hold the bus and with which kind of job (`BusInv`), that a fault finds
  the event thread outside the labels that lead to energising or with a job that
  already failed (`FaultInv`), what the main loop knows at each label
  (`MainInv`), that action handlers run for a real button (`ButtonInv`) and that
  nothing is active or about to be while an inhibit is acted on (`InhibitInv`).
  The interlock then follows step by step: under a fault every write is a
  switch-off, and a switch-off only shrinks what is energised, in both relay
  polarities (`WriteOffShrinks`).
  The same module proves `ActionsExclusive` (`ActionFromAllOff`), `FailSafe`
  (`FailSafeOff`), `LitMatchesSequence` (`LitIsActive`), `OutputsMatchRequests`
  (`OutputsExplained`) and `ColdBootIsSilent` (`ColdBootSilent`), from
  `OutputInvariant`. None of the five is inductive, because each is about moments
  between two writes. `OutputInv` says what every port shows at each label of the
  boot, of the main loop and of the handlers: what a section has written so far
  (`ProgressInv`), that the boot drives nothing and leaves every port an output
  (`BootInv`, `ColdInv`), that an action starts from all off (`ActionInv`), what lit
  button, sequencer and outputs have to do with each other at each label (`LitInv`,
  `ShownInv`), and that a port a section has passed after a fault is off or its own
  write failed (`SafeInv`). It needs `SafetyInv`: without it a handler could energise between a fault and the
  cancellation, and nothing could be said of the ports after either.
- `FanVacControlProofs`: `FanVacTypeCorrect`, `TargetsBounded`, `DutyBounded`,
  `FaultOnlyWeakens`, from `FanVacInv`, which adds that an output on its way to
  the PWM is within the duty limits and that a latched fault finds the update at
  rest. `LimitsAssumption` says that a target plus or minus its step fits 16
  bits, which the code's constants satisfy.
- `CalibrationStoreProofs`: `CalibrationTypeCorrect`, `PointsStayOrdered`,
  `SavedSurvives`, from `CalibrationInv`, which adds that a save under way has
  passed its checks against the points still in memory, and that as long as
  nothing failed the flash agrees with memory but for the value being saved and for
  the points that a boot replaced by their defaults in memory only (`fellBack`).
- `TransportProtocolProofs`: `TransportTypeCorrect` and `OneSessionPerPairHolds`
  (`OneSessionPerPair`) for any number of nodes, messages, threads, losses,
  repetitions and refusals, with the other managers and the interface beside, under
  `OneSenderPerNode`: one thread sends the messages of a node, or the stack has no
  threads. The hypothesis is what the code needs: `transport_threads` drops it and a
  message is handed over in part. `TransportInv` adds to the two properties: which
  states a transmission and which a reception can be in (a clear-to-send only meets
  the former because of that, and the broadcast address has no window); that a
  transmission carries the message of its ends, by which its caller finds it again;
  that a frame on its way comes from another node and, when it announces a message,
  has a length the receiver may take; that a thread between `has_session` and the
  insertion is the only one inside at its node and its pair is still free. No handler
  opens a transmission (`EffectOK`, `NoNewSession`), which keeps that last part true
  whatever the network thread does in between. Types are needed because the counters
  are bytes: every handler leaves bytes (`Bytes`, `Remaining`), so no index leaves
  the message. The model assumes that a size fits 16 bits and that a configured
  window fits a byte.
- `FastPacketProtocolProofs`: `FastPacketsImplementTransfer` (`FastTransferSpec`),
  the refinement of `MessageTransfer` for any number of nodes, messages of any size,
  PGNs and pairs of ends, under `OneSenderPerNode` (between a call's look for a
  session and its insertion another thread of the node inserts none) and `FewLosses`:
  in a scenario that sends fast messages no frame is lost, or one is, and then no frame is refused and no address goes. Any
  number of refusals, lost addresses and timeouts is allowed otherwise. The
  hypothesis is what the code needs: a receiver counts frames and never compares
  their numbers, so two interruptions can take the end of one message and the start
  of the next, and what is handed over is neither. The model repeats no fast frame
  for the same reason. The argument is about streams, one for each PGN and pair of
  ends: the frames on their way to a node and, behind them, the next frame of the
  session that sends (`Due`). "What was handed over is a message" is not inductive;
  `FastInv` adds
  - that a frame other than a first one comes after the frame it continues with no
    other of its stream in between (`Chained`), and continues what is kept when none
    comes before it, or that reception is short and stays so (`Continued`);
  - that the frames of a message are due once, in order and behind those that are
    kept (`Increasing`, `Ahead`), so that nothing is left of a message that was
    handed over (`HandedOnce`) or there of one not yet submitted (`NotYet`);
  - that all frames of a message still come while nothing was lost, refused or
    closed (`Completed`, while `Intact`), which makes the one loss harmless;
  - that a session that sends carries a message its caller waits for
    (`SentPending`), so an answer is given to a message that waits for one.

  `FastCallsOK` is about the calls: whoever found no session still finds none when it
  inserts its own, because neither a reception nor an update gives a node a new
  session of a stream it sends (`NoneOpened`). `AnswersOK` is about the answers given
  twice: both are "failed", and an address of the message is gone for good.

  Each thing that can happen to one node has a lemma (`ReceivedStep`, `LostStep`,
  `ClosedStep`, `AcceptedStep`, `SentStep`); a pass of `update` over several sessions
  is a composition of these. `NamesOf` maps what was handed over to the messages of
  the abstract module. Steps of the other managers and of the interface leave all of
  it alone or only count a fault (`OthersLeave`, `FaultsKept`). `FastAssumption`
  says that the fast messages are among the messages.
- The last part of `TransportProtocolProofs` is about the interface below:
  `FramesInOrder` (`FramesHandedOn`) for queues and passes of any length, any number of threads, and any stops, starts and failures of
  the driver. The rings first: what lies between the two indices is a sequence
  (`RingSeq`), which a store at the write index extends (`RingStored`), a pop shortens
  (`RingPopped`) and a clear empties (`RingCleared`); the remainders of the code are
  replaced by case distinctions once (`RingNext`, `RingContents`). `InterfaceInv` then
  adds that a frame which was handed on but not yet popped is still in its queue, that
  a frame in the receive thread's hand has room (`ReceivedOK`: the check of
  `receive_can_frame` was a step earlier, and only the reader has moved since), and
  that the index a lone sender loaded is still the write index, with room, when it
  stores (`WriterOK`), even when `stop` cleared the queue in between. `LockOK` keeps
  `stop` away from a pass. With several senders the queues stay rings (`RingTyped`)
  and the receiving half still holds; the sending half is conditional on
  `OneSends`, because the code's queue needs it. `CapacityAssumption` and
  `HardwareAssumption` give the types of the scenario.
- `AddressClaimProofs`: `AddressesStayDistinct` (`AddressesDistinct`) for any number
  of nodes, addresses, partners, restarts, arriving and refused frames, and any
  number of frames between two updates. "At rest no two nodes hold one address" is
  not inductive. `ClaimInv` adds what happens when two do (`ContentionsTold`): one of
  them is told, by a claim of the other on its way to it or in its queue, or because
  it is about to claim once more or to start over; that whoever holds an address is
  complete or about to be (`HoldersClaimed`), which is what `address_violation` asks;
  and that the claims in a queue are of others (`ClaimsOfOthers`). What the table
  makes of a claim does not matter, and it could not: a partner that takes a slot
  hides a contention, and the queued message still ends it. The hypothesis is what
  the code needs (`OneTrouble`): no scenario has both a driver that refuses frames
  and a tool that commands addresses; section 4 says how the two together end.
  An update works off its batch with a fold. `QueueTraced` shows, by counting up to
  the length of the queue, that the fold is what one gets by taking the messages one
  after the other, and `QueueHandled` that a fact every message keeps (`Serves`)
  holds after all of them.
- `ISOBUSServicesProofs`: `PowerIsKept` (`PowerKept`) for any time the application
  asks and any number of turns. `KeyInv` relates the two times the interface keeps,
  its flag, and what the tractor and the application heard, turn by turn (`TurnInv`),
  and bounds the gap since the last message (`GapInv`). `KeyPlansAssumption` allows
  one refused frame: with two in a row the tractor waits longer than two seconds.
  `MeasurementsAreTold` is the safety half of `MeasurementsTold`. `ReportedInv` adds
  the moment between sending and marking: a trigger the worker is about to mark was
  told to the server, unless the network thread set its limit anew in between.
  `CommandInv` is about what waits: the newest command in the queue, or the set point
  when none waits, is what was commanded last. `MeasurePlansAssumption` gives the
  types of what the server sends and the application calls.
  `TroubleCodesAnswered` is about the lists of trouble codes and the answers to
  requests to clear one. `ListsKept` says that no two entries of both lists share code
  and lamp; the searches return the first match or 0 (`Found`), so a move takes an
  entry from one list before it is in the other. `AnswersKept` counts, tool by tool:
  asked is answered plus waiting, through refusals that leave the oldest answers
  (`NewestSent`). The last conjunct follows from both and the order in which the
  flags are cleared and set again (`FlagsKeep`). `DiagnosticPlansAssumption` says
  that the driver refuses a natural number of times.
- `VirtualTerminalProofs`: `SidesAgree` (`BothSidesAgree`) for every protocol version
  and any sequence of events, calls, orders and lost answers. Its three parts:
  - What listeners hear: each kind of message is written and read back by its layout
    (`WordRead`, `LongRead`, `ErrorBits`), event by event (`KeyMeant` to `AudioMeant`);
    `Letters` says that only such messages are on their way.
  - The number: "equal once nothing is on its way" is not inductive. `NumberInv` adds
    that the last message under way that brings the number (an entry of the operator
    or an answer) brings the one that is shown, and that with no such message and no
    command for the number under way the copy is what is shown, or a late write of
    the helper has replaced what was heard. `WriteInv` is about a call between its
    send and its write: what changes the number is still on its way, so that the write
    is put right later, or the tracker has heard the number since the send (`late`),
    which is what `overwritten` records. `ListenersHear` may send for the correction of
    `process_numeric_value_change_event`, which compares with a copy that such a write
    may have changed in between.
  - The assignments: `Agreement` adds what holds while an order is on its way: the
    client did nothing of it yet or all of it, also when the answer was lost and the
    order comes once more, which it answers with "already assigned".

  `OperatorPlansAssumption` and `AuxPlansAssumption` give the types of the plans: IDs
  of 16 bits, codes as wide as their bits in the message. Numbers may be any natural
  number; the code's have 32 bits.

Only model-checked, and why:

- Liveness (`FaultLeadsToLockout`, `HandlerReturns`, `RunningFollowsPower`,
  `EveryTransferEnds`, `Settles`, and the temporal parts of the
  terminal and the services): fairness and ENABLED are outside the prover.
- The lamps of a DM1 (a fold over the list of codes), and the safety parts of the
  heartbeats, the machine messages and the shortcut button (`SelectSeq`): what these
  operators yield for every sequence is an induction over data.
- `WindowsKept`, and `TransferSpec` and `ExtendedTransferSpec`, the refinements of
  `MessageTransfer` by the protocols with a handshake: they relate the counters
  of one node to the frames under way and to the session at the other node, through
  every order of losses; the invariant would describe all of that at once.
- `TableAgrees`: the tables of all nodes agree after every order of claims, answers
  and prunings, and the invariant would have to follow each entry through all of them.
- The upload (`VTSession`), the parser, the scaling walk and the device descriptors:
  what a fold yields can be traced for one given operator, as for the batch of an
  update, but these are recursive over the data itself.
- `TreeIsThePool` and the other properties of the terminal: left to TLC.

## 6. Not modelled

- Functionalities, time and date, language and NMEA 2000 messages, the value types,
  the data dictionary: single messages or tables with no state that outlives them.
- Drivers, the utility library, the console logger: I/O and containers; what the
  models use of them is external.
- The planter's display (`ActionDisplay`): colours the main loop pushes at a
  reconnection while a handler changes them.
- The hardware interface's number of channels, manual update and listeners.

Hazards outside the models: the fan's pulse counter is cleared without disabling its
interrupt; the display reads the sequencer's state and action with two calls (the
calibration model has that, the display does not); the extended protocol has no
lock; callbacks run while `clientMutex` is held; the processing flags are not
synchronised; the guidance curvature's clamp tests another record; the number of
children of a device element is written as one byte.

## 7. Plan

1. Proofs: types and one session per pair for `ExtendedTransportProtocol`, whose
   handlers have the shape of those already proved about.
2. The refinement of `MessageTransfer` by `TransportProtocol` without repeated
   frames, with the streams of the fast packets extended by the windows.
3. Models: destroying control functions and the life of a partner; `ActionDisplay`;
   designator changes of the task controller; guidance and functionalities.
