------------------------ MODULE CANHardwareInterface ------------------------
(***************************************************************************)
(* The layer between the CAN stack and the driver of one channel: a thread *)
(* that reads frames from the driver, a thread that updates the stack and  *)
(* writes frames to the driver, the threads that hand in frames to send,   *)
(* and the one that starts and stops it all.  The two queues are rings     *)
(* with an index each for reader and writer and no lock.                   *)
(* Source: can_hardware_interface.cpp, thread_synchronization.hpp.         *)
(***************************************************************************)
EXTENDS Integers, Sequences

CONSTANTS
    Callers,        \* application threads that send
    Capacity,       \* of the queues, 40 in the code
    MaxFrames       \* frames per channel and update, 24 in the code

VARIABLES
    scenario,       \* its field "hardware" is what will happen, see InterfaceInit
    left,           \* what of it is still to come
    started,
    lock,           \* who holds hardwareChannelsMutex
    control,        \* where start() or stop() is
    updating,       \* where the update thread is, and how many frames it handled
    receiving,      \* where the receive thread is, and the frame in its hand
    channel,        \* frameHandler assigned, receiveThreadRunning, get_is_valid()
    txQueue, rxQueue,   \* messagesToBeTransmittedQueue, receivedMessagesQueue
    sending,        \* per thread: where transmit_can_frame is, the index it loaded
    frames          \* history: accepted, written to and read from the driver, given
                    \* to the stack

interfaceVars == <<left, started, lock, control, updating, receiving, channel, txQueue,
                   rxQueue, sending, frames>>

Writers == Callers \union {"update"}
NoFrame == 0

-----------------------------------------------------------------------------
\* LockFreeQueue.

EmptyQueue == [buffer |-> [i \in 0..(Capacity - 1) |-> NoFrame], read |-> 0, write |-> 0]
nextIndex(current) == (current + 1) % Capacity
Empty(q) == q.read = q.write
is_full(q) == nextIndex(q.write) = q.read
Stored(q, index, frame) == [q EXCEPT !.buffer[index] = frame, !.write = nextIndex(index)]
peek(q) == q.buffer[q.read]
pop(q) == [q EXCEPT !.read = nextIndex(@)]
clear(q) == [q EXCEPT !.read = q.write]
Contents(q) ==
    [i \in 1..((q.write - q.read) % Capacity) |-> q.buffer[(q.read + i - 1) % Capacity]]

-----------------------------------------------------------------------------
\* At first the channel has its driver and nothing runs. The plan: the calls of the
\* controlling thread, the frames each thread sends and those that arrive, how often
\* the driver fails for good, or refuses a frame.
InterfaceInit ==
    /\ left = scenario.hardware
    /\ started = FALSE /\ lock = "free" /\ control = "idle"
    /\ updating = [at |-> "none", handled |-> 0]
    /\ receiving = [at |-> "none", frame |-> NoFrame]
    /\ channel = [assigned |-> TRUE, running |-> FALSE, valid |-> FALSE]
    /\ txQueue = EmptyQueue /\ rxQueue = EmptyQueue
    /\ sending = [t \in Writers |-> [at |-> "idle", index |-> 0]]
    /\ frames = [accepted |-> <<>>, written |-> <<>>, read |-> <<>>, given |-> <<>>]

Locks(who) == lock = "free" /\ lock' = who

\* The next call of the controlling thread is this one.
Calls(call) == control = "idle" /\ left.calls # <<>> /\ Head(left.calls) = call
Returns == left' = [left EXCEPT !.calls = Tail(@)]

\* start(): with the lock held, the update thread is created and waits for it, then
\* the driver is opened, which may fail, and its receive thread created.
start ==
    /\ Calls("start") /\ Locks("control") /\ control' = "starting"
    /\ UNCHANGED <<left, started, updating, receiving, channel, txQueue, rxQueue, sending, frames>>

start_threads ==
    /\ control = "starting" /\ control' = "opening"
    /\ started' = TRUE
    /\ updating' = IF updating.at = "none" THEN [updating EXCEPT !.at = "waiting"] ELSE updating
    /\ UNCHANGED <<left, lock, receiving, channel, txQueue, rxQueue, sending, frames>>

StartChannel ==
    /\ control = "opening" /\ control' = "idle" /\ lock' = "free"
    /\ \/ ~channel.assigned /\ Returns /\ UNCHANGED <<channel, receiving>>
       \/ /\ channel.assigned /\ Returns
          /\ channel' = [channel EXCEPT !.valid = TRUE, !.running = TRUE]
          /\ receiving' = IF receiving.at = "none" THEN [receiving EXCEPT !.at = "polling"] ELSE receiving
       \/ /\ channel.assigned /\ left.breaks > 0
          /\ left' = [left EXCEPT !.breaks = @ - 1, !.calls = Tail(@)]
          /\ channel' = [channel EXCEPT !.valid = FALSE] /\ UNCHANGED receiving
    /\ UNCHANGED <<started, updating, txQueue, rxQueue, sending, frames>>

\* stop(): the update thread is joined without the lock, the receive thread with it.
stop ==
    /\ Calls("stop")
    /\ IF started THEN started' = FALSE /\ control' = "joining" /\ UNCHANGED left
       ELSE Returns /\ UNCHANGED <<started, control>>
    /\ UNCHANGED <<lock, updating, receiving, channel, txQueue, rxQueue, sending, frames>>

stop_threads ==
    /\ control = "joining" /\ updating.at \in {"none", "ended"}
    /\ control' = "stopping" /\ updating' = [updating EXCEPT !.at = "none"]
    /\ UNCHANGED <<left, started, lock, receiving, channel, txQueue, rxQueue, sending, frames>>

StopChannel ==
    /\ control = "stopping" /\ Locks("control") /\ control' = "draining"
    /\ channel' = [channel EXCEPT !.running = FALSE]
    /\ UNCHANGED <<left, started, updating, receiving, txQueue, rxQueue, sending, frames>>

ClearQueues ==
    /\ control = "draining" /\ receiving.at \in {"none", "ended"}
    /\ control' = "idle" /\ lock' = "free" /\ Returns
    /\ receiving' = [receiving EXCEPT !.at = "none"]
    /\ channel' = [channel EXCEPT !.assigned = FALSE, !.valid = FALSE]
    /\ txQueue' = clear(txQueue) /\ rxQueue' = clear(rxQueue)
    /\ frames' = [frames EXCEPT !.accepted = frames.written, !.read = frames.given]
    /\ UNCHANGED <<started, updating, sending>>

\* Both are refused while the interface is started; a new driver is not open yet.
assign_can_channel_frame_handler ==
    /\ Calls("assign") /\ lock = "free" /\ Returns
    /\ channel' = IF ~started THEN [channel EXCEPT !.assigned = TRUE] ELSE channel
    /\ UNCHANGED <<started, lock, control, updating, receiving, txQueue, rxQueue, sending, frames>>

unassign_can_channel_frame_handler ==
    /\ Calls("unassign") /\ lock = "free" /\ Returns
    /\ channel' = IF ~started THEN [channel EXCEPT !.assigned = FALSE, !.valid = FALSE] ELSE channel
    /\ UNCHANGED <<started, lock, control, updating, receiving, txQueue, rxQueue, sending, frames>>

-----------------------------------------------------------------------------
\* transmit_can_frame: the checks, then the push of the queue, which loads the write
\* index and stores the frame and the index after it. The update thread sends what
\* the stack has to say in its periodic update.
FrameOf(t) == Head(left.sends[t])
Sent(t) == left' = [left EXCEPT !.sends[t] = Tail(@)]
MaySend(t) == left.sends[t] # <<>> /\ (t = "update" => updating.at = "periodic")

transmit_can_frame(t) ==
    /\ sending[t].at = "idle" /\ MaySend(t)
    /\ IF started /\ channel.assigned /\ channel.valid
       THEN sending' = [sending EXCEPT ![t].at = "push"] /\ UNCHANGED <<left, updating>>
       ELSE /\ Sent(t) /\ UNCHANGED sending
            /\ updating' = IF t = "update" THEN [updating EXCEPT !.at = "sent"] ELSE updating
    /\ UNCHANGED <<started, lock, control, receiving, channel, txQueue, rxQueue, frames>>

PushLoads(t) ==
    /\ sending[t].at = "push"
    /\ IF is_full(txQueue)
       THEN /\ sending' = [sending EXCEPT ![t].at = "idle"] /\ Sent(t)
            /\ updating' = IF t = "update" THEN [updating EXCEPT !.at = "sent"] ELSE updating
       ELSE /\ sending' = [sending EXCEPT ![t] = [at |-> "store", index |-> txQueue.write]]
            /\ UNCHANGED <<left, updating>>
    /\ UNCHANGED <<started, lock, control, receiving, channel, txQueue, rxQueue, frames>>

PushStores(t) ==
    /\ sending[t].at = "store"
    /\ txQueue' = Stored(txQueue, sending[t].index, FrameOf(t))
    /\ frames' = [frames EXCEPT !.accepted = Append(@, FrameOf(t))]
    /\ sending' = [sending EXCEPT ![t].at = "idle"] /\ Sent(t)
    /\ updating' = IF t = "update" THEN [updating EXCEPT !.at = "sent"] ELSE updating
    /\ UNCHANGED <<started, lock, control, receiving, channel, rxQueue>>

-----------------------------------------------------------------------------
\* The receive thread: receive_can_frame takes a frame from the driver when the
\* queue has room for it, and pushes it; the result of the push is not looked at.
Takes ==
    /\ receiving.at = "polling" /\ channel.running /\ channel.assigned /\ channel.valid
    /\ left.arrive # <<>> /\ left' = [left EXCEPT !.arrive = Tail(@)]
    /\ receiving' = [at |-> "push", frame |-> Head(left.arrive)]
    /\ frames' = [frames EXCEPT !.read = Append(@, Head(left.arrive))]
    /\ UNCHANGED <<started, lock, control, updating, channel, txQueue, rxQueue, sending>>

\* Mutant: trusts the push of a full queue.
receive_can_frame_Unchecked == Takes
receive_can_frame == ~is_full(rxQueue) /\ Takes

PushReceived ==
    /\ receiving.at = "push" /\ receiving' = [at |-> "polling", frame |-> NoFrame]
    /\ rxQueue' = IF nextIndex(rxQueue.write) = rxQueue.read THEN rxQueue
                  ELSE Stored(rxQueue, rxQueue.write, receiving.frame)
    /\ UNCHANGED <<left, started, lock, control, updating, channel, txQueue, sending, frames>>

ReceiveEnds ==
    /\ receiving.at = "polling" /\ ~channel.running
    /\ receiving' = [receiving EXCEPT !.at = "ended"]
    /\ UNCHANGED <<left, started, lock, control, updating, channel, txQueue, rxQueue, sending, frames>>

-----------------------------------------------------------------------------
\* The update thread.
Turns(place) == updating' = [updating EXCEPT !.at = place]

UpdateThreadStarts ==
    /\ updating.at = "waiting" /\ lock = "free" /\ Turns("loop")
    /\ UNCHANGED <<left, started, lock, control, receiving, channel, txQueue, rxQueue, sending, frames>>

\* It ends when the interface is stopped; else it is notified or its interval is
\* over. A pass that would find nothing to do changes nothing and is left out.
CanWrite == ~Empty(txQueue) /\ channel.assigned /\ channel.valid
update_thread_function ==
    /\ updating.at = "loop"
    /\ \/ ~started /\ Turns("ended")
       \/ started /\ (~Empty(rxQueue) \/ CanWrite \/ left.sends["update"] # <<>>) /\ Turns("update")
    /\ UNCHANGED <<left, started, lock, control, receiving, channel, txQueue, rxQueue, sending, frames>>

\* update(): stopped meanwhile, or the first stage begins.
update ==
    /\ updating.at = "update"
    /\ \/ ~started /\ Turns("loop") /\ UNCHANGED lock
       \/ started /\ Locks("update") /\ updating' = [at |-> "receive", handled |-> 0]
    /\ UNCHANGED <<left, started, control, receiving, channel, txQueue, rxQueue, sending, frames>>

\* Stage 1: a frame is given to the stack and then taken from the queue.
GiveFrame ==
    /\ updating.at = "receive" /\ updating.handled < MaxFrames /\ ~Empty(rxQueue)
    /\ frames' = [frames EXCEPT !.given = Append(@, peek(rxQueue))] /\ Turns("given")
    /\ UNCHANGED <<left, started, lock, control, receiving, channel, txQueue, rxQueue, sending>>

PopGiven ==
    /\ updating.at = "given" /\ rxQueue' = pop(rxQueue)
    /\ updating' = [at |-> "receive", handled |-> updating.handled + 1]
    /\ UNCHANGED <<left, started, lock, control, receiving, channel, txQueue, sending, frames>>

\* Stage 2: the stack sends, unless its interval is not over: a pass that was
\* notified of a frame may come earlier.
StageTwo ==
    /\ updating.at = "receive" /\ (updating.handled = MaxFrames \/ Empty(rxQueue))
    /\ lock' = "free"
    /\ \/ left.sends["update"] # <<>> /\ Turns("periodic")
       \/ (left.sends["update"] = <<>> \/ updating.handled > 0 \/ CanWrite) /\ Turns("sent")
    /\ UNCHANGED <<left, started, control, receiving, channel, txQueue, rxQueue, sending, frames>>

\* Stage 3: a frame the driver took is reported and then taken from the queue; one
\* it refuses ends the stage.
StageThree ==
    /\ updating.at = "sent" /\ Locks("update")
    /\ updating' = [at |-> "transmit", handled |-> 0]
    /\ UNCHANGED <<left, started, control, receiving, channel, txQueue, rxQueue, sending, frames>>

WriteFrame ==
    /\ updating.at = "transmit" /\ updating.handled < MaxFrames /\ CanWrite
    /\ frames' = [frames EXCEPT !.written = Append(@, peek(txQueue))] /\ Turns("written")
    /\ UNCHANGED <<left, started, lock, control, receiving, channel, txQueue, rxQueue, sending>>

PopWritten ==
    /\ updating.at = "written" /\ txQueue' = pop(txQueue)
    /\ updating' = [at |-> "transmit", handled |-> updating.handled + 1]
    /\ UNCHANGED <<left, started, lock, control, receiving, channel, rxQueue, sending, frames>>

UpdateEnds ==
    /\ updating.at = "transmit" /\ lock' = "free" /\ Turns("loop")
    /\ \/ (updating.handled = MaxFrames \/ ~CanWrite) /\ UNCHANGED left
       \/ /\ updating.handled < MaxFrames /\ CanWrite
          /\ left.refuses > 0 /\ left' = [left EXCEPT !.refuses = @ - 1]
    /\ UNCHANGED <<started, control, receiving, channel, txQueue, rxQueue, sending, frames>>

\* The driver fails; only opening it again helps.
DriverBreaks ==
    /\ left.breaks > 0 /\ channel.valid
    /\ left' = [left EXCEPT !.breaks = @ - 1] /\ channel' = [channel EXCEPT !.valid = FALSE]
    /\ UNCHANGED <<started, lock, control, updating, receiving, txQueue, rxQueue, sending, frames>>

InterfaceWork ==
    \/ start \/ start_threads \/ StartChannel \/ stop \/ stop_threads \/ StopChannel \/ ClearQueues
    \/ assign_can_channel_frame_handler \/ unassign_can_channel_frame_handler
    \/ \E t \in Writers : transmit_can_frame(t) \/ PushLoads(t) \/ PushStores(t)
    \/ receive_can_frame \/ PushReceived \/ ReceiveEnds
    \/ UpdateThreadStarts \/ update_thread_function \/ update
    \/ GiveFrame \/ PopGiven \/ StageTwo \/ StageThree \/ WriteFrame \/ PopWritten \/ UpdateEnds

InterfaceNext == InterfaceWork \/ DriverBreaks

-----------------------------------------------------------------------------
\* Properties.

\* Every frame read from the driver is given to the stack, once and in order, or still
\* waits; no push of the receive thread is refused. Only a stop discards frames.
ReceivedInOrder ==
    LET waiting == Contents(rxQueue) IN
    frames.given \o (IF updating.at = "given" THEN Tail(waiting) ELSE waiting)
      \o (IF receiving.at = "push" THEN <<receiving.frame>> ELSE <<>>) = frames.read

\* Every frame that was accepted is written to the driver, once and in order, or still
\* waits, as long as one thread sends.
TransmittedInOrder ==
    LET waiting == Contents(txQueue) IN
    frames.written \o (IF updating.at = "written" THEN Tail(waiting) ELSE waiting) = frames.accepted

\* Every call returned, no thread holds the lock or waits to be joined; and when the
\* interface runs with a working driver, no frame waits.
InterfaceAtRest ==
    /\ left.calls = <<>> /\ control = "idle" /\ lock = "free"
    /\ \A t \in Writers : sending[t].at = "idle"
    /\ started /\ channel.running /\ channel.valid => Empty(txQueue) /\ Empty(rxQueue) /\ left.arrive = <<>>
=============================================================================
