--------------------------- MODULE VTCommandQueue ---------------------------
\* The commands a terminal client sends to a connected terminal: the messages of
\* the send_ functions, and the queue in which they wait while the terminal owes
\* the answer to an earlier one. The application's threads, the worker thread and
\* the network thread share the queue, and the flag that an answer is awaited
\* without a lock. Source: isobus_virtual_terminal_client.cpp.
EXTENDS Integers, Sequences, FiniteSets, SequencesExt

CONSTANTS
    Callers,    \* threads that call the send_ functions; "can" is the network thread
    Plans       \* what they call, with which faults; see QueueInit

VARIABLES
    plan,           \* left: calls to make, per thread; terminal: there is one in the end;
                    \* lost, late, refused, unknown, offline: faults left
    commandQueue,
    awaiting,       \* commandAwaitingResponse
    lockedBy,       \* who holds commandQueueMutex
    doing,          \* what each thread is at
    unsupported,    \* functions the terminal does not know
    linked,         \* the session is in its Connected state
    bus, responses, \* commands and answers on their way
    accepted        \* history: of each destination the newest accepted command, whether it was
                    \* sent, and whether an older one is sent after it

queueVars == <<plan, commandQueue, awaiting, lockedBy, doing, unsupported, linked, bus,
               responses, accepted>>

-----------------------------------------------------------------------------
\* The messages. A word is sent low byte first; messages are padded to 8 bytes.
\* `of` is what the function's arguments address.

LowHigh(v) == <<v % 256, v \div 256>>

\* How long the message is, with the function code.
Length(bytes) == IF Len(bytes) < 7 THEN 8 ELSE Len(bytes) + 1

Queued(function, bytes, of, replace) ==
    [function |-> function, bytes |-> bytes, of |-> of, replace |-> replace]

Replacing(function, bytes, of) == Queued(function, bytes, of, TRUE)

send_hide_show_object(id, shown) == Replacing("HideShowObject", LowHigh(id) \o <<shown>>, <<id>>)
send_enable_disable_object(id, on) == Replacing("EnableDisableObject", LowHigh(id) \o <<on>>, <<id>>)
send_select_input_object(id, option) == Replacing("SelectInputObject", LowHigh(id) \o <<option>>, <<>>)
send_ESC == Replacing("ESC", <<>>, <<>>)
send_control_audio_signal(activations, frequency) ==
    Replacing("ControlAudioSignal", <<activations>> \o LowHigh(frequency), <<>>)
send_set_audio_volume(percent) ==
    Replacing("SetAudioVolume", <<IF percent > 100 THEN 100 ELSE percent>>, <<>>)
send_change_child_location(id, parent, dx, dy) ==
    Replacing("ChangeChildLocation", LowHigh(parent) \o LowHigh(id) \o <<dx, dy>>, <<parent, id>>)
send_change_child_position(id, parent, x, y) ==
    Replacing("ChangeChildPosition", LowHigh(parent) \o LowHigh(id) \o LowHigh(x) \o LowHigh(y), <<parent, id>>)
send_change_size_command(id, width, height) ==
    Replacing("ChangeSize", LowHigh(id) \o LowHigh(width) \o LowHigh(height), <<id>>)
send_change_background_colour(id, colour) ==
    Replacing("ChangeBackgroundColour", LowHigh(id) \o <<colour>>, <<id>>)
send_change_numeric_value(id, value) ==
    Replacing("ChangeNumericValue", LowHigh(id) \o <<255>> \o LowHigh(value % 65536) \o LowHigh(value \div 65536),
          <<id>>)
\* The text is its characters.
send_change_string_value(id, text) ==
    Replacing("ChangeStringValue", LowHigh(id) \o LowHigh(Len(text)) \o text, <<id>>)
send_change_endpoint(id, width, height, direction) ==
    Replacing("ChangeEndPoint", LowHigh(id) \o LowHigh(width) \o LowHigh(height) \o <<direction>>, <<id>>)
send_change_font_attributes(id, colour, size, type, style) ==
    Replacing("ChangeFontAttributes", LowHigh(id) \o <<colour, size, type, style>>, <<id>>)
send_change_line_attributes(id, colour, width, art) ==
    Replacing("ChangeLineAttributes", LowHigh(id) \o <<colour, width>> \o LowHigh(art), <<id>>)
send_change_fill_attributes(id, type, colour, pattern) ==
    Replacing("ChangeFillAttributes", LowHigh(id) \o <<type, colour>> \o LowHigh(pattern), <<id>>)
send_change_active_mask(id, mask) ==
    Replacing("ChangeActiveMask", LowHigh(id) \o LowHigh(mask), <<id>>)
send_change_softkey_mask(type, mask, softKeys) ==
    Replacing("ChangeSoftKeyMask", <<type>> \o LowHigh(mask) \o LowHigh(softKeys), <<type, mask>>)
send_change_attribute(id, attribute, value) ==
    Replacing("ChangeAttribute", LowHigh(id) \o <<attribute>> \o LowHigh(value % 65536)
                               \o LowHigh(value \div 65536), <<id, attribute>>)
send_change_priority(id, priority) == Replacing("ChangePriority", LowHigh(id) \o <<priority>>, <<id>>)
send_change_list_item(id, index, item) ==
    Replacing("ChangeListItem", LowHigh(id) \o <<index>> \o LowHigh(item), <<id, index>>)
send_lock_unlock_mask(state, id, timeout) ==
    Queued("LockUnlockMask", <<state>> \o LowHigh(id) \o LowHigh(timeout), <<state, id>>, FALSE)
send_execute_macro(id) == Queued("ExecuteMacro", LowHigh(id), <<id>>, FALSE)
send_execute_extended_macro(id) == Queued("ExecuteExtendedMacro", LowHigh(id), <<id>>, FALSE)
send_change_object_label(id, label, font, designator) ==
    Queued("ChangeObjectLabel", LowHigh(id) \o LowHigh(label) \o <<font>> \o LowHigh(designator), <<id>>, FALSE)
send_change_polygon_point(id, index, x, y) ==
    Replacing("ChangePolygonPoint", LowHigh(id) \o <<index>> \o LowHigh(x) \o LowHigh(y), <<id, index>>)
send_change_polygon_scale(id, width, height) ==
    Replacing("ChangePolygonScale", LowHigh(id) \o LowHigh(width) \o LowHigh(height), <<id>>)
send_select_colour_map_or_palette(id) == Replacing("SelectColourMap", LowHigh(id), <<>>)
\* The NAME is its eight bytes.
send_select_active_working_set(name) == Replacing("SelectActiveWorkingSet", name, <<>>)
send_get_attribute_value(id, attribute) ==
    Replacing("GetAttributeValue", LowHigh(id) \o <<attribute>>, <<id, attribute>>)

\* Subcommands of a graphics context: settings and drawing.
Context(id, subcommand, bytes) ==
    Replacing("GraphicsContext", LowHigh(id) \o <<subcommand>> \o bytes, <<id, subcommand>>)

send_set_graphics_cursor(id, x, y) == Context(id, 0, LowHigh(x) \o LowHigh(y))
send_move_graphics_cursor(id, dx, dy) == Context(id, 1, LowHigh(dx) \o LowHigh(dy))
send_set_foreground_colour(id, colour) == Context(id, 2, <<colour>>)
send_set_background_colour(id, colour) == Context(id, 3, <<colour>>)
send_set_line_attributes_object_id(id, attributes) == Context(id, 4, LowHigh(attributes))
send_set_fill_attributes_object_id(id, attributes) == Context(id, 5, LowHigh(attributes))
send_set_font_attributes_object_id(id, attributes) == Context(id, 6, LowHigh(attributes))
send_erase_rectangle(id, width, height) == Context(id, 7, LowHigh(width) \o LowHigh(height))
send_draw_point(id, x, y) == Context(id, 8, LowHigh(x) \o LowHigh(y))
send_draw_line(id, x, y) == Context(id, 9, LowHigh(x) \o LowHigh(y))
send_draw_rectangle(id, width, height) == Context(id, 10, LowHigh(width) \o LowHigh(height))
send_draw_closed_ellipse(id, width, height) == Context(id, 11, LowHigh(width) \o LowHigh(height))
\* Every fourth point of the list is written, and each is the first one; four
\* bytes too many are sent.
send_draw_polygon(id, points) ==
    Context(id, 12, <<Len(points)>> \o
                    [i \in 1..(4 * Len(points) + 4) |->
                        IF i <= 4 * ((Len(points) + 3) \div 4)
                        THEN (LowHigh(points[1][1]) \o LowHigh(points[1][2]))[((i - 1) % 4) + 1] ELSE 0])
send_draw_text(id, transparent, text) == Context(id, 13, <<transparent, Len(text)>> \o text)
send_pan_viewport(id, x, y) == Context(id, 14, LowHigh(x) \o LowHigh(y))
\* The zoom is the four bytes of a float.
send_zoom_viewport(id, zoom) == Context(id, 15, zoom)
send_pan_and_zoom_viewport(id, x, y, zoom) == Context(id, 16, LowHigh(x) \o LowHigh(y) \o zoom)
send_change_viewport_size(id, width, height) == Context(id, 17, LowHigh(width) \o LowHigh(height))
send_draw_vt_object(id, object) == Context(id, 18, LowHigh(object))
send_copy_canvas_to_picture_graphic(id, picture) == Context(id, 19, LowHigh(picture))
send_copy_viewport_to_picture_graphic(id, picture) == Context(id, 20, LowHigh(picture))

-----------------------------------------------------------------------------
\* The queue

ObjectFunctions ==
    {"HideShowObject", "EnableDisableObject", "ChangeSize", "ChangeBackgroundColour",
     "ChangeNumericValue", "ChangeStringValue", "ChangeEndPoint", "ChangeFontAttributes",
     "ChangeLineAttributes", "ChangeFillAttributes", "ChangeActiveMask", "ChangePriority",
     "ChangePolygonScale"}
ChildFunctions == {"ChangeChildLocation", "ChangeChildPosition"}
ThreeByteFunctions ==
    {"ChangeSoftKeyMask", "ChangeAttribute", "ChangeListItem", "LockUnlockMask",
     "ChangePolygonPoint", "GraphicsContext", "GetAttributeValue"}

\* How many bytes tell the destination.
Compared(function) ==
    CASE function \in ObjectFunctions -> 2
      [] function \in ChildFunctions -> 4
      [] function \in ThreeByteFunctions -> 3
      [] function = "ExecuteMacro" -> 1
      [] OTHER -> 0

\* Mutant: the index, the attribute and the subcommand are not compared.
are_commands_similar_TwoBytes(first, second) ==
    /\ Length(first.bytes) = Length(second.bytes) /\ first.function = second.function
    /\ \A i \in 1..Compared(first.function) : i > 2 \/ first.bytes[i] = second.bytes[i]

are_commands_similar(first, second) ==
    /\ Length(first.bytes) = Length(second.bytes) /\ first.function = second.function
    /\ \A i \in 1..Compared(first.function) : first.bytes[i] = second.bytes[i]

\* The first similar command gives its place to the new one, others go.
replace_command(command) ==
    LET first == SelectInSeq(commandQueue, LAMBDA c : are_commands_similar(c, command))
        others == SelectSeq(SubSeq(commandQueue, first + 1, Len(commandQueue)),
                            LAMBDA c : ~are_commands_similar(c, command))
    IN SubSeq(commandQueue, 1, first - 1) \o <<command>> \o others

Enqueued(command) ==
    IF command.replace /\ \E i \in DOMAIN commandQueue :
                              are_commands_similar(commandQueue[i], command)
    THEN replace_command(command) ELSE Append(commandQueue, command)

-----------------------------------------------------------------------------
\* What a thread is at: "gate", "transmit" and "mark" are the steps of
\* send_command, for a new command (place 0) or that in a place of the queue.

Threads == Callers \union {"worker", "can"}
Idle == [at |-> "idle"]
At(step, command, place) == [at |-> step, command |-> command, place |-> place]

QueueInit ==
    /\ plan \in Plans
    /\ commandQueue = <<>> /\ awaiting = FALSE /\ lockedBy = "none"
    /\ doing = [t \in Threads |-> Idle]
    /\ unsupported = {} /\ linked = (plan.offline = 0)
    /\ bus = <<>> /\ responses = <<>>
    /\ accepted = <<>>

Mishap(kind) == plan[kind] > 0 /\ plan' = [plan EXCEPT ![kind] = @ - 1]
Unless(ok, kind) == IF ok THEN UNCHANGED plan ELSE Mishap(kind)

Destination(command) == <<command.function, command.of>>
\* The queue without the command that was just sent and is erased next.
Unsent ==
    IF lockedBy \in Threads /\ doing[lockedBy].at = "mark"
    THEN RemoveAt(commandQueue, doing[lockedBy].place) ELSE commandQueue
Waiting(d) == SelectSeq(Unsent, LAMBDA c : Destination(c) = d)

Accept(command, reached, overtaken) ==
    accepted' = (Destination(command) :>
                    [newest |-> command, reached |-> reached, overtaken |-> overtaken]) @@ accepted

\* Sent from the queue: only the newest of its destination counts; others of it that
\* were passed over follow.
SentFromQueue(command) ==
    LET d == Destination(command) IN
    IF accepted[d].newest = command
    THEN Accept(command, TRUE, accepted[d].overtaken \/ Len(Waiting(d)) > 1)
    ELSE UNCHANGED accepted

\* A text of another length is not similar, so that a new one may take a place before it.
TakesPlaceBefore(command) ==
    command.replace /\ \E i, j \in DOMAIN commandQueue :
        /\ i < j /\ Destination(commandQueue[j]) = Destination(command)
        /\ are_commands_similar(commandQueue[i], command)
        /\ ~are_commands_similar(commandQueue[j], command)

Becomes(t, step) == doing' = [doing EXCEPT ![t] = step]

\* A send_ function is called; nothing is done for an unsupported one.
CallSend(t) ==
    /\ doing[t] = Idle /\ plan.left[t] # <<>>
    /\ LET command == Head(plan.left[t]) IN
       /\ plan' = [plan EXCEPT !.left[t] = Tail(@)]
       /\ IF command.function \in unsupported THEN UNCHANGED doing
          ELSE Becomes(t, IF linked THEN At("gate", command, 0) ELSE At("queue", command, 0))
    /\ UNCHANGED <<commandQueue, awaiting, lockedBy, unsupported, linked, bus, responses, accepted>>

\* 1500 ms are over: no answer is on its way any more, or it is late.
NothingOnItsWay == bus = <<>> /\ responses = <<>>

\* Mutant: the last command of the queue keeps the lock when it is refused.
NotSent_KeepsLock(t) ==
    IF doing[t].place = 0
    THEN /\ Becomes(t, [doing[t] EXCEPT !.at = "queue"]) /\ UNCHANGED lockedBy
    ELSE IF doing[t].place < Len(commandQueue)
    THEN /\ Becomes(t, At("gate", commandQueue[doing[t].place + 1], doing[t].place + 1))
         /\ UNCHANGED lockedBy
    ELSE Becomes(t, Idle) /\ UNCHANGED lockedBy

\* After a refused command comes the next in the queue, and after the last one
\* the lock is released; a new command is queued.
NotSent(t) ==
    IF doing[t].place = 0
    THEN /\ Becomes(t, [doing[t] EXCEPT !.at = "queue"]) /\ UNCHANGED lockedBy
    ELSE IF doing[t].place < Len(commandQueue)
    THEN /\ Becomes(t, At("gate", commandQueue[doing[t].place + 1], doing[t].place + 1))
         /\ UNCHANGED lockedBy
    ELSE Becomes(t, Idle) /\ lockedBy' = "none"

\* A command goes out while no answer is awaited or the wait timed out.
Gate(t) ==
    /\ doing[t].at = "gate"
    /\ \/ ~awaiting /\ UNCHANGED <<plan, awaiting, lockedBy>>
          /\ Becomes(t, [doing[t] EXCEPT !.at = "transmit"])
       \/ awaiting /\ Unless(NothingOnItsWay, "late") /\ awaiting' = FALSE /\ UNCHANGED lockedBy
          /\ Becomes(t, [doing[t] EXCEPT !.at = "transmit"])
       \/ awaiting /\ NotSent(t) /\ UNCHANGED <<plan, awaiting>>
    /\ UNCHANGED <<commandQueue, unsupported, linked, bus, responses, accepted>>

\* A new command is sent although an older one of its destination may still wait
\* (after a time-out, or since the session was lost).
Transmit(t) ==
    /\ doing[t].at = "transmit"
    /\ LET command == doing[t].command IN
       \/ /\ linked /\ UNCHANGED <<plan, lockedBy>>
          /\ bus' = Append(bus, command)
          /\ Becomes(t, [doing[t] EXCEPT !.at = "mark"])
          /\ IF doing[t].place = 0
             THEN Accept(command, TRUE, Waiting(Destination(command)) # <<>>)
             ELSE SentFromQueue(command)
       \/ /\ Unless(~linked, "refused") /\ NotSent(t) /\ UNCHANGED <<bus, accepted>>
    /\ UNCHANGED <<commandQueue, awaiting, unsupported, linked, responses>>

\* The answer is awaited from here on, even if it came meanwhile.
Mark(t) ==
    /\ doing[t].at = "mark"
    /\ awaiting' = TRUE
    /\ LET place == doing[t].place IN
       IF place = 0 THEN Becomes(t, Idle) /\ UNCHANGED <<commandQueue, lockedBy>>
       ELSE LET rest == RemoveAt(commandQueue, place) IN
            /\ commandQueue' = rest
            /\ IF place <= Len(rest)
               THEN Becomes(t, At("gate", rest[place], place)) /\ UNCHANGED lockedBy
               ELSE Becomes(t, Idle) /\ lockedBy' = "none"
    /\ UNCHANGED <<plan, unsupported, linked, bus, responses, accepted>>

Enqueue(t) ==
    /\ doing[t].at = "queue" /\ lockedBy = "none"
    /\ commandQueue' = Enqueued(doing[t].command)
    /\ Accept(doing[t].command, FALSE, TakesPlaceBefore(doing[t].command))
    /\ Becomes(t, Idle)
    /\ UNCHANGED <<plan, awaiting, lockedBy, unsupported, linked, bus, responses>>

\* process_command_queue, from its start to a step of the first command.
process_command_queue(t, step) ==
    /\ linked /\ commandQueue # <<>> /\ lockedBy = "none"
    /\ lockedBy' = t
    /\ Becomes(t, At(step, commandQueue[1], 1))

\* Mutant: an answer that does not come is awaited for ever.
WorkerPass_NoTimeout ==
    /\ doing["worker"] = Idle
    /\ ~awaiting /\ process_command_queue("worker", "gate")
    /\ UNCHANGED <<plan, awaiting, commandQueue, unsupported, linked, bus, responses, accepted>>

\* The worker's pass. One in which every command is held back changes nothing
\* and is left out.
WorkerPass ==
    /\ doing["worker"] = Idle
    /\ \/ ~awaiting /\ process_command_queue("worker", "gate") /\ UNCHANGED <<plan, awaiting>>
       \/ awaiting /\ Unless(NothingOnItsWay, "late") /\ awaiting' = FALSE
             /\ process_command_queue("worker", "transmit")
    /\ UNCHANGED <<commandQueue, unsupported, linked, bus, responses, accepted>>

\* The network thread: any answer ends the wait and works off the queue, except
\* for one that the function is unknown.
AnswerReceived ==
    /\ doing["can"] = Idle /\ responses # <<>>
    /\ responses' = Tail(responses)
    /\ IF Head(responses).known
       THEN /\ awaiting' = FALSE /\ UNCHANGED unsupported
            /\ IF linked /\ commandQueue # <<>>
               THEN Becomes("can", [at |-> "lock"]) ELSE UNCHANGED doing
       ELSE unsupported' = unsupported \union {Head(responses).function} /\ UNCHANGED <<awaiting, doing>>
    /\ UNCHANGED <<plan, commandQueue, lockedBy, linked, bus, accepted>>

LockAfterAnswer ==
    /\ doing["can"].at = "lock"
    /\ IF commandQueue = <<>>
       THEN lockedBy = "none" /\ Becomes("can", Idle) /\ UNCHANGED lockedBy
       ELSE /\ lockedBy = "none" /\ lockedBy' = "can"
            /\ Becomes("can", At("gate", commandQueue[1], 1))
    /\ UNCHANGED <<plan, commandQueue, awaiting, unsupported, linked, bus, responses, accepted>>

-----------------------------------------------------------------------------
\* The terminal and the link

TerminalAnswers ==
    /\ bus # <<>>
    /\ LET command == Head(bus) IN
       /\ bus' = Tail(bus)
       /\ \/ /\ responses' = Append(responses, [known |-> TRUE, function |-> command.function])
             /\ UNCHANGED plan
          \/ /\ Mishap("unknown")
             /\ responses' = Append(responses, [known |-> FALSE, function |-> command.function])
    /\ UNCHANGED <<commandQueue, awaiting, lockedBy, doing, unsupported, linked, accepted>>

Lost ==
    /\ Mishap("lost")
    /\ \/ bus # <<>> /\ bus' = Tail(bus) /\ UNCHANGED responses
       \/ responses # <<>> /\ responses' = Tail(responses) /\ UNCHANGED bus
    /\ UNCHANGED <<commandQueue, awaiting, lockedBy, doing, unsupported, linked, accepted>>

\* The session ends and a later one starts with the pool as it was uploaded; the
\* queue and the wait for an answer stay.
Unlink ==
    /\ linked /\ Mishap("offline")
    /\ linked' = FALSE /\ unsupported' = {} /\ bus' = <<>> /\ responses' = <<>>
    /\ UNCHANGED <<commandQueue, awaiting, lockedBy, doing, accepted>>

Link ==
    /\ ~linked /\ plan.terminal /\ linked' = TRUE
    /\ UNCHANGED <<plan, commandQueue, awaiting, lockedBy, doing, unsupported, bus, responses, accepted>>

QueueSystem ==
    \/ \E t \in Threads : CallSend(t) \/ Gate(t) \/ Transmit(t) \/ Mark(t) \/ Enqueue(t)
    \/ WorkerPass \/ AnswerReceived \/ LockAfterAnswer \/ TerminalAnswers \/ Link

QueueNext == QueueSystem \/ Lost \/ Unlink

QueueSpec == QueueInit /\ [][QueueNext]_queueVars /\ WF_queueVars(QueueSystem)

-----------------------------------------------------------------------------
\* Who works through the queue holds its lock, and nobody else does.
QueueTypeOK ==
    /\ lockedBy \in {"none", "worker", "can"}
    /\ \A t \in Threads :
          lockedBy = t <=> doing[t].at \in {"gate", "transmit", "mark"} /\ doing[t].place > 0

\* The newest command accepted for a destination is not lost before it is sent: it
\* waits in the queue, whatever was replaced, erased and sent by other threads
\* meanwhile, and across a lost connection. And it has the last word: no older
\* command of its destination is sent after it, but in three cases that the code
\* does not prevent. It went out at once while an older one waited, which
\* queue_command never looks for; it passed an older one that the pass over the queue
\* had to leave; or it is a text that took the place of an older one of its length,
\* before one of another length. The terminal then ends with the older value.
LatestNotLost ==
    \A d \in DOMAIN accepted : LET a == accepted[d] IN
        /\ a.reached \/ Contains(Unsent, a.newest)
        /\ a.overtaken \/ (IF a.reached THEN Waiting(d) = <<>> ELSE Last(Waiting(d)) = a.newest)

\* Every command was sent and no thread waits for the lock.
Drained == commandQueue = <<>> /\ \A t \in Threads : doing[t] = Idle
=============================================================================
