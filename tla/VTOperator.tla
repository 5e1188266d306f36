----------------------------- MODULE VTOperator -----------------------------
\* What the operator does at the terminal and what the application makes of it:
\* the terminal's messages, the client's handlers with their answers, the state
\* tracker that keeps the application's copy of what is shown, and the update
\* helper that skips sending what the copy already says. Source:
\* isobus_virtual_terminal_client.cpp, its state tracker and update helper,
\* and the senders of isobus_virtual_terminal_server.cpp.
EXTENDS Integers, Sequences, SequencesExt

CONSTANTS
    OperatorPlans,  \* what happens, in which set-up; see OperatorInit
    MaxHistory      \* maxDataAndAlarmMaskHistorySize

VARIABLES
    opPlan,     \* version: of the terminal; known: the tracker saw a status message;
                \* events: the operator's; calls: the application's, both in order;
                \* statuses: status messages left; rejects: what validation refuses
    toListener, toDisplay,   \* messages on their way, each link in order
    display,    \* the terminal: number, mask, soft key mask of each mask, reported mask
    tracked,    \* the tracker's copy
    setting,    \* the call of the update helper that the application's thread is in
    hearing,    \* the message that the tracker has heard and the listeners have not
    heard,      \* history: the last event, what the listeners heard and the answer
    overwritten \* history: a call wrote its number over one heard since it was sent

operatorVars ==
    <<opPlan, toListener, toDisplay, display, tracked, setting, hearing, heard, overwritten>>

-----------------------------------------------------------------------------
\* Messages: the function code and bytes 1, 2, ... of the data.

NO_MASK == 65535
RESERVED == 255
LowByte(w) == w % 256
HighByte(w) == w \div 256
WordAt(d, i) == d[i] + 256 * d[i + 1]
LongAt(d, i) == WordAt(d, i) + 65536 * WordAt(d, i + 2)
BitAt(d, i, bit) == (d[i] \div bit) % 2 = 1
OneIf(b) == IF b THEN 1 ELSE 0
ToMessage(function, bytes) ==
    [function |-> function,
     data |-> [i \in 1..(IF Len(bytes) < 7 THEN 7 ELSE Len(bytes)) |->
                  IF i <= Len(bytes) THEN bytes[i] ELSE RESERVED]]

WordBytes(w) == <<LowByte(w), HighByte(w)>>
\* A number behind its object's ID.
NumberBytes(id, third, n) ==
    <<LowByte(id), HighByte(id), third, LowByte(n % 65536), HighByte(n % 65536),
      LowByte(n \div 65536), HighByte(n \div 65536)>>

\* What the operator and the application may do, and what OperatorPlans consists of.
Word == 0..NO_MASK
KeyEvents == [event : {"SoftKey", "Button"}, code : 0..255, id : Word, parent : Word, key : 0..255]
PointingEvents ==
    [event : {"Pointing"}, x : Word, y : Word, mask : Word, code : 0..3, tan : 0..15]
InputEvents == [event : {"SelectInput"}, id : Word, selected : BOOLEAN, open : BOOLEAN]
EscEvents == [event : {"Esc"}, id : Word, error : 0..31, tan : 0..15]
NumberEvents == [event : {"NumericValue"}, id : Word, value : Nat]
MaskEvents ==
    [event : {"ActiveMask", "SoftKeyMask"}, mask : Word, error : Word, parent : Word, soft : Word,
     missing : BOOLEAN, faulty : BOOLEAN, other : BOOLEAN, deleted : BOOLEAN]
TextEvents == [event : {"StringValue"}, id : Word, text : Seq(0..255)]
LayoutEvents ==
    [event : {"LayoutHideShow"}, id : Word, hidden : BOOLEAN, second : Word, secondHidden : BOOLEAN,
     tan : 0..15]
AudioEvents == [event : {"AudioTermination"}, terminated : BOOLEAN, tan : 0..15]
Events ==
    KeyEvents \union PointingEvents \union InputEvents \union EscEvents \union NumberEvents
      \union MaskEvents \union TextEvents \union LayoutEvents \union AudioEvents
Calls ==
    [set : {"number", "step"}, value : Int] \union [set : {"mask"}, mask : Word]
      \union [set : {"soft"}, mask : Word, value : Word]
OperatorSetups ==
    [version : Nat, known : BOOLEAN, events : Seq(Events), calls : Seq(Calls), statuses : Nat,
     rejects : SUBSET Nat]

\* The terminal's senders. It leaves the transaction number at all ones.
KeyMessage(e) ==
    <<e.code, LowByte(e.id), HighByte(e.id), LowByte(e.parent), HighByte(e.parent), e.key>>
NumericValueMessage(e) == NumberBytes(e.id, RESERVED, e.value)
SelectInputMessage(e) == <<LowByte(e.id), HighByte(e.id), OneIf(e.selected), OneIf(e.open)>>
StringValueMessage(e) ==
    LET sent == IF Len(e.text) > 255 THEN SubSeq(e.text, 1, 255) ELSE e.text
    IN <<LowByte(e.id), HighByte(e.id), Len(sent)>> \o sent

\* Messages only other terminals send, as the standard lays them out.
Errors(e) == 4 * OneIf(e.missing) + 8 * OneIf(e.faulty) + 16 * OneIf(e.other) + 32 * OneIf(e.deleted)
ForeignMessage(e, version) ==
    CASE e.event = "Pointing" ->
            <<LowByte(e.x), HighByte(e.x), LowByte(e.y), HighByte(e.y)>>
              \o IF version >= 6 THEN <<16 * e.tan + e.code, LowByte(e.mask), HighByte(e.mask)>>
                 ELSE IF version >= 4 THEN <<e.code>> ELSE <<>>
      [] e.event = "Esc" ->
            <<LowByte(e.id), HighByte(e.id), e.error, 255, 255, 255, 16 * e.tan + 15>>
      [] e.event = "ActiveMask" ->
            <<LowByte(e.mask), HighByte(e.mask), Errors(e), LowByte(e.error), HighByte(e.error),
              LowByte(e.parent), HighByte(e.parent)>>
      [] e.event = "SoftKeyMask" ->
            <<LowByte(e.mask), HighByte(e.mask), LowByte(e.soft), HighByte(e.soft), Errors(e)>>
      [] e.event = "LayoutHideShow" ->
            <<LowByte(e.id), HighByte(e.id), OneIf(~e.hidden), LowByte(e.second), HighByte(e.second),
              OneIf(~e.secondHidden), 16 * e.tan + 15>>
      [] e.event = "AudioTermination" -> <<OneIf(e.terminated), 16 * e.tan + 15>>

MessageOf(e, version) ==
    ToMessage(e.event,
        CASE e.event \in {"SoftKey", "Button"} -> KeyMessage(e)
          [] e.event = "NumericValue" -> NumericValueMessage(e)
          [] e.event = "SelectInput" -> SelectInputMessage(e)
          [] e.event = "StringValue" -> StringValueMessage(e)
          [] OTHER -> ForeignMessage(e, version))

-----------------------------------------------------------------------------
\* The client's handlers: what its listeners are told, and the answer.

ButtonPressAborted == 3
Transaction(d, i, version) == IF version >= 6 THEN d[i] \div 16 ELSE 15
\* The answer's byte that carries the transaction number.
Echoed(d, i, version) == 16 * Transaction(d, i, version) + 15
Silent == [told |-> <<>>, answer |-> <<>>]
Told(told, answer) == [told |-> told, answer |-> <<answer>>]

Key(m, version) ==
    LET d == m.data
    IN IF d[1] > ButtonPressAborted THEN Silent
       ELSE Told(<<[code |-> d[1], id |-> WordAt(d, 2), parent |-> WordAt(d, 4), key |-> d[6]]>>,
                 ToMessage(m.function, SubSeq(d, 1, 6) \o <<Echoed(d, 7, version)>>))

\* Mutant: the transaction number stays in the touch state.
Pointing_WholeByte(m, version) ==
    LET d == m.data
    IN Told(IF d[5] <= ButtonPressAborted
            THEN <<[x |-> WordAt(d, 1), y |-> WordAt(d, 3), code |-> d[5],
                    mask |-> IF version >= 6 THEN WordAt(d, 6) ELSE NO_MASK]>> ELSE <<>>,
            ToMessage(m.function, SubSeq(d, 1, 4)))
Pointing(m, version) ==
    LET d == m.data
        touch == IF version >= 6 THEN d[5] % 16 ELSE IF version >= 4 THEN d[5] ELSE 1
        mask == IF version >= 6 THEN WordAt(d, 6) ELSE NO_MASK
        told == [x |-> WordAt(d, 1), y |-> WordAt(d, 3), mask |-> mask, code |-> touch]
        byte5 == IF version >= 6 THEN (16 * Transaction(d, 5, version) + touch) % 256
                 ELSE IF version >= 4 THEN touch ELSE RESERVED
    IN Told(IF touch <= ButtonPressAborted THEN <<told>> ELSE <<>>,
            ToMessage(m.function, SubSeq(d, 1, 4) \o <<byte5>>
                                    \o IF version >= 6 THEN WordBytes(mask) ELSE <<>>))

SelectInput(m, version) ==
    LET d == m.data
        selected == d[3] = 1
        open == version >= 4 => BitAt(d, 4, 1)
    IN Told(<<[id |-> WordAt(d, 1), selected |-> selected, open |-> open]>>,
            ToMessage(m.function, SubSeq(d, 1, 2)
                \o <<OneIf(selected), IF version >= 4 THEN OneIf(open) ELSE RESERVED,
                     RESERVED, RESERVED, Echoed(d, 7, version)>>))

Esc(m, version) ==
    LET d == m.data
        error == d[3] % 32
    IN IF error \notin {0, 1, 5} THEN Silent
       ELSE Told(<<[id |-> WordAt(d, 1), error |-> error]>>,
                 ToMessage(m.function, SubSeq(d, 1, 2)
                     \o <<RESERVED, RESERVED, RESERVED, RESERVED, Echoed(d, 7, version)>>))

NumericValue(m, version) ==
    LET d == m.data
    IN Told(<<[id |-> WordAt(d, 1), value |-> LongAt(d, 4)]>>,
            ToMessage(m.function, SubSeq(d, 1, 2) \o <<Echoed(d, 3, version)>> \o SubSeq(d, 4, 7)))

MaskErrors(d, i) ==
    [missing |-> BitAt(d, i, 4), faulty |-> BitAt(d, i, 8),
     other |-> BitAt(d, i, 16), deleted |-> BitAt(d, i, 32)]

ActiveMask(m) ==
    LET d == m.data
    IN Told(<<[mask |-> WordAt(d, 1), error |-> WordAt(d, 4), parent |-> WordAt(d, 6),
               errors |-> MaskErrors(d, 3)]>>,
            ToMessage(m.function, SubSeq(d, 1, 2)))

SoftKeyMask(m) ==
    LET d == m.data
    IN Told(<<[mask |-> WordAt(d, 1), soft |-> WordAt(d, 3), errors |-> MaskErrors(d, 5)]>>,
            ToMessage(m.function, SubSeq(d, 1, 4)))

\* The answer carries the object from byte 3 on.
StringValue(m) ==
    LET d == m.data
    IN Told(<<[id |-> WordAt(d, 1), text |-> SubSeq(d, 4, 3 + d[3])]>>,
            ToMessage(m.function, <<RESERVED, RESERVED>> \o SubSeq(d, 1, 2)))

LayoutHideShow(m, version) ==
    LET d == m.data
        first == [id |-> WordAt(d, 1), hidden |-> ~BitAt(d, 3, 1)]
        second == [id |-> WordAt(d, 4), hidden |-> ~BitAt(d, 6, 1)]
    IN Told(<<first>> \o IF second.id # NO_MASK THEN <<second>> ELSE <<>>,
            ToMessage(m.function, SubSeq(d, 1, 6) \o <<Echoed(d, 7, version)>>))

AudioTermination(m, version) ==
    LET terminated == BitAt(m.data, 1, 1)
        told == <<[terminated |-> terminated]>>
    IN IF version < 6 THEN [told |-> told, answer |-> <<>>]
       ELSE Told(told, ToMessage(m.function, <<OneIf(terminated), Echoed(m.data, 2, version)>>))

Handle(m, version) ==
    CASE m.function \in {"SoftKey", "Button"} -> Key(m, version)
      [] m.function = "Pointing" -> Pointing(m, version)
      [] m.function = "SelectInput" -> SelectInput(m, version)
      [] m.function = "Esc" -> Esc(m, version)
      [] m.function = "NumericValue" -> NumericValue(m, version)
      [] m.function = "ActiveMask" -> ActiveMask(m)
      [] m.function = "SoftKeyMask" -> SoftKeyMask(m)
      [] m.function = "StringValue" -> StringValue(m)
      [] m.function = "LayoutHideShow" -> LayoutHideShow(m, version)
      [] m.function = "AudioTermination" -> AudioTermination(m, version)
      [] OTHER -> Silent

-----------------------------------------------------------------------------
\* The state tracker. One number, NUMBER, and the soft key masks of the masks
\* in DOMAIN tracked.soft are tracked.

NUMBER == 300

cache_active_mask(t, mask) ==
    IF t.mask = mask THEN t
    ELSE [t EXCEPT !.mask = mask,
                   !.history = IF t.mask = NO_MASK THEN @
                               ELSE SubSeq(<<t.mask>> \o @, 1, IF Len(@) < MaxHistory THEN Len(@) + 1
                                                               ELSE MaxHistory)]

SetSoftKeys(t, mask, soft) ==
    IF mask \in DOMAIN t.soft THEN [t EXCEPT !.soft[mask] = soft] ELSE t

\* Only the status of a terminal that shows our working set counts.
process_status_message(t, m) ==
    LET shown == cache_active_mask([t EXCEPT !.server = TRUE], WordAt(m.data, 2))
    IN SetSoftKeys(shown, shown.mask, WordAt(m.data, 4))

\* Mutant: the value is taken from byte 3, where other answers have it.
SetNumber_FromByte3(t, d) == IF WordAt(d, 1) = NUMBER THEN [t EXCEPT !.number = LongAt(d, 3)] ELSE t
SetNumber(t, d) == IF WordAt(d, 1) = NUMBER THEN [t EXCEPT !.number = LongAt(d, 4)] ELSE t

\* The error of a soft key mask's answer is read where the terminal puts the
\* mask's low byte.
Tracks(t, m) ==
    LET d == m.data
    IN IF m.function = "VTStatus" THEN process_status_message(t, m)
       ELSE IF ~t.server THEN t
       ELSE CASE
            m.function = "ChangeActiveMask" /\ d[3] = 0 -> cache_active_mask(t, WordAt(d, 1))
         [] m.function = "ChangeSoftKeyMask" /\ d[3] = 0 ->
                SetSoftKeys(t, WordAt(d, 1), WordAt(d, 4))
         [] m.function = "ChangeNumericValue" /\ d[3] = 0 -> SetNumber(t, d)
         [] m.function = "NumericValue" -> SetNumber(t, d)
         [] OTHER -> t

-----------------------------------------------------------------------------
\* The update helper: what a call sends, after which the copy says it is shown.

NumberCommand(v) == [command |-> "ChangeNumericValue", id |-> NUMBER, value |-> v]
MaskCommand(mask) == [command |-> "ChangeActiveMask", id |-> mask, value |-> mask]
SoftKeyCommand(mask, soft) == [command |-> "ChangeSoftKeyMask", id |-> mask, value |-> soft]

\* What a function of the helper compares, sends and writes.
set_numeric_value(v) ==
    [shown |-> tracked.number = v, command |-> NumberCommand(v), copy |-> [tracked EXCEPT !.number = v]]

set_active_data_or_alarm_mask(mask) ==
    [shown |-> tracked.mask = mask, command |-> MaskCommand(mask), copy |-> [tracked EXCEPT !.mask = mask]]

\* Nothing is done for a mask that is not tracked.
set_active_soft_key_mask(mask, soft) ==
    [shown |-> mask \notin DOMAIN tracked.soft \/ tracked.soft[mask] = soft,
     command |-> SoftKeyCommand(mask, soft), copy |-> [tracked EXCEPT !.soft[mask] = soft]]

Helper(call) ==
    CASE call.set = "number" -> set_numeric_value(call.value)
      [] call.set = "mask" -> set_active_data_or_alarm_mask(call.mask)
      [] call.set = "soft" -> set_active_soft_key_mask(call.mask, call.value)

Setting(step) == setting # <<>> /\ setting[1].at = step
Then(step) == setting' = <<[setting[1] EXCEPT !.at = step]>>

\* A function is called; a step is added to the copy as it is now.
CallHelper ==
    /\ setting = <<>> /\ opPlan.calls # <<>>
    /\ LET call == Head(opPlan.calls)
           set == IF call.set = "step" THEN [set |-> "number", value |-> tracked.number + call.value]
                  ELSE call
       IN setting' = <<[at |-> "compare", call |-> set, late |-> FALSE]>>
    /\ opPlan' = [opPlan EXCEPT !.calls = Tail(@)]
    /\ UNCHANGED <<toListener, toDisplay, display, tracked, hearing, heard, overwritten>>

CompareCopy ==
    /\ Setting("compare")
    /\ IF Helper(setting[1].call).shown THEN setting' = <<>> ELSE Then("send")
    /\ UNCHANGED <<opPlan, toListener, toDisplay, display, tracked, hearing, heard, overwritten>>

SendCommand ==
    /\ Setting("send")
    /\ toDisplay' = Append(toDisplay, Helper(setting[1].call).command)
    /\ Then("write")
    /\ UNCHANGED <<opPlan, toListener, display, tracked, hearing, heard, overwritten>>

\* The copy is written once the command was sent, without a lock: the network thread
\* may have written the answer and what the operator entered meanwhile.
WriteCopy ==
    /\ Setting("write")
    /\ LET call == setting[1].call
       IN /\ tracked' = Helper(call).copy
          /\ overwritten' = IF call.set = "number"
                            THEN setting[1].late /\ tracked.number # call.value ELSE overwritten
    /\ setting' = <<>>
    /\ UNCHANGED <<opPlan, toListener, toDisplay, display, hearing, heard>>

\* The tracker's callback ran before; a refused value is the one for which the
\* application's callback returns true.
process_numeric_value_change_event(told) ==
    IF told.id # NUMBER \/ tracked.number = told.value THEN <<>>
    ELSE <<NumberCommand(IF told.value \in opPlan.rejects THEN tracked.number ELSE told.value)>>

BringsNumber(m) ==
    m.function \in {"NumericValue", "ChangeNumericValue"} /\ WordAt(m.data, 1) = NUMBER

\* The network thread: first the tracker.
TrackerHears ==
    /\ toListener # <<>> /\ hearing = <<>>
    /\ LET m == Head(toListener).message
       IN /\ tracked' = Tracks(tracked, m)
          /\ IF BringsNumber(m)
             THEN /\ overwritten' = FALSE
                  /\ setting' = IF Setting("write") THEN <<[setting[1] EXCEPT !.late = TRUE]>> ELSE setting
             ELSE UNCHANGED <<setting, overwritten>>
    /\ hearing' = <<Head(toListener)>>
    /\ toListener' = Tail(toListener)
    /\ UNCHANGED <<opPlan, toDisplay, display, heard>>

\* Then the client and its listeners, the update helper among them.
ListenersHear ==
    /\ hearing # <<>>
    /\ \E m \in {hearing[1].message} : \E handled \in {Handle(m, opPlan.version)} :
          /\ toDisplay' = toDisplay \o
                (IF m.function = "NumericValue"
                 THEN process_numeric_value_change_event(handled.told[1]) ELSE <<>>)
          /\ heard' = IF hearing[1].event = <<>> THEN heard
                      ELSE <<[event |-> hearing[1].event[1], told |-> handled.told,
                              answer |-> handled.answer]>>
    /\ hearing' = <<>>
    /\ UNCHANGED <<opPlan, toListener, display, tracked, setting, overwritten>>

-----------------------------------------------------------------------------
\* The terminal: its operator, the commands it obeys, its status message. The
\* mask it reports is the one it activated the working set with.

Sends(event, m) == toListener' = Append(toListener, [event |-> event, message |-> m])

OperatorActs ==
    /\ opPlan.events # <<>>
    /\ LET e == Head(opPlan.events)
       IN /\ Sends(<<e>>, MessageOf(e, opPlan.version))
          /\ display' = IF e.event = "NumericValue" /\ e.id = NUMBER
                        THEN [display EXCEPT !.number = e.value] ELSE display
    /\ opPlan' = [opPlan EXCEPT !.events = Tail(@)]
    /\ UNCHANGED <<toDisplay, tracked, setting, hearing, heard, overwritten>>

AnswerTo(c) ==
    ToMessage(c.command,
        CASE c.command = "ChangeNumericValue" -> NumberBytes(c.id, 0, c.value)
          [] c.command = "ChangeActiveMask" -> WordBytes(c.id) \o <<0>>
          [] c.command = "ChangeSoftKeyMask" -> WordBytes(c.id) \o WordBytes(c.value) \o <<0>>)

TerminalObeys ==
    /\ toDisplay # <<>>
    /\ LET c == Head(toDisplay)
       IN /\ display' = CASE c.command = "ChangeNumericValue" -> [display EXCEPT !.number = c.value]
                          [] c.command = "ChangeActiveMask" -> [display EXCEPT !.mask = c.value]
                          [] c.command = "ChangeSoftKeyMask" -> [display EXCEPT !.soft[c.id] = c.value]
          /\ Sends(<<>>, AnswerTo(c))
    /\ toDisplay' = Tail(toDisplay)
    /\ UNCHANGED <<opPlan, tracked, setting, hearing, heard, overwritten>>

send_status_message ==
    /\ opPlan.statuses > 0
    /\ opPlan' = [opPlan EXCEPT !.statuses = @ - 1]
    /\ Sends(<<>>, ToMessage("VTStatus", <<38>> \o WordBytes(display.reported) \o WordBytes(NO_MASK)))
    /\ UNCHANGED <<toDisplay, display, tracked, setting, hearing, heard, overwritten>>

OperatorInit ==
    /\ opPlan \in OperatorPlans
    /\ toListener = <<>> /\ toDisplay = <<>> /\ heard = <<>>
    /\ setting = <<>> /\ hearing = <<>> /\ overwritten = FALSE
    /\ display = [number |-> 0, mask |-> 1, reported |-> 1, soft |-> [m \in {1, 2} |-> 10]]
    /\ tracked = [server |-> opPlan.known, number |-> 0, mask |-> IF opPlan.known THEN 1 ELSE NO_MASK,
                  history |-> <<>>, soft |-> [m \in {1} |-> 10]]

OperatorNext ==
    \/ CallHelper \/ CompareCopy \/ SendCommand \/ WriteCopy
    \/ TrackerHears \/ ListenersHear
    \/ OperatorActs \/ TerminalObeys \/ send_status_message

OperatorSpec == OperatorInit /\ [][OperatorNext]_operatorVars /\ WF_operatorVars(OperatorNext)

-----------------------------------------------------------------------------
\* Properties.

\* What an event means to a client of a terminal of the given version: older
\* versions do not say all of it, and values outside the standard say nothing.
Meant(e, version) ==
    CASE e.event \in {"SoftKey", "Button"} ->
            IF e.code \in 0..3
            THEN <<[code |-> e.code, id |-> e.id, parent |-> e.parent, key |-> e.key]>> ELSE <<>>
      [] e.event = "Pointing" ->
            <<[x |-> e.x, y |-> e.y, mask |-> IF version >= 6 THEN e.mask ELSE NO_MASK,
               code |-> IF version >= 4 THEN e.code ELSE 1]>>
      [] e.event = "SelectInput" ->
            <<[id |-> e.id, selected |-> e.selected, open |-> e.open \/ version < 4]>>
      [] e.event = "Esc" -> IF e.error \in {0, 1, 5} THEN <<[id |-> e.id, error |-> e.error]>> ELSE <<>>
      [] e.event = "NumericValue" -> <<[id |-> e.id, value |-> e.value]>>
      [] e.event = "ActiveMask" ->
            <<[mask |-> e.mask, error |-> e.error, parent |-> e.parent,
               errors |-> [missing |-> e.missing, faulty |-> e.faulty,
                           other |-> e.other, deleted |-> e.deleted]]>>
      [] e.event = "SoftKeyMask" ->
            <<[mask |-> e.mask, soft |-> e.soft,
               errors |-> [missing |-> e.missing, faulty |-> e.faulty,
                           other |-> e.other, deleted |-> e.deleted]]>>
      [] e.event = "StringValue" -> <<[id |-> e.id, text |-> SubSeq(e.text, 1, IF Len(e.text) < 255
                                                                         THEN Len(e.text) ELSE 255)]>>
      [] e.event = "LayoutHideShow" ->
            <<[id |-> e.id, hidden |-> e.hidden]>>
              \o IF e.second = NO_MASK THEN <<>> ELSE <<[id |-> e.second, hidden |-> e.secondHidden]>>
      [] e.event = "AudioTermination" -> <<[terminated |-> e.terminated]>>

\* Every event reaches the application's listeners as the operator caused it, as
\* far as a terminal of that version can tell them.
HeardAsMeant == heard # <<>> => heard[1].told = Meant(heard[1].event, opPlan.version)

\* The application's copy of the number is the terminal's once no message is on its
\* way and no call is in progress, whichever of the operator and the application
\* changed it and in whichever order the messages crossed: unless a call that had sent
\* its number wrote it to the copy only after the tracker had heard another one. The
\* code does not prevent that, and the copy then stays wrong until the next message
\* brings the number.
NumberTracked ==
    /\ opPlan.known /\ ~overwritten
    /\ toListener = <<>> /\ toDisplay = <<>> /\ setting = <<>>
    => tracked.number = display.number
=============================================================================
