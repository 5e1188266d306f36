----------------------------- MODULE ShortcutButton -----------------------------
\* The shortcut button that stops all implements: servers whose operators press and
\* release it, and an implement that hears them.
\* Source: isobus_shortcut_button_interface.cpp.
EXTENDS Integers, Sequences, SequencesExt

CONSTANTS
    Buttons,        \* the servers
    MaxNumber,      \* bound: where a transition number wraps, 255 in the code
    ButtonFaults    \* [refused, lost, pressed, leaves, numbers]: frames refused and lost,
                    \* presses and releases that remain, buttons that leave the bus, and
                    \* how often each has sent before

VARIABLES
    button,     \* of each server: commanded state, flag, transition number
    heard,      \* isobusShorcutButtonList: Seq of [isb, state, number, age]
    told,       \* history: the last event of the implement's application
    trouble,    \* what may still happen
    updated     \* who has run an update in this second

buttonVars == <<button, heard, told, trouble, updated>>

\* TRANSMISSION_TIMEOUT_MS in seconds. After the first second every update sends,
\* nothing restarts the interval.
TRANSMISSION_TIMEOUT == 3
Implement == "implement"

ButtonInit ==
    /\ trouble \in ButtonFaults
    /\ button = [b \in Buttons |-> [state |-> "permit", flag |-> FALSE, number |-> trouble.numbers[b], gone |-> FALSE]]
    /\ heard = <<>>
    /\ told = "permit"
    /\ updated = Buttons \union {Implement}

\* Any stop stops.
get_state(list) == IF \E i \in 1..Len(list) : list[i].state = "stop" THEN "stop" ELSE "permit"

set_stop_all_implement_operations_state(b) ==
    /\ trouble.pressed > 0 /\ ~button[b].gone
    /\ button' = [button EXCEPT ![b].state = IF @ = "stop" THEN "permit" ELSE "stop", ![b].flag = TRUE]
    /\ trouble' = [trouble EXCEPT !.pressed = @ - 1]
    /\ UNCHANGED <<heard, told, updated>>

-----------------------------------------------------------------------------
\* A number that grew by more than one hides a transition; at the wrap it does not.
Missed(old, new) == IF old = MaxNumber THEN new # 0 ELSE new > old + 1

\* The entry after a message.
Heard(entry, state, number) ==
    [entry EXCEPT !.state = IF Missed(entry.number, number) THEN "stop" ELSE state,
                  !.number = number, !.age = 0]

\* The list with an entry for this server.
\* Mutant: the entry met last serves for every server.
Listed_Last(b) == IF heard = <<>> THEN <<[isb |-> b, state |-> "permit", number |-> 0, age |-> 0]>> ELSE heard
Listed(b) ==
    IF \E i \in 1..Len(heard) : heard[i].isb = b THEN heard
    ELSE Append(heard, [isb |-> b, state |-> "permit", number |-> 0, age |-> 0])

\* The event an application hears: of the state of all, not of this server.
\* Mutant: of this server's change.
Told_OfOne(old, new, i) == IF old[i].state # new[i].state THEN new[i].state ELSE told
Told(old, new, i) == IF get_state(old) # get_state(new) THEN get_state(new) ELSE told

process_message(b, state, number) ==
    LET list == Listed(b)
        found == SelectInSeq(list, LAMBDA e : e.isb = b)
        i == IF found = 0 THEN Len(list) ELSE found
    IN  /\ heard' = [list EXCEPT ![i] = Heard(list[i], state, number)]
        /\ told' = Told(list, heard', i)

\* A server's update sends; a number counts every message, not every transition.
Sent(b) == [button[b] EXCEPT !.flag = FALSE, !.number = IF @ = MaxNumber THEN 0 ELSE @ + 1]
process_flags(b) ==
    \/ /\ process_message(b, button[b].state, button[b].number)
       /\ button' = [button EXCEPT ![b] = Sent(b)]
       /\ UNCHANGED trouble
    \/ /\ trouble.lost > 0
       /\ trouble' = [trouble EXCEPT !.lost = @ - 1]
       /\ button' = [button EXCEPT ![b] = Sent(b)]
       /\ UNCHANGED <<heard, told>>
    \/ /\ trouble.refused > 0
       /\ trouble' = [trouble EXCEPT !.refused = @ - 1]
       /\ button' = [button EXCEPT ![b].flag = TRUE]
       /\ UNCHANGED <<heard, told>>

update(b) ==
    /\ b \notin updated /\ ~button[b].gone
    /\ process_flags(b)
    /\ updated' = updated \union {b}

\* What the servers hear of each other is left out.
\* The implement forgets who is silent; nobody is told.
\* Mutant: a stop is kept until its button lifts it.
Stale_NoStop(e) == e.age >= TRANSMISSION_TIMEOUT /\ e.state = "permit"
Stale(e) == e.age >= TRANSMISSION_TIMEOUT

Prune ==
    /\ Implement \notin updated
    /\ heard' = SelectSeq(heard, LAMBDA e : ~Stale(e))
    /\ updated' = updated \union {Implement}
    /\ UNCHANGED <<button, told, trouble>>

ButtonLeaves(b) ==
    /\ b \in trouble.leaves /\ ~button[b].gone
    /\ button' = [button EXCEPT ![b].gone = TRUE]
    /\ updated' = updated \union {b}
    /\ UNCHANGED <<heard, told, trouble>>

SecondPasses ==
    /\ updated = Buttons \union {Implement}
    /\ updated' = {b \in Buttons : button[b].gone}
    /\ heard' = [i \in 1..Len(heard) |-> [heard[i] EXCEPT !.age = IF @ = TRANSMISSION_TIMEOUT THEN @ ELSE @ + 1]]
    /\ UNCHANGED <<button, told, trouble>>

ButtonsRun == (\E b \in Buttons : update(b)) \/ Prune \/ SecondPasses
ButtonNext ==
    \/ \E b \in Buttons : set_stop_all_implement_operations_state(b) \/ ButtonLeaves(b)
    \/ ButtonsRun

\* The applications update cyclically, and time does not stand still.
ButtonSpec == ButtonInit /\ [][ButtonNext]_buttonVars /\ WF_buttonVars(ButtonsRun)

-----------------------------------------------------------------------------
\* While the implement is stopped its application has been told so, whichever of
\* the servers stopped it and in whatever order they were heard.
StopTold == get_state(heard) = "stop" => told = "stop"

\* A stop that was heard is lifted only by the server that gave it, or when it has
\* been silent for the time-out.
Stopping == {heard[i].isb : i \in {j \in 1..Len(heard) : heard[j].state = "stop"}}
Silent == {heard[i].isb : i \in {j \in 1..Len(heard) : heard[j].age = TRANSMISSION_TIMEOUT}}
LiftedByItsButton ==
    \A b \in Stopping \ Stopping' : button[b].state = "permit" \/ b \in Silent

\* All buttons are released or have left; and the implement may work.
AllReleased == \A b \in Buttons : button[b].state = "permit" \/ button[b].gone
MayWork == get_state(heard) = "permit"
=============================================================================
