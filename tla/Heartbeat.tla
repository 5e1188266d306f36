------------------------------- MODULE Heartbeat -------------------------------
\* The heartbeats one stack sends for its own control function and follows of
\* others: requests, cyclic sending, sequence counters, time-outs.
\* Source: isobus_heartbeat.cpp.
EXTENDS Integers, Sequences, SequencesExt, FiniteSetsExt

CONSTANTS
    Senders,    \* other control functions that send a heartbeat
    Top,        \* bound: where a sequence counter wraps, 250 in the code
    HeartFaults \* [refused, lost, disabled]: refused and lost frames, and whether
                \* the application may disable the interface

VARIABLES
    enabled,
    tracked,    \* Seq of [cf, age, counter] in the order they were met
    others,     \* the next counter each sender sends, and ms since it was last heard
    faults,     \* what may still go wrong
    polled,     \* an update ran since time passed
    noted       \* history: errors told to the application, senders silent too long

heartVars == <<enabled, tracked, others, faults, polled, noted>>

SEQUENCE_REPETITION_RATE_MS == 100
SEQUENCE_TIMEOUT_MS == 300
Initial == Top + 1      \* SequenceCounterSpecialValue::Initial
Me == "me"

HeartInit ==
    /\ enabled = TRUE
    /\ tracked = <<>>
    /\ others \in [Senders -> [next : {Initial, Top - 1}, silent : {0}]]
    /\ faults \in HeartFaults
    /\ polled = TRUE
    /\ noted = [errors |-> {}, late |-> {}, sent |-> FALSE]

After(counter) == IF counter + 1 > Top THEN 0 ELSE counter + 1
IndexOf(cf) == SelectInSeq(tracked, LAMBDA h : h.cf = cf)

-----------------------------------------------------------------------------
\* Another control function asks for the heartbeat of this one; the interval it
\* asks for is ignored. The first is due at once.
Requested ==
    IF IndexOf(Me) # 0 THEN tracked
    ELSE Append(tracked, [cf |-> Me, age |-> SEQUENCE_TIMEOUT_MS, counter |-> Initial])

process_request_for_heartbeat ==
    /\ enabled
    /\ tracked' = Requested
    /\ UNCHANGED <<enabled, others, faults, polled, noted>>

\* A heartbeat is heard: the last of the tracked ones takes the counter, whoever
\* sent it.
\* Mutant: only a heartbeat with the expected counter counts as heard.
Refreshed_WhenExpected(h, counter) ==
    IF counter = (h.counter + 1) % Top THEN [h EXCEPT !.age = 0] ELSE h
Refreshed(h, counter) == [h EXCEPT !.age = 0]

process_rx_message(cf, counter) ==
    LET i == IndexOf(cf)
    IN  IF i = 0
        THEN /\ tracked' = Append(tracked, [cf |-> cf, age |-> 0, counter |-> counter])
             /\ noted' = noted
        ELSE /\ tracked' = LET heard == [tracked EXCEPT ![i] = Refreshed(@, counter)]
                           IN  [heard EXCEPT ![Len(heard)].counter = counter]
             /\ noted' = IF counter = tracked[i].counter \/ counter # (tracked[i].counter + 1) % Top
                         THEN [noted EXCEPT !.errors = @ \union {<<"InvalidSequenceCounter", cf>>}]
                         ELSE noted

\* Senders count as this stack does. A frame may be lost.
SenderSends(cf) ==
    /\ others' = [others EXCEPT ![cf] = [next |-> After(@.next), silent |-> IF enabled THEN 0 ELSE @.silent]]
    /\ IF enabled THEN process_rx_message(cf, others[cf].next) ELSE UNCHANGED <<tracked, noted>>
    /\ UNCHANGED <<enabled, faults, polled>>

SenderUnheard(cf) ==
    /\ faults.lost > 0
    /\ faults' = [faults EXCEPT !.lost = @ - 1]
    /\ others' = [others EXCEPT ![cf].next = After(@)]
    /\ UNCHANGED <<enabled, tracked, polled, noted>>

set_enabled ==
    /\ faults.disabled > 0
    /\ faults' = [faults EXCEPT !.disabled = @ - 1]
    /\ enabled' = ~enabled
    /\ UNCHANGED <<tracked, others, polled, noted>>

-----------------------------------------------------------------------------
\* One pass over the tracked heartbeats. A refused frame is tried at the next one.

Due(h) == h.cf = Me /\ h.age >= SEQUENCE_REPETITION_RATE_MS
\* Mutant: a time-out does not ask whose heartbeat it is.
TimedOut_AnyType(h) == h.age >= SEQUENCE_TIMEOUT_MS
TimedOut(h) == h.cf # Me /\ h.age >= SEQUENCE_TIMEOUT_MS
AfterSend(h) == [h EXCEPT !.age = 0, !.counter = After(@)]

Refuse == faults.refused > 0 /\ faults' = [faults EXCEPT !.refused = @ - 1]

update ==
    /\ enabled /\ ~polled
    /\ polled' = TRUE
    /\ LET kept == SelectSeq(tracked, LAMBDA h : ~TimedOut(h))
           errors == noted.errors \union {<<"TimedOut", h.cf>> : h \in {x \in Range(tracked) : TimedOut(x)}}
           due == \E i \in 1..Len(kept) : Due(kept[i])
       IN  \/ /\ tracked' = [i \in 1..Len(kept) |-> IF Due(kept[i]) THEN AfterSend(kept[i]) ELSE kept[i]]
              /\ noted' = [noted EXCEPT !.errors = errors, !.sent = due]
              /\ UNCHANGED faults
           \/ due /\ Refuse /\ tracked' = kept /\ noted' = [noted EXCEPT !.errors = errors, !.sent = FALSE]
    /\ UNCHANGED <<enabled, others>>

\* 100 ms, and the update that is due runs before.
Aged(age) == Min({age + 100, SEQUENCE_TIMEOUT_MS})
TimePasses ==
    /\ polled \/ ~enabled
    /\ polled' = FALSE
    /\ tracked' = [i \in 1..Len(tracked) |-> [tracked[i] EXCEPT !.age = Aged(@)]]
    /\ others' = [s \in Senders |-> [others[s] EXCEPT !.silent = Aged(@)]]
    /\ noted' = [noted EXCEPT !.late = @ \union {s \in Senders : others'[s].silent = SEQUENCE_TIMEOUT_MS}]
    /\ UNCHANGED <<enabled, faults>>

HeartRuns == update \/ TimePasses
HeartNext ==
    \/ process_request_for_heartbeat
    \/ \E s \in Senders : SenderSends(s) \/ SenderUnheard(s)
    \/ set_enabled
    \/ HeartRuns

\* The stack calls update cyclically, and time does not stand still.
HeartSpec == HeartInit /\ [][HeartNext]_heartVars /\ WF_heartVars(HeartRuns)

-----------------------------------------------------------------------------
\* The application hears of a time-out only of a sender that was not heard for
\* the time-out while the interface was enabled, whatever its counters were.
NoFalseTimeout == \A s \in Senders : <<"TimedOut", s>> \in noted.errors => s \in noted.late

\* A heartbeat was asked for; and it went on, or the interface was disabled.
Asked == IndexOf(Me) # 0
Kept == noted.sent \/ ~enabled
=============================================================================
