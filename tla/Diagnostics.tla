------------------------------ MODULE Diagnostics ------------------------------
\* The diagnostic protocol of one control function: its lists of trouble codes,
\* the messages a service tool asks for or clears them with, the suspension of
\* its broadcasts, and the flags that carry an answer from the handler to the
\* cyclic update. The build without threads: handlers run between updates.
\* Source: isobus_diagnostic_protocol.cpp, processing_flags.cpp and
\* can_parameter_group_number_request_protocol.cpp.
EXTENDS Integers, Sequences, SequencesExt, FiniteSetsExt

CONSTANTS
    DiagnosticPlans,  \* the mode, and what the bus brings and the application does, in order
    Tools             \* the control functions that ask

VARIABLES
    plan,       \* what is still to come, and how often the driver may still refuse
    lists,      \* active and inactive trouble codes
    flags,      \* the transmit flags that are set
    at,         \* the flag the running update looks at next, Idle between updates
    polled,     \* an update ran since the last call, message or moment
    responses,  \* answers to clear requests, the newest is sent first
    pending,    \* who asked for an identification
    suspension, \* broadcasts allowed, the own time in ms, ms since the last DM13
    sinceDM1,   \* ms since the last DM1
    told        \* history: what the bus was told

diagnosticVars == <<plan, lists, flags, at, polled, responses, pending, suspension, sinceDM1, told>>

DM_MAX_FREQUENCY_MS == 1000
DM13_TIMEOUT_MS == 6000
MAX_DM13_CUSTOM_SUSPEND_TIME_MS == 64255
TickMs == 1500      \* bound: how finely time passes
OldMs == 6000       \* bound: an age that no timeout here exceeds

Identifications == {"product", "ecu", "software"}
TransmitFlags == <<"DM1", "DM2", "protocol", "product", "DM22", "ecu", "software">>
Idle == Len(TransmitFlags) + 1
Nobody == "nobody"
Lamps == {"protect", "amber", "red", "malfunction"}
Dark == [on |-> FALSE, flash |-> "solid"]
NotUsed == [l \in Lamps |-> [on |-> TRUE, flash |-> "not used"]]
Nothing == [codes |-> <<>>, lamps |-> NotUsed]

DiagnosticInit ==
    /\ plan \in DiagnosticPlans
    /\ lists = [active |-> <<>>, inactive |-> <<>>]
    /\ flags = {} /\ at = Idle /\ polled = FALSE
    /\ responses = <<>>
    /\ pending = [i \in Identifications |-> Nobody]
    /\ suspension = [broadcast |-> TRUE, custom |-> 0, since |-> 0]
    /\ sinceDM1 = 0
    /\ told = [dm1 |-> Nothing, ack |-> "none",
               asked |-> [t \in Tools |-> 0], answered |-> [t \in Tools |-> 0]]

Older(age, oldest) == Min({age + TickMs, oldest})

-----------------------------------------------------------------------------
\* The lists. A trouble code is the same when its code and its lamp are; its
\* count of occurrences has one byte.

Find(list, dtc) == SelectInSeq(list, LAMBDA e : e.code = dtc.code /\ e.lamp = dtc.lamp)
FindCode(list, code) == SelectInSeq(list, LAMBDA e : e.code = code)
Again(entry) == [entry EXCEPT !.count = (@ + 1) % 256]
First(dtc) == [code |-> dtc.code, lamp |-> dtc.lamp, count |-> 1]

\* Only a code never seen before is told at once.
\* Mutant: a code that comes back stays in the list of inactive codes.
set_active_KeepsInactive(dtc) ==
    LET i == Find(lists.inactive, dtc)
    IN  /\ Find(lists.active, dtc) = 0
        /\ lists' = [lists EXCEPT !.active = Append(@, IF i # 0 THEN Again(lists.inactive[i]) ELSE First(dtc))]
        /\ UNCHANGED <<flags, sinceDM1>>
set_active(dtc) ==
    LET i == Find(lists.inactive, dtc)
        now == i = 0 /\ sinceDM1 > DM_MAX_FREQUENCY_MS /\ suspension.broadcast
    IN  /\ Find(lists.active, dtc) = 0
        /\ lists' = IF i # 0
                    THEN [active |-> Append(lists.active, Again(lists.inactive[i])),
                          inactive |-> RemoveAt(lists.inactive, i)]
                    ELSE [lists EXCEPT !.active = Append(@, First(dtc))]
        /\ flags' = IF now THEN flags \union {"DM1"} ELSE flags
        /\ sinceDM1' = IF now THEN 0 ELSE sinceDM1

set_inactive(dtc) ==
    LET i == Find(lists.active, dtc)
    IN  /\ Find(lists.inactive, dtc) = 0 /\ i # 0
        /\ lists' = [active |-> RemoveAt(lists.active, i),
                     inactive |-> Append(lists.inactive, lists.active[i])]
        /\ UNCHANGED <<flags, sinceDM1>>

set_diagnostic_trouble_code_active(dtc, active) ==
    \/ active /\ set_active(dtc)
    \/ ~active /\ set_inactive(dtc)
    \/ Find(IF active THEN lists.active ELSE lists.inactive, dtc) # 0
         /\ UNCHANGED <<lists, flags, sinceDM1>>
    \/ ~active /\ Find(lists.active \o lists.inactive, dtc) = 0
         /\ UNCHANGED <<lists, flags, sinceDM1>>

clear_active_diagnostic_trouble_codes ==
    /\ lists' = [active |-> <<>>, inactive |-> lists.inactive \o lists.active]
    /\ flags' = IF suspension.broadcast THEN flags \union {"DM1"} ELSE flags

clear_inactive_diagnostic_trouble_codes == lists' = [lists EXCEPT !.inactive = <<>>]

\* ISO 11783-5: another device uses this address. J1939 has no such code.
on_address_violation(dtc) ==
    IF plan.j1939 THEN UNCHANGED <<lists, flags, sinceDM1>>
    ELSE set_diagnostic_trouble_code_active(dtc, TRUE)

\* The announcement of the application's own suspension: seconds are kept where
\* milliseconds are compared.
suspend_broadcasts(seconds) ==
    suspension' = [broadcast |-> FALSE, since |-> 0,
                   custom |-> IF suspension.custom < MAX_DM13_CUSTOM_SUSPEND_TIME_MS
                              THEN seconds ELSE suspension.custom]

ApplicationActs ==
    /\ at = Idle /\ plan.application # <<>>
    /\ plan' = [plan EXCEPT !.application = Tail(@)]
    /\ LET call == Head(plan.application)
       IN  \/ /\ call.do \in {"raise", "lower"}
              /\ set_diagnostic_trouble_code_active(call.dtc, call.do = "raise")
              /\ UNCHANGED suspension
           \/ call.do = "violation" /\ on_address_violation(call.dtc) /\ UNCHANGED suspension
           \/ call.do = "suspend" /\ suspend_broadcasts(call.seconds) /\ UNCHANGED <<lists, flags, sinceDM1>>
    /\ polled' = FALSE
    /\ UNCHANGED <<at, responses, pending, told>>

-----------------------------------------------------------------------------
\* What the bus brings.

Answer(m, nack, reason) == [to |-> m.from, code |-> m.code, active |-> m.active, nack |-> nack, reason |-> reason]

\* A request to clear names a code without its lamp, the first match is taken.
process_dm22(m) ==
    LET mine == IF m.active THEN lists.active ELSE lists.inactive
        others == IF m.active THEN lists.inactive ELSE lists.active
        i == FindCode(mine, m.code)
        refusal == IF FindCode(others, m.code) = 0 THEN "unknown"
                   ELSE IF m.active THEN "no longer active" ELSE "active again"
    IN  /\ lists' = IF i = 0 THEN lists
                    ELSE IF m.active
                    THEN [active |-> RemoveAt(lists.active, i), inactive |-> Append(lists.inactive, lists.active[i])]
                    ELSE [lists EXCEPT !.inactive = RemoveAt(@, i)]
        /\ responses' = Append(responses, Answer(m, i = 0, IF i = 0 THEN refusal ELSE "done"))
        /\ flags' = flags \union {"DM22"}
        /\ told' = [told EXCEPT !.asked[m.from] = @ + 1]
        /\ UNCHANGED <<pending, suspension>>

\* The time is read one byte too early: with the suspend signal as its low byte.
Suspended(s, m) ==
    CASE m.signal \in {"temporary", "partial temporary"} ->
            LET ms == 256 * (m.seconds % 256) + 240 + (IF m.signal = "temporary" THEN 2 ELSE 3)
            IN  [s EXCEPT !.broadcast = FALSE,
                          !.custom = IF ms < MAX_DM13_CUSTOM_SUSPEND_TIME_MS THEN ms ELSE 0]
      [] m.signal \in {"indefinite", "partial indefinite"} -> [s EXCEPT !.broadcast = FALSE, !.custom = 0]
      [] OTHER -> [s EXCEPT !.broadcast = FALSE]

\* The own network's two bits are looked for in the first byte, which holds four
\* networks: for any other they are read as zero, the command to stop.
OwnCommand(m) ==
    IF plan.network > 3 THEN "stop" ELSE IF plan.network = 3 THEN m.link ELSE m.own

parse_j1939_network_states(m) ==
    LET own == CASE OwnCommand(m) = "stop" -> Suspended(suspension, m)
                 [] OwnCommand(m) = "start" -> [suspension EXCEPT !.broadcast = TRUE]
                 [] OTHER -> suspension
        link == CASE m.link = "stop" -> Suspended(own, m)
                  [] m.link = "start" -> [own EXCEPT !.broadcast = TRUE, !.custom = 0]
                  [] OTHER -> own
    IN  suspension' = [link EXCEPT !.since = 0]

\* The first to ask for an identification is remembered, another is not.
process_parameter_group_number_request(m) ==
    CASE m.pgn \in {"DM1", "DM2", "protocol"} ->
            flags' = flags \union {m.pgn} /\ UNCHANGED <<lists, pending, told>>
      [] m.pgn = "DM3" ->
            /\ clear_inactive_diagnostic_trouble_codes
            /\ told' = [told EXCEPT !.ack = IF m.toAll THEN @ ELSE "positive"]
            /\ UNCHANGED <<flags, pending>>
      [] m.pgn = "DM11" ->
            /\ clear_active_diagnostic_trouble_codes
            /\ told' = [told EXCEPT !.ack = IF m.toAll THEN @ ELSE "positive"]
            /\ UNCHANGED pending
      [] m.pgn \in Identifications ->
            /\ pending' = IF pending[m.pgn] = Nobody THEN [pending EXCEPT ![m.pgn] = m.from] ELSE pending
            /\ flags' = flags \union {m.pgn}
            /\ UNCHANGED <<lists, told>>

\* No callback handles the requested message.
process_other_request(m) ==
    /\ told' = [told EXCEPT !.ack = IF m.toAll THEN @ ELSE "negative"]
    /\ UNCHANGED <<lists, flags, pending>>

Handled == {"DM1", "DM2", "DM3", "DM11", "protocol"} \union Identifications

process_message ==
    /\ at = Idle /\ plan.bus # <<>>
    /\ plan' = [plan EXCEPT !.bus = Tail(@)]
    /\ LET m == Head(plan.bus)
       IN  \/ m.kind = "DM22" /\ process_dm22(m)
           \/ /\ m.kind = "DM13" /\ parse_j1939_network_states(m)
              /\ UNCHANGED <<lists, flags, responses, pending, told>>
           \/ /\ m.kind = "request"
              /\ IF m.pgn \in Handled THEN process_parameter_group_number_request(m)
                                      ELSE process_other_request(m)
              /\ UNCHANGED <<responses, suspension>>
    /\ polled' = FALSE
    /\ UNCHANGED <<at, sinceDM1>>

-----------------------------------------------------------------------------
\* The lamps of a list, one entry after the other.

\* Mutant: the last flashing entry decides.
Lit_LastDecides(lamp, dtc) ==
    [on |-> TRUE, flash |-> IF dtc.lamp.flash = "solid" THEN lamp.flash ELSE dtc.lamp.flash]
Lit(lamp, dtc) ==
    [on |-> TRUE,
     flash |-> CASE dtc.lamp.flash = "solid" -> lamp.flash
                 [] dtc.lamp.flash = "slow" -> IF lamp.flash = "fast" THEN "fast" ELSE "slow"
                 [] dtc.lamp.flash = "fast" -> "fast"]

get_list_lamp_state_and_flash_state(list, light) ==
    FoldLeft(LAMBDA lamp, dtc : IF dtc.lamp.light = light THEN Lit(lamp, dtc) ELSE lamp, Dark, list)

\* At most 445 codes fit; the lists here are far shorter.
Report(list) ==
    [codes |-> list,
     lamps |-> IF plan.j1939 THEN [l \in Lamps |-> get_list_lamp_state_and_flash_state(list, l)] ELSE NotUsed]

-----------------------------------------------------------------------------
\* The update: timers first, then one flag after the other. A flag is cleared,
\* its message is tried, and it is set again when that failed.

\* Mutant: the last active code is not announced.
AnythingToReport_Two == plan.j1939 \/ Len(lists.active) > 1
AnythingToReport == plan.j1939 \/ lists.active # <<>>

update ==
    LET over == suspension.since >= (IF suspension.custom # 0 THEN suspension.custom ELSE DM13_TIMEOUT_MS)
        due == (suspension.broadcast \/ over) /\ AnythingToReport /\ sinceDM1 >= DM_MAX_FREQUENCY_MS
    IN  /\ at = Idle /\ ~polled
        /\ polled' = TRUE
        /\ suspension' = IF over THEN [suspension EXCEPT !.broadcast = TRUE, !.custom = 0] ELSE suspension
        /\ flags' = IF due THEN flags \union {"DM1"} ELSE flags
        /\ sinceDM1' = IF due THEN 0 ELSE sinceDM1
        /\ at' = IF flags' = {} THEN Idle ELSE 1
        /\ UNCHANGED <<plan, lists, responses, pending, told>>

Tried(sent) == /\ sent \/ plan.refusals > 0
               /\ plan' = IF sent THEN plan ELSE [plan EXCEPT !.refusals = @ - 1]

send_diagnostic_message(flag, sent) ==
    /\ Tried(sent)
    /\ told' = IF sent /\ flag = "DM1" THEN [told EXCEPT !.dm1 = Report(lists.active)] ELSE told
    /\ sinceDM1' = IF sent /\ flag = "DM1" THEN 0 ELSE sinceDM1
    /\ UNCHANGED <<responses, pending>>

send_diagnostic_protocol_identification(sent) ==
    Tried(sent) /\ UNCHANGED <<responses, pending, sinceDM1, told>>

\* To the one who asked when it needs a session, to all otherwise. A refused
\* message is repeated, but the one who asked is forgotten.
send_identification(flag, sent) ==
    /\ Tried(sent)
    /\ pending' = [pending EXCEPT ![flag] = Nobody]
    /\ UNCHANGED <<responses, sinceDM1, told>>

\* Without software fields nothing is sent, and the flag stays for ever.
send_no_identification == UNCHANGED <<plan, responses, pending, sinceDM1, told>>

\* As many attempts as there are answers, each with the newest one that is left;
\* the flag goes by the last attempt.
\* Mutant: an answer is gone even if it was refused.
Left_Popped(refused) == 0
Left(refused) == refused

process_all_dm22_responses(sent) ==
    \E refused \in 0..Min({Len(responses), plan.refusals}) :
        /\ IF sent THEN refused < Len(responses) ELSE refused > 0
        /\ plan' = [plan EXCEPT !.refusals = @ - refused]
        /\ responses' = SubSeq(responses, 1, Left(refused))
        /\ told' = [told EXCEPT !.answered = [t \in Tools |->
                       @[t] + Cardinality({i \in (refused + 1)..Len(responses) : responses[i].to = t})]]
        /\ UNCHANGED <<pending, sinceDM1>>

Sent(flag, sent) ==
    CASE flag \in {"DM1", "DM2"} -> send_diagnostic_message(flag, sent)
      [] flag = "protocol" -> send_diagnostic_protocol_identification(sent)
      [] flag = "DM22" -> process_all_dm22_responses(sent)
      [] flag = "software" /\ ~plan.software -> ~sent /\ send_no_identification
      [] OTHER -> send_identification(flag, sent)

\* Mutant: a flag whose message was refused is not set again.
process_flags_Once(flag, sent) == flags \ {flag}
process_flags(flag, sent) == IF sent THEN flags \ {flag} ELSE flags

process_all_flags ==
    /\ at # Idle
    /\ LET flag == TransmitFlags[at]
       IN  IF flag \in flags
           THEN \E sent \in BOOLEAN : Sent(flag, sent) /\ flags' = process_flags(flag, sent)
           ELSE UNCHANGED <<plan, responses, pending, sinceDM1, told, flags>>
    /\ at' = IF \E later \in (at + 1)..Len(TransmitFlags) : TransmitFlags[later] \in flags'
             THEN Min({later \in (at + 1)..Len(TransmitFlags) : TransmitFlags[later] \in flags'})
             ELSE Idle
    /\ UNCHANGED <<lists, suspension, polled>>

TimePasses ==
    /\ at = Idle
    /\ sinceDM1' = Older(sinceDM1, TickMs)
    /\ suspension' = [suspension EXCEPT !.since = Older(@, OldMs)]
    /\ polled' = FALSE
    /\ UNCHANGED <<plan, lists, flags, at, responses, pending, told>>

DiagnosticRuns == update \/ process_all_flags \/ TimePasses
DiagnosticNext == ApplicationActs \/ process_message \/ DiagnosticRuns

\* The application calls update cyclically, and time does not stand still.
DiagnosticSpec == DiagnosticInit /\ [][DiagnosticNext]_diagnosticVars /\ WF_diagnosticVars(DiagnosticRuns)

-----------------------------------------------------------------------------
\* A trouble code is in one list and there once, whatever the application, the
\* tools and the address violations do to it.
DTCsOnce ==
    \A i, j \in 1..Len(lists.active \o lists.inactive) :
        LET all == lists.active \o lists.inactive
        IN  all[i].code = all[j].code /\ all[i].lamp = all[j].lamp => i = j

\* Each request to clear a code has its one answer, sent or waiting.
EveryClearOneAnswer ==
    \A t \in Tools :
        told.asked[t] = told.answered[t] + Cardinality({i \in 1..Len(responses) : responses[i].to = t})

\* A DM1 shows a lamp when a reported code wants it, with the fastest flash that
\* one of them wants.
Flashes(codes, light) == {codes[i].lamp.flash : i \in {k \in 1..Len(codes) : codes[k].lamp.light = light}}
LampsAsReported ==
    told.dm1.codes # <<>> /\ plan.j1939 =>
        \A light \in Lamps :
            LET wanted == Flashes(told.dm1.codes, light)
            IN  told.dm1.lamps[light] =
                  [on |-> wanted # {},
                   flash |-> CHOOSE f \in {"solid", "slow", "fast"} :
                       IF wanted \subseteq {"solid"} THEN f = "solid"
                       ELSE IF "fast" \in wanted THEN f = "fast" ELSE f = "slow"]

\* A code that is active was reported in a DM1.
Reported(code) == \E i \in 1..Len(told.dm1.codes) : told.dm1.codes[i].code = code
IsActive(code) == \E i \in 1..Len(lists.active) : lists.active[i].code = code
ActiveIsReported(code) == IsActive(code) => Reported(code)

\* The codes of every plan.
Codes == UNION {{c.dtc.code : c \in {d \in Range(p.application) : d.do \in {"raise", "violation"}}} :
                   p \in DiagnosticPlans}

\* An answer waits alone, with no other that joined it.
OneAnswerWaits == "DM22" \in flags /\ Len(responses) = 1
=============================================================================
