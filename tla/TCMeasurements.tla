---------------------------- MODULE TCMeasurements ----------------------------
\* What a task controller client does with the requests, commands and measurement
\* triggers of the server, for one process data variable: the network thread
\* queues and arms, the worker's passes poll the application and send.
\* Source: isobus_task_controller_client.cpp.
EXTENDS Integers, Sequences, SequencesExt, FiniteSetsExt

CONSTANTS
    MeasurePlans,   \* what the server sends and the application does, each in order
    MaxClock        \* bound: the time that passes

VARIABLES
    ahead,      \* the server's messages and the application's calls still to come
    refusals,   \* how often the driver may still refuse a value
    clock, polled,  \* the time, and whether the worker has passed since it changed
    data,       \* the application's variable: value, value sent and commanded set point
    client,     \* queues and flags of the client
    trigger,    \* its measurement triggers by kind
    phase,      \* where the worker's pass is
    heard       \* history: what the server was told and what was lost to a race

measureVars == <<ahead, refusals, clock, polled, data, client, trigger, phase, heard>>

Thresholds == {"max", "min"}
Kinds == Thresholds \union {"time", "change", "distance"}
Marking == [time |-> "mark time", max |-> "mark max", min |-> "mark min", change |-> "mark change"]
Unarmed == [armed |-> FALSE, limit |-> 0, last |-> 0, passed |-> FALSE]
Fresh == [k \in Thresholds |-> FALSE]
NewQueues == [requests |-> 0, commands |-> <<>>]

MeasureInit ==
    /\ ahead \in MeasurePlans
    /\ refusals = 1
    /\ clock = 0 /\ polled = FALSE
    /\ data = [value |-> 0, sent |-> 0, setpoint |-> 0, commanded |-> 0, distance |-> 0]
    /\ client = [connected |-> TRUE, queues |-> NewQueues, default |-> FALSE]
    /\ trigger = [k \in Kinds |-> Unarmed]
    /\ phase = "idle"
    /\ heard = [reported |-> Fresh, raced |-> FALSE]

Beyond(kind, limit, value) == IF kind = "max" THEN value > limit ELSE value < limit
Back(kind, limit, value) == IF kind = "max" THEN value < limit ELSE value > limit

-----------------------------------------------------------------------------
\* Arming: a trigger that exists gets the new limit and is ready to fire again,
\* but keeps the time, distance or value it counts from.

add_measurement(t, limit, last) ==
    IF t.armed THEN [t EXCEPT !.limit = limit, !.passed = FALSE]
    ELSE [armed |-> TRUE, limit |-> limit, last |-> last, passed |-> FALSE]

Measurement(kind, limit) ==
    /\ trigger' = [trigger EXCEPT ![kind] =
                      add_measurement(@, limit, IF kind = "time" THEN clock ELSE 0)]
    /\ heard' = IF kind \in Thresholds
                THEN [heard EXCEPT !.reported[kind] = FALSE, !.raced = @ \/ phase = Marking[kind]]
                ELSE heard
    /\ UNCHANGED <<data, client>>

\* What the application answers for its defaults, where the pool allows the
\* trigger. The minimum that is armed is the flag that enables it.
DefaultLimit(kind, limits) == IF kind = "min" THEN 1 ELSE limits[kind]
populate_any_triggers_from_settings(limits) ==
    [k \in Kinds |-> IF k \in DOMAIN limits
                     THEN add_measurement(trigger[k], DefaultLimit(k, limits), 0) ELSE trigger[k]]

-----------------------------------------------------------------------------
\* The network thread, and the application's threads.

process_rx_message(m) ==
    CASE m.command \in Kinds -> Measurement(m.command, m.value)
      [] m.command = "request" ->
            /\ client' = [client EXCEPT !.queues.requests = @ + 1]
            /\ UNCHANGED <<data, trigger, heard>>
      [] m.command = "default" ->
            /\ client' = [client EXCEPT !.queues.requests = @ + 1, !.default = TRUE]
            /\ UNCHANGED <<data, trigger, heard>>
      [] m.command \in {"set", "setAck"} ->
            /\ client' = [client EXCEPT !.queues.commands =
                             Append(@, [value |-> m.value, ack |-> m.command = "setAck"])]
            /\ data' = [data EXCEPT !.commanded = m.value]
            /\ UNCHANGED <<trigger, heard>>

ServerSends ==
    /\ ahead.server # <<>>
    /\ process_rx_message(Head(ahead.server))
    /\ ahead' = [ahead EXCEPT !.server = Tail(@)]
    /\ UNCHANGED <<refusals, clock, polled, phase>>

\* The sum of 32 bits is not bounded here: distances stay far below.
set_distance(distance) ==
    LET due == trigger["distance"].armed
                 /\ distance >= trigger["distance"].last + trigger["distance"].limit
    IN  /\ data' = [data EXCEPT !.distance = distance]
        /\ client' = IF due THEN [client EXCEPT !.queues.requests = @ + 1] ELSE client
        /\ trigger' = IF due THEN [trigger EXCEPT !["distance"].last = distance] ELSE trigger

on_value_changed_trigger ==
    /\ client' = [client EXCEPT !.queues.requests = @ + 1]
    /\ UNCHANGED <<data, trigger>>

ApplicationCalls ==
    /\ ahead.application # <<>>
    /\ LET call == Head(ahead.application)
       IN  CASE call.do = "value" ->
                  data' = [data EXCEPT !.value = call.value] /\ UNCHANGED <<client, trigger>>
             [] call.do = "distance" -> set_distance(call.value)
             [] call.do = "changed" -> on_value_changed_trigger
    /\ ahead' = [ahead EXCEPT !.application = Tail(@)]
    /\ UNCHANGED <<refusals, clock, polled, phase, heard>>

\* Entering Disconnected clears the queues and the triggers, in the middle of the
\* worker's pass too. A request for the defaults outlives the session.
SessionEnds ==
    /\ client.connected /\ ahead.ends > 0
    /\ ahead' = [ahead EXCEPT !.ends = @ - 1]
    /\ client' = [client EXCEPT !.connected = FALSE, !.queues = NewQueues]
    /\ trigger' = [k \in Kinds |-> Unarmed]
    /\ data' = [data EXCEPT !.commanded = data.setpoint]
    /\ heard' = [heard EXCEPT !.reported = Fresh]
    /\ UNCHANGED <<refusals, clock, polled, phase>>

SessionStarts ==
    /\ ~client.connected
    /\ client' = [client EXCEPT !.connected = TRUE]
    /\ UNCHANGED <<ahead, refusals, clock, polled, data, trigger, phase, heard>>

-----------------------------------------------------------------------------
\* The worker's pass.

Refuse == refusals > 0 /\ refusals' = refusals - 1

\* Every value sent tells the server on which side of its limits the value is.
Told ==
    [heard EXCEPT !.reported = [k \in Thresholds |->
        @[k] \/ (trigger[k].armed /\ Beyond(k, trigger[k].limit, data.value))]]

PassStarts ==
    /\ phase = "idle" /\ ~polled
    /\ trigger' = IF client.default THEN populate_any_triggers_from_settings(ahead.defaults) ELSE trigger
    /\ heard' = IF client.default
                THEN [heard EXCEPT !.reported = [k \in Thresholds |-> @[k] /\ k \notin DOMAIN ahead.defaults]]
                ELSE heard
    /\ client' = [client EXCEPT !.default = FALSE]
    /\ phase' = IF client.connected THEN "queues" ELSE "end"
    /\ UNCHANGED <<ahead, refusals, clock, polled, data>>

\* A request is gone even if its value is refused, which ends the pass over the
\* queues; commands whose acknowledgement is refused are not repeated either.
\* Mutant: of the commands that wait the oldest is applied last.
Applied_Reversed(commands) == Head(commands).value
Applied(commands) == Last(commands).value

process_queued_commands ==
    /\ phase = "queues"
    /\ LET q == client.queues
           upTo(n) == [client EXCEPT !.queues = [requests |-> 0, commands |-> SubSeq(@.commands, n + 1, Len(@.commands))]]
           apply(n) == IF n = 0 THEN data ELSE [data EXCEPT !.setpoint = Applied(SubSeq(q.commands, 1, n))]
       IN  \/ /\ client' = upTo(Len(q.commands)) /\ data' = apply(Len(q.commands))
              /\ heard' = IF q.requests > 0 THEN Told ELSE heard
              /\ UNCHANGED refusals
           \/ /\ q.requests > 0 /\ Refuse
              /\ \E n \in 1..q.requests :
                    /\ client' = [client EXCEPT !.queues.requests = @ - n]
                    /\ heard' = IF n > 1 THEN Told ELSE heard
              /\ UNCHANGED data
           \/ /\ Refuse
              /\ \E n \in 1..Len(q.commands) :
                    q.commands[n].ack /\ client' = upTo(n) /\ data' = apply(n)
              /\ heard' = IF q.requests > 0 THEN Told ELSE heard
    /\ phase' = "time"
    /\ UNCHANGED <<ahead, clock, polled, trigger>>

NextPhase == [time |-> "max", max |-> "min", min |-> "change", change |-> "end"]

\* Mutant: a value that fell is no change.
Due_Rising(kind, t) ==
    CASE kind = "time" -> clock - t.last >= t.limit
      [] kind \in Thresholds -> ~t.passed /\ Beyond(kind, t.limit, data.value)
      [] kind = "change" -> data.value >= t.last + t.limit
Due(kind, t) ==
    CASE kind = "time" -> clock - t.last >= t.limit
      [] kind \in Thresholds -> ~t.passed /\ Beyond(kind, t.limit, data.value)
      [] kind = "change" ->
            /\ data.value # t.last
            /\ data.value >= t.last + t.limit \/ data.value <= Max({t.last - t.limit, 0})

\* Mutant: a threshold counts as passed although its value was refused.
AfterSend_Refused(kind, sent) == Marking[kind]
AfterSend(kind, sent) == IF sent THEN Marking[kind] ELSE NextPhase[kind]

\* The triggers are read and changed without the mutex that the network thread
\* holds: it may change one between the sending and the marking.
process_queued_threshold_commands(kind) ==
    /\ phase = kind
    /\ LET t == trigger[kind]
       IN  IF t.armed /\ Due(kind, t)
           THEN /\ \/ heard' = Told /\ phase' = AfterSend(kind, TRUE) /\ UNCHANGED refusals
                   \/ Refuse /\ phase' = AfterSend(kind, FALSE) /\ UNCHANGED heard
                /\ data' = [data EXCEPT !.sent = data.value]
                /\ UNCHANGED trigger
           ELSE /\ phase' = NextPhase[kind]
                /\ LET rearmed == kind \in Thresholds /\ t.armed /\ t.passed /\ Back(kind, t.limit, data.value)
                   IN  /\ trigger' = IF rearmed THEN [trigger EXCEPT ![kind].passed = FALSE] ELSE trigger
                       /\ heard' = IF rearmed THEN [heard EXCEPT !.reported[kind] = FALSE] ELSE heard
                /\ UNCHANGED <<refusals, data>>
    /\ UNCHANGED <<ahead, clock, polled, client>>

Mark(kind) ==
    /\ phase = Marking[kind]
    /\ trigger' = IF ~trigger[kind].armed THEN trigger
                  ELSE CASE kind = "time" -> [trigger EXCEPT !["time"].last = clock]
                         [] kind \in Thresholds -> [trigger EXCEPT ![kind].passed = TRUE]
                         [] kind = "change" -> [trigger EXCEPT !["change"].last = data.sent]
    /\ phase' = NextPhase[kind]
    /\ UNCHANGED <<ahead, refusals, clock, polled, data, client, heard>>

PassEnds ==
    /\ phase = "end"
    /\ phase' = "idle" /\ polled' = TRUE
    /\ UNCHANGED <<ahead, refusals, clock, data, client, trigger, heard>>

\* The worker passes every fifty milliseconds, far more often than time triggers
\* are due and values change.
TimePasses ==
    /\ phase = "idle" /\ polled
    /\ polled' = FALSE
    /\ clock' = IF clock < MaxClock THEN clock + 1 ELSE clock
    /\ UNCHANGED <<ahead, refusals, data, client, trigger, phase, heard>>

Worker ==
    \/ PassStarts \/ process_queued_commands \/ PassEnds \/ TimePasses
    \/ \E kind \in DOMAIN NextPhase : process_queued_threshold_commands(kind) \/ Mark(kind)

MeasureNext == Worker \/ ServerSends \/ ApplicationCalls \/ SessionEnds \/ SessionStarts

MeasureSpec == MeasureInit /\ [][MeasureNext]_measureVars /\ WF_measureVars(Worker)

-----------------------------------------------------------------------------
\* A threshold counts as passed only if the server has heard of a value beyond
\* this limit since it set it, unless it set it while the older one's was marked.
ReportedWasSent ==
    heard.raced \/ \A k \in Thresholds : trigger[k].passed => heard.reported[k]

\* Once the queue is empty the application's set point is the last one that the
\* server commanded in this session, whatever acknowledgement was refused.
LastCommandWins ==
    client.queues.commands = <<>> => data.setpoint = data.commanded

\* A value beyond a limit, far enough from the last one, or overdue was not told,
\* or the queues are not empty.
Untold ==
    \/ client.connected /\ ~heard.raced /\ \E k \in Thresholds :
          trigger[k].armed /\ Beyond(k, trigger[k].limit, data.value) /\ ~heard.reported[k]
    \/ /\ client.connected /\ trigger["change"].armed /\ data.value # trigger["change"].last
       /\ \/ data.value - trigger["change"].last >= trigger["change"].limit
          \/ trigger["change"].last - data.value >= trigger["change"].limit
    \/ /\ client.connected /\ trigger["time"].armed /\ clock < MaxClock
       /\ clock - trigger["time"].last >= trigger["time"].limit
    \/ client.connected /\ client.queues # NewQueues
=============================================================================
