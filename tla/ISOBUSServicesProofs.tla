------------------------ MODULE ISOBUSServicesProofs ------------------------
(***************************************************************************)
(* Proofs about the services of ISOBUSServices: the power that the tractor *)
(* keeps on after its key was turned off, the measurements of a task       *)
(* controller client, and the trouble codes and the answers to requests to *)
(* clear them.                                                             *)
(***************************************************************************)
EXTENDS ISOBUSServices, WellFoundedInduction, FiniteSetTheorems, TLAPS

Ages == {-1, 0, 500, 1000, 1500, 2000}

Plans == [time : Nat, turns : Nat, refused : 0..1]

Histories == [gap : Ages, turned : Nat, told : Nat,
              last : {"unknown", "off", "notOff", "error"}]

(* Types of the key switch; ages are whole steps, -1 when none.            *)
KeyTypeOK ==
    /\ keyPlan \in Plans
    /\ keyOff \in Nat \cup {-1}
    /\ keyNotOff \in BOOLEAN /\ sendFlag \in BOOLEAN /\ ranSince \in BOOLEAN
    /\ sinceSent \in Ages
    /\ power \in Histories

(* What the interface and the history say of the last state is the same.   *)
TurnInv ==
    /\ keyNotOff <=> power.last = "notOff"
    /\ power.told = power.turned
    /\ power.gap # -1 => sinceSent # -1 /\ keyOff # -1

(* While power is kept: a message is due before two steps have passed, a   *)
(* message that was not refused is not older than its timestamp, and a     *)
(* refused one is repeated by the next update.                             *)
GapInv ==
    power.gap # -1 /\ keyOff < keyPlan.time =>
        /\ sinceSent <= IF ranSince THEN 500 ELSE 1000
        /\ ~sendFlag \/ keyPlan.refused = 1 => power.gap <= sinceSent
        /\ sendFlag => power.gap <= IF ranSince THEN 1000 ELSE 1500

KeyInv == KeyTypeOK /\ TurnInv /\ GapInv

ServiceInv == service = "key" => KeyInv

(* An age grows by a step up to its top.                                   *)
LEMMA LaterAge ==
    ASSUME NEW age \in Int, NEW top \in Int
    PROVE  Key!Later(age, top) = IF age = -1 THEN -1
                                 ELSE IF age + 500 <= top THEN age + 500 ELSE top
<1> DEFINE m == Key!Min({age + 500, top})
           r == IF age + 500 <= top THEN age + 500 ELSE top
<1>1. r \in {age + 500, top} /\ \A y \in {age + 500, top} : r <= y
  OBVIOUS
<1>2. m \in {age + 500, top} /\ \A y \in {age + 500, top} : m <= y
  BY <1>1 DEF Key!Min
<1>3. m = r
  BY <1>2
<1> QED
  BY <1>3 DEF Key!Later, Key!NoTime, Key!Step

(* The numbers behind the types.                                           *)
LEMMA KeyFields ==
    ASSUME KeyTypeOK
    PROVE  /\ keyPlan.time \in Nat /\ keyPlan.turns \in Nat
           /\ keyPlan.refused \in 0..1
           /\ power.gap \in Ages /\ power.turned \in Nat /\ power.told \in Nat
           /\ power.last \in {"unknown", "off", "notOff", "error"}
           /\ -1 \in Ages /\ 0 \in Ages /\ Ages \subseteq Int
BY DEF KeyTypeOK, Plans, Histories, Ages

(* What the history notes of a reported state.                             *)
LEMMA ReportNoted ==
    ASSUME KeyTypeOK, NEW state \in {"off", "notOff", "error", "noAction"},
           Key!KeyReported(state)
    PROVE  LET turns == state = "off" /\ power.last = "notOff"
           IN  /\ keyPlan' \in Plans
               /\ keyPlan'.time = keyPlan.time
               /\ keyPlan'.refused = keyPlan.refused
               /\ power' \in Histories
               /\ power'.turned = power.turned + IF turns THEN 1 ELSE 0
               /\ power'.told = power.told
                                + IF keyNotOff /\ state = "off" THEN 1 ELSE 0
               /\ power'.gap = IF turns THEN 0
                               ELSE IF state \in {"notOff", "error"} THEN -1
                               ELSE power.gap
               /\ power'.last = IF state = "noAction" THEN power.last ELSE state
               /\ ranSince' = ranSince
<1> DEFINE turns == state = "off" /\ power.last = "notOff"
           turned == power.turned + IF turns THEN 1 ELSE 0
           toldNow == power.told + IF keyNotOff /\ state = "off" THEN 1 ELSE 0
           gap == IF turns THEN 0 ELSE IF state \in {"notOff", "error"} THEN -1
                  ELSE power.gap
           lastNow == IF state = "noAction" THEN power.last ELSE state
<1>1. /\ keyPlan.turns > 0 /\ keyPlan' = [keyPlan EXCEPT !.turns = @ - 1]
      /\ power' = [power EXCEPT !.turned = turned, !.told = toldNow, !.gap = gap,
                                !.last = lastNow]
      /\ ranSince' = ranSince
  BY Zenon DEF Key!KeyReported, Key!NoTime
<1>2. /\ turned \in Nat /\ toldNow \in Nat /\ gap \in Ages
      /\ lastNow \in {"unknown", "off", "notOff", "error"}
  BY KeyFields
<1>3. keyPlan.turns - 1 \in Nat
  BY <1>1, KeyFields
<1> HIDE DEF turned, toldNow, gap, lastNow
<1>4. /\ power' \in Histories
      /\ power'.turned = turned /\ power'.told = toldNow /\ power'.gap = gap
      /\ power'.last = lastNow
  BY <1>1, <1>2 DEF KeyTypeOK, Histories
<1>5. /\ keyPlan' \in Plans
      /\ keyPlan'.time = keyPlan.time /\ keyPlan'.refused = keyPlan.refused
  BY <1>1, <1>3 DEF KeyTypeOK, Plans
<1> QED
  BY <1>1, <1>4, <1>5 DEF turned, toldNow, gap, lastNow

(* The key switch state of a wheel based speed message keeps the           *)
(* invariant: a turn to off starts all clocks at once, any other state     *)
(* stops them or leaves them alone.                                        *)
LEMMA ReportKeeps ==
    ASSUME KeyInv, NEW state \in {"off", "notOff", "error", "noAction"},
           Key!KeyReported(state)
    PROVE  KeyInv'
<1> USE DEF KeyInv, KeyTypeOK, TurnInv, GapInv
<1>0. Key!process_rx_message(state)
  BY DEF Key!KeyReported
<1>1. CASE state = "off" /\ keyNotOff
  <2>1. Key!TurnedOff
    BY <1>0, <1>1 DEF Key!process_rx_message, Key!KeyIsOff
  <2>2. keyNotOff' = FALSE /\ keyOff' = 0 /\ sinceSent' = 0 /\ sendFlag' = TRUE
    BY <2>1 DEF Key!TurnedOff
  <2>3. power'.gap = 0 /\ power'.last = "off"
    BY <1>1, ReportNoted
  <2>4. KeyTypeOK'
    BY <1>1, <2>2, ReportNoted, KeyFields
  <2>5. TurnInv'
    BY <1>1, <2>2, <2>3, ReportNoted
  <2>6. GapInv'
    BY <2>2, <2>3
  <2> QED
    BY <2>4, <2>5, <2>6
<1>2. CASE state = "off" /\ ~keyNotOff
  <2>1. /\ keyOff' = IF keyOff = -1 THEN 0 ELSE keyOff
        /\ UNCHANGED <<keyNotOff, sinceSent, sendFlag>>
    BY <1>0, <1>2 DEF Key!process_rx_message, Key!KeyIsOff, Key!NoTime
  <2> QED
    BY <1>2, <2>1, ReportNoted, KeyFields
<1>3. CASE state = "notOff"
  <2>1. Key!KeyIsNotOff
    BY <1>0, <1>3 DEF Key!process_rx_message
  <2> QED
    BY <1>3, <2>1, ReportNoted, KeyFields DEF Key!KeyIsNotOff, Key!NoTime
<1>4. CASE state = "error"
  <2>1. Key!KeyInError
    BY <1>0, <1>4 DEF Key!process_rx_message
  <2>2. keyNotOff' = FALSE /\ keyOff' = -1 /\ sinceSent' = -1 /\ UNCHANGED sendFlag
    BY <2>1 DEF Key!KeyInError, Key!NoTime
  <2>3. power'.gap = -1 /\ power'.last = "error"
    BY <1>4, ReportNoted
  <2>4. KeyTypeOK'
    BY <1>4, <2>2, ReportNoted, KeyFields
  <2>5. TurnInv'
    BY <1>4, <2>2, <2>3, ReportNoted
  <2>6. GapInv'
    BY <2>3
  <2> QED
    BY <2>4, <2>5, <2>6
<1>5. CASE state = "noAction"
  <2>1. UNCHANGED <<keyOff, keyNotOff, sinceSent, sendFlag>>
    BY <1>0, <1>5 DEF Key!process_rx_message
  <2> QED
    BY <1>5, <2>1, ReportNoted, KeyFields
<1> QED
  BY <1>1, <1>2, <1>3, <1>4, <1>5

(* An update sends what is due or was refused.                             *)
LEMMA UpdateKeeps ==
    ASSUME KeyInv, Key!update
    PROVE  KeyInv'
<1> USE DEF KeyInv, KeyTypeOK, TurnInv, GapInv
<1> DEFINE due == /\ sinceSent # -1 /\ sinceSent >= 1000
                  /\ keyOff # -1 /\ keyOff < keyPlan.time
<1>1. /\ ranSince = FALSE /\ ranSince' = TRUE
      /\ sinceSent' = IF due THEN 0 ELSE sinceSent
      /\ UNCHANGED <<keyOff, keyNotOff>>
  BY DEF Key!update, Key!Due, Key!NoTime, Key!MAINTAIN_POWER_TIMEOUT_MS
<1>2. \/ ~due /\ ~sendFlag /\ UNCHANGED <<keyPlan, sendFlag, power>>
      \/ (due \/ sendFlag) /\ Key!process_flags
  BY DEF Key!update, Key!Due, Key!NoTime, Key!MAINTAIN_POWER_TIMEOUT_MS
<1>3. CASE ~due /\ ~sendFlag /\ UNCHANGED <<keyPlan, sendFlag, power>>
  BY <1>1, <1>3, KeyFields DEF Ages
<1>4. CASE (due \/ sendFlag) /\ Key!process_flags
  <2> DEFINE gap == IF power.gap = -1 THEN -1 ELSE 0
  <2>1. CASE /\ sendFlag' = FALSE /\ UNCHANGED keyPlan
             /\ power' = [power EXCEPT !.gap = gap]
    <3>1. gap \in Ages
      BY KeyFields
    <3> HIDE DEF gap
    <3>2. /\ power' \in Histories
          /\ power'.turned = power.turned /\ power'.told = power.told
          /\ power'.gap = gap /\ power'.last = power.last
      BY <2>1, <3>1 DEF Histories
    <3>3. power'.gap = IF power.gap = -1 THEN -1 ELSE 0
      BY <3>2 DEF gap
    <3>4. KeyTypeOK'
      BY <1>1, <2>1, <3>2, KeyFields, ZenonT(40)
    <3>5. TurnInv'
      BY <1>1, <3>2, <3>3
    <3>6. GapInv'
      BY <1>1, <2>1, <3>3, KeyFields DEF Ages
    <3> QED
      BY <3>4, <3>5, <3>6
  <2>2. CASE /\ keyPlan.refused > 0 /\ sendFlag' = TRUE /\ UNCHANGED power
             /\ keyPlan' = [keyPlan EXCEPT !.refused = @ - 1]
    <3>1. keyPlan.refused = 1
      BY <2>2, KeyFields
    <3>2. /\ keyPlan' \in Plans
          /\ keyPlan'.time = keyPlan.time /\ keyPlan'.refused = 0
      BY <2>2, <3>1 DEF Plans
    <3>3. KeyTypeOK'
      BY <1>1, <2>2, <3>2, KeyFields
    <3>4. TurnInv'
      BY <1>1, <2>2, KeyFields
    <3>5. GapInv'
      BY <1>1, <2>2, <3>1, <3>2, KeyFields DEF Ages
    <3> QED
      BY <3>3, <3>4, <3>5
  <2> QED
    BY <1>4, <2>1, <2>2 DEF Key!process_flags, Key!NoTime
<1> QED
  BY <1>2, <1>3, <1>4

(* A step of time ages everything alike.                                   *)
LEMMA TimeKeeps ==
    ASSUME KeyInv, Key!TimePasses
    PROVE  KeyInv'
<1> DEFINE Aged(age, top) == IF age = -1 THEN -1
                             ELSE IF age + 500 <= top THEN age + 500 ELSE top
<1>1. /\ ranSince /\ ranSince' = FALSE
      /\ keyOff' = Aged(keyOff, keyPlan.time)
      /\ sinceSent' = Aged(sinceSent, 2000)
      /\ power' = [power EXCEPT !.gap = Aged(power.gap, 2000)]
      /\ UNCHANGED <<keyPlan, keyNotOff, sendFlag>>
  BY LaterAge, KeyFields DEF Key!TimePasses, KeyInv, KeyTypeOK,
                  Key!MAINTAIN_POWER_TIMEOUT_MS
<1>2. KeyTypeOK'
  <2>1. keyOff' \in Nat \cup {-1} /\ sinceSent' \in Ages
    BY <1>1, KeyFields DEF KeyInv, KeyTypeOK, Ages
  <2>2. Aged(power.gap, 2000) \in Ages
    BY KeyFields DEF KeyInv, Ages
  <2> HIDE DEF Aged
  <2>3. power' \in Histories
    BY <1>1, <2>2 DEF KeyInv, KeyTypeOK, Histories
  <2>4. ranSince' \in BOOLEAN
    BY <1>1
  <2> QED
    BY <1>1, <2>1, <2>3, <2>4 DEF KeyInv, KeyTypeOK
<1>3. TurnInv'
  BY <1>1, KeyFields DEF KeyInv, KeyTypeOK, TurnInv, Ages, Histories
<1>4. GapInv'
  BY <1>1, KeyFields DEF KeyInv, KeyTypeOK, TurnInv, GapInv, Ages, Histories
<1> QED
  BY <1>2, <1>3, <1>4 DEF KeyInv

(* A step of any service keeps it; the other services leave the key alone. *)
LEMMA ServiceStep ==
    ASSUME ServiceInv, [ServicesNext]_serviceVars
    PROVE  ServiceInv'
<1> SUFFICES ASSUME service' = "key" PROVE KeyInv'
  BY DEF ServiceInv
<1>1. CASE InKey(Key!KeyNext)
  <2>1. KeyInv /\ Key!KeyNext
    BY <1>1 DEF InKey, Except, ServiceInv
  <2> QED
    BY <2>1, ReportKeeps, UpdateKeeps, TimeKeeps DEF Key!KeyNext, Key!KeyRuns
<1>2. CASE UNCHANGED serviceVars
  BY <1>2 DEF serviceVars, keyVars, ServiceInv, KeyInv, KeyTypeOK, TurnInv,
              GapInv
<1>3. ASSUME NEW s \in {"session", "measure", "device", "diagnostic", "heart",
                        "machine", "shortcut"},
             service = s, service' = service
      PROVE  FALSE
  BY <1>3
<1> QED
  BY <1>1, <1>2, <1>3
     DEF ServicesNext, Except, InSession, InMeasure, InDevice, InDiagnostic,
         InHeart, InMachine, InShortcut

(* With at most one refused frame the tractor hears the message within two *)
(* seconds for as long as the application asked, through any number of     *)
(* turns of the key, and the application is told of each turn to off once  *)
(* (MaintainPowerInterface::update and process_rx_message).                *)
THEOREM PowerIsKept == ServicesSpec => []PowerKept
<1>1. ServicesInit => ServiceInv
  <2> SUFFICES ASSUME ServicesInit, service = "key" PROVE KeyInv
    BY DEF ServiceInv
  <2>1. Key!KeyInit
    BY DEF ServicesInit
  <2>2. keyPlan \in Plans
    BY <2>1, KeyPlansAssumption DEF Key!KeyInit, Plans
  <2>3. /\ keyOff = -1 /\ keyNotOff = FALSE /\ sinceSent = -1
        /\ sendFlag = FALSE /\ ranSince = TRUE
        /\ power = [gap |-> -1, turned |-> 0, told |-> 0, last |-> "unknown"]
    BY <2>1 DEF Key!KeyInit, Key!NoTime
  <2>4. power \in Histories
    BY <2>3 DEF Histories, Ages
  <2>5. power.gap = -1 /\ power.told = power.turned /\ power.last = "unknown"
    BY <2>3
  <2>6. KeyTypeOK
    BY <2>2, <2>3, <2>4 DEF KeyTypeOK, Ages
  <2> QED
    BY <2>3, <2>5, <2>6 DEF KeyInv, TurnInv, GapInv
<1>2. ServiceInv /\ [ServicesNext]_serviceVars => ServiceInv'
  BY ServiceStep
<1>3. ServiceInv => PowerKept
  <2> SUFFICES ASSUME KeyInv PROVE Key!PowerKept /\ Key!EachTurnTold
    BY DEF ServiceInv, PowerKept
  <2> QED
    BY KeyFields
       DEF KeyInv, KeyTypeOK, TurnInv, GapInv, Key!PowerKept, Ages,
           Key!EachTurnTold, Key!NoTime, Key!MAINTAIN_POWER_TIMEOUT_MS
<1> QED
  BY <1>1, <1>2, <1>3, PTL DEF ServicesSpec

--------------------------------------------------------------------------------
(* The measurements of a task controller client.                           *)

ServerMessages ==
    [command : Measure!Kinds \cup {"request", "default", "set", "setAck"}, value : Int]
Calls == [do : {"value", "distance", "changed"}, value : Int]
Aheads == [server : Seq(ServerMessages), application : Seq(Calls), ends : Nat,
           defaults : UNION {[kinds -> Int] : kinds \in SUBSET Measure!Kinds}]
Values == [value : Int, sent : Int, setpoint : Int, commanded : Int, distance : Int]
Commands == [value : Int, ack : BOOLEAN]
Queues == [requests : Int, commands : Seq(Commands)]
Clients == [connected : BOOLEAN, queues : Queues, default : BOOLEAN]
Triggers == [armed : BOOLEAN, limit : Int, last : Int, passed : BOOLEAN]
Heards == [reported : [{"max", "min"} -> BOOLEAN], raced : BOOLEAN]

MeasureTypeOK ==
    /\ ahead \in Aheads /\ clock \in Int /\ data \in Values /\ client \in Clients
    /\ trigger \in [Measure!Kinds -> Triggers]
    /\ measurements \in Heards

(* A trigger that counts as passed, or that the worker is about to mark    *)
(* after its value was sent, was reported: unless the network thread set   *)
(* the limit anew between the sending and the marking.                     *)
ReportedInv ==
    measurements.raced \/
    \A k \in {"max", "min"} :
        /\ trigger[k].passed => measurements.reported[k]
        /\ phase = Measure!Marking[k] /\ trigger[k].armed => measurements.reported[k]

(* The last command that waits, or else the set point, is what the server  *)
(* commanded last.                                                         *)
Newest(commands, setpoint) == IF commands = <<>> THEN setpoint ELSE commands[Len(commands)].value
CommandInv == data.commanded = Newest(client.queues.commands, data.setpoint)

MeasureInv == MeasureTypeOK /\ ReportedInv /\ CommandInv

(* The fields behind the types, and what the server's triggers become.     *)
LEMMA MeasureFields ==
    ASSUME MeasureTypeOK
    PROVE  /\ client.connected \in BOOLEAN /\ client.default \in BOOLEAN
           /\ client.queues \in Queues
           /\ client.queues.requests \in Int /\ client.queues.commands \in Seq(Commands)
           /\ \A k \in Measure!Kinds : /\ trigger[k] \in Triggers
                                       /\ trigger[k].armed \in BOOLEAN /\ trigger[k].passed \in BOOLEAN
                                       /\ trigger[k].limit \in Int /\ trigger[k].last \in Int
           /\ \A k \in {"max", "min"} : measurements.reported[k] \in BOOLEAN
           /\ measurements.raced \in BOOLEAN
           /\ data.value \in Int /\ data.sent \in Int /\ data.setpoint \in Int
           /\ data.commanded \in Int /\ data.distance \in Int
           /\ ahead.server \in Seq(ServerMessages) /\ ahead.application \in Seq(Calls)
           /\ {"max", "min"} \subseteq Measure!Kinds
BY DEF MeasureTypeOK, Clients, Queues, Triggers, Heards, Values, Aheads, Measure!Kinds, Measure!Thresholds

Passes == {"time", "max", "min", "change"}
LEMMA Marks ==
    /\ DOMAIN Measure!NextPhase = Passes
    /\ \A j \in Passes : Measure!NextPhase[j] \in {"max", "min", "change", "end"}
    /\ \A k \in {"max", "min"} :
          /\ Measure!Marking[k] \notin {"idle", "queues", "time", "max", "min", "change", "end"}
          /\ \A j \in Passes : Measure!Marking[k] = Measure!Marking[j] => j = k
<1>1. /\ Measure!Marking["time"] = "mark time" /\ Measure!Marking["max"] = "mark max"
      /\ Measure!Marking["min"] = "mark min" /\ Measure!Marking["change"] = "mark change"
  BY DEF Measure!Marking
<1>2. /\ Measure!NextPhase["time"] = "max" /\ Measure!NextPhase["max"] = "min"
      /\ Measure!NextPhase["min"] = "change" /\ Measure!NextPhase["change"] = "end"
      /\ DOMAIN Measure!NextPhase = Passes
  BY DEF Measure!NextPhase, Passes
<1>3. \A k \in {"max", "min"} :
          /\ Measure!Marking[k] \notin {"idle", "queues", "time", "max", "min", "change", "end"}
          /\ \A j \in Passes : Measure!Marking[k] = Measure!Marking[j] => j = k
  <2>1. ASSUME NEW k \in {"max", "min"}
        PROVE  Measure!Marking[k] \notin {"idle", "queues", "time", "max", "min", "change", "end"}
    <3>1. CASE k = "max"
      BY <1>1, <3>1, Zenon
    <3>2. CASE k = "min"
      BY <1>1, <3>2, Zenon
    <3> QED
      BY <3>1, <3>2
  <2>2. ASSUME NEW k \in {"max", "min"}, NEW j \in Passes, Measure!Marking[k] = Measure!Marking[j]
        PROVE  j = k
    <3>1. CASE k = "max"
      BY <1>1, <2>2, <3>1, Zenon DEF Passes
    <3>2. CASE k = "min"
      BY <1>1, <2>2, <3>2, Zenon DEF Passes
    <3> QED
      BY <3>1, <3>2
  <2> QED
    BY <2>1, <2>2
<1>4. \A j \in Passes : Measure!NextPhase[j] \in {"max", "min", "change", "end"}
  BY <1>2 DEF Passes
<1> QED
  BY <1>2, <1>3, <1>4

LEMMA Armed ==
    ASSUME NEW t \in Triggers, NEW limit \in Int, NEW from \in Int
    PROVE  /\ Measure!add_measurement(t, limit, from) \in Triggers
           /\ Measure!add_measurement(t, limit, from).passed = FALSE
BY DEF Measure!add_measurement, Triggers

LEMMA Moved ==
    ASSUME NEW a \in Aheads
    PROVE  /\ \A rest \in Seq(ServerMessages) : [a EXCEPT !.server = rest] \in Aheads
           /\ \A rest \in Seq(Calls) : [a EXCEPT !.application = rest] \in Aheads
           /\ \A n \in Nat : [a EXCEPT !.ends = n] \in Aheads
<1> DEFINE S == Seq(ServerMessages)
           A == Seq(Calls)
           D == UNION {[kinds -> Int] : kinds \in SUBSET Measure!Kinds}
<1>1. Aheads = [server : S, application : A, ends : Nat, defaults : D]
  BY DEF Aheads
<1> HIDE DEF S, A, D
<1>2. /\ \A rest \in S : [a EXCEPT !.server = rest] \in Aheads
      /\ \A rest \in A : [a EXCEPT !.application = rest] \in Aheads
      /\ \A n \in Nat : [a EXCEPT !.ends = n] \in Aheads
  BY <1>1
<1> QED
  BY <1>2 DEF S, A

(* The queues of a client.                                                 *)
LEMMA Queued ==
    ASSUME NEW c \in Clients, NEW q \in Queues
    PROVE  /\ [c EXCEPT !.queues = q] \in Clients
           /\ \A n \in Int : /\ [q EXCEPT !.requests = n] \in Queues
                             /\ [q EXCEPT !.requests = n].commands = q.commands
           /\ \A s \in Seq(Commands) : /\ [q EXCEPT !.commands = s] \in Queues
                                       /\ [q EXCEPT !.commands = s].commands = s
           /\ [c EXCEPT !.queues = q].queues = q
<1> DEFINE S == Seq(Commands)
<1>1. Queues = [requests : Int, commands : S]
  BY DEF Queues
<1> HIDE DEF S
<1>2. /\ \A n \in Int : /\ [q EXCEPT !.requests = n] \in Queues
                         /\ [q EXCEPT !.requests = n].commands = q.commands
      /\ \A s \in S : /\ [q EXCEPT !.commands = s] \in Queues
                      /\ [q EXCEPT !.commands = s].commands = s
  BY <1>1
<1>3. [c EXCEPT !.queues = q] \in Clients /\ [c EXCEPT !.queues = q].queues = q
  BY DEF Clients
<1> QED
  BY <1>2, <1>3 DEF S

(* The server sets a limit: it was not reported yet.                       *)
LEMMA MeasurementKeeps ==
    ASSUME MeasureInv, NEW kind \in Measure!Kinds, NEW limit \in Int,
           Measure!Measurement(kind, limit), ahead' \in Aheads, UNCHANGED <<clock, phase>>
    PROVE  MeasureInv'
<1> DEFINE from == IF kind = "time" THEN clock ELSE 0
           new == Measure!add_measurement(trigger[kind], limit, from)
<1>1. /\ trigger' = [trigger EXCEPT ![kind] = new]
      /\ measurements' = IF kind \in {"max", "min"}
                         THEN [measurements EXCEPT !.reported[kind] = FALSE,
                                                   !.raced = @ \/ phase = Measure!Marking[kind]]
                         ELSE measurements
      /\ data' = data /\ client' = client
  BY Zenon DEF Measure!Measurement, Measure!Thresholds
<1>2. new \in Triggers /\ new.passed = FALSE
  <2>1. trigger[kind] \in Triggers
    BY MeasureFields DEF MeasureInv
  <2>2. from \in Int
    BY DEF MeasureInv, MeasureTypeOK
  <2> HIDE DEF from
  <2> QED
    BY <2>1, <2>2, Armed
<1> HIDE DEF new
<1>3. measurements' \in Heards
  BY <1>1, MeasureFields DEF MeasureInv, MeasureTypeOK, Heards
<1>4. MeasureTypeOK'
  BY <1>1, <1>2, <1>3 DEF MeasureInv, MeasureTypeOK
<1>5. ReportedInv'
  <2>1. CASE kind \in {"max", "min"}
    <3>1. /\ trigger \in [Measure!Kinds -> Triggers] /\ measurements \in Heards
          /\ {"max", "min"} \subseteq Measure!Kinds
      BY MeasureFields DEF MeasureInv, MeasureTypeOK
    <3>2. /\ measurements'.raced = (measurements.raced \/ phase = Measure!Marking[kind])
          /\ \A k \in {"max", "min"} \ {kind} :
                measurements'.reported[k] = measurements.reported[k] /\ trigger'[k] = trigger[k]
          /\ trigger'[kind].passed = FALSE
      BY <1>1, <1>2, <2>1, <3>1 DEF Heards
    <3> QED
      BY <3>2 DEF MeasureInv, ReportedInv
  <2>2. CASE kind \notin {"max", "min"}
    BY <1>1, <2>2 DEF MeasureInv, ReportedInv
  <2> QED
    BY <2>1, <2>2
<1>6. CommandInv'
  BY <1>1 DEF MeasureInv, CommandInv
<1> QED
  BY <1>4, <1>5, <1>6 DEF MeasureInv

LEMMA LastAppended ==
    ASSUME NEW S, NEW s \in Seq(S), NEW x \in S
    PROVE  Append(s, x) # <<>> /\ Append(s, x)[Len(Append(s, x))] = x
OBVIOUS

(* A message of the server is handled.                                     *)
LEMMA ServerKeeps ==
    ASSUME MeasureInv, Measure!ServerSends
    PROVE  MeasureInv'
<1>1. /\ ahead.server # <<>> /\ ahead' = [ahead EXCEPT !.server = Tail(@)]
      /\ UNCHANGED <<clock, phase>>
      /\ Measure!process_rx_message(Head(ahead.server))
  BY DEF Measure!ServerSends
<1>2. PICK m \in ServerMessages : Measure!process_rx_message(m)
  BY <1>1, MeasureFields DEF MeasureInv
<1>3. ahead' \in Aheads
  <2>1. Tail(ahead.server) \in Seq(ServerMessages) /\ ahead \in Aheads
    BY <1>1, MeasureFields DEF MeasureInv, MeasureTypeOK
  <2> QED
    BY <1>1, <2>1, Moved
<1>4. m.value \in Int /\ m.command \in Measure!Kinds \cup {"request", "default", "set", "setAck"}
  BY DEF ServerMessages
<1>5. CASE m.command \in Measure!Kinds
  <2>1. Measure!Measurement(m.command, m.value)
    BY <1>2, <1>5 DEF Measure!process_rx_message, Measure!Kinds, Measure!Thresholds
  <2> QED
    BY <1>1, <1>3, <1>4, <1>5, <2>1, MeasurementKeeps
<1>6. CASE m.command \in {"request", "default"}
  <2>1. /\ client' = [client EXCEPT !.queues.requests = @ + 1,
                                    !.default = IF m.command = "default" THEN TRUE ELSE @]
        /\ UNCHANGED <<data, trigger, measurements>>
    BY <1>2, <1>6, MeasureFields
       DEF Measure!process_rx_message, Measure!Kinds, Measure!Thresholds, MeasureInv, MeasureTypeOK, Clients
  <2> DEFINE more == [client.queues EXCEPT !.requests = client.queues.requests + 1]
             flag == IF m.command = "default" THEN TRUE ELSE client.default
  <2>4. client' = [[client EXCEPT !.queues = more] EXCEPT !.default = flag]
    BY <2>1, MeasureFields DEF MeasureInv, MeasureTypeOK, Clients
  <2>5. more \in Queues /\ more.commands = client.queues.commands
    <3>1. /\ client \in Clients /\ client.queues \in Queues
          /\ client.queues.requests + 1 \in Int
      BY MeasureFields DEF MeasureInv, MeasureTypeOK
    <3> QED
      BY <3>1, Queued
  <2>6. flag \in BOOLEAN /\ client \in Clients
    BY MeasureFields DEF MeasureInv, MeasureTypeOK
  <2> HIDE DEF more, flag
  <2>2. /\ client' \in Clients /\ client'.queues.commands = client.queues.commands
    BY <2>4, <2>5, <2>6 DEF Clients
  <2>3. MeasureTypeOK'
    BY <1>1, <1>3, <2>1, <2>2 DEF MeasureInv, MeasureTypeOK
  <2> QED
    BY <1>1, <2>1, <2>2, <2>3 DEF MeasureInv, ReportedInv, CommandInv
<1>7. CASE m.command \in {"set", "setAck"}
  <2> DEFINE command == [value |-> m.value, ack |-> m.command = "setAck"]
  <2>1. /\ client' = [client EXCEPT !.queues.commands = Append(@, command)]
        /\ data' = [data EXCEPT !.commanded = m.value]
        /\ UNCHANGED <<trigger, measurements>>
    BY <1>2, <1>7 DEF Measure!process_rx_message, Measure!Kinds, Measure!Thresholds
  <2>2. command \in Commands /\ command.value = m.value
    BY <1>4 DEF Commands
  <2> HIDE DEF command
  <2>3. /\ client' \in Clients
        /\ client'.queues.commands = Append(client.queues.commands, command)
    <3> DEFINE waiting == Append(client.queues.commands, command)
               more == [client.queues EXCEPT !.commands = waiting]
    <3>1. waiting \in Seq(Commands)
      BY <2>2, MeasureFields DEF MeasureInv
    <3>2. client' = [client EXCEPT !.queues = more]
      BY <2>1, MeasureFields DEF MeasureInv, MeasureTypeOK, Clients
    <3> HIDE DEF waiting
    <3>3. more \in Queues /\ more.commands = waiting /\ client \in Clients
      BY <3>1, MeasureFields, Queued DEF MeasureInv, MeasureTypeOK
    <3> HIDE DEF more
    <3> QED
      BY <3>2, <3>3, Queued DEF waiting
  <2>4. data' \in Values /\ data'.commanded = m.value
    BY <1>4, <2>1 DEF MeasureInv, MeasureTypeOK, Values
  <2>5. MeasureTypeOK'
    BY <1>1, <1>3, <2>1, <2>3, <2>4 DEF MeasureInv, MeasureTypeOK
  <2>6. CommandInv'
    <3>1. client.queues.commands \in Seq(Commands)
      BY MeasureFields DEF MeasureInv
    <3>2. /\ client'.queues.commands # <<>>
          /\ client'.queues.commands[Len(client'.queues.commands)] = command
      BY <2>2, <2>3, <3>1, LastAppended
    <3> QED
      BY <2>2, <2>4, <3>2 DEF CommandInv, Newest
  <2> QED
    BY <1>1, <2>1, <2>5, <2>6 DEF MeasureInv, ReportedInv
<1> QED
  BY <1>4, <1>5, <1>6, <1>7

(* The application calls: nothing is reported, no command arrives.         *)
LEMMA ApplicationKeeps ==
    ASSUME MeasureInv, Measure!ApplicationCalls
    PROVE  MeasureInv'
<1> DEFINE call == Head(ahead.application)
           one == [client EXCEPT !.queues.requests = client.queues.requests + 1]
<1>1. /\ ahead.application # <<>> /\ ahead' = [ahead EXCEPT !.application = Tail(@)]
      /\ UNCHANGED <<clock, phase, measurements>>
  BY DEF Measure!ApplicationCalls
<1>2. call \in Calls
  BY <1>1, MeasureFields DEF MeasureInv
<1>3. ahead' \in Aheads
  <2>1. Tail(ahead.application) \in Seq(Calls) /\ ahead \in Aheads
    BY <1>1, MeasureFields DEF MeasureInv, MeasureTypeOK
  <2> QED
    BY <1>1, <2>1, Moved
<1>4. one \in Clients /\ one.queues.commands = client.queues.commands
  <2> DEFINE more == [client.queues EXCEPT !.requests = client.queues.requests + 1]
  <2>1. /\ client \in Clients /\ client.queues \in Queues
        /\ client.queues.requests + 1 \in Int
    BY MeasureFields DEF MeasureInv, MeasureTypeOK
  <2>2. more \in Queues /\ more.commands = client.queues.commands
    BY <2>1, Queued
  <2>3. one = [client EXCEPT !.queues = more]
    BY <2>1 DEF Clients
  <2> HIDE DEF more, one
  <2> QED
    BY <2>1, <2>2, <2>3, Queued
<1>5. call.value \in Int /\ data \in Values /\ client \in Clients
      /\ trigger \in [Measure!Kinds -> Triggers]
  BY <1>2 DEF Calls, MeasureInv, MeasureTypeOK
<1>6. /\ client' = client \/ client' = one
      /\ \/ data' = data
         \/ data' = [data EXCEPT !.value = call.value]
         \/ data' = [data EXCEPT !.distance = call.value]
      /\ trigger' = trigger \/ trigger' = [trigger EXCEPT !["distance"].last = call.value]
  <2> HIDE DEF call
  <2>1. \/ call.do = "value" /\ data' = [data EXCEPT !.value = call.value] /\ UNCHANGED <<client, trigger>>
        \/ call.do = "distance" /\ Measure!set_distance(call.value)
        \/ call.do = "changed" /\ Measure!on_value_changed_trigger
    BY <1>2 DEF Measure!ApplicationCalls, Calls, call
  <2> QED
    BY <2>1 DEF Measure!set_distance, Measure!on_value_changed_trigger
<1> HIDE DEF call, one
<1>7. /\ data' \in Values /\ data'.commanded = data.commanded /\ data'.setpoint = data.setpoint
  BY <1>5, <1>6 DEF Values
<1>8. /\ trigger' \in [Measure!Kinds -> Triggers]
      /\ \A k \in {"max", "min"} : trigger'[k] = trigger[k]
  BY <1>5, <1>6 DEF Triggers, Measure!Kinds, Measure!Thresholds
<1>9. client' \in Clients /\ client'.queues.commands = client.queues.commands
  BY <1>4, <1>5, <1>6
<1>10. MeasureTypeOK'
  BY <1>1, <1>3, <1>7, <1>8, <1>9 DEF MeasureInv, MeasureTypeOK
<1> QED
  BY <1>1, <1>7, <1>8, <1>9, <1>10 DEF MeasureInv, ReportedInv, CommandInv

(* The session ends, also in the middle of a pass: nothing is armed then.  *)
LEMMA EndKeeps ==
    ASSUME MeasureInv, Measure!SessionEnds
    PROVE  MeasureInv'
<1>1. /\ ahead.ends > 0 /\ ahead' = [ahead EXCEPT !.ends = @ - 1]
      /\ client' = [client EXCEPT !.connected = FALSE, !.queues = Measure!NewQueues]
      /\ trigger' = [k \in Measure!Kinds |-> Measure!Unarmed]
      /\ data' = [data EXCEPT !.commanded = data.setpoint]
      /\ measurements' = [measurements EXCEPT !.reported = Measure!Fresh]
      /\ UNCHANGED <<clock, phase>>
  BY DEF Measure!SessionEnds
<1>2. /\ ahead \in Aheads /\ client \in Clients /\ data \in Values /\ measurements \in Heards
      /\ data.setpoint \in Int
  BY MeasureFields DEF MeasureInv, MeasureTypeOK
<1>3. ahead' \in Aheads
  <2>1. ahead.ends - 1 \in Nat
    BY <1>1, <1>2 DEF Aheads
  <2> QED
    BY <1>1, <1>2, <2>1, Moved
<1>4. client' \in Clients /\ client'.queues.commands = <<>>
  <2>1. Measure!NewQueues \in Queues /\ Measure!NewQueues.commands = <<>>
    BY DEF Measure!NewQueues, Queues
  <2> QED
    BY <1>1, <1>2, <2>1 DEF Clients
<1>5. data' \in Values /\ data'.commanded = data.setpoint /\ data'.setpoint = data.setpoint
  BY <1>1, <1>2 DEF Values
<1>6. /\ trigger' \in [Measure!Kinds -> Triggers]
      /\ \A k \in {"max", "min"} : trigger'[k].armed = FALSE /\ trigger'[k].passed = FALSE
  BY <1>1 DEF Triggers, Measure!Unarmed, Measure!Kinds, Measure!Thresholds
<1>7. measurements' \in Heards
  BY <1>1, <1>2 DEF Heards, Measure!Fresh, Measure!Thresholds
<1>8. MeasureTypeOK'
  BY <1>1, <1>2, <1>3, <1>4, <1>5, <1>6, <1>7 DEF MeasureInv, MeasureTypeOK
<1> QED
  BY <1>4, <1>5, <1>6, <1>8 DEF MeasureInv, ReportedInv, CommandInv, Newest

(* A pass of the worker starts, and arms the defaults that were asked for. *)
LEMMA PassKeeps ==
    ASSUME MeasureInv, Measure!PassStarts
    PROVE  MeasureInv'
<1> DEFINE armed == Measure!populate_any_triggers_from_settings(ahead.defaults)
           left == [k \in {"max", "min"} |-> measurements.reported[k] /\ k \notin DOMAIN ahead.defaults]
<1>1. /\ trigger' = IF client.default THEN armed ELSE trigger
      /\ measurements' = IF client.default THEN [measurements EXCEPT !.reported = left]
                         ELSE measurements
      /\ client' = [client EXCEPT !.default = FALSE]
      /\ phase' \in {"queues", "end"}
      /\ UNCHANGED <<ahead, clock, data>>
  BY DEF Measure!PassStarts, Measure!Thresholds
<1>2. /\ ahead \in Aheads /\ client \in Clients /\ measurements \in Heards
      /\ trigger \in [Measure!Kinds -> Triggers]
      /\ \A k \in {"max", "min"} : measurements.reported[k] \in BOOLEAN
  BY MeasureFields DEF MeasureInv, MeasureTypeOK
<1>3. client' \in Clients /\ client'.queues = client.queues
  BY <1>1, <1>2 DEF Clients
<1>4. \A k \in DOMAIN ahead.defaults : ahead.defaults[k] \in Int
  BY <1>2 DEF Aheads
<1>5. \A k \in Measure!Kinds :
        armed[k] = IF k \in DOMAIN ahead.defaults
                   THEN Measure!add_measurement(trigger[k], Measure!DefaultLimit(k, ahead.defaults), 0)
                   ELSE trigger[k]
  BY DEF Measure!populate_any_triggers_from_settings
<1>6. /\ armed \in [Measure!Kinds -> Triggers]
      /\ \A k \in Measure!Kinds : k \in DOMAIN ahead.defaults => armed[k].passed = FALSE
  <2>1. ASSUME NEW k \in Measure!Kinds
        PROVE  armed[k] \in Triggers /\ (k \in DOMAIN ahead.defaults => armed[k].passed = FALSE)
    <3>1. k \in DOMAIN ahead.defaults => Measure!DefaultLimit(k, ahead.defaults) \in Int
      BY <1>4 DEF Measure!DefaultLimit
    <3>2. trigger[k] \in Triggers
      BY <1>2
    <3> HIDE DEF armed
    <3>3. CASE k \in DOMAIN ahead.defaults
      <4> DEFINE limit == Measure!DefaultLimit(k, ahead.defaults)
      <4>1. limit \in Int /\ armed[k] = Measure!add_measurement(trigger[k], limit, 0)
        BY <1>5, <3>1, <3>3
      <4>2. 0 \in Int
        OBVIOUS
      <4> HIDE DEF limit
      <4>3. /\ Measure!add_measurement(trigger[k], limit, 0) \in Triggers
            /\ Measure!add_measurement(trigger[k], limit, 0).passed = FALSE
        BY <3>2, <4>1, <4>2, Armed
      <4> QED
        BY <4>1, <4>3
    <3> QED
      BY <1>5, <3>2, <3>3
  <2>2. armed = [k \in Measure!Kinds |-> armed[k]]
    BY DEF Measure!populate_any_triggers_from_settings
  <2> HIDE DEF armed
  <2> QED
    BY <2>1, <2>2
<1> HIDE DEF armed
<1>7. measurements' \in Heards
  BY <1>1, <1>2 DEF Heards
<1>8. MeasureTypeOK'
  BY <1>1, <1>2, <1>3, <1>6, <1>7 DEF MeasureInv, MeasureTypeOK
<1>9. ReportedInv'
  <2>1. \A k \in {"max", "min"} : phase' # Measure!Marking[k]
    BY <1>1, Marks
  <2>2. measurements'.raced = measurements.raced
    BY <1>1, <1>2 DEF Heards
  <2>3. ASSUME NEW k \in {"max", "min"}, client.default
        PROVE  /\ measurements'.reported[k] = (measurements.reported[k] /\ k \notin DOMAIN ahead.defaults)
               /\ k \in DOMAIN ahead.defaults => trigger'[k].passed = FALSE
               /\ k \notin DOMAIN ahead.defaults => trigger'[k] = trigger[k]
    BY <1>1, <1>2, <1>5, <1>6, <2>3, MeasureFields DEF Heards, MeasureInv
  <2>4. ~client.default => trigger' = trigger /\ measurements' = measurements
    BY <1>1
  <2> QED
    BY <2>1, <2>2, <2>3, <2>4, Zenon DEF MeasureInv, ReportedInv
<1>10. CommandInv'
  BY <1>1, <1>3 DEF MeasureInv, CommandInv
<1> QED
  BY <1>8, <1>9, <1>10 DEF MeasureInv

(* The worker goes through the queues: requests answered, commands handed  *)
(* to the application up to the last one or the one whose acknowledgement  *)
(* was refused.                                                            *)
LEMMA CommandsApplied ==
    ASSUME NEW s \in Seq(Commands), NEW n \in 1..Len(s), NEW old
    PROVE  /\ SubSeq(s, n + 1, Len(s)) \in Seq(Commands)
           /\ SubSeq(s, 1, n) \in Seq(Commands) /\ SubSeq(s, 1, n) # <<>>
           /\ Measure!Last(SubSeq(s, 1, n)) = s[n]
           /\ Newest(SubSeq(s, n + 1, Len(s)), s[n].value) = Newest(s, old)
           /\ s[n].value \in Int
<1> DEFINE left == SubSeq(s, n + 1, Len(s))
           done == SubSeq(s, 1, n)
<1>1. left \in Seq(Commands) /\ Len(left) = Len(s) - n
      /\ \A i \in 1..Len(left) : left[i] = s[i + n]
  OBVIOUS
<1>2. done \in Seq(Commands) /\ Len(done) = n /\ done[n] = s[n]
  OBVIOUS
<1>7. n \in Nat /\ Len(s) \in Nat /\ n >= 1 /\ n <= Len(s) /\ s # <<>>
  OBVIOUS
<1> HIDE DEF left, done
<1>3. done # <<>> /\ (left = <<>> <=> n = Len(s))
  <2>1. (left = <<>> <=> Len(left) = 0) /\ (done = <<>> <=> Len(done) = 0)
    BY <1>1, <1>2
  <2> QED
    BY <1>1, <1>2, <1>7, <2>1
<1>4. n = Len(s) => Newest(left, s[n].value) = Newest(s, old)
  BY <1>3, <1>7 DEF Newest
<1>5. n < Len(s) => Newest(left, s[n].value) = Newest(s, old)
  <2> SUFFICES ASSUME n < Len(s) PROVE Newest(left, s[n].value) = Newest(s, old)
    OBVIOUS
  <2>1. left # <<>> /\ left[Len(left)] = s[Len(s)]
    BY <1>1, <1>3, <1>7
  <2> QED
    BY <1>3, <1>7, <2>1 DEF Newest
<1>6. Measure!Last(done) = s[n]
  BY <1>2 DEF Measure!Last
<1>8. s[n].value \in Int
  <2>1. s[n] \in Commands
    BY <1>7
  <2> QED
    BY <2>1 DEF Commands
<1>9. Newest(left, s[n].value) = Newest(s, old)
  BY <1>4, <1>5, <1>7
<1> QED
  BY <1>1, <1>2, <1>3, <1>6, <1>8, <1>9 DEF left, done

(* What a value that is sent tells.                                        *)
LEMMA ToldKeeps ==
    ASSUME MeasureTypeOK
    PROVE  /\ Measure!Told \in Heards /\ Measure!Told.raced = measurements.raced
           /\ \A k \in {"max", "min"} :
                 Measure!Told.reported[k] = (\/ measurements.reported[k]
                                             \/ /\ trigger[k].armed
                                                /\ Measure!Beyond(k, trigger[k].limit, data.value))
BY DEF MeasureTypeOK, Measure!Told, Heards, Measure!Thresholds

(* Steps that only report more, and apply commands in order.               *)
LEMMA QueuesKeep ==
    ASSUME MeasureInv, Measure!process_queued_commands
    PROVE  MeasureInv'
<1> DEFINE q == client.queues
           queues(n) == [requests |-> 0, commands |-> SubSeq(q.commands, n + 1, Len(q.commands))]
           point(n) == IF n = 0 THEN data
                       ELSE [data EXCEPT !.setpoint = Measure!Last(SubSeq(q.commands, 1, n)).value]
<1>1. /\ client \in Clients /\ data \in Values /\ measurements \in Heards
      /\ q \in Queues /\ q.commands \in Seq(Commands) /\ q.requests \in Int
      /\ Len(q.commands) \in Nat
  BY MeasureFields DEF MeasureInv, MeasureTypeOK
<1>2. /\ phase' = "time" /\ UNCHANGED <<ahead, clock, trigger>>
      /\ measurements' \in {measurements, Measure!Told}
      /\ \/ \E n \in 0..Len(q.commands) :
               client' = [client EXCEPT !.queues = queues(n)] /\ data' = point(n)
         \/ data' = data /\ \E n \in Int : client' = [client EXCEPT !.queues.requests = n]
  <2>1. /\ phase' = "time" /\ UNCHANGED <<ahead, clock, trigger>>
        /\ \/ /\ client' = [client EXCEPT !.queues = queues(Len(q.commands))]
              /\ data' = point(Len(q.commands))
              /\ measurements' = IF q.requests > 0 THEN Measure!Told ELSE measurements
           \/ /\ \E n \in 1..q.requests :
                    /\ client' = [client EXCEPT !.queues.requests = q.requests - n]
                    /\ measurements' = IF n > 1 THEN Measure!Told ELSE measurements
              /\ data' = data
           \/ /\ \E n \in 1..Len(q.commands) :
                    client' = [client EXCEPT !.queues = queues(n)] /\ data' = point(n)
              /\ measurements' = IF q.requests > 0 THEN Measure!Told ELSE measurements
    BY Zenon DEF Measure!process_queued_commands, Measure!Applied
  <2>2. /\ Len(q.commands) \in 0..Len(q.commands)
        /\ 1..Len(q.commands) \subseteq 0..Len(q.commands)
        /\ \A n \in 1..q.requests : q.requests - n \in Int
    BY <1>1
  <2> HIDE DEF q, queues, point
  <2> QED
    BY <2>1, <2>2
<1>3. /\ measurements' \in Heards /\ measurements'.raced = measurements.raced
      /\ \A k \in {"max", "min"} : measurements.reported[k] => measurements'.reported[k]
  BY <1>1, <1>2, ToldKeeps DEF MeasureInv
<1>4. /\ client' \in Clients /\ data' \in Values /\ data'.commanded = data.commanded
      /\ Newest(client'.queues.commands, data'.setpoint) = Newest(q.commands, data.setpoint)
  <2> DEFINE Handed ==
               /\ client' \in Clients /\ data' \in Values /\ data'.commanded = data.commanded
               /\ Newest(client'.queues.commands, data'.setpoint) = Newest(q.commands, data.setpoint)
  <2>1. ASSUME NEW n \in 0..Len(q.commands),
               client' = [client EXCEPT !.queues = queues(n)], data' = point(n)
        PROVE  Handed
    <3>1. CASE n = 0
      <4>1. queues(n).commands = q.commands /\ queues(n) \in Queues
        BY <1>1, <3>1 DEF Queues
      <4>2. client' \in Clients /\ client'.queues = queues(n) /\ data' = data
        BY <1>1, <2>1, <3>1, <4>1, Queued
      <4> QED
        BY <1>1, <4>1, <4>2
    <3>2. CASE n # 0
      <4>1. n \in 1..Len(q.commands)
        BY <1>1, <3>2
      <4> DEFINE left == SubSeq(q.commands, n + 1, Len(q.commands))
                 new == q.commands[n].value
      <4>2. /\ left \in Seq(Commands) /\ Measure!Last(SubSeq(q.commands, 1, n)).value = new
            /\ Newest(left, new) = Newest(q.commands, data.setpoint) /\ new \in Int
        BY <1>1, <4>1, CommandsApplied
      <4>4. data' = [data EXCEPT !.setpoint = new]
        BY <2>1, <3>2, <4>2
      <4>5. queues(n) = [requests |-> 0, commands |-> left]
        OBVIOUS
      <4> HIDE DEF left, new
      <4>6. data' \in Values /\ data'.commanded = data.commanded /\ data'.setpoint = new
        BY <1>1, <4>2, <4>4 DEF Values
      <4>7. queues(n) \in Queues /\ queues(n).commands = left
        <5>1. 0 \in Int
          OBVIOUS
        <5> HIDE DEF queues
        <5> QED
          BY <4>2, <4>5, <5>1 DEF Queues
      <4> HIDE DEF queues
      <4>8. client' \in Clients /\ client'.queues = queues(n)
        BY <1>1, <2>1, <4>7, Queued
      <4> QED
        BY <4>2, <4>6, <4>7, <4>8
    <3> QED
      BY <3>1, <3>2
  <2>2. ASSUME NEW n \in Int, data' = data, client' = [client EXCEPT !.queues.requests = n]
        PROVE  Handed
    <3> DEFINE fewer == [q EXCEPT !.requests = n]
    <3>1. fewer \in Queues /\ fewer.commands = q.commands
      BY <1>1, Queued
    <3>2. client' = [client EXCEPT !.queues = fewer]
      BY <1>1, <2>2 DEF Clients
    <3> HIDE DEF fewer
    <3>3. client' \in Clients /\ client'.queues = fewer
      BY <1>1, <3>1, <3>2, Queued
    <3> QED
      BY <1>1, <2>2, <3>1, <3>3
  <2> QED
    BY <1>2, <2>1, <2>2
<1>5. MeasureTypeOK'
  BY <1>2, <1>3, <1>4 DEF MeasureInv, MeasureTypeOK
<1>6. ReportedInv'
  BY <1>2, <1>3, Marks DEF MeasureInv, ReportedInv
<1>7. CommandInv'
  BY <1>4 DEF MeasureInv, CommandInv
<1> QED
  BY <1>5, <1>6, <1>7 DEF MeasureInv

(* A trigger is looked at: a threshold that is about to be marked was told.*)
LEMMA ThresholdKeeps ==
    ASSUME MeasureInv, NEW kind \in Passes, Measure!process_queued_threshold_commands(kind)
    PROVE  MeasureInv'
<1>1. /\ phase = kind /\ UNCHANGED <<ahead, clock, client>>
      /\ \/ /\ trigger[kind].armed /\ Measure!Due(kind, trigger[kind])
            /\ \/ measurements' = Measure!Told /\ phase' = Measure!Marking[kind]
               \/ measurements' = measurements /\ phase' = Measure!NextPhase[kind]
            /\ data' = [data EXCEPT !.sent = data.value] /\ trigger' = trigger
         \/ /\ phase' = Measure!NextPhase[kind] /\ data' = data
            /\ \/ trigger' = trigger /\ measurements' = measurements
               \/ /\ kind \in {"max", "min"}
                  /\ trigger' = [trigger EXCEPT ![kind].passed = FALSE]
                  /\ measurements' = [measurements EXCEPT !.reported[kind] = FALSE]
  BY DEF Measure!process_queued_threshold_commands, Measure!AfterSend, Measure!Thresholds
<1>2. /\ data \in Values /\ data.value \in Int /\ measurements \in Heards
      /\ trigger \in [Measure!Kinds -> Triggers] /\ {"max", "min"} \subseteq Measure!Kinds
  BY MeasureFields DEF MeasureInv, MeasureTypeOK
<1>3. data' \in Values /\ data'.commanded = data.commanded /\ data'.setpoint = data.setpoint
  BY <1>1, <1>2 DEF Values
<1>4. CommandInv'
  BY <1>1, <1>3 DEF MeasureInv, CommandInv
<1>5. CASE /\ trigger[kind].armed /\ Measure!Due(kind, trigger[kind])
           /\ measurements' = Measure!Told /\ phase' = Measure!Marking[kind] /\ trigger' = trigger
  <2>1. measurements' \in Heards /\ measurements'.raced = measurements.raced
    BY <1>5, ToldKeeps DEF MeasureInv
  <2>2. MeasureTypeOK'
    BY <1>1, <1>2, <1>3, <1>5, <2>1 DEF MeasureInv, MeasureTypeOK
  <2>3. ASSUME NEW k \in {"max", "min"}
        PROVE  /\ measurements.reported[k] => measurements'.reported[k]
               /\ phase' = Measure!Marking[k] => measurements'.reported[k]
    <3>1. measurements.reported[k] => measurements'.reported[k]
      BY <1>5, ToldKeeps DEF MeasureInv
    <3>2. ASSUME phase' = Measure!Marking[k] PROVE measurements'.reported[k]
      <4>1. kind = k
        BY <1>5, <3>2, Marks
      <4>2. Measure!Beyond(k, trigger[k].limit, data.value)
        BY <1>5, <4>1 DEF Measure!Due, Measure!Thresholds
      <4> QED
        BY <1>5, <4>1, <4>2, ToldKeeps DEF MeasureInv
    <3> QED
      BY <3>1, <3>2
  <2>4. ReportedInv'
    BY <1>5, <2>1, <2>3 DEF MeasureInv, ReportedInv
  <2> QED
    BY <1>4, <2>2, <2>4 DEF MeasureInv
<1>6. CASE measurements' = measurements /\ trigger' = trigger /\ phase' = Measure!NextPhase[kind]
  <2>1. \A k \in {"max", "min"} : phase' # Measure!Marking[k]
    BY <1>6, Marks
  <2>2. MeasureTypeOK'
    BY <1>1, <1>2, <1>3, <1>6 DEF MeasureInv, MeasureTypeOK
  <2>3. ReportedInv'
    BY <1>6, <2>1 DEF MeasureInv, ReportedInv
  <2> QED
    BY <1>4, <2>2, <2>3 DEF MeasureInv
<1>7. CASE /\ kind \in {"max", "min"} /\ trigger' = [trigger EXCEPT ![kind].passed = FALSE]
           /\ measurements' = [measurements EXCEPT !.reported[kind] = FALSE]
           /\ phase' = Measure!NextPhase[kind]
  <2>1. \A k \in {"max", "min"} : phase' # Measure!Marking[k]
    BY <1>7, Marks
  <2>2. /\ trigger' \in [Measure!Kinds -> Triggers] /\ trigger'[kind].passed = FALSE
        /\ \A k \in {"max", "min"} \ {kind} : trigger'[k] = trigger[k]
    BY <1>2, <1>7 DEF Triggers
  <2>3. /\ measurements' \in Heards /\ measurements'.raced = measurements.raced
        /\ \A k \in {"max", "min"} \ {kind} : measurements'.reported[k] = measurements.reported[k]
    BY <1>2, <1>7 DEF Heards
  <2>4. MeasureTypeOK'
    BY <1>1, <1>2, <1>3, <2>2, <2>3 DEF MeasureInv, MeasureTypeOK
  <2>5. ReportedInv'
    BY <2>1, <2>2, <2>3 DEF MeasureInv, ReportedInv
  <2> QED
    BY <1>4, <2>4, <2>5 DEF MeasureInv
<1> QED
  BY <1>1, <1>5, <1>6, <1>7

(* A trigger whose value was sent is marked, if it is still armed.         *)
LEMMA MarkKeeps ==
    ASSUME MeasureInv, NEW kind \in Passes, Measure!Mark(kind)
    PROVE  MeasureInv'
<1>1. /\ phase = Measure!Marking[kind] /\ phase' = Measure!NextPhase[kind]
      /\ UNCHANGED <<ahead, clock, data, client, measurements>>
      /\ \/ trigger' = trigger
         \/ /\ trigger[kind].armed /\ kind \in {"max", "min"}
            /\ trigger' = [trigger EXCEPT ![kind].passed = TRUE]
         \/ kind \in {"time", "change"} /\ \E n \in {clock, data.sent} :
               trigger' = [trigger EXCEPT ![kind].last = n]
  BY DEF Measure!Mark, Measure!Thresholds, Passes
<1>2. /\ clock \in Int /\ data.sent \in Int
      /\ trigger \in [Measure!Kinds -> Triggers] /\ Measure!Kinds = Passes \cup {"distance"}
  BY MeasureFields DEF MeasureInv, MeasureTypeOK, Measure!Kinds, Measure!Thresholds, Passes
<1>3. /\ trigger' \in [Measure!Kinds -> Triggers]
      /\ \A k \in {"max", "min"} : k # kind => trigger'[k] = trigger[k]
      /\ kind \in {"max", "min"} => trigger'[kind] = trigger[kind] \/ trigger[kind].armed
  <2>1. CASE trigger' = trigger
    BY <1>2, <2>1
  <2>2. CASE /\ trigger[kind].armed /\ kind \in {"max", "min"}
             /\ trigger' = [trigger EXCEPT ![kind].passed = TRUE]
    <3>1. [trigger[kind] EXCEPT !.passed = TRUE] \in Triggers
      BY <1>2 DEF Triggers, Passes
    <3> QED
      BY <1>2, <2>2, <3>1
  <2>3. ASSUME kind \in {"time", "change"}, NEW n \in {clock, data.sent},
               trigger' = [trigger EXCEPT ![kind].last = n]
        PROVE  /\ trigger' \in [Measure!Kinds -> Triggers]
               /\ \A k \in {"max", "min"} : k # kind => trigger'[k] = trigger[k]
    <3>1. [trigger[kind] EXCEPT !.last = n] \in Triggers
      BY <1>2, <2>3 DEF Triggers, Passes
    <3>2. kind \notin {"max", "min"}
      BY <2>3
    <3> QED
      BY <1>2, <2>3, <3>1
  <2>4. kind \in {"time", "change"} => kind \notin {"max", "min"}
    OBVIOUS
  <2> QED
    BY <1>1, <2>1, <2>2, <2>3, <2>4
<1>4. MeasureTypeOK'
  BY <1>1, <1>3 DEF MeasureInv, MeasureTypeOK
<1>5. \A k \in {"max", "min"} : phase' # Measure!Marking[k]
  BY <1>1, Marks
<1>6. ReportedInv'
  BY <1>1, <1>3, <1>5 DEF MeasureInv, ReportedInv
<1>7. CommandInv'
  BY <1>1 DEF MeasureInv, CommandInv
<1> QED
  BY <1>4, <1>6, <1>7 DEF MeasureInv

LEMMA MeasureStarts ==
    ASSUME Measure!MeasureInit
    PROVE  MeasureInv
<1>1. /\ ahead \in MeasurePlans /\ clock = 0
      /\ data = [value |-> 0, sent |-> 0, setpoint |-> 0, commanded |-> 0, distance |-> 0]
      /\ client = [connected |-> TRUE, queues |-> Measure!NewQueues, default |-> FALSE]
      /\ trigger = [k \in Measure!Kinds |-> Measure!Unarmed]
      /\ phase = "idle"
      /\ measurements = [reported |-> Measure!Fresh, raced |-> FALSE]
  BY DEF Measure!MeasureInit
<1>2. Measure!NewQueues \in Queues /\ Measure!NewQueues.commands = <<>>
  BY DEF Measure!NewQueues, Queues
<1>3. /\ data \in Values /\ data.commanded = data.setpoint
      /\ client \in Clients /\ client.queues.commands = <<>>
  BY <1>1, <1>2 DEF Values, Clients
<1>4. measurements \in Heards
  BY <1>1 DEF Heards, Measure!Fresh, Measure!Thresholds
<1>5. /\ trigger \in [Measure!Kinds -> Triggers]
      /\ \A k \in {"max", "min"} : trigger[k].armed = FALSE /\ trigger[k].passed = FALSE
  BY <1>1 DEF Triggers, Measure!Unarmed, Measure!Kinds, Measure!Thresholds
<1>6. ahead \in Aheads
  <2>1. PICK kinds \in SUBSET Measure!Kinds :
            ahead \in [server : Seq(ServerMessages), application : Seq(Calls), ends : Nat,
                      defaults : [kinds -> Int]]
    BY <1>1, MeasurePlansAssumption DEF ServerMessages, Calls
  <2>2. [kinds -> Int] \subseteq UNION {[k -> Int] : k \in SUBSET Measure!Kinds}
    OBVIOUS
  <2> QED
    BY <2>1, <2>2 DEF Aheads
<1>7. MeasureTypeOK
  BY <1>1, <1>3, <1>4, <1>5, <1>6 DEF MeasureTypeOK
<1> QED
  BY <1>3, <1>5, <1>7 DEF MeasureInv, ReportedInv, CommandInv, Newest

LEMMA MeasureStep ==
    ASSUME MeasureInv, Measure!MeasureNext
    PROVE  MeasureInv'
<1>1. CASE Measure!SessionStarts
  <2>1. /\ client' = [client EXCEPT !.connected = TRUE]
        /\ UNCHANGED <<ahead, clock, data, trigger, phase, measurements>>
    BY <1>1 DEF Measure!SessionStarts
  <2>2. client' \in Clients /\ client'.queues = client.queues
    BY <2>1 DEF MeasureInv, MeasureTypeOK, Clients
  <2> QED
    BY <2>1, <2>2 DEF MeasureInv, MeasureTypeOK, ReportedInv, CommandInv
<1>2. CASE Measure!PassEnds \/ Measure!TimePasses
  <2>1. /\ phase' = "idle" /\ clock' \in {clock, clock + 1}
        /\ UNCHANGED <<ahead, data, client, trigger, measurements>>
    BY <1>2 DEF Measure!PassEnds, Measure!TimePasses
  <2>2. \A k \in {"max", "min"} : phase' # Measure!Marking[k]
    BY <2>1, Marks
  <2>3. clock' \in Int
    BY <2>1 DEF MeasureInv, MeasureTypeOK
  <2> QED
    BY <2>1, <2>2, <2>3 DEF MeasureInv, MeasureTypeOK, ReportedInv, CommandInv
<1> QED
  BY <1>1, <1>2, ServerKeeps, ApplicationKeeps, EndKeeps, PassKeeps, QueuesKeep, ThresholdKeeps,
     MarkKeeps, Marks
     DEF Measure!MeasureNext, Measure!Worker

(* A threshold counts as passed only if the server heard of a value beyond *)
(* the limit since it set it, unless it set the limit between the sending  *)
(* and the marking; and the application's set point is what the server     *)
(* commanded last, whatever was refused (process_queued_commands and       *)
(* process_queued_threshold_commands): the safety half of MeasurementsTold.*)
THEOREM MeasurementsAreTold ==
    ServicesSpec => [](service = "measure" => Measure!ReportedWasSent /\ Measure!LastCommandWins)
<1> DEFINE Inv == service = "measure" => MeasureInv
<1>1. ServicesInit => Inv
  BY MeasureStarts DEF ServicesInit
<1>2. Inv /\ [ServicesNext]_serviceVars => Inv'
  <2> SUFFICES ASSUME Inv, [ServicesNext]_serviceVars, service' = "measure" PROVE MeasureInv'
    OBVIOUS
  <2>1. CASE InMeasure(Measure!MeasureNext)
    <3>1. MeasureInv /\ Measure!MeasureNext
      BY <2>1 DEF InMeasure, Except
    <3> QED
      BY <3>1, MeasureStep
  <2>2. CASE UNCHANGED serviceVars
    BY <2>2 DEF serviceVars, measureVars, MeasureInv, MeasureTypeOK, ReportedInv, CommandInv
  <2>3. ASSUME NEW s \in {"session", "device", "diagnostic", "heart", "machine", "shortcut", "key"},
               service = s, service' = service
        PROVE  FALSE
    BY <2>3
  <2> QED
    BY <2>1, <2>2, <2>3
       DEF ServicesNext, Except, InSession, InKey, InDevice, InDiagnostic, InHeart, InMachine, InShortcut
<1>3. Inv => (service = "measure" => Measure!ReportedWasSent /\ Measure!LastCommandWins)
  BY DEF MeasureInv, ReportedInv, CommandInv, Newest, Measure!ReportedWasSent, Measure!LastCommandWins,
         Measure!Thresholds
<1> QED
  BY <1>1, <1>2, <1>3, PTL DEF ServicesSpec

--------------------------------------------------------------------------------
(* The lists of trouble codes, and the answers to requests to clear them.  *)

Same(a, b) == a.code = b.code /\ a.lamp = b.lamp
IsList(s) == \E S : s \in Seq(S)
TroublesOK(s) ==
    /\ IsList(s)
    /\ \A i \in DOMAIN s : {"code", "lamp"} \subseteq DOMAIN s[i]
    /\ \A i, j \in DOMAIN s : Same(s[i], s[j]) => i = j
ListsOK(a, b) ==
    TroublesOK(a) /\ TroublesOK(b) /\ \A i \in DOMAIN a, j \in DOMAIN b : ~Same(a[i], b[j])

(* Everything asked was answered or waits, tool by tool.                   *)
Waiting(r, t) == Cardinality({i \in 1..Len(r) : r[i].to = t})
AnswersOK(asked, answered, r) ==
    /\ asked \in [Tools -> Nat] /\ answered \in [Tools -> Nat] /\ IsList(r)
    /\ \A t \in Tools : asked[t] = answered[t] + Waiting(r, t)

(* What a search returns: a position where it holds, or 0 and it holds     *)
(* nowhere.                                                                *)
LEMMA Least ==
    ASSUME NEW T, T \subseteq Nat, T # {}
    PROVE  Diagnostic!Min(T) \in T
<1> DEFINE R == OpToRel(<, Nat)
<1>1. IsWellFoundedOn(R, Nat)
  BY NatLessThanWellFounded
<1>2. R = {ss \in Nat \X Nat : ss[1] < ss[2]}
  BY DEF OpToRel
<1> HIDE DEF R
<1>3. PICK x \in T : \A y \in T : <<y, x>> \notin R
  BY <1>1, WFMin
<1>4. \A y \in T : x <= y
  <2> SUFFICES ASSUME NEW y \in T, y < x PROVE FALSE
    OBVIOUS
  <2>1. <<y, x>> \in R
    BY <1>2
  <2> QED
    BY <1>3, <2>1
<1> QED
  BY <1>4 DEF Diagnostic!Min

LEMMA Found ==
    ASSUME NEW s, IsList(s), NEW dtc, NEW code
    PROVE  /\ LET i == Diagnostic!Find(s, dtc)
              IN  IF i = 0 THEN \A j \in DOMAIN s : ~Same(s[j], dtc)
                  ELSE i \in DOMAIN s /\ Same(s[i], dtc)
           /\ LET i == Diagnostic!FindCode(s, code)
              IN  i # 0 => i \in DOMAIN s
<1> DEFINE T == {j \in 1..Len(s) : s[j].code = dtc.code /\ s[j].lamp = dtc.lamp}
           C == {j \in 1..Len(s) : s[j].code = code}
<1>1. /\ Diagnostic!Find(s, dtc) = IF T # {} THEN Diagnostic!Min(T) ELSE 0
      /\ Diagnostic!FindCode(s, code) = IF C # {} THEN Diagnostic!Min(C) ELSE 0
  BY DEF Diagnostic!Find, Diagnostic!FindCode, Diagnostic!SelectInSeq
<1>2. DOMAIN s = 1..Len(s) /\ Len(s) \in Nat
  BY DEF IsList
<1>3. T \subseteq Nat /\ C \subseteq Nat
  BY <1>2
<1>4. (T # {} => Diagnostic!Min(T) \in T) /\ (C # {} => Diagnostic!Min(C) \in C)
  BY <1>3, Least
<1>5. T # {} => Diagnostic!Min(T) # 0 /\ Diagnostic!Min(T) \in DOMAIN s /\ Same(s[Diagnostic!Min(T)], dtc)
  <2> SUFFICES ASSUME NEW j \in T PROVE j # 0 /\ j \in DOMAIN s /\ Same(s[j], dtc)
    BY <1>4
  <2> QED
    BY <1>2 DEF Same
<1>6. C # {} => Diagnostic!Min(C) \in DOMAIN s
  BY <1>2, <1>4
<1>7. T = {} => \A j \in DOMAIN s : ~Same(s[j], dtc)
  BY <1>2 DEF Same
<1> HIDE DEF T, C
<1> QED
  BY <1>1, <1>5, <1>6, <1>7

(* Lists without an entry, with one more, and one behind the other.        *)
LEMMA Removed ==
    ASSUME NEW S, NEW s \in Seq(S), NEW i \in DOMAIN s
    PROVE  /\ Diagnostic!RemoveAt(s, i) \in Seq(S)
           /\ Len(Diagnostic!RemoveAt(s, i)) = Len(s) - 1
           /\ \A j \in 1..(Len(s) - 1) :
                 Diagnostic!RemoveAt(s, i)[j] = IF j < i THEN s[j] ELSE s[j + 1]
<1> DEFINE before == SubSeq(s, 1, i - 1)
           after == SubSeq(s, i + 1, Len(s))
<1>1. before \in Seq(S) /\ after \in Seq(S)
  OBVIOUS
<1>2. Len(before) = i - 1 /\ Len(after) = Len(s) - i
  OBVIOUS
<1>3. /\ \A j \in 1..(i - 1) : before[j] = s[j]
      /\ \A j \in 1..(Len(s) - i) : after[j] = s[i + j]
  OBVIOUS
<1>4. Diagnostic!RemoveAt(s, i) = before \o after
  BY DEF Diagnostic!RemoveAt
<1> HIDE DEF before, after
<1>5. before \o after \in Seq(S) /\ Len(before \o after) = Len(s) - 1
  BY <1>1, <1>2
<1>6. ASSUME NEW j \in 1..(Len(s) - 1)
      PROVE  (before \o after)[j] = IF j < i THEN s[j] ELSE s[j + 1]
  <2>1. CASE j < i
    BY <1>1, <1>2, <1>3, <2>1
  <2>2. CASE ~(j < i)
    <3>0. /\ j \in Int /\ i \in 1..Len(s) /\ Len(s) \in Nat
          /\ j > Len(before) /\ j <= Len(before) + Len(after)
      BY <1>2, <2>2
    <3>1. (before \o after)[j] = after[j - (i - 1)]
      BY <1>1, <1>2, <3>0, SMTT(120)
    <3>2. j - (i - 1) \in 1..(Len(s) - i) /\ i + (j - (i - 1)) = j + 1
      BY <2>2
    <3> QED
      BY <1>3, <2>2, <3>1, <3>2
  <2> QED
    BY <2>1, <2>2
<1> QED
  BY <1>4, <1>5, <1>6

LEMMA TroubleRemoved ==
    ASSUME NEW s, TroublesOK(s), NEW i \in DOMAIN s
    PROVE  /\ TroublesOK(Diagnostic!RemoveAt(s, i))
           /\ \A j \in DOMAIN Diagnostic!RemoveAt(s, i) :
                 \E k \in DOMAIN s : k # i /\ Diagnostic!RemoveAt(s, i)[j] = s[k]
<1> DEFINE rest == Diagnostic!RemoveAt(s, i)
           old(j) == IF j < i THEN j ELSE j + 1
<1>1. PICK S : s \in Seq(S)
  BY DEF TroublesOK, IsList
<1>2. /\ rest \in Seq(S) /\ Len(rest) = Len(s) - 1
      /\ \A j \in 1..(Len(s) - 1) : rest[j] = IF j < i THEN s[j] ELSE s[j + 1]
  BY <1>1, Removed
<1> HIDE DEF rest
<1>6. /\ rest \in Seq(S) /\ DOMAIN rest = 1..(Len(s) - 1)
      /\ DOMAIN s = 1..Len(s) /\ Len(s) \in Nat /\ i \in 1..Len(s)
  BY <1>1, <1>2
<1>7. ASSUME NEW j \in DOMAIN rest PROVE old(j) \in DOMAIN s /\ old(j) # i /\ rest[j] = s[old(j)]
  BY <1>2, <1>6
<1>8. \A j, k \in DOMAIN rest : old(j) = old(k) => j = k
  BY <1>6
<1> HIDE DEF old
<1>9. TroublesOK(rest)
  BY <1>6, <1>7, <1>8 DEF TroublesOK, IsList
<1> QED
  BY <1>7, <1>9 DEF rest

LEMMA TroubleAppended ==
    ASSUME NEW s, TroublesOK(s), NEW e, {"code", "lamp"} \subseteq DOMAIN e,
           \A i \in DOMAIN s : ~Same(s[i], e)
    PROVE  /\ TroublesOK(Append(s, e))
           /\ \A j \in DOMAIN Append(s, e) :
                 Append(s, e)[j] = e \/ \E k \in DOMAIN s : Append(s, e)[j] = s[k]
<1> DEFINE more == Append(s, e)
<1>1. PICK S : s \in Seq(S)
  BY DEF TroublesOK, IsList
<1>2. s \in Seq(S \cup {e}) /\ e \in S \cup {e}
  BY <1>1
<1>3. /\ more \in Seq(S \cup {e}) /\ DOMAIN more = 1..(Len(s) + 1) /\ DOMAIN s = 1..Len(s)
      /\ Len(s) \in Nat /\ more[Len(s) + 1] = e /\ \A j \in 1..Len(s) : more[j] = s[j]
  BY <1>2
<1> HIDE DEF more
<1>4. \A j \in DOMAIN more : (j \in DOMAIN s /\ more[j] = s[j]) \/ (j = Len(s) + 1 /\ more[j] = e)
  <2> TAKE j \in DOMAIN more
  <2>1. j \in 1..Len(s) \/ j = Len(s) + 1
    BY <1>3
  <2> QED
    BY <1>3, <2>1
<1>5. \A i \in DOMAIN s : ~Same(e, s[i])
  BY DEF Same
<1>6. TroublesOK(more)
  BY <1>3, <1>4, <1>5 DEF TroublesOK, IsList
<1> QED
  BY <1>4, <1>6 DEF more

LEMMA TroubleJoined ==
    ASSUME NEW a, NEW b, ListsOK(a, b)
    PROVE  TroublesOK(b \o a) /\ TroublesOK(a \o b)
<1>1. ASSUME NEW s, NEW t, TroublesOK(s), TroublesOK(t),
             \A i \in DOMAIN s, j \in DOMAIN t : ~Same(s[i], t[j]) /\ ~Same(t[j], s[i])
      PROVE  TroublesOK(s \o t)
  <2> DEFINE all == s \o t
  <2>1. PICK S, T : s \in Seq(S) /\ t \in Seq(T)
    BY <1>1 DEF TroublesOK, IsList
  <2>2. s \in Seq(S \cup T) /\ t \in Seq(S \cup T)
    BY <2>1
  <2>3. /\ all \in Seq(S \cup T) /\ DOMAIN all = 1..(Len(s) + Len(t)) /\ Len(s) \in Nat /\ Len(t) \in Nat
        /\ DOMAIN s = 1..Len(s) /\ DOMAIN t = 1..Len(t)
        /\ \A i \in 1..Len(s) : all[i] = s[i]
    BY <2>2
  <2>4. \A i \in DOMAIN all : i > Len(s) => i - Len(s) \in DOMAIN t /\ all[i] = t[i - Len(s)]
    BY <2>2, <2>3
  <2> HIDE DEF all
  <2>5. \A i \in DOMAIN all : \/ i \in DOMAIN s /\ all[i] = s[i]
                              \/ i \in Int /\ i - Len(s) \in DOMAIN t /\ all[i] = t[i - Len(s)]
    BY <2>3, <2>4
  <2>6. \A i, j \in DOMAIN all : i - Len(s) = j - Len(s) => i = j
    BY <2>3
  <2>7. ASSUME NEW i \in DOMAIN all, NEW j \in DOMAIN all, Same(all[i], all[j]) PROVE i = j
    BY <1>1, <2>5, <2>6, <2>7 DEF TroublesOK
  <2>8. \A i \in DOMAIN all : {"code", "lamp"} \subseteq DOMAIN all[i]
    BY <1>1, <2>5 DEF TroublesOK
  <2> QED
    BY <2>3, <2>7, <2>8 DEF TroublesOK, IsList, all
<1>2. \A i \in DOMAIN a, j \in DOMAIN b : ~Same(a[i], b[j]) /\ ~Same(b[j], a[i])
  BY DEF ListsOK, Same
<1> QED
  BY <1>1, <1>2 DEF ListsOK

(* A code goes from one list to the other, counted or not.                 *)
LEMMA TroubleMoved ==
    ASSUME NEW a, NEW b, ListsOK(a, b), NEW i \in DOMAIN a,
           NEW e, Same(e, a[i]), {"code", "lamp"} \subseteq DOMAIN e
    PROVE  /\ ListsOK(Diagnostic!RemoveAt(a, i), Append(b, e))
           /\ ListsOK(Append(b, e), Diagnostic!RemoveAt(a, i))
<1> DEFINE rest == Diagnostic!RemoveAt(a, i)
           more == Append(b, e)
<1>1. /\ TroublesOK(rest)
      /\ \A j \in DOMAIN rest : \E k \in DOMAIN a : k # i /\ rest[j] = a[k]
  BY TroubleRemoved DEF ListsOK
<1>2. \A j \in DOMAIN b : ~Same(b[j], e)
  BY DEF ListsOK, Same
<1>3. /\ TroublesOK(more)
      /\ \A j \in DOMAIN more : more[j] = e \/ \E k \in DOMAIN b : more[j] = b[k]
  BY <1>2, TroubleAppended DEF ListsOK
<1> HIDE DEF rest, more
<1>4. \A k \in DOMAIN a : k # i => ~Same(a[k], e)
  BY DEF ListsOK, TroublesOK, Same
<1>5. \A j \in DOMAIN rest, k \in DOMAIN more : ~Same(rest[j], more[k])
  BY <1>1, <1>3, <1>4 DEF ListsOK
<1>6. \A j \in DOMAIN rest, k \in DOMAIN more : ~Same(more[k], rest[j])
  BY <1>5 DEF Same
<1> QED
  BY <1>1, <1>3, <1>5, <1>6 DEF ListsOK, rest, more

LEMMA ListsShrink ==
    ASSUME NEW a, NEW b, ListsOK(a, b)
    PROVE  /\ ListsOK(b, a) /\ ListsOK(a, <<>>) /\ ListsOK(<<>>, b \o a)
           /\ \A i \in DOMAIN b : ListsOK(a, Diagnostic!RemoveAt(b, i))
<1>1. TroublesOK(<<>>)
  <2>1. <<>> \in Seq({}) /\ DOMAIN <<>> = {}
    OBVIOUS
  <2> QED
    BY <2>1 DEF TroublesOK, IsList
<1>2. TroublesOK(b \o a)
  BY TroubleJoined
<1>3. ASSUME NEW i \in DOMAIN b PROVE ListsOK(a, Diagnostic!RemoveAt(b, i))
  <2> DEFINE rest == Diagnostic!RemoveAt(b, i)
  <2>1. /\ TroublesOK(rest)
        /\ \A j \in DOMAIN rest : \E k \in DOMAIN b : k # i /\ rest[j] = b[k]
    BY TroubleRemoved DEF ListsOK
  <2> HIDE DEF rest
  <2>2. ListsOK(a, rest)
    BY <2>1 DEF ListsOK
  <2> QED
    BY <2>2 DEF rest
<1>4. DOMAIN <<>> = {}
  OBVIOUS
<1> QED
  BY <1>1, <1>2, <1>3, <1>4 DEF ListsOK, Same

(* What the operations do to the lists.                                    *)
ListsKept == DOMAIN lists = {"active", "inactive"} /\ ListsOK(lists.active, lists.inactive)

LEMMA ActiveKeeps ==
    ASSUME ListsKept, NEW dtc, Diagnostic!set_active(dtc)
    PROVE  ListsKept'
<1> DEFINE i == Diagnostic!Find(lists.inactive, dtc)
           seen == [lists.inactive[i] EXCEPT !.count = (@ + 1) % 256]
           new == [code |-> dtc.code, lamp |-> dtc.lamp, count |-> 1]
<1>1. /\ Diagnostic!Find(lists.active, dtc) = 0
      /\ lists' = IF i # 0
                  THEN [active |-> Append(lists.active, seen),
                        inactive |-> Diagnostic!RemoveAt(lists.inactive, i)]
                  ELSE [lists EXCEPT !.active = Append(@, new)]
  BY DEF Diagnostic!set_active, Diagnostic!Again, Diagnostic!First
<1>2. /\ TroublesOK(lists.active) /\ TroublesOK(lists.inactive)
      /\ IsList(lists.active) /\ IsList(lists.inactive)
      /\ ListsOK(lists.inactive, lists.active)
  BY ListsShrink DEF ListsKept, ListsOK, TroublesOK
<1>3. CASE i # 0
  <2>1. i \in DOMAIN lists.inactive
    BY <1>2, <1>3, Found
  <2>2. {"code", "lamp"} \subseteq DOMAIN lists.inactive[i]
    BY <1>2, <2>1 DEF TroublesOK
  <2>3. Same(seen, lists.inactive[i]) /\ {"code", "lamp"} \subseteq DOMAIN seen
    BY <2>2 DEF Same
  <2>4. /\ lists'.active = Append(lists.active, seen) /\ DOMAIN lists' = {"active", "inactive"}
        /\ lists'.inactive = Diagnostic!RemoveAt(lists.inactive, i)
    BY <1>1, <1>3
  <2> HIDE DEF seen, i
  <2>5. ListsOK(Append(lists.active, seen), Diagnostic!RemoveAt(lists.inactive, i))
    BY <1>2, <2>1, <2>3, TroubleMoved
  <2> QED
    BY <2>4, <2>5 DEF ListsKept
<1>4. CASE i = 0
  <2>1. /\ \A j \in DOMAIN lists.active : ~Same(lists.active[j], dtc)
        /\ \A j \in DOMAIN lists.inactive : ~Same(lists.inactive[j], dtc)
    BY <1>1, <1>2, <1>4, Found
  <2>2. /\ new.code = dtc.code /\ new.lamp = dtc.lamp /\ {"code", "lamp"} \subseteq DOMAIN new
    OBVIOUS
  <2>3. /\ lists'.active = Append(lists.active, new) /\ lists'.inactive = lists.inactive
        /\ DOMAIN lists' = {"active", "inactive"}
    BY <1>1, <1>4 DEF ListsKept
  <2> DEFINE more == Append(lists.active, new)
  <2> HIDE DEF i, new
  <2>4. /\ \A j \in DOMAIN lists.active : ~Same(lists.active[j], new)
        /\ \A j \in DOMAIN lists.inactive : ~Same(new, lists.inactive[j])
    BY <2>1, <2>2 DEF Same
  <2>5. /\ TroublesOK(more)
        /\ \A j \in DOMAIN more : more[j] = new \/ \E k \in DOMAIN lists.active : more[j] = lists.active[k]
    BY <1>2, <2>2, <2>4, TroubleAppended
  <2> HIDE DEF more
  <2>6. ListsOK(more, lists.inactive)
    BY <1>2, <2>4, <2>5 DEF ListsKept, ListsOK
  <2> QED
    BY <2>3, <2>6 DEF ListsKept, more
<1> QED
  BY <1>3, <1>4

LEMMA InactiveKeeps ==
    ASSUME ListsKept, NEW i \in DOMAIN lists.active,
           lists' = [active |-> Diagnostic!RemoveAt(lists.active, i),
                     inactive |-> Append(lists.inactive, lists.active[i])]
    PROVE  ListsKept'
<1>1. Same(lists.active[i], lists.active[i]) /\ {"code", "lamp"} \subseteq DOMAIN lists.active[i]
  BY DEF Same, ListsKept, ListsOK, TroublesOK
<1>2. ListsOK(Diagnostic!RemoveAt(lists.active, i), Append(lists.inactive, lists.active[i]))
  BY <1>1, TroubleMoved DEF ListsKept
<1> QED
  BY <1>2 DEF ListsKept

(* A request to clear a code moves or removes one at most.                 *)
LEMMA ClearKeeps ==
    ASSUME ListsKept, NEW m, Diagnostic!process_dm22(m)
    PROVE  ListsKept'
<1> DEFINE mine == IF m.active THEN lists.active ELSE lists.inactive
           i == Diagnostic!FindCode(mine, m.code)
<1>1. lists' = IF i = 0 THEN lists
               ELSE IF m.active
               THEN [active |-> Diagnostic!RemoveAt(lists.active, i),
                     inactive |-> Append(lists.inactive, lists.active[i])]
               ELSE [lists EXCEPT !.inactive = Diagnostic!RemoveAt(@, i)]
  BY Zenon DEF Diagnostic!process_dm22
<1>2. IsList(mine)
  BY DEF ListsKept, ListsOK, TroublesOK
<1>3. i # 0 => i \in DOMAIN mine
  BY <1>2, Found
<1>4. CASE i = 0
  BY <1>1, <1>4 DEF ListsKept
<1>5. CASE i # 0 /\ m.active
  <2>1. i \in DOMAIN lists.active
    BY <1>3, <1>5
  <2>2. lists' = [active |-> Diagnostic!RemoveAt(lists.active, i),
                  inactive |-> Append(lists.inactive, lists.active[i])]
    BY <1>1, <1>5
  <2> HIDE DEF i
  <2> QED
    BY <2>1, <2>2, InactiveKeeps
<1>6. CASE i # 0 /\ ~m.active
  <2>1. i \in DOMAIN lists.inactive
    BY <1>3, <1>6
  <2>2. /\ lists'.active = lists.active /\ DOMAIN lists' = {"active", "inactive"}
        /\ lists'.inactive = Diagnostic!RemoveAt(lists.inactive, i)
    BY <1>1, <1>6 DEF ListsKept
  <2> HIDE DEF i
  <2>3. ListsOK(lists.active, Diagnostic!RemoveAt(lists.inactive, i))
    BY <2>1, ListsShrink DEF ListsKept
  <2> QED
    BY <2>2, <2>3 DEF ListsKept
<1> QED
  BY <1>4, <1>5, <1>6

(* Every step of the protocol.                                             *)
LEMMA ListsStep ==
    ASSUME ListsKept, Diagnostic!DiagnosticNext
    PROVE  ListsKept'
<1>1. \/ lists' = lists
      \/ \E dtc : Diagnostic!set_active(dtc) \/ Diagnostic!set_inactive(dtc)
      \/ \E m : Diagnostic!process_dm22(m)
      \/ Diagnostic!clear_active_diagnostic_trouble_codes
      \/ Diagnostic!clear_inactive_diagnostic_trouble_codes
  <2>1. CASE Diagnostic!ApplicationActs
    BY <2>1, Zenon
       DEF Diagnostic!ApplicationActs, Diagnostic!set_diagnostic_trouble_code_active,
           Diagnostic!on_address_violation
  <2>2. CASE Diagnostic!process_message
    <3>1. \/ \E m : Diagnostic!process_dm22(m)
          \/ lists' = lists
          \/ \E m : m.pgn \in Diagnostic!Handled /\ Diagnostic!process_parameter_group_number_request(m)
          \/ \E m : Diagnostic!process_other_request(m)
      BY <2>2, Zenon DEF Diagnostic!process_message
    <3>2. ASSUME NEW m, m.pgn \in Diagnostic!Handled,
                 Diagnostic!process_parameter_group_number_request(m)
          PROVE  \/ lists' = lists \/ Diagnostic!clear_active_diagnostic_trouble_codes
                 \/ Diagnostic!clear_inactive_diagnostic_trouble_codes
      BY <3>2 DEF Diagnostic!process_parameter_group_number_request, Diagnostic!Handled
    <3> QED
      BY <3>1, <3>2 DEF Diagnostic!process_other_request
  <2>3. CASE Diagnostic!DiagnosticRuns
    BY <2>3 DEF Diagnostic!DiagnosticRuns, Diagnostic!update, Diagnostic!process_all_flags,
                Diagnostic!TimePasses
  <2> QED
    BY <2>1, <2>2, <2>3 DEF Diagnostic!DiagnosticNext
<1>2. ASSUME NEW dtc, Diagnostic!set_inactive(dtc) PROVE ListsKept'
  <2> DEFINE i == Diagnostic!Find(lists.active, dtc)
  <2>1. /\ i # 0
        /\ lists' = [active |-> Diagnostic!RemoveAt(lists.active, i),
                     inactive |-> Append(lists.inactive, lists.active[i])]
    BY <1>2, Zenon DEF Diagnostic!set_inactive
  <2>2. IsList(lists.active)
    BY DEF ListsKept, ListsOK, TroublesOK
  <2>3. i \in DOMAIN lists.active
    BY <2>1, <2>2, Found
  <2> HIDE DEF i
  <2> QED
    BY <2>1, <2>3, InactiveKeeps
<1>3. Diagnostic!clear_active_diagnostic_trouble_codes => ListsKept'
  <2> SUFFICES ASSUME lists' = [active |-> <<>>, inactive |-> lists.inactive \o lists.active]
               PROVE  ListsKept'
    BY DEF Diagnostic!clear_active_diagnostic_trouble_codes
  <2> QED
    BY ListsShrink DEF ListsKept
<1>4. Diagnostic!clear_inactive_diagnostic_trouble_codes => ListsKept'
  BY ListsShrink DEF ListsKept, Diagnostic!clear_inactive_diagnostic_trouble_codes
<1> QED
  BY <1>1, <1>2, <1>3, <1>4, ActiveKeeps, ClearKeeps DEF ListsKept

(* The answers that wait: one more, and the newest ones sent.              *)
LEMMA OneMoreWaits ==
    ASSUME NEW r, IsList(r), NEW x
    PROVE  /\ IsList(Append(r, x))
           /\ \A t : Waiting(Append(r, x), t) = Waiting(r, t) + IF x.to = t THEN 1 ELSE 0
           /\ \A t : Waiting(r, t) \in Nat
<1> DEFINE more == Append(r, x)
<1>1. PICK S : r \in Seq(S)
  BY DEF IsList
<1>2. r \in Seq(S \cup {x}) /\ x \in S \cup {x}
  BY <1>1
<1>3. /\ more \in Seq(S \cup {x}) /\ Len(more) = Len(r) + 1 /\ Len(r) \in Nat
      /\ more[Len(r) + 1] = x /\ \A j \in 1..Len(r) : more[j] = r[j]
  BY <1>2
<1> HIDE DEF more
<1>4. ASSUME NEW t
      PROVE  Waiting(more, t) = Waiting(r, t) + (IF x.to = t THEN 1 ELSE 0) /\ Waiting(r, t) \in Nat
  <2> DEFINE W == {i \in 1..Len(r) : r[i].to = t}
             V == {i \in 1..Len(more) : more[i].to = t}
  <2>0. 1 \in Int /\ Len(r) \in Int /\ W \in SUBSET (1..Len(r))
    BY <1>3
  <2>1. IsFiniteSet(1..Len(r)) /\ W \in SUBSET (1..Len(r))
    BY <2>0, FS_Interval, Zenon
  <2>2. IsFiniteSet(W)
    BY <2>1, FS_Subset
  <2>3. Cardinality(W) \in Nat
    BY <2>2, FS_CardinalityType
  <2>4. Len(r) + 1 \notin W
    BY <1>3
  <2>5. V = IF x.to = t THEN W \cup {Len(r) + 1} ELSE W
    BY <1>3
  <2>6. Waiting(more, t) = Cardinality(V) /\ Waiting(r, t) = Cardinality(W)
    BY DEF Waiting
  <2> HIDE DEF W, V
  <2>7. Cardinality(W \cup {Len(r) + 1}) = Cardinality(W) + 1
    BY <2>2, <2>4, FS_AddElement
  <2> QED
    BY <2>3, <2>5, <2>6, <2>7
<1>5. IsList(more)
  BY <1>3 DEF IsList
<1> QED
  BY <1>4, <1>5 DEF more

LEMMA NewestSent ==
    ASSUME NEW r, IsList(r), NEW refused \in 0..Len(r), NEW t
    PROVE  /\ IsList(SubSeq(r, 1, refused)) /\ Len(SubSeq(r, 1, refused)) = refused
           /\ Cardinality({i \in (refused + 1)..Len(r) : r[i].to = t}) \in Nat
           /\ Waiting(r, t) = Waiting(SubSeq(r, 1, refused), t)
                              + Cardinality({i \in (refused + 1)..Len(r) : r[i].to = t})
<1> DEFINE rest == SubSeq(r, 1, refused)
           W == {i \in 1..Len(r) : r[i].to = t}
           L == {i \in 1..refused : r[i].to = t}
           G == {i \in (refused + 1)..Len(r) : r[i].to = t}
<1>1. PICK S : r \in Seq(S)
  BY DEF IsList
<1>2. /\ rest \in Seq(S) /\ Len(rest) = refused /\ refused \in Nat /\ Len(r) \in Nat
      /\ refused <= Len(r) /\ \A i \in 1..refused : rest[i] = r[i]
  BY <1>1
<1> HIDE DEF rest
<1>3. Waiting(rest, t) = Cardinality(L)
  <2>1. {i \in 1..Len(rest) : rest[i].to = t} = L
    BY <1>2
  <2> QED
    BY <2>1 DEF Waiting
<1>4. IsFiniteSet(1..Len(r)) /\ L \in SUBSET (1..Len(r)) /\ G \in SUBSET (1..Len(r))
  <2>1. 1 \in Int /\ Len(r) \in Int
    BY <1>2
  <2>2. IsFiniteSet(1..Len(r))
    BY <2>1, FS_Interval, Zenon
  <2>3. L \in SUBSET (1..Len(r)) /\ G \in SUBSET (1..Len(r))
    BY <1>2
  <2> QED
    BY <2>2, <2>3
<1>5. IsFiniteSet(L) /\ IsFiniteSet(G)
  BY <1>4, FS_Subset
<1>6. W = L \cup G /\ L \cap G = {}
  BY <1>2
<1>7. Waiting(r, t) = Cardinality(W)
  BY DEF Waiting
<1>8. IsList(rest)
  BY <1>2 DEF IsList
<1> HIDE DEF W, L
<1>9. Cardinality(L) \in Nat /\ Cardinality(G) \in Nat
  BY <1>5, FS_CardinalityType
<1>10. Cardinality(W) = Cardinality(L) + Cardinality(G) - Cardinality({})
  BY <1>5, <1>6, FS_Union
<1> QED
  BY <1>2, <1>3, <1>7, <1>8, <1>9, <1>10, FS_EmptySet DEF rest

AnswersKept ==
    /\ "refusals" \in DOMAIN plan /\ plan.refusals \in Nat
    /\ {"asked", "answered"} \subseteq DOMAIN told
    /\ AnswersOK(told.asked, told.answered, responses)

(* A request is answered later; an answer that was refused waits on.       *)
LEMMA RequestKeeps ==
    ASSUME AnswersKept, NEW m, Diagnostic!process_dm22(m),
           plan' = [plan EXCEPT !.bus = Tail(@)]
    PROVE  AnswersKept'
<1>1. PICK x : x.to = m.from /\ responses' = Append(responses, x)
  <2>1. \E nack, reason : responses' = Append(responses, Diagnostic!Answer(m, nack, reason))
    BY Zenon DEF Diagnostic!process_dm22
  <2>2. \A nack, reason : Diagnostic!Answer(m, nack, reason).to = m.from
    BY DEF Diagnostic!Answer
  <2> QED
    BY <2>1, <2>2
<1>2. told' = [told EXCEPT !.asked[m.from] = @ + 1]
  BY Zenon DEF Diagnostic!process_dm22
<1>3. /\ told'.asked = [told.asked EXCEPT ![m.from] = @ + 1]
      /\ told'.answered = told.answered /\ DOMAIN told' = DOMAIN told
  BY <1>2 DEF AnswersKept
<1>4. IsList(responses) /\ told.asked \in [Tools -> Nat] /\ told.answered \in [Tools -> Nat]
      /\ \A t \in Tools : told.asked[t] = told.answered[t] + Waiting(responses, t)
  BY DEF AnswersKept, AnswersOK
<1>5. /\ IsList(responses')
      /\ \A t \in Tools : /\ Waiting(responses', t) = Waiting(responses, t) + (IF m.from = t THEN 1 ELSE 0)
                          /\ Waiting(responses, t) \in Nat
  <2>1. /\ IsList(Append(responses, x))
        /\ \A t : Waiting(Append(responses, x), t) = Waiting(responses, t) + IF x.to = t THEN 1 ELSE 0
        /\ \A t : Waiting(responses, t) \in Nat
    BY <1>4, OneMoreWaits
  <2> QED
    BY <1>1, <2>1
<1>6. told'.asked \in [Tools -> Nat]
  <2>1. DOMAIN told'.asked = Tools
    BY <1>3, <1>4
  <2>2. ASSUME NEW t \in Tools PROVE told'.asked[t] \in Nat
    <3>1. told.asked[t] \in Nat /\ told'.asked[t] \in {told.asked[t], told.asked[t] + 1}
      BY <1>3, <1>4
    <3> QED
      BY <3>1
  <2>3. told'.asked = [t \in Tools |-> told'.asked[t]]
    BY <1>3, <1>4, <2>1, Zenon
  <2> QED
    BY <2>2, <2>3
<1>7. ASSUME NEW t \in Tools
      PROVE  told'.asked[t] = told'.answered[t] + Waiting(responses', t)
  <2>1. told'.asked[t] = told.asked[t] + (IF m.from = t THEN 1 ELSE 0)
    BY <1>3, <1>4
  <2> QED
    BY <1>3, <1>4, <1>5, <2>1
<1>8. "refusals" \in DOMAIN plan' /\ plan'.refusals \in Nat
  BY DEF AnswersKept
<1> QED
  BY <1>3, <1>4, <1>5, <1>6, <1>7, <1>8 DEF AnswersKept, AnswersOK

LEMMA Smaller ==
    ASSUME NEW a \in Nat, NEW b \in Nat
    PROVE  Diagnostic!Min({a, b}) = IF a <= b THEN a ELSE b
<1> DEFINE m == Diagnostic!Min({a, b})
           r == IF a <= b THEN a ELSE b
<1>1. r \in {a, b} /\ \A y \in {a, b} : r <= y
  OBVIOUS
<1>2. m \in {a, b} /\ \A y \in {a, b} : m <= y
  BY <1>1 DEF Diagnostic!Min
<1> QED
  BY <1>1, <1>2

(* The size of a set is the same in every module.                          *)
LEMMA SameSize ==
    ASSUME NEW S
    PROVE  Diagnostic!Cardinality(S) = Cardinality(S)
  BY Zenon DEF Diagnostic!Cardinality, Cardinality

LEMMA ResponsesKeep ==
    ASSUME AnswersKept, NEW sent \in BOOLEAN, Diagnostic!process_all_dm22_responses(sent)
    PROVE  AnswersKept' /\ (sent /\ Len(responses) = 1 => Len(responses') # 1)
<1> DEFINE gone(refused) ==
               [t \in Tools |-> told.answered[t]
                  + Diagnostic!Cardinality({i \in (refused + 1)..Len(responses) : responses[i].to = t})]
<1>0. PICK refused \in 0..Diagnostic!Min({Len(responses), plan.refusals}) :
        /\ IF sent THEN refused < Len(responses) ELSE refused > 0
        /\ plan' = [plan EXCEPT !.refusals = @ - refused]
        /\ responses' = SubSeq(responses, 1, Diagnostic!Left(refused))
        /\ told' = [told EXCEPT !.answered = gone(refused)]
        /\ UNCHANGED <<pending, sinceDM1>>
  BY DEF Diagnostic!process_all_dm22_responses
<1>1. /\ IF sent THEN refused < Len(responses) ELSE refused > 0
      /\ plan' = [plan EXCEPT !.refusals = @ - refused]
      /\ responses' = SubSeq(responses, 1, refused)
      /\ told' = [told EXCEPT !.answered = [t \in Tools |-> told.answered[t]
                  + Cardinality({i \in (refused + 1)..Len(responses) : responses[i].to = t})]]
  BY <1>0, SameSize, Zenon DEF Diagnostic!Left
<1>2. /\ IsList(responses) /\ told.asked \in [Tools -> Nat] /\ told.answered \in [Tools -> Nat]
      /\ plan.refusals \in Nat /\ "refusals" \in DOMAIN plan /\ {"asked", "answered"} \subseteq DOMAIN told
      /\ \A t \in Tools : told.asked[t] = told.answered[t] + Waiting(responses, t)
  BY DEF AnswersKept, AnswersOK
<1>3. Len(responses) \in Nat
  BY <1>2 DEF IsList
<1>4. refused \in 0..Len(responses) /\ plan.refusals - refused \in Nat
  <2>1. refused \in 0..(IF Len(responses) <= plan.refusals THEN Len(responses) ELSE plan.refusals)
    BY <1>2, <1>3, Smaller
  <2> QED
    BY <1>2, <1>3, <2>1
<1>5. /\ told'.asked = told.asked /\ DOMAIN told' = DOMAIN told
      /\ told'.answered = [t \in Tools |-> told.answered[t]
               + Cardinality({i \in (refused + 1)..Len(responses) : responses[i].to = t})]
  BY <1>1, <1>2
<1>6. \A t \in Tools :
         /\ Cardinality({i \in (refused + 1)..Len(responses) : responses[i].to = t}) \in Nat
         /\ Waiting(responses, t) = Waiting(responses', t)
               + Cardinality({i \in (refused + 1)..Len(responses) : responses[i].to = t})
  <2> TAKE t \in Tools
  <2>1. /\ Cardinality({i \in (refused + 1)..Len(responses) : responses[i].to = t}) \in Nat
        /\ Waiting(responses, t) = Waiting(SubSeq(responses, 1, refused), t)
               + Cardinality({i \in (refused + 1)..Len(responses) : responses[i].to = t})
    BY <1>2, <1>4, NewestSent
  <2> QED
    BY <1>1, <2>1
<1>7. IsList(responses') /\ Len(responses') = refused
  BY <1>1, <1>2, <1>4, NewestSent
<1>8. \A t \in Tools : Waiting(responses', t) \in Nat
  BY <1>7, OneMoreWaits
<1>9. told'.answered \in [Tools -> Nat]
  <2>1. ASSUME NEW t \in Tools
        PROVE  told.answered[t]
            + Cardinality({i \in (refused + 1)..Len(responses) : responses[i].to = t}) \in Nat
    <3> DEFINE g == Cardinality({i \in (refused + 1)..Len(responses) : responses[i].to = t})
    <3>1. told.answered[t] \in Nat /\ g \in Nat
      BY <1>2, <1>6
    <3> HIDE DEF g
    <3>2. told.answered[t] + g \in Nat
      BY <3>1
    <3> QED
      BY <3>2 DEF g
  <2> QED
    BY <1>5, <2>1
<1>10. ASSUME NEW t \in Tools
       PROVE  told'.asked[t] = told'.answered[t] + Waiting(responses', t)
  <2> DEFINE g == Cardinality({i \in (refused + 1)..Len(responses) : responses[i].to = t})
  <2>1. /\ told'.answered[t] = told.answered[t] + g /\ g \in Nat
        /\ Waiting(responses, t) = Waiting(responses', t) + g
        /\ told.asked[t] = told.answered[t] + Waiting(responses, t)
        /\ told.answered[t] \in Nat /\ Waiting(responses', t) \in Nat /\ told'.asked[t] = told.asked[t]
    BY <1>2, <1>5, <1>6, <1>8
  <2> HIDE DEF g
  <2> QED
    BY <2>1
<1>11. "refusals" \in DOMAIN plan' /\ plan'.refusals \in Nat
  BY <1>1, <1>2, <1>4
<1>12. AnswersKept'
  BY <1>2, <1>5, <1>7, <1>9, <1>10, <1>11 DEF AnswersKept, AnswersOK
<1>13. ASSUME sent, Len(responses) = 1 PROVE Len(responses') # 1
  <2>1. refused < Len(responses)
    BY <1>1, <1>13
  <2> QED
    BY <1>7, <1>13, <2>1
<1> QED
  BY <1>12, <1>13

(* A step that leaves the answers, and what was asked, as they are.        *)
LEMMA QuietKeeps ==
    ASSUME AnswersKept, responses' = responses,
           \/ told' = told
           \/ \E x : told' = [told EXCEPT !.ack = x] \/ told' = [told EXCEPT !.dm1 = x],
           \/ plan' = plan
           \/ \E x : plan' = [plan EXCEPT !.application = x] \/ plan' = [plan EXCEPT !.bus = x]
           \/ plan.refusals > 0 /\ plan' = [plan EXCEPT !.refusals = @ - 1]
    PROVE  AnswersKept'
<1>1. told'.asked = told.asked /\ told'.answered = told.answered /\ DOMAIN told' = DOMAIN told
  BY DEF AnswersKept
<1>2. DOMAIN plan' = DOMAIN plan /\ plan'.refusals \in Nat
  <2>1. CASE plan' = plan
    BY <2>1 DEF AnswersKept
  <2>2. ASSUME NEW x, plan' = [plan EXCEPT !.application = x] PROVE <1>2
    BY <2>2 DEF AnswersKept
  <2>3. ASSUME NEW x, plan' = [plan EXCEPT !.bus = x] PROVE <1>2
    BY <2>3 DEF AnswersKept
  <2>4. CASE plan.refusals > 0 /\ plan' = [plan EXCEPT !.refusals = @ - 1]
    BY <2>4 DEF AnswersKept
  <2> QED
    BY <2>1, <2>2, <2>3, <2>4
<1> QED
  BY <1>1, <1>2 DEF AnswersKept, AnswersOK

(* The flags are cleared before their messages are sent, and set again     *)
(* when those failed.                                                      *)
LEMMA FlagsKeep ==
    ASSUME AnswersKept, Diagnostic!process_all_flags
    PROVE  /\ AnswersKept'
           /\ Diagnostic!OneAnswerWaits => Diagnostic!OneAnswerWaits' \/ Len(responses') # 1
<1> DEFINE flag == Diagnostic!TransmitFlags[at]
<1>1. IF flag \in flags
      THEN \E sent \in BOOLEAN : Diagnostic!Sent(flag, sent) /\ flags' = Diagnostic!process_flags(flag, sent)
      ELSE UNCHANGED <<plan, responses, pending, sinceDM1, told, flags>>
  BY Zenon DEF Diagnostic!process_all_flags
<1> HIDE DEF flag
<1>2. CASE flag \notin flags
  BY <1>1, <1>2, QuietKeeps DEF Diagnostic!OneAnswerWaits
<1>3. CASE flag \in flags
  <2>1. PICK sent \in BOOLEAN : Diagnostic!Sent(flag, sent) /\ flags' = Diagnostic!process_flags(flag, sent)
    BY <1>1, <1>3
  <2>2. CASE flag = "DM22"
    <3>1. Diagnostic!process_all_dm22_responses(sent)
      BY <2>1, <2>2 DEF Diagnostic!Sent
    <3>2. AnswersKept' /\ (sent /\ Len(responses) = 1 => Len(responses') # 1)
      BY <3>1, ResponsesKeep
    <3>3. ~sent => flags' = flags
      BY <2>1 DEF Diagnostic!process_flags
    <3> QED
      BY <3>2, <3>3 DEF Diagnostic!OneAnswerWaits
  <2>3. CASE flag # "DM22"
    <3>1. \/ Diagnostic!send_diagnostic_message(flag, sent)
          \/ Diagnostic!send_diagnostic_protocol_identification(sent)
          \/ Diagnostic!send_no_identification
          \/ Diagnostic!send_identification(flag, sent)
      BY <2>1, <2>3 DEF Diagnostic!Sent
    <3>2. /\ responses' = responses
          /\ told' = told \/ \E x : told' = [told EXCEPT !.dm1 = x]
          /\ plan' = plan \/ Diagnostic!Tried(sent)
      BY <3>1, Zenon
         DEF Diagnostic!send_diagnostic_message, Diagnostic!send_diagnostic_protocol_identification,
             Diagnostic!send_no_identification, Diagnostic!send_identification
    <3>3. \/ plan' = plan
          \/ plan.refusals > 0 /\ plan' = [plan EXCEPT !.refusals = @ - 1]
      BY <3>2, Zenon DEF Diagnostic!Tried
    <3>4. AnswersKept'
      BY <3>2, <3>3, QuietKeeps
    <3>5. "DM22" \in flags => "DM22" \in flags'
      BY <2>1, <2>3 DEF Diagnostic!process_flags
    <3> QED
      BY <3>2, <3>4, <3>5 DEF Diagnostic!OneAnswerWaits
  <2> QED
    BY <2>2, <2>3
<1> QED
  BY <1>2, <1>3

(* Every other step keeps the flag of the answers.                         *)
LEMMA AnswersStep ==
    ASSUME AnswersKept, Diagnostic!DiagnosticNext
    PROVE  /\ AnswersKept'
           /\ Diagnostic!OneAnswerWaits => Diagnostic!OneAnswerWaits' \/ Len(responses') # 1
<1>1. CASE Diagnostic!ApplicationActs
  <2>1. responses' = responses /\ told' = told /\ \E x : plan' = [plan EXCEPT !.application = x]
    BY <1>1, Zenon DEF Diagnostic!ApplicationActs
  <2>2. \/ flags' = flags
        \/ \E dtc : Diagnostic!set_active(dtc) \/ Diagnostic!set_inactive(dtc)
    BY <1>1, Zenon
       DEF Diagnostic!ApplicationActs, Diagnostic!set_diagnostic_trouble_code_active,
           Diagnostic!on_address_violation
  <2>3. \A dtc : Diagnostic!set_active(dtc) => flags' = flags \/ flags' = flags \cup {"DM1"}
    BY Zenon DEF Diagnostic!set_active
  <2>4. \A dtc : Diagnostic!set_inactive(dtc) => flags' = flags
    BY Zenon DEF Diagnostic!set_inactive
  <2>5. AnswersKept'
    BY <2>1, QuietKeeps
  <2> QED
    BY <2>1, <2>2, <2>3, <2>4, <2>5 DEF Diagnostic!OneAnswerWaits
<1>2. CASE Diagnostic!process_message
  <2>1. plan' = [plan EXCEPT !.bus = Tail(@)]
    BY <1>2, Zenon DEF Diagnostic!process_message
  <2>2. \/ \E m : Diagnostic!process_dm22(m)
        \/ responses' = responses /\ told' = told /\ flags' = flags
        \/ /\ responses' = responses
           /\ \E m : m.pgn \in Diagnostic!Handled /\ Diagnostic!process_parameter_group_number_request(m)
        \/ responses' = responses /\ \E m : Diagnostic!process_other_request(m)
    BY <1>2, Zenon DEF Diagnostic!process_message
  <2>3. ASSUME NEW m, Diagnostic!process_dm22(m)
        PROVE  AnswersKept' /\ "DM22" \in flags'
    <3>1. flags' = flags \cup {"DM22"}
      BY <2>3, Zenon DEF Diagnostic!process_dm22
    <3> QED
      BY <2>1, <2>3, <3>1, RequestKeeps
  <2>4. ASSUME NEW m, m.pgn \in Diagnostic!Handled, Diagnostic!process_parameter_group_number_request(m)
        PROVE  /\ told' = told \/ \E x : told' = [told EXCEPT !.ack = x]
               /\ flags \subseteq flags'
    <3>1. Diagnostic!clear_active_diagnostic_trouble_codes => flags \subseteq flags'
      BY DEF Diagnostic!clear_active_diagnostic_trouble_codes
    <3> QED
      BY <2>4, <3>1
         DEF Diagnostic!process_parameter_group_number_request, Diagnostic!Handled,
             Diagnostic!Identifications
  <2>5. ASSUME NEW m, Diagnostic!process_other_request(m)
        PROVE  flags' = flags /\ \E x : told' = [told EXCEPT !.ack = x]
    BY <2>5, Zenon DEF Diagnostic!process_other_request
  <2>6. \E x : plan' = [plan EXCEPT !.bus = x]
    BY <2>1
  <2>7. responses' = responses /\ (told' = told \/ \E x : told' = [told EXCEPT !.ack = x])
        => AnswersKept'
    BY <2>6, QuietKeeps
  <2> QED
    BY <2>2, <2>3, <2>4, <2>5, <2>7 DEF Diagnostic!OneAnswerWaits
<1>3. CASE Diagnostic!update \/ Diagnostic!TimePasses
  <2>1. responses' = responses /\ told' = told /\ plan' = plan /\ flags \subseteq flags'
    BY <1>3 DEF Diagnostic!update, Diagnostic!TimePasses
  <2>2. AnswersKept'
    BY <2>1, QuietKeeps
  <2> QED
    BY <2>1, <2>2 DEF Diagnostic!OneAnswerWaits
<1> QED
  BY <1>1, <1>2, <1>3, FlagsKeep DEF Diagnostic!DiagnosticNext, Diagnostic!DiagnosticRuns

DiagnosticInv == ListsKept /\ AnswersKept

(* At first no code is known, and nothing was asked.                       *)
LEMMA DiagnosticStarts ==
    ASSUME Diagnostic!DiagnosticInit
    PROVE  DiagnosticInv
<1>1. /\ plan \in DiagnosticPlans /\ lists = [active |-> <<>>, inactive |-> <<>>] /\ responses = <<>>
      /\ told.asked = [t \in Tools |-> 0] /\ told.answered = [t \in Tools |-> 0]
      /\ {"asked", "answered"} \subseteq DOMAIN told
  BY DEF Diagnostic!DiagnosticInit
<1>2. IsList(<<>>) /\ DOMAIN <<>> = {} /\ Len(<<>>) = 0
  <2>1. <<>> \in Seq({}) /\ Len(<<>>) = 0 /\ DOMAIN <<>> = {}
    OBVIOUS
  <2> QED
    BY <2>1 DEF IsList
<1>3. ListsKept
  BY <1>1, <1>2 DEF ListsKept, ListsOK, TroublesOK
<1>4. \A t : Waiting(responses, t) = 0
  <2>1. \A t : {i \in 1..0 : responses[i].to = t} = {}
    OBVIOUS
  <2> QED
    BY <1>1, <1>2, <2>1, FS_EmptySet DEF Waiting
<1>5. "refusals" \in DOMAIN plan /\ plan.refusals \in Nat
  BY <1>1, DiagnosticPlansAssumption
<1> QED
  BY <1>1, <1>2, <1>3, <1>4, <1>5 DEF DiagnosticInv, AnswersKept, AnswersOK

(* The joined lists name each code and lamp once; what waits is what was   *)
(* not answered.                                                           *)
LEMMA DiagnosticPromise ==
    ASSUME DiagnosticInv
    PROVE  Diagnostic!DTCsOnce /\ Diagnostic!EveryClearOneAnswer
<1>1. TroublesOK(lists.active \o lists.inactive)
  BY TroubleJoined DEF DiagnosticInv, ListsKept
<1>2. Diagnostic!DTCsOnce
  <2> DEFINE all == lists.active \o lists.inactive
  <2>1. PICK S : all \in Seq(S)
    BY <1>1 DEF TroublesOK, IsList
  <2>2. DOMAIN all = 1..Len(all)
    BY <2>1
  <2>3. \A i, j \in 1..Len(all) : all[i].code = all[j].code /\ all[i].lamp = all[j].lamp => i = j
    <3> HIDE DEF all
    <3>1. TroublesOK(all)
      BY <1>1 DEF all
    <3> QED
      BY <2>2, <3>1 DEF TroublesOK, Same
  <2> QED
    BY <2>3, Zenon DEF Diagnostic!DTCsOnce
<1>3. Diagnostic!EveryClearOneAnswer
  <2>1. \A t \in Tools : told.asked[t] = told.answered[t]
                 + Diagnostic!Cardinality({i \in 1..Len(responses) : responses[i].to = t})
    BY SameSize, Zenon DEF DiagnosticInv, AnswersKept, AnswersOK, Waiting
  <2> QED
    BY <2>1, Zenon DEF Diagnostic!EveryClearOneAnswer
<1> QED
  BY <1>2, <1>3

(* A trouble code is in one list and there once, whatever the application, *)
(* the tools and the address violations do                                 *)
(* (set_diagnostic_trouble_code_active and the clear requests); each       *)
(* request to clear one (DM22) has its one answer, sent or waiting; and an *)
(* answer that waits alone, with its flag set, is sent or joined by        *)
(* another, never forgotten (process_dm22, process_all_dm22_responses and  *)
(* the transmit flags).                                                    *)
THEOREM TroubleCodesAnswered ==
    ServicesSpec =>
      /\ [](service = "diagnostic" => Diagnostic!DTCsOnce /\ Diagnostic!EveryClearOneAnswer)
      /\ [][service = "diagnostic" /\ Diagnostic!OneAnswerWaits =>
               Diagnostic!OneAnswerWaits' \/ Len(responses') # 1]_serviceVars
<1> DEFINE Inv == service = "diagnostic" => DiagnosticInv
           Waits == service = "diagnostic" /\ Diagnostic!OneAnswerWaits =>
                        Diagnostic!OneAnswerWaits' \/ Len(responses') # 1
<1>1. ServicesInit => Inv
  BY DiagnosticStarts DEF ServicesInit
<1>2. Inv /\ [ServicesNext]_serviceVars => Inv' /\ [Waits]_serviceVars
  <2> SUFFICES ASSUME Inv, [ServicesNext]_serviceVars, service' = "diagnostic" \/ service = "diagnostic"
               PROVE  DiagnosticInv' /\ [Waits]_serviceVars
    OBVIOUS
  <2>1. CASE InDiagnostic(Diagnostic!DiagnosticNext)
    <3>1. DiagnosticInv /\ Diagnostic!DiagnosticNext
      BY <2>1 DEF InDiagnostic, Except
    <3>2. ListsKept'
      BY <3>1, ListsStep DEF DiagnosticInv
    <3>3. /\ AnswersKept'
          /\ Diagnostic!OneAnswerWaits => Diagnostic!OneAnswerWaits' \/ Len(responses') # 1
      BY <3>1, AnswersStep DEF DiagnosticInv
    <3> QED
      BY <3>2, <3>3 DEF DiagnosticInv
  <2>2. CASE UNCHANGED serviceVars
    BY <2>2 DEF serviceVars, diagnosticVars, DiagnosticInv, ListsKept, AnswersKept
  <2>3. ASSUME NEW s \in {"session", "measure", "device", "heart", "machine", "shortcut", "key"},
               service = s, service' = service
        PROVE  FALSE
    BY <2>3
  <2> QED
    BY <2>1, <2>2, <2>3
       DEF ServicesNext, Except, InSession, InMeasure, InKey, InDevice, InHeart, InMachine, InShortcut
<1>3. Inv => (service = "diagnostic" => Diagnostic!DTCsOnce /\ Diagnostic!EveryClearOneAnswer)
  BY DiagnosticPromise
<1> QED
  BY <1>1, <1>2, <1>3, PTL DEF ServicesSpec
=============================================================================
