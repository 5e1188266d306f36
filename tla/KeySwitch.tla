------------------------------- MODULE KeySwitch -------------------------------
\* Power after the key is turned off: the interface follows the key switch state in
\* the wheel based speed message and asks the tractor to maintain power.
\* Source: isobus_maintain_power_interface.cpp.
EXTENDS Integers, FiniteSetsExt

CONSTANTS
    KeyPlans        \* [time: maintainPowerTime_ms, turns, refused]: key switch states
                    \* still to be reported and frames the driver still refuses

VARIABLES
    keyPlan,
    keyOff,     \* ms since the key was seen off, NoTime when it was not
    keyNotOff,  \* it was seen not off
    sinceSent,  \* ms since maintainPowerTransmitTimestamp_ms, NoTime for zero
    sendFlag,   \* SendMaintainPower
    ranSince,   \* an update ran since time passed
    power       \* history: ms since the tractor last heard the message, and the events

keyVars == <<keyPlan, keyOff, keyNotOff, sinceSent, sendFlag, ranSince, power>>

MAINTAIN_POWER_TIMEOUT_MS == 2000
NoTime == -1
Step == 500     \* ms between updates

KeyInit ==
    /\ keyPlan \in KeyPlans
    /\ keyOff = NoTime /\ keyNotOff = FALSE
    /\ sinceSent = NoTime
    /\ sendFlag = FALSE
    /\ ranSince = TRUE
    /\ power = [gap |-> NoTime, turned |-> 0, told |-> 0, last |-> "unknown"]

-----------------------------------------------------------------------------
\* The key switch state of a wheel based speed message.
\* A key that turns off starts the messages; one that was off when the interface
\* was initialised does not.
\* Mutant: that it was seen not off is kept.
TurnedOff_KeepsNotOff ==
    /\ keyOff' = 0
    /\ sinceSent' = 0
    /\ sendFlag' = TRUE
    /\ UNCHANGED keyNotOff
TurnedOff ==
    /\ keyNotOff' = FALSE
    /\ keyOff' = 0
    /\ sinceSent' = 0
    /\ sendFlag' = TRUE

KeyIsOff ==
    IF keyNotOff THEN TurnedOff
    ELSE /\ keyOff' = IF keyOff = NoTime THEN 0 ELSE keyOff
         /\ UNCHANGED <<keyNotOff, sinceSent, sendFlag>>

\* A flag that is set is still sent.
KeyIsNotOff ==
    /\ keyOff' = NoTime
    /\ keyNotOff' = TRUE
    /\ sinceSent' = NoTime
    /\ UNCHANGED sendFlag

KeyInError ==
    /\ keyOff' = NoTime /\ keyNotOff' = FALSE
    /\ sinceSent' = NoTime
    /\ UNCHANGED sendFlag

process_rx_message(state) ==
    \/ state = "off" /\ KeyIsOff
    \/ state = "notOff" /\ KeyIsNotOff
    \/ state = "error" /\ KeyInError
    \/ state = "noAction" /\ UNCHANGED <<keyOff, keyNotOff, sinceSent, sendFlag>>

\* The history follows the states themselves: an error in between is no turn.
KeyReported(state) ==
    /\ keyPlan.turns > 0
    /\ keyPlan' = [keyPlan EXCEPT !.turns = @ - 1]
    /\ process_rx_message(state)
    /\ power' = LET turns == state = "off" /\ power.last = "notOff"
                IN  [power EXCEPT
                        !.turned = @ + IF turns THEN 1 ELSE 0,
                        !.told = @ + IF keyNotOff /\ state = "off" THEN 1 ELSE 0,
                        !.gap = IF turns THEN 0 ELSE IF state \in {"notOff", "error"} THEN NoTime ELSE @,
                        !.last = IF state = "noAction" THEN @ ELSE state]
    /\ UNCHANGED ranSince

\* update: due every second until the time after key off has passed.
\* Mutant: due at the time-out itself.
Due_AtTimeout ==
    /\ sinceSent # NoTime /\ sinceSent >= MAINTAIN_POWER_TIMEOUT_MS
    /\ keyOff # NoTime /\ keyOff < keyPlan.time
Due ==
    /\ sinceSent # NoTime /\ sinceSent >= MAINTAIN_POWER_TIMEOUT_MS \div 2
    /\ keyOff # NoTime /\ keyOff < keyPlan.time

process_flags ==
    \/ /\ sendFlag' = FALSE
       /\ power' = [power EXCEPT !.gap = IF @ = NoTime THEN NoTime ELSE 0]
       /\ UNCHANGED keyPlan
    \/ /\ keyPlan.refused > 0
       /\ keyPlan' = [keyPlan EXCEPT !.refused = @ - 1]
       /\ sendFlag' = TRUE
       /\ UNCHANGED power

update ==
    /\ ~ranSince
    /\ ranSince' = TRUE
    /\ sinceSent' = IF Due THEN 0 ELSE sinceSent
    /\ IF Due \/ sendFlag THEN process_flags ELSE UNCHANGED <<keyPlan, sendFlag, power>>
    /\ UNCHANGED <<keyOff, keyNotOff>>

Later(age, top) == IF age = NoTime THEN NoTime ELSE Min({age + Step, top})
TimePasses ==
    /\ ranSince
    /\ ranSince' = FALSE
    /\ keyOff' = Later(keyOff, keyPlan.time)
    /\ sinceSent' = Later(sinceSent, MAINTAIN_POWER_TIMEOUT_MS)
    /\ power' = [power EXCEPT !.gap = Later(@, MAINTAIN_POWER_TIMEOUT_MS)]
    /\ UNCHANGED <<keyPlan, keyNotOff, sendFlag>>

KeyRuns == update \/ TimePasses
KeyNext == KeyRuns \/ \E state \in {"off", "notOff", "error", "noAction"} : KeyReported(state)
KeySpec == KeyInit /\ [][KeyNext]_keyVars /\ WF_keyVars(KeyRuns)

-----------------------------------------------------------------------------
\* From the key's turn to off until the time the application asked for, the tractor
\* never waits as long as it maintains power, when single frames are refused.
PowerKept == power.gap # NoTime /\ keyOff # NoTime /\ keyOff < keyPlan.time => power.gap < MAINTAIN_POWER_TIMEOUT_MS

\* The application hears of each turn to off once, however often the state repeats.
EachTurnTold == power.told = power.turned
=============================================================================
