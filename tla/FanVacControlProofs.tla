------------------------- MODULE FanVacControlProofs -------------------------
(***************************************************************************)
(* The safety properties of FanVacControl for every choice of limits,      *)
(* gains and sensor readings that satisfies the module's assumptions.      *)
(***************************************************************************)
EXTENDS FanVacControl, TLAPS

(* What an update carries from one step to the next: an output computed is *)
(* within the duty limits, and a latched fault finds the update at rest.   *)
UpdateInv ==
    /\ upd.pc = "pwm" => upd.out \in PWM_MIN_DUTY..PWM_MAX_DUTY
    /\ state # "RUNNING" => upd.pc = "rest"

(* The inductive invariant.                                                *)
FanVacInv == TypeOK /\ TargetInRange /\ DutyInRange /\ UpdateInv

(* The output of pid_compute is a duty cycle between 20 % and 80 %,        *)
(* whatever the sum of its terms.                                          *)
LEMMA PidOutputRange ==
    ASSUME NEW x \in Int
    PROVE  pid_output(x) \in PWM_MIN_DUTY..PWM_MAX_DUTY
  <1>1. PICK y \in Int : /\ 1020 <= y /\ y <= 4080
                         /\ pid_output(x) = y \div 20
    <2>1. CASE x > 4080
      BY <2>1 DEF pid_output, Clamp, Scale, PWM_MIN_DUTY, PWM_MAX_DUTY
    <2>2. CASE x < 1020
      BY <2>2 DEF pid_output, Clamp, Scale, PWM_MIN_DUTY, PWM_MAX_DUTY
    <2>3. CASE 1020 <= x /\ x <= 4080
      BY <2>3 DEF pid_output, Clamp, Scale, PWM_MIN_DUTY, PWM_MAX_DUTY
    <2> QED
      BY <2>1, <2>2, <2>3
  <1>2. y \div 20 \in 51..204
    BY <1>1
  <1> QED
    BY <1>1, <1>2 DEF PWM_MIN_DUTY, PWM_MAX_DUTY

(* A word is a natural number of 16 bits.                                  *)
LEMMA WordIsNat == \A x : x \in Word <=> x \in Nat /\ x <= UINT16_MAX
  <1>1. UINT16_MAX \in Nat
    BY DEF UINT16_MAX
  <1> QED
    BY <1>1 DEF Word

(* The anti-windup keeps the integral between the duty limits.             *)
LEMMA PidIntegralRange ==
    ASSUME NEW p, p.integral \in Int, NEW error \in Int
    PROVE  pid_integral(p, error) \in PWM_MIN_DUTY..PWM_MAX_DUTY
  BY DEF pid_integral, Clamp, PWM_MIN_DUTY, PWM_MAX_DUTY

(* A press of an arrow button keeps a target within its limits: the 16-bit *)
(* arithmetic does not wrap under LimitsAssumption.                        *)
LEMMA TargetStep ==
    ASSUME NEW d \in Drives, NEW t \in Target_MIN[d]..Target_MAX[d]
    PROVE  /\ Raised(d, t) \in Target_MIN[d]..Target_MAX[d]
           /\ Lowered(d, t) \in Target_MIN[d]..Target_MAX[d]
           /\ Target_MIN[d]..Target_MAX[d] \subseteq Word
  <1>1. PICK lo \in Nat, hi \in Nat, s \in Nat :
           lo = Target_MIN[d] /\ hi = Target_MAX[d] /\ s = Target_STEP[d]
    BY LimitsAssumption
  <1>2. s <= lo /\ hi + s <= 65535
    BY <1>1, LimitsAssumption, WordIsNat DEF UINT16_MAX
  <1>3. t \in Nat /\ lo <= t /\ t <= hi
    BY <1>1
  <1>4. (t + s) % 65536 = t + s /\ (t - s) % 65536 = t - s
    BY <1>1, <1>2, <1>3
  <1>5. \A y \in lo..hi : y \in Word
    BY <1>1, <1>2, WordIsNat DEF UINT16_MAX
  <1>6. Raised(d, t) \in lo..hi
    BY <1>1, <1>2, <1>3, <1>4 DEF Raised
  <1>7. Lowered(d, t) \in lo..hi
    BY <1>1, <1>2, <1>3, <1>4 DEF Lowered
  <1> QED
    BY <1>1, <1>5, <1>6, <1>7

(* The boot state satisfies the invariant.                                 *)
LEMMA FanVacInit == Init => FanVacInv
  <1> SUFFICES ASSUME Init PROVE FanVacInv
    OBVIOUS
  <1>1. Target_DEFAULT \in [Drives -> Word]
    <2>1. \A d \in Drives : Target_DEFAULT[d] \in Word
      BY LimitsAssumption, TargetStep
    <2> QED
      BY <2>1, LimitsAssumption
  <1>2. TypeOK
    <2>1. 0 \in Word
      BY WordIsNat DEF UINT16_MAX
    <2> QED
      BY <1>1, <2>1 DEF Init, TypeOK, PidZero, Rest, HndIdle, Drives,
                        PWM_MAX_DUTY
  <1>3. TargetInRange
    BY LimitsAssumption DEF Init, TargetInRange
  <1>4. DutyInRange /\ UpdateInv
    BY DEF Init, DutyInRange, UpdateInv, Rest
  <1> QED
    BY <1>2, <1>3, <1>4 DEF FanVacInv

(* Every step of an update, of a handler and of the operator keeps it.     *)
LEMMA FanVacStep == FanVacInv /\ [Next]_vars => FanVacInv'
  <1> SUFFICES ASSUME FanVacInv, [Next]_vars PROVE FanVacInv'
    OBVIOUS
  <1> USE DEF FanVacInv
  <1>1. ASSUME NEW d \in Drives, Adjust(d) PROVE FanVacInv'
    <2>1. target[d] \in Target_MIN[d]..Target_MAX[d]
      BY DEF TargetInRange
    <2>2. PICK t \in Target_MIN[d]..Target_MAX[d] :
             target' = [target EXCEPT ![d] = t]
      BY <1>1, <2>1, TargetStep DEF Adjust
    <2>3. t \in Word
      BY <2>2, TargetStep
    <2>4. TypeOK' /\ TargetInRange'
      BY <1>1, <2>2, <2>3 DEF Adjust, TypeOK, TargetInRange
    <2>5. DutyInRange' /\ UpdateInv'
      BY <1>1 DEF Adjust, DutyInRange, UpdateInv
    <2> QED
      BY <2>4, <2>5
  <1>2. ASSUME NEW d \in Drives, NEW r \in BOOLEAN, RequestPower(d, r)
        PROVE  FanVacInv'
    <2>1. on' \in [Drives -> BOOLEAN] /\ hnd' \in [pc : {"idle", "stop", "reset"}, drive : Drives]
      BY <1>2 DEF RequestPower, TypeOK
    <2> QED
      BY <1>2, <2>1 DEF RequestPower, TypeOK, TargetInRange, DutyInRange,
                        UpdateInv
  <1>3. CASE PowerStop
    BY <1>3 DEF PowerStop, TypeOK, TargetInRange, DutyInRange, UpdateInv
  <1>4. CASE PowerReset
    BY <1>4 DEF PowerReset, TypeOK, TargetInRange, DutyInRange, UpdateInv,
                HndIdle, PidZero, Drives, PWM_MAX_DUTY
  <1>5. CASE UpdateBegin
    <2>1. actual' \in [Drives -> Word]
      BY <1>5, ReadingsAssumption DEF UpdateBegin, TypeOK, Drives
    <2> QED
      BY <1>5, <2>1 DEF UpdateBegin, UpdateGuard, TypeOK, TargetInRange,
                        DutyInRange, UpdateInv, Drives
  <1>6. CASE CheckPower
    BY <1>6, SMTT(40) DEF CheckPower, TypeOK, TargetInRange, DutyInRange, UpdateInv
  <1>7. CASE pid_compute
    <2> DEFINE d == upd.drive
               error == target[d] - actual[d]
               integral == pid_integral(pid[d], error)
               terms == Kp[d] * error + Ki[d] * integral
                           + Kd[d] * (error - pid[d].lastError)
    <2>1. d \in Drives /\ error \in Int /\ pid[d].integral \in Int
          /\ pid[d].lastError \in Int
      <3>1. upd.drive \in Drives
        BY DEF TypeOK
      <3>2. target[upd.drive] \in Int /\ actual[upd.drive] \in Int
        BY <3>1, WordIsNat DEF TypeOK
      <3>3. pid[upd.drive].integral \in Int /\ pid[upd.drive].lastError \in Int
        <4>1. pid[upd.drive] \in [integral : 0..PWM_MAX_DUTY, lastError : Int]
          BY <3>1 DEF TypeOK
        <4>2. 0..PWM_MAX_DUTY \subseteq Int
          OBVIOUS
        <4> QED
          BY <4>1, <4>2
      <3>4. target[upd.drive] - actual[upd.drive] \in Int
        BY <3>2
      <3> QED
        BY <3>1, <3>3, <3>4, Zenon
    <2>2. integral \in PWM_MIN_DUTY..PWM_MAX_DUTY
      BY <2>1, PidIntegralRange
    <2>3. terms \in Int
      <3>1. Kp[d] \in Int /\ Ki[d] \in Int /\ Kd[d] \in Int
        BY <2>1, GainsAssumption
      <3>2. integral \in Int
        BY <2>2 DEF PWM_MIN_DUTY, PWM_MAX_DUTY
      <3> HIDE DEF d, error, integral
      <3>3. Kp[d] * error \in Int /\ Ki[d] * integral \in Int
            /\ Kd[d] * (error - pid[d].lastError) \in Int
        BY <2>1, <3>1, <3>2
      <3> QED
        BY <3>3
    <2>4. pid_output(terms) \in PWM_MIN_DUTY..PWM_MAX_DUTY
      BY <2>3, PidOutputRange
    <2>5. pid' = [pid EXCEPT ![d] = [integral |-> integral, lastError |-> error]]
          /\ upd' = [pc |-> "pwm", drive |-> d, out |-> pid_output(terms)]
          /\ UNCHANGED <<target, actual, duty, flt, on, state, hnd>>
          /\ upd.pc = "compute"
      BY <1>7 DEF pid_compute
    <2> HIDE DEF d, error, integral, terms
    <2>6. TypeOK'
      BY <2>1, <2>2, <2>4, <2>5 DEF TypeOK, PWM_MIN_DUTY, PWM_MAX_DUTY
    <2> QED
      BY <2>4, <2>5, <2>6 DEF TargetInRange, DutyInRange, UpdateInv
  <1>8. CASE SetPwm
    BY <1>8, SMTT(40) DEF SetPwm, TypeOK, TargetInRange, DutyInRange, UpdateInv
  <1>9. CASE CheckFault
    <2>1. flt' \in [Drives -> BOOLEAN]
      BY <1>9 DEF CheckFault, TypeOK
    <2> QED
      BY <1>9, <2>1 DEF CheckFault, NextDrive, TypeOK, TargetInRange,
                        DutyInRange, UpdateInv, Drives
  <1>10. CASE HoldOff
    BY <1>10 DEF HoldOff, NextDrive, TypeOK, TargetInRange, DutyInRange,
                 UpdateInv, Drives
  <1>11. CASE SetState
    BY <1>11 DEF SetState, Rest, TypeOK, TargetInRange, DutyInRange,
                 UpdateInv, Drives
  <1>12. CASE UNCHANGED vars
    BY <1>12 DEF vars, TypeOK, TargetInRange, DutyInRange, UpdateInv
  <1> QED
    BY <1>1, <1>2, <1>3, <1>4, <1>5, <1>6, <1>7, <1>8, <1>9, <1>10, <1>11,
       <1>12 DEF Next, Update, Handler, Operator

(* The invariant of the fan and vacuum loops holds in every behaviour.     *)
THEOREM FanVacInvariant == Spec => []FanVacInv
  BY FanVacInit, FanVacStep, PTL DEF Spec

(* Types hold, the integral stays within its anti-windup range and no      *)
(* 16-bit quantity leaves its width.                                       *)
THEOREM FanVacTypeCorrect == Spec => []TypeOK
  <1>1. FanVacInv => TypeOK
    BY DEF FanVacInv
  <1> QED
    BY <1>1, FanVacInvariant, PTL

(* Targets stay within their limits under any sequence of presses.         *)
THEOREM TargetsBounded == Spec => []TargetInRange
  <1>1. FanVacInv => TargetInRange
    BY DEF FanVacInv
  <1> QED
    BY <1>1, FanVacInvariant, PTL

(* A valve is off or within 20 % to 80 % for every gain and every reading. *)
THEOREM DutyBounded == Spec => []DutyInRange
  <1>1. FanVacInv => DutyInRange
    BY DEF FanVacInv
  <1> QED
    BY <1>1, FanVacInvariant, PTL

(* No step after a latched fault drives a valve harder.                    *)
THEOREM FaultOnlyWeakens == Spec => NoDriveAfterFault
  <1>1. FanVacInv /\ [Next]_vars =>
           [state # "RUNNING" => \A d \in Drives : duty'[d] <= duty[d]]_vars
    <2> SUFFICES ASSUME FanVacInv, [Next]_vars, state # "RUNNING",
                        NEW d \in Drives
                 PROVE  duty'[d] <= duty[d]
      OBVIOUS
    <2>1. upd.pc = "rest" /\ duty \in [Drives -> 0..255]
      BY DEF FanVacInv, UpdateInv, TypeOK
    <2>2. CASE PowerStop
      BY <2>1, <2>2 DEF PowerStop
    <2>3. CASE duty' = duty
      BY <2>1, <2>3
    <2> QED
      BY <2>1, <2>2, <2>3
         DEF Next, Update, Handler, Operator, UpdateBegin, UpdateGuard,
             CheckPower, pid_compute, SetPwm, CheckFault, HoldOff, SetState,
             Adjust, RequestPower, PowerReset, vars
  <1> QED
    BY <1>1, FanVacInvariant, PTL DEF Spec, NoDriveAfterFault
=============================================================================
