---------------------------- MODULE FanVacControl ----------------------------
(***************************************************************************)
(* fan_vac_control.cpp: the two closed loops of the planter, the bulk-fill *)
(* fan (RPM) and the vacuum (pressure).  fan_vac_update runs in the main   *)
(* loop every 100 ms; the operator's buttons change targets and power from *)
(* the terminal's event thread.  No lock protects any of this state, so a  *)
(* handler runs between any two accesses of an update.                     *)
(*                                                                         *)
(* The PID gains are multiples of 0.05: the model keeps them as integers,  *)
(* in units of 1/Scale, and so are all its terms.  pid_compute is a step.  *)
(***************************************************************************)
EXTENDS Integers

CONSTANTS
    Target_MIN, Target_MAX, Target_STEP, Target_DEFAULT,  \* [Drives -> Nat]
    Kp, Ki, Kd,     \* [Drives -> Nat], gains times Scale
    Readings        \* [Drives -> set of the values a sensor may report]

Drives == {"fan", "vac"}

UINT16_MAX == 65535

Word == 0..UINT16_MAX

ASSUME LimitsAssumption ==
    /\ Target_MIN \in [Drives -> Nat] /\ Target_MAX \in [Drives -> Nat]
    /\ Target_STEP \in [Drives -> Nat] /\ Target_DEFAULT \in [Drives -> Nat]
    /\ \A d \in Drives :
          /\ Target_STEP[d] <= Target_MIN[d]
          /\ Target_DEFAULT[d] \in Target_MIN[d]..Target_MAX[d]
          /\ Target_MAX[d] + Target_STEP[d] \in Word
ASSUME GainsAssumption ==
    Kp \in [Drives -> Nat] /\ Ki \in [Drives -> Nat] /\ Kd \in [Drives -> Nat]
ASSUME ReadingsAssumption == Readings \in [Drives -> SUBSET Word]

VARIABLES
    target,     \* fanRPMTarget, vacPressureTarget
    actual,     \* fanRPMActual, vacPressureActual
    duty,       \* fanPWMDuty, vacPWMDuty: what the PWM channels output
    flt,        \* fanFault, vacFault
    on,         \* fanPowerEnabled, vacPowerEnabled
    pid,        \* integral and lastError of fanPID, vacPID
    state,      \* currentStatus.state
    upd,        \* fan_vac_update: label, loop being served, output computed
    hnd         \* power-off handler: label and drive

vars == <<target, actual, duty, flt, on, pid, state, upd, hnd>>

PWM_MIN_DUTY == 51
PWM_MAX_DUTY == 204
Scale == 20

Clamp(x, lo, hi) == IF x > hi THEN hi ELSE IF x < lo THEN lo ELSE x

PidZero == [integral |-> 0, lastError |-> 0]

Rest == [pc |-> "rest", drive |-> "fan", out |-> 0]

HndIdle == [pc |-> "idle", drive |-> "fan"]

-----------------------------------------------------------------------------
(* Operator: targets.                                                      *)

Raised(d, t) ==
    LET new == (t + Target_STEP[d]) % 65536
    IN  IF new > Target_MAX[d] THEN Target_MAX[d] ELSE new

(* Wrong variant: the lower limit is not applied.                          *)
Lowered_NoLimit(d, t) == (t - Target_STEP[d]) % 65536

Lowered(d, t) ==
    LET new == (t - Target_STEP[d]) % 65536
    IN  IF new < Target_MIN[d] THEN Target_MIN[d] ELSE new

Adjust(d) ==
    /\ hnd.pc = "idle"
    /\ \/ target' = [target EXCEPT ![d] = Raised(d, @)]
       \/ target' = [target EXCEPT ![d] = Lowered(d, @)]
    /\ UNCHANGED <<actual, duty, flt, on, pid, state, upd, hnd>>

(* Operator: request_fan_power and request_vac_power.  The toggle is made  *)
(* only if the state differs; switching off also stops the output and      *)
(* resets the controller, in that order.                                   *)
RequestPower(d, requestedOn) ==
    /\ hnd.pc = "idle"
    /\ on[d] # requestedOn
    /\ on' = [on EXCEPT ![d] = requestedOn]
    /\ hnd' = IF requestedOn THEN hnd ELSE [pc |-> "stop", drive |-> d]
    /\ UNCHANGED <<target, actual, duty, flt, pid, state, upd>>

PowerStop ==
    /\ hnd.pc = "stop"
    /\ duty' = [duty EXCEPT ![hnd.drive] = 0]
    /\ hnd' = [hnd EXCEPT !.pc = "reset"]
    /\ UNCHANGED <<target, actual, flt, on, pid, state, upd>>

PowerReset ==
    /\ hnd.pc = "reset"
    /\ pid' = [pid EXCEPT ![hnd.drive] = PidZero]
    /\ hnd' = HndIdle
    /\ UNCHANGED <<target, actual, duty, flt, on, state, upd>>

-----------------------------------------------------------------------------
(* One pass of fan_vac_update.                                             *)

(* Wrong variant: a latched fault does not end the regulation.             *)
UpdateGuard_Always == TRUE

UpdateGuard == state = "RUNNING"

(* The guard, and the two sensors: the fan's reading is renewed once in    *)
(* FAN_RPM_SAMPLE_MS and is the last one in between.                       *)
UpdateBegin ==
    /\ upd.pc = "rest"
    /\ UpdateGuard
    /\ \E rpm \in Readings["fan"] \cup {actual["fan"]},
          pressure \in Readings["vac"] :
          actual' = [d \in Drives |-> IF d = "fan" THEN rpm ELSE pressure]
    /\ upd' = [pc |-> "power", drive |-> "fan", out |-> 0]
    /\ UNCHANGED <<target, duty, flt, on, pid, state, hnd>>

CheckPower ==
    /\ upd.pc = "power"
    /\ upd' = [upd EXCEPT !.pc = IF on[upd.drive] THEN "compute" ELSE "off"]
    /\ UNCHANGED <<target, actual, duty, flt, on, pid, state, hnd>>

pid_integral(p, error) ==
    Clamp(p.integral + error, PWM_MIN_DUTY, PWM_MAX_DUTY)

(* Wrong variant: the sum of the terms is cut to a byte as it is.          *)
pid_output_Wraps(x) == (x \div Scale) % 256

pid_output(x) ==
    Clamp(x, Scale * PWM_MIN_DUTY, Scale * PWM_MAX_DUTY) \div Scale

pid_compute ==
    LET d == upd.drive
        error == target[d] - actual[d]
        integral == pid_integral(pid[d], error)
        terms == Kp[d] * error + Ki[d] * integral
                    + Kd[d] * (error - pid[d].lastError)
    IN  /\ upd.pc = "compute"
        /\ pid' = [pid EXCEPT ![d] = [integral |-> integral,
                                      lastError |-> error]]
        /\ upd' = [pc |-> "pwm", drive |-> d, out |-> pid_output(terms)]
        /\ UNCHANGED <<target, actual, duty, flt, on, state, hnd>>

SetPwm ==
    /\ upd.pc = "pwm"
    /\ duty' = [duty EXCEPT ![upd.drive] = upd.out]
    /\ upd' = [upd EXCEPT !.pc = "fault"]
    /\ UNCHANGED <<target, actual, flt, on, pid, state, hnd>>

NextDrive == IF upd.drive = "fan"
             THEN [pc |-> "power", drive |-> "vac", out |-> 0]
             ELSE [pc |-> "state", drive |-> "vac", out |-> 0]

(* The target is read again; the reading is at fault below 80 % of it.     *)
CheckFault ==
    /\ upd.pc = "fault"
    /\ flt' = [flt EXCEPT ![upd.drive] =
                  actual[upd.drive] < (target[upd.drive] * 8) \div 10]
    /\ upd' = NextDrive
    /\ UNCHANGED <<target, actual, duty, on, pid, state, hnd>>

(* Wrong variant: an update leaves the output of a drive that is off.      *)
HoldOff_Untouched ==
    /\ upd.pc = "off"
    /\ flt' = [flt EXCEPT ![upd.drive] = FALSE]
    /\ upd' = NextDrive
    /\ UNCHANGED <<target, actual, duty, on, pid, state, hnd>>

HoldOff ==
    /\ upd.pc = "off"
    /\ duty' = [duty EXCEPT ![upd.drive] = 0]
    /\ flt' = [flt EXCEPT ![upd.drive] = FALSE]
    /\ upd' = NextDrive
    /\ UNCHANGED <<target, actual, on, pid, state, hnd>>

SetState ==
    /\ upd.pc = "state"
    /\ state' = IF flt["fan"] THEN "FAULT_FAN"
                ELSE IF flt["vac"] THEN "FAULT_VAC" ELSE "RUNNING"
    /\ upd' = Rest
    /\ UNCHANGED <<target, actual, duty, flt, on, pid, hnd>>

-----------------------------------------------------------------------------
(* app_main has run fan_vac_init and fan_vac_start.                        *)
Init ==
    /\ target = Target_DEFAULT
    /\ actual = [d \in Drives |-> 0]
    /\ duty = [d \in Drives |-> 0]
    /\ flt = [d \in Drives |-> FALSE]
    /\ on = [d \in Drives |-> TRUE]
    /\ pid = [d \in Drives |-> PidZero]
    /\ state = "RUNNING"
    /\ upd = Rest
    /\ hnd = HndIdle

Update == UpdateBegin \/ CheckPower \/ pid_compute \/ SetPwm \/ CheckFault
          \/ HoldOff \/ SetState

Handler == PowerStop \/ PowerReset

Operator == \E d \in Drives :
                Adjust(d) \/ \E requestedOn \in BOOLEAN : RequestPower(d, requestedOn)

Next == Update \/ Handler \/ Operator

Spec == Init /\ [][Next]_vars

(* The main loop comes round every 100 ms and a handler that has begun is  *)
(* run to its end; the operator owes nothing.                              *)
FairSpec == Spec /\ WF_vars(Update) /\ WF_vars(Handler)

-----------------------------------------------------------------------------
(* Properties.                                                             *)

(* Types, with the anti-windup range of the integral and the 16-bit width  *)
(* of targets and readings.                                                *)
TypeOK ==
    /\ target \in [Drives -> Word]
    /\ actual \in [Drives -> Word]
    /\ duty \in [Drives -> 0..255]
    /\ flt \in [Drives -> BOOLEAN]
    /\ on \in [Drives -> BOOLEAN]
    /\ pid \in [Drives -> [integral : 0..PWM_MAX_DUTY, lastError : Int]]
    /\ state \in {"RUNNING", "FAULT_FAN", "FAULT_VAC"}
    /\ upd \in [pc : {"rest", "power", "compute", "pwm", "fault", "off", "state"},
                drive : Drives, out : 0..255]
    /\ hnd \in [pc : {"idle", "stop", "reset"}, drive : Drives]

(* Whatever buttons are pressed, a target stays within its limits: the     *)
(* 16-bit sum and difference neither wrap nor leave them                   *)
(* (fan_vac_fan_speed_up and its three siblings).                          *)
TargetInRange == \A d \in Drives : target[d] \in Target_MIN[d]..Target_MAX[d]

(* The valve is off or driven between 20 % and 80 %, whatever the sensors  *)
(* report and whichever handler interrupts an update (pid_compute clamps,  *)
(* set_fan_pwm and set_vac_pwm cast to a byte).                            *)
DutyInRange ==
    \A d \in Drives : duty[d] \in {0} \cup PWM_MIN_DUTY..PWM_MAX_DUTY

(* Once a fault is latched no step drives a valve harder: the fan_vac_     *)
(* update that would is skipped, and the handlers only switch off.         *)
NoDriveAfterFault ==
    [][state # "RUNNING" => \A d \in Drives : duty'[d] <= duty[d]]_vars

(* While no fault is latched the outputs follow the power buttons: a drive *)
(* left off ends up stopped, one left on ends up driven, though the button *)
(* may be pressed in the middle of an update.                              *)
RunningFollowsPower ==
    \A d \in Drives :
        /\ <>[](state = "RUNNING" /\ ~on[d]) => <>[](duty[d] = 0)
        /\ <>[](state = "RUNNING" /\ on[d]) => <>[](duty[d] >= PWM_MIN_DUTY)

(* fan_vac_control.h: "Toggle Fan power on/off".  A drive that is switched *)
(* off and left off stops.                                                 *)
OffStops == \A d \in Drives : <>[](~on[d]) => <>[](duty[d] = 0)
=============================================================================
