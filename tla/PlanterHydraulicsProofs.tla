---------------------- MODULE PlanterHydraulicsProofs ----------------------
(***************************************************************************)
(* Proofs about PlanterHydraulics for every trigger polarity, every set of *)
(* buttons and any number of restarts: first who is where and holds what,  *)
(* then what the outputs show.                                             *)
(***************************************************************************)
EXTENDS PlanterHydraulics, TLAPS

RetLabels == {"groupRet", "toggleRet", "actRet", "applyRet", "navRet",
              "plantRet"}

(* Labels a handler can be at only while no fault is latched.              *)
FaultFree == {"group", "groupReset", "groupOff", "lit", "toggleOff",
              "actOff", "actApply", "visual", "plantApply"}

(* The labels of the action handlers, which run for a real button.         *)
PressLabels == {"group", "groupReset", "groupOff", "groupRet", "lit",
                "toggleOff", "toggleRet", "actOff", "actRet", "actApply",
                "applyRet", "visual"}

ButtonInv == vt.pc \in PressLabels => vt.index \in Steps

(* Who holds the bus, and what a critical section may be writing there.    *)
BusInv ==
    /\ bus = "main" => main.pc \in {"bootRet", "plantRet", "faultRet"}
    /\ bus = "vt" => vt.pc \in RetLabels
    /\ job["main"].row = {} /\ job["main"].abort = 0
    /\ job["vt"].abort = 0 => job["vt"].row = {}
    /\ job["vt"].abort # 0 => /\ bus = "vt"
                              /\ job["vt"].ok
                              /\ vt.pc = IF job["vt"].abort = FoldOff
                                         THEN "applyRet" ELSE "plantRet"
    /\ bus # "free" => job[bus].next <= job[bus].last

(* Before the loop no handler runs; the writes of the loop itself come     *)
(* after a fault.                                                          *)
MainInv ==
    /\ main.pc \notin LoopLabels =>
          /\ vt.pc = "idle" /\ seq = SeqIdle /\ sel.index = 0 /\ inhibited
    /\ main.pc = "direct" => ~fault
    /\ main.pc \in {"faultOff", "faultRet", "faultReset"} => fault /\ inhibited
    /\ main.pc = "faultReset" => seq = SeqIdle
    /\ (main.pc = "exchange" /\ ~main.avail) => fault

(* The event thread is the only one that can produce the first fault of    *)
(* the loop, and it has then given up whatever it was about to energise.   *)
FaultInv ==
    fault => \/ vt.pc \in {"idle", "navOff", "navRet", "navReset"}
             \/ vt.pc \in RetLabels /\ ~job["vt"].ok

(* Nothing is active or about to be while an inhibit is acted on.          *)
InhibitInv ==
    (inhibited /\ main.pc \notin {"faultOff", "faultRet", "faultReset"}) =>
        /\ seq = SeqIdle /\ sel.index = 0
        /\ vt.pc \notin FaultFree \ {"plantApply"}
        /\ vt.pc \in {"groupRet", "toggleRet", "actRet", "applyRet"} => fault

ControlInv == ButtonInv /\ BusInv /\ MainInv /\ FaultInv /\ InhibitInv

SafetyInv == TypeOK /\ ControlInv

-----------------------------------------------------------------------------
(* Lemmas about the tables and the relay levels.                           *)

(* A row of the action tables is a set of solenoids.                       *)
LEMMA ActionRowType ==
    ASSUME NEW g \in Groups, NEW s \in 0..5
    PROVE  ActionRow(g, s) \in SUBSET Solenoids
<1>1. \/ s = 0 \/ s = 1 \/ s = 2 \/ s = 3 \/ s = 4 \/ s = 5
  OBVIOUS
<1>2. \A n \in 1..6 : FOLD_STATES[n] \in SUBSET Solenoids
  BY SMT DEF FOLD_STATES, Solenoids
<1>3. \A n \in 1..6 : UNFOLD_STATES[n] \in SUBSET Solenoids
  BY SMT DEF UNFOLD_STATES, Solenoids
<1> QED
  BY <1>2, <1>3 DEF ActionRow

(* A plant row is a set of solenoids.                                      *)
LEMMA PlantRowType ==
    ASSUME NEW m \in PlantModes
    PROVE  PlantRow(m) \in SUBSET Solenoids
BY DEF PlantRow, PLANT_LIFT_STATES, Solenoids

(* The level byte of a port names pins of that port only.                  *)
LEMMA RelayByteType ==
    ASSUME NEW p \in Ports, NEW bits \in SUBSET Solenoids
    PROVE  relay_output_byte(p, bits) \in SUBSET Solenoids
BY PolarityAssumption DEF relay_output_byte, Pins, Ports, Solenoids

(* The level byte is its own inverse on the pins of the port.              *)
LEMMA RelayByteInvolution ==
    ASSUME NEW p \in Ports, NEW bits
    PROVE  relay_output_byte(p, relay_output_byte(p, bits)) = bits \cap Pins(p)
BY PolarityAssumption DEF relay_output_byte

(* The next write of a critical section is again one.                      *)
LEMMA NextJobType ==
    ASSUME NEW j \in Jobs, NEW ok \in BOOLEAN, j.next <= j.last
    PROVE  NextJob(j, ok) \in Jobs
BY DEF Jobs, NextJob, Section

-----------------------------------------------------------------------------
(* Type correctness.                                                       *)

(* A jump of the boot sequence keeps the type of app_main's locals.        *)
LEMMA MainAtType ==
    ASSUME NEW l \in MainLabels
    PROVE  MainAt(l) \in [pc : MainLabels, k : 1..4, ok : BOOLEAN,
                         avail : BOOLEAN]
BY DEF MainAt

(* TypeOK is preserved by the register writes of either thread.            *)
LEMMA WriteRegisterType ==
    ASSUME TypeOK, NEW t \in Threads, bus # "free" => job[bus].next <= job[bus].last,
           NEW ok \in BOOLEAN, NEW took \in BOOLEAN,
           WriteRegister(t, ok, took)
    PROVE  TypeOK'
<1> DEFINE j == NextJob(job[t], ok)
<1>1. job[t] \in Jobs /\ job[t].next <= job[t].last /\ job[t].next \in Ports
  BY DEF TypeOK, WriteRegister, Threads, Jobs, Ports
<1>2. j \in Jobs
  BY <1>1, NextJobType
<1>3. Result(j.ok) \in Jobs
  BY <1>2 DEF Jobs, Result, Section, LastUsed
<1>4. job' \in [Threads -> Jobs] /\ bus' \in Threads \cup {"free"}
  BY <1>2, <1>3 DEF TypeOK, WriteRegister
<1>5. /\ latch' \in [Ports -> SUBSET Solenoids]
      /\ failed' \in [Ports -> BOOLEAN]
      /\ fault' \in BOOLEAN
  <2>1. relay_output_byte(job[t].next, job[t].row) \in SUBSET Solenoids
    BY <1>1, RelayByteType DEF Jobs
  <2> QED
    BY <1>1, <2>1 DEF TypeOK, WriteRegister, WritePort
<1> QED
  BY <1>4, <1>5 DEF TypeOK, WriteRegister

(* TypeOK is preserved by the steps of the boot.                           *)
LEMMA BootType ==
    ASSUME TypeOK, NEW ok \in BOOLEAN, NEW took \in BOOLEAN,
           \/ Probe \/ Preload(ok, took) \/ Direct(ok, took) \/ BootOff
           \/ BootRet \/ CanStart \/ Halted \/ plant_control_init
           \/ PlantInitRet
    PROVE  TypeOK'
<1> USE DEF TypeOK
<1>1. CASE Probe
  BY <1>1 DEF Probe, boards, MainLabels, BootLabels
<1>2. CASE Preload(ok, took)
  <2>1. relay_output_byte(main.k, {}) \in SUBSET Solenoids
    BY RelayByteType DEF Ports
  <2>2. /\ latch' \in [Ports -> SUBSET Solenoids]
        /\ failed' \in [Ports -> BOOLEAN]
        /\ fault' \in BOOLEAN
    <3>1. CASE found[BoardOf(main.k)] /\ (main.k = 2 => main.ok)
      <4>1. WritePort(main.k, {}, ok, took)
        BY <1>2, <3>1, Zenon DEF Preload, PreloadPort
      <4>2. main.k \in Ports
        BY DEF Ports
      <4> QED
        BY <2>1, <4>1, <4>2 DEF WritePort
    <3>2. CASE ~(found[BoardOf(main.k)] /\ (main.k = 2 => main.ok))
      BY <1>2, <3>2 DEF Preload, PreloadPort
    <3> QED
      BY <3>1, <3>2
  <2>3. main' \in [pc : MainLabels, k : 1..4, ok : BOOLEAN, avail : BOOLEAN]
    <3>1. CASE main.k < 4
      <4>1. main' = [main EXCEPT !.k = @ + 1, !.ok = @ /\ ok]
        BY <1>2, <3>1 DEF Preload
      <4>2. (main.ok /\ ok) \in BOOLEAN /\ main.k + 1 \in 1..4
        BY <3>1
      <4> QED
        BY <4>1, <4>2
    <3>2. CASE ~(main.k < 4)
      <4>1. main' \in {MainAt("can"), MainAt("direct")}
        BY <1>2, <3>2 DEF Preload
      <4> QED
        BY <4>1, MainAtType DEF MainLabels, BootLabels
    <3> QED
      BY <3>1, <3>2
  <2> QED
    BY <1>2, <2>2, <2>3 DEF Preload
<1>3. CASE Direct(ok, took)
  <2>1. main' \in [pc : MainLabels, k : 1..4, ok : BOOLEAN, avail : BOOLEAN]
    <3>1. CASE ok /\ main.k < 4
      BY <1>3, <3>1 DEF Direct
    <3>2. CASE ~(ok /\ main.k < 4)
      <4>1. main' \in {MainAt("can"), MainAt("bootOff")}
        BY <1>3, <3>2 DEF Direct
      <4> QED
        BY <4>1, MainAtType DEF MainLabels, BootLabels
    <3> QED
      BY <3>1, <3>2
  <2> QED
    BY <1>3, <2>1 DEF Direct, Ports
<1>4. CASE BootOff
  BY <1>4 DEF BootOff, Lock, AllOff, Section, FoldOff, Jobs, boards, Threads,
              MainLabels, BootLabels
<1>5. CASE BootRet
  BY <1>5 DEF BootRet, boards, MainLabels, BootLabels
<1>6. CASE CanStart
  BY <1>6 DEF CanStart, boards, MainLabels, BootLabels
<1>7. CASE Halted
  BY <1>7 DEF Halted, vars
<1>8. CASE plant_control_init
  <2>1. CASE fault
    BY <1>8, <2>1 DEF plant_control_init, boards, MainLabels, LoopLabels,
                      PlantModes
  <2>2. CASE ~fault
    <3>1. Lock("main", AllOff(PlantOff)) /\ main' = [main EXCEPT !.pc = "plantRet"]
      BY <1>8, <2>2 DEF plant_control_init
    <3> QED
      BY <1>8, <3>1 DEF plant_control_init, Lock, AllOff, Section, PlantOff,
                      Jobs, boards, Threads, MainLabels, BootLabels,
                      PlantModes
  <2> QED
    BY <2>1, <2>2
<1>9. CASE PlantInitRet
  BY <1>9 DEF PlantInitRet, boards, MainLabels, BootLabels, LoopLabels
<1> QED
  BY <1>1, <1>2, <1>3, <1>4, <1>5, <1>6, <1>7, <1>8, <1>9

(* TypeOK is preserved by the steps of the main loop.                      *)
LEMMA LoopType ==
    ASSUME TypeOK,
           \/ SampleFault \/ ExchangeInhibit \/ FaultOff \/ FaultRet
           \/ FaultReset \/ update_lockout_feedback
    PROVE  TypeOK'
<1> USE DEF TypeOK
<1>1. CASE SampleFault
  BY <1>1 DEF SampleFault, boards, MainLabels, LoopLabels
<1>2. CASE ExchangeInhibit
  BY <1>2 DEF ExchangeInhibit, boards, MainLabels, LoopLabels
<1>3. CASE FaultOff
  BY <1>3 DEF FaultOff, Lock, AllOff, Section, FoldOff, Jobs, boards, Threads,
              MainLabels, LoopLabels
<1>4. CASE FaultRet
  BY <1>4 DEF FaultRet, SeqIdle, SeqStates, boards, MainLabels, LoopLabels
<1>5. CASE FaultReset
  BY <1>5 DEF FaultReset, Cleared, boards, MainLabels, LoopLabels
<1>6. CASE update_lockout_feedback
  BY <1>6 DEF update_lockout_feedback, boards, MainLabels, LoopLabels
<1> QED
  BY <1>1, <1>2, <1>3, <1>4, <1>5, <1>6

(* A blocked press changes the lockout flag of one screen only.            *)
LEMMA BlockedType ==
    ASSUME TypeOK, NEW g \in Groups,
           show_blocked_press(g) \/ UNCHANGED locked
    PROVE  locked' \in [Groups -> BOOLEAN]
BY DEF TypeOK, show_blocked_press

(* TypeOK is preserved by the steps of the handlers.                       *)
LEMMA HandlerType ==
    ASSUME TypeOK, ButtonInv,
           \/ CheckGroup
           \/ reset_action_buttons("groupReset", "groupOff")
           \/ CancelOff("groupOff", "groupRet")
           \/ CancelRet("groupRet", "lit")
           \/ CheckLit
           \/ CancelOff("toggleOff", "toggleRet")
           \/ CancelRet("toggleRet", "visual")
           \/ ActivateOff \/ ActivateSet \/ ActivateApply \/ ActivateRet
           \/ press_action_visual
           \/ CancelOff("navOff", "navRet")
           \/ NavigateRet
           \/ reset_action_buttons("navReset", "idle")
           \/ PlantApply \/ PlantRet
    PROVE  TypeOK'
<1> USE DEF TypeOK, VtGoto, VtReturn, VtIdle, VtLabels, Groups, boards
<1>1. CASE CheckGroup
  BY <1>1 DEF CheckGroup
<1>2. CASE reset_action_buttons("groupReset", "groupOff")
  BY <1>2 DEF reset_action_buttons, Cleared
<1>3. CASE CancelOff("groupOff", "groupRet")
  BY <1>3 DEF CancelOff, Lock, AllOff, Section, FoldOff, Jobs, Threads
<1>4. CASE CancelRet("groupRet", "lit")
  <2>1. show_blocked_press(vt.group) \/ UNCHANGED locked
    BY <1>4, Zenon DEF CancelRet
  <2>2. locked' \in [Groups -> BOOLEAN]
    BY <2>1, BlockedType
  <2> QED
    BY <1>4, <2>2 DEF CancelRet, SeqIdle, SeqStates
<1>5. CASE CheckLit
  BY <1>5 DEF CheckLit
<1>6. CASE CancelOff("toggleOff", "toggleRet")
  BY <1>6 DEF CancelOff, Lock, AllOff, Section, FoldOff, Jobs, Threads
<1>7. CASE CancelRet("toggleRet", "visual")
  <2>1. show_blocked_press(vt.group) \/ UNCHANGED locked
    BY <1>7, Zenon DEF CancelRet
  <2>2. locked' \in [Groups -> BOOLEAN]
    BY <2>1, BlockedType
  <2> QED
    BY <1>7, <2>2 DEF CancelRet, SeqIdle, SeqStates
<1>8. CASE ActivateOff
  BY <1>8 DEF ActivateOff, Lock, AllOff, Section, FoldOff, Jobs, Threads
<1>9. CASE ActivateSet
  <2>1. show_blocked_press(vt.group) \/ UNCHANGED locked
    BY <1>9, Zenon DEF ActivateSet
  <2>2. locked' \in [Groups -> BOOLEAN]
    BY <2>1, BlockedType
  <2> QED
    BY <1>9, <2>2 DEF ActivateSet, SeqOf, SeqStates, ButtonInv, PressLabels,
                      Steps
<1>10. CASE ActivateApply
  <2>1. ActionRow(vt.group, seq.step) \in SUBSET Solenoids
    BY ActionRowType
  <2> QED
    BY <1>10, <2>1 DEF ActivateApply, Lock, Apply, Section, FoldOff, LastUsed,
                       Jobs, Threads
<1>11. CASE ActivateRet
  <2>1. show_blocked_press(vt.group) \/ UNCHANGED locked
    BY <1>11, Zenon DEF ActivateRet
  <2>2. locked' \in [Groups -> BOOLEAN]
    BY <2>1, BlockedType
  <2> QED
    BY <1>11, <2>2 DEF ActivateRet, SeqIdle, SeqStates
<1>12. CASE press_action_visual
  BY <1>12 DEF press_action_visual, Cleared
<1>13. CASE CancelOff("navOff", "navRet")
  BY <1>13 DEF CancelOff, Lock, AllOff, Section, FoldOff, Jobs, Threads
<1>14. CASE NavigateRet
  BY <1>14 DEF NavigateRet, SeqIdle, SeqStates
<1>15. CASE reset_action_buttons("navReset", "idle")
  BY <1>15 DEF reset_action_buttons, Cleared
<1>16. CASE PlantApply
  <2>1. PlantRow(mode) \in SUBSET Solenoids
    BY PlantRowType
  <2> QED
    BY <1>16, <2>1 DEF PlantApply, Lock, Apply, Section, PlantOff, LastUsed,
                       Jobs, Threads
<1>17. CASE PlantRet
  <2>1. show_blocked_press("Fold") \/ UNCHANGED locked
    BY <1>17, Zenon DEF PlantRet
  <2>2. locked' \in [Groups -> BOOLEAN]
    BY <2>1, BlockedType
  <2> QED
    BY <1>17, <2>2 DEF PlantRet
<1> QED
  BY <1>1, <1>2, <1>3, <1>4, <1>5, <1>6, <1>7, <1>8, <1>9, <1>10, <1>11,
     <1>12, <1>13, <1>14, <1>15, <1>16, <1>17

(* TypeOK is preserved by the operator's presses and by a restart.         *)
LEMMA OperatorType ==
    ASSUME TypeOK, Operator \/ Restart
    PROVE  TypeOK'
<1> USE DEF TypeOK
<1>1. ASSUME NEW g \in Groups, NEW i \in Actions, PressAction(g, i)
      PROVE  TypeOK'
  <2>1. i \in 0..6
    BY ActionsAssumption DEF Steps
  <2>2. show_blocked_press(g) \/ UNCHANGED locked
    BY <1>1, Zenon DEF PressAction
  <2>3. locked' \in [Groups -> BOOLEAN]
    BY <2>2, BlockedType
  <2>4. vt' \in [pc : VtLabels, group : Groups, index : 0..6]
    BY <1>1, <2>1 DEF PressAction, VtLabels
  <2> QED
    BY <1>1, <2>3, <2>4 DEF PressAction, boards
<1>2. CASE Navigate
  BY <1>2 DEF Navigate, VtGoto, VtLabels, boards
<1>3. ASSUME NEW m \in PlantButtons, PressPlant(m)
      PROVE  TypeOK'
  <2>1. m \in PlantModes
    BY PlantAssumption
  <2> QED
    BY <1>3, <2>1, ZenonT(40) DEF PressPlant, show_blocked_press, VtGoto, VtLabels,
                      Groups, boards
<1>4. CASE Restart
  <2>1. main' \in [pc : MainLabels, k : 1..4, ok : BOOLEAN, avail : BOOLEAN]
    BY <1>4, MainAtType DEF Restart, BootStart, MainLabels, BootLabels
  <2>2. job' \in [Threads -> Jobs]
    BY <1>4 DEF Restart, Result, Section, LastUsed, Jobs
  <2>3. restarts' \in 0..MaxRestarts
    BY <1>4, RestartsAssumption DEF Restart
  <2>4. latch' \in [Ports -> SUBSET Solenoids] /\ dir' \in [Ports -> BOOLEAN]
    BY <1>4 DEF Restart, ColdLatch, ColdDir
  <2>5. sel' \in [group : Groups, index : 0..6]
    BY <1>4 DEF Restart, SelNone, Groups
  <2>6. vt' \in [pc : VtLabels, group : Groups, index : 0..6]
    BY <1>4 DEF Restart, VtIdle, VtLabels, Groups
  <2>7. seq' \in [state : SeqStates, step : 0..5]
    BY <1>4 DEF Restart, SeqIdle, SeqStates
  <2> QED
    BY <1>4, <2>1, <2>2, <2>3, <2>4, <2>5, <2>6, <2>7
       DEF Restart, PlantModes
<1> QED
  BY <1>1, <1>2, <1>3, <1>4 DEF Operator

(* Every step keeps the types.                                             *)
LEMMA TypeStep ==
    ASSUME TypeOK, ButtonInv, BusInv, [Next]_vars
    PROVE  TypeOK'
<1>1. ASSUME NEW t \in Threads, NEW ok \in BOOLEAN, NEW took \in BOOLEAN,
             WriteRegister(t, ok, took)
      PROVE  TypeOK'
  BY <1>1, WriteRegisterType DEF BusInv
<1>2. CASE MainStep
  <2>1. ASSUME NEW ok \in BOOLEAN, NEW took \in BOOLEAN,
               Preload(ok, took) \/ Direct(ok, took)
        PROVE  TypeOK'
    BY <2>1, BootType
  <2>2. CASE Probe \/ BootOff \/ BootRet \/ CanStart \/ Halted
             \/ plant_control_init \/ PlantInitRet
    <3>1. TRUE \in BOOLEAN
      OBVIOUS
    <3> QED
      BY <2>2, <3>1, BootType
  <2>3. "main" \in Threads
    BY DEF Threads
  <2> QED
    BY <1>1, <1>2, <2>1, <2>2, <2>3, LoopType DEF MainStep
<1>3. CASE VtStep
  <2>1. "vt" \in Threads
    BY DEF Threads
  <2> QED
    BY <1>1, <1>3, <2>1, HandlerType DEF VtStep
<1>4. CASE Operator \/ Restart
  BY <1>4, OperatorType
<1>5. CASE UNCHANGED vars
  BY <1>5 DEF vars, TypeOK
<1> QED
  BY <1>2, <1>3, <1>4, <1>5 DEF Next

-----------------------------------------------------------------------------
(* The control invariant is inductive.                                     *)

(* The steps of app_main other than its register writes.                   *)
LEMMA MainControl ==
    ASSUME TypeOK, ControlInv, NEW ok \in BOOLEAN, NEW took \in BOOLEAN,
           \/ Preload(ok, took) \/ Direct(ok, took)
           \/ Probe
           \/ BootOff
           \/ BootRet
           \/ CanStart
           \/ Halted
           \/ plant_control_init
           \/ PlantInitRet
           \/ SampleFault
           \/ ExchangeInhibit
           \/ FaultOff
           \/ FaultRet
           \/ FaultReset
           \/ update_lockout_feedback
    PROVE  ControlInv'
<1> USE DEF TypeOK, ControlInv, ButtonInv, BusInv, MainInv, FaultInv,
            InhibitInv, boards, LoopLabels, RetLabels, FaultFree, PressLabels
<1>1. CASE Preload(ok, took)
  BY <1>1 DEF Preload, MainAt
<1>2. CASE Direct(ok, took)
  BY <1>2 DEF Direct, MainAt
<1>3. CASE Probe
  BY <1>3 DEF Probe
<1>4. CASE BootOff
  BY <1>4 DEF BootOff, Lock, AllOff, Section, FoldOff, Threads
<1>5. CASE BootRet
  BY <1>5 DEF BootRet, Done
<1>6. CASE CanStart
  BY <1>6 DEF CanStart
<1>7. CASE Halted
  BY <1>7 DEF Halted, vars
<1>8. CASE plant_control_init
  <2>1. CASE fault
    BY <1>8, <2>1 DEF plant_control_init
  <2>2. CASE ~fault
    <3>1. /\ Lock("main", AllOff(PlantOff))
          /\ main' = [main EXCEPT !.pc = "plantRet"]
      BY <1>8, <2>2 DEF plant_control_init
    <3> QED
      BY <1>8, <2>2, <3>1 DEF plant_control_init, Lock, AllOff, Section,
                              PlantOff, Threads
  <2> QED
    BY <2>1, <2>2
<1>9. CASE PlantInitRet
  BY <1>9 DEF PlantInitRet, Done
<1>10. CASE SampleFault
  BY <1>10 DEF SampleFault
<1>11. CASE ExchangeInhibit
  BY <1>11 DEF ExchangeInhibit
<1>12. CASE FaultOff
  BY <1>12 DEF FaultOff, Lock, AllOff, Section, FoldOff, Threads
<1>13. CASE FaultRet
  BY <1>13 DEF FaultRet, Done, SeqIdle
<1>14. CASE FaultReset
  BY <1>14 DEF FaultReset, Cleared
<1>15. CASE update_lockout_feedback
  BY <1>15 DEF update_lockout_feedback
<1> QED
  BY <1>1, <1>2, <1>3, <1>4, <1>5, <1>6, <1>7, <1>8, <1>9, <1>10, <1>11,
     <1>12, <1>13, <1>14, <1>15

(* The steps of the handlers other than their register writes.             *)
LEMMA HandlerControl ==
    ASSUME TypeOK, ControlInv,
           \/ CheckGroup
           \/ reset_action_buttons("groupReset", "groupOff")
           \/ CancelOff("groupOff", "groupRet")
           \/ CancelRet("groupRet", "lit")
           \/ CheckLit
           \/ CancelOff("toggleOff", "toggleRet")
           \/ CancelRet("toggleRet", "visual")
           \/ ActivateOff
           \/ ActivateSet
           \/ ActivateApply
           \/ ActivateRet
           \/ press_action_visual
           \/ CancelOff("navOff", "navRet")
           \/ NavigateRet
           \/ reset_action_buttons("navReset", "idle")
           \/ PlantApply
           \/ PlantRet
    PROVE  ControlInv'
<1> USE DEF TypeOK, ControlInv, ButtonInv, BusInv, MainInv, FaultInv,
            InhibitInv, boards, LoopLabels, RetLabels, FaultFree, PressLabels,
            VtGoto, VtReturn, VtIdle
<1>1. CASE CheckGroup
  BY <1>1 DEF CheckGroup, Other
<1>2. CASE reset_action_buttons("groupReset", "groupOff")
  BY <1>2 DEF reset_action_buttons, Cleared
<1>3. CASE CancelOff("groupOff", "groupRet")
  BY <1>3 DEF CancelOff, Lock, AllOff, Section, FoldOff, Threads
<1>4. CASE CancelRet("groupRet", "lit")
  BY <1>4 DEF CancelRet, Done, SeqIdle
<1>5. CASE CheckLit
  BY <1>5 DEF CheckLit
<1>6. CASE CancelOff("toggleOff", "toggleRet")
  BY <1>6 DEF CancelOff, Lock, AllOff, Section, FoldOff, Threads
<1>7. CASE CancelRet("toggleRet", "visual")
  BY <1>7 DEF CancelRet, Done, SeqIdle
<1>8. CASE ActivateOff
  BY <1>8 DEF ActivateOff, Lock, AllOff, Section, FoldOff, Threads
<1>9. CASE ActivateSet
  BY <1>9 DEF ActivateSet, Done, SeqIdle
<1>10. CASE ActivateApply
  BY <1>10 DEF ActivateApply, Lock, Apply, Section, FoldOff, LastUsed, Threads
<1>11. CASE ActivateRet
  BY <1>11 DEF ActivateRet, Done, SeqIdle
<1>12. CASE press_action_visual
  BY <1>12 DEF press_action_visual, Cleared
<1>13. CASE CancelOff("navOff", "navRet")
  BY <1>13 DEF CancelOff, Lock, AllOff, Section, FoldOff, Threads
<1>14. CASE NavigateRet
  BY <1>14 DEF NavigateRet, Done, SeqIdle
<1>15. CASE reset_action_buttons("navReset", "idle")
  BY <1>15 DEF reset_action_buttons, Cleared
<1>16. CASE PlantApply
  BY <1>16 DEF PlantApply, Lock, Apply, Section, PlantOff, FoldOff, LastUsed,
        Threads
<1>17. CASE PlantRet
  BY <1>17 DEF PlantRet, Done
<1> QED
  BY <1>1, <1>2, <1>3, <1>4, <1>5, <1>6, <1>7, <1>8, <1>9, <1>10, <1>11,
     <1>12, <1>13, <1>14, <1>15, <1>16, <1>17

(* A register write of app_main: it only ever switches off, and in the     *)
(* loop it does so after a fault.                                          *)
LEMMA MainWriteControl ==
    ASSUME TypeOK, ControlInv, NEW ok \in BOOLEAN, NEW took \in BOOLEAN,
           WriteRegister("main", ok, took)
    PROVE  ControlInv'
<1> USE DEF TypeOK, ControlInv
<1>1. /\ job["main"] \in Jobs /\ job["main"].row = {} /\ job["main"].abort = 0
      /\ bus = "main" /\ main.pc \in {"bootRet", "plantRet", "faultRet"}
  BY DEF WriteRegister, BusInv, Threads
<1> DEFINE j == NextJob(job["main"], ok)
<1>2. /\ UNCHANGED <<seq, sel, inhibited, vt, main>>
      /\ job'["vt"] = job["vt"]
      /\ job'["main"].row = {} /\ job'["main"].abort = 0
      /\ \/ bus' = "free"
         \/ bus' = "main" /\ job'["main"].next <= job'["main"].last
  <2>1. j.row = {} /\ j.abort = 0 /\ j.next \in Int /\ j.last \in Int
    BY <1>1 DEF NextJob, Section, Jobs
  <2>2. \/ bus' = "free" /\ job' = [job EXCEPT !["main"] = Result(j.ok)]
        \/ bus' = "main" /\ ~(j.next > j.last)
           /\ job' = [job EXCEPT !["main"] = j]
    BY DEF WriteRegister
  <2>3. "main" \in Threads /\ "vt" \in Threads
    BY DEF Threads
  <2> HIDE DEF j
  <2> QED
    BY <2>1, <2>2, <2>3 DEF WriteRegister, Result, Section
<1>3. fault => fault'
  BY DEF WriteRegister, WritePort
<1>4. ButtonInv' /\ BusInv'
  BY <1>1, <1>2 DEF ButtonInv, BusInv
<1>5. MainInv'
  BY <1>1, <1>2, <1>3 DEF MainInv, LoopLabels
<1>6. FaultInv' /\ InhibitInv'
  <2>1. main.pc = "faultRet" => fault
    BY DEF MainInv
  <2>2. main.pc # "faultRet" => vt.pc = "idle"
    BY <1>1 DEF MainInv, LoopLabels
  <2> QED
    BY <1>1, <1>2, <1>3, <2>1, <2>2 DEF FaultInv, InhibitInv, FaultFree
<1> QED
  BY <1>4, <1>5, <1>6

(* A register write of a handler: the one that fails also makes the        *)
(* handler give up what it was doing.                                      *)
LEMMA VtWriteControl ==
    ASSUME TypeOK, ControlInv, NEW ok \in BOOLEAN, NEW took \in BOOLEAN,
           WriteRegister("vt", ok, took)
    PROVE  ControlInv'
<1> USE DEF TypeOK, ControlInv
<1> DEFINE j == NextJob(job["vt"], ok)
<1>1. /\ job["vt"] \in Jobs /\ bus = "vt" /\ vt.pc \in RetLabels
      /\ main.pc \in LoopLabels
      /\ job["vt"].next <= job["vt"].last
  BY DEF WriteRegister, BusInv, MainInv, Threads, RetLabels
<1>2. /\ UNCHANGED <<seq, sel, inhibited, vt, main>>
      /\ job'["main"] = job["main"]
      /\ \/ bus' = "free" /\ job'["vt"] = Result(j.ok)
         \/ bus' = "vt" /\ job'["vt"] = j /\ j.next <= j.last
      /\ j \in Jobs
  BY <1>1, NextJobType DEF WriteRegister, Threads, Jobs
<1>3. /\ j.ok <=> (job["vt"].ok /\ ok)
      /\ j.abort = 0 \/ (j.abort = job["vt"].abort /\ j.row = job["vt"].row
                         /\ ok)
      /\ j.abort = 0 => j.row = {}
  BY <1>1 DEF NextJob, Section, BusInv, Jobs
<1>4. fault' = (fault \/ ~ok)
  BY DEF WriteRegister, WritePort
<1>5. job'["vt"].ok <=> (job["vt"].ok /\ ok)
  BY <1>2, <1>3 DEF Result, Section
<1>6. ButtonInv' /\ BusInv'
  <2>1. job'["vt"].abort = 0 => job'["vt"].row = {}
    BY <1>2, <1>3 DEF Result, Section
  <2>2. job'["vt"].abort # 0 =>
          /\ bus' = "vt" /\ ok /\ job["vt"].abort = job'["vt"].abort
    BY <1>2, <1>3 DEF Result, Section
  <2> QED
    BY <1>1, <1>2, <1>5, <2>1, <2>2 DEF ButtonInv, BusInv
<1>7. MainInv'
  BY <1>1, <1>2, <1>4 DEF MainInv, LoopLabels
<1>8. FaultInv'
  BY <1>1, <1>2, <1>4, <1>5 DEF FaultInv, RetLabels
<1>9. InhibitInv'
  BY <1>1, <1>2, <1>4 DEF InhibitInv, FaultFree
<1> QED
  BY <1>6, <1>7, <1>8, <1>9

(* The presses of the operator and the restart.                            *)
LEMMA OperatorControl ==
    ASSUME TypeOK, ControlInv, Operator \/ Restart
    PROVE  ControlInv'
<1> USE DEF TypeOK, ControlInv, ButtonInv, BusInv, MainInv, FaultInv,
            InhibitInv, boards, LoopLabels, RetLabels, FaultFree, PressLabels
<1>1. ASSUME NEW g \in Groups, NEW i \in Actions, PressAction(g, i)
      PROVE  ControlInv'
  BY <1>1, ActionsAssumption
     DEF PressAction, Serving, hydraulic_actuation_inhibited, Steps
<1>2. CASE Navigate
  BY <1>2 DEF Navigate, Serving, VtGoto
<1>3. ASSUME NEW m \in PlantButtons, PressPlant(m)
      PROVE  ControlInv'
  BY <1>3 DEF PressPlant, Serving, VtGoto
<1>4. CASE Restart
  <2>1. /\ vt'.pc = "idle" /\ main'.pc = "probe" /\ bus' = "free"
        /\ seq' = SeqIdle /\ sel'.index = 0 /\ inhibited'
        /\ ~fault'
    BY <1>4 DEF Restart, VtIdle, BootStart, MainAt, SelNone
  <2>2. \A t \in Threads : job'[t].row = {} /\ job'[t].abort = 0
    BY <1>4 DEF Restart, Result, Section
  <2>3. "main" \in Threads /\ "vt" \in Threads
    BY DEF Threads
  <2> QED
    BY <2>1, <2>2, <2>3
<1> QED
  BY <1>1, <1>2, <1>3, <1>4 DEF Operator

(* Every step keeps the control invariant.                                 *)
LEMMA ControlStep ==
    ASSUME TypeOK, ControlInv, [Next]_vars
    PROVE  ControlInv'
<1>1. CASE MainStep
  <2>1. ASSUME NEW ok \in BOOLEAN, NEW took \in BOOLEAN,
               Preload(ok, took) \/ Direct(ok, took)
        PROVE  ControlInv'
    BY <2>1, MainControl
  <2>2. ASSUME NEW ok \in BOOLEAN, NEW took \in BOOLEAN,
               WriteRegister("main", ok, took)
        PROVE  ControlInv'
    BY <2>2, MainWriteControl
  <2>3. CASE \/ Probe \/ BootOff \/ BootRet \/ CanStart \/ Halted
             \/ plant_control_init \/ PlantInitRet \/ SampleFault
             \/ ExchangeInhibit \/ FaultOff \/ FaultRet \/ FaultReset
             \/ update_lockout_feedback
    <3>1. TRUE \in BOOLEAN
      OBVIOUS
    <3> QED
      BY <2>3, <3>1, MainControl
  <2> QED
    BY <1>1, <2>1, <2>2, <2>3 DEF MainStep
<1>2. CASE VtStep
  BY <1>2, VtWriteControl, HandlerControl DEF VtStep
<1>3. CASE Operator \/ Restart
  BY <1>3, OperatorControl
<1>4. CASE UNCHANGED vars
  BY <1>4 DEF vars, ControlInv, ButtonInv, BusInv, MainInv, FaultInv,
              InhibitInv
<1> QED
  BY <1>1, <1>2, <1>3, <1>4 DEF Next

(* The invariant holds when the controller is switched on.                 *)
LEMMA SafetyInit == Init => SafetyInv
<1> SUFFICES ASSUME Init PROVE SafetyInv
  OBVIOUS
<1>1. TypeOK
  <2>1. main \in [pc : MainLabels, k : 1..4, ok : BOOLEAN, avail : BOOLEAN]
    BY MainAtType DEF Init, BootStart, MainLabels, BootLabels
  <2>2. job \in [Threads -> Jobs]
    BY DEF Init, Result, Section, LastUsed, Jobs
  <2>3. restarts \in 0..MaxRestarts
    BY RestartsAssumption DEF Init
  <2>4. sel \in [group : Groups, index : 0..6]
    BY DEF Init, SelNone, Groups
  <2>5. vt \in [pc : VtLabels, group : Groups, index : 0..6]
    BY DEF Init, VtIdle, VtLabels, Groups
  <2>6. seq \in [state : SeqStates, step : 0..5]
    BY DEF Init, SeqIdle, SeqStates
  <2> QED
    BY <2>1, <2>2, <2>3, <2>4, <2>5, <2>6
       DEF TypeOK, Init, ColdLatch, ColdDir, PlantModes
<1>2. /\ vt.pc = "idle" /\ main.pc = "probe" /\ bus = "free"
      /\ seq = SeqIdle /\ sel.index = 0 /\ inhibited /\ ~fault
  BY DEF Init, VtIdle, BootStart, MainAt, SelNone
<1>3. /\ job["main"].row = {} /\ job["main"].abort = 0
      /\ job["vt"].row = {} /\ job["vt"].abort = 0
  BY DEF Init, Result, Section, Threads
<1>4. ControlInv
  BY <1>2, <1>3 DEF ControlInv, ButtonInv, BusInv, MainInv, FaultInv,
     InhibitInv, LoopLabels, RetLabels, FaultFree, PressLabels
<1> QED
  BY <1>1, <1>4 DEF SafetyInv

(* The inductive invariant holds for ever.                                 *)
THEOREM SafetyInvariant == Spec => []SafetyInv
<1>1. SafetyInv /\ [Next]_vars => SafetyInv'
  BY TypeStep, ControlStep DEF SafetyInv, ControlInv
<1> QED
  BY SafetyInit, <1>1, PTL DEF Spec

(* Type correctness.  It needs the control invariant: a handler stores the *)
(* 0-based step of a button, so that it runs for a real button must be     *)
(* known, and a register write needs a section that is not finished.       *)
THEOREM TypeCorrect == Spec => []TypeOK
<1>1. SafetyInv => TypeOK
  BY DEF SafetyInv
<1> QED
  BY SafetyInvariant, <1>1, PTL

(* A lockout sticks, for any interleaving of the main loop's cancel with   *)
(* the handlers in flight (main.cpp, the main loop and the handlers).      *)
THEOREM LockoutIsFinal == Spec => []LockoutSticks
<1>1. SafetyInv => LockoutSticks
  BY DEF SafetyInv, ControlInv, InhibitInv, LockoutSticks, Settled
<1> QED
  BY SafetyInvariant, <1>1, PTL

-----------------------------------------------------------------------------
(* The interlock.                                                          *)

(* A write of nothing to a port leaves its relays as they were or opens    *)
(* them all.                                                               *)
LEMMA WriteOffShrinks ==
    ASSUME TypeOK, NEW q \in Ports, NEW ok \in BOOLEAN, NEW took \in BOOLEAN,
           WritePort(q, {}, ok, took), UNCHANGED dir
    PROVE  \A p \in Ports : Energised(p)' \subseteq Energised(p)
<1> SUFFICES ASSUME NEW p \in Ports
             PROVE  Energised(p)' \subseteq Energised(p)
  OBVIOUS
<1>1. CASE took /\ p = q
  <2>1. latch'[p] = relay_output_byte(p, {})
    BY <1>1 DEF WritePort, TypeOK
  <2>2. Energised(p)' = {}
    BY <2>1, RelayByteInvolution DEF Energised
  <2> QED
    BY <2>2
<1>2. CASE ~(took /\ p = q)
  <2>1. latch'[p] = latch[p]
    BY <1>2 DEF WritePort, TypeOK
  <2> QED
    BY <2>1 DEF Energised
<1> QED
  BY <1>1, <1>2

(* No step taken while a fault is latched energises a solenoid.            *)
LEMMA InterlockStep ==
    ASSUME SafetyInv, [Next]_vars, fault, fault'
    PROVE  \A p \in Ports : Energised(p)' \subseteq Energised(p)
<1> USE DEF SafetyInv, ControlInv
<1>1. CASE UNCHANGED <<latch, dir>>
  BY <1>1 DEF Energised
<1>2. ASSUME NEW t \in Threads, NEW ok \in BOOLEAN, NEW took \in BOOLEAN,
             WriteRegister(t, ok, took)
      PROVE  \A p \in Ports : Energised(p)' \subseteq Energised(p)
  <2>1. job[t] \in Jobs /\ job[t].next <= job[t].last /\ job[t].next \in Ports
    BY <1>2 DEF TypeOK, WriteRegister, BusInv, Threads, Jobs, Ports
  <2>2. job[t].row = {}
    BY <1>2 DEF WriteRegister, BusInv, FaultInv, Threads, RetLabels
  <2> QED
    BY <1>2, <2>1, <2>2, WriteOffShrinks DEF WriteRegister
<1>3. ASSUME NEW ok \in BOOLEAN, NEW took \in BOOLEAN, Preload(ok, took)
      PROVE  \A p \in Ports : Energised(p)' \subseteq Energised(p)
  <2>1. CASE WritePort(main.k, {}, ok, took)
    <3>1. main.k \in Ports
      BY DEF TypeOK, Ports
    <3> QED
      BY <1>3, <2>1, <3>1, WriteOffShrinks DEF Preload
  <2>2. CASE UNCHANGED latch
    BY <1>1, <1>3, <2>2 DEF Preload
  <2> QED
    BY <1>3, <2>1, <2>2, Zenon DEF Preload, PreloadPort
<1>4. ASSUME NEW ok \in BOOLEAN, NEW took \in BOOLEAN, Direct(ok, took)
      PROVE  FALSE
  BY <1>4 DEF Direct, MainInv
<1>5. CASE Restart
  BY <1>5 DEF Restart
<1>6. CASE MainStep
  <2>1. "main" \in Threads
    BY DEF Threads
  <2> QED
    BY <1>1, <1>2, <1>3, <1>4, <1>6, <2>1, Zenon
       DEF MainStep, Probe, BootOff, BootRet, CanStart, Halted, vars,
           plant_control_init, PlantInitRet, SampleFault, ExchangeInhibit,
           FaultOff, FaultRet, FaultReset, update_lockout_feedback, boards
<1>7. CASE VtStep
  <2>1. "vt" \in Threads
    BY DEF Threads
  <2> QED
    BY <1>1, <1>2, <1>7, <2>1
       DEF VtStep, CheckGroup, reset_action_buttons, CancelOff, CancelRet,
           CheckLit, ActivateOff, ActivateSet, ActivateApply, ActivateRet,
           press_action_visual, NavigateRet, PlantApply, PlantRet, boards
<1>8. CASE Operator
  BY <1>1, <1>8 DEF Operator, PressAction, Navigate, PressPlant, boards
<1>9. CASE UNCHANGED vars
  BY <1>1, <1>9 DEF vars
<1> QED
  BY <1>5, <1>6, <1>7, <1>8, <1>9 DEF Next

(* The interlock: from the write failure on, no step of either thread      *)
(* energises a solenoid (main.cpp, hydraulic_actuation_inhibited and the   *)
(* has_fault tests of the plant buttons).                                  *)
THEOREM Interlock == Spec => NoEnergiseUnderFault
<1>1. SafetyInv /\ [Next]_vars
        => [fault /\ fault' => EnergisedSet' \subseteq EnergisedSet]_vars
  BY InterlockStep DEF EnergisedSet
<1> QED
  BY SafetyInvariant, <1>1, PTL DEF Spec, NoEnergiseUnderFault

--------------------------------------------------------------------------------
(* The outputs: which relays are closed at each label of the boot, of the  *)
(* main loop and of the handlers.                                          *)

(* The relays of every port, as one value that steps leave or change.      *)
Relays == [p \in Ports |-> Energised(p)]

(* Every port shows its part of a row.                                     *)
Shows(row) == \A p \in Ports : Relays[p] = row \cap Pins(p)

(* A section that reports failure has latched the fault; the boot starts   *)
(* with neither.                                                           *)
OkInv == \A t \in Threads : ~job[t].ok => fault /\ main.pc # "probe"

(* What a critical section without a failure has written so far, and which *)
(* row the two applies write.                                              *)
ProgressInv ==
    /\ \A t \in Threads : bus = t /\ job[t].ok =>
          \A p \in Ports : p < job[t].next => Relays[p] = job[t].row \cap Pins(p)
    /\ bus = "vt" /\ job["vt"].ok =>
          /\ vt.pc = "applyRet" => job["vt"].row = ActionRow(vt.group, seq.step)
          /\ vt.pc = "plantRet" => job["vt"].row = PlantRow(mode)

(* Without a fault the boot has made every port an output and switched it  *)
(* off before a handler runs.                                              *)
BootInv ==
    /\ main.pc = "probe" => main.k = 1 /\ main.ok
    /\ main.pc = "preload" /\ ~main.ok => fault
    /\ main.pc = "direct" => \A p \in Ports : p < main.k => dir[p]
    /\ ~fault => /\ main.pc \notin {"probe", "preload", "direct", "halted"} =>
                       \A p \in Ports : dir[p]
                 /\ main.pc = "bootRet" /\ bus # "main" => Shows({})
                 /\ main.pc \in {"can", "plantInit", "plantRet"} => Shows({})

(* The first boot: a port drives nothing, or its latch was preloaded.      *)
ColdInv ==
    restarts = 0 =>
        /\ main.pc \in {"probe", "preload"} => \A p \in Ports : ~dir[p]
        /\ main.pc = "preload" /\ ~fault =>
              /\ \A b \in 0..1 : found[b]
              /\ \A p \in Ports : p < main.k => relay_output_byte(p, latch[p]) = {}
        /\ main.pc = "direct" => \A p \in Ports : relay_output_byte(p, latch[p]) = {}
        /\ main.pc \notin LoopLabels => Shows({})

(* An action starts from all off.                                          *)
ActionInv ==
    /\ vt.pc = "actRet" /\ job["vt"].ok /\ bus # "vt" => Shows({})
    /\ vt.pc = "actApply" => Shows({})
    /\ bus = "vt" /\ vt.pc = "applyRet" /\ job["vt"].abort # 0 =>
          \A p \in Ports : Relays[p] \in {{}, job["vt"].row \cap Pins(p)}

Pressed == sel.index = vt.index /\ sel.group = vt.group

Agree == seq = IF sel.index = 0 THEN SeqIdle ELSE SeqOf(sel.group, sel.index)

(* Lit button, sequencer and the button being handled, at each label.      *)
LitInv ==
    ~fault =>
        /\ vt.pc \in {"idle", "group", "groupReset", "lit", "plantApply",
                      "plantRet"} => Agree
        /\ vt.pc \in {"groupOff", "groupRet"} => sel.index = 0
        /\ vt.pc \in {"toggleOff", "toggleRet"} => Pressed
        /\ vt.pc \in {"actOff", "actRet", "actApply", "applyRet"} => ~Pressed
        /\ vt.pc \in {"actApply", "applyRet"} => seq = SeqOf(vt.group, vt.index)
        /\ vt.pc = "visual" =>
              seq = IF Pressed THEN SeqIdle ELSE SeqOf(vt.group, vt.index)
        /\ vt.pc = "navReset" => seq = SeqIdle

Explained ==
    \/ Shows(PlantRow(mode))
    \/ Shows({}) /\ seq = SeqIdle
    \/ seq # SeqIdle /\ Shows(ActionRow(GroupOf(seq.state), seq.step))

(* What the outputs show, at each label of the handlers.                   *)
ShownInv ==
    ~fault /\ main.pc \in LoopLabels =>
        /\ vt.pc \in {"idle", "group", "groupReset", "groupOff", "lit",
                      "toggleOff", "actOff", "visual"} => Explained
        /\ vt.pc \in {"groupRet", "toggleRet", "navRet"} /\ bus # "vt" => Shows({})
        /\ vt.pc = "navReset" => Shows({})
        /\ vt.pc = "applyRet" /\ bus # "vt" =>
              Shows(ActionRow(vt.group, seq.step))
        /\ vt.pc = "plantRet" /\ bus # "vt" => Shows(PlantRow(mode))

(* After a clean boot and a fault, a port that a section has passed or     *)
(* that no section is about to pass is off, or its write failed.           *)
SafeInv ==
    main.pc \in LoopLabels /\ main.ok /\ fault =>
        \A p \in Ports : (bus # "free" => p < job[bus].next) =>
            Relays[p] = {} \/ failed[p]

OutputInv ==
    /\ OkInv
    /\ ProgressInv
    /\ BootInv
    /\ ColdInv
    /\ ActionInv
    /\ LitInv
    /\ ShownInv
    /\ SafeInv

-----------------------------------------------------------------------------
(* Lemmas about the relays.                                                *)

(* Port 4 drives no relay; a port drives its own pins only.                *)
LEMMA RelaysOwnPins ==
    ASSUME NEW p \in Ports
    PROVE  Relays[p] \subseteq Pins(p) /\ Pins(4) = {}
BY DEF Relays, Energised, relay_output_byte, Pins

(* A step that leaves latches and directions alone leaves the relays.      *)
LEMMA RelaysKept == UNCHANGED <<latch, dir>> => Relays' = Relays
BY DEF Relays, Energised

(* A register write shows its bits on the port, if the port is an output   *)
(* and the write reached it.                                               *)
LEMMA RelaysWritten ==
    ASSUME TypeOK, NEW q \in Ports, NEW bits, NEW ok \in BOOLEAN,
           NEW took \in BOOLEAN, WritePort(q, bits, ok, took), UNCHANGED dir
    PROVE  /\ \A p \in Ports \ {q} : Relays'[p] = Relays[p] /\ failed'[p] = failed[p]
           /\ Relays'[q] = IF took THEN IF dir[q] THEN bits \cap Pins(q) ELSE {}
                                   ELSE Relays[q]
           /\ failed'[q] = ~ok
           /\ ok => took
           /\ fault' = (fault \/ ~ok)
<1>1. latch' = IF took THEN [latch EXCEPT ![q] = relay_output_byte(q, bits)] ELSE latch
  BY Zenon DEF WritePort
<1>2. \A p \in Ports \ {q} : latch'[p] = latch[p] /\ failed'[p] = failed[p]
  BY <1>1 DEF WritePort, TypeOK
<1>3. latch'[q] = IF took THEN relay_output_byte(q, bits) ELSE latch[q]
  BY <1>1 DEF TypeOK
<1>4. \A p \in Ports \ {q} : Relays'[p] = Relays[p]
  BY <1>2 DEF Relays, Energised
<1>5. Relays'[q] = IF took THEN IF dir[q] THEN bits \cap Pins(q) ELSE {}
                           ELSE Relays[q]
  BY <1>3, RelayByteInvolution DEF Relays, Energised
<1> QED
  BY <1>2, <1>4, <1>5 DEF WritePort, TypeOK

(* What a thread finds in its section after it took the mutex.             *)
LEMMA Locked ==
    ASSUME TypeOK, NEW t \in Threads, NEW u \in Threads, u # t,
           NEW row, NEW last, NEW abort,
           Lock(t, Section(row, 1, last, abort, TRUE))
    PROVE  /\ bus = "free" /\ bus' = t
           /\ job'[t].row = row /\ job'[t].next = 1 /\ job'[t].last = last
           /\ job'[t].abort = abort /\ job'[t].ok
           /\ job'[u] = job[u]
BY DEF Lock, Section, TypeOK

LEMMA MainLocked ==
    ASSUME TypeOK, NEW last, Lock("main", AllOff(last))
    PROVE  /\ bus = "free" /\ bus' = "main"
           /\ job'["main"].row = {} /\ job'["main"].next = 1
           /\ job'["main"].abort = 0 /\ job'["main"].ok
           /\ job'["vt"] = job["vt"]
BY Locked DEF AllOff, Threads

-----------------------------------------------------------------------------
(* The output invariant is inductive.                                      *)

(* plant_control_init does not write after a fault of fold_sequence_init.  *)
LEMMA PlantInitFaulted ==
    ASSUME TypeOK, fault, plant_control_init
    PROVE  /\ UNCHANGED <<bus, job, seq, vt, fault, restarts, latch, dir>>
           /\ main.pc = "plantInit" /\ main'.pc = "loop" /\ ~main'.ok
BY DEF plant_control_init, TypeOK, boards

(* The steps of app_main that write no register.                           *)
LEMMA MainOutputs ==
    ASSUME SafetyInv, OutputInv,
           \/ Probe \/ BootOff \/ BootRet \/ CanStart \/ Halted
           \/ plant_control_init \/ PlantInitRet \/ SampleFault
           \/ ExchangeInhibit \/ FaultOff \/ FaultRet \/ FaultReset
           \/ update_lockout_feedback
    PROVE  OutputInv'
<1> USE DEF SafetyInv, OutputInv, OkInv, ProgressInv, BootInv, ColdInv,
            ActionInv, LitInv, ShownInv, SafeInv, Agree, Pressed, Explained,
            Shows, TypeOK, boards, LoopLabels, Threads, Ports
<1>1. CASE Probe
  BY <1>1, RelaysKept DEF Probe, ControlInv, MainInv
<1>2. CASE BootOff
  <2>1. Lock("main", AllOff(FoldOff))
    BY <1>2 DEF BootOff
  <2> QED
    BY <1>2, <2>1, MainLocked, RelaysKept DEF BootOff, ControlInv, MainInv
<1>3. CASE BootRet
  BY <1>3, RelaysKept DEF BootRet, Done, ControlInv, MainInv
<1>4. CASE CanStart
  BY <1>4, RelaysKept DEF CanStart, ControlInv, MainInv
<1>5. CASE Halted
  BY <1>5, RelaysKept DEF Halted, vars
<1>6. CASE plant_control_init
  <2>1. CASE fault
    <3>1. /\ UNCHANGED <<bus, job, seq, vt, fault, restarts, latch, dir>>
          /\ main.pc = "plantInit" /\ main'.pc = "loop" /\ ~main'.ok
      BY <1>6, <2>1, PlantInitFaulted
    <3>2. bus # "vt"
      BY <3>1 DEF ControlInv, MainInv, BusInv, RetLabels
    <3>3. Relays' = Relays
      BY <3>1, RelaysKept
    <3> QED
      BY <2>1, <3>1, <3>2, <3>3
  <2>2. CASE ~fault
    <3>1. /\ Lock("main", AllOff(PlantOff))
          /\ main' = [main EXCEPT !.pc = "plantRet"]
      BY <1>6, <2>2 DEF plant_control_init
    <3> QED
      BY <1>6, <2>2, <3>1, MainLocked, RelaysKept
         DEF plant_control_init, ControlInv, MainInv
  <2> QED
    BY <2>1, <2>2
<1>8. CASE PlantInitRet
  BY <1>8, RelaysKept DEF PlantInitRet, Done, ControlInv, MainInv
<1>9. CASE SampleFault
  BY <1>9, RelaysKept DEF SampleFault
<1>10. CASE ExchangeInhibit
  BY <1>10, RelaysKept DEF ExchangeInhibit
<1>11. CASE FaultOff
  <2>1. Lock("main", AllOff(FoldOff))
    BY <1>11 DEF FaultOff
  <2> QED
    BY <1>11, <2>1, MainLocked, RelaysKept DEF FaultOff, ControlInv, MainInv
<1>12. CASE FaultRet
  BY <1>12, RelaysKept DEF FaultRet, ControlInv, MainInv, FaultInv, RetLabels, Done
<1>13. CASE FaultReset
  BY <1>13, RelaysKept DEF FaultReset, ControlInv, MainInv
<1>14. CASE update_lockout_feedback
  BY <1>14, RelaysKept DEF update_lockout_feedback
<1> QED
  BY <1>1, <1>2, <1>3, <1>4, <1>5, <1>6, <1>8, <1>9, <1>10, <1>11, <1>12,
     <1>13, <1>14

(* A port whose level byte is the one for nothing, or that is an input,    *)
(* drives nothing.                                                         *)
LEMMA RelaysOff ==
    (\A p \in Ports : dir[p] => relay_output_byte(p, latch[p]) = {}) <=> Shows({})
BY DEF Relays, Energised, Shows

(* What one preload leaves.                                                *)
LEMMA PreloadPortEffect ==
    ASSUME TypeOK, NEW k \in Ports, NEW ok \in BOOLEAN, NEW took \in BOOLEAN,
           PreloadPort(k, ok, took)
    PROVE  /\ fault => fault'
           /\ ~ok => fault'
           /\ \A p \in Ports \ {k} : latch'[p] = latch[p]
           /\ found[BoardOf(k)] /\ main.ok /\ ok =>
                 relay_output_byte(k, latch'[k]) = {}
<1>1. CASE found[BoardOf(k)] /\ (k = 2 => main.ok)
  <2>1. WritePort(k, {}, ok, took)
    BY <1>1, Zenon DEF PreloadPort
  <2>2. latch' = IF took THEN [latch EXCEPT ![k] = relay_output_byte(k, {})]
                         ELSE latch
    BY <2>1, Zenon DEF WritePort
  <2>3. ok => latch'[k] = relay_output_byte(k, {})
    BY <2>1, <2>2 DEF WritePort, TypeOK
  <2>4. ok => relay_output_byte(k, latch'[k]) = {}
    BY <2>3, RelayByteInvolution
  <2>5. \A p \in Ports \ {k} : latch'[p] = latch[p]
    BY <2>2 DEF TypeOK
  <2> QED
    BY <2>1, <2>4, <2>5 DEF WritePort, TypeOK
<1>2. CASE ~(found[BoardOf(k)] /\ (k = 2 => main.ok))
  BY <1>2 DEF PreloadPort
<1> QED
  BY <1>1, <1>2

(* The boot before an output is driven: latches, then directions.          *)
LEMMA BootWriteOutputs ==
    ASSUME SafetyInv, OutputInv, NEW ok \in BOOLEAN, NEW took \in BOOLEAN,
           Preload(ok, took) \/ Direct(ok, took)
    PROVE  OutputInv'
<1> USE DEF SafetyInv
<1>0. main.k \in Ports
  BY DEF TypeOK, Ports
<1>1. /\ vt.pc = "idle" /\ bus = "free" /\ sel.index = 0 /\ seq = SeqIdle
      /\ main.pc \in {"preload", "direct"}
  BY DEF Preload, Direct, ControlInv, MainInv, BusInv, LoopLabels, RetLabels,
         TypeOK, Threads
<1>2. /\ UNCHANGED <<bus, job, seq, sel, vt, mode, restarts, found>>
      /\ fault => fault'
  BY <1>0, PreloadPortEffect DEF Preload, Direct
<1>3. main'.pc \in {"preload", "direct", "can", "bootOff"}
  <2>1. CASE Preload(ok, took)
    BY <2>1, <1>1 DEF Preload, MainAt, TypeOK
  <2>2. CASE Direct(ok, took)
    BY <2>2, <1>1 DEF Direct, MainAt, TypeOK
  <2> QED
    BY <2>1, <2>2
<1>4. OkInv' /\ ProgressInv'
  BY <1>1, <1>2, <1>3 DEF OutputInv, OkInv, ProgressInv, Threads
<1>5. ActionInv' /\ LitInv' /\ ShownInv' /\ SafeInv'
  BY <1>1, <1>2, <1>3 DEF ActionInv, LitInv, ShownInv, SafeInv, Agree, LoopLabels
<1>6. CASE Preload(ok, took)
  <2>1. /\ main.pc = "preload" /\ PreloadPort(main.k, ok, took)
        /\ UNCHANGED dir
        /\ main' = IF main.k < 4
                   THEN [main EXCEPT !.k = @ + 1, !.ok = @ /\ ok]
                   ELSE IF fault' \/ ~ok \/ ~main.ok
                        THEN MainAt("can")
                        ELSE MainAt("direct")
    BY <1>6, Zenon DEF Preload
  <2>2. ~ok \/ ~main.ok => fault'
    BY <1>0, <1>2, <2>1, PreloadPortEffect DEF OutputInv, BootInv
  <2>3. BootInv'
    <3>1. CASE main.k < 4
      BY <2>1, <2>2, <3>1 DEF BootInv, TypeOK
    <3>2. CASE ~(main.k < 4)
      BY <2>1, <2>2, <3>2 DEF BootInv, MainAt, Ports
    <3> QED
      BY <3>1, <3>2
  <2>4. ASSUME restarts = 0
        PROVE  /\ \A p \in Ports : ~dir[p]
               /\ ~fault' =>
                     /\ \A b \in 0..1 : found[b]
                     /\ \A p \in Ports : p < main.k + 1 =>
                           relay_output_byte(p, latch'[p]) = {}
    <3>1. /\ \A p \in Ports : ~dir[p]
          /\ ~fault => /\ \A b \in 0..1 : found[b]
                       /\ \A p \in Ports : p < main.k =>
                             relay_output_byte(p, latch[p]) = {}
      BY <2>1, <2>4 DEF OutputInv, ColdInv
    <3>2. BoardOf(main.k) \in 0..1
      BY DEF BoardOf
    <3>3. ~fault' => relay_output_byte(main.k, latch'[main.k]) = {}
      BY <1>0, <1>2, <2>1, <2>2, <3>1, <3>2, PreloadPortEffect
    <3>4. \A p \in Ports \ {main.k} : latch'[p] = latch[p]
      BY <1>0, <2>1, PreloadPortEffect
    <3>5. main.k \in Int
      BY DEF TypeOK
    <3> QED
      BY <1>2, <3>1, <3>3, <3>4, <3>5 DEF Ports
  <2>5. restarts = 0 => Shows({})'
    BY <2>1, <2>4, RelaysOff DEF Shows, Relays, Energised
  <2>6. ColdInv'
    <3>1. CASE main.k < 4
      <4>1. main'.pc = "preload" /\ main'.k = main.k + 1
        BY <2>1, <3>1 DEF TypeOK
      <4> QED
        BY <1>2, <2>1, <2>4, <2>5, <4>1 DEF ColdInv
    <3>2. CASE ~(main.k < 4)
      <4>1. /\ main.k = 4
            /\ main'.pc \in {"can", "direct"}
            /\ main'.pc = "direct" => ~fault'
        BY <2>1, <3>2 DEF MainAt, TypeOK
      <4> QED
        BY <1>2, <2>4, <2>5, <4>1 DEF ColdInv, Ports
    <3> QED
      BY <3>1, <3>2
  <2> QED
    BY <1>4, <1>5, <2>3, <2>6 DEF OutputInv
<1>7. CASE Direct(ok, took)
  <2>1. BootInv'
    <3>1. /\ main.pc = "direct" /\ dir' = [dir EXCEPT ![main.k] = @ \/ took]
          /\ ok => took
          /\ ~ok => fault'
          /\ main' = IF ~ok THEN MainAt("can")
                     ELSE IF main.k < 4 THEN [main EXCEPT !.k = @ + 1]
                     ELSE MainAt("bootOff")
      BY <1>7, Zenon DEF Direct
    <3>2. \A p \in Ports : p < main.k => dir[p]
      BY <3>1 DEF OutputInv, BootInv
    <3>3. ok => \A p \in Ports : p < main.k + 1 => dir'[p]
      <4>1. \A p \in Ports \ {main.k} : dir'[p] = dir[p]
        BY <3>1 DEF TypeOK
      <4>2. dir'[main.k] = (dir[main.k] \/ took)
        BY <1>0, <3>1 DEF TypeOK
      <4>3. ok => dir'[main.k]
        BY <3>1, <4>2
      <4> QED
        BY <1>0, <3>2, <4>1, <4>3 DEF Ports
    <3>4. CASE ~ok
      BY <3>1, <3>4 DEF BootInv, MainAt
    <3>5. CASE ok /\ main.k < 4
      BY <3>1, <3>3, <3>5 DEF BootInv, TypeOK
    <3>6. CASE ok /\ ~(main.k < 4)
      BY <3>1, <3>3, <3>6 DEF BootInv, MainAt, TypeOK, Ports
    <3> QED
      BY <3>4, <3>5, <3>6
  <2>2. restarts = 0 => \A p \in Ports : relay_output_byte(p, latch[p]) = {}
    BY <1>7 DEF Direct, OutputInv, ColdInv
  <2>3. restarts = 0 => Shows({})'
    BY <1>7, <2>2 DEF Direct, Shows, Relays, Energised
  <2>4. ColdInv'
    BY <1>2, <1>7, <2>2, <2>3 DEF Direct, ColdInv, MainAt, TypeOK
  <2> QED
    BY <1>4, <1>5, <2>1, <2>4 DEF OutputInv
<1> QED
  BY <1>6, <1>7

LEMMA VtLocked ==
    ASSUME TypeOK, NEW row, NEW last, NEW abort,
           Lock("vt", Section(row, 1, last, abort, TRUE))
    PROVE  /\ bus = "free" /\ bus' = "vt"
           /\ job'["vt"].row = row /\ job'["vt"].next = 1
           /\ job'["vt"].abort = abort /\ job'["vt"].ok
           /\ job'["main"] = job["main"]
BY DEF Lock, Section, TypeOK, Threads

LEMMA OffLocked ==
    ASSUME TypeOK, NEW from, NEW to, CancelOff(from, to) \/ ActivateOff
    PROVE  /\ bus = "free" /\ bus' = "vt"
           /\ job'["vt"].row = {} /\ job'["vt"].next = 1
           /\ job'["vt"].abort = 0 /\ job'["vt"].ok
           /\ job'["main"] = job["main"]
BY VtLocked DEF CancelOff, ActivateOff, AllOff

LEMMA ApplyLocked ==
    ASSUME TypeOK, NEW row, NEW abort, Lock("vt", Apply(row, abort))
    PROVE  /\ bus = "free" /\ bus' = "vt"
           /\ job'["vt"].row = row /\ job'["vt"].next = 1
           /\ job'["vt"].abort = abort /\ job'["vt"].ok
           /\ job'["main"] = job["main"]
BY VtLocked DEF Apply

(* The statics of an action name its group and are not the idle ones.      *)
LEMMA SeqOfAction ==
    ASSUME NEW g \in Groups, NEW i
    PROVE  /\ SeqOf(g, i) # SeqIdle /\ SeqOf(g, i).step = i - 1
           /\ GroupOf(SeqOf(g, i).state) = g
BY SMTT(40) DEF SeqOf, SeqIdle, GroupOf, Groups

(* The steps of the handlers that write no register.                       *)
LEMMA HandlerOutputs ==
    ASSUME SafetyInv, OutputInv,
           \/ CheckGroup
           \/ reset_action_buttons("groupReset", "groupOff")
           \/ CancelOff("groupOff", "groupRet")
           \/ CancelRet("groupRet", "lit")
           \/ CheckLit
           \/ CancelOff("toggleOff", "toggleRet")
           \/ CancelRet("toggleRet", "visual")
           \/ ActivateOff \/ ActivateSet \/ ActivateApply \/ ActivateRet
           \/ press_action_visual
           \/ CancelOff("navOff", "navRet")
           \/ NavigateRet
           \/ reset_action_buttons("navReset", "idle")
           \/ PlantApply \/ PlantRet
    PROVE  OutputInv'
<1> USE DEF SafetyInv, OutputInv, OkInv, ProgressInv, BootInv, ColdInv,
            ActionInv, LitInv, ShownInv, SafeInv, Agree, Pressed, Explained,
            Shows, TypeOK, boards, LoopLabels, Threads, Ports, VtGoto,
            VtReturn, VtIdle
<1>0. main.pc \in LoopLabels
  BY DEF ControlInv, MainInv, CheckGroup, reset_action_buttons, CancelOff,
         CancelRet, CheckLit, ActivateOff, ActivateSet, ActivateApply,
         ActivateRet, press_action_visual, NavigateRet, PlantApply, PlantRet
<1>1. CASE CheckGroup
  BY <1>1, RelaysKept DEF CheckGroup, Other
<1>2. CASE reset_action_buttons("groupReset", "groupOff")
  BY <1>2, RelaysKept DEF reset_action_buttons, Cleared
<1>3. CASE CancelOff("groupOff", "groupRet")
  BY <1>3, OffLocked, RelaysKept DEF CancelOff
<1>4. CASE CancelRet("groupRet", "lit")
  BY <1>4, RelaysKept DEF CancelRet, Done, SeqIdle
<1>5. CASE CheckLit
  BY <1>5, RelaysKept DEF CheckLit
<1>6. CASE CancelOff("toggleOff", "toggleRet")
  BY <1>6, OffLocked, RelaysKept DEF CancelOff
<1>7. CASE CancelRet("toggleRet", "visual")
  BY <1>7, RelaysKept DEF CancelRet, Done, SeqIdle
<1>8. CASE ActivateOff
  BY <1>8, OffLocked, RelaysKept DEF ActivateOff
<1>9. CASE ActivateSet
  BY <1>9, RelaysKept DEF ActivateSet, Done
<1>10. CASE ActivateApply
  <2>1. Lock("vt", Apply(ActionRow(vt.group, seq.step), FoldOff))
    BY <1>10 DEF ActivateApply
  <2> QED
    BY <1>10, <2>1, ApplyLocked, RelaysKept DEF ActivateApply
<1>11. CASE ActivateRet
  BY <1>11, RelaysKept, SeqOfAction DEF ActivateRet, Done
<1>12. CASE press_action_visual
  <2>1. vt.index \in Steps
    BY <1>12 DEF press_action_visual, ControlInv, ButtonInv, PressLabels
  <2> QED
    BY <1>12, <2>1, RelaysKept DEF press_action_visual, Cleared, Steps
<1>13. CASE CancelOff("navOff", "navRet")
  BY <1>13, OffLocked, RelaysKept DEF CancelOff
<1>14. CASE NavigateRet
  BY <1>14, RelaysKept DEF NavigateRet, Done
<1>15. CASE reset_action_buttons("navReset", "idle")
  BY <1>15, RelaysKept DEF reset_action_buttons, Cleared
<1>16. CASE PlantApply
  <2>1. Lock("vt", Apply(PlantRow(mode), PlantOff))
    BY <1>16 DEF PlantApply
  <2> QED
    BY <1>16, <2>1, ApplyLocked, RelaysKept DEF PlantApply
<1>17. CASE PlantRet
  BY <1>17, RelaysKept DEF PlantRet, Done
<1> QED
  BY <1>1, <1>2, <1>3, <1>4, <1>5, <1>6, <1>7, <1>8, <1>9, <1>10, <1>11,
     <1>12, <1>13, <1>14, <1>15, <1>16, <1>17

-----------------------------------------------------------------------------
(* The register writes of the critical sections.                           *)

(* What one write changes: one port, and the section.                      *)
LEMMA WriteEffect ==
    ASSUME TypeOK, ControlInv, NEW t \in Threads, NEW ok \in BOOLEAN,
           NEW took \in BOOLEAN, WriteRegister(t, ok, took)
    PROVE  /\ bus = t /\ job[t] \in Jobs /\ job[t].next \in Ports
           /\ job[t].next <= job[t].last
           /\ WritePort(job[t].next, job[t].row, ok, took)
           /\ NextJob(job[t], ok) \in Jobs
           /\ \/ /\ bus' = "free"
                 /\ NextJob(job[t], ok).next > NextJob(job[t], ok).last
                 /\ job'[t] = Result(NextJob(job[t], ok).ok)
              \/ /\ bus' = t
                 /\ NextJob(job[t], ok).next <= NextJob(job[t], ok).last
                 /\ job'[t] = NextJob(job[t], ok)
           /\ \A u \in Threads \ {t} : job'[u] = job[u]
           /\ UNCHANGED <<dir, found, seq, mode, sel, inhibited, locked, vt,
                          main, restarts>>
<1> DEFINE j == NextJob(job[t], ok)
<1>1. bus = t /\ job[t].next <= job[t].last /\ job[t] \in Jobs
  BY DEF WriteRegister, ControlInv, BusInv, TypeOK, Threads
<1>2. job[t].next \in Ports
  BY <1>1 DEF Jobs, Ports
<1>3. j \in Jobs
  BY <1>1, NextJobType
<1>4. \/ bus' = "free" /\ j.next > j.last /\ job' = [job EXCEPT ![t] = Result(j.ok)]
      \/ bus' = t /\ ~(j.next > j.last) /\ job' = [job EXCEPT ![t] = j]
  BY <1>1 DEF WriteRegister
<1> HIDE DEF j
<1>5. /\ \/ bus' = "free" /\ j.next > j.last /\ job'[t] = Result(j.ok)
         \/ bus' = t /\ j.next <= j.last /\ job'[t] = j
      /\ \A u \in Threads \ {t} : job'[u] = job[u]
  BY <1>3, <1>4 DEF TypeOK, Jobs
<1> USE DEF j
<1> QED
  BY <1>1, <1>2, <1>3, <1>5, Zenon DEF WriteRegister

(* A section that ends has passed every port that drives a relay.          *)
LEMMA AllPassed ==
    ASSUME NEW j \in Jobs, j.next > j.last, NEW p \in Ports, ~(p < j.next)
    PROVE  p = 4
BY DEF Jobs, Ports

(* The writes of app_main only switch off.                                 *)
LEMMA MainWriteOutputs ==
    ASSUME SafetyInv, OutputInv, NEW ok \in BOOLEAN, NEW took \in BOOLEAN,
           WriteRegister("main", ok, took)
    PROVE  OutputInv'
<1> DEFINE q == job["main"].next
           j == NextJob(job["main"], ok)
<1> USE DEF SafetyInv
<1>0. "main" \in Threads /\ "vt" \in Threads
  BY DEF Threads
<1>1. /\ bus = "main" /\ q \in Ports /\ job["main"] \in Jobs
      /\ WritePort(q, job["main"].row, ok, took)
      /\ j \in Jobs
      /\ \/ bus' = "free" /\ j.next > j.last /\ job'["main"] = Result(j.ok)
         \/ bus' = "main" /\ j.next <= j.last /\ job'["main"] = j
      /\ job'["vt"] = job["vt"]
      /\ UNCHANGED <<dir, seq, mode, sel, vt, main, restarts>>
  BY <1>0, WriteEffect
<1>2. /\ job["main"].row = {} /\ job["main"].abort = 0
      /\ main.pc \in {"bootRet", "plantRet", "faultRet"}
      /\ main.pc = "faultRet" => fault
      /\ main.pc # "faultRet" => vt.pc = "idle"
  BY <1>0, <1>1 DEF ControlInv, BusInv, MainInv, TypeOK, LoopLabels
<1>3. j.row = {} /\ j.next = q + 1 /\ (j.ok <=> job["main"].ok /\ ok)
  BY <1>1, <1>2 DEF NextJob, Section, Jobs
<1> HIDE DEF j, q
<1>4. /\ \A p \in Ports \ {q} : Relays'[p] = Relays[p] /\ failed'[p] = failed[p]
      /\ Relays'[q] = IF took THEN {} ELSE Relays[q]
      /\ failed'[q] = ~ok
      /\ ok => took
      /\ fault' = (fault \/ ~ok)
  <2>1. /\ WritePort(q, {}, ok, took) /\ UNCHANGED dir
        /\ \A S : {} \cap S = {}
    BY <1>1, <1>2
  <2> QED
    BY <1>1, <2>1, RelaysWritten, ZenonT(40)
<1>5. \A p \in Ports : j.next > j.last => p < j.next \/ Relays'[p] = {}
  BY <1>1, <1>4, AllPassed, RelaysOwnPins
<1>6. /\ job'["main"].row = {} /\ (job'["main"].ok <=> j.ok)
      /\ bus' \in {"free", "main"}
      /\ bus' = "main" => job'["main"].next = q + 1
      /\ bus' = "free" => \A p \in Ports : p < q + 1 \/ Relays'[p] = {}
  BY <1>1, <1>3, <1>5 DEF Result, Section
<1>7. Shows({}) => Shows({})'
  BY <1>4 DEF Shows
<1>8. j.ok => \A p \in Ports : p < q + 1 => Relays'[p] = {}
  <2>1. j.ok => \A p \in Ports : p < q => Relays[p] = {}
    BY <1>0, <1>1, <1>2, <1>3 DEF OutputInv, ProgressInv, q
  <2> QED
    BY <1>1, <1>3, <1>4, <2>1 DEF Ports
<1>9. OkInv'
  BY <1>1, <1>2, <1>3, <1>4, <1>6 DEF OutputInv, OkInv, Threads
<1>10. ProgressInv'
  BY <1>1, <1>6, <1>8 DEF ProgressInv, Threads
<1>11. BootInv'
  <2>1. ~fault' => ~fault /\ j.ok
    BY <1>0, <1>3, <1>4 DEF OutputInv, OkInv
  <2>2. ~fault' /\ bus' = "free" => Shows({})'
    BY <1>6, <1>8, <2>1 DEF Shows
  <2> QED
    BY <1>1, <1>2, <1>6, <1>7, <2>1, <2>2 DEF OutputInv, BootInv
<1>12. ColdInv' /\ ActionInv'
  <2>1. bus' # "vt" /\ bus # "vt"
    BY <1>1, <1>6
  <2> QED
    BY <1>1, <1>2, <1>7, <2>1 DEF OutputInv, ColdInv, ActionInv
<1>13. LitInv' /\ ShownInv'
  BY <1>1, <1>2, <1>4 DEF OutputInv, LitInv, ShownInv, Agree, Pressed, LoopLabels
<1>14. SafeInv'
  <2>1. ASSUME main.pc \in LoopLabels, main.ok,
               NEW p \in Ports, p < q + 1
        PROVE  Relays'[p] = {} \/ failed'[p]
    <3>1. CASE p = q
      BY <1>4, <3>1
    <3>2. CASE p # q
      <4>1. p < q /\ fault
        BY <1>1, <1>2, <2>1, <3>2 DEF Ports, LoopLabels
      <4>2. Relays[p] = {} \/ failed[p]
        BY <1>1, <2>1, <4>1 DEF OutputInv, SafeInv, q
      <4> QED
        BY <1>4, <3>2, <4>2
    <3> QED
      BY <3>1, <3>2
  <2> QED
    BY <1>1, <1>6, <2>1 DEF SafeInv
<1> QED
  BY <1>9, <1>10, <1>11, <1>12, <1>13, <1>14 DEF OutputInv
(* The writes of a handler: an all-off, or an apply that turns into one.   *)
LEMMA VtWriteOutputs ==
    ASSUME SafetyInv, OutputInv, NEW ok \in BOOLEAN, NEW took \in BOOLEAN,
           WriteRegister("vt", ok, took)
    PROVE  OutputInv'
<1> DEFINE q == job["vt"].next
           r == job["vt"].row
           j == NextJob(job["vt"], ok)
<1> USE DEF SafetyInv
<1>0. "main" \in Threads /\ "vt" \in Threads
  BY DEF Threads
<1>1. /\ bus = "vt" /\ q \in Ports /\ job["vt"] \in Jobs
      /\ WritePort(q, r, ok, took)
      /\ j \in Jobs
      /\ \/ bus' = "free" /\ j.next > j.last /\ job'["vt"] = Result(j.ok)
         \/ bus' = "vt" /\ j.next <= j.last /\ job'["vt"] = j
      /\ job'["main"] = job["main"]
      /\ UNCHANGED <<dir, seq, mode, sel, vt, main, restarts>>
  BY <1>0, WriteEffect
<1>2. /\ vt.pc \in RetLabels /\ main.pc \in LoopLabels
      /\ job["vt"].abort = 0 => r = {}
      /\ job["vt"].abort # 0 =>
            /\ job["vt"].ok /\ ~fault
            /\ vt.pc = IF job["vt"].abort = FoldOff THEN "applyRet" ELSE "plantRet"
      /\ ~fault => job["vt"].ok /\ \A p \in Ports : dir[p]
  <2>1. vt.pc \in RetLabels /\ main.pc \in LoopLabels
    BY <1>1 DEF ControlInv, BusInv, MainInv, RetLabels
  <2>2. ~fault => job["vt"].ok /\ \A p \in Ports : dir[p]
    BY <1>0, <2>1 DEF OutputInv, OkInv, BootInv, LoopLabels
  <2>3. job["vt"].abort # 0 => job["vt"].ok /\ ~fault
    BY <2>1 DEF ControlInv, BusInv, FaultInv, RetLabels
  <2> QED
    BY <2>1, <2>2, <2>3 DEF ControlInv, BusInv
<1>3. /\ ok => /\ j.row = r /\ j.next = q + 1
               /\ j.abort = job["vt"].abort /\ j.ok = job["vt"].ok
      /\ ~ok => j.row = {} /\ ~j.ok /\ j.abort = 0
      /\ ~ok /\ job["vt"].abort = 0 => j.next = q + 1
      /\ ~ok /\ job["vt"].abort # 0 => j.next = 1 /\ j.next <= j.last
  <2>1. CASE ok
    BY <2>1 DEF NextJob, Section
  <2>2. CASE ~ok /\ job["vt"].abort = 0
    BY <1>2, <2>2 DEF NextJob, Section
  <2>3. CASE ~ok /\ job["vt"].abort # 0
    <3>1. j = Section({}, 1, job["vt"].abort, 0, FALSE)
      BY <2>3 DEF NextJob
    <3>2. job["vt"].abort \in {0, 3, 4}
      BY <1>1 DEF Jobs
    <3>3. 1 <= job["vt"].abort
      BY <2>3, <3>2
    <3> HIDE DEF j
    <3> QED
      BY <2>3, <3>1, <3>3 DEF Section
  <2> QED
    BY <2>1, <2>2, <2>3
<1> HIDE DEF j, q, r
<1>4. /\ \A p \in Ports \ {q} : Relays'[p] = Relays[p] /\ failed'[p] = failed[p]
      /\ Relays'[q] = IF took THEN r \cap Pins(q) ELSE Relays[q]
      /\ failed'[q] = ~ok
      /\ ok => took
      /\ fault' = (fault \/ ~ok)
  <2>1. WritePort(q, r, ok, took) /\ UNCHANGED dir
    BY <1>1
  <2>2. r = {} \/ dir[q]
    BY <1>1, <1>2
  <2> QED
    BY <1>1, <2>1, <2>2, RelaysWritten, ZenonT(40)
<1>5. \A p \in Ports : j.next > j.last =>
         p < j.next \/ (Relays'[p] = {} /\ Pins(p) = {})
  <2>1. Pins(4) = {} /\ 4 \in Ports
    BY DEF Pins, Ports
  <2>2. Relays[4] = {}
    BY <2>1, RelaysOwnPins
  <2>3. Relays'[4] = {}
    BY <1>1, <1>4, <2>1, <2>2
  <2>4. j.next > j.last => \A p \in Ports : p < j.next \/ p = 4
    BY <1>1, AllPassed
  <2> QED
    BY <2>1, <2>3, <2>4
<1>6. /\ job'["vt"].ok <=> j.ok
      /\ bus' \in {"free", "vt"}
      /\ bus' = "vt" => job'["vt"] = j
      /\ bus' = "free" => /\ job'["vt"].abort = 0
                          /\ \A p \in Ports :
                                p < j.next \/ (Relays'[p] = {} /\ Pins(p) = {})
  BY <1>1, <1>5 DEF Result, Section
<1>7. j.ok => ok /\ job["vt"].ok
  BY <1>1, <1>3 DEF Jobs
<1>8. j.ok => \A p \in Ports : p < q + 1 => Relays'[p] = r \cap Pins(p)
  <2>1. j.ok => \A p \in Ports : p < q => Relays[p] = r \cap Pins(p)
    BY <1>0, <1>1, <1>7 DEF OutputInv, ProgressInv, q, r
  <2> QED
    BY <1>1, <1>4, <1>7, <2>1 DEF Ports
<1>9. j.ok /\ bus' = "free" => \A p \in Ports : Relays'[p] = r \cap Pins(p)
  BY <1>3, <1>6, <1>7, <1>8
<1>10. ~fault' => ~fault /\ j.ok
  BY <1>1, <1>2, <1>3, <1>4
<1>11. OkInv'
  BY <1>1, <1>2, <1>4, <1>6, <1>10 DEF OutputInv, OkInv, Threads, LoopLabels
<1>12. ProgressInv'
  BY <1>1, <1>3, <1>6, <1>7, <1>8 DEF OutputInv, ProgressInv, Threads, r
<1>13. BootInv' /\ ColdInv'
  BY <1>1, <1>2, <1>10 DEF BootInv, ColdInv, LoopLabels
<1>14. ActionInv'
  <2>1. vt.pc = "actRet" /\ job'["vt"].ok /\ bus' # "vt" => Shows({})'
    BY <1>2, <1>6, <1>9 DEF Shows, FoldOff
  <2>2. ASSUME bus' = "vt", vt.pc = "applyRet", job'["vt"].abort # 0,
               NEW p \in Ports
        PROVE  Relays'[p] \in {{}, j.row \cap Pins(p)}
    <3>1. ok /\ j.row = r /\ job["vt"].abort # 0
      BY <1>3, <1>6, <2>2
    <3>2. CASE p = q
      BY <1>4, <3>1, <3>2
    <3>3. CASE p # q
      BY <1>1, <1>4, <2>2, <3>1, <3>3 DEF OutputInv, ActionInv, r
    <3> QED
      BY <3>2, <3>3
  <2> QED
    BY <1>1, <1>2, <1>6, <2>1, <2>2 DEF ActionInv, RetLabels
<1>15. LitInv'
  BY <1>1, <1>10 DEF OutputInv, LitInv, Agree, Pressed
<1>16. ShownInv'
  <2>1. ~fault' /\ bus' # "vt" => \A p \in Ports : Relays'[p] = r \cap Pins(p)
    BY <1>6, <1>9, <1>10
  <2>2. j.ok /\ vt.pc = "applyRet" => r = ActionRow(vt.group, seq.step)
    BY <1>1, <1>7 DEF OutputInv, ProgressInv, r
  <2>3. j.ok /\ vt.pc = "plantRet" => r = PlantRow(mode)
    BY <1>1, <1>7 DEF OutputInv, ProgressInv, r
  <2>4. vt.pc \in {"groupRet", "toggleRet", "navRet"} => r = {}
    BY <1>2
  <2> QED
    BY <1>1, <1>2, <1>10, <2>1, <2>2, <2>3, <2>4 DEF ShownInv, RetLabels, Shows
<1>17. SafeInv'
  <2>1. ASSUME main.ok, fault', job["vt"].abort = 0, NEW p \in Ports, p < q + 1
        PROVE  Relays'[p] = {} \/ failed'[p]
    <3>1. CASE p = q
      BY <1>2, <1>4, <2>1, <3>1
    <3>2. CASE p # q
      <4>1. p < q
        BY <1>1, <2>1, <3>2 DEF Ports
      <4>2. CASE fault
        BY <1>1, <1>2, <1>4, <2>1, <3>2, <4>1, <4>2 DEF OutputInv, SafeInv, q
      <4>3. CASE ~fault
        <5>1. Relays[p] = r \cap Pins(p)
          BY <1>0, <1>1, <1>2, <4>1, <4>3 DEF OutputInv, ProgressInv, q, r
        <5> QED
          BY <1>2, <1>4, <2>1, <3>2, <5>1
      <4> QED
        BY <4>2, <4>3
    <3> QED
      BY <3>1, <3>2
  <2>2. fault' /\ job["vt"].abort # 0 => bus' = "vt" /\ j.next = 1
    <3>1. fault' /\ job["vt"].abort # 0 => ~ok
      BY <1>2, <1>4
    <3>2. j.next \in Int /\ j.last \in Int
      BY <1>1 DEF Jobs
    <3> QED
      BY <1>1, <1>3, <3>1, <3>2
  <2>3. job["vt"].abort = 0 => j.next = q + 1
    BY <1>3
  <2> QED
    BY <1>1, <1>2, <1>6, <2>1, <2>2, <2>3 DEF SafeInv, Ports
<1> QED
  BY <1>11, <1>12, <1>13, <1>14, <1>15, <1>16, <1>17 DEF OutputInv

(* The presses of the operator change no relay; a restart forgets.         *)
LEMMA OperatorOutputs ==
    ASSUME SafetyInv, OutputInv, Operator \/ Restart
    PROVE  OutputInv'
<1> USE DEF SafetyInv
<1>1. ASSUME /\ UNCHANGED <<latch, dir, failed, fault, found, bus, job, seq,
                            sel, main, restarts>>
             /\ vt.pc = "idle" /\ main.pc \in LoopLabels
             /\ \/ UNCHANGED <<mode, vt>>
                \/ ~fault /\ UNCHANGED mode /\ vt'.pc = "group"
                \/ UNCHANGED mode /\ vt'.pc = "navOff"
                \/ ~fault /\ vt'.pc = "plantApply"
      PROVE  OutputInv'
  <2>1. Relays' = Relays /\ bus # "vt"
    BY <1>1, RelaysKept DEF ControlInv, BusInv, RetLabels
  <2>2. OkInv' /\ ProgressInv'
    BY <1>1, <2>1 DEF OutputInv, OkInv, ProgressInv, Threads
  <2>3. BootInv' /\ ColdInv' /\ ActionInv' /\ SafeInv'
    BY <1>1, <2>1 DEF OutputInv, BootInv, ColdInv, ActionInv, SafeInv,
                      LoopLabels, Shows
  <2>4. LitInv' /\ ShownInv'
    BY <1>1, <2>1 DEF OutputInv, LitInv, ShownInv, Agree, Pressed, Explained,
                      Shows
  <2> QED
    BY <2>2, <2>3, <2>4 DEF OutputInv
<1>2. CASE Operator
  <2>1. ASSUME NEW g \in Groups, NEW i \in Actions, PressAction(g, i)
        PROVE  OutputInv'
    BY <1>1, <2>1 DEF PressAction, Serving, boards, hydraulic_actuation_inhibited
  <2>2. CASE Navigate
    BY <1>1, <2>2 DEF Navigate, Serving, boards, VtGoto, TypeOK
  <2>3. ASSUME NEW m \in PlantButtons, PressPlant(m)
        PROVE  OutputInv'
    BY <1>1, <2>3 DEF PressPlant, Serving, boards, VtGoto, TypeOK
  <2> QED
    BY <1>2, <2>1, <2>2, <2>3 DEF Operator
<1>3. CASE Restart
  <2>1. /\ ~fault' /\ bus' = "free" /\ vt'.pc = "idle"
        /\ main'.pc = "probe" /\ main'.k = 1 /\ main'.ok
        /\ seq' = SeqIdle /\ sel'.index = 0
    BY <1>3 DEF Restart, BootStart, MainAt, VtIdle, SelNone
  <2>2. \A t \in Threads : job'[t].ok
    BY <1>3 DEF Restart, Result, Section
  <2>3. restarts' # 0
    BY <1>3, RestartsAssumption DEF Restart, TypeOK
  <2>4. OkInv' /\ ProgressInv' /\ BootInv' /\ ColdInv' /\ ActionInv'
    BY <2>1, <2>2, <2>3
       DEF OkInv, ProgressInv, BootInv, ColdInv, ActionInv, Threads
  <2>5. LitInv' /\ ShownInv' /\ SafeInv'
    BY <2>1 DEF LitInv, Agree, ShownInv, SafeInv, LoopLabels
  <2> QED
    BY <2>4, <2>5 DEF OutputInv
<1> QED
  BY <1>2, <1>3

(* Every step keeps the output invariant.                                  *)
LEMMA OutputStep ==
    ASSUME SafetyInv, OutputInv, [Next]_vars
    PROVE  OutputInv'
<1>1. CASE MainStep
  <2>1. ASSUME NEW ok \in BOOLEAN, NEW took \in BOOLEAN,
               Preload(ok, took) \/ Direct(ok, took)
        PROVE  OutputInv'
    BY <2>1, BootWriteOutputs
  <2>2. ASSUME NEW ok \in BOOLEAN, NEW took \in BOOLEAN,
               WriteRegister("main", ok, took)
        PROVE  OutputInv'
    BY <2>2, MainWriteOutputs
  <2>3. CASE \/ Probe \/ BootOff \/ BootRet \/ CanStart \/ Halted
             \/ plant_control_init \/ PlantInitRet \/ SampleFault
             \/ ExchangeInhibit \/ FaultOff \/ FaultRet \/ FaultReset
             \/ update_lockout_feedback
    BY <2>3, MainOutputs
  <2> QED
    BY <1>1, <2>1, <2>2, <2>3 DEF MainStep
<1>2. CASE VtStep
  BY <1>2, VtWriteOutputs, HandlerOutputs DEF VtStep
<1>3. CASE Operator \/ Restart
  BY <1>3, OperatorOutputs
<1>4. CASE UNCHANGED vars
  BY <1>4, RelaysKept
     DEF vars, boards, OutputInv, OkInv, ProgressInv, BootInv, ColdInv,
         ActionInv, LitInv, ShownInv, SafeInv, Agree, Pressed, Explained, Shows
<1> QED
  BY <1>1, <1>2, <1>3, <1>4 DEF Next

(* It holds when the controller is switched on.                            *)
LEMMA OutputInit == Init => OutputInv
<1> SUFFICES ASSUME Init PROVE OutputInv
  OBVIOUS
<1>1. /\ ~fault /\ bus = "free" /\ vt.pc = "idle"
      /\ main.pc = "probe" /\ main.k = 1 /\ main.ok
      /\ seq = SeqIdle /\ sel.index = 0
  BY DEF Init, BootStart, MainAt, VtIdle, SelNone
<1>2. \A t \in Threads : job[t].ok
  BY DEF Init, Result, Section
<1>3. (\A p \in Ports : ~dir[p]) /\ Shows({})
  BY DEF Init, ColdDir, Shows, Relays, Energised
<1>4. OkInv /\ ProgressInv /\ BootInv /\ ColdInv /\ ActionInv
  BY <1>1, <1>2, <1>3
     DEF OkInv, ProgressInv, BootInv, ColdInv, ActionInv, Threads
<1>5. LitInv /\ ShownInv /\ SafeInv
  BY <1>1 DEF LitInv, Agree, ShownInv, SafeInv, LoopLabels
<1> QED
  BY <1>4, <1>5 DEF OutputInv

(* What the outputs show, at every label of every thread.  The invariant   *)
(* is inductive only together with the control invariant: a write of a row *)
(* needs to know that its handler runs and that the boot is over.          *)
THEOREM OutputInvariant == Spec => [](SafetyInv /\ OutputInv)
<1>1. Init => SafetyInv /\ OutputInv
  BY SafetyInit, OutputInit
<1>2. SafetyInv /\ OutputInv /\ [Next]_vars => (SafetyInv /\ OutputInv)'
  BY TypeStep, ControlStep, OutputStep DEF SafetyInv, ControlInv
<1> QED
  BY <1>1, <1>2, PTL DEF Spec

-----------------------------------------------------------------------------
(* What an operator and a mechanic can rely on.                            *)

(* Ports that show a row of solenoids energise that row.                   *)
LEMMA ShownIsEnergised ==
    ASSUME NEW row \in SUBSET Solenoids, Shows(row)
    PROVE  EnergisedSet = row
<1>1. \A p \in Ports : Energised(p) = row \cap Pins(p)
  BY DEF Shows, Relays
<1>2. Solenoids = UNION {Pins(p) : p \in Ports}
  BY DEF Solenoids, Pins, Ports
<1> QED
  BY <1>1, <1>2 DEF EnergisedSet

(* Mutual exclusion of the actions (fold_sequence.h, "De-energizes all     *)
(* outputs before applying states"): whatever fails and whoever else runs, *)
(* no relay of another row is closed while an action's row is written.     *)
THEOREM ActionsExclusive == Spec => []ActionFromAllOff
<1>1. SafetyInv /\ OutputInv => ActionFromAllOff
  BY DEF SafetyInv, ControlInv, BusInv, OutputInv, ActionInv, ActionFromAllOff,
         FoldOff, Relays
<1> QED
  BY OutputInvariant, <1>1, PTL

(* Fail-safe (apply_solenoid_states and apply_plant_solenoid_states): a    *)
(* port that energises under a fault is one whose switch-off write failed. *)
THEOREM FailSafe == Spec => []FailSafeOff
<1>1. SafetyInv /\ OutputInv => FailSafeOff
  BY DEF OutputInv, SafeInv, FailSafeOff, Relays
<1> QED
  BY OutputInvariant, <1>1, PTL

(* The lit button is the active action between two events of the terminal, *)
(* although the main loop and the handlers set the two under two different *)
(* locks or none.                                                          *)
THEOREM LitMatchesSequence == Spec => []LitIsActive
<1>1. SafetyInv /\ OutputInv => LitIsActive
  BY DEF OutputInv, LitInv, Agree, LitIsActive
<1> QED
  BY OutputInvariant, <1>1, PTL

(* Between two events and without a fault the outputs are a row that some  *)
(* component asked for.                                                    *)
THEOREM OutputsMatchRequests == Spec => []OutputsExplained
<1>1. SafetyInv /\ OutputInv => OutputsExplained
  <2> SUFFICES ASSUME SafetyInv, OutputInv, ~fault, vt.pc = "idle",
                      main.pc \in LoopLabels
               PROVE  \/ EnergisedSet = PlantRow(mode)
                      \/ EnergisedSet = {} /\ seq = SeqIdle
                      \/ /\ seq # SeqIdle
                         /\ EnergisedSet = ActionRow(GroupOf(seq.state), seq.step)
    BY DEF OutputsExplained
  <2>1. Explained
    BY DEF OutputInv, ShownInv
  <2>2. mode \in PlantModes /\ seq.step \in 0..5
    BY DEF SafetyInv, TypeOK
  <2>3. /\ PlantRow(mode) \in SUBSET Solenoids
        /\ {} \in SUBSET Solenoids
        /\ ActionRow(GroupOf(seq.state), seq.step) \in SUBSET Solenoids
    BY <2>2, PlantRowType, ActionRowType DEF GroupOf, Groups
  <2> QED
    BY <2>1, <2>3, ShownIsEnergised DEF Explained
<1> QED
  BY OutputInvariant, <1>1, PTL

(* From power-up to the loop no relay closes, for either trigger polarity  *)
(* and whichever writes fail (fold_sequence_init).                         *)
THEOREM ColdBootIsSilent == Spec => []ColdBootSilent
<1>1. SafetyInv /\ OutputInv => ColdBootSilent
  BY ShownIsEnergised DEF OutputInv, ColdInv, ColdBootSilent
<1> QED
  BY OutputInvariant, <1>1, PTL
=============================================================================
