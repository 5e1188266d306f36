-------------------------- MODULE PlanterHydraulics --------------------------
(***************************************************************************)
(* The hydraulic core of the 1200PT firmware: the two MCP23017 output      *)
(* boards behind one bus mutex, the fold/unfold sequencer, plant control,  *)
(* the operator's handlers and the interlock of the main loop.             *)
(*                                                                         *)
(* Two threads run.  "main" is app_main: it boots the boards and then      *)
(* loops for ever.  "vt" is the thread that delivers the terminal's key    *)
(* and button events, one handler at a time.  They share the output ports  *)
(* (under outputBusMutex), the fault latch and the inhibit flag (atomics), *)
(* the button selection (under uiMutex) and, with no lock at all, the      *)
(* statics currentState and currentStep of fold_sequence.cpp.  A step of   *)
(* a thread is at most one access to one of these.                         *)
(*                                                                         *)
(* Every register write may fail, and a write that reports failure may     *)
(* have reached the chip or not.  The controller may restart at any time:  *)
(* its memory starts afresh, the expanders keep their registers.           *)
(***************************************************************************)
EXTENDS SolenoidOutputs

CONSTANTS
    Actions,        \* the step numbers of the action buttons pressed
    PlantButtons,   \* the modes of the plant buttons pressed
    MaxRestarts     \* bound on the restarts of the controller

ASSUME ActionsAssumption == Actions \subseteq Steps
ASSUME PlantAssumption == PlantButtons \subseteq PlantModes \ {"IDLE"}
ASSUME RestartsAssumption == MaxRestarts \in Nat

VARIABLES
    latch,      \* [Ports -> pins driven high]: GPIO/OLAT of the expanders
    dir,        \* [Ports -> BOOLEAN]: IODIR cleared, the port drives its pins
    failed,     \* [Ports -> BOOLEAN]: history, the last write to the port failed
    fault,      \* OutputBoardHealth::faulted
    found,      \* OutputBoardHealth::boardFound
    bus,        \* outputBusMutex: "free" or the thread that holds it
    job,        \* [Threads -> the register writes of the critical section]
    seq,        \* currentState and currentStep of fold_sequence.cpp
    mode,       \* currentStatus.currentMode of plant_control.cpp
    sel,        \* actionSelection: the lit action button, index 0 = none
    inhibited,  \* hydraulicActuationInhibited
    locked,     \* lockoutFeedback: [Groups -> the lockout text is shown]
    vt,         \* handler being run: label, and the button it was called for
    main,       \* app_main: label and locals; in the loop, ok = clean boot
    restarts    \* restarts so far

boards == <<latch, dir, failed>>
vars == <<latch, dir, failed, fault, found, bus, job, seq, mode, sel,
          inhibited, locked, vt, main, restarts>>

Threads == {"vt", "main"}

SeqStates == {"IDLE", "FOLD_ACTIVE", "UNFOLD_ACTIVE"}

SeqIdle == [state |-> "IDLE", step |-> 0]

SeqOf(g, i) == [state |-> IF g = "Fold" THEN "FOLD_ACTIVE"
                                        ELSE "UNFOLD_ACTIVE",
                step  |-> i - 1]

SelNone == [group |-> "Unfold", index |-> 0]

(* The group a sequence state belongs to (either one when idle).           *)
GroupOf(s) == IF s = "FOLD_ACTIVE" THEN "Fold" ELSE "Unfold"

Other(g) == IF g = "Fold" THEN "Unfold" ELSE "Fold"

BootLabels == {"probe", "preload", "direct", "bootOff", "bootRet", "can",
               "plantInit", "plantRet"}
LoopLabels == {"loop", "exchange", "faultOff", "faultRet", "faultReset",
               "feedback"}
MainLabels == BootLabels \cup LoopLabels \cup {"halted"}

VtLabels == {"idle", "group", "groupReset", "groupOff", "groupRet", "lit",
             "toggleOff", "toggleRet", "actOff", "actRet", "actApply",
             "applyRet", "visual", "navOff", "navRet", "navReset",
             "plantApply", "plantRet"}

-----------------------------------------------------------------------------
(* What the relays do.                                                     *)

Energised(p) == IF dir[p] THEN relay_output_byte(p, latch[p]) ELSE {}

EnergisedSet == UNION {Energised(p) : p \in Ports}

-----------------------------------------------------------------------------
(* Critical sections of outputBusMutex.  A section writes ports next..last *)
(* with the bits of row.  abort # 0 marks an apply: its first failure      *)
(* turns it into an all-off of ports 1..abort; an all-off goes on after a  *)
(* failure and reports it at the end.                                      *)

FoldOff  == 4       \* write_all_off_locked writes the four ports
PlantOff == 3       \* write_plant_all_off_locked leaves out #2 port B
LastUsed == 3       \* both apply routines write three ports

Section(row, next, last, abort, ok) ==
    [row |-> row, next |-> next, last |-> last, abort |-> abort, ok |-> ok]

AllOff(last) == Section({}, 1, last, 0, TRUE)

Apply(row, abort) == Section(row, 1, LastUsed, abort, TRUE)

(* What is left of a section that has ended: its return value.             *)
Result(ok) == Section({}, 1, LastUsed, 0, ok)

(* MCP23017OutputLock: xSemaphoreTake with no timeout.                     *)
Lock(t, j) ==
    /\ bus = "free"
    /\ bus' = t
    /\ job' = [job EXCEPT ![t] = j]

(* Wrong variant: an apply that fails stops where it is, nothing off.     *)
NextJob_NoAllOff(j, ok) ==
    Section(j.row, IF ok THEN j.next + 1 ELSE j.last + 1, j.last, j.abort,
            j.ok /\ ok)

NextJob(j, ok) ==
    IF ok THEN Section(j.row, j.next + 1, j.last, j.abort, j.ok)
    ELSE IF j.abort # 0 THEN Section({}, 1, j.abort, 0, FALSE)
    ELSE Section(j.row, j.next + 1, j.last, 0, FALSE)

(* One register write of the chip; took says whether a write that reports  *)
(* failure reached the register all the same.                              *)
WritePort(p, bits, ok, took) ==
    /\ ok => took
    /\ latch' = IF took THEN [latch EXCEPT ![p] = relay_output_byte(p, bits)]
                        ELSE latch
    /\ failed' = [failed EXCEPT ![p] = ~ok]
    /\ fault' = (fault \/ ~ok)

(* Wrong variant: a section with a failed write never gives the mutex back.*)
WriteRegister_NoGive(t, ok, took) ==
    /\ bus = t
    /\ WritePort(job[t].next, job[t].row, ok, took)
    /\ LET j == NextJob(job[t], ok)
       IN  IF j.next > j.last
           THEN /\ bus' = IF j.ok THEN "free" ELSE "lost"
                /\ job' = [job EXCEPT ![t] = Result(j.ok)]
           ELSE bus' = bus /\ job' = [job EXCEPT ![t] = j]
    /\ UNCHANGED <<dir, found, seq, mode, sel, inhibited, locked, vt, main,
                   restarts>>

WriteRegister(t, ok, took) ==
    /\ bus = t
    /\ WritePort(job[t].next, job[t].row, ok, took)
    /\ LET j == NextJob(job[t], ok)
       IN  IF j.next > j.last
           THEN bus' = "free" /\ job' = [job EXCEPT ![t] = Result(j.ok)]
           ELSE bus' = bus /\ job' = [job EXCEPT ![t] = j]
    /\ UNCHANGED <<dir, found, seq, mode, sel, inhibited, locked, vt, main,
                   restarts>>

Done(t) == bus # t

-----------------------------------------------------------------------------
(* Boot: fold_sequence_init and plant_control_init.  The CAN stack is not  *)
(* up yet, so no handler runs and the mutex is never contended; the        *)
(* register writes of fold_sequence_init are taken one by one (main.k).    *)

MainAt(l) == [pc |-> l, k |-> 1, ok |-> TRUE, avail |-> FALSE]

BootStart == MainAt("probe")

(* I2C set-up and the two probes; a set-up failure counts both as missing. *)
Probe ==
    /\ main.pc = "probe"
    /\ \E f \in [0..1 -> BOOLEAN] :
          /\ found' = f
          /\ fault' = (\E b \in 0..1 : ~f[b])
    /\ main' = [main EXCEPT !.pc = "preload"]
    /\ UNCHANGED <<boards, bus, job, seq, mode, sel, inhibited, locked, vt,
                   restarts>>

(* Wrong variant: the reset value of the latches is taken for "off".       *)
PreloadPort_Skipped(k, ok, took) ==
    ok /\ took /\ UNCHANGED <<latch, failed, fault>>

(* The latch of port k is preloaded if its board answered; port B of board *)
(* #1 only if the write to its port A succeeded.                           *)
PreloadPort(k, ok, took) ==
    IF found[BoardOf(k)] /\ (k = 2 => main.ok)
    THEN WritePort(k, {}, ok, took)
    ELSE ok /\ took /\ UNCHANGED <<latch, failed, fault>>

Preload(ok, took) ==
    /\ main.pc = "preload"
    /\ PreloadPort(main.k, ok, took)
    /\ main' = IF main.k < 4
               THEN [main EXCEPT !.k = @ + 1, !.ok = @ /\ ok]
               ELSE IF fault' \/ ~ok \/ ~main.ok
                    THEN MainAt("can")
                    ELSE MainAt("direct")
    /\ UNCHANGED <<dir, found, bus, job, seq, mode, sel, inhibited, locked,
                   vt, restarts>>

(* IODIR of the four ports; the first failure ends the initialisation.     *)
Direct(ok, took) ==
    /\ main.pc = "direct"
    /\ ok => took
    /\ dir' = [dir EXCEPT ![main.k] = @ \/ took]
    /\ fault' = (fault \/ ~ok)
    /\ main' = IF ~ok THEN MainAt("can")
               ELSE IF main.k < 4 THEN [main EXCEPT !.k = @ + 1]
               ELSE MainAt("bootOff")
    /\ UNCHANGED <<latch, failed, found, bus, job, seq, mode, sel, inhibited,
                   locked, vt, restarts>>

BootOff ==
    /\ main.pc = "bootOff"
    /\ Lock("main", AllOff(FoldOff))
    /\ main' = [main EXCEPT !.pc = "bootRet"]
    /\ UNCHANGED <<boards, fault, found, seq, mode, sel, inhibited, locked,
                   vt, restarts>>

BootRet ==
    /\ main.pc = "bootRet" /\ Done("main")
    /\ main' = [main EXCEPT !.pc = "can"]
    /\ UNCHANGED <<boards, fault, found, bus, job, seq, mode, sel, inhibited,
                   locked, vt, restarts>>

(* SPI and CAN bring-up: app_main stops here if it fails.                  *)
CanStart ==
    /\ main.pc = "can"
    /\ \E up \in BOOLEAN :
          main' = [main EXCEPT !.pc = IF up THEN "plantInit" ELSE "halted"]
    /\ UNCHANGED <<boards, fault, found, bus, job, seq, mode, sel, inhibited,
                   locked, vt, restarts>>

(* The loop that only sleeps after a failed bring-up.                      *)
Halted == main.pc = "halted" /\ UNCHANGED vars

plant_control_init ==
    /\ main.pc = "plantInit"
    /\ mode' = "IDLE"
    /\ IF fault
       THEN /\ main' = [main EXCEPT !.pc = "loop", !.ok = FALSE]
            /\ UNCHANGED <<bus, job>>
       ELSE /\ Lock("main", AllOff(PlantOff))
            /\ main' = [main EXCEPT !.pc = "plantRet"]
    /\ UNCHANGED <<boards, fault, found, seq, sel, inhibited, locked, vt,
                   restarts>>

PlantInitRet ==
    /\ main.pc = "plantRet" /\ Done("main")
    /\ main' = [main EXCEPT !.pc = "loop", !.ok = ~fault]
    /\ UNCHANGED <<boards, fault, found, bus, job, seq, mode, sel, inhibited,
                   locked, vt, restarts>>

-----------------------------------------------------------------------------
(* The main loop: sample the fault latch, publish the inhibit flag, and    *)
(* cancel once when the inhibit is new.                                    *)

SampleFault ==
    /\ main.pc = "loop"
    /\ main' = [main EXCEPT !.pc = "exchange", !.avail = ~fault]
    /\ UNCHANGED <<boards, fault, found, bus, job, seq, mode, sel, inhibited,
                   locked, vt, restarts>>

(* Wrong variant: the flag is published and nothing is cancelled.          *)
ExchangeInhibit_NoCancel ==
    /\ main.pc = "exchange"
    /\ inhibited' = ~main.avail
    /\ main' = [main EXCEPT !.pc = "feedback"]
    /\ UNCHANGED <<boards, fault, found, bus, job, seq, mode, sel, locked,
                   vt, restarts>>

ExchangeInhibit ==
    /\ main.pc = "exchange"
    /\ inhibited' = ~main.avail
    /\ main' = [main EXCEPT !.pc = IF ~main.avail /\ ~inhibited
                                   THEN "faultOff" ELSE "feedback"]
    /\ UNCHANGED <<boards, fault, found, bus, job, seq, mode, sel, locked,
                   vt, restarts>>

FaultOff ==
    /\ main.pc = "faultOff"
    /\ Lock("main", AllOff(FoldOff))
    /\ main' = [main EXCEPT !.pc = "faultRet"]
    /\ UNCHANGED <<boards, fault, found, seq, mode, sel, inhibited, locked,
                   vt, restarts>>

FaultRet ==
    /\ main.pc = "faultRet" /\ Done("main")
    /\ seq' = SeqIdle
    /\ main' = [main EXCEPT !.pc = "faultReset"]
    /\ UNCHANGED <<boards, fault, found, bus, job, mode, sel, inhibited,
                   locked, vt, restarts>>

(* Wrong variant: the lit button stays lit.                                *)
Cleared_Kept(s) == s

(* ActionSelection::clear keeps the group and zeroes the index.            *)
Cleared(s) == [s EXCEPT !.index = 0]

FaultReset ==
    /\ main.pc = "faultReset"
    /\ sel' = Cleared(sel)
    /\ main' = [main EXCEPT !.pc = "feedback"]
    /\ UNCHANGED <<boards, fault, found, bus, job, seq, mode, inhibited,
                   locked, vt, restarts>>

(* update_lockout_feedback: while the boards are faulted both screens show *)
(* the lockout text, otherwise neither does.                               *)
update_lockout_feedback ==
    /\ main.pc = "feedback"
    /\ locked' = [g \in Groups |-> fault]
    /\ main' = [main EXCEPT !.pc = "loop"]
    /\ UNCHANGED <<boards, fault, found, bus, job, seq, mode, sel, inhibited,
                   vt, restarts>>

-----------------------------------------------------------------------------
(* The terminal's handlers.  An event needs the terminal connection, which *)
(* takes an address claim and a pool upload after app_main has reached its *)
(* loop.                                                                   *)

(* Wrong variant: the flag of the main loop alone, read up to 100 ms late. *)
inhibited_FlagOnly == inhibited

hydraulic_actuation_inhibited == inhibited \/ fault

(* show_blocked_press: the lockout text, if there is a reason for one.     *)
show_blocked_press(g) ==
    locked' = IF fault THEN [locked EXCEPT ![g] = TRUE] ELSE locked

VtIdle == [pc |-> "idle", group |-> "Unfold", index |-> 0]

VtGoto(l) == vt' = [vt EXCEPT !.pc = l]

VtReturn == vt' = VtIdle

Serving == main.pc \in LoopLabels /\ vt.pc = "idle"

(* handle_fold_action_button and handle_unfold_action_button.              *)
PressAction(g, i) ==
    /\ Serving
    /\ IF hydraulic_actuation_inhibited
       THEN show_blocked_press(g) /\ UNCHANGED vt
       ELSE /\ vt' = [pc |-> "group", group |-> g, index |-> i]
            /\ UNCHANGED locked
    /\ UNCHANGED <<boards, fault, found, bus, job, seq, mode, sel, inhibited,
                   main, restarts>>

(* is_action_group_active of the other group.                              *)
CheckGroup ==
    /\ vt.pc = "group"
    /\ VtGoto(IF sel.index # 0 /\ sel.group = Other(vt.group)
              THEN "groupReset" ELSE "lit")
    /\ UNCHANGED <<boards, fault, found, bus, job, seq, mode, sel, inhibited,
                   locked, main, restarts>>

(* reset_action_buttons, from the handler or from a change of screen.      *)
reset_action_buttons(from, to) ==
    /\ vt.pc = from
    /\ sel' = Cleared(sel)
    /\ IF to = "idle" THEN VtReturn ELSE VtGoto(to)
    /\ UNCHANGED <<boards, fault, found, bus, job, seq, mode, inhibited,
                   locked, main, restarts>>

(* fold_sequence_cancel, first half: fold_sequence_all_off under the lock. *)
CancelOff(from, to) ==
    /\ vt.pc = from
    /\ Lock("vt", AllOff(FoldOff))
    /\ VtGoto(to)
    /\ UNCHANGED <<boards, fault, found, seq, mode, sel, inhibited, locked,
                   main, restarts>>

(* Second half: the statics are reset whatever the writes returned; the    *)
(* caller goes on only if they all succeeded.                              *)
CancelRet(from, to) ==
    /\ vt.pc = from /\ Done("vt")
    /\ seq' = SeqIdle
    /\ IF job["vt"].ok
       THEN VtGoto(to) /\ UNCHANGED locked
       ELSE VtReturn /\ show_blocked_press(vt.group)
    /\ UNCHANGED <<boards, fault, found, bus, job, mode, sel, inhibited,
                   main, restarts>>

(* is_action_lit: pressing the lit button is the safe-stop toggle.         *)
CheckLit ==
    /\ vt.pc = "lit"
    /\ VtGoto(IF sel.index = vt.index /\ sel.group = vt.group
              THEN "toggleOff" ELSE "actOff")
    /\ UNCHANGED <<boards, fault, found, bus, job, seq, mode, sel, inhibited,
                   locked, main, restarts>>

(* Wrong variant: the new row is applied over the old one.                 *)
ActivateOff_Skipped ==
    /\ vt.pc = "actOff"
    /\ seq' = SeqOf(vt.group, vt.index)
    /\ VtGoto("actApply")
    /\ UNCHANGED <<boards, fault, found, bus, job, mode, sel, inhibited,
                   locked, main, restarts>>

(* fold_sequence_activate_*_action: all off, then the statics, then apply. *)
ActivateOff ==
    /\ vt.pc = "actOff"
    /\ Lock("vt", AllOff(FoldOff))
    /\ VtGoto("actRet")
    /\ UNCHANGED <<boards, fault, found, seq, mode, sel, inhibited, locked,
                   main, restarts>>

ActivateSet ==
    /\ vt.pc = "actRet" /\ Done("vt")
    /\ IF job["vt"].ok
       THEN /\ seq' = SeqOf(vt.group, vt.index)
            /\ VtGoto("actApply")
            /\ UNCHANGED locked
       ELSE /\ VtReturn
            /\ show_blocked_press(vt.group)
            /\ UNCHANGED seq
    /\ UNCHANGED <<boards, fault, found, bus, job, mode, sel, inhibited,
                   main, restarts>>

(* The row is looked up with the shared currentStep.                       *)
ActivateApply ==
    /\ vt.pc = "actApply"
    /\ Lock("vt", Apply(ActionRow(vt.group, seq.step), FoldOff))
    /\ VtGoto("applyRet")
    /\ UNCHANGED <<boards, fault, found, seq, mode, sel, inhibited, locked,
                   main, restarts>>

ActivateRet ==
    /\ vt.pc = "applyRet" /\ Done("vt")
    /\ IF job["vt"].ok
       THEN /\ VtGoto("visual")
            /\ UNCHANGED <<seq, locked>>
       ELSE /\ seq' = SeqIdle
            /\ VtReturn
            /\ show_blocked_press(vt.group)
    /\ UNCHANGED <<boards, fault, found, bus, job, mode, sel, inhibited,
                   main, restarts>>

(* press_action_visual: ActionSelection::press toggles.                    *)
press_action_visual ==
    /\ vt.pc = "visual"
    /\ sel' = IF sel.index = vt.index /\ sel.group = vt.group
              THEN Cleared(sel)
              ELSE [group |-> vt.group, index |-> vt.index]
    /\ VtReturn
    /\ UNCHANGED <<boards, fault, found, bus, job, seq, mode, inhibited,
                   locked, main, restarts>>

(* A soft key or a tab button: cancel (its result is ignored), clear the   *)
(* lit button and show another screen.                                     *)
Navigate ==
    /\ Serving
    /\ VtGoto("navOff")
    /\ UNCHANGED <<boards, fault, found, bus, job, seq, mode, sel, inhibited,
                   locked, main, restarts>>

(* Wrong variant: leaving the screen switches off, the statics stay.       *)
NavigateRet_StaleState ==
    /\ vt.pc = "navRet" /\ Done("vt")
    /\ VtGoto("navReset")
    /\ UNCHANGED <<boards, fault, found, bus, job, seq, mode, sel, inhibited,
                   locked, main, restarts>>

NavigateRet ==
    /\ vt.pc = "navRet" /\ Done("vt")
    /\ seq' = SeqIdle
    /\ VtGoto("navReset")
    /\ UNCHANGED <<boards, fault, found, bus, job, mode, sel, inhibited,
                   locked, main, restarts>>

(* Plant buttons: they look at the fault latch only, and set the mode      *)
(* before the write.                                                       *)
PressPlant(m) ==
    /\ Serving
    /\ IF fault
       THEN show_blocked_press("Fold") /\ UNCHANGED <<mode, vt>>
       ELSE /\ mode' = m
            /\ VtGoto("plantApply")
            /\ UNCHANGED locked
    /\ UNCHANGED <<boards, fault, found, bus, job, seq, sel, inhibited, main,
                   restarts>>

PlantApply ==
    /\ vt.pc = "plantApply"
    /\ Lock("vt", Apply(PlantRow(mode), PlantOff))
    /\ VtGoto("plantRet")
    /\ UNCHANGED <<boards, fault, found, seq, mode, sel, inhibited, locked,
                   main, restarts>>

PlantRet ==
    /\ vt.pc = "plantRet" /\ Done("vt")
    /\ VtReturn
    /\ IF job["vt"].ok THEN UNCHANGED locked ELSE show_blocked_press("Fold")
    /\ UNCHANGED <<boards, fault, found, bus, job, seq, mode, sel, inhibited,
                   main, restarts>>

-----------------------------------------------------------------------------
(* The controller restarts.  A warm restart (watchdog, panic, brown-out of *)
(* the ESP32) leaves the expanders' registers as they are; a power cycle   *)
(* resets them: every latch low, every port an input.                      *)

ColdLatch == [p \in Ports |-> {}]
ColdDir   == [p \in Ports |-> FALSE]

Restart ==
    /\ restarts < MaxRestarts
    /\ restarts' = restarts + 1
    /\ \/ UNCHANGED <<latch, dir>>
       \/ latch' = ColdLatch /\ dir' = ColdDir
    /\ failed' = [p \in Ports |-> FALSE]
    /\ fault' = FALSE
    /\ found' = [b \in 0..1 |-> FALSE]
    /\ bus' = "free"
    /\ job' = [t \in Threads |-> Result(TRUE)]
    /\ seq' = SeqIdle
    /\ mode' = "IDLE"
    /\ sel' = SelNone
    /\ inhibited' = TRUE
    /\ locked' = [g \in Groups |-> FALSE]
    /\ vt' = VtIdle
    /\ main' = BootStart

Init ==
    /\ latch = ColdLatch
    /\ dir = ColdDir
    /\ failed = [p \in Ports |-> FALSE]
    /\ fault = FALSE
    /\ found = [b \in 0..1 |-> FALSE]
    /\ bus = "free"
    /\ job = [t \in Threads |-> Result(TRUE)]
    /\ seq = SeqIdle
    /\ mode = "IDLE"
    /\ sel = SelNone
    /\ inhibited = TRUE
    /\ locked = [g \in Groups |-> FALSE]
    /\ vt = VtIdle
    /\ main = BootStart
    /\ restarts = 0

MainStep ==
    \/ Probe
    \/ \E ok, took \in BOOLEAN :
          Preload(ok, took) \/ Direct(ok, took)
          \/ WriteRegister("main", ok, took)
    \/ BootOff \/ BootRet \/ CanStart \/ Halted \/ plant_control_init
    \/ PlantInitRet
    \/ SampleFault \/ ExchangeInhibit \/ FaultOff \/ FaultRet \/ FaultReset
    \/ update_lockout_feedback

VtStep ==
    \/ \E ok, took \in BOOLEAN : WriteRegister("vt", ok, took)
    \/ CheckGroup
    \/ reset_action_buttons("groupReset", "groupOff")
    \/ CancelOff("groupOff", "groupRet")
    \/ CancelRet("groupRet", "lit")
    \/ CheckLit
    \/ CancelOff("toggleOff", "toggleRet")
    \/ CancelRet("toggleRet", "visual")
    \/ ActivateOff \/ ActivateSet \/ ActivateApply \/ ActivateRet
    \/ press_action_visual
    \/ CancelOff("navOff", "navRet")
    \/ NavigateRet
    \/ reset_action_buttons("navReset", "idle")
    \/ PlantApply \/ PlantRet

Operator ==
    \/ \E g \in Groups, i \in Actions : PressAction(g, i)
    \/ Navigate
    \/ \E m \in PlantButtons : PressPlant(m)

Next == MainStep \/ VtStep \/ Operator \/ Restart

Spec == Init /\ [][Next]_vars

(* Both threads are scheduled, the mutex is handed over in turn (FreeRTOS  *)
(* mutexes queue their waiters) and an I2C transaction ends within its     *)
(* 100 ms timeout.  The operator and restarts owe nothing.                 *)
FairSpec == Spec /\ SF_vars(MainStep) /\ SF_vars(VtStep)
-----------------------------------------------------------------------------
(* Properties.                                                             *)

Jobs == [row : SUBSET Solenoids, next : 1..5, last : 3..4, abort : {0, 3, 4},
         ok : BOOLEAN]

(* Every variable has its type; a sequence step is a row of its table.     *)
TypeOK ==
    /\ latch \in [Ports -> SUBSET Solenoids]
    /\ dir \in [Ports -> BOOLEAN]
    /\ failed \in [Ports -> BOOLEAN]
    /\ fault \in BOOLEAN
    /\ found \in [0..1 -> BOOLEAN]
    /\ bus \in Threads \cup {"free"}
    /\ job \in [Threads -> Jobs]
    /\ seq \in [state : SeqStates, step : 0..5]
    /\ mode \in PlantModes
    /\ sel \in [group : Groups, index : 0..6]
    /\ inhibited \in BOOLEAN
    /\ locked \in [Groups -> BOOLEAN]
    /\ vt \in [pc : VtLabels, group : Groups, index : 0..6]
    /\ main \in [pc : MainLabels, k : 1..4, ok : BOOLEAN, avail : BOOLEAN]
    /\ restarts \in 0..MaxRestarts

(* Mutual exclusion of the actions (fold_sequence.h, "De-energizes all     *)
(* outputs before applying states"): while an action's row is being        *)
(* written, no port holds anything but that row or nothing.                *)
ActionFromAllOff ==
    (bus = "vt" /\ job["vt"].abort = FoldOff) =>
        \A p \in Ports : Energised(p) \in {{}, job["vt"].row \cap Pins(p)}

(* The interlock (main.cpp, hydraulic_actuation_inhibited): from the write *)
(* failure on, whichever thread runs, no step energises a solenoid.        *)
NoEnergiseUnderFault ==
    [][fault /\ fault' => EnergisedSet' \subseteq EnergisedSet]_vars

(* Fail-safe: after a clean boot, once a fault is latched and nobody is in *)
(* the middle of its writes, a port that still energises a solenoid is one *)
(* whose own switch-off write failed (apply_solenoid_states and            *)
(* apply_plant_solenoid_states switch everything off on a failure).        *)
FailSafeOff ==
    (main.pc \in LoopLabels /\ main.ok /\ fault /\ bus = "free") =>
        \A p \in Ports : Energised(p) = {} \/ failed[p]

(* The main loop has acted on the inhibit it published.                    *)
Settled == inhibited /\ main.pc \in {"loop", "exchange", "feedback"}

(* A lockout sticks: once the main loop has acted on a fault no handler in *)
(* flight brings an action or a lit button back.                           *)
LockoutSticks ==
    (fault /\ Settled) => seq = SeqIdle /\ sel.index = 0

(* What the operator sees is what the sequencer does: between two events   *)
(* and without a fault, the lit button is the active action, and nothing   *)
(* is lit when no action is active.                                        *)
LitIsActive ==
    (~fault /\ vt.pc = "idle") =>
        seq = IF sel.index = 0 THEN SeqIdle ELSE SeqOf(sel.group, sel.index)

(* Between two events and without a fault the outputs are exactly a row    *)
(* some component asked for: the active action's, the plant mode's or none.*)
OutputsExplained ==
    (~fault /\ vt.pc = "idle" /\ main.pc \in LoopLabels) =>
        \/ EnergisedSet = PlantRow(mode)
        \/ EnergisedSet = {} /\ seq = SeqIdle
        \/ /\ seq # SeqIdle
           /\ EnergisedSet = ActionRow(GroupOf(seq.state), seq.step)

(* From power-up to the loop no relay closes, whatever the trigger         *)
(* polarity and whichever writes fail (fold_sequence_init preloads the     *)
(* latches before it makes the ports outputs).                             *)
ColdBootSilent ==
    (restarts = 0 /\ main.pc \notin LoopLabels) => EnergisedSet = {}

LockedOut == inhibited /\ seq = SeqIdle /\ sel.index = 0
             /\ \A g \in Groups : locked[g]

(* A fault that occurs in operation ends in the lockout: action cancelled, *)
(* no button lit, the lockout text on both screens (main loop, or a        *)
(* restart before it got there).                                           *)
FaultLeadsToLockout ==
    (fault /\ main.pc \in LoopLabels)
        ~> (LockedOut \/ main.pc \notin LoopLabels)

(* Every handler returns: no write failure and no wait for the bus leaves  *)
(* the event thread stuck.                                                 *)
HandlerReturns == (vt.pc # "idle") ~> (vt.pc = "idle")

(* fold_sequence.cpp says of the start-up "Preload safe logical OFF values *)
(* into the latches before configuring outputs": when the boot is over,    *)
(* every port of a board that answered is off or its own write failed.     *)
PreloadReachesEveryPort ==
    (main.pc = "can" /\ \A b \in 0..1 : found[b]) =>
        \A p \in Ports : Energised(p) = {} \/ failed[p]
=============================================================================
