-------------------------- MODULE CalibrationStore --------------------------
(***************************************************************************)
(* The calibration points and the bulk-fill headland flag of the 1200PT:   *)
(* calibration_settings.h, and in main.cpp the storage, the save handlers  *)
(* and the part of update_display_values that derives calPosition, the     *)
(* value every save stores.                                                *)
(*                                                                         *)
(* "vt" runs one handler at a time, "main" the display update; the         *)
(* controller may restart at any moment.  The flash store (ESP-IDF NVS) is *)
(* external: a value set is durable after a commit, and may or may not be  *)
(* when the controller restarts before one; both calls may fail.           *)
(***************************************************************************)
EXTENDS Integers

CONSTANTS
    Buttons,        \* the keys in play: the others are never set or stored
    Actions,        \* the steps of the fold and unfold actions started
    StoredBytes,    \* what the flash may hold of a key at the first boot
    MaxRestarts     \* bound on the restarts of the controller

NotStored == 256        \* the key is missing; above every byte

Points == {"FullRaise", "LimitedRaise", "StartPlant", "StopPlant"}
Headland == "BulkFillHeadland"
Keys == Points \cup {Headland}

ASSUME ButtonsAssumption == Buttons \subseteq Keys
ASSUME ActionsAssumption == Actions \subseteq 1..6
ASSUME StoredAssumption == StoredBytes \subseteq 0..NotStored
ASSUME RestartsAssumption == MaxRestarts \in Nat

MAX_PERCENT == 100

VARIABLES
    store,      \* [Keys -> 0..256]: what a restart finds in the flash
    staged,     \* [Keys -> 0..256]: set and not committed, NotStored if none
    ready,      \* calibrationNvsReady
    ram,        \* calibrationPoints and bulkFillHeadland
    dirty,      \* history: a save failed or a read was incomplete since the boot
    fellBack,   \* history: of a pair out of order in the flash at the boot, the
                \* points whose defaults only memory holds
    active,     \* the sequencer's state and 1-based action, "IDLE" and 0
    calPosition,
    disp,       \* update_display_values: label and the state it has read
    save,       \* persist_calibration_value: label, arguments, outcome
    restarts

vars == <<store, staged, ready, ram, dirty, fellBack, active, calPosition, disp,
          save, restarts>>

-----------------------------------------------------------------------------
(* calibration_settings.h                                                  *)

Default(k) == IF k = "FullRaise" THEN 95
              ELSE IF k = "LimitedRaise" THEN 75
              ELSE IF k = "StartPlant" THEN 15
              ELSE 0

Limit(k) == IF k = Headland THEN 1 ELSE MAX_PERCENT

(* Wrong variant: any stored byte is accepted.                             *)
load_value_Unchecked(k, byte) == IF byte = NotStored THEN Default(k) ELSE byte

load_value(k, byte) == IF byte > Limit(k) THEN Default(k) ELSE byte

Loaded(read) == [k \in Keys |-> load_value(k, read[k])]

Pair == {"StartPlant", "StopPlant"}

Ordered(points) == points["StopPlant"] <= points["StartPlant"]

(* The points load_points replaces in memory and leaves in the flash.      *)
OutOfOrder(read) == IF Ordered(Loaded(read)) THEN {} ELSE Pair

(* load_points and load_bulk_fill_headland.                                *)
load_points(read) ==
    IF Ordered(Loaded(read))
    THEN Loaded(read)
    ELSE [Loaded(read) EXCEPT !["StartPlant"] = Default("StartPlant"),
                              !["StopPlant"] = Default("StopPlant")]

(* Wrong variant: only a new start is compared with the other point.       *)
InvalidOrder_StartOnly(k, new, points) ==
    k = "StartPlant" /\ new < points["StopPlant"]

InvalidOrder(k, new, points) ==
    \/ k = "StartPlant" /\ new < points["StopPlant"]
    \/ k = "StopPlant" /\ new > points["StartPlant"]

-----------------------------------------------------------------------------
(* The flash.                                                              *)

(* What the flash holds after the keys of flushed became durable.          *)
Flushed(flushed) == [k \in Keys |-> IF k \in flushed THEN staged[k] ELSE store[k]]

Pending == {k \in Keys : staged[k] # NotStored}

NothingStaged == [k \in Keys |-> NotStored]

-----------------------------------------------------------------------------
(* The save handlers.                                                      *)

SaveDone == [pc |-> "idle", key |-> Headland, value |-> 0, failed |-> FALSE]

SaveFailed(k) == [pc |-> "idle", key |-> k, value |-> 0, failed |-> TRUE]

(* save_calibration_point up to the first call of the store; a press of    *)
(* the headland button saves the other value.                              *)
PressSave(k) ==
    LET new == IF k = Headland THEN 1 - ram[k] ELSE calPosition
    IN  /\ save.pc = "idle"
        /\ save' = IF new > MAX_PERCENT \/ InvalidOrder(k, new, ram)
                   THEN SaveDone
                   ELSE IF ~ready THEN SaveFailed(k)
                   ELSE [pc |-> "set", key |-> k, value |-> new,
                         failed |-> FALSE]
        /\ UNCHANGED <<store, staged, ready, ram, dirty, fellBack, active,
                       calPosition, disp, restarts>>

SetValue(ok) ==
    /\ save.pc = "set"
    /\ IF ok
       THEN /\ staged' = [staged EXCEPT ![save.key] = save.value]
            /\ save' = [save EXCEPT !.pc = "commit"]
       ELSE /\ save' = SaveFailed(save.key)
            /\ UNCHANGED staged
    /\ UNCHANGED <<store, ready, ram, dirty, fellBack, active, calPosition, disp,
                   restarts>>

(* Wrong variant: memory follows a value that is only staged.              *)
Commit_Forgotten(ok) ==
    /\ save.pc = "commit" /\ ok
    /\ ram' = [ram EXCEPT ![save.key] = save.value]
    /\ save' = SaveDone
    /\ UNCHANGED <<store, staged, ready, dirty, fellBack, active, calPosition,
                   disp, restarts>>

(* nvs_commit makes everything staged durable; memory follows on success.  *)
Commit(ok) ==
    /\ save.pc = "commit"
    /\ IF ok
       THEN /\ store' = Flushed(Pending)
            /\ staged' = NothingStaged
            /\ ram' = [ram EXCEPT ![save.key] = save.value]
            /\ save' = SaveDone
            /\ fellBack' = fellBack \ {save.key}
            /\ UNCHANGED dirty
       ELSE /\ \E flushed \in SUBSET Pending : store' = Flushed(flushed)
            /\ dirty' = TRUE
            /\ save' = [save EXCEPT !.pc = "undo"]
            /\ UNCHANGED <<staged, ram, fellBack>>
    /\ UNCHANGED <<ready, active, calPosition, disp, restarts>>

(* The way back after a failed commit: set and commit the previous value.  *)
UndoSet(ok) ==
    /\ save.pc = "undo"
    /\ IF ok
       THEN /\ staged' = [staged EXCEPT ![save.key] = ram[save.key]]
            /\ save' = [save EXCEPT !.pc = "recommit"]
       ELSE /\ save' = SaveFailed(save.key)
            /\ UNCHANGED staged
    /\ UNCHANGED <<store, ready, ram, dirty, fellBack, active, calPosition, disp,
                   restarts>>

UndoCommit(ok) ==
    /\ save.pc = "recommit"
    /\ IF ok
       THEN store' = Flushed(Pending) /\ staged' = NothingStaged
       ELSE /\ \E flushed \in SUBSET Pending : store' = Flushed(flushed)
            /\ UNCHANGED staged
    /\ save' = SaveFailed(save.key)
    /\ UNCHANGED <<ready, ram, dirty, fellBack, active, calPosition, disp,
                   restarts>>

-----------------------------------------------------------------------------
(* The sequencer as the display sees it, and the display's calPosition.    *)

(* The event thread starts an action or cancels.                           *)
ChangeAction(s, step) ==
    /\ save.pc = "idle"
    /\ active' = [state |-> s, step |-> IF s = "IDLE" THEN 0 ELSE step]
    /\ UNCHANGED <<store, staged, ready, ram, dirty, fellBack, calPosition, disp,
                   save, restarts>>

PositionOf(s, step) == IF s = "FOLD_ACTIVE" THEN 15 + (step * 80) \div 6
                                            ELSE 95 - (step * 80) \div 6

(* update_display_values reads the state ...                               *)
DisplayState ==
    /\ disp = "idle"
    /\ active.state # "IDLE"
    /\ disp' = active.state
    /\ UNCHANGED <<store, staged, ready, ram, dirty, fellBack, active,
                   calPosition, save, restarts>>

(* ... and then, with a second call, the action.                           *)
DisplayPosition ==
    /\ disp # "idle"
    /\ calPosition' = PositionOf(disp, active.step)
    /\ disp' = "idle"
    /\ UNCHANGED <<store, staged, ready, ram, dirty, fellBack, active, save,
                   restarts>>

-----------------------------------------------------------------------------
(* initialize_calibration_storage: with no usable flash the defaults stay  *)
(* and nothing can be saved; a flash that is full or of another version is *)
(* erased; a key that cannot be read counts as missing.                    *)
Boot(flash) ==
    /\ staged' = NothingStaged
    /\ active' = [state |-> "IDLE", step |-> 0]
    /\ calPosition' = 50
    /\ disp' = "idle"
    /\ save' = SaveDone
    /\ \/ /\ ready' = FALSE
          /\ store' = flash
          /\ ram' = [k \in Keys |-> Default(k)]
          /\ dirty' = TRUE
          /\ fellBack' = {}
       \/ \E lost \in SUBSET Buttons :
          LET read == [k \in Keys |-> IF k \in lost THEN NotStored ELSE flash[k]]
          IN  /\ ready' = TRUE
              /\ store' = flash
              /\ ram' = load_points(read)
              /\ dirty' = (read # flash)
              /\ fellBack' = OutOfOrder(read)
       \/ /\ ready' = TRUE
          /\ store' = NothingStaged
          /\ ram' = load_points(NothingStaged)
          /\ dirty' = FALSE
          /\ fellBack' = {}

Restart ==
    /\ restarts < MaxRestarts
    /\ restarts' = restarts + 1
    /\ \E flushed \in SUBSET Pending : Boot(Flushed(flushed))

(* The first boot, on a flash that may hold anything.                      *)
Init ==
    /\ \E bytes \in [Buttons -> StoredBytes] :
          store = [k \in Keys |-> IF k \in Buttons THEN bytes[k]
                                                  ELSE NotStored]
    /\ staged = NothingStaged
    /\ ready = TRUE
    /\ ram = load_points(store)
    /\ dirty = FALSE
    /\ fellBack = OutOfOrder(store)
    /\ active = [state |-> "IDLE", step |-> 0]
    /\ calPosition = 50
    /\ disp = "idle"
    /\ save = SaveDone
    /\ restarts = 0

Handler ==
    \/ \E k \in Buttons : PressSave(k)
    \/ \E ok \in BOOLEAN :
          SetValue(ok) \/ Commit(ok) \/ UndoSet(ok) \/ UndoCommit(ok)
    \/ \E s \in {"IDLE", "FOLD_ACTIVE", "UNFOLD_ACTIVE"}, i \in Actions :
          ChangeAction(s, i)

Display == DisplayState \/ DisplayPosition

Next == Handler \/ Display \/ Restart

Spec == Init /\ [][Next]_vars
-----------------------------------------------------------------------------
(* Properties.                                                             *)

(* Types; every point in memory is a percentage, whatever the flash held.  *)
TypeOK ==
    /\ store \in [Keys -> 0..NotStored]
    /\ staged \in [Keys -> 0..NotStored]
    /\ ready \in BOOLEAN
    /\ ram \in [Keys -> 0..MAX_PERCENT]
    /\ dirty \in BOOLEAN
    /\ fellBack \subseteq Pair
    /\ active \in [state : {"IDLE", "FOLD_ACTIVE", "UNFOLD_ACTIVE"}, step : 0..6]
    /\ calPosition \in 0..MAX_PERCENT
    /\ disp \in {"idle", "FOLD_ACTIVE", "UNFOLD_ACTIVE"}
    /\ save \in [pc : {"idle", "set", "commit", "undo", "recommit"},
                 key : Keys, value : 0..MAX_PERCENT, failed : BOOLEAN]
    /\ restarts \in 0..MaxRestarts

(* The stop point never exceeds the start point in memory, through every   *)
(* save, failed save, restart and whatever the flash holds (save_point     *)
(* refuses, load_points falls back on the defaults).                       *)
PointsOrdered == Ordered(ram)

(* As long as no save failed since the boot and the boot could open the    *)
(* flash and read every key (~dirty): what the operator saved is in the    *)
(* flash (persist_calibration_value commits before memory changes), and a  *)
(* restart between two saves finds exactly what memory holds, with one     *)
(* exception.  Of a pair that is out of order in the flash load_points     *)
(* puts the defaults in memory and leaves the flash as it is; once one     *)
(* point of that pair has been saved and the other has not, the next boot  *)
(* compares the new point with the old one: it takes the old one, or drops *)
(* both.                                                                   *)
RestartFindsSaved ==
    (save.pc = "idle" /\ ~dirty) =>
        /\ \A k \in Keys \ fellBack : load_value(k, store[k]) = ram[k]
        /\ fellBack \in {{}, Pair} => load_points(store) = ram
=============================================================================
