----------------------- MODULE CalibrationStoreProofs -----------------------
(***************************************************************************)
(* The calibration points for every set of keys, stored contents, actions  *)
(* and number of restarts.                                                 *)
(***************************************************************************)
EXTENDS CalibrationStore, TLAPS

(* A value in memory is one a restart would accept.                        *)
RamInv == \A k \in Keys : ram[k] <= Limit(k)

(* A save under way carries a value that passed the checks.                *)
SaveInv ==
    save.pc \in {"set", "commit"} =>
        /\ save.value <= Limit(save.key)
        /\ ~InvalidOrder(save.key, save.value, ram)

(* What holds as long as nothing went wrong: the flash agrees with memory  *)
(* but for the points of a pair that was out of order at the boot and that *)
(* have not been saved since, and at most the value of the save under way  *)
(* is staged.                                                              *)
StagedBySave == [k \in Keys |-> IF save.pc = "commit" /\ k = save.key
                                THEN save.value ELSE NotStored]

Agreeing ==
    /\ fellBack \subseteq Pair
    /\ \A k \in Keys \ fellBack : load_value(k, store[k]) = ram[k]
    /\ \A k \in fellBack : ram[k] = Default(k)
    /\ fellBack = Pair => ~Ordered(Loaded(store))

CleanInv ==
    ~dirty => /\ save.pc \in {"idle", "set", "commit"}
              /\ staged = StagedBySave
              /\ Agreeing

(* The inductive invariant.                                                *)
CalibrationInv ==
    TypeOK /\ PointsOrdered /\ RamInv /\ SaveInv /\ CleanInv

(* The percentages and the marker of a missing key are numbers.            *)
LEMMA Numbers ==
    /\ MAX_PERCENT = 100 /\ NotStored = 256
    /\ \A k \in Keys : /\ Limit(k) \in Nat /\ Limit(k) <= MAX_PERCENT
                       /\ Default(k) \in Nat /\ Default(k) <= Limit(k)
    /\ "StartPlant" \in Keys /\ "StopPlant" \in Keys /\ Headland \in Keys
    /\ "StartPlant" # "StopPlant" /\ "StartPlant" # Headland
    /\ Default("StopPlant") <= Default("StartPlant")
  BY DEF MAX_PERCENT, NotStored, Limit, Default, Keys, Points, Headland

(* load_value yields an acceptable value for any byte.                     *)
LEMMA LoadValue ==
    ASSUME NEW k \in Keys, NEW b \in 0..NotStored
    PROVE  load_value(k, b) \in Nat /\ load_value(k, b) <= Limit(k)
  BY Numbers DEF load_value

(* load_points yields acceptable points in the right order for any bytes.  *)
LEMMA LoadPoints ==
    ASSUME NEW read \in [Keys -> 0..NotStored]
    PROVE  /\ load_points(read) \in [Keys -> 0..MAX_PERCENT]
           /\ \A k \in Keys : load_points(read)[k] <= Limit(k)
           /\ Ordered(load_points(read))
           /\ Ordered(Loaded(read)) => load_points(read) = Loaded(read)
           /\ \A k \in Keys \ OutOfOrder(read) :
                 load_points(read)[k] = load_value(k, read[k])
           /\ \A k \in OutOfOrder(read) : load_points(read)[k] = Default(k)
  <1>1. \A k \in Keys : /\ load_value(k, read[k]) \in Nat
                        /\ load_value(k, read[k]) <= Limit(k)
    BY LoadValue
  <1>2. Loaded(read) = [k \in Keys |-> load_value(k, read[k])]
    BY DEF Loaded
  <1>3. \A k \in Keys : Loaded(read)[k] \in 0..MAX_PERCENT
                        /\ Loaded(read)[k] <= Limit(k)
    BY <1>1, <1>2, Numbers
  <1>4. Loaded(read) \in [Keys -> 0..MAX_PERCENT]
    BY <1>2, <1>3
  <1>5. CASE Ordered(Loaded(read))
    BY <1>2, <1>3, <1>4, <1>5 DEF load_points, OutOfOrder
  <1>6. CASE ~Ordered(Loaded(read))
    <2> DEFINE f == [Loaded(read) EXCEPT !["StartPlant"] = Default("StartPlant"),
                                         !["StopPlant"] = Default("StopPlant")]
    <2>1. load_points(read) = f
      BY <1>6 DEF load_points
    <2>2. \A k \in {"StartPlant", "StopPlant"} :
             Default(k) \in 0..MAX_PERCENT /\ Default(k) <= Limit(k)
      BY Numbers
    <2>3. f \in [Keys -> 0..MAX_PERCENT]
      BY <1>4, <2>2
    <2>4. f["StartPlant"] = Default("StartPlant")
          /\ f["StopPlant"] = Default("StopPlant")
      BY <1>4, Numbers
    <2>5. \A k \in Keys : f[k] <= Limit(k)
      BY <1>3, <1>4, <2>2, <2>4
    <2>6. Ordered(f)
      BY <2>4, Numbers DEF Ordered
    <2>7. OutOfOrder(read) = Pair
      BY <1>6 DEF OutOfOrder
    <2>8. \A k \in Keys \ Pair : f[k] = load_value(k, read[k])
      BY <1>2, <1>4 DEF Pair
    <2>9. \A k \in Pair : f[k] = Default(k)
      BY <2>4 DEF Pair
    <2> QED
      BY <1>6, <2>1, <2>3, <2>5, <2>6, <2>7, <2>8, <2>9
  <1> QED
    BY <1>5, <1>6

(* What becomes durable has the type of the flash.                         *)
LEMMA FlushedType ==
    ASSUME TypeOK, NEW flushed \in SUBSET Keys
    PROVE  Flushed(flushed) \in [Keys -> 0..NotStored]
  BY DEF Flushed, TypeOK

(* A boot establishes the invariant whatever it finds.                     *)
LEMMA BootInv ==
    ASSUME NEW flash \in [Keys -> 0..NotStored], Boot(flash),
           restarts' \in 0..MaxRestarts
    PROVE  CalibrationInv'
  <1>1. NothingStaged \in [Keys -> 0..NotStored]
    BY Numbers DEF NothingStaged
  <1>2. SaveDone \in [pc : {"idle", "set", "commit", "undo", "recommit"},
                      key : Keys, value : 0..MAX_PERCENT, failed : BOOLEAN]
    BY Numbers DEF SaveDone
  <1>3. /\ staged' = NothingStaged /\ save' = SaveDone
        /\ active' \in [state : {"IDLE", "FOLD_ACTIVE", "UNFOLD_ACTIVE"}, step : 0..6]
        /\ calPosition' \in 0..MAX_PERCENT
        /\ disp' \in {"idle", "FOLD_ACTIVE", "UNFOLD_ACTIVE"}
    BY Numbers DEF Boot
  <1>4. SaveInv'
    BY <1>3 DEF SaveInv, SaveDone
  <1>5. save'.pc = "idle" /\ staged' = StagedBySave'
    BY <1>3 DEF SaveDone, NothingStaged, StagedBySave
  <1>6. ASSUME store' \in [Keys -> 0..NotStored], ready' \in BOOLEAN,
               dirty' \in BOOLEAN,
               ram' \in [Keys -> 0..MAX_PERCENT], Ordered(ram'),
               \A k \in Keys : ram'[k] <= Limit(k),
               fellBack' \subseteq Pair,
               ~dirty' => Agreeing'
        PROVE  CalibrationInv'
    <2>1. TypeOK'
      BY <1>1, <1>2, <1>3, <1>6 DEF TypeOK
    <2>2. PointsOrdered' /\ RamInv'
      BY <1>6 DEF PointsOrdered, RamInv, Ordered
    <2>3. CleanInv'
      BY <1>5, <1>6 DEF CleanInv
    <2> QED
      BY <1>4, <2>1, <2>2, <2>3 DEF CalibrationInv
  <1>7. CASE ready' = FALSE /\ store' = flash /\ dirty' = TRUE
             /\ fellBack' = {} /\ ram' = [k \in Keys |-> Default(k)]
    <2>1. ram' \in [Keys -> 0..MAX_PERCENT]
      BY <1>7, Numbers
    <2>2. \A k \in Keys : ram'[k] <= Limit(k)
      BY <1>7, Numbers
    <2>3. Ordered(ram')
      BY <1>7, Numbers DEF Ordered
    <2> QED
      BY <1>6, <1>7, <2>1, <2>2, <2>3
  <1>8. ASSUME NEW read \in [Keys -> 0..NotStored],
               ready' = TRUE, store' = flash, ram' = load_points(read),
               dirty' = (read # flash), fellBack' = OutOfOrder(read)
        PROVE  CalibrationInv'
    <2>1. OutOfOrder(read) \subseteq Pair
          /\ (OutOfOrder(read) = Pair => ~Ordered(Loaded(read)))
      BY DEF OutOfOrder, Pair
    <2>2. ASSUME ~dirty' PROVE store' = read
      BY <1>8, <2>2
    <2>3. ~dirty' => Agreeing'
      BY <1>8, <2>1, <2>2, LoadPoints DEF Agreeing, Ordered, Loaded
    <2>4. dirty' \in BOOLEAN
      BY <1>8, Zenon
    <2> QED
      BY <1>6, <1>8, <2>1, <2>3, <2>4, LoadPoints
  <1>9. CASE ready' = TRUE /\ store' = NothingStaged /\ dirty' = FALSE
             /\ fellBack' = {} /\ ram' = load_points(NothingStaged)
    <2>1. Ordered(Loaded(NothingStaged))
      BY Numbers DEF Ordered, Loaded, NothingStaged, load_value
    <2>2. OutOfOrder(NothingStaged) = {} /\ {} # Pair
      BY <2>1 DEF OutOfOrder, Pair
    <2>3. Agreeing'
      BY <1>1, <1>9, <2>2, LoadPoints DEF Agreeing
    <2> QED
      BY <1>1, <1>6, <1>9, <2>3, LoadPoints
  <1>10. ASSUME NEW lost \in SUBSET Buttons
         PROVE  [k \in Keys |-> IF k \in lost THEN NotStored ELSE flash[k]]
                   \in [Keys -> 0..NotStored]
    BY Numbers
  <1> QED
    BY <1>7, <1>8, <1>9, <1>10 DEF Boot

(* The first boot establishes the invariant on any flash contents.         *)
LEMMA CalibrationInit == Init => CalibrationInv
  <1> SUFFICES ASSUME Init PROVE CalibrationInv
    OBVIOUS
  <1>1. store \in [Keys -> 0..NotStored]
    <2>1. PICK bytes \in [Buttons -> StoredBytes] :
             store = [k \in Keys |-> IF k \in Buttons THEN bytes[k]
                                                     ELSE NotStored]
      BY DEF Init
    <2>2. NotStored \in 0..NotStored
      BY Numbers
    <2>3. \A k \in Buttons : bytes[k] \in 0..NotStored
      BY <2>1, StoredAssumption
    <2> QED
      BY <2>1, <2>2, <2>3
  <1>2. staged \in [Keys -> 0..NotStored]
    BY Numbers DEF Init, NothingStaged
  <1>3. save \in [pc : {"idle", "set", "commit", "undo", "recommit"},
                 key : Keys, value : 0..MAX_PERCENT, failed : BOOLEAN]
    BY Numbers DEF Init, SaveDone
  <1>4. dirty \in BOOLEAN /\ fellBack = OutOfOrder(store)
        /\ OutOfOrder(store) \subseteq Pair
        /\ (OutOfOrder(store) = Pair => ~Ordered(Loaded(store)))
    BY DEF Init, OutOfOrder, Pair
  <1>5. TypeOK
    <2>1. ram \in [Keys -> 0..MAX_PERCENT]
      BY <1>1, LoadPoints DEF Init
    <2>2. restarts \in 0..MaxRestarts /\ calPosition \in 0..MAX_PERCENT
      BY RestartsAssumption, Numbers DEF Init
    <2>3. active \in [state : {"IDLE", "FOLD_ACTIVE", "UNFOLD_ACTIVE"}, step : 0..6]
          /\ disp \in {"idle", "FOLD_ACTIVE", "UNFOLD_ACTIVE"}
          /\ ready \in BOOLEAN
      BY DEF Init
    <2> QED
      BY <1>1, <1>2, <1>3, <1>4, <2>1, <2>2, <2>3 DEF TypeOK
  <1>6. PointsOrdered /\ RamInv
    BY <1>1, LoadPoints DEF Init, PointsOrdered, RamInv
  <1>7. SaveInv
    BY DEF Init, SaveInv, SaveDone
  <1>8. CleanInv
    <2>1. Agreeing
      BY <1>1, <1>4, LoadPoints DEF Init, Agreeing
    <2> QED
      BY <2>1 DEF Init, CleanInv, StagedBySave, SaveDone, NothingStaged
  <1> QED
    BY <1>5, <1>6, <1>7, <1>8 DEF CalibrationInv

(* A save handler step keeps the invariant.                                *)
LEMMA PressInv ==
    ASSUME CalibrationInv, NEW k \in Keys, PressSave(k)
    PROVE  CalibrationInv'
  <1> DEFINE new == IF k = Headland THEN 1 - ram[k] ELSE calPosition
  <1>1. new \in 0..MAX_PERCENT /\ new <= Limit(k)
    <2>1. ram[k] \in Nat /\ ram[k] <= Limit(k) /\ calPosition \in 0..MAX_PERCENT
      BY Numbers DEF CalibrationInv, RamInv, TypeOK
    <2> QED
      BY <2>1, Numbers DEF Limit
  <1> HIDE DEF new
  <1>2. \/ save' = SaveDone \/ save' = SaveFailed(k)
        \/ /\ save' = [pc |-> "set", key |-> k, value |-> new, failed |-> FALSE]
           /\ ~InvalidOrder(k, new, ram)
    BY DEF PressSave, new
  <1>3. UNCHANGED <<store, staged, ready, ram, dirty, fellBack, active,
                    calPosition, disp, restarts>> /\ save.pc = "idle"
    BY DEF PressSave
  <1>4. save' \in [pc : {"idle", "set", "commit", "undo", "recommit"},
                  key : Keys, value : 0..MAX_PERCENT, failed : BOOLEAN]
    <2>1. SaveDone.pc = "idle" /\ 0 \in 0..MAX_PERCENT
      BY Numbers DEF SaveDone
    <2>2. CASE save' = SaveDone
      BY <2>1, <2>2, Numbers DEF SaveDone
    <2>3. CASE save' = SaveFailed(k)
      BY <2>1, <2>3, Numbers DEF SaveFailed
    <2>4. CASE save' = [pc |-> "set", key |-> k, value |-> new, failed |-> FALSE]
      BY <1>1, <2>4
    <2> QED
      BY <1>2, <2>2, <2>3, <2>4
  <1>5. TypeOK'
    BY <1>3, <1>4 DEF CalibrationInv, TypeOK
  <1>6. SaveInv'
    BY <1>1, <1>2, <1>3 DEF SaveInv, SaveDone, SaveFailed, InvalidOrder
  <1>7. save'.pc \in {"idle", "set"}
    BY <1>2 DEF SaveDone, SaveFailed
  <1>8. CleanInv'
    BY <1>3, <1>7 DEF CalibrationInv, CleanInv, Agreeing, StagedBySave, Ordered, Loaded
  <1> QED
    BY <1>3, <1>5, <1>6, <1>8
       DEF CalibrationInv, PointsOrdered, RamInv, Ordered

LEMMA SetInv ==
    ASSUME CalibrationInv, NEW ok \in BOOLEAN, SetValue(ok)
    PROVE  CalibrationInv'
  <1>1. UNCHANGED <<store, ready, ram, dirty, fellBack, active, calPosition,
                    disp, restarts>> /\ save.pc = "set"
        /\ save.key \in Keys /\ save.value \in 0..MAX_PERCENT
        /\ save.failed \in BOOLEAN
    BY DEF SetValue, CalibrationInv, TypeOK
  <1>2. PointsOrdered' /\ RamInv'
    BY <1>1 DEF CalibrationInv, PointsOrdered, RamInv, Ordered
  <1>3. CASE ok
    <2>1. staged' = [staged EXCEPT ![save.key] = save.value]
          /\ save' = [save EXCEPT !.pc = "commit"]
      BY <1>3 DEF SetValue
    <2>2. /\ save'.pc = "commit" /\ save'.key = save.key
          /\ save'.value = save.value
          /\ save' \in [pc : {"idle", "set", "commit", "undo", "recommit"},
                        key : Keys, value : 0..MAX_PERCENT, failed : BOOLEAN]
      BY <2>1 DEF CalibrationInv, TypeOK
    <2>3. staged' \in [Keys -> 0..NotStored]
      BY <1>1, <2>1, Numbers DEF CalibrationInv, TypeOK
    <2>4. TypeOK'
      BY <1>1, <2>2, <2>3 DEF CalibrationInv, TypeOK
    <2>5. SaveInv'
      BY <1>1, <2>2 DEF CalibrationInv, SaveInv, InvalidOrder
    <2>6. CleanInv'
      BY <1>1, <2>1, <2>2 DEF CalibrationInv, CleanInv, Agreeing, StagedBySave, Ordered, Loaded
    <2> QED
      BY <1>2, <2>4, <2>5, <2>6 DEF CalibrationInv
  <1>4. CASE ~ok
    <2>1. staged' = staged /\ save' = SaveFailed(save.key)
      BY <1>4 DEF SetValue
    <2>2. save' \in [pc : {"idle", "set", "commit", "undo", "recommit"},
                    key : Keys, value : 0..MAX_PERCENT, failed : BOOLEAN]
      BY <1>1, <2>1, Numbers DEF SaveFailed
    <2>3. TypeOK'
      BY <1>1, <2>1, <2>2 DEF CalibrationInv, TypeOK
    <2>4. SaveInv' /\ CleanInv'
      BY <1>1, <2>1 DEF CalibrationInv, CleanInv, SaveInv, SaveFailed,
                        StagedBySave, Agreeing, Ordered, Loaded
    <2> QED
      BY <1>2, <2>3, <2>4 DEF CalibrationInv
  <1> QED
    BY <1>3, <1>4

(* A commit that succeeds keeps flash and memory in agreement.             *)
LEMMA CommitInv ==
    ASSUME CalibrationInv, NEW ok \in BOOLEAN, Commit(ok)
    PROVE  CalibrationInv'
  <1>1. UNCHANGED <<ready, active, calPosition, disp, restarts>>
        /\ save.pc = "commit"
        /\ save.key \in Keys /\ save.value \in 0..MAX_PERCENT
        /\ save.value <= Limit(save.key)
        /\ ~InvalidOrder(save.key, save.value, ram)
    BY DEF Commit, CalibrationInv, SaveInv, TypeOK
  <1>2. CASE ok
    <2>1. /\ store' = Flushed(Pending) /\ staged' = NothingStaged
          /\ ram' = [ram EXCEPT ![save.key] = save.value]
          /\ save' = SaveDone /\ dirty' = dirty
          /\ fellBack' = fellBack \ {save.key}
      BY <1>2 DEF Commit
    <2>2. save' \in [pc : {"idle", "set", "commit", "undo", "recommit"},
                    key : Keys, value : 0..MAX_PERCENT, failed : BOOLEAN]
          /\ save'.pc = "idle"
      BY <2>1, Numbers DEF SaveDone
    <2>3. store' \in [Keys -> 0..NotStored]
      BY <2>1, FlushedType DEF CalibrationInv, Pending
    <2>4. staged' \in [Keys -> 0..NotStored]
      BY <2>1, Numbers DEF NothingStaged
    <2>5. ram' \in [Keys -> 0..MAX_PERCENT]
      BY <1>1, <2>1 DEF CalibrationInv, TypeOK
    <2>6. TypeOK'
      BY <1>1, <2>1, <2>2, <2>3, <2>4, <2>5 DEF CalibrationInv, TypeOK
    <2>7. RamInv'
      BY <1>1, <2>1 DEF CalibrationInv, RamInv, TypeOK
    <2>8. PointsOrdered'
      <3>1. ram \in [Keys -> 0..MAX_PERCENT] /\ Ordered(ram)
        BY DEF CalibrationInv, TypeOK, PointsOrdered
      <3>2. /\ ram["StartPlant"] \in Nat /\ ram["StopPlant"] \in Nat
            /\ ram["StopPlant"] <= ram["StartPlant"] /\ save.value \in Nat
        BY <1>1, <3>1, Numbers DEF Ordered
      <3>3. CASE save.key = "StartPlant"
        <4>1. ram'["StartPlant"] = save.value
              /\ ram'["StopPlant"] = ram["StopPlant"]
          BY <2>1, <3>1, <3>3, Numbers
        <4> QED
          BY <1>1, <3>2, <3>3, <4>1 DEF PointsOrdered, Ordered, InvalidOrder
      <3>4. CASE save.key = "StopPlant"
        <4>1. ram'["StopPlant"] = save.value
              /\ ram'["StartPlant"] = ram["StartPlant"]
          BY <2>1, <3>1, <3>4, Numbers
        <4> QED
          BY <1>1, <3>2, <3>4, <4>1 DEF PointsOrdered, Ordered, InvalidOrder
      <3>5. CASE save.key \notin {"StartPlant", "StopPlant"}
        <4>1. ram'["StopPlant"] = ram["StopPlant"]
              /\ ram'["StartPlant"] = ram["StartPlant"]
          BY <2>1, <3>1, <3>5, Numbers
        <4> QED
          BY <3>2, <4>1 DEF PointsOrdered, Ordered
      <3> QED
        BY <3>3, <3>4, <3>5
    <2>9. SaveInv'
      BY <2>2 DEF SaveInv
    <2>10. CleanInv'
      <3>1. SUFFICES ASSUME ~dirty PROVE Agreeing'
        BY <2>1, <2>2 DEF CleanInv, StagedBySave, NothingStaged
      <3>2. staged = StagedBySave /\ Agreeing
        BY <3>1 DEF CalibrationInv, CleanInv
      <3>3. \A k \in Keys : k \in Pending <=> k = save.key
        BY <1>1, <3>2, Numbers DEF Pending, StagedBySave
      <3>4. \A k \in Keys : store'[k] = IF k = save.key THEN save.value
                                                       ELSE store[k]
        BY <1>1, <2>1, <3>2, <3>3 DEF Flushed, StagedBySave
      <3>5. load_value(save.key, save.value) = save.value
        BY <1>1, Numbers DEF load_value
      <3>6. ram \in [Keys -> 0..MAX_PERCENT]
        BY DEF CalibrationInv, TypeOK
      <3>7. \A k \in Keys : ram'[k] = IF k = save.key THEN save.value ELSE ram[k]
        BY <1>1, <2>1, <3>6
      <3>8. \A k \in Keys \ fellBack' : load_value(k, store'[k]) = ram'[k]
        BY <1>1, <2>1, <3>2, <3>4, <3>5, <3>7 DEF Agreeing
      <3>9. fellBack \subseteq Keys
        BY <3>2, Numbers DEF Agreeing, Pair
      <3>10. \A k \in fellBack' : ram'[k] = Default(k)
        BY <2>1, <3>2, <3>7, <3>9 DEF Agreeing
      <3>11. ASSUME fellBack' = Pair PROVE ~Ordered(Loaded(store'))
        <4>1. fellBack = Pair /\ save.key \notin Pair
          BY <2>1, <3>2, <3>11 DEF Agreeing
        <4>2. \A k \in Pair : Loaded(store')[k] = Loaded(store)[k]
          BY <3>4, <4>1, Numbers DEF Loaded, Pair
        <4> QED
          BY <3>2, <4>1, <4>2 DEF Agreeing, Ordered, Pair
      <3>12. fellBack' \subseteq Pair
        BY <2>1, <3>2 DEF Agreeing
      <3> QED
        BY <3>8, <3>10, <3>11, <3>12 DEF Agreeing, Ordered, Loaded
    <2> QED
      BY <2>6, <2>7, <2>8, <2>9, <2>10 DEF CalibrationInv
  <1>3. CASE ~ok
    <2>1. PICK flushed \in SUBSET Pending : store' = Flushed(flushed)
      BY <1>3 DEF Commit
    <2>2. dirty' = TRUE /\ save' = [save EXCEPT !.pc = "undo"]
          /\ staged' = staged /\ ram' = ram /\ fellBack' = fellBack
      BY <1>3 DEF Commit
    <2>3. store' \in [Keys -> 0..NotStored]
      BY <2>1, FlushedType DEF CalibrationInv, Pending
    <2>4. save' \in [pc : {"idle", "set", "commit", "undo", "recommit"},
                    key : Keys, value : 0..MAX_PERCENT, failed : BOOLEAN]
          /\ save'.pc = "undo"
      BY <2>2 DEF CalibrationInv, TypeOK
    <2>5. TypeOK'
      BY <1>1, <2>2, <2>3, <2>4 DEF CalibrationInv, TypeOK
    <2>6. PointsOrdered' /\ RamInv'
      BY <2>2 DEF CalibrationInv, PointsOrdered, RamInv, Ordered
    <2>7. SaveInv' /\ CleanInv'
      BY <2>2, <2>4 DEF SaveInv, CleanInv
    <2> QED
      BY <2>5, <2>6, <2>7 DEF CalibrationInv
  <1> QED
    BY <1>2, <1>3

(* The way back after a failed commit happens only when the history is     *)
(* dirty, and touches neither memory nor the order of its points.          *)
LEMMA UndoInv ==
    ASSUME CalibrationInv, NEW ok \in BOOLEAN, UndoSet(ok) \/ UndoCommit(ok)
    PROVE  CalibrationInv'
  <1>1. UNCHANGED <<ready, ram, dirty, fellBack, active, calPosition, disp,
                    restarts>>
        /\ save.pc \in {"undo", "recommit"}
    BY DEF UndoSet, UndoCommit
  <1>2. dirty
    BY <1>1 DEF CalibrationInv, CleanInv
  <1>3. save.key \in Keys /\ ram[save.key] \in 0..NotStored
    BY Numbers DEF CalibrationInv, TypeOK
  <1>4. save' \in [pc : {"idle", "set", "commit", "undo", "recommit"},
                  key : Keys, value : 0..MAX_PERCENT, failed : BOOLEAN]
        /\ save'.pc \in {"idle", "recommit"}
    <2>1. CASE save' = SaveFailed(save.key)
      BY <1>3, <2>1, Numbers DEF SaveFailed
    <2>2. CASE save' = [save EXCEPT !.pc = "recommit"]
      BY <2>2 DEF CalibrationInv, TypeOK
    <2> QED
      BY <2>1, <2>2 DEF UndoSet, UndoCommit
  <1>5. staged' \in [Keys -> 0..NotStored]
    BY <1>3, Numbers DEF UndoSet, UndoCommit, NothingStaged, CalibrationInv,
                         TypeOK
  <1>6. store' \in [Keys -> 0..NotStored]
    <2>1. TypeOK
      BY DEF CalibrationInv
    <2>2. CASE store' = store
      BY <2>1, <2>2 DEF TypeOK
    <2>3. ASSUME NEW flushed \in SUBSET Pending, store' = Flushed(flushed)
          PROVE  store' \in [Keys -> 0..NotStored]
      BY <2>1, <2>3, FlushedType DEF Pending
    <2> QED
      BY <2>2, <2>3 DEF UndoSet, UndoCommit
  <1>7. TypeOK'
    BY <1>1, <1>4, <1>5, <1>6 DEF CalibrationInv, TypeOK
  <1>8. PointsOrdered' /\ RamInv'
    BY <1>1 DEF CalibrationInv, PointsOrdered, RamInv, Ordered
  <1>9. SaveInv' /\ CleanInv'
    BY <1>1, <1>2, <1>4 DEF SaveInv, CleanInv
  <1> QED
    BY <1>7, <1>8, <1>9 DEF CalibrationInv

(* The position derived from any action is a percentage.                   *)
LEMMA PositionRange ==
    ASSUME NEW s, NEW step \in 0..6
    PROVE  PositionOf(s, step) \in 0..MAX_PERCENT
  <1>1. (step * 80) \div 6 \in 0..80
    OBVIOUS
  <1> QED
    BY <1>1, Numbers DEF PositionOf

(* The sequencer and the display do not touch what is saved.               *)
LEMMA DisplayInv ==
    ASSUME CalibrationInv,
           \/ \E s \in {"IDLE", "FOLD_ACTIVE", "UNFOLD_ACTIVE"}, i \in Actions :
                 ChangeAction(s, i)
           \/ Display
    PROVE  CalibrationInv'
  <1>1. UNCHANGED <<store, staged, ready, ram, dirty, fellBack, save, restarts>>
    BY DEF ChangeAction, Display, DisplayState, DisplayPosition
  <1>2. active' \in [state : {"IDLE", "FOLD_ACTIVE", "UNFOLD_ACTIVE"}, step : 0..6]
    BY ActionsAssumption
       DEF ChangeAction, Display, DisplayState, DisplayPosition,
           CalibrationInv, TypeOK
  <1>3. calPosition' \in 0..MAX_PERCENT
    <2>1. active.step \in 0..6 /\ calPosition \in 0..MAX_PERCENT
      BY DEF CalibrationInv, TypeOK
    <2> QED
      BY <2>1, PositionRange
         DEF ChangeAction, Display, DisplayState, DisplayPosition
  <1>4. disp' \in {"idle", "FOLD_ACTIVE", "UNFOLD_ACTIVE"}
    BY DEF ChangeAction, Display, DisplayState, DisplayPosition,
           CalibrationInv, TypeOK
  <1>5. TypeOK'
    BY <1>1, <1>2, <1>3, <1>4 DEF CalibrationInv, TypeOK
  <1> QED
    BY <1>1, <1>5 DEF CalibrationInv, PointsOrdered, RamInv, SaveInv,
                      CleanInv, Agreeing, StagedBySave, Ordered, Loaded, InvalidOrder

(* Every step keeps the invariant.                                         *)
LEMMA CalibrationStep == CalibrationInv /\ [Next]_vars => CalibrationInv'
  <1> SUFFICES ASSUME CalibrationInv, [Next]_vars PROVE CalibrationInv'
    OBVIOUS
  <1>1. ASSUME NEW k \in Buttons, PressSave(k) PROVE CalibrationInv'
    BY <1>1, PressInv, ButtonsAssumption
  <1>2. ASSUME NEW ok \in BOOLEAN,
               SetValue(ok) \/ Commit(ok) \/ UndoSet(ok) \/ UndoCommit(ok)
        PROVE  CalibrationInv'
    BY <1>2, SetInv, CommitInv, UndoInv
  <1>3. CASE \/ \E s \in {"IDLE", "FOLD_ACTIVE", "UNFOLD_ACTIVE"}, i \in Actions :
                   ChangeAction(s, i)
             \/ Display
    BY <1>3, DisplayInv
  <1>4. CASE Restart
    <2>1. PICK flushed \in SUBSET Pending : Boot(Flushed(flushed))
      BY <1>4 DEF Restart
    <2>2. Flushed(flushed) \in [Keys -> 0..NotStored]
      BY FlushedType DEF CalibrationInv, Pending
    <2>3. restarts' \in 0..MaxRestarts
      BY <1>4, RestartsAssumption DEF Restart, CalibrationInv, TypeOK
    <2> QED
      BY <2>1, <2>2, <2>3, BootInv
  <1>5. CASE UNCHANGED vars
    BY <1>5 DEF vars, CalibrationInv, TypeOK, PointsOrdered, RamInv, SaveInv,
                CleanInv, Agreeing, StagedBySave, Ordered, Loaded, InvalidOrder
  <1> QED
    BY <1>1, <1>2, <1>3, <1>4, <1>5 DEF Next, Handler

(* The invariant holds in every behaviour.                                 *)
THEOREM CalibrationInvariant == Spec => []CalibrationInv
  BY CalibrationInit, CalibrationStep, PTL DEF Spec

(* Every point in memory is a percentage, whatever the flash held.         *)
THEOREM CalibrationTypeCorrect == Spec => []TypeOK
  <1>1. CalibrationInv => TypeOK
    BY DEF CalibrationInv
  <1> QED
    BY <1>1, CalibrationInvariant, PTL

(* The stop point never exceeds the start point in memory.                 *)
THEOREM PointsStayOrdered == Spec => []PointsOrdered
  <1>1. CalibrationInv => PointsOrdered
    BY DEF CalibrationInv
  <1> QED
    BY <1>1, CalibrationInvariant, PTL

(* As long as no save failed since a boot that could open the flash and    *)
(* read every key, every saved value is in the flash, and a restart        *)
(* between two saves finds exactly what memory holds, unless a pair was    *)
(* out of order in the flash at the boot and one of its points alone has   *)
(* been saved since.                                                       *)
THEOREM SavedSurvives == Spec => []RestartFindsSaved
  <1>1. ASSUME CalibrationInv, ~dirty, fellBack \in {{}, Pair}
        PROVE  load_points(store) = ram
    <2>1. /\ Agreeing /\ Ordered(ram) /\ ram \in [Keys -> 0..MAX_PERCENT]
          /\ store \in [Keys -> 0..NotStored]
      BY <1>1 DEF CalibrationInv, CleanInv, PointsOrdered, TypeOK
    <2>2. load_points(store) \in [Keys -> 0..MAX_PERCENT]
      BY <2>1, LoadPoints
    <2>3. CASE fellBack = {}
      <3>1. \A k \in Keys : Loaded(store)[k] = ram[k]
        BY <2>1, <2>3 DEF Agreeing, Loaded
      <3>2. Ordered(Loaded(store))
        BY <2>1, <3>1, Numbers DEF Ordered
      <3>3. load_points(store) = Loaded(store)
        BY <3>2 DEF load_points
      <3> QED
        BY <2>1, <2>2, <3>1, <3>3
    <2>4. CASE fellBack = Pair
      <3>1. OutOfOrder(store) = Pair
        BY <2>1, <2>4 DEF Agreeing, OutOfOrder
      <3>2. \A k \in Keys : load_points(store)[k] = ram[k]
        BY <2>1, <2>4, <3>1, LoadPoints DEF Agreeing
      <3> QED
        BY <2>1, <2>2, <3>2
    <2> QED
      BY <1>1, <2>3, <2>4
  <1>2. CalibrationInv => RestartFindsSaved
    BY <1>1 DEF RestartFindsSaved, CalibrationInv, CleanInv, Agreeing
  <1> QED
    BY <1>2, CalibrationInvariant, PTL
=============================================================================
