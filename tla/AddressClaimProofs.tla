------------------------- MODULE AddressClaimProofs -------------------------
(***************************************************************************)
(* Proofs about can_internal_control_function.cpp and the table of         *)
(* can_network_manager.cpp: when the bus is at rest no two nodes hold the  *)
(* same address, for any number of nodes, addresses, partners, restarts    *)
(* and frames between two updates.                                         *)
(*                                                                         *)
(* The argument: a node that takes an address claims it from everyone, so  *)
(* of two that have one address one is told, by a frame on its way, by one *)
(* in its queue, or because it is already about to claim once more; and    *)
(* every one of these ends with a claim or with the loss of the address.   *)
(* What the table makes of a claim does not matter: a partner without a    *)
(* NAME that takes the slot of the node itself hides it from the contention*)
(* (update_control_functions), but the frame is still in the queue, and    *)
(* address_violation answers it.  That answer needs a node that is         *)
(* complete, and a holder is, or is about to claim once more, unless a     *)
(* driver refuses the claim of a commanded address: then the node goes     *)
(* back to the beginning with its old address, and with a partner and a    *)
(* second refusal it ends without a claim at the address of another.       *)
(*                                                                         *)
(* A fold over the queue is a function of its beginnings, whose existence  *)
(* is shown by counting up to the queue's length (QueueTraced).            *)
(***************************************************************************)
EXTENDS AddressClaim, WellFoundedInduction, FiniteSetTheorems, TLAPS

-----------------------------------------------------------------------------
(* Numbers, singletons, lookups.                                           *)

(* A set of numbers has a smallest one.                                    *)
LEMMA Smallest ==
    ASSUME NEW T, T \subseteq Nat, T # {}
    PROVE  \E x \in T : \A y \in T : x <= y
<1> DEFINE R == OpToRel(<, Nat)
<1>1. IsWellFoundedOn(R, Nat)
  BY NatLessThanWellFounded
<1>2. R = {ss \in Nat \X Nat : ss[1] < ss[2]}
  BY DEF OpToRel
<1> HIDE DEF R
<1>3. PICK x \in T : \A y \in T : <<y, x>> \notin R
  BY <1>1, WFMin
<1>4. \A y \in T : x <= y
  <2> SUFFICES ASSUME NEW y \in T, y < x PROVE FALSE
    OBVIOUS
  <2>1. <<y, x>> \in R
    BY <1>2
  <2> QED
    BY <1>3, <2>1
<1> QED
  BY <1>4

(* Induction, for a set of numbers given as such.                          *)
LEMMA Counting ==
    ASSUME NEW n \in Nat, NEW P, 0 \in P, \A k \in 0..(n - 1) : k \in P => k + 1 \in P
    PROVE  \A k \in 0..n : k \in P
<1> DEFINE T == (0..n) \ P
<1> SUFFICES ASSUME T # {} PROVE FALSE
  OBVIOUS
<1>1. T \subseteq Nat
  OBVIOUS
<1>2. PICK k \in T : \A j \in T : k <= j
  BY <1>1, Smallest
<1>3. k \in 0..n /\ k \notin P /\ k # 0
  BY <1>2
<1>4. k - 1 \in 0..(n - 1) /\ k - 1 \in 0..n
  BY <1>3
<1>5. k - 1 \in P
  <2> SUFFICES ASSUME k - 1 \notin P PROVE FALSE
    OBVIOUS
  <2>1. k - 1 \in T
    BY <1>4
  <2> QED
    BY <1>2, <1>3, <2>1
<1>6. (k - 1) + 1 \in P
  BY <1>4, <1>5
<1> QED
  BY <1>3, <1>6

(* The first address of a set is one of the set.                           *)
LEMMA LowestIn ==
    ASSUME NEW T, T \subseteq Nat, T # {}
    PROVE  Lowest(T) \in T
BY Smallest DEF Lowest

(* The element of a singleton.                                             *)
LEMMA Only ==
    ASSUME NEW x
    PROVE  The({x}) = x
BY DEF The

(* Addresses are numbers, few, and none is NULL; no object is NONE.        *)
LEMMA AddressesNumbers ==
    /\ Addresses \subseteq Nat /\ ArbitraryRange \subseteq Addresses
    /\ NULL \notin Addresses /\ IsFiniteSet(Addresses)
    /\ Slots \subseteq Nat /\ NONE \notin Objects /\ Nodes \subseteq Objects /\ PARTNER \notin Nodes
<1>1. Addresses \subseteq 0..253 /\ ArbitraryRange \subseteq Addresses
  BY AddressAssumption
<1>2. IsFiniteSet(Addresses)
  <2>1. 0 \in Int /\ 253 \in Int
    OBVIOUS
  <2>2. IsFiniteSet(0..253)
    BY <2>1, FS_Interval, Zenon
  <2> QED
    BY <1>1, <2>2, FS_Subset
<1> QED
  BY <1>1, <1>2, NamesAssumption DEF NULL, Slots, NONE, Objects, PARTNER

-----------------------------------------------------------------------------
(* What a manager is made of.                                              *)

Managers ==
    [state : States, preferred : Slots, cf : [Objects -> ControlFunctions],
     table : [Slots -> Objects \cup {NONE}], inactive : Seq(Objects), asked : BOOLEAN,
     partner : {"none", "new", "initialized"}, queue : Seq(Frames)]

(* The object of a node's own control function has its NAME.               *)
Manager(n) == {s \in Managers : s.cf[n].name = n}

Holding == {"AddressClaimingComplete", "SendReclaimAddressOnRequest"}

(* What a search of the table finds is what was looked for, or nothing.    *)
LEMMA InTableKnown ==
    ASSUME NEW s \in Managers, NEW P
    PROVE  InTable(s, P) \in P \cup {NONE}
<1> DEFINE at == {a \in Addresses : s.table[a] \in P}
<1>1. CASE at = {}
  BY <1>1, Zenon DEF InTable
<1>2. CASE at # {}
  <2>1. at \subseteq Nat
    BY AddressesNumbers
  <2>2. Lowest(at) \in at
    BY <1>2, <2>1, LowestIn
  <2>3. InTable(s, P) = s.table[Lowest(at)]
    BY <1>2, Zenon DEF InTable
  <2> QED
    BY <2>2, <2>3
<1> QED
  BY <1>1, <1>2

(* So with the list of the inactive ones.                                  *)
LEMMA InInactiveKnown ==
    ASSUME NEW s \in Managers, NEW P
    PROVE  /\ InInactive(s, P) \in (P \cap Objects) \cup {NONE}
<1> DEFINE l == s.inactive
           I == {i \in 1..Len(l) : l[i] \in P}
           i == SelectInSeq(l, LAMBDA o : o \in P)
<1>1. l \in Seq(Objects) /\ Len(l) \in Nat
  BY DEF Managers
<1>2. i = IF I # {} THEN Min(I) ELSE 0
  BY Zenon DEF SelectInSeq
<1>3. InInactive(s, P) = IF i = 0 THEN NONE ELSE l[i]
  BY Zenon DEF InInactive
<1>4. CASE I = {}
  BY <1>2, <1>3, <1>4
<1>5. CASE I # {}
  <2>1. I \subseteq Nat
    OBVIOUS
  <2>2. \E x \in I : \A y \in I : x <= y
    BY <1>5, <2>1, Smallest
  <2>3. Min(I) \in I
    BY <2>2, Zenon DEF Min
  <2>4. i \in I
    BY <1>2, <1>5, <2>3
  <2> HIDE DEF i
  <2> QED
    BY <1>1, <1>3, <2>4
<1> QED
  BY <1>4, <1>5

(* Whoever is found by NAME has the NAME.                                  *)
LEMMA KnownHasName ==
    ASSUME NEW s \in Managers, NEW name
    PROVE  /\ Known(s, name) \in Objects \cup {NONE}
           /\ Known(s, name) # NONE => s.cf[Known(s, name)].name = name
<1> DEFINE named == {o \in Objects : s.cf[o].name = name}
<1>1. InTable(s, named) \in named \cup {NONE} /\ InInactive(s, named) \in named \cup {NONE}
  BY InTableKnown, InInactiveKnown
<1>2. Known(s, name) = IF InTable(s, named) # NONE THEN InTable(s, named) ELSE InInactive(s, named)
  BY Zenon DEF Known
<1> QED
  BY <1>1, <1>2

-----------------------------------------------------------------------------
(* Stage 1.                                                                *)

(* A partner that takes a NAME leaves the own control function alone,      *)
(* whose NAME no claim of others has.                                      *)
LEMMA FoundKeeps ==
    ASSUME NEW n \in Nodes, NEW s \in Manager(n), NEW f \in Frames, f.name \in Nodes \ {n}
    PROVE  LET c == Found(n, s, f) IN
           /\ c.s \in Manager(n) /\ c.found \in (Objects \ {n}) \cup {NONE}
           /\ c.s.state = s.state /\ c.s.queue = s.queue /\ c.s.cf[n] = s.cf[n]
<1>1. s \in Managers /\ s.cf[n].name = n
  BY DEF Manager
<1>2. Known(s, f.name) \in (Objects \ {n}) \cup {NONE}
  BY <1>1, KnownHasName, AddressesNumbers
<1>3. PARTNER \in Objects /\ PARTNER # n /\ f.address \in Slots
  BY AddressesNumbers DEF Objects, Frames
<1> DEFINE t == [s EXCEPT !.cf[PARTNER].name = f.name, !.table[f.address] = PARTNER]
<1>4. t \in Manager(n) /\ t.state = s.state /\ t.queue = s.queue /\ t.cf[n] = s.cf[n]
  <2> DEFINE cf == [s.cf EXCEPT ![PARTNER].name = f.name]
             table == [s.table EXCEPT ![f.address] = PARTNER]
  <2>1. s.cf \in [Objects -> ControlFunctions] /\ s.table \in [Slots -> Objects \cup {NONE}]
    BY <1>1 DEF Managers
  <2>2. cf \in [Objects -> ControlFunctions] /\ cf[n] = s.cf[n]
    BY <1>3, <2>1, AddressesNumbers DEF ControlFunctions
  <2>3. table \in [Slots -> Objects \cup {NONE}]
    BY <1>3, <2>1
  <2>4. t = [s EXCEPT !.cf = cf, !.table = table]
    BY <1>1, <2>1 DEF Managers
  <2> HIDE DEF cf, table, t
  <2> QED
    BY <1>1, <2>2, <2>3, <2>4 DEF Manager, Managers
<1> HIDE DEF t
<1>5. Found(n, s, f) = [s |-> t, found |-> PARTNER]
      \/ Found(n, s, f) = [s |-> s, found |-> Known(s, f.name)]
  BY Zenon DEF Found, t
<1>6. CASE Found(n, s, f) = [s |-> t, found |-> PARTNER]
  BY <1>3, <1>4, <1>6
<1>7. CASE Found(n, s, f) = [s |-> s, found |-> Known(s, f.name)]
  BY <1>2, <1>7
<1> QED
  BY <1>5, <1>6, <1>7

(* A node's own control function leaves the contention for its address     *)
(* without it, or, still to claim it once more, with it.                   *)
Contests(n, s, r) ==
    /\ r \in Manager(n) /\ r.queue = s.queue
    /\ r.cf[n].address \in {s.cf[n].address, NULL}
    /\ \/ r.state = s.state
       \/ Complete(s) /\ r.state = "SendReclaimAddressOnRequest"
       \/ Complete(s) /\ r.state = "WaitForRequestContentionPeriod" /\ r.cf[n].address = NULL

(* update_control_functions: the contention.                               *)
LEMMA ContendedContests ==
    ASSUME NEW n \in Nodes, NEW s \in Manager(n), NEW f \in Frames, NEW found
    PROVE  Contests(n, s, Contended(n, s, f, found))
<1> DEFINE rivals == {o \in Objects \ {found} : /\ s.cf[o].address = f.address
                                                /\ \E a \in Addresses : s.table[a] = o}
           ours == n \in rivals /\ Complete(s)
           won == n \in rivals /\ won_contention(n, s, f)
           losers == (IF won THEN rivals \ {n} ELSE rivals)
                       \cup {o \in Range(s.inactive) \ {found} : s.cf[o].address = f.address}
           state == IF won THEN "SendReclaimAddressOnRequest"
                    ELSE IF ours THEN "WaitForRequestContentionPeriod" ELSE s.state
           cf == [o \in Objects |-> IF o \in losers THEN [s.cf[o] EXCEPT !.address = NULL]
                                                    ELSE s.cf[o]]
<1>0. n \in Objects
  BY AddressesNumbers
<1>1. Contended(n, s, f, found) = [s EXCEPT !.state = state, !.cf = cf]
  BY Zenon DEF Contended
<1>2. s \in Managers /\ s.cf[n].name = n
  BY DEF Manager
<1>3. ours /\ ~won => n \in losers
  BY Zenon
<1>4. won => Complete(s)
  BY DEF won_contention
<1>5. state \in States
  BY <1>2 DEF Managers, States, Waiting
<1> HIDE DEF losers, won
<1>6. cf \in [Objects -> ControlFunctions] /\ cf[n].name = n
      /\ cf[n].address \in {s.cf[n].address, NULL} /\ (n \in losers => cf[n].address = NULL)
  BY <1>0, <1>2, AddressesNumbers DEF Managers, ControlFunctions, Slots
<1>7. \/ state = s.state
      \/ Complete(s) /\ state = "SendReclaimAddressOnRequest"
      \/ Complete(s) /\ state = "WaitForRequestContentionPeriod" /\ cf[n].address = NULL
  BY <1>3, <1>4, <1>6, Zenon
<1> HIDE DEF state, cf
<1>8. [s EXCEPT !.state = state, !.cf = cf] \in Manager(n)
  BY <1>2, <1>5, <1>6 DEF Manager, Managers
<1> QED
  BY <1>1, <1>2, <1>6, <1>7, <1>8 DEF Contests, Manager, Managers

(* Giving an object an address leaves the others as they are.              *)
LEMMA Moved ==
    ASSUME NEW s \in Managers, NEW n \in Objects, NEW o \in Objects \ {n}, NEW a \in Slots
    PROVE  LET cf == [s.cf EXCEPT ![o].address = a] IN
           cf \in [Objects -> ControlFunctions] /\ cf[n] = s.cf[n]
<1>1. s.cf \in [Objects -> ControlFunctions]
  BY DEF Managers
<1> QED
  BY <1>1 DEF ControlFunctions

(* The own control function is never the one that is created or moved.     *)
LEMMA PlacedKeeps ==
    ASSUME NEW n \in Nodes, NEW s \in Manager(n), NEW f \in Frames, f.name \in Nodes \ {n},
           NEW found \in (Objects \ {n}) \cup {NONE}
    PROVE  LET r == Placed(s, f, found) IN
           /\ r \in Manager(n) /\ r.state = s.state /\ r.queue = s.queue /\ r.cf[n] = s.cf[n]
<1> DEFINE a == f.address
           old == s.cf[found].address
           new == [s EXCEPT !.cf[f.name] = NewCF(f.name, a),
                            !.table[a] = IF a = NULL THEN @ ELSE f.name]
           moved == [s EXCEPT !.table = [@ EXCEPT ![a] = found, ![old] = NONE],
                              !.cf[found].address = a]
           given == [s EXCEPT !.cf[found].address = a]
<1>1. s \in Managers /\ s.cf[n].name = n /\ n \in Objects /\ f.name \in Objects /\ a \in Slots
  BY AddressesNumbers DEF Manager, Frames
<1>2. \/ Placed(s, f, found) = new /\ found = NONE
      \/ Placed(s, f, found) = s
      \/ Placed(s, f, found) \in {moved, given} /\ found # NONE
  BY Zenon DEF Placed
<1>3. new \in Manager(n) /\ new.state = s.state /\ new.queue = s.queue /\ new.cf[n] = s.cf[n]
  <2>1. NewCF(f.name, a) \in ControlFunctions
    BY <1>1 DEF NewCF, ControlFunctions
  <2> QED
    BY <1>1, <2>1 DEF Manager, Managers
<1>4. ASSUME found # NONE
      PROVE  given \in Manager(n) /\ given.state = s.state /\ given.queue = s.queue /\ given.cf[n] = s.cf[n]
  <2> DEFINE cf == [s.cf EXCEPT ![found].address = a]
  <2>1. cf \in [Objects -> ControlFunctions] /\ cf[n] = s.cf[n]
    BY <1>1, <1>4, Moved
  <2>2. given = [s EXCEPT !.cf = cf]
    BY <1>1 DEF Managers
  <2> HIDE DEF cf, given
  <2> QED
    BY <1>1, <2>1, <2>2 DEF Manager, Managers
<1>5. ASSUME found # NONE
      PROVE  moved \in Manager(n) /\ moved.state = s.state /\ moved.queue = s.queue /\ moved.cf[n] = s.cf[n]
  <2> DEFINE cf == [s.cf EXCEPT ![found].address = a]
             table == [s.table EXCEPT ![a] = found, ![old] = NONE]
  <2>1. cf \in [Objects -> ControlFunctions] /\ cf[n] = s.cf[n]
    BY <1>1, <1>5, Moved
  <2>2. s.table \in [Slots -> Objects \cup {NONE}]
    BY <1>1 DEF Managers
  <2>3. table \in [Slots -> Objects \cup {NONE}]
    BY <1>5, <2>2
  <2>4. moved = [s EXCEPT !.table = table, !.cf = cf]
    BY <1>1 DEF Managers
  <2> HIDE DEF cf, table, moved
  <2> QED
    BY <1>1, <2>1, <2>3, <2>4 DEF Manager, Managers
<1> HIDE DEF new, moved, given
<1> QED
  BY <1>2, <1>3, <1>4, <1>5

(* update_control_functions as a whole.                                    *)
LEMMA ClaimContests ==
    ASSUME NEW n \in Nodes, NEW s \in Manager(n), NEW f \in Frames, f.name \in Nodes \ {n}
    PROVE  Contests(n, s, update_control_functions(n, s, f))
<1> DEFINE c == Found(n, s, f)
           d == Contended(n, c.s, f, c.found)
           r == Placed(d, f, c.found)
<1>1. update_control_functions(n, s, f) = r
  <2>1. {[s |-> Contended(n, e.s, f, e.found), found |-> e.found] : e \in {c}}
          = {[s |-> d, found |-> c.found]}
    OBVIOUS
  <2>2. {Placed(e.s, f, e.found) : e \in {[s |-> d, found |-> c.found]}} = {r}
    OBVIOUS
  <2> HIDE DEF r
  <2> QED
    BY <2>1, <2>2, Only, Zenon DEF update_control_functions
<1>2. c.s \in Manager(n) /\ c.found \in (Objects \ {n}) \cup {NONE}
      /\ c.s.state = s.state /\ c.s.queue = s.queue /\ c.s.cf[n] = s.cf[n]
  BY FoundKeeps, Zenon
<1> HIDE DEF c
<1>3. Contests(n, c.s, d)
  BY <1>2, ContendedContests
<1> HIDE DEF d
<1>4. d \in Manager(n)
  BY <1>3 DEF Contests
<1>5. r \in Manager(n) /\ r.state = d.state /\ r.queue = d.queue /\ r.cf[n] = d.cf[n]
  BY <1>2, <1>4, PlacedKeeps, Zenon
<1> HIDE DEF r
<1> QED
  BY <1>1, <1>2, <1>3, <1>5 DEF Contests, Complete
-----------------------------------------------------------------------------
(* Stage 2: one message.                                                   *)

ProcessOne(n, t, f) ==
    The({process_rx_message_for_address_claiming(n, v, f) :
            v \in {address_violation(n, u, f) :
                    u \in {update_address_table(w, f) : w \in {t}}}})

Commanding == {"SendPreferredAddressClaim", "SendArbitraryAddressClaim"}

(* A frame that says somebody else has the address a.                      *)
Tells(f, a) == f.kind # "COMMAND" /\ f.address = a /\ a # NULL

(* update_address_table moves objects but gives nobody an address.         *)
LEMMA TableClaimKeeps ==
    ASSUME NEW n \in Nodes, NEW s \in Manager(n), NEW a \in Slots
    PROVE  LET r == TableClaim(s, a) IN
           /\ r \in Manager(n) /\ r.state = s.state /\ r.queue = s.queue
           /\ r.cf[n].address = s.cf[n].address
<1> DEFINE there == s.table[a]
           stolen == there # NONE /\ s.cf[there].address = NULL
           out == [s EXCEPT !.inactive = Append(@, there), !.table[a] = NONE]
           e == IF stolen THEN out ELSE s
           back == InInactive(e, {o \in Objects : e.cf[o].address = a})
           marked == [e EXCEPT !.cf[there].claimed = TRUE]
           put == [e EXCEPT !.table[a] = back]
<1>0. n \in Objects /\ s \in Managers /\ s.cf[n].name = n
  BY AddressesNumbers DEF Manager
<1>1. there \in Objects \cup {NONE}
  BY <1>0 DEF Managers
<1>2. TableClaim(s, a) = IF e.table[a] # NONE THEN marked ELSE put
  BY Zenon DEF TableClaim
<1>3. ASSUME stolen
      PROVE  /\ out \in Manager(n) /\ out.state = s.state /\ out.queue = s.queue /\ out.cf = s.cf
             /\ out.table[a] = NONE
  <2>1. Append(s.inactive, there) \in Seq(Objects)
    BY <1>0, <1>1, <1>3 DEF Managers
  <2>2. [s.table EXCEPT ![a] = NONE] \in [Slots -> Objects \cup {NONE}]
    BY <1>0 DEF Managers
  <2>3. out = [s EXCEPT !.inactive = Append(s.inactive, there), !.table = [s.table EXCEPT ![a] = NONE]]
    BY <1>0 DEF Managers
  <2>4. out.table[a] = NONE
    BY <1>0, <2>3 DEF Managers
  <2> HIDE DEF there, out
  <2> QED
    BY <1>0, <2>1, <2>2, <2>3, <2>4 DEF Manager, Managers
<1>4. e \in Manager(n) /\ e.state = s.state /\ e.queue = s.queue /\ e.cf = s.cf
      /\ (e.table[a] # NONE => there \in Objects)
  <2>1. CASE stolen
    BY <1>3, <2>1
  <2>2. CASE ~stolen
    BY <1>1, <2>2
  <2> QED
    BY <2>1, <2>2
<1> HIDE DEF e, there
<1>5. back \in Objects \cup {NONE}
  BY <1>4, InInactiveKnown DEF Manager
<1> HIDE DEF back
<1>6. put \in Manager(n) /\ put.state = e.state /\ put.queue = e.queue /\ put.cf = e.cf
  BY <1>4, <1>5 DEF Manager, Managers
<1>7. ASSUME there \in Objects
      PROVE  /\ marked \in Manager(n) /\ marked.state = e.state /\ marked.queue = e.queue
             /\ marked.cf[n].address = e.cf[n].address
  <2> DEFINE cf == [e.cf EXCEPT ![there].claimed = TRUE]
  <2>1. e.cf \in [Objects -> ControlFunctions] /\ e.cf[n].name = n
    BY <1>4 DEF Manager, Managers
  <2>2. cf \in [Objects -> ControlFunctions] /\ cf[n].address = e.cf[n].address /\ cf[n].name = n
    BY <1>0, <1>7, <2>1 DEF ControlFunctions
  <2>3. marked = [e EXCEPT !.cf = cf]
    BY <1>4 DEF Manager, Managers
  <2> HIDE DEF cf, marked
  <2> QED
    BY <1>4, <2>2, <2>3 DEF Manager, Managers
<1> HIDE DEF put, marked
<1> QED
  BY <1>2, <1>4, <1>6, <1>7

(* A request only marks.                                                   *)
LEMMA TableRequestKeeps ==
    ASSUME NEW n \in Nodes, NEW s \in Manager(n)
    PROVE  LET r == TableRequest(s) IN
           /\ r \in Manager(n) /\ r.state = s.state /\ r.queue = s.queue
           /\ r.cf[n].address = s.cf[n].address
<1> DEFINE listed == {o \in Objects : \E a \in Addresses : s.table[a] = o}
           first == IF s.inactive = <<>> THEN {} ELSE {Head(s.inactive)}
           cf == [o \in Objects |->
                    [s.cf[o] EXCEPT !.claimed = o \notin listed /\ (o \in first \/ s.cf[o].claimed)]]
<1>0. n \in Objects /\ s \in Managers /\ s.cf[n].name = n
  BY AddressesNumbers DEF Manager
<1>1. TableRequest(s) = [s EXCEPT !.asked = TRUE, !.cf = cf]
  BY Zenon DEF TableRequest
<1> HIDE DEF listed, first
<1>2. s.cf \in [Objects -> ControlFunctions]
  BY <1>0 DEF Managers
<1>3. cf \in [Objects -> ControlFunctions] /\ cf[n].name = n /\ cf[n].address = s.cf[n].address
  <2>1. ASSUME NEW o \in Objects
        PROVE  /\ cf[o] \in ControlFunctions /\ cf[o].name = s.cf[o].name
               /\ cf[o].address = s.cf[o].address
    <3> DEFINE b == o \notin listed /\ (o \in first \/ s.cf[o].claimed)
    <3>1. b \in BOOLEAN
      BY Zenon
    <3>2. cf[o] = [s.cf[o] EXCEPT !.claimed = b]
      BY Zenon
    <3>3. s.cf[o] \in ControlFunctions
      BY <1>2
    <3> HIDE DEF b, cf
    <3> QED
      BY <3>1, <3>2, <3>3 DEF ControlFunctions
  <2>2. DOMAIN cf = Objects /\ cf = [o \in Objects |-> cf[o]]
    BY Zenon
  <2> HIDE DEF cf
  <2> QED
    BY <1>0, <2>1, <2>2
<1> HIDE DEF cf
<1> QED
  BY <1>0, <1>1, <1>3 DEF Manager, Managers

(* What one message does to a node's own control function.                 *)
Handles(n, f, t, w) ==
    /\ w \in Manager(n) /\ w.queue = t.queue /\ w.cf[n].address = t.cf[n].address
    /\ \/ w.state = t.state
       \/ Complete(t) /\ w.state = "SendReclaimAddressOnRequest"
       \/ Complete(t) /\ f.kind = "COMMAND" /\ w.state \in Commanding
    /\ Complete(w) => ~Tells(f, t.cf[n].address)

(* update_address_table, address_violation and the claim's own handler:    *)
(* whoever is told of somebody else at its address claims once more.       *)
LEMMA MessageHandled ==
    ASSUME NEW n \in Nodes, NEW t \in Manager(n), NEW f \in Frames
    PROVE  Handles(n, f, t, ProcessOne(n, t, f))
<1> DEFINE u == update_address_table(t, f)
           v == address_violation(n, u, f)
           w == process_rx_message_for_address_claiming(n, v, f)
<1>1. ProcessOne(n, t, f) = w
  <2>1. {update_address_table(x, f) : x \in {t}} = {u}
    OBVIOUS
  <2>2. {address_violation(n, x, f) : x \in {u}} = {v}
    OBVIOUS
  <2>3. {process_rx_message_for_address_claiming(n, x, f) : x \in {v}} = {w}
    OBVIOUS
  <2> HIDE DEF u, v, w
  <2> QED
    BY <2>1, <2>2, <2>3, Only, Zenon DEF ProcessOne
<1>2. f.address \in Slots
  BY DEF Frames
<1>3. /\ u \in Manager(n) /\ u.state = t.state /\ u.queue = t.queue
      /\ u.cf[n].address = t.cf[n].address
  BY <1>2, TableClaimKeeps, TableRequestKeeps, Zenon DEF update_address_table
<1> HIDE DEF u
<1>4. /\ v \in Manager(n) /\ v.queue = u.queue /\ v.cf = u.cf
      /\ v.state = u.state \/ (Complete(u) /\ v.state = "SendReclaimAddressOnRequest")
      /\ Complete(v) => ~Tells(f, u.cf[n].address)
  BY <1>3 DEF address_violation, Tells, Complete, Manager, Managers, States, Waiting
<1> HIDE DEF v
<1>5. /\ w \in Manager(n) /\ w.queue = v.queue /\ w.cf = v.cf
      /\ \/ w.state = v.state
         \/ Complete(v) /\ w.state = "SendReclaimAddressOnRequest"
         \/ Complete(v) /\ f.kind = "COMMAND" /\ w.state \in Commanding
  <2>1. CASE f.kind = "REQUEST"
    BY <1>4, <2>1 DEF process_rx_message_for_address_claiming, Complete, Manager, Managers, States, Waiting
  <2>2. CASE f.kind = "COMMAND" /\ f.name = n
    <3>1. w = process_commanded_address(n, v, f.address)
      BY <2>2 DEF process_rx_message_for_address_claiming
    <3> HIDE DEF w
    <3> QED
      BY <1>2, <1>4, <2>2, <3>1
      DEF process_commanded_address, Complete, Commanding, Manager, Managers, States, Waiting
  <2>3. CASE f.kind # "REQUEST" /\ ~(f.kind = "COMMAND" /\ f.name = n)
    BY <1>4, <2>3, Zenon DEF process_rx_message_for_address_claiming
  <2> QED
    BY <2>1, <2>2, <2>3
<1> HIDE DEF w
<1> QED
  BY <1>1, <1>3, <1>4, <1>5 DEF Handles, Complete
-----------------------------------------------------------------------------
(* Stage 2: the queue.                                                     *)

(* The last element of a beginning of the numbers.                         *)
LEMMA GreatestOne ==
    ASSUME NEW k \in Nat, NEW t \in SUBSET (1..k), k \in t
    PROVE  Max(t) = k
<1>1. k \in t /\ \A y \in t : k >= y
  OBVIOUS
<1>2. \A x \in t : (\A y \in t : x >= y) => x = k
  OBVIOUS
<1> QED
  BY <1>1, <1>2 DEF Max

Worked(n, s, q) == FoldLeft(LAMBDA t, f : ProcessOne(n, t, f), s, q)

(* The manager after each of the queue's messages: what the fold that      *)
(* works them off yields is the last of these.                             *)
LEMMA QueueTraced ==
    ASSUME NEW n, NEW s, NEW q, Len(q) \in Nat, DOMAIN q = 1..Len(q)
    PROVE  \E h : /\ h[0] = s
                  /\ \A k \in 1..Len(q) : h[k] = ProcessOne(n, h[k - 1], q[k])
                  /\ Worked(n, s, q) = h[Len(q)]
<1> DEFINE l == Len(q)
           E(g, k) == g = [t \in SUBSET (1..k) |->
                             IF t = {} THEN s ELSE ProcessOne(n, g[t \ {Max(t)}], q[Max(t)])]
           P == {k \in 0..l : \E g : E(g, k)}
<1>0. l \in Nat
  OBVIOUS
<1>1. 0 \in P
  <2> DEFINE g == [t \in SUBSET (1..0) |-> s]
  <2>1. E(g, 0)
    <3>1. \A t \in SUBSET (1..0) : t = {}
      OBVIOUS
    <3> QED
      BY <3>1, Zenon
  <2> QED
    BY <1>0, <2>1
<1>2. ASSUME NEW k \in 0..(l - 1), k \in P PROVE k + 1 \in P
  <2>1. PICK g : E(g, k)
    BY <1>2
  <2> DEFINE G == [t \in SUBSET (1..(k + 1)) |->
                     IF k + 1 \in t THEN ProcessOne(n, g[t \ {k + 1}], q[k + 1]) ELSE g[t]]
  <2>2. ASSUME NEW t \in SUBSET (1..(k + 1))
        PROVE  G[t] = IF t = {} THEN s ELSE ProcessOne(n, G[t \ {Max(t)}], q[Max(t)])
    <3>1. CASE k + 1 \in t
      <4>1. k + 1 \in Nat
        BY <1>0
      <4>2. Max(t) = k + 1
        BY <3>1, <4>1, GreatestOne
      <4>3. /\ t \ {k + 1} \in SUBSET (1..k) /\ t \ {k + 1} \in SUBSET (1..(k + 1))
            /\ k + 1 \notin t \ {k + 1}
        BY <1>0
      <4>4. G[t \ {k + 1}] = g[t \ {k + 1}]
        BY <4>3, Zenon
      <4>5. G[t] = ProcessOne(n, g[t \ {k + 1}], q[k + 1])
        BY <3>1, Zenon
      <4> QED
        BY <3>1, <4>2, <4>4, <4>5, Zenon
    <3>2. CASE k + 1 \notin t
      <4>1. t \in SUBSET (1..k)
        BY <1>0, <3>2
      <4>2. G[t] = g[t]
        BY <3>2, Zenon
      <4>3. g[t] = IF t = {} THEN s ELSE ProcessOne(n, g[t \ {Max(t)}], q[Max(t)])
        BY <2>1, <4>1, Zenon
      <4>4. t \ {Max(t)} \in SUBSET (1..(k + 1)) /\ k + 1 \notin t \ {Max(t)}
        BY <3>2, Zenon
      <4>5. G[t \ {Max(t)}] = g[t \ {Max(t)}]
        BY <4>4, Zenon
      <4> QED
        BY <4>2, <4>3, <4>5, Zenon
    <3> QED
      BY <3>1, <3>2
  <2>3. E(G, k + 1)
    <3> DEFINE H == [t \in SUBSET (1..(k + 1)) |->
                       IF t = {} THEN s ELSE ProcessOne(n, G[t \ {Max(t)}], q[Max(t)])]
    <3>1. DOMAIN G = DOMAIN H /\ \A t \in DOMAIN G : G[t] = H[t]
      BY <2>2, Zenon
    <3>2. G = [t \in DOMAIN G |-> G[t]] /\ H = [t \in DOMAIN H |-> H[t]]
      BY Zenon
    <3> HIDE DEF G, H
    <3>3. G = H
      BY <3>1, <3>2, Zenon
    <3> QED
      BY <3>3 DEF H
  <2>4. k + 1 \in 0..l
    BY <1>0
  <2> HIDE DEF G
  <2> QED
    BY <2>3, <2>4, Zenon
<1>3. l \in P
  <2> HIDE DEF P
  <2>1. \A k \in 0..l : k \in P
    BY <1>0, <1>1, <1>2, Counting
  <2> QED
    BY <1>0, <2>1
<1> DEFINE F == CHOOSE g : E(g, l)
<1>4. E(F, l)
  BY <1>3, Zenon
<1>5. Worked(n, s, q) = F[1..l]
  BY Zenon DEF Worked, FoldLeft, MapThenFoldSet
<1> HIDE DEF F
<1> DEFINE h == [k \in 0..l |-> F[1..k]]
<1>6. h[0] = s
  <2>1. 1..0 = {} /\ {} \in SUBSET (1..l) /\ 0 \in 0..l
    BY <1>0
  <2> QED
    BY <1>4, <2>1, Zenon
<1>7. ASSUME NEW k \in 1..l PROVE h[k] = ProcessOne(n, h[k - 1], q[k])
  <2> k \in 0..l /\ k - 1 \in 0..l /\ k \in Nat /\ k \in 1..k
    BY <1>0
  <2>0. 1..k # {}
    BY Zenon
  <2>1. 1..k \in SUBSET (1..l) /\ (1..k) \ {k} = 1..(k - 1)
    BY <1>0, <2>0
  <2>2. Max(1..k) = k
    BY <2>0, GreatestOne
  <2>3. F[1..k] = ProcessOne(n, F[1..(k - 1)], q[k])
    BY <1>4, <2>0, <2>1, <2>2, Zenon
  <2> QED
    BY <2>0, <2>3, Zenon
<1>8. h[l] = F[1..l]
  BY <1>0
<1> HIDE DEF h
<1> QED
  BY <1>5, <1>6, <1>7, <1>8, Zenon

(* What the first k messages of the queue do to a node's own control       *)
(* function: it keeps its address, and unless it is to claim again nobody  *)
(* told it that somebody else has the address.                             *)
Handled(n, s, k, t) ==
    /\ t \in Manager(n) /\ t.queue = s.queue /\ t.cf[n].address = s.cf[n].address
    /\ \/ t.state = s.state
       \/ Complete(s) /\ t.state = "SendReclaimAddressOnRequest"
       \/ /\ Complete(s) /\ t.state \in Commanding
          /\ \E i \in 1..k : s.queue[i].kind = "COMMAND"
    /\ Complete(t) => Complete(s) /\ \A i \in 1..k : ~Tells(s.queue[i], s.cf[n].address)

(* process_rx_messages works the whole queue off.                          *)
LEMMA QueueHandled ==
    ASSUME NEW n \in Nodes, NEW s \in Manager(n)
    PROVE  \E t : /\ Handled(n, s, Len(s.queue), t)
                  /\ process_rx_messages(n, s) = [t EXCEPT !.queue = <<>>]
<1> DEFINE q == s.queue
<1>1. q \in Seq(Frames) /\ Len(q) \in Nat /\ DOMAIN q = 1..Len(q)
  BY DEF Manager, Managers
<1>2. process_rx_messages(n, s) = [Worked(n, s, q) EXCEPT !.queue = <<>>]
  BY Zenon DEF process_rx_messages, Worked, ProcessOne
<1>3. PICK h : /\ h[0] = s
               /\ \A k \in 1..Len(q) : h[k] = ProcessOne(n, h[k - 1], q[k])
               /\ Worked(n, s, q) = h[Len(q)]
  <2> HIDE DEF q
  <2> QED
    BY <1>1, QueueTraced
<1> DEFINE P == {k \in 0..Len(q) : Handled(n, s, k, h[k])}
<1>4. 0 \in P
  <2>1. 1..0 = {} /\ 0 \in 0..Len(q)
    BY <1>1
  <2> QED
    BY <1>3, <2>1, Zenon DEF Handled
<1>5. ASSUME NEW k \in 0..(Len(q) - 1), k \in P PROVE k + 1 \in P
  <2> DEFINE t == h[k]
             w == h[k + 1]
             f == q[k + 1]
  <2>1. k + 1 \in 1..Len(q) /\ k + 1 \in 0..Len(q) /\ (k + 1) - 1 = k
        /\ (\A i \in 1..(k + 1) : i \in 1..k \/ i = k + 1)
        /\ k + 1 \in 1..(k + 1) /\ (\A i \in 1..k : i \in 1..(k + 1))
    BY <1>1
  <2>2. f \in Frames
    BY <1>1, <2>1
  <2>3. Handled(n, s, k, t)
    BY <1>5
  <2>4. w = ProcessOne(n, t, f)
    BY <1>3, <2>1
  <2> HIDE DEF t, w
  <2>5. Handles(n, f, t, w)
    BY <2>2, <2>3, <2>4, MessageHandled DEF Handled
  <2>6. Handled(n, s, k + 1, w)
    <3>1. w \in Manager(n) /\ w.queue = s.queue /\ w.cf[n].address = s.cf[n].address
      BY <2>3, <2>5 DEF Handled, Handles
    <3>2. t.state # s.state => t.state # "AddressClaimingComplete"
      BY <2>3 DEF Handled, Commanding
    <3>3. \/ w.state = s.state
          \/ Complete(s) /\ w.state = "SendReclaimAddressOnRequest"
          \/ /\ Complete(s) /\ w.state \in Commanding
             /\ \E i \in 1..(k + 1) : s.queue[i].kind = "COMMAND"
      <4>1. CASE w.state = t.state
        BY <2>1, <2>3, <4>1, Zenon DEF Handled
      <4>2. CASE w.state # t.state
        <5>1. Complete(t)
          BY <2>5, <4>2, Zenon DEF Handles
        <5>2. t.state = s.state /\ Complete(s)
          BY <3>2, <5>1, Zenon DEF Complete
        <5> QED
          BY <2>1, <2>5, <4>2, <5>2, Zenon DEF Handles
      <4> QED
        BY <4>1, <4>2
    <3>4. ASSUME Complete(w)
          PROVE  Complete(s) /\ \A i \in 1..(k + 1) : ~Tells(s.queue[i], s.cf[n].address)
      <4>1. w.state = t.state
        BY <2>5, <3>4 DEF Handles, Complete, Commanding
      <4>2. Complete(t)
        BY <3>4, <4>1, Zenon DEF Complete
      <4>3. ~Tells(f, t.cf[n].address) /\ t.cf[n].address = s.cf[n].address
        BY <2>3, <2>5, <3>4, Zenon DEF Handles, Handled
      <4>4. Complete(s) /\ \A i \in 1..k : ~Tells(s.queue[i], s.cf[n].address)
        BY <2>3, <4>2, Zenon DEF Handled
      <4> QED
        BY <2>1, <4>3, <4>4, Zenon
    <3> QED
      BY <3>1, <3>3, <3>4, Zenon DEF Handled
  <2> QED
    BY <2>1, <2>6 DEF w
<1> HIDE DEF P
<1>6. \A k \in 0..Len(q) : k \in P
  BY <1>1, <1>4, <1>5, Counting
<1>7. Handled(n, s, Len(q), h[Len(q)])
  BY <1>1, <1>6 DEF P
<1> QED
  BY <1>2, <1>3, <1>7, Zenon
-----------------------------------------------------------------------------
(* New partners, claims and the pruning.                                   *)

(* An own control function that is neither moved nor told anything.        *)
Undisturbed(n, s, r) ==
    r \in Manager(n) /\ r.state = s.state /\ r.queue = s.queue /\ r.cf[n] = s.cf[n]

(* Taking an object out of a list leaves a list of objects.                *)
LEMMA RemovedFirst ==
    ASSUME NEW s \in Seq(Objects), NEW e
    PROVE  RemoveFirst(s, e) \in Seq(Objects)
<1> DEFINE I == {i \in 1..Len(s) : s[i] = e}
           i == SelectInSeq(s, LAMBDA v : v = e)
<1>1. i = IF I # {} THEN Min(I) ELSE 0
  BY Zenon DEF SelectInSeq
<1>2. Len(s) \in Nat
  OBVIOUS
<1>3. CASE I = {}
  <2>1. ~(\E j \in 1..Len(s) : s[j] = e)
    BY <1>3
  <2>2. RemoveFirst(s, e) = s
    BY <2>1, Zenon DEF RemoveFirst
  <2> QED
    BY <2>2
<1>4. CASE I # {}
  <2>1. I \subseteq Nat
    BY <1>2
  <2>2. \E x \in I : \A y \in I : x <= y
    BY <1>4, <2>1, Smallest
  <2>3. Min(I) \in I
    BY <2>2, Zenon DEF Min
  <2>4. i \in 1..Len(s)
    BY <1>1, <1>4, <2>3
  <2>5. RemoveFirst(s, e) = RemoveAt(s, i)
    BY <1>4, Zenon DEF RemoveFirst
  <2> HIDE DEF i
  <2>6. RemoveAt(s, i) = SubSeq(s, 1, i - 1) \o SubSeq(s, i + 1, Len(s))
    BY Zenon DEF RemoveAt
  <2>7. SubSeq(s, 1, i - 1) \in Seq(Objects) /\ SubSeq(s, i + 1, Len(s)) \in Seq(Objects)
    BY <1>2, <2>4
  <2> QED
    BY <2>5, <2>6, <2>7
<1> QED
  BY <1>3, <1>4

(* A partner that takes the place of an external control function leaves   *)
(* the own one as it is.                                                   *)
LEMMA PartnersUndisturbed ==
    ASSUME NEW n \in Nodes, NEW s \in Manager(n)
    PROVE  Undisturbed(n, s, update_new_partners(n, s))
<1> DEFINE externals == {o \in Nodes \ {n} : o \in Filter[n]}
           idle == InInactive(s, externals)
           match == InTable(s, externals)
           a == s.cf[match].address
           t == [s EXCEPT !.partner = "initialized", !.inactive = RemoveFirst(@, idle)]
           replaced == [t EXCEPT !.cf[PARTNER] = [@ EXCEPT !.name = match, !.address = a],
                                 !.table[a] = PARTNER]
<1>0. /\ s \in Managers /\ s.cf[n].name = n /\ n \in Objects /\ PARTNER \in Objects
      /\ PARTNER # n
  BY AddressesNumbers DEF Manager, Objects
<1>1. update_new_partners(n, s)
        = IF s.partner # "new" THEN s ELSE IF match = NONE THEN t ELSE replaced
  BY Zenon DEF update_new_partners
<1>2. match \in Nodes \cup {NONE}
  BY <1>0, InTableKnown
<1>3. RemoveFirst(s.inactive, idle) \in Seq(Objects)
  BY <1>0, RemovedFirst DEF Managers
<1>4. Undisturbed(n, s, t)
  <2>1. t = [s EXCEPT !.partner = "initialized", !.inactive = RemoveFirst(s.inactive, idle)]
    OBVIOUS
  <2> HIDE DEF idle, t
  <2> QED
    BY <1>0, <1>3, <2>1 DEF Undisturbed, Manager, Managers
<1> HIDE DEF t
<1>5. ASSUME match # NONE PROVE Undisturbed(n, s, replaced)
  <2>1. match \in Nodes /\ a \in Slots
    BY <1>0, <1>2, <1>5, AddressesNumbers DEF Managers, ControlFunctions
  <2> HIDE DEF match, a
  <2> DEFINE cf == [t.cf EXCEPT ![PARTNER] = [@ EXCEPT !.name = match, !.address = a]]
             table == [t.table EXCEPT ![a] = PARTNER]
  <2>2. t \in Managers /\ t.cf \in [Objects -> ControlFunctions]
        /\ t.table \in [Slots -> Objects \cup {NONE}]
    BY <1>4 DEF Undisturbed, Manager, Managers
  <2>3. cf \in [Objects -> ControlFunctions] /\ cf[n] = t.cf[n]
    BY <1>0, <2>1, <2>2 DEF ControlFunctions
  <2>4. table \in [Slots -> Objects \cup {NONE}]
    BY <1>0, <2>1, <2>2
  <2>5. replaced = [t EXCEPT !.cf = cf, !.table = table]
    BY <2>2 DEF Managers
  <2> HIDE DEF cf, table, replaced
  <2> QED
    BY <1>4, <2>2, <2>3, <2>4, <2>5 DEF Undisturbed, Manager, Managers
<1>6. Undisturbed(n, s, s)
  BY DEF Undisturbed
<1> HIDE DEF match, replaced
<1> QED
  BY <1>1, <1>4, <1>5, <1>6

(* update_internal_cfs: who claims an address has it.                      *)
LEMMA ClaimedHolds ==
    ASSUME NEW n \in Nodes, NEW s \in Manager(n), NEW a \in Slots, NEW p \in Slots
    PROVE  LET r == Claimed(n, s, a, p) IN
           r \in Manager(n) /\ Complete(r) /\ r.queue = s.queue /\ r.cf[n].address = a
<1> DEFINE own == {b \in Addresses : s.table[b] = n}
           t == IF own = {} THEN s.table ELSE [s.table EXCEPT ![Lowest(own)] = NONE]
           cf == [o \in Objects |->
                    IF o = n THEN [s.cf[o] EXCEPT !.address = a]
                    ELSE IF o = t[a] THEN [s.cf[o] EXCEPT !.address = NULL]
                    ELSE s.cf[o]]
           table == [t EXCEPT ![a] = n]
<1>0. s \in Managers /\ s.cf[n].name = n /\ n \in Objects
  BY AddressesNumbers DEF Manager
<1>1. Claimed(n, s, a, p)
        = [s EXCEPT !.state = "AddressClaimingComplete", !.preferred = p, !.cf = cf, !.table = table]
  BY Zenon DEF Claimed
<1>2. s.cf \in [Objects -> ControlFunctions] /\ s.table \in [Slots -> Objects \cup {NONE}]
  BY <1>0 DEF Managers
<1>3. t \in [Slots -> Objects \cup {NONE}]
  BY <1>2
<1> HIDE DEF t
<1>4. table \in [Slots -> Objects \cup {NONE}]
  BY <1>0, <1>3
<1>5. cf \in [Objects -> ControlFunctions] /\ cf[n].name = n /\ cf[n].address = a
  BY <1>0, <1>2 DEF ControlFunctions, Slots
<1> HIDE DEF cf, table
<1> QED
  BY <1>0, <1>1, <1>4, <1>5 DEF Complete, Manager, Managers, States, Waiting

(* What a state of the claim machine tries: a node that claims has the     *)
(* address it claims, if the driver takes the claim; what it does without  *)
(* a claim leaves its address alone.                                       *)
Tries(n, s, r) ==
    /\ r.done \in Manager(n) /\ r.else \in Manager(n)
    /\ r.done.queue = s.queue /\ r.else.queue = s.queue /\ r.else.cf[n].address = s.cf[n].address
    /\ \/ /\ r.frames = <<Claim(n, r.done.cf[n].address)>>
          /\ Complete(r.done) \/ r.done.cf[n].address = NULL
       \/ /\ r.frames \in {<<>>, <<Request>>}
          /\ r.done.cf[n].address = s.cf[n].address

(* send_cannot_claim_source_address.                                       *)
LEMMA GivingUp ==
    ASSUME NEW n \in Nodes, NEW s \in Manager(n)
    PROVE  /\ Tries(n, s, GiveUp(n, s))
           /\ GiveUp(n, s).done.cf[n].address = NULL
<1> DEFINE t == To(s, "UnableToClaim")
           d == [t EXCEPT !.cf[n].address = NULL]
<1>1. GiveUp(n, s) = [frames |-> <<Claim(n, NULL)>>, done |-> d, else |-> t]
  BY Zenon DEF GiveUp, Attempt
<1>2. t \in Manager(n) /\ t.queue = s.queue /\ t.cf = s.cf
  BY DEF To, Manager, Managers, States, Waiting
<1> HIDE DEF t
<1>3. d \in Manager(n) /\ d.queue = t.queue /\ d.cf[n].address = NULL
  <2> DEFINE cf == [t.cf EXCEPT ![n].address = NULL]
  <2>1. t.cf \in [Objects -> ControlFunctions] /\ n \in Objects /\ t.cf[n].name = n
    BY <1>2, AddressesNumbers DEF Manager, Managers
  <2>2. cf \in [Objects -> ControlFunctions] /\ cf[n].name = n /\ cf[n].address = NULL
    BY <2>1 DEF ControlFunctions, Slots
  <2>3. d = [t EXCEPT !.cf = cf]
    BY <1>2 DEF Manager, Managers
  <2> HIDE DEF cf, d
  <2> QED
    BY <1>2, <2>2, <2>3 DEF Manager, Managers
<1> HIDE DEF d
<1> QED
  BY <1>1, <1>2, <1>3 DEF Tries

(* A change of the state changes nothing else.                             *)
LEMMA StateChanged ==
    ASSUME NEW n \in Nodes, NEW s \in Manager(n), NEW state \in States
    PROVE  LET r == To(s, state) IN
           r \in Manager(n) /\ r.state = state /\ r.queue = s.queue /\ r.cf = s.cf
BY DEF To, Manager, Managers

(* update_address_claiming: a node that is complete sends nothing, one     *)
(* that is to claim claims, and keeps trying if the driver refuses its     *)
(* repeated claim.                                                         *)
LEMMA ClaimingTries ==
    ASSUME NEW n \in Nodes, NEW s \in Manager(n)
    PROVE  LET r == update_address_claiming(n, s) IN
           /\ Tries(n, s, r)
           /\ Complete(s) => r.frames = <<>> /\ r.done = s
           /\ s.state \in Commanding \cup {"SendReclaimAddressOnRequest"} =>
                 r.frames = <<Claim(n, r.done.cf[n].address)>>
           /\ s.state = "SendReclaimAddressOnRequest" => r.else = s
<1> DEFINE r == update_address_claiming(n, s)
           own == s.cf[n].address
           arbitrary == Lowest(Free(s))
           Takes(a, p, else) == Attempt(<<Claim(n, a)>>, Claimed(n, s, a, p), else)
<1>0. s \in Managers /\ own \in Slots /\ s.preferred \in Slots
  BY AddressesNumbers DEF Manager, Managers, ControlFunctions
<1>1. ASSUME NEW a \in Slots, NEW p \in Slots, NEW else \in Manager(n), else.queue = s.queue,
             else.cf = s.cf
      PROVE  /\ Tries(n, s, Takes(a, p, else))
             /\ Takes(a, p, else).frames = <<Claim(n, Takes(a, p, else).done.cf[n].address)>>
             /\ Takes(a, p, else).else = else
  <2> DEFINE d == Claimed(n, s, a, p)
  <2>1. d \in Manager(n) /\ Complete(d) /\ d.queue = s.queue /\ d.cf[n].address = a
    BY <1>1, ClaimedHolds
  <2> HIDE DEF d
  <2>2. /\ Takes(a, p, else).frames = <<Claim(n, a)>> /\ Takes(a, p, else).done = d
        /\ Takes(a, p, else).else = else
    BY DEF Attempt, d
  <2> HIDE DEF Takes
  <2> QED
    BY <1>1, <2>1, <2>2, Zenon DEF Tries
<1>2. ASSUME NEW frames \in {<<>>, <<Request>>}, NEW d \in Manager(n), d.queue = s.queue, d.cf = s.cf
      PROVE  /\ Tries(n, s, Attempt(frames, d, s)) /\ Attempt(frames, d, s).frames = frames
             /\ Attempt(frames, d, s).done = d
  <2>1. /\ Attempt(frames, d, s).frames = frames /\ Attempt(frames, d, s).done = d
        /\ Attempt(frames, d, s).else = s
    BY DEF Attempt
  <2> QED
    BY <1>2, <2>1 DEF Tries
<1>3. \A state \in States : To(s, state) \in Manager(n) /\ To(s, state).queue = s.queue
                            /\ To(s, state).cf = s.cf
  BY StateChanged
<1>4. /\ {"None", "WaitForClaim", "WaitForRequestContentionPeriod", "UnableToClaim"} \subseteq States
      /\ s.state \in States
  BY <1>0 DEF States, Waiting, Managers
<1>5. CASE s.state = "None"
  <2>1. r = Attempt(<<>>, To(s, "WaitForClaim"), s)
    BY <1>5 DEF update_address_claiming
  <2> QED
    BY <1>2, <1>3, <1>4, <1>5, <2>1 DEF Complete, Commanding
<1>6. CASE s.state = "SendRequestForClaim"
  <2>1. r = Attempt(<<Request>>, To(s, "WaitForRequestContentionPeriod"), s)
    BY <1>6 DEF update_address_claiming
  <2> QED
    BY <1>2, <1>3, <1>4, <1>6, <2>1 DEF Complete, Commanding
<1>7. CASE s.state \in {"SendPreferredAddressClaim", "ContendForPreferredAddress"}
  <2>1. r = Takes(s.preferred, s.preferred, To(s, "None"))
    BY <1>7 DEF update_address_claiming
  <2> HIDE DEF Takes
  <2> QED
    BY <1>0, <1>1, <1>3, <1>4, <1>7, <2>1 DEF Complete, Commanding
<1>8. CASE s.state = "SendReclaimAddressOnRequest"
  <2>1. r = Takes(own, s.preferred, s)
    BY <1>8 DEF update_address_claiming
  <2> HIDE DEF Takes
  <2> QED
    BY <1>0, <1>1, <1>8, <2>1 DEF Complete, Commanding
<1>9. CASE s.state = "SendArbitraryAddressClaim" /\ Free(s) # {}
  <2>1. r = Takes(arbitrary, IF s.preferred = NULL THEN arbitrary ELSE s.preferred,
                  To(s, "UnableToClaim"))
    BY <1>9 DEF update_address_claiming
  <2>2. Free(s) \subseteq Nat /\ Free(s) \subseteq Slots
    BY AddressesNumbers DEF Free, Slots
  <2>3. arbitrary \in Slots
    BY <1>9, <2>2, LowestIn
  <2> HIDE DEF Takes, arbitrary
  <2> QED
    BY <1>0, <1>1, <1>3, <1>4, <1>9, <2>1, <2>3 DEF Complete, Commanding
<1>10. CASE s.state = "SendArbitraryAddressClaim" /\ Free(s) = {}
  <2>1. r = GiveUp(n, s)
    BY <1>10 DEF update_address_claiming
  <2>2. r.frames = <<Claim(n, NULL)>> /\ r.done.cf[n].address = NULL
    <3>1. r.frames = <<Claim(n, NULL)>>
      BY <2>1 DEF GiveUp, Attempt
    <3> QED
      BY <2>1, <3>1, GivingUp
  <2>3. Tries(n, s, r)
    BY <2>1, GivingUp, Zenon
  <2> QED
    BY <1>10, <2>2, <2>3, Zenon DEF Complete, Commanding
<1>11. CASE s.state \in Waiting
  <2>1. r = Attempt(<<>>, s, s)
    BY <1>11 DEF update_address_claiming, Waiting
  <2> QED
    BY <1>2, <1>11, <2>1 DEF Complete, Commanding, Waiting
<1> HIDE DEF r
<1> QED
  BY <1>4, <1>5, <1>6, <1>7, <1>8, <1>9, <1>10, <1>11 DEF States

(* The end of the contention period.                                       *)
LEMMA ChoosingTries ==
    ASSUME NEW n \in Nodes, NEW s \in Manager(n)
    PROVE  Tries(n, s, Choose(n, s))
<1>1. {"SendPreferredAddressClaim", "ContendForPreferredAddress", "SendArbitraryAddressClaim"}
        \subseteq States
  BY DEF States
<1>2. ASSUME NEW state \in States PROVE Tries(n, s, Attempt(<<>>, To(s, state), s))
  <2> DEFINE d == To(s, state)
             r == Attempt(<<>>, d, s)
  <2>1. d \in Manager(n) /\ d.queue = s.queue /\ d.cf = s.cf
    BY StateChanged
  <2> HIDE DEF d
  <2>2. r.frames = <<>> /\ r.done = d /\ r.else = s
    BY DEF Attempt
  <2> HIDE DEF r
  <2>3. Tries(n, s, r)
    BY <2>1, <2>2 DEF Tries
  <2> QED
    BY <2>3, Zenon DEF r, d
<1>3. \/ \E state \in States : Choose(n, s) = Attempt(<<>>, To(s, state), s)
      \/ Choose(n, s) = GiveUp(n, s)
  BY <1>1, Zenon DEF Choose
<1> QED
  BY <1>2, <1>3, GivingUp

(* The addresses of a set have an order.                                   *)
LEMMA AscendingIn ==
    ASSUME NEW S, S \subseteq Addresses
    PROVE  Cardinality(S) \in Nat /\ Ascending(S) \in [1..Cardinality(S) -> S]
<1> DEFINE Sorts(q, T, k) == q \in [1..k -> T] /\ \A i, j \in DOMAIN q : i < j => q[i] < q[j]
           P == {k \in 0..Cardinality(S) :
                   \A T \in SUBSET Addresses : Cardinality(T) = k => \E q : Sorts(q, T, k)}
<1>0. \A T \in SUBSET Addresses : IsFiniteSet(T) /\ Cardinality(T) \in Nat
  BY AddressesNumbers, FS_Subset, FS_CardinalityType
<1>1. 0 \in P
  <2>1. ASSUME NEW T \in SUBSET Addresses PROVE Sorts(<<>>, T, 0)
    OBVIOUS
  <2>2. 0 \in 0..Cardinality(S)
    BY <1>0
  <2> QED
    BY <2>1, <2>2, Zenon
<1>2. ASSUME NEW k \in 0..(Cardinality(S) - 1), k \in P PROVE k + 1 \in P
  <2>1. k \in Nat /\ k + 1 \in 0..Cardinality(S)
    BY <1>0
  <2>2. ASSUME NEW T \in SUBSET Addresses, Cardinality(T) = k + 1
        PROVE  \E q : Sorts(q, T, k + 1)
    <3>1. T # {}
      BY <2>1, <2>2, FS_EmptySet
    <3>2. PICK m \in T : \A x \in T : x <= m
      <4> DEFINE U == {253 - x : x \in T}
      <4>0. \A x \in T : x \in 0..253
        BY AddressAssumption
      <4>1. U \subseteq Nat /\ U # {}
        BY <3>1, <4>0
      <4>2. PICK u \in U : \A v \in U : u <= v
        BY <4>1, Smallest
      <4>3. PICK m \in T : u = 253 - m
        BY <4>2
      <4>4. \A x \in T : 253 - m <= 253 - x
        BY <4>2, <4>3
      <4> QED
        BY <4>3, <4>4, AddressesNumbers
    <3>3. T \ {m} \in SUBSET Addresses /\ Cardinality(T \ {m}) = k
      <4>1. Cardinality(T \ {m}) = Cardinality(T) - 1
        BY <1>0, FS_RemoveElement
      <4> QED
        BY <2>1, <2>2, <4>1
    <3>4. PICK q : Sorts(q, T \ {m}, k)
      BY <1>2, <3>3
    <3> DEFINE p == [i \in 1..(k + 1) |-> IF i = k + 1 THEN m ELSE q[i]]
    <3>5. p \in [1..(k + 1) -> T]
      BY <2>1, <3>2, <3>4
    <3>6. ASSUME NEW i \in 1..(k + 1), NEW j \in 1..(k + 1), i < j PROVE p[i] < p[j]
      <4>1. i \in 1..k /\ p[i] = q[i] /\ q[i] \in T \ {m}
        BY <2>1, <3>4, <3>6
      <4>2. CASE j = k + 1
        <5>1. q[i] <= m /\ q[i] # m /\ q[i] \in Nat /\ m \in Nat
          BY <3>2, <4>1, AddressesNumbers
        <5> QED
          BY <4>1, <4>2, <5>1
      <4>3. CASE j # k + 1
        BY <2>1, <3>4, <3>6, <4>1, <4>3
      <4> QED
        BY <4>2, <4>3
    <3> HIDE DEF p
    <3>7. Sorts(p, T, k + 1)
      BY <3>5, <3>6
    <3> QED
      BY <3>7, Zenon
  <2> QED
    BY <2>1, <2>2, Zenon
<1>3. Cardinality(S) \in P
  <2> HIDE DEF P
  <2>1. \A k \in 0..Cardinality(S) : k \in P
    BY <1>0, <1>1, <1>2, Counting
  <2> QED
    BY <1>0, <2>1
<1>4. \E q : Sorts(q, S, Cardinality(S))
  BY <1>3
<1>5. \E q \in [1..Cardinality(S) -> S] : \A i, j \in DOMAIN q : i < j => q[i] < q[j]
  BY <1>4, Zenon
<1> QED
  BY <1>0, <1>5, Zenon DEF Ascending

(* prune_inactive_control_functions never drops the own one.               *)
LEMMA PrunedUndisturbed ==
    ASSUME NEW n \in Nodes, NEW s \in Manager(n)
    PROVE  Undisturbed(n, s, prune_inactive_control_functions(n, s))
<1> DEFINE stale == {a \in Addresses : /\ s.table[a] \notin {NONE, n}
                                       /\ ~s.cf[s.table[a]].claimed}
           gone == {s.table[a] : a \in stale}
           order == Ascending(stale)
           table == [a \in Slots |-> IF a \in stale THEN NONE ELSE s.table[a]]
           cf == [o \in Objects |-> IF o \in gone THEN [s.cf[o] EXCEPT !.address = NULL] ELSE s.cf[o]]
           more == [i \in DOMAIN order |-> s.table[order[i]]]
<1>0. s \in Managers /\ s.cf[n].name = n /\ n \in Objects
  BY AddressesNumbers DEF Manager
<1>1. prune_inactive_control_functions(n, s)
        = [s EXCEPT !.asked = FALSE, !.table = table, !.cf = cf, !.inactive = s.inactive \o more]
  BY Zenon DEF prune_inactive_control_functions
<1>2. s.cf \in [Objects -> ControlFunctions] /\ s.table \in [Slots -> Objects \cup {NONE}]
      /\ s.inactive \in Seq(Objects)
  BY <1>0 DEF Managers
<1>3. n \notin gone /\ gone \subseteq Objects /\ \A a \in stale : s.table[a] \in Objects
  BY <1>2 DEF Slots
<1>4. Cardinality(stale) \in Nat /\ order \in [1..Cardinality(stale) -> stale]
  <2>1. stale \subseteq Addresses
    OBVIOUS
  <2> HIDE DEF stale
  <2> QED
    BY <2>1, AscendingIn
<1> HIDE DEF order, gone, stale
<1>5. more \in Seq(Objects)
  <2>1. more \in [1..Cardinality(stale) -> Objects]
    BY <1>3, <1>4
  <2> QED
    BY <1>4, <2>1
<1>6. table \in [Slots -> Objects \cup {NONE}]
  BY <1>2
<1>7. cf \in [Objects -> ControlFunctions] /\ cf[n] = s.cf[n]
  BY <1>0, <1>2, <1>3 DEF ControlFunctions, Slots
<1> HIDE DEF table, cf, more
<1>8. s.inactive \o more \in Seq(Objects)
  BY <1>2, <1>5
<1> QED
  BY <1>0, <1>1, <1>6, <1>7, <1>8 DEF Undisturbed, Manager, Managers
-----------------------------------------------------------------------------
(* The invariant.                                                          *)

(* A node knows that somebody else has its address a, or will soon know:   *)
(* it is about to claim it once more, or a frame from a is on its way.     *)
Told(n, a) == \/ nm[n].state = "SendReclaimAddressOnRequest"
              \/ \E f \in Range(inbox[n]) \cup Range(nm[n].queue) : Tells(f, a)

TypesHold ==
    /\ nm \in [Nodes -> Managers] /\ inbox \in [Nodes -> Seq(Frames)] /\ up \subseteq Nodes
    /\ left \in [nodes : SUBSET Nodes, partner : SUBSET Nodes, fail : Nat, power : Nat,
                  talk : Nat, command : Nat]
    /\ \A n \in Nodes : nm[n].cf[n].name = n /\ Len(nm[n].queue) <= MaxBatch

(* Nobody receives claims of its own NAME.                                 *)
ClaimsOfOthers ==
    \A n \in Nodes : \A f \in Range(inbox[n]) : f.kind = "CLAIM" => f.name \in Nodes \ {n}

(* Either the drivers take every frame or no tool commands addresses.      *)
OneTrouble ==
    \/ left.fail = 0
    \/ /\ left.command = 0
       /\ \A n \in Nodes : \A f \in Range(inbox[n]) \cup Range(nm[n].queue) : f.kind # "COMMAND"

(* Who has an address has claimed it, or is about to claim it once more.   *)
HoldersClaimed ==
    \A n \in Nodes : nm[n].cf[n].address # NULL => n \in up /\ nm[n].state \in Holding

(* Of two nodes with one address one is told.                              *)
ContentionsTold ==
    \A m, n \in Nodes : LET a == nm[m].cf[m].address IN
        m # n /\ a # NULL /\ nm[n].cf[n].address = a => Told(m, a) \/ Told(n, a)

ClaimInv == TypesHold /\ ClaimsOfOthers /\ OneTrouble /\ HoldersClaimed /\ ContentionsTold

(* What the types say of one node.                                         *)
LEMMA ManagersTyped ==
    ASSUME TypesHold, NEW n \in Nodes
    PROVE  nm[n] \in Manager(n) /\ inbox[n] \in Seq(Frames) /\ nm[n].cf[n].address \in Slots
<1>1. nm[n] \in Managers /\ nm[n].cf[n].name = n /\ n \in Objects
  BY AddressesNumbers DEF TypesHold
<1> QED
  BY <1>1 DEF TypesHold, Manager, Managers, ControlFunctions

(* What a node does on its own account: its frames reach the others, and   *)
(* if it has an address afterwards then either it has just claimed it from *)
(* everyone or it had it, and what it was told is not forgotten.           *)
Announced(n, a) == \A m \in up \ {n} : \E f \in Range(inbox[m]) : Tells(f, a)

Serves(n) ==
    /\ nm' \in [Nodes -> Managers] /\ inbox' \in [Nodes -> Seq(Frames)] /\ up' = up
    /\ left' \in [nodes : SUBSET Nodes, partner : SUBSET Nodes, fail : Nat, power : Nat,
                   talk : Nat, command : Nat]
    /\ left'.fail <= left.fail /\ left'.command = left.command
    /\ nm'[n] \in Manager(n) /\ Len(nm'[n].queue) <= MaxBatch
    /\ \A m \in Nodes \ {n} : nm'[m] = nm[m] /\ Range(inbox[m]) \subseteq Range(inbox'[m])
    /\ \A m \in Nodes : \A f \in Range(inbox'[m]) \ Range(inbox[m]) :
          f.kind # "COMMAND" /\ (f.kind = "CLAIM" => m # n /\ f.name = n)
    /\ Range(nm'[n].queue) \subseteq Range(nm[n].queue) \cup Range(inbox[n])
    /\ \A a \in Slots : nm'[n].cf[n].address = a /\ a # NULL =>
          /\ n \in up /\ nm'[n].state \in Holding
          /\ \/ Announced(n, a)'
             \/ nm[n].cf[n].address = a /\ (Told(n, a) => Told(n, a)')

(* Whatever serves keeps the invariant.                                    *)
LEMMA ServingKeeps ==
    ASSUME ClaimInv, NEW n \in Nodes, Serves(n)
    PROVE  ClaimInv'
<1>0. nm'[n].cf[n].address \in Slots
  BY AddressesNumbers DEF Serves, Manager, Managers, ControlFunctions
<1>1. TypesHold'
  <2>1. nm'[n].cf[n].name = n
    BY DEF Serves, Manager
  <2>2. ASSUME NEW m \in Nodes PROVE nm'[m].cf[m].name = m /\ Len(nm'[m].queue) <= MaxBatch
    BY <2>1, <2>2, Zenon DEF Serves, ClaimInv, TypesHold
  <2> QED
    BY <2>2 DEF Serves, ClaimInv, TypesHold
<1>2. ClaimsOfOthers'
  <2> SUFFICES ASSUME NEW m \in Nodes, NEW f \in Range(inbox'[m]), f.kind = "CLAIM"
               PROVE  f.name \in Nodes \ {m}
    BY DEF ClaimsOfOthers
  <2>1. CASE f \in Range(inbox[m])
    BY <2>1 DEF ClaimInv, ClaimsOfOthers
  <2>2. CASE f \notin Range(inbox[m])
    BY <2>2 DEF Serves
  <2> QED
    BY <2>1, <2>2
<1>3. OneTrouble'
  <2>1. CASE left.fail = 0
    <3>1. left'.fail = 0
      BY <2>1 DEF Serves
    <3> QED
      BY <3>1 DEF OneTrouble
  <2>2. CASE left.fail # 0
    <3>1. /\ left.command = 0
          /\ \A m \in Nodes : \A f \in Range(inbox[m]) \cup Range(nm[m].queue) : f.kind # "COMMAND"
      BY <2>2 DEF ClaimInv, OneTrouble
    <3>2. ASSUME NEW m \in Nodes, NEW f \in Range(inbox'[m]) \cup Range(nm'[m].queue)
          PROVE  f.kind # "COMMAND"
      <4>1. \/ f \in Range(inbox[m]) \cup Range(nm[m].queue)
            \/ f \in Range(inbox'[m]) \ Range(inbox[m])
        BY DEF Serves
      <4> QED
        BY <3>1, <4>1 DEF Serves
    <3>3. left'.command = 0
      BY <3>1 DEF Serves
    <3> QED
      BY <3>2, <3>3 DEF OneTrouble
  <2> QED
    BY <2>1, <2>2
<1>4. HoldersClaimed'
  <2> SUFFICES ASSUME NEW m \in Nodes, nm'[m].cf[m].address # NULL
               PROVE  m \in up' /\ nm'[m].state \in Holding
    BY DEF HoldersClaimed
  <2>1. CASE m = n
    BY <1>0, <2>1, Zenon DEF Serves
  <2>2. CASE m # n
    BY <2>2, Zenon DEF Serves, ClaimInv, HoldersClaimed
  <2> QED
    BY <2>1, <2>2
<1>5. ASSUME NEW m \in Nodes \ {n}, NEW a, Told(m, a) PROVE Told(m, a)'
  <2>1. nm'[m] = nm[m] /\ Range(inbox[m]) \subseteq Range(inbox'[m])
    BY DEF Serves
  <2> QED
    BY <1>5, <2>1 DEF Told
<1>6. ASSUME NEW m \in Nodes \ {n}, NEW a, a # NULL,
             nm'[m].cf[m].address = a, nm'[n].cf[n].address = a
      PROVE  Told(m, a)' \/ Told(n, a)'
  <2>1. nm[m].cf[m].address = a
    BY <1>6 DEF Serves
  <2>2. m \in up
    BY <1>6, <2>1 DEF ClaimInv, HoldersClaimed
  <2>3. CASE Announced(n, a)'
    <3>1. \E f \in Range(inbox'[m]) : Tells(f, a)
      BY <2>2, <2>3 DEF Serves, Announced
    <3> QED
      BY <3>1 DEF Told
  <2>4. CASE nm[n].cf[n].address = a /\ (Told(n, a) => Told(n, a)')
    <3>1. Told(m, a) \/ Told(n, a)
      BY <1>6, <2>1, <2>4 DEF ClaimInv, ContentionsTold
    <3> QED
      BY <1>5, <2>4, <3>1
  <2> QED
    BY <1>0, <1>6, <2>3, <2>4, Zenon DEF Serves
<1>7. ContentionsTold'
  <2> SUFFICES ASSUME NEW m \in Nodes, NEW k \in Nodes, NEW a, m # k, a # NULL,
                      nm'[m].cf[m].address = a, nm'[k].cf[k].address = a
               PROVE  Told(m, a)' \/ Told(k, a)'
    BY Zenon DEF ContentionsTold
  <2>1. CASE m = n
    BY <1>6, <2>1
  <2>2. CASE k = n
    BY <1>6, <2>2
  <2>3. CASE m # n /\ k # n
    <3>1. nm[m].cf[m].address = a /\ nm[k].cf[k].address = a
      BY <2>3, Zenon DEF Serves
    <3>2. Told(m, a) \/ Told(k, a)
      BY <3>1, Zenon DEF ClaimInv, ContentionsTold
    <3> QED
      BY <1>5, <2>3, <3>2
  <2> QED
    BY <2>1, <2>2, <2>3
<1> QED
  BY <1>1, <1>2, <1>3, <1>4, <1>7 DEF ClaimInv
-----------------------------------------------------------------------------
(* The steps.                                                              *)

(* The elements of a sequence.                                             *)
LEMMA RangeTyped ==
    ASSUME NEW S, NEW q \in Seq(S)
    PROVE  Range(q) \subseteq S
BY DEF Range

(* The elements of two sequences, joined.                                  *)
LEMMA RangeJoined ==
    ASSUME NEW S, NEW q \in Seq(S), NEW r \in Seq(S)
    PROVE  q \o r \in Seq(S) /\ Range(q \o r) = Range(q) \cup Range(r)
<1> DEFINE t == q \o r
<1>1. /\ t \in Seq(S) /\ Len(t) = Len(q) + Len(r) /\ Len(q) \in Nat /\ Len(r) \in Nat
      /\ DOMAIN t = 1..Len(t) /\ DOMAIN q = 1..Len(q) /\ DOMAIN r = 1..Len(r)
      /\ \A i \in 1..(Len(q) + Len(r)) : t[i] = IF i <= Len(q) THEN q[i] ELSE r[i - Len(q)]
  OBVIOUS
<1> HIDE DEF t
<1>2. ASSUME NEW x \in Range(t) PROVE x \in Range(q) \cup Range(r)
  <2>1. PICK i \in 1..(Len(q) + Len(r)) : x = t[i]
    BY <1>1 DEF Range
  <2>2. CASE i <= Len(q)
    BY <1>1, <2>1, <2>2 DEF Range
  <2>3. CASE ~(i <= Len(q))
    <3>1. i - Len(q) \in 1..Len(r) /\ x = r[i - Len(q)]
      BY <1>1, <2>1, <2>3
    <3> QED
      BY <1>1, <3>1 DEF Range
  <2> QED
    BY <2>2, <2>3
<1>3. ASSUME NEW x \in Range(q) PROVE x \in Range(t)
  <2>1. PICK i \in 1..Len(q) : x = q[i]
    BY <1>1 DEF Range
  <2>2. i \in 1..(Len(q) + Len(r)) /\ t[i] = x
    BY <1>1, <2>1
  <2> QED
    BY <1>1, <2>2 DEF Range
<1>4. ASSUME NEW x \in Range(r) PROVE x \in Range(t)
  <2>1. PICK i \in 1..Len(r) : x = r[i]
    BY <1>1 DEF Range
  <2>2. i + Len(q) \in 1..(Len(q) + Len(r)) /\ t[i + Len(q)] = x
    BY <1>1, <2>1
  <2> QED
    BY <1>1, <2>2 DEF Range
<1> QED
  BY <1>1, <1>2, <1>3, <1>4 DEF t

(* The element of a sequence of one.                                       *)
LEMMA RangeOfOne ==
    ASSUME NEW x
    PROVE  Range(<<x>>) = {x} /\ Range(<<>>) = {}
BY DEF Range

(* What a node sends reaches everyone else who is powered.                 *)
LEMMA BroadcastReaches ==
    ASSUME TypesHold, NEW n \in Nodes, NEW frames \in Seq(Frames)
    PROVE  LET box == Broadcast(n, frames) IN
           /\ box \in [Nodes -> Seq(Frames)]
           /\ \A m \in Nodes : /\ Range(inbox[m]) \subseteq Range(box[m])
                               /\ Range(box[m]) \subseteq Range(inbox[m]) \cup Range(frames)
           /\ \A m \in up \ {n} : Range(frames) \subseteq Range(box[m])
           /\ frames # <<Request>> => box[n] = inbox[n]
<1> DEFINE box == Broadcast(n, frames)
<1>1. \A m \in Nodes : inbox[m] \in Seq(Frames)
  BY DEF TypesHold
<1>2. \A m \in Nodes : /\ inbox[m] \o frames \in Seq(Frames)
                       /\ Range(inbox[m] \o frames) = Range(inbox[m]) \cup Range(frames)
  BY <1>1, RangeJoined
<1>3. box = [m \in Nodes |-> IF m \in up /\ (m # n \/ frames = <<Request>>)
                             THEN inbox[m] \o frames ELSE inbox[m]]
  BY Zenon DEF Broadcast
<1> HIDE DEF box
<1>4. up \subseteq Nodes
  BY DEF TypesHold
<1> QED
  BY <1>1, <1>2, <1>3, <1>4 DEF box

(* What a holder becomes without a claim that is taken: it still holds its *)
(* address, and knows what it was told.                                    *)
Stays(n, d) ==
    LET a == nm[n].cf[n].address IN
    a # NULL => /\ d.state \in Holding
                /\ Told(n, a) => \/ d.state = "SendReclaimAddressOnRequest"
                                 \/ \E f \in Range(inbox[n]) : Tells(f, a)

(* A claim that the driver takes reaches everyone; without one, nothing    *)
(* is lost.                                                                *)
LEMMA SendServes ==
    ASSUME ClaimInv, NEW n \in Nodes, n \in up, NEW s \in Manager(n), NEW r, Tries(n, s, r),
           s.queue \in {<<>>, nm[n].queue}, s.cf[n].address = nm[n].cf[n].address,
           r.frames \in {<<>>, <<Request>>} => Stays(n, r.done),
           left.fail > 0 /\ r.frames # <<>> => Stays(n, r.else),
           NEW ok \in BOOLEAN, Send(n, r, ok)
    PROVE  Serves(n)
<1> DEFINE d == IF ok THEN r.done ELSE r.else
           frames == IF ok THEN r.frames ELSE <<>>
<1>0. TypesHold /\ n \in Objects /\ NULL \in Slots
  BY AddressesNumbers DEF ClaimInv, Slots
<1>1. d \in Manager(n) /\ d.queue = s.queue
  BY DEF Tries
<1>2. nm' = [nm EXCEPT ![n] = d] /\ up' = up
  BY DEF Send
<1>3. d.cf[n].address \in Slots /\ r.done.cf[n].address \in Slots
  BY <1>0, <1>1 DEF Tries, Manager, Managers, ControlFunctions
<1>4. frames \in {<<>>, <<Request>>, <<Claim(n, r.done.cf[n].address)>>}
  BY DEF Tries
<1>5. Request \in Frames /\ Claim(n, r.done.cf[n].address) \in Frames
  BY <1>0, <1>3 DEF Request, Claim, Frames, NONE
<1>6. frames \in Seq(Frames)
  <2>1. \A f \in Frames : <<f>> \in Seq(Frames)
    OBVIOUS
  <2>2. <<>> \in Seq(Frames)
    OBVIOUS
  <2> QED
    BY <1>4, <1>5, <2>1, <2>2, Zenon
<1>7. inbox' = Broadcast(n, frames)
  <2>1. CASE ok
    BY <2>1 DEF Send
  <2>2. CASE ~ok
    <3>1. \A m \in Nodes : inbox[m] \o <<>> = inbox[m]
      BY <1>0 DEF TypesHold
    <3>2. inbox = [m \in Nodes |-> inbox[m]]
      BY <1>0 DEF TypesHold
    <3>3. Broadcast(n, <<>>) = inbox
      BY <3>1, <3>2 DEF Broadcast
    <3> QED
      BY <2>2, <3>3 DEF Send
  <2> QED
    BY <2>1, <2>2
<1>8. /\ inbox' \in [Nodes -> Seq(Frames)]
      /\ \A m \in Nodes : /\ Range(inbox[m]) \subseteq Range(inbox'[m])
                          /\ Range(inbox'[m]) \subseteq Range(inbox[m]) \cup Range(frames)
      /\ \A m \in up \ {n} : Range(frames) \subseteq Range(inbox'[m])
      /\ frames # <<Request>> => inbox'[n] = inbox[n]
  BY <1>0, <1>6, <1>7, BroadcastReaches, Zenon
<1>9. /\ left' \in [nodes : SUBSET Nodes, partner : SUBSET Nodes, fail : Nat, power : Nat,
                    talk : Nat, command : Nat]
      /\ left'.fail <= left.fail /\ left'.command = left.command
  <2>1. left \in [nodes : SUBSET Nodes, partner : SUBSET Nodes, fail : Nat, power : Nat,
                  talk : Nat, command : Nat]
    BY <1>0 DEF TypesHold
  <2>2. CASE ok
    BY <2>1, <2>2 DEF Send
  <2>3. CASE ~ok
    BY <2>1, <2>3 DEF Send
  <2> QED
    BY <2>2, <2>3
<1>10. nm[n] \in Managers /\ Len(nm[n].queue) <= MaxBatch /\ MaxBatch \in Nat
  BY <1>0, BoundsAssumption DEF TypesHold
<1>11. nm' \in [Nodes -> Managers] /\ nm'[n] = d /\ \A m \in Nodes \ {n} : nm'[m] = nm[m]
  BY <1>0, <1>1, <1>2 DEF TypesHold, Manager
<1> HIDE DEF d
<1>12. Len(d.queue) <= MaxBatch /\ Range(d.queue) \subseteq Range(nm[n].queue) \cup Range(inbox[n])
  <2>1. CASE d.queue = <<>>
    BY <1>10, <2>1 DEF Range
  <2>2. CASE d.queue = nm[n].queue
    BY <1>10, <2>2
  <2> QED
    BY <1>1, <2>1, <2>2
<1>13. ASSUME NEW m \in Nodes, NEW f \in Range(inbox'[m]) \ Range(inbox[m])
       PROVE  f.kind # "COMMAND" /\ (f.kind = "CLAIM" => m # n /\ f.name = n)
  <2>1. f \in Range(frames)
    BY <1>8
  <2>2. CASE f = Request
    BY <2>2 DEF Request
  <2>3. CASE f = Claim(n, r.done.cf[n].address) /\ frames # <<Request>>
    BY <1>8, <2>3 DEF Claim
  <2> HIDE DEF frames
  <2>4. frames = <<Claim(n, r.done.cf[n].address)>> => frames # <<Request>>
    BY DEF Claim, Request
  <2>5. Range(<<>>) = {} /\ \A x : Range(<<x>>) = {x}
    BY RangeOfOne
  <2>6. CASE frames = <<>>
    BY <2>1, <2>5, <2>6
  <2>7. CASE frames = <<Request>>
    <3>1. f = Request
      BY <2>1, <2>5, <2>7, Zenon
    <3> QED
      BY <2>2, <3>1
  <2>8. CASE frames = <<Claim(n, r.done.cf[n].address)>>
    <3>1. f = Claim(n, r.done.cf[n].address)
      BY <2>1, <2>5, <2>8, Zenon
    <3> QED
      BY <2>3, <2>4, <2>8, <3>1
  <2> QED
    BY <1>4, <2>6, <2>7, <2>8
<1>14. ASSUME NEW a \in Slots, d.cf[n].address = a, a # NULL
       PROVE  /\ d.state \in Holding
              /\ \/ Announced(n, a)'
                 \/ nm[n].cf[n].address = a /\ (Told(n, a) => Told(n, a)')
  <2>1. ASSUME nm[n].cf[n].address = a, Stays(n, d)
        PROVE  d.state \in Holding /\ (Told(n, a) => Told(n, a)')
    <3>1. d.state \in Holding
      BY <1>14, <2>1 DEF Stays
    <3>2. ASSUME Told(n, a) PROVE Told(n, a)'
      <4>1. \/ nm'[n].state = "SendReclaimAddressOnRequest"
            \/ \E f \in Range(inbox[n]) : Tells(f, a)
        BY <1>11, <1>14, <2>1, <3>2 DEF Stays
      <4> QED
        BY <1>8, <4>1 DEF Told
    <3> QED
      BY <3>1, <3>2
  <2>2. CASE ok /\ r.frames = <<Claim(n, r.done.cf[n].address)>>
               /\ (Complete(r.done) \/ r.done.cf[n].address = NULL)
    <3>1. d = r.done /\ frames = <<Claim(n, a)>>
      BY <1>14, <2>2 DEF d
    <3>2. d.state \in Holding
      BY <1>14, <2>2, <3>1 DEF Complete, Holding
    <3>3. Claim(n, a) \in Range(frames) /\ Tells(Claim(n, a), a)
      BY <1>14, <3>1, RangeOfOne DEF Claim, Tells
    <3>4. Announced(n, a)'
      BY <1>2, <1>8, <3>3 DEF Announced
    <3> QED
      BY <3>2, <3>4
  <2>3. CASE ok /\ r.frames \in {<<>>, <<Request>>} /\ r.done.cf[n].address = s.cf[n].address
    <3>1. d = r.done
      BY <2>3 DEF d
    <3> QED
      BY <1>14, <2>1, <2>3, <3>1
  <2>4. CASE ~ok
    <3>1. d = r.else /\ left.fail > 0 /\ r.frames # <<>>
      BY <2>4 DEF d, Send
    <3> QED
      BY <1>14, <2>1, <3>1 DEF Tries
  <2> QED
    BY <2>2, <2>3, <2>4 DEF Tries
<1> QED
  BY <1>1, <1>2, <1>8, <1>9, <1>11, <1>12, <1>13, <1>14 DEF Serves

(* The first element and the others.                                       *)
LEMMA HeadAndTail ==
    ASSUME NEW S, NEW q \in Seq(S), q # <<>>
    PROVE  /\ Head(q) \in S /\ Tail(q) \in Seq(S)
           /\ Range(q) = {Head(q)} \cup Range(Tail(q))
<1>1. Head(q) \in S /\ Tail(q) \in Seq(S) /\ <<Head(q)>> \in Seq(S) /\ q = <<Head(q)>> \o Tail(q)
  OBVIOUS
<1>2. Range(q) = Range(<<Head(q)>>) \cup Range(Tail(q))
  BY <1>1, RangeJoined, Zenon
<1> QED
  BY <1>1, <1>2, RangeOfOne, Zenon

(* A frame that arrives changes the table at once and is queued: who was   *)
(* told of it still is.                                                    *)
LEMMA ReceiveServes ==
    ASSUME ClaimInv, NEW n \in Nodes, Receive(n)
    PROVE  Serves(n)
<1> DEFINE f == Head(inbox[n])
           s == [nm[n] EXCEPT !.queue = Append(@, f)]
           d == IF f.kind = "CLAIM" THEN update_control_functions(n, s, f) ELSE s
<1>0. /\ TypesHold /\ nm[n] \in Manager(n) /\ inbox[n] \in Seq(Frames)
      /\ MaxBatch \in Nat /\ inbox[n] # <<>> /\ Len(nm[n].queue) < MaxBatch
  BY ManagersTyped, BoundsAssumption DEF ClaimInv, Receive
<1>1. nm' = [nm EXCEPT ![n] = d]
  BY DEF Receive
<1>2. inbox' = [inbox EXCEPT ![n] = Tail(@)] /\ up' = up /\ left' = left
  BY DEF Receive
<1>3. /\ f \in Frames /\ Tail(inbox[n]) \in Seq(Frames)
      /\ Range(inbox[n]) = {f} \cup Range(Tail(inbox[n]))
  BY <1>0, HeadAndTail, Zenon
<1>4. f.kind = "CLAIM" => f.name \in Nodes \ {n}
  BY <1>3 DEF ClaimInv, ClaimsOfOthers
<1> HIDE DEF f
<1>5. /\ s \in Manager(n) /\ s.queue = Append(nm[n].queue, f) /\ s.state = nm[n].state
      /\ s.cf = nm[n].cf
  <2> DEFINE q == Append(nm[n].queue, f)
  <2>1. q \in Seq(Frames)
    BY <1>0, <1>3 DEF Manager, Managers
  <2>2. s = [nm[n] EXCEPT !.queue = q]
    BY Zenon
  <2> HIDE DEF q, s
  <2>3. /\ s \in Manager(n) /\ s.queue = q /\ s.state = nm[n].state /\ s.cf = nm[n].cf
    BY <1>0, <2>1, <2>2 DEF Manager, Managers
  <2> QED
    BY <2>3 DEF q
<1> HIDE DEF s
<1>6. Contests(n, s, d)
  <2>1. Contests(n, s, s)
    BY <1>5 DEF Contests
  <2> QED
    BY <1>3, <1>4, <1>5, <2>1, ClaimContests
<1> HIDE DEF d
<1>7. nm[n].queue \in Seq(Frames) /\ Len(nm[n].queue) \in Nat
  BY <1>0 DEF Manager, Managers
<1>8. d \in Manager(n) /\ d.queue = Append(nm[n].queue, f)
  BY <1>5, <1>6 DEF Contests
<1>9. Range(d.queue) = Range(nm[n].queue) \cup {f} /\ Len(d.queue) <= MaxBatch
  <2>1. d.queue = nm[n].queue \o <<f>> /\ <<f>> \in Seq(Frames) /\ Len(d.queue) = Len(nm[n].queue) + 1
    BY <1>3, <1>7, <1>8
  <2>2. Range(d.queue) = Range(nm[n].queue) \cup Range(<<f>>)
    BY <1>7, <2>1, RangeJoined, Zenon
  <2>3. Len(d.queue) <= MaxBatch
    BY <1>0, <1>7, <2>1
  <2> QED
    BY <2>2, <2>3, RangeOfOne, Zenon
<1>10. /\ nm' \in [Nodes -> Managers] /\ nm'[n] = d /\ \A m \in Nodes \ {n} : nm'[m] = nm[m]
       /\ inbox' \in [Nodes -> Seq(Frames)] /\ inbox'[n] = Tail(inbox[n])
       /\ \A m \in Nodes \ {n} : inbox'[m] = inbox[m]
  BY <1>0, <1>1, <1>2, <1>3, <1>8 DEF TypesHold, Manager
<1>11. \A m \in Nodes : Range(inbox'[m]) \subseteq Range(inbox[m])
  BY <1>3, <1>10
<1>12. ASSUME NEW a \in Slots, d.cf[n].address = a, a # NULL
       PROVE  /\ n \in up /\ d.state \in Holding
              /\ nm[n].cf[n].address = a /\ (Told(n, a) => Told(n, a)')
  <2>1. nm[n].cf[n].address = a
    BY <1>5, <1>6, <1>12 DEF Contests
  <2>2. n \in up /\ nm[n].state \in Holding
    BY <1>12, <2>1 DEF ClaimInv, HoldersClaimed
  <2>3. d.state = nm[n].state \/ d.state = "SendReclaimAddressOnRequest"
    BY <1>5, <1>6, <1>12 DEF Contests
  <2>4. ASSUME Told(n, a) PROVE Told(n, a)'
    <3>1. CASE d.state = "SendReclaimAddressOnRequest"
      BY <1>10, <3>1 DEF Told
    <3>2. CASE d.state # "SendReclaimAddressOnRequest"
      <4>1. PICK g \in Range(inbox[n]) \cup Range(nm[n].queue) : Tells(g, a)
        BY <2>3, <2>4, <3>2 DEF Told
      <4>2. g \in Range(inbox'[n]) \cup Range(nm'[n].queue)
        BY <1>3, <1>9, <1>10
      <4> QED
        BY <4>1, <4>2 DEF Told
    <3> QED
      BY <3>1, <3>2
  <2> QED
    BY <2>1, <2>2, <2>3, <2>4 DEF Holding
<1>13. /\ left' \in [nodes : SUBSET Nodes, partner : SUBSET Nodes, fail : Nat, power : Nat,
                     talk : Nat, command : Nat]
       /\ left'.fail <= left.fail /\ left'.command = left.command
  BY <1>0, <1>2 DEF TypesHold
<1> QED
  BY <1>2, <1>3, <1>8, <1>9, <1>10, <1>11, <1>12, <1>13 DEF Serves

(* The periodic update: who was told claims once more before it rests.     *)
LEMMA UpdateServes ==
    ASSUME ClaimInv, NEW n \in Nodes, Update(n)
    PROVE  Serves(n)
<1> DEFINE p == update_new_partners(n, nm[n])
           s == process_rx_messages(n, p)
           r == update_address_claiming(n, s)
           a == nm[n].cf[n].address
<1>0. nm[n] \in Manager(n) /\ n \in up
  BY ManagersTyped DEF ClaimInv, Update, HasWork
<1>1. PICK ok \in BOOLEAN : Send(n, r, ok)
  BY Zenon DEF Update
<1>2. Undisturbed(n, nm[n], p)
  BY <1>0, PartnersUndisturbed
<1> HIDE DEF p
<1>3. PICK t : Handled(n, p, Len(p.queue), t) /\ s = [t EXCEPT !.queue = <<>>]
  BY <1>2, QueueHandled DEF Undisturbed
<1> HIDE DEF s
<1>4. /\ s \in Manager(n) /\ s.queue = <<>> /\ s.state = t.state /\ s.cf = t.cf
      /\ s.cf[n].address = a
  <2>1. t \in Manager(n) /\ t.cf[n].address = a
    BY <1>2, <1>3 DEF Handled, Undisturbed
  <2>2. <<>> \in Seq(Frames)
    OBVIOUS
  <2>3. /\ s \in Manager(n) /\ s.queue = <<>> /\ s.state = t.state /\ s.cf = t.cf
    BY <1>3, <2>1, <2>2 DEF Manager, Managers
  <2> QED
    BY <2>1, <2>3
<1>5. /\ Tries(n, s, r)
      /\ Complete(s) => r.frames = <<>> /\ r.done = s
      /\ s.state \in Commanding \cup {"SendReclaimAddressOnRequest"} =>
            r.frames = <<Claim(n, r.done.cf[n].address)>>
      /\ s.state = "SendReclaimAddressOnRequest" => r.else = s
  BY <1>4, ClaimingTries, Zenon
<1> HIDE DEF r
<1>6. a # NULL => nm[n].state \in Holding
  BY DEF ClaimInv, HoldersClaimed
<1>7. p.queue = nm[n].queue /\ p.state = nm[n].state /\ p.cf[n].address = a
      /\ Len(p.queue) \in Nat /\ DOMAIN p.queue = 1..Len(p.queue)
  BY <1>2 DEF Undisturbed, Manager, Managers
<1>8. \A f : f \in Range(nm[n].queue) <=> \E i \in 1..Len(p.queue) : f = p.queue[i]
  BY <1>7 DEF Range
<1>9. ASSUME r.frames \in {<<>>, <<Request>>} PROVE Stays(n, r.done)
  <2>1. SUFFICES ASSUME a # NULL
                 PROVE  /\ r.done.state \in Holding
                        /\ Told(n, a) => \E f \in Range(inbox[n]) : Tells(f, a)
    BY DEF Stays
  <2>2. s.state \in Holding \cup Commanding
    BY <1>3, <1>4, <1>6, <1>7, <2>1 DEF Handled, Holding
  <2>3. <<Claim(n, r.done.cf[n].address)>> \notin {<<>>, <<Request>>}
    BY DEF Claim, Request
  <2>4. Complete(s)
    BY <1>5, <1>9, <2>2, <2>3 DEF Holding, Complete
  <2>5. r.done.state \in Holding
    BY <1>5, <2>4 DEF Holding, Complete
  <2>6. Complete(p) /\ \A i \in 1..Len(p.queue) : ~Tells(p.queue[i], a)
    BY <1>3, <1>4, <1>7, <2>4 DEF Handled, Complete
  <2>7. \A f \in Range(nm[n].queue) : ~Tells(f, a)
    BY <1>8, <2>6
  <2>8. nm[n].state # "SendReclaimAddressOnRequest"
    BY <1>7, <2>6 DEF Complete
  <2> QED
    BY <2>5, <2>7, <2>8 DEF Told
<1>10. ASSUME left.fail > 0, r.frames # <<>> PROVE Stays(n, r.else)
  <2>1. SUFFICES ASSUME a # NULL PROVE r.else.state = "SendReclaimAddressOnRequest"
    BY DEF Stays, Holding
  <2>2. \A f \in Range(nm[n].queue) : f.kind # "COMMAND"
    BY <1>10 DEF ClaimInv, OneTrouble, TypesHold
  <2>3. ~ \E i \in 1..Len(p.queue) : p.queue[i].kind = "COMMAND"
    BY <1>8, <2>2
  <2>4. s.state \in Holding
    BY <1>3, <1>4, <1>6, <1>7, <2>1, <2>3 DEF Handled, Holding
  <2> QED
    BY <1>5, <1>10, <2>4 DEF Holding, Complete
<1> QED
  BY <1>0, <1>1, <1>4, <1>5, <1>9, <1>10, SendServes

(* The end of the contention period: who waits for it has no address.      *)
LEMMA ContentionOverServes ==
    ASSUME ClaimInv, NEW n \in Nodes, ContentionOver(n)
    PROVE  Serves(n)
<1> DEFINE p == update_new_partners(n, nm[n])
           r == Choose(n, p)
<1>0. nm[n] \in Manager(n) /\ n \in up /\ nm[n].state = "WaitForRequestContentionPeriod"
  BY ManagersTyped DEF ClaimInv, ContentionOver
<1>1. PICK ok \in BOOLEAN : Send(n, r, ok)
  BY Zenon DEF ContentionOver
<1>2. Undisturbed(n, nm[n], p)
  BY <1>0, PartnersUndisturbed
<1> HIDE DEF p
<1>3. Tries(n, p, r)
  BY <1>2, ChoosingTries DEF Undisturbed
<1> HIDE DEF r
<1>4. nm[n].cf[n].address = NULL
  BY <1>0 DEF ClaimInv, HoldersClaimed, Holding
<1>5. Stays(n, r.done) /\ Stays(n, r.else)
  BY <1>4 DEF Stays
<1>6. p \in Manager(n) /\ p.queue = nm[n].queue /\ p.cf[n].address = nm[n].cf[n].address
  BY <1>2 DEF Undisturbed
<1> QED
  BY <1>0, <1>1, <1>3, <1>5, <1>6, SendServes

(* Steps that neither send nor receive, and those that send a message.     *)
LEMMA QuietlyServes ==
    ASSUME ClaimInv, NEW n \in Nodes, NEW d \in Manager(n),
           nm' = [nm EXCEPT ![n] = d], d.queue = nm[n].queue, d.cf[n].address = nm[n].cf[n].address,
           d.state = nm[n].state \/ nm[n].state \notin Holding, up' = up,
           NEW frames, frames = <<>> \/ (\E a \in Slots : frames = <<Data(n, a)>>),
           inbox' = Broadcast(n, frames),
           left' \in [nodes : SUBSET Nodes, partner : SUBSET Nodes, fail : Nat, power : Nat,
                     talk : Nat, command : Nat],
           left'.fail <= left.fail, left'.command = left.command
    PROVE  Serves(n)
<1>0. /\ TypesHold /\ nm[n] \in Manager(n) /\ Len(nm[n].queue) <= MaxBatch
  BY ManagersTyped DEF ClaimInv, TypesHold
<1>1. /\ frames \in Seq(Frames) /\ frames # <<Request>>
      /\ \A f \in Range(frames) : f.kind = "DATA"
  <2>1. CASE frames = <<>>
    <3>1. <<>> \in Seq(Frames) /\ <<>> # <<Request>>
      OBVIOUS
    <3>2. Range(<<>>) = {}
      BY RangeOfOne
    <3> QED
      BY <2>1, <3>1, <3>2
  <2>2. ASSUME NEW a \in Slots, frames = <<Data(n, a)>>
        PROVE  /\ frames \in Seq(Frames) /\ frames # <<Request>>
               /\ \A f \in Range(frames) : f.kind = "DATA"
    <3>1. Data(n, a) \in Frames /\ Data(n, a).kind = "DATA" /\ Data(n, a) # Request
      BY DEF Data, Frames, Request
    <3>2. Range(<<Data(n, a)>>) = {Data(n, a)}
      BY RangeOfOne
    <3> QED
      BY <2>2, <3>1, <3>2
  <2> QED
    BY <2>1, <2>2
<1>2. /\ inbox' \in [Nodes -> Seq(Frames)]
      /\ \A m \in Nodes : /\ Range(inbox[m]) \subseteq Range(inbox'[m])
                          /\ Range(inbox'[m]) \subseteq Range(inbox[m]) \cup Range(frames)
  BY <1>0, <1>1, BroadcastReaches, Zenon
<1>3. /\ nm' \in [Nodes -> Managers] /\ nm'[n] = d /\ \A m \in Nodes \ {n} : nm'[m] = nm[m]
  BY <1>0 DEF TypesHold, Manager
<1>4. \A m \in Nodes : \A f \in Range(inbox'[m]) \ Range(inbox[m]) :
          f.kind # "COMMAND" /\ (f.kind = "CLAIM" => m # n /\ f.name = n)
  BY <1>1, <1>2
<1>5. ASSUME NEW a \in Slots, d.cf[n].address = a, a # NULL
      PROVE  /\ n \in up /\ d.state \in Holding
             /\ nm[n].cf[n].address = a /\ (Told(n, a) => Told(n, a)')
  <2>1. n \in up /\ nm[n].state \in Holding
    BY <1>5 DEF ClaimInv, HoldersClaimed
  <2>2. nm'[n].state = nm[n].state /\ nm'[n].queue = nm[n].queue
    BY <1>3, <2>1
  <2>3. Told(n, a) => Told(n, a)'
    BY <1>2, <2>2 DEF Told
  <2> QED
    BY <1>3, <1>5, <2>1, <2>2, <2>3
<1>6. Len(d.queue) <= MaxBatch /\ Range(d.queue) \subseteq Range(nm[n].queue) \cup Range(inbox[n])
  BY <1>0
<1> QED
  BY <1>2, <1>3, <1>4, <1>5, <1>6 DEF Serves

(* No frame, no change.                                                    *)
LEMMA NothingSent ==
    ASSUME TypesHold, NEW n \in Nodes
    PROVE  Broadcast(n, <<>>) = inbox
<1>1. \A m \in Nodes : inbox[m] \o <<>> = inbox[m]
  BY DEF TypesHold
<1>2. inbox = [m \in Nodes |-> inbox[m]]
  BY DEF TypesHold
<1> QED
  BY <1>1, <1>2 DEF Broadcast

(* The other steps of a node and of its application.                       *)
LEMMA OwnStepsServe ==
    ASSUME ClaimInv, NEW n \in Nodes,
           DelayOver(n) \/ PruneDue(n) \/ CreatePartner(n) \/ InitializePartner(n) \/ Talk(n)
    PROVE  Serves(n)
<1>0. /\ TypesHold /\ nm[n] \in Manager(n) /\ Broadcast(n, <<>>) = inbox
      /\ nm[n].cf[n].address \in Slots
      /\ nm \in [Nodes -> Managers]
      /\ left \in [nodes : SUBSET Nodes, partner : SUBSET Nodes, fail : Nat, power : Nat,
                   talk : Nat, command : Nat]
  BY ManagersTyped, NothingSent DEF ClaimInv, TypesHold
<1>1. CASE DelayOver(n)
  <2> DEFINE d == [nm[n] EXCEPT !.state = "SendRequestForClaim"]
  <2>1. nm' = [nm EXCEPT ![n] = d] /\ inbox' = inbox /\ up' = up /\ left' = left
        /\ nm[n].state = "WaitForClaim"
    BY <1>1 DEF DelayOver
  <2>2. d \in Manager(n) /\ d.queue = nm[n].queue /\ d.cf = nm[n].cf
    BY <1>0 DEF Manager, Managers, States
  <2> HIDE DEF d
  <2>3. nm[n].state \notin Holding
    BY <2>1 DEF Holding
  <2>4. inbox' = Broadcast(n, <<>>) /\ left'.fail <= left.fail
    BY <1>0, <2>1
  <2> QED
    BY <1>0, <2>1, <2>2, <2>3, <2>4, QuietlyServes
<1>2. CASE PruneDue(n)
  <2> DEFINE d == prune_inactive_control_functions(n, nm[n])
  <2>1. nm' = [nm EXCEPT ![n] = d] /\ inbox' = inbox /\ up' = up /\ left' = left
    BY <1>2 DEF PruneDue
  <2>2. Undisturbed(n, nm[n], d)
    BY <1>0, PrunedUndisturbed
  <2> HIDE DEF d
  <2>4. inbox' = Broadcast(n, <<>>) /\ left'.fail <= left.fail
    BY <1>0, <2>1
  <2>5. /\ d \in Manager(n) /\ d.queue = nm[n].queue /\ d.state = nm[n].state
        /\ d.cf[n].address = nm[n].cf[n].address
    BY <2>2 DEF Undisturbed
  <2> QED
    BY <1>0, <2>1, <2>4, <2>5, QuietlyServes
<1>3. CASE CreatePartner(n)
  <2> DEFINE d == [nm[n] EXCEPT !.partner = "new"]
  <2>1. nm' = [nm EXCEPT ![n] = d] /\ inbox' = inbox /\ up' = up
        /\ left' = [left EXCEPT !.partner = @ \ {n}]
    BY <1>3 DEF CreatePartner
  <2>2. d \in Manager(n) /\ d.queue = nm[n].queue /\ d.cf = nm[n].cf /\ d.state = nm[n].state
    BY <1>0 DEF Manager, Managers
  <2> HIDE DEF d
  <2>3. /\ left' \in [nodes : SUBSET Nodes, partner : SUBSET Nodes, fail : Nat, power : Nat,
                      talk : Nat, command : Nat]
        /\ left'.fail <= left.fail /\ left'.command = left.command
    BY <1>0, <2>1
  <2> QED
    BY <1>0, <2>1, <2>2, <2>3, QuietlyServes
<1>4. CASE InitializePartner(n)
  <2> DEFINE d == update_new_partners(n, nm[n])
  <2>1. nm' = [nm EXCEPT ![n] = d] /\ inbox' = inbox /\ up' = up /\ left' = left
    BY <1>4 DEF InitializePartner
  <2>2. Undisturbed(n, nm[n], d)
    BY <1>0, PartnersUndisturbed
  <2> HIDE DEF d
  <2>4. inbox' = Broadcast(n, <<>>) /\ left'.fail <= left.fail
    BY <1>0, <2>1
  <2>5. /\ d \in Manager(n) /\ d.queue = nm[n].queue /\ d.state = nm[n].state
        /\ d.cf[n].address = nm[n].cf[n].address
    BY <2>2 DEF Undisturbed
  <2> QED
    BY <1>0, <2>1, <2>4, <2>5, QuietlyServes
<1>5. CASE Talk(n)
  <2> DEFINE frames == <<Data(n, nm[n].cf[n].address)>>
  <2>1. nm' = [nm EXCEPT ![n] = nm[n]] /\ inbox' = Broadcast(n, frames) /\ up' = up
        /\ left' = [left EXCEPT !.talk = @ - 1] /\ left.talk > 0
    BY <1>0, <1>5 DEF Talk
  <2>2. /\ left' \in [nodes : SUBSET Nodes, partner : SUBSET Nodes, fail : Nat, power : Nat,
                      talk : Nat, command : Nat]
        /\ left'.fail <= left.fail /\ left'.command = left.command
    BY <1>0, <2>1
  <2>3. \E a \in Slots : frames = <<Data(n, a)>>
    BY <1>0
  <2> HIDE DEF frames
  <2> QED
    BY <1>0, <2>1, <2>2, <2>3, QuietlyServes
<1> QED
  BY <1>1, <1>2, <1>3, <1>4, <1>5

(* A tool that commands an address reaches everyone who is powered.        *)
LEMMA CommandKeeps ==
    ASSUME ClaimInv, NEW n \in Nodes, NEW b \in Addresses, CommandAddress(n, b)
    PROVE  ClaimInv'
<1> DEFINE c == Command(n, b)
<1>0. TypesHold /\ nm' = nm /\ up' = up /\ left.command > 0 /\ left.fail = 0
  BY DEF ClaimInv, CommandAddress, OneTrouble, TypesHold
<1>1. c \in Frames /\ c.kind = "COMMAND"
  BY DEF Command, Frames, Slots
<1>2. inbox' = [m \in Nodes |-> IF m \in up THEN Append(inbox[m], c) ELSE inbox[m]]
  BY DEF CommandAddress
<1> HIDE DEF c
<1>3. ASSUME NEW m \in Nodes
      PROVE  /\ inbox'[m] \in Seq(Frames) /\ Range(inbox[m]) \subseteq Range(inbox'[m])
             /\ Range(inbox'[m]) \subseteq Range(inbox[m]) \cup {c}
  <2>1. inbox[m] \in Seq(Frames) /\ <<c>> \in Seq(Frames)
    BY <1>0, <1>1 DEF TypesHold
  <2>2. Append(inbox[m], c) = inbox[m] \o <<c>>
    BY <1>1, <2>1
  <2>3. /\ inbox[m] \o <<c>> \in Seq(Frames)
        /\ Range(inbox[m] \o <<c>>) = Range(inbox[m]) \cup {c}
    <3>1. Range(inbox[m] \o <<c>>) = Range(inbox[m]) \cup Range(<<c>>)
      BY <2>1, RangeJoined, Zenon
    <3>2. inbox[m] \o <<c>> \in Seq(Frames)
      BY <2>1
    <3> QED
      BY <3>1, <3>2, RangeOfOne, Zenon
  <2>4. inbox'[m] \in {inbox[m] \o <<c>>, inbox[m]}
    BY <1>2, <2>2
  <2> QED
    BY <2>1, <2>3, <2>4
<1>4. TypesHold'
  <2>1. left' = [left EXCEPT !.command = @ - 1]
    BY DEF CommandAddress
  <2>2. left' \in [nodes : SUBSET Nodes, partner : SUBSET Nodes, fail : Nat, power : Nat,
                   talk : Nat, command : Nat]
    <3>1. left \in [nodes : SUBSET Nodes, partner : SUBSET Nodes, fail : Nat, power : Nat,
                    talk : Nat, command : Nat]
      BY <1>0 DEF TypesHold
    <3>2. left.command - 1 \in Nat
      BY <1>0, <3>1
    <3> QED
      BY <2>1, <3>1, <3>2
  <2>3. inbox' \in [Nodes -> Seq(Frames)]
    BY <1>2, <1>3
  <2> QED
    BY <1>0, <2>2, <2>3 DEF TypesHold
<1>5. ClaimsOfOthers'
  BY <1>1, <1>3 DEF ClaimInv, ClaimsOfOthers
<1>6. OneTrouble'
  <2>1. left'.fail = 0
    BY <1>0 DEF CommandAddress, TypesHold
  <2> QED
    BY <2>1 DEF OneTrouble
<1>7. HoldersClaimed'
  BY <1>0 DEF ClaimInv, HoldersClaimed
<1>8. ASSUME NEW m \in Nodes, NEW a, Told(m, a) PROVE Told(m, a)'
  BY <1>0, <1>3, <1>8 DEF Told
<1>9. ContentionsTold'
  BY <1>0, <1>8 DEF ClaimInv, ContentionsTold
<1> QED
  BY <1>4, <1>5, <1>6, <1>7, <1>9 DEF ClaimInv

(* A manager after power-up.                                               *)
LEMMA StartedTyped ==
    ASSUME NEW n \in Nodes
    PROVE  /\ Started(n) \in Managers /\ Started(n).cf[n].name = n
           /\ Started(n).cf[n].address = NULL /\ Started(n).queue = <<>>
<1>1. Preferred[n] \in Slots /\ n \in Objects /\ PARTNER \in Objects
  BY AddressAssumption, AddressesNumbers DEF Slots, Objects
<1>2. [o \in Objects |-> NewCF(o, NULL)] \in [Objects -> ControlFunctions]
  BY DEF NewCF, ControlFunctions, Objects, Slots, PARTNER
<1>3. [a \in Slots |-> NONE] \in [Slots -> Objects \cup {NONE}] /\ "None" \in States
  BY DEF States
<1> QED
  BY <1>1, <1>2, <1>3 DEF Started, Managers, NewCF

(* A node that loses power forgets its address, and what was on its way    *)
(* to it.                                                                  *)
LEMMA PowerKeeps ==
    ASSUME ClaimInv, NEW n \in Nodes, PowerOff(n) \/ PowerOn(n)
    PROVE  ClaimInv'
<1>0. /\ TypesHold /\ MaxBatch \in Nat
      /\ left \in [nodes : SUBSET Nodes, partner : SUBSET Nodes, fail : Nat, power : Nat,
                   talk : Nat, command : Nat]
  BY BoundsAssumption DEF ClaimInv, TypesHold
<1>1. /\ left' \in [nodes : SUBSET Nodes, partner : SUBSET Nodes, fail : Nat, power : Nat,
                    talk : Nat, command : Nat]
      /\ left'.fail = left.fail /\ left'.command = left.command
  BY <1>0 DEF PowerOff, PowerOn
<1>2. CASE PowerOff(n)
  <2>1. /\ nm' = [nm EXCEPT ![n] = Started(n)] /\ inbox' = [inbox EXCEPT ![n] = <<>>]
        /\ up' = up \ {n}
    BY <1>2 DEF PowerOff
  <2>2. /\ nm' \in [Nodes -> Managers] /\ nm'[n] = Started(n)
        /\ inbox' \in [Nodes -> Seq(Frames)] /\ inbox'[n] = <<>>
        /\ \A m \in Nodes \ {n} : nm'[m] = nm[m] /\ inbox'[m] = inbox[m]
    BY <1>0, <2>1, StartedTyped DEF TypesHold
  <2>3. /\ nm'[n].cf[n].name = n /\ nm'[n].cf[n].address = NULL /\ nm'[n].queue = <<>>
    BY <2>2, StartedTyped
  <2>4. Range(inbox'[n]) = {} /\ Range(nm'[n].queue) = {} /\ Len(nm'[n].queue) <= MaxBatch
    <3>1. Range(<<>>) = {}
      BY RangeOfOne
    <3>2. Len(<<>>) <= MaxBatch
      BY <1>0
    <3> QED
      BY <2>2, <2>3, <3>1, <3>2
  <2>5. TypesHold'
    <3>1. \A m \in Nodes : nm'[m].cf[m].name = m /\ Len(nm'[m].queue) <= MaxBatch
      BY <1>0, <2>2, <2>3, <2>4 DEF TypesHold
    <3> QED
      BY <1>0, <1>1, <2>1, <2>2, <3>1 DEF TypesHold
  <2>6. ClaimsOfOthers'
    BY <2>2, <2>4 DEF ClaimInv, ClaimsOfOthers
  <2>7. OneTrouble'
    BY <1>1, <2>2, <2>4 DEF ClaimInv, OneTrouble
  <2>8. HoldersClaimed'
    BY <2>1, <2>2, <2>3 DEF ClaimInv, HoldersClaimed
  <2>9. ASSUME NEW m \in Nodes \ {n}, NEW a, Told(m, a) PROVE Told(m, a)'
    BY <2>2, <2>9 DEF Told
  <2>10. ContentionsTold'
    <3> SUFFICES ASSUME NEW m \in Nodes, NEW k \in Nodes, NEW a, m # k, a # NULL,
                        nm'[m].cf[m].address = a, nm'[k].cf[k].address = a
                 PROVE  Told(m, a)' \/ Told(k, a)'
      BY Zenon DEF ContentionsTold
    <3>1. m # n /\ k # n
      BY <2>3
    <3>2. nm[m].cf[m].address = a /\ nm[k].cf[k].address = a
      BY <2>2, <3>1, Zenon
    <3>3. Told(m, a) \/ Told(k, a)
      BY <3>2, Zenon DEF ClaimInv, ContentionsTold
    <3> QED
      BY <2>9, <3>1, <3>3
  <2> QED
    BY <2>5, <2>6, <2>7, <2>8, <2>10 DEF ClaimInv
<1>3. CASE PowerOn(n)
  <2>1. nm' = nm /\ inbox' = inbox /\ up' = up \cup {n}
    BY <1>3 DEF PowerOn
  <2>2. TypesHold'
    BY <1>0, <1>1, <2>1 DEF TypesHold
  <2>3. ClaimsOfOthers' /\ HoldersClaimed'
    BY <2>1 DEF ClaimInv, ClaimsOfOthers, HoldersClaimed
  <2>4. OneTrouble'
    BY <1>1, <2>1 DEF ClaimInv, OneTrouble
  <2>5. ContentionsTold'
    BY <2>1 DEF ClaimInv, ContentionsTold, Told
  <2> QED
    BY <2>2, <2>3, <2>4, <2>5 DEF ClaimInv
<1> QED
  BY <1>2, <1>3

-----------------------------------------------------------------------------
(* Every step keeps the invariant.                                         *)
LEMMA ClaimStep ==
    ASSUME ClaimInv, [Next]_vars
    PROVE  ClaimInv'
<1>1. ASSUME NEW n \in Nodes, Stack(n) PROVE ClaimInv'
  BY <1>1, ReceiveServes, UpdateServes, ContentionOverServes, OwnStepsServe, ServingKeeps DEF Stack
<1>2. ASSUME NEW n \in Nodes, CreatePartner(n) \/ InitializePartner(n) \/ Talk(n)
      PROVE  ClaimInv'
  BY <1>2, OwnStepsServe, ServingKeeps
<1>3. CASE UNCHANGED vars
  BY <1>3, Zenon DEF vars, ClaimInv, TypesHold, ClaimsOfOthers, OneTrouble, HoldersClaimed, ContentionsTold,
                     Told
<1> QED
  BY <1>1, <1>2, <1>3, CommandKeeps, PowerKeeps, Zenon DEF Next

(* It holds at the beginning.                                              *)
LEMMA ClaimInit ==
    ASSUME Init, \A c \in Scenarios : c.fail = 0 \/ c.command = 0
    PROVE  ClaimInv
<1>0. MaxBatch \in Nat
  BY BoundsAssumption
<1>1. PICK c \in Scenarios : up = c.nodes /\ left = c
  BY DEF Init
<1>2. c \in [nodes : SUBSET Nodes, partner : SUBSET Nodes, fail : Nat, power : Nat,
             talk : Nat, command : Nat]
  BY BoundsAssumption
<1>3. nm = [n \in Nodes |-> Started(n)] /\ inbox = [n \in Nodes |-> <<>>]
  BY DEF Init
<1>4. \A n \in Nodes : /\ nm[n] \in Managers /\ nm[n].cf[n].name = n
                       /\ nm[n].cf[n].address = NULL /\ nm[n].queue = <<>> /\ inbox[n] = <<>>
                       /\ Range(nm[n].queue) = {} /\ Range(inbox[n]) = {}
  BY <1>3, StartedTyped, RangeOfOne
<1>5. TypesHold
  <2>1. nm \in [Nodes -> Managers] /\ inbox \in [Nodes -> Seq(Frames)]
    BY <1>3, <1>4
  <2>2. \A n \in Nodes : Len(nm[n].queue) <= MaxBatch
    BY <1>0, <1>4
  <2> QED
    BY <1>1, <1>2, <1>4, <2>1, <2>2 DEF TypesHold
<1>6. OneTrouble
  BY <1>1, <1>4 DEF OneTrouble
<1>7. ClaimsOfOthers /\ HoldersClaimed /\ ContentionsTold
  BY <1>4 DEF ClaimsOfOthers, HoldersClaimed, ContentionsTold
<1> QED
  BY <1>5, <1>6, <1>7 DEF ClaimInv

(* At rest nobody is told anything: so no two nodes have one address.      *)
LEMMA ClaimsDistinct ==
    ASSUME ClaimInv
    PROVE  AddressesDistinct
<1>1. TypeOK
  <2>1. ASSUME NEW n \in Nodes
        PROVE  /\ nm[n].state \in States /\ nm[n].preferred \in Slots
               /\ \A o \in Objects : nm[n].cf[o] \in ControlFunctions
               /\ \A a \in Slots : nm[n].table[a] \in Objects \cup {NONE}
               /\ Range(nm[n].inactive) \subseteq Objects
               /\ nm[n].asked \in BOOLEAN
               /\ nm[n].partner \in {"none", "new", "initialized"}
               /\ Len(nm[n].queue) <= MaxBatch
               /\ Range(nm[n].queue) \cup Range(inbox[n]) \subseteq Frames
    <3>1. nm[n] \in Managers /\ inbox[n] \in Seq(Frames) /\ Len(nm[n].queue) <= MaxBatch
      BY DEF ClaimInv, TypesHold
    <3>2. nm[n].inactive \in Seq(Objects) /\ nm[n].queue \in Seq(Frames)
      BY <3>1 DEF Managers
    <3>3. Range(nm[n].inactive) \subseteq Objects
      BY <3>2, RangeTyped, Zenon
    <3>4. Range(nm[n].queue) \subseteq Frames /\ Range(inbox[n]) \subseteq Frames
      BY <3>1, <3>2, RangeTyped, Zenon
    <3> QED
      BY <3>1, <3>3, <3>4 DEF Managers
  <2> QED
    BY <2>1, Zenon DEF TypeOK, ClaimInv, TypesHold
<1>2. ASSUME AtRest, NEW m \in up, NEW n \in up, Address(m) = Address(n), Address(n) # NULL, m # n
      PROVE  FALSE
  <2> DEFINE a == Address(n)
  <2>1. m \in Nodes /\ n \in Nodes
    BY DEF ClaimInv, TypesHold
  <2>2. a # NULL /\ nm[m].cf[m].address = a /\ nm[n].cf[n].address = a
    BY <1>2, Zenon DEF Address
  <2> HIDE DEF a
  <2>3. PICK k \in {m, n} : Told(k, a)
    BY <1>2, <2>1, <2>2, Zenon DEF ClaimInv, ContentionsTold
  <2>4. inbox[k] = <<>> /\ nm[k].queue = <<>> /\ nm[k].state \in Waiting
    BY <1>2, <2>1, <2>3, Zenon DEF AtRest, Quiet, HasWork
  <2>5. Range(inbox[k]) = {} /\ Range(nm[k].queue) = {}
    BY <2>4, RangeOfOne
  <2> QED
    BY <2>3, <2>4, <2>5 DEF Told, Waiting
<1> QED
  BY <1>1, <1>2, Zenon DEF AddressesDistinct

(* However claims cross, get lost with a restart, are refused by a driver  *)
(* or answered late, whatever partners take the place of others in the     *)
(* tables and whatever is still queued when a claim arrives: once the bus  *)
(* is at rest no two nodes hold the same address (update_control_functions,*)
(* process_rx_message_for_address_claiming, the violations that are        *)
(* answered with a claim).  A bus on which drivers refuse frames and a     *)
(* tool commands addresses is left out: see HoldersClaimed, which a claim  *)
(* of the commanded address that is refused breaks.                        *)
THEOREM AddressesStayDistinct ==
    ASSUME \A c \in Scenarios : c.fail = 0 \/ c.command = 0
    PROVE  Spec => []AddressesDistinct
<1>1. Init => ClaimInv
  BY ClaimInit
<1>2. ClaimInv /\ [Next]_vars => ClaimInv'
  BY ClaimStep
<1>3. ClaimInv => AddressesDistinct
  BY ClaimsDistinct
<1> QED
  BY <1>1, <1>2, <1>3, PTL DEF Spec
=============================================================================
