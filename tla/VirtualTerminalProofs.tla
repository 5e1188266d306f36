----------------------- MODULE VirtualTerminalProofs -----------------------
(***************************************************************************)
(* Proofs about the virtual terminal and its client: they agree on the     *)
(* auxiliary inputs that are assigned, on what the operator did and on the *)
(* number that the operator and the application both change.               *)
(***************************************************************************)
EXTENDS VirtualTerminal, WellFoundedInduction, TLAPS

-----------------------------------------------------------------------------
\* The auxiliary inputs.

(* What assigned devices are made of.                                      *)
Functions == [function : Aux!ObjectIDs, input : Aux!ObjectIDs, type : 0..31]
Devices == [name : Nat, model : Nat, functions : SUBSET Functions]

(* Types, as far as the proof needs them.                                  *)
AuxTypeOK ==
    /\ {"version", "orders", "units"} \subseteq DOMAIN auxPlan
    /\ auxPlan.orders \in Seq(Aux!Orders)
    /\ auxPlan.units \in Seq(Nat \X Nat)
    /\ assigned \in Seq(Devices)
    /\ order = <<>> \/ \E c \in Aux!Orders : order = <<c>>
    /\ answer = <<>> \/ \E a \in {{}, {"error"}, {"error", "already"}} : answer = <<a>>

Removes(c) == c.name = Aux!DEFAULT_NAME /\ c.type = Aux!RemoveAssignment

(* The client cannot do what the terminal orders.                          *)
CannotObey(c) ==
    /\ ~Removes(c)
    /\ \/ \A i \in DOMAIN assigned : assigned[i].name # c.name
       \/ c.type > Aux!QuadratureBooleanMomentary

(* What the terminal believes is what the client holds, before an order and*)
(* after it.                                                               *)
Before(c) == believed = Aux!Table
After(c) == Aux!Table = Aux!Believed(c) /\ ~CannotObey(c)

(* The terminal believes what the client holds, but while an order is on   *)
(* its way; then the client did nothing of it yet, or all of it.           *)
Agreement ==
    /\ order = <<>> => answer = <<>> /\ believed = Aux!Table
    /\ order # <<>> /\ answer = <<>> => Before(order[1]) \/ After(order[1])
    /\ answer # <<>> =>
          IF answer[1] = {} \/ "already" \in answer[1] THEN After(order[1])
          ELSE Before(order[1])

(* The invariant of the auxiliary inputs. From version 6 on an input may be*)
(* assigned to several functions, and the terminal may take one for        *)
(* another: the property is for the versions before.                       *)
AuxInv ==
    /\ AuxTypeOK
    /\ order = <<>> => answer = <<>>
    /\ auxPlan.version < 6 => Agreement

(* The assignments that the client holds, as a membership.                 *)
LEMMA TableMember ==
    ASSUME NEW r
    PROVE  r \in Aux!Table <=>
             \E i \in DOMAIN assigned : \E f \in assigned[i].functions :
                r = [name |-> assigned[i].name, function |-> f.function,
                     input |-> f.input, type |-> f.type]
BY DEF Aux!Table

(* The same after a step.                                                  *)
LEMMA TableMemberNext ==
    ASSUME NEW r
    PROVE  r \in Aux!Table' <=>
             \E i \in DOMAIN assigned' : \E f \in assigned'[i].functions :
                r = [name |-> assigned'[i].name, function |-> f.function,
                     input |-> f.input, type |-> f.type]
BY DEF Aux!Table

(* What CHOOSE of the first device relies on: a set of numbers has a least *)
(* one.                                                                    *)
LEMMA Smallest ==
    ASSUME NEW T, T \subseteq Nat, T # {}
    PROVE  \E x \in T : \A y \in T : x <= y
<1> DEFINE R == OpToRel(<, Nat)
<1>1. IsWellFoundedOn(R, Nat)
  BY NatLessThanWellFounded
<1>2. R = {ss \in Nat \X Nat : ss[1] < ss[2]}
  BY DEF OpToRel
<1> HIDE DEF R
<1>3. PICK x \in T : \A y \in T : <<y, x>> \notin R
  BY <1>1, WFMin
<1>4. \A y \in T : x <= y
  <2> SUFFICES ASSUME NEW y \in T, y < x PROVE FALSE
    OBVIOUS
  <2>1. <<y, x>> \in R
    BY <1>2
  <2> QED
    BY <1>3, <2>1
<1> QED
  BY <1>4

(* A device with other functions is a device, of the same name.            *)
LEMMA DeviceKept ==
    ASSUME NEW d \in Devices, NEW f \in SUBSET Functions
    PROVE  /\ [d EXCEPT !.functions = f] \in Devices
           /\ [d EXCEPT !.functions = f].name = d.name
           /\ [d EXCEPT !.functions = f].functions = f
BY DEF Devices

(* Every device of the table gets the functions F has for it.              *)
Refilled(F) == assigned' = [i \in DOMAIN assigned |-> [assigned[i] EXCEPT !.functions = F[i]]]

(* A table whose devices get other functions is a table of the same        *)
(* devices.                                                                *)
LEMMA DevicesUpdated ==
    ASSUME assigned \in Seq(Devices), NEW F \in [DOMAIN assigned -> SUBSET Functions], Refilled(F)
    PROVE  /\ assigned' \in Seq(Devices) /\ DOMAIN assigned' = DOMAIN assigned
           /\ \A i \in DOMAIN assigned : assigned'[i].name = assigned[i].name /\ assigned'[i].functions = F[i]
<1> DEFINE table == assigned'
<1>0. table = [i \in DOMAIN assigned |-> [assigned[i] EXCEPT !.functions = F[i]]]
  BY DEF Refilled
<1> HIDE DEF table
<1>1. /\ Len(assigned) \in Nat /\ DOMAIN assigned = 1..Len(assigned)
      /\ \A i \in DOMAIN assigned : assigned[i] \in Devices
  OBVIOUS
<1>2. \A i \in DOMAIN assigned : /\ table[i] \in Devices
                                 /\ table[i].name = assigned[i].name
                                 /\ table[i].functions = F[i]
  <2> TAKE i \in DOMAIN assigned
  <2>1. table[i] = [assigned[i] EXCEPT !.functions = F[i]]
    BY <1>0
  <2>2. assigned[i] \in Devices /\ F[i] \in SUBSET Functions
    BY <1>1
  <2> DEFINE d == assigned[i]
             f == F[i]
  <2>3. d \in Devices /\ f \in SUBSET Functions /\ table[i] = [d EXCEPT !.functions = f]
    BY <2>1, <2>2
  <2> HIDE DEF d, f
  <2> DEFINE e == [d EXCEPT !.functions = f]
  <2>4. e \in Devices /\ e.name = d.name /\ e.functions = f
    BY <2>3, DeviceKept
  <2> HIDE DEF e
  <2>5. table[i] \in Devices /\ table[i].name = d.name /\ table[i].functions = f
    BY <2>3, <2>4 DEF e
  <2> QED
    BY <2>5 DEF d, f
<1>3. table \in [1..Len(assigned) -> Devices]
  BY <1>0, <1>1, <1>2
<1>4. table \in Seq(Devices)
  BY <1>1, <1>3
<1>5. DOMAIN table = DOMAIN assigned
  BY <1>0
<1>6. /\ table \in Seq(Devices) /\ DOMAIN table = DOMAIN assigned
      /\ \A i \in DOMAIN assigned : table[i].name = assigned[i].name /\ table[i].functions = F[i]
  BY <1>2, <1>4, <1>5
<1> QED
  BY <1>6 DEF table

(* Removing an assignment: what the client then holds is what a terminal   *)
(* that gets its answer believes.                                          *)
LEMMA UnassignedTable ==
    ASSUME AuxTypeOK, NEW c \in Aux!Orders, Removes(c), assigned' = Aux!Unassigned(c)
    PROVE  /\ assigned' \in Seq(Devices)
           /\ Before(c) \/ After(c) => Aux!Table' = Aux!Believed(c)
<1>0. assigned \in Seq(Devices)
  BY DEF AuxTypeOK
<1>00. \A i \in DOMAIN assigned : assigned[i].functions \subseteq Functions
  <2>1. \A d \in Devices : d.functions \subseteq Functions
    BY DEF Devices
  <2>2. \A i \in DOMAIN assigned : assigned[i] \in Devices
    BY <1>0
  <2> QED
    BY <2>1, <2>2
<1>1. CASE c.function = Aux!NO_OBJECT
  <2> DEFINE F == [i \in DOMAIN assigned |-> {}]
  <2>1. Refilled(F)
    BY <1>1 DEF Aux!Unassigned, Refilled
  <2>a. F \in [DOMAIN assigned -> SUBSET Functions] /\ \A i \in DOMAIN assigned : F[i] = {}
    OBVIOUS
  <2> HIDE DEF F
  <2>b. /\ assigned' \in Seq(Devices) /\ DOMAIN assigned' = DOMAIN assigned
        /\ \A i \in DOMAIN assigned : assigned'[i].name = assigned[i].name /\ assigned'[i].functions = F[i]
    BY <1>0, <2>1, <2>a, DevicesUpdated
  <2>2. /\ assigned' \in Seq(Devices) /\ DOMAIN assigned' = DOMAIN assigned
        /\ \A i \in DOMAIN assigned : assigned'[i].functions = {}
    BY <2>a, <2>b
  <2>3. Aux!Believed(c) = {}
    BY <1>1 DEF Aux!Believed, Removes
  <2>4. Aux!Table' = {}
    BY <2>2, TableMemberNext
  <2> QED
    BY <2>2, <2>3, <2>4
<1>2. CASE c.function # Aux!NO_OBJECT /\ c.input = Aux!NO_OBJECT
  <2> DEFINE F == [i \in DOMAIN assigned |-> {f \in assigned[i].functions : f.function # c.function}]
  <2>1. Refilled(F)
    BY <1>2 DEF Aux!Unassigned, Refilled
  <2>a. /\ F \in [DOMAIN assigned -> SUBSET Functions]
        /\ \A i \in DOMAIN assigned : F[i] = {f \in assigned[i].functions : f.function # c.function}
    BY <1>00
  <2> HIDE DEF F
  <2>b. /\ assigned' \in Seq(Devices) /\ DOMAIN assigned' = DOMAIN assigned
        /\ \A i \in DOMAIN assigned : assigned'[i].name = assigned[i].name /\ assigned'[i].functions = F[i]
    BY <1>0, <2>1, <2>a, DevicesUpdated
  <2>2. /\ assigned' \in Seq(Devices) /\ DOMAIN assigned' = DOMAIN assigned
        /\ \A i \in DOMAIN assigned :
              /\ assigned'[i].name = assigned[i].name
              /\ assigned'[i].functions = {f \in assigned[i].functions : f.function # c.function}
    BY <2>a, <2>b
  <2>3. Aux!Believed(c) = {b \in believed : b.function # c.function}
    BY <1>2 DEF Aux!Believed, Removes
  <2>4. Aux!Table' = {r \in Aux!Table : r.function # c.function}
    <3>1. ASSUME NEW r \in Aux!Table, r.function # c.function
          PROVE  r \in Aux!Table'
      BY <2>2, <3>1, TableMember, TableMemberNext
    <3>2. ASSUME NEW r \in Aux!Table'
          PROVE  r \in Aux!Table /\ r.function # c.function
      BY <2>2, <3>2, TableMember, TableMemberNext
    <3> QED
      BY <3>1, <3>2
  <2>5. Before(c) \/ After(c) => Aux!Table' = Aux!Believed(c)
    BY <2>3, <2>4 DEF Before, After
  <2> QED
    BY <2>2, <2>5
<1>3. CASE c.function # Aux!NO_OBJECT /\ c.input # Aux!NO_OBJECT
  <2>1. assigned' = assigned
    BY <1>3 DEF Aux!Unassigned
  <2>2. Aux!Believed(c) = believed
    BY <1>3 DEF Aux!Believed, Removes
  <2>3. Aux!Table' = Aux!Table
    BY <2>1 DEF Aux!Table
  <2> QED
    BY <1>0, <2>1, <2>2, <2>3 DEF Before, After
<1> QED
  BY <1>1, <1>2, <1>3

(* The fields of an order.                                                 *)
LEMMA OrderFields ==
    ASSUME NEW c \in Aux!Orders
    PROVE  /\ c = [name |-> c.name, function |-> c.function, input |-> c.input, type |-> c.type]
           /\ [function |-> c.function, input |-> c.input, type |-> c.type] \in Functions
<1>1. c \in [name : Nat, function : Aux!ObjectIDs, input : Aux!ObjectIDs, type : 0..31]
  BY DEF Aux!Orders
<1>2. c = [name |-> c.name, function |-> c.function, input |-> c.input, type |-> c.type]
  BY <1>1, Zenon
<1>3. c.function \in Aux!ObjectIDs /\ c.input \in Aux!ObjectIDs /\ c.type \in 0..31
  BY <1>1
<1> QED
  BY <1>2, <1>3 DEF Functions

(* Assigning an input: what the client then holds is what a terminal that  *)
(* gets its answer believes, also when it was assigned already.            *)
LEMMA AssignedTable ==
    ASSUME AuxTypeOK, NEW c \in Aux!Orders, ~Removes(c)
    PROVE  \/ CannotObey(c) /\ Aux!Assigned(c) = Aux!Refused(assigned)
           \/ /\ ~CannotObey(c) /\ c \in Aux!Table
              /\ Aux!Assigned(c) = [Aux!Refused(assigned) EXCEPT !.already = TRUE]
           \/ \E table \in Seq(Devices) :
                 /\ ~CannotObey(c) /\ Aux!Assigned(c) = Aux!Obeyed(table)
                 /\ assigned' = table => Aux!Table' = Aux!Table \union {c} /\ ~CannotObey(c)'
<1> DEFINE units == {i \in DOMAIN assigned : assigned[i].name = c.name}
           unit == CHOOSE i \in units : \A j \in units : i <= j
           new == [function |-> c.function, input |-> c.input, type |-> c.type]
           table == [assigned EXCEPT ![unit].functions = @ \union {new}]
<1>1. Aux!Assigned(c) =
        IF units = {} \/ c.type > Aux!QuadratureBooleanMomentary THEN Aux!Refused(assigned)
        ELSE IF new \in assigned[unit].functions
             THEN [Aux!Refused(assigned) EXCEPT !.already = TRUE]
             ELSE Aux!Obeyed(table)
  BY Zenon DEF Aux!Assigned
<1>2. CannotObey(c) <=> units = {} \/ c.type > Aux!QuadratureBooleanMomentary
  BY DEF CannotObey
<1>3. /\ assigned \in Seq(Devices) /\ Len(assigned) \in Nat /\ DOMAIN assigned = 1..Len(assigned)
      /\ \A i \in DOMAIN assigned : assigned[i] \in Devices
  BY DEF AuxTypeOK
<1>4. c = [name |-> c.name, function |-> new.function, input |-> new.input, type |-> new.type]
      /\ new \in Functions
  <2>1. /\ new.function = c.function /\ new.input = c.input /\ new.type = c.type
    OBVIOUS
  <2> QED
    BY <2>1, OrderFields
<1>5. CASE units # {}
  <2>1. unit \in units
    <3>1. units \subseteq Nat
      BY <1>3
    <3>2. PICK i \in units : \A j \in units : i <= j
      BY <1>5, <3>1, Smallest, Zenon
    <3> HIDE DEF units
    <3> QED
      BY <3>2
  <2>2. unit \in DOMAIN assigned /\ assigned[unit].name = c.name
    BY <2>1
  <2> HIDE DEF unit, new
  <2>3. ASSUME new \in assigned[unit].functions
        PROVE  c \in Aux!Table
    BY <1>4, <2>2, <2>3, TableMember
  <2>4. /\ table \in Seq(Devices)
        /\ DOMAIN table = DOMAIN assigned
        /\ table[unit].name = assigned[unit].name
        /\ table[unit].functions = assigned[unit].functions \union {new}
        /\ \A i \in DOMAIN assigned \ {unit} : table[i] = assigned[i]
    <3> DEFINE d == [assigned[unit] EXCEPT !.functions = @ \union {new}]
    <3>1. table = [assigned EXCEPT ![unit] = d]
      OBVIOUS
    <3>2. assigned[unit].functions \union {new} \in SUBSET Functions
      BY <1>3, <1>4, <2>2 DEF Devices
    <3>3. /\ d \in Devices /\ d.name = assigned[unit].name
          /\ d.functions = assigned[unit].functions \union {new}
      BY <1>3, <2>2, <3>2, DeviceKept
    <3> HIDE DEF d, table
    <3> QED
      BY <1>3, <2>2, <3>1, <3>3
  <2> HIDE DEF table
  <2>5. ASSUME assigned' = table
        PROVE  /\ Aux!Table' = Aux!Table \union {c}
               /\ ~CannotObey(c) => ~CannotObey(c)'
    <3>1. ASSUME NEW r \in Aux!Table
          PROVE  r \in Aux!Table'
      BY <2>2, <2>4, <2>5, <3>1, TableMember, TableMemberNext
    <3>2. c \in Aux!Table'
      BY <1>4, <2>2, <2>4, <2>5, TableMemberNext
    <3>3. ASSUME NEW r \in Aux!Table'
          PROVE  r \in Aux!Table \union {c}
      <4>0. PICK i \in DOMAIN assigned : \E f \in table[i].functions :
                 r = [name |-> table[i].name, function |-> f.function, input |-> f.input, type |-> f.type]
        BY <2>4, <2>5, <3>3, TableMemberNext
      <4>1. PICK f \in table[i].functions :
                 r = [name |-> table[i].name, function |-> f.function, input |-> f.input, type |-> f.type]
        BY <4>0
      <4>2. CASE f \in assigned[i].functions /\ table[i].name = assigned[i].name
        BY <4>1, <4>2, TableMember
      <4>3. CASE i = unit /\ f = new
        BY <1>4, <2>2, <2>4, <4>1, <4>3
      <4> QED
        BY <2>2, <2>4, <4>1, <4>2, <4>3
    <3>4. ASSUME ~CannotObey(c)
          PROVE  ~CannotObey(c)'
      BY <2>2, <2>4, <2>5, <3>4 DEF CannotObey
    <3> QED
      BY <3>1, <3>2, <3>3, <3>4
  <2> HIDE DEF units
  <2> QED
    BY <1>1, <1>2, <2>3, <2>4, <2>5
<1>6. CASE units = {}
  BY <1>1, <1>2, <1>6
<1> QED
  BY <1>5, <1>6

(* The client obeys an order, or the same order once more                  *)
(* (AuxiliaryAssignmentTypeTwoCommand).                                    *)
LEMMA OrderArrivesKeeps ==
    ASSUME AuxInv, Aux!OrderArrives
    PROVE  AuxInv'
<1>1. PICK c \in Aux!Orders : order = <<c>>
  BY DEF AuxInv, AuxTypeOK, Aux!OrderArrives
<1> DEFINE result == Aux!AuxiliaryAssignmentTypeTwo(c)
<1>2. /\ order[1] = c /\ order # <<>> /\ answer = <<>>
      /\ assigned' = result.table
      /\ answer' = <<Aux!send_auxiliary_function_assignment_response(result)>>
      /\ UNCHANGED <<auxPlan, order, believed>>
  BY <1>1 DEF Aux!OrderArrives
<1> DEFINE a == Aux!send_auxiliary_function_assignment_response(result)
<1>3. a = (IF result.error THEN {"error"} ELSE {})
            \union (IF result.already /\ auxPlan.version < 6 THEN {"already"} ELSE {})
  BY DEF Aux!send_auxiliary_function_assignment_response
<1>4. AuxTypeOK /\ (auxPlan.version < 6 => Before(c) \/ After(c))
  BY <1>2 DEF AuxInv, Agreement
<1>5. /\ assigned' \in Seq(Devices)
      /\ a \in {{}, {"error"}, {"error", "already"}}
      /\ auxPlan.version < 6 =>
            IF a = {} \/ "already" \in a THEN Aux!Table' = Aux!Believed(c) /\ ~CannotObey(c)'
            ELSE Aux!Table' = believed
  <2>1. CASE Removes(c)
    <3>1. result = Aux!Obeyed(Aux!Unassigned(c))
      BY <2>1 DEF Aux!AuxiliaryAssignmentTypeTwo, Removes
    <3> HIDE DEF result
    <3>2. assigned' = Aux!Unassigned(c) /\ a = {}
      BY <1>2, <1>3, <3>1 DEF Aux!Obeyed
    <3> HIDE DEF a
    <3>3. ~CannotObey(c)'
      BY <2>1 DEF CannotObey, Removes
    <3> QED
      BY <1>4, <2>1, <3>2, <3>3, UnassignedTable
  <2>2. CASE ~Removes(c)
    <3>1. result = Aux!Assigned(c)
      BY <2>2 DEF Aux!AuxiliaryAssignmentTypeTwo, Removes
    <3> HIDE DEF result
    <3>2. CASE CannotObey(c) /\ result = Aux!Refused(assigned)
      <4>1. assigned' = assigned /\ a = {"error"}
        BY <1>2, <1>3, <3>2 DEF Aux!Refused
      <4>2. Aux!Table' = Aux!Table
        BY <4>1 DEF Aux!Table
      <4> HIDE DEF a
      <4> QED
        BY <1>4, <3>2, <4>1, <4>2 DEF AuxTypeOK, Before, After
    <3>3. CASE /\ ~CannotObey(c) /\ c \in Aux!Table
               /\ result = [Aux!Refused(assigned) EXCEPT !.already = TRUE]
      <4>1. /\ assigned' = assigned
            /\ a = {"error"} \union (IF auxPlan.version < 6 THEN {"already"} ELSE {})
        BY <1>2, <1>3, <3>3 DEF Aux!Refused
      <4>2. Aux!Table' = Aux!Table
        BY <4>1 DEF Aux!Table
      <4>3. CannotObey(c)' <=> CannotObey(c)
        BY <4>1 DEF CannotObey
      <4>4. Aux!Believed(c) = believed \union {c}
        BY <2>2 DEF Aux!Believed, Removes
      <4> HIDE DEF a
      <4> QED
        BY <1>4, <3>3, <4>1, <4>2, <4>3, <4>4 DEF AuxTypeOK, Before, After
    <3>4. CASE \E table \in Seq(Devices) :
                 /\ ~CannotObey(c) /\ result = Aux!Obeyed(table)
                 /\ assigned' = table => Aux!Table' = Aux!Table \union {c} /\ ~CannotObey(c)'
      <4>1. /\ assigned' \in Seq(Devices) /\ a = {}
            /\ Aux!Table' = Aux!Table \union {c} /\ ~CannotObey(c)'
        BY <1>2, <1>3, <3>4 DEF Aux!Obeyed
      <4>4. Aux!Believed(c) = believed \union {c}
        BY <2>2 DEF Aux!Believed, Removes
      <4> HIDE DEF a
      <4> QED
        BY <1>4, <4>1, <4>4 DEF Before, After
    <3> QED
      BY <1>4, <2>2, <3>1, <3>2, <3>3, <3>4, AssignedTable
  <2> QED
    BY <2>1, <2>2
<1>6. AuxTypeOK'
  BY <1>2, <1>4, <1>5 DEF AuxTypeOK
<1> QED
  BY <1>2, <1>5, <1>6 DEF AuxInv, Agreement, Before, After, Aux!Believed

(* The terminal gives its next order.                                      *)
LEMMA TerminalOrdersKeeps ==
    ASSUME AuxInv, Aux!TerminalOrders
    PROVE  AuxInv'
<1>1. /\ order = <<>> /\ answer = <<>> /\ auxPlan.orders # <<>>
      /\ order' = <<Head(auxPlan.orders)>>
      /\ auxPlan' = [auxPlan EXCEPT !.orders = Tail(@)]
      /\ UNCHANGED <<assigned, answer, believed>>
  BY DEF Aux!TerminalOrders, AuxInv
<1>2. /\ {"version", "orders", "units"} \subseteq DOMAIN auxPlan'
      /\ auxPlan'.orders = Tail(auxPlan.orders) /\ auxPlan'.units = auxPlan.units
      /\ auxPlan'.version = auxPlan.version
  BY <1>1 DEF AuxInv, AuxTypeOK
<1>3. Head(auxPlan.orders) \in Aux!Orders /\ Tail(auxPlan.orders) \in Seq(Aux!Orders)
  BY <1>1 DEF AuxInv, AuxTypeOK
<1>4. AuxTypeOK'
  BY <1>1, <1>2, <1>3 DEF AuxInv, AuxTypeOK
<1>5. Aux!Table' = Aux!Table
  BY <1>1 DEF Aux!Table
<1> QED
  BY <1>1, <1>2, <1>4, <1>5 DEF AuxInv, Agreement, Before

(* The terminal gets the answer, and believes what it says.                *)
LEMMA TerminalLearnsKeeps ==
    ASSUME AuxInv, Aux!TerminalLearns
    PROVE  AuxInv'
<1>1. /\ answer # <<>> /\ order # <<>>
      /\ believed' = IF answer[1] = {} \/ "already" \in answer[1]
                     THEN Aux!Believed(order[1]) ELSE believed
      /\ order' = <<>> /\ answer' = <<>>
      /\ UNCHANGED <<auxPlan, assigned>>
  BY DEF Aux!TerminalLearns, AuxInv
<1>2. Aux!Table' = Aux!Table
  BY <1>1 DEF Aux!Table
<1>3. AuxTypeOK'
  BY <1>1 DEF AuxInv, AuxTypeOK
<1> QED
  BY <1>1, <1>2, <1>3 DEF AuxInv, Agreement, Before, After

(* The answer gets lost: the order stays, and what was done stays done.    *)
LEMMA AnswerLostKeeps ==
    ASSUME AuxInv, Aux!AnswerLost
    PROVE  AuxInv'
<1>1. /\ answer # <<>> /\ order # <<>> /\ answer' = <<>>
      /\ auxPlan' = [auxPlan EXCEPT !.lost = @ - 1]
      /\ UNCHANGED <<assigned, order, believed>>
  BY DEF Aux!AnswerLost, AuxInv
<1>2. /\ {"version", "orders", "units"} \subseteq DOMAIN auxPlan'
      /\ auxPlan'.orders = auxPlan.orders /\ auxPlan'.units = auxPlan.units
      /\ auxPlan'.version = auxPlan.version
  BY <1>1 DEF AuxInv, AuxTypeOK
<1>3. AuxTypeOK'
  BY <1>1, <1>2 DEF AuxInv, AuxTypeOK
<1>4. Before(order[1])' = Before(order[1]) /\ After(order[1])' = After(order[1])
  BY <1>1 DEF Before, After, Aux!Table, Aux!Believed, CannotObey
<1> QED
  BY <1>1, <1>2, <1>3, <1>4 DEF AuxInv, Agreement

(* An input unit announces itself; a new one has no functions assigned.    *)
LEMMA UnitAnnouncedKeeps ==
    ASSUME AuxInv, Aux!UnitAnnounced
    PROVE  AuxInv'
<1> DEFINE unit == Head(auxPlan.units)
           new == [name |-> unit[1], model |-> unit[2], functions |-> {}]
<1>1. /\ auxPlan.units # <<>>
      /\ assigned' = assigned \/ assigned' = Append(assigned, new)
      /\ UNCHANGED <<order, answer, believed>>
      /\ \E ready \in BOOLEAN :
            auxPlan' = [auxPlan EXCEPT !.units = IF ready THEN Tail(@) ELSE @]
  BY DEF Aux!UnitAnnounced, Aux!AuxiliaryInputTypeTwoMaintenance
<1>2. /\ auxPlan.units \in Seq(Nat \X Nat) /\ assigned \in Seq(Devices)
      /\ AuxTypeOK
  BY DEF AuxInv, AuxTypeOK
<1>3. /\ {"version", "orders", "units"} \subseteq DOMAIN auxPlan'
      /\ auxPlan'.orders = auxPlan.orders
      /\ auxPlan'.units = auxPlan.units \/ auxPlan'.units = Tail(auxPlan.units)
      /\ auxPlan'.version = auxPlan.version
  BY <1>1 DEF AuxInv, AuxTypeOK
<1>4. auxPlan'.units \in Seq(Nat \X Nat)
  BY <1>1, <1>2, <1>3
<1>5. new \in Devices /\ new.functions = {}
  <2>1. unit \in Nat \X Nat
    BY <1>1, <1>2
  <2>2. unit[1] \in Nat /\ unit[2] \in Nat
    BY <2>1
  <2> HIDE DEF unit
  <2> QED
    BY <2>2 DEF Devices
<1> HIDE DEF new
<1>6. assigned' \in Seq(Devices)
  <2>1. assigned' = assigned \/ assigned' = Append(assigned, new)
    BY <1>1
  <2>2. Append(assigned, new) \in Seq(Devices)
    BY <1>2, <1>5
  <2> QED
    BY <1>2, <2>1, <2>2
<1>7. Aux!Table' = Aux!Table
  <2>1. CASE assigned' = assigned
    BY <2>1 DEF Aux!Table
  <2>2. CASE assigned' = Append(assigned, new)
    <3>1. /\ Len(assigned) \in Nat /\ DOMAIN assigned = 1..Len(assigned)
          /\ DOMAIN assigned' = 1..(Len(assigned) + 1)
          /\ \A i \in DOMAIN assigned : assigned'[i] = assigned[i]
          /\ assigned'[Len(assigned) + 1] = new
      BY <1>2, <2>2
    <3>2. ASSUME NEW r \in Aux!Table PROVE r \in Aux!Table'
      BY <3>1, <3>2, TableMember, TableMemberNext
    <3>3. ASSUME NEW r \in Aux!Table' PROVE r \in Aux!Table
      <4>1. PICK i \in DOMAIN assigned' : \E f \in assigned'[i].functions :
                 r = [name |-> assigned'[i].name, function |-> f.function, input |-> f.input, type |-> f.type]
        BY <3>3, TableMemberNext
      <4>2. i \in DOMAIN assigned
        BY <1>5, <3>1, <4>1
      <4> QED
        BY <3>1, <4>1, <4>2, TableMember
    <3> QED
      BY <3>2, <3>3
  <2> QED
    BY <1>1, <2>1, <2>2
<1>8. ASSUME NEW c \in Aux!Orders, ~CannotObey(c)
      PROVE  ~CannotObey(c)'
  <2>1. /\ Len(assigned) \in Nat /\ DOMAIN assigned = 1..Len(assigned)
        /\ \A i \in DOMAIN assigned : i \in DOMAIN assigned' /\ assigned'[i] = assigned[i]
    <3>1. CASE assigned' = assigned
      BY <1>2, <3>1
    <3>2. CASE assigned' = Append(assigned, new)
      BY <1>2, <3>2
    <3> QED
      BY <1>1, <3>1, <3>2
  <2> QED
    BY <1>8, <2>1 DEF CannotObey, Removes
<1>9. AuxTypeOK'
  BY <1>1, <1>2, <1>3, <1>4, <1>6 DEF AuxTypeOK
<1>10. ASSUME order # <<>>
       PROVE  /\ Before(order[1]) => Before(order[1])'
              /\ After(order[1]) => After(order[1])'
  <2>1. PICK c \in Aux!Orders : order = <<c>>
    BY <1>2, <1>10 DEF AuxTypeOK
  <2>2. order[1] = c /\ order'[1] = c
    BY <1>1, <2>1
  <2>3. Aux!Believed(c)' = Aux!Believed(c)
    BY <1>1 DEF Aux!Believed
  <2> QED
    BY <1>1, <1>7, <1>8, <2>2, <2>3 DEF Before, After
<1> QED
  BY <1>1, <1>2, <1>3, <1>7, <1>9, <1>10 DEF AuxInv, Agreement

(* The client's own inputs leave the assignments alone.                    *)
LEMMA OwnInputsKeep ==
    ASSUME AuxInv, Aux!OwnInputs
    PROVE  AuxInv'
<1>1. /\ UNCHANGED <<assigned, order, answer, believed>>
      /\ {"version", "orders", "units"} \subseteq DOMAIN auxPlan'
      /\ auxPlan'.orders = auxPlan.orders /\ auxPlan'.units = auxPlan.units
      /\ auxPlan'.version = auxPlan.version
  <2> USE DEF AuxInv, AuxTypeOK
  <2>1. CASE Aux!UpdateStatus
    BY <2>1 DEF Aux!UpdateStatus, Aux!update_auxiliary_input_status
  <2>2. CASE Aux!update_auxiliary_input
    BY <2>2 DEF Aux!update_auxiliary_input, Aux!update_auxiliary_input_status
  <2>3. CASE Aux!remove_auxiliary_input_object_id
    BY <2>3 DEF Aux!remove_auxiliary_input_object_id
  <2>4. CASE Aux!TimePasses
    BY <2>4 DEF Aux!TimePasses
  <2>5. CASE Aux!AuxiliaryInputStatusTypeTwoEnable
    BY <2>5 DEF Aux!AuxiliaryInputStatusTypeTwoEnable
  <2>6. CASE Aux!LearnModeToggled
    BY <2>6 DEF Aux!LearnModeToggled
  <2>7. CASE Aux!SessionEnds
    BY <2>7 DEF Aux!SessionEnds
  <2>8. CASE Aux!SessionStarts
    BY <2>8 DEF Aux!SessionStarts
  <2> QED
    BY <2>1, <2>2, <2>3, <2>4, <2>5, <2>6, <2>7, <2>8 DEF Aux!OwnInputs
<1>2. AuxTypeOK' /\ Agreement' = Agreement
  BY <1>1 DEF AuxInv, AuxTypeOK, Agreement, Before, After, Aux!Table, Aux!Believed, CannotObey
<1> QED
  BY <1>1, <1>2 DEF AuxInv

(* Every step of the auxiliary inputs keeps the invariant.                 *)
LEMMA AuxStep ==
    ASSUME AuxInv, Aux!AuxNext
    PROVE  AuxInv'
BY OrderArrivesKeeps, TerminalOrdersKeeps, TerminalLearnsKeeps, AnswerLostKeeps,
   UnitAnnouncedKeeps, OwnInputsKeep
   DEF Aux!AuxNext, Aux!Assignments

(* It holds at the start, for every plan of orders and units.              *)
LEMMA AuxStart ==
    ASSUME Aux!AuxInit
    PROVE  AuxInv
<1>1. /\ auxPlan \in Aux!AuxSetups
      /\ assigned = <<>> /\ order = <<>> /\ answer = <<>> /\ believed = {}
  BY AuxPlansAssumption DEF Aux!AuxInit
<1>2. /\ {"version", "orders", "units"} \subseteq DOMAIN auxPlan
      /\ auxPlan.orders \in Seq(Aux!Orders) /\ auxPlan.units \in Seq(Nat \X Nat)
  BY <1>1 DEF Aux!AuxSetups
<1>3. AuxTypeOK
  BY <1>1, <1>2 DEF AuxTypeOK
<1>4. Aux!Table = {}
  BY <1>1, TableMember
<1> QED
  BY <1>1, <1>3, <1>4 DEF AuxInv, Agreement

-----------------------------------------------------------------------------
\* The operator's events and the number.

(* Words are integers; the interval itself stays closed for the provers.   *)
LEMMA WordInt == Operator!Word \subseteq Int
BY DEF Operator!Word

(* Two bytes read as a word are the word they were made from.              *)
LEMMA WordRead ==
    ASSUME NEW d, NEW i \in Int, NEW w \in Int, d[i] = Operator!LowByte(w), d[i + 1] = Operator!HighByte(w)
    PROVE  Operator!WordAt(d, i) = w
BY DEF Operator!WordAt, Operator!LowByte, Operator!HighByte

(* Four bytes read as a number are the number they were made from.         *)
LEMMA LongRead ==
    ASSUME NEW d, NEW n \in Int,
           d[4] = Operator!LowByte(n % 65536), d[5] = Operator!HighByte(n % 65536),
           d[6] = Operator!LowByte(n \div 65536), d[7] = Operator!HighByte(n \div 65536)
    PROVE  Operator!LongAt(d, 4) = n
<1> DEFINE low == n % 65536
           high == n \div 65536
<1>1. low \in Int /\ high \in Int /\ n = low + 65536 * high
  OBVIOUS
<1> HIDE DEF low, high
<1>2. d[4] = Operator!LowByte(low) /\ d[4 + 1] = Operator!HighByte(low) /\ d[6] = Operator!LowByte(high) /\ d[6 + 1] = Operator!HighByte(high)
  BY DEF low, high
<1>3. Operator!WordAt(d, 4) = low /\ Operator!WordAt(d, 6) = high
  BY <1>1, <1>2, WordRead
<1> QED
  BY <1>1, <1>3 DEF Operator!LongAt

(* A number comes through with the ID of its object.                       *)
LEMMA NumberRead ==
    ASSUME NEW id \in Int, NEW third, NEW n \in Int, NEW function, NEW m,
           m = Operator!ToMessage(function, Operator!NumberBytes(id, third, n))
    PROVE  Operator!WordAt(m.data, 1) = id /\ Operator!LongAt(m.data, 4) = n /\ m.data[3] = third
<1> DEFINE b == Operator!NumberBytes(id, third, n)
<1>1. /\ Len(b) = 7 /\ b[1] = Operator!LowByte(id) /\ b[2] = Operator!HighByte(id) /\ b[3] = third
      /\ b[4] = Operator!LowByte(n % 65536) /\ b[5] = Operator!HighByte(n % 65536)
      /\ b[6] = Operator!LowByte(n \div 65536) /\ b[7] = Operator!HighByte(n \div 65536)
  BY DEF Operator!NumberBytes
<1> HIDE DEF b
<1>2. m = Operator!ToMessage(function, b)
  BY DEF b
<1>3. \A i \in 1..7 : m.data[i] = b[i]
  BY <1>1, <1>2 DEF Operator!ToMessage
<1> QED
  BY <1>1, <1>3, WordRead, LongRead

(* A key or a button is told as the operator pressed it; codes outside the *)
(* standard are not (process_rx_message, Soft Key and Button Activation).  *)
LEMMA KeyMeant ==
    ASSUME NEW e \in Operator!KeyEvents, NEW v \in Int, NEW m, m = Operator!MessageOf(e, v)
    PROVE  Operator!Handle(m, v).told = Operator!Meant(e, v) /\ m.function = e.event
<1> DEFINE d == m.data
           b == Operator!KeyMessage(e)
<1>1. /\ e.event \in {"SoftKey", "Button"} /\ e.id \in Operator!Word /\ e.parent \in Operator!Word
      /\ e.code \in 0..255
  BY DEF Operator!KeyEvents
<1>2. e.id \in Int /\ e.parent \in Int
  BY <1>1, WordInt
<1>3. m = Operator!ToMessage(e.event, b)
  BY <1>1 DEF Operator!MessageOf
<1>4. /\ Len(b) = 6
      /\ b[1] = e.code /\ b[2] = Operator!LowByte(e.id) /\ b[3] = Operator!HighByte(e.id)
      /\ b[4] = Operator!LowByte(e.parent) /\ b[5] = Operator!HighByte(e.parent) /\ b[6] = e.key
  BY DEF Operator!KeyMessage
<1> HIDE DEF b
<1>5. m.function = e.event /\ \A i \in 1..6 : d[i] = b[i]
  BY <1>3, <1>4 DEF Operator!ToMessage
<1>6. d[1] = e.code /\ Operator!WordAt(d, 2) = e.id /\ Operator!WordAt(d, 4) = e.parent /\ d[6] = e.key
  BY <1>2, <1>4, <1>5, WordRead
<1>7. Operator!Handle(m, v) = Operator!Key(m, v)
  BY <1>1, <1>5 DEF Operator!Handle
<1>8. Operator!Key(m, v).told = IF e.code > 3 THEN <<>>
                       ELSE <<[code |-> e.code, id |-> e.id, parent |-> e.parent, key |-> e.key]>>
  BY <1>6 DEF Operator!Key, Operator!Told, Operator!Silent, Operator!ButtonPressAborted
<1>9. Operator!Meant(e, v) = IF e.code \in 0..3
            THEN <<[code |-> e.code, id |-> e.id, parent |-> e.parent, key |-> e.key]>> ELSE <<>>
  BY <1>1 DEF Operator!Meant
<1>10. e.code > 3 <=> e.code \notin 0..3
  BY <1>1
<1> QED
  BY <1>5, <1>7, <1>8, <1>9, <1>10

(* A touch is told with its place, and the code without the transaction    *)
(* number of version 6 (Pointing Event).                                   *)
LEMMA PointingMeant ==
    ASSUME NEW e \in Operator!PointingEvents, NEW v \in Int, NEW m, m = Operator!MessageOf(e, v)
    PROVE  Operator!Handle(m, v).told = Operator!Meant(e, v) /\ m.function = e.event
<1> DEFINE d == m.data
           tail == IF v >= 6 THEN <<16 * e.tan + e.code, Operator!LowByte(e.mask), Operator!HighByte(e.mask)>>
                   ELSE IF v >= 4 THEN <<e.code>> ELSE <<>>
           p == Operator!LowByte(e.x)
           q == Operator!HighByte(e.x)
           r == Operator!LowByte(e.y)
           s == Operator!HighByte(e.y)
           b == <<p, q, r, s>> \o tail
           touch == IF v >= 6 THEN d[5] % 16 ELSE IF v >= 4 THEN d[5] ELSE 1
           mask == IF v >= 6 THEN Operator!WordAt(d, 6) ELSE Operator!NO_MASK
<1>1. /\ e.event = "Pointing" /\ e.x \in Operator!Word /\ e.y \in Operator!Word /\ e.mask \in Operator!Word
      /\ e.code \in 0..3 /\ e.tan \in 0..15
  BY DEF Operator!PointingEvents
<1>2. e.x \in Int /\ e.y \in Int /\ e.mask \in Int
  BY <1>1, WordInt
<1>3. m = Operator!ToMessage(e.event, b)
  BY <1>1 DEF Operator!MessageOf, Operator!ForeignMessage
<1>4. m.function = e.event
  BY <1>3 DEF Operator!ToMessage
<1>5. /\ Operator!WordAt(d, 1) = e.x /\ Operator!WordAt(d, 3) = e.y
      /\ touch = (IF v >= 4 THEN e.code ELSE 1) /\ mask = (IF v >= 6 THEN e.mask ELSE Operator!NO_MASK)
  <2>1. CASE v >= 6
    <3> DEFINE x == 16 * e.tan + e.code
               y == Operator!LowByte(e.mask)
               z == Operator!HighByte(e.mask)
    <3>1. tail = <<x, y, z>>
      BY <2>1
    <3> HIDE DEF tail, p, q, r, s, x, y, z
    <3>2. /\ Len(b) = 7 /\ b[1] = p /\ b[2] = q /\ b[3] = r /\ b[4] = s
          /\ b[5] = x /\ b[6] = y /\ b[7] = z
      BY <3>1
    <3> HIDE DEF b
    <3>3. \A i \in 1..7 : d[i] = b[i]
      BY <1>3, <3>2 DEF Operator!ToMessage
    <3>4. Operator!WordAt(d, 1) = e.x /\ Operator!WordAt(d, 3) = e.y /\ Operator!WordAt(d, 6) = e.mask
      BY <1>2, <3>2, <3>3, WordRead DEF p, q, r, s, y, z
    <3>5. d[5] = 16 * e.tan + e.code
      BY <3>2, <3>3 DEF x
    <3>6. d[5] % 16 = e.code
      BY <1>1, <3>5
    <3> QED
      BY <2>1, <3>4, <3>6
  <2>2. CASE v >= 4 /\ v < 6
    <3> DEFINE x == e.code
    <3>1. tail = <<x>>
      BY <2>2
    <3> HIDE DEF tail, p, q, r, s, x
    <3>2. Len(b) = 5 /\ b[1] = p /\ b[2] = q /\ b[3] = r /\ b[4] = s /\ b[5] = x
      BY <3>1
    <3> HIDE DEF b
    <3>3. \A i \in 1..5 : d[i] = b[i]
      BY <1>3, <3>2 DEF Operator!ToMessage
    <3>4. Operator!WordAt(d, 1) = e.x /\ Operator!WordAt(d, 3) = e.y /\ d[5] = e.code
      BY <1>2, <3>2, <3>3, WordRead DEF p, q, r, s, x
    <3> QED
      BY <2>2, <3>4
  <2>3. CASE v < 4
    <3>1. tail = <<>>
      BY <2>3
    <3> HIDE DEF tail, p, q, r, s
    <3>2. Len(b) = 4 /\ b[1] = p /\ b[2] = q /\ b[3] = r /\ b[4] = s
      BY <3>1
    <3> HIDE DEF b
    <3>3. \A i \in 1..4 : d[i] = b[i]
      BY <1>3, <3>2 DEF Operator!ToMessage
    <3>4. Operator!WordAt(d, 1) = e.x /\ Operator!WordAt(d, 3) = e.y
      BY <1>2, <3>2, <3>3, WordRead DEF p, q, r, s
    <3> QED
      BY <2>3, <3>4
  <2> QED
    BY <2>1, <2>2, <2>3
<1>6. Operator!Handle(m, v) = Operator!Pointing(m, v)
  BY <1>1, <1>4 DEF Operator!Handle
<1>7. Operator!Pointing(m, v).told = IF touch <= 3
                THEN <<[x |-> Operator!WordAt(d, 1), y |-> Operator!WordAt(d, 3), mask |-> mask, code |-> touch]>> ELSE <<>>
  BY DEF Operator!Pointing, Operator!Told, Operator!ButtonPressAborted
<1>8. Operator!Meant(e, v) = <<[x |-> e.x, y |-> e.y, mask |-> IF v >= 6 THEN e.mask ELSE Operator!NO_MASK,
                       code |-> IF v >= 4 THEN e.code ELSE 1]>>
  BY <1>1 DEF Operator!Meant
<1>9. touch <= 3
  BY <1>1, <1>5
<1> HIDE DEF touch, mask
<1> QED
  BY <1>4, <1>5, <1>6, <1>7, <1>8, <1>9

(* A selected input is told; whether it is open, from version 4 on (VT     *)
(* Select Input Object).                                                   *)
LEMMA InputMeant ==
    ASSUME NEW e \in Operator!InputEvents, NEW v \in Int, NEW m, m = Operator!MessageOf(e, v)
    PROVE  Operator!Handle(m, v).told = Operator!Meant(e, v) /\ m.function = e.event
<1> DEFINE d == m.data
           b == Operator!SelectInputMessage(e)
           selected == d[3] = 1
           open == v >= 4 => Operator!BitAt(d, 4, 1)
<1>1. e.event = "SelectInput" /\ e.id \in Operator!Word /\ e.selected \in BOOLEAN /\ e.open \in BOOLEAN
  BY DEF Operator!InputEvents
<1>2. e.id \in Int
  BY <1>1, WordInt
<1>3. m = Operator!ToMessage(e.event, b)
  BY <1>1 DEF Operator!MessageOf
<1>4. /\ Len(b) = 4
      /\ b[1] = Operator!LowByte(e.id) /\ b[2] = Operator!HighByte(e.id)
      /\ b[3] = Operator!OneIf(e.selected) /\ b[4] = Operator!OneIf(e.open)
  BY DEF Operator!SelectInputMessage
<1> HIDE DEF b
<1>5. m.function = e.event /\ \A i \in 1..4 : d[i] = b[i]
  BY <1>3, <1>4 DEF Operator!ToMessage
<1>6. Operator!WordAt(d, 1) = e.id
  BY <1>2, <1>4, <1>5, WordRead
<1>7. selected = e.selected
  BY <1>1, <1>4, <1>5 DEF Operator!OneIf
<1>8. open = (e.open \/ v < 4)
  <2>1. Operator!BitAt(d, 4, 1) <=> e.open
    <3>1. d[4] = Operator!OneIf(e.open)
      BY <1>4, <1>5
    <3> QED
      BY <3>1 DEF Operator!OneIf, Operator!BitAt
  <2> QED
    BY <2>1
<1>9. Operator!Handle(m, v) = Operator!SelectInput(m, v)
  BY <1>1, <1>5 DEF Operator!Handle
<1>10. Operator!SelectInput(m, v).told = <<[id |-> Operator!WordAt(d, 1), selected |-> selected, open |-> open]>>
  BY DEF Operator!SelectInput, Operator!Told
<1>11. Operator!Meant(e, v) = <<[id |-> e.id, selected |-> e.selected, open |-> e.open \/ v < 4]>>
  BY <1>1 DEF Operator!Meant
<1> HIDE DEF selected, open
<1> QED
  BY <1>5, <1>6, <1>7, <1>8, <1>9, <1>10, <1>11, Zenon

(* An escape is told with its error, and only with one of the standard (VT *)
(* ESC).                                                                   *)
LEMMA EscMeant ==
    ASSUME NEW e \in Operator!EscEvents, NEW v \in Int, NEW m, m = Operator!MessageOf(e, v)
    PROVE  Operator!Handle(m, v).told = Operator!Meant(e, v) /\ m.function = e.event
<1> DEFINE d == m.data
           b == <<Operator!LowByte(e.id), Operator!HighByte(e.id), e.error, 255, 255, 255, 16 * e.tan + 15>>
<1>1. e.event = "Esc" /\ e.id \in Operator!Word /\ e.error \in 0..31
  BY DEF Operator!EscEvents
<1>2. e.id \in Int
  BY <1>1, WordInt
<1>3. m = Operator!ToMessage(e.event, b)
  BY <1>1 DEF Operator!MessageOf, Operator!ForeignMessage
<1>4. /\ Len(b) = 7
      /\ b[1] = Operator!LowByte(e.id) /\ b[2] = Operator!HighByte(e.id) /\ b[3] = e.error
  OBVIOUS
<1> HIDE DEF b
<1>5. m.function = e.event /\ \A i \in 1..7 : d[i] = b[i]
  BY <1>3, <1>4 DEF Operator!ToMessage
<1>6. Operator!WordAt(d, 1) = e.id /\ d[3] = e.error
  BY <1>2, <1>4, <1>5, WordRead
<1>7. d[3] % 32 = e.error
  BY <1>1, <1>6
<1>8. Operator!Handle(m, v) = Operator!Esc(m, v)
  BY <1>1, <1>5 DEF Operator!Handle
<1>9. Operator!Esc(m, v).told = IF e.error \notin {0, 1, 5} THEN <<>>
                       ELSE <<[id |-> e.id, error |-> e.error]>>
  BY <1>6, <1>7 DEF Operator!Esc, Operator!Told, Operator!Silent
<1>10. Operator!Meant(e, v) = IF e.error \in {0, 1, 5} THEN <<[id |-> e.id, error |-> e.error]>> ELSE <<>>
  BY <1>1 DEF Operator!Meant
<1> QED
  BY <1>5, <1>8, <1>9, <1>10

(* An entered number is told with its object (VT Change Numeric Value).    *)
LEMMA NumberMeant ==
    ASSUME NEW e \in Operator!NumberEvents, NEW v \in Int, NEW m, m = Operator!MessageOf(e, v)
    PROVE  /\ Operator!Handle(m, v).told = Operator!Meant(e, v) /\ m.function = e.event
           /\ Operator!Meant(e, v) = <<[id |-> e.id, value |-> e.value]>>
           /\ Operator!WordAt(m.data, 1) = e.id /\ Operator!LongAt(m.data, 4) = e.value
<1> DEFINE d == m.data
           b == Operator!NumberBytes(e.id, Operator!RESERVED, e.value)
<1>1. e.event = "NumericValue" /\ e.id \in Operator!Word /\ e.value \in Nat
  BY DEF Operator!NumberEvents
<1>2. e.id \in Int /\ e.value \in Int
  <2>1. e.id \in Int
    BY <1>1, WordInt
  <2>2. e.value \in Int
    BY <1>1
  <2> QED
    BY <2>1, <2>2
<1>3. m = Operator!ToMessage(e.event, b)
  BY <1>1 DEF Operator!MessageOf, Operator!NumericValueMessage
<1> HIDE DEF b
<1>4. m.function = e.event
  BY <1>3 DEF Operator!ToMessage
<1>5. Operator!WordAt(d, 1) = e.id /\ Operator!LongAt(d, 4) = e.value
  BY <1>2, <1>3, NumberRead DEF b
<1>6. Operator!Handle(m, v) = Operator!NumericValue(m, v)
  BY <1>1, <1>4 DEF Operator!Handle
<1>7. Operator!NumericValue(m, v).told = <<[id |-> Operator!WordAt(d, 1), value |-> Operator!LongAt(d, 4)]>>
  BY DEF Operator!NumericValue, Operator!Told
<1>8. Operator!Meant(e, v) = <<[id |-> e.id, value |-> e.value]>>
  BY <1>1 DEF Operator!Meant
<1> QED
  BY <1>4, <1>5, <1>6, <1>7, <1>8

(* The error bits of a mask's message are read as they were set.           *)
LEMMA ErrorBits ==
    ASSUME NEW e \in Operator!MaskEvents, NEW d, NEW i, d[i] = Operator!Errors(e)
    PROVE  Operator!MaskErrors(d, i) = [missing |-> e.missing, faulty |-> e.faulty,
                               other |-> e.other, deleted |-> e.deleted]
<1> DEFINE n == Operator!Errors(e)
<1>1. /\ e.missing \in BOOLEAN /\ e.faulty \in BOOLEAN
      /\ e.other \in BOOLEAN /\ e.deleted \in BOOLEAN
  BY DEF Operator!MaskEvents
<1>2. /\ Operator!BitAt(d, i, 4) = e.missing /\ Operator!BitAt(d, i, 8) = e.faulty
      /\ Operator!BitAt(d, i, 16) = e.other /\ Operator!BitAt(d, i, 32) = e.deleted
  BY <1>1 DEF Operator!BitAt, Operator!Errors, Operator!OneIf
<1> QED
  BY <1>2, Zenon DEF Operator!MaskErrors

(* An active mask and a soft key mask are told with all their errors.      *)
LEMMA MaskMeant ==
    ASSUME NEW e \in Operator!MaskEvents, NEW v \in Int, NEW m, m = Operator!MessageOf(e, v)
    PROVE  Operator!Handle(m, v).told = Operator!Meant(e, v) /\ m.function = e.event
<1> DEFINE d == m.data
           errors == [missing |-> e.missing, faulty |-> e.faulty,
                      other |-> e.other, deleted |-> e.deleted]
<1>1. /\ e.event \in {"ActiveMask", "SoftKeyMask"}
      /\ e.mask \in Operator!Word /\ e.error \in Operator!Word /\ e.parent \in Operator!Word /\ e.soft \in Operator!Word
  BY DEF Operator!MaskEvents
<1>2. e.mask \in Int /\ e.error \in Int /\ e.parent \in Int /\ e.soft \in Int
  BY <1>1, WordInt
<1> HIDE DEF errors
<1>3. CASE e.event = "ActiveMask"
  <2> DEFINE b == <<Operator!LowByte(e.mask), Operator!HighByte(e.mask), Operator!Errors(e), Operator!LowByte(e.error), Operator!HighByte(e.error),
                    Operator!LowByte(e.parent), Operator!HighByte(e.parent)>>
  <2>1. m = Operator!ToMessage(e.event, b)
    BY <1>3 DEF Operator!MessageOf, Operator!ForeignMessage
  <2>2. /\ Len(b) = 7 /\ b[1] = Operator!LowByte(e.mask) /\ b[2] = Operator!HighByte(e.mask) /\ b[3] = Operator!Errors(e)
        /\ b[4] = Operator!LowByte(e.error) /\ b[5] = Operator!HighByte(e.error)
        /\ b[6] = Operator!LowByte(e.parent) /\ b[7] = Operator!HighByte(e.parent)
    OBVIOUS
  <2> HIDE DEF b
  <2>3. m.function = e.event /\ \A i \in 1..7 : d[i] = b[i]
    BY <2>1, <2>2 DEF Operator!ToMessage
  <2>4. Operator!WordAt(d, 1) = e.mask /\ Operator!WordAt(d, 4) = e.error /\ Operator!WordAt(d, 6) = e.parent
    BY <1>2, <2>2, <2>3, WordRead
  <2>5. Operator!MaskErrors(d, 3) = errors
    BY <2>2, <2>3, ErrorBits DEF errors
  <2>6. Operator!Handle(m, v) = Operator!ActiveMask(m)
    BY <1>3, <2>3 DEF Operator!Handle
  <2>7. Operator!ActiveMask(m).told = <<[mask |-> e.mask, error |-> e.error, parent |-> e.parent, errors |-> errors]>>
    BY <2>4, <2>5 DEF Operator!ActiveMask, Operator!Told
  <2>8. Operator!Meant(e, v) = <<[mask |-> e.mask, error |-> e.error, parent |-> e.parent, errors |-> errors]>>
    BY <1>3 DEF Operator!Meant, errors
  <2> QED
    BY <2>3, <2>6, <2>7, <2>8
<1>4. CASE e.event = "SoftKeyMask"
  <2> DEFINE b == <<Operator!LowByte(e.mask), Operator!HighByte(e.mask), Operator!LowByte(e.soft), Operator!HighByte(e.soft), Operator!Errors(e)>>
  <2>1. m = Operator!ToMessage(e.event, b)
    BY <1>4 DEF Operator!MessageOf, Operator!ForeignMessage
  <2>2. /\ Len(b) = 5 /\ b[1] = Operator!LowByte(e.mask) /\ b[2] = Operator!HighByte(e.mask)
        /\ b[3] = Operator!LowByte(e.soft) /\ b[4] = Operator!HighByte(e.soft) /\ b[5] = Operator!Errors(e)
    OBVIOUS
  <2> HIDE DEF b
  <2>3. m.function = e.event /\ \A i \in 1..5 : d[i] = b[i]
    BY <2>1, <2>2 DEF Operator!ToMessage
  <2>4. Operator!WordAt(d, 1) = e.mask /\ Operator!WordAt(d, 3) = e.soft
    BY <1>2, <2>2, <2>3, WordRead
  <2>5. Operator!MaskErrors(d, 5) = errors
    BY <2>2, <2>3, ErrorBits DEF errors
  <2>6. Operator!Handle(m, v) = Operator!SoftKeyMask(m)
    BY <1>4, <2>3 DEF Operator!Handle
  <2>7. Operator!SoftKeyMask(m).told = <<[mask |-> e.mask, soft |-> e.soft, errors |-> errors]>>
    BY <2>4, <2>5 DEF Operator!SoftKeyMask, Operator!Told
  <2>8. Operator!Meant(e, v) = <<[mask |-> e.mask, soft |-> e.soft, errors |-> errors]>>
    BY <1>4 DEF Operator!Meant, errors
  <2> QED
    BY <2>3, <2>6, <2>7, <2>8
<1> QED
  BY <1>1, <1>3, <1>4

(* An entered text is told, the first 255 bytes of it (VT Change String    *)
(* Value).                                                                 *)
LEMMA TextMeant ==
    ASSUME NEW e \in Operator!TextEvents, NEW v \in Int, NEW m, m = Operator!MessageOf(e, v)
    PROVE  Operator!Handle(m, v).told = Operator!Meant(e, v) /\ m.function = e.event
<1> DEFINE d == m.data
           n == IF Len(e.text) < 255 THEN Len(e.text) ELSE 255
           kept == SubSeq(e.text, 1, n)
           p == Operator!LowByte(e.id)
           q == Operator!HighByte(e.id)
           r == Len(kept)
           b == <<p, q, r>> \o kept
<1>1. e.event = "StringValue" /\ e.id \in Operator!Word /\ e.text \in Seq(0..255)
  BY DEF Operator!TextEvents
<1>2. e.id \in Int
  BY <1>1, WordInt
<1>3. /\ n \in Nat /\ n <= Len(e.text)
      /\ Len(e.text) > 255 => n = 255
      /\ ~(Len(e.text) > 255) => n = Len(e.text)
  BY <1>1
<1>5. /\ kept \in Seq(0..255) /\ Len(kept) = n
      /\ n = Len(e.text) => kept = e.text
  <2> DEFINE text == e.text
             S == 0..255
  <2>1. text \in Seq(S)
    BY <1>1
  <2>2. n <= Len(text)
    BY <1>3
  <2> HIDE DEF n, text, S
  <2>3. SubSeq(text, 1, n) \in Seq(S) /\ Len(SubSeq(text, 1, n)) = n
    BY <1>3, <2>1, <2>2
  <2>4. n = Len(text) => SubSeq(text, 1, n) = text
    BY <1>3, <2>1, <2>2
  <2> QED
    BY <2>3, <2>4 DEF text, S
<1>4. m = Operator!ToMessage(e.event, b)
  <2>1. Operator!StringValueMessage(e) = b
    <3> DEFINE cut == IF Len(e.text) > 255 THEN SubSeq(e.text, 1, 255) ELSE e.text
    <3>1. cut = kept
      <4>1. CASE Len(e.text) > 255
        <5>1. n = 255
          BY <1>3, <4>1
        <5> QED
          BY <4>1, <5>1
      <4>2. CASE ~(Len(e.text) > 255)
        <5>1. kept = e.text
          BY <1>3, <1>5, <4>2
        <5> HIDE DEF kept
        <5> QED
          BY <4>2, <5>1
      <4> QED
        BY <4>1, <4>2
    <3>2. Operator!StringValueMessage(e) = <<Operator!LowByte(e.id), Operator!HighByte(e.id), Len(cut)>> \o cut
      BY DEF Operator!StringValueMessage
    <3> HIDE DEF cut, kept
    <3> QED
      BY <3>1, <3>2
  <2> QED
    BY <1>1, <2>1 DEF Operator!MessageOf
<1> HIDE DEF n, kept
<1>6. /\ Len(b) = 3 + n /\ b[1] = Operator!LowByte(e.id) /\ b[2] = Operator!HighByte(e.id) /\ b[3] = n
      /\ \A i \in 1..n : b[3 + i] = kept[i]
  <2> DEFINE S == 0..255
  <2>1. kept \in Seq(S) /\ n = Len(kept) /\ r = n
    BY <1>5
  <2> HIDE DEF p, q, r, S
  <2>2. /\ Len(b) = 3 + n /\ b[1] = p /\ b[2] = q /\ b[3] = r
        /\ \A i \in 1..n : b[3 + i] = kept[i]
    BY <2>1
  <2> QED
    BY <2>1, <2>2 DEF p, q, r
<1> HIDE DEF b
<1>7. m.function = e.event
  BY <1>4 DEF Operator!ToMessage
<1>8. \A i \in 1..(3 + n) : d[i] = b[i]
  BY <1>3, <1>4, <1>6 DEF Operator!ToMessage
<1>9. Operator!WordAt(d, 1) = e.id /\ d[3] = n
  <2>1. 1 \in 1..(3 + n) /\ 2 \in 1..(3 + n) /\ 3 \in 1..(3 + n)
    BY <1>3
  <2>2. d[1] = Operator!LowByte(e.id) /\ d[1 + 1] = Operator!HighByte(e.id) /\ d[3] = n
    BY <1>6, <1>8, <2>1
  <2> QED
    BY <1>2, <2>2, WordRead
<1>10. SubSeq(d, 4, 3 + n) = kept
  <2>1. SubSeq(d, 4, 3 + n) = [i \in 1..n |-> d[4 + i - 1]]
    BY <1>3
  <2>2. \A i \in 1..n : d[4 + i - 1] = kept[i]
    <3> SUFFICES ASSUME NEW i \in 1..n PROVE d[3 + i] = kept[i]
      BY <1>3
    <3>1. 3 + i \in 1..(3 + n)
      BY <1>3
    <3> QED
      BY <1>6, <1>8, <3>1
  <2>3. kept = [i \in 1..n |-> kept[i]]
    BY <1>3, <1>5
  <2> QED
    BY <2>1, <2>2, <2>3
<1>11. Operator!Handle(m, v) = Operator!StringValue(m)
  BY <1>1, <1>7 DEF Operator!Handle
<1>12. Operator!StringValue(m).told = <<[id |-> e.id, text |-> kept]>>
  BY <1>9, <1>10 DEF Operator!StringValue, Operator!Told
<1>13. Operator!Meant(e, v) = <<[id |-> e.id, text |-> kept]>>
  BY <1>1 DEF Operator!Meant, kept, n
<1> QED
  BY <1>7, <1>11, <1>12, <1>13

(* Both halves of a hidden or shown layout are told, the second if there is*)
(* one.                                                                    *)
LEMMA LayoutMeant ==
    ASSUME NEW e \in Operator!LayoutEvents, NEW v \in Int, NEW m, m = Operator!MessageOf(e, v)
    PROVE  Operator!Handle(m, v).told = Operator!Meant(e, v) /\ m.function = e.event
<1> DEFINE d == m.data
           b == <<Operator!LowByte(e.id), Operator!HighByte(e.id), Operator!OneIf(~e.hidden), Operator!LowByte(e.second), Operator!HighByte(e.second),
                  Operator!OneIf(~e.secondHidden), 16 * e.tan + 15>>
           first == [id |-> e.id, hidden |-> e.hidden]
           second == [id |-> e.second, hidden |-> e.secondHidden]
<1>1. /\ e.event = "LayoutHideShow" /\ e.id \in Operator!Word /\ e.second \in Operator!Word
      /\ e.hidden \in BOOLEAN /\ e.secondHidden \in BOOLEAN
  BY DEF Operator!LayoutEvents
<1>2. e.id \in Int /\ e.second \in Int
  BY <1>1, WordInt
<1>3. m = Operator!ToMessage(e.event, b)
  BY <1>1 DEF Operator!MessageOf, Operator!ForeignMessage
<1>4. /\ Len(b) = 7
      /\ b[1] = Operator!LowByte(e.id) /\ b[2] = Operator!HighByte(e.id) /\ b[3] = Operator!OneIf(~e.hidden)
      /\ b[4] = Operator!LowByte(e.second) /\ b[5] = Operator!HighByte(e.second) /\ b[6] = Operator!OneIf(~e.secondHidden)
  OBVIOUS
<1> HIDE DEF b
<1>5. m.function = e.event /\ \A i \in 1..7 : d[i] = b[i]
  BY <1>3, <1>4 DEF Operator!ToMessage
<1>6. Operator!WordAt(d, 1) = e.id /\ Operator!WordAt(d, 4) = e.second
  BY <1>2, <1>4, <1>5, WordRead
<1>7. (~Operator!BitAt(d, 3, 1)) = e.hidden /\ (~Operator!BitAt(d, 6, 1)) = e.secondHidden
  <2>1. d[3] = Operator!OneIf(~e.hidden) /\ d[6] = Operator!OneIf(~e.secondHidden)
    BY <1>4, <1>5
  <2> QED
    BY <1>1, <2>1 DEF Operator!BitAt, Operator!OneIf
<1>8. Operator!Handle(m, v) = Operator!LayoutHideShow(m, v)
  BY <1>1, <1>5 DEF Operator!Handle
<1>9. /\ [id |-> Operator!WordAt(d, 1), hidden |-> ~Operator!BitAt(d, 3, 1)] = first
      /\ [id |-> Operator!WordAt(d, 4), hidden |-> ~Operator!BitAt(d, 6, 1)] = second
  BY <1>6, <1>7, Zenon
<1>10. Operator!LayoutHideShow(m, v).told = <<first>> \o IF e.second # Operator!NO_MASK THEN <<second>> ELSE <<>>
  <2>1. second.id = e.second
    OBVIOUS
  <2> HIDE DEF first, second
  <2> QED
    BY <1>9, <2>1 DEF Operator!LayoutHideShow, Operator!Told
<1>11. Operator!Meant(e, v) = <<first>> \o IF e.second = Operator!NO_MASK THEN <<>> ELSE <<second>>
  BY <1>1 DEF Operator!Meant
<1> HIDE DEF first, second
<1>12. (IF e.second # Operator!NO_MASK THEN <<second>> ELSE <<>>)
          = (IF e.second = Operator!NO_MASK THEN <<>> ELSE <<second>>)
  OBVIOUS
<1> QED
  BY <1>5, <1>8, <1>10, <1>11, <1>12

(* The end of an audio signal is told.                                     *)
LEMMA AudioMeant ==
    ASSUME NEW e \in Operator!AudioEvents, NEW v \in Int, NEW m, m = Operator!MessageOf(e, v)
    PROVE  Operator!Handle(m, v).told = Operator!Meant(e, v) /\ m.function = e.event
<1> DEFINE d == m.data
           b == <<Operator!OneIf(e.terminated), 16 * e.tan + 15>>
           terminated == Operator!BitAt(d, 1, 1)
<1>1. e.event = "AudioTermination" /\ e.terminated \in BOOLEAN
  BY DEF Operator!AudioEvents
<1>3. m = Operator!ToMessage(e.event, b)
  BY <1>1 DEF Operator!MessageOf, Operator!ForeignMessage
<1>4. Len(b) = 2 /\ b[1] = Operator!OneIf(e.terminated)
  OBVIOUS
<1> HIDE DEF b
<1>5. m.function = e.event /\ d[1] = b[1]
  BY <1>3, <1>4 DEF Operator!ToMessage
<1>6. terminated = e.terminated
  BY <1>1, <1>4, <1>5 DEF Operator!BitAt, Operator!OneIf
<1>7. Operator!Handle(m, v) = Operator!AudioTermination(m, v)
  BY <1>1, <1>5 DEF Operator!Handle
<1>8. Operator!AudioTermination(m, v).told = <<[terminated |-> terminated]>>
  BY DEF Operator!AudioTermination, Operator!Told
<1>9. Operator!Meant(e, v) = <<[terminated |-> e.terminated]>>
  BY <1>1 DEF Operator!Meant
<1> HIDE DEF terminated
<1> QED
  BY <1>5, <1>6, <1>7, <1>8, <1>9


(* Every event of the operator is told as it was meant, in every version.  *)
LEMMA EventMeant ==
    ASSUME NEW e \in Operator!Events, NEW v \in Int, NEW m, m = Operator!MessageOf(e, v)
    PROVE  Operator!Handle(m, v).told = Operator!Meant(e, v) /\ m.function = e.event
BY KeyMeant, PointingMeant, InputMeant, EscMeant, NumberMeant, MaskMeant, TextMeant,
   LayoutMeant, AudioMeant DEF Operator!Events

(* No event has the name of an answer or of the status message.            *)
LEMMA EventNames ==
    ASSUME NEW e \in Operator!Events
    PROVE  /\ e.event \notin {"VTStatus", "ChangeNumericValue", "ChangeActiveMask", "ChangeSoftKeyMask"}
           /\ e.event = "NumericValue" => e \in Operator!NumberEvents
<1>1. CASE e \in Operator!KeyEvents
  BY <1>1 DEF Operator!KeyEvents
<1>2. CASE e \in Operator!PointingEvents
  BY <1>2 DEF Operator!PointingEvents
<1>3. CASE e \in Operator!InputEvents
  BY <1>3 DEF Operator!InputEvents
<1>4. CASE e \in Operator!EscEvents
  BY <1>4 DEF Operator!EscEvents
<1>5. CASE e \in Operator!NumberEvents
  BY <1>5 DEF Operator!NumberEvents
<1>6. CASE e \in Operator!MaskEvents
  BY <1>6 DEF Operator!MaskEvents
<1>7. CASE e \in Operator!TextEvents
  BY <1>7 DEF Operator!TextEvents
<1>8. CASE e \in Operator!LayoutEvents
  BY <1>8 DEF Operator!LayoutEvents
<1>9. CASE e \in Operator!AudioEvents
  BY <1>9 DEF Operator!AudioEvents
<1> QED
  BY <1>1, <1>2, <1>3, <1>4, <1>5, <1>6, <1>7, <1>8, <1>9 DEF Operator!Events

(* What the application sends to the terminal.                             *)
DisplayCommands ==
    [command : {"ChangeNumericValue"}, id : {Operator!NUMBER}, value : Int]
      \union [command : {"ChangeActiveMask", "ChangeSoftKeyMask"}, id : Operator!Word, value : Operator!Word]

StatusMessage(mask) == Operator!ToMessage("VTStatus", <<38>> \o Operator!WordBytes(mask) \o Operator!WordBytes(Operator!NO_MASK))

(* What is on its way to the client: events, answers and status messages.  *)
Letters(v) ==
    {[event |-> <<e>>, message |-> Operator!MessageOf(e, v)] : e \in Operator!Events}
      \union {[event |-> <<>>, message |-> Operator!AnswerTo(c)] : c \in DisplayCommands}
      \union {[event |-> <<>>, message |-> StatusMessage(mask)] : mask \in Operator!Word}

TrackedFields == {"server", "number", "mask", "history", "soft"}

(* What the application's thread is at in the update helper.               *)
HelperCalls ==
    [set : {"number"}, value : Int] \union [set : {"mask"}, mask : Operator!Word]
      \union [set : {"soft"}, mask : Operator!Word, value : Operator!Word]
Settings == [at : {"compare", "send", "write"}, call : HelperCalls, late : BOOLEAN]

(* Types, as far as the proof needs them.                                  *)
OperatorTypeOK ==
    /\ {"version", "known", "events", "calls", "statuses"} \subseteq DOMAIN opPlan
    /\ opPlan.version \in Nat
    /\ opPlan.events \in Seq(Operator!Events)
    /\ opPlan.calls \in Seq(Operator!Calls)
    /\ toListener \in Seq(Letters(opPlan.version))
    /\ toDisplay \in Seq(DisplayCommands)
    /\ {"number", "mask", "reported", "soft"} \subseteq DOMAIN display /\ display.reported \in Operator!Word
    /\ TrackedFields \subseteq DOMAIN tracked /\ tracked.number \in Int
    /\ setting = <<>> \/ \E s \in Settings : setting = <<s>> /\ (s.at # "write" => s.late = FALSE)
    /\ hearing = <<>> \/ \E l \in Letters(opPlan.version) : hearing = <<l>>

(* The message brings the number.                                          *)
Carries(m) ==
    m.function \in {"NumericValue", "ChangeNumericValue"} /\ Operator!WordAt(m.data, 1) = Operator!NUMBER

(* The last message that brings the number brings the one that is shown.   *)
LastIsShown ==
    \A i \in DOMAIN toListener :
       /\ Carries(toListener[i].message)
       /\ \A j \in DOMAIN toListener : j > i => ~Carries(toListener[j].message)
       => Operator!LongAt(toListener[i].message.data, 4) = display.number

(* Nothing that changes the number is on its way.                          *)
NoMessage == \A i \in DOMAIN toListener : ~Carries(toListener[i].message)
NoCommand == \A i \in DOMAIN toDisplay : toDisplay[i].command # "ChangeNumericValue"

(* A call that has sent its number and writes it next: what changes the    *)
(* number is still on its way, or the tracker has heard it and the call    *)
(* finds the copy as it was heard.                                         *)
WritesNumber == setting # <<>> /\ setting[1].at = "write" /\ setting[1].call.set = "number"
WriteInv ==
    WritesNumber =>
        /\ setting[1].late = TRUE => overwritten = FALSE
        /\ setting[1].late = FALSE => ~(NoMessage /\ NoCommand)

(* The number of a tracker that knows the terminal.                        *)
NumberInv ==
    /\ tracked.server = TRUE
    /\ LastIsShown
    /\ NoMessage /\ NoCommand => tracked.number = display.number \/ overwritten = TRUE
    /\ WriteInv

(* The invariant of the operator and the application.                      *)
OperatorInv ==
    /\ OperatorTypeOK
    /\ Operator!HeardAsMeant
    /\ opPlan.known => NumberInv

(* The fields of a command for the terminal.                               *)
LEMMA CommandFields ==
    ASSUME NEW c \in DisplayCommands
    PROVE  /\ c.command \in {"ChangeNumericValue", "ChangeActiveMask", "ChangeSoftKeyMask"}
           /\ c.command = "ChangeNumericValue" => c.id = Operator!NUMBER /\ c.value \in Int
BY DEF DisplayCommands

(* An answer carries the number that the terminal took.                    *)
LEMMA AnswerBrings ==
    ASSUME NEW c \in DisplayCommands, NEW m, m = Operator!AnswerTo(c)
    PROVE  /\ m.function = c.command
           /\ c.command = "ChangeNumericValue" =>
                 Operator!WordAt(m.data, 1) = Operator!NUMBER /\ Operator!LongAt(m.data, 4) = c.value /\ m.data[3] = 0
<1>1. m.function = c.command
  BY DEF Operator!AnswerTo, Operator!ToMessage
<1>2. ASSUME c.command = "ChangeNumericValue"
      PROVE  Operator!WordAt(m.data, 1) = Operator!NUMBER /\ Operator!LongAt(m.data, 4) = c.value /\ m.data[3] = 0
  <2>1. m = Operator!ToMessage(c.command, Operator!NumberBytes(c.id, 0, c.value))
    BY <1>2 DEF Operator!AnswerTo
  <2>2. c.id = Operator!NUMBER /\ c.value \in Int /\ c.id \in Int
    BY <1>2, CommandFields DEF Operator!NUMBER
  <2> QED
    BY <2>1, <2>2, NumberRead
<1> QED
  BY <1>1, <1>2

(* What a message on its way to the client says.                           *)
Says(l, v) ==
    LET m == l.message
    IN /\ Carries(m) => Operator!LongAt(m.data, 4) \in Int
       /\ m.function = "ChangeNumericValue" => m.data[3] = 0
       /\ l.event # <<>> => \E e \in Operator!Events : l.event[1] = e /\ m = Operator!MessageOf(e, v)
       /\ m.function = "NumericValue" =>
             /\ Operator!Handle(m, v).told = <<[id |-> Operator!WordAt(m.data, 1), value |-> Operator!LongAt(m.data, 4)]>>
             /\ Operator!LongAt(m.data, 4) \in Int

(* Every message on its way to the client says what is expected of it.     *)
LEMMA LetterSays ==
    ASSUME NEW v \in Int, NEW l \in Letters(v)
    PROVE  Says(l, v)
<1> DEFINE m == l.message
<1> SUFFICES /\ Carries(m) => Operator!LongAt(m.data, 4) \in Int
             /\ m.function = "ChangeNumericValue" => m.data[3] = 0
             /\ l.event # <<>> => \E e \in Operator!Events : l.event[1] = e /\ m = Operator!MessageOf(e, v)
             /\ m.function = "NumericValue" =>
                   Operator!Handle(m, v).told = <<[id |-> Operator!WordAt(m.data, 1), value |-> Operator!LongAt(m.data, 4)]>>
             /\ m.function = "NumericValue" => Operator!LongAt(m.data, 4) \in Int
  BY DEF Says
<1> HIDE DEF m
<1>1. CASE \E e \in Operator!Events : l = [event |-> <<e>>, message |-> Operator!MessageOf(e, v)]
  <2>1. PICK e \in Operator!Events : l = [event |-> <<e>>, message |-> Operator!MessageOf(e, v)]
    BY <1>1
  <2>2. m = Operator!MessageOf(e, v) /\ l.event = <<e>> /\ l.event[1] = e
    BY <2>1 DEF m
  <2>3. m.function = e.event
    BY <2>2, EventMeant
  <2>4. m.function # "ChangeNumericValue"
    BY <2>3, EventNames
  <2>5. ASSUME m.function = "NumericValue"
        PROVE  /\ Operator!Handle(m, v).told = <<[id |-> Operator!WordAt(m.data, 1), value |-> Operator!LongAt(m.data, 4)]>>
               /\ Operator!LongAt(m.data, 4) \in Int
    <3>1. e \in Operator!NumberEvents
      BY <2>3, <2>5, EventNames
    <3>2. /\ Operator!Handle(m, v).told = <<[id |-> e.id, value |-> e.value]>>
          /\ Operator!WordAt(m.data, 1) = e.id /\ Operator!LongAt(m.data, 4) = e.value
      BY <2>2, <3>1, NumberMeant
    <3>3. e.value \in Int
      BY <3>1 DEF Operator!NumberEvents
    <3> QED
      BY <3>2, <3>3
  <2> QED
    BY <2>2, <2>4, <2>5 DEF Carries
<1>2. CASE \E c \in DisplayCommands : l = [event |-> <<>>, message |-> Operator!AnswerTo(c)]
  <2>1. PICK c \in DisplayCommands : l = [event |-> <<>>, message |-> Operator!AnswerTo(c)]
    BY <1>2
  <2>2. m = Operator!AnswerTo(c) /\ l.event = <<>>
    BY <2>1 DEF m
  <2>3. /\ m.function = c.command /\ m.function # "NumericValue"
        /\ c.command = "ChangeNumericValue" =>
                 Operator!WordAt(m.data, 1) = Operator!NUMBER /\ Operator!LongAt(m.data, 4) = c.value /\ m.data[3] = 0
    BY <2>2, AnswerBrings, CommandFields
  <2> QED
    BY <2>2, <2>3, CommandFields DEF Carries
<1>3. CASE \E mask \in Operator!Word : l = [event |-> <<>>, message |-> StatusMessage(mask)]
  <2>1. PICK mask \in Operator!Word : l = [event |-> <<>>, message |-> StatusMessage(mask)]
    BY <1>3
  <2>2. m = StatusMessage(mask) /\ l.event = <<>>
    BY <2>1 DEF m
  <2>3. m.function = "VTStatus"
    BY <2>2 DEF StatusMessage, Operator!ToMessage
  <2> QED
    BY <2>2, <2>3 DEF Carries
<1> QED
  BY <1>1, <1>2, <1>3 DEF Letters

(* Caching the mask leaves the number alone.                               *)
LEMMA MaskCached ==
    ASSUME NEW t, TrackedFields \subseteq DOMAIN t, NEW mask, NEW u, u = Operator!cache_active_mask(t, mask)
    PROVE  TrackedFields \subseteq DOMAIN u /\ u.number = t.number /\ u.server = t.server
BY DEF Operator!cache_active_mask, TrackedFields

(* So does a soft key mask.                                                *)
LEMMA SoftKeysSet ==
    ASSUME NEW t, TrackedFields \subseteq DOMAIN t, NEW mask, NEW soft, NEW u,
           u = Operator!SetSoftKeys(t, mask, soft)
    PROVE  TrackedFields \subseteq DOMAIN u /\ u.number = t.number /\ u.server = t.server
BY DEF Operator!SetSoftKeys, TrackedFields

(* So does a status message, after which the terminal is known.            *)
LEMMA StatusProcessed ==
    ASSUME NEW t, TrackedFields \subseteq DOMAIN t, NEW m, NEW u, u = Operator!process_status_message(t, m)
    PROVE  TrackedFields \subseteq DOMAIN u /\ u.number = t.number /\ u.server = TRUE
<1> DEFINE t1 == [t EXCEPT !.server = TRUE]
           t2 == Operator!cache_active_mask(t1, Operator!WordAt(m.data, 2))
<1>1. TrackedFields \subseteq DOMAIN t1 /\ t1.number = t.number /\ t1.server = TRUE
  BY DEF TrackedFields
<1> HIDE DEF t1
<1>2. TrackedFields \subseteq DOMAIN t2 /\ t2.number = t1.number /\ t2.server = t1.server
  BY <1>1, MaskCached
<1>3. u = Operator!SetSoftKeys(t2, t2.mask, Operator!WordAt(m.data, 4))
  BY DEF Operator!process_status_message, t1
<1> HIDE DEF t2
<1> QED
  BY <1>1, <1>2, <1>3, SoftKeysSet

(* A message about the number sets the number.                             *)
LEMMA NumberSet ==
    ASSUME NEW t, TrackedFields \subseteq DOMAIN t, NEW d, NEW u, u = Operator!SetNumber(t, d)
    PROVE  /\ TrackedFields \subseteq DOMAIN u /\ u.server = t.server
           /\ u.number = IF Operator!WordAt(d, 1) = Operator!NUMBER THEN Operator!LongAt(d, 4) ELSE t.number
BY DEF Operator!SetNumber, TrackedFields

(* The copy takes the number of each message that brings it, and no other. *)
LEMMA Tracked ==
    ASSUME NEW t, TrackedFields \subseteq DOMAIN t, NEW m, NEW u, u = Operator!Tracks(t, m),
           m.function = "ChangeNumericValue" => m.data[3] = 0
    PROVE  /\ TrackedFields \subseteq DOMAIN u
           /\ u.number = t.number \/ (Carries(m) /\ u.number = Operator!LongAt(m.data, 4))
           /\ t.server = TRUE =>
                 /\ u.server = TRUE
                 /\ u.number = IF Carries(m) THEN Operator!LongAt(m.data, 4) ELSE t.number
<1> DEFINE d == m.data
           f == m.function
<1>1. f \notin {"NumericValue", "ChangeNumericValue"} => ~Carries(m)
  BY DEF Carries
<1>2. f \in {"NumericValue", "ChangeNumericValue"} => (Carries(m) <=> Operator!WordAt(d, 1) = Operator!NUMBER)
  BY DEF Carries
<1>3. CASE f = "VTStatus"
  <2>1. u = Operator!process_status_message(t, m)
    BY <1>3 DEF Operator!Tracks
  <2>2. ~Carries(m)
    BY <1>1, <1>3
  <2>3. TrackedFields \subseteq DOMAIN u /\ u.number = t.number /\ u.server = TRUE
    BY <2>1, StatusProcessed
  <2> QED
    BY <2>2, <2>3
<1>4. CASE f # "VTStatus" /\ ~t.server
  <2>1. u = t
    BY <1>4 DEF Operator!Tracks
  <2>2. t.server # TRUE
    BY <1>4
  <2> QED
    BY <2>1, <2>2
<1>5. CASE f # "VTStatus" /\ t.server
  <2> DEFINE same == TrackedFields \subseteq DOMAIN u /\ u.number = t.number /\ u.server = t.server
  <2>1. CASE f = "ChangeActiveMask"
    <3>1. u = Operator!cache_active_mask(t, Operator!WordAt(d, 1)) \/ u = t
      BY <1>5, <2>1 DEF Operator!Tracks
    <3>2. same
      BY <3>1, MaskCached
    <3> QED
      BY <1>1, <2>1, <3>2
  <2>2. CASE f = "ChangeSoftKeyMask"
    <3>1. u = Operator!SetSoftKeys(t, Operator!WordAt(d, 1), Operator!WordAt(d, 4)) \/ u = t
      BY <1>5, <2>2 DEF Operator!Tracks
    <3>2. same
      BY <3>1, SoftKeysSet
    <3> QED
      BY <1>1, <2>2, <3>2
  <2>3. CASE f \in {"NumericValue", "ChangeNumericValue"}
    <3>1. u = Operator!SetNumber(t, d)
      BY <1>5, <2>3 DEF Operator!Tracks
    <3>2. /\ TrackedFields \subseteq DOMAIN u /\ u.server = t.server
          /\ u.number = IF Operator!WordAt(d, 1) = Operator!NUMBER THEN Operator!LongAt(d, 4) ELSE t.number
      BY <3>1, NumberSet
    <3> QED
      BY <1>2, <2>3, <3>2
  <2>4. CASE f \notin {"ChangeActiveMask", "ChangeSoftKeyMask", "NumericValue", "ChangeNumericValue"}
    <3>1. u = t
      BY <1>5, <2>4 DEF Operator!Tracks
    <3> QED
      BY <1>1, <2>4, <3>1
  <2> QED
    BY <2>1, <2>2, <2>3, <2>4
<1> QED
  BY <1>3, <1>4, <1>5


(* One message more on its way to the client: it brings the number that is *)
(* shown, or leaves it alone.                                              *)
LEMMA SendingKeeps ==
    ASSUME OperatorTypeOK, NumberInv, NEW l, toListener' = Append(toListener, l), tracked' = tracked,
           setting' = setting, overwritten' = overwritten,
           Carries(l.message) => Operator!LongAt(l.message.data, 4) = display'.number,
           ~Carries(l.message) => display'.number = display.number /\ (NoCommand' => NoCommand)
    PROVE  NumberInv'
<1> DEFINE n == Len(toListener)
<1>1. /\ n \in Nat /\ DOMAIN toListener = 1..n /\ DOMAIN toListener' = 1..(n + 1)
      /\ \A i \in 1..n : toListener'[i] = toListener[i]
      /\ toListener'[n + 1] = l
  BY DEF OperatorTypeOK
<1> HIDE DEF n
<1>2. CASE Carries(l.message)
  <2>1. LastIsShown'
    <3> SUFFICES ASSUME NEW i \in DOMAIN toListener', Carries(toListener'[i].message),
                        \A j \in DOMAIN toListener' : j > i => ~Carries(toListener'[j].message)
                 PROVE  Operator!LongAt(toListener'[i].message.data, 4) = display'.number
      BY DEF LastIsShown
    <3>1. i = n + 1
      BY <1>1, <1>2
    <3> QED
      BY <1>1, <1>2, <3>1
  <2>2. ~NoMessage'
    BY <1>1, <1>2 DEF NoMessage
  <2>3. WriteInv'
    BY <2>2 DEF NumberInv, WriteInv, WritesNumber
  <2> QED
    BY <2>1, <2>2, <2>3 DEF NumberInv
<1>3. CASE ~Carries(l.message)
  <2>1. LastIsShown'
    <3> SUFFICES ASSUME NEW i \in DOMAIN toListener', Carries(toListener'[i].message),
                        \A j \in DOMAIN toListener' : j > i => ~Carries(toListener'[j].message)
                 PROVE  Operator!LongAt(toListener'[i].message.data, 4) = display'.number
      BY DEF LastIsShown
    <3>1. i \in 1..n
      BY <1>1, <1>3
    <3>2. \A j \in DOMAIN toListener : j > i => ~Carries(toListener[j].message)
      BY <1>1, <3>1
    <3> QED
      BY <1>1, <1>3, <3>1, <3>2 DEF NumberInv, LastIsShown
  <2>2. NoMessage' => NoMessage
    BY <1>1 DEF NoMessage
  <2>3. WriteInv'
    BY <1>3, <2>2 DEF NumberInv, WriteInv, WritesNumber
  <2> QED
    BY <1>3, <2>1, <2>2, <2>3 DEF NumberInv
<1> QED
  BY <1>2, <1>3

(* The tracker hears the oldest message: if it was the last one to bring   *)
(* the number, the copy is what is shown.                                  *)
LEMMA TrackerHearsKeeps ==
    ASSUME OperatorInv, Operator!TrackerHears
    PROVE  OperatorInv'
<1> DEFINE l == Head(toListener)
           m == l.message
           v == opPlan.version
           t == Operator!Tracks(tracked, m)
           n == Len(toListener)
<1>1. /\ toListener # <<>> /\ toListener' = Tail(toListener) /\ hearing' = <<l>>
      /\ tracked' = t /\ opPlan' = opPlan /\ display' = display
      /\ toDisplay' = toDisplay /\ heard' = heard
  BY DEF Operator!TrackerHears
<1>2. Carries(m) =>
        /\ overwritten' = FALSE
        /\ setting' = IF Operator!Setting("write") THEN <<[setting[1] EXCEPT !.late = TRUE]>> ELSE setting
  BY DEF Operator!TrackerHears, Operator!BringsNumber, Carries
<1>3. ~Carries(m) => setting' = setting /\ overwritten' = overwritten
  BY DEF Operator!TrackerHears, Operator!BringsNumber, Carries
<1>4. /\ n \in Nat /\ n > 0 /\ DOMAIN toListener = 1..n /\ DOMAIN toListener' = 1..(n - 1)
      /\ \A i \in 1..(n - 1) : toListener'[i] = toListener[i + 1]
      /\ toListener[1] = l /\ l \in Letters(v)
      /\ toListener' \in Seq(Letters(v))
  BY <1>1 DEF OperatorInv, OperatorTypeOK
<1>5. v \in Int /\ TrackedFields \subseteq DOMAIN tracked /\ tracked.number \in Int
  BY DEF OperatorInv, OperatorTypeOK
<1> HIDE DEF l, m, v, t, n
<1>6. /\ Carries(m) => Operator!LongAt(m.data, 4) \in Int
      /\ m.function = "ChangeNumericValue" => m.data[3] = 0
  <2>1. Says(l, v)
    BY <1>4, <1>5, LetterSays
  <2> QED
    BY <2>1 DEF Says, m
<1>7. /\ TrackedFields \subseteq DOMAIN t
      /\ t.number = tracked.number \/ (Carries(m) /\ t.number = Operator!LongAt(m.data, 4))
      /\ tracked.server = TRUE =>
            /\ t.server = TRUE
            /\ t.number = IF Carries(m) THEN Operator!LongAt(m.data, 4) ELSE tracked.number
  BY <1>5, <1>6, Tracked DEF t
<1>8. t.number \in Int
  BY <1>5, <1>6, <1>7
<1>9. /\ setting' = <<>> \/ \E s \in Settings : setting' = <<s>> /\ (s.at # "write" => s.late = FALSE)
      /\ WritesNumber' => WritesNumber
      /\ WritesNumber' /\ Carries(m) => setting'[1].late = TRUE
  <2>1. CASE setting = <<>> \/ ~Carries(m)
    <3>1. setting' = setting
      BY <1>2, <1>3, <2>1 DEF Operator!Setting
    <3> QED
      BY <2>1, <3>1 DEF OperatorInv, OperatorTypeOK, WritesNumber
  <2>2. CASE setting # <<>> /\ Carries(m)
    <3>1. PICK s \in Settings : setting = <<s>> /\ (s.at # "write" => s.late = FALSE)
      BY <2>2 DEF OperatorInv, OperatorTypeOK
    <3>2. CASE s.at = "write"
      <4> DEFINE u == [s EXCEPT !.late = TRUE]
      <4>1. u \in Settings /\ u.at = s.at /\ u.call = s.call /\ u.late = TRUE
        BY DEF Settings
      <4>2. setting' = <<u>>
        BY <1>2, <2>2, <3>1, <3>2 DEF Operator!Setting
      <4> HIDE DEF u
      <4> QED
        BY <3>1, <3>2, <4>1, <4>2 DEF WritesNumber
    <3>3. CASE s.at # "write"
      <4>1. setting' = setting
        BY <1>2, <2>2, <3>1, <3>3 DEF Operator!Setting
      <4> QED
        BY <3>1, <3>3, <4>1 DEF WritesNumber
    <3> QED
      BY <3>2, <3>3
  <2> QED
    BY <2>1, <2>2
<1>10. OperatorTypeOK'
  BY <1>1, <1>4, <1>7, <1>8, <1>9 DEF OperatorInv, OperatorTypeOK, v
<1>11. Operator!HeardAsMeant'
  BY <1>1 DEF OperatorInv, Operator!HeardAsMeant
<1>12. ASSUME opPlan.known
       PROVE  NumberInv'
  <2>1. /\ tracked.server = TRUE /\ LastIsShown /\ WriteInv
        /\ (NoMessage /\ NoCommand => tracked.number = display.number \/ overwritten = TRUE)
    BY <1>12 DEF OperatorInv, NumberInv
  <2>2. LastIsShown'
    <3> SUFFICES ASSUME NEW i \in DOMAIN toListener', Carries(toListener'[i].message),
                        \A j \in DOMAIN toListener' : j > i => ~Carries(toListener'[j].message)
                 PROVE  Operator!LongAt(toListener'[i].message.data, 4) = display'.number
      BY DEF LastIsShown
    <3>1. i + 1 \in DOMAIN toListener /\ toListener'[i] = toListener[i + 1]
      BY <1>4
    <3>2. ASSUME NEW j \in DOMAIN toListener, j > i + 1 PROVE ~Carries(toListener[j].message)
      <4>1. j - 1 \in DOMAIN toListener' /\ j - 1 > i /\ toListener'[j - 1] = toListener[j]
        BY <1>4, <3>2
      <4> QED
        BY <4>1
    <3> QED
      BY <1>1, <2>1, <3>1, <3>2 DEF LastIsShown
  <2>3. NoCommand' => NoCommand
    BY <1>1 DEF NoCommand
  <2>4. ASSUME NoMessage', ~Carries(m)
        PROVE  NoMessage
    <3> SUFFICES ASSUME NEW i \in DOMAIN toListener, i > 1 PROVE ~Carries(toListener[i].message)
      BY <1>4, <2>4 DEF NoMessage, m
    <3>1. i - 1 \in DOMAIN toListener' /\ toListener'[i - 1] = toListener[i]
      BY <1>4
    <3> QED
      BY <2>4, <3>1 DEF NoMessage
  <2>5. ASSUME NoMessage', NoCommand'
        PROVE  tracked'.number = display'.number \/ overwritten' = TRUE
    <3>1. \A i \in DOMAIN toListener : i > 1 => ~Carries(toListener[i].message)
      <4> SUFFICES ASSUME NEW i \in DOMAIN toListener, i > 1 PROVE ~Carries(toListener[i].message)
        OBVIOUS
      <4>1. i - 1 \in DOMAIN toListener' /\ toListener'[i - 1] = toListener[i]
        BY <1>4
      <4> QED
        BY <2>5, <4>1 DEF NoMessage
    <3>2. CASE Carries(m)
      <4>1. Operator!LongAt(m.data, 4) = display.number
        BY <1>4, <2>1, <3>1, <3>2 DEF LastIsShown, m
      <4> QED
        BY <1>1, <1>7, <2>1, <3>2, <4>1
    <3>3. CASE ~Carries(m)
      BY <1>1, <1>3, <1>7, <2>1, <2>3, <2>4, <2>5, <3>3
    <3> QED
      BY <3>2, <3>3
  <2>6. WriteInv'
    <3>1. CASE Carries(m)
      BY <1>2, <1>9, <3>1 DEF WriteInv
    <3>2. CASE ~Carries(m)
      BY <1>3, <2>1, <2>3, <2>4, <3>2 DEF WriteInv, WritesNumber
    <3> QED
      BY <3>1, <3>2
  <2>7. tracked'.server = TRUE
    BY <1>1, <1>7, <2>1
  <2> QED
    BY <2>2, <2>5, <2>6, <2>7 DEF NumberInv
<1> QED
  BY <1>1, <1>10, <1>11, <1>12 DEF OperatorInv

(* The listeners hear it: the helper may send a number back, which then is *)
(* on its way.                                                             *)
LEMMA ListenersHearKeeps ==
    ASSUME OperatorInv, Operator!ListenersHear
    PROVE  OperatorInv'
<1> DEFINE l == hearing[1]
           m == l.message
           v == opPlan.version
           told == Operator!Handle(m, v).told
<1>1. /\ hearing # <<>> /\ hearing' = <<>>
      /\ opPlan' = opPlan /\ toListener' = toListener /\ display' = display
      /\ tracked' = tracked /\ setting' = setting /\ overwritten' = overwritten
  BY DEF Operator!ListenersHear
<1>2. toDisplay' = toDisplay \o (IF m.function = "NumericValue"
                                 THEN Operator!process_numeric_value_change_event(told[1]) ELSE <<>>)
  BY DEF Operator!ListenersHear
<1>3. heard' = IF l.event = <<>> THEN heard
               ELSE <<[event |-> l.event[1], told |-> told, answer |-> Operator!Handle(m, v).answer]>>
  BY DEF Operator!ListenersHear
<1>4. l \in Letters(v)
  <2>1. PICK k \in Letters(v) : hearing = <<k>>
    BY <1>1 DEF OperatorInv, OperatorTypeOK
  <2> QED
    BY <2>1
<1>5. v \in Int /\ tracked.number \in Int
  BY DEF OperatorInv, OperatorTypeOK
<1> HIDE DEF l, m, v, told
<1>6. /\ l.event # <<>> => \E e \in Operator!Events : l.event[1] = e /\ m = Operator!MessageOf(e, v)
      /\ m.function = "NumericValue" =>
            /\ told = <<[id |-> Operator!WordAt(m.data, 1), value |-> Operator!LongAt(m.data, 4)]>>
            /\ Operator!LongAt(m.data, 4) \in Int
  <2>1. Says(l, v)
    BY <1>4, <1>5, LetterSays
  <2> QED
    BY <2>1 DEF Says, m, told
<1>7. /\ toDisplay' \in Seq(DisplayCommands)
      /\ toDisplay' = toDisplay \/ ~NoCommand'
  <2>1. toDisplay \in Seq(DisplayCommands)
    BY DEF OperatorInv, OperatorTypeOK
  <2>2. CASE m.function # "NumericValue"
    BY <1>2, <2>1, <2>2
  <2>3. CASE m.function = "NumericValue"
    <3> DEFINE id == Operator!WordAt(m.data, 1)
               value == Operator!LongAt(m.data, 4)
               x == IF value \in opPlan.rejects THEN tracked.number ELSE value
    <3>1. told[1].id = id /\ told[1].value = value
      BY <1>6, <2>3
    <3>2. toDisplay' = toDisplay \o (IF id # Operator!NUMBER \/ tracked.number = value THEN <<>>
                                     ELSE <<Operator!NumberCommand(x)>>)
      BY <1>2, <2>3, <3>1 DEF Operator!process_numeric_value_change_event
    <3>3. x \in Int
      BY <1>5, <1>6, <2>3
    <3> HIDE DEF x, id, value
    <3>4. CASE id # Operator!NUMBER \/ tracked.number = value
      BY <2>1, <3>2, <3>4
    <3>5. CASE ~(id # Operator!NUMBER \/ tracked.number = value)
      <4> DEFINE c == Operator!NumberCommand(x)
      <4>1. toDisplay' = toDisplay \o <<c>>
        BY <3>2, <3>5
      <4>2. c \in DisplayCommands /\ c.command = "ChangeNumericValue"
        BY <3>3 DEF Operator!NumberCommand, DisplayCommands
      <4> HIDE DEF c
      <4>3. toDisplay' = Append(toDisplay, c) /\ Len(toDisplay) \in Nat
        BY <2>1, <4>1, <4>2
      <4>4. Len(toDisplay) + 1 \in DOMAIN toDisplay' /\ toDisplay'[Len(toDisplay) + 1] = c
        BY <2>1, <4>2, <4>3
      <4> QED
        BY <2>1, <4>2, <4>3, <4>4 DEF NoCommand
    <3> QED
      BY <3>4, <3>5
  <2> QED
    BY <2>2, <2>3
<1>8. OperatorTypeOK'
  BY <1>1, <1>7 DEF OperatorInv, OperatorTypeOK
<1>9. Operator!HeardAsMeant'
  <2>1. CASE l.event = <<>>
    BY <1>1, <1>3, <2>1 DEF OperatorInv, Operator!HeardAsMeant
  <2>2. CASE l.event # <<>>
    <3>1. PICK e \in Operator!Events : l.event[1] = e /\ m = Operator!MessageOf(e, v)
      BY <1>6, <2>2
    <3>2. told = Operator!Meant(e, v)
      BY <1>5, <3>1, EventMeant DEF told
    <3>3. heard' = <<[event |-> e, told |-> told, answer |-> Operator!Handle(m, v).answer]>>
      BY <1>3, <2>2, <3>1
    <3>4. heard'[1].told = told /\ heard'[1].event = e
      BY <3>3
    <3> QED
      BY <1>1, <3>2, <3>4 DEF Operator!HeardAsMeant, v
  <2> QED
    BY <2>1, <2>2
<1>10. ASSUME opPlan.known
       PROVE  NumberInv'
  <2>1. NumberInv
    BY <1>10 DEF OperatorInv
  <2>2. LastIsShown' /\ (NoMessage' => NoMessage)
    BY <1>1, <2>1 DEF NumberInv, LastIsShown, NoMessage
  <2>3. NoCommand' => NoCommand
    BY <1>7 DEF NoCommand
  <2> QED
    BY <1>1, <2>1, <2>2, <2>3 DEF NumberInv, WriteInv, WritesNumber
<1> QED
  BY <1>1, <1>8, <1>9, <1>10 DEF OperatorInv

(* The operator enters a number, or does something else.                   *)
LEMMA OperatorActsKeeps ==
    ASSUME OperatorInv, Operator!OperatorActs
    PROVE  OperatorInv'
<1> DEFINE e == Head(opPlan.events)
           v == opPlan.version
           m == Operator!MessageOf(e, v)
           l == [event |-> <<e>>, message |-> m]
<1>1. /\ toListener' = Append(toListener, l)
      /\ display' = IF e.event = "NumericValue" /\ e.id = Operator!NUMBER
                    THEN [display EXCEPT !.number = e.value] ELSE display
      /\ opPlan' = [opPlan EXCEPT !.events = Tail(@)]
      /\ toDisplay' = toDisplay /\ tracked' = tracked /\ heard' = heard
      /\ setting' = setting /\ hearing' = hearing /\ overwritten' = overwritten
  BY DEF Operator!OperatorActs, Operator!Sends
<1>2. /\ e \in Operator!Events /\ Tail(opPlan.events) \in Seq(Operator!Events)
  BY DEF Operator!OperatorActs, OperatorInv, OperatorTypeOK
<1>3. v \in Int
  BY DEF OperatorInv, OperatorTypeOK
<1> HIDE DEF e
<1>4. l \in Letters(v)
  BY <1>2 DEF Letters
<1>5. m.function = e.event /\ m = l.message
  BY <1>2, <1>3, EventMeant
<1> HIDE DEF m, l
<1>6. /\ {"version", "known", "events", "calls", "statuses"} \subseteq DOMAIN opPlan'
      /\ opPlan'.version = v /\ opPlan'.known = opPlan.known /\ opPlan'.calls = opPlan.calls
      /\ opPlan'.events = Tail(opPlan.events)
  BY <1>1 DEF OperatorInv, OperatorTypeOK
<1>7. /\ {"number", "mask", "reported", "soft"} \subseteq DOMAIN display'
      /\ display'.reported = display.reported
      /\ display'.number = IF e.event = "NumericValue" /\ e.id = Operator!NUMBER THEN e.value ELSE display.number
  BY <1>1 DEF OperatorInv, OperatorTypeOK
<1>8. OperatorTypeOK'
  <2>1. toListener' \in Seq(Letters(v))
    BY <1>1, <1>4 DEF OperatorInv, OperatorTypeOK
  <2> QED
    BY <1>1, <1>2, <1>6, <1>7, <2>1 DEF OperatorInv, OperatorTypeOK
<1>9. Operator!HeardAsMeant'
  BY <1>1, <1>6 DEF OperatorInv, Operator!HeardAsMeant
<1>10. ASSUME opPlan.known
       PROVE  NumberInv'
  <2>1. OperatorTypeOK /\ NumberInv
    BY <1>10 DEF OperatorInv
  <2>2. CASE e.event = "NumericValue"
    <3>1. Operator!WordAt(m.data, 1) = e.id /\ Operator!LongAt(m.data, 4) = e.value
      BY <1>2, <1>3, <2>2, EventNames, NumberMeant DEF m
    <3>2. Carries(m) <=> e.id = Operator!NUMBER
      BY <1>5, <2>2, <3>1 DEF Carries
    <3>3. Carries(m) => Operator!LongAt(m.data, 4) = display'.number
      BY <1>7, <2>2, <3>1, <3>2
    <3>4. ~Carries(m) => display'.number = display.number
      BY <1>7, <3>2
    <3>5. NoCommand' => NoCommand
      BY <1>1 DEF NoCommand
    <3> QED
      BY <1>1, <1>5, <2>1, <3>3, <3>4, <3>5, SendingKeeps
  <2>3. CASE e.event # "NumericValue"
    <3>1. ~Carries(m)
      BY <1>2, <1>5, <2>3, EventNames DEF Carries
    <3>2. display'.number = display.number
      BY <1>7, <2>3
    <3>3. NoCommand' => NoCommand
      BY <1>1 DEF NoCommand
    <3> QED
      BY <1>1, <1>5, <2>1, <3>1, <3>2, <3>3, SendingKeeps
  <2> QED
    BY <2>2, <2>3
<1> QED
  BY <1>6, <1>8, <1>9, <1>10 DEF OperatorInv

(* The terminal obeys the oldest command and answers it.                   *)
LEMMA TerminalObeysKeeps ==
    ASSUME OperatorInv, Operator!TerminalObeys
    PROVE  OperatorInv'
<1> DEFINE c == Head(toDisplay)
           m == Operator!AnswerTo(c)
           l == [event |-> <<>>, message |-> m]
<1>1. /\ toDisplay # <<>> /\ toDisplay' = Tail(toDisplay) /\ toListener' = Append(toListener, l)
      /\ opPlan' = opPlan /\ tracked' = tracked /\ heard' = heard
      /\ setting' = setting /\ hearing' = hearing /\ overwritten' = overwritten
  BY DEF Operator!TerminalObeys, Operator!Sends
<1>2. /\ c.command = "ChangeNumericValue" => display' = [display EXCEPT !.number = c.value]
      /\ c.command = "ChangeActiveMask" => display' = [display EXCEPT !.mask = c.value]
      /\ c.command = "ChangeSoftKeyMask" => display' = [display EXCEPT !.soft[c.id] = c.value]
  BY DEF Operator!TerminalObeys
<1>3. toDisplay \in Seq(DisplayCommands)
  BY DEF OperatorInv, OperatorTypeOK
<1>4. c \in DisplayCommands /\ toDisplay' \in Seq(DisplayCommands) /\ c = toDisplay[1] /\ 1 \in DOMAIN toDisplay
      /\ \A i \in DOMAIN toDisplay : i # 1 => i - 1 \in DOMAIN toDisplay' /\ toDisplay'[i - 1] = toDisplay[i]
  BY <1>1, <1>3
<1> HIDE DEF c
<1>5. l \in Letters(opPlan.version) /\ m = l.message
  BY <1>4 DEF Letters
<1> HIDE DEF l
<1>6. /\ c.command \in {"ChangeNumericValue", "ChangeActiveMask", "ChangeSoftKeyMask"}
      /\ m.function = c.command
      /\ c.command = "ChangeNumericValue" => Operator!WordAt(m.data, 1) = Operator!NUMBER /\ Operator!LongAt(m.data, 4) = c.value
  BY <1>4, CommandFields, AnswerBrings
<1> HIDE DEF m
<1>7. /\ {"number", "mask", "reported", "soft"} \subseteq DOMAIN display'
      /\ display'.reported = display.reported
      /\ display'.number = IF c.command = "ChangeNumericValue" THEN c.value ELSE display.number
  BY <1>2, <1>6 DEF OperatorInv, OperatorTypeOK
<1>8. OperatorTypeOK'
  <2>1. toListener' \in Seq(Letters(opPlan.version))
    BY <1>1, <1>5 DEF OperatorInv, OperatorTypeOK
  <2> QED
    BY <1>1, <1>4, <1>7, <2>1 DEF OperatorInv, OperatorTypeOK
<1>9. Operator!HeardAsMeant'
  BY <1>1 DEF OperatorInv, Operator!HeardAsMeant
<1>10. ASSUME opPlan.known
       PROVE  NumberInv'
  <2>1. OperatorTypeOK /\ NumberInv
    BY <1>10 DEF OperatorInv
  <2>2. CASE c.command = "ChangeNumericValue"
    <3>1. Carries(m) /\ Operator!LongAt(m.data, 4) = display'.number
      BY <1>6, <1>7, <2>2 DEF Carries
    <3> QED
      BY <1>1, <1>5, <2>1, <3>1, SendingKeeps
  <2>3. CASE c.command # "ChangeNumericValue"
    <3>1. ~Carries(m)
      BY <1>6, <2>3 DEF Carries
    <3>2. display'.number = display.number
      BY <1>7, <2>3
    <3>3. NoCommand' => NoCommand
      BY <1>4, <2>3 DEF NoCommand
    <3> QED
      BY <1>1, <1>5, <2>1, <3>1, <3>2, <3>3, SendingKeeps
  <2> QED
    BY <2>2, <2>3
<1> QED
  BY <1>1, <1>8, <1>9, <1>10 DEF OperatorInv

(* A status message does not bring the number.                             *)
LEMMA StatusKeeps ==
    ASSUME OperatorInv, Operator!send_status_message
    PROVE  OperatorInv'
<1> DEFINE m == StatusMessage(display.reported)
           l == [event |-> <<>>, message |-> m]
<1>1. /\ toListener' = Append(toListener, l)
      /\ opPlan' = [opPlan EXCEPT !.statuses = @ - 1]
      /\ toDisplay' = toDisplay /\ display' = display /\ tracked' = tracked /\ heard' = heard
      /\ setting' = setting /\ hearing' = hearing /\ overwritten' = overwritten
  BY DEF Operator!send_status_message, Operator!Sends, StatusMessage
<1>2. l \in Letters(opPlan.version) /\ m = l.message
  BY DEF Letters, OperatorInv, OperatorTypeOK
<1> HIDE DEF l
<1>3. ~Carries(m)
  BY DEF StatusMessage, Operator!ToMessage, Carries
<1> HIDE DEF m
<1>4. /\ {"version", "known", "events", "calls", "statuses"} \subseteq DOMAIN opPlan'
      /\ opPlan'.version = opPlan.version /\ opPlan'.known = opPlan.known
      /\ opPlan'.calls = opPlan.calls /\ opPlan'.events = opPlan.events
  BY <1>1 DEF OperatorInv, OperatorTypeOK
<1>5. OperatorTypeOK'
  <2>1. toListener' \in Seq(Letters(opPlan.version))
    BY <1>1, <1>2 DEF OperatorInv, OperatorTypeOK
  <2> QED
    BY <1>1, <1>4, <2>1 DEF OperatorInv, OperatorTypeOK
<1>6. Operator!HeardAsMeant'
  BY <1>1, <1>4 DEF OperatorInv, Operator!HeardAsMeant
<1>7. ASSUME opPlan.known
      PROVE  NumberInv'
  <2>1. OperatorTypeOK /\ NumberInv
    BY <1>7 DEF OperatorInv
  <2>2. NoCommand' => NoCommand
    BY <1>1 DEF NoCommand
  <2>3. display'.number = display.number
    BY <1>1
  <2> QED
    BY <1>1, <1>2, <1>3, <2>1, <2>2, <2>3, SendingKeeps
<1> QED
  BY <1>4, <1>5, <1>6, <1>7 DEF OperatorInv

(* A call of the helper sets a number, a mask or a soft key mask.          *)
LEMMA CallFields ==
    ASSUME NEW call \in HelperCalls
    PROVE  \/ call.set = "number" /\ call.value \in Int
           \/ call.set = "mask" /\ call.mask \in Operator!Word
           \/ call.set = "soft" /\ call.mask \in Operator!Word /\ call.value \in Operator!Word
BY DEF HelperCalls

(* What the helper sends for a call and what it writes: only a call for the*)
(* number does so with the number.                                         *)
LEMMA HelperWorks ==
    ASSUME OperatorTypeOK, NEW call \in HelperCalls
    PROVE  LET h == Operator!Helper(call)
           IN /\ h.command \in DisplayCommands
              /\ h.command.command = "ChangeNumericValue" <=> call.set = "number"
              /\ TrackedFields \subseteq DOMAIN h.copy /\ h.copy.server = tracked.server
              /\ h.copy.number = IF call.set = "number" THEN call.value ELSE tracked.number
              /\ h.copy.number \in Int
<1>1. TrackedFields \subseteq DOMAIN tracked /\ tracked.number \in Int
  BY DEF OperatorTypeOK
<1>2. CASE call.set = "number"
  <2>1. call.value \in Int
    BY <1>2, CallFields
  <2> DEFINE c == Operator!NumberCommand(call.value)
             u == [tracked EXCEPT !.number = call.value]
  <2>2. Operator!Helper(call).command = c /\ Operator!Helper(call).copy = u
    BY <1>2 DEF Operator!Helper, Operator!set_numeric_value
  <2>3. c \in DisplayCommands /\ c.command = "ChangeNumericValue"
    BY <2>1 DEF Operator!NumberCommand, DisplayCommands
  <2>4. TrackedFields \subseteq DOMAIN u /\ u.server = tracked.server /\ u.number = call.value
    BY <1>1 DEF TrackedFields
  <2> HIDE DEF c, u
  <2> QED
    BY <1>2, <2>1, <2>2, <2>3, <2>4
<1>3. CASE call.set = "mask"
  <2>1. call.mask \in Operator!Word
    BY <1>3, CallFields
  <2> DEFINE c == Operator!MaskCommand(call.mask)
             u == [tracked EXCEPT !.mask = call.mask]
  <2>2. Operator!Helper(call).command = c /\ Operator!Helper(call).copy = u
    BY <1>3 DEF Operator!Helper, Operator!set_active_data_or_alarm_mask
  <2>3. c \in DisplayCommands /\ c.command = "ChangeActiveMask"
    BY <2>1 DEF Operator!MaskCommand, DisplayCommands
  <2>4. TrackedFields \subseteq DOMAIN u /\ u.server = tracked.server /\ u.number = tracked.number
    BY <1>1 DEF TrackedFields
  <2> HIDE DEF c, u
  <2> QED
    BY <1>1, <1>3, <2>2, <2>3, <2>4
<1>4. CASE call.set = "soft"
  <2>1. call.mask \in Operator!Word /\ call.value \in Operator!Word
    BY <1>4, CallFields
  <2> DEFINE c == Operator!SoftKeyCommand(call.mask, call.value)
             u == [tracked EXCEPT !.soft[call.mask] = call.value]
  <2>2. Operator!Helper(call).command = c /\ Operator!Helper(call).copy = u
    BY <1>4 DEF Operator!Helper, Operator!set_active_soft_key_mask
  <2>3. c \in DisplayCommands /\ c.command = "ChangeSoftKeyMask"
    BY <2>1 DEF Operator!SoftKeyCommand, DisplayCommands
  <2>4. TrackedFields \subseteq DOMAIN u /\ u.server = tracked.server /\ u.number = tracked.number
    BY <1>1 DEF TrackedFields
  <2> HIDE DEF c, u
  <2> QED
    BY <1>1, <1>4, <2>2, <2>3, <2>4
<1> QED
  BY <1>2, <1>3, <1>4, CallFields

(* A call begins.                                                          *)
LEMMA CallHelperKeeps ==
    ASSUME OperatorInv, Operator!CallHelper
    PROVE  OperatorInv'
<1> DEFINE call == Head(opPlan.calls)
           set == IF call.set = "step" THEN [set |-> "number", value |-> tracked.number + call.value] ELSE call
           s == [at |-> "compare", call |-> set, late |-> FALSE]
<1>1. /\ opPlan.calls # <<>> /\ setting' = <<s>> /\ opPlan' = [opPlan EXCEPT !.calls = Tail(@)]
      /\ toListener' = toListener /\ toDisplay' = toDisplay /\ display' = display /\ tracked' = tracked
      /\ hearing' = hearing /\ heard' = heard /\ overwritten' = overwritten
  BY DEF Operator!CallHelper
<1>2. call \in Operator!Calls /\ Tail(opPlan.calls) \in Seq(Operator!Calls) /\ tracked.number \in Int
  BY <1>1 DEF OperatorInv, OperatorTypeOK
<1> HIDE DEF call
<1>3. set \in HelperCalls
  BY <1>2 DEF Operator!Calls, HelperCalls
<1> HIDE DEF set
<1>4. s \in Settings /\ s.at = "compare" /\ s.late = FALSE
  BY <1>3 DEF Settings
<1> HIDE DEF s
<1>5. /\ {"version", "known", "events", "calls", "statuses"} \subseteq DOMAIN opPlan'
      /\ opPlan'.version = opPlan.version /\ opPlan'.known = opPlan.known
      /\ opPlan'.calls = Tail(opPlan.calls) /\ opPlan'.events = opPlan.events
  BY <1>1 DEF OperatorInv, OperatorTypeOK
<1>6. OperatorTypeOK'
  BY <1>1, <1>2, <1>4, <1>5 DEF OperatorInv, OperatorTypeOK
<1>7. Operator!HeardAsMeant'
  BY <1>1, <1>5 DEF OperatorInv, Operator!HeardAsMeant
<1>8. opPlan.known => NumberInv'
  <2>1. ~WritesNumber'
    BY <1>1, <1>4 DEF WritesNumber
  <2> QED
    BY <1>1, <2>1 DEF OperatorInv, NumberInv, LastIsShown, NoMessage, NoCommand, WriteInv
<1> QED
  BY <1>5, <1>6, <1>7, <1>8 DEF OperatorInv

(* The step a call is at.                                                  *)
LEMMA SettingFields ==
    ASSUME OperatorTypeOK, NEW step, Operator!Setting(step)
    PROVE  \E s \in Settings :
              /\ setting = <<s>> /\ setting[1] = s /\ s.at = step /\ s.call \in HelperCalls
              /\ step # "write" => s.late = FALSE
<1>1. PICK s \in Settings : setting = <<s>> /\ (s.at # "write" => s.late = FALSE)
  BY DEF OperatorTypeOK, Operator!Setting
<1>2. s.call \in HelperCalls
  BY DEF Settings
<1> QED
  BY <1>1, <1>2 DEF Operator!Setting

(* A call goes on to its next step.                                        *)
LEMMA SettingMoves ==
    ASSUME NEW s \in Settings, NEW step \in {"send", "write"}
    PROVE  /\ [s EXCEPT !.at = step] \in Settings
           /\ [s EXCEPT !.at = step].at = step
           /\ [s EXCEPT !.at = step].call = s.call /\ [s EXCEPT !.at = step].late = s.late
BY DEF Settings

(* A call compares what it sets with the copy.                             *)
LEMMA CompareCopyKeeps ==
    ASSUME OperatorInv, Operator!CompareCopy
    PROVE  OperatorInv'
<1>1. /\ opPlan' = opPlan /\ toListener' = toListener /\ toDisplay' = toDisplay /\ display' = display
      /\ tracked' = tracked /\ hearing' = hearing /\ heard' = heard /\ overwritten' = overwritten
      /\ Operator!Setting("compare")
      /\ setting' = <<>> \/ setting' = <<[setting[1] EXCEPT !.at = "send"]>>
  BY DEF Operator!CompareCopy, Operator!Then
<1>2. PICK s \in Settings : setting[1] = s /\ s.late = FALSE
  <2>1. \E s \in Settings :
           /\ setting = <<s>> /\ setting[1] = s /\ s.at = "compare" /\ s.call \in HelperCalls
           /\ "compare" # "write" => s.late = FALSE
    BY <1>1, SettingFields, Zenon DEF OperatorInv
  <2> QED
    BY <2>1
<1> DEFINE u == [s EXCEPT !.at = "send"]
<1>3. u \in Settings /\ u.at = "send" /\ u.late = FALSE
  BY <1>2, SettingMoves
<1>4. setting' = <<>> \/ setting' = <<u>>
  BY <1>1, <1>2
<1> HIDE DEF u
<1>5. ~WritesNumber'
  BY <1>3, <1>4 DEF WritesNumber
<1>6. OperatorTypeOK'
  BY <1>1, <1>3, <1>4 DEF OperatorInv, OperatorTypeOK
<1>7. opPlan.known => NumberInv'
  BY <1>1, <1>5 DEF OperatorInv, NumberInv, LastIsShown, NoMessage, NoCommand, WriteInv
<1> QED
  BY <1>1, <1>6, <1>7 DEF OperatorInv, Operator!HeardAsMeant

(* A call sends: with its command on its way the copy may differ from the  *)
(* display.                                                                *)
LEMMA SendCommandKeeps ==
    ASSUME OperatorInv, Operator!SendCommand
    PROVE  OperatorInv'
<1>1. /\ opPlan' = opPlan /\ toListener' = toListener /\ display' = display
      /\ tracked' = tracked /\ hearing' = hearing /\ heard' = heard /\ overwritten' = overwritten
      /\ Operator!Setting("send")
      /\ setting' = <<[setting[1] EXCEPT !.at = "write"]>>
      /\ toDisplay' = Append(toDisplay, Operator!Helper(setting[1].call).command)
  BY DEF Operator!SendCommand, Operator!Then
<1>2. PICK s \in Settings : setting[1] = s /\ s.late = FALSE /\ s.call \in HelperCalls
  <2>1. \E s \in Settings :
           /\ setting = <<s>> /\ setting[1] = s /\ s.at = "send" /\ s.call \in HelperCalls
           /\ "send" # "write" => s.late = FALSE
    BY <1>1, SettingFields, Zenon DEF OperatorInv
  <2> QED
    BY <2>1
<1> DEFINE u == [s EXCEPT !.at = "write"]
           c == Operator!Helper(s.call).command
<1>3. u \in Settings /\ u.at = "write" /\ u.call = s.call /\ u.late = FALSE
  BY <1>2, SettingMoves
<1>4. setting' = <<u>> /\ toDisplay' = Append(toDisplay, c)
  BY <1>1, <1>2
<1>5. c \in DisplayCommands /\ (c.command = "ChangeNumericValue" <=> s.call.set = "number")
  BY <1>2, HelperWorks DEF OperatorInv
<1> HIDE DEF u, c
<1>6. OperatorTypeOK'
  <2>1. toDisplay' \in Seq(DisplayCommands)
    BY <1>4, <1>5 DEF OperatorInv, OperatorTypeOK
  <2> QED
    BY <1>1, <1>3, <1>4, <2>1 DEF OperatorInv, OperatorTypeOK
<1>7. NoCommand' => NoCommand /\ c.command # "ChangeNumericValue"
  <2>1. /\ Len(toDisplay) \in Nat /\ DOMAIN toDisplay = 1..Len(toDisplay)
        /\ DOMAIN toDisplay' = 1..(Len(toDisplay) + 1)
        /\ \A i \in DOMAIN toDisplay : toDisplay'[i] = toDisplay[i]
        /\ toDisplay'[Len(toDisplay) + 1] = c
    BY <1>4, <1>5 DEF OperatorInv, OperatorTypeOK
  <2> QED
    BY <2>1 DEF NoCommand
<1>8. WriteInv'
  <2>1. setting'[1].late = FALSE
    BY <1>3, <1>4
  <2>2. WritesNumber' => s.call.set = "number"
    BY <1>3, <1>4 DEF WritesNumber
  <2> QED
    BY <1>5, <1>7, <2>1, <2>2 DEF WriteInv
<1>9. opPlan.known => NumberInv'
  BY <1>1, <1>7, <1>8 DEF OperatorInv, NumberInv, LastIsShown, NoMessage
<1> QED
  BY <1>1, <1>6, <1>9 DEF OperatorInv, Operator!HeardAsMeant

(* A call writes what it sent to the copy: on its way something still      *)
(* changes the number, or the copy was what is shown.                      *)
LEMMA WriteCopyKeeps ==
    ASSUME OperatorInv, Operator!WriteCopy
    PROVE  OperatorInv'
<1>1. /\ opPlan' = opPlan /\ toListener' = toListener /\ toDisplay' = toDisplay /\ display' = display
      /\ hearing' = hearing /\ heard' = heard
      /\ Operator!Setting("write") /\ setting' = <<>>
      /\ tracked' = Operator!Helper(setting[1].call).copy
      /\ overwritten' = IF setting[1].call.set = "number"
                        THEN setting[1].late /\ tracked.number # setting[1].call.value ELSE overwritten
  BY DEF Operator!WriteCopy
<1>2. PICK s \in Settings : setting = <<s>> /\ setting[1] = s /\ s.at = "write" /\ s.call \in HelperCalls
  BY <1>1, SettingFields DEF OperatorInv
<1>3. s.late \in BOOLEAN
  BY DEF Settings
<1>4. /\ TrackedFields \subseteq DOMAIN tracked' /\ tracked'.server = tracked.server
      /\ tracked'.number = IF s.call.set = "number" THEN s.call.value ELSE tracked.number
      /\ tracked'.number \in Int
  BY <1>1, <1>2, HelperWorks DEF OperatorInv
<1>5. OperatorTypeOK'
  BY <1>1, <1>4 DEF OperatorInv, OperatorTypeOK
<1>6. ASSUME opPlan.known
      PROVE  NumberInv'
  <2>1. NumberInv
    BY <1>6 DEF OperatorInv
  <2>2. LastIsShown' /\ (NoMessage' => NoMessage) /\ (NoCommand' => NoCommand)
    BY <1>1, <2>1 DEF NumberInv, LastIsShown, NoMessage, NoCommand
  <2>3. WriteInv'
    BY <1>1 DEF WriteInv, WritesNumber
  <2>4. ASSUME NoMessage', NoCommand'
        PROVE  tracked'.number = display'.number \/ overwritten' = TRUE
    <3>1. tracked.number = display.number \/ overwritten = TRUE
      BY <2>1, <2>2, <2>4 DEF NumberInv
    <3>2. CASE s.call.set = "number"
      <4>1. s.late = TRUE /\ overwritten = FALSE
        BY <1>2, <1>3, <2>1, <2>2, <2>4, <3>2 DEF NumberInv, WriteInv, WritesNumber
      <4>2. overwritten' = (tracked.number # s.call.value)
        BY <1>1, <1>2, <3>2, <4>1
      <4> QED
        BY <1>1, <1>4, <3>1, <3>2, <4>1, <4>2
    <3>3. CASE s.call.set # "number"
      BY <1>1, <1>2, <1>4, <3>1, <3>3
    <3> QED
      BY <3>2, <3>3
  <2> QED
    BY <1>4, <2>1, <2>2, <2>3, <2>4 DEF NumberInv
<1> QED
  BY <1>1, <1>5, <1>6 DEF OperatorInv, Operator!HeardAsMeant

(* Every step of the operator's part keeps the invariant.                  *)
LEMMA OperatorStep ==
    ASSUME OperatorInv, Operator!OperatorNext
    PROVE  OperatorInv'
BY CallHelperKeeps, CompareCopyKeeps, SendCommandKeeps, WriteCopyKeeps, TrackerHearsKeeps,
   ListenersHearKeeps, OperatorActsKeeps, TerminalObeysKeeps, StatusKeeps
   DEF Operator!OperatorNext

(* It holds at the start, whether or not the terminal is known.            *)
LEMMA OperatorStart ==
    ASSUME Operator!OperatorInit
    PROVE  OperatorInv
<1>1. /\ opPlan \in Operator!OperatorSetups
      /\ toListener = <<>> /\ toDisplay = <<>> /\ heard = <<>>
      /\ setting = <<>> /\ hearing = <<>>
      /\ display = [number |-> 0, mask |-> 1, reported |-> 1, soft |-> [m \in {1, 2} |-> 10]]
      /\ tracked = [server |-> opPlan.known, number |-> 0, mask |-> IF opPlan.known THEN 1 ELSE Operator!NO_MASK,
                    history |-> <<>>, soft |-> [m \in {1} |-> 10]]
  BY OperatorPlansAssumption DEF Operator!OperatorInit
<1>2. /\ {"version", "known", "events", "calls", "statuses"} \subseteq DOMAIN opPlan
      /\ opPlan.version \in Nat /\ opPlan.events \in Seq(Operator!Events) /\ opPlan.calls \in Seq(Operator!Calls)
  BY <1>1 DEF Operator!OperatorSetups
<1>3. opPlan.known \in BOOLEAN
  BY <1>1 DEF Operator!OperatorSetups
<1>4. 1 \in Operator!Word
  BY DEF Operator!Word, Operator!NO_MASK
<1>5. /\ {"number", "mask", "reported", "soft"} \subseteq DOMAIN display
      /\ display.reported \in Operator!Word /\ display.number = 0
  BY <1>1, <1>4
<1>6. TrackedFields \subseteq DOMAIN tracked /\ tracked.number = 0 /\ tracked.server = opPlan.known
  BY <1>1 DEF TrackedFields
<1>7. OperatorTypeOK
  BY <1>1, <1>2, <1>5, <1>6 DEF OperatorTypeOK
<1>8. opPlan.known => NumberInv
  BY <1>1, <1>3, <1>5, <1>6 DEF NumberInv, LastIsShown, WriteInv, WritesNumber
<1> QED
  BY <1>1, <1>7, <1>8 DEF OperatorInv, Operator!HeardAsMeant

(* The invariant says what was meant, heard and tracked.                   *)
LEMMA OperatorAgrees ==
    ASSUME OperatorInv
    PROVE  Operator!HeardAsMeant /\ Operator!NumberTracked
BY DEF OperatorInv, NumberInv, NoMessage, NoCommand, Operator!NumberTracked

-----------------------------------------------------------------------------
\* The parts together.

(* Each part's invariant, in the behaviours that run it.                   *)
TerminalInv == (part = "operator" => OperatorInv) /\ (part = "aux" => AuxInv)

(* A step of any part keeps it; the other parts leave these two alone.     *)
LEMMA TerminalStep ==
    ASSUME TerminalInv, [TerminalNext]_terminalVars
    PROVE  TerminalInv'
<1>1. CASE InOperator(Operator!OperatorNext)
  <2>1. part = "operator" /\ part' = part /\ Operator!OperatorNext
    BY <1>1 DEF InOperator, Except
  <2>2. OperatorInv'
    BY <2>1, OperatorStep DEF TerminalInv
  <2> QED
    BY <2>1, <2>2 DEF TerminalInv
<1>2. CASE InAux(Aux!AuxNext)
  <2>1. part = "aux" /\ part' = part /\ Aux!AuxNext
    BY <1>2 DEF InAux, Except
  <2>2. AuxInv'
    BY <2>1, AuxStep DEF TerminalInv
  <2> QED
    BY <2>1, <2>2 DEF TerminalInv
<1>3. CASE UNCHANGED terminalVars
  <2>1. part' = part /\ UNCHANGED operatorVars /\ UNCHANGED auxVars
    BY <1>3 DEF terminalVars
  <2>2. OperatorInv => OperatorInv'
    BY <2>1
       DEF operatorVars, OperatorInv, OperatorTypeOK, Operator!HeardAsMeant, NumberInv, LastIsShown,
           NoMessage, NoCommand, WriteInv, WritesNumber
  <2>3. AuxInv => AuxInv'
    BY <2>1
       DEF auxVars, AuxInv, AuxTypeOK, Agreement, Before, After, Aux!Table, Aux!Believed, CannotObey
  <2> QED
    BY <2>1, <2>2, <2>3 DEF TerminalInv
<1>4. ASSUME NEW p \in {"pools", "scaling", "session", "queue"}, part = p, part' = part
      PROVE  TerminalInv'
  BY <1>4 DEF TerminalInv
<1> QED
  BY <1>1, <1>2, <1>3, <1>4
     DEF TerminalNext, Except, InPools, InScaling, InSession, InQueue

(* The terminal and its client agree, in every version of the protocol and *)
(* for any sequence of events, calls and orders: a listener hears each     *)
(* event as the operator caused it; the copy of the number is the          *)
(* terminal's once nothing is on its way and no call is in progress, in    *)
(* whichever order the messages crossed, unless the helper's late write to *)
(* the copy replaced a number that the tracker had heard meanwhile; and    *)
(* the terminal believes the assignments that the client has although an   *)
(* answer may get lost (process_rx_message, the state tracker and the      *)
(* update helper of VirtualTerminalClient).                                *)
THEOREM SidesAgree == TerminalSpec => []BothSidesAgree
<1>1. TerminalInit => TerminalInv
  <2>1. ASSUME TerminalInit, part = "operator" PROVE OperatorInv
    <3>1. Operator!OperatorInit
      BY <2>1 DEF TerminalInit
    <3> QED
      BY <3>1, OperatorStart
  <2>2. ASSUME TerminalInit, part = "aux" PROVE AuxInv
    <3>1. Aux!AuxInit
      BY <2>2 DEF TerminalInit
    <3> QED
      BY <3>1, AuxStart
  <2> QED
    BY <2>1, <2>2 DEF TerminalInv
<1>2. TerminalInv /\ [TerminalNext]_terminalVars => TerminalInv'
  BY TerminalStep
<1>3. TerminalInv => BothSidesAgree
  <2>1. ASSUME AuxInv PROVE Aux!AssignmentsAgree
    BY <2>1 DEF AuxInv, Agreement, Aux!AssignmentsAgree
  <2> QED
    BY <2>1, OperatorAgrees DEF TerminalInv, BothSidesAgree
<1> QED
  BY <1>1, <1>2, <1>3, PTL DEF TerminalSpec
=============================================================================
