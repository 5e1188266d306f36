----------------------------- MODULE VTAuxiliary -----------------------------
\* Auxiliary control type 2: the table of input units and the functions a
\* terminal assigned to their inputs; and the inputs this client offers itself.
\* The terminal and the other units are external. Source:
\* isobus_virtual_terminal_client.cpp.
EXTENDS Integers, Sequences

CONSTANT AuxPlans   \* what happens, in which set-up; see AuxInit

VARIABLES
    auxPlan,    \* version: of the terminal; units: <<NAME, model>> that announce themselves;
                \* orders, updates, enables, removals, learning, ends: left to happen;
                \* lost: answers that may be; refused: frames the driver may refuse
    assigned,   \* assignedAuxiliaryInputDevices; the order of a unit's functions, of
                \* which none is there twice, is left out
    order, answer,   \* the terminal's command on its way, and its answer
    believed,   \* the terminal's own table: what it was told is assigned
    inputs,     \* ourAuxiliaryInputs, with how long ago each status was sent
    link,       \* connected: the session's state; learn: the terminal's learn mode
    shown,      \* per input, the value of its last status message others heard
    wanted      \* history: the last value the application set while connected

auxVars == <<auxPlan, assigned, order, answer, believed, inputs, link, shown, wanted>>

NO_OBJECT == 65535
DEFAULT_NAME == 0
RemoveAssignment == 31
QuadratureBooleanMomentary == 11

\* What a terminal may order, and what AuxPlans consists of.
ObjectIDs == 0..NO_OBJECT
Orders == [name : Nat, function : ObjectIDs, input : ObjectIDs, type : 0..31]
AuxSetups ==
    [version : Nat, units : Seq(Nat \X Nat), orders : Seq(Orders), lost : Nat, inputs : SUBSET Nat,
     updates : Seq([id : Nat, value : Nat, locked : BOOLEAN]), enables : Seq([id : Nat, enable : BOOLEAN]),
     removals : Nat, learning : Nat, ends : Nat, refused : Nat]

-----------------------------------------------------------------------------
\* The table of assignments.

AuxiliaryInputTypeTwoMaintenance(unit, ready) ==
    /\ assigned' = IF ~ready \/ \E i \in DOMAIN assigned : assigned[i].model = unit[2] THEN assigned
                   ELSE Append(assigned, [name |-> unit[1], model |-> unit[2], functions |-> {}])
    /\ UNCHANGED <<order, answer, believed, inputs, link, shown>>

Refused(table) == [table |-> table, error |-> TRUE, already |-> FALSE]
Obeyed(table) == [table |-> table, error |-> FALSE, already |-> FALSE]

Unassigned(c) ==
    CASE c.function = NO_OBJECT ->
            [i \in DOMAIN assigned |-> [assigned[i] EXCEPT !.functions = {}]]
      [] c.function # NO_OBJECT /\ c.input = NO_OBJECT ->
            [i \in DOMAIN assigned |->
                [assigned[i] EXCEPT !.functions = {f \in @ : f.function # c.function}]]
      [] OTHER -> assigned

\* Only the first unit with that NAME counts, and the types after quadrature
\* momentary are unknown.
Assigned(c) ==
    LET units == {i \in DOMAIN assigned : assigned[i].name = c.name}
        unit == CHOOSE i \in units : \A j \in units : i <= j
        new == [function |-> c.function, input |-> c.input, type |-> c.type]
    IN IF units = {} \/ c.type > QuadratureBooleanMomentary THEN Refused(assigned)
       ELSE IF new \in assigned[unit].functions
            THEN [Refused(assigned) EXCEPT !.already = TRUE]
            ELSE Obeyed([assigned EXCEPT ![unit].functions = @ \union {new}])

\* Mutant: the error that the function is already assigned is not told.
AuxiliaryAssignmentTypeTwo_ForgetsAlready(c) ==
    [(IF c.name = DEFAULT_NAME /\ c.type = RemoveAssignment THEN Obeyed(Unassigned(c)) ELSE Assigned(c))
        EXCEPT !.already = FALSE]
AuxiliaryAssignmentTypeTwo(c) ==
    IF c.name = DEFAULT_NAME /\ c.type = RemoveAssignment THEN Obeyed(Unassigned(c)) ELSE Assigned(c)

\* A terminal of version 6 is not told which error it was.
send_auxiliary_function_assignment_response(result) ==
    (IF result.error THEN {"error"} ELSE {})
      \union (IF result.already /\ auxPlan.version < 6 THEN {"already"} ELSE {})

OrderArrives ==
    /\ order # <<>> /\ answer = <<>>
    /\ \E result \in {AuxiliaryAssignmentTypeTwo(order[1])} :
          /\ assigned' = result.table
          /\ answer' = <<send_auxiliary_function_assignment_response(result)>>
    /\ UNCHANGED <<auxPlan, order, believed, inputs, link, shown>>

-----------------------------------------------------------------------------
\* The terminal, one command at a time, which it repeats when no answer comes.

Believed(c) ==
    IF c.name = DEFAULT_NAME /\ c.type = RemoveAssignment
    THEN IF c.function = NO_OBJECT THEN {}
         ELSE {b \in believed : ~(b.function = c.function /\ c.input = NO_OBJECT)}
    ELSE believed \union {c}

TerminalOrders ==
    /\ order = <<>> /\ auxPlan.orders # <<>>
    /\ order' = <<Head(auxPlan.orders)>>
    /\ auxPlan' = [auxPlan EXCEPT !.orders = Tail(@)]
    /\ UNCHANGED <<assigned, answer, believed, inputs, link, shown>>

TerminalLearns ==
    /\ answer # <<>>
    /\ believed' = IF answer[1] = {} \/ "already" \in answer[1] THEN Believed(order[1]) ELSE believed
    /\ order' = <<>> /\ answer' = <<>>
    /\ UNCHANGED <<auxPlan, assigned, inputs, link, shown>>

AnswerLost ==
    /\ answer # <<>> /\ auxPlan.lost > 0
    /\ auxPlan' = [auxPlan EXCEPT !.lost = @ - 1]
    /\ answer' = <<>>
    /\ UNCHANGED <<assigned, order, believed, inputs, link, shown>>

UnitAnnounced ==
    /\ auxPlan.units # <<>>
    /\ \E ready \in BOOLEAN :
          /\ AuxiliaryInputTypeTwoMaintenance(Head(auxPlan.units), ready)
          /\ auxPlan' = [auxPlan EXCEPT !.units = IF ready THEN Tail(@) ELSE @]

-----------------------------------------------------------------------------
\* Our own inputs. The timers of a status message: less than 50 ms, less than a
\* second, more.

add_auxiliary_input_object_id ==
    [value |-> 0, locked |-> FALSE, enabled |-> FALSE, interaction |-> FALSE, age |-> "cyclic"]

StatusDue(input) ==
    \/ input.age = "cyclic"
    \/ input.interaction /\ ~link.learn /\ input.age = "interaction"

\* The time and the interaction are reset whether or not the driver takes the
\* frame. In learn mode only the terminal is told. `before` is the input as the
\* caller changed it, `plan` what the caller leaves to happen.
update_auxiliary_input_status(id, before, plan) ==
    IF ~StatusDue(before)
    THEN inputs' = [inputs EXCEPT ![id] = before] /\ auxPlan' = plan /\ UNCHANGED shown
    ELSE /\ inputs' = [inputs EXCEPT ![id] = [before EXCEPT !.age = "new", !.interaction = FALSE]]
         /\ \/ /\ shown' = IF link.learn THEN shown ELSE [shown EXCEPT ![id] = before.value]
               /\ auxPlan' = plan
            \/ /\ plan.refused > 0
               /\ auxPlan' = [plan EXCEPT !.refused = @ - 1]
               /\ UNCHANGED shown

\* The worker thread, while connected.
UpdateStatus ==
    /\ link.connected
    /\ \E id \in DOMAIN inputs :
          StatusDue(inputs[id]) /\ update_auxiliary_input_status(id, inputs[id], auxPlan)
    /\ UNCHANGED <<assigned, order, answer, believed, link, wanted>>

\* The application. A change without a session is dropped, and so is a change
\* of the lock alone.
\* Mutant: only an input that is due keeps its new value.
Changed_WhenDue(u) ==
    [inputs[u.id] EXCEPT !.value = IF inputs[u.id].age = "new" THEN @ ELSE u.value,
                         !.locked = u.locked, !.interaction = TRUE]
Changed(u) == [inputs[u.id] EXCEPT !.value = u.value, !.locked = u.locked, !.interaction = TRUE]

update_auxiliary_input ==
    /\ auxPlan.updates # <<>>
    /\ LET u == Head(auxPlan.updates)
           left == [auxPlan EXCEPT !.updates = Tail(@)]
       IN IF u.id \in DOMAIN inputs /\ link.connected /\ u.value # inputs[u.id].value
          THEN /\ update_auxiliary_input_status(u.id, Changed(u), left)
               /\ wanted' = [wanted EXCEPT ![u.id] = u.value]
          ELSE auxPlan' = left /\ UNCHANGED <<inputs, shown, wanted>>
    /\ UNCHANGED <<assigned, order, answer, believed, link>>

remove_auxiliary_input_object_id ==
    /\ auxPlan.removals > 0
    /\ \E id \in DOMAIN inputs : inputs' = [i \in DOMAIN inputs \ {id} |-> inputs[i]]
    /\ auxPlan' = [auxPlan EXCEPT !.removals = @ - 1]
    /\ UNCHANGED <<assigned, order, answer, believed, link, shown, wanted>>

\* 50 ms, or a second, pass; the worker thread serves every input that is due
\* before more time does.
TimePasses ==
    /\ \A id \in DOMAIN inputs : ~(link.connected /\ StatusDue(inputs[id]))
    /\ \E id \in DOMAIN inputs : inputs[id].age # "cyclic"
    /\ \E long \in BOOLEAN :
          inputs' = [id \in DOMAIN inputs |->
                        [inputs[id] EXCEPT !.age = IF long \/ @ = "cyclic" THEN "cyclic" ELSE "interaction"]]
    /\ inputs' # inputs
    /\ UNCHANGED <<auxPlan, assigned, order, answer, believed, link, shown, wanted>>

\* Which nothing here reads again.
AuxiliaryInputStatusTypeTwoEnable ==
    /\ auxPlan.enables # <<>>
    /\ LET c == Head(auxPlan.enables)
       IN inputs' = IF c.id \in DOMAIN inputs THEN [inputs EXCEPT ![c.id].enabled = c.enable] ELSE inputs
    /\ auxPlan' = [auxPlan EXCEPT !.enables = Tail(@)]
    /\ UNCHANGED <<assigned, order, answer, believed, link, shown, wanted>>

\* The learn mode comes with the terminal's status message, and the session may
\* end and come back.
LearnModeToggled ==
    /\ auxPlan.learning > 0
    /\ link' = [link EXCEPT !.learn = ~@]
    /\ auxPlan' = [auxPlan EXCEPT !.learning = @ - 1]
    /\ UNCHANGED <<assigned, order, answer, believed, inputs, shown, wanted>>

SessionEnds ==
    /\ link.connected /\ auxPlan.ends > 0
    /\ link' = [connected |-> FALSE, learn |-> FALSE]
    /\ auxPlan' = [auxPlan EXCEPT !.ends = @ - 1]
    /\ UNCHANGED <<assigned, order, answer, believed, inputs, shown, wanted>>

SessionStarts ==
    /\ ~link.connected
    /\ link' = [link EXCEPT !.connected = TRUE]
    /\ UNCHANGED <<auxPlan, assigned, order, answer, believed, inputs, shown, wanted>>

-----------------------------------------------------------------------------

AuxInit ==
    /\ auxPlan \in AuxPlans
    /\ assigned = <<>> /\ order = <<>> /\ answer = <<>> /\ believed = {}
    /\ inputs = [id \in auxPlan.inputs |-> add_auxiliary_input_object_id]
    /\ link = [connected |-> TRUE, learn |-> FALSE]
    /\ shown = [id \in auxPlan.inputs |-> 0]
    /\ wanted = shown

Assignments == OrderArrives \/ TerminalOrders \/ TerminalLearns \/ AnswerLost \/ UnitAnnounced
OwnInputs ==
    \/ UpdateStatus \/ update_auxiliary_input \/ remove_auxiliary_input_object_id \/ TimePasses
    \/ AuxiliaryInputStatusTypeTwoEnable \/ LearnModeToggled \/ SessionEnds \/ SessionStarts

AuxNext == (Assignments /\ UNCHANGED wanted) \/ OwnInputs

\* Time passes and the worker thread runs.
AuxWork == UpdateStatus \/ TimePasses \/ SessionStarts
AuxSpec == AuxInit /\ [][AuxNext]_auxVars /\ WF_auxVars(AuxWork)

-----------------------------------------------------------------------------
\* Properties.

Table ==
    UNION {{[name |-> assigned[i].name, function |-> f.function, input |-> f.input, type |-> f.type] :
                f \in assigned[i].functions} : i \in DOMAIN assigned}

\* Between two commands the terminal and the client agree on what is assigned,
\* even when an answer was lost and the command repeated: the second time the
\* client says that it is assigned already, which it may only tell a terminal
\* before version 6.
AssignmentsAgree == order = <<>> /\ auxPlan.version < 6 => believed = Table

\* The status the others heard last is the value the application set last.
LatestShown == \A id \in DOMAIN inputs : ~link.learn => shown[id] = wanted[id]
=============================================================================
