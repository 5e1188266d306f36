-------------------------- MODULE MCVirtualTerminal --------------------------
\* The small instances of every part; those of the objects, the command queue and
\* the operator's events are modules of their own.
EXTENDS VirtualTerminal, MCVTServerCommands

\* What the values are built from, apart from the constants they are for.
QueueValues == INSTANCE MCVTCommandQueue WITH Plans <- {}
OperatorValues == INSTANCE MCVTOperator WITH OperatorPlans <- {}
SessionNames == INSTANCE VTSession WITH Setups <- {}, FaultBudgets <- {}
AuxNames == INSTANCE VTAuxiliary WITH AuxPlans <- {}

MCPlans == QueueValues!MCPlans
MCOperatorPlans == OperatorValues!MCOperatorPlans

\* Scaling: every font, objects at a side of their parent, and every pool that is
\* cut elsewhere, for masks and fonts of several sizes, with a pool beside them.
Sized(o) == [o EXCEPT !.attr = [n \in DOMAIN @ |->
    IF n = "Width" THEN 60 ELSE IF n = "Height" THEN 40 ELSE IF n = "BarGraphWidth" THEN 15 ELSE @[n]]]
\* A parent whose child touches its right side.
Parent(o) == [o EXCEPT !.attr["Width"] = 71, !.attr["Height"] = 55,
                       !.children = <<[id |-> 30, x |-> 11, y |-> 3], [id |-> 30, x |-> -7, y |-> -1]>>]
ScaledPool(p) ==
    CASE p.use = "font" -> <<[id |-> 30, object |-> [Object("FontAttributes") EXCEPT !.attr["FontSize"] = p.type]]>>
      [] p.use = "inside" -> <<[id |-> 31, object |-> Parent(Object(p.type))],
                               [id |-> 30, object |-> Sized(Object(p.variant))]>>
      [] OTHER -> MCPool(p)
FontPools == [use : {"font"}, type : Fonts, variant : {"plain"}]
InsidePools == [use : {"inside"}, type : {"Container", "Button"}, variant : ScalesBoth \union ScalesWidth]
Requests(names, pixels, fonts) ==
    [pools : {<<[name |-> n, mask |-> 200, key |-> 60]>> : n \in names},
     pixels : pixels, keyPixels : {80}, fonts : fonts]
MCScalingRequests ==
    Requests(FontPools, {25, 100, 170, 199, 240, 320, 480, 800}, {Fonts, {0, 3, 5, 8, 10}})
      \union Requests(InsidePools, {133, 200, 313}, {Fonts})
      \union Requests({p \in CutPools : p.variant # "odd"}, {480}, {Fonts})
      \union [pools : {<<[name |-> n, mask |-> a, key |-> 60], [name |-> n, mask |-> 0, key |-> 0]>> :
                          n \in InsidePools, a \in {0, 200}},
              pixels : {480}, keyPixels : {80}, fonts : {Fonts}]

\* Session: two pools, with and without a label; one fault of each kind, or a
\* terminal that loses its power while an answer is late.  A pool that could not
\* be scaled is not usable.
NoFaults == [k \in SessionNames!FaultKinds |-> 0]
MCFaultBudgets ==
    {[NoFaults EXCEPT ![k] = 1] : k \in SessionNames!FaultKinds}
       \union {[NoFaults EXCEPT !["off"] = 1, !["late"] = 1]}
SetUp(usable, labelled, stored) == [usable |-> usable, labelled |-> labelled, stored |-> stored]
MCSetups ==
    {SetUp(Pools, FALSE, <<>>), SetUp({2}, TRUE, <<>>), SetUp(Pools, TRUE, [l \in {"old"} |-> {}]),
     SetUp(Pools, TRUE, [l \in {"mine", "old"} |-> IF l = "mine" THEN Pools ELSE {}])}

\* Auxiliary inputs: units that offer an input with the same object ID, assigned
\* and unassigned in short sequences of commands with an answer lost; and two own
\* inputs that change while the session, the learn mode or the driver gets in the
\* way.
AuxPlan(version, orders, lost) ==
    [version |-> version, units |-> <<<<1, 7>>, <<2, 8>>, <<3, 7>>>>, orders |-> orders, lost |-> lost,
     inputs |-> {}, updates |-> <<>>, enables |-> <<>>, removals |-> 0, learning |-> 0, ends |-> 0,
     refused |-> 0]
Assign(name, function, type) == [name |-> name, function |-> function, input |-> 1, type |-> type]
Unassign(function) ==
    [name |-> AuxNames!DEFAULT_NAME, function |-> function, input |-> AuxNames!NO_OBJECT, type |-> AuxNames!RemoveAssignment]
Orders == {Assign(n, f, 2) : n \in {1, 2}, f \in {10, 11}}
             \union {Assign(1, 10, 12), Unassign(10), Unassign(AuxNames!NO_OBJECT)}
AssignPlans == {AuxPlan(v, <<a, b, c>>, 1) : v \in {5, 6}, a, b, c \in Orders}
Report(id, v) == [id |-> id, value |-> v, locked |-> v = 2]
OwnPlans ==
    {[AuxPlan(6, <<>>, 0) EXCEPT !.units = <<>>, !.inputs = {1, 2}, ![k] = 1,
          !.updates = <<Report(1, 1), Report(2, 1), Report(1, 2), Report(9, 1)>>,
          !.enables = <<[id |-> 1, enable |-> TRUE], [id |-> 9, enable |-> TRUE]>>,
          !.learning = 2] : k \in {"removals", "ends", "refused"}}
MCAuxPlans == AssignPlans \union OwnPlans
=============================================================================
