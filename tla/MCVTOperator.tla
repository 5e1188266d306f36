---------------------------- MODULE MCVTOperator ----------------------------
\* Every event once at a terminal of every version; and the operator and the
\* application changing the same number, or switching masks between two status
\* messages.
EXTENDS VTOperator

OpPlan(version, known, events, calls, statuses, rejects) ==
    [version |-> version, known |-> known, events |-> events, calls |-> calls,
     statuses |-> statuses, rejects |-> rejects]

SomeIds == {0, 258, 65534}
Flags(mask, error, parent, soft, event, f) ==
    [event |-> event, mask |-> mask, error |-> error, parent |-> parent, soft |-> soft,
     missing |-> f[1], faulty |-> f[2], other |-> f[3], deleted |-> f[4]]
OneFlag == {[i \in 1..4 |-> i = k] : k \in 0..4}

Keys == [event : {"SoftKey", "Button"}, code : 0..4, id : SomeIds, parent : {513}, key : {7}]
Pointings == [event : {"Pointing"}, x : SomeIds, y : {772}, code : 0..3, mask : {1029}, tan : {0, 9}]
Inputs == [event : {"SelectInput"}, id : SomeIds, selected : BOOLEAN, open : BOOLEAN]
Escs == [event : {"Esc"}, id : SomeIds, error : 0..5, tan : {9}]
Values == [event : {"NumericValue"}, id : {258, NUMBER}, value : {0, 16909060, 65535}]
Masks == {Flags(258, 513, 772, 1029, e, f) : e \in {"ActiveMask", "SoftKeyMask"}, f \in OneFlag}
Strings == [event : {"StringValue"}, id : SomeIds,
            text : {<<>>, <<65>>, [i \in 1..255 |-> 65], [i \in 1..257 |-> 66]}]
Layouts == [event : {"LayoutHideShow"}, id : {258}, hidden : BOOLEAN, second : {513, NO_MASK},
            secondHidden : BOOLEAN, tan : {9}]
Audio == [event : {"AudioTermination"}, terminated : BOOLEAN, tan : {9}]

EventPlans ==
    {OpPlan(v, TRUE, <<e>>, <<>>, 0, {}) :
        v \in 3..6,
        e \in Keys \union Pointings \union Inputs \union Escs \union Values \union Masks
                \union Strings \union Layouts \union Audio}

SetNumberTo(v) == [set |-> "number", value |-> v]
Step == [set |-> "step", value |-> 1]
ShowMask(m) == [set |-> "mask", mask |-> m]
SoftKeys(m, s) == [set |-> "soft", mask |-> m, value |-> s]
Enter(v) == [event |-> "NumericValue", id |-> NUMBER, value |-> v]
RacePlans ==
    {OpPlan(4, known, <<Enter(5), Enter(6)>>, calls, 1, rejects) :
        known \in BOOLEAN, rejects \in {{}, {5}},
        calls \in {<<SetNumberTo(7), SetNumberTo(5)>>, <<Step, Step>>, <<SetNumberTo(7), Step>>}}
MaskPlans ==
    {OpPlan(4, known, <<>>, <<ShowMask(2), ShowMask(a), SoftKeys(1, 11), SoftKeys(1, 256), ShowMask(b)>>,
            2, {}) : known \in BOOLEAN, a \in {1, 3}, b \in {1, 2}}

MCOperatorPlans == EventPlans \union RacePlans \union MaskPlans
=============================================================================
