------------------------ MODULE MCDeviceDescriptors ------------------------
\* Device descriptor pools for DeviceDescriptors: every choice of one operation from
\* each set, with identifiers of two bytes and texts at the limits of their lengths.
EXTENDS DeviceDescriptors

Text(n) == [i \in 1 .. n |-> 99]
Name == <<1, 0, 7, 0, 0, 0, 3, 160>>

Implement(designator, version, extended) ==
    [type |-> "DVC", id |-> 0, designator |-> Text(designator), version |-> Text(version),
     serial |-> Text(4), structure |-> Text(3), local |-> <<101, 110, 5, 6, 0, 0, 255>>,
     extended |-> Text(extended), name |-> Name, useExtended |-> FALSE]
Element(id, kind, parent) ==
    [type |-> "DET", id |-> id, designator |-> Text(2), number |-> id + 1000, parent |-> parent,
     kind |-> kind, children |-> <<>>]
ProcessData(id, ddi, properties) ==
    [type |-> "DPD", id |-> id, designator |-> Text(0), ddi |-> ddi, properties |-> properties,
     triggers |-> 31, presentation |-> NullObject]
Property(id, ddi, value, presentation) ==
    [type |-> "DPT", id |-> id, designator |-> Text(5), ddi |-> ddi, value |-> value,
     presentation |-> presentation]
Unit(id, length) ==
    [type |-> "DVP", id |-> id, designator |-> Text(length), offset |-> -70000,
     scale |-> <<111, 18, 131, 58>>, decimals |-> 1]

Add(o) == [do |-> "add", object |-> o]
Child(id, child) == [do |-> "add_reference_to_child_object", id |-> id, child |-> child]
Set(id, field, to) == [do |-> "set", id |-> id, field |-> field, to |-> to]
Level(n) == [do |-> "level", level |-> n]
Transfer(level, name) == [do |-> "send", level |-> level, name |-> name]

\* Built, cut and read at either level, then changed and sent again.
Written == <<
    {Level(3), Level(4)},
    {Add(Implement(3, 0, 5)), Add(Implement(33, 2, 40)), Add(Implement(128, 2, 0)),
     Add(Implement(0, 128, 32))},
    {Add(Element(1, Device, 0)), Add(Element(1, Device, 77)), Add(Element(1, Device, NullObject))},
    {Add(Unit(300, 0)), Add(Unit(300, 40)), Add(Element(1, Device, 0))},
    {Add(Property(2, OffsetX, -2, 300)), Add(Property(2, OffsetY, 70000, 1))},
    {Child(1, 2), Child(1, 300), Level(3)},
    {Transfer(3, Name), Transfer(4, NoName), Transfer(4, [Name EXCEPT ![1] = 2])},
    {Add(ProcessData(513, 1, 2)), [do |-> "remove_object_by_id", id |-> 2], Set(1, "parent", 0),
     [do |-> "remove_reference_to_child_object", id |-> 1, child |-> 2],
     [do |-> "set text", id |-> 0, field |-> "designator", text |-> Text(6)], [do |-> "clear"], [do |-> "remove_object_with_id", id |-> 300],
     [do |-> "remove_objects_with_type", type |-> "DPT"]},
    {Transfer(4, NoName), Transfer(3, Name)}>>

\* Implements of functions, sections and bins, added in different orders.
Drawn == <<
    {Add(Implement(1, 1, 0))},
    {Add(Element(10, Function, 1)), Add(Element(11, Section, 1)), Add(Element(11, Section, 10))},
    {Add(Element(1, Device, 0))},
    {Add(Element(20, Function, 10)), Add(Element(21, Section, 10)), Add(Element(21, Bin, 10)),
     Add(Element(21, Bin, 1)), Add(Element(10, Function, 1))},
    {Add(Element(30, Section, 20)), Add(Element(30, Section, 10)), Add(Element(30, Section, 1)),
     Add(Element(30, Function, 1))},
    {Add(Element(40, Section, 20)), Add(Element(40, Section, 30)), Add(Element(40, Section, 10)),
     Add(Element(40, Section, 1)), Add(Element(40, Function, 10))},
    {Add(Property(2, OffsetY, -1500, NullObject)), Add(ProcessData(2, ActualWorkingWidth, 2)),
     Add(ProcessData(2, 1, 3)), Add(Property(2, 437, 9, NullObject))},
    {Child(21, 2), Child(30, 2), Child(20, 2)},
    {Add(Element(10, Function, 1)), Set(40, "parent", 10)},
    {Transfer(4, NoName)}>>

MCBuilds == {Written, Drawn}
MCDropped == {0, 1, 12, 18}
=============================================================================
