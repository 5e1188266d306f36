------------------------- MODULE MCVTServerCommands -------------------------
\* A pool with one object of every kind an object can refer to, and one object
\* under test of each type, with or without a macro: cut off at every byte, or
\* whole and followed by commands with values around every width and limit.
EXTENDS VTServerCommands

NULL == NULL_OBJECT_ID

\* What a type keeps besides the attributes that can be read.
Hidden(t) ==
    CASE t = "WorkingSet" -> [Languages |-> 1]
      [] t = "InputString" -> [Text |-> 3]
      [] t \in {"OutputString", "StringVariable", "InputAttributes"} -> [Text |-> 2]
      [] t \in {"InputBoolean", "OutputMeter"} -> [Height |-> 0]
      [] t \in {"OutputNumber", "OutputArchedBarGraph"} -> [Value |-> 0]
      [] t = "WindowMask" -> [Title |-> 5, Icon |-> 12, WindowType |-> "StringOutputValue",
                              References |-> 1]
      [] t = "PictureGraphic" -> [RunLengthEncoded |-> 0, PixelBytes |-> 4]
      [] t = "ColourMap" -> [Indexes |-> 2]
      [] t \in {"AuxiliaryFunctionType1", "AuxiliaryInputType1"} -> [FunctionType |-> 1]
      [] OTHER -> <<>>

Default(t, name) ==
    CASE name = "FontAttributes" \/ name = "ForegroundColour" -> 8
      [] name = "SoftKeyMask" -> 3
      [] name = "InputAttributes" -> 11
      [] name = "VariableReference" -> IF t \in {"InputString", "OutputString"} THEN 7 ELSE 6
      [] name = "TargetValueVariableReference" -> NULL
      [] name = "LineAttributes" -> 9
      [] name = "FillAttributes" -> 10
      [] name = "FillPattern" -> 12
      [] name = "Name" -> 5
      [] name = "AuxiliaryObjectID" -> 13
      [] name \in {"DefaultObjectID", "ExternalReferenceNAMEID", "ExternalObjectID"} -> NULL
      [] name = "Value" /\ t = "ObjectPointer" -> 4
      [] OTHER -> 0

Child(id) == [id |-> id, x |-> 1, y |-> 1]

ChildrenOf(t) ==
    CASE t \in {"WorkingSet", "DataMask", "AlarmMask", "Container", "Key", "Button", "InputList",
                "OutputList", "WindowMask", "AuxiliaryFunctionType1", "AuxiliaryInputType1",
                "AuxiliaryFunctionType2", "AuxiliaryInputType2"} -> <<Child(5)>>
      [] t = "KeyGroup" -> <<Child(4), Child(15)>>
      [] t = "SoftKeyMask" -> <<Child(4)>>
      [] OTHER -> <<>>

NumberPacket == [command |-> "ChangeNumericValue", id |-> 6, value |-> 7]
TextPacket == [command |-> "ChangeStringValue", id |-> 7, length |-> 4, received |-> 9]
Packet(c, id, v) == [command |-> c, id |-> id, value |-> v]

Object(t) ==
    [type |-> t,
     attr |-> Hidden(t) @@ (LET names == Reads[t]
                            IN [n \in {names[i] : i \in DOMAIN names} |-> Default(t, n)]),
     children |-> ChildrenOf(t), macros |-> <<>>,
     packets |-> IF t = "Macro" THEN <<TextPacket, NumberPacket>> ELSE <<>>,
     points |-> IF t = "OutputPolygon" THEN <<<<0, 0>>, <<1, 1>>, <<2, 0>>>> ELSE <<>>]

Entry(id, t) == [id |-> id, object |-> Object(t)]
WithMacros(o, macros) == [o EXCEPT !.macros = macros]
MacroFor(event, id) == [event |-> event, id |-> id, extended |-> FALSE]

Others ==
    <<Entry(1, "WorkingSet"), Entry(2, "DataMask"), Entry(3, "SoftKeyMask"), Entry(4, "Key"),
      Entry(5, "OutputString"), Entry(6, "NumberVariable"), Entry(7, "StringVariable"),
      Entry(8, "FontAttributes"), Entry(9, "LineAttributes"), Entry(10, "FillAttributes"),
      Entry(11, "InputAttributes"), Entry(12, "PictureGraphic"),
      Entry(13, "AuxiliaryFunctionType2"), Entry(14, "Macro"), Entry(15, "ObjectPointer")>>

\* A window without macros keeps its references apart from its children.
HoldMacros == Types \ {"NumberVariable", "StringVariable", "ColourMap", "ObjectPointer", "Macro",
                       "AuxiliaryFunctionType1", "AuxiliaryInputType1", "AuxiliaryFunctionType2",
                       "AuxiliaryInputType2", "AuxiliaryControlDesignatorType2"}

\* What makes the parser refuse an object, or take it another way.
Odd(o) == CASE o.type = "AlarmMask" -> [o EXCEPT !.attr["Priority"] = 3]
            [] o.type = "OutputLine" -> [o EXCEPT !.attr["LineDirection"] = 2]
            [] o.type = "PictureGraphic" -> [o EXCEPT !.attr["RunLengthEncoded"] = 1]
            [] o.type = "ColourMap" -> [o EXCEPT !.attr["Indexes"] = 3]
            [] o.type = "Macro" -> [o EXCEPT !.packets = <<[command |-> "GetMemory"]>>]
            [] o.type = "WorkingSet" -> [o EXCEPT !.type = "Animation"]
OddTypes == {"AlarmMask", "OutputLine", "PictureGraphic", "ColourMap", "Macro", "WorkingSet"}

\* An object that ends with its last fixed byte.
Bare(o) ==
    [o EXCEPT !.children = <<>>,
              !.attr = [n \in DOMAIN @ |-> IF n \in {"Text", "Languages", "References"} THEN 0 ELSE @[n]]]

TwoMacros == <<MacroFor("OnChangeValue", 14), [MacroFor("OnHide", 14) EXCEPT !.extended = TRUE]>>

\* A container that hides itself when it is shown, and counts when it is hidden.
Blinking == <<MacroFor("OnShow", 16), MacroFor("OnHide", 14)>>
HideMacro == [Object("Macro") EXCEPT !.packets =
                <<Packet("ChangeAttribute", 99, 0), Packet("LockUnlockMask", 2, 0),
                  Packet("HideShowObject", 20, 0)>>]

UnderTest(p) ==
    CASE p.variant = "plain" -> Object(p.type)
      [] p.variant = "macros" -> WithMacros(Object(p.type), TwoMacros)
      [] p.variant = "odd" -> Odd(Object(p.type))
      [] p.variant = "bare" -> Bare(Object(p.type))
      [] p.variant = "blinking" -> WithMacros(Object(p.type), Blinking)

Named(use, types, variant) == [use : {use}, type : types, variant : {variant}]
CutPools ==
    Named("cut", Types, "plain") \union Named("cut", Types, "bare")
       \union Named("cut", HoldMacros, "macros") \union Named("cut", OddTypes, "odd")
OneCommand == Named("commands", Types \ {"WorkingSet"}, "plain")
                 \union Named("commands", HoldMacros \ {"WorkingSet"}, "macros")
TwoCommands == Named("pairs", {"AlarmMask", "KeyGroup", "InputBoolean", "OutputMeter"}, "plain")
MacroPools == Named("pairs", {"Container"}, "blinking")
\* A working set without children, with too few or just enough bytes behind it.
ShortPools == Named("short", {"ObjectPointer", "NumberVariable"}, "plain")

Tested(p) == [id |-> IF p.type = "WorkingSet" THEN 1 ELSE 20, object |-> UnderTest(p)]

MCPoolNames == CutPools \union OneCommand \union TwoCommands \union MacroPools \union ShortPools

MCPool(p) ==
    CASE p.use = "cut" -> <<Entry(1, "WorkingSet"), Tested(p)>>
      [] p.use = "short" -> <<[id |-> 1, object |-> Bare(Object("WorkingSet"))], Tested(p)>>
      [] p.variant = "blinking" -> Others \o <<[id |-> 16, object |-> HideMacro], Tested(p)>>
      [] OTHER -> Append(Others, Tested(p))

WorkingSetBytes == EncodedBytes(Object("WorkingSet"))
MCSizes(p) == LET all == PoolBytes(MCPool(p))
              IN IF p.use = "cut" THEN {0, 3} \union WorkingSetBytes..all ELSE {all}
MCCommands(p) == CASE p.use \in {"cut", "short"} -> 0 [] p.use = "commands" -> 1 [] p.use = "pairs" -> 2

Raw == {0, 1, 4, 15, 257, NULL, 65542, 99, 3, 5, 6, 7, 8, 9, 10, 11, 12, 13, 20}
FewRaw == {0, 6, 8, 99, 3, NULL}
Few == {0, 5, 99}

AttributeCommands(id, numbers, raw) ==
    [command : {"ChangeAttribute"}, id : {id}, attribute : numbers, value : raw]

ObjectCommands(id) ==
    LET at == {id, 99} IN
    [command : {"ChangeNumericValue"}, id : at, value : {0, 5, 300, 65542}]
       \union [command : {"HideShowObject"}, id : at, value : {0, 1}]
       \union [command : {"EnableDisableObject"}, id : at, value : {0, 1, 2}]
       \union [command : {"ChangeStringValue"}, id : at, length : {1, 4}, received : {9}]
       \union [command : {"ChangeChildLocation"}, id : at, child : Few, x : {-2}, y : {0}]
       \union [command : {"ChangeChildPosition"}, id : at, child : Few, x : {7}, y : {8}, received : {8, 9}]
       \union [command : {"ChangeSize"}, id : at, width : {3}, height : {3, 4}]
       \union [command : {"ChangePolygonPoint"}, id : at, index : {2, 3}, x : {5}, y : {5}]
       \union [command : {"ChangeListItem"}, id : at, index : {0, 1}, item : {5, 6, 8, 99, NULL}]
       \union [command : {"ChangeSoftKeyMask"}, id : at, mask : {3, 5, 99, NULL}]
       \union [command : {"ChangeFillAttributes"}, id : at, pattern : {12, 5, 99, NULL}, value : {1, 4}, colour : {9}]
       \union [command : {"ChangeFontAttributes"}, id : at, size : {14, 15}, colour : {9}, value : {7}]
       \union [command : {"ChangeLineAttributes"}, id : at, art : {300}, colour : {9}, value : {7}]
       \union [command : {"ChangeBackgroundColour"}, id : at, colour : {9}]
       \union [command : {"ChangePriority"}, id : at, value : {1, 3}]
       \union [command : {"SelectInputObject"}, id : at, value : {0, 1, 255}]
       \union [command : {"ExecuteMacro", "ExecuteExtendedMacro"}, id : at \union {14, 14 + 256}]
       \union [command : {"ControlAudioSignal", "SetAudioVolume", "LockUnlockMask"}]

\* Only the working set object is made to change its active mask.
MaskCommands == [command : {"ChangeActiveMask"}, id : {1, 99}, mask : {2, 99}]

MCClientCommands(p) ==
    LET t == p.type IN
    IF p.use = "commands"
    THEN AttributeCommands(20, 0..(Len(Reads[t]) + 1), Raw) \union ObjectCommands(20)
            \union MaskCommands \union ObjectCommands(15)
    ELSE AttributeCommands(20, 0..(Len(Reads[t]) + 1), FewRaw)
            \union {c \in ObjectCommands(20) : c.command \in
                      {"HideShowObject", "ChangeSoftKeyMask", "ChangeSize", "ExecuteExtendedMacro",
                       "ChangeNumericValue", "ChangeBackgroundColour"}}
=============================================================================
