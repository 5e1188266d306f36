------------------------------ MODULE VTObjects ------------------------------
(***************************************************************************)
(* The object types of an ISO 11783-6 pool: per type, the attributes that  *)
(* can be read by number (get_attribute, in the order of AttributeName,    *)
(* number 0 being the type), those a Change Attribute command may set and  *)
(* under which condition (set_attribute), and what makes an object valid   *)
(* (get_is_valid).  A pool is a function from object IDs to objects; an    *)
(* object has a type, its attributes, its children, its macros and, when   *)
(* it is a macro, its command packets.                                     *)
(***************************************************************************)
EXTENDS Integers, Sequences

NULL_OBJECT_ID == 65535

\* get_object_by_id: the null ID and IDs without an object find nothing.
Exists(pool, id) == id # NULL_OBJECT_ID /\ id \in DOMAIN pool
Is(pool, id, types) == Exists(pool, id) /\ pool[id].type \in types

\* Children that do not exist are skipped; a child of another type is wrong.
ChildrenAmong(pool, o, types) ==
    \A i \in DOMAIN o.children :
        Exists(pool, o.children[i].id) => pool[o.children[i].id].type \in types

\* Every child must exist and be of one of these types.
ChildrenAre(pool, o, types) ==
    \A i \in DOMAIN o.children : Is(pool, o.children[i].id, types)

NullOr(pool, id, types) == id = NULL_OBJECT_ID \/ Is(pool, id, types)

Lines == {"OutputLine", "OutputRectangle", "OutputEllipse", "OutputPolygon"}
Graphs == {"OutputMeter", "OutputLinearBarGraph", "OutputArchedBarGraph"}
Drawings == Lines \union Graphs \union {"PictureGraphic"}
InputFields == {"InputBoolean", "InputString", "InputNumber", "InputList"}
OutputFields == {"OutputString", "OutputNumber", "OutputList"}
AuxiliaryTwos == {"AuxiliaryFunctionType2", "AuxiliaryInputType2",
                  "AuxiliaryControlDesignatorType2"}
Pointers == {"ObjectPointer", "ExternalObjectPointer"}
Numbers == {"NumberVariable"}

(***************************************************************************)
(* The conditions of set_attribute.  A value of 8 or 16 bits keeps the low *)
(* bits of the 32 received; a flag any value but zero; an enumeration      *)
(* refuses larger values; a reference must name an object of a type.       *)
(***************************************************************************)
Modulo(n) == [kind |-> "value", size |-> n]
Byte == Modulo(256)
Word == Modulo(65536)
Long == [kind |-> "long"]
Flag == [kind |-> "flag"]
AtMost(n) == [kind |-> "enumeration", largest |-> n]
ReferenceOr(types, absent, wrong) ==
    [kind |-> "reference", types |-> types, absent |-> absent, wrong |-> wrong]
Reference(types) == ReferenceOr(types, "InvalidValue", "InvalidValue")

--------------------------------------------------------------------------------
\* Masks and their containers

WorkingSetValid(pool, o) ==
    ChildrenAmong(pool, o, Drawings \union OutputFields
                     \union {"Container", "GraphicsContext", "ObjectPointer"})
WorkingSetSets == [BackgroundColour |-> Byte, Selectable |-> Flag, ActiveMask |-> Word]
WorkingSetReads == <<"BackgroundColour", "Selectable", "ActiveMask">>

MaskChildren ==
    Drawings \union InputFields \union OutputFields \union AuxiliaryTwos \union Pointers
       \union {"WorkingSet", "Button", "GraphicsContext", "Animation", "Macro"}

DataMaskValid(pool, o) ==
    /\ ChildrenAmong(pool, o, MaskChildren \union {"SoftKeyMask"})
    /\ \A i, j \in DOMAIN o.children :
          (/\ Is(pool, o.children[i].id, {"SoftKeyMask"})
           /\ Is(pool, o.children[j].id, {"SoftKeyMask"})) => i = j
DataMaskSets ==
    [BackgroundColour |-> Byte,
     SoftKeyMask |-> ReferenceOr({"SoftKeyMask"}, "InvalidAttributeID", "InvalidAttributeID")]
DataMaskReads == <<"BackgroundColour", "SoftKeyMask">>

AlarmMaskValid(pool, o) == ChildrenAmong(pool, o, MaskChildren \union {"SoftKeyMask"})
\* map::at throws when the new soft key mask has no entry in the tree at all.
AlarmMaskSets ==
    [BackgroundColour |-> Byte, Priority |-> AtMost(2), AcousticSignal |-> AtMost(3),
     SoftKeyMask |-> ReferenceOr({"SoftKeyMask"}, "throws", "AnyOtherError")]
AlarmMaskReads == <<"BackgroundColour", "SoftKeyMask", "Priority", "AcousticSignal">>

ContainerValid(pool, o) == ChildrenAmong(pool, o, MaskChildren \union {"Container"})
ContainerSets == <<>>
ContainerReads == <<"Width", "Height", "Hidden">>

SoftKeyMaskValid(pool, o) == ChildrenAmong(pool, o, Pointers \union {"Key", "Macro"})
SoftKeyMaskSets == [BackgroundColour |-> Byte]
SoftKeyMaskReads == <<"BackgroundColour">>

KeyValid(pool, o) ==
    ChildrenAmong(pool, o, Drawings \union OutputFields \union Pointers
                     \union {"WorkingSet", "Container", "GraphicsContext", "Animation", "Macro"})
KeySets == [BackgroundColour |-> Byte, KeyCode |-> Byte]
KeyReads == <<"BackgroundColour", "KeyCode">>

\* A name is a string, or points to one: the pointer's first child, not its value.
NamesAString(pool, id) ==
    \/ Is(pool, id, {"OutputString"})
    \/ /\ Is(pool, id, {"ObjectPointer"})
       /\ pool[id].children # <<>>
       /\ Is(pool, pool[id].children[1].id, {"OutputString"})

KeyGroupValid(pool, o) ==
    /\ NamesAString(pool, o.attr["Name"])
    /\ ChildrenAmong(pool, o, {"Key", "ObjectPointer", "Macro"})
    /\ \A i \in DOMAIN o.children :
          Is(pool, o.children[i].id, {"ObjectPointer"}) =>
             NullOr(pool, pool[o.children[i].id].attr["Value"], {"Key"})
\* validate_name looks the new name up with map::at.
KeyGroupSets == [Options |-> Byte, Name |-> [kind |-> "name"]]
KeyGroupReads == <<"Options", "Name">>

ButtonValid(pool, o) ==
    ChildrenAmong(pool, o, Drawings \union OutputFields
                     \union {"WorkingSet", "Container", "GraphicsContext", "ObjectPointer",
                             "Animation", "Macro"})
ButtonSets == [Width |-> Word, Height |-> Word, BackgroundColour |-> Byte,
               BorderColour |-> Byte, KeyCode |-> Byte, Options |-> Byte]
ButtonReads == <<"Width", "Height", "BackgroundColour", "BorderColour", "KeyCode", "Options">>

--------------------------------------------------------------------------------
\* Input fields

InputBooleanValid(pool, o) ==
    /\ NullOr(pool, o.attr["VariableReference"], Numbers)
    /\ NullOr(pool, o.attr["ForegroundColour"], {"FontAttributes"})
    /\ ChildrenAre(pool, o, {"Macro"})
InputBooleanSets ==
    [BackgroundColour |-> Byte, Width |-> Word, Value |-> Byte, Enabled |-> Flag,
     ForegroundColour |-> ReferenceOr({"FontAttributes"}, "InvalidValue", "AnyOtherError"),
     VariableReference |-> ReferenceOr(Numbers, "InvalidValue", "AnyOtherError")]
InputBooleanReads ==
    <<"BackgroundColour", "Width", "ForegroundColour", "VariableReference", "Value", "Enabled">>

InputStringValid(pool, o) ==
    /\ NullOr(pool, o.attr["VariableReference"], {"StringVariable"})
    /\ NullOr(pool, o.attr["InputAttributes"], {"InputAttributes"})
    /\ NullOr(pool, o.attr["FontAttributes"], {"FontAttributes"})
    /\ ChildrenAre(pool, o, {"Macro"})
InputStringSets ==
    [Width |-> Word, Height |-> Word, BackgroundColour |-> Byte,
     FontAttributes |-> Reference({"FontAttributes"}),
     InputAttributes |-> Reference({"InputAttributes"}), Options |-> Byte,
     VariableReference |-> Reference({"StringVariable"}), Justification |-> Byte,
     Enabled |-> Flag]
InputStringReads ==
    <<"Width", "Height", "BackgroundColour", "FontAttributes", "InputAttributes", "Options",
      "VariableReference", "Justification", "Enabled">>

InputNumberValid(pool, o) ==
    /\ NullOr(pool, o.attr["VariableReference"], Numbers)
    /\ NullOr(pool, o.attr["FontAttributes"], {"FontAttributes"})
    /\ ChildrenAre(pool, o, {"Macro"})
InputNumberSets ==
    [Width |-> Word, Height |-> Word, BackgroundColour |-> Byte,
     FontAttributes |-> Reference({"FontAttributes"}), Options |-> Byte,
     VariableReference |-> Reference(Numbers), MinValue |-> Long, MaxValue |-> Long,
     Offset |-> Long, Scale |-> Long, NumberOfDecimals |-> Byte, Format |-> Flag,
     Justification |-> Byte]
InputNumberReads ==
    <<"Width", "Height", "BackgroundColour", "FontAttributes", "Options", "VariableReference",
      "MinValue", "MaxValue", "Offset", "Scale", "NumberOfDecimals", "Format", "Justification",
      "Value", "Options2">>

ListItems ==
    Drawings \union OutputFields \union Pointers
       \union {"WorkingSet", "Container", "GraphicsContext", "ScaledGraphic"}

InputListValid(pool, o) ==
    /\ NullOr(pool, o.attr["VariableReference"], Numbers)
    /\ ChildrenAmong(pool, o, ListItems)
InputListSets == [Width |-> Word, Height |-> Word, VariableReference |-> Reference(Numbers),
                  Value |-> Byte, Options |-> Byte]
InputListReads == <<"Width", "Height", "VariableReference", "Value", "Options">>

--------------------------------------------------------------------------------
\* Output fields

OutputStringValid(pool, o) ==
    /\ NullOr(pool, o.attr["VariableReference"], {"StringVariable"})
    /\ NullOr(pool, o.attr["FontAttributes"], {"FontAttributes"})
    /\ ChildrenAre(pool, o, {"Macro"})
OutputStringSets ==
    [Width |-> Word, Height |-> Word, BackgroundColour |-> Byte,
     FontAttributes |-> Reference({"FontAttributes"}), Options |-> Byte,
     VariableReference |-> Reference({"StringVariable"}), Justification |-> Byte]
OutputStringReads ==
    <<"Width", "Height", "BackgroundColour", "FontAttributes", "Options", "VariableReference",
      "Justification">>

OutputNumberValid(pool, o) ==
    /\ NullOr(pool, o.attr["VariableReference"], Numbers)
    /\ NullOr(pool, o.attr["FontAttributes"], {"FontAttributes"})
    /\ ChildrenAre(pool, o, {"Macro"})
OutputNumberSets ==
    [Width |-> Word, Height |-> Word, BackgroundColour |-> Byte,
     FontAttributes |-> Reference({"FontAttributes"}), Options |-> Byte,
     VariableReference |-> Reference(Numbers), Offset |-> Long, Scale |-> Long,
     NumberOfDecimals |-> Byte, Format |-> Flag, Justification |-> Byte]
OutputNumberReads ==
    <<"Width", "Height", "BackgroundColour", "FontAttributes", "Options", "VariableReference",
      "Offset", "Scale", "NumberOfDecimals", "Format", "Justification">>

OutputListValid(pool, o) ==
    /\ NullOr(pool, o.attr["VariableReference"], Numbers)
    /\ ChildrenAmong(pool, o, ((MaskChildren \ {"OutputNumber", "OutputList", "GraphicsContext"})
                                  \union {"Container", "KeyGroup", "ScaledGraphic"}))
OutputListSets == [Width |-> Word, Height |-> Word, VariableReference |-> Reference(Numbers),
                   Value |-> Byte]
OutputListReads == <<"Width", "Height", "VariableReference", "Value">>

--------------------------------------------------------------------------------
\* Shapes

OutputLineValid(pool, o) ==
    NullOr(pool, o.attr["LineAttributes"], {"LineAttributes"}) /\ ChildrenAre(pool, o, {"Macro"})
OutputLineSets == [LineAttributes |-> Reference({"LineAttributes"}), Width |-> Word,
                   Height |-> Word, LineDirection |-> AtMost(1)]
OutputLineReads == <<"LineAttributes", "Width", "Height", "LineDirection">>

LinesAndFillValid(pool, o) ==
    /\ NullOr(pool, o.attr["LineAttributes"], {"LineAttributes"})
    /\ NullOr(pool, o.attr["FillAttributes"], {"FillAttributes"})
    /\ ChildrenAre(pool, o, {"Macro"})

OutputRectangleValid(pool, o) == LinesAndFillValid(pool, o)
OutputRectangleSets ==
    [LineAttributes |-> Reference({"LineAttributes"}), Width |-> Word, Height |-> Word,
     LineSuppression |-> Byte, FillAttributes |-> Reference({"FillAttributes"})]
OutputRectangleReads == <<"LineAttributes", "Width", "Height", "LineSuppression", "FillAttributes">>

OutputEllipseValid(pool, o) == LinesAndFillValid(pool, o)
OutputEllipseSets ==
    [LineAttributes |-> Reference({"LineAttributes"}), Width |-> Word, Height |-> Word,
     EllipseType |-> AtMost(3), StartAngle |-> Byte, EndAngle |-> Byte,
     FillAttributes |-> Reference({"FillAttributes"})]
OutputEllipseReads ==
    <<"LineAttributes", "Width", "Height", "EllipseType", "StartAngle", "EndAngle", "FillAttributes">>

OutputPolygonValid(pool, o) == LinesAndFillValid(pool, o)
OutputPolygonSets ==
    [Width |-> Word, Height |-> Word, LineAttributes |-> Reference({"LineAttributes"}),
     FillAttributes |-> Reference({"FillAttributes"}), PolygonType |-> AtMost(3)]
OutputPolygonReads == <<"Width", "Height", "LineAttributes", "FillAttributes", "PolygonType">>

OutputMeterValid(pool, o) ==
    NullOr(pool, o.attr["VariableReference"], Numbers) /\ ChildrenAre(pool, o, {"Macro"})
OutputMeterSets ==
    [Width |-> Word, NeedleColour |-> Byte, BorderColour |-> Byte, ArcAndTickColour |-> Byte,
     Options |-> Byte, NumberOfTicks |-> Byte, StartAngle |-> Byte, EndAngle |-> Byte,
     MinValue |-> Word, MaxValue |-> Word, VariableReference |-> Reference(Numbers), Value |-> Word]
OutputMeterReads ==
    <<"Width", "NeedleColour", "BorderColour", "ArcAndTickColour", "Options", "NumberOfTicks",
      "StartAngle", "EndAngle", "MinValue", "MaxValue", "VariableReference", "Value">>

BarGraphValid(pool, o) ==
    /\ NullOr(pool, o.attr["VariableReference"], Numbers)
    /\ NullOr(pool, o.attr["TargetValueVariableReference"], Numbers)
    /\ ChildrenAre(pool, o, {"Macro"})

OutputLinearBarGraphValid(pool, o) == BarGraphValid(pool, o)
OutputLinearBarGraphSets ==
    [Width |-> Word, Height |-> Word, Colour |-> Byte, TargetLineColour |-> Byte,
     Options |-> Byte, NumberOfTicks |-> Byte, MinValue |-> Word, MaxValue |-> Word,
     VariableReference |-> Reference(Numbers), TargetValueVariableReference |-> Word,
     TargetValue |-> Word, Value |-> Word]
OutputLinearBarGraphReads ==
    <<"Width", "Height", "Colour", "TargetLineColour", "Options", "NumberOfTicks", "MinValue",
      "MaxValue", "VariableReference", "TargetValueVariableReference", "TargetValue", "Value">>

OutputArchedBarGraphValid(pool, o) == BarGraphValid(pool, o)
OutputArchedBarGraphSets ==
    [Width |-> Word, Height |-> Word, Colour |-> Byte, TargetLineColour |-> Byte,
     Options |-> Byte, StartAngle |-> Byte, EndAngle |-> Byte, BarGraphWidth |-> Word,
     MinValue |-> Word, MaxValue |-> Word, VariableReference |-> Reference(Numbers),
     TargetValueVariableReference |-> Word, TargetValue |-> Word]
OutputArchedBarGraphReads ==
    <<"Width", "Height", "Colour", "TargetLineColour", "Options", "StartAngle", "EndAngle",
      "BarGraphWidth", "MinValue", "MaxValue", "VariableReference",
      "TargetValueVariableReference", "TargetValue">>
--------------------------------------------------------------------------------
\* Variables, graphics and attribute objects

AlwaysValid(pool, o) == TRUE
NothingSet == <<>>

PictureGraphicSets == [Width |-> Word, Options |-> Byte, TransparencyColour |-> Byte]
PictureGraphicReads ==
    <<"Width", "Options", "TransparencyColour", "ActualWidth", "ActualHeight", "Format">>

NumberVariableReads == <<"Value">>
StringVariableReads == <<>>

FontAttributesSets == [FontColour |-> Byte, FontSize |-> AtMost(14), FontType |-> Byte,
                       FontStyle |-> Byte]
FontAttributesReads == <<"FontColour", "FontSize", "FontType", "FontStyle">>

LineAttributesSets == [LineColour |-> Byte, LineWidth |-> Byte, LineArt |-> Word]
LineAttributesReads == <<"LineColour", "LineWidth", "LineArt">>

FillAttributesValid(pool, o) == NullOr(pool, o.attr["FillPattern"], {"PictureGraphic"})
FillAttributesSets == [FillType |-> AtMost(3), FillColour |-> Byte,
                       FillPattern |-> Reference({"PictureGraphic"})]
FillAttributesReads == <<"FillType", "FillColour", "FillPattern">>

InputAttributesReads == <<"ValidationType">>

ObjectPointerValid(pool, o) ==
    LET id == o.attr["Value"] IN id = NULL_OBJECT_ID \/ Exists(pool, id)
ObjectPointerReads == <<"Value">>

ExternalObjectPointerValid(pool, o) ==
    \A name \in {"DefaultObjectID", "ExternalReferenceNAMEID"} :
        o.attr[name] = NULL_OBJECT_ID \/ Exists(pool, o.attr[name])
ExternalObjectPointerSets ==
    [DefaultObjectID |-> [kind |-> "existing"], ExternalReferenceNAMEID |-> [kind |-> "existing"],
     ExternalObjectID |-> Word]
ExternalObjectPointerReads == <<"DefaultObjectID", "ExternalReferenceNAMEID", "ExternalObjectID">>

\* The commands a macro may hold (ALLOWED_COMMANDS_LOOKUP_TABLE).
MacroCommands ==
    {"HideShowObject", "EnableDisableObject", "SelectInputObject", "ControlAudioSignal",
     "SetAudioVolume", "ChangeChildLocation", "ChangeSize", "ChangeBackgroundColour",
     "ChangeNumericValue", "ChangeEndPoint", "ChangeFontAttributes", "ChangeLineAttributes",
     "ChangeFillAttributes", "ChangeActiveMask", "ChangeSoftKeyMask", "ChangeAttribute",
     "ChangePriority", "ChangeListItem", "ChangeStringValue", "ChangeChildPosition",
     "ChangeObjectLabel", "ChangePolygonPoint", "LockUnlockMask", "ExecuteMacro",
     "ChangePolygonScale", "GraphicsContextCommand", "SelectColourMap", "ExecuteExtendedMacro"}
MacroValid(pool, o) == \A i \in DOMAIN o.packets : o.packets[i].command \in MacroCommands

--------------------------------------------------------------------------------
\* Window masks and auxiliary controls

\* The children a window of a given type must have, one by one.
OutputWindows ==
    [Freeform |-> <<>>,
     NumericOutputValueWithUnits |-> <<"OutputNumber", "OutputString">>,
     NumericOutputValueNoUnits |-> <<"OutputNumber">>,
     StringOutputValue |-> <<"OutputString">>,
     HorizontalLinearBarGraphNoUnits |-> <<"OutputLinearBarGraph">>]
InputWindows ==
    [NumericInputValueWithUnits |-> <<"InputNumber", "OutputString">>,
     NumericInputValueNoUnits |-> <<"InputNumber">>,
     StringInputValue |-> <<"InputString">>,
     SingleButton |-> <<"Button">>,
     DoubleButton |-> <<"Button", "Button">>]

\* A window that is not free form needs a title, a name and an icon.
WindowMaskValid(pool, o) ==
    LET type == o.attr["WindowType"]
        needed == IF type \in DOMAIN InputWindows THEN InputWindows[type] ELSE OutputWindows[type] IN
    IF o.attr["WindowType"] = "Freeform" THEN o.attr["Title"] = NULL_OBJECT_ID
    ELSE /\ NamesAString(pool, o.attr["Title"])
         /\ NamesAString(pool, o.attr["Name"])
         /\ Is(pool, o.attr["Icon"],
               Drawings \union OutputFields
                  \union {"Container", "GraphicsContext", "ObjectPointer", "ScaledGraphic"})
         /\ Len(o.children) = Len(needed)
         /\ \A i \in DOMAIN needed : Is(pool, o.children[i].id, {needed[i]})
WindowMaskSets == [BackgroundColour |-> Byte, Options |-> Byte, Name |-> Word]
WindowMaskReads == <<"BackgroundColour", "Options", "Name">>

AuxiliaryOneValid(pool, o) ==
    ChildrenAre(pool, o, Lines \union {"OutputString", "OutputNumber", "PictureGraphic"})
AuxiliaryFunctionType1Valid(pool, o) == AuxiliaryOneValid(pool, o)
AuxiliaryInputType1Valid(pool, o) == AuxiliaryOneValid(pool, o)

AuxiliaryTwoValid(pool, o) ==
    ChildrenAre(pool, o, Drawings \union OutputFields \union {"ObjectPointer", "ScaledGraphic"})
AuxiliaryFunctionType2Valid(pool, o) == AuxiliaryTwoValid(pool, o)
AuxiliaryFunctionType2Sets == [BackgroundColour |-> Byte]
AuxiliaryFunctionType2Reads == <<"BackgroundColour", "FunctionAttributes">>
AuxiliaryInputType2Valid(pool, o) == AuxiliaryTwoValid(pool, o)
AuxiliaryInputType2Sets == [BackgroundColour |-> Byte, FunctionAttributes |-> Byte]
AuxiliaryInputType2Reads == <<"BackgroundColour", "FunctionAttributes">>

\* The null ID passes the first check and is then dereferenced: not valid either.
AuxiliaryControlDesignatorType2Valid(pool, o) ==
    /\ o.attr["PointerType"] <= 3
    /\ Is(pool, o.attr["AuxiliaryObjectID"], {"AuxiliaryFunctionType2", "AuxiliaryInputType2"})
AuxiliaryControlDesignatorType2Sets ==
    [AuxiliaryObjectID |-> Reference({"AuxiliaryFunctionType2", "AuxiliaryInputType2"})]
AuxiliaryControlDesignatorType2Reads == <<"PointerType", "AuxiliaryObjectID">>

--------------------------------------------------------------------------------
\* All types

Reads ==
    [WorkingSet |-> WorkingSetReads, DataMask |-> DataMaskReads, AlarmMask |-> AlarmMaskReads,
     Container |-> ContainerReads, SoftKeyMask |-> SoftKeyMaskReads, Key |-> KeyReads,
     KeyGroup |-> KeyGroupReads, Button |-> ButtonReads, InputBoolean |-> InputBooleanReads,
     InputString |-> InputStringReads, InputNumber |-> InputNumberReads,
     InputList |-> InputListReads, OutputString |-> OutputStringReads,
     OutputNumber |-> OutputNumberReads, OutputList |-> OutputListReads,
     OutputLine |-> OutputLineReads, OutputRectangle |-> OutputRectangleReads,
     OutputEllipse |-> OutputEllipseReads, OutputPolygon |-> OutputPolygonReads,
     OutputMeter |-> OutputMeterReads, OutputLinearBarGraph |-> OutputLinearBarGraphReads,
     OutputArchedBarGraph |-> OutputArchedBarGraphReads,
     PictureGraphic |-> PictureGraphicReads, NumberVariable |-> NumberVariableReads,
     StringVariable |-> StringVariableReads, FontAttributes |-> FontAttributesReads,
     LineAttributes |-> LineAttributesReads, FillAttributes |-> FillAttributesReads,
     InputAttributes |-> InputAttributesReads, ExtendedInputAttributes |-> <<>>,
     ObjectPointer |-> ObjectPointerReads,
     ExternalObjectPointer |-> ExternalObjectPointerReads, Macro |-> <<>>, ColourMap |-> <<>>,
     WindowMask |-> WindowMaskReads, AuxiliaryFunctionType1 |-> <<>>,
     AuxiliaryFunctionType2 |-> AuxiliaryFunctionType2Reads, AuxiliaryInputType1 |-> <<>>,
     AuxiliaryInputType2 |-> AuxiliaryInputType2Reads,
     AuxiliaryControlDesignatorType2 |-> AuxiliaryControlDesignatorType2Reads]

Sets ==
    [WorkingSet |-> WorkingSetSets, DataMask |-> DataMaskSets, AlarmMask |-> AlarmMaskSets,
     Container |-> ContainerSets, SoftKeyMask |-> SoftKeyMaskSets, Key |-> KeySets,
     KeyGroup |-> KeyGroupSets, Button |-> ButtonSets, InputBoolean |-> InputBooleanSets,
     InputString |-> InputStringSets, InputNumber |-> InputNumberSets,
     InputList |-> InputListSets, OutputString |-> OutputStringSets,
     OutputNumber |-> OutputNumberSets, OutputList |-> OutputListSets,
     OutputLine |-> OutputLineSets, OutputRectangle |-> OutputRectangleSets,
     OutputEllipse |-> OutputEllipseSets, OutputPolygon |-> OutputPolygonSets,
     OutputMeter |-> OutputMeterSets, OutputLinearBarGraph |-> OutputLinearBarGraphSets,
     OutputArchedBarGraph |-> OutputArchedBarGraphSets, PictureGraphic |-> PictureGraphicSets,
     NumberVariable |-> NothingSet, StringVariable |-> NothingSet,
     FontAttributes |-> FontAttributesSets, LineAttributes |-> LineAttributesSets,
     FillAttributes |-> FillAttributesSets, InputAttributes |-> NothingSet,
     ExtendedInputAttributes |-> NothingSet, ObjectPointer |-> NothingSet,
     ExternalObjectPointer |-> ExternalObjectPointerSets, Macro |-> NothingSet,
     ColourMap |-> NothingSet, WindowMask |-> WindowMaskSets,
     AuxiliaryFunctionType1 |-> NothingSet,
     AuxiliaryFunctionType2 |-> AuxiliaryFunctionType2Sets,
     AuxiliaryInputType1 |-> NothingSet, AuxiliaryInputType2 |-> AuxiliaryInputType2Sets,
     AuxiliaryControlDesignatorType2 |-> AuxiliaryControlDesignatorType2Sets]

Types == DOMAIN Reads

\* get_is_valid of the object's class.
Valid(pool, o) ==
    CASE o.type = "WorkingSet" -> WorkingSetValid(pool, o)
      [] o.type = "DataMask" -> DataMaskValid(pool, o)
      [] o.type = "AlarmMask" -> AlarmMaskValid(pool, o)
      [] o.type = "Container" -> ContainerValid(pool, o)
      [] o.type = "SoftKeyMask" -> SoftKeyMaskValid(pool, o)
      [] o.type = "Key" -> KeyValid(pool, o)
      [] o.type = "KeyGroup" -> KeyGroupValid(pool, o)
      [] o.type = "Button" -> ButtonValid(pool, o)
      [] o.type = "InputBoolean" -> InputBooleanValid(pool, o)
      [] o.type = "InputString" -> InputStringValid(pool, o)
      [] o.type = "InputNumber" -> InputNumberValid(pool, o)
      [] o.type = "InputList" -> InputListValid(pool, o)
      [] o.type = "OutputString" -> OutputStringValid(pool, o)
      [] o.type = "OutputNumber" -> OutputNumberValid(pool, o)
      [] o.type = "OutputList" -> OutputListValid(pool, o)
      [] o.type = "OutputLine" -> OutputLineValid(pool, o)
      [] o.type = "OutputRectangle" -> OutputRectangleValid(pool, o)
      [] o.type = "OutputEllipse" -> OutputEllipseValid(pool, o)
      [] o.type = "OutputPolygon" -> OutputPolygonValid(pool, o)
      [] o.type = "OutputMeter" -> OutputMeterValid(pool, o)
      [] o.type = "OutputLinearBarGraph" -> OutputLinearBarGraphValid(pool, o)
      [] o.type = "OutputArchedBarGraph" -> OutputArchedBarGraphValid(pool, o)
      [] o.type = "FillAttributes" -> FillAttributesValid(pool, o)
      [] o.type = "ObjectPointer" -> ObjectPointerValid(pool, o)
      [] o.type = "ExternalObjectPointer" -> ExternalObjectPointerValid(pool, o)
      [] o.type = "Macro" -> MacroValid(pool, o)
      [] o.type = "WindowMask" -> WindowMaskValid(pool, o)
      [] o.type = "AuxiliaryFunctionType1" -> AuxiliaryFunctionType1Valid(pool, o)
      [] o.type = "AuxiliaryFunctionType2" -> AuxiliaryFunctionType2Valid(pool, o)
      [] o.type = "AuxiliaryInputType1" -> AuxiliaryInputType1Valid(pool, o)
      [] o.type = "AuxiliaryInputType2" -> AuxiliaryInputType2Valid(pool, o)
      [] o.type = "AuxiliaryControlDesignatorType2" -> AuxiliaryControlDesignatorType2Valid(pool, o)
      [] OTHER -> AlwaysValid(pool, o)

(***************************************************************************)
(* set_attribute: the new value, or why it is refused.  "nulls" are the    *)
(* IDs a lookup left in the tree without an object.                        *)
(***************************************************************************)
Accepted(v) == [error |-> "none", value |-> v]
Refused(error) == [error |-> error, value |-> 0]

\* Mutant: the reference is stored without the cast to 16 bits.
SetReference_Uncast(pool, nulls, rule, raw) ==
    IF raw = NULL_OBJECT_ID \/ Is(pool, raw % 65536, rule.types) THEN Accepted(raw)
    ELSE Refused(rule.wrong)

\* Mutant: any object will do.
SetReference_AnyType(pool, nulls, rule, raw) ==
    LET id == raw % 65536 IN
    IF raw = NULL_OBJECT_ID \/ Exists(pool, id) THEN Accepted(id) ELSE Refused(rule.absent)

SetReference(pool, nulls, rule, raw) ==
    LET id == raw % 65536 IN
    IF raw = NULL_OBJECT_ID \/ Is(pool, id, rule.types) THEN Accepted(id)
    ELSE Refused(IF id \in nulls \union DOMAIN pool THEN rule.wrong ELSE rule.absent)

SetName(pool, nulls, raw) ==
    LET id == raw % 65536 IN
    IF id \notin nulls \union DOMAIN pool THEN Refused("throws")
    ELSE IF NamesAString(pool, id) THEN Accepted(id) ELSE Refused("InvalidValue")

SetExisting(pool, raw) ==
    LET id == raw % 65536 IN
    IF raw = NULL_OBJECT_ID \/ Exists(pool, id) THEN Accepted(id) ELSE Refused("InvalidValue")

SetAttribute(pool, nulls, o, name, raw) ==
    IF name \notin DOMAIN Sets[o.type] THEN Refused("InvalidAttributeID")
    ELSE LET rule == Sets[o.type][name] IN
         CASE rule.kind = "value" -> Accepted(raw % rule.size)
           [] rule.kind = "long" -> Accepted(raw)
           [] rule.kind = "flag" -> Accepted(IF raw = 0 THEN 0 ELSE 1)
           [] rule.kind = "enumeration" ->
                 IF raw <= rule.largest THEN Accepted(raw) ELSE Refused("AnyOtherError")
           [] rule.kind = "reference" -> SetReference(pool, nulls, rule, raw)
           [] rule.kind = "name" -> SetName(pool, nulls, raw)
           [] rule.kind = "existing" -> SetExisting(pool, raw)
=============================================================================
