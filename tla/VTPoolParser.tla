---------------------------- MODULE VTPoolParser ----------------------------
(***************************************************************************)
(* How the terminal parses a raw object pool into its object tree:         *)
(* parse_iop_into_objects takes object by object from the data as long as  *)
(* bytes remain.  The bytes themselves are abstracted to what they hold,   *)
(* a sequence of [id, object] records of which only the first "size" bytes *)
(* arrived; what is kept is the length of every part and which lengths are *)
(* compared with the bytes that remain before they are taken.              *)
(***************************************************************************)
EXTENDS VTObjects, FiniteSets, TLC, SequencesExt

CONSTANTS
    PoolNames,  \* the pools a client may send,
    Pool(_),    \* their objects in order,
    Sizes(_)    \* and how many bytes of them may arrive

VARIABLES
    pool,       \* the name of the pool that is parsed
    size,       \* iopLength, the bytes of it that arrived
    next,       \* the object that is parsed next
    left,       \* remainingLength
    outcome,    \* "parsing", "parsed", "failed", or what reading other bytes means
    tree,       \* vtObjectTree, the IDs with an object
    workingSetID

parserVars == <<pool, size, next, left, outcome, tree, workingSetID>>

objects == Pool(pool)

--------------------------------------------------------------------------------
\* The parts of an object in the raw data

\* A part whose length is compared with the bytes that remain, one that is not,
\* and a comparison alone.
Checked(n) == <<[bytes |-> n, needs |-> n]>>
Unchecked(n) == <<[bytes |-> n, needs |-> 0]>>
Needs(n) == <<[bytes |-> 0, needs |-> n]>>

\* The length check that opens every case, and the bytes it then consumes.
Header(least, bytes) == Needs(least) \o Unchecked(bytes)

\* Mutant: room is asked for as if every reference were an extended one.
MacroReferences_Extended(o) ==
    Needs(4 * Len(o.macros))
       \o FlattenSeq([i \in DOMAIN o.macros |-> Checked(IF o.macros[i].extended THEN 4 ELSE 2)])

\* parse_object_macro_reference: the count times two, then every reference.
MacroReferences(o) ==
    Needs(2 * Len(o.macros))
       \o FlattenSeq([i \in DOMAIN o.macros |-> Checked(IF o.macros[i].extended THEN 4 ELSE 2)])

MacroCountAndReferences(o) == Unchecked(1) \o MacroReferences(o)
Positioned(o) == Checked(6 * Len(o.children))
\* Mutant: the length of the list is not compared with what remains.
Listed_Unchecked(o) == Unchecked(2 * Len(o.children))
Listed(o) == Checked(2 * Len(o.children))
\* The product is kept in a byte before it is compared.
PositionedByte(o) == Needs((6 * Len(o.children)) % 256) \o Unchecked(6 * Len(o.children))

WorkingSetParts(o) ==
    Header(16, 10) \o Positioned(o) \o MacroReferences(o) \o Checked(2 * o.attr["Languages"])
DataMaskParts(o) == Header(12, 8) \o Positioned(o) \o MacroReferences(o)
AlarmMaskParts(o) == Header(10, 10) \o Positioned(o) \o MacroReferences(o)
ContainerParts(o) == Header(9, 10) \o Positioned(o) \o MacroReferences(o)
WindowMaskParts(o) ==
    Header(17, 17) \o Checked(2 * o.attr["References"])
       \o Checked(6 * (Len(o.children) - o.attr["References"])) \o MacroReferences(o)
SoftKeyMaskParts(o) == Header(6, 6) \o Listed(o) \o MacroReferences(o)
KeyParts(o) == Header(7, 7) \o Positioned(o) \o MacroReferences(o)
ButtonParts(o) == Header(13, 13) \o Positioned(o) \o MacroReferences(o)
KeyGroupParts(o) == Header(10, 9) \o Listed(o) \o MacroCountAndReferences(o)

InputBooleanParts(o) == Header(13, 13) \o MacroReferences(o)
\* After the 17 bytes more than the text and two bytes must remain.
InputStringParts(o) ==
    Header(19, 17) \o Needs(o.attr["Text"] + 3) \o Unchecked(o.attr["Text"] + 1)
       \o MacroCountAndReferences(o)
InputNumberParts(o) == Header(38, 38) \o MacroReferences(o)
InputListParts(o) == Header(13, 13) \o Listed(o) \o MacroReferences(o)
OutputStringParts(o) ==
    Header(16, 16) \o Checked(o.attr["Text"]) \o MacroCountAndReferences(o)
OutputNumberParts(o) == Header(29, 29) \o MacroReferences(o)
OutputListParts(o) == Header(12, 12) \o Listed(o) \o MacroReferences(o)
OutputLineParts(o) == Header(11, 10) \o MacroCountAndReferences(o)
OutputRectangleParts(o) == Header(13, 12) \o MacroCountAndReferences(o)
OutputEllipseParts(o) == Header(15, 14) \o MacroCountAndReferences(o)
OutputPolygonParts(o) == Header(14, 14) \o Checked(4 * Len(o.points)) \o MacroReferences(o)
OutputMeterParts(o) == Header(21, 21) \o MacroReferences(o)
OutputLinearBarGraphParts(o) == Header(24, 24) \o MacroReferences(o)
OutputArchedBarGraphParts(o) == Header(27, 27) \o MacroReferences(o)

PictureGraphicParts(o) ==
    Header(17, 17)
       \o (IF o.attr["RunLengthEncoded"] = 1 THEN Unchecked(o.attr["PixelBytes"])
           ELSE Checked(o.attr["PixelBytes"]))
       \o MacroReferences(o)
NumberVariableParts(o) == Header(7, 7)
StringVariableParts(o) == Header(5, 5) \o Checked(o.attr["Text"])
FontAttributesParts(o) == Header(8, 8) \o MacroReferences(o)
LineAttributesParts(o) == Header(8, 8) \o MacroReferences(o)
FillAttributesParts(o) == Header(8, 8) \o MacroReferences(o)
InputAttributesParts(o) ==
    Header(7, 5) \o Checked(o.attr["Text"]) \o MacroCountAndReferences(o)
ColourMapParts(o) == Header(5, 5) \o Unchecked(o.attr["Indexes"])
ObjectPointerParts(o) == Header(5, 5)

PacketLength(p) == CASE p.command = "ChangeChildPosition" -> 9
                     [] p.command = "ChangeStringValue" -> 5 + p.length
                     [] OTHER -> 8
MacroBytes(o) == FoldLeft(LAMBDA n, p : n + PacketLength(p), 0, o.packets)
MacroParts(o) == Header(5, 5) \o Needs(MacroBytes(o)) \o Unchecked(MacroBytes(o))

AuxiliaryFunctionType1Parts(o) == Header(6, 6) \o PositionedByte(o)
AuxiliaryInputType1Parts(o) == Header(7, 7) \o PositionedByte(o)
AuxiliaryFunctionType2Parts(o) == Header(6, 6) \o PositionedByte(o)
AuxiliaryInputType2Parts(o) == Header(6, 6) \o PositionedByte(o)
AuxiliaryControlDesignatorType2Parts(o) == Header(6, 6)

Parts(o) ==
    CASE o.type = "WorkingSet" -> WorkingSetParts(o)
      [] o.type = "DataMask" -> DataMaskParts(o)
      [] o.type = "AlarmMask" -> AlarmMaskParts(o)
      [] o.type = "Container" -> ContainerParts(o)
      [] o.type = "WindowMask" -> WindowMaskParts(o)
      [] o.type = "SoftKeyMask" -> SoftKeyMaskParts(o)
      [] o.type = "Key" -> KeyParts(o)
      [] o.type = "Button" -> ButtonParts(o)
      [] o.type = "KeyGroup" -> KeyGroupParts(o)
      [] o.type = "InputBoolean" -> InputBooleanParts(o)
      [] o.type = "InputString" -> InputStringParts(o)
      [] o.type = "InputNumber" -> InputNumberParts(o)
      [] o.type = "InputList" -> InputListParts(o)
      [] o.type = "OutputString" -> OutputStringParts(o)
      [] o.type = "OutputNumber" -> OutputNumberParts(o)
      [] o.type = "OutputList" -> OutputListParts(o)
      [] o.type = "OutputLine" -> OutputLineParts(o)
      [] o.type = "OutputRectangle" -> OutputRectangleParts(o)
      [] o.type = "OutputEllipse" -> OutputEllipseParts(o)
      [] o.type = "OutputPolygon" -> OutputPolygonParts(o)
      [] o.type = "OutputMeter" -> OutputMeterParts(o)
      [] o.type = "OutputLinearBarGraph" -> OutputLinearBarGraphParts(o)
      [] o.type = "OutputArchedBarGraph" -> OutputArchedBarGraphParts(o)
      [] o.type = "PictureGraphic" -> PictureGraphicParts(o)
      [] o.type = "NumberVariable" -> NumberVariableParts(o)
      [] o.type = "StringVariable" -> StringVariableParts(o)
      [] o.type = "FontAttributes" -> FontAttributesParts(o)
      [] o.type = "LineAttributes" -> LineAttributesParts(o)
      [] o.type = "FillAttributes" -> FillAttributesParts(o)
      [] o.type = "InputAttributes" -> InputAttributesParts(o)
      [] o.type = "ColourMap" -> ColourMapParts(o)
      [] o.type = "ObjectPointer" -> ObjectPointerParts(o)
      [] o.type = "Macro" -> MacroParts(o)
      [] o.type = "AuxiliaryFunctionType1" -> AuxiliaryFunctionType1Parts(o)
      [] o.type = "AuxiliaryInputType1" -> AuxiliaryInputType1Parts(o)
      [] o.type = "AuxiliaryFunctionType2" -> AuxiliaryFunctionType2Parts(o)
      [] o.type = "AuxiliaryInputType2" -> AuxiliaryInputType2Parts(o)
      [] o.type = "AuxiliaryControlDesignatorType2" -> AuxiliaryControlDesignatorType2Parts(o)
      [] OTHER -> <<>>

\* The types parse_next_object has no code for, or whose case never succeeds.
Unsupported ==
    {"GraphicsContext", "Animation", "ObjectLabelReferenceList", "ExternalObjectDefinition",
     "ExternalReferenceNAME", "ExternalObjectPointer", "ExtendedInputAttributes"}

\* The enumerations and counts an object is refused for.
FieldsAccepted(o) ==
    CASE o.type = "AlarmMask" -> o.attr["Priority"] <= 2 /\ o.attr["AcousticSignal"] <= 3
      [] o.type = "KeyGroup" -> Len(o.children) <= 4
      [] o.type = "OutputLine" -> o.attr["LineDirection"] <= 1
      [] o.type = "OutputEllipse" -> o.attr["EllipseType"] <= 3
      [] o.type = "OutputPolygon" -> o.attr["PolygonType"] <= 3
      [] o.type = "PictureGraphic" -> o.attr["Format"] <= 2
      [] o.type = "FontAttributes" -> o.attr["FontType"] <= 7 /\ o.attr["FontType"] \notin {3, 6}
      [] o.type = "FillAttributes" -> o.attr["FillType"] <= 3
      [] o.type = "ColourMap" -> o.attr["Indexes"] \in {2, 16, 256}
      [] o.type = "AuxiliaryFunctionType1" -> o.attr["FunctionType"] <= 2
      [] o.type = "AuxiliaryInputType1" -> o.attr["FunctionType"] <= 2
      [] o.type = "AuxiliaryControlDesignatorType2" -> o.attr["PointerType"] <= 3
      [] o.type = "Macro" -> MacroValid(tree, o)
      [] OTHER -> TRUE

(***************************************************************************)
(* Taking the parts one after the other.  A part that is not compared with *)
(* the bytes that remain and exceeds them makes the unsigned length wrap:  *)
(* the parser then reads beyond the data ("overrun").                      *)
(***************************************************************************)
Take(parts, bytes) ==
    LET from[i \in Nat, b \in Nat] ==
          IF i > Len(parts) THEN [result |-> "ok", left |-> b]
          ELSE IF b < parts[i].needs THEN [result |-> "failed", left |-> b]
          ELSE IF b < parts[i].bytes THEN [result |-> "overrun", left |-> b]
          ELSE from[i + 1, b - parts[i].bytes]
    IN from[1, bytes]

\* Without its pixels a picture is kept all the same and they are taken for
\* macro references or for the next object; with them, broken macro references
\* are forgiven.
TakePicture(o, bytes) ==
    LET header == Take(Header(17, 17), bytes)
        all == Take(Parts(o), bytes)
        withoutMacros == Take(Parts([o EXCEPT !.macros = <<>>]), bytes) IN
    IF header.result # "ok" THEN header
    ELSE IF o.attr["RunLengthEncoded"] = 0 /\ header.left < o.attr["PixelBytes"]
      THEN IF o.macros = <<>> /\ header.left = 0 THEN header
           ELSE [header EXCEPT !.result = IF header.left = 0 THEN "failed" ELSE "misread"]
    ELSE IF all.result = "failed" THEN [all EXCEPT !.result = "ok"]
    ELSE all

TakeObject(o, bytes) ==
    IF bytes <= 3 \/ o.type \in Unsupported THEN [result |-> "failed", left |-> bytes]
    ELSE IF o.type = "PictureGraphic" /\ FieldsAccepted(o) THEN TakePicture(o, bytes)
    ELSE LET taken == Take(Parts(o), bytes) IN
         IF taken.result = "ok" /\ ~FieldsAccepted(o) THEN [taken EXCEPT !.result = "failed"]
         ELSE taken

\* The bytes an object takes when all of them are there.
EncodedBytes(o) == FoldLeft(LAMBDA n, p : n + p.bytes, 0, Parts(o))
PoolBytes(entries) == FoldLeft(LAMBDA n, e : n + EncodedBytes(e.object), 0, entries)

\* What the object tree receives: two types derive their height.
Decoded(o) ==
    IF o.type \in {"InputBoolean", "OutputMeter"} THEN [o EXCEPT !.attr["Height"] = o.attr["Width"]]
    ELSE o

--------------------------------------------------------------------------------
ParserInit ==
    /\ pool \in PoolNames
    /\ size \in Sizes(pool)
    /\ next = 1
    /\ left = size
    /\ outcome = IF size = 0 THEN "failed" ELSE "parsing"
    /\ tree = <<>>
    /\ workingSetID = NULL_OBJECT_ID

\* A pool has one working set object; the same one may come again.
SecondWorkingSet(e) ==
    e.object.type = "WorkingSet" /\ workingSetID \notin {NULL_OBJECT_ID, e.id}

ParseNext ==
    /\ outcome = "parsing"
    /\ left > 0 /\ next <= Len(objects)
    /\ \E e \in {objects[next]} : \E taken \in {TakeObject(e.object, left)} :
       /\ workingSetID' = IF e.object.type = "WorkingSet" /\ ~SecondWorkingSet(e) /\ left > 3
                          THEN e.id ELSE workingSetID
       /\ IF taken.result = "ok" /\ ~SecondWorkingSet(e)
          THEN /\ tree' = (e.id :> Decoded(e.object)) @@ tree
               /\ left' = taken.left
               /\ next' = next + 1
               /\ outcome' = outcome
          ELSE /\ outcome' = IF SecondWorkingSet(e) THEN "failed" ELSE taken.result
               /\ UNCHANGED <<tree, left, next>>
    /\ UNCHANGED <<pool, size>>

ParseEnd ==
    /\ outcome = "parsing"
    /\ left = 0
    /\ outcome' = "parsed"
    /\ UNCHANGED <<pool, size, next, left, tree, workingSetID>>

ParserNext == ParseNext \/ ParseEnd

--------------------------------------------------------------------------------
\* Properties

\* How many bytes must remain for an object to be taken, where that may be more than
\* it has: two headers are asked for with the length of an object that has a child,
\* an input string with one macro, input attributes with one character more.
AskedFor(o) ==
    CASE o.type = "WorkingSet" -> 16
      [] o.type = "DataMask" -> 12
      [] o.type = "InputString" -> 20 + o.attr["Text"]
      [] o.type = "InputAttributes" -> 7
      [] OTHER -> 0

\* Of a cut object: how many bytes it may have left when the parser reads on beyond
\* them, into a count, a list or pixels whose length nothing compares. The length of
\* a list of positions is kept in a byte.
ReadBeyond(o) ==
    LET all == EncodedBytes(o) IN
    CASE o.type = "Container" -> {9}
      [] o.type = "KeyGroup" -> {9 + 2 * Len(o.children)} \ {9}
      [] o.type = "OutputString" -> {16 + o.attr["Text"]}
      [] o.type = "InputAttributes" -> {5 + o.attr["Text"]} \ {5, 6}
      [] o.type = "ColourMap" -> 5..(all - 1)
      [] o.type = "PictureGraphic" ->
            IF o.macros = <<>> \/ o.attr["RunLengthEncoded"] = 1 THEN 17..(all - 1) ELSE 18..(all - 1)
      [] o.type \in {"AuxiliaryFunctionType1", "AuxiliaryFunctionType2", "AuxiliaryInputType1",
                     "AuxiliaryInputType2"} ->
            (all - 6 * Len(o.children) + ((6 * Len(o.children)) % 256))..(all - 1)
      [] OTHER -> {}

Parseable(e) == e.object.type \notin Unsupported /\ FieldsAccepted(e.object)

ParsingEnds == outcome = "parsing" /\ outcome' # "parsing"

\* Where the object with a number begins.
Begin(i) == PoolBytes(SubSeq(objects, 1, i - 1))

\* A pool that arrived whole, with one working set, is parsed to its end, and the tree
\* then holds each of its objects; but one whose last bytes are fewer than the code
\* asks for (AskedFor) from an object on is refused, although it is valid.
WholeIsParsed ==
    /\ ParsingEnds
    /\ size = PoolBytes(objects)
    /\ \A i \in DOMAIN objects : Parseable(objects[i])
    => IF \A i \in DOMAIN objects : size - Begin(i) >= AskedFor(objects[i].object)
       THEN outcome' = "parsed" /\ DOMAIN tree = {objects[i].id : i \in DOMAIN objects}
       ELSE outcome' = "failed"

\* A pool that was cut off inside an object is refused and no byte beyond its end is
\* read, but where the cut leaves as many bytes of the object as ReadBeyond says: the
\* parser then reads behind the data, or keeps a picture without its pixels or macros.
CutIsRefused ==
    ParsingEnds => \A i \in DOMAIN objects :
        size > Begin(i) /\ size < Begin(i + 1) =>
            IF size - Begin(i) \notin ReadBeyond(objects[i].object) THEN outcome' = "failed"
            ELSE \/ outcome' = "overrun"
                 \/ objects[i].object.type = "PictureGraphic" /\ outcome' \in {"parsed", "misread"}
=============================================================================
