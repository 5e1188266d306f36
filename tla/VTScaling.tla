------------------------------ MODULE VTScaling ------------------------------
\* The client scales its object pools to the terminal's screen before it uploads
\* them: a walk over the raw data that resizes object by object and goes on by
\* the length the client works out for each, which is not the length the
\* terminal's parser works out. Source: isobus_virtual_terminal_client.cpp.
EXTENDS VTPoolParser

CONSTANT ScalingRequests    \* see ScalingInit

VARIABLES
    request,    \* pools: their names, original mask size and key height; the
                \* terminal: pixels, keyPixels and the fonts it has
    walk        \* which pool, its next object, the byte reached, what came out

scalingVars == <<request, walk>>

Entries(w) == Pool(request.pools[w].name)

-----------------------------------------------------------------------------
\* Lengths

Fixed ==
    [WorkingSet |-> 10, OutputList |-> 12, ExternalReferenceNAME |-> 12,
     ObjectLabelReferenceList |-> 12, AlarmMask |-> 10, Container |-> 10, KeyGroup |-> 10,
     ExternalObjectPointer |-> 9, SoftKeyMask |-> 6, ColourMap |-> 6, Key |-> 7,
     NumberVariable |-> 7, InputAttributes |-> 7, Button |-> 13, InputBoolean |-> 13,
     OutputRectangle |-> 13, InputList |-> 13, ExternalObjectDefinition |-> 13,
     InputString |-> 19, InputNumber |-> 38, OutputString |-> 17, OutputNumber |-> 29,
     OutputLine |-> 11, OutputEllipse |-> 15, OutputPolygon |-> 14, OutputMeter |-> 21,
     OutputLinearBarGraph |-> 24, OutputArchedBarGraph |-> 27, PictureGraphic |-> 17,
     Animation |-> 17, WindowMask |-> 17, StringVariable |-> 5, ExtendedInputAttributes |-> 5,
     ObjectPointer |-> 5, Macro |-> 5, FontAttributes |-> 8, LineAttributes |-> 8,
     FillAttributes |-> 8, DataMask |-> 8, GraphicsContext |-> 34, AuxiliaryFunctionType1 |-> 6,
     AuxiliaryFunctionType2 |-> 6, AuxiliaryInputType2 |-> 6, AuxiliaryInputType1 |-> 7]

get_minimum_object_length(type) == IF type \in DOMAIN Fixed THEN Fixed[type] ELSE 0

Placing == {"WorkingSet", "DataMask", "AlarmMask", "Container", "Key", "Button",
            "AuxiliaryFunctionType1", "AuxiliaryFunctionType2", "AuxiliaryInputType1"}
Listing == {"SoftKeyMask", "InputList", "OutputList", "KeyGroup"}

\* The children, two bytes of ID each, with a position where the type places them.
\* The second auxiliary input type reads the byte after its number of children, the
\* ID of the first; without children the next object's, taken for zero here.
ChildBytes(o) ==
    CASE o.type \in Placing -> 6 * Len(o.children)
      [] o.type \in Listing -> 2 * Len(o.children)
      [] o.type = "WindowMask" -> 2 * o.attr["References"]
                                    + 6 * (Len(o.children) - o.attr["References"])
      [] o.type = "AuxiliaryInputType2" ->
            6 * (IF o.children = <<>> THEN 0 ELSE o.children[1].id % 256)
      [] OTHER -> 0

\* Texts, points, pixels, colours and commands.
DataBytes(o) ==
    CASE o.type \in {"InputString", "OutputString", "StringVariable", "InputAttributes"} -> o.attr["Text"]
      [] o.type = "WorkingSet" -> 2 * o.attr["Languages"]
      [] o.type = "OutputPolygon" -> 4 * Len(o.points)
      [] o.type = "PictureGraphic" -> o.attr["PixelBytes"]
      [] o.type = "ColourMap" -> o.attr["Indexes"]
      [] o.type = "Macro" -> MacroBytes(o)
      [] OTHER -> 0

\* Mutant: the commands of a macro are counted one byte short.
get_number_bytes_in_object_ShortMacro(o) ==
    get_minimum_object_length(o.type) + ChildBytes(o) + DataBytes(o) + 2 * Len(o.macros)
       - (IF o.type = "Macro" THEN 1 ELSE 0)

\* Every macro is taken for two bytes.
get_number_bytes_in_object(o) ==
    get_minimum_object_length(o.type) + ChildBytes(o) + DataBytes(o) + 2 * Len(o.macros)

-----------------------------------------------------------------------------
\* Fonts, from 6x8 to 128x192.

Fonts == 0..14

\* From which factor on (in hundredths, 12.5 taken for 12) which font is used.
FontTable ==
    <<<<<<2395, 14>>, <<2130, 13>>, <<1595, 12>>, <<1195, 11>>, <<1060, 10>>, <<795, 9>>,
        <<595, 8>>, <<530, 7>>, <<395, 6>>, <<295, 5>>, <<260, 4>>, <<195, 3>>, <<145, 2>>, <<130, 1>>>>,
      <<<<2395, 14>>, <<1595, 13>>, <<1195, 11>>, <<795, 10>>, <<595, 8>>, <<395, 7>>,
        <<295, 5>>, <<195, 4>>, <<145, 2>>, <<0, 0>>>>,
      <<<<1595, 14>>, <<1195, 12>>, <<795, 11>>, <<595, 9>>, <<395, 8>>, <<295, 6>>, <<195, 5>>,
        <<145, 3>>, <<0, 0>>>>,
      <<<<1195, 14>>, <<1060, 13>>, <<795, 12>>, <<595, 11>>, <<530, 10>>, <<395, 9>>, <<295, 8>>,
        <<260, 7>>, <<195, 6>>, <<145, 5>>, <<130, 4>>, <<75, 2>>, <<67, 1>>, <<0, 0>>>>,
      <<<<1195, 14>>, <<795, 13>>, <<595, 11>>, <<395, 10>>, <<295, 8>>, <<195, 7>>, <<145, 5>>,
        <<75, 2>>, <<50, 1>>, <<0, 0>>>>,
      <<<<795, 13>>, <<595, 12>>, <<395, 11>>, <<295, 9>>, <<195, 8>>, <<145, 6>>, <<75, 3>>,
        <<50, 2>>, <<0, 0>>>>,
      <<<<595, 14>>, <<530, 13>>, <<395, 12>>, <<295, 11>>, <<260, 10>>, <<195, 9>>, <<145, 8>>,
        <<130, 7>>, <<75, 5>>, <<60, 4>>, <<50, 3>>, <<37, 2>>, <<30, 1>>, <<0, 0>>>>,
      <<<<595, 14>>, <<395, 13>>, <<295, 11>>, <<195, 10>>, <<145, 8>>, <<75, 5>>, <<50, 4>>,
        <<37, 2>>, <<20, 1>>, <<0, 0>>>>,
      <<<<395, 14>>, <<295, 12>>, <<195, 11>>, <<145, 9>>, <<75, 6>>, <<50, 5>>, <<37, 3>>,
        <<20, 2>>, <<0, 0>>>>,
      <<<<295, 14>>, <<260, 13>>, <<195, 12>>, <<145, 11>>, <<130, 10>>, <<75, 8>>, <<60, 7>>,
        <<50, 6>>, <<37, 5>>, <<33, 4>>, <<25, 3>>, <<18, 2>>, <<16, 1>>, <<0, 0>>>>,
      <<<<295, 14>>, <<195, 13>>, <<145, 11>>, <<75, 8>>, <<50, 7>>, <<37, 5>>, <<25, 4>>,
        <<18, 2>>, <<12, 1>>, <<0, 0>>>>,
      <<<<195, 14>>, <<145, 12>>, <<75, 9>>, <<50, 8>>, <<37, 6>>, <<25, 5>>, <<18, 3>>, <<12, 2>>,
        <<0, 0>>>>,
      <<<<145, 14>>, <<130, 13>>, <<75, 11>>, <<60, 10>>, <<50, 9>>, <<37, 8>>, <<33, 7>>, <<25, 6>>,
        <<18, 5>>, <<16, 4>>, <<12, 3>>, <<9, 2>>, <<8, 1>>, <<0, 0>>>>,
      <<<<145, 14>>, <<75, 11>>, <<50, 10>>, <<37, 8>>, <<25, 7>>, <<18, 5>>, <<12, 4>>, <<9, 2>>,
        <<6, 1>>, <<0, 0>>>>,
      <<<<75, 12>>, <<50, 11>>, <<37, 9>>, <<25, 8>>, <<18, 6>>, <<12, 5>>, <<9, 3>>, <<6, 2>>, <<0, 0>>>>>>

\* A factor is a fraction. Near one the font stays.
remap_font_to_scale(font, f) ==
    IF 20 * f.num <= 21 * f.den /\ 20 * f.num >= 19 * f.den THEN font
    ELSE LET row == FontTable[font + 1]
             first == SelectInSeq(row, LAMBDA r : 100 * f.num >= r[1] * f.den)
         IN IF first = 0 THEN font ELSE row[first][2]

\* Mutant: a font the terminal does not have is kept.
NextFonts_Unsupported(font) == {font}

\* get_font_or_next_smallest_font: the loop tries the font below again and again;
\* it ends only when that one is there or is the smallest. None: it never ends.
NextFonts(font) ==
    IF font \in request.fonts \/ font = 0 THEN {font}
    ELSE IF font - 1 \in request.fonts \/ font - 1 = 0 THEN {font - 1} ELSE {}

-----------------------------------------------------------------------------
\* Sizes and positions. Floats are cut off; a value beyond 16 bits wraps here.

Scaled(v, f) == ((v * f.num) \div f.den) % 65536

\* A position is read without its sign, so that one left of its parent goes astray.
Position(v, f) ==
    LET s == Scaled(v % 65536, f) IN IF s >= 32768 THEN s - 65536 ELSE s

ScalesBoth ==
    {"Container", "Button", "InputString", "InputNumber", "InputList", "OutputString",
     "OutputNumber", "OutputList", "OutputLinearBarGraph", "OutputLine", "OutputRectangle",
     "OutputEllipse", "OutputPolygon", "OutputArchedBarGraph"}
ScalesWidth == {"OutputMeter", "PictureGraphic"}
MovesChildren ==
    {"DataMask", "AlarmMask", "Container", "Button", "Key", "AuxiliaryFunctionType1",
     "AuxiliaryFunctionType2", "AuxiliaryInputType1", "AuxiliaryInputType2"}

ScaledNames(type) ==
    CASE type = "OutputArchedBarGraph" -> {"Width", "Height", "BarGraphWidth"}
      [] type \in ScalesBoth -> {"Width", "Height"}
      [] type \in ScalesWidth -> {"Width"}
      [] OTHER -> {}

\* Mutant: a container keeps its children where they are.
resize_object_KeepsPositions(o, f, font) ==
    [o EXCEPT
        !.attr = [n \in DOMAIN @ |-> IF n \in ScaledNames(o.type) THEN Scaled(@[n], f)
                                     ELSE IF n = "FontSize" THEN font ELSE @[n]]]

\* The width of an InputBoolean is written back as it was.
resize_object(o, f, font) ==
    [o EXCEPT
        !.attr = [n \in DOMAIN @ |-> IF n \in ScaledNames(o.type) THEN Scaled(@[n], f)
                                     ELSE IF n = "FontSize" THEN font ELSE @[n]],
        !.children = IF o.type \notin MovesChildren THEN @
                     ELSE [i \in DOMAIN @ |-> [@[i] EXCEPT !.x = Position(@, f), !.y = Position(@, f)]],
        !.points = [i \in DOMAIN @ |-> <<Scaled(@[i][1], f), Scaled(@[i][2], f)>>]]

-----------------------------------------------------------------------------
StartWalk(w) == [which |-> w, next |-> 1, at |-> 0, outcome |-> "scaling", scaled |-> <<>>]

\* get_any_pool_needs_scaling, when the upload begins.
get_any_pool_needs_scaling ==
    \E w \in DOMAIN request.pools : request.pools[w].mask # 0 /\ request.pools[w].key # 0

ScalingInit ==
    /\ request \in ScalingRequests
    /\ walk = [StartWalk(1) EXCEPT !.outcome =
                  IF get_any_pool_needs_scaling THEN "scaling" ELSE "not needed"]

Factor(o) ==
    LET p == request.pools[walk.which] IN
    IF o.type = "Key" THEN [num |-> request.keyPixels, den |-> p.key]
    ELSE [num |-> request.pixels, den |-> p.mask]

\* A pool that nobody wanted to have scaled is divided by zero.
Undefined(o) == o.type \in ScalesBoth \union ScalesWidth \union MovesChildren \union {"FontAttributes"}
                /\ Factor(o).den = 0

\* One object; the types the parser has no code for have no other length to be
\* compared with. An animation is scaled only by the code that is never reached.
ScaleObject ==
    /\ walk.outcome = "scaling" /\ walk.next <= Len(Entries(walk.which))
    /\ \E o \in {Entries(walk.which)[walk.next].object} :
       IF Undefined(o) THEN walk' = [walk EXCEPT !.outcome = "undefined"]
       ELSE \E bytes \in {get_number_bytes_in_object(o)} :
            LET fonts == IF o.type = "FontAttributes"
                         THEN NextFonts(remap_font_to_scale(o.attr["FontSize"], Factor(o))) ELSE {0}
            IN \/ \E font \in fonts :
                     walk' = [walk EXCEPT
                        !.scaled = Append(@, resize_object(o, Factor(o), font)),
                        !.at = @ + bytes, !.next = @ + 1,
                        !.outcome = IF bytes = 0 THEN "no length"
                                    ELSE IF bytes # EncodedBytes(o) /\ o.type \notin Unsupported
                                      THEN "astray"
                                    ELSE @]
               \/ fonts = {} /\ walk' = [walk EXCEPT !.outcome = "no font"]
    /\ UNCHANGED request

\* The iterator reached the end of the pool: the next one follows.
NextPool ==
    /\ walk.outcome = "scaling" /\ walk.next > Len(Entries(walk.which))
    /\ walk' = IF walk.which < Len(request.pools) THEN StartWalk(walk.which + 1)
               ELSE [walk EXCEPT !.outcome = "scaled"]
    /\ UNCHANGED request

ScalingNext == ScaleObject \/ NextPool

ScalingSpec == ScalingInit /\ [][ScalingNext]_scalingVars

-----------------------------------------------------------------------------
\* The types whose length the client gets wrong, or no length at all; and
\* references to macros of two bytes' ID.
WrongLength(o) ==
    \/ o.type \in {"AuxiliaryInputType2", "AuxiliaryControlDesignatorType2", "ColourMap",
                   "InputAttributes"}
    \/ \E i \in DOMAIN o.macros : o.macros[i].extended

\* The walk goes from the beginning of every object to that of the next, and so to
\* the end of the pool: what the client takes for an object's length is what the
\* terminal's parser will take for it, and no other bytes are scaled. Where the code
\* does not do so, this says why: the object just met has a wrong length (the walk
\* goes on within another object) or none (it stays there for ever); the terminal
\* lacks the font wanted and the one below it, so that the search for a smaller one
\* never ends; or nobody asked for this pool to be scaled and its size of zero is divided by.
WalkMeetsObjects ==
    /\ walk.outcome \in {"astray", "no length"} =>
          WrongLength(Entries(walk.which)[walk.next - 1].object)
    /\ walk.outcome = "no font" =>
          LET o == Entries(walk.which)[walk.next].object
              font == remap_font_to_scale(o.attr["FontSize"], Factor(o))
          IN font > 1 /\ {font - 1, font} \intersect request.fonts = {}
    /\ walk.outcome = "undefined" =>
          request.pools[walk.which].mask = 0 /\ get_any_pool_needs_scaling

\* A child that lay within its parent still does when both were scaled; input
\* booleans, which keep their size, apart.
StaysInside ==
    walk.outcome = "scaling" => \A i, j \in DOMAIN walk.scaled :
        LET was(k) == Entries(walk.which)[k] IN
        /\ was(i).object.type \in {"Container", "Button"}
        /\ was(j).object.type \in ScalesBoth
        => \A k \in DOMAIN was(i).object.children :
             LET before == was(i).object.children[k]
                 after == walk.scaled[i].children[k] IN
             /\ before.id = was(j).id /\ before.x >= 0
             /\ before.x + was(j).object.attr["Width"] <= was(i).object.attr["Width"]
             => after.x + walk.scaled[j].attr["Width"] <= walk.scaled[i].attr["Width"]

GlyphWidth == <<6, 8, 8, 12, 16, 16, 24, 32, 32, 48, 64, 64, 96, 128, 128>>

\* The text does not outgrow its scaled field: apart from the smallest font, the
\* font that replaces another is one the terminal has, and its characters are not
\* wider than the scaled ones, but for the tolerance of the table.
ScaledTextFits ==
    walk.outcome = "scaling" => \A i \in DOMAIN walk.scaled :
        LET o == Entries(walk.which)[i].object IN
        o.type = "FontAttributes" =>
            LET font == walk.scaled[i].attr["FontSize"]
                f == Factor(o) IN
            font = 0 \/
            /\ font \in request.fonts
            /\ 100 * GlyphWidth[font + 1] * f.den <=
                  GlyphWidth[o.attr["FontSize"] + 1] * (100 * f.num + 9 * f.den)
=============================================================================
