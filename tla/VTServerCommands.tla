-------------------------- MODULE VTServerCommands --------------------------
(***************************************************************************)
(* The terminal's handlers for the commands a client sends about its       *)
(* object pool (process_connection_dependent_messages): each looks the     *)
(* objects up, checks its arguments, changes the tree, answers, and may    *)
(* trigger macros.  A macro runs at once: its packets go through           *)
(* process_rx_message like messages from the client, each with its own     *)
(* answer, before the handler that triggered it returns; "todo" is that    *)
(* call stack.                                                             *)
(***************************************************************************)
EXTENDS VTPoolParser

CONSTANTS
    ClientCommands(_),  \* the commands the client may send about a pool
    Commands(_),        \* and how many of them
    Version             \* get_version() of the terminal

VARIABLES
    nulls,      \* IDs for which a lookup left an empty entry in the tree
    focus,      \* the focused object
    todo,       \* commands and answers still to be worked off
    client,     \* the client's last command
    answers,    \* the first and the latest of the answers sent since
    sent,       \* the commands the client sent
    thrown      \* an exception left the handler

serverVars == <<nulls, focus, todo, client, answers, sent, thrown>>
vars == <<parserVars, serverVars>>

None == [command |-> "none"]

ServerInit ==
    /\ ParserInit
    /\ nulls = {} /\ focus = NULL_OBJECT_ID
    /\ todo = <<>> /\ client = None /\ answers = <<>> /\ sent = 0 /\ thrown = FALSE

--------------------------------------------------------------------------------
\* What every handler does

\* get_object_by_id is operator[] of a map: an unknown ID gets an empty entry.
LookedUp(ids) == nulls' = nulls \union (ids \ DOMAIN tree)

Has(id) == id \in DOMAIN tree
TypeOf(id) == tree[id].type
HasType(id, types) == id \in DOMAIN tree /\ tree[id].type \in types

Answer(c, error) == [of |-> c, error |-> error]
Answered(c, error) ==
    answers' = IF Len(answers) < 2 THEN Append(answers, Answer(c, error))
               ELSE <<answers[1], Answer(c, error)>>

Reply(c, error) ==
    /\ Answered(c, error)
    /\ todo' = Tail(todo)
    /\ UNCHANGED <<tree, focus, thrown>>

\* execute_macro: only packets of eight bytes are executed.
PacketsOf(id) ==
    IF HasType(id, {"Macro"}) /\ MacroValid(tree, tree[id])
    THEN SelectSeq(tree[id].packets, LAMBDA p : PacketLength(p) = 8) ELSE <<>>

\* process_macro: the macros the object has for an event.
Triggered(id, event) ==
    IF ~Has(id) THEN <<>>
    ELSE FlattenSeq([i \in DOMAIN tree[id].macros |->
                       IF tree[id].macros[i].event = event
                       THEN PacketsOf(tree[id].macros[i].id) ELSE <<>>])

\* Mutant: the macros run before the answer is sent.
Done_AnswersLast(c, newTree, id, event) ==
    /\ tree' = newTree
    /\ todo' = Triggered(id, event) \o <<[command |-> "answer", of |-> c]>> \o Tail(todo)
    /\ UNCHANGED <<focus, thrown, answers>>

Done(c, newTree, id, event) ==
    /\ tree' = newTree
    /\ Answered(c, "none")
    /\ todo' = Triggered(id, event) \o Tail(todo)
    /\ UNCHANGED <<focus, thrown>>

With(id, values) == [tree EXCEPT ![id].attr = values @@ @]

--------------------------------------------------------------------------------
\* Commands that change one object's value or state

EightBitValues == {"InputBoolean", "InputList", "OutputList"}
LongValues == {"InputNumber", "OutputNumber", "NumberVariable"}
WordValues == Graphs \union {"ObjectPointer"}

ChangeNumericValue(c) ==
    /\ c.command = "ChangeNumericValue"
    /\ LookedUp({c.id})
    /\ IF HasType(c.id, EightBitValues)
       THEN Done(c, With(c.id, [Value |-> c.value % 256]), c.id, "OnChangeValue")
       ELSE IF HasType(c.id, LongValues)
       THEN Done(c, With(c.id, [Value |-> c.value]), c.id, "OnChangeValue")
       ELSE IF HasType(c.id, WordValues)
       THEN Done(c, With(c.id, [Value |-> c.value % 65536]), c.id, "OnChangeValue")
       ELSE IF HasType(c.id, {"ExternalObjectPointer"})
       THEN Done(c, With(c.id, [ExternalReferenceNAMEID |-> c.value % 65536,
                                ExternalObjectID |-> c.value \div 65536]), c.id, "OnChangeValue")
       ELSE Reply(c, "InvalidObjectID")

\* Mutant: the events are swapped.
HideShowObject_Swapped(c) ==
    /\ c.command = "HideShowObject"
    /\ LookedUp({c.id})
    /\ IF HasType(c.id, {"Container"})
       THEN Done(c, With(c.id, [Hidden |-> IF c.value = 0 THEN 1 ELSE 0]), c.id,
                 IF c.value = 0 THEN "OnShow" ELSE "OnHide")
       ELSE Reply(c, "InvalidObjectID")

HideShowObject(c) ==
    /\ c.command = "HideShowObject"
    /\ LookedUp({c.id})
    /\ IF HasType(c.id, {"Container"})
       THEN Done(c, With(c.id, [Hidden |-> IF c.value = 0 THEN 1 ELSE 0]), c.id,
                 IF c.value = 0 THEN "OnHide" ELSE "OnShow")
       ELSE Reply(c, "InvalidObjectID")

\* The enabled bit of the options of a list or number; the disabled bit of a button.
WithBit(options, bit, on) ==
    IF (options \div bit) % 2 = (IF on THEN 1 ELSE 0) THEN options
    ELSE IF on THEN options + bit ELSE options - bit

EnableDisableObject(c) ==
    /\ c.command = "EnableDisableObject"
    /\ LookedUp({c.id})
    /\ IF ~Has(c.id) THEN Reply(c, "InvalidObjectID")
       ELSE IF c.value > 1 THEN Reply(c, "InvalidEnableDisableCommandValue")
       ELSE CASE TypeOf(c.id) \in {"InputBoolean", "InputString"} ->
                    Done(c, With(c.id, [Enabled |-> c.value]), c.id, "none")
              [] TypeOf(c.id) = "InputList" ->
                    Done(c, With(c.id, [Options |-> WithBit(tree[c.id].attr["Options"], 1, c.value = 1)]),
                         c.id, "none")
              [] TypeOf(c.id) = "InputNumber" ->
                    Done(c, With(c.id, [Options2 |-> WithBit(tree[c.id].attr["Options2"], 1, c.value = 1)]),
                         c.id, "none")
              [] TypeOf(c.id) = "Button" ->
                    Done(c, With(c.id, [Options |-> WithBit(tree[c.id].attr["Options"], 16, c.value = 0)]),
                         c.id, "none")
              [] OTHER -> Reply(c, "InvalidObjectID")

\* The text is padded with spaces to its old length, and never gets shorter.
ChangeStringValue(c) ==
    /\ c.command = "ChangeStringValue"
    /\ LookedUp({c.id})
    /\ IF c.received < c.length + 5 THEN Reply(c, "AnyOtherError")
       ELSE IF HasType(c.id, {"StringVariable", "OutputString", "InputString"})
       THEN Done(c, With(c.id, [Text |-> IF c.length < tree[c.id].attr["Text"]
                                         THEN tree[c.id].attr["Text"] ELSE c.length]), c.id, "none")
       ELSE Reply(c, "InvalidObjectID")

\* A null ID cannot be the object of the command, number 0 is the type.
NameOf(id, number) ==
    LET names == Reads[TypeOf(id)] IN IF number \in DOMAIN names THEN names[number] ELSE "none"

ChangeAttribute(c) ==
    /\ c.command = "ChangeAttribute"
    /\ LookedUp({c.id})
    /\ IF ~Has(c.id) THEN Reply(c, "InvalidObjectID")
       ELSE LET name == NameOf(c.id, c.attribute)
                set == SetAttribute(tree, nulls, tree[c.id], name, c.value) IN
            IF set.error = "none" THEN Done(c, With(c.id, (name :> set.value)), c.id, "OnChangeAttribute")
            ELSE IF set.error = "throws"
            THEN thrown' = TRUE /\ UNCHANGED <<tree, focus, todo, answers>>
            ELSE Reply(c, set.error)

--------------------------------------------------------------------------------
\* Commands about position and size

ChildMoved(child, c) == [child EXCEPT !.x = @ + c.x, !.y = @ + c.y]

ChangeChildLocation(c) ==
    /\ c.command = "ChangeChildLocation"
    /\ LookedUp(IF Has(c.id) THEN {c.id, c.child} ELSE {c.id})
    /\ IF ~Has(c.id) THEN Reply(c, "ParentObjectDoesntExistOrIsNotAParentOfSpecifiedObject")
       ELSE IF Has(c.child) /\ \E i \in DOMAIN tree[c.id].children : tree[c.id].children[i].id = c.child
       THEN Done(c, [tree EXCEPT ![c.id].children =
                       [i \in DOMAIN @ |-> IF @[i].id = c.child THEN ChildMoved(@[i], c) ELSE @[i]]],
                 c.id, "ChangeChildLocation")
       ELSE Reply(c, "TargetObjectDoesNotExistOrIsNotApplicable")

PositionedParents ==
    {"Button", "Container", "AlarmMask", "DataMask", "Key", "WorkingSet", "AuxiliaryInputType2",
     "WindowMask"}

ChangeChildPosition(c) ==
    /\ c.command = "ChangeChildPosition"
    /\ LookedUp(IF c.received > 8 THEN {c.id, c.child} ELSE {})
    /\ IF c.received <= 8 THEN Reply(c, "AnyOtherError")
       ELSE IF ~Has(c.id) THEN Reply(c, "ParentObjectDoesntExistOrIsNotAParentOfSpecifiedObject")
       ELSE IF ~Has(c.child) THEN Reply(c, "TargetObjectDoesNotExistOrIsNotApplicable")
       ELSE IF TypeOf(c.id) \notin PositionedParents THEN Reply(c, "AnyOtherError")
       ELSE IF \E i \in DOMAIN tree[c.id].children : tree[c.id].children[i].id = c.child
       THEN Done(c, [tree EXCEPT ![c.id].children =
                       [i \in DOMAIN @ |-> IF @[i].id = c.child
                                           THEN [@[i] EXCEPT !.x = c.x, !.y = c.y] ELSE @[i]]],
                 c.id, "OnChangeChildPosition")
       ELSE Reply(c, "TargetObjectDoesNotExistOrIsNotApplicable")

Sizeable ==
    InputFields \union OutputFields \union Lines
       \union {"Animation", "Button", "Container", "OutputArchedBarGraph", "OutputLinearBarGraph"}

ChangeSize(c) ==
    /\ c.command = "ChangeSize"
    /\ LookedUp({c.id})
    /\ IF ~Has(c.id) THEN Reply(c, "InvalidObjectID")
       ELSE IF \/ TypeOf(c.id) \in Sizeable
               \/ TypeOf(c.id) = "OutputMeter" /\ c.width = c.height
       THEN Done(c, With(c.id, [Width |-> c.width, Height |-> c.height]), c.id, "OnChangeSize")
       ELSE Reply(c, "AnyOtherError")

ChangePolygonPoint(c) ==
    /\ c.command = "ChangePolygonPoint"
    /\ LookedUp({c.id})
    /\ IF ~Has(c.id) THEN Reply(c, "InvalidObjectID")
       ELSE IF TypeOf(c.id) # "OutputPolygon" THEN Reply(c, "AnyOtherError")
       ELSE IF c.index + 1 \in DOMAIN tree[c.id].points
       THEN Done(c, [tree EXCEPT ![c.id].points[c.index + 1] = <<c.x, c.y>>], c.id, "none")
       ELSE Reply(c, "InvalidPointIndex")

--------------------------------------------------------------------------------
\* Commands about references between objects

\* InputList::change_list_item and OutputList::change_list_item.
ItemAccepted(o, index, item) ==
    /\ index + 1 \in DOMAIN o.children
    /\ \/ item = NULL_OBJECT_ID
       \/ Is(tree, item, IF o.type = "InputList" THEN ListItems ELSE Numbers)

ChangeListItem(c) ==
    /\ c.command = "ChangeListItem"
    /\ LookedUp({c.id, c.item})
    /\ IF ~Has(c.id) THEN Reply(c, "InvalidObjectID")
       ELSE IF c.item # NULL_OBJECT_ID /\ ~Has(c.item) THEN Reply(c, "InvalidNewListItemObjectID")
       ELSE IF TypeOf(c.id) \in {"InputList", "OutputList"} /\ ItemAccepted(tree[c.id], c.index, c.item)
       THEN Done(c, [tree EXCEPT ![c.id].children[c.index + 1].id = c.item], c.id, "none")
       ELSE Reply(c, "AnyOtherError")

\* The object is taken for a working set whatever its type; see ClientCommands.
ChangeActiveMask(c) ==
    /\ c.command = "ChangeActiveMask"
    /\ LookedUp(IF Has(c.id) THEN {c.id, c.mask} ELSE {c.id})
    /\ IF ~Has(c.id) THEN Reply(c, "InvalidWorkingSetObjectID")
       ELSE IF Has(c.mask) THEN Done(c, With(c.id, [ActiveMask |-> c.mask]), c.id, "none")
       ELSE Reply(c, "InvalidMaskObjectID")

ChangeSoftKeyMask(c) ==
    /\ c.command = "ChangeSoftKeyMask"
    /\ LookedUp({c.id, c.mask})
    /\ IF ~Has(c.id) THEN Reply(c, "InvalidDataOrAlarmMaskObjectID")
       ELSE IF c.mask # NULL_OBJECT_ID /\ ~Has(c.mask) THEN Reply(c, "InvalidSoftKeyMaskObjectID")
       ELSE IF /\ TypeOf(c.id) \in {"AlarmMask", "DataMask"}
               /\ NullOr(tree, c.mask, {"SoftKeyMask"})
       THEN Done(c, With(c.id, [SoftKeyMask |-> c.mask]), c.id, "OnChangeSoftKeyMask")
       ELSE Reply(c, "AnyOtherError")

ChangeFillAttributes(c) ==
    /\ c.command = "ChangeFillAttributes"
    /\ LookedUp({c.id, c.pattern})
    /\ IF ~HasType(c.id, {"FillAttributes"}) THEN Reply(c, "InvalidObjectID")
       ELSE IF ~NullOr(tree, c.pattern, {"PictureGraphic"}) THEN Reply(c, "InvalidPatternObjectID")
       ELSE IF c.value > 3 THEN Reply(c, "InvalidType")
       ELSE Done(c, With(c.id, [FillPattern |-> c.pattern, FillType |-> c.value,
                                FillColour |-> c.colour]), c.id, "none")

ChangeFontAttributes(c) ==
    /\ c.command = "ChangeFontAttributes"
    /\ LookedUp({c.id})
    /\ IF ~HasType(c.id, {"FontAttributes"}) THEN Reply(c, "InvalidObjectID")
       ELSE IF c.size > 14 THEN Reply(c, "InvalidSize")
       ELSE Done(c, With(c.id, [FontColour |-> c.colour, FontSize |-> c.size,
                                FontType |-> c.value, FontStyle |-> c.value]), c.id, "none")

ChangeLineAttributes(c) ==
    /\ c.command = "ChangeLineAttributes"
    /\ LookedUp({c.id})
    /\ IF HasType(c.id, {"LineAttributes"})
       THEN Done(c, With(c.id, [LineColour |-> c.colour, LineWidth |-> c.value, LineArt |-> c.art]),
                 c.id, "none")
       ELSE Reply(c, "InvalidObjectID")

Coloured ==
    {"AuxiliaryInputType2", "WorkingSet", "DataMask", "AlarmMask", "SoftKeyMask", "Key", "Button",
     "InputNumber", "InputBoolean", "InputString", "OutputString", "OutputNumber",
     "GraphicsContext", "WindowMask"}

ChangeBackgroundColour(c) ==
    /\ c.command = "ChangeBackgroundColour"
    /\ LookedUp({c.id})
    /\ IF ~Has(c.id) THEN Reply(c, "InvalidObjectID")
       ELSE IF TypeOf(c.id) \in Coloured
       THEN Done(c, With(c.id, [BackgroundColour |-> c.colour]), c.id, "OnChangeBackgroundColour")
       ELSE Reply(c, "AnyOtherError")

\* The new priority is answered and triggers macros, and is stored nowhere.
ChangePriority(c) ==
    /\ c.command = "ChangePriority"
    /\ LookedUp({c.id})
    /\ IF ~Has(c.id) THEN Reply(c, "InvalidObjectID")
       ELSE IF TypeOf(c.id) # "AlarmMask" THEN Reply(c, "AnyOtherError")
       ELSE IF c.value > 2 THEN Reply(c, "InvalidPriority")
       ELSE Done(c, tree, c.id, "OnChangePriority")

\* Selecting buttons and keys came with version 4; 0 opens the input, 255 selects it.
SelectInputObject(c) ==
    /\ c.command = "SelectInputObject"
    /\ LookedUp({c.id})
    /\ IF ~Has(c.id) THEN Reply(c, "InvalidObjectID")
       ELSE IF \/ TypeOf(c.id) \notin {"Button", "Key", "InputNumber", "InputString", "InputList"}
               \/ TypeOf(c.id) \in {"Button", "Key"} /\ Version <= 3
       THEN Reply(c, "AnyOtherError")
       ELSE IF c.value \notin {0, 255} THEN Reply(c, "InvalidOptionValue")
       ELSE /\ focus' = c.id
            /\ Answered(c, "none")
            /\ todo' = Triggered(c.id, "OnInputFieldSelection") \o Tail(todo)
            /\ UNCHANGED <<tree, thrown>>

--------------------------------------------------------------------------------
\* Macros and what the terminal does not know

\* The answer is sent after the macro ran.  The plain command takes the ID from
\* a single byte.
Execute(c, id) ==
    /\ LookedUp({id})
    /\ IF ~Has(id) THEN Reply(c, "ObjectDoesntExist")
       ELSE IF TypeOf(id) # "Macro" THEN Reply(c, "ObjectIsNotAMacro")
       ELSE IF ~MacroValid(tree, tree[id]) THEN Reply(c, "AnyOtherError")
       ELSE /\ todo' = PacketsOf(id) \o <<[command |-> "answer", of |-> c]>> \o Tail(todo)
            /\ UNCHANGED <<tree, focus, answers, thrown>>
ExecuteMacro(c) == c.command = "ExecuteMacro" /\ Execute(c, c.id % 256)
ExecuteExtendedMacro(c) == c.command = "ExecuteExtendedMacro" /\ Execute(c, c.id)

ExecuteAnswer(c) ==
    /\ c.command = "answer"
    /\ Answered(c.of, "none")
    /\ todo' = Tail(todo)
    /\ UNCHANGED <<tree, focus, thrown, nulls>>

\* Commands without an effect on the pool, and those process_rx_message ignores.
ControlAudioSignal(c) == c.command = "ControlAudioSignal" /\ Reply(c, "none") /\ UNCHANGED nulls
SetAudioVolume(c) == c.command = "SetAudioVolume" /\ Reply(c, "none") /\ UNCHANGED nulls

NotHandled ==
    {"ChangeEndPoint", "ChangeObjectLabel", "LockUnlockMask", "ChangePolygonScale",
     "GraphicsContextCommand", "SelectColourMap"}
Ignored(c) ==
    /\ c.command \in NotHandled
    /\ todo' = Tail(todo)
    /\ UNCHANGED <<tree, focus, answers, thrown, nulls>>

--------------------------------------------------------------------------------
Handle(c) ==
    \/ ChangeNumericValue(c)
    \/ HideShowObject(c)
    \/ EnableDisableObject(c)
    \/ ChangeStringValue(c)
    \/ ChangeAttribute(c)
    \/ ChangeChildLocation(c)
    \/ ChangeChildPosition(c)
    \/ ChangeSize(c)
    \/ ChangePolygonPoint(c)
    \/ ChangeListItem(c)
    \/ ChangeActiveMask(c)
    \/ ChangeSoftKeyMask(c)
    \/ ChangeFillAttributes(c)
    \/ ChangeFontAttributes(c)
    \/ ChangeLineAttributes(c)
    \/ ChangeBackgroundColour(c)
    \/ ChangePriority(c)
    \/ SelectInputObject(c)
    \/ ExecuteMacro(c)
    \/ ExecuteExtendedMacro(c)
    \/ ExecuteAnswer(c)
    \/ ControlAudioSignal(c)
    \/ SetAudioVolume(c)
    \/ Ignored(c)

\* The pool is parsed by a thread of its own; the commands of interest follow it.
ClientSends ==
    /\ outcome = "parsed" /\ todo = <<>> /\ ~thrown
    /\ sent < Commands(pool)
    /\ \E c \in ClientCommands(pool) : todo' = <<c>> /\ client' = c
    /\ sent' = sent + 1
    /\ answers' = <<>>
    /\ UNCHANGED <<parserVars, nulls, focus, thrown>>

Work ==
    /\ todo # <<>> /\ ~thrown
    /\ Handle(Head(todo))
    /\ UNCHANGED <<pool, size, next, left, outcome, workingSetID, client, sent>>

Parse == ParserNext /\ UNCHANGED serverVars

Next == Parse \/ ClientSends \/ Work

\* The parser's thread and the handler run on; the client need not send.
Spec == ServerInit /\ [][Next]_vars /\ WF_vars(Parse \/ Work)

--------------------------------------------------------------------------------
\* Properties

InRange(o, name) ==
    LET v == o.attr[name] IN
    v \in Nat /\ IF name \notin DOMAIN Sets[o.type] THEN v < 2147483647
                 ELSE LET rule == Sets[o.type][name] IN
                      CASE rule.kind = "value" -> v < rule.size
                        [] rule.kind = "flag" -> v <= 1
                        [] rule.kind = "enumeration" -> v <= rule.largest
                        [] rule.kind = "long" -> TRUE
                        [] OTHER -> v <= NULL_OBJECT_ID

\* Every attribute keeps to the width and the enumeration of its field, by
\* whichever of the commands it was changed.
TypeOK ==
    /\ outcome \in {"parsing", "parsed", "failed", "overrun", "misread"}
    /\ \A id \in DOMAIN tree : \A name \in {Reads[tree[id].type][i] : i \in DOMAIN Reads[tree[id].type]} :
          name \in DOMAIN tree[id].attr /\ InRange(tree[id], name)
    /\ sent \in 0..Commands(pool) /\ thrown \in BOOLEAN

\* The references the handlers store without looking at what they name; the
\* items of an output list are only accepted when its get_is_valid rejects them.
Unvalidated ==
    [ObjectPointer |-> {"Value"},
     ExternalObjectPointer |-> {"ExternalReferenceNAMEID", "ExternalObjectID"},
     OutputLinearBarGraph |-> {"TargetValueVariableReference"},
     OutputArchedBarGraph |-> {"TargetValueVariableReference"},
     AuxiliaryControlDesignatorType2 |-> {"AuxiliaryObjectID"},
     WindowMask |-> {"Name"}]

\* The new tree with those references as they were.
Validated(old, new) ==
    [id \in DOMAIN new |->
       CASE new[id].type = "OutputList" -> [new[id] EXCEPT !.children = old[id].children]
         [] new[id].type \in DOMAIN Unvalidated ->
               [new[id] EXCEPT !.attr = [name \in DOMAIN @ |->
                   IF name \in Unvalidated[new[id].type] THEN old[id].attr[name] ELSE @[name]]]
         [] OTHER -> new[id]]

AllValid(t) == \A id \in DOMAIN t : Valid(t, t[id])

\* Whatever the client sends, objects that their get_is_valid accepted are still
\* accepted: the handlers refuse what would name a missing object or one of a
\* wrong type, directly or through an object it refers to.
StaysValid ==
    outcome = "parsed" /\ AllValid(tree) => AllValid(Validated(tree, tree'))

\* The client takes the next answer for that of its command: the first one is,
\* and those of the macros it triggered follow; only an executed macro answers
\* its commands first.
AnsweredInOrder ==
    client # None /\ todo = <<>> /\ ~thrown /\ client.command \notin NotHandled =>
       /\ answers # <<>>
       /\ IF client.command \in {"ExecuteMacro", "ExecuteExtendedMacro"}
          THEN answers[Len(answers)].of = client
          ELSE answers[1].of = client

\* No macro is left to execute: the handler that triggered them returns.
HandlerReturned == todo = <<>> \/ thrown
=============================================================================
