-------------------------- MODULE DeviceDescriptors --------------------------
(***************************************************************************)
(* The device descriptor object pool (DDOP) of a task controller client:   *)
(* an application builds it, it is written as bytes and as ISO XML, a task *)
(* controller reads the bytes into a pool of its own and works out the     *)
(* geometry of the implement.  The bytes are real: every object is written *)
(* and read back at the offsets of the code.                               *)
(* Source: isobus_device_descriptor_object_pool.cpp, its helpers, and      *)
(* isobus_task_controller_client_objects.cpp.                              *)
(***************************************************************************)
EXTENDS Integers, Sequences, SequencesExt, FiniteSetsExt

CONSTANTS
    Builds,     \* sequences of sets of operations: one of each set is done, in order
    Dropped     \* how many bytes at the end of a pool may be missing

VARIABLES
    todo,       \* the operations still to come
    pool,       \* the application's pool: its objectList and compatibility level
    server,     \* the task controller's
    last        \* what the last operation did

descriptorVars == <<todo, pool, server, last>>

NullObject == 65535
MaxVersion == 4

--------------------------------------------------------------------------------
\* The pool

get_object_by_id(objects, id) == SelectSeq(objects, LAMBDA o : o.id = id)
Present(objects, id) == get_object_by_id(objects, id) # <<>>
TypeOf(objects, id) == Head(get_object_by_id(objects, id)).type

check_object_id_unique(objects, id) == id \notin {0, NullObject} /\ ~Present(objects, id)

\* What add_... keeps of a text: characters up to the level's limit.
Limit(level) == IF level < MaxVersion THEN 32 ELSE 128
AtMost(text, n) == SubSeq(text, 1, Min({n, Len(text)}))

add_device(objects, level, o) ==
    LET kept == [o EXCEPT !.designator = AtMost(@, Limit(level)), !.serial = AtMost(@, Limit(level)),
                          !.structure = AtMost(@, 7), !.extended = AtMost(@, 32),
                          !.useExtended = level >= 4]
    IN  IF \E i \in DOMAIN objects : objects[i].type = "DVC" THEN [ok |-> FALSE, objects |-> objects]
        ELSE [ok |-> TRUE, objects |-> Append(objects, kept)]

\* add_device_element, _process_data, _property and _value_presentation.
add_object(objects, level, o) ==
    IF check_object_id_unique(objects, o.id)
    THEN [ok |-> TRUE, objects |-> Append(objects, [o EXCEPT !.designator = AtMost(@, Limit(level))])]
    ELSE [ok |-> FALSE, objects |-> objects]

Added(objects, level, o) ==
    IF o.type = "DVC" THEN add_device(objects, level, o) ELSE add_object(objects, level, o)

remove_objects_with_type(objects, type) == SelectSeq(objects, LAMBDA o : o.type # type)
remove_object_with_id(objects, id) == SelectSeq(objects, LAMBDA o : o.id # id)
remove_object_by_id(objects, id) ==
    IF Present(objects, id)
    THEN RemoveAt(objects, Min({i \in DOMAIN objects : objects[i].id = id})) ELSE objects

set_task_controller_compatibility_level(objects, level) ==
    [i \in DOMAIN objects |-> IF objects[i].type = "DVC"
                              THEN [objects[i] EXCEPT !.useExtended = level >= 4] ELSE objects[i]]

PresentationResolves(objects, o) ==
    \/ o.presentation = NullObject
    \/ Present(objects, o.presentation) /\ TypeOf(objects, o.presentation) = "DVP"

ElementResolves(objects, o) ==
    /\ o.parent # NullObject
    /\ Present(objects, o.parent) /\ TypeOf(objects, o.parent) \in {"DET", "DVC"}
    /\ \A i \in DOMAIN o.children :
          Present(objects, o.children[i]) /\ TypeOf(objects, o.children[i]) \in {"DPD", "DPT"}

\* The first object that does not resolve ends the loop with false.
resolve_parent_ids_to_objects(objects) ==
    \A i \in DOMAIN objects :
        CASE objects[i].type = "DET" -> ElementResolves(objects, objects[i])
          [] objects[i].type \in {"DPD", "DPT"} -> PresentationResolves(objects, objects[i])
          [] OTHER -> TRUE

--------------------------------------------------------------------------------
\* The bytes of an object: get_binary_object

Tag == [DVC |-> <<68, 86, 67>>, DET |-> <<68, 69, 84>>, DPD |-> <<68, 80, 68>>,
        DPT |-> <<68, 80, 84>>, DVP |-> <<68, 86, 80>>]
Two(n) == <<n % 256, (n \div 256) % 256>>
Four(n) == Two(n) \o <<(n \div 65536) % 256, (n \div 16777216) % 256>>
Counted(text) == <<Len(text) % 256>> \o text
Padded(text) == text \o [i \in 1 .. 7 - Len(text) |-> 32]

DeviceBytes(o) ==
    Counted(o.designator) \o Counted(o.version) \o o.name \o Counted(o.serial) \o Padded(o.structure)
       \o o.local \o (IF o.useExtended THEN Counted(o.extended) ELSE <<>>)
ElementBytes(o) ==
    <<o.kind>> \o Counted(o.designator) \o Two(o.number) \o Two(o.parent) \o Two(Len(o.children))
       \o FlattenSeq([i \in DOMAIN o.children |-> Two(o.children[i])])
ProcessDataBytes(o) ==
    Two(o.ddi) \o <<o.properties, o.triggers>> \o Counted(o.designator) \o Two(o.presentation)
PropertyBytes(o) == Two(o.ddi) \o Four(o.value) \o Counted(o.designator) \o Two(o.presentation)
PresentationBytes(o) == Four(o.offset) \o o.scale \o <<o.decimals>> \o Counted(o.designator)

get_binary_object(o) ==
    Tag[o.type] \o Two(o.id) \o
    CASE o.type = "DVC" -> DeviceBytes(o)
      [] o.type = "DET" -> ElementBytes(o)
      [] o.type = "DPD" -> ProcessDataBytes(o)
      [] o.type = "DPT" -> PropertyBytes(o)
      [] o.type = "DVP" -> PresentationBytes(o)

generate_binary_object_pool(objects) ==
    IF resolve_parent_ids_to_objects(objects)
    THEN [ok |-> TRUE, bytes |-> FlattenSeq([i \in DOMAIN objects |-> get_binary_object(objects[i])])]
    ELSE [ok |-> FALSE, bytes |-> <<>>]

\* The XML names the device, then all elements, process data, properties and
\* presentations; without a device it stays empty, and that is no error.
generate_task_data_iso_xml(objects) ==
    LET of(type) == SelectSeq(objects, LAMBDA o : o.type = type)
    IN  [ok |-> resolve_parent_ids_to_objects(objects),
         ids |-> IF ~resolve_parent_ids_to_objects(objects) \/ of("DVC") = <<>> THEN <<>>
                 ELSE LET listed == <<Head(of("DVC"))>> \o of("DET") \o of("DPD") \o of("DPT") \o of("DVP")
                      IN  [i \in DOMAIN listed |-> listed[i].id]]

--------------------------------------------------------------------------------
\* Reading: deserialize_binary_object_pool.  b[i] is the code's binaryPool[i], n
\* binaryPoolSizeBytes.  An object is read when all its lengths fit into n.

Unread == [fits |-> FALSE]
After(bytes, p) == [i \in 0 .. Len(bytes) - p - 1 |-> bytes[p + i + 1]]
TwoAt(b, i) == b[i] + 256 * b[i + 1]
FourAt(b, i) ==
    TwoAt(b, i) + 65536 * b[i + 2] + 16777216 * (IF b[i + 3] > 127 THEN b[i + 3] - 256 ELSE b[i + 3])
TextAt(b, i, length) == [k \in 1 .. length |-> b[i + k - 1]]

\* Mutant: the size of a device is not one byte less below level 4.
DeviceSize_Longer(level) == 31
DeviceSize(level) == IF level < 4 THEN 30 ELSE 31

DeviceRead(b, n, level) ==
    IF n >= 6 /\ b[5] < 128 /\ n >= 7 + b[5] /\ b[6 + b[5]] < 128
         /\ n >= 16 + b[5] + b[6 + b[5]] /\ b[15 + b[5] + b[6 + b[5]]] < 128
    THEN LET N == b[5]
             M == b[6 + N]
             O == b[15 + N + M]
             labelled == n >= 31 + N + M + O
             E == IF level >= 4 /\ labelled THEN b[30 + N + M + O] ELSE 0
             size == DeviceSize(level) + N + M + O + E
         IN  IF (level >= 4 => labelled /\ E <= 32) /\ n >= size
             THEN [fits |-> TRUE, size |-> size,
                   object |-> [type |-> "DVC", id |-> 0, designator |-> TextAt(b, 6, N),
                               version |-> TextAt(b, 7 + N, M), name |-> TextAt(b, 7 + N + M, 8),
                               serial |-> TextAt(b, 16 + N + M, O),
                               structure |-> TextAt(b, 16 + N + M + O, 7),
                               local |-> TextAt(b, 23 + N + M + O, 7),
                               extended |-> TextAt(b, 31 + N + M + O, E), useExtended |-> FALSE]]
             ELSE Unread
    ELSE Unread

\* Only the low byte of the number of children is read.
ElementRead(b, n) ==
    IF n >= 7 /\ n >= 12 + b[6] /\ b[5] <= 7
    THEN LET N == b[6]
             children == b[11 + N]
         IN  IF n >= 13 + 2 * children + N
             THEN [fits |-> TRUE, size |-> 13 + 2 * children + N,
                   object |-> [type |-> "DET", id |-> TwoAt(b, 3), kind |-> b[5],
                               designator |-> TextAt(b, 7, N), number |-> TwoAt(b, 7 + N),
                               parent |-> TwoAt(b, 9 + N),
                               children |-> [i \in 1 .. children |-> TwoAt(b, 11 + 2 * i + N)]]]
             ELSE Unread
    ELSE Unread

ProcessDataRead(b, n) ==
    IF n >= 10 /\ b[9] < 128 /\ n >= 12 + b[9]
    THEN [fits |-> TRUE, size |-> 12 + b[9],
          object |-> [type |-> "DPD", id |-> TwoAt(b, 3), ddi |-> TwoAt(b, 5), properties |-> b[7],
                      triggers |-> b[8], designator |-> TextAt(b, 10, b[9]),
                      presentation |-> TwoAt(b, 10 + b[9])]]
    ELSE Unread

PropertyRead(b, n) ==
    IF n >= 12 /\ b[11] < 128 /\ n >= 14 + b[11]
    THEN [fits |-> TRUE, size |-> 14 + b[11],
          object |-> [type |-> "DPT", id |-> TwoAt(b, 3), ddi |-> TwoAt(b, 5), value |-> FourAt(b, 7),
                      designator |-> TextAt(b, 12, b[11]), presentation |-> TwoAt(b, 12 + b[11])]]
    ELSE Unread

PresentationRead(b, n) ==
    IF n >= 15 /\ b[14] < 128 /\ n >= 15 + b[14]
    THEN [fits |-> TRUE, size |-> 15 + b[14],
          object |-> [type |-> "DVP", id |-> TwoAt(b, 3), offset |-> FourAt(b, 5),
                      scale |-> TextAt(b, 9, 4), decimals |-> b[13],
                      designator |-> TextAt(b, 15, b[14])]]
    ELSE Unread

NextRead(b, n, level) ==
    CASE n <= 3 -> Unread
      [] n > 3 /\ TextAt(b, 0, 3) = Tag.DVC -> DeviceRead(b, n, level)
      [] n > 3 /\ TextAt(b, 0, 3) = Tag.DET -> ElementRead(b, n)
      [] n > 3 /\ TextAt(b, 0, 3) = Tag.DPD -> ProcessDataRead(b, n)
      [] n > 3 /\ TextAt(b, 0, 3) = Tag.DPT -> PropertyRead(b, n)
      [] n > 3 /\ TextAt(b, 0, 3) = Tag.DVP -> PresentationRead(b, n)
      [] OTHER -> Unread

\* An object replaces the one of its ID, a device every device; one with a NAME that
\* is not the client's is still added before the reading ends.
Replaced(objects, level, o) ==
    Added(IF o.type = "DVC" THEN remove_objects_with_type(objects, "DVC")
          ELSE remove_object_with_id(objects, o.id), level, o)

NoName == [i \in 1 .. 8 |-> 0]
NameMatches(o, name) == o.type = "DVC" => name \in {NoName, o.name}

\* The step of one object, from byte p on.
\* Mutant: up to three bytes at the end are ignored.
ReadStep_IgnoresRest(r, level, bytes, name) ==
    LET next == NextRead(After(bytes, r.p), Len(bytes) - r.p, level)
    IN  IF ~next.fits THEN [r EXCEPT !.ok = Len(bytes) - r.p <= 3, !.ends = TRUE]
        ELSE LET added == Replaced(r.objects, level, next.object)
                 ok == added.ok /\ NameMatches(next.object, name)
             IN  [p |-> r.p + next.size, ok |-> ok, objects |-> added.objects,
                  ends |-> ~ok \/ r.p + next.size = Len(bytes)]

ReadStep(r, level, bytes, name) ==
    LET next == NextRead(After(bytes, r.p), Len(bytes) - r.p, level)
    IN  IF ~next.fits THEN [r EXCEPT !.ok = FALSE, !.ends = TRUE]
        ELSE LET added == Replaced(r.objects, level, next.object)
                 ok == added.ok /\ NameMatches(next.object, name)
             IN  [p |-> r.p + next.size, ok |-> ok, objects |-> added.objects,
                  ends |-> ~ok \/ r.p + next.size = Len(bytes)]

\* An object takes 13 bytes at least.
deserialize_binary_object_pool(objects, level, bytes, name) ==
    LET read[k \in Nat] ==
            IF k = 0 THEN [p |-> 0, ok |-> bytes # <<>>, objects |-> objects, ends |-> bytes = <<>>]
            ELSE LET r == read[k - 1] IN IF r.ends THEN r ELSE ReadStep(r, level, bytes, name)
    IN  read[1 + Len(bytes) \div 13]

--------------------------------------------------------------------------------
\* The geometry: get_implement_geometry

Device == 1     \* the kinds of elements
Function == 2
Bin == 3
Section == 4
OffsetX == 134  \* the data description indices that are looked for
OffsetY == 135
OffsetZ == 136
ActualWorkingWidth == 67
NoDDI == 65535

\* The objects of the pool that the element lists, in the order of the list.
Listed(objects, o) ==
    FlattenSeq([i \in DOMAIN o.children |->
        IF Present(objects, o.children[i]) THEN <<Head(get_object_by_id(objects, o.children[i]))>> ELSE <<>>])

\* The elements of a kind whose parent is the element, in the order of the pool.
\* Mutant: only objects that come after the element are searched.
Under_After(objects, o, kind) ==
    SelectSeq(objects, LAMBDA e : e.type = "DET" /\ e.parent = o.id /\ e.kind = kind
                                 /\ \E i, k \in DOMAIN objects : i < k /\ objects[i] = o /\ objects[k] = e)
Under(objects, o, kind) ==
    SelectSeq(objects, LAMBDA e : e.type = "DET" /\ e.parent = o.id /\ e.kind = kind)

Settable(o) == (o.properties \div 2) % 2 = 1

\* The last property gives the value, the last process data whether it can be set.
ObjectPoolValue(listed, ddi) ==
    LET given == SelectSeq(listed, LAMBDA c : c.type = "DPT" /\ c.ddi = ddi)
        set == SelectSeq(listed, LAMBDA c : c.type = "DPD" /\ c.ddi = ddi)
    IN  [value |-> IF given = <<>> THEN 0 ELSE Last(given).value, exists |-> given # <<>>,
         settable |-> set # <<>> /\ Settable(Last(set))]

\* The indices of application rates: ten groups of five below 51, one of
\* revolutions, and five of nutrients and dry matter without a default.
Rates(first, nutrient) ==
    {first + 5 * k : k \in 0 .. 9} \union {388 + first} \union
        (IF nutrient < 0 THEN {} ELSE {432 + nutrient + 4 * k : k \in 0 .. 4})
RateDDIs == [setpoint |-> Rates(1, 0), actual |-> Rates(2, 1), default |-> Rates(3, -1),
             minimum |-> Rates(4, 2), maximum |-> Rates(5, 3)]

RateMetadata(listed, ddis) ==
    LET rates == SelectSeq(listed, LAMBDA c : c.type \in {"DPD", "DPT"} /\ c.ddi \in ddis)
        given == SelectSeq(rates, LAMBDA c : c.type = "DPT")
        set == SelectSeq(rates, LAMBDA c : c.type = "DPD")
    IN  [value |-> IF given = <<>> THEN 0 ELSE Last(given).value, exists |-> given # <<>>,
         settable |-> set # <<>> /\ Settable(Last(set)),
         ddi |-> IF rates = <<>> THEN NoDDI ELSE Last(rates).ddi,
         id |-> IF rates = <<>> THEN NullObject ELSE Last(rates).id]

parse_bin(objects, o) ==
    [element |-> o.number,
     rates |-> [r \in DOMAIN RateDDIs |-> RateMetadata(Listed(objects, o), RateDDIs[r])]]
is_valid(bin) == \E r \in DOMAIN bin.rates : bin.rates[r].ddi # NoDDI
Bins(objects, elements) ==
    SelectSeq([i \in DOMAIN elements |-> parse_bin(objects, elements[i])], is_valid)
ListedBins(objects, o) ==
    Bins(objects, SelectSeq(Listed(objects, o), LAMBDA c : c.type = "DET" /\ c.kind = Bin))

parse_section(objects, o) ==
    [element |-> o.number, rates |-> ListedBins(objects, o),
     x |-> ObjectPoolValue(Listed(objects, o), OffsetX), y |-> ObjectPoolValue(Listed(objects, o), OffsetY),
     z |-> ObjectPoolValue(Listed(objects, o), OffsetZ),
     width |-> ObjectPoolValue(Listed(objects, o), ActualWorkingWidth)]
Sections(objects, o) ==
    LET found == Under(objects, o, Section) IN [i \in DOMAIN found |-> parse_section(objects, found[i])]

parse_sub_boom(objects, o) ==
    [section |-> parse_section(objects, o), sections |-> Sections(objects, o)]

\* Sections, offsets and listed bins count only for a boom without sub booms.
parse_element(objects, o) ==
    LET functions == IF o.kind = Function THEN Under(objects, o, Function) ELSE <<>>
        bins == IF o.kind = Function THEN Bins(objects, Under(objects, o, Bin)) ELSE <<>>
        whole == functions = <<>>
        value(ddi) == ObjectPoolValue(IF whole THEN Listed(objects, o) ELSE <<>>, ddi)
    IN  [element |-> o.number,
         subBooms |-> [i \in DOMAIN functions |-> parse_sub_boom(objects, functions[i])],
         sections |-> IF whole THEN Sections(objects, o) ELSE <<>>,
         rates |-> IF whole THEN bins \o ListedBins(objects, o) ELSE bins,
         x |-> value(OffsetX), y |-> value(OffsetY), z |-> value(OffsetZ)]

\* The booms are the functions below the first element of the first device; without
\* functions that element is the boom, and its bins are the boom's.
get_implement_geometry(objects) ==
    LET devices == SelectSeq(objects, LAMBDA o : o.type = "DVC")
        roots == SelectSeq(objects, LAMBDA o : o.type = "DET" /\ o.parent = Head(devices).id)
        functions == Under(objects, Head(roots), Function)
        boom == parse_element(objects, Head(roots))
    IN  IF devices = <<>> THEN <<>>
        ELSE IF roots = <<>> THEN <<>>
        ELSE IF functions # <<>> THEN [i \in DOMAIN functions |-> parse_element(objects, functions[i])]
        ELSE <<[boom EXCEPT !.rates = @ \o Bins(objects, Under(objects, Head(roots), Bin))]>>

--------------------------------------------------------------------------------
\* The operations

Nothing == [do |-> "nothing"]

DescriptorsInit ==
    /\ todo \in Builds
    /\ pool = [objects |-> <<>>, level |-> MaxVersion]
    /\ server = [objects |-> <<>>, level |-> MaxVersion]
    /\ last = Nothing

EditedElement(o, op) ==
    IF o.id # op.id THEN o
    ELSE CASE op.do = "add_reference_to_child_object" -> [o EXCEPT !.children = Append(@, op.child)]
           [] op.do = "remove_reference_to_child_object" ->
                 [o EXCEPT !.children = IF Contains(@, op.child)
                                        THEN RemoveAt(@, Min({i \in DOMAIN @ : @[i] = op.child})) ELSE @]
           [] op.do = "set" -> [o EXCEPT ![op.field] = op.to]
           [] op.do = "set text" -> [o EXCEPT ![op.field] = op.text]

Built(objects, level, op) ==
    CASE op.do = "add" -> Added(objects, level, op.object).objects
      [] op.do = "remove_objects_with_type" -> remove_objects_with_type(objects, op.type)
      [] op.do = "remove_object_with_id" -> remove_object_with_id(objects, op.id)
      [] op.do = "remove_object_by_id" -> remove_object_by_id(objects, op.id)
      [] op.do = "clear" -> <<>>
      [] op.do = "level" -> set_task_controller_compatibility_level(objects, op.level)
      [] OTHER -> [i \in DOMAIN objects |-> EditedElement(objects[i], op)]

Build(op) ==
    /\ op.do # "send"
    /\ pool' = [objects |-> Built(pool.objects, pool.level, op),
                level |-> IF op.do = "level" THEN op.level ELSE pool.level]
    /\ last' = Nothing
    /\ UNCHANGED server

\* The task controller's pool reads what the client's pool generates, less the bytes
\* that are missing, and works out the geometry.
Send(op) ==
    /\ op.do = "send"
    /\ UNCHANGED pool
    /\ LET generated == generate_binary_object_pool(pool.objects)
       IN  IF ~generated.ok
           THEN last' = [do |-> "refused"] /\ UNCHANGED server
           ELSE \E missing \in {d \in Dropped : d < Len(generated.bytes) \/ d = 0} :
                \E read \in {deserialize_binary_object_pool(server.objects, op.level,
                                 AtMost(generated.bytes, Len(generated.bytes) - missing), op.name)} :
                   /\ server' = [objects |-> read.objects, level |-> op.level]
                   /\ last' = [do |-> "sent", missing |-> missing, ok |-> read.ok, name |-> op.name,
                               xml |-> generate_task_data_iso_xml(pool.objects).ids,
                               booms |-> get_implement_geometry(read.objects)]

DescriptorsNext ==
    /\ todo # <<>>
    /\ \E op \in Head(todo) : Build(op) \/ Send(op)
    /\ todo' = Tail(todo)

DescriptorsSpec == DescriptorsInit /\ [][DescriptorsNext]_descriptorVars

--------------------------------------------------------------------------------
\* What the pool on the other side must be

\* Texts a pool of this level carries: the parser refuses 128 bytes, the pool of a
\* level below 4 keeps 32.
Carries(o, level) ==
    /\ Len(o.designator) <= (IF level < MaxVersion THEN 32 ELSE 127)
    /\ o.type = "DVC" => /\ Len(o.serial) <= (IF level < MaxVersion THEN 32 ELSE 127)
                         /\ Len(o.version) <= 127
                         /\ Len(o.extended) <= 32 /\ Len(o.structure) <= 7

Carried(o, level) ==
    IF o.type = "DVC"
    THEN [o EXCEPT !.structure = Padded(@), !.extended = IF level < 4 THEN <<>> ELSE @]
    ELSE o

Matching(name) == \A i \in DOMAIN pool.objects : NameMatches(pool.objects[i], name)

\* A generated pool that arrives whole at a task controller of the same level is read
\* object for object as it was built, whatever pool was there before, and its XML
\* lists what was read: generate_binary_object_pool against
\* deserialize_binary_object_pool and generate_task_data_iso_xml.
ReadAsBuilt ==
    last.do = "sent" /\ last.missing = 0 /\ server.level = pool.level /\ pool.objects # <<>>
      /\ Matching(last.name) /\ (\A i \in DOMAIN pool.objects : Carries(pool.objects[i], pool.level))
    => /\ last.ok
       /\ \A i \in DOMAIN pool.objects :
             get_object_by_id(server.objects, pool.objects[i].id) = <<Carried(pool.objects[i], pool.level)>>
       /\ last.xml # <<>> =>
             /\ Len(last.xml) = Len(pool.objects)
             /\ ToSet(last.xml) = {pool.objects[i].id : i \in DOMAIN pool.objects}

\* Where one object of the generated pool ends.
Borders ==
    {Len(FlattenSeq([i \in 1 .. k |-> get_binary_object(pool.objects[i])])) : k \in DOMAIN pool.objects}

\* A pool of which the end is missing is refused unless it ends with an object, and
\* a refused pool never changes an object it does not name: the lengths that
\* deserialize_binary_object_pool compares with what remains.
CutIsRefused ==
    last'.do = "sent" /\ server'.level = pool.level =>
         /\ last'.ok /\ (\A i \in DOMAIN pool.objects : Carries(pool.objects[i], pool.level))
              => Max(Borders) - last'.missing \in Borders
         /\ \A i \in DOMAIN server.objects :
               (\A k \in DOMAIN pool.objects : pool.objects[k].id # server.objects[i].id)
                  => Contains(server'.objects, server.objects[i])

\* A pool of one implement: one element below the device, sections and bins only below
\* elements the helper looks at, and functions at most two deep.
Elements(kind) == {o \in ToSet(server.objects) : o.type = "DET" /\ o.kind = kind}
Parents(o) == {p \in ToSet(server.objects) : p.id = o.parent}
Orderly ==
    /\ \E root \in ToSet(server.objects) :
          /\ root.type = "DET" /\ root.parent = 0 /\ root.kind = Device
          /\ \A o \in ToSet(server.objects) : o.type = "DET" /\ o.parent = 0 => o = root
          /\ \A f \in Elements(Function) :
                \E p \in Parents(f) : p = root \/ (p \in Elements(Function) /\ p.parent = root.id)
          /\ \A s \in Elements(Section) :
                \E p \in Parents(s) : p.id # 0 /\ (p = root \/ p \in Elements(Function))
    /\ \A s \in Elements(Section), f \in Elements(Function) : s.parent # f.parent

Numbers(found) == [i \in DOMAIN found |-> found[i].element]
SectionsTold ==
    FlattenSeq([i \in DOMAIN last.booms |->
        Numbers(last.booms[i].sections)
           \o FlattenSeq([k \in DOMAIN last.booms[i].subBooms |-> Numbers(last.booms[i].subBooms[k].sections)])])

\* The geometry of an orderly implement names every section exactly once, whichever
\* order its objects are listed in: get_implement_geometry and the functions it
\* calls search the pool by parent at every depth.
EverySectionOnce ==
    last.do = "sent" /\ last.ok /\ Orderly
    => /\ Len(SectionsTold) = Cardinality(Elements(Section))
       /\ ToSet(SectionsTold) = {s.number : s \in Elements(Section)}

================================================================================
