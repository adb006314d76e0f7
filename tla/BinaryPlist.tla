----------------------------- MODULE BinaryPlist -----------------------------
(***************************************************************************)
(* Binary property lists, bplist.c: plist_to_bin writes each node of a     *)
(* tree as an object, equal leaves once, with counts, references and       *)
(* offsets as short as their values allow; plist_from_bin reads a file of  *)
(* its own or of the device, whose writer does not tell a key from a       *)
(* string.                                                                 *)
(*                                                                         *)
(* A tree is the sequence of its nodes in preorder, each with the place of *)
(* its parent.  A file is a sequence of cells, which are markers, bytes of *)
(* numbers and bytes of text, and the trailer.  A character is known by    *)
(* the way it is converted.  Reals and dates, copied as the machine has    *)
(* them, are left out.                                                     *)
(***************************************************************************)
EXTENDS Integers, Sequences, SequencesExt

CONSTANTS
    Base,            \* values of a byte (256)
    Fill,            \* counts from here on are written behind the marker (15)
    Documents        \* the trees

BinaryAssumption == Base \in Nat \ {0, 1} /\ Fill \in Nat

\* ASCII; one UTF-16 unit; a surrogate pair; a pair of plane 16, which neither
\* conversion gets right; and a byte that begins no character.
Ascii == {"a", "b"}
Char == Ascii \cup {"u", "s", "p", "x"}

Container == {"ARRAY", "DICT"}
Textual == {"STRING", "KEY", "DATA"}
Type == Container \cup Textual \cup {"BOOLEAN", "UINT", "UID"}

\* num: the value, or the boolean.  wide: the integer has a length of 16.
Node(type, num, wide, text, up) ==
    [type |-> type, num |-> num, wide |-> wide, text |-> text, up |-> up]

VARIABLES
    tree,            \* what is to be written
    file,            \* what was written
    writer,          \* and by whom
    result,          \* what was read
    phase

vars == <<tree, file, writer, result, phase>>

NoFile == [cells |-> << >>, offset_size |-> 0, param_size |-> 0, count |-> 0, table |-> 0]

Init ==
    /\ tree = << >> /\ file = NoFile /\ writer = "none" /\ result = << >>
    /\ phase = "start"

-----------------------------------------------------------------------------
(* Numbers.                                                                *)

get_needed_bytes(x) ==
    IF x < Base THEN 1 ELSE IF x < Base ^ 2 THEN 2 ELSE IF x < Base ^ 3 THEN 3
    ELSE IF x < Base ^ 4 THEN 4 ELSE 8

Log2(n) == CASE n = 8 -> 3 [] n = 4 -> 2 [] n = 2 -> 1 [] OTHER -> 0

Cell(mark, num, char) == [mark |-> mark, num |-> num, char |-> char]

Marker(mark, low) == <<Cell(mark, low, "none")>>

\* The n low bytes of v, the highest first.
Bytes(v, n) == [k \in 1..n |-> Cell("byte", (v \div Base ^ (n - k)) % Base, "none")]

\* Any other width than these reads one byte.
UINT_TO_HOST(cells, at, n) ==
    LET width == IF n \in {2, 3, 4, 8} THEN n ELSE 1
        value[k \in 0..width] ==
            IF k = 0 THEN 0 ELSE value[k - 1] * Base + cells[at + k - 1].num
    IN  value[width]

\* write_int and write_uid: there is no object of three bytes.
Number(mark, v) ==
    LET n == IF get_needed_bytes(v) = 3 THEN 4 ELSE get_needed_bytes(v)
    IN  Marker(mark, Log2(n)) \o Bytes(v, n)

\* write_uint.
WideNumber(v) == Marker("UINT", 4) \o Bytes(0, 8) \o Bytes(v, 8)

\* A marker with a count, which may not fit.
Counted(mark, n) ==
    IF n < Fill THEN Marker(mark, n) ELSE Marker(mark, Fill) \o Number("UINT", n)

-----------------------------------------------------------------------------
(* Text.                                                                   *)

Letters(text) == [k \in DOMAIN text |-> Cell("letter", 0, text[k])]

\* plist_utf8_to_utf16 takes a bit too many from a character of plane 16; the device
\* does not.
Units(c, by) ==
    CASE c = "s" \/ (c = "p" /\ by = "device") -> << <<"lead", c>>, <<"trail", c>> >>
      [] c = "p" /\ by # "device" -> << <<"whole", "g">>, <<"trail", c>> >>
      [] OTHER -> << <<"whole", c>> >>

\* It ends at what begins no character.
Utf16(text, by) ==
    LET bad == {k \in DOMAIN text : text[k] = "x"}
        good == IF bad = {} THEN text
                ELSE SubSeq(text, 1, (CHOOSE k \in bad : \A j \in bad : k <= j) - 1)
    IN  FlattenSeq([k \in DOMAIN good |-> Units(good[k], by)])

\* Each unit has two bytes.
Unicode(units) ==
    Counted("UNICODE", Len(units))
        \o FlattenSeq([k \in DOMAIN units |->
                          <<Cell(units[k][1], 0, units[k][2]), Cell("low", 0, units[k][2])>>])

Text(text, by) ==
    IF ToSet(text) \subseteq Ascii THEN Counted("STRING", Len(text)) \o Letters(text)
    ELSE Unicode(Utf16(text, by))

\* plist_utf16_to_utf8: a trail that follows no lead is skipped, and two leads.
Utf8(units) ==
    FoldLeft(LAMBDA s, unit :
                 CASE unit.mark = "lead" -> [s EXCEPT !.lead = ~@]
                   [] unit.mark = "trail" ->
                          [lead |-> FALSE,
                           text |-> IF ~s.lead THEN s.text
                                    ELSE Append(s.text, IF unit.char = "p" THEN "g"
                                                        ELSE unit.char)]
                   [] OTHER -> [s EXCEPT !.text = Append(@, unit.char)],
             [lead |-> FALSE, text |-> << >>], units).text

-----------------------------------------------------------------------------
(* plist_to_bin.                                                           *)

ChildrenOf(t, i) == SelectSeq([j \in DOMAIN t |-> j], LAMBDA j : t[j].up = i)

\* plist_data_compare for two nodes that are not the same: the length of an integer
\* is not looked at.
plist_data_compare(a, b) ==
    a.type = b.type /\ a.type \notin Container /\ a.num = b.num /\ a.text = b.text

\* The device has one string for a key and a value, and tells integers by their sign.
DeviceCompares(a, b) ==
    LET Plain(n) == [n EXCEPT !.up = 0, !.type = IF @ = "KEY" THEN "STRING" ELSE @]
    IN  a.type \notin Container /\ Plain(a) = Plain(b)

\* hash_table_lookup: plist_data_hash takes the address of DATA, so that equal ones are
\* found only if their addresses have the same hash.
Found(by, a, b) ==
    IF by = "device" THEN DeviceCompares(a, b)
    ELSE plist_data_compare(a, b) /\ (a.type = "DATA" => by = "bplist.c, same hash")

\* serialize_plist: the nodes that become objects.
serialize_plist(t, by) ==
    FoldLeft(LAMBDA objects, i :
                 IF \E o \in ToSet(objects) : Found(by, t[o], t[i]) THEN objects
                 ELSE Append(objects, i),
             << >>, [i \in DOMAIN t |-> i])

\* The objects as cells, one after the other, and where each begins.
Objects(t, by) ==
    LET objects == serialize_plist(t, by)
        width == get_needed_bytes(Len(objects))
        index(j) == SelectInSeq(objects, LAMBDA o : o = j \/ Found(by, t[o], t[j])) - 1
        References(js) == FlattenSeq([k \in DOMAIN js |-> Bytes(index(js[k]), width)])
        Array(i) ==
            LET items == ChildrenOf(t, i)
            IN  Counted("ARRAY", Len(items)) \o References(items)
        Dict(i) ==
            LET items == ChildrenOf(t, i)
                n == Len(items) \div 2
            IN  Counted("DICT", n) \o References([k \in 1..n |-> items[2 * k - 1]])
                                   \o References([k \in 1..n |-> items[2 * k]])
        \* After the bytes of DATA its children are written, which it has none of.
        Object(i) ==
            CASE t[i].type = "BOOLEAN" -> Marker(IF t[i].num = 1 THEN "TRUE" ELSE "FALSE", 0)
              [] t[i].type = "UINT" -> IF t[i].wide THEN WideNumber(t[i].num)
                                       ELSE Number("UINT", t[i].num)
              [] t[i].type = "UID" -> Number("UID", t[i].num)
              [] t[i].type \in {"STRING", "KEY"} -> Text(t[i].text, by)
              [] t[i].type = "DATA" -> Counted("DATA", Len(t[i].text)) \o Letters(t[i].text)
                                           \o Array(i)
              [] t[i].type = "ARRAY" -> Array(i)
              [] t[i].type = "DICT" -> Dict(i)
    IN  FoldLeft(LAMBDA w, i : [cells |-> w.cells \o Object(i),
                                offsets |-> Append(w.offsets, Len(w.cells))],
                 [cells |-> Marker("bplist00", 0), offsets |-> << >>], objects)

Written(t, by) ==
    LET w == Objects(t, by)
        size == get_needed_bytes(Len(w.cells))
    IN  [cells |-> w.cells \o FlattenSeq([k \in DOMAIN w.offsets |-> Bytes(w.offsets[k], size)]),
         offset_size |-> size, param_size |-> get_needed_bytes(Len(w.offsets)),
         count |-> Len(w.offsets), table |-> Len(w.cells)]

-----------------------------------------------------------------------------
(* plist_from_bin.                                                         *)

\* parse_bin_node: a node, and the objects it refers to.
parse_bin_node(f, at) ==
    LET mark == f.cells[at].mark
        low == f.cells[at].num
        filled == low = Fill
        count == IF filled THEN UINT_TO_HOST(f.cells, at + 2, 2 ^ f.cells[at + 1].num) ELSE low
        body == IF filled THEN at + 2 + 2 ^ f.cells[at + 1].num ELSE at + 1
        Parsed(type, num, wide, text, refs) ==
            [type |-> type, num |-> num, wide |-> wide, text |-> text, refs |-> refs]
        Read(n) == [k \in 1..n |-> f.cells[body + k - 1].char]
        Reference(k) == UINT_TO_HOST(f.cells, body + (k - 1) * f.param_size, f.param_size)
        References(n) == [k \in 1..n |-> Reference(k) + 1]
    IN  CASE mark \in {"TRUE", "FALSE"} ->
                 Parsed("BOOLEAN", IF mark = "TRUE" THEN 1 ELSE 0, FALSE, << >>, << >>)
          [] mark = "UINT" /\ low = 4 ->
                 Parsed("UINT", UINT_TO_HOST(f.cells, at + 9, 8), TRUE, << >>, << >>)
          [] mark \in {"UINT", "UID"} /\ low # 4 ->
                 Parsed(mark, UINT_TO_HOST(f.cells, at + 1, 2 ^ low), FALSE, << >>, << >>)
          [] mark \in {"STRING", "DATA"} -> Parsed(mark, 0, FALSE, Read(count), << >>)
          [] mark = "UNICODE" ->
                 Parsed("STRING", 0, FALSE,
                        Utf8([k \in 1..count |-> f.cells[body + 2 * (k - 1)]]), << >>)
          [] mark = "ARRAY" -> Parsed("ARRAY", 0, FALSE, << >>, References(count))
          [] mark = "DICT" -> Parsed("DICT", 0, FALSE, << >>, References(2 * count))

\* Every object at its offset.
Nodes(f) ==
    [k \in 1..f.count |->
        parse_bin_node(f, 1 + UINT_TO_HOST(f.cells, f.table + 1 + (k - 1) * f.offset_size,
                                           f.offset_size))]

\* The references of all containers in the order they are followed.
Links(nodes) ==
    LET Link(k, object, role) == [parent |-> k, object |-> object, role |-> role]
        Of(k) ==
            LET refs == nodes[k].refs
                n == Len(refs) \div 2
            IN  IF nodes[k].type = "ARRAY"
                THEN [j \in DOMAIN refs |-> Link(k, refs[j], "item")]
                ELSE FlattenSeq([j \in 1..n |-> <<Link(k, refs[j], "key"),
                                                  Link(k, refs[j + n], "value")>>])
    IN  FlattenSeq([k \in DOMAIN nodes |-> Of(k)])

\* Bug: what is a copy of a key is one.
TypeAsItIs(type, role, copy) == IF role = "key" THEN "KEY" ELSE type

\* The type of what is attached: in a dictionary a copy of a key becomes a string.
AttachedType(type, role, copy) ==
    IF role = "key" THEN "KEY"
    ELSE IF role = "value" /\ copy /\ type = "KEY" THEN "STRING"
    ELSE type

\* The first to refer to an object gets it, the others a copy.
Attached(nodes) ==
    FoldLeft(LAMBDA s, link :
                 LET copy == link.object \in s.taken
                     type == AttachedType(s.types[link.object], link.role, copy)
                 IN  [taken |-> s.taken \cup {link.object},
                      types |-> IF copy THEN s.types
                                ELSE [s.types EXCEPT ![link.object] = type],
                      items |-> [s.items EXCEPT ![link.parent] =
                                     Append(@, [object |-> link.object, type |-> type])]],
             [taken |-> {}, types |-> [k \in DOMAIN nodes |-> nodes[k].type],
              items |-> [k \in DOMAIN nodes |-> << >>]],
             Links(nodes))

\* The nodes from one on, in preorder.
Below(nodes, items) ==
    LET below[item \in [object : DOMAIN nodes, type : STRING], up \in Nat, at \in Nat] ==
            LET n == nodes[item.object]
            IN  FoldLeft(LAMBDA b, child : b \o below[child, at, at + Len(b)],
                         <<Node(item.type, n.num, n.wide, n.text, up)>>, items[item.object])
    IN  below

plist_from_bin(f) ==
    LET nodes == Nodes(f)
        s == Attached(nodes)
    IN  Below(nodes, s.items)[[object |-> 1, type |-> s.types[1]], 0, 1]

-----------------------------------------------------------------------------
Build(t) ==
    /\ tree' = t /\ phase' = "built"
    /\ UNCHANGED <<file, writer, result>>

PlistToBin ==
    /\ phase = "built"
    /\ \E by \in {"bplist.c", "bplist.c, same hash"} :
        file' = Written(tree, by) /\ writer' = by
    /\ phase' = "written"
    /\ UNCHANGED <<tree, result>>

\* Texts of the device are well-formed.
DeviceWrites ==
    /\ phase = "built"
    /\ \A i \in DOMAIN tree : "x" \in ToSet(tree[i].text) => tree[i].type = "DATA"
    /\ file' = Written(tree, "device") /\ writer' = "device"
    /\ phase' = "written"
    /\ UNCHANGED <<tree, result>>

PlistFromBin ==
    /\ phase = "written"
    /\ result' = plist_from_bin(file) /\ phase' = "read"
    /\ UNCHANGED <<tree, file, writer>>

Next ==
    \/ phase = "start" /\ \E t \in Documents : Build(t)
    \/ PlistToBin \/ DeviceWrites \/ PlistFromBin

-----------------------------------------------------------------------------
(* Properties.                                                             *)

\* The variables have their types.
TypeOK ==
    LET Tree == Seq([type : Type, num : Nat, wide : BOOLEAN, text : Seq(Char \cup {"g"}),
                     up : Nat])
    IN  /\ tree \in Tree /\ result \in Tree
        /\ file.cells \in Seq([mark : STRING, num : Nat, char : Char \cup {"g", "none"}])
        /\ writer \in {"none", "bplist.c", "bplist.c, same hash", "device"}
        /\ phase \in {"start", "built", "written", "read"}

\* What is known not to survive: characters of plane 16 and what is no character, the
\* length of an integer that equals one of another length when bplist.c writes, and an
\* item of an array that shares its object with a key when the device does.
Expressible(t) ==
    /\ \A i \in DOMAIN t : ToSet(t[i].text) \cap {"p", "x"} = {} \/ t[i].type = "DATA"
    /\ writer # "device" =>
        \A i, j \in DOMAIN t : plist_data_compare(t[i], t[j]) => t[i].wide = t[j].wide
    /\ writer = "device" =>
        \A i, j \in DOMAIN t :
            t[i].type = "KEY" /\ t[j].type = "STRING" /\ t[t[j].up].type = "ARRAY"
                => t[i].text # t[j].text

\* Any other tree is read back as it was, node by node and in the same order, though
\* equal nodes were written once and all numbers as short as they could be.
ReadsBack == phase = "read" /\ Expressible(tree) => result = tree
=============================================================================
