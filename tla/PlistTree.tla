------------------------------ MODULE PlistTree ------------------------------
(***************************************************************************)
(* The trees of libplist, in the memory libcnary keeps them in.  A node    *)
(* has the header of a list of its children, begin and end, and links      *)
(* next and prev into that of its parent.  An empty list ends at its own   *)
(* header, whose first field is begin: the link of the last child is then  *)
(* written there, and the first child that was appended has the header     *)
(* before it, while one that was inserted before others has NULL.          *)
(*                                                                         *)
(* A dictionary is a list of keys, each followed by its value.  Of other   *)
(* values only their identity is kept.  Memory is used once.               *)
(***************************************************************************)
EXTENDS Integers, Sequences, FiniteSets, FiniteSetsExt, SequencesExt

CONSTANTS
    MaxNodes,        \* bound: nodes that are ever allocated
    Key              \* the keys of dictionaries

TreeAssumption == MaxNodes \in Nat /\ IsFiniteSet(Key)

Node == 1..MaxNodes

NULL == 0

\* The header of the list a node is in.
Header == -1

Type == {"ARRAY", "DICT", "KEY"}

VARIABLES
    heap,            \* what the memory of each node holds
    undefined        \* whether memory was used that had been freed

vars == <<heap, undefined>>

Empty(type, key) ==
    [type |-> type, key |-> key, next |-> NULL, prev |-> NULL, parent |-> NULL,
     begin |-> NULL, end |-> Header, count |-> 0, children |-> 0]

Init ==
    /\ heap = [n \in Node |-> Empty("unused", "none")]
    /\ undefined = FALSE

Live(h, n) == h[n].type \in Type

-----------------------------------------------------------------------------
(* node_list.c and node.c.                                                 *)

\* The children of a node, along the links next.
Items(h, n) ==
    LET walk[i \in 1..MaxNodes] ==
            IF i = 1 THEN <<h[n].begin>>
            ELSE LET s == walk[i - 1]
                     x == h[Last(s)].next
                 IN  IF x = NULL THEN s ELSE Append(s, x)
    IN  IF h[n].begin = NULL THEN << >> ELSE walk[MaxNodes]

\* node_nth_child, NULL when there are not so many.
Nth(h, n, i) ==
    LET items == Items(h, n)
    IN  IF i < Len(items) THEN items[i + 1] ELSE NULL

\* p->next = x, where p may be the header of the list of n.
Follow(h, n, p, x) ==
    IF p = Header THEN [h EXCEPT ![n].begin = x] ELSE [h EXCEPT ![p].next = x]

ListAdd(h, n, x) ==
    LET last == h[n].end
    IN  Follow([h EXCEPT ![x].next = NULL, ![x].prev = last,
                         ![n].end = x, ![n].count = @ + 1], n, last, x)

\* Bug: the one that comes after is not linked back.
ListInsertOneWay(h, n, i, x) ==
    IF i >= h[n].count THEN ListAdd(h, n, x)
    ELSE LET before == IF i = 0 THEN NULL ELSE Nth(h, n, i - 1)
             after == IF before = NULL THEN h[n].begin ELSE h[before].next
         IN  Follow([h EXCEPT ![x].prev = before, ![x].next = after,
                              ![n].count = @ + 1],
                    n, IF before = NULL THEN Header ELSE before, x)

\* There is one after it, since the list has more than i.
ListInsert(h, n, i, x) ==
    IF i >= h[n].count THEN ListAdd(h, n, x)
    ELSE LET before == IF i = 0 THEN NULL ELSE Nth(h, n, i - 1)
             after == IF before = NULL THEN h[n].begin ELSE h[before].next
         IN  Follow([h EXCEPT ![x].prev = before, ![x].next = after,
                              ![after].prev = x, ![n].count = @ + 1],
                    n, IF before = NULL THEN Header ELSE before, x)

\* When the child had NULL before it and nothing after it, end stays what it was.
ListRemove(h, n, x) ==
    LET before == h[x].prev
        after == h[x].next
        g == [h EXCEPT ![n].count = @ - 1]
        linked == Follow(g, n, IF before = NULL THEN Header ELSE before, after)
    IN  IF after # NULL THEN [linked EXCEPT ![after].prev = before]
        ELSE IF before # NULL THEN [linked EXCEPT ![n].end = before]
        ELSE linked

\* node_attach and node_insert: a child of n with i others before it.
Attached(h, n, i, x) ==
    ListInsert([h EXCEPT ![x].parent = n, ![n].children = @ + 1], n, i, x)

\* node_detach, which returns 0 wherever the child was.
Detached(h, x) ==
    LET n == h[x].parent
    IN  IF n # NULL /\ x \in ToSet(Items(h, n))
        THEN ListRemove([h EXCEPT ![n].children = @ - 1], n, x)
        ELSE h

-----------------------------------------------------------------------------
(* plist.c: what every operation is made of.                               *)

\* A node and all below it, as the iterators find them.
Below(h, n) ==
    LET below[depth \in 1..MaxNodes] ==
            IF depth = 1 THEN [all |-> {n}, last |-> {n}]
            ELSE LET b == below[depth - 1]
                     more == UNION {ToSet(Items(h, x)) : x \in b.last}
                 IN  [all |-> b.all \cup more, last |-> more]
    IN  below[MaxNodes].all

\* plist_free_node.
Freed(h, n) ==
    LET g == Detached(h, n)
        gone == Below(h, n)
    IN  [m \in Node |-> IF m \in gone THEN Empty("freed", "none") ELSE g[m]]

\* What node_detach returns for plist_free_node to return.
FreedIndex == 0

\* Whether an addition at i writes to memory that was freed.
Dangles(h, n, i) ==
    LET last == h[n].end
    IN  i >= h[n].count /\ last # Header /\ ~Live(h, last)

Put(h, n, i, x) ==
    /\ heap' = Attached(h, n, i, x)
    /\ undefined' = Dangles(h, n, i)

AtEnd(h, n) == h[n].count

Unused == {n \in Node : heap[n].type = "unused"}

\* The memory the next node gets.
Fresh == CHOOSE n \in Unused : \A m \in Unused : n <= m

\* What a caller may hand over: a tree of its own, not the one it goes into.
Loose(x, n) ==
    /\ Live(heap, x) /\ heap[x].parent = NULL
    /\ n \notin Below(heap, x)

Is(type, n) == ~undefined /\ heap[n].type = type

\* The item of a key: every other child is looked at.
DictItem(h, n, key) ==
    LET items == Items(h, n)
        found == {i \in DOMAIN items : /\ i % 2 = 1
                                       /\ h[items[i]].type = "KEY" /\ h[items[i]].key = key}
    IN  IF found = {} THEN NULL ELSE h[items[Min(found)]].next

-----------------------------------------------------------------------------
(* plist.c: the operations of a caller who does as plist.h says.           *)

New(type) ==
    /\ ~undefined /\ Unused # {}
    /\ heap' = [heap EXCEPT ![Fresh] = Empty(type, "none")]
    /\ UNCHANGED undefined

ArrayAppend(n, x) ==
    /\ Is("ARRAY", n) /\ Loose(x, n)
    /\ Put(heap, n, AtEnd(heap, n), x)

ArrayInsert(n, x, i) ==
    /\ Is("ARRAY", n) /\ Loose(x, n) /\ i <= heap[n].children
    /\ Put(heap, n, i, x)

ArraySet(n, x, i) ==
    /\ Is("ARRAY", n) /\ Loose(x, n) /\ i < heap[n].children
    /\ Put(Freed(heap, Nth(heap, n, i)), n, FreedIndex, x)

ArrayRemove(n, i) ==
    /\ Is("ARRAY", n) /\ i < heap[n].children
    /\ heap' = Freed(heap, Nth(heap, n, i))
    /\ UNCHANGED undefined

DictInsert(n, key, x) ==
    /\ Is("DICT", n) /\ Loose(x, n) /\ Unused # {}
    /\ LET h == [heap EXCEPT ![Fresh] = Empty("KEY", key)]
           g == Attached(h, n, AtEnd(h, n), Fresh)
       IN  /\ heap' = Attached(g, n, AtEnd(g, n), x)
           /\ undefined' = Dangles(h, n, AtEnd(h, n))

\* An item that is not there is not set.
DictSet(n, key, x) ==
    /\ Is("DICT", n) /\ Loose(x, n)
    /\ DictItem(heap, n, key) # NULL
    /\ Put(Freed(heap, DictItem(heap, n, key)), n, FreedIndex, x)

DictRemove(n, key) ==
    /\ Is("DICT", n) /\ DictItem(heap, n, key) # NULL
    /\ LET item == DictItem(heap, n, key)
       IN  heap' = Freed(Freed(heap, heap[item].prev), item)
    /\ UNCHANGED undefined

\* plist_free, of a whole tree.
Free(n) ==
    /\ ~undefined /\ Live(heap, n) /\ heap[n].parent = NULL
    /\ heap' = Freed(heap, n)
    /\ UNCHANGED undefined

\* plist_copy: every node is appended to the copy of its parent.
Copy(n) ==
    /\ ~undefined /\ Live(heap, n) /\ heap[n].type # "KEY"
    /\ LET old == Below(heap, n)
           image(m) == IF m \in old THEN Fresh + Cardinality({k \in old : k < m}) ELSE m
           appended(m) == IF m \in old THEN image(m) ELSE Header
           Copied(m) ==
               LET items == Items(heap, m)
                   made == [Empty(heap[m].type, heap[m].key) EXCEPT
                               !.begin = image(heap[m].begin),
                               !.end = IF items = << >> THEN Header ELSE image(Last(items)),
                               !.count = Len(items), !.children = Len(items)]
               IN  IF m = n THEN made
                   ELSE [made EXCEPT !.next = image(heap[m].next),
                                     !.prev = appended(heap[m].prev),
                                     !.parent = image(heap[m].parent)]
       IN  /\ Cardinality(old) <= Cardinality(Unused)
           /\ heap' = [k \in Node |-> IF \E m \in old : image(m) = k
                                     THEN Copied(CHOOSE m \in old : image(m) = k)
                                     ELSE heap[k]]
    /\ UNCHANGED undefined

Next ==
    \/ \E type \in Type \ {"KEY"} : New(type)
    \/ \E n, x \in Node :
        \/ ArrayAppend(n, x)
        \/ \E i \in 0..heap[n].children : ArrayInsert(n, x, i) \/ ArraySet(n, x, i)
        \/ \E key \in Key : DictInsert(n, key, x) \/ DictSet(n, key, x)
    \/ \E n \in Node :
        \/ \E i \in 0..heap[n].children : ArrayRemove(n, i)
        \/ \E key \in Key : DictRemove(n, key)
        \/ Free(n) \/ Copy(n)

-----------------------------------------------------------------------------
\* The variables have their types.
TypeOK ==
    /\ heap \in [Node -> [type : Type \cup {"unused", "freed"}, key : Key \cup {"none"},
                          next : Node \cup {NULL}, prev : Node \cup {NULL, Header},
                          parent : Node \cup {NULL}, begin : Node \cup {NULL},
                          end : Node \cup {Header}, count : Nat, children : Nat]]
    /\ undefined \in BOOLEAN

\* Whatever was inserted, replaced, removed, freed and copied, and in whatever order: the
\* list of every node can be walked, its length is what both counts say, it holds each child
\* once, back it is the same list and it ends at its last child.  A look-up, the key before
\* an item and the next addition and removal rely on all of it.  The one way out of this is
\* node_list.c:140: a list that was emptied ends at a child that was freed, an addition
\* writes there (Dangles), and a list is left that counts children and starts nowhere.
ListsSound ==
    /\ ~undefined =>
        \A n \in Node : Live(heap, n) =>
            LET items == Items(heap, n)
            IN  /\ Len(items) = heap[n].count /\ heap[n].count = heap[n].children
                /\ ToSet(items) = {x \in Node : Live(heap, x) /\ heap[x].parent = n}
                /\ Cardinality(ToSet(items)) = Len(items)
                /\ \A i \in 2..Len(items) : heap[items[i]].prev = items[i - 1]
                /\ items # << >> => heap[n].end = items[Len(items)]
    /\ undefined =>
        \E n \in Node : Live(heap, n) /\ heap[n].count > 0 /\ heap[n].begin = NULL
=============================================================================
