-------------------------- MODULE UsbmuxCollection --------------------------
(***************************************************************************)
(* The growable pointer table of libusbmuxd (utils.c): an array of slots,  *)
(* each empty (NULL) or holding one element, that doubles when it is full. *)
(* The device monitor keeps the devices it has announced in one, and       *)
(* usbmuxd_get_device_list builds its answer in another.                   *)
(***************************************************************************)
EXTENDS Naturals, Sequences

CONSTANT NULL  \* the null pointer: an empty slot

\* Tables of elements of a set that does not hold the null pointer.
Slots(Element) == Seq(Element \cup {NULL})

\* The elements a FOREACH over the table visits.
Live(list) == {list[i] : i \in DOMAIN list} \ {NULL}

\* No element sits in two slots.
Distinct(list) ==
    \A i, j \in DOMAIN list : list[i] = list[j] /\ list[i] # NULL => i = j

\* A malloc of one slot, zeroed.
collection_init == <<NULL>>

\* A free'd table: capacity 0.
collection_free == << >>

\* The first slot that satisfies a condition, as the for loops find it.
IsFirst(list, e, i) ==
    /\ i \in DOMAIN list
    /\ list[i] = e
    /\ \A j \in 1..(i - 1) : list[j] # e

First(list, e) == CHOOSE i \in DOMAIN list : IsFirst(list, e, i)

Doubled(list, e) ==
    [i \in 1..(2 * Len(list)) |->
        IF i <= Len(list) THEN list[i] ELSE IF i = Len(list) + 1 THEN e ELSE NULL]

\* Into the first empty slot, or into the first slot of the doubled table.
collection_add(list, e) ==
    IF NULL \in {list[i] : i \in DOMAIN list}
    THEN [list EXCEPT ![First(list, NULL)] = e]
    ELSE Doubled(list, e)

\* Empties the first slot that holds e; a missing element only logs an error.
collection_remove(list, e) ==
    IF e \in Live(list) THEN [list EXCEPT ![First(list, e)] = NULL] ELSE list

\* How many slots are in use.
Used(list) == {i \in DOMAIN list : list[i] # NULL}

\* The element FOREACH reaches first.
FirstLive(list) == list[CHOOSE i \in Used(list) : \A j \in Used(list) : i <= j]
=============================================================================
