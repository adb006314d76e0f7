----------------------------- MODULE MCServices -----------------------------
(* The constants with which TLC checks Services.                           *)
EXTENDS Services

\* Bodies shorter and longer than the header.
MCLengths == {1, 3}

\* Documents: every tree of up to three nodes under a container, with equal leaves of
\* equal and of different types, and trees with counts, values, references and offsets
\* on both sides of each width.
Bin(type, num, wide, text, up) ==
    [type |-> type, num |-> num, wide |-> wide, text |-> text, up |-> up]
Number(type, v, wide, up) == Bin(type, v, wide, << >>, up)
Text(type, text, up) == Bin(type, 0, FALSE, text, up)
Roots == {Text(c, << >>, 0) : c \in {"ARRAY", "DICT"}}
Below(nodes, ups) == {[n EXCEPT !.up = u] : n \in nodes, u \in ups}
Leaves ==
    {Number("UINT", 9, FALSE, 0), Number("UINT", 9, TRUE, 0), Text("STRING", <<"a">>, 0),
     Text("KEY", <<"a">>, 0)}
OtherLeaves ==
    {Number("UID", 9, FALSE, 0), Number("BOOLEAN", 1, FALSE, 0), Text("DATA", <<"a">>, 0),
     Text("STRING", <<"s", "a">>, 0), Text("KEY", <<"s", "a">>, 0)}

\* A tree in preorder whose dictionaries, and they alone, have keys at odd places.
IsDocument(t) ==
    LET Items(i) == SelectSeq([j \in DOMAIN t |-> j], LAMBDA j : t[j].up = i)
        open[i \in DOMAIN t] == {i} \cup (IF t[i].up = 0 THEN {} ELSE open[t[i].up])
    IN  /\ \A i \in DOMAIN t :
            CASE t[i].type = "DICT" ->
                     /\ Len(Items(i)) % 2 = 0
                     /\ \A k \in DOMAIN Items(i) : t[Items(i)[k]].type = "KEY" <=> k % 2 = 1
              [] t[i].type = "ARRAY" -> \A k \in DOMAIN Items(i) : t[Items(i)[k]].type # "KEY"
              [] OTHER -> Items(i) = << >>
        /\ \A i \in DOMAIN t \ {1} : t[i].up \in open[i - 1]

MCDocuments ==
    LET Two == {<<r, x>> : r \in Roots, x \in Below(Leaves \cup OtherLeaves \cup Roots, {1})}
        Three == {Append(t, x) : t \in Two,
                                 x \in Below(Leaves \cup OtherLeaves \cup Roots, {1, 2})}
        Four == {<<r, x, y, z>> : r \in Roots, x \in Below(Leaves \cup Roots, {1}),
                                  y \in Below(Leaves \cup Roots, {1, 2}),
                                  z \in Below(Leaves \cup Roots, {1, 2, 3})}
        ArrayOf(n, Item(_)) == <<Text("ARRAY", << >>, 0)>> \o [k \in 1..n |-> Item(k)]
        DictOf(n, Item(_)) ==
            <<Text("DICT", << >>, 0)>> \o
            [k \in 1..(2 * n) |->
                IF k % 2 = 0 THEN Item(k)
                ELSE Text("KEY", [j \in 1..(k \div 2) |-> IF j = 3 THEN "u" ELSE "a"], 1)]
    IN  {t \in Two \cup Three \cup Four : IsDocument(t)}
        \cup {<<Number(type, v, FALSE, 0)>> :
                  type \in {"UINT", "UID"}, v \in {0, 2, 3, 8, 9, 26, 27, 80, 81, 255}}
        \cup {<<Text(type, [k \in 1..n |-> c], 0)>> :
                  type \in {"STRING", "DATA"}, n \in {0, 3, 9}, c \in {"a", "u", "s", "p", "x"}}
        \cup {ArrayOf(n, LAMBDA k : Number("UINT", k, FALSE, 1)) : n \in {3, 8, 9, 27}}
        \cup {ArrayOf(n, LAMBDA k : Text("STRING", [j \in 1..k |-> "a"], 1)) : n \in {3, 8}}
        \cup {DictOf(n, LAMBDA k : Number("UINT", k, TRUE, 1)) : n \in {3, 4, 9}}
=============================================================================
