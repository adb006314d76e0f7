--------------------------- MODULE PlistTreeProofs ---------------------------
(***************************************************************************)
(* The lists of libcnary are sound after any sequence of the operations of *)
(* libplist, however many nodes there are.                                 *)
(*                                                                         *)
(* TreeInv is inductive.  It says of every node that lives that there is a *)
(* sequence which the links of its list lead through, that a list which    *)
(* was emptied ends at its header or in memory that was freed, and that no *)
(* node is below itself.                                                   *)
(***************************************************************************)
EXTENDS Services, SequenceTheorems, FiniteSetTheorems, WellFoundedInduction, TLAPS

-----------------------------------------------------------------------------
(* What the trees of libplist are like.                                    *)

TreeCell ==
    [type : Tree!Type \cup {"unused", "freed"}, key : Key \cup {"none"},
     next : Tree!Node \cup {Tree!NULL}, prev : Tree!Node \cup {Tree!NULL, Tree!Header},
     parent : Tree!Node \cup {Tree!NULL}, begin : Tree!Node \cup {Tree!NULL},
     end : Tree!Node \cup {Tree!Header}, count : Nat, children : Nat]

TreeHeap == [Tree!Node -> TreeCell]

\* The i-th of a list, NULL behind the last.
TreeAt(s, i) == IF i \in 1..Len(s) THEN s[i] ELSE Tree!NULL

\* s is what the links lead to from the header of n.
TreeLinks(h, n, s) ==
    /\ s \in Seq(Tree!Node) /\ h[n].begin = TreeAt(s, 1)
    /\ \A i \in 1..Len(s) : h[s[i]].next = TreeAt(s, i + 1)

TreeKids(h, n) == {x \in Tree!Node : Tree!Live(h, x) /\ h[x].parent = n}

\* s is the list of n. A list that was emptied may end where memory was freed.
TreeList(h, n, s) ==
    /\ TreeLinks(h, n, s)
    /\ \A i, j \in 1..Len(s) : s[i] = s[j] => i = j
    /\ \A i \in 1..Len(s) : s[i] \in TreeKids(h, n)
    /\ \A x \in TreeKids(h, n) : \E i \in 1..Len(s) : s[i] = x
    /\ h[n].count = Len(s) /\ h[n].children = Len(s)
    /\ \A i \in 2..Len(s) : h[s[i]].prev = s[i - 1]
    /\ Len(s) # 0 => h[s[1]].prev \in {Tree!NULL, Tree!Header} /\ h[n].end = s[Len(s)]
    /\ Len(s) = 0 => \/ h[n].end = Tree!Header
                     \/ h[n].end \in Tree!Node /\ h[h[n].end].type = "freed"

\* With each node the children of it.
TreeClosed(h, S) ==
    /\ \A y \in S : Tree!Live(h, y)
    /\ \A y \in Tree!Node : Tree!Live(h, y) /\ h[y].parent \in S => y \in S

\* No node is below itself.
TreeRooted(h, x) ==
    \E S \in SUBSET Tree!Node : TreeClosed(h, S) /\ x \in S /\ h[x].parent \notin S

TreeSound(h) ==
    /\ \A n \in Tree!Node : Tree!Live(h, n) =>
           /\ \E s \in Seq(Tree!Node) : TreeList(h, n, s)
           /\ h[n].parent = Tree!NULL \/ Tree!Live(h, h[n].parent)
           /\ TreeRooted(h, n)
    /\ \A a, b \in Tree!Node : h[a].type = "unused" /\ a <= b => h[b].type = "unused"

\* A list that counts children and starts nowhere.
TreeLost(h, n) == Tree!Live(h, n) /\ h[n].count # 0 /\ h[n].begin = Tree!NULL

TreeInv ==
    /\ heap \in TreeHeap /\ undefined \in BOOLEAN
    /\ ~undefined => TreeSound(heap)
    /\ undefined => \E n \in Tree!Node : TreeLost(heap, n)

-----------------------------------------------------------------------------
(* Chains: what the recursive functions of PlistTree compute.              *)

Below1 == {p \in Nat \X Nat : p[1] < p[2]}

LEMMA LeastNumber ==
    ASSUME NEW T \in SUBSET Nat, T # {}
    PROVE  \E x \in T : \A y \in T : x <= y
<1>1. IsWellFoundedOn(Below1, Nat)
  BY NatLessThanWellFounded DEF OpToRel, Below1
<1>2. PICK x \in T : \A y \in T : ~(<<y, x>> \in Below1)
  BY <1>1, WFMin
<1>3. ASSUME NEW y \in T PROVE x <= y
  <2>1. <<y, x>> \in Below1 <=> y < x
    BY DEF Below1
  <2>2. QED  BY <1>2, <2>1
<1>4. QED  BY <1>3

\* f begins with a and goes on by g.
Chain(f, V, a, g, n) ==
    f \in [1..n -> V] /\ \A i \in 1..n : f[i] = IF i = 1 THEN a ELSE g[f[i - 1]]

LEMMA ChainExists ==
    ASSUME NEW V, NEW a \in V, NEW g \in [V -> V], NEW n \in Nat
    PROVE  \E f : Chain(f, V, a, g, n)
<1> DEFINE P(f, m) == \A i \in 1..m : f[i] = IF i = 1 THEN a ELSE g[f[i - 1]]
           T == {m \in Nat : ~\E f \in [1..m -> V] : P(f, m)}
<1>1. SUFFICES ASSUME T # {} PROVE FALSE
  <2>1. \E f \in [1..n -> V] : P(f, n)
    OBVIOUS
  <2>2. QED  BY <2>1 DEF Chain
<1>2. PICK m \in T : \A k \in T : m <= k
  BY <1>1, LeastNumber
<1>3. m \in Nat /\ ~\E f \in [1..m -> V] : P(f, m)
  OBVIOUS
<1>4. CASE m = 0
  <2> DEFINE f == [i \in 1..0 |-> a]
  <2>1. f \in [1..m -> V] /\ P(f, m)
    BY <1>4
  <2>2. QED  BY <1>3, <2>1
<1>5. CASE m # 0
  <2>1. m - 1 \in Nat /\ ~(m <= m - 1) /\ m \in 1..m
    BY <1>3, <1>5
  <2>2. m - 1 \notin T
    BY <1>2, <2>1
  <2>3. PICK f \in [1..(m - 1) -> V] : P(f, m - 1)
    BY <2>1, <2>2
  <2> DEFINE v == IF m = 1 THEN a ELSE g[f[m - 1]]
             u == [i \in 1..m |-> IF i = m THEN v ELSE f[i]]
  <2>4. v \in V
    <3>1. CASE m = 1
      BY <3>1
    <3>2. CASE m # 1
      <4>1. m - 1 \in 1..(m - 1)
        BY <1>3, <1>5, <3>2
      <4>2. QED  BY <3>2, <4>1
    <3>3. QED  BY <3>1, <3>2
  <2>5. \A i \in 1..m : i # m => i \in 1..(m - 1) /\ i - 1 # m /\ (i # 1 => i - 1 \in 1..(m - 1))
    BY <1>3
  <2>6. u \in [1..m -> V]
    BY <2>4, <2>5
  <2>7. /\ u[m] = IF m = 1 THEN a ELSE g[f[m - 1]]
        /\ \A i \in 1..m : i # m => u[i] = f[i]
    BY <2>1
  <2> HIDE DEF u, v
  <2>8. ASSUME NEW i \in 1..m PROVE u[i] = IF i = 1 THEN a ELSE g[u[i - 1]]
    <3>1. CASE i = m
      <4>1. m # 1 => m - 1 \in 1..m /\ m - 1 # m
        BY <1>3, <1>5
      <4>2. QED  BY <2>7, <3>1, <4>1
    <3>2. CASE i # m
      <4>1. f[i] = IF i = 1 THEN a ELSE g[f[i - 1]]
        BY <2>3, <2>5, <3>2
      <4>2. i # 1 => i - 1 \in 1..m /\ i - 1 # m
        BY <1>3, <2>5, <3>2
      <4>3. QED  BY <2>7, <3>2, <4>1, <4>2
    <3>3. QED  BY <3>1, <3>2
  <2>9. P(u, m)
    BY <2>8
  <2>10. QED  BY <1>3, <2>6, <2>9
<1>6. QED  BY <1>4, <1>5

LEMMA TreeCardinality == \A S : Tree!Cardinality(S) = Cardinality(S)
  BY DEF Tree!Cardinality, Cardinality

\* One more child of a list that has been walked to the end of s.
TreeOneMore(h, s) ==
    LET x == h[Tree!Last(s)].next
    IN  IF x = Tree!NULL THEN s ELSE Append(s, x)

\* The lists that the walk over the children of n has made after each step.
TreeWalk(f, h, n) ==
    f = [i \in 1..MaxNodes |-> IF i = 1 THEN <<h[n].begin>> ELSE TreeOneMore(h, f[i - 1])]

\* The lists with a first child.
TreeSome == Seq(Tree!Node) \ {<< >>}

LEMMA TreeOneMoreTyped ==
    ASSUME NEW h \in TreeHeap, NEW s \in TreeSome
    PROVE  TreeOneMore(h, s) \in TreeSome
<1> DEFINE x == h[Tree!Last(s)].next
<1>1. s \in Seq(Tree!Node) /\ s # << >>
  BY DEF TreeSome
<1>2. x \in Tree!Node \cup {Tree!NULL}
  <2>1. s[Len(s)] \in Tree!Node
    BY <1>1, LenProperties, EmptySeq, ElementOfSeq
  <2>2. QED  BY <2>1 DEF TreeHeap, TreeCell, Tree!Last
<1>3. TreeOneMore(h, s) = IF x = Tree!NULL THEN s ELSE Append(s, x)
  BY DEF TreeOneMore
<1> HIDE DEF x
<1>4. x \in Tree!Node => Append(s, x) \in Seq(Tree!Node) /\ Append(s, x) # << >>
  BY <1>1, AppendProperties
<1>5. QED  BY <1>1, <1>2, <1>3, <1>4 DEF TreeSome

LEMMA TreeWalkExists ==
    ASSUME Tree!TreeAssumption, NEW h \in TreeHeap, NEW n \in Tree!Node, h[n].begin \in Tree!Node
    PROVE  \E f : TreeWalk(f, h, n)
<1> DEFINE V == TreeSome
           g == [s \in V |-> TreeOneMore(h, s)]
           a == <<h[n].begin>>
<1>1. a \in V /\ MaxNodes \in Nat /\ g \in [V -> V]
  <2>1. MaxNodes \in Nat
    BY DEF Tree!TreeAssumption
  <2>2. a \in Seq(Tree!Node) /\ a # << >>
    OBVIOUS
  <2>3. g \in [V -> V]
    BY TreeOneMoreTyped
  <2>4. QED  BY <2>1, <2>2, <2>3 DEF TreeSome
<1>2. PICK f : Chain(f, V, a, g, MaxNodes)
  <2>1. a \in V /\ MaxNodes \in Nat /\ g \in [V -> V]
    BY <1>1
  <2> HIDE DEF V, a, g
  <2>2. QED  BY <2>1, ChainExists
<1> DEFINE u == [i \in 1..MaxNodes |-> IF i = 1 THEN a ELSE TreeOneMore(h, f[i - 1])]
<1>3. ASSUME NEW i \in 1..MaxNodes PROVE f[i] = u[i]
  <2>1. CASE i = 1
    BY <1>2, <2>1 DEF Chain
  <2>2. CASE i # 1
    <3>1. i - 1 \in 1..MaxNodes
      BY <1>1, <2>2
    <3>2. f[i - 1] \in V /\ f[i] = g[f[i - 1]]
      BY <1>2, <2>2, <3>1 DEF Chain
    <3>3. f[i] = TreeOneMore(h, f[i - 1])
      BY <3>2
    <3>4. QED  BY <2>2, <3>3
  <2>3. QED  BY <2>1, <2>2
<1>4. f = u
  <2>1. f = [i \in 1..MaxNodes |-> f[i]] /\ u = [i \in 1..MaxNodes |-> u[i]]
    BY <1>2 DEF Chain
  <2> HIDE DEF u
  <2>2. QED  BY <1>3, <2>1
<1>5. QED  BY <1>4 DEF TreeWalk

LEMMA TreeItemsWalk ==
    ASSUME Tree!TreeAssumption, NEW h \in TreeHeap, NEW n \in Tree!Node
    PROVE  IF h[n].begin = Tree!NULL THEN Tree!Items(h, n) = << >>
           ELSE \E f : TreeWalk(f, h, n) /\ Tree!Items(h, n) = f[MaxNodes]
<1> DEFINE f == CHOOSE g :
                   g = [i \in 1..MaxNodes |->
                          IF i = 1 THEN <<h[n].begin>>
                          ELSE LET s == g[i - 1]
                                   x == h[Tree!Last(s)].next
                               IN  IF x = Tree!NULL THEN s ELSE Append(s, x)]
<1>1. Tree!Items(h, n) = IF h[n].begin = Tree!NULL THEN << >> ELSE f[MaxNodes]
  BY DEF Tree!Items
<1>2. ASSUME h[n].begin # Tree!NULL PROVE TreeWalk(f, h, n)
  <2>1. h[n].begin \in Tree!Node
    BY <1>2 DEF TreeHeap, TreeCell
  <2>2. QED  BY <2>1, TreeWalkExists DEF TreeWalk, TreeOneMore
<1> HIDE DEF f
<1>3. QED  BY <1>1, <1>2

\* The first i of a list, or all when there are not so many.
TreeFirst(s, i) == SubSeq(s, 1, IF i <= Len(s) THEN i ELSE Len(s))

LEMMA TreeFirstMore ==
    ASSUME NEW S, NEW s \in Seq(S), NEW i \in Nat, i # 0, i <= Len(s)
    PROVE  /\ TreeFirst(s, i) = Append(TreeFirst(s, i - 1), s[i])
           /\ TreeFirst(s, i - 1) \in Seq(S) /\ Len(TreeFirst(s, i - 1)) = i - 1
           /\ i # 1 => TreeFirst(s, i - 1)[i - 1] = s[i - 1]
<1>1. Len(s) \in Nat /\ i - 1 \in Nat /\ i - 1 <= Len(s) /\ i \in 1..Len(s)
  BY LenProperties
<1> DEFINE u == SubSeq(s, 1, i - 1)
           v == SubSeq(s, 1, i)
<1>2. u = TreeFirst(s, i - 1) /\ v = TreeFirst(s, i)
  BY <1>1 DEF TreeFirst
<1>3. /\ u \in Seq(S) /\ Len(u) = i - 1 /\ \A k \in 1..(i - 1) : u[k] = s[k]
      /\ v \in Seq(S) /\ Len(v) = i /\ \A k \in 1..i : v[k] = s[k]
  BY <1>1
<1>4. s[i] \in S
  BY <1>1, ElementOfSeq
<1> DEFINE w == Append(u, s[i])
<1>5. w \in Seq(S) /\ Len(w) = i /\ (\A k \in 1..(i - 1) : w[k] = s[k]) /\ w[i] = s[i]
  <2> HIDE DEF u, v
  <2>1. QED  BY <1>1, <1>3, <1>4, AppendProperties
<1>6. v = w
  <2> HIDE DEF u, v, w
  <2>1. \A k \in 1..i : k = i \/ k \in 1..(i - 1)
    BY <1>1
  <2>2. \A k \in 1..i : v[k] = w[k]
    BY <1>3, <1>5, <2>1
  <2>3. QED  BY <1>3, <1>5, <2>2, SeqEqual
<1>7. i # 1 => i - 1 \in 1..(i - 1)
  BY <1>1
<1>8. QED  BY <1>2, <1>3, <1>6, <1>7

LEMMA TreeItemsAre ==
    ASSUME Tree!TreeAssumption, NEW h \in TreeHeap, NEW n \in Tree!Node,
           NEW s, TreeLinks(h, n, s), Len(s) <= MaxNodes
    PROVE  Tree!Items(h, n) = s
<1>1. /\ s \in Seq(Tree!Node) /\ Len(s) \in Nat /\ MaxNodes \in Nat /\ Tree!NULL \notin Tree!Node
      /\ \A i \in 1..Len(s) : s[i] \in Tree!Node
  BY LenProperties, ElementOfSeq DEF TreeLinks, Tree!TreeAssumption, Tree!Node, Tree!NULL
<1>2. h[n].begin = TreeAt(s, 1)
  BY DEF TreeLinks
<1>3. CASE s = << >>
  <2>1. h[n].begin = Tree!NULL
    BY <1>2, <1>3, EmptySeq DEF TreeAt
  <2>2. QED  BY <1>3, <2>1, TreeItemsWalk
<1>4. CASE s # << >>
  <2>1. Len(s) # 0 /\ 1 \in 1..Len(s)
    BY <1>1, <1>4, EmptySeq
  <2>2. h[n].begin = s[1] /\ h[n].begin # Tree!NULL
    BY <1>1, <1>2, <2>1 DEF TreeAt
  <2>3. PICK f : TreeWalk(f, h, n) /\ Tree!Items(h, n) = f[MaxNodes]
    BY <2>2, TreeItemsWalk
  <2>4. SubSeq(s, 1, Len(s)) = s
    BY <1>1
  <2>5. \A i \in 1..MaxNodes : f[i] = TreeFirst(s, i)
    <3> DEFINE T == {i \in 1..MaxNodes : f[i] # TreeFirst(s, i)}
    <3>1. SUFFICES ASSUME T # {} PROVE FALSE
      OBVIOUS
    <3>2. PICK i \in T : \A j \in T : i <= j
      <4>1. T \in SUBSET Nat
        BY <1>1
      <4>2. QED  BY <3>1, <4>1, LeastNumber
    <3>3. i \in 1..MaxNodes /\ f[i] # TreeFirst(s, i)
      OBVIOUS
    <3>4. f[i] = IF i = 1 THEN <<s[1]>> ELSE TreeOneMore(h, f[i - 1])
      BY <2>2, <2>3, <3>3 DEF TreeWalk
    <3>5. i # 1
      <4>1. TreeFirst(s, 1) = <<s[1]>>
        <5> DEFINE p == SubSeq(s, 1, 1)
        <5>1. 1 <= Len(s)
          BY <1>1, <2>1
        <5>2. TreeFirst(s, 1) = p
          BY <5>1 DEF TreeFirst
        <5>3. p \in Seq(Tree!Node) /\ Len(p) = 1 /\ p[1] = s[1]
          BY <1>1, <5>1
        <5>4. /\ <<s[1]>> \in Seq(Tree!Node) /\ Len(<<s[1]>>) = 1
              /\ <<s[1]>>[1] = s[1]
          BY <1>1, <2>1
        <5> HIDE DEF p
        <5>5. \A k \in 1..1 : p[k] = <<s[1]>>[k]
          BY <5>3, <5>4
        <5>6. QED  BY <5>2, <5>3, <5>4, <5>5, SeqEqual
      <4>2. QED  BY <3>3, <3>4, <4>1
    <3>6. i - 1 \in 1..MaxNodes /\ ~(i <= i - 1) /\ (i - 1) + 1 = i /\ i \in Nat
      BY <1>1, <3>3, <3>5
    <3> DEFINE u == TreeFirst(s, i - 1)
               x == h[Tree!Last(u)].next
    <3>7. f[i - 1] = u
      BY <3>2, <3>6
    <3>8. f[i] = IF x = Tree!NULL THEN u ELSE Append(u, x)
      BY <3>4, <3>5, <3>7 DEF TreeOneMore
    <3>9. CASE i <= Len(s)
      <4>1. /\ TreeFirst(s, i) = Append(u, s[i]) /\ u \in Seq(Tree!Node) /\ Len(u) = i - 1
            /\ u[i - 1] = s[i - 1]
        BY <1>1, <3>5, <3>6, <3>9, TreeFirstMore
      <4>2. i - 1 \in 1..Len(s) /\ i \in 1..Len(s)
        BY <1>1, <3>5, <3>6, <3>9
      <4>3. x = TreeAt(s, i)
        <5>1. Tree!Last(u) = s[i - 1]
          BY <4>1 DEF Tree!Last
        <5>2. h[s[i - 1]].next = TreeAt(s, i)
          BY <3>6, <4>2 DEF TreeLinks
        <5>3. QED  BY <5>1, <5>2
      <4>4. x = s[i] /\ x # Tree!NULL
        BY <1>1, <4>2, <4>3 DEF TreeAt
      <4>5. QED  BY <3>3, <3>8, <4>1, <4>4
    <3>10. CASE ~(i <= Len(s))
      <4>1. TreeFirst(s, i) = s /\ u = s
        <5>1. i - 1 <= Len(s) => i - 1 = Len(s)
          BY <1>1, <3>6, <3>10
        <5>2. QED  BY <2>4, <3>10, <5>1 DEF TreeFirst
      <4>2. x = Tree!NULL
        <5>1. Len(s) \in 1..Len(s) /\ Len(s) + 1 \notin 1..Len(s)
          BY <1>1, <2>1
        <5>2. QED  BY <4>1, <5>1 DEF TreeLinks, TreeAt, Tree!Last
      <4>3. QED  BY <3>3, <3>8, <4>1, <4>2
    <3>11. QED  BY <3>9, <3>10
  <2>6. MaxNodes \in 1..MaxNodes
    BY <1>1, <2>1
  <2>7. TreeFirst(s, MaxNodes) = s
    <3>1. MaxNodes <= Len(s) => MaxNodes = Len(s)
      BY <1>1
    <3>2. QED  BY <2>4, <3>1 DEF TreeFirst
  <2>8. QED  BY <2>3, <2>5, <2>6, <2>7
<1>5. QED  BY <1>3, <1>4

LEMMA TreeToSet == ASSUME NEW s, DOMAIN s = 1..Len(s)
                   PROVE Tree!ToSet(s) = {s[i] : i \in 1..Len(s)}
  BY DEF Tree!ToSet

\* A list holds at most all nodes, and each once.
LEMMA TreeOnce ==
    ASSUME Tree!TreeAssumption, NEW s \in Seq(Tree!Node),
           \A i, j \in 1..Len(s) : s[i] = s[j] => i = j
    PROVE  /\ Len(s) \in Nat /\ Len(s) <= MaxNodes
           /\ Cardinality({s[i] : i \in 1..Len(s)}) = Len(s)
<1> DEFINE k == Len(s)
           S == {s[i] : i \in 1..k}
<1>1. k \in Nat /\ MaxNodes \in Nat /\ s \in [1..k -> Tree!Node]
  BY LenProperties DEF Tree!TreeAssumption
<1>2. IsFiniteSet(Tree!Node) /\ Cardinality(Tree!Node) = MaxNodes
  BY <1>1, FS_Interval DEF Tree!Node
<1>3. IsFiniteSet(1..k) /\ Cardinality(1..k) = k
  BY <1>1, FS_Interval
<1>4. s \in Injection(1..k, Tree!Node)
  BY <1>1 DEF Injection, IsInjective
<1>5. k <= MaxNodes
  BY <1>2, <1>3, <1>4, FS_Injection
<1>6. s \in Bijection(1..k, S)
  BY <1>1 DEF Bijection, Injection, Surjection, IsInjective
<1>7. Cardinality(S) = k
  <2>1. ExistsBijection(1..k, S)
    BY <1>6 DEF ExistsBijection
  <2> HIDE DEF S
  <2>2. QED  BY <1>1, <2>1, FS_CountingElements
<1>8. QED  BY <1>1, <1>5, <1>7

LEMMA TreeItemsList ==
    ASSUME Tree!TreeAssumption, NEW h \in TreeHeap, NEW n \in Tree!Node,
           NEW s, TreeList(h, n, s)
    PROVE  /\ Tree!Items(h, n) = s /\ s \in Seq(Tree!Node)
           /\ Len(s) \in Nat /\ Len(s) <= MaxNodes /\ DOMAIN s = 1..Len(s)
           /\ Tree!ToSet(s) = TreeKids(h, n) /\ Cardinality(Tree!ToSet(s)) = Len(s)
           /\ \A i \in 1..Len(s) : s[i] \in Tree!Node
<1>1. s \in Seq(Tree!Node) /\ \A i, j \in 1..Len(s) : s[i] = s[j] => i = j
  BY DEF TreeList, TreeLinks
<1>2. /\ Len(s) \in Nat /\ Len(s) <= MaxNodes
      /\ Cardinality({s[i] : i \in 1..Len(s)}) = Len(s)
  BY <1>1, TreeOnce
<1>3. DOMAIN s = 1..Len(s) /\ \A i \in 1..Len(s) : s[i] \in Tree!Node
  BY <1>1, LenProperties, ElementOfSeq
<1>4. Tree!Items(h, n) = s
  BY <1>2, TreeItemsAre DEF TreeList
<1>5. {s[i] : i \in 1..Len(s)} = TreeKids(h, n)
  <2> DEFINE K == TreeKids(h, n)
  <2>1. /\ \A i \in 1..Len(s) : s[i] \in K
        /\ \A x \in K : \E i \in 1..Len(s) : s[i] = x
    BY DEF TreeList
  <2> HIDE DEF K
  <2>2. {s[i] : i \in 1..Len(s)} = K
    BY <2>1
  <2>3. QED  BY <2>2 DEF K
<1>6. Tree!ToSet(s) = {s[i] : i \in 1..Len(s)}
  BY <1>3, TreeToSet
<1>7. Tree!ToSet(s) = TreeKids(h, n)
  BY <1>5, <1>6
<1>8. Cardinality(Tree!ToSet(s)) = Len(s)
  BY <1>2, <1>6
<1>9. QED  BY <1>1, <1>2, <1>3, <1>4, <1>7, <1>8

-----------------------------------------------------------------------------
(* What is below a node.                                                   *)

TreeLive(h) == {x \in Tree!Node : Tree!Live(h, x)}

\* One generation after the other: all so far, and the last.
TreeReach(f, h, n) ==
    f = [depth \in 1..MaxNodes |->
            IF depth = 1 THEN [all |-> {n}, last |-> {n}]
            ELSE LET b == f[depth - 1]
                     more == UNION {Tree!ToSet(Tree!Items(h, x)) : x \in b.last}
                 IN  [all |-> b.all \cup more, last |-> more]]

\* Who has a parent in b.
TreeUnder(h, b) == {y \in Tree!Node : Tree!Live(h, y) /\ h[y].parent \in b}

LEMMA TreeUnderIs ==
    ASSUME Tree!TreeAssumption, NEW h \in TreeHeap, TreeSound(h), NEW b \in SUBSET TreeLive(h)
    PROVE  UNION {Tree!ToSet(Tree!Items(h, x)) : x \in b} = TreeUnder(h, b)
<1>1. ASSUME NEW x \in b PROVE Tree!ToSet(Tree!Items(h, x)) = TreeKids(h, x)
  <2>1. x \in Tree!Node /\ Tree!Live(h, x)
    BY DEF TreeLive
  <2>2. PICK s : TreeList(h, x, s)
    BY <2>1 DEF TreeSound
  <2>3. QED  BY <2>1, <2>2, TreeItemsList
<1>2. TreeUnder(h, b) = UNION {TreeKids(h, x) : x \in b}
  BY DEF TreeUnder, TreeKids
<1>3. QED  BY <1>1, <1>2

TreeAges(h) == [all : SUBSET TreeLive(h), last : SUBSET TreeLive(h)]

\* The next generation.
TreeAge(h, b) ==
    [all |-> b.all \cup TreeUnder(h, b.last), last |-> TreeUnder(h, b.last)]

LEMMA TreeAgeIs ==
    ASSUME Tree!TreeAssumption, NEW h \in TreeHeap, TreeSound(h), NEW b \in TreeAges(h)
    PROVE  /\ TreeAge(h, b) \in TreeAges(h)
           /\ TreeAge(h, b) =
                 LET more == UNION {Tree!ToSet(Tree!Items(h, x)) : x \in b.last}
                 IN  [all |-> b.all \cup more, last |-> more]
<1>1. b.all \in SUBSET TreeLive(h) /\ b.last \in SUBSET TreeLive(h)
  BY DEF TreeAges
<1>2. UNION {Tree!ToSet(Tree!Items(h, x)) : x \in b.last} = TreeUnder(h, b.last)
  BY <1>1, TreeUnderIs
<1>3. TreeUnder(h, b.last) \in SUBSET TreeLive(h)
  BY DEF TreeUnder, TreeLive
<1>4. TreeAge(h, b) \in TreeAges(h)
  BY <1>1, <1>3 DEF TreeAge, TreeAges
<1>5. QED  BY <1>2, <1>4 DEF TreeAge

LEMMA TreeReachExists ==
    ASSUME Tree!TreeAssumption, NEW h \in TreeHeap, TreeSound(h),
           NEW n \in Tree!Node, Tree!Live(h, n)
    PROVE  \E f : TreeReach(f, h, n)
<1> DEFINE V == TreeAges(h)
           g == [b \in V |-> TreeAge(h, b)]
           a == [all |-> {n}, last |-> {n}]
<1>1. a \in V /\ MaxNodes \in Nat /\ g \in [V -> V]
  <2>1. {n} \in SUBSET TreeLive(h) /\ MaxNodes \in Nat
    BY DEF TreeLive, Tree!TreeAssumption
  <2>2. a \in V
    BY <2>1 DEF TreeAges
  <2>3. g \in [V -> V]
    BY TreeAgeIs
  <2>4. QED  BY <2>1, <2>2, <2>3
<1>2. PICK f : Chain(f, V, a, g, MaxNodes)
  <2>1. a \in V /\ MaxNodes \in Nat /\ g \in [V -> V]
    BY <1>1
  <2> HIDE DEF V, a, g
  <2>2. QED  BY <2>1, ChainExists
<1> DEFINE u == [i \in 1..MaxNodes |->
                   IF i = 1 THEN a
                   ELSE LET b == f[i - 1]
                            more == UNION {Tree!ToSet(Tree!Items(h, x)) : x \in b.last}
                        IN  [all |-> b.all \cup more, last |-> more]]
<1>3. ASSUME NEW i \in 1..MaxNodes PROVE f[i] = u[i]
  <2>1. CASE i = 1
    BY <1>2, <2>1 DEF Chain
  <2>2. CASE i # 1
    <3>1. i - 1 \in 1..MaxNodes
      BY <1>1, <2>2
    <3> DEFINE b == f[i - 1]
    <3>2. b \in V /\ f[i] = TreeAge(h, b)
      BY <1>2, <2>2, <3>1 DEF Chain
    <3>3. u[i] = LET more == UNION {Tree!ToSet(Tree!Items(h, x)) : x \in b.last}
                 IN  [all |-> b.all \cup more, last |-> more]
      BY <2>2
    <3> HIDE DEF b, u
    <3>4. QED  BY <3>2, <3>3, TreeAgeIs
  <2>3. QED  BY <2>1, <2>2
<1>4. f = u
  <2>1. f = [i \in 1..MaxNodes |-> f[i]] /\ u = [i \in 1..MaxNodes |-> u[i]]
    BY <1>2 DEF Chain
  <2> HIDE DEF u
  <2>2. QED  BY <1>3, <2>1
<1>5. QED  BY <1>4 DEF TreeReach

LEMMA TreeBelowReach ==
    ASSUME Tree!TreeAssumption, NEW h \in TreeHeap, TreeSound(h),
           NEW n \in Tree!Node, Tree!Live(h, n)
    PROVE  \E f : TreeReach(f, h, n) /\ Tree!Below(h, n) = f[MaxNodes].all
<1> DEFINE f == CHOOSE g :
                   g = [depth \in 1..MaxNodes |->
                          IF depth = 1 THEN [all |-> {n}, last |-> {n}]
                          ELSE LET b == g[depth - 1]
                                   more == UNION {Tree!ToSet(Tree!Items(h, x)) : x \in b.last}
                               IN  [all |-> b.all \cup more, last |-> more]]
<1>1. TreeReach(f, h, n)
  BY TreeReachExists DEF TreeReach
<1>2. Tree!Below(h, n) = f[MaxNodes].all
  BY DEF Tree!Below
<1> HIDE DEF f
<1>3. QED  BY <1>1, <1>2

\* With every generation come the children of all before it.
TreeSteps(f, h, n) ==
    /\ \A i \in 1..MaxNodes : f[i] \in SUBSET TreeLive(h)
    /\ \A i \in 1..MaxNodes :
          f[i] = IF i = 1 THEN {n} ELSE f[i - 1] \cup TreeUnder(h, f[i - 1])

\* Only the children of the last are missing.
TreeAged(h, b) ==
    /\ b \in TreeAges(h) /\ b.last \subseteq b.all
    /\ TreeUnder(h, b.all) \subseteq b.all \cup TreeUnder(h, b.last)

LEMMA TreeAges1 ==
    ASSUME Tree!TreeAssumption, NEW h \in TreeHeap, TreeSound(h), NEW b, TreeAged(h, b),
           NEW c, c = LET more == UNION {Tree!ToSet(Tree!Items(h, x)) : x \in b.last}
                      IN  [all |-> b.all \cup more, last |-> more]
    PROVE  TreeAged(h, c) /\ c.all = b.all \cup TreeUnder(h, b.all)
<1>1. b \in TreeAges(h)
  BY DEF TreeAged
<1>2. c = TreeAge(h, b) /\ c \in TreeAges(h)
  BY <1>1, TreeAgeIs
<1>3. c.last = TreeUnder(h, b.last) /\ c.all = b.all \cup TreeUnder(h, b.last)
  BY <1>2 DEF TreeAge
<1>4. TreeUnder(h, c.all) = TreeUnder(h, b.all) \cup TreeUnder(h, c.last)
  BY <1>3 DEF TreeUnder
<1>5. TreeUnder(h, b.last) \subseteq TreeUnder(h, b.all)
  BY DEF TreeAged, TreeUnder
<1>6. TreeUnder(h, b.all) \subseteq b.all \cup TreeUnder(h, b.last)
  BY DEF TreeAged
<1>7. QED  BY <1>2, <1>3, <1>4, <1>5, <1>6 DEF TreeAged

LEMMA TreeGenerations ==
    ASSUME Tree!TreeAssumption, NEW h \in TreeHeap, TreeSound(h),
           NEW n \in Tree!Node, Tree!Live(h, n), NEW f, TreeReach(f, h, n)
    PROVE  TreeSteps([i \in 1..MaxNodes |-> f[i].all], h, n)
<1> DEFINE e == [i \in 1..MaxNodes |-> f[i].all]
<1>1. MaxNodes \in Nat /\ {n} \in SUBSET TreeLive(h)
  BY DEF Tree!TreeAssumption, TreeLive
<1>2. ASSUME NEW i \in 1..MaxNodes, i = 1 \/ TreeAged(h, f[i - 1])
      PROVE  /\ TreeAged(h, f[i])
             /\ f[i].all = IF i = 1 THEN {n} ELSE f[i - 1].all \cup TreeUnder(h, f[i - 1].all)
  <2>1. CASE i = 1
    <3>1. f[i] = [all |-> {n}, last |-> {n}]
      BY <2>1 DEF TreeReach
    <3>2. f[i].all = {n} /\ f[i].last = {n} /\ f[i] \in TreeAges(h)
      BY <1>1, <3>1 DEF TreeAges
    <3>3. QED  BY <2>1, <3>2 DEF TreeAged
  <2>2. CASE i # 1
    <3> DEFINE b == f[i - 1]
    <3>1. f[i] = LET more == UNION {Tree!ToSet(Tree!Items(h, x)) : x \in b.last}
                 IN  [all |-> b.all \cup more, last |-> more]
      BY <2>2 DEF TreeReach
    <3>2. TreeAged(h, b)
      BY <1>2, <2>2
    <3> HIDE DEF b
    <3>3. TreeAged(h, f[i]) /\ f[i].all = b.all \cup TreeUnder(h, b.all)
      BY <3>1, <3>2, TreeAges1
    <3>4. QED  BY <2>2, <3>3 DEF b
  <2>3. QED  BY <2>1, <2>2
<1>3. \A i \in 1..MaxNodes : TreeAged(h, f[i])
  <2> DEFINE T == {i \in 1..MaxNodes : ~TreeAged(h, f[i])}
  <2>1. SUFFICES ASSUME T # {} PROVE FALSE
    OBVIOUS
  <2>2. PICK i \in T : \A j \in T : i <= j
    <3>1. T \in SUBSET Nat
      BY <1>1
    <3>2. QED  BY <2>1, <3>1, LeastNumber
  <2>3. i \in 1..MaxNodes /\ ~TreeAged(h, f[i])
    OBVIOUS
  <2>4. i = 1 \/ TreeAged(h, f[i - 1])
    <3>1. i # 1 => i - 1 \in 1..MaxNodes /\ ~(i <= i - 1)
      BY <1>1, <2>3
    <3>2. QED  BY <2>2, <3>1
  <2>5. QED  BY <1>2, <2>3, <2>4
<1>4. ASSUME NEW i \in 1..MaxNodes
      PROVE  /\ e[i] \in SUBSET TreeLive(h)
             /\ e[i] = IF i = 1 THEN {n} ELSE e[i - 1] \cup TreeUnder(h, e[i - 1])
  <2>1. i = 1 \/ i - 1 \in 1..MaxNodes
    BY <1>1
  <2>2. f[i].all \in SUBSET TreeLive(h)
    BY <1>3 DEF TreeAged, TreeAges
  <2>3. f[i].all = IF i = 1 THEN {n} ELSE f[i - 1].all \cup TreeUnder(h, f[i - 1].all)
    BY <1>2, <1>3, <2>1
  <2>4. e[i] = f[i].all /\ (i # 1 => e[i - 1] = f[i - 1].all)
    BY <2>1
  <2> HIDE DEF e
  <2>5. QED  BY <2>2, <2>3, <2>4
<1> HIDE DEF e
<1>5. TreeSteps(e, h, n)
  BY <1>4 DEF TreeSteps
<1>6. QED  BY <1>5 DEF e

LEMMA TreeBelowSteps ==
    ASSUME Tree!TreeAssumption, NEW h \in TreeHeap, TreeSound(h),
           NEW n \in Tree!Node, Tree!Live(h, n)
    PROVE  \E f : TreeSteps(f, h, n) /\ Tree!Below(h, n) = f[MaxNodes]
<1>1. PICK f : TreeReach(f, h, n) /\ Tree!Below(h, n) = f[MaxNodes].all
  BY TreeBelowReach
<1> DEFINE e == [i \in 1..MaxNodes |-> f[i].all]
<1>2. TreeSteps(e, h, n)
  BY <1>1, TreeGenerations
<1>3. e[MaxNodes] = f[MaxNodes].all
  BY DEF Tree!TreeAssumption, Tree!Node
<1> HIDE DEF e
<1>4. QED  BY <1>1, <1>2, <1>3

\* A generation at least as large as its number, or the last.
TreeGrown(f, h, n, i) ==
    /\ n \in f[i] /\ \A y \in f[i] : y = n \/ h[y].parent \in f[i]
    /\ TreeUnder(h, f[i]) \subseteq f[i] \/ Cardinality(f[i]) >= i
    /\ \A S \in SUBSET Tree!Node : TreeClosed(h, S) /\ n \in S => f[i] \subseteq S

LEMMA TreeFinite ==
    ASSUME Tree!TreeAssumption, NEW b, b \subseteq Tree!Node
    PROVE  /\ IsFiniteSet(b) /\ Cardinality(b) \in Nat /\ Cardinality(b) <= MaxNodes
           /\ Cardinality(b) = MaxNodes => b = Tree!Node
<1>1. IsFiniteSet(Tree!Node) /\ Cardinality(Tree!Node) = MaxNodes
  BY FS_Interval DEF Tree!Node, Tree!TreeAssumption
<1>2. QED  BY <1>1, FS_Subset, FS_CardinalityType

LEMMA TreeGrows ==
    ASSUME Tree!TreeAssumption, NEW h \in TreeHeap, TreeSound(h),
           NEW n \in Tree!Node, Tree!Live(h, n), NEW f, TreeSteps(f, h, n)
    PROVE  \A i \in 1..MaxNodes : TreeGrown(f, h, n, i)
<1>1. /\ \A i \in 1..MaxNodes : f[i] \in SUBSET TreeLive(h)
      /\ \A i \in 1..MaxNodes :
            f[i] = IF i = 1 THEN {n} ELSE f[i - 1] \cup TreeUnder(h, f[i - 1])
  BY DEF TreeSteps
<1>2. MaxNodes \in Nat
  BY DEF Tree!TreeAssumption
<1>3. ASSUME NEW i \in 1..MaxNodes, i = 1 \/ TreeGrown(f, h, n, i - 1) PROVE TreeGrown(f, h, n, i)
  <2>1. CASE i = 1
    <3>1. f[i] = {n} /\ Cardinality({n}) = 1
      BY <1>1, <2>1, FS_Singleton
    <3>2. Cardinality(f[i]) >= i
      BY <2>1, <3>1
    <3>3. QED  BY <3>1, <3>2 DEF TreeGrown
  <2>2. CASE i # 1
    <3> DEFINE a == f[i - 1]
               u == TreeUnder(h, a)
               b == f[i]
    <3>1. i - 1 \in 1..MaxNodes /\ i \in Nat
      BY <1>2, <2>2
    <3>2. /\ a \in SUBSET TreeLive(h) /\ b = a \cup u /\ b \in SUBSET TreeLive(h)
          /\ u \in SUBSET TreeLive(h) /\ TreeLive(h) \subseteq Tree!Node
      BY <1>1, <2>2, <3>1 DEF TreeLive, TreeUnder
    <3>3. /\ n \in a /\ \A y \in a : y = n \/ h[y].parent \in a
          /\ u \subseteq a \/ Cardinality(a) >= i - 1
          /\ \A S \in SUBSET Tree!Node : TreeClosed(h, S) /\ n \in S => a \subseteq S
      BY <1>3, <2>2 DEF TreeGrown
    <3>4. \A y \in u : h[y].parent \in a
      BY DEF TreeUnder
    <3>5. \A S \in SUBSET Tree!Node : TreeClosed(h, S) /\ a \subseteq S => u \subseteq S
      BY DEF TreeUnder, TreeClosed
    <3> HIDE DEF a, u, b
    <3>6. n \in b /\ \A y \in b : y = n \/ h[y].parent \in b
      BY <3>2, <3>3, <3>4
    <3>7. \A S \in SUBSET Tree!Node : TreeClosed(h, S) /\ n \in S => b \subseteq S
      BY <3>2, <3>3, <3>5
    <3>8. TreeUnder(h, b) \subseteq b \/ Cardinality(b) >= i
      <4>1. CASE u \subseteq a
        <5>1. b = a
          BY <3>2, <4>1
        <5>2. QED  BY <4>1, <5>1 DEF u
      <4>2. CASE ~(u \subseteq a)
        <5>1. PICK y \in u : y \notin a
          BY <4>2
        <5>2. /\ IsFiniteSet(a) /\ IsFiniteSet(b) /\ Cardinality(b) \in Nat
              /\ Cardinality(a) \in Nat /\ Cardinality(a) >= i - 1
          <6>1. a \subseteq Tree!Node /\ b \subseteq Tree!Node
            BY <3>2
          <6>2. QED  BY <3>3, <4>2, <6>1, TreeFinite
        <5>3. Cardinality(a \cup {y}) = Cardinality(a) + 1
          BY <5>1, <5>2, FS_AddElement
        <5>4. a \cup {y} \in SUBSET b
          BY <3>2, <5>1
        <5>5. Cardinality(a \cup {y}) <= Cardinality(b)
          BY <5>2, <5>4, FS_Subset
        <5>6. QED  BY <3>1, <5>2, <5>3, <5>5
      <4>3. QED  BY <4>1, <4>2
    <3>9. QED  BY <3>6, <3>7, <3>8 DEF TreeGrown, b
  <2>3. QED  BY <2>1, <2>2
<1>4. QED
  <2> DEFINE T == {i \in 1..MaxNodes : ~TreeGrown(f, h, n, i)}
  <2>1. SUFFICES ASSUME T # {} PROVE FALSE
    OBVIOUS
  <2>2. PICK i \in T : \A j \in T : i <= j
    <3>1. T \in SUBSET Nat
      BY <1>2
    <3>2. QED  BY <2>1, <3>1, LeastNumber
  <2>3. i \in 1..MaxNodes /\ ~TreeGrown(f, h, n, i)
    OBVIOUS
  <2>4. i = 1 \/ TreeGrown(f, h, n, i - 1)
    <3>1. i # 1 => i - 1 \in 1..MaxNodes /\ ~(i <= i - 1)
      BY <1>2, <2>3
    <3>2. QED  BY <2>2, <3>1
  <2>5. QED  BY <1>3, <2>3, <2>4

\* A node and all below it are a tree of their own, and no other is.
LEMMA TreeBelowIs ==
    ASSUME Tree!TreeAssumption, NEW h \in TreeHeap, TreeSound(h),
           NEW n \in Tree!Node, Tree!Live(h, n), NEW B, B = Tree!Below(h, n)
    PROVE  /\ B \in SUBSET Tree!Node /\ TreeClosed(h, B) /\ n \in B
           /\ \A y \in B : y = n \/ h[y].parent \in B
           /\ h[n].parent \notin B
           /\ \A S \in SUBSET Tree!Node : TreeClosed(h, S) /\ n \in S => B \subseteq S
<1>1. PICK f : TreeSteps(f, h, n) /\ B = f[MaxNodes]
  BY TreeBelowSteps
<1>2. MaxNodes \in 1..MaxNodes
  BY DEF Tree!Node, Tree!TreeAssumption
<1>3. B \in SUBSET TreeLive(h)
  BY <1>1, <1>2 DEF TreeSteps
<1>4. TreeGrown(f, h, n, MaxNodes)
  BY <1>1, <1>2, TreeGrows
<1>5. /\ n \in B /\ \A y \in B : y = n \/ h[y].parent \in B
      /\ TreeUnder(h, B) \subseteq B \/ Cardinality(B) >= MaxNodes
      /\ \A S \in SUBSET Tree!Node : TreeClosed(h, S) /\ n \in S => B \subseteq S
  BY <1>1, <1>4 DEF TreeGrown
<1>6. B \subseteq Tree!Node /\ \A y \in B : Tree!Live(h, y)
  BY <1>3 DEF TreeLive
<1>7. TreeUnder(h, B) \subseteq B
  <2>1. CASE Cardinality(B) >= MaxNodes
    <3>1. B = Tree!Node
      BY <1>6, <2>1, TreeFinite DEF Tree!TreeAssumption
    <3>2. QED  BY <3>1 DEF TreeUnder
  <2>2. QED  BY <1>5, <2>1
<1>8. TreeClosed(h, B)
  BY <1>6, <1>7 DEF TreeClosed, TreeUnder
<1>9. h[n].parent \notin B
  <2>1. PICK S \in SUBSET Tree!Node : TreeClosed(h, S) /\ n \in S /\ h[n].parent \notin S
    BY DEF TreeSound, TreeRooted
  <2>2. QED  BY <1>5, <2>1
<1>10. QED  BY <1>5, <1>6, <1>8, <1>9

-----------------------------------------------------------------------------
(* What is left alone and what is new.                                     *)

LEMMA TreeListKept ==
    ASSUME NEW h, NEW n, NEW s, TreeList(h, n, s), NEW g,
           g[n].begin = h[n].begin, g[n].end = h[n].end, g[n].count = h[n].count,
           g[n].children = h[n].children,
           \A i \in 1..Len(s) : g[s[i]].next = h[s[i]].next /\ g[s[i]].prev = h[s[i]].prev,
           TreeKids(g, n) = TreeKids(h, n),
           \A m \in Tree!Node : h[m].type = "freed" => g[m].type = "freed"
    PROVE  TreeList(g, n, s)
<1>1. /\ s \in Seq(Tree!Node) /\ h[n].begin = TreeAt(s, 1)
      /\ \A i \in 1..Len(s) : h[s[i]].next = TreeAt(s, i + 1)
  BY DEF TreeList, TreeLinks
<1>2. Len(s) \in Nat
  BY <1>1, LenProperties
<1>3. TreeLinks(g, n, s)
  BY <1>1 DEF TreeLinks
<1>4. \A i \in 2..Len(s) : g[s[i]].prev = s[i - 1]
  <2>1. \A i \in 2..Len(s) : i \in 1..Len(s) /\ h[s[i]].prev = s[i - 1]
    BY <1>2 DEF TreeList
  <2>2. QED  BY <2>1
<1>5. Len(s) # 0 => g[s[1]].prev \in {Tree!NULL, Tree!Header} /\ g[n].end = s[Len(s)]
  <2>1. Len(s) # 0 => 1 \in 1..Len(s)
    BY <1>2
  <2>2. QED  BY <2>1 DEF TreeList
<1>6. Len(s) = 0 => \/ g[n].end = Tree!Header
                    \/ g[n].end \in Tree!Node /\ g[g[n].end].type = "freed"
  BY DEF TreeList
<1>7. /\ \A i, j \in 1..Len(s) : s[i] = s[j] => i = j
      /\ \A i \in 1..Len(s) : s[i] \in TreeKids(g, n)
      /\ \A y \in TreeKids(g, n) : \E i \in 1..Len(s) : s[i] = y
      /\ g[n].count = Len(s) /\ g[n].children = Len(s)
  BY DEF TreeList
<1>8. QED  BY <1>3, <1>4, <1>5, <1>6, <1>7 DEF TreeList

\* The node f of h is used.
TreeUsed(h, g, f, type, key) == g = [h EXCEPT ![f] = Tree!Empty(type, key)]

TreeNewIs(h, g, f) ==
    /\ g \in TreeHeap /\ TreeSound(g) /\ Tree!Live(g, f)
    /\ g[f].parent = Tree!NULL /\ TreeClosed(g, {f})
    /\ \A m \in Tree!Node : m # f => g[m] = h[m]
    /\ \A S \in SUBSET Tree!Node : TreeClosed(h, S) => TreeClosed(g, S) /\ f \notin S

LEMMA TreeNewSound ==
    ASSUME Tree!TreeAssumption, NEW h \in TreeHeap, TreeSound(h),
           NEW f \in Tree!Node, h[f].type = "unused",
           \A m \in Tree!Node : h[m].type = "unused" => f <= m,
           NEW type \in Tree!Type, NEW key \in Key \cup {"none"},
           NEW g, TreeUsed(h, g, f, type, key)
    PROVE  TreeNewIs(h, g, f)
<1> DEFINE e == Tree!Empty(type, key)
<1>1. /\ e \in TreeCell /\ e.type \in Tree!Type /\ e.parent = Tree!NULL
      /\ e.begin = Tree!NULL /\ e.end = Tree!Header /\ e.count = 0 /\ e.children = 0
  BY DEF Tree!Empty, TreeCell
<1> HIDE DEF e
<1>2. g \in TreeHeap /\ g[f] = e /\ \A m \in Tree!Node : m # f => g[m] = h[m]
  <2>1. g = [h EXCEPT ![f] = e]
    BY DEF TreeUsed, e
  <2>2. QED  BY <1>1, <2>1 DEF TreeHeap
<1>3. Tree!NULL \notin Tree!Node /\ ~Tree!Live(h, f) /\ Tree!Live(g, f) /\ Tree!Node \subseteq Nat
  BY <1>1, <1>2 DEF Tree!NULL, Tree!Node, Tree!Live, Tree!Type
<1>4. \A m \in Tree!Node : m # f => (Tree!Live(g, m) <=> Tree!Live(h, m))
  BY <1>2 DEF Tree!Live
<1>5. \A m \in Tree!Node : Tree!Live(h, m) => h[m].parent # f
  BY <1>3 DEF TreeSound
<1>6. \A m \in Tree!Node : m # f => TreeKids(g, m) = TreeKids(h, m)
  <2>1. SUFFICES ASSUME NEW m \in Tree!Node, m # f, NEW y \in Tree!Node
                 PROVE  y \in TreeKids(g, m) <=> y \in TreeKids(h, m)
    BY DEF TreeKids
  <2>2. QED  BY <1>1, <1>2, <1>3, <1>4 DEF TreeKids
<1>7. TreeKids(g, f) = {}
  BY <1>1, <1>2, <1>3, <1>4, <1>5 DEF TreeKids
<1>8. TreeList(g, f, << >>)
  <2>1. << >> \in Seq(Tree!Node) /\ Len(<< >>) = 0
    BY EmptySeq
  <2>2. TreeLinks(g, f, << >>)
    BY <1>1, <1>2, <2>1 DEF TreeLinks, TreeAt
  <2>3. g[f].count = 0 /\ g[f].children = 0 /\ g[f].end = Tree!Header
    BY <1>1, <1>2
  <2> DEFINE s == << >>
  <2>4. TreeLinks(g, f, s) /\ Len(s) = 0
    BY <2>1, <2>2
  <2> HIDE DEF s
  <2>5. \A i \in 1..Len(s) : FALSE
    BY <2>4
  <2>6. \A i \in 2..Len(s) : FALSE
    BY <2>4
  <2>7. TreeList(g, f, s)
    BY <1>7, <2>3, <2>4, <2>5, <2>6 DEF TreeList
  <2>8. QED  BY <2>7 DEF s
<1>9. TreeClosed(g, {f})
  BY <1>1, <1>2, <1>3, <1>4, <1>5 DEF TreeClosed
<1>10. \A S \in SUBSET Tree!Node : TreeClosed(h, S) => TreeClosed(g, S) /\ f \notin S
  BY <1>1, <1>2, <1>3, <1>4 DEF TreeClosed
<1>11. ASSUME NEW m \in Tree!Node, Tree!Live(g, m)
       PROVE  /\ \E s \in Seq(Tree!Node) : TreeList(g, m, s)
              /\ g[m].parent = Tree!NULL \/ Tree!Live(g, g[m].parent)
              /\ TreeRooted(g, m)
  <2>1. CASE m = f
    <3>1. << >> \in Seq(Tree!Node)
      BY EmptySeq
    <3>2. TreeRooted(g, f)
      BY <1>1, <1>2, <1>3, <1>9 DEF TreeRooted
    <3>3. QED  BY <1>1, <1>2, <1>8, <2>1, <3>1, <3>2
  <2>2. CASE m # f
    <3>1. /\ Tree!Live(h, m) /\ g[m] = h[m] /\ TreeKids(g, m) = TreeKids(h, m)
      BY <1>2, <1>4, <1>6, <1>11, <2>2
    <3>2. PICK s \in Seq(Tree!Node) : TreeList(h, m, s)
      BY <3>1 DEF TreeSound
    <3>3. \A i \in 1..Len(s) : g[s[i]] = h[s[i]]
      <4>1. ASSUME NEW i \in 1..Len(s) PROVE s[i] \in Tree!Node /\ s[i] # f
        BY <1>3, <3>2 DEF TreeList, TreeKids
      <4>2. QED  BY <1>2, <4>1
    <3>4. \A k \in Tree!Node : h[k].type = "freed" => g[k].type = "freed"
      BY <1>2
    <3>5. TreeList(g, m, s)
      BY <3>1, <3>2, <3>3, <3>4, TreeListKept
    <3>6. g[m].parent = Tree!NULL \/ Tree!Live(g, g[m].parent)
      <4>1. h[m].parent = Tree!NULL \/ Tree!Live(h, h[m].parent)
        BY <3>1 DEF TreeSound
      <4>2. h[m].parent \in Tree!Node \cup {Tree!NULL} /\ h[m].parent # f
        BY <1>5, <3>1 DEF TreeHeap, TreeCell
      <4>3. QED  BY <1>4, <3>1, <4>1, <4>2
    <3>7. TreeRooted(g, m)
      <4>1. PICK S \in SUBSET Tree!Node : TreeClosed(h, S) /\ m \in S /\ h[m].parent \notin S
        BY <3>1 DEF TreeSound, TreeRooted
      <4>2. QED  BY <1>10, <3>1, <4>1 DEF TreeRooted
    <3>8. QED  BY <3>5, <3>6, <3>7
  <2>3. QED  BY <2>1, <2>2
<1>12. ASSUME NEW a \in Tree!Node, NEW b \in Tree!Node, g[a].type = "unused", a <= b
       PROVE  g[b].type = "unused"
  <2>1. "unused" \notin Tree!Type
    BY DEF Tree!Type
  <2>2. a # f /\ h[a].type = "unused"
    BY <1>1, <1>2, <1>12, <2>1
  <2>3. f <= a /\ h[b].type = "unused"
    BY <1>12, <2>2 DEF TreeSound
  <2>4. b # f
    BY <1>3, <1>12, <2>2, <2>3
  <2>5. QED  BY <1>2, <2>3, <2>4
<1>13. TreeSound(g)
  BY <1>11, <1>12 DEF TreeSound
<1>14. QED  BY <1>1, <1>2, <1>3, <1>9, <1>10, <1>13 DEF TreeNewIs

-----------------------------------------------------------------------------
(* What an addition writes.                                                *)

\* g is h with x as a child of n behind p of the children s.
TreeWith(h, g, n, x, s, p) ==
    /\ g \in TreeHeap
    /\ \A m \in Tree!Node :
          /\ g[m].type = h[m].type
          /\ g[m].parent = IF m = x THEN n ELSE h[m].parent
          /\ g[m].children = IF m = n THEN h[m].children + 1 ELSE h[m].children
          /\ g[m].count = IF m = n THEN h[m].count + 1 ELSE h[m].count
          /\ g[m].begin = IF m = n /\ p = 0 THEN x ELSE h[m].begin
          /\ g[m].end = IF m = n /\ p = Len(s) THEN x ELSE h[m].end
          /\ m # x /\ (p = 0 \/ m # s[p]) => g[m].next = h[m].next
          /\ m # x /\ (p = Len(s) \/ m # s[p + 1]) => g[m].prev = h[m].prev
    /\ g[x].next = TreeAt(s, p + 1)
    /\ IF p = 0 THEN g[x].prev \in {Tree!NULL, Tree!Header} ELSE g[x].prev = s[p]
    /\ p # 0 => g[s[p]].next = x
    /\ p # Len(s) => g[s[p + 1]].prev = x

\* The fields that node_attach and node_insert set themselves.
TreeMark(h, g, n, x) ==
    /\ g \in TreeHeap
    /\ \A m \in Tree!Node :
          /\ g[m].type = h[m].type /\ g[m].next = h[m].next /\ g[m].prev = h[m].prev
          /\ g[m].begin = h[m].begin /\ g[m].end = h[m].end /\ g[m].count = h[m].count
          /\ g[m].parent = IF m = x THEN n ELSE h[m].parent
          /\ g[m].children = IF m = n THEN h[m].children + 1 ELSE h[m].children

LEMMA TreeMarked ==
    ASSUME NEW h \in TreeHeap, NEW n \in Tree!Node, NEW x \in Tree!Node, x # n,
           NEW g, g = [h EXCEPT ![x].parent = n, ![n].children = @ + 1]
    PROVE  TreeMark(h, g, n, x)
<1> DEFINE a == [h[x] EXCEPT !.parent = n]
           b == [h[n] EXCEPT !.children = @ + 1]
<1>1. h[x] \in TreeCell /\ h[n] \in TreeCell
  BY DEF TreeHeap
<1>2. /\ a \in TreeCell /\ a.type = h[x].type /\ a.next = h[x].next /\ a.prev = h[x].prev
      /\ a.begin = h[x].begin /\ a.end = h[x].end /\ a.count = h[x].count
      /\ a.parent = n /\ a.children = h[x].children
  BY <1>1 DEF TreeCell
<1>3. /\ b \in TreeCell /\ b.type = h[n].type /\ b.next = h[n].next /\ b.prev = h[n].prev
      /\ b.begin = h[n].begin /\ b.end = h[n].end /\ b.count = h[n].count
      /\ b.parent = h[n].parent /\ b.children = h[n].children + 1
  BY <1>1 DEF TreeCell
<1>4. g = [h EXCEPT ![x] = a, ![n] = b]
  BY DEF TreeHeap
<1> HIDE DEF a, b
<1>5. /\ g \in TreeHeap /\ g[x] = a /\ g[n] = b
      /\ \A m \in Tree!Node : m # x /\ m # n => g[m] = h[m]
  BY <1>2, <1>3, <1>4 DEF TreeHeap
<1>6. ASSUME NEW m \in Tree!Node
      PROVE  /\ g[m].type = h[m].type /\ g[m].next = h[m].next /\ g[m].prev = h[m].prev
             /\ g[m].begin = h[m].begin /\ g[m].end = h[m].end /\ g[m].count = h[m].count
             /\ g[m].parent = IF m = x THEN n ELSE h[m].parent
             /\ g[m].children = IF m = n THEN h[m].children + 1 ELSE h[m].children
  <2>1. CASE m = x
    BY <1>2, <1>5, <2>1
  <2>2. CASE m = n
    BY <1>3, <1>5, <2>2
  <2>3. CASE m # x /\ m # n
    <3>1. g[m] = h[m]
      BY <1>5, <2>3
    <3>2. QED  BY ONLY <2>3, <3>1
  <2>4. QED  BY <2>1, <2>2, <2>3
<1>7. QED  BY <1>5, <1>6 DEF TreeMark

\* p, which may be the header of n, points to x.
TreePointed(h, g, n, p, x) ==
    /\ g \in TreeHeap
    /\ \A m \in Tree!Node :
          /\ g[m].type = h[m].type /\ g[m].prev = h[m].prev /\ g[m].end = h[m].end
          /\ g[m].parent = h[m].parent /\ g[m].count = h[m].count
          /\ g[m].children = h[m].children
          /\ g[m].next = IF m = p THEN x ELSE h[m].next
          /\ g[m].begin = IF m = n /\ p = Tree!Header THEN x ELSE h[m].begin

LEMMA TreeFollowed ==
    ASSUME NEW h \in TreeHeap, NEW n \in Tree!Node, NEW x \in Tree!Node \cup {Tree!NULL},
           NEW p \in Tree!Node \cup {Tree!Header}, NEW g, g = Tree!Follow(h, n, p, x)
    PROVE  TreePointed(h, g, n, p, x)
<1>1. Tree!Header \notin Tree!Node
  BY DEF Tree!Header, Tree!Node
<1>2. CASE p = Tree!Header
  <2> DEFINE a == [h[n] EXCEPT !.begin = x]
  <2>1. /\ a \in TreeCell /\ a.type = h[n].type /\ a.next = h[n].next /\ a.prev = h[n].prev
        /\ a.begin = x /\ a.end = h[n].end /\ a.count = h[n].count
        /\ a.parent = h[n].parent /\ a.children = h[n].children
    BY DEF TreeHeap, TreeCell
  <2>2. g = [h EXCEPT ![n] = a]
    BY <1>2 DEF TreeHeap, Tree!Follow
  <2> HIDE DEF a
  <2>3. g \in TreeHeap /\ g[n] = a /\ \A m \in Tree!Node : m # n => g[m] = h[m]
    BY <2>1, <2>2 DEF TreeHeap
  <2>4. QED  BY <1>1, <1>2, <2>1, <2>3 DEF TreePointed
<1>3. CASE p # Tree!Header
  <2> DEFINE a == [h[p] EXCEPT !.next = x]
  <2>1. p \in Tree!Node
    BY <1>3
  <2>2. /\ a \in TreeCell /\ a.type = h[p].type /\ a.next = x /\ a.prev = h[p].prev
        /\ a.begin = h[p].begin /\ a.end = h[p].end /\ a.count = h[p].count
        /\ a.parent = h[p].parent /\ a.children = h[p].children
    BY <2>1 DEF TreeHeap, TreeCell
  <2>3. g = [h EXCEPT ![p] = a]
    BY <1>3, <2>1 DEF TreeHeap, Tree!Follow
  <2> HIDE DEF a
  <2>4. g \in TreeHeap /\ g[p] = a /\ \A m \in Tree!Node : m # p => g[m] = h[m]
    BY <2>1, <2>2, <2>3 DEF TreeHeap
  <2>5. QED  BY <1>3, <2>2, <2>4 DEF TreePointed
<1>4. QED  BY <1>2, <1>3

\* The fields of the header and of the child that list_add and list_insert set first.
TreeHeaded(h, g, n, x, next, prev, end) ==
    /\ g \in TreeHeap
    /\ \A m \in Tree!Node :
          /\ g[m].type = h[m].type /\ g[m].begin = h[m].begin
          /\ g[m].parent = h[m].parent /\ g[m].children = h[m].children
          /\ g[m].count = IF m = n THEN h[m].count + 1 ELSE h[m].count
          /\ g[m].end = IF m = n THEN end ELSE h[m].end
          /\ g[m].next = IF m = x THEN next ELSE h[m].next
          /\ g[m].prev = IF m = x THEN prev ELSE h[m].prev

LEMMA TreeAdding ==
    ASSUME NEW h \in TreeHeap, NEW n \in Tree!Node, NEW x \in Tree!Node, x # n,
           NEW last \in Tree!Node \cup {Tree!Header},
           NEW g, g = [h EXCEPT ![x].next = Tree!NULL, ![x].prev = last,
                                ![n].end = x, ![n].count = @ + 1]
    PROVE  TreeHeaded(h, g, n, x, Tree!NULL, last, x)
<1> DEFINE a == [h[x] EXCEPT !.next = Tree!NULL, !.prev = last]
           b == [h[n] EXCEPT !.end = x, !.count = @ + 1]
<1>1. /\ h[x] \in TreeCell /\ h[n] \in TreeCell /\ x \in Tree!Node /\ n \in Tree!Node
      /\ last \in Tree!Node \cup {Tree!Header} /\ x # n /\ h \in TreeHeap
  BY DEF TreeHeap
<1>2. /\ a \in TreeCell /\ a.type = h[x].type /\ a.next = Tree!NULL /\ a.prev = last
      /\ a.begin = h[x].begin /\ a.end = h[x].end /\ a.count = h[x].count
      /\ a.parent = h[x].parent /\ a.children = h[x].children
  BY ONLY <1>1 DEF TreeCell
<1>3. /\ b \in TreeCell /\ b.type = h[n].type /\ b.next = h[n].next /\ b.prev = h[n].prev
      /\ b.begin = h[n].begin /\ b.end = x /\ b.count = h[n].count + 1
      /\ b.parent = h[n].parent /\ b.children = h[n].children
  <2> DEFINE v == h[n].count + 1
             e == x
             r == h[n]
  <2>1. v \in Nat /\ e \in Tree!Node \cup {Tree!Header} /\ r \in TreeCell
    BY ONLY <1>1 DEF TreeCell
  <2>2. b = [r EXCEPT !.end = e, !.count = v]
    OBVIOUS
  <2> HIDE DEF v, e, r, b
  <2>3. /\ b \in TreeCell /\ b.type = r.type /\ b.next = r.next /\ b.prev = r.prev
        /\ b.begin = r.begin /\ b.end = e /\ b.count = v
        /\ b.parent = r.parent /\ b.children = r.children
    BY ONLY <2>1, <2>2 DEF TreeCell
  <2>4. QED  BY <2>3 DEF v, e, r
<1>4. g = [h EXCEPT ![x] = a, ![n] = b]
  BY DEF TreeHeap
<1> HIDE DEF a, b
<1>5. /\ g \in TreeHeap /\ g[x] = a /\ g[n] = b
      /\ \A m \in Tree!Node : m # x /\ m # n => g[m] = h[m]
  BY ONLY <1>1, <1>2, <1>3, <1>4 DEF TreeHeap
<1>6. ASSUME NEW m \in Tree!Node
      PROVE  /\ g[m].type = h[m].type /\ g[m].begin = h[m].begin
             /\ g[m].parent = h[m].parent /\ g[m].children = h[m].children
             /\ g[m].count = IF m = n THEN h[m].count + 1 ELSE h[m].count
             /\ g[m].end = IF m = n THEN x ELSE h[m].end
             /\ g[m].next = IF m = x THEN Tree!NULL ELSE h[m].next
             /\ g[m].prev = IF m = x THEN last ELSE h[m].prev
  <2>1. CASE m = x
    BY <1>2, <1>5, <2>1
  <2>2. CASE m = n
    BY <1>3, <1>5, <2>2
  <2>3. CASE m # x /\ m # n
    <3>1. g[m] = h[m]
      BY <1>5, <2>3
    <3>2. QED  BY ONLY <2>3, <3>1
  <2>4. QED  BY <2>1, <2>2, <2>3
<1>7. QED  BY <1>5, <1>6 DEF TreeHeaded

TreePlaced(h, g, n, x, before, after) ==
    /\ g \in TreeHeap
    /\ \A m \in Tree!Node :
          /\ g[m].type = h[m].type /\ g[m].begin = h[m].begin
          /\ g[m].parent = h[m].parent /\ g[m].children = h[m].children
          /\ g[m].count = IF m = n THEN h[m].count + 1 ELSE h[m].count
          /\ g[m].end = h[m].end
          /\ g[m].next = IF m = x THEN after ELSE h[m].next
          /\ g[m].prev = IF m = x THEN before ELSE IF m = after THEN x ELSE h[m].prev

\* after is the child that comes behind x, and its link back is set too.
LEMMA TreeInserting ==
    ASSUME NEW h \in TreeHeap, NEW n \in Tree!Node, NEW x \in Tree!Node,
           NEW before \in Tree!Node \cup {Tree!NULL}, NEW after \in Tree!Node,
           x # n, x # after, n # after,
           NEW g, g = [h EXCEPT ![x].prev = before, ![x].next = after,
                                ![after].prev = x, ![n].count = @ + 1]
    PROVE  TreePlaced(h, g, n, x, before, after)
<1> DEFINE a == [h[x] EXCEPT !.prev = before, !.next = after]
           b == [h[n] EXCEPT !.count = @ + 1]
           c == [h[after] EXCEPT !.prev = x]
<1>1. h[x] \in TreeCell /\ h[n] \in TreeCell /\ h[after] \in TreeCell
  BY DEF TreeHeap
<1>2. /\ a \in TreeCell /\ a.type = h[x].type /\ a.next = after /\ a.prev = before
      /\ a.begin = h[x].begin /\ a.end = h[x].end /\ a.count = h[x].count
      /\ a.parent = h[x].parent /\ a.children = h[x].children
  BY <1>1 DEF TreeCell
<1>3. /\ b \in TreeCell /\ b.type = h[n].type /\ b.next = h[n].next /\ b.prev = h[n].prev
      /\ b.begin = h[n].begin /\ b.end = h[n].end /\ b.count = h[n].count + 1
      /\ b.parent = h[n].parent /\ b.children = h[n].children
  BY <1>1 DEF TreeCell
<1>4. /\ c \in TreeCell /\ c.type = h[after].type /\ c.next = h[after].next /\ c.prev = x
      /\ c.begin = h[after].begin /\ c.end = h[after].end /\ c.count = h[after].count
      /\ c.parent = h[after].parent /\ c.children = h[after].children
  BY <1>1 DEF TreeCell
<1>5. g = [h EXCEPT ![x] = a, ![after] = c, ![n] = b]
  BY DEF TreeHeap
<1> HIDE DEF a, b, c
<1>6. /\ g \in TreeHeap /\ g[x] = a /\ g[n] = b /\ g[after] = c
      /\ \A m \in Tree!Node : m # x /\ m # n /\ m # after => g[m] = h[m]
  BY <1>2, <1>3, <1>4, <1>5 DEF TreeHeap
<1>7. ASSUME NEW m \in Tree!Node
      PROVE  /\ g[m].type = h[m].type /\ g[m].begin = h[m].begin
             /\ g[m].parent = h[m].parent /\ g[m].children = h[m].children
             /\ g[m].count = IF m = n THEN h[m].count + 1 ELSE h[m].count
             /\ g[m].end = h[m].end
             /\ g[m].next = IF m = x THEN after ELSE h[m].next
             /\ g[m].prev = IF m = x THEN before ELSE IF m = after THEN x ELSE h[m].prev
  <2>1. CASE m = x
    BY <1>2, <1>6, <2>1
  <2>2. CASE m = n
    BY <1>3, <1>6, <2>2
  <2>3. CASE m = after
    BY <1>4, <1>6, <2>3
  <2>4. CASE m # x /\ m # n /\ m # after
    <3>1. g[m] = h[m]
      BY <1>6, <2>4
    <3>2. QED  BY ONLY <2>4, <3>1
  <2>5. QED  BY <2>1, <2>2, <2>3, <2>4
<1>8. QED  BY <1>6, <1>7 DEF TreePlaced

LEMMA TreeNumbers ==
    /\ Tree!NULL \notin Tree!Node /\ Tree!Header \notin Tree!Node /\ Tree!NULL # Tree!Header
    /\ Tree!Node \subseteq Nat /\ "freed" \notin Tree!Type /\ "unused" \notin Tree!Type
    /\ "freed" # "unused"
  BY DEF Tree!NULL, Tree!Header, Tree!Node, Tree!Type

LEMMA TreeListed ==
    ASSUME NEW h, NEW n, NEW s, TreeList(h, n, s)
    PROVE  /\ s \in Seq(Tree!Node) /\ Len(s) \in Nat /\ \A i \in 1..Len(s) : s[i] \in Tree!Node
           /\ DOMAIN s = 1..Len(s)
<1>1. s \in Seq(Tree!Node)
  BY DEF TreeList, TreeLinks
<1>2. QED  BY <1>1, LenProperties, ElementOfSeq

\* What node_insert writes, wherever the child goes.
LEMMA TreeAppended ==
    ASSUME NEW h \in TreeHeap, NEW n \in Tree!Node, NEW s, TreeList(h, n, s),
           NEW x \in Tree!Node, x # n, \A i \in 1..Len(s) : s[i] # x,
           h[n].end \in Tree!Node => h[h[n].end].type # "freed",
           NEW k, TreeMark(h, k, n, x),
           NEW g, g = Tree!ListAdd(k, n, x)
    PROVE  TreeWith(h, g, n, x, s, Len(s))
<1> DEFINE last == k[n].end
           q == Len(s)
           e == [k EXCEPT ![x].next = Tree!NULL, ![x].prev = last,
                          ![n].end = x, ![n].count = @ + 1]
<1>1. /\ s \in Seq(Tree!Node) /\ q \in Nat /\ \A i \in 1..q : s[i] \in Tree!Node
      /\ last = h[n].end /\ last \in Tree!Node \cup {Tree!Header} /\ k \in TreeHeap
      /\ Tree!Header \notin Tree!Node
  <2>1. s \in Seq(Tree!Node) /\ q \in Nat /\ \A i \in 1..q : s[i] \in Tree!Node
    BY TreeListed
  <2>2. last = h[n].end /\ last \in Tree!Node \cup {Tree!Header} /\ k \in TreeHeap
    BY DEF TreeMark, TreeHeap, TreeCell
  <2>3. QED  BY <2>1, <2>2, TreeNumbers
<1>2. IF q = 0 THEN last = Tree!Header ELSE last = s[q] /\ q \in 1..q
  BY <1>1 DEF TreeList
<1>3. g = Tree!Follow(e, n, last, x)
  BY DEF Tree!ListAdd
<1>4. TreeHeaded(k, e, n, x, Tree!NULL, last, x)
  <2>1. last \in Tree!Node \cup {Tree!Header} /\ k \in TreeHeap
    BY <1>1
  <2> HIDE DEF last
  <2>2. QED  BY <2>1, TreeAdding
<1> HIDE DEF e, last
<1>5. TreePointed(e, g, n, last, x)
  <2>1. e \in TreeHeap
    BY <1>4 DEF TreeHeaded
  <2>2. QED  BY <1>1, <1>3, <2>1, TreeFollowed
<1>6. /\ \A m \in Tree!Node : last = m <=> q # 0 /\ m = s[q]
      /\ last = Tree!Header <=> q = 0
  BY <1>1, <1>2
<1>7. last # x
  BY <1>1, <1>2
<1>8. ASSUME NEW m \in Tree!Node
      PROVE  /\ g[m].type = h[m].type
             /\ g[m].parent = IF m = x THEN n ELSE h[m].parent
             /\ g[m].children = IF m = n THEN h[m].children + 1 ELSE h[m].children
             /\ g[m].count = IF m = n THEN h[m].count + 1 ELSE h[m].count
             /\ g[m].begin = IF m = n /\ q = 0 THEN x ELSE h[m].begin
             /\ g[m].end = IF m = n THEN x ELSE h[m].end
             /\ m # x /\ (q = 0 \/ m # s[q]) => g[m].next = h[m].next
             /\ m # x => g[m].prev = h[m].prev
  BY <1>4, <1>5, <1>6 DEF TreeHeaded, TreePointed, TreeMark
<1>9. g[x].next = Tree!NULL /\ g[x].prev = last /\ (q # 0 => g[s[q]].next = x)
  BY <1>1, <1>2, <1>4, <1>5, <1>6, <1>7 DEF TreeHeaded, TreePointed
<1>10. TreeAt(s, q + 1) = Tree!NULL
  BY <1>1 DEF TreeAt
<1>11. IF q = 0 THEN g[x].prev \in {Tree!NULL, Tree!Header} ELSE g[x].prev = s[q]
  BY <1>2, <1>9
<1>12. g \in TreeHeap
  BY <1>5 DEF TreePointed
<1>13. QED  BY <1>8, <1>9, <1>10, <1>11, <1>12 DEF TreeWith

LEMMA TreeInserted ==
    ASSUME Tree!TreeAssumption, NEW h \in TreeHeap, NEW n \in Tree!Node,
           NEW s, TreeList(h, n, s), h[n].parent # n,
           NEW x \in Tree!Node, x # n, \A i \in 1..Len(s) : s[i] # x,
           NEW p \in Nat, p < Len(s), NEW k, TreeMark(h, k, n, x),
           NEW g, g = Tree!ListInsert(k, n, p, x)
    PROVE  TreeWith(h, g, n, x, s, p)
<1> DEFINE q == Len(s)
           before == IF p = 0 THEN Tree!NULL ELSE s[p]
           after == s[p + 1]
           e == [k EXCEPT ![x].prev = before, ![x].next = after,
                          ![after].prev = x, ![n].count = @ + 1]
           to == IF p = 0 THEN Tree!Header ELSE s[p]
<1>1. /\ s \in Seq(Tree!Node) /\ q \in Nat /\ \A i \in 1..q : s[i] \in Tree!Node
      /\ Tree!Header \notin Tree!Node /\ Tree!NULL \notin Tree!Node
      /\ p + 1 \in 1..q /\ (p # 0 => p \in 1..q) /\ p + 1 # q + 1 /\ p # q
      /\ k \in TreeHeap
  <2>1. s \in Seq(Tree!Node) /\ q \in Nat /\ \A i \in 1..q : s[i] \in Tree!Node
    BY TreeListed
  <2>2. p + 1 \in 1..q /\ (p # 0 => p \in 1..q) /\ p + 1 # q + 1 /\ p # q
    BY <2>1
  <2>3. QED  BY <2>1, <2>2, TreeNumbers DEF TreeMark
<1>2. /\ h[n].count = q /\ h[n].begin = TreeAt(s, 1)
      /\ \A i \in 1..q : h[s[i]].next = TreeAt(s, i + 1) /\ h[s[i]].parent = n
      /\ \A i, j \in 1..q : s[i] = s[j] => i = j
  BY DEF TreeList, TreeLinks, TreeKids
<1>3. Tree!Items(k, n) = s
  <2>1. TreeLinks(k, n, s)
    BY <1>1, <1>2 DEF TreeLinks, TreeMark
  <2>2. Len(s) <= MaxNodes
    BY <1>1, <1>2, TreeOnce
  <2>3. QED  BY <1>1, <2>1, <2>2, TreeItemsAre
<1>4. k[n].count = q /\ ~(p >= q) /\ k[n].begin = h[n].begin
      /\ \A m \in Tree!Node : k[m].next = h[m].next
  BY <1>1, <1>2 DEF TreeMark
<1>5. p # 0 => Tree!Nth(k, n, p - 1) = s[p]
  BY <1>1, <1>3 DEF Tree!Nth
<1>6. /\ before \in Tree!Node \cup {Tree!NULL} /\ (before = Tree!NULL <=> p = 0)
      /\ after \in Tree!Node /\ x # after /\ n # after
      /\ before = IF p = 0 THEN Tree!NULL ELSE Tree!Nth(k, n, p - 1)
  BY <1>1, <1>2, <1>5
<1>7. after = IF before = Tree!NULL THEN k[n].begin ELSE k[before].next
  <2>1. CASE p = 0
    BY <1>1, <1>2, <1>4, <2>1 DEF TreeAt
  <2>2. CASE p # 0
    BY <1>1, <1>2, <1>4, <2>2 DEF TreeAt
  <2>3. QED  BY <2>1, <2>2
<1>8. g = Tree!Follow(e, n, IF before = Tree!NULL THEN Tree!Header ELSE before, x)
  <2>1. g = LET b == IF p = 0 THEN Tree!NULL ELSE Tree!Nth(k, n, p - 1)
                a == IF b = Tree!NULL THEN k[n].begin ELSE k[b].next
            IN  Tree!Follow([k EXCEPT ![x].prev = b, ![x].next = a,
                                      ![a].prev = x, ![n].count = @ + 1],
                            n, IF b = Tree!NULL THEN Tree!Header ELSE b, x)
    BY <1>4 DEF Tree!ListInsert
  <2> HIDE DEF before, after, e
  <2>2. QED  BY ONLY <1>6, <1>7, <2>1 DEF e
<1>9. g = Tree!Follow(e, n, to, x) /\ to \in Tree!Node \cup {Tree!Header}
  BY <1>1, <1>6, <1>8
<1>10. TreePlaced(k, e, n, x, before, after)
  <2>1. /\ before \in Tree!Node \cup {Tree!NULL} /\ after \in Tree!Node
        /\ x # after /\ n # after /\ k \in TreeHeap
    BY <1>1, <1>6
  <2> HIDE DEF before, after
  <2>2. QED  BY <2>1, TreeInserting
<1> HIDE DEF e, to
<1>11. TreePointed(e, g, n, to, x)
  <2>1. e \in TreeHeap
    BY <1>10 DEF TreePlaced
  <2>2. QED  BY <1>9, <2>1, TreeFollowed
<1>12. /\ \A m \in Tree!Node : to = m <=> p # 0 /\ m = s[p]
       /\ to = Tree!Header <=> p = 0
  BY <1>1 DEF to
<1>13. ASSUME NEW m \in Tree!Node
       PROVE  /\ g[m].type = h[m].type
              /\ g[m].parent = IF m = x THEN n ELSE h[m].parent
              /\ g[m].children = IF m = n THEN h[m].children + 1 ELSE h[m].children
              /\ g[m].count = IF m = n THEN h[m].count + 1 ELSE h[m].count
              /\ g[m].begin = IF m = n /\ p = 0 THEN x ELSE h[m].begin
              /\ g[m].end = h[m].end
              /\ m # x /\ (p = 0 \/ m # s[p]) => g[m].next = h[m].next
              /\ m # x /\ m # s[p + 1] => g[m].prev = h[m].prev
  <2> HIDE DEF before
  <2>1. QED  BY <1>10, <1>11, <1>12 DEF TreeMark, TreePlaced, TreePointed
<1>14. /\ g[x].next = after /\ g[x].prev = before /\ g[after].prev = x
       /\ p # 0 => g[s[p]].next = x
  BY <1>1, <1>6, <1>10, <1>11, <1>12 DEF TreePlaced, TreePointed
<1>15. TreeAt(s, p + 1) = after
  BY <1>1 DEF TreeAt
<1>16. IF p = 0 THEN g[x].prev \in {Tree!NULL, Tree!Header} ELSE g[x].prev = s[p]
  BY <1>14
<1>17. g \in TreeHeap
  BY <1>11 DEF TreePointed
<1>18. QED  BY <1>1, <1>13, <1>14, <1>15, <1>16, <1>17 DEF TreeWith

\* node_attach and node_insert, when they write to no memory that was freed.
LEMMA TreeAttached ==
    ASSUME Tree!TreeAssumption, NEW h \in TreeHeap, NEW n \in Tree!Node,
           NEW s, TreeList(h, n, s), h[n].parent # n,
           NEW x \in Tree!Node, x # n, \A i \in 1..Len(s) : s[i] # x,
           NEW i \in Nat, ~Tree!Dangles(h, n, i),
           NEW g, g = Tree!Attached(h, n, i, x)
    PROVE  TreeWith(h, g, n, x, s, IF i < Len(s) THEN i ELSE Len(s))
<1> DEFINE k == [h EXCEPT ![x].parent = n, ![n].children = @ + 1]
<1>1. TreeMark(h, k, n, x)
  BY TreeMarked
<1>2. g = Tree!ListInsert(k, n, i, x)
  BY DEF Tree!Attached
<1> HIDE DEF k
<1>3. Len(s) \in Nat /\ h[n].count = Len(s) /\ k[n].count = Len(s)
  <2>1. Len(s) \in Nat
    BY TreeListed
  <2>2. QED  BY <1>1, <2>1 DEF TreeList, TreeMark
<1>4. CASE i < Len(s)
  BY <1>1, <1>2, <1>4, TreeInserted
<1>5. CASE ~(i < Len(s))
  <2>1. i >= h[n].count /\ i >= k[n].count
    BY <1>3, <1>5
  <2>2. g = Tree!ListAdd(k, n, x)
    BY <1>2, <2>1 DEF Tree!ListInsert
  <2>3. h[n].end \in Tree!Node => h[h[n].end].type # "freed"
    BY <2>1, TreeNumbers DEF Tree!Dangles, Tree!Live
  <2>4. TreeWith(h, g, n, x, s, Len(s))
    BY <1>1, <2>2, <2>3, TreeAppended
  <2>5. QED  BY <1>5, <2>4
<1>6. QED  BY <1>4, <1>5

\* An addition at the end, even where it writes to memory that was freed.
TreeAddition(h, g, n, x) ==
    /\ g \in TreeHeap
    /\ g[n].type = h[n].type /\ g[n].count = h[n].count + 1 /\ g[n].end = x
    /\ h[n].end # Tree!Header => g[n].begin = h[n].begin

LEMMA TreeAppendTyped ==
    ASSUME NEW h \in TreeHeap, NEW n \in Tree!Node, NEW x \in Tree!Node, x # n,
           NEW i \in Nat, i >= h[n].count
    PROVE  TreeAddition(h, Tree!Attached(h, n, i, x), n, x)
<1> DEFINE k == [h EXCEPT ![x].parent = n, ![n].children = @ + 1]
           last == k[n].end
           e == [k EXCEPT ![x].next = Tree!NULL, ![x].prev = last,
                          ![n].end = x, ![n].count = @ + 1]
           g == Tree!Attached(h, n, i, x)
<1>1. TreeMark(h, k, n, x)
  BY TreeMarked
<1>2. g = Tree!ListInsert(k, n, i, x)
  BY DEF Tree!Attached
<1> HIDE DEF k
<1>3. g = Tree!ListAdd(k, n, x)
  <2>1. k[n].count = h[n].count
    BY <1>1 DEF TreeMark
  <2>2. QED  BY <1>2, <2>1 DEF Tree!ListInsert
<1>4. g = Tree!Follow(e, n, last, x)
  BY <1>3 DEF Tree!ListAdd
<1>5. last \in Tree!Node \cup {Tree!Header} /\ k \in TreeHeap
  BY <1>1 DEF TreeMark, TreeHeap, TreeCell
<1>6. TreeHeaded(k, e, n, x, Tree!NULL, last, x)
  <2> HIDE DEF last
  <2>1. QED  BY <1>5, TreeAdding
<1> HIDE DEF e, last, g
<1>7. TreePointed(e, g, n, last, x)
  <2>1. e \in TreeHeap
    BY <1>6 DEF TreeHeaded
  <2>2. QED  BY <1>4, <1>5, <2>1, TreeFollowed
<1>8. last = h[n].end
  BY <1>1 DEF TreeMark, last
<1>9. TreeAddition(h, g, n, x)
  BY <1>1, <1>6, <1>7, <1>8 DEF TreePointed, TreeHeaded, TreeMark, TreeAddition
<1>10. QED  BY <1>9 DEF g

\* A list whose end was freed is empty, and an addition to it is lost.
LEMMA TreeDangling ==
    ASSUME NEW h \in TreeHeap, TreeSound(h), NEW n \in Tree!Node, Tree!Live(h, n),
           NEW i \in Nat, Tree!Dangles(h, n, i)
    PROVE  /\ i >= h[n].count /\ h[n].count \in Nat /\ h[n].begin = Tree!NULL
           /\ h[n].end # Tree!Header
<1>1. i >= h[n].count /\ h[n].end # Tree!Header /\ ~Tree!Live(h, h[n].end)
  BY DEF Tree!Dangles
<1>2. PICK s \in Seq(Tree!Node) : TreeList(h, n, s)
  BY DEF TreeSound
<1>3. Len(s) \in Nat
  BY <1>2, TreeListed
<1>4. Len(s) = 0
  <2>1. SUFFICES ASSUME Len(s) # 0 PROVE FALSE
    OBVIOUS
  <2>2. Len(s) \in 1..Len(s)
    BY <1>3, <2>1
  <2>3. Tree!Live(h, s[Len(s)]) /\ h[n].end = s[Len(s)]
    BY <1>2, <2>1, <2>2 DEF TreeList, TreeKids
  <2>4. QED  BY <1>1, <2>3
<1>5. h[n].begin = Tree!NULL
  BY <1>2, <1>4 DEF TreeList, TreeLinks, TreeAt
<1>6. h[n].count \in Nat
  BY DEF TreeHeap, TreeCell
<1>7. QED  BY <1>1, <1>5, <1>6

-----------------------------------------------------------------------------
(* A list with one more is a list.                                         *)

\* s with x behind the first p.
TreePut(s, x, p) ==
    [j \in 1..(Len(s) + 1) |-> IF j <= p THEN s[j] ELSE IF j = p + 1 THEN x ELSE s[j - 1]]

TreeHasPut(S, s, x, p, t) ==
    /\ t \in Seq(S) /\ Len(t) = Len(s) + 1
    /\ t[p + 1] = x
    /\ \A j \in 1..Len(s) : j <= p => t[j] = s[j]
    /\ \A j \in 1..Len(s) : p < j => t[j + 1] = s[j]
    /\ \A i \in 1..(Len(s) + 1) : \/ i = p + 1
                                  \/ i <= p /\ i \in 1..Len(s)
                                  \/ p < i - 1 /\ i - 1 \in 1..Len(s) /\ (i - 1) + 1 = i

LEMMA TreePutIs ==
    ASSUME NEW S, NEW s \in Seq(S), NEW x \in S, NEW p \in Nat, p <= Len(s)
    PROVE  TreeHasPut(S, s, x, p, TreePut(s, x, p))
<1> DEFINE q == Len(s)
           t == TreePut(s, x, p)
<1>1. q \in Nat /\ \A j \in 1..q : s[j] \in S
  BY LenProperties, ElementOfSeq
<1>2. \A i \in 1..(q + 1) : \/ i = p + 1
                            \/ i <= p /\ i \in 1..q
                            \/ p < i - 1 /\ i - 1 \in 1..q /\ (i - 1) + 1 = i
  BY <1>1
<1>3. t = [j \in 1..(q + 1) |-> IF j <= p THEN s[j] ELSE IF j = p + 1 THEN x ELSE s[j - 1]]
  BY DEF TreePut
<1> HIDE DEF q, t
<1>4. \A j \in 1..(q + 1) :
          /\ t[j] = IF j <= p THEN s[j] ELSE IF j = p + 1 THEN x ELSE s[j - 1]
          /\ t[j] \in S
  BY <1>1, <1>2, <1>3
<1>5. t \in [1..(q + 1) -> S]
  BY <1>3, <1>4
<1>6. t \in Seq(S) /\ Len(t) = q + 1
  <2>1. q + 1 \in Nat
    BY <1>1
  <2>2. t \in Seq(S)
    BY <1>5, <2>1, SeqDef
  <2>3. QED  BY <1>5, <2>1, <2>2, LenProperties
<1>7. t[p + 1] = x
  <2>1. p + 1 \in 1..(q + 1) /\ ~(p + 1 <= p)
    BY <1>1 DEF q
  <2>2. QED  BY <1>4, <2>1
<1>8. \A j \in 1..q : j <= p => t[j] = s[j]
  <2>1. \A j \in 1..q : j \in 1..(q + 1)
    BY <1>1
  <2>2. QED  BY <1>4, <2>1
<1>9. \A j \in 1..q : p < j => t[j + 1] = s[j]
  <2>1. \A j \in 1..q : p < j => /\ j + 1 \in 1..(q + 1) /\ ~(j + 1 <= p)
                                 /\ j + 1 # p + 1 /\ (j + 1) - 1 = j
    BY <1>1
  <2>2. QED  BY <1>4, <2>1
<1>10. QED  BY <1>2, <1>6, <1>7, <1>8, <1>9 DEF q, t, TreeHasPut

LEMMA TreeListWith ==
    ASSUME Tree!TreeAssumption, NEW h \in TreeHeap, NEW n \in Tree!Node,
           NEW s, TreeList(h, n, s),
           NEW x \in Tree!Node, x # n, Tree!Live(h, x), h[x].parent # n,
           NEW p \in Nat, p <= Len(s), NEW g, TreeWith(h, g, n, x, s, p)
    PROVE  TreeList(g, n, TreePut(s, x, p))
<1> DEFINE q == Len(s)
           t == TreePut(s, x, p)
<1>1. /\ s \in Seq(Tree!Node) /\ q \in Nat /\ \A i \in 1..q : s[i] \in Tree!Node
      /\ \A i, j \in 1..q : s[i] = s[j] => i = j
      /\ \A i \in 1..q : s[i] # x
      /\ h[n].begin = TreeAt(s, 1)
      /\ \A i \in 1..q : h[s[i]].next = TreeAt(s, i + 1)
  <2>1. s \in Seq(Tree!Node) /\ q \in Nat /\ \A i \in 1..q : s[i] \in Tree!Node
    BY TreeListed
  <2>2. \A i \in 1..q : s[i] # x
    BY DEF TreeList, TreeKids
  <2>3. QED  BY <2>1, <2>2 DEF TreeList, TreeLinks
<1>2. /\ \A i \in 2..q : h[s[i]].prev = s[i - 1]
      /\ q # 0 => h[s[1]].prev \in {Tree!NULL, Tree!Header} /\ h[n].end = s[q]
      /\ h[n].count = q /\ h[n].children = q
  BY DEF TreeList
<1>3. /\ t \in Seq(Tree!Node) /\ Len(t) = q + 1 /\ t[p + 1] = x
      /\ \A j \in 1..q : j <= p => t[j] = s[j]
      /\ \A j \in 1..q : p < j => t[j + 1] = s[j]
      /\ \A i \in 1..(q + 1) : \/ i = p + 1
                               \/ i <= p /\ i \in 1..q
                               \/ p < i - 1 /\ i - 1 \in 1..q /\ (i - 1) + 1 = i
  <2>1. s \in Seq(Tree!Node) /\ x \in Tree!Node /\ p \in Nat /\ p <= Len(s)
    BY <1>1
  <2>2. TreeHasPut(Tree!Node, s, x, p, t)
    BY <2>1, TreePutIs
  <2> HIDE DEF t
  <2>3. QED  BY <2>2 DEF TreeHasPut
<1>4. /\ \A m \in Tree!Node :
            /\ m # x /\ (p = 0 \/ m # s[p]) => g[m].next = h[m].next
            /\ m # x /\ (p = q \/ m # s[p + 1]) => g[m].prev = h[m].prev
      /\ g[x].next = TreeAt(s, p + 1)
      /\ IF p = 0 THEN g[x].prev \in {Tree!NULL, Tree!Header} ELSE g[x].prev = s[p]
      /\ p # 0 => g[s[p]].next = x
      /\ p # q => g[s[p + 1]].prev = x
      /\ g[n].count = q + 1 /\ g[n].children = q + 1
      /\ g[n].begin = IF p = 0 THEN x ELSE h[n].begin
      /\ g[n].end = IF p = q THEN x ELSE h[n].end
  BY <1>2 DEF TreeWith
<1>5. TreeKids(g, n) = TreeKids(h, n) \cup {x}
  BY DEF TreeKids, TreeWith, Tree!Live
<1> HIDE DEF q, t
<1>6. \A i \in 1..q : i <= p => TreeAt(t, i) = s[i]
  BY <1>1, <1>3 DEF TreeAt
<1>7. \A i \in 0..q : p <= i => TreeAt(t, i + 2) = TreeAt(s, i + 1)
  <2>1. TAKE i \in 0..q
  <2>2. HAVE p <= i
  <2>3. CASE i = q
    BY <1>1, <1>3, <2>3 DEF TreeAt, q
  <2>4. CASE i # q
    <3>1. i + 1 \in 1..q /\ p < i + 1 /\ (i + 1) + 1 = i + 2 /\ i + 2 \in 1..(q + 1)
      BY <1>1, <2>2, <2>4
    <3>2. t[i + 2] = s[i + 1]
      BY <1>3, <3>1
    <3>3. QED  BY <1>3, <3>1, <3>2 DEF TreeAt, q
  <2>5. QED  BY <2>3, <2>4
<1>8. TreeAt(t, p + 1) = x
  <2>1. p + 1 \in 1..(q + 1)
    BY <1>1 DEF q
  <2>2. QED  BY <1>3, <2>1 DEF TreeAt
<1>9. g[n].begin = TreeAt(t, 1)
  <2>1. CASE p = 0
    BY <1>4, <1>8, <2>1
  <2>2. CASE p # 0
    <3>1. 1 \in 1..q /\ 1 <= p
      BY <1>1, <2>2 DEF q
    <3>2. QED  BY <1>1, <1>4, <1>6, <2>2, <3>1 DEF TreeAt, q
  <2>3. QED  BY <2>1, <2>2
<1>10. ASSUME NEW i \in 1..(q + 1) PROVE g[t[i]].next = TreeAt(t, i + 1)
  <2>1. CASE i = p + 1
    <3>1. p \in 0..q /\ i + 1 = p + 2
      BY <1>1, <2>1 DEF q
    <3>2. QED  BY <1>3, <1>4, <1>7, <2>1, <3>1
  <2>2. CASE i <= p /\ i \in 1..q
    <3>1. t[i] = s[i] /\ s[i] \in Tree!Node /\ s[i] # x /\ p # 0 /\ p \in 1..q
      BY <1>1, <1>3, <2>2 DEF q
    <3>2. CASE i = p
      BY <1>4, <1>8, <3>1, <3>2
    <3>3. CASE i # p
      <4>1. i + 1 \in 1..q /\ i + 1 <= p
        BY <1>1, <2>2, <3>1, <3>3
      <4>2. s[i] # s[p]
        BY <1>1, <2>2, <3>1, <3>3
      <4>3. g[s[i]].next = s[i + 1]
        BY <1>1, <1>4, <2>2, <3>1, <4>1, <4>2 DEF TreeAt, q
      <4>4. QED  BY <1>6, <3>1, <4>1, <4>3
    <3>4. QED  BY <3>2, <3>3
  <2>3. CASE p < i - 1 /\ i - 1 \in 1..q /\ (i - 1) + 1 = i
    <3>1. t[i] = s[i - 1] /\ s[i - 1] \in Tree!Node /\ s[i - 1] # x
      BY <1>1, <1>3, <2>3
    <3>2. p = 0 \/ s[i - 1] # s[p]
      <4>1. p = 0 \/ (p \in 1..q /\ i - 1 # p)
        BY <2>3 DEF q
      <4>2. QED  BY <1>1, <2>3, <4>1
    <3>3. g[t[i]].next = TreeAt(s, i)
      BY <1>1, <1>4, <2>3, <3>1, <3>2
    <3>4. i - 1 \in 0..q /\ p <= i - 1 /\ (i - 1) + 2 = i + 1 /\ (i - 1) + 1 = i
      BY <2>3
    <3>5. TreeAt(t, i + 1) = TreeAt(s, i)
      BY <1>7, <3>4
    <3>6. QED  BY <3>3, <3>5
  <2>4. QED  BY <1>3, <2>1, <2>2, <2>3
<1>11. TreeLinks(g, n, t)
  BY <1>3, <1>9, <1>10 DEF TreeLinks
<1>12. ASSUME NEW i \in 2..(q + 1) PROVE g[t[i]].prev = t[i - 1]
  <2>1. i \in 1..(q + 1) /\ i - 1 # 0 /\ i # 1
    BY <1>1
  <2>2. CASE i = p + 1
    <3>1. p # 0 /\ p \in 1..q /\ i - 1 = p /\ p <= p
      BY <2>1, <2>2 DEF q
    <3>2. QED  BY <1>3, <1>4, <2>2, <3>1
  <2>3. CASE i <= p /\ i \in 1..q
    <3>1. /\ t[i] = s[i] /\ i - 1 \in 1..q /\ i - 1 <= p /\ i \in 2..q
          /\ s[i] \in Tree!Node /\ s[i] # x
      BY <1>1, <1>3, <2>1, <2>3
    <3>2. p = q \/ s[i] # s[p + 1]
      <4>1. p = q \/ (p + 1 \in 1..q /\ p + 1 # i)
        BY <1>1, <2>3 DEF q
      <4>2. QED  BY <1>1, <2>3, <4>1
    <3>3. g[s[i]].prev = h[s[i]].prev
      BY <1>4, <3>1, <3>2
    <3>4. h[s[i]].prev = s[i - 1] /\ t[i - 1] = s[i - 1]
      BY <1>2, <1>3, <3>1
    <3>5. QED  BY <3>1, <3>3, <3>4
  <2>4. CASE p < i - 1 /\ i - 1 \in 1..q /\ (i - 1) + 1 = i
    <3>1. t[i] = s[i - 1] /\ s[i - 1] \in Tree!Node /\ s[i - 1] # x /\ p # q
      <4>1. p # q
        BY <1>1, <2>4
      <4>2. t[(i - 1) + 1] = s[i - 1]
        BY <1>3, <2>4
      <4>3. QED  BY <1>1, <2>4, <4>1, <4>2
    <3>2. CASE i - 1 = p + 1
      BY <1>3, <1>4, <3>1, <3>2
    <3>3. CASE i - 1 # p + 1
      <4>1. /\ i - 2 \in 1..q /\ p < i - 2 /\ (i - 2) + 1 = i - 1 /\ i - 1 \in 2..q
            /\ p + 1 \in 1..q /\ (i - 1) - 1 = i - 2
        BY <1>1, <2>4, <3>3
      <4>2. t[i - 1] = s[i - 2]
        BY <1>3, <4>1
      <4>3. s[i - 1] # s[p + 1]
        BY <1>1, <2>4, <3>3, <4>1
      <4>4. h[s[i - 1]].prev = s[i - 2]
        BY <1>2, <4>1 DEF q
      <4>5. QED  BY <1>4, <3>1, <4>2, <4>3, <4>4
    <3>4. QED  BY <3>2, <3>3
  <2>5. QED  BY <1>3, <2>1, <2>2, <2>3, <2>4
<1>13. ASSUME NEW i \in 1..(q + 1), NEW j \in 1..(q + 1), t[i] = t[j] PROVE i = j
  <2>1. \A k \in 1..(q + 1) : k # p + 1 =>
           \E l \in 1..q : t[k] = s[l] /\ k = IF l <= p THEN l ELSE l + 1
    <3>1. TAKE k \in 1..(q + 1)
    <3>2. HAVE k # p + 1
    <3>3. CASE k <= p /\ k \in 1..q
      BY <1>3, <3>3
    <3>4. CASE p < k - 1 /\ k - 1 \in 1..q /\ (k - 1) + 1 = k
      <4>1. t[k] = s[k - 1] /\ ~(k - 1 <= p)
        BY <1>3, <3>4
      <4>2. QED  BY <3>4, <4>1
    <3>5. QED  BY <1>3, <3>2, <3>3, <3>4
  <2>2. CASE i # p + 1 /\ j # p + 1
    BY <1>1, <1>13, <2>1, <2>2
  <2>3. CASE i = p + 1 \/ j = p + 1
    <3>1. \A k \in 1..(q + 1) : k # p + 1 => t[k] # x
      BY <1>1, <2>1
    <3>2. QED  BY <1>3, <1>13, <2>3, <3>1
  <2>4. QED  BY <2>2, <2>3
<1>14. /\ \A i \in 1..(q + 1) : t[i] \in TreeKids(g, n)
       /\ \A y \in TreeKids(g, n) : \E i \in 1..(q + 1) : t[i] = y
  <2>1. /\ \A i \in 1..q : s[i] \in TreeKids(h, n)
        /\ \A y \in TreeKids(h, n) : \E i \in 1..q : s[i] = y
    BY DEF TreeList, q
  <2>2. ASSUME NEW i \in 1..(q + 1) PROVE t[i] \in TreeKids(g, n)
    BY <1>3, <1>5, <2>1
  <2>3. ASSUME NEW y \in TreeKids(g, n) PROVE \E i \in 1..(q + 1) : t[i] = y
    <3>1. CASE y = x
      <4>1. p + 1 \in 1..(q + 1)
        BY <1>1 DEF q
      <4>2. QED  BY <1>3, <3>1, <4>1
    <3>2. CASE y \in TreeKids(h, n)
      <4>1. PICK j \in 1..q : s[j] = y
        BY <2>1, <3>2
      <4>2. j \in 1..(q + 1) /\ j + 1 \in 1..(q + 1) /\ (j <= p \/ p < j)
        BY <1>1
      <4>3. QED  BY <1>3, <4>1, <4>2
    <3>3. QED  BY <1>5, <3>1, <3>2
  <2>4. QED  BY <2>2, <2>3
<1>15. /\ g[t[1]].prev \in {Tree!NULL, Tree!Header}
       /\ g[n].end = t[q + 1]
  <2>3. g[t[1]].prev \in {Tree!NULL, Tree!Header}
    <3>1. CASE p = 0
      <4>1. t[1] = x
        BY <1>3, <3>1
      <4>2. QED  BY <1>4, <3>1, <4>1
    <3>2. CASE p # 0
      <4>1. 1 \in 1..q /\ 1 <= p /\ s[1] \in Tree!Node /\ s[1] # x /\ q # 0
        BY <1>1, <3>2 DEF q
      <4>2. p = q \/ s[1] # s[p + 1]
        <5>1. p = q \/ (p + 1 \in 1..q /\ p + 1 # 1)
          BY <1>1, <3>2 DEF q
        <5>2. QED  BY <1>1, <4>1, <5>1
      <4>3. g[s[1]].prev = h[s[1]].prev /\ t[1] = s[1]
        BY <1>3, <1>4, <4>1, <4>2
      <4>4. QED  BY <1>2, <4>1, <4>3
    <3>3. QED  BY <3>1, <3>2
  <2>4. g[n].end = t[q + 1]
    <3>1. CASE p = q
      BY <1>3, <1>4, <3>1
    <3>2. CASE p # q
      <4>1. q \in 1..q /\ p < q /\ q # 0
        BY <1>1, <3>2 DEF q
      <4>2. QED  BY <1>2, <1>3, <1>4, <3>2, <4>1
    <3>3. QED  BY <3>1, <3>2
  <2>5. QED  BY <2>3, <2>4
<1>16. Len(t) = q + 1 /\ Len(t) # 0
  BY <1>1, <1>3
<1>17. TreeList(g, n, t)
  BY <1>4, <1>11, <1>12, <1>13, <1>14, <1>15, <1>16 DEF TreeList
<1>18. QED  BY <1>17 DEF t

LEMMA TreeWithSound ==
    ASSUME Tree!TreeAssumption, NEW h \in TreeHeap, TreeSound(h),
           NEW n \in Tree!Node, Tree!Live(h, n), NEW s, TreeList(h, n, s),
           NEW x \in Tree!Node, Tree!Live(h, x), h[x].parent = Tree!NULL,
           NEW B \in SUBSET Tree!Node, TreeClosed(h, B), x \in B, n \notin B,
           NEW p \in Nat, p <= Len(s), NEW g, TreeWith(h, g, n, x, s, p)
    PROVE  /\ TreeSound(g)
           /\ \A S \in SUBSET Tree!Node :
                 TreeClosed(h, S) /\ (n \in S => x \in S) => TreeClosed(g, S)
<1>1. /\ x # n /\ h[x].parent # n /\ Tree!NULL \notin Tree!Node
      /\ \A m \in Tree!Node :
            /\ g[m].type = h[m].type
            /\ g[m].parent = IF m = x THEN n ELSE h[m].parent
            /\ Tree!Live(g, m) <=> Tree!Live(h, m)
  BY TreeNumbers DEF TreeWith, Tree!Live
<1>2. ASSUME NEW S \in SUBSET Tree!Node, TreeClosed(h, S), n \in S => x \in S
      PROVE  TreeClosed(g, S)
  BY <1>1, <1>2 DEF TreeClosed
<1>3. \A m \in Tree!Node : m # n => TreeKids(g, m) = TreeKids(h, m)
  <2>1. SUFFICES ASSUME NEW m \in Tree!Node, m # n, NEW y \in Tree!Node
                 PROVE  y \in TreeKids(g, m) <=> y \in TreeKids(h, m)
    BY DEF TreeKids
  <2>2. CASE y = x
    <3>1. g[x].parent = n /\ h[x].parent = Tree!NULL
      BY <1>1
    <3>2. g[y].parent # m /\ h[y].parent # m
      BY <1>1, <2>1, <2>2, <3>1
    <3>3. QED  BY <3>2 DEF TreeKids
  <2>3. CASE y # x
    <3>1. g[y].parent = h[y].parent /\ (Tree!Live(g, y) <=> Tree!Live(h, y))
      BY <1>1, <2>3
    <3>2. QED  BY <3>1 DEF TreeKids
  <2>4. QED  BY <2>2, <2>3
<1>4. ASSUME NEW m \in Tree!Node, Tree!Live(g, m)
      PROVE  \E t \in Seq(Tree!Node) : TreeList(g, m, t)
  <2>1. CASE m = n
    <3>1. TreeList(g, n, TreePut(s, x, p))
      BY <1>1, TreeListWith
    <3>2. TreePut(s, x, p) \in Seq(Tree!Node)
      BY <3>1, TreeListed
    <3>3. QED  BY <2>1, <3>1, <3>2
  <2>2. CASE m # n
    <3>1. PICK t \in Seq(Tree!Node) : TreeList(h, m, t)
      BY <1>1, <1>4 DEF TreeSound
    <3>2. /\ g[m].begin = h[m].begin /\ g[m].end = h[m].end /\ g[m].count = h[m].count
          /\ g[m].children = h[m].children
      BY <2>2 DEF TreeWith
    <3>3. ASSUME NEW i \in 1..Len(t)
          PROVE  g[t[i]].next = h[t[i]].next /\ g[t[i]].prev = h[t[i]].prev
      <4>1. t[i] \in Tree!Node /\ h[t[i]].parent = m
        BY <3>1 DEF TreeList, TreeKids
      <4>2. \A j \in 1..Len(s) : h[s[j]].parent = n
        BY DEF TreeList, TreeKids
      <4>3. Len(s) \in Nat
        BY TreeListed
      <4>4. /\ p = 0 \/ p \in 1..Len(s)
            /\ p = Len(s) \/ p + 1 \in 1..Len(s)
        BY <4>3
      <4>5. t[i] # x /\ (p = 0 \/ t[i] # s[p]) /\ (p = Len(s) \/ t[i] # s[p + 1])
        BY <1>1, <2>2, <4>1, <4>2, <4>4
      <4>6. QED  BY <4>1, <4>5 DEF TreeWith
    <3>4. TreeKids(g, m) = TreeKids(h, m)
      BY <1>3, <2>2
    <3>5. \A k \in Tree!Node : h[k].type = "freed" => g[k].type = "freed"
      BY <1>1
    <3>6. TreeList(g, m, t)
      BY <3>1, <3>2, <3>3, <3>4, <3>5, TreeListKept
    <3>7. QED  BY <3>6
  <2>3. QED  BY <2>1, <2>2
<1>5. ASSUME NEW m \in Tree!Node, Tree!Live(g, m)
      PROVE  g[m].parent = Tree!NULL \/ Tree!Live(g, g[m].parent)
  <2>1. CASE m = x
    BY <1>1, <2>1
  <2>2. CASE m # x
    <3>1. h[m].parent = Tree!NULL \/ Tree!Live(h, h[m].parent)
      BY <1>1, <1>5 DEF TreeSound
    <3>2. h[m].parent \in Tree!Node \cup {Tree!NULL}
      BY DEF TreeHeap, TreeCell
    <3>3. QED  BY <1>1, <2>2, <3>1, <3>2
  <2>3. QED  BY <2>1, <2>2
<1>6. ASSUME NEW m \in Tree!Node, Tree!Live(g, m) PROVE TreeRooted(g, m)
  <2>1. PICK S \in SUBSET Tree!Node : TreeClosed(h, S) /\ m \in S /\ h[m].parent \notin S
    BY <1>1, <1>6 DEF TreeSound, TreeRooted
  <2>2. CASE m \in B
    <3> DEFINE T == S \cap B
    <3>1. T \in SUBSET Tree!Node /\ TreeClosed(h, T) /\ m \in T /\ n \notin T
      BY <2>1, <2>2 DEF TreeClosed
    <3>2. g[m].parent \notin T
      BY <1>1, <2>1, <3>1
    <3>3. TreeClosed(g, T)
      BY <1>2, <3>1
    <3>4. QED  BY <3>1, <3>2, <3>3 DEF TreeRooted
  <2>3. CASE m \notin B
    <3> DEFINE T == S \cup B
    <3>1. T \in SUBSET Tree!Node /\ TreeClosed(h, T) /\ m \in T /\ x \in T
      BY <2>1 DEF TreeClosed
    <3>2. h[m].parent \notin B
      BY <1>1, <1>6, <2>3 DEF TreeClosed
    <3>3. g[m].parent \notin T
      BY <1>1, <2>1, <2>3, <3>2
    <3>4. TreeClosed(g, T)
      BY <1>2, <3>1
    <3>5. QED  BY <3>1, <3>3, <3>4 DEF TreeRooted
  <2>4. QED  BY <2>2, <2>3
<1>7. \A a, b \in Tree!Node : g[a].type = "unused" /\ a <= b => g[b].type = "unused"
  BY <1>1 DEF TreeSound
<1>8. QED  BY <1>2, <1>4, <1>5, <1>6, <1>7 DEF TreeSound

\* The effect of Put where nothing that was freed is written.
LEMMA TreePutSound ==
    ASSUME Tree!TreeAssumption, NEW h \in TreeHeap, TreeSound(h),
           NEW n \in Tree!Node, Tree!Live(h, n),
           NEW x \in Tree!Node, Tree!Live(h, x), h[x].parent = Tree!NULL,
           NEW B \in SUBSET Tree!Node, TreeClosed(h, B), x \in B, n \notin B,
           NEW i \in Nat, ~Tree!Dangles(h, n, i),
           NEW g, g = Tree!Attached(h, n, i, x)
    PROVE  /\ g \in TreeHeap /\ TreeSound(g)
           /\ \A m \in Tree!Node : /\ g[m].type = h[m].type
                                   /\ m # x => g[m].parent = h[m].parent
           /\ \A S \in SUBSET Tree!Node :
                 TreeClosed(h, S) /\ (n \in S => x \in S) => TreeClosed(g, S)
           /\ i >= h[n].count => g[n].end = x /\ g[n].count = h[n].count + 1
<1>1. PICK s \in Seq(Tree!Node) : TreeList(h, n, s)
  BY DEF TreeSound
<1>2. h[n].parent # n
  BY DEF TreeSound, TreeRooted
<1>3. x # n /\ \A j \in 1..Len(s) : s[j] # x
  <2>1. \A j \in 1..Len(s) : h[s[j]].parent = n
    BY <1>1 DEF TreeList, TreeKids
  <2>2. QED  BY <2>1, TreeNumbers
<1> DEFINE p == IF i < Len(s) THEN i ELSE Len(s)
<1>4. TreeWith(h, g, n, x, s, p)
  BY <1>1, <1>2, <1>3, TreeAttached
<1>5. p \in Nat /\ p <= Len(s) /\ Len(s) \in Nat
  BY <1>1, TreeListed
<1>6. i >= h[n].count => p = Len(s)
  BY <1>1, <1>5 DEF TreeList
<1> HIDE DEF p
<1>7. /\ TreeSound(g)
      /\ \A S \in SUBSET Tree!Node :
            TreeClosed(h, S) /\ (n \in S => x \in S) => TreeClosed(g, S)
  BY <1>1, <1>4, <1>5, TreeWithSound
<1>8. /\ g \in TreeHeap
      /\ \A m \in Tree!Node : /\ g[m].type = h[m].type
                              /\ m # x => g[m].parent = h[m].parent
      /\ g[n].count = h[n].count + 1
      /\ p = Len(s) => g[n].end = x
  BY <1>4 DEF TreeWith
<1>9. QED  BY <1>6, <1>7, <1>8

-----------------------------------------------------------------------------
(* A list with one less is a list.                                         *)

\* s without its p-th.
TreeDrop(s, p) == [j \in 1..(Len(s) - 1) |-> IF j < p THEN s[j] ELSE s[j + 1]]

LEMMA TreeDropIs ==
    ASSUME NEW S, NEW s \in Seq(S), NEW p \in 1..Len(s)
    PROVE  /\ TreeDrop(s, p) \in Seq(S) /\ Len(TreeDrop(s, p)) = Len(s) - 1
           /\ \A j \in 1..Len(s) : j < p => TreeDrop(s, p)[j] = s[j]
           /\ \A j \in 1..Len(s) : p < j => TreeDrop(s, p)[j - 1] = s[j]
           /\ \A i \in 1..(Len(s) - 1) : \/ i < p /\ i \in 1..Len(s)
                                         \/ p <= i /\ i + 1 \in 1..Len(s) /\ (i + 1) - 1 = i
<1> DEFINE q == Len(s)
           u == TreeDrop(s, p)
<1>1. q \in Nat /\ p \in 1..q /\ \A j \in 1..q : s[j] \in S
  BY LenProperties, ElementOfSeq
<1>2. u = [j \in 1..(q - 1) |-> IF j < p THEN s[j] ELSE s[j + 1]]
  BY DEF TreeDrop
<1> HIDE DEF q, u
<1>3. \A i \in 1..(q - 1) : \/ i < p /\ i \in 1..q
                            \/ p <= i /\ i + 1 \in 1..q /\ (i + 1) - 1 = i
  BY <1>1
<1>4. \A j \in 1..(q - 1) : u[j] = (IF j < p THEN s[j] ELSE s[j + 1]) /\ u[j] \in S
  BY <1>1, <1>2, <1>3
<1>5. u \in [1..(q - 1) -> S]
  BY <1>2, <1>4
<1>6. u \in Seq(S) /\ Len(u) = q - 1
  <2>1. q - 1 \in Nat
    BY <1>1
  <2>2. u \in Seq(S)
    BY <1>5, <2>1, SeqDef
  <2>3. QED  BY <1>5, <2>1, <2>2, LenProperties
<1>7. \A j \in 1..q : j < p => u[j] = s[j]
  <2>1. \A j \in 1..q : j < p => j \in 1..(q - 1)
    BY <1>1
  <2>2. QED  BY <1>4, <2>1
<1>8. \A j \in 1..q : p < j => u[j - 1] = s[j]
  <2>1. \A j \in 1..q : p < j => j - 1 \in 1..(q - 1) /\ ~(j - 1 < p) /\ (j - 1) + 1 = j
    BY <1>1
  <2>2. QED  BY <1>4, <2>1
<1>9. QED  BY <1>3, <1>6, <1>7, <1>8 DEF q, u

\* r is h without the p-th child of n, which is freed.
TreeWithout(h, r, n, s, p) ==
    /\ r[n].count = Len(s) - 1 /\ r[n].children = Len(s) - 1
    /\ r[n].begin = IF p = 1 THEN TreeAt(s, 2) ELSE h[n].begin
    /\ IF p # Len(s) THEN r[n].end = h[n].end
       ELSE IF p # 1 THEN r[n].end = s[p - 1]
       ELSE r[n].end \in {Tree!Header, s[p]}
    /\ \A j \in 1..Len(s) : j # p =>
          /\ r[s[j]].next = IF j = p - 1 THEN TreeAt(s, p + 1) ELSE h[s[j]].next
          /\ r[s[j]].prev = IF j = p + 1 THEN h[s[p]].prev ELSE h[s[j]].prev
    /\ r[s[p]].type = "freed"
    /\ TreeKids(r, n) = TreeKids(h, n) \ {s[p]}

LEMMA TreeListWithout ==
    ASSUME NEW h, NEW n \in Tree!Node, NEW s, TreeList(h, n, s), NEW p \in 1..Len(s),
           NEW r, TreeWithout(h, r, n, s, p)
    PROVE  TreeList(r, n, TreeDrop(s, p))
<1> DEFINE q == Len(s)
           u == TreeDrop(s, p)
<1>1. /\ s \in Seq(Tree!Node) /\ q \in Nat /\ \A i \in 1..q : s[i] \in Tree!Node
      /\ p \in 1..q /\ p \in Nat
      /\ \A i, j \in 1..q : s[i] = s[j] => i = j
      /\ h[n].begin = TreeAt(s, 1)
      /\ \A i \in 1..q : h[s[i]].next = TreeAt(s, i + 1)
  <2>1. s \in Seq(Tree!Node) /\ q \in Nat /\ \A i \in 1..q : s[i] \in Tree!Node
    BY TreeListed
  <2>2. QED  BY <2>1 DEF TreeList, TreeLinks
<1>2. /\ \A i \in 2..q : h[s[i]].prev = s[i - 1]
      /\ h[s[1]].prev \in {Tree!NULL, Tree!Header} /\ h[n].end = s[q]
  <2>1. q # 0
    BY <1>1
  <2>2. QED  BY <2>1 DEF TreeList
<1>3. /\ u \in Seq(Tree!Node) /\ Len(u) = q - 1
      /\ \A j \in 1..q : j < p => u[j] = s[j]
      /\ \A j \in 1..q : p < j => u[j - 1] = s[j]
      /\ \A i \in 1..(q - 1) : \/ i < p /\ i \in 1..q
                               \/ p <= i /\ i + 1 \in 1..q /\ (i + 1) - 1 = i
  BY <1>1, TreeDropIs
<1>4. /\ r[n].count = q - 1 /\ r[n].children = q - 1
      /\ r[n].begin = IF p = 1 THEN TreeAt(s, 2) ELSE h[n].begin
      /\ IF p # q THEN r[n].end = h[n].end
         ELSE IF p # 1 THEN r[n].end = s[p - 1] ELSE r[n].end \in {Tree!Header, s[p]}
      /\ \A j \in 1..q : j # p =>
            /\ r[s[j]].next = IF j = p - 1 THEN TreeAt(s, p + 1) ELSE h[s[j]].next
            /\ r[s[j]].prev = IF j = p + 1 THEN h[s[p]].prev ELSE h[s[j]].prev
      /\ r[s[p]].type = "freed"
      /\ TreeKids(r, n) = TreeKids(h, n) \ {s[p]}
  BY DEF TreeWithout
<1> HIDE DEF q, u
<1>5. \A i \in 1..q : i < p => TreeAt(u, i) = s[i]
  <2>1. \A i \in 1..q : i < p => i \in 1..(q - 1)
    BY <1>1
  <2>2. QED  BY <1>3, <2>1 DEF TreeAt
<1>6. \A i \in 1..q : p <= i => TreeAt(u, i) = TreeAt(s, i + 1)
  <2>1. TAKE i \in 1..q
  <2>2. HAVE p <= i
  <2>3. CASE i = q
    <3>1. i \notin 1..(q - 1) /\ i + 1 \notin 1..q
      BY <1>1, <2>3
    <3>2. QED  BY <1>3, <3>1 DEF TreeAt, q
  <2>4. CASE i # q
    <3>1. i + 1 \in 1..q /\ p < i + 1 /\ (i + 1) - 1 = i /\ i \in 1..(q - 1)
      BY <1>1, <2>2, <2>4
    <3>2. u[i] = s[i + 1]
      BY <1>3, <3>1
    <3>3. QED  BY <1>3, <3>1, <3>2 DEF TreeAt, q
  <2>5. QED  BY <2>3, <2>4
<1>7. r[n].begin = TreeAt(u, 1)
  <2>1. CASE p = 1
    <3>1. 1 \in 1..q /\ p <= 1 /\ 1 + 1 = 2
      BY <1>1, <2>1
    <3>2. QED  BY <1>4, <1>6, <2>1, <3>1
  <2>2. CASE p # 1
    <3>1. 1 \in 1..q /\ 1 < p
      BY <1>1, <2>2
    <3>2. QED  BY <1>1, <1>4, <1>5, <2>2, <3>1 DEF TreeAt, q
  <2>3. QED  BY <2>1, <2>2
<1>8. ASSUME NEW i \in 1..(q - 1) PROVE r[u[i]].next = TreeAt(u, i + 1)
  <2>1. CASE i < p /\ i \in 1..q
    <3>1. u[i] = s[i] /\ i # p /\ i + 1 \in 1..q
      BY <1>1, <1>3, <2>1
    <3>2. CASE i = p - 1
      <4>1. i + 1 = p /\ p <= p
        BY <1>1, <3>2
      <4>2. QED  BY <1>1, <1>4, <1>6, <2>1, <3>1, <3>2, <4>1
    <3>3. CASE i # p - 1
      <4>1. i + 1 < p
        BY <1>1, <2>1, <3>3
      <4>2. TreeAt(s, i + 1) = s[i + 1]
        BY <3>1 DEF TreeAt, q
      <4>3. QED  BY <1>1, <1>4, <1>5, <2>1, <3>1, <3>3, <4>1, <4>2
    <3>4. QED  BY <3>2, <3>3
  <2>2. CASE p <= i /\ i + 1 \in 1..q /\ (i + 1) - 1 = i
    <3>1. i + 1 # p /\ i + 1 # p - 1 /\ p < i + 1 /\ p <= i + 1
      BY <1>1, <2>2
    <3>2. u[i] = s[i + 1]
      BY <1>3, <2>2, <3>1
    <3>3. QED  BY <1>1, <1>4, <1>6, <2>2, <3>1, <3>2
  <2>3. QED  BY <1>3, <2>1, <2>2
<1>9. TreeLinks(r, n, u)
  BY <1>3, <1>7, <1>8 DEF TreeLinks
<1>10. ASSUME NEW i \in 2..(q - 1) PROVE r[u[i]].prev = u[i - 1]
  <2>1. i \in 1..(q - 1) /\ i - 1 \in 1..q
    BY <1>1
  <2>2. CASE i < p /\ i \in 1..q
    <3>1. u[i] = s[i] /\ i # p /\ i # p + 1 /\ i - 1 < p /\ i \in 2..q
      BY <1>1, <1>3, <2>2
    <3>2. h[s[i]].prev = s[i - 1]
      BY <1>2, <3>1
    <3>3. u[i - 1] = s[i - 1]
      BY <1>3, <2>1, <3>1
    <3>4. QED  BY <1>4, <2>2, <3>1, <3>2, <3>3
  <2>3. CASE p <= i /\ i + 1 \in 1..q /\ (i + 1) - 1 = i
    <3>1. i + 1 # p /\ p < i + 1 /\ i + 1 \in 2..q
      BY <1>1, <2>3
    <3>2. u[i] = s[i + 1]
      BY <1>3, <2>3, <3>1
    <3>3. CASE i = p
      <4>1. p \in 2..q /\ p - 1 < p /\ p - 1 \in 1..q
        BY <1>1, <3>3
      <4>2. h[s[p]].prev = s[p - 1] /\ u[p - 1] = s[p - 1]
        BY <1>2, <1>3, <4>1
      <4>3. QED  BY <1>4, <2>3, <3>1, <3>2, <3>3, <4>2
    <3>4. CASE i # p
      <4>1. i + 1 # p + 1 /\ p < i /\ i \in 1..q
        BY <1>1, <2>3, <3>4
      <4>2. h[s[i + 1]].prev = s[i] /\ u[i - 1] = s[i]
        BY <1>2, <1>3, <2>3, <3>1, <4>1
      <4>3. QED  BY <1>4, <2>3, <3>1, <3>2, <4>1, <4>2
    <3>5. QED  BY <3>3, <3>4
  <2>4. QED  BY <1>3, <2>1, <2>2, <2>3
<1>11. ASSUME NEW i \in 1..(q - 1) PROVE u[i] = s[IF i < p THEN i ELSE i + 1]
  BY <1>1, <1>3
<1>12. ASSUME NEW i \in 1..(q - 1), NEW j \in 1..(q - 1), u[i] = u[j] PROVE i = j
  <2> DEFINE k == IF i < p THEN i ELSE i + 1
             l == IF j < p THEN j ELSE j + 1
  <2>1. k \in 1..q /\ l \in 1..q /\ (k = l => i = j)
    BY <1>1
  <2>2. u[i] = s[k] /\ u[j] = s[l]
    BY <1>11
  <2> HIDE DEF k, l
  <2>3. QED  BY <1>1, <1>12, <2>1, <2>2
<1>13. /\ \A i \in 1..(q - 1) : u[i] \in TreeKids(r, n)
       /\ \A y \in TreeKids(r, n) : \E i \in 1..(q - 1) : u[i] = y
  <2>1. /\ \A i \in 1..q : s[i] \in TreeKids(h, n)
        /\ \A y \in TreeKids(h, n) : \E i \in 1..q : s[i] = y
    BY DEF TreeList, q
  <2>2. ASSUME NEW i \in 1..(q - 1) PROVE u[i] \in TreeKids(r, n)
    <3> DEFINE k == IF i < p THEN i ELSE i + 1
    <3>1. k \in 1..q /\ k # p /\ u[i] = s[k]
      BY <1>1, <1>11
    <3> HIDE DEF k
    <3>2. s[k] # s[p]
      BY <1>1, <3>1
    <3>3. QED  BY <1>4, <2>1, <3>1, <3>2
  <2>3. ASSUME NEW y \in TreeKids(r, n) PROVE \E i \in 1..(q - 1) : u[i] = y
    <3>1. y \in TreeKids(h, n) /\ y # s[p]
      BY <1>4
    <3>2. PICK j \in 1..q : s[j] = y
      BY <2>1, <3>1
    <3>3. CASE j < p
      <4>1. j \in 1..(q - 1)
        BY <1>1, <3>3
      <4>2. QED  BY <1>3, <3>2, <3>3, <4>1
    <3>4. CASE p < j
      <4>1. j - 1 \in 1..(q - 1)
        BY <1>1, <3>4
      <4>2. QED  BY <1>3, <3>2, <3>4, <4>1
    <3>5. QED  BY <1>1, <3>1, <3>2, <3>3, <3>4
  <2>4. QED  BY <2>2, <2>3
<1>14. q - 1 # 0 => /\ r[u[1]].prev \in {Tree!NULL, Tree!Header}
                    /\ r[n].end = u[q - 1]
  <2>1. HAVE q - 1 # 0
  <2>2. r[u[1]].prev \in {Tree!NULL, Tree!Header}
    <3>1. CASE p = 1
      <4>1. 2 \in 1..q /\ p < 2 /\ 2 - 1 = 1 /\ 2 # p /\ 2 = p + 1
        BY <1>1, <2>1, <3>1
      <4>2. u[1] = s[2]
        BY <1>3, <4>1
      <4>3. r[s[2]].prev = h[s[p]].prev
        BY <1>4, <4>1
      <4>4. QED  BY <1>2, <3>1, <4>2, <4>3
    <3>2. CASE p # 1
      <4>1. 1 \in 1..q /\ 1 < p /\ 1 # p + 1
        BY <1>1, <3>2
      <4>2. u[1] = s[1]
        BY <1>3, <4>1
      <4>3. QED  BY <1>2, <1>4, <3>2, <4>1, <4>2
    <3>3. QED  BY <3>1, <3>2
  <2>3. r[n].end = u[q - 1]
    <3>1. CASE p # q
      <4>1. q \in 1..q /\ p < q
        BY <1>1, <3>1
      <4>2. QED  BY <1>2, <1>3, <1>4, <3>1, <4>1
    <3>2. CASE p = q
      <4>1. p # 1 /\ p - 1 \in 1..q /\ p - 1 < p
        BY <1>1, <2>1, <3>2
      <4>2. QED  BY <1>3, <1>4, <3>2, <4>1
    <3>3. QED  BY <3>1, <3>2
  <2>4. QED  BY <2>2, <2>3
<1>15. q - 1 = 0 => \/ r[n].end = Tree!Header
                    \/ r[n].end \in Tree!Node /\ r[r[n].end].type = "freed"
  <2>1. q - 1 = 0 => p = q /\ p = 1
    BY <1>1
  <2>2. QED  BY <1>1, <1>4, <2>1
<1>16. TreeList(r, n, u)
  BY <1>3, <1>4, <1>9, <1>10, <1>12, <1>13, <1>14, <1>15 DEF TreeList
<1>17. QED  BY <1>16 DEF u

-----------------------------------------------------------------------------
(* What a removal writes.                                                  *)

\* Only the counts of n, one less.
TreeLessened(h, g, n) ==
    /\ g \in TreeHeap
    /\ \A m \in Tree!Node :
          /\ g[m].type = h[m].type /\ g[m].next = h[m].next /\ g[m].prev = h[m].prev
          /\ g[m].begin = h[m].begin /\ g[m].end = h[m].end /\ g[m].parent = h[m].parent
          /\ g[m].count = IF m = n THEN h[m].count - 1 ELSE h[m].count
          /\ g[m].children = IF m = n THEN h[m].children - 1 ELSE h[m].children

LEMMA TreeLess ==
    ASSUME NEW h \in TreeHeap, NEW n \in Tree!Node, h[n].count # 0, h[n].children # 0,
           NEW k, k = [h EXCEPT ![n].children = @ - 1],
           NEW g, g = [k EXCEPT ![n].count = @ - 1]
    PROVE  TreeLessened(h, g, n)
<1> DEFINE a == [h[n] EXCEPT !.children = @ - 1]
           b == [a EXCEPT !.count = @ - 1]
<1>1. h[n] \in TreeCell /\ h[n].count \in Nat /\ h[n].children \in Nat
  BY DEF TreeHeap, TreeCell
<1>2. h[n].count - 1 \in Nat /\ h[n].children - 1 \in Nat
  BY <1>1
<1>3. /\ a \in TreeCell /\ a.type = h[n].type /\ a.next = h[n].next /\ a.prev = h[n].prev
      /\ a.begin = h[n].begin /\ a.end = h[n].end /\ a.count = h[n].count
      /\ a.parent = h[n].parent /\ a.children = h[n].children - 1
  BY <1>1, <1>2 DEF TreeCell
<1>4. k = [h EXCEPT ![n] = a]
  BY DEF TreeHeap
<1>5. k \in TreeHeap /\ k[n] = a /\ \A m \in Tree!Node : m # n => k[m] = h[m]
  BY <1>3, <1>4 DEF TreeHeap
<1>6. b = [a EXCEPT !.count = a.count - 1] /\ g = [k EXCEPT ![n] = b]
  BY <1>5 DEF TreeHeap
<1> HIDE DEF a, b
<1>7. /\ b \in TreeCell /\ b.type = a.type /\ b.next = a.next /\ b.prev = a.prev
      /\ b.begin = a.begin /\ b.end = a.end /\ b.count = h[n].count - 1
      /\ b.parent = a.parent /\ b.children = a.children
  BY <1>2, <1>3, <1>6 DEF TreeCell
<1>8. g \in TreeHeap /\ g[n] = b /\ \A m \in Tree!Node : m # n => g[m] = h[m]
  <2>1. b \in TreeCell /\ k \in TreeHeap /\ g = [k EXCEPT ![n] = b]
    BY <1>5, <1>6, <1>7
  <2>2. g \in TreeHeap /\ g[n] = b /\ \A m \in Tree!Node : m # n => g[m] = k[m]
    BY ONLY <2>1, n \in Tree!Node DEF TreeHeap
  <2>3. QED  BY <1>5, <2>2
<1>9. ASSUME NEW m \in Tree!Node
      PROVE  /\ g[m].type = h[m].type /\ g[m].next = h[m].next /\ g[m].prev = h[m].prev
             /\ g[m].begin = h[m].begin /\ g[m].end = h[m].end /\ g[m].parent = h[m].parent
             /\ g[m].count = IF m = n THEN h[m].count - 1 ELSE h[m].count
             /\ g[m].children = IF m = n THEN h[m].children - 1 ELSE h[m].children
  <2>1. CASE m = n
    BY <1>3, <1>7, <1>8, <2>1
  <2>2. CASE m # n
    <3>1. g[m] = h[m]
      BY <1>8, <2>2
    <3>2. QED  BY ONLY <2>2, <3>1
  <2>3. QED  BY <2>1, <2>2
<1>10. QED  BY <1>8, <1>9 DEF TreeLessened

\* Only the link back of x and the end of n.
TreeBacked(h, g, x, prev, n, end) ==
    /\ g \in TreeHeap
    /\ \A m \in Tree!Node :
          /\ g[m].type = h[m].type /\ g[m].next = h[m].next
          /\ g[m].begin = h[m].begin /\ g[m].parent = h[m].parent
          /\ g[m].count = h[m].count /\ g[m].children = h[m].children
          /\ g[m].prev = IF m = x THEN prev ELSE h[m].prev
          /\ g[m].end = IF m = n THEN end ELSE h[m].end

LEMMA TreeBack ==
    ASSUME NEW h \in TreeHeap, NEW x \in Tree!Node,
           NEW prev \in Tree!Node \cup {Tree!NULL, Tree!Header}, NEW n \in Tree!Node,
           NEW g, g = [h EXCEPT ![x].prev = prev]
    PROVE  TreeBacked(h, g, x, prev, n, h[n].end)
<1> DEFINE a == [h[x] EXCEPT !.prev = prev]
<1>1. /\ a \in TreeCell /\ a.type = h[x].type /\ a.next = h[x].next /\ a.prev = prev
      /\ a.begin = h[x].begin /\ a.end = h[x].end /\ a.count = h[x].count
      /\ a.parent = h[x].parent /\ a.children = h[x].children
  BY DEF TreeHeap, TreeCell
<1>2. g = [h EXCEPT ![x] = a]
  BY DEF TreeHeap
<1> HIDE DEF a
<1>3. g \in TreeHeap /\ g[x] = a /\ \A m \in Tree!Node : m # x => g[m] = h[m]
  BY <1>1, <1>2 DEF TreeHeap
<1>4. QED  BY <1>1, <1>3 DEF TreeBacked

LEMMA TreeEnded ==
    ASSUME NEW h \in TreeHeap, NEW n \in Tree!Node,
           NEW end \in Tree!Node \cup {Tree!Header},
           NEW g, g = [h EXCEPT ![n].end = end]
    PROVE  TreeBacked(h, g, Tree!NULL, Tree!NULL, n, end)
<1> DEFINE a == [h[n] EXCEPT !.end = end]
<1>1. /\ a \in TreeCell /\ a.type = h[n].type /\ a.next = h[n].next /\ a.prev = h[n].prev
      /\ a.begin = h[n].begin /\ a.end = end /\ a.count = h[n].count
      /\ a.parent = h[n].parent /\ a.children = h[n].children
  BY DEF TreeHeap, TreeCell
<1>2. g = [h EXCEPT ![n] = a]
  BY DEF TreeHeap
<1> HIDE DEF a
<1>3. g \in TreeHeap /\ g[n] = a /\ \A m \in Tree!Node : m # n => g[m] = h[m]
  BY <1>1, <1>2 DEF TreeHeap
<1>4. QED  BY <1>1, <1>3, TreeNumbers DEF TreeBacked

\* g is h without the links to the p-th child of n.
TreeCut(h, g, n, s, p) ==
    /\ g \in TreeHeap
    /\ \A m \in Tree!Node :
          /\ g[m].type = h[m].type /\ g[m].parent = h[m].parent
          /\ m # n => /\ g[m].begin = h[m].begin /\ g[m].end = h[m].end
                      /\ g[m].count = h[m].count /\ g[m].children = h[m].children
          /\ g[m].next = IF p # 1 /\ m = s[p - 1] THEN TreeAt(s, p + 1) ELSE h[m].next
          /\ g[m].prev = IF p # Len(s) /\ m = s[p + 1] THEN h[s[p]].prev ELSE h[m].prev
    /\ g[n].count = Len(s) - 1 /\ g[n].children = Len(s) - 1
    /\ g[n].begin = IF p = 1 THEN TreeAt(s, 2) ELSE h[n].begin
    /\ IF p # Len(s) THEN g[n].end = h[n].end
       ELSE IF p # 1 THEN g[n].end = s[p - 1]
       ELSE g[n].end \in {Tree!Header, s[p]}

\* What the removal comes to, whichever field it writes last.
LEMMA TreeCutEnds ==
    ASSUME NEW h \in TreeHeap, NEW n \in Tree!Node, NEW x \in Tree!Node,
           NEW before \in Tree!Node \cup {Tree!NULL, Tree!Header}, before = h[x].prev,
           NEW after \in Tree!Node \cup {Tree!NULL}, after = h[x].next,
           NEW to \in Tree!Node \cup {Tree!Header},
           to = IF before = Tree!NULL THEN Tree!Header ELSE before,
           h[n].count # 0, h[n].children # 0, n # x,
           NEW g, g = Tree!ListRemove([h EXCEPT ![n].children = @ - 1], n, x)
    PROVE  \E k \in TreeHeap, j \in TreeHeap :
              /\ TreeLessened(h, k, n) /\ TreePointed(k, j, n, to, after)
              /\ TreeBacked(j, g, after, before, n,
                            IF after # Tree!NULL \/ before = Tree!NULL THEN h[n].end ELSE before)
<1> DEFINE k0 == [h EXCEPT ![n].children = @ - 1]
           k == [k0 EXCEPT ![n].count = @ - 1]
           j == Tree!Follow(k, n, to, after)
<1>1. TreeLessened(h, k, n)
  BY TreeLess
<1>2. k0[x] = h[x]
  BY DEF TreeHeap
<1>3. g = IF after # Tree!NULL THEN [j EXCEPT ![after].prev = before]
          ELSE IF before # Tree!NULL THEN [j EXCEPT ![n].end = before] ELSE j
  <2>1. g = LET b == k0[x].prev
                a == k0[x].next
                l == Tree!Follow([k0 EXCEPT ![n].count = @ - 1], n,
                                 IF b = Tree!NULL THEN Tree!Header ELSE b, a)
            IN  IF a # Tree!NULL THEN [l EXCEPT ![a].prev = b]
                ELSE IF b # Tree!NULL THEN [l EXCEPT ![n].end = b] ELSE l
    BY DEF Tree!ListRemove
  <2>2. k0[x].prev = before /\ k0[x].next = after
    BY <1>2
  <2> HIDE DEF k0
  <2>3. QED  BY ONLY <2>1, <2>2, to = IF before = Tree!NULL THEN Tree!Header ELSE before
<1> HIDE DEF k0, k
<1>4. k \in TreeHeap
  BY <1>1 DEF TreeLessened
<1>5. TreePointed(k, j, n, to, after)
  BY <1>4, TreeFollowed
<1> HIDE DEF j
<1>6. j \in TreeHeap /\ j[n].end = h[n].end
  BY <1>1, <1>5 DEF TreePointed, TreeLessened
<1>7. CASE after # Tree!NULL
  <2>1. after \in Tree!Node /\ g = [j EXCEPT ![after].prev = before]
    BY <1>3, <1>7
  <2>2. TreeBacked(j, g, after, before, n, h[n].end)
    BY <1>6, <2>1, TreeBack
  <2>3. QED  BY <1>1, <1>4, <1>5, <1>6, <1>7, <2>2
<1>8. CASE after = Tree!NULL /\ before # Tree!NULL
  <2>1. before \in Tree!Node \cup {Tree!Header} /\ g = [j EXCEPT ![n].end = before]
    BY <1>3, <1>8
  <2>2. TreeBacked(j, g, Tree!NULL, Tree!NULL, n, before)
    BY <1>6, <2>1, TreeEnded
  <2>3. TreeBacked(j, g, after, before, n, before)
    <3>1. \A m \in Tree!Node : m # Tree!NULL /\ m # after
      BY <1>8, TreeNumbers
    <3>2. QED  BY ONLY <2>2, <3>1 DEF TreeBacked
  <2>4. QED  BY <1>1, <1>4, <1>5, <1>6, <1>8, <2>3
<1>9. CASE after = Tree!NULL /\ before = Tree!NULL
  <2>1. g = j
    BY <1>3, <1>9
  <2>2. TreeBacked(j, g, after, before, n, h[n].end)
    BY <1>6, <1>9, <2>1, TreeNumbers DEF TreeBacked
  <2>3. QED  BY <1>1, <1>4, <1>5, <1>6, <1>9, <2>2
<1>10. QED  BY <1>7, <1>8, <1>9

LEMMA TreeCutIs ==
    ASSUME Tree!TreeAssumption, NEW h \in TreeHeap, NEW n \in Tree!Node,
           NEW s, TreeList(h, n, s), h[n].parent # n,
           NEW p \in 1..Len(s), NEW g, g = Tree!Detached(h, s[p])
    PROVE  TreeCut(h, g, n, s, p)
<1> DEFINE q == Len(s)
           x == s[p]
           before == h[x].prev
           after == h[x].next
           to == IF before = Tree!NULL THEN Tree!Header ELSE before
<1>1. /\ s \in Seq(Tree!Node) /\ q \in Nat /\ \A i \in 1..q : s[i] \in Tree!Node
      /\ p \in 1..q /\ p \in Nat /\ q # 0 /\ x \in Tree!Node
      /\ \A i, j \in 1..q : s[i] = s[j] => i = j
      /\ \A i \in 1..q : s[i] # n
      /\ h[n].begin = TreeAt(s, 1) /\ h[n].count = q /\ h[n].children = q
      /\ h[x].parent = n /\ after = TreeAt(s, p + 1)
  <2>1. s \in Seq(Tree!Node) /\ q \in Nat /\ \A i \in 1..q : s[i] \in Tree!Node
    BY TreeListed
  <2>2. q # 0 /\ p \in Nat
    BY <2>1
  <2>3. \A i \in 1..q : h[s[i]].parent = n
    BY DEF TreeList, TreeKids
  <2>4. QED  BY <2>1, <2>2, <2>3 DEF TreeList, TreeLinks
<1>2. /\ h[n].end = s[q]
      /\ IF p = 1 THEN before \in {Tree!NULL, Tree!Header}
         ELSE p - 1 \in 1..q /\ before = s[p - 1]
  <2>1. p # 1 => p \in 2..q /\ p - 1 \in 1..q
    BY <1>1
  <2>2. QED  BY <1>1, <2>1 DEF TreeList
<1>3. IF p = q THEN after = Tree!NULL ELSE p + 1 \in 1..q /\ after = s[p + 1]
  <2>1. IF p = q THEN p + 1 \notin 1..q ELSE p + 1 \in 1..q
    BY <1>1
  <2>2. QED  BY <1>1, <2>1 DEF TreeAt
<1>4. g = Tree!ListRemove([h EXCEPT ![n].children = @ - 1], n, x)
  <2>1. x \in Tree!ToSet(Tree!Items(h, n))
    <3>1. x \in TreeKids(h, n)
      BY DEF TreeList
    <3>2. QED  BY <3>1, TreeItemsList
  <2>2. n # Tree!NULL
    BY TreeNumbers
  <2>3. g = LET m == h[x].parent
            IN  IF m # Tree!NULL /\ x \in Tree!ToSet(Tree!Items(h, m))
                THEN Tree!ListRemove([h EXCEPT ![m].children = @ - 1], m, x)
                ELSE h
    BY DEF Tree!Detached
  <2> HIDE DEF x
  <2>4. QED  BY <1>1, <2>1, <2>2, <2>3
<1>5. /\ before \in Tree!Node \cup {Tree!NULL, Tree!Header}
      /\ after \in Tree!Node \cup {Tree!NULL} /\ to \in Tree!Node \cup {Tree!Header}
      /\ n # x
  BY <1>1, <1>2, <1>3, TreeNumbers
<1> DEFINE end == IF after # Tree!NULL \/ before = Tree!NULL THEN h[n].end ELSE before
<1>6. PICK k \in TreeHeap, j \in TreeHeap :
              /\ TreeLessened(h, k, n) /\ TreePointed(k, j, n, to, after)
              /\ TreeBacked(j, g, after, before, n, end)
  <2>1. before = h[x].prev /\ after = h[x].next
    OBVIOUS
  <2>2. to = IF before = Tree!NULL THEN Tree!Header ELSE before
    OBVIOUS
  <2>3. h[n].count # 0 /\ h[n].children # 0
    BY <1>1
  <2>4. \E k \in TreeHeap, j \in TreeHeap :
              /\ TreeLessened(h, k, n) /\ TreePointed(k, j, n, to, after)
              /\ TreeBacked(j, g, after, before, n,
                            IF after # Tree!NULL \/ before = Tree!NULL THEN h[n].end ELSE before)
    <3>1. x \in Tree!Node /\ n \in Tree!Node /\ h \in TreeHeap
      BY <1>1
    <3> HIDE DEF to, before, after, x
    <3>2. QED  BY ONLY <1>4, <1>5, <2>1, <2>2, <2>3, <3>1, TreeCutEnds
  <2>5. QED  BY <2>4
<1>7. /\ \A m \in Tree!Node : to = m <=> p # 1 /\ m = s[p - 1]
      /\ to = Tree!Header <=> p = 1
  BY <1>1, <1>2, TreeNumbers
<1>8. \A m \in Tree!Node : m = after <=> p # q /\ m = s[p + 1]
  BY <1>1, <1>3, TreeNumbers
<1>9. /\ p # q => end = h[n].end
      /\ p = q /\ p # 1 => end = s[p - 1]
      /\ p = q /\ p = 1 => end \in {Tree!Header, x}
  BY <1>1, <1>2, <1>3, TreeNumbers
<1>10. before = h[s[p]].prev
  OBVIOUS
<1> HIDE DEF to, before, after, end
<1>11. ASSUME NEW m \in Tree!Node
       PROVE  /\ g[m].type = h[m].type /\ g[m].parent = h[m].parent
              /\ m # n => /\ g[m].begin = h[m].begin /\ g[m].end = h[m].end
                          /\ g[m].count = h[m].count /\ g[m].children = h[m].children
              /\ g[m].next = IF p # 1 /\ m = s[p - 1] THEN TreeAt(s, p + 1) ELSE h[m].next
              /\ g[m].prev = IF p # q /\ m = s[p + 1] THEN h[s[p]].prev ELSE h[m].prev
  <2>1. /\ g[m].type = h[m].type /\ g[m].parent = h[m].parent
        /\ m # n => /\ g[m].begin = h[m].begin /\ g[m].end = h[m].end
                    /\ g[m].count = h[m].count /\ g[m].children = h[m].children
    BY <1>6 DEF TreeLessened, TreePointed, TreeBacked
  <2>2. g[m].next = IF p # 1 /\ m = s[p - 1] THEN TreeAt(s, p + 1) ELSE h[m].next
    BY <1>1, <1>6, <1>7 DEF TreeLessened, TreePointed, TreeBacked
  <2>3. g[m].prev = IF p # q /\ m = s[p + 1] THEN h[s[p]].prev ELSE h[m].prev
    BY <1>6, <1>8, <1>10 DEF TreeLessened, TreePointed, TreeBacked
  <2>4. QED  BY <2>1, <2>2, <2>3
<1>12. g[n].count = q - 1 /\ g[n].children = q - 1
  BY <1>1, <1>6 DEF TreeLessened, TreePointed, TreeBacked
<1>13. g[n].begin = IF p = 1 THEN TreeAt(s, 2) ELSE h[n].begin
  <2>1. g[n].begin = IF to = Tree!Header THEN after ELSE h[n].begin
    BY <1>6 DEF TreeLessened, TreePointed, TreeBacked
  <2>2. p = 1 => p + 1 = 2
    OBVIOUS
  <2>3. QED  BY <1>1, <1>7, <2>1, <2>2
<1>14. g[n].end = end /\ g \in TreeHeap
  BY <1>6 DEF TreeBacked
<1>15. QED  BY <1>9, <1>11, <1>12, <1>13, <1>14 DEF TreeCut

-----------------------------------------------------------------------------
(* What plist_free_node leaves.                                            *)

\* r is h without B: the rest lives on under the same parents.
TreeLeft(h, r, B) ==
    /\ r \in TreeHeap /\ TreeSound(r)
    /\ \A m \in Tree!Node : /\ m \in B => r[m].type = "freed"
                            /\ m \notin B => r[m].type = h[m].type /\ r[m].parent = h[m].parent
    /\ \A S \in SUBSET Tree!Node : TreeClosed(h, S) => TreeClosed(r, S \ B)

\* What is left is sound when its lists are.
LEMMA TreeLeftIs ==
    ASSUME NEW h \in TreeHeap, TreeSound(h), NEW B \in SUBSET Tree!Node, TreeClosed(h, B),
           NEW r \in TreeHeap,
           \A m \in Tree!Node :
              /\ m \in B => r[m].type = "freed"
              /\ m \notin B => r[m].type = h[m].type /\ r[m].parent = h[m].parent,
           \A m \in Tree!Node : m \notin B /\ Tree!Live(h, m) =>
              \E t \in Seq(Tree!Node) : TreeList(r, m, t)
    PROVE  TreeLeft(h, r, B)
<1>1. \A m \in Tree!Node : Tree!Live(r, m) <=> Tree!Live(h, m) /\ m \notin B
  BY TreeNumbers DEF Tree!Live
<1>2. ASSUME NEW S \in SUBSET Tree!Node, TreeClosed(h, S) PROVE TreeClosed(r, S \ B)
  BY <1>1, <1>2 DEF TreeClosed
<1>3. ASSUME NEW m \in Tree!Node, Tree!Live(r, m)
      PROVE  /\ \E s \in Seq(Tree!Node) : TreeList(r, m, s)
             /\ r[m].parent = Tree!NULL \/ Tree!Live(r, r[m].parent)
             /\ TreeRooted(r, m)
  <2>1. Tree!Live(h, m) /\ m \notin B /\ r[m].parent = h[m].parent
    BY <1>1, <1>3
  <2>2. h[m].parent = Tree!NULL \/ (h[m].parent \in Tree!Node /\ Tree!Live(h, h[m].parent))
    <3>1. h[m].parent = Tree!NULL \/ Tree!Live(h, h[m].parent)
      BY <2>1 DEF TreeSound
    <3>2. h[m].parent \in Tree!Node \cup {Tree!NULL}
      BY DEF TreeHeap, TreeCell
    <3>3. QED  BY <3>1, <3>2
  <2>3. h[m].parent \notin B
    BY <2>1 DEF TreeClosed
  <2>4. PICK S \in SUBSET Tree!Node : TreeClosed(h, S) /\ m \in S /\ h[m].parent \notin S
    BY <2>1 DEF TreeSound, TreeRooted
  <2>5. TreeRooted(r, m)
    <3>1. S \ B \in SUBSET Tree!Node /\ TreeClosed(r, S \ B)
      BY <1>2, <2>4
    <3>2. m \in S \ B /\ r[m].parent \notin S \ B
      BY <2>1, <2>4
    <3>3. QED  BY <3>1, <3>2 DEF TreeRooted
  <2>6. QED  BY <1>1, <2>1, <2>2, <2>3, <2>5
<1>4. ASSUME NEW a \in Tree!Node, NEW b \in Tree!Node, r[a].type = "unused", a <= b
      PROVE  r[b].type = "unused"
  <2>1. h[a].type = "unused"
    BY <1>4, TreeNumbers
  <2>2. h[b].type = "unused"
    BY <1>4, <2>1 DEF TreeSound
  <2>3. b \notin B
    BY <2>2, TreeNumbers DEF TreeClosed, Tree!Live
  <2>4. QED  BY <2>2, <2>3
<1>5. TreeSound(r)
  BY <1>3, <1>4 DEF TreeSound
<1>6. QED  BY <1>2, <1>5 DEF TreeLeft

LEMMA TreeFreedCells ==
    ASSUME NEW g \in TreeHeap, NEW B \in SUBSET Tree!Node,
           NEW r, r = [m \in Tree!Node |->
                          IF m \in B THEN Tree!Empty("freed", "none") ELSE g[m]]
    PROVE  /\ r \in TreeHeap
           /\ \A m \in Tree!Node : /\ m \in B => r[m].type = "freed" /\ ~Tree!Live(r, m)
                                   /\ m \notin B => r[m] = g[m]
<1> DEFINE e == Tree!Empty("freed", "none")
<1>1. e \in TreeCell /\ e.type = "freed"
  BY DEF Tree!Empty, TreeCell
<1>2. r = [m \in Tree!Node |-> IF m \in B THEN e ELSE g[m]]
  OBVIOUS
<1> HIDE DEF e
<1>3. \A m \in Tree!Node : g[m] \in TreeCell
  BY DEF TreeHeap
<1>4. r \in TreeHeap
  BY <1>1, <1>2, <1>3 DEF TreeHeap
<1>5. QED  BY <1>1, <1>2, <1>4, TreeNumbers DEF Tree!Live

\* The lists of the other nodes, and of n, in what is left of h.
LEMMA TreeFreedSound ==
    ASSUME Tree!TreeAssumption, NEW h \in TreeHeap, TreeSound(h),
           NEW x \in Tree!Node, Tree!Live(h, x), NEW r, r = Tree!Freed(h, x)
    PROVE  TreeLeft(h, r, Tree!Below(h, x))
<1> DEFINE B == Tree!Below(h, x)
           g == Tree!Detached(h, x)
           n == h[x].parent
<1>1. /\ B \in SUBSET Tree!Node /\ TreeClosed(h, B) /\ x \in B
      /\ \A y \in B : y = x \/ h[y].parent \in B
      /\ n \notin B
  BY TreeBelowIs
<1>2. r = [m \in Tree!Node |-> IF m \in B THEN Tree!Empty("freed", "none") ELSE g[m]]
  BY DEF Tree!Freed
<1>3. n = Tree!NULL \/ (n \in Tree!Node /\ Tree!Live(h, n))
  <2>1. n = Tree!NULL \/ Tree!Live(h, n)
    BY DEF TreeSound
  <2>2. n \in Tree!Node \cup {Tree!NULL}
    BY DEF TreeHeap, TreeCell
  <2>3. QED  BY <2>1, <2>2
<1>4. CASE n = Tree!NULL
  <2>1. g = h
    BY <1>4 DEF Tree!Detached
  <2>2. /\ r \in TreeHeap
        /\ \A m \in Tree!Node : /\ m \in B => r[m].type = "freed" /\ ~Tree!Live(r, m)
                                /\ m \notin B => r[m] = h[m]
    <3> HIDE DEF B, g
    <3>1. QED  BY <1>1, <1>2, <2>1, TreeFreedCells
  <2>3. \A m \in Tree!Node : m \notin B =>
            \A y \in B : h[y].parent # m
    BY <1>1, <1>4, TreeNumbers
  <2>4. ASSUME NEW m \in Tree!Node, m \notin B, Tree!Live(h, m)
        PROVE  \E t \in Seq(Tree!Node) : TreeList(r, m, t)
    <3>1. PICK t \in Seq(Tree!Node) : TreeList(h, m, t)
      BY <2>4 DEF TreeSound
    <3>2. TreeKids(r, m) = TreeKids(h, m)
      <4> HIDE DEF B, n, g
      <4>1. SUFFICES ASSUME NEW y \in Tree!Node
                     PROVE  y \in TreeKids(r, m) <=> y \in TreeKids(h, m)
        BY DEF TreeKids
      <4>2. CASE y \in B
        BY <2>2, <2>3, <2>4, <4>2 DEF TreeKids
      <4>3. CASE y \notin B
        BY <2>2, <4>3 DEF TreeKids, Tree!Live
      <4>4. QED  BY <4>2, <4>3
    <3>3. ASSUME NEW i \in 1..Len(t) PROVE r[t[i]] = h[t[i]]
      <4>1. t[i] \in Tree!Node /\ h[t[i]].parent = m
        BY <3>1 DEF TreeList, TreeKids
      <4>2. t[i] \notin B
        BY <2>3, <2>4, <4>1
      <4>3. QED  BY <2>2, <4>1, <4>2
    <3>4. r[m] = h[m] /\ \A k \in Tree!Node : h[k].type = "freed" => r[k].type = "freed"
      BY <2>2, <2>4
    <3>5. TreeList(r, m, t)
      BY <3>1, <3>2, <3>3, <3>4, TreeListKept
    <3>6. QED  BY <3>5
  <2>5. \A m \in Tree!Node : /\ m \in B => r[m].type = "freed"
                             /\ m \notin B => r[m].type = h[m].type /\ r[m].parent = h[m].parent
    BY <2>2
  <2> HIDE DEF B, n, g
  <2>6. QED  BY <1>1, <2>2, <2>4, <2>5, TreeLeftIs DEF B
<1>5. CASE n \in Tree!Node /\ Tree!Live(h, n)
  <2>1. PICK s \in Seq(Tree!Node) : TreeList(h, n, s)
    BY <1>5 DEF TreeSound
  <2>2. h[n].parent # n
    BY <1>5 DEF TreeSound, TreeRooted
  <2>3. PICK p \in 1..Len(s) : s[p] = x
    <3>1. x \in TreeKids(h, n)
      BY DEF TreeKids
    <3>2. QED  BY <2>1, <3>1 DEF TreeList
  <2>4. TreeCut(h, g, n, s, p)
    BY <1>5, <2>1, <2>2, <2>3, TreeCutIs
  <2> HIDE DEF g
  <2>5. /\ r \in TreeHeap
        /\ \A m \in Tree!Node : /\ m \in B => r[m].type = "freed" /\ ~Tree!Live(r, m)
                                /\ m \notin B => r[m] = g[m]
    <3>1. g \in TreeHeap
      BY <2>4 DEF TreeCut
    <3> HIDE DEF B
    <3>2. QED  BY <1>1, <1>2, <3>1, TreeFreedCells
  <2> HIDE DEF B, n
  <2>6. /\ \A m \in Tree!Node : m \notin B => \A y \in B : y # x => h[y].parent # m
        /\ h[x].parent = n
    BY <1>1 DEF n
  <2>7. /\ \A i \in 1..Len(s) : s[i] \in Tree!Node /\ h[s[i]].parent = n /\ Tree!Live(h, s[i])
        /\ \A i, j \in 1..Len(s) : s[i] = s[j] => i = j
        /\ Len(s) \in Nat
    <3>1. Len(s) \in Nat
      BY <2>1, TreeListed
    <3>2. QED  BY <2>1, <3>1 DEF TreeList, TreeKids
  <2>8. ASSUME NEW m \in Tree!Node, m \notin B
        PROVE  /\ r[m].type = h[m].type /\ r[m].parent = h[m].parent
               /\ TreeKids(r, m) = TreeKids(h, m) \ {x}
    <3>1. r[m] = g[m]
      BY <2>5, <2>8
    <3>2. r[m].type = h[m].type /\ r[m].parent = h[m].parent
      BY <2>4, <3>1 DEF TreeCut
    <3>3. ASSUME NEW y \in Tree!Node
          PROVE  y \in TreeKids(r, m) <=> y \in TreeKids(h, m) \ {x}
      <4>1. CASE y \in B
        BY <1>1, <2>5, <2>6, <2>8, <4>1 DEF TreeKids
      <4>2. CASE y \notin B
        <5>1. r[y] = g[y] /\ y # x
          BY <1>1, <2>5, <4>2
        <5>2. g[y].type = h[y].type /\ g[y].parent = h[y].parent
          BY <2>4 DEF TreeCut
        <5>3. QED  BY <5>1, <5>2 DEF TreeKids, Tree!Live
      <4>3. QED  BY <4>1, <4>2
    <3>4. TreeKids(r, m) = TreeKids(h, m) \ {x}
      BY <3>3 DEF TreeKids
    <3>5. QED  BY <3>2, <3>4
  <2>9. TreeList(r, n, TreeDrop(s, p))
    <3>1. r[n] = g[n] /\ n \in Tree!Node
      BY <1>1, <1>5, <2>5
    <3>2. /\ r[n].count = Len(s) - 1 /\ r[n].children = Len(s) - 1
          /\ r[n].begin = IF p = 1 THEN TreeAt(s, 2) ELSE h[n].begin
          /\ IF p # Len(s) THEN r[n].end = h[n].end
             ELSE IF p # 1 THEN r[n].end = s[p - 1]
             ELSE r[n].end \in {Tree!Header, s[p]}
      BY <2>4, <3>1 DEF TreeCut
    <3>3. ASSUME NEW j \in 1..Len(s), j # p
          PROVE  /\ r[s[j]].next = IF j = p - 1 THEN TreeAt(s, p + 1) ELSE h[s[j]].next
                 /\ r[s[j]].prev = IF j = p + 1 THEN h[s[p]].prev ELSE h[s[j]].prev
      <4>1. s[j] \in Tree!Node /\ s[j] # x
        BY <2>3, <2>7, <3>3
      <4>2. s[j] \notin B
        BY <1>1, <2>6, <2>7, <4>1
      <4>3. r[s[j]] = g[s[j]]
        BY <2>5, <4>1, <4>2
      <4>4. /\ p # 1 => p - 1 \in 1..Len(s)
            /\ p # Len(s) => p + 1 \in 1..Len(s)
            /\ j = p - 1 => p # 1
            /\ j = p + 1 => p # Len(s)
        BY <2>7
      <4>5. /\ p # 1 /\ s[j] = s[p - 1] <=> j = p - 1
            /\ p # Len(s) /\ s[j] = s[p + 1] <=> j = p + 1
        BY <2>7, <4>4
      <4>6. /\ g[s[j]].next = IF p # 1 /\ s[j] = s[p - 1] THEN TreeAt(s, p + 1) ELSE h[s[j]].next
            /\ g[s[j]].prev = IF p # Len(s) /\ s[j] = s[p + 1] THEN h[s[p]].prev
                              ELSE h[s[j]].prev
        BY <2>4, <4>1 DEF TreeCut
      <4>7. QED  BY ONLY <4>3, <4>5, <4>6
    <3>4. r[s[p]].type = "freed"
      BY <1>1, <2>3, <2>5
    <3>5. TreeKids(r, n) = TreeKids(h, n) \ {s[p]}
      BY <1>1, <2>3, <2>8, <3>1
    <3>6. TreeWithout(h, r, n, s, p)
      BY <3>2, <3>3, <3>4, <3>5 DEF TreeWithout
    <3>7. QED  BY <2>1, <3>1, <3>6, TreeListWithout
  <2>10. ASSUME NEW m \in Tree!Node, m \notin B, Tree!Live(h, m)
         PROVE  \E t \in Seq(Tree!Node) : TreeList(r, m, t)
    <3>1. CASE m = n
      <4>1. TreeDrop(s, p) \in Seq(Tree!Node)
        BY <2>9, TreeListed
      <4>2. QED  BY <2>9, <3>1, <4>1
    <3>2. CASE m # n
      <4>1. PICK t \in Seq(Tree!Node) : TreeList(h, m, t)
        BY <2>10 DEF TreeSound
      <4>2. TreeKids(r, m) = TreeKids(h, m)
        BY <2>6, <2>8, <2>10, <3>2 DEF TreeKids
      <4>3. ASSUME NEW i \in 1..Len(t)
            PROVE  r[t[i]].next = h[t[i]].next /\ r[t[i]].prev = h[t[i]].prev
        <5>1. t[i] \in Tree!Node /\ h[t[i]].parent = m
          BY <4>1 DEF TreeList, TreeKids
        <5>2. t[i] \notin B
          BY <2>6, <2>10, <3>2, <5>1
        <5>3. r[t[i]] = g[t[i]]
          BY <2>5, <5>1, <5>2
        <5>4. /\ p # 1 => p - 1 \in 1..Len(s)
              /\ p # Len(s) => p + 1 \in 1..Len(s)
          BY <2>7
        <5>5. ~(p # 1 /\ t[i] = s[p - 1]) /\ ~(p # Len(s) /\ t[i] = s[p + 1])
          BY <2>7, <3>2, <5>1, <5>4
        <5>6. g[t[i]].next = h[t[i]].next /\ g[t[i]].prev = h[t[i]].prev
          BY <2>4, <5>1, <5>5 DEF TreeCut
        <5>7. QED  BY <5>3, <5>6
      <4>4. /\ r[m].begin = h[m].begin /\ r[m].end = h[m].end /\ r[m].count = h[m].count
            /\ r[m].children = h[m].children
        <5>1. r[m] = g[m]
          BY <2>5, <2>10
        <5>2. QED  BY <2>4, <3>2, <5>1 DEF TreeCut
      <4>5. \A k \in Tree!Node : h[k].type = "freed" => r[k].type = "freed"
        BY <2>5, <2>8
      <4>6. TreeList(r, m, t)
        BY <4>1, <4>2, <4>3, <4>4, <4>5, TreeListKept
      <4>7. QED  BY <4>6
    <3>3. QED  BY <3>1, <3>2
  <2>11. \A m \in Tree!Node : /\ m \in B => r[m].type = "freed"
                              /\ m \notin B => r[m].type = h[m].type /\ r[m].parent = h[m].parent
    BY <2>5, <2>8
  <2>12. QED  BY <1>1, <2>5, <2>10, <2>11, TreeLeftIs DEF B
<1>6. QED  BY <1>3, <1>4, <1>5

-----------------------------------------------------------------------------
(* The operations of a caller.                                             *)

LEMMA TreeFresh ==
    ASSUME Tree!TreeAssumption, Tree!Unused # {}
    PROVE  /\ Tree!Fresh \in Tree!Node /\ heap[Tree!Fresh].type = "unused"
           /\ \A m \in Tree!Node : heap[m].type = "unused" => Tree!Fresh <= m
<1>1. Tree!Unused \in SUBSET Nat
  BY TreeNumbers DEF Tree!Unused
<1>2. \E n \in Tree!Unused : \A m \in Tree!Unused : n <= m
  BY <1>1, LeastNumber
<1>3. Tree!Fresh \in Tree!Unused /\ \A m \in Tree!Unused : Tree!Fresh <= m
  BY <1>2 DEF Tree!Fresh
<1>4. QED  BY <1>3 DEF Tree!Unused

LEMMA TreeNewStep ==
    ASSUME Tree!TreeAssumption, TreeInv, NEW type \in Tree!Type, Tree!New(type)
    PROVE  TreeInv'
<1> DEFINE f == Tree!Fresh
           g == [heap EXCEPT ![f] = Tree!Empty(type, "none")]
<1>1. /\ heap \in TreeHeap /\ TreeSound(heap) /\ undefined' = FALSE /\ heap' = g
      /\ "none" \in Key \cup {"none"}
  BY DEF TreeInv, Tree!New
<1>2. /\ f \in Tree!Node /\ heap[f].type = "unused"
      /\ \A m \in Tree!Node : heap[m].type = "unused" => f <= m
  BY TreeFresh DEF Tree!New
<1>3. g \in TreeHeap /\ TreeSound(g)
  <2>1. TreeUsed(heap, g, f, type, "none")
    BY DEF TreeUsed
  <2> HIDE DEF f, g
  <2>2. TreeNewIs(heap, g, f)
    BY <1>1, <1>2, <2>1, TreeNewSound
  <2>3. QED  BY <2>2 DEF TreeNewIs
<1> HIDE DEF g
<1>4. QED  BY <1>1, <1>3 DEF TreeInv

\* Of node_attach and node_insert only an addition at the end can write to freed memory.
LEMMA TreePutStep ==
    ASSUME Tree!TreeAssumption, NEW h \in TreeHeap, TreeSound(h),
           NEW n \in Tree!Node, Tree!Live(h, n),
           NEW x \in Tree!Node, Tree!Live(h, x), h[x].parent = Tree!NULL,
           NEW B \in SUBSET Tree!Node, TreeClosed(h, B), x \in B, n \notin B,
           NEW i \in Nat, heap' = Tree!Attached(h, n, i, x),
           undefined' = Tree!Dangles(h, n, i)
    PROVE  TreeInv'
<1> DEFINE g == Tree!Attached(h, n, i, x)
<1>1. undefined' \in BOOLEAN
  BY DEF Tree!Dangles
<1>2. CASE Tree!Dangles(h, n, i)
  <2>1. /\ i >= h[n].count /\ h[n].count \in Nat /\ h[n].begin = Tree!NULL
        /\ h[n].end # Tree!Header /\ x # n
    BY <1>2, TreeDangling
  <2>2. TreeAddition(h, g, n, x)
    BY <2>1, TreeAppendTyped
  <2> HIDE DEF g
  <2>3. heap' = g /\ undefined' = TRUE
    BY <1>2 DEF g
  <2>4. TreeLost(g, n)
    BY <2>1, <2>2 DEF TreeAddition, TreeLost, Tree!Live
  <2>5. g \in TreeHeap
    BY <2>2 DEF TreeAddition
  <2>6. \E m \in Tree!Node : TreeLost(heap', m)
    BY <2>3, <2>4
  <2> HIDE DEF TreeLost
  <2>7. TreeInv'
    BY <2>3, <2>5, <2>6 DEF TreeInv
  <2>8. QED  BY <2>7
<1>3. CASE ~Tree!Dangles(h, n, i)
  <2>1. g \in TreeHeap /\ TreeSound(g)
    BY <1>3, TreePutSound
  <2> HIDE DEF g
  <2>2. heap' = g /\ undefined' = FALSE
    BY <1>1, <1>3 DEF g
  <2>3. QED  BY <2>1, <2>2 DEF TreeInv
<1>4. QED  BY <1>2, <1>3

LEMMA TreeLoose ==
    ASSUME Tree!TreeAssumption, NEW h \in TreeHeap, TreeSound(h),
           NEW x \in Tree!Node, Tree!Live(h, x), NEW n \in Tree!Node, n \notin Tree!Below(h, x)
    PROVE  \E B \in SUBSET Tree!Node : TreeClosed(h, B) /\ x \in B /\ n \notin B
BY TreeBelowIs

LEMMA TreeAddStep ==
    ASSUME Tree!TreeAssumption, TreeInv, ~undefined, NEW n \in Tree!Node, Tree!Live(heap, n),
           NEW x \in Tree!Node, Tree!Loose(x, n), NEW i \in Nat, Tree!Put(heap, n, i, x)
    PROVE  TreeInv'
<1>1. heap \in TreeHeap /\ TreeSound(heap)
  BY DEF TreeInv
<1>2. Tree!Live(heap, x) /\ heap[x].parent = Tree!NULL /\ n \notin Tree!Below(heap, x)
  BY DEF Tree!Loose
<1>3. PICK B \in SUBSET Tree!Node : TreeClosed(heap, B) /\ x \in B /\ n \notin B
  BY <1>1, <1>2, TreeLoose
<1>4. heap' = Tree!Attached(heap, n, i, x) /\ undefined' = Tree!Dangles(heap, n, i)
  BY DEF Tree!Put
<1>5. QED  BY <1>1, <1>2, <1>3, <1>4, TreePutStep

\* A child of n is freed and another put in its list.
LEMMA TreeSetStep ==
    ASSUME Tree!TreeAssumption, TreeInv, ~undefined, NEW n \in Tree!Node, Tree!Live(heap, n),
           NEW x \in Tree!Node, Tree!Loose(x, n),
           NEW y \in Tree!Node, Tree!Live(heap, y), heap[y].parent = n,
           Tree!Put(Tree!Freed(heap, y), n, Tree!FreedIndex, x)
    PROVE  TreeInv'
<1> DEFINE h == Tree!Freed(heap, y)
           G == Tree!Below(heap, y)
<1>1. heap \in TreeHeap /\ TreeSound(heap)
  BY DEF TreeInv
<1>2. /\ G \in SUBSET Tree!Node /\ y \in G /\ n \notin G
      /\ \A z \in G : z = y \/ heap[z].parent \in G
  BY <1>1, TreeBelowIs
<1>3. TreeLeft(heap, h, G)
  BY <1>1, TreeFreedSound
<1>4. Tree!Live(heap, x) /\ heap[x].parent = Tree!NULL /\ n \notin Tree!Below(heap, x)
  BY DEF Tree!Loose
<1>5. PICK B \in SUBSET Tree!Node : TreeClosed(heap, B) /\ x \in B /\ n \notin B
  BY <1>1, <1>4, TreeLoose
<1>6. /\ heap' = Tree!Attached(h, n, Tree!FreedIndex, x)
      /\ undefined' = Tree!Dangles(h, n, Tree!FreedIndex)
  BY DEF Tree!Put
<1> HIDE DEF h, G
<1>7. x \notin G
  BY <1>2, <1>4, TreeNumbers
<1>8. h \in TreeHeap /\ TreeSound(h) /\ TreeClosed(h, B \ G)
  BY <1>3, <1>5 DEF TreeLeft
<1>9. Tree!Live(h, x) /\ h[x].parent = Tree!NULL /\ Tree!Live(h, n)
  BY <1>2, <1>3, <1>4, <1>7 DEF TreeLeft, Tree!Live
<1>10. B \ G \in SUBSET Tree!Node /\ x \in B \ G /\ n \notin B \ G /\ Tree!FreedIndex \in Nat
  BY <1>5, <1>7 DEF Tree!FreedIndex
<1> DEFINE C == B \ G
<1>11. C \in SUBSET Tree!Node /\ x \in C /\ n \notin C /\ TreeClosed(h, C)
  BY <1>8, <1>10
<1> HIDE DEF C
<1>12. QED  BY <1>6, <1>8, <1>9, <1>10, <1>11, TreePutStep

LEMMA TreeNthIs ==
    ASSUME Tree!TreeAssumption, NEW h \in TreeHeap, TreeSound(h),
           NEW n \in Tree!Node, Tree!Live(h, n), NEW i \in Nat, i < h[n].children
    PROVE  LET y == Tree!Nth(h, n, i)
           IN  y \in Tree!Node /\ Tree!Live(h, y) /\ h[y].parent = n
<1>1. PICK s \in Seq(Tree!Node) : TreeList(h, n, s)
  BY DEF TreeSound
<1>2. Len(s) = h[n].children /\ Len(s) \in Nat
  BY <1>1, TreeListed DEF TreeList
<1>3. Tree!Items(h, n) = s
  BY <1>1, TreeItemsList
<1>4. Tree!Nth(h, n, i) = s[i + 1] /\ i + 1 \in 1..Len(s)
  BY <1>2, <1>3 DEF Tree!Nth
<1>5. s[i + 1] \in TreeKids(h, n)
  BY <1>1, <1>4 DEF TreeList
<1>6. QED  BY <1>4, <1>5 DEF TreeKids

\* The item of a key is a child, and so is the one before it.
LEMMA TreeItemIs ==
    ASSUME Tree!TreeAssumption, NEW h \in TreeHeap, TreeSound(h),
           NEW n \in Tree!Node, Tree!Live(h, n), NEW key,
           NEW y, y = Tree!DictItem(h, n, key), y # Tree!NULL
    PROVE  /\ y \in Tree!Node /\ Tree!Live(h, y) /\ h[y].parent = n
           /\ h[y].prev \in Tree!Node /\ Tree!Live(h, h[y].prev)
           /\ h[h[y].prev].parent = n /\ h[y].prev # y
<1>1. PICK s \in Seq(Tree!Node) : TreeList(h, n, s)
  BY DEF TreeSound
<1>2. Len(s) \in Nat /\ DOMAIN s = 1..Len(s)
  BY <1>1, TreeListed
<1>3. Tree!Items(h, n) = s
  BY <1>1, TreeItemsList
<1> DEFINE found == {i \in DOMAIN s : /\ i % 2 = 1
                                      /\ h[s[i]].type = "KEY" /\ h[s[i]].key = key}
           j == Tree!Min(found)
<1>4. y = IF found = {} THEN Tree!NULL ELSE h[s[j]].next
  BY <1>3 DEF Tree!DictItem
<1>5. found # {} /\ y = h[s[j]].next
  BY <1>4
<1>6. found \in SUBSET (1..Len(s)) /\ found \in SUBSET Nat
  BY <1>2
<1> HIDE DEF found
<1>7. \E i \in found : \A k \in found : i <= k
  BY <1>5, <1>6, LeastNumber
<1>8. j \in found
  BY <1>7 DEF Tree!Min
<1> HIDE DEF j
<1>9. j \in 1..Len(s) /\ y = TreeAt(s, j + 1)
  BY <1>1, <1>5, <1>6, <1>8 DEF TreeList, TreeLinks
<1>10. j + 1 \in 1..Len(s) /\ y = s[j + 1]
  BY <1>9 DEF TreeAt
<1>11. j + 1 \in 2..Len(s) /\ (j + 1) - 1 = j /\ j # j + 1
  BY <1>2, <1>9, <1>10
<1>12. h[y].prev = s[j] /\ s[j] # y
  BY <1>1, <1>9, <1>10, <1>11 DEF TreeList
<1>13. s[j] \in TreeKids(h, n) /\ s[j + 1] \in TreeKids(h, n)
  BY <1>1, <1>9, <1>10 DEF TreeList
<1>14. QED  BY <1>10, <1>12, <1>13 DEF TreeKids

LEMMA TreeFreeStep ==
    ASSUME Tree!TreeAssumption, TreeInv, ~undefined,
           NEW y \in Tree!Node, Tree!Live(heap, y), heap' = Tree!Freed(heap, y),
           UNCHANGED undefined
    PROVE  TreeInv'
<1>1. heap \in TreeHeap /\ TreeSound(heap) /\ undefined' = FALSE
  BY DEF TreeInv
<1>2. TreeLeft(heap, heap', Tree!Below(heap, y))
  BY <1>1, TreeFreedSound
<1>3. QED  BY <1>1, <1>2 DEF TreeLeft, TreeInv

\* The key of an item goes first, then the item.
LEMMA TreeDropStep ==
    ASSUME Tree!TreeAssumption, TreeInv, NEW n \in Tree!Node, NEW key, Tree!DictRemove(n, key)
    PROVE  TreeInv'
<1> DEFINE y == Tree!DictItem(heap, n, key)
           z == heap[y].prev
           h == Tree!Freed(heap, z)
           G == Tree!Below(heap, z)
<1>1. /\ heap \in TreeHeap /\ TreeSound(heap) /\ undefined' = FALSE
      /\ y # Tree!NULL /\ heap' = Tree!Freed(h, y) /\ ~undefined
  BY DEF TreeInv, Tree!DictRemove, Tree!Is
<1>2. Tree!Live(heap, n)
  BY DEF Tree!DictRemove, Tree!Is, Tree!Live, Tree!Type
<1>3. /\ y \in Tree!Node /\ Tree!Live(heap, y) /\ heap[y].parent = n
      /\ z \in Tree!Node /\ Tree!Live(heap, z) /\ heap[z].parent = n /\ z # y
  <2>1. y = Tree!DictItem(heap, n, key) /\ y # Tree!NULL
    BY <1>1
  <2> HIDE DEF y
  <2>2. QED  BY <1>1, <1>2, <2>1, TreeItemIs
<1> HIDE DEF y, z
<1>4. TreeLeft(heap, h, G)
  BY <1>1, <1>3, TreeFreedSound
<1>5. n \notin G /\ \A k \in G : k = z \/ heap[k].parent \in G
  BY <1>1, <1>3, TreeBelowIs
<1> HIDE DEF h, G
<1>6. y \notin G
  BY <1>3, <1>5
<1>7. h \in TreeHeap /\ TreeSound(h) /\ Tree!Live(h, y)
  BY <1>3, <1>4, <1>6 DEF TreeLeft, Tree!Live
<1>8. TreeLeft(h, heap', Tree!Below(h, y))
  BY <1>1, <1>3, <1>7, TreeFreedSound
<1>9. QED  BY <1>1, <1>8 DEF TreeLeft, TreeInv

\* A key and its item are appended; the item comes behind what is certainly there.
LEMMA TreeInsertStep ==
    ASSUME Tree!TreeAssumption, TreeInv, NEW n \in Tree!Node, NEW key \in Key,
           NEW x \in Tree!Node, Tree!DictInsert(n, key, x)
    PROVE  TreeInv'
<1> DEFINE f == Tree!Fresh
           h == [heap EXCEPT ![f] = Tree!Empty("KEY", key)]
           i == Tree!AtEnd(h, n)
           g == Tree!Attached(h, n, i, f)
           j == Tree!AtEnd(g, n)
           r == Tree!Attached(g, n, j, x)
<1>1. /\ heap \in TreeHeap /\ TreeSound(heap) /\ Tree!Unused # {}
      /\ heap' = r /\ undefined' = Tree!Dangles(h, n, i)
      /\ Tree!Loose(x, n)
  BY DEF TreeInv, Tree!DictInsert, Tree!Is
<1>2. Tree!Live(heap, n) /\ "KEY" \in Tree!Type /\ key \in Key \cup {"none"}
  BY DEF Tree!DictInsert, Tree!Is, Tree!Live, Tree!Type
<1>3. Tree!Live(heap, x) /\ heap[x].parent = Tree!NULL /\ n \notin Tree!Below(heap, x)
  BY <1>1 DEF Tree!Loose
<1>4. PICK B \in SUBSET Tree!Node : TreeClosed(heap, B) /\ x \in B /\ n \notin B
  BY <1>1, <1>3, TreeLoose
<1>5. /\ f \in Tree!Node /\ heap[f].type = "unused"
      /\ \A m \in Tree!Node : heap[m].type = "unused" => f <= m
  BY <1>1, TreeFresh
<1> HIDE DEF f
<1>6. /\ h \in TreeHeap /\ TreeSound(h) /\ Tree!Live(h, f)
      /\ h[f].parent = Tree!NULL /\ TreeClosed(h, {f})
      /\ \A m \in Tree!Node : m # f => h[m] = heap[m]
      /\ \A S \in SUBSET Tree!Node : TreeClosed(heap, S) => TreeClosed(h, S) /\ f \notin S
  <2>1. TreeUsed(heap, h, f, "KEY", key)
    BY DEF TreeUsed
  <2> HIDE DEF h, i, g, j, r
  <2>2. TreeNewIs(heap, h, f)
    BY <1>1, <1>2, <1>5, <2>1, TreeNewSound
  <2>3. QED  BY <2>2 DEF TreeNewIs
<1> HIDE DEF h
<1>7. n # f /\ x # f
  BY <1>2, <1>3, <1>5, TreeNumbers DEF Tree!Live
<1>8. /\ Tree!Live(h, n) /\ Tree!Live(h, x) /\ h[x].parent = Tree!NULL /\ TreeClosed(h, B)
      /\ f \notin B
  BY <1>2, <1>3, <1>4, <1>6, <1>7 DEF Tree!Live
<1>9. i = h[n].count /\ i \in Nat /\ i >= h[n].count
  BY <1>6 DEF Tree!AtEnd, TreeHeap, TreeCell
<1> HIDE DEF i
<1>10. undefined' \in BOOLEAN
  BY <1>1 DEF Tree!Dangles
<1>11. CASE Tree!Dangles(h, n, i)
  <2>0. h[n].count \in Nat /\ h[n].begin = Tree!NULL /\ h[n].end # Tree!Header
    BY <1>6, <1>8, <1>9, <1>11, TreeDangling
  <2>1. TreeAddition(h, g, n, f)
    BY <1>5, <1>6, <1>7, <1>9, TreeAppendTyped
  <2> HIDE DEF g
  <2>2. g \in TreeHeap /\ j = g[n].count /\ j \in Nat /\ j >= g[n].count
    BY <2>1 DEF Tree!AtEnd, TreeAddition, TreeHeap, TreeCell
  <2> HIDE DEF j
  <2>3. TreeAddition(g, r, n, x)
    BY <1>4, <2>2, TreeAppendTyped
  <2> HIDE DEF r
  <2>4. undefined' = TRUE
    BY <1>1, <1>11
  <2>5. g[n].end # Tree!Header
    BY <1>5, <2>1 DEF TreeAddition, Tree!Node, Tree!Header
  <2>6. TreeLost(r, n) /\ r \in TreeHeap
    BY <1>8, <2>0, <2>1, <2>3, <2>5 DEF TreeAddition, TreeLost, Tree!Live
  <2>7. \E m \in Tree!Node : TreeLost(heap', m)
    BY <1>1, <2>6
  <2> HIDE DEF TreeLost
  <2>8. TreeInv'
    BY <1>1, <2>4, <2>6, <2>7 DEF TreeInv
  <2>9. QED  BY <2>8
<1>12. CASE ~Tree!Dangles(h, n, i)
  <2> DEFINE F == {f}
  <2>1. F \in SUBSET Tree!Node /\ f \in F /\ n \notin F /\ TreeClosed(h, F)
    BY <1>5, <1>6, <1>7
  <2> HIDE DEF F
  <2>2. /\ g \in TreeHeap /\ TreeSound(g)
        /\ \A m \in Tree!Node : /\ g[m].type = h[m].type
                                /\ m # f => g[m].parent = h[m].parent
        /\ \A S \in SUBSET Tree!Node :
              TreeClosed(h, S) /\ (n \in S => f \in S) => TreeClosed(g, S)
        /\ i >= h[n].count => g[n].end = f /\ g[n].count = h[n].count + 1
    BY <1>5, <1>6, <1>8, <1>9, <1>12, <2>1, TreePutSound
  <2> HIDE DEF g
  <2>3. /\ Tree!Live(g, n) /\ Tree!Live(g, x) /\ g[x].parent = Tree!NULL /\ TreeClosed(g, B)
        /\ g[n].end = f /\ Tree!Live(g, f)
    BY <1>4, <1>5, <1>6, <1>7, <1>8, <1>9, <2>2 DEF Tree!Live
  <2>4. ~Tree!Dangles(g, n, j)
    BY <2>3 DEF Tree!Dangles
  <2>5. j \in Nat
    BY <2>2 DEF Tree!AtEnd, TreeHeap, TreeCell
  <2> HIDE DEF j
  <2>6. r \in TreeHeap /\ TreeSound(r)
    BY <1>4, <2>2, <2>3, <2>4, <2>5, TreePutSound
  <2> HIDE DEF r
  <2>7. undefined' = FALSE
    BY <1>1, <1>10, <1>12
  <2>8. QED  BY <1>1, <2>6, <2>7 DEF TreeInv
<1>13. QED  BY <1>11, <1>12

-----------------------------------------------------------------------------
(* plist_copy: a copy of the tree, in the memory that follows.             *)

\* How many of B come before m.
TreeRank(B, m) == Tree!Cardinality({k \in B : k < m})

\* The node that is the copy of m, or m when it is not copied.
TreeImage(B, f, m) == IF m \in B THEN f + TreeRank(B, m) ELSE m

LEMMA TreeRanks ==
    ASSUME Tree!TreeAssumption, NEW B \in SUBSET Tree!Node
    PROVE  /\ Cardinality(B) \in Nat
           /\ \A m \in B : TreeRank(B, m) \in Nat /\ TreeRank(B, m) < Cardinality(B)
           /\ \A m, k \in B : TreeRank(B, m) = TreeRank(B, k) => m = k
<1>1. IsFiniteSet(B) /\ Cardinality(B) \in Nat /\ B \subseteq Nat
  BY TreeFinite, TreeNumbers
<1>2. ASSUME NEW m \in B
      PROVE  /\ IsFiniteSet({k \in B : k < m}) /\ Cardinality({k \in B : k < m}) \in Nat
             /\ TreeRank(B, m) = Cardinality({k \in B : k < m})
  <2> DEFINE S == {k \in B : k < m}
  <2>1. S \subseteq B
    OBVIOUS
  <2>2. TreeRank(B, m) = Cardinality(S)
    BY TreeCardinality DEF TreeRank
  <2> HIDE DEF S
  <2>3. IsFiniteSet(S) /\ Cardinality(S) \in Nat
    BY <1>1, <2>1, FS_Subset, FS_CardinalityType
  <2>4. QED  BY <2>2, <2>3 DEF S
<1>3. ASSUME NEW m \in B, NEW T \in SUBSET B, {k \in B : k < m} \cup {m} \subseteq T
      PROVE  TreeRank(B, m) < Cardinality(T) /\ Cardinality(T) \in Nat
  <2> DEFINE S == {k \in B : k < m}
  <2>1. m \notin S
    BY <1>1
  <2>2. IsFiniteSet(S) /\ Cardinality(S) \in Nat /\ TreeRank(B, m) = Cardinality(S)
    BY <1>2
  <2>3. S \cup {m} \subseteq T
    BY <1>3
  <2> HIDE DEF S
  <2>4. IsFiniteSet(S \cup {m}) /\ Cardinality(S \cup {m}) = Cardinality(S) + 1
    BY <2>1, <2>2, FS_AddElement
  <2>5. IsFiniteSet(T)
    BY <1>1, FS_Subset
  <2>6. Cardinality(T) \in Nat /\ Cardinality(S \cup {m}) <= Cardinality(T)
    BY <2>3, <2>5, FS_Subset, FS_CardinalityType
  <2>7. QED  BY <2>2, <2>4, <2>6
<1>4. ASSUME NEW m \in B PROVE TreeRank(B, m) \in Nat /\ TreeRank(B, m) < Cardinality(B)
  <2>1. {k \in B : k < m} \cup {m} \subseteq B /\ B \in SUBSET B
    OBVIOUS
  <2>2. QED  BY <1>2, <1>3, <2>1
<1>5. ASSUME NEW m \in B, NEW k \in B, m < k PROVE TreeRank(B, m) < TreeRank(B, k)
  <2> DEFINE T == {j \in B : j < k}
  <2>1. T \in SUBSET B
    OBVIOUS
  <2>2. {j \in B : j < m} \cup {m} \subseteq T
    <3>1. m \in Nat /\ k \in Nat /\ \A j \in B : j \in Nat
      BY <1>1
    <3>2. m < k /\ \A j \in B : j < m => j < k
      BY <1>5, <3>1
    <3>3. QED  BY <3>2
  <2>3. TreeRank(B, k) = Cardinality(T)
    BY <1>2
  <2> HIDE DEF T
  <2>4. QED  BY <1>3, <2>1, <2>2, <2>3
<1>6. ASSUME NEW m \in B, NEW k \in B, TreeRank(B, m) = TreeRank(B, k) PROVE m = k
  <2>1. m \in Nat /\ k \in Nat /\ TreeRank(B, m) \in Nat /\ TreeRank(B, k) \in Nat
    BY <1>1, <1>2
  <2>2. ~(m < k) /\ ~(k < m)
    BY <1>5, <1>6, <2>1
  <2>3. QED  BY <2>1, <2>2
<1>7. QED  BY <1>1, <1>4, <1>6

\* The copies are the next nodes, one for each.
TreeImages(B, f) ==
    /\ \A m \in B : TreeImage(B, f, m) \in Tree!Node /\ f <= TreeImage(B, f, m)
    /\ \A m, k \in B : TreeImage(B, f, m) = TreeImage(B, f, k) => m = k
    /\ \A m \in B, a \in Tree!Node :
          f <= a /\ a <= TreeImage(B, f, m) => \E k \in B : TreeImage(B, f, k) = a

LEMMA TreeImaged ==
    ASSUME Tree!TreeAssumption, NEW B \in SUBSET Tree!Node, NEW f \in Tree!Node,
           f + Cardinality(B) <= MaxNodes + 1
    PROVE  TreeImages(B, f)
<1> DEFINE c == Cardinality(B)
           I == {f + TreeRank(B, m) : m \in B}
           J == f..(f + c - 1)
<1>1. /\ c \in Nat /\ \A m \in B : TreeRank(B, m) \in Nat /\ TreeRank(B, m) < c
      /\ \A m, k \in B : TreeRank(B, m) = TreeRank(B, k) => m = k
  BY TreeRanks
<1>2. /\ f \in Nat /\ MaxNodes \in Nat /\ 1 <= f
      /\ \A m \in B : TreeImage(B, f, m) = f + TreeRank(B, m)
  BY DEF Tree!Node, Tree!TreeAssumption, TreeImage
<1>3. f + c <= MaxNodes + 1
  OBVIOUS
<1>4. IsFiniteSet(J) /\ Cardinality(J) = c
  <2> HIDE DEF c
  <2>1. f \in Int /\ f + c - 1 \in Int /\ (IF f > f + c - 1 THEN 0 ELSE (f + c - 1) - f + 1) = c
    BY <1>1, <1>2
  <2>2. QED  BY <2>1, FS_Interval
<1>5. I \subseteq J
  <2> HIDE DEF c
  <2>1. \A m \in B : f + TreeRank(B, m) \in J
    BY <1>1, <1>2
  <2>2. QED  BY <2>1
<1>6. Cardinality(I) = c
  <2> DEFINE g == [m \in B |-> f + TreeRank(B, m)]
  <2>1. g \in [B -> I]
    OBVIOUS
  <2>2. ASSUME NEW m \in B, NEW k \in B, g[m] = g[k] PROVE m = k
    <3>1. f + TreeRank(B, m) = f + TreeRank(B, k)
      BY <2>2
    <3> HIDE DEF c, g, I, J
    <3>2. TreeRank(B, m) = TreeRank(B, k)
      BY <1>1, <1>2, <3>1
    <3>3. QED  BY <1>1, <3>2
  <2>3. \A y \in I : \E m \in B : g[m] = y
    OBVIOUS
  <2>4. IsFiniteSet(B)
    BY TreeFinite
  <2> HIDE DEF g, I
  <2>5. g \in Bijection(B, I)
    BY <2>1, <2>2, <2>3 DEF Bijection, Injection, Surjection, IsInjective
  <2>6. ExistsBijection(B, I)
    BY <2>5 DEF ExistsBijection
  <2>7. QED  BY <2>4, <2>6, FS_Bijection
<1>7. I = J
  <2> HIDE DEF I, J, c
  <2>1. QED  BY <1>4, <1>5, <1>6, FS_Subset
<1> HIDE DEF c
<1>8. ASSUME NEW m \in B PROVE TreeImage(B, f, m) \in Tree!Node /\ f <= TreeImage(B, f, m)
  <2>1. TreeRank(B, m) \in Nat /\ TreeRank(B, m) < c
    BY <1>1
  <2>2. f + TreeRank(B, m) \in 1..MaxNodes /\ f <= f + TreeRank(B, m)
    BY <1>1, <1>2, <1>3, <2>1
  <2>3. QED  BY <1>2, <2>2 DEF Tree!Node
<1>9. ASSUME NEW m \in B, NEW k \in B, TreeImage(B, f, m) = TreeImage(B, f, k) PROVE m = k
  <2>1. TreeRank(B, m) = TreeRank(B, k)
    <3>1. f + TreeRank(B, m) = f + TreeRank(B, k)
      BY <1>2, <1>9
    <3>2. QED  BY <1>1, <1>2, <3>1
  <2>2. QED  BY <1>1, <2>1
<1>10. ASSUME NEW m \in B, NEW a \in Tree!Node, f <= a, a <= TreeImage(B, f, m)
       PROVE  \E k \in B : TreeImage(B, f, k) = a
  <2>1. a \in Nat /\ a <= f + TreeRank(B, m) /\ TreeRank(B, m) \in Nat /\ TreeRank(B, m) < c
    BY <1>1, <1>2, <1>10, TreeNumbers
  <2>2. a \in J
    BY <1>1, <1>2, <1>10, <2>1
  <2> HIDE DEF J
  <2>3. PICK k \in B : a = f + TreeRank(B, k)
    BY <1>7, <2>2
  <2>4. QED  BY <1>2, <2>3
<1>11. QED  BY <1>8, <1>9, <1>10 DEF TreeImages

\* The memory of the copy of m, which is below n.
TreeCopyCell(h, B, f, n, m) ==
    LET items == Tree!Items(h, m)
        made == [Tree!Empty(h[m].type, h[m].key) EXCEPT
                    !.begin = TreeImage(B, f, h[m].begin),
                    !.end = IF items = << >> THEN Tree!Header
                            ELSE TreeImage(B, f, Tree!Last(items)),
                    !.count = Len(items), !.children = Len(items)]
    IN  IF m = n THEN made
        ELSE [made EXCEPT !.next = TreeImage(B, f, h[m].next),
                          !.prev = IF h[m].prev \in B THEN TreeImage(B, f, h[m].prev)
                                   ELSE Tree!Header,
                          !.parent = TreeImage(B, f, h[m].parent)]

\* What is in a cell of the copy.
TreeIsCopy(h, B, f, n, m, s, c) ==
    /\ c \in TreeCell /\ c.type = h[m].type
    /\ c.begin = TreeImage(B, f, h[m].begin)
    /\ c.end = IF s = << >> THEN Tree!Header ELSE TreeImage(B, f, s[Len(s)])
    /\ c.count = Len(s) /\ c.children = Len(s)
    /\ m = n => c.parent = Tree!NULL
    /\ m # n => /\ c.next = TreeImage(B, f, h[m].next)
                /\ c.prev = IF h[m].prev \in B THEN TreeImage(B, f, h[m].prev) ELSE Tree!Header
                /\ c.parent = TreeImage(B, f, h[m].parent)

LEMMA TreeCopyIs ==
    ASSUME Tree!TreeAssumption, NEW h \in TreeHeap,
           NEW B \in SUBSET Tree!Node, NEW f \in Tree!Node, TreeImages(B, f),
           NEW n, NEW m \in Tree!Node, NEW s, TreeList(h, m, s)
    PROVE  TreeIsCopy(h, B, f, n, m, s, TreeCopyCell(h, B, f, n, m))
<1> DEFINE e == Tree!Empty(h[m].type, h[m].key)
           begin == TreeImage(B, f, h[m].begin)
           end == IF s = << >> THEN Tree!Header ELSE TreeImage(B, f, s[Len(s)])
           next == TreeImage(B, f, h[m].next)
           prev == IF h[m].prev \in B THEN TreeImage(B, f, h[m].prev) ELSE Tree!Header
           parent == TreeImage(B, f, h[m].parent)
           a == [e EXCEPT !.begin = begin, !.end = end, !.count = Len(s), !.children = Len(s)]
           b == [a EXCEPT !.next = next, !.prev = prev, !.parent = parent]
           c == TreeCopyCell(h, B, f, n, m)
<1>1. Tree!Items(h, m) = s /\ s \in Seq(Tree!Node) /\ Len(s) \in Nat
  BY TreeItemsList
<1>2. c = IF m = n THEN a ELSE b
  BY <1>1 DEF TreeCopyCell, Tree!Last
<1>3. \A y \in Tree!Node \cup {Tree!NULL} : TreeImage(B, f, y) \in Tree!Node \cup {Tree!NULL}
  BY DEF TreeImages, TreeImage
<1>4. \A y \in Tree!Node : TreeImage(B, f, y) \in Tree!Node
  BY DEF TreeImages, TreeImage
<1>5. h[m] \in TreeCell
  BY DEF TreeHeap
<1>6. /\ begin \in Tree!Node \cup {Tree!NULL} /\ next \in Tree!Node \cup {Tree!NULL}
      /\ parent \in Tree!Node \cup {Tree!NULL}
  BY <1>3, <1>5 DEF TreeCell
<1>7. prev \in Tree!Node \cup {Tree!NULL, Tree!Header}
  BY <1>4
<1>8. end \in Tree!Node \cup {Tree!Header}
  <2>1. s # << >> => s[Len(s)] \in Tree!Node
    BY <1>1, EmptySeq, ElementOfSeq
  <2>2. QED  BY <1>4, <2>1
<1>9. e \in TreeCell /\ e.type = h[m].type /\ e.parent = Tree!NULL
  <2>1. h[m].type \in Tree!Type \cup {"unused", "freed"} /\ h[m].key \in Key \cup {"none"}
    BY <1>5 DEF TreeCell
  <2>2. QED  BY <2>1 DEF Tree!Empty, TreeCell
<1> DEFINE q == Len(s)
<1>10. a = [e EXCEPT !.begin = begin, !.end = end, !.count = q, !.children = q] /\ q \in Nat
  BY <1>1
<1>11. b = [a EXCEPT !.next = next, !.prev = prev, !.parent = parent]
  OBVIOUS
<1> HIDE DEF e, begin, end, next, prev, parent, a, b, c, q
<1>12. /\ a \in TreeCell /\ a.type = h[m].type /\ a.parent = Tree!NULL
       /\ a.begin = begin /\ a.end = end /\ a.count = q /\ a.children = q
  BY <1>6, <1>8, <1>9, <1>10 DEF TreeCell
<1>13. /\ b \in TreeCell /\ b.type = h[m].type /\ b.parent = parent
       /\ b.next = next /\ b.prev = prev
       /\ b.begin = begin /\ b.end = end /\ b.count = q /\ b.children = q
  BY <1>6, <1>7, <1>11, <1>12 DEF TreeCell
<1>14. TreeIsCopy(h, B, f, n, m, s, c)
  BY <1>2, <1>12, <1>13 DEF TreeIsCopy, begin, end, next, prev, parent, q
<1>15. QED  BY <1>14 DEF c

\* r is h with the copy of the tree B of n.
TreeCopied(h, r, B, f, n) ==
    /\ r \in TreeHeap
    /\ \A k \in Tree!Node : (\A m \in B : TreeImage(B, f, m) # k) => r[k] = h[k]
    /\ \A m \in B : \E s \in Seq(Tree!Node) :
          TreeList(h, m, s) /\ TreeIsCopy(h, B, f, n, m, s, r[TreeImage(B, f, m)])

\* The nodes of B are n and all below it, and the memory from f on is unused.
TreeToCopy(h, B, f, n) ==
    /\ TreeSound(h) /\ B \in SUBSET Tree!Node /\ TreeClosed(h, B) /\ n \in B
    /\ \A m \in B : m = n \/ h[m].parent \in B
    /\ h[n].parent \notin B
    /\ f \in Tree!Node /\ \A k \in Tree!Node : h[k].type = "unused" <=> f <= k
    /\ TreeImages(B, f)

LEMMA TreeCopiedIs ==
    ASSUME Tree!TreeAssumption, NEW h \in TreeHeap, NEW B, NEW f, NEW n, TreeToCopy(h, B, f, n),
           NEW r, r = [k \in Tree!Node |->
                          IF \E m \in B : TreeImage(B, f, m) = k
                          THEN TreeCopyCell(h, B, f, n, CHOOSE m \in B : TreeImage(B, f, m) = k)
                          ELSE h[k]]
    PROVE  TreeCopied(h, r, B, f, n)
<1>1. /\ TreeSound(h) /\ B \in SUBSET Tree!Node /\ TreeClosed(h, B) /\ f \in Tree!Node
      /\ TreeImages(B, f)
  BY DEF TreeToCopy
<1>2. /\ \A m \in B : TreeImage(B, f, m) \in Tree!Node
      /\ \A m, k \in B : TreeImage(B, f, m) = TreeImage(B, f, k) => m = k
  BY <1>1 DEF TreeImages
<1>3. ASSUME NEW m \in B
      PROVE  r[TreeImage(B, f, m)] = TreeCopyCell(h, B, f, n, m)
  <2> DEFINE k == TreeImage(B, f, m)
             j == CHOOSE l \in B : TreeImage(B, f, l) = k
  <2>1. k \in Tree!Node /\ \E l \in B : TreeImage(B, f, l) = k
    BY <1>2
  <2>2. j \in B /\ TreeImage(B, f, j) = k
    BY <2>1
  <2>3. j = m
    <3> HIDE DEF j
    <3>1. QED  BY <1>2, <2>2
  <2>4. r[k] = TreeCopyCell(h, B, f, n, j)
    BY <2>1
  <2>5. QED  BY <2>3, <2>4
<1>4. ASSUME NEW m \in B
      PROVE  \E s \in Seq(Tree!Node) :
                TreeList(h, m, s) /\ TreeIsCopy(h, B, f, n, m, s, r[TreeImage(B, f, m)])
  <2>1. m \in Tree!Node /\ Tree!Live(h, m)
    BY <1>1 DEF TreeClosed
  <2>2. PICK s \in Seq(Tree!Node) : TreeList(h, m, s)
    BY <1>1, <2>1 DEF TreeSound
  <2>3. TreeIsCopy(h, B, f, n, m, s, TreeCopyCell(h, B, f, n, m))
    BY <1>1, <2>1, <2>2, TreeCopyIs
  <2>4. QED  BY <1>3, <2>2, <2>3
<1>5. ASSUME NEW k \in Tree!Node, \A m \in B : TreeImage(B, f, m) # k
      PROVE  r[k] = h[k]
  BY <1>5
<1>6. ASSUME NEW k \in Tree!Node PROVE r[k] \in TreeCell
  <2>1. CASE \A m \in B : TreeImage(B, f, m) # k
    BY <1>5, <2>1 DEF TreeHeap
  <2>2. CASE \E m \in B : TreeImage(B, f, m) = k
    BY <1>4, <2>2 DEF TreeIsCopy
  <2>3. QED  BY <2>1, <2>2
<1>7. r \in TreeHeap
  <2>1. r = [k \in Tree!Node |-> r[k]]
    OBVIOUS
  <2>2. QED  BY ONLY <1>6, <2>1 DEF TreeHeap
<1>8. QED  BY <1>4, <1>5, <1>7 DEF TreeCopied

\* The list of a copy holds the copies of the children.
TreeImageList(B, f, s) == [i \in 1..Len(s) |-> TreeImage(B, f, s[i])]

LEMMA TreeImageListIs ==
    ASSUME NEW B \in SUBSET Tree!Node, NEW f, TreeImages(B, f),
           NEW s \in Seq(Tree!Node), \A i \in 1..Len(s) : s[i] \in B
    PROVE  LET t == TreeImageList(B, f, s)
           IN  /\ t \in Seq(Tree!Node) /\ Len(t) = Len(s)
               /\ \A i \in 1..Len(s) : t[i] = TreeImage(B, f, s[i])
               /\ \A i \in Nat : TreeAt(t, i) = TreeImage(B, f, TreeAt(s, i))
<1> DEFINE q == Len(s)
           t == TreeImageList(B, f, s)
<1>1. q \in Nat /\ \A i \in 1..q : s[i] \in B
  BY LenProperties
<1>2. t = [i \in 1..q |-> TreeImage(B, f, s[i])]
  BY DEF TreeImageList
<1> HIDE DEF t
<1>3. \A i \in 1..q : TreeImage(B, f, s[i]) \in Tree!Node
  BY <1>1 DEF TreeImages
<1> HIDE DEF q
<1>4. t \in [1..q -> Tree!Node] /\ \A i \in 1..q : t[i] = TreeImage(B, f, s[i])
  BY <1>2, <1>3
<1>5. t \in Seq(Tree!Node)
  BY <1>1, <1>4, SeqDef
<1>6. Len(t) = q
  BY <1>1, <1>4, <1>5, LenProperties
<1>7. Tree!NULL \notin B
  BY TreeNumbers
<1>8. ASSUME NEW i \in Nat PROVE TreeAt(t, i) = TreeImage(B, f, TreeAt(s, i))
  <2>1. CASE i \in 1..q
    BY <1>4, <1>6, <2>1 DEF TreeAt, q
  <2>2. CASE i \notin 1..q
    <3>1. TreeAt(t, i) = Tree!NULL /\ TreeAt(s, i) = Tree!NULL
      BY <1>6, <2>2 DEF TreeAt, q
    <3>2. QED  BY <1>7, <3>1 DEF TreeImage
  <2>3. QED  BY <2>1, <2>2
<1>9. QED  BY <1>4, <1>5, <1>6, <1>8 DEF t, q

\* Which nodes there are after the copy, and under which parents.
LEMMA TreeCopyNodes ==
    ASSUME NEW h \in TreeHeap, NEW B, NEW f, NEW n, TreeToCopy(h, B, f, n),
           NEW r, TreeCopied(h, r, B, f, n)
    PROVE  /\ \A m \in B : LET y == TreeImage(B, f, m) IN
                 /\ y \in Tree!Node /\ Tree!Live(r, y) /\ ~Tree!Live(h, y)
                 /\ r[y].parent = IF m = n THEN Tree!NULL ELSE TreeImage(B, f, h[m].parent)
           /\ \A k \in Tree!Node : h[k].type # "unused" => r[k] = h[k]
           /\ \A k \in Tree!Node : Tree!Live(h, k) => r[k] = h[k] /\ Tree!Live(r, k)
           /\ \A k \in Tree!Node : Tree!Live(r, k) =>
                 Tree!Live(h, k) \/ \E m \in B : TreeImage(B, f, m) = k
<1>1. /\ B \in SUBSET Tree!Node /\ TreeClosed(h, B) /\ f \in Tree!Node
      /\ \A k \in Tree!Node : h[k].type = "unused" <=> f <= k
      /\ \A m \in B : TreeImage(B, f, m) \in Tree!Node /\ f <= TreeImage(B, f, m)
  BY DEF TreeToCopy, TreeImages
<1>2. ASSUME NEW m \in B
      PROVE  /\ TreeImage(B, f, m) \in Tree!Node
             /\ h[TreeImage(B, f, m)].type = "unused"
             /\ Tree!Live(r, TreeImage(B, f, m)) /\ ~Tree!Live(h, TreeImage(B, f, m))
             /\ r[TreeImage(B, f, m)].parent =
                   IF m = n THEN Tree!NULL ELSE TreeImage(B, f, h[m].parent)
  <2> DEFINE y == TreeImage(B, f, m)
  <2>1. y \in Tree!Node /\ h[y].type = "unused"
    BY <1>1
  <2> HIDE DEF y
  <2>2. Tree!Live(h, m)
    BY <1>1 DEF TreeClosed
  <2>3. r[y].type = h[m].type /\ r[y].parent = IF m = n THEN Tree!NULL
                                               ELSE TreeImage(B, f, h[m].parent)
    BY DEF TreeCopied, TreeIsCopy, y
  <2>4. Tree!Live(r, y) /\ ~Tree!Live(h, y)
    BY <2>1, <2>2, <2>3, TreeNumbers DEF Tree!Live
  <2>5. QED  BY <2>1, <2>3, <2>4 DEF y
<1>3. ASSUME NEW k \in Tree!Node, h[k].type # "unused" PROVE r[k] = h[k]
  <2>1. \A m \in B : TreeImage(B, f, m) # k
    BY <1>2, <1>3
  <2>2. QED  BY <2>1 DEF TreeCopied
<1>4. ASSUME NEW k \in Tree!Node, Tree!Live(h, k) PROVE r[k] = h[k] /\ Tree!Live(r, k)
  <2>1. h[k].type # "unused"
    BY <1>4, TreeNumbers DEF Tree!Live
  <2>2. QED  BY <1>3, <1>4, <2>1 DEF Tree!Live
<1>5. ASSUME NEW k \in Tree!Node, Tree!Live(r, k)
      PROVE  Tree!Live(h, k) \/ \E m \in B : TreeImage(B, f, m) = k
  <2>1. (\A m \in B : TreeImage(B, f, m) # k) => r[k] = h[k]
    BY DEF TreeCopied
  <2>2. QED  BY <1>5, <2>1 DEF Tree!Live
<1>6. QED  BY <1>2, <1>3, <1>4, <1>5

LEMMA TreeCopyList ==
    ASSUME NEW h \in TreeHeap, NEW B, NEW f, NEW n, TreeToCopy(h, B, f, n),
           NEW r, TreeCopied(h, r, B, f, n), NEW m \in B
    PROVE  \E t \in Seq(Tree!Node) : TreeList(r, TreeImage(B, f, m), t)
<1> DEFINE y == TreeImage(B, f, m)
<1>1. /\ TreeSound(h) /\ B \in SUBSET Tree!Node /\ TreeClosed(h, B)
      /\ \A k \in B : k = n \/ h[k].parent \in B
      /\ h[n].parent \notin B /\ TreeImages(B, f)
      /\ \A k, l \in B : TreeImage(B, f, k) = TreeImage(B, f, l) => k = l
  BY DEF TreeToCopy, TreeImages
<1>2. PICK s \in Seq(Tree!Node) : TreeList(h, m, s) /\ TreeIsCopy(h, B, f, n, m, s, r[y])
  BY DEF TreeCopied
<1> DEFINE q == Len(s)
           t == TreeImageList(B, f, s)
<1>3. /\ q \in Nat /\ \A i \in 1..q : s[i] \in Tree!Node
      /\ \A i, j \in 1..q : s[i] = s[j] => i = j
      /\ h[m].begin = TreeAt(s, 1)
      /\ \A i \in 1..q : h[s[i]].next = TreeAt(s, i + 1)
      /\ \A i \in 2..q : h[s[i]].prev = s[i - 1]
      /\ q # 0 => h[s[1]].prev \in {Tree!NULL, Tree!Header}
  <2>1. q \in Nat /\ \A i \in 1..q : s[i] \in Tree!Node
    BY <1>2, TreeListed
  <2>2. QED  BY <1>2, <2>1 DEF TreeList, TreeLinks
<1>4. \A i \in 1..q : Tree!Live(h, s[i]) /\ h[s[i]].parent = m
  BY <1>2 DEF TreeList, TreeKids
<1>5. \A i \in 1..q : s[i] \in B /\ s[i] # n
  BY <1>1, <1>3, <1>4 DEF TreeClosed
<1>6. /\ t \in Seq(Tree!Node) /\ Len(t) = q
      /\ \A i \in 1..q : t[i] = TreeImage(B, f, s[i])
      /\ \A i \in Nat : TreeAt(t, i) = TreeImage(B, f, TreeAt(s, i))
  <2>1. B \in SUBSET Tree!Node /\ TreeImages(B, f) /\ \A i \in 1..Len(s) : s[i] \in B
    BY <1>1, <1>5
  <2> HIDE DEF y
  <2>2. QED  BY ONLY <2>1, s \in Seq(Tree!Node), TreeImageListIs
<1>7. /\ y \in Tree!Node /\ ~Tree!Live(h, y)
      /\ \A i \in 1..q : /\ t[i] \in Tree!Node /\ Tree!Live(r, t[i])
                         /\ r[t[i]].parent = y
  <2>1. y \in Tree!Node /\ ~Tree!Live(h, y)
    BY TreeCopyNodes
  <2>2. ASSUME NEW i \in 1..q
        PROVE  t[i] \in Tree!Node /\ Tree!Live(r, t[i]) /\ r[t[i]].parent = y
    <3>1. s[i] \in B /\ s[i] # n /\ t[i] = TreeImage(B, f, s[i]) /\ h[s[i]].parent = m
      BY <1>4, <1>5, <1>6
    <3>2. QED  BY <3>1, TreeCopyNodes
  <2>3. QED  BY <2>1, <2>2
<1>8. ASSUME NEW i \in 1..q
      PROVE  /\ r[t[i]].next = TreeImage(B, f, h[s[i]].next)
             /\ r[t[i]].prev = IF h[s[i]].prev \in B THEN TreeImage(B, f, h[s[i]].prev)
                               ELSE Tree!Header
  <2>1. s[i] \in B /\ s[i] # n /\ t[i] = TreeImage(B, f, s[i])
    BY <1>5, <1>6
  <2>2. PICK u \in Seq(Tree!Node) : TreeIsCopy(h, B, f, n, s[i], u, r[TreeImage(B, f, s[i])])
    BY <2>1 DEF TreeCopied
  <2> HIDE DEF t
  <2>3. QED  BY <2>1, <2>2 DEF TreeIsCopy
<1>9. /\ r[y].begin = TreeImage(B, f, h[m].begin)
      /\ r[y].end = IF s = << >> THEN Tree!Header ELSE TreeImage(B, f, s[Len(s)])
      /\ r[y].count = q /\ r[y].children = q
  BY <1>2 DEF TreeIsCopy
<1> HIDE DEF y, t, q
<1>10. TreeLinks(r, y, t)
  <2>1. r[y].begin = TreeAt(t, 1)
    BY <1>3, <1>6, <1>9
  <2>2. ASSUME NEW i \in 1..q PROVE r[t[i]].next = TreeAt(t, i + 1)
    <3>1. i + 1 \in Nat /\ h[s[i]].next = TreeAt(s, i + 1)
      BY <1>3
    <3>2. QED  BY <1>6, <1>8, <3>1
  <2>3. QED  BY <1>6, <2>1, <2>2 DEF TreeLinks
<1>11. \A i, j \in 1..q : t[i] = t[j] => i = j
  BY <1>1, <1>3, <1>5, <1>6
<1>12. \A i \in 1..q : t[i] \in TreeKids(r, y)
  BY <1>7 DEF TreeKids
<1>13. ASSUME NEW z \in TreeKids(r, y) PROVE \E i \in 1..q : t[i] = z
  <2>1. z \in Tree!Node /\ Tree!Live(r, z) /\ r[z].parent = y
    BY DEF TreeKids
  <2>2. CASE Tree!Live(h, z)
    <3>1. h[z].parent = y
      BY <2>1, <2>2, TreeCopyNodes
    <3>2. h[z].parent = Tree!NULL \/ Tree!Live(h, h[z].parent)
      BY <1>1, <2>1, <2>2 DEF TreeSound
    <3>3. QED  BY <1>7, <3>1, <3>2, TreeNumbers
  <2>3. CASE ~Tree!Live(h, z)
    <3>1. PICK k \in B : TreeImage(B, f, k) = z
      BY <2>1, <2>3, TreeCopyNodes
    <3>2. k # n /\ TreeImage(B, f, h[k].parent) = y
      <4>1. r[z].parent = IF k = n THEN Tree!NULL ELSE TreeImage(B, f, h[k].parent)
        BY <3>1, TreeCopyNodes
      <4>2. QED  BY <1>7, <2>1, <4>1, TreeNumbers
    <3>3. h[k].parent = m
      BY <1>1, <3>2 DEF y
    <3>4. k \in TreeKids(h, m)
      BY <1>1, <3>3 DEF TreeKids, TreeClosed
    <3>5. PICK i \in 1..q : s[i] = k
      BY <1>2, <3>4 DEF TreeList, q
    <3>6. QED  BY <1>6, <3>1, <3>5
  <2>4. QED  BY <2>2, <2>3
<1>14. ASSUME NEW i \in 2..q PROVE r[t[i]].prev = t[i - 1]
  <2>1. i \in 1..q /\ i - 1 \in 1..q /\ h[s[i]].prev = s[i - 1]
    BY <1>3
  <2>2. s[i - 1] \in B /\ t[i - 1] = TreeImage(B, f, s[i - 1])
    BY <1>5, <1>6, <2>1
  <2>3. QED  BY <1>8, <2>1, <2>2
<1>15. q # 0 => r[t[1]].prev \in {Tree!NULL, Tree!Header} /\ r[y].end = t[q]
  <2>1. HAVE q # 0
  <2>2. 1 \in 1..q /\ q \in 1..q /\ s # << >>
    BY <1>3, <2>1, EmptySeq DEF q
  <2>3. h[s[1]].prev \notin B
    BY <1>1, <1>3, <2>1, TreeNumbers
  <2>4. r[t[1]].prev = Tree!Header
    BY <1>8, <2>2, <2>3
  <2>5. r[y].end = t[q]
    BY <1>6, <1>9, <2>2 DEF q
  <2>6. QED  BY <2>4, <2>5
<1>16. q = 0 => r[y].end = Tree!Header
  <2>1. q = 0 => s = << >>
    BY <1>2, EmptySeq DEF q
  <2>2. QED  BY <1>9, <2>1
<1>17. TreeList(r, y, t)
  BY <1>6, <1>9, <1>10, <1>11, <1>12, <1>13, <1>14, <1>15, <1>16 DEF TreeList
<1>18. QED  BY <1>6, <1>17 DEF y

LEMMA TreeCopySound ==
    ASSUME NEW h \in TreeHeap, NEW B, NEW f, NEW n, TreeToCopy(h, B, f, n),
           NEW r, TreeCopied(h, r, B, f, n)
    PROVE  TreeSound(r)
<1>1. /\ TreeSound(h) /\ B \in SUBSET Tree!Node /\ TreeClosed(h, B) /\ n \in B
      /\ \A k \in B : k = n \/ h[k].parent \in B
      /\ f \in Tree!Node /\ \A k \in Tree!Node : h[k].type = "unused" <=> f <= k
      /\ \A k, l \in B : TreeImage(B, f, k) = TreeImage(B, f, l) => k = l
  BY DEF TreeToCopy, TreeImages
<1>2. /\ \A m \in B : /\ TreeImage(B, f, m) \in Tree!Node /\ Tree!Live(r, TreeImage(B, f, m))
                      /\ ~Tree!Live(h, TreeImage(B, f, m))
                      /\ r[TreeImage(B, f, m)].parent =
                            IF m = n THEN Tree!NULL ELSE TreeImage(B, f, h[m].parent)
      /\ \A k \in Tree!Node : h[k].type # "unused" => r[k] = h[k]
      /\ \A k \in Tree!Node : Tree!Live(h, k) => r[k] = h[k] /\ Tree!Live(r, k)
      /\ \A k \in Tree!Node : Tree!Live(r, k) =>
            Tree!Live(h, k) \/ \E m \in B : TreeImage(B, f, m) = k
  BY TreeCopyNodes
<1>3. ASSUME NEW k \in Tree!Node, Tree!Live(h, k)
      PROVE  h[k].parent = Tree!NULL \/ (h[k].parent \in Tree!Node /\ Tree!Live(h, h[k].parent))
  <2>1. h[k].parent = Tree!NULL \/ Tree!Live(h, h[k].parent)
    BY <1>1, <1>3 DEF TreeSound
  <2>2. h[k].parent \in Tree!Node \cup {Tree!NULL}
    BY DEF TreeHeap, TreeCell
  <2>3. QED  BY <2>1, <2>2
<1>4. ASSUME NEW k \in Tree!Node, Tree!Live(h, k) PROVE TreeKids(r, k) = TreeKids(h, k)
  <2>1. ASSUME NEW z \in Tree!Node PROVE z \in TreeKids(r, k) <=> z \in TreeKids(h, k)
    <3>1. CASE Tree!Live(h, z)
      BY <1>2, <3>1 DEF TreeKids
    <3>2. CASE ~Tree!Live(h, z) /\ Tree!Live(r, z)
      <4>1. PICK m \in B : TreeImage(B, f, m) = z
        BY <1>2, <3>2
      <4>2. CASE m = n
        BY <1>2, <3>2, <4>1, <4>2, TreeNumbers DEF TreeKids
      <4>3. CASE m # n
        <5>1. h[m].parent \in B /\ r[z].parent = TreeImage(B, f, h[m].parent)
          BY <1>1, <1>2, <4>1, <4>3
        <5>2. r[z].parent # k
          BY <1>2, <1>4, <5>1
        <5>3. QED  BY <3>2, <5>2 DEF TreeKids
      <4>4. QED  BY <4>2, <4>3
    <3>3. CASE ~Tree!Live(h, z) /\ ~Tree!Live(r, z)
      BY <3>3 DEF TreeKids
    <3>4. QED  BY <3>1, <3>2, <3>3
  <2>2. QED  BY <2>1 DEF TreeKids
<1>5. ASSUME NEW k \in Tree!Node, Tree!Live(h, k)
      PROVE  /\ \E t \in Seq(Tree!Node) : TreeList(r, k, t)
             /\ r[k].parent = Tree!NULL \/ Tree!Live(r, r[k].parent)
             /\ TreeRooted(r, k)
  <2>1. PICK t \in Seq(Tree!Node) : TreeList(h, k, t)
    BY <1>1, <1>5 DEF TreeSound
  <2>2. ASSUME NEW i \in 1..Len(t) PROVE r[t[i]] = h[t[i]]
    <3>1. t[i] \in Tree!Node /\ Tree!Live(h, t[i])
      BY <2>1 DEF TreeList, TreeKids
    <3>2. QED  BY <1>2, <3>1
  <2>3. r[k] = h[k] /\ TreeKids(r, k) = TreeKids(h, k)
    BY <1>2, <1>4, <1>5
  <2>4. \A m \in Tree!Node : h[m].type = "freed" => r[m].type = "freed"
    BY <1>2, TreeNumbers
  <2>5. TreeList(r, k, t)
    BY <2>1, <2>2, <2>3, <2>4, TreeListKept
  <2>6. r[k].parent = Tree!NULL \/ Tree!Live(r, r[k].parent)
    BY <1>2, <1>3, <1>5, <2>3
  <2>7. TreeRooted(r, k)
    <3>1. PICK S \in SUBSET Tree!Node : TreeClosed(h, S) /\ k \in S /\ h[k].parent \notin S
      BY <1>1, <1>5 DEF TreeSound, TreeRooted
    <3>2. \A z \in S : Tree!Live(h, z) /\ Tree!Live(r, z)
      BY <1>2, <3>1 DEF TreeClosed
    <3>3. ASSUME NEW z \in Tree!Node, Tree!Live(r, z), r[z].parent \in S PROVE z \in S
      <4>1. z \in TreeKids(r, r[z].parent)
        BY <3>3 DEF TreeKids
      <4>2. z \in TreeKids(h, r[z].parent)
        BY <1>4, <3>2, <3>3, <4>1
      <4>3. QED  BY <3>1, <3>3, <4>2 DEF TreeKids, TreeClosed
    <3>4. TreeClosed(r, S)
      BY <3>2, <3>3 DEF TreeClosed
    <3>5. QED  BY <2>3, <3>1, <3>4 DEF TreeRooted
  <2>8. QED  BY <2>5, <2>6, <2>7
<1>6. ASSUME NEW m \in B
      PROVE  LET y == TreeImage(B, f, m)
             IN  /\ \E t \in Seq(Tree!Node) : TreeList(r, y, t)
                 /\ r[y].parent = Tree!NULL \/ Tree!Live(r, r[y].parent)
                 /\ TreeRooted(r, y)
  <2> DEFINE y == TreeImage(B, f, m)
  <2>1. \E t \in Seq(Tree!Node) : TreeList(r, y, t)
    BY TreeCopyList
  <2>2. r[y].parent = IF m = n THEN Tree!NULL ELSE TreeImage(B, f, h[m].parent)
    BY <1>2
  <2>3. r[y].parent = Tree!NULL \/ Tree!Live(r, r[y].parent)
    BY <1>1, <1>2, <2>2
  <2>4. TreeRooted(r, y)
    <3>1. m \in Tree!Node /\ Tree!Live(h, m)
      BY <1>1 DEF TreeClosed
    <3>2. PICK S \in SUBSET Tree!Node : TreeClosed(h, S) /\ m \in S /\ h[m].parent \notin S
      BY <1>1, <3>1 DEF TreeSound, TreeRooted
    <3> DEFINE T == {TreeImage(B, f, k) : k \in S \cap B}
    <3>3. T \in SUBSET Tree!Node /\ (\A z \in T : Tree!Live(r, z) /\ ~Tree!Live(h, z)) /\ y \in T
      BY <1>2, <3>2
    <3>4. \A z \in T : \E k \in S \cap B : TreeImage(B, f, k) = z
      OBVIOUS
    <3>5. ASSUME NEW k \in B, k # n, TreeImage(B, f, h[k].parent) \in T PROVE h[k].parent \in S
      <4>1. h[k].parent \in B
        BY <1>1, <3>5
      <4>2. PICK l \in S \cap B : TreeImage(B, f, l) = TreeImage(B, f, h[k].parent)
        BY <3>4, <3>5
      <4>3. QED  BY <1>1, <4>1, <4>2
    <3>6. \A k \in S \cap B : TreeImage(B, f, k) \in T
      OBVIOUS
    <3> HIDE DEF T, y
    <3>7. ASSUME NEW z \in Tree!Node, Tree!Live(r, z), r[z].parent \in T PROVE z \in T
      <4>1. CASE Tree!Live(h, z)
        <5>1. r[z].parent = h[z].parent
          BY <1>2, <4>1
        <5>2. h[z].parent \in T /\ T \subseteq Tree!Node /\ Tree!NULL \notin Tree!Node
          BY <3>3, <3>7, <5>1, TreeNumbers
        <5>3. Tree!Live(h, h[z].parent)
          BY <1>3, <3>7, <4>1, <5>2
        <5>4. QED  BY <3>3, <5>2, <5>3
      <4>2. CASE ~Tree!Live(h, z)
        <5>1. PICK k \in B : TreeImage(B, f, k) = z
          BY <1>2, <3>7, <4>2
        <5>2. k # n /\ TreeImage(B, f, h[k].parent) \in T
          BY <1>2, <3>3, <3>7, <5>1, TreeNumbers
        <5>3. h[k].parent \in S
          BY <3>5, <5>2
        <5>4. k \in S
          BY <1>1, <3>2, <5>3 DEF TreeClosed
        <5>5. QED  BY <3>6, <5>1, <5>4
      <4>3. QED  BY <4>1, <4>2
    <3>8. r[y].parent \notin T
      <4>1. CASE m = n
        BY <2>2, <3>3, <4>1, TreeNumbers
      <4>2. CASE m # n
        BY <2>2, <3>2, <3>5, <4>2
      <4>3. QED  BY <4>1, <4>2
    <3>9. TreeClosed(r, T)
      BY <3>3, <3>7 DEF TreeClosed
    <3>10. QED  BY <3>3, <3>8, <3>9 DEF TreeRooted
  <2>5. QED  BY <2>1, <2>3, <2>4
<1>7. ASSUME NEW a \in Tree!Node, NEW b \in Tree!Node, r[a].type = "unused", a <= b
      PROVE  r[b].type = "unused"
  <2>1. ~Tree!Live(r, a)
    BY <1>7, TreeNumbers DEF Tree!Live
  <2>2. \A m \in B : TreeImage(B, f, m) # a
    BY <1>2, <2>1
  <2>3. h[a].type = "unused"
    BY <1>7, <2>2 DEF TreeCopied
  <2>4. f <= a /\ h[b].type = "unused"
    BY <1>1, <1>7, <2>3 DEF TreeSound
  <2>5. ASSUME NEW m \in B, TreeImage(B, f, m) = b PROVE FALSE
    <3>1. \E k \in B : TreeImage(B, f, k) = a
      BY <1>7, <2>4, <2>5 DEF TreeToCopy, TreeImages
    <3>2. QED  BY <2>2, <3>1
  <2>6. r[b] = h[b]
    BY <2>5 DEF TreeCopied
  <2>7. QED  BY <2>4, <2>6
<1>8. ASSUME NEW k \in Tree!Node, Tree!Live(r, k)
      PROVE  /\ \E t \in Seq(Tree!Node) : TreeList(r, k, t)
             /\ r[k].parent = Tree!NULL \/ Tree!Live(r, r[k].parent)
             /\ TreeRooted(r, k)
  <2>1. CASE Tree!Live(h, k)
    BY <1>5, <2>1
  <2>2. CASE ~Tree!Live(h, k)
    <3>1. PICK m \in B : TreeImage(B, f, m) = k
      BY <1>2, <1>8, <2>2
    <3>2. QED  BY <1>6, <3>1
  <2>3. QED  BY <2>1, <2>2
<1>9. QED  BY <1>7, <1>8 DEF TreeSound

\* The memory that is not used is what is left from the first such node on.
LEMMA TreeUnusedIs ==
    ASSUME Tree!TreeAssumption, heap \in TreeHeap, TreeSound(heap), Tree!Unused # {}
    PROVE  /\ \A k \in Tree!Node : heap[k].type = "unused" <=> Tree!Fresh <= k
           /\ Cardinality(Tree!Unused) = MaxNodes - Tree!Fresh + 1
<1> DEFINE f == Tree!Fresh
<1>1. /\ f \in Tree!Node /\ heap[f].type = "unused"
      /\ \A m \in Tree!Node : heap[m].type = "unused" => f <= m
  BY TreeFresh
<1> HIDE DEF f
<1>2. \A k \in Tree!Node : heap[k].type = "unused" <=> f <= k
  BY <1>1 DEF TreeSound
<1>3. MaxNodes \in Nat /\ f \in Int /\ f <= MaxNodes
  BY <1>1 DEF Tree!TreeAssumption, Tree!Node
<1>4. Tree!Unused = f..MaxNodes
  BY <1>1, <1>2, <1>3 DEF Tree!Unused, Tree!Node
<1>5. Cardinality(f..MaxNodes) = MaxNodes - f + 1
  BY <1>3, FS_Interval
<1>6. QED  BY <1>2, <1>4, <1>5 DEF f

LEMMA TreeCopyStep ==
    ASSUME Tree!TreeAssumption, TreeInv, NEW n \in Tree!Node, Tree!Copy(n)
    PROVE  TreeInv'
<1> DEFINE B == Tree!Below(heap, n)
           f == Tree!Fresh
           r == [k \in Tree!Node |->
                    IF \E m \in B : TreeImage(B, f, m) = k
                    THEN TreeCopyCell(heap, B, f, n, CHOOSE m \in B : TreeImage(B, f, m) = k)
                    ELSE heap[k]]
<1>1. /\ heap \in TreeHeap /\ undefined' = FALSE /\ TreeSound(heap)
      /\ Tree!Live(heap, n)
      /\ Tree!Cardinality(B) <= Tree!Cardinality(Tree!Unused)
  BY DEF TreeInv, Tree!Copy
<1>2. heap' = r
  BY DEF Tree!Copy, TreeCopyCell, TreeImage, TreeRank
<1> HIDE DEF r
<1>3. /\ B \in SUBSET Tree!Node /\ TreeClosed(heap, B) /\ n \in B
      /\ \A y \in B : y = n \/ heap[y].parent \in B
      /\ heap[n].parent \notin B
  BY <1>1, TreeBelowIs
<1> HIDE DEF B
<1>4. Cardinality(B) <= Cardinality(Tree!Unused)
  BY <1>1, TreeCardinality
<1>5. Cardinality(B) \in Nat /\ Cardinality(B) # 0
  <2>1. IsFiniteSet(B) /\ Cardinality(B) \in Nat
    BY <1>3, TreeFinite
  <2>2. QED  BY <1>3, <2>1, FS_EmptySet
<1>6. Tree!Unused # {}
  <2>1. SUFFICES ASSUME Tree!Unused = {} PROVE FALSE
    OBVIOUS
  <2>2. Cardinality(Tree!Unused) = 0
    BY <2>1, FS_EmptySet
  <2>3. QED  BY <1>4, <1>5, <2>2
<1>7. /\ f \in Tree!Node
      /\ \A k \in Tree!Node : heap[k].type = "unused" <=> f <= k
      /\ Cardinality(Tree!Unused) = MaxNodes - f + 1
  BY <1>1, <1>6, TreeFresh, TreeUnusedIs
<1> HIDE DEF f
<1>8. f + Cardinality(B) <= MaxNodes + 1
  BY <1>4, <1>5, <1>7 DEF Tree!TreeAssumption, Tree!Node
<1>9. TreeToCopy(heap, B, f, n)
  BY <1>1, <1>3, <1>7, <1>8, TreeImaged DEF TreeToCopy
<1>10. TreeCopied(heap, r, B, f, n)
  BY <1>1, <1>9, TreeCopiedIs DEF r
<1>11. r \in TreeHeap /\ TreeSound(r)
  BY <1>1, <1>9, <1>10, TreeCopySound DEF TreeCopied
<1>12. QED  BY <1>1, <1>2, <1>11 DEF TreeInv

-----------------------------------------------------------------------------
(* Every step.                                                             *)

LEMMA TreeInvInit == Tree!Init => TreeInv
<1> SUFFICES ASSUME Tree!Init PROVE TreeInv
  OBVIOUS
<1>1. heap = [n \in Tree!Node |-> Tree!Empty("unused", "none")] /\ undefined = FALSE
  BY DEF Tree!Init
<1>2. Tree!Empty("unused", "none") \in TreeCell
  BY DEF Tree!Empty, TreeCell
<1>3. heap \in TreeHeap
  BY <1>1, <1>2 DEF TreeHeap
<1>4. \A n \in Tree!Node : heap[n].type = "unused"
  BY <1>1 DEF Tree!Empty
<1>5. TreeSound(heap)
  BY <1>4, TreeNumbers DEF TreeSound, Tree!Live
<1>6. QED  BY <1>1, <1>3, <1>5 DEF TreeInv

LEMMA TreeIs ==
    ASSUME TreeInv, NEW n \in Tree!Node, NEW type \in Tree!Type, Tree!Is(type, n)
    PROVE  /\ ~undefined /\ Tree!Live(heap, n) /\ heap \in TreeHeap /\ TreeSound(heap)
           /\ heap[n].count \in Nat
BY DEF Tree!Is, Tree!Live, TreeInv, TreeHeap, TreeCell

LEMMA TreeTypes == "ARRAY" \in Tree!Type /\ "DICT" \in Tree!Type
BY DEF Tree!Type

LEMMA TreeArrayStep ==
    ASSUME Tree!TreeAssumption, TreeInv, NEW n \in Tree!Node, NEW x \in Tree!Node,
           NEW i \in Nat,
           \/ Tree!ArrayAppend(n, x)
           \/ Tree!ArrayInsert(n, x, i)
           \/ Tree!ArraySet(n, x, i)
           \/ Tree!ArrayRemove(n, i)
    PROVE  TreeInv'
<1>0. Tree!Is("ARRAY", n)
  BY DEF Tree!ArrayAppend, Tree!ArrayInsert, Tree!ArraySet, Tree!ArrayRemove
<1>1. /\ ~undefined /\ Tree!Live(heap, n) /\ heap \in TreeHeap /\ TreeSound(heap)
      /\ Tree!AtEnd(heap, n) \in Nat
  BY <1>0, TreeIs, TreeTypes DEF Tree!AtEnd
<1>2. CASE Tree!ArrayAppend(n, x)
  BY <1>1, <1>2, TreeAddStep DEF Tree!ArrayAppend
<1>3. CASE Tree!ArrayInsert(n, x, i)
  BY <1>1, <1>3, TreeAddStep DEF Tree!ArrayInsert
<1> DEFINE y == Tree!Nth(heap, n, i)
<1>4. ASSUME i < heap[n].children
      PROVE  y \in Tree!Node /\ Tree!Live(heap, y) /\ heap[y].parent = n
  BY <1>1, <1>4, TreeNthIs
<1>5. CASE Tree!ArraySet(n, x, i)
  <2>1. /\ Tree!Loose(x, n) /\ i < heap[n].children
        /\ Tree!Put(Tree!Freed(heap, y), n, Tree!FreedIndex, x)
    BY <1>5 DEF Tree!ArraySet
  <2> HIDE DEF y
  <2>2. QED  BY <1>1, <1>4, <2>1, TreeSetStep
<1>6. CASE Tree!ArrayRemove(n, i)
  <2>1. i < heap[n].children /\ heap' = Tree!Freed(heap, y) /\ UNCHANGED undefined
    BY <1>6 DEF Tree!ArrayRemove
  <2> HIDE DEF y
  <2>2. QED  BY <1>1, <1>4, <2>1, TreeFreeStep
<1>7. QED  BY <1>2, <1>3, <1>5, <1>6

LEMMA TreeDictSetStep ==
    ASSUME Tree!TreeAssumption, TreeInv, NEW n \in Tree!Node, NEW x \in Tree!Node, NEW key,
           Tree!DictSet(n, key, x)
    PROVE  TreeInv'
<1> DEFINE y == Tree!DictItem(heap, n, key)
<1>1. /\ Tree!Is("DICT", n) /\ Tree!Loose(x, n) /\ y # Tree!NULL
      /\ Tree!Put(Tree!Freed(heap, y), n, Tree!FreedIndex, x)
  BY DEF Tree!DictSet
<1>2. ~undefined /\ Tree!Live(heap, n) /\ heap \in TreeHeap /\ TreeSound(heap)
  BY <1>1, TreeIs, TreeTypes
<1>3. y = Tree!DictItem(heap, n, key)
  OBVIOUS
<1> HIDE DEF y
<1>4. y \in Tree!Node /\ Tree!Live(heap, y) /\ heap[y].parent = n
  BY <1>1, <1>2, <1>3, TreeItemIs
<1>5. QED  BY <1>1, <1>2, <1>4, TreeSetStep

LEMMA TreeInvNext == Tree!TreeAssumption /\ TreeInv /\ Tree!Next => TreeInv'
<1> SUFFICES ASSUME Tree!TreeAssumption, TreeInv, Tree!Next PROVE TreeInv'
  OBVIOUS
<1>0. \A n \in Tree!Node : ~undefined => heap[n].children \in Nat
  BY DEF TreeInv, TreeHeap, TreeCell
<1>1. ASSUME NEW type \in Tree!Type \ {"KEY"}, Tree!New(type) PROVE TreeInv'
  BY <1>1, TreeNewStep
<1>2. ASSUME NEW n \in Tree!Node, NEW x \in Tree!Node, Tree!ArrayAppend(n, x) PROVE TreeInv'
  <2>1. 0 \in Nat
    OBVIOUS
  <2>2. QED  BY <1>2, <2>1, TreeArrayStep
<1>3. ASSUME NEW n \in Tree!Node, NEW x \in Tree!Node, NEW i \in 0..heap[n].children,
             Tree!ArrayInsert(n, x, i) \/ Tree!ArraySet(n, x, i)
      PROVE  TreeInv'
  <2>1. i \in Nat
    BY DEF TreeInv, TreeHeap, TreeCell
  <2>2. QED  BY <1>3, <2>1, TreeArrayStep
<1>4. ASSUME NEW n \in Tree!Node, NEW x \in Tree!Node, NEW key \in Key,
             Tree!DictInsert(n, key, x) \/ Tree!DictSet(n, key, x)
      PROVE  TreeInv'
  BY <1>4, TreeInsertStep, TreeDictSetStep
<1>5. ASSUME NEW n \in Tree!Node, NEW i \in 0..heap[n].children, Tree!ArrayRemove(n, i)
      PROVE  TreeInv'
  <2>1. i \in Nat
    BY DEF TreeInv, TreeHeap, TreeCell
  <2>2. QED  BY <1>5, <2>1, TreeArrayStep
<1>6. ASSUME NEW n \in Tree!Node, NEW key \in Key, Tree!DictRemove(n, key) PROVE TreeInv'
  BY <1>6, TreeDropStep
<1>7. ASSUME NEW n \in Tree!Node, Tree!Free(n) PROVE TreeInv'
  BY <1>7, TreeFreeStep DEF Tree!Free
<1>8. ASSUME NEW n \in Tree!Node, Tree!Copy(n) PROVE TreeInv'
  BY <1>8, TreeCopyStep
<1>9. QED  BY <1>1, <1>2, <1>3, <1>4, <1>5, <1>6, <1>7, <1>8 DEF Tree!Next

LEMMA TreeInvSound == Tree!TreeAssumption /\ TreeInv => Tree!TypeOK /\ Tree!ListsSound
<1> SUFFICES ASSUME Tree!TreeAssumption, TreeInv PROVE Tree!TypeOK /\ Tree!ListsSound
  OBVIOUS
<1>1. Tree!TypeOK
  BY DEF TreeInv, TreeHeap, TreeCell, Tree!TypeOK
<1>2. ASSUME ~undefined, NEW n \in Tree!Node, Tree!Live(heap, n)
      PROVE  LET items == Tree!Items(heap, n)
             IN  /\ Len(items) = heap[n].count /\ heap[n].count = heap[n].children
                 /\ Tree!ToSet(items) = {x \in Tree!Node : Tree!Live(heap, x) /\ heap[x].parent = n}
                 /\ Tree!Cardinality(Tree!ToSet(items)) = Len(items)
                 /\ \A i \in 2..Len(items) : heap[items[i]].prev = items[i - 1]
                 /\ items # << >> => heap[n].end = items[Len(items)]
  <2>1. heap \in TreeHeap /\ TreeSound(heap)
    BY <1>2 DEF TreeInv
  <2>2. PICK s \in Seq(Tree!Node) : TreeList(heap, n, s)
    BY <1>2, <2>1 DEF TreeSound
  <2>3. /\ Tree!Items(heap, n) = s
        /\ Tree!ToSet(s) = TreeKids(heap, n) /\ Cardinality(Tree!ToSet(s)) = Len(s)
    BY <2>1, <2>2, TreeItemsList
  <2>4. /\ Len(s) = heap[n].count /\ heap[n].count = heap[n].children
        /\ \A i \in 2..Len(s) : heap[s[i]].prev = s[i - 1]
        /\ s # << >> => heap[n].end = s[Len(s)]
    BY <2>2 DEF TreeList
  <2>5. Tree!Cardinality(Tree!ToSet(s)) = Cardinality(Tree!ToSet(s))
    BY TreeCardinality
  <2>6. TreeKids(heap, n) = {x \in Tree!Node : Tree!Live(heap, x) /\ heap[x].parent = n}
    BY DEF TreeKids
  <2>7. QED  BY <2>3, <2>4, <2>5, <2>6
<1>3. undefined =>
        \E n \in Tree!Node : Tree!Live(heap, n) /\ heap[n].count > 0 /\ heap[n].begin = Tree!NULL
  BY DEF TreeInv, TreeLost, TreeHeap, TreeCell
<1>4. Tree!ListsSound
  BY <1>2, <1>3 DEF Tree!ListsSound
<1>5. QED  BY <1>1, <1>4

-----------------------------------------------------------------------------
(* The theorem.                                                            *)

LEMMA TreeServicesInv == ASSUME TreeInv, [ServicesNext]_all PROVE TreeInv'
<1>1. CASE UNCHANGED treeVars
  <2>1. UNCHANGED <<heap, undefined>>
    BY <1>1 DEF treeVars
  <2>2. UNCHANGED TreeSound(heap)
    BY <2>1 DEF TreeSound, TreeList, TreeLinks, TreeKids, TreeRooted, TreeClosed, Tree!Live
  <2>3. \A n \in Tree!Node : UNCHANGED TreeLost(heap, n)
    BY <2>1 DEF TreeLost, Tree!Live
  <2> HIDE DEF TreeLost
  <2>4. QED  BY <2>1, <2>2, <2>3 DEF TreeInv
<1>2. CASE Tree!Next
  BY <1>2, TreeInvNext, ComponentsAssumption DEF ComponentsAssumption
<1>3. UNCHANGED treeVars \/ Tree!Next
  BY DEF ServicesNext, all, Only, PlistRuns, SrRuns, ServerRuns
<1>4. QED  BY <1>1, <1>2, <1>3

\* Whatever a caller of libplist inserts, replaces, removes, frees and copies, and in whatever
\* order: the list of every node holds each of its children once, back as forth, both counts
\* of libcnary are its length, and it ends at the last of them. The one way out of this is an
\* addition to a list that was emptied and ends where memory was freed: it is counted in a
\* list that starts nowhere.
THEOREM ListsAreSound == ServicesSpec => []ListsSound
<1>1. ServicesInit => TreeInv
  BY TreeInvInit DEF ServicesInit
<1>2. TreeInv /\ [ServicesNext]_all => TreeInv'
  BY TreeServicesInv
<1>3. TreeInv => ListsSound
  BY TreeInvSound, ComponentsAssumption DEF ComponentsAssumption, ListsSound
<1>4. QED  BY <1>1, <1>2, <1>3, PTL DEF ServicesSpec
=============================================================================
