-------------------------- MODULE PlistServiceProofs --------------------------
(***************************************************************************)
(* Proofs about PlistService: the types of its variables, and that a       *)
(* client is in step with the device, gets whole messages in their order   *)
(* and is told the truth about what it sent, for every number of messages, *)
(* every length and every way the stream is cut.                           *)
(***************************************************************************)
EXTENDS PlistService, SequenceTheorems, TLAPS

\* The bytes received of the present read and those on their way.
Stream == buf \o wire

\* How many bytes there are from b to the end of its message, where l are the lengths.
Left(b, l) == HeaderLen + l[b.msg] - b.off

\* From its i-th byte on the rest of that byte's message follows, then the beginning of
\* another, and nothing of that message after it.
FramedAt(s, l, i) ==
    /\ s[i].off < HeaderLen + l[s[i].msg]
    /\ \A k \in 0..(Left(s[i], l) - 1) :
          i + k <= Len(s) /\ s[i + k].msg = s[i].msg /\ s[i + k].off = s[i].off + k
    /\ i + Left(s[i], l) <= Len(s) => s[i + Left(s[i], l)].off = 0
    /\ \A j \in (i + Left(s[i], l))..Len(s) : s[j].msg > s[i].msg

\* The first n messages, or what is left of them.
Framed(s, l, n) == \A i \in 1..Len(s) : s[i].msg <= n /\ FramedAt(s, l, i)

\* The bytes of message m.
IsFrame(f, l, m) ==
    /\ Len(f) = HeaderLen + l[m]
    /\ \A i \in 1..Len(f) : f[i] = [msg |-> m, off |-> i - 1]

\* The messages d are earlier than every byte.
Later(s, d) == \A i \in 1..Len(s), k \in 1..Len(d) : d[k] < s[i].msg

Kept == results \subseteq {"SUCCESS", "RECEIVE_TIMEOUT"}

\* A descriptor is closed at the end of a connection without SSL only.
ClosedInv == fd = "closed" => ~ssl /\ ended /\ wire = << >>

\* While it is open the counters say how much was received.
CountInv ==
    fd = "open" =>
        /\ pc \in {"idle", "sendheader", "sendbody"} => buf = << >>
        /\ pc = "header" => Len(buf) = total /\ total < HeaderLen /\ curlen = 0
        /\ pc = "body" => Len(buf) = curlen + total /\ curlen + total < pktlen
        /\ pc = "parse" => Len(buf) = pktlen

\* While it is open the stream is that of the device, after what was returned.
StreamInv == fd = "open" => Framed(Stream, lens, sent) /\ Later(Stream, delivered)

\* The stream begins where a message does, or where a body of the known length does.
Aligned ==
    /\ pc \in {"idle", "sendheader", "sendbody", "header"} =>
          Stream = << >> \/ Stream[1].off = 0
    /\ pc \in {"body", "parse"} =>
          /\ Stream # << >> /\ Stream[1].off = HeaderLen
          /\ pktlen = lens[Stream[1].msg]

\* So it does while the client kept to what it may do.
AlignInv == fd = "open" /\ Kept => Aligned

\* What is being sent follows what it belongs to.
SendInv ==
    /\ pc \in {"sendheader", "sendbody"} => asks > 0
    /\ pc = "sendbody" =>
          out # << >> /\ out[Len(out)] = [ask |-> asks, part |-> "header", all |-> TRUE]
    /\ SentWhole

Inv == TypeOK /\ ClosedInv /\ CountInv /\ StreamInv /\ AlignInv /\ WholeMessages /\ SendInv

-----------------------------------------------------------------------------
(* Sequences of bytes.                                                     *)

LEMMA Drop ==
    ASSUME NEW S, NEW s \in Seq(S), NEW n \in 0..Len(s)
    PROVE  LET t == SubSeq(s, n + 1, Len(s))
           IN  t \in Seq(S) /\ Len(t) = Len(s) - n /\ \A i \in 1..Len(t) : t[i] = s[n + i]
<1>1. \A i \in (n + 1)..Len(s) : s[i] \in S  BY ElementOfSeq
<1>. QED  BY <1>1, SubSeqProperties

LEMMA Take ==
    ASSUME NEW S, NEW s \in Seq(S), NEW n \in 0..Len(s)
    PROVE  SubSeq(s, 1, n) \in Seq(S) /\ Len(SubSeq(s, 1, n)) = n
<1>1. \A i \in 1..n : s[i] \in S  BY ElementOfSeq
<1>. QED  BY <1>1, SubSeqProperties

LEMMA Joined ==
    ASSUME NEW S, NEW s \in Seq(S), NEW f \in Seq(S)
    PROVE  /\ s \o f \in Seq(S) /\ Len(s \o f) = Len(s) + Len(f)
           /\ \A i \in 1..Len(s) : (s \o f)[i] = s[i]
           /\ \A i \in 1..Len(f) : (s \o f)[Len(s) + i] = f[i]
<1>1. /\ s \o f \in Seq(S) /\ Len(s \o f) = Len(s) + Len(f)
      /\ \A i \in 1..(Len(s) + Len(f)) :
            (s \o f)[i] = IF i <= Len(s) THEN s[i] ELSE f[i - Len(s)]
  BY ConcatProperties
<1>2. Len(s) \in Nat /\ Len(f) \in Nat  OBVIOUS
<1>3. \A i \in 1..Len(s) : (s \o f)[i] = s[i]  BY <1>1, <1>2
<1>4. ASSUME NEW i \in 1..Len(f) PROVE (s \o f)[Len(s) + i] = f[i]
  <2>1. /\ Len(s) + i \in 1..(Len(s) + Len(f)) /\ ~(Len(s) + i <= Len(s))
        /\ Len(s) + i - Len(s) = i
    BY <1>2
  <2>. QED  BY <1>1, <2>1
<1>. QED  BY <1>1, <1>3, <1>4

\* What moves from the wire to the buffer leaves the stream as it is.
LEMMA Moved ==
    ASSUME NEW S, NEW b \in Seq(S), NEW w \in Seq(S), NEW n \in 0..Len(w)
    PROVE  (b \o SubSeq(w, 1, n)) \o SubSeq(w, n + 1, Len(w)) = b \o w
<1>1. SubSeq(w, 1, n) \o SubSeq(w, n + 1, Len(w)) = w
  <2>1. /\ 1 \in 1..(Len(w) + 1) /\ n \in (1 - 1)..Len(w)
        /\ Len(w) \in n..Len(w)
    OBVIOUS
  <2>2. SubSeq(w, 1, n) \o SubSeq(w, n + 1, Len(w)) = SubSeq(w, 1, Len(w))
    BY <2>1, ConcatAdjacentSubSeq
  <2>. QED  BY <2>2, SubSeqFull
<1>2. SubSeq(w, 1, n) \in Seq(S) /\ SubSeq(w, n + 1, Len(w)) \in Seq(S)
  BY Take, Drop
<1>3. \A x, y \in Seq(S) : (b \o x) \o y = b \o (x \o y)  BY ConcatAssociative
<1>4. (b \o SubSeq(w, 1, n)) \o SubSeq(w, n + 1, Len(w))
         = b \o (SubSeq(w, 1, n) \o SubSeq(w, n + 1, Len(w)))
  BY <1>2, <1>3
<1>. QED  BY <1>1, <1>4

\* What is left when the buffer is given up.
LEMMA GivenUp ==
    ASSUME NEW S, NEW b \in Seq(S), NEW w \in Seq(S)
    PROVE  /\ Len(b) \in 0..Len(b \o w)
           /\ w = SubSeq(b \o w, Len(b) + 1, Len(b \o w))
           /\ << >> \o w = w
<1>1. /\ b \o w \in Seq(S) /\ Len(b \o w) = Len(b) + Len(w)
      /\ \A i \in 1..Len(w) : (b \o w)[Len(b) + i] = w[i]
  BY ConcatProperties
<1>2. Len(b) \in 0..Len(b \o w)  BY <1>1
<1>3. w = SubSeq(b \o w, Len(b) + 1, Len(b \o w))
  BY <1>1, <1>2, Drop, SeqEqual
<1>. QED  BY <1>2, <1>3, ConcatEmptySeq

LEMMA LengthFacts ==
    ASSUME PlistAssumption, NEW l \in [Message -> Lengths], NEW m \in Message
    PROVE  /\ l[m] \in 1..(Limit - 1)
           /\ HeaderLen \in Nat \ {0} /\ Limit \in Nat
           /\ WordSize \in Nat /\ Limit + HeaderLen < WordSize
<1>1. l[m] \in Lengths  OBVIOUS
<1>2. l[m] \in 1..(Limit - 1)  BY <1>1 DEF PlistAssumption
<1>. QED  BY <1>2 DEF PlistAssumption

\* A byte belongs to a message and lies within its frame or after it.
LEMMA ByteFacts ==
    ASSUME PlistAssumption, NEW l \in [Message -> Lengths], NEW b \in Byte
    PROVE  /\ b.msg \in Message /\ b.off \in Nat
           /\ l[b.msg] \in 1..(Limit - 1) /\ Left(b, l) \in Int
<1>1. b.msg \in Message /\ b.off \in Nat  BY DEF Byte
<1>2. l[b.msg] \in Lengths  BY <1>1
<1>3. l[b.msg] \in 1..(Limit - 1)  BY <1>2 DEF PlistAssumption
<1>4. HeaderLen \in Nat /\ Limit \in Nat  BY DEF PlistAssumption
<1>. QED  BY <1>1, <1>3, <1>4 DEF Left

LEMMA FramedDrop ==
    ASSUME PlistAssumption, NEW l \in [Message -> Lengths], NEW m \in Nat,
           NEW s \in Seq(Byte), NEW n \in 0..Len(s), Framed(s, l, m)
    PROVE  Framed(SubSeq(s, n + 1, Len(s)), l, m)
<1>. DEFINE t == SubSeq(s, n + 1, Len(s))
<1>1. t \in Seq(Byte) /\ Len(t) = Len(s) - n /\ \A i \in 1..Len(t) : t[i] = s[n + i]
  BY Drop
<1>. SUFFICES ASSUME NEW i \in 1..Len(t) PROVE t[i].msg <= m /\ FramedAt(t, l, i)
  BY DEF Framed
<1>2. /\ n + i \in 1..Len(s) /\ t[i] = s[n + i]
      /\ s[n + i].msg <= m /\ FramedAt(s, l, n + i)
  BY <1>1 DEF Framed
<1>3. s[n + i] \in Byte /\ Left(s[n + i], l) \in Int
  <2>1. s[n + i] \in Byte  BY <1>2, ElementOfSeq
  <2>. QED  BY <2>1, ByteFacts
<1>. HIDE DEF t
<1>4. \A k \in 0..(Left(t[i], l) - 1) :
          i + k <= Len(t) /\ t[i + k].msg = t[i].msg /\ t[i + k].off = t[i].off + k
  <2>. TAKE k \in 0..(Left(t[i], l) - 1)
  <2>1. /\ n + i + k <= Len(s)
        /\ s[n + i + k].msg = s[n + i].msg /\ s[n + i + k].off = s[n + i].off + k
    BY <1>2, <1>3 DEF FramedAt
  <2>2. i + k \in 1..Len(t)  BY <2>1, <1>1, <1>3
  <2>3. t[i + k] = s[n + (i + k)] /\ n + (i + k) = n + i + k  BY <2>2, <1>1, <1>3
  <2>. QED  BY <2>1, <2>2, <2>3, <1>2
<1>5. t[i].off < HeaderLen + l[t[i].msg]  BY <1>2 DEF FramedAt
<1>6. Left(t[i], l) >= 1
  <2>1. HeaderLen \in Nat  BY DEF PlistAssumption
  <2>. QED  BY <1>5, <1>2, <1>3, <2>1, ByteFacts DEF Left
<1>7. ASSUME i + Left(t[i], l) <= Len(t) PROVE t[i + Left(t[i], l)].off = 0
  <2>. DEFINE p == Left(t[i], l)
  <2>1. p \in Int /\ p >= 1 /\ i + p <= Len(t) /\ p = Left(s[n + i], l)
    BY <1>7, <1>6, <1>3, <1>2
  <2>. HIDE DEF p
  <2>2. i + p \in 1..Len(t)  BY <2>1
  <2>3. t[i + p] = s[n + (i + p)] /\ n + (i + p) = n + i + p /\ n + i + p <= Len(s)
    BY <2>1, <2>2, <1>1
  <2>4. n + i + p <= Len(s) => s[n + i + p].off = 0
    BY <2>1, <1>2 DEF FramedAt
  <2>. QED  BY <2>3, <2>4 DEF p
<1>8. \A j \in (i + Left(t[i], l))..Len(t) : t[j].msg > t[i].msg
  <2>. TAKE j \in (i + Left(t[i], l))..Len(t)
  <2>1. /\ j \in 1..Len(t) /\ t[j] = s[n + j]
        /\ n + j \in (n + i + Left(s[n + i], l))..Len(s)
    BY <1>1, <1>2, <1>3, <1>6
  <2>. QED  BY <2>1, <1>2 DEF FramedAt
<1>. QED  BY <1>2, <1>4, <1>5, <1>7, <1>8 DEF FramedAt

LEMMA LaterDrop ==
    ASSUME NEW s \in Seq(Byte), NEW n \in 0..Len(s), NEW d, Later(s, d)
    PROVE  Later(SubSeq(s, n + 1, Len(s)), d)
<1>. DEFINE t == SubSeq(s, n + 1, Len(s))
<1>1. Len(t) = Len(s) - n /\ \A i \in 1..Len(t) : t[i] = s[n + i]
  BY Drop
<1>. HIDE DEF t
<1>2. n \in Nat /\ Len(s) \in Nat  OBVIOUS
<1>. QED  BY <1>1, <1>2 DEF Later

\* What the device sends is one more message after those on their way.
LEMMA FramedAppend ==
    ASSUME PlistAssumption, NEW l \in [Message -> Lengths], NEW n \in Nat, n + 1 \in Message,
           NEW s \in Seq(Byte), Framed(s, l, n),
           NEW f \in Seq(Byte), IsFrame(f, l, n + 1)
    PROVE  Framed(s \o f, l, n + 1)
<1>. DEFINE t == s \o f
<1>1. /\ t \in Seq(Byte) /\ Len(t) = Len(s) + Len(f)
      /\ \A i \in 1..Len(s) : t[i] = s[i]
      /\ \A i \in 1..Len(f) : t[Len(s) + i] = f[i]
  BY Joined
<1>. HIDE DEF t
<1>2. Len(s) \in Nat /\ Len(f) \in Nat /\ HeaderLen \in Nat /\ HeaderLen >= 1
  BY LengthFacts
<1>3. l[n + 1] \in 1..(Limit - 1)  BY LengthFacts
<1>4. /\ Len(f) = HeaderLen + l[n + 1]
      /\ \A i \in 1..Len(f) : f[i] = [msg |-> n + 1, off |-> i - 1]
  BY DEF IsFrame
<1>. SUFFICES ASSUME NEW i \in 1..Len(t) PROVE t[i].msg <= n + 1 /\ FramedAt(t, l, i)
  BY DEF Framed, t
<1>5. CASE i \in 1..Len(s)
  <2>. DEFINE p == Left(s[i], l)
  <2>1. s[i] \in Byte /\ t[i] = s[i] /\ s[i].msg <= n /\ FramedAt(s, l, i)
    BY <1>1, <1>5, ElementOfSeq DEF Framed
  <2>2. s[i].msg \in Nat /\ s[i].off < HeaderLen + l[s[i].msg] /\ p \in Int /\ p >= 1
    <3>1. /\ s[i].msg \in Message /\ s[i].off \in Nat
          /\ l[s[i].msg] \in 1..(Limit - 1) /\ p \in Int
      BY <2>1, ByteFacts
    <3>2. s[i].off < HeaderLen + l[s[i].msg]  BY <2>1 DEF FramedAt
    <3>3. p = HeaderLen + l[s[i].msg] - s[i].off  BY DEF Left
    <3>4. s[i].msg \in Nat  BY <3>1 DEF Message
    <3>. HIDE DEF p
    <3>. QED  BY <3>1, <3>2, <3>3, <3>4, <1>2
  <2>3. /\ \A k \in 0..(p - 1) : i + k <= Len(s) /\ s[i + k].msg = s[i].msg
                                 /\ s[i + k].off = s[i].off + k
        /\ i + p <= Len(s) => s[i + p].off = 0
        /\ \A j \in (i + p)..Len(s) : s[j].msg > s[i].msg
    BY <2>1 DEF FramedAt
  <2>4. p = Left(t[i], l)  BY <2>1
  <2>. HIDE DEF p
  <2>5. i + p <= Len(s) + 1
    <3>1. p - 1 \in 0..(p - 1)  BY <2>2
    <3>2. i + (p - 1) <= Len(s)  BY <3>1, <2>3
    <3>. QED  BY <3>2, <2>2, <1>2, <1>5
  <2>6. \A k \in 0..(p - 1) : i + k <= Len(t) /\ t[i + k].msg = t[i].msg
                              /\ t[i + k].off = t[i].off + k
    <3>. TAKE k \in 0..(p - 1)
    <3>1. i + k <= Len(s) /\ s[i + k].msg = s[i].msg /\ s[i + k].off = s[i].off + k
      BY <2>3
    <3>2. i + k \in 1..Len(s)  BY <3>1, <2>2, <1>5
    <3>3. t[i + k] = s[i + k]  BY <3>2, <1>1
    <3>. QED  BY <3>1, <3>3, <2>1, <1>1, <1>2, <1>5, <2>2
  <2>7. ASSUME i + p <= Len(t) PROVE t[i + p].off = 0
    <3>1. CASE i + p <= Len(s)
      <4>1. i + p \in 1..Len(s)  BY <3>1, <2>2, <1>5
      <4>. QED  BY <4>1, <3>1, <2>3, <1>1
    <3>2. CASE i + p = Len(s) + 1
      <4>1. 1 \in 1..Len(f)  BY <1>2, <1>3, <1>4
      <4>2. t[i + p] = f[1] /\ f[1].off = 1 - 1  BY <4>1, <3>2, <1>1, <1>4
      <4>. QED  BY <4>2
    <3>3. i + p <= Len(s) \/ i + p = Len(s) + 1  BY <2>5, <2>2, <1>2, <1>5
    <3>. QED  BY <3>1, <3>2, <3>3
  <2>8. \A j \in (i + p)..Len(t) : t[j].msg > t[i].msg
    <3>. TAKE j \in (i + p)..Len(t)
    <3>1. CASE j \in 1..Len(s)
      <4>1. j \in (i + p)..Len(s) /\ t[j] = s[j]  BY <3>1, <1>1
      <4>. QED  BY <4>1, <2>3, <2>1
    <3>2. CASE j \notin 1..Len(s)
      <4>1. j - Len(s) \in 1..Len(f) /\ j = Len(s) + (j - Len(s))
        BY <3>2, <1>1, <1>2, <2>2, <1>5
      <4>2. t[Len(s) + (j - Len(s))] = f[j - Len(s)] /\ f[j - Len(s)].msg = n + 1
        BY <4>1, <1>1, <1>4
      <4>. QED  BY <4>1, <4>2, <2>1, <2>2
    <3>. QED  BY <3>1, <3>2
  <2>9. t[i].off < HeaderLen + l[t[i].msg]  BY <2>1, <2>2
  <2>. QED  BY <2>1, <2>2, <2>4, <2>6, <2>7, <2>8, <2>9 DEF FramedAt
<1>6. CASE i \notin 1..Len(s)
  <2>. DEFINE q == i - Len(s)
  <2>1. q \in 1..Len(f) /\ i = Len(s) + q  BY <1>6, <1>1, <1>2
  <2>2. t[i] = [msg |-> n + 1, off |-> q - 1]
    <3>1. t[Len(s) + q] = f[q] /\ f[q] = [msg |-> n + 1, off |-> q - 1]
      BY <2>1, <1>1, <1>4
    <3>. QED  BY <3>1, <2>1
  <2>. HIDE DEF q
  <2>3. Left(t[i], l) = Len(f) - q + 1  BY <2>1, <2>2, <1>2, <1>3, <1>4 DEF Left
  <2>4. \A k \in 0..(Len(f) - q) : i + k <= Len(t) /\ t[i + k].msg = t[i].msg
                                   /\ t[i + k].off = t[i].off + k
    <3>. TAKE k \in 0..(Len(f) - q)
    <3>1. q + k \in 1..Len(f) /\ i + k = Len(s) + (q + k)  BY <2>1, <1>2
    <3>2. t[Len(s) + (q + k)] = [msg |-> n + 1, off |-> (q + k) - 1]
      BY <3>1, <1>1, <1>4
    <3>3. t[i + k] = [msg |-> n + 1, off |-> (q + k) - 1]  BY <3>1, <3>2
    <3>4. /\ t[i + k].msg = n + 1 /\ t[i + k].off = (q + k) - 1
          /\ t[i].msg = n + 1 /\ t[i].off = q - 1
      BY <3>3, <2>2
    <3>. QED  BY <3>1, <3>4, <2>1, <1>1, <1>2
  <2>5. i + (Len(f) - q + 1) > Len(t)  BY <2>1, <1>1, <1>2
  <2>6. t[i].off < HeaderLen + l[t[i].msg]  BY <2>1, <2>2, <1>2, <1>3, <1>4
  <2>7. Len(f) - q + 1 - 1 = Len(f) - q /\ (i + (Len(f) - q + 1))..Len(t) = {}
    BY <2>1, <2>5, <1>1, <1>2
  <2>8. t[i].msg <= n + 1  BY <2>2
  <2>. DEFINE p == Left(t[i], l)
  <2>9. p = Len(f) - q + 1 /\ p - 1 = Len(f) - q  BY <2>3, <2>1, <1>2
  <2>10. i + p > Len(t) /\ (i + p)..Len(t) = {}  BY <2>5, <2>7, <2>9
  <2>11. \A k \in 0..(p - 1) : i + k <= Len(t) /\ t[i + k].msg = t[i].msg
                              /\ t[i + k].off = t[i].off + k
    BY <2>4, <2>9
  <2>12. ~(i + p <= Len(t))
    <3>1. p \in Int /\ i \in Int /\ Len(t) \in Int  BY <2>1, <2>9, <1>1, <1>2
    <3>. QED  BY <3>1, <2>10
  <2>. HIDE DEF p
  <2>13. FramedAt(t, l, i)  BY <2>6, <2>10, <2>11, <2>12 DEF FramedAt, p
  <2>. QED  BY <2>8, <2>13
<1>. QED  BY <1>5, <1>6

LEMMA LaterAppend ==
    ASSUME NEW n \in Nat, NEW s \in Seq(Byte), NEW d \in Seq(0..n), Later(s, d),
           NEW f \in Seq(Byte), \A i \in 1..Len(f) : f[i].msg = n + 1
    PROVE  Later(s \o f, d)
<1>. DEFINE t == s \o f
<1>1. /\ Len(t) = Len(s) + Len(f)
      /\ \A i \in 1..Len(s) : t[i] = s[i]
      /\ \A i \in 1..Len(f) : t[Len(s) + i] = f[i]
  BY Joined
<1>. HIDE DEF t
<1>. SUFFICES ASSUME NEW i \in 1..Len(t), NEW k \in 1..Len(d) PROVE d[k] < t[i].msg
  BY DEF Later, t
<1>2. d[k] \in 0..n  BY ElementOfSeq
<1>3. CASE i \in 1..Len(s)  BY <1>1, <1>3 DEF Later
<1>4. CASE i \notin 1..Len(s)
  <2>1. i - Len(s) \in 1..Len(f) /\ i = Len(s) + (i - Len(s))  BY <1>1, <1>4
  <2>2. t[Len(s) + (i - Len(s))].msg = n + 1  BY <2>1, <1>1
  <2>. QED  BY <2>1, <2>2, <1>2
<1>. QED  BY <1>3, <1>4

LEMMA FrameFacts ==
    ASSUME PlistAssumption, lens \in [Message -> Lengths], NEW m \in Message
    PROVE  Frame(m) \in Seq(Byte) /\ IsFrame(Frame(m), lens, m)
<1>1. lens[m] \in 1..(Limit - 1) /\ HeaderLen \in Nat  BY LengthFacts
<1>2. HeaderLen + lens[m] \in Nat  BY <1>1
<1>3. \A i \in 1..(HeaderLen + lens[m]) : [msg |-> m, off |-> i - 1] \in Byte
  BY <1>2 DEF Byte
<1>4. Frame(m) \in [1..(HeaderLen + lens[m]) -> Byte]  BY <1>3 DEF Frame
<1>5. Frame(m) \in Seq(Byte)  BY <1>2, <1>4, SeqDef
<1>6. Len(Frame(m)) = HeaderLen + lens[m]
  <2>1. DOMAIN Frame(m) = 1..(HeaderLen + lens[m])  BY <1>4
  <2>2. DOMAIN Frame(m) = 1..Len(Frame(m)) /\ Len(Frame(m)) \in Nat
    BY <1>5, LenProperties
  <2>. QED  BY <2>1, <2>2, <1>2
<1>7. \A i \in 1..(HeaderLen + lens[m]) : Frame(m)[i] = [msg |-> m, off |-> i - 1]
  BY DEF Frame
<1>. QED  BY <1>5, <1>6, <1>7 DEF IsFrame

\* The body of a message begins with the byte after its header.
LEMMA BodyFacts ==
    ASSUME PlistAssumption, lens \in [Message -> Lengths], NEW m \in Message
    PROVE  /\ lens[m] \in 1..(Limit - 1)
           /\ Len(Body(m)) = lens[m] /\ Body(m)[1] = [msg |-> m, off |-> HeaderLen]
<1>1. lens[m] \in 1..(Limit - 1) /\ HeaderLen \in Nat  BY LengthFacts
<1>2. /\ Frame(m) \in Seq(Byte) /\ Len(Frame(m)) = HeaderLen + lens[m]
      /\ \A i \in 1..Len(Frame(m)) : Frame(m)[i] = [msg |-> m, off |-> i - 1]
  BY FrameFacts DEF IsFrame
<1>3. HeaderLen \in 0..Len(Frame(m)) /\ Body(m) = SubSeq(Frame(m), HeaderLen + 1, Len(Frame(m)))
  BY <1>1, <1>2 DEF Body
<1>4. /\ Len(Body(m)) = Len(Frame(m)) - HeaderLen
      /\ \A i \in 1..Len(Body(m)) : Body(m)[i] = Frame(m)[HeaderLen + i]
  BY <1>2, <1>3, Drop
<1>5. HeaderLen + 1 \in 1..Len(Frame(m)) /\ 1 \in 1..Len(Body(m))  BY <1>1, <1>2, <1>4
<1>6. Body(m)[1] = Frame(m)[HeaderLen + 1]  BY <1>4, <1>5
<1>7. Frame(m)[HeaderLen + 1] = [msg |-> m, off |-> (HeaderLen + 1) - 1]  BY <1>2, <1>5
<1>8. (HeaderLen + 1) - 1 = HeaderLen  BY <1>1
<1>. QED  BY <1>1, <1>2, <1>4, <1>6, <1>7, <1>8

-----------------------------------------------------------------------------
(* The initial states and the device.                                      *)

LEMMA InitHolds ==
    ASSUME PlistAssumption, Init
    PROVE  Inv
<1>1. TypeOK
  <2>1. \A S : << >> \in Seq(S)  BY EmptySeq
  <2>2. /\ HeaderLen \in Nat /\ Limit \in Nat \ {0} /\ WordSize \in Nat /\ WordSize > 0
        /\ MaxMessages \in Nat /\ MaxSends \in Nat /\ MaxStalls \in Nat
    BY DEF PlistAssumption
  <2>3. /\ wire \in Seq(Byte) /\ buf \in Seq(Byte) /\ delivered \in Seq(Message \cup {0})
        /\ out \in Seq([ask : 1..MaxSends, part : {"header", "body"}, all : BOOLEAN])
    BY <2>1 DEF Init
  <2>4. /\ sent \in 0..MaxMessages /\ stalls \in 0..MaxStalls /\ asks \in 0..MaxSends
        /\ total \in 0..(HeaderLen + Limit) /\ pktlen \in 0..(Limit - 1)
        /\ curlen \in 0..(WordSize - 1)
    BY <2>2 DEF Init
  <2>. QED  BY <2>3, <2>4 DEF Init, TypeOK
<1>2. ClosedInv /\ CountInv /\ SendInv /\ WholeMessages
  BY DEF Init, ClosedInv, CountInv, SendInv, WholeMessages, SentWhole
<1>3. Stream = << >> /\ Len(Stream) = 0
  <2>1. << >> \in Seq(Byte)  BY EmptySeq
  <2>. QED  BY <2>1, ConcatEmptySeq, EmptySeq DEF Init, Stream
<1>4. StreamInv /\ AlignInv
  BY <1>3 DEF Init, StreamInv, AlignInv, Aligned, Framed, Later
<1>. QED  BY <1>1, <1>2, <1>4 DEF Inv

\* What a client was told stays as true as it was while it goes on receiving.
LEMMA SendingKept ==
    ASSUME SendInv, UNCHANGED sending, pc' \notin {"sendheader", "sendbody"}
    PROVE  SendInv'
BY DEF SendInv, SentWhole, sending

LEMMA StreamType ==
    ASSUME TypeOK
    PROVE  Stream \in Seq(Byte) /\ Len(Stream) = Len(buf) + Len(wire)
BY Joined DEF TypeOK, Stream

LEMMA DeviceSendsKeeps ==
    ASSUME PlistAssumption, Inv, DeviceSends
    PROVE  Inv'
<1>. DEFINE f == Frame(sent + 1)
<1>1. sent + 1 \in Message /\ sent \in Nat /\ wire \in Seq(Byte) /\ buf \in Seq(Byte)
  BY DEF Inv, TypeOK, DeviceSends, Message, PlistAssumption
<1>2. lens \in [Message -> Lengths]  BY DEF Inv, TypeOK
<1>3. f \in Seq(Byte) /\ IsFrame(f, lens, sent + 1)  BY <1>1, <1>2, FrameFacts
<1>. HIDE DEF f
<1>4. wire' = wire \o f /\ wire' \in Seq(Byte)
  BY <1>1, <1>3, Joined DEF DeviceSends, f
<1>5. Stream' = Stream \o f /\ Stream \in Seq(Byte)
  <2>1. (buf \o wire) \o f = buf \o (wire \o f)  BY <1>1, <1>3, ConcatAssociative
  <2>2. buf' = buf  BY DEF DeviceSends, receiving
  <2>3. Stream \in Seq(Byte)  BY StreamType DEF Inv
  <2>. QED  BY <2>1, <2>2, <2>3, <1>4 DEF Stream
<1>6. Len(f) > 0 /\ f[1].off = 0 /\ \A i \in 1..Len(f) : f[i].msg = sent + 1
  <2>1. Len(f) = HeaderLen + lens[sent + 1] /\ Len(f) > 0
    BY <1>1, <1>2, <1>3, LengthFacts DEF IsFrame
  <2>2. \A i \in 1..Len(f) : f[i] = [msg |-> sent + 1, off |-> i - 1]
    BY <1>3 DEF IsFrame
  <2>3. Len(f) \in Nat /\ 1 \in 1..Len(f)  BY <2>1, <1>3
  <2>4. f[1] = [msg |-> sent + 1, off |-> 1 - 1]  BY <2>2, <2>3
  <2>5. \A i \in 1..Len(f) : f[i].msg = sent + 1
    <3>. TAKE i \in 1..Len(f)
    <3>1. f[i] = [msg |-> sent + 1, off |-> i - 1]  BY <2>2
    <3>. QED  BY <3>1
  <2>6. f[1].off = 0  BY <2>4
  <2>. QED  BY <2>1, <2>5, <2>6
<1>7. TypeOK'
  <2>1. sent + 1 \in 0..MaxMessages  BY <1>1 DEF Message
  <2>. QED  BY <2>1, <1>4 DEF Inv, TypeOK, DeviceSends, receiving, sending
<1>8. ClosedInv' /\ CountInv'
  BY DEF Inv, ClosedInv, CountInv, DeviceSends, receiving
<1>9. WholeMessages'
  BY <1>1 DEF Inv, TypeOK, WholeMessages, DeviceSends
<1>10. SendInv'
  BY DEF Inv, SendInv, SentWhole, DeviceSends, sending
<1>11. ASSUME fd' = "open"
       PROVE  Framed(Stream', lens', sent') /\ Later(Stream', delivered')
  <2>1. /\ fd = "open" /\ lens' = lens /\ sent' = sent + 1 /\ delivered' = delivered
    BY <1>11 DEF DeviceSends
  <2>2. Framed(Stream, lens, sent) /\ Later(Stream, delivered)
    BY <2>1 DEF Inv, StreamInv
  <2>3. Framed(Stream \o f, lens, sent + 1)
    BY <2>2, <1>1, <1>2, <1>3, <1>5, FramedAppend
  <2>4. delivered \in Seq(0..sent)
    <3>1. \A i \in 1..Len(delivered) : delivered[i] \in 0..sent
      BY <2>1, <1>1 DEF Inv, WholeMessages, TypeOK
    <3>2. delivered \in [1..Len(delivered) -> 0..sent] /\ Len(delivered) \in Nat
      BY <3>1, LenProperties DEF Inv, TypeOK
    <3>. QED  BY <3>2, SeqDef
  <2>5. Later(Stream \o f, delivered)
    BY <2>2, <2>4, <1>1, <1>3, <1>5, <1>6, LaterAppend
  <2>. QED  BY <2>1, <2>3, <2>5, <1>5
<1>12. AlignInv'
  <2>. SUFFICES ASSUME fd' = "open", Kept'
                PROVE  Aligned'
    BY DEF AlignInv
  <2>1. /\ pc' = pc /\ pktlen' = pktlen /\ lens' = lens
        /\ fd = "open" /\ Kept
    BY DEF DeviceSends, receiving, Kept
  <2>2. Stream # << >> => Stream' # << >> /\ Stream'[1] = Stream[1]
    <3>1. Stream # << >> => 1 \in 1..Len(Stream)  BY <1>5, EmptySeq
    <3>2. Len(Stream') = Len(Stream) + Len(f) /\ \A i \in 1..Len(Stream) : Stream'[i] = Stream[i]
      BY <1>3, <1>5, Joined
    <3>. QED  BY <3>1, <3>2, <1>3, <1>5
  <2>3. Stream = << >> => Stream'[1].off = 0
    <3>1. Stream = << >> => Stream' = f  BY <1>3, <1>5, ConcatEmptySeq
    <3>. QED  BY <3>1, <1>6
  <2>. QED  BY <2>1, <2>2, <2>3 DEF Inv, AlignInv, Aligned
<1>. QED  BY <1>7, <1>8, <1>9, <1>10, <1>11, <1>12 DEF Inv, StreamInv

LEMMA DeviceEndsKeeps ==
    ASSUME Inv, DeviceEnds
    PROVE  Inv'
<1>1. TypeOK'  BY DEF Inv, TypeOK, DeviceEnds, receiving, sending
<1>2. ClosedInv' /\ CountInv' /\ StreamInv' /\ AlignInv'
  BY DEF Inv, ClosedInv, CountInv, StreamInv, AlignInv, Aligned, Kept, Stream, DeviceEnds, receiving
<1>3. WholeMessages'  BY DEF Inv, WholeMessages, DeviceEnds
<1>4. SendInv'  BY DEF Inv, SendInv, SentWhole, DeviceEnds, sending
<1>. QED  BY <1>1, <1>2, <1>3, <1>4 DEF Inv

LEMMA ReceiveKeeps ==
    ASSUME PlistAssumption, Inv, Receive
    PROVE  Inv'
<1>1. TypeOK'
  BY EmptySeq DEF Inv, TypeOK, Receive, sending, PlistAssumption
<1>2. fd = "open" => buf = << >> /\ buf' = << >> /\ Stream' = Stream
  BY DEF Inv, CountInv, Receive, Stream
<1>3. ClosedInv'  BY DEF Inv, ClosedInv, Receive
<1>4. CountInv'
  BY EmptySeq DEF CountInv, Receive, PlistAssumption
<1>5. StreamInv' /\ AlignInv'
  BY <1>2 DEF Inv, StreamInv, AlignInv, Aligned, Kept, Receive
<1>6. WholeMessages'  BY DEF Inv, WholeMessages, Receive
<1>7. SendInv'  BY SendingKept DEF Inv, Receive
<1>. QED  BY <1>1, <1>3, <1>4, <1>5, <1>6, <1>7 DEF Inv

-----------------------------------------------------------------------------
(* The reads.                                                              *)

\* The constants that the types of the reads rest on.
LEMMA Constants ==
    ASSUME PlistAssumption
    PROVE  /\ HeaderLen \in Nat \ {0} /\ Limit \in Nat \ {0}
           /\ WordSize \in Nat /\ Limit + HeaderLen < WordSize
BY DEF PlistAssumption

LEMMA Words ==
    ASSUME NEW x \in Nat, NEW w \in Nat \ {0}
    PROVE  x % w \in 0..(w - 1) /\ (x < w => x % w = x)
OBVIOUS

LEMMA ReturnTypes ==
    ASSUME PlistAssumption, TypeOK, NEW r \in Result, Return(r)
    PROVE  /\ pc' = "idle" /\ results' \subseteq Result /\ total' \in 0..(HeaderLen + Limit)
           /\ buf' \in Seq(Byte) /\ pktlen' \in 0..(Limit - 1) /\ curlen' \in 0..(WordSize - 1)
<1>1. << >> \in Seq(Byte)  BY EmptySeq
<1>. QED  BY <1>1, Constants DEF Return, TypeOK

\* Whatever the read brought, the variables of the receive keep their types.
LEMMA ReadEndsTypes ==
    ASSUME PlistAssumption, TypeOK, Reading, NEW b \in Seq(Byte), NEW bytes \in Nat,
           ReadEnds(b, bytes)
    PROVE  /\ pc' \in {"idle", "header", "body", "parse"}
           /\ results' \subseteq Result /\ total' \in 0..(HeaderLen + Limit)
           /\ buf' \in Seq(Byte) /\ pktlen' \in 0..(Limit - 1) /\ curlen' \in 0..(WordSize - 1)
<1>1. << >> \in Seq(Byte)  BY EmptySeq
<1>2. CASE pc = "header"
  <2>1. HeaderEnds(b, bytes)  BY <1>2 DEF ReadEnds
  <2>2. CASE \E r \in Result : Return(r)  BY <2>2, ReturnTypes
  <2>3. CASE \E n \in LengthsOf(b) : n < Limit /\ AwaitBody(n)
    <3>1. PICK n \in LengthsOf(b) : n < Limit /\ AwaitBody(n)  BY <2>3
    <3>2. n \in 0..(Limit - 1)
      <4>1. CASE b = << >> \/ b[1].off >= HeaderLen \/ ~(b[1].off = 0 /\ Len(b) = HeaderLen)
        BY <4>1, <3>1, Constants DEF LengthsOf
      <4>2. CASE b # << >> /\ ~(b[1].off >= HeaderLen) /\ b[1].off = 0 /\ Len(b) = HeaderLen
        <5>1. b[1] \in Byte  BY <4>2, Constants, ElementOfSeq
        <5>2. lens[b[1].msg] \in 1..(Limit - 1)  BY <5>1, ByteFacts, LengthFacts DEF TypeOK
        <5>3. n = lens[b[1].msg]  BY <4>2, <3>1 DEF LengthsOf
        <5>. QED  BY <5>2, <5>3
      <4>. QED  BY <4>1, <4>2
    <3>. QED  BY <3>1, <3>2, <1>1, Constants DEF AwaitBody, TypeOK
  <2>. QED  BY <2>1, <2>2, <2>3 DEF HeaderEnds, Result
<1>3. CASE pc = "body"
  <2>1. BodyEnds(b, bytes)  BY <1>3 DEF ReadEnds
  <2>2. CASE bytes = 0  BY <2>1, <2>2, ReturnTypes DEF BodyEnds, Result
  <2>3. CASE bytes # 0
    <3>1. curlen + bytes \in Nat /\ WordSize \in Nat \ {0}  BY Constants DEF TypeOK
    <3>2. (curlen + bytes) % WordSize \in 0..(WordSize - 1)  BY <3>1, Words
    <3>3. 0 \in 0..(HeaderLen + Limit)  BY Constants
    <3>. QED  BY <2>1, <2>3, <3>2, <3>3 DEF BodyEnds, TypeOK
  <2>. QED  BY <2>2, <2>3
<1>. QED  BY <1>2, <1>3 DEF Reading

\* Where a message begins its whole header follows, and then its body.
LEMMA HeaderFacts ==
    ASSUME PlistAssumption, NEW l \in [Message -> Lengths], NEW n \in Nat,
           NEW s \in Seq(Byte), Framed(s, l, n), s # << >>, s[1].off = 0
    PROVE  /\ HeaderLen + 1 <= Len(s)
           /\ s[HeaderLen + 1].msg = s[1].msg /\ s[HeaderLen + 1].off = HeaderLen
<1>1. 1 \in 1..Len(s)  BY EmptySeq
<1>2. s[1] \in Byte  BY <1>1, ElementOfSeq
<1>3. FramedAt(s, l, 1)  BY <1>1 DEF Framed
<1>4. HeaderLen \in 0..(Left(s[1], l) - 1)  BY <1>2, ByteFacts, Constants DEF Left
<1>5. /\ 1 + HeaderLen <= Len(s) /\ s[1 + HeaderLen].msg = s[1].msg
      /\ s[1 + HeaderLen].off = s[1].off + HeaderLen
  BY <1>3, <1>4 DEF FramedAt
<1>6. 1 + HeaderLen = HeaderLen + 1 /\ 0 + HeaderLen = HeaderLen  BY Constants
<1>. QED  BY <1>5, <1>6

\* The end of a read leaves the stream as the device sent it, and the client in step,
\* when the bytes b are those that were taken from the wire.
LEMMA ReadEndsKeeps ==
    ASSUME PlistAssumption, Inv, Reading, fd = "open",
           NEW b \in Seq(Byte), NEW bytes \in Nat,
           Len(b) = curlen + bytes, bytes <= Asked,
           wire' \in Seq(Byte), b \o wire' = Stream,
           ReadEnds(b, bytes), UNCHANGED <<lens, sent, delivered>>
    PROVE  CountInv' /\ StreamInv' /\ AlignInv'
<1>1. /\ Stream \in Seq(Byte) /\ Len(Stream) = Len(b) + Len(wire') /\ lens \in [Message -> Lengths]
      /\ sent \in Nat /\ Len(b) \in Nat
  <2>1. Stream \in Seq(Byte)  BY StreamType DEF Inv
  <2>2. Len(b \o wire') = Len(b) + Len(wire')  BY Joined
  <2>. QED  BY <2>1, <2>2 DEF Inv, TypeOK
<1>2. Framed(Stream, lens, sent) /\ Later(Stream, delivered)  BY DEF Inv, StreamInv
<1>3. Framed(wire', lens, sent) /\ Later(wire', delivered)
  <2>1. Len(b) \in 0..Len(Stream) /\ wire' = SubSeq(Stream, Len(b) + 1, Len(Stream))
    BY GivenUp
  <2>2. /\ Framed(SubSeq(Stream, Len(b) + 1, Len(Stream)), lens, sent)
        /\ Later(SubSeq(Stream, Len(b) + 1, Len(Stream)), delivered)
    BY <1>1, <1>2, <2>1, FramedDrop, LaterDrop
  <2>. QED  BY <2>1, <2>2
<1>4. ASSUME buf' = << >> PROVE Stream' = wire' /\ StreamInv' /\ Len(buf') = 0
  <2>1. Stream' = wire'  BY <1>4, GivenUp DEF Stream
  <2>. QED  BY <2>1, <1>3, <1>4, EmptySeq DEF StreamInv
<1>5. ASSUME buf' = b PROVE Stream' = Stream /\ StreamInv'
  <2>1. Stream' = Stream  BY <1>5 DEF Stream
  <2>. QED  BY <2>1, <1>2 DEF StreamInv
\* After an error the client is not asked to be in step.
<1>6. ASSUME NEW r \in Result, Return(r), r = "RECEIVE_TIMEOUT" => b = << >> /\ pc = "header",
             r # "SUCCESS"
      PROVE  CountInv' /\ StreamInv' /\ AlignInv'
  <2>1. buf' = << >> /\ pc' = "idle" /\ results' = results \cup {r}  BY <1>6 DEF Return
  <2>2. CountInv'  BY <2>1 DEF CountInv
  <2>3. CASE r = "RECEIVE_TIMEOUT"
    <3>1. Stream' = Stream  BY <2>1, <2>3, <1>4, <1>5, <1>6
    <3>2. Kept' => Kept  BY <2>1 DEF Kept
    <3>3. Kept' => Aligned'
      BY <2>1, <2>3, <3>1, <3>2, <1>6 DEF Inv, AlignInv, Aligned
    <3>. QED  BY <3>3, <2>1, <2>2, <1>4 DEF AlignInv
  <2>4. CASE r # "RECEIVE_TIMEOUT"
    <3>1. ~Kept'  BY <2>1, <2>4, <1>6 DEF Kept
    <3>. QED  BY <3>1, <2>1, <2>2, <1>4 DEF AlignInv
  <2>. QED  BY <2>3, <2>4
<1>7. CASE pc = "header"
  <2>1. HeaderEnds(b, bytes) /\ curlen = 0 /\ Asked = HeaderLen /\ Len(b) = bytes
    BY <1>7 DEF ReadEnds, Asked, Inv, CountInv
  <2>2. CASE bytes = 0
    <3>1. b = << >>  BY <2>1, <2>2, EmptySeq
    <3>. QED  BY <2>1, <2>2, <3>1, <1>6, <1>7 DEF HeaderEnds, Result
  <2>3. CASE bytes # 0 /\ bytes < HeaderLen
    BY <2>1, <2>3, <1>6 DEF HeaderEnds, Result
  <2>4. CASE bytes # 0 /\ ~(bytes < HeaderLen)
    <3>1. bytes = HeaderLen /\ b # << >>  BY <2>1, <2>4, Constants, EmptySeq
    <3>2. PICK n \in LengthsOf(b) : IF n < Limit THEN AwaitBody(n) ELSE Return("UNKNOWN_ERROR")
      BY <2>1, <2>4 DEF HeaderEnds
    <3>3. CASE n < Limit
      <4>1. /\ pc' = (IF n = 0 THEN "parse" ELSE "body") /\ pktlen' = n /\ total' = 0
            /\ buf' = << >> /\ curlen' = 0 /\ results' = results
        BY <3>2, <3>3, <2>1 DEF AwaitBody
      <4>2. n \in Nat
        BY <4>1, <3>3, ReadEndsTypes DEF Inv
      <4>3. Stream' = wire' /\ StreamInv' /\ Len(buf') = 0  BY <4>1, <1>4
      <4>4. CountInv'  BY <4>1, <4>2, <4>3 DEF CountInv
      <4>5. ASSUME Kept' PROVE Aligned'
        <5>1. Stream # << >> /\ 1 \in 1..Len(b) /\ Stream[1] = b[1]
          <6>1. 1 \in 1..Len(b)  BY <3>1, <2>1, Constants
          <6>2. Stream[1] = b[1]  BY <6>1, Joined
          <6>3. Len(Stream) > 0  BY <6>1, <1>1
          <6>. QED  BY <6>1, <6>2, <6>3, EmptySeq
        <5>2. Stream[1].off = 0
          BY <4>1, <4>5, <5>1, <1>7 DEF Inv, AlignInv, Aligned, Kept
        <5>3. n = lens[b[1].msg]
          BY <5>1, <5>2, <3>1, <3>2, <2>1, Constants DEF LengthsOf
        <5>4. /\ HeaderLen + 1 <= Len(Stream)
              /\ Stream[HeaderLen + 1].msg = Stream[1].msg
              /\ Stream[HeaderLen + 1].off = HeaderLen
          BY <1>1, <1>2, <5>1, <5>2, HeaderFacts
        <5>5. Len(wire') >= 1 /\ wire'[1] = Stream[HeaderLen + 1]
          <6>1. Len(wire') >= 1  BY <5>4, <1>1, <2>1, <3>1, Constants
          <6>2. 1 \in 1..Len(wire')  BY <6>1
          <6>3. Stream[Len(b) + 1] = wire'[1]  BY <6>2, Joined
          <6>. QED  BY <6>1, <6>3, <2>1, <3>1
        <5>6. wire' # << >>  BY <5>5, EmptySeq
        <5>7. pc' \in {"body", "parse"}  BY <4>1
        <5>. QED
          BY <5>1, <5>3, <5>4, <5>5, <5>6, <5>7, <4>1, <4>3 DEF Aligned
      <4>. QED  BY <4>3, <4>4, <4>5 DEF AlignInv
    <3>4. CASE ~(n < Limit)
      BY <3>2, <3>4, <1>6 DEF Result
    <3>. QED  BY <3>3, <3>4
  <2>. QED  BY <2>2, <2>3, <2>4
<1>8. CASE pc = "body"
  <2>1. /\ BodyEnds(b, bytes) /\ Asked = pktlen - curlen /\ curlen + bytes <= pktlen
        /\ pktlen \in 0..(Limit - 1) /\ curlen \in Nat
    BY <1>8 DEF ReadEnds, Asked, Inv, TypeOK
  <2>2. CASE bytes = 0
    BY <2>1, <2>2, <1>6 DEF BodyEnds, Result
  <2>3. CASE bytes # 0
    <3>1. (curlen + bytes) % WordSize = curlen + bytes
      <4>1. /\ curlen + bytes \in Nat /\ curlen + bytes < WordSize
            /\ WordSize \in Nat \ {0}
        BY <2>1, Constants
      <4>. QED  BY <4>1, Words
    <3>2. /\ curlen' = curlen + bytes /\ total' = 0 /\ buf' = b /\ pktlen' = pktlen
          /\ pc' = (IF curlen + bytes < pktlen THEN "body" ELSE "parse") /\ results' = results
      BY <2>1, <2>3, <3>1 DEF BodyEnds
    <3>3. Stream' = Stream /\ StreamInv'  BY <3>2, <1>5
    <3>4. CountInv'  BY <3>2, <2>1 DEF CountInv
    <3>5. AlignInv'
      BY <3>2, <3>3, <1>8 DEF Inv, AlignInv, Aligned, Kept
    <3>. QED  BY <3>3, <3>4, <3>5
  <2>. QED  BY <2>2, <2>3
<1>. QED  BY <1>7, <1>8 DEF Reading

\* The variables of the receive as the steps of a read leave them.
ReadTypes ==
    /\ wire \in Seq(Byte) /\ stalls \in 0..MaxStalls /\ fd \in {"open", "closed"}
    /\ pc \in {"idle", "header", "body", "parse"}
    /\ results \subseteq Result /\ total \in 0..(HeaderLen + Limit)
    /\ buf \in Seq(Byte) /\ pktlen \in 0..(Limit - 1) /\ curlen \in 0..(WordSize - 1)

LEMMA ReadKeeps ==
    ASSUME Inv, UNCHANGED <<ssl, lens, sent, ended, parsed, delivered, sending>>,
           fd' = "open" => fd = "open",
           ReadTypes', ClosedInv', CountInv', StreamInv', AlignInv'
    PROVE  Inv'
<1>1. TypeOK'  BY DEF Inv, TypeOK, ReadTypes, sending
<1>2. WholeMessages'  BY DEF Inv, WholeMessages
<1>3. SendInv'  BY SendingKept DEF Inv, ReadTypes
<1>. QED  BY <1>1, <1>2, <1>3 DEF Inv

LEMMA RecvKeeps ==
    ASSUME PlistAssumption, Inv, NEW n \in Nat \ {0}, Recv(n)
    PROVE  Inv'
<1>. DEFINE b == buf \o SubSeq(wire, 1, n)
<1>1. /\ Reading /\ fd = "open" /\ n \in 0..Len(wire) /\ n <= Asked - total
      /\ wire' = SubSeq(wire, n + 1, Len(wire))
      /\ lens' = lens /\ sent' = sent /\ fd' = fd /\ ssl' = ssl /\ ended' = ended
      /\ stalls' = stalls /\ parsed' = parsed /\ delivered' = delivered
  BY DEF Recv, Inv, TypeOK
<1>2. buf \in Seq(Byte) /\ wire \in Seq(Byte) /\ total \in Nat /\ curlen \in Nat /\ pktlen \in Nat
  BY DEF Inv, TypeOK
<1>3. wire' \in Seq(Byte) /\ b \in Seq(Byte) /\ Len(b) = Len(buf) + n /\ b \o wire' = Stream
  <2>1. SubSeq(wire, 1, n) \in Seq(Byte) /\ Len(SubSeq(wire, 1, n)) = n  BY <1>1, <1>2, Take
  <2>2. wire' \in Seq(Byte)  BY <1>1, <1>2, Drop
  <2>3. b \in Seq(Byte) /\ Len(b) = Len(buf) + n  BY <2>1, <1>2, Joined
  <2>4. b \o wire' = Stream  BY <1>1, <1>2, Moved DEF Stream
  <2>. QED  BY <2>2, <2>3, <2>4
<1>. HIDE DEF b
<1>4. ClosedInv' /\ UNCHANGED <<ssl, lens, sent, ended, parsed, delivered, sending>>
  BY DEF Recv, ClosedInv
<1>5. Len(b) = curlen + (total + n)
  <2>1. Len(buf) = curlen + total
    BY <1>1, <1>2 DEF Reading, Inv, CountInv
  <2>. QED  BY <2>1, <1>1, <1>2, <1>3
<1>6. CASE total + n < Asked
  <2>1. /\ total' = total + n /\ buf' = b
        /\ pc' = pc /\ pktlen' = pktlen /\ curlen' = curlen /\ results' = results
    BY <1>6 DEF Recv, b
  <2>2. total' \in 0..(HeaderLen + Limit) /\ buf' \in Seq(Byte)
    <3>1. pktlen <= Limit  BY Constants DEF Inv, TypeOK
    <3>2. Asked <= HeaderLen + Limit  BY <3>1, <1>2, Constants DEF Asked
    <3>3. Asked \in Int  BY <1>2, Constants DEF Asked
    <3>4. total + n \in 0..(HeaderLen + Limit)  BY <3>2, <3>3, <1>1, <1>2, <1>6, Constants
    <3>. QED  BY <2>1, <3>4, <1>3
  <2>3. Stream' = Stream  BY <2>1, <1>3 DEF Stream
  <2>4. CountInv'
    BY <2>1, <1>1, <1>2, <1>5, <1>6 DEF CountInv, Inv, Asked, Reading
  <2>5. StreamInv' /\ AlignInv'
    BY <2>1, <2>3, <1>1 DEF Inv, StreamInv, AlignInv, Aligned, Kept
  <2>6. ReadTypes'
    BY <2>1, <2>2, <1>1, <1>3 DEF ReadTypes, Reading, Inv, TypeOK
  <2>. QED  BY <2>4, <2>5, <2>6, <1>1, <1>4, ReadKeeps
<1>7. CASE ~(total + n < Asked)
  <2>1. ReadEnds(b, total + n)  BY <1>7 DEF Recv, b
  <2>2. total + n \in Nat /\ total + n <= Asked
    BY <1>1, <1>2, Constants DEF Asked
  <2>3. CountInv' /\ StreamInv' /\ AlignInv'
    BY <2>1, <2>2, <1>1, <1>3, <1>5, ReadEndsKeeps
  <2>4. ReadTypes'
    <3>1. TypeOK  BY DEF Inv
    <3>2. /\ pc' \in {"idle", "header", "body", "parse"}
          /\ results' \subseteq Result /\ total' \in 0..(HeaderLen + Limit)
          /\ buf' \in Seq(Byte) /\ pktlen' \in 0..(Limit - 1) /\ curlen' \in 0..(WordSize - 1)
      BY <2>1, <2>2, <3>1, <1>1, <1>3, ReadEndsTypes
    <3>. QED  BY <3>1, <3>2, <1>1, <1>3 DEF ReadTypes, TypeOK
  <2>. QED  BY <2>3, <2>4, <1>1, <1>4, ReadKeeps
<1>. QED  BY <1>6, <1>7

LEMMA RecvTimesOutKeeps ==
    ASSUME PlistAssumption, Inv, RecvTimesOut
    PROVE  Inv'
<1>1. /\ Reading /\ fd = "open" /\ ReadEnds(buf, total)
      /\ UNCHANGED <<ssl, lens, sent, wire, ended, fd, parsed, delivered, sending>>
  BY DEF RecvTimesOut
<1>2. /\ buf \in Seq(Byte) /\ wire \in Seq(Byte) /\ total \in Nat /\ curlen \in Nat
      /\ pktlen \in Nat /\ TypeOK
  BY DEF Inv, TypeOK
<1>3. stalls' \in 0..MaxStalls
  <2>1. MaxStalls \in Nat /\ stalls \in 0..MaxStalls  BY DEF PlistAssumption, Inv, TypeOK
  <2>. QED  BY <2>1 DEF RecvTimesOut
<1>4. Len(buf) = curlen + total /\ total <= Asked
  BY <1>1, <1>2, Constants DEF Reading, Inv, CountInv, Asked
<1>5. buf \o wire' = Stream  BY <1>1 DEF Stream
<1>6. CountInv' /\ StreamInv' /\ AlignInv'
  BY <1>1, <1>2, <1>4, <1>5, ReadEndsKeeps
<1>7. ReadTypes'
  <2>1. /\ pc' \in {"idle", "header", "body", "parse"}
        /\ results' \subseteq Result /\ total' \in 0..(HeaderLen + Limit)
        /\ buf' \in Seq(Byte) /\ pktlen' \in 0..(Limit - 1) /\ curlen' \in 0..(WordSize - 1)
    BY <1>1, <1>2, ReadEndsTypes
  <2>. QED  BY <2>1, <1>1, <1>2, <1>3 DEF ReadTypes
<1>8. ClosedInv'  BY <1>1 DEF ClosedInv
<1>. QED  BY <1>1, <1>6, <1>7, <1>8, ReadKeeps

\* Without SSL the descriptor is closed from here on, and nothing is promised of what
\* the client receives.
LEMMA RecvFailsKeeps ==
    ASSUME PlistAssumption, Inv, RecvFails
    PROVE  Inv'
<1>. DEFINE bytes == IF ssl THEN total ELSE WordSize - 1
<1>1. /\ Reading /\ ReadEnds(buf, bytes) /\ fd' = IF ssl THEN fd ELSE "closed"
      /\ UNCHANGED <<ssl, lens, sent, wire, ended, stalls, parsed, delivered, sending>>
  BY DEF RecvFails
<1>2. /\ buf \in Seq(Byte) /\ wire \in Seq(Byte) /\ total \in Nat /\ curlen \in Nat
      /\ pktlen \in Nat /\ ssl \in BOOLEAN /\ TypeOK
  BY DEF Inv, TypeOK
<1>3. bytes \in Nat  BY <1>2, Constants
<1>4. ended /\ wire = << >>  BY DEF RecvFails, Inv, ClosedInv
<1>5. ReadTypes'
  <2>1. /\ pc' \in {"idle", "header", "body", "parse"}
        /\ results' \subseteq Result /\ total' \in 0..(HeaderLen + Limit)
        /\ buf' \in Seq(Byte) /\ pktlen' \in 0..(Limit - 1) /\ curlen' \in 0..(WordSize - 1)
    BY <1>1, <1>2, <1>3, ReadEndsTypes
  <2>. QED  BY <2>1, <1>1, <1>2 DEF ReadTypes, TypeOK
<1>6. CASE ssl
  <2>1. fd = "open" /\ fd' = "open" /\ bytes = total
    BY <1>1, <1>2, <1>6 DEF Inv, ClosedInv, TypeOK
  <2>2. Len(buf) = curlen + total /\ total <= Asked
    BY <1>1, <1>2, <2>1, Constants DEF Reading, Inv, CountInv, Asked
  <2>3. buf \o wire' = Stream /\ wire' \in Seq(Byte)  BY <1>1, <1>2 DEF Stream
  <2>4. CountInv' /\ StreamInv' /\ AlignInv'
    BY <1>1, <1>2, <2>1, <2>2, <2>3, ReadEndsKeeps
  <2>5. ClosedInv'  BY <2>1 DEF ClosedInv
  <2>. QED  BY <1>1, <1>5, <2>1, <2>4, <2>5, ReadKeeps
<1>7. CASE ~ssl
  <2>1. fd' = "closed"  BY <1>1, <1>7
  <2>2. CountInv' /\ StreamInv' /\ AlignInv'
    BY <2>1 DEF CountInv, StreamInv, AlignInv
  <2>3. ClosedInv'  BY <1>1, <1>4, <1>7 DEF ClosedInv
  <2>. QED  BY <1>1, <1>5, <2>1, <2>2, <2>3, ReadKeeps
<1>. QED  BY <1>6, <1>7

-----------------------------------------------------------------------------
(* What is received is parsed.                                             *)

\* A whole body is that of the first message of the stream; the next one follows.
LEMMA WholeFacts ==
    ASSUME PlistAssumption, Inv, pc = "parse", fd = "open", NEW m \in Message, Whole(m)
    PROVE  /\ m <= sent /\ \A k \in 1..Len(delivered) : delivered[k] < m
           /\ \A j \in 1..Len(wire) : wire[j].msg > m
           /\ wire = << >> \/ wire[1].off = 0
<1>1. /\ buf \in Seq(Byte) /\ wire \in Seq(Byte) /\ lens \in [Message -> Lengths]
      /\ TypeOK
  BY DEF Inv, TypeOK
<1>2. /\ lens[m] \in 1..(Limit - 1) /\ Len(buf) = lens[m] /\ pktlen = lens[m]
      /\ buf[1] = [msg |-> m, off |-> HeaderLen]
  BY <1>1, BodyFacts DEF Whole
<1>3. Framed(Stream, lens, sent) /\ Later(Stream, delivered)  BY DEF Inv, StreamInv
<1>4. /\ Stream \in Seq(Byte) /\ Len(Stream) = Len(buf) + Len(wire)
      /\ \A i \in 1..Len(buf) : Stream[i] = buf[i]
      /\ \A i \in 1..Len(wire) : Stream[Len(buf) + i] = wire[i]
  BY <1>1, Joined DEF Stream
<1>5. 1 \in 1..Len(buf) /\ 1 \in 1..Len(Stream) /\ Len(wire) \in Nat  BY <1>1, <1>2, <1>4
<1>6. Stream[1] = [msg |-> m, off |-> HeaderLen]  BY <1>2, <1>4, <1>5
<1>7. Left(Stream[1], lens) = Len(buf)
  <2>1. HeaderLen \in Nat  BY Constants
  <2>. QED  BY <2>1, <1>2, <1>6 DEF Left
<1>8. /\ Stream[1].msg <= sent
      /\ 1 + Len(buf) <= Len(Stream) => Stream[1 + Len(buf)].off = 0
      /\ \A j \in (1 + Len(buf))..Len(Stream) : Stream[j].msg > Stream[1].msg
  BY <1>3, <1>5, <1>7 DEF Framed, FramedAt
<1>9. \A k \in 1..Len(delivered) : delivered[k] < m  BY <1>3, <1>5, <1>6 DEF Later
<1>10. \A j \in 1..Len(wire) : wire[j].msg > m
  <2>. TAKE j \in 1..Len(wire)
  <2>1. Len(buf) + j \in (1 + Len(buf))..Len(Stream)  BY <1>2, <1>4, <1>5
  <2>. QED  BY <2>1, <1>4, <1>6, <1>8
<1>11. ASSUME wire # << >> PROVE wire[1].off = 0
  <2>1. 1 \in 1..Len(wire)  BY <1>1, <1>11, EmptySeq
  <2>2. wire[1] = Stream[Len(buf) + 1] /\ Len(buf) + 1 = 1 + Len(buf)
        /\ 1 + Len(buf) <= Len(Stream)
    BY <2>1, <1>2, <1>4, <1>5
  <2>. QED  BY <2>2, <1>8
<1>. QED  BY <1>6, <1>8, <1>9, <1>10, <1>11

LEMMA ParseKeeps ==
    ASSUME PlistAssumption, Inv, Parse
    PROVE  Inv'
<1>1. /\ pc = "parse" /\ parsed' = parsed \cup {pktlen}
      /\ UNCHANGED <<ssl, lens, sent, wire, ended, fd, stalls, sending>>
  BY DEF Parse
<1>2. PICK r \in {"SUCCESS", "PLIST_ERROR"} :
          /\ Return(r)
          /\ \/ r = "SUCCESS" /\ \E m \in Message : Whole(m) /\ delivered' = Append(delivered, m)
             \/ r = "SUCCESS" /\ Mixed /\ delivered' = Append(delivered, 0)
             \/ r = "PLIST_ERROR" /\ delivered' = delivered
  BY DEF Parse
<1>3. /\ buf \in Seq(Byte) /\ wire \in Seq(Byte) /\ lens \in [Message -> Lengths]
      /\ delivered \in Seq(Message \cup {0}) /\ pktlen \in 0..(Limit - 1) /\ TypeOK
  BY DEF Inv, TypeOK
<1>4. /\ pc' = "idle" /\ results' = results \cup {r} /\ buf' = << >>
  BY <1>2 DEF Return
<1>5. TypeOK'
  <2>1. r \in Result  BY DEF Result
  <2>2. /\ pc' = "idle" /\ results' \subseteq Result /\ total' \in 0..(HeaderLen + Limit)
        /\ buf' \in Seq(Byte) /\ pktlen' \in 0..(Limit - 1) /\ curlen' \in 0..(WordSize - 1)
    BY <2>1, <1>2, <1>3, ReturnTypes
  <2>3. delivered' \in Seq(Message \cup {0})
    <3>1. \A m \in Message \cup {0} : Append(delivered, m) \in Seq(Message \cup {0})
      BY <1>3, AppendProperties
    <3>. QED  BY <3>1, <1>2, <1>3
  <2>. QED  BY <2>2, <2>3, <1>1, <1>3 DEF TypeOK, sending
<1>6. ClosedInv'  BY <1>1 DEF Inv, ClosedInv
<1>7. CountInv'  BY <1>4 DEF CountInv
<1>8. SendInv'  BY <1>1, <1>4, SendingKept DEF Inv
<1>9. Stream' = wire  BY <1>1, <1>3, <1>4, GivenUp DEF Stream
<1>10. ASSUME fd = "open"
       PROVE  Framed(wire, lens, sent) /\ Later(wire, delivered)
  <2>1. Stream \in Seq(Byte)  BY <1>3, StreamType
  <2>2. Framed(Stream, lens, sent) /\ Later(Stream, delivered)
    BY <1>10 DEF Inv, StreamInv
  <2>3. Len(buf) \in 0..Len(Stream) /\ wire = SubSeq(Stream, Len(buf) + 1, Len(Stream))
    BY <1>3, GivenUp DEF Stream
  <2>4. sent \in Nat  BY DEF Inv, TypeOK
  <2>5. /\ Framed(SubSeq(Stream, Len(buf) + 1, Len(Stream)), lens, sent)
        /\ Later(SubSeq(Stream, Len(buf) + 1, Len(Stream)), delivered)
    BY <2>1, <2>2, <2>3, <2>4, <1>3, FramedDrop, LaterDrop
  <2>. QED  BY <2>3, <2>5
<1>11. CASE \E m \in Message : r = "SUCCESS" /\ Whole(m) /\ delivered' = Append(delivered, m)
  <2>1. PICK m \in Message : Whole(m) /\ delivered' = Append(delivered, m)  BY <1>11
  <2>2. /\ Len(delivered') = Len(delivered) + 1 /\ delivered'[Len(delivered) + 1] = m
        /\ \A k \in 1..Len(delivered) : delivered'[k] = delivered[k]
        /\ Len(delivered) \in Nat /\ m \in Nat /\ m >= 1
    BY <2>1, <1>3, AppendProperties DEF Message
  <2>3. ASSUME fd = "open"
        PROVE  WholeMessages' /\ StreamInv' /\ AlignInv'
    <3>1. /\ m <= sent /\ \A k \in 1..Len(delivered) : delivered[k] < m
          /\ \A j \in 1..Len(wire) : wire[j].msg > m
          /\ wire = << >> \/ wire[1].off = 0
      BY <2>1, <2>3, <1>1, WholeFacts
    <3>2. /\ \A i \in DOMAIN delivered : delivered[i] \in 1..sent
          /\ \A i, j \in DOMAIN delivered : i < j => delivered[i] < delivered[j]
      BY <2>3 DEF Inv, WholeMessages
    <3>3. DOMAIN delivered = 1..Len(delivered) /\ DOMAIN delivered' = 1..(Len(delivered) + 1)
      BY <2>2, <1>3, <1>5 DEF TypeOK
    <3>4. \A i \in DOMAIN delivered' : delivered'[i] \in 1..sent'
      <4>1. sent' = sent /\ sent \in Nat  BY <1>1, <1>3 DEF TypeOK
      <4>2. m \in 1..sent  BY <4>1, <3>1, <2>2
      <4>. TAKE i \in DOMAIN delivered'
      <4>3. i \in 1..Len(delivered) \/ i = Len(delivered) + 1  BY <3>3, <2>2
      <4>. QED  BY <4>1, <4>2, <4>3, <3>2, <3>3, <2>2
    <3>5. \A i, j \in DOMAIN delivered' : i < j => delivered'[i] < delivered'[j]
      BY <3>1, <3>2, <3>3, <2>2
    <3>6. Later(wire, delivered')
      <4>. SUFFICES ASSUME NEW i \in 1..Len(wire), NEW k \in 1..Len(delivered')
                    PROVE  delivered'[k] < wire[i].msg
        BY DEF Later
      <4>1. CASE k \in 1..Len(delivered)
        BY <4>1, <1>10, <2>2, <2>3 DEF Later
      <4>2. CASE k = Len(delivered) + 1
        <5>1. wire[i] \in Byte  BY <1>3, ElementOfSeq
        <5>2. wire[i].msg \in Nat  BY <5>1 DEF Byte, Message
        <5>. QED  BY <4>2, <5>2, <3>1, <2>2
      <4>. QED  BY <4>1, <4>2, <2>2
    <3>7. StreamInv'  BY <3>6, <1>1, <1>9, <1>10, <2>3 DEF StreamInv
    <3>8. AlignInv'  BY <3>1, <1>4, <1>9 DEF AlignInv, Aligned
    <3>. QED  BY <3>4, <3>5, <3>7, <3>8 DEF WholeMessages
  <2>4. ASSUME fd # "open"
        PROVE  WholeMessages' /\ StreamInv' /\ AlignInv'
    <3>1. ~ssl' /\ fd' # "open"  BY <2>4, <1>1, <1>3 DEF Inv, ClosedInv, TypeOK
    <3>. QED  BY <3>1 DEF WholeMessages, StreamInv, AlignInv
  <2>. QED  BY <2>3, <2>4, <1>5, <1>6, <1>7, <1>8 DEF Inv
\* While the descriptor is open all of the bytes are there.
<1>12. CASE r = "SUCCESS" /\ Mixed /\ delivered' = Append(delivered, 0)
  <2>1. fd # "open"
    <3>1. Len(buf) < pktlen  BY <1>12 DEF Mixed
    <3>2. Len(buf) \in Nat /\ pktlen \in Nat  BY <1>3
    <3>. QED  BY <3>1, <3>2, <1>1 DEF Inv, CountInv
  <2>2. ~ssl' /\ fd' # "open"  BY <2>1, <1>1, <1>3 DEF Inv, ClosedInv, TypeOK
  <2>3. WholeMessages' /\ StreamInv' /\ AlignInv'
    BY <2>2 DEF WholeMessages, StreamInv, AlignInv
  <2>. QED  BY <2>3, <1>5, <1>6, <1>7, <1>8 DEF Inv
<1>13. CASE r = "PLIST_ERROR" /\ delivered' = delivered
  <2>1. WholeMessages'  BY <1>1, <1>13 DEF Inv, WholeMessages
  <2>2. StreamInv'  BY <1>1, <1>9, <1>10, <1>13 DEF StreamInv
  <2>3. AlignInv'  BY <1>4, <1>13 DEF AlignInv, Kept
  <2>. QED  BY <2>1, <2>2, <2>3, <1>5, <1>6, <1>7, <1>8 DEF Inv
<1>. QED  BY <1>2, <1>11, <1>12, <1>13

-----------------------------------------------------------------------------
(* What is sent.                                                           *)

\* The steps of a send leave what is received alone.
LEMMA SendKeeps ==
    ASSUME Inv, UNCHANGED <<ssl, lens, sent, wire, ended, fd, stalls, receiving, parsed,
                            results, delivered>>,
           pc \in {"idle", "sendheader", "sendbody"},
           pc' \in {"idle", "sendheader", "sendbody"},
           asks' \in 0..MaxSends /\ oks' \subseteq 1..asks',
           out' \in Seq([ask : 1..MaxSends, part : {"header", "body"}, all : BOOLEAN]),
           SendInv'
    PROVE  Inv'
<1>1. TypeOK'  BY DEF Inv, TypeOK, receiving
<1>2. ClosedInv' /\ CountInv' /\ StreamInv' /\ AlignInv'
  BY DEF Inv, ClosedInv, CountInv, StreamInv, AlignInv, Aligned, Kept, Stream, receiving
<1>3. WholeMessages'  BY DEF Inv, WholeMessages
<1>. QED  BY <1>1, <1>2, <1>3 DEF Inv

LEMMA SendStarts ==
    ASSUME PlistAssumption, Inv, Send
    PROVE  Inv'
<1>1. /\ asks \in 0..MaxSends /\ oks \subseteq 1..asks /\ MaxSends \in Nat
      /\ out \in Seq([ask : 1..MaxSends, part : {"header", "body"}, all : BOOLEAN])
  BY DEF Inv, TypeOK, PlistAssumption
<1>2. asks' \in 0..MaxSends /\ oks' \subseteq 1..asks' /\ asks' > 0
  BY <1>1 DEF Send
<1>3. SendInv'  BY <1>2 DEF Inv, SendInv, SentWhole, Send
<1>. QED  BY <1>1, <1>2, <1>3, SendKeeps DEF Send

\* What was sent before stays where it is.
LEMMA SentWholeKept ==
    ASSUME SentWhole, NEW S, out \in Seq(S), NEW x \in S, out' = Append(out, x), oks' = oks
    PROVE  SentWhole'
<1>1. Len(out') = Len(out) + 1 /\ \A i \in 1..Len(out) : out'[i] = out[i]
  BY AppendProperties
<1>2. DOMAIN out = 1..Len(out) /\ Len(out) \in Nat  BY LenProperties
<1>3. out' \in Seq(S)  BY AppendProperties
<1>4. DOMAIN out' = 1..(Len(out) + 1)  BY <1>1, <1>3, LenProperties
<1>. SUFFICES ASSUME NEW a \in oks
              PROVE  \E i \in DOMAIN out' :
                        /\ i > 1
                        /\ out'[i] = [ask |-> a, part |-> "body", all |-> TRUE]
                        /\ out'[i - 1] = [ask |-> a, part |-> "header", all |-> TRUE]
  BY DEF SentWhole
<1>5. PICK i \in DOMAIN out :
          /\ i > 1
          /\ out[i] = [ask |-> a, part |-> "body", all |-> TRUE]
          /\ out[i - 1] = [ask |-> a, part |-> "header", all |-> TRUE]
  BY DEF SentWhole
<1>6. /\ i \in DOMAIN out' /\ i - 1 \in 1..Len(out)
      /\ out'[i] = out[i] /\ out'[i - 1] = out[i - 1]
  BY <1>1, <1>2, <1>4, <1>5
<1>. QED  BY <1>5, <1>6

LEMMA SendHeaderKeeps ==
    ASSUME PlistAssumption, Inv, SendHeader
    PROVE  Inv'
<1>. DEFINE S == [ask : 1..MaxSends, part : {"header", "body"}, all : BOOLEAN]
<1>1. /\ asks \in 1..MaxSends /\ oks \subseteq 1..asks /\ MaxSends \in Nat
      /\ out \in Seq(S) /\ SentWhole
  BY DEF Inv, TypeOK, PlistAssumption, SendInv, SendHeader
<1>2. \A all \in BOOLEAN : Part("header", all) \in S  BY <1>1 DEF Part
<1>. HIDE DEF S
<1>3. /\ asks' = asks /\ oks' = oks /\ pc = "sendheader" /\ pc' \in {"idle", "sendbody"}
      /\ UNCHANGED <<ssl, lens, sent, wire, ended, fd, stalls, receiving, parsed, results,
                     delivered>>
  BY DEF SendHeader
<1>4. CASE out' = out /\ pc' = "idle"
  <2>1. SendInv'  BY <1>1, <1>3, <1>4 DEF SendInv, SentWhole
  <2>. QED  BY <2>1, <1>1, <1>3, <1>4, SendKeeps DEF S
<1>5. ASSUME NEW all \in BOOLEAN, out' = Append(out, Part("header", all)),
             pc' = "sendbody" => all
      PROVE  Inv'
  <2>1. /\ out' \in Seq(S) /\ Len(out') = Len(out) + 1
        /\ out'[Len(out) + 1] = Part("header", all)
    BY <1>1, <1>2, <1>5, AppendProperties
  <2>2. out' # << >>
    <3>1. Len(out) + 1 # 0  BY <1>1
    <3>. QED  BY <2>1, <3>1, EmptySeq
  <2>3. SentWhole'  BY <1>1, <1>2, <1>3, <1>5, SentWholeKept
  <2>4. pc' = "sendbody"
           => out'[Len(out')] = [ask |-> asks', part |-> "header", all |-> TRUE]
    BY <2>1, <1>3, <1>5 DEF Part
  <2>5. SendInv'  BY <2>2, <2>3, <2>4, <1>1, <1>3 DEF SendInv
  <2>. QED  BY <2>1, <2>5, <1>1, <1>3, SendKeeps DEF S
<1>. QED  BY <1>4, <1>5 DEF SendHeader

LEMMA SendBodyKeeps ==
    ASSUME PlistAssumption, Inv, SendBody
    PROVE  Inv'
<1>. DEFINE S == [ask : 1..MaxSends, part : {"header", "body"}, all : BOOLEAN]
<1>1. /\ asks \in 1..MaxSends /\ oks \subseteq 1..asks /\ MaxSends \in Nat
      /\ out \in Seq(S) /\ SentWhole /\ out # << >>
      /\ out[Len(out)] = [ask |-> asks, part |-> "header", all |-> TRUE]
  BY DEF Inv, TypeOK, PlistAssumption, SendInv, SendBody
<1>2. \A all \in BOOLEAN : Part("body", all) \in S  BY <1>1 DEF Part
<1>. HIDE DEF S
<1>3. /\ asks' = asks /\ pc = "sendbody" /\ pc' = "idle"
      /\ UNCHANGED <<ssl, lens, sent, wire, ended, fd, stalls, receiving, parsed, results,
                     delivered>>
  BY DEF SendBody
<1>4. CASE out' = out /\ oks' = oks
  <2>1. SendInv'  BY <1>1, <1>3, <1>4 DEF SendInv, SentWhole
  <2>. QED  BY <2>1, <1>1, <1>3, <1>4, SendKeeps DEF S
<1>5. ASSUME NEW all \in BOOLEAN, out' = Append(out, Part("body", all)),
             \/ oks' = oks
             \/ all /\ oks' = oks \cup {asks}
      PROVE  Inv'
  <2>1. /\ out' \in Seq(S) /\ Len(out') = Len(out) + 1
        /\ out'[Len(out) + 1] = Part("body", all)
        /\ \A i \in 1..Len(out) : out'[i] = out[i]
    BY <1>1, <1>2, <1>5, AppendProperties
  <2>2. oks' \subseteq 1..asks'
    <3>1. asks \in 1..asks  BY <1>1
    <3>. QED  BY <3>1, <1>1, <1>3, <1>5
  <2>3. SentWhole'
    <3>1. CASE oks' = oks  BY <3>1, <1>1, <1>2, <1>5, SentWholeKept
    <3>2. CASE all /\ oks' = oks \cup {asks}
      <4>1. DOMAIN out' = 1..(Len(out) + 1) /\ DOMAIN out = 1..Len(out)
        BY <2>1, <1>1, LenProperties
      <4>2. Len(out) \in Nat /\ Len(out) >= 1  BY <1>1, EmptySeq
      <4>3. /\ out'[Len(out) + 1] = [ask |-> asks, part |-> "body", all |-> TRUE]
            /\ out'[Len(out)] = [ask |-> asks, part |-> "header", all |-> TRUE]
        BY <2>1, <3>2, <4>2, <1>1 DEF Part
      <4>. SUFFICES ASSUME NEW a \in oks'
                    PROVE  \E i \in DOMAIN out' :
                              /\ i > 1
                              /\ out'[i] = [ask |-> a, part |-> "body", all |-> TRUE]
                              /\ out'[i - 1] = [ask |-> a, part |-> "header", all |-> TRUE]
        BY DEF SentWhole
      <4>4. CASE a = asks
        <5>1. Len(out) + 1 \in DOMAIN out' /\ Len(out) + 1 > 1 /\ Len(out) + 1 - 1 = Len(out)
          BY <4>1, <4>2
        <5>. QED  BY <4>3, <4>4, <5>1
      <4>5. CASE a \in oks
        <5>1. PICK i \in DOMAIN out :
                  /\ i > 1
                  /\ out[i] = [ask |-> a, part |-> "body", all |-> TRUE]
                  /\ out[i - 1] = [ask |-> a, part |-> "header", all |-> TRUE]
          BY <4>5, <1>1 DEF SentWhole
        <5>2. /\ i \in DOMAIN out' /\ i - 1 \in 1..Len(out)
              /\ out'[i] = out[i] /\ out'[i - 1] = out[i - 1]
          <6>1. i \in 1..Len(out) /\ i > 1  BY <5>1, <4>1
          <6>2. i - 1 \in 1..Len(out) /\ i \in 1..(Len(out) + 1)  BY <6>1, <4>2
          <6>. QED  BY <6>1, <6>2, <4>1, <2>1
        <5>. QED  BY <5>1, <5>2
      <4>. QED  BY <3>2, <4>4, <4>5
    <3>. QED  BY <3>1, <3>2, <1>5
  <2>4. SendInv'  BY <2>3, <1>3 DEF SendInv
  <2>. QED  BY <2>1, <2>2, <2>4, <1>1, <1>3, SendKeeps DEF S
<1>. QED  BY <1>4, <1>5 DEF SendBody

-----------------------------------------------------------------------------
(* The theorems.                                                           *)

LEMMA StutterKeeps ==
    ASSUME Inv, UNCHANGED vars
    PROVE  Inv'
<1>1. TypeOK'  BY DEF Inv, TypeOK, vars, receiving, sending
<1>2. ClosedInv' /\ CountInv' /\ StreamInv' /\ AlignInv'
  BY DEF Inv, ClosedInv, CountInv, StreamInv, AlignInv, Aligned, Kept, Stream, vars, receiving
<1>3. WholeMessages'  BY DEF Inv, WholeMessages, vars
<1>4. SendInv'  BY DEF Inv, SendInv, SentWhole, vars, sending
<1>. QED  BY <1>1, <1>2, <1>3, <1>4 DEF Inv

LEMMA NextKeeps ==
    ASSUME PlistAssumption, Inv, [Next]_vars
    PROVE  Inv'
<1>1. CASE DeviceSends  BY <1>1, DeviceSendsKeeps
<1>2. CASE DeviceEnds  BY <1>2, DeviceEndsKeeps
<1>3. CASE Receive  BY <1>3, ReceiveKeeps
<1>4. ASSUME NEW n \in 1..(HeaderLen + Limit), Recv(n) PROVE Inv'
  <2>1. n \in Nat \ {0}  BY Constants
  <2>. QED  BY <2>1, <1>4, RecvKeeps
<1>5. CASE RecvTimesOut  BY <1>5, RecvTimesOutKeeps
<1>6. CASE RecvFails  BY <1>6, RecvFailsKeeps
<1>7. CASE Parse  BY <1>7, ParseKeeps
<1>8. CASE Send  BY <1>8, SendStarts
<1>9. CASE SendHeader  BY <1>9, SendHeaderKeeps
<1>10. CASE SendBody  BY <1>10, SendBodyKeeps
<1>11. CASE UNCHANGED vars  BY <1>11, StutterKeeps
<1>. QED
  BY <1>1, <1>2, <1>3, <1>4, <1>5, <1>6, <1>7, <1>8, <1>9, <1>10, <1>11 DEF Next, Step

\* A client that kept to what it may do is where a message begins between two receives.
LEMMA AlignedInStep ==
    ASSUME Inv
    PROVE  InStep
<1>. SUFFICES ASSUME pc = "idle", Kept, wire # << >> PROVE Head(wire).off = 0
  BY DEF InStep, Kept
<1>1. wire \in Seq(Byte) /\ fd = "open"  BY DEF Inv, TypeOK, ClosedInv
<1>2. Stream = wire  BY <1>1, GivenUp DEF Inv, CountInv, Stream
<1>3. wire[1].off = 0  BY <1>1, <1>2 DEF Inv, AlignInv, Aligned
<1>. QED  BY <1>1, <1>3

\* What the reads and the sends of a property list service rest on is always so.
THEOREM PlistInv ==
    ASSUME PlistAssumption
    PROVE  Spec => []Inv
<1>1. Init => Inv  BY InitHolds
<1>2. Inv /\ [Next]_vars => Inv'  BY NextKeeps
<1>. QED  BY <1>1, <1>2, PTL DEF Spec

\* Every variable of the stream keeps its type: the counters of a receive stay within
\* their words although a failed recv is counted as -1.
THEOREM TypeCorrect ==
    ASSUME PlistAssumption
    PROVE  Spec => []TypeOK
<1>1. Inv => TypeOK  BY DEF Inv
<1>. QED  BY <1>1, PlistInv, PTL

\* internal_plist_receive_timeout leaves a client whose receives ended with a property
\* list or a timeout at the beginning of a message.
THEOREM StaysInStep ==
    ASSUME PlistAssumption
    PROVE  Spec => []InStep
<1>1. Inv => InStep  BY AlignedInStep
<1>. QED  BY <1>1, PlistInv, PTL

\* What internal_plist_receive_timeout returns is a property list of the device, whole
\* and later than the one before, but for the end of a connection without SSL.
THEOREM MessagesWhole ==
    ASSUME PlistAssumption
    PROVE  Spec => []WholeMessages
<1>1. Inv => WholeMessages  BY DEF Inv
<1>. QED  BY <1>1, PlistInv, PTL

\* internal_plist_send reports as sent only what is with the device, length and body.
THEOREM SentIsWhole ==
    ASSUME PlistAssumption
    PROVE  Spec => []SentWhole
<1>1. Inv => SentWhole  BY DEF Inv, SendInv
<1>. QED  BY <1>1, PlistInv, PTL
=============================================================================
