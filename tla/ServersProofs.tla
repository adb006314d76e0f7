---------------------------- MODULE ServersProofs ----------------------------
(***************************************************************************)
(* What is proved of debugserver and of the installer server, in the       *)
(* specification of all services, and of the commands of the installer     *)
(* server in that of their own.                                            *)
(***************************************************************************)
EXTENDS Services, SequenceTheorems, WellFoundedInduction, TLAPS

-----------------------------------------------------------------------------
(* Sequences.                                                              *)

LEMMA Appended ==
    ASSUME NEW S, NEW s \in Seq(S), NEW x \in S
    PROVE  /\ Append(s, x) \in Seq(S) /\ Len(Append(s, x)) = Len(s) + 1
           /\ \A i \in 1..Len(s) : Append(s, x)[i] = s[i]
           /\ Append(s, x)[Len(s) + 1] = x
  BY AppendProperties

LEMMA Rest ==
    ASSUME NEW S, NEW s \in Seq(S), s # << >>
    PROVE  /\ Head(s) \in S /\ Head(s) = s[1] /\ Tail(s) \in Seq(S)
           /\ Len(Tail(s)) = Len(s) - 1 /\ Len(s) \in Nat \ {0}
           /\ \A i \in 1..(Len(s) - 1) : Tail(s)[i] = s[i + 1]
  BY HeadTailProperties, ElementOfSeq, EmptySeq

-----------------------------------------------------------------------------
(* DebugServer.                                                            *)

DbChars == Seq(Debug!Char)

DbServer == [noack : BOOLEAN, up : BOOLEAN, asked : Seq({"QStartNoAckMode", "other"}),
             stream : DbChars, content : Seq(DbChars)]

DbShape(c) ==
    c = [noack |-> c.noack, phase |-> c.phase, command |-> c.command, buffer |-> c.buffer,
         left |-> c.left, gap |-> c.gap, tries |-> c.tries, pauses |-> c.pauses]

\* A packet is its content between a prefix and a checksum.
DbLength(content) == Len(content) + 4

\* A packet p of length m ends at position x of what is still to be read, before its
\* beginning when that is not positive, and the one before it at y; an acknowledgement may
\* come between them.
DbSpan(s, p, m, x, y) ==
    /\ x = y + m \/ x = y + m + 1
    /\ \A q \in 1..Len(s), j \in 1..m : q = x - m + j => s[q] = p[j]
    /\ \A q \in 1..Len(s) : x = y + m + 1 /\ q = y + 1 => s[q] = Debug!Mark("+")

\* The k-th packet that the device sent ends at position at[k].
DbPacket(d, at, k) ==
    DbSpan(d.stream, Debug!Packet(k, d.content[k]), DbLength(d.content[k]), at[k], at[k - 1])

DbPackets(d, at) ==
    /\ \A k \in 1..Len(d.content) : DbPacket(d, at, k)
    /\ \A k \in 0..Len(d.content) : at[k] <= at[Len(d.content)]
    /\ Len(d.stream) <= at[Len(d.content)]
    /\ d.up => Len(d.stream) = at[Len(d.content)]

\* The next packet begins, or its acknowledgement, or there is none.
DbBetween(d, n, at) ==
    at[n] = 0 \/ (n < Len(d.content) /\ at[n + 1] = DbLength(d.content[n + 1]))

\* The client has the beginning of a packet.
DbWithin(c, d, n, at) ==
    /\ n < Len(d.content) /\ at[n + 1] = DbLength(d.content[n + 1]) - Len(c.buffer)
    /\ c.buffer # << >>
    /\ \A j \in 1..Len(c.buffer) : /\ j \in 1..DbLength(d.content[n + 1])
                                  /\ c.buffer[j] = Debug!Packet(n + 1, d.content[n + 1])[j]

\* What the client has read when it has taken n packets.
DbReads(c, d, n, at) ==
    /\ c.phase \in {"idle", "ack", "prefix"} => DbBetween(d, n, at)
    /\ c.phase \in {"ack", "prefix"} => c.left = 3
    /\ c.phase \in {"content", "check"} => DbWithin(c, d, n, at)
    /\ c.phase = "content" => /\ at[n + 1] > 0
                              /\ c.left = IF at[n + 1] < 3 THEN at[n + 1] ELSE 3
    /\ c.phase = "check" => at[n + 1] = 0

\* Without a gap nothing was refused, and what was taken are the first packets.
DbSound(c, d, t) ==
    /\ c.phase \in {"idle", "ack", "prefix", "content", "check"} /\ c.buffer \in DbChars
    /\ d \in DbServer /\ t \in Seq(DbChars)
    /\ Len(d.content) + Len(d.asked) <= MaxReplies
    /\ \A k \in 1..Len(d.content) : \A i \in 1..Len(d.content[k]) :
           d.content[k][i].kind = "content"
    /\ Len(t) <= Len(d.content) /\ \A i \in 1..Len(t) : t[i] = d.content[i]
    /\ \E at \in [Nat -> Int] : DbPackets(d, at) /\ DbReads(c, d, Len(t), at)

DbInv ==
    DbShape(ds) /\ ds.gap \in BOOLEAN /\ (~ds.gap => DbSound(ds, gdb, taken))

LEMMA DbBounds == MaxReplies \in Nat
  BY ComponentsAssumption DEF ComponentsAssumption, Debug!DebugAssumption

-----------------------------------------------------------------------------
LEMMA DbMark ==
    \A kind \in Debug!Kind :
        Debug!Mark(kind) \in Debug!Char /\ Debug!Mark(kind).kind = kind
<1>1. 0 \in 0..MaxReplies
  BY DbBounds
<1>2. QED  BY <1>1 DEF Debug!Mark, Debug!Char

LEMMA DbPacketIs ==
    ASSUME NEW k \in 1..MaxReplies, NEW content \in DbChars,
           \A i \in 1..Len(content) : content[i].kind = "content"
    PROVE  LET p == Debug!Packet(k, content)
               n == DbLength(content)
           IN  /\ p \in DbChars /\ Len(p) = n /\ n \in Nat /\ n >= 4
               /\ p[1] = Debug!Mark("$")
               /\ \A i \in 1..Len(content) : p[i + 1] = content[i]
               /\ \A j \in 1..n : /\ p[j].kind # "silence"
                                  /\ p[j].kind = "#" <=> j = n - 2
<1> DEFINE digit == [kind |-> "digit", of |-> k]
           h == Debug!Mark("#")
           tail == <<h, digit, digit>>
           first == <<Debug!Mark("$")>>
           m == Len(content)
           p == Debug!Packet(k, content)
<1>1. digit \in Debug!Char /\ digit.kind = "digit"
  BY DbBounds DEF Debug!Char, Debug!Kind
<1>2. /\ h \in Debug!Char /\ h.kind = "#"
      /\ Debug!Mark("$") \in Debug!Char /\ Debug!Mark("$").kind = "$"
  BY DbMark DEF Debug!Kind
<1>3. p = (first \o content) \o tail
  BY DEF Debug!Packet
<1> HIDE DEF digit, h, p
<1>4. /\ tail \in DbChars /\ Len(tail) = 3 /\ tail[1] = h /\ tail[2] = digit /\ tail[3] = digit
      /\ first \in DbChars /\ Len(first) = 1 /\ first[1] = Debug!Mark("$")
  BY <1>1, <1>2 DEF DbChars
<1> HIDE DEF tail, first
<1>5. m \in Nat
  BY LenProperties DEF DbChars
<1>6. /\ first \o content \in DbChars /\ Len(first \o content) = 1 + m
      /\ (first \o content)[1] = Debug!Mark("$")
      /\ \A i \in 1..m : (first \o content)[i + 1] = content[i]
  <2>1. /\ first \o content \in DbChars /\ Len(first \o content) = Len(first) + m
        /\ \A i \in 1..(Len(first) + m) :
              (first \o content)[i] = IF i <= Len(first) THEN first[i]
                                      ELSE content[i - Len(first)]
    BY <1>4, ConcatProperties DEF DbChars
  <2>2. QED  BY <1>4, <1>5, <2>1
<1>7. /\ p \in DbChars /\ Len(p) = m + 4
      /\ \A i \in 1..(m + 4) : p[i] = IF i <= 1 + m THEN (first \o content)[i]
                                      ELSE tail[i - (1 + m)]
  <2>1. /\ p \in DbChars /\ Len(p) = Len(first \o content) + Len(tail)
        /\ \A i \in 1..(Len(first \o content) + Len(tail)) :
              p[i] = IF i <= Len(first \o content) THEN (first \o content)[i]
                     ELSE tail[i - Len(first \o content)]
    BY <1>3, <1>4, <1>6, ConcatProperties DEF DbChars
  <2>2. Len(first \o content) + Len(tail) = m + 4
    BY <1>4, <1>5, <1>6
  <2>3. QED  BY <1>6, <2>1, <2>2
<1>8. p[1] = Debug!Mark("$") /\ \A i \in 1..m : p[i + 1] = content[i]
  BY <1>5, <1>6, <1>7
<1>9. p[m + 2] = h /\ p[m + 3] = digit /\ p[m + 4] = digit
  <2>1. /\ m + 2 \in 1..(m + 4) /\ ~(m + 2 <= 1 + m) /\ (m + 2) - (1 + m) = 1
        /\ m + 3 \in 1..(m + 4) /\ ~(m + 3 <= 1 + m) /\ (m + 3) - (1 + m) = 2
        /\ m + 4 \in 1..(m + 4) /\ ~(m + 4 <= 1 + m) /\ (m + 4) - (1 + m) = 3
    BY <1>5
  <2>2. QED  BY <1>4, <1>7, <2>1
<1>10. ASSUME NEW j \in 1..(m + 4)
       PROVE  p[j].kind # "silence" /\ (p[j].kind = "#" <=> j = m + 2)
  <2>1. j = 1 \/ (\E i \in 1..m : j = i + 1) \/ j = m + 2 \/ j = m + 3 \/ j = m + 4
    <3>1. j \in 2..(m + 1) => j - 1 \in 1..m /\ j = (j - 1) + 1
      BY <1>5
    <3>2. j = 1 \/ j \in 2..(m + 1) \/ j = m + 2 \/ j = m + 3 \/ j = m + 4
      BY <1>5
    <3>3. QED  BY <3>1, <3>2
  <2>2. CASE j = 1
    BY <1>2, <1>5, <1>8, <2>2
  <2>3. ASSUME NEW i \in 1..m, j = i + 1
        PROVE  p[j].kind # "silence" /\ (p[j].kind = "#" <=> j = m + 2)
    BY <1>5, <1>8, <2>3
  <2>4. CASE j = m + 2 \/ j = m + 3 \/ j = m + 4
    BY <1>1, <1>2, <1>5, <1>9, <2>4
  <2>5. QED  BY <2>1, <2>2, <2>3, <2>4
<1>11. m + 4 \in Nat /\ m + 4 >= 4 /\ (m + 4) - 2 = m + 2
  BY <1>5
<1>12. DbLength(content) = m + 4
  BY DEF DbLength
<1>13. QED  BY <1>7, <1>8, <1>10, <1>11, <1>12 DEF p

\* What a sound state is made of.
LEMMA DbKnown ==
    ASSUME NEW c, NEW d, NEW t, DbSound(c, d, t)
    PROVE  /\ d \in DbServer /\ t \in Seq(DbChars) /\ c.buffer \in DbChars
           /\ d.stream \in DbChars /\ d.content \in Seq(DbChars)
           /\ d.asked \in Seq({"QStartNoAckMode", "other"})
           /\ Len(d.stream) \in Nat /\ Len(d.content) \in Nat /\ Len(d.asked) \in Nat
           /\ Len(t) \in Nat /\ Len(t) <= Len(d.content) /\ Len(d.content) <= MaxReplies
           /\ Len(c.buffer) \in Nat
           /\ \A k \in 1..Len(d.content) :
                 LET p == Debug!Packet(k, d.content[k])
                     n == DbLength(d.content[k])
                 IN  /\ d.content[k] \in DbChars /\ Len(d.content[k]) \in Nat
                     /\ p \in DbChars /\ Len(p) = n /\ n \in Nat /\ n >= 4
                     /\ p[1] = Debug!Mark("$")
                     /\ \A i \in 1..Len(d.content[k]) : p[i + 1] = d.content[k][i]
                     /\ \A j \in 1..n : /\ p[j].kind # "silence"
                                        /\ p[j].kind = "#" <=> j = n - 2
<1>1. d \in DbServer /\ t \in Seq(DbChars) /\ c.buffer \in DbChars
      /\ Len(t) <= Len(d.content)
      /\ Len(d.content) + Len(d.asked) <= MaxReplies
  BY DEF DbSound
<1>2. d.stream \in DbChars /\ d.content \in Seq(DbChars)
      /\ d.asked \in Seq({"QStartNoAckMode", "other"})
  BY <1>1 DEF DbServer
<1>3. Len(d.stream) \in Nat /\ Len(d.content) \in Nat /\ Len(d.asked) \in Nat /\ Len(t) \in Nat
      /\ Len(c.buffer) \in Nat
  BY <1>1, <1>2, LenProperties DEF DbChars
<1>4. Len(d.content) <= MaxReplies /\ 1..Len(d.content) \subseteq 1..MaxReplies
  <2> DEFINE m == Len(d.content)
             n == Len(d.asked)
  <2>1. m \in Nat /\ n \in Nat /\ m + n <= MaxReplies
    BY <1>1, <1>3
  <2> HIDE DEF m, n
  <2>2. m <= MaxReplies /\ 1..m \subseteq 1..MaxReplies
    BY <2>1, DbBounds
  <2>3. QED  BY <2>2 DEF m
<1>5. \A k \in 1..Len(d.content) : d.content[k] \in DbChars
  BY <1>2, ElementOfSeq
<1>6. \A k \in 1..Len(d.content) : Len(d.content[k]) \in Nat
  BY <1>5, LenProperties DEF DbChars
<1>7. \A k \in 1..Len(d.content) : \A i \in 1..Len(d.content[k]) :
          d.content[k][i].kind = "content"
  BY DEF DbSound
<1>8. \A k \in 1..Len(d.content) :
                 LET p == Debug!Packet(k, d.content[k])
                     n == DbLength(d.content[k])
                 IN  /\ p \in DbChars /\ Len(p) = n /\ n \in Nat /\ n >= 4
                     /\ p[1] = Debug!Mark("$")
                     /\ \A i \in 1..Len(d.content[k]) : p[i + 1] = d.content[k][i]
                     /\ \A j \in 1..n : /\ p[j].kind # "silence"
                                        /\ p[j].kind = "#" <=> j = n - 2
  <2>1. SUFFICES ASSUME NEW k \in 1..Len(d.content)
        PROVE  LET p == Debug!Packet(k, d.content[k])
                   n == DbLength(d.content[k])
               IN  /\ p \in DbChars /\ Len(p) = n /\ n \in Nat /\ n >= 4
                   /\ p[1] = Debug!Mark("$")
                   /\ \A i \in 1..Len(d.content[k]) : p[i + 1] = d.content[k][i]
                   /\ \A j \in 1..n : /\ p[j].kind # "silence"
                                      /\ p[j].kind = "#" <=> j = n - 2
    OBVIOUS
  <2> DEFINE y == d.content[k]
  <2>2. k \in 1..MaxReplies
    BY <1>4, <2>1
  <2>3. y \in DbChars
    BY <1>5, <2>1
  <2>4. \A i \in 1..Len(y) : y[i].kind = "content"
    BY <1>7, <2>1
  <2> HIDE DEF y
  <2>5. LET p == Debug!Packet(k, y)
            n == DbLength(y)
        IN  /\ p \in DbChars /\ Len(p) = n /\ n \in Nat /\ n >= 4
            /\ p[1] = Debug!Mark("$")
            /\ \A i \in 1..Len(y) : p[i + 1] = y[i]
            /\ \A j \in 1..n : /\ p[j].kind # "silence"
                               /\ p[j].kind = "#" <=> j = n - 2
    BY <2>2, <2>3, <2>4, DbPacketIs
  <2>6. QED  BY <2>5 DEF y
<1>9. QED  BY <1>1, <1>2, <1>3, <1>4, <1>5, <1>6, <1>8

LEMMA DbKnownContent ==
    ASSUME NEW c, NEW d, NEW t, DbSound(c, d, t), NEW k \in 1..Len(d.content)
    PROVE  /\ k \in 1..MaxReplies /\ d.content[k] \in DbChars
           /\ \A i \in 1..Len(d.content[k]) : d.content[k][i].kind = "content"
<1>1. /\ Len(d.content) \in Nat /\ Len(d.content) <= MaxReplies
      /\ d.content[k] \in DbChars
  BY DbKnown
<1>2. \A j \in 1..Len(d.content) : \A i \in 1..Len(d.content[j]) : d.content[j][i].kind = "content"
  BY DEF DbSound
<1>3. k \in 1..MaxReplies
  <2>1. k \in Nat /\ k >= 1 /\ k <= Len(d.content)
    BY <1>1
  <2>2. QED  BY ONLY <1>1, <2>1, DbBounds
<1>4. QED  BY <1>1, <1>2, <1>3

LEMMA DbKnownPacket ==
    ASSUME NEW c, NEW d, NEW t, DbSound(c, d, t), NEW k \in 1..Len(d.content)
    PROVE  /\ DbLength(d.content[k]) \in Nat /\ DbLength(d.content[k]) >= 4
           /\ Debug!Packet(k, d.content[k])[1] = Debug!Mark("$")
           /\ \A j \in 1..DbLength(d.content[k]) :
                 /\ Debug!Packet(k, d.content[k])[j].kind # "silence"
                 /\ Debug!Packet(k, d.content[k])[j].kind = "#"
                    <=> j = DbLength(d.content[k]) - 2
<1> DEFINE n == DbLength(d.content[k])
           p == Debug!Packet(k, d.content[k])
<1>1. /\ n \in Nat /\ n >= 4 /\ p[1] = Debug!Mark("$")
      /\ \A j \in 1..n : p[j].kind # "silence" /\ (p[j].kind = "#" <=> j = n - 2)
  <2>1. /\ k \in 1..MaxReplies /\ d.content[k] \in DbChars
        /\ \A i \in 1..Len(d.content[k]) : d.content[k][i].kind = "content"
    BY DbKnownContent
  <2>2. QED  BY <2>1, DbPacketIs
<1>2. QED  BY <1>1

-----------------------------------------------------------------------------
(* Where packets are.                                                      *)

LEMMA DbSpanRest ==
    ASSUME NEW s \in DbChars, s # << >>, NEW p, NEW m \in Nat, NEW x \in Int, NEW y \in Int,
           DbSpan(s, p, m, x, y)
    PROVE  DbSpan(Tail(s), p, m, x - 1, y - 1)
<1> DEFINE w == Tail(s)
           n == Len(s)
<1>1. /\ Len(w) = n - 1 /\ n \in Nat \ {0} /\ \A i \in 1..(n - 1) : w[i] = s[i + 1]
  BY Rest DEF DbChars
<1>2. /\ x = y + m \/ x = y + m + 1
      /\ \A q \in 1..n, j \in 1..m : q = x - m + j => s[q] = p[j]
      /\ \A q \in 1..n : x = y + m + 1 /\ q = y + 1 => s[q] = Debug!Mark("+")
  BY DEF DbSpan
<1> HIDE DEF w, n
<1>3. \A q \in 1..Len(w) : q \in Int /\ q + 1 \in 1..n /\ w[q] = s[q + 1]
  BY <1>1
<1>4. ASSUME NEW q \in 1..Len(w), NEW j \in 1..m, q = (x - 1) - m + j PROVE w[q] = p[j]
  <2>1. q + 1 = x - m + j
    BY <1>3, <1>4
  <2>2. QED  BY <1>2, <1>3, <2>1
<1>5. ASSUME NEW q \in 1..Len(w), x - 1 = (y - 1) + m + 1, q = (y - 1) + 1
      PROVE  w[q] = Debug!Mark("+")
  <2>1. q + 1 = y + 1 /\ x = y + m + 1
    BY <1>3, <1>5
  <2>2. QED  BY <1>2, <1>3, <2>1
<1>6. x - 1 = (y - 1) + m \/ x - 1 = (y - 1) + m + 1
  BY <1>2
<1>7. DbSpan(w, p, m, x - 1, y - 1)
  BY <1>4, <1>5, <1>6 DEF DbSpan
<1>8. QED  BY <1>7 DEF w

LEMMA DbSpanCut ==
    ASSUME NEW s \in DbChars, NEW n \in 0..Len(s), NEW p, NEW m \in Nat,
           NEW x \in Int, NEW y \in Int, DbSpan(s, p, m, x, y)
    PROVE  DbSpan(SubSeq(s, 1, n), p, m, x, y)
<1> DEFINE w == SubSeq(s, 1, n)
<1>1. n \in Int /\ Len(s) \in Nat /\ \A i \in 1..n : s[i] \in Debug!Char
  BY LenProperties, ElementOfSeq DEF DbChars
<1>2. Len(w) = n /\ \A i \in 1..n : w[i] = s[i] /\ i \in 1..Len(s)
  BY <1>1, SubSeqProperties DEF DbChars
<1> HIDE DEF w
<1>3. DbSpan(w, p, m, x, y)
  BY <1>2 DEF DbSpan
<1>4. QED  BY <1>3 DEF w

LEMMA DbSpanJoined ==
    ASSUME NEW s \in DbChars, NEW r \in DbChars, NEW p, NEW m \in Nat,
           NEW x \in Int, NEW y \in Int, DbSpan(s, p, m, x, y), x <= Len(s)
    PROVE  DbSpan(s \o r, p, m, x, y)
<1> DEFINE w == s \o r
           n == Len(s)
<1>1. n \in Nat /\ Len(w) \in Nat /\ \A i \in 1..n : w[i] = s[i]
  BY LenProperties, ConcatProperties DEF DbChars
<1>2. /\ x = y + m \/ x = y + m + 1
      /\ \A q \in 1..n, j \in 1..m : q = x - m + j => s[q] = p[j]
      /\ \A q \in 1..n : x = y + m + 1 /\ q = y + 1 => s[q] = Debug!Mark("+")
      /\ x <= n
  BY DEF DbSpan
<1> HIDE DEF w, n
<1>3. ASSUME NEW q \in 1..Len(w), NEW j \in 1..m, q = x - m + j PROVE w[q] = p[j]
  <2>1. q \in 1..n
    BY <1>1, <1>2, <1>3
  <2>2. QED  BY <1>1, <1>2, <1>3, <2>1
<1>4. ASSUME NEW q \in 1..Len(w), x = y + m + 1, q = y + 1 PROVE w[q] = Debug!Mark("+")
  <2>1. q \in 1..n
    BY <1>1, <1>2, <1>4
  <2>2. QED  BY <1>1, <1>2, <1>4, <2>1
<1>5. DbSpan(w, p, m, x, y)
  BY <1>2, <1>3, <1>4 DEF DbSpan
<1>6. QED  BY <1>5 DEF w

LEMMA DbSpanAdded ==
    ASSUME NEW s \in DbChars, NEW p \in DbChars, NEW a \in {<< >>, <<Debug!Mark("+")>>}
    PROVE  /\ s \o a \o p \in DbChars
           /\ Len(s \o a \o p) \in Nat /\ Len(s) \in Nat /\ Len(s) <= Len(s \o a \o p)
           /\ DbSpan(s \o a \o p, p, Len(p), Len(s \o a \o p), Len(s))
<1> DEFINE u == s \o a
           w == u \o p
           l == Len(a)
           n == Len(s)
           m == Len(p)
<1>1. a \in DbChars /\ l \in {0, 1} /\ (l = 1 => a[1] = Debug!Mark("+"))
  <2>1. Debug!Mark("+") \in Debug!Char
    BY DbMark DEF Debug!Kind
  <2>2. CASE a = << >>
    BY <2>2 DEF DbChars
  <2>3. CASE a = <<Debug!Mark("+")>>
    BY <2>1, <2>3 DEF DbChars
  <2>4. QED  BY <2>2, <2>3
<1>2. /\ n \in Nat /\ m \in Nat
      /\ u \in DbChars /\ Len(u) = n + l
      /\ \A i \in 1..(n + l) : u[i] = IF i <= n THEN s[i] ELSE a[i - n]
  BY <1>1, LenProperties, ConcatProperties DEF DbChars
<1> HIDE DEF u
<1>3. /\ w \in DbChars /\ Len(w) = Len(u) + m
      /\ \A i \in 1..(Len(u) + m) : w[i] = IF i <= Len(u) THEN u[i] ELSE p[i - Len(u)]
  <2>1. u \in Seq(Debug!Char) /\ p \in Seq(Debug!Char)
    BY <1>2 DEF DbChars
  <2>2. QED  BY <2>1, ConcatProperties DEF DbChars
<1> HIDE DEF w, l, n, m
<1>4. /\ l \in Nat /\ Len(w) = n + l + m
      /\ \A i \in 1..(n + l + m) : w[i] = IF i <= n + l THEN u[i] ELSE p[i - (n + l)]
  BY <1>1, <1>2, <1>3
<1> DEFINE x == n + l + m
<1>5. ASSUME NEW q \in 1..x, NEW j \in 1..m, q = x - m + j PROVE w[q] = p[j]
  <2>1. q \in 1..(n + l + m) /\ ~(q <= n + l) /\ q - (n + l) = j
    BY <1>2, <1>4, <1>5
  <2>2. QED  BY <1>4, <2>1
<1>6. ASSUME NEW q \in 1..x, x = n + m + 1, q = n + 1 PROVE w[q] = Debug!Mark("+")
  <2>1. l = 1
    BY <1>1, <1>2, <1>6
  <2>2. /\ q \in 1..(n + l + m) /\ q <= n + l /\ q \in 1..(n + l) /\ ~(q <= n)
        /\ q - n = 1
    BY <1>2, <1>6, <2>1
  <2>3. QED  BY <1>1, <1>2, <1>4, <2>1, <2>2
<1>7. x = n + m \/ x = n + m + 1
  BY <1>1, <1>2
<1>8. x \in Nat /\ n <= x
  BY <1>2, <1>4
<1>9. Len(w) = x
  BY <1>4
<1> HIDE DEF x
<1>10. DbSpan(w, p, m, Len(w), n)
  BY <1>5, <1>6, <1>7, <1>9 DEF DbSpan
<1>11. QED  BY <1>2, <1>3, <1>8, <1>9, <1>10 DEF w, u, n, m

\* A character is read.
LEMMA DbCharRead ==
    ASSUME NEW c, NEW d, NEW t, DbSound(c, d, t), d.stream # << >>,
           NEW e, e = [d EXCEPT !.stream = Tail(@)]
    PROVE  /\ e \in DbServer /\ e.stream = Tail(d.stream) /\ e.content = d.content
           /\ e.asked = d.asked /\ e.up = d.up
<1> DEFINE w == Tail(d.stream)
<1>1. d \in DbServer /\ w \in DbChars /\ e = [d EXCEPT !.stream = w]
  BY DbKnown, Rest DEF DbChars
<1> HIDE DEF w
<1>2. e \in DbServer /\ e.stream = w /\ e.content = d.content /\ e.asked = d.asked /\ e.up = d.up
  BY <1>1 DEF DbServer
<1>3. QED  BY <1>2 DEF w

\* All positions are then one less.
LEMMA DbShifted ==
    ASSUME NEW c, NEW d, NEW t, DbSound(c, d, t), d.stream # << >>,
           NEW at \in [Nat -> Int], DbPackets(d, at),
           NEW e, e.stream = Tail(d.stream), e.content = d.content, e.up = d.up,
           NEW b \in [Nat -> Int], \A k \in Nat : b[k] = at[k] - 1
    PROVE  DbPackets(e, b)
<1> DEFINE n == Len(d.stream)
           w == Tail(d.stream)
           z == Len(d.content)
<1>1. b \in [Nat -> Int] /\ \A k \in Nat : b[k] = at[k] - 1
  OBVIOUS
<1>2. w \in DbChars /\ Len(w) = n - 1 /\ n \in Nat \ {0}
  BY DbKnown, Rest DEF DbChars
<1> HIDE DEF w
<1>3. e.content = d.content /\ e.stream = w /\ e.up = d.up
  BY DEF w
<1>4. z \in Nat /\ z \in 0..z /\ at[z] \in Int /\ b[z] = at[z] - 1
  <2>1. z \in Nat
    BY DbKnown
  <2> HIDE DEF z
  <2>2. QED  BY <1>1, <2>1
<1>5. ASSUME NEW k \in 1..z PROVE DbPacket(e, b, k)
  <2> DEFINE m == DbLength(d.content[k])
             p == Debug!Packet(k, d.content[k])
  <2>1. k \in Nat /\ k - 1 \in Nat /\ m \in Nat
    <3>1. m \in Nat
      BY DbKnown
    <3>2. k \in Nat /\ k - 1 \in Nat
      BY <1>4
    <3>3. QED  BY <3>1, <3>2
  <2>2. at[k] \in Int /\ at[k - 1] \in Int /\ b[k] = at[k] - 1 /\ b[k - 1] = at[k - 1] - 1
    BY <1>1, <2>1
  <2>3. DbSpan(d.stream, p, m, at[k], at[k - 1])
    BY DEF DbPackets, DbPacket
  <2> HIDE DEF m, p
  <2>4. DbSpan(w, p, m, at[k] - 1, at[k - 1] - 1)
    BY <2>1, <2>2, <2>3, DbSpanRest, DbKnown DEF w
  <2>5. QED  BY <1>3, <2>2, <2>4 DEF DbPacket, m, p
<1>6. /\ Len(w) <= b[z]
      /\ d.up => Len(w) = b[z]
  <2> DEFINE u == at[z]
             v == b[z]
             k == Len(w)
  <2>1. n <= u /\ (d.up => n = u)
    BY DEF DbPackets
  <2>2. u \in Int /\ v = u - 1 /\ k = n - 1 /\ n \in Nat
    BY <1>2, <1>4
  <2> HIDE DEF n, u, v, k
  <2>3. k <= v /\ (d.up => k = v)
    BY <2>1, <2>2
  <2>4. QED  BY <2>3 DEF k, v
<1>7. ASSUME NEW k \in 0..z PROVE b[k] <= b[z]
  <2>1. k \in Nat /\ at[k] \in Int /\ at[k] <= at[z]
    BY <1>4 DEF DbPackets
  <2> HIDE DEF z
  <2>2. QED  BY <1>1, <1>4, <2>1
<1>8. DbPackets(e, b)
  BY <1>3, <1>5, <1>6, <1>7 DEF DbPackets
<1>9. QED  BY <1>8

\* What comes first where a packet is expected.
LEMMA DbFirst ==
    ASSUME NEW c, NEW d, NEW t, DbSound(c, d, t), d.stream # << >>,
           NEW at \in [Nat -> Int], DbPackets(d, at), DbBetween(d, Len(t), at)
    PROVE  LET n == Len(t)
               m == DbLength(d.content[n + 1])
           IN  /\ n < Len(d.content) /\ n + 1 \in 1..Len(d.content)
               /\ \/ at[n + 1] = m /\ Head(d.stream) = Debug!Mark("$")
                  \/ at[n + 1] = m + 1 /\ Head(d.stream) = Debug!Mark("+")
<1> DEFINE n == Len(t)
           m == DbLength(d.content[n + 1])
<1>1. /\ Len(d.stream) \in Nat \ {0} /\ Head(d.stream) = d.stream[1]
      /\ 1 \in 1..Len(d.stream)
  BY DbKnown, Rest DEF DbChars
<1>2. n \in Nat /\ Len(d.content) \in Nat /\ n <= Len(d.content) /\ n + 1 \in Nat
      /\ at[n] \in Int /\ at[n + 1] \in Int
  BY DbKnown
<1>3. n < Len(d.content)
  <2>1. CASE at[n] = 0
    <3>1. n # Len(d.content)
      BY <1>1, <2>1 DEF DbPackets
    <3>2. QED  BY <1>2, <3>1
  <2>2. QED  BY <2>1 DEF DbBetween
<1>4. n + 1 \in 1..Len(d.content) /\ (n + 1) - 1 = n
  BY <1>2, <1>3
<1>5. m \in Nat /\ m >= 4 /\ Debug!Packet(n + 1, d.content[n + 1])[1] = Debug!Mark("$")
  <2> DEFINE k == n + 1
  <2>1. k \in 1..Len(d.content)
    BY <1>4
  <2> HIDE DEF k
  <2>2. /\ DbLength(d.content[k]) \in Nat /\ DbLength(d.content[k]) >= 4
        /\ Debug!Packet(k, d.content[k])[1] = Debug!Mark("$")
    BY <2>1, DbKnownPacket
  <2>3. /\ DbLength(d.content[n + 1]) \in Nat /\ DbLength(d.content[n + 1]) >= 4
        /\ Debug!Packet(n + 1, d.content[n + 1])[1] = Debug!Mark("$")
    BY ONLY <2>2 DEF k
  <2>4. QED  BY <2>3
<1>6. DbPacket(d, at, n + 1)
  BY <1>4 DEF DbPackets
<1>7. /\ at[n + 1] = at[n] + m \/ at[n + 1] = at[n] + m + 1
      /\ \A p \in 1..Len(d.stream), j \in 1..m :
            p = at[n + 1] - m + j =>
                d.stream[p] = Debug!Packet(n + 1, d.content[n + 1])[j]
      /\ \A p \in 1..Len(d.stream) :
            at[n + 1] = at[n] + m + 1 /\ p = at[n] + 1 => d.stream[p] = Debug!Mark("+")
  BY <1>4, <1>6 DEF DbPacket, DbSpan
<1>8. at[n] = 0 \/ at[n + 1] = m
  BY DEF DbBetween
<1> HIDE DEF m, n
<1>9. CASE at[n + 1] = m
  <2>1. 1 \in 1..m /\ 1 = at[n + 1] - m + 1
    BY <1>2, <1>5, <1>9
  <2>2. d.stream[1] = Debug!Mark("$")
    BY <1>1, <1>5, <1>7, <2>1
  <2>3. QED  BY <1>1, <1>3, <1>4, <1>9, <2>2 DEF m, n
<1>10. CASE at[n + 1] # m
  <2>1. at[n] = 0 /\ at[n + 1] = at[n] + m + 1 /\ 1 = at[n] + 1 /\ at[n + 1] = m + 1
    BY <1>2, <1>5, <1>7, <1>8, <1>10
  <2>2. d.stream[1] = Debug!Mark("+")
    BY <1>1, <1>7, <2>1
  <2>3. QED  BY <1>1, <1>3, <1>4, <2>1, <2>2 DEF m, n
<1>11. QED  BY <1>9, <1>10

-----------------------------------------------------------------------------
(* The steps.                                                              *)

\* What the client is like after a character.
LEMMA DbHeard ==
    ASSUME DbShape(ds), ds.gap \in BOOLEAN, Debug!Hears, NEW ch
    PROVE  /\ DbShape(Debug!Heard(ch)) /\ Debug!Heard(ch).gap \in BOOLEAN
           /\ ds.gap => Debug!Heard(ch).gap
<1>1. CASE ds.phase = "ack"
  <2>1. Debug!Heard(ch) = Debug!HearAck(ch)
    BY <1>1 DEF Debug!Heard
  <2>2. \/ Debug!HearAck(ch) = [ds EXCEPT !.phase = "prefix"]
        \/ Debug!HearAck(ch) = [ds EXCEPT !.phase = "content", !.buffer = <<ch>>]
        \/ Debug!HearAck(ch) = Debug!Returned(ds)
    BY DEF Debug!HearAck
  <2>3. QED  BY <2>1, <2>2 DEF Debug!Returned, DbShape
<1>2. CASE ds.phase = "prefix"
  <2>1. Debug!Heard(ch) = Debug!HearPrefix(ch)
    BY <1>2 DEF Debug!Heard
  <2>2. QED  BY <2>1 DEF Debug!HearPrefix, Debug!Returned, DbShape
<1>3. CASE ds.phase = "content"
  <2>1. Debug!Heard(ch) = Debug!HearContent(ch)
    BY <1>3 DEF Debug!Heard
  <2>2. QED  BY <2>1 DEF Debug!HearContent, DbShape
<1>4. QED  BY <1>1, <1>2, <1>3 DEF Debug!Hears

\* A gap remains one.
LEMMA DbGapRemains ==
    ASSUME DbShape(ds), ds.gap \in BOOLEAN, Debug!Next
    PROVE  DbShape(ds') /\ ds'.gap \in BOOLEAN /\ (ds.gap => ds'.gap)
<1>1. ASSUME NEW command \in {"QStartNoAckMode", "other"}, Debug!SendCommand(command)
      PROVE  DbShape(ds') /\ ds'.gap = ds.gap
  BY <1>1 DEF Debug!SendCommand, Debug!Begin, DbShape
<1>2. CASE Debug!SendFails
  BY <1>2 DEF Debug!SendFails, DbShape
<1>3. CASE Debug!ReceiveResponse
  BY <1>3 DEF Debug!ReceiveResponse, Debug!Begin, DbShape
<1>4. CASE Debug!ReceiveChar
  BY <1>4, DbHeard DEF Debug!ReceiveChar
<1>5. CASE Debug!Pause
  <2> DEFINE r == Debug!Heard(Debug!Silence)
  <2>1. DbShape(r) /\ r.gap \in BOOLEAN /\ (ds.gap => r.gap) /\ ds' = [r EXCEPT !.pauses = @ + 1]
    BY <1>5, DbHeard DEF Debug!Pause
  <2> HIDE DEF r
  <2>2. QED  BY <2>1 DEF DbShape
<1>6. CASE Debug!ReceiveEnd
  <2>1. \/ ds' = [ds EXCEPT !.gap = TRUE] \/ ds' = Debug!Heard(Debug!Silence)
    BY <1>6 DEF Debug!ReceiveEnd
  <2>2. CASE ds' = [ds EXCEPT !.gap = TRUE]
    BY <2>2 DEF DbShape
  <2>3. QED  BY <1>6, <2>1, <2>2, DbHeard DEF Debug!ReceiveEnd
<1>7. CASE Debug!Accept
  BY <1>7 DEF Debug!Accept, Debug!Returned, DbShape
<1>8. CASE Debug!Refuse
  BY <1>8 DEF Debug!Refuse, DbShape
<1>9. CASE Debug!DeviceAnswers \/ Debug!DeviceRepeats \/ Debug!DeviceGone
  BY <1>9 DEF Debug!DeviceAnswers, Debug!DeviceRepeats, Debug!DeviceGone
<1>10. QED  BY <1>1, <1>2, <1>3, <1>4, <1>5, <1>6, <1>7, <1>8, <1>9 DEF Debug!Next

\* Between two packets a call begins or ends.
LEMMA DbOther ==
    ASSUME NEW c, NEW d, NEW t, DbSound(c, d, t), c.phase \in {"idle", "ack", "prefix"},
           NEW e \in DbServer, e.stream = d.stream, e.content = d.content, e.up = d.up,
           Len(e.content) + Len(e.asked) <= MaxReplies,
           NEW f, f.buffer \in DbChars, f.phase \in {"idle", "ack", "prefix"},
           f.phase \in {"ack", "prefix"} => f.left = 3
    PROVE  DbSound(f, e, t)
<1>1. PICK at \in [Nat -> Int] : DbPackets(d, at) /\ DbReads(c, d, Len(t), at)
  BY DEF DbSound
<1>2. DbPackets(e, at)
  BY <1>1 DEF DbPackets, DbPacket
<1>3. DbReads(f, e, Len(t), at)
  BY <1>1 DEF DbReads, DbBetween
<1>4. /\ t \in Seq(DbChars) /\ Len(t) <= Len(d.content)
      /\ \A i \in 1..Len(t) : t[i] = d.content[i]
      /\ \A k \in 1..Len(d.content) : \A i \in 1..Len(d.content[k]) :
            d.content[k][i].kind = "content"
  BY DEF DbSound
<1>5. /\ Len(t) <= Len(e.content)
      /\ \A i \in 1..Len(t) : t[i] = e.content[i]
      /\ \A k \in 1..Len(e.content) : \A i \in 1..Len(e.content[k]) :
            e.content[k][i].kind = "content"
  BY <1>4
<1>6. \E x \in [Nat -> Int] : DbPackets(e, x) /\ DbReads(f, e, Len(t), x)
  BY <1>2, <1>3
<1>7. QED  BY <1>4, <1>5, <1>6 DEF DbSound

LEMMA DbBegun ==
    ASSUME NEW command, DbShape(ds), Debug!Begin(command)
    PROVE  ds'.phase \in {"ack", "prefix"} /\ ds'.buffer \in DbChars /\ ds'.left = 3
BY DEF Debug!Begin, Debug!FirstPhase, Debug!HashLength, DbShape, DbChars

LEMMA DbSendCommandSound ==
    ASSUME DbInv, ~ds.gap, NEW command \in {"QStartNoAckMode", "other"},
           Debug!SendCommand(command)
    PROVE  DbSound(ds', gdb', taken')
<1>1. DbShape(ds) /\ DbSound(ds, gdb, taken)
  BY DEF DbInv
<1>2. /\ ds.phase = "idle" /\ Len(gdb.content) + Len(gdb.asked) < MaxReplies
      /\ gdb' = [gdb EXCEPT !.asked = Append(@, command)]
      /\ Debug!Begin(command) /\ taken' = taken
  BY DEF Debug!SendCommand
<1>3. /\ gdb \in DbServer /\ gdb.asked \in Seq({"QStartNoAckMode", "other"})
      /\ Len(gdb.content) \in Nat /\ Len(gdb.asked) \in Nat
  BY <1>1, DbKnown
<1> DEFINE toAsk == Append(gdb.asked, command)
<1>4. toAsk \in Seq({"QStartNoAckMode", "other"}) /\ Len(toAsk) = Len(gdb.asked) + 1
  BY <1>3, Appended
<1>5. gdb' = [gdb EXCEPT !.asked = toAsk]
  BY <1>2
<1> HIDE DEF toAsk
<1>6. /\ gdb' \in DbServer /\ gdb'.stream = gdb.stream /\ gdb'.content = gdb.content
      /\ gdb'.up = gdb.up /\ gdb'.asked = toAsk
  BY <1>3, <1>4, <1>5 DEF DbServer
<1>7. Len(gdb'.content) + Len(gdb'.asked) <= MaxReplies
  <2> DEFINE i == Len(gdb.content)
             j == Len(gdb.asked)
  <2>1. i \in Nat /\ j \in Nat /\ i + j < MaxReplies
    BY <1>2, <1>3
  <2> HIDE DEF i, j
  <2>2. i + (j + 1) <= MaxReplies
    BY <2>1, DbBounds
  <2>3. QED  BY <1>4, <1>6, <2>2 DEF i, j
<1>8. ds'.phase \in {"ack", "prefix"} /\ ds'.buffer \in DbChars /\ ds'.left = 3
  BY <1>1, <1>2, DbBegun
<1>9. QED  BY <1>1, <1>2, <1>6, <1>7, <1>8, DbOther

\* What leaves the device as it is.
LEMMA DbCallSound ==
    ASSUME DbInv, ~ds.gap, ds.phase \in {"idle", "ack", "prefix"}, gdb' = gdb, taken' = taken,
           ds'.buffer \in DbChars, ds'.phase \in {"idle", "ack", "prefix"},
           ds'.phase \in {"ack", "prefix"} => ds'.left = 3
    PROVE  DbSound(ds', gdb', taken')
<1>1. DbSound(ds, gdb, taken)
  BY DEF DbInv
<1>2. gdb \in DbServer /\ Len(gdb.content) + Len(gdb.asked) <= MaxReplies
  BY <1>1 DEF DbSound
<1>3. QED  BY <1>1, <1>2, DbOther

\* A second without a character ends a call but for one within a packet.
LEMMA DbSilenceHeard ==
    ASSUME DbShape(ds), ds.phase \in {"ack", "prefix"}
    PROVE  /\ Debug!Heard(Debug!Silence) = Debug!Returned(ds)
           /\ Debug!Returned(ds).phase = "idle" /\ Debug!Returned(ds).buffer = ds.buffer
           /\ DbShape(Debug!Returned(ds))
<1>1. Debug!Silence.kind = "silence"
  BY DbMark DEF Debug!Silence, Debug!Kind
<1>2. Debug!HearAck(Debug!Silence) = Debug!Returned(ds)
      /\ Debug!HearPrefix(Debug!Silence) = Debug!Returned(ds)
  BY <1>1 DEF Debug!HearAck, Debug!HearPrefix
<1>3. Debug!Heard(Debug!Silence) = Debug!Returned(ds)
  BY <1>2 DEF Debug!Heard
<1>4. QED  BY <1>3 DEF Debug!Returned, DbShape

LEMMA DbQuietSound ==
    ASSUME DbInv, ~ds.gap, ~ds'.gap,
           Debug!SendFails \/ Debug!ReceiveResponse \/ Debug!Pause \/ Debug!ReceiveEnd
    PROVE  DbSound(ds', gdb', taken')
<1>1. DbShape(ds) /\ DbSound(ds, gdb, taken) /\ ds.buffer \in DbChars
  BY DbKnown DEF DbInv
<1>2. CASE Debug!SendFails
  <2>1. /\ ds.phase = "idle" /\ ds' = [ds EXCEPT !.tries = @ + 1]
        /\ gdb' = gdb /\ taken' = taken
    BY <1>2 DEF Debug!SendFails
  <2>2. ds'.phase = "idle" /\ ds'.buffer \in DbChars
    BY <1>1, <2>1 DEF DbShape
  <2>3. QED  BY <2>1, <2>2, DbCallSound
<1>3. CASE Debug!ReceiveResponse
  <2>1. ds.phase = "idle" /\ Debug!Begin("none") /\ gdb' = gdb /\ taken' = taken
    BY <1>3 DEF Debug!ReceiveResponse
  <2>2. ds'.phase \in {"ack", "prefix"} /\ ds'.buffer \in DbChars /\ ds'.left = 3
    BY <1>1, <2>1, DbBegun
  <2>3. QED  BY <2>1, <2>2, DbCallSound
<1>4. CASE Debug!Pause
  <2>1. /\ ds.phase \in {"ack", "prefix", "content"} /\ gdb' = gdb /\ taken' = taken
        /\ ds' = [Debug!Heard(Debug!Silence) EXCEPT !.pauses = @ + 1]
    BY <1>4 DEF Debug!Pause, Debug!Hears
  <2>2. ds.phase # "content"
    <3> SUFFICES ASSUME ds.phase = "content" PROVE ds'.gap
      OBVIOUS
    <3>1. Debug!Heard(Debug!Silence) = Debug!HearContent(Debug!Silence)
      BY DEF Debug!Heard
    <3>2. QED  BY <1>1, <2>1, <3>1 DEF Debug!HearContent, DbShape
  <2>3. ds' = [Debug!Returned(ds) EXCEPT !.pauses = @ + 1]
        /\ DbShape(Debug!Returned(ds)) /\ Debug!Returned(ds).phase = "idle"
        /\ Debug!Returned(ds).buffer = ds.buffer
    BY <1>1, <2>1, <2>2, DbSilenceHeard
  <2>4. ds'.phase = "idle" /\ ds'.buffer \in DbChars
    BY <1>1, <2>3 DEF DbShape
  <2>5. QED  BY <2>1, <2>2, <2>4, DbCallSound
<1>5. CASE Debug!ReceiveEnd
  <2>1. /\ ds.phase \in {"ack", "prefix", "content"} /\ gdb' = gdb /\ taken' = taken
        /\ ds' = IF ds.phase = "content" THEN [ds EXCEPT !.gap = TRUE]
                 ELSE Debug!Heard(Debug!Silence)
    BY <1>5 DEF Debug!ReceiveEnd, Debug!Hears
  <2>2. ds.phase # "content"
    <3> SUFFICES ASSUME ds.phase = "content" PROVE ds'.gap
      OBVIOUS
    <3>1. QED  BY <1>1, <2>1 DEF DbShape
  <2>3. ds'.phase = "idle" /\ ds'.buffer \in DbChars
    BY <1>1, <2>1, <2>2, DbSilenceHeard
  <2>4. QED  BY <2>1, <2>2, <2>3, DbCallSound
<1>6. QED  BY <1>2, <1>3, <1>4, <1>5

\* What the device has sent and was asked stays, but for what is read.
LEMMA DbMade ==
    ASSUME NEW c, NEW d, NEW t, DbSound(c, d, t),
           NEW e \in DbServer, e.content = d.content, e.asked = d.asked,
           NEW at \in [Nat -> Int], DbPackets(e, at),
           NEW f, f.phase \in {"idle", "ack", "prefix", "content", "check"}, f.buffer \in DbChars,
           DbReads(f, e, Len(t), at)
    PROVE  DbSound(f, e, t)
<1>1. /\ t \in Seq(DbChars) /\ Len(t) <= Len(d.content)
      /\ Len(d.content) + Len(d.asked) <= MaxReplies
      /\ \A i \in 1..Len(t) : t[i] = d.content[i]
      /\ \A k \in 1..Len(d.content) : \A i \in 1..Len(d.content[k]) :
            d.content[k][i].kind = "content"
  BY DEF DbSound
<1>2. /\ Len(t) <= Len(e.content)
      /\ Len(e.content) + Len(e.asked) <= MaxReplies
      /\ \A i \in 1..Len(t) : t[i] = e.content[i]
      /\ \A k \in 1..Len(e.content) : \A i \in 1..Len(e.content[k]) :
            e.content[k][i].kind = "content"
  BY <1>1
<1>3. QED  BY <1>1, <1>2 DEF DbSound

\* The beginning of a packet is heard, or an acknowledgement.
LEMMA DbBeginningSound ==
    ASSUME DbInv, ~ds.gap, Debug!ReceiveChar, ds.phase \in {"ack", "prefix"}
    PROVE  DbSound(ds', gdb', taken')
<1>1. /\ DbShape(ds) /\ DbSound(ds, gdb, taken) /\ ds.buffer \in DbChars
      /\ Len(taken) \in Nat /\ gdb.content \in Seq(DbChars)
  BY DbKnown DEF DbInv
<1>2. /\ gdb.stream # << >> /\ ds' = Debug!Heard(Head(gdb.stream))
      /\ gdb' = [gdb EXCEPT !.stream = Tail(@)] /\ taken' = taken
  BY DEF Debug!ReceiveChar
<1>3. PICK at \in [Nat -> Int] : DbPackets(gdb, at) /\ DbReads(ds, gdb, Len(taken), at)
  BY <1>1 DEF DbSound
<1> DEFINE n == Len(taken)
           m == DbLength(gdb.content[n + 1])
           b == [k \in Nat |-> at[k] - 1]
<1>4. /\ gdb' \in DbServer /\ gdb'.content = gdb.content /\ gdb'.asked = gdb.asked
      /\ b \in [Nat -> Int] /\ \A k \in Nat : b[k] = at[k] - 1
      /\ DbPackets(gdb', b)
  <2>1. DbSound(ds, gdb, taken)
    BY <1>1
  <2>2. b \in [Nat -> Int] /\ \A k \in Nat : b[k] = at[k] - 1
    OBVIOUS
  <2> HIDE DEF b
  <2>3. /\ gdb' \in DbServer /\ gdb'.stream = Tail(gdb.stream) /\ gdb'.content = gdb.content
        /\ gdb'.asked = gdb.asked /\ gdb'.up = gdb.up
    BY <1>2, <2>1, DbCharRead
  <2>4. gdb.stream # << >> /\ DbPackets(gdb, at)
    BY <1>2, <1>3
  <2>5. DbPackets(gdb', b)
    BY <2>1, <2>2, <2>3, <2>4, DbShifted
  <2>6. QED  BY <2>2, <2>3, <2>5
<1>5. /\ n < Len(gdb.content) /\ n + 1 \in 1..Len(gdb.content)
      /\ \/ at[n + 1] = m /\ Head(gdb.stream) = Debug!Mark("$")
         \/ at[n + 1] = m + 1 /\ Head(gdb.stream) = Debug!Mark("+")
  <2>1. DbBetween(gdb, Len(taken), at)
    BY <1>3 DEF DbReads
  <2>2. QED  BY <1>1, <1>2, <1>3, <2>1, DbFirst
<1>6. ds.left = 3
  BY <1>3 DEF DbReads
<1>7. n \in Nat /\ n + 1 \in Nat /\ b[n + 1] = at[n + 1] - 1 /\ at[n + 1] \in Int
  BY <1>1, <1>4
<1>8. m \in Nat /\ m >= 4 /\ Debug!Packet(n + 1, gdb.content[n + 1])[1] = Debug!Mark("$")
  <2> DEFINE k == n + 1
  <2>1. k \in 1..Len(gdb.content)
    BY <1>5
  <2> HIDE DEF k
  <2>2. DbSound(ds, gdb, taken)
    BY <1>1
  <2>3. /\ DbLength(gdb.content[k]) \in Nat /\ DbLength(gdb.content[k]) >= 4
        /\ Debug!Packet(k, gdb.content[k])[1] = Debug!Mark("$")
    BY <2>1, <2>2, DbKnownPacket
  <2>4. QED  BY <2>3 DEF k
<1>9. /\ Debug!Mark("$").kind = "$" /\ Debug!Mark("+").kind = "+"
      /\ Debug!Mark("$") \in Debug!Char
  BY DbMark DEF Debug!Kind
<1> HIDE DEF b, m, n
<1>10. DbSound(ds, gdb, taken)
  BY <1>1
<1>11. CASE at[n + 1] = m + 1 /\ Head(gdb.stream) = Debug!Mark("+")
  <2>1. \/ Debug!Heard(Debug!Mark("+")) = [ds EXCEPT !.phase = "prefix"]
        \/ Debug!Heard(Debug!Mark("+")) = Debug!Returned(ds)
    <3>1. CASE ds.phase = "ack"
      BY <1>9, <3>1 DEF Debug!Heard, Debug!HearAck
    <3>2. CASE ds.phase = "prefix"
      BY <1>9, <3>2 DEF Debug!Heard, Debug!HearPrefix
    <3>3. QED  BY <3>1, <3>2
  <2>2. ds'.phase \in {"idle", "prefix"} /\ ds'.buffer = ds.buffer /\ ds'.left = 3
    <3>1. DbShape(ds) /\ ds.left = 3
      BY <1>1, <1>6
    <3>2. ds' = [ds EXCEPT !.phase = "prefix"] \/ ds' = Debug!Returned(ds)
      BY <1>2, <1>11, <2>1
    <3>3. CASE ds' = [ds EXCEPT !.phase = "prefix"]
      BY ONLY <3>1, <3>3 DEF DbShape
    <3>4. CASE ds' = Debug!Returned(ds)
      BY ONLY <3>1, <3>4 DEF Debug!Returned, DbShape
    <3>5. QED  BY <3>2, <3>3, <3>4
  <2>3. b[n + 1] = m
    BY <1>7, <1>8, <1>11
  <2>4. DbBetween(gdb', n, b)
    BY <1>4, <1>5, <2>3 DEF DbBetween, m
  <2>5. DbReads(ds', gdb', n, b)
    BY <2>2, <2>4 DEF DbReads
  <2>6. /\ ds'.phase \in {"idle", "ack", "prefix", "content", "check"} /\ ds'.buffer \in DbChars
        /\ DbReads(ds', gdb', Len(taken), b)
    BY <1>1, <2>2, <2>5 DEF n
  <2>7. DbSound(ds', gdb', taken)
    BY <1>4, <1>10, <2>6, DbMade
  <2>8. QED  BY <1>2, <2>7
<1>12. CASE at[n + 1] = m /\ Head(gdb.stream) = Debug!Mark("$")
  <2> DEFINE dollar == Debug!Mark("$")
  <2>1. Debug!Heard(dollar) = [ds EXCEPT !.phase = "content", !.buffer = <<dollar>>]
    <3>1. CASE ds.phase = "ack"
      BY <1>9, <3>1 DEF Debug!Heard, Debug!HearAck
    <3>2. CASE ds.phase = "prefix"
      BY <1>9, <3>2 DEF Debug!Heard, Debug!HearPrefix
    <3>3. QED  BY <3>1, <3>2
  <2>2. dollar \in Debug!Char
    BY <1>9
  <2> HIDE DEF dollar
  <2>3. ds'.phase = "content" /\ ds'.buffer = <<dollar>> /\ ds'.left = 3
    BY <1>1, <1>2, <1>6, <1>12, <2>1 DEF DbShape, dollar
  <2>4. <<dollar>> \in DbChars /\ Len(<<dollar>>) = 1 /\ <<dollar>>[1] = dollar
        /\ <<dollar>> # << >>
    BY <2>2 DEF DbChars
  <2>5. b[n + 1] = m - 1 /\ m - 1 >= 3 /\ m - 1 \in Int /\ 1 \in 1..m
    BY <1>7, <1>8, <1>12
  <2>6. \A j \in 1..1 : j = 1
    OBVIOUS
  <2>7. DbWithin(ds', gdb', n, b)
    BY <1>4, <1>5, <1>8, <2>3, <2>4, <2>5, <2>6 DEF DbWithin, m, dollar
  <2>8. b[n + 1] > 0 /\ ~(b[n + 1] < 3)
    BY <2>5
  <2>9. DbReads(ds', gdb', n, b)
    BY <2>3, <2>7, <2>8 DEF DbReads
  <2>10. /\ ds'.phase \in {"idle", "ack", "prefix", "content", "check"} /\ ds'.buffer \in DbChars
         /\ DbReads(ds', gdb', Len(taken), b)
    BY <2>3, <2>4, <2>9 DEF n
  <2>11. DbSound(ds', gdb', taken)
    BY <1>4, <1>10, <2>10, DbMade
  <2>12. QED  BY <1>2, <2>11
<1>13. QED  BY <1>5, <1>11, <1>12 DEF m, n

\* A packet goes on as it began.
LEMMA DbContentSound ==
    ASSUME DbInv, ~ds.gap, Debug!ReceiveChar, ds.phase = "content"
    PROVE  DbSound(ds', gdb', taken')
<1>1. /\ DbShape(ds) /\ DbSound(ds, gdb, taken) /\ ds.buffer \in DbChars
      /\ Len(taken) \in Nat /\ gdb.content \in Seq(DbChars) /\ Len(ds.buffer) \in Nat
      /\ gdb.stream \in DbChars
  BY DbKnown DEF DbInv
<1>2. /\ gdb.stream # << >> /\ ds' = Debug!Heard(Head(gdb.stream))
      /\ gdb' = [gdb EXCEPT !.stream = Tail(@)] /\ taken' = taken
  BY DEF Debug!ReceiveChar
<1>3. PICK at \in [Nat -> Int] : DbPackets(gdb, at) /\ DbReads(ds, gdb, Len(taken), at)
  BY <1>1 DEF DbSound
<1> DEFINE n == Len(taken)
           m == DbLength(gdb.content[n + 1])
           p == Debug!Packet(n + 1, gdb.content[n + 1])
           b == [k \in Nat |-> at[k] - 1]
           l == Len(ds.buffer)
           x == at[n + 1]
           ch == Head(gdb.stream)
           next == Append(ds.buffer, ch)
<1>4. /\ gdb' \in DbServer /\ gdb'.content = gdb.content /\ gdb'.asked = gdb.asked
      /\ b \in [Nat -> Int] /\ \A k \in Nat : b[k] = at[k] - 1
      /\ DbPackets(gdb', b)
  <2>1. DbSound(ds, gdb, taken)
    BY <1>1
  <2>2. b \in [Nat -> Int] /\ \A k \in Nat : b[k] = at[k] - 1
    OBVIOUS
  <2> HIDE DEF b
  <2>3. /\ gdb' \in DbServer /\ gdb'.stream = Tail(gdb.stream) /\ gdb'.content = gdb.content
        /\ gdb'.asked = gdb.asked /\ gdb'.up = gdb.up
    BY <1>2, <2>1, DbCharRead
  <2>4. gdb.stream # << >> /\ DbPackets(gdb, at)
    BY <1>2, <1>3
  <2>5. DbPackets(gdb', b)
    BY <2>1, <2>2, <2>3, <2>4, DbShifted
  <2>6. QED  BY <2>2, <2>3, <2>5
<1>5. /\ n < Len(gdb.content) /\ x = m - l /\ ds.buffer # << >>
      /\ \A j \in 1..l : j \in 1..m /\ ds.buffer[j] = p[j]
      /\ x > 0 /\ ds.left = IF x < 3 THEN x ELSE 3
  BY <1>3 DEF DbReads, DbWithin
<1>6. n \in Nat /\ n + 1 \in 1..Len(gdb.content) /\ b[n + 1] = x - 1 /\ x \in Int
  <2> DEFINE z == Len(gdb.content)
  <2>1. z \in Nat /\ n \in Nat /\ n < z
    BY <1>1, <1>5, DbKnown
  <2> HIDE DEF n, z, b
  <2>2. n \in Nat /\ n + 1 \in 1..z /\ n + 1 \in Nat
    BY <2>1
  <2>3. QED  BY <1>4, <2>2 DEF z
<1>7. /\ m \in Nat /\ m >= 4
      /\ \A j \in 1..m : p[j].kind # "silence" /\ (p[j].kind = "#" <=> j = m - 2)
  <2> DEFINE k == n + 1
  <2>1. k \in 1..Len(gdb.content)
    BY <1>6
  <2> HIDE DEF k
  <2>2. DbSound(ds, gdb, taken)
    BY <1>1
  <2>3. /\ DbLength(gdb.content[k]) \in Nat /\ DbLength(gdb.content[k]) >= 4
        /\ \A j \in 1..DbLength(gdb.content[k]) :
              /\ Debug!Packet(k, gdb.content[k])[j].kind # "silence"
              /\ Debug!Packet(k, gdb.content[k])[j].kind = "#"
                 <=> j = DbLength(gdb.content[k]) - 2
    BY <2>1, <2>2, DbKnownPacket
  <2>4. QED  BY <2>3 DEF k
<1>8. l \in Nat /\ l + 1 \in 1..m /\ 1 = x - m + (l + 1)
  <2>1. l \in Nat
    BY <1>1
  <2>2. x = m - l /\ x > 0
    BY <1>5
  <2> HIDE DEF l, m, x
  <2>3. QED  BY <1>7, <2>1, <2>2
<1>9. ch = p[l + 1] /\ ch \in Debug!Char
  <2>1. /\ Head(gdb.stream) = gdb.stream[1] /\ 1 \in 1..Len(gdb.stream)
        /\ ch \in Debug!Char
    BY <1>1, <1>2, Rest DEF DbChars
  <2>2. DbPacket(gdb, at, n + 1)
    BY <1>3, <1>6 DEF DbPackets
  <2>3. \A q \in 1..Len(gdb.stream), j \in 1..m : q = x - m + j => gdb.stream[q] = p[j]
    BY <2>2 DEF DbPacket, DbSpan
  <2> HIDE DEF l, m, x, p
  <2>4. gdb.stream[1] = p[l + 1]
    BY <1>8, <2>1, <2>3
  <2>5. QED  BY <2>1, <2>4
<1>10. ch # Debug!Silence /\ (ch.kind = "#" <=> x = 3)
  <2>1. Debug!Silence.kind = "silence"
    BY DbMark DEF Debug!Silence, Debug!Kind
  <2>2. ch.kind # "silence" /\ (ch.kind = "#" <=> l + 1 = m - 2)
    BY <1>7, <1>8, <1>9
  <2> HIDE DEF l, m, x, ch
  <2>3. l + 1 = m - 2 <=> x = 3
    BY <1>6, <1>7, <1>8
  <2>4. QED  BY <2>1, <2>2, <2>3
<1>11. /\ next \in DbChars /\ Len(next) = l + 1 /\ next[l + 1] = ch
       /\ \A j \in 1..l : next[j] = ds.buffer[j]
  <2>1. ds.buffer \in Seq(Debug!Char)
    BY <1>1 DEF DbChars
  <2> HIDE DEF ch
  <2>2. QED  BY <1>9, <2>1, Appended DEF DbChars
<1>12. next # << >> /\ \A j \in 1..Len(next) : j \in 1..m /\ next[j] = p[j]
  <2> HIDE DEF next, l, m, p, ch
  <2>1. next # << >>
    BY <1>8, <1>11
  <2>2. \A j \in 1..(l + 1) : j \in 1..l \/ j = l + 1
    BY <1>8
  <2>3. QED  BY <1>5, <1>8, <1>9, <1>11, <2>1, <2>2
<1>13. /\ ds'.buffer = next
       /\ ds'.left = IF ds.left < 3 \/ ch.kind = "#" THEN ds.left - 1 ELSE ds.left
       /\ ds'.phase = IF ds.left = 1 THEN "check" ELSE "content"
  <2>1. ds' = Debug!HearContent(ch)
    BY <1>2 DEF Debug!Heard
  <2> HIDE DEF ch
  <2>2. QED  BY <1>1, <2>1 DEF Debug!HearContent, Debug!HashLength, DbShape
<1> DEFINE y == b[n + 1]
           left == ds.left
<1> HIDE DEF n, m, p, b, l, x, ch, next
<1>14. y = x - 1 /\ y = m - Len(next)
  <2>1. y = x - 1 /\ x = m - l /\ Len(next) = l + 1 /\ l \in Nat /\ m \in Nat
    BY <1>5, <1>6, <1>7, <1>8, <1>11
  <2> HIDE DEF y
  <2>2. QED  BY <2>1
<1>15. /\ ds'.phase = IF x = 1 THEN "check" ELSE "content"
       /\ x # 1 => ds'.left = IF y < 3 THEN y ELSE 3
  <2>1. left = IF x < 3 THEN x ELSE 3
    BY <1>5
  <2>2. ds'.left = IF left < 3 \/ x = 3 THEN left - 1 ELSE left
    BY <1>10, <1>13
  <2>3. ds'.phase = IF left = 1 THEN "check" ELSE "content"
    BY <1>13
  <2>4. x \in Nat /\ x > 0
    BY <1>5, <1>6
  <2> HIDE DEF y, left
  <2>5. (left = 1 <=> x = 1) /\ (IF left < 3 \/ x = 3 THEN left - 1 ELSE left)
                                = (IF y < 3 THEN y ELSE 3)
    BY <1>14, <2>1, <2>4
  <2>6. QED  BY <2>2, <2>3, <2>5
<1>16. DbWithin(ds', gdb', n, b)
  BY <1>4, <1>5, <1>12, <1>13, <1>14 DEF DbWithin, m, p
<1>17. (x = 1 => y = 0) /\ (x # 1 => y > 0)
  BY <1>5, <1>6, <1>14
<1>18. DbReads(ds', gdb', n, b)
  BY <1>15, <1>16, <1>17 DEF DbReads
<1>19. /\ ds'.phase \in {"idle", "ack", "prefix", "content", "check"} /\ ds'.buffer \in DbChars
       /\ DbReads(ds', gdb', Len(taken), b)
  BY <1>11, <1>13, <1>15, <1>18 DEF n
<1>20. DbSound(ds, gdb, taken)
  BY <1>1
<1>21. DbSound(ds', gdb', taken)
  BY <1>4, <1>19, <1>20, DbMade
<1>22. QED  BY <1>2, <1>21

LEMMA DbCutOut ==
    ASSUME NEW s \in DbChars, NEW r \in DbChars, Len(s) = Len(r) + 4,
           \A i \in 1..Len(r) : s[i + 1] = r[i]
    PROVE  SubSeq(s, 2, Len(s) - 3) = r
<1> DEFINE n == Len(r)
           w == SubSeq(s, 2, n + 1)
<1>1. n \in Nat /\ Len(s) \in Nat /\ 2 \in Int /\ n + 1 \in Int
      /\ s \in Seq(Debug!Char) /\ r \in Seq(Debug!Char) /\ Len(s) - 3 = n + 1
  BY LenProperties DEF DbChars
<1>2. \A i \in 2..(n + 1) : s[i] \in Debug!Char
  <2>1. \A i \in 2..(n + 1) : i \in 1..Len(s)
    BY <1>1
  <2>2. QED  BY <1>1, <2>1, ElementOfSeq
<1>3. /\ w \in Seq(Debug!Char)
      /\ Len(w) = IF 2 <= n + 1 THEN (n + 1) - 2 + 1 ELSE 0
      /\ \A i \in 1..((n + 1) - 2 + 1) : w[i] = s[2 + i - 1]
  BY <1>1, <1>2, SubSeqProperties
<1> HIDE DEF w, n
<1>4. Len(w) = n
  BY <1>1, <1>3
<1>5. ASSUME NEW i \in 1..n PROVE w[i] = r[i]
  <2>1. i \in 1..((n + 1) - 2 + 1) /\ 2 + i - 1 = i + 1
    BY <1>1
  <2>2. w[i] = s[i + 1]
    BY <1>3, <2>1
  <2>3. QED  BY <2>2 DEF n
<1>6. w = r
  BY <1>1, <1>3, <1>4, <1>5, SeqEqual DEF n
<1>7. QED  BY <1>1, <1>6 DEF w

\* A whole packet in the buffer.
LEMMA DbWhole ==
    ASSUME NEW c, NEW d, NEW t, DbSound(c, d, t), c.phase = "check",
           NEW at \in [Nat -> Int], DbReads(c, d, Len(t), at)
    PROVE  /\ Len(t) + 1 \in 1..Len(d.content) /\ at[Len(t) + 1] = 0
           /\ \A i \in 1..Len(c.buffer) : c.buffer[i].kind # "silence"
           /\ SubSeq(c.buffer, 2, Len(c.buffer) - 3) = d.content[Len(t) + 1]
<1> DEFINE k == Len(t) + 1
           m == DbLength(d.content[k])
           p == Debug!Packet(k, d.content[k])
           l == Len(c.buffer)
           r == d.content[k]
<1>1. /\ Len(t) < Len(d.content) /\ at[k] = m - l /\ at[k] = 0
      /\ \A j \in 1..l : j \in 1..m /\ c.buffer[j] = p[j]
  BY DEF DbReads, DbWithin
<1>2. Len(t) \in Nat /\ Len(d.content) \in Nat /\ l \in Nat /\ c.buffer \in DbChars
  BY DbKnown
<1>3. k \in 1..Len(d.content)
  BY <1>1, <1>2
<1> HIDE DEF k
<1>4. /\ m \in Nat /\ \A j \in 1..m : p[j].kind # "silence"
  BY <1>3, DbKnownPacket
<1>5. /\ r \in DbChars /\ Len(r) \in Nat /\ \A i \in 1..Len(r) : p[i + 1] = r[i]
  <2>1. r \in DbChars /\ \A i \in 1..Len(r) : p[i + 1] = r[i]
    <3>1. /\ k \in 1..MaxReplies /\ r \in DbChars
          /\ \A i \in 1..Len(r) : r[i].kind = "content"
      BY <1>3, DbKnownContent
    <3> HIDE DEF r
    <3>2. \A i \in 1..Len(r) : Debug!Packet(k, r)[i + 1] = r[i]
      BY ONLY <3>1, DbPacketIs
    <3>3. QED  BY <3>1, <3>2 DEF r
  <2> HIDE DEF r
  <2>2. QED  BY <2>1, LenProperties DEF DbChars
<1>6. m = Len(r) + 4
  BY DEF DbLength
<1> HIDE DEF m, p, l, r
<1>7. l = m
  BY <1>1, <1>2, <1>4
<1>8. \A i \in 1..l : c.buffer[i].kind # "silence"
  BY <1>1, <1>4
<1>9. \A i \in 1..Len(r) : c.buffer[i + 1] = r[i]
  <2>1. \A i \in 1..Len(r) : i + 1 \in 1..l
    BY <1>5, <1>6, <1>7
  <2>2. QED  BY <1>1, <1>5, <2>1
<1>10. SubSeq(c.buffer, 2, Len(c.buffer) - 3) = r
  <2>1. Len(c.buffer) = Len(r) + 4
    BY <1>6, <1>7 DEF l
  <2>2. QED  BY <1>2, <1>5, <1>9, <2>1, DbCutOut
<1>11. QED  BY <1>1, <1>3, <1>8, <1>10 DEF k, r, l

LEMMA DbAcceptSound ==
    ASSUME DbInv, ~ds.gap, Debug!Accept PROVE DbSound(ds', gdb', taken')
<1>1. DbShape(ds) /\ DbSound(ds, gdb, taken)
  BY DEF DbInv
<1>2. /\ ds.phase = "check" /\ taken' = Append(taken, Debug!Response)
      /\ ds' = Debug!Returned(ds) /\ gdb' = gdb
  BY DEF Debug!Accept
<1>3. PICK at \in [Nat -> Int] : DbPackets(gdb, at) /\ DbReads(ds, gdb, Len(taken), at)
  BY <1>1 DEF DbSound
<1> DEFINE n == Len(taken)
           r == gdb.content[n + 1]
<1>4. n + 1 \in 1..Len(gdb.content) /\ at[n + 1] = 0 /\ Debug!Response = r
  <2>1. DbSound(ds, gdb, taken)
    BY <1>1
  <2>2. ds.phase = "check" /\ DbReads(ds, gdb, Len(taken), at)
    BY <1>2, <1>3
  <2>3. /\ Len(taken) + 1 \in 1..Len(gdb.content) /\ at[Len(taken) + 1] = 0
        /\ SubSeq(ds.buffer, 2, Len(ds.buffer) - 3) = gdb.content[Len(taken) + 1]
    BY <2>1, <2>2, DbWhole
  <2>4. QED  BY <2>3 DEF Debug!Response, Debug!HashLength
<1>5. /\ taken \in Seq(DbChars) /\ gdb.content \in Seq(DbChars) /\ n \in Nat
      /\ ds.buffer \in DbChars /\ Len(gdb.content) \in Nat
  BY <1>1, DbKnown
<1>6. r \in DbChars
  BY <1>4, <1>5, ElementOfSeq
<1>7. ds'.phase = "idle" /\ ds'.buffer \in DbChars
  BY <1>1, <1>2, <1>5 DEF Debug!Returned, DbShape
<1>8. /\ taken' \in Seq(DbChars) /\ Len(taken') = n + 1 /\ taken'[n + 1] = r
      /\ \A i \in 1..n : taken'[i] = taken[i]
  BY <1>2, <1>4, <1>5, <1>6, Appended
<1>9. Len(taken') <= Len(gdb.content) /\ \A i \in 1..Len(taken') : taken'[i] = gdb.content[i]
  <2>1. \A i \in 1..n : taken[i] = gdb.content[i]
    BY <1>1 DEF DbSound
  <2>2. \A i \in 1..(n + 1) : i \in 1..n \/ i = n + 1
    <3>1. n \in Nat
      BY <1>5
    <3> HIDE DEF n
    <3>2. QED  BY <3>1
  <2>3. n + 1 <= Len(gdb.content)
    BY <1>4, <1>5
  <2>4. QED  BY <1>8, <2>1, <2>2, <2>3
<1>10. DbReads(ds', gdb, n + 1, at)
  BY <1>4, <1>7 DEF DbReads, DbBetween
<1>11. /\ gdb \in DbServer /\ Len(gdb.content) + Len(gdb.asked) <= MaxReplies
       /\ \A k \in 1..Len(gdb.content) : \A i \in 1..Len(gdb.content[k]) :
             gdb.content[k][i].kind = "content"
  BY <1>1 DEF DbSound
<1>12. \E x \in [Nat -> Int] : DbPackets(gdb, x) /\ DbReads(ds', gdb, Len(taken'), x)
  BY <1>3, <1>8, <1>10
<1>13. DbSound(ds', gdb, taken')
  BY <1>7, <1>8, <1>9, <1>11, <1>12 DEF DbSound
<1>14. QED  BY <1>2, <1>13

\* Nothing is refused, and nothing repeated.
LEMMA DbNotRefused ==
    ASSUME DbInv, ~ds.gap PROVE ~Debug!Refuse /\ ~Debug!DeviceRepeats
<1>1. DbSound(ds, gdb, taken)
  BY DEF DbInv
<1>2. ASSUME Debug!Refuse PROVE FALSE
  <2>1. ds.phase = "check" /\ \E i \in DOMAIN ds.buffer : ds.buffer[i] = Debug!Silence
    BY <1>2 DEF Debug!Refuse
  <2>2. PICK at \in [Nat -> Int] : DbReads(ds, gdb, Len(taken), at)
    BY <1>1 DEF DbSound
  <2>3. \A i \in 1..Len(ds.buffer) : ds.buffer[i].kind # "silence"
    BY <1>1, <2>1, <2>2, DbWhole
  <2>4. DOMAIN ds.buffer = 1..Len(ds.buffer)
    BY <1>1, DbKnown, LenProperties DEF DbChars
  <2>5. Debug!Silence.kind = "silence"
    BY DbMark DEF Debug!Silence, Debug!Kind
  <2>6. QED  BY <2>1, <2>3, <2>4, <2>5
<1>3. ASSUME Debug!DeviceRepeats PROVE FALSE
  <2>1. gdb.asked # << >> /\ Head(gdb.asked) = "-"
    BY <1>3 DEF Debug!DeviceRepeats
  <2>2. Head(gdb.asked) \in {"QStartNoAckMode", "other"}
    BY <1>1, <2>1, DbKnown, Rest
  <2>3. QED  BY <2>1, <2>2
<1>4. QED  BY <1>2, <1>3

-----------------------------------------------------------------------------
(* The device.                                                             *)

\* What is added behind the packets moves none of them.
LEMMA DbSpanKept ==
    ASSUME NEW s \in DbChars, NEW a \in DbChars, NEW r \in DbChars, NEW p, NEW m \in Nat,
           NEW x \in Int, NEW y \in Int, DbSpan(s, p, m, x, y), x <= Len(s)
    PROVE  DbSpan(s \o a \o r, p, m, x, y)
<1> DEFINE u == s \o a
           k == Len(s)
           l == Len(a)
<1>1. DbSpan(u, p, m, x, y)
  BY DbSpanJoined
<1>2. u \in DbChars /\ Len(u) = k + l /\ k \in Nat /\ l \in Nat
  BY ConcatProperties, LenProperties DEF DbChars
<1>3. x <= k
  OBVIOUS
<1> HIDE DEF u, k, l
<1>4. x <= Len(u)
  BY <1>2, <1>3
<1>5. DbSpan(u \o r, p, m, x, y)
  BY <1>1, <1>2, <1>4, DbSpanJoined
<1>6. QED  BY <1>5 DEF u

\* The device answers the first request that it has not answered.
LEMMA DbAnswered ==
    ASSUME NEW c, NEW d, NEW t, DbSound(c, d, t), d.up, d.asked # << >>,
           NEW a \in {<< >>, <<Debug!Mark("+")>>}, NEW x \in DbChars,
           \A i \in 1..Len(x) : x[i].kind = "content",
           NEW e \in DbServer, e.asked = Tail(d.asked),
           e.stream = d.stream \o a \o Debug!Packet(Len(d.content) + 1, x),
           e.content = Append(d.content, x)
    PROVE  DbSound(c, e, t)
<1>1. PICK at \in [Nat -> Int] : DbPackets(d, at) /\ DbReads(c, d, Len(t), at)
  BY DEF DbSound
<1> DEFINE z == Len(d.content)
           k == z + 1
           p == Debug!Packet(k, x)
           w == d.stream \o a \o p
           b == [at EXCEPT ![k] = Len(w)]
           s == Len(d.stream)
<1>2. /\ z \in Nat /\ Len(d.asked) \in Nat /\ Len(t) \in Nat /\ Len(t) <= z
      /\ t \in Seq(DbChars) /\ d.stream \in DbChars /\ s \in Nat
      /\ d.content \in Seq(DbChars) /\ d.asked \in Seq({"QStartNoAckMode", "other"})
  BY DbKnown
<1>3. Len(d.content) + Len(d.asked) <= MaxReplies
  BY DEF DbSound
<1>4. Len(e.asked) = Len(d.asked) - 1 /\ Len(d.asked) \in Nat \ {0}
  BY <1>2, Rest
<1>5. k \in 1..MaxReplies /\ k + Len(e.asked) <= MaxReplies
  <2> DEFINE l == Len(d.asked)
             o == Len(e.asked)
  <2>1. l \in Nat \ {0} /\ o = l - 1 /\ z \in Nat /\ z + l <= MaxReplies
    BY <1>2, <1>3, <1>4
  <2> HIDE DEF l, z, o
  <2>2. z + 1 \in 1..MaxReplies /\ (z + 1) + o <= MaxReplies
    BY <2>1, DbBounds
  <2>3. QED  BY <2>2 DEF o
<1>6. /\ e.content \in Seq(DbChars) /\ Len(e.content) = k /\ e.content[k] = x
      /\ \A i \in 1..z : e.content[i] = d.content[i]
  BY <1>2, Appended
<1>7. p \in DbChars /\ Len(p) = DbLength(x)
  BY <1>5, DbPacketIs
<1>8. a \in DbChars
  <2>1. Debug!Mark("+") \in Debug!Char
    BY DbMark DEF Debug!Kind
  <2>2. CASE a = << >>
    BY <2>2 DEF DbChars
  <2>3. CASE a = <<Debug!Mark("+")>>
    BY <2>1, <2>3 DEF DbChars
  <2>4. QED  BY <2>2, <2>3
<1>9. /\ w \in DbChars /\ Len(w) \in Nat /\ s <= Len(w)
      /\ DbSpan(w, p, DbLength(x), Len(w), s)
  <2> HIDE DEF p
  <2>1. /\ w \in DbChars /\ Len(w) \in Nat /\ s <= Len(w)
        /\ DbSpan(w, p, Len(p), Len(w), s)
    BY <1>2, <1>7, DbSpanAdded
  <2>2. QED  BY <1>7, <2>1
<1>10. e.stream = w
  OBVIOUS
<1> HIDE DEF w, p
<1>11. s = at[z] /\ \A i \in 0..z : at[i] <= at[z]
  BY <1>1 DEF DbPackets
<1>12. /\ b \in [Nat -> Int] /\ b[k] = Len(w) /\ k \in Nat /\ k - 1 = z
       /\ \A i \in Nat : i # k => b[i] = at[i]
  <2>1. k \in Nat /\ k - 1 = z
    BY <1>2
  <2> HIDE DEF k
  <2>2. QED  BY <1>9, <2>1
<1>13. /\ \A i \in 0..z : i \in Nat /\ i # k /\ b[i] = at[i]
       /\ \A i \in 1..k : i \in 1..z \/ i = k
       /\ \A i \in 0..k : i \in 0..z \/ i = k
       /\ \A i \in 1..z : i \in 0..z /\ i - 1 \in 0..z
  <2>1. \A i \in 0..z : i \in Nat /\ i # k
    BY <1>2
  <2>2. /\ \A i \in 1..k : i \in 1..z \/ i = k
        /\ \A i \in 0..k : i \in 0..z \/ i = k
        /\ \A i \in 1..z : i \in 0..z /\ i - 1 \in 0..z
    <3>1. z \in Nat
      BY <1>2
    <3> HIDE DEF z
    <3>2. QED  BY <3>1
  <2>3. QED  BY <1>12, <2>1, <2>2
<1> HIDE DEF b, z, k, s
<1>14. ASSUME NEW i \in 1..z PROVE DbPacket(e, b, i)
  <2> DEFINE q == Debug!Packet(i, d.content[i])
             m == DbLength(d.content[i])
  <2>1. DbSpan(d.stream, q, m, at[i], at[i - 1])
    BY <1>1 DEF DbPackets, DbPacket, z
  <2>2. m \in Nat
    BY DbKnownPacket DEF z
  <2>3. /\ at[i] \in Int /\ at[i - 1] \in Int /\ at[i] <= s
        /\ b[i] = at[i] /\ b[i - 1] = at[i - 1] /\ e.content[i] = d.content[i]
    BY <1>6, <1>11, <1>13
  <2> HIDE DEF q, m
  <2>4. DbSpan(w, q, m, at[i], at[i - 1])
    BY <1>2, <1>7, <1>8, <2>1, <2>2, <2>3, DbSpanKept DEF w, s
  <2>5. QED  BY <1>10, <2>3, <2>4 DEF DbPacket, q, m
<1>15. DbPacket(e, b, k)
  <2>1. b[k] = Len(w) /\ b[k - 1] = s
    <3>1. z \in 0..z
      BY <1>2
    <3>2. QED  BY <1>11, <1>12, <1>13, <3>1
  <2>2. QED  BY <1>6, <1>9, <1>10, <2>1 DEF DbPacket, p
<1>16. \A i \in 0..k : b[i] <= b[k]
  <2>1. ASSUME NEW i \in 0..z PROVE b[i] <= b[k]
    <3>1. at[i] \in Int /\ at[z] \in Int /\ at[i] <= at[z] /\ b[i] = at[i]
      BY <1>2, <1>11, <1>13
    <3>2. b[k] = Len(w) /\ at[z] <= Len(w) /\ Len(w) \in Nat
      BY <1>9, <1>11, <1>12
    <3>3. QED  BY <3>1, <3>2
  <2>2. b[k] <= b[k]
    BY <1>9, <1>12
  <2>3. QED  BY <1>13, <2>1, <2>2
<1>17. Len(w) <= b[k] /\ Len(w) = b[k]
  BY <1>9, <1>12
<1>18. DbPackets(e, b)
  <2>1. \A i \in 1..k : DbPacket(e, b, i)
    BY <1>13, <1>14, <1>15
  <2>2. QED  BY <1>6, <1>10, <1>16, <1>17, <2>1 DEF DbPackets
<1>19. DbReads(c, e, Len(t), b)
  <2> DEFINE n == Len(t)
  <2>1. Len(d.content) = z /\ Len(e.content) = k /\ z \in Nat /\ k = z + 1
        /\ n \in Nat /\ n <= z
    BY <1>2, <1>6 DEF z, k
  <2>2. DbReads(c, d, n, at)
    BY <1>1
  <2> HIDE DEF n
  <2>3. n \in 0..z /\ (n < z => n + 1 \in 0..z /\ n + 1 \in 1..z /\ n < k)
    BY <2>1
  <2>4. b[n] = at[n]
    BY <1>13, <2>3
  <2>5. n < z => b[n + 1] = at[n + 1] /\ e.content[n + 1] = d.content[n + 1] /\ n < k
    BY <1>6, <1>13, <2>3
  <2>6. c.phase \in {"idle", "ack", "prefix"} => DbBetween(e, n, b)
    BY <2>1, <2>2, <2>4, <2>5 DEF DbReads, DbBetween
  <2>7. c.phase \in {"content", "check"} => DbWithin(c, e, n, b) /\ n < z
    BY <2>1, <2>2, <2>5 DEF DbReads, DbWithin
  <2>8. DbReads(c, e, n, b)
    BY <2>2, <2>5, <2>6, <2>7 DEF DbReads
  <2>9. QED  BY <2>8 DEF n
<1>20. /\ c.phase \in {"idle", "ack", "prefix", "content", "check"} /\ c.buffer \in DbChars
       /\ \A i \in 1..z : \A j \in 1..Len(d.content[i]) : d.content[i][j].kind = "content"
       /\ \A i \in 1..Len(t) : t[i] = d.content[i]
  BY DEF DbSound, z
<1>21. ASSUME NEW i \in 1..k
       PROVE  \A j \in 1..Len(e.content[i]) : e.content[i][j].kind = "content"
  <2>1. CASE i \in 1..z
    <3>1. e.content[i] = d.content[i]
      BY <1>6, <2>1
    <3>2. QED  BY <1>20, <2>1, <3>1
  <2>2. CASE i = k
    <3>1. e.content[i] = x
      BY <1>6, <2>2
    <3>2. QED  BY <3>1
  <2>3. QED  BY <1>13, <2>1, <2>2
<1>22. Len(t) <= k /\ \A i \in 1..Len(t) : t[i] = e.content[i]
  <2>1. \A i \in 1..Len(t) : i \in 1..z
    BY <1>2
  <2>2. Len(t) <= k
    BY <1>2, <1>12
  <2>3. QED  BY <1>6, <1>20, <2>1, <2>2
<1>23. Len(e.content) + Len(e.asked) <= MaxReplies
  BY <1>5, <1>6
<1>24. \E y \in [Nat -> Int] : DbPackets(e, y) /\ DbReads(c, e, Len(t), y)
  BY <1>12, <1>18, <1>19
<1>25. QED  BY <1>2, <1>6, <1>20, <1>21, <1>22, <1>23, <1>24 DEF DbSound

LEMMA DbAnswersSound ==
    ASSUME DbInv, ~ds.gap, Debug!DeviceAnswers PROVE DbSound(ds', gdb', taken')
<1> DEFINE n == Len(gdb.content) + 1
           a == Debug!Acknowledged
<1>1. DbSound(ds, gdb, taken)
  BY DEF DbInv
<1>2. /\ gdb.up /\ gdb.asked # << >> /\ ds' = ds /\ taken' = taken
  BY DEF Debug!DeviceAnswers
<1>3. PICK x \in {<< >>, <<[kind |-> "content", of |-> n]>>} :
          gdb' = [gdb EXCEPT !.asked = Tail(@),
                             !.noack = @ \/ Head(gdb.asked) = "QStartNoAckMode",
                             !.stream = @ \o a \o Debug!Packet(n, x),
                             !.content = Append(@, x)]
  BY DEF Debug!DeviceAnswers
<1>4. /\ gdb \in DbServer /\ gdb.content \in Seq(DbChars) /\ gdb.stream \in DbChars
      /\ gdb.asked \in Seq({"QStartNoAckMode", "other"}) /\ Len(gdb.content) \in Nat
      /\ Len(gdb.asked) \in Nat
  BY <1>1, DbKnown
<1>5. n \in 1..MaxReplies
  <2> DEFINE i == Len(gdb.content)
             j == Len(gdb.asked)
  <2>1. i \in Nat /\ j \in Nat \ {0} /\ i + j <= MaxReplies
    BY <1>1, <1>2, <1>4, Rest DEF DbSound
  <2> HIDE DEF i, j
  <2>2. i + 1 \in 1..MaxReplies
    BY <2>1, DbBounds
  <2>3. QED  BY <2>2 DEF i
<1> HIDE DEF n
<1>6. x \in DbChars /\ \A i \in 1..Len(x) : x[i].kind = "content"
  <2>1. n \in 0..MaxReplies
    BY <1>5, DbBounds
  <2>2. [kind |-> "content", of |-> n] \in Debug!Char
    BY <2>1 DEF Debug!Char, Debug!Kind
  <2>3. CASE x = << >>
    BY <2>3 DEF DbChars
  <2>4. CASE x = <<[kind |-> "content", of |-> n]>>
    BY <2>2, <2>4 DEF DbChars
  <2>5. QED  BY <1>3, <2>3, <2>4
<1>7. a \in {<< >>, <<Debug!Mark("+")>>}
  BY DEF Debug!Acknowledged
<1> HIDE DEF a
<1> DEFINE w == gdb.stream \o a \o Debug!Packet(n, x)
           v == Append(gdb.content, x)
           u == Tail(gdb.asked)
           y == gdb.noack \/ Head(gdb.asked) = "QStartNoAckMode"
<1>8. /\ w \in DbChars /\ v \in Seq(DbChars) /\ u \in Seq({"QStartNoAckMode", "other"})
      /\ y \in BOOLEAN
  <2>1. Debug!Packet(n, x) \in DbChars
    BY <1>5, <1>6, DbPacketIs
  <2>2. w \in DbChars
    BY <1>4, <1>7, <2>1, DbSpanAdded
  <2>3. QED  BY <1>2, <1>4, <1>6, <2>2, Appended, Rest
<1>9. gdb' = [gdb EXCEPT !.asked = u, !.noack = y, !.stream = w, !.content = v]
  BY <1>3
<1> HIDE DEF w, v, u, y
<1>10. /\ gdb' \in DbServer /\ gdb'.asked = u /\ gdb'.stream = w /\ gdb'.content = v
  BY <1>4, <1>8, <1>9 DEF DbServer
<1>11. /\ gdb'.asked = Tail(gdb.asked) /\ gdb'.content = Append(gdb.content, x)
       /\ gdb'.stream = gdb.stream \o a \o Debug!Packet(Len(gdb.content) + 1, x)
  BY <1>10 DEF u, v, w, n
<1>12. DbSound(ds, gdb', taken)
  BY <1>1, <1>2, <1>6, <1>7, <1>10, <1>11, DbAnswered
<1>13. QED  BY <1>2, <1>12

\* The connection ends, and what is under way may be lost.
LEMMA DbGoneSound ==
    ASSUME DbInv, ~ds.gap, Debug!DeviceGone PROVE DbSound(ds', gdb', taken')
<1>1. DbSound(ds, gdb, taken)
  BY DEF DbInv
<1>2. PICK n \in 0..Len(gdb.stream) :
          gdb' = [gdb EXCEPT !.up = FALSE, !.stream = SubSeq(@, 1, n)]
  BY DEF Debug!DeviceGone
<1>3. ds' = ds /\ taken' = taken
  BY DEF Debug!DeviceGone
<1>4. PICK at \in [Nat -> Int] : DbPackets(gdb, at) /\ DbReads(ds, gdb, Len(taken), at)
  BY <1>1 DEF DbSound
<1>5. /\ gdb \in DbServer /\ gdb.stream \in DbChars /\ Len(gdb.stream) \in Nat
      /\ Len(gdb.content) \in Nat
  BY <1>1, DbKnown
<1> DEFINE w == SubSeq(gdb.stream, 1, n)
           z == Len(gdb.content)
<1>6. w \in DbChars /\ Len(w) = n
  <2>1. \A i \in 1..n : i \in 1..Len(gdb.stream)
    BY <1>5
  <2>2. gdb.stream \in Seq(Debug!Char)
    BY <1>5 DEF DbChars
  <2>3. 1 \in Int /\ n \in Int /\ \A i \in 1..n : gdb.stream[i] \in Debug!Char
    BY <1>5, <2>1, <2>2, ElementOfSeq
  <2>4. w \in Seq(Debug!Char) /\ Len(w) = IF 1 <= n THEN n - 1 + 1 ELSE 0
    BY <2>3, SubSeqProperties
  <2>5. QED  BY <1>5, <2>4 DEF DbChars
<1>7. gdb' = [gdb EXCEPT !.up = FALSE, !.stream = w]
  BY <1>2
<1> HIDE DEF w
<1>8. /\ gdb' \in DbServer /\ gdb'.stream = w /\ gdb'.content = gdb.content
      /\ gdb'.asked = gdb.asked /\ ~gdb'.up
  BY <1>5, <1>6, <1>7 DEF DbServer
<1>9. ASSUME NEW k \in 1..z PROVE DbPacket(gdb', at, k)
  <2> DEFINE q == Debug!Packet(k, gdb.content[k])
             m == DbLength(gdb.content[k])
  <2>1. DbSpan(gdb.stream, q, m, at[k], at[k - 1])
    BY <1>4 DEF DbPackets, DbPacket
  <2>2. m \in Nat
    BY <1>1, DbKnownPacket
  <2>3. at[k] \in Int /\ at[k - 1] \in Int
    <3>1. z \in Nat
      BY <1>5
    <3> HIDE DEF z
    <3>2. QED  BY <3>1
  <2> HIDE DEF q, m
  <2>4. DbSpan(w, q, m, at[k], at[k - 1])
    BY <1>5, <2>1, <2>2, <2>3, DbSpanCut DEF w
  <2>5. QED  BY <1>8, <2>4 DEF DbPacket, q, m
<1>10. Len(w) <= at[z] /\ \A k \in 0..z : at[k] <= at[z]
  <2>1. Len(gdb.stream) <= at[z] /\ \A k \in 0..z : at[k] <= at[z]
    BY <1>4 DEF DbPackets
  <2>2. at[z] \in Int /\ n <= Len(gdb.stream) /\ n \in Nat
    BY <1>5
  <2> DEFINE u == at[z]
             l == Len(gdb.stream)
  <2>3. u \in Int /\ l \in Nat /\ n \in Nat /\ n <= l /\ l <= u
    BY <1>5, <2>1, <2>2
  <2> HIDE DEF u, l
  <2>4. n <= u
    BY <2>3
  <2>5. QED  BY <1>6, <2>1, <2>4 DEF u
<1>11. DbPackets(gdb', at)
  BY <1>8, <1>9, <1>10 DEF DbPackets
<1>12. DbReads(ds, gdb', Len(taken), at)
  BY <1>4, <1>8 DEF DbReads, DbBetween, DbWithin
<1>13. ds.phase \in {"idle", "ack", "prefix", "content", "check"} /\ ds.buffer \in DbChars
  BY <1>1 DEF DbSound
<1>14. DbSound(ds, gdb', taken)
  BY <1>1, <1>8, <1>11, <1>12, <1>13, DbMade
<1>15. QED  BY <1>3, <1>14

-----------------------------------------------------------------------------
LEMMA DbInitInv == ASSUME Debug!Init PROVE DbInv
<1>1. DbShape(ds) /\ ds.phase = "idle" /\ ds.buffer = << >> /\ ds.gap = FALSE
  BY DEF Debug!Init, DbShape
<1>2. /\ gdb \in DbServer /\ gdb.content = << >> /\ gdb.stream = << >> /\ gdb.asked = << >>
      /\ taken = << >>
  BY DEF Debug!Init, DbServer, DbChars
<1> DEFINE at == [k \in Nat |-> 0]
<1>3. at \in [Nat -> Int] /\ at[0] = 0
  OBVIOUS
<1> HIDE DEF at
<1>4. Len(<< >>) = 0 /\ << >> \in DbChars /\ << >> \in Seq(DbChars)
  BY DEF DbChars
<1>5. DbPackets(gdb, at)
  <2>1. \A k \in 0..0 : k = 0
    OBVIOUS
  <2>2. ~\E k \in 1..0 : TRUE
    OBVIOUS
  <2>3. QED  BY <1>2, <1>3, <1>4, <2>1, <2>2 DEF DbPackets
<1>6. DbReads(ds, gdb, Len(taken), at)
  BY <1>1, <1>2, <1>3, <1>4 DEF DbReads, DbBetween
<1>7. /\ Len(gdb.content) + Len(gdb.asked) <= MaxReplies /\ Len(taken) <= Len(gdb.content)
      /\ 1..Len(gdb.content) = {} /\ 1..Len(taken) = {}
  BY <1>2, <1>4, DbBounds
<1>8. \E x \in [Nat -> Int] : DbPackets(gdb, x) /\ DbReads(ds, gdb, Len(taken), x)
  BY <1>3, <1>5, <1>6
<1>9. DbSound(ds, gdb, taken)
  BY <1>1, <1>2, <1>4, <1>7, <1>8 DEF DbSound
<1>10. QED  BY <1>1, <1>9 DEF DbInv

LEMMA DbNextInv == ASSUME DbInv, Debug!Next PROVE DbInv'
<1>1. DbShape(ds') /\ ds'.gap \in BOOLEAN /\ (ds.gap => ds'.gap)
  BY DbGapRemains DEF DbInv
<1>2. ASSUME ~ds'.gap PROVE DbSound(ds', gdb', taken')
  <2>1. ~ds.gap
    BY <1>1, <1>2
  <2>2. CASE Debug!ReceiveChar
    <3>1. ds.phase \in {"ack", "prefix", "content"}
      BY <2>2 DEF Debug!ReceiveChar, Debug!Hears
    <3>2. QED  BY <2>1, <2>2, <3>1, DbBeginningSound, DbContentSound
  <2>3. QED
    BY <1>2, <2>1, <2>2, DbSendCommandSound, DbQuietSound, DbAcceptSound, DbNotRefused,
       DbAnswersSound, DbGoneSound DEF Debug!Next
<1>3. QED  BY <1>1, <1>2 DEF DbInv

LEMMA DbServicesInv == ASSUME DbInv, [ServicesNext]_all PROVE DbInv'
<1>1. CASE UNCHANGED debugVars
  BY <1>1 DEF DbInv, debugVars, Debug!vars
<1>2. CASE Debug!Next
  BY <1>2, DbNextInv
<1>3. UNCHANGED debugVars \/ Debug!Next
  BY DEF ServicesNext, all, Only, PlistRuns, SrRuns, ServerRuns
<1>4. QED  BY <1>1, <1>2, <1>3

\* debugserver.c returns the contents of the device's packets in their order, none left out
\* and none twice, however many calls give up between two packets or before one, as long as
\* none does so within the content of a packet.
THEOREM PacketsAreInOrder == ServicesSpec => []PacketsInOrder
<1>1. ServicesInit => DbInv
  BY DbInitInv DEF ServicesInit
<1>2. DbInv /\ [ServicesNext]_all => DbInv'
  BY DbServicesInv
<1>3. DbInv => PacketsInOrder
  <2>1. SUFFICES ASSUME DbSound(ds, gdb, taken), NEW i \in DOMAIN taken
                 PROVE  i \in DOMAIN gdb.content /\ taken[i] = gdb.content[i]
    BY DEF DbInv, PacketsInOrder, Debug!PacketsInOrder
  <2>2. /\ taken \in Seq(DbChars) /\ gdb.content \in Seq(DbChars) /\ Len(taken) \in Nat
        /\ Len(gdb.content) \in Nat /\ Len(taken) <= Len(gdb.content)
    BY <2>1, DbKnown
  <2>3. DOMAIN taken = 1..Len(taken) /\ DOMAIN gdb.content = 1..Len(gdb.content)
    BY <2>2, LenProperties
  <2>4. i \in 1..Len(gdb.content)
    BY <2>1, <2>2, <2>3
  <2>5. QED  BY <2>1, <2>3, <2>4 DEF DbSound
<1>4. QED  BY <1>1, <1>2, <1>3, PTL DEF ServicesSpec

-----------------------------------------------------------------------------
(* InstallerServer. It accepts one client at a time, but the clients it    *)
(* has let go may still have a loop or a command that ends. SvInv says     *)
(* whose turn it is, what those before may still do, and that each         *)
(* client's output is the concatenation (FlattenSeq) of what its commands  *)
(* have sent.                                                              *)

SvWord == Command \cup {"word", "long"}

SvPart == {"0", "1", "size", "text", "PONG"}

SvConn == [memory : {"none", "live", "freed"}, thread : BOOLEAN,
           peer : {"none", "open", "closed"}, input : Seq(SvWord), output : Seq(SvPart)]

SvLoop == [pc : {"none", "receive", "null", "done", "dead"}, handler : Command \cup {"none"},
           expected : Nat, params : Nat]

SvCommand == [pc : {"begin", "send", "exit", "done"}, cmd : Command, from : Server!Client,
              params : Nat, sent : Nat, parts : Seq(SvPart)]

\* The clients, and who comes after the last.
SvLasts == 1..(MaxClients + 1)

SvWaits == {"none", "lock", "read", "join", "nobody", "delete", "accept", "handle", "store",
            "done", "deaf"}

SvTyped ==
    /\ conns \in [Server!Client -> SvConn] /\ loops \in [Server!Client -> SvLoop]
    /\ acceptors \in [SvLasts -> SvWaits] /\ commands \in Seq(SvCommand)

SvShape(p) ==
    /\ p = [mutex |-> p.mutex, m_pConnection |-> p.m_pConnection,
            pConnection |-> p.pConnection, messages |-> p.messages, deleted |-> p.deleted,
            ended |-> p.ended, undefined |-> p.undefined, struck |-> p.struck,
            careless |-> p.careless]
    /\ p.careless \in Nat /\ p.deleted \in BOOLEAN

\* What each command has sent to a client.
SvGiven(cs, k) ==
    [r \in 1..Len(cs) |->
        IF cs[r].from = k THEN SubSeq(cs[r].parts, 1, cs[r].sent) ELSE << >>]

SvAnswered ==
    \A k \in Server!Client : conns[k].output = Server!FlattenSeq(SvGiven(commands, k))

SvIdle == \A r \in 1..Len(commands) : commands[r].pc = "done"

\* Where a command is: it has all its parameters, and sends its answer.
SvRuns(c) ==
    /\ c.params = Server!Arity(c.cmd)
    /\ c.pc = "begin" => c.sent = 0 /\ c.parts = << >>
    /\ c.pc # "begin" => /\ c.parts \in {Server!Answer(c.cmd, ok) : ok \in BOOLEAN}
                         /\ IF c.pc = "send" THEN c.sent < Len(c.parts)
                            ELSE c.sent = Len(c.parts)

\* The client whose turn it is has not come yet.
SvEarly == {"lock", "read", "join", "delete", "accept", "deaf"}

\* Those before have gone, and all but the last one's loop has ended.
SvGone(n) ==
    \A j \in Server!Client : j < n =>
        /\ acceptors[j] = "done" /\ conns[j].peer = "closed"
        /\ loops[j].pc = "done" \/
           (/\ loops[j].pc = "null" /\ j + 1 = n /\ acceptors[n] \in {"lock", "read", "join"}
            /\ conns[j].thread /\ conns[j].memory = "live")

\* Those that come have nothing yet.
SvComing(n) ==
    /\ \A j \in SvLasts : j > n => acceptors[j] = "none"
    /\ \A j \in Server!Client : j > n \/ (j = n /\ acceptors[n] \in SvEarly) =>
          /\ conns[j].peer = "none" /\ loops[j].pc = "none" /\ conns[j].input = << >>
          /\ loops[j].handler = "none" /\ loops[j].params = 0

\* At most one message is under way: all of it, the rest of it, or its command.
SvMessage(n) ==
    LET l == loops[n]
        input == conns[n].input
    IN  /\ input # << >> \/ l.handler # "none" \/ l.pc = "dead" \/ conns[n].peer = "closed"
              => SvIdle
        /\ conns[n].peer = "closed" => input = << >>
        /\ l.pc # "dead" /\ l.handler = "none" =>
              l.params = 0 /\ (input = << >> \/ \E cmd \in Command : input = Server!Message(cmd))
        /\ l.pc # "dead" /\ l.handler # "none" =>
              /\ l.expected # 0 /\ l.params + l.expected = Server!Arity(l.handler)
              /\ Len(input) = l.expected /\ \A i \in 1..Len(input) : input[i] = "word"

\* The thread that waits for the client whose turn it is.
SvStage(n) ==
    /\ acceptors[n] # "none"
    /\ acceptors[n] \in {"lock", "read", "join", "delete"} => pmas.m_pConnection = n - 1
    /\ acceptors[n] \in {"read", "join", "delete"} => n > 1
    /\ acceptors[n] \in {"delete", "accept"} /\ n > 1 => loops[n - 1].pc = "done"
    /\ acceptors[n] \in SvEarly => SvIdle

\* The client whose turn it is, once it has come, has the server for itself.
SvPresent(n) ==
    acceptors[n] \notin SvEarly =>
        /\ n \in Server!Client /\ conns[n].memory = "live" /\ pmas.m_pConnection = n
        /\ SvMessage(n)
        /\ conns[n].peer = "open" \/ (conns[n].peer = "closed" /\ acceptors[n] = "done")
        /\ acceptors[n] = "handle" => loops[n].pc = "none" /\ SvIdle
        /\ acceptors[n] # "handle" => loops[n].pc \in {"receive", "dead"} /\ pmas.pConnection = n
        /\ acceptors[n] = "done" => conns[n].thread
        /\ \A r \in 1..Len(commands) :
              commands[r].pc # "done" => r = Len(commands) /\ commands[r].from = n

\* It is the turn of client n, or of nobody any more.
SvTurn(n) == SvStage(n) /\ SvGone(n) /\ SvComing(n) /\ SvPresent(n)

SvCareful == pmas.careless = 0 /\ ~pmas.deleted

SvCorrect == \A r \in 1..Len(commands) : SvRuns(commands[r])

SvUnharmed == ~pmas.undefined /\ ~pmas.ended /\ ~pmas.struck

SvSound ==
    SvUnharmed /\ SvTyped /\ SvAnswered /\ SvCorrect /\ \E n \in SvLasts : SvTurn(n)

\* The loop has stored NULL between the two reads of Stop, and nobody is joined.
SvLost ==
    /\ ~pmas.ended /\ ~pmas.struck /\ SvTyped /\ SvAnswered /\ SvCorrect
    /\ pmas.undefined /\ \E k \in SvLasts : acceptors[k] = "nobody"

SvInv == SvShape(pmas) /\ (SvCareful => SvSound \/ SvLost)

-----------------------------------------------------------------------------
(* What FlattenSeq does, by induction: a set of numbers has a least.       *)

Below1 == {p \in Nat \X Nat : p[1] < p[2]}

LEMMA LeastNumber ==
    ASSUME NEW T \in SUBSET Nat, T # {}
    PROVE  \E x \in T : \A y \in T : x <= y
<1>1. IsWellFoundedOn(Below1, Nat)
  BY NatLessThanWellFounded DEF OpToRel, Below1
<1>2. PICK x \in T : \A y \in T : ~(<<y, x>> \in Below1)
  BY <1>1, WFMin
<1>3. ASSUME NEW y \in T PROVE x <= y
  <2>1. <<y, x>> \in Below1 <=> y < x
    BY DEF Below1
  <2>2. QED  BY <1>2, <2>1
<1>4. QED  BY <1>3

\* The function that FlattenSeq is the last value of.
IsFlat(f, s, n) == f = [i \in 1..n |-> IF i = 1 THEN s[i] ELSE f[i - 1] \o s[i]]

LEMMA FlatExists == ASSUME NEW s, NEW n \in Nat PROVE \E f : IsFlat(f, s, n)
<1> DEFINE T == {m \in Nat : ~\E f : IsFlat(f, s, m)}
<1>1. SUFFICES ASSUME T # {} PROVE FALSE
  OBVIOUS
<1>2. PICK m \in T : \A k \in T : m <= k
  BY <1>1, LeastNumber
<1>3. m \in Nat /\ ~\E f : IsFlat(f, s, m)
  OBVIOUS
<1>4. CASE m = 0
  <2> DEFINE f == [i \in 1..0 |-> 0]
  <2>1. f = [i \in 1..0 |-> IF i = 1 THEN s[i] ELSE f[i - 1] \o s[i]]
    OBVIOUS
  <2>2. QED  BY <1>3, <1>4, <2>1 DEF IsFlat
<1>5. CASE m # 0
  <2>1. m - 1 \in Nat /\ ~(m <= m - 1)
    BY <1>3, <1>5
  <2>2. m - 1 \notin T
    BY <1>2, <2>1
  <2>3. PICK f : IsFlat(f, s, m - 1)
    BY <2>1, <2>2
  <2> DEFINE g == [i \in 1..m |-> IF i = m
                                  THEN IF m = 1 THEN s[m] ELSE f[m - 1] \o s[m]
                                  ELSE f[i]]
  <2>4. ASSUME NEW i \in 1..m PROVE g[i] = IF i = 1 THEN s[i] ELSE g[i - 1] \o s[i]
    <3>1. CASE i = m /\ m = 1
      BY <3>1
    <3>2. CASE i = m /\ m # 1
      <4>1. m - 1 \in 1..m /\ m - 1 # m
        BY <1>3, <3>2
      <4>2. g[m - 1] = f[m - 1]
        BY <4>1
      <4>3. g[m] = f[m - 1] \o s[m]
        BY <3>2
      <4>4. QED  BY <3>2, <4>2, <4>3
    <3>3. CASE i # m
      <4>1. i \in 1..(m - 1) /\ i \in Int
        BY <1>3, <3>3
      <4>2. f[i] = IF i = 1 THEN s[i] ELSE f[i - 1] \o s[i]
        BY <2>3, <4>1 DEF IsFlat
      <4>3. g[i] = f[i]
        BY <3>3
      <4>4. CASE i = 1
        BY <4>2, <4>3, <4>4
      <4>5. CASE i # 1
        <5>1. i - 1 \in 1..m /\ i - 1 # m
          BY <1>3, <4>1, <4>5
        <5>2. g[i - 1] = f[i - 1]
          BY <5>1
        <5>3. QED  BY <4>2, <4>3, <4>5, <5>2
      <4>6. QED  BY <4>4, <4>5
    <3>4. QED  BY <3>1, <3>2, <3>3
  <2> DEFINE h == [i \in 1..m |-> IF i = 1 THEN s[i] ELSE g[i - 1] \o s[i]]
  <2>5. g = h
    <3>1. \A i \in 1..m : g[i] = h[i]
      BY <2>4
    <3>2. DOMAIN g = 1..m /\ DOMAIN h = 1..m
      OBVIOUS
    <3>3. g = [i \in 1..m |-> g[i]] /\ h = [i \in 1..m |-> h[i]]
      OBVIOUS
    <3> HIDE DEF g, h
    <3>4. QED  BY <3>1, <3>3
  <2>6. IsFlat(g, s, m)
    BY <2>5 DEF IsFlat
  <2>7. QED  BY <1>3, <2>6
<1>6. QED  BY <1>4, <1>5

LEMMA FlatTyped ==
    ASSUME NEW S, NEW s \in Seq(Seq(S)), NEW f, IsFlat(f, s, Len(s))
    PROVE  \A i \in 1..Len(s) : f[i] \in Seq(S)
<1> DEFINE n == Len(s)
           T == {i \in 1..n : f[i] \notin Seq(S)}
<1>1. SUFFICES ASSUME T # {} PROVE FALSE
  OBVIOUS
<1>2. n \in Nat /\ \A i \in 1..n : s[i] \in Seq(S)
  BY LenProperties, ElementOfSeq
<1> HIDE DEF n
<1>3. PICK i \in T : \A j \in T : i <= j
  <2>1. T \in SUBSET Nat
    BY <1>2
  <2>2. QED  BY <1>1, <2>1, LeastNumber
<1>4. i \in 1..n /\ f[i] \notin Seq(S) /\ i \in Nat /\ IsFlat(f, s, n)
  BY <1>2 DEF n
<1> DEFINE p == f[i - 1]
<1>a. f[i] = (IF i = 1 THEN s[i] ELSE p \o s[i])
  BY <1>4 DEF IsFlat
<1>5. CASE i = 1
  BY <1>2, <1>4, <1>5, <1>a
<1>6. CASE i # 1
  <2>1. i - 1 \in 1..n /\ ~(i <= i - 1)
    BY <1>2, <1>4, <1>6
  <2>2. f[i - 1] \in Seq(S)
    BY <1>3, <2>1
  <2>3. f[i] = f[i - 1] \o s[i]
    BY <1>6, <1>a
  <2>4. QED  BY <1>2, <1>4, <2>2, <2>3, ConcatProperties
<1>7. QED  BY <1>5, <1>6

LEMMA FlattenIsFlat ==
    ASSUME NEW s, Len(s) \in Nat \ {0}
    PROVE  \E f : IsFlat(f, s, Len(s)) /\ Server!FlattenSeq(s) = f[Len(s)]
<1> DEFINE f == CHOOSE g : g = [i \in 1..Len(s) |-> IF i = 1 THEN s[i] ELSE g[i - 1] \o s[i]]
<1>1. \E g : g = [i \in 1..Len(s) |-> IF i = 1 THEN s[i] ELSE g[i - 1] \o s[i]]
  BY FlatExists DEF IsFlat
<1>2. f = [i \in 1..Len(s) |-> IF i = 1 THEN s[i] ELSE f[i - 1] \o s[i]]
  BY <1>1
<1>3. Server!FlattenSeq(s) = f[Len(s)]
  BY DEF Server!FlattenSeq
<1> HIDE DEF f
<1>4. QED  BY <1>2, <1>3 DEF IsFlat

LEMMA FlattenEmpty == Server!FlattenSeq(<< >>) = << >>
  BY DEF Server!FlattenSeq

LEMMA FlattenTyped ==
    ASSUME NEW S, NEW s \in Seq(Seq(S)) PROVE Server!FlattenSeq(s) \in Seq(S)
<1>1. Len(s) \in Nat
  BY LenProperties
<1>2. CASE Len(s) = 0
  <2>1. s = << >>
    BY <1>2, EmptySeq
  <2>2. << >> \in Seq(S)
    BY EmptySeq
  <2>3. QED  BY <2>1, <2>2, FlattenEmpty
<1>3. CASE Len(s) # 0
  <2>1. PICK f : IsFlat(f, s, Len(s)) /\ Server!FlattenSeq(s) = f[Len(s)]
    BY <1>1, <1>3, FlattenIsFlat
  <2>2. Len(s) \in 1..Len(s)
    BY <1>1, <1>3
  <2>3. QED  BY <2>1, <2>2, FlatTyped
<1>4. QED  BY <1>2, <1>3

LEMMA FlattenAppended ==
    ASSUME NEW S, NEW s \in Seq(Seq(S)), NEW x \in Seq(S)
    PROVE  Server!FlattenSeq(Append(s, x)) = Server!FlattenSeq(s) \o x
<1> DEFINE t == Append(s, x)
           n == Len(s)
<1>1. /\ n \in Nat /\ t \in Seq(Seq(S)) /\ Len(t) = n + 1 /\ t[n + 1] = x
      /\ \A i \in 1..n : t[i] = s[i]
  BY LenProperties, Appended
<1> HIDE DEF t
<1>2. PICK g : IsFlat(g, t, n + 1) /\ Server!FlattenSeq(t) = g[n + 1]
  <2>1. Len(t) \in Nat \ {0}
    BY <1>1
  <2>2. QED  BY <1>1, <2>1, FlattenIsFlat
<1>3. n + 1 \in Nat /\ n + 1 \in 1..(n + 1)
  BY <1>1
<1>4. CASE n = 0
  <2>1. s = << >>
    BY <1>4, EmptySeq
  <2>2. g[n + 1] = t[n + 1]
    BY <1>2, <1>3, <1>4 DEF IsFlat
  <2>3. << >> \o x = x
    BY ConcatEmptySeq
  <2>4. QED  BY <1>1, <1>2, <2>1, <2>2, <2>3, FlattenEmpty DEF t
<1>5. CASE n # 0
  <2>1. PICK f : IsFlat(f, s, n) /\ Server!FlattenSeq(s) = f[n]
    BY <1>1, <1>5, FlattenIsFlat
  <2>2. n \in 1..n /\ n <= n + 1 /\ n <= n /\ n + 1 # 1 /\ (n + 1) - 1 = n
    BY <1>1, <1>5
  <2>3. f[n] = g[n]
    <3>1. n \in Nat /\ IsFlat(f, s, n) /\ IsFlat(g, t, n + 1) /\ \A i \in 1..n : s[i] = t[i]
      BY <1>1, <1>2, <2>1
    <3> HIDE DEF n
    <3>2. \A i \in 1..n : f[i] = g[i]
      <4> USE <3>1
      <4> DEFINE T == {i \in 1..n : f[i] # g[i]}
      <4>1. SUFFICES ASSUME T # {} PROVE FALSE
        OBVIOUS
      <4>2. PICK i \in T : \A j \in T : i <= j
        <5>1. T \in SUBSET Nat
          OBVIOUS
        <5>2. QED  BY <4>1, <5>1, LeastNumber
      <4>3. i \in 1..n /\ f[i] # g[i] /\ i \in 1..(n + 1) /\ i \in Nat
        OBVIOUS
      <4> DEFINE p == f[i - 1]
                 q == g[i - 1]
      <4>a. f[i] = (IF i = 1 THEN s[i] ELSE p \o s[i])
        BY <4>3 DEF IsFlat
      <4>b. g[i] = (IF i = 1 THEN t[i] ELSE q \o t[i])
        BY <4>3 DEF IsFlat
      <4>4. CASE i = 1
        BY <4>3, <4>4, <4>a, <4>b
      <4>5. CASE i # 1
        <5>1. i - 1 \in 1..n /\ ~(i <= i - 1)
          BY <4>3, <4>5
        <5>2. f[i - 1] = g[i - 1]
          BY <4>2, <5>1
        <5>3. f[i] = f[i - 1] \o s[i] /\ g[i] = g[i - 1] \o t[i]
          BY <4>5, <4>a, <4>b
        <5>4. QED  BY <4>3, <5>2, <5>3
      <4>6. QED  BY <4>4, <4>5
    <3>3. QED  BY <2>2, <3>2
  <2> DEFINE p == g[(n + 1) - 1]
  <2>a. g[n + 1] = (IF n + 1 = 1 THEN t[n + 1] ELSE p \o t[n + 1])
    BY <1>2, <1>3 DEF IsFlat
  <2>4. g[n + 1] = g[n] \o t[n + 1]
    BY <2>2, <2>a
  <2>5. QED  BY <1>1, <1>2, <2>1, <2>3, <2>4 DEF t
<1>6. QED  BY <1>4, <1>5

LEMMA JoinedAppended ==
    ASSUME NEW S, NEW s \in Seq(S), NEW p \in Seq(S), NEW x \in S
    PROVE  s \o Append(p, x) = Append(s \o p, x)
<1> DEFINE u == s \o p
           v == Append(p, x)
           a == s \o v
           b == Append(u, x)
           k == Len(s)
           l == Len(p)
<1>1. /\ k \in Nat /\ l \in Nat /\ u \in Seq(S) /\ Len(u) = k + l
      /\ \A i \in 1..(k + l) : u[i] = IF i <= k THEN s[i] ELSE p[i - k]
  BY LenProperties, ConcatProperties
<1>2. v \in Seq(S) /\ Len(v) = l + 1 /\ v[l + 1] = x /\ \A i \in 1..l : v[i] = p[i]
  BY Appended
<1> HIDE DEF u, v
<1>3. /\ a \in Seq(S) /\ Len(a) = k + Len(v)
      /\ \A i \in 1..(k + Len(v)) : a[i] = IF i <= k THEN s[i] ELSE v[i - k]
  BY <1>2, ConcatProperties
<1>4. /\ b \in Seq(S) /\ Len(b) = Len(u) + 1 /\ b[Len(u) + 1] = x
      /\ \A i \in 1..Len(u) : b[i] = u[i]
  BY <1>1, Appended
<1> HIDE DEF a, b, k, l
<1>5. Len(a) = k + l + 1 /\ Len(b) = k + l + 1
  BY <1>1, <1>2, <1>3, <1>4
<1>6. ASSUME NEW i \in 1..(k + l + 1) PROVE a[i] = b[i]
  <2>1. CASE i = k + l + 1
    <3>1. i \in 1..(k + (l + 1)) /\ ~(i <= k) /\ i - k = l + 1
      BY <1>1, <2>1
    <3>2. a[i] = v[l + 1]
      BY <1>2, <1>3, <3>1
    <3>3. b[i] = x
      BY <1>1, <1>4, <2>1
    <3>4. QED  BY <1>2, <3>2, <3>3
  <2>2. CASE i <= k
    <3>1. i \in 1..(k + l) /\ i \in 1..(k + (l + 1))
      BY <1>1, <2>2
    <3>2. QED  BY <1>1, <1>2, <1>3, <1>4, <2>2, <3>1
  <2>3. CASE i > k /\ i # k + l + 1
    <3>1. i \in 1..(k + l) /\ i \in 1..(k + (l + 1)) /\ ~(i <= k) /\ i - k \in 1..l
      BY <1>1, <2>3
    <3>2. QED  BY <1>1, <1>2, <1>3, <1>4, <3>1
  <2>4. QED  BY <1>1, <2>1, <2>2, <2>3
<1>7. a = b
  BY <1>3, <1>4, <1>5, <1>6, SeqEqual
<1>8. QED  BY <1>7 DEF a, b, u, v

-----------------------------------------------------------------------------
(* What the commands have sent, together.                                  *)

LEMMA FunctionIsSeq ==
    ASSUME NEW S, NEW n \in Nat, NEW f \in [1..n -> S]
    PROVE  f \in Seq(S) /\ Len(f) = n
  OBVIOUS

LEMMA SvGivenTyped ==
    ASSUME NEW cs \in Seq(SvCommand), NEW k,
           \A r \in 1..Len(cs) : cs[r].sent <= Len(cs[r].parts)
    PROVE  SvGiven(cs, k) \in Seq(Seq(SvPart)) /\ Len(SvGiven(cs, k)) = Len(cs)
<1>1. Len(cs) \in Nat
  BY LenProperties
<1>2. ASSUME NEW r \in 1..Len(cs) PROVE SubSeq(cs[r].parts, 1, cs[r].sent) \in Seq(SvPart)
  <2> DEFINE p == cs[r].parts
             m == cs[r].sent
  <2>1. cs[r] \in SvCommand
    BY ElementOfSeq
  <2>2. p \in Seq(SvPart) /\ m \in Nat /\ m <= Len(p)
    BY <2>1 DEF SvCommand
  <2> HIDE DEF p, m
  <2>3. Len(p) \in Nat /\ m \in Int /\ 1 \in Int
    BY <2>2, LenProperties
  <2>4. \A i \in 1..m : p[i] \in SvPart
    <3>1. \A i \in 1..m : i \in 1..Len(p)
      BY <2>2, <2>3
    <3>2. QED  BY <2>2, <3>1, ElementOfSeq
  <2>5. SubSeq(p, 1, m) \in Seq(SvPart)
    BY <2>3, <2>4, SubSeqProperties
  <2>6. QED  BY <2>5 DEF p, m
<1>3. << >> \in Seq(SvPart)
  BY EmptySeq
<1>4. SvGiven(cs, k) \in [1..Len(cs) -> Seq(SvPart)]
  BY <1>2, <1>3 DEF SvGiven
<1>5. QED  BY <1>1, <1>4, FunctionIsSeq

LEMMA NoneOf == ASSUME NEW s PROVE SubSeq(s, 1, 0) = << >>
  BY SubSeqEmpty

\* A command that begins has sent nothing.
LEMMA SvGivenBegun ==
    ASSUME NEW cs \in Seq(SvCommand), NEW k, NEW c \in SvCommand, c.sent = 0,
           \A r \in 1..Len(cs) : cs[r].sent <= Len(cs[r].parts)
    PROVE  Server!FlattenSeq(SvGiven(Append(cs, c), k)) = Server!FlattenSeq(SvGiven(cs, k))
<1> DEFINE ds1 == Append(cs, c)
           s == SvGiven(cs, k)
           t == SvGiven(ds1, k)
           a == Append(s, << >>)
           n == Len(cs)
<1>1. /\ n \in Nat /\ ds1 \in Seq(SvCommand) /\ Len(ds1) = n + 1 /\ ds1[n + 1] = c
      /\ \A i \in 1..n : ds1[i] = cs[i]
  BY Appended, LenProperties
<1>2. c.sent <= Len(c.parts)
  BY LenProperties DEF SvCommand
<1>3. s \in Seq(Seq(SvPart)) /\ Len(s) = n
  BY SvGivenTyped
<1>4. << >> \in Seq(SvPart)
  BY EmptySeq
<1> HIDE DEF ds1
<1>5. t \in Seq(Seq(SvPart)) /\ Len(t) = n + 1
  <2>1. \A r \in 1..Len(ds1) : ds1[r].sent <= Len(ds1[r].parts)
    <3>1. ASSUME NEW r \in 1..Len(ds1) PROVE ds1[r].sent <= Len(ds1[r].parts)
      <4>1. r = n + 1 \/ r \in 1..n
        BY <1>1
      <4>2. QED  BY <1>1, <1>2, <4>1
    <3>2. QED  BY <3>1
  <2>2. QED  BY <1>1, <2>1, SvGivenTyped
<1>6. t[n + 1] = << >> /\ \A i \in 1..n : t[i] = s[i]
  <2>1. n + 1 \in 1..Len(ds1) /\ \A i \in 1..n : i \in 1..Len(ds1) /\ i \in 1..Len(cs)
    BY <1>1
  <2>2. t[n + 1] = << >>
    BY <1>1, <2>1, NoneOf DEF SvGiven
  <2>3. ASSUME NEW i \in 1..n PROVE t[i] = s[i]
    BY <1>1, <2>1 DEF SvGiven
  <2>4. QED  BY <2>2, <2>3
<1> HIDE DEF s, t, n
<1>7. /\ a \in Seq(Seq(SvPart)) /\ Len(a) = n + 1 /\ a[n + 1] = << >>
      /\ \A i \in 1..n : a[i] = s[i]
  BY <1>3, <1>4, Appended
<1> HIDE DEF a
<1>8. t = a
  <2>1. \A i \in 1..Len(t) : i = n + 1 \/ i \in 1..n
    BY <1>1, <1>5
  <2>2. \A i \in 1..Len(t) : t[i] = a[i]
    BY <1>6, <1>7, <2>1
  <2>3. Len(t) = Len(a)
    BY <1>5, <1>7
  <2>4. QED  BY <1>5, <1>7, <2>2, <2>3, SeqEqual
<1>9. Server!FlattenSeq(a) = Server!FlattenSeq(s) \o << >>
  BY <1>3, <1>4, FlattenAppended DEF a
<1>10. Server!FlattenSeq(s) \o << >> = Server!FlattenSeq(s)
  BY <1>3, FlattenTyped, ConcatEmptySeq
<1>11. QED  BY <1>8, <1>9, <1>10 DEF s, t, ds1

\* Before its first part it has sent nothing, whatever it will send.
LEMMA SvGivenChanged ==
    ASSUME NEW cs \in Seq(SvCommand), NEW k, NEW r \in 1..Len(cs), NEW d \in SvCommand,
           cs[r].sent = 0, d.sent = 0, d.from = cs[r].from
    PROVE  SvGiven([cs EXCEPT ![r] = d], k) = SvGiven(cs, k)
<1> DEFINE es == [cs EXCEPT ![r] = d]
<1>1. /\ Len(es) = Len(cs) /\ es[r] = d /\ \A i \in 1..Len(cs) : i # r => es[i] = cs[i]
  BY ExceptSeq
<1> HIDE DEF es
<1>2. ASSUME NEW i \in 1..Len(cs)
      PROVE  (IF es[i].from = k THEN SubSeq(es[i].parts, 1, es[i].sent) ELSE << >>) =
             (IF cs[i].from = k THEN SubSeq(cs[i].parts, 1, cs[i].sent) ELSE << >>)
  <2>1. CASE i = r
    BY <1>1, <2>1, NoneOf
  <2>2. CASE i # r
    BY <1>1, <2>2
  <2>3. QED  BY <2>1, <2>2
<1>3. SvGiven(es, k) = SvGiven(cs, k)
  BY <1>1, <1>2 DEF SvGiven
<1>4. QED  BY <1>3 DEF es

\* All but the last.
FirstOf(s) == [i \in 1..(Len(s) - 1) |-> s[i]]

LEMMA LastApart ==
    ASSUME NEW S, NEW s \in Seq(S), Len(s) # 0
    PROVE  /\ FirstOf(s) \in Seq(S) /\ Len(FirstOf(s)) = Len(s) - 1
           /\ s = Append(FirstOf(s), s[Len(s)])
           /\ \A i \in 1..(Len(s) - 1) : FirstOf(s)[i] = s[i]
<1> DEFINE n == Len(s)
           p == [i \in 1..(n - 1) |-> s[i]]
           a == Append(p, s[n])
<1>1. n \in Nat \ {0} /\ n - 1 \in Nat /\ n \in 1..n /\ 1..(n - 1) \subseteq 1..n
  BY LenProperties
<1>2. \A i \in 1..n : s[i] \in S
  BY ElementOfSeq
<1>3. p \in [1..(n - 1) -> S] /\ \A i \in 1..(n - 1) : p[i] = s[i]
  BY <1>1, <1>2
<1> HIDE DEF p, n
<1>4. p \in Seq(S) /\ Len(p) = n - 1
  BY <1>1, <1>3, FunctionIsSeq
<1>5. /\ a \in Seq(S) /\ Len(a) = n /\ a[n] = s[n] /\ \A i \in 1..(n - 1) : a[i] = p[i]
  <2>1. s[n] \in S /\ (n - 1) + 1 = n
    BY <1>1, <1>2
  <2>2. QED  BY <1>4, <2>1, Appended
<1> HIDE DEF a
<1>6. s = a
  <2>1. \A i \in 1..n : i = n \/ i \in 1..(n - 1)
    BY <1>1
  <2>2. \A i \in 1..n : s[i] = a[i]
    BY <1>3, <1>5, <2>1
  <2>3. Len(s) = n
    BY DEF n
  <2>4. QED  BY <1>5, <2>2, <2>3, SeqEqual
<1>7. s = Append(p, s[n])
  BY <1>6 DEF a
<1>8. p = FirstOf(s)
  BY DEF p, n, FirstOf
<1>9. QED  BY <1>3, <1>4, <1>7, <1>8 DEF n

LEMMA OneMore ==
    ASSUME NEW S, NEW s \in Seq(S), NEW m \in Nat, m < Len(s)
    PROVE  /\ SubSeq(s, 1, m + 1) = Append(SubSeq(s, 1, m), s[m + 1])
           /\ SubSeq(s, 1, m) \in Seq(S) /\ s[m + 1] \in S
<1> DEFINE a == SubSeq(s, 1, m)
           b == SubSeq(s, 1, m + 1)
           c == Append(a, s[m + 1])
<1>1. /\ Len(s) \in Nat /\ m \in Int /\ m + 1 \in Int /\ 1 \in Int
      /\ m + 1 \in 1..Len(s) /\ 1..m \subseteq 1..Len(s) /\ 1..(m + 1) \subseteq 1..Len(s)
  BY LenProperties
<1>2. \A i \in 1..Len(s) : s[i] \in S
  BY ElementOfSeq
<1>3. a \in Seq(S) /\ Len(a) = m /\ \A i \in 1..m : a[i] = s[i]
  BY <1>1, <1>2, SubSeqProperties
<1>4. b \in Seq(S) /\ Len(b) = m + 1 /\ \A i \in 1..(m + 1) : b[i] = s[i]
  BY <1>1, <1>2, SubSeqProperties
<1> HIDE DEF a, b
<1>5. s[m + 1] \in S
  BY <1>1, <1>2
<1>6. /\ c \in Seq(S) /\ Len(c) = m + 1 /\ c[m + 1] = s[m + 1]
      /\ \A i \in 1..m : c[i] = a[i]
  BY <1>3, <1>5, Appended
<1> HIDE DEF c
<1>7. \A i \in 1..(m + 1) : i = m + 1 \/ i \in 1..m
  BY <1>1
<1>8. \A i \in 1..(m + 1) : b[i] = c[i]
  BY <1>3, <1>4, <1>6, <1>7
<1>9. b = c
  BY <1>4, <1>6, <1>8, SeqEqual
<1>10. QED  BY <1>3, <1>5, <1>9 DEF a, b, c

\* The last command sends one more part.
LEMMA SvGivenSent ==
    ASSUME NEW cs \in Seq(SvCommand), NEW k, NEW r \in 1..Len(cs), r = Len(cs),
           \A i \in 1..Len(cs) : cs[i].sent <= Len(cs[i].parts),
           NEW es \in Seq(SvCommand), Len(es) = Len(cs),
           \A i \in 1..Len(cs) : i # r => es[i] = cs[i],
           es[r].from = cs[r].from, es[r].parts = cs[r].parts,
           es[r].sent = cs[r].sent + 1, es[r].sent <= Len(es[r].parts)
    PROVE  /\ cs[r].from = k => Server!FlattenSeq(SvGiven(es, k)) =
                 Append(Server!FlattenSeq(SvGiven(cs, k)), cs[r].parts[cs[r].sent + 1])
           /\ cs[r].from # k =>
                 Server!FlattenSeq(SvGiven(es, k)) = Server!FlattenSeq(SvGiven(cs, k))
<1> DEFINE d == es[r]
           s == SvGiven(cs, k)
           t == SvGiven(es, k)
           P == Seq(SvPart)
           p == FirstOf(s)
           q == FirstOf(t)
<1>1. /\ es \in Seq(SvCommand) /\ Len(es) = r /\ es[r] = d
      /\ \A i \in 1..r : i # r => es[i] = cs[i]
  OBVIOUS
<1>2. r \in Nat \ {0} /\ cs[r] \in SvCommand
  BY LenProperties, ElementOfSeq
<1>3. s \in Seq(P) /\ Len(s) = r
  BY SvGivenTyped
<1>4. t \in Seq(P) /\ Len(t) = r
  <2>1. \A i \in 1..Len(es) : es[i].sent <= Len(es[i].parts)
    BY <1>1
  <2>2. QED  BY <1>1, <2>1, SvGivenTyped
<1>5. \A i \in 1..r : i # r => t[i] = s[i]
  BY <1>1 DEF SvGiven
<1>6. /\ s[r] = IF cs[r].from = k THEN SubSeq(cs[r].parts, 1, cs[r].sent) ELSE << >>
      /\ t[r] = IF cs[r].from = k THEN SubSeq(d.parts, 1, d.sent) ELSE << >>
  BY <1>1 DEF SvGiven
<1> HIDE DEF s, t
<1>7. /\ p \in Seq(P) /\ Len(p) = r - 1 /\ s = Append(p, s[r])
      /\ \A i \in 1..(r - 1) : p[i] = s[i]
  <2>1. Len(s) # 0
    BY <1>2, <1>3
  <2>2. s \in Seq(P)
    BY <1>3
  <2> HIDE DEF P
  <2>3. /\ FirstOf(s) \in Seq(P) /\ Len(FirstOf(s)) = Len(s) - 1
        /\ s = Append(FirstOf(s), s[Len(s)])
        /\ \A i \in 1..(Len(s) - 1) : FirstOf(s)[i] = s[i]
    BY <2>1, <2>2, LastApart
  <2>4. QED  BY <1>3, <2>3
<1>8. /\ q \in Seq(P) /\ Len(q) = r - 1 /\ t = Append(q, t[r])
      /\ \A i \in 1..(r - 1) : q[i] = t[i]
  <2>1. Len(t) # 0
    BY <1>2, <1>4
  <2>2. t \in Seq(P)
    BY <1>4
  <2> HIDE DEF P
  <2>3. /\ FirstOf(t) \in Seq(P) /\ Len(FirstOf(t)) = Len(t) - 1
        /\ t = Append(FirstOf(t), t[Len(t)])
        /\ \A i \in 1..(Len(t) - 1) : FirstOf(t)[i] = t[i]
    BY <2>1, <2>2, LastApart
  <2>4. QED  BY <1>4, <2>3
<1>9. p = q
  <2>1. \A i \in 1..(r - 1) : i \in 1..r /\ i # r
    BY <1>2
  <2>2. \A i \in 1..Len(p) : p[i] = q[i]
    BY <1>5, <1>7, <1>8, <2>1
  <2>3. p \in Seq(P) /\ q \in Seq(P) /\ Len(p) = Len(q)
    BY <1>7, <1>8
  <2> HIDE DEF P
  <2>4. QED  BY <2>2, <2>3, SeqEqual
<1>10. s[r] \in P /\ t[r] \in P
  <2>1. r \in 1..Len(s) /\ r \in 1..Len(t)
    BY <1>2, <1>3, <1>4
  <2>2. QED  BY <1>3, <1>4, <2>1, ElementOfSeq
<1> DEFINE f == Server!FlattenSeq(p)
<1>11. Server!FlattenSeq(s) = f \o s[r] /\ Server!FlattenSeq(t) = f \o t[r]
  <2> DEFINE y == s[r]
             z == t[r]
  <2>1. p \in Seq(Seq(SvPart)) /\ s = Append(p, y) /\ t = Append(p, z)
    BY <1>7, <1>8, <1>9
  <2>2. y \in Seq(SvPart)
    BY <1>10
  <2>3. z \in Seq(SvPart)
    BY <1>10
  <2> HIDE DEF y, z, p
  <2>4. Server!FlattenSeq(Append(p, y)) = Server!FlattenSeq(p) \o y
    BY <2>1, <2>2, FlattenAppended
  <2>5. Server!FlattenSeq(Append(p, z)) = Server!FlattenSeq(p) \o z
    BY <2>1, <2>3, FlattenAppended
  <2>6. QED  BY <2>1, <2>4, <2>5 DEF y, z
<1>12. f \in Seq(SvPart)
  BY <1>7, FlattenTyped
<1> HIDE DEF f
<1>13. CASE cs[r].from # k
  <2>1. s[r] = t[r]
    BY <1>6, <1>13
  <2>2. Server!FlattenSeq(t) = Server!FlattenSeq(s)
    BY <1>11, <2>1
  <2>3. QED  BY <1>13, <2>2 DEF s, t
<1>14. CASE cs[r].from = k
  <2> DEFINE parts == cs[r].parts
             m == cs[r].sent
             x == parts[m + 1]
  <2>1. parts \in Seq(SvPart) /\ m \in Nat /\ m < Len(parts) /\ d.sent = m + 1
    <3>1. parts \in Seq(SvPart) /\ m \in Nat
      BY <1>2 DEF SvCommand
    <3>2. Len(parts) \in Nat
      BY <3>1, LenProperties
    <3>3. m + 1 <= Len(parts) /\ d.sent = m + 1
      OBVIOUS
    <3> HIDE DEF parts, m
    <3>4. QED  BY <3>1, <3>2, <3>3
  <2>2. s[r] = SubSeq(parts, 1, m) /\ t[r] = SubSeq(parts, 1, m + 1)
    BY <1>6, <1>14, <2>1
  <2> HIDE DEF parts, m
  <2>3. t[r] = Append(s[r], x) /\ x \in SvPart /\ s[r] \in Seq(SvPart)
    <3>1. /\ SubSeq(parts, 1, m + 1) = Append(SubSeq(parts, 1, m), parts[m + 1])
          /\ SubSeq(parts, 1, m) \in Seq(SvPart) /\ parts[m + 1] \in SvPart
      BY <2>1, OneMore
    <3>2. QED  BY <2>2, <3>1
  <2> HIDE DEF x
  <2>4. f \o Append(s[r], x) = Append(f \o s[r], x)
    <3> DEFINE y == s[r]
    <3>1. x \in SvPart
      BY <2>3
    <3>2. y \in Seq(SvPart)
      BY <2>3
    <3> HIDE DEF y
    <3>3. f \o Append(y, x) = Append(f \o y, x)
      BY <1>12, <3>1, <3>2, JoinedAppended
    <3>4. QED  BY <3>3 DEF y
  <2>5. Server!FlattenSeq(t) = Append(Server!FlattenSeq(s), x)
    BY <1>11, <2>3, <2>4
  <2>6. x = cs[r].parts[cs[r].sent + 1]
    BY DEF x, parts, m
  <2>7. QED  BY <1>14, <2>5, <2>6 DEF s, t
<1>15. QED  BY <1>13, <1>14

LEMMA SvBounds == MaxClients \in Nat
  BY ComponentsAssumption DEF ComponentsAssumption, Server!InstallerAssumption

LEMMA SvWords == "word" \notin Command /\ "long" \notin Command /\ "none" \notin Command
  BY ComponentsAssumption DEF ComponentsAssumption, Server!InstallerAssumption

\* What has become of the server, or of the care of its clients, remains.
LEMMA SvShapeKept ==
    ASSUME SvShape(pmas), Server!Next
    PROVE  SvShape(pmas') /\ (SvCareful' => SvCareful)
<1>1. ASSUME NEW k \in DOMAIN acceptors, Server!AcceptorStep(k) \/ Server!Accept(k)
      PROVE  SvShape(pmas') /\ (SvCareful' => SvCareful)
  <2>1. ASSUME Server!AcceptLock(k) PROVE SvShape(pmas') /\ (SvCareful' => SvCareful)
    BY <2>1 DEF Server!AcceptLock, SvShape, SvCareful
  <2>2. ASSUME Server!AcceptRead(k) \/ Server!AcceptJoin(k)
        PROVE  SvShape(pmas') /\ (SvCareful' => SvCareful)
    BY <2>2 DEF Server!AcceptRead, Server!AcceptJoin, Server!Undefined, SvShape, SvCareful
  <2>3. ASSUME Server!AcceptDelete(k) PROVE SvShape(pmas') /\ (SvCareful' => SvCareful)
    BY <2>3 DEF Server!AcceptDelete, SvShape, SvCareful
  <2>4. ASSUME Server!AcceptHandle(k) PROVE SvShape(pmas') /\ (SvCareful' => SvCareful)
    BY <2>4 DEF Server!AcceptHandle, SvShape, SvCareful
  <2>5. ASSUME Server!AcceptStore(k) PROVE SvShape(pmas') /\ (SvCareful' => SvCareful)
    BY <2>5 DEF Server!AcceptStore, Server!Undefined, SvShape, SvCareful
  <2>6. ASSUME Server!Accept(k) PROVE SvShape(pmas') /\ (SvCareful' => SvCareful)
    BY <2>6 DEF Server!Accept, SvShape, SvCareful
  <2>7. QED  BY <1>1, <2>1, <2>2, <2>3, <2>4, <2>5, <2>6 DEF Server!AcceptorStep
<1>2. ASSUME NEW k \in Server!Client, Server!LoopStep(k)
      PROVE  SvShape(pmas') /\ (SvCareful' => SvCareful)
  BY <1>2 DEF Server!LoopStep, Server!LoopWord, Server!LoopEnd, Server!LoopNull,
              Server!Undefined, SvShape, SvCareful
<1>3. ASSUME NEW care, NEW p, SvShape(p), Server!With(care, p),
             p.careless = pmas.careless, p.deleted = pmas.deleted
      PROVE  SvShape(pmas') /\ (SvCareful' => SvCareful)
  BY <1>3 DEF Server!With, SvShape, SvCareful
<1>4. ASSUME NEW k \in Server!Client, Server!ClientCloses(k)
      PROVE  SvShape(pmas') /\ (SvCareful' => SvCareful)
  BY <1>3, <1>4 DEF Server!ClientCloses
<1>5. ASSUME NEW k \in Server!Client, NEW cmd \in Command, Server!ClientSends(k, cmd)
      PROVE  SvShape(pmas') /\ (SvCareful' => SvCareful)
  <2> DEFINE p == [pmas EXCEPT !.messages = @ + 1]
  <2>1. SvShape(p) /\ p.careless = pmas.careless /\ p.deleted = pmas.deleted
    BY DEF SvShape
  <2>2. PICK long \in BOOLEAN : Server!With(~long /\ Server!Dealt(k), p)
    BY <1>5 DEF Server!ClientSends
  <2> HIDE DEF p
  <2>3. QED  BY <1>3, <2>1, <2>2
<1>6. ASSUME NEW r \in DOMAIN commands, Server!Begin(r) \/ Server!SendPart(r) \/ Server!Exit(r)
      PROVE  SvShape(pmas') /\ (SvCareful' => SvCareful)
  BY <1>6 DEF Server!Begin, Server!SendPart, Server!Exit, Server!Undefined, SvShape, SvCareful
<1>7. ASSUME Server!MainEnds PROVE SvShape(pmas') /\ (SvCareful' => SvCareful)
  BY <1>7 DEF Server!MainEnds, SvShape, SvCareful
<1>8. QED  BY <1>1, <1>2, <1>4, <1>5, <1>6, <1>7 DEF Server!Next

-----------------------------------------------------------------------------
(* Whose threads there are.                                                *)

LEMMA SvNumbers ==
    ASSUME NEW n \in SvLasts
    PROVE  /\ n \in Nat /\ SvLasts \subseteq Nat /\ Server!Client \subseteq SvLasts
           /\ \A k \in SvLasts : (k < n => k \in Server!Client) /\ (k < n \/ k = n \/ k > n)
           /\ \A k \in Server!Client : k + 1 \in SvLasts
  BY SvBounds DEF SvLasts, Server!Client

LEMMA SvWhoWaits ==
    ASSUME NEW n \in SvLasts, SvTurn(n), NEW k \in SvLasts,
           acceptors[k] \notin {"none", "done", "deaf"}
    PROVE  k = n
<1>1. ~(k > n)
  BY DEF SvTurn, SvComing, SvLasts
<1>2. ~(k < n)
  BY SvNumbers DEF SvTurn, SvGone
<1>3. QED  BY <1>1, <1>2, SvNumbers

LEMMA SvWhoReads ==
    ASSUME NEW n \in SvLasts, SvTurn(n), NEW k \in Server!Client,
           loops[k].pc = "receive" \/ conns[k].peer = "open"
    PROVE  k = n /\ acceptors[n] \notin SvEarly
<1>1. ~(k > n \/ (k = n /\ acceptors[n] \in SvEarly))
  BY DEF SvTurn, SvComing
<1>2. ~(k < n)
  BY DEF SvTurn, SvGone
<1>3. QED  BY <1>1, <1>2, SvNumbers

LEMMA SvWhoEnds ==
    ASSUME NEW n \in SvLasts, SvTurn(n), NEW k \in Server!Client, loops[k].pc = "null"
    PROVE  k + 1 = n /\ acceptors[n] \in {"lock", "read", "join"} /\ conns[k].memory = "live"
<1>1. ~(k > n \/ (k = n /\ acceptors[n] \in SvEarly))
  BY DEF SvTurn, SvComing
<1>2. k # n
  BY <1>1 DEF SvTurn, SvPresent, SvEarly
<1>3. k < n
  BY <1>1, <1>2, SvNumbers
<1>4. QED  BY <1>3 DEF SvTurn, SvGone

LEMMA SvWhoRuns ==
    ASSUME NEW n \in SvLasts, SvTurn(n), NEW r \in 1..Len(commands), commands[r].pc # "done"
    PROVE  /\ ~SvIdle /\ acceptors[n] \notin SvEarly \cup {"handle"} /\ n \in Server!Client
           /\ pmas.pConnection = n /\ r = Len(commands) /\ commands[r].from = n
           /\ conns[n].memory = "live" /\ conns[n].peer = "open"
<1>1. ~SvIdle
  BY DEF SvIdle
<1>2. acceptors[n] \notin SvEarly
  BY <1>1 DEF SvTurn, SvStage
<1>3. QED  BY <1>1, <1>2 DEF SvTurn, SvPresent, SvMessage

-----------------------------------------------------------------------------
(* Steps that run no command and send nothing.                             *)

LEMMA SvQuiet ==
    ASSUME SvAnswered, SvCorrect, UNCHANGED commands,
           \A k \in Server!Client : conns'[k].output = conns[k].output
    PROVE  SvAnswered' /\ SvCorrect' /\ (SvIdle <=> SvIdle')
<1>1. SvAnswered'
  BY DEF SvAnswered
<1>2. QED  BY <1>1 DEF SvCorrect, SvIdle

LEMMA SvAccepting ==
    ASSUME SvTyped, NEW k \in SvLasts, NEW to \in SvWaits, Server!Accepting(k, to)
    PROVE  /\ acceptors' \in [SvLasts -> SvWaits] /\ acceptors'[k] = to
           /\ \A j \in SvLasts : j # k => acceptors'[j] = acceptors[j]
  BY DEF SvTyped, Server!Accepting

LEMMA SvAcceptLock ==
    ASSUME SvShape(pmas), SvCareful, SvSound, NEW k \in SvLasts, Server!AcceptLock(k)
    PROVE  SvSound'
<1>1. PICK n \in SvLasts : SvTurn(n)
  BY DEF SvSound
<1>2. k = n /\ acceptors[n] = "lock" /\ UNCHANGED <<conns, loops, commands>>
  BY <1>1, SvWhoWaits DEF Server!AcceptLock
<1> DEFINE to == IF pmas.m_pConnection = 0 THEN "accept"
                 ELSE IF conns[n - 1].thread THEN "read" ELSE "delete"
<1>3. to \in {"accept", "read", "delete"}
  OBVIOUS
<1>4. Server!Accepting(n, to) /\ SvTyped
  BY <1>2 DEF Server!AcceptLock, SvSound
<1>5. /\ acceptors' \in [SvLasts -> SvWaits] /\ acceptors'[n] = to
      /\ \A j \in SvLasts : j # n => acceptors'[j] = acceptors[j]
  <2>1. to \in SvWaits
    BY <1>3 DEF SvWaits
  <2> HIDE DEF to
  <2>2. QED  BY <1>4, <2>1, SvAccepting
<1>6. SvTyped' /\ SvUnharmed' /\ pmas'.m_pConnection = pmas.m_pConnection
  <2>1. SvTyped'
    BY <1>2, <1>4, <1>5 DEF SvTyped
  <2>2. SvUnharmed' /\ pmas'.m_pConnection = pmas.m_pConnection
    BY <1>2 DEF Server!AcceptLock, SvShape, SvUnharmed, SvSound, SvCareful
  <2>3. QED  BY <2>1, <2>2
<1>7. SvAnswered' /\ SvCorrect' /\ SvIdle' /\ SvIdle
  BY <1>1, <1>2, SvQuiet DEF SvSound, SvTurn, SvStage, SvEarly
<1>8. n \in Nat /\ n >= 1 /\ pmas.m_pConnection = n - 1 /\ (n > 1 => n - 1 \in Server!Client)
  BY <1>1, <1>2, SvBounds DEF SvTurn, SvStage, SvLasts, Server!Client
<1>9. n > 1 => \/ loops[n - 1].pc = "done" /\ to \in {"read", "delete"}
               \/ loops[n - 1].pc = "null" /\ to = "read"
  <2>1. SUFFICES ASSUME n > 1 PROVE \/ loops[n - 1].pc = "done" /\ to \in {"read", "delete"}
                                    \/ loops[n - 1].pc = "null" /\ to = "read"
    OBVIOUS
  <2>2. n - 1 < n /\ n - 1 # 0 /\ n - 1 \in Server!Client
    BY <1>8, <2>1
  <2>3. loops[n - 1].pc = "done" \/ (loops[n - 1].pc = "null" /\ conns[n - 1].thread)
    BY <1>1, <2>2 DEF SvTurn, SvGone
  <2>4. QED  BY <1>8, <2>2, <2>3
<1>10. n = 1 => to = "accept"
  BY <1>8
<1>11. to = "delete" => n > 1 /\ loops[n - 1].pc = "done"
  BY <1>8, <1>9, <1>10
<1> HIDE DEF to
<1>12. SvStage(n)'
  BY <1>2, <1>3, <1>5, <1>6, <1>7, <1>8, <1>9, <1>10, <1>11 DEF SvStage
<1>13. SvGone(n)'
  <2>1. SUFFICES ASSUME NEW j \in Server!Client, j < n
                 PROVE  /\ acceptors'[j] = "done" /\ conns'[j].peer = "closed"
                        /\ loops'[j].pc = "done" \/
                           (/\ loops'[j].pc = "null" /\ j + 1 = n
                            /\ acceptors'[n] \in {"lock", "read", "join"}
                            /\ conns'[j].thread /\ conns'[j].memory = "live")
    BY DEF SvGone
  <2>2. j \in SvLasts /\ j # n
    BY <1>8, <2>1, SvNumbers
  <2>3. loops[j].pc = "null" /\ j + 1 = n => n > 1 /\ n - 1 = j
    BY <1>8, <2>1 DEF Server!Client
  <2>4. QED  BY <1>1, <1>2, <1>5, <1>9, <2>1, <2>2, <2>3 DEF SvTurn, SvGone
<1>14. SvComing(n)'
  <2>1. ASSUME NEW j \in SvLasts, j > n PROVE acceptors'[j] = "none"
    BY <1>1, <1>5, <1>8, <2>1 DEF SvTurn, SvComing
  <2>2. acceptors[n] \in SvEarly
    BY <1>2 DEF SvEarly
  <2>3. QED  BY <1>1, <1>2, <2>1, <2>2 DEF SvTurn, SvComing
<1>15. SvPresent(n)'
  BY <1>3, <1>5 DEF SvPresent, SvEarly
<1>16. QED  BY <1>6, <1>7, <1>12, <1>13, <1>14, <1>15 DEF SvSound, SvTurn

\* What a step leaves to those before and after the client whose turn it is.
LEMMA SvGoneKept ==
    ASSUME NEW n \in SvLasts, SvTurn(n), acceptors'[n] \in SvWaits,
           \A j \in SvLasts : j # n => acceptors'[j] = acceptors[j],
           \A j \in Server!Client : j < n =>
               conns'[j].peer = conns[j].peer /\ loops'[j] = loops[j] /\ loops[j].pc = "done"
    PROVE  SvGone(n)'
<1>1. \A j \in Server!Client : j < n => j \in SvLasts /\ j # n
  BY SvNumbers
<1>2. QED  BY <1>1 DEF SvTurn, SvGone

LEMMA SvComingKept ==
    ASSUME NEW n \in SvLasts, SvTurn(n),
           \A j \in SvLasts : j # n => acceptors'[j] = acceptors[j],
           \A j \in Server!Client : j > n => conns'[j] = conns[j] /\ loops'[j] = loops[j],
           acceptors'[n] \in SvEarly => /\ acceptors[n] \in SvEarly
                                        /\ n \in Server!Client => conns'[n] = conns[n]
                                                               /\ loops'[n] = loops[n]
    PROVE  SvComing(n)'
<1>1. \A j \in SvLasts : j > n => j # n
  BY SvNumbers
<1>2. QED  BY <1>1 DEF SvTurn, SvComing

LEMMA SvAllGone ==
    ASSUME NEW n \in SvLasts, SvTurn(n),
           \/ acceptors[n] \notin {"lock", "read", "join"}
           \/ n > 1 /\ loops[n - 1].pc = "done"
    PROVE  \A j \in Server!Client : j < n => loops[j].pc = "done"
<1>1. \A j \in Server!Client : j + 1 = n => n - 1 = j
  BY SvNumbers DEF Server!Client, SvLasts
<1>2. QED  BY <1>1 DEF SvTurn, SvGone

LEMMA SvAcceptRead ==
    ASSUME SvShape(pmas), SvCareful, SvSound, NEW k \in SvLasts, Server!AcceptRead(k)
    PROVE  SvSound' \/ SvLost'
<1>1. PICK n \in SvLasts : SvTurn(n)
  BY DEF SvSound
<1>2. k = n /\ acceptors[n] = "read" /\ UNCHANGED <<conns, loops, commands>> /\ n > 1
  BY <1>1, SvWhoWaits DEF Server!AcceptRead, SvTurn, SvStage
<1>3. SvAnswered' /\ SvCorrect' /\ SvIdle'
  BY <1>1, <1>2, SvQuiet DEF SvSound, SvTurn, SvStage, SvEarly
<1>4. /\ ~pmas'.ended /\ ~pmas'.struck /\ pmas'.m_pConnection = pmas.m_pConnection
      /\ pmas'.undefined <=> ~conns[n - 1].thread
  <2>1. pmas' = [pmas EXCEPT !.undefined = ~conns[n - 1].thread]
    BY <1>2 DEF Server!AcceptRead, Server!Undefined
  <2>2. ~pmas.ended /\ ~pmas.struck
    BY DEF SvSound, SvUnharmed
  <2>3. QED  BY <2>1, <2>2 DEF SvShape
<1>5. ASSUME NEW to \in {"join", "nobody"}, Server!Accepting(n, to)
      PROVE  /\ acceptors' \in [SvLasts -> SvWaits] /\ acceptors'[n] = to /\ SvTyped'
             /\ \A j \in SvLasts : j # n => acceptors'[j] = acceptors[j]
  <2>1. to \in SvWaits
    BY DEF SvWaits
  <2>2. SvTyped
    BY DEF SvSound
  <2>3. /\ acceptors' \in [SvLasts -> SvWaits] /\ acceptors'[n] = to
        /\ \A j \in SvLasts : j # n => acceptors'[j] = acceptors[j]
    BY <1>5, <2>1, <2>2, SvAccepting
  <2>4. QED  BY <1>2, <2>2, <2>3 DEF SvTyped
<1>6. CASE ~conns[n - 1].thread
  <2>1. Server!Accepting(n, "nobody")
    BY <1>2, <1>6 DEF Server!AcceptRead
  <2>2. QED  BY <1>3, <1>4, <1>5, <1>6, <2>1 DEF SvLost
<1>7. CASE conns[n - 1].thread
  <2>1. Server!Accepting(n, "join")
    BY <1>2, <1>7 DEF Server!AcceptRead
  <2>2. /\ acceptors' \in [SvLasts -> SvWaits] /\ acceptors'[n] = "join" /\ SvTyped'
        /\ \A j \in SvLasts : j # n => acceptors'[j] = acceptors[j]
    BY <1>5, <2>1
  <2>3. SvUnharmed'
    BY <1>4, <1>7 DEF SvUnharmed
  <2>4. SvStage(n)'
    BY <1>1, <1>2, <1>3, <1>4, <2>2 DEF SvTurn, SvStage
  <2>5. SvGone(n)'
    <3>1. \A j \in Server!Client : j < n => j \in SvLasts /\ j # n
      BY SvNumbers
    <3>2. QED  BY <1>1, <1>2, <2>2, <3>1 DEF SvTurn, SvGone
  <2>6. SvComing(n)'
    BY <1>1, <1>2, <2>2, SvComingKept DEF SvEarly
  <2>7. SvPresent(n)'
    BY <2>2 DEF SvPresent, SvEarly
  <2>8. QED  BY <1>3, <2>2, <2>3, <2>4, <2>5, <2>6, <2>7 DEF SvSound, SvTurn
<1>8. QED  BY <1>6, <1>7

LEMMA SvAcceptJoin ==
    ASSUME SvShape(pmas), SvCareful, SvSound, NEW k \in SvLasts, Server!AcceptJoin(k)
    PROVE  SvSound'
<1>1. PICK n \in SvLasts : SvTurn(n)
  BY DEF SvSound
<1>2. k = n /\ acceptors[n] = "join" /\ UNCHANGED <<pmas, conns, loops, commands>>
      /\ n > 1 /\ loops[n - 1].pc = "done"
  BY <1>1, SvWhoWaits DEF Server!AcceptJoin, SvTurn, SvStage
<1>3. /\ acceptors' \in [SvLasts -> SvWaits] /\ acceptors'[n] = "delete"
      /\ \A j \in SvLasts : j # n => acceptors'[j] = acceptors[j]
  <2>1. "delete" \in SvWaits
    BY DEF SvWaits
  <2>2. SvTyped /\ Server!Accepting(n, "delete")
    BY <1>2 DEF Server!AcceptJoin, SvSound
  <2>3. QED  BY <2>1, <2>2, SvAccepting
<1>4. SvTyped' /\ SvUnharmed'
  BY <1>2, <1>3 DEF SvSound, SvTyped, SvUnharmed
<1>5. SvAnswered' /\ SvCorrect' /\ SvIdle'
  BY <1>1, <1>2, SvQuiet DEF SvSound, SvTurn, SvStage, SvEarly
<1>6. SvStage(n)'
  BY <1>1, <1>2, <1>3, <1>5 DEF SvTurn, SvStage
<1>7. SvGone(n)'
  <2>1. \A j \in Server!Client : j < n => loops[j].pc = "done"
    BY <1>1, <1>2, SvAllGone
  <2>2. QED  BY <1>1, <1>2, <1>3, <2>1, SvGoneKept DEF SvWaits
<1>8. SvComing(n)'
  BY <1>1, <1>2, <1>3, SvComingKept DEF SvEarly
<1>9. SvPresent(n)'
  BY <1>3 DEF SvPresent, SvEarly
<1>10. QED  BY <1>4, <1>5, <1>6, <1>7, <1>8, <1>9 DEF SvSound, SvTurn

LEMMA SvAcceptDelete ==
    ASSUME SvShape(pmas), SvCareful, SvSound, NEW k \in SvLasts, Server!AcceptDelete(k)
    PROVE  SvSound'
<1>1. PICK n \in SvLasts : SvTurn(n)
  BY DEF SvSound
<1>2. /\ k = n /\ acceptors[n] = "delete" /\ UNCHANGED <<loops, commands>>
      /\ n > 1 /\ loops[n - 1].pc = "done" /\ SvIdle
  BY <1>1, SvWhoWaits DEF Server!AcceptDelete, SvTurn, SvStage, SvEarly
<1>3. /\ acceptors' \in [SvLasts -> SvWaits] /\ acceptors'[n] = "accept"
      /\ \A j \in SvLasts : j # n => acceptors'[j] = acceptors[j]
  <2>1. "accept" \in SvWaits
    BY DEF SvWaits
  <2>2. SvTyped /\ Server!Accepting(n, "accept")
    BY <1>2 DEF Server!AcceptDelete, SvSound
  <2>3. QED  BY <2>1, <2>2, SvAccepting
<1>4. n - 1 \in Server!Client /\ n \in Nat
  BY <1>2, SvBounds DEF SvLasts, Server!Client
<1>5. /\ conns' \in [Server!Client -> SvConn]
      /\ \A j \in Server!Client : conns'[j].peer = conns[j].peer
                                  /\ conns'[j].output = conns[j].output
      /\ \A j \in Server!Client : j > n - 1 => conns'[j] = conns[j]
  <2> DEFINE p == n - 1
  <2>1. conns \in [Server!Client -> SvConn] /\ p \in Server!Client
    BY <1>4 DEF SvSound, SvTyped
  <2>2. conns' = [conns EXCEPT ![p].memory = "freed", ![p].thread = FALSE]
    BY <1>2 DEF Server!AcceptDelete
  <2>3. \A j \in Server!Client : j > n - 1 => j # p
    BY <1>4
  <2> HIDE DEF p
  <2>4. /\ conns' \in [Server!Client -> SvConn]
        /\ \A j \in Server!Client : conns'[j].peer = conns[j].peer
                                    /\ conns'[j].output = conns[j].output
        /\ \A j \in Server!Client : j # p => conns'[j] = conns[j]
    BY <2>1, <2>2 DEF SvConn
  <2>5. QED  BY <2>3, <2>4
<1>6. SvTyped' /\ SvUnharmed'
  <2>1. ~Server!Busy
    <3>1. DOMAIN commands = 1..Len(commands)
      BY LenProperties DEF SvSound, SvTyped
    <3>2. QED  BY <1>2, <3>1 DEF Server!Busy, SvIdle
  <2>2. SvUnharmed'
    BY <1>2, <2>1 DEF Server!AcceptDelete, SvShape, SvUnharmed, SvSound
  <2>3. QED  BY <1>2, <1>3, <1>5, <2>2 DEF SvSound, SvTyped
<1>7. SvAnswered' /\ SvCorrect' /\ SvIdle'
  BY <1>2, <1>5, SvQuiet DEF SvSound
<1>8. SvStage(n)'
  BY <1>2, <1>3, <1>7 DEF SvStage
<1>9. SvGone(n)'
  <2>1. \A j \in Server!Client : j < n => loops[j].pc = "done"
    BY <1>1, <1>2, SvAllGone
  <2>2. QED  BY <1>1, <1>2, <1>3, <1>5, <2>1, SvGoneKept DEF SvWaits
<1>10. SvComing(n)'
  <2>1. \A j \in Server!Client : j > n \/ j = n => j > n - 1
    BY <1>4 DEF Server!Client
  <2>2. acceptors[n] \in SvEarly
    BY <1>2 DEF SvEarly
  <2>3. \A j \in Server!Client : j > n => conns'[j] = conns[j] /\ loops'[j] = loops[j]
    BY <1>2, <1>5, <2>1
  <2>4. n \in Server!Client => conns'[n] = conns[n] /\ loops'[n] = loops[n]
    BY <1>2, <1>5, <2>1
  <2>5. QED  BY <1>1, <1>3, <2>2, <2>3, <2>4, SvComingKept
<1>11. SvPresent(n)'
  BY <1>3 DEF SvPresent, SvEarly
<1>12. QED  BY <1>6, <1>7, <1>8, <1>9, <1>10, <1>11 DEF SvSound, SvTurn

LEMMA SvAccept ==
    ASSUME SvShape(pmas), SvCareful, SvSound, NEW k \in SvLasts, Server!Accept(k)
    PROVE  SvSound'
<1>1. PICK n \in SvLasts : SvTurn(n)
  BY DEF SvSound
<1>2. k = n /\ acceptors[n] = "accept" /\ UNCHANGED <<loops, commands>>
  BY <1>1, SvWhoWaits DEF Server!Accept
<1>3. \A j \in Server!Client : j < n => loops[j].pc = "done"
  BY <1>1, <1>2, SvAllGone
<1>4. SvIdle /\ acceptors[n] \in SvEarly
  BY <1>1, <1>2 DEF SvTurn, SvStage, SvEarly
<1>5. CASE /\ n \in Server!Client
           /\ conns' = [conns EXCEPT ![n].memory = "live", ![n].peer = "open"]
           /\ pmas' = [pmas EXCEPT !.mutex = "free", !.m_pConnection = n,
                                   !.undefined = pmas.deleted]
           /\ Server!Accepting(n, "handle")
  <2>1. /\ acceptors' \in [SvLasts -> SvWaits] /\ acceptors'[n] = "handle"
        /\ \A j \in SvLasts : j # n => acceptors'[j] = acceptors[j]
    BY <1>5, SvAccepting DEF SvWaits, SvSound
  <2>2. /\ conns' \in [Server!Client -> SvConn]
        /\ conns'[n].memory = "live" /\ conns'[n].peer = "open"
        /\ conns'[n].input = conns[n].input
        /\ \A j \in Server!Client : j # n => conns'[j] = conns[j]
        /\ \A j \in Server!Client : conns'[j].output = conns[j].output
    BY <1>5 DEF SvSound, SvTyped, SvConn
  <2>3. SvUnharmed' /\ pmas'.m_pConnection = n
    BY <1>5 DEF SvShape, SvUnharmed, SvSound, SvCareful
  <2>4. SvTyped'
    BY <1>2, <2>1, <2>2 DEF SvSound, SvTyped
  <2>5. SvAnswered' /\ SvCorrect' /\ SvIdle'
    BY <1>2, <1>4, <2>2, SvQuiet DEF SvSound
  <2>6. SvStage(n)'
    BY <2>1 DEF SvStage, SvEarly
  <2>7. \A j \in Server!Client : (j < n \/ j > n) => j # n
    BY <1>5, SvNumbers
  <2>8. SvGone(n)'
    BY <1>1, <1>2, <1>3, <2>1, <2>2, <2>7, SvGoneKept DEF SvWaits
  <2>9. SvComing(n)'
    BY <1>1, <1>2, <2>1, <2>2, <2>7, SvComingKept DEF SvEarly
  <2>10. SvPresent(n)'
    <3>1. loops[n].pc = "none" /\ conns[n].input = << >> /\ loops[n].handler = "none"
          /\ loops[n].params = 0
      BY <1>1, <1>4, <1>5 DEF SvTurn, SvComing
    <3>2. SvMessage(n)'
      BY <1>2, <2>2, <2>5, <3>1 DEF SvMessage
    <3>3. \A r \in 1..Len(commands') : commands'[r].pc = "done"
      BY <2>5 DEF SvIdle
    <3>4. QED  BY <1>2, <1>5, <2>1, <2>2, <2>3, <2>5, <3>1, <3>2, <3>3 DEF SvPresent
  <2>11. QED  BY <2>3, <2>4, <2>5, <2>6, <2>8, <2>9, <2>10 DEF SvSound, SvTurn
<1>6. CASE /\ pmas' = [pmas EXCEPT !.mutex = "free", !.undefined = pmas.deleted]
           /\ Server!Accepting(n, "deaf") /\ UNCHANGED conns
  <2>1. /\ acceptors' \in [SvLasts -> SvWaits] /\ acceptors'[n] = "deaf"
        /\ \A j \in SvLasts : j # n => acceptors'[j] = acceptors[j]
    BY <1>6, SvAccepting DEF SvWaits, SvSound
  <2>2. SvUnharmed'
    BY <1>6 DEF SvShape, SvUnharmed, SvSound, SvCareful
  <2>3. SvTyped'
    BY <1>2, <1>6, <2>1 DEF SvSound, SvTyped
  <2>4. SvAnswered' /\ SvCorrect' /\ SvIdle'
    BY <1>2, <1>4, <1>6, SvQuiet DEF SvSound
  <2>5. SvStage(n)'
    BY <2>1, <2>4 DEF SvStage
  <2>6. SvGone(n)'
    BY <1>1, <1>2, <1>3, <1>6, <2>1, SvGoneKept DEF SvWaits
  <2>7. SvComing(n)'
    BY <1>1, <1>2, <1>4, <1>6, <2>1, SvComingKept
  <2>8. SvPresent(n)'
    BY <2>1 DEF SvPresent, SvEarly
  <2>9. QED  BY <2>2, <2>3, <2>4, <2>5, <2>6, <2>7, <2>8 DEF SvSound, SvTurn
<1>7. QED  BY <1>2, <1>5, <1>6 DEF Server!Accept

LEMMA SvAcceptHandle ==
    ASSUME SvShape(pmas), SvCareful, SvSound, NEW k \in SvLasts, Server!AcceptHandle(k)
    PROVE  SvSound'
<1>1. PICK n \in SvLasts : SvTurn(n)
  BY DEF SvSound
<1>2. /\ k = n /\ acceptors[n] = "handle" /\ UNCHANGED <<conns, commands>>
      /\ n \in Server!Client /\ conns[n].memory = "live" /\ pmas.m_pConnection = n
      /\ SvMessage(n) /\ conns[n].peer = "open" /\ SvIdle /\ loops[n].pc = "none"
  BY <1>1, SvWhoWaits DEF Server!AcceptHandle, SvTurn, SvPresent, SvEarly
<1>3. \A j \in Server!Client : j < n => loops[j].pc = "done"
  BY <1>1, <1>2, SvAllGone
<1>4. /\ acceptors' \in [SvLasts -> SvWaits] /\ acceptors'[n] = "store"
      /\ \A j \in SvLasts : j # n => acceptors'[j] = acceptors[j]
  BY <1>2, SvAccepting DEF Server!AcceptHandle, SvWaits, SvSound
<1>5. /\ loops' \in [Server!Client -> SvLoop] /\ loops'[n].pc = "receive"
      /\ loops'[n].handler = loops[n].handler /\ loops'[n].params = loops[n].params
      /\ loops'[n].expected = loops[n].expected
      /\ \A j \in Server!Client : j # n => loops'[j] = loops[j]
  BY <1>2 DEF Server!AcceptHandle, SvSound, SvTyped, SvLoop
<1>6. SvUnharmed' /\ pmas'.m_pConnection = n /\ pmas'.pConnection = n
  BY <1>2 DEF Server!AcceptHandle, SvShape, SvUnharmed, SvSound
<1>7. SvTyped'
  BY <1>2, <1>4, <1>5 DEF SvSound, SvTyped
<1>8. SvAnswered' /\ SvCorrect' /\ SvIdle'
  BY <1>2, SvQuiet DEF SvSound
<1>9. SvStage(n)'
  BY <1>4 DEF SvStage, SvEarly
<1>10. \A j \in Server!Client : (j < n \/ j > n) => j # n
  BY <1>2, SvNumbers
<1>11. SvGone(n)'
  BY <1>1, <1>2, <1>3, <1>4, <1>5, <1>10, SvGoneKept DEF SvWaits
<1>12. SvComing(n)'
  BY <1>1, <1>2, <1>4, <1>5, <1>10, SvComingKept DEF SvEarly
<1>13. SvPresent(n)'
  <2>1. SvMessage(n)'
    BY <1>2, <1>5, <1>8 DEF SvMessage
  <2>2. \A r \in 1..Len(commands') : commands'[r].pc = "done"
    BY <1>8 DEF SvIdle
  <2>3. QED  BY <1>2, <1>4, <1>5, <1>6, <2>1, <2>2 DEF SvPresent
<1>14. QED  BY <1>6, <1>7, <1>8, <1>9, <1>11, <1>12, <1>13 DEF SvSound, SvTurn

LEMMA SvAcceptStore ==
    ASSUME SvShape(pmas), SvCareful, SvSound, NEW k \in SvLasts, Server!AcceptStore(k)
    PROVE  SvSound'
<1>1. PICK n \in SvLasts : SvTurn(n)
  BY DEF SvSound
<1>2. /\ k = n /\ acceptors[n] = "store" /\ UNCHANGED <<loops, commands>>
      /\ n \in Server!Client /\ conns[n].memory = "live" /\ SvPresent(n)
  BY <1>1, SvWhoWaits DEF Server!AcceptStore, SvTurn, SvPresent, SvEarly
<1>3. \A j \in Server!Client : j < n => loops[j].pc = "done"
  BY <1>1, <1>2, SvAllGone
<1>4. /\ acceptors' \in [SvLasts -> SvWaits] /\ acceptors'[n] = "done"
      /\ \A j \in SvLasts : j # n => acceptors'[j] = acceptors[j]
  BY <1>2, SvAccepting DEF Server!AcceptStore, SvWaits, SvSound
<1>5. /\ conns' \in [Server!Client -> SvConn] /\ conns'[n].thread
      /\ conns'[n].memory = "live" /\ conns'[n].input = conns[n].input
      /\ conns'[n].peer = conns[n].peer
      /\ \A j \in Server!Client : j # n => conns'[j] = conns[j]
      /\ \A j \in Server!Client : conns'[j].output = conns[j].output
  BY <1>2 DEF Server!AcceptStore, SvSound, SvTyped, SvConn
<1>6. /\ SvUnharmed' /\ pmas'.m_pConnection = pmas.m_pConnection
      /\ pmas'.pConnection = pmas.pConnection
  BY <1>2 DEF Server!AcceptStore, Server!Undefined, SvShape, SvUnharmed, SvSound
<1>7. SvTyped'
  BY <1>2, <1>4, <1>5 DEF SvSound, SvTyped
<1>8. SvAnswered' /\ SvCorrect' /\ (SvIdle <=> SvIdle')
  BY <1>2, <1>5, SvQuiet DEF SvSound
<1>9. SvStage(n)'
  BY <1>4 DEF SvStage, SvEarly
<1>10. \A j \in Server!Client : (j < n \/ j > n) => j # n
  BY <1>2, SvNumbers
<1>11. SvGone(n)'
  BY <1>1, <1>2, <1>3, <1>4, <1>5, <1>10, SvGoneKept DEF SvWaits
<1>12. SvComing(n)'
  BY <1>1, <1>2, <1>4, <1>5, <1>10, SvComingKept DEF SvEarly
<1>13. SvPresent(n)'
  <2>1. acceptors[n] \notin SvEarly
    BY <1>2 DEF SvEarly
  <2>2. SvMessage(n)'
    BY <1>2, <1>5, <1>8, <2>1 DEF SvPresent, SvMessage
  <2>3. QED  BY <1>2, <1>4, <1>5, <1>6, <2>1, <2>2 DEF SvPresent
<1>14. QED  BY <1>6, <1>7, <1>8, <1>9, <1>11, <1>12, <1>13 DEF SvSound, SvTurn

-----------------------------------------------------------------------------
(* Messages and what a loop makes of them.                                 *)

LEMMA SvArity == ASSUME NEW cmd PROVE Server!Arity(cmd) \in 0..2 /\ Server!Arity(cmd) \in Nat
  BY DEF Server!Arity

LEMMA SvMessageIs ==
    ASSUME NEW cmd \in Command
    PROVE  LET m == Server!Message(cmd)
           IN  /\ m \in Seq(SvWord) /\ m # << >> /\ Head(m) = cmd
               /\ Len(Tail(m)) = Server!Arity(cmd)
               /\ \A i \in 1..Len(Tail(m)) : Tail(m)[i] = "word"
<1> DEFINE a == Server!Arity(cmd)
           h == <<cmd>>
           w == [i \in 1..a |-> "word"]
           m == h \o w
<1>1. a \in Nat
  BY SvArity
<1>2. h \in Seq(SvWord) /\ Len(h) = 1 /\ h[1] = cmd
  BY DEF SvWord
<1>3. w \in [1..a -> SvWord] /\ \A i \in 1..a : w[i] = "word"
  BY DEF SvWord
<1>4. Server!Message(cmd) = m
  BY DEF Server!Message
<1> HIDE DEF h, w, a
<1>5. w \in Seq(SvWord) /\ Len(w) = a
  BY <1>1, <1>3, FunctionIsSeq
<1>6. /\ m \in Seq(SvWord) /\ Len(m) = 1 + a
      /\ \A i \in 1..(1 + a) : m[i] = IF i <= 1 THEN h[i] ELSE w[i - 1]
  <2>1. /\ m \in Seq(SvWord) /\ Len(m) = Len(h) + Len(w)
        /\ \A i \in 1..(Len(h) + Len(w)) : m[i] = IF i <= Len(h) THEN h[i] ELSE w[i - Len(h)]
    BY <1>2, <1>5, ConcatProperties
  <2> HIDE DEF m
  <2>2. QED  BY <1>2, <1>5, <2>1
<1> HIDE DEF m
<1>7. m # << >> /\ Len(m) \in Nat \ {0} /\ 1 \in 1..(1 + a)
  BY <1>1, <1>6, EmptySeq
<1>8. Head(m) = m[1] /\ Len(Tail(m)) = a /\ \A i \in 1..a : Tail(m)[i] = m[i + 1]
  BY <1>1, <1>6, <1>7, HeadTailProperties
<1>9. Head(m) = cmd
  BY <1>2, <1>6, <1>7, <1>8
<1>10. ASSUME NEW i \in 1..a PROVE Tail(m)[i] = "word"
  <2>1. i + 1 \in 1..(1 + a) /\ ~(i + 1 <= 1) /\ (i + 1) - 1 = i
    BY <1>1
  <2>2. QED  BY <1>3, <1>6, <1>8, <2>1
<1>11. QED  BY <1>4, <1>6, <1>7, <1>8, <1>9, <1>10 DEF a

\* After each word the loop has the command, and waits for as many words as are to come.
LEMMA SvParsed ==
    ASSUME SvTyped, NEW n \in Server!Client, SvMessage(n), loops[n].pc = "receive",
           conns[n].input # << >>
    PROVE  LET input == conns[n].input
               l == Server!Parsed(loops[n], Head(input))
           IN  /\ l \in SvLoop /\ l.pc = "receive" /\ l.handler \in Command
               /\ l.params + l.expected = Server!Arity(l.handler)
               /\ Tail(input) \in Seq(SvWord) /\ Len(Tail(input)) = l.expected
               /\ \A i \in 1..Len(Tail(input)) : Tail(input)[i] = "word"
<1> DEFINE input == conns[n].input
           a == loops[n]
           w == Head(input)
           l == Server!Parsed(a, w)
<1>1. input \in Seq(SvWord) /\ a \in SvLoop /\ input # << >>
  BY DEF SvTyped, SvConn
<1>2. /\ Tail(input) \in Seq(SvWord) /\ Len(input) \in Nat \ {0}
      /\ Len(Tail(input)) = Len(input) - 1
      /\ \A i \in 1..Len(Tail(input)) : Tail(input)[i] = input[i + 1]
      /\ w = input[1]
  BY <1>1, HeadTailProperties, EmptySeq
<1>3. CASE a.handler = "none"
  <2>1. a.params = 0 /\ \E cmd \in Command : input = Server!Message(cmd)
    BY <1>1, <1>3 DEF SvMessage
  <2>2. PICK cmd \in Command : input = Server!Message(cmd)
    BY <2>1
  <2> HIDE DEF input
  <2>3. /\ w = cmd /\ Len(Tail(input)) = Server!Arity(cmd)
        /\ \A i \in 1..Len(Tail(input)) : Tail(input)[i] = "word"
    BY <2>2, SvMessageIs
  <2> HIDE DEF w
  <2>4. l = [a EXCEPT !.handler = cmd, !.expected = Server!Arity(cmd)]
    BY <1>3, <2>3, SvWords DEF Server!Parsed
  <2> HIDE DEF l, a
  <2>5. /\ l \in SvLoop /\ l.pc = a.pc /\ l.handler = cmd /\ l.params = a.params
        /\ l.expected = Server!Arity(cmd)
    BY <1>1, <2>4, SvArity DEF SvLoop
  <2>6. l.params + l.expected = Server!Arity(l.handler)
    BY <2>1, <2>5, SvArity
  <2>7. QED  BY <1>2, <2>3, <2>5, <2>6 DEF a, l, w, input
<1>4. CASE a.handler # "none"
  <2>1. /\ a.expected # 0 /\ a.params + a.expected = Server!Arity(a.handler)
        /\ Len(input) = a.expected /\ \A i \in 1..Len(input) : input[i] = "word"
    BY <1>4 DEF SvMessage
  <2>2. a.params \in Nat /\ a.expected \in Nat /\ a.handler \in Command
    BY <1>1, <1>4 DEF SvLoop
  <2> HIDE DEF input
  <2>3. w = "word" /\ \A i \in 1..Len(Tail(input)) : Tail(input)[i] = "word"
    <3>1. 1 \in 1..Len(input) /\ \A i \in 1..Len(Tail(input)) : i + 1 \in 1..Len(input)
      BY <1>2
    <3>2. QED  BY <1>2, <2>1, <3>1
  <2> HIDE DEF w, a
  <2>4. l = [a EXCEPT !.params = @ + 1, !.expected = @ - 1]
    BY <1>4, <2>3 DEF Server!Parsed
  <2> DEFINE e == a.expected
             p == a.params
  <2>5. e \in Nat \ {0} /\ p \in Nat
    BY <2>1, <2>2
  <2>6. /\ l = [a EXCEPT !.params = p + 1, !.expected = e - 1]
        /\ p + 1 \in Nat /\ e - 1 \in Nat /\ (p + 1) + (e - 1) = p + e
    BY <2>4, <2>5
  <2> HIDE DEF l, e, p
  <2>7. /\ l \in SvLoop /\ l.pc = a.pc /\ l.handler = a.handler /\ l.params = p + 1
        /\ l.expected = e - 1
    BY <1>1, <2>6 DEF SvLoop
  <2>8. p + e = Server!Arity(l.handler) /\ Len(input) = e
    BY <2>1, <2>7 DEF p, e
  <2>9. l.params + l.expected = Server!Arity(l.handler) /\ Len(Tail(input)) = l.expected
    BY <1>2, <2>6, <2>7, <2>8
  <2>10. QED  BY <1>2, <2>2, <2>3, <2>7, <2>9 DEF a, l, w, input
<1>5. QED  BY <1>3, <1>4

-----------------------------------------------------------------------------
(* The turn remains with the client that is there.                         *)

LEMMA SvTurnKept ==
    ASSUME SvTyped, NEW n \in SvLasts, SvTurn(n), acceptors[n] \notin SvEarly, UNCHANGED acceptors,
           \A j \in Server!Client : j # n => conns'[j] = conns[j] /\ loops'[j] = loops[j],
           SvPresent(n)'
    PROVE  SvTurn(n)'
<1>1. \A j \in Server!Client : (j < n \/ j > n) => j # n
  BY SvNumbers DEF Server!Client, SvLasts
<1>2. acceptors'[n] \in SvWaits
  BY DEF SvTyped
<1>3. \A j \in Server!Client : j < n => loops[j].pc = "done"
  <2>1. acceptors[n] \notin {"lock", "read", "join"}
    BY DEF SvEarly
  <2>2. QED  BY <2>1, SvAllGone
<1>4. SvGone(n)'
  BY <1>1, <1>2, <1>3, SvGoneKept
<1>5. SvComing(n)'
  BY <1>1, SvComingKept
<1>6. SvStage(n)'
  <2>1. /\ acceptors[n] \notin {"lock", "read", "join", "delete", "accept"}
        /\ acceptors[n] # "none"
    BY DEF SvEarly, SvTurn, SvStage
  <2>2. QED  BY <2>1 DEF SvStage
<1>7. QED  BY <1>4, <1>5, <1>6 DEF SvTurn

LEMMA SvSentBound ==
    ASSUME SvTyped, SvCorrect
    PROVE  \A r \in 1..Len(commands) : commands[r].sent <= Len(commands[r].parts)
<1>1. ASSUME NEW r \in 1..Len(commands)
      PROVE  commands[r].sent <= Len(commands[r].parts)
  <2> DEFINE c == commands[r]
  <2>1. c \in SvCommand /\ SvRuns(c)
    BY ElementOfSeq DEF SvTyped, SvCorrect
  <2> HIDE DEF c
  <2>2. c.sent \in Nat /\ Len(c.parts) \in Nat
    BY <2>1, LenProperties DEF SvCommand
  <2>3. c.sent <= Len(c.parts)
    BY <2>1, <2>2 DEF SvRuns
  <2>4. QED  BY <2>3 DEF c
<1>2. QED  BY <1>1

LEMMA SvLoopWord ==
    ASSUME SvShape(pmas), SvCareful, SvSound, NEW k \in Server!Client, Server!LoopWord(k)
    PROVE  SvSound'
<1>1. PICK n \in SvLasts : SvTurn(n)
  BY DEF SvSound
<1>2. k = n /\ acceptors[n] \notin SvEarly /\ loops[n].pc = "receive" /\ conns[n].input # << >>
  BY <1>1, SvWhoReads DEF Server!LoopWord
<1>3. /\ n \in Server!Client /\ SvMessage(n) /\ SvPresent(n) /\ SvTyped
      /\ UNCHANGED <<pmas, acceptors>>
  BY <1>1, <1>2 DEF SvTurn, SvPresent, SvSound, Server!LoopWord
<1>4. conns[n].peer # "closed" /\ SvIdle
  BY <1>2, <1>3 DEF SvMessage
<1> DEFINE l == Server!Parsed(loops[n], Head(conns[n].input))
           rest == Tail(conns[n].input)
<1>5. /\ l \in SvLoop /\ l.pc = "receive" /\ l.handler \in Command
      /\ l.params + l.expected = Server!Arity(l.handler)
      /\ rest \in Seq(SvWord) /\ Len(rest) = l.expected
      /\ \A i \in 1..Len(rest) : rest[i] = "word"
  BY <1>2, <1>3, SvParsed
<1>6. /\ conns' = [conns EXCEPT ![n].input = rest]
      /\ IF l.handler # "none" /\ l.expected = 0 THEN Server!RunCommand(n, l)
         ELSE loops' = [loops EXCEPT ![n] = l] /\ UNCHANGED commands
  BY <1>2 DEF Server!LoopWord
<1> HIDE DEF l, rest
<1>7. /\ conns' \in [Server!Client -> SvConn] /\ conns'[n].input = rest
      /\ conns'[n].peer = conns[n].peer /\ conns'[n].memory = conns[n].memory
      /\ conns'[n].thread = conns[n].thread
      /\ \A j \in Server!Client : j # n => conns'[j] = conns[j]
      /\ \A j \in Server!Client : conns'[j].output = conns[j].output
  <2>1. conns \in [Server!Client -> SvConn] /\ n \in Server!Client
    BY <1>3 DEF SvTyped
  <2>2. rest \in Seq(SvWord) /\ conns' = [conns EXCEPT ![n].input = rest]
    BY <1>5, <1>6
  <2>3. QED  BY <2>1, <2>2 DEF SvConn
<1>8. loops \in [Server!Client -> SvLoop] /\ commands \in Seq(SvCommand) /\ SvAnswered /\ SvCorrect
  BY DEF SvSound, SvTyped
<1>9. l.handler # "none"
  BY <1>5, SvWords
<1>10. CASE l.expected # 0
  <2>1. loops' = [loops EXCEPT ![n] = l] /\ UNCHANGED commands
    BY <1>6, <1>10
  <2>2. /\ loops' \in [Server!Client -> SvLoop] /\ loops'[n] = l
        /\ \A j \in Server!Client : j # n => loops'[j] = loops[j]
    BY <1>3, <1>5, <1>8, <2>1
  <2>3. SvAnswered' /\ SvCorrect' /\ SvIdle'
    BY <1>4, <1>7, <1>8, <2>1, SvQuiet
  <2>4. SvMessage(n)'
    BY <1>4, <1>5, <1>7, <1>9, <1>10, <2>2, <2>3 DEF SvMessage
  <2>5. \A r \in 1..Len(commands') : commands'[r].pc = "done"
    BY <2>3 DEF SvIdle
  <2>6. SvPresent(n)'
    BY <1>2, <1>3, <1>5, <1>7, <2>2, <2>4, <2>5 DEF SvPresent
  <2>7. SvTurn(n)'
    BY <1>1, <1>2, <1>3, <1>7, <2>2, <2>6, SvTurnKept
  <2>8. SvTyped'
    BY <1>3, <1>7, <2>1, <2>2 DEF SvTyped
  <2>9. QED  BY <1>3, <2>3, <2>7, <2>8 DEF SvSound, SvUnharmed
<1>11. CASE l.expected = 0
  <2>1. rest = << >> /\ l.params = Server!Arity(l.handler) /\ Server!RunCommand(n, l)
    <3>1. rest = << >>
      BY <1>5, <1>11, EmptySeq
    <3>2. l.params \in Nat
      BY <1>5 DEF SvLoop
    <3>3. l.params = Server!Arity(l.handler)
      BY <1>5, <1>11, <3>2
    <3>4. QED  BY <1>6, <1>9, <1>11, <3>1, <3>3
  <2>2. CASE loops' = [loops EXCEPT ![n].pc = "dead"] /\ UNCHANGED commands
    <3>1. /\ loops' \in [Server!Client -> SvLoop] /\ loops'[n].pc = "dead"
          /\ \A j \in Server!Client : j # n => loops'[j] = loops[j]
      BY <1>3, <1>8, <2>2 DEF SvLoop
    <3>2. SvAnswered' /\ SvCorrect' /\ SvIdle'
      BY <1>4, <1>7, <1>8, <2>2, SvQuiet
    <3>3. SvMessage(n)'
      BY <1>4, <1>7, <2>1, <3>1, <3>2 DEF SvMessage
    <3>4. \A r \in 1..Len(commands') : commands'[r].pc = "done"
      BY <3>2 DEF SvIdle
    <3>5. SvPresent(n)'
      BY <1>2, <1>3, <1>7, <3>1, <3>3, <3>4 DEF SvPresent
    <3>6. SvTurn(n)'
      BY <1>1, <1>2, <1>3, <1>7, <3>1, <3>5, SvTurnKept
    <3>7. SvTyped'
      BY <1>3, <1>7, <2>2, <3>1 DEF SvTyped
    <3>8. QED  BY <1>3, <3>2, <3>6, <3>7 DEF SvSound, SvUnharmed
  <2> DEFINE c == [pc |-> "begin", cmd |-> l.handler, from |-> n, params |-> l.params,
                   parts |-> << >>, sent |-> 0]
  <2>3. CASE /\ commands' = Append(commands, c)
             /\ loops' = [loops EXCEPT ![n] = [l EXCEPT !.handler = "none", !.params = 0]]
    <3>1. /\ loops' \in [Server!Client -> SvLoop] /\ loops'[n].pc = "receive"
          /\ loops'[n].handler = "none" /\ loops'[n].params = 0
          /\ \A j \in Server!Client : j # n => loops'[j] = loops[j]
      BY <1>3, <1>5, <1>8, <2>3 DEF SvLoop
    <3>2. c \in SvCommand /\ SvRuns(c) /\ c.from = n /\ c.sent = 0
      <4>1. << >> \in Seq(SvPart)
        BY EmptySeq
      <4>2. l.params \in Nat
        BY <1>5 DEF SvLoop
      <4>3. QED  BY <1>3, <1>5, <2>1, <4>1, <4>2 DEF SvCommand, SvRuns
    <3> HIDE DEF c
    <3> DEFINE m == Len(commands)
    <3>3. /\ commands' \in Seq(SvCommand) /\ Len(commands') = m + 1 /\ m \in Nat
          /\ commands'[m + 1] = c /\ \A r \in 1..m : commands'[r] = commands[r]
      BY <1>8, <2>3, <3>2, Appended, LenProperties
    <3>4. \A r \in 1..Len(commands') : r = m + 1 \/ r \in 1..m
      BY <3>3
    <3>5. SvCorrect'
      BY <1>8, <3>2, <3>3, <3>4 DEF SvCorrect
    <3>6. SvAnswered'
      <4>1. ASSUME NEW j \in Server!Client
            PROVE  conns'[j].output = Server!FlattenSeq(SvGiven(commands', j))
        <5>1. \A r \in 1..Len(commands) : commands[r].sent <= Len(commands[r].parts)
          BY <1>3, <1>8, SvSentBound
        <5>2. Server!FlattenSeq(SvGiven(Append(commands, c), j)) =
                 Server!FlattenSeq(SvGiven(commands, j))
          BY <1>8, <3>2, <5>1, SvGivenBegun
        <5>3. QED  BY <1>7, <1>8, <2>3, <5>2 DEF SvAnswered
      <4>2. QED  BY <4>1 DEF SvAnswered
    <3>7. \A r \in 1..Len(commands') :
              commands'[r].pc # "done" => r = Len(commands') /\ commands'[r].from = n
      BY <1>4, <3>2, <3>3, <3>4 DEF SvIdle
    <3>8. SvMessage(n)'
      BY <1>4, <1>7, <2>1, <3>1 DEF SvMessage
    <3>9. SvPresent(n)'
      BY <1>2, <1>3, <1>7, <3>1, <3>7, <3>8 DEF SvPresent
    <3>10. SvTurn(n)'
      BY <1>1, <1>2, <1>3, <1>7, <3>1, <3>9, SvTurnKept
    <3>11. SvTyped'
      BY <1>3, <1>7, <3>1, <3>3 DEF SvTyped
    <3>12. QED  BY <1>3, <3>5, <3>6, <3>10, <3>11 DEF SvSound, SvUnharmed
  <2>4. QED  BY <2>1, <2>2, <2>3 DEF Server!RunCommand
<1>12. QED  BY <1>10, <1>11

LEMMA SvLoopEnd ==
    ASSUME SvShape(pmas), SvCareful, SvSound, NEW k \in Server!Client, Server!LoopEnd(k)
    PROVE  SvSound'
<1>1. PICK n \in SvLasts : SvTurn(n)
  BY DEF SvSound
<1>2. k = n /\ acceptors[n] \notin SvEarly /\ conns[n].peer = "closed"
      /\ UNCHANGED <<conns, commands>>
  BY <1>1, SvWhoReads DEF Server!LoopEnd, Server!AtEnd
<1>3. /\ n \in Server!Client /\ acceptors[n] = "done" /\ SvIdle /\ conns[n].memory = "live"
      /\ conns[n].thread /\ pmas.m_pConnection = n /\ SvTyped
  BY <1>1, <1>2 DEF SvTurn, SvPresent, SvMessage, SvSound
<1> DEFINE u == n + 1
<1>4. u \in SvLasts /\ u # n /\ u > n /\ u - 1 = n /\ u # 1 /\ "lock" \in SvWaits
  BY <1>3, SvNumbers DEF SvWaits, SvLasts, Server!Client
<1>5. Server!Accepting(u, "lock") /\ loops' = [loops EXCEPT ![n].pc = "null"]
  BY <1>2 DEF Server!LoopEnd
<1>6. SvUnharmed' /\ pmas'.m_pConnection = n
  BY <1>2, <1>3 DEF Server!LoopEnd, Server!Undefined, SvShape, SvUnharmed, SvSound, SvCareful
<1>7. \A j \in Server!Client : /\ j < u => j = n \/ j < n
                               /\ j > u \/ j = u => j > n /\ j # n
                               /\ j < n => j # n
                               /\ j \in SvLasts /\ (j < n \/ j = n => j # u)
  BY <1>3, SvNumbers DEF SvLasts, Server!Client
<1>8. \A j \in SvLasts : j > u => j > n /\ j # u
  BY <1>3 DEF SvLasts, Server!Client
<1> HIDE DEF u
<1>9. /\ acceptors' \in [SvLasts -> SvWaits] /\ acceptors'[u] = "lock"
      /\ \A j \in SvLasts : j # u => acceptors'[j] = acceptors[j]
  BY <1>3, <1>4, <1>5, SvAccepting
<1>10. /\ loops' \in [Server!Client -> SvLoop] /\ loops'[n].pc = "null"
       /\ \A j \in Server!Client : j # n => loops'[j] = loops[j]
  <2>1. /\ loops \in [Server!Client -> SvLoop] /\ n \in Server!Client
        /\ loops' = [loops EXCEPT ![n].pc = "null"]
    BY <1>3, <1>5 DEF SvTyped
  <2>2. [loops[n] EXCEPT !.pc = "null"] \in SvLoop
    BY ONLY <2>1 DEF SvLoop
  <2>3. [loops[n] EXCEPT !.pc = "null"].pc = "null"
    BY ONLY <2>1 DEF SvLoop
  <2>4. QED  BY ONLY <2>1, <2>2, <2>3
<1>11. SvTyped'
  <2>1. conns \in [Server!Client -> SvConn] /\ commands \in Seq(SvCommand)
    BY <1>3 DEF SvTyped
  <2>2. conns' = conns /\ commands' = commands
    BY <1>2
  <2>3. acceptors' \in [SvLasts -> SvWaits] /\ loops' \in [Server!Client -> SvLoop]
    BY <1>9, <1>10
  <2>4. QED  BY ONLY <2>1, <2>2, <2>3 DEF SvTyped
<1>12. SvAnswered' /\ SvCorrect' /\ SvIdle'
  BY <1>2, <1>3, SvQuiet DEF SvSound
<1>13. SvStage(u)'
  BY <1>4, <1>6, <1>9, <1>12 DEF SvStage
<1>14. SvGone(u)'
  <2>1. ASSUME NEW j \in Server!Client, j < n
        PROVE  acceptors'[j] = "done" /\ conns'[j].peer = "closed" /\ loops'[j].pc = "done"
    <3>1. loops[j].pc = "done"
      BY <1>1, <1>3, <2>1, SvAllGone
    <3>2. acceptors[j] = "done" /\ conns[j].peer = "closed"
      BY <1>1, <2>1 DEF SvTurn, SvGone
    <3>3. QED  BY <1>2, <1>7, <1>9, <1>10, <2>1, <3>1, <3>2
  <2>2. /\ acceptors'[n] = "done" /\ conns'[n].peer = "closed" /\ loops'[n].pc = "null"
        /\ n + 1 = u /\ acceptors'[u] = "lock" /\ conns'[n].thread /\ conns'[n].memory = "live"
    BY <1>2, <1>3, <1>7, <1>9, <1>10 DEF u
  <2>3. QED  BY <1>7, <2>1, <2>2 DEF SvGone
<1>15. SvComing(u)'
  <2>1. \A j \in SvLasts : j > u => acceptors'[j] = "none"
    BY <1>1, <1>8, <1>9 DEF SvTurn, SvComing
  <2>2. ASSUME NEW j \in Server!Client, j > u \/ j = u
        PROVE  /\ conns'[j].peer = "none" /\ loops'[j].pc = "none" /\ conns'[j].input = << >>
               /\ loops'[j].handler = "none" /\ loops'[j].params = 0
    BY <1>1, <1>2, <1>7, <1>10, <2>2 DEF SvTurn, SvComing
  <2>3. QED  BY <2>1, <2>2 DEF SvComing
<1>16. SvPresent(u)'
  BY <1>9 DEF SvPresent, SvEarly
<1>17. SvTurn(u)'
  BY <1>13, <1>14, <1>15, <1>16 DEF SvTurn
<1>18. QED  BY <1>4, <1>6, <1>11, <1>12, <1>17 DEF SvSound

LEMMA SvLoopNull ==
    ASSUME SvShape(pmas), SvCareful, SvSound, NEW k \in Server!Client, Server!LoopNull(k)
    PROVE  SvSound'
<1>1. PICK n \in SvLasts : SvTurn(n)
  BY DEF SvSound
<1>2. /\ k + 1 = n /\ acceptors[n] \in {"lock", "read", "join"} /\ conns[k].memory = "live"
      /\ UNCHANGED <<acceptors, commands>> /\ loops[k].pc = "null"
  BY <1>1, SvWhoEnds DEF Server!LoopNull
<1>3. SvTyped /\ SvIdle /\ acceptors[n] \in SvEarly
  BY <1>1, <1>2 DEF SvSound, SvTurn, SvStage, SvEarly
<1>4. /\ conns' \in [Server!Client -> SvConn]
      /\ \A j \in Server!Client : conns'[j].peer = conns[j].peer
                                  /\ conns'[j].output = conns[j].output
      /\ \A j \in Server!Client : j # k => conns'[j] = conns[j]
  BY <1>3 DEF Server!LoopNull, SvTyped, SvConn
<1>5. /\ loops' \in [Server!Client -> SvLoop] /\ loops'[k].pc = "done"
      /\ \A j \in Server!Client : j # k => loops'[j] = loops[j]
  BY <1>3 DEF Server!LoopNull, SvTyped, SvLoop
<1>6. SvUnharmed' /\ pmas'.m_pConnection = pmas.m_pConnection
  BY <1>2 DEF Server!LoopNull, Server!Undefined, SvShape, SvUnharmed, SvSound
<1>7. SvTyped'
  BY <1>2, <1>3, <1>4, <1>5 DEF SvTyped
<1>8. SvAnswered' /\ SvCorrect' /\ SvIdle'
  BY <1>2, <1>3, <1>4, SvQuiet DEF SvSound
<1>9. \A j \in Server!Client : (j > n \/ j = n => j # k) /\ (j + 1 = n => j = k)
  BY <1>2 DEF Server!Client
<1>10. SvStage(n)'
  BY <1>1, <1>2, <1>6, <1>8 DEF SvTurn, SvStage
<1>11. SvGone(n)'
  <2>1. ASSUME NEW j \in Server!Client, j < n
        PROVE  acceptors'[j] = "done" /\ conns'[j].peer = "closed" /\ loops'[j].pc = "done"
    <3>1. acceptors[j] = "done" /\ conns[j].peer = "closed" /\ (j = k \/ loops[j].pc = "done")
      BY <1>1, <1>9, <2>1 DEF SvTurn, SvGone
    <3>2. QED  BY <1>2, <1>4, <1>5, <3>1
  <2>2. QED  BY <2>1 DEF SvGone
<1>12. SvComing(n)'
  BY <1>1, <1>2, <1>4, <1>5, <1>9 DEF SvTurn, SvComing
<1>13. SvPresent(n)'
  BY <1>2, <1>3 DEF SvPresent
<1>14. SvTurn(n)'
  BY <1>10, <1>11, <1>12, <1>13 DEF SvTurn
<1>15. QED  BY <1>6, <1>7, <1>8, <1>14 DEF SvSound

-----------------------------------------------------------------------------
(* The last command goes on, while nothing else is under way.              *)

LEMMA SvCommandGoes ==
    ASSUME SvTyped, SvCorrect, NEW n \in SvLasts, SvTurn(n),
           NEW r \in 1..Len(commands), commands[r].pc # "done",
           NEW d \in SvCommand, SvRuns(d), d.from = n, commands' = [commands EXCEPT ![r] = d],
           UNCHANGED <<acceptors, loops>>, pmas'.m_pConnection = pmas.m_pConnection,
           pmas'.pConnection = pmas.pConnection,
           n \in Server!Client => /\ conns'[n].input = conns[n].input
                                  /\ conns'[n].peer = conns[n].peer
                                  /\ conns'[n].memory = conns[n].memory
                                  /\ conns'[n].thread = conns[n].thread,
           \A j \in Server!Client : j # n => conns'[j] = conns[j]
    PROVE  SvTurn(n)' /\ SvCorrect' /\ commands' \in Seq(SvCommand)
<1>1. /\ ~SvIdle /\ acceptors[n] \notin SvEarly \cup {"handle"} /\ n \in Server!Client
      /\ r = Len(commands) /\ conns[n].peer = "open"
  BY SvWhoRuns
<1>2. SvPresent(n) /\ SvMessage(n)
  BY <1>1 DEF SvTurn, SvPresent
<1>3. /\ commands' \in Seq(SvCommand) /\ Len(commands') = Len(commands) /\ commands'[r] = d
      /\ \A i \in 1..Len(commands) : i # r => commands'[i] = commands[i]
  <2>1. commands \in Seq(SvCommand)
    BY DEF SvTyped
  <2>2. QED  BY <2>1, ExceptSeq
<1>4. SvCorrect'
  BY <1>3 DEF SvCorrect
<1>5. conns[n].input = << >> /\ loops[n].handler = "none" /\ loops[n].pc # "dead"
  BY <1>1, <1>2 DEF SvMessage
<1>6. SvMessage(n)'
  BY <1>1, <1>2, <1>5 DEF SvMessage
<1>7. \A i \in 1..Len(commands') :
          commands'[i].pc # "done" => i = Len(commands') /\ commands'[i].from = n
  BY <1>1, <1>2, <1>3 DEF SvPresent
<1>8. SvPresent(n)'
  BY <1>1, <1>2, <1>6, <1>7 DEF SvPresent
<1>9. SvTurn(n)'
  BY <1>1, <1>8, SvTurnKept
<1>10. QED  BY <1>3, <1>4, <1>9

LEMMA SvAnswerTyped ==
    ASSUME NEW cmd \in Command, NEW ok \in BOOLEAN
    PROVE  Server!Answer(cmd, ok) \in Seq(SvPart)
<1>1. cmd \in {"CONNECT", "PING", "LIST", "INSTALL", "UNINSTALL", "EXIT"}
  BY ComponentsAssumption DEF ComponentsAssumption, Server!InstallerAssumption
<1> DEFINE text == <<"0", "size", "text">>
<1>2. /\ << >> \in Seq(SvPart) /\ <<"PONG">> \in Seq(SvPart) /\ <<"1">> \in Seq(SvPart)
      /\ <<"0">> \in Seq(SvPart) /\ text \in Seq(SvPart)
  BY DEF SvPart
<1>3. <<"1">> \o text \in Seq(SvPart)
  BY <1>2, ConcatProperties
<1>4. CASE cmd = "CONNECT"
  BY <1>2, <1>4 DEF Server!Answer
<1>5. CASE cmd = "PING"
  BY <1>2, <1>5 DEF Server!Answer
<1>6. CASE cmd = "LIST"
  BY <1>2, <1>6 DEF Server!Answer
<1>7. CASE cmd = "INSTALL"
  BY <1>2, <1>3, <1>7 DEF Server!Answer
<1>8. CASE cmd = "UNINSTALL"
  BY <1>2, <1>8 DEF Server!Answer
<1>9. CASE cmd = "EXIT"
  BY <1>2, <1>9 DEF Server!Answer
<1>10. QED  BY <1>1, <1>4, <1>5, <1>6, <1>7, <1>8, <1>9

LEMMA SvAnswerSaid ==
    ASSUME NEW cmd \in Command, NEW ok \in BOOLEAN, cmd # "CONNECT"
    PROVE  Server!Answer(cmd, ok) # << >>
<1>1. cmd \in {"PING", "LIST", "INSTALL", "UNINSTALL", "EXIT"}
  BY ComponentsAssumption DEF ComponentsAssumption, Server!InstallerAssumption
<1>2. CASE cmd = "INSTALL"
  <2> DEFINE text == <<"0", "size", "text">>
             one == <<"1">>
  <2>1. text \in Seq(SvPart) /\ one \in Seq(SvPart) /\ text # << >> /\ one # << >>
    BY DEF SvPart
  <2>2. Server!Answer(cmd, ok) \in {text, one \o text}
    BY <1>2 DEF Server!Answer
  <2> HIDE DEF text, one
  <2>3. one \o text # << >>
    BY <2>1, ConcatEqualIffEmpty
  <2>4. QED  BY <2>1, <2>2, <2>3
<1>3. CASE cmd # "INSTALL"
  <2>1. Server!Answer(cmd, ok) \in {<<"PONG">>, <<"0", "size", "text">>, <<"1">>, <<"0">>}
    BY <1>1, <1>3 DEF Server!Answer
  <2>2. QED  BY <2>1
<1>4. QED  BY <1>2, <1>3

LEMMA SvBegin ==
    ASSUME SvShape(pmas), SvCareful, SvSound, NEW r \in 1..Len(commands), Server!Begin(r)
    PROVE  SvSound'
<1>1. PICK n \in SvLasts : SvTurn(n)
  BY DEF SvSound
<1> DEFINE c == commands[r]
<1>2. c.pc = "begin" /\ UNCHANGED <<conns, acceptors, loops>> /\ SvTyped /\ SvCorrect
  BY DEF Server!Begin, SvSound
<1>3. n \in Server!Client /\ c.from = n /\ conns[n].memory = "live"
  BY <1>1, <1>2, SvWhoRuns
<1>4. c \in SvCommand /\ SvRuns(c)
  BY <1>2, ElementOfSeq DEF SvTyped, SvCorrect
<1>5. c.params = Server!Arity(c.cmd) /\ c.sent = 0
  BY <1>2, <1>4 DEF SvRuns
<1>6. PICK ok \in BOOLEAN :
          Server!Continues(r, [c EXCEPT !.parts = Server!Answer(c.cmd, ok)])
  BY <1>5 DEF Server!Begin
<1>7. /\ SvUnharmed' /\ pmas'.m_pConnection = pmas.m_pConnection
      /\ pmas'.pConnection = pmas.pConnection
  BY <1>3 DEF Server!Begin, Server!Undefined, SvShape, SvUnharmed, SvSound
<1> HIDE DEF c
<1> DEFINE p == Server!Answer(c.cmd, ok)
           e == [c EXCEPT !.parts = p]
           d == [e EXCEPT !.pc = Server!After(e)]
<1>8. commands' = [commands EXCEPT ![r] = d]
  BY <1>6 DEF Server!Continues
<1>9. c.cmd \in Command /\ p \in Seq(SvPart) /\ p \in {Server!Answer(c.cmd, x) : x \in BOOLEAN}
  BY <1>4, SvAnswerTyped DEF SvCommand
<1>10. Len(p) \in Nat
  BY <1>9, LenProperties
<1> HIDE DEF p
<1>11. /\ e \in SvCommand /\ e.sent = 0 /\ e.parts = p /\ e.from = n /\ e.cmd = c.cmd
       /\ e.params = c.params
  BY <1>3, <1>4, <1>5, <1>9 DEF SvCommand
<1>12. /\ Server!After(e) \in {"send", "exit", "done"}
       /\ IF Server!After(e) = "send" THEN 0 < Len(p) ELSE Len(p) = 0
  BY <1>10, <1>11 DEF Server!After
<1> DEFINE q == Server!After(e)
<1> HIDE DEF e, q
<1>13. /\ d \in SvCommand /\ d.sent = 0 /\ d.parts = p /\ d.from = n /\ d.cmd = c.cmd
       /\ d.params = c.params /\ d.pc = q
  BY <1>11, <1>12 DEF SvCommand, q
<1> HIDE DEF d
<1>14. SvRuns(d)
  BY <1>5, <1>9, <1>12, <1>13 DEF SvRuns, q
<1>15. SvTurn(n)' /\ SvCorrect' /\ commands' \in Seq(SvCommand)
  BY <1>1, <1>2, <1>7, <1>8, <1>13, <1>14, SvCommandGoes DEF c
<1>16. SvTyped'
  BY <1>2, <1>15 DEF SvTyped
<1>17. SvAnswered'
  <2>1. ASSUME NEW j \in Server!Client PROVE SvGiven(commands', j) = SvGiven(commands, j)
    <3>1. commands \in Seq(SvCommand) /\ commands[r].sent = 0 /\ d.from = commands[r].from
      BY <1>2, <1>3, <1>5, <1>13 DEF SvTyped, c
    <3>2. QED  BY <1>8, <1>13, <3>1, SvGivenChanged
  <2>2. QED  BY <1>2, <2>1 DEF SvAnswered, SvSound
<1>18. QED  BY <1>7, <1>15, <1>16, <1>17 DEF SvSound

LEMMA SvSendPart ==
    ASSUME SvShape(pmas), SvCareful, SvSound, NEW r \in 1..Len(commands), Server!SendPart(r)
    PROVE  SvSound'
<1>1. PICK n \in SvLasts : SvTurn(n)
  BY DEF SvSound
<1> DEFINE c == commands[r]
           x == c.parts[c.sent + 1]
<1>2. c.pc = "send" /\ UNCHANGED <<acceptors, loops>> /\ SvTyped /\ SvCorrect
  BY DEF Server!SendPart, SvSound
<1>3. /\ n \in Server!Client /\ c.from = n /\ pmas.pConnection = n /\ conns[n].peer = "open"
      /\ r = Len(commands)
  BY <1>1, <1>2, SvWhoRuns
<1>4. /\ conns' = [conns EXCEPT ![n].output = Append(@, x)] /\ UNCHANGED pmas
      /\ Server!Continues(r, [c EXCEPT !.sent = @ + 1])
  BY <1>3 DEF Server!SendPart
<1>5. c \in SvCommand /\ SvRuns(c)
  BY <1>2, ElementOfSeq DEF SvTyped, SvCorrect
<1> DEFINE m == c.sent
           p == c.parts
           e == [c EXCEPT !.sent = m + 1]
           d == [e EXCEPT !.pc = Server!After(e)]
<1>6. commands' = [commands EXCEPT ![r] = d]
  BY <1>4 DEF Server!Continues
<1> HIDE DEF c
<1>7. /\ m \in Nat /\ p \in Seq(SvPart) /\ m < Len(p) /\ c.params = Server!Arity(c.cmd)
      /\ p \in {Server!Answer(c.cmd, ok) : ok \in BOOLEAN}
  BY <1>2, <1>5 DEF SvCommand, SvRuns, c
<1>8. Len(p) \in Nat /\ x \in SvPart /\ x = p[m + 1]
  <2>1. p[m + 1] \in SvPart
    BY <1>7, OneMore
  <2>2. QED  BY <1>7, <2>1, LenProperties
<1> HIDE DEF m, p, x
<1>9. m + 1 \in Nat /\ m + 1 <= Len(p)
  BY <1>7, <1>8
<1>10. /\ e \in SvCommand /\ e.sent = m + 1 /\ e.parts = p /\ e.from = n /\ e.cmd = c.cmd
       /\ e.params = c.params
  BY <1>3, <1>5, <1>9 DEF SvCommand, p, c
<1>11. /\ Server!After(e) \in {"send", "exit", "done"}
       /\ IF Server!After(e) = "send" THEN m + 1 < Len(p) ELSE m + 1 = Len(p)
  BY <1>8, <1>9, <1>10 DEF Server!After
<1> DEFINE q == Server!After(e)
<1> HIDE DEF e, q
<1>12. /\ d \in SvCommand /\ d.sent = m + 1 /\ d.parts = p /\ d.from = n /\ d.cmd = c.cmd
       /\ d.params = c.params /\ d.pc = q
  BY <1>10, <1>11 DEF SvCommand, q
<1> HIDE DEF d
<1>13. SvRuns(d)
  BY <1>7, <1>11, <1>12 DEF SvRuns, q
<1>14. /\ conns' \in [Server!Client -> SvConn]
       /\ conns'[n].output = Append(conns[n].output, x)
       /\ conns'[n].input = conns[n].input /\ conns'[n].peer = conns[n].peer
       /\ conns'[n].memory = conns[n].memory /\ conns'[n].thread = conns[n].thread
       /\ \A j \in Server!Client : j # n => conns'[j] = conns[j]
  <2>1. conns \in [Server!Client -> SvConn] /\ conns[n].output \in Seq(SvPart)
    BY <1>2, <1>3 DEF SvTyped, SvConn
  <2> DEFINE o == Append(conns[n].output, x)
  <2>2. o \in Seq(SvPart)
    BY <1>8, <2>1, Appended
  <2>3. conns' = [conns EXCEPT ![n].output = o]
    BY <1>4
  <2> HIDE DEF o
  <2>4. /\ conns' \in [Server!Client -> SvConn] /\ conns'[n].output = o
        /\ conns'[n].input = conns[n].input /\ conns'[n].peer = conns[n].peer
        /\ conns'[n].memory = conns[n].memory /\ conns'[n].thread = conns[n].thread
        /\ \A j \in Server!Client : j # n => conns'[j] = conns[j]
    BY <1>3, <2>1, <2>2, <2>3 DEF SvConn
  <2>5. QED  BY <2>4 DEF o
<1>15. commands[r].pc # "done"
  BY <1>2 DEF c
<1>16. SvTurn(n)' /\ SvCorrect' /\ commands' \in Seq(SvCommand)
  BY <1>1, <1>2, <1>4, <1>6, <1>12, <1>13, <1>14, <1>15, SvCommandGoes
<1>17. SvTyped'
  BY <1>2, <1>14, <1>16 DEF SvTyped
<1>18. SvAnswered'
  <2>1. ASSUME NEW j \in Server!Client
        PROVE  conns'[j].output = Server!FlattenSeq(SvGiven(commands', j))
    <3>1. /\ commands \in Seq(SvCommand)
          /\ \A i \in 1..Len(commands) : commands[i].sent <= Len(commands[i].parts)
          /\ conns[j].output = Server!FlattenSeq(SvGiven(commands, j))
      BY <1>2, SvSentBound DEF SvTyped, SvSound, SvAnswered
    <3>2. /\ commands'[r].from = commands[r].from /\ commands'[r].parts = commands[r].parts
          /\ commands'[r].sent = commands[r].sent + 1
          /\ commands'[r].sent <= Len(commands'[r].parts)
          /\ Len(commands') = Len(commands)
          /\ \A i \in 1..Len(commands) : i # r => commands'[i] = commands[i]
      <4>1. commands'[r] = d /\ Len(commands') = Len(commands)
            /\ \A i \in 1..Len(commands) : i # r => commands'[i] = commands[i]
        BY <1>6, <1>12, <3>1, ExceptSeq
      <4>2. QED  BY <1>3, <1>9, <1>12, <4>1 DEF c, p, m
    <3>3. /\ commands[r].from = j => Server!FlattenSeq(SvGiven(commands', j)) =
               Append(Server!FlattenSeq(SvGiven(commands, j)),
                      commands[r].parts[commands[r].sent + 1])
          /\ commands[r].from # j =>
                Server!FlattenSeq(SvGiven(commands', j)) =
                Server!FlattenSeq(SvGiven(commands, j))
      <4>1. commands \in Seq(SvCommand) /\ commands' \in Seq(SvCommand)
        BY <1>16, <3>1
      <4>2. \A i \in 1..Len(commands) : commands[i].sent <= Len(commands[i].parts)
        BY <3>1
      <4>3. r = Len(commands)
        BY <1>3
      <4>4. QED  BY <3>2, <4>1, <4>2, <4>3, SvGivenSent
    <3>4. commands[r].parts[commands[r].sent + 1] = x /\ commands[r].from = n
      BY <1>3, <1>8 DEF c, p, m
    <3>5. CASE j = n
      BY <1>6, <1>14, <3>1, <3>3, <3>4, <3>5
    <3>6. CASE j # n
      BY <1>6, <1>14, <3>1, <3>3, <3>4, <3>6
    <3>7. QED  BY <3>5, <3>6
  <2>2. QED  BY <2>1 DEF SvAnswered
<1>19. SvUnharmed'
  BY <1>4 DEF SvUnharmed, SvSound
<1>20. QED  BY <1>16, <1>17, <1>18, <1>19 DEF SvSound

-----------------------------------------------------------------------------
(* The clients.                                                            *)

LEMMA SvNotBusy == ASSUME SvTyped, ~Server!Busy PROVE SvIdle
<1>1. DOMAIN commands = 1..Len(commands)
  BY LenProperties DEF SvTyped
<1>2. QED  BY <1>1 DEF SvIdle, Server!Busy

LEMMA SvCares ==
    ASSUME SvShape(pmas), SvCareful', NEW care, NEW p, SvShape(p), p.careless = pmas.careless,
           Server!With(care, p)
    PROVE  care /\ pmas' = p
<1> DEFINE e == pmas.careless
<1>1. e \in Nat /\ pmas'.careless = 0 /\ p.careless = e
  BY DEF SvShape, SvCareful
<1>2. CASE pmas' = [p EXCEPT !.careless = @ + 1]
  <2>1. pmas'.careless = e + 1
    BY <1>1, <1>2 DEF SvShape
  <2> HIDE DEF e
  <2>2. QED  BY <1>1, <2>1
<1>3. QED  BY <1>2 DEF Server!With

LEMMA SvClientCloses ==
    ASSUME SvShape(pmas), SvCareful, SvCareful', SvSound, NEW k \in Server!Client,
           Server!ClientCloses(k)
    PROVE  SvSound'
<1>1. PICK n \in SvLasts : SvTurn(n)
  BY DEF SvSound
<1>2. k = n /\ acceptors[n] \notin SvEarly /\ UNCHANGED <<acceptors, loops, commands>>
      /\ conns' = [conns EXCEPT ![n].peer = "closed"]
  BY <1>1, SvWhoReads DEF Server!ClientCloses
<1>3. Server!Dealt(n) /\ acceptors[n] = "done" /\ UNCHANGED pmas
  BY <1>2, SvCares DEF Server!ClientCloses
<1>4. SvTyped /\ SvIdle /\ n \in Server!Client /\ SvPresent(n) /\ SvMessage(n)
      /\ conns[n].input = << >>
  BY <1>1, <1>2, <1>3, SvNotBusy DEF Server!Dealt, SvSound, SvTurn, SvPresent
<1>5. /\ conns' \in [Server!Client -> SvConn] /\ conns'[n].peer = "closed"
      /\ conns'[n].input = conns[n].input /\ conns'[n].memory = conns[n].memory
      /\ conns'[n].thread = conns[n].thread
      /\ \A j \in Server!Client : j # n => conns'[j] = conns[j]
      /\ \A j \in Server!Client : conns'[j].output = conns[j].output
  BY <1>2, <1>4 DEF SvTyped, SvConn
<1>6. SvTyped' /\ SvUnharmed'
  BY <1>2, <1>3, <1>4, <1>5 DEF SvTyped, SvUnharmed, SvSound
<1>7. SvAnswered' /\ SvCorrect' /\ SvIdle'
  BY <1>2, <1>4, <1>5, SvQuiet DEF SvSound
<1>8. SvMessage(n)'
  BY <1>2, <1>4, <1>5, <1>7 DEF SvMessage
<1>9. SvPresent(n)'
  BY <1>2, <1>3, <1>4, <1>5, <1>8 DEF SvPresent
<1>10. SvTurn(n)'
  BY <1>1, <1>2, <1>4, <1>5, <1>9, SvTurnKept
<1>11. QED  BY <1>6, <1>7, <1>10 DEF SvSound

LEMMA SvClientSends ==
    ASSUME SvShape(pmas), SvCareful, SvCareful', SvSound, NEW k \in Server!Client,
           NEW cmd \in Command, Server!ClientSends(k, cmd)
    PROVE  SvSound'
<1>1. PICK n \in SvLasts : SvTurn(n)
  BY DEF SvSound
<1>2. k = n /\ acceptors[n] \notin SvEarly /\ UNCHANGED <<acceptors, loops, commands>>
      /\ conns[n].peer = "open"
  BY <1>1, SvWhoReads DEF Server!ClientSends
<1> DEFINE p == [pmas EXCEPT !.messages = @ + 1]
           whole == Server!Message(cmd)
<1>3. PICK long \in BOOLEAN :
          /\ conns' = [conns EXCEPT ![n].input =
                @ \o IF long THEN Server!Front(whole) \o <<"long">> ELSE whole]
          /\ Server!With(~long /\ Server!Dealt(n), p)
  BY <1>2 DEF Server!ClientSends
<1>4. SvShape(p) /\ p.careless = pmas.careless
  BY DEF SvShape
<1>5. ~long /\ Server!Dealt(n) /\ pmas' = p
  <2> HIDE DEF p
  <2>1. QED  BY <1>3, <1>4, SvCares
<1>6. /\ SvUnharmed' /\ pmas'.m_pConnection = pmas.m_pConnection
      /\ pmas'.pConnection = pmas.pConnection
  BY <1>5 DEF SvShape, SvUnharmed, SvSound
<1>7. SvTyped /\ SvIdle /\ n \in Server!Client /\ SvPresent(n) /\ SvMessage(n)
      /\ conns[n].input = << >>
  BY <1>1, <1>2, <1>5, SvNotBusy DEF Server!Dealt, SvSound, SvTurn, SvPresent
<1>8. whole \in Seq(SvWord) /\ whole # << >>
  BY SvMessageIs
<1> HIDE DEF whole
<1>9. conns' = [conns EXCEPT ![n].input = whole]
  <2>1. << >> \o whole = whole
    BY <1>8, ConcatEmptySeq
  <2>2. conns' = [conns EXCEPT ![n].input = conns[n].input \o whole]
    BY <1>3, <1>5, <1>7 DEF SvTyped
  <2>3. QED  BY <1>7, <2>1, <2>2
<1>10. /\ conns' \in [Server!Client -> SvConn] /\ conns'[n].input = whole
       /\ conns'[n].peer = conns[n].peer /\ conns'[n].memory = conns[n].memory
       /\ conns'[n].thread = conns[n].thread
       /\ \A j \in Server!Client : j # n => conns'[j] = conns[j]
       /\ \A j \in Server!Client : conns'[j].output = conns[j].output
  BY <1>7, <1>8, <1>9 DEF SvTyped, SvConn
<1>11. SvTyped'
  BY <1>2, <1>7, <1>10 DEF SvTyped
<1>12. SvAnswered' /\ SvCorrect' /\ SvIdle'
  BY <1>2, <1>7, <1>10, SvQuiet DEF SvSound
<1>13. loops[n].pc = "dead" \/ loops[n].handler = "none"
  <2>1. SUFFICES ASSUME loops[n].pc # "dead", loops[n].handler # "none" PROVE FALSE
    OBVIOUS
  <2>2. loops[n].expected # 0 /\ Len(conns[n].input) = loops[n].expected
    BY <1>7, <2>1 DEF SvMessage
  <2>3. QED  BY <1>7, <2>2, EmptySeq
<1>14. SvMessage(n)'
  <2>1. conns'[n].peer # "closed" /\ conns'[n].input = Server!Message(cmd) /\ UNCHANGED loops
    BY <1>2, <1>10 DEF whole
  <2>2. loops[n].pc # "dead" => loops[n].handler = "none" /\ loops[n].params = 0
    BY <1>7, <1>13 DEF SvMessage
  <2>3. QED  BY <1>12, <1>13, <2>1, <2>2 DEF SvMessage
<1>15. \A r \in 1..Len(commands') : commands'[r].pc = "done"
  BY <1>12 DEF SvIdle
<1>16. SvPresent(n)'
  BY <1>2, <1>6, <1>7, <1>10, <1>12, <1>14, <1>15 DEF SvPresent
<1>17. SvTurn(n)'
  BY <1>1, <1>2, <1>7, <1>10, <1>16, SvTurnKept
<1>18. QED  BY <1>6, <1>11, <1>12, <1>17 DEF SvSound

-----------------------------------------------------------------------------
(* The theorem.                                                            *)

LEMMA SvInitInv == ASSUME Server!Init PROVE SvInv
<1>1. SvShape(pmas) /\ SvUnharmed /\ pmas.m_pConnection = 0
  BY DEF Server!Init, SvShape, SvUnharmed
<1>2. SvTyped
  <2>1. << >> \in Seq(SvWord) /\ << >> \in Seq(SvPart) /\ << >> \in Seq(SvCommand)
    BY EmptySeq
  <2>2. QED  BY <2>1 DEF Server!Init, SvTyped, SvConn, SvLoop, SvWaits, SvLasts
<1>3. commands = << >> /\ Len(commands) = 0 /\ 1..Len(commands) = {}
  BY EmptySeq DEF Server!Init
<1>4. SvAnswered
  <2>1. ASSUME NEW k \in Server!Client
        PROVE  conns[k].output = Server!FlattenSeq(SvGiven(commands, k))
    <3>1. SvGiven(commands, k) = << >>
      BY <1>3 DEF SvGiven
    <3>2. QED  BY <3>1, FlattenEmpty DEF Server!Init
  <2>2. QED  BY <2>1 DEF SvAnswered
<1>5. SvCorrect /\ SvIdle
  BY <1>3 DEF SvCorrect, SvIdle
<1>6. 1 \in SvLasts /\ ~(1 > 1) /\ 1 - 1 = 0 /\ \A j \in SvLasts : ~(j < 1) /\ (j > 1 => j # 1)
  BY SvBounds DEF SvLasts
<1>7. Server!Client \subseteq SvLasts
  BY <1>6, SvNumbers
<1>8. acceptors[1] = "lock" /\ \A j \in SvLasts : j # 1 => acceptors[j] = "none"
  BY <1>6 DEF Server!Init, SvLasts
<1>9. SvStage(1)
  BY <1>1, <1>5, <1>6, <1>8 DEF SvStage
<1>10. SvGone(1)
  BY <1>6, <1>7 DEF SvGone
<1>11. SvComing(1)
  BY <1>6, <1>8 DEF SvComing, Server!Init
<1>12. SvPresent(1)
  BY <1>8 DEF SvPresent, SvEarly
<1>13. SvTurn(1)
  BY <1>9, <1>10, <1>11, <1>12 DEF SvTurn
<1>14. QED  BY <1>1, <1>2, <1>4, <1>5, <1>6, <1>13 DEF SvInv, SvSound

LEMMA SvNextInv == ASSUME SvInv, Server!Next PROVE SvInv'
<1>1. SvShape(pmas) /\ SvShape(pmas)' /\ (SvCareful' => SvCareful)
  BY SvShapeKept DEF SvInv
<1>2. ASSUME SvCareful' PROVE SvSound' \/ SvLost'
  <2>1. SvShape(pmas) /\ SvCareful /\ SvSound
    BY <1>1, <1>2 DEF SvInv, SvLost, Server!Next
  <2>2. DOMAIN acceptors = SvLasts /\ DOMAIN commands = 1..Len(commands)
    BY <2>1, LenProperties DEF SvSound, SvTyped
  <2>3. CASE \E k \in DOMAIN acceptors : Server!AcceptorStep(k) \/ Server!Accept(k)
    BY <2>1, <2>2, <2>3, SvAcceptLock, SvAcceptRead, SvAcceptJoin, SvAcceptDelete, SvAccept,
       SvAcceptHandle, SvAcceptStore DEF Server!AcceptorStep
  <2>4. CASE \E k \in Server!Client : Server!LoopStep(k)
    BY <2>1, <2>4, SvLoopWord, SvLoopEnd, SvLoopNull DEF Server!LoopStep
  <2>5. CASE \E k \in Server!Client :
                 Server!ClientCloses(k) \/ \E cmd \in Command : Server!ClientSends(k, cmd)
    BY <1>2, <2>1, <2>5, SvClientCloses, SvClientSends
  <2>6. CASE \E r \in DOMAIN commands : Server!Begin(r) \/ Server!SendPart(r)
    BY <2>1, <2>2, <2>6, SvBegin, SvSendPart
  <2>7. ASSUME NEW r \in DOMAIN commands, Server!Exit(r) PROVE FALSE
    BY <1>2, <2>1, <2>7 DEF Server!Exit, SvShape, SvCareful
  <2>8. ~Server!MainEnds
    BY <2>1 DEF Server!MainEnds, SvCareful
  <2>9. QED  BY <2>3, <2>4, <2>5, <2>6, <2>7, <2>8 DEF Server!Next
<1>3. QED  BY <1>1, <1>2 DEF SvInv

LEMMA SvServicesInv == ASSUME SvInv, [ServicesNext]_all PROVE SvInv'
<1>1. CASE UNCHANGED serverVars
  <2>1. UNCHANGED <<pmas, conns, acceptors, loops, commands>>
    BY <1>1 DEF serverVars, Server!vars
  <2>2. UNCHANGED <<SvCareful, SvUnharmed, SvTyped, SvAnswered, SvCorrect>>
    BY <2>1 DEF SvCareful, SvUnharmed, SvTyped, SvAnswered, SvCorrect
  <2>3. ASSUME NEW n \in SvLasts PROVE SvTurn(n)' = SvTurn(n)
    BY <2>1 DEF SvTurn, SvStage, SvGone, SvComing, SvPresent, SvMessage, SvIdle
  <2>4. QED  BY <2>1, <2>2, <2>3 DEF SvInv, SvSound, SvLost
<1>2. CASE Server!Next
  BY <1>2, SvNextInv
<1>3. UNCHANGED serverVars \/ Server!Next
  BY DEF ServicesNext, all, Only, PlistRuns, SrRuns, ServerRuns
<1>4. QED  BY <1>1, <1>2, <1>3

\* While the clients of the installer server are careful each gets the answers to its own
\* commands, in whole and in their order, and no memory that was freed is used, whatever
\* their number; only a loop that ends between the two reads of Stop can do harm.
THEOREM AnswersInWhole == ServicesSpec => []AnsweredInWhole
<1>1. ServicesInit => SvInv
  BY SvInitInv DEF ServicesInit
<1>2. SvInv /\ [ServicesNext]_all => SvInv'
  BY SvServicesInv
<1>3. SvInv => AnsweredInWhole
  <2>1. SUFFICES ASSUME SvSound \/ SvLost
                 PROVE  /\ ~pmas.ended /\ ~pmas.struck
                        /\ pmas.undefined => \E k \in DOMAIN acceptors : acceptors[k] = "nobody"
                        /\ \A k \in Server!Client : conns[k].output =
                              Server!FlattenSeq([r \in DOMAIN commands |->
                                  IF commands[r].from = k THEN Server!Sent(r) ELSE << >>])
                        /\ \A r \in DOMAIN commands :
                              commands[r].pc = "done" /\ commands[r].cmd # "CONNECT"
                                  => Server!Sent(r) # << >>
    BY DEF SvInv, SvCareful, AnsweredInWhole, Server!AnsweredInWhole
  <2>2. DOMAIN commands = 1..Len(commands) /\ DOMAIN acceptors = SvLasts
    BY <2>1, LenProperties DEF SvSound, SvLost, SvTyped
  <2>3. ASSUME NEW k \in Server!Client
        PROVE  conns[k].output = Server!FlattenSeq([r \in DOMAIN commands |->
                                  IF commands[r].from = k THEN Server!Sent(r) ELSE << >>])
    <3>1. SvGiven(commands, k) =
              [r \in DOMAIN commands |-> IF commands[r].from = k THEN Server!Sent(r) ELSE << >>]
      BY <2>2 DEF SvGiven, Server!Sent
    <3>2. QED  BY <2>1, <3>1 DEF SvSound, SvLost, SvAnswered
  <2>4. ASSUME NEW r \in DOMAIN commands, commands[r].pc = "done", commands[r].cmd # "CONNECT"
        PROVE  Server!Sent(r) # << >>
    <3> DEFINE c == commands[r]
    <3>1. c \in SvCommand /\ SvRuns(c) /\ c.pc = "done" /\ c.cmd # "CONNECT"
      BY <2>1, <2>2, <2>4, ElementOfSeq DEF SvSound, SvLost, SvTyped, SvCorrect
    <3> DEFINE p == c.parts
    <3>2. Server!Sent(r) = SubSeq(p, 1, c.sent)
      BY DEF Server!Sent
    <3> HIDE DEF c
    <3>3. PICK ok \in BOOLEAN : p = Server!Answer(c.cmd, ok)
      BY <3>1 DEF SvRuns
    <3>4. c.sent = Len(p) /\ p \in Seq(SvPart) /\ c.cmd \in Command
      BY <3>1 DEF SvRuns, SvCommand
    <3> HIDE DEF p
    <3>5. SubSeq(p, 1, c.sent) = p
      BY <3>4, SubSeqFull
    <3>6. p # << >>
      BY <3>1, <3>3, <3>4, SvAnswerSaid
    <3>7. QED  BY <3>2, <3>5, <3>6
  <2>5. QED  BY <2>1, <2>2, <2>3, <2>4 DEF SvSound, SvUnharmed, SvLost
<1>4. QED  BY <1>1, <1>2, <1>3, PTL DEF ServicesSpec

-----------------------------------------------------------------------------
(* InstallerCommands. However many attempts it takes to set the services   *)
(* up and whatever the device answers: a command works on clients that are *)
(* there, and what it reports as done is done.                             *)

\* The order of initServicesInternal: at each call those before it have succeeded in this
\* attempt, and what only an installation needs has not been asked for yet.
IcSetup == {"phone", "client", "np", "ipc", "retry"}

IcConnected(place) ==
    {h \in {"phone", "client", "np"} :
        \/ place = "ipc"
        \/ place = "np" /\ h # "np"
        \/ place = "client" /\ h = "phone"}

IcInOrder ==
    op.pc \in IcSetup =>
        /\ ~services.ready
        /\ services.handles["afc"] = "null" /\ services.handles["service"] = "null"
        /\ \A h \in IcConnected(op.pc) : services.handles[h] = "live"

\* Only what is set up works.
IcWorking == {"startafc", "afc", "copy", "perform", "verify"}

IcSetUp == op.pc \in IcWorking => services.ready

\* What a command knows of the app before it has touched it, and after an installation.
IcUntouched ==
    /\ op.pc \in (IcSetup \cup IcWorking) \ {"verify"} => app = op.before
    /\ op.pc = "verify" => op.cmd = "INSTALL" /\ app \in {"new", op.before}

IcStatus == [handles : [Handles -> {"null", "live", "freed"}], i : 0..Retries, ready : BOOLEAN]

IcCmd == {"none", "LIST", "INSTALL", "UNINSTALL"}
IcPc == {"idle", "stop"} \cup IcSetup \cup IcWorking
IcApp == {"none", "old", "new"}

\* The record of a command, field by field.
IcOp == [cmd : IcCmd, pc : IcPc, ops : 0..MaxOps, before : IcApp, bundle : BOOLEAN,
         package : {"none", "part", "whole"}, answer : {"none", "0", "1"}, undefined : BOOLEAN]

LEMMA IcTypes == TypeOK <=> services \in IcStatus /\ op \in IcOp /\ app \in IcApp
BY DEF TypeOK, IcStatus, IcOp, IcCmd, IcPc, IcApp, IcSetup, IcWorking

LEMMA IcTypesLater == TypeOK' <=> services' \in IcStatus /\ op' \in IcOp /\ app' \in IcApp
BY DEF TypeOK, IcStatus, IcOp, IcCmd, IcPc, IcApp, IcSetup, IcWorking

\* Services::stop: nothing is live, and what was NULL is.
LEMMA IcStoppedStatus ==
    ASSUME services \in IcStatus
    PROVE  /\ Stopped \in IcStatus
           /\ Stopped.ready = services.ready /\ Stopped.i = services.i
           /\ \A h \in Handles : services.handles[h] = "null" => Stopped.handles[h] = "null"
<1> DEFINE f == [h \in Handles |-> IF services.handles[h] = "null" THEN "null" ELSE "freed"]
<1>1. f \in [Handles -> {"null", "live", "freed"}]
  OBVIOUS
<1>2. \A h \in Handles : services.handles[h] = "null" => f[h] = "null"
  OBVIOUS
<1>3. Stopped = [services EXCEPT !.handles = f]
  BY DEF Stopped
<1> HIDE DEF f
<1>4. QED  BY <1>1, <1>2, <1>3 DEF IcStatus

\* Set gives one pointer a value.
LEMMA IcSetStatus ==
    ASSUME services \in IcStatus, NEW h \in Handles, NEW v \in {"null", "live"}, Set(h, v)
    PROVE  /\ services' \in IcStatus
           /\ services'.ready = services.ready /\ services'.i = services.i
           /\ \A g \in Handles : services'.handles[g] = IF g = h THEN v ELSE services.handles[g]
BY DEF Set, IcStatus

LEMMA IcGotoOp ==
    ASSUME op \in IcOp, NEW place \in IcPc, Goto(place)
    PROVE  /\ op' \in IcOp /\ op'.pc = place /\ op'.cmd = op.cmd /\ op'.before = op.before
           /\ op'.undefined = op.undefined
BY DEF Goto, IcOp

LEMMA IcAnsweredOp ==
    ASSUME op \in IcOp, NEW ok \in BOOLEAN, Answered(ok)
    PROVE  /\ op' \in IcOp /\ op'.pc = "stop" /\ op'.cmd = op.cmd /\ op'.before = op.before
           /\ op'.undefined = op.undefined /\ op'.answer = IF ok THEN "0" ELSE "1"
BY DEF Answered, IcOp, IcPc

IcInv == TypeOK /\ StopsClean /\ IcInOrder /\ IcSetUp /\ IcUntouched /\ SaidIsSo

LEMMA IcInitInv == ASSUME Init PROVE IcInv
BY ServicesAssumption
   DEF Init, New, IcInv, TypeOK, StopsClean, FreedTwice, IcInOrder, IcSetUp, IcUntouched, SaidIsSo,
       IcSetup, IcWorking, Handles

LEMMA IcRequestInv ==
    ASSUME IcInv, ~op.undefined, NEW cmd \in {"LIST", "INSTALL", "UNINSTALL"}, Request(cmd)
    PROVE  IcInv'
<1>1. services \in IcStatus /\ op \in IcOp /\ app \in IcApp
  BY IcTypes DEF IcInv
<1>2. services' = New /\ New \in IcStatus
  BY ServicesAssumption DEF Request, New, IcStatus
<1>3. op.ops + 1 \in 0..MaxOps
  BY <1>1, ServicesAssumption DEF Request, IcOp
<1>4. /\ op' \in IcOp /\ op'.pc = "phone" /\ op'.cmd = cmd /\ op'.before = app
      /\ op'.undefined = op.undefined /\ op'.answer = "none"
  BY <1>1, <1>3 DEF Request, IcOp, IcCmd, IcPc, IcApp, IcSetup
<1>5. TypeOK'
  BY <1>1, <1>2, <1>4, IcTypesLater DEF Request
<1>6. StopsClean' /\ IcInOrder' /\ IcSetUp'
  BY <1>2, <1>4 DEF New, Handles, StopsClean, FreedTwice, IcInOrder, IcSetUp, IcWorking, IcConnected
<1>7. IcUntouched' /\ SaidIsSo'
  BY <1>4 DEF Request, IcUntouched, SaidIsSo
<1>8. QED  BY <1>5, <1>6, <1>7 DEF IcInv

\* A call of initServicesInternal before the last.
LEMMA IcConnectsInv ==
    ASSUME IcInv, ~op.undefined, NEW h \in {"phone", "client", "np"},
           NEW next \in {"client", "np", "ipc"},
           <<h, next>> \in {<<"phone", "client">>, <<"client", "np">>, <<"np", "ipc">>},
           Connects(h, next)
    PROVE  IcInv'
<1>1. services \in IcStatus /\ op \in IcOp /\ app \in IcApp
  BY IcTypes DEF IcInv
<1>2. h \in Handles /\ {next, "retry"} \subseteq IcPc /\ op.pc = h /\ op.pc \in IcSetup
  BY DEF Connects, Handles, IcPc, IcSetup
<1>3. CASE Set(h, "live") /\ Goto(next)
  <2>1. /\ services' \in IcStatus
        /\ services'.ready = services.ready /\ services'.i = services.i
        /\ \A g \in Handles : services'.handles[g] = IF g = h THEN "live" ELSE services.handles[g]
    BY <1>1, <1>2, <1>3, IcSetStatus
  <2>2. /\ op' \in IcOp /\ op'.pc = next /\ op'.cmd = op.cmd /\ op'.before = op.before
        /\ op'.undefined = op.undefined
    BY <1>1, <1>2, <1>3, IcGotoOp
  <2>3. TypeOK'
    BY <1>1, <2>1, <2>2, IcTypesLater DEF Connects
  <2>4. StopsClean' /\ IcInOrder' /\ IcSetUp'
    BY <1>2, <2>1, <2>2
       DEF IcInv, StopsClean, FreedTwice, IcInOrder, IcSetUp, IcSetup, IcWorking,
           IcConnected, Handles
  <2>5. IcUntouched' /\ SaidIsSo'
    BY <1>2, <2>2 DEF IcInv, Connects, IcUntouched, SaidIsSo, IcSetup
  <2>6. QED  BY <2>3, <2>4, <2>5 DEF IcInv
<1>4. CASE UNCHANGED services /\ Goto("retry")
  <2>1. /\ op' \in IcOp /\ op'.pc = "retry" /\ op'.cmd = op.cmd /\ op'.before = op.before
        /\ op'.undefined = op.undefined
    BY <1>1, <1>2, <1>4, IcGotoOp
  <2>2. TypeOK'
    BY <1>1, <1>4, <2>1, IcTypesLater DEF Connects
  <2>3. StopsClean' /\ IcInOrder' /\ IcSetUp'
    BY <1>2, <1>4, <2>1
       DEF IcInv, StopsClean, FreedTwice, IcInOrder, IcSetUp, IcSetup, IcWorking, IcConnected
  <2>4. IcUntouched' /\ SaidIsSo'
    BY <1>2, <2>1 DEF IcInv, Connects, IcUntouched, SaidIsSo, IcSetup
  <2>5. QED  BY <2>2, <2>3, <2>4 DEF IcInv
<1>5. QED  BY <1>3, <1>4 DEF Connects

\* The last call: with it all four are live, and what an installation needs is still NULL.
LEMMA IcInitIpcInv == ASSUME IcInv, ~op.undefined, InitIpc PROVE IcInv'
<1>1. services \in IcStatus /\ op \in IcOp /\ app \in IcApp
  BY IcTypes DEF IcInv
<1> DEFINE next == IF op.cmd = "INSTALL" THEN "startafc" ELSE "perform"
<1>2. next \in IcPc /\ "retry" \in IcPc /\ next \in IcWorking \ {"verify"} /\ "ipc" \in Handles
  BY DEF IcPc, IcSetup, IcWorking, Handles
<1> HIDE DEF next
<1>3. CASE /\ services' = [services EXCEPT !.handles["ipc"] = "live", !.ready = TRUE]
           /\ Goto(next)
  <2>1. /\ services' \in IcStatus
        /\ services'.ready
        /\ \A g \in Handles :
              services'.handles[g] = IF g = "ipc" THEN "live" ELSE services.handles[g]
    BY <1>1, <1>2, <1>3 DEF IcStatus
  <2>2. /\ op' \in IcOp /\ op'.pc = next /\ op'.cmd = op.cmd /\ op'.before = op.before
        /\ op'.undefined = op.undefined
    BY <1>1, <1>2, <1>3, IcGotoOp
  <2>3. TypeOK'
    BY <1>1, <2>1, <2>2, IcTypesLater DEF InitIpc
  <2>4. StopsClean' /\ IcInOrder' /\ IcSetUp'
    BY <1>2, <2>1, <2>2
       DEF IcInv, InitIpc, StopsClean, FreedTwice, IcInOrder, IcSetUp, IcSetup, IcWorking,
           IcConnected, Handles
  <2>5. IcUntouched' /\ SaidIsSo'
    BY <1>2, <2>2 DEF IcInv, InitIpc, IcUntouched, SaidIsSo, IcSetup, IcWorking
  <2>6. QED  BY <2>3, <2>4, <2>5 DEF IcInv
<1>4. CASE UNCHANGED services /\ Goto("retry")
  <2>1. /\ op' \in IcOp /\ op'.pc = "retry" /\ op'.cmd = op.cmd /\ op'.before = op.before
        /\ op'.undefined = op.undefined
    BY <1>1, <1>2, <1>4, IcGotoOp
  <2>2. TypeOK'
    BY <1>1, <1>4, <2>1, IcTypesLater DEF InitIpc
  <2>3. StopsClean' /\ IcInOrder' /\ IcSetUp'
    BY <1>4, <2>1
       DEF IcInv, InitIpc, StopsClean, FreedTwice, IcInOrder, IcSetUp, IcSetup, IcWorking,
           IcConnected
  <2>4. IcUntouched' /\ SaidIsSo'
    BY <2>1 DEF IcInv, InitIpc, IcUntouched, SaidIsSo, IcSetup
  <2>5. QED  BY <2>2, <2>3, <2>4 DEF IcInv
<1>5. QED  BY <1>3, <1>4 DEF InitIpc, next

\* A failed attempt frees what it and those before it have connected, some of it again when
\* it is not the first.
LEMMA IcRetryInv == ASSUME IcInv, ~op.undefined, Retry PROVE IcInv'
<1>1. services \in IcStatus /\ op \in IcOp /\ app \in IcApp
  BY IcTypes DEF IcInv
<1>2. /\ ~services.ready
      /\ services.handles["afc"] = "null" /\ services.handles["service"] = "null"
  BY DEF IcInv, Retry, IcInOrder, IcSetup
<1>3. CASE services.i < Retries
  <2>1. /\ Stopped \in IcStatus /\ Stopped.ready = services.ready /\ Stopped.i = services.i
        /\ Stopped.handles["afc"] = "null" /\ Stopped.handles["service"] = "null"
    BY <1>1, <1>2, IcStoppedStatus DEF Handles
  <2>2. services.i + 1 \in 0..Retries
    BY <1>1, <1>3, ServicesAssumption DEF IcStatus
  <2>3. services' = [Stopped EXCEPT !.i = Stopped.i + 1] /\ app' = app
    BY <1>3 DEF Retry
  <2>4. /\ services' \in IcStatus /\ services'.ready = services.ready
        /\ services'.handles["afc"] = "null" /\ services'.handles["service"] = "null"
    BY <2>1, <2>2, <2>3 DEF IcStatus
  <2>5. FreedTwice \in BOOLEAN /\ (FreedTwice => services.i > 0)
    BY <1>1 DEF FreedTwice, IcInv, StopsClean, Retry, IcStatus
  <2>6. /\ op' \in IcOp /\ op'.pc = "phone" /\ op'.cmd = op.cmd /\ op'.before = op.before
        /\ op'.undefined = FreedTwice
    BY <1>1, <1>3, <2>5 DEF Retry, IcOp, IcPc, IcSetup
  <2>11. services'.i = services.i + 1 /\ services.i \in Nat
    BY <1>1, <2>1, <2>3, ServicesAssumption DEF IcStatus
  <2>12. StopsClean'
    BY <1>2, <2>4, <2>5, <2>6, <2>11 DEF StopsClean, Failed
  <2>7. TypeOK'
    BY <1>1, <2>3, <2>4, <2>6, IcTypesLater
  <2>8. IcInOrder' /\ IcSetUp'
    BY <1>2, <2>4, <2>6 DEF IcInOrder, IcSetUp, IcWorking, IcConnected
  <2>9. IcUntouched' /\ SaidIsSo'
    BY <2>3, <2>6 DEF IcInv, Retry, IcUntouched, SaidIsSo, IcSetup
  <2>10. QED  BY <2>7, <2>8, <2>9, <2>12 DEF IcInv
<1>4. CASE ~(services.i < Retries)
  <2>1. UNCHANGED <<services, app>>
    BY <1>4 DEF Retry
  <2>2. /\ op' \in IcOp /\ op'.pc = "stop" /\ op'.answer = "1"
        /\ op'.undefined = op.undefined /\ op.pc = "retry"
    BY <1>1, <1>4 DEF Retry, IcOp, IcPc
  <2>3. TypeOK'
    BY <1>1, <2>1, <2>2, IcTypesLater
  <2>4. StopsClean' /\ IcInOrder' /\ IcSetUp'
    BY <1>2, <2>1, <2>2
       DEF IcInv, StopsClean, FreedTwice, IcInOrder, IcSetUp, IcSetup, IcWorking
  <2>5. IcUntouched' /\ SaidIsSo'
    BY <2>2 DEF IcUntouched, SaidIsSo, IcSetup, IcWorking
  <2>6. QED  BY <2>3, <2>4, <2>5 DEF IcInv
<1>5. QED  BY <1>3, <1>4

\* The end of a command that worked: its services stay set up, and it has answered.
LEMMA IcAnsweredInv ==
    ASSUME IcInv, ~op.undefined, op.pc \in IcWorking, NEW ok \in BOOLEAN, Answered(ok),
           app' \in IcApp, UNCHANGED services,
           ok /\ op.cmd = "UNINSTALL" => app' = "none",
           ok /\ op.cmd = "INSTALL" => app' = "new" \/ (app' # "none" /\ app' = op.before)
    PROVE  IcInv'
<1>1. services \in IcStatus /\ op \in IcOp
  BY IcTypes DEF IcInv
<1>2. /\ op' \in IcOp /\ op'.pc = "stop" /\ op'.cmd = op.cmd /\ op'.before = op.before
      /\ op'.undefined = op.undefined /\ op'.answer = IF ok THEN "0" ELSE "1"
  BY <1>1, IcAnsweredOp
<1>3. TypeOK'
  BY <1>1, <1>2, IcTypesLater
<1>4. StopsClean' /\ IcInOrder' /\ IcSetUp'
  BY <1>2 DEF IcInv, StopsClean, FreedTwice, IcInOrder, IcSetUp, IcSetup, IcWorking
<1>5. IcUntouched' /\ SaidIsSo'
  BY <1>2 DEF IcUntouched, SaidIsSo, IcSetup, IcWorking
<1>6. QED  BY <1>3, <1>4, <1>5 DEF IcInv

\* A step from one place of the work to the next, in which the app does not change unless
\* it is looked at next, and no pointer becomes that of something freed.
LEMMA IcWorkInv ==
    ASSUME IcInv, ~op.undefined, op.pc \in IcWorking, op' \in IcOp, op'.pc \in IcWorking,
           op'.cmd = op.cmd, op'.before = op.before, op'.undefined = op.undefined,
           services' \in IcStatus, services'.ready = services.ready,
           \A h \in Handles : services'.handles[h] \in {services.handles[h], "live", "null"},
           app' \in IcApp,
           op'.pc # "verify" => op.pc # "verify" /\ app' = app,
           op'.pc = "verify" => op.cmd = "INSTALL" /\ app' \in {"new", op.before}
    PROVE  IcInv'
<1>1. TypeOK'
  BY IcTypesLater
<1>2. ~FreedTwice /\ services.ready
  BY DEF IcInv, StopsClean, IcSetUp, IcWorking
<1>3. StopsClean' /\ IcInOrder' /\ IcSetUp'
  BY <1>2 DEF StopsClean, FreedTwice, IcInOrder, IcSetUp, IcSetup, IcWorking
<1>4. IcUntouched' /\ SaidIsSo'
  BY DEF IcInv, IcUntouched, SaidIsSo, IcSetup, IcWorking
<1>5. QED  BY <1>1, <1>3, <1>4 DEF IcInv

LEMMA IcStartAfcInv == ASSUME IcInv, ~op.undefined, StartAfc PROVE IcInv'
<1>1. services \in IcStatus /\ op \in IcOp /\ app \in IcApp /\ app' = app
  BY IcTypes DEF IcInv, StartAfc
<1>2. op.pc \in IcWorking /\ "afc" \in IcPc /\ "afc" \in IcWorking
  BY DEF StartAfc, IcWorking, IcPc
<1>3. CASE Answered(FALSE) /\ UNCHANGED services
  BY <1>1, <1>2, <1>3, IcAnsweredInv
<1>4. CASE /\ services' = [services EXCEPT !.handles["service"] = "live",
                                           !.handles["client"] = "null"]
           /\ Goto("afc")
  <2>1. /\ services' \in IcStatus /\ services'.ready = services.ready
        /\ \A h \in Handles : services'.handles[h] \in {services.handles[h], "live", "null"}
    BY <1>1, <1>4 DEF IcStatus
  <2>2. /\ op' \in IcOp /\ op'.pc = "afc" /\ op'.cmd = op.cmd /\ op'.before = op.before
        /\ op'.undefined = op.undefined
    BY <1>1, <1>2, <1>4, IcGotoOp
  <2>3. op.pc # "verify"
    BY DEF StartAfc
  <2>4. QED  BY <1>1, <1>2, <2>1, <2>2, <2>3, IcWorkInv
<1>5. QED  BY <1>3, <1>4 DEF StartAfc

LEMMA IcInitAfcInv == ASSUME IcInv, ~op.undefined, InitAfc PROVE IcInv'
<1>1. services \in IcStatus /\ op \in IcOp /\ app \in IcApp /\ app' = app
  BY IcTypes DEF IcInv, InitAfc
<1>2. /\ op.pc \in IcWorking /\ op.pc # "verify" /\ "copy" \in IcPc /\ "copy" \in IcWorking
      /\ "afc" \in Handles
  BY DEF InitAfc, IcWorking, IcPc, Handles
<1>3. CASE Answered(FALSE) /\ UNCHANGED services
  BY <1>1, <1>2, <1>3, IcAnsweredInv
<1>4. CASE Set("afc", "live") /\ Goto("copy")
  <2>1. /\ services' \in IcStatus /\ services'.ready = services.ready
        /\ \A h \in Handles : services'.handles[h] \in {services.handles[h], "live", "null"}
    BY <1>1, <1>2, <1>4, IcSetStatus
  <2>2. /\ op' \in IcOp /\ op'.pc = "copy" /\ op'.cmd = op.cmd /\ op'.before = op.before
        /\ op'.undefined = op.undefined
    BY <1>1, <1>2, <1>4, IcGotoOp
  <2>3. QED  BY <1>1, <1>2, <2>1, <2>2, IcWorkInv
<1>5. QED  BY <1>3, <1>4 DEF InitAfc

LEMMA IcCopyInv == ASSUME IcInv, ~op.undefined, CopyAppOnDevice PROVE IcInv'
<1>1. services \in IcStatus /\ op \in IcOp /\ app \in IcApp /\ app' = app /\ services' = services
  BY IcTypes DEF IcInv, CopyAppOnDevice
<1>2. op.pc \in IcWorking /\ op.pc # "verify" /\ "perform" \in IcPc /\ "perform" \in IcWorking
  BY DEF CopyAppOnDevice, IcWorking, IcPc
<1>3. CASE Answered(FALSE)
  BY <1>1, <1>2, <1>3, IcAnsweredInv
<1>4. ASSUME NEW package \in {"part", "whole"}, NEW bundle \in BOOLEAN,
             op' = [op EXCEPT !.pc = "perform", !.package = package, !.bundle = bundle]
      PROVE  IcInv'
  <2>1. /\ op' \in IcOp /\ op'.pc = "perform" /\ op'.cmd = op.cmd /\ op'.before = op.before
        /\ op'.undefined = op.undefined
    BY <1>1, <1>2, <1>4 DEF IcOp
  <2>2. \A h \in Handles : services'.handles[h] \in {services.handles[h], "live", "null"}
    BY <1>1
  <2>3. QED  BY <1>1, <1>2, <2>1, <2>2, IcWorkInv
<1>5. QED  BY <1>3, <1>4 DEF CopyAppOnDevice

\* What the device is asked to do.
LEMMA IcInstallInv == ASSUME IcInv, ~op.undefined, Install PROVE IcInv'
<1>1. services \in IcStatus /\ op \in IcOp /\ app \in IcApp /\ services' = services
  BY IcTypes DEF IcInv, Install
<1>2. /\ op.pc \in IcWorking /\ op.cmd = "INSTALL" /\ app = op.before
      /\ "verify" \in IcPc /\ "verify" \in IcWorking
  BY DEF IcInv, Install, IcUntouched, IcWorking, IcPc
<1>3. app' \in IcApp /\ app' \in {"new", op.before}
  BY <1>1, <1>2 DEF Install, IcApp
<1>4. CASE Answered(TRUE) /\ app' = "new"
  BY <1>1, <1>2, <1>3, <1>4, IcAnsweredInv
<1>5. CASE Answered(FALSE)
  BY <1>1, <1>2, <1>3, <1>5, IcAnsweredInv
<1>6. CASE Goto("verify")
  <2>1. /\ op' \in IcOp /\ op'.pc = "verify" /\ op'.cmd = op.cmd /\ op'.before = op.before
        /\ op'.undefined = op.undefined
    BY <1>1, <1>2, <1>6, IcGotoOp
  <2>2. \A h \in Handles : services'.handles[h] \in {services.handles[h], "live", "null"}
    BY <1>1
  <2>3. QED  BY <1>1, <1>2, <1>3, <2>1, <2>2, IcWorkInv
<1>7. QED  BY <1>4, <1>5, <1>6 DEF Install

LEMMA IcVerifyInv == ASSUME IcInv, ~op.undefined, VerifyAfterInstall PROVE IcInv'
<1>1. app \in IcApp /\ app' = app /\ UNCHANGED services
  BY IcTypes DEF IcInv, VerifyAfterInstall
<1>2. op.pc \in IcWorking /\ op.cmd = "INSTALL" /\ app \in {"new", op.before}
  BY DEF IcInv, VerifyAfterInstall, IcUntouched, IcWorking
<1>3. CASE Answered(FALSE)
  BY <1>1, <1>2, <1>3, IcAnsweredInv
<1>4. CASE Answered(app # "none")
  BY <1>1, <1>2, <1>4, IcAnsweredInv
<1>5. QED  BY <1>3, <1>4 DEF VerifyAfterInstall

LEMMA IcOthersInv == ASSUME IcInv, ~op.undefined, Uninstall \/ List PROVE IcInv'
<1>1. op.pc \in IcWorking /\ op.cmd # "INSTALL" /\ UNCHANGED services
  BY DEF Uninstall, List, IcWorking
<1>2. app' \in IcApp
  BY IcTypes DEF IcInv, Uninstall, List, IcApp
<1>3. CASE Uninstall
  BY <1>1, <1>2, <1>3, IcAnsweredInv DEF Uninstall
<1>4. CASE List
  BY <1>1, <1>2, <1>4, IcAnsweredInv DEF List
<1>5. QED  BY <1>3, <1>4

\* The handler's stop(): with the services set up, or after one attempt, it frees each once.
LEMMA IcStopInv == ASSUME IcInv, ~op.undefined, Stop PROVE IcInv'
<1>1. services \in IcStatus /\ op \in IcOp /\ app \in IcApp
  BY IcTypes DEF IcInv
<1>2. /\ Stopped \in IcStatus /\ Stopped.ready = services.ready /\ Stopped.i = services.i
  BY <1>1, IcStoppedStatus
<1>3. /\ FreedTwice \in BOOLEAN
      /\ FreedTwice => ~services.ready /\ services.i > 0
  BY <1>1 DEF FreedTwice, IcInv, StopsClean, Stop, IcStatus
<1>4. op' \in IcOp /\ op'.pc = "idle" /\ op'.undefined = FreedTwice
  BY <1>1, <1>3 DEF Stop, IcOp, IcPc
<1>5. TypeOK'
  BY <1>1, <1>2, <1>4, IcTypesLater DEF Stop
<1>9. StopsClean'
  BY <1>1, <1>2, <1>3, <1>4, ServicesAssumption DEF Stop, StopsClean, Failed, IcStatus
<1>6. IcInOrder' /\ IcSetUp'
  BY <1>2, <1>3, <1>4 DEF Stop, IcInOrder, IcSetUp, IcSetup, IcWorking
<1>7. IcUntouched' /\ SaidIsSo'
  BY <1>4 DEF IcUntouched, SaidIsSo, IcSetup, IcWorking
<1>8. QED  BY <1>5, <1>6, <1>7, <1>9 DEF IcInv

LEMMA IcNextInv == IcInv /\ [Next]_vars => IcInv'
<1> SUFFICES ASSUME IcInv, [Next]_vars PROVE IcInv'
  OBVIOUS
<1>1. CASE UNCHANGED vars
  BY <1>1
     DEF vars, IcInv, TypeOK, StopsClean, Failed, FreedTwice, IcInOrder, IcSetUp, IcUntouched, SaidIsSo
<1>2. CASE Next
  <2>1. ASSUME InitPhone \/ InitClient \/ InitNp PROVE IcInv'
    BY <1>2, <2>1, IcConnectsInv DEF Next, InitPhone, InitClient, InitNp
  <2>2. QED
    BY <1>2, <2>1, IcRequestInv, IcInitIpcInv, IcRetryInv, IcStartAfcInv, IcInitAfcInv, IcCopyInv,
       IcInstallInv, IcVerifyInv, IcOthersInv, IcStopInv DEF Next
<1>3. QED  BY <1>1, <1>2

LEMMA IcInvariance == Spec => []IcInv
BY IcInitInv, IcNextInv, PTL DEF Spec

-----------------------------------------------------------------------------
\* The variables of a command keep their types: so the attempts are never more than Retries.
THEOREM CommandTypes == Spec => []TypeOK
<1>1. IcInv => TypeOK
  BY DEF IcInv
<1>2. QED  BY <1>1, IcInvariance, PTL

\* Services::stop keeps the pointers it frees, and initServices stops and starts over: a
\* command whose services were set up in the end has only live ones and frees each once, and
\* only one that was not frees anything twice, when at least two of its attempts have failed.
THEOREM CommandsStopClean == Spec => []StopsClean
<1>1. IcInv => StopsClean
  BY DEF IcInv
<1>2. QED  BY <1>1, IcInvariance, PTL

\* What a command answers with 0 was done: command.cpp looks for the app after a failed
\* installation, and what it may find is the new version or the one there was.
THEOREM AnswersAreTrue == Spec => []SaidIsSo
<1>1. IcInv => SaidIsSo
  BY DEF IcInv
<1>2. QED  BY <1>1, IcInvariance, PTL
=============================================================================
