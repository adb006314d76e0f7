--------------------------- MODULE ServicesProofs ---------------------------
(***************************************************************************)
(* What is proved of the stream of property lists, of the two clients      *)
(* whose threads call back and of ideviceinstaller, in the specification   *)
(* of all services.                                                        *)
(***************************************************************************)
EXTENDS ClientsProofs

-----------------------------------------------------------------------------
(* PlistService.                                                           *)

PlistProofs == INSTANCE PlistServiceProofs

LEMMA PlistAssumed == PlistProofs!PlistAssumption
BY ComponentsAssumption
   DEF ComponentsAssumption, Plist!PlistAssumption, PlistProofs!PlistAssumption

LEMMA PlistInit == ServicesInit => PlistProofs!Init
BY DEF ServicesInit, Plist!Init, PlistProofs!Init, Plist!Message, PlistProofs!Message

LEMMA PlistDevice ==
    ASSUME Plist!DeviceSends \/ Plist!DeviceEnds \/ Plist!Receive
    PROVE  PlistProofs!Next
BY DEF Plist!DeviceSends, Plist!DeviceEnds, Plist!Receive, Plist!Frame, Plist!receiving,
       Plist!sending,
       PlistProofs!DeviceSends, PlistProofs!DeviceEnds, PlistProofs!Receive, PlistProofs!Frame,
       PlistProofs!receiving, PlistProofs!sending, PlistProofs!Next

LEMMA PlistRead ==
    ASSUME NEW b, NEW bytes, Plist!ReadEnds(b, bytes)
    PROVE  PlistProofs!ReadEnds(b, bytes)
BY DEF Plist!ReadEnds, Plist!HeaderEnds, Plist!BodyEnds, Plist!LengthsOf, Plist!AwaitBody,
       Plist!Return,
       PlistProofs!ReadEnds, PlistProofs!HeaderEnds, PlistProofs!BodyEnds,
       PlistProofs!LengthsOf, PlistProofs!AwaitBody, PlistProofs!Return

LEMMA PlistRecv ==
    ASSUME NEW n, Plist!Recv(n)
    PROVE  PlistProofs!Recv(n)
BY PlistRead
   DEF Plist!Recv, Plist!Reading, Plist!Asked, Plist!sending,
       PlistProofs!Recv, PlistProofs!Reading, PlistProofs!Asked, PlistProofs!sending

LEMMA PlistStep ==
    ASSUME Plist!Step
    PROVE  PlistProofs!Step
<1>1. CASE Plist!RecvTimesOut
  <2>1. PlistProofs!RecvTimesOut
    BY <1>1, PlistRead
       DEF Plist!RecvTimesOut, Plist!Reading, Plist!sending,
           PlistProofs!RecvTimesOut, PlistProofs!Reading, PlistProofs!sending
  <2>. QED  BY <2>1 DEF PlistProofs!Step
<1>2. CASE Plist!RecvFails
  <2>1. PlistProofs!RecvFails
    BY <1>2, PlistRead
       DEF Plist!RecvFails, Plist!Reading, Plist!sending,
           PlistProofs!RecvFails, PlistProofs!Reading, PlistProofs!sending
  <2>. QED  BY <2>1 DEF PlistProofs!Step
<1>3. CASE Plist!Parse
  <2>1. PlistProofs!Parse
    BY <1>3
       DEF Plist!Parse, Plist!Whole, Plist!Mixed, Plist!Body, Plist!Frame, Plist!Message,
           Plist!Return, Plist!sending,
           PlistProofs!Parse, PlistProofs!Whole, PlistProofs!Mixed, PlistProofs!Body,
           PlistProofs!Frame, PlistProofs!Message, PlistProofs!Return, PlistProofs!sending
  <2>. QED  BY <2>1 DEF PlistProofs!Step
<1>. QED  BY <1>1, <1>2, <1>3, PlistRecv DEF Plist!Step, PlistProofs!Step

LEMMA PlistSend ==
    ASSUME Plist!Send \/ Plist!SendHeader \/ Plist!SendBody
    PROVE  PlistProofs!Next
BY DEF Plist!Send, Plist!SendHeader, Plist!SendBody, Plist!Part, Plist!receiving,
       PlistProofs!Send, PlistProofs!SendHeader, PlistProofs!SendBody, PlistProofs!Part,
       PlistProofs!receiving, PlistProofs!Next

LEMMA PlistNext == [ServicesNext]_all => [PlistProofs!Next]_PlistProofs!vars
<1>. SUFFICES ASSUME [ServicesNext]_all PROVE [PlistProofs!Next]_PlistProofs!vars
  OBVIOUS
<1>1. CASE PlistRuns(Plist!Next)
  <2>1. PlistProofs!Next
    BY <1>1, PlistDevice, PlistStep, PlistSend DEF PlistRuns, Plist!Next, PlistProofs!Next
  <2>. QED  BY <2>1
<1>2. CASE UNCHANGED plistVars
  BY <1>2 DEF plistVars, PlistProofs!vars, PlistProofs!receiving, PlistProofs!sending
<1>. QED
  BY <1>1, <1>2 DEF ServicesNext, SrRuns, ServerRuns, Only, all

\* What is done to the other components leaves the stream of property lists alone.
THEOREM PlistImplemented == ServicesSpec => PlistProofs!Spec
BY PlistInit, PlistNext, PTL DEF ServicesSpec, PlistProofs!Spec

\* property_list_service.c is at the beginning of a message after a timeout.
THEOREM ServicesInStep == ServicesSpec => []InStep
<1>1. PlistProofs!Spec => []PlistProofs!InStep  BY PlistAssumed, PlistProofs!StaysInStep
<1>2. PlistProofs!InStep <=> InStep  BY DEF PlistProofs!InStep, InStep, Plist!InStep
<1>. QED  BY <1>1, <1>2, PlistImplemented, PTL

\* property_list_service.c returns messages of the device, whole and in order.
THEOREM ServicesWholeMessages == ServicesSpec => []WholeMessages
<1>1. PlistProofs!Spec => []PlistProofs!WholeMessages
  BY PlistAssumed, PlistProofs!MessagesWhole
<1>2. PlistProofs!WholeMessages <=> WholeMessages
  BY DEF PlistProofs!WholeMessages, WholeMessages, Plist!WholeMessages
<1>. QED  BY <1>1, <1>2, PlistImplemented, PTL

\* property_list_service.c reports as sent what is with the device.
THEOREM ServicesSentWhole == ServicesSpec => []SentWhole
<1>1. PlistProofs!Spec => []PlistProofs!SentWhole  BY PlistAssumed, PlistProofs!SentIsWhole
<1>2. PlistProofs!SentWhole <=> SentWhole
  BY DEF PlistProofs!SentWhole, SentWhole, Plist!SentWhole
<1>. QED  BY <1>1, <1>2, PlistImplemented, PTL

-----------------------------------------------------------------------------
(* NotificationProxy.                                                      *)

\* Who is between a lock and an unlock has the mutex.
Locked ==
    /\ \A t \in Caller : npCaller[t].pc \in {"answer", "join", "create"} => np.mutex = t
    /\ \A t \in Caller : npCaller[t].pc = "create" => np.notifier = 0
    /\ \A n \in Notification!Notifier : notifiers[n].pc = "receive" => np.mutex = "notifier"

\* One thread at most runs np_notifier, the one whose callback counts.
Running ==
    /\ \A n \in Notification!Notifier :
          notifiers[n].pc \notin {"none", "done"} => np.notifier = n /\ np.registered = n
    /\ \A n \in Notification!Notifier : notifiers[n].note # 0 => notifiers[n].pc = "call"

\* Up to m, what was said (c) comes before what is in hand (h), and that before what is
\* in the stream (s).
Chain(s, m, h, c) ==
    /\ \A i, j \in 1..Len(s) : i < j /\ s[j] # 0 => s[i] < s[j]
    /\ \A i, j \in 1..Len(c) : i < j /\ c[j] # 0 => c[i] < c[j]
    /\ \A i \in 1..Len(s) : s[i] <= m
    /\ \A i \in 1..Len(c) : c[i] <= m
    /\ \A n \in Notification!Notifier : h[n] <= m
    /\ \A j \in 1..Len(s), n \in Notification!Notifier : s[j] # 0 => h[n] < s[j]
    /\ \A j \in 1..Len(s), i \in 1..Len(c) : s[j] # 0 => c[i] < s[j]
    /\ \A i \in 1..Len(c), n \in Notification!Notifier : h[n] # 0 => c[i] < h[n]

\* And nothing is missing but what was eaten.
Covered(s, m, h, c, eaten) ==
    \A x \in 1..m :
        \/ x \in eaten \/ \E i \in 1..Len(s) : s[i] = x
        \/ \E n \in Notification!Notifier : h[n] = x
        \/ \E i \in 1..Len(c) : c[i] = x

InHand(ns) == [n \in Notification!Notifier |-> ns[n].note]

NotesOf(calls) == [i \in 1..Len(calls) |-> calls[i].note]

NotesKept(p, ns, calls) ==
    /\ Chain(p.stream, p.sent, InHand(ns), NotesOf(calls))
    /\ Covered(p.stream, p.sent, InHand(ns), NotesOf(calls), p.eaten)

NoteInv == Notification!TypeOK /\ Locked /\ Running /\ NotesKept(proxy, notifiers, told)

NoteClient == [mutex : {"free", "notifier"} \cup Caller,
               parent : {"open", "null", "freed", "gone"},
               notifier : 0..Notification!Garbage, registered : 0..MaxNotifiers,
               undefined : BOOLEAN]

NoteCaller == [pc : {"idle", "observe", "post", "answer", "set", "join", "create", "free",
                     "null", "end"},
               cb : BOOLEAN, calls : 0..MaxCalls]

NoteThread == [pc : {"none", "test", "enter", "lock", "receive", "call", "fail", "done"},
               note : {0} \cup Notification!Note]

NoteDevice == [up : BOOLEAN, observed : BOOLEAN, sent : 0..MaxNotes,
               stream : Seq({0} \cup Notification!Note), eaten : SUBSET Notification!Note]

NoteCalls == Seq([by : Notification!Notifier, note : {0} \cup Notification!Note])

NoteHands == [Notification!Notifier -> Nat]

LEMMA NoteBounds ==
    /\ {MaxNotifiers, MaxNotes, MaxCalls} \subseteq Nat
    /\ "free" \notin Caller /\ "notifier" \notin Caller
  BY ComponentsAssumption DEF ComponentsAssumption, Notification!NotificationAssumption

LEMMA ChainSends ==
    ASSUME NEW s \in Seq(Nat), NEW m \in Nat, NEW h \in NoteHands, NEW c \in Seq(Nat),
           NEW eaten, NEW x \in Nat, NEW k \in Nat,
           \/ x = 0 /\ k = m
           \/ x = m + 1 /\ k = m + 1,
           Chain(s, m, h, c), Covered(s, m, h, c, eaten)
    PROVE  Chain(Append(s, x), k, h, c) /\ Covered(Append(s, x), k, h, c, eaten)
<1> DEFINE v == Append(s, x)
<1>1. /\ v \in Seq(Nat) /\ Len(v) = Len(s) + 1 /\ v[Len(s) + 1] = x /\ Len(s) \in Nat
      /\ \A i \in 1..Len(s) : v[i] = s[i] /\ s[i] \in Nat
      /\ Len(c) \in Nat /\ \A i \in 1..Len(c) : c[i] \in Nat
      /\ \A n \in Notification!Notifier : h[n] \in Nat
  BY Appended, LenProperties, ElementOfSeq DEF NoteHands
<1>2. m <= k /\ (x = 0 \/ x = m + 1) /\ x <= k /\ (k = m \/ (k = m + 1 /\ k = x))
  OBVIOUS
<1> HIDE DEF v
<1>3. \A i \in 1..Len(v) :
          \/ i = Len(s) + 1 /\ v[i] = x
          \/ i \in 1..Len(s) /\ v[i] = s[i] /\ s[i] \in Nat
  BY <1>1
<1>4. \A i \in 1..Len(s) : i \in 1..Len(v) /\ i < Len(s) + 1
  BY <1>1
<1>5. Len(s) + 1 \in 1..Len(v)
  BY <1>1
<1>6. \A i, j \in 1..Len(v) : i < j /\ v[j] # 0 => v[i] < v[j]
  <2> SUFFICES ASSUME NEW i \in 1..Len(v), NEW j \in 1..Len(v), i < j, v[j] # 0
               PROVE  v[i] < v[j]
    OBVIOUS
  <2>1. i \in 1..Len(s) /\ v[i] = s[i] /\ s[i] \in Nat
    BY <1>1, <1>3
  <2>2. s[i] <= m
    BY <2>1 DEF Chain
  <2>3. CASE v[j] = x
    BY <1>2, <2>1, <2>2, <2>3
  <2>4. CASE j \in 1..Len(s) /\ v[j] = s[j]
    BY <2>1, <2>4 DEF Chain
  <2>5. QED  BY <1>3, <2>3, <2>4
<1>7. \A i \in 1..Len(v) : v[i] <= k
  <2> SUFFICES ASSUME NEW i \in 1..Len(v) PROVE v[i] <= k
    OBVIOUS
  <2>1. CASE v[i] = x
    BY <1>2, <2>1
  <2>2. CASE i \in 1..Len(s) /\ v[i] = s[i] /\ s[i] \in Nat
    <3>1. s[i] <= m
      BY <2>2 DEF Chain
    <3>2. QED  BY <1>2, <2>2, <3>1
  <2>3. QED  BY <1>3, <2>1, <2>2
<1>8. \A i \in 1..Len(c) : c[i] \in Nat /\ c[i] <= m /\ c[i] <= k
  BY <1>1, <1>2 DEF Chain
<1>9. \A n \in Notification!Notifier : h[n] \in Nat /\ h[n] <= m /\ h[n] <= k
  BY <1>1, <1>2 DEF Chain
<1>10. \A j \in 1..Len(v), n \in Notification!Notifier : v[j] # 0 => h[n] < v[j]
  <2> SUFFICES ASSUME NEW j \in 1..Len(v), NEW n \in Notification!Notifier, v[j] # 0
               PROVE  h[n] < v[j]
    OBVIOUS
  <2>1. CASE v[j] = x
    BY <1>2, <1>9, <2>1
  <2>2. CASE j \in 1..Len(s) /\ v[j] = s[j]
    BY <2>2 DEF Chain
  <2>3. QED  BY <1>3, <2>1, <2>2
<1>11. \A j \in 1..Len(v), i \in 1..Len(c) : v[j] # 0 => c[i] < v[j]
  <2> SUFFICES ASSUME NEW j \in 1..Len(v), NEW i \in 1..Len(c), v[j] # 0 PROVE c[i] < v[j]
    OBVIOUS
  <2>1. CASE v[j] = x
    BY <1>2, <1>8, <2>1
  <2>2. CASE j \in 1..Len(s) /\ v[j] = s[j]
    BY <2>2 DEF Chain
  <2>3. QED  BY <1>3, <2>1, <2>2
<1>12. Chain(v, k, h, c)
  BY <1>6, <1>7, <1>8, <1>9, <1>10, <1>11 DEF Chain
<1>13. Covered(v, k, h, c, eaten)
  <2> SUFFICES ASSUME NEW y \in 1..k
               PROVE  \/ y \in eaten \/ \E i \in 1..Len(v) : v[i] = y
                      \/ \E n \in Notification!Notifier : h[n] = y
                      \/ \E i \in 1..Len(c) : c[i] = y
    BY DEF Covered
  <2>1. CASE \E i \in 1..Len(s) : s[i] = y
    BY <1>1, <1>4, <2>1
  <2>2. CASE y = x
    BY <1>1, <1>5, <2>2
  <2>3. y \in 1..m \/ y = x
    BY <1>2
  <2>4. QED  BY <2>1, <2>2, <2>3 DEF Covered
<1>14. QED  BY <1>12, <1>13 DEF v

\* What is taken from the stream is eaten or in hand.
LEMMA ChainTakes ==
    ASSUME NEW s \in Seq(Nat), s # << >>, NEW m \in Nat, NEW h \in NoteHands,
           NEW c \in Seq(Nat), NEW eaten, NEW left,
           \/ left = h /\ eaten \cup ({Head(s)} \ {0}) = eaten
           \/ \E n \in Notification!Notifier : h[n] = 0 /\ left = [h EXCEPT ![n] = Head(s)],
           Chain(s, m, h, c), NEW before, before \subseteq eaten, Covered(s, m, h, c, before)
    PROVE  Chain(Tail(s), m, left, c) /\ Covered(Tail(s), m, left, c, eaten)
<1> DEFINE v == Tail(s)
           x == Head(s)
<1>1. /\ v \in Seq(Nat) /\ Len(v) = Len(s) - 1 /\ Len(s) \in Nat \ {0}
      /\ x \in Nat /\ x = s[1]
      /\ \A i \in 1..(Len(s) - 1) : v[i] = s[i + 1]
      /\ \A i \in 1..Len(s) : s[i] \in Nat
      /\ Len(c) \in Nat /\ \A i \in 1..Len(c) : c[i] \in Nat
      /\ \A n \in Notification!Notifier : h[n] \in Nat
  BY Rest, LenProperties, ElementOfSeq DEF NoteHands
<1> HIDE DEF v
<1>2. /\ \A n \in Notification!Notifier : left[n] = h[n] \/ left[n] = x
      /\ \A n \in Notification!Notifier : left[n] \in Nat
      /\ \A n \in Notification!Notifier : h[n] # 0 => left[n] = h[n]
      /\ x = 0 \/ x \in eaten \/ \E n \in Notification!Notifier : left[n] = x
  BY <1>1 DEF NoteHands
<1>3. \A i \in 1..Len(v) : i + 1 \in 1..Len(s) /\ v[i] = s[i + 1] /\ 1 < i + 1
  BY <1>1
<1> HIDE DEF x
<1>4. \A i, j \in 1..Len(s) : i < j /\ s[j] # 0 => s[i] < s[j]
  BY DEF Chain
<1>5. \A j \in 1..Len(v) : v[j] # 0 => x < v[j]
  <2> SUFFICES ASSUME NEW j \in 1..Len(v), v[j] # 0 PROVE x < v[j]
    OBVIOUS
  <2>1. 1 \in 1..Len(s) /\ j + 1 \in 1..Len(s) /\ v[j] = s[j + 1] /\ 1 < j + 1
    BY <1>1, <1>3
  <2>2. s[1] < s[j + 1]
    BY <1>4, <2>1
  <2>3. QED  BY <1>1, <2>1, <2>2
<1>6. x <= m /\ (\A i \in 1..Len(c) : x # 0 => c[i] < x)
  BY <1>1 DEF Chain
<1>7. \A i, j \in 1..Len(v) : i < j /\ v[j] # 0 => v[i] < v[j]
  <2> SUFFICES ASSUME NEW i \in 1..Len(v), NEW j \in 1..Len(v), i < j, v[j] # 0
               PROVE  v[i] < v[j]
    OBVIOUS
  <2>1. i + 1 < j + 1
    BY <1>1
  <2>2. QED  BY <1>4, <1>3, <2>1
<1>8. \A j \in 1..Len(v) : v[j] <= m
  BY <1>1, <1>3 DEF Chain
<1>9. \A j \in 1..Len(v), i \in 1..Len(c) : v[j] # 0 => c[i] < v[j]
  BY <1>1, <1>3 DEF Chain
<1>10. \A j \in 1..Len(v), n \in Notification!Notifier : v[j] # 0 => h[n] < v[j]
  BY <1>1, <1>3 DEF Chain
<1>11. \A j \in 1..Len(v), n \in Notification!Notifier : v[j] # 0 => left[n] < v[j]
  BY <1>2, <1>5, <1>10
<1>12. \A n \in Notification!Notifier : left[n] <= m
  BY <1>1, <1>2, <1>6 DEF Chain
<1>13. \A i \in 1..Len(c), n \in Notification!Notifier : left[n] # 0 => c[i] < left[n]
  BY <1>2, <1>6 DEF Chain
<1>14. Chain(v, m, left, c)
  BY <1>7, <1>8, <1>9, <1>11, <1>12, <1>13 DEF Chain
<1>15. Covered(v, m, left, c, eaten)
  <2> SUFFICES ASSUME NEW y \in 1..m
               PROVE  \/ y \in eaten \/ \E i \in 1..Len(v) : v[i] = y
                      \/ \E n \in Notification!Notifier : left[n] = y
                      \/ \E i \in 1..Len(c) : c[i] = y
    BY DEF Covered
  <2>1. CASE y = x
    BY <1>2, <2>1
  <2>2. CASE \E i \in 1..Len(s) : s[i] = y /\ i # 1
    <3>1. PICK i \in 1..Len(s) : s[i] = y /\ i # 1
      BY <2>2
    <3>2. i - 1 \in 1..(Len(s) - 1) /\ (i - 1) + 1 = i
      BY <1>1, <3>1
    <3>3. i - 1 \in 1..Len(v) /\ v[i - 1] = y
      BY <1>1, <3>1, <3>2
    <3>4. QED  BY <3>3
  <2>3. CASE \E n \in Notification!Notifier : h[n] = y
    BY <1>2, <2>3
  <2>4. QED  BY <1>1, <2>1, <2>2, <2>3 DEF Covered
<1>16. QED  BY <1>14, <1>15 DEF v

LEMMA ChainCalls ==
    ASSUME NEW s \in Seq(Nat), NEW m \in Nat, NEW h \in NoteHands, NEW c \in Seq(Nat),
           NEW eaten, NEW n \in Notification!Notifier,
           \A k \in Notification!Notifier : k # n => h[k] = 0,
           Chain(s, m, h, c), Covered(s, m, h, c, eaten)
    PROVE  /\ Chain(s, m, [h EXCEPT ![n] = 0], Append(c, h[n]))
           /\ Covered(s, m, [h EXCEPT ![n] = 0], Append(c, h[n]), eaten)
<1> DEFINE v == Append(c, h[n])
           g == [h EXCEPT ![n] = 0]
           x == h[n]
<1>1. /\ v \in Seq(Nat) /\ Len(v) = Len(c) + 1 /\ v[Len(c) + 1] = x
      /\ \A i \in 1..Len(c) : v[i] = c[i] /\ c[i] \in Nat
      /\ Len(s) \in Nat /\ \A i \in 1..Len(s) : s[i] \in Nat
      /\ Len(c) \in Nat /\ x \in Nat
      /\ \A k \in Notification!Notifier : g[k] = 0
  BY Appended, LenProperties, ElementOfSeq DEF NoteHands
<1>2. x <= m /\ \A j \in 1..Len(s) : s[j] # 0 => x < s[j]
  BY DEF Chain
<1>3. \A i \in 1..Len(c) : x # 0 => c[i] < x
  BY DEF Chain
<1> HIDE DEF v, g, x
<1>4. \A i \in 1..Len(v) : v[i] = x \/ (i \in 1..Len(c) /\ v[i] = c[i])
  BY <1>1
<1>5. \A i, j \in 1..Len(v) : i < j /\ v[j] # 0 => v[i] < v[j]
  <2> SUFFICES ASSUME NEW i \in 1..Len(v), NEW j \in 1..Len(v), i < j, v[j] # 0
               PROVE  v[i] < v[j]
    OBVIOUS
  <2>1. i \in 1..Len(c) /\ v[i] = c[i] /\ c[i] \in Nat
    BY <1>1
  <2>2. CASE v[j] = x
    BY <1>3, <2>1, <2>2
  <2>3. CASE j \in 1..Len(c) /\ v[j] = c[j]
    BY <2>1, <2>3 DEF Chain
  <2>4. QED  BY <1>4, <2>2, <2>3
<1>6. \A i \in 1..Len(v) : v[i] <= m
  BY <1>1, <1>2, <1>4 DEF Chain
<1>7. \A j \in 1..Len(s), i \in 1..Len(v) : s[j] # 0 => v[i] < s[j]
  BY <1>1, <1>2, <1>4 DEF Chain
<1>8. \A k \in Notification!Notifier : g[k] = 0 /\ g[k] <= m
  BY <1>1
<1>9. \A j \in 1..Len(s), k \in Notification!Notifier : s[j] # 0 => g[k] < s[j]
  BY <1>1
<1>10. Chain(s, m, g, v)
  BY <1>5, <1>6, <1>7, <1>8, <1>9 DEF Chain
<1>11. Covered(s, m, g, v, eaten)
  <2> SUFFICES ASSUME NEW y \in 1..m
               PROVE  \/ y \in eaten \/ \E i \in 1..Len(s) : s[i] = y
                      \/ \E i \in 1..Len(v) : v[i] = y
    BY DEF Covered
  <2>1. CASE \E k \in Notification!Notifier : h[k] = y
    <3>1. y = x
      BY <2>1 DEF x
    <3>2. QED  BY <1>1, <3>1
  <2>2. CASE \E i \in 1..Len(c) : c[i] = y
    BY <1>1, <2>2
  <2>3. QED  BY <2>1, <2>2 DEF Covered
<1>12. QED  BY <1>10, <1>11 DEF v, g

LEMMA NoteTypes ==
    Notification!TypeOK <=>
        /\ np \in NoteClient /\ npCaller \in [Caller -> NoteCaller]
        /\ notifiers \in [Notification!Notifier -> NoteThread]
        /\ proxy \in NoteDevice /\ told \in NoteCalls
  BY DEF Notification!TypeOK, NoteClient, NoteCaller, NoteThread, NoteDevice, NoteCalls

LEMMA NoteTypesNext ==
    ASSUME np' \in NoteClient, npCaller' \in [Caller -> NoteCaller],
           notifiers' \in [Notification!Notifier -> NoteThread],
           proxy' \in NoteDevice, told' \in NoteCalls
    PROVE  Notification!TypeOK'
  BY DEF Notification!TypeOK, NoteClient, NoteCaller, NoteThread, NoteDevice, NoteCalls

\* A caller comes to another place.
LEMMA NoteCallerGoes ==
    ASSUME Notification!TypeOK, NEW t \in Caller,
           NEW at \in {"idle", "answer", "join", "create", "null", "end"},
           npCaller' = [npCaller EXCEPT ![t].pc = at]
    PROVE  /\ npCaller' \in [Caller -> NoteCaller]
           /\ npCaller'[t].pc = at
           /\ \A u \in Caller : u # t => npCaller'[u] = npCaller[u]
  BY NoteTypes DEF NoteCaller

LEMMA NoteTyped ==
    ASSUME Notification!TypeOK
    PROVE  /\ proxy.stream \in Seq(Nat) /\ proxy.sent \in Nat
           /\ InHand(notifiers) \in NoteHands
           /\ NotesOf(told) \in Seq(Nat) /\ Len(NotesOf(told)) = Len(told)
           /\ Len(told) \in Nat /\ DOMAIN told = 1..Len(told)
           /\ \A i \in 1..Len(told) : told[i].note \in Nat
<1>1. {0} \cup Notification!Note \subseteq Nat /\ 0..MaxNotes \subseteq Nat
  BY NoteBounds DEF Notification!Note
<1> DEFINE N == {0} \cup Notification!Note
<1>2. /\ proxy.stream \in Seq(N) /\ proxy.sent \in 0..MaxNotes
      /\ \A n \in Notification!Notifier : notifiers[n].note \in N
      /\ told \in Seq([by : Notification!Notifier, note : N])
  BY DEF Notification!TypeOK
<1>3. proxy.stream \in Seq(Nat) /\ proxy.sent \in Nat
  BY <1>1, <1>2, SeqMonotonic
<1>4. InHand(notifiers) \in NoteHands
  BY <1>1, <1>2 DEF InHand, NoteHands
<1> DEFINE k == Len(told)
<1>5. /\ k \in Nat /\ DOMAIN told = 1..k
      /\ \A i \in 1..k : told[i] \in [by : Notification!Notifier, note : N]
  BY <1>2, LenProperties, ElementOfSeq
<1>6. \A i \in 1..k : told[i].note \in Nat
  BY <1>1, <1>5
<1> HIDE DEF k
<1>7. [i \in 1..k |-> told[i].note] \in Seq(Nat) /\ Len([i \in 1..k |-> told[i].note]) = k
  BY <1>5, <1>6
<1>8. QED  BY <1>3, <1>4, <1>5, <1>6, <1>7 DEF NotesOf, k

LEMMA NoteInitInv == Notification!Init => NoteInv
<1> SUFFICES ASSUME Notification!Init PROVE NoteInv
  OBVIOUS
<1>1. 0 \in 0..MaxNotes /\ 0 \in 0..MaxCalls /\ 0 \in 0..MaxNotifiers
      /\ 0 \in 0..Notification!Garbage /\ Len(<< >>) = 0
  BY NoteBounds DEF Notification!Garbage
<1>2. Notification!TypeOK
  BY <1>1 DEF Notification!Init, Notification!TypeOK
<1>3. Locked /\ Running
  BY DEF Notification!Init, Locked, Running
<1>4. /\ proxy.stream = << >> /\ proxy.sent = 0 /\ NotesOf(told) = << >>
      /\ \A n \in Notification!Notifier : InHand(notifiers)[n] = 0
  BY <1>1 DEF Notification!Init, NotesOf, InHand
<1>5. NotesKept(proxy, notifiers, told)
  BY <1>1, <1>4 DEF NotesKept, Chain, Covered
<1>6. QED  BY <1>2, <1>3, <1>5 DEF NoteInv

\* What leaves the stream, what was said and what is in hand as they are, or adds to the
\* stream, keeps the notes.
LEMMA NotesStay ==
    ASSUME NoteInv, told' = told,
           \A n \in Notification!Notifier : notifiers'[n].note = notifiers[n].note,
           \/ proxy'.stream = proxy.stream /\ proxy'.sent = proxy.sent
           \/ proxy'.stream = Append(proxy.stream, 0) /\ proxy'.sent = proxy.sent
           \/ /\ proxy'.stream = Append(proxy.stream, proxy.sent + 1)
              /\ proxy'.sent = proxy.sent + 1,
           proxy'.eaten = proxy.eaten
    PROVE  NotesKept(proxy, notifiers, told)'
<1>1. InHand(notifiers') = InHand(notifiers) /\ NotesOf(told') = NotesOf(told)
  BY DEF InHand
<1>2. /\ Chain(proxy.stream, proxy.sent, InHand(notifiers), NotesOf(told))
      /\ Covered(proxy.stream, proxy.sent, InHand(notifiers), NotesOf(told), proxy.eaten)
      /\ proxy.stream \in Seq(Nat) /\ proxy.sent \in Nat
      /\ InHand(notifiers) \in NoteHands /\ NotesOf(told) \in Seq(Nat)
      /\ 0 \in Nat /\ proxy.sent + 1 \in Nat
  BY NoteTyped DEF NoteInv, NotesKept
<1>3. /\ Chain(proxy'.stream, proxy'.sent, InHand(notifiers), NotesOf(told))
      /\ Covered(proxy'.stream, proxy'.sent, InHand(notifiers), NotesOf(told), proxy.eaten)
  <2>1. CASE proxy'.stream = proxy.stream /\ proxy'.sent = proxy.sent
    BY <1>2, <2>1
  <2>2. CASE proxy'.stream = Append(proxy.stream, 0) /\ proxy'.sent = proxy.sent
    BY <1>2, <2>2, ChainSends
  <2>3. CASE /\ proxy'.stream = Append(proxy.stream, proxy.sent + 1)
             /\ proxy'.sent = proxy.sent + 1
    BY <1>2, <2>3, ChainSends
  <2>4. QED  BY <2>1, <2>2, <2>3
<1>4. NotesKept(proxy', notifiers', told')
  BY <1>1, <1>3 DEF NotesKept
<1>5. QED  BY <1>4 DEF NotesKept, InHand, NotesOf

\* What a caller does with its place and the client, when the notifiers stay.
LEMMA CallerInv ==
    ASSUME NoteInv, NEW t \in Caller,
           \/ \E at \in {"observe", "post", "set"}, cb \in BOOLEAN : Notification!Call(t, at, cb)
           \/ Notification!Free(t)
           \/ Notification!ObserveNotification(t) \/ Notification!PostNotification(t)
           \/ Notification!SetLock(t) \/ Notification!SetJoin(t)
           \/ Notification!FreeParent(t) \/ Notification!FreeNull(t)
           \/ Notification!FreeEnd(t)
    PROVE  NoteInv'
<1>1. Notification!TypeOK /\ Locked /\ Running /\ "free" \notin Caller /\ "notifier" \notin Caller
  BY NoteBounds DEF NoteInv
<1>2. /\ notifiers' = notifiers /\ told' = told
      /\ proxy'.sent = proxy.sent /\ proxy'.eaten = proxy.eaten
      /\ proxy'.stream = proxy.stream \/ proxy'.stream = Append(proxy.stream, 0)
  BY <1>1 DEF Notification!Call, Notification!Free, Notification!ObserveNotification,
     Notification!PostNotification, Notification!SetLock, Notification!SetJoin,
     Notification!FreeParent, Notification!FreeNull, Notification!FreeEnd, Notification!TypeOK
<1>3. NotesKept(proxy, notifiers, told)'
  BY <1>2, NotesStay
<1>4. CASE \E at \in {"observe", "post", "set", "free"}, cb \in BOOLEAN :
               Notification!Call(t, at, cb)
  <2>1. PICK at \in {"observe", "post", "set", "free"}, cb \in BOOLEAN :
               Notification!Call(t, at, cb)
    BY <1>4
  <2> DEFINE k == npCaller[t].calls + 1
             c == [pc |-> at, cb |-> cb, calls |-> k]
  <2>2. k \in 0..MaxCalls
    BY <1>1, <2>1, NoteBounds DEF Notification!Call, Notification!TypeOK
  <2>3. npCaller' = [npCaller EXCEPT ![t] = c] /\ UNCHANGED <<np, notifiers, proxy, told>>
    BY <2>1 DEF Notification!Call
  <2> HIDE DEF k
  <2>4. c \in NoteCaller /\ c.pc = at
    BY <2>2 DEF NoteCaller
  <2> HIDE DEF c
  <2>5. Notification!TypeOK'
    BY <1>1, <2>3, <2>4, NoteTypes, NoteTypesNext
  <2>6. npCaller'[t].pc = at /\ \A u \in Caller : u # t => npCaller'[u] = npCaller[u]
    BY <1>1, <2>3, <2>4, NoteTypes
  <2>7. Locked' /\ Running'
    BY <1>1, <2>3, <2>6 DEF Locked, Running
  <2>8. QED  BY <1>3, <2>5, <2>7 DEF NoteInv
<1>5. CASE Notification!ObserveNotification(t)
  <2>1. /\ UNCHANGED <<np, notifiers, told>> /\ npCaller' = [npCaller EXCEPT ![t].pc = "idle"]
        /\ proxy' = [proxy EXCEPT !.observed = @ \/ proxy.up]
    BY <1>5 DEF Notification!ObserveNotification, Notification!Goto
  <2>2. proxy' \in NoteDevice
    BY <1>1, <2>1, NoteTypes DEF NoteDevice
  <2>3. Notification!TypeOK'
    BY <1>1, <2>1, <2>2, NoteTypes, NoteTypesNext, NoteCallerGoes
  <2>4. Locked' /\ Running'
    BY <1>1, <2>1, <2>2, NoteCallerGoes DEF Locked, Running
  <2>5. QED  BY <1>3, <2>3, <2>4 DEF NoteInv
<1>6. CASE Notification!PostNotification(t)
  <2>1. /\ UNCHANGED <<notifiers, told>> /\ npCaller' = [npCaller EXCEPT ![t].pc = "answer"]
        /\ np.mutex = "free" /\ np' = [np EXCEPT !.mutex = t]
        /\ \/ proxy' = proxy
           \/ proxy' = [proxy EXCEPT !.up = FALSE, !.stream = Append(@, 0)]
    BY <1>6 DEF Notification!PostNotification, Notification!Goto
  <2>2. Append(proxy.stream, 0) \in Seq({0} \cup Notification!Note)
    BY <1>1, Appended DEF Notification!TypeOK
  <2>3. proxy' \in NoteDevice
    BY <1>1, <2>1, <2>2, NoteTypes DEF NoteDevice
  <2>4. np' \in NoteClient /\ np'.mutex = t /\ np'.notifier = np.notifier
        /\ np'.registered = np.registered
    BY <1>1, <2>1, NoteTypes DEF NoteClient
  <2>5. Notification!TypeOK'
    BY <1>1, <2>1, <2>3, <2>4, NoteTypes, NoteTypesNext, NoteCallerGoes
  <2>6. Locked' /\ Running'
    BY <1>1, <2>1, <2>3, <2>4, NoteCallerGoes DEF Locked, Running
  <2>7. QED  BY <1>3, <2>5, <2>6 DEF NoteInv
<1>7. CASE Notification!SetLock(t)
  <2>1. PICK at \in {"create", "join"} :
          /\ UNCHANGED <<notifiers, proxy, told>> /\ np.mutex = "free"
          /\ npCaller' = [npCaller EXCEPT ![t].pc = at]
          /\ \/ at = "create" /\ np.notifier = 0 /\ np' = [np EXCEPT !.mutex = t]
             \/ at = "join" /\ np' = [np EXCEPT !.mutex = t, !.parent = "null"]
    BY <1>7 DEF Notification!SetLock, Notification!Goto
  <2>2. np' \in NoteClient /\ np'.mutex = t /\ np'.notifier = np.notifier
        /\ np'.registered = np.registered
    BY <1>1, <2>1, NoteTypes DEF NoteClient
  <2>3. Notification!TypeOK'
    BY <1>1, <2>1, <2>2, NoteTypes, NoteTypesNext, NoteCallerGoes
  <2>4. Locked' /\ Running'
    BY <1>1, <2>1, <2>2, NoteCallerGoes DEF Locked, Running
  <2>5. QED  BY <1>3, <2>3, <2>4 DEF NoteInv
<1>8. CASE Notification!SetJoin(t) \/ Notification!FreeEnd(t)
  <2>1. PICK at \in {"create", "idle"}, left \in {"open", "gone"} :
          /\ UNCHANGED <<notifiers, proxy, told>> /\ Notification!Finished
          /\ np' = [Notification!Joined(np) EXCEPT !.parent = left]
          /\ npCaller' = [npCaller EXCEPT ![t].pc = at]
          /\ at = "create" => npCaller[t].pc = "join"
    BY <1>8 DEF Notification!SetJoin, Notification!FreeEnd, Notification!Goto
  <2>2. 0 \in 0..Notification!Garbage /\ 0 \in 0..MaxNotifiers
    BY NoteBounds DEF Notification!Garbage
  <2>3. np' \in NoteClient /\ np'.mutex = np.mutex /\ np'.notifier = 0
    BY <1>1, <2>1, <2>2, NoteTypes DEF NoteClient, Notification!Joined
  <2>4. \A n \in Notification!Notifier : notifiers[n].pc \in {"none", "done"}
    BY <1>1, <2>1 DEF Notification!Finished, Running
  <2>5. Notification!TypeOK'
    BY <1>1, <2>1, <2>3, <2>4, NoteTypes, NoteTypesNext, NoteCallerGoes
  <2>6. Locked' /\ Running'
    BY <1>1, <2>1, <2>3, <2>4, NoteCallerGoes DEF Locked, Running
  <2>7. QED  BY <1>3, <2>5, <2>6 DEF NoteInv
<1>9. CASE Notification!FreeParent(t) \/ Notification!FreeNull(t)
  <2>1. PICK at \in {"null", "end"}, left \in {"freed", "null"}, u \in BOOLEAN :
          /\ UNCHANGED <<notifiers, proxy, told>>
          /\ np' = [np EXCEPT !.parent = left, !.undefined = u]
          /\ npCaller' = [npCaller EXCEPT ![t].pc = at]
    <3>1. CASE Notification!FreeParent(t)
      BY <3>1 DEF Notification!FreeParent, Notification!Goto
    <3>2. CASE Notification!FreeNull(t)
      <4>1. np' = [np EXCEPT !.parent = "null", !.undefined = np.undefined]
            /\ np.undefined \in BOOLEAN
        BY <1>1, <3>2, NoteTypes DEF Notification!FreeNull, NoteClient
      <4>2. QED  BY <3>2, <4>1 DEF Notification!FreeNull, Notification!Goto
    <3>3. QED  BY <1>9, <3>1, <3>2
  <2>2. np' \in NoteClient /\ np'.mutex = np.mutex /\ np'.notifier = np.notifier
        /\ np'.registered = np.registered
    BY <1>1, <2>1, NoteTypes DEF NoteClient
  <2>3. Notification!TypeOK'
    BY <1>1, <2>1, <2>2, NoteTypes, NoteTypesNext, NoteCallerGoes
  <2>4. Locked' /\ Running'
    BY <1>1, <2>1, <2>2, NoteCallerGoes DEF Locked, Running
  <2>5. QED  BY <1>3, <2>3, <2>4 DEF NoteInv
<1>10. QED  BY <1>4, <1>5, <1>6, <1>7, <1>8, <1>9 DEF Notification!Free

LEMMA SetCreateInv == ASSUME NoteInv, NEW t \in Caller, Notification!SetCreate(t) PROVE NoteInv'
<1>1. /\ Notification!TypeOK /\ Locked /\ Running /\ "free" \notin Caller
      /\ npCaller[t].pc = "create" /\ np.mutex = t /\ np.notifier = 0
      /\ npCaller' = [npCaller EXCEPT ![t].pc = "idle"]
      /\ UNCHANGED <<proxy, told>>
  BY NoteBounds DEF NoteInv, Notification!SetCreate, Notification!Goto, Locked
<1>2. \A n \in Notification!Notifier : notifiers[n].pc \in {"none", "done"}
  BY <1>1 DEF Running, Notification!Notifier
<1>3. \A u \in Caller : npCaller'[u].pc \notin {"answer", "join", "create"}
  BY <1>1, NoteCallerGoes DEF Locked
<1>4. CASE \E n \in Notification!Notifier :
              /\ notifiers[n].pc = "none"
              /\ notifiers' = [notifiers EXCEPT ![n].pc = "test"]
              /\ np' = [Notification!Unlocked(np) EXCEPT !.notifier = n, !.registered = n]
  <2>1. PICK n \in Notification!Notifier :
              /\ notifiers[n].pc = "none"
              /\ notifiers' = [notifiers EXCEPT ![n].pc = "test"]
              /\ np' = [Notification!Unlocked(np) EXCEPT !.notifier = n, !.registered = n]
    BY <1>4
  <2>2. n \in 0..Notification!Garbage /\ n \in 0..MaxNotifiers
    BY NoteBounds DEF Notification!Garbage, Notification!Notifier
  <2>3. np' \in NoteClient /\ np'.mutex = "free" /\ np'.notifier = n /\ np'.registered = n
    BY <1>1, <2>1, <2>2, NoteTypes DEF NoteClient, Notification!Unlocked
  <2>4. /\ notifiers' \in [Notification!Notifier -> NoteThread]
        /\ notifiers'[n].pc = "test" /\ notifiers'[n].note = notifiers[n].note
        /\ \A k \in Notification!Notifier : k # n => notifiers'[k] = notifiers[k]
    BY <1>1, <2>1, NoteTypes DEF NoteThread
  <2>5. Notification!TypeOK'
    BY <1>1, <2>3, <2>4, NoteTypes, NoteTypesNext, NoteCallerGoes
  <2>6. Locked'
    BY <1>2, <1>3, <2>4 DEF Locked
  <2>7. Running'
    BY <1>1, <1>2, <2>1, <2>3, <2>4 DEF Running
  <2>8. NotesKept(proxy, notifiers, told)'
    BY <1>1, <2>4, NotesStay
  <2>9. QED  BY <2>5, <2>6, <2>7, <2>8 DEF NoteInv
<1>5. CASE \E left \in {0, Notification!Garbage} :
              notifiers' = notifiers /\ np' = [Notification!Unlocked(np) EXCEPT !.notifier = left]
  <2>1. np' \in NoteClient
    <3>1. {0, Notification!Garbage} \subseteq 0..Notification!Garbage
      BY NoteBounds DEF Notification!Garbage
    <3>2. PICK left \in 0..Notification!Garbage :
              np' = [[np EXCEPT !.mutex = "free"] EXCEPT !.notifier = left]
      BY <1>5, <3>1 DEF Notification!Unlocked
    <3>3. QED  BY <1>1, <3>2, NoteTypes DEF NoteClient
  <2>2. Notification!TypeOK'
    BY <1>1, <1>5, <2>1, NoteTypes, NoteTypesNext, NoteCallerGoes
  <2>3. Locked'
    BY <1>2, <1>3, <1>5 DEF Locked
  <2>4. Running'
    BY <1>1, <1>2, <1>5 DEF Running
  <2>5. NotesKept(proxy, notifiers, told)'
    BY <1>1, <1>5, NotesStay
  <2>6. QED  BY <2>2, <2>3, <2>4, <2>5 DEF NoteInv
<1>6. np' = Notification!Unlocked(np) => np' = [Notification!Unlocked(np) EXCEPT !.notifier = 0]
  BY <1>1, NoteTypes DEF NoteClient, Notification!Unlocked
<1>7. QED  BY <1>4, <1>5, <1>6 DEF Notification!SetCreate

\* The mutex is released by who has it, and the first item of the stream taken, to be eaten
\* or by the thread that receives.
LEMMA NoteTaken ==
    ASSUME Notification!TypeOK, proxy.stream # << >>
    PROVE  /\ Tail(proxy.stream) \in Seq({0} \cup Notification!Note)
           /\ Head(proxy.stream) \in {0} \cup Notification!Note
           /\ Head(proxy.stream) \in Nat
           /\ {Head(proxy.stream)} \ {0} = {Head(proxy.stream)} \cap Notification!Note
<1>1. proxy.stream \in Seq({0} \cup Notification!Note)
  BY DEF Notification!TypeOK
<1>2. {0} \cup Notification!Note \subseteq Nat /\ 0 \notin Notification!Note
  BY NoteBounds DEF Notification!Note
<1>3. QED  BY <1>1, <1>2, Rest

LEMMA PostAnsweredInv ==
    ASSUME NoteInv, NEW t \in Caller, Notification!PostAnswered(t) PROVE NoteInv'
<1>1. /\ Notification!TypeOK /\ Locked /\ Running /\ "free" \notin Caller
      /\ npCaller[t].pc = "answer" /\ np.mutex = t /\ "notifier" \notin Caller
      /\ npCaller' = [npCaller EXCEPT ![t].pc = "idle"]
      /\ UNCHANGED <<notifiers, told>> /\ np' = Notification!Unlocked(np)
  BY NoteBounds DEF NoteInv, Notification!PostAnswered, Notification!Goto, Locked
<1>2. np' \in NoteClient /\ np'.mutex = "free" /\ np'.notifier = np.notifier
      /\ np'.registered = np.registered
  BY <1>1, NoteTypes DEF NoteClient, Notification!Unlocked
<1>3. \A u \in Caller : npCaller'[u].pc \notin {"answer", "join", "create"}
  BY <1>1, NoteCallerGoes DEF Locked
<1>4. Locked' /\ Running'
  BY <1>1, <1>2, <1>3 DEF Locked, Running
<1>5. CASE proxy' = proxy
  <2>1. Notification!TypeOK'
    BY <1>1, <1>2, <1>5, NoteTypes, NoteTypesNext, NoteCallerGoes
  <2>2. NotesKept(proxy, notifiers, told)'
    BY <1>1, <1>5, NotesStay
  <2>3. QED  BY <1>4, <2>1, <2>2 DEF NoteInv
<1>6. CASE proxy.stream # << >>
           /\ proxy' = [proxy EXCEPT !.stream = Tail(@),
                                     !.eaten = @ \cup ({Head(proxy.stream)} \cap Notification!Note)]
  <2> DEFINE e == proxy.eaten \cup ({Head(proxy.stream)} \ {0})
  <2>1. /\ proxy' \in NoteDevice /\ proxy'.stream = Tail(proxy.stream)
        /\ proxy'.sent = proxy.sent /\ proxy'.eaten = e
    BY <1>1, <1>6, NoteTypes, NoteTaken DEF NoteDevice
  <2>2. Notification!TypeOK'
    BY <1>1, <1>2, <2>1, NoteTypes, NoteTypesNext, NoteCallerGoes
  <2>3. e \cup ({Head(proxy.stream)} \ {0}) = e /\ proxy.eaten \subseteq e
    OBVIOUS
  <2> HIDE DEF e
  <2>4. /\ Chain(Tail(proxy.stream), proxy.sent, InHand(notifiers), NotesOf(told))
        /\ Covered(Tail(proxy.stream), proxy.sent, InHand(notifiers), NotesOf(told), e)
    BY <1>1, <1>6, <2>3, NoteTyped, ChainTakes DEF NoteInv, NotesKept
  <2>5. NotesKept(proxy', notifiers', told')
    BY <1>1, <2>1, <2>4 DEF NotesKept
  <2>6. QED  BY <1>4, <2>2, <2>5 DEF NoteInv, NotesKept, InHand, NotesOf
<1>7. QED  BY <1>5, <1>6 DEF Notification!PostAnswered

\* A thread goes on in np_notifier, or ends.
LEMMA NoteThreadGoes ==
    ASSUME Notification!TypeOK, Running, NEW n \in Notification!Notifier,
           NEW at \in {"test", "enter", "lock", "receive", "fail", "done"},
           notifiers[n].pc \notin {"none", "call", "done"},
           notifiers' = [notifiers EXCEPT ![n].pc = at]
    PROVE  /\ notifiers' \in [Notification!Notifier -> NoteThread]
           /\ notifiers'[n].pc = at /\ notifiers'[n].note = 0 /\ notifiers[n].note = 0
           /\ \A k \in Notification!Notifier : k # n => notifiers'[k] = notifiers[k]
           /\ np.notifier = n /\ np.registered = n
           /\ \A k \in Notification!Notifier :
                 k # n => notifiers[k].pc \in {"none", "done"} /\ notifiers[k].note = 0
<1>1. /\ notifiers' \in [Notification!Notifier -> NoteThread]
      /\ notifiers'[n].pc = at /\ notifiers'[n].note = notifiers[n].note
      /\ \A k \in Notification!Notifier : k # n => notifiers'[k] = notifiers[k]
  BY NoteTypes DEF NoteThread
<1>2. np.notifier = n /\ np.registered = n /\ notifiers[n].note = 0
  BY DEF Running
<1>3. \A k \in Notification!Notifier :
         k # n => notifiers[k].pc \in {"none", "done"} /\ notifiers[k].note = 0
  BY <1>2 DEF Running
<1>4. QED  BY <1>1, <1>2, <1>3

LEMMA NotifierGoesInv ==
    ASSUME NoteInv, NEW n \in Notification!Notifier,
           \/ Notification!NotifierTest(n) \/ Notification!NotifierEnter(n)
           \/ Notification!NotifierLock(n)
    PROVE  NoteInv'
<1>1. Notification!TypeOK /\ Locked /\ Running /\ "free" \notin Caller /\ "notifier" \notin Caller
  BY NoteBounds DEF NoteInv
<1>2. PICK at \in {"done", "enter", "fail", "lock", "receive"} :
          /\ UNCHANGED <<npCaller, proxy, told>>
          /\ notifiers[n].pc \notin {"none", "call", "done", "receive"}
          /\ notifiers' = [notifiers EXCEPT ![n].pc = at]
          /\ \/ at # "receive" /\ np' = np
             \/ /\ at = "receive" /\ np.mutex = "free"
                /\ np' = [np EXCEPT !.mutex = "notifier", !.undefined = np.parent = "freed"]
  BY DEF Notification!NotifierTest, Notification!NotifierEnter, Notification!NotifierLock,
     Notification!Move
<1>3. /\ np' \in NoteClient /\ np'.notifier = np.notifier /\ np'.registered = np.registered
      /\ np' = np \/ (np.mutex = "free" /\ np'.mutex = "notifier")
      /\ at = "receive" => np'.mutex = "notifier"
  BY <1>1, <1>2, NoteTypes DEF NoteClient
<1>4. Notification!TypeOK'
  BY <1>1, <1>2, <1>3, NoteTypes, NoteTypesNext, NoteThreadGoes
<1>5. /\ notifiers'[n].pc = at /\ notifiers'[n].note = notifiers[n].note /\ notifiers[n].note = 0
      /\ \A k \in Notification!Notifier :
            k # n => notifiers'[k] = notifiers[k] /\ notifiers[k].pc \in {"none", "done"}
      /\ np.notifier = n /\ np.registered = n
  BY <1>1, <1>2, NoteThreadGoes
<1>6. Locked'
  <2>1. \A k \in Notification!Notifier : notifiers'[k].pc = "receive" => np'.mutex = "notifier"
    BY <1>3, <1>5
  <2>2. \A t \in Caller : npCaller[t].pc \in {"answer", "join", "create"} => np' = np
    BY <1>1, <1>3 DEF Locked
  <2>3. QED  BY <1>1, <1>2, <1>3, <2>1, <2>2 DEF Locked
<1>7. Running'
  BY <1>1, <1>2, <1>3, <1>5 DEF Running
<1>8. NotesKept(proxy, notifiers, told)'
  BY <1>2, <1>5, NotesStay
<1>9. QED  BY <1>4, <1>6, <1>7, <1>8 DEF NoteInv

LEMMA NotifierReceiveInv ==
    ASSUME NoteInv, NEW n \in Notification!Notifier, Notification!NotifierReceive(n)
    PROVE  NoteInv'
<1>1. /\ Notification!TypeOK /\ Locked /\ Running
      /\ "free" \notin Caller /\ "notifier" \notin Caller
      /\ notifiers[n].pc = "receive" /\ UNCHANGED <<npCaller, told>>
      /\ np' = Notification!Unlocked(np)
  BY NoteBounds DEF NoteInv, Notification!NotifierReceive
<1>2. /\ np' \in NoteClient /\ np'.notifier = np.notifier /\ np'.registered = np.registered
      /\ np.mutex = "notifier"
  BY <1>1, NoteTypes DEF NoteClient, Notification!Unlocked, Locked
<1>3. np.notifier = n /\ np.registered = n /\ notifiers[n].note = 0
  BY <1>1 DEF Running
<1>4. \A k \in Notification!Notifier :
         k # n => notifiers[k].pc \in {"none", "done"} /\ notifiers[k].note = 0
  BY <1>1, <1>3 DEF Running
<1>5. \A t \in Caller : npCaller[t].pc \notin {"answer", "join", "create"}
  BY <1>1, <1>2 DEF Locked
<1>6. CASE Notification!Move(n, "test") /\ proxy' = proxy
  <2>1. notifiers' = [notifiers EXCEPT ![n].pc = "test"]
    BY <1>6 DEF Notification!Move
  <2>2. /\ notifiers' \in [Notification!Notifier -> NoteThread]
        /\ notifiers'[n].pc = "test" /\ notifiers'[n].note = 0
        /\ \A k \in Notification!Notifier : k # n => notifiers'[k] = notifiers[k]
    BY <1>1, <2>1, NoteThreadGoes
  <2>3. Notification!TypeOK'
    BY <1>1, <1>2, <1>6, <2>2, NoteTypes, NoteTypesNext
  <2>4. Locked' /\ Running'
    BY <1>1, <1>2, <1>3, <1>4, <1>5, <2>2 DEF Locked, Running
  <2>5. NotesKept(proxy, notifiers, told)'
    BY <1>1, <1>3, <1>6, <2>2, NotesStay
  <2>6. QED  BY <2>3, <2>4, <2>5 DEF NoteInv
<1>7. CASE /\ proxy.stream # << >> /\ proxy' = [proxy EXCEPT !.stream = Tail(@)]
           /\ Notification!Received(n, Head(proxy.stream))
  <2> DEFINE x == Head(proxy.stream)
  <2>1. /\ proxy' \in NoteDevice /\ proxy'.stream = Tail(proxy.stream)
        /\ proxy'.sent = proxy.sent /\ proxy'.eaten = proxy.eaten
        /\ x \in {0} \cup Notification!Note /\ x \in Nat
    BY <1>1, <1>7, NoteTypes, NoteTaken DEF NoteDevice
  <2>2. PICK at \in {"call", "fail"} :
          /\ notifiers' = [notifiers EXCEPT ![n] = [pc |-> at, note |-> x]]
          /\ x # 0 => at = "call"
    <3>1. x \in Notification!Note \/ x = 0
      BY <2>1
    <3>2. 0 \notin Notification!Note
      BY DEF Notification!Note
    <3>3. QED  BY <1>7, <3>1, <3>2 DEF Notification!Received
  <2> HIDE DEF x
  <2>3. [pc |-> at, note |-> x] \in NoteThread
    BY <2>1 DEF NoteThread
  <2>4. /\ notifiers' \in [Notification!Notifier -> NoteThread]
        /\ notifiers'[n].pc = at /\ notifiers'[n].note = x
        /\ \A k \in Notification!Notifier : k # n => notifiers'[k] = notifiers[k]
    BY <1>1, <2>2, <2>3, NoteTypes
  <2>5. Notification!TypeOK'
    BY <1>1, <1>2, <2>1, <2>4, NoteTypes, NoteTypesNext
  <2>6. Locked'
    BY <1>1, <1>2, <1>4, <1>5, <2>4 DEF Locked
  <2>7. Running'
    BY <1>1, <1>2, <1>3, <1>4, <2>2, <2>4 DEF Running
  <2>8. InHand(notifiers)[n] = 0 /\ InHand(notifiers') = [InHand(notifiers) EXCEPT ![n] = x]
    BY <1>3, <2>4 DEF InHand
  <2>9. /\ Chain(Tail(proxy.stream), proxy.sent, InHand(notifiers'), NotesOf(told))
        /\ Covered(Tail(proxy.stream), proxy.sent, InHand(notifiers'), NotesOf(told), proxy.eaten)
    BY <1>1, <1>7, <2>8, NoteTyped, ChainTakes DEF NoteInv, NotesKept, x
  <2>10. NotesKept(proxy', notifiers', told')
    BY <1>1, <2>1, <2>9 DEF NotesKept
  <2>11. QED  BY <2>5, <2>6, <2>7, <2>10 DEF NoteInv, NotesKept, InHand, NotesOf
<1>8. QED  BY <1>6, <1>7 DEF Notification!NotifierReceive

LEMMA NotifierCallInv ==
    ASSUME NoteInv, NEW n \in Notification!Notifier, Notification!NotifierCall(n)
    PROVE  NoteInv'
<1> DEFINE x == notifiers[n].note
           said == [by |-> n, note |-> x]
<1>1. /\ Notification!TypeOK /\ Locked /\ Running
      /\ UNCHANGED <<np, npCaller, proxy>>
      /\ notifiers[n].pc \in {"call", "fail"} /\ told' = Append(told, said)
  BY DEF NoteInv, Notification!NotifierCall
<1>2. PICK at \in {"test", "done"} :
          notifiers' = [notifiers EXCEPT ![n] = [pc |-> at, note |-> 0]]
  BY DEF Notification!NotifierCall
<1>3. np.notifier = n /\ np.registered = n
  BY <1>1 DEF Running
<1>4. \A k \in Notification!Notifier :
         k # n => notifiers[k].pc \in {"none", "done"} /\ notifiers[k].note = 0
  BY <1>1, <1>3 DEF Running
<1>5. [pc |-> at, note |-> 0] \in NoteThread
  BY DEF NoteThread
<1>6. /\ notifiers' \in [Notification!Notifier -> NoteThread]
      /\ notifiers'[n].pc = at /\ notifiers'[n].note = 0
      /\ \A k \in Notification!Notifier : k # n => notifiers'[k] = notifiers[k]
  BY <1>1, <1>2, <1>5, NoteTypes
<1>7. said \in [by : Notification!Notifier, note : {0} \cup Notification!Note] /\ said.note = x
  BY <1>1, NoteTypes DEF NoteThread
<1> HIDE DEF said
<1>8. /\ told' \in NoteCalls /\ Len(told') = Len(told) + 1
      /\ told'[Len(told) + 1] = said
      /\ \A i \in 1..Len(told) : told'[i] = told[i]
  BY <1>1, <1>7, NoteTypes, Appended DEF NoteCalls
<1>9. Notification!TypeOK'
  BY <1>1, <1>6, <1>8, NoteTypes, NoteTypesNext
<1>10. Locked'
  BY <1>1, <1>4, <1>6 DEF Locked
<1>11. Running'
  BY <1>1, <1>3, <1>4, <1>6 DEF Running
<1>12. /\ InHand(notifiers') = [InHand(notifiers) EXCEPT ![n] = 0]
       /\ InHand(notifiers)[n] = x
       /\ \A k \in Notification!Notifier : k # n => InHand(notifiers)[k] = 0
  BY <1>4, <1>6 DEF InHand
<1>13. NotesOf(told') = Append(NotesOf(told), x)
  <2>1. /\ x \in Nat /\ NotesOf(told) \in Seq(Nat) /\ Len(NotesOf(told)) = Len(told)
        /\ Len(told) \in Nat
    BY <1>1, <1>12, NoteTyped DEF NoteHands
  <2>2. NotesOf(told') \in Seq(Nat) /\ Len(NotesOf(told')) = Len(told) + 1
    <3>1. \A i \in 1..(Len(told) + 1) : told'[i].note \in Nat
      <4>1. \A i \in 1..(Len(told) + 1) : i \in 1..Len(told) \/ i = Len(told) + 1
        BY <2>1
      <4>2. QED  BY <1>1, <1>7, <1>8, <2>1, <4>1, NoteTyped
    <3> DEFINE k == Len(told) + 1
    <3>2. k \in Nat
      BY <2>1
    <3> HIDE DEF k
    <3>3. [i \in 1..k |-> told'[i].note] \in Seq(Nat) /\ Len([i \in 1..k |-> told'[i].note]) = k
      BY <3>1, <3>2 DEF k
    <3>4. QED  BY <1>8, <3>3 DEF NotesOf, k
  <2>3. /\ Append(NotesOf(told), x) \in Seq(Nat)
        /\ Len(Append(NotesOf(told), x)) = Len(told) + 1
        /\ Append(NotesOf(told), x)[Len(told) + 1] = x
        /\ \A i \in 1..Len(told) : Append(NotesOf(told), x)[i] = told[i].note
    BY <2>1, Appended DEF NotesOf
  <2>4. \A i \in 1..(Len(told) + 1) : NotesOf(told')[i] = Append(NotesOf(told), x)[i]
    <3> SUFFICES ASSUME NEW i \in 1..(Len(told) + 1)
                 PROVE  NotesOf(told')[i] = Append(NotesOf(told), x)[i]
      OBVIOUS
    <3>1. NotesOf(told')[i] = told'[i].note
      BY <1>8 DEF NotesOf
    <3>2. i \in 1..Len(told) \/ i = Len(told) + 1
      BY <2>1
    <3>3. QED  BY <1>7, <1>8, <2>3, <3>1, <3>2
  <2>5. QED  BY <2>2, <2>3, <2>4, SeqEqual
<1>14. /\ Chain(proxy.stream, proxy.sent, InHand(notifiers'), NotesOf(told'))
       /\ Covered(proxy.stream, proxy.sent, InHand(notifiers'), NotesOf(told'), proxy.eaten)
  <2> DEFINE h == InHand(notifiers)
             c == NotesOf(told)
  <2>1. /\ h \in NoteHands /\ c \in Seq(Nat) /\ proxy.stream \in Seq(Nat) /\ proxy.sent \in Nat
        /\ Chain(proxy.stream, proxy.sent, h, c)
        /\ Covered(proxy.stream, proxy.sent, h, c, proxy.eaten)
    BY <1>1, NoteTyped DEF NoteInv, NotesKept
  <2>2. \A k \in Notification!Notifier : k # n => h[k] = 0
    BY <1>12
  <2>3. InHand(notifiers') = [h EXCEPT ![n] = 0] /\ NotesOf(told') = Append(c, h[n])
    BY <1>12, <1>13
  <2> HIDE DEF h, c
  <2>4. /\ Chain(proxy.stream, proxy.sent, [h EXCEPT ![n] = 0], Append(c, h[n]))
        /\ Covered(proxy.stream, proxy.sent, [h EXCEPT ![n] = 0], Append(c, h[n]), proxy.eaten)
    BY <2>1, <2>2, ChainCalls
  <2>5. QED  BY <2>3, <2>4
<1>15. NotesKept(proxy', notifiers', told')
  BY <1>1, <1>14 DEF NotesKept
<1>16. QED  BY <1>9, <1>10, <1>11, <1>15 DEF NoteInv, NotesKept, InHand, NotesOf

LEMMA NoteDeviceInv ==
    ASSUME NoteInv, Notification!DeviceNotifies \/ Notification!DeviceEnds PROVE NoteInv'
<1>1. /\ Notification!TypeOK /\ Locked /\ Running
      /\ UNCHANGED <<np, npCaller, notifiers, told>>
  BY DEF NoteInv, Notification!DeviceNotifies, Notification!DeviceEnds
<1>2. Locked' /\ Running'
  BY <1>1 DEF Locked, Running
<1>3. proxy.stream \in Seq({0} \cup Notification!Note) /\ 0 \in {0} \cup Notification!Note
  BY <1>1 DEF Notification!TypeOK
<1>4. CASE Notification!DeviceNotifies
  <2> DEFINE k == proxy.sent + 1
  <2>1. proxy' = [proxy EXCEPT !.sent = k, !.stream = Append(@, k)]
    BY <1>4 DEF Notification!DeviceNotifies
  <2>2. k \in Notification!Note /\ k \in 0..MaxNotes
    BY <1>1, <1>4, NoteBounds DEF Notification!DeviceNotifies, Notification!TypeOK,
       Notification!Note
  <2>3. proxy'.stream = Append(proxy.stream, proxy.sent + 1) /\ proxy'.sent = proxy.sent + 1
        /\ proxy'.eaten = proxy.eaten
    BY <1>1, <2>1, NoteTypes DEF NoteDevice
  <2> HIDE DEF k
  <2>4. Append(proxy.stream, k) \in Seq({0} \cup Notification!Note)
    BY <1>3, <2>2, Appended
  <2>5. proxy' \in NoteDevice
    BY <1>1, <2>1, <2>2, <2>4, NoteTypes DEF NoteDevice
  <2>6. Notification!TypeOK'
    BY <1>1, <2>5, NoteTypes, NoteTypesNext
  <2>7. NotesKept(proxy, notifiers, told)'
    BY <1>1, <2>3, NotesStay
  <2>8. QED  BY <1>2, <2>6, <2>7 DEF NoteInv
<1>5. CASE Notification!DeviceEnds
  <2>1. PICK last \in {<< >>, <<0>>} : proxy' = [proxy EXCEPT !.up = FALSE, !.stream = @ \o last]
    BY <1>5 DEF Notification!DeviceEnds
  <2>2. proxy.stream \o << >> = proxy.stream /\ proxy.stream \o <<0>> = Append(proxy.stream, 0)
    BY <1>3, ConcatEmptySeq, AppendIsConcat
  <2>3. /\ proxy'.stream = proxy.stream \/ proxy'.stream = Append(proxy.stream, 0)
        /\ proxy'.sent = proxy.sent /\ proxy'.eaten = proxy.eaten
    BY <1>1, <2>1, <2>2, NoteTypes DEF NoteDevice
  <2>4. Append(proxy.stream, 0) \in Seq({0} \cup Notification!Note)
    BY <1>3, Appended
  <2>5. proxy' \in NoteDevice
    BY <1>1, <1>3, <2>1, <2>2, <2>4, NoteTypes DEF NoteDevice
  <2>6. Notification!TypeOK'
    BY <1>1, <2>5, NoteTypes, NoteTypesNext
  <2>7. NotesKept(proxy, notifiers, told)'
    BY <1>1, <2>3, NotesStay
  <2>8. QED  BY <1>2, <2>6, <2>7 DEF NoteInv
<1>6. QED  BY <1>4, <1>5

LEMMA NoteServicesInv == ASSUME NoteInv, [ServicesNext]_all PROVE NoteInv'
<1>1. CASE UNCHANGED npVars
  <2>1. np' = np /\ npCaller' = npCaller /\ notifiers' = notifiers /\ proxy' = proxy /\ told' = told
    BY <1>1 DEF npVars
  <2>2. Notification!TypeOK' /\ Locked' /\ Running'
    BY <2>1 DEF NoteInv, Notification!TypeOK, Locked, Running
  <2>3. NotesKept(proxy, notifiers, told)'
    BY <2>1, NotesStay
  <2>4. QED  BY <2>2, <2>3 DEF NoteInv
<1>2. CASE Notification!Next
  BY <1>2, CallerInv, SetCreateInv, PostAnsweredInv, NotifierGoesInv, NotifierReceiveInv,
     NotifierCallInv, NoteDeviceInv
     DEF Notification!Next, Notification!Calls, Notification!CallerStep,
         Notification!NotifierStep
<1>3. QED  BY <1>1, <1>2 DEF ServicesNext, PlistRuns, SrRuns, ServerRuns, Only, all

LEMMA NotesAreReported == NoteInv => Notification!NotesReported
<1> SUFFICES ASSUME NoteInv PROVE Notification!NotesReported
  OBVIOUS
<1>1. /\ DOMAIN proxy.stream = 1..Len(proxy.stream) /\ DOMAIN told = 1..Len(told)
      /\ Len(NotesOf(told)) = Len(told)
      /\ \A i \in 1..Len(told) : NotesOf(told)[i] = told[i].note
      /\ \A n \in Notification!Notifier : InHand(notifiers)[n] = notifiers[n].note
  BY NoteTyped, LenProperties DEF NoteInv, InHand, NotesOf
<1>2. /\ Chain(proxy.stream, proxy.sent, InHand(notifiers), NotesOf(told))
      /\ Covered(proxy.stream, proxy.sent, InHand(notifiers), NotesOf(told), proxy.eaten)
  BY DEF NoteInv, NotesKept
<1>3. \A m \in 1..proxy.sent :
          \/ m \in proxy.eaten
          \/ \E i \in DOMAIN proxy.stream : proxy.stream[i] = m
          \/ \E n \in Notification!Notifier : notifiers[n].note = m
          \/ \E i \in DOMAIN told : told[i].note = m
  BY <1>1, <1>2 DEF Covered
<1>4. \A i, j \in DOMAIN told :
          i < j /\ told[j].note # 0 => told[i].note < told[j].note
  BY <1>1, <1>2 DEF Chain
<1>5. QED  BY <1>3, <1>4 DEF Notification!NotesReported

\* np_notifier loses no notification, however often the callback is replaced while it
\* receives: each was called back, is about to be, is still to come or was read as the
\* answer to a post; and they are called back in their order.
THEOREM NotesAllReported == ServicesSpec => []NotesReported
<1>1. ServicesInit => NoteInv
  BY NoteInitInv DEF ServicesInit
<1>2. NoteInv /\ [ServicesNext]_all => NoteInv'
  BY NoteServicesInv
<1>3. NoteInv => NotesReported
  BY NotesAreReported DEF NotesReported
<1>4. QED  BY <1>1, <1>2, <1>3, PTL DEF ServicesSpec

\* A callback that np_set_notify_callback replaced or took back is not called any more,
\* whatever calls overlap: the thread that calls is the one registered last.
THEOREM OnlyCurrentCalled == ServicesSpec => CallbackCurrent
<1>1. ServicesInit => NoteInv
  BY NoteInitInv DEF ServicesInit
<1>2. NoteInv /\ [ServicesNext]_all => NoteInv'
  BY NoteServicesInv
<1>3. NoteInv /\ [ServicesNext]_all => [told' # told => told'[Len(told')].by = np.registered]_all
  <2> SUFFICES ASSUME NoteInv, ServicesNext, told' # told
               PROVE  told'[Len(told')].by = np.registered
    BY DEF all
  <2>1. Notification!Next
    BY DEF ServicesNext, PlistRuns, SrRuns, ServerRuns, Only, npVars
  <2>2. PICK n \in Notification!Notifier : Notification!NotifierCall(n)
    BY <2>1 DEF Notification!Next, Notification!Calls, Notification!Call, Notification!Free,
       Notification!CallerStep, Notification!ObserveNotification,
       Notification!PostNotification, Notification!PostAnswered, Notification!SetLock,
       Notification!SetJoin, Notification!SetCreate, Notification!FreeParent,
       Notification!FreeNull, Notification!FreeEnd, Notification!NotifierStep,
       Notification!NotifierTest, Notification!NotifierEnter, Notification!NotifierLock,
       Notification!NotifierReceive, Notification!DeviceNotifies, Notification!DeviceEnds
  <2>3. np.registered = n
    BY <2>2 DEF NoteInv, Running, Notification!NotifierCall
  <2> DEFINE said == [by |-> n, note |-> notifiers[n].note]
  <2>4. told' = Append(told, said) /\ said.by = n
    BY <2>2 DEF Notification!NotifierCall
  <2>5. told \in Seq([by : Notification!Notifier, note : {0} \cup Notification!Note])
        /\ said \in [by : Notification!Notifier, note : {0} \cup Notification!Note]
    BY NoteTypes DEF NoteInv, NoteCalls, NoteThread
  <2> HIDE DEF said
  <2>6. told'[Len(told')] = said
    BY <2>4, <2>5, Appended
  <2>7. QED  BY <2>3, <2>4, <2>6
<1>4. QED  BY <1>1, <1>2, <1>3, PTL DEF ServicesSpec, CallbackCurrent

-----------------------------------------------------------------------------
(* SyslogRelay.                                                            *)

LogClient == [ssl : BOOLEAN, parent : {"open", "null", "freed"}, worker : 0..Syslog!Garbage,
              undefined : BOOLEAN]

LogThread == [pc : {"none", "test", "enter", "receive", "call", "done"}, c : 0..Syslog!End]

LogDevice == [up : BOOLEAN, sent : 0..MaxChars, log : Seq(Syslog!Char)]

LogCalls == Seq([by : Syslog!Worker, c : Syslog!Char \cup {Syslog!End}])

\* One thread at most runs syslog_relay_worker, the one that is joined.
Capturing ==
    /\ \A w \in Syslog!Worker : workers[w].pc \notin {"none", "done"} => sr.worker = w
    /\ \A w \in Syslog!Worker : workers[w].c # 0 <=> workers[w].pc = "call"

\* Of the characters up to s those up to t were called back with (c), in their order, and
\* those after k are in the log (l).
LogChain(l, s, c, t, k) ==
    /\ s = k + Len(l) /\ t <= k
    /\ \A i \in 1..Len(l) : l[i] = k + i
    /\ \A i, j \in 1..Len(c) :
          i < j /\ c[i] <= MaxChars /\ c[j] <= MaxChars => c[i] < c[j]
    /\ \A x \in 1..MaxChars : (\E i \in 1..Len(c) : c[i] = x) <=> x <= t

CharsOf(calls) == [i \in 1..Len(calls) |-> calls[i].c]

\* One character at most is in hand, the last that was received.
LogKept(d, ws, calls) ==
    \E t, k \in Nat :
        /\ LogChain(d.log, d.sent, CharsOf(calls), t, k)
        /\ \/ k = t /\ \A w \in Syslog!Worker : ws[w].c \notin Syslog!Char
           \/ k = t + 1 /\ \E w \in Syslog!Worker : ws[w].c = k

LogInv == Syslog!TypeOK /\ Capturing /\ LogKept(logger, workers, captured)

LEMMA LogBounds == {MaxChars, MaxWorkers, MaxStale} \subseteq Nat
  BY ComponentsAssumption DEF ComponentsAssumption, Syslog!SyslogAssumption

LEMMA LogTypes ==
    Syslog!TypeOK <=>
        /\ sr \in LogClient /\ srPc \in {"idle", "join", "free", "end", "gone"}
        /\ workers \in [Syslog!Worker -> LogThread]
        /\ logger \in LogDevice /\ captured \in LogCalls
  BY DEF Syslog!TypeOK, LogClient, LogThread, LogDevice, LogCalls

LEMMA LogTypesNext ==
    ASSUME sr' \in LogClient, srPc' \in {"idle", "join", "free", "end", "gone"},
           workers' \in [Syslog!Worker -> LogThread],
           logger' \in LogDevice, captured' \in LogCalls
    PROVE  Syslog!TypeOK'
  BY DEF Syslog!TypeOK, LogClient, LogThread, LogDevice, LogCalls

LEMMA LogTyped ==
    ASSUME Syslog!TypeOK
    PROVE  /\ logger.log \in Seq(Syslog!Char) /\ logger.log \in Seq(Nat)
           /\ logger.sent \in 0..MaxChars /\ logger.sent \in Nat
           /\ CharsOf(captured) \in Seq(Nat) /\ Len(CharsOf(captured)) = Len(captured)
           /\ Len(captured) \in Nat /\ DOMAIN captured = 1..Len(captured)
           /\ \A i \in 1..Len(captured) : captured[i].c \in Nat
           /\ \A w \in Syslog!Worker : workers[w].c \in Nat
<1>1. Syslog!Char \cup {Syslog!End} \subseteq Nat /\ 0..MaxChars \subseteq Nat
      /\ 0..Syslog!End \subseteq Nat
  BY LogBounds DEF Syslog!Char, Syslog!End
<1>2. logger.log \in Seq(Syslog!Char) /\ logger.sent \in 0..MaxChars /\ captured \in LogCalls
  BY DEF Syslog!TypeOK, LogCalls
<1>3. logger.log \in Seq(Nat)
  <2>1. Syslog!Char \subseteq Nat
    BY <1>1
  <2>2. QED  BY <1>2, <2>1, SeqMonotonic
<1>4. \A w \in Syslog!Worker : workers[w].c \in Nat
  BY <1>1 DEF Syslog!TypeOK
<1> DEFINE k == Len(captured)
<1>5. /\ k \in Nat /\ DOMAIN captured = 1..k
      /\ \A i \in 1..k : captured[i] \in [by : Syslog!Worker, c : Syslog!Char \cup {Syslog!End}]
  BY <1>2, LenProperties, ElementOfSeq DEF LogCalls
<1>6. \A i \in 1..k : captured[i].c \in Nat
  BY <1>1, <1>5
<1> HIDE DEF k
<1>7. [i \in 1..k |-> captured[i].c] \in Seq(Nat) /\ Len([i \in 1..k |-> captured[i].c]) = k
  BY <1>5, <1>6
<1>8. QED  BY <1>1, <1>2, <1>3, <1>4, <1>5, <1>6, <1>7 DEF CharsOf, k

LEMMA LogInitInv == Syslog!Init => LogInv
<1> SUFFICES ASSUME Syslog!Init PROVE LogInv
  OBVIOUS
<1>1. /\ 0 \in 0..MaxChars /\ 0 \in 0..Syslog!Garbage /\ 0 \in 0..Syslog!End /\ Len(<< >>) = 0
      /\ MaxChars \in Nat /\ 0 \in Nat
  BY LogBounds DEF Syslog!Garbage, Syslog!End
<1>2. Syslog!TypeOK
  BY <1>1 DEF Syslog!Init, Syslog!TypeOK
<1>3. Capturing
  BY DEF Syslog!Init, Capturing
<1>4. /\ logger.log = << >> /\ logger.sent = 0 /\ CharsOf(captured) = << >>
      /\ \A w \in Syslog!Worker : workers[w].c \notin Syslog!Char
  BY <1>1 DEF Syslog!Init, CharsOf, Syslog!Char
<1>5. LogChain(<< >>, 0, << >>, 0, 0)
  BY <1>1 DEF LogChain
<1>6. LogKept(logger, workers, captured)
  BY <1>1, <1>4, <1>5 DEF LogKept
<1>7. QED  BY <1>2, <1>3, <1>6 DEF LogInv

\* No character moves.
LEMMA LogStays ==
    ASSUME LogInv, captured' = captured,
           \A w \in Syslog!Worker : workers'[w].c = workers[w].c,
           logger'.log = logger.log, logger'.sent = logger.sent
    PROVE  LogKept(logger, workers, captured)'
<1>1. LogKept(logger', workers', captured')
  BY DEF LogInv, LogKept
<1>2. QED  BY <1>1 DEF LogKept, CharsOf

LEMMA ChainLogs ==
    ASSUME NEW l \in Seq(Nat), NEW s \in Nat, NEW c, NEW t \in Nat, NEW k \in Nat,
           LogChain(l, s, c, t, k)
    PROVE  LogChain(Append(l, s + 1), s + 1, c, t, k)
<1> DEFINE v == Append(l, s + 1)
<1>1. /\ Len(v) = Len(l) + 1 /\ v[Len(l) + 1] = s + 1 /\ Len(l) \in Nat
      /\ \A i \in 1..Len(l) : v[i] = l[i]
  BY Appended, LenProperties
<1> HIDE DEF v
<1>2. s + 1 = k + Len(v)
  BY <1>1 DEF LogChain
<1>3. \A i \in 1..Len(v) : i \in 1..Len(l) \/ i = Len(l) + 1
  BY <1>1
<1>4. \A i \in 1..Len(v) : v[i] = k + i
  <2> SUFFICES ASSUME NEW i \in 1..Len(v) PROVE v[i] = k + i
    OBVIOUS
  <2>1. CASE i \in 1..Len(l)
    BY <1>1, <2>1 DEF LogChain
  <2>2. CASE i = Len(l) + 1
    BY <1>1, <1>2, <2>2
  <2>3. QED  BY <1>3, <2>1, <2>2
<1>5. QED  BY <1>2, <1>4 DEF LogChain, v

LEMMA ChainReceives ==
    ASSUME NEW l \in Seq(Nat), l # << >>, NEW s \in Nat, NEW c, NEW t \in Nat, NEW k \in Nat,
           LogChain(l, s, c, t, k)
    PROVE  Head(l) = k + 1 /\ LogChain(Tail(l), s, c, t, k + 1)
<1> DEFINE v == Tail(l)
<1>1. /\ Len(v) = Len(l) - 1 /\ Len(l) \in Nat \ {0} /\ Head(l) = l[1]
      /\ \A i \in 1..(Len(l) - 1) : v[i] = l[i + 1]
  BY Rest
<1> HIDE DEF v
<1>2. s = (k + 1) + Len(v) /\ t <= k + 1
  BY <1>1 DEF LogChain
<1>3. \A i \in 1..Len(v) : v[i] = (k + 1) + i
  <2> SUFFICES ASSUME NEW i \in 1..Len(v) PROVE v[i] = (k + 1) + i
    OBVIOUS
  <2>1. i + 1 \in 1..Len(l) /\ v[i] = l[i + 1]
    BY <1>1
  <2>2. l[i + 1] = k + (i + 1)
    BY <2>1 DEF LogChain
  <2>3. QED  BY <2>1, <2>2
<1>4. Head(l) = k + 1
  <2>1. 1 \in 1..Len(l)
    BY <1>1
  <2>2. QED  BY <1>1, <2>1 DEF LogChain
<1>5. QED  BY <1>2, <1>3, <1>4 DEF LogChain, v

\* The next character is called back with, or none.
LEMMA ChainCaptures ==
    ASSUME NEW l, NEW s, NEW c \in Seq(Nat), NEW t \in Nat, NEW k \in Nat, NEW x \in Nat,
           NEW u \in Nat,
           \/ x = t + 1 /\ u = t + 1 /\ u <= k /\ u <= MaxChars
           \/ x > MaxChars /\ u = t,
           LogChain(l, s, c, t, k)
    PROVE  LogChain(l, s, Append(c, x), u, k)
<1> DEFINE v == Append(c, x)
<1>1. /\ Len(v) = Len(c) + 1 /\ v[Len(c) + 1] = x /\ Len(c) \in Nat
      /\ \A i \in 1..Len(c) : v[i] = c[i] /\ c[i] \in Nat
  BY Appended, LenProperties, ElementOfSeq
<1>2. MaxChars \in Nat
  BY LogBounds
<1> HIDE DEF v
<1>3. \A i \in 1..Len(v) :
          \/ i = Len(c) + 1 /\ v[i] = x
          \/ i \in 1..Len(c) /\ v[i] = c[i] /\ c[i] \in Nat
  BY <1>1
<1>4. \A i \in 1..Len(c) : i \in 1..Len(v)
  BY <1>1
<1>5. Len(c) + 1 \in 1..Len(v)
  BY <1>1
<1>6. \A i \in 1..Len(c) : c[i] \in 1..MaxChars => c[i] <= t
  BY DEF LogChain
<1>7. \A i, j \in 1..Len(v) : i < j /\ v[i] <= MaxChars /\ v[j] <= MaxChars => v[i] < v[j]
  <2> SUFFICES ASSUME NEW i \in 1..Len(v), NEW j \in 1..Len(v), i < j,
                      v[i] <= MaxChars, v[j] <= MaxChars
               PROVE  v[i] < v[j]
    OBVIOUS
  <2>1. i \in 1..Len(c) /\ v[i] = c[i] /\ c[i] \in Nat
    BY <1>1, <1>3
  <2>2. CASE v[j] = x
    <3>1. x = t + 1
      BY <1>2, <2>2
    <3>2. c[i] <= t \/ c[i] = 0
      BY <1>2, <1>6, <2>1
    <3>3. QED  BY <2>1, <2>2, <3>1, <3>2
  <2>3. CASE j \in 1..Len(c) /\ v[j] = c[j]
    BY <2>1, <2>3 DEF LogChain
  <2>4. QED  BY <1>3, <2>2, <2>3
<1>8. \A y \in 1..MaxChars : (\E i \in 1..Len(v) : v[i] = y) <=> y <= u
  <2> SUFFICES ASSUME NEW y \in 1..MaxChars
               PROVE  (\E i \in 1..Len(v) : v[i] = y) <=> y <= u
    OBVIOUS
  <2>1. (\E i \in 1..Len(v) : v[i] = y) <=> y = x \/ \E i \in 1..Len(c) : c[i] = y
    BY <1>1, <1>3, <1>4, <1>5
  <2>2. (\E i \in 1..Len(c) : c[i] = y) <=> y <= t
    BY DEF LogChain
  <2>3. y = x \/ y <= t <=> y <= u
    BY <1>2
  <2>4. QED  BY <2>1, <2>2, <2>3
<1>9. u <= k
  BY DEF LogChain
<1>10. QED  BY <1>7, <1>8, <1>9 DEF LogChain, v

\* What the caller does: no thread runs unless one is joined.
LEMMA LogCallerInv ==
    ASSUME LogInv,
           \/ Syslog!StartCapture \/ Syslog!StopCapture \/ Syslog!ClientFree
           \/ Syslog!CallerStep
    PROVE  LogInv'
<1>1. Syslog!TypeOK /\ Capturing
  BY DEF LogInv
<1>2. CASE \E w \in Syslog!Worker :
              /\ workers[w].pc = "none" /\ sr.worker = 0
              /\ workers' = [workers EXCEPT ![w].pc = "test"]
              /\ sr' = [sr EXCEPT !.worker = w]
              /\ UNCHANGED <<srPc, logger, captured>>
  <2>1. PICK w \in Syslog!Worker :
              /\ workers[w].pc = "none" /\ sr.worker = 0
              /\ workers' = [workers EXCEPT ![w].pc = "test"]
              /\ sr' = [sr EXCEPT !.worker = w]
              /\ UNCHANGED <<srPc, logger, captured>>
    BY <1>2
  <2>2. w \in 0..Syslog!Garbage
    BY LogBounds DEF Syslog!Garbage, Syslog!Worker
  <2>3. sr' \in LogClient /\ sr'.worker = w
    BY <1>1, <2>1, <2>2, LogTypes DEF LogClient
  <2>4. /\ workers' \in [Syslog!Worker -> LogThread]
        /\ workers'[w].pc = "test" /\ workers'[w].c = workers[w].c
        /\ \A v \in Syslog!Worker : v # w => workers'[v] = workers[v]
    BY <1>1, <2>1, LogTypes DEF LogThread
  <2>5. Syslog!TypeOK'
    BY <1>1, <2>1, <2>3, <2>4, LogTypes, LogTypesNext
  <2>6. \A v \in Syslog!Worker : workers[v].pc \in {"none", "done"}
    BY <1>1, <2>1 DEF Capturing, Syslog!Worker
  <2>7. Capturing'
    BY <1>1, <2>1, <2>3, <2>4, <2>6 DEF Capturing
  <2>8. LogKept(logger, workers, captured)'
    BY <2>1, <2>4, LogStays
  <2>9. QED  BY <2>5, <2>7, <2>8 DEF LogInv
<1>3. CASE /\ UNCHANGED <<workers, logger, captured>>
           /\ srPc' \in {"idle", "join", "free", "end", "gone"}
           /\ sr' \in LogClient
           /\ \/ sr'.worker = sr.worker
              \/ \A w \in Syslog!Worker : workers[w].pc \in {"none", "done"}
  <2>1. Syslog!TypeOK'
    BY <1>1, <1>3, LogTypes, LogTypesNext
  <2>2. Capturing'
    BY <1>1, <1>3 DEF Capturing
  <2>3. LogKept(logger, workers, captured)'
    BY <1>3, LogStays
  <2>4. QED  BY <2>1, <2>2, <2>3 DEF LogInv
<1>4. {0, Syslog!Garbage} \subseteq 0..Syslog!Garbage /\ sr.worker \in 0..Syslog!Garbage
      /\ sr \in LogClient
  BY <1>1, LogBounds, LogTypes DEF Syslog!Garbage, LogClient
<1>5. Syslog!StartCapture => LogInv'
  <2>1. ASSUME Syslog!StartCapture, sr' = [sr EXCEPT !.worker = Syslog!Garbage],
               UNCHANGED workers
        PROVE  LogInv'
    <3>1. sr' \in LogClient
      BY <1>4, <2>1 DEF LogClient
    <3>2. \A w \in Syslog!Worker : workers[w].pc \in {"none", "done"}
      BY <1>1, <2>1 DEF Capturing, Syslog!Worker, Syslog!StartCapture
    <3>3. srPc' = srPc /\ srPc \in {"idle", "join", "free", "end", "gone"}
      BY <1>1, <2>1, LogTypes DEF Syslog!StartCapture
    <3>4. QED  BY <1>3, <2>1, <3>1, <3>2, <3>3 DEF Syslog!StartCapture
  <2>2. QED  BY <1>2, <2>1 DEF Syslog!StartCapture
<1>6. Syslog!StopCapture => LogInv'
  <2> SUFFICES ASSUME Syslog!StopCapture PROVE LogInv'
    OBVIOUS
  <2>1. sr' \in LogClient /\ sr'.worker = sr.worker
    BY <1>4 DEF LogClient, Syslog!StopCapture
  <2>2. QED  BY <1>3, <2>1 DEF Syslog!StopCapture
<1>7. Syslog!ClientFree \/ Syslog!FreeNull \/ Syslog!FreeEnds => LogInv'
  <2> SUFFICES ASSUME Syslog!ClientFree \/ Syslog!FreeNull \/ Syslog!FreeEnds PROVE LogInv'
    OBVIOUS
  <2>1. /\ UNCHANGED <<workers, logger, captured>>
        /\ srPc' \in {"idle", "join", "free", "end", "gone"}
    BY DEF Syslog!ClientFree, Syslog!FreeNull, Syslog!FreeEnds
  <2>2. PICK parent \in {"open", "null", "freed"}, u \in BOOLEAN :
            sr' = [sr EXCEPT !.parent = parent, !.undefined = u]
    <3>1. sr = [sr EXCEPT !.parent = sr.parent] /\ sr = [sr EXCEPT !.undefined = sr.undefined]
      BY <1>4 DEF LogClient
    <3>2. /\ [sr EXCEPT !.parent = "null"]
               = [sr EXCEPT !.parent = "null", !.undefined = sr.undefined]
          /\ [sr EXCEPT !.undefined = sr.worker = Syslog!Garbage]
               = [sr EXCEPT !.parent = sr.parent, !.undefined = sr.worker = Syslog!Garbage]
      BY <1>4 DEF LogClient
    <3>3. sr.parent \in {"open", "null", "freed"} /\ sr.undefined \in BOOLEAN
      BY <1>4 DEF LogClient
    <3>4. CASE Syslog!ClientFree
      BY <3>4 DEF Syslog!ClientFree
    <3>5. CASE Syslog!FreeNull
      BY <3>2, <3>3, <3>5 DEF Syslog!FreeNull
    <3>6. CASE Syslog!FreeEnds
      BY <3>2, <3>3, <3>6 DEF Syslog!FreeEnds
    <3>7. QED  BY <3>4, <3>5, <3>6
  <2>3. sr' \in LogClient /\ sr'.worker = sr.worker
    BY <1>4, <2>2 DEF LogClient
  <2>4. QED  BY <1>3, <2>1, <2>3
<1>8. Syslog!StopEnds => LogInv'
  <2> SUFFICES ASSUME Syslog!StopEnds PROVE LogInv'
    OBVIOUS
  <2>1. sr' \in LogClient
    BY <1>4 DEF LogClient, Syslog!StopEnds
  <2>2. \A w \in Syslog!Worker : workers[w].pc \in {"none", "done"}
    BY <1>1 DEF Capturing, Syslog!StopEnds, Syslog!Joined
  <2>3. QED  BY <1>3, <2>1, <2>2 DEF Syslog!StopEnds
<1>9. QED  BY <1>5, <1>6, <1>7, <1>8 DEF Syslog!CallerStep

\* A worker that has no character goes on, to nothing or to where it would call.
LEMMA WorkerGoesInv ==
    ASSUME LogInv, NEW w \in Syslog!Worker,
           \/ Syslog!WorkerTest(w) \/ Syslog!WorkerEnter(w) \/ Syslog!WorkerTimesOut(w)
           \/ Syslog!WorkerCutOff(w)
    PROVE  LogInv'
<1>1. Syslog!TypeOK /\ Capturing
  BY DEF LogInv
<1>2. /\ UNCHANGED <<srPc, logger, captured>> /\ sr' \in LogClient /\ sr'.worker = sr.worker
      /\ workers[w].pc \in {"test", "enter", "receive"}
  <2>1. sr \in LogClient
    BY <1>1, LogTypes
  <2>2. QED
    BY <2>1 DEF Syslog!WorkerTest, Syslog!WorkerEnter, Syslog!WorkerTimesOut,
       Syslog!WorkerCutOff, Syslog!Move, LogClient
<1>3. sr.worker = w /\ workers[w].c = 0
      /\ \A v \in Syslog!Worker : v # w => workers[v].pc \in {"none", "done"} /\ workers[v].c = 0
  BY <1>1, <1>2 DEF Capturing
<1>4. CASE \E at \in {"done", "enter", "receive", "test"} : workers' = [workers EXCEPT ![w].pc = at]
  <2>1. PICK at \in {"done", "enter", "receive", "test"} : workers' = [workers EXCEPT ![w].pc = at]
    BY <1>4
  <2>2. /\ workers' \in [Syslog!Worker -> LogThread]
        /\ workers'[w].pc = at /\ workers'[w].c = workers[w].c
        /\ \A v \in Syslog!Worker : v # w => workers'[v] = workers[v]
    BY <1>1, <2>1, LogTypes DEF LogThread
  <2>3. Syslog!TypeOK'
    BY <1>1, <1>2, <2>2, LogTypes, LogTypesNext
  <2>4. Capturing'
    BY <1>1, <1>2, <1>3, <2>2 DEF Capturing
  <2>5. LogKept(logger, workers, captured)'
    BY <1>2, <2>2, LogStays
  <2>6. QED  BY <2>3, <2>4, <2>5 DEF LogInv
<1>5. CASE workers' = [workers EXCEPT ![w] = [pc |-> "call", c |-> Syslog!End]]
  <2>1. /\ Syslog!End \in 0..Syslog!End /\ Syslog!End # 0 /\ Syslog!End \notin Syslog!Char
        /\ 0 \notin Syslog!Char
    BY LogBounds DEF Syslog!End, Syslog!Char
  <2>2. [pc |-> "call", c |-> Syslog!End] \in LogThread
    BY <2>1 DEF LogThread
  <2>3. /\ workers' \in [Syslog!Worker -> LogThread]
        /\ workers'[w].pc = "call" /\ workers'[w].c = Syslog!End
        /\ \A v \in Syslog!Worker : v # w => workers'[v] = workers[v]
    BY <1>1, <1>5, <2>2, LogTypes
  <2>4. Syslog!TypeOK'
    BY <1>1, <1>2, <2>3, LogTypes, LogTypesNext
  <2>5. Capturing'
    BY <1>1, <1>2, <1>3, <2>1, <2>3 DEF Capturing
  <2>6. \A v \in Syslog!Worker : workers'[v].c \notin Syslog!Char /\ workers[v].c = 0
    BY <1>3, <2>1, <2>3
  <2>7. PICK t \in Nat, k \in Nat :
            /\ LogChain(logger.log, logger.sent, CharsOf(captured), t, k)
            /\ \/ k = t
               \/ k = t + 1 /\ \E v \in Syslog!Worker : workers[v].c = k
    BY DEF LogInv, LogKept
  <2>8. k = t
    BY <2>6, <2>7
  <2>9. LogKept(logger', workers', captured')
    BY <1>2, <2>6, <2>7, <2>8 DEF LogKept
  <2>10. QED  BY <2>4, <2>5, <2>9 DEF LogInv, LogKept, CharsOf
<1>6. QED
  BY <1>4, <1>5 DEF Syslog!WorkerTest, Syslog!WorkerEnter, Syslog!WorkerTimesOut,
     Syslog!WorkerCutOff, Syslog!Move

LEMMA WorkerReceivesInv ==
    ASSUME LogInv, NEW w \in Syslog!Worker, Syslog!WorkerReceives(w) PROVE LogInv'
<1> DEFINE x == Head(logger.log)
<1>1. /\ Syslog!TypeOK /\ Capturing /\ UNCHANGED <<sr, srPc, captured>>
      /\ workers[w].pc = "receive" /\ logger.log # << >>
      /\ logger' = [logger EXCEPT !.log = Tail(@)]
      /\ workers' = [workers EXCEPT ![w] = [pc |-> "call", c |-> x]]
  BY DEF LogInv, Syslog!WorkerReceives
<1>2. sr.worker = w /\ workers[w].c = 0
      /\ \A v \in Syslog!Worker : v # w => workers[v].pc \in {"none", "done"} /\ workers[v].c = 0
  BY <1>1 DEF Capturing
<1>3. /\ Tail(logger.log) \in Seq(Syslog!Char) /\ x \in Syslog!Char
      /\ x \in 0..Syslog!End /\ x \in Nat /\ x # 0
  <2>1. Syslog!Char \subseteq Nat \ {0} /\ Syslog!Char \subseteq 0..Syslog!End
    BY LogBounds DEF Syslog!Char, Syslog!End
  <2>2. Tail(logger.log) \in Seq(Syslog!Char) /\ x \in Syslog!Char
    BY <1>1, LogTyped, Rest
  <2>3. QED  BY <2>1, <2>2
<1>4. PICK t \in Nat, k \in Nat :
          /\ LogChain(logger.log, logger.sent, CharsOf(captured), t, k)
          /\ \/ k = t
             \/ k = t + 1 /\ \E v \in Syslog!Worker : workers[v].c = k
  BY DEF LogInv, LogKept
<1>5. k = t
  BY <1>2, <1>4
<1>6. x = k + 1 /\ LogChain(Tail(logger.log), logger.sent, CharsOf(captured), t, k + 1)
  BY <1>1, <1>4, LogTyped, ChainReceives
<1>7. logger' \in LogDevice /\ logger'.log = Tail(logger.log) /\ logger'.sent = logger.sent
  BY <1>1, <1>3, LogTypes DEF LogDevice
<1> HIDE DEF x
<1>8. [pc |-> "call", c |-> x] \in LogThread
  BY <1>3 DEF LogThread
<1>9. /\ workers' \in [Syslog!Worker -> LogThread]
      /\ workers'[w].pc = "call" /\ workers'[w].c = x
      /\ \A v \in Syslog!Worker : v # w => workers'[v] = workers[v]
  BY <1>1, <1>8, LogTypes
<1>10. Syslog!TypeOK'
  BY <1>1, <1>7, <1>9, LogTypes, LogTypesNext
<1>11. Capturing'
  BY <1>1, <1>2, <1>3, <1>9 DEF Capturing
<1>12. LogKept(logger', workers', captured')
  <2>1. k + 1 \in Nat /\ k + 1 = t + 1 /\ workers'[w].c = k + 1
    BY <1>5, <1>6, <1>9
  <2>2. QED  BY <1>1, <1>6, <1>7, <2>1 DEF LogKept
<1>13. QED  BY <1>10, <1>11, <1>12 DEF LogInv, LogKept, CharsOf

LEMMA CharsAppended ==
    ASSUME Syslog!TypeOK, NEW w \in Syslog!Worker, NEW x \in Syslog!Char \cup {Syslog!End}
    PROVE  /\ Append(captured, [by |-> w, c |-> x]) \in LogCalls
           /\ CharsOf(Append(captured, [by |-> w, c |-> x])) = Append(CharsOf(captured), x)
<1> DEFINE said == [by |-> w, c |-> x]
           v == Append(captured, said)
           k == Len(captured) + 1
<1>1. /\ CharsOf(captured) \in Seq(Nat) /\ Len(CharsOf(captured)) = Len(captured)
      /\ Len(captured) \in Nat /\ \A i \in 1..Len(captured) : captured[i].c \in Nat
      /\ x \in Nat /\ said \in [by : Syslog!Worker, c : Syslog!Char \cup {Syslog!End}]
      /\ said.c = x
  BY LogTyped, LogBounds DEF Syslog!Char, Syslog!End
<1>2. /\ v \in LogCalls /\ Len(v) = k /\ v[k] = said
      /\ \A i \in 1..Len(captured) : v[i] = captured[i]
  BY <1>1, LogTypes, Appended DEF LogCalls
<1> HIDE DEF v, said
<1>3. k \in Nat /\ \A i \in 1..k : i \in 1..Len(captured) \/ i = k
  BY <1>1
<1>4. \A i \in 1..k : v[i].c \in Nat
  BY <1>1, <1>2, <1>3
<1>5. /\ Append(CharsOf(captured), x) \in Seq(Nat)
      /\ Len(Append(CharsOf(captured), x)) = k
      /\ Append(CharsOf(captured), x)[k] = x
      /\ \A i \in 1..Len(captured) : Append(CharsOf(captured), x)[i] = captured[i].c
  BY <1>1, Appended DEF CharsOf
<1> HIDE DEF k
<1>6. CharsOf(v) \in Seq(Nat) /\ Len(CharsOf(v)) = k /\ \A i \in 1..k : CharsOf(v)[i] = v[i].c
  <2>1. [i \in 1..k |-> v[i].c] \in Seq(Nat) /\ Len([i \in 1..k |-> v[i].c]) = k
    BY <1>3, <1>4
  <2>2. QED  BY <1>2, <2>1 DEF CharsOf
<1>7. \A i \in 1..k : CharsOf(v)[i] = Append(CharsOf(captured), x)[i]
  BY <1>1, <1>2, <1>3, <1>5, <1>6
<1>8. CharsOf(v) = Append(CharsOf(captured), x)
  BY <1>5, <1>6, <1>7, SeqEqual
<1>9. QED  BY <1>2, <1>8 DEF v, said

LEMMA WorkerCallInv ==
    ASSUME LogInv, NEW w \in Syslog!Worker, Syslog!WorkerCall(w) PROVE LogInv'
<1> DEFINE x == workers[w].c
<1>1. /\ Syslog!TypeOK /\ Capturing /\ UNCHANGED <<sr, srPc, logger>>
      /\ workers[w].pc = "call" /\ x # 0 /\ x \in 0..Syslog!End
      /\ workers' = [workers EXCEPT ![w] = [pc |-> "test", c |-> 0]]
      /\ captured' = Append(captured, [by |-> w, c |-> x])
           \/ (captured' = captured /\ x = Syslog!End)
  BY DEF LogInv, Syslog!WorkerCall, Capturing, Syslog!TypeOK
<1>2. sr.worker = w
      /\ \A v \in Syslog!Worker : v # w => workers[v].pc \in {"none", "done"} /\ workers[v].c = 0
  BY <1>1 DEF Capturing
<1>3. /\ x \in Syslog!Char \cup {Syslog!End} /\ x \in Nat
      /\ MaxChars \in Nat /\ Syslog!End > MaxChars /\ 0 \notin Syslog!Char
      /\ x \in Syslog!Char <=> x <= MaxChars
  BY <1>1, LogBounds DEF Syslog!Char, Syslog!End
<1>4. [pc |-> "test", c |-> 0] \in LogThread
  BY LogBounds DEF LogThread, Syslog!End
<1>5. /\ workers' \in [Syslog!Worker -> LogThread]
      /\ workers'[w].pc = "test" /\ workers'[w].c = 0
      /\ \A v \in Syslog!Worker : v # w => workers'[v] = workers[v]
  BY <1>1, <1>4, LogTypes
<1>6. \A v \in Syslog!Worker : workers'[v].c = 0
  BY <1>2, <1>5
<1> HIDE DEF x
<1>7. /\ captured' \in LogCalls
      /\ \/ CharsOf(captured') = Append(CharsOf(captured), x)
         \/ CharsOf(captured') = CharsOf(captured) /\ x = Syslog!End
  BY <1>1, <1>3, LogTypes, CharsAppended
<1>8. Syslog!TypeOK'
  BY <1>1, <1>5, <1>7, LogTypes, LogTypesNext
<1>9. Capturing'
  BY <1>1, <1>2, <1>5, <1>6 DEF Capturing
<1>10. PICK t \in Nat, k \in Nat :
          /\ LogChain(logger.log, logger.sent, CharsOf(captured), t, k)
          /\ \/ k = t /\ \A v \in Syslog!Worker : workers[v].c \notin Syslog!Char
             \/ k = t + 1 /\ \E v \in Syslog!Worker : workers[v].c = k
  BY DEF LogInv, LogKept
<1>11. LogChain(logger.log, logger.sent, CharsOf(captured'), k, k)
  <2>1. k <= MaxChars
    <3>1. logger.log \in Seq(Nat) /\ logger.sent \in 0..MaxChars
      BY <1>1, LogTyped
    <3>2. PICK n \in Nat, s \in 0..MaxChars : n = Len(logger.log) /\ s = logger.sent
      BY <3>1, LenProperties
    <3>3. s = k + n
      BY <1>10, <3>2 DEF LogChain
    <3>4. QED  BY <1>3, <3>3
  <2>2. CASE k = t /\ x \notin Syslog!Char
    <3>1. x > MaxChars
      BY <1>3, <2>2
    <3>2. LogChain(logger.log, logger.sent, Append(CharsOf(captured), x), k, k)
      BY <1>1, <1>3, <1>10, <2>2, <3>1, LogTyped, ChainCaptures
    <3>3. QED  BY <1>7, <1>10, <2>2, <3>2
  <2>3. CASE k = t + 1 /\ x = k
    <3>1. x # Syslog!End
      BY <1>3, <2>1, <2>3
    <3>2. LogChain(logger.log, logger.sent, Append(CharsOf(captured), x), k, k)
      BY <1>1, <1>10, <2>1, <2>3, LogTyped, ChainCaptures
    <3>3. QED  BY <1>7, <3>1, <3>2
  <2>4. k = t + 1 /\ (\E v \in Syslog!Worker : workers[v].c = k) => x = k
    BY <1>2 DEF x
  <2>5. QED  BY <1>10, <2>2, <2>3, <2>4 DEF x
<1>12. LogKept(logger', workers', captured')
  BY <1>1, <1>3, <1>6, <1>11 DEF LogKept
<1>13. QED  BY <1>8, <1>9, <1>12 DEF LogInv, LogKept, CharsOf

LEMMA LogDeviceInv ==
    ASSUME LogInv, Syslog!DeviceLogs \/ Syslog!DeviceGone PROVE LogInv'
<1>1. Syslog!TypeOK /\ Capturing /\ UNCHANGED <<sr, srPc, workers, captured>>
  BY DEF LogInv, Syslog!DeviceLogs, Syslog!DeviceGone
<1>2. Capturing'
  BY <1>1 DEF Capturing
<1>3. CASE Syslog!DeviceLogs
  <2> DEFINE n == logger.sent + 1
  <2>1. /\ logger' = [logger EXCEPT !.sent = n, !.log = Append(@, n)]
        /\ logger.sent < MaxChars
    BY <1>3 DEF Syslog!DeviceLogs
  <2>2. n \in Syslog!Char /\ n \in 0..MaxChars
    BY <1>1, <2>1, LogTyped, LogBounds DEF Syslog!Char
  <2>3. logger'.log = Append(logger.log, logger.sent + 1) /\ logger'.sent = logger.sent + 1
    BY <1>1, <2>1, LogTypes DEF LogDevice
  <2> HIDE DEF n
  <2>4. Append(logger.log, n) \in Seq(Syslog!Char)
    BY <1>1, <2>2, LogTyped, Appended
  <2>5. logger' \in LogDevice
    BY <1>1, <2>1, <2>2, <2>4, LogTypes DEF LogDevice
  <2>6. Syslog!TypeOK'
    BY <1>1, <2>5, LogTypes, LogTypesNext
  <2>7. PICK t \in Nat, k \in Nat :
          /\ LogChain(logger.log, logger.sent, CharsOf(captured), t, k)
          /\ \/ k = t /\ \A v \in Syslog!Worker : workers[v].c \notin Syslog!Char
             \/ k = t + 1 /\ \E v \in Syslog!Worker : workers[v].c = k
    BY DEF LogInv, LogKept
  <2>8. LogChain(logger'.log, logger'.sent, CharsOf(captured), t, k)
    BY <1>1, <2>3, <2>7, LogTyped, ChainLogs
  <2>9. LogKept(logger', workers', captured')
    BY <1>1, <2>7, <2>8 DEF LogKept
  <2>10. QED  BY <1>2, <2>6, <2>9 DEF LogInv, LogKept, CharsOf
<1>4. CASE Syslog!DeviceGone
  <2>1. logger' = [logger EXCEPT !.up = FALSE]
    BY <1>4 DEF Syslog!DeviceGone
  <2>2. logger' \in LogDevice /\ logger'.log = logger.log /\ logger'.sent = logger.sent
    BY <1>1, <2>1, LogTypes DEF LogDevice
  <2>3. Syslog!TypeOK'
    BY <1>1, <2>2, LogTypes, LogTypesNext
  <2>4. LogKept(logger, workers, captured)'
    BY <1>1, <2>2, LogStays
  <2>5. QED  BY <1>2, <2>3, <2>4 DEF LogInv
<1>5. QED  BY <1>3, <1>4

LEMMA LogServicesInv == ASSUME LogInv, [ServicesNext]_all PROVE LogInv'
<1>1. CASE UNCHANGED srVars
  <2>1. sr' = sr /\ srPc' = srPc /\ workers' = workers /\ logger' = logger /\ captured' = captured
    BY <1>1 DEF srVars
  <2>2. Syslog!TypeOK' /\ Capturing'
    BY <2>1 DEF LogInv, Syslog!TypeOK, Capturing
  <2>3. LogKept(logger, workers, captured)'
    BY <2>1, LogStays
  <2>4. QED  BY <2>2, <2>3 DEF LogInv
<1>2. CASE Syslog!Next
  BY <1>2, LogCallerInv, WorkerGoesInv, WorkerReceivesInv, WorkerCallInv, LogDeviceInv
     DEF Syslog!Next, Syslog!WorkerStep
<1>3. QED  BY <1>1, <1>2 DEF ServicesNext, PlistRuns, SrRuns, ServerRuns, Only, all

LEMMA LogIsWhole == LogInv => Syslog!LogWhole
<1> SUFFICES ASSUME LogInv PROVE Syslog!LogWhole
  OBVIOUS
<1>1. PICK t \in Nat, k \in Nat :
        /\ LogChain(logger.log, logger.sent, CharsOf(captured), t, k)
        /\ \/ k = t /\ \A v \in Syslog!Worker : workers[v].c \notin Syslog!Char
           \/ k = t + 1 /\ \E v \in Syslog!Worker : workers[v].c = k
  BY DEF LogInv, LogKept
<1>2. /\ DOMAIN captured = 1..Len(captured) /\ Len(CharsOf(captured)) = Len(captured)
      /\ \A i \in 1..Len(captured) : CharsOf(captured)[i] = captured[i].c
      /\ \A i \in 1..Len(captured) : captured[i].c \in Nat
      /\ MaxChars \in Nat
  BY LogTyped, LogBounds DEF LogInv, CharsOf
<1>3. PICK n \in Nat, s \in 0..MaxChars : n = Len(logger.log) /\ s = logger.sent
  BY LogTyped, LenProperties DEF LogInv
<1>4. s = k + n /\ t <= k /\ t <= MaxChars
  BY <1>1, <1>2, <1>3 DEF LogChain
<1>5. \A i, j \in DOMAIN captured :
          i < j /\ {captured[i].c, captured[j].c} \subseteq Syslog!Char
              => captured[i].c < captured[j].c
  <2> SUFFICES ASSUME NEW i \in 1..Len(captured), NEW j \in 1..Len(captured), i < j,
                      captured[i].c \in 1..MaxChars, captured[j].c \in 1..MaxChars
               PROVE  captured[i].c < captured[j].c
    BY <1>2 DEF Syslog!Char
  <2>1. CharsOf(captured)[i] <= MaxChars /\ CharsOf(captured)[j] <= MaxChars
    BY <1>2
  <2>2. CharsOf(captured)[i] < CharsOf(captured)[j]
    BY <1>1, <1>2, <2>1 DEF LogChain
  <2>3. QED  BY <1>2, <2>2
<1>6. Syslog!Char \cap {captured[i].c : i \in DOMAIN captured} = 1..t
  <2>1. \A x \in 1..MaxChars : (\E i \in 1..Len(captured) : captured[i].c = x) <=> x <= t
    BY <1>1, <1>2 DEF LogChain
  <2>2. \A x : x \in 1..t <=> x \in 1..MaxChars /\ x <= t
    BY <1>2, <1>4
  <2>3. QED  BY <1>2, <2>1, <2>2 DEF Syslog!Char
<1> DEFINE one == IF \E w \in Syslog!Worker : workers[w].c \in Syslog!Char THEN 1 ELSE 0
<1>7. k = t + one
  <2>1. CASE k = t /\ \A v \in Syslog!Worker : workers[v].c \notin Syslog!Char
    BY <2>1
  <2>2. CASE k = t + 1 /\ \E v \in Syslog!Worker : workers[v].c = k
    <3>1. k = t + 1
      BY <2>2
    <3>2. k \in 1..MaxChars
      BY <1>2, <1>4, <3>1
    <3>3. QED  BY <2>2, <3>2 DEF Syslog!Char
  <2>3. QED  BY <1>1, <2>1, <2>2
<1>8. one \in {0, 1}
  OBVIOUS
<1> HIDE DEF one
<1>9. s - n - one = t
  BY <1>4, <1>7, <1>8
<1>10. 1..(logger.sent - Len(logger.log) - one) = 1..t
  BY <1>3, <1>9
<1>11. QED  BY <1>5, <1>6, <1>10 DEF Syslog!LogWhole, one

\* The log is called back in its order and with no character lost, over however many
\* captures are started and stopped while it arrives.
THEOREM LogCapturedWhole == ServicesSpec => []LogWhole
<1>1. ServicesInit => LogInv
  BY LogInitInv DEF ServicesInit
<1>2. LogInv /\ [ServicesNext]_all => LogInv'
  BY LogServicesInv
<1>3. LogInv => LogWhole
  BY LogIsWhole DEF LogWhole
<1>4. QED  BY <1>1, <1>2, <1>3, PTL DEF ServicesSpec

-----------------------------------------------------------------------------
(* IdeviceInstaller.                                                       *)

ToolMain == [pc : {"connect", "request", "installing", "wait", "wait note", "copy",
                   "read", "copied", "left"},
             mode : Installer!Mode, copy : BOOLEAN, remove : BOOLEAN, uninstall : BOOLEAN,
             turn : Installer!Turn, i : 0..Patience, fsize : 0..ArchiveSize,
             total : 0..ArchiveSize, res : {0, -1}]

ToolFlags == [wait_for_op_complete : BOOLEAN, notification_expected : BOOLEAN,
              op_completed : BOOLEAN, err_occured : BOOLEAN, notified : BOOLEAN]

ToolOps == [mode : Installer!Mode, state : {"running", "complete", "failed"},
            told : 0..MaxProgress]

ToolSaid == Seq({"Progress", "Complete", "Error"})

ToolDevice == [up : BOOLEAN, archive : 0..ArchiveSize, ops : Seq(ToolOps),
               says : [Installer!Turn -> ToolSaid]]

\* The last status of an operation is on its way.
Saying(d) ==
    \E t \in Installer!Turn : \E i \in 1..Len(d.says[t]) : d.says[t][i] = "Complete"

\* The one operation so far makes an archive, and it is whole when it is said to be.
Archiving(m, f, d) ==
    m.turn = 1 /\ m.mode = "archive" =>
        /\ \A t \in 1..Len(d.ops) : d.ops[t].mode = "archive"
        /\ f.op_completed \/ Saying(d) => d.archive = ArchiveSize

\* Why a wait has ended.
WaitOver(m, f) ==
    f.op_completed \/ f.err_occured \/ f.notified \/ m.i = Patience

\* What is known at the places of main: how long a wait was, what a copy began with.
InPlace(m, f) ==
    /\ m.turn = 2 => m.mode = "remove"
    /\ m.pc = "installing" => m.mode = "install"
    /\ m.pc \in {"copy", "read", "copied"} => m.turn = 1 /\ m.mode = "archive"
    /\ m.mode = "archive" /\ m.pc = "wait" => f.wait_for_op_complete
    /\ m.mode = "archive" /\ m.pc \in {"wait note", "copy"} => WaitOver(m, f)
    /\ m.pc \in {"read", "copied"} => m.fsize = ArchiveSize \/ m.i = Patience \/ f.notified
    /\ m.turn = 2 /\ m.pc \in {"connect", "request"} =>
           m.total = ArchiveSize \/ m.i = Patience \/ f.notified

ToolInv == Installer!TypeOK /\ Archiving(tool, flags, device) /\ InPlace(tool, flags)

LEMMA ToolBounds ==
    /\ Patience \in Nat /\ NotePatience \in Nat /\ ArchiveSize \in Nat /\ MaxProgress \in Nat
    /\ NotePatience <= Patience
  BY ComponentsAssumption DEF ComponentsAssumption, Installer!ToolAssumption

LEMMA ToolZeros ==
    0 \in 0..Patience /\ 0 \in 0..ArchiveSize /\ 0 \in 0..MaxProgress
  BY ToolBounds

LEMMA ToolTypes ==
    Installer!TypeOK <=>
        /\ tool \in ToolMain /\ flags \in ToolFlags
        /\ updater \in [Installer!Turn -> {"none", "runs", "done"}]
        /\ device \in ToolDevice
  BY DEF Installer!TypeOK, ToolMain, ToolFlags, ToolOps, ToolSaid, ToolDevice

LEMMA ToolNext ==
    ASSUME tool' \in ToolMain, flags' \in ToolFlags, device' \in ToolDevice,
           updater' \in [Installer!Turn -> {"none", "runs", "done"}],
           Archiving(tool', flags', device'), InPlace(tool', flags')
    PROVE  ToolInv'
  BY DEF Installer!TypeOK, ToolMain, ToolFlags, ToolOps, ToolSaid, ToolDevice, ToolInv,
     Archiving, InPlace, Saying, WaitOver

LEMMA ToolInitInv == Installer!Init => ToolInv
<1> SUFFICES ASSUME Installer!Init PROVE ToolInv
  OBVIOUS
<1>1. /\ 0 \in 0..Patience /\ 0 \in 0..ArchiveSize /\ 1 \in Installer!Turn
      /\ << >> \in ToolSaid /\ << >> \in Seq(ToolOps) /\ Len(<< >>) = 0
  BY ToolBounds DEF Installer!Turn, ToolSaid
<1>2. PICK mode \in Installer!Mode, copy \in BOOLEAN, remove \in BOOLEAN, uninstall \in BOOLEAN :
          tool = [pc |-> "connect", mode |-> mode, copy |-> copy, remove |-> remove,
                  uninstall |-> uninstall, turn |-> 1, i |-> 0, fsize |-> 0,
                  total |-> 0, res |-> 0]
  BY DEF Installer!Init
<1>3. tool \in ToolMain
  BY <1>1, <1>2 DEF ToolMain
<1>4. flags \in ToolFlags /\ updater \in [Installer!Turn -> {"none", "runs", "done"}]
  BY DEF Installer!Init, ToolFlags
<1>5. device \in ToolDevice
  BY <1>1 DEF Installer!Init, ToolDevice
<1>6. Installer!TypeOK
  BY <1>3, <1>4, <1>5, ToolTypes
<1>7. Archiving(tool, flags, device)
  BY <1>1 DEF Installer!Init, Archiving, Saying
<1>8. InPlace(tool, flags)
  BY <1>2 DEF InPlace
<1>9. QED  BY <1>6, <1>7, <1>8 DEF ToolInv

-----------------------------------------------------------------------------
\* The device goes on with an operation.
LEMMA ToolDeviceGoes ==
    ASSUME ToolInv, tool' = tool, flags' = flags, updater' = updater, device' \in ToolDevice,
           Len(device'.ops) = Len(device.ops),
           \A t \in 1..Len(device.ops) : device'.ops[t].mode = device.ops[t].mode,
           (\A t \in 1..Len(device.ops) : device.ops[t].mode = "archive")
             /\ (flags.op_completed \/ Saying(device) => device.archive = ArchiveSize)
             => (flags.op_completed \/ Saying(device') => device'.archive = ArchiveSize)
    PROVE  ToolInv'
<1>1. tool \in ToolMain /\ flags \in ToolFlags /\ InPlace(tool, flags)
      /\ updater \in [Installer!Turn -> {"none", "runs", "done"}]
  BY ToolTypes DEF ToolInv
<1>2. Archiving(tool, flags, device')
  BY DEF ToolInv, Archiving
<1>3. QED  BY <1>1, <1>2, ToolNext

\* A status is added to those on their way.
LEMMA ToolSays ==
    ASSUME ToolInv, NEW t \in Installer!Turn, NEW s \in {"Progress", "Complete", "Error"},
           NEW d \in ToolDevice, d.says = device.says
    PROVE  /\ Installer!Say(d, t, s) \in ToolDevice
           /\ Installer!Say(d, t, s).ops = d.ops /\ Installer!Say(d, t, s).archive = d.archive
           /\ Saying(Installer!Say(d, t, s)) => Saying(device) \/ s = "Complete"
<1> DEFINE q == device.says[t]
           v == Append(q, s)
           w == [device.says EXCEPT ![t] = v]
           e == Installer!Say(d, t, s)
<1>1. device \in ToolDevice /\ q \in ToolSaid
  BY ToolTypes DEF ToolInv, ToolDevice
<1>2. v \in ToolSaid /\ \A i \in 1..Len(v) : v[i] = s \/ (i \in 1..Len(q) /\ v[i] = q[i])
  BY <1>1, Appended, AppendedItems DEF ToolSaid
<1>3. e = [d EXCEPT !.says = w]
  BY DEF Installer!Say
<1>4. w \in [Installer!Turn -> ToolSaid]
  BY <1>1, <1>2 DEF ToolDevice
<1> HIDE DEF v, q
<1>5. w[t] = v /\ \A u \in Installer!Turn : u # t => w[u] = device.says[u]
  BY <1>1 DEF ToolDevice
<1> HIDE DEF w, e
<1>6. e \in ToolDevice /\ e.ops = d.ops /\ e.archive = d.archive /\ e.says = w
  BY <1>3, <1>4 DEF ToolDevice
<1>7. Saying(e) => Saying(device) \/ s = "Complete"
  BY <1>2, <1>5, <1>6 DEF Saying, q
<1>8. QED  BY <1>6, <1>7 DEF e

\* One operation is changed.
LEMMA ToolOpChanged ==
    ASSUME ToolInv, NEW t \in 1..Len(device.ops), NEW changed \in ToolOps,
           changed.mode = device.ops[t].mode
    PROVE  /\ [device.ops EXCEPT ![t] = changed] \in Seq(ToolOps)
           /\ Len([device.ops EXCEPT ![t] = changed]) = Len(device.ops)
           /\ \A u \in 1..Len(device.ops) :
                 [device.ops EXCEPT ![t] = changed][u].mode = device.ops[u].mode
<1>1. device.ops \in Seq(ToolOps)
  BY ToolTypes DEF ToolInv, ToolDevice
<1>2. t \in 1..Len(device.ops) /\ DOMAIN device.ops = 1..Len(device.ops)
  BY <1>1, LenProperties
<1>3. QED  BY <1>1, <1>2, ExceptSeq

LEMMA ToolRunning ==
    ASSUME ToolInv, NEW t \in Installer!Turn, Installer!Running(t)
    PROVE  /\ t \in 1..Len(device.ops) /\ device.ops[t] \in ToolOps
           /\ device.ops \in Seq(ToolOps) /\ device \in ToolDevice
<1>1. device \in ToolDevice /\ device.ops \in Seq(ToolOps)
  BY ToolTypes DEF ToolInv, ToolDevice
<1>2. t \in 1..Len(device.ops)
  BY <1>1, LenProperties DEF Installer!Running
<1>3. QED  BY <1>1, <1>2, ElementOfSeq

LEMMA ToolReportsInv ==
    ASSUME ToolInv, NEW t \in Installer!Turn, Installer!DeviceReports(t) PROVE ToolInv'
<1> DEFINE n == device.ops[t].told + 1
           changed == [device.ops[t] EXCEPT !.told = n]
           d == [device EXCEPT !.ops = [device.ops EXCEPT ![t] = changed]]
<1>1. /\ Installer!Running(t) /\ UNCHANGED <<tool, flags, updater>>
      /\ device.ops[t].told < MaxProgress
      /\ device' = Installer!Say([device EXCEPT !.ops[t].told = @ + 1], t, "Progress")
  BY DEF Installer!DeviceReports
<1>2. /\ t \in 1..Len(device.ops) /\ device.ops[t] \in ToolOps
      /\ device.ops \in Seq(ToolOps) /\ device \in ToolDevice
  BY <1>1, ToolRunning
<1>3. n \in 0..MaxProgress
  BY <1>1, <1>2, ToolBounds DEF ToolOps
<1>4. [device EXCEPT !.ops[t].told = @ + 1] = d
  BY <1>2
<1> HIDE DEF n
<1>5. changed \in ToolOps /\ changed.mode = device.ops[t].mode
  BY <1>2, <1>3 DEF ToolOps
<1> HIDE DEF changed
<1>6. /\ d \in ToolDevice /\ d.ops = [device.ops EXCEPT ![t] = changed] /\ d.says = device.says
      /\ d.archive = device.archive
  BY <1>2, <1>5, ToolOpChanged DEF ToolDevice
<1> HIDE DEF d
<1>7. /\ device' \in ToolDevice /\ device'.ops = [device.ops EXCEPT ![t] = changed]
      /\ device'.archive = device.archive /\ (Saying(device') => Saying(device))
  BY <1>1, <1>4, <1>6, ToolSays
<1>8. /\ Len(device'.ops) = Len(device.ops)
      /\ \A u \in 1..Len(device.ops) : device'.ops[u].mode = device.ops[u].mode
  BY <1>2, <1>5, <1>7, ToolOpChanged
<1>9. tool' = tool /\ flags' = flags /\ updater' = updater
  BY <1>1
<1>10. QED  BY <1>7, <1>8, <1>9, ToolDeviceGoes

LEMMA ToolArchivesInv ==
    ASSUME ToolInv, NEW t \in Installer!Turn, Installer!DeviceArchives(t) PROVE ToolInv'
<1> DEFINE n == device.archive + 1
<1>1. /\ UNCHANGED <<tool, flags, updater>> /\ device.archive < ArchiveSize
      /\ device' = [device EXCEPT !.archive = n] /\ device \in ToolDevice
  BY ToolTypes DEF ToolInv, Installer!DeviceArchives
<1>2. n \in 0..ArchiveSize /\ device.archive # ArchiveSize
  BY <1>1, ToolBounds DEF ToolDevice
<1> HIDE DEF n
<1>3. device' \in ToolDevice /\ device'.ops = device.ops /\ device'.says = device.says
  BY <1>1, <1>2 DEF ToolDevice
<1>4. Saying(device') => Saying(device)
  BY <1>3 DEF Saying
<1>5. QED  BY <1>1, <1>2, <1>3, <1>4, ToolDeviceGoes

LEMMA ToolEndsInv ==
    ASSUME ToolInv, NEW t \in Installer!Turn,
           Installer!DeviceCompletes(t) \/ Installer!DeviceFails(t)
    PROVE  ToolInv'
<1>1. PICK s \in {"Complete", "Error"}, state \in {"complete", "failed"},
           left \in {0, device.archive} :
          /\ device' = Installer!Say([device EXCEPT !.ops[t].state = state, !.archive = left],
                                     t, s)
          /\ s = "Complete" /\ device.ops[t].mode = "archive" => device.archive = ArchiveSize
          /\ device.ops[t].mode # "remove" => left = device.archive
          /\ Installer!Running(t) /\ UNCHANGED <<tool, flags, updater>>
  <2>1. CASE Installer!DeviceCompletes(t)
    BY <2>1 DEF Installer!DeviceCompletes
  <2>2. CASE Installer!DeviceFails(t)
    <3>1. device \in ToolDevice
      BY ToolTypes DEF ToolInv
    <3>2. [device EXCEPT !.ops[t].state = "failed"]
            = [device EXCEPT !.ops[t].state = "failed", !.archive = device.archive]
      BY <3>1 DEF ToolDevice
    <3>3. QED  BY <2>2, <3>2 DEF Installer!DeviceFails
  <2>3. QED  BY <2>1, <2>2
<1>2. /\ t \in 1..Len(device.ops) /\ device.ops[t] \in ToolOps
      /\ device.ops \in Seq(ToolOps) /\ device \in ToolDevice
  BY <1>1, ToolRunning
<1> DEFINE changed == [device.ops[t] EXCEPT !.state = state]
           d == [device EXCEPT !.ops = [device.ops EXCEPT ![t] = changed], !.archive = left]
<1>3. [device EXCEPT !.ops[t].state = state, !.archive = left] = d
  BY <1>2
<1>4. changed \in ToolOps /\ changed.mode = device.ops[t].mode
  BY <1>2 DEF ToolOps
<1>5. left \in 0..ArchiveSize
  BY <1>2, ToolBounds DEF ToolDevice
<1> HIDE DEF changed
<1>6. /\ d \in ToolDevice /\ d.ops = [device.ops EXCEPT ![t] = changed] /\ d.says = device.says
      /\ d.archive = left
  BY <1>2, <1>4, <1>5, ToolOpChanged DEF ToolDevice
<1> HIDE DEF d
<1>7a. device' = Installer!Say(d, t, s) /\ s \in {"Progress", "Complete", "Error"}
  BY <1>1, <1>3
<1>7. /\ device' \in ToolDevice /\ device'.ops = [device.ops EXCEPT ![t] = changed]
      /\ device'.archive = left /\ (Saying(device') => Saying(device) \/ s = "Complete")
  BY <1>6, <1>7a, ToolSays
<1>8. /\ Len(device'.ops) = Len(device.ops)
      /\ \A u \in 1..Len(device.ops) : device'.ops[u].mode = device.ops[u].mode
  BY <1>2, <1>4, <1>7, ToolOpChanged
<1>9. tool' = tool /\ flags' = flags /\ updater' = updater
  BY <1>1
<1>10. ASSUME \A u \in 1..Len(device.ops) : device.ops[u].mode = "archive",
              flags.op_completed \/ Saying(device) => device.archive = ArchiveSize,
              flags.op_completed \/ Saying(device')
       PROVE  device'.archive = ArchiveSize
  <2>1. device.ops[t].mode = "archive"
    BY <1>2, <1>10
  <2>2. device'.archive = device.archive
    BY <1>1, <1>7, <2>1
  <2>3. QED  BY <1>1, <1>7, <1>9, <1>10, <2>1, <2>2
<1>11. QED  BY <1>7, <1>8, <1>9, <1>10, ToolDeviceGoes

LEMMA ToolGoneInv == ASSUME ToolInv, Installer!DeviceGone PROVE ToolInv'
<1>1. /\ UNCHANGED <<tool, flags, updater>> /\ device \in ToolDevice
      /\ device' = [device EXCEPT !.up = FALSE]
  BY ToolTypes DEF ToolInv, Installer!DeviceGone
<1>2. /\ device' \in ToolDevice /\ device'.ops = device.ops /\ device'.says = device.says
      /\ device'.archive = device.archive
  BY <1>1 DEF ToolDevice
<1>3. Saying(device') <=> Saying(device)
  BY <1>2 DEF Saying
<1>4. QED  BY <1>1, <1>2, <1>3, ToolDeviceGoes

-----------------------------------------------------------------------------
\* The threads that hear of the device.
LEMMA ToolNotifierInv == ASSUME ToolInv, Installer!Notifier PROVE ToolInv'
<1>1. /\ tool' = tool /\ updater' = updater /\ device' = device /\ flags \in ToolFlags
      /\ flags' = [flags EXCEPT !.notified = TRUE]
  BY ToolTypes DEF ToolInv, Installer!Notifier
<1>2. /\ flags' \in ToolFlags /\ flags'.op_completed = flags.op_completed /\ flags'.notified
      /\ flags'.wait_for_op_complete = flags.wait_for_op_complete
  BY <1>1 DEF ToolFlags
<1>3. Archiving(tool', flags', device') /\ InPlace(tool', flags')
  BY <1>1, <1>2 DEF ToolInv, Archiving, InPlace, WaitOver
<1>4. QED  BY <1>1, <1>2, <1>3, ToolNext, ToolTypes DEF ToolInv

LEMMA ToolStatusInv ==
    ASSUME ToolInv, NEW t \in Installer!Turn, Installer!StatusCb(t) PROVE ToolInv'
<1> DEFINE q == device.says[t]
           w == [device.says EXCEPT ![t] = Tail(q)]
<1>1. /\ tool' = tool /\ q # << >> /\ device' = [device EXCEPT !.says[t] = Tail(@)]
      /\ flags' = [flags EXCEPT !.op_completed = @ \/ Head(q) = "Complete",
                                !.err_occured = @ \/ Head(q) = "Error"]
      /\ updater' = [updater EXCEPT ![t] = IF Head(q) = "Progress" THEN @ ELSE "done"]
  BY DEF Installer!StatusCb
<1>2. /\ device \in ToolDevice /\ q \in ToolSaid /\ flags \in ToolFlags
      /\ tool \in ToolMain /\ updater \in [Installer!Turn -> {"none", "runs", "done"}]
  BY ToolTypes DEF ToolInv, ToolDevice
<1>3. /\ Tail(q) \in ToolSaid /\ 1 \in 1..Len(q) /\ Head(q) = q[1]
      /\ \A i \in 1..Len(Tail(q)) : i + 1 \in 1..Len(q) /\ Tail(q)[i] = q[i + 1]
  BY <1>1, <1>2 DEF ToolSaid
<1>4. device' = [device EXCEPT !.says = w] /\ w \in [Installer!Turn -> ToolSaid]
  BY <1>1, <1>2, <1>3 DEF ToolDevice
<1>5. w[t] = Tail(q) /\ \A u \in Installer!Turn : u # t => w[u] = device.says[u]
  BY <1>2 DEF ToolDevice
<1> HIDE DEF w
<1>6. /\ device' \in ToolDevice /\ device'.ops = device.ops /\ device'.says = w
      /\ device'.archive = device.archive
  BY <1>2, <1>4 DEF ToolDevice
<1>7. Saying(device') => Saying(device)
  <2>1. SUFFICES ASSUME NEW u \in Installer!Turn, NEW i \in 1..Len(device'.says[u]),
                        device'.says[u][i] = "Complete"
                 PROVE  Saying(device)
    BY DEF Saying
  <2>2. CASE u = t
    <3>1. i \in 1..Len(Tail(q)) /\ Tail(q)[i] = "Complete"
      BY <1>5, <1>6, <2>1, <2>2
    <3>2. i + 1 \in 1..Len(q) /\ q[i + 1] = "Complete"
      BY <1>3, <3>1
    <3>3. QED  BY <3>2 DEF Saying
  <2>3. CASE u # t
    BY <1>5, <1>6, <2>1, <2>3 DEF Saying
  <2>4. QED  BY <2>2, <2>3
<1>8. Head(q) = "Complete" => Saying(device)
  BY <1>3 DEF Saying
<1>9. /\ flags' \in ToolFlags /\ flags'.notified = flags.notified
      /\ flags'.wait_for_op_complete = flags.wait_for_op_complete
      /\ flags.op_completed => flags'.op_completed
      /\ flags.err_occured => flags'.err_occured
      /\ flags'.op_completed => flags.op_completed \/ Head(q) = "Complete"
  BY <1>1, <1>2 DEF ToolFlags
<1>10. updater' \in [Installer!Turn -> {"none", "runs", "done"}]
  BY <1>1, <1>2
<1>11. Archiving(tool', flags', device')
  BY <1>1, <1>6, <1>7, <1>8, <1>9 DEF ToolInv, Archiving
<1>12. InPlace(tool', flags')
  BY <1>1, <1>9 DEF ToolInv, InPlace, WaitOver
<1>13. QED  BY <1>1, <1>2, <1>6, <1>9, <1>10, <1>11, <1>12, ToolNext

LEMMA ToolCutOffInv ==
    ASSUME ToolInv, NEW t \in Installer!Turn, Installer!UpdaterCutOff(t) PROVE ToolInv'
<1>1. /\ tool' = tool /\ flags' = flags /\ device' = device
      /\ updater' = [updater EXCEPT ![t] = "done"]
      /\ updater \in [Installer!Turn -> {"none", "runs", "done"}]
  BY ToolTypes DEF ToolInv, Installer!UpdaterCutOff
<1>2. updater' \in [Installer!Turn -> {"none", "runs", "done"}]
  BY <1>1
<1>3. QED  BY <1>1, <1>2, ToolNext, ToolTypes DEF ToolInv

-----------------------------------------------------------------------------
\* A step of main by which no place is reached that something is known of.
LEMMA ToolMoves ==
    ASSUME ToolInv, flags' = flags, updater' = updater, device' = device,
           tool' \in ToolMain, tool'.mode = tool.mode, tool'.turn = tool.turn,
           InPlace(tool', flags)
    PROVE  ToolInv'
<1>1. Archiving(tool', flags', device')
  BY DEF ToolInv, Archiving
<1>2. QED  BY <1>1, ToolNext, ToolTypes DEF ToolInv

LEMMA ToolLeaves ==
    ASSUME ToolInv, NEW res \in {0, -1}, Installer!Leave(res)
    PROVE  /\ tool' \in ToolMain /\ tool'.mode = tool.mode /\ tool'.turn = tool.turn
           /\ \A f : InPlace(tool', f)
<1>1. tool \in ToolMain /\ tool' = [tool EXCEPT !.pc = "left", !.res = res]
  BY ToolTypes DEF ToolInv, Installer!Leave
<1>2. tool' \in ToolMain /\ tool'.mode = tool.mode /\ tool'.turn = tool.turn
      /\ tool'.pc = "left"
  BY <1>1 DEF ToolMain
<1>3. QED  BY <1>2 DEF ToolInv, InPlace

LEMMA ToolGoto ==
    ASSUME ToolInv, NEW place \in {"connect", "request", "installing", "wait", "wait note",
                                   "copy", "read", "copied", "left"},
           Installer!Goto(place)
    PROVE  /\ tool' \in ToolMain /\ tool'.pc = place /\ tool'.mode = tool.mode
           /\ tool'.turn = tool.turn /\ tool'.i = tool.i /\ tool'.fsize = tool.fsize
           /\ tool'.total = tool.total
  BY ToolTypes DEF ToolInv, Installer!Goto, ToolMain

LEMMA ToolConnectInv == ASSUME ToolInv, Installer!Connect PROVE ToolInv'
<1>1. /\ tool.pc = "connect" /\ updater' = updater /\ device' = device /\ flags \in ToolFlags
  BY ToolTypes DEF ToolInv, Installer!Connect
<1>2. CASE Installer!Goto("request")
           /\ flags' = [flags EXCEPT !.notification_expected = FALSE]
  <2>1. /\ tool' \in ToolMain /\ tool'.pc = "request" /\ tool'.mode = tool.mode
        /\ tool'.turn = tool.turn /\ tool'.i = tool.i /\ tool'.total = tool.total
    BY <1>2, ToolGoto
  <2>2. /\ flags' \in ToolFlags /\ flags'.op_completed = flags.op_completed
        /\ flags'.notified = flags.notified
    BY <1>1, <1>2 DEF ToolFlags
  <2>3. Archiving(tool', flags', device') /\ InPlace(tool', flags')
    BY <1>1, <2>1, <2>2 DEF ToolInv, Archiving, InPlace
  <2>4. QED  BY <1>1, <2>1, <2>2, <2>3, ToolNext, ToolTypes DEF ToolInv
<1>3. CASE Installer!Leave(-1) /\ flags' = flags
  BY <1>1, <1>3, ToolLeaves, ToolMoves
<1>4. QED  BY <1>2, <1>3 DEF Installer!Connect

LEMMA ToolNotPreparedInv == ASSUME ToolInv, Installer!NotPrepared PROVE ToolInv'
<1>1. Installer!Leave(-1) /\ flags' = flags /\ updater' = updater /\ device' = device
  BY DEF Installer!NotPrepared
<1>2. QED  BY <1>1, ToolLeaves, ToolMoves

\* A command becomes an operation of the device.
LEMMA ToolOrdered ==
    ASSUME ToolInv
    PROVE  /\ Installer!Ordered \in ToolDevice /\ Installer!Ordered.says = device.says
           /\ Installer!Ordered.archive = device.archive
           /\ \A f : Archiving(tool, f, device) => Archiving(tool, f, Installer!Ordered)
<1> DEFINE new == [mode |-> tool.mode, state |-> "running", told |-> 0]
           q == Append(device.ops, new)
           e == Installer!Ordered
<1>1. device \in ToolDevice /\ device.ops \in Seq(ToolOps) /\ tool \in ToolMain
  BY ToolTypes DEF ToolInv, ToolDevice
<1>2. new \in ToolOps
  BY <1>1, ToolZeros DEF ToolMain, ToolOps
<1>3. new.mode = tool.mode
  OBVIOUS
<1> HIDE DEF new
<1>4. /\ q \in Seq(ToolOps)
      /\ \A i \in 1..Len(q) : q[i] = new \/ (i \in 1..Len(device.ops) /\ q[i] = device.ops[i])
  BY <1>1, <1>2, Appended, AppendedItems
<1>5. e = [device EXCEPT !.ops = q]
  BY DEF Installer!Ordered, new
<1> HIDE DEF q, e
<1>6. e \in ToolDevice /\ e.ops = q /\ e.says = device.says /\ e.archive = device.archive
  BY <1>1, <1>4, <1>5 DEF ToolDevice
<1>7. Saying(e) <=> Saying(device)
  BY <1>6 DEF Saying
<1>8. \A f : Archiving(tool, f, device) => Archiving(tool, f, e)
  BY <1>3, <1>4, <1>6, <1>7 DEF Archiving
<1>9. QED  BY <1>6, <1>8 DEF e

LEMMA ToolOrders ==
    ASSUME ToolInv, device' \in {device, Installer!Ordered}, flags' \in ToolFlags,
           flags'.op_completed = flags.op_completed,
           tool'.mode = tool.mode, tool'.turn = tool.turn
    PROVE  device' \in ToolDevice /\ Archiving(tool', flags', device')
<1>1. device' \in ToolDevice
  BY ToolOrdered, ToolTypes DEF ToolInv
<1>2. Archiving(tool, flags, device')
  BY ToolOrdered DEF ToolInv
<1>3. QED  BY <1>1, <1>2 DEF Archiving

LEMMA ToolRequestInv == ASSUME ToolInv, Installer!Request PROVE ToolInv'
<1>1. /\ tool.pc = "request" /\ tool' = [tool EXCEPT !.pc = "wait", !.i = 0]
      /\ tool \in ToolMain /\ flags \in ToolFlags /\ flags' = Installer!Waits
      /\ updater \in [Installer!Turn -> {"none", "runs", "done"}]
      /\ device' \in {device, Installer!Ordered}
      /\ updater' \in {updater, [updater EXCEPT ![tool.turn] = "runs"]}
      /\ tool.mode # "install"
  BY ToolTypes DEF ToolInv, Installer!Request
<1>2. /\ tool' \in ToolMain /\ tool'.pc = "wait" /\ tool'.mode = tool.mode
      /\ tool'.turn = tool.turn
  BY <1>1, ToolZeros DEF ToolMain
<1>3. updater' \in [Installer!Turn -> {"none", "runs", "done"}]
  BY <1>1
<1>4. /\ flags' \in ToolFlags /\ flags'.wait_for_op_complete
      /\ flags'.op_completed = flags.op_completed
  <2>1. PICK b : flags' = [flags EXCEPT !.wait_for_op_complete = TRUE,
                                        !.notification_expected = b]
                 /\ b \in BOOLEAN
    <3>1. tool.mode \in {"upgrade", "restore", "archive", "uninstall", "remove"}
      BY <1>1 DEF ToolMain, Installer!Mode
    <3>2. flags.notification_expected \in BOOLEAN /\ tool.uninstall \in BOOLEAN
      BY <1>1 DEF ToolFlags, ToolMain
    <3>3. QED  BY <1>1, <3>1, <3>2 DEF Installer!Waits
  <2>2. QED  BY <1>1, <2>1 DEF ToolFlags
<1>5. device' \in ToolDevice /\ Archiving(tool', flags', device')
  BY <1>1, <1>2, <1>4, ToolOrders
<1>6. InPlace(tool', flags')
  BY <1>2, <1>4 DEF ToolInv, InPlace
<1>7. QED  BY <1>2, <1>3, <1>4, <1>5, <1>6, ToolNext

LEMMA ToolInstallInv == ASSUME ToolInv, Installer!Install PROVE ToolInv'
<1>1. /\ tool.mode = "install" /\ device' = Installer!Ordered /\ Installer!Goto("installing")
      /\ flags' = flags /\ updater' = updater
  BY DEF Installer!Install
<1>2. /\ tool' \in ToolMain /\ tool'.pc = "installing" /\ tool'.mode = tool.mode
      /\ tool'.turn = tool.turn
  BY <1>1, ToolGoto
<1>3. flags' \in ToolFlags /\ updater' \in [Installer!Turn -> {"none", "runs", "done"}]
  BY <1>1, ToolTypes DEF ToolInv
<1>4. device' \in ToolDevice /\ Archiving(tool', flags', device')
  BY <1>1, <1>2, <1>3, ToolOrders
<1>5. InPlace(tool', flags')
  BY <1>1, <1>2 DEF ToolInv, InPlace
<1>6. QED  BY <1>2, <1>3, <1>4, <1>5, ToolNext

LEMMA ToolInstalledInv == ASSUME ToolInv, Installer!Installed PROVE ToolInv'
<1>1. /\ tool.pc = "installing" /\ updater' = updater /\ device' = device /\ tool \in ToolMain
      /\ flags' = [flags EXCEPT !.wait_for_op_complete = FALSE,
                                !.notification_expected = TRUE]
      /\ flags \in ToolFlags
      /\ tool' = [tool EXCEPT !.pc = "wait", !.i = 0] \/ Installer!Leave(0)
  BY ToolTypes DEF ToolInv, Installer!Installed
<1>2. tool.mode = "install"
  BY <1>1 DEF ToolInv, InPlace
<1>3. flags' \in ToolFlags
  BY <1>1 DEF ToolFlags
<1>4. /\ tool' \in ToolMain /\ tool'.mode = tool.mode /\ tool'.turn = tool.turn
      /\ tool'.pc \in {"wait", "left"}
  BY <1>1, ToolZeros DEF ToolMain, Installer!Leave
<1>5. Archiving(tool', flags', device') /\ InPlace(tool', flags')
  BY <1>2, <1>4 DEF ToolInv, Archiving, InPlace
<1>6. QED  BY <1>1, <1>3, <1>4, <1>5, ToolNext, ToolTypes DEF ToolInv

LEMMA ToolWaitInv == ASSUME ToolInv, Installer!Wait PROVE ToolInv'
<1>1. flags' = flags /\ updater' = updater /\ device' = device
  BY DEF Installer!Wait
<1>2. tool \in ToolMain /\ tool.i \in 0..Patience /\ flags \in ToolFlags
  BY ToolTypes DEF ToolInv, ToolMain
<1>3. CASE /\ tool' = [tool EXCEPT !.i = @ + 1]
           /\ \/ tool.pc = "wait" /\ Installer!WaitsForEnd
              \/ tool.pc = "wait note" /\ Installer!WaitsForNote
  <2> DEFINE n == tool.i
  <2>1. n \in 0..Patience /\ (n < Patience \/ n < NotePatience)
    BY <1>2, <1>3 DEF Installer!WaitsForEnd, Installer!WaitsForNote
  <2> HIDE DEF n
  <2>2. n + 1 \in 0..Patience /\ n # Patience
    BY <2>1, ToolBounds
  <2>3. /\ tool' \in ToolMain /\ tool'.mode = tool.mode /\ tool'.turn = tool.turn
        /\ tool'.pc = tool.pc
    BY <1>2, <1>3, <2>2 DEF ToolMain, n
  <2>4. tool.i # Patience
    BY <2>2 DEF n
  <2>5. InPlace(tool', flags)
    BY <1>3, <2>3, <2>4 DEF ToolInv, InPlace, WaitOver
  <2>6. QED  BY <1>1, <2>3, <2>5, ToolMoves
<1>4. CASE tool.pc = "wait" /\ ~Installer!WaitsForEnd /\ Installer!Goto("wait note")
  <2>1. /\ tool' \in ToolMain /\ tool'.pc = "wait note" /\ tool'.mode = tool.mode
        /\ tool'.turn = tool.turn /\ tool'.i = tool.i
    BY <1>4, ToolGoto
  <2> DEFINE n == tool.i
  <2>2. n \in 0..Patience
    BY <1>2
  <2>3. /\ flags.wait_for_op_complete => flags.op_completed \/ flags.err_occured
                                         \/ flags.notified \/ ~(n < Patience)
    BY <1>4 DEF Installer!WaitsForEnd
  <2> HIDE DEF n
  <2>4. ~(n < Patience) => n = Patience
    BY <2>2, ToolBounds
  <2>5. flags.wait_for_op_complete => WaitOver(tool, flags)
    BY <2>3, <2>4 DEF WaitOver, n
  <2>6. InPlace(tool', flags)
    BY <1>4, <2>1, <2>5 DEF ToolInv, InPlace, WaitOver
  <2>7. QED  BY <1>1, <2>1, <2>6, ToolMoves
<1>5. CASE tool.pc = "wait note" /\ Installer!Goto(Installer!AfterWait)
  <2>1. /\ Installer!AfterWait \in {"copy", "left"}
        /\ Installer!AfterWait = "copy" => tool.mode = "archive"
    BY DEF Installer!AfterWait
  <2>2. /\ tool' \in ToolMain /\ tool'.pc = Installer!AfterWait /\ tool'.mode = tool.mode
        /\ tool'.turn = tool.turn /\ tool'.i = tool.i
    BY <1>5, <2>1, ToolGoto
  <2>3. tool.turn \in {1, 2} /\ (tool.turn = 2 => tool.mode = "remove")
    BY <1>2 DEF ToolInv, InPlace, ToolMain, Installer!Turn
  <2>4. InPlace(tool', flags)
    BY <1>5, <2>1, <2>2, <2>3 DEF ToolInv, InPlace, WaitOver
  <2>5. QED  BY <1>1, <2>2, <2>4, ToolMoves
<1>6. QED  BY <1>3, <1>4, <1>5 DEF Installer!Wait

LEMMA ToolOpenInv == ASSUME ToolInv, Installer!Open PROVE ToolInv'
<1>1. tool.pc = "copy" /\ flags' = flags /\ updater' = updater /\ device' = device
  BY DEF Installer!Open
<1>2. CASE Installer!Leave(-1)
  BY <1>1, <1>2, ToolLeaves, ToolMoves
<1>3. CASE /\ ~flags.err_occured
           /\ tool' = [tool EXCEPT !.pc = "read", !.fsize = device.archive]
  <2>1. tool \in ToolMain /\ device.archive \in 0..ArchiveSize
    BY ToolTypes DEF ToolInv, ToolDevice
  <2>2. /\ tool' \in ToolMain /\ tool'.mode = tool.mode /\ tool'.turn = tool.turn
        /\ tool'.pc = "read" /\ tool'.i = tool.i /\ tool'.fsize = device.archive
    BY <1>3, <2>1 DEF ToolMain
  <2>3. tool.turn = 1 /\ tool.mode = "archive" /\ WaitOver(tool, flags)
    BY <1>1 DEF ToolInv, InPlace
  <2>4. flags.op_completed => device.archive = ArchiveSize
    BY <2>3 DEF ToolInv, Archiving
  <2>5. InPlace(tool', flags)
    BY <1>3, <2>2, <2>3, <2>4 DEF InPlace, WaitOver
  <2>6. QED  BY <1>1, <2>2, <2>5, ToolMoves
<1>4. QED  BY <1>2, <1>3 DEF Installer!Open

LEMMA ToolReadInv == ASSUME ToolInv, Installer!Read PROVE ToolInv'
<1>1. tool.pc = "read" /\ flags' = flags /\ updater' = updater /\ device' = device
  BY DEF Installer!Read
<1>2. /\ tool \in ToolMain /\ tool.total \in 0..ArchiveSize
      /\ device.archive \in 0..ArchiveSize
  BY ToolTypes DEF ToolInv, ToolMain, ToolDevice
<1>3. /\ tool' \in ToolMain /\ tool'.pc \in {"read", "copied"} /\ tool'.mode = tool.mode
      /\ tool'.turn = tool.turn /\ tool'.i = tool.i /\ tool'.fsize = tool.fsize
  <2>1. CASE tool.total < device.archive /\ tool' = [tool EXCEPT !.total = @ + 1]
    <3> DEFINE n == tool.total
               m == device.archive
    <3>1. n \in 0..ArchiveSize /\ m \in 0..ArchiveSize /\ n < m
      BY <1>2, <2>1
    <3> HIDE DEF n, m
    <3>2. n + 1 \in 0..ArchiveSize
      BY <3>1, ToolBounds
    <3>3. QED  BY <1>1, <1>2, <2>1, <3>2 DEF ToolMain, n
  <2>2. CASE Installer!Goto("copied")
    BY <2>2, ToolGoto
  <2>3. QED  BY <2>1, <2>2 DEF Installer!Read
<1>4. InPlace(tool', flags)
  BY <1>1, <1>3 DEF ToolInv, InPlace
<1>5. QED  BY <1>1, <1>3, <1>4, ToolMoves

LEMMA ToolCopiedInv == ASSUME ToolInv, Installer!Copied PROVE ToolInv'
<1>1. tool.pc = "copied" /\ flags' = flags /\ updater' = updater /\ device' = device
  BY DEF Installer!Copied
<1>2. CASE \E res \in {0, -1} : Installer!Leave(res)
  BY <1>1, <1>2, ToolLeaves, ToolMoves
<1>3. CASE /\ tool.total = tool.fsize
           /\ tool' = [tool EXCEPT !.mode = "remove", !.turn = 2, !.pc = "connect"]
  <2>1. /\ tool' \in ToolMain /\ tool'.mode = "remove" /\ tool'.turn = 2
        /\ tool'.pc = "connect" /\ tool'.i = tool.i /\ tool'.total = tool.total
    BY <1>3, ToolTypes DEF ToolInv, ToolMain, Installer!Mode, Installer!Turn
  <2>2. InPlace(tool', flags')
    BY <1>1, <1>3, <2>1 DEF ToolInv, InPlace
  <2>3. Archiving(tool', flags', device')
    BY <2>1 DEF Archiving
  <2>4. QED  BY <1>1, <2>1, <2>2, <2>3, ToolNext, ToolTypes DEF ToolInv
<1>4. QED  BY <1>2, <1>3 DEF Installer!Copied

-----------------------------------------------------------------------------
LEMMA ToolNextInv == ASSUME ToolInv, Installer!Next PROVE ToolInv'
<1>1. CASE Installer!Connect \/ Installer!NotPrepared \/ Installer!Request
  BY <1>1, ToolConnectInv, ToolNotPreparedInv, ToolRequestInv
<1>2. CASE Installer!Install \/ Installer!Installed \/ Installer!Wait
  BY <1>2, ToolInstallInv, ToolInstalledInv, ToolWaitInv
<1>3. CASE Installer!Open \/ Installer!Read \/ Installer!Copied
  BY <1>3, ToolOpenInv, ToolReadInv, ToolCopiedInv
<1>4. ASSUME NEW t \in Installer!Turn,
             \/ Installer!DeviceReports(t) \/ Installer!DeviceArchives(t)
             \/ Installer!DeviceCompletes(t) \/ Installer!DeviceFails(t)
      PROVE  ToolInv'
  BY <1>4, ToolReportsInv, ToolArchivesInv, ToolEndsInv
<1>5. ASSUME NEW t \in Installer!Turn, Installer!StatusCb(t) \/ Installer!UpdaterCutOff(t)
      PROVE  ToolInv'
  BY <1>5, ToolStatusInv, ToolCutOffInv
<1>6. CASE Installer!DeviceGone \/ Installer!Notifier
  BY <1>6, ToolGoneInv, ToolNotifierInv
<1>7. QED  BY <1>1, <1>2, <1>3, <1>4, <1>5, <1>6 DEF Installer!Next

LEMMA ToolServicesInv == ASSUME ToolInv, [ServicesNext]_all PROVE ToolInv'
<1>1. CASE UNCHANGED installerVars
  <2>1. tool' = tool /\ flags' = flags /\ updater' = updater /\ device' = device
    BY <1>1 DEF installerVars
  <2>2. QED  BY <2>1, ToolNext, ToolTypes DEF ToolInv
<1>2. CASE Installer!Next
  BY <1>2, ToolNextInv
<1>3. UNCHANGED installerVars \/ Installer!Next
  BY DEF ServicesNext, all, Only, PlistRuns, SrRuns, ServerRuns
<1>4. QED  BY <1>1, <1>2, <1>3

\* ideviceinstaller removes an archive from the device only when it has copied the whole
\* of it, or one of the two waits of do_wait_when_needed ended without knowing.
THEOREM ArchiveIsKept == ServicesSpec => []ArchiveKept
<1>1. ServicesInit => ToolInv
  BY ToolInitInv DEF ServicesInit
<1>2. ToolInv /\ [ServicesNext]_all => ToolInv'
  BY ToolServicesInv
<1>3. ToolInv => ArchiveKept
  BY DEF ToolInv, InPlace, ArchiveKept, Installer!ArchiveKept
<1>4. QED  BY <1>1, <1>2, <1>3, PTL DEF ServicesSpec
=============================================================================
