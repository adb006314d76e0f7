------------------------ MODULE UsbmuxRequestsProofs ------------------------
(***************************************************************************)
(* Theorems of UsbmuxRequests, for every set of threads, every daemon and  *)
(* every bound.                                                            *)
(*                                                                         *)
(* LockDiscipline is not inductive: that g_mutex is given back from the    *)
(* places that do so rests on the message a thread is about there          *)
(* (Orderly), since the steps of the three messages share their places.    *)
(***************************************************************************)
EXTENDS UsbmuxRequests, SequenceTheorems, TLAPS

ShapeInv ==
    /\ use_tag \in Tag /\ calls \in 0..MaxCalls
    /\ mutex \in [Thread -> Nat] /\ forgotten \in [Thread -> Nat]
    /\ pc \in [Thread -> PC]
    /\ loc \in [Thread -> Local]

\* What the calls that may start over send.
Common == {"ListDevices", "Listen", "Connect"}

\* Where the code of the messages parts: only Listen is sent under g_mutex, and
\* what a thread closes does not lead it into the critical section except to leave it.
Exits == {"load", "unlock", "return", "droplist", "open", "lower", "raise"}

OrderlyAt(p, l) ==
    /\ p \in {"lock", "collect", "unlock"} => l.msg = "Listen"
    /\ p = "choose" => l.msg = "ListDevices"
    /\ l.op \in Private <=> l.msg \notin Common
    /\ p = "closing" =>
           /\ l.closes # 0
           /\ l.next \in Exits
           /\ l.next = "unlock" => l.msg = "Listen"

Orderly(t) == OrderlyAt(pc[t], loc[t])

\* Critical, of a place and locals.
CriticalAt(p, l) ==
    /\ l.msg = "Listen"
    /\ \/ p \in {"sendtag", "format", "send", "gettag", "receive", "judge", "collect",
                  "unlock"}
       \/ p = "closing" /\ l.next = "unlock"

\* How often g_mutex is locked by a thread that forgot to unlock it f times, inside
\* or outside the critical section.
LockedFor(k, f, inside) == k = f + IF inside THEN 1 ELSE 0

Locks(t) == LockedFor(mutex[t], forgotten[t], Critical(t))

Inv ==
    /\ ShapeInv
    /\ \A t \in Thread : Orderly(t) /\ Locks(t)
    /\ \A t, u \in Thread : mutex[t] # 0 /\ mutex[u] # 0 => t = u

-----------------------------------------------------------------------------
\* What a step of t does to the invariant: the other threads stay where they are,
\* and t locks g_mutex only when nobody else has.
Keeps(t) ==
    /\ ShapeInv'
    /\ \A u \in Thread \ {t} :
           /\ pc'[u] = pc[u] /\ loc'[u] = loc[u]
           /\ mutex'[u] = mutex[u] /\ forgotten'[u] = forgotten[u]
    /\ Orderly(t)' /\ Locks(t)'
    /\ mutex'[t] # 0 => mutex[t] # 0 \/ \A u \in Thread \ {t} : mutex[u] = 0

LEMMA KeepsInv ==
    ASSUME Inv, NEW t \in Thread, Keeps(t)
    PROVE  Inv'
<1>1. \A u \in Thread \ {t} : Orderly(u)' /\ Locks(u)'
  BY DEF Inv, Keeps, Orderly, OrderlyAt, Locks, LockedFor, Critical, At
<1>2. ASSUME NEW u \in Thread, NEW v \in Thread, mutex'[u] # 0, mutex'[v] # 0
      PROVE  u = v
  <2>1. CASE u = t /\ v # t
    BY <1>2, <2>1 DEF Inv, Keeps
  <2>2. CASE v = t /\ u # t
    BY <1>2, <2>2 DEF Inv, Keeps
  <2>3. CASE u # t /\ v # t
    BY <1>2, <2>3 DEF Inv, Keeps
  <2>4. QED  BY <2>1, <2>2, <2>3
<1>3. QED  BY <1>1, <1>2 DEF Inv, Keeps

LEMMA LocalOf == ASSUME Inv, NEW t \in Thread PROVE loc[t] \in Local /\ use_tag \in Tag
  BY DEF Inv, ShapeInv

LEMMA Messages ==
    \A o \in Op : /\ FirstMessage(o) \in MessageType
                  /\ o \in Private <=> FirstMessage(o) \notin Common
  BY DEF Op, FirstMessage, MessageType, Private, Common

LEMMA Successors == \A n \in Nat : Successor(n) \in Tag
  BY RequestsAssumption DEF Successor, Tag

LEMMA NoTag == 0 \in Tag
  BY RequestsAssumption DEF Tag

\* The bounds and the tags are natural numbers, and there is one.
LEMMA Bounds == MaxCalls \in Nat \ {0} /\ MaxFd \in Nat /\ Tag \subseteq Nat
  BY RequestsAssumption DEF Tag

LEMMA NoLocalTyped == NoLocal \in Local
  BY NoTag, Bounds DEF NoLocal, Local, Op, MessageType, Code, PC

\* A step of t is known by the place and the locals it leads to.
LEMMA Move ==
    ASSUME Inv, NEW t \in Thread, NEW p \in PC, NEW l \in Local, NEW k \in Nat, NEW f \in Nat,
           pc' = [pc EXCEPT ![t] = p],
           loc' = [loc EXCEPT ![t] = l],
           mutex' = [mutex EXCEPT ![t] = k], forgotten' = [forgotten EXCEPT ![t] = f],
           use_tag' \in Tag, calls' \in 0..MaxCalls,
           OrderlyAt(p, l),
           LockedFor(k, f, CriticalAt(p, l)),
           k # 0 => mutex[t] # 0 \/ \A u \in Thread \ {t} : mutex[u] = 0
    PROVE  Keeps(t)
<1>1. /\ pc'[t] = p /\ loc'[t] = l /\ mutex'[t] = k /\ forgotten'[t] = f
      /\ pc' \in [Thread -> PC] /\ loc' \in [Thread -> Local]
      /\ mutex' \in [Thread -> Nat] /\ forgotten' \in [Thread -> Nat]
      /\ \A u \in Thread \ {t} :
             /\ pc'[u] = pc[u] /\ loc'[u] = loc[u]
             /\ mutex'[u] = mutex[u] /\ forgotten'[u] = forgotten[u]
  BY DEF Inv, ShapeInv
<1>2. Critical(t)' <=> CriticalAt(p, l)
  BY <1>1 DEF Critical, CriticalAt, At
<1>3. QED  BY <1>1, <1>2 DEF Keeps, ShapeInv, Orderly, Locks, LockedFor

\* A step that leaves g_mutex alone.
LEMMA Quiet ==
    ASSUME Inv, NEW t \in Thread, NEW p \in PC, NEW l \in Local,
           pc' = [pc EXCEPT ![t] = p],
           loc' = [loc EXCEPT ![t] = l],
           mutex' = mutex, forgotten' = forgotten, use_tag' \in Tag, calls' \in 0..MaxCalls,
           OrderlyAt(p, l),
           CriticalAt(p, l) <=> Critical(t)
    PROVE  Keeps(t)
<1>1. /\ mutex' = [mutex EXCEPT ![t] = mutex[t]] /\ mutex[t] \in Nat
      /\ forgotten' = [forgotten EXCEPT ![t] = forgotten[t]] /\ forgotten[t] \in Nat
  BY DEF Inv, ShapeInv
<1>2. LockedFor(mutex[t], forgotten[t], CriticalAt(p, l))
  BY DEF Inv, Locks, LockedFor
<1>3. QED  BY <1>1, <1>2, Move

\* A step that leaves the locals alone, too.
LEMMA Walk ==
    ASSUME Inv, NEW t \in Thread, NEW p \in PC,
           pc' = [pc EXCEPT ![t] = p], loc' = loc,
           mutex' = mutex, forgotten' = forgotten, use_tag' \in Tag, calls' \in 0..MaxCalls,
           OrderlyAt(p, loc[t]),
           CriticalAt(p, loc[t]) <=> Critical(t)
    PROVE  Keeps(t)
<1>1. loc' = [loc EXCEPT ![t] = loc[t]] /\ loc[t] \in Local
  BY DEF Inv, ShapeInv
<1>2. QED  BY <1>1, Quiet

LEMMA CallKeeps == ASSUME Inv, NEW t \in Thread, Call(t) PROVE Keeps(t)
<1>1. PICK o \in Ops : loc' = [loc EXCEPT ![t] = [NoLocal EXCEPT !.op = o, !.id = calls + 1,
                                                                 !.msg = FirstMessage(o)]]
  BY DEF Call
<1> DEFINE l == [NoLocal EXCEPT !.op = o, !.id = calls + 1, !.msg = FirstMessage(o)]
<1> DEFINE n == calls + 1
<1>2. o \in Op /\ n \in 1..MaxCalls /\ n \in 0..MaxCalls
  BY RequestsAssumption, Bounds DEF Inv, ShapeInv, Call
<1>3. l \in Local /\ l.op = o /\ l.msg = FirstMessage(o)
  <2> DEFINE m == FirstMessage(o)
             j == [NoLocal EXCEPT !.op = o]
             k == [j EXCEPT !.id = n]
  <2>1. m \in MessageType
    BY <1>2, Messages
  <2> HIDE DEF n, m
  <2>2. j \in Local /\ j.op = o
    BY <1>2, NoLocalTyped DEF Local
  <2> HIDE DEF j
  <2>3. k \in Local /\ k.op = o
    BY <1>2, <2>2 DEF Local
  <2> HIDE DEF k
  <2>4. /\ [k EXCEPT !.msg = m] \in Local /\ [k EXCEPT !.msg = m].op = o
        /\ [k EXCEPT !.msg = m].msg = m
    BY <2>1, <2>3 DEF Local
  <2>5. l = [k EXCEPT !.msg = m]
    BY DEF k, j, m, n
  <2>6. QED  BY <2>4, <2>5 DEF m
<1>4. OrderlyAt("open", l) /\ ~CriticalAt("open", l) /\ ~Critical(t)
  BY <1>2, <1>3, Messages DEF OrderlyAt, CriticalAt, Critical, Call, At
<1>5. QED  BY <1>1, <1>2, <1>3, <1>4, Quiet DEF Call, Go, globals, PC, Inv, ShapeInv

LEMMA OpenKeeps == ASSUME Inv, NEW t \in Thread, Open(t) PROVE Keeps(t)
<1>1. PICK n \in Fd : loc' = [loc EXCEPT ![t].fd = n]
  BY DEF Open, Free
<1> DEFINE l == [loc[t] EXCEPT !.fd = n]
           p == IF loc[t].op \in Private THEN "protocol" ELSE "load"
<1>2. l \in Local /\ l.op = loc[t].op /\ l.msg = loc[t].msg
  BY DEF Inv, ShapeInv, Local, Fd
<1>3. OrderlyAt(p, l) /\ ~CriticalAt(p, l) /\ ~Critical(t)
  BY <1>2 DEF Inv, Orderly, OrderlyAt, CriticalAt, Critical, Open, At
<1>4. QED  BY <1>1, <1>2, <1>3, Quiet DEF Open, Go, globals, PC, Inv, ShapeInv

LEMMA OpenFailsKeeps == ASSUME Inv, NEW t \in Thread, OpenFails(t) PROVE Keeps(t)
<1> DEFINE l == [loc[t] EXCEPT !.value = "negative", !.list = FALSE]
<1>1. l \in Local /\ l.op = loc[t].op /\ l.msg = loc[t].msg
  BY LocalOf DEF Local
<1>2. OrderlyAt("return", l) /\ ~CriticalAt("return", l) /\ ~Critical(t)
  BY <1>1 DEF Inv, Orderly, OrderlyAt, CriticalAt, Critical, OpenFails, At
<1>3. QED  BY <1>1, <1>2, Quiet DEF OpenFails, Go, globals, PC, Inv, ShapeInv

LEMMA SetProtocolKeeps == ASSUME Inv, NEW t \in Thread, SetProtocol(t) PROVE Keeps(t)
<1>1. OrderlyAt("load", loc[t]) /\ ~CriticalAt("load", loc[t]) /\ ~Critical(t)
  BY DEF Inv, Orderly, OrderlyAt, CriticalAt, Critical, SetProtocol, At
<1>2. QED  BY <1>1, Walk DEF SetProtocol, Go, PC, Inv, ShapeInv

LEMMA LoadTagKeeps == ASSUME Inv, NEW t \in Thread, LoadTag(t) PROVE Keeps(t)
<1> DEFINE l == [loc[t] EXCEPT !.reg = use_tag]
<1>1. l \in Local /\ l.op = loc[t].op /\ l.msg = loc[t].msg
  BY LocalOf DEF Local
<1>2. OrderlyAt("store", l) /\ ~CriticalAt("store", l) /\ ~Critical(t)
  BY <1>1 DEF Inv, Orderly, OrderlyAt, CriticalAt, Critical, LoadTag, At
<1>3. QED  BY <1>1, <1>2, Quiet DEF LoadTag, Go, globals, PC, Inv, ShapeInv

LEMMA StoreTagKeeps == ASSUME Inv, NEW t \in Thread, StoreTag(t) PROVE Keeps(t)
<1> DEFINE s == Successor(loc[t].reg)
           l == IF loc[t].op \in Private
                THEN [loc[t] EXCEPT !.tag = s, !.expected = s] ELSE loc[t]
           p == IF loc[t].op \in Private THEN "send"
                ELSE [ListDevices |-> "choose", Listen |-> "lock", Connect |-> "sendtag"]
                         [loc[t].msg]
<1>1. loc[t] \in Local /\ pc[t] = "store"
  BY DEF Inv, ShapeInv, StoreTag, At
<1>2. s \in Tag
  BY <1>1, Successors, Bounds DEF Local
<1>3. l \in Local /\ l.op = loc[t].op /\ l.msg = loc[t].msg
  <2> HIDE DEF s
  <2>1. QED  BY <1>1, <1>2 DEF Local
<1>4. ~Critical(t)
  BY <1>1 DEF Critical, At
<1>5. loc' = [loc EXCEPT ![t] = l] /\ pc' = [pc EXCEPT ![t] = p]
  BY DEF StoreTag, Go, Inv, ShapeInv
<1>6. CASE loc[t].op \in Private
  <2>1. p = "send" /\ l.msg \notin Common /\ l.op \in Private
    BY <1>3, <1>6 DEF Inv, Orderly, OrderlyAt
  <2>2. OrderlyAt(p, l) /\ ~CriticalAt(p, l)
    BY <2>1 DEF OrderlyAt, CriticalAt, Common
  <2>3. QED
    BY <1>2, <1>3, <1>4, <1>5, <2>1, <2>2, Quiet DEF StoreTag, Inv, ShapeInv, PC
<1>7. CASE loc[t].op \notin Private
  <2>1. /\ loc[t].msg = "ListDevices" => p = "choose"
        /\ loc[t].msg = "Listen" => p = "lock"
        /\ loc[t].msg = "Connect" => p = "sendtag"
    BY <1>7
  <2>2. loc[t].msg \in {"ListDevices", "Listen", "Connect"}
    BY <1>7 DEF Inv, Orderly, OrderlyAt, Common
  <2>3. QED
    BY <1>1, <1>2, <1>3, <1>4, <1>5, <1>7, <2>1, <2>2, Quiet
       DEF StoreTag, Inv, ShapeInv, Orderly, OrderlyAt, CriticalAt, PC
<1>8. QED  BY <1>6, <1>7

\* A step that closes, and goes on where the thread closes for.
LEMMA CloseThenMoves ==
    ASSUME Inv, NEW t \in Thread, NEW l \in Local, NEW n \in Nat, NEW where \in Exits,
           CloseThen(t, l, n, where),
           l.op \in Private <=> l.msg \notin Common,
           where = "unlock" => l.msg = "Listen" /\ Critical(t),
           NEW k \in Nat, mutex' = [mutex EXCEPT ![t] = k], k # 0 => mutex[t] # 0,
           NEW f \in Nat, forgotten' = [forgotten EXCEPT ![t] = f],
           LockedFor(k, f, where = "unlock"),
           use_tag' \in Tag, calls' \in 0..MaxCalls
    PROVE  Keeps(t)
<1> DEFINE m == [l EXCEPT !.closes = n, !.next = where]
           p == IF n = 0 THEN where ELSE "closing"
<1>1. where \in PC /\ p \in PC
  BY DEF Exits, PC
<1>2. m \in Local /\ m.op = l.op /\ m.msg = l.msg /\ m.closes = n /\ m.next = where
  BY <1>1 DEF Local
<1>3. OrderlyAt(p, m)
  BY <1>2 DEF OrderlyAt, Exits
<1>4. CriticalAt(p, m) <=> where = "unlock"
  BY <1>2 DEF CriticalAt, Exits
<1>5. LockedFor(k, f, CriticalAt(p, m))
  BY <1>4 DEF LockedFor
<1>6. QED  BY <1>1, <1>2, <1>3, <1>4, <1>5, Move DEF CloseThen, Go

LEMMA CloseThenKeeps ==
    ASSUME Inv, NEW t \in Thread, NEW l \in Local, NEW n \in Nat, NEW where \in Exits,
           CloseThen(t, l, n, where),
           l.op \in Private <=> l.msg \notin Common,
           where = "unlock" => l.msg = "Listen",
           Critical(t) <=> where = "unlock",
           mutex' = mutex, forgotten' = forgotten, use_tag' \in Tag, calls' \in 0..MaxCalls
    PROVE  Keeps(t)
<1>1. /\ mutex[t] \in Nat /\ mutex' = [mutex EXCEPT ![t] = mutex[t]]
      /\ forgotten[t] \in Nat /\ forgotten' = [forgotten EXCEPT ![t] = forgotten[t]]
  BY DEF Inv, ShapeInv
<1>2. LockedFor(mutex[t], forgotten[t], where = "unlock")
  BY DEF Inv, Locks, LockedFor
<1>3. QED  BY <1>1, <1>2, CloseThenMoves

\* A step that gives g_mutex back.
LEMMA CloseThenUnlocks ==
    ASSUME Inv, NEW t \in Thread, NEW l \in Local, NEW n \in Nat, NEW where \in Exits,
           CloseThen(t, l, n, where),
           l.op \in Private <=> l.msg \notin Common,
           where # "unlock", Critical(t), Unlock(t), forgotten' = forgotten,
           use_tag' \in Tag, calls' \in 0..MaxCalls
    PROVE  Keeps(t)
<1> DEFINE k == mutex[t] - 1
<1>1. k \in Nat /\ LockedFor(k, forgotten[t], where = "unlock") /\ mutex[t] # 0
  BY DEF Inv, ShapeInv, Locks, LockedFor
<1>2. mutex' = [mutex EXCEPT ![t] = k]
  BY DEF Unlock
<1>3. forgotten[t] \in Nat /\ forgotten' = [forgotten EXCEPT ![t] = forgotten[t]]
  BY DEF Inv, ShapeInv
<1> HIDE DEF k
<1>4. QED  BY <1>1, <1>2, <1>3, CloseThenMoves

LEMMA ClosingKeeps == ASSUME Inv, NEW t \in Thread, Closing(t) PROVE Keeps(t)
<1>1. /\ loc[t].next \in Exits /\ loc[t].closes # 0
      /\ loc[t].next = "unlock" => loc[t].msg = "Listen"
      /\ loc[t].op \in Private <=> loc[t].msg \notin Common
  BY DEF Inv, Orderly, OrderlyAt, Closing, At
<1>2. loc[t] \in Local
  BY DEF Inv, ShapeInv
<1>3. loc[t].closes - 1 \in Nat
  BY <1>1, <1>2 DEF Local
<1>4. Critical(t) <=> loc[t].next = "unlock"
  BY <1>1 DEF Critical, Closing, At
<1>5. QED  BY <1>1, <1>2, <1>3, <1>4, CloseThenKeeps DEF Closing, globals, Inv, ShapeInv

LEMMA ChooseKeeps == ASSUME Inv, NEW t \in Thread, Choose(t) PROVE Keeps(t)
<1>1. /\ loc[t] \in Local /\ loc[t].msg = "ListDevices"
      /\ loc[t].op \in Private <=> loc[t].msg \notin Common
  BY DEF Inv, ShapeInv, Orderly, OrderlyAt, Choose, At
<1>2. ~Critical(t)
  BY <1>1 DEF Critical
<1>3. CASE loc' = loc /\ Go(t, "sendtag")
  <2>1. OrderlyAt("sendtag", loc[t]) /\ ~CriticalAt("sendtag", loc[t])
    BY <1>1 DEF OrderlyAt, CriticalAt
  <2>2. QED  BY <1>2, <1>3, <2>1, Walk DEF Choose, Go, globals, PC, Inv, ShapeInv
<1>4. CASE loc' = [loc EXCEPT ![t].msg = "Listen"] /\ Go(t, "load")
  <2> DEFINE l == [loc[t] EXCEPT !.msg = "Listen"]
  <2>1. l \in Local /\ l.op = loc[t].op /\ l.msg = "Listen"
    BY <1>1 DEF Local, MessageType
  <2>2. OrderlyAt("load", l) /\ ~CriticalAt("load", l)
    BY <1>1, <2>1 DEF OrderlyAt, CriticalAt, Common
  <2>3. QED  BY <1>2, <1>4, <2>1, <2>2, Quiet DEF Choose, Go, globals, PC, Inv, ShapeInv
<1>5. QED  BY <1>3, <1>4 DEF Choose

LEMMA AcquireKeeps == ASSUME Inv, NEW t \in Thread, Acquire(t) PROVE Keeps(t)
<1>1. loc[t] \in Local /\ loc[t].msg = "Listen" /\ pc[t] = "lock"
  BY DEF Inv, ShapeInv, Orderly, OrderlyAt, Acquire, At
<1> DEFINE k == mutex[t] + 1
<1>2. k \in Nat /\ LockedFor(k, forgotten[t], TRUE)
  BY <1>1 DEF Inv, ShapeInv, Locks, LockedFor, Critical, At
<1>3. mutex' = [mutex EXCEPT ![t] = k]
  BY DEF Acquire, Lock
<1> HIDE DEF k
<1>4. OrderlyAt("sendtag", loc[t]) /\ CriticalAt("sendtag", loc[t])
  BY <1>1 DEF Inv, Orderly, OrderlyAt, CriticalAt
<1>5. /\ loc' = [loc EXCEPT ![t] = loc[t]]
      /\ forgotten[t] \in Nat /\ forgotten' = [forgotten EXCEPT ![t] = forgotten[t]]
  BY DEF Acquire, Inv, ShapeInv
<1>6. LockedFor(k, forgotten[t], CriticalAt("sendtag", loc[t]))
  BY <1>2, <1>4 DEF LockedFor
<1>7. /\ pc' = [pc EXCEPT ![t] = "sendtag"] /\ "sendtag" \in PC
      /\ use_tag' \in Tag /\ calls' \in 0..MaxCalls
      /\ \A u \in Thread \ {t} : mutex[u] = 0
  BY DEF Acquire, Lock, Go, globals, PC, Inv, ShapeInv
<1>8. QED  BY <1>1, <1>2, <1>3, <1>4, <1>5, <1>6, <1>7, Move

\* A step within the critical section, or outside it, that keeps the message.
Inside == {"sendtag", "format", "send", "gettag", "receive", "judge", "collect", "unlock"}

LEMMA StepOn ==
    ASSUME Inv, NEW t \in Thread, NEW p \in PC, NEW l \in Local,
           pc[t] \in Inside, p \in Inside \ {"collect", "unlock"},
           l.op = loc[t].op, l.msg = loc[t].msg,
           pc' = [pc EXCEPT ![t] = p], loc' = [loc EXCEPT ![t] = l],
           mutex' = mutex, forgotten' = forgotten, use_tag' \in Tag, calls' \in 0..MaxCalls
    PROVE  Keeps(t)
<1>1. OrderlyAt(p, l)
  BY DEF Inv, Orderly, OrderlyAt, Inside
<1>2. CriticalAt(p, l) <=> Critical(t)
  BY DEF CriticalAt, Critical, Inside, At
<1>3. QED  BY <1>1, <1>2, Quiet

LEMMA SendTagKeeps == ASSUME Inv, NEW t \in Thread, SendTag(t) PROVE Keeps(t)
<1> DEFINE l == [loc[t] EXCEPT !.tag = use_tag, !.format = "plist"]
           p == IF loc[t].msg = "ListDevices" THEN "send" ELSE "format"
<1>1. l \in Local /\ l.op = loc[t].op /\ l.msg = loc[t].msg
  BY LocalOf DEF Local
<1>2. pc[t] \in Inside /\ p \in PC /\ p \in Inside \ {"collect", "unlock"}
  BY DEF SendTag, At, Inside, PC
<1>3. QED  BY <1>1, <1>2, StepOn DEF SendTag, Go, globals, Inv, ShapeInv

LEMMA FormatKeeps == ASSUME Inv, NEW t \in Thread, Format(t) PROVE Keeps(t)
<1> DEFINE f == IF proto_version = 1 THEN "plist" ELSE "binary"
           l == [loc[t] EXCEPT !.format = f]
<1>1. l \in Local /\ l.op = loc[t].op /\ l.msg = loc[t].msg
  BY LocalOf DEF Local
<1>2. pc[t] \in Inside /\ "send" \in PC /\ "send" \in Inside \ {"collect", "unlock"}
  BY DEF Format, At, Inside, PC
<1>3. QED  BY <1>1, <1>2, StepOn DEF Format, Go, globals, Inv, ShapeInv

LEMMA SendKeeps == ASSUME Inv, NEW t \in Thread, Send(t) PROVE Keeps(t)
<1> DEFINE p == IF loc[t].op \in Private THEN "receive" ELSE "gettag"
<1>1. loc[t] \in Local /\ loc' = [loc EXCEPT ![t] = loc[t]]
  BY DEF Send, Inv, ShapeInv
<1>2. pc[t] \in Inside /\ p \in PC /\ p \in Inside \ {"collect", "unlock"}
  BY DEF Send, At, Inside, PC
<1>3. QED  BY <1>1, <1>2, StepOn DEF Send, Go, globals, Inv, ShapeInv

LEMMA GetTagKeeps == ASSUME Inv, NEW t \in Thread, GetTag(t) PROVE Keeps(t)
<1> DEFINE l == [loc[t] EXCEPT !.expected = use_tag]
<1>1. l \in Local /\ l.op = loc[t].op /\ l.msg = loc[t].msg
  BY LocalOf DEF Local
<1>2. pc[t] \in Inside /\ "receive" \in PC /\ "receive" \in Inside \ {"collect", "unlock"}
  BY DEF GetTag, At, Inside, PC
<1>3. QED  BY <1>1, <1>2, StepOn DEF GetTag, Go, globals, Inv, ShapeInv

LEMMA SendFailsKeeps == ASSUME Inv, NEW t \in Thread, SendFails(t) PROVE Keeps(t)
<1> DEFINE l == [loc[t] EXCEPT !.res = "none", !.value = "negative"]
<1>1. loc[t] \in Local /\ pc[t] = "send" /\ (loc[t].op \in Private <=> loc[t].msg \notin Common)
  BY DEF SendFails, At, Inv, ShapeInv, Orderly, OrderlyAt
<1>2. l \in Local /\ l.op = loc[t].op /\ l.msg = loc[t].msg
  BY <1>1 DEF Local, Code
<1>3. Critical(t) <=> loc[t].msg = "Listen"
  BY <1>1 DEF Critical, At
<1>4. mutex' = mutex /\ forgotten' = forgotten /\ use_tag' \in Tag /\ calls' \in 0..MaxCalls
  BY DEF SendFails, globals, Inv, ShapeInv
<1>5. PICK again \in {0, 1} :
          \/ /\ loc[t].msg = "ListDevices"
             /\ CloseThen(t, [l EXCEPT !.msg = "Listen"], again, "load")
          \/ loc[t].msg = "Listen" /\ CloseThen(t, l, again, "unlock")
          \/ /\ loc[t].msg \notin {"ListDevices", "Listen"}
             /\ CloseThen(t, l, again + 1, "return")
  BY DEF SendFails
<1>6. again \in Nat /\ again + 1 \in Nat /\ {"load", "unlock", "return"} \subseteq Exits
  BY DEF Exits
<1>7. CASE loc[t].msg = "ListDevices" /\ CloseThen(t, [l EXCEPT !.msg = "Listen"], again, "load")
  <2> DEFINE m == [l EXCEPT !.msg = "Listen"]
  <2>1. m \in Local /\ m.op = loc[t].op /\ m.msg = "Listen"
    BY <1>2 DEF Local, MessageType
  <2>2. m.op \in Private <=> m.msg \notin Common
    BY <1>1, <1>7, <2>1 DEF Common
  <2>3. CloseThen(t, m, again, "load")
    BY <1>7
  <2> HIDE DEF m, l
  <2>4. QED  BY <1>3, <1>4, <1>6, <1>7, <2>1, <2>2, <2>3, CloseThenKeeps
<1>8. CASE loc[t].msg = "Listen" /\ CloseThen(t, l, again, "unlock")
  BY <1>1, <1>2, <1>3, <1>4, <1>6, <1>8, CloseThenKeeps
<1>9. CASE loc[t].msg \notin {"ListDevices", "Listen"} /\ CloseThen(t, l, again + 1, "return")
  BY <1>1, <1>2, <1>3, <1>4, <1>6, <1>9, CloseThenKeeps
<1>10. QED  BY <1>5, <1>7, <1>8, <1>9

\* What usbmuxd_get_result may return.
LEMMA Results ==
    ASSUME NEW t \in Thread, NEW p, NEW v \in Code
    PROVE  Result(t, p, v)[1] \in {-1, 0, 1} /\ Result(t, p, v)[2] \in Code
  BY DEF Result, Code

LEMMA VerdictCodes == \A p : Verdicts(p) \subseteq Code
  BY DEF Verdicts, Code

LEMMA GotResultKeeps ==
    ASSUME Inv, NEW t \in Thread, pc[t] = "receive",
           NEW r, r[1] \in {-1, 0, 1}, r[2] \in Code, GotResult(t, r),
           mutex' = mutex, forgotten' = forgotten, use_tag' \in Tag, calls' \in 0..MaxCalls
    PROVE  Keeps(t)
<1> DEFINE a == r[1]
           b == r[2]
           j == [loc[t] EXCEPT !.ret = a]
           k == [j EXCEPT !.res = b]
           m == [k EXCEPT !.reg = 0, !.tag = 0]
           l == [m EXCEPT !.expected = 0, !.format = "plist"]
<1>1. l \in Local /\ l.op = loc[t].op /\ l.msg = loc[t].msg
  <2>1. a \in {-1, 0, 1} /\ b \in Code
    OBVIOUS
  <2> HIDE DEF a, b
  <2>2. loc[t] \in Local
    BY DEF Inv, ShapeInv
  <2>3. j \in Local /\ j.op = loc[t].op /\ j.msg = loc[t].msg
    BY <2>1, <2>2 DEF Local
  <2> HIDE DEF j
  <2>4. k \in Local /\ k.op = loc[t].op /\ k.msg = loc[t].msg
    BY <2>1, <2>3 DEF Local
  <2> HIDE DEF k
  <2>5. m \in Local /\ m.op = loc[t].op /\ m.msg = loc[t].msg
    BY <2>4, NoTag DEF Local
  <2> HIDE DEF m
  <2>6. QED  BY <2>5, NoTag DEF Local
<1>2. pc[t] \in Inside /\ "judge" \in PC /\ "judge" \in Inside \ {"collect", "unlock"}
  BY DEF Inside, PC
<1>3. QED  BY <1>1, <1>2, StepOn DEF GotResult, Go

LEMMA ReceiveKeeps == ASSUME Inv, NEW t \in Thread, Receive(t) PROVE Keeps(t)
<1> DEFINE p == Head(fds[loc[t].fd].sent)
<1>1. PICK v \in Verdicts(p) : GotResult(t, Result(t, p, v))
  BY DEF Receive
<1>2. v \in Code
  BY VerdictCodes
<1>3. QED  BY <1>1, <1>2, Results, GotResultKeeps DEF Receive, At, globals, Inv, ShapeInv

LEMMA ReceiveFailsKeeps == ASSUME Inv, NEW t \in Thread, ReceiveFails(t) PROVE Keeps(t)
<1> DEFINE r == <<-1, "none">>
<1>1. GotResult(t, r) /\ pc[t] = "receive"
  BY DEF ReceiveFails, At
<1>2. r[1] \in {-1, 0, 1} /\ r[2] \in Code
  BY DEF Code
<1>3. mutex' = mutex /\ forgotten' = forgotten /\ use_tag' \in Tag /\ calls' \in 0..MaxCalls
  BY DEF ReceiveFails, globals, Inv, ShapeInv
<1> HIDE DEF r
<1>4. QED  BY <1>1, <1>2, <1>3, GotResultKeeps

\* The call of t is over, but for the sockets.
LEMMA FinishKeeps ==
    ASSUME Inv, NEW t \in Thread, NEW value \in {"ok", "positive", "negative"},
           NEW list \in BOOLEAN, NEW n \in Nat, Finish(t, value, list, n),
           use_tag' \in Tag, calls' \in 0..MaxCalls,
           forgotten' = forgotten,
           \/ ~Critical(t) /\ mutex' = mutex
           \/ Critical(t) /\ Unlock(t)
    PROVE  Keeps(t)
<1> DEFINE l == [loc[t] EXCEPT !.value = value, !.list = list]
<1>1. l \in Local /\ l.op = loc[t].op /\ l.msg = loc[t].msg
  <2>1. loc[t] \in Local
    BY DEF Inv, ShapeInv
  <2>2. QED  BY <2>1 DEF Local
<1>2. l.op \in Private <=> l.msg \notin Common
  BY <1>1 DEF Inv, Orderly, OrderlyAt
<1>3. CloseThen(t, l, n, "return")
  BY DEF Finish
<1>4. "return" \in Exits
  BY DEF Exits
<1> HIDE DEF l
<1>5. QED  BY <1>1, <1>2, <1>3, <1>4, CloseThenKeeps, CloseThenUnlocks

\* The call of t starts over.
LEMMA Retries ==
    ASSUME NEW l \in Local
    PROVE  /\ Retry(l) \in Local /\ Retry(l).op = l.op
           /\ Retry(l).op \in Private <=> Retry(l).msg \notin Common
<1>1. FirstMessage(l.op) \in MessageType /\ (l.op \in Private <=> FirstMessage(l.op) \notin Common)
  BY Messages DEF Local
<1> DEFINE m == FirstMessage(l.op)
<1> HIDE DEF m
<1>2. [l EXCEPT !.msg = m] \in Local /\ [l EXCEPT !.msg = m].op = l.op
      /\ [l EXCEPT !.msg = m].msg = m
  BY <1>1 DEF Local, m
<1>3. QED  BY <1>1, <1>2 DEF Retry, m

LEMMA RetryKeeps ==
    ASSUME Inv, NEW t \in Thread, ~Critical(t), Go(t, "open"),
           loc' = [loc EXCEPT ![t] = Retry(@)],
           mutex' = mutex, forgotten' = forgotten, use_tag' \in Tag, calls' \in 0..MaxCalls
    PROVE  Keeps(t)
<1> DEFINE l == Retry(loc[t])
<1>1. l \in Local /\ (l.op \in Private <=> l.msg \notin Common)
  BY Retries DEF Inv, ShapeInv
<1>2. loc' = [loc EXCEPT ![t] = l]
  OBVIOUS
<1> HIDE DEF l
<1>3. OrderlyAt("open", l) /\ ~CriticalAt("open", l)
  BY <1>1 DEF OrderlyAt, CriticalAt
<1>4. QED  BY <1>1, <1>2, <1>3, Quiet DEF Go, PC

LEMMA JudgeListDevicesKeeps ==
    ASSUME Inv, NEW t \in Thread, JudgeListDevices(t) PROVE Keeps(t)
<1>1. /\ loc[t] \in Local /\ loc[t].msg = "ListDevices"
      /\ loc[t].op \in Private <=> loc[t].msg \notin Common
  BY DEF Inv, ShapeInv, Orderly, OrderlyAt, JudgeListDevices
<1>2. ~Critical(t)
  BY <1>1 DEF Critical
<1>3. mutex' = mutex /\ forgotten' = forgotten /\ use_tag' \in Tag /\ calls' \in 0..MaxCalls
  BY DEF JudgeListDevices, Inv, ShapeInv
<1>4. \/ Finish(t, "ok", TRUE, 1) \/ Finish(t, "negative", FALSE, 1)
      \/ loc' = [loc EXCEPT ![t].msg = "Listen"] /\ Go(t, "load")
      \/ CloseThen(t, loc[t], 1, "droplist")
  BY DEF JudgeListDevices
<1>5. CASE Finish(t, "ok", TRUE, 1) \/ Finish(t, "negative", FALSE, 1)
  BY <1>2, <1>3, <1>5, FinishKeeps
<1>6. CASE loc' = [loc EXCEPT ![t].msg = "Listen"] /\ Go(t, "load")
  <2> DEFINE l == [loc[t] EXCEPT !.msg = "Listen"]
  <2>1. l \in Local /\ l.op = loc[t].op /\ l.msg = "Listen"
    BY <1>1 DEF Local, MessageType
  <2>2. OrderlyAt("load", l) /\ ~CriticalAt("load", l)
    BY <1>1, <2>1 DEF OrderlyAt, CriticalAt, Common
  <2>3. QED  BY <1>2, <1>3, <1>6, <2>1, <2>2, Quiet DEF Go, PC
<1>7. CASE CloseThen(t, loc[t], 1, "droplist")
  <2>1. "droplist" \in Exits
    BY DEF Exits
  <2>2. QED  BY <1>1, <1>2, <1>3, <1>7, <2>1, CloseThenKeeps
<1>8. QED  BY <1>4, <1>5, <1>6, <1>7

LEMMA DropListKeeps == ASSUME Inv, NEW t \in Thread, DropList(t) PROVE Keeps(t)
<1>1. ~Critical(t)
  BY DEF Critical, DropList, At
<1>2. QED  BY <1>1, RetryKeeps DEF DropList, Inv, ShapeInv

LEMMA LowerKeeps == ASSUME Inv, NEW t \in Thread, Lower(t) PROVE Keeps(t)
<1>1. ~Critical(t)
  BY DEF Critical, Lower, At
<1>2. mutex' = mutex /\ forgotten' = forgotten /\ use_tag' \in Tag /\ calls' \in 0..MaxCalls
  BY DEF Lower, Inv, ShapeInv
<1>3. CASE loc' = [loc EXCEPT ![t] = Retry(@)] /\ Go(t, "open")
  BY <1>1, <1>2, <1>3, RetryKeeps
<1>4. CASE \E v \in {"negative", "positive"} : Finish(t, v, FALSE, 0)
  BY <1>1, <1>2, <1>4, FinishKeeps
<1>5. QED  BY <1>3, <1>4 DEF Lower

LEMMA RaiseKeeps == ASSUME Inv, NEW t \in Thread, Raise(t) PROVE Keeps(t)
<1>1. ~Critical(t)
  BY DEF Critical, Raise, At
<1>2. mutex' = mutex /\ forgotten' = forgotten /\ use_tag' \in Tag /\ calls' \in 0..MaxCalls
  BY DEF Raise, Inv, ShapeInv
<1>3. CASE loc' = [loc EXCEPT ![t] = Retry(@)] /\ Go(t, "open")
  BY <1>1, <1>2, <1>3, RetryKeeps
<1>4. CASE Finish(t, "negative", FALSE, 0)
  BY <1>1, <1>2, <1>4, FinishKeeps
<1>5. QED  BY <1>3, <1>4 DEF Raise

LEMMA JudgeListenKeeps == ASSUME Inv, NEW t \in Thread, JudgeListen(t) PROVE Keeps(t)
<1>1. pc[t] = "judge" /\ loc[t].msg = "Listen" /\ Critical(t)
  BY DEF Critical, JudgeListen, At
<1>2. use_tag' \in Tag /\ calls' \in 0..MaxCalls /\ forgotten' = forgotten
  BY DEF JudgeListen, globals, Inv, ShapeInv
<1>3. CASE Unlock(t) /\ Finish(t, "ok", FALSE, 0)
  BY <1>1, <1>2, <1>3, FinishKeeps
<1>4. CASE \E p \in {"collect", "unlock"} : loc' = loc /\ mutex' = mutex /\ Go(t, p)
  <2>1. PICK p \in {"collect", "unlock"} : loc' = loc /\ mutex' = mutex /\ Go(t, p)
    BY <1>4
  <2>2. OrderlyAt(p, loc[t]) /\ CriticalAt(p, loc[t])
    BY <1>1 DEF OrderlyAt, CriticalAt, Inv, Orderly
  <2>3. QED  BY <1>1, <1>2, <2>1, <2>2, Walk DEF Go, PC
<1>5. QED  BY <1>3, <1>4 DEF JudgeListen

LEMMA GiveUpKeeps == ASSUME Inv, NEW t \in Thread, GiveUp(t) PROVE Keeps(t)
<1> DEFINE where == IF loc[t].op = "listen" THEN "raise" ELSE "lower"
<1>1. /\ loc[t] \in Local /\ loc[t].msg = "Listen"
      /\ loc[t].op \in Private <=> loc[t].msg \notin Common
      /\ Critical(t)
  BY DEF Inv, ShapeInv, Orderly, OrderlyAt, GiveUp, At, Critical
<1>2. where \in Exits /\ where # "unlock"
  BY DEF Exits
<1>3. /\ use_tag' \in Tag /\ calls' \in 0..MaxCalls /\ forgotten' = forgotten
      /\ Unlock(t) /\ CloseThen(t, loc[t], 1, where)
  BY DEF GiveUp, globals, Inv, ShapeInv
<1> HIDE DEF where
<1>4. QED  BY <1>1, <1>2, <1>3, CloseThenUnlocks

LEMMA CollectKeeps == ASSUME Inv, NEW t \in Thread, Collect(t) PROVE Keeps(t)
<1>1. Critical(t)
  BY DEF Inv, Orderly, OrderlyAt, Collect, At, Critical
<1>2. use_tag' \in Tag /\ calls' \in 0..MaxCalls
  BY DEF Collect, globals, Inv, ShapeInv
<1>3. CASE Unlock(t) /\ Finish(t, "ok", TRUE, 1) /\ forgotten' = forgotten
  BY <1>1, <1>2, <1>3, FinishKeeps
\* The device list stays locked.
<1>4. CASE /\ Finish(t, "negative", FALSE, 1) /\ mutex' = mutex
           /\ forgotten' = [forgotten EXCEPT ![t] = @ + 1]
  <2> DEFINE l == [loc[t] EXCEPT !.value = "negative", !.list = FALSE]
             f == forgotten[t] + 1
  <2>1. l \in Local /\ l.op = loc[t].op /\ l.msg = loc[t].msg
    BY LocalOf DEF Local
  <2>2. l.op \in Private <=> l.msg \notin Common
    BY <2>1 DEF Inv, Orderly, OrderlyAt
  <2>3. CloseThen(t, l, 1, "return") /\ "return" \in Exits
    BY <1>4 DEF Finish, Exits
  <2>4. f \in Nat /\ forgotten' = [forgotten EXCEPT ![t] = f]
    BY <1>4 DEF Inv, ShapeInv
  <2>5. LockedFor(mutex[t], f, "return" = "unlock")
    BY <1>1 DEF Inv, ShapeInv, Locks, LockedFor
  <2> HIDE DEF l, f
  <2>6. mutex[t] \in Nat /\ mutex' = [mutex EXCEPT ![t] = mutex[t]]
    BY <1>4 DEF Inv, ShapeInv
  <2>7. QED  BY <1>2, <2>1, <2>2, <2>3, <2>4, <2>5, <2>6, CloseThenMoves
<1>5. QED  BY <1>3, <1>4 DEF Collect

LEMMA JudgeConnectKeeps == ASSUME Inv, NEW t \in Thread, JudgeConnect(t) PROVE Keeps(t)
<1>1. loc[t] \in Local /\ ~Critical(t)
  BY DEF Inv, ShapeInv, JudgeConnect, Critical
<1>2. mutex' = mutex /\ forgotten' = forgotten /\ use_tag' \in Tag /\ calls' \in 0..MaxCalls
  BY DEF JudgeConnect, Inv, ShapeInv
<1>3. CASE Finish(t, "ok", FALSE, 0) \/ Finish(t, "negative", FALSE, 1)
  BY <1>1, <1>2, <1>3, FinishKeeps
<1>4. CASE CloseThen(t, Retry(loc[t]), 1, "open")
  <2> DEFINE l == Retry(loc[t])
  <2>1. l \in Local /\ (l.op \in Private <=> l.msg \notin Common)
    BY <1>1, Retries
  <2>2. "open" \in Exits
    BY DEF Exits
  <2>3. CloseThen(t, l, 1, "open")
    BY <1>4
  <2> HIDE DEF l
  <2>4. QED  BY <1>1, <1>2, <2>1, <2>2, <2>3, CloseThenKeeps
<1>5. QED  BY <1>3, <1>4 DEF JudgeConnect

LEMMA JudgePrivateKeeps == ASSUME Inv, NEW t \in Thread, JudgePrivate(t) PROVE Keeps(t)
<1>1. ~Critical(t)
  BY DEF Inv, Orderly, OrderlyAt, JudgePrivate, Critical, Common
<1>2. mutex' = mutex /\ forgotten' = forgotten /\ use_tag' \in Tag /\ calls' \in 0..MaxCalls
  BY DEF JudgePrivate, globals, Inv, ShapeInv
<1>3. PrivateValue(loc[t]) \in {"ok", "positive", "negative"}
  BY DEF PrivateValue
<1>4. Finish(t, PrivateValue(loc[t]), FALSE, 1)
  BY DEF JudgePrivate
<1>5. QED  BY <1>1, <1>2, <1>3, <1>4, FinishKeeps

LEMMA ReturnKeeps == ASSUME Inv, NEW t \in Thread, Return(t) PROVE Keeps(t)
<1> DEFINE p == IF loc[t].op = "lookup" /\ loc[t].value # "negative" /\ ~loc[t].list
                THEN "crashed" ELSE "idle"
<1>1. p \in PC /\ NoLocal \in Local
  BY NoLocalTyped DEF PC
<1>2. OrderlyAt(p, NoLocal) /\ ~CriticalAt(p, NoLocal)
  BY DEF OrderlyAt, CriticalAt, NoLocal, Private, Common
<1>3. ~Critical(t)
  BY DEF Critical, Return, At
<1>4. QED  BY <1>1, <1>2, <1>3, Quiet DEF Return, Go, globals, Inv, ShapeInv

-----------------------------------------------------------------------------
LEMMA InvInit == Init => Inv
<1> SUFFICES ASSUME Init PROVE Inv
  OBVIOUS
<1>1. ShapeInv
  BY NoLocalTyped, NoTag, Bounds DEF Init, ShapeInv, PC
<1>2. \A t \in Thread : ~Critical(t)
  BY DEF Init, Critical, At
<1>3. \A t \in Thread : OrderlyAt("idle", NoLocal) /\ Locks(t)
  BY <1>2 DEF Init, OrderlyAt, Locks, LockedFor, NoLocal, Private, Common
<1>4. \A t \in Thread : Orderly(t)
  BY <1>3 DEF Init, Orderly
<1>5. \A t \in Thread : mutex[t] = 0
  BY DEF Init
<1>6. QED  BY <1>1, <1>3, <1>4, <1>5 DEF Inv

LEMMA InvFrame ==
    ASSUME Inv, UNCHANGED <<use_tag, calls, mutex, forgotten, pc, loc>> PROVE Inv'
<1>1. ShapeInv'
  BY DEF Inv, ShapeInv
<1>2. \A t \in Thread : (Orderly(t)' <=> Orderly(t)) /\ (Critical(t)' <=> Critical(t))
  BY DEF Orderly, OrderlyAt, Critical, At
<1>3. \A t \in Thread : Locks(t)' <=> Locks(t)
  BY <1>2 DEF Locks, LockedFor
<1>4. QED  BY <1>1, <1>2, <1>3 DEF Inv

LEMMA StepKeeps == ASSUME Inv, NEW t \in Thread, Step(t) PROVE Keeps(t)
  BY ClosingKeeps, OpenKeeps, OpenFailsKeeps, SetProtocolKeeps, LoadTagKeeps,
     StoreTagKeeps, ChooseKeeps, AcquireKeeps, SendTagKeeps, FormatKeeps, SendKeeps,
     SendFailsKeeps, GetTagKeeps, ReceiveKeeps, ReceiveFailsKeeps,
     JudgeListDevicesKeeps, DropListKeeps, JudgeListenKeeps, GiveUpKeeps, LowerKeeps,
     RaiseKeeps, CollectKeeps, JudgeConnectKeeps, JudgePrivateKeeps, ReturnKeeps, Zenon
  DEF Step

LEMMA InvStep == ASSUME Inv, NEW t \in Thread, Step(t) PROVE Inv'
  BY StepKeeps, KeepsInv

LEMMA InvNext == ASSUME Inv, [Next]_vars PROVE Inv'
<1>1. ASSUME NEW t \in Thread, Call(t) PROVE Inv'
  BY <1>1, CallKeeps, KeepsInv
<1>2. ASSUME NEW t \in Thread, Step(t) PROVE Inv'
  BY <1>2, InvStep
<1>3. ASSUME NEW t \in Thread, Disconnect(t) PROVE Inv'
  BY <1>3, InvFrame DEF Disconnect, globals
<1>4. ASSUME NEW n \in Fd, DaemonCloses(n) PROVE Inv'
  BY <1>4, InvFrame DEF DaemonCloses, globals
<1>5. CASE UNCHANGED vars
  BY <1>5, InvFrame DEF vars
<1>6. QED  BY <1>1, <1>2, <1>3, <1>4, <1>5 DEF Next

\* g_mutex is held by one thread at a time, while it listens, and beyond that only by
\* a thread that ran out of memory while it collected: every other path of
\* usbmuxd_get_device_list and usbmuxd_listen gives it back, whatever the daemon, the
\* threads and the faults.
THEOREM LockIsDisciplined == Spec => []LockDiscipline
<1>1. Inv /\ [Next]_vars => Inv'
  BY InvNext
<1>2. Inv => LockDiscipline
  BY DEF Inv, Locks, LockedFor, LockDiscipline
<1>3. QED  BY InvInit, <1>1, <1>2, PTL DEF Spec

-----------------------------------------------------------------------------
(* What each step does to the locals of its thread.                        *)

Who(m, l) == m.op = l.op /\ m.id = l.id /\ m.fd = l.fd
Asked(m, l) == m.msg = l.msg /\ m.format = l.format
Tagged(m, l) == m.tag = l.tag /\ m.expected = l.expected
Heard(m, l) == m.ret = l.ret /\ m.res = l.res

LEMMA Locals == ASSUME Inv, NEW t \in Thread PROVE loc[t] \in Local
  BY DEF Inv, ShapeInv

LEMMA Goes ==
    ASSUME Inv, NEW t \in Thread, NEW p, Go(t, p) PROVE pc'[t] = p
  BY DEF Inv, ShapeInv, Go

LEMMA CloseThenDoes ==
    ASSUME Inv, NEW t \in Thread, NEW l \in Local, NEW n \in Nat, NEW where \in PC,
           CloseThen(t, l, n, where)
    PROVE  /\ Who(loc'[t], l) /\ Asked(loc'[t], l) /\ Tagged(loc'[t], l)
           /\ Heard(loc'[t], l)
           /\ loc'[t].value = l.value /\ loc'[t].closes = n /\ loc'[t].next = where
           /\ pc'[t] = IF n = 0 THEN where ELSE "closing"
<1> DEFINE m == [l EXCEPT !.closes = n, !.next = where]
<1>1. loc'[t] = m /\ pc'[t] = IF n = 0 THEN where ELSE "closing"
  BY DEF CloseThen, Go, Inv, ShapeInv
<1>2. /\ m.op = l.op /\ m.id = l.id /\ m.fd = l.fd /\ m.msg = l.msg /\ m.format = l.format
      /\ m.tag = l.tag /\ m.expected = l.expected /\ m.ret = l.ret /\ m.res = l.res
      /\ m.value = l.value /\ m.closes = n /\ m.next = where
  BY DEF Local
<1> HIDE DEF m
<1>3. QED  BY <1>1, <1>2 DEF Who, Asked, Tagged, Heard

LEMMA FinishDoes ==
    ASSUME Inv, NEW t \in Thread, NEW value \in {"ok", "positive", "negative"},
           NEW list \in BOOLEAN, NEW n \in Nat, Finish(t, value, list, n)
    PROVE  /\ Who(loc'[t], loc[t]) /\ Asked(loc'[t], loc[t]) /\ Heard(loc'[t], loc[t])
           /\ loc'[t].value = value /\ loc'[t].closes = n /\ loc'[t].next = "return"
           /\ pc'[t] = IF n = 0 THEN "return" ELSE "closing"
<1> DEFINE l == [loc[t] EXCEPT !.value = value, !.list = list]
<1>1. loc[t] \in Local
  BY Locals
<1>2. /\ l \in Local /\ l.op = loc[t].op /\ l.id = loc[t].id /\ l.fd = loc[t].fd
      /\ l.msg = loc[t].msg /\ l.format = loc[t].format /\ l.ret = loc[t].ret
      /\ l.res = loc[t].res /\ l.value = value
  BY <1>1 DEF Local
<1>3. CloseThen(t, l, n, "return")
  BY DEF Finish
<1> HIDE DEF l
<1>4. "return" \in PC
  BY DEF PC
<1>5. QED  BY <1>2, <1>3, <1>4, CloseThenDoes DEF Who, Asked, Heard

LEMMA FinishCloses ==
    ASSUME Inv, NEW t \in Thread, NEW value \in {"ok", "positive", "negative"},
           NEW list \in BOOLEAN, Finish(t, value, list, 1)
    PROVE  /\ Who(loc'[t], loc[t]) /\ Asked(loc'[t], loc[t]) /\ Heard(loc'[t], loc[t])
           /\ loc'[t].value = value /\ loc'[t].closes = 1 /\ loc'[t].next = "return"
           /\ pc'[t] = "closing"
<1>1. \A n \in Nat : Finish(t, value, list, n) =>
          /\ Who(loc'[t], loc[t]) /\ Asked(loc'[t], loc[t]) /\ Heard(loc'[t], loc[t])
          /\ loc'[t].value = value /\ loc'[t].closes = n /\ loc'[t].next = "return"
          /\ pc'[t] = IF n = 0 THEN "return" ELSE "closing"
  BY FinishDoes
<1>2. QED  BY <1>1

LEMMA RetryDoes ==
    ASSUME NEW l \in Local
    PROVE  /\ Retry(l) \in Local /\ Who(Retry(l), l) /\ Heard(Retry(l), l)
           /\ Retry(l).msg = FirstMessage(l.op) /\ Retry(l).value = l.value
           /\ Retry(l).format = l.format
<1> DEFINE m == FirstMessage(l.op)
<1>1. m \in MessageType
  BY Messages DEF Local
<1>2. Retry(l) = [l EXCEPT !.msg = m]
  BY DEF Retry
<1> HIDE DEF m
<1>3. QED  BY <1>1, <1>2 DEF Local, Who, Heard, m

LEMMA ClosingDoes ==
    ASSUME Inv, NEW t \in Thread, Closing(t)
    PROVE  /\ pc[t] = "closing"
           /\ Who(loc'[t], loc[t]) /\ Asked(loc'[t], loc[t]) /\ Heard(loc'[t], loc[t])
           /\ loc'[t].value = loc[t].value /\ loc'[t].closes = loc[t].closes - 1
           /\ loc'[t].next = loc[t].next
           /\ pc'[t] = IF loc[t].closes = 1 THEN loc[t].next ELSE "closing"
<1>1. /\ loc[t].closes # 0 /\ loc[t].next \in PC /\ pc[t] = "closing" /\ loc[t] \in Local
  BY DEF Inv, ShapeInv, Orderly, OrderlyAt, Closing, At, Exits, PC
<1>2. loc[t].closes - 1 \in Nat /\ (loc[t].closes - 1 = 0 <=> loc[t].closes = 1)
  BY <1>1 DEF Local
<1>3. CloseThen(t, loc[t], loc[t].closes - 1, loc[t].next)
  BY DEF Closing
<1> DEFINE n == loc[t].closes - 1
<1> HIDE DEF n
<1>4. CloseThen(t, loc[t], n, loc[t].next) /\ n \in Nat
  BY <1>2, <1>3 DEF n
<1>5. /\ Who(loc'[t], loc[t]) /\ Asked(loc'[t], loc[t]) /\ Heard(loc'[t], loc[t])
      /\ loc'[t].value = loc[t].value /\ loc'[t].closes = n
      /\ loc'[t].next = loc[t].next
      /\ pc'[t] = IF n = 0 THEN loc[t].next ELSE "closing"
  BY <1>1, <1>4, CloseThenDoes
<1>6. QED  BY <1>1, <1>2, <1>5 DEF n

LEMMA CallDoes ==
    ASSUME Inv, NEW t \in Thread, Call(t)
    PROVE  /\ pc[t] = "idle" /\ pc'[t] = "open"
           /\ calls' = calls + 1 /\ calls' \in 1..MaxCalls
           /\ loc'[t].op \in Op /\ loc'[t].id = calls'
           /\ loc'[t].msg = FirstMessage(loc'[t].op) /\ loc'[t].format = "plist"
<1>1. PICK o \in Ops : loc' = [loc EXCEPT ![t] = [NoLocal EXCEPT !.op = o, !.id = calls + 1,
                                                                 !.msg = FirstMessage(o)]]
  BY DEF Call
<1> DEFINE l == [NoLocal EXCEPT !.op = o, !.id = calls + 1, !.msg = FirstMessage(o)]
<1>2. l.op = o /\ l.id = calls + 1 /\ l.msg = FirstMessage(o) /\ l.format = "plist"
  BY DEF NoLocal
<1>3. loc'[t] = l
  BY <1>1 DEF Inv, ShapeInv
<1> HIDE DEF l
<1>4. calls + 1 \in 1..MaxCalls /\ o \in Op
  BY RequestsAssumption, Bounds DEF Call, Inv, ShapeInv
<1>5. QED
  BY <1>2, <1>3, <1>4 DEF Call, Inv, ShapeInv, Go, At

LEMMA OpenDoes ==
    ASSUME Inv, NEW t \in Thread, Open(t)
    PROVE  \E n \in Fd :
               /\ fds[n] = NULL
               /\ fds' = [fds EXCEPT ![n] = [id |-> loc[t].id, state |-> "new",
                                             sent |-> << >>]]
               /\ loc'[t].fd = n /\ loc'[t].op = loc[t].op /\ loc'[t].id = loc[t].id
               /\ Asked(loc'[t], loc[t])
               /\ pc[t] = "open"
               /\ pc'[t] = IF loc[t].op \in Private THEN "protocol" ELSE "load"
<1>1. PICK n \in Fd :
          /\ fds[n] = NULL
          /\ fds' = [fds EXCEPT ![n] = [id |-> loc[t].id, state |-> "new", sent |-> << >>]]
          /\ loc' = [loc EXCEPT ![t].fd = n]
  BY DEF Open, Free
<1> DEFINE l == [loc[t] EXCEPT !.fd = n]
<1>2. loc'[t] = l /\ loc[t] \in Local
  BY <1>1 DEF Inv, ShapeInv
<1>3. /\ l.fd = n /\ l.op = loc[t].op /\ l.id = loc[t].id /\ l.msg = loc[t].msg
      /\ l.format = loc[t].format
  BY <1>2 DEF Local
<1> HIDE DEF l
<1>4. pc[t] = "open" /\ pc'[t] = IF loc[t].op \in Private THEN "protocol" ELSE "load"
  BY DEF Open, At, Go, Inv, ShapeInv
<1>5. QED  BY <1>1, <1>2, <1>3, <1>4 DEF Asked

LEMMA OpenFailsDoes ==
    ASSUME Inv, NEW t \in Thread, OpenFails(t)
    PROVE  /\ pc[t] = "open" /\ pc'[t] = "return"
           /\ Who(loc'[t], loc[t]) /\ Asked(loc'[t], loc[t])
           /\ loc'[t].value = "negative"
<1> DEFINE l == [loc[t] EXCEPT !.value = "negative", !.list = FALSE]
<1>1. loc'[t] = l /\ loc[t] \in Local
  BY DEF OpenFails, Inv, ShapeInv
<1>2. /\ l.op = loc[t].op /\ l.id = loc[t].id /\ l.fd = loc[t].fd /\ l.msg = loc[t].msg
      /\ l.format = loc[t].format /\ l.value = "negative"
  BY <1>1 DEF Local
<1> HIDE DEF l
<1>3. QED  BY <1>1, <1>2 DEF OpenFails, At, Go, Inv, ShapeInv, Who, Asked

LEMMA LoadTagDoes ==
    ASSUME Inv, NEW t \in Thread, LoadTag(t)
    PROVE  /\ pc[t] = "load" /\ pc'[t] = "store"
           /\ Who(loc'[t], loc[t]) /\ Asked(loc'[t], loc[t])
<1> DEFINE l == [loc[t] EXCEPT !.reg = use_tag]
<1>1. loc'[t] = l /\ loc[t] \in Local
  BY DEF LoadTag, Inv, ShapeInv
<1>2. /\ l.op = loc[t].op /\ l.id = loc[t].id /\ l.fd = loc[t].fd /\ l.msg = loc[t].msg
      /\ l.format = loc[t].format
  BY <1>1 DEF Local
<1> HIDE DEF l
<1>3. QED  BY <1>1, <1>2 DEF LoadTag, At, Go, Inv, ShapeInv, Who, Asked

LEMMA StoreTagDoes ==
    ASSUME Inv, NEW t \in Thread, StoreTag(t)
    PROVE  /\ pc[t] = "store"
           /\ loc[t].op \in Private => pc'[t] = "send" /\ loc'[t].tag = loc'[t].expected
           /\ loc[t].op \notin Private /\ loc[t].msg = "ListDevices" => pc'[t] = "choose"
           /\ loc[t].op \notin Private /\ loc[t].msg = "Listen" => pc'[t] = "lock"
           /\ loc[t].op \notin Private /\ loc[t].msg = "Connect" => pc'[t] = "sendtag"
           /\ Who(loc'[t], loc[t]) /\ Asked(loc'[t], loc[t])
<1> DEFINE s == Successor(loc[t].reg)
           l == [loc[t] EXCEPT !.tag = s, !.expected = s]
<1>1. /\ loc[t] \in Local /\ pc[t] = "store"
      /\ pc'[t] = IF loc[t].op \in Private THEN "send"
                  ELSE [ListDevices |-> "choose", Listen |-> "lock", Connect |-> "sendtag"]
                           [loc[t].msg]
      /\ loc[t].op \in Private => loc'[t] = l
      /\ loc[t].op \notin Private => loc'[t] = loc[t]
  BY DEF StoreTag, At, Go, Inv, ShapeInv
<1> HIDE DEF s
<1>2. /\ l.op = loc[t].op /\ l.id = loc[t].id /\ l.fd = loc[t].fd /\ l.msg = loc[t].msg
      /\ l.format = loc[t].format /\ l.tag = l.expected
  BY <1>1 DEF Local
<1> HIDE DEF l
<1>3. QED  BY <1>1, <1>2 DEF Who, Asked

LEMMA ChooseDoes ==
    ASSUME Inv, NEW t \in Thread, Choose(t)
    PROVE  /\ pc[t] = "choose"
           /\ Who(loc'[t], loc[t]) /\ loc'[t].format = loc[t].format
           /\ \/ /\ proto_version = 1 /\ try_list_devices
                 /\ pc'[t] = "sendtag" /\ loc'[t].msg = loc[t].msg
              \/ pc'[t] = "load" /\ loc'[t].msg = "Listen"
<1> DEFINE l == [loc[t] EXCEPT !.msg = "Listen"]
<1>1. loc[t] \in Local
  BY Locals
<1>2. /\ l.op = loc[t].op /\ l.id = loc[t].id /\ l.fd = loc[t].fd /\ l.msg = "Listen"
      /\ l.format = loc[t].format
  BY <1>1 DEF Local
<1>3. \/ proto_version = 1 /\ try_list_devices /\ loc'[t] = loc[t] /\ pc'[t] = "sendtag"
      \/ loc'[t] = l /\ pc'[t] = "load"
  BY DEF Choose, Go, Inv, ShapeInv
<1> HIDE DEF l
<1>4. QED  BY <1>2, <1>3 DEF Choose, At, Who

LEMMA SendTagDoes ==
    ASSUME Inv, NEW t \in Thread, SendTag(t)
    PROVE  /\ pc[t] = "sendtag"
           /\ pc'[t] = IF loc[t].msg = "ListDevices" THEN "send" ELSE "format"
           /\ Who(loc'[t], loc[t]) /\ loc'[t].msg = loc[t].msg
           /\ loc'[t].tag = use_tag /\ loc'[t].format = "plist"
<1> DEFINE l == [loc[t] EXCEPT !.tag = use_tag, !.format = "plist"]
<1>1. loc'[t] = l /\ loc[t] \in Local
  BY DEF SendTag, Inv, ShapeInv
<1>2. /\ l.op = loc[t].op /\ l.id = loc[t].id /\ l.fd = loc[t].fd /\ l.msg = loc[t].msg
      /\ l.format = "plist" /\ l.tag = use_tag
  BY <1>1 DEF Local
<1> HIDE DEF l
<1>3. QED  BY <1>1, <1>2 DEF SendTag, At, Go, Inv, ShapeInv, Who

LEMMA FormatDoes ==
    ASSUME Inv, NEW t \in Thread, Format(t)
    PROVE  /\ pc[t] = "format" /\ pc'[t] = "send"
           /\ Who(loc'[t], loc[t]) /\ Tagged(loc'[t], loc[t]) /\ loc'[t].msg = loc[t].msg
           /\ loc'[t].format = IF proto_version = 1 THEN "plist" ELSE "binary"
<1> DEFINE f == IF proto_version = 1 THEN "plist" ELSE "binary"
           l == [loc[t] EXCEPT !.format = f]
<1>1. loc'[t] = l /\ loc[t] \in Local
  BY DEF Format, Inv, ShapeInv
<1> HIDE DEF f
<1>2. /\ l.op = loc[t].op /\ l.id = loc[t].id /\ l.fd = loc[t].fd /\ l.msg = loc[t].msg
      /\ l.tag = loc[t].tag /\ l.expected = loc[t].expected /\ l.format = f
  BY <1>1 DEF Local
<1> HIDE DEF l
<1>3. QED  BY <1>1, <1>2 DEF Format, At, Go, Inv, ShapeInv, Who, Tagged, f

LEMMA GetTagDoes ==
    ASSUME Inv, NEW t \in Thread, GetTag(t)
    PROVE  /\ pc[t] = "gettag" /\ pc'[t] = "receive"
           /\ Who(loc'[t], loc[t]) /\ Asked(loc'[t], loc[t])
           /\ loc'[t].tag = loc[t].tag /\ loc'[t].expected = use_tag
<1> DEFINE l == [loc[t] EXCEPT !.expected = use_tag]
<1>1. loc'[t] = l /\ loc[t] \in Local
  BY DEF GetTag, Inv, ShapeInv
<1>2. /\ l.op = loc[t].op /\ l.id = loc[t].id /\ l.fd = loc[t].fd /\ l.msg = loc[t].msg
      /\ l.format = loc[t].format /\ l.tag = loc[t].tag /\ l.expected = use_tag
  BY <1>1 DEF Local
<1> HIDE DEF l
<1>3. QED  BY <1>1, <1>2 DEF GetTag, At, Go, Inv, ShapeInv, Who, Asked

LEMMA SendFailsDoes ==
    ASSUME Inv, NEW t \in Thread, SendFails(t)
    PROVE  /\ pc[t] = "send" /\ fds' = Close(fds, loc[t].fd) /\ Broken(t)
           /\ Who(loc'[t], loc[t]) /\ loc'[t].value = "negative"
           /\ loc'[t].next \in {"load", "unlock", "return"}
           /\ pc'[t] \in {"closing", loc'[t].next}
           /\ \/ loc'[t].msg = loc[t].msg
              \/ /\ loc[t].msg = "ListDevices" /\ loc'[t].msg = "Listen"
                 /\ loc'[t].next = "load"
<1> DEFINE l == [loc[t] EXCEPT !.res = "none", !.value = "negative"]
           m == [l EXCEPT !.msg = "Listen"]
<1>1. loc[t] \in Local
  BY Locals
<1>2. /\ l \in Local /\ l.op = loc[t].op /\ l.id = loc[t].id /\ l.fd = loc[t].fd
      /\ l.msg = loc[t].msg /\ l.value = "negative"
  BY <1>1 DEF Local, Code
<1>3. PICK again \in {0, 1} :
          \/ loc[t].msg = "ListDevices" /\ CloseThen(t, m, again, "load")
          \/ CloseThen(t, l, again, "unlock")
          \/ CloseThen(t, l, again + 1, "return")
  BY DEF SendFails
<1> HIDE DEF l
<1>4. m \in Local /\ Who(m, loc[t]) /\ m.msg = "Listen" /\ m.value = "negative"
  BY <1>2 DEF Local, Who, MessageType
<1>5. again \in Nat /\ again + 1 \in Nat /\ {"load", "unlock", "return"} \subseteq PC
  BY DEF PC
<1> HIDE DEF m
<1>6. CASE loc[t].msg = "ListDevices" /\ CloseThen(t, m, again, "load")
  BY <1>4, <1>5, <1>6, CloseThenDoes DEF SendFails, At, Who, Asked
<1>7. CASE CloseThen(t, l, again, "unlock")
  BY <1>2, <1>5, <1>7, CloseThenDoes DEF SendFails, At, Who, Asked
<1>8. CASE CloseThen(t, l, again + 1, "return")
  BY <1>2, <1>5, <1>8, CloseThenDoes DEF SendFails, At, Who, Asked
<1>9. QED  BY <1>3, <1>6, <1>7, <1>8

LEMMA GotResultDoes ==
    ASSUME Inv, NEW t \in Thread, NEW r, GotResult(t, r)
    PROVE  /\ pc'[t] = "judge"
           /\ Who(loc'[t], loc[t]) /\ loc'[t].msg = loc[t].msg /\ loc'[t].format = "plist"
           /\ loc'[t].ret = r[1] /\ loc'[t].res = r[2]
<1> DEFINE a == r[1]
           b == r[2]
           l == [loc[t] EXCEPT !.ret = a, !.res = b, !.reg = 0, !.tag = 0, !.expected = 0,
                               !.format = "plist"]
<1>1. loc'[t] = l /\ loc[t] \in Local /\ pc'[t] = "judge"
  BY DEF GotResult, Go, Inv, ShapeInv
<1> HIDE DEF a, b
<1>2. /\ l.op = loc[t].op /\ l.id = loc[t].id /\ l.fd = loc[t].fd /\ l.msg = loc[t].msg
      /\ l.format = "plist" /\ l.ret = a /\ l.res = b
  BY <1>1 DEF Local
<1> HIDE DEF l
<1>3. QED  BY <1>1, <1>2 DEF Who, a, b

LEMMA JudgeListDevicesDoes ==
    ASSUME Inv, NEW t \in Thread, JudgeListDevices(t)
    PROVE  /\ pc[t] = "judge" /\ loc[t].msg = "ListDevices"
           /\ Who(loc'[t], loc[t]) /\ loc'[t].format = loc[t].format
           /\ \/ /\ Granted(t)
                 /\ loc'[t].value \in {"ok", "negative"}
                 /\ loc'[t].value = "negative" => AllocFails
                 /\ pc'[t] = "closing" /\ loc'[t].next = "return" /\ loc'[t].closes = 1
                 /\ loc'[t].msg = loc[t].msg /\ proto_version' = proto_version
              \/ /\ loc[t].ret = 1 /\ loc[t].res = "empty"
                 /\ pc'[t] = "load" /\ loc'[t].msg = "Listen"
                 /\ proto_version' = proto_version
              \/ /\ loc[t].ret # 1 \/ loc[t].res \notin {"ok", "empty"}
                 /\ pc'[t] = "closing" /\ loc'[t].next = "droplist" /\ loc'[t].closes = 1
                 /\ loc'[t].msg = loc[t].msg
                 /\ proto_version' = IF loc[t].res = "badversion" THEN 0 ELSE proto_version
<1>1. pc[t] = "judge" /\ loc[t].msg = "ListDevices" /\ loc[t] \in Local
  BY Locals DEF JudgeListDevices, At
<1>2. ASSUME Granted(t), NEW v \in {"ok", "negative"}, NEW b \in BOOLEAN, Finish(t, v, b, 1),
             v = "negative" => AllocFails, proto_version' = proto_version
      PROVE  /\ Who(loc'[t], loc[t]) /\ loc'[t].format = loc[t].format
             /\ loc'[t].value \in {"ok", "negative"}
             /\ loc'[t].value = "negative" => AllocFails
             /\ pc'[t] = "closing" /\ loc'[t].next = "return" /\ loc'[t].closes = 1
             /\ loc'[t].msg = loc[t].msg
  BY <1>2, FinishDoes DEF Asked
<1>3. ASSUME loc' = [loc EXCEPT ![t].msg = "Listen"], Go(t, "load")
      PROVE  /\ Who(loc'[t], loc[t]) /\ loc'[t].format = loc[t].format
             /\ pc'[t] = "load" /\ loc'[t].msg = "Listen"
  BY <1>1, <1>3, Goes DEF Inv, ShapeInv, Local, Who
<1>4. ASSUME CloseThen(t, loc[t], 1, "droplist")
      PROVE  /\ Who(loc'[t], loc[t]) /\ loc'[t].format = loc[t].format
             /\ pc'[t] = "closing" /\ loc'[t].next = "droplist" /\ loc'[t].closes = 1
             /\ loc'[t].msg = loc[t].msg
  <2>1. "droplist" \in PC
    BY DEF PC
  <2>2. QED  BY <1>1, <1>4, <2>1, CloseThenDoes DEF Asked
<1>5. CASE /\ Granted(t)
           /\ \/ Finish(t, "ok", TRUE, 1) /\ UNCHANGED faults
              \/ AllocFails /\ Finish(t, "negative", FALSE, 1)
           /\ UNCHANGED proto_version
  <2>1. CASE Finish(t, "ok", TRUE, 1)
    BY <1>1, <1>2, <1>5, <2>1
  <2>2. CASE AllocFails /\ Finish(t, "negative", FALSE, 1)
    BY <1>1, <1>2, <1>5, <2>2
  <2>3. QED  BY <1>5, <2>1, <2>2
<1>6. CASE /\ loc[t].ret = 1 /\ loc[t].res = "empty"
           /\ loc' = [loc EXCEPT ![t].msg = "Listen"]
           /\ Go(t, "load")
           /\ UNCHANGED <<proto_version, faults>>
  BY <1>1, <1>3, <1>6
<1>7. CASE /\ loc[t].ret # 1 \/ loc[t].res \notin {"ok", "empty"}
           /\ proto_version' = IF loc[t].res = "badversion" THEN 0 ELSE proto_version
           /\ CloseThen(t, loc[t], 1, "droplist")
           /\ UNCHANGED faults
  BY <1>1, <1>4, <1>7
<1>8. QED  BY <1>5, <1>6, <1>7 DEF JudgeListDevices

LEMMA DropListDoes ==
    ASSUME Inv, NEW t \in Thread, DropList(t)
    PROVE  /\ pc[t] = "droplist" /\ pc'[t] = "open"
           /\ Who(loc'[t], loc[t]) /\ Heard(loc'[t], loc[t])
           /\ loc'[t].format = loc[t].format
           /\ loc'[t].msg = FirstMessage(loc[t].op)
<1>1. loc'[t] = Retry(loc[t]) /\ loc[t] \in Local /\ pc[t] = "droplist" /\ pc'[t] = "open"
  BY DEF DropList, At, Go, Inv, ShapeInv
<1>2. QED  BY <1>1, RetryDoes

LEMMA JudgeListenDoes ==
    ASSUME Inv, NEW t \in Thread, JudgeListen(t)
    PROVE  /\ pc[t] = "judge" /\ loc[t].msg = "Listen"
           /\ Who(loc'[t], loc[t]) /\ Asked(loc'[t], loc[t]) /\ Heard(loc'[t], loc[t])
           /\ \/ loc[t].op = "listen" /\ pc'[t] = "return" /\ loc'[t].value = "ok"
              \/ /\ loc[t].op = "listen" => loc[t].ret # 0 /\ loc[t].res # "ok"
                 /\ loc[t].op # "listen" => ~Granted(t)
                 /\ pc'[t] = "unlock"
              \/ loc[t].op # "listen" /\ Granted(t) /\ pc'[t] = "collect"
<1>1. pc[t] = "judge" /\ loc[t].msg = "Listen"
  BY DEF JudgeListen, At
<1>2. CASE loc[t].op = "listen" /\ ~(loc[t].ret # 0 /\ loc[t].res # "ok")
  <2>1. Finish(t, "ok", FALSE, 0)
    BY <1>2 DEF JudgeListen
  <2>2. QED  BY <1>1, <1>2, <2>1, FinishDoes
<1>3. CASE ~(loc[t].op = "listen" /\ ~(loc[t].ret # 0 /\ loc[t].res # "ok"))
  <2>1. /\ loc'[t] = loc[t]
        /\ pc'[t] = IF loc[t].op # "listen" /\ Granted(t) THEN "collect" ELSE "unlock"
    BY <1>3 DEF JudgeListen, Go, Inv, ShapeInv
  <2>2. QED  BY <1>1, <1>3, <2>1 DEF Who, Asked, Heard
<1>4. QED  BY <1>2, <1>3

LEMMA GiveUpDoes ==
    ASSUME Inv, NEW t \in Thread, GiveUp(t)
    PROVE  /\ pc[t] = "unlock" /\ pc'[t] = "closing" /\ loc'[t].closes = 1
           /\ loc'[t].next = IF loc[t].op = "listen" THEN "raise" ELSE "lower"
           /\ Who(loc'[t], loc[t]) /\ Asked(loc'[t], loc[t]) /\ Heard(loc'[t], loc[t])
<1> DEFINE where == IF loc[t].op = "listen" THEN "raise" ELSE "lower"
<1>1. where \in PC /\ loc[t] \in Local /\ CloseThen(t, loc[t], 1, where) /\ pc[t] = "unlock"
  BY Locals DEF GiveUp, At, PC
<1> HIDE DEF where
<1>2. QED  BY <1>1, CloseThenDoes DEF where

LEMMA LowerDoes ==
    ASSUME Inv, NEW t \in Thread, Lower(t)
    PROVE  /\ pc[t] = "lower"
           /\ Who(loc'[t], loc[t]) /\ Heard(loc'[t], loc[t])
           /\ loc'[t].format = loc[t].format
           /\ \/ /\ loc[t].res = "badversion" /\ proto_version = 1 /\ proto_version' = 0
                 /\ pc'[t] = "open" /\ loc'[t].msg = FirstMessage(loc[t].op)
              \/ /\ ~(loc[t].res = "badversion" /\ proto_version = 1)
                 /\ proto_version' = proto_version
                 /\ pc'[t] = "return" /\ loc'[t].value \in {"negative", "positive"}
                 /\ loc'[t].msg = loc[t].msg
<1>1. CASE loc[t].res = "badversion" /\ proto_version = 1
  <2>1. /\ loc'[t] = Retry(loc[t]) /\ loc[t] \in Local /\ pc'[t] = "open" /\ pc[t] = "lower"
        /\ proto_version' = 0
    BY <1>1 DEF Lower, At, Go, Inv, ShapeInv
  <2>2. QED  BY <1>1, <2>1, RetryDoes
<1>2. CASE ~(loc[t].res = "badversion" /\ proto_version = 1)
  <2>1. /\ \E v \in {"negative", "positive"} : Finish(t, v, FALSE, 0)
        /\ pc[t] = "lower" /\ proto_version' = proto_version
    BY <1>2 DEF Lower, At
  <2>2. QED  BY <1>2, <2>1, FinishDoes DEF Asked
<1>3. QED  BY <1>1, <1>2

LEMMA RaiseDoes ==
    ASSUME Inv, NEW t \in Thread, Raise(t)
    PROVE  /\ pc[t] = "raise"
           /\ Who(loc'[t], loc[t]) /\ Heard(loc'[t], loc[t])
           /\ loc'[t].format = loc[t].format
           /\ \/ /\ proto_version' = 1
                 /\ pc'[t] = "open" /\ loc'[t].msg = FirstMessage(loc[t].op)
              \/ /\ proto_version' = proto_version
                 /\ pc'[t] = "return" /\ loc'[t].value = "negative"
                 /\ loc'[t].msg = loc[t].msg
<1>1. CASE loc[t].res = "badversion" /\ proto_version # 1
  <2>1. /\ loc'[t] = Retry(loc[t]) /\ loc[t] \in Local /\ pc'[t] = "open" /\ pc[t] = "raise"
        /\ proto_version' = 1
    BY <1>1 DEF Raise, At, Go, Inv, ShapeInv
  <2>2. QED  BY <2>1, RetryDoes
<1>2. CASE ~(loc[t].res = "badversion" /\ proto_version # 1)
  <2>1. Finish(t, "negative", FALSE, 0) /\ pc[t] = "raise" /\ proto_version' = proto_version
    BY <1>2 DEF Raise, At
  <2>2. QED  BY <2>1, FinishDoes DEF Asked
<1>3. QED  BY <1>1, <1>2

LEMMA CollectDoes ==
    ASSUME Inv, NEW t \in Thread, Collect(t)
    PROVE  /\ pc[t] = "collect" /\ pc'[t] = "closing"
           /\ loc'[t].next = "return" /\ loc'[t].closes = 1
           /\ Who(loc'[t], loc[t]) /\ Asked(loc'[t], loc[t]) /\ Heard(loc'[t], loc[t])
           /\ \/ /\ loc'[t].value = "ok" /\ faults' = faults
                 /\ fds' = IF Broken(t) THEN Close(fds, loc[t].fd) ELSE fds
              \/ loc'[t].value = "negative" /\ AllocFails /\ fds' = fds
<1>1. pc[t] = "collect"
  BY DEF Collect, At
<1>2. CASE /\ Finish(t, "ok", TRUE, 1) /\ faults' = faults
           /\ fds' = IF Broken(t) THEN Close(fds, loc[t].fd) ELSE fds
  BY <1>1, <1>2, FinishCloses
<1>3. CASE AllocFails /\ Finish(t, "negative", FALSE, 1) /\ fds' = fds
  BY <1>1, <1>3, FinishCloses
<1>4. QED  BY <1>2, <1>3 DEF Collect

LEMMA JudgeConnectDoes ==
    ASSUME Inv, NEW t \in Thread, JudgeConnect(t)
    PROVE  /\ pc[t] = "judge" /\ loc[t].msg = "Connect"
           /\ Who(loc'[t], loc[t]) /\ Heard(loc'[t], loc[t])
           /\ loc'[t].format = loc[t].format
           /\ \/ /\ loc[t].res = "ok" /\ proto_version' = proto_version
                 /\ pc'[t] = "return" /\ loc'[t].value = "ok" /\ loc'[t].msg = loc[t].msg
              \/ /\ loc[t].res = "badversion" /\ proto_version = 1 /\ proto_version' = 0
                 /\ pc'[t] = "closing" /\ loc'[t].next = "open" /\ loc'[t].closes = 1
                 /\ loc'[t].msg = FirstMessage(loc[t].op)
              \/ /\ loc[t].res # "ok" /\ (loc[t].res = "badversion" => proto_version # 1)
                 /\ proto_version' = proto_version
                 /\ pc'[t] = "closing" /\ loc'[t].next = "return" /\ loc'[t].closes = 1
                 /\ loc'[t].value = "negative" /\ loc'[t].msg = loc[t].msg
<1>1. pc[t] = "judge" /\ loc[t].msg = "Connect" /\ loc[t] \in Local
  BY Locals DEF JudgeConnect, At
<1>2. CASE loc[t].res = "ok" /\ Finish(t, "ok", FALSE, 0) /\ proto_version' = proto_version
  BY <1>1, <1>2, FinishDoes DEF Asked
<1>3. CASE /\ loc[t].res = "badversion" /\ proto_version = 1 /\ proto_version' = 0
           /\ CloseThen(t, Retry(loc[t]), 1, "open")
  <2> DEFINE l == Retry(loc[t])
  <2>1. /\ l \in Local /\ Who(l, loc[t]) /\ Heard(l, loc[t])
        /\ l.msg = FirstMessage(loc[t].op) /\ l.format = loc[t].format
    BY <1>1, RetryDoes
  <2>2. CloseThen(t, l, 1, "open") /\ "open" \in PC
    BY <1>3 DEF PC
  <2> HIDE DEF l
  <2>3. QED  BY <1>1, <1>3, <2>1, <2>2, CloseThenDoes DEF Who, Heard, Asked
<1>4. CASE /\ loc[t].res # "ok" /\ (loc[t].res = "badversion" => proto_version # 1)
           /\ Finish(t, "negative", FALSE, 1) /\ proto_version' = proto_version
  BY <1>1, <1>4, FinishCloses DEF Asked
<1>5. QED  BY <1>2, <1>3, <1>4 DEF JudgeConnect

LEMMA JudgePrivateDoes ==
    ASSUME Inv, NEW t \in Thread, JudgePrivate(t)
    PROVE  /\ pc[t] = "judge" /\ loc[t].op \in Private
           /\ Who(loc'[t], loc[t]) /\ Asked(loc'[t], loc[t]) /\ Heard(loc'[t], loc[t])
           /\ loc'[t].value = PrivateValue(loc[t])
           /\ pc'[t] = "closing" /\ loc'[t].next = "return" /\ loc'[t].closes = 1
<1>1. PrivateValue(loc[t]) \in {"ok", "positive", "negative"}
  BY DEF PrivateValue
<1>2. Finish(t, PrivateValue(loc[t]), FALSE, 1) /\ pc[t] = "judge" /\ loc[t].op \in Private
  BY DEF JudgePrivate, At
<1>3. QED  BY <1>1, <1>2, FinishCloses

LEMMA ReturnDoes ==
    ASSUME Inv, NEW t \in Thread, Return(t)
    PROVE  /\ pc[t] = "return" /\ pc'[t] \in {"idle", "crashed"}
           /\ loc'[t] = NoLocal
  BY DEF Return, At, Go, Inv, ShapeInv

-----------------------------------------------------------------------------
(* Types, and what a call is about.                                        *)

Typed ==
    /\ daemon \in Daemons
    /\ proto_version \in {0, 1} /\ try_list_devices \in BOOLEAN
    /\ fds \in [Fd -> Connection \cup {NULL}]
    /\ held \in [Thread -> SUBSET [fd : Fd, id : 1..MaxCalls]]
    /\ granted \subseteq 1..MaxCalls
    /\ faults \in 0..MaxFaults

\* A call asks with its own message, or listens for the list it wants; it has a
\* descriptor once it has opened one, and when it returns one.
Sorted(t) ==
    /\ \/ loc[t].msg = FirstMessage(loc[t].op)
       \/ loc[t].op \in {"list", "lookup"} /\ loc[t].msg = "Listen"
    /\ pc[t] \notin {"idle", "open", "return", "crashed"} => loc[t].fd \in Fd
    /\ pc[t] = "return" /\ loc[t].value = "ok" => loc[t].fd \in Fd

Running(t) == pc[t] \notin {"idle", "crashed"}

\* A step of a call goes on with the call, or returns.
LEMMA StepGoesOn ==
    ASSUME Inv, NEW t \in Thread, Step(t)
    PROVE  /\ daemon' = daemon /\ calls' = calls
           /\ \A u \in Thread \ {t} : pc'[u] = pc[u] /\ loc'[u] = loc[u]
           /\ pc[t] \in PC \ {"idle", "crashed"}
           /\ \/ Return(t)
              \/ /\ held' = held
                 /\ pc'[t] \in PC \ {"idle", "crashed"}
                 /\ loc'[t].op = loc[t].op /\ loc'[t].id = loc[t].id
<1>1. \A u \in Thread \ {t} : pc'[u] = pc[u] /\ loc'[u] = loc[u]
  BY StepKeeps DEF Keeps
<1>2. pc[t] \in PC /\ pc'[t] \in PC
  BY StepKeeps DEF Keeps, Inv, ShapeInv
<1> USE <1>1, <1>2
<1>3. CASE Closing(t)
  BY <1>3, ClosingDoes DEF Closing, Who, Inv, Orderly, OrderlyAt, Exits
<1>4. CASE Open(t)
  BY <1>4, OpenDoes DEF Open
<1>5. CASE OpenFails(t)
  BY <1>5, OpenFailsDoes DEF OpenFails, Who
<1>6. CASE SetProtocol(t)
  BY <1>6, Goes DEF SetProtocol, At
<1>7. CASE LoadTag(t)
  BY <1>7, LoadTagDoes DEF LoadTag, Who
<1>8. CASE StoreTag(t)
  <2>1. loc[t].op \notin Private => loc[t].msg \in Common
    BY DEF Inv, Orderly, OrderlyAt
  <2>2. QED  BY <1>8, <2>1, StoreTagDoes DEF StoreTag, Who, Common
<1>9. CASE Choose(t)
  BY <1>9, ChooseDoes DEF Choose, Who
<1>10. CASE Acquire(t)
  BY <1>10, Goes DEF Acquire, At
<1>11. CASE SendTag(t)
  BY <1>11, SendTagDoes DEF SendTag, Who
<1>12. CASE Format(t)
  BY <1>12, FormatDoes DEF Format, Who
<1>13. CASE Send(t)
  <2>1. pc'[t] \in {"receive", "gettag"}
    BY <1>13, Goes DEF Send
  <2>2. QED  BY <1>13, <2>1 DEF Send, At
<1>14. CASE SendFails(t)
  BY <1>14, SendFailsDoes DEF SendFails, Who
<1>15. CASE GetTag(t)
  BY <1>15, GetTagDoes DEF GetTag, Who
<1>16. CASE Receive(t)
  BY <1>16, GotResultDoes DEF Receive, At, Who
<1>17. CASE ReceiveFails(t)
  BY <1>17, GotResultDoes DEF ReceiveFails, At, Who
<1>18. CASE JudgeListDevices(t)
  BY <1>18, JudgeListDevicesDoes DEF JudgeListDevices, Who
<1>19. CASE DropList(t)
  BY <1>19, DropListDoes DEF DropList, Who
<1>20. CASE JudgeListen(t)
  BY <1>20, JudgeListenDoes DEF JudgeListen, Who
<1>21. CASE GiveUp(t)
  BY <1>21, GiveUpDoes DEF GiveUp, Who
<1>22. CASE Lower(t)
  BY <1>22, LowerDoes DEF Lower, Who
<1>23. CASE Raise(t)
  BY <1>23, RaiseDoes DEF Raise, Who
<1>24. CASE Collect(t)
  BY <1>24, CollectDoes DEF Collect, Who
<1>25. CASE JudgeConnect(t)
  BY <1>25, JudgeConnectDoes DEF JudgeConnect, Who
<1>26. CASE JudgePrivate(t)
  BY <1>26, JudgePrivateDoes DEF JudgePrivate, Who
<1>27. CASE Return(t)
  BY <1>27, ReturnDoes DEF Return
<1>28. QED
  BY <1>3, <1>4, <1>5, <1>6, <1>7, <1>8, <1>9, <1>10, <1>11, <1>12, <1>13, <1>14, <1>15,
     <1>16, <1>17, <1>18, <1>19, <1>20, <1>21, <1>22, <1>23, <1>24, <1>25, <1>26, <1>27
  DEF Step

LEMMA StepSorts ==
    ASSUME Inv, NEW t \in Thread, Sorted(t), Step(t)
    PROVE  Sorted(t)'
<1>1. loc[t].op \in Op
  BY Locals DEF Local
<1>2. CASE Closing(t)
  BY <1>2, ClosingDoes DEF Sorted, Who, Asked
<1>3. CASE Open(t)
  BY <1>3, OpenDoes DEF Sorted, Asked
<1>4. CASE OpenFails(t)
  BY <1>4, OpenFailsDoes DEF Sorted, Who, Asked
<1>5. CASE SetProtocol(t)
  BY <1>5, Goes DEF SetProtocol, At, Sorted
<1>6. CASE LoadTag(t)
  BY <1>6, LoadTagDoes DEF Sorted, Who, Asked
<1>7. CASE StoreTag(t)
  <2>1. loc[t].op \notin Private => loc[t].msg \in Common
    BY DEF Inv, Orderly, OrderlyAt
  <2>2. QED  BY <1>7, <2>1, StoreTagDoes DEF Sorted, Who, Asked, Common
<1>8. CASE Choose(t)
  <2>1. loc[t].msg = "ListDevices"
    BY <1>8 DEF Choose, At, Inv, Orderly, OrderlyAt
  <2>2. loc[t].op \in {"list", "lookup"}
    BY <1>1, <2>1 DEF Sorted, FirstMessage, Op
  <2>3. QED  BY <1>8, <2>1, <2>2, ChooseDoes DEF Sorted, Who
<1>9. CASE Acquire(t)
  BY <1>9, Goes DEF Acquire, At, Sorted
<1>10. CASE SendTag(t)
  BY <1>10, SendTagDoes DEF Sorted, Who
<1>11. CASE Format(t)
  BY <1>11, FormatDoes DEF Sorted, Who
<1>12. CASE Send(t)
  <2>1. pc'[t] \in {"receive", "gettag"}
    BY <1>12, Goes DEF Send
  <2>2. QED  BY <1>12, <2>1 DEF Send, At, Sorted
<1>13. CASE SendFails(t)
  <2>1. loc[t].msg = "ListDevices" => loc[t].op \in {"list", "lookup"}
    BY <1>1 DEF Sorted, FirstMessage, Op
  <2>2. QED  BY <1>13, <2>1, SendFailsDoes DEF Sorted, Who
<1>14. CASE GetTag(t)
  BY <1>14, GetTagDoes DEF Sorted, Who, Asked
<1>15. CASE Receive(t)
  BY <1>15, GotResultDoes DEF Receive, At, Sorted, Who
<1>16. CASE ReceiveFails(t)
  BY <1>16, GotResultDoes DEF ReceiveFails, At, Sorted, Who
<1>17. CASE JudgeListDevices(t)
  <2>1. loc[t].msg = "ListDevices" => loc[t].op \in {"list", "lookup"}
    BY <1>1 DEF Sorted, FirstMessage, Op
  <2>2. QED  BY <1>17, <2>1, JudgeListDevicesDoes DEF Sorted, Who
<1>18. CASE DropList(t)
  BY <1>18, DropListDoes DEF Sorted, Who
<1>19. CASE JudgeListen(t)
  BY <1>19, JudgeListenDoes DEF Sorted, Who, Asked
<1>20. CASE GiveUp(t)
  BY <1>20, GiveUpDoes DEF Sorted, Who, Asked
<1>21. CASE Lower(t)
  BY <1>21, LowerDoes DEF Sorted, Who
<1>22. CASE Raise(t)
  BY <1>22, RaiseDoes DEF Sorted, Who
<1>23. CASE Collect(t)
  BY <1>23, CollectDoes DEF Sorted, Who, Asked
<1>24. CASE JudgeConnect(t)
  BY <1>24, JudgeConnectDoes DEF Sorted, Who
<1>25. CASE JudgePrivate(t)
  BY <1>25, JudgePrivateDoes DEF Sorted, Who, Asked
<1>26. CASE Return(t)
  <2>1. NoLocal.msg = FirstMessage(NoLocal.op)
    BY DEF NoLocal, FirstMessage
  <2>2. QED  BY <1>26, <2>1, ReturnDoes DEF Sorted
<1>27. QED
  BY <1>2, <1>3, <1>4, <1>5, <1>6, <1>7, <1>8, <1>9, <1>10, <1>11, <1>12, <1>13, <1>14,
     <1>15, <1>16, <1>17, <1>18, <1>19, <1>20, <1>21, <1>22, <1>23, <1>24, <1>25, <1>26
  DEF Step

LEMMA Packets ==
    ASSUME Inv, Typed, NEW t \in Thread, Send(t)
    PROVE  [type |-> loc[t].msg, format |-> loc[t].format, version |-> proto_version,
            tag |-> loc[t].tag, id |-> loc[t].id] \in Packet
  BY Locals DEF Local, Packet, Typed

LEMMA OnePacket ==
    ASSUME NEW s \in Seq(Packet), Len(s) = 1
    PROVE  s # << >> /\ Tail(s) = << >>
<1>1. s # << >>
  BY EmptySeq
<1>2. Tail(s) \in Seq(Packet) /\ Len(Tail(s)) = 0
  BY <1>1, HeadTailProperties
<1>3. QED  BY <1>1, <1>2, EmptySeq

\* What the actions do to the table of descriptors.
LEMMA Closes ==
    ASSUME Typed, NEW n
    PROVE  /\ Close(fds, n) \in [Fd -> Connection \cup {NULL}]
           /\ \A m \in Fd : Close(fds, n)[m] = IF m = n THEN NULL ELSE fds[m]
  BY DEF Typed, Close

LEMMA Sends ==
    ASSUME Inv, Typed, NEW t \in Thread, Send(t), loc[t].fd \in Fd
    PROVE  /\ fds' \in [Fd -> Connection \cup {NULL}]
           /\ \A m \in Fd \ {loc[t].fd} : fds'[m] = fds[m]
           /\ fds[loc[t].fd] # NULL /\ fds'[loc[t].fd] # NULL
           /\ fds'[loc[t].fd].id = fds[loc[t].fd].id
           /\ fds'[loc[t].fd].state = fds[loc[t].fd].state
           /\ fds'[loc[t].fd].sent =
                  Append(fds[loc[t].fd].sent,
                         [type |-> loc[t].msg, format |-> loc[t].format,
                          version |-> proto_version, tag |-> loc[t].tag,
                          id |-> loc[t].id])
<1> DEFINE n == loc[t].fd
           p == [type |-> loc[t].msg, format |-> loc[t].format, version |-> proto_version,
                 tag |-> loc[t].tag, id |-> loc[t].id]
           s == Append(fds[n].sent, p)
           c == [fds[n] EXCEPT !.sent = s]
<1>1. p \in Packet /\ fds[n] # NULL /\ fds' = [fds EXCEPT ![n] = c]
  BY Packets DEF Send
<1> HIDE DEF p
<1>2. fds[n] \in Connection
  BY <1>1 DEF Typed
<1>3. s \in Seq(Packet)
  BY <1>1, <1>2 DEF Connection
<1> HIDE DEF s
<1>4. c \in Connection /\ c.id = fds[n].id /\ c.state = fds[n].state /\ c.sent = s
  BY <1>3, <1>2 DEF Connection
<1>5. c # NULL
  BY <1>4, RequestsAssumption
<1> HIDE DEF c
<1>6. QED  BY <1>1, <1>4, <1>5 DEF Typed, p, s

LEMMA Serves ==
    ASSUME Typed, NEW n \in Fd, fds[n] # NULL, fds[n].sent # << >>, NEW p, NEW v,
           fds' = Served(n, p, v)
    PROVE  /\ fds' \in [Fd -> Connection \cup {NULL}]
           /\ \A m \in Fd \ {n} : fds'[m] = fds[m]
           /\ fds'[n] # NULL /\ fds'[n].id = fds[n].id
           /\ fds'[n].sent = Tail(fds[n].sent)
           /\ fds'[n].state = CASE v = "ok" /\ p.type = "Listen" -> "listening"
                                [] v = "ok" /\ p.type = "Connect" -> "connected"
                                [] OTHER -> fds[n].state
<1> DEFINE s == CASE v = "ok" /\ p.type = "Listen" -> "listening"
                  [] v = "ok" /\ p.type = "Connect" -> "connected"
                  [] OTHER -> fds[n].state
           q == Tail(fds[n].sent)
           b == [fds[n] EXCEPT !.sent = q]
           c == [b EXCEPT !.state = s]
<1>1. fds[n] \in Connection
  BY DEF Typed
<1>2. q \in Seq(Packet)
  BY <1>1 DEF Connection
<1>3. b \in Connection /\ b.id = fds[n].id /\ b.state = fds[n].state /\ b.sent = q
  <2> HIDE DEF q
  <2>1. QED  BY <1>1, <1>2 DEF Connection
<1>4. s \in {"new", "listening", "connected", "dead"}
  BY <1>1 DEF Connection
<1>5. fds' = [fds EXCEPT ![n] = c]
  BY <1>1, <1>3 DEF Served, Typed, Connection
<1> HIDE DEF s, b, q
<1>6. c \in Connection /\ c.id = fds[n].id /\ c.state = s /\ c.sent = q
  BY <1>3, <1>4 DEF Connection
<1>7. c # NULL
  BY <1>6, RequestsAssumption
<1> HIDE DEF c
<1>8. QED  BY <1>5, <1>6, <1>7 DEF Typed, s, q

LEMMA Opens ==
    ASSUME Inv, Typed, NEW t \in Thread, NEW n \in Fd,
           fds' = [fds EXCEPT ![n] = [id |-> loc[t].id, state |-> "new", sent |-> << >>]]
    PROVE  /\ fds' \in [Fd -> Connection \cup {NULL}]
           /\ \A m \in Fd \ {n} : fds'[m] = fds[m]
           /\ fds'[n] # NULL /\ fds'[n].id = loc[t].id /\ fds'[n].state = "new"
           /\ fds'[n].sent = << >>
<1> DEFINE c == [id |-> loc[t].id, state |-> "new", sent |-> << >>]
<1>1. c \in Connection /\ c.id = loc[t].id /\ c.state = "new" /\ c.sent = << >>
  BY Locals DEF Local, Connection
<1>2. c # NULL
  BY <1>1, RequestsAssumption
<1> HIDE DEF c
<1>3. fds' = [fds EXCEPT ![n] = c]
  BY DEF c
<1>4. QED  BY <1>1, <1>2, <1>3 DEF Typed

\* The connection a receive is about.
LEMMA Receives ==
    ASSUME Typed, NEW t \in Thread, Receive(t), loc[t].fd \in Fd
    PROVE  LET n == loc[t].fd
               p == Head(fds[n].sent)
           IN  /\ fds[n] # NULL /\ fds[n] \in Connection /\ fds[n].sent # << >>
               /\ p \in Packet
               /\ \E v \in Verdicts(p) :
                      /\ fds' = Served(n, p, v)
                      /\ granted' = IF v \in {"ok", "empty"} THEN granted \cup {p.id}
                                    ELSE granted
                      /\ GotResult(t, Result(t, p, v))
<1>1. /\ fds[loc[t].fd] # NULL /\ fds[loc[t].fd] \in Connection
      /\ fds[loc[t].fd].sent # << >>
  BY DEF Receive, Answerable, Alive, Typed
<1>2. Head(fds[loc[t].fd].sent) \in Packet
  BY <1>1 DEF Connection
<1>3. QED  BY <1>1, <1>2 DEF Receive

LEMMA VerdictsTyped ==
    ASSUME Typed, NEW p \in Packet, NEW g, g \in {granted, granted \cup {p.id}}
    PROVE  g \subseteq 1..MaxCalls
  BY DEF Typed, Packet

\* A fault is counted while there are fewer than allowed.
LEMMA FaultCounts ==
    ASSUME Typed, faults < MaxFaults, faults' = faults + 1
    PROVE  faults' \in 0..MaxFaults
  BY RequestsAssumption DEF Typed

LEMMA StepTyped ==
    ASSUME Inv, Typed, NEW t \in Thread, Sorted(t), Step(t)
    PROVE  Typed'
<1>1. loc[t] \in Local
  BY Locals
<1>2. CASE Closing(t)
  BY <1>2, Closes DEF Closing, Typed, globals
<1>3. CASE Open(t)
  BY <1>3, OpenDoes, Opens DEF Open, Typed, globals
<1>4. CASE OpenFails(t)
  BY <1>4, FaultCounts DEF OpenFails, Typed, globals
<1>5. CASE SetProtocol(t)
  BY <1>5 DEF SetProtocol, Typed
<1>6. CASE LoadTag(t)
  BY <1>6 DEF LoadTag, Typed, globals
<1>7. CASE StoreTag(t)
  BY <1>7 DEF StoreTag, Typed
<1>8. CASE Choose(t)
  BY <1>8 DEF Choose, Typed, globals
<1>9. CASE Acquire(t)
  BY <1>9 DEF Acquire, Typed, globals
<1>10. CASE SendTag(t)
  BY <1>10 DEF SendTag, Typed, globals
<1>11. CASE Format(t)
  BY <1>11 DEF Format, Typed, globals
<1>12. CASE Send(t)
  <2>1. loc[t].fd \in Fd
    BY <1>12 DEF Send, At, Sorted
  <2>2. fds' \in [Fd -> Connection \cup {NULL}]
    BY <1>12, <2>1, Sends
  <2>3. QED  BY <1>12, <2>2 DEF Send, Typed, globals
<1>13. CASE SendFails(t)
  BY <1>13, SendFailsDoes, Closes DEF SendFails, Typed, globals
<1>14. CASE GetTag(t)
  BY <1>14 DEF GetTag, Typed, globals
<1>15. CASE Receive(t)
  <2> DEFINE n == loc[t].fd
             p == Head(fds[n].sent)
  <2>1. n \in Fd
    BY <1>15 DEF Receive, At, Sorted
  <2>2. /\ fds[n] # NULL /\ fds[n].sent # << >> /\ p \in Packet
        /\ \E v \in Verdicts(p) :
               /\ fds' = Served(n, p, v)
               /\ granted' = IF v \in {"ok", "empty"} THEN granted \cup {p.id} ELSE granted
    BY <1>15, <2>1, Receives
  <2> HIDE DEF n, p
  <2>3. PICK v \in Verdicts(p) :
            /\ fds' = Served(n, p, v)
            /\ granted' = IF v \in {"ok", "empty"} THEN granted \cup {p.id} ELSE granted
    BY <2>2
  <2>4. fds' \in [Fd -> Connection \cup {NULL}]
    BY <2>1, <2>2, <2>3, Serves
  <2>5. granted' \subseteq 1..MaxCalls
    BY <2>2, <2>3, VerdictsTyped
  <2>6. QED  BY <1>15, <2>4, <2>5 DEF Receive, Typed, globals
<1>16. CASE ReceiveFails(t)
  <2>1. faults' \in 0..MaxFaults
    BY <1>16, FaultCounts DEF ReceiveFails, Typed
  <2>2. fds' \in [Fd -> Connection \cup {NULL}]
    BY <1>16, Closes DEF ReceiveFails, Typed
  <2>3. QED  BY <1>16, <2>1, <2>2 DEF ReceiveFails, Typed, globals
<1>17. CASE JudgeListDevices(t)
  <2>1. faults' \in 0..MaxFaults
    BY <1>17, FaultCounts DEF JudgeListDevices, AllocFails, Typed
  <2>2. proto_version' \in {0, 1}
    BY <1>17 DEF JudgeListDevices, Typed
  <2>3. QED  BY <1>17, <2>1, <2>2 DEF JudgeListDevices, Typed
<1>18. CASE DropList(t)
  BY <1>18 DEF DropList, Typed
<1>19. CASE JudgeListen(t)
  BY <1>19 DEF JudgeListen, Typed, globals
<1>20. CASE GiveUp(t)
  BY <1>20 DEF GiveUp, Typed, globals
<1>21. CASE Lower(t)
  BY <1>21 DEF Lower, Typed
<1>22. CASE Raise(t)
  BY <1>22 DEF Raise, Typed
<1>23. CASE Collect(t)
  <2>1. faults' \in 0..MaxFaults
    BY <1>23, FaultCounts DEF Collect, AllocFails, Typed
  <2>2. fds' \in [Fd -> Connection \cup {NULL}]
    BY <1>23, CollectDoes, Closes DEF Typed
  <2>3. QED  BY <1>23, <2>1, <2>2 DEF Collect, Typed, globals
<1>24. CASE JudgeConnect(t)
  BY <1>24 DEF JudgeConnect, Typed
<1>25. CASE JudgePrivate(t)
  BY <1>25 DEF JudgePrivate, Typed, globals
<1>26. CASE Return(t)
  <2> DEFINE h == [fd |-> loc[t].fd, id |-> loc[t].id]
  <2>1. loc[t].value = "ok" => h \in [fd : Fd, id : 1..MaxCalls]
    BY <1>1, <1>26 DEF Return, At, Sorted, Local
  <2>2. held' = IF loc[t].op \in {"connect", "listen"} /\ loc[t].value = "ok"
                THEN [held EXCEPT ![t] = held[t] \cup {h}] ELSE held
    BY <1>26 DEF Return
  <2> HIDE DEF h
  <2>3. held' \in [Thread -> SUBSET [fd : Fd, id : 1..MaxCalls]]
    BY <2>1, <2>2 DEF Typed
  <2>4. QED  BY <1>26, <2>3 DEF Return, Typed, globals
<1>27. QED
  BY <1>2, <1>3, <1>4, <1>5, <1>6, <1>7, <1>8, <1>9, <1>10, <1>11, <1>12, <1>13, <1>14,
     <1>15, <1>16, <1>17, <1>18, <1>19, <1>20, <1>21, <1>22, <1>23, <1>24, <1>25, <1>26
  DEF Step

-----------------------------------------------------------------------------
(* Whose each descriptor is.                                               *)

Owns(t, n, i) ==
    \/ [fd |-> n, id |-> i] \in held[t]
    \/ loc[t].fd = n /\ loc[t].id = i /\ (Using(t) \/ Returning(t))

\* A step of t leaves t what it is answerable for, and others what they were.
Accounts(t) ==
    \A n \in Fd : fds'[n] # NULL =>
        \/ Owns(t, n, fds[n].id)'
        \/ fds[n] # NULL /\ fds'[n].id = fds[n].id /\ ~Owns(t, n, fds[n].id)

\* The thread goes on with the connection it has, or had none.
LEMMA AccountsKept ==
    ASSUME NEW t \in Thread, held' = held,
           \A n \in Fd : fds'[n] # NULL => fds[n] # NULL /\ fds'[n].id = fds[n].id,
           Using(t) \/ Returning(t) =>
               /\ (Using(t) \/ Returning(t))'
               /\ loc'[t].fd = loc[t].fd /\ loc'[t].id = loc[t].id
    PROVE  Accounts(t)
  BY DEF Accounts, Owns

\* The thread closes what it uses.
LEMMA AccountsClosed ==
    ASSUME Typed, NEW t \in Thread, held' = held, fds' = Close(fds, loc[t].fd)
    PROVE  Accounts(t)
<1>1. \A n \in Fd : fds'[n] = IF n = loc[t].fd THEN NULL ELSE fds[n]
  BY Closes
<1>2. QED  BY <1>1 DEF Accounts, Owns

LEMMA StepAccounts ==
    ASSUME Inv, Typed, NEW t \in Thread, Sorted(t), Step(t)
    PROVE  Accounts(t)
<1> USE DEF Who
<1>1. loc[t].op \in Op
  BY Locals DEF Local
<1>2. CASE Closing(t)
  BY <1>2, AccountsClosed DEF Closing
<1>3. CASE Open(t)
  <2>1. PICK n \in Fd :
            /\ fds' = [fds EXCEPT ![n] = [id |-> loc[t].id, state |-> "new",
                                          sent |-> << >>]]
            /\ loc'[t].fd = n /\ loc'[t].id = loc[t].id
            /\ pc[t] = "open" /\ pc'[t] \in {"protocol", "load"}
    BY <1>3, OpenDoes
  <2>2. (\A m \in Fd \ {n} : fds'[m] = fds[m]) /\ fds'[n].id = loc[t].id
    BY <2>1, Opens
  <2>3. ~Using(t) /\ ~Returning(t) /\ Using(t)'
    BY <2>1 DEF Using, Returning, At
  <2>4. held' = held
    BY <1>3 DEF Open
  <2>5. QED  BY <2>1, <2>2, <2>3, <2>4 DEF Accounts, Owns
<1>4. CASE OpenFails(t)
  BY <1>4, OpenFailsDoes, AccountsKept DEF OpenFails, Using, Returning, At
<1>5. CASE SetProtocol(t)
  BY <1>5, Goes, AccountsKept DEF SetProtocol, Using, At
<1>6. CASE LoadTag(t)
  BY <1>6, LoadTagDoes, AccountsKept DEF LoadTag, Using
<1>7. CASE StoreTag(t)
  <2>1. Using(t)'
    BY <1>7, StoreTagDoes DEF Using, Inv, Orderly, OrderlyAt, Common
  <2>2. QED  BY <1>7, <2>1, StoreTagDoes, AccountsKept DEF StoreTag
<1>8. CASE Choose(t)
  BY <1>8, ChooseDoes, AccountsKept DEF Choose, Using
<1>9. CASE Acquire(t)
  BY <1>9, Goes, AccountsKept DEF Acquire, Using, At
<1>10. CASE SendTag(t)
  BY <1>10, SendTagDoes, AccountsKept DEF SendTag, Using
<1>11. CASE Format(t)
  BY <1>11, FormatDoes, AccountsKept DEF Format, Using
<1>12. CASE Send(t)
  <2>1. loc[t].fd \in Fd
    BY <1>12 DEF Send, At, Sorted
  <2>2. \A n \in Fd : fds'[n] # NULL => fds[n] # NULL /\ fds'[n].id = fds[n].id
    BY <1>12, <2>1, Sends
  <2>3. pc'[t] \in {"receive", "gettag"}
    BY <1>12, Goes DEF Send
  <2>4. QED  BY <1>12, <2>2, <2>3, AccountsKept DEF Send, Using
<1>13. CASE SendFails(t)
  BY <1>13, SendFailsDoes, AccountsClosed DEF SendFails
<1>14. CASE GetTag(t)
  BY <1>14, GetTagDoes, AccountsKept DEF GetTag, Using
<1>15. CASE Receive(t)
  <2> DEFINE n == loc[t].fd
             p == Head(fds[n].sent)
  <2>1. n \in Fd
    BY <1>15 DEF Receive, At, Sorted
  <2>2. /\ fds[n] # NULL /\ fds[n].sent # << >>
        /\ \E v \in Verdicts(p) : fds' = Served(n, p, v) /\ GotResult(t, Result(t, p, v))
    BY <1>15, <2>1, Receives
  <2> HIDE DEF p
  <2>3. PICK v \in Verdicts(p) : fds' = Served(n, p, v) /\ GotResult(t, Result(t, p, v))
    BY <2>2
  <2>4. \A m \in Fd : fds'[m] # NULL => fds[m] # NULL /\ fds'[m].id = fds[m].id
    BY <2>1, <2>2, <2>3, Serves
  <2>5. pc'[t] = "judge" /\ loc'[t].fd = loc[t].fd /\ loc'[t].id = loc[t].id
    BY <2>3, GotResultDoes
  <2>6. held' = held
    BY <1>15 DEF Receive
  <2> HIDE DEF n
  <2>7. QED  BY <2>4, <2>5, <2>6, AccountsKept DEF Using
<1>16. CASE ReceiveFails(t)
  <2>1. pc'[t] = "judge" /\ loc'[t].fd = loc[t].fd /\ loc'[t].id = loc[t].id
    BY <1>16, GotResultDoes DEF ReceiveFails
  <2>2. held' = held /\ (fds' = fds \/ fds' = Close(fds, loc[t].fd))
    BY <1>16 DEF ReceiveFails
  <2>3. QED  BY <2>1, <2>2, AccountsKept, AccountsClosed DEF Using
<1>17. CASE JudgeListDevices(t)
  BY <1>17, JudgeListDevicesDoes, AccountsKept DEF JudgeListDevices, Using
<1>18. CASE DropList(t)
  BY <1>18, DropListDoes, AccountsKept DEF DropList, Using, Returning, At
<1>19. CASE JudgeListen(t)
  BY <1>19, JudgeListenDoes, AccountsKept DEF JudgeListen, Using, Returning, At
<1>20. CASE GiveUp(t)
  BY <1>20, GiveUpDoes, AccountsKept DEF GiveUp, Using
<1>21. CASE Lower(t)
  BY <1>21, LowerDoes, AccountsKept DEF Lower, Using, Returning, At
<1>22. CASE Raise(t)
  BY <1>22, RaiseDoes, AccountsKept DEF Raise, Using, Returning, At
<1>23. CASE Collect(t)
  <2>1. fds' = fds \/ fds' = Close(fds, loc[t].fd)
    BY <1>23 DEF Collect
  <2>2. QED  BY <1>23, <2>1, CollectDoes, AccountsKept, AccountsClosed DEF Collect, Using
<1>24. CASE JudgeConnect(t)
  <2>1. loc[t].msg = "Connect"
    BY <1>24 DEF JudgeConnect
  <2>2. loc[t].op = "connect"
    BY <1>1, <2>1 DEF Sorted, FirstMessage, Op
  <2>3. QED
    BY <1>24, <2>2, JudgeConnectDoes, AccountsKept DEF JudgeConnect, Using, Returning, At
<1>25. CASE JudgePrivate(t)
  BY <1>25, JudgePrivateDoes, AccountsKept DEF JudgePrivate, Using
<1>26. CASE Return(t)
  <2> DEFINE h == [fd |-> loc[t].fd, id |-> loc[t].id]
  <2>1. pc[t] = "return" /\ fds' = fds
    BY <1>26 DEF Return, At
  <2>2. ~Using(t)
    BY <2>1 DEF Using
  <2>3. held'[t] = IF Returning(t) THEN held[t] \cup {h} ELSE held[t]
    BY <1>26, <2>1 DEF Return, Returning, At, Typed
  <2> HIDE DEF h
  <2>4. ASSUME NEW n \in Fd, fds'[n] # NULL
        PROVE  Owns(t, n, fds[n].id)' \/ ~Owns(t, n, fds[n].id)
    BY <2>1, <2>2, <2>3 DEF Owns, h
  <2>5. QED  BY <2>1, <2>4 DEF Accounts
<1>27. QED
  BY <1>2, <1>3, <1>4, <1>5, <1>6, <1>7, <1>8, <1>9, <1>10, <1>11, <1>12, <1>13, <1>14,
     <1>15, <1>16, <1>17, <1>18, <1>19, <1>20, <1>21, <1>22, <1>23, <1>24, <1>25, <1>26
  DEF Step

LEMMA AccountsAccounts ==
    ASSUME Typed, SocketsAccounted, NEW t \in Thread, Accounts(t),
           \A u \in Thread \ {t} : pc'[u] = pc[u] /\ loc'[u] = loc[u] /\ held'[u] = held[u]
    PROVE  SocketsAccounted'
<1> SUFFICES ASSUME NEW n \in Fd, fds'[n] # NULL
             PROVE  \E u \in Thread : Owns(u, n, fds[n].id)'
  BY DEF SocketsAccounted, Owns
<1>1. CASE Owns(t, n, fds[n].id)'
  BY <1>1
<1>2. CASE fds[n] # NULL /\ fds'[n].id = fds[n].id /\ ~Owns(t, n, fds[n].id)
  <2>1. PICK u \in Thread : Owns(u, n, fds[n].id)
    BY <1>2 DEF SocketsAccounted, Owns
  <2>2. Owns(u, n, fds[n].id)'
    BY <1>2, <2>1 DEF Owns, Using, Returning, At
  <2>3. QED  BY <2>2
<1>3. QED  BY <1>1, <1>2 DEF Accounts

\* What is invariant of the types, the locks and the sockets.
Kept ==
    /\ Inv /\ Typed /\ SocketsAccounted
    /\ \A t \in Thread : Sorted(t)

LEMMA KeptInit == ASSUME Init PROVE Kept
<1>1. Typed
  BY RequestsAssumption DEF Init, Typed
<1>2. SocketsAccounted
  BY DEF Init, SocketsAccounted
<1>3. NoLocal.msg = FirstMessage(NoLocal.op)
  BY DEF NoLocal, FirstMessage
<1>4. \A t \in Thread : Sorted(t)
  BY <1>3 DEF Init, Sorted
<1>5. QED  BY <1>1, <1>2, <1>4, InvInit DEF Kept

LEMMA KeptStep == ASSUME Kept, NEW t \in Thread, Step(t) PROVE Kept'
<1>1. Inv /\ Typed /\ SocketsAccounted /\ Sorted(t)
  BY DEF Kept
<1>2. Inv' /\ Typed' /\ Sorted(t)' /\ Accounts(t)
  BY <1>1, InvStep, StepTyped, StepSorts, StepAccounts
<1>3. \A u \in Thread \ {t} : pc'[u] = pc[u] /\ loc'[u] = loc[u] /\ held'[u] = held[u]
  <2>1. CASE Return(t)
    BY <1>1, <2>1, StepGoesOn DEF Return, Typed
  <2>2. CASE held' = held
    BY <1>1, <2>2, StepGoesOn
  <2>3. QED  BY <1>1, <2>1, <2>2, StepGoesOn
<1>4. \A u \in Thread \ {t} : Sorted(u)'
  BY <1>3 DEF Kept, Sorted
<1>5. SocketsAccounted'
  BY <1>1, <1>2, <1>3, AccountsAccounts
<1>6. QED  BY <1>2, <1>4, <1>5 DEF Kept

LEMMA KeptCall == ASSUME Kept, NEW t \in Thread, Call(t) PROVE Kept'
<1>1. Inv /\ Typed /\ SocketsAccounted
  BY DEF Kept
<1>2. /\ pc[t] = "idle" /\ pc'[t] = "open"
      /\ loc'[t].msg = FirstMessage(loc'[t].op)
  BY <1>1, CallDoes
<1>3. \A u \in Thread \ {t} : pc'[u] = pc[u] /\ loc'[u] = loc[u]
  BY <1>1, CallKeeps DEF Keeps
<1>4. Inv'
  BY <1>1, CallKeeps, KeepsInv
<1>5. Typed'
  BY <1>1 DEF Call, Typed, globals
<1>6. \A u \in Thread : Sorted(u)'
  BY <1>2, <1>3 DEF Kept, Sorted
<1>7. Accounts(t)
  BY <1>2, AccountsKept DEF Call, Using, Returning, At
<1>8. SocketsAccounted'
  BY <1>1, <1>3, <1>7, AccountsAccounts DEF Call
<1>9. QED  BY <1>4, <1>5, <1>6, <1>8 DEF Kept

LEMMA KeptDisconnect == ASSUME Kept, NEW t \in Thread, Disconnect(t) PROVE Kept'
<1>1. Inv /\ Typed /\ SocketsAccounted
  BY DEF Kept
<1>2. PICK h \in held[t] :
          fds' = Close(fds, h.fd) /\ held' = [held EXCEPT ![t] = held[t] \ {h}]
  BY DEF Disconnect
<1>3. h \in [fd : Fd, id : 1..MaxCalls]
  BY <1>1 DEF Typed
<1>4. /\ fds' \in [Fd -> Connection \cup {NULL}]
      /\ \A m \in Fd : fds'[m] = IF m = h.fd THEN NULL ELSE fds[m]
  BY <1>1, <1>2, Closes
<1>5. /\ held'[t] = held[t] \ {h}
      /\ held' \in [Thread -> SUBSET [fd : Fd, id : 1..MaxCalls]]
      /\ \A u \in Thread \ {t} : held'[u] = held[u]
  BY <1>1, <1>2 DEF Typed
<1>6. pc' = pc /\ loc' = loc /\ pc[t] = "idle"
  BY DEF Disconnect, At
<1>7. Inv'
  BY <1>1, InvFrame DEF Disconnect, globals
<1>8. Typed'
  BY <1>1, <1>4, <1>5 DEF Disconnect, Typed, globals
<1>9. \A u \in Thread : Sorted(u)'
  BY <1>6 DEF Kept, Sorted
<1>10. Accounts(t)
  <2>1. \A n \in Fd : \A i : n # h.fd => [fd |-> n, id |-> i] # h
    OBVIOUS
  <2>2. QED  BY <1>4, <1>5, <1>6, <2>1 DEF Accounts, Owns, Using, Returning, At
<1>11. SocketsAccounted'
  BY <1>1, <1>5, <1>6, <1>10, AccountsAccounts
<1>12. QED  BY <1>7, <1>8, <1>9, <1>11 DEF Kept

LEMMA DaemonClosesDoes ==
    ASSUME Typed, NEW n \in Fd, DaemonCloses(n)
    PROVE  /\ fds' \in [Fd -> Connection \cup {NULL}]
           /\ \A m \in Fd \ {n} : fds'[m] = fds[m]
           /\ fds[n] # NULL /\ fds'[n].id = fds[n].id
           /\ faults' \in 0..MaxFaults /\ faults' = faults + 1
<1> DEFINE c == [fds[n] EXCEPT !.state = "dead"]
<1>1. fds[n] # NULL /\ fds[n] \in Connection /\ fds' = [fds EXCEPT ![n] = c]
  BY DEF DaemonCloses, Alive, Typed
<1>2. c \in Connection /\ c.id = fds[n].id
  BY <1>1 DEF Connection
<1> HIDE DEF c
<1>3. fds' \in [Fd -> Connection \cup {NULL}]
      /\ (\A m \in Fd \ {n} : fds'[m] = fds[m]) /\ fds'[n].id = fds[n].id
  BY <1>1, <1>2 DEF Typed
<1>4. QED  BY <1>1, <1>3, FaultCounts DEF DaemonCloses

LEMMA KeptDaemon == ASSUME Kept, NEW n \in Fd, DaemonCloses(n) PROVE Kept'
<1>1. Inv /\ Typed /\ SocketsAccounted
  BY DEF Kept
<1>2. pc' = pc /\ loc' = loc /\ held' = held
  BY DEF DaemonCloses
<1>3. Inv'
  BY <1>1, InvFrame DEF DaemonCloses, globals
<1>4. Typed'
  BY <1>1, DaemonClosesDoes DEF DaemonCloses, Typed, globals
<1>5. SocketsAccounted'
  BY <1>1, <1>2, DaemonClosesDoes DEF SocketsAccounted, Using, Returning, At
<1>6. \A t \in Thread : Sorted(t)'
  BY <1>2 DEF Kept, Sorted
<1>7. QED  BY <1>3, <1>4, <1>5, <1>6 DEF Kept

LEMMA KeptNext == ASSUME Kept, [Next]_vars PROVE Kept'
<1>1. CASE UNCHANGED vars
  <2>1. Inv'
    BY <1>1, InvFrame DEF Kept, vars
  <2>2. QED
    BY <1>1, <2>1 DEF Kept, vars, Typed, SocketsAccounted, Sorted, Using, Returning, At
<1>2. QED
  BY <1>1, KeptStep, KeptCall, KeptDisconnect, KeptDaemon DEF Next

LEMMA AlwaysKept == Spec => []Kept
  BY KeptInit, KeptNext, PTL DEF Spec

\* Every variable has its type, whatever the threads, the daemon and the bounds.
THEOREM TypeCorrect == Spec => []TypeOK
<1>1. Kept => TypeOK
  BY DEF Kept, Inv, ShapeInv, Typed, TypeOK
<1>2. QED  BY AlwaysKept, <1>1, PTL

\* No path of a call loses a socket: whatever the threads, the daemon and the faults,
\* an open descriptor belongs to a running call or was given to a caller.
THEOREM NoSocketLost == Spec => []SocketsAccounted
<1>1. Kept => SocketsAccounted
  BY DEF Kept
<1>2. QED  BY AlwaysKept, <1>1, PTL

-----------------------------------------------------------------------------
(* Whose descriptors are, while nothing fails: every thread then uses the  *)
(* connection its call opened, and closes it once.                         *)

\* Every call has a number of its own, and a caller keeps it with its connection.
Numbered ==
    /\ \A t \in Thread : Running(t) => loc[t].id \in 1..calls
    /\ \A t, u \in Thread : Running(t) /\ Running(u) /\ loc[t].id = loc[u].id => t = u
    /\ \A t \in Thread : \A h \in held[t] :
           /\ h.id \in 1..calls
           /\ \A u \in Thread : Running(u) => loc[u].id # h.id
           /\ \A u \in Thread : \A g \in held[u] : g.id = h.id => u = t /\ g = h

\* n is the connection that was made for call i.
Made(n, i) == fds[n] # NULL /\ fds[n].state # "dead" /\ fds[n].id = i

Busy(t) == (Using(t) /\ pc[t] # "crashed") \/ Returning(t)

\* The thread uses what it opened, closes it once, and returns it only open.
Own(t) ==
    /\ Busy(t) => Made(loc[t].fd, loc[t].id)
    /\ pc[t] = "collect" => loc[t].op # "listen"
    /\ pc[t] = "closing" =>
           /\ loc[t].closes = 1
           /\ loc[t].next \in {"return", "droplist", "open", "lower", "raise"}
           /\ loc[t].next = "return" /\ loc[t].op \in {"connect", "listen"} =>
                  loc[t].value # "ok"

\* What a thread was given is open.
Holds(t) == \A h \in held[t] : Made(h.fd, h.id)

\* The only packet in a connection is the one its call waits to have answered, and a
\* call takes for success only what the daemon granted it.
Unsent == {"protocol", "load", "store", "choose", "lock", "sendtag", "format", "send"}

\* Where the tags come from the shared counter.
Shared == {"sendtag", "format", "gettag"}

Ending(t) == pc[t] = "return" \/ (pc[t] = "closing" /\ loc[t].next = "return")

Agrees(t) ==
    LET c == fds[loc[t].fd]
    IN  /\ pc[t] \in Unsent \cup {"gettag", "receive"}
               \/ (pc[t] = "judge" /\ loc[t].msg # "Connect") => c.state # "connected"
        /\ pc[t] \in Unsent \cup {"judge"} => c.sent = << >>
        /\ pc[t] \in Shared => loc[t].op \notin Private
        /\ pc[t] = "send" /\ loc[t].op \in Private => loc[t].tag = loc[t].expected
        /\ pc[t] \in {"gettag", "receive"} =>
               /\ Len(c.sent) = 1
               /\ c.sent[1].type = loc[t].msg /\ c.sent[1].id = loc[t].id
               /\ loc[t].op \in Private => c.sent[1].tag = loc[t].expected
        /\ pc[t] = "judge" =>
               /\ loc[t].res \in {"ok", "empty"} => loc[t].id \in granted
               /\ loc[t].op \in Private => loc[t].ret # 0
        /\ pc[t] = "collect" => loc[t].id \in granted
        /\ Ending(t) /\ loc[t].op # "listen" /\ loc[t].value = "ok" =>
               loc[t].id \in granted

Faultless == faults = 0 => \A t \in Thread : Own(t) /\ Holds(t) /\ Agrees(t)

LEMMA NumberedStep == ASSUME Kept, Numbered, NEW t \in Thread, Step(t) PROVE Numbered'
<1>1. /\ Inv /\ Typed /\ calls' = calls
      /\ \A u \in Thread \ {t} : pc'[u] = pc[u] /\ loc'[u] = loc[u]
      /\ Running(t)
  BY StepGoesOn DEF Kept, Running
<1>2. CASE Return(t)
  <2> DEFINE h == [fd |-> loc[t].fd, id |-> loc[t].id]
  <2>1. pc'[t] \in {"idle", "crashed"}
    BY <1>1, <1>2, ReturnDoes
  <2>2. /\ held'[t] \in {held[t], held[t] \cup {h}}
        /\ \A u \in Thread \ {t} : held'[u] = held[u]
    BY <1>1, <1>2 DEF Return, Typed
  <2>3. h.id = loc[t].id
    OBVIOUS
  <2> HIDE DEF h
  <2>4. \A u \in Thread : Running(u)' => u # t /\ Running(u)
    BY <1>1, <2>1 DEF Running
  <2>5. \A u \in Thread : \A g \in held'[u] :
            g \in held[u] \/ (u = t /\ g = h)
    BY <2>2
  <2>6. \A u \in Thread : \A g \in held'[u] : g.id \in 1..calls
    BY <1>1, <2>3, <2>5 DEF Numbered
  <2>7. \A u \in Thread : \A g \in held'[u] :
            \A v \in Thread : Running(v)' => loc'[v].id # g.id
    BY <1>1, <2>3, <2>4, <2>5 DEF Numbered
  <2>8. \A u, v \in Thread : \A f \in held'[u], g \in held'[v] :
            g.id = f.id => v = u /\ g = f
    BY <1>1, <2>3, <2>5 DEF Numbered
  <2>9. /\ \A u \in Thread : Running(u)' => loc'[u].id \in 1..calls
        /\ \A u, v \in Thread : Running(u)' /\ Running(v)' /\ loc'[u].id = loc'[v].id
               => u = v
    BY <1>1, <2>4 DEF Numbered
  <2>10. QED  BY <1>1, <2>6, <2>7, <2>8, <2>9 DEF Numbered
<1>3. CASE held' = held /\ pc'[t] \in PC \ {"idle", "crashed"} /\ loc'[t].id = loc[t].id
  <2>1. \A u \in Thread : (Running(u)' <=> Running(u)) /\ loc'[u].id = loc[u].id
    BY <1>1, <1>3 DEF Running
  <2>2. QED  BY <1>1, <1>3, <2>1 DEF Numbered
<1>4. QED  BY <1>1, <1>2, <1>3, StepGoesOn

LEMMA NumberedCall == ASSUME Kept, Numbered, NEW t \in Thread, Call(t) PROVE Numbered'
<1>1. /\ calls \in Nat /\ calls' = calls + 1 /\ loc'[t].id = calls + 1 /\ held' = held
      /\ \A u \in Thread \ {t} : pc'[u] = pc[u] /\ loc'[u] = loc[u]
  <2>1. Inv
    BY DEF Kept
  <2>2. calls \in Nat /\ held' = held
    BY <2>1, Bounds DEF Inv, ShapeInv, Call
  <2>3. \A u \in Thread \ {t} : pc'[u] = pc[u] /\ loc'[u] = loc[u]
    BY <2>1, CallKeeps DEF Keeps
  <2>4. QED  BY <2>1, <2>2, <2>3, CallDoes
<1>2. 1..calls \subseteq 1..(calls + 1) /\ calls + 1 \in 1..(calls + 1)
      /\ calls + 1 \notin 1..calls
  BY <1>1
<1>3. \A u \in Thread \ {t} : Running(u)' <=> Running(u)
  BY <1>1 DEF Running
<1>4. /\ \A u \in Thread : Running(u)' => loc'[u].id \in 1..calls'
      /\ \A u, v \in Thread : Running(u)' /\ Running(v)' /\ loc'[u].id = loc'[v].id
             => u = v
  BY <1>1, <1>2, <1>3 DEF Numbered
<1>5. \A u \in Thread : \A h \in held'[u] :
          /\ h.id \in 1..calls'
          /\ \A v \in Thread : Running(v)' => loc'[v].id # h.id
          /\ \A v \in Thread : \A g \in held'[v] : g.id = h.id => v = u /\ g = h
  BY <1>1, <1>2, <1>3 DEF Numbered
<1>6. QED  BY <1>4, <1>5 DEF Numbered

LEMMA NumberedRest ==
    ASSUME Numbered, pc' = pc, loc' = loc, calls' = calls,
           \A u \in Thread : held'[u] \subseteq held[u]
    PROVE  Numbered'
  BY DEF Numbered, Running

-----------------------------------------------------------------------------
\* What t does to the connections of others: nothing.
Spares(t) ==
    \A n \in Fd : \A i : Made(n, i) /\ i # loc[t].id => fds'[n] = fds[n]

\* Steps that leave the table alone.
LEMMA OwnKept ==
    ASSUME NEW t \in Thread, Own(t), fds' = fds,
           Who(loc'[t], loc[t]), Busy(t)' => Busy(t),
           pc'[t] = "collect" => loc[t].op # "listen",
           pc'[t] = "closing" =>
               /\ loc'[t].closes = 1
               /\ loc'[t].next \in {"return", "droplist", "open", "lower", "raise"}
               /\ loc'[t].next = "return" /\ loc'[t].op \in {"connect", "listen"} =>
                      loc'[t].value # "ok"
    PROVE  Own(t)' /\ Spares(t)
<1>1. \A n, i : Made(n, i)' <=> Made(n, i)
  BY DEF Made
<1>2. QED  BY <1>1 DEF Own, Spares, Who

\* Steps that touch nothing but the connection of the call, and leave it open.
LEMMA OwnTouched ==
    ASSUME NEW t \in Thread, Own(t), Busy(t), loc[t].fd \in Fd,
           \A n \in Fd \ {loc[t].fd} : fds'[n] = fds[n],
           LET n == loc[t].fd
           IN  fds'[n] # NULL /\ fds'[n].id = fds[n].id /\ fds'[n].state # "dead",
           Who(loc'[t], loc[t]), pc'[t] \notin {"closing", "collect"}
    PROVE  Own(t)' /\ Spares(t)
<1>1. Made(loc[t].fd, loc[t].id) /\ Made(loc[t].fd, loc[t].id)'
  BY DEF Own, Made, Who
<1>2. QED  BY <1>1 DEF Own, Spares, Made, Who

LEMMA StepOwns ==
    ASSUME Kept, NEW t \in Thread, faults = 0, faults' = 0, Own(t), Step(t)
    PROVE  Own(t)' /\ Spares(t)
<1>1. Inv /\ Typed /\ Sorted(t) /\ loc[t].op \in Op
  BY Locals DEF Kept, Local
<1>2. Busy(t) => fds[loc[t].fd] # NULL /\ ~Broken(t)
  BY DEF Own, Made, Broken, Alive
<1> USE <1>1
<1>3. CASE Closing(t)
  <2>1. /\ Who(loc'[t], loc[t]) /\ loc'[t].value = loc[t].value
        /\ loc[t].closes = 1 /\ pc'[t] = loc[t].next /\ Busy(t)
    BY <1>3, ClosingDoes DEF Own, Busy, Using
  <2>2. pc'[t] \notin {"closing", "collect"} /\ ~Busy(t)'
    BY <1>3, <2>1, ClosingDoes DEF Own, Busy, Using, Returning, At, Who
  <2>3. fds' = Close(fds, loc[t].fd) /\ fds[loc[t].fd].id = loc[t].id
    BY <1>3, <2>1 DEF Closing, Own, Made
  <2>4. \A n \in Fd : fds'[n] = IF n = loc[t].fd THEN NULL ELSE fds[n]
    BY <2>3, Closes
  <2>5. Spares(t)
    BY <2>3, <2>4 DEF Spares, Made
  <2>6. QED  BY <2>2, <2>5 DEF Own
<1>4. CASE Open(t)
  <2>1. PICK n \in Fd :
            /\ fds[n] = NULL
            /\ fds' = [fds EXCEPT ![n] = [id |-> loc[t].id, state |-> "new",
                                          sent |-> << >>]]
            /\ loc'[t].fd = n /\ loc'[t].id = loc[t].id
            /\ pc'[t] \in {"protocol", "load"}
    BY <1>4, OpenDoes
  <2>2. /\ \A m \in Fd \ {n} : fds'[m] = fds[m]
        /\ fds'[n] # NULL /\ fds'[n].id = loc[t].id /\ fds'[n].state = "new"
    BY <2>1, Opens
  <2>3. QED  BY <2>1, <2>2 DEF Own, Spares, Made
<1>5. CASE OpenFails(t)
  BY <1>5 DEF OpenFails
<1>6. CASE SetProtocol(t)
  BY <1>6, Goes, OwnKept DEF SetProtocol, At, Busy, Using, Who
<1>7. CASE LoadTag(t)
  BY <1>7, LoadTagDoes, OwnKept DEF LoadTag, Busy, Using
<1>8. CASE StoreTag(t)
  <2>1. pc'[t] \in {"send", "choose", "lock", "sendtag"}
    BY <1>8, StoreTagDoes DEF Inv, Orderly, OrderlyAt, Common
  <2>2. QED  BY <1>8, <2>1, StoreTagDoes, OwnKept DEF StoreTag, Busy, Using
<1>9. CASE Choose(t)
  BY <1>9, ChooseDoes, OwnKept DEF Choose, Busy, Using
<1>10. CASE Acquire(t)
  BY <1>10, Goes, OwnKept DEF Acquire, At, Busy, Using, Who
<1>11. CASE SendTag(t)
  BY <1>11, SendTagDoes, OwnKept DEF SendTag, Busy, Using
<1>12. CASE Format(t)
  BY <1>12, FormatDoes, OwnKept DEF Format, Busy, Using
<1>13. CASE Send(t)
  <2>1. loc[t].fd \in Fd /\ Busy(t) /\ loc' = loc
    BY <1>13 DEF Send, At, Sorted, Busy, Using
  <2>2. pc'[t] \in {"receive", "gettag"}
    BY <1>13, Goes DEF Send
  <2>3. /\ \A m \in Fd \ {loc[t].fd} : fds'[m] = fds[m]
        /\ fds'[loc[t].fd] # NULL /\ fds'[loc[t].fd].id = fds[loc[t].fd].id
        /\ fds'[loc[t].fd].state = fds[loc[t].fd].state
    BY <1>13, <2>1, Sends
  <2>4. fds[loc[t].fd].state # "dead"
    BY <2>1 DEF Own, Made
  <2>5. QED  BY <2>1, <2>2, <2>3, <2>4, OwnTouched DEF Who
<1>14. CASE SendFails(t)
  BY <1>2, <1>14 DEF SendFails, At, Busy, Using
<1>15. CASE GetTag(t)
  BY <1>15, GetTagDoes, OwnKept DEF GetTag, Busy, Using
<1>16. CASE Receive(t)
  <2> DEFINE n == loc[t].fd
             p == Head(fds[n].sent)
  <2>1. n \in Fd /\ Busy(t)
    BY <1>16 DEF Receive, At, Sorted, Busy, Using
  <2>2. /\ fds[n] # NULL /\ fds[n].sent # << >>
        /\ \E v \in Verdicts(p) : fds' = Served(n, p, v) /\ GotResult(t, Result(t, p, v))
    BY <1>16, <2>1, Receives
  <2>3. fds[n].state # "dead"
    BY <2>1 DEF Own, Made
  <2> HIDE DEF p
  <2>4. PICK v \in Verdicts(p) : fds' = Served(n, p, v) /\ GotResult(t, Result(t, p, v))
    BY <2>2
  <2>5. /\ \A m \in Fd \ {n} : fds'[m] = fds[m]
        /\ fds'[n] # NULL /\ fds'[n].id = fds[n].id
        /\ fds'[n].state \in {"listening", "connected", fds[n].state}
    BY <2>1, <2>2, <2>4, Serves
  <2>6. pc'[t] = "judge" /\ Who(loc'[t], loc[t])
    BY <2>4, GotResultDoes
  <2>7. QED  BY <2>1, <2>3, <2>5, <2>6, OwnTouched
<1>17. CASE ReceiveFails(t)
  <2>1. Busy(t)
    BY <1>17 DEF ReceiveFails, At, Busy, Using
  <2>2. fds' = fds
    BY <1>2, <1>17, <2>1 DEF ReceiveFails
  <2>3. pc'[t] = "judge" /\ Who(loc'[t], loc[t])
    BY <1>17, GotResultDoes DEF ReceiveFails
  <2>4. QED  BY <2>1, <2>2, <2>3, OwnKept
<1>18. CASE JudgeListDevices(t)
  <2>1. loc[t].op \in {"list", "lookup"}
    BY <1>18, JudgeListDevicesDoes DEF Sorted, FirstMessage, Op
  <2>2. QED
    BY <1>18, <2>1, JudgeListDevicesDoes, OwnKept DEF JudgeListDevices, Busy, Using, Who
<1>19. CASE DropList(t)
  BY <1>19, DropListDoes, OwnKept DEF DropList, Busy, Using, Returning, At
<1>20. CASE JudgeListen(t)
  BY <1>20, JudgeListenDoes, OwnKept DEF JudgeListen, Busy, Using
<1>21. CASE GiveUp(t)
  BY <1>21, GiveUpDoes, OwnKept DEF GiveUp, Busy, Using
<1>22. CASE Lower(t)
  BY <1>22, LowerDoes, OwnKept DEF Lower, Busy, Using, Returning, At
<1>23. CASE Raise(t)
  BY <1>23, RaiseDoes, OwnKept DEF Raise, Busy, Using, Returning, At
<1>24. CASE Collect(t)
  <2>1. /\ pc[t] = "collect" /\ Busy(t) /\ loc[t].msg = "Listen"
        /\ loc[t].op \notin {"connect", "listen"}
    BY <1>24, CollectDoes
       DEF Own, Busy, Using, Inv, Orderly, OrderlyAt, Sorted, FirstMessage
  <2>2. fds' = fds
    BY <1>2, <1>24, <2>1, CollectDoes
  <2>3. QED  BY <1>24, <2>1, <2>2, CollectDoes, OwnKept DEF Who
<1>25. CASE JudgeConnect(t)
  <2>1. fds' = fds /\ Busy(t)
    BY <1>25 DEF JudgeConnect, At, Busy, Using
  <2>2. QED  BY <1>25, <2>1, JudgeConnectDoes, OwnKept
<1>26. CASE JudgePrivate(t)
  <2>1. fds' = fds /\ Busy(t)
    BY <1>26 DEF JudgePrivate, At, Busy, Using
  <2>2. QED  BY <1>26, <2>1, JudgePrivateDoes, OwnKept DEF Who, Private
<1>27. CASE Return(t)
  <2>1. fds' = fds /\ ~Busy(t)' /\ pc'[t] \notin {"closing", "collect"}
    BY <1>27, ReturnDoes DEF Return, Busy, Using, Returning, At
  <2>2. QED  BY <2>1 DEF Own, Spares
<1>28. QED
  BY <1>3, <1>4, <1>5, <1>6, <1>7, <1>8, <1>9, <1>10, <1>11, <1>12, <1>13, <1>14, <1>15,
     <1>16, <1>17, <1>18, <1>19, <1>20, <1>21, <1>22, <1>23, <1>24, <1>25, <1>26, <1>27
  DEF Step

\* Steps that neither send nor receive.
LEMMA AgreesKept ==
    ASSUME NEW t \in Thread, Agrees(t), fds' = fds, granted' = granted,
           Who(loc'[t], loc[t]), pc[t] # "receive",
           pc'[t] \in Unsent =>
               /\ pc[t] \in Unsent \/ (pc[t] = "judge" /\ loc[t].msg # "Connect")
               /\ pc'[t] = "send" /\ loc[t].op \in Private => loc'[t].tag = loc'[t].expected,
           pc'[t] \in Shared => loc[t].op \notin Private,
           pc'[t] \notin {"gettag", "judge"},
           pc'[t] = "receive" => pc[t] = "gettag" /\ loc'[t].msg = loc[t].msg
                                 /\ loc[t].op \notin Private,
           pc'[t] = "collect" => loc[t].id \in granted,
           Ending(t)' /\ loc[t].op # "listen" /\ loc'[t].value = "ok" => loc[t].id \in granted
    PROVE  Agrees(t)'
<1>1. loc'[t].fd = loc[t].fd /\ loc'[t].op = loc[t].op /\ loc'[t].id = loc[t].id
  BY DEF Who
<1> DEFINE c == fds[loc[t].fd]
<1>2. fds'[loc'[t].fd] = c
  BY <1>1
<1>3. pc'[t] \in Unsent => c.state # "connected" /\ c.sent = << >>
  BY DEF Agrees, Unsent
<1>4. pc'[t] = "receive" =>
          /\ c.state # "connected" /\ Len(c.sent) = 1
          /\ c.sent[1].type = loc'[t].msg /\ c.sent[1].id = loc'[t].id
  BY <1>1 DEF Agrees
<1> HIDE DEF c
<1>5. QED  BY <1>1, <1>2, <1>3, <1>4 DEF Agrees, Unsent, Shared

\* A thread that waits gets its answer.
LEMMA Answers ==
    ASSUME Kept, NEW t \in Thread, Own(t), Agrees(t), pc[t] = "receive"
    PROVE  Answerable(loc[t].fd)
<1>1. loc[t].fd \in Fd /\ Alive(loc[t].fd) /\ fds[loc[t].fd] \in Connection
  BY DEF Kept, Typed, Sorted, Own, Busy, Using, Made, Alive
<1>2. fds[loc[t].fd].state # "connected" /\ Len(fds[loc[t].fd].sent) = 1
  BY DEF Agrees
<1>3. fds[loc[t].fd].sent \in Seq(Packet)
  BY <1>1 DEF Connection
<1>4. fds[loc[t].fd].sent # << >>
  BY <1>2, <1>3, OnePacket
<1>5. QED  BY <1>1, <1>2, <1>4 DEF Answerable

LEMMA StepAgrees ==
    ASSUME Kept, NEW t \in Thread, faults = 0, faults' = 0, Own(t), Agrees(t), Step(t)
    PROVE  Agrees(t)' /\ granted \subseteq granted'
<1>1. Inv /\ Typed /\ Sorted(t) /\ loc[t] \in Local /\ loc[t].op \in Op
  BY Locals DEF Kept, Local
<1>2. Busy(t) => fds[loc[t].fd] # NULL /\ ~Broken(t)
  BY DEF Own, Made, Broken, Alive
<1> USE <1>1
<1>3. CASE Closing(t)
  <2>1. /\ Who(loc'[t], loc[t]) /\ loc'[t].value = loc[t].value
        /\ loc[t].closes = 1 /\ pc'[t] = loc[t].next /\ pc[t] = "closing"
        /\ loc[t].next \in {"return", "droplist", "open", "lower", "raise"}
    BY <1>3, ClosingDoes DEF Own
  <2>2. granted' = granted
    BY <1>3 DEF Closing
  <2>3. QED  BY <2>1, <2>2 DEF Agrees, Unsent, Shared, Ending, Who
<1>4. CASE Open(t)
  <2>1. PICK n \in Fd :
            /\ fds' = [fds EXCEPT ![n] = [id |-> loc[t].id, state |-> "new",
                                          sent |-> << >>]]
            /\ loc'[t].fd = n /\ pc'[t] \in {"protocol", "load"}
    BY <1>4, OpenDoes
  <2>2. fds'[n].state = "new" /\ fds'[n].sent = << >>
    BY <2>1, Opens
  <2>3. granted' = granted
    BY <1>4 DEF Open
  <2>4. QED  BY <2>1, <2>2, <2>3 DEF Agrees, Unsent, Shared, Ending
<1>5. CASE OpenFails(t)
  BY <1>5 DEF OpenFails
<1>6. CASE SetProtocol(t)
  <2>1. pc[t] = "protocol" /\ pc'[t] = "load" /\ loc' = loc /\ fds' = fds /\ granted' = granted
    BY <1>6, Goes DEF SetProtocol, At
  <2>2. QED  BY <2>1, AgreesKept DEF Shared, Unsent, Ending, Shared, Who
<1>7. CASE LoadTag(t)
  BY <1>7, LoadTagDoes, AgreesKept DEF LoadTag, Unsent, Ending, Shared
<1>8. CASE StoreTag(t)
  <2>1. pc'[t] \in {"send", "choose", "lock", "sendtag"}
    BY <1>8, StoreTagDoes DEF Inv, Orderly, OrderlyAt, Common
  <2>2. pc'[t] = "send" => loc'[t].tag = loc'[t].expected
    BY <1>8, StoreTagDoes DEF Inv, Orderly, OrderlyAt, Common
  <2>3. pc'[t] # "send" => loc[t].op \notin Private
    BY <1>8, StoreTagDoes
  <2>4. QED
    BY <1>8, <2>1, <2>2, <2>3, StoreTagDoes, AgreesKept DEF StoreTag, Unsent, Ending, Shared
<1>9. CASE Choose(t)
  <2>1. loc[t].op \notin Private
    BY <1>9, ChooseDoes DEF Inv, Orderly, OrderlyAt, Common
  <2>2. QED  BY <1>9, <2>1, ChooseDoes, AgreesKept DEF Choose, Unsent, Ending, Shared
<1>10. CASE Acquire(t)
  <2>1. pc[t] = "lock" /\ pc'[t] = "sendtag" /\ loc' = loc /\ fds' = fds /\ granted' = granted
    BY <1>10, Goes DEF Acquire, At
  <2>2. loc[t].op \notin Private
    BY <2>1 DEF Inv, Orderly, OrderlyAt, Common
  <2>3. QED  BY <2>1, <2>2, AgreesKept DEF Shared, Unsent, Ending, Shared, Who
<1>11. CASE SendTag(t)
  <2>1. loc[t].op \notin Private
    BY <1>11, SendTagDoes DEF Agrees, Shared
  <2>2. QED  BY <1>11, <2>1, SendTagDoes, AgreesKept DEF SendTag, Unsent, Ending, Shared
<1>12. CASE Format(t)
  <2>1. loc[t].op \notin Private
    BY <1>12, FormatDoes DEF Agrees, Shared
  <2>2. QED  BY <1>12, <2>1, FormatDoes, AgreesKept DEF Format, Unsent, Ending, Shared
<1>13. CASE Send(t)
  <2> DEFINE p == [type |-> loc[t].msg, format |-> loc[t].format,
                   version |-> proto_version, tag |-> loc[t].tag, id |-> loc[t].id]
             n == loc[t].fd
  <2>1. n \in Fd /\ loc' = loc /\ granted' = granted /\ pc[t] = "send"
    BY <1>13 DEF Send, At, Sorted
  <2>2. pc'[t] = IF loc[t].op \in Private THEN "receive" ELSE "gettag"
    BY <1>13, Goes DEF Send
  <2>3. fds'[n].sent = Append(fds[n].sent, p) /\ fds'[n].state = fds[n].state
    BY <1>13, <2>1, Sends
  <2>4. /\ fds[n].sent = << >> /\ fds[n].state # "connected"
        /\ loc[t].op \in Private => loc[t].tag = loc[t].expected
    BY <2>1 DEF Agrees, Unsent
  <2>5. Len(fds'[n].sent) = 1 /\ fds'[n].sent[1] = p
    <3> HIDE DEF p
    <3>1. QED  BY <2>3, <2>4
  <2>6. QED  BY <2>1, <2>2, <2>3, <2>4, <2>5 DEF Agrees, Unsent, Shared, Ending
<1>14. CASE SendFails(t)
  BY <1>2, <1>14 DEF SendFails, At, Busy, Using
<1>15. CASE GetTag(t)
  <2>1. loc[t].op \notin Private
    BY <1>15, GetTagDoes DEF Agrees, Shared
  <2>2. QED  BY <1>15, <2>1, GetTagDoes, AgreesKept DEF GetTag, Asked, Unsent, Ending, Shared
<1>16. CASE Receive(t)
  <2> DEFINE n == loc[t].fd
             p == Head(fds[n].sent)
  <2>1. n \in Fd /\ pc[t] = "receive"
    BY <1>16 DEF Receive, At, Sorted
  <2>2. /\ fds[n] # NULL /\ fds[n] \in Connection /\ fds[n].sent # << >> /\ p \in Packet
        /\ \E v \in Verdicts(p) :
               /\ fds' = Served(n, p, v) /\ GotResult(t, Result(t, p, v))
               /\ granted' = IF v \in {"ok", "empty"} THEN granted \cup {p.id} ELSE granted
    BY <1>16, <2>1, Receives
  <2>3. /\ Len(fds[n].sent) = 1 /\ fds[n].state # "connected"
        /\ p.type = loc[t].msg /\ p.id = loc[t].id
        /\ loc[t].op \in Private => p.tag = loc[t].expected
    <3>1. /\ Len(fds[n].sent) = 1 /\ fds[n].state # "connected"
          /\ fds[n].sent[1].type = loc[t].msg /\ fds[n].sent[1].id = loc[t].id
          /\ loc[t].op \in Private => fds[n].sent[1].tag = loc[t].expected
      BY ONLY Agrees(t), <2>1 DEF Agrees
    <3>2. p = fds[n].sent[1]
      BY ONLY <2>2 DEF Connection
    <3> HIDE DEF p, n
    <3>3. QED  BY ONLY <3>1, <3>2
  <2>4. Tail(fds[n].sent) = << >>
    BY <2>2, <2>3, OnePacket DEF Connection
  <2> HIDE DEF p
  <2>5. PICK v \in Verdicts(p) :
            /\ fds' = Served(n, p, v) /\ GotResult(t, Result(t, p, v))
            /\ granted' = IF v \in {"ok", "empty"} THEN granted \cup {p.id} ELSE granted
    BY <2>2
  <2>6. /\ fds'[n].sent = << >>
        /\ loc[t].msg # "Connect" => fds'[n].state # "connected"
    BY <2>1, <2>2, <2>3, <2>4, <2>5, Serves
  <2>7. /\ pc'[t] = "judge" /\ Who(loc'[t], loc[t]) /\ loc'[t].msg = loc[t].msg
        /\ loc'[t].ret = Result(t, p, v)[1] /\ loc'[t].res = Result(t, p, v)[2]
    BY <2>5, GotResultDoes
  <2>8. Result(t, p, v)[2] \in {"ok", "empty"} => v \in {"ok", "empty"}
    BY DEF Result
  <2>9. loc[t].op \in Private => Result(t, p, v)[1] = 1
    BY <2>3 DEF Result
  <2>10. loc'[t].res \in {"ok", "empty"} => loc'[t].id \in granted'
    BY <2>3, <2>5, <2>7, <2>8 DEF Who
  <2>11. loc'[t].op \in Private => loc'[t].ret # 0
    BY <2>7, <2>9 DEF Who
  <2>12. granted \subseteq granted'
    BY <2>5
  <2>13. QED  BY <2>6, <2>7, <2>10, <2>11, <2>12 DEF Agrees, Unsent, Shared, Ending, Who
<1>17. CASE ReceiveFails(t)
  <2>1. pc[t] = "receive"
    BY <1>17 DEF ReceiveFails, At
  <2>2. Answerable(loc[t].fd)
    BY <2>1, Answers
  <2>3. QED  BY <1>17, <2>2 DEF ReceiveFails
<1>18. CASE JudgeListDevices(t)
  <2>1. /\ pc[t] = "judge" /\ loc[t].msg = "ListDevices" /\ Who(loc'[t], loc[t])
        /\ \/ Granted(t) /\ pc'[t] = "closing"
           \/ pc'[t] = "load"
           \/ pc'[t] = "closing" /\ loc'[t].next = "droplist"
    BY <1>18, JudgeListDevicesDoes
  <2>2. Granted(t) => loc[t].id \in granted
    BY <2>1 DEF Agrees, Granted
  <2>3. granted' = granted /\ fds' = fds
    BY <1>18 DEF JudgeListDevices
  <2>4. QED  BY <2>1, <2>2, <2>3, AgreesKept DEF Shared, Unsent, Ending, Shared
<1>19. CASE DropList(t)
  BY <1>19, DropListDoes, AgreesKept DEF DropList, Unsent, Ending, Shared
<1>20. CASE JudgeListen(t)
  <2>1. Granted(t) => loc[t].id \in granted
    BY <1>20 DEF Agrees, Granted, JudgeListen, At
  <2>2. QED  BY <1>20, <2>1, JudgeListenDoes, AgreesKept DEF JudgeListen, Unsent, Ending, Shared
<1>21. CASE GiveUp(t)
  BY <1>21, GiveUpDoes, AgreesKept DEF GiveUp, Unsent, Ending, Shared
<1>22. CASE Lower(t)
  BY <1>22, LowerDoes, AgreesKept DEF Lower, Unsent, Ending, Shared
<1>23. CASE Raise(t)
  BY <1>23, RaiseDoes, AgreesKept DEF Raise, Unsent, Ending, Shared
<1>24. CASE Collect(t)
  <2>1. /\ pc[t] = "collect" /\ pc'[t] = "closing" /\ Who(loc'[t], loc[t])
        /\ fds' = fds \/ fds' = IF Broken(t) THEN Close(fds, loc[t].fd) ELSE fds
    BY <1>24, CollectDoes
  <2>2. fds' = fds /\ loc[t].id \in granted
    BY <1>2, <2>1 DEF Busy, Using, Agrees
  <2>3. granted' = granted
    BY <1>24 DEF Collect
  <2>4. QED  BY <2>1, <2>2, <2>3, AgreesKept DEF Shared, Unsent
<1>25. CASE JudgeConnect(t)
  <2>1. loc[t].res = "ok" => loc[t].id \in granted
    BY <1>25 DEF Agrees, JudgeConnect, At
  <2>2. fds' = fds /\ granted' = granted
    BY <1>25 DEF JudgeConnect
  <2>3. QED  BY <1>25, <2>1, <2>2, JudgeConnectDoes, AgreesKept DEF Shared, Unsent, Ending, Shared
<1>26. CASE JudgePrivate(t)
  <2>1. /\ pc[t] = "judge" /\ pc'[t] = "closing" /\ Who(loc'[t], loc[t])
        /\ loc'[t].value = PrivateValue(loc[t]) /\ loc[t].op \in Private
    BY <1>26, JudgePrivateDoes
  <2>2. PrivateValue(loc[t]) = "ok" => loc[t].ret = 0 \/ loc[t].res \in {"ok", "empty"}
    <3>1. loc[t].ret \in {-1, 0, 1}
      BY DEF Local
    <3>2. QED  BY <3>1 DEF PrivateValue
  <2>3. loc'[t].value = "ok" => loc[t].id \in granted
    BY <2>1, <2>2 DEF Agrees
  <2>4. fds' = fds /\ granted' = granted
    BY <1>26 DEF JudgePrivate
  <2>5. QED  BY <2>1, <2>3, <2>4, AgreesKept DEF Shared, Unsent
<1>27. CASE Return(t)
  <2>1. pc'[t] \in {"idle", "crashed"} /\ granted' = granted
    BY <1>27, ReturnDoes DEF Return
  <2>2. QED  BY <2>1 DEF Agrees, Unsent, Shared, Ending
<1>28. QED
  BY <1>3, <1>4, <1>5, <1>6, <1>7, <1>8, <1>9, <1>10, <1>11, <1>12, <1>13, <1>14, <1>15,
     <1>16, <1>17, <1>18, <1>19, <1>20, <1>21, <1>22, <1>23, <1>24, <1>25, <1>26, <1>27
  DEF Step

LEMMA StepFaults ==
    ASSUME Typed, NEW t \in Thread, Step(t) PROVE faults' \in {faults, faults + 1}
  BY Zenon
  DEF Step, Closing, Open, OpenFails, SetProtocol, LoadTag, StoreTag, Choose, Acquire, SendTag,
      Format, Send, SendFails, GetTag, Receive, ReceiveFails, JudgeListDevices, DropList,
      JudgeListen, GiveUp, Lower, Raise, Collect, JudgeConnect, JudgePrivate, Return, AllocFails

\* The others keep their connections, and so what holds of them.
LEMMA OthersKeep ==
    ASSUME NEW u \in Thread, Own(u), Holds(u), Agrees(u),
           pc'[u] = pc[u], loc'[u] = loc[u], held'[u] = held[u], granted \subseteq granted',
           Busy(u) => fds'[loc[u].fd] = fds[loc[u].fd],
           \A h \in held[u] : fds'[h.fd] = fds[h.fd]
    PROVE  Own(u)' /\ Holds(u)' /\ Agrees(u)'
<1>1. Own(u)'
  BY DEF Own, Busy, Using, Returning, At, Made
<1>2. Holds(u)'
  BY DEF Holds, Made
<1>3. pc[u] \in Unsent \cup {"gettag", "receive", "judge"} => Busy(u)
  BY DEF Unsent, Busy, Using
<1>4. pc[u] \in Unsent \cup {"gettag", "receive", "judge"} =>
          fds'[loc'[u].fd] = fds[loc[u].fd]
  BY <1>3
<1>5. Agrees(u)'
  BY <1>4 DEF Agrees, Ending
<1>6. QED  BY <1>1, <1>2, <1>5

LEMMA BusyPlaced ==
    ASSUME Kept, NEW t \in Thread, Busy(t)
    PROVE  loc[t].fd \in Fd /\ Running(t)
  BY DEF Kept, Sorted, Busy, Using, Returning, At, Running

LEMMA FaultlessStep ==
    ASSUME Kept, Numbered, Faultless, NEW t \in Thread, Step(t) PROVE Faultless'
<1> SUFFICES ASSUME faults' = 0, NEW u \in Thread PROVE Own(u)' /\ Holds(u)' /\ Agrees(u)'
  BY DEF Faultless
<1>1. Inv /\ Typed /\ faults = 0
  <2>1. faults' \in {faults, faults + 1} /\ faults \in Nat
    BY StepFaults, RequestsAssumption DEF Kept, Typed
  <2>2. QED  BY <2>1 DEF Kept
<1>2. \A v \in Thread : Own(v) /\ Holds(v) /\ Agrees(v)
  BY <1>1 DEF Faultless
<1>3. Own(t)' /\ Spares(t) /\ Agrees(t)' /\ granted \subseteq granted'
  BY <1>1, <1>2, StepOwns, StepAgrees
<1>4. /\ \A v \in Thread \ {t} : pc'[v] = pc[v] /\ loc'[v] = loc[v] /\ held'[v] = held[v]
      /\ Running(t)
  <2>1. CASE Return(t)
    BY <1>1, <2>1, StepGoesOn DEF Return, Typed, Running
  <2>2. CASE held' = held
    BY <1>1, <2>2, StepGoesOn DEF Running
  <2>3. QED  BY <1>1, <2>1, <2>2, StepGoesOn
<1>5. \A v \in Thread : \A h \in held[v] : h.fd \in Fd /\ fds'[h.fd] = fds[h.fd]
  <2>1. \A v \in Thread : \A h \in held[v] : h.fd \in Fd
    BY <1>1 DEF Typed
  <2>2. \A v \in Thread : \A h \in held[v] : h.id # loc[t].id /\ Made(h.fd, h.id)
    BY <1>2, <1>4 DEF Numbered, Holds
  <2>3. QED  BY <1>3, <2>1, <2>2 DEF Spares
<1>6. CASE u = t
  <2>1. CASE held' = held
    BY <1>2, <1>3, <1>5, <1>6, <2>1 DEF Holds, Made
  <2>2. CASE Return(t)
    <3> DEFINE g == [fd |-> loc[t].fd, id |-> loc[t].id]
    <3>1. held'[t] = IF Returning(t) THEN held[t] \cup {g} ELSE held[t]
      BY <1>1, <2>2 DEF Return, Returning, At, Typed
    <3>2. fds' = fds
      BY <2>2 DEF Return
    <3>3. Returning(t) => Made(g.fd, g.id)
      BY <1>2 DEF Own, Busy
    <3> HIDE DEF g
    <3>4. Holds(t)'
      BY <1>2, <3>1, <3>2, <3>3 DEF Holds, Made
    <3>5. QED  BY <1>3, <1>6, <3>4
  <2>3. QED  BY <1>1, <2>1, <2>2, StepGoesOn
<1>7. CASE u # t
  <2>1. Busy(u) => fds'[loc[u].fd] = fds[loc[u].fd]
    <3>1. Busy(u) => loc[u].id # loc[t].id /\ loc[u].fd \in Fd
      BY <1>4, <1>7, BusyPlaced DEF Numbered
    <3>2. QED  BY <1>2, <1>3, <3>1 DEF Own, Spares
  <2>2. QED  BY <1>2, <1>3, <1>4, <1>5, <1>7, <2>1, OthersKeep
<1>8. QED  BY <1>6, <1>7

LEMMA FaultlessCall ==
    ASSUME Kept, Faultless, NEW t \in Thread, Call(t) PROVE Faultless'
<1> SUFFICES ASSUME faults' = 0, NEW u \in Thread PROVE Own(u)' /\ Holds(u)' /\ Agrees(u)'
  BY DEF Faultless
<1>1. Inv /\ faults = 0 /\ fds' = fds /\ held' = held /\ granted' = granted
  BY DEF Kept, Call
<1>2. pc'[t] = "open" /\ \A v \in Thread \ {t} : pc'[v] = pc[v] /\ loc'[v] = loc[v]
  BY <1>1, CallDoes, CallKeeps DEF Keeps
<1>3. Own(u) /\ Holds(u) /\ Agrees(u)
  BY <1>1 DEF Faultless
<1>4. CASE u = t
  <2>1. Holds(t)'
    BY <1>1, <1>3, <1>4 DEF Holds, Made
  <2>2. QED
    BY <1>2, <1>4, <2>1
       DEF Own, Busy, Using, Returning, At, Agrees, Unsent, Shared, Ending
<1>5. CASE u # t
  BY <1>1, <1>2, <1>3, <1>5, OthersKeep
<1>6. QED  BY <1>4, <1>5

LEMMA FaultlessDisconnect ==
    ASSUME Kept, Numbered, Faultless, NEW t \in Thread, Disconnect(t) PROVE Faultless'
<1> SUFFICES ASSUME faults' = 0, NEW u \in Thread PROVE Own(u)' /\ Holds(u)' /\ Agrees(u)'
  BY DEF Faultless
<1>1. Typed /\ faults = 0 /\ pc' = pc /\ loc' = loc /\ granted' = granted /\ pc[t] = "idle"
  BY DEF Kept, Disconnect, At
<1>2. PICK h \in held[t] :
          fds' = Close(fds, h.fd) /\ held' = [held EXCEPT ![t] = held[t] \ {h}]
  BY DEF Disconnect
<1>3. \A v \in Thread : Own(v) /\ Holds(v) /\ Agrees(v)
  BY <1>1 DEF Faultless
<1>4. Made(h.fd, h.id)
  BY <1>3 DEF Holds
<1>5. \A m \in Fd : m # h.fd => fds'[m] = fds[m]
  BY <1>1, <1>2, Closes
<1>6. Busy(u) => fds'[loc[u].fd] = fds[loc[u].fd]
  <2>1. Busy(u) => loc[u].fd \in Fd /\ loc[u].id # h.id /\ Made(loc[u].fd, loc[u].id)
    BY <1>3, BusyPlaced DEF Numbered, Own
  <2>2. QED  BY <1>4, <1>5, <2>1 DEF Made
<1>7. \A g \in held'[u] : g \in held[u] /\ g # h
  <2>1. \A g \in held'[u] : g \in held[u] /\ (u = t => g # h)
    BY <1>1, <1>2 DEF Typed
  <2>2. \A g \in held[u] : g = h => u = t
    BY <1>2 DEF Numbered
  <2>3. QED  BY <2>1, <2>2
<1>8. \A g \in held'[u] : fds'[g.fd] = fds[g.fd] /\ Made(g.fd, g.id)
  <2>1. \A g \in held'[u] : g.fd \in Fd /\ g.id # h.id /\ Made(g.fd, g.id)
    BY <1>1, <1>2, <1>3, <1>7 DEF Numbered, Holds, Typed
  <2>2. QED  BY <1>4, <1>5, <2>1 DEF Made
<1>9. Holds(u)'
  BY <1>8 DEF Holds, Made
<1>10. Own(u)'
  BY <1>1, <1>3, <1>6 DEF Own, Busy, Using, Returning, At, Made
<1>11. Agrees(u)'
  <2>1. pc[u] \in Unsent \cup {"gettag", "receive", "judge"} =>
            fds'[loc'[u].fd] = fds[loc[u].fd]
    BY <1>1, <1>6 DEF Unsent, Busy, Using
  <2>2. QED  BY <1>1, <1>3, <2>1 DEF Agrees, Ending
<1>12. QED  BY <1>9, <1>10, <1>11

LEMMA FaultlessDaemon ==
    ASSUME Kept, NEW n \in Fd, DaemonCloses(n) PROVE Faultless'
<1>1. faults \in Nat
  BY RequestsAssumption DEF Kept, Typed
<1>2. QED  BY <1>1 DEF DaemonCloses, Faultless

\* While nothing fails.
Apart == Kept /\ Numbered /\ Faultless

LEMMA ApartInit == ASSUME Init PROVE Apart
<1>1. Numbered
  BY DEF Init, Numbered, Running
<1>2. \A t \in Thread : pc[t] = "idle" /\ held[t] = {}
  BY DEF Init
<1>3. Faultless
  BY <1>2
     DEF Faultless, Own, Busy, Using, Returning, At, Holds, Agrees, Unsent, Shared, Ending
<1>4. QED  BY <1>1, <1>3, KeptInit DEF Apart

LEMMA ApartNext == ASSUME Apart, [Next]_vars PROVE Apart'
<1>1. Kept /\ Numbered /\ Faultless /\ Kept'
  BY KeptNext DEF Apart
<1>2. ASSUME NEW t \in Thread, Step(t) PROVE Numbered' /\ Faultless'
  BY <1>1, <1>2, NumberedStep, FaultlessStep
<1>3. ASSUME NEW t \in Thread, Call(t) PROVE Numbered' /\ Faultless'
  BY <1>1, <1>3, NumberedCall, FaultlessCall
<1>4. ASSUME NEW t \in Thread, Disconnect(t) PROVE Numbered' /\ Faultless'
  <2>1. \A u \in Thread : held'[u] \subseteq held[u]
    BY <1>1, <1>4 DEF Disconnect, Kept, Typed
  <2>2. Numbered'
    BY <1>1, <1>4, <2>1, NumberedRest DEF Disconnect
  <2>3. QED  BY <1>1, <1>4, <2>2, FaultlessDisconnect
<1>5. ASSUME NEW n \in Fd, DaemonCloses(n) PROVE Numbered' /\ Faultless'
  BY <1>1, <1>5, NumberedRest, FaultlessDaemon DEF DaemonCloses
<1>6. CASE UNCHANGED vars
  <2>1. Numbered'
    BY <1>1, <1>6, NumberedRest DEF vars
  <2>2. Faultless'
    <3> SUFFICES ASSUME faults' = 0, NEW t \in Thread
                 PROVE  Own(t)' /\ Holds(t)' /\ Agrees(t)'
      BY DEF Faultless
    <3>1. Own(t) /\ Holds(t) /\ Agrees(t)
      BY <1>1, <1>6 DEF vars, Faultless
    <3>2. /\ pc'[t] = pc[t] /\ loc'[t] = loc[t] /\ held'[t] = held[t] /\ fds' = fds
          /\ granted \subseteq granted'
      BY <1>6 DEF vars
    <3>3. QED  BY <3>1, <3>2, OthersKeep
  <2>3. QED  BY <1>1, <2>1, <2>2 DEF Apart
<1>7. QED  BY <1>1, <1>2, <1>3, <1>4, <1>5, <1>6 DEF Next, Apart

LEMMA AlwaysApart == Spec => []Apart
  BY ApartInit, ApartNext, PTL DEF Spec

\* The descriptor a caller was given refers to its own connection, however many threads
\* call, as long as nothing fails: then every socket is closed once.
THEOREM ConnectionsAreOwn == Spec => [](faults = 0 => OwnConnections)
<1>1. Apart => (faults = 0 => OwnConnections)
  BY DEF Apart, Faultless, Holds, Made, OwnConnections
<1>2. QED  BY AlwaysApart, <1>1, PTL

\* As long as nothing fails, a call that reports success had its request carried out,
\* however many threads count their tags with one counter.
THEOREM CallsAreHonest == Spec => [](faults = 0 => Honest)
<1>1. Apart => (faults = 0 => Honest)
  BY DEF Apart, Faultless, Agrees, Ending, Honest, At
<1>2. QED  BY AlwaysApart, <1>1, PTL

-----------------------------------------------------------------------------
(* A thread alone with the daemon: what it is told is what the daemon says *)
(* of the version and the message it tried.                                *)

FormatOf(version) == IF version = 1 THEN "plist" ELSE "binary"

Says(message, version) ==
    IF version \notin daemon.speaks THEN {"badversion"}
    ELSE IF message \notin daemon.grants THEN {"refused"}
    ELSE CASE message = "Connect" -> {"ok", "refused"}
           [] message \in DataMessage -> {"ok", "empty"}
           [] OTHER -> {"ok"}

\* usbmuxd_get_device_list and usbmuxd_listen look at the version.
Refused(t) ==
    \/ pc[t] \in {"unlock", "lower", "raise"}
    \/ pc[t] = "closing" /\ loc[t].next \in {"lower", "raise"}

Satisfied(t) ==
    \/ loc[t].value = "ok"
    \/ loc[t].op = "connect" /\ loc[t].res = "refused"
    \/ loc[t].op = "read" /\ loc[t].res = "empty"

Capable(t) == Able(loc[t].op)

Talks(t) ==
    LET l == loc[t]
        c == fds[l.fd]
    IN  /\ proto_version = 0 => 1 \notin daemon.speaks
        /\ l.op \in Private =>
               /\ l.format = "plist"
               /\ pc[t] \in {"load", "store", "send", "receive", "judge"} => proto_version = 1
        /\ l.msg = "ListDevices" /\ pc[t] \in {"sendtag", "format", "send", "gettag", "receive",
                                                "judge"}
               => proto_version = 1
        /\ pc[t] \in {"format", "send", "gettag"} /\ l.op \notin Private => l.tag = use_tag
        /\ pc[t] = "send" => l.format = FormatOf(proto_version)
        /\ pc[t] \in {"gettag", "receive"} =>
               /\ c.sent[1].version = proto_version
               /\ c.sent[1].format = FormatOf(proto_version)
               /\ c.sent[1].tag = IF pc[t] = "gettag" THEN use_tag ELSE l.expected
        /\ pc[t] = "judge" => l.ret = 1 /\ l.res \in Says(l.msg, proto_version)
        /\ Refused(t) =>
               /\ l.res = "badversion" /\ proto_version = 1 => 1 \notin daemon.speaks
               /\ Capable(t) => /\ l.op # "listen"
                                /\ l.res = "badversion" /\ proto_version = 1
        /\ pc[t] = "raise" \/ (pc[t] = "closing" /\ l.next = "raise") => l.op = "listen"
        /\ Ending(t) /\ Capable(t) => Satisfied(t)

Understood == faults = 0 => \A t \in Thread : Talks(t)

LEMMA SaysVerdicts ==
    ASSUME NEW p \in Packet, p.format = FormatOf(p.version)
    PROVE  Verdicts(p) = Says(p.type, p.version)
<1>1. p.version \in {0, 1}
  BY DEF Packet
<1>2. p.format = "plist" <=> p.version = 1
  BY <1>1 DEF FormatOf
<1>3. CASE p.version \notin daemon.speaks
  BY <1>3 DEF Verdicts, Says
<1>4. CASE p.version \in daemon.speaks /\ p.type \notin daemon.grants
  BY <1>4 DEF Verdicts, Says
<1>5. CASE p.version \in daemon.speaks /\ p.type \in daemon.grants
  <2>1. ~(p.type \notin daemon.grants \/ (p.format = "plist" /\ 1 \notin daemon.speaks))
    BY <1>2, <1>5
  <2>2. QED  BY <1>5, <2>1 DEF Verdicts, Says
<1>6. QED  BY <1>3, <1>4, <1>5

LEMMA StepTalks ==
    ASSUME Kept, NEW t \in Thread, faults = 0, faults' = 0, Own(t), Agrees(t), Talks(t), Step(t)
    PROVE  Talks(t)'
<1>1. /\ Inv /\ Typed /\ Sorted(t) /\ loc[t] \in Local /\ loc[t].op \in Op
      /\ proto_version \in {0, 1} /\ daemon' = daemon
  BY Locals, StepGoesOn DEF Kept, Local, Typed
<1>2. Busy(t) => fds[loc[t].fd] # NULL /\ ~Broken(t)
  BY DEF Own, Made, Broken, Alive
<1>3. loc'[t].op = loc[t].op => (Capable(t)' <=> Capable(t))
  BY <1>1 DEF Capable, Able
<1>4. loc[t].op \in Private => loc[t].msg \notin Common
  BY <1>1 DEF Inv, Orderly, OrderlyAt
<1>5. daemon.speaks \subseteq {0, 1}
  BY <1>1, RequestsAssumption DEF Typed
<1>6. CASE Closing(t)
  <2>1. /\ Who(loc'[t], loc[t]) /\ Asked(loc'[t], loc[t]) /\ Heard(loc'[t], loc[t])
        /\ loc'[t].value = loc[t].value /\ loc'[t].next = loc[t].next
        /\ pc'[t] = loc[t].next /\ pc[t] = "closing"
        /\ loc[t].next \in {"return", "droplist", "open", "lower", "raise"}
    BY <1>1, <1>6, ClosingDoes DEF Own
  <2>2. proto_version' = proto_version
    BY <1>6 DEF Closing, globals
  <2>3. QED
    BY <1>1, <1>3, <2>1, <2>2 DEF Talks, Refused, Ending, Satisfied, Who, Asked, Heard
<1>7. CASE Open(t)
  <2>1. /\ loc'[t].op = loc[t].op /\ Asked(loc'[t], loc[t]) /\ pc[t] = "open"
        /\ pc'[t] = IF loc[t].op \in Private THEN "protocol" ELSE "load"
    BY <1>1, <1>7, OpenDoes
  <2>2. proto_version' = proto_version
    BY <1>7 DEF Open, globals
  <2>3. QED  BY <1>1, <1>4, <2>1, <2>2 DEF Talks, Refused, Ending, Asked
<1>8. CASE OpenFails(t)
  BY <1>8 DEF OpenFails
<1>9. CASE SetProtocol(t)
  <2>1. /\ pc[t] = "protocol" /\ pc'[t] = "load" /\ loc' = loc /\ proto_version' = 1
    BY <1>1, <1>9, Goes DEF SetProtocol, At
  <2>2. QED  BY <1>1, <2>1 DEF Talks, Refused, Ending
<1>10. CASE LoadTag(t)
  <2>1. proto_version' = proto_version
    BY <1>10 DEF LoadTag, globals
  <2>2. QED  BY <1>1, <1>10, <1>4, <2>1, LoadTagDoes DEF Talks, Refused, Ending, Who, Asked
<1>11. CASE StoreTag(t)
  <2>1. /\ pc[t] = "store" /\ Who(loc'[t], loc[t]) /\ Asked(loc'[t], loc[t])
        /\ proto_version' = proto_version
        /\ \/ loc[t].op \in Private /\ pc'[t] = "send"
           \/ loc[t].op \notin Private /\ pc'[t] \in {"choose", "lock"}
           \/ /\ loc[t].op \notin Private /\ pc'[t] = "sendtag"
              /\ loc[t].msg = "Connect"
    BY <1>1, <1>11, StoreTagDoes DEF StoreTag, Inv, Orderly, OrderlyAt, Common
  <2>2. QED
    BY <1>1, <1>4, <2>1 DEF Talks, Refused, Ending, Who, Asked, FormatOf, Common
<1>12. CASE Choose(t)
  <2>1. proto_version' = proto_version
    BY <1>12 DEF Choose, globals
  <2>2. pc[t] = "choose" /\ loc[t].op \notin Private
    BY <1>1, <1>12 DEF Choose, At, Inv, Orderly, OrderlyAt, Common
  <2>3. QED
    BY <1>1, <1>12, <2>1, <2>2, ChooseDoes DEF Talks, Refused, Ending, Who
<1>13. CASE Acquire(t)
  <2>1. /\ pc[t] = "lock" /\ pc'[t] = "sendtag" /\ loc' = loc /\ loc[t].msg = "Listen"
        /\ proto_version' = proto_version
    BY <1>1, <1>13, Goes DEF Acquire, At, globals, Inv, Orderly, OrderlyAt
  <2>2. QED  BY <1>1, <2>1 DEF Talks, Refused, Ending
<1>14. CASE SendTag(t)
  <2>1. proto_version' = proto_version /\ use_tag' = use_tag
    BY <1>14 DEF SendTag, globals
  <2>2. QED
    BY <1>1, <1>14, <1>4, <2>1, SendTagDoes
       DEF Talks, Refused, Ending, Who, FormatOf, Common
<1>15. CASE Format(t)
  <2>1. proto_version' = proto_version /\ use_tag' = use_tag
    BY <1>15 DEF Format, globals
  <2>2. /\ pc[t] = "format" /\ pc'[t] = "send"
        /\ Who(loc'[t], loc[t]) /\ Tagged(loc'[t], loc[t]) /\ loc'[t].msg = loc[t].msg
        /\ loc'[t].format = FormatOf(proto_version)
    BY <1>1, <1>15, FormatDoes DEF FormatOf
  <2>3. loc[t].op \notin Private
    BY <2>2 DEF Agrees, Shared
  <2>4. QED  BY <1>1, <2>1, <2>2, <2>3 DEF Talks, Refused, Ending, Who, Tagged
<1>16. CASE Send(t)
  <2> DEFINE p == [type |-> loc[t].msg, format |-> loc[t].format,
                   version |-> proto_version, tag |-> loc[t].tag, id |-> loc[t].id]
             n == loc[t].fd
  <2>1. /\ n \in Fd /\ loc' = loc /\ pc[t] = "send"
        /\ proto_version' = proto_version /\ use_tag' = use_tag
    BY <1>1, <1>16 DEF Send, At, Sorted, globals
  <2>2. pc'[t] = IF loc[t].op \in Private THEN "receive" ELSE "gettag"
    BY <1>1, <1>16, Goes DEF Send
  <2>3. fds'[n].sent = Append(fds[n].sent, p)
    BY <1>1, <1>16, <2>1, Sends
  <2>4. /\ fds[n].sent = << >>
        /\ loc[t].op \in Private => loc[t].tag = loc[t].expected
    BY <2>1 DEF Agrees, Unsent
  <2>5. fds'[n].sent[1] = p
    <3> HIDE DEF p
    <3>1. QED  BY <2>3, <2>4
  <2>6. /\ p.version = proto_version /\ p.format = FormatOf(proto_version)
        /\ p.tag = loc[t].tag
        /\ loc[t].op \notin Private => loc[t].tag = use_tag
    BY <2>1 DEF Talks
  <2> HIDE DEF p
  <2>7. QED  BY <1>1, <2>1, <2>2, <2>4, <2>5, <2>6 DEF Talks, Refused, Ending
<1>17. CASE SendFails(t)
  BY <1>2, <1>17 DEF SendFails, At, Busy, Using
<1>18. CASE GetTag(t)
  <2>1. proto_version' = proto_version /\ use_tag' = use_tag /\ fds' = fds
    BY <1>18 DEF GetTag, globals
  <2>2. /\ pc[t] = "gettag" /\ pc'[t] = "receive"
        /\ Who(loc'[t], loc[t]) /\ Asked(loc'[t], loc[t]) /\ loc'[t].expected = use_tag
    BY <1>1, <1>18, GetTagDoes
  <2>3. loc[t].op \notin Private
    BY <2>2 DEF Agrees, Shared
  <2>4. fds'[loc'[t].fd] = fds[loc[t].fd]
    BY <2>1, <2>2 DEF Who
  <2> DEFINE c == fds[loc[t].fd]
  <2> HIDE DEF c
  <2>5. /\ c.sent[1].version = proto_version /\ c.sent[1].format = FormatOf(proto_version)
        /\ c.sent[1].tag = use_tag
    BY <2>2 DEF Talks, c
  <2>6. fds'[loc'[t].fd] = c
    BY <2>4 DEF c
  <2>7. QED  BY <1>1, <2>1, <2>2, <2>3, <2>5, <2>6 DEF Talks, Refused, Ending, Who, Asked
<1>19. CASE Receive(t)
  <2> DEFINE n == loc[t].fd
             p == Head(fds[n].sent)
  <2>1. n \in Fd /\ pc[t] = "receive" /\ proto_version' = proto_version
    BY <1>1, <1>19 DEF Receive, At, Sorted, globals
  <2>2. /\ p \in Packet /\ p = fds[n].sent[1]
        /\ \E v \in Verdicts(p) : GotResult(t, Result(t, p, v))
    BY <1>1, <1>19, <2>1, Receives
  <2>3. /\ p.type = loc[t].msg /\ p.version = proto_version
        /\ p.format = FormatOf(proto_version) /\ p.tag = loc[t].expected
    BY <2>1, <2>2 DEF Agrees, Talks
  <2> HIDE DEF p
  <2>4. PICK v \in Verdicts(p) : GotResult(t, Result(t, p, v))
    BY <2>2
  <2>5. v \in Says(loc[t].msg, proto_version)
    BY <2>2, <2>3, SaysVerdicts
  <2>6. Result(t, p, v)[1] = 1 /\ Result(t, p, v)[2] = v
    BY <2>3 DEF Result
  <2>7. /\ pc'[t] = "judge" /\ Who(loc'[t], loc[t]) /\ loc'[t].msg = loc[t].msg
        /\ loc'[t].format = "plist" /\ loc'[t].ret = 1 /\ loc'[t].res = v
    BY <1>1, <2>4, <2>6, GotResultDoes
  <2>8. (loc[t].res \in Says(loc[t].msg, proto_version))'
    BY <1>1, <2>1, <2>5, <2>7 DEF Says
  <2>9. QED  BY <1>1, <2>1, <2>7, <2>8 DEF Talks, Refused, Ending, Who
<1>20. CASE ReceiveFails(t)
  <2>1. pc[t] = "receive"
    BY <1>20 DEF ReceiveFails, At
  <2>2. Answerable(loc[t].fd)
    BY <2>1, Answers
  <2>3. QED  BY <1>20, <2>2 DEF ReceiveFails
<1>21. ~AllocFails
  BY DEF AllocFails
<1>22. pc[t] = "judge" =>
          /\ loc[t].ret = 1
          /\ loc[t].res = "badversion" <=> proto_version \notin daemon.speaks
          /\ proto_version \in daemon.speaks /\ loc[t].msg \in daemon.grants =>
                 loc[t].res = "ok" \/ (loc[t].msg = "Connect" /\ loc[t].res = "refused")
                                  \/ (loc[t].msg \in DataMessage /\ loc[t].res = "empty")
  <2>1. ASSUME pc[t] = "judge"
        PROVE  loc[t].ret = 1 /\ loc[t].res \in Says(loc[t].msg, proto_version)
    BY <2>1 DEF Talks
  <2>2. QED  BY <2>1 DEF Says
<1>23. proto_version = 0 => 1 \notin daemon.speaks
  BY DEF Talks
<1>24. CASE JudgeListDevices(t)
  <2>1. loc[t].op \notin Private /\ loc[t].msg = "ListDevices" /\ pc[t] = "judge"
    BY <1>1, <1>24 DEF JudgeListDevices, At, Inv, Orderly, OrderlyAt, Common
  <2>2. proto_version = 1
    BY <2>1 DEF Talks
  <2>3. Who(loc'[t], loc[t])
    BY <1>1, <1>24, JudgeListDevicesDoes
  <2>4. CASE /\ pc'[t] = "closing" /\ loc'[t].next = "return" /\ loc'[t].value = "ok"
             /\ loc'[t].msg = loc[t].msg /\ proto_version' = proto_version
    BY <1>1, <2>1, <2>2, <2>3, <2>4 DEF Talks, Refused, Ending, Satisfied, Who
  <2>5. CASE pc'[t] = "load" /\ loc'[t].msg = "Listen" /\ proto_version' = proto_version
    BY <1>1, <2>1, <2>2, <2>3, <2>5 DEF Talks, Refused, Ending, Who
  <2>6. CASE /\ pc'[t] = "closing" /\ loc'[t].next = "droplist"
             /\ proto_version' = IF loc[t].res = "badversion" THEN 0 ELSE proto_version
    BY <1>1, <1>22, <2>1, <2>2, <2>3, <2>6 DEF Talks, Refused, Ending, Who
  <2>7. QED
    BY <1>1, <1>24, <1>21, <2>4, <2>5, <2>6, JudgeListDevicesDoes
<1>25. CASE DropList(t)
  <2>1. proto_version' = proto_version
    BY <1>25 DEF DropList
  <2>2. QED  BY <1>1, <1>25, <2>1, DropListDoes DEF Talks, Refused, Ending, Who
<1>26. CASE JudgeListen(t)
  <2>1. /\ pc[t] = "judge" /\ loc[t].msg = "Listen" /\ proto_version' = proto_version
        /\ Who(loc'[t], loc[t]) /\ Asked(loc'[t], loc[t]) /\ Heard(loc'[t], loc[t])
        /\ \/ pc'[t] = "return" /\ loc'[t].value = "ok"
           \/ pc'[t] = "unlock" /\ loc[t].res # "ok"
           \/ pc'[t] = "collect"
    BY <1>1, <1>26, <1>22, JudgeListenDoes DEF JudgeListen, globals, Granted
  <2>2. loc[t].op \in {"listen", "list", "lookup"}
    BY <1>1, <2>1 DEF Sorted, FirstMessage, Op
  <2>3. CASE pc'[t] \in {"return", "collect"}
    BY <1>1, <2>1, <2>2, <2>3 DEF Talks, Refused, Ending, Satisfied, Who, Asked, Heard
  <2>4. CASE pc'[t] = "unlock" /\ loc[t].res # "ok"
    <3>1. ASSUME Capable(t)
          PROVE  loc[t].op # "listen" /\ loc[t].res = "badversion" /\ proto_version = 1
      <4>1. /\ "Listen" \in daemon.grants /\ daemon.speaks # {}
            /\ loc[t].op = "listen" => 1 \in daemon.speaks
        BY <2>2, <3>1 DEF Capable, Able, Private
      <4>2. proto_version \notin daemon.speaks /\ loc[t].res = "badversion"
        BY <1>22, <2>1, <2>4, <4>1 DEF DataMessage
      <4>3. QED  BY <1>1, <1>5, <1>23, <4>1, <4>2
    <3>2. loc[t].res = "badversion" /\ proto_version = 1 => 1 \notin daemon.speaks
      BY <1>22, <2>1
    <3>3. QED
      BY <1>1, <1>3, <2>1, <2>2, <2>4, <3>1, <3>2
         DEF Talks, Refused, Ending, Who, Asked, Heard
  <2>5. QED  BY <2>1, <2>3, <2>4
<1>27. CASE GiveUp(t)
  <2>1. proto_version' = proto_version
    BY <1>27 DEF GiveUp, globals
  <2>2. QED
    BY <1>1, <1>27, <1>3, <2>1, GiveUpDoes DEF Talks, Refused, Ending, Who, Asked, Heard
<1>28. CASE Lower(t)
  BY <1>1, <1>28, <1>3, LowerDoes DEF Talks, Refused, Ending, Who
<1>29. CASE Raise(t)
  BY <1>1, <1>29, <1>3, RaiseDoes DEF Talks, Refused, Ending, Who
<1>30. CASE Collect(t)
  <2>1. proto_version' = proto_version
    BY <1>30 DEF Collect, globals
  <2>2. QED
    BY <1>1, <1>30, <1>21, <2>1, CollectDoes
       DEF Talks, Refused, Ending, Satisfied, Who, Asked
<1>31. CASE JudgeConnect(t)
  <2>1. /\ pc[t] = "judge" /\ loc[t].msg = "Connect" /\ loc[t].op = "connect"
        /\ Who(loc'[t], loc[t]) /\ Heard(loc'[t], loc[t])
        /\ loc'[t].format = loc[t].format
    BY <1>1, <1>31, JudgeConnectDoes DEF Sorted, FirstMessage, Op
  <2>2. CASE pc'[t] = "return" /\ loc'[t].value = "ok" /\ proto_version' = proto_version
    BY <1>1, <2>1, <2>2 DEF Talks, Refused, Ending, Satisfied, Who, Private
  <2>3. CASE /\ loc[t].res = "badversion" /\ proto_version = 1 /\ proto_version' = 0
             /\ pc'[t] = "closing" /\ loc'[t].next = "open"
    BY <1>1, <1>22, <2>1, <2>3 DEF Talks, Refused, Ending, Who, Private
  <2>4. CASE /\ loc[t].res # "ok" /\ (loc[t].res = "badversion" => proto_version # 1)
             /\ proto_version' = proto_version
             /\ pc'[t] = "closing" /\ loc'[t].next = "return"
    <3>1. ASSUME Capable(t) PROVE loc[t].res = "refused"
      <4>1. "Connect" \in daemon.grants /\ daemon.speaks # {}
        BY <2>1, <3>1 DEF Capable, Able, Private
      <4>2. proto_version \in daemon.speaks
        BY <1>1, <1>5, <1>22, <1>23, <2>1, <2>4, <4>1
      <4>3. QED  BY <1>22, <2>1, <2>4, <4>1, <4>2 DEF DataMessage
    <3>2. QED
      BY <1>1, <1>3, <2>1, <2>4, <3>1
         DEF Talks, Refused, Ending, Satisfied, Who, Heard, Private
  <2>5. QED  BY <1>1, <1>31, <2>2, <2>3, <2>4, JudgeConnectDoes
<1>32. CASE JudgePrivate(t)
  <2>1. /\ pc[t] = "judge" /\ loc[t].op \in Private /\ proto_version' = proto_version
        /\ Who(loc'[t], loc[t]) /\ Asked(loc'[t], loc[t]) /\ Heard(loc'[t], loc[t])
        /\ loc'[t].value = PrivateValue(loc[t])
        /\ pc'[t] = "closing" /\ loc'[t].next = "return"
    BY <1>1, <1>32, JudgePrivateDoes DEF JudgePrivate, globals
  <2>2. /\ proto_version = 1 /\ loc[t].ret = 1
        /\ loc[t].msg = FirstMessage(loc[t].op)
    BY <1>1, <1>22, <2>1 DEF Talks, Sorted, Private
  <2>3. ASSUME Capable(t)
        PROVE  PrivateValue(loc[t]) = "ok" \/ (loc[t].op = "read" /\ loc[t].res = "empty")
    <3>1. 1 \in daemon.speaks /\ loc[t].msg \in daemon.grants
      BY <2>1, <2>2, <2>3 DEF Capable, Able, Private
    <3>2. loc[t].msg # "Connect"
      BY <1>4, <2>1 DEF Common
    <3>3. loc[t].res \in {"ok", "empty"}
      BY <1>22, <2>1, <2>2, <3>1, <3>2
    <3>4. QED  BY <2>2, <3>3 DEF PrivateValue
  <2>4. QED
    BY <1>1, <1>3, <2>1, <2>3 DEF Talks, Refused, Ending, Satisfied, Who, Asked, Heard
<1>33. CASE Return(t)
  <2>1. pc'[t] \in {"idle", "crashed"}
    BY <1>1, <1>33, ReturnDoes
  <2>2. loc'[t] = NoLocal /\ proto_version' = proto_version
    BY <1>1, <1>33 DEF Return, globals, Inv, ShapeInv
  <2>3. loc'[t].op = "connect" /\ loc'[t].msg = "Connect"
    BY <2>2 DEF NoLocal
  <2>4. QED  BY <1>1, <2>1, <2>2, <2>3 DEF Talks, Refused, Ending, Private
<1>34. QED
  BY <1>6, <1>7, <1>8, <1>9, <1>10, <1>11, <1>12, <1>13, <1>14, <1>15, <1>16, <1>17, <1>18,
     <1>19, <1>20, <1>24, <1>25, <1>26, <1>27, <1>28, <1>29, <1>30, <1>31, <1>32, <1>33
  DEF Step

LEMMA TalksCall ==
    ASSUME Kept, NEW t \in Thread, Talks(t), Call(t) PROVE Talks(t)'
<1>1. /\ Inv /\ proto_version' = proto_version /\ pc'[t] = "open"
      /\ loc'[t].format = "plist" /\ loc'[t].msg = FirstMessage(loc'[t].op)
      /\ daemon' = daemon
  BY CallDoes DEF Kept, Call, globals
<1>2. QED  BY <1>1 DEF Talks, Refused, Ending

LEMMA TalksOn ==
    ASSUME NEW t \in Thread, Talks(t), UNCHANGED <<daemon, globals, pc, loc>>,
           pc[t] = "idle" \/ fds' = fds
    PROVE  Talks(t)'
<1>1. /\ daemon' = daemon /\ proto_version' = proto_version /\ use_tag' = use_tag
      /\ pc' = pc /\ loc' = loc
  BY DEF globals
<1>2. Capable(t)' <=> Capable(t)
  BY <1>1 DEF Capable, Able
<1>3. CASE pc[t] = "idle"
  BY <1>1, <1>3 DEF Talks, Refused, Ending
<1>4. CASE fds' = fds
  <2>1. Says(loc[t].msg, proto_version)' = Says(loc[t].msg, proto_version)
    BY <1>1 DEF Says
  <2> DEFINE c == fds[loc[t].fd]
  <2>2. fds'[loc'[t].fd] = c
    BY <1>1, <1>4
  <2> HIDE DEF c
  <2>3. QED  BY <1>1, <1>2, <2>1, <2>2 DEF Talks, Refused, Ending, Satisfied, c
<1>5. QED  BY <1>3, <1>4

Alone == Apart /\ Understood

LEMMA AloneInit == ASSUME Init PROVE Alone
<1>1. proto_version = 1 /\ \A t \in Thread : pc[t] = "idle" /\ loc[t] = NoLocal
  BY DEF Init
<1>2. \A t \in Thread : loc[t].op = "connect" /\ loc[t].msg = "Connect"
  BY <1>1 DEF NoLocal
<1>3. Understood
  BY <1>1, <1>2 DEF Understood, Talks, Refused, Ending, Private
<1>4. QED  BY <1>3, ApartInit DEF Alone

LEMMA AloneNext ==
    ASSUME \A t, u \in Thread : t = u, Alone, [Next]_vars PROVE Alone'
<1>1. Apart /\ Apart' /\ Understood /\ Kept
  BY ApartNext DEF Alone, Apart
<1> SUFFICES ASSUME faults' = 0, NEW t \in Thread PROVE Talks(t)'
  BY <1>1 DEF Alone, Understood
<1>2. faults \in Nat
  BY <1>1, RequestsAssumption DEF Kept, Typed
<1>3. ASSUME NEW u \in Thread, Step(u) PROVE Talks(t)'
  <2>1. t = u
    OBVIOUS
  <2>2. faults = 0
    BY <1>1, <1>2, <1>3, StepFaults DEF Kept
  <2>3. Own(t) /\ Agrees(t) /\ Talks(t)
    BY <1>1, <2>2 DEF Apart, Faultless, Understood
  <2>4. QED  BY <1>1, <1>3, <2>1, <2>2, <2>3, StepTalks
<1>4. ASSUME NEW u \in Thread, Call(u) PROVE Talks(t)'
  <2>1. t = u /\ faults = 0
    BY <1>4 DEF Call
  <2>2. QED  BY <1>1, <1>4, <2>1, TalksCall DEF Understood
<1>5. ASSUME NEW u \in Thread, Disconnect(u) PROVE Talks(t)'
  <2>1. /\ t = u /\ faults = 0 /\ pc[t] = "idle"
        /\ UNCHANGED <<daemon, globals, pc, loc>>
    BY <1>5 DEF Disconnect, At
  <2>2. QED  BY <1>1, <2>1, TalksOn DEF Understood
<1>6. ASSUME NEW n \in Fd, DaemonCloses(n) PROVE Talks(t)'
  BY <1>2, <1>6 DEF DaemonCloses
<1>7. CASE UNCHANGED vars
  BY <1>1, <1>7, TalksOn DEF vars, globals, Understood
<1>8. QED  BY <1>3, <1>4, <1>5, <1>6, <1>7 DEF Next

\* A thread that calls alone gets what the daemon can give, whatever its earlier calls
\* left in proto_version and try_list_devices, as long as nothing fails.
THEOREM NegotiationSucceeds ==
    ASSUME \A t, u \in Thread : t = u PROVE Spec => []Negotiated
<1>1. Init => Alone
  BY AloneInit
<1>2. Alone /\ [Next]_vars => Alone'
  BY AloneNext
<1>3. Alone => Negotiated
  BY DEF Alone, Understood, Talks, Ending, At, Capable, Satisfied, Negotiated
<1>4. QED  BY <1>1, <1>2, <1>3, PTL DEF Spec
=============================================================================
