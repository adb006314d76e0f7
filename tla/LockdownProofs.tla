--------------------------- MODULE LockdownProofs ---------------------------
(***************************************************************************)
(* Theorems of Lockdown, for every set of threads, all devices and every   *)
(* bound.                                                                  *)
(*                                                                         *)
(* That a record which is saved was accepted is not inductive: do_pair     *)
(* takes any answer to "Pair" for its own, and answers may be late.  A     *)
(* thread pairs at most once on a connection (Faithful), so that an        *)
(* answer to "Pair" it finds there is that to its own record.              *)
(*                                                                         *)
(* Two more layers stand on that: what both ends of a connection know of   *)
(* each other while nothing went astray (Agrees), and what a handshake     *)
(* whose SSL failed has before it (FailingAt).                             *)
(***************************************************************************)
EXTENDS Lockdown, SequenceTheorems, TLAPS

\* The places of a handshake up to its pairing.
Early == {"query", "version", "validate", "key", "wifi", "pair"}

Link == [live : BOOLEAN, session : Host, tls : BOOLEAN, inbox : Seq(Answer)]

\* A client by itself, when g records have been generated.
Sound(k, g) ==
    /\ k \in Client
    /\ k.at = "stop" => k.then \in {"goodbye", "start", "stopservice", "ready"}
    /\ k.at \in {"wifi", "pair"} => k.rec \in 1..g
    /\ k.conns = IF k.at \in {"idle", "new"} THEN 0 ELSE 1

\* No record was accepted on the connection, as far as its answers tell.
Clear(inbox) == \A i \in 1..Len(inbox) : inbox[i] # [to |-> "pair", err |-> "none"]

\* If there is such an answer before the end of the pairing, it is to the record of
\* the client.
FaithfulAt(k, inbox, acc) ==
    k.at \in Early => Clear(inbox) \/ (k.at = "pair" /\ k.asked /\ k.rec \in acc)

Faithful(t) == FaithfulAt(c[t], d[t].inbox, accepted)

Inv ==
    /\ TypeOK /\ OnlyAccepted
    /\ \A t \in Thread : Sound(c[t], gen) /\ Faithful(t)

-----------------------------------------------------------------------------
\* The places, one by one.
LEMMA Places ==
    /\ DOMAIN Verb = {"query", "version", "key", "wifi", "pair", "validate", "revalidate",
                      "start", "stop", "goodbye", "service", "ask", "tell", "unpair",
                      "stopservice"}
    /\ Place = DOMAIN Verb \cup {"idle", "new", "ssl", "ready"}
  BY DEF Verb, Place

\* The helpers that lead a client on keep it sound.
LEMMA ReturnSound ==
    ASSUME NEW k \in Client, k.conns = 1, NEW g
    PROVE  Sound(Return(k), g) /\ ~Return(k).asked /\ Return(k).at \notin Early
  BY Places DEF Return, Sound, Client, Early

LEMMA FreeingSound ==
    ASSUME NEW k \in Client, k.conns = 1, NEW g
    PROVE  Sound(Freeing(k), g) /\ ~Freeing(k).asked /\ Freeing(k).at \notin Early
<1> DEFINE p == IF k.sid # "NULL" THEN "stop" ELSE "goodbye"
           j == [k EXCEPT !.at = p, !.then = "goodbye", !.asked = FALSE]
<1>1. p \in {"stop", "goodbye"} /\ {"stop", "goodbye"} \subseteq Place
  BY Places
<1> HIDE DEF p
<1>2. j \in Client /\ j.at = p /\ j.then = "goodbye" /\ j.asked = FALSE /\ j.conns = 1
  BY <1>1 DEF Client
<1> HIDE DEF j
<1>3. Sound(j, g) /\ ~j.asked /\ j.at \notin Early
  BY <1>1, <1>2 DEF Sound, Early
<1>4. Freeing(k) = j
  BY DEF Freeing, j, p
<1>5. QED  BY <1>3, <1>4

LEMMA ConcludeSound ==
    ASSUME NEW k \in Client, k.conns = 1, NEW g
    PROVE  Sound(Conclude(k), g) /\ ~Conclude(k).asked /\ Conclude(k).at \notin Early
  BY ReturnSound, FreeingSound DEF Conclude

LEMMA StartingSound ==
    ASSUME NEW k \in Client, k.conns = 1, NEW s \in Host, NEW g
    PROVE  Sound(Starting(k, s), g) /\ ~Starting(k, s).asked /\ Starting(k, s).at \notin Early
<1> DEFINE h == IF k.host = 0 THEN s ELSE k.host
           j == [k EXCEPT !.at = "start", !.asked = FALSE, !.host = h]
<1>1. h \in Host /\ "start" \in Place
  BY Places DEF Client
<1> HIDE DEF h
<1>2. j \in Client /\ j.at = "start" /\ j.asked = FALSE /\ j.conns = 1
  BY <1>1 DEF Client
<1> HIDE DEF j
<1>3. Sound(j, g) /\ ~j.asked /\ j.at \notin Early
  BY <1>2 DEF Sound, Early
<1>4. Starting(k, s) = j
  BY DEF Starting, Client, j, h
<1>5. QED  BY <1>3, <1>4

LEMMA JudgeSound ==
    ASSUME NEW k \in Client, k.conns = 1, NEW s \in Host, NEW g
    PROVE  /\ Sound(Judge(k, s), g) /\ ~Judge(k, s).asked
           /\ Judge(k, s).at \in Early => k.at # "revalidate"
<1>1. CASE k.ret = "SUCCESS"
  BY <1>1, StartingSound DEF Judge
<1>2. CASE k.ret # "SUCCESS" /\ ~(k.ret = "INVALID_HOST_ID" /\ k.at # "revalidate")
  BY <1>2, FreeingSound DEF Judge
<1>3. CASE k.ret # "SUCCESS" /\ k.ret = "INVALID_HOST_ID" /\ k.at # "revalidate"
  <2> DEFINE j == [k EXCEPT !.at = "key", !.asked = FALSE, !.host = 0]
  <2>1. "key" \in Place /\ 0 \in Host
    BY Places, LockdownAssumption DEF Host
  <2>2. j \in Client /\ j.at = "key" /\ j.asked = FALSE /\ j.conns = 1
    BY <2>1 DEF Client
  <2>3. Judge(k, s) = j
    BY <1>3 DEF Judge
  <2> HIDE DEF j
  <2>4. Sound(j, g) /\ ~j.asked
    BY <2>2 DEF Sound
  <2>5. QED  BY <1>3, <2>3, <2>4
<1>4. QED  BY <1>1, <1>2, <1>3

LEMMA ValidatingSound ==
    ASSUME NEW k \in Client, k.conns = 1, NEW s \in Host, NEW g,
           NEW p \in {"validate", "revalidate"}
    PROVE  /\ Sound(Validating(k, p, s), g) /\ ~Validating(k, p, s).asked
           /\ Validating(k, p, s).at \in Early => p = "validate"
<1>1. CASE s = 0
  <2>1. [k EXCEPT !.ret = "INVALID_CONF"] \in Client /\ [k EXCEPT !.ret = "INVALID_CONF"].conns = 1
    BY DEF Client, Code
  <2>2. QED  BY <1>1, <2>1, FreeingSound DEF Validating
<1>2. CASE s # 0
  <2> DEFINE j == [k EXCEPT !.at = p, !.asked = FALSE, !.rec = s]
  <2>1. j \in Client /\ j.at = p /\ j.asked = FALSE /\ j.conns = 1
    BY Places DEF Client
  <2>2. Validating(k, p, s) = j
    BY <1>2 DEF Validating
  <2> HIDE DEF j
  <2>3. Sound(j, g) /\ ~j.asked /\ (j.at \in Early => p = "validate")
    BY <2>1 DEF Sound, Early
  <2>4. QED  BY <2>2, <2>3
<1>3. QED  BY <1>1, <1>2

LEMMA VersionAsked ==
    ASSUME NEW k \in Client, k.conns = 1, NEW g
    PROVE  Sound([k EXCEPT !.at = "version", !.asked = FALSE], g)
<1> DEFINE j == [k EXCEPT !.at = "version", !.asked = FALSE]
<1>1. j \in Client /\ j.at = "version" /\ j.conns = 1
  BY Places DEF Client
<1> HIDE DEF j
<1>2. Sound(j, g)
  BY <1>1 DEF Sound
<1>3. QED  BY <1>2 DEF j

LEMMA VersionedSound ==
    ASSUME NEW k \in Client, k.conns = 1, k.at \in {"query", "version"}, store \in Host, NEW g
    PROVE  Sound(Versioned(k), g) /\ ~Versioned(k).asked
  BY JudgeSound, ValidatingSound DEF Versioned

-----------------------------------------------------------------------------
\* What the end of a request does: t has another client, the record that may have
\* been saved was accepted.
Ends(t) ==
    /\ \E k \in Client :
           /\ c' = [c EXCEPT ![t] = k]
           /\ Sound(k, gen') /\ ~k.asked
           /\ k.at \in Early => c[t].at \in Early \ {"pair"}
    /\ model' = model /\ fallback' \in BOOLEAN
    /\ store' \in Host /\ (store' # 0 => store' \in accepted)
    /\ gen' \in gen..MaxPairs

\* The answer to a request is one to "Pair" that was granted.
Paired(as) == as # << >> /\ as[1] = [to |-> "pair", err |-> "none"]

LEMMA EndsBy ==
    ASSUME Inv, NEW t \in Thread, NEW k, Sound(k, gen), ~k.asked,
           k.at \in Early => c[t].at \in Early \ {"pair"},
           c' = [c EXCEPT ![t] = k], Quiet
    PROVE  Ends(t)
<1>1. k \in Client
  BY DEF Sound
<1>2. gen \in gen..MaxPairs /\ gen' = gen /\ store' = store /\ model' = model
  BY LockdownAssumption DEF Inv, TypeOK, Quiet
<1>3. store \in Host /\ (store # 0 => store \in accepted) /\ fallback' \in BOOLEAN
  BY DEF Inv, TypeOK, OnlyAccepted, Quiet
<1>4. QED  BY <1>1, <1>2, <1>3 DEF Ends

\* The client of a thread that is in a request.
LEMMA Asking ==
    ASSUME Inv, NEW t \in Thread, c[t].at \in DOMAIN Verb
    PROVE  c[t] \in Client /\ c[t].conns = 1 /\ store \in Host
  BY Places DEF Inv, TypeOK, Sound

LEMMA QueryEnds ==
    ASSUME Inv, NEW t \in Thread, NEW as \in Seq(Answer), AfterQuery(t, as)
    PROVE  Ends(t)
<1> DEFINE code == IF as = << >> \/ as[1].err # "none" THEN "NOT_ENOUGH_DATA"
                   ELSE IF store = 0 THEN "INVALID_CONF" ELSE "SUCCESS"
           k == [c[t] EXCEPT !.host = store, !.ret = code]
           j == IF k.vers = "unknown" THEN [k EXCEPT !.at = "version", !.asked = FALSE]
                ELSE Versioned(k)
<1>1. c[t] \in Client /\ c[t].conns = 1 /\ store \in Host /\ c[t].at = "query"
  BY Asking, Places DEF AfterQuery
<1>2. code \in Code
  BY DEF Code
<1>3. k \in Client /\ k.conns = 1 /\ k.at = "query"
  BY <1>1, <1>2 DEF Client
<1>4. Sound(j, gen) /\ ~j.asked
  <2>1. CASE k.vers = "unknown"
    <3> HIDE DEF k
    <3>1. Sound([k EXCEPT !.at = "version", !.asked = FALSE], gen)
      BY <1>3, VersionAsked
    <3>2. [k EXCEPT !.at = "version", !.asked = FALSE].asked = FALSE
      BY <1>3 DEF Client
    <3>3. QED  BY <2>1, <3>1, <3>2
  <2>2. CASE k.vers # "unknown"
    BY <1>1, <1>3, <2>2, VersionedSound
  <2>3. QED  BY <2>1, <2>2
<1>5. c' = [c EXCEPT ![t] = j] /\ Quiet
  BY DEF AfterQuery
<1>6. QED  BY <1>1, <1>4, <1>5, EndsBy DEF Early

LEMMA VersionEnds ==
    ASSUME Inv, NEW t \in Thread, NEW as \in Seq(Answer), AfterVersion(t, as)
    PROVE  Ends(t)
<1> DEFINE v == IF as # << >> /\ as[1] = [to |-> "version", err |-> "none"]
                THEN model.ios ELSE c[t].vers
           k == [c[t] EXCEPT !.vers = v]
<1>1. c[t] \in Client /\ c[t].conns = 1 /\ store \in Host /\ c[t].at = "version"
  BY Asking, Places DEF AfterVersion
<1>2. model.ios \in {"old", "new"}
  BY LockdownAssumption DEF Inv, TypeOK
<1>3. k \in Client /\ k.conns = 1 /\ k.at = "version"
  BY <1>1, <1>2 DEF Client
<1>4. Sound(Versioned(k), gen) /\ ~Versioned(k).asked
  BY <1>1, <1>3, VersionedSound
<1>5. c' = [c EXCEPT ![t] = Versioned(k)] /\ Quiet
  BY DEF AfterVersion
<1>6. QED  BY <1>1, <1>4, <1>5, EndsBy DEF Early

LEMMA Codes == ASSUME NEW a, NEW p PROVE PairCode(a, p) \in Code
  BY DEF PairCode, Code

LEMMA ValidateEnds ==
    ASSUME Inv, NEW t \in Thread, NEW as \in Seq(Answer), AfterValidate(t, as)
    PROVE  Ends(t)
<1> DEFINE code == IF as = << >> THEN "FAILED" ELSE PairCode(as[1], c[t].at)
           k == [c[t] EXCEPT !.ret = code]
<1>1. c[t] \in Client /\ c[t].conns = 1 /\ store \in Host /\ c[t].at \in {"validate", "revalidate"}
  BY Asking, Places DEF AfterValidate
<1>2. code \in Code
  BY Codes DEF Code
<1>3. k \in Client /\ k.conns = 1 /\ k.at = c[t].at
  BY <1>1, <1>2 DEF Client
<1>4. /\ Sound(Judge(k, store), gen) /\ ~Judge(k, store).asked
      /\ Judge(k, store).at \in Early => k.at # "revalidate"
  BY <1>1, <1>3, JudgeSound
<1>5. c' = [c EXCEPT ![t] = Judge(k, store)] /\ Quiet
  BY DEF AfterValidate
<1>6. QED  BY <1>1, <1>3, <1>4, <1>5, EndsBy DEF Early

LEMMA KeyEnds ==
    ASSUME Inv, NEW t \in Thread, NEW as \in Seq(Answer), AfterKey(t, as)
    PROVE  Ends(t)
<1>1. c[t] \in Client /\ c[t].conns = 1 /\ c[t].at = "key"
  BY Asking, Places DEF AfterKey
<1>2. gen \in 1..MaxPairs /\ MaxPairs \in Nat
  BY LockdownAssumption DEF Inv, TypeOK
<1>3. CASE as # << >> /\ as[1] = [to |-> "key", err |-> "none"] /\ gen < MaxPairs
  <2> DEFINE k == [c[t] EXCEPT !.at = "wifi", !.asked = FALSE, !.rec = gen + 1]
  <2>1. gen + 1 \in Host /\ gen + 1 \in 1..(gen + 1) /\ gen + 1 \in gen..MaxPairs
    BY <1>2, <1>3 DEF Host
  <2>2. k \in Client /\ k.at = "wifi" /\ k.rec = gen + 1 /\ k.asked = FALSE /\ k.conns = 1
    BY <1>1, <2>1, Places DEF Client
  <2>3. /\ c' = [c EXCEPT ![t] = k] /\ gen' = gen + 1
        /\ model' = model /\ store' = store /\ fallback' = fallback
    BY <1>3 DEF AfterKey
  <2> HIDE DEF k
  <2>4. Sound(k, gen + 1)
    BY <2>1, <2>2 DEF Sound
  <2>5. store \in Host /\ (store # 0 => store \in accepted) /\ fallback \in BOOLEAN
    BY DEF Inv, TypeOK, OnlyAccepted
  <2>6. QED  BY <1>1, <2>1, <2>2, <2>3, <2>4, <2>5 DEF Ends, Early
<1>4. CASE ~(as # << >> /\ as[1] = [to |-> "key", err |-> "none"] /\ gen < MaxPairs)
  <2> DEFINE k == [c[t] EXCEPT !.ret = "FAILED"]
  <2>1. k \in Client /\ k.conns = 1
    BY <1>1 DEF Client, Code
  <2>2. Sound(Freeing(k), gen) /\ ~Freeing(k).asked /\ Freeing(k).at \notin Early
    BY <2>1, FreeingSound
  <2>3. c' = [c EXCEPT ![t] = Freeing(k)] /\ Quiet
    BY <1>4 DEF AfterKey, Quiet
  <2>4. QED  BY <2>2, <2>3, EndsBy
<1>5. QED  BY <1>3, <1>4

LEMMA WifiEnds ==
    ASSUME Inv, NEW t \in Thread, NEW as \in Seq(Answer), AfterWifi(t, as)
    PROVE  Ends(t)
<1> DEFINE k == [c[t] EXCEPT !.at = "pair", !.asked = FALSE]
<1>1. c[t] \in Client /\ c[t].conns = 1 /\ c[t].at = "wifi"
  BY Asking, Places DEF AfterWifi
<1>2. c[t].rec \in 1..gen
  BY <1>1 DEF Inv, Sound
<1>3. /\ k \in Client /\ k.at = "pair" /\ k.rec = c[t].rec /\ k.asked = FALSE
      /\ k.conns = 1
  BY <1>1, Places DEF Client
<1>4. c' = [c EXCEPT ![t] = k] /\ Quiet
  BY DEF AfterWifi
<1> HIDE DEF k
<1>5. Sound(k, gen)
  BY <1>2, <1>3 DEF Sound
<1>6. QED  BY <1>1, <1>3, <1>4, <1>5, EndsBy DEF Early

LEMMA FirstAnswer ==
    ASSUME NEW as \in Seq(Answer), as # << >>
    PROVE  as[1] \in Answer
<1> DEFINE n == Len(as)
<1>1. n \in Nat \ {0}
  BY EmptySeq
<1> HIDE DEF n
<1>2. 1 \in 1..n
  BY <1>1
<1> USE DEF n
<1>3. QED  BY <1>2, ElementOfSeq

\* The answer to a request other than Pair does not name it.
LEMMA OnlyPair == \A p \in DOMAIN Verb : Verb[p] = Verb["pair"] => p = "pair"
  BY Places DEF Verb

LEMMA PairEnds ==
    ASSUME Inv, NEW t \in Thread, NEW as \in Seq(Answer), AfterPair(t, as),
           Paired(as) => c[t].rec \in accepted
    PROVE  Ends(t)
<1> DEFINE code == IF as = << >> THEN "FAILED" ELSE PairCode(as[1], "pair")
           k == [c[t] EXCEPT !.ret = code]
<1>1. c[t] \in Client /\ c[t].conns = 1 /\ store \in Host /\ c[t].at = "pair"
  BY Asking, Places DEF AfterPair
<1>2. code \in Code
  BY Codes DEF Code
<1>3. k \in Client /\ k.conns = 1 /\ k.rec = c[t].rec /\ c[t].rec \in Host
  BY <1>1, <1>2 DEF Client
<1>4. CASE code = "SUCCESS"
  <2>1. as # << >> /\ as[1] \in Answer
    <3>1. as # << >>
      BY <1>4
    <3>2. QED  BY <3>1, FirstAnswer
  <2>2. Paired(as)
    <3>1. Success(as[1], "pair")
      BY <1>4, <2>1 DEF PairCode
    <3>2. as[1].to = "pair" /\ as[1].err = "none"
      BY <2>1, <3>1, OnlyPair DEF Success, Answer
    <3>3. QED  BY <2>1, <3>2 DEF Paired, Answer
  <2>3. store' \in {store, c[t].rec} /\ c' = [c EXCEPT ![t] = Validating(k, "revalidate", store')]
    BY <1>4 DEF AfterPair
  <2>4. store' \in Host /\ (store' # 0 => store' \in accepted)
    BY <1>1, <1>3, <2>2, <2>3 DEF Inv, OnlyAccepted
  <2>5. /\ Sound(Validating(k, "revalidate", store'), gen)
        /\ ~Validating(k, "revalidate", store').asked
        /\ Validating(k, "revalidate", store').at \notin Early
    BY <1>3, <2>4, ValidatingSound
  <2>6. gen' = gen /\ model' = model /\ fallback' = fallback
    BY <1>4 DEF AfterPair
  <2>7. gen \in gen..MaxPairs /\ fallback \in BOOLEAN
    BY LockdownAssumption DEF Inv, TypeOK
  <2>8. Validating(k, "revalidate", store') \in Client
    BY <2>5 DEF Sound
  <2>9. QED  BY <2>3, <2>4, <2>5, <2>6, <2>7, <2>8 DEF Ends
<1>5. CASE code # "SUCCESS"
  <2>1. Sound(Freeing(k), gen) /\ ~Freeing(k).asked /\ Freeing(k).at \notin Early
    BY <1>3, FreeingSound
  <2>2. c' = [c EXCEPT ![t] = Freeing(k)] /\ Quiet
    BY <1>5 DEF AfterPair, Quiet
  <2>3. QED  BY <2>1, <2>2, EndsBy
<1>6. QED  BY <1>4, <1>5

\* Calls that end a request with nothing but a code.
LEMMA ReturnEnds ==
    ASSUME Inv, NEW t \in Thread, c[t].at \in DOMAIN Verb, NEW code \in Code,
           c' = [c EXCEPT ![t] = Return([c[t] EXCEPT !.ret = code])],
           model' = model, gen' = gen, fallback' = fallback, store' \in {store, 0}
    PROVE  Ends(t)
<1> DEFINE k == [c[t] EXCEPT !.ret = code]
<1>1. k \in Client /\ k.conns = 1
  BY Asking DEF Client
<1>2. Sound(Return(k), gen) /\ ~Return(k).asked /\ Return(k).at \notin Early
  BY <1>1, ReturnSound
<1>3. gen \in gen..MaxPairs /\ store' \in Host /\ (store' # 0 => store' \in accepted)
  BY LockdownAssumption DEF Inv, TypeOK, OnlyAccepted, Host
<1>4. fallback \in BOOLEAN /\ Return(k) \in Client
  BY <1>2 DEF Inv, TypeOK, Sound
<1>5. QED  BY <1>2, <1>3, <1>4 DEF Ends

LEMMA RequestEnds ==
    ASSUME Inv, NEW t \in Thread, NEW as \in Seq(Answer), AfterRequest(t, as)
    PROVE  Ends(t)
<1> DEFINE code == IF as # << >> /\ Success(as[1], c[t].at) THEN "SUCCESS" ELSE "FAILED"
<1>1. code \in Code
  BY DEF Code
<1>2. /\ c[t].at \in {"service", "ask"} /\ Quiet
      /\ c' = [c EXCEPT ![t] = Return([c[t] EXCEPT !.ret = code])]
  BY DEF AfterRequest
<1> HIDE DEF code
<1>3. QED  BY <1>1, <1>2, Places, ReturnEnds DEF Quiet

LEMMA TellEnds ==
    ASSUME Inv, NEW t \in Thread, NEW as \in Seq(Answer), AfterTell(t, as)
    PROVE  Ends(t)
<1> DEFINE code == IF as # << >> THEN "SUCCESS" ELSE "FAILED"
<1>1. code \in Code
  BY DEF Code
<1>2. /\ c[t].at = "tell" /\ Quiet
      /\ c' = [c EXCEPT ![t] = Return([c[t] EXCEPT !.ret = code])]
  BY DEF AfterTell
<1> HIDE DEF code
<1>3. QED  BY <1>1, <1>2, Places, ReturnEnds DEF Quiet

LEMMA UnpairEnds ==
    ASSUME Inv, NEW t \in Thread, NEW as \in Seq(Answer), AfterUnpair(t, as)
    PROVE  Ends(t)
<1> DEFINE code == IF as = << >> THEN "FAILED"
                   ELSE IF as[1].err = "none" THEN "SUCCESS" ELSE PairCode(as[1], "unpair")
<1>1. code \in Code
  BY Codes DEF Code
<1>2. /\ c[t].at = "unpair" /\ store' \in {store, 0}
      /\ c' = [c EXCEPT ![t] = Return([c[t] EXCEPT !.ret = code])]
      /\ model' = model /\ gen' = gen /\ fallback' = fallback
  BY DEF AfterUnpair
<1> HIDE DEF code
<1>3. QED  BY <1>1, <1>2, Places, ReturnEnds

LEMMA StopServiceEnds ==
    ASSUME Inv, NEW t \in Thread, NEW as \in Seq(Answer), AfterStopService(t, as)
    PROVE  Ends(t)
  BY Places, ReturnEnds DEF AfterStopService, Quiet, Code

\* Where StartSession leads: to SSL, or to the end of the handshake or the call.
LEMMA StartEnds ==
    ASSUME Inv, NEW t \in Thread, NEW as \in Seq(Answer), AfterStart(t, as)
    PROVE  Ends(t)
<1>1. c[t] \in Client /\ c[t].conns = 1
  BY Asking, Places DEF AfterStart
<1> DEFINE code == IF as[1].err = "InvalidHostID" THEN "INVALID_HOST_ID" ELSE "SUCCESS"
           sid == IF as[1].to = "start" THEN "set" ELSE c[t].sid
<1>2. CASE as = << >>
  <2> DEFINE k == [c[t] EXCEPT !.ret = "FAILED"]
  <2>1. k \in Client /\ k.conns = 1
    BY <1>1 DEF Client, Code
  <2>2. c' = [c EXCEPT ![t] = Conclude(k)] /\ Quiet
    BY <1>2 DEF AfterStart
  <2> HIDE DEF k
  <2>3. QED  BY <2>1, <2>2, ConcludeSound, EndsBy
<1>3. CASE as # << >> /\ Failure(as[1], "start")
  <2> DEFINE k == [c[t] EXCEPT !.ret = code]
  <2>1. k \in Client /\ k.conns = 1
    BY <1>1 DEF Client, Code
  <2>2. c' = [c EXCEPT ![t] = Conclude(k)] /\ Quiet
    BY <1>3 DEF AfterStart
  <2> HIDE DEF k
  <2>3. QED  BY <2>1, <2>2, ConcludeSound, EndsBy
<1>4. CASE as # << >> /\ ~Failure(as[1], "start") /\ as[1].to = "start" /\ model.ssl
  <2> DEFINE k == [c[t] EXCEPT !.at = "ssl", !.asked = FALSE, !.sid = "set"]
  <2>1. k \in Client /\ k.at = "ssl" /\ k.asked = FALSE /\ k.conns = 1
    BY <1>1, Places DEF Client
  <2>2. c' = [c EXCEPT ![t] = k] /\ Quiet
    BY <1>4 DEF AfterStart
  <2> HIDE DEF k
  <2>3. Sound(k, gen) /\ ~k.asked /\ k.at \notin Early
    BY <2>1 DEF Sound, Early
  <2>4. QED  BY <2>2, <2>3, EndsBy
<1>5. CASE as # << >> /\ ~Failure(as[1], "start") /\ ~(as[1].to = "start" /\ model.ssl)
  <2> DEFINE k == [c[t] EXCEPT !.ret = "SUCCESS", !.flag = FALSE, !.sid = sid]
  <2>1. sid \in {"NULL", "set", "freed"}
    BY <1>1 DEF Client
  <2> HIDE DEF sid
  <2>2. k \in Client /\ k.conns = 1
    BY <1>1, <2>1 DEF Client, Code
  <2>3. c' = [c EXCEPT ![t] = Conclude(k)] /\ Quiet
    BY <1>1, <1>5 DEF AfterStart, Client, sid
  <2> HIDE DEF k
  <2>4. QED  BY <2>2, <2>3, ConcludeSound, EndsBy
<1>6. QED  BY <1>2, <1>3, <1>4, <1>5

LEMMA StopEnds ==
    ASSUME Inv, NEW t \in Thread, NEW as \in Seq(Answer), AfterStop(t, as)
    PROVE  Ends(t)
<1> DEFINE k == c[t]
           code == IF as # << >> /\ Success(as[1], "stop") THEN "SUCCESS" ELSE "FAILED"
           j == IF as = << >> THEN k
                ELSE [k EXCEPT !.sid = "NULL", !.flag = FALSE, !.tls = @ /\ ~k.flag]
           l == [j EXCEPT !.sid = Left(@, k.then), !.at = k.then, !.asked = FALSE]
           r == [l EXCEPT !.ret = code]
<1>1. /\ k \in Client /\ k.conns = 1
      /\ k.then \in {"goodbye", "start", "stopservice", "ready"}
  BY Asking, Places DEF AfterStop, Inv, Sound
<1>2. code \in Code
  BY DEF Code
<1>3. c' = [c EXCEPT ![t] = IF k.then = "ready" THEN Return(r) ELSE l] /\ Quiet
  BY DEF AfterStop
<1> HIDE DEF k, code
<1>4. j \in Client /\ j.conns = 1
  <2> DEFINE b == k.tls /\ ~k.flag
             i == [k EXCEPT !.sid = "NULL", !.flag = FALSE, !.tls = b]
  <2>1. b \in BOOLEAN
    OBVIOUS
  <2>2. j = IF as = << >> THEN k ELSE i
    BY <1>1 DEF Client
  <2> HIDE DEF b, j
  <2>3. i \in Client /\ i.conns = 1
    BY <1>1, <2>1 DEF Client
  <2>4. QED  BY <1>1, <2>2, <2>3
<1> HIDE DEF j
<1>5. Left(j.sid, k.then) \in {"NULL", "set", "freed"}
  BY <1>4 DEF Left, Client
<1>6. l \in Client /\ l.conns = 1 /\ l.at = k.then /\ l.asked = FALSE
  <2>1. l = [j EXCEPT !.sid = Left(j.sid, k.then), !.at = k.then, !.asked = FALSE]
    BY <1>4 DEF Client
  <2>2. QED  BY <1>1, <1>4, <1>5, <2>1, Places DEF Client
<1> HIDE DEF l
<1>7. CASE k.then = "ready"
  <2>1. r \in Client /\ r.conns = 1
    BY <1>2, <1>6 DEF Client
  <2> HIDE DEF r
  <2>2. QED  BY <1>3, <1>7, <2>1, ReturnSound, EndsBy
<1>8. CASE k.then # "ready"
  <2>1. Sound(l, gen) /\ ~l.asked /\ l.at \notin Early
    BY <1>1, <1>6, <1>8 DEF Sound, Early
  <2>2. QED  BY <1>3, <1>8, <2>1, EndsBy
<1>9. QED  BY <1>7, <1>8

\* The connection that goodbye closes is the only one.
LEMMA GoodbyeEnds ==
    ASSUME Inv, NEW t \in Thread, NEW as \in Seq(Answer), AfterGoodbye(t, as)
    PROVE  Ends(t)
<1> DEFINE again == c[t].call = "handshake" /\ c[t].failed /\ ~fallback
           p == IF again THEN "new" ELSE "idle"
           o == IF again THEN c[t].call ELSE "none"
           k == [c[t] EXCEPT !.at = p, !.asked = FALSE, !.call = o, !.sid = "NULL",
                             !.flag = FALSE, !.tls = FALSE, !.conns = 0]
<1>1. c[t] \in Client /\ c[t].conns = 1 /\ c[t].at = "goodbye"
  BY Asking, Places DEF AfterGoodbye
<1>2. /\ c' = [c EXCEPT ![t] = k]
      /\ fallback' = (fallback \/ again) /\ model' = model /\ store' = store /\ gen' = gen
  <2>1. c[t].conns - 1 = 0 /\ c \in [Thread -> Client]
    BY <1>1 DEF Inv, TypeOK
  <2>2. c' = [c EXCEPT ![t] = k]
    BY <1>1, <2>1 DEF AfterGoodbye
  <2>3. QED  BY <2>2 DEF AfterGoodbye
<1>3. p \in {"new", "idle"} /\ o \in Calls \cup {"none"}
  BY <1>1 DEF Client
<1>4. fallback' \in BOOLEAN
  BY <1>2
<1> HIDE DEF p, o, again
<1>5. k \in Client /\ k.at = p /\ k.asked = FALSE /\ k.conns = 0
  BY <1>1, <1>3, Places DEF Client
<1> HIDE DEF k
<1>6. Sound(k, gen) /\ ~k.asked /\ k.at \notin Early
  BY <1>3, <1>5 DEF Sound, Early
<1>7. gen \in gen..MaxPairs /\ store \in Host /\ (store # 0 => store \in accepted)
  BY LockdownAssumption DEF Inv, TypeOK, OnlyAccepted
<1>8. QED  BY <1>2, <1>4, <1>5, <1>6, <1>7 DEF Ends

LEMMA AfterEnds ==
    ASSUME Inv, NEW t \in Thread, NEW as \in Seq(Answer), After(t, as),
           c[t].at = "pair" /\ Paired(as) => c[t].rec \in accepted
    PROVE  Ends(t)
<1>1. CASE AfterPair(t, as)
  BY <1>1, PairEnds DEF AfterPair
<1>2. CASE ~AfterPair(t, as)
  BY <1>2, QueryEnds, VersionEnds, ValidateEnds, KeyEnds, WifiEnds, StartEnds, StopEnds,
     RequestEnds, TellEnds, UnpairEnds, StopServiceEnds, GoodbyeEnds DEF After
<1>3. QED  BY <1>1, <1>2

-----------------------------------------------------------------------------
\* The rest of the state in a step: nothing that was accepted or generated is
\* forgotten.
Beside ==
    /\ model' = model /\ astray' \in [Thread -> BOOLEAN]
    /\ store' \in Host /\ (store' # 0 => store' \in accepted')
    /\ gen' \in gen..MaxPairs
    /\ trusted' \subseteq accepted' /\ accepted \subseteq accepted'
    /\ accepted' \subseteq 1..gen'
    /\ fallback' \in BOOLEAN
    /\ late' \in 0..MaxLate /\ drops' \in 0..MaxDrops /\ meddled' \in 0..MaxMeddle

LEMMA SoundLater ==
    ASSUME NEW k, NEW g \in Nat, NEW h \in Nat, g <= h, Sound(k, g)
    PROVE  Sound(k, h)
  BY DEF Sound

\* A step that changes the client and the connection of one thread.
LEMMA StepInv ==
    ASSUME Inv, NEW t \in Thread, NEW k, NEW l \in Link,
           c' = [c EXCEPT ![t] = k], d' = [d EXCEPT ![t] = l],
           Sound(k, gen'), FaithfulAt(k, l.inbox, accepted'), Beside
    PROVE  Inv'
<1>1. gen \in Nat /\ gen' \in 1..MaxPairs /\ gen <= gen' /\ gen' \in Nat
  BY LockdownAssumption DEF Inv, TypeOK, Beside
<1>2. k \in Client /\ c \in [Thread -> Client] /\ d \in [Thread -> Link]
  BY DEF Sound, Inv, TypeOK, Link
<1>3. c' \in [Thread -> Client] /\ d' \in [Thread -> Link]
  BY <1>2
<1>4. TypeOK'
  BY <1>1, <1>3 DEF TypeOK, Link, Beside, Inv
<1>5. c'[t] = k /\ d'[t] = l
  BY <1>2
<1>6. ASSUME NEW u \in Thread, u # t
      PROVE  Sound(c'[u], gen') /\ FaithfulAt(c'[u], d'[u].inbox, accepted')
  <2>1. c'[u] = c[u] /\ d'[u] = d[u]
    BY <1>2, <1>6
  <2>2. Sound(c[u], gen) /\ FaithfulAt(c[u], d[u].inbox, accepted)
    BY DEF Inv, Faithful
  <2>3. Sound(c[u], gen')
    BY <1>1, <2>2, SoundLater
  <2>4. FaithfulAt(c[u], d[u].inbox, accepted')
    BY <2>2 DEF FaithfulAt, Beside
  <2>5. QED  BY <2>1, <2>3, <2>4
<1>7. \A u \in Thread : Sound(c'[u], gen') /\ FaithfulAt(c'[u], d'[u].inbox, accepted')
  BY <1>5, <1>6
<1>8. QED  BY <1>4, <1>7 DEF Inv, OnlyAccepted, Faithful, Beside

\* The world as it is.
LEMMA BesideSame ==
    ASSUME Inv, UNCHANGED <<world, fallback, budgets>>, astray' \in [Thread -> BOOLEAN]
    PROVE  Beside
  BY LockdownAssumption DEF Inv, TypeOK, OnlyAccepted, Beside, world, budgets

\* The end of a request, with a connection on which nothing new has arrived.
LEMMA EndInv ==
    ASSUME Inv, NEW t \in Thread, NEW l \in Link, Ends(t), d' = [d EXCEPT ![t] = l],
           Clear(d[t].inbox) => Clear(l.inbox),
           trusted' = trusted, accepted' = accepted, astray' \in [Thread -> BOOLEAN],
           late' \in 0..MaxLate, drops' = drops, meddled' = meddled
    PROVE  Inv'
<1>1. PICK k \in Client : /\ c' = [c EXCEPT ![t] = k]
                          /\ Sound(k, gen') /\ ~k.asked
                          /\ k.at \in Early => c[t].at \in Early \ {"pair"}
  BY DEF Ends
<1>2. FaithfulAt(k, l.inbox, accepted')
  BY <1>1 DEF Inv, Faithful, FaithfulAt
<1>3. gen \in Nat /\ gen' \in gen..MaxPairs /\ accepted \subseteq 1..gen
  BY DEF Inv, TypeOK, Ends
<1>4. accepted \subseteq 1..gen'
  BY <1>3, LockdownAssumption
<1>5. Beside
  BY <1>3, <1>4 DEF Inv, TypeOK, Ends, Beside
<1>6. QED  BY <1>1, <1>2, <1>5, StepInv

LEMMA RestLink ==
    ASSUME Inv, NEW t \in Thread, NEW inbox \in Seq(Answer), Rest(t, inbox),
           Clear(d[t].inbox) => Clear(inbox)
    PROVE  \E l \in Link : d' = [d EXCEPT ![t] = l] /\ (Clear(d[t].inbox) => Clear(l.inbox))
<1>1. d[t] \in Link
  BY DEF Inv, TypeOK, Link
<1>2. CASE c[t].at = "goodbye"
  <2>1. NoLink \in Link
    BY LockdownAssumption DEF NoLink, Link, Host
  <2>2. Clear(NoLink.inbox)
    BY DEF NoLink, Clear
  <2>3. QED  BY <1>2, <2>1, <2>2 DEF Rest
<1>3. CASE c[t].at # "goodbye"
  <2> DEFINE l == [d[t] EXCEPT !.inbox = inbox]
  <2>1. l \in Link /\ l.inbox = inbox
    BY <1>1 DEF Link
  <2>2. d' = [d EXCEPT ![t] = l]
    BY <1>3 DEF Rest
  <2>3. QED  BY <2>1, <2>2
<1>4. QED  BY <1>2, <1>3

LEMMA TailClear ==
    ASSUME NEW s \in Seq(Answer), s # << >>
    PROVE  /\ Tail(s) \in Seq(Answer) /\ <<Head(s)>> \in Seq(Answer)
           /\ Clear(s) => Clear(Tail(s))
           /\ Paired(<<Head(s)>>) => ~Clear(s)
<1> DEFINE n == Len(s)
           m == Len(Tail(s))
           r == Tail(s)
<1>1. n \in Nat \ {0}
  BY EmptySeq
<1>2. Head(s) \in Answer /\ r \in Seq(Answer) /\ m = n - 1 /\ \A i \in 1..m : r[i] = s[i + 1]
  BY HeadTailProperties
<1>3. <<Head(s)>> \in Seq(Answer)
  BY <1>2
<1>4. ASSUME Paired(<<Head(s)>>) PROVE ~Clear(s)
  <2>1. Head(s) = s[1] /\ Head(s) = [to |-> "pair", err |-> "none"]
    BY <1>4 DEF Paired
  <2>2. Clear(s) <=> \A i \in 1..n : s[i] # [to |-> "pair", err |-> "none"]
    BY DEF Clear
  <2> HIDE DEF n
  <2>3. 1 \in 1..n
    BY <1>1
  <2>4. QED  BY <2>1, <2>2, <2>3
<1>5. ASSUME Clear(s) PROVE Clear(r)
  <2>1. \A i \in 1..n : s[i] # [to |-> "pair", err |-> "none"]
    BY <1>5 DEF Clear
  <2>2. Clear(r) <=> \A i \in 1..m : r[i] # [to |-> "pair", err |-> "none"]
    BY DEF Clear
  <2> HIDE DEF n, m, r
  <2>3. \A i \in 1..m : i + 1 \in 1..n
    BY <1>1, <1>2
  <2>4. QED  BY <1>2, <2>1, <2>2, <2>3
<1>6. QED  BY <1>2, <1>3, <1>4, <1>5

LEMMA ReceiveInv == ASSUME Inv, NEW t \in Thread, Receive(t) PROVE Inv'
<1> DEFINE s == d[t].inbox
<1>1. s \in Seq(Answer) /\ s # << >>
  BY DEF Receive, Inv, TypeOK
<1>2. c[t].at = "pair" /\ Paired(<<Head(s)>>) => c[t].rec \in accepted
  <2>1. Paired(<<Head(s)>>) => ~Clear(s)
    BY <1>1, TailClear
  <2>2. QED  BY <2>1 DEF Inv, Faithful, FaithfulAt, Early
<1>3. Tail(s) \in Seq(Answer) /\ <<Head(s)>> \in Seq(Answer) /\ (Clear(s) => Clear(Tail(s)))
  BY <1>1, TailClear
<1>4. Ends(t)
  BY <1>2, <1>3, AfterEnds DEF Receive
<1>5. PICK l \in Link : d' = [d EXCEPT ![t] = l] /\ (Clear(s) => Clear(l.inbox))
  BY <1>3, RestLink DEF Receive
<1>6. QED  BY <1>4, <1>5, EndInv DEF Receive, Inv, TypeOK, budgets

\* A request that ends without an answer.
LEMMA SilentInv ==
    ASSUME Inv, NEW t \in Thread, After(t, << >>), Rest(t, d[t].inbox),
           astray' = [astray EXCEPT ![t] = TRUE],
           trusted' = trusted, accepted' = accepted, late' \in 0..MaxLate,
           drops' = drops, meddled' = meddled
    PROVE  Inv'
<1>1. << >> \in Seq(Answer) /\ d[t].inbox \in Seq(Answer) /\ ~Paired(<< >>)
  BY DEF Inv, TypeOK, Paired
<1>2. Ends(t)
  BY <1>1, AfterEnds
<1>3. PICK l \in Link : d' = [d EXCEPT ![t] = l] /\ (Clear(d[t].inbox) => Clear(l.inbox))
  BY <1>1, RestLink
<1>4. astray' \in [Thread -> BOOLEAN]
  BY DEF Inv, TypeOK
<1>5. QED  BY <1>2, <1>3, <1>4, EndInv

LEMMA ReceiveTimesOutInv == ASSUME Inv, NEW t \in Thread, ReceiveTimesOut(t) PROVE Inv'
<1>1. late' \in 0..MaxLate
  BY LockdownAssumption DEF ReceiveTimesOut, Inv, TypeOK
<1>2. QED  BY <1>1, SilentInv DEF ReceiveTimesOut

LEMMA RequestFailsInv == ASSUME Inv, NEW t \in Thread, RequestFails(t) PROVE Inv'
  BY SilentInv DEF RequestFails, Inv, TypeOK, budgets

-----------------------------------------------------------------------------
LEMMA AppendClear ==
    ASSUME NEW s \in Seq(Answer), NEW a \in Answer
    PROVE  /\ Append(s, a) \in Seq(Answer)
           /\ a # [to |-> "pair", err |-> "none"] /\ Clear(s) => Clear(Append(s, a))
<1> DEFINE n == Len(s)
           m == Len(Append(s, a))
           r == Append(s, a)
<1>1. n \in Nat
  BY LenProperties
<1>2. r \in Seq(Answer) /\ m = n + 1 /\ r[n + 1] = a /\ \A i \in 1..n : r[i] = s[i]
  BY AppendProperties
<1>3. ASSUME a # [to |-> "pair", err |-> "none"], Clear(s) PROVE Clear(r)
  <2>1. \A i \in 1..n : s[i] # [to |-> "pair", err |-> "none"]
    BY <1>3 DEF Clear
  <2>2. Clear(r) <=> \A i \in 1..m : r[i] # [to |-> "pair", err |-> "none"]
    BY DEF Clear
  <2> HIDE DEF n, m, r
  <2>3. \A i \in 1..m : i \in 1..n \/ i = n + 1
    BY <1>1, <1>2
  <2>4. QED  BY <1>2, <1>3, <2>1, <2>2, <2>3
<1>4. QED  BY <1>2, <1>3

LEMMA VerdictErrors == ASSUME Inv, NEW t \in Thread PROVE Verdicts(t) \subseteq Error
<1>1. model.errors \subseteq {"other"}
  BY LockdownAssumption DEF Inv, TypeOK
<1>2. Known(t) \subseteq Error
  BY <1>1 DEF Known, Error
<1>3. QED  BY <1>1, <1>2 DEF Verdicts, Error

LEMMA GrantedLink ==
    ASSUME Inv, NEW l \in Link, NEW p, NEW h \in Host
    PROVE  Granted(l, p, h) \in Link /\ Granted(l, p, h).inbox = l.inbox
<1>1. model.ssl \in BOOLEAN /\ 0 \in Host
  BY LockdownAssumption DEF Inv, TypeOK, Host
<1>2. CASE p = "start"
  BY <1>1, <1>2 DEF Granted, Link
<1>3. CASE p = "stop"
  BY <1>1, <1>3 DEF Granted, Link
<1>4. CASE p = "goodbye"
  BY <1>4 DEF Granted, Link
<1>5. CASE p \notin {"start", "stop", "goodbye"}
  BY <1>5 DEF Granted
<1>6. QED  BY <1>2, <1>3, <1>4, <1>5

LEMMA SendInv == ASSUME Inv, NEW t \in Thread, Send(t) PROVE Inv'
<1> DEFINE k == [c[t] EXCEPT !.asked = TRUE]
<1>1. /\ c[t] \in Client /\ d[t] \in Link /\ Sound(c[t], gen)
      /\ c[t].at \in DOMAIN Verb /\ ~c[t].asked
      /\ FaithfulAt(c[t], d[t].inbox, accepted)
  BY DEF Inv, TypeOK, Send, Faithful, Link
<1>2. /\ k \in Client /\ k.at = c[t].at /\ k.then = c[t].then /\ k.rec = c[t].rec
      /\ k.conns = c[t].conns /\ k.asked = TRUE
  BY <1>1 DEF Client
<1>3. c' = [c EXCEPT ![t] = k] /\ gen' = gen
  BY DEF Send
<1> HIDE DEF k
<1>4. Sound(k, gen')
  BY <1>1, <1>2, <1>3 DEF Sound
<1>5. k.at \in Early => Clear(d[t].inbox)
  BY <1>1, <1>2 DEF FaithfulAt
<1>6. CASE ~(d[t].live /\ c[t].tls = d[t].tls)
  <2> DEFINE l == [d[t] EXCEPT !.live = FALSE]
  <2>1. l \in Link /\ l.inbox = d[t].inbox /\ d' = [d EXCEPT ![t] = l]
    BY <1>1, <1>6 DEF Link, Send
  <2>2. UNCHANGED <<world, fallback, budgets, astray>>
    BY <1>6 DEF Send, world
  <2>3. Beside
    BY <2>2, BesideSame DEF Inv, TypeOK
  <2> HIDE DEF l
  <2>4. FaithfulAt(k, l.inbox, accepted')
    BY <1>5, <2>1 DEF FaithfulAt
  <2>5. QED  BY <1>3, <1>4, <2>1, <2>3, <2>4, StepInv
<1>7. CASE d[t].live /\ c[t].tls = d[t].tls
  <2>1. PICK e \in Verdicts(t) :
            LET a == [to |-> c[t].at, err |-> e]
                l == [d[t] EXCEPT !.inbox = Append(@, a)]
            IN  IF e = "none"
                THEN /\ d' = [d EXCEPT ![t] = Granted(l, c[t].at, Shown(t))]
                     /\ trusted' = CASE c[t].at = "pair" -> trusted \cup {c[t].rec}
                                     [] c[t].at = "unpair" -> trusted \ {c[t].rec}
                                     [] OTHER -> trusted
                     /\ accepted' = accepted \cup trusted'
                ELSE d' = [d EXCEPT ![t] = l] /\ UNCHANGED <<trusted, accepted>>
    BY <1>7 DEF Send
  <2> DEFINE a == [to |-> c[t].at, err |-> e]
             l == [d[t] EXCEPT !.inbox = Append(@, a)]
             g == Granted(l, c[t].at, Shown(t))
  <2>2. a \in Answer /\ a.to = c[t].at /\ a.err = e
    BY <1>1, VerdictErrors DEF Answer
  <2> HIDE DEF a
  <2>3. l \in Link /\ l.inbox = Append(d[t].inbox, a)
    BY <1>1, <2>2, AppendClear DEF Link
  <2>4. UNCHANGED <<model, astray, store, gen, fallback, budgets>>
    BY DEF Send
  <2>5. k.at \in Early \ {"pair"} => Clear(l.inbox)
    <3>1. k.at # "pair" => a # [to |-> "pair", err |-> "none"]
      BY <1>2, <2>2
    <3> HIDE DEF l
    <3>2. QED  BY <1>1, <1>5, <2>2, <2>3, <3>1, AppendClear DEF Link
  <2>6. CASE e = "none"
    <3>1. Shown(t) \in Host
      BY <1>1 DEF Shown, Client
    <3> HIDE DEF l
    <3>2. g \in Link /\ g.inbox = l.inbox
      BY <2>3, <3>1, GrantedLink
    <3>3. /\ d' = [d EXCEPT ![t] = g] /\ accepted' = accepted \cup trusted'
          /\ trusted' = CASE c[t].at = "pair" -> trusted \cup {c[t].rec}
                          [] c[t].at = "unpair" -> trusted \ {c[t].rec}
                          [] OTHER -> trusted
      BY <2>1, <2>6 DEF l, a
    <3>4. c[t].at = "pair" => trusted' = trusted \cup {c[t].rec} /\ c[t].rec \in 1..gen
      BY <1>1, <3>3 DEF Sound
    <3>5. c[t].at # "pair" => trusted' \subseteq trusted
      BY <3>3
    <3>6. trusted \subseteq accepted /\ accepted \subseteq 1..gen
      BY DEF Inv, TypeOK
    <3>7. trusted' \subseteq accepted' /\ accepted \subseteq accepted' /\ accepted' \subseteq 1..gen
      BY <3>3, <3>4, <3>5, <3>6
    <3>8. Beside
      <4>1. gen \in gen..MaxPairs
        BY LockdownAssumption DEF Inv, TypeOK
      <4>2. /\ store \in Host /\ astray \in [Thread -> BOOLEAN] /\ fallback \in BOOLEAN
            /\ late \in 0..MaxLate /\ drops \in 0..MaxDrops /\ meddled \in 0..MaxMeddle
        BY DEF Inv, TypeOK
      <4>3. store # 0 => store \in accepted'
        BY <3>7 DEF Inv, OnlyAccepted
      <4>4. QED  BY <2>4, <3>7, <4>1, <4>2, <4>3 DEF Beside, budgets
    <3>9. k.at = "pair" => k.rec \in accepted'
      BY <1>2, <3>4, <3>7
    <3> HIDE DEF g
    <3>10. FaithfulAt(k, g.inbox, accepted')
      BY <1>2, <2>5, <3>2, <3>9 DEF FaithfulAt
    <3>11. QED  BY <1>3, <1>4, <3>2, <3>3, <3>8, <3>10, StepInv
  <2>7. CASE e # "none"
    <3>1. d' = [d EXCEPT ![t] = l] /\ UNCHANGED <<world, fallback, budgets, astray>>
      BY <2>1, <2>4, <2>7 DEF world, a
    <3>2. Beside
      BY <3>1, BesideSame DEF Inv, TypeOK
    <3>3. a # [to |-> "pair", err |-> "none"]
      BY <2>2, <2>7
    <3> HIDE DEF l
    <3>4. k.at \in Early => Clear(l.inbox)
      BY <1>1, <1>5, <2>2, <2>3, <3>3, AppendClear DEF Link
    <3>5. FaithfulAt(k, l.inbox, accepted')
      BY <3>4 DEF FaithfulAt
    <3>6. QED  BY <1>3, <1>4, <2>3, <3>1, <3>2, <3>5, StepInv
  <2>8. QED  BY <2>6, <2>7
<1>8. QED  BY <1>6, <1>7

LEMMA ConnectInv == ASSUME Inv, NEW t \in Thread, Connect(t) PROVE Inv'
<1>1. c \in [Thread -> Client] /\ c[t] \in Client /\ d[t] \in Link
      /\ c[t].at = "new" /\ c[t].conns = 0
  BY DEF Inv, TypeOK, Sound, Connect, Link
<1>2. UNCHANGED <<world, fallback, budgets>>
  BY DEF Connect
<1>3. CASE /\ c' = [c EXCEPT ![t].at = "query", ![t].conns = @ + 1, ![t].failed = FALSE]
           /\ d' = [d EXCEPT ![t] = [NoLink EXCEPT !.live = TRUE]]
           /\ astray' = [astray EXCEPT ![t] = FALSE]
  <2> DEFINE k == [c[t] EXCEPT !.at = "query", !.conns = 1, !.failed = FALSE]
             l == [NoLink EXCEPT !.live = TRUE]
  <2>1. k \in Client /\ k.at = "query" /\ k.conns = 1
    BY <1>1, Places DEF Client
  <2>2. c' = [c EXCEPT ![t] = k]
    <3>1. c[t].conns + 1 = 1
      BY <1>1
    <3>2. QED  BY <1>1, <1>3, <3>1
  <2>3. l \in Link /\ Clear(l.inbox)
    <3>1. NoLink \in Link /\ NoLink.inbox = << >>
      BY LockdownAssumption DEF NoLink, Link, Host
    <3>2. l \in Link /\ l.inbox = << >>
      BY <3>1 DEF Link
    <3>3. QED  BY <3>2 DEF Clear
  <2>4. Beside
    BY <1>2, <1>3, BesideSame DEF Inv, TypeOK
  <2> HIDE DEF k
  <2>5. Sound(k, gen')
    BY <2>1 DEF Sound
  <2>6. FaithfulAt(k, l.inbox, accepted')
    BY <2>3 DEF FaithfulAt
  <2>7. QED  BY <1>3, <2>2, <2>3, <2>4, <2>5, <2>6, StepInv
<1>4. CASE /\ c' = [c EXCEPT ![t].at = "idle", ![t].call = "none", ![t].ret = "MUX_ERROR",
                             ![t].failed = FALSE]
           /\ UNCHANGED <<d, astray>>
  <2> DEFINE k == [c[t] EXCEPT !.at = "idle", !.call = "none", !.ret = "MUX_ERROR",
                               !.failed = FALSE]
  <2>1. k \in Client /\ k.at = "idle" /\ k.conns = 0
    BY <1>1, Places DEF Client, Code
  <2>2. c' = [c EXCEPT ![t] = k] /\ d' = [d EXCEPT ![t] = d[t]]
    BY <1>4 DEF Inv, TypeOK
  <2>3. Beside
    BY <1>2, <1>4, BesideSame DEF Inv, TypeOK
  <2> HIDE DEF k
  <2>4. Sound(k, gen') /\ FaithfulAt(k, d[t].inbox, accepted')
    BY <2>1 DEF Sound, FaithfulAt, Early
  <2>5. QED  BY <1>1, <2>2, <2>3, <2>4, StepInv
<1>5. QED  BY <1>3, <1>4 DEF Connect

LEMMA EnableSslInv == ASSUME Inv, NEW t \in Thread, EnableSsl(t) PROVE Inv'
<1> DEFINE begun == ~c[t].tls /\ store # 0
           agreed == /\ d[t].live /\ d[t].tls /\ d[t].inbox = << >>
                     /\ store = d[t].session /\ Method \in model.methods
           m == IF begun THEN Method ELSE "none"
           i == [c[t] EXCEPT !.tried = m]
<1>1. c[t] \in Client /\ d[t] \in Link /\ c[t].conns = 1
  BY DEF Inv, TypeOK, Sound, EnableSsl, Link
<1>2. UNCHANGED <<world, fallback, budgets>>
  BY DEF EnableSsl
<1>3. m \in {"none", "v23", "v3"}
  BY DEF Method
<1>4. i \in Client /\ i.conns = 1
  <2> HIDE DEF m
  <2>1. QED  BY <1>1, <1>3 DEF Client
<1>5. CASE begun /\ agreed
  <2> DEFINE k == [i EXCEPT !.tls = TRUE, !.flag = TRUE, !.ret = "SUCCESS"]
  <2>1. c' = [c EXCEPT ![t] = Conclude(k)] /\ UNCHANGED <<d, astray>>
    BY <1>5 DEF EnableSsl
  <2> HIDE DEF i
  <2>2. k \in Client /\ k.conns = 1
    BY <1>4 DEF Client, Code
  <2> HIDE DEF k
  <2>3. Sound(Conclude(k), gen') /\ Conclude(k).at \notin Early
    BY <2>2, ConcludeSound
  <2>4. FaithfulAt(Conclude(k), d[t].inbox, accepted')
    BY <2>3 DEF FaithfulAt
  <2>5. Beside /\ d' = [d EXCEPT ![t] = d[t]]
    BY <1>2, <2>1, BesideSame DEF Inv, TypeOK
  <2>6. QED  BY <1>1, <2>1, <2>3, <2>4, <2>5, StepInv
<1>6. CASE ~(begun /\ agreed)
  <2> DEFINE f == c[t].call = "handshake"
             k == [i EXCEPT !.flag = FALSE, !.ret = "SSL_ERROR", !.failed = f]
             v == d[t].live /\ ~begun
             l == [d[t] EXCEPT !.live = v]
  <2>1. /\ c' = [c EXCEPT ![t] = Conclude(k)] /\ d' = [d EXCEPT ![t] = l]
        /\ astray' = [astray EXCEPT ![t] = TRUE]
    BY <1>1, <1>6 DEF EnableSsl, Link
  <2>2. f \in BOOLEAN /\ v \in BOOLEAN
    OBVIOUS
  <2> HIDE DEF f, v, i
  <2>3. k \in Client /\ k.conns = 1
    BY <1>4, <2>2 DEF Client, Code
  <2>4. l \in Link
    BY <1>1, <2>2 DEF Link
  <2> HIDE DEF k, l
  <2>5. Sound(Conclude(k), gen') /\ Conclude(k).at \notin Early
    BY <2>3, ConcludeSound
  <2>6. FaithfulAt(Conclude(k), l.inbox, accepted')
    BY <2>5 DEF FaithfulAt
  <2>7. Beside
    BY <1>2, <2>1, BesideSame DEF Inv, TypeOK
  <2>8. QED  BY <2>1, <2>4, <2>5, <2>6, <2>7, StepInv
<1>7. QED  BY <1>5, <1>6

\* A client that is led to a request, or to the end of its session before.
LEMMA AtSound ==
    ASSUME NEW k \in Client, k.conns = 1, NEW g,
           NEW p \in {"service", "ask", "tell", "unpair", "start", "stopservice"}
    PROVE  Sound([k EXCEPT !.at = p], g) /\ [k EXCEPT !.at = p].at \notin Early
<1> DEFINE j == [k EXCEPT !.at = p]
<1>1. j \in Client /\ j.at = p /\ j.conns = 1
  BY Places DEF Client
<1> HIDE DEF j
<1>2. Sound(j, g) /\ j.at \notin Early
  BY <1>1 DEF Sound, Early
<1>3. QED  BY <1>2 DEF j

LEMMA StoppingSound ==
    ASSUME NEW k \in Client, k.conns = 1, NEW g, NEW p \in {"start", "stopservice", "ready"}
    PROVE  /\ Sound([k EXCEPT !.at = "stop", !.then = p], g)
           /\ [k EXCEPT !.at = "stop", !.then = p].at \notin Early
<1> DEFINE j == [k EXCEPT !.at = "stop", !.then = p]
<1>1. j \in Client /\ j.at = "stop" /\ j.then = p /\ j.conns = 1
  BY Places DEF Client
<1> HIDE DEF j
<1>2. Sound(j, g) /\ j.at \notin Early
  BY <1>1 DEF Sound, Early
<1>3. QED  BY <1>2 DEF j

\* A call begins at a place that is not in a handshake.
LEMMA BegunSound ==
    ASSUME Inv, NEW t \in Thread, c[t].at = "ready", c[t].calls < MaxCalls,
           NEW call \in Calls, call # "handshake"
    PROVE  Sound(Begun(t, call), gen) /\ Begun(t, call).at \notin Early
<1> DEFINE n == c[t].calls + 1
           k == [c[t] EXCEPT !.call = call, !.calls = n]
           h == [k EXCEPT !.host = store]
           r == [k EXCEPT !.rec = store]
           x == [k EXCEPT !.ret = "INVALID_CONF"]
           y == [k EXCEPT !.ret = "INVALID_ARG"]
<1>1. c[t] \in Client /\ c[t].conns = 1 /\ store \in Host
  BY DEF Inv, TypeOK, Sound
<1>2. n \in 0..MaxCalls
  BY <1>1, LockdownAssumption DEF Client
<1>3. Begun(t, call) =
         LET noRecord == Return(x)
             Stopping(j, p) == IF j.sid = "NULL" THEN [j EXCEPT !.at = p]
                               ELSE [j EXCEPT !.at = "stop", !.then = p]
         IN  CASE call \in {"service", "ask", "tell"} -> [k EXCEPT !.at = call]
               [] call = "escrow" -> IF store = 0 THEN noRecord ELSE [k EXCEPT !.at = "service"]
               [] call = "unpair" -> IF store = 0 THEN noRecord
                                     ELSE [k EXCEPT !.at = "unpair", !.rec = store]
               [] call = "startsession" -> Stopping(h, "start")
               [] call = "stopservice" -> Stopping(k, "stopservice")
               [] call = "stopsession" ->
                     IF k.sid = "NULL" THEN Return(y) ELSE Stopping(k, "ready")
               [] call = "free" -> Freeing(k)
  BY <1>1 DEF Begun, Client
<1> HIDE DEF n
<1>4. k \in Client /\ k.conns = 1
  BY <1>1, <1>2 DEF Client
<1> HIDE DEF k
<1>5. /\ h \in Client /\ h.conns = 1 /\ r \in Client /\ r.conns = 1
      /\ [k EXCEPT !.at = "unpair", !.rec = store] = [r EXCEPT !.at = "unpair"]
  BY <1>1, <1>4, Places DEF Client
<1>6. x \in Client /\ x.conns = 1 /\ y \in Client /\ y.conns = 1
  BY <1>4 DEF Client, Code
<1> HIDE DEF h, r, x, y
<1>7. CASE call \in {"service", "ask", "tell"}
  BY <1>3, <1>4, <1>7, AtSound
<1>8. CASE call = "escrow"
  BY <1>3, <1>4, <1>6, <1>8, AtSound, ReturnSound
<1>9. CASE call = "unpair"
  <2>1. Begun(t, call) = IF store = 0 THEN Return(x) ELSE [r EXCEPT !.at = "unpair"]
    BY <1>3, <1>5, <1>9
  <2>2. Sound([r EXCEPT !.at = "unpair"], gen) /\ [r EXCEPT !.at = "unpair"].at \notin Early
    BY <1>5, AtSound
  <2>3. Sound(Return(x), gen) /\ Return(x).at \notin Early
    BY <1>6, ReturnSound
  <2>4. QED  BY <2>1, <2>2, <2>3
<1>10. CASE call = "startsession"
  <2>1. Begun(t, call) = IF h.sid = "NULL" THEN [h EXCEPT !.at = "start"]
                         ELSE [h EXCEPT !.at = "stop", !.then = "start"]
    BY <1>3, <1>10
  <2>2. Sound([h EXCEPT !.at = "start"], gen) /\ [h EXCEPT !.at = "start"].at \notin Early
    BY <1>5, AtSound
  <2>3. /\ Sound([h EXCEPT !.at = "stop", !.then = "start"], gen)
        /\ [h EXCEPT !.at = "stop", !.then = "start"].at \notin Early
    BY <1>5, StoppingSound
  <2>4. QED  BY <2>1, <2>2, <2>3
<1>11. CASE call = "stopservice"
  BY <1>3, <1>4, <1>11, AtSound, StoppingSound
<1>12. CASE call = "stopsession"
  BY <1>3, <1>4, <1>6, <1>12, ReturnSound, StoppingSound
<1>13. CASE call = "free"
  BY <1>3, <1>4, <1>13, FreeingSound
<1>14. QED
  BY <1>7, <1>8, <1>9, <1>10, <1>11, <1>12, <1>13, LockdownAssumption

LEMMA CallInv == ASSUME Inv, NEW t \in Thread, NEW call \in Calls, Call(t, call) PROVE Inv'
<1>1. c[t] \in Client /\ d[t] \in Link
  BY DEF Inv, TypeOK, Link
<1>2. Beside /\ d' = [d EXCEPT ![t] = d[t]] /\ gen' = gen
  BY BesideSame DEF Call, Inv, TypeOK, world
<1>3. CASE call = "handshake"
  <2> DEFINE n == c[t].calls + 1
             k == [c[t] EXCEPT !.at = "new", !.call = call, !.calls = n, !.host = 0]
  <2>1. n \in 0..MaxCalls /\ 0 \in Host
    BY <1>1, LockdownAssumption DEF Call, Client, Host
  <2>2. c' = [c EXCEPT ![t] = k]
    BY <1>3 DEF Call
  <2>3. c[t].conns = 0
    BY <1>3 DEF Call, Inv, Sound
  <2> HIDE DEF n
  <2>4. k \in Client /\ k.at = "new" /\ k.conns = 0
    BY <1>1, <2>1, <2>3, Places DEF Client
  <2> HIDE DEF k
  <2>5. Sound(k, gen') /\ FaithfulAt(k, d[t].inbox, accepted')
    BY <2>4 DEF Sound, FaithfulAt, Early
  <2>6. QED  BY <1>1, <1>2, <2>2, <2>5, StepInv
<1>4. CASE call # "handshake"
  <2>1. c' = [c EXCEPT ![t] = Begun(t, call)] /\ c[t].at = "ready" /\ c[t].calls < MaxCalls
    BY <1>4 DEF Call
  <2>2. Sound(Begun(t, call), gen') /\ Begun(t, call).at \notin Early
    BY <1>2, <1>4, <2>1, BegunSound
  <2>3. FaithfulAt(Begun(t, call), d[t].inbox, accepted')
    BY <2>2 DEF FaithfulAt
  <2>4. QED  BY <1>1, <1>2, <2>1, <2>2, <2>3, StepInv
<1>5. QED  BY <1>3, <1>4

LEMMA DropInv == ASSUME Inv, NEW t \in Thread, Drop(t) PROVE Inv'
<1>1. PICK inbox \in {d[t].inbox, << >>} :
          d' = [d EXCEPT ![t].live = FALSE, ![t].inbox = inbox]
  BY DEF Drop
<1> DEFINE l == [d[t] EXCEPT !.live = FALSE, !.inbox = inbox]
<1>2. d[t] \in Link /\ Sound(c[t], gen) /\ FaithfulAt(c[t], d[t].inbox, accepted)
  BY DEF Inv, TypeOK, Faithful, Link
<1>3. l \in Link /\ l.inbox = inbox /\ d' = [d EXCEPT ![t] = l]
  <2>1. inbox \in Seq(Answer)
    <3>1. d[t].inbox \in Seq(Answer) /\ << >> \in Seq(Answer)
      BY <1>2 DEF Link
    <3>2. QED  BY <3>1
  <2>2. l \in Link /\ l.inbox = inbox
    BY <1>2, <2>1 DEF Link
  <2>3. QED  BY <1>1, <1>2, <2>2
<1>4. Clear(<< >>)
  BY DEF Clear
<1> HIDE DEF l
<1>5. FaithfulAt(c[t], l.inbox, accepted)
  BY <1>2, <1>3, <1>4 DEF FaithfulAt
<1>6. Beside /\ gen' = gen /\ accepted' = accepted
  BY LockdownAssumption DEF Drop, Inv, TypeOK, OnlyAccepted, Beside, world
<1>7. c' = [c EXCEPT ![t] = c[t]]
  BY DEF Drop, Inv, TypeOK
<1>8. QED  BY <1>2, <1>3, <1>5, <1>6, <1>7, StepInv

\* The user and other programs touch no client.
LEMMA MeddleInv == ASSUME Inv, Meddle PROVE Inv'
<1>1. gen \in Nat /\ gen' \in Nat /\ gen <= gen' /\ gen' \in 1..MaxPairs
  BY LockdownAssumption DEF Meddle, Inv, TypeOK
<1>2. accepted \subseteq accepted' /\ trusted' \subseteq accepted' /\ accepted' \subseteq 1..gen'
  <2>1. trusted \subseteq accepted /\ accepted \subseteq 1..gen /\ gen \in 1..gen'
    BY <1>1 DEF Inv, TypeOK
  <2>2. gen' \in 1..gen' /\ 1..gen \subseteq 1..gen'
    BY <1>1
  <2>3. CASE trusted' = {} /\ UNCHANGED <<store, accepted, gen>>
    BY <2>1, <2>3
  <2>4. CASE trusted' = trusted \cup {gen'} /\ accepted' = accepted \cup {gen'}
    BY <2>1, <2>2, <2>4
  <2>5. CASE UNCHANGED <<trusted, accepted, gen>>
    BY <2>1, <2>5
  <2>6. QED  BY <2>3, <2>4, <2>5 DEF Meddle
<1>3. store' \in Host /\ (store' # 0 => store' \in accepted')
  BY <1>1, LockdownAssumption DEF Meddle, Inv, TypeOK, OnlyAccepted, Host
<1>4. TypeOK'
  BY <1>1, <1>2, <1>3, LockdownAssumption DEF TypeOK, Meddle, Inv
<1>5. ASSUME NEW t \in Thread PROVE Sound(c[t], gen') /\ FaithfulAt(c[t], d[t].inbox, accepted')
  <2>1. Sound(c[t], gen) /\ FaithfulAt(c[t], d[t].inbox, accepted)
    BY DEF Inv, Faithful
  <2>2. Sound(c[t], gen')
    BY <1>1, <2>1, SoundLater
  <2>3. QED  BY <1>2, <2>1, <2>2 DEF FaithfulAt
<1>6. QED  BY <1>3, <1>4, <1>5 DEF Inv, OnlyAccepted, Faithful, Meddle

LEMMA InitInv == ASSUME Init PROVE Inv
<1>1. 0 \in Host /\ 1 \in Host /\ 0 \in 0..MaxCalls /\ gen \in 1..MaxPairs
  BY LockdownAssumption DEF Init, Host
<1>2. /\ 0 \in 0..MaxLate /\ 0 \in 0..MaxDrops /\ 0 \in 0..MaxMeddle
      /\ store \in Host /\ accepted \subseteq 1..gen /\ trusted \subseteq accepted
  BY <1>1, LockdownAssumption DEF Init
<1>3. NoClient \in Client /\ NoLink \in Link
  BY <1>1, Places DEF NoClient, Client, NoLink, Link, Code
<1>4. Sound(NoClient, gen) /\ FaithfulAt(NoClient, NoLink.inbox, accepted)
  BY <1>3 DEF Sound, FaithfulAt, NoClient, Early
<1>5. TypeOK
  BY <1>1, <1>2, <1>3 DEF TypeOK, Init, Link
<1>6. QED  BY <1>4, <1>5 DEF Inv, OnlyAccepted, Faithful, Init

LEMMA NextInv == Inv /\ [Next]_vars => Inv'
<1> SUFFICES ASSUME Inv, [Next]_vars PROVE Inv'
  OBVIOUS
<1>1. ASSUME NEW t \in Thread, Step(t) PROVE Inv'
  BY <1>1, SendInv, ReceiveInv, RequestFailsInv, ConnectInv, EnableSslInv DEF Step
<1>2. ASSUME NEW t \in Thread, ReceiveTimesOut(t) \/ Drop(t) PROVE Inv'
  BY <1>2, ReceiveTimesOutInv, DropInv
<1>3. ASSUME NEW t \in Thread, NEW call \in Calls, Call(t, call) PROVE Inv'
  BY <1>3, CallInv
<1>4. CASE Meddle
  BY <1>4, MeddleInv
<1>5. CASE UNCHANGED vars
  BY <1>5 DEF vars, world, budgets, Inv, TypeOK, OnlyAccepted, Faithful
<1>6. QED  BY <1>1, <1>2, <1>3, <1>4, <1>5 DEF Next

LEMMA Invariance == Spec => []Inv
  BY InitInv, NextInv, PTL DEF Spec

-----------------------------------------------------------------------------
\* The variables of lockdown.c and of the device keep their types: so a client has
\* no less than no connection, and no record is counted that was not generated.
THEOREM TypeCorrect == Spec => []TypeOK
<1>1. Inv => TypeOK
  BY DEF Inv
<1>2. QED  BY <1>1, Invariance, PTL

\* A pairing record that is kept on this host was accepted by the device, whatever
\* answers come late to whom and whoever else pairs.
THEOREM RecordsAccepted == Spec => []OnlyAccepted
<1>1. Inv => OnlyAccepted
  BY DEF Inv
<1>2. QED  BY <1>1, Invariance, PTL

\* lockdownd_client_new_with_handshake, lockdownd_client_free and what is between
\* leave neither a connection nor a client without one.
THEOREM NoConnectionLeft == Spec => []OneConnection
<1>1. Inv => OneConnection
  BY DEF Inv, OneConnection, Sound
<1>2. QED  BY <1>1, Invariance, PTL

-----------------------------------------------------------------------------
(* Both ends of a connection, while answers come in time and SSL begins.   *)
(* Between a request that is granted and its answer they differ: on the    *)
(* session after StartSession and StopSession, on SSL until EnableSsl.     *)

\* The places of a client that has no session yet.
Opening == Early \cup {"revalidate", "start"}

Fresh(k, l) ==
    k.at \in {"idle", "new"} =>
        ~k.asked /\ k.sid = "NULL" /\ ~k.flag /\ ~k.tls /\ ~l.live

Answered(k, l) == \E e \in Error : l.inbox = <<[to |-> k.at, err |-> e]>>

Started(k, l) == k.at = "start" /\ k.asked /\ l.inbox[1].err = "none"

Level(k, l) ==
    /\ IF k.asked THEN k.at \in DOMAIN Verb /\ Answered(k, l) ELSE l.inbox = << >>
    /\ l.tls <=> l.session # 0 /\ model.ssl
    /\ k.flag = k.tls
    /\ k.at \in Opening => k.sid # "set"
    /\ k.at = "ssl" => k.sid = "set" /\ ~k.tls /\ l.session # 0
    /\ Started(k, l) => ~k.tls /\ l.session # 0
    /\ k.at = "stop" /\ k.asked => l.session = 0
    /\ k.at # "ssl" /\ ~Started(k, l) /\ ~(k.at = "stop" /\ k.asked) =>
           k.tls = l.tls /\ (k.sid = "set" <=> l.session # 0)

Agrees(t) ==
    /\ Fresh(c[t], d[t])
    /\ d[t].live /\ ~astray[t] => Level(c[t], d[t])

Agreed == Inv /\ \A t \in Thread : Agrees(t)

\* A client at another place, with its session, SSL and its failure as they were.
Same(j, k) == j.sid = k.sid /\ j.flag = k.flag /\ j.tls = k.tls /\ j.failed = k.failed

\* A client goes on, and to no place of those without a session but from another or
\* when it has none.
Onward(j, k) ==
    /\ Same(j, k) /\ ~j.asked /\ j.at \notin {"idle", "new", "ssl"}
    /\ j.at \in Opening => k.at \in Opening \/ k.sid = "NULL"

LEMMA ReturnOnward == ASSUME NEW k \in Client PROVE Onward(Return(k), k)
  BY DEF Return, Client, Onward, Same, Opening, Early

LEMMA FreeingOnward == ASSUME NEW k \in Client PROVE Onward(Freeing(k), k)
<1> DEFINE p == IF k.sid # "NULL" THEN "stop" ELSE "goodbye"
           j == [k EXCEPT !.at = p, !.then = "goodbye", !.asked = FALSE]
<1>1. p \in {"stop", "goodbye"} /\ Freeing(k) = j
  BY DEF Freeing
<1> HIDE DEF p
<1>2. j.at = p /\ j.asked = FALSE /\ Same(j, k)
  BY DEF Client, Same
<1> HIDE DEF j
<1>3. QED  BY <1>1, <1>2 DEF Onward, Opening, Early

LEMMA ConcludeOnward == ASSUME NEW k \in Client PROVE Onward(Conclude(k), k)
  BY ReturnOnward, FreeingOnward DEF Conclude

LEMMA StartingOnward ==
    ASSUME NEW k \in Client, NEW s, k.at \in Opening PROVE Onward(Starting(k, s), k)
<1> DEFINE h == IF k.host = 0 THEN s ELSE k.host
           j == [k EXCEPT !.at = "start", !.asked = FALSE, !.host = h]
<1>1. Starting(k, s) = j
  BY DEF Starting, Client
<1> HIDE DEF h
<1>2. j.at = "start" /\ j.asked = FALSE /\ Same(j, k)
  BY DEF Client, Same
<1> HIDE DEF j
<1>3. QED  BY <1>1, <1>2 DEF Onward

LEMMA JudgeOnward ==
    ASSUME NEW k \in Client, NEW s, k.at \in Opening PROVE Onward(Judge(k, s), k)
<1>1. CASE k.ret = "SUCCESS"
  BY <1>1, StartingOnward DEF Judge
<1>2. CASE k.ret # "SUCCESS" /\ ~(k.ret = "INVALID_HOST_ID" /\ k.at # "revalidate")
  BY <1>2, FreeingOnward DEF Judge
<1>3. CASE k.ret # "SUCCESS" /\ k.ret = "INVALID_HOST_ID" /\ k.at # "revalidate"
  <2> DEFINE j == [k EXCEPT !.at = "key", !.asked = FALSE, !.host = 0]
  <2>1. j.at = "key" /\ j.asked = FALSE /\ Same(j, k) /\ Judge(k, s) = j
    BY <1>3 DEF Client, Same, Judge
  <2> HIDE DEF j
  <2>2. QED  BY <2>1 DEF Onward
<1>4. QED  BY <1>1, <1>2, <1>3

LEMMA ValidatingOnward ==
    ASSUME NEW k \in Client, NEW s, k.at \in Opening, NEW p \in {"validate", "revalidate"}
    PROVE  Onward(Validating(k, p, s), k)
<1>1. CASE s = 0
  <2> DEFINE i == [k EXCEPT !.ret = "INVALID_CONF"]
  <2>1. i \in Client /\ i.at = k.at /\ Same(i, k) /\ Validating(k, p, s) = Freeing(i)
    BY <1>1 DEF Client, Code, Same, Validating
  <2> HIDE DEF i
  <2>2. Onward(Freeing(i), i)
    BY <2>1, FreeingOnward
  <2>3. QED  BY <2>1, <2>2 DEF Onward, Same
<1>2. CASE s # 0
  <2> DEFINE j == [k EXCEPT !.at = p, !.asked = FALSE, !.rec = s]
  <2>1. j.at = p /\ j.asked = FALSE /\ Same(j, k) /\ Validating(k, p, s) = j
    BY <1>2 DEF Client, Same, Validating
  <2> HIDE DEF j
  <2>2. QED  BY <2>1 DEF Onward
<1>3. QED  BY <1>1, <1>2

LEMMA VersionedOnward ==
    ASSUME NEW k \in Client, k.at \in Opening PROVE Onward(Versioned(k), k)
  BY JudgeOnward, ValidatingOnward DEF Versioned

\* The end of most requests changes neither the session nor SSL.
LEMMA QueryOnward ==
    ASSUME Inv, NEW t \in Thread, NEW as, AfterQuery(t, as) PROVE Onward(c'[t], c[t])
<1> DEFINE code == IF as = << >> \/ as[1].err # "none" THEN "NOT_ENOUGH_DATA"
                   ELSE IF store = 0 THEN "INVALID_CONF" ELSE "SUCCESS"
           k == [c[t] EXCEPT !.host = store, !.ret = code]
           v == [k EXCEPT !.at = "version", !.asked = FALSE]
<1>1. c[t] \in Client /\ store \in Host /\ c[t].at = "query" /\ code \in Code
  BY Asking, Places DEF AfterQuery, Code
<1>2. c'[t] = IF k.vers = "unknown" THEN v ELSE Versioned(k)
  BY DEF AfterQuery, Inv, TypeOK
<1> HIDE DEF code
<1>3. k \in Client /\ k.at = "query" /\ Same(k, c[t])
  BY <1>1 DEF Client, Same
<1> HIDE DEF k
<1>4. v.at = "version" /\ v.asked = FALSE /\ Same(v, k)
  BY <1>3 DEF Client, Same
<1> HIDE DEF v
<1>5. Onward(Versioned(k), k)
  BY <1>3, VersionedOnward DEF Opening, Early
<1>6. QED  BY <1>1, <1>2, <1>3, <1>4, <1>5 DEF Onward, Same, Opening, Early

LEMMA VersionOnward ==
    ASSUME Inv, NEW t \in Thread, NEW as, AfterVersion(t, as) PROVE Onward(c'[t], c[t])
<1> DEFINE v == IF as # << >> /\ as[1] = [to |-> "version", err |-> "none"]
                THEN model.ios ELSE c[t].vers
           k == [c[t] EXCEPT !.vers = v]
<1>1. c[t] \in Client /\ c[t].at = "version" /\ model.ios \in {"old", "new"}
  BY Asking, Places, LockdownAssumption DEF AfterVersion, Inv, TypeOK
<1>2. c'[t] = Versioned(k)
  BY DEF AfterVersion, Inv, TypeOK
<1>3. v \in {"unknown", "old", "new"}
  BY <1>1 DEF Client
<1> HIDE DEF v
<1>4. k \in Client /\ k.at = "version" /\ Same(k, c[t])
  BY <1>1, <1>3 DEF Client, Same
<1> HIDE DEF k
<1>5. Onward(Versioned(k), k)
  BY <1>4, VersionedOnward DEF Opening, Early
<1>6. QED  BY <1>1, <1>2, <1>4, <1>5 DEF Onward, Same

LEMMA ValidateOnward ==
    ASSUME Inv, NEW t \in Thread, NEW as, AfterValidate(t, as) PROVE Onward(c'[t], c[t])
<1> DEFINE code == IF as = << >> THEN "FAILED" ELSE PairCode(as[1], c[t].at)
           k == [c[t] EXCEPT !.ret = code]
<1>1. /\ c[t] \in Client /\ c[t].at \in {"validate", "revalidate"} /\ code \in Code
      /\ c'[t] = Judge(k, store)
  BY Asking, Places, Codes DEF AfterValidate, Code, Inv, TypeOK
<1> HIDE DEF code
<1>2. k \in Client /\ k.at = c[t].at /\ Same(k, c[t])
  BY <1>1 DEF Client, Same
<1> HIDE DEF k
<1>3. Onward(Judge(k, store), k)
  BY <1>1, <1>2, JudgeOnward DEF Opening, Early
<1>4. QED  BY <1>1, <1>2, <1>3 DEF Onward, Same

\* The record is generated; the connection is as it was.
LEMMA KeyOnward ==
    ASSUME Inv, NEW t \in Thread, NEW as, AfterKey(t, as) PROVE Onward(c'[t], c[t])
<1> DEFINE k == [c[t] EXCEPT !.at = "wifi", !.asked = FALSE, !.rec = gen + 1]
           i == [c[t] EXCEPT !.ret = "FAILED"]
<1>1. c[t] \in Client /\ c[t].at = "key" /\ (c'[t] = k \/ c'[t] = Freeing(i))
  BY Asking, Places DEF AfterKey, Inv, TypeOK
<1>2. k.at = "wifi" /\ k.asked = FALSE /\ Same(k, c[t])
  BY <1>1 DEF Client, Same
<1>3. i \in Client /\ i.at = c[t].at /\ Same(i, c[t])
  BY <1>1 DEF Client, Code, Same
<1> HIDE DEF i, k
<1>4. Onward(Freeing(i), i)
  BY <1>3, FreeingOnward
<1>5. QED  BY <1>1, <1>2, <1>3, <1>4 DEF Onward, Same, Opening, Early

LEMMA WifiOnward ==
    ASSUME Inv, NEW t \in Thread, NEW as, AfterWifi(t, as) PROVE Onward(c'[t], c[t])
<1> DEFINE k == [c[t] EXCEPT !.at = "pair", !.asked = FALSE]
<1>1. c[t] \in Client /\ c[t].at = "wifi" /\ c'[t] = k
  BY Asking, Places DEF AfterWifi, Inv, TypeOK
<1>2. k.at = "pair" /\ k.asked = FALSE /\ Same(k, c[t])
  BY <1>1 DEF Client, Same
<1> HIDE DEF k
<1>3. QED  BY <1>1, <1>2 DEF Onward, Opening, Early

LEMMA PairOnward ==
    ASSUME Inv, NEW t \in Thread, NEW as, AfterPair(t, as) PROVE Onward(c'[t], c[t])
<1> DEFINE code == IF as = << >> THEN "FAILED" ELSE PairCode(as[1], "pair")
           k == [c[t] EXCEPT !.ret = code]
<1>1. /\ c[t] \in Client /\ c[t].at = "pair" /\ code \in Code
      /\ c'[t] = Validating(k, "revalidate", store') \/ c'[t] = Freeing(k)
  BY Asking, Places, Codes DEF AfterPair, Code, Inv, TypeOK
<1> HIDE DEF code
<1>2. k \in Client /\ k.at = c[t].at /\ Same(k, c[t])
  BY <1>1 DEF Client, Same
<1> HIDE DEF k
<1>3. Onward(Validating(k, "revalidate", store'), k) /\ Onward(Freeing(k), k)
  BY <1>1, <1>2, ValidatingOnward, FreeingOnward DEF Opening, Early
<1>4. QED  BY <1>1, <1>2, <1>3 DEF Onward, Same

LEMMA CodeOnward ==
    ASSUME Inv, NEW t \in Thread, NEW code \in Code,
           c' = [c EXCEPT ![t] = Return([c[t] EXCEPT !.ret = code])]
    PROVE  Onward(c'[t], c[t])
<1> DEFINE k == [c[t] EXCEPT !.ret = code]
<1>1. c[t] \in Client /\ c'[t] = Return(k)
  BY DEF Inv, TypeOK
<1>2. k \in Client /\ k.at = c[t].at /\ Same(k, c[t])
  BY <1>1 DEF Client, Same
<1> HIDE DEF k
<1>3. Onward(Return(k), k)
  BY <1>2, ReturnOnward
<1>4. QED  BY <1>1, <1>2, <1>3 DEF Onward, Same

LEMMA AfterOnward ==
    ASSUME Inv, NEW t \in Thread, NEW as, After(t, as),
           c[t].at \notin {"start", "stop", "goodbye"}
    PROVE  Onward(c'[t], c[t])
<1>1. CASE AfterRequest(t, as) \/ AfterTell(t, as) \/ AfterUnpair(t, as) \/ AfterStopService(t, as)
  <2>1. PICK code \in Code : c' = [c EXCEPT ![t] = Return([c[t] EXCEPT !.ret = code])]
    <3>1. CASE AfterRequest(t, as)
      BY <3>1 DEF AfterRequest, Code
    <3>2. CASE AfterTell(t, as)
      BY <3>2 DEF AfterTell, Code
    <3>3. CASE AfterUnpair(t, as)
      BY <3>3, Codes DEF AfterUnpair, Code
    <3>4. CASE AfterStopService(t, as)
      BY <3>4 DEF AfterStopService, Code
    <3>5. QED  BY <1>1, <3>1, <3>2, <3>3, <3>4
  <2>2. QED  BY <2>1, CodeOnward
<1>2. CASE AfterStart(t, as) \/ AfterStop(t, as) \/ AfterGoodbye(t, as)
  BY <1>2 DEF AfterStart, AfterStop, AfterGoodbye
<1>3. QED
  BY <1>1, <1>2, QueryOnward, VersionOnward, ValidateOnward, KeyOnward, WifiOnward,
     PairOnward DEF After

\* Where StartSession leads, and what the client has then.
LEMMA StartDoes ==
    ASSUME Inv, NEW t \in Thread, NEW as, AfterStart(t, as)
    PROVE  /\ c'[t].at \notin {"idle", "new"}
           /\ ~c'[t].asked /\ c'[t].tls = c[t].tls /\ c'[t].failed = c[t].failed
           /\ as = << >> \/ Failure(as[1], "start") => Onward(c'[t], c[t])
           /\ as # << >> /\ as[1].to = "start" /\ as[1].err = "none" =>
                  /\ c'[t].sid = "set" /\ c'[t].at \notin Opening
                  /\ model.ssl <=> c'[t].at = "ssl"
                  /\ c'[t].flag = IF model.ssl THEN c[t].flag ELSE FALSE
<1> DEFINE code == IF as[1].err = "InvalidHostID" THEN "INVALID_HOST_ID" ELSE "SUCCESS"
           sid == IF as[1].to = "start" THEN "set" ELSE c[t].sid
<1>1. c[t] \in Client /\ c \in [Thread -> Client] /\ c[t].at = "start"
  BY Asking, Places DEF AfterStart, Inv, TypeOK
<1>2. CASE as = << >>
  <2> DEFINE k == [c[t] EXCEPT !.ret = "FAILED"]
  <2>1. k \in Client /\ k.at = c[t].at /\ Same(k, c[t])
    BY <1>1 DEF Client, Code, Same
  <2>2. c'[t] = Conclude(k)
    BY <1>1, <1>2 DEF AfterStart
  <2> HIDE DEF k
  <2>3. QED  BY <1>2, <2>1, <2>2, ConcludeOnward DEF Onward, Same
<1>3. CASE as # << >> /\ Failure(as[1], "start")
  <2> DEFINE k == [c[t] EXCEPT !.ret = code]
  <2>1. k \in Client /\ k.at = c[t].at /\ Same(k, c[t])
    BY <1>1 DEF Client, Code, Same
  <2>2. c'[t] = Conclude(k)
    BY <1>1, <1>3 DEF AfterStart
  <2> HIDE DEF k
  <2>3. QED  BY <1>3, <2>1, <2>2, ConcludeOnward DEF Onward, Same, Failure
<1>4. CASE as # << >> /\ ~Failure(as[1], "start") /\ as[1].to = "start" /\ model.ssl
  <2> DEFINE k == [c[t] EXCEPT !.at = "ssl", !.asked = FALSE, !.sid = "set"]
  <2>1. /\ k.at = "ssl" /\ k.asked = FALSE /\ k.sid = "set"
        /\ k.flag = c[t].flag /\ k.tls = c[t].tls /\ k.failed = c[t].failed
    BY <1>1 DEF Client
  <2>2. c'[t] = k
    BY <1>1, <1>4 DEF AfterStart
  <2> HIDE DEF k
  <2>3. QED  BY <1>4, <2>1, <2>2 DEF Opening, Early
<1>5. CASE as # << >> /\ ~Failure(as[1], "start") /\ ~(as[1].to = "start" /\ model.ssl)
  <2> DEFINE k == [c[t] EXCEPT !.ret = "SUCCESS", !.flag = FALSE, !.sid = sid]
  <2>1. sid \in {"NULL", "set", "freed"}
    BY <1>1 DEF Client
  <2>2. c'[t] = Conclude(k)
    BY <1>1, <1>5 DEF AfterStart, Client
  <2>3. as[1].to = "start" => sid = "set"
    OBVIOUS
  <2> HIDE DEF sid
  <2>4. /\ k \in Client /\ k.at = "start" /\ k.ret = "SUCCESS"
        /\ k.sid = sid /\ k.flag = FALSE /\ k.tls = c[t].tls /\ k.failed = c[t].failed
    BY <1>1, <2>1 DEF Client, Code
  <2> HIDE DEF k
  <2>5. Onward(Conclude(k), k) /\ Conclude(k).at = "ready"
    <3>1. Conclude(k) = Return(k) /\ Return(k).at = "ready"
      BY <2>4 DEF Conclude, Return, Client
    <3>2. QED  BY <2>4, <3>1, ReturnOnward
  <2>6. QED  BY <1>5, <2>2, <2>3, <2>4, <2>5 DEF Onward, Same, Opening, Early
<1>6. QED  BY <1>2, <1>3, <1>4, <1>5

\* An answer to StopSession ends the session and SSL on this side.
LEMMA StopDoes ==
    ASSUME Inv, NEW t \in Thread, NEW as, AfterStop(t, as)
    PROVE  /\ c'[t].at \in {"goodbye", "start", "stopservice", "ready"} /\ ~c'[t].asked
           /\ as # << >> => /\ c'[t].sid = "NULL" /\ c'[t].flag = FALSE
                            /\ c'[t].tls = (c[t].tls /\ ~c[t].flag)
<1> DEFINE k == c[t]
           code == IF as # << >> /\ Success(as[1], "stop") THEN "SUCCESS" ELSE "FAILED"
           b == k.tls /\ ~k.flag
           i == [k EXCEPT !.sid = "NULL", !.flag = FALSE, !.tls = b]
           j == IF as = << >> THEN k ELSE i
           s == Left(j.sid, k.then)
           l == [j EXCEPT !.sid = s, !.at = k.then, !.asked = FALSE]
           r == [l EXCEPT !.ret = code]
<1>1. k \in Client /\ k.then \in {"goodbye", "start", "stopservice", "ready"} /\ code \in Code
  BY Asking, Places DEF AfterStop, Inv, Sound, Code
<1>2. c'[t] = IF k.then = "ready" THEN Return(r) ELSE l
  BY <1>1 DEF AfterStop, Inv, TypeOK, Client
<1> HIDE DEF k, code
<1>3. i \in Client /\ i.sid = "NULL" /\ i.flag = FALSE /\ i.tls = b
  BY <1>1 DEF Client
<1> HIDE DEF i, b
<1>4. j \in Client /\ (as # << >> => j.sid = "NULL" /\ j.flag = FALSE /\ j.tls = b)
  BY <1>1, <1>3
<1> HIDE DEF j
<1>5. s \in {"NULL", "set", "freed"} /\ (as # << >> => s = "NULL")
  BY <1>4 DEF Left, Client
<1> HIDE DEF s
<1>6. /\ l \in Client /\ l.at = k.then /\ l.asked = FALSE /\ l.sid = s
      /\ l.flag = j.flag /\ l.tls = j.tls
  BY <1>1, <1>4, <1>5, Places DEF Client
<1> HIDE DEF l
<1>7. r \in Client /\ r.sid = l.sid /\ r.flag = l.flag /\ r.tls = l.tls
  BY <1>1, <1>6 DEF Client
<1> HIDE DEF r
<1>8. /\ Return(r).at = "ready" /\ Return(r).asked = FALSE /\ Return(r).sid = l.sid
      /\ Return(r).flag = l.flag /\ Return(r).tls = l.tls
  BY <1>7 DEF Return, Client
<1>9. QED  BY <1>1, <1>2, <1>4, <1>5, <1>6, <1>8 DEF b, k

LEMMA GoodbyeDoes ==
    ASSUME Inv, NEW t \in Thread, NEW as, AfterGoodbye(t, as)
    PROVE  /\ c'[t].at \in {"idle", "new"} /\ ~c'[t].asked
           /\ c'[t].sid = "NULL" /\ c'[t].flag = FALSE /\ c'[t].tls = FALSE
<1>1. c[t] \in Client /\ c \in [Thread -> Client]
  BY DEF Inv, TypeOK
<1>2. QED  BY <1>1 DEF AfterGoodbye, Client

\* A client that goes on leaves both ends as they were.
LEMMA OnwardLevel ==
    ASSUME NEW k, NEW l, NEW j, NEW m, Level(k, l), Onward(j, k),
           k.at # "ssl", ~Started(k, l), ~(k.at = "stop" /\ k.asked),
           m.tls = l.tls, m.session = l.session, m.inbox = << >>
    PROVE  Level(j, m)
<1>1. k.at \in Opening => k.sid # "set"
  BY DEF Level
<1>2. j.at \in Opening => j.sid # "set"
  BY <1>1 DEF Onward, Same
<1>3. ~Started(j, m)
  BY DEF Started, Onward
<1>4. /\ k.tls = l.tls /\ (k.sid = "set" <=> l.session # 0) /\ k.flag = k.tls
      /\ l.tls <=> l.session # 0 /\ model.ssl
  BY DEF Level
<1>5. QED  BY <1>2, <1>3, <1>4 DEF Level, Onward, Same

\* Reads what Rest leaves of the connection.
LEMMA RestDoes ==
    ASSUME Inv, NEW t \in Thread, NEW inbox, Rest(t, inbox)
    PROVE  /\ c[t].at = "goodbye" => ~d'[t].live
           /\ c[t].at # "goodbye" => /\ d'[t].live = d[t].live /\ d'[t].tls = d[t].tls
                                     /\ d'[t].session = d[t].session /\ d'[t].inbox = inbox
<1>1. d[t] \in Link /\ d \in [Thread -> Link]
  BY DEF Inv, TypeOK, Link
<1>2. CASE c[t].at = "goodbye"
  BY <1>1, <1>2 DEF Rest, NoLink
<1>3. CASE c[t].at # "goodbye"
  BY <1>1, <1>3 DEF Rest, Link
<1>4. QED  BY <1>2, <1>3

LEMMA AfterGoesOn ==
    ASSUME Inv, NEW t \in Thread, NEW as, After(t, as), c[t].at # "goodbye"
    PROVE  c'[t].at \notin {"idle", "new"}
<1>1. CASE c[t].at = "start"
  <2>1. AfterStart(t, as)
    BY <1>1 DEF After, AfterQuery, AfterVersion, AfterValidate, AfterKey, AfterWifi, AfterPair,
                AfterStop, AfterRequest, AfterTell, AfterUnpair, AfterStopService, AfterGoodbye
  <2>2. QED  BY <2>1, StartDoes
<1>2. CASE c[t].at = "stop"
  <2>1. AfterStop(t, as)
    BY <1>2 DEF After, AfterQuery, AfterVersion, AfterValidate, AfterKey, AfterWifi, AfterPair,
                AfterStart, AfterRequest, AfterTell, AfterUnpair, AfterStopService, AfterGoodbye
  <2>2. QED  BY <2>1, StopDoes
<1>3. CASE c[t].at \notin {"start", "stop"}
  BY <1>3, AfterOnward DEF Onward
<1>4. QED  BY <1>1, <1>2, <1>3

LEMMA OnlyGoodbye ==
    ASSUME NEW t \in Thread, NEW as, After(t, as), c[t].at = "goodbye"
    PROVE  AfterGoodbye(t, as)
  BY DEF After, AfterQuery, AfterVersion, AfterValidate, AfterKey, AfterWifi, AfterPair, AfterStop,
         AfterStart, AfterRequest, AfterTell, AfterUnpair, AfterStopService

LEMMA OnlyOne == ASSUME NEW a PROVE Head(<<a>>) = a /\ Tail(<<a>>) = << >>
  OBVIOUS

LEMMA LevelReceive ==
    ASSUME Inv, NEW t \in Thread, NEW a, Level(c[t], d[t]), c[t].asked, d[t].inbox = <<a>>,
           After(t, <<a>>), c[t].at # "goodbye", model' = model,
           d'[t].tls = d[t].tls, d'[t].session = d[t].session, d'[t].inbox = << >>
    PROVE  Level(c'[t], d'[t])
<1>1. /\ a.to = c[t].at /\ c[t].at \in DOMAIN Verb /\ a.err \in Error
      /\ c[t].flag = c[t].tls /\ (d[t].tls <=> d[t].session # 0 /\ model.ssl)
  <2>1. c[t].at \in DOMAIN Verb /\ Answered(c[t], d[t])
    BY DEF Level
  <2>2. PICK e \in Error : d[t].inbox = <<[to |-> c[t].at, err |-> e]>>
    BY <2>1 DEF Answered
  <2>3. a = [to |-> c[t].at, err |-> e]
    BY <2>2, OnlyOne
  <2>4. QED  BY <2>1, <2>3 DEF Level
<1>2. <<a>> # << >> /\ <<a>>[1] = a /\ d[t].inbox[1] = a
  OBVIOUS
<1>3. CASE c[t].at = "start"
  <2>1. AfterStart(t, <<a>>)
    BY <1>3 DEF After, AfterQuery, AfterVersion, AfterValidate, AfterKey, AfterWifi, AfterPair,
                AfterStop, AfterRequest, AfterTell, AfterUnpair, AfterStopService, AfterGoodbye
  <2>2. CASE a.err = "none"
    <3>1. Started(c[t], d[t]) /\ ~c[t].tls /\ d[t].session # 0
      BY <1>2, <1>3, <2>2 DEF Started, Level
    <3>2. <<a>>[1].to = "start" /\ <<a>>[1].err = "none"
      BY <1>1, <1>2, <1>3, <2>2
    <3>3. /\ c'[t].sid = "set" /\ c'[t].at \notin Opening
          /\ model.ssl <=> c'[t].at = "ssl"
          /\ c'[t].flag = IF model.ssl THEN c[t].flag ELSE FALSE
      BY <1>2, <2>1, <3>2, StartDoes
    <3>4. ~c'[t].asked /\ c'[t].tls = c[t].tls /\ ~Started(c'[t], d'[t])
      BY <2>1, StartDoes DEF Started
    <3>5. c[t].tls = FALSE /\ model.ssl \in BOOLEAN
      BY <3>1, LockdownAssumption DEF Inv, TypeOK, Client
    <3>6. CASE model.ssl
      <4>1. c'[t].at = "ssl" /\ c'[t].flag = c'[t].tls /\ ~c'[t].tls
        BY <1>1, <3>3, <3>4, <3>5, <3>6
      <4>2. d'[t].tls <=> d'[t].session # 0 /\ model.ssl
        BY <1>1
      <4>3. QED  BY <3>1, <3>3, <3>4, <4>1, <4>2 DEF Level
    <3>7. CASE ~model.ssl
      <4>1. c'[t].at # "ssl" /\ c'[t].flag = FALSE /\ c'[t].tls = FALSE
        BY <3>3, <3>4, <3>5, <3>7
      <4>2. d[t].tls = FALSE
        BY <1>1, <3>7 DEF Inv, TypeOK
      <4>3. QED  BY <1>1, <3>1, <3>3, <3>4, <3>7, <4>1, <4>2 DEF Level
    <3>8. QED  BY <3>6, <3>7
  <2>3. CASE a.err # "none"
    <3>1. Failure(a, "start") /\ ~Started(c[t], d[t])
      BY <1>1, <1>2, <1>3, <2>3 DEF Failure, Started
    <3>2. Onward(c'[t], c[t])
      BY <1>2, <2>1, <3>1, StartDoes
    <3>3. QED  BY <1>3, <3>1, <3>2, OnwardLevel
  <2>4. QED  BY <2>2, <2>3
<1>4. CASE c[t].at = "stop"
  <2>1. AfterStop(t, <<a>>)
    BY <1>4 DEF After, AfterQuery, AfterVersion, AfterValidate, AfterKey, AfterWifi, AfterPair,
                AfterStart, AfterRequest, AfterTell, AfterUnpair, AfterStopService, AfterGoodbye
  <2>2. /\ c'[t].at \in {"goodbye", "start", "stopservice", "ready"} /\ ~c'[t].asked
        /\ c'[t].sid = "NULL" /\ c'[t].flag = FALSE /\ c'[t].tls = (c[t].tls /\ ~c[t].flag)
    BY <1>2, <2>1, StopDoes
  <2>3. d[t].session = 0 /\ c'[t].tls = FALSE /\ d[t].tls = FALSE
    BY <1>1, <1>4, <2>2 DEF Level, Inv, TypeOK
  <2>4. ~Started(c'[t], d'[t])
    BY <2>2 DEF Started
  <2>5. QED  BY <2>2, <2>3, <2>4 DEF Level
<1>5. CASE c[t].at \notin {"start", "stop"}
  <2>1. Onward(c'[t], c[t]) /\ ~Started(c[t], d[t]) /\ c[t].at # "ssl"
    BY <1>1, <1>5, AfterOnward, Places DEF Started
  <2>2. QED  BY <1>5, <2>1, OnwardLevel
<1>6. QED  BY <1>3, <1>4, <1>5

\* The model of the device is the same in every step.
LEMMA LevelLater ==
    ASSUME NEW t \in Thread, model' = model, Fresh(c'[t], d'[t]),
           d'[t].live /\ ~astray'[t] => Level(c'[t], d'[t])
    PROVE  Agrees(t)'
  BY DEF Agrees, Fresh, Level, Answered, Started

LEMMA ReceiveAgrees ==
    ASSUME Inv, NEW t \in Thread, Agrees(t), Receive(t) PROVE Agrees(t)'
<1> DEFINE a == Head(d[t].inbox)
<1>1. /\ After(t, <<a>>) /\ Rest(t, Tail(d[t].inbox)) /\ c[t].asked /\ astray' = astray
  BY DEF Receive
<1>2. model' = model
  BY <1>1 DEF After, AfterQuery, AfterVersion, AfterValidate, AfterKey, AfterWifi, AfterPair,
              AfterStop, AfterStart, AfterRequest, AfterTell, AfterUnpair, AfterStopService,
              AfterGoodbye, Quiet
<1> HIDE DEF a
<1>3. CASE c[t].at = "goodbye"
  BY <1>1, <1>2, <1>3, OnlyGoodbye, GoodbyeDoes, RestDoes, LevelLater DEF Fresh
<1>4. CASE c[t].at # "goodbye"
  <2>1. Fresh(c'[t], d'[t])
    BY <1>1, <1>4, AfterGoesOn DEF Fresh
  <2>2. /\ d'[t].live = d[t].live /\ d'[t].tls = d[t].tls
        /\ d'[t].session = d[t].session /\ d'[t].inbox = Tail(d[t].inbox)
    BY <1>1, <1>4, RestDoes
  <2>3. ASSUME d'[t].live, ~astray'[t] PROVE Level(c'[t], d'[t])
    <3>1. Level(c[t], d[t])
      BY <1>1, <2>2, <2>3 DEF Agrees
    <3>2. PICK e \in Error : d[t].inbox = <<[to |-> c[t].at, err |-> e]>>
      BY <1>1, <3>1 DEF Level, Answered
    <3>3. d[t].inbox = <<a>> /\ d'[t].inbox = << >>
      BY <2>2, <3>2, OnlyOne DEF a
    <3>4. QED  BY <1>1, <1>2, <1>4, <2>2, <3>1, <3>3, LevelReceive
  <2>4. QED  BY <1>2, <2>1, <2>3, LevelLater
<1>5. QED  BY <1>3, <1>4

\* A request that ends without an answer puts the ends out of step.
LEMMA SilentAgrees ==
    ASSUME Inv, NEW t \in Thread, After(t, << >>), Rest(t, d[t].inbox),
           astray' = [astray EXCEPT ![t] = TRUE]
    PROVE  Agrees(t)'
<1>1. model' = model
  BY DEF After, AfterQuery, AfterVersion, AfterValidate, AfterKey, AfterWifi, AfterPair,
         AfterStop, AfterStart, AfterRequest, AfterTell, AfterUnpair, AfterStopService,
         AfterGoodbye, Quiet
<1>2. astray'[t] = TRUE
  BY DEF Inv, TypeOK
<1>3. CASE c[t].at = "goodbye"
  BY <1>1, <1>2, <1>3, OnlyGoodbye, GoodbyeDoes, RestDoes, LevelLater DEF Fresh
<1>4. CASE c[t].at # "goodbye"
  BY <1>1, <1>2, <1>4, AfterGoesOn, LevelLater DEF Fresh
<1>5. QED  BY <1>3, <1>4

LEMMA SendAgrees ==
    ASSUME Inv, NEW t \in Thread, Agrees(t), Send(t) PROVE Agrees(t)'
<1> DEFINE k == [c[t] EXCEPT !.asked = TRUE]
<1>1. /\ c[t] \in Client /\ d[t] \in Link /\ c[t].at \in DOMAIN Verb /\ ~c[t].asked
      /\ model' = model /\ astray' = astray /\ c'[t] = k
  BY DEF Inv, TypeOK, Send, Link
<1>2. k.at = c[t].at /\ k.asked = TRUE /\ Same(k, c[t])
  BY <1>1 DEF Client, Same
<1> HIDE DEF k
<1>3. Fresh(c'[t], d'[t]) /\ k.at \notin {"idle", "new", "ssl", "ready"}
  BY <1>1, <1>2, Places DEF Fresh
<1>4. ASSUME d'[t].live, ~astray[t] PROVE Level(k, d'[t])
  <2>1. d[t].live /\ c[t].tls = d[t].tls
    <3>1. ~(d[t].live /\ c[t].tls = d[t].tls) => d'[t].live = FALSE
      BY <1>1 DEF Send, Inv, TypeOK, Link
    <3>2. QED  BY <1>4, <3>1
  <2>2. Level(c[t], d[t])
    BY <1>4, <2>1 DEF Agrees
  <2>3. PICK e \in Verdicts(t) :
            LET l == [d[t] EXCEPT !.inbox = Append(@, [to |-> c[t].at, err |-> e])]
            IN  d' = IF e = "none" THEN [d EXCEPT ![t] = Granted(l, c[t].at, Shown(t))]
                     ELSE [d EXCEPT ![t] = l]
    BY <2>1 DEF Send
  <2> DEFINE a == [to |-> c[t].at, err |-> e]
             l == [d[t] EXCEPT !.inbox = <<a>>]
  <2>4. a.err = e /\ e \in Error
    BY VerdictErrors
  <2>5. d'[t] = IF e = "none" THEN Granted(l, c[t].at, Shown(t)) ELSE l
    <3>1. d[t].inbox = << >> /\ Append(<< >>, a) = <<a>>
      BY <1>1, <2>2 DEF Level
    <3>2. [d[t] EXCEPT !.inbox = Append(@, a)] = l
      BY <1>1, <3>1 DEF Link
    <3>3. QED  BY <2>3, <3>2 DEF Inv, TypeOK
  <2>6. /\ l.inbox = <<a>> /\ l.live = d[t].live
        /\ l.tls = d[t].tls /\ l.session = d[t].session
    BY <1>1 DEF Link
  <2>7. l \in Link
    <3>1. a \in Answer
      BY <1>1, <2>4 DEF Answer
    <3>2. <<a>> \in Seq(Answer)
      BY <3>1
    <3>3. QED  BY <1>1, <3>2 DEF Link
  <2>8. ASSUME NEW m, m.inbox = <<a>> PROVE Answered(k, m) /\ m.inbox[1].err = e
    BY <1>2, <2>4, <2>8 DEF Answered
  <2> HIDE DEF l, a
  <2>9. /\ c[t].flag = c[t].tls /\ (d[t].tls <=> d[t].session # 0 /\ model.ssl)
        /\ c[t].at \in Opening => c[t].sid # "set"
        /\ c[t].tls = d[t].tls /\ (c[t].sid = "set" <=> d[t].session # 0)
    BY <1>1, <1>2, <1>3, <2>2 DEF Level, Started
  <2>10. CASE c[t].at = "start" /\ e = "none"
    <3>1. /\ d'[t].session = Shown(t) /\ d'[t].tls = model.ssl /\ d'[t].inbox = <<a>>
      BY <2>5, <2>6, <2>7, <2>10 DEF Granted, Link
    <3>2. Shown(t) # 0
      BY <2>10 DEF Shown, Verdicts
    <3>3. c[t].tls = FALSE
      BY <1>1, <2>9, <2>10 DEF Opening, Client
    <3>4. QED
      BY <1>1, <1>2, <2>8, <2>9, <2>10, <3>1, <3>2, <3>3 DEF Level, Same, Started
  <2>11. CASE c[t].at = "stop"
    <3>1. d'[t].session = 0 /\ d'[t].tls = FALSE /\ d'[t].inbox = <<a>>
      <4>1. CASE e = "none"
        BY <2>5, <2>6, <2>7, <2>11, <4>1 DEF Granted, Link
      <4>2. CASE e # "none"
        <5>1. d[t].session = 0
          BY <2>11, <4>2 DEF Verdicts
        <5>2. d[t].tls = FALSE
          BY <1>1, <2>9, <5>1 DEF Link
        <5>3. QED  BY <2>5, <2>6, <4>2, <5>1, <5>2
      <4>3. QED  BY <4>1, <4>2
    <3>2. QED
      BY <1>1, <1>2, <2>8, <2>9, <2>11, <3>1 DEF Level, Same, Started, Opening, Early
  <2>12. CASE c[t].at = "goodbye"
    <3>1. e = "none" /\ d'[t].live = FALSE
      BY <2>5, <2>7, <2>12 DEF Verdicts, Granted, Link
    <3>2. QED  BY <1>4, <3>1
  <2>13. CASE c[t].at \notin {"stop", "goodbye"} /\ ~(c[t].at = "start" /\ e = "none")
    <3>1. d'[t] = l
      BY <2>5, <2>13 DEF Granted
    <3>2. ~Started(k, d'[t])
      BY <1>2, <2>6, <2>8, <2>13, <3>1 DEF Started
    <3>3. QED
      BY <1>1, <1>2, <1>3, <2>6, <2>8, <2>9, <2>13, <3>1, <3>2 DEF Level, Same
  <2>14. QED  BY <2>10, <2>11, <2>12, <2>13
<1>5. QED  BY <1>1, <1>3, <1>4, LevelLater

LEMMA ConnectAgrees ==
    ASSUME Inv, NEW t \in Thread, Agrees(t), Connect(t) PROVE Agrees(t)'
<1>1. /\ c[t] \in Client /\ c[t].at = "new" /\ model' = model
      /\ c \in [Thread -> Client] /\ d \in [Thread -> Link] /\ astray \in [Thread -> BOOLEAN]
  BY DEF Inv, TypeOK, Connect, world, Link
<1>2. /\ ~c[t].asked /\ c[t].sid = "NULL" /\ ~c[t].flag /\ ~c[t].tls /\ ~d[t].live
      /\ c[t].flag = FALSE /\ c[t].tls = FALSE
  BY <1>1 DEF Agrees, Fresh, Client
<1>3. /\ c'[t].at \in {"query", "idle"} /\ c'[t].asked = c[t].asked
      /\ c'[t].sid = c[t].sid /\ c'[t].flag = c[t].flag /\ c'[t].tls = c[t].tls
  BY <1>1 DEF Connect, Client
<1>4. CASE c'[t].at = "query"
  <2>1. d'[t] = [NoLink EXCEPT !.live = TRUE]
    BY <1>1, <1>4 DEF Connect, Client
  <2>2. d'[t].session = 0 /\ d'[t].tls = FALSE /\ d'[t].inbox = << >>
    BY <2>1 DEF NoLink
  <2>3. Level(c'[t], d'[t]) /\ Fresh(c'[t], d'[t])
    BY <1>2, <1>3, <1>4, <2>2 DEF Level, Started, Fresh, Opening, Early
  <2>4. QED  BY <1>1, <2>3, LevelLater
<1>5. CASE c'[t].at = "idle"
  <2>1. d' = d
    BY <1>1, <1>5 DEF Connect, Client
  <2>2. QED  BY <1>1, <1>2, <1>3, <1>5, <2>1, LevelLater DEF Fresh
<1>6. QED  BY <1>3, <1>4, <1>5

\* SSL begins on both sides, or the ends are out of step.
LEMMA EnableSslAgrees ==
    ASSUME Inv, NEW t \in Thread, Agrees(t), EnableSsl(t) PROVE Agrees(t)'
<1> DEFINE m == IF ~c[t].tls /\ store # 0 THEN Method ELSE "none"
           f == c[t].call = "handshake"
           i == [c[t] EXCEPT !.tried = m, !.tls = TRUE, !.flag = TRUE, !.ret = "SUCCESS"]
           j == [c[t] EXCEPT !.tried = m, !.flag = FALSE, !.ret = "SSL_ERROR", !.failed = f]
<1>1. /\ c[t] \in Client /\ d[t] \in Link /\ c[t].at = "ssl" /\ model' = model
      /\ m \in {"none", "v23", "v3"} /\ f \in BOOLEAN
  BY DEF Inv, TypeOK, EnableSsl, world, Link, Method
<1>2. \/ /\ c'[t] = Conclude(i) /\ d' = d /\ astray' = astray
         /\ d[t].tls /\ d[t].inbox = << >>
      \/ c'[t] = Conclude(j) /\ astray'[t] = TRUE
  BY <1>1 DEF EnableSsl, Inv, TypeOK, Client
<1> HIDE DEF m, f
<1>3. /\ i \in Client /\ i.sid = c[t].sid /\ i.flag = TRUE /\ i.tls = TRUE
      /\ i.at = "ssl" /\ i.ret = "SUCCESS"
  BY <1>1 DEF Client, Code
<1>4. j \in Client /\ j.at = "ssl"
  BY <1>1 DEF Client, Code
<1> HIDE DEF i, j
<1>5. CASE c'[t] = Conclude(j) /\ astray'[t] = TRUE
  <2>1. Onward(c'[t], j)
    BY <1>4, <1>5, ConcludeOnward
  <2>2. QED  BY <1>1, <1>5, <2>1, LevelLater DEF Onward, Fresh
<1>6. CASE /\ c'[t] = Conclude(i) /\ d' = d /\ astray' = astray
           /\ d[t].tls /\ d[t].inbox = << >>
  <2>1. Conclude(i) = Return(i) /\ Return(i).at = "ready" /\ Onward(c'[t], i)
    BY <1>3, <1>6, ConcludeOnward DEF Conclude, Return, Client
  <2>2. /\ c'[t].at = "ready" /\ ~c'[t].asked /\ c'[t].sid = c[t].sid
        /\ c'[t].flag = TRUE /\ c'[t].tls = TRUE
    BY <1>3, <1>6, <2>1 DEF Onward, Same
  <2>3. d[t].tls = TRUE
    BY <1>1, <1>6 DEF Link
  <2>4. ASSUME d[t].live, ~astray[t] PROVE Level(c'[t], d'[t])
    <3>1. c[t].sid = "set" /\ d[t].session # 0 /\ (d[t].tls <=> d[t].session # 0 /\ model.ssl)
      BY <1>1, <2>4 DEF Agrees, Level
    <3>2. ~Started(c'[t], d'[t])
      BY <2>2 DEF Started
    <3>3. QED  BY <1>6, <2>2, <2>3, <3>1, <3>2 DEF Level, Opening, Early
  <2>5. QED  BY <1>1, <1>6, <2>2, <2>4, LevelLater DEF Fresh
<1>7. QED  BY <1>2, <1>5, <1>6

\* So does a client that begins a call, unless it awaits an answer.
Begins(j, k) ==
    /\ Same(j, k) /\ (~k.asked => ~j.asked) /\ j.at \notin {"idle", "new", "ssl"}
    /\ j.at \in Opening => k.sid = "NULL"

LEMMA AtBegins ==
    ASSUME NEW k \in Client, NEW p \in {"service", "ask", "tell", "unpair"}
    PROVE  Begins([k EXCEPT !.at = p], k)
<1> DEFINE j == [k EXCEPT !.at = p]
<1>1. j.at = p /\ j.asked = k.asked /\ Same(j, k)
  BY DEF Client, Same
<1> HIDE DEF j
<1>2. Begins(j, k)
  BY <1>1 DEF Begins, Opening, Early
<1>3. QED  BY <1>2 DEF j

LEMMA StoppingBegins ==
    ASSUME NEW k \in Client, NEW p \in {"start", "stopservice", "ready"}
    PROVE  /\ k.sid = "NULL" => Begins([k EXCEPT !.at = p], k)
           /\ Begins([k EXCEPT !.at = "stop", !.then = p], k)
<1> DEFINE i == [k EXCEPT !.at = p]
           j == [k EXCEPT !.at = "stop", !.then = p]
<1>1. /\ i.at = p /\ i.asked = k.asked /\ Same(i, k)
      /\ j.at = "stop" /\ j.asked = k.asked /\ Same(j, k)
  BY DEF Client, Same
<1> HIDE DEF i, j
<1>2. (k.sid = "NULL" => Begins(i, k)) /\ Begins(j, k)
  BY <1>1 DEF Begins, Opening, Early
<1>3. QED  BY <1>2 DEF i, j

LEMMA ReturnBegins ==
    ASSUME NEW k \in Client PROVE Begins(Return(k), k) /\ Begins(Freeing(k), k)
<1>1. Return(k).at = "ready"
  BY DEF Return, Client
<1>2. Freeing(k).at \in {"stop", "goodbye"}
  BY DEF Freeing, Client
<1>3. QED  BY <1>1, <1>2, ReturnOnward, FreeingOnward DEF Onward, Begins, Opening, Early

LEMMA BegunBegins ==
    ASSUME Inv, NEW t \in Thread, c[t].calls < MaxCalls, NEW call \in Calls, call # "handshake"
    PROVE  Begins(Begun(t, call), c[t])
<1> DEFINE n == c[t].calls + 1
           k == [c[t] EXCEPT !.call = call, !.calls = n]
           h == [k EXCEPT !.host = store]
           r == [k EXCEPT !.rec = store]
           x == [k EXCEPT !.ret = "INVALID_CONF"]
           y == [k EXCEPT !.ret = "INVALID_ARG"]
<1>1. c[t] \in Client /\ store \in Host
  BY DEF Inv, TypeOK
<1>2. n \in 0..MaxCalls
  BY <1>1, LockdownAssumption DEF Client
<1>3. Begun(t, call) =
         LET noRecord == Return(x)
             Stopping(j, p) == IF j.sid = "NULL" THEN [j EXCEPT !.at = p]
                               ELSE [j EXCEPT !.at = "stop", !.then = p]
         IN  CASE call \in {"service", "ask", "tell"} -> [k EXCEPT !.at = call]
               [] call = "escrow" -> IF store = 0 THEN noRecord ELSE [k EXCEPT !.at = "service"]
               [] call = "unpair" -> IF store = 0 THEN noRecord
                                     ELSE [k EXCEPT !.at = "unpair", !.rec = store]
               [] call = "startsession" -> Stopping(h, "start")
               [] call = "stopservice" -> Stopping(k, "stopservice")
               [] call = "stopsession" ->
                     IF k.sid = "NULL" THEN Return(y) ELSE Stopping(k, "ready")
               [] call = "free" -> Freeing(k)
  BY <1>1 DEF Begun, Client
<1> HIDE DEF n
<1>4. k \in Client /\ Same(k, c[t]) /\ k.asked = c[t].asked
  BY <1>1, <1>2 DEF Client, Same
<1> HIDE DEF k
<1>5. /\ h \in Client /\ r \in Client /\ Same(h, k) /\ Same(r, k)
      /\ h.asked = k.asked /\ r.asked = k.asked
      /\ [k EXCEPT !.at = "unpair", !.rec = store] = [r EXCEPT !.at = "unpair"]
  BY <1>1, <1>4 DEF Client, Same
<1>6. /\ x \in Client /\ y \in Client /\ Same(x, k) /\ Same(y, k)
      /\ x.asked = k.asked /\ y.asked = k.asked
  BY <1>4 DEF Client, Code, Same
<1> HIDE DEF h, r, x, y
<1>7. \E j \in {k, h, r, x, y} : Begins(Begun(t, call), j)
  <2>1. CASE call \in {"service", "ask", "tell"}
    BY <1>3, <1>4, <2>1, AtBegins
  <2>2. CASE call = "escrow"
    BY <1>3, <1>4, <1>6, <2>2, AtBegins, ReturnBegins
  <2>3. CASE call = "unpair"
    <3>1. Begun(t, call) = IF store = 0 THEN Return(x) ELSE [r EXCEPT !.at = "unpair"]
      BY <1>3, <1>5, <2>3
    <3>2. Begins([r EXCEPT !.at = "unpair"], r) /\ Begins(Return(x), x)
      BY <1>5, <1>6, AtBegins, ReturnBegins
    <3>3. QED  BY <3>1, <3>2
  <2>4. CASE call = "startsession"
    <3>1. Begun(t, call) = IF h.sid = "NULL" THEN [h EXCEPT !.at = "start"]
                           ELSE [h EXCEPT !.at = "stop", !.then = "start"]
      BY <1>3, <2>4
    <3>2. /\ h.sid = "NULL" => Begins([h EXCEPT !.at = "start"], h)
          /\ Begins([h EXCEPT !.at = "stop", !.then = "start"], h)
      BY <1>5, StoppingBegins
    <3>3. QED  BY <3>1, <3>2
  <2>5. CASE call = "stopservice"
    BY <1>3, <1>4, <2>5, StoppingBegins
  <2>6. CASE call = "stopsession"
    BY <1>3, <1>4, <1>6, <2>6, ReturnBegins, StoppingBegins
  <2>7. CASE call = "free"
    BY <1>3, <1>4, <2>7, ReturnBegins
  <2>8. QED
    BY <2>1, <2>2, <2>3, <2>4, <2>5, <2>6, <2>7, LockdownAssumption
<1>8. QED  BY <1>4, <1>5, <1>6, <1>7 DEF Begins, Same

LEMMA CallAgrees ==
    ASSUME Inv, NEW t \in Thread, Agrees(t), NEW call \in Calls, Call(t, call) PROVE Agrees(t)'
<1>1. /\ c[t] \in Client /\ c \in [Thread -> Client] /\ model' = model
      /\ d' = d /\ astray' = astray
  BY DEF Inv, TypeOK, Call, world
<1>2. CASE call = "handshake"
  <2> DEFINE n == c[t].calls + 1
             k == [c[t] EXCEPT !.at = "new", !.call = call, !.calls = n, !.host = 0]
  <2>1. c[t].at = "idle" /\ c'[t] = k
    BY <1>1, <1>2 DEF Call
  <2>2. k.at = "new" /\ k.asked = c[t].asked /\ Same(k, c[t])
    BY <1>1 DEF Client, Same
  <2> HIDE DEF k
  <2>3. Fresh(c'[t], d'[t]) /\ ~d'[t].live
    BY <1>1, <2>1, <2>2 DEF Agrees, Fresh, Same
  <2>4. QED  BY <1>1, <2>3, LevelLater
<1>3. CASE call # "handshake"
  <2>1. c[t].at = "ready" /\ Begins(c'[t], c[t])
    BY <1>1, <1>3, BegunBegins DEF Call
  <2>2. Fresh(c'[t], d'[t])
    BY <2>1 DEF Begins, Fresh
  <2>3. ASSUME d[t].live, ~astray[t] PROVE Level(c'[t], d[t])
    <3>1. Level(c[t], d[t]) /\ ~c[t].asked /\ d[t].inbox = << >>
      BY <2>1, <2>3, Places DEF Agrees, Level
    <3>2. Onward(c'[t], c[t]) /\ ~Started(c[t], d[t])
      BY <2>1, <3>1 DEF Begins, Onward, Started
    <3>3. QED  BY <2>1, <3>1, <3>2, OnwardLevel
  <2>4. QED  BY <1>1, <2>2, <2>3, LevelLater
<1>4. QED  BY <1>2, <1>3

LEMMA DropAgrees ==
    ASSUME Inv, NEW t \in Thread, Agrees(t), Drop(t) PROVE Agrees(t)'
<1>1. d'[t].live = FALSE /\ c' = c /\ model' = model
  BY DEF Drop, Inv, TypeOK, world
<1>2. QED  BY <1>1, LevelLater DEF Agrees, Fresh

\* What another thread does is nothing to a client.
LEMMA OthersAgree ==
    ASSUME NEW u \in Thread, Agrees(u), model' = model, c'[u] = c[u], d'[u] = d[u],
           astray'[u] = astray[u]
    PROVE  Agrees(u)'
  BY DEF Agrees, Fresh, Level, Answered, Started

LEMMA AfterOther ==
    ASSUME Inv, NEW t \in Thread, NEW as, After(t, as), NEW u \in Thread, u # t
    PROVE  c'[u] = c[u] /\ model' = model
<1>1. c \in [Thread -> Client]
  BY DEF Inv, TypeOK
<1>2. QED
  BY <1>1 DEF After, AfterQuery, AfterVersion, AfterValidate, AfterKey, AfterWifi, AfterPair,
              AfterStop, AfterStart, AfterRequest, AfterTell, AfterUnpair, AfterStopService,
              AfterGoodbye, Quiet

LEMMA OtherSame ==
    ASSUME Inv, NEW t \in Thread, NEW u \in Thread, u # t,
           \/ Step(t) \/ ReceiveTimesOut(t) \/ Drop(t) \/ \E call \in Calls : Call(t, call)
    PROVE  /\ model' = model /\ c'[u] = c[u] /\ d'[u] = d[u] /\ astray'[u] = astray[u]
<1>1. c \in [Thread -> Client] /\ d \in [Thread -> Link] /\ astray \in [Thread -> BOOLEAN]
  BY DEF Inv, TypeOK, Link
<1>2. CASE Send(t)
  BY <1>1, <1>2 DEF Send
<1>3. ASSUME NEW as, NEW inbox, After(t, as), Rest(t, inbox),
             astray' = astray \/ astray' = [astray EXCEPT ![t] = TRUE]
      PROVE  model' = model /\ c'[u] = c[u] /\ d'[u] = d[u] /\ astray'[u] = astray[u]
  <2>1. d'[u] = d[u] /\ astray'[u] = astray[u]
    BY <1>1, <1>3 DEF Rest
  <2>2. QED  BY <1>3, <2>1, AfterOther
<1>4. CASE Receive(t)
  BY <1>3, <1>4 DEF Receive
<1>5. CASE RequestFails(t) \/ ReceiveTimesOut(t)
  BY <1>3, <1>5 DEF RequestFails, ReceiveTimesOut
<1>6. CASE Connect(t)
  BY <1>1, <1>6 DEF Connect, world
<1>7. CASE EnableSsl(t)
  BY <1>1, <1>7 DEF EnableSsl, world
<1>8. CASE Drop(t)
  BY <1>1, <1>8 DEF Drop, world
<1>9. CASE \E call \in Calls : Call(t, call)
  BY <1>1, <1>9 DEF Call, world
<1>10. QED  BY <1>2, <1>4, <1>5, <1>6, <1>7, <1>8, <1>9 DEF Step

LEMMA AgreedNext == Agreed /\ [Next]_vars => Agreed'
<1> SUFFICES ASSUME Agreed, [Next]_vars, NEW u \in Thread PROVE Agrees(u)'
  BY NextInv DEF Agreed
<1>1. Inv /\ Agrees(u)
  BY DEF Agreed
<1>2. ASSUME NEW t \in Thread,
             \/ Step(t) \/ ReceiveTimesOut(t) \/ Drop(t) \/ \E call \in Calls : Call(t, call)
      PROVE  Agrees(u)'
  <2>1. CASE t # u
    BY <1>1, <1>2, <2>1, OtherSame, OthersAgree
  <2>2. CASE t = u
    <3>1. CASE ReceiveTimesOut(u) \/ RequestFails(u)
      BY <1>1, <3>1, SilentAgrees DEF ReceiveTimesOut, RequestFails
    <3>2. QED
      BY <1>1, <1>2, <2>2, <3>1, SendAgrees, ReceiveAgrees, ConnectAgrees, EnableSslAgrees,
         DropAgrees, CallAgrees DEF Step
  <2>3. QED  BY <2>1, <2>2
<1>3. CASE Meddle
  BY <1>1, <1>3, OthersAgree DEF Meddle
<1>4. CASE UNCHANGED vars
  BY <1>1, <1>4, OthersAgree DEF vars, world
<1>5. QED  BY <1>2, <1>3, <1>4 DEF Next

LEMMA AgreedInit == Init => Agreed
<1> SUFFICES ASSUME Init, NEW t \in Thread PROVE Agrees(t)
  BY InitInv DEF Agreed
<1>1. c[t] = NoClient /\ d[t] = NoLink
  BY DEF Init
<1>2. QED  BY <1>1 DEF Agrees, Fresh, NoClient, NoLink

LEMMA EndsLevel == Spec => []Agreed
  BY AgreedInit, AgreedNext, PTL DEF Spec

\* Before each request of lockdown.c this side and the device have the same idea of
\* SSL and of the session, as long as no answer came late and SSL could begin: a
\* client that is level with the device stays so whatever it asks.
THEOREM EndsAgree == Spec => []InAgreement
<1>1. ASSUME Agreed PROVE InAgreement
  <2>1. ASSUME NEW t \in Thread, c[t].at \in DOMAIN Verb \cup {"ready"}, ~c[t].asked,
               d[t].live, ~astray[t]
        PROVE  /\ c[t].tls = d[t].tls /\ c[t].flag = c[t].tls
               /\ c[t].sid = "set" <=> d[t].session # 0
    <3>1. Level(c[t], d[t]) /\ c[t].at # "ssl"
      BY <1>1, <2>1, Places DEF Agreed, Agrees
    <3>2. QED  BY <2>1, <3>1 DEF Level, Started
  <2>2. QED  BY <2>1 DEF InAgreement
<1>2. QED  BY <1>1, EndsLevel, PTL

-----------------------------------------------------------------------------
(* The second method, for a process with one thread: the flag that asks for *)
(* it is the process's, and another thread may set it between the first     *)
(* failure of this one and its look at the flag.                            *)

\* A client whose SSL failed in a handshake is being freed, and the flag is not set
\* yet if it was the first method that failed; or it starts over; or it is gone.
FailingAt(k, f) ==
    k.failed =>
        \/ k.at = "new"
        \/ k.at = "idle" /\ k.tried # "v23"
        \/ /\ k.at \in {"stop", "goodbye"} /\ k.then = "goodbye" /\ k.call = "handshake"
           /\ k.tried = "v23" => ~f

Failing == Inv /\ \A t \in Thread : FailingAt(c[t], fallback)

LEMMA AfterFails ==
    ASSUME Inv, NEW t \in Thread, NEW as, After(t, as), FailingAt(c[t], fallback)
    PROVE  FailingAt(c'[t], fallback')
<1>1. c[t] \in Client /\ c \in [Thread -> Client]
  BY DEF Inv, TypeOK
<1>2. CASE c[t].at = "goodbye"
  <2>1. AfterGoodbye(t, as)
    BY <1>2, OnlyGoodbye
  <2> DEFINE again == c[t].call = "handshake" /\ c[t].failed /\ ~fallback
  <2>2. /\ c'[t].at = IF again THEN "new" ELSE "idle"
        /\ c'[t].failed = c[t].failed /\ c'[t].tried = c[t].tried
    BY <1>1, <2>1 DEF AfterGoodbye, Client
  <2>3. QED  BY <1>2, <2>2 DEF FailingAt
<1>3. CASE c[t].at = "stop"
  <2>1. AfterStop(t, as)
    BY <1>3 DEF After, AfterQuery, AfterVersion, AfterValidate, AfterKey, AfterWifi, AfterPair,
                AfterStart, AfterRequest, AfterTell, AfterUnpair, AfterStopService, AfterGoodbye
  <2>2. fallback' = fallback /\ c'[t].failed = c[t].failed
    BY <1>1, <2>1 DEF AfterStop, Quiet, Return, Client
  <2>3. CASE c[t].failed
    <3>1. c[t].then = "goodbye"
      BY <1>3, <2>3 DEF FailingAt
    <3>2. /\ c'[t].at = "goodbye" /\ c'[t].then = "goodbye"
          /\ c'[t].call = c[t].call /\ c'[t].tried = c[t].tried
      BY <1>1, <2>1, <3>1 DEF AfterStop, Client
    <3>3. QED  BY <1>3, <2>2, <3>2 DEF FailingAt
  <2>4. QED  BY <2>2, <2>3 DEF FailingAt
<1>4. CASE c[t].at \notin {"goodbye", "stop"}
  <2>1. c[t].at \in DOMAIN Verb /\ ~c[t].failed
    BY <1>4, Places DEF FailingAt, After, AfterQuery, AfterVersion, AfterValidate, AfterKey,
       AfterWifi, AfterPair, AfterStart, AfterStop, AfterRequest, AfterTell, AfterUnpair,
       AfterStopService, AfterGoodbye
  <2>2. c'[t].failed = c[t].failed
    <3>1. CASE c[t].at = "start"
      <4>1. AfterStart(t, as)
        BY <3>1 DEF After, AfterQuery, AfterVersion, AfterValidate, AfterKey, AfterWifi,
                    AfterPair, AfterStop, AfterRequest, AfterTell, AfterUnpair,
                    AfterStopService, AfterGoodbye
      <4>2. QED  BY <4>1, StartDoes
    <3>2. CASE c[t].at # "start"
      BY <1>4, <3>2, AfterOnward DEF Onward, Same
    <3>3. QED  BY <3>1, <3>2
  <2>3. QED  BY <2>1, <2>2 DEF FailingAt
<1>5. QED  BY <1>2, <1>3, <1>4

\* The failure of the first method in a handshake leaves the flag to be set.
LEMMA EnableSslFails ==
    ASSUME Inv, NEW t \in Thread, EnableSsl(t), FailingAt(c[t], fallback)
    PROVE  FailingAt(c'[t], fallback')
<1> DEFINE m == IF ~c[t].tls /\ store # 0 THEN Method ELSE "none"
           f == c[t].call = "handshake"
           i == [c[t] EXCEPT !.tried = m, !.tls = TRUE, !.flag = TRUE, !.ret = "SUCCESS"]
           j == [c[t] EXCEPT !.tried = m, !.flag = FALSE, !.ret = "SSL_ERROR", !.failed = f]
<1>1. /\ c[t] \in Client /\ c[t].at = "ssl" /\ ~c[t].failed /\ fallback' = fallback
      /\ m \in {"none", "v23", "v3"} /\ f \in BOOLEAN /\ (m = "v23" => ~fallback)
  BY DEF Inv, TypeOK, EnableSsl, FailingAt, Method
<1>2. c'[t] = Conclude(i) \/ c'[t] = Conclude(j)
  BY <1>1 DEF EnableSsl, Inv, TypeOK, Client
<1>3. f <=> c[t].call = "handshake"
  OBVIOUS
<1> HIDE DEF m, f
<1>4. i \in Client /\ i.failed = c[t].failed
  BY <1>1 DEF Client, Code
<1>5. j \in Client /\ j.failed = f /\ j.tried = m /\ j.call = c[t].call /\ j.ret = "SSL_ERROR"
  BY <1>1 DEF Client, Code
<1> HIDE DEF i, j
<1>6. CASE c'[t] = Conclude(i)
  BY <1>1, <1>4, <1>6, ConcludeOnward DEF Onward, Same, FailingAt
<1>7. CASE c'[t] = Conclude(j)
  <2>1. c'[t].failed = f
    BY <1>5, <1>7, ConcludeOnward DEF Onward, Same
  <2>2. CASE f
    <3>1. Conclude(j) = Freeing(j)
      BY <1>3, <1>5, <2>2 DEF Conclude
    <3>2. /\ Freeing(j).at \in {"stop", "goodbye"} /\ Freeing(j).then = "goodbye"
          /\ Freeing(j).call = j.call /\ Freeing(j).tried = j.tried
      BY <1>5 DEF Freeing, Client
    <3>3. QED  BY <1>1, <1>3, <1>5, <1>7, <2>2, <3>1, <3>2 DEF FailingAt
  <2>3. QED  BY <2>1, <2>2 DEF FailingAt
<1>8. QED  BY <1>2, <1>6, <1>7

LEMMA CallFails ==
    ASSUME Inv, NEW t \in Thread, NEW call \in Calls, Call(t, call), FailingAt(c[t], fallback)
    PROVE  FailingAt(c'[t], fallback')
<1>1. c[t] \in Client /\ c \in [Thread -> Client]
  BY DEF Inv, TypeOK
<1>2. CASE call = "handshake"
  <2>1. c'[t].at = "new"
    BY <1>1, <1>2 DEF Call, Client
  <2>2. QED  BY <2>1 DEF FailingAt
<1>3. CASE call # "handshake"
  <2>1. c[t].at = "ready" /\ Begins(c'[t], c[t])
    BY <1>1, <1>3, BegunBegins DEF Call
  <2>2. QED  BY <2>1 DEF Begins, Same, FailingAt
<1>4. QED  BY <1>2, <1>3

LEMMA FailingNext ==
    ASSUME \A t, u \in Thread : t = u PROVE Failing /\ [Next]_vars => Failing'
<1> SUFFICES ASSUME Failing, [Next]_vars, NEW u \in Thread PROVE FailingAt(c'[u], fallback')
  BY NextInv DEF Failing
<1>1. Inv /\ FailingAt(c[u], fallback) /\ c[u] \in Client /\ c \in [Thread -> Client]
  BY DEF Failing, Inv, TypeOK
<1>2. ASSUME NEW t \in Thread,
             \/ Step(t) \/ ReceiveTimesOut(t) \/ Drop(t) \/ \E call \in Calls : Call(t, call)
      PROVE  FailingAt(c'[u], fallback')
  <2>1. t = u
    OBVIOUS
  <2>2. CASE Send(u)
    <3> DEFINE k == [c[u] EXCEPT !.asked = TRUE]
    <3>1. /\ c'[u] = k /\ fallback' = fallback /\ k.at = c[u].at /\ k.failed = c[u].failed
          /\ k.then = c[u].then /\ k.call = c[u].call /\ k.tried = c[u].tried
      BY <1>1, <2>2 DEF Send, Client
    <3> HIDE DEF k
    <3>2. QED  BY <1>1, <3>1 DEF FailingAt
  <2>3. CASE Receive(u) \/ RequestFails(u) \/ ReceiveTimesOut(u)
    BY <1>1, <2>3, AfterFails DEF Receive, RequestFails, ReceiveTimesOut
  <2>4. CASE Connect(u)
    <3>1. c'[u].failed = FALSE
      BY <1>1, <2>4 DEF Connect, Client
    <3>2. QED  BY <3>1 DEF FailingAt
  <2>5. CASE EnableSsl(u)
    BY <1>1, <2>5, EnableSslFails
  <2>6. CASE Drop(u)
    BY <1>1, <2>6 DEF Drop, FailingAt
  <2>7. CASE \E call \in Calls : Call(u, call)
    BY <1>1, <2>7, CallFails
  <2>8. QED  BY <1>2, <2>1, <2>2, <2>3, <2>4, <2>5, <2>6, <2>7 DEF Step
<1>3. CASE Meddle
  BY <1>1, <1>3 DEF Meddle
<1>4. CASE UNCHANGED vars
  BY <1>1, <1>4 DEF vars
<1>5. QED  BY <1>2, <1>3, <1>4 DEF Next

\* A handshake of lockdownd_client_new_with_handshake that gives up because of SSL has
\* tried the fallback method, when no other thread of the process shares the flag.
THEOREM BothMethodsTried ==
    ASSUME \A t, u \in Thread : t = u PROVE Spec => []FallbackTried
<1>1. Init => Failing
  <2>1. ASSUME Init, NEW t \in Thread PROVE FailingAt(c[t], fallback)
    BY <2>1 DEF Init, NoClient, FailingAt
  <2>2. QED  BY <2>1, InitInv DEF Failing
<1>2. Failing => FallbackTried
  BY DEF Failing, FailingAt, FallbackTried
<1>3. QED  BY <1>1, <1>2, FailingNext, PTL DEF Spec
=============================================================================
