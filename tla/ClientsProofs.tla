---------------------------- MODULE ClientsProofs ----------------------------
(***************************************************************************)
(* What is proved of clients of services, in the specification of all.     *)
(***************************************************************************)
EXTENDS Services, SequenceTheorems, TLAPS

-----------------------------------------------------------------------------
(* Sequences of messages.                                                  *)

Has(type, s) == \E i \in 1..Len(s) : s[i].type = type

LEMMA Appended ==
    ASSUME NEW S, NEW s \in Seq(S), NEW x \in S
    PROVE  /\ Append(s, x) \in Seq(S) /\ Len(Append(s, x)) = Len(s) + 1
           /\ \A i \in 1..Len(s) : Append(s, x)[i] = s[i]
           /\ Append(s, x)[Len(s) + 1] = x
  BY AppendProperties

LEMMA AppendedItems ==
    ASSUME NEW S, NEW s \in Seq(S), NEW x \in S
    PROVE  \A i \in 1..Len(Append(s, x)) :
               Append(s, x)[i] = x \/ (i \in 1..Len(s) /\ Append(s, x)[i] = s[i])
  BY Appended, LenProperties

LEMMA FirstAppended == ASSUME NEW x PROVE Append(<< >>, x) = <<x>>
  OBVIOUS

LEMMA ToPairAppended ==
    ASSUME NEW S, NEW s \in Seq(S), NEW x \in S, Len(s) = 2
    PROVE  Append(s, x) = <<s[1], s[2], x>>
<1> DEFINE v == Append(s, x)
           u == <<s[1], s[2], x>>
<1>1. v \in Seq(S) /\ Len(v) = 3 /\ v[3] = x /\ v[1] = s[1] /\ v[2] = s[2]
  BY Appended
<1>2. s[1] \in S /\ s[2] \in S
  BY ElementOfSeq
<1>3. u \in Seq(S) /\ Len(u) = 3 /\ u[3] = x /\ u[1] = s[1] /\ u[2] = s[2]
  BY <1>2
<1> HIDE DEF v, u
<1>4. \A i \in 1..Len(v) : v[i] = u[i]
  BY <1>1, <1>3
<1>5. v = u
  BY <1>1, <1>3, <1>4, SeqEqual
<1>6. QED  BY <1>5 DEF u, v

LEMMA ThirdAppended ==
    ASSUME NEW a, NEW b, NEW c PROVE Append(<<a, b>>, c) = <<a, b, c>>
<1> DEFINE S == {a, b, c}
           s == <<a, b>>
<1>1. c \in S /\ s \in Seq(S) /\ Len(s) = 2 /\ s[1] = a /\ s[2] = b
  OBVIOUS
<1> HIDE DEF S, s
<1>2. Append(s, c) = <<s[1], s[2], c>>
  BY <1>1, ToPairAppended
<1>3. QED  BY <1>1, <1>2 DEF s

LEMMA Rest ==
    ASSUME NEW S, NEW s \in Seq(S), s # << >>
    PROVE  /\ Head(s) \in S /\ Head(s) = s[1] /\ Tail(s) \in Seq(S)
           /\ Len(Tail(s)) = Len(s) - 1 /\ Len(s) \in Nat \ {0}
           /\ \A i \in 1..(Len(s) - 1) : Tail(s)[i] = s[i + 1]
  BY HeadTailProperties, ElementOfSeq, EmptySeq

LEMMA HeadJoined ==
    ASSUME NEW S, NEW s \in Seq(S), s # << >>, NEW r \in Seq(S)
    PROVE  s \o r # << >> /\ Head(s \o r) = Head(s)
<1> DEFINE j == s \o r
<1>1. /\ j \in Seq(S) /\ Len(j) = Len(s) + Len(r) /\ Len(s) \in Nat \ {0} /\ Len(r) \in Nat
      /\ j[1] = s[1]
  BY Rest, ConcatProperties, LenProperties
<1>2. Len(j) # 0 /\ Len(<< >>) = 0
  BY <1>1
<1>3. QED  BY <1>1, <1>2, Rest

LEMMA HeadCut ==
    ASSUME NEW S, NEW s \in Seq(S), NEW k \in 0..Len(s), SubSeq(s, 1, k) # << >>
    PROVE  s # << >> /\ Head(SubSeq(s, 1, k)) = Head(s)
<1>1. k \in Int /\ Len(s) \in Nat /\ \A i \in 1..k : s[i] \in S
  BY LenProperties, ElementOfSeq
<1> DEFINE r == SubSeq(s, 1, k)
<1>2. r \in Seq(S) /\ Len(r) = k /\ \A i \in 1..k : r[i] = s[i]
  BY <1>1, SubSeqProperties
<1>3. Head(r) = r[1] /\ Len(r) # 0
  BY <1>2, Rest
<1>4. Len(s) # 0 /\ Len(<< >>) = 0
  BY <1>1, <1>2, <1>3
<1>5. QED  BY <1>2, <1>3, <1>4, Rest

LEMMA HasAppended ==
    ASSUME NEW S, NEW s \in Seq(S), NEW x \in S, NEW type
    PROVE  Has(type, Append(s, x)) <=> Has(type, s) \/ x.type = type
<1>1. Has(type, Append(s, x)) => Has(type, s) \/ x.type = type
  BY Appended DEF Has
<1>2. Has(type, s) \/ x.type = type => Has(type, Append(s, x))
  BY Appended DEF Has
<1>3. QED  BY <1>1, <1>2

LEMMA HasRest ==
    ASSUME NEW S, NEW s \in Seq(S), s # << >>, NEW type
    PROVE  Has(type, s) <=> s[1].type = type \/ Has(type, Tail(s))
<1>1. Has(type, s) => s[1].type = type \/ Has(type, Tail(s))
  <2> SUFFICES ASSUME NEW i \in 1..Len(s), s[i].type = type, i # 1 PROVE Has(type, Tail(s))
    BY DEF Has
  <2>1. i - 1 \in 1..Len(Tail(s)) /\ Tail(s)[i - 1] = s[i]
    BY Rest
  <2>2. QED  BY <2>1 DEF Has
<1>2. Has(type, Tail(s)) => Has(type, s)
  BY Rest DEF Has
<1>3. s[1].type = type => Has(type, s)
  BY Rest DEF Has
<1>4. QED  BY <1>1, <1>2, <1>3

LEMMA HasNone == ASSUME NEW type PROVE ~Has(type, << >>)
  BY DEF Has

LEMMA HasOne == ASSUME NEW type, NEW x PROVE Has(type, <<x>>) <=> x.type = type
  BY DEF Has

-----------------------------------------------------------------------------
(* MobileSync.                                                             *)

SyncMessage == [type : Sync!Type, session : 0..MaxSessions]

\* The device sends no changes any more.
Turned(d) == d.session = 0 \/ d.phase = "receiving"

\* While each session began and ended with nothing unread all there is to read is of the
\* session: what starts it is alone, and so is what ends it.
Unmixed(k, d) ==
    /\ \A i \in 1..Len(d.inbox) : d.inbox[i].session = k.session
    /\ d.session \in {0, k.session}
    /\ Has("Ready", d.stream) \/ k.direction = "COMPUTER_TO_DEVICE" => Turned(d)
    /\ Has("Start", d.inbox) =>
           k.awaits = "start" /\ Len(d.inbox) = 1 /\ d.stream = << >> /\ d.session = 0
    /\ k.awaits = "start" => d.inbox = << >> \/ Has("Start", d.inbox)
    /\ k.awaits = "finish" =>
           d.session = 0 \/ (d.stream = << >> /\ Len(d.inbox) = 1 /\ Has("Finish", d.inbox))
    /\ k.data_class \/ k.awaits = "start" \/ d.session = 0 \/ Has("Cancel", d.inbox)

InSession(k, d) ==
    /\ k.link \in {"new", "ready"} =>
           d.session = 0 /\ k.session = 0 /\ k.awaits = "none" /\ ~k.data_class /\ k.clean
    /\ ~k.data_class => k.direction = "DEVICE_TO_COMPUTER" /\ k.awaits \in {"none", "start"}
    /\ k.awaits = "start" => ~k.data_class
    /\ ~d.up => d.session = 0
    /\ k.clean => Unmixed(k, d)

SyncInv == Sync!TypeOK /\ InSession(sync, syncd)

LEMMA SyncBounds == {MaxSessions, MaxTalk, MaxLapses} \subseteq Nat
  BY ComponentsAssumption DEF ComponentsAssumption, Sync!SyncAssumption

LEMMA SyncTyped ==
    ASSUME Sync!TypeOK
    PROVE  /\ syncd.stream \in Seq(SyncMessage) /\ syncd.inbox \in Seq(SyncMessage)
           /\ syncd.session \in 0..MaxSessions /\ sync.session \in 0..MaxSessions
           /\ sync.clean \in BOOLEAN /\ sync.data_class \in BOOLEAN /\ syncd.up \in BOOLEAN
  BY DEF Sync!TypeOK, SyncMessage

LEMMA SyncInitInv == Sync!Init => SyncInv
<1> SUFFICES ASSUME Sync!Init PROVE SyncInv
  OBVIOUS
<1>1. PICK v \in {"VersionExchange", "NewerVersion"} :
          syncd = [up |-> TRUE, session |-> 0, phase |-> "idle", inbox |-> << >>,
                   stream |-> <<[type |-> v, session |-> 0]>>]
  BY DEF Sync!Init, Sync!Says
<1>2. [type |-> v, session |-> 0] \in SyncMessage /\ 0 \in 0..MaxTalk /\ 0 \in 0..MaxLapses
  BY SyncBounds DEF SyncMessage, Sync!Type
<1>3. Sync!TypeOK
  BY <1>1, <1>2 DEF Sync!Init, Sync!TypeOK, SyncMessage
<1>4. ~Has("Ready", syncd.stream) /\ ~Has("Start", syncd.inbox)
  BY <1>1, HasNone, HasOne
<1>5. QED  BY <1>1, <1>3, <1>4 DEF Sync!Init, SyncInv, InSession, Unmixed

\* What the client says comes after what it said.
LEMMA SentDoes ==
    ASSUME SyncInv, NEW type \in Sync!Type, Sync!Sent(type)
    PROVE  /\ syncd'.up = syncd.up /\ syncd'.session = syncd.session
           /\ syncd'.phase = syncd.phase /\ syncd'.stream = syncd.stream
           /\ syncd'.inbox \in Seq(SyncMessage)
           /\ syncd' \in [up : BOOLEAN, session : 0..MaxSessions,
                          phase : {"idle", "sending", "receiving"},
                          inbox : Seq(SyncMessage), stream : Seq(SyncMessage)]
           /\ ~syncd.up => syncd' = syncd
           /\ syncd.up => /\ Len(syncd'.inbox) = Len(syncd.inbox) + 1
                          /\ \A t : Has(t, syncd'.inbox) <=> Has(t, syncd.inbox) \/ t = type
                          /\ (\A i \in 1..Len(syncd.inbox) : syncd.inbox[i].session = sync.session)
                             => \A i \in 1..Len(syncd'.inbox) :
                                    syncd'.inbox[i].session = sync.session
<1> DEFINE m == [type |-> type, session |-> sync.session]
           s == Append(syncd.inbox, m)
<1>1. /\ Sync!TypeOK /\ syncd.inbox \in Seq(SyncMessage) /\ sync.session \in 0..MaxSessions
  BY SyncTyped DEF SyncInv
<1>2. m \in SyncMessage /\ m.type = type /\ m.session = sync.session
  BY <1>1 DEF SyncMessage
<1>3. syncd' = IF syncd.up THEN [syncd EXCEPT !.inbox = s] ELSE syncd
  BY DEF Sync!Sent, Sync!Says
<1> HIDE DEF m
<1>4. /\ s \in Seq(SyncMessage) /\ Len(s) = Len(syncd.inbox) + 1 /\ s[Len(syncd.inbox) + 1] = m
      /\ \A i \in 1..Len(syncd.inbox) : s[i] = syncd.inbox[i]
  BY <1>1, <1>2, Appended
<1>5. \A t : Has(t, s) <=> Has(t, syncd.inbox) \/ t = type
  BY <1>1, <1>2, HasAppended
<1>6. (\A i \in 1..Len(syncd.inbox) : syncd.inbox[i].session = sync.session)
      => \A i \in 1..Len(s) : s[i].session = sync.session
  BY <1>2, <1>4
<1> HIDE DEF s
<1>7. CASE syncd.up
  BY <1>1, <1>3, <1>4, <1>5, <1>6, <1>7 DEF Sync!TypeOK, SyncMessage
<1>8. CASE ~syncd.up
  BY <1>1, <1>3, <1>8 DEF Sync!TypeOK, SyncMessage
<1>9. QED  BY <1>7, <1>8

\* A client that awaits nothing and says what does not begin a session.
LEMMA SpeakInv ==
    ASSUME SyncInv, Sync!Ready, NEW type \in Sync!Type, type # "Start", Sync!Sent(type),
           sync' \in [link : {"new", "ready", "open", "freed"}, data_class : BOOLEAN,
                 direction : {"DEVICE_TO_COMPUTER", "COMPUTER_TO_DEVICE"},
                 awaits : {"none", "start", "finish", "clear", "changes", "ready", "remap"},
                 session : 0..MaxSessions, talk : 0..MaxTalk, lapses : 0..MaxLapses,
                 clean : BOOLEAN],
           sync'.link \in {"open", "freed"}, sync'.session = sync.session,
           sync'.awaits \notin {"start", "finish"}, sync'.clean = sync.clean,
           \/ sync'.data_class = sync.data_class /\ sync'.direction = sync.direction
           \/ type = "Cancel" /\ sync'.direction = "DEVICE_TO_COMPUTER",
           sync'.data_class \/ sync'.awaits = "none"
    PROVE  SyncInv'
<1>1. Sync!TypeOK'
  BY SentDoes DEF Sync!TypeOK, SyncMessage
<1>2. ASSUME sync.clean PROVE Unmixed(sync', syncd')
  <2>1. Unmixed(sync, syncd) /\ ~Has("Start", syncd.inbox) /\ sync.awaits = "none"
    BY <1>2 DEF SyncInv, InSession, Unmixed, Sync!Ready
  <2>2. CASE syncd.up
    BY <2>1, <2>2, SentDoes DEF Unmixed, Turned, SyncInv, InSession
  <2>3. CASE ~syncd.up
    BY <2>1, <2>3, SentDoes DEF Unmixed, Turned, SyncInv, InSession
  <2>4. QED  BY <2>2, <2>3
<1>3. QED  BY <1>1, <1>2, SentDoes DEF SyncInv, InSession, Sync!Ready

LEMMA TalkInv ==
    ASSUME SyncInv, Sync!Clear \/ Sync!Tell \/ Sync!SendChanges \/ Sync!Cancel \/ Sync!Free
    PROVE  SyncInv'
<1>1. Sync!TypeOK /\ Sync!Ready /\ (sync.data_class \/ Sync!Free)
  BY DEF SyncInv, Sync!Clear, Sync!Tell, Sync!SendChanges, Sync!Cancel, Sync!Free
<1>2. {"Clear", "Get", "Acknowledge", "Changes", "Cancel", "Disconnect"} \subseteq Sync!Type
  BY DEF Sync!Type
<1> DEFINE n == sync.talk + 1
<1>3. sync.talk < MaxTalk => n \in 0..MaxTalk
  BY <1>1, SyncBounds DEF Sync!TypeOK
<1>4. CASE Sync!Clear
  <2>1. sync.talk < MaxTalk /\ sync' = [sync EXCEPT !.awaits = "clear", !.talk = n]
    BY <1>1, <1>4 DEF Sync!Clear, Sync!Talks, Sync!TypeOK
  <2> HIDE DEF n
  <2>2. QED  BY <1>1, <1>2, <1>4, <1>3, <2>1, SpeakInv DEF Sync!Clear, Sync!Ready, Sync!TypeOK
<1>5. CASE Sync!Tell
  <2>1. sync.talk < MaxTalk /\ sync' = [sync EXCEPT !.talk = n]
    BY <1>1, <1>5 DEF Sync!Tell, Sync!Talks
  <2> HIDE DEF n
  <2>2. QED  BY <1>1, <1>2, <1>5, <1>3, <2>1, SpeakInv DEF Sync!Tell, Sync!Ready, Sync!TypeOK
<1>6. CASE Sync!SendChanges
  <2>1. sync.talk < MaxTalk /\ sync' = [sync EXCEPT !.talk = n]
    BY <1>1, <1>6 DEF Sync!SendChanges, Sync!Talks
  <2> HIDE DEF n
  <2>2. QED
    BY <1>1, <1>2, <1>6, <1>3, <2>1, SpeakInv DEF Sync!SendChanges, Sync!Ready, Sync!TypeOK
<1>7. CASE Sync!Cancel
  BY <1>1, <1>2, <1>7, SpeakInv DEF Sync!Cancel, Sync!Ended, Sync!Ready, Sync!TypeOK
<1>8. CASE Sync!Free
  BY <1>1, <1>2, <1>8, SpeakInv DEF Sync!Free, Sync!Fails, Sync!Ready, Sync!TypeOK
<1>9. QED  BY <1>4, <1>5, <1>6, <1>7, <1>8

LEMMA FinishInv == ASSUME SyncInv, Sync!Finish PROVE SyncInv'
<1>1. /\ Sync!TypeOK /\ Sync!Ready /\ sync.data_class /\ Sync!Sent("Finish")
      /\ "Finish" \in Sync!Type
      /\ sync' = [sync EXCEPT !.awaits = "finish", !.clean = @ /\ Sync!Quiet]
  BY DEF SyncInv, Sync!Finish, Sync!Type
<1>2. Sync!TypeOK'
  BY <1>1, SentDoes DEF Sync!TypeOK, SyncMessage
<1>3. /\ sync'.link = "open" /\ sync'.awaits = "finish" /\ sync'.session = sync.session
      /\ sync'.data_class = sync.data_class /\ sync'.direction = sync.direction
      /\ sync'.clean => sync.clean /\ syncd.stream = << >> /\ syncd.inbox = << >>
  BY <1>1 DEF Sync!TypeOK, Sync!Ready, Sync!Quiet
<1>4. ASSUME sync'.clean PROVE Unmixed(sync', syncd')
  <2>1. Unmixed(sync, syncd) /\ syncd.inbox = << >> /\ syncd.stream = << >> /\ Len(<< >>) = 0
    BY <1>3, <1>4 DEF SyncInv, InSession
  <2>2. CASE syncd.up
    <3>1. \A i \in 1..Len(syncd.inbox) : syncd.inbox[i].session = sync.session
      BY <2>1 DEF Unmixed
    <3>2. Len(syncd.inbox) = 0 /\ \A t : ~Has(t, syncd.inbox)
      BY <2>1, HasNone
    <3>3. /\ syncd'.session = syncd.session /\ syncd'.phase = syncd.phase
          /\ syncd'.stream = << >> /\ Len(syncd'.inbox) = Len(syncd.inbox) + 1
          /\ \A i \in 1..Len(syncd'.inbox) : syncd'.inbox[i].session = sync.session
          /\ \A t : Has(t, syncd'.inbox) <=> Has(t, syncd.inbox) \/ t = "Finish"
      BY <1>1, <2>1, <2>2, <3>1, SentDoes
    <3>4. /\ syncd'.session = syncd.session /\ syncd'.phase = syncd.phase
          /\ syncd'.stream = << >> /\ Len(syncd'.inbox) = 1
          /\ \A i \in 1..Len(syncd'.inbox) : syncd'.inbox[i].session = sync.session
          /\ Has("Finish", syncd'.inbox) /\ ~Has("Start", syncd'.inbox)
      BY <3>2, <3>3
    <3>5. ~Has("Ready", << >>) /\ sync.awaits = "none"
      BY <1>1, HasNone DEF Sync!Ready
    <3>6. QED  BY <1>1, <1>3, <2>1, <3>4, <3>5 DEF Unmixed, Turned
  <2>3. CASE ~syncd.up
    BY <1>1, <1>3, <2>1, <2>3, SentDoes, HasNone DEF Unmixed, Turned, SyncInv, InSession
  <2>4. QED  BY <2>2, <2>3
<1>5. QED  BY <1>1, <1>2, <1>3, <1>4, SentDoes DEF SyncInv, InSession

LEMMA StartInv == ASSUME SyncInv, Sync!Start PROVE SyncInv'
<1> DEFINE n == sync.session + 1
           m == [type |-> "Start", session |-> n]
           s == Append(syncd.inbox, m)
           q == sync.clean /\ Sync!Quiet
<1>1. /\ Sync!TypeOK /\ Sync!Ready /\ ~sync.data_class /\ n \in 0..MaxSessions /\ n # 0
      /\ sync' = [sync EXCEPT !.awaits = "start", !.session = n, !.clean = q]
      /\ syncd' = IF syncd.up THEN [syncd EXCEPT !.inbox = s] ELSE syncd
  BY SyncBounds DEF SyncInv, Sync!Start, Sync!TypeOK, Sync!Says
<1>2. m \in SyncMessage /\ m.type = "Start" /\ m.session = n
  BY <1>1 DEF SyncMessage, Sync!Type
<1> HIDE DEF m, n
<1>3. s \in Seq(SyncMessage) /\ (syncd.inbox = << >> => s = <<m>>)
  BY <1>1, <1>2, SyncTyped, Appended, FirstAppended
<1> HIDE DEF s
<1>4. Sync!TypeOK'
  BY <1>1, <1>3 DEF Sync!TypeOK, SyncMessage
<1>5. /\ sync'.link = "open" /\ sync'.awaits = "start" /\ sync'.session = n
      /\ sync'.data_class = sync.data_class /\ sync'.direction = sync.direction
      /\ sync'.clean = q
  BY <1>1 DEF Sync!TypeOK, Sync!Ready
<1>6. /\ syncd'.session = syncd.session /\ syncd'.stream = syncd.stream /\ syncd'.up = syncd.up
      /\ syncd'.inbox = IF syncd.up THEN s ELSE syncd.inbox
  BY <1>1 DEF Sync!TypeOK
<1>7. ASSUME sync'.clean PROVE Unmixed(sync', syncd')
  <2>1. /\ Unmixed(sync, syncd) /\ syncd.inbox = << >> /\ syncd.stream = << >>
        /\ sync.awaits = "none" /\ sync.direction = "DEVICE_TO_COMPUTER"
    BY <1>1, <1>5, <1>7 DEF SyncInv, InSession, Sync!Ready, Sync!Quiet
  <2>2. syncd.session = 0 /\ ~Has("Ready", syncd.stream)
    BY <1>1, <2>1, HasNone DEF Unmixed
  <2>3. CASE syncd.up
    <3>1. syncd'.inbox = <<m>>
      BY <1>3, <1>6, <2>1, <2>3
    <3>2. Has("Start", <<m>>) /\ Len(<<m>>) = 1 /\ <<m>>[1] = m
      BY <1>2, HasOne
    <3>3. QED  BY <1>2, <1>5, <1>6, <2>1, <2>2, <3>1, <3>2 DEF Unmixed, Turned
  <2>4. CASE ~syncd.up
    BY <1>5, <1>6, <2>1, <2>2, <2>4, HasNone DEF Unmixed, Turned
  <2>5. QED  BY <2>3, <2>4
<1>8. QED  BY <1>1, <1>4, <1>5, <1>6, <1>7 DEF SyncInv, InSession

LEMMA AwaitInv == ASSUME SyncInv, Sync!Await PROVE SyncInv'
<1>1. PICK call \in {"changes", "ready", "remap"} : sync' = [sync EXCEPT !.awaits = call]
  BY DEF Sync!Await
<1>2. /\ Sync!TypeOK /\ sync.link = "open" /\ sync.awaits = "none" /\ sync.data_class
      /\ syncd' = syncd
  BY DEF SyncInv, Sync!Await, Sync!Ready
<1>3. /\ Sync!TypeOK' /\ sync'.link = "open" /\ sync'.awaits = call
      /\ sync'.session = sync.session /\ sync'.data_class = sync.data_class
      /\ sync'.direction = sync.direction /\ sync'.clean = sync.clean
  BY <1>1, <1>2 DEF Sync!TypeOK
<1>4. QED  BY <1>1, <1>2, <1>3 DEF SyncInv, InSession, Unmixed, Turned

\* A message of the device is taken from the stream.
LEMMA TakenDoes ==
    ASSUME Sync!TypeOK, syncd.stream # << >>, Sync!Taken
    PROVE  /\ syncd'.up = syncd.up /\ syncd'.session = syncd.session
           /\ syncd'.phase = syncd.phase /\ syncd'.inbox = syncd.inbox
           /\ syncd'.stream = Tail(syncd.stream) /\ syncd'.stream \in Seq(SyncMessage)
           /\ syncd' \in [up : BOOLEAN, session : 0..MaxSessions,
                          phase : {"idle", "sending", "receiving"},
                          inbox : Seq(SyncMessage), stream : Seq(SyncMessage)]
           /\ Has("Ready", syncd'.stream) => Has("Ready", syncd.stream)
           /\ Sync!Heard = "Ready" => Has("Ready", syncd.stream)
<1> DEFINE s == Tail(syncd.stream)
<1>1. s \in Seq(SyncMessage) /\ syncd.stream \in Seq(SyncMessage)
      /\ Head(syncd.stream) = syncd.stream[1]
  BY SyncTyped, Rest
<1>2. /\ Has("Ready", s) => Has("Ready", syncd.stream)
      /\ syncd.stream[1].type = "Ready" => Has("Ready", syncd.stream)
  BY <1>1, HasRest
<1>3. syncd' = [syncd EXCEPT !.stream = s]
  BY DEF Sync!Taken
<1> HIDE DEF s
<1>4. QED  BY <1>1, <1>2, <1>3 DEF Sync!TypeOK, SyncMessage, Sync!Heard, s

LEMMA VersionInv == ASSUME SyncInv, Sync!ReceiveVersion \/ Sync!ReceiveReady PROVE SyncInv'
<1>1. /\ Sync!TypeOK /\ sync.link \in {"new", "ready"} /\ syncd.session = 0
      /\ sync.session = 0 /\ sync.awaits = "none" /\ ~sync.data_class
      /\ sync.direction = "DEVICE_TO_COMPUTER"
  BY DEF SyncInv, InSession, Sync!ReceiveVersion, Sync!ReceiveReady
<1>2. \E l \in {"new", "ready", "open", "freed"} : sync' = [sync EXCEPT !.link = l]
  BY DEF Sync!ReceiveVersion, Sync!ReceiveReady, Sync!Fails
<1>3. /\ sync' \in [link : {"new", "ready", "open", "freed"}, data_class : BOOLEAN,
                 direction : {"DEVICE_TO_COMPUTER", "COMPUTER_TO_DEVICE"},
                 awaits : {"none", "start", "finish", "clear", "changes", "ready", "remap"},
                 session : 0..MaxSessions, talk : 0..MaxTalk, lapses : 0..MaxLapses,
                 clean : BOOLEAN]
      /\ sync'.session = 0 /\ sync'.awaits = "none" /\ ~sync'.data_class
      /\ sync'.direction = "DEVICE_TO_COMPUTER" /\ sync'.clean = sync.clean
  BY <1>1, <1>2 DEF Sync!TypeOK
<1>4. CASE syncd.stream # << >> /\ Sync!Taken
  <2>1. Sync!TypeOK'
    BY <1>1, <1>3, <1>4, TakenDoes DEF Sync!TypeOK, SyncMessage
  <2>2. QED  BY <1>1, <1>3, <1>4, <2>1, TakenDoes DEF SyncInv, InSession, Unmixed, Turned
<1>5. CASE syncd' = syncd
  BY <1>1, <1>3, <1>5 DEF Sync!TypeOK, SyncInv, InSession, Unmixed, Turned
<1>6. CASE /\ syncd.stream # << >>
           /\ syncd' = [syncd EXCEPT !.stream = Tail(@),
                         !.inbox = IF syncd.up THEN <<Sync!Says("VersionsOk", 0)>> ELSE @]
  <2> DEFINE m == [type |-> "VersionsOk", session |-> 0]
             i == IF syncd.up THEN <<m>> ELSE syncd.inbox
             s == Tail(syncd.stream)
  <2>1. m \in SyncMessage /\ m.type = "VersionsOk" /\ m.session = 0
    BY <1>1 DEF Sync!TypeOK, SyncMessage, Sync!Type
  <2>2. syncd' = [syncd EXCEPT !.stream = s, !.inbox = i]
    BY <1>6 DEF Sync!Says
  <2> HIDE DEF m
  <2>3. s \in Seq(SyncMessage) /\ i \in Seq(SyncMessage)
    BY <1>1, <1>6, <2>1, SyncTyped, Rest
  <2>4. Unmixed(sync, syncd) => /\ ~Has("Start", i)
                                /\ \A j \in 1..Len(i) : i[j].session = 0
    BY <1>1, <2>1, HasOne DEF Unmixed
  <2> HIDE DEF s, i
  <2>5. /\ Sync!TypeOK' /\ syncd'.session = 0 /\ syncd'.up = syncd.up /\ syncd'.inbox = i
        /\ syncd'.stream = s
    BY <1>1, <1>3, <2>2, <2>3 DEF Sync!TypeOK, SyncMessage
  <2>6. QED  BY <1>1, <1>3, <2>4, <2>5 DEF SyncInv, InSession, Unmixed, Turned
<1>7. QED
  BY <1>4, <1>5, <1>6 DEF Sync!ReceiveVersion, Sync!ReceiveReady

\* Whatever answers a call, and whatever it makes the client believe.
LEMMA ReceiveInv == ASSUME SyncInv, Sync!Receive PROVE SyncInv'
<1> DEFINE turns == [Sync!Returned EXCEPT !.direction = "COMPUTER_TO_DEVICE"]
<1>1. /\ Sync!TypeOK /\ sync.awaits # "none" /\ syncd.stream # << >> /\ Sync!Taken
      /\ sync.link \in {"open", "freed"}
  BY DEF SyncInv, InSession, Sync!Receive, Sync!TypeOK
<1>2. CASE sync.awaits = "ready" /\ Sync!Heard = "Ready" /\ sync' = turns
  <2>1. sync' = [sync EXCEPT !.awaits = "none", !.direction = "COMPUTER_TO_DEVICE"]
    BY <1>1, <1>2 DEF Sync!Returned, Sync!TypeOK
  <2>2. /\ Sync!TypeOK' /\ sync'.link = sync.link /\ sync'.awaits = "none"
        /\ sync'.session = sync.session /\ sync'.data_class = sync.data_class
        /\ sync'.clean = sync.clean
    BY <1>1, <2>1, TakenDoes DEF Sync!TypeOK, SyncMessage
  <2>3. sync.data_class
    BY <1>2 DEF SyncInv, InSession
  <2>4. ASSUME sync.clean PROVE Unmixed(sync', syncd')
    <3>1. Unmixed(sync, syncd) /\ Turned(syncd)
      BY <1>1, <1>2, <2>4, TakenDoes DEF SyncInv, InSession, Unmixed
    <3>2. ~Has("Start", syncd.inbox)
      BY <1>2, <3>1 DEF Unmixed
    <3>3. QED  BY <1>1, <2>2, <2>3, <3>1, <3>2, TakenDoes DEF Unmixed, Turned
  <2>5. QED  BY <1>1, <2>2, <2>3, <2>4, TakenDoes DEF SyncInv, InSession
<1>3. CASE sync' = Sync!Returned
  <2>1. /\ Sync!TypeOK' /\ sync'.link = sync.link /\ sync'.awaits = "none"
        /\ sync'.session = sync.session /\ sync'.clean = sync.clean
        /\ sync'.data_class =
              (IF sync.awaits = "start" THEN TRUE
               ELSE IF sync.awaits = "finish" THEN FALSE ELSE sync.data_class)
        /\ sync'.direction = IF sync.awaits \in {"start", "finish"} THEN "DEVICE_TO_COMPUTER"
                             ELSE sync.direction
    BY <1>1, <1>3, TakenDoes DEF Sync!TypeOK, SyncMessage, Sync!Returned, Sync!Ended
  <2>2. sync.awaits \notin {"start", "finish"} => sync.data_class
    BY <1>1 DEF SyncInv, InSession
  <2>3. ASSUME sync.clean PROVE Unmixed(sync', syncd')
    <3>1. Unmixed(sync, syncd) /\ ~Has("Start", syncd.inbox)
      BY <1>1, <2>3 DEF SyncInv, InSession, Unmixed
    <3>2. sync.awaits = "finish" => syncd.session = 0
      BY <1>1, <3>1 DEF Unmixed
    <3>3. QED  BY <1>1, <2>1, <2>2, <3>1, <3>2, TakenDoes DEF Unmixed, Turned
  <2>4. QED  BY <1>1, <2>1, <2>2, <2>3, TakenDoes DEF SyncInv, InSession
<1>4. QED  BY <1>2, <1>3 DEF Sync!Receive

LEMMA ReceiveNothingInv == ASSUME SyncInv, Sync!ReceiveNothing PROVE SyncInv'
<1> DEFINE n == IF syncd.up THEN sync.lapses + 1 ELSE sync.lapses
           r == Sync!Returned
<1>1. /\ Sync!TypeOK /\ sync.awaits # "none" /\ syncd' = syncd
      /\ sync' = [r EXCEPT !.lapses = IF syncd.up THEN @ + 1 ELSE @, !.clean = FALSE]
      /\ n \in 0..MaxLapses /\ sync.link \in {"open", "freed"}
  BY SyncBounds
     DEF SyncInv, InSession, Sync!ReceiveNothing, Sync!Lapse, Sync!MayLapse, Sync!TypeOK
<1>2. /\ r \in [link : {"new", "ready", "open", "freed"}, data_class : BOOLEAN,
                direction : {"DEVICE_TO_COMPUTER", "COMPUTER_TO_DEVICE"},
                awaits : {"none", "start", "finish", "clear", "changes", "ready", "remap"},
                session : 0..MaxSessions, talk : 0..MaxTalk, lapses : 0..MaxLapses,
                clean : BOOLEAN]
      /\ r.lapses = sync.lapses /\ r.link = sync.link /\ r.awaits = "none"
      /\ ~r.data_class => r.direction = "DEVICE_TO_COMPUTER"
  BY <1>1 DEF Sync!Returned, Sync!Ended, Sync!TypeOK, SyncInv, InSession
<1> HIDE DEF r
<1>3. sync' = [r EXCEPT !.lapses = n, !.clean = FALSE]
  BY <1>1, <1>2
<1> HIDE DEF n
<1>4. QED  BY <1>1, <1>2, <1>3 DEF Sync!TypeOK, SyncInv, InSession

LEMMA NoSession == 0 \in 0..MaxSessions
  BY SyncBounds

SyncDevice == [up : BOOLEAN, session : 0..MaxSessions, phase : {"idle", "sending", "receiving"},
               inbox : Seq(SyncMessage), stream : Seq(SyncMessage)]

\* What the device says comes after what it said.
LEMMA AnswersDo ==
    ASSUME NEW d \in SyncDevice, NEW type \in Sync!Type, Sync!Answers(d, type)
    PROVE  /\ syncd' \in SyncDevice
           /\ syncd'.up = d.up /\ syncd'.session = d.session /\ syncd'.phase = d.phase
           /\ syncd'.inbox = d.inbox
           /\ Has("Ready", syncd'.stream) <=> Has("Ready", d.stream) \/ type = "Ready"
<1> DEFINE m == [type |-> type, session |-> d.session]
           s == Append(d.stream, m)
<1>1. m \in SyncMessage /\ m.type = type
  BY DEF SyncDevice, SyncMessage
<1>2. syncd' = [d EXCEPT !.stream = s]
  BY DEF Sync!Answers, Sync!Says
<1> HIDE DEF m
<1>3. s \in Seq(SyncMessage) /\ (Has("Ready", s) <=> Has("Ready", d.stream) \/ type = "Ready")
  BY <1>1, Appended, HasAppended DEF SyncDevice
<1> HIDE DEF s
<1>4. QED  BY <1>2, <1>3 DEF SyncDevice

\* What is left of what the device has to read once it has read a message.
LEMMA DeviceRest ==
    ASSUME Sync!TypeOK, sync.clean, Unmixed(sync, syncd), syncd.inbox # << >>
    PROVE  /\ Tail(syncd.inbox) \in Seq(SyncMessage) /\ Head(syncd.inbox) \in SyncMessage
           /\ Head(syncd.inbox).session = sync.session
           /\ \A i \in 1..Len(Tail(syncd.inbox)) : Tail(syncd.inbox)[i].session = sync.session
           /\ ~Has("Start", Tail(syncd.inbox))
           /\ sync.awaits \in {"start", "finish"} =>
                  syncd.session = 0 \/ (Head(syncd.inbox).type = "Finish")
           /\ sync.awaits = "start" => Tail(syncd.inbox) = << >>
           /\ Head(syncd.inbox).type = "Start" =>
                  /\ sync.awaits = "start" /\ syncd.stream = << >> /\ syncd.session = 0
                  /\ Tail(syncd.inbox) = << >>
           /\ Has("Cancel", syncd.inbox) =>
                  Head(syncd.inbox).type = "Cancel" \/ Has("Cancel", Tail(syncd.inbox))
<1> DEFINE s == syncd.inbox
<1>1. s \in Seq(SyncMessage) /\ s # << >>
  BY SyncTyped
<1>2. /\ Head(s) \in SyncMessage /\ Head(s) = s[1] /\ Tail(s) \in Seq(SyncMessage)
      /\ Len(Tail(s)) = Len(s) - 1 /\ Len(s) \in Nat \ {0}
      /\ \A i \in 1..(Len(s) - 1) : Tail(s)[i] = s[i + 1]
  BY <1>1, Rest
<1>3. \A type : Has(type, s) <=> s[1].type = type \/ Has(type, Tail(s))
  BY <1>1, HasRest
<1>4. Len(s) = 1 => Tail(s) = << >> /\ \A type : ~Has(type, Tail(s))
  <2>1. ASSUME Len(s) = 1 PROVE Tail(s) = << >>
    <3> DEFINE r == Tail(s)
    <3>1. r \in Seq(SyncMessage) /\ Len(r) = 0
      BY <1>2, <2>1
    <3> HIDE DEF r
    <3>2. r = << >>
      BY <3>1, EmptySeq
    <3>3. QED  BY <3>2 DEF r
  <2>2. \A type : ~Has(type, << >>)
    BY HasNone
  <2>3. QED  BY <2>1, <2>2
<1>5. \A i \in 1..Len(s) : s[i].session = sync.session
  BY DEF Unmixed
<1>6. /\ Head(s).session = sync.session
      /\ \A i \in 1..Len(Tail(s)) : Tail(s)[i].session = sync.session
  BY <1>2, <1>5
<1>7. /\ Has("Start", s) => sync.awaits = "start" /\ Len(s) = 1 /\ syncd.stream = << >>
                            /\ syncd.session = 0
      /\ sync.awaits = "start" => Has("Start", s)
      /\ sync.awaits = "finish" => syncd.session = 0 \/ (Len(s) = 1 /\ Has("Finish", s))
  BY <1>1 DEF Unmixed
<1> HIDE DEF s
<1>8. ~Has("Start", Tail(s)) /\ (sync.awaits = "start" => Tail(s) = << >>)
  BY <1>3, <1>4, <1>7
<1>9. Head(s).type = "Start" => /\ sync.awaits = "start" /\ syncd.stream = << >>
                                /\ syncd.session = 0 /\ Tail(s) = << >>
  BY <1>2, <1>3, <1>4, <1>7
<1>10. sync.awaits \in {"start", "finish"} => syncd.session = 0 \/ Head(s).type = "Finish"
  BY <1>2, <1>3, <1>4, <1>7
<1>11. QED  BY <1>2, <1>3, <1>6, <1>8, <1>9, <1>10 DEF s

\* A device that has left its session.
LEMMA DeviceLeft ==
    ASSUME SyncInv, UNCHANGED sync, syncd' \in SyncDevice, syncd'.session = 0,
           \/ syncd'.inbox = << >>
           \/ syncd'.inbox = syncd.inbox /\ syncd.session # 0
           \/ syncd.inbox # << >> /\ syncd'.inbox = Tail(syncd.inbox)
    PROVE  SyncInv'
<1>1. Sync!TypeOK' /\ sync' = sync /\ Sync!TypeOK
  BY DEF SyncInv, Sync!TypeOK, SyncDevice, SyncMessage
<1>2. ASSUME sync.clean PROVE Unmixed(sync', syncd')
  <2>1. Unmixed(sync, syncd) /\ ~Has("Start", << >>) /\ Len(<< >>) = 0
    BY <1>2, HasNone DEF SyncInv, InSession
  <2>2. /\ \A i \in 1..Len(syncd'.inbox) : syncd'.inbox[i].session = sync.session
        /\ ~Has("Start", syncd'.inbox)
        /\ sync.awaits = "start" => syncd'.inbox = << >>
    <3>1. CASE syncd'.inbox = << >>
      BY <2>1, <3>1
    <3>2. CASE syncd'.inbox = syncd.inbox /\ syncd.session # 0
      BY <2>1, <3>2 DEF Unmixed
    <3>3. CASE syncd.inbox # << >> /\ syncd'.inbox = Tail(syncd.inbox)
      BY <1>1, <1>2, <2>1, <3>3, DeviceRest
    <3>4. QED  BY <3>1, <3>2, <3>3
  <2>3. QED  BY <1>1, <2>2 DEF Unmixed, Turned
<1>3. QED  BY <1>1, <1>2 DEF SyncInv, InSession

\* A device that answers in the session it is in.
LEMMA DeviceAnswers ==
    ASSUME SyncInv, UNCHANGED sync, syncd.up, syncd.inbox # << >>,
           Head(syncd.inbox).type \notin {"Start", "Finish", "Cancel"},
           syncd' \in SyncDevice, syncd'.up, syncd'.session = syncd.session,
           syncd'.inbox = Tail(syncd.inbox),
           \/ syncd'.phase = "receiving"
           \/ /\ syncd'.phase = syncd.phase
              /\ Has("Ready", syncd'.stream) <=> Has("Ready", syncd.stream)
    PROVE  SyncInv'
<1>1. Sync!TypeOK' /\ sync' = sync /\ Sync!TypeOK
  BY DEF SyncInv, Sync!TypeOK, SyncDevice, SyncMessage
<1>2. ASSUME sync.clean PROVE Unmixed(sync', syncd')
  <2>1. Unmixed(sync, syncd)
    BY <1>2 DEF SyncInv, InSession
  <2>2. QED  BY <1>1, <1>2, <2>1, DeviceRest DEF Unmixed, Turned
<1>3. QED  BY <1>1, <1>2 DEF SyncInv, InSession

LEMMA DeviceHearsInv == ASSUME SyncInv, Sync!DeviceHears, UNCHANGED sync PROVE SyncInv'
<1> DEFINE m == Head(syncd.inbox)
           d == [syncd EXCEPT !.inbox = Tail(@)]
           starts == [d EXCEPT !.session = m.session, !.phase = "sending"]
           turned == [d EXCEPT !.phase = "receiving"]
           left == Sync!Leaves(d)
<1>1. Sync!TypeOK /\ syncd.up /\ syncd.inbox # << >>
  BY DEF SyncInv, Sync!DeviceHears
<1>2. m \in SyncMessage /\ Tail(syncd.inbox) \in Seq(SyncMessage)
  BY <1>1, SyncTyped, Rest
<1>3. /\ {"DeviceReady", "Start", "Refuse", "Changes", "Ready", "Cleared", "Remap",
         "Finished", "Cancel"} \subseteq Sync!Type
      /\ m.type \in Sync!Type /\ m.session \in 0..MaxSessions
  BY <1>2 DEF Sync!Type, SyncMessage
<1>4. /\ d \in SyncDevice /\ d.up /\ d.session = syncd.session /\ d.phase = syncd.phase
      /\ d.inbox = Tail(syncd.inbox) /\ d.stream = syncd.stream
  BY <1>1, <1>2 DEF Sync!TypeOK, SyncDevice, SyncMessage
<1>5. left \in SyncDevice /\ left.session = 0 /\ left.inbox = Tail(syncd.inbox)
  BY <1>4, NoSession DEF Sync!Leaves, SyncDevice
<1>6. /\ starts \in SyncDevice /\ starts.up /\ starts.session = m.session
      /\ starts.inbox = Tail(syncd.inbox) /\ starts.stream = syncd.stream
  BY <1>3, <1>4 DEF SyncDevice
<1>7. /\ turned \in SyncDevice /\ turned.up /\ turned.session = syncd.session
      /\ turned.inbox = Tail(syncd.inbox) /\ turned.phase = "receiving"
  BY <1>4 DEF SyncDevice
<1>8. \/ m.type \notin {"Start", "Finish", "Cancel"}
         /\ \E type \in {"DeviceReady", "Changes", "Cleared", "Remap"} : Sync!Answers(d, type)
      \/ m.type = "Start" /\ Sync!Answers(starts, "Start")
      \/ m.type = "Acknowledge" /\ Sync!Answers(turned, "Ready")
      \/ \E type \in {"Refuse", "Finished", "Cancel"} : Sync!Answers(left, type)
      \/ syncd' = left
  BY <1>3 DEF Sync!DeviceHears
<1> HIDE DEF m, d, starts, turned, left
<1>9. CASE m.type \notin {"Start", "Finish", "Cancel"}
           /\ \E type \in {"DeviceReady", "Changes", "Cleared", "Remap"} : Sync!Answers(d, type)
  <2>1. /\ syncd' \in SyncDevice /\ syncd'.up /\ syncd'.session = syncd.session
        /\ syncd'.phase = syncd.phase /\ syncd'.inbox = Tail(syncd.inbox)
        /\ Has("Ready", syncd'.stream) <=> Has("Ready", syncd.stream)
    BY <1>3, <1>4, <1>9, AnswersDo
  <2>2. QED  BY <1>1, <1>9, <2>1, DeviceAnswers DEF m
<1>10. CASE m.type = "Start" /\ Sync!Answers(starts, "Start")
  <2>1. /\ syncd' \in SyncDevice /\ syncd'.up /\ syncd'.session = m.session
        /\ syncd'.inbox = Tail(syncd.inbox)
        /\ Has("Ready", syncd'.stream) <=> Has("Ready", syncd.stream)
    BY <1>3, <1>6, <1>10, AnswersDo
  <2>2. Sync!TypeOK' /\ sync' = sync
    BY <2>1, <1>1 DEF Sync!TypeOK, SyncDevice, SyncMessage
  <2>3. sync.clean => /\ Unmixed(sync, syncd) /\ sync.awaits = "start" /\ syncd.stream = << >>
                      /\ m.session = sync.session /\ Tail(syncd.inbox) = << >>
    BY <1>1, <1>10, DeviceRest DEF m, SyncInv, InSession
  <2>4. sync.awaits = "start" => sync.direction = "DEVICE_TO_COMPUTER"
    BY DEF SyncInv, InSession
  <2>5. sync.clean => Unmixed(sync, syncd')
    <3>1. ~Has("Ready", << >>) /\ ~Has("Start", << >>) /\ Len(<< >>) = 0
      BY HasNone
    <3>2. sync.clean => /\ ~Has("Ready", syncd'.stream) /\ ~Has("Start", syncd'.inbox)
                        /\ Len(syncd'.inbox) = 0 /\ syncd'.inbox = << >>
                        /\ syncd'.session = sync.session
      BY <2>1, <2>3, <3>1
    <3>3. QED  BY <2>3, <2>4, <3>2 DEF Unmixed
  <2>6. QED  BY <1>1, <2>1, <2>2, <2>3, <2>5 DEF SyncInv, InSession
<1>11. CASE m.type = "Acknowledge" /\ Sync!Answers(turned, "Ready")
  <2>1. /\ syncd' \in SyncDevice /\ syncd'.up /\ syncd'.session = syncd.session
        /\ syncd'.phase = "receiving" /\ syncd'.inbox = Tail(syncd.inbox)
    BY <1>3, <1>7, <1>11, AnswersDo
  <2>2. QED  BY <1>1, <1>11, <2>1, DeviceAnswers DEF m
<1>12. CASE (\E type \in {"Refuse", "Finished", "Cancel"} : Sync!Answers(left, type))
            \/ syncd' = left
  <2>1. syncd' \in SyncDevice /\ syncd'.session = 0 /\ syncd'.inbox = Tail(syncd.inbox)
    BY <1>3, <1>5, <1>12, AnswersDo
  <2>2. QED  BY <1>1, <2>1, DeviceLeft
<1>13. QED  BY <1>8, <1>9, <1>10, <1>11, <1>12

LEMMA DeviceGoneInv ==
    ASSUME SyncInv, Sync!DeviceCancels \/ Sync!DeviceGone, UNCHANGED sync PROVE SyncInv'
<1>1. Sync!TypeOK /\ "Cancel" \in Sync!Type
  BY DEF SyncInv, Sync!Type
<1>2. CASE Sync!DeviceCancels
  <2> DEFINE left == Sync!Leaves(syncd)
  <2>1. left \in SyncDevice /\ left.session = 0 /\ left.inbox = syncd.inbox
    BY <1>1, NoSession DEF Sync!Leaves, Sync!TypeOK, SyncDevice, SyncMessage
  <2>2. Sync!Answers(left, "Cancel") /\ syncd.session # 0
    BY <1>2 DEF Sync!DeviceCancels
  <2> HIDE DEF left
  <2>3. syncd' \in SyncDevice /\ syncd'.session = 0 /\ syncd'.inbox = syncd.inbox
    BY <1>1, <2>1, <2>2, AnswersDo
  <2>4. QED  BY <2>2, <2>3, DeviceLeft
<1>3. CASE Sync!DeviceGone
  <2>1. << >> \in Seq(SyncMessage) /\ syncd \in SyncDevice
    BY <1>1 DEF Sync!TypeOK, SyncDevice, SyncMessage
  <2>2. syncd' = [syncd EXCEPT !.up = FALSE, !.session = 0, !.phase = "idle", !.inbox = << >>]
    BY <1>3 DEF Sync!DeviceGone
  <2>3. syncd' \in SyncDevice /\ syncd'.session = 0 /\ syncd'.inbox = << >>
    BY <2>1, <2>2, NoSession DEF SyncDevice
  <2>4. QED  BY <2>3, DeviceLeft
<1>4. QED  BY <1>2, <1>3

LEMMA SyncNextInv == ASSUME SyncInv, [ServicesNext]_all PROVE SyncInv'
<1>1. Sync!Next \/ UNCHANGED syncVars
  BY DEF ServicesNext, PlistRuns, SrRuns, ServerRuns, Only, all
<1>2. CASE Sync!Next
  BY <1>2, VersionInv, StartInv, FinishInv, TalkInv, AwaitInv, ReceiveInv, ReceiveNothingInv,
     DeviceHearsInv, DeviceGoneInv DEF Sync!Next
<1>3. CASE UNCHANGED syncVars
  BY <1>3 DEF syncVars, SyncInv, InSession, Unmixed, Turned, Sync!TypeOK, Has
<1>4. QED  BY <1>1, <1>2, <1>3

\* mobilesync.c sends changes only in a session whose device has turned to receiving them,
\* or has cancelled or gone, while no receive has given up and each session began and ended
\* with nothing left unread.
THEOREM SyncDirectionAgreed == ServicesSpec => []DirectionAgreed
<1>1. ServicesInit => SyncInv
  BY SyncInitInv DEF ServicesInit
<1>2. SyncInv /\ [ServicesNext]_all => SyncInv'
  BY SyncNextInv
<1>3. SyncInv => DirectionAgreed
  BY DEF SyncInv, InSession, Unmixed, Turned, DirectionAgreed, Sync!DirectionAgreed
<1>4. QED  BY <1>1, <1>2, <1>3, PTL DEF ServicesSpec

-----------------------------------------------------------------------------
(* Afc.                                                                    *)

FilesTask == [pc : {"idle", "header", "body", "rest"}, num : 0..MaxPackets]

FilesDevice == [up : BOOLEAN, todo : Seq(Files!Packet), done : SUBSET Files!Packet,
                refused : SUBSET Files!Packet, split : SUBSET Files!Packet,
                stream : Seq(Files!Piece), lapses : 0..MaxLapses]

Outcome == [result : {"none", "SUCCESS", "STATUS", "OP_HEADER_INVALID", "MUX_ERROR",
                      "NOT_ENOUGH_DATA"},
            got : {"nothing", "own", "another's", "garbage"}]

\* The requests that the device has answered.
Said(d) == d.done \cup d.refused

\* Another piece of the same answer comes after this one.
Goes(piece, split) == piece[1] = "header" \/ (piece[1] = "body" /\ piece[2] \in split)

Onward(piece) == <<IF piece[1] = "header" THEN "body" ELSE "rest", piece[2]>>

\* The pieces of an answer are together.
Framed(s, said, split) ==
    \A i \in 1..Len(s) :
        /\ s[i][1] \in {"header", "body", "rest"} => s[i][2] \in said
        /\ Goes(s[i], split) /\ i # Len(s) => s[i + 1] = Onward(s[i])

\* The last answer is complete.
Complete(s, split) == \A i \in 1..Len(s) : i = Len(s) => ~Goes(s[i], split)

\* Only a connection that has ended cuts an answer off.
Answering(d) ==
    /\ Framed(d.stream, Said(d), d.split)
    /\ d.up => Complete(d.stream, d.split)

\* One request at a time, by the one that has the mutex, and it is the last.
Alone ==
    /\ \A t \in Task : task[t].pc # "idle" =>
           afc.mutex = t /\ task[t].num = afc.packet_num /\ afc.packet_num > 0
    /\ afc.mode = "NORMAL" => \A t \in Task : task[t].pc = "idle"
    /\ Len(outcome) = afc.packet_num

\* Each request is received and answered once.
Queued(d) ==
    /\ \A i \in 1..Len(d.todo) : d.todo[i] <= afc.packet_num /\ d.todo[i] \notin Said(d)
    /\ \A i, j \in 1..Len(d.todo) : i < j => d.todo[i] < d.todo[j]
    /\ \A n \in Said(d) : n <= afc.packet_num
    /\ d.done \cap d.refused = {} /\ d.split \subseteq d.done

\* What comes next is the part of its answer that the caller waits for.
Comes(part, n) ==
    n \in Said(afcd) /\ IF afcd.stream = << >> THEN ~afcd.up ELSE Head(afcd.stream) = <<part, n>>

Own ==
    \A t \in Task :
        /\ task[t].pc = "body" => Comes("body", task[t].num)
        /\ task[t].pc = "rest" => Comes("rest", task[t].num) /\ task[t].num \in afcd.split

Told(d) ==
    \A n \in 1..Len(outcome) : outcome[n].result \in {"SUCCESS", "STATUS"} =>
        /\ outcome[n].got = "own" /\ n \in Said(d)
        /\ outcome[n].result = "SUCCESS" <=> n \in d.done

FilesLive == afc.ssl \/ afcd.up

FilesInv ==
    /\ Files!TypeOK /\ Alone /\ Queued(afcd)
    /\ FilesLive => Answering(afcd) /\ Own /\ Told(afcd)

LEMMA FilesBounds == {MaxPackets, MaxLapses} \subseteq Nat /\ "free" \notin Task
  BY ComponentsAssumption DEF ComponentsAssumption, Files!AfcAssumption

LEMMA FilesTyped ==
    Files!TypeOK <=>
        /\ afc \in [mutex : {"free"} \cup Task, packet_num : 0..MaxPackets, ssl : BOOLEAN,
                    mode : {"none", "NORMAL", "AFC"}]
        /\ task \in [Task -> FilesTask] /\ afcd \in FilesDevice /\ outcome \in Seq(Outcome)
  BY DEF Files!TypeOK, FilesTask, FilesDevice, Outcome

\* The stream.

LEMMA FramedRest ==
    ASSUME NEW s \in Seq(Files!Piece), s # << >>, NEW said, NEW split, Framed(s, said, split)
    PROVE  /\ Framed(Tail(s), said, split)
           /\ Complete(s, split) => Complete(Tail(s), split)
<1> DEFINE r == Tail(s)
<1>1. /\ Len(r) = Len(s) - 1 /\ Len(s) \in Nat \ {0}
      /\ \A i \in 1..(Len(s) - 1) : r[i] = s[i + 1]
  BY Rest
<1> HIDE DEF r
<1>2. ASSUME NEW i \in 1..Len(r)
      PROVE  i + 1 \in 1..Len(s) /\ r[i] = s[i + 1] /\ (i = Len(r) <=> i + 1 = Len(s))
  BY <1>1
<1>3. ASSUME NEW i \in 1..Len(r), i # Len(r) PROVE r[i + 1] = s[i + 1 + 1]
  <2>1. Len(r) = Len(s) - 1 /\ Len(s) \in Nat
    BY <1>1
  <2>2. i + 1 \in 1..(Len(s) - 1)
    BY <1>3, <2>1
  <2>3. QED  BY <1>1, <2>2
<1>4. Framed(r, said, split)
  BY <1>2, <1>3 DEF Framed
<1>5. Complete(s, split) => Complete(r, split)
  BY <1>2 DEF Complete
<1>6. QED  BY <1>4, <1>5 DEF r

LEMMA FramedJoined ==
    ASSUME NEW s \in Seq(Files!Piece), NEW r \in Seq(Files!Piece), NEW said, NEW split,
           Framed(s, said, split), Complete(s, split), Framed(r, said, split)
    PROVE  /\ s \o r \in Seq(Files!Piece) /\ Framed(s \o r, said, split)
           /\ Complete(r, split) => Complete(s \o r, split)
<1> DEFINE j == s \o r
<1>1. /\ j \in Seq(Files!Piece) /\ Len(j) = Len(s) + Len(r) /\ Len(s) \in Nat /\ Len(r) \in Nat
      /\ \A i \in 1..(Len(s) + Len(r)) : j[i] = IF i <= Len(s) THEN s[i] ELSE r[i - Len(s)]
  BY ConcatProperties, LenProperties
<1> HIDE DEF j
<1>2. ASSUME NEW i \in 1..Len(s)
      PROVE  /\ j[i] = s[i] /\ (i = Len(j) => i = Len(s))
             /\ i # Len(s) => i # Len(j) /\ j[i + 1] = s[i + 1]
  BY <1>1
<1>3. ASSUME NEW i \in 1..Len(j), i \notin 1..Len(s)
      PROVE  /\ i - Len(s) \in 1..Len(r) /\ j[i] = r[i - Len(s)]
             /\ i = Len(j) <=> i - Len(s) = Len(r)
             /\ i # Len(j) => j[i + 1] = r[(i - Len(s)) + 1]
  <2>1. /\ i > Len(s) /\ i - Len(s) \in 1..Len(r) /\ j[i] = r[i - Len(s)]
        /\ i = Len(j) <=> i - Len(s) = Len(r)
    BY <1>1, <1>3
  <2>2. ASSUME i # Len(j) PROVE j[i + 1] = r[(i - Len(s)) + 1]
    <3>1. i + 1 \in 1..(Len(s) + Len(r)) /\ i + 1 > Len(s) /\ i + 1 - Len(s) = (i - Len(s)) + 1
      BY <1>1, <2>1, <2>2
    <3>2. QED  BY <1>1, <3>1
  <2>3. QED  BY <2>1, <2>2
<1>4. Framed(j, said, split)
  BY <1>2, <1>3 DEF Framed, Complete
<1>5. Complete(r, split) => Complete(j, split)
  BY <1>2, <1>3 DEF Complete
<1>6. QED  BY <1>1, <1>4, <1>5 DEF j

LEMMA FramedJunk ==
    ASSUME NEW said, NEW split
    PROVE  /\ <<Files!Junk>> \in Seq(Files!Piece) /\ Framed(<<Files!Junk>>, said, split)
           /\ Complete(<<Files!Junk>>, split)
<1>1. Files!Junk[1] = "junk" /\ Files!Junk \in Files!Piece
  BY FilesBounds DEF Files!Junk, Files!Piece
<1>2. Len(<<Files!Junk>>) = 1 /\ <<Files!Junk>>[1] = Files!Junk
  OBVIOUS
<1>3. QED  BY <1>1, <1>2 DEF Framed, Complete, Goes

LEMMA FramedBegun ==
    ASSUME NEW s \in Seq(Files!Piece), s # << >>, NEW said, NEW split, Framed(s, said, split)
    PROVE  /\ <<Files!Junk>> \o Tail(s) \in Seq(Files!Piece)
           /\ Framed(<<Files!Junk>> \o Tail(s), said, split)
           /\ Complete(s, split) => Complete(<<Files!Junk>> \o Tail(s), split)
<1> DEFINE r == Tail(s)
           j == <<Files!Junk>>
<1>1. r \in Seq(Files!Piece) /\ Framed(r, said, split) /\ (Complete(s, split) => Complete(r, split))
  BY FramedRest, Rest
<1>2. j \in Seq(Files!Piece) /\ Framed(j, said, split) /\ Complete(j, split)
  BY FramedJunk
<1> HIDE DEF r, j
<1>3. /\ j \o r \in Seq(Files!Piece) /\ Framed(j \o r, said, split)
      /\ Complete(r, split) => Complete(j \o r, split)
  BY <1>1, <1>2, FramedJoined
<1>4. QED  BY <1>1, <1>3 DEF r, j

\* More answers do not change what came before.
LEMMA FramedLater ==
    ASSUME NEW s \in Seq(Files!Piece), NEW said, NEW split, Framed(s, said, split),
           NEW n, n \notin said, NEW more \in SUBSET {n}
    PROVE  /\ Framed(s, said \cup {n}, split \cup more)
           /\ Complete(s, split) => Complete(s, split \cup more)
  BY DEF Framed, Complete, Goes

LEMMA FramedCut ==
    ASSUME NEW s \in Seq(Files!Piece), NEW said, NEW split, Framed(s, said, split),
           NEW k \in 0..Len(s)
    PROVE  SubSeq(s, 1, k) \in Seq(Files!Piece) /\ Framed(SubSeq(s, 1, k), said, split)
<1> DEFINE r == SubSeq(s, 1, k)
<1>1. Len(s) \in Nat /\ k \in Int /\ \A i \in 1..k : s[i] \in Files!Piece
  BY LenProperties, ElementOfSeq
<1>2. r \in Seq(Files!Piece) /\ Len(r) = k /\ \A i \in 1..k : r[i] = s[i]
  BY <1>1, SubSeqProperties
<1> HIDE DEF r
<1>3. Framed(r, said, split)
  BY <1>1, <1>2 DEF Framed
<1>4. QED  BY <1>2, <1>3 DEF r

\* Only the stream, and the receives that may yet give up, change.
Kept ==
    /\ afcd' \in FilesDevice /\ afcd'.up = afcd.up /\ afcd'.todo = afcd.todo
    /\ afcd'.done = afcd.done /\ afcd'.refused = afcd.refused /\ afcd'.split = afcd.split

LEMMA FilesStream ==
    ASSUME Files!TypeOK, NEW s \in Seq(Files!Piece), Files!StreamIs(s) \/ Files!Lapse(s)
    PROVE  Kept /\ afcd'.stream = s
<1>1. afcd \in FilesDevice
  BY FilesTyped
<1>2. CASE Files!StreamIs(s)
  BY <1>1, <1>2 DEF Files!StreamIs, Kept, FilesDevice
<1>3. CASE Files!Lapse(s)
  <2> DEFINE n == afcd.lapses + 1
  <2>1. n \in 0..MaxLapses
    BY <1>1, <1>3, FilesBounds DEF Files!Lapse, FilesDevice
  <2>2. afcd' = [afcd EXCEPT !.stream = s, !.lapses = n]
    BY <1>1, <1>3 DEF Files!Lapse, FilesDevice
  <2> HIDE DEF n
  <2>3. QED  BY <1>1, <2>1, <2>2 DEF Kept, FilesDevice
<1>4. QED  BY <1>2, <1>3

LEMMA BegunTyped ==
    ASSUME NEW s \in Seq(Files!Piece), s # << >>
    PROVE  <<Files!Junk>> \o Tail(s) \in Seq(Files!Piece)
<1>1. <<Files!Junk>> \in Seq(Files!Piece)
  BY FramedJunk
<1>2. QED  BY <1>1, Rest, ConcatProperties

\* Whatever is left of the stream its answers are in it as they were.
LEMMA FilesLeft ==
    ASSUME Files!TypeOK, Answering(afcd), Files!Stream # << >>, Kept,
           afcd'.stream \in {Tail(Files!Stream), Files!Begun}
    PROVE  Answering(afcd')
<1> DEFINE s == afcd.stream
           said == Said(afcd)
           r == <<Files!Junk>> \o Tail(s)
<1>1. /\ s \in Seq(Files!Piece) /\ s # << >> /\ Framed(s, said, afcd.split)
      /\ afcd.up => Complete(s, afcd.split)
      /\ afcd'.stream = Tail(s) \/ afcd'.stream = r
  BY FilesTyped DEF FilesDevice, Answering, Files!Stream, Files!Begun
<1>2. /\ Framed(Tail(s), said, afcd.split)
      /\ Complete(s, afcd.split) => Complete(Tail(s), afcd.split)
  BY <1>1, FramedRest
<1>3. Framed(r, said, afcd.split) /\ (Complete(s, afcd.split) => Complete(r, afcd.split))
  BY <1>1, FramedBegun
<1> HIDE DEF s, said, r
<1>4. /\ Framed(afcd'.stream, said, afcd.split)
      /\ afcd.up => Complete(afcd'.stream, afcd.split)
  BY <1>1, <1>2, <1>3
<1>5. QED  BY <1>4 DEF Kept, Answering, Said, said

\* A caller that returns leaves everyone idle, and says what the device did.
LEMMA FilesReturns ==
    ASSUME FilesInv, NEW t \in Task, task[t].pc # "idle", Kept,
           NEW res \in {"SUCCESS", "STATUS", "OP_HEADER_INVALID", "MUX_ERROR",
                           "NOT_ENOUGH_DATA"},
           NEW got \in {"nothing", "own", "another's", "garbage"},
           Files!Return(t, res, got), FilesLive => Answering(afcd'),
           FilesLive /\ res \in {"SUCCESS", "STATUS"} =>
               /\ got = "own" /\ task[t].num \in Said(afcd)
               /\ res = "SUCCESS" <=> task[t].num \in afcd.done
    PROVE  FilesInv'
<1> DEFINE n == task[t].num
           new == [result |-> res, got |-> got]
<1>1. /\ afc \in [mutex : {"free"} \cup Task, packet_num : 0..MaxPackets, ssl : BOOLEAN,
                    mode : {"none", "NORMAL", "AFC"}]
      /\ task \in [Task -> FilesTask] /\ afcd \in FilesDevice /\ outcome \in Seq(Outcome)
  BY FilesTyped DEF FilesInv
<1>2. /\ n = afc.packet_num /\ n \in 1..Len(outcome) /\ Len(outcome) = afc.packet_num
      /\ \A u \in Task : u # t => task[u].pc = "idle"
      /\ afc.mode # "NORMAL"
  BY <1>1 DEF FilesInv, Alone
<1>3. new \in Outcome /\ new.result = res /\ new.got = got
  BY DEF Outcome
<1>4. outcome' = [outcome EXCEPT ![n] = new]
  BY DEF Files!Return
<1> HIDE DEF new
<1>5. /\ outcome' \in Seq(Outcome) /\ Len(outcome') = Len(outcome)
      /\ \A j \in 1..Len(outcome) : outcome'[j] = IF j = n THEN new ELSE outcome[j]
  BY <1>1, <1>2, <1>3, <1>4, ExceptSeq
<1>6. task' \in [Task -> FilesTask] /\ \A u \in Task : task'[u].pc = "idle"
  BY <1>1, <1>2 DEF Files!Return, FilesTask
<1>7. /\ afc' \in [mutex : {"free"} \cup Task, packet_num : 0..MaxPackets, ssl : BOOLEAN,
                    mode : {"none", "NORMAL", "AFC"}]
      /\ afc'.packet_num = afc.packet_num /\ afc'.ssl = afc.ssl
  BY <1>1 DEF Files!Return
<1>8. Files!TypeOK'
  BY <1>5, <1>6, <1>7 DEF Kept, Files!TypeOK, FilesTask, FilesDevice, Outcome
<1>9. Alone'
  BY <1>2, <1>5, <1>6, <1>7 DEF Alone
<1>10. Queued(afcd)'
  BY <1>7 DEF FilesInv, Queued, Kept, Said
<1>11. FilesLive' <=> FilesLive
  BY <1>7 DEF FilesLive, Kept
<1>12. FilesLive => Told(afcd)'
  <2>1. SUFFICES ASSUME FilesLive, NEW j \in 1..Len(outcome),
                        outcome'[j].result \in {"SUCCESS", "STATUS"}
                 PROVE  /\ outcome'[j].got = "own" /\ j \in Said(afcd)
                        /\ outcome'[j].result = "SUCCESS" <=> j \in afcd.done
    BY <1>5 DEF Told, Kept, Said
  <2>2. CASE j = n
    BY <1>3, <1>5, <2>1, <2>2
  <2>3. CASE j # n
    BY <1>5, <2>1, <2>3 DEF FilesInv, Told
  <2>4. QED  BY <2>2, <2>3
<1>13. Own'
  BY <1>6 DEF Own
<1>14. QED  BY <1>8, <1>9, <1>10, <1>11, <1>12, <1>13 DEF FilesInv

\* What comes after a piece that another comes after.
LEMMA FilesAfter ==
    ASSUME NEW d, d.stream \in Seq(Files!Piece), Answering(d), d.stream # << >>,
           Goes(Head(d.stream), d.split)
    PROVE  /\ Head(d.stream)[2] \in Said(d)
           /\ IF Tail(d.stream) = << >> THEN ~d.up
              ELSE Head(Tail(d.stream)) = Onward(Head(d.stream))
<1> DEFINE s == d.stream
           r == Tail(s)
<1>1. /\ Head(s) = s[1] /\ r \in Seq(Files!Piece) /\ Len(r) = Len(s) - 1 /\ Len(s) \in Nat \ {0}
      /\ \A i \in 1..(Len(s) - 1) : r[i] = s[i + 1]
  BY Rest
<1>2. /\ Framed(s, Said(d), d.split) /\ (d.up => Complete(s, d.split)) /\ Goes(s[1], d.split)
  BY <1>1 DEF Answering
<1>3. r # << >> => Head(r) = r[1] /\ Len(r) # 0
  BY <1>1, Rest
<1>4. r = << >> => Len(r) = 0
  BY EmptySeq
<1> HIDE DEF s, r
<1>5. s[1][2] \in Said(d)
  BY <1>1, <1>2 DEF Framed, Goes
<1>6. Len(s) = 1 => ~d.up
  BY <1>1, <1>2 DEF Complete
<1>7. Len(s) # 1 => r[1] = Onward(s[1])
  BY <1>1, <1>2 DEF Framed
<1>8. QED  BY <1>1, <1>3, <1>4, <1>5, <1>6, <1>7 DEF s, r

LEMMA FilesInitInv == Files!Init => FilesInv
<1> SUFFICES ASSUME Files!Init PROVE FilesInv
  OBVIOUS
<1>1. 0 \in 0..MaxPackets /\ 0 \in 0..MaxLapses /\ Len(<< >>) = 0
  BY FilesBounds
<1>2. Files!TypeOK
  BY <1>1 DEF Files!Init, Files!TypeOK
<1>3. Alone
  BY DEF Files!Init, Alone
<1>4. Queued(afcd) /\ Answering(afcd) /\ Told(afcd) /\ Own
  BY <1>1 DEF Files!Init, Queued, Said, Answering, Framed, Complete, Told, Own
<1>5. QED  BY <1>2, <1>3, <1>4 DEF FilesInv

LEMMA HouseArrestInv ==
    ASSUME FilesInv, Files!HouseArrestCommand \/ Files!HouseArrestResult PROVE FilesInv'
<1>1. /\ Files!TypeOK /\ afcd \in FilesDevice /\ afc.mode = "NORMAL"
      /\ \A t \in Task : task[t].pc = "idle"
      /\ UNCHANGED <<task, outcome>>
      /\ afc' = afc \/ afc' = [afc EXCEPT !.mode = "AFC"]
  BY FilesTyped DEF FilesInv, Alone, Files!HouseArrestCommand, Files!HouseArrestResult
<1>2. Kept /\ (FilesLive => Answering(afcd'))
  <2>1. CASE Files!HouseArrestCommand
    <3> DEFINE list == << <<"list", 0>> >>
    <3>1. Files!StreamIs(list) /\ list \in Seq(Files!Piece)
      BY <2>1, FilesBounds, FirstAppended DEF Files!HouseArrestCommand, Files!Piece
    <3>2. \A i \in 1..Len(list) : list[i][1] = "list"
      OBVIOUS
    <3> HIDE DEF list
    <3>3. Kept /\ afcd'.stream = list
      BY <1>1, <3>1, FilesStream
    <3>4. QED  BY <3>2, <3>3 DEF Answering, Framed, Complete, Goes
  <2>2. CASE Files!Stream # << >> /\ Files!StreamIs(Tail(Files!Stream))
    <3>1. Tail(Files!Stream) \in Seq(Files!Piece)
      BY <1>1, <2>2, Rest DEF FilesDevice, Files!Stream
    <3>2. Kept /\ afcd'.stream = Tail(Files!Stream)
      BY <1>1, <2>2, <3>1, FilesStream
    <3>3. QED  BY <1>1, <2>2, <3>2, FilesLeft DEF FilesInv
  <2>3. CASE Files!Lapse(Files!Stream)
    <3>1. Files!Stream \in Seq(Files!Piece)
      BY <1>1 DEF FilesDevice, Files!Stream
    <3>2. Kept /\ afcd'.stream = afcd.stream
      BY <1>1, <2>3, <3>1, FilesStream DEF Files!Stream
    <3>3. QED  BY <3>2 DEF FilesInv, Kept, Answering, Said
  <2>4. QED  BY <2>1, <2>2, <2>3 DEF Files!HouseArrestCommand, Files!HouseArrestResult
<1>3. Files!TypeOK'
  BY <1>1, <1>2 DEF Files!TypeOK, Kept, FilesDevice
<1>4. /\ afc'.packet_num = afc.packet_num /\ afc'.ssl = afc.ssl
  BY <1>1 DEF Files!TypeOK
<1>5. Alone' /\ Own'
  BY <1>1, <1>4 DEF FilesInv, Alone, Own
<1>6. Queued(afcd)' /\ (FilesLive' <=> FilesLive)
  BY <1>2, <1>4 DEF FilesInv, Queued, Kept, Said, FilesLive
<1>7. FilesLive => Told(afcd)'
  BY <1>1, <1>2 DEF FilesInv, Told, Kept, Said
<1>8. QED  BY <1>2, <1>3, <1>5, <1>6, <1>7 DEF FilesInv

LEMMA DispatchInv == ASSUME FilesInv, NEW t \in Task, Files!Dispatch(t) PROVE FilesInv'
<1> DEFINE n == afc.packet_num + 1
           new == [result |-> "none", got |-> "nothing"]
           queue == Append(afcd.todo, n)
<1>1. /\ afc \in [mutex : {"free"} \cup Task, packet_num : 0..MaxPackets, ssl : BOOLEAN,
                    mode : {"none", "NORMAL", "AFC"}]
      /\ task \in [Task -> FilesTask] /\ afcd \in FilesDevice /\ outcome \in Seq(Outcome)
  BY FilesTyped DEF FilesInv
<1>2. /\ n \in Files!Packet /\ n \in 0..MaxPackets /\ n > 0 /\ Len(outcome) = afc.packet_num
      /\ \A u \in Task : task[u].pc = "idle"
      /\ afc.mode # "NORMAL" /\ "free" \notin Task
  BY <1>1, FilesBounds DEF FilesInv, Alone, Files!Dispatch, Files!Ready, Files!Packet
<1>3. new \in Outcome /\ new.result = "none"
  BY DEF Outcome
<1>4. /\ afc' = [afc EXCEPT !.mutex = t, !.packet_num = n]
      /\ task' = [task EXCEPT ![t] = [pc |-> "header", num |-> n]]
      /\ outcome' = Append(outcome, new)
      /\ afcd' = IF afcd.up THEN [afcd EXCEPT !.todo = queue] ELSE afcd
  BY <1>1 DEF Files!Dispatch, Files!Dispatched, Files!Numbered, FilesDevice
<1> HIDE DEF new
<1>5. /\ outcome' \in Seq(Outcome) /\ Len(outcome') = Len(outcome) + 1
      /\ \A i \in 1..Len(outcome) : outcome'[i] = outcome[i]
      /\ outcome'[Len(outcome) + 1] = new
  BY <1>1, <1>3, <1>4, Appended
<1>6. /\ queue \in Seq(Files!Packet) /\ Len(queue) = Len(afcd.todo) + 1
      /\ \A i \in 1..Len(afcd.todo) : queue[i] = afcd.todo[i]
      /\ queue[Len(afcd.todo) + 1] = n /\ Len(afcd.todo) \in Nat
  BY <1>1, <1>2, Appended, LenProperties DEF FilesDevice
<1> HIDE DEF queue
<1>7. /\ afcd' \in FilesDevice /\ afcd'.up = afcd.up /\ afcd'.done = afcd.done
      /\ afcd'.refused = afcd.refused /\ afcd'.split = afcd.split
      /\ afcd'.stream = afcd.stream /\ afcd'.todo = IF afcd.up THEN queue ELSE afcd.todo
  BY <1>1, <1>4, <1>6 DEF FilesDevice
<1>8. /\ afc' \in [mutex : {"free"} \cup Task, packet_num : 0..MaxPackets, ssl : BOOLEAN,
                    mode : {"none", "NORMAL", "AFC"}]
      /\ afc'.mutex = t /\ afc'.packet_num = n /\ afc'.ssl = afc.ssl /\ afc'.mode = afc.mode
  BY <1>1, <1>2, <1>4
<1>9. /\ task' \in [Task -> FilesTask] /\ task'[t] = [pc |-> "header", num |-> n]
      /\ \A u \in Task : u # t => task'[u].pc = "idle"
  BY <1>1, <1>2, <1>4 DEF FilesTask
<1>10. Files!TypeOK'
  BY <1>5, <1>7, <1>8, <1>9 DEF Files!TypeOK, FilesTask, FilesDevice, Outcome
<1>11. Alone'
  BY <1>2, <1>5, <1>8, <1>9 DEF Alone
<1>12. Queued(afcd)'
  <2>1. /\ \A i \in 1..Len(afcd.todo) : afcd.todo[i] \in Nat
        /\ \A i \in Said(afcd) : i \in Nat
        /\ afc.packet_num \in Nat /\ n = afc.packet_num + 1
    <3>1. /\ afcd.todo \in Seq(Files!Packet) /\ Said(afcd) \subseteq Files!Packet
          /\ Files!Packet \subseteq Nat /\ afc.packet_num \in Nat
      BY <1>1 DEF FilesDevice, Files!Packet, Said
    <3>2. \A i \in 1..Len(afcd.todo) : afcd.todo[i] \in Files!Packet
      BY <3>1, ElementOfSeq
    <3>3. QED  BY <3>1, <3>2
  <2>2. Said(afcd') = Said(afcd)
    BY <1>7 DEF Said
  <2> HIDE DEF n
  <2>3. /\ \A i \in 1..Len(afcd.todo) : /\ afcd.todo[i] <= n /\ afcd.todo[i] < n
                                        /\ afcd.todo[i] \notin Said(afcd)
        /\ \A i \in Said(afcd) : i <= n
        /\ n \notin Said(afcd)
    BY <2>1 DEF FilesInv, Queued
  <2>4. \A i \in 1..Len(queue) : queue[i] <= n /\ queue[i] \notin Said(afcd)
    <3>1. SUFFICES ASSUME NEW i \in 1..Len(queue)
                   PROVE  queue[i] <= n /\ queue[i] \notin Said(afcd)
      OBVIOUS
    <3>2. CASE i \in 1..Len(afcd.todo)
      BY <1>6, <2>3, <3>2
    <3>3. CASE i = Len(afcd.todo) + 1
      BY <1>6, <2>1, <2>3, <3>3
    <3>4. QED  BY <1>6, <3>2, <3>3
  <2>5. \A i, j \in 1..Len(queue) : i < j => queue[i] < queue[j]
    <3>1. SUFFICES ASSUME NEW i \in 1..Len(queue), NEW j \in 1..Len(queue), i < j
                   PROVE  queue[i] < queue[j]
      OBVIOUS
    <3>2. i \in 1..Len(afcd.todo) /\ queue[i] = afcd.todo[i]
      BY <1>6, <3>1
    <3>3. CASE j \in 1..Len(afcd.todo)
      BY <1>6, <3>1, <3>2, <3>3 DEF FilesInv, Queued
    <3>4. CASE j = Len(afcd.todo) + 1
      BY <1>6, <2>3, <3>2, <3>4
    <3>5. QED  BY <1>6, <3>3, <3>4
  <2>6. QED  BY <1>7, <1>8, <2>2, <2>3, <2>4, <2>5 DEF FilesInv, Queued
<1>13. FilesLive' <=> FilesLive
  BY <1>7, <1>8 DEF FilesLive
<1>14. FilesLive => Answering(afcd')
  BY <1>7 DEF FilesInv, Answering, Said
<1>15. Own'
  BY <1>9 DEF Own
<1>16. FilesLive => Told(afcd)'
  <2>1. \A j \in 1..Len(outcome') : outcome'[j].result \in {"SUCCESS", "STATUS"} =>
            j \in 1..Len(outcome) /\ outcome'[j] = outcome[j]
    BY <1>3, <1>5, <1>1, LenProperties
  <2>2. QED  BY <1>7, <2>1 DEF FilesInv, Told, Said
<1>17. QED  BY <1>10, <1>11, <1>12, <1>13, <1>14, <1>15, <1>16 DEF FilesInv

\* A caller that goes on to the next part of its answer.
LEMMA FilesGoesOn ==
    ASSUME FilesInv, NEW t \in Task, NEW part \in {"body", "rest"}, task[t].pc # "idle", Kept,
           task' = [task EXCEPT ![t].pc = part], UNCHANGED <<afc, outcome>>,
           FilesLive => Answering(afcd'),
           FilesLive => Comes(part, task[t].num)',
           FilesLive /\ part = "rest" => task[t].num \in afcd.split
    PROVE  FilesInv'
<1>1. /\ afc \in [mutex : {"free"} \cup Task, packet_num : 0..MaxPackets, ssl : BOOLEAN,
                    mode : {"none", "NORMAL", "AFC"}]
      /\ task \in [Task -> FilesTask] /\ afcd \in FilesDevice /\ outcome \in Seq(Outcome)
      /\ \A u \in Task : u # t => task[u].pc = "idle"
      /\ afc.mode # "NORMAL" /\ afc' = afc /\ outcome' = outcome
  BY FilesTyped DEF FilesInv, Alone
<1>2. /\ task' \in [Task -> FilesTask] /\ task'[t].pc = part /\ task'[t].num = task[t].num
      /\ \A u \in Task : u # t => task'[u].pc = "idle"
  BY <1>1 DEF FilesTask
<1>3. Files!TypeOK'
  BY <1>1, <1>2 DEF Kept, Files!TypeOK, FilesTask, FilesDevice, Outcome
<1>4. Alone'
  BY <1>1, <1>2 DEF FilesInv, Alone
<1>5. Queued(afcd)' /\ (FilesLive' <=> FilesLive)
  BY <1>1 DEF FilesInv, Queued, Kept, Said, FilesLive
<1>6. FilesLive => Told(afcd)'
  BY <1>1 DEF FilesInv, Told, Kept, Said
<1>7. FilesLive => Own'
  BY <1>2 DEF Own, Kept, Comes, Said
<1>8. QED  BY <1>3, <1>4, <1>5, <1>6, <1>7 DEF FilesInv

LEMMA ReceiveHeaderInv ==
    ASSUME FilesInv, NEW t \in Task, Files!ReceiveHeader(t) PROVE FilesInv'
<1> DEFINE s == afcd.stream
<1>1. /\ Files!TypeOK /\ afcd \in FilesDevice /\ s \in Seq(Files!Piece) /\ Files!Stream = s
      /\ task[t].pc # "idle" /\ task[t].num = afc.packet_num
      /\ FilesLive => Answering(afcd)
  BY FilesTyped DEF FilesInv, Alone, FilesDevice, Files!Stream, Files!ReceiveHeader
<1>2. CASE /\ s # << >> /\ Files!IsOwn(Head(s)) /\ Files!StreamIs(Tail(s))
           /\ task' = [task EXCEPT ![t].pc = "body"] /\ UNCHANGED <<afc, outcome>>
  <2>1. Kept /\ afcd'.stream = Tail(s)
    BY <1>1, <1>2, Rest, FilesStream
  <2>2. FilesLive => Answering(afcd')
    BY <1>1, <1>2, <2>1, FilesLeft
  <2> DEFINE n == task[t].num
  <2>3. Head(s) = <<"header", n>> /\ task'[t].num = n /\ t \in DOMAIN task
    BY <1>1, <1>2 DEF Files!IsOwn, Files!TypeOK
  <2>4. Goes(Head(s), afcd.split) /\ Onward(Head(s)) = <<"body", n>> /\ Head(s)[2] = n
    BY <2>3 DEF Goes, Onward
  <2>5. FilesLive => /\ n \in Said(afcd)
                     /\ IF Tail(s) = << >> THEN ~afcd.up ELSE Head(Tail(s)) = <<"body", n>>
    BY <1>1, <1>2, <2>4, FilesAfter
  <2>6. FilesLive => Comes("body", task[t].num)'
    BY <2>1, <2>3, <2>5 DEF Comes, Kept, Said
  <2>7. QED  BY <1>1, <1>2, <2>1, <2>2, <2>6, FilesGoesOn
<1>3. ASSUME NEW r, r = s \/ (s # << >> /\ r \in {Tail(s)} \cup Files!AfterJunk)
      PROVE  r \in Seq(Files!Piece) /\ (FilesLive /\ Kept /\ afcd'.stream = r => Answering(afcd'))
  <2>1. CASE r = s
    BY <1>1, <2>1 DEF Kept, Answering, Said
  <2>2. CASE s # << >> /\ r \in {Tail(s), Files!Begun}
    <3>1. r \in Seq(Files!Piece)
      BY <1>1, <2>2, Rest, BegunTyped DEF Files!Begun
    <3>2. QED  BY <1>1, <2>2, <3>1, FilesLeft
  <2>3. CASE s # << >> /\ Len(s) > 1 /\ r = <<Files!Junk>> \o Tail(Tail(s))
    <3> DEFINE w == Tail(s)
    <3>1. w \in Seq(Files!Piece) /\ w # << >>
      <4>1. w \in Seq(Files!Piece) /\ Len(w) = Len(s) - 1 /\ Len(s) \in Nat
        BY <1>1, <2>3, Rest
      <4>2. Len(w) # 0 /\ Len(<< >>) = 0
        BY <2>3, <4>1
      <4>3. QED  BY <4>1, <4>2
    <3>2. FilesLive => /\ Framed(w, Said(afcd), afcd.split)
                       /\ afcd.up => Complete(w, afcd.split)
      BY <1>1, <2>3, FramedRest DEF Answering
    <3> HIDE DEF w
    <3>3. <<Files!Junk>> \o Tail(w) \in Seq(Files!Piece)
      BY <3>1, BegunTyped
    <3>4. FilesLive => /\ Framed(<<Files!Junk>> \o Tail(w), Said(afcd), afcd.split)
                       /\ afcd.up => Complete(<<Files!Junk>> \o Tail(w), afcd.split)
      BY <3>1, <3>2, FramedBegun
    <3>5. r = <<Files!Junk>> \o Tail(w)
      BY <2>3 DEF w
    <3> HIDE <2>3
    <3>6. QED  BY <3>3, <3>4, <3>5 DEF Kept, Answering, Said
  <2>4. QED  BY <1>1, <1>3, <2>1, <2>2, <2>3 DEF Files!AfterJunk
<1>4. CASE \E r : /\ Files!StreamIs(r) /\ r \in Seq(Files!Piece)
                  /\ FilesLive /\ Kept /\ afcd'.stream = r => Answering(afcd')
                  /\ Files!Return(t, "OP_HEADER_INVALID", "nothing")
  BY <1>1, <1>4, FilesStream, FilesReturns
<1>5. CASE \E r : /\ Files!Lapse(r) /\ r \in Seq(Files!Piece)
                  /\ FilesLive /\ Kept /\ afcd'.stream = r => Answering(afcd')
                  /\ Files!Return(t, "MUX_ERROR", "nothing")
  BY <1>1, <1>5, FilesStream, FilesReturns
<1>6. CASE /\ UNCHANGED afcd
           /\ \E res \in {"MUX_ERROR", "OP_HEADER_INVALID"} :
                  Files!Return(t, res, "nothing")
  <2>1. Kept /\ (FilesLive => Answering(afcd'))
    BY <1>1, <1>6 DEF Kept
  <2>2. QED  BY <1>1, <1>6, <2>1, FilesReturns
<1>7. CASE /\ s # << >> /\ ~Files!IsOwn(Head(s))
           /\ \E r \in IF Head(s)[1] = "header" THEN {Tail(s)} ELSE Files!AfterJunk :
                 Files!StreamIs(r)
           /\ Files!Return(t, "OP_HEADER_INVALID", "nothing")
  BY <1>3, <1>4, <1>7
<1>8. CASE /\ \E r \in IF s = << >> THEN {s} ELSE {s, Files!Begun} : Files!Lapse(r)
           /\ Files!Return(t, "MUX_ERROR", "nothing")
  BY <1>3, <1>5, <1>8 DEF Files!AfterJunk
<1>9. \/ /\ s # << >> /\ Files!IsOwn(Head(s)) /\ Files!StreamIs(Tail(s))
         /\ task' = [task EXCEPT ![t].pc = "body"] /\ UNCHANGED <<afc, outcome>>
      \/ /\ s # << >> /\ ~Files!IsOwn(Head(s))
         /\ \E r \in IF Head(s)[1] = "header" THEN {Tail(s)} ELSE Files!AfterJunk :
               Files!StreamIs(r)
         /\ Files!Return(t, "OP_HEADER_INVALID", "nothing")
      \/ /\ \E r \in IF s = << >> THEN {s} ELSE {s, Files!Begun} : Files!Lapse(r)
         /\ Files!Return(t, "MUX_ERROR", "nothing")
      \/ /\ UNCHANGED afcd
         /\ Files!Return(t, IF afc.ssl THEN "MUX_ERROR" ELSE "OP_HEADER_INVALID", "nothing")
  BY <1>1 DEF Files!ReceiveHeader
<1> HIDE DEF s
<1>10. QED  BY <1>2, <1>6, <1>7, <1>8, <1>9

LEMMA ReceiveBodyInv ==
    ASSUME FilesInv, NEW t \in Task, Files!ReceiveBody(t) PROVE FilesInv'
<1> DEFINE s == afcd.stream
           n == task[t].num
<1>1. /\ Files!TypeOK /\ afcd \in FilesDevice /\ s \in Seq(Files!Piece) /\ Files!Stream = s
      /\ task[t].pc = "body" /\ (FilesLive => Answering(afcd) /\ Comes("body", n))
      /\ task \in [Task -> FilesTask]
      /\ afcd.split \subseteq afcd.done /\ afcd.done \cap afcd.refused = {}
  BY FilesTyped DEF FilesInv, Queued, Own, FilesDevice, Files!Stream, Files!ReceiveBody
<1>2. CASE /\ s # << >> /\ Head(s)[1] = "body" /\ Files!StreamIs(Tail(s))
           /\ Files!Contents(t, Head(s)[2], Files!Whose(t, Head(s)[2]))
  <2> DEFINE m == Head(s)[2]
  <2>1. Kept /\ afcd'.stream = Tail(s)
    BY <1>1, <1>2, Rest, FilesStream
  <2>2. FilesLive => Answering(afcd')
    BY <1>1, <1>2, <2>1, FilesLeft
  <2>3. FilesLive => Head(s) = <<"body", n>> /\ m = n /\ n \in Said(afcd)
    BY <1>1, <1>2 DEF Comes
  <2>4. CASE m \in afcd.split
    <3>1. task' = [task EXCEPT ![t].pc = "rest"] /\ UNCHANGED <<afc, outcome>>
      BY <1>2, <2>4 DEF Files!Contents
    <3>2. FilesLive => Goes(Head(s), afcd.split) /\ Onward(Head(s)) = <<"rest", n>>
      BY <2>3, <2>4 DEF Goes, Onward
    <3>3. FilesLive => IF Tail(s) = << >> THEN ~afcd.up ELSE Head(Tail(s)) = <<"rest", n>>
      BY <1>1, <1>2, <3>2, FilesAfter
    <3>4. task'[t].num = n /\ t \in DOMAIN task
      BY <1>1, <3>1 DEF FilesTask
    <3>5. FilesLive => Comes("rest", task[t].num)'
      BY <2>1, <2>3, <3>3, <3>4 DEF Comes, Kept, Said
    <3>6. QED  BY <1>1, <2>1, <2>2, <2>3, <2>4, <3>1, <3>5, FilesGoesOn
  <2>5. CASE m \notin afcd.split
    <3>1. PICK res \in {"SUCCESS", "STATUS"}, got \in {"own", "another's"} :
             /\ Files!Return(t, res, got)
             /\ res = "STATUS" <=> m \in afcd.refused
             /\ m = n => got = "own"
      BY <1>2, <2>5 DEF Files!Contents, Files!Whose
    <3>2. FilesLive => got = "own" /\ n \in Said(afcd) /\ (res = "SUCCESS" <=> n \in afcd.done)
      BY <1>1, <2>3, <3>1 DEF Said
    <3>3. QED  BY <1>1, <2>1, <2>2, <3>1, <3>2, FilesReturns
  <2>6. QED  BY <2>4, <2>5
<1>3. CASE s # << >> /\ Files!Lapse(Files!Begun) /\ Files!Return(t, "NOT_ENOUGH_DATA", "nothing")
  <2>1. Kept /\ afcd'.stream = Files!Begun
    BY <1>1, <1>3, BegunTyped, FilesStream DEF Files!Begun
  <2>2. FilesLive => Answering(afcd')
    BY <1>1, <1>3, <2>1, FilesLeft
  <2>3. QED  BY <1>1, <1>3, <2>1, <2>2, FilesReturns
<1>4. CASE /\ Files!CutOff /\ UNCHANGED afcd
           /\ IF afc.ssl THEN Files!Return(t, "NOT_ENOUGH_DATA", "nothing")
              ELSE \E res \in {"SUCCESS", "STATUS"} : Files!Return(t, res, "garbage")
  <2>1. Kept /\ (FilesLive => Answering(afcd')) /\ (FilesLive => afc.ssl)
    BY <1>1, <1>4 DEF Kept, FilesLive, Files!CutOff
  <2>2. QED  BY <1>1, <1>4, <2>1, FilesReturns
<1>5. QED  BY <1>1, <1>2, <1>3, <1>4 DEF Files!ReceiveBody

LEMMA ReceiveRestInv ==
    ASSUME FilesInv, NEW t \in Task, Files!ReceiveRest(t) PROVE FilesInv'
<1> DEFINE s == afcd.stream
           n == task[t].num
<1>1. /\ Files!TypeOK /\ afcd \in FilesDevice /\ s \in Seq(Files!Piece) /\ Files!Stream = s
      /\ task[t].pc = "rest"
      /\ FilesLive => Answering(afcd) /\ Comes("rest", n) /\ n \in afcd.done
  BY FilesTyped DEF FilesInv, Queued, Own, FilesDevice, Files!Stream, Files!ReceiveRest
<1>2. FilesLive => n \in Said(afcd)
  BY <1>1 DEF Said
<1>3. CASE /\ s # << >> /\ Head(s)[1] = "rest" /\ Files!StreamIs(Tail(s))
           /\ Files!Return(t, "SUCCESS", Files!Whose(t, Head(s)[2]))
  <2>1. Kept /\ afcd'.stream = Tail(s)
    BY <1>1, <1>3, Rest, FilesStream
  <2>2. FilesLive => Answering(afcd')
    BY <1>1, <1>3, <2>1, FilesLeft
  <2>3. PICK got \in {"own", "another's"} : /\ Files!Return(t, "SUCCESS", got)
                                            /\ Head(s)[2] = n => got = "own"
    BY <1>3 DEF Files!Whose
  <2>4. FilesLive => Head(s) = <<"rest", n>> /\ got = "own"
    BY <1>1, <1>3, <2>3 DEF Comes
  <2>5. QED  BY <1>1, <1>2, <2>1, <2>2, <2>3, <2>4, FilesReturns
<1>4. CASE s # << >> /\ Files!Lapse(Files!Begun) /\ Files!Return(t, "SUCCESS", "own")
  <2>1. Kept /\ afcd'.stream = Files!Begun
    BY <1>1, <1>4, BegunTyped, FilesStream DEF Files!Begun
  <2>2. FilesLive => Answering(afcd')
    BY <1>1, <1>4, <2>1, FilesLeft
  <2>3. QED  BY <1>1, <1>2, <1>4, <2>1, <2>2, FilesReturns
<1>5. CASE /\ Files!CutOff /\ UNCHANGED afcd
           /\ Files!Return(t, "SUCCESS", IF afc.ssl THEN "own" ELSE "garbage")
  <2>1. Kept /\ (FilesLive => Answering(afcd')) /\ (FilesLive => afc.ssl)
    BY <1>1, <1>5 DEF Kept, FilesLive, Files!CutOff
  <2>2. QED  BY <1>1, <1>2, <1>5, <2>1, FilesReturns
<1>6. QED  BY <1>1, <1>3, <1>4, <1>5 DEF Files!ReceiveRest

\* The answer to a request.
Answer(n, split) ==
    IF n \in split THEN << <<"header", n>>, <<"body", n>>, <<"rest", n>> >>
    ELSE << <<"header", n>>, <<"body", n>> >>

LEMMA AnswerFramed ==
    ASSUME NEW n \in Files!Packet, NEW said, n \in said, NEW split
    PROVE  /\ Answer(n, split) \in Seq(Files!Piece) /\ Framed(Answer(n, split), said, split)
           /\ Complete(Answer(n, split), split)
<1> DEFINE head == <<"header", n>>
           body == <<"body", n>>
           rest == <<"rest", n>>
<1>1. /\ {head, body, rest} \subseteq Files!Piece
      /\ head[1] = "header" /\ body[1] = "body" /\ rest[1] = "rest"
      /\ head[2] = n /\ body[2] = n /\ rest[2] = n
      /\ Onward(head) = body /\ Onward(body) = rest
  BY FilesBounds DEF Files!Packet, Files!Piece, Onward
<1>2. Answer(n, split) = IF n \in split THEN <<head, body, rest>> ELSE <<head, body>>
  BY DEF Answer
<1> HIDE DEF head, body, rest
<1>3. CASE n \in split
  <2> DEFINE a == <<head, body, rest>>
  <2>1. a \in Seq(Files!Piece) /\ Len(a) = 3 /\ a[1] = head /\ a[2] = body /\ a[3] = rest
    BY <1>1
  <2> HIDE DEF a
  <2>2. Framed(a, said, split)
    BY <1>1, <2>1 DEF Framed, Goes
  <2>3. Complete(a, split)
    BY <1>1, <2>1 DEF Complete, Goes
  <2>4. QED  BY <1>2, <1>3, <2>1, <2>2, <2>3 DEF a
<1>4. CASE n \notin split
  <2> DEFINE a == <<head, body>>
  <2>1. a \in Seq(Files!Piece) /\ Len(a) = 2 /\ a[1] = head /\ a[2] = body
    BY <1>1
  <2> HIDE DEF a
  <2>2. Framed(a, said, split)
    BY <1>1, <1>4, <2>1 DEF Framed, Goes
  <2>3. Complete(a, split)
    BY <1>1, <1>4, <2>1 DEF Complete, Goes
  <2>4. QED  BY <1>2, <1>4, <2>1, <2>2, <2>3 DEF a
<1>5. QED  BY <1>3, <1>4

\* An answer comes after those before it.
LEMMA DeviceSays ==
    ASSUME FilesInv, UNCHANGED <<afc, task, outcome>>, afcd.up, afcd.todo # << >>,
           NEW n, n = Head(afcd.todo), NEW more \in SUBSET {n},
           afcd' \in FilesDevice, afcd'.up = afcd.up, afcd'.todo = Tail(afcd.todo),
           afcd'.split = afcd.split \cup more,
           afcd'.stream = afcd.stream \o Answer(n, afcd.split \cup more),
           \/ afcd'.done = afcd.done \cup {n} /\ afcd'.refused = afcd.refused
           \/ more = {} /\ afcd'.done = afcd.done /\ afcd'.refused = afcd.refused \cup {n}
    PROVE  FilesInv'
<1> DEFINE q == Tail(afcd.todo)
           s == afcd.stream
           a == Answer(n, afcd.split \cup more)
<1>1. /\ afcd \in FilesDevice /\ s \in Seq(Files!Piece) /\ afcd.todo \in Seq(Files!Packet)
      /\ Answering(afcd) /\ Own /\ Told(afcd) /\ FilesLive
  BY FilesTyped DEF FilesInv, FilesLive, FilesDevice
<1>2. /\ n \in Files!Packet /\ n = afcd.todo[1] /\ q \in Seq(Files!Packet)
      /\ Len(q) = Len(afcd.todo) - 1 /\ Len(afcd.todo) \in Nat \ {0}
      /\ \A i \in 1..(Len(afcd.todo) - 1) : q[i] = afcd.todo[i + 1]
  BY <1>1, Rest
<1>3. n <= afc.packet_num /\ n \notin Said(afcd)
  BY <1>2 DEF FilesInv, Queued
<1>4. Said(afcd') = Said(afcd) \cup {n}
  BY DEF Said
<1> DEFINE said == Said(afcd) \cup {n}
           split == afcd.split \cup more
<1>5. Framed(s, Said(afcd), afcd.split) /\ Complete(s, afcd.split)
  BY <1>1 DEF Answering
<1>6. Answering(afcd')
  <2>1. Framed(s, said, split) /\ Complete(s, split)
    BY <1>1, <1>3, <1>5, FramedLater
  <2>2. n \in said
    OBVIOUS
  <2>3. a = Answer(n, split) /\ said = Said(afcd') /\ split = afcd'.split
    BY <1>4
  <2> HIDE DEF said, split, a, s
  <2>4. a \in Seq(Files!Piece) /\ Framed(a, said, split) /\ Complete(a, split)
    BY <1>2, <2>2, <2>3, AnswerFramed
  <2>5. Framed(s \o a, said, split) /\ Complete(s \o a, split)
    BY <1>1, <2>1, <2>4, FramedJoined
  <2>6. afcd'.stream = s \o a
    BY DEF s, a
  <2>7. QED  BY <2>3, <2>5, <2>6 DEF Answering
<1>7. Queued(afcd)'
  <2>1. \A i \in 1..Len(q) : /\ q[i] <= afc.packet_num /\ q[i] \notin Said(afcd)
                             /\ q[i] = afcd.todo[i + 1] /\ n < q[i] /\ i + 1 \in 1..Len(afcd.todo)
    BY <1>2 DEF FilesInv, Queued
  <2>2. \A i \in 1..Len(q) : q[i] # n
    BY <1>2, <2>1, ElementOfSeq DEF Files!Packet
  <2>3. \A i, j \in 1..Len(q) : i < j => q[i] < q[j]
    BY <1>2, <2>1 DEF FilesInv, Queued
  <2>4. afcd'.done \cap afcd'.refused = {} /\ afcd'.split \subseteq afcd'.done
    BY <1>3 DEF FilesInv, Queued, Said
  <2>5. QED  BY <1>3, <1>4, <2>1, <2>2, <2>3, <2>4 DEF FilesInv, Queued
<1>8. Own'
  <2>1. s # << >> => Head(afcd'.stream) = Head(s) /\ afcd'.stream # << >>
    <3>1. n \in said /\ afcd'.stream = s \o Answer(n, split)
      OBVIOUS
    <3> HIDE DEF said, split, s
    <3>2. Answer(n, split) \in Seq(Files!Piece)
      BY <1>2, <3>1, AnswerFramed
    <3> DEFINE b == Answer(n, split)
    <3> HIDE DEF b
    <3>3. s # << >> => s \o b # << >> /\ Head(s \o b) = Head(s)
      BY <1>1, <3>2, HeadJoined DEF b
    <3>4. QED  BY <3>1, <3>3 DEF b
  <2>2. QED  BY <1>1, <1>4, <2>1 DEF Own, Comes
<1>9. Told(afcd)'
  BY <1>1, <1>3, <1>4 DEF Told, Said
<1>10. Files!TypeOK' /\ Alone'
  BY DEF FilesInv, Files!TypeOK, FilesDevice, Alone
<1>11. QED  BY <1>6, <1>7, <1>8, <1>9, <1>10 DEF FilesInv

LEMMA DeviceAnswersInv == ASSUME FilesInv, Files!DeviceAnswers PROVE FilesInv'
<1> DEFINE n == Head(afcd.todo)
           q == Tail(afcd.todo)
           s == afcd.stream
           two == << <<"header", n>>, <<"body", n>> >>
           three == << <<"header", n>>, <<"body", n>>, <<"rest", n>> >>
<1>1. /\ afcd \in FilesDevice /\ s \in Seq(Files!Piece) /\ afcd.todo \in Seq(Files!Packet)
      /\ afcd.up /\ afcd.todo # << >> /\ UNCHANGED <<afc, task, outcome>>
      /\ Answering(afcd)
  BY FilesTyped DEF FilesInv, FilesLive, FilesDevice, Files!DeviceAnswers
<1>2. /\ n \in Files!Packet /\ q \in Seq(Files!Packet) /\ n = afcd.todo[1]
      /\ 1 \in 1..Len(afcd.todo) /\ n = Head(afcd.todo) /\ q = Tail(afcd.todo)
      /\ {} \in SUBSET {n} /\ {n} \in SUBSET {n}
  BY <1>1, Rest
<1>3. n \notin Said(afcd) /\ n \notin afcd.split
  BY <1>2 DEF FilesInv, Queued, Said
<1>4. two = Answer(n, afcd.split \cup {}) /\ three = Answer(n, afcd.split \cup {n})
  BY <1>3 DEF Answer
<1>5. \A more \in SUBSET {n} : s \o Answer(n, afcd.split \cup more) \in Seq(Files!Piece)
  BY <1>1, <1>2, AnswerFramed, ConcatProperties
<1>6. Append(two, <<"rest", n>>) = three
  BY ThirdAppended
<1>7. \/ /\ afcd' = [afcd EXCEPT !.todo = q, !.done = @ \cup {n}, !.stream = s \o two]
         /\ s \o two \in Seq(Files!Piece)
      \/ /\ afcd' = [afcd EXCEPT !.todo = q, !.refused = @ \cup {n}, !.stream = s \o two]
         /\ s \o two \in Seq(Files!Piece)
      \/ /\ afcd' = [afcd EXCEPT !.todo = q, !.done = @ \cup {n}, !.split = @ \cup {n},
                                 !.stream = s \o three]
         /\ s \o three \in Seq(Files!Piece)
  <2>1. s \o two \in Seq(Files!Piece) /\ s \o three \in Seq(Files!Piece)
    BY <1>4, <1>5
  <2> HIDE DEF two, three
  <2>2. \/ afcd' = [afcd EXCEPT !.todo = q, !.done = @ \cup {n}, !.stream = s \o two]
        \/ afcd' = [afcd EXCEPT !.todo = q, !.refused = @ \cup {n}, !.stream = s \o two]
        \/ afcd' = [afcd EXCEPT !.todo = q, !.done = @ \cup {n}, !.split = @ \cup {n},
                                !.stream = s \o three]
    BY <1>1, <1>6 DEF Files!DeviceAnswers, Files!Answered, FilesDevice, two
  <2>3. QED  BY <2>1, <2>2
<1> HIDE DEF two, three, n, q
<1>8. CASE /\ afcd' = [afcd EXCEPT !.todo = q, !.done = @ \cup {n}, !.stream = s \o two]
           /\ s \o two \in Seq(Files!Piece)
  <2>1. /\ afcd' \in FilesDevice /\ afcd'.up = afcd.up /\ afcd'.todo = q
        /\ afcd'.split = afcd.split \cup {} /\ afcd'.stream = s \o two
        /\ afcd'.done = afcd.done \cup {n} /\ afcd'.refused = afcd.refused
    BY <1>1, <1>2, <1>8 DEF FilesDevice
  <2>2. QED  BY <1>1, <1>2, <1>4, <2>1, DeviceSays
<1>9. CASE /\ afcd' = [afcd EXCEPT !.todo = q, !.refused = @ \cup {n}, !.stream = s \o two]
           /\ s \o two \in Seq(Files!Piece)
  <2>1. /\ afcd' \in FilesDevice /\ afcd'.up = afcd.up /\ afcd'.todo = q
        /\ afcd'.split = afcd.split \cup {} /\ afcd'.stream = s \o two
        /\ afcd'.done = afcd.done /\ afcd'.refused = afcd.refused \cup {n}
    BY <1>1, <1>2, <1>9 DEF FilesDevice
  <2>2. QED  BY <1>1, <1>2, <1>4, <2>1, DeviceSays
<1>10. CASE /\ afcd' = [afcd EXCEPT !.todo = q, !.done = @ \cup {n}, !.split = @ \cup {n},
                                    !.stream = s \o three]
            /\ s \o three \in Seq(Files!Piece)
  <2>1. /\ afcd' \in FilesDevice /\ afcd'.up = afcd.up /\ afcd'.todo = q
        /\ afcd'.split = afcd.split \cup {n} /\ afcd'.stream = s \o three
        /\ afcd'.done = afcd.done \cup {n} /\ afcd'.refused = afcd.refused
    BY <1>1, <1>2, <1>10 DEF FilesDevice
  <2>2. QED  BY <1>1, <1>2, <1>4, <2>1, DeviceSays
<1>11. QED  BY <1>7, <1>8, <1>9, <1>10

\* A connection that ends does so anywhere; without SSL that is the end of what is said.
LEMMA FilesGoneInv == ASSUME FilesInv, Files!DeviceGone PROVE FilesInv'
<1> DEFINE s == afcd.stream
<1>1. /\ afcd \in FilesDevice /\ s \in Seq(Files!Piece) /\ UNCHANGED <<afc, task, outcome>>
      /\ afcd.up /\ Answering(afcd) /\ Own /\ Told(afcd)
  BY FilesTyped DEF FilesInv, FilesLive, FilesDevice, Files!DeviceGone
<1>2. PICK k \in 0..Len(s) : afcd' = [afcd EXCEPT !.up = FALSE, !.stream = SubSeq(s, 1, k)]
  BY <1>1 DEF Files!DeviceGone, Files!Stream, FilesDevice
<1> DEFINE r == SubSeq(s, 1, k)
<1>3. r \in Seq(Files!Piece) /\ Framed(r, Said(afcd), afcd.split)
  BY <1>1, FramedCut DEF Answering
<1>4. r # << >> => s # << >> /\ Head(r) = Head(s)
  BY <1>1, HeadCut
<1> HIDE DEF r
<1>5. /\ afcd' \in FilesDevice /\ ~afcd'.up /\ afcd'.todo = afcd.todo /\ afcd'.done = afcd.done
      /\ afcd'.refused = afcd.refused /\ afcd'.split = afcd.split /\ afcd'.stream = r
  BY <1>1, <1>2, <1>3 DEF FilesDevice, r
<1>6. Answering(afcd')
  BY <1>3, <1>5 DEF Answering, Said
<1>7. Own'
  BY <1>1, <1>4, <1>5 DEF Own, Comes, Said
<1>8. Told(afcd)' /\ Queued(afcd)' /\ Alone'
  BY <1>1, <1>5 DEF FilesInv, Told, Said, Queued, Alone
<1>9. Files!TypeOK'
  BY <1>1, <1>5 DEF FilesInv, Files!TypeOK, FilesDevice
<1>10. QED  BY <1>6, <1>7, <1>8, <1>9 DEF FilesInv

LEMMA FilesNextInv == ASSUME FilesInv, [ServicesNext]_all PROVE FilesInv'
<1>1. Files!Next \/ UNCHANGED afcVars
  BY DEF ServicesNext, PlistRuns, SrRuns, ServerRuns, Only, all
<1>2. CASE Files!Next
  BY <1>2, HouseArrestInv, DispatchInv, ReceiveHeaderInv, ReceiveBodyInv, ReceiveRestInv,
     DeviceAnswersInv, FilesGoneInv DEF Files!Next
<1>3. CASE UNCHANGED afcVars
  BY <1>3 DEF afcVars, FilesInv, FilesLive, Files!TypeOK, Alone, Queued, Answering, Framed,
              Complete, Goes, Own, Comes, Told, Said
<1>4. QED  BY <1>1, <1>2, <1>3

\* Whatever came too late, was cut short or was left in the stream by an earlier request,
\* afc_receive_data takes no other request's answer for that of its own, and says what the
\* device did; but for the end of a connection without SSL.
THEOREM FilesAnswerIsOwn == ServicesSpec => []AnswerIsOwn
<1>1. ServicesInit => FilesInv
  BY FilesInitInv DEF ServicesInit
<1>2. FilesInv /\ [ServicesNext]_all => FilesInv'
  BY FilesNextInv
<1>3. FilesInv => AnswerIsOwn
  <2>1. FilesInv => outcome \in Seq(Outcome)
    BY FilesTyped DEF FilesInv
  <2>2. outcome \in Seq(Outcome) => DOMAIN outcome = 1..Len(outcome)
    BY LenProperties
  <2>3. QED
    BY <2>1, <2>2 DEF FilesInv, FilesLive, Told, AnswerIsOwn, Files!AnswerIsOwn, Files!Truthful
<1>4. QED  BY <1>1, <1>2, <1>3, PTL DEF ServicesSpec

-----------------------------------------------------------------------------
(* RequestServices.                                                        *)

AskClient == [service : Answers!Service, ssl : BOOLEAN, mutex : Asker \cup {"free"},
              open : BOOLEAN, last_error : {"SUCCESS", "FAILED", "UNKNOWN_ERROR"},
              info : 0..MaxAsked, silences : 0..MaxUnheard]

AskUser == [at : {"idle", "lock", "send", "receive"}, req : 0..MaxAsked]

AskRequest == [kind : Answers!Kind, clean : BOOLEAN, read : 0..MaxAsked,
               result : {"none", "SUCCESS", "FAILED"}]

AskAnswer == [to : 0..MaxAsked, kind : Answers!Kind, granted : BOOLEAN]

AskDevice == [up : BOOLEAN, in : Seq(0..MaxAsked), done : SUBSET (0..MaxAsked),
              out : Seq(AskAnswer)]

\* One thread at a time uses the connection: the one that has the mutex, or the only one.
Turn ==
    /\ \A t \in Asker : rsUser[t].at \in {"send", "receive"} =>
           IF rs.service = "sbservices" THEN rs.mutex = t ELSE rsUser[t].req = Len(asked)
    /\ rs.service # "sbservices" => \A t \in Asker :
           /\ rsUser[t].at # "lock"
           /\ \A u \in Asker : rsUser[t].at = "idle" \/ rsUser[u].at = "idle" \/ t = u

\* Each call has a request of its own, which has not returned.
Owned ==
    /\ \A t \in Asker : rsUser[t].at # "idle" =>
           rsUser[t].req \in 1..Len(asked) /\ asked[rsUser[t].req].result = "none"
    /\ \A t \in Asker : rsUser[t].at \in {"lock", "send"} => ~asked[rsUser[t].req].clean
    /\ \A t, u \in Asker : rsUser[t].at # "idle" /\ rsUser[u].at # "idle" /\ t # u =>
           rsUser[t].req # rsUser[u].req
    /\ \A r \in 1..Len(asked) : asked[r].kind \in Answers!Calls[rs.service]
    /\ rs.service = "misagent" =>
           \A t \in Asker : rsUser[t].at # "idle" => rs.last_error = "UNKNOWN_ERROR"

\* What the device has to read are requests, and what it has said is what it did.
Heard(d) ==
    /\ \A i \in 1..Len(d.in) : d.in[i] \in 1..Len(asked)
    /\ \A i \in 1..Len(d.out) :
           /\ d.out[i].to \in 1..Len(asked)
           /\ d.out[i].granted => d.out[i].to \in d.done
           /\ d.out[i].kind = IF asked[d.out[i].to].kind = "free" THEN "Goodbye"
                              ELSE asked[d.out[i].to].kind

\* A request sent while no answer was under way has none but its own to come.
NoOther(d, r) ==
    /\ \A i \in 1..Len(d.out) : d.out[i].to = r
    /\ \A i \in 1..Len(d.in) : d.in[i] = r \/ asked[d.in[i]].kind \in Answers!Unanswered

Expected ==
    \A t \in Asker : rsUser[t].at = "receive" =>
        /\ asked[rsUser[t].req].kind \notin Answers!Unanswered
        /\ asked[rsUser[t].req].clean => NoOther(responder, rsUser[t].req)

Judged ==
    /\ \A r \in 1..Len(asked) :
        asked[r].clean /\ asked[r].result = "SUCCESS" /\ asked[r].kind # "free" =>
            asked[r].read = r /\ (asked[r].kind \in Answers!Trusting \/ r \in responder.done)
    /\ rs.service = "misagent" /\ rs.last_error = "SUCCESS" /\ Len(asked) # 0
         /\ asked[Len(asked)].clean => Len(asked) \in responder.done
    /\ rs.info # 0 => /\ rs.info \in 1..Len(asked) /\ asked[rs.info].kind = "QueryType"
                      /\ rs.info \in responder.done

AskInv == Answers!TypeOK /\ Turn /\ Owned /\ Heard(responder) /\ Expected /\ Judged

LEMMA AskBounds == {MaxAsked, MaxUnheard} \subseteq Nat /\ "free" \notin Asker
  BY ComponentsAssumption DEF ComponentsAssumption, Answers!RequestsAssumption

LEMMA AskTyped ==
    Answers!TypeOK <=>
        /\ rs \in AskClient /\ rsUser \in [Asker -> AskUser]
        /\ asked \in Seq(AskRequest) /\ responder \in AskDevice
  BY DEF Answers!TypeOK, AskClient, AskUser, AskRequest, AskAnswer, AskDevice

LEMMA AskKinds ==
    /\ \A service \in Answers!Service : Answers!Calls[service] \subseteq Answers!Kind
    /\ "Goodbye" \in Answers!Kind
    /\ \A kind \in Answers!Calls["misagent"] : kind \notin Answers!Trusting /\ kind # "free"
    /\ {"sbservices", "diagnostics_relay", "restored", "misagent", "file_relay"}
         = Answers!Service
<1>1. Answers!Service = {"sbservices", "diagnostics_relay", "restored", "misagent", "file_relay"}
  BY DEF Answers!Service, Answers!Calls
<1>2. \A service \in Answers!Service : Answers!Calls[service] \subseteq Answers!Kind
  BY DEF Answers!Kind
<1>3. "Goodbye" \in Answers!Calls["restored"]
  BY DEF Answers!Calls
<1>4. Answers!Calls["misagent"] = {"Install", "Copy", "Remove"}
  BY DEF Answers!Calls
<1>5. QED  BY <1>1, <1>2, <1>3, <1>4 DEF Answers!Trusting

LEMMA AskInitInv == Answers!Init => AskInv
<1> SUFFICES ASSUME Answers!Init PROVE AskInv
  OBVIOUS
<1>1. 0 \in 0..MaxAsked /\ 0 \in 0..MaxUnheard /\ Len(<< >>) = 0
  BY AskBounds
<1>2. Answers!TypeOK
  BY <1>1 DEF Answers!Init, Answers!Idle, Answers!TypeOK
<1>3. Turn /\ Owned /\ Expected
  BY <1>1 DEF Answers!Init, Answers!Idle, Turn, Owned, Expected
<1>4. Heard(responder) /\ Judged
  BY <1>1 DEF Answers!Init, Heard, Judged
<1>5. QED  BY <1>2, <1>3, <1>4 DEF AskInv

\* A call that returns leaves no one else in one that uses the connection.
LEMMA AskReturns ==
    ASSUME AskInv, NEW t \in Asker, rsUser[t].at \in {"send", "receive"},
           NEW res \in {"SUCCESS", "FAILED"}, NEW read \in 0..MaxAsked,
           NEW r, r = rsUser[t].req,
           Answers!Return(t, res, read),
           rs' \in AskClient, rs'.service = rs.service,
           rs'.mutex = IF rs.mutex = t THEN "free" ELSE rs.mutex,
           responder' \in AskDevice, responder'.done = responder.done, Heard(responder'),
           asked[r].clean /\ res = "SUCCESS" /\ asked[r].kind # "free" =>
               read = r /\ (asked[r].kind \in Answers!Trusting \/ r \in responder.done),
           rs.service = "misagent" /\ rs'.last_error = "SUCCESS" /\ asked[r].clean =>
               r \in responder.done,
           rs'.info # 0 => /\ rs'.info \in 1..Len(asked) /\ asked[rs'.info].kind = "QueryType"
                           /\ rs'.info \in responder.done
    PROVE  AskInv'
<1> DEFINE say == IF asked[r].kind = "free" THEN "SUCCESS" ELSE res
<1>1. /\ rs \in AskClient /\ rsUser \in [Asker -> AskUser]
      /\ asked \in Seq(AskRequest) /\ responder \in AskDevice
      /\ Turn /\ Owned /\ Expected /\ Judged
  BY AskTyped DEF AskInv
<1>2. r \in 1..Len(asked) /\ say \in {"SUCCESS", "FAILED"} /\ asked[r] \in AskRequest
  BY <1>1, ElementOfSeq DEF Owned
<1>3. /\ asked' = [asked EXCEPT ![r].result = say, ![r].read = read]
      /\ rsUser' = [rsUser EXCEPT ![t] = [at |-> "idle", req |-> 0]]
  BY DEF Answers!Return, Answers!Mine, Answers!Idle
<1> DEFINE new == [asked[r] EXCEPT !.result = say, !.read = read]
<1> HIDE DEF say
<1>4. /\ new \in AskRequest /\ new.kind = asked[r].kind /\ new.clean = asked[r].clean
      /\ new.result = say /\ new.read = read
  BY <1>2 DEF AskRequest
<1>5. asked' = [asked EXCEPT ![r] = new]
  BY <1>1, <1>2, <1>3, LenProperties
<1> HIDE DEF new
<1>6. /\ asked' \in Seq(AskRequest) /\ Len(asked') = Len(asked) /\ asked'[r] = new
      /\ \A i \in 1..Len(asked) : i # r => asked'[i] = asked[i]
  BY <1>1, <1>2, <1>4, <1>5, ExceptSeq
<1>7. \A i \in 1..Len(asked) : asked'[i].kind = asked[i].kind /\ asked'[i].clean = asked[i].clean
  BY <1>4, <1>6
<1>8. /\ rsUser' \in [Asker -> AskUser] /\ rsUser'[t].at = "idle"
      /\ \A u \in Asker : u # t => rsUser'[u] = rsUser[u] /\ rsUser[u].at \in {"idle", "lock"}
  <2>1. \A u \in Asker : u # t => rsUser[u].at \in {"idle", "lock"}
    BY <1>1 DEF Turn, AskUser
  <2>2. QED  BY <1>1, <1>3, <2>1, AskBounds DEF AskUser
<1>9. Answers!TypeOK'
  BY <1>6, <1>8 DEF Answers!TypeOK, AskClient, AskUser, AskRequest, AskAnswer, AskDevice
<1>10. Turn'
  BY <1>1, <1>8 DEF Turn
<1>11. Owned'
  <2>1. \A u \in Asker : rsUser'[u].at # "idle" => u # t /\ rsUser[u].at = "lock"
                             /\ rs.service = "sbservices" /\ rsUser'[u] = rsUser[u]
    BY <1>1, <1>8 DEF Turn
  <2>2. \A u \in Asker : rsUser'[u].at # "idle" =>
            /\ rsUser'[u].req \in 1..Len(asked) /\ rsUser'[u].req # r
            /\ asked[rsUser'[u].req].result = "none" /\ ~asked[rsUser'[u].req].clean
    BY <1>1, <2>1 DEF Owned
  <2>3. \A u, v \in Asker : rsUser'[u].at # "idle" /\ rsUser'[v].at # "idle" /\ u # v =>
            rsUser'[u].req # rsUser'[v].req
    BY <1>1, <2>1 DEF Owned
  <2>4. \A q \in 1..Len(asked) : asked'[q].kind \in Answers!Calls[rs'.service]
    BY <1>1, <1>7 DEF Owned
  <2>5. rs'.service = "misagent" => \A u \in Asker : rsUser'[u].at = "idle"
    BY <2>1
  <2>6. QED  BY <1>6, <2>2, <2>3, <2>4, <2>5 DEF Owned
<1>12. Heard(responder)'
  BY <1>6, <1>7 DEF Heard
<1>13. Expected'
  BY <1>8 DEF Expected
<1>14. Judged'
  <2>1. ASSUME NEW i \in 1..Len(asked), asked'[i].clean, asked'[i].result = "SUCCESS",
               asked'[i].kind # "free"
        PROVE  asked'[i].read = i /\ (asked'[i].kind \in Answers!Trusting \/ i \in responder.done)
    BY <1>1, <1>4, <1>6, <1>7, <2>1 DEF Judged, say
  <2>2. rs.service = "misagent" => r = Len(asked)
    BY <1>1 DEF Turn
  <2>3. QED  BY <1>2, <1>6, <1>7, <2>1, <2>2 DEF Judged
<1>15. QED  BY <1>9, <1>10, <1>11, <1>12, <1>13, <1>14 DEF AskInv

LEMMA AskBeginInv ==
    ASSUME AskInv, NEW t \in Asker, NEW kind, Answers!Begin(t, kind) PROVE AskInv'
<1> DEFINE n == Len(asked) + 1
           new == [kind |-> kind, clean |-> FALSE, result |-> "none", read |-> 0]
<1>1. /\ rs \in AskClient /\ rsUser \in [Asker -> AskUser]
      /\ asked \in Seq(AskRequest) /\ responder \in AskDevice /\ Len(asked) \in Nat
      /\ Turn /\ Owned /\ Expected /\ Judged /\ Heard(responder)
  BY AskTyped, LenProperties DEF AskInv
<1>2. n \in 0..MaxAsked /\ n \notin 1..Len(asked) /\ n # 0 /\ 0 \in 0..MaxAsked
  BY <1>1, AskBounds DEF Answers!Begin
<1>3. kind \in Answers!Calls[rs.service] /\ kind \in Answers!Kind
  BY <1>1, AskKinds DEF Answers!Begin, AskClient
<1>4. new \in AskRequest /\ new.kind = kind /\ ~new.clean /\ new.result = "none"
  BY <1>2, <1>3 DEF AskRequest
<1>5. /\ rsUser[t].at = "idle" /\ responder' = responder /\ asked' = Append(asked, new)
      /\ rs.service # "sbservices" => \A u \in Asker : rsUser[u].at = "idle"
      /\ rs' = IF rs.service = "misagent" THEN [rs EXCEPT !.last_error = "UNKNOWN_ERROR"] ELSE rs
      /\ rsUser' = [rsUser EXCEPT ![t] = [at |-> IF rs.service = "sbservices" THEN "lock"
                                                 ELSE "send", req |-> n]]
  BY DEF Answers!Begin, Answers!At
<1> HIDE DEF new, n
<1>6. /\ asked' \in Seq(AskRequest) /\ Len(asked') = n /\ asked'[n] = new
      /\ \A i \in 1..Len(asked) : asked'[i] = asked[i]
      /\ 1..n = 1..Len(asked) \cup {n}
  BY <1>1, <1>4, <1>5, Appended DEF n
<1>7. /\ rs' \in AskClient /\ rs'.service = rs.service /\ rs'.mutex = rs.mutex
      /\ rs'.info = rs.info
      /\ rs'.last_error = IF rs.service = "misagent" THEN "UNKNOWN_ERROR" ELSE rs.last_error
  BY <1>1, <1>5 DEF AskClient
<1>8. /\ rsUser' \in [Asker -> AskUser] /\ rsUser'[t].req = n
      /\ rsUser'[t].at = IF rs.service = "sbservices" THEN "lock" ELSE "send"
      /\ \A u \in Asker : u # t => rsUser'[u] = rsUser[u]
  BY <1>1, <1>2, <1>5 DEF AskUser
<1>9. Answers!TypeOK'
  BY <1>1, <1>5, <1>6, <1>7, <1>8
     DEF Answers!TypeOK, AskClient, AskUser, AskRequest, AskAnswer, AskDevice
<1>10. Turn'
  BY <1>1, <1>5, <1>6, <1>7, <1>8 DEF Turn
<1>11. Owned'
  <2>1. \A u \in Asker : rsUser'[u].at # "idle" =>
            IF u = t THEN rsUser'[u].req = n
            ELSE rsUser'[u] = rsUser[u] /\ rsUser[u].req \in 1..Len(asked)
    BY <1>1, <1>8 DEF Owned
  <2>2. \A u \in Asker : rsUser'[u].at # "idle" =>
            rsUser'[u].req \in 1..n /\ asked'[rsUser'[u].req].result = "none"
    BY <1>1, <1>4, <1>6, <1>8, <2>1 DEF Owned
  <2>3. \A u \in Asker : rsUser'[u].at \in {"lock", "send"} => ~asked'[rsUser'[u].req].clean
    BY <1>1, <1>4, <1>6, <1>8, <2>1 DEF Owned
  <2>4. \A u, v \in Asker : rsUser'[u].at # "idle" /\ rsUser'[v].at # "idle" /\ u # v =>
            rsUser'[u].req # rsUser'[v].req
    BY <1>1, <1>2, <1>8, <2>1 DEF Owned
  <2>5. \A r \in 1..n : asked'[r].kind \in Answers!Calls[rs.service]
    BY <1>1, <1>3, <1>4, <1>6 DEF Owned
  <2>6. QED  BY <1>6, <1>7, <2>2, <2>3, <2>4, <2>5 DEF Owned
<1>12. Heard(responder)'
  BY <1>1, <1>5, <1>6 DEF Heard
<1>13. Expected'
  <2>1. ASSUME NEW r \in 1..Len(asked) PROVE NoOther(responder, r) => NoOther(responder, r)'
    BY <1>1, <1>5, <1>6 DEF NoOther, Heard
  <2>2. \A u \in Asker : rsUser'[u].at = "receive" =>
            u # t /\ rsUser'[u] = rsUser[u] /\ rsUser[u].req \in 1..Len(asked)
    BY <1>1, <1>8 DEF Owned
  <2>3. QED  BY <1>1, <1>6, <2>1, <2>2 DEF Expected
<1>14. Judged'
  BY <1>1, <1>4, <1>5, <1>6, <1>7 DEF Judged
<1>15. QED  BY <1>9, <1>10, <1>11, <1>12, <1>13, <1>14 DEF AskInv

LEMMA AskLockInv == ASSUME AskInv, NEW t \in Asker, Answers!Lock(t) PROVE AskInv'
<1>1. /\ rs \in AskClient /\ rsUser \in [Asker -> AskUser]
      /\ asked \in Seq(AskRequest) /\ responder \in AskDevice /\ "free" \notin Asker
      /\ Turn /\ Owned /\ Expected /\ Judged /\ Heard(responder)
  BY AskTyped, AskBounds DEF AskInv
<1>2. /\ rsUser[t].at = "lock" /\ rs.mutex = "free" /\ asked' = asked /\ responder' = responder
      /\ rs' = [rs EXCEPT !.mutex = t] /\ rsUser' = [rsUser EXCEPT ![t].at = "send"]
  BY DEF Answers!Lock, Answers!At
<1>3. /\ rs' \in AskClient /\ rs'.service = rs.service /\ rs'.mutex = t
      /\ rs'.info = rs.info /\ rs'.last_error = rs.last_error
  BY <1>1, <1>2 DEF AskClient
<1>4. /\ rsUser' \in [Asker -> AskUser] /\ rsUser'[t].at = "send" /\ rsUser'[t].req = rsUser[t].req
      /\ \A u \in Asker : u # t => rsUser'[u] = rsUser[u]
  BY <1>1, <1>2 DEF AskUser
<1>5. Answers!TypeOK'
  BY <1>1, <1>2, <1>3, <1>4
     DEF Answers!TypeOK, AskClient, AskUser, AskRequest, AskAnswer, AskDevice
<1>6. Turn'
  BY <1>1, <1>2, <1>3, <1>4 DEF Turn
<1>7. Owned'
  BY <1>1, <1>2, <1>3, <1>4 DEF Owned
<1>8. Heard(responder)' /\ Judged'
  BY <1>1, <1>2, <1>3 DEF Heard, Judged
<1>9. Expected'
  BY <1>1, <1>2, <1>4 DEF Expected, NoOther
<1>10. QED  BY <1>5, <1>6, <1>7, <1>8, <1>9 DEF AskInv

LEMMA AskFreeInv == ASSUME AskInv, Answers!Free PROVE AskInv'
<1>1. rs \in AskClient /\ rs' = [rs EXCEPT !.open = FALSE] /\ UNCHANGED <<rsUser, asked, responder>>
  BY AskTyped DEF AskInv, Answers!Free
<1>2. /\ rs' \in AskClient /\ rs'.service = rs.service /\ rs'.mutex = rs.mutex
      /\ rs'.info = rs.info /\ rs'.last_error = rs.last_error
  BY <1>1 DEF AskClient
<1>3. QED
  BY <1>1, <1>2 DEF AskInv, Answers!TypeOK, AskClient, Turn, Owned, Heard, Expected, NoOther, Judged

\* What the end of a call leaves of the client.
LEMMA AskLeft ==
    ASSUME rs \in AskClient, NEW t \in Asker
    PROVE  /\ Answers!Left(t) \in AskClient
           /\ Answers!Left(t).service = rs.service /\ Answers!Left(t).info = rs.info
           /\ Answers!Left(t).last_error = rs.last_error
           /\ Answers!Left(t).silences = rs.silences
           /\ Answers!Left(t).mutex = IF rs.mutex = t THEN "free" ELSE rs.mutex
  BY DEF AskClient, Answers!Left

LEMMA AskSendInv == ASSUME AskInv, NEW t \in Asker, Answers!Send(t) PROVE AskInv'
<1>1. PICK r : r = rsUser[t].req
  OBVIOUS
<1>2. /\ rs \in AskClient /\ rsUser \in [Asker -> AskUser]
      /\ asked \in Seq(AskRequest) /\ responder \in AskDevice
      /\ Turn /\ Owned /\ Expected /\ Judged /\ Heard(responder)
  BY AskTyped DEF AskInv
<1>3. /\ rsUser[t].at = "send" /\ r \in 1..Len(asked) /\ r \in 0..MaxAsked
      /\ ~asked[r].clean /\ asked[r] \in AskRequest
  BY <1>1, <1>2, ElementOfSeq DEF Answers!Send, Answers!At, Owned, AskUser
<1>4. \/ responder' = [responder EXCEPT !.in = Append(@, r)]
      \/ responder' = responder
  BY <1>1 DEF Answers!Send
<1>5. /\ responder' \in AskDevice /\ responder'.done = responder.done
      /\ responder'.out = responder.out
      /\ responder'.in \in {responder.in, Append(responder.in, r)}
  <2>1. responder.in \in Seq(0..MaxAsked) /\ Append(responder.in, r) \in Seq(0..MaxAsked)
    BY <1>1, <1>2, <1>3, AppendProperties DEF AskDevice
  <2>2. QED  BY <1>2, <1>4, <2>1 DEF AskDevice
<1>6. \A i \in 1..Len(responder'.in) :
          \/ responder'.in[i] = r
          \/ i \in 1..Len(responder.in) /\ responder'.in[i] = responder.in[i]
  <2>1. responder.in \in Seq(0..MaxAsked)
    BY <1>2 DEF AskDevice
  <2>2. CASE responder'.in = responder.in
    BY <2>1, <2>2
  <2>3. CASE responder'.in = Append(responder.in, r)
    BY <1>3, <2>1, <2>3, AppendedItems
  <2>4. QED  BY <1>5, <2>2, <2>3
<1>7. Heard(responder')
  BY <1>1, <1>2, <1>3, <1>5, <1>6 DEF Heard
<1>8. ASSUME Answers!Return(t, "SUCCESS", 0), rs' = Answers!Left(t) PROVE AskInv'
  <2>1. 0 \in 0..MaxAsked
    BY AskBounds
  <2>2. rs.service = "misagent" => rs.last_error = "UNKNOWN_ERROR"
    BY <1>1, <1>2, <1>3 DEF Owned
  <2>3. QED
    BY <1>1, <1>2, <1>3, <1>5, <1>7, <1>8, <2>1, <2>2, AskLeft, AskReturns DEF Judged
<1>9. ASSUME Answers!Return(t, "FAILED", 0), rs' = Answers!Left(t) PROVE AskInv'
  <2>1. 0 \in 0..MaxAsked
    BY AskBounds
  <2>2. rs.service = "misagent" => rs.last_error = "UNKNOWN_ERROR"
    BY <1>1, <1>2, <1>3 DEF Owned
  <2>3. QED
    BY <1>1, <1>2, <1>3, <1>5, <1>7, <1>9, <2>1, <2>2, AskLeft, AskReturns DEF Judged
<1>10. ASSUME asked[r].kind \notin Answers!Unanswered,
             rsUser' = [rsUser EXCEPT ![t].at = "receive"],
             asked' = [asked EXCEPT ![r].clean = Answers!Clean], rs' = rs
      PROVE  AskInv'
  <2> DEFINE new == [asked[r] EXCEPT !.clean = Answers!Clean]
  <2>1. Answers!Clean \in BOOLEAN
    BY DEF Answers!Clean
  <2>2. /\ new \in AskRequest /\ new.kind = asked[r].kind /\ new.clean = Answers!Clean
        /\ new.result = "none" /\ asked' = [asked EXCEPT ![r] = new]
    BY <1>1, <1>2, <1>3, <1>10, <2>1 DEF AskRequest, Owned
  <2> HIDE DEF new
  <2>3. /\ asked' \in Seq(AskRequest) /\ Len(asked') = Len(asked) /\ asked'[r] = new
        /\ \A i \in 1..Len(asked) : i # r => asked'[i] = asked[i]
    BY <1>1, <1>2, <1>3, <2>2, ExceptSeq
  <2>4. \A i \in 1..Len(asked) : asked'[i].kind = asked[i].kind
    BY <2>2, <2>3
  <2>5. /\ rsUser' \in [Asker -> AskUser] /\ rsUser'[t].at = "receive" /\ rsUser'[t].req = r
        /\ \A u \in Asker : u # t => rsUser'[u] = rsUser[u] /\ rsUser[u].at \in {"idle", "lock"}
    <3>1. \A u \in Asker : u # t => rsUser[u].at \in {"idle", "lock"}
      BY <1>2, <1>3 DEF Turn, AskUser
    <3>2. QED  BY <1>1, <1>2, <1>10, <3>1 DEF AskUser
  <2>6. Answers!TypeOK'
    BY <1>2, <1>5, <1>10, <2>3, <2>5
       DEF Answers!TypeOK, AskClient, AskUser, AskRequest, AskAnswer, AskDevice
  <2>7. Turn'
    BY <1>1, <1>2, <1>3, <1>10, <2>3, <2>5 DEF Turn
  <2>8. Owned'
    <3>1. \A u \in Asker : u # t /\ rsUser'[u].at # "idle" =>
              rsUser'[u].req \in 1..Len(asked) /\ rsUser'[u].req # r
      BY <1>1, <1>2, <1>3, <2>5 DEF Owned
    <3>2. QED  BY <1>1, <1>2, <1>3, <1>10, <2>2, <2>3, <2>4, <2>5, <3>1 DEF Owned
  <2>9. Heard(responder)'
    BY <1>7, <2>3, <2>4 DEF Heard
  <2>10. Expected'
    <3>1. Answers!Clean => NoOther(responder, r)'
      <4>1. SUFFICES ASSUME Answers!Clean PROVE NoOther(responder, r)'
        OBVIOUS
      <4>2. /\ responder'.out = << >> /\ Len(<< >>) = 0
            /\ \A i \in 1..Len(responder.in) : asked[responder.in[i]].kind \in Answers!Unanswered
        BY <1>2, <1>5, <4>1, LenProperties DEF Answers!Clean, AskDevice
      <4>3. \A i \in 1..Len(responder.in) : responder.in[i] \in 1..Len(asked)
        BY <1>2 DEF Heard
      <4>4. \A i \in 1..Len(responder'.in) :
                responder'.in[i] = r \/ asked'[responder'.in[i]].kind \in Answers!Unanswered
        BY <1>6, <2>4, <4>2, <4>3
      <4>5. QED  BY <4>2, <4>4 DEF NoOther
    <3>2. \A u \in Asker : rsUser'[u].at = "receive" => u = t /\ rsUser'[u].req = r
      BY <2>5
    <3>3. asked'[r].kind \notin Answers!Unanswered /\ (asked'[r].clean => NoOther(responder, r)')
      BY <1>10, <2>2, <2>3, <3>1
    <3>4. QED  BY <3>2, <3>3 DEF Expected
  <2>11. Judged'
    <3>1. rs.service = "misagent" => rs.last_error = "UNKNOWN_ERROR"
      BY <1>1, <1>2, <1>3 DEF Owned
    <3>2. \A q \in 1..Len(asked) : asked'[q].clean /\ asked'[q].result = "SUCCESS" =>
              q # r /\ asked'[q] = asked[q]
      BY <2>2, <2>3
    <3>3. \A q \in 1..Len(asked) :
              asked'[q].clean /\ asked'[q].result = "SUCCESS" /\ asked'[q].kind # "free" =>
                  /\ asked'[q].read = q
                  /\ asked'[q].kind \in Answers!Trusting \/ q \in responder.done
      BY <1>2, <3>2 DEF Judged
    <3>4. rs.info # 0 => /\ rs.info \in 1..Len(asked) /\ asked'[rs.info].kind = "QueryType"
                         /\ rs.info \in responder.done
      BY <1>2, <2>4 DEF Judged
    <3>5. QED  BY <1>5, <1>10, <2>3, <3>1, <3>3, <3>4 DEF Judged
  <2>12. QED  BY <2>6, <2>7, <2>8, <2>9, <2>10, <2>11 DEF AskInv
<1>11. QED  BY <1>1, <1>8, <1>9, <1>10 DEF Answers!Send, Answers!Mine

LEMMA AskReceiveInv == ASSUME AskInv, NEW t \in Asker, Answers!Receive(t) PROVE AskInv'
<1> DEFINE r == rsUser[t].req
           a == Head(responder.out)
           res == Answers!Judged(asked[r].kind, a)
<1>1. /\ rs \in AskClient /\ rsUser \in [Asker -> AskUser]
      /\ asked \in Seq(AskRequest) /\ responder \in AskDevice
      /\ Turn /\ Owned /\ Expected /\ Judged /\ Heard(responder)
  BY AskTyped DEF AskInv
<1>2. /\ rsUser[t].at = "receive" /\ responder.out # << >> /\ r \in 1..Len(asked)
      /\ asked[r].kind \in Answers!Calls[rs.service]
      /\ responder' = [responder EXCEPT !.out = Tail(@)]
  BY <1>1 DEF Answers!Receive, Answers!At, Owned
<1>3. /\ a = responder.out[1] /\ a \in AskAnswer /\ Tail(responder.out) \in Seq(AskAnswer)
      /\ Len(Tail(responder.out)) = Len(responder.out) - 1 /\ Len(responder.out) \in Nat \ {0}
      /\ \A i \in 1..(Len(responder.out) - 1) : Tail(responder.out)[i] = responder.out[i + 1]
  BY <1>1, <1>2, Rest DEF AskDevice
<1>4. /\ a.to \in 1..Len(asked) /\ a.to \in 0..MaxAsked
      /\ a.granted => a.to \in responder.done
      /\ a.kind = IF asked[a.to].kind = "free" THEN "Goodbye" ELSE asked[a.to].kind
      /\ asked[r].clean => a.to = r
  <2>1. 1 \in 1..Len(responder.out)
    BY <1>3
  <2>2. asked[r].clean => NoOther(responder, r)
    BY <1>1, <1>2 DEF Expected
  <2>3. asked[r].clean => a.to = r
    BY <1>3, <2>1, <2>2 DEF NoOther
  <2>4. a.to \in 0..MaxAsked
    BY <1>3 DEF AskAnswer
  <2>5. QED  BY <1>1, <1>3, <2>1, <2>3, <2>4 DEF Heard
<1>5. /\ responder' \in AskDevice /\ responder'.done = responder.done
      /\ responder'.in = responder.in /\ responder'.out = Tail(responder.out)
  BY <1>1, <1>2, <1>3 DEF AskDevice
<1>6. Heard(responder')
  BY <1>1, <1>3, <1>5 DEF Heard
<1>7. /\ \/ Answers!Return(t, res, a.to)
         \/ /\ res = "SUCCESS" /\ asked[r].kind = "QueryType"
            /\ Answers!Return(t, "FAILED", a.to)
      /\ rs' = CASE rs.service = "misagent" -> [Answers!Left(t) EXCEPT !.last_error = res]
                 [] asked[r].kind = "QueryType" /\ res = "SUCCESS"
                      -> [Answers!Left(t) EXCEPT !.info = a.to]
                 [] OTHER -> Answers!Left(t)
  <2> DEFINE kept == asked[r].kind = "QueryType" /\ res = "SUCCESS"
  <2>1. /\ Answers!Return(t, res, a.to) \/ (kept /\ Answers!Return(t, "FAILED", a.to))
        /\ rs' = CASE rs.service = "misagent" -> [Answers!Left(t) EXCEPT !.last_error = res]
                   [] kept -> [Answers!Left(t) EXCEPT !.info = a.to]
                   [] OTHER -> Answers!Left(t)
    BY Zenon DEF Answers!Receive, Answers!Mine
  <2>2. QED  BY <2>1, Zenon
<1>8. /\ res \in {"SUCCESS", "FAILED"}
      /\ res = "SUCCESS" /\ asked[r].kind \notin Answers!Trusting => a.granted
      /\ res = "SUCCESS" /\ asked[r].kind = "QueryType" => a.granted /\ a.kind = "QueryType"
  BY DEF Answers!Judged, Answers!Fits, Answers!Trusting
<1>9. rs.service = "misagent" => /\ asked[r].kind \notin Answers!Trusting
                                 /\ asked[r].kind # "QueryType"
  <2>1. Answers!Calls["misagent"] = {"Install", "Copy", "Remove"}
    BY DEF Answers!Calls
  <2>2. QED  BY <1>2, <2>1 DEF Answers!Trusting
<1> HIDE DEF r, a, res
<1>10. /\ rs' \in AskClient /\ rs'.service = rs.service
       /\ rs'.mutex = IF rs.mutex = t THEN "free" ELSE rs.mutex
       /\ rs'.last_error = IF rs.service = "misagent" THEN res ELSE rs.last_error
       /\ rs'.info = IF rs.service # "misagent" /\ asked[r].kind = "QueryType" /\ res = "SUCCESS"
                     THEN a.to ELSE rs.info
  <2> DEFINE now == Answers!Left(t)
  <2>1. /\ now \in AskClient /\ now.service = rs.service /\ now.info = rs.info
        /\ now.last_error = rs.last_error /\ now.mutex = IF rs.mutex = t THEN "free" ELSE rs.mutex
    BY <1>1, AskLeft
  <2>2. rs' = CASE rs.service = "misagent" -> [now EXCEPT !.last_error = res]
                [] asked[r].kind = "QueryType" /\ res = "SUCCESS" -> [now EXCEPT !.info = a.to]
                [] OTHER -> now
    BY <1>7
  <2> HIDE DEF now
  <2>3. QED  BY <1>4, <1>8, <1>9, <2>1, <2>2 DEF AskClient
<1>11. asked[r].clean /\ res = "SUCCESS" /\ asked[r].kind # "free" =>
           a.to = r /\ (asked[r].kind \in Answers!Trusting \/ r \in responder.done)
  BY <1>4, <1>8
<1>12. rs.service = "misagent" /\ rs'.last_error = "SUCCESS" /\ asked[r].clean =>
           r \in responder.done
  BY <1>4, <1>8, <1>9, <1>10
<1>13. rs'.info # 0 => /\ rs'.info \in 1..Len(asked) /\ asked[rs'.info].kind = "QueryType"
                       /\ rs'.info \in responder.done
  <2>1. a.kind = "QueryType" => asked[a.to].kind = "QueryType"
    BY <1>4
  <2>2. QED  BY <1>1, <1>4, <1>8, <1>10, <2>1 DEF Judged
<1>14. CASE Answers!Return(t, res, a.to)
  BY <1>2, <1>4, <1>5, <1>6, <1>8, <1>10, <1>11, <1>12, <1>13, <1>14, AskReturns DEF r
<1>15. CASE Answers!Return(t, "FAILED", a.to)
  BY <1>2, <1>4, <1>5, <1>6, <1>10, <1>12, <1>13, <1>15, AskReturns DEF r
<1>16. QED  BY <1>7, <1>14, <1>15

LEMMA AskFailsInv ==
    ASSUME AskInv, NEW t \in Asker, Answers!GivesUp(t) \/ Answers!CutOff(t) PROVE AskInv'
<1>1. /\ rs \in AskClient /\ responder \in AskDevice /\ 0 \in 0..MaxAsked
      /\ Turn /\ Owned /\ Expected /\ Judged /\ Heard(responder)
  BY AskTyped, AskBounds DEF AskInv
<1>2. /\ rsUser[t].at = "receive" /\ responder' = responder /\ Answers!Return(t, "FAILED", 0)
      /\ \/ rs' = Answers!Left(t)
         \/ rs' = [Answers!Left(t) EXCEPT !.silences = @ + 1] /\ rs.silences < MaxUnheard
  BY DEF Answers!GivesUp, Answers!CutOff, Answers!At
<1>3. /\ rs' \in AskClient /\ rs'.service = rs.service /\ rs'.info = rs.info
      /\ rs'.last_error = rs.last_error
      /\ rs'.mutex = IF rs.mutex = t THEN "free" ELSE rs.mutex
  <2> DEFINE now == Answers!Left(t)
  <2>1. /\ now \in AskClient /\ now.service = rs.service /\ now.info = rs.info
        /\ now.last_error = rs.last_error /\ now.mutex = IF rs.mutex = t THEN "free" ELSE rs.mutex
        /\ now.silences = rs.silences
    BY <1>1, AskLeft
  <2>2. \/ rs' = now
        \/ rs' = [now EXCEPT !.silences = @ + 1] /\ rs.silences < MaxUnheard
    BY <1>2
  <2> HIDE DEF now
  <2>3. QED  BY <2>1, <2>2, AskBounds DEF AskClient
<1>4. rs.service = "misagent" => rs.last_error = "UNKNOWN_ERROR"
  BY <1>1, <1>2 DEF Owned
<1>5. QED  BY <1>1, <1>2, <1>3, <1>4, AskReturns DEF Judged

LEMMA AskDeviceInv ==
    ASSUME AskInv, Answers!DeviceAnswers \/ Answers!DeviceGone PROVE AskInv'
<1>1. /\ rs' = rs /\ rsUser' = rsUser /\ asked' = asked
      /\ rs \in AskClient /\ rsUser \in [Asker -> AskUser]
      /\ asked \in Seq(AskRequest) /\ responder \in AskDevice
      /\ Turn /\ Owned /\ Expected /\ Judged /\ Heard(responder)
  BY AskTyped DEF AskInv, Answers!DeviceAnswers, Answers!DeviceGone
<1>2. SUFFICES /\ responder' \in AskDevice /\ Heard(responder')
               /\ \A r \in 1..Len(asked) : NoOther(responder, r) => NoOther(responder', r)
               /\ responder.done \subseteq responder'.done
  <2>1. Answers!TypeOK'
    BY <1>1, <1>2 DEF Answers!TypeOK, AskClient, AskUser, AskRequest, AskAnswer, AskDevice
  <2>2. Turn' /\ Owned' /\ Heard(responder)'
    BY <1>1, <1>2 DEF Turn, Owned, Heard
  <2>3. Expected'
    <3>1. \A r \in 1..Len(asked) : NoOther(responder, r) => NoOther(responder, r)'
      BY <1>1, <1>2 DEF NoOther
    <3>2. \A t \in Asker : rsUser[t].at = "receive" => rsUser[t].req \in 1..Len(asked)
      BY <1>1 DEF Owned
    <3>3. QED  BY <1>1, <3>1, <3>2 DEF Expected
  <2>4. Judged'
    BY <1>1, <1>2 DEF Judged
  <2>5. QED  BY <2>1, <2>2, <2>3, <2>4 DEF AskInv
<1>3. CASE Answers!DeviceGone
  <2>1. responder' = [responder EXCEPT !.up = FALSE, !.in = << >>]
    BY <1>3 DEF Answers!DeviceGone
  <2>2. /\ responder' \in AskDevice /\ responder'.in = << >> /\ responder'.out = responder.out
        /\ responder'.done = responder.done /\ Len(<< >>) = 0
    <3>1. << >> \in Seq(0..MaxAsked) /\ Len(<< >>) = 0
      BY EmptySeq
    <3>2. QED  BY <1>1, <2>1, <3>1 DEF AskDevice
  <2>3. QED  BY <1>1, <2>2 DEF Heard, NoOther
<1>4. CASE Answers!DeviceAnswers
  <2> DEFINE r == Head(responder.in)
             said == IF asked[r].kind = "free" THEN "Goodbye" ELSE asked[r].kind
  <2>1. PICK granted \in BOOLEAN :
            responder' = [responder EXCEPT
                !.in = Tail(@), !.done = IF granted THEN @ \cup {r} ELSE @,
                !.out = IF asked[r].kind \in Answers!Unanswered THEN @
                        ELSE Append(@, [to |-> r, granted |-> granted, kind |-> said])]
    BY <1>4 DEF Answers!DeviceAnswers
  <2> DEFINE a == [to |-> r, granted |-> granted, kind |-> said]
  <2>2. responder.in # << >>
    BY <1>4 DEF Answers!DeviceAnswers
  <2>3. /\ r = responder.in[1] /\ r \in 0..MaxAsked /\ Tail(responder.in) \in Seq(0..MaxAsked)
        /\ Len(Tail(responder.in)) = Len(responder.in) - 1 /\ Len(responder.in) \in Nat \ {0}
        /\ \A i \in 1..(Len(responder.in) - 1) : Tail(responder.in)[i] = responder.in[i + 1]
    BY <1>1, <2>2, Rest DEF AskDevice
  <2>4. r \in 1..Len(asked) /\ asked[r] \in AskRequest
    BY <1>1, <2>3, ElementOfSeq DEF Heard
  <2>5. said \in Answers!Kind
    BY <2>4, AskKinds DEF AskRequest
  <2>6. a \in AskAnswer /\ a.to = r /\ a.granted = granted /\ a.kind = said
    BY <2>1, <2>3, <2>5 DEF AskAnswer
  <2>7. responder' = [responder EXCEPT
                !.in = Tail(@), !.done = IF granted THEN @ \cup {r} ELSE @,
                !.out = IF asked[r].kind \in Answers!Unanswered THEN @ ELSE Append(@, a)]
    BY <2>1
  <2> HIDE DEF a, r
  <2>8. /\ responder' \in AskDevice /\ responder'.in = Tail(responder.in)
        /\ responder'.done = IF granted THEN responder.done \cup {r} ELSE responder.done
        /\ responder'.out = IF asked[r].kind \in Answers!Unanswered THEN responder.out
                            ELSE Append(responder.out, a)
    <3>1. responder.out \in Seq(AskAnswer) => Append(responder.out, a) \in Seq(AskAnswer)
      BY <2>6, AppendProperties
    <3>2. QED  BY <1>1, <2>3, <2>6, <2>7, <3>1 DEF AskDevice
  <2>9. \A i \in 1..Len(responder'.out) :
            \/ responder'.out[i] = a /\ asked[r].kind \notin Answers!Unanswered
            \/ i \in 1..Len(responder.out) /\ responder'.out[i] = responder.out[i]
    <3>1. responder.out \in Seq(AskAnswer)
      BY <1>1 DEF AskDevice
    <3>2. CASE responder'.out = responder.out
      BY <3>2
    <3>3. CASE responder'.out = Append(responder.out, a) /\ asked[r].kind \notin Answers!Unanswered
      BY <2>6, <3>1, <3>3, Appended, LenProperties
    <3>4. QED  BY <2>8, <3>2, <3>3
  <2>10. Heard(responder')
    <3>1. \A i \in 1..Len(responder'.in) : responder'.in[i] \in 1..Len(asked)
      BY <1>1, <2>3, <2>8 DEF Heard
    <3>2. a.granted => a.to \in responder'.done
      BY <2>6, <2>8
    <3>3. responder.done \subseteq responder'.done
      BY <2>8
    <3>4. QED  BY <1>1, <2>4, <2>6, <2>9, <3>1, <3>2, <3>3 DEF Heard
  <2>11. \A q \in 1..Len(asked) : NoOther(responder, q) => NoOther(responder', q)
    <3>1. \A i \in 1..Len(responder'.in) : i + 1 \in 1..Len(responder.in)
                                            /\ responder'.in[i] = responder.in[i + 1]
      BY <2>3, <2>8
    <3>2. 1 \in 1..Len(responder.in)
      BY <2>3
    <3>3. QED  BY <2>3, <2>6, <2>9, <3>1, <3>2 DEF NoOther
  <2>12. QED  BY <2>8, <2>10, <2>11
<1>5. QED  BY <1>3, <1>4

LEMMA AskNextInv == AskInv /\ [Answers!Next]_Answers!vars => AskInv'
<1> SUFFICES ASSUME AskInv, [Answers!Next]_Answers!vars PROVE AskInv'
  OBVIOUS
<1>1. CASE UNCHANGED Answers!vars
  BY <1>1 DEF Answers!vars, AskInv, Answers!TypeOK, Turn, Owned, Heard, Expected, NoOther, Judged
<1>2. CASE \E t \in Asker : Answers!Step(t) \/ \E kind \in Answers!Kind : Answers!Begin(t, kind)
  BY <1>2, AskBeginInv, AskLockInv, AskSendInv, AskReceiveInv, AskFailsInv DEF Answers!Step
<1>3. QED  BY <1>1, <1>2, AskFreeInv, AskDeviceInv DEF Answers!Next

LEMMA AskSaid == AskInv => Answers!DoneAsSaid
<1> SUFFICES ASSUME AskInv PROVE Answers!DoneAsSaid
  OBVIOUS
<1>1. DOMAIN asked = 1..Len(asked) /\ (asked # << >> => Len(asked) # 0)
  BY AskTyped, LenProperties, EmptySeq DEF AskInv
<1>2. QED  BY <1>1 DEF AskInv, Judged, Answers!DoneAsSaid

LEMMA AskServicesInv == ASSUME AskInv, [ServicesNext]_all PROVE AskInv'
<1>1. [Answers!Next]_Answers!vars
  BY DEF ServicesNext, PlistRuns, SrRuns, ServerRuns, Only, all, answersVars, Answers!vars
<1>2. QED  BY <1>1, AskNextInv

\* A call of sbservices, diagnostics_relay, restored, misagent or file_relay that reports a
\* success, sent when no answer was under way, read the device's answer to itself; and the
\* status code of misagent and the answer that restored keeps are the device's own.
THEOREM AnswersDoneAsSaid == ServicesSpec => []DoneAsSaid
<1>1. ServicesInit => AskInv
  BY AskInitInv DEF ServicesInit
<1>2. AskInv /\ [ServicesNext]_all => AskInv'
  BY AskServicesInv
<1>3. AskInv => DoneAsSaid
  BY AskSaid DEF DoneAsSaid
<1>4. QED  BY <1>1, <1>2, <1>3, PTL DEF ServicesSpec

-----------------------------------------------------------------------------
(* ImageMounter.                                                           *)

ImageClient == [mutex : Uploader \cup {"free"}, ssl : BOOLEAN, calls : 0..MaxUploads,
                silences : 0..MaxGivenUp, left : BOOLEAN]

ImageCaller == [at : {"idle", "request", "acknowledgement", "data", "end", "answer",
                      "leave_unlock"},
                verb : Mounter!Verb \cup {"none"}, id : 0..MaxUploads, size : 0..MaxSize,
                tx : 0..MaxSize,
                res : {"none", "SUCCESS", "UNKNOWN_ERROR", "COMMAND_FAILED", "CONN_FAILED"}]

ImageItem == [kind : Mounter!Verb \cup {"bytes"}, id : 0..MaxUploads, size : 0..MaxSize,
              part : 0..MaxSize]

ImageAnswer == [to : 0..MaxUploads, status : Mounter!Status]

ImagePart == [id : 0..MaxUploads, part : 0..MaxSize]

ImageDevice == [up : BOOLEAN, in : Seq(ImageItem), out : Seq(ImageAnswer),
                wants : 0..MaxSize, id : 0..MaxUploads, image : Seq(ImagePart)]

\* How far a call is.
Called(c) ==
    /\ c.at \in {"acknowledgement", "data", "end"} => c.verb = "ReceiveBytes"
    /\ c.at = "answer" => c.verb # "ReceiveBytes"
    /\ c.verb = "ReceiveBytes" => c.size > 0
    /\ c.at = "request" => c.verb # "none"
    /\ c.at \in {"request", "acknowledgement"} => c.tx = 0
    /\ c.at = "data" => c.tx < c.size
    /\ c.at = "end" => c.tx = c.size

\* No upload is under way.
NoUpload(d) ==
    /\ d.wants = 0
    /\ \A i \in 1..Len(d.in) : d.in[i].kind \notin {"ReceiveBytes", "bytes"}
    /\ \A i \in 1..Len(d.out) : d.out[i].status # "ReceiveBytesAck"

\* The last thing to read announces the image of a call.
Announced(d, c) ==
    /\ d.wants = 0 /\ d.in # << >>
    /\ d.in[Len(d.in)].kind = "ReceiveBytes" /\ d.in[Len(d.in)].id = c.id
    /\ d.in[Len(d.in)].size = c.size
    /\ \A i \in 1..(Len(d.in) - 1) : d.in[i].kind \notin {"ReceiveBytes", "bytes"}
    /\ \A i \in 1..Len(d.out) : d.out[i].status # "ReceiveBytesAck"

\* The last answer acknowledges it.
Granted(d, c) ==
    /\ d.in = << >> /\ d.out # << >> /\ d.wants = c.size /\ d.id = c.id /\ d.image = << >>
    /\ d.out[Len(d.out)].to = c.id /\ d.out[Len(d.out)].status = "ReceiveBytesAck"
    /\ \A i \in 1..(Len(d.out) - 1) : d.out[i].status # "ReceiveBytesAck"

\* What the device has taken and has to read, no more than was sent.
Counted(d, c) ==
    /\ d.id = c.id /\ d.wants + Len(d.image) = c.size
    /\ Len(d.image) + Len(d.in) <= c.tx

\* Parts of the image, each in its place.
Placed(d, c) ==
    /\ \A k \in 1..Len(d.image) : d.image[k] = [id |-> c.id, part |-> k]
    /\ \A k \in 1..Len(d.in) : d.in[k].id = c.id /\ d.in[k].part = Len(d.image) + k

\* They are, unless one was lost.
Taking(d, c) ==
    Counted(d, c) /\ (Len(d.image) + Len(d.in) = c.tx => Placed(d, c))

\* The end is answered once.
Ended(d) ==
    /\ d.wants > 0 => d.out = << >>
    /\ Len(d.out) <= 1
    /\ \A i \in 1..Len(d.out) : d.out[i].status # "ReceiveBytesAck"

Whole(c) == [k \in 1..c.size |-> [id |-> c.id, part |-> k]]

InStage(d, c) ==
    /\ c.at = "acknowledgement" => NoUpload(d) \/ Announced(d, c) \/ Granted(d, c)
    /\ c.at \in {"data", "end"} => Taking(d, c)
    /\ c.at = "data" => d.out = << >>
    /\ c.at = "end" => Ended(d)
    /\ c.at \in {"request", "answer", "leave_unlock"} => NoUpload(d)
    /\ c.at = "leave_unlock" /\ c.verb = "ReceiveBytes" /\ c.res = "SUCCESS" => d.image = Whole(c)

ImageInv ==
    /\ Mounter!TypeOK
    /\ \A t \in Uploader : Called(caller[t]) /\ (caller[t].at # "idle" => mim.mutex = t)
    /\ ~mim.left => /\ mim.mutex = "free" => NoUpload(mounter)
                    /\ \A t \in Uploader : caller[t].at # "idle" => InStage(mounter, caller[t])

LEMMA ImageBounds == {MaxUploads, MaxSize, MaxGivenUp} \subseteq Nat /\ "free" \notin Uploader
  BY ComponentsAssumption DEF ComponentsAssumption, Mounter!MounterAssumption

LEMMA ImageTyped ==
    Mounter!TypeOK <=>
        mim \in ImageClient /\ caller \in [Uploader -> ImageCaller] /\ mounter \in ImageDevice
  BY DEF Mounter!TypeOK, ImageClient, ImageCaller, ImageItem, ImageAnswer, ImagePart, ImageDevice

LEMMA ImageNumbers ==
    ASSUME NEW d \in ImageDevice, NEW c \in ImageCaller
    PROVE  /\ Len(d.in) \in Nat /\ Len(d.out) \in Nat /\ Len(d.image) \in Nat
           /\ d.wants \in Nat /\ c.tx \in Nat /\ c.size \in Nat /\ Len(<< >>) = 0
           /\ (d.in # << >> => Len(d.in) # 0) /\ (d.out # << >> => Len(d.out) # 0)
  BY LenProperties, EmptySeq, ImageBounds DEF ImageDevice, ImageCaller

LEMMA ImageCounts ==
    ASSUME NEW d \in ImageDevice, NEW c \in ImageCaller, Counted(d, c)
    PROVE  /\ c.tx < c.size => d.wants > 0
           /\ c.tx = c.size /\ ~(d.wants > 0) =>
                  /\ d.wants = 0 /\ Len(d.in) = 0 /\ Len(d.image) = c.size
                  /\ Len(d.image) + Len(d.in) = c.tx
<1>1. PICK w \in Nat, had \in Nat, comes \in Nat, tx \in Nat, size \in Nat :
          /\ w = d.wants /\ had = Len(d.image) /\ comes = Len(d.in)
          /\ tx = c.tx /\ size = c.size
  BY ImageNumbers
<1>2. w + had = size /\ had + comes <= tx
  BY <1>1 DEF Counted
<1>3. tx < size => w > 0
  BY <1>2
<1>4. tx = size /\ ~(w > 0) => w = 0 /\ comes = 0 /\ had = size /\ had + comes = tx
  BY <1>2
<1>5. QED  BY <1>1, <1>3, <1>4

\* One more part is sent, or lost.
LEMMA ImageCountsMore ==
    ASSUME NEW d \in ImageDevice, NEW e \in ImageDevice, NEW c \in ImageCaller,
           NEW b \in ImageCaller, Counted(d, c), b.tx = c.tx + 1, b.id = c.id, b.size = c.size,
           e.wants = d.wants, e.id = d.id, e.image = d.image,
           Len(e.in) \in {Len(d.in), Len(d.in) + 1}
    PROVE  /\ Counted(e, b)
           /\ Len(e.image) + Len(e.in) = b.tx =>
                  /\ Len(e.in) = Len(d.in) + 1 /\ Len(d.image) + Len(d.in) = c.tx
                  /\ c.tx + 1 = Len(d.image) + (Len(d.in) + 1)
<1>1. PICK w \in Nat, had \in Nat, comes \in Nat, more \in Nat, tx \in Nat, size \in Nat :
          /\ w = d.wants /\ had = Len(d.image) /\ comes = Len(d.in) /\ more = Len(e.in)
          /\ tx = c.tx /\ size = c.size
  BY ImageNumbers
<1>2. w + had = size /\ had + comes <= tx /\ more \in {comes, comes + 1}
  BY <1>1 DEF Counted
<1>3. had + more <= tx + 1
  BY <1>2
<1>4. had + more = tx + 1 => more = comes + 1 /\ had + comes = tx /\ tx + 1 = had + (comes + 1)
  BY <1>2
<1>5. QED  BY <1>1, <1>2, <1>3, <1>4 DEF Counted

LEMMA ImageInitInv == Mounter!Init => ImageInv
<1> SUFFICES ASSUME Mounter!Init PROVE ImageInv
  OBVIOUS
<1>1. 0 \in 0..MaxUploads /\ 0 \in 0..MaxSize /\ 0 \in 0..MaxGivenUp /\ Len(<< >>) = 0
  BY ImageBounds
<1>2. Mounter!TypeOK
  BY <1>1 DEF Mounter!Init, Mounter!Idle, Mounter!TypeOK
<1>3. \A t \in Uploader : caller[t].at = "idle" /\ Called(caller[t])
  BY DEF Mounter!Init, Mounter!Idle, Called
<1>4. NoUpload(mounter)
  BY <1>1 DEF Mounter!Init, NoUpload
<1>5. QED  BY <1>2, <1>3, <1>4 DEF ImageInv

\* The step of the call that has the mutex, or takes it.
LEMMA ImageStep ==
    ASSUME ImageInv, NEW t \in Uploader, NEW c \in ImageCaller,
           mim.mutex \in {"free", t}, mim' \in ImageClient, mim'.mutex = t, mim.left => mim'.left,
           caller' = [caller EXCEPT ![t] = c], c.at # "idle", Called(c),
           mounter' \in ImageDevice, ~mim'.left => InStage(mounter', c)
    PROVE  ImageInv'
<1>1. caller \in [Uploader -> ImageCaller]
  BY ImageTyped DEF ImageInv
<1>2. \A u \in Uploader : u # t => caller[u].at = "idle" /\ Called(caller[u])
  BY ImageBounds DEF ImageInv
<1>3. /\ caller' \in [Uploader -> ImageCaller] /\ caller'[t] = c
      /\ \A u \in Uploader : u # t => caller'[u] = caller[u]
  BY <1>1
<1>4. Mounter!TypeOK'
  BY <1>3
     DEF Mounter!TypeOK, ImageClient, ImageCaller, ImageItem, ImageAnswer, ImagePart, ImageDevice
<1>5. \A u \in Uploader : Called(caller'[u]) /\ (caller'[u].at # "idle" => mim'.mutex = u)
  BY <1>2, <1>3
<1>6. ~mim'.left => /\ mim'.mutex # "free"
                    /\ \A u \in Uploader : caller'[u].at # "idle" => InStage(mounter', caller'[u])
  BY <1>2, <1>3, ImageBounds
<1>7. QED
  BY <1>4, <1>5, <1>6 DEF ImageInv, Called, InStage, NoUpload, Announced, Granted, Taking,
                          Counted, Placed, Ended, Whole

\* Nothing of a call is left with the device.
Settled(d, n) ==
    /\ \A i \in 1..Len(d.in) : d.in[i].id # n
    /\ \A i \in 1..Len(d.out) : d.out[i].to # n
    /\ ~(d.wants > 0 /\ d.id = n)

\* A call that leaves does so in the order of NoUpload, or says that an upload was left.
LEMMA ImageLeaves ==
    ASSUME ImageInv, NEW t \in Uploader, caller[t].at # "idle",
           NEW res \in {"SUCCESS", "UNKNOWN_ERROR", "COMMAND_FAILED", "CONN_FAILED"},
           Mounter!Leave(t, res), mounter' \in ImageDevice,
           ~mim.left /\ (caller[t].verb = "ReceiveBytes" =>
                             res = "SUCCESS" \/ Settled(mounter', caller[t].id))
             => /\ NoUpload(mounter')
                /\ caller[t].verb = "ReceiveBytes" /\ res = "SUCCESS" =>
                       mounter'.image = Whole(caller[t])
    PROVE  ImageInv'
<1> DEFINE c == [caller[t] EXCEPT !.at = "leave_unlock", !.res = res]
<1>1. /\ mim \in ImageClient /\ caller \in [Uploader -> ImageCaller] /\ caller[t] \in ImageCaller
      /\ Called(caller[t]) /\ mim.mutex = t
  BY ImageTyped DEF ImageInv
<1>2. /\ c \in ImageCaller /\ c.at = "leave_unlock" /\ c.res = res /\ c.verb = caller[t].verb
      /\ c.id = caller[t].id /\ c.size = caller[t].size
  BY <1>1 DEF ImageCaller
<1>3. caller' = [caller EXCEPT ![t] = c]
  BY <1>1 DEF Mounter!Leave
<1> HIDE DEF c
<1>4. caller'[t] = c
  BY <1>1, <1>3
<1>5. /\ mim' \in ImageClient /\ mim'.mutex = mim.mutex /\ (mim.left => mim'.left)
      /\ ~mim'.left => /\ ~mim.left
                       /\ caller[t].verb = "ReceiveBytes" =>
                              res = "SUCCESS" \/ ~Mounter!Pending(caller[t].id)'
  BY <1>1 DEF Mounter!Leave, ImageClient
<1>6. ~Mounter!Pending(caller[t].id)' => Settled(mounter', caller[t].id)
  <2>1. DOMAIN mounter'.in = 1..Len(mounter'.in) /\ DOMAIN mounter'.out = 1..Len(mounter'.out)
    BY LenProperties DEF ImageDevice
  <2>2. QED  BY <1>2, <1>4, <2>1 DEF Mounter!Pending, Settled
<1>7. Called(c)
  BY <1>1, <1>2 DEF Called
<1>8. ~mim'.left => InStage(mounter', c)
  BY <1>2, <1>5, <1>6 DEF InStage, Whole
<1>9. QED  BY <1>1, <1>2, <1>3, <1>5, <1>7, <1>8, ImageStep

LEMMA ImageBeginInv ==
    ASSUME ImageInv, NEW t \in Uploader, NEW verb \in Mounter!Verb, NEW size \in 0..MaxSize,
           Mounter!Begin(t, verb, size)
    PROVE  ImageInv'
<1> DEFINE c == [Mounter!Idle EXCEPT !.at = "request", !.verb = verb, !.id = mim.calls + 1,
                                     !.size = size]
<1>1. mim \in ImageClient /\ mounter \in ImageDevice
  BY ImageTyped DEF ImageInv
<1>2. /\ mim.mutex = "free" /\ mim.calls < MaxUploads /\ (size = 0 <=> verb # "ReceiveBytes")
      /\ mim' = [mim EXCEPT !.mutex = t, !.calls = @ + 1] /\ mounter' = mounter
      /\ caller' = [caller EXCEPT ![t] = c]
  BY DEF Mounter!Begin
<1>3. mim.calls + 1 \in 0..MaxUploads /\ 0 \in 0..MaxSize
  BY <1>1, <1>2, ImageBounds DEF ImageClient
<1>4. /\ c \in ImageCaller /\ c.at = "request" /\ c.verb = verb /\ c.size = size /\ c.tx = 0
  BY <1>3 DEF Mounter!Idle, ImageCaller
<1>5. mim' \in ImageClient /\ mim'.mutex = t /\ mim'.left = mim.left
  BY <1>1, <1>2, <1>3 DEF ImageClient
<1> HIDE DEF c
<1>6. Called(c) /\ (~mim.left => InStage(mounter, c))
  <2>1. verb # "none"
    BY DEF Mounter!Verb
  <2>2. QED  BY <1>2, <1>4, <2>1 DEF Called, InStage, ImageInv
<1>7. QED  BY <1>1, <1>2, <1>4, <1>5, <1>6, ImageStep

\* What the client sends comes last.
LEMMA ImageSends ==
    ASSUME NEW t \in Uploader, NEW kind \in Mounter!Verb \cup {"bytes"}, NEW part \in 0..MaxSize,
           mounter \in ImageDevice, caller[t] \in ImageCaller, Mounter!Sent(t, kind, part)
    PROVE  /\ mounter' \in ImageDevice /\ mounter'.out = mounter.out
           /\ mounter'.wants = mounter.wants /\ mounter'.id = mounter.id
           /\ mounter'.image = mounter.image /\ mounter'.in # << >>
           /\ Len(mounter'.in) = Len(mounter.in) + 1 /\ Len(mounter.in) \in Nat
           /\ \A i \in 1..Len(mounter.in) : mounter'.in[i] = mounter.in[i]
           /\ mounter'.in[Len(mounter.in) + 1] =
                  [kind |-> kind, id |-> caller[t].id, size |-> caller[t].size, part |-> part]
<1> DEFINE item == [kind |-> kind, id |-> caller[t].id, size |-> caller[t].size, part |-> part]
<1>1. item \in ImageItem /\ mounter.in \in Seq(ImageItem) /\ Len(mounter.in) \in Nat
  BY LenProperties DEF ImageItem, ImageCaller, ImageDevice
<1>2. mounter' = [mounter EXCEPT !.in = Append(@, item)]
  BY DEF Mounter!Sent
<1> HIDE DEF item
<1>3. /\ mounter' \in ImageDevice /\ mounter'.out = mounter.out
      /\ mounter'.wants = mounter.wants /\ mounter'.id = mounter.id
      /\ mounter'.image = mounter.image /\ mounter'.in = Append(mounter.in, item)
  BY <1>1, <1>2, AppendProperties DEF ImageDevice
<1>4. QED  BY <1>1, <1>3, Appended, LenProperties DEF item

LEMMA ImageRequestInv == ASSUME ImageInv, NEW t \in Uploader, Mounter!Request(t) PROVE ImageInv'
<1>1. /\ mim \in ImageClient /\ caller \in [Uploader -> ImageCaller] /\ caller[t] \in ImageCaller
      /\ mounter \in ImageDevice /\ Called(caller[t]) /\ mim.mutex = t /\ 0 \in 0..MaxSize
      /\ caller[t].at = "request" /\ (~mim.left => NoUpload(mounter))
  BY ImageTyped, ImageBounds DEF ImageInv, InStage, Mounter!Request, Mounter!At
<1>2. CASE UNCHANGED mounter /\ Mounter!Leave(t, "UNKNOWN_ERROR")
  BY <1>1, <1>2, ImageLeaves
<1>3. ASSUME Mounter!Sent(t, caller[t].verb, 0), UNCHANGED mim,
             Mounter!Goto(t, IF caller[t].verb = "ReceiveBytes" THEN "acknowledgement"
                             ELSE "answer")
      PROVE  ImageInv'
  <2> DEFINE c == [caller[t] EXCEPT !.at = IF caller[t].verb = "ReceiveBytes"
                                           THEN "acknowledgement" ELSE "answer"]
  <2>1. /\ c \in ImageCaller /\ c.verb = caller[t].verb /\ c.id = caller[t].id
        /\ c.size = caller[t].size /\ c.tx = caller[t].tx
        /\ c.at = IF caller[t].verb = "ReceiveBytes" THEN "acknowledgement" ELSE "answer"
    BY <1>1 DEF ImageCaller
  <2>2. caller' = [caller EXCEPT ![t] = c]
    BY <1>3 DEF Mounter!Goto
  <2> HIDE DEF c
  <2>3. Called(c)
    BY <1>1, <2>1 DEF Called
  <2>4. caller[t].verb # "none"
    BY <1>1 DEF Called
  <2>5. caller[t].verb \in Mounter!Verb /\ caller[t].verb \in Mounter!Verb \cup {"bytes"}
    BY <1>1, <2>4 DEF ImageCaller
  <2>6. /\ mounter' \in ImageDevice /\ mounter'.out = mounter.out
        /\ mounter'.wants = mounter.wants /\ mounter'.in # << >>
        /\ Len(mounter'.in) = Len(mounter.in) + 1 /\ Len(mounter.in) \in Nat
        /\ \A i \in 1..Len(mounter.in) : mounter'.in[i] = mounter.in[i]
        /\ mounter'.in[Len(mounter.in) + 1] =
               [kind |-> c.verb, id |-> c.id, size |-> c.size, part |-> 0]
    BY <1>1, <1>3, <2>1, <2>5, ImageSends
  <2>7. ASSUME NoUpload(mounter) PROVE InStage(mounter', c)
    <3>1. CASE c.verb = "ReceiveBytes"
      <4>1. Announced(mounter', c)
        BY <2>6, <2>7, <3>1 DEF NoUpload, Announced
      <4>2. QED  BY <2>1, <3>1, <4>1 DEF InStage
    <3>2. CASE c.verb # "ReceiveBytes"
      <4>1. c.verb \notin {"ReceiveBytes", "bytes"}
        BY <2>1, <2>5, <3>2 DEF Mounter!Verb
      <4>2. NoUpload(mounter')
        BY <2>6, <2>7, <4>1 DEF NoUpload
      <4>3. QED  BY <2>1, <3>2, <4>2 DEF InStage
    <3>3. QED  BY <3>1, <3>2
  <2>8. QED  BY <1>1, <1>3, <2>1, <2>2, <2>3, <2>6, <2>7, ImageStep
<1>4. QED  BY <1>2, <1>3 DEF Mounter!Request

LEMMA ImageUploadInv == ASSUME ImageInv, NEW t \in Uploader, Mounter!Upload(t) PROVE ImageInv'
<1> DEFINE next == caller[t].tx + 1
           place == IF next = caller[t].size THEN "end" ELSE "data"
           c == [caller[t] EXCEPT !.tx = next, !.at = place]
<1>1. /\ mim \in ImageClient /\ caller \in [Uploader -> ImageCaller] /\ caller[t] \in ImageCaller
      /\ mounter \in ImageDevice /\ Called(caller[t]) /\ mim.mutex = t
      /\ caller[t].at = "data" /\ mim' = mim
      /\ ~mim.left => Taking(mounter, caller[t]) /\ mounter.out = << >>
  BY ImageTyped DEF ImageInv, InStage, Mounter!Upload, Mounter!At
<1>2. /\ caller[t].tx \in Nat /\ caller[t].size \in Nat /\ caller[t].size <= MaxSize
      /\ caller[t].tx < caller[t].size /\ caller[t].verb = "ReceiveBytes" /\ next \in 0..MaxSize
  BY <1>1, ImageBounds DEF Called, ImageCaller
<1>3. caller' = [caller EXCEPT ![t] = c]
  BY <1>1 DEF Mounter!Upload
<1>4. /\ c \in ImageCaller /\ c.at = place /\ c.verb = caller[t].verb /\ c.id = caller[t].id
      /\ c.size = caller[t].size /\ c.tx = caller[t].tx + 1
  BY <1>1, <1>2 DEF ImageCaller
<1> HIDE DEF c
<1>5. Called(c)
  BY <1>2, <1>4 DEF Called
<1>6. /\ Len(mounter.image) \in Nat /\ Len(mounter.in) \in Nat /\ mounter.wants \in Nat
      /\ Len(<< >>) = 0
  BY <1>1, LenProperties, ImageBounds DEF ImageDevice
<1>7. ASSUME Taking(mounter, caller[t]) PROVE mounter.wants > 0
  BY <1>1, <1>2, <1>7, ImageCounts DEF Taking
<1>8. ASSUME NEW d, Taking(d, c), d.out = << >>, d.wants > 0 PROVE InStage(d, c)
  BY <1>4, <1>6, <1>8 DEF InStage, Ended
<1>9. CASE UNCHANGED mounter
  <2>1. Taking(mounter, caller[t]) => Taking(mounter, c)
    <3>1. ASSUME Counted(mounter, caller[t])
          PROVE  /\ Counted(mounter, c)
                 /\ Len(mounter.image) + Len(mounter.in) # c.tx
      <4>1. Len(mounter.in) # Len(mounter.in) + 1
        BY <1>6
      <4>2. QED  BY <1>1, <1>4, <3>1, <4>1, ImageCountsMore
    <3>2. QED  BY <3>1 DEF Taking
  <2>2. ~mim.left => InStage(mounter, c)
    BY <1>1, <1>7, <1>8, <2>1
  <2>3. QED  BY <1>1, <1>3, <1>4, <1>5, <1>9, <2>2, ImageStep
<1>10. CASE Mounter!Sent(t, "bytes", next)
  <2>1. /\ mounter' \in ImageDevice /\ mounter'.out = mounter.out
        /\ mounter'.wants = mounter.wants /\ mounter'.id = mounter.id
        /\ mounter'.image = mounter.image
        /\ Len(mounter'.in) = Len(mounter.in) + 1
        /\ \A i \in 1..Len(mounter.in) : mounter'.in[i] = mounter.in[i]
        /\ mounter'.in[Len(mounter.in) + 1].id = c.id
        /\ mounter'.in[Len(mounter.in) + 1].part = next
    <3>1. "bytes" \in Mounter!Verb \cup {"bytes"}
      OBVIOUS
    <3>2. /\ mounter' \in ImageDevice /\ mounter'.out = mounter.out
          /\ mounter'.wants = mounter.wants /\ mounter'.id = mounter.id
          /\ mounter'.image = mounter.image
          /\ Len(mounter'.in) = Len(mounter.in) + 1
          /\ \A i \in 1..Len(mounter.in) : mounter'.in[i] = mounter.in[i]
          /\ mounter'.in[Len(mounter.in) + 1] =
                 [kind |-> "bytes", id |-> caller[t].id, size |-> caller[t].size, part |-> next]
      <4> HIDE DEF next
      <4>1. QED  BY <1>1, <1>2, <1>10, <3>1, ImageSends
    <3>3. QED  BY <1>4, <3>2
  <2>2. ASSUME Taking(mounter, caller[t]) PROVE Taking(mounter', c)
    <3>1. Counted(mounter, caller[t])
      BY <2>2 DEF Taking
    <3>2. ASSUME Len(mounter'.image) + Len(mounter'.in) = c.tx PROVE Placed(mounter', c)
      <4>1. /\ Len(mounter.image) + Len(mounter.in) = caller[t].tx
            /\ next = Len(mounter.image) + (Len(mounter.in) + 1)
        BY <1>1, <1>4, <2>1, <3>1, <3>2, ImageCountsMore
      <4>2. Placed(mounter, caller[t])
        BY <2>2, <4>1 DEF Taking
      <4>3. \A k \in 1..Len(mounter'.in) : k \in 1..Len(mounter.in) \/ k = Len(mounter.in) + 1
        BY <1>6, <2>1
      <4> HIDE DEF next
      <4>4. QED  BY <1>4, <2>1, <4>1, <4>2, <4>3 DEF Placed
    <3>3. Counted(mounter', c)
      BY <1>1, <1>4, <2>1, <3>1, ImageCountsMore
    <3>4. QED  BY <3>2, <3>3 DEF Taking
  <2>3. ~mim.left => InStage(mounter', c)
    BY <1>1, <1>7, <1>8, <2>1, <2>2
  <2>4. QED  BY <1>1, <1>3, <1>4, <1>5, <2>1, <2>3, ImageStep
<1>11. QED  BY <1>9, <1>10 DEF Mounter!Upload

LEMMA ImageUploadFailsInv ==
    ASSUME ImageInv, NEW t \in Uploader, Mounter!UploadFails(t) PROVE ImageInv'
<1>1. /\ caller[t] \in ImageCaller /\ mounter \in ImageDevice /\ Called(caller[t])
      /\ caller[t].at = "data" /\ mounter' = mounter /\ Mounter!Leave(t, "COMMAND_FAILED")
      /\ ~mim.left => Taking(mounter, caller[t])
  BY ImageTyped DEF ImageInv, InStage, Mounter!UploadFails, Mounter!At
<1>2. /\ Len(mounter.image) \in Nat /\ Len(mounter.in) \in Nat /\ mounter.wants \in Nat
      /\ caller[t].tx \in Nat /\ caller[t].size \in Nat
  BY <1>1, LenProperties, ImageBounds DEF ImageDevice, ImageCaller
<1>3. ~mim.left => ~Settled(mounter, caller[t].id)
  <2>1. caller[t].tx < caller[t].size
    BY <1>1 DEF Called
  <2>2. Counted(mounter, caller[t]) => mounter.id = caller[t].id /\ mounter.wants > 0
    BY <1>1, <2>1, ImageCounts DEF Counted
  <2>3. QED  BY <1>1, <2>2 DEF Taking, Settled
<1>4. caller[t].verb = "ReceiveBytes"
  BY <1>1 DEF Called
<1>5. QED  BY <1>1, <1>3, <1>4, ImageLeaves

\* The answer that is taken is the first.
LEMMA ImageTaken ==
    ASSUME mounter \in ImageDevice, mounter.out # << >>, Mounter!Taken
    PROVE  /\ mounter' \in ImageDevice /\ mounter'.in = mounter.in /\ mounter'.id = mounter.id
           /\ mounter'.wants = mounter.wants /\ mounter'.image = mounter.image
           /\ Len(mounter'.out) = Len(mounter.out) - 1 /\ Len(mounter.out) \in Nat \ {0}
           /\ \A i \in 1..(Len(mounter.out) - 1) : mounter'.out[i] = mounter.out[i + 1]
           /\ Mounter!Received = mounter.out[1]
           /\ NoUpload(mounter) => NoUpload(mounter')
<1>1. /\ mounter.out \in Seq(ImageAnswer) /\ mounter' = [mounter EXCEPT !.out = Tail(@)]
  BY DEF ImageDevice, Mounter!Taken
<1>2. /\ Tail(mounter.out) \in Seq(ImageAnswer) /\ Head(mounter.out) = mounter.out[1]
      /\ Len(Tail(mounter.out)) = Len(mounter.out) - 1 /\ Len(mounter.out) \in Nat \ {0}
      /\ \A i \in 1..(Len(mounter.out) - 1) : Tail(mounter.out)[i] = mounter.out[i + 1]
  BY <1>1, Rest
<1>3. /\ mounter' \in ImageDevice /\ mounter'.in = mounter.in /\ mounter'.id = mounter.id
      /\ mounter'.wants = mounter.wants /\ mounter'.image = mounter.image
      /\ mounter'.out = Tail(mounter.out)
  BY <1>1, <1>2 DEF ImageDevice
<1>4. NoUpload(mounter) => NoUpload(mounter')
  BY <1>2, <1>3 DEF NoUpload
<1>5. QED  BY <1>2, <1>3, <1>4 DEF Mounter!Received

LEMMA ImageAcknowledgedInv ==
    ASSUME ImageInv, NEW t \in Uploader, Mounter!Acknowledged(t) PROVE ImageInv'
<1>1. /\ mim \in ImageClient /\ caller \in [Uploader -> ImageCaller] /\ caller[t] \in ImageCaller
      /\ mounter \in ImageDevice /\ Called(caller[t]) /\ mim.mutex = t
      /\ caller[t].at = "acknowledgement" /\ mounter.out # << >> /\ Mounter!Taken
      /\ ~mim.left => \/ NoUpload(mounter) \/ Announced(mounter, caller[t])
                      \/ Granted(mounter, caller[t])
  BY ImageTyped DEF ImageInv, InStage, Mounter!Acknowledged, Mounter!At
<1>2. /\ mounter' \in ImageDevice /\ mounter'.in = mounter.in /\ mounter'.id = mounter.id
      /\ mounter'.wants = mounter.wants /\ mounter'.image = mounter.image
      /\ Len(mounter'.out) = Len(mounter.out) - 1 /\ Len(mounter.out) \in Nat \ {0}
      /\ \A i \in 1..(Len(mounter.out) - 1) : mounter'.out[i] = mounter.out[i + 1]
      /\ Mounter!Received = mounter.out[1] /\ (NoUpload(mounter) => NoUpload(mounter'))
  BY <1>1, ImageTaken
<1>3. /\ caller[t].verb = "ReceiveBytes" /\ caller[t].tx = 0 /\ caller[t].size \in Nat \ {0}
      /\ Len(mounter.in) \in Nat /\ Len(<< >>) = 0 /\ (mounter.in # << >> => Len(mounter.in) > 0)
  BY <1>1, LenProperties, EmptySeq, ImageBounds DEF Called, ImageCaller, ImageDevice
<1>4. ASSUME Mounter!Received.status = "ReceiveBytesAck", Mounter!Goto(t, "data"), mim' = mim
      PROVE  ImageInv'
  <2> DEFINE c == [caller[t] EXCEPT !.at = "data"]
  <2>1. /\ c \in ImageCaller /\ c.verb = caller[t].verb /\ c.id = caller[t].id
        /\ c.size = caller[t].size /\ c.tx = caller[t].tx /\ c.at = "data"
    BY <1>1 DEF ImageCaller
  <2>2. caller' = [caller EXCEPT ![t] = c]
    BY <1>4 DEF Mounter!Goto
  <2> HIDE DEF c
  <2>3. Called(c)
    BY <1>3, <2>1 DEF Called
  <2>4. ASSUME ~mim.left PROVE InStage(mounter', c)
    <3>1. Granted(mounter, caller[t])
      BY <1>1, <1>2, <1>4, <2>4 DEF NoUpload, Announced
    <3>2. Len(mounter.out) = 1
      <4>1. mounter.out[Len(mounter.out)].status = "ReceiveBytesAck"
            /\ \A i \in 1..(Len(mounter.out) - 1) : mounter.out[i].status # "ReceiveBytesAck"
        BY <3>1 DEF Granted
      <4>2. PICK m \in Nat \ {0} : m = Len(mounter.out)
        BY <1>2
      <4>3. 1 \notin 1..(m - 1)
        BY <1>2, <1>4, <4>1, <4>2
      <4>4. m = 1
        BY <4>3
      <4>5. QED  BY <4>2, <4>4
    <3>3. mounter'.out = << >>
      BY <1>2, <3>2, EmptySeq DEF ImageDevice
    <3>4. Taking(mounter', c)
      BY <1>2, <1>3, <2>1, <3>1 DEF Granted, Taking, Counted, Placed
    <3>5. QED  BY <2>1, <3>3, <3>4 DEF InStage
  <2>5. QED  BY <1>1, <1>2, <1>4, <2>1, <2>2, <2>3, <2>4, ImageStep
<1>5. ASSUME Mounter!Received.status # "ReceiveBytesAck", Mounter!Leave(t, "COMMAND_FAILED")
      PROVE  ImageInv'
  <2>1. Announced(mounter, caller[t]) => ~Settled(mounter', caller[t].id)
    <3>1. mounter.in # << >> => Len(mounter.in) \in 1..Len(mounter.in)
      BY <1>3
    <3>2. QED  BY <1>2, <3>1 DEF Announced, Settled
  <2>2. Granted(mounter, caller[t]) => ~Settled(mounter', caller[t].id)
    <3>1. SUFFICES ASSUME Granted(mounter, caller[t]) PROVE ~Settled(mounter', caller[t].id)
      OBVIOUS
    <3>2. Len(mounter.out) # 1
      BY <1>2, <1>5, <3>1 DEF Granted
    <3>3. /\ Len(mounter.out) - 1 \in 1..Len(mounter'.out)
          /\ mounter'.out[Len(mounter.out) - 1] = mounter.out[Len(mounter.out)]
      <4>1. PICK n \in Nat \ {0} : n = Len(mounter.out)
        BY <1>2
      <4>2. n # 1
        BY <3>2, <4>1
      <4>3. n - 1 \in 1..(n - 1) /\ (n - 1) + 1 = n
        BY <4>2
      <4>4. mounter'.out[n - 1] = mounter.out[(n - 1) + 1] /\ Len(mounter'.out) = n - 1
        BY <1>2, <4>1, <4>3
      <4>5. QED  BY <4>1, <4>3, <4>4
    <3>4. QED  BY <3>1, <3>3 DEF Granted, Settled
  <2>3. QED  BY <1>1, <1>2, <1>3, <1>5, <2>1, <2>2, ImageLeaves
<1>6. QED  BY <1>4, <1>5 DEF Mounter!Acknowledged

LEMMA ImageUploadedInv ==
    ASSUME ImageInv, NEW t \in Uploader, Mounter!Uploaded(t) PROVE ImageInv'
<1>1. /\ caller[t] \in ImageCaller /\ mounter \in ImageDevice /\ Called(caller[t])
      /\ caller[t].at = "end" /\ mounter.out # << >> /\ Mounter!Taken
      /\ ~mim.left => Taking(mounter, caller[t]) /\ Ended(mounter)
  BY ImageTyped DEF ImageInv, InStage, Mounter!Uploaded, Mounter!At
<1>2. /\ mounter' \in ImageDevice /\ mounter'.in = mounter.in
      /\ mounter'.wants = mounter.wants /\ mounter'.image = mounter.image
      /\ Len(mounter'.out) = Len(mounter.out) - 1 /\ Len(mounter.out) \in Nat \ {0}
  BY <1>1, ImageTaken
<1>3. PICK res \in {"SUCCESS", "COMMAND_FAILED"} : Mounter!Leave(t, res)
  BY DEF Mounter!Uploaded
<1>4. /\ Len(mounter.image) \in Nat /\ Len(mounter.in) \in Nat /\ mounter.wants \in Nat
      /\ caller[t].tx \in Nat /\ caller[t].size \in Nat
  BY <1>1, LenProperties, ImageBounds DEF ImageDevice, ImageCaller
<1>5. ASSUME ~mim.left PROVE NoUpload(mounter') /\ mounter'.image = Whole(caller[t])
  <2>1. mounter.wants = 0 /\ Len(mounter.out) = 1
    <3>1. Ended(mounter) /\ Len(<< >>) = 0 /\ Len(mounter.out) # 0
      BY <1>1, <1>2, <1>5
    <3>2. ~(mounter.wants > 0)
      BY <1>1, <3>1 DEF Ended
    <3>3. Len(mounter.out) <= 1
      BY <3>1 DEF Ended
    <3>4. PICK m \in Nat, w \in Nat : m = Len(mounter.out) /\ w = mounter.wants
      BY <1>2, <1>4
    <3>5. m # 0 /\ m <= 1 /\ ~(w > 0)
      BY <3>1, <3>2, <3>3, <3>4
    <3>6. m = 1 /\ w = 0
      BY <3>5
    <3>7. QED  BY <3>4, <3>6
  <2>2. /\ Len(mounter.in) = 0 /\ Len(mounter.image) = caller[t].size
        /\ \A k \in 1..Len(mounter.image) : mounter.image[k] = [id |-> caller[t].id, part |-> k]
    <3>1. Taking(mounter, caller[t]) /\ caller[t].tx = caller[t].size
      BY <1>1, <1>5 DEF Called
    <3>2. /\ Len(mounter.in) = 0 /\ Len(mounter.image) = caller[t].size
          /\ Len(mounter.image) + Len(mounter.in) = caller[t].tx
      <4>1. ~(mounter.wants > 0)
        BY <2>1
      <4>2. QED  BY <1>1, <3>1, <4>1, ImageCounts DEF Taking
    <3>3. QED  BY <3>1, <3>2 DEF Taking, Placed
  <2>3. mounter.image = [k \in 1..Len(mounter.image) |-> mounter.image[k]]
    BY <1>1, SeqDef, LenProperties DEF ImageDevice
  <2>4. mounter.image = Whole(caller[t])
    BY <2>2, <2>3 DEF Whole
  <2>5. NoUpload(mounter')
    BY <1>2, <2>1, <2>2 DEF NoUpload
  <2>6. QED  BY <1>2, <2>4, <2>5
<1>6. QED  BY <1>1, <1>2, <1>3, <1>5, ImageLeaves

LEMMA ImageAnsweredInv ==
    ASSUME ImageInv, NEW t \in Uploader, Mounter!Answered(t) PROVE ImageInv'
<1>1. /\ mounter \in ImageDevice /\ Called(caller[t])
      /\ caller[t].at = "answer" /\ mounter.out # << >> /\ Mounter!Taken
      /\ Mounter!Leave(t, "SUCCESS") /\ (~mim.left => NoUpload(mounter))
  BY ImageTyped DEF ImageInv, InStage, Mounter!Answered, Mounter!At
<1>2. mounter' \in ImageDevice /\ (NoUpload(mounter) => NoUpload(mounter'))
  BY <1>1, ImageTaken
<1>3. caller[t].verb # "ReceiveBytes"
  BY <1>1 DEF Called
<1>4. QED  BY <1>1, <1>2, <1>3, ImageLeaves

LEMMA ImageCutOffInv ==
    ASSUME ImageInv, NEW t \in Uploader, Mounter!CutOff(t) PROVE ImageInv'
<1>1. /\ caller[t] \in ImageCaller /\ mounter \in ImageDevice /\ Called(caller[t])
      /\ caller[t].at \in {"acknowledgement", "end", "answer"} /\ mounter.out = << >>
      /\ mounter' = mounter /\ Mounter!Leave(t, "CONN_FAILED")
      /\ ~mim.left => InStage(mounter, caller[t])
  BY ImageTyped DEF ImageInv, Mounter!CutOff, Mounter!Receives
<1>2. /\ Len(mounter.image) \in Nat /\ Len(mounter.in) \in Nat /\ mounter.wants \in Nat
      /\ caller[t].tx \in Nat /\ caller[t].size \in Nat /\ Len(<< >>) = 0
      /\ (mounter.in # << >> => Len(mounter.in) > 0)
  BY <1>1, LenProperties, EmptySeq, ImageBounds DEF ImageDevice, ImageCaller
<1>3. ASSUME ~mim.left, caller[t].verb = "ReceiveBytes" => Settled(mounter, caller[t].id)
      PROVE  NoUpload(mounter)
  <2>1. CASE caller[t].at = "acknowledgement"
    <3>1. Settled(mounter, caller[t].id)
      BY <1>1, <1>3, <2>1 DEF Called
    <3>2. ~Announced(mounter, caller[t])
      BY <1>2, <3>1 DEF Announced, Settled
    <3>3. QED  BY <1>1, <1>3, <2>1, <3>2 DEF InStage, Granted
  <2>2. CASE caller[t].at = "end"
    <3>1. /\ Settled(mounter, caller[t].id) /\ Taking(mounter, caller[t])
          /\ caller[t].tx = caller[t].size
      BY <1>1, <1>3, <2>2 DEF Called, InStage
    <3>2. mounter.wants = 0 /\ Len(mounter.in) = 0
      <4>1. ~(mounter.wants > 0) /\ Counted(mounter, caller[t])
        BY <3>1 DEF Taking, Counted, Settled
      <4>2. QED  BY <1>1, <3>1, <4>1, ImageCounts
    <3>3. QED  BY <1>1, <1>2, <3>2 DEF NoUpload
  <2>3. CASE caller[t].at = "answer"
    BY <1>1, <1>3, <2>3 DEF InStage
  <2>4. QED  BY <1>1, <2>1, <2>2, <2>3
<1>4. QED  BY <1>1, <1>3, ImageLeaves

LEMMA ImageGivesUpInv ==
    ASSUME ImageInv, NEW t \in Uploader, Mounter!GivesUp(t) PROVE ImageInv'
<1> DEFINE c == [caller[t] EXCEPT !.at = "leave_unlock", !.res = "UNKNOWN_ERROR"]
<1>1. /\ mim \in ImageClient /\ caller \in [Uploader -> ImageCaller] /\ caller[t] \in ImageCaller
      /\ mounter \in ImageDevice /\ Called(caller[t]) /\ mim.mutex = t
      /\ caller[t].at \in {"acknowledgement", "end", "answer"}
      /\ mounter' = mounter /\ mim.silences < MaxGivenUp
      /\ ~mim.left => InStage(mounter, caller[t])
  BY ImageTyped DEF ImageInv, Mounter!GivesUp, Mounter!Receives
<1>2. /\ c \in ImageCaller /\ c.at = "leave_unlock" /\ c.res = "UNKNOWN_ERROR"
      /\ c.verb = caller[t].verb /\ c.size = caller[t].size
  BY <1>1 DEF ImageCaller
<1>3. caller' = [caller EXCEPT ![t] = c]
  BY <1>1 DEF Mounter!GivesUp
<1> HIDE DEF c
<1>4. mim.silences + 1 \in 0..MaxGivenUp
  BY <1>1, ImageBounds DEF ImageClient
<1>5. /\ mim' \in ImageClient /\ mim'.mutex = mim.mutex
      /\ mim'.left = (mim.left \/ caller[t].verb = "ReceiveBytes")
  BY <1>1, <1>4 DEF Mounter!GivesUp, ImageClient
<1>6. Called(c)
  BY <1>1, <1>2 DEF Called
<1>7. ~mim'.left => InStage(mounter, c)
  BY <1>1, <1>2, <1>5 DEF Called, InStage
<1>8. QED  BY <1>1, <1>2, <1>3, <1>5, <1>6, <1>7, ImageStep

LEMMA ImageUnlockInv == ASSUME ImageInv, NEW t \in Uploader, Mounter!Unlock(t) PROVE ImageInv'
<1>1. /\ mim \in ImageClient /\ caller \in [Uploader -> ImageCaller]
      /\ mounter \in ImageDevice /\ mim.mutex = t /\ mounter' = mounter
      /\ caller' = [caller EXCEPT ![t] = Mounter!Idle] /\ mim' = [mim EXCEPT !.mutex = "free"]
      /\ ~mim.left => NoUpload(mounter)
  BY ImageTyped DEF ImageInv, InStage, Mounter!Unlock, Mounter!At
<1>2. Mounter!Idle \in ImageCaller /\ Mounter!Idle.at = "idle" /\ Called(Mounter!Idle)
  BY ImageBounds DEF Mounter!Idle, ImageCaller, Called
<1>3. mim' \in ImageClient /\ mim'.mutex = "free" /\ mim'.left = mim.left
  BY <1>1 DEF ImageClient
<1>4. /\ caller' \in [Uploader -> ImageCaller]
      /\ \A u \in Uploader : caller'[u].at = "idle" /\ Called(caller'[u])
  BY <1>1, <1>2 DEF ImageInv
<1>5. Mounter!TypeOK'
  BY <1>1, <1>3, <1>4
     DEF Mounter!TypeOK, ImageClient, ImageCaller, ImageItem, ImageAnswer, ImagePart, ImageDevice
<1>6. ~mim'.left => NoUpload(mounter)'
  BY <1>1, <1>3 DEF NoUpload
<1>7. \A u \in Uploader : Called(caller[u])' /\ (caller'[u].at # "idle" => mim'.mutex = u)
  BY <1>4 DEF Called
<1>8. QED  BY <1>4, <1>5, <1>6, <1>7 DEF ImageInv

LEMMA ImageGoneInv ==
    ASSUME mounter \in ImageDevice, Mounter!DeviceGone
    PROVE  /\ mounter' \in ImageDevice /\ (NoUpload(mounter) => NoUpload(mounter'))
           /\ \A c \in ImageCaller : InStage(mounter, c) => InStage(mounter', c)
<1>1. mounter' = [mounter EXCEPT !.up = FALSE, !.in = << >>]
  BY DEF Mounter!DeviceGone
<1>2. << >> \in Seq(ImageItem) /\ Len(<< >>) = 0
  BY EmptySeq
<1>3. /\ mounter' \in ImageDevice /\ mounter'.in = << >> /\ mounter'.out = mounter.out
      /\ mounter'.wants = mounter.wants /\ mounter'.id = mounter.id
      /\ mounter'.image = mounter.image
  BY <1>1, <1>2 DEF ImageDevice
<1>4. NoUpload(mounter) => NoUpload(mounter')
  BY <1>2, <1>3 DEF NoUpload
<1>5. ASSUME NEW c \in ImageCaller, InStage(mounter, c) PROVE InStage(mounter', c)
  <2>1. Announced(mounter, c) => NoUpload(mounter')
    BY <1>2, <1>3 DEF Announced, NoUpload
  <2>2. Granted(mounter, c) => Granted(mounter', c)
    BY <1>3 DEF Granted
  <2>3. ASSUME Taking(mounter, c) PROVE Taking(mounter', c)
    <3>1. PICK had \in Nat, comes \in Nat, tx \in Nat :
              had = Len(mounter.image) /\ comes = Len(mounter.in) /\ tx = c.tx
      BY ImageNumbers
    <3>2. had + comes <= tx
      BY <2>3, <3>1 DEF Taking, Counted
    <3>3. had + 0 <= tx /\ (had + 0 = tx => had + comes = tx)
      BY <3>2
    <3>4. Counted(mounter', c)
      BY <1>2, <1>3, <2>3, <3>1, <3>3 DEF Taking, Counted
    <3>5. Len(mounter'.image) + Len(mounter'.in) = c.tx => Placed(mounter, c)
      BY <1>2, <1>3, <2>3, <3>1, <3>3 DEF Taking
    <3>6. QED  BY <1>2, <1>3, <3>4, <3>5 DEF Taking, Placed
  <2>4. Ended(mounter) => Ended(mounter')
    BY <1>3 DEF Ended
  <2>5. QED  BY <1>3, <1>4, <1>5, <2>1, <2>2, <2>3, <2>4 DEF InStage
<1>6. QED  BY <1>3, <1>4, <1>5

\* The device takes what comes for a part of the image that it waits for.
LEMMA ImageTakesInv ==
    ASSUME mounter \in ImageDevice, Mounter!DeviceTakes
    PROVE  /\ mounter' \in ImageDevice /\ (NoUpload(mounter) => NoUpload(mounter'))
           /\ \A c \in ImageCaller : Called(c) /\ InStage(mounter, c) => InStage(mounter', c)
<1> DEFINE item == Head(mounter.in)
           piece == [id |-> item.id, part |-> item.part]
<1>1. PICK status \in {"Complete", "other"} :
          mounter' = [mounter EXCEPT
              !.in = Tail(@), !.wants = @ - 1, !.image = Append(@, piece),
              !.out = IF mounter.wants > 1 THEN @
                      ELSE Append(@, [to |-> mounter.id, status |-> status])]
  BY DEF Mounter!DeviceTakes
<1> DEFINE answer == [to |-> mounter.id, status |-> status]
<1>2. mounter.in # << >> /\ mounter.wants > 0
  BY DEF Mounter!DeviceTakes
<1>3. /\ item \in ImageItem /\ item = mounter.in[1] /\ Tail(mounter.in) \in Seq(ImageItem)
      /\ Len(Tail(mounter.in)) = Len(mounter.in) - 1 /\ Len(mounter.in) \in Nat \ {0}
      /\ \A i \in 1..(Len(mounter.in) - 1) : Tail(mounter.in)[i] = mounter.in[i + 1]
  BY <1>2, Rest DEF ImageDevice
<1>4. piece \in ImagePart /\ mounter.image \in Seq(ImagePart) /\ mounter.out \in Seq(ImageAnswer)
  BY <1>3 DEF ImageItem, ImagePart, ImageDevice
<1>5. answer \in ImageAnswer /\ answer.status # "ReceiveBytesAck" /\ answer.to = mounter.id
  BY DEF ImageAnswer, ImageDevice, Mounter!Status
<1>6. mounter.wants - 1 \in 0..MaxSize
  BY <1>2, ImageBounds DEF ImageDevice
<1> HIDE DEF piece, answer
<1>7. /\ Append(mounter.image, piece) \in Seq(ImagePart)
      /\ Len(Append(mounter.image, piece)) = Len(mounter.image) + 1
      /\ \A k \in 1..Len(mounter.image) : Append(mounter.image, piece)[k] = mounter.image[k]
      /\ Append(mounter.image, piece)[Len(mounter.image) + 1] = piece
  BY <1>4, Appended
<1>8. Append(mounter.out, answer) \in Seq(ImageAnswer)
  BY <1>4, <1>5, AppendProperties
<1>9. /\ mounter' \in ImageDevice /\ mounter'.in = Tail(mounter.in) /\ mounter'.id = mounter.id
      /\ mounter'.wants = mounter.wants - 1 /\ mounter'.image = Append(mounter.image, piece)
      /\ mounter'.out = IF mounter.wants > 1 THEN mounter.out ELSE Append(mounter.out, answer)
  BY <1>1, <1>3, <1>6, <1>7, <1>8 DEF ImageDevice, answer
<1>10. ~NoUpload(mounter)
  BY <1>2 DEF NoUpload
<1>11. ASSUME NEW c \in ImageCaller, Called(c), InStage(mounter, c) PROVE InStage(mounter', c)
  <2>1. c.at \in {"idle", "data", "end"}
    BY <1>2, <1>10, <1>11 DEF InStage, Announced, Granted, ImageCaller
  <2>2. ASSUME Taking(mounter, c) PROVE Taking(mounter', c)
    <3>1. PICK w \in Nat, had \in Nat, comes \in Nat \ {0}, tx \in Nat, size \in Nat :
              /\ w = mounter.wants /\ had = Len(mounter.image) /\ comes = Len(mounter.in)
              /\ tx = c.tx /\ size = c.size
      BY <1>3, ImageNumbers
    <3>2. w + had = size /\ had + comes <= tx /\ mounter.id = c.id
      BY <2>2, <3>1 DEF Taking, Counted
    <3>3. /\ Len(mounter'.image) = had + 1 /\ Len(mounter'.in) = comes - 1
          /\ mounter'.wants = w - 1
      BY <1>3, <1>7, <1>9, <3>1
    <3>4. /\ (w - 1) + (had + 1) = size /\ (had + 1) + (comes - 1) <= tx
          /\ ((had + 1) + (comes - 1) = tx => had + comes = tx)
      BY <3>2
    <3>5. Counted(mounter', c)
      BY <1>9, <3>1, <3>2, <3>3, <3>4 DEF Counted
    <3>6. ASSUME had + comes = tx PROVE Placed(mounter', c)
      <4>1. /\ \A k \in 1..had : mounter.image[k] = [id |-> c.id, part |-> k]
            /\ \A k \in 1..comes : mounter.in[k].id = c.id /\ mounter.in[k].part = had + k
        BY <2>2, <3>1, <3>6 DEF Taking, Placed
      <4>2. piece = [id |-> c.id, part |-> had + 1]
        BY <1>3, <4>1 DEF piece
      <4>3. \A k \in 1..(had + 1) : k \in 1..had \/ k = had + 1
        OBVIOUS
      <4>4. \A k \in 1..(had + 1) : mounter'.image[k] = [id |-> c.id, part |-> k]
        BY <1>7, <1>9, <3>1, <4>1, <4>2, <4>3
      <4>5. \A k \in 1..(comes - 1) : k + 1 \in 1..comes /\ had + (k + 1) = (had + 1) + k
        OBVIOUS
      <4>6. \A k \in 1..(comes - 1) :
                mounter'.in[k].id = c.id /\ mounter'.in[k].part = (had + 1) + k
        BY <1>3, <1>9, <3>1, <4>1, <4>5
      <4>7. QED  BY <3>3, <4>4, <4>6 DEF Placed
    <3>7. QED  BY <3>1, <3>3, <3>4, <3>5, <3>6 DEF Taking
  <2>3. CASE c.at = "data"
    <3>1. mounter'.wants > 0
      BY <1>9, <1>11, <2>2, <2>3, ImageCounts DEF InStage, Called, Taking
    <3>2. mounter.wants > 1
      <4>1. PICK w \in Nat : w = mounter.wants
        BY ImageNumbers
      <4>2. w - 1 > 0
        BY <1>9, <3>1, <4>1
      <4>3. w > 1
        BY <4>2
      <4>4. QED  BY <4>1, <4>3
    <3>3. QED  BY <1>9, <1>11, <2>2, <2>3, <3>2 DEF InStage
  <2>4. CASE c.at = "end"
    <3>1. mounter.out = << >> /\ Len(<< >>) = 0
      BY <1>2, <1>11, <2>4 DEF InStage, Ended
    <3>2. CASE mounter.wants > 1
      <4>1. Ended(mounter')
        BY <1>9, <3>1, <3>2 DEF Ended
      <4>2. QED  BY <1>11, <2>2, <2>4, <4>1 DEF InStage
    <3>3. CASE ~(mounter.wants > 1)
      <4>1. PICK w \in Nat : w = mounter.wants
        BY ImageNumbers
      <4>2. w > 0 /\ ~(w > 1)
        BY <1>2, <3>3, <4>1
      <4>3. ~(w - 1 > 0)
        BY <4>2
      <4>4. mounter'.out = <<answer>>
        BY <1>9, <3>1, <3>3
      <4>5. Ended(mounter')
        <5>1. mounter'.wants = w - 1 /\ ~(mounter'.wants > 0)
          BY <1>9, <4>1, <4>3
        <5>2. /\ Len(mounter'.out) = 1
              /\ \A i \in 1..Len(mounter'.out) : mounter'.out[i] = answer
          BY <4>4
        <5>3. QED  BY <1>5, <5>1, <5>2 DEF Ended
      <4>6. QED  BY <1>11, <2>2, <2>4, <4>5 DEF InStage
    <3>4. QED  BY <3>2, <3>3
  <2>5. QED  BY <2>1, <2>3, <2>4 DEF InStage
<1>12. QED  BY <1>9, <1>10, <1>11

LEMMA ImageAnswersInv ==
    ASSUME mounter \in ImageDevice, Mounter!DeviceAnswers
    PROVE  /\ mounter' \in ImageDevice /\ (NoUpload(mounter) => NoUpload(mounter'))
           /\ \A c \in ImageCaller : Called(c) /\ InStage(mounter, c) => InStage(mounter', c)
<1> DEFINE item == Head(mounter.in)
<1>1. /\ mounter.in # << >> /\ mounter.wants = 0 /\ item.kind # "bytes"
      /\ \E status \in IF item.kind = "ReceiveBytes" THEN {"ReceiveBytesAck", "other"}
                       ELSE {"Complete", "other"} :
            mounter' = [mounter EXCEPT
                !.in = IF item.kind = "Hangup" THEN << >> ELSE Tail(@),
                !.out = Append(@, [to |-> item.id, status |-> status]),
                !.up = item.kind # "Hangup",
                !.wants = IF status = "ReceiveBytesAck" THEN item.size ELSE 0,
                !.id = IF status = "ReceiveBytesAck" THEN item.id ELSE @,
                !.image = IF status = "ReceiveBytesAck" THEN << >> ELSE @]
  BY DEF Mounter!DeviceAnswers
<1>2. PICK status \in Mounter!Status :
          /\ mounter' = [mounter EXCEPT
                !.in = IF item.kind = "Hangup" THEN << >> ELSE Tail(@),
                !.out = Append(@, [to |-> item.id, status |-> status]),
                !.up = item.kind # "Hangup",
                !.wants = IF status = "ReceiveBytesAck" THEN item.size ELSE 0,
                !.id = IF status = "ReceiveBytesAck" THEN item.id ELSE @,
                !.image = IF status = "ReceiveBytesAck" THEN << >> ELSE @]
          /\ status = "ReceiveBytesAck" => item.kind = "ReceiveBytes"
  BY <1>1 DEF Mounter!Status
<1> DEFINE answer == [to |-> item.id, status |-> status]
<1>3. /\ item \in ImageItem /\ item = mounter.in[1] /\ Tail(mounter.in) \in Seq(ImageItem)
      /\ Len(Tail(mounter.in)) = Len(mounter.in) - 1 /\ Len(mounter.in) \in Nat \ {0}
      /\ \A i \in 1..(Len(mounter.in) - 1) : Tail(mounter.in)[i] = mounter.in[i + 1]
  BY <1>1, Rest DEF ImageDevice
<1>4. /\ answer \in ImageAnswer /\ answer.to = item.id /\ answer.status = status
      /\ mounter.out \in Seq(ImageAnswer) /\ Len(mounter.out) \in Nat
  BY <1>3, LenProperties DEF ImageAnswer, ImageItem, ImageDevice
<1>5. /\ << >> \in Seq(ImageItem) /\ << >> \in Seq(ImagePart) /\ Len(<< >>) = 0
      /\ 0 \in 0..MaxSize
  BY EmptySeq, ImageBounds
<1> HIDE DEF answer
<1>6. /\ Append(mounter.out, answer) \in Seq(ImageAnswer)
      /\ Len(Append(mounter.out, answer)) = Len(mounter.out) + 1
      /\ \A i \in 1..Len(mounter.out) : Append(mounter.out, answer)[i] = mounter.out[i]
      /\ Append(mounter.out, answer)[Len(mounter.out) + 1] = answer
  BY <1>4, Appended
<1>7. mounter' = [mounter EXCEPT
                !.in = IF item.kind = "Hangup" THEN << >> ELSE Tail(@),
                !.out = Append(@, answer),
                !.up = item.kind # "Hangup",
                !.wants = IF status = "ReceiveBytesAck" THEN item.size ELSE 0,
                !.id = IF status = "ReceiveBytesAck" THEN item.id ELSE @,
                !.image = IF status = "ReceiveBytesAck" THEN << >> ELSE @]
  BY <1>2 DEF answer
<1> HIDE DEF item
<1>8. /\ mounter' \in ImageDevice
      /\ mounter'.in = IF item.kind = "Hangup" THEN << >> ELSE Tail(mounter.in)
      /\ mounter'.out = Append(mounter.out, answer)
      /\ mounter'.wants = IF status = "ReceiveBytesAck" THEN item.size ELSE 0
      /\ mounter'.id = IF status = "ReceiveBytesAck" THEN item.id ELSE mounter.id
      /\ mounter'.image = IF status = "ReceiveBytesAck" THEN << >> ELSE mounter.image
  BY <1>3, <1>5, <1>6, <1>7 DEF ImageDevice, ImageItem
<1>9. \A i \in 1..Len(mounter'.in) : mounter'.in[i] = mounter.in[i + 1]
                                     /\ i + 1 \in 1..Len(mounter.in)
  <2>1. PICK n \in Nat \ {0} : n = Len(mounter.in)
    BY <1>3
  <2>2. \A i \in 1..(n - 1) : i + 1 \in 1..n
    OBVIOUS
  <2>3. CASE item.kind = "Hangup"
    BY <1>5, <1>8, <2>3
  <2>4. CASE item.kind # "Hangup"
    BY <1>3, <1>8, <2>1, <2>2, <2>4
  <2>5. QED  BY <2>3, <2>4
<1>10. ASSUME \A i \in 1..Len(mounter.out) : mounter.out[i].status # "ReceiveBytesAck",
              status # "ReceiveBytesAck"
       PROVE  \A i \in 1..Len(mounter'.out) : mounter'.out[i].status # "ReceiveBytesAck"
  <2>1. PICK n \in Nat : n = Len(mounter.out)
    BY <1>4
  <2>2. \A i \in 1..(n + 1) : i \in 1..n \/ i = n + 1
    OBVIOUS
  <2>3. QED  BY <1>4, <1>6, <1>8, <1>10, <2>1, <2>2
<1>11. ASSUME NoUpload(mounter) PROVE NoUpload(mounter') /\ mounter'.image = mounter.image
  <2>1. item.kind # "ReceiveBytes"
    BY <1>3, <1>11 DEF NoUpload
  <2>2. status # "ReceiveBytesAck"
    BY <1>2, <2>1 DEF item
  <2>3. QED  BY <1>8, <1>9, <1>10, <1>11, <2>2 DEF NoUpload
<1>12. ASSUME NEW c \in ImageCaller, Announced(mounter, c)
       PROVE  NoUpload(mounter') \/ Announced(mounter', c) \/ Granted(mounter', c)
  <2>1. PICK n \in Nat \ {0} : n = Len(mounter.in)
    BY <1>3
  <2>2. CASE n = 1 /\ status = "ReceiveBytesAck"
    <3>1. item.kind = "ReceiveBytes" /\ item.id = c.id /\ item.size = c.size
      BY <1>3, <1>12, <2>1, <2>2 DEF Announced
    <3>2. mounter'.in = << >>
      <4>1. n - 1 = 0
        BY <2>2
      <4>2. Tail(mounter.in) \in Seq(ImageItem) /\ Len(Tail(mounter.in)) = 0
        BY <1>3, <2>1, <4>1
      <4>3. Tail(mounter.in) = << >>
        BY <4>2, EmptySeq
      <4>4. QED  BY <1>8, <3>1, <4>3
    <3>3. PICK m \in Nat : m = Len(mounter.out)
      BY <1>4
    <3>4. Len(mounter'.out) = m + 1 /\ (m + 1) - 1 = m /\ m + 1 # 0
      BY <1>6, <1>8, <3>3
    <3>5. /\ mounter'.out[m + 1] = answer /\ mounter'.out # << >>
          /\ \A i \in 1..m : mounter'.out[i].status # "ReceiveBytesAck"
      BY <1>5, <1>6, <1>8, <1>12, <3>3, <3>4 DEF Announced
    <3>6. Granted(mounter', c)
      BY <1>4, <1>8, <2>2, <3>1, <3>2, <3>4, <3>5 DEF Granted
    <3>7. QED  BY <3>6
  <2>3. CASE n = 1 /\ status # "ReceiveBytesAck"
    <3>1. \A i \in 1..(n - 1) : FALSE
      BY <2>3
    <3>2. \A i \in 1..Len(mounter'.in) : FALSE
      BY <1>9, <1>3, <1>5, <1>8, <2>1, <3>1
    <3>3. QED  BY <1>8, <1>10, <1>12, <2>3, <3>2 DEF Announced, NoUpload
  <2>4. CASE n # 1
    <3>1. 1 \in 1..(n - 1) /\ n - 1 \in 1..(n - 1) /\ (n - 1) + 1 = n
      BY <2>4
    <3>2. item.kind # "ReceiveBytes" /\ status # "ReceiveBytesAck"
      BY <1>2, <1>3, <1>12, <2>1, <3>1 DEF Announced, item
    <3>3. CASE item.kind = "Hangup"
      BY <1>5, <1>8, <1>10, <1>12, <3>2, <3>3 DEF Announced, NoUpload
    <3>4. CASE item.kind # "Hangup"
      <4>1. /\ mounter'.in = Tail(mounter.in) /\ Len(mounter'.in) = n - 1
            /\ \A i \in 1..(n - 1) : mounter'.in[i] = mounter.in[i + 1]
        BY <1>3, <1>8, <2>1, <3>4
      <4>2. mounter'.in[n - 1] = mounter.in[n] /\ mounter'.in # << >>
        BY <1>5, <3>1, <4>1
      <4>3. \A i \in 1..((n - 1) - 1) : i \in 1..(n - 1) /\ i + 1 \in 1..(n - 1)
        BY <2>4
      <4>4. \A i \in 1..((n - 1) - 1) : mounter'.in[i].kind \notin {"ReceiveBytes", "bytes"}
        BY <1>12, <2>1, <4>1, <4>3 DEF Announced
      <4>5. Announced(mounter', c)
        BY <1>8, <1>10, <1>12, <2>1, <3>2, <4>1, <4>2, <4>4 DEF Announced
      <4>6. QED  BY <4>5
    <3>5. QED  BY <3>3, <3>4
  <2>5. QED  BY <2>2, <2>3, <2>4
<1>13. ASSUME NEW c \in ImageCaller, Called(c), InStage(mounter, c) PROVE InStage(mounter', c)
  <2>1. ~(mounter.wants > 0)
    BY <1>1
  <2>2. c.at # "data"
    BY <1>13, <2>1, ImageCounts DEF InStage, Taking, Called
  <2>3. c.at # "end"
    BY <1>3, <1>13, <2>1, ImageCounts DEF InStage, Taking, Called
  <2>4. ~Granted(mounter, c)
    BY <1>1 DEF Granted
  <2>5. QED  BY <1>11, <1>12, <1>13, <2>2, <2>3, <2>4 DEF InStage
<1>14. QED  BY <1>8, <1>11, <1>13

LEMMA ImageDeviceInv ==
    ASSUME ImageInv, Mounter!DeviceTakes \/ Mounter!DeviceAnswers \/ Mounter!DeviceGone
    PROVE  ImageInv'
<1>1. /\ mim' = mim /\ caller' = caller /\ mounter \in ImageDevice
      /\ mim \in ImageClient /\ caller \in [Uploader -> ImageCaller]
  BY ImageTyped DEF ImageInv, Mounter!DeviceTakes, Mounter!DeviceAnswers, Mounter!DeviceGone
<1>2. /\ mounter' \in ImageDevice /\ (NoUpload(mounter) => NoUpload(mounter'))
      /\ \A c \in ImageCaller : Called(c) /\ InStage(mounter, c) => InStage(mounter', c)
  BY <1>1, ImageTakesInv, ImageAnswersInv, ImageGoneInv
<1>3. Mounter!TypeOK'
  BY <1>1, <1>2
     DEF Mounter!TypeOK, ImageClient, ImageCaller, ImageItem, ImageAnswer, ImagePart, ImageDevice
<1>4. ~mim.left => /\ mim.mutex = "free" => NoUpload(mounter')
                   /\ \A t \in Uploader : caller[t].at # "idle" => InStage(mounter', caller[t])
  BY <1>1, <1>2 DEF ImageInv
<1>5. NoUpload(mounter') <=> NoUpload(mounter)'
  BY DEF NoUpload
<1>6. \A t \in Uploader : InStage(mounter', caller[t]) <=> InStage(mounter, caller[t])'
  BY <1>1 DEF InStage, NoUpload, Announced, Granted, Taking, Counted, Placed, Ended, Whole
<1>7. \A t \in Uploader : Called(caller[t])'
  BY <1>1 DEF ImageInv, Called
<1>8. QED  BY <1>1, <1>3, <1>4, <1>5, <1>6, <1>7 DEF ImageInv

LEMMA ImageNextInv == ASSUME ImageInv, [Mounter!Next]_Mounter!vars PROVE ImageInv'
<1>1. CASE UNCHANGED Mounter!vars
  <2>1. mim' = mim /\ caller' = caller /\ mounter' = mounter
    BY <1>1 DEF Mounter!vars
  <2>2. Mounter!TypeOK'
    BY <2>1 DEF ImageInv, Mounter!TypeOK
  <2>3. NoUpload(mounter)' <=> NoUpload(mounter)
    BY <2>1 DEF NoUpload
  <2>4. \A t \in Uploader : InStage(mounter, caller[t])' <=> InStage(mounter, caller[t])
    BY <2>1 DEF InStage, NoUpload, Announced, Granted, Taking, Counted, Placed, Ended, Whole
  <2>5. \A t \in Uploader : Called(caller[t])'
    BY <2>1 DEF ImageInv, Called
  <2>6. QED  BY <2>1, <2>2, <2>3, <2>4, <2>5 DEF ImageInv
<1>2. CASE \E t \in Uploader : Mounter!Step(t)
  BY <1>2, ImageRequestInv, ImageUploadInv, ImageUploadFailsInv, ImageAcknowledgedInv,
     ImageUploadedInv, ImageAnsweredInv, ImageGivesUpInv, ImageCutOffInv, ImageUnlockInv
     DEF Mounter!Step
<1>3. QED  BY <1>1, <1>2, ImageBeginInv, ImageDeviceInv DEF Mounter!Next

LEMMA ImageServicesInv == ASSUME ImageInv, [ServicesNext]_all PROVE ImageInv'
<1>1. [Mounter!Next]_Mounter!vars
  BY DEF ServicesNext, PlistRuns, SrRuns, ServerRuns, Only, all, mounterVars, Mounter!vars
<1>2. QED  BY <1>1, ImageNextInv

\* An upload that mobile_image_mounter_upload_image reports as a success is with the
\* device, every part in its place, whatever earlier calls gave up on is answered late;
\* unless an earlier upload was left while the device was about it.
THEOREM UploadWhole == ServicesSpec => []ImageWhole
<1>1. ServicesInit => ImageInv
  BY ImageInitInv DEF ServicesInit
<1>2. ImageInv /\ [ServicesNext]_all => ImageInv'
  BY ImageServicesInv
<1>3. ImageInv => ImageWhole
  BY DEF ImageInv, InStage, Whole, ImageWhole, Mounter!ImageWhole, Mounter!At
<1>4. QED  BY <1>1, <1>2, <1>3, PTL DEF ServicesSpec

-----------------------------------------------------------------------------
(* InstallationProxy.                                                      *)

\* A call that is about a request and waits for the end of it.
IpWaits(us, t) == us[t].pc \in {"read", "perform", "receive", "create"}

\* The updater of a request receives what the device says of it.
IpFollows(ups, r) == ups[r] \in {"perform", "receive"}

\* Each request that is waited for has not been read to its end, and one who waits.
IpOwned(us, ups, reqs) ==
    /\ \A t \in User : IpWaits(us, t) =>
           /\ us[t].req \in 1..Len(reqs) /\ ups[us[t].req] = "none" /\ ~reqs[us[t].req].read
           /\ us[t].pc = "read" => reqs[us[t].req].kind # "Install"
           /\ \A u \in User : u # t /\ IpWaits(us, u) => us[u].req # us[t].req
    /\ \A r \in Installation!Request :
           /\ ups[r] # "none" => r \in 1..Len(reqs)
           /\ IpFollows(ups, r) => ~reqs[r].read

\* What the device may say of a request.
IpMeant(reqs, d, a) ==
    /\ a.req \in 1..Len(reqs)
    /\ a.status = "Part" => reqs[a.req].kind # "LookupArchives"
    /\ a.status = "Complete" => a.req \in d.complete

\* The last message about a request is the last; what has been read to its end is over.
IpOrdered(reqs, d) ==
    /\ Len(reqs) <= MaxRequests
    /\ \A i \in 1..Len(d.answers) : IpMeant(reqs, d, d.answers[i])
    /\ \A i \in 1..Len(d.answers) : d.answers[i].status # "Part" =>
           /\ d.answers[i].req < d.at
           /\ \A j \in (i + 1)..Len(d.answers) : d.answers[i].req < d.answers[j].req
    /\ \A q \in 1..Len(reqs) : reqs[q].read =>
           q < d.at /\ \A i \in 1..Len(d.answers) : q < d.answers[i].req

\* All before a request had been read when it was sent; a success was read to its end,
\* and an operation's is the device's.
IpDone(reqs, d) ==
    /\ \A r \in 1..Len(reqs) : reqs[r].clean => \A q \in 1..(r - 1) : reqs[q].read
    /\ \A r \in 1..Len(reqs) :
           reqs[r].result = "SUCCESS" /\ reqs[r].clean /\ (r < Len(reqs) => reqs[r + 1].clean)
           => reqs[r].read /\ (reqs[r].kind = "Install" => r \in d.complete)

IpInv ==
    /\ Installation!TypeOK /\ IpOwned(ipUser, updaters, requests)
    /\ IpOrdered(requests, installd) /\ IpDone(requests, installd)

-----------------------------------------------------------------------------
LEMMA IpBounds == MaxRequests \in Nat /\ MaxParts \in Nat /\ MaxSilences \in Nat
  BY ComponentsAssumption DEF ComponentsAssumption, Installation!InstallationAssumption

IpClient == [mutex : {"free", "updater"} \cup User,
             parent : {"open", "null", "freed", "gone"},
             status_updater : {0} \cup Installation!Request, undefined : BOOLEAN]

IpCall == [pc : {"idle", "send", "read", "perform", "receive", "create",
                 "store", "null", "end"},
           kind : Installation!Kind, async : BOOLEAN, req : {0} \cup Installation!Request]

IpPlace == {"none", "perform", "receive", "clean", "unlock", "done"}

IpRequest == [kind : Installation!Kind, read : BOOLEAN, clean : BOOLEAN,
              result : {"none", "SUCCESS", "OP_FAILED", "RECEIVE_TIMEOUT", "CONN_FAILED",
                        "INVALID_ARG", "UNKNOWN_ERROR"}]

IpAnswer == [req : Installation!Request, status : {"Part", "Complete", "Error"}]

IpDevice == [up : BOOLEAN, at : 1..(MaxRequests + 1), part : 0..MaxParts,
             answers : Seq(IpAnswer), complete : SUBSET Installation!Request,
             silences : 0..MaxSilences]

LEMMA IpTypes ==
    Installation!TypeOK <=>
        /\ ip \in IpClient /\ ipUser \in [User -> IpCall]
        /\ updaters \in [Installation!Request -> IpPlace]
        /\ requests \in Seq(IpRequest) /\ installd \in IpDevice
  BY DEF Installation!TypeOK, IpClient, IpCall, IpPlace, IpRequest, IpAnswer, IpDevice

LEMMA IpNext ==
    ASSUME ip' \in IpClient, ipUser' \in [User -> IpCall],
           updaters' \in [Installation!Request -> IpPlace],
           requests' \in Seq(IpRequest), installd' \in IpDevice,
           IpOwned(ipUser', updaters', requests'), IpOrdered(requests', installd'),
           IpDone(requests', installd')
    PROVE  IpInv'
  BY DEF Installation!TypeOK, IpClient, IpCall, IpPlace, IpRequest, IpAnswer, IpDevice, IpInv,
     IpOwned, IpWaits, IpFollows, IpOrdered, IpMeant, IpDone

LEMMA IpKnown ==
    ASSUME IpInv
    PROVE  /\ ip \in IpClient /\ ipUser \in [User -> IpCall]
           /\ updaters \in [Installation!Request -> IpPlace]
           /\ requests \in Seq(IpRequest) /\ installd \in IpDevice
           /\ installd.answers \in Seq(IpAnswer)
           /\ installd.complete \in SUBSET Installation!Request
           /\ Len(requests) \in Nat /\ Len(installd.answers) \in Nat
           /\ DOMAIN requests = 1..Len(requests)
           /\ \A r \in 1..Len(requests) : requests[r] \in IpRequest
           /\ \A i \in 1..Len(installd.answers) : installd.answers[i] \in IpAnswer
           /\ Len(requests) <= MaxRequests
<1>1. /\ ip \in IpClient /\ ipUser \in [User -> IpCall]
      /\ updaters \in [Installation!Request -> IpPlace]
      /\ requests \in Seq(IpRequest) /\ installd \in IpDevice
      /\ Len(requests) <= MaxRequests
  BY IpTypes DEF IpInv, IpOrdered
<1>2. installd.answers \in Seq(IpAnswer) /\ installd.complete \in SUBSET Installation!Request
  BY <1>1 DEF IpDevice
<1>3. /\ Len(requests) \in Nat /\ DOMAIN requests = 1..Len(requests)
      /\ \A r \in 1..Len(requests) : requests[r] \in IpRequest
  BY <1>1, LenProperties, ElementOfSeq
<1>4. /\ Len(installd.answers) \in Nat
      /\ \A i \in 1..Len(installd.answers) : installd.answers[i] \in IpAnswer
  BY <1>2, LenProperties, ElementOfSeq
<1>5. QED  BY <1>1, <1>2, <1>3, <1>4

LEMMA IpInitInv == Installation!Init => IpInv
<1> SUFFICES ASSUME Installation!Init PROVE IpInv
  OBVIOUS
<1>1. /\ 0 \in {0} \cup Installation!Request /\ 1 \in 1..(MaxRequests + 1) /\ 0 \in 0..MaxParts
      /\ 0 \in 0..MaxSilences /\ 0 <= MaxRequests
  BY IpBounds
<1>2. << >> \in Seq(IpAnswer) /\ << >> \in Seq(IpRequest) /\ Len(<< >>) = 0 /\ 1..0 = {}
  OBVIOUS
<1>3. ip \in IpClient
  BY <1>1 DEF Installation!Init, IpClient
<1>4. ipUser \in [User -> IpCall] /\ \A t \in User : ipUser[t].pc = "idle"
  BY <1>1 DEF Installation!Init, IpCall, Installation!Kind
<1>5. /\ updaters \in [Installation!Request -> IpPlace]
      /\ \A r \in Installation!Request : updaters[r] = "none"
  BY DEF Installation!Init, IpPlace
<1>6. installd \in IpDevice /\ installd.answers = << >>
  BY <1>1, <1>2 DEF Installation!Init, IpDevice
<1>7. requests \in Seq(IpRequest) /\ requests = << >>
  BY <1>2 DEF Installation!Init
<1>8. IpOwned(ipUser, updaters, requests)
  BY <1>4, <1>5 DEF IpOwned, IpWaits, IpFollows
<1>9. IpOrdered(requests, installd) /\ IpDone(requests, installd)
  BY <1>1, <1>2, <1>6, <1>7 DEF IpOrdered, IpDone
<1>10. QED  BY <1>3, <1>4, <1>5, <1>6, <1>7, <1>8, <1>9, IpTypes DEF IpInv

-----------------------------------------------------------------------------
\* Whoever waits for a request waits on, or has gone.
LEMMA IpStay ==
    ASSUME IpInv, NEW us, NEW ups,
           \A t \in User : IpWaits(us, t) =>
               /\ IpWaits(ipUser, t) /\ us[t].req = ipUser[t].req
               /\ us[t].pc = "read" => ipUser[t].pc = "read",
           \A r \in Installation!Request :
               /\ ups[r] = "none" <=> updaters[r] = "none"
               /\ IpFollows(ups, r) => IpFollows(updaters, r)
    PROVE  IpOwned(us, ups, requests)
<1>1. IpOwned(ipUser, updaters, requests) /\ 1..Len(requests) \subseteq Installation!Request
  BY IpKnown, IpBounds DEF IpInv, Installation!Request
<1>2. QED  BY <1>1 DEF IpOwned

\* A request of which nobody waits for the end any more may change.
LEMMA IpLeft ==
    ASSUME IpInv, NEW us, NEW ups, NEW reqs, NEW r \in 1..Len(requests),
           Len(reqs) = Len(requests), reqs[r].kind = requests[r].kind,
           \A q \in 1..Len(requests) : q # r => reqs[q] = requests[q],
           IpOwned(us, ups, requests),
           \A t \in User : IpWaits(us, t) => us[t].req # r,
           ~IpFollows(ups, r)
    PROVE  IpOwned(us, ups, reqs)
<1>1. \A q \in Installation!Request : IpFollows(ups, q) => q \in 1..Len(requests)
  BY DEF IpOwned, IpFollows
<1>2. QED  BY <1>1 DEF IpOwned

\* A request that fails.
LEMMA IpFails ==
    ASSUME IpInv, NEW r \in 1..Len(requests), NEW res \in {"OP_FAILED", "RECEIVE_TIMEOUT",
               "CONN_FAILED", "INVALID_ARG", "UNKNOWN_ERROR"},
           installd'.answers = installd.answers, installd'.at = installd.at,
           installd'.complete = installd.complete,
           requests' = [requests EXCEPT ![r].result = res]
    PROVE  /\ requests' \in Seq(IpRequest) /\ Len(requests') = Len(requests)
           /\ requests'[r].kind = requests[r].kind
           /\ \A q \in 1..Len(requests) : q # r => requests'[q] = requests[q]
           /\ IpOrdered(requests', installd') /\ IpDone(requests', installd')
<1> DEFINE new == [requests[r] EXCEPT !.result = res]
<1>1. requests' = [requests EXCEPT ![r] = new]
  BY IpKnown
<1>2. new \in IpRequest /\ new.kind = requests[r].kind /\ new.read = requests[r].read
      /\ new.clean = requests[r].clean /\ new.result # "SUCCESS"
  BY IpKnown DEF IpRequest
<1> HIDE DEF new
<1>3. /\ requests' \in Seq(IpRequest) /\ Len(requests') = Len(requests)
      /\ \A q \in 1..Len(requests) : requests'[q] = IF q = r THEN new ELSE requests[q]
  BY <1>1, <1>2, IpKnown, ExceptSeq
<1>4. \A q \in 1..Len(requests) : /\ requests'[q].kind = requests[q].kind
                                  /\ requests'[q].read = requests[q].read
                                  /\ requests'[q].clean = requests[q].clean
                                  /\ \/ requests'[q].result # "SUCCESS"
                                     \/ requests[q].result = "SUCCESS"
  BY <1>2, <1>3
<1>5. IpOrdered(requests', installd')
  BY <1>3, <1>4 DEF IpInv, IpOrdered, IpMeant
<1>6. \A q \in 1..Len(requests) : \A p \in 1..(q - 1) : p \in 1..Len(requests)
  BY IpKnown
<1>7. \A q \in 1..Len(requests) : q < Len(requests) => q + 1 \in 1..Len(requests)
  BY IpKnown
<1>8. IpDone(requests', installd')
  BY <1>3, <1>4, <1>6, <1>7 DEF IpInv, IpDone
<1>9. QED  BY <1>1, <1>2, <1>3, <1>5, <1>8

\* A message is received.
LEMMA IpTaken ==
    ASSUME IpInv, installd.answers # << >>, Installation!Taken
    PROVE  /\ installd' \in IpDevice /\ installd'.at = installd.at
           /\ installd'.complete = installd.complete
           /\ Len(installd.answers) \in Nat \ {0}
           /\ Len(installd'.answers) = Len(installd.answers) - 1
           /\ \A i \in 1..Len(installd'.answers) : /\ i + 1 \in 1..Len(installd.answers)
                                                  /\ installd'.answers[i] = installd.answers[i + 1]
           /\ Installation!Answer = installd.answers[1] /\ 1 \in 1..Len(installd.answers)
           /\ Installation!Answer \in IpAnswer
           /\ IpOrdered(requests, installd') /\ IpDone(requests, installd')
           /\ Installation!Answer.status # "Part" =>
                  /\ Installation!Answer.req < installd.at
                  /\ \A i \in 1..Len(installd'.answers) :
                        Installation!Answer.req < installd'.answers[i].req
<1> DEFINE q == installd.answers
           a == Installation!Answer
<1>1. /\ installd' = [installd EXCEPT !.answers = Tail(q)] /\ a = Head(q)
  BY DEF Installation!Taken, Installation!Answer
<1>2. /\ Head(q) \in IpAnswer /\ Head(q) = q[1] /\ Tail(q) \in Seq(IpAnswer)
      /\ Len(Tail(q)) = Len(q) - 1 /\ Len(q) \in Nat \ {0}
      /\ \A i \in 1..(Len(q) - 1) : Tail(q)[i] = q[i + 1]
  BY IpKnown, Rest
<1>3. /\ installd' \in IpDevice /\ installd'.at = installd.at
      /\ installd'.complete = installd.complete /\ installd'.answers = Tail(q)
  BY <1>1, <1>2, IpKnown DEF IpDevice
<1> HIDE DEF a
<1>4. /\ \A i \in 1..Len(Tail(q)) : i + 1 \in 1..Len(q) /\ Tail(q)[i] = q[i + 1]
      /\ 1 \in 1..Len(q)
  BY <1>2
<1>5. ASSUME NEW i \in 1..Len(Tail(q)), NEW j \in (i + 1)..Len(Tail(q))
      PROVE  j \in 1..Len(Tail(q)) /\ j + 1 \in (i + 1 + 1)..Len(q)
  BY <1>2, <1>5
<1>6. /\ \A i \in 1..Len(q) : IpMeant(requests, installd, q[i])
      /\ \A i \in 1..Len(q) : q[i].status # "Part" =>
           q[i].req < installd.at /\ \A j \in (i + 1)..Len(q) : q[i].req < q[j].req
      /\ \A r \in 1..Len(requests) : requests[r].read =>
           r < installd.at /\ \A i \in 1..Len(q) : r < q[i].req
  BY DEF IpInv, IpOrdered
<1>7. \A i \in 1..Len(Tail(q)) : IpMeant(requests, installd', Tail(q)[i])
  BY <1>3, <1>4, <1>6 DEF IpMeant
<1>8. \A i \in 1..Len(Tail(q)) : Tail(q)[i].status # "Part" =>
           /\ Tail(q)[i].req < installd.at
           /\ \A j \in (i + 1)..Len(Tail(q)) : Tail(q)[i].req < Tail(q)[j].req
  BY <1>4, <1>5, <1>6
<1>9. \A r \in 1..Len(requests) : requests[r].read =>
           r < installd.at /\ \A i \in 1..Len(Tail(q)) : r < Tail(q)[i].req
  BY <1>4, <1>6
<1>10. IpOrdered(requests, installd')
  BY <1>3, <1>7, <1>8, <1>9, IpKnown DEF IpOrdered
<1>11. IpDone(requests, installd')
  BY <1>3 DEF IpInv, IpDone
<1>12. \A i \in 1..Len(Tail(q)) : i + 1 \in (1 + 1)..Len(q)
  BY <1>2
<1>13. a.status # "Part" =>
          a.req < installd.at /\ \A i \in 1..Len(Tail(q)) : a.req < Tail(q)[i].req
  BY <1>1, <1>2, <1>4, <1>6, <1>12
<1>14. QED  BY <1>1, <1>2, <1>3, <1>4, <1>10, <1>11, <1>13 DEF a

\* The end of a request is received by the one who waits for it; or he takes what
\* belongs to another request for it.
LEMMA IpEnds ==
    ASSUME IpInv, installd.answers # << >>, Installation!Taken,
           NEW r \in 1..Len(requests), ~requests[r].read,
           NEW res \in {"SUCCESS", "OP_FAILED"},
           res = "SUCCESS" /\ Installation!Answer.req = r =>
               /\ Installation!Answer.status # "Part"
               /\ requests[r].kind = "Install" => Installation!Answer.status = "Complete",
           requests' = [Installation!ReadBy(r) EXCEPT ![r].result = res]
    PROVE  /\ requests' \in Seq(IpRequest) /\ Len(requests') = Len(requests)
           /\ requests'[r].kind = requests[r].kind
           /\ \A q \in 1..Len(requests) : q # r => requests'[q] = requests[q]
           /\ IpOrdered(requests', installd') /\ IpDone(requests', installd')
<1> DEFINE a == Installation!Answer
           over == a.req = r /\ a.status # "Part"
           new == [requests[r] EXCEPT !.read = @ \/ over, !.result = res]
           reqs == [requests EXCEPT ![r] = new]
<1>1. over \in BOOLEAN /\ requests[r] \in IpRequest /\ requests[r].read = FALSE
  BY IpKnown DEF IpRequest
<1>2. requests' = reqs
  <2>1. CASE over
    BY <1>1, <2>1, IpKnown DEF Installation!ReadBy, IpRequest
  <2>2. CASE ~over
    BY <1>1, <2>2, IpKnown DEF Installation!ReadBy, IpRequest
  <2>3. QED  BY <2>1, <2>2
<1>3. new \in IpRequest /\ new.kind = requests[r].kind /\ new.read = over
      /\ new.clean = requests[r].clean /\ new.result = res
  BY <1>1 DEF IpRequest
<1>4. over => a.req = r /\ a.status # "Part"
  OBVIOUS
<1>5. res = "SUCCESS" /\ a.req = r =>
          over /\ (requests[r].kind = "Install" => a.status = "Complete")
  OBVIOUS
<1> HIDE DEF new, over
<1>6. /\ reqs \in Seq(IpRequest) /\ Len(reqs) = Len(requests)
      /\ \A q \in 1..Len(requests) : reqs[q] = IF q = r THEN new ELSE requests[q]
  BY <1>3, IpKnown, ExceptSeq
<1> HIDE DEF reqs
<1>7. \A q \in 1..Len(requests) : /\ reqs[q].kind = requests[q].kind
                                  /\ reqs[q].clean = requests[q].clean
                                  /\ reqs[q].read <=> requests[q].read \/ (q = r /\ over)
                                  /\ q # r => reqs[q].result = requests[q].result
  BY <1>1, <1>3, <1>6
<1>8. /\ installd'.at = installd.at /\ installd'.complete = installd.complete
      /\ a = installd.answers[1] /\ 1 \in 1..Len(installd.answers) /\ a \in IpAnswer
      /\ IpOrdered(requests, installd') /\ IpDone(requests, installd')
      /\ a.status # "Part" =>
            /\ a.req < installd.at
            /\ \A i \in 1..Len(installd'.answers) : a.req < installd'.answers[i].req
  BY IpTaken
<1>9. IpOrdered(reqs, installd')
  <2>1. \A i \in 1..Len(installd'.answers) : IpMeant(reqs, installd', installd'.answers[i])
    BY <1>6, <1>7, <1>8 DEF IpOrdered, IpMeant
  <2>2. \A q \in 1..Len(reqs) : reqs[q].read =>
            q < installd'.at /\ \A i \in 1..Len(installd'.answers) : q < installd'.answers[i].req
    BY <1>4, <1>6, <1>7, <1>8 DEF IpOrdered
  <2>3. QED  BY <1>6, <1>8, <2>1, <2>2 DEF IpOrdered
<1>10. ASSUME NEW q \in 1..Len(requests), requests[q].clean, NEW p \in 1..(q - 1)
       PROVE  p \in 1..Len(requests) /\ requests[p].read
  <2>1. p \in 1..Len(requests)
    BY <1>10, IpKnown
  <2>2. QED  BY <1>10, <2>1 DEF IpInv, IpDone
<1>11. ASSUME NEW q \in 1..Len(requests), reqs[q].result = "SUCCESS", requests[q].clean,
              q < Len(requests) => reqs[q + 1].clean
       PROVE  reqs[q].read /\ (requests[q].kind = "Install" => q \in installd.complete)
  <2>1. q < Len(requests) => q + 1 \in 1..Len(requests) /\ requests[q + 1].clean
                             /\ q \in 1..((q + 1) - 1)
    BY <1>7, <1>11, IpKnown
  <2>2. CASE q # r
    BY <1>7, <1>11, <2>1, <2>2 DEF IpInv, IpDone
  <2>3. CASE q = r
    <3>1. ~(q < Len(requests))
      BY <1>1, <1>10, <2>1, <2>3
    <3>2. a.req \in 1..Len(requests)
      BY <1>8 DEF IpInv, IpOrdered, IpMeant
    <3>3. ~(a.req < q)
      <4>1. SUFFICES ASSUME a.req < q PROVE FALSE
        OBVIOUS
      <4>2. a.req \in 1..(q - 1)
        BY <3>2, <4>1, IpKnown
      <4>3. requests[a.req].read
        BY <1>10, <1>11, <4>2
      <4>4. a.req < a.req
        BY <1>8, <3>2, <4>3 DEF IpInv, IpOrdered
      <4>5. QED  BY <3>2, <4>4, IpKnown
    <3>4. a.req = r
      BY <2>3, <3>1, <3>2, <3>3, IpKnown
    <3>5. res = "SUCCESS"
      BY <1>3, <1>6, <1>11, <2>3
    <3>6. over /\ (requests[r].kind = "Install" => a.status = "Complete")
      BY <1>5, <3>4, <3>5
    <3>7. requests[r].kind = "Install" => r \in installd.complete
      BY <1>8, <3>4, <3>6 DEF IpInv, IpOrdered, IpMeant
    <3>8. QED  BY <1>7, <2>3, <3>6, <3>7
  <2>4. QED  BY <2>2, <2>3
<1>12. IpDone(reqs, installd')
  BY <1>6, <1>7, <1>8, <1>10, <1>11 DEF IpDone
<1>13. QED  BY <1>2, <1>3, <1>6, <1>9, <1>12

\* A receive that gives up, or for which time goes by.
LEMMA IpSilence ==
    ASSUME IpInv, Installation!Silence
    PROVE  /\ installd' \in IpDevice /\ installd'.answers = installd.answers
           /\ installd'.at = installd.at /\ installd'.complete = installd.complete
<1> DEFINE n == installd.silences + 1
<1>1. installd' = [installd EXCEPT !.silences = n] /\ installd.silences < MaxSilences
  BY DEF Installation!Silence
<1>2. installd.silences \in 0..MaxSilences
  BY IpKnown DEF IpDevice
<1>3. n \in 0..MaxSilences
  <2> DEFINE m == installd.silences
  <2>1. m \in 0..MaxSilences /\ m < MaxSilences
    BY <1>1, <1>2
  <2> HIDE DEF m
  <2>2. m + 1 \in 0..MaxSilences
    BY <2>1, IpBounds
  <2>3. QED  BY <2>2 DEF m
<1> HIDE DEF n
<1>4. QED  BY <1>1, <1>3, IpKnown DEF IpDevice

-----------------------------------------------------------------------------
\* What whoever waits for a request may find.
IpHears(r) ==
    \/ /\ requests' = requests
       /\ (installd.answers # << >> /\ Installation!Taken) \/ Installation!Silence
    \/ /\ installd.answers # << >> /\ Installation!Taken
       /\ \E res \in {"SUCCESS", "OP_FAILED"} :
             /\ res = "SUCCESS" /\ Installation!Answer.req = r =>
                    /\ Installation!Answer.status # "Part"
                    /\ requests[r].kind = "Install" =>
                           Installation!Answer.status = "Complete"
             /\ requests' = [Installation!ReadBy(r) EXCEPT ![r].result = res]
    \/ /\ Installation!Silence \/ installd' = installd
       /\ \E res \in {"RECEIVE_TIMEOUT", "CONN_FAILED", "INVALID_ARG", "UNKNOWN_ERROR"} :
             Installation!Ended(r, res)

LEMMA IpHeard ==
    ASSUME IpInv, NEW r \in 1..Len(requests), ~requests[r].read, IpHears(r)
    PROVE  /\ requests' \in Seq(IpRequest) /\ Len(requests') = Len(requests)
           /\ requests'[r].kind = requests[r].kind
           /\ \A q \in 1..Len(requests) : q # r => requests'[q] = requests[q]
           /\ installd' \in IpDevice
           /\ IpOrdered(requests', installd') /\ IpDone(requests', installd')
<1>1. CASE requests' = requests /\ installd.answers # << >> /\ Installation!Taken
  BY <1>1, IpKnown, IpTaken
<1>2. CASE requests' = requests /\ Installation!Silence
  <2>1. IpOrdered(requests, installd') /\ IpDone(requests, installd')
    BY <1>2, IpSilence DEF IpInv, IpOrdered, IpMeant, IpDone
  <2>2. QED  BY <1>2, <2>1, IpKnown, IpSilence
<1>3. CASE /\ installd.answers # << >> /\ Installation!Taken
           /\ \E res \in {"SUCCESS", "OP_FAILED"} :
                 /\ res = "SUCCESS" /\ Installation!Answer.req = r =>
                        /\ Installation!Answer.status # "Part"
                        /\ requests[r].kind = "Install" =>
                               Installation!Answer.status = "Complete"
                 /\ requests' = [Installation!ReadBy(r) EXCEPT ![r].result = res]
  <2>1. installd' \in IpDevice
    BY <1>3, IpTaken
  <2>2. QED  BY <1>3, <2>1, IpEnds
<1>4. CASE /\ Installation!Silence \/ installd' = installd
           /\ \E res \in {"RECEIVE_TIMEOUT", "CONN_FAILED", "INVALID_ARG", "UNKNOWN_ERROR"} :
                 Installation!Ended(r, res)
  <2>1. /\ installd' \in IpDevice /\ installd'.answers = installd.answers
        /\ installd'.at = installd.at /\ installd'.complete = installd.complete
    BY <1>4, IpSilence, IpKnown
  <2>2. PICK res \in {"RECEIVE_TIMEOUT", "CONN_FAILED", "INVALID_ARG", "UNKNOWN_ERROR"} :
            requests' = [requests EXCEPT ![r].result = res]
    BY <1>4 DEF Installation!Ended
  <2>3. res \in {"OP_FAILED", "RECEIVE_TIMEOUT", "CONN_FAILED", "INVALID_ARG", "UNKNOWN_ERROR"}
    OBVIOUS
  <2>4. QED  BY <2>1, <2>2, <2>3, IpFails
<1>5. QED  BY <1>1, <1>2, <1>3, <1>4 DEF IpHears

LEMMA IpGoes ==
    ASSUME IpInv, NEW t \in User,
           NEW place \in {"idle", "send", "read", "perform", "receive", "create",
                          "store", "null", "end"},
           Installation!Goto(t, place)
    PROVE  /\ ipUser' \in [User -> IpCall] /\ ipUser'[t].pc = place
           /\ ipUser'[t].req = ipUser[t].req
           /\ \A u \in User : u # t => ipUser'[u] = ipUser[u]
<1>1. ipUser \in [User -> IpCall]
  BY IpKnown
<1>2. ipUser' = [ipUser EXCEPT ![t] = [ipUser[t] EXCEPT !.pc = place]]
  BY <1>1 DEF Installation!Goto
<1>3. [ipUser[t] EXCEPT !.pc = place] \in IpCall
  BY <1>1 DEF IpCall
<1>4. QED  BY <1>1, <1>2, <1>3 DEF IpCall

LEMMA IpMoves ==
    ASSUME IpInv, NEW r \in Installation!Request, NEW place \in IpPlace,
           Installation!Move(r, place)
    PROVE  /\ updaters' \in [Installation!Request -> IpPlace] /\ updaters'[r] = place
           /\ \A q \in Installation!Request : q # r => updaters'[q] = updaters[q]
  BY IpKnown DEF Installation!Move

LEMMA IpUnlocked ==
    ASSUME IpInv PROVE Installation!Unlocked \in IpClient
  BY IpKnown DEF Installation!Unlocked, IpClient

LEMMA IpLocked ==
    ASSUME IpInv, NEW t \in User PROVE Installation!Lock(t) \in IpClient
  BY IpKnown DEF Installation!Lock, IpClient

\* A step of which the requests and the device know nothing.
LEMMA IpQuiet ==
    ASSUME IpInv, requests' = requests, installd' = installd, ip' \in IpClient,
           ipUser' \in [User -> IpCall], updaters' \in [Installation!Request -> IpPlace],
           \A t \in User : IpWaits(ipUser', t) =>
               /\ IpWaits(ipUser, t) /\ ipUser'[t].req = ipUser[t].req
               /\ ipUser'[t].pc = "read" => ipUser[t].pc = "read",
           \A r \in Installation!Request :
               /\ updaters'[r] = "none" <=> updaters[r] = "none"
               /\ IpFollows(updaters', r) => IpFollows(updaters, r)
    PROVE  IpInv'
<1>1. IpOwned(ipUser', updaters', requests')
  BY IpStay
<1>2. IpOrdered(requests', installd') /\ IpDone(requests', installd')
  BY DEF IpInv
<1>3. QED  BY <1>1, <1>2, IpKnown, IpNext

\* A caller who waits for a request receives.
LEMMA IpReceives ==
    ASSUME IpInv, NEW t \in User, IpWaits(ipUser, t), updaters' = updaters,
           IpHears(ipUser[t].req),
           ip' \in {ip, Installation!Unlocked} \/ ip' \in IpClient,
           \/ /\ requests' = requests
              /\ ipUser' = ipUser \/ Installation!Goto(t, "perform")
           \/ Installation!Goto(t, "idle")
    PROVE  IpInv'
<1> DEFINE r == ipUser[t].req
<1>1. /\ r \in 1..Len(requests) /\ updaters[r] = "none" /\ ~requests[r].read
      /\ \A u \in User : u # t /\ IpWaits(ipUser, u) => ipUser[u].req # r
  BY DEF IpInv, IpOwned
<1>2. /\ requests' \in Seq(IpRequest) /\ Len(requests') = Len(requests)
      /\ requests'[r].kind = requests[r].kind
      /\ \A q \in 1..Len(requests) : q # r => requests'[q] = requests[q]
      /\ installd' \in IpDevice
      /\ IpOrdered(requests', installd') /\ IpDone(requests', installd')
  BY <1>1, IpHeard
<1>3. ip' \in IpClient /\ updaters' \in [Installation!Request -> IpPlace]
  BY IpKnown, IpUnlocked
<1>4. /\ ipUser' \in [User -> IpCall]
      /\ IpOwned(ipUser', updaters', requests')
  <2>1. CASE requests' = requests /\ ipUser' = ipUser
    BY <2>1, IpKnown DEF IpInv
  <2>2. CASE requests' = requests /\ Installation!Goto(t, "perform")
    <3>1. /\ ipUser' \in [User -> IpCall] /\ ipUser'[t].pc = "perform"
          /\ ipUser'[t].req = ipUser[t].req
          /\ \A u \in User : u # t => ipUser'[u] = ipUser[u]
      BY <2>2, IpGoes
    <3>2. \A u \in User : IpWaits(ipUser', u) =>
               /\ IpWaits(ipUser, u) /\ ipUser'[u].req = ipUser[u].req
               /\ ipUser'[u].pc = "read" => ipUser[u].pc = "read"
      BY <3>1 DEF IpWaits
    <3>3. IpOwned(ipUser', updaters', requests)
      BY <3>2, IpStay
    <3>4. QED  BY <2>2, <3>1, <3>3
  <2>3. CASE Installation!Goto(t, "idle")
    <3>1. /\ ipUser' \in [User -> IpCall] /\ ipUser'[t].pc = "idle"
          /\ \A u \in User : u # t => ipUser'[u] = ipUser[u]
      BY <2>3, IpGoes
    <3>2. \A u \in User : IpWaits(ipUser', u) =>
               /\ IpWaits(ipUser, u) /\ ipUser'[u].req = ipUser[u].req /\ u # t
               /\ ipUser'[u].pc = "read" => ipUser[u].pc = "read"
      BY <3>1 DEF IpWaits
    <3>3. IpOwned(ipUser', updaters', requests)
      BY <3>2, IpStay
    <3>4. \A u \in User : IpWaits(ipUser', u) => ipUser'[u].req # r
      BY <1>1, <3>2
    <3>5. ~IpFollows(updaters', r)
      BY <1>1 DEF IpFollows
    <3>6. IpOwned(ipUser', updaters', requests')
      BY <1>1, <1>2, <3>3, <3>4, <3>5, IpLeft
    <3>7. QED  BY <3>1, <3>6
  <2>4. QED  BY <2>1, <2>2, <2>3
<1>5. QED  BY <1>2, <1>3, <1>4, IpNext

\* The updater of a request receives.
LEMMA IpUpdates ==
    ASSUME IpInv, NEW r \in Installation!Request, updaters[r] = "receive", ipUser' = ipUser,
           IpHears(r), ip' = Installation!Unlocked,
           \/ requests' = requests /\ Installation!Move(r, "perform")
           \/ Installation!Move(r, "clean")
    PROVE  IpInv'
<1>1. /\ r \in 1..Len(requests) /\ ~requests[r].read
      /\ \A t \in User : IpWaits(ipUser, t) => ipUser[t].req # r
  BY DEF IpInv, IpOwned, IpFollows
<1>2. /\ requests' \in Seq(IpRequest) /\ Len(requests') = Len(requests)
      /\ requests'[r].kind = requests[r].kind
      /\ \A q \in 1..Len(requests) : q # r => requests'[q] = requests[q]
      /\ installd' \in IpDevice
      /\ IpOrdered(requests', installd') /\ IpDone(requests', installd')
  BY <1>1, IpHeard
<1>3. ip' \in IpClient /\ ipUser' \in [User -> IpCall]
  BY IpKnown, IpUnlocked
<1>4. /\ updaters' \in [Installation!Request -> IpPlace]
      /\ IpOwned(ipUser', updaters', requests')
  <2>1. CASE requests' = requests /\ Installation!Move(r, "perform")
    <3>1. /\ updaters' \in [Installation!Request -> IpPlace] /\ updaters'[r] = "perform"
          /\ \A q \in Installation!Request : q # r => updaters'[q] = updaters[q]
      BY <2>1, IpMoves DEF IpPlace
    <3>2. IpOwned(ipUser', updaters', requests)
      BY <3>1, IpStay DEF IpFollows
    <3>3. QED  BY <2>1, <3>1, <3>2
  <2>2. CASE Installation!Move(r, "clean")
    <3>1. /\ updaters' \in [Installation!Request -> IpPlace] /\ updaters'[r] = "clean"
          /\ \A q \in Installation!Request : q # r => updaters'[q] = updaters[q]
      BY <2>2, IpMoves DEF IpPlace
    <3>2. IpOwned(ipUser', updaters', requests)
      BY <3>1, IpStay DEF IpFollows
    <3>3. ~IpFollows(updaters', r)
      BY <3>1 DEF IpFollows
    <3>4. IpOwned(ipUser', updaters', requests')
      BY <1>1, <1>2, <3>2, <3>3, IpLeft
    <3>5. QED  BY <3>1, <3>4
  <2>3. QED  BY <2>1, <2>2
<1>5. QED  BY <1>2, <1>3, <1>4, IpNext

-----------------------------------------------------------------------------
LEMMA IpCallInv ==
    ASSUME IpInv, NEW t \in User, NEW kind \in Installation!Kind, NEW async \in BOOLEAN,
           Installation!Call(t, kind, async)
    PROVE  IpInv'
<1> DEFINE c == [pc |-> "send", kind |-> kind, async |-> async, req |-> 0]
<1>1. /\ ip' = ip /\ updaters' = updaters /\ requests' = requests /\ installd' = installd
      /\ ipUser' = [ipUser EXCEPT ![t] = c] /\ ipUser \in [User -> IpCall]
  BY IpKnown DEF Installation!Call
<1>2. c \in IpCall /\ c.pc = "send"
  BY DEF IpCall
<1> HIDE DEF c
<1>3. /\ ipUser' \in [User -> IpCall]
      /\ \A u \in User : ipUser'[u] = IF u = t THEN c ELSE ipUser[u]
  BY <1>1, <1>2
<1>4. QED  BY <1>1, <1>2, <1>3, IpKnown, IpQuiet DEF IpWaits

\* A request is sent.
LEMMA IpSent ==
    ASSUME IpInv, Len(requests) < MaxRequests, NEW kind \in Installation!Kind,
           requests' = Append(requests, [kind |-> kind, result |-> "none", read |-> FALSE,
                                         clean |-> Installation!AllRead])
    PROVE  /\ requests' \in Seq(IpRequest) /\ Len(requests') = Len(requests) + 1
           /\ \A q \in 1..Len(requests) : requests'[q] = requests[q]
           /\ requests'[Len(requests) + 1].kind = kind
           /\ ~requests'[Len(requests) + 1].read
           /\ IpOrdered(requests', installd) /\ IpDone(requests', installd)
<1> DEFINE new == [kind |-> kind, result |-> "none", read |-> FALSE,
                   clean |-> Installation!AllRead]
           n == Len(requests)
<1>1. new \in IpRequest /\ new.kind = kind /\ new.read = FALSE /\ new.result # "SUCCESS"
      /\ new.clean = Installation!AllRead
  BY DEF IpRequest, Installation!AllRead
<1>2. requests' = Append(requests, new)
  OBVIOUS
<1> HIDE DEF new
<1>3. /\ requests' \in Seq(IpRequest) /\ Len(requests') = n + 1 /\ n \in Nat
      /\ \A q \in 1..n : requests'[q] = requests[q]
      /\ requests'[n + 1] = new
  BY <1>1, <1>2, IpKnown, Appended
<1>4. new.clean => \A q \in 1..n : requests[q].read
  BY <1>1, IpKnown DEF Installation!AllRead
<1>5. n + 1 <= MaxRequests /\ (\A q \in 1..(n + 1) : q = n + 1 \/ q \in 1..n)
      /\ 1..n \subseteq 1..(n + 1)
  BY <1>3, IpBounds
<1>6. \A i \in 1..Len(installd.answers) : IpMeant(requests', installd, installd.answers[i])
  BY <1>3, <1>5 DEF IpInv, IpOrdered, IpMeant
<1>7. IpOrdered(requests', installd)
  BY <1>1, <1>3, <1>5, <1>6 DEF IpInv, IpOrdered
<1>8. ASSUME NEW r \in 1..(n + 1), requests'[r].clean, NEW q \in 1..(r - 1)
      PROVE  requests'[q].read
  <2>1. q \in 1..n
    BY <1>3
  <2>2. CASE r = n + 1
    BY <1>3, <1>4, <1>8, <2>1, <2>2
  <2>3. CASE r # n + 1
    BY <1>3, <1>5, <1>8, <2>1, <2>3 DEF IpInv, IpDone
  <2>4. QED  BY <2>2, <2>3
<1>9. ASSUME NEW r \in 1..(n + 1), requests'[r].result = "SUCCESS", requests'[r].clean,
             r < n + 1 => requests'[r + 1].clean
      PROVE  requests'[r].read /\ (requests'[r].kind = "Install" => r \in installd.complete)
  <2>1. r \in 1..n
    BY <1>1, <1>3, <1>5, <1>9
  <2>2. r < n => requests[r + 1].clean
    <3>1. r < n => r + 1 \in 1..n /\ r < n + 1
      BY <1>3, <2>1
    <3>2. QED  BY <1>3, <1>9, <3>1
  <2>3. QED  BY <1>3, <1>9, <2>1, <2>2 DEF IpInv, IpDone
<1>10. IpDone(requests', installd)
  BY <1>3, <1>8, <1>9 DEF IpDone
<1>11. QED  BY <1>1, <1>3, <1>7, <1>10

LEMMA IpSendInv ==
    ASSUME IpInv, NEW t \in User, Installation!SendCommand(t) PROVE IpInv'
<1>1. updaters' = updaters /\ installd' = installd /\ ipUser \in [User -> IpCall]
      /\ ipUser[t].pc = "send" /\ Len(requests) < MaxRequests
  BY IpKnown DEF Installation!SendCommand
<1>2. CASE Installation!Goto(t, "idle") /\ ip' = ip /\ requests' = requests
  <2>1. /\ ipUser' \in [User -> IpCall] /\ ipUser'[t].pc = "idle"
        /\ \A u \in User : u # t => ipUser'[u] = ipUser[u]
    BY <1>2, IpGoes
  <2>2. QED  BY <1>1, <1>2, <2>1, IpKnown, IpQuiet DEF IpWaits
<1>3. CASE /\ requests' = Append(requests, [kind |-> ipUser[t].kind, result |-> "none",
                                            read |-> FALSE, clean |-> Installation!AllRead])
           /\ ipUser' = [ipUser EXCEPT ![t].req = Len(requests) + 1,
                 ![t].pc = IF ipUser[t].kind # "Install" THEN "read"
                           ELSE IF ipUser[t].async THEN "create" ELSE "perform"]
           /\ ip' = IF ipUser[t].kind # "Install" THEN Installation!Lock(t) ELSE ip
  <2> DEFINE n == Len(requests) + 1
             place == IF ipUser[t].kind # "Install" THEN "read"
                      ELSE IF ipUser[t].async THEN "create" ELSE "perform"
             c == [ipUser[t] EXCEPT !.req = n, !.pc = place]
             kind == ipUser[t].kind
  <2>1. n \in Installation!Request /\ n \notin 1..Len(requests)
    BY <1>1, IpKnown, IpBounds DEF Installation!Request
  <2>2. ipUser' = [ipUser EXCEPT ![t] = c]
    BY <1>1, <1>3
  <2>3. place \in {"read", "create", "perform"} /\ (place = "read" => kind # "Install")
    OBVIOUS
  <2>4. kind \in Installation!Kind
    BY <1>1 DEF IpCall
  <2> HIDE DEF place
  <2>5. c \in IpCall /\ c.pc = place /\ c.req = n
    BY <1>1, <2>1, <2>3 DEF IpCall
  <2> HIDE DEF c
  <2>6. /\ ipUser' \in [User -> IpCall]
        /\ \A u \in User : ipUser'[u] = IF u = t THEN c ELSE ipUser[u]
    BY <1>1, <2>2, <2>5
  <2>7. /\ requests' \in Seq(IpRequest) /\ Len(requests') = n
        /\ \A q \in 1..Len(requests) : requests'[q] = requests[q]
        /\ requests'[n].kind = kind /\ ~requests'[n].read
        /\ IpOrdered(requests', installd) /\ IpDone(requests', installd)
    BY <1>1, <1>3, <2>4, IpSent
  <2>8. n \in 1..n /\ 1..Len(requests) \subseteq 1..n
    BY IpKnown
  <2> HIDE DEF n, kind
  <2>9. updaters[n] = "none" /\ \A u \in User : IpWaits(ipUser, u) => ipUser[u].req # n
    BY <2>1 DEF IpInv, IpOwned
  <2>10. IpOwned(ipUser', updaters, requests')
    <3>1. ASSUME NEW u \in User, IpWaits(ipUser', u)
          PROVE  /\ ipUser'[u].req \in 1..n /\ updaters[ipUser'[u].req] = "none"
                 /\ ~requests'[ipUser'[u].req].read
                 /\ ipUser'[u].pc = "read" => requests'[ipUser'[u].req].kind # "Install"
                 /\ \A v \in User : v # u /\ IpWaits(ipUser', v) =>
                        ipUser'[v].req # ipUser'[u].req
      <4>1. CASE u = t
        BY <2>3, <2>5, <2>6, <2>7, <2>8, <2>9, <3>1, <4>1 DEF IpWaits
      <4>2. CASE u # t
        <5>1. IpWaits(ipUser, u) /\ ipUser'[u] = ipUser[u] /\ ipUser[u].req # n
          BY <2>6, <2>9, <3>1, <4>2 DEF IpWaits
        <5>2. /\ ipUser[u].req \in 1..Len(requests) /\ updaters[ipUser[u].req] = "none"
              /\ ~requests[ipUser[u].req].read
              /\ ipUser[u].pc = "read" => requests[ipUser[u].req].kind # "Install"
              /\ \A v \in User : v # u /\ IpWaits(ipUser, v) => ipUser[v].req # ipUser[u].req
          BY <5>1 DEF IpInv, IpOwned
        <5>3. \A v \in User : v # u /\ IpWaits(ipUser', v) => ipUser'[v].req # ipUser[u].req
          BY <2>5, <2>6, <5>1, <5>2 DEF IpWaits
        <5>4. QED  BY <2>7, <2>8, <5>1, <5>2, <5>3
      <4>3. QED  BY <4>1, <4>2
    <3>2. ASSUME NEW r \in Installation!Request
          PROVE  /\ updaters[r] # "none" => r \in 1..n
                 /\ IpFollows(updaters, r) => ~requests'[r].read
      <4>1. /\ updaters[r] # "none" => r \in 1..Len(requests)
            /\ IpFollows(updaters, r) => ~requests[r].read
        BY DEF IpInv, IpOwned
      <4>2. QED  BY <2>7, <2>8, <4>1 DEF IpFollows
    <3>3. QED  BY <2>7, <3>1, <3>2 DEF IpOwned
  <2>11. ip' \in IpClient
    BY <1>3, IpKnown, IpLocked
  <2>12. QED  BY <1>1, <2>6, <2>7, <2>10, <2>11, IpKnown, IpNext
<1>4. QED  BY <1>2, <1>3 DEF Installation!SendCommand

LEMMA IpReadInv ==
    ASSUME IpInv, NEW t \in User, Installation!Read(t) PROVE IpInv'
<1> DEFINE r == ipUser[t].req
           a == Installation!Answer
<1>1. updaters' = updaters /\ ipUser[t].pc = "read" /\ IpWaits(ipUser, t)
  BY DEF Installation!Read, IpWaits
<1>2. r \in 1..Len(requests) /\ requests[r].kind \in {"Browse", "LookupArchives"}
  <2>1. r \in 1..Len(requests) /\ requests[r].kind # "Install"
    BY <1>1 DEF IpInv, IpOwned
  <2>2. QED  BY <2>1, IpKnown DEF IpRequest, Installation!Kind
<1>3. CASE /\ installd.answers # << >> /\ Installation!Taken
           /\ ip' = ip /\ ipUser' = ipUser /\ requests' = requests
  BY <1>1, <1>3, IpReceives DEF IpHears
<1>4. CASE /\ installd.answers # << >> /\ Installation!Taken
           /\ ~(requests[r].kind = "Browse" /\ a.status = "Part"
                /\ requests[a.req].kind = "Browse")
           /\ requests' = [Installation!ReadBy(r) EXCEPT ![r].result = "SUCCESS"]
           /\ ip' = Installation!Unlocked /\ Installation!Goto(t, "idle")
  <2>1. IpMeant(requests, installd, a) /\ a.status \in {"Part", "Complete", "Error"}
    BY <1>4, IpTaken DEF IpInv, IpOrdered, IpAnswer
  <2>2. a.req = r => a.status # "Part" /\ requests[r].kind # "Install"
    BY <1>2, <1>4, <2>1 DEF IpMeant
  <2>3. IpHears(r)
    BY <1>4, <2>2 DEF IpHears
  <2>4. QED  BY <1>1, <1>4, <2>3, IpReceives
<1>5. CASE /\ Installation!Silence /\ Installation!Ended(r, "RECEIVE_TIMEOUT")
           /\ ip' = Installation!Unlocked /\ Installation!Goto(t, "idle")
  <2>1. IpHears(r)
    BY <1>5 DEF IpHears
  <2>2. QED  BY <1>1, <1>5, <2>1, IpReceives
<1>6. CASE /\ installd' = installd /\ Installation!Ended(r, "CONN_FAILED")
           /\ ip' = Installation!Unlocked /\ Installation!Goto(t, "idle")
  <2>1. IpHears(r)
    BY <1>6 DEF IpHears
  <2>2. QED  BY <1>1, <1>6, <2>1, IpReceives
<1>7. QED  BY <1>3, <1>4, <1>5, <1>6 DEF Installation!Read

LEMMA IpPerformReceiveInv ==
    ASSUME IpInv, NEW t \in User, Installation!PerformReceive(t) PROVE IpInv'
<1> DEFINE r == ipUser[t].req
           a == Installation!Answer
<1>1. /\ updaters' = updaters /\ IpWaits(ipUser, t) /\ ip' = Installation!Unlocked
  BY DEF Installation!PerformReceive, IpWaits
<1>2. CASE /\ (installd.answers # << >> /\ Installation!Taken) \/ Installation!Silence
           /\ requests' = requests /\ Installation!Goto(t, "perform")
  <2>1. IpHears(r)
    BY <1>2 DEF IpHears
  <2>2. QED  BY <1>1, <1>2, <2>1, IpReceives
<1>3. CASE /\ installd.answers # << >> /\ Installation!Taken /\ a.status # "Part"
           /\ requests' = [Installation!ReadBy(r) EXCEPT ![r].result =
                               IF a.status = "Error" THEN "OP_FAILED" ELSE "SUCCESS"]
           /\ Installation!Goto(t, "idle")
  <2>1. a.status \in {"Part", "Complete", "Error"}
    BY <1>3, IpTaken DEF IpAnswer
  <2>2. IpHears(r)
    BY <1>3, <2>1 DEF IpHears
  <2>3. QED  BY <1>1, <1>3, <2>2, IpReceives
<1>4. CASE installd' = installd /\ Installation!Ended(r, "CONN_FAILED")
           /\ Installation!Goto(t, "idle")
  <2>1. IpHears(r)
    BY <1>4 DEF IpHears
  <2>2. QED  BY <1>1, <1>4, <2>1, IpReceives
<1>5. QED  BY <1>2, <1>3, <1>4 DEF Installation!PerformReceive, Installation!Performed

LEMMA IpUpdaterReceiveInv ==
    ASSUME IpInv, NEW r \in Installation!Request, Installation!UpdaterReceive(r) PROVE IpInv'
<1> DEFINE a == Installation!Answer
<1>1. /\ ipUser' = ipUser /\ updaters[r] = "receive" /\ ip' = Installation!Unlocked
  BY DEF Installation!UpdaterReceive
<1>2. CASE /\ (installd.answers # << >> /\ Installation!Taken) \/ Installation!Silence
           /\ requests' = requests /\ Installation!Move(r, "perform")
  <2>1. IpHears(r)
    BY <1>2 DEF IpHears
  <2>2. QED  BY <1>1, <1>2, <2>1, IpUpdates
<1>3. CASE /\ installd.answers # << >> /\ Installation!Taken /\ a.status # "Part"
           /\ requests' = [Installation!ReadBy(r) EXCEPT ![r].result =
                               IF a.status = "Error" THEN "OP_FAILED" ELSE "SUCCESS"]
           /\ Installation!Move(r, "clean")
  <2>1. a.status \in {"Part", "Complete", "Error"}
    BY <1>3, IpTaken DEF IpAnswer
  <2>2. IpHears(r)
    BY <1>3, <2>1 DEF IpHears
  <2>3. QED  BY <1>1, <1>3, <2>2, IpUpdates
<1>4. CASE /\ installd' = installd /\ Installation!Move(r, "clean")
           /\ Installation!Ended(r, "CONN_FAILED") \/ Installation!Ended(r, "INVALID_ARG")
  <2>1. IpHears(r)
    BY <1>4 DEF IpHears
  <2>2. QED  BY <1>1, <1>4, <2>1, IpUpdates
<1>5. QED  BY <1>2, <1>3, <1>4 DEF Installation!UpdaterReceive, Installation!Performed

LEMMA IpCreateInv ==
    ASSUME IpInv, NEW t \in User, Installation!CreateUpdater(t) PROVE IpInv'
<1> DEFINE r == ipUser[t].req
<1>1. /\ installd' = installd /\ ipUser[t].pc = "create" /\ IpWaits(ipUser, t)
      /\ ip' \in IpClient
  <2>1. \A name \in {ip.status_updater, r} : [ip EXCEPT !.status_updater = name] \in IpClient
    BY IpKnown DEF IpClient, IpCall
  <2>2. QED  BY <2>1, IpKnown DEF Installation!CreateUpdater, IpWaits
<1>2. CASE /\ Installation!Ended(r, "UNKNOWN_ERROR")
           /\ Installation!Goto(t, "idle") /\ updaters' = updaters
  <2>1. IpHears(r)
    BY <1>1, <1>2 DEF IpHears
  <2>2. QED  BY <1>1, <1>2, <2>1, IpReceives
<1>3. CASE /\ updaters' = [updaters EXCEPT ![r] = "perform"]
           /\ Installation!Goto(t, "store") /\ requests' = requests /\ ip' = ip
  <2>1. /\ r \in 1..Len(requests) /\ updaters[r] = "none" /\ ~requests[r].read
        /\ \A u \in User : u # t /\ IpWaits(ipUser, u) => ipUser[u].req # r
    BY <1>1 DEF IpInv, IpOwned
  <2>2. /\ ipUser' \in [User -> IpCall] /\ ipUser'[t].pc = "store"
        /\ \A u \in User : u # t => ipUser'[u] = ipUser[u]
    BY <1>3, IpGoes
  <2>3. \A u \in User : IpWaits(ipUser', u) =>
             /\ IpWaits(ipUser, u) /\ ipUser'[u].req = ipUser[u].req /\ u # t
             /\ ipUser'[u].pc = "read" => ipUser[u].pc = "read"
    BY <2>2 DEF IpWaits
  <2>4. IpOwned(ipUser', updaters, requests)
    BY <2>3, IpStay
  <2>5. \A u \in User : IpWaits(ipUser', u) => ipUser'[u].req # r
    BY <2>1, <2>3
  <2>6. r \in Installation!Request
    BY <2>1, IpKnown, IpBounds DEF Installation!Request
  <2>7. /\ updaters' \in [Installation!Request -> IpPlace]
        /\ \A q \in Installation!Request :
              updaters'[q] = IF q = r THEN "perform" ELSE updaters[q]
    BY <1>3, <2>6, IpKnown DEF IpPlace
  <2>8. 1..Len(requests) \subseteq Installation!Request
    BY IpKnown, IpBounds DEF Installation!Request
  <2> HIDE DEF r
  <2>9. IpOwned(ipUser', updaters', requests)
    BY <2>1, <2>4, <2>5, <2>6, <2>7, <2>8 DEF IpOwned, IpFollows
  <2>10. QED  BY <1>1, <1>3, <2>2, <2>7, <2>9, IpKnown, IpNext DEF IpInv
<1>4. QED  BY <1>2, <1>3 DEF Installation!CreateUpdater

LEMMA IpQuietUserInv ==
    ASSUME IpInv, NEW t \in User,
           \/ Installation!PerformLock(t) \/ Installation!StoreUpdater(t)
           \/ Installation!FreeParent(t) \/ Installation!FreeEnd(t)
    PROVE  IpInv'
<1>1. /\ updaters' = updaters /\ requests' = requests /\ installd' = installd
      /\ ip \in IpClient /\ ipUser \in [User -> IpCall]
  BY IpKnown DEF Installation!PerformLock, Installation!StoreUpdater, Installation!FreeParent,
                 Installation!FreeEnd
<1>2. PICK place \in {"receive", "idle", "null"} :
         /\ Installation!Goto(t, place)
         /\ place = "receive" => ipUser[t].pc = "perform"
  BY DEF Installation!PerformLock, Installation!StoreUpdater, Installation!FreeParent,
         Installation!FreeEnd
<1>3. ip' \in IpClient
  <2>1. CASE Installation!PerformLock(t)
    BY <2>1, IpLocked DEF Installation!PerformLock
  <2>2. CASE Installation!StoreUpdater(t)
    <3>1. ipUser[t].req \in {0} \cup Installation!Request
      BY <1>1 DEF IpCall
    <3>2. QED  BY <1>1, <2>2, <3>1 DEF Installation!StoreUpdater, IpClient
  <2>3. CASE Installation!FreeParent(t)
    BY <1>1, <2>3 DEF Installation!FreeParent, IpClient
  <2>4. CASE Installation!FreeEnd(t)
    BY <1>1, <2>4 DEF Installation!FreeEnd, IpClient
  <2>5. QED  BY <2>1, <2>2, <2>3, <2>4
<1>4. /\ ipUser' \in [User -> IpCall] /\ ipUser'[t].pc = place
      /\ ipUser'[t].req = ipUser[t].req
      /\ \A u \in User : u # t => ipUser'[u] = ipUser[u]
  BY <1>2, IpGoes
<1>5. \A u \in User : IpWaits(ipUser', u) =>
           /\ IpWaits(ipUser, u) /\ ipUser'[u].req = ipUser[u].req
           /\ ipUser'[u].pc = "read" => ipUser[u].pc = "read"
  BY <1>2, <1>4 DEF IpWaits
<1>6. QED  BY <1>1, <1>3, <1>4, <1>5, IpKnown, IpQuiet

LEMMA IpFreeNullInv ==
    ASSUME IpInv, NEW t \in User, Installation!FreeNull(t) PROVE IpInv'
<1> DEFINE c == [ipUser[t] EXCEPT !.pc = "end", !.req = ip.status_updater]
<1>1. /\ updaters' = updaters /\ requests' = requests /\ installd' = installd
      /\ ip \in IpClient /\ ipUser \in [User -> IpCall]
      /\ ip' = [ip EXCEPT !.parent = "null"]
      /\ ipUser' = [ipUser EXCEPT ![t].pc = "end", ![t].req = ip.status_updater]
  BY IpKnown DEF Installation!FreeNull
<1>2. ip.status_updater \in {0} \cup Installation!Request /\ ip' \in IpClient
  BY <1>1 DEF IpClient
<1>3. c \in IpCall /\ c.pc = "end" /\ ipUser' = [ipUser EXCEPT ![t] = c]
  BY <1>1, <1>2 DEF IpCall
<1> HIDE DEF c
<1>4. /\ ipUser' \in [User -> IpCall]
      /\ \A u \in User : ipUser'[u] = IF u = t THEN c ELSE ipUser[u]
  BY <1>1, <1>3
<1>5. QED  BY <1>1, <1>2, <1>3, <1>4, IpKnown, IpQuiet DEF IpWaits

LEMMA IpQuietUpdaterInv ==
    ASSUME IpInv, NEW r \in Installation!Request,
           Installation!UpdaterLock(r) \/ Installation!UpdaterClean(r)
               \/ Installation!UpdaterUnlock(r)
    PROVE  IpInv'
<1>1. /\ ipUser' = ipUser /\ requests' = requests /\ installd' = installd /\ ip \in IpClient
  BY IpKnown DEF Installation!UpdaterLock, Installation!UpdaterClean,
                 Installation!UpdaterUnlock
<1>2. PICK place \in {"receive", "unlock", "done"} :
         /\ Installation!Move(r, place) /\ updaters[r] # "none"
         /\ place = "receive" => updaters[r] = "perform"
  BY DEF Installation!UpdaterLock, Installation!UpdaterClean, Installation!UpdaterUnlock
<1>3. ip' \in IpClient
  <2>1. CASE Installation!UpdaterLock(r)
    BY <1>1, <2>1 DEF Installation!UpdaterLock, IpClient
  <2>2. CASE Installation!UpdaterClean(r)
    BY <1>1, <2>2 DEF Installation!UpdaterClean, IpClient
  <2>3. CASE Installation!UpdaterUnlock(r)
    BY <2>3, IpUnlocked DEF Installation!UpdaterUnlock
  <2>4. QED  BY <2>1, <2>2, <2>3
<1>4. /\ updaters' \in [Installation!Request -> IpPlace] /\ updaters'[r] = place
      /\ \A q \in Installation!Request : q # r => updaters'[q] = updaters[q]
  BY <1>2, IpMoves DEF IpPlace
<1>5. \A q \in Installation!Request :
          /\ updaters'[q] = "none" <=> updaters[q] = "none"
          /\ IpFollows(updaters', q) => IpFollows(updaters, q)
  BY <1>2, <1>4 DEF IpFollows
<1>6. QED  BY <1>1, <1>3, <1>4, <1>5, IpKnown, IpQuiet

-----------------------------------------------------------------------------
\* The device says something of the request it is at.
LEMMA IpSaid ==
    ASSUME IpInv, installd.at \in 1..Len(requests), NEW status \in {"Part", "Complete", "Error"},
           installd' \in IpDevice, installd'.answers = Installation!Says(status),
           installd.complete \subseteq installd'.complete,
           status = "Part" => requests[installd.at].kind # "LookupArchives",
           status = "Complete" => installd.at \in installd'.complete,
           installd'.at = IF status = "Part" THEN installd.at ELSE installd.at + 1,
           ip' = ip, ipUser' = ipUser, updaters' = updaters, requests' = requests
    PROVE  IpInv'
<1> DEFINE q == installd.answers
           a == [req |-> installd.at, status |-> status]
           v == Append(q, a)
           n == installd.at
           m == installd'.at
<1>1. a \in IpAnswer /\ a.req = n /\ a.status = status /\ n \in Nat
  BY IpKnown, IpBounds DEF IpAnswer, Installation!Request
<1>2. installd'.answers = v
  BY DEF Installation!Says
<1>3. m = IF status = "Part" THEN n ELSE n + 1
  OBVIOUS
<1> HIDE DEF a, n, m
<1>4. /\ Len(v) = Len(q) + 1 /\ v[Len(q) + 1] = a
      /\ \A i \in 1..Len(q) : v[i] = q[i]
      /\ Len(q) \in Nat
  BY <1>1, IpKnown, Appended
<1> HIDE DEF v
<1>5. \A i \in 1..Len(v) : i \in 1..Len(q) \/ i = Len(q) + 1
  BY <1>4
<1>6. n <= m /\ (status # "Part" => n < m)
  BY <1>1, <1>3
<1>7. /\ \A i \in 1..Len(q) : IpMeant(requests, installd, q[i])
      /\ \A i \in 1..Len(q) : q[i].status # "Part" =>
           q[i].req < n /\ \A j \in (i + 1)..Len(q) : q[i].req < q[j].req
      /\ \A r \in 1..Len(requests) : requests[r].read =>
           r < n /\ \A i \in 1..Len(q) : r < q[i].req
  BY DEF IpInv, IpOrdered, n
<1>8. \A i \in 1..Len(v) : IpMeant(requests, installd', v[i])
  BY <1>1, <1>4, <1>5, <1>7 DEF IpMeant, n
<1>9. \A i \in 1..Len(q) : q[i].req \in Nat
  BY <1>7, IpKnown DEF IpMeant
<1>10. ASSUME NEW i \in 1..Len(v), v[i].status # "Part"
       PROVE  v[i].req < m /\ \A j \in (i + 1)..Len(v) : v[i].req < v[j].req
  <2>1. CASE i = Len(q) + 1
    <3>1. v[i].req < m
      BY <1>1, <1>4, <1>6, <1>10, <2>1
    <3>2. (i + 1)..Len(v) = {}
      BY <1>4, <2>1
    <3>3. QED  BY <3>1, <3>2
  <2>2. CASE i \in 1..Len(q)
    <3>1. v[i] = q[i] /\ q[i].req < n /\ \A j \in (i + 1)..Len(q) : q[i].req < q[j].req
      BY <1>4, <1>7, <1>10, <2>2
    <3>2. q[i].req < m
      <4> DEFINE k == q[i].req
      <4>1. k \in Nat /\ k < n
        BY <1>9, <2>2, <3>1
      <4> HIDE DEF k
      <4>2. k < m
        BY <1>1, <1>3, <1>6, <4>1
      <4>3. QED  BY <4>2 DEF k
    <3>3. ASSUME NEW j \in (i + 1)..Len(v) PROVE q[i].req < v[j].req
      <4>1. j = Len(q) + 1 \/ j \in (i + 1)..Len(q)
        BY <1>4, <2>2
      <4>2. CASE j = Len(q) + 1
        BY <1>1, <1>4, <3>1, <4>2
      <4>3. CASE j \in (i + 1)..Len(q)
        <5>1. j \in 1..Len(q)
          BY <1>4, <2>2, <4>3
        <5>2. QED  BY <1>4, <3>1, <4>3, <5>1
      <4>4. QED  BY <4>1, <4>2, <4>3
    <3>4. QED  BY <3>1, <3>2, <3>3
  <2>3. QED  BY <1>5, <2>1, <2>2
<1>11. ASSUME NEW r \in 1..Len(requests), requests[r].read
       PROVE  r < m /\ \A i \in 1..Len(v) : r < v[i].req
  <2>1. r < n /\ r < m
    BY <1>1, <1>3, <1>6, <1>7, <1>11, IpKnown
  <2>2. QED  BY <1>1, <1>4, <1>5, <1>7, <1>11, <2>1
<1>12. IpOrdered(requests, installd')
  BY <1>2, <1>8, <1>10, <1>11, IpKnown DEF IpOrdered, m
<1>13. IpDone(requests, installd')
  BY DEF IpInv, IpDone
<1>14. QED  BY <1>12, <1>13, IpKnown, IpNext DEF IpInv

LEMMA IpReportsInv == ASSUME IpInv, Installation!DeviceReports PROVE IpInv'
<1> DEFINE n == installd.part
<1>1. /\ ip' = ip /\ ipUser' = ipUser /\ updaters' = updaters /\ requests' = requests
      /\ installd.at \in 1..Len(requests) /\ n < MaxParts
      /\ requests[installd.at].kind # "LookupArchives"
      /\ installd' = [installd EXCEPT !.part = @ + 1, !.answers = Installation!Says("Part")]
  BY IpKnown DEF Installation!DeviceReports
<1>2. n \in 0..MaxParts
  BY IpKnown DEF IpDevice
<1> HIDE DEF n
<1>3. n + 1 \in 0..MaxParts
  BY <1>1, <1>2, IpBounds
<1>4. installd.at \in Installation!Request
  BY <1>1, IpKnown, IpBounds DEF Installation!Request
<1>5. Installation!Says("Part") \in Seq(IpAnswer)
  <2>1. [req |-> installd.at, status |-> "Part"] \in IpAnswer
    BY <1>4 DEF IpAnswer
  <2>2. QED  BY <2>1, IpKnown, Appended DEF Installation!Says
<1>6. /\ installd' \in IpDevice /\ installd'.answers = Installation!Says("Part")
      /\ installd'.complete = installd.complete /\ installd'.at = installd.at
  BY <1>1, <1>3, <1>5, IpKnown DEF IpDevice, n
<1>7. QED  BY <1>1, <1>6, IpSaid

LEMMA IpCompletesInv == ASSUME IpInv, Installation!DeviceCompletes PROVE IpInv'
<1> DEFINE n == installd.at
<1>1. PICK status \in {"Complete", "Error"} :
      /\ ip' = ip /\ ipUser' = ipUser /\ updaters' = updaters /\ requests' = requests
      /\ n \in 1..Len(requests)
      /\ installd' = [installd EXCEPT !.part = 0, !.at = @ + 1,
                !.answers = Installation!Says(status),
                !.complete = IF status = "Complete" THEN @ \cup {n} ELSE @]
  BY IpKnown DEF Installation!DeviceCompletes
<1>2. n \in Installation!Request /\ n + 1 \in 1..(MaxRequests + 1) /\ 0 \in 0..MaxParts
  BY <1>1, IpKnown, IpBounds DEF Installation!Request
<1>3. Installation!Says(status) \in Seq(IpAnswer)
  <2>1. [req |-> installd.at, status |-> status] \in IpAnswer
    BY <1>2 DEF IpAnswer
  <2>2. QED  BY <2>1, IpKnown, Appended DEF Installation!Says
<1>4. /\ installd' \in IpDevice /\ installd'.answers = Installation!Says(status)
      /\ installd'.complete = IF status = "Complete" THEN installd.complete \cup {n}
                              ELSE installd.complete
      /\ installd'.at = n + 1
  BY <1>1, <1>2, <1>3, IpKnown DEF IpDevice
<1>5. QED  BY <1>1, <1>4, IpSaid

LEMMA IpGoneInv == ASSUME IpInv, Installation!DeviceGone PROVE IpInv'
<1>1. /\ ip' = ip /\ ipUser' = ipUser /\ updaters' = updaters /\ requests' = requests
      /\ installd' = [installd EXCEPT !.up = FALSE]
  BY DEF Installation!DeviceGone
<1>2. /\ installd' \in IpDevice /\ installd'.answers = installd.answers
      /\ installd'.complete = installd.complete /\ installd'.at = installd.at
  BY <1>1, IpKnown DEF IpDevice
<1>3. IpOrdered(requests, installd') /\ IpDone(requests, installd')
  BY <1>2 DEF IpInv, IpOrdered, IpMeant, IpDone
<1>4. QED  BY <1>1, <1>2, <1>3, IpKnown, IpNext DEF IpInv

-----------------------------------------------------------------------------
LEMMA IpNextInv == ASSUME IpInv, Installation!Next PROVE IpInv'
<1>1. ASSUME NEW t \in User, NEW kind \in Installation!Kind, NEW async \in BOOLEAN,
             Installation!Call(t, kind, async)
      PROVE  IpInv'
  BY <1>1, IpCallInv
<1>2. ASSUME NEW t \in User, Installation!UserStep(t) \/ Installation!FreeParent(t)
      PROVE  IpInv'
  BY <1>2, IpSendInv, IpReadInv, IpPerformReceiveInv, IpCreateInv, IpQuietUserInv,
     IpFreeNullInv DEF Installation!UserStep
<1>3. ASSUME NEW r \in Installation!Request, Installation!UpdaterStep(r) PROVE IpInv'
  BY <1>3, IpUpdaterReceiveInv, IpQuietUpdaterInv DEF Installation!UpdaterStep
<1>4. CASE Installation!DeviceReports \/ Installation!DeviceCompletes \/ Installation!DeviceGone
  BY <1>4, IpReportsInv, IpCompletesInv, IpGoneInv
<1>5. QED  BY <1>1, <1>2, <1>3, <1>4 DEF Installation!Next

LEMMA IpServicesInv == ASSUME IpInv, [ServicesNext]_all PROVE IpInv'
<1>1. CASE UNCHANGED ipVars
  <2>1. /\ ip' = ip /\ ipUser' = ipUser /\ updaters' = updaters /\ requests' = requests
        /\ installd' = installd
    BY <1>1 DEF ipVars
  <2>2. QED  BY <2>1, IpKnown, IpNext DEF IpInv
<1>2. CASE Installation!Next
  BY <1>2, IpNextInv
<1>3. UNCHANGED ipVars \/ Installation!Next
  BY DEF ServicesNext, all, Only, PlistRuns, SrRuns, ServerRuns
<1>4. QED  BY <1>1, <1>2, <1>3

\* installation_proxy.c reports a request as done only when all that the device said of
\* that very request was received, and an operation only when the device did it, for any
\* number of callers, updaters and requests, as long as those before it had been answered
\* to their ends when it was sent and none was sent meanwhile.
THEOREM SuccessesComplete == ServicesSpec => []SuccessIsComplete
<1>1. ServicesInit => IpInv
  BY IpInitInv DEF ServicesInit
<1>2. IpInv /\ [ServicesNext]_all => IpInv'
  BY IpServicesInv
<1>3. IpInv => SuccessIsComplete
  <2>1. SUFFICES ASSUME IpInv, NEW r \in DOMAIN requests, requests[r].result = "SUCCESS",
                        Installation!Alone(r)
                 PROVE  /\ requests[r].read
                        /\ requests[r].kind = "Install" => r \in installd.complete
    BY DEF SuccessIsComplete, Installation!SuccessIsComplete
  <2>2. /\ r \in 1..Len(requests) /\ requests[r].clean
        /\ r < Len(requests) => requests[r + 1].clean
    BY <2>1, IpKnown DEF Installation!Alone
  <2>3. QED  BY <2>1, <2>2 DEF IpInv, IpDone
<1>4. QED  BY <1>1, <1>2, <1>3, PTL DEF ServicesSpec
=============================================================================
