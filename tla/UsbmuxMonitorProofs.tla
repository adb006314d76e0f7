------------------------- MODULE UsbmuxMonitorProofs -------------------------
(***************************************************************************)
(* Theorems of UsbmuxMonitor, for every set of devices, every build        *)
(* (inotify or not, local or remote daemon) and every bound.               *)
(*                                                                         *)
(* ViewMatches is not inductive: that a device announced again is new      *)
(* rests on what may still be queued on the socket (ChannelInv), which     *)
(* rests on the daemon never reusing a device id while it lives, and on    *)
(* the collection being empty when a connection is set up (DeviceInv),     *)
(* which rests on where both threads can be at once (ThreadInv).           *)
(***************************************************************************)
EXTENDS UsbmuxMonitor, WellFoundedInduction, FiniteSetTheorems, TLAPS

-----------------------------------------------------------------------------
(* What the operations of UsbmuxCollection do to the set of elements a     *)
(* table holds, for every table and every element.                         *)

LessThan == {p \in Nat \X Nat : p[1] < p[2]}

LEMMA LessThanWellFounded == IsWellFoundedOn(LessThan, Nat)
BY NatLessThanWellFounded DEF OpToRel, LessThan

\* Every inhabited set of natural numbers has a least member.
LEMMA LeastNatural ==
    ASSUME NEW T \in SUBSET Nat, T # {}
    PROVE  \E x \in T : \A y \in T : x <= y
<1>1. \E x \in T : \A y \in T : ~ (<<y, x>> \in LessThan)
    BY LessThanWellFounded, WFMin
<1>2. PICK x \in T : \A y \in T : ~ (<<y, x>> \in LessThan)
    BY <1>1
<1>3. ASSUME NEW y \in T PROVE x <= y
    <2>1. <<y, x>> \in LessThan <=> y < x
        BY DEF LessThan
    <2> QED BY <1>2, <2>1
<1> QED BY <1>3

\* The search loop stops at the first slot that holds what it looks for.
LEMMA FirstExists ==
    ASSUME NEW S, NEW list \in Seq(S), NEW e, \E i \in DOMAIN list : list[i] = e
    PROVE  IsFirst(list, e, First(list, e))
<1> DEFINE T == {i \in DOMAIN list : list[i] = e}
<1>1. T \in SUBSET Nat /\ T # {}
    OBVIOUS
<1>2. PICK i \in T : \A j \in T : i <= j
    BY <1>1, LeastNatural
<1>3. IsFirst(list, e, i)
    BY <1>2 DEF IsFirst
<1> QED BY <1>2, <1>3 DEF First

\* FOREACH reaches an element as long as there is one.
LEMMA FirstLiveExists ==
    ASSUME NEW S, NEW list \in Seq(S), Live(list) # {}
    PROVE  FirstLive(list) \in Live(list)
<1>1. Used(list) \in SUBSET Nat /\ Used(list) # {}
    BY DEF Used, Live
<1>2. PICK i \in Used(list) : \A j \in Used(list) : i <= j
    BY <1>1, LeastNatural
<1> DEFINE k == CHOOSE m \in Used(list) : \A j \in Used(list) : m <= j
<1>3. k \in Used(list)
    BY <1>2
<1> QED BY <1>3 DEF FirstLive, Used, Live

\* Adding an element keeps every other one, whether or not the table grows.
LEMMA AddLive ==
    ASSUME NEW Element, NULL \notin Element,
           NEW list \in Slots(Element), list # << >>, NEW e \in Element
    PROVE  /\ collection_add(list, e) # << >>
           /\ collection_add(list, e) \in Slots(Element)
           /\ Live(collection_add(list, e)) = Live(list) \cup {e}
           /\ Distinct(list) /\ e \notin Live(list) => Distinct(collection_add(list, e))
<1> DEFINE new == collection_add(list, e)
<1>1. CASE NULL \in {list[i] : i \in DOMAIN list}
    <2> DEFINE k == First(list, NULL)
    <2>1. k \in DOMAIN list /\ list[k] = NULL
        BY <1>1, FirstExists DEF IsFirst, Slots
    <2>2. new = [list EXCEPT ![k] = e]
        BY <1>1 DEF collection_add
    <2> HIDE DEF k, new
    <2>3. new \in Slots(Element) /\ new # << >>
        BY <2>1, <2>2 DEF Slots
    <2>4. DOMAIN new = DOMAIN list /\ \A i \in DOMAIN list : new[i] = IF i = k THEN e ELSE list[i]
        BY <2>1, <2>2 DEF Slots
    <2>5. Live(new) = Live(list) \cup {e}
        BY <2>1, <2>4 DEF Live
    <2>6. Distinct(list) /\ e \notin Live(list) => Distinct(new)
        BY <2>1, <2>4 DEF Live, Distinct
    <2> QED BY <2>3, <2>5, <2>6 DEF new
<1>2. CASE NULL \notin {list[i] : i \in DOMAIN list}
    <2> DEFINE n == Len(list)
    <2>1. new = Doubled(list, e)
        BY <1>2 DEF collection_add
    <2>2. n \in Nat /\ DOMAIN list = 1..n
        BY DEF Slots
    <2>3. n # 0
        BY DEF Slots
    <2>4. /\ DOMAIN new = 1..(2 * n)
          /\ \A i \in 1..(2 * n) :
                new[i] = IF i <= n THEN list[i] ELSE IF i = n + 1 THEN e ELSE NULL
        BY <2>1 DEF Doubled
    <2>5. \A i \in 1..n : list[i] \in Element \cup {NULL}
        BY <2>2 DEF Slots
    <2>6. new \in [1..(2 * n) -> Element \cup {NULL}]
        BY <2>1, <2>2, <2>5 DEF Doubled
    <2>7. new \in Slots(Element) /\ new # << >>
        BY <2>2, <2>3, <2>6, <2>4 DEF Slots
    <2> HIDE DEF new, n
    <2>8. n + 1 \in 1..(2 * n) /\ 1..n \subseteq 1..(2 * n)
        BY <2>2, <2>3
    <2>9. Live(new) = Live(list) \cup {e}
        <3>1. \A x \in Live(list) \cup {e} : x \in Live(new)
            <4>1. \A i \in 1..n : new[i] = list[i]
                BY <2>2, <2>4, <2>8
            <4>2. new[n + 1] = e
                BY <2>2, <2>4, <2>8
            <4> QED BY <2>2, <2>4, <2>8, <4>1, <4>2 DEF Live
        <3>2. ASSUME NEW i \in 1..(2 * n), new[i] # NULL
              PROVE  new[i] \in Live(list) \cup {e}
            <4>1. CASE i <= n
                <5>1. i \in 1..n /\ new[i] = list[i]
                    BY <2>2, <2>4, <4>1
                <5> QED BY <2>2, <3>2, <5>1 DEF Live
            <4>2. CASE ~(i <= n)
                BY <2>2, <2>4, <3>2, <4>2
            <4> QED BY <4>1, <4>2
        <3> QED BY <2>4, <3>1, <3>2 DEF Live
    <2>10. Distinct(list) /\ e \notin Live(list) => Distinct(new)
        BY <2>2, <2>4, <2>8 DEF Live, Distinct
    <2> QED BY <2>7, <2>9, <2>10 DEF new
<1> QED BY <1>1, <1>2

\* Removing an element of a table without duplicates removes that element only.
LEMMA RemoveLive ==
    ASSUME NEW Element, NULL \notin Element,
           NEW list \in Slots(Element), NEW e \in Live(list), Distinct(list)
    PROVE  /\ collection_remove(list, e) \in Slots(Element)
           /\ collection_remove(list, e) # << >>
           /\ Live(collection_remove(list, e)) = Live(list) \ {e}
           /\ Distinct(collection_remove(list, e))
<1> DEFINE new == collection_remove(list, e)
           k   == First(list, e)
<1>1. k \in DOMAIN list /\ list[k] = e /\ e # NULL
    BY FirstExists DEF IsFirst, Slots, Live
<1>2. new = [list EXCEPT ![k] = NULL]
    BY DEF collection_remove
<1> HIDE DEF k, new
<1>3. new \in Slots(Element)
    BY <1>1, <1>2 DEF Slots
<1>4. DOMAIN new = DOMAIN list /\ \A i \in DOMAIN list : new[i] = IF i = k THEN NULL ELSE list[i]
    BY <1>1, <1>2 DEF Slots
<1>5. Live(new) = Live(list) \ {e}
    BY <1>1, <1>4 DEF Live, Distinct
<1>6. Distinct(new)
    BY <1>1, <1>4 DEF Distinct
<1>7. new # << >>
    BY <1>1, <1>4
<1> QED BY <1>3, <1>5, <1>6, <1>7 DEF new

\* In any case a removal adds nothing.
LEMMA RemoveType ==
    ASSUME NEW Element, NEW list \in Slots(Element), NEW e
    PROVE  /\ collection_remove(list, e) \in Slots(Element)
           /\ list # << >> => collection_remove(list, e) # << >>
<1>1. CASE e \in Live(list)
    <2>1. First(list, e) \in DOMAIN list
        BY <1>1, FirstExists DEF IsFirst, Slots, Live
    <2> QED BY <1>1, <2>1 DEF collection_remove, Slots
<1>2. CASE e \notin Live(list)
    BY <1>2 DEF collection_remove
<1> QED BY <1>1, <1>2

-----------------------------------------------------------------------------
(* The monitor, its daemon and the application.                            *)

\* The daemon names the device in every Detached message it sends.
Tolerable == "noid" \notin BadMessages

\* An event is being generated exactly at these places.
Delivering == mon \in {"event", "callback"}

\* usbmuxd_listen is running.
Listening == mon \in {"connect", "poll", "poll_connect", "watch", "wait", "retry", "listen"}

\* An event is there while it is generated, a table while the thread runs.
MonitorInv ==
    /\ MonitorType
    /\ Delivering => evt \in Event
    /\ devices = << >> <=> mon \in {"none", "start", "done"}

DaemonInv ==
    /\ DaemonType
    /\ IsFiniteSet(attached)
    /\ nextHandle # 0

StateInv == AppType /\ MonitorInv /\ SocketType /\ DaemonInv

ThreadInv ==
    /\ app = "idle" => mon = "none"
    /\ app = "subscribed" => mon \notin {"none", "cleanup", "done"}
    /\ app \in {"spawning", "subscribed"} => eventCb
    /\ app \in {"subscribing", "failed"} /\ mon # "none" => eventCb
    /\ app # "aborted" => (idevCb <=> app \in {"subscribing", "spawning", "subscribed"})
    /\ app = "subscribed" /\ mon \in {"receive", "flush", "event", "callback"} => cb
    /\ paired => /\ app \in {"subscribing", "spawning", "failed"} => mon = "none" /\ view = {}
                 /\ app \in {"unsubscribing", "shutdown", "joining"} => mon # "none"
                 /\ app # "aborted"

DeviceInv ==
    /\ Distinct(devices)
    /\ Delivering => evt.dev \in Live(devices)
    /\ Delivering /\ evt.kind = "add" => evt.next = "inner"
    /\ Listening => Live(devices) = {}
    /\ mon = "outer" /\ Live(devices) # {} => ~eventCb

Adds == {i \in DOMAIN chan : chan[i].kind = "add"}

ChannelInv ==
    /\ \A i \in Adds : chan[i].dev \notin Live(devices)
    /\ \A i, j \in Adds : chan[i].dev = chan[j].dev => i = j
    /\ \A d \in attached : d.h < nextHandle
    /\ sock = "listening" => /\ \A d \in Live(devices) : d.h < nextHandle
                             /\ \A i \in Adds : chan[i].dev.h < nextHandle

\* A callback about to run brings news.
NewsInv == paired /\ mon = "callback" => (evt.kind = "rem" <=> evt.dev \in view)

DataInv == DeviceInv /\ ChannelInv /\ ViewMatches /\ NewsInv

-----------------------------------------------------------------------------
(* Types.                                                                  *)

LEMMA Booleans == TRUE \in BOOLEAN /\ FALSE \in BOOLEAN
OBVIOUS

LEMMA EmptyQueue == << >> \in Seq(Message)
OBVIOUS

LEMMA InitState == Init => StateInv
<1> SUFFICES ASSUME Init PROVE StateInv
    OBVIOUS
<1>1. AppType
    BY Booleans DEF Init, AppType
<1>2. MonitorInv
    <2>1. cb \in BOOLEAN
        BY DEF Init
    <2>2. mon = "none" /\ devices = << >> /\ evt = NULL /\ tries = 0
        BY DEF Init
    <2> QED BY <2>1, <2>2 DEF MonitorInv, MonitorType, Delivering, Slots
<1>3. SocketType
    <2>1. created \in BOOLEAN
        BY DEF Init
    <2>2. listenfd = "unset" /\ sock = "none" /\ chan = << >>
        BY DEF Init
    <2> QED BY <2>1, <2>2 DEF SocketType
<1>4. DaemonInv
    BY FS_EmptySet DEF Init, DaemonInv, DaemonType
<1> QED BY <1>1, <1>2, <1>3, <1>4 DEF StateInv

\* What a step of each process leaves alone.
LEMMA AppFrame ==
    App => UNCHANGED <<cb, devices, evt, tries, listenfd, chan, created, daemonVars>>
BY DEF App, SubscribeIdevice, SubscribeUsbmux, Spawn, SpawnFails, UnsubscribeIdevice,
       UnsubscribeUsbmux, Shutdown, Join, monVars, daemonVars

LEMMA MonitorFrame == Monitor => UNCHANGED <<appVars, daemonVars>>
BY DEF Monitor, MonitorStep, MonitorStart, OuterTest, Connect, ConnectFails, PollTest, PollConnect,
       AddWatch, SocketCreated, RetryConnect, GiveUp, ListenOk, ListenFails, InnerTest,
       GetNextEvent, ReceiveAdd, ReceiveRemove, ReceiveUnexpected, ReceiveNoPayload,
       ReceiveEof, Flush, EventDropped, EventAccepted, Callback, Cleanup

LEMMA DaemonFrame == Daemon => UNCHANGED <<appVars, monVars, listenfd, view>>
BY DEF Daemon, Attach, Detach, SendBad, Stop, Bind, Ready

\* The view changes with a new subscription and in the callback only.
LEMMA ViewFrame ==
    Next => SubscribeIdevice \/ Callback \/ UNCHANGED view
BY DaemonFrame DEF Next, App, SubscribeUsbmux, Spawn, SpawnFails, UnsubscribeIdevice,
       UnsubscribeUsbmux, Shutdown, Join, Monitor, MonitorStep, MonitorStart, OuterTest, Connect,
       ConnectFails, PollTest, PollConnect, AddWatch, SocketCreated, RetryConnect, GiveUp,
       ListenOk, ListenFails, InnerTest, GetNextEvent, ReceiveAdd, ReceiveRemove,
       ReceiveUnexpected, ReceiveNoPayload, ReceiveEof, Flush, EventDropped,
       EventAccepted, Cleanup

\* Only the two calls touch it, and it never becomes true again.
LEMMA PairedStays ==
    ASSUME App, paired \in BOOLEAN
    PROVE  paired' \in BOOLEAN /\ (paired' => paired)
<1>1. CASE SubscribeIdevice
    <2>1. paired' = (paired /\ app # "subscribed")
        BY <1>1 DEF SubscribeIdevice
    <2> QED BY <2>1
<1>2. CASE UnsubscribeIdevice
    <2>1. paired' = (paired /\ app = "subscribed")
        BY <1>2 DEF UnsubscribeIdevice
    <2> QED BY <2>1
<1>3. CASE UNCHANGED paired
    BY <1>3
<1> QED
    BY <1>1, <1>2, <1>3 DEF App, SubscribeUsbmux, Spawn, SpawnFails, UnsubscribeUsbmux,
       Shutdown, Join

LEMMA AppTypeStep == ASSUME StateInv, Next PROVE AppType'
<1> USE Booleans DEF StateInv, AppType
<1>1. view' \subseteq Device
    BY ViewFrame DEF SubscribeIdevice, Callback, MonitorInv, Delivering, Event
<1>2. CASE App
    <2>1. idevCb' \in BOOLEAN /\ eventCb' \in BOOLEAN
        BY <1>2 DEF App, SubscribeIdevice, SubscribeUsbmux, Spawn, SpawnFails,
           UnsubscribeIdevice, UnsubscribeUsbmux, Shutdown, Join
    <2>2. /\ app' \in {"idle", "subscribing", "spawning", "subscribed", "failed",
                      "unsubscribing", "shutdown", "joining", "aborted"}
          /\ subs' \in Nat
        BY <1>2 DEF App, SubscribeIdevice, SubscribeUsbmux, Spawn, SpawnFails,
           UnsubscribeIdevice, UnsubscribeUsbmux, Shutdown, Join
    <2>3. paired' \in BOOLEAN
        BY <1>2, PairedStays
    <2> QED BY <1>1, <2>1, <2>2, <2>3
<1>3. CASE UNCHANGED appVars
    BY <1>1, <1>3 DEF appVars
<1> QED BY <1>2, <1>3, MonitorFrame, DaemonFrame DEF Next

\* A received packet is a message, and what is left is a queue of messages.
LEMMA HeadOfChan ==
    ASSUME SocketType, chan # << >>
    PROVE  Head(chan) \in Message /\ Tail(chan) \in Seq(Message)
BY DEF SocketType

LEMMA ListingType ==
    ASSUME NEW S \in SUBSET Device, IsFiniteSet(S), NEW s \in Listings(S)
    PROVE  s \in Seq(Message) /\ \A i \in DOMAIN s : s[i].kind = "add" /\ s[i].dev \in S
<1>1. Cardinality(S) \in Nat
    BY FS_CardinalityType
<1>2. s \in [1..Cardinality(S) -> [kind : {"add"}, dev : S]]
    BY DEF Listings
<1>3. [kind : {"add"}, dev : S] \subseteq Message
    BY DEF Message
<1> QED BY <1>1, <1>2, <1>3

LEMMA MonitorInvStep == ASSUME StateInv, Next PROVE MonitorInv'
<1> USE Booleans DEF StateInv, MonitorInv, MonitorType, Delivering
<1>1. CASE App
    BY <1>1, AppFrame DEF App, SubscribeIdevice, SubscribeUsbmux, Spawn, SpawnFails,
       UnsubscribeIdevice, UnsubscribeUsbmux, Shutdown, Join, monVars
<1>2. CASE UNCHANGED monVars
    BY <1>2 DEF monVars
<1>3. CASE MonitorStart
    BY <1>3 DEF MonitorStart, collection_init, Slots
<1>4. CASE OuterTest \/ InnerTest \/ GetNextEvent \/ EventAccepted
    BY <1>4 DEF OuterTest, InnerTest, GetNextEvent, EventAccepted, AppType
<1>5. CASE Connect \/ ConnectFails \/ PollTest \/ PollConnect
    BY <1>5 DEF Connect, ConnectFails, PollTest, PollConnect, Connected
<1>6. CASE AddWatch \/ SocketCreated \/ RetryConnect \/ GiveUp
    BY <1>6, ConstantsAssumption DEF AddWatch, SocketCreated, RetryConnect, GiveUp, Connected
<1>7. CASE ListenOk \/ ListenFails
    BY <1>7 DEF ListenOk, ListenFails
<1>8. CASE ReceiveUnexpected \/ ReceiveNoPayload \/ ReceiveEof
    BY <1>8 DEF ReceiveUnexpected, ReceiveNoPayload, ReceiveEof
<1>9. CASE ReceiveAdd
    <2>1. Head(chan).dev \in Device
        BY <1>9, HeadOfChan, ConstantsAssumption DEF ReceiveAdd, Message, BadMessage
    <2>2. devices' \in Slots(Device) /\ devices' # << >>
        BY <1>9, <2>1, AddLive, NULLNotDevice DEF ReceiveAdd
    <2> QED BY <1>9, <2>1, <2>2 DEF ReceiveAdd, Generate, Event
<1>10. CASE ReceiveRemove
    <2>1. ASSUME NEW i \in Found(Head(chan).dev.h) PROVE devices[i] \in Device
        BY DEF Found, Used, Slots
    <2> QED BY <1>10, <2>1 DEF ReceiveRemove, Generate, Event
<1>11. CASE Flush
    <2>1. Live(devices) # {} => FirstLive(devices) \in Device
        BY FirstLiveExists DEF Slots, Live
    <2> QED BY <1>11, <2>1 DEF Flush, Generate, Event
<1>12. CASE EventDropped \/ Callback
    <2>1. evt \in Event /\ mon' \in {"inner", "flush"} /\ evt' = NULL /\ UNCHANGED <<cb, tries>>
        BY <1>12 DEF EventDropped, Callback, FinishEvent, Event
    <2>2. devices' \in Slots(Device) /\ devices' # << >>
        BY <1>12, RemoveType DEF EventDropped, Callback, FinishEvent
    <2> QED BY <2>1, <2>2
<1>13. CASE Cleanup
    BY <1>13 DEF Cleanup, collection_free, Slots
<1> QED
    BY <1>1, <1>2, <1>3, <1>4, <1>5, <1>6, <1>7, <1>8, <1>9, <1>10, <1>11, <1>12, <1>13,
       DaemonFrame DEF Next, Monitor, MonitorStep

\* A sent packet joins the queue of a listening connection.
LEMMA SendType == ASSUME SocketType, NEW m \in Message, Send(m) PROVE chan' \in Seq(Message)
BY DEF SocketType, Send

LEMMA NewDevice ==
    ASSUME DaemonInv, NEW u \in Udid, Attach(u)
    PROVE  [h |-> nextHandle, u |-> u] \in Device
BY ConstantsAssumption DEF DaemonInv, DaemonType, Attach, Device

LEMMA SocketTypeStep == ASSUME StateInv, Next PROVE SocketType'
<1> USE Booleans DEF StateInv, SocketType
<1>1. CASE App
    <2>1. sock' \in {"none", "connected", "listening", "cut"}
        BY <1>1 DEF App, SubscribeIdevice, SubscribeUsbmux, Spawn, SpawnFails,
           UnsubscribeIdevice, UnsubscribeUsbmux, Shutdown, Join, Cut
    <2> QED BY <1>1, <2>1, AppFrame
<1>2. CASE Monitor
    <2>1. chan' \in Seq(Message)
        <3>1. CASE ListenOk
            BY <3>1, ListingType DEF ListenOk, DaemonInv, DaemonType
        <3>2. CASE chan' = << >> \/ UNCHANGED chan
            BY <3>2, EmptyQueue
        <3>3. CASE ReceiveAdd \/ ReceiveRemove
            BY <3>3, HeadOfChan DEF ReceiveAdd, ReceiveRemove
        <3> QED
            BY <1>2, <3>1, <3>2, <3>3 DEF Monitor, MonitorStep, MonitorStart, OuterTest, Connect, ConnectFails,
               PollTest, PollConnect, AddWatch, SocketCreated, RetryConnect, GiveUp, ListenFails,
               InnerTest, GetNextEvent, ReceiveUnexpected, ReceiveNoPayload, ReceiveEof, Flush,
               EventDropped, EventAccepted, Callback, Cleanup, Connected
    <2>2. created' = FALSE \/ UNCHANGED created
        BY <1>2 DEF Monitor, MonitorStep, MonitorStart, OuterTest, Connect, ConnectFails, PollTest,
           PollConnect, AddWatch, SocketCreated, RetryConnect, GiveUp, ListenOk, ListenFails,
           InnerTest, GetNextEvent, ReceiveAdd, ReceiveRemove, ReceiveUnexpected,
           ReceiveNoPayload, ReceiveEof, Flush, EventDropped, EventAccepted, Callback, Cleanup
    <2>3. /\ sock' \in {"none", "connected", "listening", "cut"}
          /\ listenfd' \in {"unset", "live", "stale", "leaked"}
        BY <1>2 DEF Monitor, MonitorStep, MonitorStart, OuterTest, Connect, ConnectFails, PollTest,
           PollConnect, AddWatch, SocketCreated, RetryConnect, GiveUp, ListenOk, ListenFails,
           InnerTest, GetNextEvent, ReceiveAdd, ReceiveRemove, ReceiveUnexpected, ReceiveEof,
           ReceiveNoPayload, Flush, EventDropped, EventAccepted, Callback, Cleanup, Connected
    <2> QED BY <2>1, <2>2, <2>3
<1>3. CASE Daemon
    <2>1. chan' \in Seq(Message)
        <3>1. ASSUME NEW u \in Udid, Attach(u) PROVE chan' \in Seq(Message)
            BY <3>1, NewDevice, SendType DEF Attach, Message
        <3>2. ASSUME NEW d \in attached, Detach(d) PROVE chan' \in Seq(Message)
            BY <3>2, SendType DEF Detach, Message, DaemonInv, DaemonType
        <3>3. ASSUME NEW m \in BadMessages, SendBad(m) PROVE chan' \in Seq(Message)
            BY <3>3, SendType DEF SendBad, Message
        <3> QED BY <1>3, <3>1, <3>2, <3>3 DEF Daemon, Stop, Bind, Ready
    <2>2. created' \in BOOLEAN
        BY <1>3 DEF Daemon, Attach, Detach, SendBad, Stop, Bind, Ready
    <2>3. sock' \in {"none", "connected", "listening", "cut"}
        BY <1>3 DEF Daemon, Attach, Detach, SendBad, Stop, Bind, Ready, Cut
    <2> QED BY <1>3, <2>1, <2>2, <2>3, DaemonFrame
<1> QED BY <1>1, <1>2, <1>3 DEF Next

LEMMA DaemonInvStep == ASSUME StateInv, Next PROVE DaemonInv'
<1> USE DEF StateInv, DaemonInv, DaemonType
<1>1. CASE UNCHANGED daemonVars
    BY <1>1 DEF daemonVars
<1>2. ASSUME NEW u \in Udid, Attach(u) PROVE DaemonInv'
    <2>1. attached' \subseteq Device /\ IsFiniteSet(attached')
        BY <1>2, NewDevice, FS_AddElement DEF Attach
    <2> QED BY <1>2, <2>1 DEF Attach
<1>3. ASSUME NEW d \in attached, Detach(d) PROVE DaemonInv'
    <2>1. IsFiniteSet(attached')
        BY <1>3, FS_RemoveElement DEF Detach
    <2> QED BY <1>3, <2>1 DEF Detach
<1>4. ASSUME NEW m \in BadMessages, SendBad(m) PROVE DaemonInv'
    BY <1>4 DEF SendBad
<1>5. CASE Stop
    BY <1>5, FS_EmptySet DEF Stop
<1>6. CASE Bind \/ Ready
    BY <1>6 DEF Bind, Ready
<1> QED
    BY <1>1, <1>2, <1>3, <1>4, <1>5, <1>6, AppFrame, MonitorFrame DEF Next, Daemon

LEMMA StateStep == ASSUME StateInv, [Next]_vars PROVE StateInv'
<1>1. CASE UNCHANGED vars
    BY <1>1 DEF vars, StateInv, AppType, MonitorInv, MonitorType, SocketType, DaemonInv,
       DaemonType, Delivering
<1>2. CASE Next
    BY <1>2, AppTypeStep, MonitorInvStep, SocketTypeStep, DaemonInvStep DEF StateInv
<1> QED BY <1>1, <1>2

\* Types are respected by every execution.
THEOREM TypeCorrect == Spec => []TypeOK
<1>1. StateInv => TypeOK
    BY DEF StateInv, MonitorInv, DaemonInv, TypeOK
<1> QED BY <1>1, InitState, StateStep, PTL DEF Spec

-----------------------------------------------------------------------------
(* The two threads.                                                        *)

LEMMA InitThread == Init => ThreadInv
BY DEF Init, ThreadInv

\* Where a step of the monitor thread can lead.
LEMMA MonitorMoves ==
    ASSUME StateInv, Monitor
    PROVE  /\ mon \notin {"none", "done"} /\ mon' \notin {"none", "start"}
           /\ mon' = "cleanup" => ~eventCb
           /\ mon' = "done" => mon = "cleanup"
           /\ mon' \in {"receive", "flush", "event", "callback"} =>
                \/ mon \in {"receive", "flush", "event", "callback"} /\ UNCHANGED cb
                \/ cb' = eventCb
BY DEF Monitor, MonitorStep, MonitorStart, OuterTest, Connect, ConnectFails, PollTest, PollConnect,
       AddWatch, SocketCreated, RetryConnect, GiveUp, ListenOk, ListenFails, InnerTest,
       GetNextEvent, ReceiveAdd, ReceiveRemove, ReceiveUnexpected, ReceiveNoPayload,
       ReceiveEof, Flush, EventDropped, EventAccepted, Callback, Cleanup, Connected,
       Generate, FinishEvent, StateInv, MonitorInv, Delivering, Event

LEMMA ThreadStep == ASSUME StateInv, ThreadInv, Next PROVE ThreadInv'
<1> USE DEF ThreadInv
<1>1. CASE App
    <2>1. UNCHANGED cb
        BY <1>1, AppFrame
    <2>2. CASE SubscribeIdevice
        BY <2>1, <2>2 DEF SubscribeIdevice, AtRest, monVars
    <2>3. CASE SubscribeUsbmux
        BY <2>1, <2>3 DEF SubscribeUsbmux, monVars
    <2>4. CASE Spawn
        BY <2>1, <2>4 DEF Spawn
    <2>5. CASE SpawnFails
        BY <2>1, <2>5 DEF SpawnFails, monVars
    <2>6. CASE UnsubscribeIdevice
        BY <2>1, <2>6 DEF UnsubscribeIdevice, AtRest, monVars
    <2>7. CASE UnsubscribeUsbmux
        BY <2>1, <2>7 DEF UnsubscribeUsbmux, monVars
    <2>8. CASE Shutdown \/ Join
        BY <2>1, <2>8 DEF Shutdown, Join, monVars
    <2> QED BY <1>1, <2>2, <2>3, <2>4, <2>5, <2>6, <2>7, <2>8 DEF App
<1>2. CASE Monitor
    <2>1. UNCHANGED appVars
        BY <1>2, MonitorFrame
    <2>2. view' # view => mon = "callback"
        BY <1>2, <2>1, ViewFrame DEF Next, SubscribeIdevice, Callback, appVars
    <2> QED BY <1>2, <2>1, <2>2, MonitorMoves DEF appVars
<1>3. CASE Daemon
    BY <1>3, DaemonFrame DEF appVars, monVars
<1> QED BY <1>1, <1>2, <1>3 DEF Next

\* As long as the application's calls are paired g_thread does not terminate the
\* process, also when std::thread throws, wherever the monitor thread is.
THEOREM NoAbort == Spec => []NeverAborts
<1>1. StateInv /\ ThreadInv /\ [Next]_vars => ThreadInv'
    <2>1. CASE UNCHANGED vars
        BY <2>1 DEF vars, ThreadInv
    <2> QED BY <2>1, ThreadStep
<1>2. ThreadInv => NeverAborts
    BY DEF ThreadInv, NeverAborts
<1> QED BY <1>1, <1>2, InitState, InitThread, StateStep, PTL DEF Spec

-----------------------------------------------------------------------------
(* The collection, the queue and the subscriber's view.                    *)

LEMMA LiveEmpty == Live(<< >>) = {} /\ Live(<<NULL>>) = {}
BY DEF Live

LEMMA InitData == Init => DataInv
<1> SUFFICES ASSUME Init PROVE DataInv
    OBVIOUS
<1>1. devices = << >> /\ chan = << >> /\ mon = "none" /\ app = "idle" /\ sock = "none" /\ attached = {}
    BY DEF Init
<1>2. DeviceInv
    BY <1>1, LiveEmpty DEF DeviceInv, Distinct, Delivering, Listening
<1>3. ChannelInv
    BY <1>1 DEF ChannelInv, Adds
<1> QED BY <1>1, <1>2, <1>3 DEF DataInv, ViewMatches, NewsInv

\* A step that delivers nothing, touches no device and sends nothing.
LEMMA QuietStep ==
    ASSUME DataInv,
           UNCHANGED <<devices, view, attached, nextHandle>>,
           app' = "subscribed" => app = "subscribed", UNCHANGED paired,
           eventCb' => eventCb,
           ~Delivering, ~Delivering',
           chan' = << >> \/ chan' = chan,
           sock' = "listening" => sock = "listening",
           Listening' => Live(devices) = {},
           mon' = "outer" /\ Live(devices) # {} => ~eventCb
    PROVE  DataInv'
<1> USE DEF DataInv
<1>1. DeviceInv'
    BY DEF DeviceInv
<1>2. ChannelInv'
    BY DEF ChannelInv, Adds
<1>3. ViewMatches' /\ NewsInv'
    BY DEF ViewMatches, NewsInv, Announced, Delivering
<1> QED BY <1>1, <1>2, <1>3

LEMMA AppData == ASSUME StateInv, ThreadInv, DataInv, App PROVE DataInv'
<1>1. UNCHANGED <<devices, evt, chan, attached, nextHandle>>
    BY AppFrame DEF daemonVars
<1>2. ChannelInv'
    BY <1>1 DEF App, SubscribeIdevice, SubscribeUsbmux, Spawn, SpawnFails, UnsubscribeIdevice,
       UnsubscribeUsbmux, Shutdown, Join, Cut, DataInv, ChannelInv, Adds
<1>3. CASE SubscribeIdevice \/ SubscribeUsbmux
    <2>1. /\ UNCHANGED mon /\ app' \notin {"subscribed", "aborted"} /\ (paired' => paired)
          /\ paired' => mon = "none"
          /\ mon = "outer" => (eventCb' => eventCb)
        <3>1. CASE SubscribeIdevice
            BY <3>1 DEF SubscribeIdevice, AtRest, ThreadInv, monVars
        <3>2. CASE SubscribeUsbmux
            BY <3>2 DEF SubscribeUsbmux, ThreadInv, monVars
        <3> QED BY <1>3, <3>1, <3>2
    <2> QED BY <1>1, <1>2, <2>1 DEF DataInv, DeviceInv, ViewMatches, NewsInv, Delivering, Listening
<1>4. CASE Spawn
    <2>1. UNCHANGED <<view, paired, eventCb>>
        BY <1>4 DEF Spawn
    <2>2. CASE mon = "none"
        <3>1. devices = << >> /\ mon' = "start" /\ (paired => view = {})
            BY <1>4, <2>2 DEF Spawn, ThreadInv, StateInv, MonitorInv
        <3> QED BY <1>1, <1>2, <2>1, <3>1, LiveEmpty DEF DataInv, DeviceInv, ViewMatches, Announced,
                NewsInv, Delivering, Listening, Distinct
    <2>3. CASE mon # "none"
        <3>1. app' = "aborted" /\ UNCHANGED mon
            BY <1>4, <2>3 DEF Spawn
        <3> QED BY <1>1, <1>2, <2>1, <3>1 DEF DataInv, DeviceInv, ViewMatches, NewsInv,
                Delivering, Listening
    <2> QED BY <2>2, <2>3
<1>5. CASE SpawnFails \/ UnsubscribeIdevice \/ UnsubscribeUsbmux \/ Shutdown
    <2>1. /\ UNCHANGED <<mon, view>> /\ app' # "subscribed"
          /\ eventCb' => eventCb
          /\ paired' => paired
        BY <1>5, PairedStays DEF App, StateInv, AppType, SpawnFails, UnsubscribeIdevice, UnsubscribeUsbmux, Shutdown, monVars
    <2> QED BY <1>1, <1>2, <2>1 DEF DataInv, DeviceInv, ViewMatches, NewsInv, Delivering, Listening
<1>6. CASE Join
    <2>1. mon' = "none" /\ app' # "subscribed"
        BY <1>6 DEF Join
    <2> QED BY <1>1, <1>2, <2>1 DEF DataInv, DeviceInv, ViewMatches, NewsInv, Delivering, Listening
<1> QED BY <1>3, <1>4, <1>5, <1>6, AppFrame DEF App

LEMMA DaemonData == ASSUME StateInv, DataInv, Daemon PROVE DataInv'
<1>1. UNCHANGED <<devices, evt, mon, view, app, paired, eventCb>>
    BY DaemonFrame DEF appVars, monVars
<1>2. DeviceInv' /\ ViewMatches' /\ NewsInv'
    BY <1>1 DEF DataInv, DeviceInv, ViewMatches, NewsInv, Announced, Delivering, Listening
<1>3. ChannelInv'
    <2> USE DEF DataInv, ChannelInv, Adds
    <2>1. ASSUME NEW u \in Udid, Attach(u) PROVE ChannelInv'
        <3> DEFINE d == [h |-> nextHandle, u |-> u]
        <3>1. \A e \in attached' : e.h < nextHandle'
            BY <2>1 DEF Attach, StateInv, DaemonInv, DaemonType, Device
        <3>2. CASE sock = "listening"
            <4>1. chan' = Append(chan, [kind |-> "add", dev |-> d]) /\ UNCHANGED sock
                BY <2>1, <3>2 DEF Attach, Send
            <4>0. d.h = nextHandle /\ ~(nextHandle < nextHandle)
                BY DEF StateInv, DaemonInv, DaemonType
            <4>2. \A e \in Live(devices) : e.h < nextHandle /\ e # d
                BY <3>2, <4>0
            <4>3. \A i \in Adds : chan[i].dev.h < nextHandle /\ chan[i].dev # d
                BY <3>2, <4>0
            <4>4. chan \in Seq(Message) /\ nextHandle \in Nat /\ nextHandle' = nextHandle + 1
                BY <2>1 DEF StateInv, SocketType, DaemonInv, DaemonType, Attach
            <4>5. /\ DOMAIN chan' = 1..(Len(chan) + 1)
                  /\ \A i \in DOMAIN chan : chan'[i] = chan[i]
                  /\ chan'[Len(chan) + 1] = [kind |-> "add", dev |-> d]
                BY <4>1, <4>4
            <4>6. ASSUME NEW i \in Adds'
                  PROVE  i \in Adds \/ (i = Len(chan) + 1 /\ chan'[i].dev = d)
                BY <4>4, <4>5
            <4>7. \A i \in Adds' : chan'[i].dev \notin Live(devices')
                BY <1>1, <4>2, <4>5, <4>6
            <4>8. \A i, j \in Adds' : chan'[i].dev = chan'[j].dev => i = j
                BY <4>3, <4>5, <4>6
            <4>9. \A e \in Live(devices') : e.h < nextHandle'
                <5>1. \A e \in Live(devices) : e.h \in Nat
                    BY DEF StateInv, MonitorInv, MonitorType, Slots, Live, Device
                <5> QED BY <1>1, <4>2, <4>4, <5>1
            <4>10. \A i \in Adds' : chan'[i].dev.h < nextHandle'
                <5>1. \A i \in Adds : chan[i].dev.h \in Nat
                    BY <4>4, ConstantsAssumption DEF Message, BadMessage, Device
                <5> QED BY <4>3, <4>4, <4>5, <4>6, <5>1
            <4> QED BY <3>1, <4>7, <4>8, <4>9, <4>10
        <3>3. CASE sock # "listening"
            BY <1>1, <2>1, <3>1, <3>3 DEF Attach, Send
        <3> QED BY <3>2, <3>3
    <2>2. ASSUME NEW m \in Message, m.kind # "add", Send(m),
                 UNCHANGED <<sock, nextHandle>>, attached' \subseteq attached
          PROVE  ChannelInv'
        <3>1. CASE sock = "listening"
            <4>1. chan' = Append(chan, m) /\ chan \in Seq(Message)
                BY <2>2, <3>1 DEF Send, StateInv, SocketType
            <4>2. Adds' = Adds /\ \A i \in Adds : chan'[i] = chan[i]
                BY <2>2, <4>1
            <4> HIDE DEF Adds
            <4> QED BY <1>1, <2>2, <4>2
        <3>2. CASE sock # "listening"
            BY <1>1, <2>2, <3>2 DEF Send
        <3> QED BY <3>1, <3>2
    <2>3. ASSUME NEW d \in attached, Detach(d) PROVE ChannelInv'
        BY <2>2, <2>3 DEF Detach, Message, StateInv, DaemonInv, DaemonType
    <2>4. ASSUME NEW m \in BadMessages, SendBad(m) PROVE ChannelInv'
        BY <2>2, <2>4, ConstantsAssumption DEF SendBad, Message, BadMessage
    <2>5. CASE Stop
        BY <1>1, <2>5 DEF Stop, Cut
    <2>6. CASE Bind \/ Ready
        BY <1>1, <2>6 DEF Bind, Ready
    <2> QED BY <2>1, <2>3, <2>4, <2>5, <2>6 DEF Daemon
<1> QED BY <1>2, <1>3 DEF DataInv

\* What is left of the queue after its first packet.
LEMMA TailOfChan ==
    ASSUME SocketType, chan # << >>
    PROVE  /\ 1 \in DOMAIN chan /\ Head(chan) = chan[1]
           /\ \A i \in DOMAIN Tail(chan) : i + 1 \in DOMAIN chan /\ Tail(chan)[i] = chan[i + 1] /\ i # 0
BY DEF SocketType

LEMMA ListingDistinct ==
    ASSUME NEW S \in SUBSET Device, IsFiniteSet(S), NEW s \in Listings(S),
           NEW i \in DOMAIN s, NEW j \in DOMAIN s, s[i].dev = s[j].dev
    PROVE  i = j
<1>1. DOMAIN s = 1..Cardinality(S) /\ s[i].dev \in S
    BY DEF Listings
<1>2. \E k \in 1..Cardinality(S) :
         \A m \in 1..Cardinality(S) : s[m].dev = s[i].dev => m = k
    BY <1>1 DEF Listings
<1> QED BY <1>1, <1>2

LEMMA MonitorData ==
    ASSUME Tolerable, StateInv, ThreadInv, DataInv, Monitor
    PROVE  DataInv'
<1>1. UNCHANGED <<app, idevCb, eventCb, subs, paired, daemon, attached, nextHandle>>
    BY MonitorFrame DEF appVars, daemonVars
<1>2. CASE MonitorStart
    <2>1. devices = << >> /\ mon = "start" /\ devices' = <<NULL>> /\ mon' = "outer" /\ UNCHANGED <<view, chan, sock>>
        BY <1>2 DEF MonitorStart, collection_init, StateInv, MonitorInv
    <2>2. Live(devices) = {} /\ Live(devices') = {} /\ Distinct(devices')
        BY <2>1, LiveEmpty DEF Distinct
    <2>3. DeviceInv'
        BY <2>1, <2>2 DEF DeviceInv, Delivering, Listening
    <2>4. ChannelInv'
        BY <1>1, <2>1, <2>2 DEF DataInv, ChannelInv, Adds
    <2> QED BY <1>1, <2>1, <2>2, <2>3, <2>4 DEF DataInv, ViewMatches, NewsInv, Announced
<1>3. CASE OuterTest \/ InnerTest \/ GetNextEvent
    BY <1>1, <1>3, QuietStep DEF OuterTest, InnerTest, GetNextEvent, DataInv, DeviceInv, Delivering, Listening
<1>4. CASE Connect \/ ConnectFails \/ PollTest \/ PollConnect
    BY <1>1, <1>4, QuietStep DEF Connect, ConnectFails, PollTest, PollConnect, Connected, DataInv,
       DeviceInv, Delivering, Listening
<1>5. CASE AddWatch \/ SocketCreated \/ RetryConnect \/ GiveUp \/ ListenFails
    BY <1>1, <1>5, QuietStep DEF AddWatch, SocketCreated, RetryConnect, GiveUp, ListenFails, Connected,
       DataInv, DeviceInv, Delivering, Listening
<1>6. CASE ReceiveUnexpected \/ ReceiveEof
    BY <1>1, <1>6, QuietStep DEF ReceiveUnexpected, ReceiveEof, Delivering, Listening
<1>7. CASE ReceiveNoPayload
    <2>1. Head(chan) \in Message
        BY <1>7, HeadOfChan DEF ReceiveNoPayload, StateInv
    <2> QED BY <1>7, <2>1 DEF ReceiveNoPayload, Tolerable, Message
<1>8. CASE ListenOk
    <2>1. Live(devices) = {} /\ mon = "listen" /\ mon' = "inner" /\ UNCHANGED <<devices, view>>
        BY <1>8 DEF ListenOk, DataInv, DeviceInv, Listening
    <2>2. chan' \in Listings(attached) /\ attached \subseteq Device /\ IsFiniteSet(attached)
        BY <1>8 DEF ListenOk, StateInv, DaemonInv, DaemonType
    <2>3. \A i \in DOMAIN chan' : chan'[i].dev \in attached
        BY <2>2, ListingType
    <2>4. \A i, j \in DOMAIN chan' : chan'[i].dev = chan'[j].dev => i = j
        BY <2>2, ListingDistinct
    <2>5. ChannelInv'
        BY <1>1, <2>1, <2>3, <2>4 DEF ChannelInv, Adds, DataInv
    <2> QED BY <1>1, <2>1, <2>5 DEF DataInv, DeviceInv, ViewMatches, NewsInv, Announced,
            Delivering, Listening
<1>9. CASE ReceiveAdd
    <2> DEFINE d == Head(chan).dev
    <2>1. chan # << >> /\ chan' = Tail(chan) /\ mon = "receive" /\ mon' = "event" /\ UNCHANGED <<view, sock>>
        BY <1>9 DEF ReceiveAdd, Generate
    <2>2. evt' = [kind |-> "add", dev |-> d, next |-> "inner"]
        BY <1>9 DEF ReceiveAdd, Generate
    <2>3. 1 \in Adds /\ d = chan[1].dev
        BY <1>9, <2>1, TailOfChan DEF StateInv, ReceiveAdd, Adds
    <2>4. d \in Device /\ d \notin Live(devices)
        BY <1>9, <2>1, <2>3, HeadOfChan, ConstantsAssumption
        DEF ReceiveAdd, Message, BadMessage, StateInv, DataInv, ChannelInv
    <2>5. devices \in Slots(Device) /\ devices # << >>
        BY <2>1 DEF StateInv, MonitorInv, MonitorType
    <2>6. Live(devices') = Live(devices) \cup {d} /\ Distinct(devices')
        BY <1>9, <2>4, <2>5, AddLive, NULLNotDevice DEF ReceiveAdd, DataInv, DeviceInv
    <2>7. DeviceInv'
        BY <2>1, <2>2, <2>6 DEF DeviceInv, Delivering, Listening
    <2>8. \A i \in Adds' : i + 1 \in Adds /\ chan'[i] = chan[i + 1] /\ i + 1 # 1 /\ i \in Nat
        BY <2>1, TailOfChan DEF StateInv, SocketType, Adds
    <2>9. ChannelInv'
        <3>1. \A i \in Adds' : chan'[i].dev \notin Live(devices')
            BY <2>3, <2>6, <2>8 DEF DataInv, ChannelInv
        <3>2. \A i, j \in Adds' : chan'[i].dev = chan'[j].dev => i = j
            BY <2>8 DEF DataInv, ChannelInv
        <3>3. sock' = "listening" => /\ \A e \in Live(devices') : e.h < nextHandle'
                                     /\ \A i \in Adds' : chan'[i].dev.h < nextHandle'
            BY <1>1, <2>1, <2>3, <2>6, <2>8 DEF DataInv, ChannelInv
        <3> QED BY <1>1, <3>1, <3>2, <3>3 DEF DataInv, ChannelInv
    <2>10. ViewMatches' /\ NewsInv'
        BY <1>1, <2>1, <2>2, <2>4, <2>6 DEF DataInv, ViewMatches, NewsInv, Announced
    <2> QED BY <2>7, <2>9, <2>10 DEF DataInv
<1>10. CASE ReceiveRemove
    <2>1. chan # << >> /\ chan' = Tail(chan) /\ mon = "receive" /\ UNCHANGED <<devices, view, sock>>
        BY <1>10 DEF ReceiveRemove
    <2>2. \/ mon' = "inner"
          \/ mon' = "event" /\ evt'.kind = "rem" /\ evt'.dev \in Live(devices)
        BY <1>10 DEF ReceiveRemove, Generate, Found, Used, Live
    <2>3. \A i \in Adds' : i + 1 \in Adds /\ chan'[i] = chan[i + 1] /\ i \in Nat
        BY <2>1, TailOfChan DEF StateInv, SocketType, Adds
    <2>4. ChannelInv'
        <3>1. \A i, j \in Adds' : chan'[i].dev = chan'[j].dev => i = j
            BY <2>3 DEF DataInv, ChannelInv
        <3>2. \A i \in Adds' : chan'[i].dev \notin Live(devices')
            BY <2>1, <2>3 DEF DataInv, ChannelInv
        <3> QED BY <1>1, <2>1, <2>3, <3>1, <3>2 DEF DataInv, ChannelInv
    <2>5. DeviceInv'
        BY <2>1, <2>2 DEF DataInv, DeviceInv, Delivering, Listening
    <2> QED BY <1>1, <2>1, <2>2, <2>4, <2>5 DEF DataInv, ViewMatches, NewsInv, Announced
<1>11. CASE Flush
    <2>1. UNCHANGED <<devices, view, sock, chan>> /\ mon = "flush"
        BY <1>11 DEF Flush
    <2>2. \/ mon' = "outer" /\ Live(devices) = {}
          \/ mon' = "event" /\ evt'.kind = "rem" /\ evt'.dev \in Live(devices)
        BY <1>11, FirstLiveExists DEF Flush, Generate, StateInv, MonitorInv, MonitorType, Slots
    <2> QED BY <1>1, <2>1, <2>2 DEF DataInv, DeviceInv, ChannelInv, Adds, ViewMatches, NewsInv, Announced,
            Delivering, Listening
<1>12. CASE EventAccepted
    <2>1. UNCHANGED <<devices, view, sock, chan, evt>> /\ mon = "event" /\ mon' = "callback" /\ idevCb
        BY <1>12 DEF EventAccepted
    <2>2. paired => app = "subscribed"
        BY <1>12, <2>1 DEF ThreadInv, Monitor
    <2>3. (paired => view = Announced) /\ evt \in Event /\ evt.dev \in Live(devices)
        BY <2>1, <2>2 DEF DataInv, ViewMatches, DeviceInv, StateInv, MonitorInv, Delivering
    <2>4. NewsInv'
        BY <1>1, <2>1, <2>3 DEF NewsInv, Announced, Event
    <2> QED BY <1>1, <2>1, <2>4 DEF DataInv, DeviceInv, ChannelInv, Adds, ViewMatches, Announced,
            Delivering, Listening
<1>13. CASE EventDropped \/ Callback
    <2>1. /\ FinishEvent /\ Delivering /\ UNCHANGED <<sock, chan>>
          /\ evt \in Event /\ evt.dev \in Live(devices) /\ mon' = evt.next
        BY <1>13 DEF EventDropped, Callback, FinishEvent, Delivering, StateInv, MonitorInv, DataInv, DeviceInv
    <2>2. mon' \in {"inner", "flush"}
        BY <2>1 DEF Event
    <2>3. /\ Distinct(devices')
          /\ Live(devices') = IF evt.kind = "rem" THEN Live(devices) \ {evt.dev} ELSE Live(devices)
        BY <2>1, RemoveLive, NULLNotDevice DEF FinishEvent, StateInv, MonitorInv, MonitorType,
           DataInv, DeviceInv
    <2>4. DeviceInv'
        BY <2>2, <2>3 DEF DeviceInv, Delivering, Listening
    <2>5. ChannelInv'
        BY <1>1, <2>1, <2>3 DEF DataInv, ChannelInv, Adds
    <2>6. ASSUME paired, app = "subscribed" PROVE view' = Live(devices')
        <3>1. Callback
            BY <1>13, <2>6 DEF EventDropped, ThreadInv
        <3>2. view' = IF evt.kind = "add" THEN view \cup {evt.dev} ELSE view \ {evt.dev}
            BY <2>1, <2>6, <3>1 DEF Callback, Event
        <3>3. view = IF evt.kind = "add" THEN Live(devices) \ {evt.dev} ELSE Live(devices)
            BY <2>1, <2>6 DEF DataInv, ViewMatches, Announced, Delivering
        <3> QED BY <2>1, <2>3, <3>2, <3>3 DEF Event
    <2> QED BY <1>1, <2>2, <2>4, <2>5, <2>6 DEF DataInv, ViewMatches, NewsInv, Announced
<1>14. CASE Cleanup
    <2>1. devices' = << >> /\ mon' = "done" /\ mon = "cleanup" /\ chan' = << >> /\ sock' = "none"
        BY <1>14 DEF Cleanup, collection_free
    <2>2. app # "subscribed"
        BY <2>1 DEF ThreadInv
    <2> QED BY <1>1, <2>1, <2>2, LiveEmpty DEF DataInv, DeviceInv, ChannelInv, Adds, ViewMatches, NewsInv,
            Delivering, Listening, Distinct
<1> QED
    BY <1>2, <1>3, <1>4, <1>5, <1>6, <1>7, <1>8, <1>9, <1>10, <1>11, <1>12, <1>13, <1>14 DEF Monitor, MonitorStep

LEMMA DataStep ==
    ASSUME Tolerable, StateInv, ThreadInv, DataInv, [Next]_vars
    PROVE  DataInv'
<1>1. CASE UNCHANGED vars
    BY <1>1 DEF vars, DataInv, DeviceInv, ChannelInv, Adds, ViewMatches, NewsInv, Announced,
       Delivering, Listening
<1> QED BY <1>1, AppData, MonitorData, DaemonData DEF Next

LEMMA Invariants ==
    ASSUME Tolerable
    PROVE  Spec => [](StateInv /\ ThreadInv /\ DataInv)
<1>1. StateInv /\ ThreadInv /\ DataInv /\ [Next]_vars => (StateInv /\ ThreadInv /\ DataInv)'
    <2>1. ThreadInv /\ UNCHANGED vars => ThreadInv'
        BY DEF vars, ThreadInv
    <2> QED BY <2>1, StateStep, ThreadStep, DataStep
<1> QED BY <1>1, InitState, InitThread, InitData, PTL DEF Spec

\* During a subscription the events delivered add up to the devices the
\* monitor keeps, through daemon restarts and rejected packets.
THEOREM ViewIsCorrect ==
    ASSUME Tolerable
    PROVE  Spec => []ViewMatches
<1>1. DataInv => ViewMatches
    BY DEF DataInv
<1> QED BY <1>1, Invariants, PTL

\* No device survives a failed connection to the daemon.
THEOREM FlushIsComplete ==
    ASSUME Tolerable
    PROVE  Spec => []DroppedOnFailure
<1>1. DataInv => DroppedOnFailure
    BY DEF DataInv, DeviceInv, Listening, DroppedOnFailure
<1> QED BY <1>1, Invariants, PTL

-----------------------------------------------------------------------------
(* Device discovery implements the abstract promise of DeviceEvents.       *)

LEMMA InitRefines == Init => Discovery!Init
BY DEF Init, Discovery!Init

\* A step is one of the promise's, or one the subscriber does not see.
LEMMA StepRefines ==
    ASSUME Tolerable, StateInv, ThreadInv, DataInv, [Next]_vars
    PROVE  [Discovery!Next]_(Discovery!vars)
<1> USE DEF Discovery!vars
<1>1. CASE UNCHANGED vars
    BY <1>1 DEF vars
<1>2. CASE App
    <2>1. CASE SubscribeIdevice
        BY <2>1 DEF SubscribeIdevice, AtRest, Discovery!Next, Discovery!Subscribe,
           Discovery!Unsubscribe
    <2>2. CASE SubscribeUsbmux \/ UnsubscribeUsbmux \/ Shutdown
        BY <2>2 DEF SubscribeUsbmux, UnsubscribeUsbmux, Shutdown
    <2>3. CASE Spawn \/ SpawnFails \/ Join
        BY <2>3 DEF Spawn, SpawnFails, Join, Discovery!Next, Discovery!Unsubscribe
    <2>4. CASE UnsubscribeIdevice
        BY <2>4 DEF UnsubscribeIdevice, AtRest, ThreadInv
    <2> QED BY <1>2, <2>1, <2>2, <2>3, <2>4 DEF App
<1>3. CASE Callback
    <2>0. UNCHANGED <<app, paired>>
        BY <1>3 DEF Callback, appVars
    <2> SUFFICES ASSUME paired PROVE [Discovery!Next]_(Discovery!vars)
        <3>1. ~paired => UNCHANGED view
            BY <1>3 DEF Callback
        <3> QED BY <2>0, <3>1
    <2>1. app \in {"subscribed", "unsubscribing", "shutdown", "joining"}
        BY <1>3 DEF Callback, ThreadInv, StateInv, AppType
    <2>2. evt \in Event /\ (evt.kind = "rem" <=> evt.dev \in view)
        BY <1>3 DEF Callback, StateInv, MonitorInv, Delivering, DataInv, NewsInv
    <2>3. evt.dev \in Device /\ evt.kind \in {"add", "rem"}
        BY <2>2 DEF Event
    <2>4. Discovery!Announce(evt.dev) \/ Discovery!Withdraw(evt.dev)
        BY <1>3, <2>0, <2>1, <2>2, <2>3 DEF Callback, Discovery!Announce, Discovery!Withdraw
    <2> QED BY <2>3, <2>4 DEF Discovery!Next
<1>4. CASE (Monitor \/ Daemon) /\ ~Callback /\ ~SubscribeIdevice
    <2>1. UNCHANGED <<app, paired, view>>
        BY <1>4, ViewFrame, MonitorFrame, DaemonFrame DEF appVars, Next
    <2> QED BY <2>1
<1>5. CASE (Monitor \/ Daemon) /\ SubscribeIdevice
    BY <1>5, MonitorFrame, DaemonFrame DEF appVars, SubscribeIdevice, AtRest
<1> QED BY <1>1, <1>2, <1>3, <1>4, <1>5 DEF Next

\* ADD and REMOVE alternate for each device, and the callback is silent
\* outside a subscription.
THEOREM DiscoveryRefines ==
    ASSUME Tolerable
    PROVE  Spec => DiscoverySpec
<1>1. StateInv /\ ThreadInv /\ DataInv /\ [Next]_vars => [Discovery!Next]_(Discovery!vars)
    BY StepRefines
<1> QED BY <1>1, InitRefines, Invariants, PTL DEF Spec, DiscoverySpec, Discovery!Spec
=============================================================================
