---------------------------- MODULE UsbmuxMonitor ----------------------------
(***************************************************************************)
(* Device discovery: the application thread that subscribes and            *)
(* unsubscribes (idevice.c, libusbmuxd.cpp), the device monitor thread     *)
(* those calls start and join, and the usbmuxd daemon at the other end of  *)
(* the monitor's socket.                                                   *)
(*                                                                         *)
(* The threads share event_cb of libusbmuxd, event_cb of idevice.c and     *)
(* listenfd without a lock; every read and every write of them is a step   *)
(* of its own.  The daemon attaches and detaches devices, stops, starts,   *)
(* and may send a packet the client does not understand.  Only the monitor *)
(* reads the socket, so what is still queued when the socket is cut is     *)
(* read before the end of file.                                            *)
(*                                                                         *)
(* No other usbmuxd request runs here, so proto_version keeps its initial  *)
(* value 1 and usbmuxd_listen never takes its retry branch.                *)
(***************************************************************************)
EXTENDS UsbmuxCollection, FiniteSets

CONSTANTS
    Udid,            \* the devices, by their unique id
    BadMessages,     \* what a faulty packet can be, see BadMessage below
    HAVE_INOTIFY,    \* BOOLEAN: built with inotify (the Linux build is)
    Remote,          \* BOOLEAN: usbmuxd_ipv4 names another host
    SpawnMayFail,    \* BOOLEAN: std::thread may throw
    Retries,         \* connects after the socket appears (10 in the code)
    MaxHandle,       \* bound: device ids a daemon hands out in one life
    MaxRestarts,     \* bound: times the daemon stops
    MaxSubs,         \* bound: subscriptions
    MaxBad           \* bound: faulty packets

\* "unexpected": a plist message of a type receive_packet rejects.
\* "noid": a Detached message without DeviceID, so without a payload.
BadMessage == {"unexpected", "noid"}

ASSUME ConstantsAssumption ==
    /\ BadMessages \subseteq BadMessage
    /\ HAVE_INOTIFY \in BOOLEAN
    /\ Remote \in BOOLEAN
    /\ SpawnMayFail \in BOOLEAN
    /\ {Retries, MaxHandle, MaxRestarts, MaxSubs, MaxBad} \subseteq Nat
    /\ IsFiniteSet(Udid)

\* usbmuxd_device_info_t: the handle a daemon gave it and its udid.
Device == [h : 1..MaxHandle, u : Udid]

ASSUME NULLNotDevice == NULL \notin Device

Message == [kind : {"add", "rem"}, dev : Device] \cup [kind : BadMessages]

Event == [kind : {"add", "rem"}, dev : Device, next : {"inner", "flush"}]

VARIABLES
    app,         \* where the application thread is
    idevCb,      \* event_cb of idevice.c is not NULL
    eventCb,     \* event_cb of libusbmuxd is not NULL
    subs,        \* subscriptions so far
    paired,      \* history: it subscribed only without a subscription, and
                 \* unsubscribed only from one
    mon,         \* where the monitor thread is; "none" when g_thread is empty
    cb,          \* the callback argument of the running get_next_event
    devices,     \* the collection of announced devices
    evt,         \* the event being generated, or NULL
    tries,       \* what is left of the retry counter of usbmuxd_listen_inotify
    listenfd,    \* "unset" (-1), "live", "stale" (closed), "leaked" (abandoned)
    sock,        \* the monitor's connection to the daemon
    chan,        \* packets the daemon has sent on it, not yet received
    daemon,      \* "down", "starting" (socket bound), "up"
    created,     \* an IN_CREATE of the socket waits in the inotify queue
    attached,    \* the devices the daemon knows
    nextHandle,  \* the next device id it hands out
    restarts,    \* how often it stopped
    bad,         \* how many faulty packets it sent
    view         \* the devices the application has been told are present,
                 \* followed as long as its calls are paired

appVars == <<app, idevCb, eventCb, subs, paired>>
monVars == <<mon, cb, devices, evt, tries>>
daemonVars == <<daemon, attached, nextHandle, restarts, bad>>
vars == <<app, idevCb, eventCb, subs, paired, mon, cb, devices, evt, tries, listenfd,
          sock, chan, daemon, created, attached, nextHandle, restarts, bad, view>>

Init ==
    /\ app = "idle" /\ idevCb = FALSE /\ eventCb = FALSE /\ subs = 0 /\ paired = TRUE
    /\ mon = "none" /\ cb = FALSE /\ devices = << >> /\ evt = NULL /\ tries = 0
    /\ listenfd = "unset" /\ sock = "none" /\ chan = << >>
    /\ daemon \in {"down", "up"} /\ created = FALSE
    /\ attached = {} /\ nextHandle = 1 /\ restarts = 0 /\ bad = 0
    /\ view = {}

-----------------------------------------------------------------------------
(* The application: idevice_event_subscribe, idevice_event_unsubscribe.    *)

\* No call of the application is in progress: both may be made, in any order.
AtRest == app \in {"idle", "subscribed", "failed"}

\* event_cb = callback, in idevice.c; a new subscription knows no device.
SubscribeIdevice ==
    /\ AtRest
    /\ subs < MaxSubs
    /\ app' = "subscribing"
    /\ idevCb' = TRUE
    /\ subs' = subs + 1
    /\ paired' = (paired /\ app # "subscribed")
    /\ view' = IF paired' THEN {} ELSE view
    /\ UNCHANGED <<eventCb, listenfd, sock, chan, created, monVars, daemonVars>>

\* event_cb = callback, in libusbmuxd.
SubscribeUsbmux ==
    /\ app = "subscribing"
    /\ app' = "spawning"
    /\ eventCb' = TRUE
    /\ UNCHANGED <<idevCb, subs, paired, listenfd, sock, chan, created, view, monVars, daemonVars>>

\* g_thread = std::thread(...): terminates when a thread was not joined.
Spawn ==
    /\ app = "spawning"
    /\ IF mon = "none"
       THEN app' = "subscribed" /\ mon' = "start"
       ELSE app' = "aborted" /\ UNCHANGED mon
    /\ UNCHANGED <<idevCb, eventCb, subs, paired, cb, devices, evt, tries, listenfd, sock,
                   chan, created, view, daemonVars>>

\* std::thread throws: -1, and only idevice.c takes its callback back; a
\* thread of an earlier subscription goes on.
SpawnFails ==
    /\ SpawnMayFail
    /\ app = "spawning"
    /\ app' = "failed"
    /\ idevCb' = FALSE
    /\ UNCHANGED <<eventCb, subs, paired, listenfd, sock, chan, created, view, monVars, daemonVars>>

\* A caller that does not look at the result unsubscribes after a failure too.
UnsubscribeIdevice ==
    /\ AtRest
    /\ app' = "unsubscribing"
    /\ idevCb' = FALSE
    /\ paired' = (paired /\ app = "subscribed")
    /\ UNCHANGED <<eventCb, subs, listenfd, sock, chan, created, view, monVars, daemonVars>>

UnsubscribeUsbmux ==
    /\ app = "unsubscribing"
    /\ app' = "shutdown"
    /\ eventCb' = FALSE
    /\ UNCHANGED <<idevCb, subs, paired, listenfd, sock, chan, created, view, monVars, daemonVars>>

Cut(s) == IF s \in {"connected", "listening"} THEN "cut" ELSE s

\* Bug: the blocked receive is not woken.
ShutdownForgotten ==
    /\ app = "shutdown"
    /\ app' = "joining"
    /\ UNCHANGED <<idevCb, eventCb, subs, paired, listenfd, sock, chan, created, view, monVars, daemonVars>>

\* shutdown_socket(listenfd): a stale number may by now be the number of the
\* connection the monitor is just setting up.
Shutdown ==
    /\ app = "shutdown"
    /\ app' = "joining"
    /\ \/ listenfd = "live" /\ sock' = Cut(sock)
       \/ listenfd = "stale" /\ sock' \in {sock, Cut(sock)}
       \/ listenfd \in {"unset", "leaked"} /\ UNCHANGED sock
    /\ UNCHANGED <<idevCb, eventCb, subs, paired, listenfd, chan, created, view, monVars, daemonVars>>

\* Bug: the thread is left running and g_thread keeps it.
JoinForgotten ==
    /\ app = "joining"
    /\ app' = "idle"
    /\ UNCHANGED <<idevCb, eventCb, subs, paired, listenfd, sock, chan, created, view, monVars, daemonVars>>

\* g_thread.join(): throws, uncaught, when there is no thread to join.
Join ==
    /\ app = "joining"
    /\ mon \in {"none", "done"}
    /\ app' = IF mon = "done" THEN "idle" ELSE "aborted"
    /\ mon' = "none"
    /\ UNCHANGED <<idevCb, eventCb, subs, paired, cb, devices, evt, tries, listenfd, sock,
                   chan, created, view, daemonVars>>

App ==
    \/ SubscribeIdevice \/ SubscribeUsbmux \/ Spawn \/ SpawnFails
    \/ UnsubscribeIdevice \/ UnsubscribeUsbmux \/ Shutdown \/ Join

-----------------------------------------------------------------------------
(* The monitor thread: device_monitor and usbmuxd_listen.                  *)

MonitorStart ==
    /\ mon = "start"
    /\ devices' = collection_init
    /\ mon' = "outer"
    /\ UNCHANGED <<cb, evt, tries, listenfd, sock, chan, created, view, appVars, daemonVars>>

\* while (event_cb) of device_monitor.
OuterTest ==
    /\ mon = "outer"
    /\ mon' = IF eventCb THEN "connect" ELSE "cleanup"
    /\ UNCHANGED <<cb, devices, evt, tries, listenfd, sock, chan, created, view, appVars, daemonVars>>

\* connect_usbmuxd_socket succeeds: on to the Listen request.
Connected ==
    /\ daemon = "up"
    /\ sock' = "connected"
    /\ chan' = << >>
    /\ mon' = "listen"

\* The first connect of usbmuxd_listen_inotify, or of usbmuxd_listen_poll.
Connect ==
    /\ mon = "connect"
    /\ Connected
    /\ UNCHANGED <<cb, devices, evt, tries, listenfd, created, view, appVars, daemonVars>>

ConnectFails ==
    /\ mon = "connect"
    /\ daemon # "up"
    /\ mon' = IF HAVE_INOTIFY THEN "watch" ELSE "poll"
    /\ UNCHANGED <<cb, devices, evt, tries, listenfd, sock, chan, created, view, appVars, daemonVars>>

\* while (event_cb) of usbmuxd_listen_poll; it gives up with sfd < 0.
PollTest ==
    /\ mon = "poll"
    /\ IF eventCb
       THEN mon' = "poll_connect" /\ UNCHANGED listenfd
       ELSE mon' = "outer" /\ listenfd' = "unset"
    /\ UNCHANGED <<cb, devices, evt, tries, sock, chan, created, view, appVars, daemonVars>>

PollConnect ==
    /\ mon = "poll_connect"
    /\ \/ Connected
       \/ daemon # "up" /\ mon' = "poll" /\ UNCHANGED <<sock, chan>>
    /\ UNCHANGED <<cb, devices, evt, tries, listenfd, created, view, appVars, daemonVars>>

\* inotify_add_watch: only what is created from here on is reported.
AddWatch ==
    /\ mon = "watch"
    /\ created' = FALSE
    /\ mon' = "wait"
    /\ UNCHANGED <<cb, devices, evt, tries, listenfd, sock, chan, view, appVars, daemonVars>>

\* read(inot_fd) returns the IN_CREATE of the usbmuxd socket.
SocketCreated ==
    /\ mon = "wait"
    /\ created
    /\ created' = FALSE
    /\ tries' = Retries
    /\ mon' = "retry"
    /\ UNCHANGED <<cb, devices, evt, listenfd, sock, chan, view, appVars, daemonVars>>

RetryConnect ==
    /\ mon = "retry"
    /\ tries > 0
    /\ tries' = tries - 1
    /\ \/ Connected
       \/ daemon # "up" /\ UNCHANGED <<mon, sock, chan>>
    /\ UNCHANGED <<cb, devices, evt, listenfd, created, view, appVars, daemonVars>>

\* Out of retries: usbmuxd_listen returns -1.
GiveUp ==
    /\ mon = "retry"
    /\ tries = 0
    /\ listenfd' = "unset"
    /\ mon' = "outer"
    /\ UNCHANGED <<cb, devices, evt, tries, sock, chan, created, view, appVars, daemonVars>>

\* A listing of the devices the daemon knows, in any order.
Listings(S) ==
    {s \in [1..Cardinality(S) -> [kind : {"add"}, dev : S]] :
        \A d \in S : \E i \in 1..Cardinality(S) :
            /\ s[i].dev = d
            /\ \A j \in 1..Cardinality(S) : s[j].dev = d => j = i}

\* The daemon answers the Listen request with OK, then announces its devices.
ListenOk ==
    /\ mon = "listen"
    /\ sock = "connected"
    /\ sock' = "listening"
    /\ chan' \in Listings(attached)
    /\ listenfd' = "live"
    /\ mon' = "inner"
    /\ UNCHANGED <<cb, devices, evt, tries, created, view, appVars, daemonVars>>

\* Bug: device_monitor ends where it should try again.
ListenFailsForGood ==
    /\ mon = "listen"
    /\ sock' = "none"
    /\ chan' = << >>
    /\ listenfd' = "unset"
    /\ mon' = "cleanup"
    /\ UNCHANGED <<cb, devices, evt, tries, created, view, appVars, daemonVars>>

\* The request is not sent, is refused, or is not answered in 5 s.
ListenFails ==
    /\ mon = "listen"
    /\ sock' = "none"
    /\ chan' = << >>
    /\ listenfd' = "unset"
    /\ mon' = "outer"
    /\ UNCHANGED <<cb, devices, evt, tries, created, view, appVars, daemonVars>>

\* The inner while (event_cb) of device_monitor.
InnerTest ==
    /\ mon = "inner"
    /\ mon' = IF eventCb THEN "next" ELSE "outer"
    /\ UNCHANGED <<cb, devices, evt, tries, listenfd, sock, chan, created, view, appVars, daemonVars>>

\* get_next_event(listenfd, event_cb, data) reads event_cb once more.
GetNextEvent ==
    /\ mon = "next"
    /\ cb' = eventCb
    /\ mon' = "receive"
    /\ UNCHANGED <<devices, evt, tries, listenfd, sock, chan, created, view, appVars, daemonVars>>

\* devices_find: the first device with this handle.
Found(h) == {i \in Used(devices) :
               /\ devices[i].h = h
               /\ \A j \in Used(devices) : devices[j].h = h => i <= j}

Generate(kind, d, next) ==
    /\ evt' = [kind |-> kind, dev |-> d, next |-> next]
    /\ mon' = "event"

ReceiveAdd ==
    /\ mon = "receive"
    /\ chan # << >> /\ Head(chan).kind = "add"
    /\ chan' = Tail(chan)
    /\ devices' = collection_add(devices, Head(chan).dev)
    /\ Generate("add", Head(chan).dev, "inner")
    /\ UNCHANGED <<cb, tries, listenfd, sock, created, view, appVars, daemonVars>>

\* The packet names the handle only; an unknown one is ignored.
ReceiveRemove ==
    /\ mon = "receive"
    /\ chan # << >> /\ Head(chan).kind = "rem"
    /\ chan' = Tail(chan)
    /\ \/ \E i \in Found(Head(chan).dev.h) : Generate("rem", devices[i], "inner")
       \/ Found(Head(chan).dev.h) = {} /\ mon' = "inner" /\ UNCHANGED evt
    /\ UNCHANGED <<cb, devices, tries, listenfd, sock, created, view, appVars, daemonVars>>

\* receive_packet fails on a packet it does not know; the socket stays open
\* and is abandoned.
ReceiveUnexpected ==
    /\ mon = "receive"
    /\ chan # << >> /\ Head(chan).kind = "unexpected"
    /\ chan' = << >>
    /\ sock' = "none"
    /\ listenfd' = "leaked"
    /\ mon' = "flush"
    /\ UNCHANGED <<cb, devices, evt, tries, created, view, appVars, daemonVars>>

\* The payload is missing: -EBADMSG, and the devices are kept.
ReceiveNoPayload ==
    /\ mon = "receive"
    /\ chan # << >> /\ Head(chan).kind = "noid"
    /\ chan' = << >>
    /\ sock' = "none"
    /\ listenfd' = "leaked"
    /\ mon' = "outer"
    /\ UNCHANGED <<cb, devices, evt, tries, created, view, appVars, daemonVars>>

\* Bug: a failed connection is not followed by remove events.
ReceiveEofOnly ==
    /\ mon = "receive"
    /\ chan = << >> /\ sock = "cut"
    /\ sock' = "none"
    /\ listenfd' = "stale"
    /\ mon' = "outer"
    /\ UNCHANGED <<cb, devices, evt, tries, chan, created, view, appVars, daemonVars>>

\* recv returns 0: recv_buf_timeout closes the socket.
ReceiveEof ==
    /\ mon = "receive"
    /\ chan = << >> /\ sock = "cut"
    /\ sock' = "none"
    /\ listenfd' = "stale"
    /\ mon' = "flush"
    /\ UNCHANGED <<cb, devices, evt, tries, chan, created, view, appVars, daemonVars>>

\* The connection failed: an event for every device still present.
Flush ==
    /\ mon = "flush"
    /\ IF Live(devices) # {}
       THEN Generate("rem", FirstLive(devices), "flush")
       ELSE mon' = "outer" /\ UNCHANGED evt
    /\ UNCHANGED <<cb, devices, tries, listenfd, sock, chan, created, view, appVars, daemonVars>>

\* After the callback: a removed device leaves the collection.
FinishEvent ==
    /\ devices' = IF evt.kind = "rem" THEN collection_remove(devices, evt.dev) ELSE devices
    /\ mon' = evt.next
    /\ evt' = NULL

\* generate_event finds no callback, or usbmux_event_cb finds none.
EventDropped ==
    /\ mon = "event"
    /\ ~(cb /\ idevCb)
    /\ FinishEvent
    /\ UNCHANGED <<cb, tries, listenfd, sock, chan, created, view, appVars, daemonVars>>

\* usbmux_event_cb has loaded a callback; the call itself comes later.
EventAccepted ==
    /\ mon = "event"
    /\ cb /\ idevCb
    /\ mon' = "callback"
    /\ UNCHANGED <<cb, devices, evt, tries, listenfd, sock, chan, created, view, appVars, daemonVars>>

Callback ==
    /\ mon = "callback"
    /\ view' = IF ~paired THEN view
               ELSE IF evt.kind = "add" THEN view \cup {evt.dev} ELSE view \ {evt.dev}
    /\ FinishEvent
    /\ UNCHANGED <<cb, tries, listenfd, sock, chan, created, appVars, daemonVars>>

\* device_monitor_cleanup: frees the devices, without events, and the socket.
Cleanup ==
    /\ mon = "cleanup"
    /\ devices' = collection_free
    /\ listenfd' = "unset"
    /\ sock' = "none"
    /\ chan' = << >>
    /\ mon' = "done"
    /\ UNCHANGED <<cb, evt, tries, created, view, appVars, daemonVars>>

MonitorStep ==
    \/ MonitorStart \/ OuterTest \/ Connect \/ ConnectFails \/ PollTest \/ PollConnect
    \/ AddWatch \/ SocketCreated \/ RetryConnect \/ GiveUp
    \/ ListenOk \/ ListenFails \/ InnerTest \/ GetNextEvent
    \/ ReceiveAdd \/ ReceiveRemove \/ ReceiveUnexpected \/ ReceiveNoPayload \/ ReceiveEof
    \/ Flush \/ EventDropped \/ EventAccepted \/ Callback \/ Cleanup

\* The thread ends with its process.
Monitor == app # "aborted" /\ MonitorStep

-----------------------------------------------------------------------------
(* The daemon, as the client sees it.                                      *)

Send(m) == chan' = IF sock = "listening" THEN Append(chan, m) ELSE chan

Attach(u) ==
    /\ daemon = "up"
    /\ nextHandle <= MaxHandle
    /\ \A d \in attached : d.u # u
    /\ attached' = attached \cup {[h |-> nextHandle, u |-> u]}
    /\ nextHandle' = nextHandle + 1
    /\ Send([kind |-> "add", dev |-> [h |-> nextHandle, u |-> u]])
    /\ UNCHANGED <<daemon, restarts, bad, listenfd, sock, created, view, appVars, monVars>>

Detach(d) ==
    /\ d \in attached
    /\ attached' = attached \ {d}
    /\ Send([kind |-> "rem", dev |-> d])
    /\ UNCHANGED <<daemon, nextHandle, restarts, bad, listenfd, sock, created, view, appVars, monVars>>

SendBad(m) ==
    /\ m \in BadMessages
    /\ sock = "listening"
    /\ bad < MaxBad
    /\ bad' = bad + 1
    /\ Send([kind |-> m])
    /\ UNCHANGED <<daemon, attached, nextHandle, restarts, listenfd, sock, created, view, appVars, monVars>>

Stop ==
    /\ daemon = "up"
    /\ restarts < MaxRestarts
    /\ daemon' = "down"
    /\ restarts' = restarts + 1
    /\ attached' = {}
    /\ nextHandle' = 1
    /\ sock' = Cut(sock)
    /\ UNCHANGED <<bad, listenfd, chan, created, view, appVars, monVars>>

\* bind: the socket appears in /var/run, which is not where a remote daemon's is.
Bind ==
    /\ daemon = "down"
    /\ daemon' = "starting"
    /\ created' = (created \/ (mon = "wait" /\ ~Remote))
    /\ UNCHANGED <<attached, nextHandle, restarts, bad, listenfd, sock, chan, view, appVars, monVars>>

Ready ==
    /\ daemon = "starting"
    /\ daemon' = "up"
    /\ UNCHANGED <<attached, nextHandle, restarts, bad, listenfd, sock, chan, created, view, appVars, monVars>>

Daemon ==
    \/ \E u \in Udid : Attach(u)
    \/ \E d \in attached : Detach(d)
    \/ \E m \in BadMessages : SendBad(m)
    \/ Stop \/ Bind \/ Ready

-----------------------------------------------------------------------------
Next == App \/ Monitor \/ Daemon

\* The scheduler runs both threads; an unsubscription, once begun, runs on; a
\* daemon that is being started comes up, and one that is up in the end
\* answers a Listen request that is repeated for ever.
Fairness ==
    /\ WF_vars(Monitor)
    /\ WF_vars(UnsubscribeUsbmux) /\ WF_vars(Shutdown) /\ WF_vars(Join)
    /\ WF_vars(Ready)
    /\ SF_vars(ListenOk)

Spec == Init /\ [][Next]_vars

FairSpec == Spec /\ Fairness

-----------------------------------------------------------------------------
(* Properties.                                                             *)

AppType ==
    /\ app \in {"idle", "subscribing", "spawning", "subscribed", "failed",
                "unsubscribing", "shutdown", "joining", "aborted"}
    /\ idevCb \in BOOLEAN /\ eventCb \in BOOLEAN
    /\ subs \in Nat /\ paired \in BOOLEAN
    /\ view \subseteq Device

MonitorType ==
    /\ mon \in {"none", "start", "outer", "connect", "poll", "poll_connect", "watch",
                "wait", "retry", "listen", "inner", "next", "receive", "flush",
                "event", "callback", "cleanup", "done"}
    /\ cb \in BOOLEAN
    /\ devices \in Slots(Device)
    /\ evt \in Event \cup {NULL}
    /\ tries \in Nat

SocketType ==
    /\ listenfd \in {"unset", "live", "stale", "leaked"}
    /\ sock \in {"none", "connected", "listening", "cut"}
    /\ chan \in Seq(Message)
    /\ created \in BOOLEAN

DaemonType ==
    /\ daemon \in {"down", "starting", "up"}
    /\ attached \subseteq Device
    /\ nextHandle \in Nat /\ restarts \in Nat /\ bad \in Nat

\* Every variable keeps its type: both threads, the socket and the daemon.
TypeOK == AppType /\ MonitorType /\ SocketType /\ DaemonType

\* While an event is generated the collection already holds an added device
\* and still holds a removed one.
Announced ==
    IF mon \in {"event", "callback"} /\ evt.kind = "add"
    THEN Live(devices) \ {evt.dev}
    ELSE Live(devices)

\* At every moment of a subscription the events the application has received
\* add up to exactly the devices the monitor has in its collection: no ADD or
\* REMOVE is lost, doubled or delivered for the wrong device, through any
\* number of daemon restarts and packets the client rejects (get_next_event).
ViewMatches == paired /\ app = "subscribed" => view = Announced

\* get_next_event's comment: when the usbmuxd connection fails, remove events
\* are generated for every device still present.  So none is left when the
\* monitor sets up the next connection.
DroppedOnFailure ==
    mon \in {"connect", "poll", "poll_connect", "watch", "wait", "retry", "listen"}
        => Live(devices) = {}

\* The process is terminated by g_thread, assigned to while it holds a thread
\* (968) or joined while it holds none (995), only when the application asks
\* for it: it subscribed again while subscribed, or unsubscribed without a
\* subscription, as after one that failed because std::thread threw.  As long
\* as it does neither, whatever the monitor and the daemon do meanwhile, each
\* subscription finds g_thread empty and each unsubscription finds a thread.
NeverAborts == paired => app # "aborted"

\* A subscriber whose calls are paired sees the alternation of ADD and REMOVE
\* that DeviceEvents promises, and nothing outside its subscription.
Discovery ==
    INSTANCE DeviceEvents WITH
        status <- IF paired /\ app \notin {"idle", "failed", "aborted"} THEN "on" ELSE "off",
        known  <- view

DiscoverySpec == Discovery!Spec

\* usbmuxd.h: "Unsubscribe callback. @return only 0 for now."  An
\* unsubscription gets the monitor thread to end, whatever it is doing (without
\* one, the process ends).
UnsubscribeReturns == app = "joining" ~> app \in {"idle", "aborted"}

\* A subscriber of a daemon that stays up ends up knowing exactly the devices
\* attached to it (usbmuxd_listen: "Tries to connect to usbmuxd and wait if it
\* is not running"), as long as no Detached message comes without its DeviceID:
\* after one the monitor connects again with the devices of before.  It is the
\* polling build that keeps this promise: the one with inotify never notices a daemon
\* that comes up between the failed connect and inotify_add_watch (713-725).
Discovered ==
    <>[](daemon = "up" /\ paired /\ app = "subscribed")
        /\ [](\A i \in DOMAIN chan : chan[i].kind # "noid")
        => <>[](view = attached)
=============================================================================
