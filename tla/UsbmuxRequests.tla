--------------------------- MODULE UsbmuxRequests ---------------------------
(***************************************************************************)
(* The requests of libusbmuxd.cpp: every call opens a connection of its    *)
(* own to the daemon, sends one message and waits for the answer.  Several *)
(* threads call at once (the device monitor is one of them, for            *)
(* usbmuxd_listen) and share use_tag, proto_version, try_list_devices,     *)
(* g_mutex and the table of file descriptors of the process.               *)
(*                                                                         *)
(* Each read and each write of a shared variable is a step.  After an      *)
(* error a socket is closed by the function that saw it, in that step, AND *)
(* again by its callers, one step each; the kernel hands the lowest free   *)
(* descriptor to the next open.                                            *)
(*                                                                         *)
(* The daemon answers a packet when somebody receives: it speaks some      *)
(* versions of the protocol and grants some kinds of message.              *)
(***************************************************************************)
EXTENDS Integers, Sequences, FiniteSets

CONSTANTS
    NULL,
    Thread,          \* the threads that call
    Ops,             \* the calls they make
    Daemons,         \* the daemons there may be, [speaks, grants]
    AllocMayFail,    \* BOOLEAN: device_info_from_device_record returns NULL
    TagSpace,        \* how many tags there are (2^32 in the code)
    MaxFd,           \* bound: descriptors
    MaxCalls,        \* bound: calls
    MaxFaults        \* bound: refused opens, broken connections, lost answers

Op == {"connect", "listen", "list", "lookup", "buid", "read", "save", "delete"}

MessageType == {"Connect", "Listen", "ListDevices", "ReadBUID",
                "ReadPairRecord", "SavePairRecord", "DeletePairRecord"}

\* Sent as a plist, with a tag of the call's own.
Private == {"buid", "read", "save", "delete"}

\* Answered with a plist, to a caller that passes result_plist.
DataMessage == {"ListDevices", "ReadBUID", "ReadPairRecord"}

Fd == 1..MaxFd

Tag == 0..(TagSpace - 1)

Packet == [type : MessageType, format : {"plist", "binary"}, version : {0, 1},
           tag : Tag, id : 1..MaxCalls]

\* What the descriptor refers to: a connection, opened by a call.
Connection == [id : 1..MaxCalls, state : {"new", "listening", "connected", "dead"},
               sent : Seq(Packet)]

ASSUME RequestsAssumption ==
    /\ NULL \notin Connection
    /\ IsFiniteSet(Thread)
    /\ Ops \subseteq Op
    /\ Daemons \subseteq [speaks : SUBSET {0, 1}, grants : SUBSET MessageType]
    /\ AllocMayFail \in BOOLEAN
    /\ {TagSpace, MaxCalls} \subseteq Nat \ {0}
    /\ {MaxFd, MaxFaults} \subseteq Nat

\* The result code a request got; "none" is -1, "empty" a plist without the data.
Code == {"none", "ok", "empty", "badversion", "refused"}

PC == {"idle", "open", "protocol", "load", "store", "choose", "lock", "sendtag",
       "format", "send", "gettag", "receive", "judge", "collect", "unlock",
       "closing", "droplist", "lower", "raise", "return", "crashed"}

\* The locals of a call.  "ret" is what usbmuxd_get_result returned, "value"
\* what the call returns: "ok" (0, a descriptor or a count), "positive" (a
\* number that is none of these) or "negative".
Local == [op : Op, id : 1..MaxCalls, msg : MessageType, fd : 0..MaxFd, reg : Tag,
          tag : Tag, expected : Tag, format : {"plist", "binary"},
          ret : {-1, 0, 1}, res : Code, closes : Nat, next : PC,
          value : {"ok", "positive", "negative"}, list : BOOLEAN]

VARIABLES
    daemon,          \* the daemon that runs
    use_tag,
    proto_version,
    try_list_devices,
    mutex,           \* how often each thread has locked g_mutex
    forgotten,       \* history: the listings of each thread that ran out of memory
                     \* while they collected the devices
    fds,             \* the table of descriptors, NULL when free
    pc, loc,         \* where each thread is, and its locals
    held,            \* the connections each thread has been given
    granted,         \* the calls whose request the daemon carried out
    calls, faults

globals == <<use_tag, proto_version, try_list_devices>>
vars == <<daemon, use_tag, proto_version, try_list_devices, mutex, forgotten, fds, pc,
          loc, held, granted, calls, faults>>

FirstMessage(o) ==
    [connect |-> "Connect", listen |-> "Listen", list |-> "ListDevices",
     lookup |-> "ListDevices", buid |-> "ReadBUID", read |-> "ReadPairRecord",
     save |-> "SavePairRecord", delete |-> "DeletePairRecord"][o]

NoLocal == [op |-> "connect", id |-> 1, msg |-> "Connect", fd |-> 0, reg |-> 0,
            tag |-> 0, expected |-> 0, format |-> "plist", ret |-> 0, res |-> "none",
            closes |-> 0, next |-> "return", value |-> "negative", list |-> FALSE]

Init ==
    /\ daemon \in Daemons
    /\ use_tag = 0 /\ proto_version = 1 /\ try_list_devices = TRUE
    /\ mutex = [t \in Thread |-> 0] /\ forgotten = [t \in Thread |-> 0]
    /\ fds = [n \in Fd |-> NULL]
    /\ pc = [t \in Thread |-> "idle"]
    /\ loc = [t \in Thread |-> NoLocal]
    /\ held = [t \in Thread |-> {}]
    /\ granted = {} /\ calls = 0 /\ faults = 0

-----------------------------------------------------------------------------
(* Steps.                                                                  *)

At(t, where) == pc[t] = where

Go(t, where) == pc' = [pc EXCEPT ![t] = where]


Lock(t) ==
    /\ \A u \in Thread \ {t} : mutex[u] = 0
    /\ mutex' = [mutex EXCEPT ![t] = @ + 1]

Unlock(t) == mutex' = [mutex EXCEPT ![t] = @ - 1]

\* close_socket(n): whatever n refers to now; closing a free one does nothing.
Close(table, n) == [table EXCEPT ![n] = NULL]

\* Go on at "where" after closing the socket n more times.
CloseThen(t, l, n, where) ==
    /\ loc' = [loc EXCEPT ![t] = [l EXCEPT !.closes = n, !.next = where]]
    /\ Go(t, IF n = 0 THEN where ELSE "closing")

\* retry: the call starts over, keeping what it last received.
Retry(l) == [l EXCEPT !.msg = FirstMessage(l.op)]

Free == {n \in Fd : fds[n] = NULL}

Closing(t) ==
    /\ At(t, "closing")
    /\ fds' = Close(fds, loc[t].fd)
    /\ CloseThen(t, loc[t], loc[t].closes - 1, loc[t].next)
    /\ UNCHANGED <<daemon, forgotten, globals, mutex, held, granted, calls, faults>>

-----------------------------------------------------------------------------
(* Opening the connection, numbering and sending the request.              *)

Call(t) ==
    /\ At(t, "idle")
    /\ calls < MaxCalls
    /\ calls' = calls + 1
    /\ \E o \in Ops :
           loc' = [loc EXCEPT ![t] = [NoLocal EXCEPT !.op = o, !.id = calls + 1,
                                                     !.msg = FirstMessage(o)]]
    /\ Go(t, "open")
    /\ UNCHANGED <<daemon, forgotten, globals, mutex, fds, held, granted, faults>>

Open(t) ==
    /\ At(t, "open")
    /\ \E n \in Free :
           /\ \A m \in Free : n <= m
           /\ fds' = [fds EXCEPT ![n] = [id |-> loc[t].id, state |-> "new",
                                         sent |-> << >>]]
           /\ loc' = [loc EXCEPT ![t].fd = n]
    /\ Go(t, IF loc[t].op \in Private THEN "protocol" ELSE "load")
    /\ UNCHANGED <<daemon, forgotten, globals, mutex, held, granted, calls, faults>>

OpenFails(t) ==
    /\ At(t, "open")
    /\ faults < MaxFaults
    /\ faults' = faults + 1
    /\ loc' = [loc EXCEPT ![t] = [@ EXCEPT !.value = "negative", !.list = FALSE]]
    /\ Go(t, "return")
    /\ UNCHANGED <<daemon, forgotten, globals, mutex, fds, held, granted, calls>>

\* The calls of the pairing record insist on plist messages.
SetProtocol(t) ==
    /\ At(t, "protocol")
    /\ proto_version' = 1
    /\ Go(t, "load")
    /\ UNCHANGED <<daemon, forgotten, use_tag, try_list_devices, mutex, fds, loc, held, granted,
                   calls, faults>>

\* use_tag++ reads, then writes.
LoadTag(t) ==
    /\ At(t, "load")
    /\ loc' = [loc EXCEPT ![t].reg = use_tag]
    /\ Go(t, "store")
    /\ UNCHANGED <<daemon, forgotten, globals, mutex, fds, held, granted, calls, faults>>

Successor(n) == (n + 1) % TagSpace

\* Only the calls of the pairing record keep the tag they made.
StoreTag(t) ==
    /\ At(t, "store")
    /\ use_tag' = Successor(loc[t].reg)
    /\ IF loc[t].op \in Private
       THEN loc' = [loc EXCEPT ![t] = [@ EXCEPT !.tag = Successor(loc[t].reg),
                                                !.expected = Successor(loc[t].reg)]]
       ELSE UNCHANGED loc
    /\ Go(t, IF loc[t].op \in Private THEN "send"
             ELSE [ListDevices |-> "choose", Listen |-> "lock", Connect |-> "sendtag"]
                      [loc[t].msg])
    /\ UNCHANGED <<daemon, forgotten, proto_version, try_list_devices, mutex, fds, held, granted,
                   calls, faults>>

\* usbmuxd_get_device_list: ask for the list, or listen and collect it.
Choose(t) ==
    /\ At(t, "choose")
    /\ IF proto_version = 1 /\ try_list_devices
       THEN UNCHANGED loc /\ Go(t, "sendtag")
       ELSE loc' = [loc EXCEPT ![t].msg = "Listen"] /\ Go(t, "load")
    /\ UNCHANGED <<daemon, forgotten, globals, mutex, fds, held, granted, calls, faults>>

Acquire(t) ==
    /\ At(t, "lock")
    /\ Lock(t)
    /\ Go(t, "sendtag")
    /\ UNCHANGED <<daemon, forgotten, globals, fds, loc, held, granted, calls, faults>>

\* The tag that is sent is use_tag once more.
SendTag(t) ==
    /\ At(t, "sendtag")
    /\ loc' = [loc EXCEPT ![t] = [@ EXCEPT !.tag = use_tag, !.format = "plist"]]
    /\ Go(t, IF loc[t].msg = "ListDevices" THEN "send" ELSE "format")
    /\ UNCHANGED <<daemon, forgotten, globals, mutex, fds, held, granted, calls, faults>>

Format(t) ==
    /\ At(t, "format")
    /\ loc' = [loc EXCEPT ![t].format = IF proto_version = 1 THEN "plist" ELSE "binary"]
    /\ Go(t, "send")
    /\ UNCHANGED <<daemon, forgotten, globals, mutex, fds, held, granted, calls, faults>>

\* The header carries proto_version as it is now.
Send(t) ==
    /\ At(t, "send")
    /\ fds[loc[t].fd] # NULL
    /\ fds' = [fds EXCEPT ![loc[t].fd].sent =
                   Append(@, [type |-> loc[t].msg, format |-> loc[t].format,
                              version |-> proto_version, tag |-> loc[t].tag,
                              id |-> loc[t].id])]
    /\ Go(t, IF loc[t].op \in Private THEN "receive" ELSE "gettag")
    /\ UNCHANGED <<daemon, forgotten, globals, mutex, loc, held, granted, calls, faults>>

Alive(n) == fds[n] # NULL /\ fds[n].state # "dead"

Broken(t) == ~Alive(loc[t].fd)

HeaderOnly(t) == loc[t].msg = "Listen" /\ loc[t].format = "binary"

\* send_buf closes the socket; send_packet again when only the payload failed.
SendFails(t) ==
    /\ At(t, "send")
    /\ Broken(t)
    /\ fds' = Close(fds, loc[t].fd)
    /\ LET l == [loc[t] EXCEPT !.res = "none", !.value = "negative"]
       IN  \E again \in {0, 1} :
               /\ again = 1 => fds[loc[t].fd] # NULL /\ ~HeaderOnly(t)
               /\ \/ /\ loc[t].msg = "ListDevices"
                     /\ CloseThen(t, [l EXCEPT !.msg = "Listen"], again, "load")
                  \/ loc[t].msg = "Listen" /\ CloseThen(t, l, again, "unlock")
                  \/ /\ loc[t].msg \notin {"ListDevices", "Listen"}
                     /\ CloseThen(t, l, again + 1, "return")
    /\ UNCHANGED <<daemon, forgotten, globals, mutex, held, granted, calls, faults>>

\* The tag the answer is compared with is use_tag, read again.
GetTag(t) ==
    /\ At(t, "gettag")
    /\ loc' = [loc EXCEPT ![t].expected = use_tag]
    /\ Go(t, "receive")
    /\ UNCHANGED <<daemon, forgotten, globals, mutex, fds, held, granted, calls, faults>>

-----------------------------------------------------------------------------
(* The daemon, and what a receive gets from it.                            *)

DaemonCloses(n) ==
    /\ Alive(n)
    /\ faults < MaxFaults
    /\ faults' = faults + 1
    /\ fds' = [fds EXCEPT ![n].state = "dead"]
    /\ UNCHANGED <<daemon, forgotten, globals, mutex, pc, loc, held, granted, calls>>

\* What the daemon may say to a packet.  A device refuses a connection too, and
\* a record that does not exist has no data.
Verdicts(p) ==
    IF p.version \notin daemon.speaks THEN {"badversion"}
    ELSE IF p.type \notin daemon.grants \/ (p.format = "plist" /\ 1 \notin daemon.speaks)
         THEN {"refused"}
    ELSE CASE p.type = "Connect" -> {"ok", "refused"}
           [] p.type \in DataMessage -> {"ok", "empty"}
           [] OTHER -> {"ok"}

Served(n, p, v) ==
    [fds EXCEPT ![n].sent = Tail(@),
                ![n].state = CASE v = "ok" /\ p.type = "Listen" -> "listening"
                               [] v = "ok" /\ p.type = "Connect" -> "connected"
                               [] OTHER -> @]

\* usbmuxd_get_result: an answer with data carries no tag; the result of another
\* request is 0, with the result code left at -1.
Result(t, p, v) ==
    IF v \in {"ok", "empty"} /\ p.type \in DataMessage
    THEN IF loc[t].msg \in DataMessage
         THEN <<1, IF p.type = loc[t].msg THEN v ELSE "empty">>
         ELSE <<-1, "none">>
    ELSE IF p.tag = loc[t].expected THEN <<1, v>> ELSE <<0, "none">>

\* The tags and the format are not used again.
GotResult(t, r) ==
    /\ loc' = [loc EXCEPT ![t] = [@ EXCEPT !.ret = r[1], !.res = r[2], !.reg = 0,
                                           !.tag = 0, !.expected = 0,
                                           !.format = "plist"]]
    /\ Go(t, "judge")

\* A connected socket leads to the device: the daemon reads nothing on it.
Answerable(n) == Alive(n) /\ fds[n].state # "connected" /\ fds[n].sent # << >>

Receive(t) ==
    /\ At(t, "receive")
    /\ Answerable(loc[t].fd)
    /\ LET p == Head(fds[loc[t].fd].sent)
       IN  \E v \in Verdicts(p) :
               /\ fds' = Served(loc[t].fd, p, v)
               /\ granted' = IF v \in {"ok", "empty"} THEN granted \cup {p.id} ELSE granted
               /\ GotResult(t, Result(t, p, v))
    /\ UNCHANGED <<daemon, forgotten, globals, mutex, held, calls, faults>>

\* Five seconds pass, the answer is lost, or the daemon has closed (recv_buf_timeout
\* closes the socket too), or the descriptor is free.
ReceiveFails(t) ==
    /\ At(t, "receive")
    /\ IF Answerable(loc[t].fd)
       THEN faults < MaxFaults /\ faults' = faults + 1
       ELSE UNCHANGED faults
    /\ fds' = IF Broken(t) THEN Close(fds, loc[t].fd) ELSE fds
    /\ GotResult(t, <<-1, "none">>)
    /\ UNCHANGED <<daemon, forgotten, globals, mutex, held, granted, calls>>

-----------------------------------------------------------------------------
(* What each call makes of its result.                                     *)

Finish(t, value, list, closes) ==
    CloseThen(t, [loc[t] EXCEPT !.value = value, !.list = list], closes, "return")

\* device_info_from_device_record has no memory.
AllocFails ==
    /\ AllocMayFail
    /\ faults < MaxFaults
    /\ faults' = faults + 1

Granted(t) == loc[t].ret = 1 /\ loc[t].res = "ok"

\* The list is taken from the answer, or asked for with Listen on the same socket,
\* or, for ever after, on a new one.
JudgeListDevices(t) ==
    /\ At(t, "judge") /\ loc[t].msg = "ListDevices"
    /\ \/ /\ Granted(t)
          /\ \/ Finish(t, "ok", TRUE, 1) /\ UNCHANGED faults
             \/ AllocFails /\ Finish(t, "negative", FALSE, 1)
          /\ UNCHANGED proto_version
       \/ /\ loc[t].ret = 1 /\ loc[t].res = "empty"
          /\ loc' = [loc EXCEPT ![t].msg = "Listen"]
          /\ Go(t, "load")
          /\ UNCHANGED <<proto_version, faults>>
       \/ /\ loc[t].ret # 1 \/ loc[t].res \notin {"ok", "empty"}
          /\ proto_version' = IF loc[t].res = "badversion" THEN 0 ELSE proto_version
          /\ CloseThen(t, loc[t], 1, "droplist")
          /\ UNCHANGED faults
    /\ UNCHANGED <<daemon, forgotten, use_tag, try_list_devices, mutex, fds, held, granted, calls>>

DropList(t) ==
    /\ At(t, "droplist")
    /\ try_list_devices' = FALSE
    /\ loc' = [loc EXCEPT ![t] = Retry(@)]
    /\ Go(t, "open")
    /\ UNCHANGED <<daemon, forgotten, use_tag, proto_version, mutex, fds, held, granted, calls, faults>>

\* usbmuxd_get_device_list collects only after an answer; usbmuxd_listen takes
\* the answer to another request for one.
JudgeListen(t) ==
    /\ At(t, "judge") /\ loc[t].msg = "Listen"
    /\ IF loc[t].op = "listen"
       THEN IF loc[t].ret # 0 /\ loc[t].res # "ok"
            THEN UNCHANGED <<loc, mutex>> /\ Go(t, "unlock")
            ELSE Unlock(t) /\ Finish(t, "ok", FALSE, 0)
       ELSE /\ Go(t, IF Granted(t) THEN "collect" ELSE "unlock")
            /\ UNCHANGED <<loc, mutex>>
    /\ UNCHANGED <<daemon, forgotten, globals, fds, held, granted, calls, faults>>

\* Bug: an early return that keeps g_mutex.
GiveUpKeepsLock(t) ==
    /\ At(t, "unlock")
    /\ CloseThen(t, loc[t], 1, IF loc[t].op = "listen" THEN "raise" ELSE "lower")
    /\ UNCHANGED <<daemon, forgotten, globals, mutex, fds, held, granted, calls, faults>>

\* Bug: the socket is closed before and after the retry is decided.
GiveUpClosesTwice(t) ==
    /\ At(t, "unlock")
    /\ Unlock(t)
    /\ CloseThen(t, loc[t], 2, IF loc[t].op = "listen" THEN "raise" ELSE "lower")
    /\ UNCHANGED <<daemon, forgotten, globals, fds, held, granted, calls, faults>>

\* Bug: a retry leaves the socket of the refused request open.
GiveUpLeaks(t) ==
    /\ At(t, "unlock")
    /\ Unlock(t)
    /\ CloseThen(t, loc[t], 0, IF loc[t].op = "listen" THEN "raise" ELSE "lower")
    /\ UNCHANGED <<daemon, forgotten, globals, fds, held, granted, calls, faults>>

\* The request was refused: give g_mutex back, close, and look at the version.
GiveUp(t) ==
    /\ At(t, "unlock")
    /\ Unlock(t)
    /\ CloseThen(t, loc[t], 1, IF loc[t].op = "listen" THEN "raise" ELSE "lower")
    /\ UNCHANGED <<daemon, forgotten, globals, fds, held, granted, calls, faults>>

\* Bug: a version the daemon does not speak is final.
LowerNever(t) ==
    /\ At(t, "lower")
    /\ Finish(t, IF loc[t].res = "none" THEN "negative" ELSE "positive", FALSE, 0)
    /\ UNCHANGED <<daemon, forgotten, globals, mutex, fds, held, granted, calls, faults>>

\* usbmuxd_get_device_list: once more with the old protocol, or return the code.
Lower(t) ==
    /\ At(t, "lower")
    /\ IF loc[t].res = "badversion" /\ proto_version = 1
       THEN /\ proto_version' = 0
            /\ loc' = [loc EXCEPT ![t] = Retry(@)]
            /\ Go(t, "open")
       ELSE /\ Finish(t, IF loc[t].res = "none" THEN "negative" ELSE "positive", FALSE, 0)
            /\ UNCHANGED proto_version
    /\ UNCHANGED <<daemon, forgotten, use_tag, try_list_devices, mutex, fds, held, granted, calls,
                   faults>>

\* usbmuxd_listen: once more with the new protocol.
Raise(t) ==
    /\ At(t, "raise")
    /\ IF loc[t].res = "badversion" /\ proto_version # 1
       THEN /\ proto_version' = 1
            /\ loc' = [loc EXCEPT ![t] = Retry(@)]
            /\ Go(t, "open")
       ELSE Finish(t, "negative", FALSE, 0) /\ UNCHANGED proto_version
    /\ UNCHANGED <<daemon, forgotten, use_tag, try_list_devices, mutex, fds, held, granted, calls,
                   faults>>

\* Read what the daemon announces until it is quiet for a second.  A record that
\* cannot be allocated returns at once, and keeps g_mutex.
Collect(t) ==
    /\ At(t, "collect")
    /\ \/ /\ Unlock(t)
          /\ fds' = IF Broken(t) THEN Close(fds, loc[t].fd) ELSE fds
          /\ Finish(t, "ok", TRUE, 1)
          /\ UNCHANGED <<forgotten, faults>>
       \/ /\ AllocFails
          /\ Finish(t, "negative", FALSE, 1)
          /\ forgotten' = [forgotten EXCEPT ![t] = @ + 1]
          /\ UNCHANGED <<mutex, fds>>
    /\ UNCHANGED <<daemon, globals, held, granted, calls>>

\* Bug: connected unless the daemon says no, as in usbmuxd_listen.
JudgeConnectTrusting(t) ==
    /\ At(t, "judge") /\ loc[t].msg = "Connect"
    /\ IF loc[t].ret = 0 \/ loc[t].res = "ok"
       THEN Finish(t, "ok", FALSE, 0)
       ELSE Finish(t, "negative", FALSE, 1)
    /\ UNCHANGED <<daemon, forgotten, globals, mutex, fds, held, granted, calls, faults>>

JudgeConnect(t) ==
    /\ At(t, "judge") /\ loc[t].msg = "Connect"
    /\ \/ /\ loc[t].res = "ok"
          /\ Finish(t, "ok", FALSE, 0)
          /\ UNCHANGED proto_version
       \/ /\ loc[t].res = "badversion" /\ proto_version = 1
          /\ proto_version' = 0
          /\ CloseThen(t, Retry(loc[t]), 1, "open")
       \/ /\ loc[t].res # "ok" /\ (loc[t].res = "badversion" => proto_version # 1)
          /\ Finish(t, "negative", FALSE, 1)
          /\ UNCHANGED proto_version
    /\ UNCHANGED <<daemon, forgotten, use_tag, try_list_devices, mutex, fds, held, granted, calls,
                   faults>>

\* Bug: an answer that does not come counts as success.
JudgePrivateSilence(t) ==
    /\ At(t, "judge") /\ loc[t].op \in Private
    /\ Finish(t, IF loc[t].ret = 1 /\ loc[t].res \notin {"ok", "empty"} THEN "negative"
                 ELSE "ok", FALSE, 1)
    /\ UNCHANGED <<daemon, forgotten, globals, mutex, fds, held, granted, calls, faults>>

\* ReadBUID, ReadPairRecord, SavePairRecord, DeletePairRecord: 0 also stands for
\* the answer to another request.
PrivateValue(l) ==
    IF l.ret = -1 \/ (l.ret = 1 /\ l.res \notin {"ok", "empty"}) THEN "negative"
    ELSE IF l.ret = 1 /\ l.res = "empty" /\ l.op = "read" THEN "positive"
    ELSE "ok"

JudgePrivate(t) ==
    /\ At(t, "judge") /\ loc[t].op \in Private
    /\ Finish(t, PrivateValue(loc[t]), FALSE, 1)
    /\ UNCHANGED <<daemon, forgotten, globals, mutex, fds, held, granted, calls, faults>>

-----------------------------------------------------------------------------
(* The call returns; a connection is the caller's until it disconnects.    *)

\* usbmuxd_get_device_by_udid walks the list whenever the count is not negative.
Return(t) ==
    /\ At(t, "return")
    /\ Go(t, IF loc[t].op = "lookup" /\ loc[t].value # "negative" /\ ~loc[t].list
             THEN "crashed" ELSE "idle")
    /\ held' = IF loc[t].op \in {"connect", "listen"} /\ loc[t].value = "ok"
               THEN [held EXCEPT ![t] = @ \cup {[fd |-> loc[t].fd, id |-> loc[t].id]}]
               ELSE held
    /\ loc' = [loc EXCEPT ![t] = NoLocal]
    /\ UNCHANGED <<daemon, forgotten, globals, mutex, fds, granted, calls, faults>>

\* usbmuxd_disconnect.
Disconnect(t) ==
    /\ At(t, "idle")
    /\ \E h \in held[t] :
           /\ fds' = Close(fds, h.fd)
           /\ held' = [held EXCEPT ![t] = @ \ {h}]
    /\ UNCHANGED <<daemon, forgotten, globals, mutex, pc, loc, granted, calls, faults>>

Step(t) ==
    \/ Closing(t) \/ Open(t) \/ OpenFails(t) \/ SetProtocol(t) \/ LoadTag(t)
    \/ StoreTag(t) \/ Choose(t) \/ Acquire(t) \/ SendTag(t) \/ Format(t) \/ Send(t)
    \/ SendFails(t) \/ GetTag(t) \/ Receive(t) \/ ReceiveFails(t)
    \/ JudgeListDevices(t) \/ DropList(t) \/ JudgeListen(t) \/ GiveUp(t) \/ Lower(t)
    \/ Raise(t) \/ Collect(t) \/ JudgeConnect(t) \/ JudgePrivate(t) \/ Return(t)

Crashed == \E t \in Thread : At(t, "crashed")

Next ==
    /\ ~Crashed
    /\ \/ \E t \in Thread : Call(t) \/ Step(t) \/ Disconnect(t)
       \/ \E n \in Fd : DaemonCloses(n)

Spec == Init /\ [][Next]_vars

FairSpec == Spec /\ \A t \in Thread : WF_vars(Step(t))

-----------------------------------------------------------------------------
(* Properties.                                                             *)

TypeOK ==
    /\ daemon \in Daemons
    /\ use_tag \in Tag /\ proto_version \in {0, 1} /\ try_list_devices \in BOOLEAN
    /\ mutex \in [Thread -> Nat] /\ forgotten \in [Thread -> Nat]
    /\ fds \in [Fd -> Connection \cup {NULL}]
    /\ pc \in [Thread -> PC]
    /\ loc \in [Thread -> Local]
    /\ held \in [Thread -> SUBSET [fd : Fd, id : 1..MaxCalls]]
    /\ granted \subseteq 1..MaxCalls
    /\ calls \in 0..MaxCalls /\ faults \in 0..MaxFaults

\* From before it sends Listen until it gives up, has its answer (usbmuxd_listen)
\* or has collected the devices.
Critical(t) ==
    /\ loc[t].msg = "Listen"
    /\ \/ pc[t] \in {"sendtag", "format", "send", "gettag", "receive", "judge", "collect",
                     "unlock"}
       \/ At(t, "closing") /\ loc[t].next = "unlock"

\* g_mutex is held by one thread at a time, once while it listens and once more for
\* each listing that ran out of memory while it collected (1148): whatever breaks, no
\* other path of usbmuxd_get_device_list and usbmuxd_listen returns or starts over
\* with it, and none unlocks what it has not locked.
LockDiscipline ==
    /\ \A t \in Thread : mutex[t] = forgotten[t] + (IF Critical(t) THEN 1 ELSE 0)
    /\ \A t, u \in Thread : mutex[t] # 0 /\ mutex[u] # 0 => t = u

\* A call that reports success had its request carried out by the daemon, though
\* several threads use one counter for their tags.
\* (Not usbmuxd_listen, for which another request's answer is good enough.)
Honest ==
    \A t \in Thread :
        At(t, "return") /\ loc[t].op # "listen" /\ loc[t].value = "ok"
            => loc[t].id \in granted

\* No path of a call, its retries included, loses a socket: what is open belongs to
\* a running call or was returned by usbmuxd_connect or usbmuxd_listen.
Using(t) == pc[t] \notin {"idle", "open", "lower", "raise", "droplist", "return"}

Returning(t) ==
    At(t, "return") /\ loc[t].op \in {"connect", "listen"} /\ loc[t].value = "ok"

SocketsAccounted ==
    \A n \in Fd : fds[n] # NULL =>
        \E t \in Thread :
            \/ [fd |-> n, id |-> fds[n].id] \in held[t]
            \/ loc[t].fd = n /\ loc[t].id = fds[n].id /\ (Using(t) \/ Returning(t))

\* The descriptor a caller was given refers to the connection that was made for it
\* until the caller disconnects.
OwnConnections ==
    \A t \in Thread : \A h \in held[t] : fds[h.fd] # NULL /\ fds[h.fd].id = h.id

\* What a call can hope for from this daemon.
Able(o) ==
    CASE o \in Private -> 1 \in daemon.speaks /\ FirstMessage(o) \in daemon.grants
      [] o = "connect" -> daemon.speaks # {} /\ "Connect" \in daemon.grants
      [] o = "listen" -> 1 \in daemon.speaks /\ "Listen" \in daemon.grants
      [] OTHER -> daemon.speaks # {} /\ "Listen" \in daemon.grants

\* A single thread gets what the daemon can give, whatever calls came before and
\* left in proto_version and try_list_devices: the retries find the version.
Negotiated ==
    \A t \in Thread :
        At(t, "return") /\ faults = 0 /\ Able(loc[t].op)
            => \/ loc[t].value = "ok"
               \/ loc[t].op = "connect" /\ loc[t].res = "refused"
               \/ loc[t].op = "read" /\ loc[t].res = "empty"

\* "-1 on error": a connection the daemon made is returned to the caller.
ConnectReported ==
    \A t \in Thread :
        At(t, "return") /\ loc[t].op = "connect" /\ loc[t].value # "ok" /\ faults = 0
            => loc[t].id \notin granted

\* Every call returns: no retry loop runs for ever and nobody waits for g_mutex
\* for ever.
Returns == \A t \in Thread : At(t, "open") ~> pc[t] \in {"idle", "crashed"}
=============================================================================
