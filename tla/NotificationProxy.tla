-------------------------- MODULE NotificationProxy --------------------------
(***************************************************************************)
(* notification_proxy.c: the callers of a client, the thread np_notifier   *)
(* that polls for notifications and calls back, and the mutex they share.  *)
(*                                                                         *)
(* A property list is one message of the stream, 0 when it is not a        *)
(* RelayNotification; a receive takes one or gives up.  Once memory that   *)
(* was freed has been used nothing more is said (np.undefined).  The       *)
(* second that np_notifier sleeps is not a step.                           *)
(***************************************************************************)
EXTENDS Naturals, Sequences, FiniteSets

CONSTANTS
    Caller,          \* threads of the application
    MaxNotifiers,    \* bound: threads started
    MaxNotes,        \* bound: notifications the device sends
    MaxCalls         \* bound: calls of each caller

NotificationAssumption ==
    /\ IsFiniteSet(Caller) /\ {"free", "notifier"} \cap Caller = {}
    /\ {MaxNotifiers, MaxNotes, MaxCalls} \subseteq Nat

Notifier == 1..MaxNotifiers

Note == 1..MaxNotes

\* What pthread_create may leave in notifier when it fails.
Garbage == MaxNotifiers + 1

VARIABLES
    np,              \* the client: mutex, parent, notifier; registered is the thread
                     \* whose callback counts
    npCaller,        \* what each caller is doing
    notifiers,       \* the threads that run np_notifier
    proxy,           \* the device: what it sent and nobody received
    told             \* the calls back: whose, and what was said ("" is 0)

vars == <<np, npCaller, notifiers, proxy, told>>

Init ==
    /\ np = [mutex |-> "free", parent |-> "open", notifier |-> 0, registered |-> 0,
             undefined |-> FALSE]
    /\ npCaller = [t \in Caller |-> [pc |-> "idle", cb |-> FALSE, calls |-> 0]]
    /\ notifiers = [n \in Notifier |-> [pc |-> "none", note |-> 0]]
    /\ proxy = [up |-> TRUE, observed |-> FALSE, sent |-> 0, stream |-> << >>,
                eaten |-> {}]
    /\ told = << >>

Call(t, pc, cb) ==
    /\ npCaller[t].pc = "idle" /\ npCaller[t].calls < MaxCalls
    /\ np.parent # "gone"
    /\ npCaller' = [npCaller EXCEPT ![t] = [pc |-> pc, cb |-> cb, calls |-> @.calls + 1]]
    /\ UNCHANGED <<np, notifiers, proxy, told>>

Goto(t, pc) == npCaller' = [npCaller EXCEPT ![t].pc = pc]

Unlocked(c) == [c EXCEPT !.mutex = "free"]

-----------------------------------------------------------------------------
(* np_observe_notification and np_post_notification.                       *)

ObserveNotification(t) ==
    /\ npCaller[t].pc = "observe" /\ np.mutex = "free"
    /\ proxy' = [proxy EXCEPT !.observed = @ \/ proxy.up]
    /\ Goto(t, "idle")
    /\ UNCHANGED <<np, notifiers, told>>

\* The notification is posted, then the proxy is told to shut down.
PostNotification(t) ==
    /\ npCaller[t].pc = "post" /\ np.mutex = "free"
    /\ np' = [np EXCEPT !.mutex = t]
    /\ proxy' = IF proxy.up
                THEN [proxy EXCEPT !.up = FALSE, !.stream = Append(@, 0)]
                ELSE proxy
    /\ Goto(t, "answer")
    /\ UNCHANGED <<notifiers, told>>

\* One answer is read, whatever it is; or none comes.
PostAnswered(t) ==
    /\ npCaller[t].pc = "answer"
    /\ \/ proxy' = proxy
       \/ /\ proxy.stream # << >>
          /\ proxy' = [proxy EXCEPT !.stream = Tail(@),
                                    !.eaten = @ \cup ({Head(proxy.stream)} \cap Note)]
    /\ np' = Unlocked(np)
    /\ Goto(t, "idle")
    /\ UNCHANGED <<notifiers, told>>

-----------------------------------------------------------------------------
(* np_set_notify_callback.                                                 *)

SetLock(t) ==
    /\ npCaller[t].pc = "set" /\ np.mutex = "free"
    /\ IF np.notifier = 0
       THEN np' = [np EXCEPT !.mutex = t] /\ Goto(t, "create")
       ELSE np' = [np EXCEPT !.mutex = t, !.parent = "null"] /\ Goto(t, "join")
    /\ UNCHANGED <<notifiers, proxy, told>>

\* Whatever notifier is joined.
Finished == np.notifier \in Notifier => notifiers[np.notifier].pc = "done"

Joined(c) == [c EXCEPT !.notifier = 0, !.registered = 0, !.undefined = c.notifier = Garbage]

\* Bug: the thread that is told to end is not waited for.
SetJoinLater(t) ==
    /\ npCaller[t].pc = "join"
    /\ np' = [Joined(np) EXCEPT !.parent = "open"]
    /\ Goto(t, "create")
    /\ UNCHANGED <<notifiers, proxy, told>>

\* pthread_join, with the mutex held.
SetJoin(t) ==
    /\ npCaller[t].pc = "join" /\ Finished
    /\ np' = [Joined(np) EXCEPT !.parent = "open"]
    /\ Goto(t, "create")
    /\ UNCHANGED <<notifiers, proxy, told>>

\* The thread is started; or it is not wanted, or cannot be.
SetCreate(t) ==
    /\ npCaller[t].pc = "create"
    /\ \/ /\ npCaller[t].cb
          /\ \E n \in Notifier :
                /\ notifiers[n].pc = "none"
                /\ \A k \in Notifier : notifiers[k].pc = "none" => n <= k
                /\ notifiers' = [notifiers EXCEPT ![n].pc = "test"]
                /\ np' = [Unlocked(np) EXCEPT !.notifier = n, !.registered = n]
       \/ np' = Unlocked(np) /\ UNCHANGED notifiers
       \/ /\ npCaller[t].cb
          /\ np' = [Unlocked(np) EXCEPT !.notifier = Garbage] /\ UNCHANGED notifiers
    /\ Goto(t, "idle")
    /\ UNCHANGED <<proxy, told>>

-----------------------------------------------------------------------------
(* np_client_free.  The mutex is not taken.                                *)

Free(t) ==
    /\ \A u \in Caller : npCaller[u].pc = "idle"
    /\ Call(t, "free", FALSE)

\* The connection is closed and its memory freed, in use or not.
FreeParent(t) ==
    /\ npCaller[t].pc = "free"
    /\ np' = [np EXCEPT !.parent = "freed",
                        !.undefined = \E n \in Notifier : notifiers[n].pc = "receive"]
    /\ Goto(t, "null")
    /\ UNCHANGED <<notifiers, proxy, told>>

FreeNull(t) ==
    /\ npCaller[t].pc = "null"
    /\ np' = [np EXCEPT !.parent = "null"]
    /\ Goto(t, "end")
    /\ UNCHANGED <<notifiers, proxy, told>>

FreeEnd(t) ==
    /\ npCaller[t].pc = "end" /\ Finished
    /\ np' = [Joined(np) EXCEPT !.parent = "gone"]
    /\ Goto(t, "idle")
    /\ UNCHANGED <<notifiers, proxy, told>>

-----------------------------------------------------------------------------
(* np_notifier and np_get_notification.                                    *)

Move(n, pc) == notifiers' = [notifiers EXCEPT ![n].pc = pc]

\* while (npt->client->parent)
NotifierTest(n) ==
    /\ notifiers[n].pc = "test"
    /\ Move(n, IF np.parent = "null" THEN "done" ELSE "enter")
    /\ UNCHANGED <<np, npCaller, proxy, told>>

\* The second test of parent: now NULL is an error.
NotifierEnter(n) ==
    /\ notifiers[n].pc = "enter"
    /\ Move(n, IF np.parent = "null" THEN "fail" ELSE "lock")
    /\ UNCHANGED <<np, npCaller, proxy, told>>

NotifierLock(n) ==
    /\ notifiers[n].pc = "lock" /\ np.mutex = "free"
    /\ np' = [np EXCEPT !.mutex = "notifier", !.undefined = np.parent = "freed"]
    /\ Move(n, "receive")
    /\ UNCHANGED <<npCaller, proxy, told>>

\* Bug: a client that is being changed has no more notifications.
ReceivedUnlessChanging(n, msg) ==
    notifiers' = [notifiers EXCEPT ![n] =
        IF msg \in Note
        THEN IF \E t \in Caller : npCaller[t].pc = "set"
             THEN [pc |-> "test", note |-> 0] ELSE [pc |-> "call", note |-> msg]
        ELSE [pc |-> "fail", note |-> 0]]

\* RelayNotification is called back; ProxyDeath, another command or none is an error.
Received(n, msg) ==
    notifiers' = [notifiers EXCEPT ![n] =
        IF msg \in Note THEN [pc |-> "call", note |-> msg]
        ELSE [pc |-> "fail", note |-> 0]]

\* Nothing received is no error, whatever the reason: a silence, no connection, or
\* one that has broken.
NotifierReceive(n) ==
    /\ notifiers[n].pc = "receive"
    /\ np' = Unlocked(np)
    /\ \/ Move(n, "test") /\ UNCHANGED proxy
       \/ /\ np.parent = "open" /\ proxy.stream # << >>
          /\ proxy' = [proxy EXCEPT !.stream = Tail(@)]
          /\ Received(n, Head(proxy.stream))
    /\ UNCHANGED <<npCaller, told>>

NotifierCall(n) ==
    /\ notifiers[n].pc \in {"call", "fail"}
    /\ told' = Append(told, [by |-> n, note |-> notifiers[n].note])
    /\ notifiers' = [notifiers EXCEPT ![n] =
           [pc |-> IF notifiers[n].pc = "call" THEN "test" ELSE "done", note |-> 0]]
    /\ UNCHANGED <<np, npCaller, proxy>>

-----------------------------------------------------------------------------
(* The device.                                                             *)

DeviceNotifies ==
    /\ proxy.up /\ proxy.observed /\ proxy.sent < MaxNotes
    /\ proxy' = [proxy EXCEPT !.sent = @ + 1, !.stream = Append(@, proxy.sent + 1)]
    /\ UNCHANGED <<np, npCaller, notifiers, told>>

\* The proxy ends, with or without a last word; or it says what nobody expects.
DeviceEnds ==
    /\ proxy.up
    /\ \E last \in {<< >>, <<0>>} :
          proxy' = [proxy EXCEPT !.up = FALSE, !.stream = @ \o last]
    /\ UNCHANGED <<np, npCaller, notifiers, told>>

Calls(t) ==
    \/ \E pc \in {"observe", "post"} : Call(t, pc, FALSE)
    \/ \E cb \in BOOLEAN : Call(t, "set", cb)
    \/ Free(t)

CallerStep(t) ==
    \/ ObserveNotification(t) \/ PostNotification(t) \/ PostAnswered(t)
    \/ SetLock(t) \/ SetJoin(t) \/ SetCreate(t)
    \/ FreeParent(t) \/ FreeNull(t) \/ FreeEnd(t)

NotifierStep(n) ==
    \/ NotifierTest(n) \/ NotifierEnter(n) \/ NotifierLock(n)
    \/ NotifierReceive(n) \/ NotifierCall(n)

Next ==
    /\ ~np.undefined
    /\ \/ \E t \in Caller : Calls(t) \/ CallerStep(t)
       \/ \E n \in Notifier : NotifierStep(n)
       \/ DeviceNotifies \/ DeviceEnds

Spec == Init /\ [][Next]_vars

\* Every thread is scheduled, and a mutex that is free again and again is got.
FairSpec ==
    /\ Spec
    /\ \A t \in Caller : SF_vars(~np.undefined /\ CallerStep(t))
    /\ \A n \in Notifier : SF_vars(~np.undefined /\ NotifierStep(n))

-----------------------------------------------------------------------------
(* Properties.                                                             *)

TypeOK ==
    /\ np \in [mutex : {"free", "notifier"} \cup Caller,
               parent : {"open", "null", "freed", "gone"}, notifier : 0..Garbage,
               registered : 0..MaxNotifiers, undefined : BOOLEAN]
    /\ npCaller \in [Caller -> [pc : {"idle", "observe", "post", "answer", "set", "join",
                                      "create", "free", "null", "end"},
                                cb : BOOLEAN, calls : 0..MaxCalls]]
    /\ notifiers \in [Notifier -> [pc : {"none", "test", "enter", "lock", "receive",
                                         "call", "fail", "done"},
                                   note : {0} \cup Note]]
    /\ proxy \in [up : BOOLEAN, observed : BOOLEAN, sent : 0..MaxNotes,
                  stream : Seq({0} \cup Note), eaten : SUBSET Note]
    /\ told \in Seq([by : Notifier, note : {0} \cup Note])

\* A callback that was replaced or taken back is not called any more: whoever is
\* called is the one registered last, until the call that takes it back has ended.
CallbackCurrent == [][told' # told => told'[Len(told')].by = np.registered]_vars

\* Every notification that has left the stream was called back, is about to be, or
\* was read as the answer to a post; and they were called back in their order.
NotesReported ==
    /\ \A m \in 1..proxy.sent :
          \/ m \in proxy.eaten
          \/ \E i \in DOMAIN proxy.stream : proxy.stream[i] = m
          \/ \E n \in Notifier : notifiers[n].note = m
          \/ \E i \in DOMAIN told : told[i].note = m
    /\ \A i, j \in DOMAIN told :
          i < j /\ told[j].note # 0 => told[i].note < told[j].note

\* np_set_notify_callback, which joins the thread of the callback it replaces, returns.
SetReturns == \A t \in Caller : npCaller[t].pc = "set" ~> npCaller[t].pc = "idle" \/ np.undefined
=============================================================================
