-------------------------- MODULE InstallationProxy --------------------------
(***************************************************************************)
(* installation_proxy.c: requests that a caller waits for, requests that a *)
(* thread of their own (instproxy_status_updater) follows to their end,    *)
(* and the mutex, the connection and status_updater they share.            *)
(*                                                                         *)
(* The device answers requests in their order: a listing in parts, or      *)
(* statuses, or one answer, each ended by "Complete" or "Error".  A        *)
(* message is known by the request it belongs to.  A receive holds the     *)
(* mutex and takes one message or gives up.  Once memory that was freed    *)
(* has been used nothing more is said (undefined).                         *)
(***************************************************************************)
EXTENDS Naturals, Sequences, FiniteSets

CONSTANTS
    User,            \* threads of the application
    MaxRequests,     \* bound: requests sent
    MaxParts,        \* bound: messages before the last of a request
    MaxSilences      \* bound: receives that give up

InstallationAssumption ==
    /\ IsFiniteSet(User)
    /\ {MaxRequests, MaxParts, MaxSilences} \subseteq Nat

Request == 1..MaxRequests

\* Install, upgrade, uninstall, archive, restore and remove_archive differ in name.
Kind == {"Browse", "LookupArchives", "Install"}

VARIABLES
    ip,              \* the client: mutex, parent, status_updater (a request, 0 is NULL)
    ipUser,          \* what each caller is doing, and the request it is doing it for
    updaters,        \* the thread of each request that has one
    requests,        \* the requests sent: kind, how it ended for the program, whether
                     \* all before it had been read to their ends when it was sent
    installd         \* the device: its answers, the request and part it is at

vars == <<ip, ipUser, updaters, requests, installd>>

Init ==
    /\ ip = [mutex |-> "free", parent |-> "open", status_updater |-> 0,
             undefined |-> FALSE]
    /\ ipUser = [t \in User |-> [pc |-> "idle", kind |-> "Browse", async |-> FALSE,
                                 req |-> 0]]
    /\ updaters = [r \in Request |-> "none"]
    /\ requests = << >>
    /\ installd = [up |-> TRUE, at |-> 1, part |-> 0, answers |-> << >>,
                   complete |-> {}, silences |-> 0]

Goto(t, pc) == ipUser' = [ipUser EXCEPT ![t].pc = pc]

Ended(r, result) == requests' = [requests EXCEPT ![r].result = result]

Lock(t) == [ip EXCEPT !.mutex = t]

Unlocked == [ip EXCEPT !.mutex = "free"]

-----------------------------------------------------------------------------
(* Sending a request.                                                      *)

\* Two of the functions do not ask whether an operation is in progress.
Call(t, kind, async) ==
    /\ ipUser[t].pc = "idle" /\ ip.parent = "open" /\ Len(requests) < MaxRequests
    /\ kind = "Install" => ip.status_updater = 0
    /\ async => kind = "Install"
    /\ ipUser' = [ipUser EXCEPT ![t] = [pc |-> "send", kind |-> kind, async |-> async,
                                        req |-> 0]]
    /\ UNCHANGED <<ip, updaters, requests, installd>>

AllRead == \A q \in DOMAIN requests : requests[q].read

\* instproxy_send_command.  A listing and a look-up keep the mutex.
SendCommand(t) ==
    /\ ipUser[t].pc = "send" /\ ip.mutex = "free" /\ Len(requests) < MaxRequests
    /\ \/ /\ requests' = Append(requests, [kind |-> ipUser[t].kind, result |-> "none",
                                           read |-> FALSE, clean |-> AllRead])
          /\ ipUser' = [ipUser EXCEPT ![t].req = Len(requests) + 1,
                ![t].pc = IF ipUser[t].kind # "Install" THEN "read"
                          ELSE IF ipUser[t].async THEN "create" ELSE "perform"]
          /\ ip' = IF ipUser[t].kind # "Install" THEN Lock(t) ELSE ip
       \/ ~installd.up /\ Goto(t, "idle") /\ UNCHANGED <<ip, requests>>
    /\ UNCHANGED <<updaters, installd>>

-----------------------------------------------------------------------------
(* Receiving.                                                              *)

Answer == Head(installd.answers)

\* The last message of a request has been read by whoever waits for that request.
ReadBy(r) ==
    IF Answer.req = r /\ Answer.status # "Part"
    THEN [requests EXCEPT ![r].read = TRUE] ELSE requests

Taken == installd' = [installd EXCEPT !.answers = Tail(@)]

\* A silence, which the program may take for the end.
Silence == installd.silences < MaxSilences
           /\ installd' = [installd EXCEPT !.silences = @ + 1]

Broken == ~installd.up /\ installd.answers = << >>

\* Bug: a listing is whatever comes first.
ReadOnce(t) ==
    /\ ipUser[t].pc = "read"
    /\ LET r == ipUser[t].req
       IN  \/ /\ installd.answers # << >> /\ Taken
              /\ requests' = [ReadBy(r) EXCEPT ![r].result = "SUCCESS"]
           \/ Silence /\ Ended(r, "RECEIVE_TIMEOUT")
           \/ Broken /\ Ended(r, "CONN_FAILED") /\ UNCHANGED installd
    /\ ip' = Unlocked /\ Goto(t, "idle")
    /\ UNCHANGED updaters

\* instproxy_browse and instproxy_lookup_archives, with the mutex: the listing goes on
\* while the status says so, and nobody looks for an Error.
Read(t) ==
    /\ ipUser[t].pc = "read"
    /\ LET r == ipUser[t].req
       IN  \/ /\ installd.answers # << >> /\ Taken
              /\ IF requests[r].kind = "Browse" /\ Answer.status = "Part"
                    /\ requests[Answer.req].kind = "Browse"
                 THEN UNCHANGED <<ip, ipUser, requests>>
                 ELSE /\ requests' = [ReadBy(r) EXCEPT ![r].result = "SUCCESS"]
                      /\ ip' = Unlocked /\ Goto(t, "idle")
           \/ /\ Silence /\ Ended(r, "RECEIVE_TIMEOUT")
              /\ ip' = Unlocked /\ Goto(t, "idle")
           \/ /\ Broken /\ Ended(r, "CONN_FAILED") /\ UNCHANGED installd
              /\ ip' = Unlocked /\ Goto(t, "idle")
    /\ UNCHANGED updaters

\* Bug: a silence ends the operation.
PerformedOnce(r, again, end) ==
    \/ /\ installd.answers # << >> /\ Taken
       /\ IF Answer.status = "Part" THEN again /\ UNCHANGED requests
          ELSE /\ end
               /\ requests' = [ReadBy(r) EXCEPT ![r].result =
                      IF Answer.status = "Error" THEN "OP_FAILED" ELSE "SUCCESS"]
    \/ Silence /\ end /\ Ended(r, "SUCCESS")
    \/ Broken /\ end /\ Ended(r, "CONN_FAILED") /\ UNCHANGED installd

\* One turn of instproxy_perform_operation for request r.
Performed(r, again, end) ==
    \/ /\ installd.answers # << >> /\ Taken
       /\ IF Answer.status = "Part" THEN again /\ UNCHANGED requests
          ELSE /\ end
               /\ requests' = [ReadBy(r) EXCEPT ![r].result =
                      IF Answer.status = "Error" THEN "OP_FAILED" ELSE "SUCCESS"]
    \/ Silence /\ again /\ UNCHANGED requests
    \/ Broken /\ end /\ Ended(r, "CONN_FAILED") /\ UNCHANGED installd

PerformLock(t) ==
    /\ ipUser[t].pc = "perform" /\ ip.mutex = "free"
    /\ ip' = Lock(t) /\ Goto(t, "receive")
    /\ UNCHANGED <<updaters, requests, installd>>

PerformReceive(t) ==
    /\ ipUser[t].pc = "receive"
    /\ Performed(ipUser[t].req, Goto(t, "perform"), Goto(t, "idle"))
    /\ ip' = Unlocked
    /\ UNCHANGED updaters

-----------------------------------------------------------------------------
(* The status updater.  Its handle may be stored after it began.           *)

\* pthread_create or CreateThread; without a thread nobody reads the answers, and
\* pthread_create may leave the name of the thread that did not start.
CreateUpdater(t) ==
    /\ ipUser[t].pc = "create"
    /\ \/ /\ updaters' = [updaters EXCEPT ![ipUser[t].req] = "perform"]
          /\ Goto(t, "store") /\ UNCHANGED <<ip, requests>>
       \/ /\ Ended(ipUser[t].req, "UNKNOWN_ERROR")
          /\ Goto(t, "idle") /\ UNCHANGED updaters
          /\ \E name \in {ip.status_updater, ipUser[t].req} :
                 ip' = [ip EXCEPT !.status_updater = name]
    /\ UNCHANGED installd

StoreUpdater(t) ==
    /\ ipUser[t].pc = "store"
    /\ ip' = [ip EXCEPT !.status_updater = ipUser[t].req]
    /\ Goto(t, "idle")
    /\ UNCHANGED <<updaters, requests, installd>>

Move(r, pc) == updaters' = [updaters EXCEPT ![r] = pc]

UpdaterLock(r) ==
    /\ updaters[r] = "perform" /\ ip.mutex = "free"
    /\ ip' = [ip EXCEPT !.mutex = "updater", !.undefined = ip.parent = "freed"]
    /\ Move(r, "receive")
    /\ UNCHANGED <<ipUser, requests, installd>>

\* Without a connection the receive fails and the operation ends.
UpdaterReceive(r) ==
    /\ updaters[r] = "receive"
    /\ IF ip.parent = "open" THEN Performed(r, Move(r, "perform"), Move(r, "clean"))
       ELSE Move(r, "clean") /\ Ended(r, "INVALID_ARG") /\ UNCHANGED installd
    /\ ip' = Unlocked
    /\ UNCHANGED ipUser

UpdaterClean(r) ==
    /\ updaters[r] = "clean" /\ ip.mutex = "free"
    /\ ip' = [ip EXCEPT !.mutex = "updater", !.status_updater = 0]
    /\ Move(r, "unlock")
    /\ UNCHANGED <<ipUser, requests, installd>>

UpdaterUnlock(r) ==
    /\ updaters[r] = "unlock"
    /\ ip' = Unlocked
    /\ Move(r, "done")
    /\ UNCHANGED <<ipUser, requests, installd>>

-----------------------------------------------------------------------------
(* instproxy_client_free, by the last caller.                              *)

FreeParent(t) ==
    /\ \A u \in User : ipUser[u].pc = "idle"
    /\ ip.parent = "open"
    /\ ip' = [ip EXCEPT !.parent = "freed",
                        !.undefined = \E r \in Request : updaters[r] = "receive"]
    /\ Goto(t, "null")
    /\ UNCHANGED <<updaters, requests, installd>>

FreeNull(t) ==
    /\ ipUser[t].pc = "null"
    /\ ip' = [ip EXCEPT !.parent = "null"]
    /\ ipUser' = [ipUser EXCEPT ![t].pc = "end", ![t].req = ip.status_updater]
    /\ UNCHANGED <<updaters, requests, installd>>

\* The thread that status_updater named is joined, a name that no thread has with it;
\* one that is only about to unlock the mutex is not.
FreeEnd(t) ==
    /\ ipUser[t].pc = "end"
    /\ ipUser[t].req # 0 => updaters[ipUser[t].req] \in {"none", "done"}
    /\ ip' = [ip EXCEPT !.parent = "gone",
           !.undefined = \/ ipUser[t].req # 0 /\ updaters[ipUser[t].req] = "none"
                         \/ \E r \in Request : updaters[r] \notin {"none", "done"}]
    /\ Goto(t, "idle")
    /\ UNCHANGED <<updaters, requests, installd>>

-----------------------------------------------------------------------------
(* The device.                                                             *)

Says(status) == Append(installd.answers, [req |-> installd.at, status |-> status])

DeviceReports ==
    /\ installd.up /\ installd.at \in DOMAIN requests
    /\ requests[installd.at].kind # "LookupArchives" /\ installd.part < MaxParts
    /\ installd' = [installd EXCEPT !.part = @ + 1, !.answers = Says("Part")]
    /\ UNCHANGED <<ip, ipUser, updaters, requests>>

DeviceCompletes ==
    /\ installd.up /\ installd.at \in DOMAIN requests
    /\ \E status \in {"Complete", "Error"} :
          installd' = [installd EXCEPT !.part = 0, !.at = @ + 1,
                !.answers = Says(status),
                !.complete = IF status = "Complete" THEN @ \cup {installd.at} ELSE @]
    /\ UNCHANGED <<ip, ipUser, updaters, requests>>

DeviceGone ==
    /\ installd.up
    /\ installd' = [installd EXCEPT !.up = FALSE]
    /\ UNCHANGED <<ip, ipUser, updaters, requests>>

UserStep(t) ==
    \/ SendCommand(t) \/ Read(t) \/ PerformLock(t) \/ PerformReceive(t)
    \/ CreateUpdater(t) \/ StoreUpdater(t) \/ FreeNull(t) \/ FreeEnd(t)

UpdaterStep(r) ==
    UpdaterLock(r) \/ UpdaterReceive(r) \/ UpdaterClean(r) \/ UpdaterUnlock(r)

Next ==
    /\ ~ip.undefined
    /\ \/ \E t \in User :
             \/ \E kind \in Kind, async \in BOOLEAN : Call(t, kind, async)
             \/ UserStep(t) \/ FreeParent(t)
       \/ \E r \in Request : UpdaterStep(r)
       \/ DeviceReports \/ DeviceCompletes \/ DeviceGone

Spec == Init /\ [][Next]_vars

-----------------------------------------------------------------------------
(* Properties.                                                             *)

TypeOK ==
    /\ ip \in [mutex : {"free", "updater"} \cup User,
               parent : {"open", "null", "freed", "gone"},
               status_updater : {0} \cup Request, undefined : BOOLEAN]
    /\ ipUser \in [User -> [pc : {"idle", "send", "read", "perform", "receive", "create",
                                  "store", "null", "end"},
                            kind : Kind, async : BOOLEAN, req : {0} \cup Request]]
    /\ updaters \in [Request -> {"none", "perform", "receive", "clean", "unlock", "done"}]
    /\ requests \in Seq([kind : Kind, read : BOOLEAN, clean : BOOLEAN,
           result : {"none", "SUCCESS", "OP_FAILED", "RECEIVE_TIMEOUT", "CONN_FAILED",
                     "INVALID_ARG", "UNKNOWN_ERROR"}])
    /\ installd \in [up : BOOLEAN, at : 1..(MaxRequests + 1), part : 0..MaxParts,
                     answers : Seq([req : Request, status : {"Part", "Complete", "Error"}]),
                     complete : SUBSET Request, silences : 0..MaxSilences]

\* Each request before it had been answered to its end when it was sent, and none was
\* sent while it ran.
Alone(r) == requests[r].clean /\ (r + 1 \in DOMAIN requests => requests[r + 1].clean)

\* A request reported as done had all parts of its own answer read by the one who asked,
\* and an operation reported as done was done by the device, as long as the request was
\* alone.  (A listing or a look-up that the device refused is reported as done, too,
\* since nobody looks at the Error of its answer: 252-282, 633-639.)
SuccessIsComplete ==
    \A r \in DOMAIN requests :
        requests[r].result = "SUCCESS" /\ Alone(r)
        => requests[r].read /\ (requests[r].kind = "Install" => r \in installd.complete)
=============================================================================
