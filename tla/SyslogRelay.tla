----------------------------- MODULE SyslogRelay -----------------------------
(***************************************************************************)
(* syslog_relay.c and thread.c: a caller that starts and stops the capture *)
(* of the log and frees the client, and the thread syslog_relay_worker     *)
(* that receives one character at a time and calls back.                   *)
(*                                                                         *)
(* Characters are numbered as the device sends them; End is what the       *)
(* worker's variable holds when nothing was received.                      *)
(***************************************************************************)
EXTENDS Integers, Sequences

CONSTANTS
    MaxChars,        \* bound: characters of the log
    MaxWorkers,      \* bound: captures
    MaxStale         \* bound: calls back with no character

SyslogAssumption == {MaxChars, MaxWorkers, MaxStale} \subseteq Nat

Worker == 1..MaxWorkers

Char == 1..MaxChars

End == MaxChars + 1

\* What pthread_create may leave in worker when it fails.
Garbage == MaxWorkers + 1

VARIABLES
    sr,              \* the client: parent, worker; ssl: the connection is OpenSSL's
    srPc,            \* what the caller is doing
    workers,         \* the threads that run syslog_relay_worker
    logger,          \* the device: characters sent, and those not received
    captured         \* the calls back: whose, and which character

vars == <<sr, srPc, workers, logger, captured>>

Init ==
    /\ \E ssl \in BOOLEAN :
          sr = [ssl |-> ssl, parent |-> "open", worker |-> 0, undefined |-> FALSE]
    /\ srPc = "idle"
    /\ workers = [w \in Worker |-> [pc |-> "none", c |-> 0]]
    /\ logger = [up |-> TRUE, sent |-> 0, log |-> << >>]
    /\ captured = << >>

-----------------------------------------------------------------------------
(* The caller.                                                             *)

\* syslog_relay_start_capture: one capture at a time.  The thread may not start.
StartCapture ==
    /\ srPc = "idle" /\ sr.parent = "open" /\ sr.worker = 0
    /\ \/ \E w \in Worker :
             /\ workers[w].pc = "none"
             /\ \A v \in Worker : workers[v].pc = "none" => w <= v
             /\ workers' = [workers EXCEPT ![w].pc = "test"]
             /\ sr' = [sr EXCEPT !.worker = w]
       \/ sr' = [sr EXCEPT !.worker = Garbage] /\ UNCHANGED workers
    /\ UNCHANGED <<srPc, logger, captured>>

\* Bug: the worker is not told.
StopCaptureUntold ==
    /\ srPc = "idle" /\ sr.parent = "open" /\ sr.worker # 0
    /\ srPc' = "join"
    /\ UNCHANGED <<sr, workers, logger, captured>>

\* syslog_relay_stop_capture hides the connection from the worker, and waits for it.
StopCapture ==
    /\ srPc = "idle" /\ sr.parent = "open" /\ sr.worker # 0
    /\ sr' = [sr EXCEPT !.parent = "null"]
    /\ srPc' = "join"
    /\ UNCHANGED <<workers, logger, captured>>

\* Whatever worker is joined.
Joined == sr.worker \in Worker => workers[sr.worker].pc = "done"

\* Bug: the worker is left to itself.
StopEndsEarly ==
    /\ srPc = "join"
    /\ sr' = [sr EXCEPT !.parent = "open", !.worker = 0]
    /\ srPc' = "idle"
    /\ UNCHANGED <<workers, logger, captured>>

StopEnds ==
    /\ srPc = "join" /\ Joined
    /\ sr' = [sr EXCEPT !.parent = "open", !.worker = 0,
                        !.undefined = sr.worker = Garbage]
    /\ srPc' = "idle"
    /\ UNCHANGED <<workers, logger, captured>>

\* syslog_relay_client_free closes and frees the connection, in use or not.
ClientFree ==
    /\ srPc = "idle" /\ sr.parent = "open"
    /\ sr' = [sr EXCEPT !.parent = "freed",
                        !.undefined = \E w \in Worker : workers[w].pc = "receive"]
    /\ srPc' = "free"
    /\ UNCHANGED <<workers, logger, captured>>

FreeNull ==
    /\ srPc = "free"
    /\ sr' = [sr EXCEPT !.parent = "null"]
    /\ srPc' = "end"
    /\ UNCHANGED <<workers, logger, captured>>

FreeEnds ==
    /\ srPc = "end" /\ Joined
    /\ srPc' = "gone"
    /\ sr' = [sr EXCEPT !.undefined = sr.worker = Garbage]
    /\ UNCHANGED <<workers, logger, captured>>

-----------------------------------------------------------------------------
(* syslog_relay_worker.                                                    *)

Move(w, pc) == workers' = [workers EXCEPT ![w].pc = pc]

\* while (srwt->client->parent)
WorkerTest(w) ==
    /\ workers[w].pc = "test"
    /\ Move(w, IF sr.parent = "null" THEN "done" ELSE "enter")
    /\ UNCHANGED <<sr, srPc, logger, captured>>

\* The connection is read again: now NULL is an error, which ends the worker.
WorkerEnter(w) ==
    /\ workers[w].pc = "enter"
    /\ Move(w, IF sr.parent = "null" THEN "done" ELSE "receive")
    /\ sr' = [sr EXCEPT !.undefined = sr.parent = "freed"]
    /\ UNCHANGED <<srPc, logger, captured>>

WorkerReceives(w) ==
    /\ workers[w].pc = "receive" /\ logger.log # << >>
    /\ logger' = [logger EXCEPT !.log = Tail(@)]
    /\ workers' = [workers EXCEPT ![w] = [pc |-> "call", c |-> Head(logger.log)]]
    /\ UNCHANGED <<sr, srPc, captured>>

\* A tenth of a second without a character; OpenSSL waits for one.
WorkerTimesOut(w) ==
    /\ workers[w].pc = "receive" /\ ~sr.ssl /\ (logger.up \/ logger.log # << >>)
    /\ Move(w, "test")
    /\ UNCHANGED <<sr, srPc, logger, captured>>

\* The connection has ended.  With OpenSSL that is an error; without, the error is
\* counted as bytes received, and whatever the variable holds is called back.
WorkerCutOff(w) ==
    /\ workers[w].pc = "receive" /\ ~logger.up /\ logger.log = << >>
    /\ IF sr.ssl THEN Move(w, "done")
       ELSE workers' = [workers EXCEPT ![w] = [pc |-> "call", c |-> End]]
    /\ UNCHANGED <<sr, srPc, logger, captured>>

WorkerCall(w) ==
    /\ workers[w].pc = "call"
    /\ workers' = [workers EXCEPT ![w] = [pc |-> "test", c |-> 0]]
    /\ captured' = IF workers[w].c = End
                      /\ Len(SelectSeq(captured, LAMBDA x : x.c = End)) >= MaxStale
                   THEN captured ELSE Append(captured, [by |-> w, c |-> workers[w].c])
    /\ UNCHANGED <<sr, srPc, logger>>

-----------------------------------------------------------------------------
DeviceLogs ==
    /\ logger.up /\ logger.sent < MaxChars
    /\ logger' = [logger EXCEPT !.sent = @ + 1, !.log = Append(@, logger.sent + 1)]
    /\ UNCHANGED <<sr, srPc, workers, captured>>

DeviceGone ==
    /\ logger.up
    /\ logger' = [logger EXCEPT !.up = FALSE]
    /\ UNCHANGED <<sr, srPc, workers, captured>>

WorkerStep(w) ==
    \/ WorkerTest(w) \/ WorkerEnter(w) \/ WorkerReceives(w) \/ WorkerTimesOut(w)
    \/ WorkerCutOff(w) \/ WorkerCall(w)

CallerStep == StopEnds \/ FreeNull \/ FreeEnds

Next ==
    /\ ~sr.undefined
    /\ \/ StartCapture \/ StopCapture \/ ClientFree \/ CallerStep
       \/ \E w \in Worker : WorkerStep(w)
       \/ DeviceLogs \/ DeviceGone

Spec == Init /\ [][Next]_vars

Steps == ~sr.undefined /\ (CallerStep \/ \E w \in Worker : WorkerStep(w))

\* The threads run; a log that is not endless leaves room for silences.
FairSpec == Spec /\ WF_vars(Steps)

-----------------------------------------------------------------------------
(* Properties.                                                             *)

TypeOK ==
    /\ sr \in [ssl : BOOLEAN, parent : {"open", "null", "freed"}, worker : 0..Garbage,
               undefined : BOOLEAN]
    /\ srPc \in {"idle", "join", "free", "end", "gone"}
    /\ workers \in [Worker -> [pc : {"none", "test", "enter", "receive", "call", "done"},
                               c : 0..End]]
    /\ logger \in [up : BOOLEAN, sent : 0..MaxChars, log : Seq(Char)]
    /\ captured \in Seq([by : Worker, c : Char \cup {End}])

\* The log is called back in order and with no character lost, over however many
\* captures: what has left the connection was called back, but for the one character
\* the worker that runs now is about to call back with.
LogWhole ==
    /\ \A i, j \in DOMAIN captured :
          i < j /\ {captured[i].c, captured[j].c} \subseteq Char
              => captured[i].c < captured[j].c
    /\ Char \cap {captured[i].c : i \in DOMAIN captured} =
           1..(logger.sent - Len(logger.log)
                  - (IF \E w \in Worker : workers[w].c \in Char THEN 1 ELSE 0))

\* Stopping a capture returns, whatever the device does, on a connection without SSL.
StopReturns == srPc = "join" /\ ~sr.ssl ~> srPc = "idle"
=============================================================================
