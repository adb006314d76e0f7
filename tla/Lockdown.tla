------------------------------ MODULE Lockdown ------------------------------
(***************************************************************************)
(* Clients of lockdownd, the service of the device that starts all others: *)
(* lockdown.c with SSL of idevice.c and the pairing records of userpref.c. *)
(* A client is made by a handshake (type, version, validation, pairing if  *)
(* the device refuses this host, session, SSL) that may start over with    *)
(* another SSL method; it is used, and freed.  Around it answers come      *)
(* late, connections break, the user revokes the trust and other programs  *)
(* pair and delete records.                                                *)
(*                                                                         *)
(* A pairing record and the certificates in it are known by their HostID.  *)
(* Error codes that no caller tells apart are "FAILED".                    *)
(***************************************************************************)
EXTENDS Naturals, Sequences

CONSTANTS
    Thread,          \* threads of one process, each with a client at a time
    Models,          \* devices: the version of iOS, "old" or from 11 on "new"; whether
                     \* sessions use SSL; the SSL methods the device accepts; errors
                     \* it may answer when nothing is wrong
    Calls,           \* what threads do with a client
    MaxPairs,        \* bound: records generated
    MaxCalls,        \* bound: calls of a thread
    MaxLate,         \* bound: answers that come after their receive
    MaxDrops,        \* bound: connections that break
    MaxMeddle        \* bound: steps of the user and of other programs

ASSUME LockdownAssumption ==
    /\ Models \subseteq [ios : {"old", "new"}, ssl : BOOLEAN, methods : SUBSET {"v23", "v3"},
                   errors : SUBSET {"other"}]
    /\ Calls \subseteq {"handshake", "service", "escrow", "ask", "tell", "unpair",
                        "startsession", "stopsession", "stopservice", "free"}
    /\ {MaxPairs, MaxCalls, MaxLate, MaxDrops, MaxMeddle} \subseteq Nat
    /\ MaxPairs > 0

\* A HostID; 0 is NULL.
Host == 0..MaxPairs

\* The places of a thread where a request is sent and its answer awaited, and the
\* "Request" of each.
Verb == [query |-> "QueryType", version |-> "GetValue", key |-> "GetValue",
         wifi |-> "GetValue", pair |-> "Pair", validate |-> "ValidatePair",
         revalidate |-> "ValidatePair", start |-> "StartSession",
         stop |-> "StopSession", goodbye |-> "Goodbye", service |-> "StartService",
         ask |-> "GetValue", tell |-> "SetValue", unpair |-> "Unpair",
         stopservice |-> "StopService"]

\* Those that go on to receive after a failed send.
Undaunted == {"query", "stop", "goodbye"}

Place == DOMAIN Verb \cup {"idle", "new", "ssl", "ready"}

Error == {"none", "InvalidHostID", "MissingHostID", "InvalidSession",
          "NoRunningSession", "denied", "other"}

\* An answer: to the request of a place.
Answer == [to : DOMAIN Verb, err : Error]

Code == {"SUCCESS", "INVALID_ARG", "INVALID_CONF", "INVALID_HOST_ID", "MUX_ERROR",
         "NOT_ENOUGH_DATA", "SSL_ERROR", "FAILED"}

VARIABLES
    model,           \* the device
    c,               \* each thread with its client
    d,               \* the device's end of each client's connection
    astray,          \* on it an answer did not come in time, or SSL did not begin
    store,           \* the HostID of the pairing record of the device on this host
    trusted,         \* the records the device accepts
    accepted,        \* those it ever accepted
    gen,             \* records generated
    fallback,        \* g_USE_SSL_FALLBACK_METHOD
    late, drops, meddled

budgets == <<late, drops, meddled>>
world == <<model, store, trusted, accepted, gen>>
vars == <<c, d, astray, world, fallback, budgets>>

Client ==
    [at : Place, asked : BOOLEAN, call : Calls \cup {"none"}, then : Place,
     ret : Code, host : Host, rec : Host,
     sid : {"NULL", "set", "freed"},          \* client->session_id
     flag : BOOLEAN,                          \* client->ssl_enabled
     tls : BOOLEAN,                           \* connection->ssl_data is there
     vers : {"unknown", "old", "new"},        \* device->vers
     conns : Nat,                             \* connections made and not closed
     failed : BOOLEAN,                        \* lockdown_SSL_session_failed
     tried : {"none", "v23", "v3"},           \* the method of its last enable_ssl
     calls : 0..MaxCalls]

NoClient ==
    [at |-> "idle", asked |-> FALSE, call |-> "none", then |-> "idle",
     ret |-> "SUCCESS", host |-> 0, rec |-> 0, sid |-> "NULL", flag |-> FALSE,
     tls |-> FALSE, vers |-> "unknown", conns |-> 0, failed |-> FALSE,
     tried |-> "none", calls |-> 0]

NoLink == [live |-> FALSE, session |-> 0, tls |-> FALSE, inbox |-> << >>]

\* This host has a record the device accepts, one it accepts no more, or none.
Init ==
    /\ model \in Models
    /\ c = [t \in Thread |-> NoClient]
    /\ d = [t \in Thread |-> NoLink]
    /\ astray = [t \in Thread |-> FALSE]
    /\ store \in 0..1 /\ trusted \in SUBSET ({store} \ {0})
    /\ accepted = {store} \ {0} /\ gen = 1
    /\ fallback = FALSE
    /\ late = 0 /\ drops = 0 /\ meddled = 0

-----------------------------------------------------------------------------
(* What is done with a client before the next step.                        *)

\* A call on a client returns.
Return(k) == [k EXCEPT !.at = "ready", !.asked = FALSE, !.call = "none"]

\* lockdownd_client_free.
Freeing(k) ==
    [k EXCEPT !.at = IF k.sid # "NULL" THEN "stop" ELSE "goodbye",
              !.then = "goodbye", !.asked = FALSE]

\* The handshake or the call goes on as ret says.
Conclude(k) ==
    IF k.call # "handshake" \/ k.ret = "SUCCESS" THEN Return(k) ELSE Freeing(k)

\* The session is started, with the HostID of the store s if there is none yet.
Starting(k, s) ==
    [k EXCEPT !.at = "start", !.asked = FALSE, !.host = IF @ = 0 THEN s ELSE @]

\* What the handshake does with the result of a validation; the first that is
\* refused makes it pair.
Judge(k, s) ==
    IF k.ret = "SUCCESS" THEN Starting(k, s)
    ELSE IF k.ret = "INVALID_HOST_ID" /\ k.at # "revalidate"
    THEN [k EXCEPT !.at = "key", !.asked = FALSE, !.host = 0]
    ELSE Freeing(k)

\* lockdownd_do_pair, which reads the record again.
Validating(k, place, s) ==
    IF s = 0 THEN Freeing([k EXCEPT !.ret = "INVALID_CONF"])
    ELSE [k EXCEPT !.at = place, !.asked = FALSE, !.rec = s]

\* The pairing is validated unless the device is known to be new.
Versioned(k) ==
    IF k.vers = "new" THEN Judge(k, store) ELSE Validating(k, "validate", store)

\* lockdown_check_result; a is << >> when no answer came.
Success(a, place) == a.err = "none" /\ Verb[a.to] = Verb[place]
Failure(a, place) == a.err # "none" /\ Verb[a.to] = Verb[place]

\* The error code of do_pair.
PairCode(a, place) ==
    IF Success(a, place) THEN "SUCCESS"
    ELSE IF a.err = "InvalidHostID" THEN "INVALID_HOST_ID" ELSE "FAILED"

-----------------------------------------------------------------------------
(* A request.  The device answers at once; when the answer arrives is left *)
(* to Receive.                                                             *)

\* The HostID in the request of t.
Shown(t) == IF c[t].at = "start" THEN c[t].host ELSE c[t].rec

Known(t) == IF Shown(t) \in trusted THEN {"none"} \cup model.errors ELSE {"InvalidHostID"}

Verdicts(t) ==
    CASE c[t].at \in {"validate", "revalidate", "unpair"} -> Known(t)
      [] c[t].at = "start" -> IF c[t].host = 0 THEN {"MissingHostID"} ELSE Known(t)
      [] c[t].at = "pair" -> {"none", "denied"}
      [] c[t].at = "stop" -> {IF d[t].session # 0 THEN "none" ELSE "InvalidSession"}
      [] c[t].at = "goodbye" -> {"none"}
      [] c[t].at = "service" /\ d[t].session = 0 -> {"NoRunningSession"}
      [] OTHER -> {"none"} \cup model.errors

\* The device after it granted the request of a place.
Granted(link, place, h) ==
    CASE place = "start" -> [link EXCEPT !.session = h, !.tls = model.ssl]
      [] place = "stop" -> [link EXCEPT !.session = 0, !.tls = FALSE]
      [] place = "goodbye" -> [link EXCEPT !.live = FALSE]
      [] OTHER -> link

\* The request is understood if both ends agree whether it is encrypted; otherwise
\* the device closes the connection.
Send(t) ==
    /\ c[t].at \in DOMAIN Verb /\ ~c[t].asked
    /\ c' = [c EXCEPT ![t].asked = TRUE]
    /\ IF d[t].live /\ c[t].tls = d[t].tls
       THEN \E e \in Verdicts(t) :
            LET place == c[t].at
                link == [d[t] EXCEPT !.inbox = Append(@, [to |-> place, err |-> e])]
            IN  IF e = "none"
                THEN /\ d' = [d EXCEPT ![t] = Granted(link, place, Shown(t))]
                     /\ trusted' = CASE place = "pair" -> trusted \cup {c[t].rec}
                                     [] place = "unpair" -> trusted \ {c[t].rec}
                                     [] OTHER -> trusted
                     /\ accepted' = accepted \cup trusted'
                ELSE d' = [d EXCEPT ![t] = link] /\ UNCHANGED <<trusted, accepted>>
       ELSE d' = [d EXCEPT ![t].live = FALSE] /\ UNCHANGED <<trusted, accepted>>
    /\ UNCHANGED <<model, astray, store, gen, fallback, budgets>>

-----------------------------------------------------------------------------
(* The answer: After...(t, as) with as = <<the answer>>, or << >> if there *)
(* is none.  Each leaves the store and the flag as it says.                *)

Quiet == UNCHANGED <<model, store, gen, fallback>>

\* QueryType; the record is read next, whatever came of it.
AfterQuery(t, as) ==
    /\ c[t].at = "query"
    /\ LET code == IF as = << >> \/ as[1].err # "none" THEN "NOT_ENOUGH_DATA"
                   ELSE IF store = 0 THEN "INVALID_CONF" ELSE "SUCCESS"
           k == [c[t] EXCEPT !.host = store, !.ret = code]
       IN  c' = [c EXCEPT ![t] = IF k.vers = "unknown"
                                 THEN [k EXCEPT !.at = "version", !.asked = FALSE]
                                 ELSE Versioned(k)]
    /\ Quiet

AfterVersion(t, as) ==
    /\ c[t].at = "version"
    /\ LET v == IF as # << >> /\ as[1] = [to |-> "version", err |-> "none"]
                THEN model.ios ELSE c[t].vers
       IN  c' = [c EXCEPT ![t] = Versioned([c[t] EXCEPT !.vers = v])]
    /\ Quiet

AfterValidate(t, as) ==
    /\ c[t].at \in {"validate", "revalidate"}
    /\ LET code == IF as = << >> THEN "FAILED" ELSE PairCode(as[1], c[t].at)
       IN  c' = [c EXCEPT ![t] = Judge([c[t] EXCEPT !.ret = code], store)]
    /\ Quiet

\* pair_record_generate: the public key of the device, a record of its own.
AfterKey(t, as) ==
    /\ c[t].at = "key"
    /\ IF as # << >> /\ as[1] = [to |-> "key", err |-> "none"] /\ gen < MaxPairs
       THEN /\ gen' = gen + 1
            /\ c' = [c EXCEPT ![t].at = "wifi", ![t].asked = FALSE, ![t].rec = gen + 1]
       ELSE /\ c' = [c EXCEPT ![t] = Freeing([c[t] EXCEPT !.ret = "FAILED"])]
            /\ UNCHANGED gen
    /\ UNCHANGED <<model, store, fallback>>

AfterWifi(t, as) ==
    /\ c[t].at = "wifi"
    /\ c' = [c EXCEPT ![t].at = "pair", ![t].asked = FALSE]
    /\ Quiet

\* Bug: the record is saved before the answer is looked at.
AfterPairHasty(t, as) ==
    /\ c[t].at = "pair"
    /\ store' = c[t].rec
    /\ LET code == IF as = << >> THEN "FAILED" ELSE PairCode(as[1], "pair")
           k == [c[t] EXCEPT !.ret = code]
       IN  c' = [c EXCEPT ![t] = IF code = "SUCCESS"
                                 THEN Validating(k, "revalidate", store') ELSE Freeing(k)]
    /\ UNCHANGED <<model, gen, fallback>>

\* The record is saved, if the daemon can, and validated.
AfterPair(t, as) ==
    /\ c[t].at = "pair"
    /\ LET code == IF as = << >> THEN "FAILED" ELSE PairCode(as[1], "pair")
           k == [c[t] EXCEPT !.ret = code]
       IN  IF code = "SUCCESS"
           THEN /\ store' \in {store, c[t].rec}
                /\ c' = [c EXCEPT ![t] = Validating(k, "revalidate", store')]
           ELSE c' = [c EXCEPT ![t] = Freeing(k)] /\ UNCHANGED store
    /\ UNCHANGED <<model, gen, fallback>>

\* StartSession.  Only a failure with InvalidHostID is an error; an answer to
\* another request is no failure, and has no SessionID.
AfterStart(t, as) ==
    /\ c[t].at = "start"
    /\ LET k == c[t]
           after == IF as = << >> THEN Conclude([k EXCEPT !.ret = "FAILED"])
                    ELSE IF Failure(as[1], "start")
                    THEN Conclude([k EXCEPT !.ret = IF as[1].err = "InvalidHostID"
                                                    THEN "INVALID_HOST_ID" ELSE "SUCCESS"])
                    ELSE IF as[1].to = "start" /\ model.ssl
                    THEN [k EXCEPT !.at = "ssl", !.asked = FALSE, !.sid = "set"]
                    ELSE Conclude([k EXCEPT !.ret = "SUCCESS", !.flag = FALSE,
                                            !.sid = IF as[1].to = "start" THEN "set" ELSE @])
       IN  c' = [c EXCEPT ![t] = after]
    /\ Quiet

\* What becomes of session_id after lockdownd_stop_session left it as it is: its
\* callers free it, and lockdownd_start_session keeps the pointer.
Left(sid, place) ==
    CASE place = "start" -> IF sid = "NULL" THEN "NULL" ELSE "freed"
      [] place = "stopservice" -> "NULL"
      [] OTHER -> sid

\* Bug: SSL stays on.
AfterStopSecure(t, as) ==
    /\ c[t].at = "stop"
    /\ LET k == c[t]
           code == IF as # << >> /\ Success(as[1], "stop") THEN "SUCCESS" ELSE "FAILED"
           j == IF as = << >> THEN k ELSE [k EXCEPT !.sid = "NULL", !.flag = FALSE]
           l == [j EXCEPT !.sid = Left(@, k.then), !.at = k.then, !.asked = FALSE]
       IN  c' = [c EXCEPT ![t] = IF k.then = "ready" THEN Return([l EXCEPT !.ret = code]) ELSE l]
    /\ Quiet

\* StopSession: any answer ends the session and SSL.
AfterStop(t, as) ==
    /\ c[t].at = "stop"
    /\ LET k == c[t]
           code == IF as # << >> /\ Success(as[1], "stop") THEN "SUCCESS" ELSE "FAILED"
           j == IF as = << >> THEN k
                ELSE [k EXCEPT !.sid = "NULL", !.flag = FALSE, !.tls = @ /\ ~k.flag]
           l == [j EXCEPT !.sid = Left(@, k.then), !.at = k.then, !.asked = FALSE]
       IN  c' = [c EXCEPT ![t] = IF k.then = "ready" THEN Return([l EXCEPT !.ret = code]) ELSE l]
    /\ Quiet

\* Bug: the connection stays open.
AfterGoodbyeOpen(t, as) ==
    /\ c[t].at = "goodbye"
    /\ LET again == c[t].call = "handshake" /\ c[t].failed /\ ~fallback
       IN  /\ fallback' = (fallback \/ again)
           /\ c' = [c EXCEPT ![t].at = IF again THEN "new" ELSE "idle", ![t].asked = FALSE,
                             ![t].call = IF again THEN @ ELSE "none",
                             ![t].sid = "NULL", ![t].flag = FALSE, ![t].tls = FALSE]
    /\ UNCHANGED <<model, store, gen>>

\* Bug: the other method is left to the next handshake.
AfterGoodbyeLater(t, as) ==
    /\ c[t].at = "goodbye"
    /\ fallback' = (fallback \/ (c[t].call = "handshake" /\ c[t].failed))
    /\ c' = [c EXCEPT ![t].at = "idle", ![t].asked = FALSE, ![t].call = "none",
                      ![t].sid = "NULL", ![t].flag = FALSE, ![t].tls = FALSE,
                      ![t].conns = @ - 1]
    /\ UNCHANGED <<model, store, gen>>

\* Bug: the handshake starts over each time.
AfterGoodbyeAgain(t, as) ==
    /\ c[t].at = "goodbye"
    /\ LET again == c[t].call = "handshake" /\ c[t].failed
       IN  /\ fallback' = (fallback \/ again)
           /\ c' = [c EXCEPT ![t].at = IF again THEN "new" ELSE "idle", ![t].asked = FALSE,
                             ![t].call = IF again THEN @ ELSE "none",
                             ![t].sid = "NULL", ![t].flag = FALSE, ![t].tls = FALSE,
                             ![t].conns = @ - 1]
    /\ UNCHANGED <<model, store, gen>>

\* Goodbye, the last of lockdownd_client_free: the connection is closed and the
\* client gone, with any pointer it kept.  A handshake whose SSL failed starts over
\* once with the other method.
AfterGoodbye(t, as) ==
    /\ c[t].at = "goodbye"
    /\ LET again == c[t].call = "handshake" /\ c[t].failed /\ ~fallback
       IN  /\ fallback' = (fallback \/ again)
           /\ c' = [c EXCEPT ![t].at = IF again THEN "new" ELSE "idle", ![t].asked = FALSE,
                             ![t].call = IF again THEN @ ELSE "none",
                             ![t].sid = "NULL", ![t].flag = FALSE, ![t].tls = FALSE,
                             ![t].conns = @ - 1]
    /\ UNCHANGED <<model, store, gen>>

\* StartService, with and without the escrow bag; GetValue.
AfterRequest(t, as) ==
    /\ c[t].at \in {"service", "ask"}
    /\ LET code == IF as # << >> /\ Success(as[1], c[t].at) THEN "SUCCESS" ELSE "FAILED"
       IN  c' = [c EXCEPT ![t] = Return([c[t] EXCEPT !.ret = code])]
    /\ Quiet

\* SetValue, RemoveValue: any answer is a success.
AfterTell(t, as) ==
    /\ c[t].at = "tell"
    /\ LET code == IF as # << >> THEN "SUCCESS" ELSE "FAILED"
       IN  c' = [c EXCEPT ![t] = Return([c[t] EXCEPT !.ret = code])]
    /\ Quiet

\* Unpair: the answer may name another request; the record goes, whatever it is by
\* now.
AfterUnpair(t, as) ==
    /\ c[t].at = "unpair"
    /\ LET code == IF as = << >> THEN "FAILED"
                   ELSE IF as[1].err = "none" THEN "SUCCESS" ELSE PairCode(as[1], "unpair")
       IN  /\ store' = IF code = "SUCCESS" THEN 0 ELSE store
           /\ c' = [c EXCEPT ![t] = Return([c[t] EXCEPT !.ret = code])]
    /\ UNCHANGED <<model, gen, fallback>>

\* StopService never succeeds.
AfterStopService(t, as) ==
    /\ c[t].at = "stopservice"
    /\ c' = [c EXCEPT ![t] = Return([c[t] EXCEPT !.ret = "FAILED"])]
    /\ Quiet

After(t, as) ==
    \/ AfterQuery(t, as) \/ AfterVersion(t, as) \/ AfterValidate(t, as)
    \/ AfterKey(t, as) \/ AfterWifi(t, as) \/ AfterPair(t, as)
    \/ AfterStart(t, as) \/ AfterStop(t, as)
    \/ AfterRequest(t, as) \/ AfterTell(t, as) \/ AfterUnpair(t, as)
    \/ AfterStopService(t, as) \/ AfterGoodbye(t, as)

\* The connection without the answer that was taken, or gone after the last one.
Rest(t, inbox) ==
    d' = [d EXCEPT ![t] = IF c[t].at = "goodbye" THEN NoLink ELSE [@ EXCEPT !.inbox = inbox]]

Receive(t) ==
    /\ c[t].asked /\ d[t].inbox # << >>
    /\ After(t, <<Head(d[t].inbox)>>)
    /\ Rest(t, Tail(d[t].inbox))
    /\ UNCHANGED <<astray, trusted, accepted, budgets>>

\* Five seconds pass: the answer will be taken for that to another request.  With SSL
\* the thread waits on.
ReceiveTimesOut(t) ==
    /\ c[t].asked /\ d[t].inbox # << >> /\ ~c[t].tls
    /\ late < MaxLate /\ late' = late + 1
    /\ After(t, << >>)
    /\ Rest(t, d[t].inbox)
    /\ astray' = [astray EXCEPT ![t] = TRUE]
    /\ UNCHANGED <<trusted, accepted, drops, meddled>>

\* The connection is broken: nothing arrives, or nothing could be sent.
RequestFails(t) ==
    /\ c[t].at \in DOMAIN Verb /\ ~d[t].live
    /\ IF c[t].asked THEN d[t].inbox = << >> ELSE c[t].at \notin Undaunted
    /\ After(t, << >>)
    /\ Rest(t, d[t].inbox)
    /\ astray' = [astray EXCEPT ![t] = TRUE]
    /\ UNCHANGED <<trusted, accepted, budgets>>

-----------------------------------------------------------------------------
(* Connections and SSL.                                                    *)

\* lockdownd_client_new.
Connect(t) ==
    /\ c[t].at = "new"
    /\ \/ /\ c' = [c EXCEPT ![t].at = "query", ![t].conns = @ + 1, ![t].failed = FALSE]
          /\ d' = [d EXCEPT ![t] = [NoLink EXCEPT !.live = TRUE]]
          /\ astray' = [astray EXCEPT ![t] = FALSE]
       \/ /\ c' = [c EXCEPT ![t].at = "idle", ![t].call = "none", ![t].ret = "MUX_ERROR",
                            ![t].failed = FALSE]
          /\ UNCHANGED <<d, astray>>
    /\ UNCHANGED <<world, fallback, budgets>>

Method == IF fallback THEN "v3" ELSE "v23"

\* idevice_connection_enable_ssl: the record is read once more, for its
\* certificates; the device wants those of the session.
EnableSsl(t) ==
    /\ c[t].at = "ssl"
    /\ LET k == c[t]
           begun == ~k.tls /\ store # 0
           agreed == /\ d[t].live /\ d[t].tls /\ d[t].inbox = << >>
                     /\ store = d[t].session /\ Method \in model.methods
           l == [k EXCEPT !.tried = IF begun THEN Method ELSE "none"]
       IN  IF begun /\ agreed
           THEN /\ c' = [c EXCEPT ![t] = Conclude([l EXCEPT !.tls = TRUE, !.flag = TRUE,
                                                            !.ret = "SUCCESS"])]
                /\ UNCHANGED <<d, astray>>
           ELSE /\ c' = [c EXCEPT ![t] = Conclude([l EXCEPT !.flag = FALSE, !.ret = "SSL_ERROR",
                                                            !.failed = k.call = "handshake"])]
                /\ d' = [d EXCEPT ![t].live = @ /\ ~begun]
                /\ astray' = [astray EXCEPT ![t] = TRUE]
    /\ UNCHANGED <<world, fallback, budgets>>

-----------------------------------------------------------------------------
(* What threads do with their clients.                                     *)

\* Where a call begins; stop_session, start_session and stop_service stop the
\* session first.
Begun(t, call) ==
    LET k == [c[t] EXCEPT !.call = call, !.calls = @ + 1]
        Stopping(j, place) ==
            IF j.sid = "NULL" THEN [j EXCEPT !.at = place]
            ELSE [j EXCEPT !.at = "stop", !.then = place]
        noRecord == Return([k EXCEPT !.ret = "INVALID_CONF"])
    IN  CASE call \in {"service", "ask", "tell"} -> [k EXCEPT !.at = call]
          [] call = "escrow" -> IF store = 0 THEN noRecord ELSE [k EXCEPT !.at = "service"]
          [] call = "unpair" -> IF store = 0 THEN noRecord
                                ELSE [k EXCEPT !.at = "unpair", !.rec = store]
          [] call = "startsession" -> Stopping([k EXCEPT !.host = store], "start")
          [] call = "stopservice" -> Stopping(k, "stopservice")
          [] call = "stopsession" ->
                IF k.sid = "NULL" THEN Return([k EXCEPT !.ret = "INVALID_ARG"])
                ELSE Stopping(k, "ready")
          [] call = "free" -> Freeing(k)

Call(t, call) ==
    /\ c[t].calls < MaxCalls
    /\ IF call = "handshake"
       THEN /\ c[t].at = "idle"
            /\ c' = [c EXCEPT ![t].at = "new", ![t].call = call, ![t].calls = @ + 1,
                              ![t].host = 0]
       ELSE /\ c[t].at = "ready"
            /\ c' = [c EXCEPT ![t] = Begun(t, call)]
    /\ UNCHANGED <<d, astray, world, fallback, budgets>>

-----------------------------------------------------------------------------
(* Around the process.                                                     *)

\* A connection breaks; what was on its way may be lost.
Drop(t) ==
    /\ d[t].live /\ drops < MaxDrops
    /\ drops' = drops + 1
    /\ \E inbox \in {d[t].inbox, << >>} :
           d' = [d EXCEPT ![t].live = FALSE, ![t].inbox = inbox]
    /\ UNCHANGED <<c, astray, world, fallback, late, meddled>>

\* The user tells the device to trust no one; another program pairs, or deletes the
\* record.
Meddle ==
    /\ meddled < MaxMeddle /\ meddled' = meddled + 1
    /\ \/ trusted' = {} /\ UNCHANGED <<store, accepted, gen>>
       \/ /\ gen < MaxPairs
          /\ gen' = gen + 1 /\ store' = gen'
          /\ trusted' = trusted \cup {gen'} /\ accepted' = accepted \cup {gen'}
       \/ store' = 0 /\ UNCHANGED <<trusted, accepted, gen>>
    /\ UNCHANGED <<model, c, d, astray, fallback, late, drops>>

Step(t) == Send(t) \/ Receive(t) \/ RequestFails(t) \/ Connect(t) \/ EnableSsl(t)

Next ==
    \/ \E t \in Thread : Step(t) \/ ReceiveTimesOut(t) \/ Drop(t) \/ \E call \in Calls : Call(t, call)
    \/ Meddle

Spec == Init /\ [][Next]_vars

\* A call goes on; nobody has to call.
FairSpec == Spec /\ \A t \in Thread : WF_vars(Step(t))

-----------------------------------------------------------------------------
(* Properties.                                                             *)

TypeOK ==
    /\ model \in Models
    /\ c \in [Thread -> Client]
    /\ d \in [Thread -> [live : BOOLEAN, session : Host, tls : BOOLEAN, inbox : Seq(Answer)]]
    /\ astray \in [Thread -> BOOLEAN]
    /\ store \in Host /\ gen \in 1..MaxPairs
    /\ trusted \subseteq accepted /\ accepted \subseteq 1..gen
    /\ fallback \in BOOLEAN
    /\ late \in 0..MaxLate /\ drops \in 0..MaxDrops /\ meddled \in 0..MaxMeddle

\* Before each request both ends agree on SSL and on whether there is a session, as
\* long as answers came in time and SSL could begin.
InAgreement ==
    \A t \in Thread :
        /\ c[t].at \in DOMAIN Verb \cup {"ready"} /\ ~c[t].asked
        /\ d[t].live /\ ~astray[t]
        => /\ c[t].tls = d[t].tls /\ c[t].flag = c[t].tls
           /\ c[t].sid = "set" <=> d[t].session # 0

\* A pairing record is only kept on this host if the device accepted it: not when
\* its user refused, nor when no answer came.
OnlyAccepted == store # 0 => store \in accepted

\* A thread has a connection while it has a client, and never another: also a
\* handshake that starts over.
OneConnection ==
    \A t \in Thread : c[t].conns = IF c[t].at \in {"idle", "new"} THEN 0 ELSE 1

\* A handshake that failed because of SSL has tried the fallback method, unless the
\* record was gone by then.
FallbackTried ==
    \A t \in Thread : c[t].at = "idle" /\ c[t].failed /\ c[t].ret = "SSL_ERROR"
                      => c[t].tried # "v23"

\* Each call returns, whatever arrives late or breaks.
Returns == \A t \in Thread : c[t].at \notin {"idle", "ready"} ~> c[t].at \in {"idle", "ready"}

\* A client that the handshake gives to its caller has a session.
SessionBacked ==
    [][\A t \in Thread : c[t].call = "handshake" /\ c'[t].at = "ready"
                         => c'[t].sid = "set"]_vars
=============================================================================
