--------------------------- MODULE RequestServices ---------------------------
(***************************************************************************)
(* The clients whose calls are one request and at most one answer:         *)
(* sbservices.c, diagnostics_relay.c, restore.c, misagent.c, file_relay.c. *)
(* They differ in what they lock, in whether they look at the result of a  *)
(* send, and in what they take an answer for.                              *)
(*                                                                         *)
(* A request is known by its number, which is not in the messages: an      *)
(* answer says its kind, where the code looks at it, and whether the       *)
(* device did what was asked.  Only sbservices.c has a mutex; the others   *)
(* are used by one thread at a time, and no client is freed beside a call. *)
(***************************************************************************)
EXTENDS Naturals, Sequences, FiniteSets

CONSTANTS
    User,            \* threads of the application
    MaxRequests,     \* bound: calls
    MaxSilences      \* bound: receives that give up

RequestsAssumption ==
    IsFiniteSet(User) /\ "free" \notin User /\ {MaxRequests, MaxSilences} \subseteq Nat

\* The calls of each, those that differ in what they ask for only under one name.
Calls ==
    [sbservices |-> {"get", "setIconState"},
     diagnostics_relay |-> {"action", "query"},
     restored |-> {"QueryType", "QueryValue", "StartRestore", "Reboot", "Goodbye", "free"},
     misagent |-> {"Install", "Copy", "Remove"},
     file_relay |-> {"Sources"}]

Service == DOMAIN Calls

Kind == UNION {Calls[s] : s \in Service}

Unanswered == {"setIconState", "StartRestore"}

\* Those that receive whether or not they could send.
Careless == {"action", "query", "QueryType", "Goodbye", "free"}

VARIABLES
    rs,              \* the client: which it is, its mutex and connection; last_error of
                     \* misagent, 0 at first, and whose answer is info of restored
    rsUser,          \* what each thread is doing
    asked,           \* the requests: what was asked, whether nothing was under way when
                     \* it was sent, what the call returned and whose answer it read
    responder        \* the device: what it has to read and has answered, what it did

vars == <<rs, rsUser, asked, responder>>

Idle == [at |-> "idle", req |-> 0]

Init ==
    /\ \E s \in Service, ssl \in BOOLEAN :
        rs = [service |-> s, ssl |-> ssl, mutex |-> "free", open |-> TRUE,
              last_error |-> "SUCCESS", info |-> 0, silences |-> 0]
    /\ rsUser = [t \in User |-> Idle]
    /\ asked = << >>
    /\ responder = [up |-> TRUE, in |-> << >>, out |-> << >>, done |-> {}]

At(t, place) == rsUser[t].at = place

Mine(t) == asked[rsUser[t].req]

-----------------------------------------------------------------------------
(* The client.                                                             *)

\* A call; misagent forgets the last status code.
Begin(t, kind) ==
    /\ At(t, "idle") /\ rs.open /\ Len(asked) < MaxRequests
    /\ kind \in Calls[rs.service]
    /\ rs.service # "sbservices" => \A u \in User : At(u, "idle")
    /\ asked' = Append(asked, [kind |-> kind, clean |-> FALSE, result |-> "none", read |-> 0])
    /\ rsUser' = [rsUser EXCEPT ![t] = [at |-> IF rs.service = "sbservices" THEN "lock"
                                               ELSE "send",
                                        req |-> Len(asked) + 1]]
    /\ rs' = IF rs.service = "misagent" THEN [rs EXCEPT !.last_error = "UNKNOWN_ERROR"] ELSE rs
    /\ UNCHANGED responder

\* Bug: nobody waits.
LockNot(t) ==
    /\ At(t, "lock")
    /\ rsUser' = [rsUser EXCEPT ![t].at = "send"]
    /\ UNCHANGED <<rs, asked, responder>>

\* sbs_lock.
Lock(t) ==
    /\ At(t, "lock") /\ rs.mutex = "free"
    /\ rs' = [rs EXCEPT !.mutex = t]
    /\ rsUser' = [rsUser EXCEPT ![t].at = "send"]
    /\ UNCHANGED <<asked, responder>>

\* What the end of a call leaves: the mutex free, and the connection, if that was the call.
Left(t) ==
    [rs EXCEPT !.mutex = IF @ = t THEN "free" ELSE @, !.open = Mine(t).kind # "free"]

\* The end of a call that has read the answer to a request, 0 if none.  What restored
\* says to goodbye is nothing to restored_client_free.
Return(t, result, read) ==
    /\ rsUser' = [rsUser EXCEPT ![t] = Idle]
    /\ asked' = [asked EXCEPT ![rsUser[t].req].result =
                                  IF Mine(t).kind = "free" THEN "SUCCESS" ELSE result,
                              ![rsUser[t].req].read = read]

\* No answer is under way or will be.
Clean ==
    /\ responder.out = << >>
    /\ \A i \in DOMAIN responder.in : asked[responder.in[i]].kind \in Unanswered

\* It is sent, or lost with the connection; that may be noticed, and be ignored.
Send(t) ==
    LET kind == Mine(t).kind
        sent == [asked EXCEPT ![rsUser[t].req].clean = Clean]
    IN  /\ At(t, "send")
        /\ \/ /\ responder.up
              /\ responder' = [responder EXCEPT !.in = Append(@, rsUser[t].req)]
           \/ ~responder.up /\ UNCHANGED responder
        /\ \/ /\ kind \in Unanswered /\ Return(t, "SUCCESS", 0) /\ rs' = Left(t)
           \/ /\ kind \notin Unanswered
              /\ rsUser' = [rsUser EXCEPT ![t].at = "receive"]
              /\ asked' = sent /\ UNCHANGED rs
           \/ /\ ~responder.up /\ kind \notin Careless
              /\ Return(t, "FAILED", 0) /\ rs' = Left(t)

\* Whether an answer is one to a call of this kind.
Fits(kind, answer) ==
    kind \in {"QueryType", "QueryValue"} => answer.kind = kind

\* Calls that do not look at what the device says.
Trusting == {"get", "Reboot", "Goodbye", "free"}

\* Bug: whatever the device says is good.
JudgedAnyhow(kind, answer) == IF Fits(kind, answer) THEN "SUCCESS" ELSE "FAILED"

\* diagnostics_relay_check_result, misagent_check_result and the like.
Judged(kind, answer) ==
    IF kind \in Trusting THEN "SUCCESS"
    ELSE IF Fits(kind, answer) /\ answer.granted THEN "SUCCESS" ELSE "FAILED"

\* The next answer, whosever it is.  restored_query_type keeps one that lacks nothing but
\* the version of the protocol, and fails.
Receive(t) ==
    /\ At(t, "receive") /\ responder.out # << >>
    /\ LET answer == Head(responder.out)
           result == Judged(Mine(t).kind, answer)
           kept == Mine(t).kind = "QueryType" /\ result = "SUCCESS"
       IN  /\ \/ Return(t, result, answer.to)
              \/ kept /\ Return(t, "FAILED", answer.to)
           /\ rs' = CASE rs.service = "misagent" -> [Left(t) EXCEPT !.last_error = result]
                      [] kept -> [Left(t) EXCEPT !.info = answer.to]
                      [] OTHER -> Left(t)
    /\ responder' = [responder EXCEPT !.out = Tail(@)]

\* OpenSSL waits for ever.
GivesUp(t) ==
    /\ At(t, "receive") /\ responder.out = << >> /\ responder.up
    /\ ~rs.ssl /\ rs.silences < MaxSilences
    /\ Return(t, "FAILED", 0)
    /\ rs' = [Left(t) EXCEPT !.silences = @ + 1]
    /\ UNCHANGED responder

CutOff(t) ==
    /\ At(t, "receive") /\ responder.out = << >> /\ ~responder.up
    /\ Return(t, "FAILED", 0) /\ rs' = Left(t)
    /\ UNCHANGED responder

\* That of restored says goodbye: it is the call "free".
Free ==
    /\ rs.open /\ rs.service # "restored" /\ \A t \in User : At(t, "idle")
    /\ rs' = [rs EXCEPT !.open = FALSE]
    /\ UNCHANGED <<rsUser, asked, responder>>

-----------------------------------------------------------------------------
(* The device.                                                             *)

\* It does what it was asked, or refuses, and says so.
DeviceAnswers ==
    /\ responder.in # << >>
    /\ LET r == Head(responder.in)
           kind == asked[r].kind
       IN  \E granted \in BOOLEAN :
            responder' = [responder EXCEPT
                !.in = Tail(@), !.done = IF granted THEN @ \cup {r} ELSE @,
                !.out = IF kind \in Unanswered THEN @
                        ELSE Append(@, [to |-> r, granted |-> granted,
                                        kind |-> IF kind = "free" THEN "Goodbye" ELSE kind])]
    /\ UNCHANGED <<rs, rsUser, asked>>

DeviceGone ==
    /\ responder.up
    /\ responder' = [responder EXCEPT !.up = FALSE, !.in = << >>]
    /\ UNCHANGED <<rs, rsUser, asked>>

Step(t) == Lock(t) \/ Send(t) \/ Receive(t) \/ GivesUp(t) \/ CutOff(t)

Next ==
    \/ \E t \in User : Step(t) \/ \E kind \in Kind : Begin(t, kind)
    \/ Free \/ DeviceAnswers \/ DeviceGone

Spec == Init /\ [][Next]_vars

-----------------------------------------------------------------------------
(* Properties.                                                             *)

\* The variables have their types.
TypeOK ==
    LET Request == 0..MaxRequests
    IN  /\ rs \in [service : Service, ssl : BOOLEAN, mutex : User \cup {"free"}, open : BOOLEAN,
                   last_error : {"SUCCESS", "FAILED", "UNKNOWN_ERROR"}, info : Request,
                   silences : 0..MaxSilences]
        /\ rsUser \in [User -> [at : {"idle", "lock", "send", "receive"}, req : Request]]
        /\ asked \in Seq([kind : Kind, clean : BOOLEAN, read : Request,
                          result : {"none", "SUCCESS", "FAILED"}])
        /\ responder \in [up : BOOLEAN, in : Seq(Request), done : SUBSET Request,
                          out : Seq([to : Request, kind : Kind, granted : BOOLEAN])]

\* A call that was answered reports the answer to itself, and a success that the device
\* can deny is one it did not deny, whichever thread it belongs to and although some
\* calls receive after a send that failed; provided no answer was under way when it was
\* sent.  The same holds of the status code that misagent keeps; and what restored keeps
\* for restored_get_value is an answer to restored_query_type, whatever came late.
DoneAsSaid ==
    /\ \A r \in DOMAIN asked :
        asked[r].clean /\ asked[r].result = "SUCCESS" /\ asked[r].kind # "free" =>
            /\ asked[r].read = r
            /\ asked[r].kind \in Trusting \/ r \in responder.done
    /\ (rs.service = "misagent" /\ rs.last_error = "SUCCESS" /\ asked # << >>
         /\ asked[Len(asked)].clean) => Len(asked) \in responder.done
    /\ rs.info # 0 => asked[rs.info].kind = "QueryType" /\ rs.info \in responder.done
=============================================================================
