--------------------------------- MODULE Afc ---------------------------------
(***************************************************************************)
(* afc.c and house_arrest.c: requests in packets with a number, sent and   *)
(* answered under the mutex of the client; a client may be made on the     *)
(* connection of house_arrest, after its property lists.                   *)
(*                                                                         *)
(* An answer is a header, the part of the packet that belongs to it and    *)
(* perhaps a rest: pieces <<part, number>> of the stream.  Bytes of a      *)
(* piece that was begun, or is read for a header, are Junk: where they end *)
(* depends on lengths the model leaves out.  Names, paths and contents are *)
(* left out too: what a caller gets is "own", another request's, or what   *)
(* the memory held ("garbage").                                            *)
(***************************************************************************)
EXTENDS Naturals, Sequences, FiniteSets

CONSTANTS
    Task,            \* threads of the application
    MaxPackets,      \* bound: requests
    MaxLapses        \* bound: receives that end while bytes are on their way

AfcAssumption ==
    IsFiniteSet(Task) /\ "free" \notin Task /\ {MaxPackets, MaxLapses} \subseteq Nat

Packet == 1..MaxPackets

Junk == <<"junk", 0>>

Piece == {"list", "header", "body", "rest", "junk"} \X (0..MaxPackets)

VARIABLES
    afc,             \* the client: mutex, packet_num; ssl: the connection is OpenSSL's;
                     \* mode of house_arrest
    task,            \* what each caller is doing
    afcd,            \* the device: the requests received, how it answered, the stream
    outcome          \* what each request returned, and what it got

vars == <<afc, task, afcd, outcome>>

Init ==
    /\ \E ssl \in BOOLEAN, mode \in {"none", "NORMAL"} :
          afc = [mutex |-> "free", packet_num |-> 0, ssl |-> ssl, mode |-> mode]
    /\ task = [t \in Task |-> [pc |-> "idle", num |-> 0]]
    /\ afcd = [up |-> TRUE, todo |-> << >>, done |-> {}, refused |-> {},
               split |-> {}, stream |-> << >>, lapses |-> 0]
    /\ outcome = << >>

Stream == afcd.stream

StreamIs(s) == afcd' = [afcd EXCEPT !.stream = s]

\* A receive ends although more is on its way; OpenSSL waits for it.
Lapse(s) ==
    /\ ~afc.ssl /\ afcd.lapses < MaxLapses
    /\ afcd' = [afcd EXCEPT !.stream = s, !.lapses = @ + 1]

Begun == <<Junk>> \o Tail(Stream)

CutOff == ~afcd.up /\ Stream = << >>

-----------------------------------------------------------------------------
(* house_arrest: a command, its result, and a client for files.            *)

HouseArrestCommand ==
    /\ afc.mode = "NORMAL" /\ afcd.up /\ Stream = << >>
    /\ StreamIs(Append(Stream, <<"list", 0>>))
    /\ UNCHANGED <<afc, task, outcome>>

\* The result is read, or is too late; the caller may go on all the same.
HouseArrestResult ==
    /\ afc.mode = "NORMAL"
    /\ \/ Stream # << >> /\ StreamIs(Tail(Stream))
       \/ Lapse(Stream)
    /\ afc' = [afc EXCEPT !.mode = "AFC"]
    /\ UNCHANGED <<task, outcome>>

-----------------------------------------------------------------------------
(* A request: afc_dispatch_packet.                                         *)

Ready(t) == task[t].pc = "idle" /\ afc.mode # "NORMAL" /\ afc.packet_num < MaxPackets

Numbered == afc.packet_num + 1

Dispatched(t) ==
    /\ task' = [task EXCEPT ![t] = [pc |-> "header", num |-> Numbered]]
    /\ outcome' = Append(outcome, [result |-> "none", got |-> "nothing"])
    /\ afcd' = IF afcd.up THEN [afcd EXCEPT !.todo = Append(@, Numbered)] ELSE afcd

\* Bug: afc_lock is forgotten.
DispatchUnlocked(t) ==
    /\ Ready(t)
    /\ afc' = [afc EXCEPT !.packet_num = Numbered]
    /\ Dispatched(t)

\* What could not be sent is found out when no answer comes.
Dispatch(t) ==
    /\ Ready(t) /\ afc.mutex = "free"
    /\ afc' = [afc EXCEPT !.mutex = t, !.packet_num = Numbered]
    /\ Dispatched(t)

-----------------------------------------------------------------------------
(* The answer: afc_receive_data.                                           *)

Return(t, result, got) ==
    /\ outcome' = [outcome EXCEPT ![task[t].num] = [result |-> result, got |-> got]]
    /\ task' = [task EXCEPT ![t].pc = "idle"]
    /\ afc' = [afc EXCEPT !.mutex = "free"]

\* After bytes that were no header were read for one the stream may be at the end of
\* a piece, or not.
AfterJunk ==
    {Tail(Stream), Begun}
        \cup (IF Len(Stream) > 1 THEN {<<Junk>> \o Tail(Tail(Stream))} ELSE {})

\* Bug: "print a warning but do not abort".
IsOwnLenient(piece) == piece[1] = "header"

\* The header has the number of the last request of the client.
IsOwn(piece) == piece = <<"header", afc.packet_num>>

\* The header is the answer's; or another's, whose contents stay in the stream; or no
\* header; or does not come in time.  When the connection has ended it is whatever
\* the stack held, which is not the number of this packet.
ReceiveHeader(t) ==
    /\ task[t].pc = "header"
    /\ \/ /\ Stream # << >> /\ IsOwn(Head(Stream))
          /\ StreamIs(Tail(Stream))
          /\ task' = [task EXCEPT ![t].pc = "body"]
          /\ UNCHANGED <<afc, outcome>>
       \/ /\ Stream # << >> /\ ~IsOwn(Head(Stream))
          /\ \E s \in IF Head(Stream)[1] = "header" THEN {Tail(Stream)} ELSE AfterJunk :
                StreamIs(s)
          /\ Return(t, "OP_HEADER_INVALID", "nothing")
       \/ /\ \E s \in IF Stream = << >> THEN {Stream} ELSE {Stream, Begun} : Lapse(s)
          /\ Return(t, "MUX_ERROR", "nothing")
       \/ /\ CutOff /\ UNCHANGED afcd
          /\ Return(t, IF afc.ssl THEN "MUX_ERROR" ELSE "OP_HEADER_INVALID", "nothing")

\* The contents are a status, or data that may have a rest.
Contents(t, n, got) ==
    IF n \in afcd.split
    THEN task' = [task EXCEPT ![t].pc = "rest"] /\ UNCHANGED <<afc, outcome>>
    ELSE IF n \in afcd.refused THEN Return(t, "STATUS", got)
    ELSE Return(t, "SUCCESS", got)

Whose(t, n) == IF n = task[t].num THEN "own" ELSE "another's"

\* Contents that do not come in time are an error.  The error of a connection that
\* has ended is counted as bytes received: the contents are what the memory held.
ReceiveBody(t) ==
    /\ task[t].pc = "body"
    /\ \/ /\ Stream # << >> /\ Head(Stream)[1] = "body"
          /\ StreamIs(Tail(Stream))
          /\ Contents(t, Head(Stream)[2], Whose(t, Head(Stream)[2]))
       \/ /\ Stream # << >>
          /\ Lapse(Begun)
          /\ Return(t, "NOT_ENOUGH_DATA", "nothing")
       \/ /\ CutOff /\ UNCHANGED afcd
          /\ IF afc.ssl THEN Return(t, "NOT_ENOUGH_DATA", "nothing")
             ELSE \E r \in {"SUCCESS", "STATUS"} : Return(t, r, "garbage")

\* A rest that does not come in time is left out with a warning.  Counting an error as
\* bytes ends the loop in the end, beyond the length of the packet.
ReceiveRest(t) ==
    /\ task[t].pc = "rest"
    /\ \/ /\ Stream # << >> /\ Head(Stream)[1] = "rest"
          /\ StreamIs(Tail(Stream))
          /\ Return(t, "SUCCESS", Whose(t, Head(Stream)[2]))
       \/ Stream # << >> /\ Lapse(Begun) /\ Return(t, "SUCCESS", "own")
       \/ /\ CutOff /\ UNCHANGED afcd
          /\ Return(t, "SUCCESS", IF afc.ssl THEN "own" ELSE "garbage")

-----------------------------------------------------------------------------
(* The device.                                                             *)

Answered(n) == <<<<"header", n>>, <<"body", n>>>>

\* Requests are answered in their order, when the device gets to it.
DeviceAnswers ==
    /\ afcd.up /\ afcd.todo # << >>
    /\ LET n == Head(afcd.todo)
           d == [afcd EXCEPT !.todo = Tail(@)]
       IN  \/ afcd' = [d EXCEPT !.done = @ \cup {n}, !.stream = @ \o Answered(n)]
           \/ afcd' = [d EXCEPT !.refused = @ \cup {n}, !.stream = @ \o Answered(n)]
           \/ afcd' = [d EXCEPT !.done = @ \cup {n}, !.split = @ \cup {n},
                                !.stream = @ \o Append(Answered(n), <<"rest", n>>)]
    /\ UNCHANGED <<afc, task, outcome>>

\* The connection ends, and with it what had not come through.
DeviceGone ==
    /\ afcd.up
    /\ \E k \in 0..Len(Stream) :
          afcd' = [afcd EXCEPT !.up = FALSE, !.stream = SubSeq(@, 1, k)]
    /\ UNCHANGED <<afc, task, outcome>>

Next ==
    \/ HouseArrestCommand \/ HouseArrestResult
    \/ \E t \in Task : Dispatch(t) \/ ReceiveHeader(t) \/ ReceiveBody(t) \/ ReceiveRest(t)
    \/ DeviceAnswers \/ DeviceGone

Spec == Init /\ [][Next]_vars

-----------------------------------------------------------------------------
(* Properties.                                                             *)

TypeOK ==
    /\ afc \in [mutex : {"free"} \cup Task, packet_num : 0..MaxPackets, ssl : BOOLEAN,
                mode : {"none", "NORMAL", "AFC"}]
    /\ task \in [Task -> [pc : {"idle", "header", "body", "rest"}, num : 0..MaxPackets]]
    /\ afcd \in [up : BOOLEAN, todo : Seq(Packet), done : SUBSET Packet,
                 refused : SUBSET Packet, split : SUBSET Packet, stream : Seq(Piece),
                 lapses : 0..MaxLapses]
    /\ outcome \in Seq([result : {"none", "SUCCESS", "STATUS", "OP_HEADER_INVALID",
                                  "MUX_ERROR", "NOT_ENOUGH_DATA"},
                        got : {"nothing", "own", "another's", "garbage"}])

Truthful(n) ==
    outcome[n].result \in {"SUCCESS", "STATUS"} =>
        /\ outcome[n].got = "own"
        /\ outcome[n].result = "SUCCESS" <=> n \in afcd.done

\* Whatever came too late, was cut short or was left in the stream by an earlier
\* request, and whoever else uses the client: a request that reports the device's
\* answer reports the answer to itself; but for the end of a connection without SSL.
AnswerIsOwn == afc.ssl \/ afcd.up => \A n \in DOMAIN outcome : Truthful(n)
=============================================================================
