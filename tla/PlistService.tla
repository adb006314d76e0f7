---------------------------- MODULE PlistService ----------------------------
(***************************************************************************)
(* The stream of property lists between a client and a service of the      *)
(* device: property_list_service.c on service.c, idevice.c and the receive *)
(* and send of libusbmuxd.  A property list travels as HeaderLen bytes of  *)
(* length and the bytes of its body; it arrives in pieces, with silences   *)
(* between them, and the connection may end anywhere.                      *)
(*                                                                         *)
(* A byte is known by the message it belongs to and its place there.  The  *)
(* first bytes of a body are those of "<?xml": read as a length they are   *)
(* beyond Limit.  Counts are unsigned words, and an error counted as -1    *)
(* becomes WordSize - 1.                                                   *)
(***************************************************************************)
EXTENDS Integers, Sequences

CONSTANTS
    HeaderLen,       \* bytes of the length (4 in the code)
    Lengths,         \* the lengths of bodies
    Limit,           \* lengths from here on are refused (2^24)
    WordSize,        \* 2^32
    MaxMessages,     \* bound: property lists the device sends
    MaxSends,        \* bound: property lists the client sends
    MaxStalls        \* bound: silences while bytes are on their way

PlistAssumption ==
    /\ HeaderLen \in Nat \ {0}
    /\ Limit \in Nat \ {0} /\ Lengths \subseteq 1..(Limit - 1)
    /\ WordSize \in Nat /\ Limit + HeaderLen < WordSize
    /\ {MaxMessages, MaxSends, MaxStalls} \subseteq Nat

Message == 1..MaxMessages

Byte == [msg : Message, off : Nat]

Result == {"none", "SUCCESS", "RECEIVE_TIMEOUT", "MUX_ERROR", "PLIST_ERROR",
           "UNKNOWN_ERROR"}

VARIABLES
    ssl,             \* the connection has been given to OpenSSL
    lens,            \* the length of each message
    sent,            \* how many the device has sent
    wire,            \* the bytes sent and not received
    ended,           \* the device has closed the connection
    fd,              \* the client's socket: "open", or "closed" by recv_buf_timeout
    stalls,
    pc,
    total,           \* receivedTotal
    buf,             \* the bytes received of the header or the body
    pktlen, curlen,
    parsed,          \* the lengths of the bodies that malloc may hand out again
    results,         \* what the receives have returned so far
    delivered,       \* the messages returned, 0 for one that was never sent
    asks, out, oks   \* property lists the client sent, what arrived of them, and
                     \* which of them were reported as sent

receiving == <<total, buf, pktlen, curlen>>
sending == <<asks, out, oks>>
vars == <<ssl, lens, sent, wire, ended, fd, stalls, pc, receiving, parsed, results,
          delivered, sending>>

Init ==
    /\ ssl \in BOOLEAN
    /\ lens \in [Message -> Lengths]
    /\ sent = 0 /\ wire = << >> /\ ended = FALSE /\ fd = "open" /\ stalls = 0
    /\ pc = "idle"
    /\ total = 0 /\ buf = << >> /\ pktlen = 0 /\ curlen = 0
    /\ parsed = {} /\ results = {} /\ delivered = << >>
    /\ asks = 0 /\ out = << >> /\ oks = {}

Frame(m) == [i \in 1..(HeaderLen + lens[m]) |-> [msg |-> m, off |-> i - 1]]

Body(m) == SubSeq(Frame(m), HeaderLen + 1, HeaderLen + lens[m])

-----------------------------------------------------------------------------
(* The device.                                                             *)

DeviceSends ==
    /\ ~ended /\ sent < MaxMessages
    /\ sent' = sent + 1
    /\ wire' = wire \o Frame(sent + 1)
    /\ UNCHANGED <<ssl, lens, ended, fd, stalls, pc, receiving, parsed, results,
                   delivered, sending>>

DeviceEnds ==
    /\ ~ended
    /\ ended' = TRUE
    /\ UNCHANGED <<ssl, lens, sent, wire, fd, stalls, pc, receiving, parsed, results,
                   delivered, sending>>

-----------------------------------------------------------------------------
(* internal_plist_receive_timeout.                                         *)

Receive ==
    /\ pc = "idle"
    /\ pc' = "header"
    /\ total' = 0 /\ buf' = << >> /\ pktlen' = 0 /\ curlen' = 0
    /\ UNCHANGED <<ssl, lens, sent, wire, ended, fd, stalls, parsed, results, delivered,
                   sending>>

Return(r) ==
    /\ pc' = "idle"
    /\ results' = results \cup {r}
    /\ total' = 0 /\ buf' = << >> /\ pktlen' = 0 /\ curlen' = 0

\* The length that the bytes b make.  With fewer than HeaderLen bytes the rest of
\* the word is 0; bytes that are no header make any length.
LengthsOf(b) ==
    IF b = << >> THEN {0}
    ELSE IF b[1].off >= HeaderLen THEN {Limit}
    ELSE IF b[1].off = 0 /\ Len(b) = HeaderLen THEN {lens[b[1].msg]}
    ELSE 0..Limit

\* The body of n bytes is awaited; an empty one is not.
AwaitBody(n) ==
    /\ pc' = IF n = 0 THEN "parse" ELSE "body"
    /\ pktlen' = n /\ total' = 0 /\ buf' = << >>
    /\ UNCHANGED <<curlen, results>>

\* Bug: any length is good.
HeaderEndsUnlimited(b, bytes) ==
    IF bytes = 0 THEN Return(IF ssl THEN "MUX_ERROR" ELSE "RECEIVE_TIMEOUT")
    ELSE IF bytes < HeaderLen THEN Return("MUX_ERROR")
    ELSE \E n \in LengthsOf(b) : AwaitBody(n)

\* Bug: a header that is cut short is a timeout.
HeaderEndsSilent(b, bytes) ==
    IF bytes < HeaderLen THEN Return(IF ssl THEN "MUX_ERROR" ELSE "RECEIVE_TIMEOUT")
    ELSE \E n \in LengthsOf(b) : IF n < Limit THEN AwaitBody(n) ELSE Return("UNKNOWN_ERROR")

\* The read of the header is over: with OpenSSL an empty one is an error.
HeaderEnds(b, bytes) ==
    IF bytes = 0 THEN Return(IF ssl THEN "MUX_ERROR" ELSE "RECEIVE_TIMEOUT")
    ELSE IF bytes < HeaderLen THEN Return("MUX_ERROR")
    ELSE \E n \in LengthsOf(b) : IF n < Limit THEN AwaitBody(n) ELSE Return("UNKNOWN_ERROR")

\* Bug: a silence is waited out.
BodyEndsPatient(b, bytes) ==
    /\ curlen' = (curlen + bytes) % WordSize
    /\ pc' = IF curlen' < pktlen THEN "body" ELSE "parse"
    /\ total' = 0 /\ buf' = b
    /\ UNCHANGED <<pktlen, results>>

\* Bug: whatever was received is parsed.
BodyEndsEarly(b, bytes) ==
    /\ curlen' = (curlen + bytes) % WordSize
    /\ pc' = "parse" /\ total' = 0 /\ buf' = b
    /\ UNCHANGED <<pktlen, results>>

\* One more service_receive of the body is over.
BodyEnds(b, bytes) ==
    IF bytes = 0 THEN Return("MUX_ERROR")
    ELSE /\ curlen' = (curlen + bytes) % WordSize
         /\ pc' = IF curlen' < pktlen THEN "body" ELSE "parse"
         /\ total' = 0 /\ buf' = b
         /\ UNCHANGED <<pktlen, results>>

ReadEnds(b, bytes) == IF pc = "header" THEN HeaderEnds(b, bytes) ELSE BodyEnds(b, bytes)

\* What the current service_receive was asked for.
Asked == IF pc = "header" THEN HeaderLen ELSE pktlen - curlen

Reading == pc \in {"header", "body"}

\* recv or SSL_read gives n bytes; the loop of idevice.c goes on until it has all.
Recv(n) ==
    /\ Reading /\ fd = "open"
    /\ n <= Len(wire) /\ n <= Asked - total
    /\ wire' = SubSeq(wire, n + 1, Len(wire))
    /\ LET b == buf \o SubSeq(wire, 1, n)
       IN  IF total + n < Asked
           THEN total' = total + n /\ buf' = b /\ UNCHANGED <<pc, pktlen, curlen, results>>
           ELSE ReadEnds(b, total + n)
    /\ UNCHANGED <<ssl, lens, sent, ended, fd, stalls, parsed, delivered, sending>>

\* Five seconds of silence; SSL_read waits without end.
RecvTimesOut ==
    /\ Reading /\ fd = "open" /\ ~ssl
    /\ ended => wire # << >>
    /\ IF wire = << >> THEN UNCHANGED stalls
       ELSE stalls < MaxStalls /\ stalls' = stalls + 1
    /\ ReadEnds(buf, total)
    /\ UNCHANGED <<ssl, lens, sent, wire, ended, fd, parsed, delivered, sending>>

\* The connection has ended, or its descriptor has been closed: -1, whatever was
\* received before.  recv_buf_timeout closes; OpenSSL reports what it had.
RecvFails ==
    /\ Reading
    /\ fd = "closed" \/ (ended /\ wire = << >>)
    /\ fd' = IF ssl THEN fd ELSE "closed"
    /\ ReadEnds(buf, IF ssl THEN total ELSE WordSize - 1)
    /\ UNCHANGED <<ssl, lens, sent, wire, ended, stalls, parsed, delivered, sending>>

\* The bytes are a property list: a whole body, or the beginning of one before what
\* the memory still holds of an earlier body of that length.
Whole(m) == pktlen = lens[m] /\ buf = Body(m)

Mixed ==
    /\ Len(buf) < pktlen /\ pktlen \in parsed
    /\ buf # << >> /\ buf[1].off = HeaderLen

Parse ==
    /\ pc = "parse"
    /\ \/ \E m \in Message : Whole(m) /\ delivered' = Append(delivered, m)
          /\ Return("SUCCESS")
       \/ Mixed /\ delivered' = Append(delivered, 0) /\ Return("SUCCESS")
       \/ /\ \A m \in Message : ~Whole(m)
          /\ Return("PLIST_ERROR") /\ UNCHANGED delivered
    /\ parsed' = parsed \cup {pktlen}
    /\ UNCHANGED <<ssl, lens, sent, wire, ended, fd, stalls, sending>>

-----------------------------------------------------------------------------
(* internal_plist_send.                                                    *)

Send ==
    /\ pc = "idle" /\ asks < MaxSends
    /\ asks' = asks + 1
    /\ pc' = "sendheader"
    /\ UNCHANGED <<ssl, lens, sent, wire, ended, fd, stalls, receiving, parsed, results,
                   delivered, out, oks>>

Part(p, all) == [ask |-> asks, part |-> p, all |-> all]

\* Bug: the body follows whatever became of the length.
SendHeaderAnyway ==
    /\ pc = "sendheader"
    /\ \/ out' = Append(out, Part("header", TRUE)) \/ out' = Append(out, Part("header", FALSE))
       \/ UNCHANGED out
    /\ pc' = "sendbody"
    /\ UNCHANGED <<ssl, lens, sent, wire, ended, fd, stalls, receiving, parsed, results,
                   delivered, asks, oks>>

\* The length is sent, in part, or not at all (an error, a positive errno, counts as
\* success of 0 bytes); only when all of it was sent does the body follow.
SendHeader ==
    /\ pc = "sendheader"
    /\ \/ fd = "open" /\ out' = Append(out, Part("header", TRUE)) /\ pc' = "sendbody"
       \/ fd = "open" /\ ~ssl /\ out' = Append(out, Part("header", FALSE)) /\ pc' = "idle"
       \/ pc' = "idle" /\ UNCHANGED out
    /\ UNCHANGED <<ssl, lens, sent, wire, ended, fd, stalls, receiving, parsed, results,
                   delivered, asks, oks>>

\* Bug: what could be sent is enough.
SendBodyAnyway ==
    /\ pc = "sendbody"
    /\ \/ out' = Append(out, Part("body", TRUE)) /\ oks' = oks \cup {asks}
       \/ out' = Append(out, Part("body", FALSE)) /\ oks' = oks \cup {asks}
       \/ UNCHANGED <<out, oks>>
    /\ pc' = "idle"
    /\ UNCHANGED <<ssl, lens, sent, wire, ended, fd, stalls, receiving, parsed, results,
                   delivered, asks>>

SendBody ==
    /\ pc = "sendbody"
    /\ \/ fd = "open" /\ out' = Append(out, Part("body", TRUE)) /\ oks' = oks \cup {asks}
       \/ fd = "open" /\ ~ssl /\ out' = Append(out, Part("body", FALSE)) /\ UNCHANGED oks
       \/ UNCHANGED <<out, oks>>
    /\ pc' = "idle"
    /\ UNCHANGED <<ssl, lens, sent, wire, ended, fd, stalls, receiving, parsed, results,
                   delivered, asks>>

Step == (\E n \in 1..(HeaderLen + Limit) : Recv(n)) \/ RecvTimesOut \/ RecvFails \/ Parse

Next == DeviceSends \/ DeviceEnds \/ Receive \/ Step \/ Send \/ SendHeader \/ SendBody

Spec == Init /\ [][Next]_vars

\* A receive goes on; the device need not send.
FairSpec == Spec /\ WF_vars(Step)

-----------------------------------------------------------------------------
(* Properties.                                                             *)

TypeOK ==
    /\ ssl \in BOOLEAN /\ lens \in [Message -> Lengths]
    /\ sent \in 0..MaxMessages /\ wire \in Seq(Byte) /\ ended \in BOOLEAN
    /\ fd \in {"open", "closed"} /\ stalls \in 0..MaxStalls
    /\ pc \in {"idle", "header", "body", "parse", "sendheader", "sendbody"}
    /\ total \in 0..(HeaderLen + Limit) /\ buf \in Seq(Byte)
    /\ pktlen \in 0..(Limit - 1) /\ curlen \in 0..(WordSize - 1)
    /\ parsed \subseteq 0..(Limit - 1) /\ results \subseteq Result
    /\ delivered \in Seq(Message \cup {0})
    /\ asks \in 0..MaxSends /\ oks \subseteq 1..asks
    /\ out \in Seq([ask : 1..MaxSends, part : {"header", "body"}, all : BOOLEAN])

\* A client whose receives ended with a property list or a timeout is at the
\* beginning of a message: a timeout may be answered with another receive.
InStep ==
    pc = "idle" /\ results \subseteq {"SUCCESS", "RECEIVE_TIMEOUT"}
        => wire = << >> \/ Head(wire).off = 0

\* Whatever a receive returns is a property list the device sent, whole, later than
\* the one before, even to a client that went on after an error; but for the end of
\* a connection without SSL.
WholeMessages ==
    ssl \/ fd = "open" =>
        /\ \A i \in DOMAIN delivered : delivered[i] \in 1..sent
        /\ \A i, j \in DOMAIN delivered : i < j => delivered[i] < delivered[j]

\* The length and the body of a property list reported as sent are both with the
\* device, complete, one after the other.
SentWhole ==
    \A a \in oks : \E i \in DOMAIN out :
        /\ i > 1
        /\ out[i] = [ask |-> a, part |-> "body", all |-> TRUE]
        /\ out[i - 1] = [ask |-> a, part |-> "header", all |-> TRUE]

\* A receive without SSL returns, whatever the device does.
ReceiveReturns == pc = "header" /\ ~ssl ~> pc = "idle"
=============================================================================
