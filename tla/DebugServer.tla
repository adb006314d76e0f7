----------------------------- MODULE DebugServer -----------------------------
(***************************************************************************)
(* debugserver.c: commands of the remote protocol of gdb, each answered    *)
(* with an acknowledgement, while they are used, and a packet.  The client *)
(* receives one character at a time and waits a second for it; after that  *)
(* it goes on with a character that is none.  What comes late is there for *)
(* the next call.                                                          *)
(***************************************************************************)
EXTENDS Naturals, Sequences

CONSTANTS
    MaxTries,        \* bound: calls
    MaxReplies,      \* bound: packets
    MaxPauses        \* bound: seconds without a character

DebugAssumption == {MaxTries, MaxReplies, MaxPauses} \subseteq Nat

\* A character; of is the packet whose content or checksum it belongs to.
Kind == {"+", "$", "content", "#", "digit", "silence"}
Char == [kind : Kind, of : 0..MaxReplies]

Mark(kind) == [kind |-> kind, of |-> 0]

Silence == Mark("silence")

VARIABLES
    ds,              \* the client, and its call; gap: a silence fell into a packet
    gdb,             \* the device: what it was sent, what is on its way back
    taken            \* the responses the calls returned

vars == <<ds, gdb, taken>>

\* DEBUGSERVER_CHECKSUM_HASH_LENGTH: # and two digits.
HashLength == 3

Init ==
    /\ ds = [noack |-> FALSE, phase |-> "idle", command |-> "none", buffer |-> << >>,
             left |-> HashLength, gap |-> FALSE, tries |-> 0, pauses |-> 0]
    /\ gdb = [noack |-> FALSE, up |-> TRUE, asked |-> << >>, stream |-> << >>,
              content |-> << >>]
    /\ taken = << >>

-----------------------------------------------------------------------------
(* The device.                                                             *)

Packet(n, content) ==
    <<Mark("$")>> \o content \o
    <<Mark("#"), [kind |-> "digit", of |-> n], [kind |-> "digit", of |-> n]>>

Acknowledged == IF gdb.noack THEN << >> ELSE <<Mark("+")>>

\* debugserver answers, with a content or without.
DeviceAnswers ==
    /\ gdb.up /\ gdb.asked # << >> /\ Head(gdb.asked) # "-"
    /\ LET n == Len(gdb.content) + 1
       IN  \E content \in {<< >>, <<[kind |-> "content", of |-> n]>>} :
              gdb' = [gdb EXCEPT !.asked = Tail(@),
                                 !.noack = @ \/ Head(gdb.asked) = "QStartNoAckMode",
                                 !.stream = @ \o Acknowledged \o Packet(n, content),
                                 !.content = Append(@, content)]
    /\ UNCHANGED <<ds, taken>>

\* Not acknowledged: the last packet once more.
DeviceRepeats ==
    /\ gdb.up /\ gdb.asked # << >> /\ Head(gdb.asked) = "-"
    /\ LET n == Len(gdb.content)
       IN  gdb' = [gdb EXCEPT !.asked = Tail(@),
                              !.stream = @ \o Packet(n, gdb.content[n])]
    /\ UNCHANGED <<ds, taken>>

DeviceGone ==
    /\ gdb.up
    /\ \E n \in 0..Len(gdb.stream) :
          gdb' = [gdb EXCEPT !.up = FALSE, !.stream = SubSeq(@, 1, n)]
    /\ UNCHANGED <<ds, taken>>

-----------------------------------------------------------------------------
(* The calls.                                                              *)

FirstPhase == IF ds.noack THEN "prefix" ELSE "ack"

Begin(command) ==
    ds' = [ds EXCEPT !.phase = FirstPhase, !.command = command, !.tries = @ + 1,
                     !.buffer = << >>, !.left = HashLength]

\* debugserver_client_send_command
SendCommand(command) ==
    /\ ds.phase = "idle" /\ ds.tries < MaxTries
    /\ Len(gdb.content) + Len(gdb.asked) < MaxReplies
    /\ gdb' = [gdb EXCEPT !.asked = Append(@, command)]
    /\ Begin(command)
    /\ UNCHANGED taken

SendFails ==
    /\ ds.phase = "idle" /\ ds.tries < MaxTries /\ ~gdb.up
    /\ ds' = [ds EXCEPT !.tries = @ + 1]
    /\ UNCHANGED <<gdb, taken>>

\* debugserver_client_receive_response, by itself.
ReceiveResponse ==
    /\ ds.phase = "idle" /\ ds.tries < MaxTries
    /\ Begin("none")
    /\ UNCHANGED <<gdb, taken>>

\* The end of a call without an error: from now on nothing is acknowledged.
Returned(client) ==
    [client EXCEPT !.phase = "idle",
                   !.noack = @ \/ client.command = "QStartNoAckMode"]

\* The acknowledgement may have been received by a call that gave up after it.
HearAck(c) ==
    CASE c.kind = "+" -> [ds EXCEPT !.phase = "prefix"]
      [] c.kind = "$" -> [ds EXCEPT !.phase = "content", !.buffer = <<c>>]
      [] OTHER -> Returned(ds)

\* Bug: what comes after the acknowledgement is taken for the prefix, a silence too.
HearPrefixAny(c) == [ds EXCEPT !.phase = "content", !.buffer = <<c>>]

HearPrefix(c) ==
    IF c.kind = "$" THEN [ds EXCEPT !.phase = "content", !.buffer = <<c>>]
    ELSE Returned(ds)

\* A second without a character is counted as one, and does not end the loop.
HearContent(c) ==
    [ds EXCEPT !.buffer = Append(@, c),
               !.gap = @ \/ c = Silence,
               !.left = IF @ < HashLength \/ c.kind = "#" THEN @ - 1 ELSE @,
               !.phase = IF ds.left = 1 THEN "check" ELSE "content"]

\* debugserver_client_receive_internal_check
Heard(c) ==
    CASE ds.phase = "ack" -> HearAck(c)
      [] ds.phase = "prefix" -> HearPrefix(c)
      [] ds.phase = "content" -> HearContent(c)

Hears == ds.phase \in {"ack", "prefix", "content"}

ReceiveChar ==
    /\ Hears /\ gdb.stream # << >>
    /\ ds' = Heard(Head(gdb.stream))
    /\ gdb' = [gdb EXCEPT !.stream = Tail(@)]
    /\ UNCHANGED taken

\* Nothing for a second: what the device has sent may be on its way.
Pause ==
    /\ Hears /\ ds.pauses < MaxPauses
    /\ ds' = [Heard(Silence) EXCEPT !.pauses = @ + 1]
    /\ UNCHANGED <<gdb, taken>>

\* The connection has ended.  Within a packet each second is then like the last.
ReceiveEnd ==
    /\ Hears /\ gdb.stream = << >> /\ ~gdb.up
    /\ ds' = IF ds.phase = "content" THEN [ds EXCEPT !.gap = TRUE] ELSE Heard(Silence)
    /\ UNCHANGED <<gdb, taken>>

\* The response without the prefix and the checksum.
Response == SubSeq(ds.buffer, 2, Len(ds.buffer) - HashLength)

\* debugserver_response_is_checksum_valid: of a packet with silences in it, it
\* compares what lies behind the string.
Accept ==
    /\ ds.phase = "check"
    /\ taken' = Append(taken, Response)
    /\ ds' = Returned(ds)
    /\ UNCHANGED gdb

\* The acknowledgements of the client change nothing; one that is refused does.
Refuse ==
    /\ ds.phase = "check"
    /\ \E i \in DOMAIN ds.buffer : ds.buffer[i] = Silence
    /\ ds' = [ds EXCEPT !.phase = "idle"]
    /\ gdb' = IF ds.noack THEN gdb ELSE [gdb EXCEPT !.asked = Append(@, "-")]
    /\ UNCHANGED taken

Next ==
    \/ \E command \in {"QStartNoAckMode", "other"} : SendCommand(command)
    \/ SendFails \/ ReceiveResponse \/ ReceiveChar \/ Pause \/ ReceiveEnd
    \/ Accept \/ Refuse
    \/ DeviceAnswers \/ DeviceRepeats \/ DeviceGone

-----------------------------------------------------------------------------
\* The variables have their types.
TypeOK ==
    /\ ds \in [noack : BOOLEAN,
               phase : {"idle", "ack", "prefix", "content", "check"},
               command : {"none", "QStartNoAckMode", "other"}, buffer : Seq(Char),
               left : 0..HashLength, gap : BOOLEAN, tries : 0..MaxTries,
               pauses : 0..MaxPauses]
    /\ gdb \in [noack : BOOLEAN, up : BOOLEAN,
                asked : Seq({"QStartNoAckMode", "other", "-"}), stream : Seq(Char),
                content : Seq(Seq(Char))]
    /\ taken \in Seq(Seq(Char))

\* The responses are the contents of the device's packets, each once, none left out
\* and in their order, with and without acknowledgements, while the two ends
\* disagree about them, and wherever between two packets or before the prefix a
\* call gave up.  A silence within a packet is another matter: its checksum is then
\* compared with memory behind the response.
PacketsInOrder ==
    ~ds.gap => \A i \in DOMAIN taken :
                   i \in DOMAIN gdb.content /\ taken[i] = gdb.content[i]
=============================================================================
