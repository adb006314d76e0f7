---------------------------- MODULE ImageMounter ----------------------------
(***************************************************************************)
(* mobile_image_mounter.c: threads look up, upload and mount images and    *)
(* hang up, on one client under its mutex.  An upload announces the image, *)
(* waits for an acknowledgement, sends the bytes as a callback gives them  *)
(* and waits for the end.                                                  *)
(*                                                                         *)
(* The device reads one stream: while it takes bytes, whatever comes is a  *)
(* part of the image.  An image is counted in parts, and a property list   *)
(* that is taken for a part counts as one.  An answer says only its        *)
(* status, never what it answers: "to" is for the properties.              *)
(***************************************************************************)
EXTENDS Naturals, Sequences, FiniteSets

CONSTANTS
    User,            \* threads of the application
    MaxCalls,        \* bound: calls
    MaxSize,         \* bound: parts of an image
    MaxSilences      \* bound: receives that give up

MounterAssumption ==
    IsFiniteSet(User) /\ "free" \notin User /\ {MaxCalls, MaxSize, MaxSilences} \subseteq Nat

Verb == {"LookupImage", "ReceiveBytes", "MountImage", "Hangup"}

Status == {"ReceiveBytesAck", "Complete", "other"}

VARIABLES
    mim,             \* the client: its mutex; whether its connection is OpenSSL's; and the
                     \* calls so far, receives that gave up, whether an upload was left
    caller,          \* what each thread is doing
    mounter          \* the device: what it has to read and has answered, the parts of the
                     \* image it waits for, whose it is, and what it has of it

vars == <<mim, caller, mounter>>

Idle == [at |-> "idle", verb |-> "none", id |-> 0, size |-> 0, tx |-> 0, res |-> "none"]

Init ==
    /\ \E ssl \in BOOLEAN :
        mim = [mutex |-> "free", ssl |-> ssl, calls |-> 0, silences |-> 0, left |-> FALSE]
    /\ caller = [t \in User |-> Idle]
    /\ mounter = [up |-> TRUE, in |-> << >>, out |-> << >>, wants |-> 0, id |-> 0,
                  image |-> << >>]

At(t, place) == caller[t].at = place

Goto(t, place) == caller' = [caller EXCEPT ![t].at = place]

-----------------------------------------------------------------------------
(* The client.                                                             *)

\* mobile_image_mounter_lock.
Begin(t, verb, size) ==
    /\ At(t, "idle") /\ mim.calls < MaxCalls /\ mim.mutex = "free"
    /\ size = 0 <=> verb # "ReceiveBytes"
    /\ mim' = [mim EXCEPT !.mutex = t, !.calls = @ + 1]
    /\ caller' = [caller EXCEPT ![t] = [Idle EXCEPT !.at = "request", !.verb = verb,
                                                    !.id = mim.calls + 1, !.size = size]]
    /\ UNCHANGED mounter

\* What the device has still to do with an upload, and the answers on their way.
Pending(id) ==
    \/ \E i \in DOMAIN mounter.in : mounter.in[i].id = id
    \/ \E i \in DOMAIN mounter.out : mounter.out[i].to = id
    \/ mounter.wants > 0 /\ mounter.id = id

\* goto leave_unlock, with the result; an answer that was received is taken by then.
Leave(t, res) ==
    /\ caller' = [caller EXCEPT ![t].at = "leave_unlock", ![t].res = res]
    /\ mim' = [mim EXCEPT !.left = @ \/ (caller[t].verb = "ReceiveBytes"
                                          /\ res # "SUCCESS" /\ Pending(caller[t].id)')]

Sent(t, kind, part) ==
    mounter' = [mounter EXCEPT !.in = Append(@, [kind |-> kind, id |-> caller[t].id,
                                                 size |-> caller[t].size, part |-> part])]

Request(t) ==
    /\ At(t, "request")
    /\ IF mounter.up
       THEN /\ Sent(t, caller[t].verb, 0)
            /\ Goto(t, IF caller[t].verb = "ReceiveBytes" THEN "acknowledgement" ELSE "answer")
            /\ UNCHANGED mim
       ELSE UNCHANGED mounter /\ Leave(t, "UNKNOWN_ERROR")

\* One turn of the loop, with what the callback had.  Without OpenSSL a send that fails is
\* a success of 0 bytes, and nobody looks at "sent".
Upload(t) ==
    /\ At(t, "data")
    /\ \/ mounter.up /\ Sent(t, "bytes", caller[t].tx + 1)
       \/ ~mim.ssl /\ UNCHANGED mounter
    /\ caller' = [caller EXCEPT ![t].tx = @ + 1,
                                ![t].at = IF caller[t].tx + 1 = caller[t].size THEN "end"
                                          ELSE "data"]
    /\ UNCHANGED mim

\* The callback has nothing or an error, or the send fails.
UploadFails(t) ==
    At(t, "data") /\ UNCHANGED mounter /\ Leave(t, "COMMAND_FAILED")

Received == Head(mounter.out)

Taken == mounter' = [mounter EXCEPT !.out = Tail(@)]

\* Bug: whatever is received next is the acknowledgement.
AcknowledgedAnyhow(t) ==
    /\ At(t, "acknowledgement") /\ mounter.out # << >>
    /\ Taken
    /\ Goto(t, "data") /\ UNCHANGED mim

Acknowledged(t) ==
    /\ At(t, "acknowledgement") /\ mounter.out # << >>
    /\ Taken
    /\ IF Received.status = "ReceiveBytesAck" THEN Goto(t, "data") /\ UNCHANGED mim
       ELSE Leave(t, "COMMAND_FAILED")

Uploaded(t) ==
    /\ At(t, "end") /\ mounter.out # << >>
    /\ Taken
    /\ Leave(t, IF Received.status = "Complete" THEN "SUCCESS" ELSE "COMMAND_FAILED")

\* The other calls take any property list.
Answered(t) ==
    /\ At(t, "answer") /\ mounter.out # << >>
    /\ Taken
    /\ Leave(t, "SUCCESS")

Receives(t) == caller[t].at \in {"acknowledgement", "end", "answer"} /\ mounter.out = << >>

\* OpenSSL waits for ever.
GivesUp(t) ==
    /\ Receives(t) /\ mounter.up /\ ~mim.ssl /\ mim.silences < MaxSilences
    /\ caller' = [caller EXCEPT ![t].at = "leave_unlock", ![t].res = "UNKNOWN_ERROR"]
    /\ mim' = [mim EXCEPT !.silences = @ + 1,
                          !.left = @ \/ caller[t].verb = "ReceiveBytes"]
    /\ UNCHANGED mounter

CutOff(t) ==
    Receives(t) /\ ~mounter.up /\ UNCHANGED mounter /\ Leave(t, "CONN_FAILED")

\* mobile_image_mounter_unlock.
Unlock(t) ==
    /\ At(t, "leave_unlock")
    /\ caller' = [caller EXCEPT ![t] = Idle] /\ mim' = [mim EXCEPT !.mutex = "free"]
    /\ UNCHANGED mounter

-----------------------------------------------------------------------------
(* The device.                                                             *)

\* A part of the image; the end is answered.
DeviceTakes ==
    /\ mounter.in # << >> /\ mounter.wants > 0
    /\ \E status \in {"Complete", "other"} :
        mounter' = [mounter EXCEPT
            !.in = Tail(@), !.wants = @ - 1,
            !.image = Append(@, [id |-> Head(mounter.in).id, part |-> Head(mounter.in).part]),
            !.out = IF mounter.wants > 1 THEN @
                    ELSE Append(@, [to |-> mounter.id, status |-> status])]
    /\ UNCHANGED <<mim, caller>>

\* What it may say to each command; ReceiveBytes is taken or refused.
DeviceAnswers ==
    /\ mounter.in # << >> /\ mounter.wants = 0 /\ Head(mounter.in).kind # "bytes"
    /\ LET item == Head(mounter.in)
       IN  \E status \in IF item.kind = "ReceiveBytes" THEN {"ReceiveBytesAck", "other"}
                         ELSE {"Complete", "other"} :
            mounter' = [mounter EXCEPT
                !.in = IF item.kind = "Hangup" THEN << >> ELSE Tail(@),
                !.out = Append(@, [to |-> item.id, status |-> status]),
                !.up = item.kind # "Hangup",
                !.wants = IF status = "ReceiveBytesAck" THEN item.size ELSE 0,
                !.id = IF status = "ReceiveBytesAck" THEN item.id ELSE @,
                !.image = IF status = "ReceiveBytesAck" THEN << >> ELSE @]
    /\ UNCHANGED <<mim, caller>>

\* It goes away; or gets bytes where it expects a property list.
DeviceGone ==
    /\ mounter.up
    /\ mounter' = [mounter EXCEPT !.up = FALSE, !.in = << >>]
    /\ UNCHANGED <<mim, caller>>

Step(t) ==
    \/ Request(t) \/ Upload(t) \/ UploadFails(t)
    \/ Acknowledged(t) \/ Uploaded(t) \/ Answered(t)
    \/ GivesUp(t) \/ CutOff(t) \/ Unlock(t)

Next ==
    \/ \E t \in User, verb \in Verb, size \in 0..MaxSize : Begin(t, verb, size)
    \/ \E t \in User : Step(t)
    \/ DeviceTakes \/ DeviceAnswers \/ DeviceGone

Spec == Init /\ [][Next]_vars

-----------------------------------------------------------------------------
(* Properties.                                                             *)

\* The variables have their types.
TypeOK ==
    LET Call == 0..MaxCalls
    IN  /\ mim \in [mutex : User \cup {"free"}, ssl : BOOLEAN, calls : Call,
                    silences : 0..MaxSilences, left : BOOLEAN]
        /\ caller \in [User -> [at : {"idle", "request", "acknowledgement", "data", "end",
                                      "answer", "leave_unlock"},
                                verb : Verb \cup {"none"}, id : Call, size : 0..MaxSize,
                                tx : 0..MaxSize,
                                res : {"none", "SUCCESS", "UNKNOWN_ERROR", "COMMAND_FAILED",
                                       "CONN_FAILED"}]]
        /\ mounter \in [up : BOOLEAN, wants : 0..MaxSize, id : Call,
                        in : Seq([kind : Verb \cup {"bytes"}, id : Call, size : 0..MaxSize,
                                  part : 0..MaxSize]),
                        out : Seq([to : Call, status : Status]),
                        image : Seq([id : Call, part : 0..MaxSize])]

\* An upload that reports success left the image with the device, whole and in its
\* order, whatever other threads do and however late earlier calls are answered; unless
\* an earlier upload was left while the device was still about it.
ImageWhole ==
    \A t \in User :
        /\ At(t, "leave_unlock") /\ caller[t].verb = "ReceiveBytes"
        /\ caller[t].res = "SUCCESS" /\ ~mim.left
        => mounter.image = [k \in 1..caller[t].size |-> [id |-> caller[t].id, part |-> k]]
=============================================================================
