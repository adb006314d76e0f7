----------------------------- MODULE MobileSync -----------------------------
(***************************************************************************)
(* mobilesync.c on device_link_service.c: the exchange of versions, and    *)
(* the sessions in which a data class is synchronised, first from the      *)
(* device to the computer and then the other way.                          *)
(*                                                                         *)
(* A message is its name and the session it is said in; each side reads    *)
(* what the other said in its order.  A receive takes a message or gives   *)
(* up, a send may fail once the device has gone.  Records, anchors and     *)
(* versions of data classes are left out.                                  *)
(***************************************************************************)
EXTENDS Naturals, Sequences

CONSTANTS
    MaxSessions,     \* bound: sessions started
    MaxTalk,         \* bound: messages to the device
    MaxLapses        \* bound: receives that give up on a message to come

SyncAssumption == {MaxSessions, MaxTalk, MaxLapses} \subseteq Nat

VARIABLES
    sync,            \* the client: how far the link is, data_class, direction; awaits is
                     \* the call that waits for its answer; session counts the starts;
                     \* clean says that each began and ended with nothing left unread
    syncd            \* the device: the session it is in, and what is on its way

vars == <<sync, syncd>>

Says(type, session) == [type |-> type, session |-> session]

Init ==
    /\ sync = [link |-> "new", data_class |-> FALSE, direction |-> "DEVICE_TO_COMPUTER",
               awaits |-> "none", session |-> 0, talk |-> 0, lapses |-> 0, clean |-> TRUE]
    /\ \E v \in {"VersionExchange", "NewerVersion"} :
          syncd = [up |-> TRUE, session |-> 0, phase |-> "idle", inbox |-> << >>,
                   stream |-> <<Says(v, 0)>>]

Heard == Head(syncd.stream).type

Taken == syncd' = [syncd EXCEPT !.stream = Tail(@)]

Lapse(c) == [c EXCEPT !.lapses = IF syncd.up THEN @ + 1 ELSE @, !.clean = FALSE]

MayLapse ==
    IF syncd.up THEN sync.lapses < MaxLapses ELSE syncd.stream = << >>

\* The message arrives if the device is there; what the caller is told differs.
Sent(type) ==
    syncd' = IF syncd.up
             THEN [syncd EXCEPT !.inbox = Append(@, Says(type, sync.session))] ELSE syncd

-----------------------------------------------------------------------------
(* device_link_service_version_exchange, in mobilesync_client_new.         *)

\* When it fails the client is freed, after a farewell that may not arrive.
Fails == [sync EXCEPT !.link = "freed"]

ReceiveVersion ==
    /\ sync.link = "new"
    /\ \/ /\ syncd.stream # << >>
          /\ IF Heard = "VersionExchange"
             THEN /\ sync' = [sync EXCEPT !.link = "ready"]
                  /\ syncd' = [syncd EXCEPT !.stream = Tail(@),
                         !.inbox = IF syncd.up THEN <<Says("VersionsOk", 0)>> ELSE @]
             ELSE sync' = Fails /\ Taken
       \/ MayLapse /\ sync' = Fails /\ UNCHANGED syncd

ReceiveReady ==
    /\ sync.link = "ready"
    /\ \/ /\ syncd.stream # << >> /\ Taken
          /\ sync' = IF Heard = "DeviceReady" THEN [sync EXCEPT !.link = "open"] ELSE Fails
       \/ MayLapse /\ sync' = Fails /\ UNCHANGED syncd

-----------------------------------------------------------------------------
(* Calls.  Each but mobilesync_start needs a data class; those that have   *)
(* an answer await it.                                                     *)

Ready == sync.link = "open" /\ sync.awaits = "none"

Quiet == syncd.stream = << >> /\ syncd.inbox = << >>

Talks(c) == sync.talk < MaxTalk /\ sync' = [c EXCEPT !.talk = @ + 1]

Start ==
    /\ Ready /\ ~sync.data_class /\ sync.session < MaxSessions
    /\ sync' = [sync EXCEPT !.awaits = "start", !.session = @ + 1, !.clean = @ /\ Quiet]
    /\ syncd' = IF syncd.up
                THEN [syncd EXCEPT !.inbox = Append(@, Says("Start", sync.session + 1))]
                ELSE syncd

Finish ==
    /\ Ready /\ sync.data_class
    /\ sync' = [sync EXCEPT !.awaits = "finish", !.clean = @ /\ Quiet]
    /\ Sent("Finish")

Clear ==
    /\ Ready /\ sync.data_class
    /\ Talks([sync EXCEPT !.awaits = "clear"])
    /\ Sent("Clear")

\* mobilesync_get_all_records_from_device and mobilesync_get_changes_from_device;
\* mobilesync_acknowledge_changes_from_device.
Tell ==
    /\ Ready /\ sync.data_class
    /\ Talks(sync)
    /\ \E type \in {"Get", "Acknowledge"} : Sent(type)

\* mobilesync_receive_changes, mobilesync_ready_to_send_changes_from_computer and
\* mobilesync_remap_identifiers say nothing.
Await ==
    /\ Ready /\ sync.data_class
    /\ \E call \in {"changes", "ready", "remap"} :
          /\ call = "ready" => sync.direction = "DEVICE_TO_COMPUTER"
          /\ call = "remap" => sync.direction = "COMPUTER_TO_DEVICE"
          /\ sync' = [sync EXCEPT !.awaits = call]
    /\ UNCHANGED syncd

SendChanges ==
    /\ Ready /\ sync.data_class /\ sync.direction = "COMPUTER_TO_DEVICE"
    /\ Talks(sync)
    /\ Sent("Changes")

Ended(c) == [c EXCEPT !.awaits = "none", !.data_class = FALSE,
                      !.direction = "DEVICE_TO_COMPUTER"]

Cancel ==
    /\ Ready /\ sync.data_class
    /\ sync' = Ended(sync)
    /\ Sent("Cancel")

Free ==
    /\ Ready
    /\ sync' = Fails
    /\ Sent("Disconnect")

-----------------------------------------------------------------------------
(* Answers.                                                                *)

\* The session counts as started and as ended whatever became of the call.
Returned ==
    CASE sync.awaits = "start" -> [Ended(sync) EXCEPT !.data_class = TRUE]
      [] sync.awaits = "finish" -> Ended(sync)
      [] OTHER -> [sync EXCEPT !.awaits = "none"]

\* Bug: whatever the device says, it is ready.
ReceiveAnything ==
    /\ sync.awaits # "none" /\ syncd.stream # << >>
    /\ Taken
    /\ sync' = IF sync.awaits = "ready"
               THEN [Returned EXCEPT !.direction = "COMPUTER_TO_DEVICE"] ELSE Returned

\* Only ready looks for a name that changes anything; it also sends a ping.
Receive ==
    /\ sync.awaits # "none" /\ syncd.stream # << >>
    /\ Taken
    /\ IF sync.awaits = "ready" /\ Heard = "Ready"
       THEN \/ sync' = [Returned EXCEPT !.direction = "COMPUTER_TO_DEVICE"]
            \/ ~syncd.up /\ sync' = Returned
       ELSE sync' = Returned

ReceiveNothing ==
    /\ sync.awaits # "none" /\ MayLapse
    /\ sync' = Lapse(Returned)
    /\ UNCHANGED syncd

-----------------------------------------------------------------------------
(* The device.                                                             *)

Answers(d, type) == syncd' = [d EXCEPT !.stream = Append(@, Says(type, d.session))]

Leaves(d) == [d EXCEPT !.session = 0, !.phase = "idle"]

\* One message of the computer; one that does not fit, or that the device does not
\* like, ends the session.
DeviceHears ==
    /\ syncd.up /\ syncd.inbox # << >>
    /\ LET m == Head(syncd.inbox)
           d == [syncd EXCEPT !.inbox = Tail(@)]
           here == m.session = d.session
       IN  CASE m.type = "VersionsOk" -> Answers(d, "DeviceReady")
             [] m.type = "Start" ->
                  \/ Answers([d EXCEPT !.session = m.session, !.phase = "sending"], "Start")
                  \/ Answers(Leaves(d), "Refuse")
             [] m.type = "Get" /\ here /\ d.phase = "sending" -> Answers(d, "Changes")
             [] m.type = "Acknowledge" /\ here /\ d.phase = "sending" ->
                  Answers([d EXCEPT !.phase = "receiving"], "Ready")
             [] m.type = "Clear" /\ here /\ d.phase = "sending" -> Answers(d, "Cleared")
             [] m.type = "Changes" /\ here /\ d.phase = "receiving" -> Answers(d, "Remap")
             [] m.type = "Finish" /\ here -> Answers(Leaves(d), "Finished")
             [] m.type \in {"Cancel", "Disconnect"} -> syncd' = Leaves(d)
             [] OTHER -> Answers(Leaves(d), "Cancel")

DeviceCancels ==
    /\ syncd.up /\ syncd.session # 0
    /\ Answers(Leaves(syncd), "Cancel")

DeviceGone ==
    /\ syncd.up
    /\ syncd' = [syncd EXCEPT !.up = FALSE, !.session = 0, !.phase = "idle",
                              !.inbox = << >>]

Next ==
    \/ ReceiveVersion \/ ReceiveReady
    \/ Start \/ Finish \/ Clear \/ Tell \/ Await \/ SendChanges \/ Cancel \/ Free
    \/ Receive \/ ReceiveNothing
    \/ (DeviceHears \/ DeviceCancels \/ DeviceGone) /\ UNCHANGED sync

Spec == Init /\ [][Next]_vars

-----------------------------------------------------------------------------
(* Properties.                                                             *)

Type == {"VersionExchange", "NewerVersion", "VersionsOk", "DeviceReady", "Start", "Refuse",
         "Get", "Changes", "Acknowledge", "Ready", "Clear", "Cleared", "Remap", "Finish",
         "Finished", "Cancel", "Disconnect"}

TypeOK ==
    /\ sync \in [link : {"new", "ready", "open", "freed"}, data_class : BOOLEAN,
                 direction : {"DEVICE_TO_COMPUTER", "COMPUTER_TO_DEVICE"},
                 awaits : {"none", "start", "finish", "clear", "changes", "ready", "remap"},
                 session : 0..MaxSessions, talk : 0..MaxTalk, lapses : 0..MaxLapses,
                 clean : BOOLEAN]
    /\ syncd \in [up : BOOLEAN, session : 0..MaxSessions,
                  phase : {"idle", "sending", "receiving"},
                  inbox : Seq([type : Type, session : 0..MaxSessions]),
                  stream : Seq([type : Type, session : 0..MaxSessions])]

\* While no receive has given up, and every session began and ended with nothing left
\* unread: the computer sends changes only in a session whose device has turned to
\* receiving them, or has cancelled or gone.
DirectionAgreed ==
    sync.clean /\ sync.direction = "COMPUTER_TO_DEVICE" =>
        \/ syncd.session = 0
        \/ syncd.session = sync.session /\ syncd.phase = "receiving"
=============================================================================
