--------------------------- MODULE IdeviceInstaller ---------------------------
(***************************************************************************)
(* ideviceinstaller: one operation on the apps of a device, and, after an  *)
(* archive has been copied, the removal of the archive.  The operation     *)
(* runs on the device; a thread of the installation proxy's client calls   *)
(* status_cb, one of the notification proxy's calls notifier, and both set *)
(* globals that main looks at every half second while it has patience.     *)
(* Installing is the exception: main waits for it in the library.          *)
(*                                                                         *)
(* The archive is so many bytes, which the device writes one by one.       *)
(***************************************************************************)
EXTENDS Integers, Sequences

CONSTANTS
    Patience,        \* half seconds main waits for the end (60 in the code)
    NotePatience,    \* ... and for a notification, of both waits (10)
    ArchiveSize,
    MaxProgress,     \* bound: statuses before the last of an operation
    OthersInstall    \* BOOLEAN: other programs make the device notify, too

ToolAssumption ==
    /\ {Patience, NotePatience, ArchiveSize, MaxProgress} \subseteq Nat
    /\ NotePatience <= Patience
    /\ OthersInstall \in BOOLEAN

Mode == {"install", "upgrade", "uninstall", "archive", "restore", "remove"}

\* The clients of the installation proxy: a second one for the removal.
Turn == {1, 2}

VARIABLES
    tool,            \* main: where it is, what it was asked for, what it copied
    flags,           \* the globals
    updater,         \* the status updater of each client
    device           \* installd, and the archive

vars == <<tool, flags, updater, device>>

Init ==
    /\ \E mode \in Mode, copy, remove, uninstall \in BOOLEAN :
          /\ copy \/ remove \/ uninstall => mode = "archive"
          /\ tool = [pc |-> "connect", mode |-> mode, copy |-> copy, remove |-> remove,
                     uninstall |-> uninstall, turn |-> 1, i |-> 0, fsize |-> 0,
                     total |-> 0, res |-> 0]
    /\ flags = [wait_for_op_complete |-> FALSE, notification_expected |-> FALSE,
                op_completed |-> FALSE, err_occured |-> FALSE, notified |-> FALSE]
    /\ updater = [t \in Turn |-> "none"]
    /\ device = [up |-> TRUE, ops |-> << >>, archive |-> 0,
                 says |-> [t \in Turn |-> << >>]]

Goto(pc) == tool' = [tool EXCEPT !.pc = pc]

\* leave_cleanup.  Errors of an installation are set in another res.
Leave(res) == tool' = [tool EXCEPT !.pc = "left", !.res = res]

-----------------------------------------------------------------------------
(* The device, and the threads that hear of it.                            *)

Running(t) == device.up /\ t \in DOMAIN device.ops /\ device.ops[t].state = "running"

Say(d, t, status) == [d EXCEPT !.says[t] = Append(@, status)]

DeviceReports(t) ==
    /\ Running(t) /\ device.ops[t].told < MaxProgress
    /\ device' = Say([device EXCEPT !.ops[t].told = @ + 1], t, "Progress")
    /\ UNCHANGED <<tool, flags, updater>>

DeviceArchives(t) ==
    /\ Running(t) /\ device.ops[t].mode = "archive" /\ device.archive < ArchiveSize
    /\ device' = [device EXCEPT !.archive = @ + 1]
    /\ UNCHANGED <<tool, flags, updater>>

DeviceCompletes(t) ==
    /\ Running(t)
    /\ device.ops[t].mode = "archive" => device.archive = ArchiveSize
    /\ device' = Say([device EXCEPT !.ops[t].state = "complete",
                         !.archive = IF device.ops[t].mode = "remove" THEN 0 ELSE @],
                     t, "Complete")
    /\ UNCHANGED <<tool, flags, updater>>

DeviceFails(t) ==
    /\ Running(t)
    /\ device' = Say([device EXCEPT !.ops[t].state = "failed"], t, "Error")
    /\ UNCHANGED <<tool, flags, updater>>

DeviceGone ==
    /\ device.up
    /\ device' = [device EXCEPT !.up = FALSE]
    /\ UNCHANGED <<tool, flags, updater>>

\* Apps are another set now, and the device notifies whoever observes it.
AppsChanged ==
    \E t \in DOMAIN device.ops :
        /\ device.ops[t].state = "complete"
        /\ \/ device.ops[t].mode \in {"install", "upgrade", "uninstall", "restore"}
           \/ device.ops[t].mode = "archive" /\ tool.uninstall

\* notifier
Notifier ==
    /\ ~flags.notified /\ (AppsChanged \/ OthersInstall)
    /\ flags' = [flags EXCEPT !.notified = TRUE]
    /\ UNCHANGED <<tool, updater, device>>

\* instproxy_status_updater and status_cb.
StatusCb(t) ==
    /\ updater[t] = "runs" /\ device.says[t] # << >>
    /\ LET status == Head(device.says[t])
       IN  /\ flags' = [flags EXCEPT !.op_completed = @ \/ status = "Complete",
                                     !.err_occured = @ \/ status = "Error"]
           /\ updater' = [updater EXCEPT ![t] = IF status = "Progress" THEN @ ELSE "done"]
    /\ device' = [device EXCEPT !.says[t] = Tail(@)]
    /\ UNCHANGED tool

\* Nobody is told that the connection has ended.
UpdaterCutOff(t) ==
    /\ updater[t] = "runs" /\ ~device.up /\ device.says[t] = << >>
    /\ updater' = [updater EXCEPT ![t] = "done"]
    /\ UNCHANGED <<tool, flags, device>>

-----------------------------------------------------------------------------
(* main: one operation.                                                    *)

\* run_again: another client; the one before is not freed.
Connect ==
    /\ tool.pc = "connect"
    /\ \/ Goto("request") /\ flags' = [flags EXCEPT !.notification_expected = FALSE]
       \/ Leave(-1) /\ UNCHANGED flags
    /\ UNCHANGED <<updater, device>>

\* Whatever precedes the command may fail: an upload, the connection to AFC.
Prepared == tool.mode \in {"install", "upgrade"} \/ (tool.copy /\ tool.turn = 1)

NotPrepared ==
    /\ tool.pc = "request" /\ Prepared
    /\ Leave(-1)
    /\ UNCHANGED <<flags, updater, device>>

Ordered ==
    [device EXCEPT !.ops = Append(@, [mode |-> tool.mode, state |-> "running",
                                      told |-> 0])]

\* What each mode waits for.
Waits ==
    [flags EXCEPT !.wait_for_op_complete = TRUE,
                  !.notification_expected =
                      CASE tool.mode \in {"upgrade", "restore"} -> TRUE
                        [] tool.mode = "archive" -> tool.uninstall
                        [] tool.mode = "uninstall" -> FALSE
                        [] tool.mode = "remove" -> @]

\* Nobody looks at whether the command was sent and the thread began.
Request ==
    /\ tool.pc = "request" /\ tool.mode # "install"
    /\ \/ device.up /\ device' = Ordered
          /\ updater' = [updater EXCEPT ![tool.turn] = "runs"]
       \/ device.up /\ device' = Ordered /\ UNCHANGED updater
       \/ ~device.up /\ UNCHANGED <<device, updater>>
    /\ flags' = Waits
    /\ tool' = [tool EXCEPT !.pc = "wait", !.i = 0]

\* instproxy_install without a callback.
Install ==
    /\ tool.pc = "request" /\ tool.mode = "install" /\ device.up
    /\ device' = Ordered
    /\ Goto("installing")
    /\ UNCHANGED <<flags, updater>>

\* After an error the apps are listed: what it says then is not followed.  An error
\* of the listing ends the program.
Installed ==
    /\ tool.pc = "installing"
    /\ \/ device.ops[1].state # "running"
       \/ ~device.up
    /\ \/ /\ flags' = [flags EXCEPT !.wait_for_op_complete = FALSE,
                                    !.notification_expected = TRUE]
          /\ tool' = [tool EXCEPT !.pc = "wait", !.i = 0]
       \/ /\ device.ops[1].state # "complete" /\ Leave(0)
          /\ flags' = [flags EXCEPT !.wait_for_op_complete = FALSE,
                                    !.notification_expected = TRUE]
    /\ UNCHANGED <<updater, device>>

\* do_wait_when_needed; the second wait goes on counting.
WaitsForEnd ==
    /\ flags.wait_for_op_complete
    /\ ~flags.op_completed /\ ~flags.err_occured /\ ~flags.notified
    /\ tool.i < Patience

WaitsForNote ==
    /\ flags.notification_expected /\ ~flags.notified /\ ~flags.err_occured
    /\ tool.i < NotePatience

AfterWait == IF tool.mode = "archive" /\ tool.copy THEN "copy" ELSE "left"

Wait ==
    /\ \/ /\ tool.pc = "wait"
          /\ IF WaitsForEnd THEN tool' = [tool EXCEPT !.i = @ + 1] ELSE Goto("wait note")
       \/ /\ tool.pc = "wait note"
          /\ IF WaitsForNote THEN tool' = [tool EXCEPT !.i = @ + 1] ELSE Goto(AfterWait)
    /\ UNCHANGED <<flags, updater, device>>

-----------------------------------------------------------------------------
(* main: the copy of an archive.                                           *)

\* The local file is opened, the length of the remote one asked for.
Open ==
    /\ tool.pc = "copy"
    /\ \/ Leave(-1)
       \/ /\ ~flags.err_occured /\ device.up /\ device.archive > 0
          /\ tool' = [tool EXCEPT !.pc = "read", !.fsize = device.archive]
    /\ UNCHANGED <<flags, updater, device>>

\* Up to the end of the file, or an error of either side.
Read ==
    /\ tool.pc = "read"
    /\ \/ /\ device.up /\ tool.total < device.archive
          /\ tool' = [tool EXCEPT !.total = @ + 1]
       \/ device.up /\ tool.total = device.archive /\ Goto("copied")
       \/ Goto("copied")
    /\ UNCHANGED <<flags, updater, device>>

\* Bug: an archive that was read up to an error is removed all the same.
CopiedAnyhow ==
    /\ tool.pc = "copied"
    /\ IF tool.remove
       THEN \/ tool' = [tool EXCEPT !.mode = "remove", !.turn = 2, !.pc = "connect"]
            \/ Leave(-1)
       ELSE Leave(0)
    /\ UNCHANGED <<flags, updater, device>>

Copied ==
    /\ tool.pc = "copied"
    /\ IF tool.remove /\ tool.total = tool.fsize
       THEN \/ tool' = [tool EXCEPT !.mode = "remove", !.turn = 2, !.pc = "connect"]
            \/ Leave(-1)
       ELSE Leave(0)
    /\ UNCHANGED <<flags, updater, device>>

Next ==
    \/ Connect \/ NotPrepared \/ Request \/ Install \/ Installed \/ Wait
    \/ Open \/ Read \/ Copied
    \/ \E t \in Turn :
        \/ DeviceReports(t) \/ DeviceArchives(t) \/ DeviceCompletes(t) \/ DeviceFails(t)
        \/ StatusCb(t) \/ UpdaterCutOff(t)
    \/ DeviceGone \/ Notifier

-----------------------------------------------------------------------------
\* The variables have their types.
TypeOK ==
    /\ tool \in [pc : {"connect", "request", "installing", "wait", "wait note", "copy",
                       "read", "copied", "left"},
                 mode : Mode, copy : BOOLEAN, remove : BOOLEAN, uninstall : BOOLEAN,
                 turn : Turn, i : 0..Patience, fsize : 0..ArchiveSize,
                 total : 0..ArchiveSize, res : {0, -1}]
    /\ flags \in [wait_for_op_complete : BOOLEAN, notification_expected : BOOLEAN,
                  op_completed : BOOLEAN, err_occured : BOOLEAN, notified : BOOLEAN]
    /\ updater \in [Turn -> {"none", "runs", "done"}]
    /\ device \in [up : BOOLEAN, archive : 0..ArchiveSize,
                   ops : Seq([mode : Mode, state : {"running", "complete", "failed"},
                              told : 0..MaxProgress]),
                   says : [Turn -> Seq({"Progress", "Complete", "Error"})]]

\* The program removes an archive only when it has copied the whole of it: its copy
\* ends with an error, or begins before the archive is whole.  The exceptions are the
\* two that the waits make: 30 seconds have passed, or there was some notification.
ArchiveKept ==
    tool.turn = 2 /\ tool.pc \in {"connect", "request"} =>
        \/ tool.total = ArchiveSize
        \/ tool.i = Patience
        \/ flags.notified
=============================================================================
