-------------------------- MODULE InstallerCommands --------------------------
(***************************************************************************)
(* What a command of idevice_installer_server does with the device:        *)
(* Services in installer_utils.cpp, which connects to what the command     *)
(* needs and tries again, and the commands of command.cpp.                 *)
(*                                                                         *)
(* A handle is a pointer of Services: NULL, to something live, or to       *)
(* something freed.  Each call to the device or to a file may fail; what   *)
(* installd reports is what it did, but an operation may be done although  *)
(* the call reports an error.  The waits (do_wait_when_needed) are short   *)
(* and say nothing: they are left out.                                     *)
(***************************************************************************)
EXTENDS Naturals

CONSTANTS
    Retries,         \* 5
    MaxOps           \* bound: commands

ASSUME ServicesAssumption == {Retries, MaxOps} \subseteq Nat

Handles == {"phone", "client", "np", "ipc", "afc", "service"}

VARIABLES
    services,        \* m_phone and the others; i; whether initServices succeeded
    op,              \* the command, how far it is, and what it has found out
    app              \* the device: the app the commands are about

vars == <<services, op, app>>

New == [handles |-> [h \in Handles |-> "null"], i |-> 0, ready |-> FALSE]

Init ==
    /\ services = New
    /\ op = [cmd |-> "none", pc |-> "idle", ops |-> 0, before |-> "none",
             bundle |-> FALSE, package |-> "none", answer |-> "none",
             undefined |-> FALSE]
    /\ app \in {"none", "old"}

Goto(pc) == op' = [op EXCEPT !.pc = pc]

Set(h, value) == services' = [services EXCEPT !.handles[h] = value]

Request(cmd) ==
    /\ op.pc = "idle" /\ op.ops < MaxOps
    /\ services' = New
    /\ op' = [op EXCEPT !.cmd = cmd, !.pc = "phone", !.ops = @ + 1, !.before = app,
                        !.bundle = FALSE, !.package = "none", !.answer = "none"]
    /\ UNCHANGED app

-----------------------------------------------------------------------------
(* initServicesInternal: each call in its order, the first to fail ends it *)
(* and leaves its pointer alone.                                           *)

Connects(h, next) ==
    /\ op.pc = h
    /\ \/ Set(h, "live") /\ Goto(next)
       \/ UNCHANGED services /\ Goto("retry")
    /\ UNCHANGED app

InitPhone == Connects("phone", "client")

InitClient == Connects("client", "np")

\* Bug: a client of an earlier attempt is good enough.
InitNpOnce ==
    /\ op.pc = "np"
    /\ \/ services.handles["np"] = "null" /\ Set("np", "live") /\ Goto("ipc")
       \/ services.handles["np"] # "null" /\ UNCHANGED services /\ Goto("ipc")
       \/ UNCHANGED services /\ Goto("retry")
    /\ UNCHANGED app

InitNp == Connects("np", "ipc")

InitIpc ==
    /\ op.pc = "ipc"
    /\ \/ /\ services' = [services EXCEPT !.handles["ipc"] = "live", !.ready = TRUE]
          /\ Goto(IF op.cmd = "INSTALL" THEN "startafc" ELSE "perform")
       \/ UNCHANGED services /\ Goto("retry")
    /\ UNCHANGED app

\* Services::stop frees what is not NULL, and leaves the pointers.
Stopped ==
    [services EXCEPT !.handles = [h \in Handles |-> IF @[h] = "null" THEN "null" ELSE "freed"]]

FreedTwice == \E h \in Handles : services.handles[h] = "freed"

Retry ==
    /\ op.pc = "retry"
    /\ IF services.i < Retries
       THEN /\ services' = [Stopped EXCEPT !.i = @ + 1]
            /\ op' = [op EXCEPT !.pc = "phone", !.undefined = FreedTwice]
       ELSE /\ op' = [op EXCEPT !.pc = "stop", !.answer = "1"]
            /\ UNCHANGED services
    /\ UNCHANGED app

-----------------------------------------------------------------------------
(* INSTALL.                                                                *)

Answered(ok) == op' = [op EXCEPT !.pc = "stop", !.answer = IF ok THEN "0" ELSE "1"]

\* initAfcService: the service, after which lockdown is not needed.
StartAfc ==
    /\ op.pc = "startafc"
    /\ \/ /\ services' = [services EXCEPT !.handles["service"] = "live",
                                          !.handles["client"] = "null"]
          /\ Goto("afc")
       \/ Answered(FALSE) /\ UNCHANGED services
    /\ UNCHANGED app

InitAfc ==
    /\ op.pc = "afc"
    /\ \/ Set("afc", "live") /\ Goto("copy")
       \/ Answered(FALSE) /\ UNCHANGED services
    /\ UNCHANGED app

\* copyAppOnDevice.  A file that cannot be read to its end, and a directory some of whose
\* files could not be copied, are there in part without an error; an archive need not
\* have an identifier.
CopyAppOnDevice ==
    /\ op.pc = "copy"
    /\ \/ \E package \in {"part", "whole"}, bundle \in BOOLEAN :
             op' = [op EXCEPT !.pc = "perform", !.package = package, !.bundle = bundle]
       \/ Answered(FALSE)
    /\ UNCHANGED <<services, app>>

\* instproxy_install; an error is looked into when there is an identifier.
Install ==
    /\ op.pc = "perform" /\ op.cmd = "INSTALL"
    /\ \/ op.package = "whole" /\ app' = "new" /\ Answered(TRUE)
       \/ /\ \/ op.package = "whole" /\ app' = "new"
             \/ UNCHANGED app
          /\ IF op.bundle THEN Goto("verify") ELSE Answered(FALSE)
    /\ UNCHANGED services

\* Bug: a list that cannot be had proves nothing.
VerifyLeniently ==
    /\ op.pc = "verify"
    /\ Answered(TRUE) \/ Answered(app # "none")
    /\ UNCHANGED <<services, app>>

\* verifyAfterInstall: the identifier is listed, whichever version has it.
VerifyAfterInstall ==
    /\ op.pc = "verify"
    /\ Answered(FALSE) \/ Answered(app # "none")
    /\ UNCHANGED <<services, app>>

-----------------------------------------------------------------------------
(* UNINSTALL and LIST.                                                     *)

\* The identifier may have to be looked up, which may fail.
Uninstall ==
    /\ op.pc = "perform" /\ op.cmd = "UNINSTALL"
    /\ \/ app' = "none" /\ Answered(TRUE)
       \/ app' \in {"none", app} /\ Answered(FALSE)
    /\ UNCHANGED services

List ==
    /\ op.pc = "perform" /\ op.cmd = "LIST"
    /\ \E ok \in BOOLEAN : Answered(ok)
    /\ UNCHANGED <<services, app>>

\* The handler stops the services after it has answered.
Stop ==
    /\ op.pc = "stop"
    /\ services' = Stopped
    /\ op' = [op EXCEPT !.pc = "idle", !.undefined = FreedTwice]
    /\ UNCHANGED app

Next ==
    /\ ~op.undefined
    /\ \/ \E cmd \in {"LIST", "INSTALL", "UNINSTALL"} : Request(cmd)
       \/ InitPhone \/ InitClient \/ InitNp \/ InitIpc \/ Retry
       \/ StartAfc \/ InitAfc \/ CopyAppOnDevice \/ Install \/ VerifyAfterInstall
       \/ Uninstall \/ List \/ Stop

Spec == Init /\ [][Next]_vars

-----------------------------------------------------------------------------
(* Properties.                                                             *)

TypeOK ==
    /\ services \in [handles : [Handles -> {"null", "live", "freed"}], i : 0..Retries,
                     ready : BOOLEAN]
    /\ op \in [cmd : {"none", "LIST", "INSTALL", "UNINSTALL"},
               pc : {"idle", "phone", "client", "np", "ipc", "retry", "startafc", "afc",
                     "copy", "perform", "verify", "stop"},
               ops : 0..MaxOps, before : {"none", "old", "new"}, bundle : BOOLEAN,
               package : {"none", "part", "whole"}, answer : {"none", "0", "1"},
               undefined : BOOLEAN]
    /\ app \in {"none", "old", "new"}

\* The attempts to set the services up that have failed, when something was freed twice.
Failed == IF op.pc = "idle" THEN services.i + 1 ELSE services.i

\* How far it goes that stop() keeps the pointers it frees: a command whose services are
\* set up, at whichever attempt, has none to what an earlier attempt freed, and frees what
\* it has once.  Something is freed twice only by a command that could not be set up, when
\* the second of its attempts, or a later one, fails.
StopsClean ==
    /\ op.pc # "idle" /\ (services.ready \/ services.i = 0) => ~FreedTwice
    /\ op.undefined => ~services.ready /\ Failed > 1

\* A command answered with 0 was done: the app of an UNINSTALL has gone, and that of an
\* INSTALL is there, as new as the package unless another version was there before.
SaidIsSo ==
    op.pc = "stop" /\ op.answer = "0" =>
        /\ op.cmd = "UNINSTALL" => app = "none"
        /\ op.cmd = "INSTALL" => app = "new" \/ (app # "none" /\ app = op.before)
=============================================================================
