----------------------------- MODULE MCLockdown -----------------------------
(* Small instances of Lockdown for TLC. *)
EXTENDS Lockdown

\* "ask" differs from "service" in the request only.
AllCalls == {"handshake", "service", "escrow", "tell", "unpair", "startsession",
             "stopsession", "stopservice", "free"}

OldDevice == [ios |-> "old", ssl |-> TRUE, methods |-> {"v23"}, errors |-> {}]
PlainDevice == [ios |-> "new", ssl |-> FALSE, methods |-> {}, errors |-> {"other"}]
NewDevice == [ios |-> "new", ssl |-> TRUE, methods |-> {"v3"}, errors |-> {}]

AllModels == {OldDevice, PlainDevice, NewDevice}
PlainOnly == {[PlainDevice EXCEPT !.ios = "old"]}
=============================================================================
