-------------------------- MODULE MCUsbmuxRequests --------------------------
(* UsbmuxRequests with the daemons the runs are about.                     *)
EXTENDS UsbmuxRequests, TLC

Symmetry == Permutations(Thread)

\* The daemon of the libusbmuxd this code was made for, and its predecessor.
NewDaemon == [speaks |-> {0, 1}, grants |-> MessageType]
OldDaemon == [speaks |-> {0}, grants |-> {"Connect", "Listen"}]

\* One that speaks the plist protocol but knows no ListDevices, one that knows no
\* other version.
YoungDaemon == [speaks |-> {1}, grants |-> MessageType \ {"ListDevices"}]
StrictDaemon == [speaks |-> {1}, grants |-> MessageType]

\* One that does not let the client listen.
DeafDaemon == [speaks |-> {0, 1}, grants |-> {"Connect"}]

AllDaemons == {NewDaemon, OldDaemon, YoungDaemon, StrictDaemon, DeafDaemon}
NewOnly == {NewDaemon}
OldAndYoung == {OldDaemon, YoungDaemon}
=============================================================================
