--------------------------- MODULE MCUsbmuxMonitor ---------------------------
(* Small instances of UsbmuxMonitor for TLC. *)
EXTENDS UsbmuxMonitor, TLC

\* The devices are interchangeable (not used where liveness is checked).
Symmetry == Permutations(Udid)
=============================================================================
