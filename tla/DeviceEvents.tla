---------------------------- MODULE DeviceEvents ----------------------------
(***************************************************************************)
(* What device discovery promises a subscriber, whatever the daemon and    *)
(* the monitor thread do: between a subscription and the return of its     *)
(* unsubscription, each device is announced at most once until it is       *)
(* withdrawn, only an announced device is withdrawn, and outside that      *)
(* window the callback is silent.                                          *)
(***************************************************************************)
CONSTANT Device

VARIABLES status,  \* "off", or "on" while the callback may run
          known    \* the devices the subscriber has been told are present

vars == <<status, known>>

Init == status = "off" /\ known = {}

Subscribe ==
    /\ status = "off"
    /\ status' = "on"
    /\ known' = {}

Announce(d) ==
    /\ status = "on"
    /\ d \notin known
    /\ known' = known \cup {d}
    /\ UNCHANGED status

Withdraw(d) ==
    /\ status = "on"
    /\ d \in known
    /\ known' = known \ {d}
    /\ UNCHANGED status

Unsubscribe ==
    /\ status = "on"
    /\ status' = "off"
    /\ UNCHANGED known

Next ==
    \/ Subscribe
    \/ \E d \in Device : Announce(d) \/ Withdraw(d)
    \/ Unsubscribe

Spec == Init /\ [][Next]_vars
=============================================================================
