---------------------------- MODULE MCNotifications ----------------------------
(***************************************************************************)
(* Instances of Notifications for TLC: two labels, one monitor with one    *)
(* event, one event of an admin's.                                         *)
(***************************************************************************)
EXTENDS Notifications, TLC

CONSTANTS a1, a2, w1, w2, u1, u2, alert, dns

NameOrNone == {"first", "second", Unlabelled}
Both(u, v) ==
    [enabled |-> TRUE, events |-> {alert}, monitors |-> {dns},
     targets |-> <<[label |-> "first", url |-> u],
                   [label |-> "second", url |-> v]>>]
TwoTargets == {Both(u1, u2), Both(u2, u1)}

AlertOfDns == dns :> {alert}

Symmetric ==
    Permutations(Admins) \cup Permutations(Workers) \cup Permutations(Urls)
=============================================================================
