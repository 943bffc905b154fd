---------------------------- MODULE MCTaskParties ----------------------------
(* Two providers at the node, one elsewhere, and two two-party tasks. *)
EXTENDS TaskParties

CONSTANTS p1, p2, p3, t1, t2, e1, e2

Providers == {p1, p2, p3}

TwoTasks == {t1, t2}

\* p1 and p2 compute t1, p2 invited; p3 and p2 compute t2, p2 the invitor.
TwoAddrUrl == [t \in TwoTasks |-> IF t = t1 THEN <<p1, p2>> ELSE <<p2, p3>>]

OneInvitor == [t \in TwoTasks |-> IF t = t1 THEN p1 ELSE p2]

\* p2 is elsewhere, and the two contracts name different endpoints for it.
TwoUrl == [t \in TwoTasks |-> [p \in Providers |-> IF p = p2 /\ t = t1 THEN e2 ELSE e1]]
==============================================================================
