--------------------------- MODULE MCTaskHandshake ---------------------------
(* Small instances of TaskHandshake. *)
EXTENDS TaskHandshake, TLC

CONSTANTS n1, n2, t1, t2, t3

MCNode == {n1, n2}

TwoTasks == {t1, t2}
OneEach == (t1 :> n1) @@ (t2 :> n2)

ThreeTasks == {t1, t2, t3}
TwoAtN1 == (t1 :> n1) @@ (t2 :> n2) @@ (t3 :> n1)

NoTask == {}
ThirdTask == {t3}

\* Bound: the nodes get the same tasks in the same order, the peerless one first.
PeerlessFirst ==
    /\ SameOrder
    /\ \A n \in Node : Committed(n) # << >> => Head(Committed(n)) = t3
=============================================================================
