------------------------------ MODULE MCNodePair ------------------------------
(* Small instances of NodePair. *)
EXTENDS NodePair, TLC

CONSTANTS n1, n2, t1, t2

MCNode == {n1, n2}
TwoTasks == {t1, t2}
AllAtN1 == (t1 :> n1) @@ (t2 :> n1)
NoTask == {}
SecondTask == {t2}
=============================================================================
