--------------------------- MODULE MCTaskPipeline ---------------------------
(* Three tasks as bob, of which one may be pushed twice, and one as alice. *)
EXTENDS TaskPipeline

CONSTANTS t1, t2, t3, t4

FourTasks == {t1, t2, t3, t4}
ThreeInvited == {t1, t2, t3}
OneTwice == {t1}
=============================================================================
