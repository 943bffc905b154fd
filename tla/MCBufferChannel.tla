--------------------------- MODULE MCBufferChannel ---------------------------
(* Small instances of BufferChannel. *)
EXTENDS BufferChannel, TLC

CONSTANTS t1, t2, h1, h2

OneTask == {t1}
TwoTasks == {t1, t2}
OneHandler == {h1}
TwoHandlers == {h1, h2}
None == {}
First == {t1}
=============================================================================
