----------------------------- MODULE FifoChannel -----------------------------
(***************************************************************************)
(* What the garbled-circuit library expects of its io channel, for each    *)
(* task: the buffers one party sends reach the other once each, in order.  *)
(***************************************************************************)
EXTENDS Naturals, Sequences

CONSTANTS
    Task,   \* task identifiers
    MaxSeq  \* how many buffers a computation sends

VARIABLES
    sent,    \* sent[t]: how many buffers the peer has sent for t
    received \* received[t]: the buffers the computation of t has read

vars == <<sent, received>>

Init ==
    /\ sent = [t \in Task |-> 0]
    /\ received = [t \in Task |-> << >>]

Send(t) ==
    /\ sent[t] < MaxSeq
    /\ sent' = [sent EXCEPT ![t] = @ + 1]
    /\ UNCHANGED received

Receive(t) ==
    /\ Len(received[t]) < sent[t]
    /\ received' = [received EXCEPT ![t] =
                      Append(@, [task |-> t, seq |-> Len(@) + 1])]
    /\ UNCHANGED sent

Next == \E t \in Task : Send(t) \/ Receive(t)

Spec == Init /\ [][Next]_vars

=============================================================================
