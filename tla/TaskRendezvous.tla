--------------------------- MODULE TaskRendezvous ---------------------------
(***************************************************************************)
(* What the invite/notify handshake of two MPC nodes promises, without     *)
(* threads, messages or tables.                                            *)
(*                                                                         *)
(* A two-party computation can only run when both parties run it, and each *)
(* node has one computing thread per role, so the two nodes have to start  *)
(* the same tasks in the same order.  A node joins the tasks one after the *)
(* other.  It may declare a task ready once the other node has joined it   *)
(* too, provided that every task both nodes joined before it, and that     *)
(* neither gave up, has been declared ready first.  It may give up a task  *)
(* it has not declared ready, and never changes its mind.                  *)
(***************************************************************************)
EXTENDS Naturals, Sequences, Functions

CONSTANTS
    Node,   \* the two nodes of a computation
    Task    \* task identifiers

VARIABLES
    joined, \* joined[n]: the tasks n has joined, in order
    ready,  \* ready[n]: the tasks n has declared ready to run
    gone    \* gone[n]: the tasks n has given up

vars == <<joined, ready, gone>>

TypeOK ==
    /\ joined \in [Node -> Seq(Task)]
    /\ ready \in [Node -> SUBSET Task]
    /\ gone \in [Node -> SUBSET Task]

\* u comes before t in the sequence s.
IsBefore(s, u, t) ==
    \E i, j \in DOMAIN s : i < j /\ s[i] = u /\ s[j] = t

\* Every node joined u before t, and none of them gave u up.
Precedes(u, t) ==
    \A n \in Node : IsBefore(joined[n], u, t) /\ u \notin gone[n]

-----------------------------------------------------------------------------

Init ==
    /\ joined = [n \in Node |-> << >>]
    /\ ready = [n \in Node |-> {}]
    /\ gone = [n \in Node |-> {}]

Join(n, t) ==
    /\ t \notin Range(joined[n])
    /\ joined' = [joined EXCEPT ![n] = Append(@, t)]
    /\ UNCHANGED <<ready, gone>>

Ready(n, t) ==
    /\ \A m \in Node : t \in Range(joined[m])
    /\ t \notin gone[n]
    /\ \A u \in Task : Precedes(u, t) => u \in ready[n]
    /\ ready' = [ready EXCEPT ![n] = @ \cup {t}]
    /\ UNCHANGED <<joined, gone>>

Abandon(n, t) ==
    /\ t \in Range(joined[n]) \ ready[n]
    /\ gone' = [gone EXCEPT ![n] = @ \cup {t}]
    /\ UNCHANGED <<joined, ready>>

Next == \E n \in Node, t \in Task : Join(n, t) \/ Ready(n, t) \/ Abandon(n, t)

Spec == Init /\ [][Next]_vars

=============================================================================
