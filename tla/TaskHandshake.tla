---------------------------- MODULE TaskHandshake ----------------------------
(***************************************************************************)
(* The handshake by which two nodes agree that a task can run.             *)
(*                                                                         *)
(* Each node has one ready-processor thread                                *)
(* (MpcP2pTaskReadyProcessor::processReadyTask) that pops the committed    *)
(* tasks in order and calls the other node synchronously: invite when this *)
(* node is the task's invitor (alice), notify when it is the invitee       *)
(* (bob).  The call runs NodeChannelSessionImpl::invite2 or notify2 in a   *)
(* thread of the other node's server.  Thread and handlers share the       *)
(* dispatcher's tables: the task state, a set of bits (0x01 alice, 0x02    *)
(* bob, here a set of roles; 0x03 is Roles, and no entry is the empty set),*)
(* the working tasks and the request slots.  Whoever sees both bits pushes *)
(* the task to the put queue.  What happens to a task behind the put queue *)
(* is module TaskPipeline; here its computation is over at any time after  *)
(* it left that queue.                                                     *)
(*                                                                         *)
(* One step is one call on a shared table.  A task is committed at most    *)
(* once at a node.                                                         *)
(***************************************************************************)
EXTENDS Naturals, Sequences, FiniteSets, Functions

CONSTANTS
    Node,         \* the two nodes
    Task,         \* task identifiers
    Invitor,      \* Invitor[t]: the node that computes t as alice
    Peerless,     \* the tasks whose node list names no other user
    ProcessorNum, \* getProcessorNum(): the request slots of a node
    MaxFaults     \* bound: how many calls may end in an Ice exception

ASSUME NodeAssumption == \E a, b \in Node : a # b /\ Node = {a, b}
ASSUME InvitorAssumption == Invitor \in [Task -> Node]
ASSUME TaskAssumption == Task # {} /\ Peerless \subseteq Task
ASSUME BoundsAssumption == ProcessorNum \in Nat \ {0} /\ MaxFaults \in Nat

Roles == {"alice", "bob"}

Peer(n) == CHOOSE m \in Node : m # n

Role(n, t) == IF n = Invitor[t] THEN "alice" ELSE "bob"

RpPc == {"pop", "add", "invoke", "wait", "find", "push", "failed", "clear"}

\* A call is made, updates the task state, looks at it and, when it saw both
\* bits, fetches the working task and pushes it.  A call whose request never
\* reached the other node is dropped.
CallSt == {"none", "sent", "updated", "lookup", "push", "done", "dropped"}

VARIABLES
    registered,   \* the nodes whose data provider has registered
    commitQueue,  \* m_commitQueue
    rpPc,         \* where the ready-processor thread is
    rpTask,       \* its local variable task
    rpState,      \* its local variable state
    taskState,    \* m_taskState
    workingTasks, \* m_workingTasks
    requestQueue, \* m_request_queue
    putQueue,     \* m_putQueue
    callSt,       \* callSt[n][t]: the call of n for t, at the other node
    callStatus,   \* the local variable status of that call, then its result
    failedResult, \* the tasks for which a failed result was sent to the chain
    popLog,       \* history: the tasks popped from the commit queue, in order
    pushed,       \* history: the tasks pushed to the put queue
    taken,        \* history: the tasks popped from the put queue
    abandoned,    \* history: the tasks whose call raised or that have no peer
    faults        \* how many calls have ended in an exception

rpVars == <<rpPc, rpTask, rpState>>
callVars == <<callSt, callStatus>>
tableVars == <<taskState, workingTasks, requestQueue>>
logVars == <<popLog, taken, abandoned>>
vars == <<registered, commitQueue, rpVars, tableVars, putQueue, callVars,
          failedResult, popLog, pushed, taken, abandoned, faults>>

TypeOK ==
    /\ registered \subseteq Node
    /\ commitQueue \in [Node -> Seq(Task)]
    /\ rpPc \in [Node -> RpPc]
    /\ rpTask \in [Node -> Task]
    /\ rpState \in [Node -> SUBSET Roles]
    /\ taskState \in [Node -> [Task -> SUBSET Roles]]
    /\ workingTasks \in [Node -> SUBSET Task]
    /\ requestQueue \in [Node -> SUBSET Task]
    /\ putQueue \in [Node -> Seq(Task)]
    /\ callSt \in [Node -> [Task -> CallSt]]
    /\ callStatus \in [Node -> [Task -> SUBSET Roles]]
    /\ failedResult \subseteq Task
    /\ popLog \in [Node -> Seq(Task)]
    /\ pushed \in [Node -> SUBSET Task]
    /\ taken \in [Node -> SUBSET Task]
    /\ abandoned \in [Node -> SUBSET Task]
    /\ faults \in 0 .. MaxFaults

Init ==
    /\ registered = {}
    /\ commitQueue = [n \in Node |-> << >>]
    /\ rpPc = [n \in Node |-> "pop"]
    /\ rpTask = [n \in Node |-> CHOOSE t \in Task : TRUE]
    /\ rpState = [n \in Node |-> {}]
    /\ taskState = [n \in Node |-> [t \in Task |-> {}]]
    /\ workingTasks = [n \in Node |-> {}]
    /\ requestQueue = [n \in Node |-> {}]
    /\ putQueue = [n \in Node |-> << >>]
    /\ callSt = [n \in Node |-> [t \in Task |-> "none"]]
    /\ callStatus = [n \in Node |-> [t \in Task |-> {}]]
    /\ failedResult = {}
    /\ popLog = [n \in Node |-> << >>]
    /\ pushed = [n \in Node |-> {}]
    /\ taken = [n \in Node |-> {}]
    /\ abandoned = [n \in Node |-> {}]
    /\ faults = 0

-----------------------------------------------------------------------------
(* The dispatcher's operations that thread and handlers share.             *)

\* Mutant: a third bit is kept in the state.
UpdateTaskStateThirdBit(n, t, bits) ==
    taskState' = [taskState EXCEPT ![n][t] = @ \cup bits \cup {"other"}]

UpdateTaskState(n, t, bits) ==
    taskState' = [taskState EXCEPT ![n][t] = @ \cup bits]

\* findTaskState leaves its result argument alone when there is no entry.
FoundState(n, t, local) ==
    IF taskState[n][t] = {} THEN local ELSE taskState[n][t]

PushPutTask(n, t) ==
    /\ putQueue' = [putQueue EXCEPT ![n] = Append(@, t)]
    /\ pushed' = [pushed EXCEPT ![n] = @ \cup {t}]

-----------------------------------------------------------------------------
(* The data provider of node n.                                            *)

Register(n) ==
    /\ n \notin registered
    /\ registered' = registered \cup {n}
    /\ UNCHANGED <<commitQueue, rpVars, tableVars, putQueue, callVars,
                   failedResult, logVars, pushed, faults>>

\* commit also or-s 0 into the task state, which adds no bit.
Commit(n, t) ==
    /\ t \notin Range(commitQueue[n]) \cup Range(popLog[n])
    /\ commitQueue' = [commitQueue EXCEPT ![n] = Append(@, t)]
    /\ UNCHANGED <<registered, rpVars, tableVars, putQueue, callVars,
                   failedResult, logVars, pushed, faults>>

-----------------------------------------------------------------------------
(* The ready-processor thread of node n.                                   *)

\* Mutant: the popped task is not put among the working tasks.
PopCommitTaskNotWorking(n) ==
    /\ rpPc[n] = "pop"
    /\ n \in registered
    /\ commitQueue[n] # << >>
    /\ LET t == Head(commitQueue[n]) IN
       /\ rpTask' = [rpTask EXCEPT ![n] = t]
       /\ popLog' = [popLog EXCEPT ![n] = Append(@, t)]
    /\ commitQueue' = [commitQueue EXCEPT ![n] = Tail(@)]
    /\ rpPc' = [rpPc EXCEPT ![n] = "add"]
    /\ UNCHANGED <<registered, rpState, tableVars, putQueue, callVars,
                   failedResult, pushed, taken, abandoned, faults>>

PopCommitTask(n) ==
    /\ rpPc[n] = "pop"
    /\ n \in registered
    /\ commitQueue[n] # << >>
    /\ LET t == Head(commitQueue[n]) IN
       /\ rpTask' = [rpTask EXCEPT ![n] = t]
       /\ workingTasks' = [workingTasks EXCEPT ![n] = @ \cup {t}]
       /\ popLog' = [popLog EXCEPT ![n] = Append(@, t)]
    /\ commitQueue' = [commitQueue EXCEPT ![n] = Tail(@)]
    /\ rpPc' = [rpPc EXCEPT ![n] = "add"]
    /\ UNCHANGED <<registered, rpState, taskState, requestQueue, putQueue,
                   callVars, failedResult, pushed, taken, abandoned, faults>>

\* Mutant: one slot too many.
AddRequestOneMore(n) ==
    /\ rpPc[n] = "add"
    /\ Cardinality(requestQueue[n]) <= ProcessorNum
    /\ requestQueue' = [requestQueue EXCEPT ![n] = @ \cup {rpTask[n]}]
    /\ rpPc' = [rpPc EXCEPT ![n] = "invoke"]
    /\ UNCHANGED <<registered, commitQueue, rpTask, rpState, taskState,
                   workingTasks, putQueue, callVars, failedResult, logVars,
                   pushed, faults>>

\* Mutant: the last slot is never given out.
AddRequestOneLess(n) ==
    /\ rpPc[n] = "add"
    /\ Cardinality(requestQueue[n]) + 1 < ProcessorNum
    /\ requestQueue' = [requestQueue EXCEPT ![n] = @ \cup {rpTask[n]}]
    /\ rpPc' = [rpPc EXCEPT ![n] = "invoke"]
    /\ UNCHANGED <<registered, commitQueue, rpTask, rpState, taskState,
                   workingTasks, putQueue, callVars, failedResult, logVars,
                   pushed, faults>>

AddRequest(n) ==
    /\ rpPc[n] = "add"
    /\ Cardinality(requestQueue[n]) < ProcessorNum
    /\ requestQueue' = [requestQueue EXCEPT ![n] = @ \cup {rpTask[n]}]
    /\ rpPc' = [rpPc EXCEPT ![n] = "invoke"]
    /\ UNCHANGED <<registered, commitQueue, rpTask, rpState, taskState,
                   workingTasks, putQueue, callVars, failedResult, logVars,
                   pushed, faults>>

\* No user but this one in the node list: the thread returns at once, and the
\* slot and the working task stay.
PeerNotFound(n) ==
    /\ rpPc[n] = "invoke"
    /\ rpTask[n] \in Peerless
    /\ abandoned' = [abandoned EXCEPT ![n] = @ \cup {rpTask[n]}]
    /\ rpPc' = [rpPc EXCEPT ![n] = "pop"]
    /\ UNCHANGED <<registered, commitQueue, rpTask, rpState, tableVars,
                   putQueue, callVars, failedResult, popLog, pushed, taken,
                   faults>>

\* Mutant: the own bit is set before the call instead of after it.
InvokeBitFirst(n) ==
    /\ rpPc[n] = "invoke"
    /\ rpTask[n] \notin Peerless
    /\ callSt' = [callSt EXCEPT ![n][rpTask[n]] = "sent"]
    /\ UpdateTaskState(n, rpTask[n], {Role(n, rpTask[n])})
    /\ rpPc' = [rpPc EXCEPT ![n] = "wait"]
    /\ UNCHANGED <<registered, commitQueue, rpTask, rpState, workingTasks,
                   requestQueue, putQueue, callStatus, failedResult, logVars,
                   pushed, faults>>

Invoke(n) ==
    /\ rpPc[n] = "invoke"
    /\ rpTask[n] \notin Peerless
    /\ callSt' = [callSt EXCEPT ![n][rpTask[n]] = "sent"]
    /\ rpPc' = [rpPc EXCEPT ![n] = "wait"]
    /\ UNCHANGED <<registered, commitQueue, rpTask, rpState, tableVars,
                   putQueue, callStatus, failedResult, logVars, pushed, faults>>

\* The call returned: own bit and returned status are or-ed into the state.
MergeReply(n) ==
    /\ rpPc[n] = "wait"
    /\ callSt[n][rpTask[n]] = "done"
    /\ LET t == rpTask[n]
           bits == {Role(n, t)} \cup callStatus[n][t] IN
       /\ rpState' = [rpState EXCEPT ![n] = bits]
       /\ UpdateTaskState(n, t, bits)
    /\ rpPc' = [rpPc EXCEPT ![n] = "find"]
    /\ UNCHANGED <<registered, commitQueue, rpTask, workingTasks, requestQueue,
                   putQueue, callVars, failedResult, logVars, pushed, faults>>

\* Mutant: the thread trusts the reply and does not read the state again.
FindStateLocal(n) ==
    /\ rpPc[n] = "find"
    /\ rpPc' = [rpPc EXCEPT ![n] = IF rpState[n] = Roles THEN "push" ELSE "pop"]
    /\ rpState' = [rpState EXCEPT ![n] = {}]
    /\ UNCHANGED <<registered, commitQueue, rpTask, tableVars, putQueue,
                   callVars, failedResult, logVars, pushed, faults>>

\* The local state has no reader after this comparison.
FindState(n) ==
    /\ rpPc[n] = "find"
    /\ LET found == FoundState(n, rpTask[n], rpState[n]) IN
       rpPc' = [rpPc EXCEPT ![n] = IF found = Roles THEN "push" ELSE "pop"]
    /\ rpState' = [rpState EXCEPT ![n] = {}]
    /\ UNCHANGED <<registered, commitQueue, rpTask, tableVars, putQueue,
                   callVars, failedResult, logVars, pushed, faults>>

PushReady(n) ==
    /\ rpPc[n] = "push"
    /\ PushPutTask(n, rpTask[n])
    /\ rpPc' = [rpPc EXCEPT ![n] = "pop"]
    /\ UNCHANGED <<registered, commitQueue, rpTask, rpState, tableVars,
                   callVars, failedResult, logVars, faults>>

\* The call raised an Ice exception: refused, or the connection was lost
\* before, while or after the other node handled the request.
CallException(n) ==
    /\ rpPc[n] = "wait"
    /\ faults < MaxFaults
    /\ LET t == rpTask[n] IN
       /\ \/ callSt[n][t] = "sent" /\ callSt' = [callSt EXCEPT ![n][t] = "dropped"]
          \/ UNCHANGED callSt
       /\ abandoned' = [abandoned EXCEPT ![n] = @ \cup {t}]
    /\ faults' = faults + 1
    /\ rpPc' = [rpPc EXCEPT ![n] = "failed"]
    /\ UNCHANGED <<registered, commitQueue, rpTask, rpState, tableVars,
                   putQueue, callStatus, failedResult, popLog, pushed, taken>>

\* The handling of the exception: bob reports the failure, the task state goes,
\* then the working task.  The call that would free the slot is commented out.
FailState(n) ==
    /\ rpPc[n] = "failed"
    /\ LET t == rpTask[n] IN
       /\ failedResult' = IF Role(n, t) = "bob" THEN failedResult \cup {t}
                                                ELSE failedResult
       /\ taskState' = [taskState EXCEPT ![n][t] = {}]
    /\ rpPc' = [rpPc EXCEPT ![n] = "clear"]
    /\ UNCHANGED <<registered, commitQueue, rpTask, rpState, workingTasks,
                   requestQueue, putQueue, callVars, logVars, pushed, faults>>

FailWorking(n) ==
    /\ rpPc[n] = "clear"
    /\ workingTasks' = [workingTasks EXCEPT ![n] = @ \ {rpTask[n]}]
    /\ rpPc' = [rpPc EXCEPT ![n] = "pop"]
    /\ UNCHANGED <<registered, commitQueue, rpTask, rpState, taskState,
                   requestQueue, putQueue, callVars, failedResult, logVars,
                   pushed, faults>>

ReadyProcessor(n) ==
    \/ PopCommitTask(n) \/ AddRequest(n) \/ PeerNotFound(n) \/ Invoke(n)
    \/ MergeReply(n) \/ FindState(n) \/ PushReady(n)
    \/ FailState(n) \/ FailWorking(n)

-----------------------------------------------------------------------------
(* invite2 and notify2: the call of node n for t, run by the other node.   *)

\* Mutant: invite2 and notify2 have their codes swapped.
HandleUpdateSwapped(n, t) ==
    /\ callSt[n][t] = "sent"
    /\ UpdateTaskState(Peer(n), t, {Role(Peer(n), t)})
    /\ callStatus' = [callStatus EXCEPT ![n][t] = {Role(Peer(n), t)}]
    /\ callSt' = [callSt EXCEPT ![n][t] = "updated"]
    /\ UNCHANGED <<registered, commitQueue, rpVars, workingTasks, requestQueue,
                   putQueue, failedResult, logVars, pushed, faults>>

HandleUpdate(n, t) ==
    /\ callSt[n][t] = "sent"
    /\ UpdateTaskState(Peer(n), t, {Role(n, t)})
    /\ callStatus' = [callStatus EXCEPT ![n][t] = {Role(n, t)}]
    /\ callSt' = [callSt EXCEPT ![n][t] = "updated"]
    /\ UNCHANGED <<registered, commitQueue, rpVars, workingTasks, requestQueue,
                   putQueue, failedResult, logVars, pushed, faults>>

\* Mutant: any state that was found will do.
HandleFindAny(n, t) ==
    /\ callSt[n][t] = "updated"
    /\ callStatus' = [callStatus EXCEPT ![n][t] = FoundState(Peer(n), t, @)]
    /\ callSt' = [callSt EXCEPT ![n][t] = "lookup"]
    /\ UNCHANGED <<registered, commitQueue, rpVars, tableVars, putQueue,
                   failedResult, logVars, pushed, faults>>

HandleFind(n, t) ==
    /\ callSt[n][t] = "updated"
    /\ LET found == FoundState(Peer(n), t, callStatus[n][t]) IN
       /\ callStatus' = [callStatus EXCEPT ![n][t] = found]
       /\ callSt' = [callSt EXCEPT ![n][t] =
                       IF found = Roles THEN "lookup" ELSE "done"]
    /\ UNCHANGED <<registered, commitQueue, rpVars, tableVars, putQueue,
                   failedResult, logVars, pushed, faults>>

HandleLookup(n, t) ==
    /\ callSt[n][t] = "lookup"
    /\ callSt' = [callSt EXCEPT ![n][t] =
                    IF t \in workingTasks[Peer(n)] THEN "push" ELSE "done"]
    /\ UNCHANGED <<registered, commitQueue, rpVars, tableVars, putQueue,
                   callStatus, failedResult, logVars, pushed, faults>>

HandlePush(n, t) ==
    /\ callSt[n][t] = "push"
    /\ PushPutTask(Peer(n), t)
    /\ callSt' = [callSt EXCEPT ![n][t] = "done"]
    /\ UNCHANGED <<registered, commitQueue, rpVars, tableVars, callStatus,
                   failedResult, logVars, faults>>

Handler(n, t) ==
    HandleUpdate(n, t) \/ HandleFind(n, t) \/ HandleLookup(n, t) \/ HandlePush(n, t)

-----------------------------------------------------------------------------
(* The threads behind the put queue, as far as the handshake sees them:    *)
(* at any time after a task left the queue its task state and its slot     *)
(* are removed, and its working task once the slot is.                     *)

TakePutTask(n) ==
    /\ putQueue[n] # << >>
    /\ putQueue' = [putQueue EXCEPT ![n] = Tail(@)]
    /\ taken' = [taken EXCEPT ![n] = @ \cup {Head(putQueue[n])}]
    /\ UNCHANGED <<registered, commitQueue, rpVars, tableVars, callVars,
                   failedResult, popLog, pushed, abandoned, faults>>

RemoveTaskState(n, t) ==
    /\ t \in taken[n]
    /\ taskState' = [taskState EXCEPT ![n][t] = {}]
    /\ UNCHANGED <<registered, commitQueue, rpVars, workingTasks, requestQueue,
                   putQueue, callVars, failedResult, logVars, pushed, faults>>

RemoveRequest(n, t) ==
    /\ t \in taken[n]
    /\ requestQueue[n] # {}
    /\ requestQueue' = [requestQueue EXCEPT ![n] = @ \ {t}]
    /\ UNCHANGED <<registered, commitQueue, rpVars, taskState, workingTasks,
                   putQueue, callVars, failedResult, logVars, pushed, faults>>

RemoveWorkingTask(n, t) ==
    /\ t \in taken[n] \ requestQueue[n]
    /\ workingTasks' = [workingTasks EXCEPT ![n] = @ \ {t}]
    /\ UNCHANGED <<registered, commitQueue, rpVars, taskState, requestQueue,
                   putQueue, callVars, failedResult, logVars, pushed, faults>>

Downstream(n, t) ==
    RemoveTaskState(n, t) \/ RemoveRequest(n, t) \/ RemoveWorkingTask(n, t)

-----------------------------------------------------------------------------

Next ==
    \E n \in Node :
        \/ Register(n)
        \/ ReadyProcessor(n)
        \/ CallException(n)
        \/ TakePutTask(n)
        \/ \E t \in Task : Commit(n, t) \/ Handler(n, t) \/ Downstream(n, t)

Spec == Init /\ [][Next]_vars

(***************************************************************************)
(* The thread or a server goes on as long as one of them can.  The last    *)
(* two disjuncts are the handshake's assumption on what is behind it: a    *)
(* pushed task is taken, and a taken task gives its slot back.             *)
(***************************************************************************)
System ==
    \E n \in Node :
        \/ ReadyProcessor(n)
        \/ TakePutTask(n)
        \/ \E t \in Task : Handler(n, t) \/ RemoveRequest(n, t)

Fairness == WF_vars(System)

FairSpec == Spec /\ Fairness

-----------------------------------------------------------------------------
(* Correctness.                                                            *)

Rendezvous == INSTANCE TaskRendezvous
                  WITH joined <- popLog, ready <- pushed, gone <- abandoned

Popped(n) == Range(popLog[n])

\* The request of n for t has reached the other node's task state.
Received(n, t) == callSt[n][t] \in {"updated", "lookup", "push", "done"}

\* The thread of n has or-ed the reply for t into the task state.
Merged(n, t) ==
    /\ t \in Popped(n) \ abandoned[n]
    /\ ~(rpTask[n] = t /\ rpPc[n] \in {"add", "invoke", "wait"})

\* The thread of n is done with t and did not give it up.
Settled(n, t) ==
    /\ Merged(n, t)
    /\ ~(rpTask[n] = t /\ rpPc[n] \in {"find", "push"})

\* A node pushes a task only after each node's call for it has been handled by
\* the other: neither bit of the state is there without its call.
Agreement ==
    \A n \in Node : \A t \in pushed[n] : \A m \in Node : Received(m, t)

\* The race of the thread that merges the reply with the handler of the peer's
\* call never makes both miss the complete state: once both are through with a
\* task, one of them has pushed it.
NoLostReady ==
    \A n \in Node, t \in Task :
        Settled(n, t) /\ callSt[Peer(n)][t] = "done" => t \in pushed[n]

\* A node never runs a task it gave up, and a task whose failure bob reported to
\* the chain is never run by bob, whatever the handler of a late call sees.
AbandonedNeverRuns ==
    /\ \A n \in Node : pushed[n] \cap abandoned[n] = {}
    /\ \A t \in failedResult : \A n \in Node :
           Role(n, t) = "bob" => t \in abandoned[n] \ pushed[n]

\* Tasks that both nodes popped in the same order, and neither gave up, are
\* pushed in that order at each node, though thread and handlers push them.
NoOvertaking ==
    \A n \in Node : \A t \in pushed[n], u \in Task :
        Rendezvous!Precedes(u, t) => u \in pushed[n]

\* The slots throttle the node: the tasks invited and not yet out of the put
\* queue, given up ones included, are at most the processors.
InFlight(n) ==
    {t \in Popped(n) \ taken[n] : ~(rpTask[n] = t /\ rpPc[n] = "add")}

InFlightBounded == \A n \in Node : Cardinality(InFlight(n)) <= ProcessorNum

\* The handshake is a rendezvous: it implements the abstract specification with
\* the popped tasks as joined, the pushed as ready, the abandoned as gone.
RendezvousSpec == Rendezvous!Spec

\* What the nodes were asked to do, in order.
Committed(n) == popLog[n] \o commitQueue[n]

SameOrder ==
    \A m, n \in Node :
        LET s == Committed(m)
            r == Committed(n) IN
        Len(s) <= Len(r) => SubSeq(r, 1, Len(s)) = s

\* The tasks that some node gave up, each of which keeps its slot.
GivenUp == UNION {abandoned[n] : n \in Node}

\* Both nodes have pushed every task committed at both registered nodes and given up
\* at neither.
AllPushed ==
    registered = Node =>
        \A t \in Task \ GivenUp : (\A m \in Node : t \in Range(Committed(m)))
                                      => \A n \in Node : t \in pushed[n]

\* Again and again both nodes have pushed every task committed at both registered
\* nodes, as long as they get their tasks in the same order and a slot is left after
\* those given up: a node's slots never keep the other node's task waiting for ever.
CommittedIsPushed ==
    [](SameOrder /\ Cardinality(GivenUp) < ProcessorNum) => []<>AllPushed

\* The thread of n waits for a task, for a slot or for the answer to its call.
ThreadWaits(n) ==
    \/ rpPc[n] = "pop" /\ (n \notin registered \/ commitQueue[n] = << >>)
    \/ rpPc[n] = "add" /\ Cardinality(requestQueue[n]) >= ProcessorNum
    \/ rpPc[n] = "wait" /\ callSt[n][rpTask[n]] # "done"

\* No call of n is being handled.
Unserved(n) ==
    \A t \in Task : callSt[n][t] \notin {"sent", "updated", "lookup", "push"}

\* Nothing goes on: threads wait, servers are idle, and no slot will be given back.
Quiet ==
    \A n \in Node :
        /\ ThreadWaits(n) /\ Unserved(n)
        /\ putQueue[n] = << >>
        /\ taken[n] \cap requestQueue[n] = {}

\* The handshake has no deadlock: when all wait, it is because both nodes have pushed
\* what both were asked to do, if the nodes get their tasks in the same order.  A call
\* that raised or a task without a peer costs one slot and no more: as long as fewer
\* tasks than slots are given up, the others go through at both nodes.
NoDeadlock ==
    Quiet /\ SameOrder /\ Cardinality(GivenUp) < ProcessorNum => AllPushed
=============================================================================
