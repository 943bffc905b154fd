------------------------------- MODULE NodePair -------------------------------
(***************************************************************************)
(* The two nodes of a computation: their handshake (TaskHandshake)         *)
(* together with what each does behind its put queue - the monitor thread, *)
(* the ready queue and the processor thread of each role.                  *)
(*                                                                         *)
(* A computation is two-party: the run of a task at one node ends when the *)
(* other node runs it too, or when it fails.  Nodes whose processors wait  *)
(* for each other with different tasks stay so for ever, which is what the *)
(* order of the handshake is there to prevent.  Input, result and nonces   *)
(* of a run are module TaskPipeline, its buffers module BufferChannel.     *)
(***************************************************************************)
EXTENDS TaskHandshake

CONSTANT Breaking  \* bound: the tasks whose run may fail without the other node

ASSUME BreakingAssumption == Breaking \subseteq Task

ProcPc == {"fetch", "run", "state", "slot", "working"}

VARIABLES
    monTask,    \* the monitor's task: none or one
    readyQueue, \* m_readyQueue (alice) and m_inviteeReadyQueue (bob)
    procPc,     \* where the processor of a role is
    procTask,   \* its m_task: none or one
    begun,      \* history: the tasks whose run began at a node
    ended,      \* history: the tasks a node is done with
    broken,     \* history: the tasks whose run failed
    repushed    \* history: the nodes that pushed a task twice

pipeVars == <<monTask, readyQueue, procPc, procTask, begun, ended, broken>>
pairVars == <<vars, pipeVars, repushed>>

PairTypeOK ==
    /\ TypeOK
    /\ monTask \in [Node -> SUBSET Task]
    /\ readyQueue \in [Node -> [Roles -> Seq(Task)]]
    /\ procPc \in [Node -> [Roles -> ProcPc]]
    /\ procTask \in [Node -> [Roles -> SUBSET Task]]
    /\ begun \in [Node -> SUBSET Task]
    /\ ended \in [Node -> SUBSET Task]
    /\ broken \subseteq Task
    /\ repushed \subseteq Node

PairInit ==
    /\ Init
    /\ monTask = [n \in Node |-> {}]
    /\ readyQueue = [n \in Node |-> [r \in Roles |-> << >>]]
    /\ procPc = [n \in Node |-> [r \in Roles |-> "fetch"]]
    /\ procTask = [n \in Node |-> [r \in Roles |-> {}]]
    /\ begun = [n \in Node |-> {}]
    /\ ended = [n \in Node |-> {}]
    /\ broken = {}
    /\ repushed = {}

-----------------------------------------------------------------------------
(* The handshake: every step of TaskHandshake but those that stood for     *)
(* what is behind the put queue.                                           *)

Notice ==
    repushed' = repushed \cup
        {n \in Node : putQueue'[n] # putQueue[n] /\ pushed'[n] = pushed[n]}

Local(n) ==
    /\ Register(n) \/ CallException(n) \/ \E t \in Task : Commit(n, t)
    /\ UNCHANGED <<pipeVars, repushed>>

Thread(n) == ReadyProcessor(n) /\ Notice /\ UNCHANGED pipeVars

Serve(n, t) == Handler(n, t) /\ Notice /\ UNCHANGED pipeVars

-----------------------------------------------------------------------------
(* The monitor thread of node n.                                           *)

\* ReadyLimit: m_mpcProcessors.size() / 2, where there are two processors.
ReadyLimit == 1

\* Mutant: the newest task of the put queue comes first.
PopPutTaskNewest(n) ==
    /\ monTask[n] = {}
    /\ putQueue[n] # << >>
    /\ LET t == putQueue[n][Len(putQueue[n])] IN
       /\ putQueue' = [putQueue EXCEPT ![n] = SubSeq(@, 1, Len(@) - 1)]
       /\ taken' = [taken EXCEPT ![n] = @ \cup {t}]
       /\ monTask' = [monTask EXCEPT ![n] = {t}]
    /\ UNCHANGED <<registered, commitQueue, rpVars, tableVars, callVars,
                   failedResult, popLog, pushed, abandoned, faults, readyQueue,
                   procPc, procTask, begun, ended, broken, repushed>>

PopPutTask(n) ==
    /\ monTask[n] = {}
    /\ TakePutTask(n)
    /\ monTask' = [monTask EXCEPT ![n] = {Head(putQueue[n])}]
    /\ UNCHANGED <<readyQueue, procPc, procTask, begun, ended, broken, repushed>>

PutReadyTask(n) ==
    \E t \in monTask[n] :
        /\ Len(readyQueue[n][Role(n, t)]) < ReadyLimit
        /\ readyQueue' = [readyQueue EXCEPT ![n][Role(n, t)] = Append(@, t)]
        /\ monTask' = [monTask EXCEPT ![n] = {}]
        /\ UNCHANGED <<vars, procPc, procTask, begun, ended, broken, repushed>>

Monitor(n) == PopPutTask(n) \/ PutReadyTask(n)

-----------------------------------------------------------------------------
(* The processor of role r at node n.                                      *)

FetchTask(n, r) ==
    /\ procPc[n][r] = "fetch"
    /\ readyQueue[n][r] # << >>
    /\ LET t == Head(readyQueue[n][r]) IN
       /\ procTask' = [procTask EXCEPT ![n][r] = {t}]
       /\ begun' = [begun EXCEPT ![n] = @ \cup {t}]
    /\ readyQueue' = [readyQueue EXCEPT ![n][r] = Tail(@)]
    /\ procPc' = [procPc EXCEPT ![n][r] = "run"]
    /\ UNCHANGED <<vars, monTask, ended, broken, repushed>>

\* A second run of a task finds the other node's run over, and nobody answers.
EndRun(n, r) ==
    /\ procPc[n][r] = "run"
    /\ procTask[n][r] \subseteq begun[Peer(n)] \ ended[n]
    /\ procPc' = [procPc EXCEPT ![n][r] = "state"]
    /\ UNCHANGED <<vars, monTask, readyQueue, procTask, begun, ended, broken, repushed>>

FailRun(n, r) ==
    /\ procPc[n][r] = "run"
    /\ procTask[n][r] \subseteq Breaking
    /\ procPc' = [procPc EXCEPT ![n][r] = "state"]
    /\ broken' = broken \cup procTask[n][r]
    /\ UNCHANGED <<vars, monTask, readyQueue, procTask, begun, ended, repushed>>

ClearTaskState(n, r) ==
    /\ procPc[n][r] = "state"
    /\ \E t \in procTask[n][r] : RemoveTaskState(n, t)
    /\ procPc' = [procPc EXCEPT ![n][r] = "slot"]
    /\ UNCHANGED <<monTask, readyQueue, procTask, begun, ended, broken, repushed>>

ClearRequest(n, r) ==
    /\ procPc[n][r] = "slot"
    /\ \E t \in procTask[n][r] : RemoveRequest(n, t)
    /\ procPc' = [procPc EXCEPT ![n][r] = "working"]
    /\ UNCHANGED <<monTask, readyQueue, procTask, begun, ended, broken, repushed>>

ClearWorkingTask(n, r) ==
    /\ procPc[n][r] = "working"
    /\ \E t \in procTask[n][r] : RemoveWorkingTask(n, t)
    /\ ended' = [ended EXCEPT ![n] = @ \cup procTask[n][r]]
    /\ procPc' = [procPc EXCEPT ![n][r] = "fetch"]
    /\ UNCHANGED <<monTask, readyQueue, procTask, begun, broken, repushed>>

Processor(n, r) ==
    \/ FetchTask(n, r) \/ EndRun(n, r)
    \/ ClearTaskState(n, r) \/ ClearRequest(n, r) \/ ClearWorkingTask(n, r)

-----------------------------------------------------------------------------

PairSystem ==
    \E n \in Node :
        \/ Thread(n) \/ \E t \in Task : Serve(n, t)
        \/ Monitor(n)
        \/ \E r \in Roles : Processor(n, r)

PairNext ==
    \/ PairSystem
    \/ \E n \in Node : Local(n) \/ \E r \in Roles : FailRun(n, r)

PairSpec == PairInit /\ [][PairNext]_pairVars

\* A thread, a server or a computation both parties run goes on as long as one of
\* them can.  Commits and registrations only add to what can go on, so each of
\* them being fair implies this; it is enough, as no step is ever undone.
PairFairness == WF_pairVars(PairSystem)

FairPairSpec == PairSpec /\ PairFairness

-----------------------------------------------------------------------------
(* Correctness.                                                            *)

\* What TaskHandshake says of the threads behind the put queue is what they do:
\* the pair implements the handshake, so its properties hold of the pair.
HandshakeSpec == Spec

\* Node n runs t, and the other node has not begun it.
WaitsWith(n, t) ==
    /\ \E r \in Roles : procPc[n][r] = "run" /\ t \in procTask[n][r]
    /\ t \notin begun[Peer(n)]

\* The processors of a task's two roles never wait for each other with different
\* tasks, if the nodes got their tasks in the same order and gave none up.
NoCrossWait ==
    SameOrder /\ (\A n \in Node : abandoned[n] = {}) =>
        \A n \in Node, t, u \in Task :
            Invitor[t] = Invitor[u] /\ WaitsWith(n, t) /\ WaitsWith(Peer(n), u) => t = u

\* Both nodes are done with every task committed at both registered nodes.
AllEnded ==
    registered = Node =>
        \A t \in Task : (\A m \in Node : t \in Range(Committed(m)))
                            => \A n \in Node : t \in ended[n]

\* End to end: again and again both nodes are done with every task committed at both
\* registered nodes, if the nodes get their tasks in the same order, no call
\* raises, no run fails and no task is pushed twice.
CommittedIsEnded ==
    [](SameOrder /\ faults = 0 /\ broken = {} /\ repushed = {}) => []<>AllEnded

\* The monitor waits for a task, or for the one place of a ready queue.
MonitorWaits(n) ==
    \/ monTask[n] = {} /\ putQueue[n] = << >>
    \/ \E t \in monTask[n] : Len(readyQueue[n][Role(n, t)]) >= ReadyLimit

\* A processor waits for a task, for the other party of its run, or in removeRequest
\* because no slot is taken.
ProcessorWaits(n, r) ==
    \/ procPc[n][r] = "fetch" /\ readyQueue[n][r] = << >>
    \/ procPc[n][r] = "run" /\ ~(procTask[n][r] \subseteq begun[Peer(n)] \ ended[n])
    \/ procPc[n][r] = "slot" /\ requestQueue[n] = {}

\* Nothing goes on: every thread of both nodes waits and the servers are idle.
PairQuiet ==
    \A n \in Node :
        /\ ThreadWaits(n) /\ Unserved(n) /\ MonitorWaits(n)
        /\ \A r \in Roles : ProcessorWaits(n, r)

\* The two nodes have no deadlock: when every thread of both waits, both are done with
\* what both were asked to do, if the nodes get their tasks in the same order, give
\* none up and push none twice, and no run fails.  No circle of waits goes through
\* slots, monitors, ready queues and the runs that need both nodes.
PairNoDeadlock ==
    /\ PairQuiet /\ SameOrder
    /\ \A n \in Node : abandoned[n] = {}
    /\ broken = {} /\ repushed = {}
    => AllEnded
=============================================================================
