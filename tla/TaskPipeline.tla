----------------------------- MODULE TaskPipeline -----------------------------
(***************************************************************************)
(* What a node does with the tasks its handshake pushes.                   *)
(*                                                                         *)
(* The monitor thread (MPCPutReadyMonitor) moves tasks one by one from the *)
(* put queue to the ready queue of the role the node plays in them, and    *)
(* waits while that queue is full.  Each role has one processor thread     *)
(* (MpcTaskProcessor): it fetches a task, gets the data provider's         *)
(* callbacks and input, runs the computation and, as bob, sends the result *)
(* to the chain in a transaction the data provider signs, or reports that  *)
(* the task failed; then it gives the task's request slot back.            *)
(*                                                                         *)
(* The handshake is TaskHandshake; here a task is admitted when a slot is  *)
(* free and pushed once, or twice when thread and handler both saw the     *)
(* complete state.  A computation may also go on for ever.                 *)
(***************************************************************************)
EXTENDS Naturals, Sequences, FiniteSets, Functions

CONSTANTS
    Task,     \* task identifiers
    Invited,  \* the tasks in which this node is bob; it is alice in the others
    Twice,    \* the tasks that thread and handler may both push
    MaxOther  \* bound: the other transactions of the node's account

ASSUME PipelineAssumption ==
    /\ Task # {} /\ Invited \subseteq Task
    /\ MaxOther \in Nat

Roles == {"alice", "bob"}

Role(t) == IF t \in Invited THEN "bob" ELSE "alice"

\* m_mpcProcessors.size(): the dispatcher makes one processor for each role.
ProcessorNum == 2

\* How many tasks fit into a ready queue.
ReadyLimit == ProcessorNum \div 2

\* The thread of a task's call and the handler of the peer's may each push it.
MaxPush == 2

ProcPc == {"fetch", "input", "run", "nonce", "sign", "send", "report", "clear"}

VARIABLES
    requestQueue, \* m_request_queue
    pushes,       \* pushes[t]: how often t was pushed
    putQueue,     \* m_putQueue
    monTask,      \* the monitor's task: none or one
    readyQueue,   \* m_readyQueue (alice) and m_inviteeReadyQueue (bob)
    pc,           \* where the processor of a role is
    task,         \* its m_task: none or one
    nonce,        \* the nonce of bob's transaction
    userNonce,    \* the node's entry of UserNonce: none or one
    used,         \* external: the account's nonces the chain knows
    other,        \* how many of them are not of this node
    accepted,     \* the tasks whose result transaction the chain accepted
    failed,       \* the tasks for which setFailedResult was called
    pushLog,      \* history: the tasks of a role in the order they were pushed
    startLog,     \* history: the tasks a processor fetched, in order
    ended,        \* history: the tasks a processor is done with
    answerLost,   \* history: the tasks accepted without an answer
    countFailed,  \* history: did getTransactionCount ever fail?
    unsent        \* history: the nonces of the transactions the chain did not take

chainVars == <<nonce, userNonce, used, other, accepted, failed, answerLost,
               countFailed, unsent>>
queueVars == <<requestQueue, pushes, putQueue, monTask, readyQueue, pushLog>>
procVars == <<pc, task, startLog, ended>>
vars == <<chainVars, queueVars, procVars>>

AtMostOne(S) == \A x, y \in S : x = y

TypeOK ==
    /\ requestQueue \subseteq Task
    /\ pushes \in [Task -> 0 .. MaxPush]
    /\ putQueue \in Seq(Task)
    /\ monTask \subseteq Task /\ AtMostOne(monTask)
    /\ readyQueue \in [Roles -> Seq(Task)]
    /\ pc \in [Roles -> ProcPc]
    /\ task \in [Roles -> SUBSET Task] /\ \A r \in Roles : AtMostOne(task[r])
    /\ nonce \in Nat
    /\ userNonce \subseteq Nat /\ AtMostOne(userNonce)
    /\ used \subseteq Nat
    /\ other \in 0 .. MaxOther
    /\ accepted \subseteq Task /\ failed \subseteq Task
    /\ pushLog \in [Roles -> Seq(Task)]
    /\ startLog \in [Roles -> Seq(Task)]
    /\ ended \subseteq Task
    /\ answerLost \subseteq Task
    /\ countFailed \in BOOLEAN
    /\ unsent \subseteq Nat

Init ==
    /\ requestQueue = {}
    /\ pushes = [t \in Task |-> 0]
    /\ putQueue = << >>
    /\ monTask = {}
    /\ readyQueue = [r \in Roles |-> << >>]
    /\ pc = [r \in Roles |-> "fetch"]
    /\ task = [r \in Roles |-> {}]
    /\ nonce = 0
    /\ userNonce = {}
    /\ used = {}
    /\ other = 0
    /\ accepted = {} /\ failed = {}
    /\ pushLog = [r \in Roles |-> << >>]
    /\ startLog = [r \in Roles |-> << >>]
    /\ ended = {}
    /\ answerLost = {}
    /\ countFailed = FALSE
    /\ unsent = {}

-----------------------------------------------------------------------------
(* The handshake, and other users of the account.                          *)

\* Mutant: one slot too many.
AddRequestOneMore(t) ==
    /\ pushes[t] = 0 /\ t \notin requestQueue
    /\ Cardinality(requestQueue) <= ProcessorNum
    /\ requestQueue' = requestQueue \cup {t}
    /\ UNCHANGED <<chainVars, procVars, pushes, putQueue, monTask, readyQueue, pushLog>>

\* A task gets a slot before its handshake, once.
AddRequest(t) ==
    /\ pushes[t] = 0 /\ t \notin requestQueue
    /\ Cardinality(requestQueue) < ProcessorNum
    /\ requestQueue' = requestQueue \cup {t}
    /\ UNCHANGED <<chainVars, procVars, pushes, putQueue, monTask, readyQueue, pushLog>>

\* The second push of a task, if there is one, may come at any time.
PushPutTask(t) ==
    /\ IF pushes[t] = 0 THEN t \in requestQueue ELSE pushes[t] < MaxPush /\ t \in Twice
    /\ pushes' = [pushes EXCEPT ![t] = @ + 1]
    /\ putQueue' = Append(putQueue, t)
    /\ pushLog' = [pushLog EXCEPT ![Role(t)] = Append(@, t)]
    /\ UNCHANGED <<chainVars, procVars, requestQueue, monTask, readyQueue>>

\* The chain's "pending" transaction count of the account.
PendingCount == CHOOSE n \in 0 .. Cardinality(used) :
                    n \notin used /\ \A k \in 0 .. n : k # n => k \in used

OtherTransaction ==
    /\ other < MaxOther
    /\ other' = other + 1
    /\ used' = used \cup {PendingCount}
    /\ UNCHANGED <<queueVars, procVars, nonce, userNonce, accepted, failed,
                   answerLost, countFailed, unsent>>

-----------------------------------------------------------------------------
(* The monitor thread.                                                     *)

\* Mutant: the monitor does not wait for a place for its last task.
PopPutTaskAgain ==
    /\ putQueue # << >>
    /\ monTask' = monTask \cup {Head(putQueue)}
    /\ putQueue' = Tail(putQueue)
    /\ UNCHANGED <<chainVars, procVars, requestQueue, pushes, readyQueue, pushLog>>

\* Mutant: the put queue is a stack.
PopPutTaskNewest ==
    /\ monTask = {}
    /\ putQueue # << >>
    /\ monTask' = {putQueue[Len(putQueue)]}
    /\ putQueue' = SubSeq(putQueue, 1, Len(putQueue) - 1)
    /\ UNCHANGED <<chainVars, procVars, requestQueue, pushes, readyQueue, pushLog>>

PopPutTask ==
    /\ monTask = {}
    /\ putQueue # << >>
    /\ monTask' = {Head(putQueue)}
    /\ putQueue' = Tail(putQueue)
    /\ UNCHANGED <<chainVars, procVars, requestQueue, pushes, readyQueue, pushLog>>

\* Mutant: the last place of a ready queue is never used.
PutReadyTaskOneLess ==
    \E t \in monTask :
        /\ Len(readyQueue[Role(t)]) + 1 < ReadyLimit
        /\ readyQueue' = [readyQueue EXCEPT ![Role(t)] = Append(@, t)]
        /\ monTask' = {}
        /\ UNCHANGED <<chainVars, procVars, requestQueue, pushes, putQueue, pushLog>>

PutReadyTask ==
    \E t \in monTask :
        /\ Len(readyQueue[Role(t)]) < ReadyLimit
        /\ readyQueue' = [readyQueue EXCEPT ![Role(t)] = Append(@, t)]
        /\ monTask' = {}
        /\ UNCHANGED <<chainVars, procVars, requestQueue, pushes, putQueue, pushLog>>

Monitor == PopPutTask \/ PutReadyTask

-----------------------------------------------------------------------------
(* The processor of role r.                                                *)

Goto(r, place) == pc' = [pc EXCEPT ![r] = place]

FetchTask(r) ==
    /\ pc[r] = "fetch"
    /\ readyQueue[r] # << >>
    /\ task' = [task EXCEPT ![r] = {Head(readyQueue[r])}]
    /\ readyQueue' = [readyQueue EXCEPT ![r] = Tail(@)]
    /\ startLog' = [startLog EXCEPT ![r] = Append(@, Head(readyQueue[r]))]
    /\ Goto(r, "input")
    /\ UNCHANGED <<chainVars, requestQueue, pushes, putQueue, monTask, pushLog, ended>>

\* Only bob reports a failure.
Failure(r) == IF r = "bob" THEN "report" ELSE "clear"

\* The data provider's callbacks are there and give the input, or not.
GetInput(r) ==
    /\ pc[r] = "input"
    /\ \/ Goto(r, "run")
       \/ Goto(r, Failure(r))
    /\ UNCHANGED <<chainVars, queueVars, task, startLog, ended>>

\* The computation returns a result, or no result.  Alice is done with it; bob
\* tells it to the data provider, whatever that answers.
RunFunction(r) ==
    /\ pc[r] = "run"
    /\ \/ Goto(r, IF r = "bob" THEN "nonce" ELSE "clear")
       \/ Goto(r, Failure(r))
    /\ UNCHANGED <<chainVars, queueVars, task, startLog, ended>>

\* Mutant: a nonce that was tried is never used again.
NextNonceNeverAgain(count) ==
    IF \E old \in userNonce : old >= count
        THEN (CHOOSE old \in userNonce : TRUE) + 1
        ELSE count

\* When getTransactionCount fails the count is taken to be 0.
NextNonce(count) ==
    IF \E old \in userNonce : old > count
        THEN (CHOOSE old \in userNonce : TRUE) + 1
        ELSE count

\* Mutant: the nonce of the next transaction is remembered.
GetNonceAhead ==
    /\ pc["bob"] = "nonce"
    /\ \E count \in {PendingCount, 0} :
           /\ nonce' = NextNonce(count)
           /\ userNonce' = {NextNonce(count) + 1}
           /\ countFailed' = (countFailed \/ count # PendingCount)
    /\ Goto("bob", "sign")
    /\ UNCHANGED <<queueVars, task, startLog, ended, used, other, accepted, failed,
                   answerLost, unsent>>

GetNonce ==
    /\ pc["bob"] = "nonce"
    /\ \E count \in {PendingCount, 0} :
           /\ nonce' = NextNonce(count)
           /\ userNonce' = {NextNonce(count)}
           /\ countFailed' = (countFailed \/ count # PendingCount)
    /\ Goto("bob", "sign")
    /\ UNCHANGED <<queueVars, task, startLog, ended, used, other, accepted, failed,
                   answerLost, unsent>>

SignTransaction ==
    /\ pc["bob"] = "sign"
    /\ \/ Goto("bob", "send") /\ UNCHANGED unsent
       \/ Goto("bob", "report") /\ unsent' = unsent \cup {nonce}
    /\ UNCHANGED <<queueVars, task, startLog, ended, nonce, userNonce, used, other,
                   accepted, failed, answerLost, countFailed>>

\* Mutant: an empty hash counts as success.
SendRawTransactionIgnored ==
    /\ pc["bob"] = "send"
    /\ \/ /\ nonce \notin used
          /\ used' = used \cup {nonce}
          /\ accepted' = accepted \cup task["bob"]
       \/ UNCHANGED <<used, accepted>>
    /\ Goto("bob", "clear")
    /\ UNCHANGED <<queueVars, task, startLog, ended, nonce, userNonce, other,
                   failed, answerLost, countFailed, unsent>>

\* The chain refuses a nonce it knows.  Refused, not sent, or accepted with the
\* answer lost: sendRawTransaction returns an empty hash.
SendRawTransaction ==
    /\ pc["bob"] = "send"
    /\ \/ /\ nonce \notin used
          /\ used' = used \cup {nonce}
          /\ accepted' = accepted \cup task["bob"]
          /\ \/ Goto("bob", "clear") /\ UNCHANGED answerLost
             \/ Goto("bob", "report") /\ answerLost' = answerLost \cup task["bob"]
          /\ UNCHANGED unsent
       \/ /\ unsent' = unsent \cup {nonce}
          /\ Goto("bob", "report")
          /\ UNCHANGED <<used, accepted, answerLost>>
    /\ UNCHANGED <<queueVars, task, startLog, ended, nonce, userNonce, other,
                   failed, countFailed>>

SetFailedResult ==
    /\ pc["bob"] = "report"
    /\ failed' = failed \cup task["bob"]
    /\ Goto("bob", "clear")
    /\ UNCHANGED <<queueVars, task, startLog, ended, nonce, userNonce, used, other,
                   accepted, answerLost, countFailed, unsent>>

\* Mutant: removeRequest takes all the slots back.
ClearAllSlots(r) ==
    /\ pc[r] = "clear"
    /\ requestQueue # {}
    /\ requestQueue' = {}
    /\ ended' = ended \cup task[r]
    /\ Goto(r, "fetch")
    /\ UNCHANGED <<chainVars, pushes, putQueue, monTask, readyQueue, pushLog, task, startLog>>

\* removeTaskState, removeRequest and removeWorkingTask, of which the second
\* waits while no task holds a slot.  m_task stays.
Clear(r) ==
    /\ pc[r] = "clear"
    /\ requestQueue # {}
    /\ requestQueue' = requestQueue \ task[r]
    /\ ended' = ended \cup task[r]
    /\ Goto(r, "fetch")
    /\ UNCHANGED <<chainVars, pushes, putQueue, monTask, readyQueue, pushLog, task, startLog>>

SendResult == GetNonce \/ SignTransaction \/ SendRawTransaction \/ SetFailedResult

-----------------------------------------------------------------------------

Next ==
    \/ \E t \in Task : AddRequest(t) \/ PushPutTask(t)
    \/ OtherTransaction
    \/ Monitor
    \/ \E r \in Roles : FetchTask(r) \/ GetInput(r) \/ RunFunction(r) \/ Clear(r)
    \/ SendResult

Spec == Init /\ [][Next]_vars

\* The threads run.  Nothing makes a computation return.
Fairness ==
    /\ WF_vars(Monitor)
    /\ WF_vars(SendResult)
    /\ \A r \in Roles : WF_vars(FetchTask(r) \/ GetInput(r) \/ Clear(r))

FairSpec == Spec /\ Fairness

-----------------------------------------------------------------------------
(* Correctness.                                                            *)

\* Through the monitor and the two ready queues the tasks of a role reach their
\* processor in the order in which they were pushed.
StartOrder ==
    \A r \in Roles : \A i \in DOMAIN startLog[r] :
        i \in DOMAIN pushLog[r] /\ startLog[r][i] = pushLog[r][i]

\* The chain gets one verdict on a task that ran: every task bob ended has its
\* result accepted or its failure reported; both only when the answer to the
\* transaction was lost or the task was pushed twice; and alice says nothing.
OneVerdict ==
    /\ ended \cap Invited \subseteq accepted \cup failed
    /\ \A t \in accepted \cap failed : t \in answerLost \/ pushes[t] > 1
    /\ accepted \cup failed \subseteq Invited

\* No result waits behind a hole in the account's nonces, though a nonce is
\* remembered before it is sent and the sending may fail.
NoNonceHole == countFailed \/ \A n \in used : \A k \in 0 .. n : k \in used

\* When the chain does not tell its count the last nonce is trusted, and a hole is
\* left.  Still no nonce is skipped: below a nonce the chain knows each one is known
\* too, or was taken for a transaction of this node that the chain did not take.
NoNonceSkipped ==
    \A n \in used : \A k \in 0 .. n : k \in used \cup unsent

\* The slots keep the monitor from waiting behind a computation: when there is no
\* place in a ready queue its processor is between two tasks.
MonitorNotBehindRun ==
    (\A t \in Task : pushes[t] < 2) =>
        \A t \in monTask :
            Len(readyQueue[Role(t)]) = ReadyLimit => pc[Role(t)] = "fetch"

\* So a computation that never returns stops its own role only: a pushed task is
\* started as long as the computations of its role return.
OtherRoleStarts ==
    [](\A t \in Task : pushes[t] < 2) =>
        \A t \in Task :
            ([]<>(pc[Role(t)] # "run") /\ <>(pushes[t] = 1))
                => <>(t \in Range(startLog[Role(t)]))

Threads ==
    Monitor \/ SendResult \/ \E r \in Roles : FetchTask(r) \/ GetInput(r) \/ Clear(r)

\* The monitor waits for a task or for the place of a ready queue.
MonitorWaits ==
    \/ monTask = {} /\ putQueue = << >>
    \/ \E t \in monTask : Len(readyQueue[Role(t)]) >= ReadyLimit

\* A processor waits for a task, for the computation, or in removeRequest because no
\* slot is taken.
ProcessorWaits(r) ==
    \/ pc[r] = "fetch" /\ readyQueue[r] = << >>
    \/ pc[r] = "run"
    \/ pc[r] = "clear" /\ requestQueue = {}

Stopped == MonitorWaits /\ \A r \in Roles : ProcessorWaits(r)

\* Only a computation holds a task up: when the threads have stopped, each pushed
\* task is over unless a computation of its role runs or, once a task was pushed
\* twice, one that the monitor's task waits for.  The wait in removeRequest, which
\* may follow a second run, holds up no task that has not run yet.
OnlyRunsStop ==
    Stopped =>
        \A t \in Task : pushes[t] > 0 =>
            \/ t \in ended
            \/ pc[Role(t)] = "run"
            \/ /\ \E u \in Task : pushes[u] > 1
               /\ \E u \in monTask : pc[Role(u)] = "run"
=============================================================================
