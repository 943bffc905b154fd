---------------------------- MODULE BufferChannel ----------------------------
(***************************************************************************)
(* How the buffers of a running computation reach it.                      *)
(*                                                                         *)
(* The peer's CommunicatorIOChannel numbers what it sends for a task and   *)
(* starts an asynchronous inputData call for each buffer.  Here a thread   *)
(* of the server runs MpcTaskDispatcher::putBuffer: to the queue of the    *)
(* processor that works on the task, or, when none does, to the task's     *)
(* first input buffers.  The processor's thread (recv_data, consumeBuffer) *)
(* fetches the first input buffers, then takes from its queue the buffer   *)
(* whose number comes next, waiting for it as long as it takes.            *)
(*                                                                         *)
(* A buffer is its task and its number.  One processor is modelled; the    *)
(* tasks come to it one after the other, each once, and the peer of a task *)
(* sends MaxSeq buffers.  The last buffers' owner frees them: an entry of  *)
(* the queue that points to a freed buffer is dangling, and what reading   *)
(* its number gives is not defined.                                        *)
(***************************************************************************)
EXTENDS Naturals, Sequences

CONSTANTS
    Task,     \* the tasks of this processor
    MaxSeq,   \* bound: how many buffers the peer sends for a task
    Handler,  \* the server's threads
    Failing,  \* the tasks whose run may end before it read all its buffers
    MaxLost   \* bound: how many inputData calls may fail unnoticed

ASSUME BufferAssumption ==
    /\ Task # {} /\ Failing \subseteq Task
    /\ MaxSeq \in Nat \ {0} /\ MaxLost \in Nat

Seqs == 1 .. MaxSeq

Buffer == [task : Task, seq : Seqs]

VARIABLES
    sent,       \* sent[t]: m_seq of the peer's channel for t
    arrived,    \* arrived[t]: how many of these calls were dispatched or lost
    lost,       \* how many calls were lost
    hPc,        \* where a server thread is in putBuffer
    hTask,      \* the task of its buffer
    hSeq,       \* the number of its buffer
    hMap,       \* its copy of the task's first input buffers (numbers)
    firstInput, \* m_firstInputBufferMap: numbers of the parked buffers by task
    pc,         \* where the processor's thread is
    current,    \* m_task: none or one task
    local,      \* the first input buffers consumeBuffer has fetched (numbers)
    queue,      \* m_taskBufferQue: under each number none or the task of a buffer
    requestSeq, \* m_requestSeq
    got,        \* the task of the buffer consumeBuffer returned
    delivered,  \* delivered[t]: what the run of t has read
    freed,      \* freed[t]: the numbers of the buffers of t that were deleted
    started     \* history: the tasks the processor has fetched

senderVars == <<sent, arrived, lost>>
handlerVars == <<hPc, hTask, hSeq, hMap>>
procVars == <<pc, current, local, requestSeq, got>>
runVars == <<delivered, freed, started>>
vars == <<senderVars, handlerVars, procVars, runVars, firstInput, queue>>

TypeOK ==
    /\ sent \in [Task -> 0 .. MaxSeq]
    /\ arrived \in [Task -> 0 .. MaxSeq]
    /\ lost \in 0 .. MaxLost
    /\ hPc \in [Handler -> {"idle", "check", "get", "put", "input"}]
    /\ hTask \in [Handler -> Task]
    /\ hSeq \in [Handler -> Seqs]
    /\ hMap \in [Handler -> SUBSET Seqs]
    /\ firstInput \in [Task -> SUBSET Seqs]
    /\ pc \in {"idle", "recv", "merge", "wait", "compare", "crashed"}
    /\ current \in SUBSET Task /\ \A t, u \in current : t = u
    /\ local \in SUBSET Seqs
    /\ queue \in [Seqs -> SUBSET Task] /\ \A k \in Seqs : \A t, u \in queue[k] : t = u
    /\ requestSeq \in 0 .. MaxSeq
    /\ got \in SUBSET Task
    /\ delivered \in [Task -> Seq(Buffer)]
    /\ freed \in [Task -> SUBSET Seqs]
    /\ started \in SUBSET Task

Init ==
    /\ sent = [t \in Task |-> 0]
    /\ arrived = [t \in Task |-> 0]
    /\ lost = 0
    /\ hPc = [h \in Handler |-> "idle"]
    /\ hTask = [h \in Handler |-> CHOOSE t \in Task : TRUE]
    /\ hSeq = [h \in Handler |-> 1]
    /\ hMap = [h \in Handler |-> {}]
    /\ firstInput = [t \in Task |-> {}]
    /\ pc = "idle"
    /\ current = {}
    /\ local = {}
    /\ queue = [k \in Seqs |-> {}]
    /\ requestSeq = 0
    /\ got = {}
    /\ delivered = [t \in Task |-> << >>]
    /\ freed = [t \in Task |-> {}]
    /\ started = {}

-----------------------------------------------------------------------------
(* The peer and the calls under way.                                       *)

Send(t) ==
    /\ sent[t] < MaxSeq
    /\ sent' = [sent EXCEPT ![t] = @ + 1]
    /\ UNCHANGED <<arrived, lost, handlerVars, procVars, runVars, firstInput, queue>>

\* Nobody waits for the result of begin_inputData: a call that fails is gone.
Lose(t) ==
    /\ arrived[t] < sent[t]
    /\ lost < MaxLost
    /\ arrived' = [arrived EXCEPT ![t] = @ + 1]
    /\ lost' = lost + 1
    /\ UNCHANGED <<sent, handlerVars, procVars, runVars, firstInput, queue>>

-----------------------------------------------------------------------------
(* inputData in a server thread.  The calls of a peer are dispatched in    *)
(* order; with several threads they may finish in any order.               *)

\* The process has not been aborted.
Alive == pc # "crashed"

Dispatch(h, t) ==
    /\ Alive /\ hPc[h] = "idle"
    /\ arrived[t] < sent[t]
    /\ arrived' = [arrived EXCEPT ![t] = @ + 1]
    /\ hTask' = [hTask EXCEPT ![h] = t]
    /\ hSeq' = [hSeq EXCEPT ![h] = arrived[t] + 1]
    /\ hPc' = [hPc EXCEPT ![h] = "check"]
    /\ UNCHANGED <<sent, lost, hMap, procVars, runVars, firstInput, queue>>

\* Which processor works on the task?  The answer may be out of date at once.
CheckTask(h) ==
    /\ Alive /\ hPc[h] = "check"
    /\ hPc' = [hPc EXCEPT ![h] = IF hTask[h] \in current THEN "input" ELSE "get"]
    /\ UNCHANGED <<senderVars, hTask, hSeq, hMap, procVars, runVars, firstInput, queue>>

\* Mutant: the queue keeps every buffer that comes under a number.
InputBufferMulti(h) ==
    /\ Alive /\ hPc[h] = "input"
    /\ queue' = [queue EXCEPT ![hSeq[h]] = @ \cup {hTask[h]}]
    /\ hPc' = [hPc EXCEPT ![h] = "idle"]
    /\ UNCHANGED <<senderVars, hTask, hSeq, hMap, procVars, runVars, firstInput>>

InputBuffer(h) ==
    /\ Alive /\ hPc[h] = "input"
    /\ queue' = [queue EXCEPT ![hSeq[h]] = {hTask[h]}]
    /\ hPc' = [hPc EXCEPT ![h] = "idle"]
    /\ UNCHANGED <<senderVars, hTask, hSeq, hMap, procVars, runVars, firstInput>>

\* putFirstInputBuffer copies the task's map out of the SafeMap, adds the buffer
\* to the copy and puts the copy back.
GetFirst(h) ==
    /\ Alive /\ hPc[h] = "get"
    /\ hMap' = [hMap EXCEPT ![h] = firstInput[hTask[h]]]
    /\ hPc' = [hPc EXCEPT ![h] = "put"]
    /\ UNCHANGED <<senderVars, hTask, hSeq, procVars, runVars, firstInput, queue>>

PutFirst(h) ==
    /\ Alive /\ hPc[h] = "put"
    /\ firstInput' = [firstInput EXCEPT ![hTask[h]] = hMap[h] \cup {hSeq[h]}]
    /\ hMap' = [hMap EXCEPT ![h] = {}]
    /\ hPc' = [hPc EXCEPT ![h] = "idle"]
    /\ UNCHANGED <<senderVars, hTask, hSeq, procVars, runVars, queue>>

PutBuffer(h) == CheckTask(h) \/ InputBuffer(h) \/ GetFirst(h) \/ PutFirst(h)

-----------------------------------------------------------------------------
(* The processor's thread.                                                 *)

\* Mutant: the number of the last run is kept.
SetTaskKeepSeq(t) ==
    /\ pc = "idle"
    /\ t \notin started
    /\ current' = {t}
    /\ started' = started \cup {t}
    /\ pc' = "recv"
    /\ UNCHANGED <<senderVars, handlerVars, local, requestSeq, got, delivered,
                   freed, firstInput, queue>>

SetTask(t) ==
    /\ pc = "idle"
    /\ t \notin started
    /\ current' = {t}
    /\ requestSeq' = 0
    /\ started' = started \cup {t}
    /\ pc' = "recv"
    /\ UNCHANGED <<senderVars, handlerVars, local, got, delivered, freed,
                   firstInput, queue>>

RemoveFirst ==
    /\ pc = "recv"
    /\ \E t \in current :
           /\ Len(delivered[t]) < MaxSeq
           /\ local' = firstInput[t]
           /\ firstInput' = [firstInput EXCEPT ![t] = {}]
    /\ pc' = "merge"
    /\ UNCHANGED <<senderVars, handlerVars, current, requestSeq, got, runVars, queue>>

Keys(q) == {k \in Seqs : q[k] # {}}

IsHead(q, k) == k \in Keys(q) /\ \A j \in Keys(q) : k <= j

Dangling(q) == \E k \in Seqs : IsHead(q, k) /\ \E t \in q[k] : k \in freed[t]

HeadIsNext(q) == IsHead(q, requestSeq + 1)

\* Mutant: the head of the queue is taken whatever its number.
TakeOrWaitAnyHead(q) ==
    \/ \E k \in Seqs :
           /\ IsHead(q, k)
           /\ queue' = [q EXCEPT ![k] = {}]
           /\ got' = q[k]
           /\ requestSeq' = k
           /\ pc' = "compare"
    \/ /\ Keys(q) = {}
       /\ pc' = "wait"
       /\ queue' = q
       /\ UNCHANGED <<got, requestSeq>>

\* With m_bufferMutex held: takes the head of q if its number is the next one,
\* else waits.  The number of a dangling head reads as another one, or as the
\* next one, and then its buffer is deleted a second time.
TakeOrWait(q) ==
    \/ /\ HeadIsNext(q) /\ ~Dangling(q)
       /\ queue' = [q EXCEPT ![requestSeq + 1] = {}]
       /\ got' = q[requestSeq + 1]
       /\ requestSeq' = requestSeq + 1
       /\ pc' = "compare"
    \/ /\ ~HeadIsNext(q) \/ Dangling(q)
       /\ pc' \in (IF Dangling(q) THEN {"wait", "crashed"} ELSE {"wait"})
       /\ queue' = q
       /\ UNCHANGED <<got, requestSeq>>

\* Mutant: the fetched buffers are not copied to the queue.
MergeDropsFetched ==
    /\ pc = "merge"
    /\ TakeOrWait(queue)
    /\ local' = {}
    /\ UNCHANGED <<senderVars, handlerVars, current, runVars, firstInput>>

\* The fetched buffers do not replace what is in the queue.
Merge ==
    /\ pc = "merge"
    /\ TakeOrWait([k \in Seqs |-> IF queue[k] = {} /\ k \in local THEN current ELSE queue[k]])
    /\ local' = {}
    /\ UNCHANGED <<senderVars, handlerVars, current, runVars, firstInput>>

Wake ==
    /\ pc = "wait"
    /\ TakeOrWait(queue)
    /\ UNCHANGED <<senderVars, handlerVars, current, local, runVars, firstInput>>

\* Mutant: the task of the buffer is not looked at.
CompareTaskNot ==
    /\ pc = "compare"
    /\ delivered' = [t \in Task |->
           IF t \in current
               THEN Append(delivered[t], [task |-> CHOOSE u \in got : TRUE, seq |-> requestSeq])
               ELSE delivered[t]]
    /\ freed' = [t \in Task |-> IF t \in got THEN freed[t] \cup {requestSeq} ELSE freed[t]]
    /\ got' = {}
    /\ pc' = "recv"
    /\ UNCHANGED <<senderVars, handlerVars, current, local, requestSeq, started,
                   firstInput, queue>>

\* recv_data: a buffer of another task is deleted, not put back.
CompareTask ==
    /\ pc = "compare"
    /\ delivered' = [t \in Task |->
           IF t \in current /\ got = current
               THEN Append(delivered[t], [task |-> t, seq |-> requestSeq])
               ELSE delivered[t]]
    /\ freed' = [t \in Task |-> IF t \in got THEN freed[t] \cup {requestSeq} ELSE freed[t]]
    /\ got' = {}
    /\ pc' = "recv"
    /\ UNCHANGED <<senderVars, handlerVars, current, local, requestSeq, started,
                   firstInput, queue>>

\* The run is over.  Neither m_task nor the queue is cleared.
EndRun ==
    /\ pc = "recv"
    /\ \A t \in current : t \in Failing \/ Len(delivered[t]) = MaxSeq
    /\ pc' = "idle"
    /\ UNCHANGED <<senderVars, handlerVars, current, local, requestSeq, got,
                   runVars, firstInput, queue>>

ConsumeBuffer == RemoveFirst \/ Merge \/ Wake \/ CompareTask

-----------------------------------------------------------------------------

Next ==
    \/ \E t \in Task : Send(t) \/ Lose(t) \/ SetTask(t)
    \/ \E h \in Handler : PutBuffer(h) \/ \E t \in Task : Dispatch(h, t)
    \/ ConsumeBuffer
    \/ EndRun

Spec == Init /\ [][Next]_vars

\* The server dispatches and runs the calls, the processor's thread runs.
Fairness ==
    /\ \A h \in Handler : WF_vars(PutBuffer(h))
    /\ WF_vars(\E h \in Handler, t \in Task : Dispatch(h, t))
    /\ WF_vars(ConsumeBuffer)
    /\ WF_vars(EndRun)

FairSpec == Spec /\ Fairness

-----------------------------------------------------------------------------
(* Correctness.                                                            *)

\* Whatever other tasks left in the queue, a run reads buffers of its own task
\* only, none twice, and none before one sent earlier.
OwnDataInOrder ==
    \A t \in Task :
        /\ \A i \in DOMAIN delivered[t] : delivered[t][i].task = t
        /\ \A i, j \in DOMAIN delivered[t] :
               i < j => delivered[t][i].seq < delivered[t][j].seq

\* A server thread found no processor for its task, and now there is one.
Straddles(h) == hPc[h] \in {"get", "put"} /\ hTask[h] \in current

\* A server thread will put back a map that has changed since it copied it.
StaleCopy(h) == hPc[h] = "put" /\ hMap[h] # firstInput[hTask[h]]

\* "reqeust seq should be the same as the sender": the number the processor has
\* got to is the number of buffers its run has read.
SeqMatchesSender ==
    pc = "recv" => \A t \in current : requestSeq = Len(delivered[t])

\* "cannot find the working process ... put the buffer to first buffer queue":
\* no buffer is among the first input buffers of the task whose run is waiting.
ParkedIsFetched == pc = "wait" => \A t \in current : firstInput[t] = {}

\* When runs read all their buffers, the machinery is a FIFO channel per task.
Fifo == INSTANCE FifoChannel WITH received <- delivered

FifoSpec == Fifo!Spec

\* No call was lost, and no server thread races with the processor that starts its
\* task or with another one for the first input buffers.
NoRace == lost = 0 /\ \A h \in Handler : ~Straddles(h) /\ ~StaleCopy(h)

\* In a behaviour like that a run reads all that was sent for its task.
DeliveredUnlessStraddled ==
    []NoRace =>
        \A t \in Task :
            (t \in current /\ sent[t] = MaxSeq) ~> (Len(delivered[t]) = MaxSeq)

\* A server thread has the buffer that the run of t reads next.
NextInHand(t) ==
    \E h \in Handler :
        hPc[h] # "idle" /\ hTask[h] = t /\ hSeq[h] = Len(delivered[t]) + 1

\* Those races and lost calls are all that can keep a buffer from its run: without
\* them the processor waits only for a buffer that has not come yet, or that a
\* server thread still has, whatever other runs left behind, and deletes none twice.
WaitsForMissing ==
    []NoRace =>
        [](/\ Alive
           /\ pc = "wait" /\ ~HeadIsNext(queue) =>
                  \A t \in current : Len(delivered[t]) = arrived[t] \/ NextInHand(t))
=============================================================================
