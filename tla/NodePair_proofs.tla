--------------------------- MODULE NodePair_proofs ---------------------------
(***************************************************************************)
(* Proofs about the two nodes of a computation: the pair implements the    *)
(* handshake, so all that TaskHandshake_proofs shows holds of the pair,    *)
(* processors of one role never wait for each other with different tasks,  *)
(* and when all threads of both nodes wait, nothing is left to do.         *)
(*                                                                         *)
(* The inductive invariant follows a task from the put queue through the   *)
(* monitor and the ready queue to its run: a task that both nodes popped   *)
(* earlier is never behind it (OrderKept).                                 *)
(*                                                                         *)
(* The handshake's measure, with what the pipelines of both nodes still    *)
(* have to do for a task, bounds the steps of the pair (PairStepsBounded). *)
(***************************************************************************)
EXTENDS NodePair, TaskHandshake_proofs, WellFoundedInduction

\* The ready queue of task t at node n.
Ready(n, t) == readyQueue[n][Role(n, t)]

\* Where a pushed task can be, and that it is nowhere before it is pushed.
PipeAt(n) ==
    /\ \A t \in pushed[n] :
           t \in begun[n] \cup Range(Ready(n, t)) \cup monTask[n] \cup Range(putQueue[n])
    /\ \A t \in Task : t \in monTask[n] => monTask[n] = {t}
    /\ begun[n] \cup monTask[n] \subseteq pushed[n]
    /\ \A r \in Roles :
           /\ procTask[n][r] \subseteq begun[n]
           /\ \A t \in Range(readyQueue[n][r]) : t \in pushed[n] /\ Role(n, t) = r

PipeSound == \A n \in Node : PipeAt(n)

\* u is not behind t at node n.
Ahead(n, u, t) ==
    /\ t \in begun[n] => u \in begun[n]
    /\ \A j \in DOMAIN Ready(n, t) : Ready(n, t)[j] = t =>
           u \in begun[n] \/ \E i \in 1 .. j - 1 : Ready(n, t)[i] = u
    /\ t \in monTask[n] => u \in begun[n] \cup Range(Ready(n, t))
    /\ \A j \in DOMAIN putQueue[n] : putQueue[n][j] = t =>
           \/ u \in begun[n] \cup Range(Ready(n, t)) \cup monTask[n]
           \/ \E i \in 1 .. j - 1 : putQueue[n][i] = u

OrderKept ==
    \A n \in Node, t, u \in Task :
        Invitor[t] = Invitor[u] /\ Rendezvous!Precedes(u, t) => Ahead(n, u, t)

PairIInv == IInv /\ PairTypeOK /\ PipeSound /\ OrderKept

-----------------------------------------------------------------------------
(* The pair implements the handshake.                                      *)

\* A step of the pair is a step of the handshake or leaves it alone.
LEMMA PairStep == PairTypeOK /\ [PairNext]_pairVars => [Next]_vars
<1> SUFFICES ASSUME PairTypeOK, [PairNext]_pairVars PROVE [Next]_vars
  OBVIOUS
<1>1. ASSUME NEW n \in Node, Local(n) \/ Thread(n) PROVE Next
  BY <1>1 DEF Local, Thread, Next
<1>2. ASSUME NEW n \in Node, NEW t \in Task, Serve(n, t) PROVE Next
  BY <1>2 DEF Serve, Next
<1>3. ASSUME NEW n \in Node, Monitor(n) PROVE [Next]_vars
  BY <1>3 DEF Monitor, PopPutTask, PutReadyTask, Next
<1>4. ASSUME NEW n \in Node, NEW r \in Roles, Processor(n, r) \/ FailRun(n, r)
      PROVE  [Next]_vars
  <2>1. CASE FetchTask(n, r) \/ EndRun(n, r) \/ FailRun(n, r)
    BY <2>1 DEF FetchTask, EndRun, FailRun
  <2>2. procTask[n][r] \subseteq Task
    BY DEF PairTypeOK
  <2>3. CASE ClearTaskState(n, r) \/ ClearRequest(n, r) \/ ClearWorkingTask(n, r)
    BY <2>2, <2>3 DEF ClearTaskState, ClearRequest, ClearWorkingTask, Downstream, Next
  <2> QED
    BY <1>4, <2>1, <2>3 DEF Processor
<1> QED
  BY <1>1, <1>2, <1>3, <1>4 DEF PairNext, PairSystem, pairVars

LEMMA PairTypeInit == PairInit => PairTypeOK
BY TypeInit DEF PairInit, PairTypeOK, ProcPc

LEMMA PairTypeNext == PairTypeOK /\ [PairNext]_pairVars => PairTypeOK'
<1> SUFFICES ASSUME PairTypeOK, [PairNext]_pairVars PROVE PairTypeOK'
  OBVIOUS
<1>1. TypeOK'
  BY PairStep, TypeNext DEF PairTypeOK
<1>2. TypeOK
  BY DEF PairTypeOK
<1> USE <1>1, RoleFacts DEF PairTypeOK
<1>3. ASSUME NEW n \in Node, Local(n) PROVE PairTypeOK'
  BY <1>3 DEF Local, pipeVars
<1>4. ASSUME NEW n \in Node, Thread(n) \/ \E t \in Task : Serve(n, t) PROVE PairTypeOK'
  BY <1>4 DEF Thread, Serve, Notice, pipeVars
<1>5. ASSUME NEW n \in Node, PopPutTask(n) PROVE PairTypeOK'
  <2>1. Head(putQueue[n]) \in Task
    BY <1>2, <1>5, RangeTail DEF PopPutTask, TakePutTask, TypeOK
  <2> QED
    BY <1>5, <2>1 DEF PopPutTask
<1>6. ASSUME NEW n \in Node, PutReadyTask(n) PROVE PairTypeOK'
  BY <1>6 DEF PutReadyTask
<1>7. ASSUME NEW n \in Node, NEW r \in Roles, FetchTask(n, r) PROVE PairTypeOK'
  <2>1. Head(readyQueue[n][r]) \in Task /\ Tail(readyQueue[n][r]) \in Seq(Task)
    BY <1>7, RangeTail DEF FetchTask
  <2> QED
    BY <1>7, <2>1 DEF FetchTask, ProcPc
<1>8. ASSUME NEW n \in Node, NEW r \in Roles, Processor(n, r) \/ FailRun(n, r)
      PROVE PairTypeOK'
  <2>1. ASSUME NEW x \in ProcPc, procPc' = [procPc EXCEPT ![n][r] = x]
        PROVE  procPc' \in [Node -> [Roles -> ProcPc]]
    BY <2>1
  <2>2. procTask[n][r] \subseteq Task
    OBVIOUS
  <2>3. CASE EndRun(n, r) \/ FailRun(n, r)
    BY <2>1, <2>2, <2>3 DEF EndRun, FailRun, ProcPc
  <2>4. CASE ClearTaskState(n, r) \/ ClearRequest(n, r) \/ ClearWorkingTask(n, r)
    <3>1. procPc' \in [Node -> [Roles -> ProcPc]]
      BY <2>1, <2>4 DEF ClearTaskState, ClearRequest, ClearWorkingTask, ProcPc
    <3>2. ended' \in [Node -> SUBSET Task]
      <4>1. CASE UNCHANGED ended
        BY <4>1
      <4>2. CASE ended' = [ended EXCEPT ![n] = @ \cup procTask[n][r]]
        BY <2>2, <4>2
      <4> QED
        BY <2>4, <4>1, <4>2 DEF ClearTaskState, ClearRequest, ClearWorkingTask
    <3>3. UNCHANGED <<monTask, readyQueue, procTask, begun, broken, repushed>>
      BY <2>4 DEF ClearTaskState, ClearRequest, ClearWorkingTask
    <3> QED
      BY <3>1, <3>2, <3>3
  <2> QED
    BY <1>7, <1>8, <2>3, <2>4 DEF Processor
<1>9. CASE UNCHANGED pairVars
  BY <1>9 DEF pairVars, pipeVars
<1> HIDE DEF PairTypeOK
<1> QED
  BY <1>3, <1>4, <1>5, <1>6, <1>8, <1>9 DEF PairNext, PairSystem, Monitor

\* The variables of the pair keep their types.
THEOREM PairTypeCorrect == PairSpec => []PairTypeOK
BY PairTypeInit, PairTypeNext, PTL DEF PairSpec

\* The pair implements the handshake: what TaskHandshake says of the threads behind
\* the put queue is what monitor and processors do.
THEOREM PairImplements == PairSpec => HandshakeSpec
<1>1. PairInit => Init
  BY DEF PairInit
<1> QED
  BY <1>1, PairStep, PairTypeCorrect, PTL DEF PairSpec, HandshakeSpec, Spec

-----------------------------------------------------------------------------
(* From the put queue to the run.                                          *)

\* A step of the handshake adds tasks to the put queue, and nothing else happens.
QueueGrows ==
    /\ \A n \in Node :
           \/ putQueue'[n] = putQueue[n] /\ pushed'[n] = pushed[n]
           \/ \E x \in Task : /\ putQueue'[n] = Append(putQueue[n], x)
                              /\ pushed'[n] = pushed[n] \cup {x}
    /\ UNCHANGED <<monTask, readyQueue, procTask, begun>>

LEMMA PushGrows ==
    ASSUME TypeOK, NEW m \in Node, NEW x \in Task, PushPutTask(m, x), UNCHANGED pipeVars
    PROVE  QueueGrows
BY DEF TypeOK, PushPutTask, QueueGrows, pipeVars

LEMMA StepKinds ==
    ASSUME PairTypeOK, [PairNext]_pairVars
    PROVE  \/ QueueGrows
           \/ \E n \in Node : \/ PopPutTask(n) \/ PutReadyTask(n)
                              \/ \E r \in Roles : FetchTask(n, r)
<1>1. TypeOK
  BY DEF PairTypeOK
<1>2. ASSUME UNCHANGED <<putQueue, pushed, monTask, readyQueue, procTask, begun>>
      PROVE  QueueGrows
  BY <1>2 DEF QueueGrows
<1>3. ASSUME NEW n \in Node, Local(n) PROVE QueueGrows
  BY <1>2, <1>3 DEF Local, Register, CallException, Commit, pipeVars
<1>4. ASSUME NEW n \in Node, Thread(n) PROVE QueueGrows
  <2>1. UNCHANGED pipeVars /\ ReadyProcessor(n)
    BY <1>4 DEF Thread
  <2>2. CASE PushReady(n)
    BY <1>1, <2>1, <2>2, PushGrows DEF PushReady, TypeOK
  <2>3. CASE ~PushReady(n)
    <3>1. UNCHANGED <<putQueue, pushed>>
      BY <2>1, <2>3 DEF ReadyProcessor, PopCommitTask, AddRequest, PeerNotFound, Invoke,
         MergeReply, FindState, FailState, FailWorking
    <3> QED
      BY <1>2, <2>1, <3>1 DEF pipeVars
  <2> QED
    BY <2>2, <2>3
<1>5. ASSUME NEW n \in Node, NEW t \in Task, Serve(n, t) PROVE QueueGrows
  <2>1. UNCHANGED pipeVars /\ Handler(n, t) /\ Peer(n) \in Node
    BY <1>5, PeerFacts DEF Serve
  <2>2. CASE HandlePush(n, t)
    BY <1>1, <2>1, <2>2, PushGrows DEF HandlePush
  <2>3. CASE ~HandlePush(n, t)
    <3>1. UNCHANGED <<putQueue, pushed>>
      BY <2>1, <2>3 DEF Handler, HandleUpdate, HandleFind, HandleLookup
    <3> QED
      BY <1>2, <2>1, <3>1 DEF pipeVars
  <2> QED
    BY <2>2, <2>3
<1>6. ASSUME NEW n \in Node, NEW r \in Roles, EndRun(n, r) \/ FailRun(n, r) PROVE QueueGrows
  BY <1>2, <1>6 DEF EndRun, FailRun, vars
<1>7. ASSUME NEW n \in Node, NEW r \in Roles,
             ClearTaskState(n, r) \/ ClearRequest(n, r) \/ ClearWorkingTask(n, r)
      PROVE  QueueGrows
  BY <1>2, <1>7 DEF ClearTaskState, ClearRequest, ClearWorkingTask, RemoveTaskState,
     RemoveRequest, RemoveWorkingTask
<1>8. CASE UNCHANGED pairVars
  BY <1>2, <1>8 DEF pairVars, pipeVars, vars
<1>9. ASSUME NEW n \in Node, NEW r \in Roles, Processor(n, r) \/ FailRun(n, r)
      PROVE  QueueGrows \/ FetchTask(n, r)
  BY <1>6, <1>7, <1>9 DEF Processor
<1> QED
  BY <1>3, <1>4, <1>5, <1>8, <1>9 DEF PairNext, PairSystem, Monitor

\* What the four steps do to a node's queues.
LEMMA PopPutFacts ==
    ASSUME PairTypeOK, NEW n \in Node, PopPutTask(n)
    PROVE  /\ putQueue[n] \in Seq(Task) /\ putQueue[n] # << >>
           /\ putQueue'[n] = Tail(putQueue[n])
           /\ monTask[n] = {} /\ monTask'[n] = {Head(putQueue[n])}
           /\ \A m \in Node : m # n => putQueue'[m] = putQueue[m] /\ monTask'[m] = monTask[m]
           /\ UNCHANGED <<pushed, readyQueue, procTask, begun>>
BY DEF PopPutTask, TakePutTask, PairTypeOK, TypeOK

LEMMA PutReadyFacts ==
    ASSUME PairTypeOK, NEW n \in Node, PutReadyTask(n)
    PROVE  \E x \in monTask[n] :
             /\ x \in Task
             /\ readyQueue' = [readyQueue EXCEPT ![n][Role(n, x)] = Append(@, x)]
             /\ monTask'[n] = {}
             /\ \A m \in Node : m # n => monTask'[m] = monTask[m]
             /\ UNCHANGED <<putQueue, pushed, procTask, begun>>
BY DEF PutReadyTask, PairTypeOK, vars

LEMMA FetchFacts ==
    ASSUME PairTypeOK, NEW n \in Node, NEW r \in Roles, FetchTask(n, r)
    PROVE  /\ readyQueue[n][r] \in Seq(Task) /\ readyQueue[n][r] # << >>
           /\ readyQueue' = [readyQueue EXCEPT ![n][r] = Tail(@)]
           /\ begun' = [begun EXCEPT ![n] = @ \cup {Head(readyQueue[n][r])}]
           /\ procTask' = [procTask EXCEPT ![n][r] = {Head(readyQueue[n][r])}]
           /\ UNCHANGED <<putQueue, pushed, monTask>>
BY DEF FetchTask, PairTypeOK, vars

LEMMA PipeInit == PairInit => PipeSound
BY DEF PairInit, Init, PipeSound, PipeAt, Range

LEMMA PipeNext ==
    ASSUME PairTypeOK, HistorySound, PipeSound, [PairNext]_pairVars
    PROVE  PipeSound'
<1> SUFFICES ASSUME NEW m \in Node PROVE PipeAt(m)'
  BY DEF PipeSound
<1>0. PipeAt(m)
  BY DEF PipeSound
<1>1. /\ TypeOK /\ putQueue[m] \in Seq(Task) /\ pushed[m] \subseteq Task
      /\ \A r \in Roles : readyQueue[m][r] \in Seq(Task)
      /\ \A t \in Task : Role(m, t) \in Roles
      /\ Range(putQueue[m]) \subseteq pushed[m]
  BY RoleFacts, SMTT(30) DEF PairTypeOK, TypeOK, HistorySound
<1>2. CASE QueueGrows
  <2>1. CASE putQueue'[m] = putQueue[m] /\ pushed'[m] = pushed[m]
    BY <1>0, <1>2, <2>1 DEF QueueGrows, PipeAt, Ready
  <2>2. ASSUME NEW x \in Task, putQueue'[m] = Append(putQueue[m], x),
               pushed'[m] = pushed[m] \cup {x}
        PROVE  PipeAt(m)'
    <3>1. Range(putQueue'[m]) = Range(putQueue[m]) \cup {x}
      BY <1>1, <2>2, RangeAppend
    <3> QED
      BY <1>0, <1>2, <2>2, <3>1 DEF QueueGrows, PipeAt, Ready
  <2> QED
    BY <1>2, <2>1, <2>2 DEF QueueGrows
<1>3. ASSUME NEW n \in Node, PopPutTask(n) PROVE PipeAt(m)'
  <2>1. CASE n # m
    BY <1>0, <1>3, <2>1, PopPutFacts DEF PipeAt, Ready
  <2>2. CASE n = m
    <3>1. Range(putQueue[m]) = {Head(putQueue[m])} \cup Range(putQueue'[m])
      BY <1>1, <1>3, <2>2, PopPutFacts, RangeHeadTail
    <3> QED
      BY <1>0, <1>1, <1>3, <2>2, <3>1, PopPutFacts DEF PipeAt, Ready
  <2> QED
    BY <2>1, <2>2
<1>4. ASSUME NEW n \in Node, PutReadyTask(n) PROVE PipeAt(m)'
  <2>1. PICK x \in monTask[n] :
             /\ x \in Task
             /\ readyQueue' = [readyQueue EXCEPT ![n][Role(n, x)] = Append(@, x)]
             /\ monTask'[n] = {}
             /\ \A k \in Node : k # n => monTask'[k] = monTask[k]
             /\ UNCHANGED <<putQueue, pushed, procTask, begun>>
    BY <1>4, PutReadyFacts
  <2>2. readyQueue \in [Node -> [Roles -> Seq(Task)]]
    BY DEF PairTypeOK
  <2>3. CASE n # m
    <3>1. readyQueue'[m] = readyQueue[m]
      BY <2>1, <2>2, <2>3
    <3> QED
      BY <1>0, <2>1, <2>3, <3>1 DEF PipeAt, Ready
  <2>4. CASE n = m
    <3>1. /\ readyQueue'[m][Role(m, x)] = Append(readyQueue[m][Role(m, x)], x)
          /\ \A r \in Roles : r # Role(m, x) => readyQueue'[m][r] = readyQueue[m][r]
      BY <1>1, <2>1, <2>2, <2>4
    <3>2. Range(readyQueue'[m][Role(m, x)]) = Range(readyQueue[m][Role(m, x)]) \cup {x}
      BY <1>1, <2>1, <3>1, RangeAppend
    <3>3. monTask[m] = {x} /\ x \in pushed[m]
      BY <1>0, <2>1, <2>4 DEF PipeAt
    <3>4. \A t \in Task :
              t \in Range(Ready(m, t)) \cup monTask[m] => t \in Range(Ready(m, t)')
      <4> SUFFICES ASSUME NEW t \in Task
                   PROVE  t \in Range(readyQueue[m][Role(m, t)]) \cup {x}
                              => t \in Range(readyQueue'[m][Role(m, t)])
        BY <3>3 DEF Ready
      <4>1. Role(m, t) \in Roles
        BY <1>1
      <4> QED
        BY <4>1, <3>1, <3>2
    <3>5. \A r \in Roles : \A t \in Range(readyQueue'[m][r]) : t \in pushed[m] /\ Role(m, t) = r
      BY <1>0, <1>1, <2>1, <3>1, <3>2, <3>3 DEF PipeAt
    <3> QED
      BY <1>0, <1>1, <2>1, <2>4, <3>4, <3>5 DEF PipeAt, Ready
  <2> QED
    BY <2>3, <2>4
<1>5. ASSUME NEW n \in Node, NEW r \in Roles, FetchTask(n, r) PROVE PipeAt(m)'
  <2>1. /\ readyQueue \in [Node -> [Roles -> Seq(Task)]]
        /\ begun \in [Node -> SUBSET Task] /\ procTask \in [Node -> [Roles -> SUBSET Task]]
    BY DEF PairTypeOK
  <2>2. CASE n # m
    <3>1. readyQueue'[m] = readyQueue[m] /\ begun'[m] = begun[m] /\ procTask'[m] = procTask[m]
      BY <1>5, <2>1, <2>2, FetchFacts
    <3> QED
      BY <1>0, <1>5, <2>2, <3>1, FetchFacts DEF PipeAt, Ready
  <2>3. CASE n = m
    <3> DEFINE x == Head(readyQueue[m][r])
    <3>0. /\ readyQueue' = [readyQueue EXCEPT ![m][r] = Tail(@)]
          /\ begun' = [begun EXCEPT ![m] = @ \cup {x}]
          /\ procTask' = [procTask EXCEPT ![m][r] = {x}]
      BY <1>5, <2>3, FetchFacts
    <3> HIDE DEF x
    <3>1. /\ readyQueue'[m][r] = Tail(readyQueue[m][r])
          /\ \A q \in Roles : q # r => readyQueue'[m][q] = readyQueue[m][q]
          /\ begun'[m] = begun[m] \cup {x}
          /\ procTask'[m][r] = {x}
          /\ \A q \in Roles : q # r => procTask'[m][q] = procTask[m][q]
      BY <2>1, <3>0
    <3>2. Range(readyQueue[m][r]) = {x} \cup Range(readyQueue'[m][r])
      BY <1>1, <1>5, <2>3, <3>1, FetchFacts, RangeHeadTail DEF x
    <3>3. x \in pushed[m]
      BY <1>0, <3>2 DEF PipeAt
    <3>4. \A t \in Task : begun[m] \cup Range(Ready(m, t)) \subseteq begun'[m] \cup Range(Ready(m, t)')
      BY <1>1, <3>1, <3>2 DEF Ready
    <3>5. \A q \in Roles :
              /\ procTask'[m][q] \subseteq begun'[m]
              /\ \A t \in Range(readyQueue'[m][q]) : t \in pushed[m] /\ Role(m, t) = q
      BY <1>0, <3>1, <3>2 DEF PipeAt
    <3>6. UNCHANGED <<putQueue, pushed, monTask>>
      BY <1>5, FetchFacts
    <3> QED
      BY <1>0, <1>1, <3>1, <3>3, <3>4, <3>5, <3>6 DEF PipeAt, Ready
  <2> QED
    BY <2>2, <2>3
<1> QED
  BY <1>2, <1>3, <1>4, <1>5, StepKinds

\* A pushed task that was not behind t stays so.
LEMMA AheadKept ==
    ASSUME PairIInv, [PairNext]_pairVars, NEW m \in Node, NEW t \in Task,
           NEW u \in pushed[m], Invitor[t] = Invitor[u], Ahead(m, u, t)
    PROVE  Ahead(m, u, t)'
<1>1. /\ PairTypeOK /\ PipeAt(m) /\ TypeOK /\ u \in Task
      /\ Role(m, u) = Role(m, t) /\ Role(m, t) \in Roles
      /\ readyQueue \in [Node -> [Roles -> Seq(Task)]]
      /\ begun \in [Node -> SUBSET Task]
      /\ putQueue[m] \in Seq(Task) /\ Ready(m, t) \in Seq(Task)
  BY RoleFacts DEF PairIInv, PipeSound, PairTypeOK, TypeOK, Role, Ready
<1>2. u \in begun[m] \cup Range(Ready(m, t)) \cup monTask[m] \cup Range(putQueue[m])
  BY <1>1 DEF PipeAt, Ready
<1>3. CASE UNCHANGED <<putQueue[m], monTask[m], readyQueue[m], begun[m]>>
  BY <1>3 DEF Ahead, Ready
<1>4. CASE QueueGrows
  <2>1. ASSUME NEW x \in Task, putQueue'[m] = Append(putQueue[m], x)
        PROVE  Ahead(m, u, t)'
    <3>1. UNCHANGED <<monTask, readyQueue, begun>>
      BY <1>4 DEF QueueGrows
    <3> DEFINE Before == begun[m] \cup Range(Ready(m, t)) \cup monTask[m]
    <3>2. ASSUME NEW j \in DOMAIN putQueue'[m], putQueue'[m][j] = t, u \notin Before
          PROVE  \E i \in 1 .. j - 1 : putQueue'[m][i] = u
      <4>1. CASE j = Len(putQueue[m]) + 1
        <5>1. PICK i \in DOMAIN putQueue[m] : putQueue[m][i] = u
          BY <1>2, <3>2 DEF Range
        <5>2. i \in 1 .. j - 1
          BY <1>1, <4>1, <5>1
        <5> QED
          BY <1>1, <2>1, <5>1, <5>2, AppendPlaces
      <4>2. CASE j # Len(putQueue[m]) + 1
        <5>1. j \in DOMAIN putQueue[m] /\ putQueue[m][j] = t
          BY <1>1, <2>1, <3>2, <4>2, AppendPlaces
        <5>2. PICK i \in 1 .. j - 1 : putQueue[m][i] = u
          BY <3>2, <5>1 DEF Ahead
        <5> QED
          BY <1>1, <2>1, <5>2, AppendPlaces
      <4> QED
        BY <4>1, <4>2
    <3> QED
      BY <3>1, <3>2 DEF Ahead, Ready
  <2> QED
    BY <1>3, <1>4, <2>1 DEF QueueGrows
<1>5. ASSUME NEW n \in Node, PopPutTask(n) PROVE Ahead(m, u, t)'
  <2>1. CASE n # m
    BY <1>3, <1>5, <2>1, PopPutFacts, <1>1
  <2>2. CASE n = m
    <3> DEFINE x == Head(putQueue[m])
               s == putQueue[m]
               Before == begun[m] \cup Range(Ready(m, t))
    <3>1. /\ s \in Seq(Task) /\ s # << >> /\ putQueue'[m] = Tail(s)
          /\ monTask[m] = {} /\ monTask'[m] = {x} /\ UNCHANGED <<readyQueue, begun>>
      BY <1>1, <1>5, <2>2, PopPutFacts
    <3>2. \A j \in DOMAIN s : s[j] = t => u \in Before \/ \E i \in 1 .. j - 1 : s[i] = u
      BY <3>1 DEF Ahead
    <3>3. t = x => u \in Before
      <4>1. 1 \in DOMAIN s /\ s[1] = x
        BY <3>1
      <4> QED
        BY <3>2, <4>1
    <3>4. ASSUME NEW j \in DOMAIN Tail(s), Tail(s)[j] = t, u \notin Before, u # x
          PROVE  \E i \in 1 .. j - 1 : Tail(s)[i] = u
      <4>1. PICK i \in 1 .. j : s[i] = u
        BY <3>1, <3>2, <3>4, TailPlaces
      <4>2. i - 1 \in 1 .. j - 1 /\ Tail(s)[i - 1] = u
        BY <3>1, <3>4, <4>1, TailPlaces
      <4> QED
        BY <4>2
    <3>5. UNCHANGED Before /\ UNCHANGED Ready(m, t)
      BY <3>1 DEF Ready
    <3> QED
      BY <3>1, <3>3, <3>4, <3>5 DEF Ahead
  <2> QED
    BY <2>1, <2>2
<1>6. ASSUME NEW n \in Node, PutReadyTask(n) PROVE Ahead(m, u, t)'
  <2>1. PICK x \in monTask[n] :
             /\ x \in Task
             /\ readyQueue' = [readyQueue EXCEPT ![n][Role(n, x)] = Append(@, x)]
             /\ monTask'[n] = {}
             /\ \A k \in Node : k # n => monTask'[k] = monTask[k]
             /\ UNCHANGED <<putQueue, pushed, procTask, begun>>
    BY <1>1, <1>6, PutReadyFacts
  <2>2. CASE n # m
    BY <1>1, <1>3, <2>1, <2>2
  <2>3. CASE n = m
    <3> DEFINE s == Ready(m, t)
    <3>1. monTask[m] = {x} /\ monTask'[m] = {} /\ UNCHANGED <<putQueue, begun>>
      BY <1>1, <2>1, <2>3 DEF PipeAt
    <3>2. CASE Role(m, x) = Role(m, t)
      <4>1. Ready(m, t)' = Append(s, x)
        BY <1>1, <2>1, <2>3, <3>2 DEF Ready
      <4>2. Range(Append(s, x)) = Range(s) \cup {x}
        BY <1>1, <2>1, RangeAppend
      <4>3. ASSUME NEW j \in DOMAIN Append(s, x), Append(s, x)[j] = t, u \notin begun[m]
            PROVE  \E i \in 1 .. j - 1 : Append(s, x)[i] = u
        <5>1. CASE j = Len(s) + 1
          <6>1. t = x
            BY <1>1, <2>1, <4>3, <5>1, AppendPlaces
          <6>2. u \in Range(s)
            BY <3>1, <4>3, <6>1 DEF Ahead
          <6>3. PICK i \in DOMAIN s : s[i] = u
            BY <6>2 DEF Range
          <6> QED
            BY <1>1, <2>1, <5>1, <6>3, AppendPlaces
        <5>2. CASE j # Len(s) + 1
          <6>1. j \in DOMAIN s /\ s[j] = t
            BY <1>1, <2>1, <4>3, <5>2, AppendPlaces
          <6>2. PICK i \in 1 .. j - 1 : s[i] = u
            BY <4>3, <6>1 DEF Ahead
          <6> QED
            BY <1>1, <2>1, <6>2, AppendPlaces
        <5> QED
          BY <5>1, <5>2
      <4> HIDE DEF s
      <4> QED
        BY <3>1, <4>1, <4>2, <4>3 DEF Ahead, s
    <3>3. CASE Role(m, x) # Role(m, t)
      <4>1. UNCHANGED Ready(m, t)
        BY <1>1, <2>1, <2>3, <3>3 DEF Ready
      <4>2. x # u /\ x # t
        BY <1>1, <3>3
      <4> QED
        BY <3>1, <4>1, <4>2 DEF Ahead
    <3> QED
      BY <3>2, <3>3
  <2> QED
    BY <2>2, <2>3
<1>7. ASSUME NEW n \in Node, NEW r \in Roles, FetchTask(n, r) PROVE Ahead(m, u, t)'
  <2>1. /\ readyQueue[n][r] \in Seq(Task) /\ readyQueue[n][r] # << >>
        /\ readyQueue' = [readyQueue EXCEPT ![n][r] = Tail(@)]
        /\ begun' = [begun EXCEPT ![n] = @ \cup {Head(readyQueue[n][r])}]
        /\ UNCHANGED <<putQueue, pushed, monTask>>
    BY <1>1, <1>7, FetchFacts
  <2>2. CASE n # m
    BY <1>1, <1>3, <2>1, <2>2
  <2>3. CASE n = m
    <3> DEFINE s == readyQueue[m][r]
               x == Head(s)
    <3>1. begun'[m] = begun[m] \cup {x}
      BY <1>1, <2>1, <2>3
    <3>2. CASE r = Role(m, t)
      <4>1. Ready(m, t) = s /\ Ready(m, t)' = Tail(s)
        BY <1>1, <2>1, <2>3, <3>2 DEF Ready
      <4>2. Range(s) = {x} \cup Range(Tail(s))
        BY <2>1, <2>3, RangeHeadTail
      <4>3. \A j \in DOMAIN s : s[j] = t => u \in begun[m] \/ \E i \in 1 .. j - 1 : s[i] = u
        BY <4>1 DEF Ahead
      <4>4. t = x => u \in begun[m]
        <5>1. 1 \in DOMAIN s /\ s[1] = x
          BY <2>1, <2>3
        <5> QED
          BY <4>3, <5>1
      <4>5. ASSUME NEW j \in DOMAIN Tail(s), Tail(s)[j] = t, u \notin begun[m], u # x
            PROVE  \E i \in 1 .. j - 1 : Tail(s)[i] = u
        <5>1. PICK i \in 1 .. j : s[i] = u
          BY <2>1, <2>3, <4>3, <4>5, TailPlaces
        <5>2. i - 1 \in 1 .. j - 1 /\ Tail(s)[i - 1] = u
          BY <2>1, <2>3, <4>5, <5>1, TailPlaces
        <5> QED
          BY <5>2
      <4> HIDE DEF x, s
      <4> QED
        BY <2>1, <3>1, <4>1, <4>2, <4>4, <4>5 DEF Ahead
    <3>3. CASE r # Role(m, t)
      <4>1. UNCHANGED Ready(m, t)
        BY <1>1, <2>1, <2>3, <3>3 DEF Ready
      <4>2. x # t
        BY <1>1, <2>1, <2>3, <3>3, RangeHeadTail DEF PipeAt
      <4> HIDE DEF x
      <4> QED
        BY <2>1, <3>1, <4>1, <4>2 DEF Ahead
    <3> QED
      BY <3>2, <3>3
  <2> QED
    BY <2>2, <2>3
<1> QED
  BY <1>1, <1>4, <1>5, <1>6, <1>7, StepKinds

LEMMA OrderNext ==
    ASSUME PairIInv, [PairNext]_pairVars, PipeSound', HistorySound'
    PROVE  OrderKept'
<1> SUFFICES ASSUME NEW m \in Node, NEW t \in Task, NEW u \in Task,
                    Invitor[t] = Invitor[u], Rendezvous!Precedes(u, t)'
             PROVE  Ahead(m, u, t)'
  BY DEF OrderKept
<1>1. [Next]_vars /\ IInv
  BY PairStep DEF PairIInv
<1>a. /\ Role(m, t) \in Roles
      /\ \A s : \A j \in DOMAIN s : s[j] \in Range(s)
  BY RoleFacts DEF Range
<1>2. CASE t \in pushed[m]
  <2>1. Rendezvous!Precedes(u, t)
    BY <1>1, <1>2, PrecedesBack
  <2>2. u \in pushed[m]
    BY <1>1, <2>1, EarlierPushed
  <2> QED
    BY <2>1, <2>2, AheadKept DEF PairIInv, OrderKept
<1>3. CASE t \in pushed'[m] \ pushed[m]
  <2>1. u \in pushed[m]
    BY <1>1, <1>3, NewPush
  <2>2. Ahead(m, u, t)
    <3>1. Range(putQueue[m]) \subseteq pushed[m]
      BY <1>1 DEF IInv, HistorySound
    <3>2. t \notin begun[m] \cup monTask[m] \cup Range(readyQueue[m][Role(m, t)])
      BY <1>3, <1>a DEF PairIInv, PipeSound, PipeAt
    <3> QED
      BY <1>3, <1>a, <3>1, <3>2 DEF Ahead, Ready
  <2> QED
    BY <2>1, <2>2, AheadKept
<1>4. CASE t \notin pushed'[m]
  <2>1. Range(putQueue'[m]) \subseteq pushed'[m]
    BY DEF HistorySound
  <2>2. t \notin begun'[m] \cup monTask'[m] \cup Range(readyQueue'[m][Role(m, t)])
    BY <1>4, <1>a DEF PipeSound, PipeAt
  <2> QED
    BY <1>4, <1>a, <2>1, <2>2 DEF Ahead, Ready
<1> QED
  BY <1>2, <1>3, <1>4

\* The invariant of the pair: the handshake's, where the tasks of a node are behind
\* its put queue, and that they stay in the order in which the node pushed them.
THEOREM PairInductive == PairSpec => []PairIInv
<1>1. PairInit => PairIInv
  <2> SUFFICES ASSUME PairInit PROVE PairIInv
    OBVIOUS
  <2>1. IInv /\ PairTypeOK /\ PipeSound
    BY InitIInv, PairTypeInit, PipeInit DEF PairInit
  <2>2. OrderKept
    BY RoleFacts DEF PairInit, Init, OrderKept, Ahead, Ready
  <2> QED
    BY <2>1, <2>2 DEF PairIInv
<1>2. PairIInv /\ [PairNext]_pairVars /\ IInv' => PairIInv'
  BY PairTypeNext, PipeNext, OrderNext DEF PairIInv, IInv
<1>3. PairSpec => []IInv
  BY PairImplements, InductiveInvariant, PTL DEF HandshakeSpec
<1> QED
  BY <1>1, <1>2, <1>3, PTL DEF PairSpec

-----------------------------------------------------------------------------
(* The cross wait.                                                         *)

\* Of two tasks pushed by a node and not given up, one precedes the other.
LEMMA SomePrecedes ==
    ASSUME IInv, SameOrder, \A n \in Node : abandoned[n] = {},
           NEW p \in Node, NEW q \in Node, NEW t \in pushed[p], NEW u \in pushed[q], t # u
    PROVE  Rendezvous!Precedes(u, t) \/ Rendezvous!Precedes(t, u)
<1>1. /\ \A n \in Node : t \in Range(popLog[n]) /\ u \in Range(popLog[n])
      /\ \A n \in Node : popLog[n] \in Seq(Task) /\ commitQueue[n] \in Seq(Task)
  BY PushedPopped DEF IInv, TypeOK
<1>2. \A n \in Node : \E i, j \in DOMAIN popLog[n] : popLog[n][i] = u /\ popLog[n][j] = t
  BY <1>1 DEF Range
<1>3. PICK i \in DOMAIN popLog[p], j \in DOMAIN popLog[p] :
          popLog[p][i] = u /\ popLog[p][j] = t
  BY <1>2
<1>4. ASSUME NEW n \in Node
      PROVE  /\ i \in DOMAIN popLog[n] /\ j \in DOMAIN popLog[n]
             /\ popLog[n][i] = u /\ popLog[n][j] = t
  <2>1. PICK k \in DOMAIN popLog[n], l \in DOMAIN popLog[n] :
            popLog[n][k] = u /\ popLog[n][l] = t
    BY <1>2
  <2>2. i = k /\ j = l
    BY <1>3, <2>1, CommittedPlaces, SamePlaces
  <2> QED
    BY <2>1, <2>2
<1>5. i \in Nat /\ j \in Nat /\ i # j
  BY <1>1, <1>3
<1> QED
  BY <1>4, <1>5 DEF Rendezvous!Precedes, Rendezvous!IsBefore

\* Processors of a task's two roles never wait for each other with different tasks.
THEOREM NoCrossWaitCorrect == PairSpec => []NoCrossWait
<1>1. PairIInv => NoCrossWait
  <2> SUFFICES ASSUME PairIInv, SameOrder, \A n \in Node : abandoned[n] = {},
                      NEW n \in Node, NEW t \in Task, NEW u \in Task,
                      Invitor[t] = Invitor[u], WaitsWith(n, t), WaitsWith(Peer(n), u), t # u
               PROVE  FALSE
    BY DEF NoCrossWait
  <2>1. Peer(n) \in Node /\ Peer(Peer(n)) = n
    BY PeerFacts
  <2>2. /\ t \in begun[n] /\ t \notin begun[Peer(n)]
        /\ u \in begun[Peer(n)] /\ u \notin begun[n]
    BY <2>1 DEF WaitsWith, PairIInv, PipeSound, PipeAt
  <2>3. t \in pushed[n] /\ u \in pushed[Peer(n)]
    BY <2>1, <2>2 DEF PairIInv, PipeSound, PipeAt
  <2>4. Rendezvous!Precedes(u, t) \/ Rendezvous!Precedes(t, u)
    BY <2>1, <2>3, SomePrecedes DEF PairIInv
  <2> QED
    BY <2>1, <2>2, <2>4 DEF PairIInv, OrderKept, Ahead
<1> QED
  BY <1>1, PairInductive, PTL

-----------------------------------------------------------------------------
(* No deadlock.                                                            *)

\* The processor of its role has t in its hands.
InHand(n, t) ==
    t \in procTask[n][Role(n, t)] /\ procPc[n][Role(n, t)] # "fetch"

\* What is behind the put queue was taken from it, and a run that began is in the
\* hands of its processor until the node is done with the task.
HeldAt(n) ==
    /\ begun[n] \cup monTask[n] \subseteq taken[n]
    /\ \A r \in Roles : Range(readyQueue[n][r]) \subseteq taken[n]
    /\ ended[n] \subseteq begun[n]
    /\ \A r \in Roles : procPc[n][r] # "fetch" =>
           \E t \in begun[n] : Role(n, t) = r /\ procTask[n][r] = {t}
    /\ \A t \in begun[n] : t \in ended[n] \/ InHand(n, t)

\* A task that is pushed once is in one place.
OnceAt(n) ==
    /\ \A i, j \in DOMAIN putQueue[n] : putQueue[n][i] = putQueue[n][j] => i = j
    /\ Range(putQueue[n]) \cap taken[n] = {}
    /\ \A t \in monTask[n] : t \notin begun[n] \cup Range(Ready(n, t))
    /\ \A r \in Roles :
           /\ \A i, j \in DOMAIN readyQueue[n][r] :
                  readyQueue[n][r][i] = readyQueue[n][r][j] => i = j
           /\ Range(readyQueue[n][r]) \cap begun[n] = {}
    /\ \A t \in begun[n] : InHand(n, t) => t \notin ended[n]

\* It has its slot from the put queue on until its processor gives it back.
SlotAt(n) ==
    LET Returned(t) == InHand(n, t) /\ procPc[n][Role(n, t)] = "working" IN
    /\ \A t \in taken[n] \ ended[n] : t \in requestQueue[n] \/ Returned(t)
    /\ \A t \in requestQueue[n] : t \notin ended[n] /\ ~Returned(t)

PlacesSound ==
    /\ \A n \in Node : HeldAt(n)
    /\ repushed = {} => \A n \in Node : OnceAt(n) /\ SlotAt(n)

\* The state of node m behind its put queue.
PipeSame(m) ==
    UNCHANGED <<taken[m], monTask[m], readyQueue[m], procPc[m], procTask[m], begun[m], ended[m]>>

\* What a step does to node m.
LEMMA NodeKinds ==
    ASSUME PairTypeOK, [PairNext]_pairVars, NEW m \in Node
    PROVE  \/ PipeSame(m) /\ UNCHANGED <<putQueue[m], requestQueue[m]>>
           \/ \E x \in Task :
                  /\ repushed' = {} => x \notin pushed[m]
                  /\ putQueue'[m] = Append(putQueue[m], x)
                  /\ PipeSame(m) /\ UNCHANGED requestQueue[m]
           \/ AddRequest(m) /\ PipeSame(m) /\ UNCHANGED putQueue[m]
           \/ PopPutTask(m) \/ PutReadyTask(m)
           \/ \E r \in Roles : Processor(m, r) \/ FailRun(m, r)
<1> DEFINE Same == PipeSame(m) /\ UNCHANGED <<putQueue[m], requestQueue[m]>>
           Grows == \E x \in Task :
                        /\ repushed' = {} => x \notin pushed[m]
                        /\ putQueue'[m] = Append(putQueue[m], x)
                        /\ PipeSame(m) /\ UNCHANGED requestQueue[m]
           Adds == AddRequest(m) /\ PipeSame(m) /\ UNCHANGED putQueue[m]
<1>0. /\ TypeOK /\ putQueue \in [Node -> Seq(Task)] /\ pushed \in [Node -> SUBSET Task]
      /\ requestQueue \in [Node -> SUBSET Task] /\ taken \in [Node -> SUBSET Task]
      /\ rpTask \in [Node -> Task]
  BY DEF PairTypeOK, TypeOK
<1>1. ASSUME UNCHANGED <<taken, pipeVars>> PROVE PipeSame(m)
  BY <1>1 DEF PipeSame, pipeVars
<1>2. ASSUME UNCHANGED <<taken, pipeVars, putQueue, requestQueue>> PROVE Same
  BY <1>1, <1>2
<1>3. ASSUME NEW n \in Node, NEW x \in Task, PushPutTask(n, x), Notice,
             UNCHANGED <<taken, pipeVars, requestQueue>>
      PROVE  Same \/ Grows
  <2>1. PipeSame(m) /\ UNCHANGED requestQueue[m]
    BY <1>1, <1>3
  <2>2. CASE n # m
    BY <1>0, <1>3, <2>1, <2>2 DEF PushPutTask
  <2>3. CASE n = m
    <3>1. putQueue'[m] = Append(putQueue[m], x) /\ pushed'[m] = pushed[m] \cup {x}
      BY <1>0, <1>3, <2>3 DEF PushPutTask
    <3>2. putQueue'[m] # putQueue[m]
      BY <1>0, <3>1
    <3>3. repushed' = {} => pushed'[m] # pushed[m]
      BY <1>3, <3>2 DEF Notice
    <3> QED
      BY <2>1, <3>1, <3>3
  <2> QED
    BY <2>2, <2>3
<1>4. ASSUME NEW n \in Node, AddRequest(n), UNCHANGED pipeVars PROVE Same \/ Adds
  <2>1. /\ requestQueue' = [requestQueue EXCEPT ![n] = @ \cup {rpTask[n]}]
        /\ UNCHANGED <<putQueue, taken>>
    BY <1>4 DEF AddRequest, logVars
  <2> QED
    BY <1>0, <1>1, <1>4, <2>1
<1> HIDE DEF Same, Grows, Adds
<1>5. ASSUME NEW n \in Node, Thread(n) PROVE Same \/ Grows \/ Adds
  <2>1. ReadyProcessor(n) /\ Notice /\ UNCHANGED pipeVars
    BY <1>5 DEF Thread
  <2>2. CASE PushReady(n)
    BY <1>0, <1>3, <2>1, <2>2 DEF PushReady, tableVars, logVars
  <2>3. CASE AddRequest(n)
    BY <1>4, <2>1, <2>3
  <2>4. CASE ~PushReady(n) /\ ~AddRequest(n)
    BY <1>2, <2>1, <2>4
       DEF ReadyProcessor, PopCommitTask, PeerNotFound, Invoke, MergeReply,
           FindState, FailState, FailWorking, tableVars, logVars
  <2> QED
    BY <2>2, <2>3, <2>4
<1>6. ASSUME NEW n \in Node, NEW t \in Task, Serve(n, t) PROVE Same \/ Grows
  <2>1. Handler(n, t) /\ Notice /\ UNCHANGED pipeVars
    BY <1>6 DEF Serve
  <2>2. CASE HandlePush(n, t)
    BY <1>3, <2>1, <2>2, PeerFacts DEF HandlePush, tableVars, logVars
  <2>3. CASE ~HandlePush(n, t)
    BY <1>2, <2>1, <2>3 DEF Handler, HandleUpdate, HandleFind, HandleLookup, tableVars, logVars
  <2> QED
    BY <2>2, <2>3
<1>7. ASSUME NEW n \in Node, Local(n) PROVE Same
  BY <1>2, <1>7 DEF Local, Register, CallException, Commit, tableVars, logVars
<1>8. ASSUME UNCHANGED pairVars PROVE Same
  BY <1>2, <1>8 DEF pairVars, vars, tableVars, logVars
<1>9. ASSUME NEW n \in Node, n # m,
             PopPutTask(n) \/ PutReadyTask(n) \/ \E r \in Roles : Processor(n, r) \/ FailRun(n, r)
      PROVE  Same
  <2>0. /\ monTask \in [Node -> SUBSET Task] /\ readyQueue \in [Node -> [Roles -> Seq(Task)]]
        /\ procPc \in [Node -> [Roles -> ProcPc]] /\ procTask \in [Node -> [Roles -> SUBSET Task]]
        /\ begun \in [Node -> SUBSET Task] /\ ended \in [Node -> SUBSET Task]
    BY DEF PairTypeOK
  <2> USE DEF Same, PipeSame
  <2>1. CASE PopPutTask(n)
    BY <1>0, <1>9, <2>0, <2>1 DEF PopPutTask, TakePutTask, tableVars
  <2>2. CASE PutReadyTask(n)
    BY <1>0, <1>9, <2>0, <2>2 DEF PutReadyTask, vars, tableVars, logVars
  <2>3. ASSUME NEW r \in Roles, FetchTask(n, r) \/ EndRun(n, r) \/ FailRun(n, r) PROVE Same
    BY <1>0, <1>9, <2>0, <2>3 DEF FetchTask, EndRun, FailRun, vars, tableVars, logVars
  <2>4. ASSUME NEW r \in Roles, ClearTaskState(n, r) PROVE Same
    BY <1>0, <1>9, <2>0, <2>4 DEF ClearTaskState, RemoveTaskState, logVars
  <2>5. ASSUME NEW r \in Roles, ClearRequest(n, r) PROVE Same
    BY <1>0, <1>9, <2>0, <2>5 DEF ClearRequest, RemoveRequest, logVars
  <2>6. ASSUME NEW r \in Roles, ClearWorkingTask(n, r) PROVE Same
    BY <1>0, <1>9, <2>0, <2>6 DEF ClearWorkingTask, RemoveWorkingTask, logVars
  <2> QED
    BY <1>9, <2>1, <2>2, <2>3, <2>4, <2>5, <2>6 DEF Processor
<1>10. \/ Same \/ Grows \/ Adds \/ PopPutTask(m) \/ PutReadyTask(m)
       \/ \E r \in Roles : Processor(m, r) \/ FailRun(m, r)
  BY <1>5, <1>6, <1>7, <1>8, <1>9 DEF PairNext, PairSystem, Monitor
<1> QED
  BY <1>10 DEF Same, Grows, Adds

LEMMA RepushedGrows ==
    ASSUME [PairNext]_pairVars, repushed' = {}
    PROVE  repushed = {}
BY DEF PairNext, PairSystem, Local, Thread, Serve, Notice, Monitor, PopPutTask, PutReadyTask,
   Processor, FetchTask, EndRun, FailRun, ClearTaskState, ClearRequest, ClearWorkingTask, pairVars

\* What a processor's step does to the places of its node.
LEMMA ProcessorKinds ==
    ASSUME PairTypeOK, NEW m \in Node, NEW r \in Roles, Processor(m, r) \/ FailRun(m, r)
    PROVE  /\ UNCHANGED <<putQueue[m], taken[m], monTask[m]>>
           /\ \A q \in Roles \ {r} : UNCHANGED <<readyQueue[m][q], procPc[m][q], procTask[m][q]>>
           /\ \/ FetchTask(m, r) /\ UNCHANGED <<requestQueue[m], ended[m]>>
              \/ /\ procPc[m][r] \in {"run", "state"} /\ procPc'[m][r] \in {"state", "slot"}
                 /\ UNCHANGED <<readyQueue[m][r], procTask[m][r], begun[m], ended[m],
                                requestQueue[m]>>
              \/ /\ procPc[m][r] = "slot" /\ procPc'[m][r] = "working"
                 /\ \E t \in procTask[m][r] : requestQueue'[m] = requestQueue[m] \ {t}
                 /\ UNCHANGED <<readyQueue[m][r], procTask[m][r], begun[m], ended[m]>>
              \/ /\ procPc[m][r] = "working" /\ procPc'[m][r] = "fetch"
                 /\ ended'[m] = ended[m] \cup procTask[m][r]
                 /\ \E t \in procTask[m][r] : t \notin requestQueue[m]
                 /\ UNCHANGED <<readyQueue[m][r], procTask[m][r], begun[m], requestQueue[m]>>
<1>0. /\ monTask \in [Node -> SUBSET Task] /\ readyQueue \in [Node -> [Roles -> Seq(Task)]]
      /\ procPc \in [Node -> [Roles -> ProcPc]] /\ procTask \in [Node -> [Roles -> SUBSET Task]]
      /\ begun \in [Node -> SUBSET Task] /\ ended \in [Node -> SUBSET Task]
      /\ requestQueue \in [Node -> SUBSET Task]
  BY DEF PairTypeOK, TypeOK
<1>1. CASE FetchTask(m, r)
  BY <1>0, <1>1 DEF FetchTask, vars, tableVars, logVars
<1>2. CASE EndRun(m, r) \/ FailRun(m, r)
  BY <1>0, <1>2 DEF EndRun, FailRun, vars, tableVars, logVars
<1>3. CASE ClearTaskState(m, r)
  BY <1>0, <1>3 DEF ClearTaskState, RemoveTaskState, logVars
<1>4. CASE ClearRequest(m, r)
  <2>1. PICK t \in procTask[m][r] : RemoveRequest(m, t)
    BY <1>4 DEF ClearRequest
  <2>2. /\ requestQueue'[m] = requestQueue[m] \ {t}
        /\ UNCHANGED <<putQueue, taken>>
    BY <1>0, <2>1 DEF RemoveRequest, logVars
  <2> QED
    BY <1>0, <1>4, <2>2 DEF ClearRequest
<1>5. CASE ClearWorkingTask(m, r)
  <2>1. PICK t \in procTask[m][r] : RemoveWorkingTask(m, t)
    BY <1>5 DEF ClearWorkingTask
  <2>2. t \notin requestQueue[m] /\ UNCHANGED <<putQueue, taken, requestQueue>>
    BY <2>1 DEF RemoveWorkingTask, logVars
  <2> QED
    BY <1>0, <1>5, <2>2 DEF ClearWorkingTask
<1> QED
  BY <1>1, <1>2, <1>3, <1>4, <1>5 DEF Processor

\* The tail of a sequence without repetition, and the sequence with a new element,
\* have none either.
LEMMA NoRepeat ==
    ASSUME NEW S, NEW s \in Seq(S), \A i, j \in DOMAIN s : s[i] = s[j] => i = j
    PROVE  /\ s # << >> => /\ \A i, j \in DOMAIN Tail(s) : Tail(s)[i] = Tail(s)[j] => i = j
                           /\ Head(s) \notin Range(Tail(s))
           /\ \A x \in S \ Range(s) : \A i, j \in DOMAIN Append(s, x) :
                  Append(s, x)[i] = Append(s, x)[j] => i = j
<1>1. ASSUME s # << >>
      PROVE  /\ \A i, j \in DOMAIN Tail(s) : Tail(s)[i] = Tail(s)[j] => i = j
             /\ Head(s) \notin Range(Tail(s))
  <2>1. \A i \in DOMAIN Tail(s) : i \in Nat \ {0} /\ i + 1 \in DOMAIN s /\ Tail(s)[i] = s[i + 1]
    BY <1>1
  <2>2. 1 \in DOMAIN s /\ s[1] = Head(s)
    BY <1>1
  <2>3. \A i, j \in DOMAIN Tail(s) : Tail(s)[i] = Tail(s)[j] => i = j
    BY <2>1
  <2>4. \A i \in DOMAIN Tail(s) : Tail(s)[i] # Head(s)
    BY <2>1, <2>2
  <2> QED
    BY <2>3, <2>4 DEF Range
<1>2. ASSUME NEW x \in S \ Range(s), NEW i \in DOMAIN Append(s, x), NEW j \in DOMAIN Append(s, x),
             Append(s, x)[i] = Append(s, x)[j]
      PROVE  i = j
  <2>1. \A k \in DOMAIN s : s[k] # x
    BY DEF Range
  <2> QED
    BY <1>2, <2>1, AppendPlaces
<1> QED
  BY <1>1, <1>2

LEMMA PlacesInit == PairInit => PlacesSound
BY DEF PairInit, Init, PlacesSound, HeldAt, OnceAt, SlotAt, InHand, Ready, Range

\* The types of what node m has behind its put queue.
LEMMA PlaceTypes ==
    ASSUME PairTypeOK, NEW m \in Node
    PROVE  /\ putQueue[m] \in Seq(Task)
           /\ monTask[m] \subseteq Task /\ begun[m] \subseteq Task /\ ended[m] \subseteq Task
           /\ taken[m] \subseteq Task /\ requestQueue[m] \subseteq Task
           /\ \A t \in Task : Role(m, t) \in Roles
           /\ \A r \in Roles : readyQueue[m][r] \in Seq(Task) /\ procTask[m][r] \subseteq Task
BY RoleFacts DEF PairTypeOK, TypeOK

\* What the queues' steps do to node m.
LEMMA PopPutPlaces ==
    ASSUME PairTypeOK, NEW m \in Node, PopPutTask(m)
    PROVE  /\ putQueue[m] # << >> /\ putQueue'[m] = Tail(putQueue[m])
           /\ taken'[m] = taken[m] \cup {Head(putQueue[m])}
           /\ monTask'[m] = {Head(putQueue[m])}
           /\ UNCHANGED <<readyQueue[m], procPc[m], procTask[m], begun[m], ended[m], requestQueue[m]>>
BY DEF PopPutTask, TakePutTask, PairTypeOK, TypeOK, tableVars

LEMMA PutReadyPlaces ==
    ASSUME PairTypeOK, NEW m \in Node, PutReadyTask(m)
    PROVE  \E x \in monTask[m] :
             /\ readyQueue'[m] = [readyQueue[m] EXCEPT ![Role(m, x)] = Append(@, x)]
             /\ monTask'[m] = {}
             /\ UNCHANGED <<putQueue[m], taken[m], procPc[m], procTask[m], begun[m], ended[m],
                            requestQueue[m]>>
BY DEF PutReadyTask, PairTypeOK, vars, tableVars, logVars

LEMMA FetchPlaces ==
    ASSUME PairTypeOK, NEW m \in Node, NEW r \in Roles, FetchTask(m, r)
    PROVE  /\ procPc[m][r] = "fetch" /\ procPc'[m][r] = "run"
           /\ readyQueue[m][r] # << >> /\ readyQueue'[m][r] = Tail(readyQueue[m][r])
           /\ procTask'[m][r] = {Head(readyQueue[m][r])}
           /\ begun'[m] = begun[m] \cup {Head(readyQueue[m][r])}
BY DEF FetchTask, PairTypeOK

LEMMA HeldNext ==
    ASSUME PairTypeOK, PipeSound, NEW m \in Node, HeldAt(m), [PairNext]_pairVars
    PROVE  HeldAt(m)'
<1>0. /\ putQueue[m] \in Seq(Task)
      /\ monTask[m] \subseteq Task /\ begun[m] \subseteq Task /\ ended[m] \subseteq Task
      /\ taken[m] \subseteq Task
      /\ \A t \in Task : Role(m, t) \in Roles
      /\ \A r \in Roles : readyQueue[m][r] \in Seq(Task) /\ procTask[m][r] \subseteq Task
  BY PlaceTypes
<1>1. CASE UNCHANGED <<taken[m], monTask[m], readyQueue[m], procPc[m], procTask[m], begun[m], ended[m]>>
  BY <1>1 DEF HeldAt, InHand
<1>2. CASE PopPutTask(m)
  BY <1>2, PopPutPlaces DEF HeldAt, InHand
<1>3. CASE PutReadyTask(m)
  <2>1. PICK x \in monTask[m] :
             /\ readyQueue'[m] = [readyQueue[m] EXCEPT ![Role(m, x)] = Append(@, x)]
             /\ monTask'[m] = {}
             /\ UNCHANGED <<putQueue[m], taken[m], procPc[m], procTask[m], begun[m], ended[m],
                            requestQueue[m]>>
    BY <1>3, PutReadyPlaces
  <2>2. Range(Append(readyQueue[m][Role(m, x)], x)) = Range(readyQueue[m][Role(m, x)]) \cup {x}
    BY <1>0, RangeAppend
  <2>3. \A r \in Roles : readyQueue'[m][r] = IF r = Role(m, x)
                                             THEN Append(readyQueue[m][r], x)
                                             ELSE readyQueue[m][r]
    BY <2>1 DEF PairTypeOK
  <2>4. \A r \in Roles : Range(readyQueue'[m][r]) \subseteq taken'[m]
    BY <2>1, <2>2, <2>3 DEF HeldAt
  <2> QED
    BY <2>1, <2>4 DEF HeldAt, InHand
<1>4. ASSUME NEW r \in Roles, Processor(m, r) \/ FailRun(m, r) PROVE HeldAt(m)'
  <2>0. /\ UNCHANGED <<putQueue[m], taken[m], monTask[m]>>
        /\ \A q \in Roles \ {r} : UNCHANGED <<readyQueue[m][q], procPc[m][q], procTask[m][q]>>
    BY <1>4, ProcessorKinds
  <2>1. CASE FetchTask(m, r) /\ UNCHANGED <<requestQueue[m], ended[m]>>
    <3>1. PICK x \in Range(readyQueue[m][r]) :
             /\ procPc[m][r] = "fetch" /\ procPc'[m][r] = "run"
             /\ Range(readyQueue'[m][r]) \subseteq Range(readyQueue[m][r])
             /\ procTask'[m][r] = {x} /\ begun'[m] = begun[m] \cup {x} /\ ended'[m] = ended[m]
      BY <1>0, <2>1, FetchPlaces, RangeTail
    <3>2. x \in taken[m] /\ Role(m, x) = r
      BY DEF HeldAt, PipeSound, PipeAt
    <3>4. \A t \in begun[m] : t \in ended'[m] \/ InHand(m, t)'
      BY <1>0, <2>0, <3>1 DEF HeldAt, InHand
    <3>5. InHand(m, x)'
      BY <3>1, <3>2 DEF InHand
    <3>6. \A q \in Roles : procPc'[m][q] # "fetch" =>
              \E t \in begun'[m] : Role(m, t) = q /\ procTask'[m][q] = {t}
      BY <2>0, <3>1, <3>2 DEF HeldAt
    <3>7. \A q \in Roles : Range(readyQueue'[m][q]) \subseteq taken'[m]
      BY <2>0, <3>1 DEF HeldAt
    <3> QED
      BY <2>0, <3>1, <3>2, <3>4, <3>5, <3>6, <3>7 DEF HeldAt
  <2>2. CASE /\ procPc[m][r] # "fetch" /\ procPc'[m][r] # "fetch"
             /\ UNCHANGED <<readyQueue[m][r], procTask[m][r], begun[m], ended[m]>>
    BY <1>0, <2>0, <2>2 DEF HeldAt, InHand
  <2>3. CASE /\ procPc[m][r] = "working" /\ procPc'[m][r] = "fetch"
             /\ ended'[m] = ended[m] \cup procTask[m][r]
             /\ UNCHANGED <<readyQueue[m][r], procTask[m][r], begun[m]>>
    <3>1. PICK x \in begun[m] : Role(m, x) = r /\ procTask[m][r] = {x}
      BY <2>3 DEF HeldAt
    <3>2. \A t \in begun[m] : t \in ended'[m] \/ InHand(m, t)'
      <4> SUFFICES ASSUME NEW t \in begun[m] PROVE t \in ended'[m] \/ InHand(m, t)'
        OBVIOUS
      <4>1. CASE t \in ended[m] \/ t = x
        BY <2>3, <3>1, <4>1
      <4>2. CASE t \notin ended[m] /\ t # x
        <5>1. InHand(m, t)
          BY <4>2 DEF HeldAt
        <5>2. Role(m, t) \in Roles \ {r}
          BY <1>0, <3>1, <4>2, <5>1 DEF InHand
        <5> QED
          BY <2>0, <5>1, <5>2 DEF InHand
      <4> QED
        BY <4>1, <4>2
    <3>3. \A q \in Roles : procPc'[m][q] # "fetch" =>
              \E t \in begun'[m] : Role(m, t) = q /\ procTask'[m][q] = {t}
      BY <2>0, <2>3 DEF HeldAt
    <3>4. \A q \in Roles : Range(readyQueue'[m][q]) \subseteq taken'[m]
      BY <2>0, <2>3 DEF HeldAt
    <3>5. ended'[m] \subseteq begun'[m] /\ begun'[m] \cup monTask'[m] \subseteq taken'[m]
      BY <2>0, <2>3, <3>1 DEF HeldAt
    <3> QED
      BY <2>3, <3>2, <3>3, <3>4, <3>5 DEF HeldAt
  <2> QED
    BY <1>4, <2>1, <2>2, <2>3, ProcessorKinds
<1> QED
  BY <1>1, <1>2, <1>3, <1>4, NodeKinds DEF PipeSame

LEMMA OnceNext ==
    ASSUME PairTypeOK, HistorySound, PipeSound, NEW m \in Node, HeldAt(m), OnceAt(m),
           [PairNext]_pairVars, repushed' = {}
    PROVE  OnceAt(m)'
<1>0. /\ putQueue[m] \in Seq(Task)
      /\ monTask[m] \subseteq Task /\ begun[m] \subseteq Task /\ ended[m] \subseteq Task
      /\ taken[m] \subseteq Task
      /\ \A t \in Task : Role(m, t) \in Roles
      /\ \A r \in Roles : readyQueue[m][r] \in Seq(Task) /\ procTask[m][r] \subseteq Task
  BY PlaceTypes
<1>1. CASE PipeSame(m) /\ UNCHANGED putQueue[m]
  BY <1>1 DEF PipeSame, OnceAt, InHand, Ready
<1>2. ASSUME NEW x \in Task \ pushed[m], putQueue'[m] = Append(putQueue[m], x), PipeSame(m)
      PROVE  OnceAt(m)'
  <2>1. x \notin Range(putQueue[m]) \cup taken[m]
    BY DEF HistorySound
  <2>2. Range(putQueue'[m]) = Range(putQueue[m]) \cup {x}
    BY <1>0, <1>2, RangeAppend
  <2>3. \A i, j \in DOMAIN putQueue'[m] : putQueue'[m][i] = putQueue'[m][j] => i = j
    <3> DEFINE s == putQueue[m]
    <3>1. s \in Seq(Task) /\ \A i, j \in DOMAIN s : s[i] = s[j] => i = j
      BY <1>0 DEF OnceAt
    <3> HIDE DEF s
    <3>2. \A i, j \in DOMAIN Append(s, x) : Append(s, x)[i] = Append(s, x)[j] => i = j
      BY <2>1, <3>1, NoRepeat DEF s
    <3> QED
      BY <1>2, <3>2 DEF s
  <2> QED
    BY <1>2, <2>1, <2>2, <2>3 DEF PipeSame, OnceAt, InHand, Ready
<1>3. CASE PopPutTask(m)
  <2> DEFINE s == putQueue[m]
             x == Head(s)
  <2>1. /\ s # << >> /\ putQueue'[m] = Tail(s) /\ taken'[m] = taken[m] \cup {x}
        /\ monTask'[m] = {x}
        /\ UNCHANGED <<readyQueue[m], procPc[m], procTask[m], begun[m], ended[m]>>
    BY <1>3, PopPutPlaces
  <2>2. /\ s \in Seq(Task) /\ \A i, j \in DOMAIN s : s[i] = s[j] => i = j
        /\ Range(s) \cap taken[m] = {}
    BY <1>0 DEF OnceAt
  <2> HIDE DEF s
  <2>3. /\ \A i, j \in DOMAIN Tail(s) : Tail(s)[i] = Tail(s)[j] => i = j
        /\ x \notin Range(Tail(s))
    BY <2>1, <2>2, NoRepeat
  <2>4. x \in Task /\ x \notin taken[m] /\ Range(Tail(s)) \subseteq Range(s)
    BY <2>1, <2>2, RangeTail
  <2>5. x \notin begun[m] \cup Range(Ready(m, x))
    BY <1>0, <2>4 DEF HeldAt, Ready
  <2> HIDE DEF x
  <2> QED
    BY <2>1, <2>2, <2>3, <2>4, <2>5 DEF OnceAt, InHand, Ready
<1>4. CASE PutReadyTask(m)
  <2>1. PICK x \in monTask[m] :
             /\ readyQueue'[m] = [readyQueue[m] EXCEPT ![Role(m, x)] = Append(@, x)]
             /\ monTask'[m] = {}
             /\ UNCHANGED <<putQueue[m], taken[m], procPc[m], procTask[m], begun[m], ended[m],
                            requestQueue[m]>>
    BY <1>4, PutReadyPlaces
  <2> DEFINE s == readyQueue[m][Role(m, x)]
  <2>2. /\ s \in Seq(Task) /\ \A i, j \in DOMAIN s : s[i] = s[j] => i = j
        /\ x \in Task \ Range(s) /\ x \notin begun[m] /\ Range(s) \cap begun[m] = {}
    BY <1>0 DEF OnceAt, Ready
  <2>3. \A r \in Roles : readyQueue'[m][r] = IF r = Role(m, x) THEN Append(s, x)
                                             ELSE readyQueue[m][r]
    BY <2>1 DEF PairTypeOK
  <2> HIDE DEF s
  <2>4. /\ Range(Append(s, x)) = Range(s) \cup {x}
        /\ \A i, j \in DOMAIN Append(s, x) : Append(s, x)[i] = Append(s, x)[j] => i = j
    BY <2>2, RangeAppend, NoRepeat
  <2>5. ASSUME NEW r \in Roles
        PROVE  /\ \A i, j \in DOMAIN readyQueue'[m][r] :
                      readyQueue'[m][r][i] = readyQueue'[m][r][j] => i = j
               /\ Range(readyQueue'[m][r]) \cap begun'[m] = {}
    <3>1. CASE r = Role(m, x)
      <4>1. readyQueue'[m][r] = Append(s, x)
        BY <2>3, <3>1
      <4> QED
        BY <2>1, <2>2, <2>4, <4>1
    <3>2. CASE r # Role(m, x)
      <4>1. readyQueue'[m][r] = readyQueue[m][r]
        BY <2>3, <3>2
      <4> QED
        BY <2>1, <4>1 DEF OnceAt
    <3> QED
      BY <3>1, <3>2
  <2> QED
    BY <2>1, <2>5 DEF OnceAt, InHand
<1>5. ASSUME NEW r \in Roles, Processor(m, r) \/ FailRun(m, r) PROVE OnceAt(m)'
  <2>0. /\ UNCHANGED <<putQueue[m], taken[m], monTask[m]>>
        /\ \A q \in Roles \ {r} : UNCHANGED <<readyQueue[m][q], procPc[m][q], procTask[m][q]>>
    BY <1>5, ProcessorKinds
  <2>1. CASE FetchTask(m, r) /\ UNCHANGED <<requestQueue[m], ended[m]>>
    <3> DEFINE s == readyQueue[m][r]
               x == Head(s)
    <3>1. /\ procPc[m][r] = "fetch" /\ s # << >> /\ readyQueue'[m][r] = Tail(s)
          /\ procTask'[m][r] = {x} /\ begun'[m] = begun[m] \cup {x}
          /\ procPc'[m][r] = "run" /\ ended'[m] = ended[m]
      BY <2>1, FetchPlaces
    <3>2. /\ s \in Seq(Task) /\ \A i, j \in DOMAIN s : s[i] = s[j] => i = j
          /\ Range(s) \cap begun[m] = {} /\ \A t \in Range(s) : Role(m, t) = r
      BY <1>0 DEF OnceAt, PipeSound, PipeAt
    <3> HIDE DEF s
    <3>3. /\ \A i, j \in DOMAIN Tail(s) : Tail(s)[i] = Tail(s)[j] => i = j
          /\ x \notin Range(Tail(s)) /\ x \in Range(s) /\ Range(Tail(s)) \subseteq Range(s)
          /\ Range(s) = {x} \cup Range(Tail(s)) /\ x \in Task
      BY <3>1, <3>2, NoRepeat, RangeTail, RangeHeadTail
    <3>4. x \notin begun[m] /\ x \notin ended[m] /\ Role(m, x) = r
      BY <3>2, <3>3 DEF HeldAt
    <3> HIDE DEF x
    <3>5. ASSUME NEW q \in Roles
          PROVE  /\ \A i, j \in DOMAIN readyQueue'[m][q] :
                        readyQueue'[m][q][i] = readyQueue'[m][q][j] => i = j
                 /\ Range(readyQueue'[m][q]) \cap begun'[m] = {}
      <4>1. CASE q # r
        <5>1. x \notin Range(readyQueue[m][q])
          BY <3>4, <4>1 DEF PipeSound, PipeAt
        <5>2. readyQueue'[m][q] = readyQueue[m][q]
          BY <2>0, <4>1
        <5> QED
          BY <3>1, <5>1, <5>2 DEF OnceAt
      <4>2. CASE q = r
        <5>1. readyQueue'[m][q] = Tail(s)
          BY <3>1, <4>2
        <5> QED
          BY <3>1, <3>2, <3>3, <5>1
      <4> QED
        BY <4>1, <4>2
    <3>6. \A t \in monTask'[m] : t \notin begun'[m] \cup Range(Ready(m, t)')
      <4> SUFFICES ASSUME NEW t \in monTask[m]
                   PROVE  t \notin begun'[m] \cup Range(readyQueue'[m][Role(m, t)])
        BY <2>0 DEF Ready
      <4>1. t \in Task /\ Role(m, t) \in Roles
        BY <1>0
      <4>2. t \notin begun[m] /\ t \notin Range(readyQueue[m][Role(m, t)])
        BY DEF OnceAt, Ready
      <4>3. t # x
        BY <3>3, <3>4, <4>2 DEF s
      <4>4. Range(readyQueue'[m][Role(m, t)]) \subseteq Range(readyQueue[m][Role(m, t)])
        BY <2>0, <3>1, <3>3, <4>1 DEF s
      <4> QED
        BY <3>1, <4>2, <4>3, <4>4
    <3>7. \A t \in begun'[m] : InHand(m, t)' => t \notin ended'[m]
      <4> SUFFICES ASSUME NEW t \in begun'[m], InHand(m, t)' PROVE t \notin ended[m]
        BY <3>1
      <4>1. t \in Task /\ Role(m, t) \in Roles /\ t \in begun[m] \cup {x}
        BY <1>0, <3>1, <3>3
      <4>2. CASE t = x
        BY <3>4, <4>2
      <4>3. CASE t # x
        <5>1. Role(m, t) # r
          BY <3>1, <4>3 DEF InHand
        <5>2. InHand(m, t)
          BY <2>0, <4>1, <5>1 DEF InHand
        <5> QED
          BY <4>1, <4>3, <5>2 DEF OnceAt
      <4> QED
        BY <4>2, <4>3
    <3> QED
      BY <2>0, <3>5, <3>6, <3>7 DEF OnceAt
  <2>2. CASE /\ procPc[m][r] # "fetch" /\ procPc'[m][r] # "fetch"
             /\ UNCHANGED <<readyQueue[m][r], procTask[m][r], begun[m], ended[m]>>
    <3>1. \A t \in Task : InHand(m, t)' <=> InHand(m, t)
      BY <1>0, <2>0, <2>2 DEF InHand
    <3>2. /\ \A q \in Roles : readyQueue'[m][q] = readyQueue[m][q]
          /\ \A t \in Task : Ready(m, t)' = Ready(m, t)
      BY <1>0, <2>0, <2>2 DEF Ready
    <3> QED
      BY <1>0, <2>0, <2>2, <3>1, <3>2 DEF OnceAt
  <2>3. CASE /\ procPc[m][r] = "working" /\ procPc'[m][r] = "fetch"
             /\ ended'[m] = ended[m] \cup procTask[m][r]
             /\ UNCHANGED <<readyQueue[m][r], procTask[m][r], begun[m]>>
    <3>1. PICK x \in begun[m] : Role(m, x) = r /\ procTask[m][r] = {x}
      BY <2>3 DEF HeldAt
    <3>2. \A t \in begun[m] : InHand(m, t)' => InHand(m, t) /\ t # x
      BY <1>0, <2>0, <2>3, <3>1 DEF InHand
    <3>3. /\ \A q \in Roles : readyQueue'[m][q] = readyQueue[m][q]
          /\ \A t \in Task : Ready(m, t)' = Ready(m, t)
      BY <1>0, <2>0, <2>3 DEF Ready
    <3> QED
      BY <1>0, <2>0, <2>3, <3>1, <3>2, <3>3 DEF OnceAt
  <2> QED
    BY <1>5, <2>1, <2>2, <2>3, ProcessorKinds
<1> QED
  BY <1>1, <1>2, <1>3, <1>4, <1>5, NodeKinds

LEMMA SlotNext ==
    ASSUME PairTypeOK, IInv, PipeSound, NEW m \in Node, HeldAt(m), OnceAt(m), SlotAt(m),
           [PairNext]_pairVars, repushed' = {}
    PROVE  SlotAt(m)'
<1> DEFINE Returned(t) == InHand(m, t) /\ procPc[m][Role(m, t)] = "working"
<1>0. /\ putQueue[m] \in Seq(Task)
      /\ monTask[m] \subseteq Task /\ begun[m] \subseteq Task /\ ended[m] \subseteq Task
      /\ taken[m] \subseteq Task /\ requestQueue[m] \subseteq Task
      /\ \A t \in Task : Role(m, t) \in Roles
      /\ \A r \in Roles : readyQueue[m][r] \in Seq(Task) /\ procTask[m][r] \subseteq Task
  BY PlaceTypes
<1>a. /\ \A t \in taken[m] \ ended[m] : t \in requestQueue[m] \/ Returned(t)
      /\ \A t \in requestQueue[m] : t \notin ended[m] /\ ~Returned(t)
  BY DEF SlotAt
<1>b. \A t \in Task : InHand(m, t) => t \in begun[m] /\ procTask[m][Role(m, t)] = {t}
  BY <1>0 DEF InHand, HeldAt
<1>1. CASE PipeSame(m) /\ UNCHANGED requestQueue[m]
  BY <1>1 DEF PipeSame, SlotAt, InHand
<1>2. CASE AddRequest(m) /\ PipeSame(m)
  <2>1. rpPc[m] = "add" /\ requestQueue'[m] = requestQueue[m] \cup {rpTask[m]} /\ rpTask[m] \in Task
    BY <1>2 DEF AddRequest, IInv, TypeOK
  <2>2. rpTask[m] \notin taken[m]
    BY <2>1, RpTaskFacts DEF IInv, PushedSound, HistorySound
  <2>3. rpTask[m] \notin ended[m] /\ ~InHand(m, rpTask[m])
    BY <1>b, <2>1, <2>2 DEF HeldAt
  <2> QED
    BY <1>2, <1>a, <2>1, <2>3 DEF PipeSame, SlotAt, InHand
<1>3. CASE PopPutTask(m)
  <2> DEFINE x == Head(putQueue[m])
  <2>1. /\ putQueue[m] # << >> /\ taken'[m] = taken[m] \cup {x}
        /\ UNCHANGED <<procPc[m], procTask[m], ended[m], requestQueue[m]>>
    BY <1>3, PopPutPlaces
  <2>2. x \in Range(putQueue[m])
    BY <1>0, <2>1, RangeTail
  <2>3. x \in pushed[m] /\ x \notin taken[m]
    BY <2>2 DEF IInv, HistorySound, OnceAt
  <2> HIDE DEF x
  <2>4. Merged(m, x)
    BY <2>3 DEF IInv, PushedSound
  <2>5. x \in requestQueue[m]
    BY <2>3, <2>4 DEF IInv, SlotsSound, InFlight, Merged
  <2> QED
    BY <1>a, <2>1, <2>5 DEF SlotAt, InHand
<1>4. CASE PutReadyTask(m)
  BY <1>4, <1>a, PutReadyPlaces DEF SlotAt, InHand
<1>5. ASSUME NEW r \in Roles, Processor(m, r) \/ FailRun(m, r) PROVE SlotAt(m)'
  <2>0. /\ UNCHANGED <<putQueue[m], taken[m], monTask[m]>>
        /\ \A q \in Roles \ {r} : UNCHANGED <<readyQueue[m][q], procPc[m][q], procTask[m][q]>>
    BY <1>5, ProcessorKinds
  <2>1. \A t \in Task : Role(m, t) # r => (Returned(t)' <=> Returned(t))
    BY <1>0, <2>0 DEF InHand
  <2>2. CASE FetchTask(m, r) /\ UNCHANGED <<requestQueue[m], ended[m]>>
    <3>1. procPc[m][r] = "fetch" /\ procPc'[m][r] = "run"
      BY <2>2, FetchPlaces
    <3>2. \A t \in Task : Returned(t)' <=> Returned(t)
      BY <2>1, <3>1
    <3> HIDE DEF Returned
    <3>3. /\ \A t \in taken'[m] \ ended'[m] : t \in requestQueue'[m] \/ Returned(t)'
          /\ \A t \in requestQueue'[m] : t \notin ended'[m] /\ ~Returned(t)'
      BY <1>0, <1>a, <2>0, <2>2, <3>2
    <3> QED
      BY <3>3 DEF SlotAt, Returned
  <2>3. CASE /\ procPc[m][r] \in {"run", "state"} /\ procPc'[m][r] \in {"state", "slot"}
             /\ UNCHANGED <<procTask[m][r], ended[m], requestQueue[m]>>
    <3>1. \A t \in Task : Returned(t)' <=> Returned(t)
      BY <2>1, <2>3
    <3> HIDE DEF Returned
    <3>2. /\ \A t \in taken'[m] \ ended'[m] : t \in requestQueue'[m] \/ Returned(t)'
          /\ \A t \in requestQueue'[m] : t \notin ended'[m] /\ ~Returned(t)'
      BY <1>0, <1>a, <2>0, <2>3, <3>1
    <3> QED
      BY <3>2 DEF SlotAt, Returned
  <2>4. ASSUME procPc[m][r] # "fetch"
        PROVE  \E x \in begun[m] : Role(m, x) = r /\ procTask[m][r] = {x}
    BY <2>4 DEF HeldAt
  <2>5. CASE /\ procPc[m][r] = "slot" /\ procPc'[m][r] = "working"
             /\ \E t \in procTask[m][r] : requestQueue'[m] = requestQueue[m] \ {t}
             /\ UNCHANGED <<procTask[m][r], begun[m], ended[m]>>
    <3>1. PICK x \in begun[m] : Role(m, x) = r /\ procTask[m][r] = {x}
      BY <2>4, <2>5
    <3>2. requestQueue'[m] = requestQueue[m] \ {x} /\ x \in Task
      BY <1>0, <2>5, <3>1
    <3>3. Returned(x)' /\ \A t \in Task \ {x} : Returned(t)' <=> Returned(t)
      BY <2>1, <2>5, <3>1 DEF InHand
    <3> HIDE DEF Returned
    <3>4. /\ \A t \in taken'[m] \ ended'[m] : t \in requestQueue'[m] \/ Returned(t)'
          /\ \A t \in requestQueue'[m] : t \notin ended'[m] /\ ~Returned(t)'
      BY <1>0, <1>a, <2>0, <2>5, <3>2, <3>3
    <3> QED
      BY <3>4 DEF SlotAt, Returned
  <2>6. CASE /\ procPc[m][r] = "working" /\ procPc'[m][r] = "fetch"
             /\ ended'[m] = ended[m] \cup procTask[m][r]
             /\ \E t \in procTask[m][r] : t \notin requestQueue[m]
             /\ UNCHANGED <<procTask[m][r], begun[m], requestQueue[m]>>
    <3>1. PICK x \in begun[m] : Role(m, x) = r /\ procTask[m][r] = {x}
      BY <2>4, <2>6
    <3>2. x \notin requestQueue[m] /\ ended'[m] = ended[m] \cup {x}
      BY <2>6, <3>1
    <3>3. \A t \in Task \ {x} : Returned(t)' <=> Returned(t)
      BY <2>1, <2>6, <3>1 DEF InHand
    <3> HIDE DEF Returned
    <3>4. /\ \A t \in taken'[m] \ ended'[m] : t \in requestQueue'[m] \/ Returned(t)'
          /\ \A t \in requestQueue'[m] : t \notin ended'[m] /\ ~Returned(t)'
      BY <1>0, <1>a, <2>0, <2>6, <3>2, <3>3
    <3> QED
      BY <3>4 DEF SlotAt, Returned
  <2> QED
    BY <1>5, <2>2, <2>3, <2>5, <2>6, ProcessorKinds
<1> QED
  BY <1>1, <1>2, <1>3, <1>4, <1>5, NodeKinds

\* Where the tasks of a node are, and which slots are taken.
THEOREM PlacesInductive == PairSpec => []PlacesSound
<1>1. PairIInv /\ PlacesSound /\ [PairNext]_pairVars => PlacesSound'
  <2> SUFFICES ASSUME PairIInv, PlacesSound, [PairNext]_pairVars PROVE PlacesSound'
    OBVIOUS
  <2>1. PairTypeOK /\ IInv /\ HistorySound /\ PipeSound
    BY DEF PairIInv, IInv
  <2>2. \A n \in Node : HeldAt(n)'
    BY <2>1, HeldNext DEF PlacesSound
  <2>3. ASSUME repushed' = {}, NEW n \in Node PROVE OnceAt(n)' /\ SlotAt(n)'
    <3>1. HeldAt(n) /\ OnceAt(n) /\ SlotAt(n)
      BY <2>3, RepushedGrows DEF PlacesSound
    <3> QED
      BY <2>1, <2>3, <3>1, OnceNext, SlotNext
  <2> QED
    BY <2>2, <2>3 DEF PlacesSound
<1> QED
  BY <1>1, PlacesInit, PairInductive, PTL DEF PairSpec

\* A nonempty set of numbers has a least one.
LEMMA LeastNatural ==
    ASSUME NEW T, T \subseteq Nat, T # {}
    PROVE  \E i \in T : \A k \in T : i <= k
<1>1. PICK i \in T : \A k \in T : <<k, i>> \notin OpToRel(<, Nat)
  BY WFMin, NatLessThanWellFounded, Zenon
<1>2. \A k \in T : ~(k < i)
  BY <1>1, Zenon DEF OpToRel
<1> QED
  BY <1>2

\* The pair has nothing to do, and was asked the same of both nodes.
QuietPair ==
    /\ PairIInv /\ PlacesSound /\ WaitsSound /\ TakenInOrder
    /\ PairQuiet /\ SameOrder /\ registered = Node
    /\ \A n \in Node : abandoned[n] = {}
    /\ repushed = {}

\* Task x was committed at both nodes in place i, and both are done with what was
\* committed at both before.
First(i, x) ==
    /\ \A n \in Node : i \in DOMAIN Committed(n) /\ Committed(n)[i] = x
    /\ \A n, m \in Node, k \in 1 .. i - 1 :
           k \in DOMAIN Committed(n) => Committed(n)[k] \in ended[m]

LEMMA FirstPushed ==
    ASSUME QuietPair, NEW i \in Nat, NEW x \in Task, First(i, x), NEW n \in Node
    PROVE  x \in pushed[n]
<1>0. IInv /\ WaitsSound /\ \A m \in Node : ThreadWaits(m) /\ Unserved(m) /\ SlotAt(m)
  BY DEF QuietPair, PairIInv, PairQuiet, PlacesSound
<1>1. ASSUME NEW m \in Node PROVE Merged(m, x)
  <2> SUFFICES ASSUME ~Merged(m, x) PROVE FALSE
    OBVIOUS
  <2>1. i \in DOMAIN Committed(m) /\ Committed(m)[i] = x
    BY DEF First
  <2>2. PICK k \in DOMAIN popLog[m] : k < i /\ popLog[m][k] \in requestQueue[m]
    <3>1. GivenUp = {}
      BY DEF QuietPair, GivenUp
    <3>2. Cardinality(GivenUp) < ProcessorNum
      BY <3>1, FS_EmptySet, BoundsAssumption
    <3> QED
      BY <1>0, <2>1, <3>1, <3>2, WaitsForSlot DEF QuietPair
  <2>3. k \in DOMAIN Committed(m) /\ Committed(m)[k] = popLog[m][k] /\ k \in 1 .. i - 1
    BY <1>0, <2>2, CommittedPlaces
  <2>4. popLog[m][k] \in ended[m]
    BY <2>3 DEF First
  <2> QED
    BY <1>0, <2>2, <2>4 DEF SlotAt
<1> QED
  BY <1>0, <1>1, MergedPushed, PeerFacts

\* It precedes whatever else a node has pushed and is not done with.
LEMMA FirstPrecedes ==
    ASSUME QuietPair, NEW i \in Nat, NEW x \in Task, First(i, x), NEW n \in Node,
           NEW w \in pushed[n], w \notin ended[n], w # x
    PROVE  Rendezvous!Precedes(x, w)
<1>0. IInv /\ SameOrder
  BY DEF QuietPair, PairIInv
<1>1. \A m \in Node : x \in Range(popLog[m]) /\ w \in Range(popLog[m])
  BY <1>0, FirstPushed, PushedPopped
<1>2. PICK j \in DOMAIN popLog[n] : popLog[n][j] = w
  BY <1>1 DEF Range
<1>3. j \in DOMAIN Committed(n) /\ Committed(n)[j] = w /\ j \in Nat \ {0}
  BY <1>0, <1>2, CommittedPlaces
<1>4. j # i /\ ~(j < i)
  BY <1>3 DEF First
<1>5. ASSUME NEW m \in Node PROVE Rendezvous!IsBefore(popLog[m], x, w)
  <2>1. PICK k \in DOMAIN popLog[m], l \in DOMAIN popLog[m] :
            popLog[m][k] = x /\ popLog[m][l] = w
    BY <1>1 DEF Range
  <2>2. /\ k \in DOMAIN Committed(m) /\ Committed(m)[k] = x
        /\ l \in DOMAIN Committed(m) /\ Committed(m)[l] = w
    BY <1>0, <2>1, CommittedPlaces
  <2>3. l = j
    BY <1>0, <1>3, <2>2, SamePlaces
  <2>4. k = i
    BY <1>0, <2>2, CommittedPlaces DEF First
  <2> QED
    BY <1>3, <1>4, <2>1, <2>3, <2>4 DEF Rendezvous!IsBefore
<1> QED
  BY <1>5 DEF QuietPair, Rendezvous!Precedes

\* No processor waits in removeRequest: its own task has a slot.
LEMMA NoSlotWait ==
    ASSUME QuietPair, NEW n \in Node, NEW r \in Roles
    PROVE  \/ procPc[n][r] = "fetch" /\ readyQueue[n][r] = << >>
           \/ procPc[n][r] = "run" /\ ~(procTask[n][r] \subseteq begun[Peer(n)] \ ended[n])
<1>1. HeldAt(n) /\ OnceAt(n) /\ SlotAt(n) /\ ProcessorWaits(n, r)
  BY DEF QuietPair, PlacesSound, PairQuiet
<1>2. ASSUME procPc[n][r] = "slot" PROVE requestQueue[n] # {}
  <2>1. PICK w \in begun[n] : Role(n, w) = r /\ procTask[n][r] = {w}
    BY <1>1, <1>2 DEF HeldAt
  <2>2. InHand(n, w) /\ w \in taken[n]
    BY <1>1, <1>2, <2>1 DEF InHand, HeldAt
  <2>3. w \notin ended[n]
    BY <1>1, <2>1, <2>2 DEF OnceAt
  <2> QED
    BY <1>1, <1>2, <2>1, <2>2, <2>3 DEF SlotAt
<1> QED
  BY <1>1, <1>2 DEF ProcessorWaits

\* The run of the first task has begun at each node: what is before it in the node
\* would be a later task.
LEMMA FirstBegun ==
    ASSUME QuietPair, NEW i \in Nat, NEW x \in Task, First(i, x), NEW n \in Node
    PROVE  x \in begun[n]
<1> SUFFICES ASSUME x \notin begun[n] PROVE FALSE
  OBVIOUS
<1>0. /\ PairTypeOK /\ PipeAt(n) /\ HeldAt(n) /\ OnceAt(n) /\ MonitorWaits(n)
      /\ x \in pushed[n] /\ Role(n, x) \in Roles
  BY FirstPushed, RoleFacts DEF QuietPair, PairIInv, PipeSound, PlacesSound, PairQuiet
<1>1. ASSUME NEW w \in pushed[n], w \notin ended[n], w # x
      PROVE  /\ Rendezvous!Precedes(x, w) /\ w \in Task
             /\ w \in taken[n] => x \in taken[n]
             /\ Role(n, w) = Role(n, x) => Ahead(n, x, w)
  <2>1. Rendezvous!Precedes(x, w) /\ w \in Task
    BY <1>0, <1>1, FirstPrecedes DEF PairTypeOK, TypeOK
  <2>2. w \in taken[n] => x \in taken[n]
    BY <2>1 DEF QuietPair, TakenInOrder, InTurn
  <2>3. Role(n, w) = Role(n, x) => Invitor[w] = Invitor[x]
    <3>1. Invitor[w] \in {n, Peer(n)} /\ Invitor[x] \in {n, Peer(n)}
      BY <2>1, InvitorAssumption, PeerFacts
    <3> QED
      BY <3>1, PeerFacts DEF Role
  <2> QED
    BY <2>1, <2>2, <2>3 DEF QuietPair, PairIInv, OrderKept
<1>2. CASE x \in Range(putQueue[n])
  <2>1. x \notin taken[n] /\ putQueue[n] # << >>
    BY <1>0, <1>2 DEF OnceAt, Range
  <2>2. PICK w \in monTask[n] : TRUE
    BY <1>0, <2>1 DEF MonitorWaits
  <2>3. w \in pushed[n] /\ w \in taken[n] /\ w \notin ended[n]
    BY <1>0 DEF PipeAt, HeldAt, OnceAt
  <2> QED
    BY <1>1, <2>1, <2>3
<1>3. CASE x \in monTask[n]
  <2> DEFINE s == Ready(n, x)
  <2>1. Len(s) >= ReadyLimit /\ s \in Seq(Task) /\ x \notin Range(s)
    BY <1>0, <1>3 DEF MonitorWaits, PipeAt, PairTypeOK, OnceAt, Ready
  <2>2. 1 \in DOMAIN s /\ s[1] \in Range(s)
    BY <2>1 DEF ReadyLimit, Range
  <2> DEFINE w == s[1]
  <2>3. w \in pushed[n] /\ w \notin ended[n] /\ w # x /\ Role(n, w) = Role(n, x)
    BY <1>0, <2>1, <2>2 DEF PipeAt, HeldAt, OnceAt, Ready
  <2>4. Ahead(n, x, w) /\ Ready(n, w) = s
    BY <1>1, <2>3 DEF Ready
  <2> QED
    BY <2>1, <2>2, <2>4 DEF Ahead
<1>4. CASE x \in Range(Ready(n, x))
  <2> DEFINE r == Role(n, x)
  <2>1. readyQueue[n][r] # << >> /\ r \in Roles
    BY <1>0, <1>4 DEF Ready, Range
  <2>2. procPc[n][r] = "run"
    BY <2>1, NoSlotWait
  <2>3. PICK w \in begun[n] : Role(n, w) = r /\ procTask[n][r] = {w}
    BY <1>0, <2>1, <2>2 DEF HeldAt
  <2>4. w \in pushed[n] /\ w \notin ended[n] /\ w # x
    BY <1>0, <2>2, <2>3 DEF PipeAt, OnceAt, InHand
  <2> QED
    BY <1>1, <2>3, <2>4 DEF Ahead
<1> QED
  BY <1>0, <1>2, <1>3, <1>4 DEF PipeAt

\* And it is over at each node.
LEMMA FirstEnded ==
    ASSUME QuietPair, NEW i \in Nat, NEW x \in Task, First(i, x), NEW n \in Node
    PROVE  x \in ended[n]
<1> SUFFICES ASSUME x \notin ended[n] PROVE FALSE
  OBVIOUS
<1> DEFINE r == Role(n, x)
<1>1. x \in begun[n] /\ x \in begun[Peer(n)] /\ r \in Roles /\ HeldAt(n)
  BY FirstBegun, PeerFacts, RoleFacts DEF QuietPair, PlacesSound
<1>2. x \in procTask[n][r] /\ procPc[n][r] # "fetch"
  BY <1>1 DEF HeldAt, InHand
<1>3. procTask[n][r] = {x}
  BY <1>1, <1>2 DEF HeldAt
<1> QED
  BY <1>1, <1>2, <1>3, NoSlotWait

\* The two nodes have no deadlock, whatever the number of slots and of tasks: when all
\* wait, both are done with each task committed at both.  Of the tasks they are not
\* done with the one committed first would go on.
THEOREM PairNoDeadlockCorrect == PairSpec => []PairNoDeadlock
<1>1. PairIInv /\ PlacesSound /\ WaitsSound /\ TakenInOrder => PairNoDeadlock
  <2> SUFFICES ASSUME QuietPair, NEW t \in Task, NEW p \in Node, t \notin ended[p],
                      \A m \in Node : t \in Range(Committed(m))
               PROVE  FALSE
    BY DEF PairNoDeadlock, AllEnded, QuietPair
  <2>0. IInv /\ SameOrder /\ \A m \in Node : Committed(m) \in Seq(Task)
    BY CommittedPlaces DEF QuietPair, PairIInv
  <2> DEFINE T == {i \in DOMAIN Committed(p) :
                     /\ \A m \in Node : i \in DOMAIN Committed(m)
                     /\ \E m \in Node : Committed(p)[i] \notin ended[m]}
  <2>1. T \subseteq Nat /\ T # {}
    <3>1. PICK i \in DOMAIN Committed(p) : Committed(p)[i] = t
      BY DEF Range
    <3>2. ASSUME NEW m \in Node PROVE i \in DOMAIN Committed(m)
      <4>1. PICK j \in DOMAIN Committed(m) : Committed(m)[j] = t
        BY DEF Range
      <4> QED
        BY <2>0, <3>1, <4>1, SamePlaces
    <3> QED
      BY <2>0, <3>1, <3>2
  <2>2. PICK i \in T : \A k \in T : i <= k
    BY <2>1, LeastNatural
  <2> DEFINE x == Committed(p)[i]
  <2>3. i \in Nat /\ x \in Task
    BY <2>0, <2>1, <2>2
  <2>4. First(i, x)
    <3>1. \A m \in Node : i \in DOMAIN Committed(m) /\ Committed(m)[i] = x
      BY <2>0, <2>2, SamePlaces
    <3>2. ASSUME NEW n \in Node, NEW m \in Node, NEW k \in 1 .. i - 1,
                 k \in DOMAIN Committed(n)
          PROVE  Committed(n)[k] \in ended[m]
      <4>1. k \in Nat /\ ~(i <= k)
        BY <2>3
      <4>2. \A l \in Node : k \in DOMAIN Committed(l)
        BY <2>0, <2>3, <3>1
      <4>3. Committed(n)[k] = Committed(p)[k]
        BY <2>0, <4>2, SamePlaces
      <4> QED
        BY <2>2, <4>1, <4>2, <4>3
    <3> QED
      BY <3>1, <3>2 DEF First
  <2> QED
    BY <2>2, <2>3, <2>4, FirstEnded
<1>2. PairSpec => Spec
  BY PairImplements DEF HandshakeSpec
<1> QED
  BY <1>1, <1>2, PairInductive, PlacesInductive, WaitsInductive, TakenInOrderCorrect, PTL

-----------------------------------------------------------------------------
(* How long the two nodes can go on.                                       *)

\* What the monitor, the ready queues and a processor of n have left to do.
MonitorLeft(n) == IF monTask[n] = {} THEN 0 ELSE 6

LineLeft(n, r) == 5 * Len(readyQueue[n][r])

RunLeft(n, r) ==
    CASE procPc[n][r] = "run" -> 4
      [] procPc[n][r] = "state" -> 3
      [] procPc[n][r] = "slot" -> 2
      [] procPc[n][r] = "working" -> 1
      [] procPc[n][r] = "fetch" -> 0

BehindLeft(n) ==
    MonitorLeft(n) + LineLeft(n, "alice") + LineLeft(n, "bob")
        + RunLeft(n, "alice") + RunLeft(n, "bob")

Behind == BehindLeft(Somewhere) + BehindLeft(Peer(Somewhere))

\* A task in a put queue has seven steps before it; the push is one of the handshake's.
PairLeft == 8 * ToDo + 7 * Queued + Behind

\* No step of the two nodes adds to what is left, and each of their system takes from it.
PairStepsCounted == [][PairLeft' <= PairLeft /\ (PairSystem => PairLeft' < PairLeft)]_pairVars

LEMMA BehindTypes ==
    PairTypeOK => \A n \in Node :
        /\ MonitorLeft(n) \in Nat
        /\ \A r \in Roles : LineLeft(n, r) \in Nat /\ RunLeft(n, r) \in Nat
        /\ BehindLeft(n) \in Nat
<1> SUFFICES ASSUME PairTypeOK, NEW n \in Node
             PROVE  /\ MonitorLeft(n) \in Nat
                    /\ \A r \in Roles : LineLeft(n, r) \in Nat /\ RunLeft(n, r) \in Nat
                    /\ BehindLeft(n) \in Nat
  OBVIOUS
<1>1. MonitorLeft(n) \in Nat
  BY DEF MonitorLeft
<1>2. ASSUME NEW r \in Roles PROVE LineLeft(n, r) \in Nat /\ RunLeft(n, r) \in Nat
  <2>1. Len(readyQueue[n][r]) \in Nat
    BY DEF PairTypeOK
  <2>2. procPc[n][r] \in ProcPc
    BY DEF PairTypeOK
  <2>3. LineLeft(n, r) \in Nat
    BY <2>1 DEF LineLeft
  <2>4. RunLeft(n, r) \in Nat
    BY <2>2 DEF RunLeft, ProcPc
  <2> QED
    BY <2>3, <2>4
<1>3. "alice" \in Roles /\ "bob" \in Roles
  BY DEF Roles
<1>4. /\ LineLeft(n, "alice") \in Nat /\ RunLeft(n, "alice") \in Nat
      /\ LineLeft(n, "bob") \in Nat /\ RunLeft(n, "bob") \in Nat
  BY <1>2, <1>3
<1>5. BehindLeft(n) \in Nat
  BY <1>1, <1>4 DEF BehindLeft
<1> QED
  BY <1>1, <1>2, <1>5

LEMMA BehindTypesNext ==
    PairTypeOK' => (\A n \in Node :
        /\ MonitorLeft(n) \in Nat
        /\ \A r \in Roles : LineLeft(n, r) \in Nat /\ RunLeft(n, r) \in Nat
        /\ BehindLeft(n) \in Nat)'
BY BehindTypes, PTL

\* What one processor or one ready queue does is seen in what its node has left.
LEMMA OneRole ==
    ASSUME PairTypeOK, PairTypeOK', NEW n \in Node, NEW r \in Roles, NEW d \in Nat, NEW e \in Nat,
           \A q \in Roles : q # r => /\ LineLeft(n, q)' = LineLeft(n, q)
                                     /\ RunLeft(n, q)' = RunLeft(n, q),
           MonitorLeft(n)' + LineLeft(n, r)' + RunLeft(n, r)' + d
               = MonitorLeft(n) + LineLeft(n, r) + RunLeft(n, r) + e
    PROVE  BehindLeft(n)' + d = BehindLeft(n) + e
<1>1. /\ "alice" \in Roles /\ "bob" \in Roles /\ (r = "alice" \/ r = "bob")
      /\ "alice" # "bob"
  BY DEF Roles
<1>2. /\ MonitorLeft(n) \in Nat /\ MonitorLeft(n)' \in Nat
      /\ \A q \in Roles : /\ LineLeft(n, q) \in Nat /\ RunLeft(n, q) \in Nat
                          /\ LineLeft(n, q)' \in Nat /\ RunLeft(n, q)' \in Nat
  BY BehindTypes, BehindTypesNext
<1>3. CASE r = "alice"
  <2>1. LineLeft(n, "bob")' = LineLeft(n, "bob") /\ RunLeft(n, "bob")' = RunLeft(n, "bob")
    BY <1>1, <1>3
  <2> QED
    BY <1>1, <1>2, <1>3, <2>1 DEF BehindLeft
<1>4. CASE r = "bob"
  <2>1. LineLeft(n, "alice")' = LineLeft(n, "alice") /\ RunLeft(n, "alice")' = RunLeft(n, "alice")
    BY <1>1, <1>4
  <2> QED
    BY <1>1, <1>2, <1>4, <2>1 DEF BehindLeft
<1> QED
  BY <1>1, <1>3, <1>4

\* A node whose monitor, ready queues and processors do nothing has as much left.
LEMMA BehindSame ==
    ASSUME NEW n \in Node, monTask'[n] = monTask[n], readyQueue'[n] = readyQueue[n],
           procPc'[n] = procPc[n]
    PROVE  BehindLeft(n)' = BehindLeft(n)
BY DEF BehindLeft, MonitorLeft, LineLeft, RunLeft

\* The steps of the monitor.
LEMMA PopPutLeft ==
    ASSUME PairTypeOK, PairTypeOK', NEW n \in Node, PopPutTask(n)
    PROVE  BehindLeft(n)' = BehindLeft(n) + 6
<1>1. /\ monTask[n] = {} /\ monTask'[n] # {}
      /\ readyQueue' = readyQueue /\ procPc' = procPc
  BY DEF PopPutTask, PairTypeOK
<1>2. MonitorLeft(n) = 0 /\ MonitorLeft(n)' = 6
  BY <1>1 DEF MonitorLeft
<1>3. \A r \in Roles : LineLeft(n, r)' = LineLeft(n, r) /\ RunLeft(n, r)' = RunLeft(n, r)
  BY <1>1 DEF LineLeft, RunLeft
<1>4. "alice" \in Roles
  BY DEF Roles
<1>5. BehindLeft(n)' + 0 = BehindLeft(n) + 6
  <2>1. LineLeft(n, "alice") \in Nat /\ RunLeft(n, "alice") \in Nat
    BY <1>4, BehindTypes
  <2>2. MonitorLeft(n)' + LineLeft(n, "alice")' + RunLeft(n, "alice")' + 0
            = MonitorLeft(n) + LineLeft(n, "alice") + RunLeft(n, "alice") + 6
    BY <1>2, <1>3, <1>4, <2>1
  <2> QED
    BY <1>3, <1>4, <2>2, OneRole
<1>6. BehindLeft(n) \in Nat /\ BehindLeft(n)' \in Nat
  BY BehindTypes, BehindTypesNext
<1> QED
  BY <1>5, <1>6

LEMMA PutReadyLeft ==
    ASSUME PairTypeOK, PairTypeOK', NEW n \in Node, PutReadyTask(n)
    PROVE  BehindLeft(n)' + 1 = BehindLeft(n)
<1>1. PICK t \in monTask[n] :
          /\ readyQueue' = [readyQueue EXCEPT ![n][Role(n, t)] = Append(@, t)]
          /\ monTask' = [monTask EXCEPT ![n] = {}]
          /\ procPc' = procPc
  BY DEF PutReadyTask
<1>2. t \in Task /\ Role(n, t) \in Roles
  BY RoleFacts DEF PairTypeOK
<1> DEFINE r == Role(n, t)
           s == readyQueue[n][r]
<1>3. /\ s \in Seq(Task) /\ readyQueue'[n][r] = Append(s, t)
      /\ \A q \in Roles : q # r => readyQueue'[n][q] = readyQueue[n][q]
      /\ monTask'[n] = {} /\ monTask[n] # {}
  BY <1>1, <1>2 DEF PairTypeOK
<1> HIDE DEF r, s
<1>4. Len(s) \in Nat /\ Len(readyQueue'[n][r]) = Len(s) + 1
  BY <1>2, <1>3
<1>5. LineLeft(n, r)' = LineLeft(n, r) + 5
  BY <1>4 DEF LineLeft, r, s
<1>6. MonitorLeft(n) = 6 /\ MonitorLeft(n)' = 0
  BY <1>3 DEF MonitorLeft
<1>7. \A q \in Roles : RunLeft(n, q)' = RunLeft(n, q)
  BY <1>1 DEF RunLeft
<1>8. \A q \in Roles : q # r => LineLeft(n, q)' = LineLeft(n, q)
  BY <1>3 DEF LineLeft
<1>9. r \in Roles
  BY <1>2 DEF r
<1>10. MonitorLeft(n)' + LineLeft(n, r)' + RunLeft(n, r)' + 1
           = MonitorLeft(n) + LineLeft(n, r) + RunLeft(n, r) + 0
  BY <1>5, <1>6, <1>7, <1>9, BehindTypes
<1>11. BehindLeft(n)' + 1 = BehindLeft(n) + 0
  BY <1>7, <1>8, <1>9, <1>10, OneRole
<1>12. BehindLeft(n) \in Nat /\ BehindLeft(n)' \in Nat
  BY BehindTypes, BehindTypesNext
<1> QED
  BY <1>11, <1>12

\* The sums that the steps of a processor change.
LEMMA RunSums ==
    ASSUME NEW m \in Nat, NEW l \in Nat, NEW ll \in Nat, NEW k \in Nat, NEW kk \in Nat
    PROVE  /\ ll + 5 = l /\ k = 0 /\ kk = 4 => m + ll + kk + 1 = m + l + k + 0
           /\ kk + 1 = k => m + l + kk + 1 = m + l + k + 0
  OBVIOUS

LEMMA PlusZero ==
    ASSUME NEW m \in Nat
    PROVE  m + 0 = m
  OBVIOUS

\* The steps of a processor.
LEMMA FetchLeft ==
    ASSUME PairTypeOK, PairTypeOK', NEW n \in Node, NEW r \in Roles, FetchTask(n, r)
    PROVE  BehindLeft(n)' + 1 = BehindLeft(n)
<1> DEFINE s == readyQueue[n][r]
<1>1. /\ s \in Seq(Task) /\ s # << >> /\ readyQueue'[n][r] = Tail(s)
      /\ \A q \in Roles : q # r => readyQueue'[n][q] = readyQueue[n][q]
      /\ procPc[n][r] = "fetch" /\ procPc'[n][r] = "run"
      /\ \A q \in Roles : q # r => procPc'[n][q] = procPc[n][q]
      /\ monTask' = monTask
  BY DEF FetchTask, PairTypeOK
<1> HIDE DEF s
<1>2. Len(s) \in Nat /\ Len(readyQueue'[n][r]) \in Nat /\ Len(readyQueue'[n][r]) + 1 = Len(s)
  BY <1>1
<1>3. LineLeft(n, r)' + 5 = LineLeft(n, r)
  BY <1>2 DEF LineLeft, s
<1>4. RunLeft(n, r) = 0 /\ RunLeft(n, r)' = 4 /\ MonitorLeft(n)' = MonitorLeft(n)
  BY <1>1 DEF RunLeft, MonitorLeft
<1>5. \A q \in Roles : q # r => /\ LineLeft(n, q)' = LineLeft(n, q)
                                /\ RunLeft(n, q)' = RunLeft(n, q)
  BY <1>1 DEF LineLeft, RunLeft
<1>6. MonitorLeft(n)' + LineLeft(n, r)' + RunLeft(n, r)' + 1
          = MonitorLeft(n) + LineLeft(n, r) + RunLeft(n, r) + 0
  <2>1. /\ MonitorLeft(n) \in Nat /\ LineLeft(n, r) \in Nat /\ LineLeft(n, r)' \in Nat
        /\ RunLeft(n, r) \in Nat /\ RunLeft(n, r)' \in Nat
    BY BehindTypes, BehindTypesNext
  <2> QED
    BY <1>3, <1>4, <2>1, RunSums
<1>7. BehindLeft(n)' + 1 = BehindLeft(n) + 0
  BY <1>5, <1>6, OneRole
<1>8. BehindLeft(n) \in Nat /\ BehindLeft(n)' \in Nat
  BY BehindTypes, BehindTypesNext
<1> QED
  BY <1>7, <1>8

LEMMA RunStepLeft ==
    ASSUME PairTypeOK, PairTypeOK', NEW n \in Node, NEW r \in Roles,
           \/ EndRun(n, r) \/ FailRun(n, r)
           \/ ClearTaskState(n, r) \/ ClearRequest(n, r) \/ ClearWorkingTask(n, r)
    PROVE  BehindLeft(n)' + 1 = BehindLeft(n)
<1>1. /\ \/ procPc[n][r] = "run" /\ procPc'[n][r] = "state"
         \/ procPc[n][r] = "state" /\ procPc'[n][r] = "slot"
         \/ procPc[n][r] = "slot" /\ procPc'[n][r] = "working"
         \/ procPc[n][r] = "working" /\ procPc'[n][r] = "fetch"
      /\ \A q \in Roles : q # r => procPc'[n][q] = procPc[n][q]
      /\ monTask' = monTask /\ readyQueue' = readyQueue
  BY DEF EndRun, FailRun, ClearTaskState, ClearRequest, ClearWorkingTask, PairTypeOK
<1>2. RunLeft(n, r)' + 1 = RunLeft(n, r)
  BY <1>1 DEF RunLeft
<1>3. /\ MonitorLeft(n)' = MonitorLeft(n)
      /\ \A q \in Roles : LineLeft(n, q)' = LineLeft(n, q)
      /\ \A q \in Roles : q # r => RunLeft(n, q)' = RunLeft(n, q)
  BY <1>1 DEF RunLeft, LineLeft, MonitorLeft
<1>4. MonitorLeft(n)' + LineLeft(n, r)' + RunLeft(n, r)' + 1
          = MonitorLeft(n) + LineLeft(n, r) + RunLeft(n, r) + 0
  <2>1. /\ MonitorLeft(n) \in Nat /\ LineLeft(n, r) \in Nat
        /\ RunLeft(n, r) \in Nat /\ RunLeft(n, r)' \in Nat
    BY BehindTypes, BehindTypesNext
  <2> QED
    BY <1>2, <1>3, <2>1, RunSums
<1>5. BehindLeft(n)' + 1 = BehindLeft(n) + 0
  BY <1>3, <1>4, OneRole
<1>6. BehindLeft(n) \in Nat /\ BehindLeft(n)' \in Nat
  BY BehindTypes, BehindTypesNext
<1> QED
  BY <1>5, <1>6

\* What is left behind both put queues, when a step is one node's.
LEMMA BothBehind ==
    ASSUME PairTypeOK, PairTypeOK', NEW n \in Node, NEW d \in Nat, NEW e \in Nat,
           \A m \in Node : m # n => BehindLeft(m)' = BehindLeft(m),
           BehindLeft(n)' + d = BehindLeft(n) + e
    PROVE  Behind \in Nat /\ Behind' \in Nat /\ Behind' + d = Behind + e
<1> DEFINE a == Somewhere
           b == Peer(Somewhere)
<1>1. a \in Node /\ b \in Node /\ a # b /\ Node = {a, b}
  BY PeerFacts, NodeAssumption DEF Somewhere
<1>2. Behind = BehindLeft(a) + BehindLeft(b) /\ Behind' = BehindLeft(a)' + BehindLeft(b)'
  BY DEF Behind, Somewhere, Peer
<1> HIDE DEF a, b
<1>3. /\ BehindLeft(a) \in Nat /\ BehindLeft(b) \in Nat
      /\ BehindLeft(a)' \in Nat /\ BehindLeft(b)' \in Nat
  <2>1. \A m \in Node : BehindLeft(m) \in Nat /\ BehindLeft(m)' \in Nat
    BY BehindTypes, BehindTypesNext
  <2> QED
    BY <1>1, <2>1
<1>4. BehindLeft(a)' + BehindLeft(b)' + d = BehindLeft(a) + BehindLeft(b) + e
  BY <1>1, <1>3
<1> QED
  BY <1>2, <1>3, <1>4

\* A step of the pair is one of the handshake's, with nothing behind the put queues, one
\* that takes a task out of a put queue, or one behind it that leaves the queues alone.
LEMMA PairStepKinds ==
    ASSUME PairTypeOK, PairTypeOK', [PairNext]_pairVars
    PROVE  \/ /\ UNCHANGED <<monTask, readyQueue, procPc>>
              /\ \/ \E n \in Node : ReadyProcessor(n) \/ \E t \in Task : Handler(n, t)
                 \/ UNCHANGED putQueue /\ ~PairSystem
                 \/ UNCHANGED pairVars
           \/ \E n \in Node : /\ PopPutTask(n)
                              /\ \A m \in Node : m # n => BehindLeft(m)' = BehindLeft(m)
           \/ \E n \in Node : /\ UNCHANGED putQueue
                              /\ BehindLeft(n)' + 1 = BehindLeft(n)
                              /\ \A m \in Node : m # n => BehindLeft(m)' = BehindLeft(m)
<1> DEFINE Shakes == /\ UNCHANGED <<monTask, readyQueue, procPc>>
                     /\ \/ \E n \in Node : ReadyProcessor(n) \/ \E t \in Task : Handler(n, t)
                        \/ UNCHANGED putQueue /\ ~PairSystem
                        \/ UNCHANGED pairVars
           Takes == \E n \in Node : /\ PopPutTask(n)
                                    /\ \A m \in Node : m # n => BehindLeft(m)' = BehindLeft(m)
           Runs == \E n \in Node : /\ UNCHANGED putQueue
                                   /\ BehindLeft(n)' + 1 = BehindLeft(n)
                                   /\ \A m \in Node : m # n => BehindLeft(m)' = BehindLeft(m)
<1>0. /\ monTask \in [Node -> SUBSET Task]
      /\ readyQueue \in [Node -> [Roles -> Seq(Task)]]
      /\ procPc \in [Node -> [Roles -> ProcPc]]
  BY DEF PairTypeOK
<1>1. CASE \E n \in Node : Thread(n) \/ \E t \in Task : Serve(n, t)
  <2>1. Shakes
    BY <1>1 DEF Thread, Serve, pipeVars
  <2> QED
    BY <2>1
<1>2. ASSUME NEW n \in Node, PopPutTask(n) PROVE Takes
  <2>1. ASSUME NEW m \in Node, m # n PROVE BehindLeft(m)' = BehindLeft(m)
    <3>1. monTask'[m] = monTask[m] /\ readyQueue' = readyQueue /\ procPc' = procPc
      BY <1>0, <1>2, <2>1 DEF PopPutTask
    <3> QED
      BY <3>1, BehindSame
  <2> QED
    BY <1>2, <2>1
<1>3. ASSUME NEW n \in Node, PutReadyTask(n) PROVE Runs
  <2>1. ASSUME NEW m \in Node, m # n PROVE BehindLeft(m)' = BehindLeft(m)
    <3>1. monTask'[m] = monTask[m] /\ readyQueue'[m] = readyQueue[m] /\ procPc' = procPc
      BY <1>0, <1>3, <2>1 DEF PutReadyTask
    <3> QED
      BY <3>1, BehindSame
  <2>2. UNCHANGED putQueue
    BY <1>3 DEF PutReadyTask, vars
  <2> QED
    BY <1>3, <2>1, <2>2, PutReadyLeft
<1>4. ASSUME NEW n \in Node, NEW r \in Roles, Processor(n, r) \/ FailRun(n, r) PROVE Runs
  <2>1. ASSUME NEW m \in Node, m # n PROVE BehindLeft(m)' = BehindLeft(m)
    <3>1. monTask' = monTask /\ readyQueue'[m] = readyQueue[m] /\ procPc'[m] = procPc[m]
      BY <1>0, <1>4, <2>1 DEF Processor, FetchTask, EndRun, FailRun, ClearTaskState,
         ClearRequest, ClearWorkingTask
    <3> QED
      BY <3>1, BehindSame
  <2>2. UNCHANGED putQueue
    BY <1>4 DEF Processor, FetchTask, EndRun, FailRun, ClearTaskState, ClearRequest,
       ClearWorkingTask, RemoveTaskState, RemoveRequest, RemoveWorkingTask, vars
  <2>3. BehindLeft(n)' + 1 = BehindLeft(n)
    BY <1>4, FetchLeft, RunStepLeft DEF Processor
  <2> QED
    BY <2>1, <2>2, <2>3
<1>5. ASSUME NEW n \in Node, Local(n), ~PairSystem PROVE Shakes
  BY <1>5 DEF Local, Register, CallException, Commit, pipeVars
<1>6. CASE UNCHANGED pairVars
  BY <1>6 DEF pairVars, pipeVars
<1> QED
  BY <1>1, <1>2, <1>3, <1>4, <1>5, <1>6 DEF PairNext, PairSystem, Monitor

LEMMA BehindStep ==
    ASSUME PairTypeOK, PairTypeOK', [PairNext]_pairVars
    PROVE  /\ Behind \in Nat /\ Behind' \in Nat
           /\ \/ /\ Behind' = Behind
                 /\ \/ \E n \in Node : ReadyProcessor(n) \/ \E t \in Task : Handler(n, t)
                    \/ UNCHANGED putQueue /\ ~PairSystem
                    \/ UNCHANGED pairVars
              \/ Behind' = Behind + 6 /\ \E n \in Node : TakePutTask(n)
              \/ Behind' + 1 = Behind /\ UNCHANGED putQueue
<1>1. CASE UNCHANGED <<monTask, readyQueue, procPc>>
  <2>1. ASSUME NEW m \in Node PROVE BehindLeft(m)' = BehindLeft(m)
    BY <1>1, BehindSame
  <2>2. PICK n \in Node : TRUE
    BY NodeAssumption
  <2>3. BehindLeft(n)' + 0 = BehindLeft(n) + 0
    BY <2>1
  <2>4. Behind \in Nat /\ Behind' \in Nat /\ Behind' + 0 = Behind + 0
    BY <2>1, <2>3, BothBehind
  <2>5. ASSUME NEW m \in Node PROVE ~PopPutTask(m)
    <3>1. PopPutTask(m) => monTask'[m] # monTask[m]
      BY DEF PopPutTask, PairTypeOK
    <3> QED
      BY <1>1, <3>1
  <2>6. ASSUME NEW m \in Node PROVE BehindLeft(m)' + 1 # BehindLeft(m)
    <3>1. BehindLeft(m) \in Nat
      BY BehindTypes
    <3> QED
      BY <2>1, <3>1
  <2>7. Behind' = Behind
    BY <2>4, PlusZero
  <2> QED
    BY <2>4, <2>5, <2>6, <2>7, PairStepKinds
<1>2. ASSUME NEW n \in Node, PopPutTask(n),
             \A m \in Node : m # n => BehindLeft(m)' = BehindLeft(m)
      PROVE  /\ Behind \in Nat /\ Behind' \in Nat
             /\ Behind' = Behind + 6 /\ TakePutTask(n)
  <2>1. BehindLeft(n)' + 0 = BehindLeft(n) + 6
    <3>1. BehindLeft(n) \in Nat /\ BehindLeft(n)' \in Nat
      BY BehindTypes, BehindTypesNext
    <3>2. BehindLeft(n)' = BehindLeft(n) + 6
      BY <1>2, PopPutLeft
    <3> QED
      BY <3>1, <3>2
  <2>2. Behind \in Nat /\ Behind' \in Nat /\ Behind' + 0 = Behind + 6
    BY <1>2, <2>1, BothBehind
  <2>3. Behind' = Behind + 6
    BY <2>2, PlusZero
  <2> QED
    BY <1>2, <2>2, <2>3 DEF PopPutTask
<1>3. ASSUME NEW n \in Node, UNCHANGED putQueue, BehindLeft(n)' + 1 = BehindLeft(n),
             \A m \in Node : m # n => BehindLeft(m)' = BehindLeft(m)
      PROVE  Behind \in Nat /\ Behind' \in Nat /\ Behind' + 1 = Behind
  <2>1. BehindLeft(n)' + 1 = BehindLeft(n) + 0
    <3>1. BehindLeft(n) \in Nat
      BY BehindTypes
    <3> QED
      BY <1>3, <3>1
  <2>2. Behind \in Nat /\ Behind' \in Nat /\ Behind' + 1 = Behind + 0
    BY <1>3, <2>1, BothBehind
  <2> QED
    BY <2>2, PlusZero
<1> QED
  BY <1>1, <1>2, <1>3, PairStepKinds

\* How ToDo, Queued and Behind make up PairLeft.
LEMMA PairSums ==
    ASSUME NEW d \in Nat, NEW e \in Nat, NEW q \in Nat, NEW r \in Nat, NEW b \in Nat, NEW c \in Nat
    PROVE  /\ e < d /\ r <= q + 1 /\ c = b => 8 * e + 7 * r + c < 8 * d + 7 * q + b
           /\ e <= d /\ r = q /\ c = b => 8 * e + 7 * r + c <= 8 * d + 7 * q + b
           /\ e <= d /\ r + 1 = q /\ c = b + 6 => 8 * e + 7 * r + c < 8 * d + 7 * q + b
           /\ e <= d /\ r = q /\ c + 1 = b => 8 * e + 7 * r + c < 8 * d + 7 * q + b
           /\ 8 * d + 7 * q + b \in Nat
           /\ 8 * d + 7 * q + b < 8 * e + 7 * r + c => 8 * d + 7 * q + b <= 8 * e + 7 * r + c
  OBVIOUS

\* The same of the two nodes end to end: no task, run or slot goes round in a circle.
THEOREM PairStepsBounded ==
    IsFiniteSet(Task) =>
        (PairSpec => [](PairLeft \in 0 .. 192 * Cardinality(Task)) /\ PairStepsCounted)
<1> SUFFICES ASSUME IsFiniteSet(Task)
             PROVE  PairSpec => [](PairLeft \in 0 .. 192 * Cardinality(Task)) /\ PairStepsCounted
  OBVIOUS
<1> DEFINE Premise == /\ IInv /\ PairTypeOK /\ IInv' /\ PairTypeOK'
                      /\ [PairNext]_pairVars /\ [Next]_vars
<1>1. Premise => /\ ToDo \in Nat /\ ToDo' \in Nat /\ ToDo' <= ToDo
                 /\ Queued \in Nat /\ Queued' \in Nat
                 /\ Behind \in Nat /\ Behind' \in Nat
  BY ToDoFalls, QueuedStep, BehindStep DEF IInv
<1>2. Premise => /\ PairLeft = 8 * ToDo + 7 * Queued + Behind
                 /\ PairLeft' = 8 * ToDo' + 7 * Queued' + Behind'
                 /\ PairLeft \in Nat /\ PairLeft' \in Nat
                 /\ PairLeft' < PairLeft => PairLeft' <= PairLeft
  <2>1. /\ PairLeft = 8 * ToDo + 7 * Queued + Behind
        /\ PairLeft' = 8 * ToDo' + 7 * Queued' + Behind'
    BY DEF PairLeft
  <2> QED
    BY <1>1, <2>1, PairSums
<1>3. Premise => [PairLeft' <= PairLeft /\ (PairSystem => PairLeft' < PairLeft)]_pairVars
  <2> SUFFICES ASSUME Premise, ~UNCHANGED pairVars
               PROVE  PairLeft' <= PairLeft /\ (PairSystem => PairLeft' < PairLeft)
    OBVIOUS
  <2>1. /\ ToDo \in Nat /\ ToDo' \in Nat /\ ToDo' <= ToDo
        /\ Queued \in Nat /\ Queued' \in Nat
        /\ Behind \in Nat /\ Behind' \in Nat
    BY <1>1
  <2>6. /\ PairLeft = 8 * ToDo + 7 * Queued + Behind
        /\ PairLeft' = 8 * ToDo' + 7 * Queued' + Behind'
        /\ PairLeft' < PairLeft => PairLeft' <= PairLeft
    BY <1>2
  <2>2. CASE /\ Behind' = Behind
             /\ \E n \in Node : ReadyProcessor(n) \/ \E t \in Task : Handler(n, t)
    <3>1. ToDo' < ToDo
      BY <2>2, ToDoFalls
    <3>2. Queued' = Queued \/ Queued' = Queued + 1 \/ Queued' + 1 = Queued
      BY QueuedStep DEF IInv
    <3>3. Queued' <= Queued + 1
      BY <2>1, <3>2, LeftSums
    <3>4. PairLeft' < PairLeft
      BY <2>1, <2>2, <2>6, <3>1, <3>3, PairSums
    <3> QED
      BY <2>6, <3>4
  <2>3. CASE Behind' = Behind /\ UNCHANGED putQueue /\ ~PairSystem
    <3>1. Queued' = Queued
      BY <2>3 DEF Queued, Somewhere, Peer
    <3> QED
      BY <2>1, <2>3, <2>6, <3>1, PairSums
  <2>4. CASE Behind' = Behind + 6 /\ \E n \in Node : TakePutTask(n)
    <3>1. Queued' + 1 = Queued
      BY <2>4, QueuedStep DEF IInv
    <3>2. PairLeft' < PairLeft
      BY <2>1, <2>4, <2>6, <3>1, PairSums
    <3> QED
      BY <2>6, <3>2
  <2>5. CASE Behind' + 1 = Behind /\ UNCHANGED putQueue
    <3>1. Queued' = Queued
      BY <2>5 DEF Queued, Somewhere, Peer
    <3>2. PairLeft' < PairLeft
      BY <2>1, <2>5, <2>6, <3>1, PairSums
    <3> QED
      BY <2>6, <3>2
  <2> QED
    BY <2>2, <2>3, <2>4, <2>5, BehindStep
<1>4. PairSpec => []IInv
  BY PairInductive, PTL DEF PairIInv
<1>5. PairTypeOK /\ [PairNext]_pairVars => [Next]_vars
  BY PairStep
<1>6. Cardinality(Task) \in Nat
  BY FS_CardinalityType
<1>7. PairInit => PairLeft \in 0 .. 192 * Cardinality(Task)
  <2> SUFFICES ASSUME PairInit PROVE PairLeft \in 0 .. 192 * Cardinality(Task)
    OBVIOUS
  <2>1. /\ Left \in Nat /\ Left <= 48 * Cardinality(Task) /\ ToDo \in Nat /\ Queued = 0
        /\ Left = 2 * ToDo + Queued
    BY InitLeft DEF PairInit, Left
  <2>2. Behind = 0
    <3>1. Somewhere \in Node /\ Peer(Somewhere) \in Node
      BY NodeAssumption, PeerFacts DEF Somewhere
    <3>2. ASSUME NEW n \in Node PROVE BehindLeft(n) = 0
      <4>1. /\ monTask[n] = {}
            /\ \A r \in Roles : readyQueue[n][r] = << >> /\ procPc[n][r] = "fetch"
        BY DEF PairInit
      <4>2. MonitorLeft(n) = 0
        BY <4>1 DEF MonitorLeft
      <4>3. ASSUME NEW r \in Roles PROVE LineLeft(n, r) = 0 /\ RunLeft(n, r) = 0
        <5>1. Len(readyQueue[n][r]) = 0
          BY <4>1
        <5> QED
          BY <4>1, <5>1 DEF LineLeft, RunLeft
      <4>4. "alice" \in Roles /\ "bob" \in Roles
        BY DEF Roles
      <4> QED
        BY <4>2, <4>3, <4>4 DEF BehindLeft
    <3> QED
      BY <3>1, <3>2 DEF Behind
  <2>3. ASSUME NEW c \in Nat, NEW d \in Nat, 2 * d + 0 <= 48 * c
        PROVE  8 * d + 7 * 0 + 0 \in 0 .. 192 * c
    BY <2>3
  <2>4. PairLeft = 8 * ToDo + 7 * 0 + 0
    BY <2>1, <2>2 DEF PairLeft
  <2> QED
    BY <1>6, <2>1, <2>3, <2>4
<1>8. Premise /\ PairLeft \in 0 .. 192 * Cardinality(Task)
          => (PairLeft \in 0 .. 192 * Cardinality(Task))'
  <2> SUFFICES ASSUME Premise PROVE PairLeft' \in Nat /\ PairLeft' <= PairLeft
    BY <1>2, <1>6
  <2>1. CASE UNCHANGED pairVars
    <3>1. ToDo' <= ToDo /\ Queued' = Queued /\ Behind' = Behind
      BY <1>1, <2>1 DEF pairVars, pipeVars, vars, Queued, Somewhere, Peer, Behind, BehindLeft,
         MonitorLeft, LineLeft, RunLeft
    <3>2. /\ PairLeft = 8 * ToDo + 7 * Queued + Behind
          /\ PairLeft' = 8 * ToDo' + 7 * Queued' + Behind'
          /\ PairLeft' \in Nat
      BY <1>2
    <3> QED
      BY <1>1, <3>1, <3>2, PairSums
  <2>2. CASE ~UNCHANGED pairVars
    BY <1>2, <1>3, <2>2
  <2> QED
    BY <2>1, <2>2
<1> QED
  BY <1>3, <1>4, <1>5, <1>7, <1>8, PairTypeCorrect, PTL DEF PairSpec, PairStepsCounted
=============================================================================
