------------------------ MODULE BufferChannel_proofs ------------------------
(***************************************************************************)
(* Proofs about the buffers of a computation: the type invariant and       *)
(* OwnDataInOrder, for every set of tasks and server threads, every number *)
(* of buffers and lost calls, and whatever runs end early.                 *)
(*                                                                         *)
(* Of the queue nothing but its type is needed: it may hold buffers of     *)
(* other tasks and pointers to freed ones.  That a run reads its own       *)
(* buffers in order rests on the two tests alone, the number's and the     *)
(* task's, and on m_requestSeq starting at 0 with the run.                 *)
(*                                                                         *)
(* When no run ends early: the refinement of FifoChannel, SeqMatchesSender *)
(* and WaitsForMissing.                                                    *)
(*                                                                         *)
(* A measure of what the sends and the reads still cost shows that a       *)
(* computation comes to a stop (StepsBounded).                             *)
(***************************************************************************)
EXTENDS BufferChannel, Countdown, FiniteSetTheorems, TLAPS

\* A task that was not fetched has read nothing.
RunsSound ==
    /\ current \subseteq started
    /\ \A t \in Task \ started : delivered[t] = << >>

\* m_requestSeq is the highest number the run has got to.
SeqBoundsRun ==
    /\ pc = "compare" => requestSeq \in Seqs
    /\ \A t \in current : \A i \in DOMAIN delivered[t] :
           /\ delivered[t][i].seq <= requestSeq
           /\ pc = "compare" => delivered[t][i].seq < requestSeq

IInv == TypeOK /\ RunsSound /\ SeqBoundsRun /\ OwnDataInOrder

USE BufferAssumption

LEMMA BufferSeq ==
    \A s \in Seq(Buffer) : \A i \in DOMAIN s : s[i].task \in Task /\ s[i].seq \in Nat
<1> SUFFICES ASSUME NEW s \in Seq(Buffer), NEW i \in DOMAIN s
             PROVE  s[i].task \in Task /\ s[i].seq \in Nat
  OBVIOUS
<1>1. s[i] \in Buffer
  OBVIOUS
<1>2. Seqs \subseteq Nat
  BY DEF Seqs
<1> QED
  BY <1>1, <1>2 DEF Buffer

LEMMA InitIInv == Init => IInv
<1> SUFFICES ASSUME Init PROVE IInv
  OBVIOUS
<1>1. (CHOOSE t \in Task : TRUE) \in Task
  OBVIOUS
<1>2. TypeOK
  <2>1. 1 \in Seqs
    BY DEF Seqs
  <2>2. << >> \in Seq(Buffer)
    OBVIOUS
  <2> QED
    <3>1. delivered \in [Task -> Seq(Buffer)]
      BY <2>2 DEF Init
    <3>2. hTask \in [Handler -> Task] /\ hSeq \in [Handler -> Seqs]
      BY <1>1, <2>1 DEF Init
    <3>3. /\ sent \in [Task -> 0 .. MaxSeq] /\ arrived \in [Task -> 0 .. MaxSeq]
          /\ lost \in 0 .. MaxLost /\ requestSeq \in 0 .. MaxSeq
      BY DEF Init
    <3> QED
      BY <3>1, <3>2, <3>3 DEF Init, TypeOK
<1>3. RunsSound /\ SeqBoundsRun /\ OwnDataInOrder
  BY DEF Init, RunsSound, SeqBoundsRun, OwnDataInOrder
<1> QED
  BY <1>2, <1>3 DEF IInv

\* What a step that touches neither a run nor the processor's place in it keeps.
LEMMA RunUntouched ==
    ASSUME IInv, TypeOK',
           UNCHANGED <<current, requestSeq, delivered, started>>,
           pc' = "compare" => pc = "compare"
    PROVE  IInv'
<1>1. RunsSound'
  BY DEF IInv, RunsSound
<1>2. SeqBoundsRun'
  BY DEF IInv, SeqBoundsRun
<1>3. OwnDataInOrder'
  BY DEF IInv, OwnDataInOrder
<1> QED
  BY <1>1, <1>2, <1>3 DEF IInv

\* Taking the head of the queue, or waiting: the head's number is above all the
\* run has read.
LEMMA TakeOrWaitIInv ==
    ASSUME IInv, NEW q \in [Seqs -> SUBSET Task],
           \A k \in Seqs : \A t, u \in q[k] : t = u,
           pc # "compare", local' \in SUBSET Seqs, TakeOrWait(q),
           UNCHANGED <<senderVars, handlerVars, current, runVars, firstInput>>
    PROVE  IInv'
<1>1. CASE HeadIsNext(q) /\ requestSeq' = requestSeq + 1 /\ got' = q[requestSeq + 1]
           /\ queue' = [q EXCEPT ![requestSeq + 1] = {}] /\ pc' = "compare"
  <2>1. requestSeq + 1 \in Seqs
    BY <1>1 DEF HeadIsNext, IsHead, Keys
  <2>2. requestSeq' \in 0 .. MaxSeq /\ requestSeq \in Nat
    BY <1>1, <2>1 DEF Seqs, IInv, TypeOK
  <2>3. got' \in SUBSET Task
    BY <1>1, <2>1
  <2>4. queue' \in [Seqs -> SUBSET Task] /\ \A k \in Seqs : \A t, u \in queue'[k] : t = u
    BY <1>1, <2>1
  <2>5. TypeOK'
    BY <1>1, <2>2, <2>3, <2>4 DEF IInv, TypeOK, senderVars, handlerVars, runVars
  <2>6. RunsSound' /\ OwnDataInOrder'
    BY DEF IInv, RunsSound, OwnDataInOrder, runVars
  <2>7. \A t \in current : \A i \in DOMAIN delivered[t] :
            delivered[t][i].seq \in Nat /\ delivered[t][i].seq <= requestSeq
    BY BufferSeq DEF IInv, TypeOK, SeqBoundsRun
  <2>8. SeqBoundsRun'
    BY <1>1, <2>1, <2>2, <2>7 DEF SeqBoundsRun, runVars
  <2> QED
    BY <2>5, <2>6, <2>8 DEF IInv
<1>2. CASE queue' = q /\ pc' \in {"wait", "crashed"} /\ UNCHANGED <<got, requestSeq>>
  <2>1. TypeOK'
    BY <1>2 DEF IInv, TypeOK, senderVars, handlerVars, runVars
  <2> QED
    BY <1>2, <2>1, RunUntouched DEF runVars
<1> QED
  BY <1>1, <1>2 DEF TakeOrWait

LEMMA PutBufferIInv ==
    ASSUME IInv, NEW h \in Handler, PutBuffer(h)
    PROVE  IInv'
<1> USE DEF IInv, TypeOK, senderVars, procVars, runVars
<1>1. CASE CheckTask(h)
  <2>1. TypeOK'
    BY <1>1 DEF CheckTask
  <2> QED
    BY <1>1, <2>1, RunUntouched DEF CheckTask
<1>2. CASE InputBuffer(h)
  <2>1. queue' \in [Seqs -> SUBSET Task] /\ \A k \in Seqs : \A t, u \in queue'[k] : t = u
    BY <1>2 DEF InputBuffer
  <2>2. TypeOK'
    BY <1>2, <2>1 DEF InputBuffer
  <2> QED
    BY <1>2, <2>2, RunUntouched DEF InputBuffer
<1>3. CASE GetFirst(h)
  <2>1. TypeOK'
    BY <1>3 DEF GetFirst
  <2> QED
    BY <1>3, <2>1, RunUntouched DEF GetFirst
<1>4. CASE PutFirst(h)
  <2>1. TypeOK'
    BY <1>4 DEF PutFirst
  <2> QED
    BY <1>4, <2>1, RunUntouched DEF PutFirst
<1> QED
  BY <1>1, <1>2, <1>3, <1>4 DEF PutBuffer

\* The buffer goes to the end of its run's data: its number is above the others.
LEMMA CompareTaskIInv ==
    ASSUME IInv, CompareTask
    PROVE  IInv'
<1> DEFINE b(t) == [task |-> t, seq |-> requestSeq]
           reads(t) == t \in current /\ got = current
<1>1. requestSeq \in Seqs /\ requestSeq \in Nat
  BY DEF IInv, CompareTask, SeqBoundsRun, Seqs
<1>2. /\ \A t \in Task : delivered[t] \in Seq(Buffer)
      /\ \A t \in Task : delivered'[t] =
             IF reads(t) THEN Append(delivered[t], b(t)) ELSE delivered[t]
  BY DEF IInv, TypeOK, CompareTask
<1>3. \A t \in Task : b(t) \in Buffer
  BY <1>1 DEF Buffer
<1>4. TypeOK'
  <2>1. delivered' \in [Task -> Seq(Buffer)]
    BY <1>2, <1>3 DEF CompareTask
  <2>2. freed' \in [Task -> SUBSET Seqs]
    BY <1>1 DEF IInv, TypeOK, CompareTask
  <2> QED
    BY <2>1, <2>2 DEF IInv, TypeOK, CompareTask, senderVars, handlerVars
<1>5. RunsSound'
  BY <1>2 DEF IInv, RunsSound, CompareTask
<1>6. ASSUME NEW t \in Task, reads(t)
      PROVE  /\ DOMAIN delivered'[t] = 1 .. Len(delivered[t]) + 1
             /\ \A i \in 1 .. Len(delivered[t]) : delivered'[t][i] = delivered[t][i]
             /\ delivered'[t][Len(delivered[t]) + 1] = b(t)
             /\ \A i \in DOMAIN delivered[t] : delivered[t][i].seq < requestSeq
             /\ DOMAIN delivered[t] = 1 .. Len(delivered[t])
  <2>1. delivered'[t] = Append(delivered[t], b(t)) /\ delivered[t] \in Seq(Buffer)
    BY <1>2, <1>6
  <2>2. \A i \in DOMAIN delivered[t] : delivered[t][i].seq < requestSeq
    BY <1>6 DEF IInv, SeqBoundsRun, CompareTask
  <2> QED
    BY <2>1, <2>2, <1>3
<1>7. \A t \in Task : \A i \in DOMAIN delivered[t] : delivered[t][i].seq \in Nat
  BY <1>2, BufferSeq
<1>10. \A t \in Task : b(t).task = t /\ b(t).seq = requestSeq
  OBVIOUS
<1> HIDE DEF b
<1>8. SeqBoundsRun'
  <2> SUFFICES ASSUME NEW t \in current, NEW i \in DOMAIN delivered'[t]
               PROVE  delivered'[t][i].seq <= requestSeq
    BY <1>1 DEF SeqBoundsRun, CompareTask
  <2>0. t \in Task
    BY DEF IInv, TypeOK
  <2>1. CASE reads(t)
    <3>1. CASE i \in 1 .. Len(delivered[t])
      BY <1>1, <1>6, <1>7, <2>0, <2>1, <3>1
    <3>2. CASE i = Len(delivered[t]) + 1
      BY <1>1, <1>6, <1>10, <2>0, <2>1, <3>2
    <3>3. Len(delivered[t]) \in Nat
      BY <1>2, <2>0
    <3> QED
      BY <1>6, <2>0, <2>1, <3>1, <3>2, <3>3
  <2>2. CASE ~reads(t)
    <3>1. delivered'[t] = delivered[t]
      BY <1>2, <2>0, <2>2
    <3> QED
      BY <3>1 DEF IInv, SeqBoundsRun
  <2> QED
    BY <2>1, <2>2
<1>9. OwnDataInOrder'
  <2> SUFFICES ASSUME NEW t \in Task
               PROVE  /\ \A i \in DOMAIN delivered'[t] : delivered'[t][i].task = t
                      /\ \A i, j \in DOMAIN delivered'[t] :
                             i < j => delivered'[t][i].seq < delivered'[t][j].seq
    BY DEF OwnDataInOrder
  <2>0. Len(delivered[t]) \in Nat
    BY <1>2
  <2>1. CASE reads(t)
    <3>1. \A i \in 1 .. Len(delivered[t]) + 1 :
              i \in 1 .. Len(delivered[t]) \/ i = Len(delivered[t]) + 1
      BY <2>0
    <3>2. \A i \in DOMAIN delivered'[t] : delivered'[t][i].task = t
      BY <1>6, <1>10, <2>1, <3>1, SMTT(30) DEF IInv, OwnDataInOrder
    <3>3. ASSUME NEW i \in DOMAIN delivered'[t], NEW j \in DOMAIN delivered'[t], i < j
          PROVE  delivered'[t][i].seq < delivered'[t][j].seq
      <4>1. i \in 1 .. Len(delivered[t])
        BY <1>6, <2>0, <2>1, <3>3
      <4>2. CASE j \in 1 .. Len(delivered[t])
        BY <1>6, <2>1, <3>3, <4>1, <4>2 DEF IInv, OwnDataInOrder
      <4>3. CASE j = Len(delivered[t]) + 1
        BY <1>6, <1>10, <2>1, <4>1, <4>3
      <4> QED
        BY <1>6, <2>1, <3>1, <4>2, <4>3
    <3> QED
      BY <3>2, <3>3
  <2>2. CASE ~reads(t)
    BY <1>2, <2>2 DEF IInv, OwnDataInOrder
  <2> QED
    BY <2>1, <2>2
<1> QED
  BY <1>4, <1>5, <1>8, <1>9 DEF IInv

LEMMA SetTaskIInv ==
    ASSUME IInv, NEW t \in Task, SetTask(t)
    PROVE  IInv'
<1>1. TypeOK'
  BY DEF IInv, TypeOK, SetTask, senderVars, handlerVars
<1>2. RunsSound'
  BY DEF IInv, RunsSound, SetTask
<1>3. DOMAIN delivered[t] = {}
  BY DEF IInv, RunsSound, SetTask
<1>4. SeqBoundsRun'
  BY <1>3 DEF SeqBoundsRun, SetTask
<1>5. OwnDataInOrder'
  BY DEF IInv, OwnDataInOrder, SetTask
<1> QED
  BY <1>1, <1>2, <1>4, <1>5 DEF IInv

LEMMA NextIInv == IInv /\ [Next]_vars => IInv'
<1> SUFFICES ASSUME IInv, [Next]_vars PROVE IInv'
  OBVIOUS
<1> USE DEF senderVars, handlerVars, procVars, runVars
<1>1. ASSUME NEW t \in Task, Send(t) PROVE IInv'
  <2>1. TypeOK'
    BY <1>1 DEF IInv, TypeOK, Send
  <2> QED
    BY <1>1, <2>1, RunUntouched DEF Send
<1>2. ASSUME NEW t \in Task, Lose(t) PROVE IInv'
  <2>1. TypeOK'
    BY <1>2 DEF IInv, TypeOK, Lose
  <2> QED
    BY <1>2, <2>1, RunUntouched DEF Lose
<1>3. ASSUME NEW h \in Handler, NEW t \in Task, Dispatch(h, t) PROVE IInv'
  <2>1. arrived[t] + 1 \in Seqs /\ arrived[t] + 1 \in 0 .. MaxSeq
    BY <1>3 DEF IInv, TypeOK, Dispatch, Seqs
  <2>2. TypeOK'
    BY <1>3, <2>1 DEF IInv, TypeOK, Dispatch
  <2> QED
    BY <1>3, <2>2, RunUntouched DEF Dispatch
<1>4. CASE RemoveFirst
  <2>1. TypeOK'
    BY <1>4 DEF IInv, TypeOK, RemoveFirst
  <2> QED
    BY <1>4, <2>1, RunUntouched DEF RemoveFirst
<1>5. CASE Merge
  <2> DEFINE q == [k \in Seqs |-> IF queue[k] = {} /\ k \in local THEN current ELSE queue[k]]
  <2>1. q \in [Seqs -> SUBSET Task] /\ \A k \in Seqs : \A t, u \in q[k] : t = u
    BY DEF IInv, TypeOK
  <2> HIDE DEF q
  <2>2. TakeOrWait(q)
    BY <1>5 DEF Merge, q
  <2> QED
    BY <1>5, <2>1, <2>2, TakeOrWaitIInv DEF Merge
<1>6. CASE Wake
  <2>1. queue \in [Seqs -> SUBSET Task] /\ \A k \in Seqs : \A t, u \in queue[k] : t = u
    BY DEF IInv, TypeOK
  <2>2. local' \in SUBSET Seqs
    BY <1>6 DEF IInv, TypeOK, Wake
  <2> QED
    BY <1>6, <2>1, <2>2, TakeOrWaitIInv DEF Wake
<1>7. CASE EndRun
  <2>1. TypeOK'
    BY <1>7 DEF IInv, TypeOK, EndRun
  <2> QED
    BY <1>7, <2>1, RunUntouched DEF EndRun
<1>8. CASE UNCHANGED vars
  <2>1. TypeOK'
    BY <1>8 DEF IInv, TypeOK, vars
  <2> QED
    BY <1>8, <2>1, RunUntouched DEF vars
<1> QED
  BY <1>1, <1>2, <1>3, <1>4, <1>5, <1>6, <1>7, <1>8,
     PutBufferIInv, CompareTaskIInv, SetTaskIInv DEF Next, ConsumeBuffer

\* The inductive invariant the two theorems below follow from.
THEOREM InductiveInvariant == Spec => []IInv
<1> QED
  BY InitIInv, NextIInv, PTL DEF Spec

\* The variables of the channel keep their types: the request number never
\* passes the last number sent, and no number stands for two buffers.
THEOREM TypeCorrect == Spec => []TypeOK
<1>1. IInv => TypeOK
  BY DEF IInv
<1> QED
  BY <1>1, InductiveInvariant, PTL

\* A run reads buffers of its own task only, in the order they were sent, though
\* the queue is shared between the runs and never cleared.
THEOREM OwnDataCorrect == Spec => []OwnDataInOrder
<1>1. IInv => OwnDataInOrder
  BY DEF IInv
<1> QED
  BY <1>1, InductiveInvariant, PTL
-----------------------------------------------------------------------------
(* Runs that read all their buffers (Failing = {}): the FIFO channel.      *)

\* A buffer is only where the call that brought it can have put it, and in the
\* queue only when its task was fetched.
ArrivedOnly ==
    /\ \A t \in Task : arrived[t] <= sent[t] /\ \A k \in firstInput[t] : k <= arrived[t]
    /\ \A h \in Handler :
           /\ hPc[h] # "idle" => hSeq[h] <= arrived[hTask[h]]
           /\ hPc[h] = "input" => hTask[h] \in started
           /\ hPc[h] # "put" => hMap[h] = {}
           /\ \A k \in hMap[h] : k <= arrived[hTask[h]]
    /\ pc # "merge" => local = {}
    /\ \A t \in current : \A k \in local : k <= arrived[t]

QueueSound(q) == \A k \in Seqs : \A t \in q[k] : t \in started /\ k <= arrived[t]

\* What a run has read is the first so many buffers of its task, and they are freed;
\* of a task that is over it is all of them.
ReadAll ==
    /\ \A t \in Task : \A i \in 1 .. Len(delivered[t]) :
           delivered[t][i] = [task |-> t, seq |-> i] /\ i \in freed[t]
    /\ \A t \in started : t \in current \/ Len(delivered[t]) = MaxSeq
    /\ pc = "idle" => \A t \in current : Len(delivered[t]) = MaxSeq
    /\ pc # "idle" => current # {}

\* m_requestSeq is the number of buffers read; the one in hand is the next.
SeqCounts ==
    \A t \in current :
        IF pc = "compare"
            THEN got = current /\ requestSeq = Len(delivered[t]) + 1 /\ requestSeq <= arrived[t]
            ELSE requestSeq = Len(delivered[t])

FifoIInv == IInv /\ ArrivedOnly /\ QueueSound(queue) /\ ReadAll /\ SeqCounts

LEMMA Single ==
    ASSUME NEW S, NEW x \in S, \A y, z \in S : y = z
    PROVE  S = {x}
OBVIOUS

LEMMA InitFifo == Init => FifoIInv
<1>1. Init => ArrivedOnly /\ QueueSound(queue) /\ ReadAll /\ SeqCounts
  BY DEF Init, ArrivedOnly, QueueSound, ReadAll, SeqCounts
<1> QED
  BY <1>1, InitIInv DEF FifoIInv

\* What a step that leaves the processor alone keeps.
LEMMA ReadsUntouched ==
    ASSUME ReadAll, SeqCounts, UNCHANGED <<procVars, runVars>>,
           IInv, \A t \in Task : arrived[t] <= arrived'[t] /\ arrived'[t] \in Nat
    PROVE  ReadAll' /\ SeqCounts'
<1> USE DEF procVars, runVars
<1>1. ReadAll'
  BY DEF ReadAll
<1>2. \A t \in current : t \in Task /\ arrived[t] \in Nat /\ requestSeq \in Nat
  BY DEF IInv, TypeOK
<1>3. SeqCounts'
  BY <1>2 DEF SeqCounts
<1> QED
  BY <1>1, <1>3

LEMMA SenderFifo ==
    ASSUME FifoIInv, NEW t \in Task,
           Send(t) \/ Lose(t) \/ \E h \in Handler : Dispatch(h, t)
    PROVE  ArrivedOnly' /\ QueueSound(queue)' /\ ReadAll' /\ SeqCounts'
<1> USE DEF senderVars, handlerVars
<1>0. /\ \A u \in Task : sent[u] \in Nat /\ arrived[u] \in Nat
      /\ \A u \in Task : sent[u] <= sent'[u] /\ sent'[u] \in Nat
      /\ \A u \in Task : arrived[u] <= arrived'[u] /\ arrived'[u] \in Nat
                         /\ arrived'[u] <= sent'[u]
      /\ UNCHANGED <<procVars, runVars, firstInput, queue>>
  <2>1. /\ \A u \in Task : sent[u] \in Nat /\ arrived[u] \in Nat /\ arrived[u] <= sent[u]
        /\ sent \in [Task -> 0 .. MaxSeq] /\ arrived \in [Task -> 0 .. MaxSeq]
    BY DEF FifoIInv, IInv, TypeOK, ArrivedOnly
  <2>2. CASE Send(t)
    BY <2>1, <2>2 DEF Send
  <2>3. CASE Lose(t)
    BY <2>1, <2>3 DEF Lose
  <2>4. ASSUME NEW h \in Handler, Dispatch(h, t)
        PROVE  /\ arrived' = [arrived EXCEPT ![t] = @ + 1] /\ arrived[t] < sent[t]
               /\ UNCHANGED <<sent, procVars, runVars, firstInput, queue>>
    BY <2>4 DEF Dispatch
  <2>5. CASE \E h \in Handler : Dispatch(h, t)
    BY <2>1, <2>4, <2>5
  <2> QED
    BY <2>2, <2>3, <2>5
<1>1. ReadAll' /\ SeqCounts'
  BY <1>0, ReadsUntouched DEF FifoIInv
<1>2. \A k \in Seqs : k \in Nat
  BY DEF Seqs
<1>3. QueueSound(queue)'
  <2> SUFFICES ASSUME NEW k \in Seqs, NEW u \in queue[k] PROVE u \in started /\ k <= arrived'[u]
    BY <1>0 DEF QueueSound, runVars
  <2>1. u \in Task /\ u \in started /\ k <= arrived[u]
    BY DEF FifoIInv, IInv, TypeOK, QueueSound
  <2> QED
    BY <1>0, <1>2, <2>1
<1>4. ArrivedOnly'
  <2>1. \A u \in Task : \A k \in firstInput[u] : k <= arrived'[u]
    BY <1>0, <1>2, SMTT(30) DEF FifoIInv, IInv, TypeOK, ArrivedOnly
  <2>2. (pc # "merge" => local = {}) /\ \A u \in current : \A k \in local : k <= arrived'[u]
    BY <1>0, <1>2, SMTT(30) DEF FifoIInv, IInv, TypeOK, ArrivedOnly
  <2>3. ASSUME NEW g \in Handler
        PROVE  /\ hPc'[g] # "idle" => hSeq'[g] <= arrived'[hTask'[g]]
               /\ hPc'[g] = "input" => hTask'[g] \in started
               /\ hPc'[g] # "put" => hMap'[g] = {}
               /\ \A k \in hMap'[g] : k <= arrived'[hTask'[g]]
    <3>0. hTask[g] \in Task /\ hSeq[g] \in Nat /\ hMap[g] \in SUBSET Nat
      BY <1>2 DEF FifoIInv, IInv, TypeOK
    <3>1. CASE hPc'[g] = hPc[g] /\ hSeq'[g] = hSeq[g] /\ hTask'[g] = hTask[g] /\ hMap'[g] = hMap[g]
      BY <1>0, <3>0, <3>1 DEF FifoIInv, ArrivedOnly
    <3>2. CASE Dispatch(g, t)
      <4>1. hPc'[g] = "check" /\ hTask'[g] = t /\ hSeq'[g] = arrived'[t] /\ hMap'[g] = {}
        <5>1. hPc[g] = "idle" /\ hMap[g] = {}
          BY <3>2 DEF FifoIInv, ArrivedOnly, Dispatch
        <5>2. /\ hPc' = [hPc EXCEPT ![g] = "check"] /\ hTask' = [hTask EXCEPT ![g] = t]
              /\ hSeq' = [hSeq EXCEPT ![g] = arrived[t] + 1] /\ hMap' = hMap
              /\ arrived' = [arrived EXCEPT ![t] = @ + 1]
          BY <3>2 DEF Dispatch
        <5> QED
          BY <5>1, <5>2 DEF FifoIInv, IInv, TypeOK
      <4> QED
        BY <1>0, <4>1
    <3> QED
      BY <3>1, <3>2, SMTT(30) DEF Send, Lose, Dispatch, FifoIInv, IInv, TypeOK
  <2> QED
    BY <1>0, <2>1, <2>2, <2>3 DEF ArrivedOnly, procVars, runVars
<1> QED
  BY <1>1, <1>3, <1>4

LEMMA HandlerFifo ==
    ASSUME FifoIInv, NEW h \in Handler, PutBuffer(h)
    PROVE  ArrivedOnly' /\ QueueSound(queue)' /\ ReadAll' /\ SeqCounts'
<1> USE DEF senderVars
<1>0. UNCHANGED <<senderVars, procVars, runVars>> /\ hTask' = hTask /\ hSeq' = hSeq
  BY DEF PutBuffer, CheckTask, InputBuffer, GetFirst, PutFirst
<1>1. ReadAll' /\ SeqCounts'
  BY <1>0, ReadsUntouched DEF FifoIInv, IInv, TypeOK
<1>2. TypeOK /\ current \subseteq started
  BY DEF FifoIInv, IInv, RunsSound
<1>3. CASE CheckTask(h)
  <2>1. QueueSound(queue)'
    BY <1>0, <1>3 DEF CheckTask, QueueSound, FifoIInv, runVars
  <2>2. ArrivedOnly'
    BY <1>0, <1>2, <1>3 DEF CheckTask, ArrivedOnly, FifoIInv, TypeOK, procVars, runVars
  <2> QED
    BY <1>1, <2>1, <2>2
<1>4. CASE InputBuffer(h)
  <2>1. QueueSound(queue)'
    BY <1>0, <1>2, <1>4 DEF InputBuffer, QueueSound, ArrivedOnly, FifoIInv, TypeOK, runVars
  <2>2. ArrivedOnly'
    BY <1>0, <1>2, <1>4 DEF InputBuffer, ArrivedOnly, FifoIInv, TypeOK, procVars, runVars
  <2> QED
    BY <1>1, <2>1, <2>2
<1>5. CASE GetFirst(h)
  <2>1. QueueSound(queue)'
    BY <1>0, <1>5 DEF GetFirst, QueueSound, FifoIInv, runVars
  <2>2. ArrivedOnly'
    BY <1>0, <1>2, <1>5 DEF GetFirst, ArrivedOnly, FifoIInv, TypeOK, procVars, runVars
  <2> QED
    BY <1>1, <2>1, <2>2
<1>6. CASE PutFirst(h)
  <2>1. QueueSound(queue)'
    BY <1>0, <1>6 DEF PutFirst, QueueSound, FifoIInv, runVars
  <2>2. ArrivedOnly'
    BY <1>0, <1>2, <1>6 DEF PutFirst, ArrivedOnly, FifoIInv, TypeOK, procVars, runVars
  <2> QED
    BY <1>1, <2>1, <2>2
<1> QED
  BY <1>3, <1>4, <1>5, <1>6 DEF PutBuffer

\* A buffer taken from the queue is the current task's: any other task that left
\* one there has read and freed all its buffers.
LEMMA TakeOrWaitFifo ==
    ASSUME FifoIInv, NEW q \in [Seqs -> SUBSET Task],
           \A k \in Seqs : \A t, u \in q[k] : t = u,
           QueueSound(q), pc \in {"merge", "wait"}, TakeOrWait(q), local' = {},
           UNCHANGED <<senderVars, handlerVars, current, runVars, firstInput>>
    PROVE  ArrivedOnly' /\ QueueSound(queue)' /\ ReadAll' /\ SeqCounts'
<1> USE DEF senderVars, handlerVars, runVars
<1>1. ArrivedOnly'
  BY DEF ArrivedOnly, FifoIInv
<1>2. TypeOK /\ current # {}
  BY DEF FifoIInv, IInv, ReadAll
<1>3. CASE HeadIsNext(q) /\ ~Dangling(q) /\ requestSeq' = requestSeq + 1
           /\ got' = q[requestSeq + 1]
           /\ queue' = [q EXCEPT ![requestSeq + 1] = {}] /\ pc' = "compare"
  <2> DEFINE n == requestSeq + 1
  <2>1. n \in Seqs /\ q[n] # {} /\ IsHead(q, n)
    BY <1>3 DEF HeadIsNext, IsHead, Keys
  <2>2. QueueSound(queue)'
    BY <1>3, <2>1 DEF QueueSound
  <2>3. PICK u \in q[n] : u \in Task /\ u \in started /\ n <= arrived[u] /\ n \notin freed[u]
    BY <1>3, <2>1 DEF QueueSound, Dangling
  <2>4. u \in current
    <3>1. n \in 1 .. MaxSeq
      BY <2>1 DEF Seqs
    <3> QED
      BY <2>3, <3>1 DEF FifoIInv, ReadAll
  <2>5. q[n] = current
    <3>1. q[n] = {u}
      BY <2>1, <2>3, Single
    <3>2. current = {u}
      BY <1>2, <2>4, Single DEF TypeOK
    <3> QED
      BY <3>1, <3>2
  <2>6. SeqCounts'
    BY <1>2, <1>3, <2>3, <2>4, <2>5 DEF SeqCounts, FifoIInv, TypeOK
  <2>7. ReadAll'
    BY <1>3 DEF ReadAll, FifoIInv
  <2> QED
    BY <1>1, <2>2, <2>6, <2>7
<1>4. CASE queue' = q /\ pc' \in {"wait", "crashed"} /\ UNCHANGED <<got, requestSeq>>
  <2>1. QueueSound(queue)'
    BY <1>4 DEF QueueSound
  <2>2. SeqCounts'
    BY <1>4 DEF SeqCounts, FifoIInv
  <2>3. ReadAll'
    BY <1>2, <1>4 DEF ReadAll, FifoIInv
  <2> QED
    BY <1>1, <2>1, <2>2, <2>3
<1> QED
  BY <1>3, <1>4 DEF TakeOrWait

\* The buffer in hand is the one after the last the run has read.
LEMMA CompareTaskReceives ==
    ASSUME FifoIInv, CompareTask
    PROVE  \E t \in current :
             LET b == [task |-> t, seq |-> Len(delivered[t]) + 1] IN
               /\ t \in Task /\ current = {t} /\ got = {t}
               /\ requestSeq = Len(delivered[t]) + 1
               /\ requestSeq <= arrived[t] /\ arrived[t] <= sent[t]
               /\ b \in Buffer
               /\ delivered' = [delivered EXCEPT ![t] = Append(@, b)]
<1>1. TypeOK /\ current # {} /\ pc = "compare"
  BY DEF FifoIInv, IInv, ReadAll, CompareTask
<1>2. PICK t \in current : t \in Task /\ current = {t}
  <2>1. PICK t \in current : t \in Task
    BY <1>1 DEF TypeOK
  <2>2. current = {t}
    BY <1>1, Single DEF TypeOK
  <2> QED
    BY <2>1, <2>2
<1>3. /\ got = current /\ requestSeq = Len(delivered[t]) + 1
      /\ requestSeq <= arrived[t] /\ arrived[t] <= sent[t]
  BY <1>1, <1>2 DEF FifoIInv, SeqCounts, ArrivedOnly
<1>4. requestSeq \in Seqs
  BY <1>1 DEF FifoIInv, IInv, SeqBoundsRun
<1>5. [task |-> t, seq |-> requestSeq] \in Buffer
  BY <1>2, <1>4 DEF Buffer
<1>6. delivered' = [delivered EXCEPT ![t] = Append(@, [task |-> t, seq |-> requestSeq])]
  BY <1>1, <1>2, <1>3 DEF TypeOK, CompareTask
<1> QED
  BY <1>2, <1>3, <1>5, <1>6

LEMMA CompareTaskFifo ==
    ASSUME FifoIInv, CompareTask
    PROVE  ArrivedOnly' /\ QueueSound(queue)' /\ ReadAll' /\ SeqCounts'
<1> USE DEF senderVars, handlerVars
<1>1. PICK t \in current :
             LET b == [task |-> t, seq |-> Len(delivered[t]) + 1] IN
               /\ t \in Task /\ current = {t} /\ got = {t}
               /\ requestSeq = Len(delivered[t]) + 1
               /\ requestSeq <= arrived[t] /\ arrived[t] <= sent[t]
               /\ b \in Buffer
               /\ delivered' = [delivered EXCEPT ![t] = Append(@, b)]
  BY CompareTaskReceives
<1> DEFINE b == [task |-> t, seq |-> Len(delivered[t]) + 1]
<1>2. TypeOK
  BY DEF FifoIInv, IInv
<1>3. ArrivedOnly' /\ QueueSound(queue)'
  BY DEF ArrivedOnly, QueueSound, FifoIInv, CompareTask
<1>4. delivered[t] \in Seq(Buffer) /\ delivered'[t] = Append(delivered[t], b) /\ b \in Buffer
  BY <1>1, <1>2 DEF TypeOK
<1> HIDE DEF b
<1>5. /\ Len(delivered'[t]) = Len(delivered[t]) + 1 /\ Len(delivered[t]) \in Nat
      /\ \A i \in 1 .. Len(delivered[t]) : delivered'[t][i] = delivered[t][i]
      /\ delivered'[t][Len(delivered[t]) + 1] = b
  BY <1>4
<1>6. /\ \A u \in Task \ {t} : delivered'[u] = delivered[u] /\ freed'[u] = freed[u]
      /\ freed'[t] = freed[t] \cup {requestSeq}
  BY <1>1, <1>2 DEF TypeOK, CompareTask
<1>7. SeqCounts'
  BY <1>1, <1>5 DEF SeqCounts, CompareTask
<1>8. ReadAll'
  <2>1. ASSUME NEW u \in Task, NEW i \in 1 .. Len(delivered'[u])
        PROVE  delivered'[u][i] = [task |-> u, seq |-> i] /\ i \in freed'[u]
    <3>1. CASE u # t
      BY <1>6, <2>1, <3>1 DEF FifoIInv, ReadAll
    <3>2. CASE u = t /\ i \in 1 .. Len(delivered[t])
      BY <1>5, <1>6, <3>2 DEF FifoIInv, ReadAll
    <3>3. CASE u = t /\ i = Len(delivered[t]) + 1
      BY <1>1, <1>5, <1>6, <3>3 DEF b
    <3> QED
      BY <1>5, <2>1, <3>1, <3>2, <3>3
  <2>2. current \subseteq Task /\ started \subseteq Task
    BY <1>2 DEF TypeOK
  <2>3. \A u \in started : u \in current \/ Len(delivered'[u]) = MaxSeq
    BY <1>1, <1>6, <2>2 DEF FifoIInv, ReadAll
  <2> QED
    BY <1>1, <2>1, <2>3 DEF ReadAll, CompareTask
<1> QED
  BY <1>3, <1>7, <1>8

LEMMA NextFifo ==
    ASSUME Failing = {}, FifoIInv, [Next]_vars
    PROVE  FifoIInv'
<1> USE DEF senderVars, handlerVars, procVars, runVars
<1>0. IInv'
  BY NextIInv DEF FifoIInv
<1>1. TypeOK /\ current \subseteq started
  BY DEF FifoIInv, IInv, RunsSound
<1> DEFINE Goal == ArrivedOnly' /\ QueueSound(queue)' /\ ReadAll' /\ SeqCounts'
<1>2. ASSUME NEW t \in Task, SetTask(t) PROVE Goal
  <2>1. ArrivedOnly'
    BY <1>2 DEF SetTask, ArrivedOnly, FifoIInv
  <2>2. QueueSound(queue)'
    BY <1>2 DEF SetTask, QueueSound, FifoIInv
  <2>3. delivered[t] = << >>
    BY <1>2 DEF SetTask, FifoIInv, IInv, RunsSound
  <2>4. SeqCounts'
    BY <1>2, <2>3 DEF SetTask, SeqCounts
  <2>5. ReadAll'
    BY <1>2 DEF SetTask, ReadAll, FifoIInv
  <2> QED
    BY <2>1, <2>2, <2>4, <2>5
<1>3. ASSUME RemoveFirst PROVE Goal
  <2>1. PICK t \in current : local' = firstInput[t]
                             /\ firstInput' = [firstInput EXCEPT ![t] = {}]
    BY <1>3 DEF RemoveFirst
  <2>2. ArrivedOnly'
    BY <1>1, <1>3, <2>1 DEF RemoveFirst, ArrivedOnly, FifoIInv, TypeOK
  <2>3. QueueSound(queue)' /\ SeqCounts'
    BY <1>3 DEF RemoveFirst, QueueSound, SeqCounts, FifoIInv
  <2>4. ReadAll'
    BY <1>3, <2>1 DEF RemoveFirst, ReadAll, FifoIInv
  <2> QED
    BY <2>2, <2>3, <2>4
<1>4. ASSUME Merge PROVE Goal
  <2> DEFINE q == [k \in Seqs |-> IF queue[k] = {} /\ k \in local THEN current ELSE queue[k]]
  <2>1. q \in [Seqs -> SUBSET Task] /\ \A k \in Seqs : \A t, u \in q[k] : t = u
    BY <1>1 DEF TypeOK
  <2>2. QueueSound(q)
    BY <1>1 DEF QueueSound, FifoIInv, ArrivedOnly
  <2> HIDE DEF q
  <2>3. TakeOrWait(q)
    BY <1>4 DEF Merge, q
  <2> QED
    BY <1>4, <2>1, <2>2, <2>3, TakeOrWaitFifo DEF Merge
<1>5. ASSUME Wake PROVE Goal
  <2>1. queue \in [Seqs -> SUBSET Task] /\ \A k \in Seqs : \A t, u \in queue[k] : t = u
    BY <1>1 DEF TypeOK
  <2>2. local' = {} /\ QueueSound(queue)
    BY <1>5 DEF Wake, FifoIInv, ArrivedOnly
  <2> QED
    BY <1>5, <2>1, <2>2, TakeOrWaitFifo DEF Wake
<1>6. ASSUME EndRun PROVE Goal
  <2>1. ArrivedOnly' /\ QueueSound(queue)' /\ SeqCounts'
    BY <1>6 DEF EndRun, ArrivedOnly, QueueSound, SeqCounts, FifoIInv
  <2>2. \A t \in current : Len(delivered[t]) = MaxSeq
    BY <1>6 DEF EndRun
  <2>3. ReadAll'
    BY <1>6, <2>2 DEF EndRun, ReadAll, FifoIInv
  <2> QED
    BY <2>1, <2>3
<1>7. ASSUME UNCHANGED vars PROVE Goal
  BY <1>7 DEF vars, FifoIInv, ArrivedOnly, QueueSound, ReadAll, SeqCounts
<1>8. Goal
  BY <1>2, <1>3, <1>4, <1>5, <1>6, <1>7, SenderFifo, HandlerFifo, CompareTaskFifo
     DEF FifoIInv, Next, ConsumeBuffer
<1> QED
  BY <1>0, <1>8 DEF FifoIInv

\* When no run ends early, what the runs have read is where m_requestSeq stands.
THEOREM FifoInductive == Failing = {} => (Spec => []FifoIInv)
<1>1. ASSUME Failing = {} PROVE Spec => []FifoIInv
  <2>1. FifoIInv /\ [Next]_vars => FifoIInv'
    BY <1>1, NextFifo
  <2> QED
    BY InitFifo, <2>1, PTL DEF Spec
<1> QED
  BY <1>1

\* "reqeust seq should be the same as the sender" holds when no run ends early,
\* however the server threads interleave with the processor.
THEOREM SeqMatchesCorrect == Failing = {} => (Spec => []SeqMatchesSender)
<1>1. FifoIInv => SeqMatchesSender
  BY DEF FifoIInv, SeqCounts, SeqMatchesSender
<1>2. ASSUME Failing = {} PROVE Spec => []SeqMatchesSender
  <2>1. Spec => []FifoIInv
    BY <1>2, FifoInductive
  <2> QED
    BY <1>1, <2>1, PTL
<1> QED
  BY <1>2

\* When no run ends early, processor, dispatcher and server threads implement a
\* FIFO channel for each task: every step receives its next buffer, sends one, or
\* leaves both ends alone.
THEOREM RefinesFifo == Failing = {} => (Spec => FifoSpec)
<1>1. Init => Fifo!Init
  BY DEF Init, Fifo!Init
<1>2. FifoIInv /\ [Next]_vars => [Fifo!Next]_(Fifo!vars)
  <2> SUFFICES ASSUME FifoIInv, [Next]_vars PROVE [Fifo!Next]_(Fifo!vars)
    OBVIOUS
  <2> USE DEF senderVars, runVars
  <2>1. ASSUME NEW t \in Task, Send(t) PROVE Fifo!Next
    BY <2>1 DEF Send, Fifo!Next, Fifo!Send
  <2>2. CASE CompareTask
    <3>1. PICK t \in current :
             LET b == [task |-> t, seq |-> Len(delivered[t]) + 1] IN
               /\ t \in Task /\ current = {t} /\ got = {t}
               /\ requestSeq = Len(delivered[t]) + 1
               /\ requestSeq <= arrived[t] /\ arrived[t] <= sent[t]
               /\ b \in Buffer
               /\ delivered' = [delivered EXCEPT ![t] = Append(@, b)]
      BY <2>2, CompareTaskReceives
    <3>2. Len(delivered[t]) < sent[t]
      BY <3>1 DEF FifoIInv, IInv, TypeOK
    <3>3. delivered' = [delivered EXCEPT ![t] =
                          Append(@, [task |-> t, seq |-> Len(@) + 1])]
      BY <3>1
    <3> QED
      BY <2>2, <3>1, <3>2, <3>3 DEF CompareTask, Fifo!Next, Fifo!Receive
  <2>3. ASSUME UNCHANGED <<sent, delivered>> PROVE UNCHANGED Fifo!vars
    BY <2>3 DEF Fifo!vars
  <2>4. ASSUME NEW t \in Task, Lose(t) \/ SetTask(t) PROVE UNCHANGED <<sent, delivered>>
    BY <2>4 DEF Lose, SetTask
  <2>5. ASSUME NEW h \in Handler, PutBuffer(h) \/ \E t \in Task : Dispatch(h, t)
        PROVE  UNCHANGED <<sent, delivered>>
    BY <2>5 DEF PutBuffer, CheckTask, InputBuffer, GetFirst, PutFirst, Dispatch
  <2>6. CASE RemoveFirst \/ Merge \/ Wake \/ EndRun \/ UNCHANGED vars
    <3>1. UNCHANGED <<sent, delivered>>
      BY <2>6 DEF RemoveFirst, Merge, Wake, EndRun, vars
    <3> QED
      BY <2>3, <3>1
  <2> QED
    BY <2>1, <2>2, <2>3, <2>4, <2>5, <2>6 DEF Next, ConsumeBuffer
<1>3. ASSUME Failing = {} PROVE Spec => FifoSpec
  <2>1. Spec => []FifoIInv
    BY <1>3, FifoInductive
  <2> QED
    BY <1>1, <1>2, <2>1, PTL DEF Spec, FifoSpec, Fifo!Spec
<1> QED
  BY <1>3
-----------------------------------------------------------------------------
(* Without races no buffer is lost (WaitsForMissing).                      *)

\* How many buffers of t its run has got to, the one in hand included.
Progress(t) == IF t \in current THEN requestSeq ELSE Len(delivered[t])

\* Buffer k of t has come, and the run of t has not got to it.
Unread(t, k) == Progress(t) < k /\ k <= arrived[t]

\* Server thread h has buffer k of t.
HasBuffer(h, t, k) == hPc[h] # "idle" /\ hTask[h] = t /\ hSeq[h] = k

\* The buffers of t that the node keeps for its run.
Stored(t) ==
    firstInput[t] \cup (IF t \in current THEN local ELSE {}) \cup {k \in Seqs : t \in queue[k]}

\* Each buffer that came and was not read is kept or in the hands of a server
\* thread, one only, and no other buffer is anywhere.
OnePlace ==
    /\ \A t \in Task : Progress(t) <= arrived[t]
    /\ \A t \in Task : \A k \in Stored(t) : Unread(t, k)
    /\ \A t \in Task : \A k \in Seqs :
           Unread(t, k) => k \in Stored(t) \/ \E h \in Handler : HasBuffer(h, t, k)
    /\ \A h \in Handler : hPc[h] # "idle" =>
           /\ Unread(hTask[h], hSeq[h])
           /\ hSeq[h] \notin Stored(hTask[h])
           /\ \A g \in Handler : HasBuffer(g, hTask[h], hSeq[h]) => g = h

\* Only the buffers of the task at work are on their way to the queue or in it, and
\* no buffer is freed before it is read.
OwnRunOnly ==
    /\ \A h \in Handler : hPc[h] = "input" => hTask[h] \in current
    /\ \A k \in Seqs : queue[k] \subseteq current
    /\ pc \in {"merge", "wait", "compare"} => \A t \in current : firstInput[t] = {}
    /\ \A t \in Task : \A k \in freed[t] : k <= Len(delivered[t])
    /\ Alive

Unlost == OnePlace /\ OwnRunOnly

LEMMA PlaceTypes ==
    ASSUME FifoIInv
    PROVE  /\ current \subseteq Task /\ Seqs \subseteq Nat /\ requestSeq \in Nat
           /\ \A t \in Task : /\ arrived[t] \in Nat /\ arrived[t] <= MaxSeq
                              /\ Len(delivered[t]) \in Nat /\ Progress(t) \in Nat
                              /\ Stored(t) \subseteq Seqs
           /\ \A h \in Handler : hTask[h] \in Task /\ hSeq[h] \in Seqs
<1>1. TypeOK
  BY DEF FifoIInv, IInv
<1>2. \A t \in Task : Len(delivered[t]) \in Nat
  BY <1>1 DEF TypeOK
<1>3. current \subseteq Task /\ Seqs \subseteq Nat /\ requestSeq \in Nat
  BY <1>1 DEF TypeOK, Seqs
<1>4. \A t \in Task : Stored(t) \subseteq Seqs
  BY <1>1 DEF TypeOK, Stored
<1>5. \A t \in Task : Progress(t) \in Nat
  BY <1>2, <1>3 DEF Progress
<1>6. \A t \in Task : arrived[t] \in Nat /\ arrived[t] <= MaxSeq
  BY <1>1 DEF TypeOK
<1> QED
  BY <1>1, <1>2, <1>3, <1>4, <1>5, <1>6 DEF TypeOK

LEMMA InitUnlost == Init => Unlost
<1> SUFFICES ASSUME Init PROVE Unlost
  OBVIOUS
<1>1. \A t \in Task : Progress(t) = 0 /\ arrived[t] = 0 /\ Stored(t) = {}
  BY DEF Init, Progress, Stored
<1>2. OnePlace
  BY <1>1 DEF Init, OnePlace, Unread, Seqs
<1>3. OwnRunOnly
  BY DEF Init, OwnRunOnly, Alive
<1> QED
  BY <1>2, <1>3 DEF Unlost

\* A step that brings no buffer and keeps those that came where they are.
LEMMA PlacesUntouched ==
    ASSUME OnePlace,
           \A t \in Task : /\ Progress(t)' = Progress(t) /\ Stored(t)' = Stored(t)
                           /\ arrived'[t] = arrived[t],
           \A h \in Handler : /\ hPc'[h] = "idle" <=> hPc[h] = "idle"
                              /\ hTask'[h] = hTask[h] /\ hSeq'[h] = hSeq[h]
                              /\ hTask[h] \in Task
    PROVE  OnePlace'
<1>1. \A t \in Task : \A k : Unread(t, k)' <=> Unread(t, k)
  BY DEF Unread
<1>2. \A h \in Handler, t \in Task : \A k : HasBuffer(h, t, k)' <=> HasBuffer(h, t, k)
  BY DEF HasBuffer
<1>3. \A t \in Task : \A k \in Stored(t)' : Unread(t, k)'
  BY <1>1 DEF OnePlace
<1>4. \A t \in Task : \A k \in Seqs :
          Unread(t, k)' => k \in Stored(t)' \/ \E h \in Handler : HasBuffer(h, t, k)'
  BY <1>1, <1>2 DEF OnePlace
<1>5. ASSUME NEW h \in Handler, hPc'[h] # "idle"
      PROVE  (/\ Unread(hTask[h], hSeq[h])
              /\ hSeq[h] \notin Stored(hTask[h])
              /\ \A g \in Handler : HasBuffer(g, hTask[h], hSeq[h]) => g = h)'
  <2>1. PICK t \in Task : t = hTask[h]
    OBVIOUS
  <2>0. PICK k : k = hSeq[h]
    OBVIOUS
  <2>2. hTask'[h] = t /\ hSeq'[h] = k /\ hPc[h] # "idle"
    BY <1>5, <2>0, <2>1
  <2>3. Unread(t, k) /\ k \notin Stored(t) /\ \A g \in Handler : HasBuffer(g, t, k) => g = h
    BY <2>0, <2>1, <2>2 DEF OnePlace
  <2>4. Unread(t, k)' /\ k \notin Stored(t)' /\ \A g \in Handler : HasBuffer(g, t, k)' => g = h
    BY <1>1, <1>2, <2>3
  <2> QED
    BY <2>2, <2>4
<1> QED
  BY <1>3, <1>4, <1>5 DEF OnePlace

\* A server thread leaves its buffer with the ones that are kept.
LEMMA BufferKept ==
    ASSUME FifoIInv, OnePlace, NEW h \in Handler, hPc[h] # "idle",
           UNCHANGED <<senderVars, hTask, hSeq, current, requestSeq, delivered>>,
           hPc' = [hPc EXCEPT ![h] = "idle"],
           Stored(hTask[h])' = Stored(hTask[h]) \cup {hSeq[h]},
           \A t \in Task \ {hTask[h]} : Stored(t)' = Stored(t)
    PROVE  OnePlace'
<1> DEFINE u == hTask[h]
           n == hSeq[h]
<1>1. u \in Task /\ n \in Seqs
  BY PlaceTypes
<1>2. Unread(u, n) /\ n \notin Stored(u) /\ \A g \in Handler : HasBuffer(g, u, n) => g = h
  BY DEF OnePlace
<1>3. \A t \in Task : Progress(t)' = Progress(t)
  BY DEF Progress
<1>4. \A t \in Task : \A k : Unread(t, k)' <=> Unread(t, k)
  BY <1>3 DEF Unread, senderVars
<1>5. /\ hPc'[h] = "idle" /\ \A g \in Handler \ {h} : hPc'[g] = hPc[g]
      /\ hTask' = hTask /\ hSeq' = hSeq
  BY DEF FifoIInv, IInv, TypeOK
<1>6. PICK t0 \in Task, k0 \in Seqs :
          t0 = u /\ k0 = n /\ Stored(t0)' = Stored(t0) \cup {k0} /\ Unread(t0, k0)
  BY <1>1, <1>2
<1>7. \A t \in Task \ {t0} : Stored(t)' = Stored(t)
  BY <1>6
<1>8. \A t \in Task : Progress(t)' <= arrived'[t]
  BY <1>3 DEF OnePlace, senderVars
<1>9. \A t \in Task : \A k \in Stored(t)' : Unread(t, k)'
  BY <1>4, <1>6, <1>7 DEF OnePlace
<1>10. ASSUME NEW t \in Task, NEW k \in Seqs, Unread(t, k)'
       PROVE  k \in Stored(t)' \/ \E g \in Handler : HasBuffer(g, t, k)'
  <2>1. CASE k \in Stored(t)
    BY <2>1, <1>6, <1>7
  <2>2. CASE t = t0 /\ k = k0
    BY <2>2, <1>6
  <2>3. CASE ~(t = t0 /\ k = k0) /\ \E g \in Handler : HasBuffer(g, t, k)
    <3>1. PICK g \in Handler : HasBuffer(g, t, k)
      BY <2>3
    <3>2. g # h
      BY <2>3, <3>1, <1>6 DEF HasBuffer
    <3> QED
      BY <3>1, <3>2, <1>5 DEF HasBuffer
  <2> QED
    BY <2>1, <2>2, <2>3, <1>4, <1>10 DEF OnePlace
<1>11. ASSUME NEW g \in Handler, hPc'[g] # "idle"
       PROVE  (/\ Unread(hTask[g], hSeq[g])
               /\ hSeq[g] \notin Stored(hTask[g])
               /\ \A f \in Handler : HasBuffer(f, hTask[g], hSeq[g]) => f = g)'
  <2>1. PICK t \in Task, k \in Seqs : t = hTask[g] /\ k = hSeq[g]
    BY PlaceTypes
  <2>2. hTask'[g] = t /\ hSeq'[g] = k /\ g # h /\ hPc[g] # "idle"
    BY <1>5, <1>11, <2>1
  <2>3. Unread(t, k) /\ k \notin Stored(t) /\ \A f \in Handler : HasBuffer(f, t, k) => f = g
    BY <2>1, <2>2 DEF OnePlace
  <2>4. ~(t = t0 /\ k = k0)
    BY <1>6, <2>1, <2>2, <2>3 DEF HasBuffer
  <2>5. k \notin Stored(t)'
    BY <1>6, <1>7, <2>3, <2>4
  <2>6. \A f \in Handler : HasBuffer(f, t, k)' => f = g
    BY <1>5, <2>3 DEF HasBuffer
  <2> QED
    BY <2>2, <2>3, <2>5, <2>6, <1>4
<1> QED
  BY <1>8, <1>9, <1>10, <1>11 DEF OnePlace

LEMMA DispatchUnlost ==
    ASSUME FifoIInv, Unlost, NEW h \in Handler, NEW t \in Task, Dispatch(h, t)
    PROVE  Unlost'
<1> USE DEF Dispatch, procVars, runVars
<1>1. /\ hPc'[h] = "check" /\ hTask'[h] = t /\ hSeq'[h] = arrived[t] + 1 /\ hPc[h] = "idle"
      /\ \A g \in Handler \ {h} : hPc'[g] = hPc[g] /\ hTask'[g] = hTask[g] /\ hSeq'[g] = hSeq[g]
      /\ arrived'[t] = arrived[t] + 1 /\ \A u \in Task \ {t} : arrived'[u] = arrived[u]
  BY DEF FifoIInv, IInv, TypeOK
<1>2. PICK n \in Nat : n = arrived[t] + 1
  BY PlaceTypes
<1>3. \A u \in Task : Progress(u)' = Progress(u) /\ Stored(u)' = Stored(u)
  BY DEF Progress, Stored
<1>4. \A u \in Task : /\ arrived[u] \in Nat /\ Progress(u) \in Nat
                      /\ Progress(u) <= arrived[u] /\ Stored(u) \subseteq Nat
  BY PlaceTypes DEF Unlost, OnePlace
<1>5. \A u \in Task : \A k \in Nat : Unread(u, k)' <=> Unread(u, k) \/ (u = t /\ k = n)
  <2> SUFFICES ASSUME NEW u \in Task, NEW k \in Nat
               PROVE  Unread(u, k)' <=> Unread(u, k) \/ (u = t /\ k = n)
    OBVIOUS
  <2>1. CASE u = t
    BY <1>1, <1>2, <1>3, <1>4, <2>1 DEF Unread
  <2>2. CASE u # t
    BY <1>1, <1>3, <2>2 DEF Unread
  <2> QED
    BY <2>1, <2>2
<1>6. ~Unread(t, n)
  BY <1>2, <1>4 DEF Unread
<1>7. HasBuffer(h, t, n)' /\ Unread(t, n)'
  BY <1>1, <1>2, <1>5 DEF HasBuffer
<1>8. \A u \in Task : Progress(u)' <= arrived'[u]
  <2> SUFFICES ASSUME NEW u \in Task PROVE Progress(u)' <= arrived'[u]
    OBVIOUS
  <2>1. CASE u = t
    BY <1>1, <1>3, <1>4, <2>1
  <2>2. CASE u # t
    BY <1>1, <1>3, <1>4, <2>2
  <2> QED
    BY <2>1, <2>2
<1>9. \A u \in Task : \A k \in Stored(u)' : Unread(u, k)'
  BY <1>3, <1>4, <1>5 DEF Unlost, OnePlace
<1>10. ASSUME NEW u \in Task, NEW k \in Seqs, Unread(u, k)'
       PROVE  k \in Stored(u)' \/ \E g \in Handler : HasBuffer(g, u, k)'
  <2>0. k \in Nat
    BY PlaceTypes
  <2>1. CASE u = t /\ k = n
    BY <1>7, <2>1
  <2>2. CASE k \in Stored(u)
    BY <1>3, <2>2
  <2>3. CASE \E g \in Handler : HasBuffer(g, u, k)
    <3>1. PICK g \in Handler : HasBuffer(g, u, k)
      BY <2>3
    <3>2. g # h
      BY <1>1, <3>1 DEF HasBuffer
    <3> QED
      BY <1>1, <3>1, <3>2 DEF HasBuffer
  <2> QED
    BY <1>5, <1>10, <2>0, <2>1, <2>2, <2>3 DEF Unlost, OnePlace
<1>11. ASSUME NEW g \in Handler, hPc'[g] # "idle"
       PROVE  (/\ Unread(hTask[g], hSeq[g])
               /\ hSeq[g] \notin Stored(hTask[g])
               /\ \A f \in Handler : HasBuffer(f, hTask[g], hSeq[g]) => f = g)'
  <2>1. CASE g = h
    <3>1. \A f \in Handler : HasBuffer(f, t, n)' => f = h
      <4> SUFFICES ASSUME NEW f \in Handler, HasBuffer(f, t, n)', f # h PROVE FALSE
        OBVIOUS
      <4>1. hPc[f] # "idle" /\ hTask[f] = t /\ hSeq[f] = n
        BY <1>1 DEF HasBuffer
      <4> QED
        BY <1>6, <4>1 DEF Unlost, OnePlace
    <3>2. n \notin Stored(t)'
      BY <1>3, <1>6 DEF Unlost, OnePlace
    <3> QED
      BY <1>1, <1>2, <1>7, <2>1, <3>1, <3>2
  <2>2. CASE g # h
    <3>1. PICK u \in Task, k \in Seqs : u = hTask[g] /\ k = hSeq[g]
      BY PlaceTypes
    <3>2. hTask'[g] = u /\ hSeq'[g] = k /\ hPc[g] # "idle" /\ k \in Nat
      BY <1>1, <1>11, <2>2, <3>1, PlaceTypes
    <3>3. Unread(u, k) /\ k \notin Stored(u) /\ \A f \in Handler : HasBuffer(f, u, k) => f = g
      BY <3>1, <3>2 DEF Unlost, OnePlace
    <3>4. \A f \in Handler : HasBuffer(f, u, k)' => f = g
      <4> SUFFICES ASSUME NEW f \in Handler, HasBuffer(f, u, k)' PROVE f = g
        OBVIOUS
      <4>1. CASE f = h
        BY <1>1, <1>2, <1>6, <3>3, <4>1 DEF HasBuffer
      <4>2. CASE f # h
        BY <1>1, <3>3, <4>2 DEF HasBuffer
      <4> QED
        BY <4>1, <4>2
    <3> QED
      BY <1>3, <1>5, <3>2, <3>3, <3>4
  <2> QED
    BY <2>1, <2>2
<1>12. OwnRunOnly'
  BY <1>1 DEF Unlost, OwnRunOnly, Alive
<1> QED
  BY <1>8, <1>9, <1>10, <1>11, <1>12 DEF Unlost, OnePlace

\* The processor takes the next buffer of its run from those that are kept.
LEMMA BufferTaken ==
    ASSUME FifoIInv, OnePlace, NEW t \in current,
           UNCHANGED <<senderVars, handlerVars, current, delivered>>,
           pc # "compare", requestSeq' = requestSeq + 1, requestSeq + 1 \in Stored(t),
           Stored(t)' = Stored(t) \ {requestSeq + 1},
           \A u \in Task \ {t} : Stored(u)' = Stored(u)
    PROVE  OnePlace'
<1> USE DEF senderVars, handlerVars
<1>1. t \in Task /\ current = {t}
  <2>1. t \in Task
    BY PlaceTypes
  <2> QED
    BY <2>1, Single DEF FifoIInv, IInv, TypeOK
<1>2. PICK n \in Nat : n = requestSeq + 1
  BY PlaceTypes
<1>3. n \in Stored(t) /\ Stored(t)' = Stored(t) \ {n}
  BY <1>2
<1>4. Progress(t) = requestSeq /\ Progress(t)' = n /\ \A u \in Task \ {t} : Progress(u)' = Progress(u)
  BY <1>1, <1>2 DEF Progress
<1>5. Unread(t, n)
  BY <1>1, <1>3 DEF OnePlace
<1>6. /\ \A k \in Nat : Unread(t, k)' <=> Unread(t, k) /\ k # n
      /\ \A u \in Task \ {t} : \A k \in Nat : Unread(u, k)' <=> Unread(u, k)
  <2>1. \A k \in Nat : n < k <=> (requestSeq < k /\ k # n)
    BY <1>2, PlaceTypes
  <2> QED
    BY <1>4, <2>1 DEF Unread
<1>7. \A u \in Task : Progress(u)' <= arrived'[u]
  BY <1>4, <1>5 DEF Unread, OnePlace
<1>8. \A u \in Task : \A k \in Stored(u)' : Unread(u, k)'
  <2>1. \A u \in Task : Stored(u) \subseteq Nat
    BY PlaceTypes
  <2>2. \A k \in Stored(t)' : Unread(t, k)'
    BY <1>1, <1>3, <1>6, <2>1 DEF OnePlace
  <2>3. \A u \in Task \ {t} : \A k \in Stored(u)' : Unread(u, k)'
    BY <1>6, <2>1 DEF OnePlace
  <2> QED
    BY <2>2, <2>3
<1>9. \A h \in Handler, u \in Task : \A k : HasBuffer(h, u, k)' <=> HasBuffer(h, u, k)
  BY DEF HasBuffer
<1>10. ASSUME NEW u \in Task, NEW k \in Seqs, Unread(u, k)'
       PROVE  k \in Stored(u)' \/ \E h \in Handler : HasBuffer(h, u, k)'
  <2>1. k \in Nat
    BY PlaceTypes
  <2>2. Unread(u, k) /\ ~(u = t /\ k = n)
    BY <1>6, <1>10, <2>1
  <2>3. k \in Stored(u) \/ \E h \in Handler : HasBuffer(h, u, k)
    BY <2>2 DEF OnePlace
  <2> QED
    BY <1>3, <1>9, <2>2, <2>3
<1>11. ASSUME NEW h \in Handler, hPc'[h] # "idle"
       PROVE  (/\ Unread(hTask[h], hSeq[h])
               /\ hSeq[h] \notin Stored(hTask[h])
               /\ \A g \in Handler : HasBuffer(g, hTask[h], hSeq[h]) => g = h)'
  <2>1. PICK u \in Task, k \in Seqs : u = hTask[h] /\ k = hSeq[h]
    BY PlaceTypes
  <2>2. hTask'[h] = u /\ hSeq'[h] = k /\ hPc[h] # "idle" /\ k \in Nat
    BY <1>11, <2>1, PlaceTypes
  <2>3. Unread(u, k) /\ k \notin Stored(u) /\ \A g \in Handler : HasBuffer(g, u, k) => g = h
    BY <2>1, <2>2 DEF OnePlace
  <2>4. Unread(u, k)' /\ k \notin Stored(u)'
    BY <1>3, <1>6, <2>2, <2>3
  <2>5. \A g \in Handler : HasBuffer(g, u, k)' => g = h
    BY <1>9, <2>3
  <2> QED
    BY <2>2, <2>4, <2>5
<1> QED
  BY <1>7, <1>8, <1>10, <1>11 DEF OnePlace

LEMMA PutBufferUnlost ==
    ASSUME FifoIInv, Unlost, NoRace, NEW h \in Handler, PutBuffer(h)
    PROVE  Unlost'
<1> USE DEF senderVars, procVars, runVars
<1>0. TypeOK
  BY DEF FifoIInv, IInv
<1>1. CASE CheckTask(h)
  <2>1. OnePlace'
    <3>1. \A g \in Handler : hPc'[g] = "idle" <=> hPc[g] = "idle"
      BY <1>0, <1>1 DEF CheckTask, TypeOK
    <3>2. \A t \in Task : Progress(t)' = Progress(t) /\ Stored(t)' = Stored(t)
      BY <1>1 DEF CheckTask, Progress, Stored
    <3> QED
      BY <1>1, <3>1, <3>2, PlaceTypes, PlacesUntouched DEF CheckTask, Unlost
  <2>2. OwnRunOnly'
    BY <1>0, <1>1 DEF CheckTask, Unlost, OwnRunOnly, Alive, TypeOK
  <2> QED
    BY <2>1, <2>2 DEF Unlost
<1>2. CASE InputBuffer(h)
  <2>1. PICK u \in Task, n \in Seqs : u = hTask[h] /\ n = hSeq[h]
    BY PlaceTypes
  <2>2. u \in current /\ current = {u}
    <3>1. u \in current
      BY <1>2, <2>1 DEF InputBuffer, Unlost, OwnRunOnly
    <3> QED
      BY <1>0, <3>1, Single DEF TypeOK
  <2>3. /\ queue' = [queue EXCEPT ![n] = {u}] /\ queue[n] \subseteq {u}
        /\ UNCHANGED <<firstInput, local, current>>
    BY <1>2, <2>1, <2>2 DEF InputBuffer, Unlost, OwnRunOnly
  <2>4. \A k \in Seqs : queue'[k] = IF k = n THEN {u} ELSE queue[k]
    BY <1>0, <2>3 DEF TypeOK
  <2>5. {k \in Seqs : u \in queue'[k]} = {k \in Seqs : u \in queue[k]} \cup {n}
    BY <2>1, <2>4
  <2>6. \A t \in Task \ {u} : {k \in Seqs : t \in queue'[k]} = {k \in Seqs : t \in queue[k]}
    <3> SUFFICES ASSUME NEW t \in Task \ {u}, NEW k \in Seqs
                 PROVE  t \in queue'[k] <=> t \in queue[k]
      OBVIOUS
    <3> QED
      BY <2>3, <2>4
  <2>7. Stored(u)' = Stored(u) \cup {n} /\ \A t \in Task \ {u} : Stored(t)' = Stored(t)
    BY <2>3, <2>5, <2>6 DEF Stored
  <2>8. /\ hPc[h] # "idle" /\ hPc' = [hPc EXCEPT ![h] = "idle"]
        /\ UNCHANGED <<senderVars, hTask, hSeq, current, requestSeq, delivered>>
    BY <1>2 DEF InputBuffer
  <2>9. OnePlace'
    <3>1. Stored(hTask[h])' = Stored(hTask[h]) \cup {hSeq[h]}
      BY <2>1, <2>7, <2>8
    <3>2. \A t \in Task \ {hTask[h]} : Stored(t)' = Stored(t)
      BY <2>1, <2>7
    <3> QED
      BY <2>8, <3>1, <3>2, BufferKept DEF Unlost
  <2>10. OwnRunOnly'
    BY <1>0, <1>2, <2>2, <2>4 DEF InputBuffer, Unlost, OwnRunOnly, Alive, TypeOK
  <2> QED
    BY <2>9, <2>10 DEF Unlost
<1>3. CASE GetFirst(h)
  <2>1. OnePlace'
    <3>1. \A g \in Handler : hPc'[g] = "idle" <=> hPc[g] = "idle"
      BY <1>0, <1>3 DEF GetFirst, TypeOK
    <3>2. \A t \in Task : Progress(t)' = Progress(t) /\ Stored(t)' = Stored(t)
      BY <1>3 DEF GetFirst, Progress, Stored
    <3> QED
      BY <1>3, <3>1, <3>2, PlaceTypes, PlacesUntouched DEF GetFirst, Unlost
  <2>2. OwnRunOnly'
    BY <1>0, <1>3 DEF GetFirst, Unlost, OwnRunOnly, Alive, TypeOK
  <2> QED
    BY <2>1, <2>2 DEF Unlost
<1>4. CASE PutFirst(h)
  <2>1. PICK u \in Task, n \in Seqs : u = hTask[h] /\ n = hSeq[h]
    BY PlaceTypes
  <2>2. u \notin current /\ hMap[h] = firstInput[u]
    BY <1>4, <2>1 DEF PutFirst, NoRace, Straddles, StaleCopy
  <2>3. /\ firstInput' = [firstInput EXCEPT ![u] = firstInput[u] \cup {n}]
        /\ UNCHANGED <<queue, local, current>>
    BY <1>4, <2>1, <2>2 DEF PutFirst
  <2>4. Stored(u)' = Stored(u) \cup {n} /\ \A t \in Task \ {u} : Stored(t)' = Stored(t)
    BY <1>0, <2>3 DEF Stored, TypeOK
  <2>5. /\ hPc[h] # "idle" /\ hPc' = [hPc EXCEPT ![h] = "idle"]
        /\ UNCHANGED <<senderVars, hTask, hSeq, current, requestSeq, delivered>>
    BY <1>4 DEF PutFirst
  <2>6. OnePlace'
    <3>1. Stored(hTask[h])' = Stored(hTask[h]) \cup {hSeq[h]}
      BY <2>1, <2>4, <2>5
    <3>2. \A t \in Task \ {hTask[h]} : Stored(t)' = Stored(t)
      BY <2>1, <2>4
    <3> QED
      BY <2>5, <3>1, <3>2, BufferKept DEF Unlost
  <2>7. OwnRunOnly'
    BY <1>0, <1>4, <2>2, <2>3 DEF PutFirst, Unlost, OwnRunOnly, Alive, TypeOK
  <2> QED
    BY <2>6, <2>7 DEF Unlost
<1> QED
  BY <1>1, <1>2, <1>3, <1>4 DEF PutBuffer

\* Nothing in the queue is dangling; the next buffer is taken, or it is not there.
LEMMA TakeOrWaitUnlost ==
    ASSUME FifoIInv, OnePlace, NEW q \in [Seqs -> SUBSET Task], TakeOrWait(q),
           pc \in {"merge", "wait"}, local' = {},
           UNCHANGED <<senderVars, handlerVars, current, runVars, firstInput>>,
           \A k \in Seqs : q[k] \subseteq current,
           \A h \in Handler : hPc[h] = "input" => hTask[h] \in current,
           \A t \in current : firstInput[t] = {},
           \A t \in Task : \A k \in freed[t] : k <= Len(delivered[t]),
           \A t \in Task : Stored(t) = firstInput[t] \cup {k \in Seqs : t \in q[k]}
    PROVE  Unlost'
<1> USE DEF senderVars, handlerVars, runVars
<1>0. TypeOK
  BY DEF FifoIInv, IInv
<1>1. \A t \in Task : Stored(t)' = firstInput[t] \cup {k \in Seqs : t \in queue'[k]}
  BY DEF Stored
<1>2. ~Dangling(q)
  <2> SUFFICES ASSUME NEW k \in Seqs, NEW t \in q[k], k \in freed[t] PROVE FALSE
    BY DEF Dangling
  <2>1. t \in Task /\ t \in current /\ k \in Stored(t)
    BY PlaceTypes
  <2>2. Len(delivered[t]) < k
    BY <2>1 DEF OnePlace, Unread, Progress, FifoIInv, SeqCounts
  <2>3. k <= Len(delivered[t]) /\ k \in Nat /\ Len(delivered[t]) \in Nat
    BY <2>1, PlaceTypes
  <2> QED
    BY <2>2, <2>3
<1>3. CASE pc' = "wait" /\ queue' = q /\ UNCHANGED <<got, requestSeq>>
  <2>1. \A t \in Task : Progress(t)' = Progress(t) /\ Stored(t)' = Stored(t)
    BY <1>1, <1>3 DEF Progress
  <2>2. OnePlace'
    BY <2>1, PlaceTypes, PlacesUntouched
  <2>3. OwnRunOnly'
    BY <1>3 DEF OwnRunOnly, Alive
  <2> QED
    BY <2>2, <2>3 DEF Unlost
<1>4. CASE HeadIsNext(q) /\ queue' = [q EXCEPT ![requestSeq + 1] = {}]
           /\ requestSeq' = requestSeq + 1 /\ pc' = "compare"
  <2>1. PICK n \in Seqs : n = requestSeq + 1 /\ q[n] # {}
    BY <1>4 DEF HeadIsNext, IsHead, Keys
  <2>2. PICK t \in current : t \in q[n] /\ t \in Task /\ current = {t}
    <3>1. PICK t \in current : t \in q[n] /\ t \in Task
      BY <2>1, PlaceTypes
    <3>2. current = {t}
      BY <1>0, Single DEF TypeOK
    <3> QED
      BY <3>1, <3>2
  <2>3. \A k \in Seqs : queue'[k] = IF k = n THEN {} ELSE q[k]
    BY <1>4, <2>1
  <2>4. n \in Stored(t) /\ firstInput[t] = {}
    BY <2>1, <2>2
  <2>5. Stored(t)' = Stored(t) \ {n}
    BY <1>1, <2>2, <2>3, <2>4
  <2>6. \A u \in Task \ {t} : Stored(u)' = Stored(u)
    <3> SUFFICES ASSUME NEW u \in Task \ {t}, NEW k \in Seqs
                 PROVE  u \in queue'[k] <=> u \in q[k]
      BY <1>1
    <3> QED
      BY <2>2, <2>3
  <2>7. OnePlace'
    <3>1. requestSeq + 1 \in Stored(t) /\ Stored(t)' = Stored(t) \ {requestSeq + 1}
      BY <2>1, <2>4, <2>5
    <3> QED
      BY <1>4, <2>6, <3>1, BufferTaken
  <2>8. OwnRunOnly'
    BY <1>4, <2>3 DEF OwnRunOnly, Alive
  <2> QED
    BY <2>7, <2>8 DEF Unlost
<1> QED
  BY <1>2, <1>3, <1>4 DEF TakeOrWait

LEMMA MergeUnlost ==
    ASSUME FifoIInv, Unlost, Merge
    PROVE  Unlost'
<1> DEFINE q == [k \in Seqs |-> IF queue[k] = {} /\ k \in local THEN current ELSE queue[k]]
<1>0. TypeOK
  BY DEF FifoIInv, IInv
<1>1. q \in [Seqs -> SUBSET Task] /\ \A k \in Seqs : q[k] \subseteq current
  BY <1>0 DEF TypeOK, Unlost, OwnRunOnly
<1>2. ASSUME NEW t \in Task
      PROVE  Stored(t) = firstInput[t] \cup {k \in Seqs : t \in q[k]}
  <2>1. CASE t \notin current
    <3>1. \A k \in Seqs : t \notin q[k] /\ t \notin queue[k]
      BY <1>1, <2>1 DEF Unlost, OwnRunOnly
    <3> QED
      BY <2>1, <3>1 DEF Stored
  <2>2. CASE t \in current
    <3>1. current = {t}
      BY <1>0, <2>2, Single DEF TypeOK
    <3>2. local \subseteq Seqs /\ \A k \in Seqs : queue[k] \subseteq {t}
      BY <1>0, <3>1 DEF Unlost, OwnRunOnly, TypeOK
    <3>3. \A k \in Seqs : t \in q[k] <=> t \in queue[k] \/ k \in local
      BY <3>1, <3>2
    <3>4. {k \in Seqs : t \in q[k]} = local \cup {k \in Seqs : t \in queue[k]}
      BY <3>2, <3>3
    <3>5. Stored(t) = (firstInput[t] \cup local) \cup {k \in Seqs : t \in queue[k]}
      BY <2>2 DEF Stored
    <3> HIDE DEF q
    <3> QED
      BY <3>4, <3>5
  <2> QED
    BY <2>1, <2>2
<1> HIDE DEF q
<1>3. TakeOrWait(q) /\ pc = "merge" /\ local' = {}
      /\ UNCHANGED <<senderVars, handlerVars, current, runVars, firstInput>>
  BY DEF Merge, q
<1>4. /\ \A h \in Handler : hPc[h] = "input" => hTask[h] \in current
      /\ \A t \in current : firstInput[t] = {}
      /\ \A t \in Task : \A k \in freed[t] : k <= Len(delivered[t])
  BY <1>3 DEF Unlost, OwnRunOnly
<1> QED
  BY <1>1, <1>2, <1>3, <1>4, TakeOrWaitUnlost DEF Unlost

LEMMA WakeUnlost ==
    ASSUME FifoIInv, Unlost, Wake
    PROVE  Unlost'
<1>0. TypeOK /\ local = {}
  BY DEF FifoIInv, IInv, ArrivedOnly, Wake
<1>1. queue \in [Seqs -> SUBSET Task]
  BY <1>0 DEF TypeOK
<1>2. \A t \in Task : Stored(t) = firstInput[t] \cup {k \in Seqs : t \in queue[k]}
  BY <1>0 DEF Stored
<1>3. TakeOrWait(queue) /\ pc = "wait" /\ local' = {}
      /\ UNCHANGED <<senderVars, handlerVars, current, runVars, firstInput>>
  BY <1>0 DEF Wake
<1>4. /\ \A k \in Seqs : queue[k] \subseteq current
      /\ \A h \in Handler : hPc[h] = "input" => hTask[h] \in current
      /\ \A t \in current : firstInput[t] = {}
      /\ \A t \in Task : \A k \in freed[t] : k <= Len(delivered[t])
  BY <1>3 DEF Unlost, OwnRunOnly
<1> QED
  BY <1>1, <1>2, <1>3, <1>4, TakeOrWaitUnlost DEF Unlost

LEMMA CompareTaskUnlost ==
    ASSUME FifoIInv, Unlost, CompareTask
    PROVE  Unlost'
<1> USE DEF senderVars, handlerVars
<1>0. TypeOK
  BY DEF FifoIInv, IInv
<1>1. PICK t \in current :
             LET b == [task |-> t, seq |-> Len(delivered[t]) + 1] IN
               /\ t \in Task /\ current = {t} /\ got = {t}
               /\ requestSeq = Len(delivered[t]) + 1
               /\ requestSeq <= arrived[t] /\ arrived[t] <= sent[t]
               /\ b \in Buffer
               /\ delivered' = [delivered EXCEPT ![t] = Append(@, b)]
  BY CompareTaskReceives
<1>2. /\ \A u \in Task \ {t} : delivered'[u] = delivered[u] /\ freed'[u] = freed[u]
      /\ freed'[t] = freed[t] \cup {requestSeq}
  BY <1>0, <1>1 DEF TypeOK, CompareTask
<1>3. Len(delivered'[t]) = requestSeq
  BY <1>0, <1>1 DEF TypeOK
<1>4. \A u \in Task : Progress(u)' = Progress(u) /\ Stored(u)' = Stored(u)
  BY <1>1, <1>2 DEF CompareTask, Progress, Stored
<1>5. OnePlace'
  BY <1>4, PlaceTypes, PlacesUntouched DEF CompareTask, Unlost
<1>6. ASSUME NEW u \in Task, NEW k \in freed'[u]
      PROVE  k <= Len(delivered'[u])
  <2>1. CASE u = t
    <3>1. CASE k \in freed[t]
      <4>1. k <= Len(delivered[t]) /\ k \in Nat /\ Len(delivered[t]) \in Nat
        BY <1>0, <1>1, <3>1, PlaceTypes DEF Unlost, OwnRunOnly, TypeOK
      <4> QED
        BY <1>1, <1>3, <2>1, <4>1
    <3>2. CASE k = requestSeq
      BY <1>3, <2>1, <3>2, PlaceTypes
    <3> QED
      BY <1>2, <1>6, <2>1, <3>1, <3>2
  <2>2. CASE u # t
    BY <1>2, <1>6, <2>2 DEF Unlost, OwnRunOnly
  <2> QED
    BY <2>1, <2>2
<1>7. OwnRunOnly'
  BY <1>6 DEF CompareTask, Unlost, OwnRunOnly, Alive
<1> QED
  BY <1>5, <1>7 DEF Unlost

\* A run that is over has read all its buffers, so it leaves nothing behind.
LEMMA SetTaskUnlost ==
    ASSUME FifoIInv, Unlost, NEW t \in Task, SetTask(t)
    PROVE  Unlost'
<1> USE DEF senderVars, handlerVars, SetTask
<1>1. TypeOK /\ current \subseteq started
  BY DEF FifoIInv, IInv, RunsSound
<1>2. \A u \in current : Len(delivered[u]) = MaxSeq /\ requestSeq = MaxSeq
  BY DEF FifoIInv, ReadAll, SeqCounts
<1>3. Len(delivered[t]) = 0
  BY DEF FifoIInv, IInv, RunsSound
<1>4. local = {}
  BY DEF FifoIInv, ArrivedOnly
<1>5. \A u \in Task : Progress(u)' = Progress(u) /\ Stored(u)' = Stored(u)
  <2>1. \A u \in Task : Stored(u)' = Stored(u)
    BY <1>4 DEF Stored
  <2>2. \A u \in Task : Progress(u)' = Progress(u)
    BY <1>1, <1>2, <1>3 DEF Progress
  <2> QED
    BY <2>1, <2>2
<1>6. OnePlace'
  BY <1>5, PlaceTypes, PlacesUntouched DEF Unlost
<1>7. \A u \in current, k \in Seqs : ~Unread(u, k)
  <2> SUFFICES ASSUME NEW u \in current, NEW k \in Seqs, Unread(u, k) PROVE FALSE
    OBVIOUS
  <2>1. MaxSeq < k
    BY <1>2 DEF Unread, Progress
  <2> QED
    BY <2>1 DEF Seqs
<1>8. \A k \in Seqs : queue[k] = {}
  <2> SUFFICES ASSUME NEW k \in Seqs, NEW u \in queue[k] PROVE FALSE
    OBVIOUS
  <2>1. u \in current /\ u \in Task
    BY <1>1 DEF Unlost, OwnRunOnly, TypeOK
  <2>2. k \in Stored(u)
    BY DEF Stored
  <2> QED
    BY <1>7, <2>1, <2>2 DEF Unlost, OnePlace
<1>9. \A h \in Handler : hPc[h] # "input"
  <2> SUFFICES ASSUME NEW h \in Handler, hPc[h] = "input" PROVE FALSE
    OBVIOUS
  <2>1. hTask[h] \in current /\ hSeq[h] \in Seqs
    BY PlaceTypes DEF Unlost, OwnRunOnly
  <2>2. Unread(hTask[h], hSeq[h])
    BY DEF Unlost, OnePlace
  <2> QED
    BY <1>7, <2>1, <2>2
<1>10. OwnRunOnly'
  BY <1>8, <1>9 DEF Unlost, OwnRunOnly, Alive
<1> QED
  BY <1>6, <1>10 DEF Unlost

LEMMA RemoveFirstUnlost ==
    ASSUME FifoIInv, Unlost, RemoveFirst
    PROVE  Unlost'
<1> USE DEF senderVars, handlerVars, runVars
<1>1. TypeOK /\ local = {} /\ pc = "recv"
  BY DEF FifoIInv, IInv, ArrivedOnly, RemoveFirst
<1>2. PICK t \in current : local' = firstInput[t]
                           /\ firstInput' = [firstInput EXCEPT ![t] = {}]
  BY DEF RemoveFirst
<1>3. t \in Task /\ current = {t}
  <2>1. t \in Task
    BY PlaceTypes
  <2> QED
    BY <1>1, <2>1, Single DEF TypeOK
<1>4. firstInput'[t] = {} /\ \A u \in Task \ {t} : firstInput'[u] = firstInput[u]
  BY <1>1, <1>2, <1>3 DEF TypeOK
<1>5. \A u \in Task : Progress(u)' = Progress(u)
  BY DEF RemoveFirst, Progress
<1>6. \A u \in Task : Stored(u)' = Stored(u)
  <2> SUFFICES ASSUME NEW u \in Task PROVE Stored(u)' = Stored(u)
    OBVIOUS
  <2>1. CASE u = t
    BY <1>1, <1>2, <1>3, <1>4, <2>1 DEF RemoveFirst, Stored
  <2>2. CASE u # t
    BY <1>3, <1>4, <2>2 DEF RemoveFirst, Stored
  <2> QED
    BY <2>1, <2>2
<1>7. OnePlace'
  BY <1>5, <1>6, PlaceTypes, PlacesUntouched DEF RemoveFirst, Unlost
<1>8. OwnRunOnly'
  BY <1>3, <1>4 DEF RemoveFirst, Unlost, OwnRunOnly, Alive
<1> QED
  BY <1>7, <1>8 DEF Unlost

LEMMA NextUnlost ==
    ASSUME FifoIInv, Unlost, NoRace, NoRace', [Next]_vars
    PROVE  Unlost'
<1> USE DEF senderVars, handlerVars, procVars, runVars
<1>1. ASSUME UNCHANGED <<arrived, current, requestSeq, delivered, firstInput, local, queue,
                         hPc, hTask, hSeq, freed>>,
             pc' = pc \/ pc' = "idle"
      PROVE  Unlost'
  <2>1. \A u \in Task : Progress(u)' = Progress(u) /\ Stored(u)' = Stored(u)
    BY <1>1 DEF Progress, Stored
  <2>2. OnePlace'
    BY <1>1, <2>1, PlaceTypes, PlacesUntouched DEF Unlost
  <2>3. OwnRunOnly'
    BY <1>1 DEF Unlost, OwnRunOnly, Alive
  <2> QED
    BY <2>2, <2>3 DEF Unlost
<1>2. ASSUME NEW t \in Task, Send(t) PROVE Unlost'
  BY <1>1, <1>2 DEF Send
<1>3. ASSUME NEW t \in Task, Lose(t) PROVE FALSE
  BY <1>3 DEF Lose, NoRace
<1>4. CASE EndRun
  BY <1>1, <1>4 DEF EndRun
<1>5. CASE UNCHANGED vars
  BY <1>1, <1>5 DEF vars
<1> QED
  BY <1>2, <1>3, <1>4, <1>5, DispatchUnlost, PutBufferUnlost, SetTaskUnlost,
     RemoveFirstUnlost, MergeUnlost, WakeUnlost, CompareTaskUnlost
     DEF Next, ConsumeBuffer

\* What WaitsForMissing says of a state.
WaitsForMissingNow ==
    /\ Alive
    /\ pc = "wait" /\ ~HeadIsNext(queue) =>
           \A t \in current : Len(delivered[t]) = arrived[t] \/ NextInHand(t)

LEMMA UnlostWaits == FifoIInv /\ Unlost => WaitsForMissingNow
<1> SUFFICES ASSUME FifoIInv, Unlost, pc = "wait", NEW t \in current,
                    Len(delivered[t]) # arrived[t], ~NextInHand(t)
             PROVE  HeadIsNext(queue)
  BY DEF WaitsForMissingNow, Unlost, OwnRunOnly
<1> DEFINE n == requestSeq + 1
<1>0. TypeOK
  BY DEF FifoIInv, IInv
<1>1. t \in Task /\ current = {t}
  <2>1. t \in Task
    BY PlaceTypes
  <2> QED
    BY <1>0, <2>1, Single DEF TypeOK
<1>2. Progress(t) = requestSeq /\ requestSeq = Len(delivered[t])
  BY DEF Progress, FifoIInv, SeqCounts
<1>3. requestSeq <= arrived[t] /\ requestSeq # arrived[t]
  BY <1>1, <1>2 DEF Unlost, OnePlace
<1>4. n \in Seqs /\ Unread(t, n)
  BY <1>1, <1>2, <1>3, PlaceTypes DEF Seqs, Unread
<1>5. \A h \in Handler : ~HasBuffer(h, t, n)
  BY <1>2 DEF NextInHand, HasBuffer
<1>6. n \in Stored(t)
  BY <1>1, <1>4, <1>5 DEF Unlost, OnePlace
<1>7. local = {} /\ firstInput[t] = {}
  BY DEF FifoIInv, ArrivedOnly, Unlost, OwnRunOnly
<1>8. t \in queue[n]
  BY <1>6, <1>7 DEF Stored
<1>9. ASSUME NEW j \in Keys(queue) PROVE n <= j
  <2>1. j \in Seqs /\ t \in queue[j]
    BY <1>1, <1>9 DEF Keys, Unlost, OwnRunOnly
  <2>2. j \in Stored(t)
    BY <2>1 DEF Stored
  <2>3. requestSeq < j
    BY <1>1, <1>2, <2>2 DEF Unlost, OnePlace, Unread
  <2> QED
    BY <2>1, <2>3, PlaceTypes
<1> QED
  BY <1>4, <1>8, <1>9 DEF HeadIsNext, IsHead, Keys

\* When no run ends early, lost calls and races of server threads are all that can
\* keep a buffer from its run, delete one twice, or leave the processor waiting for
\* one that came.
THEOREM WaitsForMissingCorrect == Failing = {} => (Spec => WaitsForMissing)
<1>1. ASSUME Failing = {} PROVE Spec => WaitsForMissing
  <2>1. Spec => []FifoIInv
    BY <1>1, FifoInductive
  <2>2. FifoIInv /\ Unlost /\ NoRace /\ NoRace' /\ [Next]_vars => Unlost'
    BY NextUnlost
  <2>3. Spec /\ []NoRace => []Unlost
    BY <2>1, <2>2, InitUnlost, PTL DEF Spec
  <2>4. Spec /\ []NoRace => []WaitsForMissingNow
    BY <2>1, <2>3, UnlostWaits, PTL
  <2>5. WaitsForMissing <=> ([]NoRace => []WaitsForMissingNow)
    BY PTL DEF WaitsForMissing, WaitsForMissingNow
  <2> QED
    BY <2>4, <2>5, PTL
<1> QED
  BY <1>1
-----------------------------------------------------------------------------
(* How long it can go on.                                                  *)

\* The steps of a server thread that is at this place in putBuffer.
HandlerLeft ==
    [h \in Handler |-> CASE hPc[h] = "check" -> 3
                         [] hPc[h] = "get" -> 2
                         [] hPc[h] \in {"put", "input"} -> 1
                         [] hPc[h] = "idle" -> 0]

CallsLeft == [t \in Task |-> MaxSeq - arrived[t]]

\* A call takes four steps: it is dispatched, and putBuffer has three at most.
ServerLeft == 4 * Total(Task, MaxSeq, CallsLeft) + Total(Handler, 3, HandlerLeft)

PlaceLeft ==
    CASE pc = "compare" -> 4
      [] pc = "recv" -> 3
      [] pc = "merge" -> 2
      [] pc = "wait" -> 1
      [] pc \in {"idle", "crashed"} -> 0

\* Each number a run gets to is four steps.
RunLeft == IF pc \in {"idle", "crashed"} THEN 0 ELSE 4 * (MaxSeq - requestSeq) + PlaceLeft

RunRoom == 4 * MaxSeq + 4

ReaderLeft == RunRoom * Cardinality(Task \ started) + RunLeft

\* How many steps of the server and of the processor the buffers sent and still to
\* come can lead to.
StepsLeft == ServerLeft + ReaderLeft

\* No step adds to what is left, each that is not the peer's takes from it.
StepsCounted ==
    [][/\ StepsLeft' <= StepsLeft
       /\ (\A t \in Task : ~Send(t)) => StepsLeft' < StepsLeft]_vars

LEMMA ServerTypes ==
    TypeOK => /\ MaxSeq \in Nat
              /\ CallsLeft \in [Task -> 0 .. MaxSeq]
              /\ HandlerLeft \in [Handler -> 0 .. 3]
<1> SUFFICES ASSUME TypeOK
             PROVE  /\ MaxSeq \in Nat
                    /\ CallsLeft \in [Task -> 0 .. MaxSeq]
                    /\ HandlerLeft \in [Handler -> 0 .. 3]
  OBVIOUS
<1>1. MaxSeq \in Nat /\ arrived \in [Task -> 0 .. MaxSeq]
  BY DEF TypeOK
<1>2. CallsLeft \in [Task -> 0 .. MaxSeq]
  BY <1>1 DEF CallsLeft
<1>3. ASSUME NEW h \in Handler PROVE HandlerLeft[h] \in 0 .. 3
  <2>1. hPc[h] \in {"idle", "check", "get", "put", "input"}
    BY DEF TypeOK
  <2> QED
    BY <2>1 DEF HandlerLeft
<1>4. HandlerLeft \in [Handler -> 0 .. 3]
  BY <1>3 DEF HandlerLeft
<1> QED
  BY <1>1, <1>2, <1>4

LEMMA ServerTypesNext ==
    TypeOK' => (/\ MaxSeq \in Nat
                /\ CallsLeft \in [Task -> 0 .. MaxSeq]
                /\ HandlerLeft \in [Handler -> 0 .. 3])'
BY ServerTypes, PTL

LEMMA ServerLeftType ==
    ASSUME IsFiniteSet(Task), IsFiniteSet(Handler), TypeOK
    PROVE  /\ Total(Task, MaxSeq, CallsLeft) \in Nat
           /\ Total(Handler, 3, HandlerLeft) \in Nat
           /\ ServerLeft \in Nat
<1>1. MaxSeq \in Nat /\ CallsLeft \in [Task -> 0 .. MaxSeq] /\ HandlerLeft \in [Handler -> 0 .. 3]
  BY ServerTypes
<1>2. /\ \A t \in Task : CallsLeft[t] <= CallsLeft[t]
      /\ \A h \in Handler : HandlerLeft[h] <= HandlerLeft[h]
  BY <1>1
<1>3. Total(Task, MaxSeq, CallsLeft) \in Nat
  BY <1>1, <1>2, TotalFalls
<1>4. Total(Handler, 3, HandlerLeft) \in Nat
  BY <1>1, <1>2, TotalFalls
<1> QED
  BY <1>3, <1>4 DEF ServerLeft

LEMMA ServerLeftTypeNext ==
    ASSUME IsFiniteSet(Task), IsFiniteSet(Handler)
    PROVE  TypeOK' => (/\ Total(Task, MaxSeq, CallsLeft) \in Nat
                       /\ Total(Handler, 3, HandlerLeft) \in Nat
                       /\ ServerLeft \in Nat)'
<1>1. TypeOK => /\ Total(Task, MaxSeq, CallsLeft) \in Nat
                /\ Total(Handler, 3, HandlerLeft) \in Nat
                /\ ServerLeft \in Nat
  BY ServerLeftType
<1> QED
  BY <1>1, PTL

\* A call that is dispatched, or lost, was one of those to come.
LEMMA CallFalls ==
    ASSUME IsFiniteSet(Task), TypeOK, TypeOK', NEW t \in Task, arrived[t] < sent[t],
           arrived' = [arrived EXCEPT ![t] = @ + 1]
    PROVE  Total(Task, MaxSeq, CallsLeft)' < Total(Task, MaxSeq, CallsLeft)
<1>1. /\ MaxSeq \in Nat /\ CallsLeft \in [Task -> 0 .. MaxSeq]
      /\ CallsLeft' \in [Task -> 0 .. MaxSeq]
  BY ServerTypes, ServerTypesNext
<1>2. /\ \A u \in Task : CallsLeft'[u] <= CallsLeft[u]
      /\ CallsLeft'[t] < CallsLeft[t]
  <2>1. arrived \in [Task -> 0 .. MaxSeq]
    BY DEF TypeOK
  <2> QED
    BY <1>1, <2>1 DEF CallsLeft
<1>3. Total(Task, MaxSeq, CallsLeft') < Total(Task, MaxSeq, CallsLeft)
  BY <1>1, <1>2, TotalFalls
<1> QED
  BY <1>3 DEF Total, PointsBelow

\* putBuffer goes forward only.
LEMMA HandlerFalls ==
    ASSUME IsFiniteSet(Handler), TypeOK, TypeOK', NEW h \in Handler, PutBuffer(h)
    PROVE  Total(Handler, 3, HandlerLeft)' < Total(Handler, 3, HandlerLeft)
<1>1. HandlerLeft \in [Handler -> 0 .. 3] /\ HandlerLeft' \in [Handler -> 0 .. 3]
  BY ServerTypes, ServerTypesNext
<1>2. /\ \A k \in Handler : k # h => hPc'[k] = hPc[k]
      /\ \/ hPc[h] = "check" /\ hPc'[h] \in {"input", "get"}
         \/ hPc[h] \in {"input", "put"} /\ hPc'[h] = "idle"
         \/ hPc[h] = "get" /\ hPc'[h] = "put"
  BY DEF PutBuffer, CheckTask, InputBuffer, GetFirst, PutFirst, TypeOK
<1>3. HandlerLeft'[h] < HandlerLeft[h]
  BY <1>2 DEF HandlerLeft
<1>4. \A k \in Handler : k # h => HandlerLeft'[k] = HandlerLeft[k]
  <2> SUFFICES ASSUME NEW k \in Handler, hPc'[k] = hPc[k] PROVE HandlerLeft'[k] = HandlerLeft[k]
    BY <1>2
  <2>1. hPc[k] \in {"idle", "check", "get", "put", "input"}
    BY DEF TypeOK
  <2> QED
    BY <2>1 DEF HandlerLeft
<1>5. \A k \in Handler : HandlerLeft'[k] <= HandlerLeft[k]
  BY <1>1, <1>3, <1>4
<1>6. Total(Handler, 3, HandlerLeft') < Total(Handler, 3, HandlerLeft)
  BY <1>1, <1>3, <1>5, TotalFalls
<1> QED
  BY <1>6 DEF Total, PointsBelow

\* A dispatched call has putBuffer before it.
LEMMA DispatchFalls ==
    ASSUME IsFiniteSet(Task), IsFiniteSet(Handler), TypeOK, TypeOK',
           NEW h \in Handler, NEW t \in Task, Dispatch(h, t)
    PROVE  ServerLeft' < ServerLeft
<1>1. HandlerLeft \in [Handler -> 0 .. 3] /\ HandlerLeft' \in [Handler -> 0 .. 3]
  BY ServerTypes, ServerTypesNext
<1>2. \A k \in Handler : k # h => HandlerLeft'[k] <= HandlerLeft[k]
  <2>1. \A k \in Handler : k # h => HandlerLeft'[k] = HandlerLeft[k]
    BY DEF Dispatch, TypeOK, HandlerLeft
  <2> QED
    BY <1>1, <2>1
<1>3. Total(Handler, 3, HandlerLeft') <= Total(Handler, 3, HandlerLeft) + 3
  BY <1>1, <1>2, TotalRises
<1>4. Total(Handler, 3, HandlerLeft)' <= Total(Handler, 3, HandlerLeft) + 3
  BY <1>3 DEF Total, PointsBelow
<1>5. Total(Task, MaxSeq, CallsLeft)' < Total(Task, MaxSeq, CallsLeft)
  BY CallFalls DEF Dispatch
<1>6. /\ Total(Task, MaxSeq, CallsLeft) \in Nat /\ Total(Task, MaxSeq, CallsLeft)' \in Nat
      /\ Total(Handler, 3, HandlerLeft) \in Nat /\ Total(Handler, 3, HandlerLeft)' \in Nat
  BY ServerLeftType, ServerLeftTypeNext
<1> QED
  BY <1>4, <1>5, <1>6 DEF ServerLeft

LEMMA ReaderTypes ==
    ASSUME IsFiniteSet(Task), TypeOK
    PROVE  /\ RunRoom \in Nat /\ Cardinality(Task \ started) \in Nat
           /\ RunLeft \in Nat /\ ReaderLeft \in Nat
<1>1. MaxSeq \in Nat /\ RunRoom \in Nat
  BY DEF RunRoom
<1>2. Cardinality(Task \ started) \in Nat
  BY FS_Difference, FS_CardinalityType
<1>3. RunLeft \in Nat
  <2>1. requestSeq \in 0 .. MaxSeq
        /\ pc \in {"idle", "recv", "merge", "wait", "compare", "crashed"}
    BY DEF TypeOK
  <2>2. MaxSeq - requestSeq \in Nat
    BY <1>1, <2>1
  <2>3. PlaceLeft \in Nat
    BY <2>1 DEF PlaceLeft
  <2> QED
    BY <2>2, <2>3 DEF RunLeft
<1>4. RunRoom * Cardinality(Task \ started) \in Nat
  BY <1>1, <1>2
<1> QED
  BY <1>1, <1>2, <1>3, <1>4 DEF ReaderLeft

LEMMA ReaderTypesNext ==
    ASSUME IsFiniteSet(Task)
    PROVE  TypeOK' => (/\ RunRoom \in Nat /\ Cardinality(Task \ started) \in Nat
                       /\ RunLeft \in Nat /\ ReaderLeft \in Nat)'
<1>1. TypeOK => /\ RunRoom \in Nat /\ Cardinality(Task \ started) \in Nat
                /\ RunLeft \in Nat /\ ReaderLeft \in Nat
  BY ReaderTypes
<1> QED
  BY <1>1, PTL

\* Taking the head of the queue is a step to the next number, waiting one to the
\* last place before it; a thread that waits again has not moved.
LEMMA TakeOrWaitFalls ==
    ASSUME TypeOK, TypeOK', NEW q, pc \in {"merge", "wait"}, TakeOrWait(q)
    PROVE  \/ RunLeft' < RunLeft
           \/ pc = "wait" /\ pc' = "wait" /\ queue' = q /\ UNCHANGED <<got, requestSeq>>
<1>1. /\ MaxSeq \in Nat /\ requestSeq \in 0 .. MaxSeq /\ requestSeq' \in 0 .. MaxSeq
  BY DEF TypeOK
<1>2. CASE requestSeq' = requestSeq + 1 /\ pc' = "compare"
  <2>1. RunLeft' = 4 * (MaxSeq - requestSeq') + 4
    BY <1>2 DEF RunLeft, PlaceLeft
  <2>2. RunLeft = 4 * (MaxSeq - requestSeq) + 2 \/ RunLeft = 4 * (MaxSeq - requestSeq) + 1
    BY DEF RunLeft, PlaceLeft
  <2> QED
    BY <1>1, <1>2, <2>1, <2>2
<1>3. CASE queue' = q /\ pc' \in {"wait", "crashed"} /\ UNCHANGED <<got, requestSeq>>
  <2>1. CASE pc' = "crashed"
    <3>1. RunLeft' = 0
      BY <2>1 DEF RunLeft
    <3>2. RunLeft = 4 * (MaxSeq - requestSeq) + 2 \/ RunLeft = 4 * (MaxSeq - requestSeq) + 1
      BY DEF RunLeft, PlaceLeft
    <3> QED
      BY <1>1, <3>1, <3>2
  <2>2. CASE pc' = "wait" /\ pc = "merge"
    <3>1. RunLeft' = 4 * (MaxSeq - requestSeq') + 1
      BY <2>2 DEF RunLeft, PlaceLeft
    <3>2. RunLeft = 4 * (MaxSeq - requestSeq) + 2
      BY <2>2 DEF RunLeft, PlaceLeft
    <3> QED
      BY <1>1, <1>3, <3>1, <3>2
  <2> QED
    BY <1>3, <2>1, <2>2
<1> QED
  BY <1>2, <1>3 DEF TakeOrWait

\* A step of the processor that reads takes from its run, or is none.
LEMMA RunFalls ==
    ASSUME TypeOK, TypeOK', ConsumeBuffer \/ EndRun
    PROVE  \/ RunLeft' < RunLeft /\ UNCHANGED <<started, senderVars, handlerVars>>
           \/ UNCHANGED vars
<1>0. /\ MaxSeq \in Nat /\ requestSeq \in 0 .. MaxSeq
  BY DEF TypeOK
<1>1. CASE RemoveFirst
  <2>1. pc = "recv" /\ pc' = "merge" /\ requestSeq' = requestSeq
    BY <1>1 DEF RemoveFirst
  <2>2. RunLeft = 4 * (MaxSeq - requestSeq) + 3 /\ RunLeft' = 4 * (MaxSeq - requestSeq) + 2
    BY <2>1 DEF RunLeft, PlaceLeft
  <2> QED
    BY <1>0, <1>1, <2>2 DEF RemoveFirst, runVars
<1>2. CASE Merge
  <2>1. RunLeft' < RunLeft
    BY <1>2, TakeOrWaitFalls DEF Merge
  <2> QED
    BY <1>2, <2>1 DEF Merge, runVars
<1>3. CASE Wake
  <2>1. \/ RunLeft' < RunLeft
        \/ pc = "wait" /\ pc' = "wait" /\ queue' = queue /\ UNCHANGED <<got, requestSeq>>
    BY <1>3, TakeOrWaitFalls DEF Wake
  <2> QED
    BY <1>3, <2>1 DEF Wake, runVars, procVars, vars
<1>4. CASE CompareTask
  <2>1. pc = "compare" /\ pc' = "recv" /\ requestSeq' = requestSeq
    BY <1>4 DEF CompareTask
  <2>2. RunLeft = 4 * (MaxSeq - requestSeq) + 4 /\ RunLeft' = 4 * (MaxSeq - requestSeq) + 3
    BY <2>1 DEF RunLeft, PlaceLeft
  <2> QED
    BY <1>0, <1>4, <2>2 DEF CompareTask
<1>5. CASE EndRun
  <2>1. RunLeft = 4 * (MaxSeq - requestSeq) + 3 /\ RunLeft' = 0
    BY <1>5 DEF EndRun, RunLeft, PlaceLeft
  <2> QED
    BY <1>0, <1>5, <2>1 DEF EndRun, runVars
<1> QED
  BY <1>1, <1>2, <1>3, <1>4, <1>5 DEF ConsumeBuffer

\* A task that is fetched has the room of one run.
LEMMA SetTaskFalls ==
    ASSUME IsFiniteSet(Task), TypeOK, TypeOK', NEW t \in Task, SetTask(t)
    PROVE  ReaderLeft' < ReaderLeft
<1> DEFINE c == Cardinality(Task \ started)
           d == Cardinality(Task \ started')
<1>1. /\ RunRoom \in Nat /\ c \in Nat /\ d \in Nat
      /\ ReaderLeft = RunRoom * c + RunLeft /\ ReaderLeft' = RunRoom' * d + RunLeft'
  <2>1. c \in Nat
    BY ReaderTypes
  <2>2. d \in Nat
    BY FS_Difference, FS_CardinalityType
  <2> QED
    BY <2>1, <2>2, ReaderTypes DEF ReaderLeft
<1>2. c = d + 1
  <2>1. IsFiniteSet(Task \ started) /\ t \in Task \ started
    BY FS_Difference DEF SetTask
  <2>2. Task \ started' = (Task \ started) \ {t}
    BY DEF SetTask
  <2>3. d = c - 1
    BY <2>1, <2>2, FS_RemoveElement
  <2> QED
    BY <1>1, <2>3
<1>3. RunLeft = 0 /\ RunLeft' = 4 * (MaxSeq - 0) + 3
  BY DEF SetTask, RunLeft, PlaceLeft
<1>4. RunRoom' = RunRoom
  BY DEF RunRoom
<1> HIDE DEF c, d
<1>5. RunRoom * c = RunRoom * d + RunRoom
  BY <1>1, <1>2
<1>6. RunLeft' < RunRoom
  BY <1>3 DEF RunRoom
<1>7. RunLeft' \in Nat /\ RunRoom * d \in Nat
  BY <1>1, <1>3
<1> QED
  BY <1>1, <1>3, <1>4, <1>5, <1>6, <1>7

\* Whatever other runs left in the queue, and in whatever order the server threads
\* come, the buffers of finitely many tasks keep the server and the processor busy
\* for so many steps only: no buffer is put back, and a run never returns to a number.
THEOREM StepsBounded ==
    IsFiniteSet(Task) /\ IsFiniteSet(Handler) =>
        (Spec => /\ [](StepsLeft \in 0 .. (8 * MaxSeq + 4) * Cardinality(Task))
                 /\ StepsCounted)
<1> DEFINE Most == (8 * MaxSeq + 4) * Cardinality(Task)
<1> SUFFICES ASSUME IsFiniteSet(Task), IsFiniteSet(Handler)
             PROVE  Spec => [](StepsLeft \in 0 .. Most) /\ StepsCounted
  OBVIOUS
<1>1. TypeOK => StepsLeft \in Nat
  BY ServerLeftType, ReaderTypes DEF StepsLeft
<1>6. TypeOK' => (StepsLeft \in Nat)'
  BY <1>1, PTL
<1>7. ASSUME NEW a \in Nat, NEW b \in Nat, NEW c \in Nat
      PROVE  a < b => a + c < b + c /\ c + a < c + b
  OBVIOUS
<1>2. TypeOK /\ TypeOK' /\ [Next]_vars =>
          [/\ StepsLeft' <= StepsLeft
           /\ (\A t \in Task : ~Send(t)) => StepsLeft' < StepsLeft]_vars
  <2> SUFFICES ASSUME TypeOK, TypeOK', Next
               PROVE  \/ StepsLeft' < StepsLeft
                      \/ StepsLeft' = StepsLeft /\ (UNCHANGED vars \/ \E t \in Task : Send(t))
    <3> SUFFICES ASSUME TypeOK, TypeOK', Next, ~UNCHANGED vars
                 PROVE  /\ StepsLeft' <= StepsLeft
                        /\ (\A t \in Task : ~Send(t)) => StepsLeft' < StepsLeft
      OBVIOUS
    <3>1. StepsLeft \in Nat /\ StepsLeft' \in Nat
      BY <1>1, <1>6
    <3> QED
      BY <3>1
  <2>0. /\ ServerLeft \in Nat /\ ReaderLeft \in Nat
        /\ ServerLeft' \in Nat /\ ReaderLeft' \in Nat
        /\ Total(Task, MaxSeq, CallsLeft) \in Nat /\ Total(Task, MaxSeq, CallsLeft)' \in Nat
        /\ Total(Handler, 3, HandlerLeft) \in Nat /\ Total(Handler, 3, HandlerLeft)' \in Nat
        /\ StepsLeft = ServerLeft + ReaderLeft /\ StepsLeft' = ServerLeft' + ReaderLeft'
    <3>1. /\ ServerLeft \in Nat /\ ReaderLeft \in Nat
          /\ Total(Task, MaxSeq, CallsLeft) \in Nat
          /\ Total(Handler, 3, HandlerLeft) \in Nat
      BY ServerLeftType, ReaderTypes
    <3>2. /\ ServerLeft' \in Nat /\ ReaderLeft' \in Nat
          /\ Total(Task, MaxSeq, CallsLeft)' \in Nat
          /\ Total(Handler, 3, HandlerLeft)' \in Nat
      BY ServerLeftTypeNext, ReaderTypesNext
    <3> QED
      BY <3>1, <3>2 DEF StepsLeft
  <2>1. ASSUME UNCHANGED <<pc, requestSeq, started>> PROVE ReaderLeft' = ReaderLeft
    BY <2>1 DEF ReaderLeft, RunRoom, RunLeft, PlaceLeft
  <2>2. ASSUME UNCHANGED arrived
        PROVE  Total(Task, MaxSeq, CallsLeft)' = Total(Task, MaxSeq, CallsLeft)
    BY <2>2 DEF CallsLeft
  <2>3. ASSUME UNCHANGED hPc
        PROVE  Total(Handler, 3, HandlerLeft)' = Total(Handler, 3, HandlerLeft)
    BY <2>3 DEF HandlerLeft
  <2>4. ASSUME UNCHANGED <<arrived, hPc>> PROVE ServerLeft' = ServerLeft
    BY <2>2, <2>3, <2>4 DEF ServerLeft
  <2>5. ASSUME NEW t \in Task, Send(t) PROVE StepsLeft' = StepsLeft
    <3>1. UNCHANGED <<arrived, hPc, pc, requestSeq, started>>
      BY <2>5 DEF Send, handlerVars, procVars, runVars
    <3> QED
      BY <2>0, <2>1, <2>4, <3>1
  <2>6. ASSUME NEW t \in Task, Lose(t) PROVE StepsLeft' < StepsLeft
    <3>1. UNCHANGED <<hPc, pc, requestSeq, started>>
      BY <2>6 DEF Lose, handlerVars, procVars, runVars
    <3>2. Total(Task, MaxSeq, CallsLeft)' < Total(Task, MaxSeq, CallsLeft)
      BY <2>6, CallFalls DEF Lose
    <3>3. ServerLeft' < ServerLeft
      BY <2>0, <2>3, <3>1, <3>2 DEF ServerLeft
    <3> QED
      BY <1>7, <2>0, <2>1, <3>1, <3>3
  <2>7. ASSUME NEW t \in Task, SetTask(t) PROVE StepsLeft' < StepsLeft
    <3>1. UNCHANGED <<arrived, hPc>>
      BY <2>7 DEF SetTask, senderVars, handlerVars
    <3>2. ReaderLeft' < ReaderLeft
      BY <2>7, SetTaskFalls
    <3> QED
      BY <1>7, <2>0, <2>4, <3>1, <3>2
  <2>8. ASSUME NEW h \in Handler, PutBuffer(h) PROVE StepsLeft' < StepsLeft
    <3>1. UNCHANGED <<arrived, pc, requestSeq, started>>
      BY <2>8 DEF PutBuffer, CheckTask, InputBuffer, GetFirst, PutFirst, senderVars,
         procVars, runVars
    <3>2. Total(Handler, 3, HandlerLeft)' < Total(Handler, 3, HandlerLeft)
      BY <2>8, HandlerFalls
    <3>3. ServerLeft' < ServerLeft
      BY <2>0, <2>2, <3>1, <3>2 DEF ServerLeft
    <3> QED
      BY <1>7, <2>0, <2>1, <3>1, <3>3
  <2>9. ASSUME NEW h \in Handler, NEW t \in Task, Dispatch(h, t) PROVE StepsLeft' < StepsLeft
    <3>1. UNCHANGED <<pc, requestSeq, started>>
      BY <2>9 DEF Dispatch, procVars, runVars
    <3>2. ServerLeft' < ServerLeft
      BY <2>9, DispatchFalls
    <3> QED
      BY <1>7, <2>0, <2>1, <3>1, <3>2
  <2>10. CASE ConsumeBuffer \/ EndRun
    <3>1. CASE UNCHANGED vars
      <4>1. UNCHANGED <<arrived, hPc, pc, requestSeq, started>>
        BY <3>1 DEF vars, senderVars, handlerVars, procVars, runVars
      <4> QED
        BY <2>0, <2>1, <2>4, <3>1, <4>1
    <3>2. CASE RunLeft' < RunLeft /\ UNCHANGED <<started, senderVars, handlerVars>>
      <4>1. RunRoom' * Cardinality(Task \ started)' = RunRoom * Cardinality(Task \ started)
        BY <3>2 DEF RunRoom
      <4>2. /\ RunRoom \in Nat /\ Cardinality(Task \ started) \in Nat
            /\ RunLeft \in Nat /\ RunLeft' \in Nat
        BY ReaderTypes, ReaderTypesNext
      <4>3. RunRoom * Cardinality(Task \ started) \in Nat
        BY <4>2
      <4>4. ReaderLeft' < ReaderLeft
        BY <3>2, <4>1, <4>2, <4>3 DEF ReaderLeft
      <4>5. UNCHANGED <<arrived, hPc>>
        BY <3>2 DEF senderVars, handlerVars
      <4> QED
        BY <1>7, <2>0, <2>4, <4>4, <4>5
    <3> QED
      BY <2>10, <3>1, <3>2, RunFalls
  <2> QED
    BY <2>5, <2>6, <2>7, <2>8, <2>9, <2>10 DEF Next
<1>3. MaxSeq \in Nat /\ Cardinality(Task) \in Nat /\ Most \in Nat
  <2>1. MaxSeq \in Nat /\ Cardinality(Task) \in Nat
    BY FS_CardinalityType
  <2> QED
    BY <2>1
<1>4. Init => StepsLeft \in 0 .. Most
  <2> SUFFICES ASSUME Init PROVE StepsLeft \in 0 .. Most
    OBVIOUS
  <2> DEFINE c == Cardinality(Task)
  <2>1. TypeOK
    BY InitIInv DEF IInv
  <2>2. /\ CallsLeft \in [Task -> 0 .. MaxSeq] /\ HandlerLeft \in [Handler -> 0 .. 3]
    BY <2>1, ServerTypes
  <2>3. /\ Total(Task, MaxSeq, CallsLeft) \in Nat
        /\ Total(Task, MaxSeq, CallsLeft) <= Cardinality(Task) * MaxSeq
    BY <1>3, <2>2, TotalMost
  <2>4. Total(Handler, 3, HandlerLeft) = 0
    <3>1. \A h \in Handler : HandlerLeft[h] = 0
      BY DEF Init, HandlerLeft
    <3>2. 3 \in Nat
      OBVIOUS
    <3> QED
      BY <2>2, <3>1, <3>2, TotalMost
  <2>5. ReaderLeft = RunRoom * c
    <3>1. Task \ started = Task /\ RunLeft = 0
      BY DEF Init, RunLeft
    <3>2. RunRoom * c \in Nat
      BY <1>3 DEF RunRoom
    <3> QED
      BY <3>1, <3>2 DEF ReaderLeft
  <2>6. StepsLeft \in Nat
    BY <1>1, <2>1
  <2> DEFINE a == Total(Task, MaxSeq, CallsLeft)
  <2>7. StepsLeft = 4 * a + RunRoom * c
    <3>1. RunRoom * c \in Nat
      BY <1>3 DEF RunRoom
    <3> QED
      BY <2>3, <2>4, <2>5, <3>1 DEF StepsLeft, ServerLeft
  <2>8. RunRoom * c = 4 * (c * MaxSeq) + 4 * c /\ Most = 8 * (c * MaxSeq) + 4 * c
    BY <1>3 DEF RunRoom
  <2>9. c * MaxSeq \in Nat /\ c \in Nat
    BY <1>3
  <2>10. a \in Nat /\ a <= c * MaxSeq
    BY <2>3
  <2> HIDE DEF a, c, Most
  <2> QED
    BY <2>6, <2>7, <2>8, <2>9, <2>10
<1>5. TypeOK /\ TypeOK' /\ [Next]_vars /\ StepsLeft \in 0 .. Most => (StepsLeft \in 0 .. Most)'
  <2> SUFFICES ASSUME TypeOK, TypeOK', [Next]_vars, StepsLeft \in 0 .. Most
               PROVE  StepsLeft' \in 0 .. Most
    OBVIOUS
  <2> HIDE DEF Most
  <2>1. StepsLeft \in Nat /\ StepsLeft' \in Nat
    BY <1>1, <1>6
  <2>2. CASE UNCHANGED vars
    <3>1. StepsLeft' = StepsLeft
      BY <2>2 DEF vars, senderVars, handlerVars, procVars, runVars, StepsLeft, ServerLeft,
         CallsLeft, HandlerLeft, ReaderLeft, RunRoom, RunLeft, PlaceLeft, Total, PointsBelow
    <3> QED
      BY <3>1
  <2>3. CASE ~UNCHANGED vars
    <3>1. StepsLeft' <= StepsLeft
      BY <1>2, <2>3
    <3> QED
      BY <1>3, <2>1, <3>1
  <2> QED
    BY <2>2, <2>3
<1> QED
  BY <1>2, <1>4, <1>5, TypeCorrect, PTL DEF Spec, StepsCounted
=============================================================================
