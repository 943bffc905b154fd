------------------------ MODULE TaskHandshake_proofs ------------------------
(***************************************************************************)
(* Proofs about the handshake: its type invariant, the safety properties   *)
(* of TaskHandshake and the refinement of TaskRendezvous, for every pair   *)
(* of nodes, every set of tasks and every number of slots and faults.      *)
(*                                                                         *)
(* The inductive invariant says where the bits of a task state come from   *)
(* (BitsSound), that they stay while somebody may still look at them       *)
(* (BitsKept), and that whoever looks last pushes (SomeonePushes).         *)
(*                                                                         *)
(* That the nodes do not wait for each other (NoDeadlock) needs on top of  *)
(* it who holds the slots that a thread waits for (WaitsSound).            *)
(*                                                                         *)
(* A measure that every step of the program makes smaller shows that with  *)
(* finitely many tasks the nodes come to a stop (StepsBounded).            *)
(***************************************************************************)
EXTENDS TaskHandshake, Countdown, FiniteSetTheorems, TLAPS

\* A node gets and pops a task at most once; the thread holds the task it popped
\* last and has not given it up before its call.
QueuesSound ==
    \A n \in Node :
        /\ \A i, j \in DOMAIN commitQueue[n] :
               commitQueue[n][i] = commitQueue[n][j] => i = j
        /\ \A i, j \in DOMAIN popLog[n] : popLog[n][i] = popLog[n][j] => i = j
        /\ \A i \in DOMAIN commitQueue[n], j \in DOMAIN popLog[n] :
               commitQueue[n][i] # popLog[n][j]
        /\ rpPc[n] # "pop" => /\ Len(popLog[n]) > 0
                              /\ rpTask[n] = popLog[n][Len(popLog[n])]
        /\ abandoned[n] \subseteq Popped(n)
        /\ rpTask[n] \in abandoned[n] => rpPc[n] \in {"pop", "failed", "clear"}
        /\ rpPc[n] \in {"failed", "clear"} => rpTask[n] \in abandoned[n]

\* What has been pushed, taken and reported.
HistorySound ==
    \A n \in Node :
        /\ Range(putQueue[n]) \cup taken[n] \subseteq pushed[n]
        /\ \A t \in failedResult : Role(n, t) = "bob" => t \in abandoned[n]

\* A call is made for a task in the thread's hands, and the thread merges the
\* reply of a call that is over.
CallSound(n, t) ==
    /\ callSt[n][t] # "none" =>
           /\ t \in Popped(n)
           /\ ~(rpTask[n] = t /\ rpPc[n] \in {"add", "invoke"})
    /\ Merged(n, t) => callSt[n][t] = "done"
    /\ callSt[n][t] \in {"lookup", "push"} => callStatus[n][t] = Roles

CallsSound == \A n \in Node, t \in Task : CallSound(n, t)

\* bits is only made of bits of calls that were received.
BitsReceived(bits, t) == \A m \in Node : Role(m, t) \in bits => Received(m, t)

\* A bit is set by its call; the bit of a node is set at that node, and told to
\* the peer, after the node merged its reply.
BitSound(n, t) ==
    /\ BitsReceived(taskState[n][t], t)
    /\ BitsReceived(callStatus[n][t], t)
    /\ rpTask[n] = t /\ rpPc[n] = "find" => BitsReceived(rpState[n], t)
    /\ rpTask[n] = t /\ rpPc[n] = "push" => BitsReceived(Roles, t)
    /\ Role(n, t) \in taskState[n][t] => Merged(n, t)
    /\ Role(Peer(n), t) \in callStatus[n][t] => Merged(Peer(n), t)

BitsSound == \A n \in Node, t \in Task : BitSound(n, t)

\* A task is pushed by a node that merged its reply, when both calls are received.
PushedSound ==
    \A n \in Node : \A t \in pushed[n] : Merged(n, t) /\ BitsReceived(Roles, t)

\* A set bit, and the working task, stay until the task is taken or given up.
BitKept(n, t) ==
    t \notin taken[n] \cup abandoned[n] =>
        /\ Merged(n, t) => Role(n, t) \in taskState[n][t]
        /\ Received(Peer(n), t) => Role(Peer(n), t) \in taskState[n][t]
        /\ t \in Popped(n) => t \in workingTasks[n]

BitsKept == \A n \in Node, t \in Task : BitKept(n, t)

\* With both bits set and the task not pushed, the thread or the handler of the
\* peer's call has yet to look.
StillLooked(n, t) ==
    Merged(n, t) /\ Received(Peer(n), t) /\ t \notin pushed[n] =>
        \/ rpTask[n] = t /\ rpPc[n] \in {"find", "push"}
        \/ callSt[Peer(n)][t] \in {"updated", "lookup", "push"}

SomeonePushes == \A n \in Node, t \in Task : StillLooked(n, t)

SlotsSound ==
    \A n \in Node :
        /\ IsFiniteSet(requestQueue[n])
        /\ Cardinality(requestQueue[n]) <= ProcessorNum
        /\ InFlight(n) \subseteq requestQueue[n]

IInv ==
    /\ TypeOK
    /\ QueuesSound
    /\ HistorySound
    /\ CallsSound
    /\ BitsSound
    /\ PushedSound
    /\ BitsKept
    /\ SomeonePushes
    /\ SlotsSound

-----------------------------------------------------------------------------
(* Facts about the two nodes and the two roles, and about sequences.       *)

USE BoundsAssumption

LEMMA PeerFacts ==
    \A n \in Node :
        Peer(n) \in Node /\ Peer(n) # n /\ Peer(Peer(n)) = n /\ Node = {n, Peer(n)}
<1>1. PICK a \in Node, b \in Node : a # b /\ Node = {a, b}
  BY NodeAssumption
<1>2. \A n \in Node : \E m \in Node : m # n
  BY <1>1
<1>3. \A n \in Node : Peer(n) \in Node /\ Peer(n) # n
  BY <1>2 DEF Peer
<1> QED
  BY <1>1, <1>3

LEMMA RoleFacts ==
    \A n \in Node, t \in Task :
        /\ Role(n, t) \in Roles
        /\ Role(n, t) # Role(Peer(n), t)
        /\ Roles = {Role(n, t), Role(Peer(n), t)}
<1> SUFFICES ASSUME NEW n \in Node, NEW t \in Task
             PROVE  /\ Role(n, t) \in Roles
                    /\ Role(n, t) # Role(Peer(n), t)
                    /\ Roles = {Role(n, t), Role(Peer(n), t)}
  OBVIOUS
<1>1. Invitor[t] \in Node
  BY InvitorAssumption
<1>2. Invitor[t] = n \/ Invitor[t] = Peer(n)
  BY <1>1, PeerFacts
<1> QED
  BY <1>2, PeerFacts DEF Role, Roles

LEMMA RangeAppend ==
    ASSUME NEW S, NEW s \in Seq(S), NEW x \in S
    PROVE  Range(Append(s, x)) = Range(s) \cup {x}
<1>1. \A y \in Range(Append(s, x)) : y \in Range(s) \cup {x}
  BY DEF Range
<1>2. \A y \in Range(s) \cup {x} : y \in Range(Append(s, x))
  <2>1. Append(s, x)[Len(s) + 1] = x /\ Len(s) + 1 \in DOMAIN Append(s, x)
    OBVIOUS
  <2>2. \A i \in DOMAIN s : Append(s, x)[i] = s[i] /\ i \in DOMAIN Append(s, x)
    OBVIOUS
  <2> QED
    BY <2>1, <2>2 DEF Range
<1> QED
  BY <1>1, <1>2

LEMMA RangeTail ==
    ASSUME NEW S, NEW s \in Seq(S), s # << >>
    PROVE  /\ Head(s) \in Range(s) /\ Head(s) \in S /\ Tail(s) \in Seq(S)
           /\ Range(Tail(s)) \subseteq Range(s)
<1>1. Head(s) = s[1] /\ 1 \in DOMAIN s
  OBVIOUS
<1>2. \A i \in DOMAIN Tail(s) : Tail(s)[i] = s[i + 1] /\ i + 1 \in DOMAIN s
  OBVIOUS
<1> QED
  BY <1>1, <1>2 DEF Range

\* A sequence is its head and its tail.
LEMMA RangeHeadTail ==
    ASSUME NEW S, NEW s \in Seq(S), s # << >>
    PROVE  Range(s) = {Head(s)} \cup Range(Tail(s))
<1>1. \A i \in DOMAIN s : i # 1 => /\ i - 1 \in DOMAIN Tail(s)
                                   /\ Tail(s)[i - 1] = s[i]
  OBVIOUS
<1>2. Head(s) = s[1]
  OBVIOUS
<1>3. Range(s) \subseteq {Head(s)} \cup Range(Tail(s))
  <2> SUFFICES ASSUME NEW i \in DOMAIN s PROVE s[i] \in {Head(s)} \cup Range(Tail(s))
    BY DEF Range
  <2> QED
    BY <1>1, <1>2 DEF Range
<1> QED
  BY <1>3, RangeTail

\* A place in a queue, before and after its head leaves.
LEMMA TailPlaces ==
    ASSUME NEW S, NEW s \in Seq(S), s # << >>
    PROVE  /\ s[1] = Head(s)
           /\ \A j \in DOMAIN Tail(s) : j + 1 \in DOMAIN s /\ Tail(s)[j] = s[j + 1]
           /\ \A j \in DOMAIN Tail(s) : \A i \in 1 .. j :
                  i = 1 \/ (i - 1 \in 1 .. j - 1 /\ Tail(s)[i - 1] = s[i])
OBVIOUS

LEMMA AppendPlaces ==
    ASSUME NEW S, NEW s \in Seq(S), NEW x \in S
    PROVE  /\ DOMAIN s = 1 .. Len(s)
           /\ DOMAIN Append(s, x) = 1 .. Len(s) + 1
           /\ Append(s, x)[Len(s) + 1] = x
           /\ \A j \in DOMAIN Append(s, x) :
                  j # Len(s) + 1 => j \in DOMAIN s /\ Append(s, x)[j] = s[j]
           /\ \A j \in DOMAIN Append(s, x) : \A i \in 1 .. j - 1 :
                  i \in DOMAIN s /\ Append(s, x)[i] = s[i]
OBVIOUS

-----------------------------------------------------------------------------
(* Types.                                                                  *)

LEMMA TypeInit == Init => TypeOK
BY TaskAssumption DEF Init, TypeOK, RpPc, CallSt, Roles

LEMMA TypeNext == TypeOK /\ [Next]_vars => TypeOK'
<1> SUFFICES ASSUME TypeOK, [Next]_vars PROVE TypeOK'
  OBVIOUS
<1> USE RoleFacts, PeerFacts DEF TypeOK
<1>1. ASSUME NEW n \in Node, Register(n) PROVE TypeOK'
  BY <1>1 DEF Register, rpVars, tableVars, callVars, logVars
<1>2. ASSUME NEW n \in Node, NEW t \in Task, Commit(n, t) PROVE TypeOK'
  BY <1>2 DEF Commit, rpVars, tableVars, callVars, logVars
<1>3. ASSUME NEW n \in Node, PopCommitTask(n) PROVE TypeOK'
  BY <1>3, RangeTail DEF PopCommitTask, callVars, RpPc
<1>4. ASSUME NEW n \in Node, AddRequest(n) PROVE TypeOK'
  BY <1>4 DEF AddRequest, callVars, logVars, RpPc
<1>5. ASSUME NEW n \in Node, PeerNotFound(n) PROVE TypeOK'
  BY <1>5 DEF PeerNotFound, tableVars, callVars, RpPc
<1>6. ASSUME NEW n \in Node, Invoke(n) PROVE TypeOK'
  BY <1>6 DEF Invoke, tableVars, logVars, RpPc, CallSt
<1>7. ASSUME NEW n \in Node, MergeReply(n) PROVE TypeOK'
  BY <1>7 DEF MergeReply, UpdateTaskState, callVars, logVars, RpPc
<1>8. ASSUME NEW n \in Node, FindState(n) PROVE TypeOK'
  BY <1>8 DEF FindState, tableVars, callVars, logVars, RpPc
<1>9. ASSUME NEW n \in Node, PushReady(n) PROVE TypeOK'
  BY <1>9 DEF PushReady, PushPutTask, tableVars, callVars, logVars, RpPc
<1>10. ASSUME NEW n \in Node, FailState(n) PROVE TypeOK'
  BY <1>10 DEF FailState, callVars, logVars, RpPc
<1>11. ASSUME NEW n \in Node, FailWorking(n) PROVE TypeOK'
  BY <1>11 DEF FailWorking, callVars, logVars, RpPc
<1>12. ASSUME NEW n \in Node, CallException(n) PROVE TypeOK'
  <2>1. CASE callSt' = [callSt EXCEPT ![n][rpTask[n]] = "dropped"]
    BY <1>12, <2>1 DEF CallException, tableVars, RpPc, CallSt
  <2>2. CASE UNCHANGED callSt
    BY <1>12, <2>2 DEF CallException, tableVars, RpPc
  <2> QED
    BY <1>12, <2>1, <2>2 DEF CallException
<1>13. ASSUME NEW n \in Node, NEW t \in Task, HandleUpdate(n, t) PROVE TypeOK'
  BY <1>13 DEF HandleUpdate, UpdateTaskState, rpVars, logVars, CallSt
<1>14. ASSUME NEW n \in Node, NEW t \in Task, HandleFind(n, t) PROVE TypeOK'
  BY <1>14 DEF HandleFind, FoundState, rpVars, tableVars, logVars, CallSt
<1>15. ASSUME NEW n \in Node, NEW t \in Task, HandleLookup(n, t) PROVE TypeOK'
  BY <1>15 DEF HandleLookup, rpVars, tableVars, logVars, CallSt
<1>16. ASSUME NEW n \in Node, NEW t \in Task, HandlePush(n, t) PROVE TypeOK'
  BY <1>16 DEF HandlePush, PushPutTask, rpVars, tableVars, logVars, CallSt
<1>17. ASSUME NEW n \in Node, TakePutTask(n) PROVE TypeOK'
  BY <1>17, RangeTail DEF TakePutTask, rpVars, tableVars, callVars
<1>18. ASSUME NEW n \in Node, NEW t \in Task, Downstream(n, t) PROVE TypeOK'
  <2>1. CASE RemoveTaskState(n, t)
    BY <2>1 DEF RemoveTaskState, rpVars, callVars, logVars
  <2>2. CASE RemoveRequest(n, t)
    BY <2>2 DEF RemoveRequest, rpVars, callVars, logVars
  <2>3. CASE RemoveWorkingTask(n, t)
    BY <2>3 DEF RemoveWorkingTask, rpVars, callVars, logVars
  <2> QED
    BY <1>18, <2>1, <2>2, <2>3 DEF Downstream
<1>19. CASE UNCHANGED vars
  BY <1>19 DEF vars, rpVars, tableVars, callVars
<1> QED
  BY <1>1, <1>2, <1>3, <1>4, <1>5, <1>6, <1>7, <1>8, <1>9, <1>10, <1>11,
     <1>12, <1>13, <1>14, <1>15, <1>16, <1>17, <1>18, <1>19
     DEF Next, ReadyProcessor, Handler

\* The variables keep their types.
THEOREM TypeCorrect == Spec => []TypeOK
BY TypeInit, TypeNext, PTL DEF Spec

-----------------------------------------------------------------------------
(* The parts of the inductive invariant, one lemma each.                   *)

LEMMA InitIInv == Init => IInv
<1> SUFFICES ASSUME Init PROVE IInv
  OBVIOUS
<1>1. TypeOK
  BY TypeInit
<1>2. \A n \in Node : /\ commitQueue[n] = << >> /\ popLog[n] = << >> /\ rpPc[n] = "pop"
                      /\ putQueue[n] = << >> /\ taken[n] = {} /\ abandoned[n] = {}
                      /\ pushed[n] = {} /\ requestQueue[n] = {}
                      /\ Popped(n) = {}
  BY DEF Init, Popped, Range
<1>3. \A n \in Node, t \in Task : /\ callSt[n][t] = "none" /\ callStatus[n][t] = {}
                                 /\ taskState[n][t] = {} /\ ~Merged(n, t)
                                 /\ ~Received(n, t)
  BY <1>2 DEF Init, Merged, Received
<1>4. QueuesSound
  BY <1>2 DEF QueuesSound
<1>5. HistorySound
  BY <1>2 DEF HistorySound, Init, Range
<1>6. CallsSound
  BY <1>2, <1>3 DEF CallsSound, CallSound
<1>7. BitsSound
  BY <1>2, <1>3, PeerFacts DEF BitsSound, BitSound, BitsReceived
<1>8. PushedSound /\ BitsKept /\ SomeonePushes
  BY <1>2, <1>3, PeerFacts DEF PushedSound, BitsKept, BitKept, SomeonePushes, StillLooked
<1>9. \A n \in Node : Cardinality(requestQueue[n]) = 0 /\ IsFiniteSet(requestQueue[n])
  BY <1>2, FS_EmptySet
<1>10. SlotsSound
  BY <1>2, <1>9 DEF SlotsSound, InFlight
<1> QED
  BY <1>1, <1>4, <1>5, <1>6, <1>7, <1>8, <1>10 DEF IInv

LEMMA QueuesNext == IInv /\ [Next]_vars => QueuesSound'
<1> SUFFICES ASSUME IInv, [Next]_vars PROVE QueuesSound'
  OBVIOUS
<1> USE DEF TypeOK, IInv, QueuesSound, Popped
<1>1. ASSUME NEW n \in Node, NEW t \in Task, Commit(n, t) PROVE QueuesSound'
  BY <1>1 DEF Commit, rpVars, logVars, Range
<1>2. ASSUME NEW n \in Node, PopCommitTask(n) PROVE QueuesSound'
  <2> DEFINE t == Head(commitQueue[n])
  <2>a. /\ commitQueue[n] \in Seq(Task) /\ popLog[n] \in Seq(Task)
        /\ commitQueue[n] # << >>
        /\ QueuesSound /\ TypeOK
    BY <1>2 DEF PopCommitTask
  <2>b. /\ \A i, j \in DOMAIN commitQueue[n] :
               commitQueue[n][i] = commitQueue[n][j] => i = j
        /\ \A i, j \in DOMAIN popLog[n] : popLog[n][i] = popLog[n][j] => i = j
        /\ \A i \in DOMAIN commitQueue[n], j \in DOMAIN popLog[n] :
               commitQueue[n][i] # popLog[n][j]
    BY <2>a
  <2> HIDE DEF TypeOK, IInv
  <2>1. t \in Task /\ t = commitQueue[n][1] /\ commitQueue[n] # << >>
    BY <2>a
  <2>2. popLog' = [popLog EXCEPT ![n] = Append(@, t)] /\ rpTask'[n] = t
    BY <1>2, <2>a DEF PopCommitTask, TypeOK
  <2>3. commitQueue' = [commitQueue EXCEPT ![n] = Tail(@)]
    BY <1>2 DEF PopCommitTask
  <2>4. /\ popLog'[n] = Append(popLog[n], t)
        /\ Range(popLog'[n]) = Range(popLog[n]) \cup {t}
    BY <2>1, <2>2, <2>a, RangeAppend DEF TypeOK
  <2>5. /\ DOMAIN popLog'[n] = 1 .. Len(popLog[n]) + 1
        /\ Len(popLog'[n]) = Len(popLog[n]) + 1
        /\ popLog'[n][Len(popLog[n]) + 1] = t
        /\ \A j \in DOMAIN popLog[n] : popLog'[n][j] = popLog[n][j]
    BY <2>1, <2>4, <2>a
  <2>6. /\ DOMAIN popLog[n] = 1 .. Len(popLog[n]) /\ Len(popLog[n]) \in Nat
        /\ DOMAIN commitQueue[n] = 1 .. Len(commitQueue[n])
        /\ Len(commitQueue[n]) \in Nat /\ 1 \in DOMAIN commitQueue[n]
    BY <2>a
  <2>7. \A i \in DOMAIN commitQueue'[n] : /\ commitQueue'[n][i] = commitQueue[n][i + 1]
                                        /\ i \in Nat \ {0}
                                        /\ i + 1 \in DOMAIN commitQueue[n]
    <3>1. commitQueue'[n] = Tail(commitQueue[n])
      BY <2>3, <2>a DEF TypeOK
    <3> QED
      BY <3>1, <2>a
  <2>8. \A i, j \in DOMAIN commitQueue'[n] :
            commitQueue'[n][i] = commitQueue'[n][j] => i = j
    <3> HIDE DEF QueuesSound
    <3> QED
      BY <2>7, <2>b
  <2>9. \A i, j \in DOMAIN popLog'[n] : popLog'[n][i] = popLog'[n][j] => i = j
    <3> HIDE DEF QueuesSound
    <3>1. \A j \in DOMAIN popLog[n] : popLog[n][j] # t
      BY <2>1, <2>6, <2>b
    <3>2. \A j \in DOMAIN popLog'[n] : j \in DOMAIN popLog[n] \/ j = Len(popLog[n]) + 1
      BY <2>5, <2>6
    <3> QED
      BY <2>5, <2>b, <3>1, <3>2
  <2>10. \A i \in DOMAIN commitQueue'[n], j \in DOMAIN popLog'[n] :
             commitQueue'[n][i] # popLog'[n][j]
    <3> HIDE DEF QueuesSound
    <3>1. \A j \in DOMAIN popLog'[n] : j \in DOMAIN popLog[n] \/ j = Len(popLog[n]) + 1
      BY <2>5, <2>6
    <3>2. \A i \in DOMAIN commitQueue'[n] : i + 1 \in DOMAIN commitQueue[n] /\ i + 1 # 1
      BY <2>7
    <3>3. \A i \in DOMAIN commitQueue'[n] : commitQueue'[n][i] # t
      BY <2>1, <2>6, <2>7, <2>b, <3>2
    <3> QED
      BY <2>5, <2>7, <2>b, <3>1, <3>3
  <2>11. rpPc'[n] = "add" /\ abandoned' = abandoned /\ t \notin Range(popLog[n])
    <3> HIDE DEF QueuesSound
    <3>1. t \notin Range(popLog[n])
      BY <2>1, <2>6, <2>b DEF Range
    <3> QED
      BY <1>2, <2>a, <3>1 DEF PopCommitTask, TypeOK
  <2>12. ASSUME NEW m \in Node, m # n
         PROVE  /\ commitQueue'[m] = commitQueue[m] /\ popLog'[m] = popLog[m]
                /\ rpPc'[m] = rpPc[m] /\ rpTask'[m] = rpTask[m]
                /\ abandoned'[m] = abandoned[m]
    BY <1>2, <2>12, <2>a DEF PopCommitTask, TypeOK
  <2>13. ASSUME NEW m \in Node
         PROVE  /\ rpPc'[m] # "pop" => /\ Len(popLog'[m]) > 0
                                        /\ rpTask'[m] = popLog'[m][Len(popLog'[m])]
                /\ abandoned'[m] \subseteq Range(popLog'[m])
                /\ rpTask'[m] \in abandoned'[m] => rpPc'[m] \in {"pop", "failed", "clear"}
                /\ rpPc'[m] \in {"failed", "clear"} => rpTask'[m] \in abandoned'[m]
    BY <2>2, <2>4, <2>5, <2>6, <2>11, <2>12, <2>a
  <2> QED
    BY <2>8, <2>9, <2>10, <2>12, <2>13, <2>a
<1>3. ASSUME NEW n \in Node, AddRequest(n) \/ Invoke(n) PROVE QueuesSound'
  BY <1>3 DEF AddRequest, Invoke, logVars
<1>4. ASSUME NEW n \in Node, PeerNotFound(n) PROVE QueuesSound'
  BY <1>4 DEF PeerNotFound, Range
<1>5. ASSUME NEW n \in Node, MergeReply(n) \/ FindState(n) \/ PushReady(n)
      PROVE  QueuesSound'
  BY <1>5 DEF MergeReply, FindState, PushReady, logVars
<1>6. ASSUME NEW n \in Node, CallException(n) PROVE QueuesSound'
  BY <1>6 DEF CallException, Range
<1>7. ASSUME NEW n \in Node, FailState(n) \/ FailWorking(n) PROVE QueuesSound'
  BY <1>7 DEF FailState, FailWorking, logVars
<1>8. CASE UNCHANGED <<commitQueue, rpPc, rpTask, popLog, abandoned>>
  BY <1>8
<1> QED
  BY <1>1, <1>2, <1>3, <1>4, <1>5, <1>6, <1>7, <1>8, ZenonT(60)
     DEF Next, ReadyProcessor, Handler, Downstream, Register, TakePutTask,
         HandleUpdate, HandleFind, HandleLookup, HandlePush, RemoveTaskState,
         RemoveRequest, RemoveWorkingTask, rpVars, logVars, vars

\* What a pop does to the set of popped tasks.
LEMMA PopStep ==
    ASSUME IInv, NEW n \in Node, PopCommitTask(n)
    PROVE  /\ rpTask'[n] \in Task \ Popped(n)
           /\ Popped(n)' = Popped(n) \cup {rpTask'[n]}
           /\ \A m \in Node : m # n => /\ Popped(m)' = Popped(m)
                                       /\ rpTask'[m] = rpTask[m] /\ rpPc'[m] = rpPc[m]
           /\ rpPc[n] = "pop" /\ rpPc'[n] = "add"
<1> DEFINE t == Head(commitQueue[n])
<1>1. TypeOK /\ QueuesSound
  BY DEF IInv
<1>2. commitQueue[n] \in Seq(Task) /\ popLog[n] \in Seq(Task) /\ commitQueue[n] # << >>
  BY <1>1 DEF TypeOK, PopCommitTask
<1>3. t \in Task /\ t = commitQueue[n][1] /\ 1 \in DOMAIN commitQueue[n]
  BY <1>2
<1>4. t \notin Range(popLog[n])
  BY <1>1, <1>3 DEF QueuesSound, Range
<1>5. rpTask'[n] = t /\ popLog'[n] = Append(popLog[n], t)
  BY <1>1 DEF TypeOK, PopCommitTask
<1>6. Range(popLog'[n]) = Range(popLog[n]) \cup {t}
  BY <1>2, <1>3, <1>5, RangeAppend
<1>7. \A m \in Node : m # n => popLog'[m] = popLog[m] /\ rpTask'[m] = rpTask[m] /\ rpPc'[m] = rpPc[m]
  BY <1>1 DEF TypeOK, PopCommitTask
<1>8. rpPc[n] = "pop" /\ rpPc'[n] = "add"
  BY <1>1 DEF TypeOK, PopCommitTask
<1> QED
  BY <1>3, <1>4, <1>5, <1>6, <1>7, <1>8 DEF Popped

\* A received call stays received, a merged reply stays merged.
LEMMA ReceivedStable ==
    IInv /\ [Next]_vars => \A n \in Node, t \in Task : Received(n, t) => Received(n, t)'
<1> SUFFICES ASSUME IInv, [Next]_vars, NEW m \in Node, NEW u \in Task, Received(m, u)
             PROVE  Received(m, u)'
  OBVIOUS
<1> USE DEF Received
<1>0. callSt \in [Node -> [Task -> CallSt]] /\ rpTask \in [Node -> Task]
  BY DEF IInv, TypeOK
<1>1. ASSUME NEW n \in Node, Invoke(n) PROVE Received(m, u)'
  <2>1. callSt[n][rpTask[n]] = "none"
    BY <1>0, <1>1 DEF Invoke, IInv, CallsSound, CallSound
  <2> QED
    BY <1>0, <1>1, <2>1 DEF Invoke
<1>2. ASSUME NEW n \in Node, CallException(n) PROVE Received(m, u)'
  <2>1. \/ UNCHANGED callSt
        \/ /\ callSt[n][rpTask[n]] = "sent"
           /\ callSt' = [callSt EXCEPT ![n][rpTask[n]] = "dropped"]
    BY <1>2 DEF CallException
  <2> QED
    BY <1>0, <2>1
<1>3. ASSUME NEW n \in Node, NEW t \in Task, Handler(n, t) PROVE Received(m, u)'
  <2>1. \E x \in {"updated", "lookup", "push", "done"} :
            callSt' = [callSt EXCEPT ![n][t] = x]
    BY <1>3 DEF Handler, HandleUpdate, HandleFind, HandleLookup, HandlePush
  <2> QED
    BY <1>0, <2>1
<1>4. CASE UNCHANGED callSt
  BY <1>4
<1> QED
  BY <1>1, <1>2, <1>3, <1>4
     DEF Next, ReadyProcessor, Downstream, Register, Commit, TakePutTask,
         PopCommitTask, AddRequest, PeerNotFound, MergeReply, FindState, PushReady,
         FailState, FailWorking, RemoveTaskState, RemoveRequest, RemoveWorkingTask,
         callVars, vars

LEMMA MergedStable ==
    IInv /\ [Next]_vars => \A n \in Node, t \in Task : Merged(n, t) => Merged(n, t)'
<1> SUFFICES ASSUME IInv, [Next]_vars, NEW m \in Node, NEW u \in Task, Merged(m, u)
             PROVE  Merged(m, u)'
  OBVIOUS
<1> USE DEF IInv, TypeOK, Merged
<1>1. ASSUME NEW n \in Node, PopCommitTask(n) PROVE Merged(m, u)'
  <2>1. abandoned' = abandoned
    BY <1>1 DEF PopCommitTask
  <2> QED
    BY <1>1, <2>1, PopStep
<1>2. ASSUME NEW n \in Node, AddRequest(n) \/ Invoke(n) PROVE Merged(m, u)'
  BY <1>2 DEF AddRequest, Invoke, logVars, Popped
<1>3. ASSUME NEW n \in Node, PeerNotFound(n) PROVE Merged(m, u)'
  BY <1>3 DEF PeerNotFound, Popped
<1>4. ASSUME NEW n \in Node, MergeReply(n) \/ FindState(n) \/ PushReady(n)
      PROVE  Merged(m, u)'
  BY <1>4 DEF MergeReply, FindState, PushReady, logVars, Popped
<1>5. ASSUME NEW n \in Node, CallException(n) PROVE Merged(m, u)'
  BY <1>5 DEF CallException, Popped
<1>6. ASSUME NEW n \in Node, FailState(n) \/ FailWorking(n) PROVE Merged(m, u)'
  BY <1>6 DEF FailState, FailWorking, logVars, Popped
<1>7. CASE UNCHANGED <<rpPc, rpTask, popLog, abandoned>>
  BY <1>7 DEF Popped
<1>8. ASSUME NEW n \in Node, ReadyProcessor(n) PROVE Merged(m, u)'
  BY <1>1, <1>2, <1>3, <1>4, <1>6, <1>8 DEF ReadyProcessor
<1>9. ASSUME NEW n \in Node, Register(n) \/ TakePutTask(n)
      PROVE  UNCHANGED <<rpPc, rpTask, popLog, abandoned>>
  BY <1>9 DEF Register, TakePutTask, rpVars, logVars
<1>10. ASSUME NEW n \in Node, NEW t \in Task, Commit(n, t)
       PROVE  UNCHANGED <<rpPc, rpTask, popLog, abandoned>>
  BY <1>10 DEF Commit, rpVars, logVars
<1>11. ASSUME NEW n \in Node, NEW t \in Task, Handler(n, t)
       PROVE  UNCHANGED <<rpPc, rpTask, popLog, abandoned>>
  BY <1>11 DEF Handler, HandleUpdate, HandleFind, HandleLookup, HandlePush,
               rpVars, logVars
<1>12. ASSUME NEW n \in Node, NEW t \in Task, Downstream(n, t)
       PROVE  UNCHANGED <<rpPc, rpTask, popLog, abandoned>>
  BY <1>12 DEF Downstream, RemoveTaskState, RemoveRequest, RemoveWorkingTask,
               rpVars, logVars
<1>13. CASE UNCHANGED vars
  BY <1>7, <1>13 DEF vars, rpVars, logVars
<1>14. CASE Next
  <2>1. PICK n \in Node :
          \/ Register(n)
          \/ ReadyProcessor(n)
          \/ CallException(n)
          \/ TakePutTask(n)
          \/ \E t \in Task : Commit(n, t) \/ Handler(n, t) \/ Downstream(n, t)
    BY <1>14 DEF Next
  <2> HIDE DEF IInv, TypeOK, Merged
  <2> QED
    BY <2>1, <1>5, <1>7, <1>8, <1>9, <1>10, <1>11, <1>12
<1> HIDE DEF IInv, TypeOK, Merged
<1> QED
  BY <1>13, <1>14

LEMMA HistoryNext == IInv /\ [Next]_vars => HistorySound'
<1> SUFFICES ASSUME IInv, [Next]_vars PROVE HistorySound'
  OBVIOUS
<1> USE DEF IInv, TypeOK, HistorySound
<1>1. ASSUME NEW n \in Node, NEW t \in Task, PushPutTask(n, t),
             UNCHANGED <<failedResult, logVars>>
      PROVE  HistorySound'
  <2>1. Range(putQueue'[n]) = Range(putQueue[n]) \cup {t}
    BY <1>1, RangeAppend DEF PushPutTask
  <2> QED
    BY <1>1, <2>1 DEF PushPutTask, logVars
<1>2. ASSUME NEW n \in Node, TakePutTask(n) PROVE HistorySound'
  <2>1. /\ Range(putQueue'[n]) \subseteq Range(putQueue[n])
        /\ Head(putQueue[n]) \in Range(putQueue[n])
    BY <1>2, RangeTail DEF TakePutTask
  <2> QED
    BY <1>2, <2>1 DEF TakePutTask
<1>3. ASSUME NEW n \in Node, PeerNotFound(n) \/ CallException(n) PROVE HistorySound'
  <2>1. /\ abandoned' = [abandoned EXCEPT ![n] = @ \cup {rpTask[n]}]
        /\ UNCHANGED <<putQueue, pushed, taken, failedResult>>
    BY <1>3 DEF PeerNotFound, CallException
  <2> QED
    BY <2>1
<1>4. ASSUME NEW n \in Node, FailState(n) PROVE HistorySound'
  <2>1. rpTask[n] \in abandoned[n] /\ abandoned' = abandoned
    BY <1>4 DEF FailState, QueuesSound, logVars
  <2>2. \A m \in Node :
            Role(m, rpTask[n]) = "bob" /\ Role(n, rpTask[n]) = "bob" => m = n
    BY PeerFacts, RoleFacts
  <2> QED
    BY <1>4, <2>1, <2>2 DEF FailState, logVars
<1>5. CASE UNCHANGED <<putQueue, pushed, taken, failedResult, abandoned>>
  BY <1>5
<1>6. ASSUME NEW n \in Node, PushReady(n) PROVE HistorySound'
  BY <1>1, <1>6 DEF PushReady
<1>7. ASSUME NEW n \in Node, NEW t \in Task, HandlePush(n, t) PROVE HistorySound'
  BY <1>1, <1>7, PeerFacts DEF HandlePush
<1> HIDE DEF IInv, TypeOK, HistorySound
<1>8. ASSUME NEW n \in Node, ReadyProcessor(n) PROVE HistorySound'
  BY <1>3, <1>4, <1>5, <1>6, <1>8
     DEF ReadyProcessor, PopCommitTask, AddRequest, Invoke, MergeReply, FindState,
         FailWorking, logVars
<1>9. ASSUME NEW n \in Node, NEW t \in Task, Handler(n, t) PROVE HistorySound'
  BY <1>5, <1>7, <1>9 DEF Handler, HandleUpdate, HandleFind, HandleLookup, logVars
<1>10. ASSUME NEW n \in Node, NEW t \in Task, Downstream(n, t) PROVE HistorySound'
  BY <1>5, <1>10
     DEF Downstream, RemoveTaskState, RemoveRequest, RemoveWorkingTask, logVars
<1> QED
  BY <1>2, <1>3, <1>5, <1>8, <1>9, <1>10 DEF Next, Register, Commit, logVars, vars

\* The thread holds a popped task, and has merged it from "find" on.
LEMMA RpTaskFacts ==
    IInv => \A n \in Node : rpPc[n] # "pop" =>
        /\ rpTask[n] \in Popped(n)
        /\ rpPc[n] \in {"add", "invoke", "wait"} =>
               ~Merged(n, rpTask[n]) /\ rpTask[n] \notin abandoned[n]
        /\ rpPc[n] \in {"find", "push"} => Merged(n, rpTask[n])
        /\ rpPc[n] \in {"failed", "clear"} => rpTask[n] \in abandoned[n]
<1> SUFFICES ASSUME IInv, NEW n \in Node, rpPc[n] # "pop"
             PROVE  /\ rpTask[n] \in Popped(n)
                    /\ rpPc[n] \in {"add", "invoke", "wait"} =>
                           ~Merged(n, rpTask[n]) /\ rpTask[n] \notin abandoned[n]
                    /\ rpPc[n] \in {"find", "push"} => Merged(n, rpTask[n])
                    /\ rpPc[n] \in {"failed", "clear"} => rpTask[n] \in abandoned[n]
  OBVIOUS
<1>1. /\ popLog[n] \in Seq(Task) /\ Len(popLog[n]) > 0
      /\ rpTask[n] = popLog[n][Len(popLog[n])]
  BY DEF IInv, TypeOK, QueuesSound
<1>2. rpTask[n] \in Popped(n)
  BY <1>1 DEF Popped, Range
<1> QED
  BY <1>2 DEF IInv, QueuesSound, Merged

LEMMA CallsNext == IInv /\ [Next]_vars => CallsSound'
<1> SUFFICES ASSUME IInv, [Next]_vars, NEW m \in Node, NEW u \in Task
             PROVE  CallSound(m, u)'
  BY DEF CallsSound
<1>0. TypeOK /\ CallsSound
  BY DEF IInv
<1> USE <1>0 DEF TypeOK, CallsSound, CallSound
<1>1. ASSUME NEW n \in Node, PopCommitTask(n) PROVE CallSound(m, u)'
  <2>1. UNCHANGED <<callSt, callStatus, abandoned>>
    BY <1>1 DEF PopCommitTask, callVars
  <2> QED
    BY <1>1, <2>1, PopStep DEF Merged
<1>2. ASSUME NEW n \in Node, AddRequest(n) PROVE CallSound(m, u)'
  BY <1>2 DEF AddRequest, Merged, Popped, callVars, logVars
<1>3. ASSUME NEW n \in Node, Invoke(n) PROVE CallSound(m, u)'
  <2>1. rpTask[n] \in Popped(n) /\ ~Merged(n, rpTask[n])
    BY <1>3, RpTaskFacts DEF Invoke
  <2> QED
    BY <1>3, <2>1 DEF Invoke, Merged, Popped, logVars
<1>4. ASSUME NEW n \in Node, PeerNotFound(n) PROVE CallSound(m, u)'
  BY <1>4 DEF PeerNotFound, Merged, Popped, callVars
<1>5. ASSUME NEW n \in Node, MergeReply(n) PROVE CallSound(m, u)'
  BY <1>5 DEF MergeReply, Merged, Popped, callVars, logVars
<1>6. ASSUME NEW n \in Node, \E x \in {"push", "pop", "clear"} : rpPc' = [rpPc EXCEPT ![n] = x],
             rpPc[n] \in {"find", "push", "failed", "clear"},
             UNCHANGED <<rpTask, popLog, abandoned, callSt, callStatus>>
      PROVE  CallSound(m, u)'
  <2>1. Popped(m)' = Popped(m) /\ rpTask'[m] = rpTask[m]
    BY <1>6 DEF Popped
  <2>2. Merged(m, u)' <=> Merged(m, u)
    BY <1>6, <2>1 DEF Merged
  <2>3. rpPc'[m] \in {"add", "invoke"} => rpPc[m] \in {"add", "invoke"}
    BY <1>6
  <2> QED
    BY <1>6, <2>1, <2>2, <2>3
<1>7. ASSUME NEW n \in Node, FindState(n) PROVE CallSound(m, u)'
  BY <1>6, <1>7 DEF FindState, callVars, logVars
<1>8. ASSUME NEW n \in Node, PushReady(n) PROVE CallSound(m, u)'
  BY <1>6, <1>8 DEF PushReady, callVars, logVars
<1>9. ASSUME NEW n \in Node, FailState(n) PROVE CallSound(m, u)'
  BY <1>6, <1>9 DEF FailState, callVars, logVars
<1>10. ASSUME NEW n \in Node, FailWorking(n) PROVE CallSound(m, u)'
  BY <1>6, <1>10 DEF FailWorking, callVars, logVars
<1>11. ASSUME NEW n \in Node, CallException(n) PROVE CallSound(m, u)'
  <2>1. rpTask[n] \in Popped(n) /\ rpTask[n] \in Task
    BY <1>11, RpTaskFacts DEF CallException
  <2>2. CASE UNCHANGED callSt
    BY <1>11, <2>1, <2>2 DEF CallException, Merged, Popped
  <2>3. CASE callSt' = [callSt EXCEPT ![n][rpTask[n]] = "dropped"]
    BY <1>11, <2>1, <2>3 DEF CallException, Merged, Popped
  <2> QED
    BY <1>11, <2>2, <2>3 DEF CallException
<1>12. ASSUME NEW n \in Node, NEW t \in Task, Handler(n, t) PROVE CallSound(m, u)'
  <2>1. UNCHANGED <<rpPc, rpTask, popLog, abandoned>>
    BY <1>12 DEF Handler, HandleUpdate, HandleFind, HandleLookup, HandlePush, rpVars, logVars
  <2>2. Popped(m)' = Popped(m) /\ (Merged(m, u)' <=> Merged(m, u))
    BY <2>1 DEF Popped, Merged
  <2>3. CASE HandleUpdate(n, t)
    BY <2>1, <2>2, <2>3 DEF HandleUpdate
  <2>4. CASE HandleFind(n, t)
    BY <2>1, <2>2, <2>4 DEF HandleFind
  <2>5. CASE HandleLookup(n, t)
    BY <2>1, <2>2, <2>5 DEF HandleLookup
  <2>6. CASE HandlePush(n, t)
    BY <2>1, <2>2, <2>6 DEF HandlePush
  <2> QED
    BY <1>12, <2>3, <2>4, <2>5, <2>6 DEF Handler
<1>13. CASE UNCHANGED <<rpPc, rpTask, popLog, abandoned, callSt, callStatus>>
  BY <1>13 DEF Popped, Merged
<1> HIDE <1>0 DEF TypeOK, CallsSound, CallSound
<1>14. ASSUME NEW n \in Node, ReadyProcessor(n) PROVE CallSound(m, u)'
  BY <1>1, <1>2, <1>3, <1>4, <1>5, <1>7, <1>8, <1>9, <1>10, <1>14 DEF ReadyProcessor
<1>15. ASSUME NEW n \in Node, NEW t \in Task, Downstream(n, t) PROVE CallSound(m, u)'
  BY <1>13, <1>15
     DEF Downstream, RemoveTaskState, RemoveRequest, RemoveWorkingTask, rpVars, callVars, logVars
<1> QED
  BY <1>11, <1>12, <1>13, <1>14, <1>15
     DEF Next, Register, Commit, TakePutTask, rpVars, callVars, logVars, vars

LEMMA BitsNext == IInv /\ [Next]_vars => BitsSound'
<1> SUFFICES ASSUME IInv, [Next]_vars, NEW m \in Node, NEW u \in Task
             PROVE  BitSound(m, u)'
  BY DEF BitsSound
<1>0. TypeOK /\ BitsSound /\ BitSound(m, u)
  BY DEF IInv, BitsSound
<1>a. /\ \A p \in Node : Received(p, u) => Received(p, u)'
      /\ Merged(m, u) => Merged(m, u)'
      /\ Peer(m) \in Node /\ (Merged(Peer(m), u) => Merged(Peer(m), u)')
  BY ReceivedStable, MergedStable, PeerFacts
<1> USE <1>0, <1>a DEF BitSound, BitsReceived
<1>1. ASSUME NEW n \in Node, PopCommitTask(n) PROVE BitSound(m, u)'
  BY <1>1, PopStep DEF PopCommitTask, callVars
<1>2. ASSUME NEW n \in Node, NEW x \in {"invoke", "wait", "pop", "clear", "failed"},
             rpPc' = [rpPc EXCEPT ![n] = x],
             UNCHANGED <<rpTask, rpState, taskState, callStatus>>
      PROVE  BitSound(m, u)'
  BY <1>2 DEF TypeOK
<1>3. ASSUME NEW n \in Node, MergeReply(n) PROVE BitSound(m, u)'
  <2> DEFINE t == rpTask[n]
             bits == {Role(n, t)} \cup callStatus[n][t]
  <2>1. t \in Task /\ callSt[n][t] = "done" /\ UNCHANGED <<rpTask, callStatus>>
    BY <1>3 DEF MergeReply, TypeOK, callVars
  <2>2. /\ taskState'[n][t] = taskState[n][t] \cup bits
        /\ \A p \in Node, v \in Task : p # n \/ v # t => taskState'[p][v] = taskState[p][v]
        /\ rpState'[n] = bits /\ rpPc'[n] = "find"
        /\ \A p \in Node : p # n => rpState'[p] = rpState[p] /\ rpPc'[p] = rpPc[p]
    BY <1>3, <2>1 DEF MergeReply, UpdateTaskState, TypeOK
  <2>3. Merged(n, t)'
    <3>1. t \in Popped(n) \ abandoned[n] /\ UNCHANGED <<popLog, abandoned>>
      BY <1>3, RpTaskFacts DEF MergeReply, logVars
    <3> QED
      BY <2>1, <2>2, <3>1 DEF Merged, Popped
  <2>4. m = n /\ u = t => BitsReceived(bits, u) /\ BitsReceived(taskState[m][u] \cup bits, u)
    <3>1. \A p \in Node : m = n /\ u = t /\ Role(p, u) = Role(n, t) => p = n
      BY RoleFacts, PeerFacts
    <3>2. m = n /\ u = t => Received(n, t)
      BY <2>1 DEF Received
    <3> QED
      BY <3>1, <3>2
  <2> QED
    BY <2>1, <2>2, <2>3, <2>4
<1>4. ASSUME NEW n \in Node, FindState(n) PROVE BitSound(m, u)'
  <2>1. UNCHANGED <<rpTask, taskState, callStatus>>
    BY <1>4 DEF FindState, tableVars, callVars
  <2>2. /\ rpPc[n] = "find" /\ rpPc'[n] \in {"push", "pop"}
        /\ rpPc'[n] = "push" => taskState[n][rpTask[n]] = Roles \/ rpState[n] = Roles
        /\ \A p \in Node : p # n => rpState'[p] = rpState[p] /\ rpPc'[p] = rpPc[p]
    BY <1>4 DEF FindState, FoundState, TypeOK
  <2> QED
    BY <2>1, <2>2
<1>5. ASSUME NEW n \in Node, PushReady(n) PROVE BitSound(m, u)'
  BY <1>2, <1>5 DEF PushReady, tableVars, callVars
<1>6. ASSUME NEW n \in Node, FailState(n) PROVE BitSound(m, u)'
  <2>1. UNCHANGED <<rpTask, rpState, callStatus>> /\ rpTask[n] \in Task
    BY <1>6 DEF FailState, callVars, TypeOK
  <2>2. taskState'[m][u] = taskState[m][u] \/ taskState'[m][u] = {}
    BY <1>6, <2>1 DEF FailState, TypeOK
  <2>3. rpPc'[n] = "clear" /\ \A p \in Node : p # n => rpPc'[p] = rpPc[p]
    BY <1>6 DEF FailState, TypeOK
  <2> QED
    BY <2>1, <2>2, <2>3
<1>7. ASSUME NEW n \in Node, NEW t \in Task, HandleUpdate(n, t) PROVE BitSound(m, u)'
  <2>1. UNCHANGED <<rpTask, rpPc, rpState>> /\ Peer(n) \in Node
    BY <1>7, PeerFacts DEF HandleUpdate, rpVars
  <2>2. /\ taskState'[Peer(n)][t] = taskState[Peer(n)][t] \cup {Role(n, t)}
        /\ \A p \in Node, v \in Task :
               p # Peer(n) \/ v # t => taskState'[p][v] = taskState[p][v]
        /\ callStatus'[n][t] = {Role(n, t)}
        /\ \A p \in Node, v \in Task : p # n \/ v # t => callStatus'[p][v] = callStatus[p][v]
    BY <1>7, <2>1 DEF HandleUpdate, UpdateTaskState, TypeOK
  <2>3. u = t => Received(n, u)'
    BY <1>7 DEF HandleUpdate, Received, TypeOK
  <2>4. \A p \in Node : u = t /\ Role(p, u) = Role(n, t) => p = n
    BY RoleFacts, PeerFacts
  <2>5. Role(Peer(n), t) # Role(n, t)
    BY RoleFacts
  <2> QED
    BY <2>1, <2>2, <2>3, <2>4, <2>5
<1>8. ASSUME NEW n \in Node, NEW t \in Task, HandleFind(n, t) PROVE BitSound(m, u)'
  <2>1. UNCHANGED <<rpTask, rpPc, rpState, taskState>>
    BY <1>8 DEF HandleFind, rpVars, tableVars
  <2>2. /\ callStatus'[n][t] \in {taskState[Peer(n)][t], callStatus[n][t]}
        /\ \A p \in Node, v \in Task : p # n \/ v # t => callStatus'[p][v] = callStatus[p][v]
    BY <1>8 DEF HandleFind, FoundState, TypeOK
  <2>3. BitSound(Peer(n), t) /\ (u = t /\ m = n /\ Merged(Peer(n), t) => Merged(Peer(n), t)')
    BY PeerFacts DEF BitsSound
  <2> QED
    BY <2>1, <2>2, <2>3
<1>9. ASSUME NEW n \in Node, NEW t \in Task, RemoveTaskState(n, t) PROVE BitSound(m, u)'
  <2>1. UNCHANGED <<rpTask, rpPc, rpState, callStatus>>
    BY <1>9 DEF RemoveTaskState, rpVars, callVars
  <2>2. taskState'[m][u] = taskState[m][u] \/ taskState'[m][u] = {}
    BY <1>9 DEF RemoveTaskState, TypeOK
  <2> QED
    BY <2>1, <2>2
<1>10. CASE UNCHANGED <<rpTask, rpPc, rpState, taskState, callStatus>>
  BY <1>10
<1> HIDE <1>0, <1>a DEF BitSound, BitsReceived
<1>11. ASSUME NEW n \in Node, ReadyProcessor(n) PROVE BitSound(m, u)'
  <2>1. CASE AddRequest(n) \/ Invoke(n)
    BY <1>2, <2>1 DEF AddRequest, Invoke, tableVars, callVars
  <2>2. CASE PeerNotFound(n) \/ FailWorking(n)
    BY <1>2, <2>2 DEF PeerNotFound, FailWorking, tableVars, callVars
  <2> QED
    BY <1>1, <1>3, <1>4, <1>5, <1>6, <1>11, <2>1, <2>2 DEF ReadyProcessor
<1>12. ASSUME NEW n \in Node, CallException(n) PROVE BitSound(m, u)'
  BY <1>2, <1>12 DEF CallException, tableVars
<1>13. ASSUME NEW n \in Node, NEW t \in Task, Handler(n, t) PROVE BitSound(m, u)'
  BY <1>7, <1>8, <1>10, <1>13
     DEF Handler, HandleLookup, HandlePush, rpVars, tableVars
<1>14. ASSUME NEW n \in Node, NEW t \in Task, Downstream(n, t) PROVE BitSound(m, u)'
  BY <1>9, <1>10, <1>14
     DEF Downstream, RemoveRequest, RemoveWorkingTask, rpVars, callVars
<1> QED
  BY <1>10, <1>11, <1>12, <1>13, <1>14
     DEF Next, Register, Commit, TakePutTask, rpVars, tableVars, callVars, vars

LEMMA PushedNext == IInv /\ [Next]_vars => PushedSound'
<1> SUFFICES ASSUME IInv, [Next]_vars, NEW m \in Node, NEW u \in pushed'[m]
             PROVE  Merged(m, u)' /\ BitsReceived(Roles, u)'
  BY DEF PushedSound
<1> DEFINE Both(n, t) == Merged(n, t) /\ BitsReceived(Roles, t)
<1>1. TypeOK /\ TypeOK'
  BY TypeNext DEF IInv
<1>2. u \in Task
  BY <1>1 DEF TypeOK
<1>3. Both(m, u) => Merged(m, u)' /\ BitsReceived(Roles, u)'
  BY <1>2, ReceivedStable, MergedStable DEF BitsReceived
<1>4. u \in pushed[m] => Both(m, u)
  BY DEF IInv, PushedSound
<1>5. ASSUME NEW n \in Node, PushReady(n) PROVE u \in pushed[m] \/ Both(m, u)
  <2>1. rpTask[n] \in Task /\ pushed' = [pushed EXCEPT ![n] = @ \cup {rpTask[n]}]
    BY <1>1, <1>5 DEF PushReady, PushPutTask, TypeOK
  <2>2. Merged(n, rpTask[n])
    BY <1>5, RpTaskFacts DEF PushReady
  <2>3. BitsReceived(Roles, rpTask[n])
    BY <1>5, <2>1 DEF PushReady, IInv, BitsSound, BitSound
  <2> QED
    BY <1>1, <2>1, <2>2, <2>3 DEF TypeOK
<1>6. ASSUME NEW n \in Node, NEW t \in Task, HandlePush(n, t)
      PROVE  u \in pushed[m] \/ Both(m, u)
  <2>1. Peer(n) \in Node /\ pushed' = [pushed EXCEPT ![Peer(n)] = @ \cup {t}]
    BY <1>6, PeerFacts DEF HandlePush, PushPutTask
  <2>2. callStatus[n][t] = Roles
    BY <1>6 DEF HandlePush, IInv, CallsSound, CallSound
  <2>3. Merged(Peer(n), t) /\ BitsReceived(Roles, t)
    BY <2>2, RoleFacts DEF IInv, BitsSound, BitSound
  <2> QED
    BY <1>1, <2>1, <2>3 DEF TypeOK
<1>7. UNCHANGED pushed => u \in pushed[m]
  OBVIOUS
<1> HIDE DEF Both
<1>8. ASSUME NEW n \in Node, ReadyProcessor(n) PROVE u \in pushed[m] \/ Both(m, u)
  BY <1>5, <1>7, <1>8
     DEF ReadyProcessor, PopCommitTask, AddRequest, PeerNotFound, Invoke, MergeReply,
         FindState, FailState, FailWorking
<1>9. ASSUME NEW n \in Node, NEW t \in Task, Handler(n, t) \/ Downstream(n, t)
      PROVE  u \in pushed[m] \/ Both(m, u)
  BY <1>6, <1>7, <1>9
     DEF Handler, HandleUpdate, HandleFind, HandleLookup, Downstream, RemoveTaskState,
         RemoveRequest, RemoveWorkingTask
<1>10. u \in pushed[m] \/ Both(m, u)
  BY <1>7, <1>8, <1>9 DEF Next, Register, Commit, CallException, TakePutTask, vars
<1> QED
  BY <1>3, <1>4, <1>10

LEMMA KeptNext == IInv /\ [Next]_vars => BitsKept'
<1> SUFFICES ASSUME IInv, [Next]_vars, NEW m \in Node, NEW u \in Task
             PROVE  BitKept(m, u)'
  BY DEF BitsKept
<1>0. /\ TypeOK /\ BitKept(m, u) /\ Peer(m) \in Node /\ Peer(m) # m
      /\ Peer(Peer(m)) = m
  BY PeerFacts DEF IInv, BitsKept
<1> USE <1>0 DEF BitKept
<1>1. ASSUME NEW n \in Node, PopCommitTask(n) PROVE BitKept(m, u)'
  <2>1. UNCHANGED <<callSt, abandoned, taken, taskState>>
    BY <1>1 DEF PopCommitTask, callVars
  <2>2. Merged(m, u)' => Merged(m, u)
    BY <1>1, <2>1, PopStep DEF Merged
  <2>3. Received(Peer(m), u)' <=> Received(Peer(m), u)
    BY <2>1 DEF Received
  <2>4. workingTasks' = [workingTasks EXCEPT ![n] = @ \cup {rpTask'[n]}]
    BY <1>1 DEF PopCommitTask, TypeOK
  <2>5. u \in Popped(m)' => u \in Popped(m) \/ (m = n /\ u = rpTask'[n])
    BY <1>1, PopStep
  <2>6. u \in Popped(m)' => u \in Popped(m) \/ u \in workingTasks'[m]
    BY <2>4, <2>5 DEF TypeOK
  <2>7. u \in workingTasks[m] => u \in workingTasks'[m]
    BY <2>4 DEF TypeOK
  <2> QED
    BY <2>1, <2>2, <2>3, <2>6, <2>7
<1>2. ASSUME NEW n \in Node, AddRequest(n) \/ Invoke(n) PROVE BitKept(m, u)'
  <2>1. /\ UNCHANGED <<popLog, abandoned, taken, taskState, workingTasks, rpTask>>
        /\ rpPc[n] \in {"add", "invoke"} /\ rpPc'[n] \in {"invoke", "wait"}
        /\ \A p \in Node : p # n => rpPc'[p] = rpPc[p]
    BY <1>2 DEF AddRequest, Invoke, tableVars, logVars, TypeOK
  <2>2. Merged(m, u)' => Merged(m, u)
    BY <2>1 DEF Merged, Popped
  <2>3. Received(Peer(m), u)' => Received(Peer(m), u)
    <3>1. \/ UNCHANGED callSt
          \/ callSt' = [callSt EXCEPT ![n][rpTask[n]] = "sent"]
      BY <1>2 DEF AddRequest, Invoke, callVars
    <3>2. CASE UNCHANGED callSt
      BY <3>2 DEF Received
    <3>3. CASE callSt' = [callSt EXCEPT ![n][rpTask[n]] = "sent"]
      BY <3>3 DEF Received, TypeOK
    <3> QED
      BY <3>1, <3>2, <3>3
  <2> QED
    BY <2>1, <2>2, <2>3 DEF Popped
<1>3. ASSUME NEW n \in Node, PeerNotFound(n) \/ CallException(n) PROVE BitKept(m, u)'
  <2>1. /\ UNCHANGED <<popLog, taken, taskState, workingTasks, rpTask>>
        /\ abandoned' = [abandoned EXCEPT ![n] = @ \cup {rpTask[n]}]
        /\ \A p \in Node : p # n => rpPc'[p] = rpPc[p]
    BY <1>3 DEF PeerNotFound, CallException, tableVars, TypeOK
  <2>2. u \notin abandoned'[m] => (Merged(m, u)' => Merged(m, u))
    BY <2>1 DEF Merged, Popped, TypeOK
  <2>3. Received(Peer(m), u)' => Received(Peer(m), u)
    <3>1. \/ UNCHANGED callSt
          \/ callSt' = [callSt EXCEPT ![n][rpTask[n]] = "dropped"]
      BY <1>3 DEF PeerNotFound, CallException, callVars
    <3>2. CASE UNCHANGED callSt
      BY <3>2 DEF Received
    <3>3. CASE callSt' = [callSt EXCEPT ![n][rpTask[n]] = "dropped"]
      BY <3>3 DEF Received, TypeOK
    <3> QED
      BY <3>1, <3>2, <3>3
  <2>4. u \notin abandoned'[m] => u \notin abandoned[m]
    BY <2>1 DEF TypeOK
  <2> QED
    BY <2>1, <2>2, <2>3, <2>4 DEF Popped
<1>4. ASSUME NEW n \in Node, MergeReply(n) PROVE BitKept(m, u)'
  <2>1. /\ UNCHANGED <<popLog, abandoned, taken, workingTasks, rpTask, callSt>>
        /\ \A p \in Node : p # n => rpPc'[p] = rpPc[p]
        /\ rpTask[n] \in Task
    BY <1>4 DEF MergeReply, callVars, logVars, TypeOK
  <2>2. /\ Role(n, rpTask[n]) \in taskState'[n][rpTask[n]]
        /\ taskState[m][u] \subseteq taskState'[m][u]
    BY <1>4, <2>1 DEF MergeReply, UpdateTaskState, TypeOK
  <2>3. Merged(m, u)' => Merged(m, u) \/ (m = n /\ u = rpTask[n])
    BY <2>1 DEF Merged, Popped
  <2> QED
    BY <2>1, <2>2, <2>3 DEF Popped, Received
<1>5. ASSUME NEW n \in Node, rpPc[n] \in {"find", "push", "failed", "clear"},
             \A p \in Node : p # n => rpPc'[p] = rpPc[p],
             UNCHANGED <<popLog, abandoned, taken, rpTask, callSt>>,
             u \notin abandoned[m] => UNCHANGED <<taskState[m][u], workingTasks[m] \cap {u}>>
      PROVE  BitKept(m, u)'
  BY <1>5 DEF Merged, Popped, Received
<1>6. ASSUME NEW n \in Node, NEW t \in Task, HandleUpdate(n, t) PROVE BitKept(m, u)'
  <2>1. /\ UNCHANGED <<popLog, abandoned, taken, workingTasks, rpTask, rpPc>>
        /\ Peer(n) \in Node /\ Peer(Peer(n)) = n
    BY <1>6, PeerFacts DEF HandleUpdate, rpVars, logVars
  <2>2. /\ taskState[m][u] \subseteq taskState'[m][u]
        /\ Role(n, t) \in taskState'[Peer(n)][t]
    BY <1>6, <2>1 DEF HandleUpdate, UpdateTaskState, TypeOK
  <2>3. Received(Peer(m), u)' => Received(Peer(m), u) \/ (Peer(m) = n /\ u = t)
    BY <1>6 DEF HandleUpdate, Received, TypeOK
  <2>4. Peer(m) = n => m = Peer(n)
    BY <2>1
  <2> QED
    BY <2>1, <2>2, <2>3, <2>4 DEF Merged, Popped
<1>7. ASSUME NEW n \in Node, NEW t \in Task,
             HandleFind(n, t) \/ HandleLookup(n, t) \/ HandlePush(n, t)
      PROVE  BitKept(m, u)'
  <2>1. UNCHANGED <<popLog, abandoned, taken, taskState, workingTasks, rpTask, rpPc>>
    BY <1>7 DEF HandleFind, HandleLookup, HandlePush, rpVars, tableVars, logVars
  <2>2. Received(Peer(m), u)' => Received(Peer(m), u)
    <3>1. \E x \in CallSt : callSt' = [callSt EXCEPT ![n][t] = x]
      BY <1>7 DEF HandleFind, HandleLookup, HandlePush, CallSt
    <3>2. Received(n, t)
      BY <1>7 DEF HandleFind, HandleLookup, HandlePush, Received
    <3> QED
      BY <3>1, <3>2 DEF Received, TypeOK
  <2> QED
    BY <2>1, <2>2 DEF Merged, Popped
<1>8. ASSUME NEW n \in Node, TakePutTask(n) PROVE BitKept(m, u)'
  <2>1. UNCHANGED <<popLog, abandoned, taskState, workingTasks, rpTask, rpPc, callSt>>
    BY <1>8 DEF TakePutTask, rpVars, tableVars, callVars
  <2>2. taken[m] \subseteq taken'[m]
    BY <1>8 DEF TakePutTask, TypeOK
  <2> QED
    BY <2>1, <2>2 DEF Merged, Popped, Received
<1>9. ASSUME NEW n \in Node, NEW t \in Task, t \in taken[n],
             UNCHANGED <<popLog, abandoned, taken, rpTask, rpPc, callSt>>,
             \A p \in Node, v \in Task : p # n \/ v # t =>
                 UNCHANGED <<taskState[p][v], workingTasks[p] \cap {v}>>
      PROVE  BitKept(m, u)'
  BY <1>9 DEF Merged, Popped, Received
<1>10. CASE UNCHANGED <<popLog, abandoned, taken, taskState, workingTasks, rpTask, rpPc, callSt>>
  BY <1>10 DEF Merged, Popped, Received
<1> HIDE DEF BitKept
<1>11. ASSUME NEW n \in Node, FindState(n) \/ PushReady(n) PROVE BitKept(m, u)'
  <2>1. /\ rpPc[n] \in {"find", "push"}
        /\ \A p \in Node : p # n => rpPc'[p] = rpPc[p]
        /\ UNCHANGED <<popLog, abandoned, taken, rpTask, callSt, taskState, workingTasks>>
    BY <1>11 DEF FindState, PushReady, tableVars, callVars, logVars, TypeOK
  <2> QED
    BY <1>5, <2>1
<1>12. ASSUME NEW n \in Node, FailState(n) \/ FailWorking(n) PROVE BitKept(m, u)'
  <2>1. /\ rpPc[n] \in {"failed", "clear"} /\ rpTask[n] \in abandoned[n]
        /\ \A p \in Node : p # n => rpPc'[p] = rpPc[p]
        /\ UNCHANGED <<popLog, abandoned, taken, rpTask, callSt>>
    BY <1>12, RpTaskFacts DEF FailState, FailWorking, callVars, logVars, TypeOK
  <2>2. m # n \/ u # rpTask[n] => UNCHANGED <<taskState[m][u], workingTasks[m] \cap {u}>>
    BY <1>12 DEF FailState, FailWorking, TypeOK
  <2> QED
    BY <1>5, <2>1, <2>2
<1>13. ASSUME NEW n \in Node, NEW t \in Task, Downstream(n, t) PROVE BitKept(m, u)'
  <2>1. t \in taken[n] /\ UNCHANGED <<popLog, abandoned, taken, rpTask, rpPc, callSt>>
    BY <1>13 DEF Downstream, RemoveTaskState, RemoveRequest, RemoveWorkingTask,
                 rpVars, callVars, logVars
  <2>2. \A p \in Node, v \in Task : p # n \/ v # t =>
            UNCHANGED <<taskState[p][v], workingTasks[p] \cap {v}>>
    BY <1>13 DEF Downstream, RemoveTaskState, RemoveRequest, RemoveWorkingTask, TypeOK
  <2> QED
    BY <1>9, <2>1, <2>2
<1> HIDE <1>0
<1>14. ASSUME NEW n \in Node, ReadyProcessor(n) PROVE BitKept(m, u)'
  BY <1>1, <1>2, <1>3, <1>4, <1>11, <1>12, <1>14 DEF ReadyProcessor
<1>15. ASSUME NEW n \in Node, NEW t \in Task, Handler(n, t) PROVE BitKept(m, u)'
  BY <1>6, <1>7, <1>15 DEF Handler
<1> QED
  BY <1>3, <1>8, <1>10, <1>13, <1>14, <1>15
     DEF Next, Register, Commit, rpVars, tableVars, callVars, logVars, vars

\* A task with both bits set that nobody pushed yet has a complete state and is
\* among the working tasks, so whoever looks will push it.
LEMMA FullState ==
    ASSUME IInv, NEW n \in Node, NEW t \in Task,
           Merged(n, t), Received(Peer(n), t), t \notin pushed[n]
    PROVE  taskState[n][t] = Roles /\ t \in workingTasks[n]
<1>1. t \notin taken[n]
  BY DEF IInv, HistorySound
<1>2. t \notin abandoned[n] /\ t \in Popped(n)
  BY DEF Merged
<1>3. /\ Role(n, t) \in taskState[n][t] /\ Role(Peer(n), t) \in taskState[n][t]
      /\ t \in workingTasks[n]
  BY <1>1, <1>2 DEF IInv, BitsKept, BitKept
<1>4. taskState[n][t] \subseteq Roles
  BY DEF IInv, TypeOK
<1>5. Roles = {Role(n, t), Role(Peer(n), t)}
  BY RoleFacts
<1> QED
  BY <1>3, <1>4, <1>5

LEMMA SomeoneNext == IInv /\ [Next]_vars => SomeonePushes'
<1> SUFFICES ASSUME IInv, [Next]_vars, NEW m \in Node, NEW u \in Task
             PROVE  StillLooked(m, u)'
  BY DEF SomeonePushes
<1>0. /\ TypeOK /\ StillLooked(m, u)
      /\ Peer(m) \in Node /\ Peer(m) # m /\ Peer(Peer(m)) = m
  BY PeerFacts DEF IInv, SomeonePushes
<1> USE <1>0 DEF StillLooked
<1>1. ASSUME NEW n \in Node, PopCommitTask(n) PROVE StillLooked(m, u)'
  <2>1. UNCHANGED <<callSt, abandoned, pushed>>
    BY <1>1 DEF PopCommitTask, callVars
  <2>2. Merged(m, u)' => Merged(m, u)
    BY <1>1, <2>1, PopStep DEF Merged
  <2>3. rpTask[m] = u /\ rpPc[m] \in {"find", "push"} =>
            rpTask'[m] = u /\ rpPc'[m] \in {"find", "push"}
    BY <1>1, PopStep
  <2> QED
    BY <2>1, <2>2, <2>3 DEF Received
<1>2. ASSUME NEW n \in Node, AddRequest(n) \/ Invoke(n) PROVE StillLooked(m, u)'
  <2>1. /\ UNCHANGED <<popLog, abandoned, pushed, rpTask>>
        /\ rpPc[n] \in {"add", "invoke"} /\ rpPc'[n] \in {"invoke", "wait"}
        /\ \A p \in Node : p # n => rpPc'[p] = rpPc[p]
    BY <1>2 DEF AddRequest, Invoke, logVars, TypeOK
  <2>2. Merged(m, u)' => Merged(m, u)
    BY <2>1 DEF Merged, Popped
  <2>3. CASE UNCHANGED callSt
    BY <2>1, <2>2, <2>3 DEF Received
  <2>4. CASE callSt' = [callSt EXCEPT ![n][rpTask[n]] = "sent"]
    BY <2>1, <2>2, <2>4 DEF Received, TypeOK
  <2> QED
    BY <1>2, <2>3, <2>4 DEF AddRequest, Invoke, callVars
<1>3. ASSUME NEW n \in Node, PeerNotFound(n) \/ CallException(n) PROVE StillLooked(m, u)'
  <2>1. /\ UNCHANGED <<popLog, pushed, rpTask>>
        /\ abandoned' = [abandoned EXCEPT ![n] = @ \cup {rpTask[n]}]
        /\ rpPc[n] \in {"invoke", "wait"}
        /\ \A p \in Node : p # n => rpPc'[p] = rpPc[p]
    BY <1>3 DEF PeerNotFound, CallException, TypeOK
  <2>2. Merged(m, u)' => Merged(m, u)
    BY <2>1 DEF Merged, Popped, TypeOK
  <2>3. CASE UNCHANGED callSt
    BY <2>1, <2>2, <2>3 DEF Received
  <2>4. CASE callSt[n][rpTask[n]] = "sent" /\ callSt' = [callSt EXCEPT ![n][rpTask[n]] = "dropped"]
    BY <2>1, <2>2, <2>4 DEF Received, TypeOK
  <2> QED
    BY <1>3, <2>3, <2>4 DEF PeerNotFound, CallException, callVars
<1>4. ASSUME NEW n \in Node, MergeReply(n) PROVE StillLooked(m, u)'
  <2>1. /\ UNCHANGED <<popLog, abandoned, pushed, rpTask, callSt>>
        /\ rpPc[n] = "wait" /\ rpPc'[n] = "find"
        /\ \A p \in Node : p # n => rpPc'[p] = rpPc[p]
    BY <1>4 DEF MergeReply, callVars, logVars, TypeOK
  <2>2. Merged(m, u)' => Merged(m, u) \/ (m = n /\ u = rpTask[n])
    BY <2>1 DEF Merged, Popped
  <2> QED
    BY <2>1, <2>2 DEF Received
<1>5. ASSUME NEW n \in Node, FindState(n) PROVE StillLooked(m, u)'
  <2>1. /\ UNCHANGED <<popLog, abandoned, pushed, rpTask, callSt>>
        /\ rpPc[n] = "find" /\ (taskState[n][rpTask[n]] = Roles => rpPc'[n] = "push")
        /\ \A p \in Node : p # n => rpPc'[p] = rpPc[p]
    BY <1>5 DEF FindState, FoundState, callVars, logVars, Roles, TypeOK
  <2>2. Merged(m, u)' => Merged(m, u)
    BY <2>1 DEF Merged, Popped
  <2>3. CASE m = n /\ u = rpTask[n]
    BY <2>1, <2>2, <2>3, FullState DEF Received
  <2> QED
    BY <2>1, <2>2, <2>3 DEF Received
<1>6. ASSUME NEW n \in Node, PushReady(n) PROVE StillLooked(m, u)'
  <2>1. /\ UNCHANGED <<popLog, abandoned, rpTask, callSt>>
        /\ pushed' = [pushed EXCEPT ![n] = @ \cup {rpTask[n]}]
        /\ rpPc[n] = "push" /\ rpPc'[n] = "pop"
        /\ \A p \in Node : p # n => rpPc'[p] = rpPc[p]
    BY <1>6 DEF PushReady, PushPutTask, callVars, logVars, TypeOK
  <2>2. Merged(m, u)' => Merged(m, u)
    BY <2>1 DEF Merged, Popped
  <2> QED
    BY <2>1, <2>2 DEF Received, TypeOK
<1>7. ASSUME NEW n \in Node, FailState(n) \/ FailWorking(n) PROVE StillLooked(m, u)'
  <2>1. /\ UNCHANGED <<popLog, abandoned, pushed, rpTask, callSt>>
        /\ rpPc[n] \in {"failed", "clear"} /\ rpPc'[n] \in {"clear", "pop"}
        /\ \A p \in Node : p # n => rpPc'[p] = rpPc[p]
    BY <1>7 DEF FailState, FailWorking, callVars, logVars, TypeOK
  <2>2. Merged(m, u)' => Merged(m, u)
    BY <2>1 DEF Merged, Popped
  <2> QED
    BY <2>1, <2>2 DEF Received
<1>8. ASSUME NEW n \in Node, NEW t \in Task, Handler(n, t) PROVE StillLooked(m, u)'
  <2>1. UNCHANGED <<popLog, abandoned, rpTask, rpPc>>
    BY <1>8 DEF Handler, HandleUpdate, HandleFind, HandleLookup, HandlePush, rpVars, logVars
  <2>2. Merged(m, u)' <=> Merged(m, u)
    BY <2>1 DEF Merged, Popped
  <2>3. ASSUME NEW x \in CallSt, callSt' = [callSt EXCEPT ![n][t] = x], UNCHANGED pushed,
               n = Peer(m) /\ t = u /\ Merged(m, u) /\ u \notin pushed[m] =>
                   x \in {"updated", "lookup", "push"}
        PROVE  StillLooked(m, u)'
    BY <2>1, <2>2, <2>3 DEF Received, TypeOK
  <2>4. CASE HandleUpdate(n, t)
    BY <2>3, <2>4 DEF HandleUpdate, CallSt
  <2>5. CASE HandleFind(n, t)
    <3>1. Received(n, t)
      BY <2>5 DEF HandleFind, Received
    <3>2. n = Peer(m) /\ t = u /\ Merged(m, u) /\ u \notin pushed[m] => taskState[m][u] = Roles
      BY <3>1, FullState
    <3>3. \/ callSt' = [callSt EXCEPT ![n][t] = "lookup"]
          \/ /\ callSt' = [callSt EXCEPT ![n][t] = "done"]
             /\ FoundState(Peer(n), t, callStatus[n][t]) # Roles
      BY <2>5 DEF HandleFind
    <3>4. taskState[Peer(n)][t] = Roles => FoundState(Peer(n), t, callStatus[n][t]) = Roles
      BY DEF FoundState, Roles
    <3>5. UNCHANGED pushed
      BY <2>5 DEF HandleFind
    <3> QED
      BY <2>3, <3>2, <3>3, <3>4, <3>5 DEF CallSt
  <2>6. CASE HandleLookup(n, t)
    <3>1. Received(n, t)
      BY <2>6 DEF HandleLookup, Received
    <3>2. n = Peer(m) /\ t = u /\ Merged(m, u) /\ u \notin pushed[m] => u \in workingTasks[m]
      BY <3>1, FullState
    <3>3. \/ callSt' = [callSt EXCEPT ![n][t] = "push"]
          \/ callSt' = [callSt EXCEPT ![n][t] = "done"] /\ t \notin workingTasks[Peer(n)]
      BY <2>6 DEF HandleLookup
    <3>4. UNCHANGED pushed
      BY <2>6 DEF HandleLookup
    <3> QED
      BY <2>3, <3>2, <3>3, <3>4 DEF CallSt
  <2>7. CASE HandlePush(n, t)
    <3>1. /\ callSt' = [callSt EXCEPT ![n][t] = "done"] /\ Peer(n) \in Node
          /\ callSt[n][t] = "push"
          /\ pushed' = [pushed EXCEPT ![Peer(n)] = @ \cup {t}]
      BY <2>7, PeerFacts DEF HandlePush, PushPutTask
    <3> QED
      BY <2>1, <2>2, <3>1 DEF Received, TypeOK
  <2> QED
    BY <1>8, <2>4, <2>5, <2>6, <2>7 DEF Handler
<1>9. CASE UNCHANGED <<popLog, abandoned, pushed, rpTask, rpPc, callSt>>
  BY <1>9 DEF Merged, Popped, Received
<1> HIDE <1>0 DEF StillLooked
<1>10. ASSUME NEW n \in Node, ReadyProcessor(n) PROVE StillLooked(m, u)'
  BY <1>1, <1>2, <1>3, <1>4, <1>5, <1>6, <1>7, <1>10 DEF ReadyProcessor
<1>11. ASSUME NEW n \in Node, NEW t \in Task, Downstream(n, t) PROVE StillLooked(m, u)'
  BY <1>9, <1>11
     DEF Downstream, RemoveTaskState, RemoveRequest, RemoveWorkingTask, rpVars, callVars, logVars
<1> QED
  BY <1>3, <1>8, <1>9, <1>10, <1>11
     DEF Next, Register, Commit, TakePutTask, rpVars, callVars, logVars, vars

LEMMA SlotsNext == IInv /\ [Next]_vars => SlotsSound'
<1> SUFFICES ASSUME IInv, [Next]_vars PROVE SlotsSound'
  OBVIOUS
<1>0. TypeOK /\ SlotsSound
  BY DEF IInv
<1> USE <1>0 DEF SlotsSound, InFlight
<1>1. ASSUME NEW n \in Node, PopCommitTask(n) PROVE SlotsSound'
  <2>1. UNCHANGED <<requestQueue, taken>>
    BY <1>1 DEF PopCommitTask
  <2> QED
    BY <1>1, <2>1, PopStep
<1>2. ASSUME NEW n \in Node, AddRequest(n) PROVE SlotsSound'
  <2>1. /\ requestQueue' = [requestQueue EXCEPT ![n] = @ \cup {rpTask[n]}]
        /\ Cardinality(requestQueue[n]) < ProcessorNum
        /\ UNCHANGED <<rpTask, popLog, taken>>
        /\ \A p \in Node : p # n => rpPc'[p] = rpPc[p]
    BY <1>2 DEF AddRequest, logVars, TypeOK
  <2>2. /\ IsFiniteSet(requestQueue[n] \cup {rpTask[n]})
        /\ Cardinality(requestQueue[n] \cup {rpTask[n]}) <= Cardinality(requestQueue[n]) + 1
        /\ Cardinality(requestQueue[n]) \in Nat
    <3> DEFINE S == requestQueue[n]
    <3>1. IsFiniteSet(S)
      OBVIOUS
    <3> HIDE DEF S, SlotsSound, InFlight
    <3>2. Cardinality(S) \in Nat
      BY <3>1, FS_CardinalityType
    <3>3. /\ IsFiniteSet(S \cup {rpTask[n]})
          /\ Cardinality(S \cup {rpTask[n]}) = Cardinality(S) \/
             Cardinality(S \cup {rpTask[n]}) = Cardinality(S) + 1
      BY <3>1, FS_AddElement
    <3> QED
      BY <3>2, <3>3 DEF S
  <2>3. Cardinality(requestQueue[n] \cup {rpTask[n]}) <= ProcessorNum
    <3>1. Cardinality(requestQueue[n] \cup {rpTask[n]}) \in Nat
      BY <2>2, FS_CardinalityType
    <3> QED
      BY <2>1, <2>2, <3>1
  <2> QED
    BY <2>1, <2>2, <2>3 DEF Popped, TypeOK
<1>3. ASSUME NEW n \in Node, rpPc[n] # "add", \A p \in Node : p # n => rpPc'[p] = rpPc[p],
             UNCHANGED <<requestQueue, rpTask, popLog, taken>>
      PROVE  SlotsSound'
  BY <1>3 DEF Popped
<1>4. ASSUME NEW n \in Node, TakePutTask(n) PROVE SlotsSound'
  BY <1>4 DEF TakePutTask, Popped, rpVars, tableVars, TypeOK
<1>5. ASSUME NEW n \in Node, NEW t \in Task, RemoveRequest(n, t) PROVE SlotsSound'
  <2>1. /\ requestQueue' = [requestQueue EXCEPT ![n] = @ \ {t}] /\ t \in taken[n]
        /\ UNCHANGED <<rpTask, rpPc, popLog, taken>>
    BY <1>5 DEF RemoveRequest, rpVars, logVars
  <2>2. /\ IsFiniteSet(requestQueue[n] \ {t})
        /\ Cardinality(requestQueue[n] \ {t}) <= Cardinality(requestQueue[n])
        /\ Cardinality(requestQueue[n] \ {t}) \in Nat /\ Cardinality(requestQueue[n]) \in Nat
    BY FS_Subset, FS_CardinalityType
  <2>3. Cardinality(requestQueue[n] \ {t}) <= ProcessorNum
    BY <2>2
  <2> QED
    BY <2>1, <2>2, <2>3 DEF Popped, TypeOK
<1>6. CASE UNCHANGED <<requestQueue, rpTask, rpPc, popLog, taken>>
  BY <1>6 DEF Popped
<1> HIDE DEF SlotsSound
<1>7. ASSUME NEW n \in Node, ReadyProcessor(n) PROVE SlotsSound'
  <2>1. CASE PeerNotFound(n) \/ Invoke(n)
    BY <1>3, <2>1 DEF PeerNotFound, Invoke, tableVars, logVars, TypeOK
  <2>2. CASE MergeReply(n) \/ FindState(n)
    BY <1>3, <2>2 DEF MergeReply, FindState, tableVars, logVars, TypeOK
  <2>3. CASE PushReady(n) \/ FailState(n) \/ FailWorking(n)
    BY <1>3, <2>3 DEF PushReady, FailState, FailWorking, tableVars, logVars, TypeOK
  <2> QED
    BY <1>1, <1>2, <1>7, <2>1, <2>2, <2>3 DEF ReadyProcessor
<1>8. ASSUME NEW n \in Node, CallException(n) PROVE SlotsSound'
  BY <1>3, <1>8 DEF CallException, tableVars, TypeOK
<1>9. ASSUME NEW n \in Node, NEW t \in Task, Handler(n, t) PROVE SlotsSound'
  BY <1>6, <1>9
     DEF Handler, HandleUpdate, HandleFind, HandleLookup, HandlePush, rpVars, tableVars, logVars
<1>10. ASSUME NEW n \in Node, NEW t \in Task, Downstream(n, t) PROVE SlotsSound'
  BY <1>5, <1>6, <1>10 DEF Downstream, RemoveTaskState, RemoveWorkingTask, rpVars, logVars
<1> QED
  BY <1>4, <1>6, <1>7, <1>8, <1>9, <1>10
     DEF Next, Register, Commit, rpVars, tableVars, logVars, vars

-----------------------------------------------------------------------------
(* The properties.                                                         *)

\* The invariant of the handshake: queues, calls, bits, pushes and slots agree.
THEOREM InductiveInvariant == Spec => []IInv
<1>1. IInv /\ [Next]_vars => IInv'
  <2> SUFFICES ASSUME IInv, [Next]_vars PROVE IInv'
    OBVIOUS
  <2>1. TypeOK'
    BY TypeNext DEF IInv
  <2> QED
    BY <2>1, QueuesNext, HistoryNext, CallsNext, BitsNext, PushedNext, KeptNext,
       SomeoneNext, SlotsNext DEF IInv
<1> QED
  BY <1>1, InitIInv, PTL DEF Spec

\* A node pushes a task only after both calls for it have been handled
\* (processReadyTask, invite2 and notify2 all look for 0x03).
THEOREM AgreementCorrect == Spec => []Agreement
<1>1. IInv => Agreement
  <2> SUFFICES ASSUME IInv, NEW n \in Node, NEW t \in pushed[n], NEW m \in Node
               PROVE  Received(m, t)
    BY DEF Agreement
  <2>1. t \in Task /\ BitsReceived(Roles, t)
    BY DEF IInv, TypeOK, PushedSound
  <2> QED
    BY <2>1, RoleFacts DEF BitsReceived
<1> QED
  BY <1>1, InductiveInvariant, PTL

\* Whoever looks last at the complete task state pushes the task.
THEOREM NoLostReadyCorrect == Spec => []NoLostReady
<1>1. IInv => NoLostReady
  BY DEF IInv, SomeonePushes, StillLooked, NoLostReady, Settled, Received
<1> QED
  BY <1>1, InductiveInvariant, PTL

\* A task given up is not pushed, before or after.
THEOREM AbandonedCorrect == Spec => []AbandonedNeverRuns
<1>1. IInv => AbandonedNeverRuns
  <2> SUFFICES ASSUME IInv PROVE AbandonedNeverRuns
    OBVIOUS
  <2>1. \A n \in Node : pushed[n] \cap abandoned[n] = {}
    BY DEF IInv, PushedSound, Merged
  <2> QED
    BY <2>1 DEF IInv, HistorySound, AbandonedNeverRuns
<1> QED
  BY <1>1, InductiveInvariant, PTL

\* The request slots bound the tasks in flight.
THEOREM SlotsCorrect == Spec => []InFlightBounded
<1>1. IInv => InFlightBounded
  <2> SUFFICES ASSUME IInv, NEW n \in Node
               PROVE  Cardinality(InFlight(n)) <= ProcessorNum
    BY DEF InFlightBounded
  <2>1. /\ IsFiniteSet(requestQueue[n]) /\ InFlight(n) \subseteq requestQueue[n]
        /\ Cardinality(requestQueue[n]) <= ProcessorNum
    BY DEF IInv, SlotsSound
  <2>2. /\ Cardinality(InFlight(n)) <= Cardinality(requestQueue[n])
        /\ Cardinality(InFlight(n)) \in Nat /\ Cardinality(requestQueue[n]) \in Nat
    BY <2>1, FS_Subset, FS_CardinalityType
  <2> QED
    BY <2>1, <2>2
<1> QED
  BY <1>1, InductiveInvariant, PTL

\* If both nodes popped u before t and none gave it up, both threads are through
\* with u.
LEMMA EarlierSettled ==
    ASSUME IInv, NEW n \in Node, NEW t \in Task, NEW u \in Task, Rendezvous!Precedes(u, t)
    PROVE  Settled(n, u)
<1>1. Rendezvous!IsBefore(popLog[n], u, t) /\ u \notin abandoned[n]
  BY DEF Rendezvous!Precedes
<1>2. PICK i \in DOMAIN popLog[n], j \in DOMAIN popLog[n] :
          i < j /\ popLog[n][i] = u /\ popLog[n][j] = t
  BY <1>1 DEF Rendezvous!IsBefore
<1>3. u \in Popped(n)
  BY <1>2 DEF Popped, Range
<1>4. /\ popLog[n] \in Seq(Task)
      /\ \A k, l \in DOMAIN popLog[n] : popLog[n][k] = popLog[n][l] => k = l
      /\ rpPc[n] # "pop" => /\ Len(popLog[n]) > 0
                            /\ rpTask[n] = popLog[n][Len(popLog[n])]
  BY DEF IInv, TypeOK, QueuesSound
<1>5. rpPc[n] # "pop" => rpTask[n] # u
  <2> SUFFICES ASSUME rpPc[n] # "pop", rpTask[n] = u PROVE FALSE
    OBVIOUS
  <2>1. Len(popLog[n]) \in DOMAIN popLog[n] /\ DOMAIN popLog[n] = 1 .. Len(popLog[n])
    BY <1>4
  <2>2. i = Len(popLog[n])
    BY <1>2, <1>4, <2>1
  <2> QED
    BY <1>2, <2>1, <2>2, <1>4
<1> QED
  BY <1>1, <1>3, <1>5 DEF Settled, Merged

\* Then both calls for u have been handled, and each node has pushed u.
LEMMA EarlierPushed ==
    ASSUME IInv, NEW n \in Node, NEW t \in Task, NEW u \in Task, Rendezvous!Precedes(u, t)
    PROVE  u \in pushed[n]
<1>1. Settled(n, u) /\ Settled(Peer(n), u) /\ Peer(n) \in Node
  BY EarlierSettled, PeerFacts
<1>2. callSt[Peer(n)][u] = "done"
  BY <1>1 DEF Settled, IInv, CallsSound, CallSound
<1> QED
  BY <1>1, <1>2 DEF IInv, SomeonePushes, StillLooked, Settled, Received

\* Thread and handlers push the tasks in the order both nodes popped them.
THEOREM NoOvertakingCorrect == Spec => []NoOvertaking
<1>1. IInv => NoOvertaking
  <2> SUFFICES ASSUME IInv, NEW n \in Node, NEW t \in pushed[n], NEW u \in Task,
                      Rendezvous!Precedes(u, t)
               PROVE  u \in pushed[n]
    BY DEF NoOvertaking
  <2>1. t \in Task
    BY DEF IInv, TypeOK
  <2> QED
    BY <2>1, EarlierPushed
<1> QED
  BY <1>1, InductiveInvariant, PTL

-----------------------------------------------------------------------------
(* No deadlock.                                                            *)

\* What holds a waiting thread: a slot belongs to a popped task other than the one
\* that waits for it, a call that is waited for was made and not dropped, and a
\* pushed task is in the put queue or was taken.
WaitsSound ==
    \A n \in Node :
        /\ requestQueue[n] \subseteq Popped(n)
        /\ rpPc[n] = "add" => rpTask[n] \notin requestQueue[n]
        /\ rpPc[n] = "wait" => callSt[n][rpTask[n]] \notin {"none", "dropped"}
        /\ pushed[n] \subseteq taken[n] \cup Range(putQueue[n])

LEMMA WaitsNext == IInv /\ WaitsSound /\ [Next]_vars => WaitsSound'
<1> SUFFICES ASSUME IInv, WaitsSound, [Next]_vars PROVE WaitsSound'
  OBVIOUS
<1>0. TypeOK
  BY DEF IInv
<1> USE DEF WaitsSound
<1>1. ASSUME NEW n \in Node, PopCommitTask(n) PROVE WaitsSound'
  <2>1. UNCHANGED <<requestQueue, callSt, pushed, taken, putQueue>>
    BY <1>1 DEF PopCommitTask, callVars
  <2> QED
    BY <1>1, <2>1, PopStep
<1>2. ASSUME NEW n \in Node, AddRequest(n) PROVE WaitsSound'
  <2>1. /\ requestQueue' = [requestQueue EXCEPT ![n] = @ \cup {rpTask[n]}]
        /\ rpPc' = [rpPc EXCEPT ![n] = "invoke"]
        /\ UNCHANGED <<rpTask, popLog, callSt, pushed, taken, putQueue>>
    BY <1>2 DEF AddRequest, logVars, callVars
  <2>2. rpTask[n] \in Popped(n)
    BY <1>2, RpTaskFacts DEF AddRequest
  <2> QED
    BY <1>0, <2>1, <2>2 DEF TypeOK, Popped
<1>3. ASSUME NEW n \in Node, Invoke(n) PROVE WaitsSound'
  <2>1. /\ callSt' = [callSt EXCEPT ![n][rpTask[n]] = "sent"]
        /\ rpPc' = [rpPc EXCEPT ![n] = "wait"]
        /\ UNCHANGED <<requestQueue, rpTask, popLog, pushed, taken, putQueue>>
    BY <1>3 DEF Invoke, logVars, tableVars
  <2> QED
    BY <1>0, <2>1 DEF TypeOK, Popped
<1>4. ASSUME NEW n \in Node, NEW x \in RpPc \ {"add", "wait"},
             rpPc' = [rpPc EXCEPT ![n] = x],
             \A t \in Task \ {rpTask[n]} : callSt'[n][t] = callSt[n][t],
             \A p \in Node \ {n} : callSt'[p] = callSt[p],
             UNCHANGED <<requestQueue, rpTask, popLog, pushed, taken, putQueue>>
      PROVE  WaitsSound'
  BY <1>0, <1>4 DEF TypeOK, Popped
<1>5. ASSUME NEW n \in Node, PushReady(n) PROVE WaitsSound'
  <2>1. /\ putQueue' = [putQueue EXCEPT ![n] = Append(@, rpTask[n])]
        /\ pushed' = [pushed EXCEPT ![n] = @ \cup {rpTask[n]}]
        /\ rpPc' = [rpPc EXCEPT ![n] = "pop"]
        /\ UNCHANGED <<requestQueue, rpTask, popLog, callSt, taken>>
    BY <1>5 DEF PushReady, PushPutTask, tableVars, callVars, logVars
  <2>2. /\ Range(Append(putQueue[n], rpTask[n])) = Range(putQueue[n]) \cup {rpTask[n]}
    BY <1>0, RangeAppend DEF TypeOK
  <2> QED
    BY <1>0, <2>1, <2>2 DEF TypeOK, Popped
<1>6. ASSUME NEW n \in Node, NEW t \in Task, HandlePush(n, t) PROVE WaitsSound'
  <2>1. /\ putQueue' = [putQueue EXCEPT ![Peer(n)] = Append(@, t)]
        /\ pushed' = [pushed EXCEPT ![Peer(n)] = @ \cup {t}]
        /\ callSt' = [callSt EXCEPT ![n][t] = "done"]
        /\ UNCHANGED <<requestQueue, rpTask, rpPc, popLog, taken>>
    BY <1>6 DEF HandlePush, PushPutTask, tableVars, rpVars, logVars
  <2>2. Range(Append(putQueue[Peer(n)], t)) = Range(putQueue[Peer(n)]) \cup {t}
    BY <1>0, RangeAppend, PeerFacts DEF TypeOK
  <2> QED
    BY <1>0, <2>1, <2>2, PeerFacts DEF TypeOK, Popped
<1>7. ASSUME NEW n \in Node, NEW t \in Task,
             HandleUpdate(n, t) \/ HandleFind(n, t) \/ HandleLookup(n, t)
      PROVE  WaitsSound'
  <2>1. \E x \in CallSt \ {"none", "dropped"} : callSt' = [callSt EXCEPT ![n][t] = x]
    BY <1>7 DEF HandleUpdate, HandleFind, HandleLookup, CallSt
  <2>2. UNCHANGED <<requestQueue, rpTask, rpPc, popLog, pushed, taken, putQueue>>
    BY <1>7 DEF HandleUpdate, HandleFind, HandleLookup, tableVars, rpVars, logVars
  <2> QED
    BY <1>0, <2>1, <2>2 DEF TypeOK, Popped
<1>8. ASSUME NEW n \in Node, TakePutTask(n) PROVE WaitsSound'
  <2>1. /\ putQueue' = [putQueue EXCEPT ![n] = Tail(@)]
        /\ taken' = [taken EXCEPT ![n] = @ \cup {Head(putQueue[n])}]
        /\ putQueue[n] # << >>
        /\ UNCHANGED <<requestQueue, rpTask, rpPc, popLog, callSt, pushed>>
    BY <1>8 DEF TakePutTask, tableVars, callVars, rpVars
  <2>2. Range(putQueue[n]) = {Head(putQueue[n])} \cup Range(Tail(putQueue[n]))
    BY <1>0, <2>1, RangeHeadTail DEF TypeOK
  <2> QED
    BY <1>0, <2>1, <2>2 DEF TypeOK, Popped
<1>9. ASSUME NEW n \in Node, NEW t \in Task, RemoveRequest(n, t) PROVE WaitsSound'
  BY <1>0, <1>9 DEF RemoveRequest, TypeOK, Popped, rpVars, callVars, logVars
<1>10. CASE UNCHANGED <<requestQueue, rpTask, rpPc, popLog, callSt, pushed, taken, putQueue>>
  BY <1>10 DEF Popped
<1> HIDE DEF WaitsSound
<1>11. ASSUME NEW n \in Node, ReadyProcessor(n) PROVE WaitsSound'
  <2>1. CASE PeerNotFound(n)
    BY <1>4, <2>1 DEF PeerNotFound, RpPc, tableVars, callVars
  <2>2. CASE MergeReply(n)
    BY <1>4, <2>2 DEF MergeReply, RpPc, callVars, logVars
  <2>3. CASE FindState(n)
    <3>1. \E x \in RpPc \ {"add", "wait"} : rpPc' = [rpPc EXCEPT ![n] = x]
      BY <2>3 DEF FindState, RpPc
    <3> QED
      BY <1>4, <2>3, <3>1 DEF FindState, tableVars, callVars, logVars
  <2>4. CASE FailState(n) \/ FailWorking(n)
    BY <1>4, <2>4 DEF FailState, FailWorking, RpPc, callVars, logVars
  <2> QED
    BY <1>1, <1>2, <1>3, <1>5, <1>11, <2>1, <2>2, <2>3, <2>4 DEF ReadyProcessor
<1>12. ASSUME NEW n \in Node, CallException(n) PROVE WaitsSound'
  <2>1. /\ \A t \in Task \ {rpTask[n]} : callSt'[n][t] = callSt[n][t]
        /\ \A p \in Node \ {n} : callSt'[p] = callSt[p]
    BY <1>0, <1>12 DEF CallException, TypeOK
  <2> QED
    BY <1>4, <1>12, <2>1 DEF CallException, RpPc, tableVars
<1>13. ASSUME NEW n \in Node, NEW t \in Task, Handler(n, t) PROVE WaitsSound'
  BY <1>6, <1>7, <1>13 DEF Handler
<1>14. ASSUME NEW n \in Node, NEW t \in Task, Downstream(n, t) PROVE WaitsSound'
  BY <1>9, <1>10, <1>14
     DEF Downstream, RemoveTaskState, RemoveWorkingTask, rpVars, callVars, logVars
<1> QED
  BY <1>8, <1>10, <1>11, <1>12, <1>13, <1>14
     DEF Next, Register, Commit, rpVars, tableVars, callVars, logVars, vars

LEMMA WaitsInductive == Spec => []WaitsSound
<1>1. Init => WaitsSound
  BY DEF Init, WaitsSound
<1> QED
  BY <1>1, WaitsNext, InductiveInvariant, PTL DEF Spec

\* The places of a concatenation.
LEMMA ConcatPlaces ==
    ASSUME NEW S, NEW s \in Seq(S), NEW r \in Seq(S)
    PROVE  /\ s \o r \in Seq(S) /\ Len(s \o r) \in Nat
           /\ \A i \in DOMAIN s : i \in 1 .. Len(s \o r) /\ (s \o r)[i] = s[i]
           /\ \A i \in DOMAIN (s \o r) : i \notin DOMAIN s =>
                  i - Len(s) \in DOMAIN r /\ (s \o r)[i] = r[i - Len(s)]
<1>1. Len(s \o r) = Len(s) + Len(r)
  OBVIOUS
<1>2. \A i \in 1 .. Len(s) + Len(r) :
          (s \o r)[i] = IF i <= Len(s) THEN s[i] ELSE r[i - Len(s)]
  OBVIOUS
<1> QED
  BY <1>1, <1>2

\* The committed tasks are the popped ones and then the queued ones, each once.
LEMMA CommittedPlaces ==
    ASSUME IInv, NEW n \in Node
    PROVE  /\ Committed(n) \in Seq(Task)
           /\ popLog[n] \in Seq(Task)
           /\ \A i \in DOMAIN popLog[n] :
                  i \in DOMAIN Committed(n) /\ Committed(n)[i] = popLog[n][i]
           /\ \A i \in DOMAIN Committed(n) : i \notin DOMAIN popLog[n] =>
                  i > Len(popLog[n]) /\ commitQueue[n] # << >>
           /\ \A i, j \in DOMAIN Committed(n) : Committed(n)[i] = Committed(n)[j] => i = j
<1> DEFINE p == popLog[n]
           c == commitQueue[n]
<1>1. /\ p \in Seq(Task) /\ c \in Seq(Task)
      /\ \A i, j \in DOMAIN p : p[i] = p[j] => i = j
      /\ \A i, j \in DOMAIN c : c[i] = c[j] => i = j
      /\ \A i \in DOMAIN c, j \in DOMAIN p : c[i] # p[j]
  BY DEF IInv, TypeOK, QueuesSound
<1>2. Committed(n) = p \o c
  BY DEF Committed
<1> HIDE DEF p, c
<1>3. /\ p \o c \in Seq(Task)
      /\ \A i \in DOMAIN p : i \in DOMAIN (p \o c) /\ (p \o c)[i] = p[i]
      /\ \A i \in DOMAIN (p \o c) : i \notin DOMAIN p =>
             i - Len(p) \in DOMAIN c /\ (p \o c)[i] = c[i - Len(p)]
  BY <1>1, ConcatPlaces
<1>4. \A i \in DOMAIN (p \o c) : i \notin DOMAIN p => i > Len(p) /\ c # << >>
  BY <1>1, <1>3
<1>5. \A i, j \in DOMAIN (p \o c) : (p \o c)[i] = (p \o c)[j] => i = j
  <2> SUFFICES ASSUME NEW i \in DOMAIN (p \o c), NEW j \in DOMAIN (p \o c),
                      (p \o c)[i] = (p \o c)[j]
               PROVE  i = j
    OBVIOUS
  <2>1. i \in Nat /\ j \in Nat /\ Len(p) \in Nat
    BY <1>1, <1>3
  <2>2. CASE i \in DOMAIN p
    BY <1>1, <1>3, <2>2
  <2>3. CASE i \notin DOMAIN p
    <3>1. j \notin DOMAIN p
      BY <1>1, <1>3, <2>3
    <3>2. i - Len(p) = j - Len(p)
      BY <1>1, <1>3, <2>3, <3>1
    <3> QED
      BY <2>1, <3>2
  <2> QED
    BY <2>2, <2>3
<1> QED
  BY <1>1, <1>2, <1>3, <1>4, <1>5 DEF p, c

\* Nodes that got their tasks in the same order have a task at the same place.
LEMMA SamePlaces ==
    ASSUME IInv, SameOrder, NEW m \in Node, NEW n \in Node
    PROVE  /\ \A i \in DOMAIN Committed(m) \cap DOMAIN Committed(n) :
                  Committed(m)[i] = Committed(n)[i]
           /\ \A i \in DOMAIN Committed(m), j \in DOMAIN Committed(n) :
                  Committed(m)[i] = Committed(n)[j] => i = j
<1> DEFINE a == Committed(m)
           b == Committed(n)
<1>1. /\ a \in Seq(Task) /\ b \in Seq(Task)
      /\ \A i, j \in DOMAIN a : a[i] = a[j] => i = j
      /\ \A i, j \in DOMAIN b : b[i] = b[j] => i = j
  BY CommittedPlaces
<1>2. /\ Len(a) <= Len(b) => SubSeq(b, 1, Len(a)) = a
      /\ Len(b) <= Len(a) => SubSeq(a, 1, Len(b)) = b
  BY DEF SameOrder
<1> HIDE DEF a, b
<1>3. CASE Len(a) <= Len(b)
  <2>1. \A i \in DOMAIN a : i \in DOMAIN b /\ a[i] = b[i]
    BY <1>1, <1>2, <1>3
  <2> QED
    BY <1>1, <2>1 DEF a, b
<1>4. CASE Len(b) <= Len(a)
  <2>1. \A i \in DOMAIN b : i \in DOMAIN a /\ a[i] = b[i]
    BY <1>1, <1>2, <1>4
  <2> QED
    BY <1>1, <2>1 DEF a, b
<1>5. Len(a) <= Len(b) \/ Len(b) <= Len(a)
  BY <1>1
<1> QED
  BY <1>3, <1>4, <1>5

\* There are finitely many tasks given up: they were popped.
LEMMA GivenUpFinite == ASSUME IInv PROVE IsFiniteSet(GivenUp)
<1>1. PICK a \in Node, b \in Node : Node = {a, b}
  BY NodeAssumption
<1>2. ASSUME NEW n \in Node PROVE IsFiniteSet(abandoned[n])
  <2>1. popLog[n] \in Seq(Task) /\ abandoned[n] \subseteq Range(popLog[n])
    BY DEF IInv, TypeOK, QueuesSound, Popped
  <2> DEFINE p == popLog[n]
  <2>2. Len(p) \in Nat /\ DOMAIN p = 1 .. Len(p)
    BY <2>1
  <2>3. IsFiniteSet(1 .. Len(p))
    BY <2>2, FS_Interval
  <2>4. p \in Surjection(1 .. Len(p), Range(p))
    BY <2>1, <2>2 DEF Range, Surjection
  <2>5. IsFiniteSet(Range(p))
    BY <2>3, <2>4, FS_Surjection
  <2> QED
    BY <2>1, <2>5, FS_Subset
<1>3. GivenUp = abandoned[a] \cup abandoned[b]
  BY <1>1 DEF GivenUp
<1> QED
  BY <1>2, <1>3, FS_Union

\* A waiting thread that has not merged the reply for its i-th task, which nobody gave
\* up, waits for a slot with that task or an earlier one.  As fewer tasks are given up
\* than there are slots, a task it popped before, and nobody gave up, holds a slot.
LEMMA WaitsForSlot ==
    ASSUME IInv, WaitsSound, registered = Node, Cardinality(GivenUp) < ProcessorNum,
           NEW n \in Node, ThreadWaits(n), Unserved(n),
           NEW i \in DOMAIN Committed(n), Committed(n)[i] \notin GivenUp,
           ~Merged(n, Committed(n)[i])
    PROVE  /\ rpPc[n] = "add"
           /\ \E k \in DOMAIN popLog[n] :
                  /\ k < i
                  /\ popLog[n][k] \in requestQueue[n] \ GivenUp
                  /\ \A j \in 1 .. k : popLog[n][j] \in GivenUp \/ Merged(n, popLog[n][j])
<1> DEFINE L == Len(popLog[n])
           x == Committed(n)[i]
<1>0. TypeOK /\ QueuesSound /\ abandoned[n] \subseteq GivenUp
  BY DEF IInv, GivenUp
<1>1. /\ popLog[n] \in Seq(Task) /\ L \in Nat /\ DOMAIN popLog[n] = 1 .. L
      /\ i \in Nat \ {0} /\ x \in Task
      /\ i \in DOMAIN popLog[n] => x = popLog[n][i]
      /\ i \notin DOMAIN popLog[n] => i > L /\ commitQueue[n] # << >>
  BY CommittedPlaces
<1>3. rpPc[n] # "wait"
  <2>1. rpTask[n] \in Task /\ callSt[n][rpTask[n]] \in CallSt
    BY <1>0 DEF TypeOK
  <2> QED
    BY <2>1 DEF ThreadWaits, Unserved, WaitsSound, CallSt
<1>4. rpPc[n] = "add" /\ Cardinality(requestQueue[n]) >= ProcessorNum
  <2>1. ASSUME rpPc[n] = "pop" PROVE FALSE
    <3>1. commitQueue[n] = << >>
      BY <2>1 DEF ThreadWaits
    <3>2. x = popLog[n][i] /\ i \in DOMAIN popLog[n]
      BY <1>1, <3>1
    <3>3. x \in Popped(n)
      BY <3>2 DEF Popped, Range
    <3> QED
      BY <1>0, <2>1, <3>3 DEF Merged
  <2> QED
    BY <1>3, <2>1 DEF ThreadWaits
<1>5. L > 0 /\ rpTask[n] = popLog[n][L]
  BY <1>0, <1>4 DEF QueuesSound
<1>6. \A j \in 1 .. L - 1 : popLog[n][j] \in GivenUp \/ Merged(n, popLog[n][j])
  <2> SUFFICES ASSUME NEW j \in 1 .. L - 1, popLog[n][j] \notin GivenUp
               PROVE  Merged(n, popLog[n][j])
    OBVIOUS
  <2>1. popLog[n][j] # popLog[n][L] /\ j \in DOMAIN popLog[n]
    BY <1>0, <1>1, <1>5 DEF QueuesSound
  <2>2. popLog[n][j] \in Popped(n)
    BY <2>1 DEF Popped, Range
  <2> QED
    BY <1>0, <1>5, <2>1, <2>2 DEF Merged
<1>7. i >= L
  <2>1. ASSUME i < L PROVE FALSE
    <3>1. i \in 1 .. L - 1 /\ x = popLog[n][i]
      BY <1>1, <2>1
    <3> QED
      BY <1>6, <3>1
  <2> QED
    BY <1>1, <2>1
<1>8. PICK u \in requestQueue[n] : u \notin GivenUp
  <2> SUFFICES ASSUME requestQueue[n] \subseteq GivenUp PROVE FALSE
    OBVIOUS
  <2>1. /\ Cardinality(requestQueue[n]) <= Cardinality(GivenUp)
        /\ Cardinality(requestQueue[n]) \in Nat /\ Cardinality(GivenUp) \in Nat
    BY GivenUpFinite, FS_Subset, FS_CardinalityType
  <2> QED
    BY <1>4, <2>1, BoundsAssumption
<1>9. u \in Popped(n) /\ u # rpTask[n]
  BY <1>4, <1>8 DEF WaitsSound
<1>10. PICK k \in DOMAIN popLog[n] : popLog[n][k] = u
  BY <1>9 DEF Popped, Range
<1>11. k \in 1 .. L - 1
  BY <1>1, <1>5, <1>9, <1>10
<1> QED
  BY <1>1, <1>4, <1>6, <1>7, <1>8, <1>10, <1>11

\* When the threads wait and the servers are idle, a task both nodes have merged the
\* reply for is pushed.
LEMMA MergedPushed ==
    ASSUME IInv, NEW n \in Node, NEW t \in Task, ThreadWaits(n), Unserved(Peer(n)),
           Merged(n, t), Merged(Peer(n), t)
    PROVE  t \in pushed[n]
<1>1. Peer(n) \in Node
  BY PeerFacts
<1>2. Received(Peer(n), t)
  BY <1>1 DEF IInv, CallsSound, CallSound, Received
<1>3. callSt[Peer(n)][t] \notin {"updated", "lookup", "push"}
  BY DEF Unserved
<1>4. rpPc[n] \notin {"find", "push"}
  BY DEF ThreadWaits
<1> QED
  BY <1>1, <1>2, <1>3, <1>4 DEF IInv, SomeonePushes, StillLooked

\* When all is quiet, that slot is held because the other node has not merged its reply.
LEMMA SlotHolder ==
    ASSUME IInv, WaitsSound, Quiet, registered = Node,
           Cardinality(GivenUp) < ProcessorNum,
           NEW n \in Node, NEW i \in DOMAIN Committed(n), Committed(n)[i] \notin GivenUp,
           ~Merged(n, Committed(n)[i])
    PROVE  \E k \in DOMAIN popLog[n] :
               /\ k < i
               /\ popLog[n][k] \notin GivenUp /\ ~Merged(Peer(n), popLog[n][k])
               /\ \A j \in 1 .. k : popLog[n][j] \in GivenUp \/ Merged(n, popLog[n][j])
<1>1. ThreadWaits(n) /\ Unserved(n) /\ Unserved(Peer(n))
  BY PeerFacts DEF Quiet
<1>2. PICK k \in DOMAIN popLog[n] :
          /\ k < i
          /\ popLog[n][k] \in requestQueue[n] \ GivenUp
          /\ \A j \in 1 .. k : popLog[n][j] \in GivenUp \/ Merged(n, popLog[n][j])
  BY <1>1, WaitsForSlot
<1>3. popLog[n] \in Seq(Task)
  BY DEF IInv, TypeOK
<1>4. k \in 1 .. k /\ popLog[n][k] \in Task
  BY <1>3
<1>5. popLog[n][k] \notin pushed[n]
  BY <1>2 DEF WaitsSound, Quiet, Range
<1>6. ~Merged(Peer(n), popLog[n][k])
  BY <1>1, <1>2, <1>4, <1>5, MergedPushed
<1> QED
  BY <1>2, <1>6

\* Then both nodes have merged the reply for every such task committed at both: if not, a
\* slot at either node would be held by a task the other one waits with, and of the
\* two that one was popped earlier at both.
LEMMA QuietMerged ==
    ASSUME IInv, WaitsSound, Quiet, SameOrder, registered = Node,
           Cardinality(GivenUp) < ProcessorNum,
           NEW n \in Node, NEW t \in Task \ GivenUp, \A m \in Node : t \in Range(Committed(m))
    PROVE  Merged(n, t)
<1> SUFFICES ASSUME ~Merged(n, t) PROVE FALSE
  OBVIOUS
<1> DEFINE m == Peer(n)
<1>1. m \in Node /\ Peer(m) = n
  BY PeerFacts
<1>2. PICK i \in DOMAIN Committed(n) : Committed(n)[i] = t
  BY DEF Range
<1>3. PICK k \in DOMAIN popLog[n] :
          /\ k < i
          /\ popLog[n][k] \notin GivenUp /\ ~Merged(m, popLog[n][k])
          /\ \A j \in 1 .. k : popLog[n][j] \in GivenUp \/ Merged(n, popLog[n][j])
  BY <1>2, SlotHolder
<1>4. i \in DOMAIN Committed(m) /\ Committed(m) \in Seq(Task)
  <2>1. PICK j \in DOMAIN Committed(m) : Committed(m)[j] = t
    BY <1>1 DEF Range
  <2> QED
    BY <1>1, <1>2, <2>1, SamePlaces, CommittedPlaces
<1>5. /\ k \in DOMAIN Committed(n) /\ Committed(n)[k] = popLog[n][k]
      /\ popLog[n] \in Seq(Task)
  BY CommittedPlaces
<1>6. k \in DOMAIN Committed(m) /\ Committed(m)[k] = popLog[n][k]
  <2>1. k \in DOMAIN Committed(m)
    BY <1>3, <1>4, <1>5
  <2> QED
    BY <1>1, <1>5, <2>1, SamePlaces
<1>7. PICK l \in DOMAIN popLog[m] :
          l < k /\ popLog[m][l] \notin GivenUp /\ ~Merged(n, popLog[m][l])
  BY <1>1, <1>3, <1>6, SlotHolder
<1>8. l \in 1 .. k /\ l \in DOMAIN popLog[n] /\ popLog[m][l] = popLog[n][l]
  <2>1. /\ l \in DOMAIN Committed(m) /\ Committed(m)[l] = popLog[m][l]
        /\ popLog[m] \in Seq(Task)
    BY <1>1, CommittedPlaces
  <2>2. l \in 1 .. k /\ l \in DOMAIN popLog[n]
    BY <1>5, <1>7, <2>1
  <2>3. l \in DOMAIN Committed(n) /\ Committed(n)[l] = popLog[n][l]
    BY <2>2, CommittedPlaces
  <2> QED
    BY <1>1, <2>1, <2>2, <2>3, SamePlaces
<1> QED
  BY <1>3, <1>7, <1>8

\* The handshake has no deadlock, whatever the number of slots and of tasks: when all
\* wait, each task committed at both registered nodes is pushed at both, unless it was
\* given up, or as many tasks were given up as there are slots.
THEOREM NoDeadlockCorrect == Spec => []NoDeadlock
<1>1. IInv /\ WaitsSound => NoDeadlock
  <2> SUFFICES ASSUME IInv, WaitsSound, Quiet, SameOrder,
                      Cardinality(GivenUp) < ProcessorNum, registered = Node,
                      NEW t \in Task \ GivenUp, \A m \in Node : t \in Range(Committed(m)),
                      NEW n \in Node
               PROVE  t \in pushed[n]
    BY DEF NoDeadlock, AllPushed
  <2>1. Merged(n, t) /\ Merged(Peer(n), t)
    BY QuietMerged, PeerFacts
  <2> QED
    BY <2>1, MergedPushed, PeerFacts DEF Quiet
<1> QED
  BY <1>1, InductiveInvariant, WaitsInductive, PTL

-----------------------------------------------------------------------------
(* The refinement.                                                         *)

\* The abstract module has its own copy of Range.
LEMMA SameRange == \A s : Rendezvous!Range(s) = Range(s)
BY DEF Rendezvous!Range, Range

\* A received call is for a task its node has popped.
LEMMA ReceivedPopped ==
    ASSUME IInv, NEW n \in Node, NEW t \in Task, Received(n, t)
    PROVE  t \in Range(popLog[n])
BY DEF IInv, CallsSound, CallSound, Received, Popped

\* A push by n of a task it merged, with both calls received, is a Ready step.
LEMMA PushIsReady ==
    ASSUME IInv, NEW n \in Node, NEW t \in Task, Merged(n, t), BitsReceived(Roles, t),
           PushPutTask(n, t), UNCHANGED <<popLog, abandoned>>
    PROVE  Rendezvous!Ready(n, t)
<1>1. \A m \in Node : t \in Range(popLog[m])
  <2> SUFFICES ASSUME NEW m \in Node PROVE t \in Range(popLog[m])
    OBVIOUS
  <2>1. Received(m, t)
    BY RoleFacts DEF BitsReceived
  <2> QED
    BY <2>1, ReceivedPopped
<1>2. t \notin abandoned[n]
  BY DEF Merged
<1>3. \A u \in Task : Rendezvous!Precedes(u, t) => u \in pushed[n]
  BY EarlierPushed
<1> QED
  BY <1>1, <1>2, <1>3, SameRange DEF Rendezvous!Ready, PushPutTask

\* Giving up a task whose reply was not merged is an Abandon step.
LEMMA GiveUpIsAbandon ==
    ASSUME IInv, NEW n \in Node, rpPc[n] \in {"invoke", "wait"},
           abandoned' = [abandoned EXCEPT ![n] = @ \cup {rpTask[n]}],
           UNCHANGED <<popLog, pushed>>
    PROVE  Rendezvous!Next
<1>1. rpTask[n] \in Task /\ rpTask[n] \in Popped(n) /\ ~Merged(n, rpTask[n])
  BY RpTaskFacts DEF Merged, IInv, TypeOK
<1>2. rpTask[n] \notin pushed[n]
  BY <1>1 DEF IInv, PushedSound
<1> QED
  BY <1>1, <1>2, SameRange DEF Rendezvous!Next, Rendezvous!Abandon, Popped

LEMMA StepRefines == IInv /\ [Next]_vars => [Rendezvous!Next]_(Rendezvous!vars)
<1> SUFFICES ASSUME IInv, [Next]_vars PROVE [Rendezvous!Next]_(Rendezvous!vars)
  OBVIOUS
<1>1. ASSUME NEW n \in Node, PopCommitTask(n) PROVE Rendezvous!Next
  <2>1. /\ rpTask'[n] \in Task \ Range(popLog[n])
        /\ popLog' = [popLog EXCEPT ![n] = Append(@, rpTask'[n])]
    BY <1>1, PopStep DEF PopCommitTask, Popped, IInv, TypeOK
  <2> QED
    BY <1>1, <2>1, SameRange DEF PopCommitTask, Rendezvous!Next, Rendezvous!Join
<1>2. ASSUME NEW n \in Node, PushReady(n) PROVE Rendezvous!Next
  <2>1. /\ PushPutTask(n, rpTask[n]) /\ UNCHANGED <<popLog, abandoned>>
        /\ rpPc[n] = "push" /\ rpTask[n] \in Task
    BY <1>2 DEF PushReady, logVars, IInv, TypeOK
  <2>2. Merged(n, rpTask[n]) /\ BitsReceived(Roles, rpTask[n])
    BY <2>1, RpTaskFacts DEF IInv, BitsSound, BitSound, Merged
  <2> QED
    BY <2>1, <2>2, PushIsReady DEF Rendezvous!Next
<1>3. ASSUME NEW n \in Node, NEW t \in Task, HandlePush(n, t) PROVE Rendezvous!Next
  <2>1. /\ PushPutTask(Peer(n), t) /\ UNCHANGED <<popLog, abandoned>>
        /\ callSt[n][t] = "push" /\ Peer(n) \in Node /\ Peer(Peer(n)) = n
    BY <1>3, PeerFacts DEF HandlePush, logVars
  <2>2. callStatus[n][t] = Roles
    BY <2>1 DEF IInv, CallsSound, CallSound
  <2>3. BitsReceived(Roles, t) /\ Merged(Peer(n), t)
    BY <2>2, RoleFacts DEF IInv, BitsSound, BitSound
  <2> QED
    BY <2>1, <2>3, PushIsReady DEF Rendezvous!Next
<1>4. ASSUME NEW n \in Node, PeerNotFound(n) \/ CallException(n) PROVE Rendezvous!Next
  <2>1. /\ rpPc[n] \in {"invoke", "wait"}
        /\ abandoned' = [abandoned EXCEPT ![n] = @ \cup {rpTask[n]}]
        /\ UNCHANGED <<popLog, pushed>>
    BY <1>4 DEF PeerNotFound, CallException
  <2> QED
    BY <2>1, GiveUpIsAbandon
<1>5. CASE UNCHANGED <<popLog, pushed, abandoned>>
  BY <1>5 DEF Rendezvous!vars
<1>6. ASSUME NEW n \in Node, ReadyProcessor(n) PROVE [Rendezvous!Next]_(Rendezvous!vars)
  BY <1>1, <1>2, <1>4, <1>5, <1>6
     DEF ReadyProcessor, AddRequest, Invoke, MergeReply, FindState, FailState,
         FailWorking, logVars
<1>7. ASSUME NEW n \in Node, NEW t \in Task, Handler(n, t)
      PROVE  [Rendezvous!Next]_(Rendezvous!vars)
  BY <1>3, <1>5, <1>7 DEF Handler, HandleUpdate, HandleFind, HandleLookup, logVars
<1>8. ASSUME NEW n \in Node, NEW t \in Task, Downstream(n, t) PROVE UNCHANGED <<popLog, pushed, abandoned>>
  BY <1>8 DEF Downstream, RemoveTaskState, RemoveRequest, RemoveWorkingTask, logVars
<1> QED
  BY <1>4, <1>5, <1>6, <1>7, <1>8
     DEF Next, Register, Commit, TakePutTask, logVars, vars

\* The handshake implements the abstract rendezvous: the pops are its joins, the
\* pushes of thread and handlers its readies, the given up calls its abandons.
THEOREM RefinesRendezvous == Spec => RendezvousSpec
<1>1. Init => Rendezvous!Init
  BY DEF Init, Rendezvous!Init
<1> QED
  BY <1>1, StepRefines, InductiveInvariant, PTL DEF Spec, RendezvousSpec, Rendezvous!Spec

-----------------------------------------------------------------------------
(* What a step does to the order in which both nodes popped their tasks.   *)

LEMMA PushedPopped ==
    ASSUME IInv, NEW n \in Node, NEW t \in pushed[n]
    PROVE  \A m \in Node : t \in Range(popLog[m])
<1>1. t \in Task /\ BitsReceived(Roles, t)
  BY DEF IInv, TypeOK, PushedSound
<1>2. \A m \in Node : Received(m, t)
  BY <1>1, RoleFacts DEF BitsReceived
<1> QED
  BY <1>1, <1>2, ReceivedPopped

\* What precedes a pushed task is fixed.
LEMMA PrecedesBack ==
    ASSUME IInv, [Next]_vars, NEW n \in Node, NEW t \in pushed[n], NEW u \in Task,
           Rendezvous!Precedes(u, t)'
    PROVE  Rendezvous!Precedes(u, t)
<1>1. SUFFICES ASSUME NEW m \in Node
               PROVE  Rendezvous!IsBefore(popLog[m], u, t) /\ u \notin abandoned[m]
  BY DEF Rendezvous!Precedes
<1>2. Rendezvous!IsBefore(popLog'[m], u, t) /\ u \notin abandoned'[m]
  BY DEF Rendezvous!Precedes, Rendezvous!IsBefore
<1>3. /\ popLog \in [Node -> Seq(Task)] /\ abandoned \in [Node -> SUBSET Task]
      /\ t \in Range(popLog[m])
  BY PushedPopped DEF IInv, TypeOK
<1>4. [Rendezvous!Next]_(Rendezvous!vars)
  BY StepRefines
<1>5. abandoned[m] \subseteq abandoned'[m]
  BY <1>3, <1>4
     DEF Rendezvous!Next, Rendezvous!Join, Rendezvous!Ready, Rendezvous!Abandon,
         Rendezvous!vars
<1>6. \/ popLog'[m] = popLog[m]
      \/ \E x \in Task \ Range(popLog[m]) : popLog'[m] = Append(popLog[m], x)
  BY <1>3, <1>4, SameRange
     DEF Rendezvous!Next, Rendezvous!Join, Rendezvous!Ready, Rendezvous!Abandon,
         Rendezvous!vars
<1>7. ASSUME NEW x \in Task \ Range(popLog[m]), popLog'[m] = Append(popLog[m], x)
      PROVE  Rendezvous!IsBefore(popLog[m], u, t)
  <2>1. PICK i \in DOMAIN popLog'[m], j \in DOMAIN popLog'[m] :
            i < j /\ popLog'[m][i] = u /\ popLog'[m][j] = t
    BY <1>2 DEF Rendezvous!IsBefore
  <2>2. DOMAIN popLog'[m] = 1 .. Len(popLog[m]) + 1 /\ popLog'[m][Len(popLog[m]) + 1] = x
    BY <1>3, <1>7
  <2>3. j # Len(popLog[m]) + 1
    BY <1>3, <2>1, <2>2
  <2>4. i \in DOMAIN popLog[m] /\ j \in DOMAIN popLog[m]
    BY <1>3, <2>1, <2>2, <2>3
  <2>5. popLog[m][i] = u /\ popLog[m][j] = t
    BY <1>3, <1>7, <2>1, <2>4
  <2> QED
    BY <2>1, <2>4, <2>5 DEF Rendezvous!IsBefore
<1> QED
  BY <1>2, <1>5, <1>6, <1>7

\* A task is first pushed when all that precedes it has been.
LEMMA NewPush ==
    ASSUME IInv, [Next]_vars, NEW n \in Node, NEW t \in pushed'[n] \ pushed[n],
           NEW u \in Task, Rendezvous!Precedes(u, t)'
    PROVE  u \in pushed[n]
<1>1. pushed \in [Node -> SUBSET Task]
  BY DEF IInv, TypeOK
<1>2. Rendezvous!Next
  BY StepRefines DEF Rendezvous!vars
<1>3. Rendezvous!Ready(n, t)
  BY <1>1, <1>2 DEF Rendezvous!Next, Rendezvous!Join, Rendezvous!Ready, Rendezvous!Abandon
<1>4. Rendezvous!Precedes(u, t)
  BY <1>3 DEF Rendezvous!Ready, Rendezvous!Precedes, Rendezvous!IsBefore
<1> QED
  BY <1>3, <1>4 DEF Rendezvous!Ready

\* u is not behind t in the put queue of n.
InTurn(n, u, t) ==
    /\ t \in taken[n] => u \in taken[n]
    /\ \A j \in DOMAIN putQueue[n] : putQueue[n][j] = t =>
           u \in taken[n] \/ \E i \in 1 .. j - 1 : putQueue[n][i] = u

\* Tasks leave the put queue in the order in which both nodes popped them.
TakenInOrder ==
    \A n \in Node, t, u \in Task : Rendezvous!Precedes(u, t) => InTurn(n, u, t)

\* A step appends a task to the put queue of a node, takes its head, or neither.
LEMMA QueueKinds ==
    ASSUME TypeOK, [Next]_vars, NEW m \in Node
    PROVE  \/ putQueue'[m] = putQueue[m] /\ taken'[m] = taken[m]
           \/ \E x \in Task : putQueue'[m] = Append(putQueue[m], x) /\ taken'[m] = taken[m]
           \/ /\ putQueue[m] # << >> /\ putQueue'[m] = Tail(putQueue[m])
              /\ taken'[m] = taken[m] \cup {Head(putQueue[m])}
<1> DEFINE Same == putQueue'[m] = putQueue[m] /\ taken'[m] = taken[m]
           Grows == \E x \in Task : putQueue'[m] = Append(putQueue[m], x) /\ taken'[m] = taken[m]
           Shrinks == /\ putQueue[m] # << >> /\ putQueue'[m] = Tail(putQueue[m])
                      /\ taken'[m] = taken[m] \cup {Head(putQueue[m])}
<1>0. /\ putQueue \in [Node -> Seq(Task)] /\ taken \in [Node -> SUBSET Task]
      /\ rpTask \in [Node -> Task]
  BY DEF TypeOK
<1>1. ASSUME NEW n \in Node, NEW x \in Task, PushPutTask(n, x), UNCHANGED taken
      PROVE  Same \/ Grows
  BY <1>0, <1>1 DEF PushPutTask
<1>2. ASSUME NEW n \in Node, TakePutTask(n) PROVE Same \/ Shrinks
  BY <1>0, <1>2 DEF TakePutTask
<1>3. ASSUME UNCHANGED <<putQueue, taken>> PROVE Same \/ Grows
  BY <1>3
<1> HIDE DEF Same, Grows, Shrinks
<1>4. ASSUME NEW n \in Node, ReadyProcessor(n) PROVE Same \/ Grows
  <2>1. CASE PushReady(n)
    BY <1>0, <1>1, <2>1 DEF PushReady, logVars
  <2>2. CASE ~PushReady(n)
    BY <1>3, <1>4, <2>2 DEF ReadyProcessor, PopCommitTask, AddRequest, PeerNotFound, Invoke,
       MergeReply, FindState, FailState, FailWorking, logVars
  <2> QED
    BY <2>1, <2>2
<1>5. ASSUME NEW n \in Node, NEW t \in Task, Handler(n, t) PROVE Same \/ Grows
  <2>1. CASE HandlePush(n, t)
    BY <1>1, <2>1, PeerFacts DEF HandlePush, logVars
  <2>2. CASE ~HandlePush(n, t)
    BY <1>3, <1>5, <2>2 DEF Handler, HandleUpdate, HandleFind, HandleLookup, logVars
  <2> QED
    BY <2>1, <2>2
<1>6. ASSUME NEW n \in Node, NEW t \in Task, Downstream(n, t) \/ Commit(n, t)
      PROVE  Same \/ Grows
  BY <1>3, <1>6
     DEF Downstream, RemoveTaskState, RemoveRequest, RemoveWorkingTask, Commit, logVars
<1>7. ASSUME NEW n \in Node, Register(n) \/ CallException(n) PROVE Same \/ Grows
  BY <1>3, <1>7 DEF Register, CallException, logVars
<1>8. ASSUME UNCHANGED vars PROVE Same \/ Grows
  BY <1>3, <1>8 DEF vars, logVars
<1>9. Same \/ Grows \/ Shrinks
  BY <1>2, <1>4, <1>5, <1>6, <1>7, <1>8 DEF Next
<1> QED
  BY <1>9 DEF Same, Grows, Shrinks

\* A pushed task that was not behind t stays so.
LEMMA InTurnKept ==
    ASSUME IInv, WaitsSound, [Next]_vars, NEW m \in Node, NEW t \in Task,
           NEW u \in pushed[m], InTurn(m, u, t)
    PROVE  InTurn(m, u, t)'
<1> DEFINE s == putQueue[m]
<1>1. s \in Seq(Task) /\ TypeOK /\ u \in taken[m] \cup Range(s)
  BY DEF IInv, TypeOK, WaitsSound
<1>2. /\ t \in taken[m] => u \in taken[m]
      /\ \A j \in DOMAIN s : s[j] = t => u \in taken[m] \/ \E i \in 1 .. j - 1 : s[i] = u
  BY DEF InTurn
<1> HIDE DEF s
<1>3. CASE putQueue'[m] = s /\ taken'[m] = taken[m]
  BY <1>2, <1>3 DEF InTurn
<1>4. ASSUME NEW x \in Task, putQueue'[m] = Append(s, x), taken'[m] = taken[m]
      PROVE  InTurn(m, u, t)'
  <2>1. ASSUME NEW j \in DOMAIN Append(s, x), Append(s, x)[j] = t, u \notin taken[m]
        PROVE  \E i \in 1 .. j - 1 : Append(s, x)[i] = u
    <3>1. CASE j = Len(s) + 1
      <4>1. PICK i \in DOMAIN s : s[i] = u
        BY <1>1, <2>1 DEF Range
      <4> QED
        BY <1>1, <3>1, <4>1, AppendPlaces
    <3>2. CASE j # Len(s) + 1
      <4>1. j \in DOMAIN s /\ s[j] = t
        BY <1>1, <2>1, <3>2, AppendPlaces
      <4>2. PICK i \in 1 .. j - 1 : s[i] = u
        BY <1>2, <2>1, <4>1
      <4> QED
        BY <1>1, <4>2, AppendPlaces
    <3> QED
      BY <3>1, <3>2
  <2> QED
    BY <1>2, <1>4, <2>1 DEF InTurn
<1>5. ASSUME s # << >>, putQueue'[m] = Tail(s), taken'[m] = taken[m] \cup {Head(s)}
      PROVE  InTurn(m, u, t)'
  <2>1. t = Head(s) => u \in taken[m]
    <3>1. 1 \in DOMAIN s /\ s[1] = Head(s)
      BY <1>1, <1>5
    <3> QED
      BY <1>2, <3>1
  <2>2. ASSUME NEW j \in DOMAIN Tail(s), Tail(s)[j] = t, u \notin taken[m], u # Head(s)
        PROVE  \E i \in 1 .. j - 1 : Tail(s)[i] = u
    <3>1. PICK i \in 1 .. j : s[i] = u
      BY <1>1, <1>2, <1>5, <2>2, TailPlaces
    <3> QED
      BY <1>1, <1>5, <2>2, <3>1, TailPlaces
  <2> QED
    BY <1>2, <1>5, <2>1, <2>2 DEF InTurn
<1> QED
  BY <1>1, <1>3, <1>4, <1>5, QueueKinds DEF s

\* The monitor gets the tasks of a node in the order in which both nodes popped them,
\* whatever their roles.
THEOREM TakenInOrderCorrect == Spec => []TakenInOrder
<1>1. Init => TakenInOrder
  BY DEF Init, TakenInOrder, InTurn
<1>2. IInv /\ WaitsSound /\ TakenInOrder /\ [Next]_vars /\ IInv' => TakenInOrder'
  <2> SUFFICES ASSUME IInv, WaitsSound, TakenInOrder, [Next]_vars, IInv',
                      NEW n \in Node, NEW t \in Task, NEW u \in Task,
                      Rendezvous!Precedes(u, t)'
               PROVE  InTurn(n, u, t)'
    BY DEF TakenInOrder
  <2>0. \A s : \A j \in DOMAIN s : s[j] \in Range(s)
    BY DEF Range
  <2>1. CASE t \in pushed[n]
    <3>1. Rendezvous!Precedes(u, t)
      BY <2>1, PrecedesBack
    <3>2. u \in pushed[n]
      BY <2>1, <3>1, EarlierPushed
    <3> QED
      BY <3>1, <3>2, InTurnKept DEF TakenInOrder
  <2>2. CASE t \in pushed'[n] \ pushed[n]
    <3>1. u \in pushed[n]
      BY <2>2, NewPush
    <3>2. InTurn(n, u, t)
      BY <2>0, <2>2 DEF InTurn, IInv, HistorySound
    <3> QED
      BY <3>1, <3>2, InTurnKept
  <2>3. CASE t \notin pushed'[n]
    <3>1. Range(putQueue'[n]) \cup taken'[n] \subseteq pushed'[n]
      BY DEF IInv, HistorySound
    <3>2. t \notin taken'[n] /\ \A j \in DOMAIN putQueue'[n] : putQueue'[n][j] # t
      BY <2>3, <3>1 DEF Range
    <3> QED
      BY <3>2 DEF InTurn
  <2> QED
    BY <2>1, <2>2, <2>3
<1> QED
  BY <1>1, <1>2, InductiveInvariant, WaitsInductive, PTL DEF Spec

-----------------------------------------------------------------------------
(* How long it can go on.                                                  *)

\* How many steps the thread of n has left with t, the handler of the peer with the
\* call of n for t, and the request slot of t.
ThreadLeft(n, t) ==
    CASE t \notin Popped(n) -> 6
      [] t \in Popped(n) /\ (rpTask[n] # t \/ rpPc[n] = "pop") -> 0
      [] t \in Popped(n) /\ rpTask[n] = t /\ rpPc[n] = "add" -> 5
      [] t \in Popped(n) /\ rpTask[n] = t /\ rpPc[n] = "invoke" -> 4
      [] t \in Popped(n) /\ rpTask[n] = t /\ rpPc[n] = "wait" -> 3
      [] t \in Popped(n) /\ rpTask[n] = t /\ rpPc[n] \in {"find", "failed"} -> 2
      [] t \in Popped(n) /\ rpTask[n] = t /\ rpPc[n] \in {"push", "clear"} -> 1

CallLeft(n, t) ==
    CASE callSt[n][t] = "none" -> 5
      [] callSt[n][t] = "sent" -> 4
      [] callSt[n][t] = "updated" -> 3
      [] callSt[n][t] = "lookup" -> 2
      [] callSt[n][t] = "push" -> 1
      [] callSt[n][t] \in {"done", "dropped"} -> 0

SlotLeft(n, t) == IF t \in taken[n] \ requestQueue[n] THEN 0 ELSE 1

StepsLeft ==
    [p \in Node \X Task |->
        ThreadLeft(p[1], p[2]) + CallLeft(p[1], p[2]) + SlotLeft(p[1], p[2])]

ToDo == Total(Node \X Task, 12, StepsLeft)

Somewhere == CHOOSE n \in Node : TRUE

Queued == Len(putQueue[Somewhere]) + Len(putQueue[Peer(Somewhere)])

\* A step may put a task into a put queue, so it weighs as much as two.
Left == 2 * ToDo + Queued

\* No step adds to what is left, and each of the system takes from it.
StepsCounted == [][Left' <= Left /\ (System => Left' < Left)]_vars

LEMMA LeftTypes ==
    IInv => \A n \in Node, t \in Task :
        ThreadLeft(n, t) \in 0 .. 6 /\ CallLeft(n, t) \in 0 .. 5 /\ SlotLeft(n, t) \in 0 .. 1
<1> SUFFICES ASSUME IInv, NEW n \in Node, NEW t \in Task
             PROVE  /\ ThreadLeft(n, t) \in 0 .. 6 /\ CallLeft(n, t) \in 0 .. 5
                    /\ SlotLeft(n, t) \in 0 .. 1
  OBVIOUS
<1>1. rpPc[n] \in RpPc /\ callSt[n][t] \in CallSt
  BY DEF IInv, TypeOK
<1>2. ThreadLeft(n, t) \in 0 .. 6
  BY <1>1 DEF ThreadLeft, RpPc
<1>3. CallLeft(n, t) \in 0 .. 5
  BY <1>1 DEF CallLeft, CallSt
<1> QED
  BY <1>2, <1>3 DEF SlotLeft

LEMMA LeftTypesNext ==
    IInv' => (\A n \in Node, t \in Task :
        ThreadLeft(n, t) \in 0 .. 6 /\ CallLeft(n, t) \in 0 .. 5 /\ SlotLeft(n, t) \in 0 .. 1)'
BY LeftTypes, PTL

\* What a thread has left falls with each of its steps.
LEMMA ThreadFalls ==
    ASSUME IInv, IInv', [Next]_vars, NEW m \in Node
    PROVE  /\ \A u \in Task : ThreadLeft(m, u)' <= ThreadLeft(m, u)
           /\ ReadyProcessor(m) => \E u \in Task : ThreadLeft(m, u)' < ThreadLeft(m, u)
<1>0. /\ rpPc \in [Node -> RpPc] /\ rpTask \in [Node -> Task]
      /\ \A u \in Task : ThreadLeft(m, u) \in 0 .. 6 /\ ThreadLeft(m, u)' \in 0 .. 6
  <2>1. \A u \in Task : ThreadLeft(m, u) \in 0 .. 6
    BY LeftTypes
  <2>2. \A u \in Task : ThreadLeft(m, u)' \in 0 .. 6
    BY LeftTypesNext
  <2> QED
    BY <2>1, <2>2 DEF IInv, TypeOK
<1>1. CASE PopCommitTask(m)
  <2>1. PICK t \in Task \ Popped(m) :
            /\ rpTask'[m] = t /\ rpPc[m] = "pop" /\ rpPc'[m] = "add"
            /\ Popped(m)' = Popped(m) \cup {t}
    BY <1>1, PopStep
  <2> HIDE DEF Popped
  <2>2. ThreadLeft(m, t)' = 5 /\ ThreadLeft(m, t) = 6
    BY <2>1 DEF ThreadLeft
  <2>3. ASSUME NEW u \in Task, u # t
        PROVE  ThreadLeft(m, u)' = ThreadLeft(m, u)
    <3>1. u \in Popped(m) <=> u \in Popped(m)'
      BY <2>1, <2>3
    <3>2. CASE u \in Popped(m)
      BY <2>1, <2>3, <3>1, <3>2 DEF ThreadLeft
    <3>3. CASE u \notin Popped(m)
      BY <3>1, <3>3 DEF ThreadLeft
    <3> QED
      BY <3>2, <3>3
  <2> QED
    BY <1>0, <2>1, <2>2, <2>3
<1>2. ASSUME rpTask'[m] = rpTask[m], Popped(m)' = Popped(m), rpPc'[m] = rpPc[m]
      PROVE  \A u \in Task : ThreadLeft(m, u)' = ThreadLeft(m, u)
  BY <1>2 DEF ThreadLeft
<1>3. ASSUME NEW t \in Task, rpTask[m] = t, rpTask'[m] = t,
             Popped(m)' = Popped(m), rpPc[m] # "pop",
             \/ rpPc[m] = "add" /\ rpPc'[m] = "invoke"
             \/ rpPc[m] = "invoke" /\ rpPc'[m] \in {"wait", "pop"}
             \/ rpPc[m] = "wait" /\ rpPc'[m] \in {"find", "failed"}
             \/ rpPc[m] = "find" /\ rpPc'[m] \in {"push", "pop"}
             \/ rpPc[m] = "failed" /\ rpPc'[m] = "clear"
             \/ rpPc[m] \in {"push", "clear"} /\ rpPc'[m] = "pop"
      PROVE  /\ \A u \in Task : ThreadLeft(m, u)' <= ThreadLeft(m, u)
             /\ ThreadLeft(m, t)' < ThreadLeft(m, t)
  <2>1. t \in Popped(m)
    BY <1>3, RpTaskFacts
  <2>2. ThreadLeft(m, t)' < ThreadLeft(m, t)
    BY <1>3, <2>1 DEF ThreadLeft
  <2>3. ASSUME NEW u \in Task, u # t
        PROVE  ThreadLeft(m, u)' = ThreadLeft(m, u)
    BY <1>3, <2>3 DEF ThreadLeft
  <2>4. ASSUME NEW u \in Task PROVE ThreadLeft(m, u)' <= ThreadLeft(m, u)
    <3>1. ThreadLeft(m, u) \in Int /\ ThreadLeft(m, u)' \in Int
      BY <1>0
    <3>2. CASE u = t
      BY <2>2, <3>1, <3>2
    <3>3. CASE u # t
      BY <2>3, <3>1, <3>3
    <3> QED
      BY <3>2, <3>3
  <2> QED
    BY <2>2, <2>4
<1>4. ASSUME NEW n \in Node,
             \/ AddRequest(n) \/ PeerNotFound(n) \/ Invoke(n) \/ MergeReply(n) \/ FindState(n)
             \/ PushReady(n) \/ CallException(n) \/ FailState(n) \/ FailWorking(n)
      PROVE  /\ \A u \in Task : ThreadLeft(m, u)' <= ThreadLeft(m, u)
             /\ n = m => \E u \in Task : ThreadLeft(m, u)' < ThreadLeft(m, u)
  <2>1. UNCHANGED <<rpTask, popLog>>
    BY <1>4 DEF AddRequest, PeerNotFound, Invoke, MergeReply, FindState, PushReady,
       CallException, FailState, FailWorking, rpVars, logVars
  <2>2. Popped(m)' = Popped(m)
    BY <2>1 DEF Popped
  <2>3. n # m => rpPc'[m] = rpPc[m]
    BY <1>0, <1>4 DEF AddRequest, PeerNotFound, Invoke, MergeReply, FindState, PushReady,
       CallException, FailState, FailWorking
  <2>4. n = m => /\ rpPc[m] # "pop"
                 /\ \/ rpPc[m] = "add" /\ rpPc'[m] = "invoke"
                    \/ rpPc[m] = "invoke" /\ rpPc'[m] \in {"wait", "pop"}
                    \/ rpPc[m] = "wait" /\ rpPc'[m] \in {"find", "failed"}
                    \/ rpPc[m] = "find" /\ rpPc'[m] \in {"push", "pop"}
                    \/ rpPc[m] = "failed" /\ rpPc'[m] = "clear"
                    \/ rpPc[m] \in {"push", "clear"} /\ rpPc'[m] = "pop"
    BY <1>0, <1>4 DEF AddRequest, PeerNotFound, Invoke, MergeReply, FindState, PushReady,
       CallException, FailState, FailWorking
  <2>5. CASE n = m
    <3>1. PICK t \in Task : rpTask[m] = t /\ rpTask'[m] = t
      BY <1>0, <2>1
    <3> QED
      BY <1>3, <2>2, <2>4, <2>5, <3>1
  <2>6. CASE n # m
    BY <1>0, <1>2, <2>1, <2>2, <2>3, <2>6
  <2> QED
    BY <2>5, <2>6
<1>5. ASSUME NEW n \in Node, n # m, PopCommitTask(n)
      PROVE  \A u \in Task : ThreadLeft(m, u)' = ThreadLeft(m, u)
  BY <1>2, <1>5, PopStep
<1>6. ASSUME UNCHANGED <<rpPc, rpTask, popLog>>
      PROVE  \A u \in Task : ThreadLeft(m, u)' = ThreadLeft(m, u)
  BY <1>2, <1>6 DEF Popped
<1>7. CASE \E n \in Node : ReadyProcessor(n) \/ CallException(n)
  <2>1. ASSUME NEW n \in Node, ReadyProcessor(n) \/ CallException(n)
        PROVE  /\ \A u \in Task : ThreadLeft(m, u)' <= ThreadLeft(m, u)
               /\ n = m => \E u \in Task : ThreadLeft(m, u)' < ThreadLeft(m, u)
    <3>1. CASE ~PopCommitTask(n)
      BY <1>4, <2>1, <3>1 DEF ReadyProcessor
    <3>2. CASE PopCommitTask(n) /\ n # m
      BY <1>0, <1>5, <3>2
    <3>3. CASE PopCommitTask(n) /\ n = m
      <4>1. PopCommitTask(m)
        BY <3>3
      <4> QED
        BY <1>1, <4>1 DEF ReadyProcessor
    <3> QED
      BY <3>1, <3>2, <3>3
  <2> QED
    BY <1>7, <2>1
<1>8. CASE ~\E n \in Node : ReadyProcessor(n) \/ CallException(n)
  <2>1. UNCHANGED <<rpPc, rpTask, popLog>>
    BY <1>8 DEF Next, Register, Commit, TakePutTask, Handler, Downstream, HandleUpdate,
       HandleFind, HandleLookup, HandlePush, RemoveTaskState, RemoveRequest,
       RemoveWorkingTask, rpVars, logVars, vars
  <2> QED
    BY <1>0, <1>6, <1>8, <2>1
<1> QED
  BY <1>7, <1>8

\* What a handler has left falls with each of its steps, and when the call is made.
LEMMA CallFalls ==
    ASSUME IInv, IInv', [Next]_vars, NEW m \in Node, NEW u \in Task
    PROVE  /\ CallLeft(m, u)' <= CallLeft(m, u)
           /\ Handler(m, u) => CallLeft(m, u)' < CallLeft(m, u)
<1>0. /\ callSt \in [Node -> [Task -> CallSt]] /\ rpTask \in [Node -> Task]
      /\ CallLeft(m, u) \in 0 .. 5 /\ CallLeft(m, u)' \in 0 .. 5
  <2>1. CallLeft(m, u) \in 0 .. 5
    BY LeftTypes
  <2>2. CallLeft(m, u)' \in 0 .. 5
    BY LeftTypesNext
  <2> QED
    BY <2>1, <2>2 DEF IInv, TypeOK
<1>1. ASSUME UNCHANGED callSt PROVE CallLeft(m, u)' = CallLeft(m, u)
  BY <1>1 DEF CallLeft
<1>2. ASSUME NEW n \in Node, Invoke(n) PROVE CallLeft(m, u)' <= CallLeft(m, u)
  <2>1. callSt[n][rpTask[n]] = "none"
    BY <1>0, <1>2 DEF Invoke, IInv, CallsSound, CallSound
  <2>2. \/ callSt'[m][u] = callSt[m][u]
        \/ callSt[m][u] = "none" /\ callSt'[m][u] = "sent"
    BY <1>0, <1>2, <2>1 DEF Invoke
  <2>3. CallLeft(m, u)' = CallLeft(m, u) \/ (CallLeft(m, u)' = 4 /\ CallLeft(m, u) = 5)
    BY <2>2 DEF CallLeft
  <2> QED
    BY <1>0, <2>3
<1>3. ASSUME NEW n \in Node, CallException(n) PROVE CallLeft(m, u)' <= CallLeft(m, u)
  <2>1. \/ callSt'[m][u] = callSt[m][u]
        \/ callSt[m][u] = "sent" /\ callSt'[m][u] = "dropped"
    BY <1>0, <1>3 DEF CallException
  <2>2. CallLeft(m, u)' = CallLeft(m, u) \/ (CallLeft(m, u)' = 0 /\ CallLeft(m, u) = 4)
    BY <2>1 DEF CallLeft
  <2> QED
    BY <1>0, <2>2
<1>4. ASSUME NEW n \in Node, NEW t \in Task, Handler(n, t)
      PROVE  /\ CallLeft(m, u)' <= CallLeft(m, u)
             /\ n = m /\ t = u => CallLeft(m, u)' < CallLeft(m, u)
  <2>1. CASE n = m /\ t = u
    <3>1. \/ callSt[m][u] = "sent" /\ callSt'[m][u] = "updated"
          \/ callSt[m][u] = "updated" /\ callSt'[m][u] \in {"lookup", "done"}
          \/ callSt[m][u] = "lookup" /\ callSt'[m][u] \in {"push", "done"}
          \/ callSt[m][u] = "push" /\ callSt'[m][u] = "done"
      BY <1>0, <1>4, <2>1 DEF Handler, HandleUpdate, HandleFind, HandleLookup, HandlePush
    <3> QED
      BY <3>1 DEF CallLeft
  <2>2. CASE ~(n = m /\ t = u)
    <3>1. callSt'[m][u] = callSt[m][u]
      BY <1>0, <1>4, <2>2 DEF Handler, HandleUpdate, HandleFind, HandleLookup, HandlePush
    <3>2. CallLeft(m, u)' = CallLeft(m, u)
      BY <3>1 DEF CallLeft
    <3> QED
      BY <1>0, <2>2, <3>2
  <2> QED
    BY <2>1, <2>2
<1>5. CASE \E n \in Node : Invoke(n) \/ CallException(n) \/ \E t \in Task : Handler(n, t)
  <2>1. ASSUME Handler(m, u) PROVE CallLeft(m, u)' < CallLeft(m, u)
    BY <1>4, <2>1
  <2> QED
    BY <1>2, <1>3, <1>4, <1>5, <2>1
<1>6. CASE ~\E n \in Node : Invoke(n) \/ CallException(n) \/ \E t \in Task : Handler(n, t)
  <2>1. UNCHANGED callSt
    BY <1>6 DEF Next, ReadyProcessor, Register, Commit, TakePutTask, Downstream,
       PopCommitTask, AddRequest, PeerNotFound, MergeReply, FindState, PushReady,
       FailState, FailWorking, RemoveTaskState, RemoveRequest, RemoveWorkingTask,
       callVars, vars
  <2> QED
    BY <1>0, <1>1, <1>6, <2>1
<1> QED
  BY <1>5, <1>6

\* A slot that a task gave back is not taken for it again.
LEMMA SlotFalls ==
    ASSUME IInv, IInv', [Next]_vars, NEW m \in Node, NEW u \in Task
    PROVE  /\ SlotLeft(m, u)' <= SlotLeft(m, u)
           /\ RemoveRequest(m, u) => \/ SlotLeft(m, u)' < SlotLeft(m, u)
                                     \/ UNCHANGED vars
<1>0. /\ requestQueue \in [Node -> SUBSET Task] /\ taken \in [Node -> SUBSET Task]
      /\ rpTask \in [Node -> Task] /\ putQueue \in [Node -> Seq(Task)]
      /\ SlotLeft(m, u) \in 0 .. 1
  BY LeftTypes DEF IInv, TypeOK
<1>1. taken[m] \subseteq taken'[m]
  BY <1>0, QueueKinds DEF IInv
<1>2. ASSUME NEW n \in Node, AddRequest(n) PROVE SlotLeft(m, u)' <= SlotLeft(m, u)
  <2>1. rpTask[n] \notin taken[n]
    BY <1>0, <1>2 DEF AddRequest, IInv, HistorySound, PushedSound, Merged
  <2>2. /\ taken' = taken
        /\ requestQueue' = [requestQueue EXCEPT ![n] = @ \cup {rpTask[n]}]
    BY <1>2 DEF AddRequest, logVars
  <2> QED
    BY <1>0, <2>1, <2>2 DEF SlotLeft
<1>3. ASSUME NEW n \in Node, NEW t \in Task, RemoveRequest(n, t)
      PROVE  SlotLeft(m, u)' <= SlotLeft(m, u)
  BY <1>0, <1>3 DEF RemoveRequest, logVars, SlotLeft
<1>4. ASSUME UNCHANGED requestQueue PROVE SlotLeft(m, u)' <= SlotLeft(m, u)
  BY <1>0, <1>1, <1>4 DEF SlotLeft
<1>5. SlotLeft(m, u)' <= SlotLeft(m, u)
  <2>1. CASE \E n \in Node : AddRequest(n) \/ \E t \in Task : RemoveRequest(n, t)
    BY <1>2, <1>3, <2>1
  <2>2. CASE ~\E n \in Node : AddRequest(n) \/ \E t \in Task : RemoveRequest(n, t)
    <3>1. ASSUME NEW n \in Node, ReadyProcessor(n) PROVE UNCHANGED requestQueue
      BY <2>2, <3>1 DEF ReadyProcessor, PopCommitTask, PeerNotFound, Invoke, MergeReply,
         FindState, PushReady, FailState, FailWorking, UpdateTaskState, tableVars
    <3>2. ASSUME NEW n \in Node, NEW t \in Task, Handler(n, t) PROVE UNCHANGED requestQueue
      BY <3>2 DEF Handler, HandleUpdate, HandleFind, HandleLookup, HandlePush, tableVars
    <3>3. ASSUME NEW n \in Node, NEW t \in Task, Downstream(n, t) PROVE UNCHANGED requestQueue
      BY <2>2, <3>3 DEF Downstream, RemoveTaskState, RemoveWorkingTask, tableVars
    <3>4. UNCHANGED requestQueue
      BY <2>2, <3>1, <3>2, <3>3
         DEF Next, Register, Commit, TakePutTask, CallException, tableVars, vars
    <3> QED
      BY <1>4, <3>4
  <2> QED
    BY <2>1, <2>2
<1>6. ASSUME RemoveRequest(m, u) PROVE SlotLeft(m, u)' < SlotLeft(m, u) \/ UNCHANGED vars
  <2>1. CASE u \in requestQueue[m]
    BY <1>0, <1>6, <2>1 DEF RemoveRequest, logVars, SlotLeft
  <2>2. CASE u \notin requestQueue[m]
    <3>1. requestQueue' = requestQueue
      BY <1>0, <1>6, <2>2 DEF RemoveRequest
    <3> QED
      BY <1>6, <3>1 DEF RemoveRequest, vars, rpVars, tableVars, callVars, logVars
  <2> QED
    BY <2>1, <2>2
<1> QED
  BY <1>5, <1>6

\* What is left of all tasks falls with each step of a thread or a handler, and with
\* each slot that is given back.
LEMMA ToDoFalls ==
    ASSUME IsFiniteSet(Task), IInv, IInv', [Next]_vars
    PROVE  /\ ToDo \in Nat /\ ToDo' \in Nat /\ ToDo' <= ToDo
           /\ \A n \in Node : ReadyProcessor(n) => ToDo' < ToDo
           /\ \A n \in Node, t \in Task : Handler(n, t) => ToDo' < ToDo
           /\ \A n \in Node, t \in Task : RemoveRequest(n, t) => ToDo' < ToDo \/ UNCHANGED vars
<1> DEFINE S == Node \X Task
           f == StepsLeft
           g == StepsLeft'
<1>1. IsFiniteSet(S)
  <2>1. IsFiniteSet(Node)
    <3>1. PICK a \in Node, b \in Node : Node = {a} \cup {b}
      BY NodeAssumption
    <3>2. IsFiniteSet({a})
      BY FS_Singleton
    <3> QED
      BY <3>1, <3>2, FS_AddElement
  <2> QED
    BY <2>1, FS_Product
<1>2. /\ f = [p \in S |-> ThreadLeft(p[1], p[2]) + CallLeft(p[1], p[2]) + SlotLeft(p[1], p[2])]
      /\ g = [p \in S |-> ThreadLeft(p[1], p[2])' + CallLeft(p[1], p[2])' + SlotLeft(p[1], p[2])']
  BY DEF StepsLeft
<1>3. ASSUME NEW n \in Node, NEW t \in Task
      PROVE  /\ ThreadLeft(n, t) \in 0 .. 6 /\ CallLeft(n, t) \in 0 .. 5 /\ SlotLeft(n, t) \in 0 .. 1
             /\ ThreadLeft(n, t)' \in 0 .. 6 /\ CallLeft(n, t)' \in 0 .. 5 /\ SlotLeft(n, t)' \in 0 .. 1
  BY LeftTypes, LeftTypesNext
<1>4. f \in [S -> 0 .. 12] /\ g \in [S -> 0 .. 12]
  <2>1. ASSUME NEW a \in 0 .. 6, NEW b \in 0 .. 5, NEW c \in 0 .. 1 PROVE a + b + c \in 0 .. 12
    OBVIOUS
  <2>2. ASSUME NEW p \in S PROVE p[1] \in Node /\ p[2] \in Task
    OBVIOUS
  <2> QED
    BY <1>2, <1>3, <2>1, <2>2
<1>5. ASSUME NEW n \in Node, NEW t \in Task
      PROVE  /\ f[<<n, t>>] = ThreadLeft(n, t) + CallLeft(n, t) + SlotLeft(n, t)
             /\ g[<<n, t>>] = ThreadLeft(n, t)' + CallLeft(n, t)' + SlotLeft(n, t)'
             /\ g[<<n, t>>] <= f[<<n, t>>]
             /\ \/ ThreadLeft(n, t)' < ThreadLeft(n, t)
                \/ CallLeft(n, t)' < CallLeft(n, t)
                \/ SlotLeft(n, t)' < SlotLeft(n, t)
                => g[<<n, t>>] < f[<<n, t>>]
  <2>1. /\ f[<<n, t>>] = ThreadLeft(n, t) + CallLeft(n, t) + SlotLeft(n, t)
        /\ g[<<n, t>>] = ThreadLeft(n, t)' + CallLeft(n, t)' + SlotLeft(n, t)'
    BY <1>2
  <2>2. /\ ThreadLeft(n, t)' <= ThreadLeft(n, t)
        /\ CallLeft(n, t)' <= CallLeft(n, t)
        /\ SlotLeft(n, t)' <= SlotLeft(n, t)
    BY ThreadFalls, CallFalls, SlotFalls
  <2> HIDE DEF f, g
  <2> QED
    BY <1>3, <2>1, <2>2
<1> HIDE DEF f, g
<1>6. ASSUME NEW s \in S PROVE g[s] <= f[s]
  BY <1>5
<1>7. /\ Total(S, 12, f) \in Nat /\ Total(S, 12, g) \in Nat
      /\ Total(S, 12, g) <= Total(S, 12, f)
      /\ (\E s \in S : g[s] < f[s]) => Total(S, 12, g) < Total(S, 12, f)
  BY <1>1, <1>4, <1>6, TotalFalls
<1>8. ToDo = Total(S, 12, f) /\ ToDo' = Total(S, 12, g)
  BY DEF ToDo, Total, PointsBelow, f, g
<1>9. ASSUME NEW n \in Node, NEW t \in Task,
             \/ ThreadLeft(n, t)' < ThreadLeft(n, t)
             \/ CallLeft(n, t)' < CallLeft(n, t)
             \/ SlotLeft(n, t)' < SlotLeft(n, t)
      PROVE  ToDo' < ToDo
  <2>1. <<n, t>> \in S /\ g[<<n, t>>] < f[<<n, t>>]
    BY <1>5, <1>9
  <2> QED
    BY <1>7, <1>8, <2>1
<1> QED
  BY <1>7, <1>8, <1>9, ThreadFalls, CallFalls, SlotFalls

\* How ToDo and Queued make up Left.
LEMMA LeftSums ==
    ASSUME NEW d \in Nat, NEW e \in Nat, NEW q \in Nat, NEW r \in Nat
    PROVE  /\ e < d /\ r <= q + 1 => 2 * e + r < 2 * d + q
           /\ e = d /\ r + 1 = q => 2 * e + r < 2 * d + q
           /\ e = d /\ r = q => 2 * e + r = 2 * d + q
           /\ 2 * d + q \in Nat
           /\ r = q \/ r = q + 1 \/ r + 1 = q => r <= q + 1
           /\ e <= d => e < d \/ e = d
  OBVIOUS

\* A put queue grows by one when a thread or a handler takes a step, and else shrinks
\* by one when a task is taken.
LEMMA QueuedStep ==
    ASSUME TypeOK, TypeOK', [Next]_vars
    PROVE  /\ Queued \in Nat /\ Queued' \in Nat
           /\ \/ Queued' = Queued
              \/ /\ Queued' = Queued + 1
                 /\ \/ \E n \in Node : ReadyProcessor(n)
                    \/ \E n \in Node, t \in Task : Handler(n, t)
              \/ Queued' + 1 = Queued
           /\ \A n \in Node : TakePutTask(n) => Queued' + 1 = Queued
<1> DEFINE a == Somewhere
           b == Peer(Somewhere)
<1>1. a \in Node /\ b \in Node /\ a # b /\ Node = {a, b}
  BY PeerFacts, NodeAssumption DEF Somewhere
<1>2. /\ Queued = Len(putQueue[a]) + Len(putQueue[b])
      /\ Queued' = Len(putQueue'[a]) + Len(putQueue'[b])
  BY DEF Queued, Somewhere, Peer
<1> HIDE DEF a, b
<1>3. putQueue \in [Node -> Seq(Task)] /\ putQueue' \in [Node -> Seq(Task)]
      /\ rpTask \in [Node -> Task]
  BY DEF TypeOK
<1>4. ASSUME NEW s \in Seq(Task), NEW x \in Task
      PROVE  Len(s) \in Nat /\ Len(Append(s, x)) = Len(s) + 1
  OBVIOUS
<1>5. ASSUME NEW s \in Seq(Task), s # << >> PROVE Len(Tail(s)) + 1 = Len(s)
  BY <1>5
<1>6. /\ Len(putQueue[a]) \in Nat /\ Len(putQueue[b]) \in Nat
      /\ Len(putQueue'[a]) \in Nat /\ Len(putQueue'[b]) \in Nat
  BY <1>1, <1>3
<1> DEFINE p == Len(putQueue[a])
           q == Len(putQueue[b])
           pp == Len(putQueue'[a])
           qq == Len(putQueue'[b])
<1>14. /\ p \in Nat /\ q \in Nat /\ pp \in Nat /\ qq \in Nat
       /\ Queued = p + q /\ Queued' = pp + qq
  BY <1>2, <1>6
<1>15. ASSUME NEW i \in Nat, NEW j \in Nat, NEW k \in Nat
       PROVE  /\ k = i + 1 => k + j = i + j + 1 /\ j + k = j + i + 1
              /\ k + 1 = i => k + j + 1 = i + j /\ j + k + 1 = j + i
  OBVIOUS
<1>7. ASSUME NEW n \in Node, NEW x \in Task, PushPutTask(n, x) PROVE Queued' = Queued + 1
  <2>1. /\ putQueue'[n] = Append(putQueue[n], x)
        /\ \A m \in Node : m # n => putQueue'[m] = putQueue[m]
    BY <1>3, <1>7 DEF PushPutTask
  <2>2. Len(putQueue'[n]) = Len(putQueue[n]) + 1
    BY <1>3, <1>4, <2>1
  <2>3. (pp = p + 1 /\ qq = q) \/ (pp = p /\ qq = q + 1)
    BY <1>1, <2>1, <2>2
  <2> HIDE DEF p, q, pp, qq
  <2> QED
    BY <1>14, <1>15, <2>3
<1>8. ASSUME NEW n \in Node, TakePutTask(n) PROVE Queued' + 1 = Queued
  <2>1. /\ putQueue[n] # << >> /\ putQueue'[n] = Tail(putQueue[n])
        /\ \A m \in Node : m # n => putQueue'[m] = putQueue[m]
    BY <1>3, <1>8 DEF TakePutTask
  <2>2. Len(putQueue'[n]) + 1 = Len(putQueue[n])
    BY <1>3, <1>5, <2>1
  <2>3. (pp + 1 = p /\ qq = q) \/ (pp = p /\ qq + 1 = q)
    BY <1>1, <2>1, <2>2
  <2> HIDE DEF p, q, pp, qq
  <2> QED
    BY <1>14, <1>15, <2>3
<1>9. ASSUME UNCHANGED putQueue PROVE Queued' = Queued
  BY <1>2, <1>9
<1>10. ASSUME NEW n \in Node, ReadyProcessor(n) PROVE Queued' = Queued + 1 \/ Queued' = Queued
  <2>1. CASE PushReady(n)
    BY <1>3, <1>7, <2>1 DEF PushReady
  <2>2. CASE ~PushReady(n)
    BY <1>9, <1>10, <2>2 DEF ReadyProcessor, PopCommitTask, AddRequest, PeerNotFound, Invoke,
       MergeReply, FindState, FailState, FailWorking
  <2> QED
    BY <2>1, <2>2
<1>11. ASSUME NEW n \in Node, NEW t \in Task, Handler(n, t)
       PROVE  Queued' = Queued + 1 \/ Queued' = Queued
  <2>1. CASE HandlePush(n, t)
    BY <1>7, <2>1, PeerFacts DEF HandlePush
  <2>2. CASE ~HandlePush(n, t)
    BY <1>9, <1>11, <2>2 DEF Handler, HandleUpdate, HandleFind, HandleLookup
  <2> QED
    BY <2>1, <2>2
<1>12. ASSUME NEW n \in Node,
              \/ Register(n) \/ CallException(n)
              \/ \E t \in Task : Commit(n, t) \/ Downstream(n, t)
       PROVE  Queued' = Queued
  BY <1>9, <1>12 DEF Register, CallException, Commit, Downstream, RemoveTaskState,
     RemoveRequest, RemoveWorkingTask
<1>13. ASSUME UNCHANGED vars PROVE Queued' = Queued
  BY <1>9, <1>13 DEF vars
<1> QED
  <2>1. Queued \in Nat /\ Queued' \in Nat
    <3>1. ASSUME NEW i \in Nat, NEW j \in Nat PROVE i + j \in Nat
      OBVIOUS
    <3> HIDE DEF p, q, pp, qq
    <3> QED
      BY <1>14, <3>1
  <2>2. CASE \E n \in Node : TakePutTask(n)
    BY <1>8, <2>1, <2>2
  <2>3. CASE ~\E n \in Node : TakePutTask(n)
    <3>1. CASE UNCHANGED vars
      BY <1>13, <2>1, <2>3, <3>1
    <3>2. CASE ~UNCHANGED vars
      <4>1. PICK n \in Node : \/ Register(n) \/ CallException(n) \/ ReadyProcessor(n)
                              \/ \E t \in Task : Commit(n, t) \/ Handler(n, t) \/ Downstream(n, t)
        BY <2>3, <3>2 DEF Next
      <4>2. CASE ReadyProcessor(n)
        BY <1>10, <2>1, <2>3, <4>2
      <4>3. CASE \E t \in Task : Handler(n, t)
        BY <1>11, <2>1, <2>3, <4>3
      <4>4. CASE ~ReadyProcessor(n) /\ ~\E t \in Task : Handler(n, t)
        BY <1>12, <2>1, <2>3, <4>1, <4>4
      <4> QED
        BY <4>2, <4>3, <4>4
    <3> QED
      BY <3>1, <3>2
  <2> QED
    BY <2>2, <2>3

\* What is left of a task at the start: for each node 12 steps of its thread, of the
\* handler of its call and of what gives its slot back, each of which may push.
LEMMA InitLeft ==
    ASSUME IsFiniteSet(Task), Init
    PROVE  /\ Cardinality(Task) \in Nat /\ ToDo \in Nat /\ Queued = 0
           /\ Left \in Nat /\ Left <= 48 * Cardinality(Task)
<1>1. IInv
  BY InitIInv
<1>2. IsFiniteSet(Node) /\ Cardinality(Node) = 2
  <2>1. PICK a \in Node, b \in Node : a # b /\ Node = {a, b}
    BY NodeAssumption
  <2>2. IsFiniteSet({a}) /\ Cardinality({a}) = 1
    BY FS_Singleton
  <2>3. Node = {a} \cup {b} /\ b \notin {a}
    BY <2>1
  <2> QED
    BY <2>2, <2>3, FS_AddElement
<1>3. /\ IsFiniteSet(Node \X Task) /\ Cardinality(Node \X Task) = 2 * Cardinality(Task)
      /\ Cardinality(Task) \in Nat
  BY <1>2, FS_Product, FS_CardinalityType
<1>4. StepsLeft \in [Node \X Task -> 0 .. 12]
  <2>1. ASSUME NEW a \in 0 .. 6, NEW b \in 0 .. 5, NEW c \in 0 .. 1 PROVE a + b + c \in 0 .. 12
    OBVIOUS
  <2>2. ASSUME NEW p \in Node \X Task
        PROVE  /\ ThreadLeft(p[1], p[2]) \in 0 .. 6 /\ CallLeft(p[1], p[2]) \in 0 .. 5
               /\ SlotLeft(p[1], p[2]) \in 0 .. 1
    <3>1. p[1] \in Node /\ p[2] \in Task
      OBVIOUS
    <3> QED
      BY <1>1, <3>1, LeftTypes
  <2> QED
    BY <2>1, <2>2 DEF StepsLeft
<1>5. ToDo \in Nat /\ ToDo <= 24 * Cardinality(Task)
  <2>1. 12 \in Nat
    OBVIOUS
  <2> HIDE DEF StepsLeft
  <2>2. /\ Total(Node \X Task, 12, StepsLeft) \in Nat
        /\ Total(Node \X Task, 12, StepsLeft) <= Cardinality(Node \X Task) * 12
    BY <1>3, <1>4, <2>1, TotalMost
  <2> QED
    BY <1>3, <2>2 DEF ToDo
<1>6. Queued = 0
  <2>1. Somewhere \in Node /\ Peer(Somewhere) \in Node
    BY <1>2, NodeAssumption, PeerFacts DEF Somewhere
  <2> QED
    BY <2>1 DEF Queued, Init
<1> QED
  BY <1>3, <1>5, <1>6 DEF Left

\* Each behaviour has only so many steps of the system, for any finite number of tasks:
\* whatever is committed, raised and given up, the threads, the handlers and what is
\* behind the put queues come to a stop.
THEOREM StepsBounded ==
    IsFiniteSet(Task) => (Spec => [](Left \in 0 .. 48 * Cardinality(Task)) /\ StepsCounted)
<1> SUFFICES ASSUME IsFiniteSet(Task)
             PROVE  Spec => [](Left \in 0 .. 48 * Cardinality(Task)) /\ StepsCounted
  OBVIOUS
<1>1. Init => Left \in 0 .. 48 * Cardinality(Task)
  BY InitLeft
<1>3. Cardinality(Task) \in Nat
  BY FS_CardinalityType
<1>2. IInv /\ IInv' /\ [Next]_vars => [Left' <= Left /\ (System => Left' < Left)]_vars
  <2> SUFFICES ASSUME IInv, IInv', [Next]_vars, ~UNCHANGED vars
               PROVE  Left' <= Left /\ (System => Left' < Left)
    OBVIOUS
  <2>1. /\ ToDo \in Nat /\ ToDo' \in Nat /\ ToDo' <= ToDo
        /\ Queued \in Nat /\ Queued' \in Nat
    BY ToDoFalls, QueuedStep DEF IInv
  <2>4. /\ Left = 2 * ToDo + Queued /\ Left' = 2 * ToDo' + Queued'
        /\ Left \in Nat /\ Left' \in Nat
    <3>1. Left = 2 * ToDo + Queued /\ Left' = 2 * ToDo' + Queued'
      BY DEF Left
    <3> QED
      BY <2>1, <3>1, LeftSums
  <2>2. CASE ToDo' < ToDo
    <3>1. \/ Queued' = Queued
          \/ Queued' = Queued + 1
          \/ Queued' + 1 = Queued
      BY QueuedStep DEF IInv
    <3>2. Queued' <= Queued + 1
      BY <2>1, <3>1, LeftSums
    <3>3. Left' < Left
      BY <2>1, <2>2, <2>4, <3>2, LeftSums
    <3> QED
      BY <2>4, <3>3
  <2>3. CASE ToDo' = ToDo
    <3>1. /\ ~\E n \in Node : ReadyProcessor(n)
          /\ ~\E n \in Node, t \in Task : Handler(n, t) \/ RemoveRequest(n, t)
      BY <2>1, <2>3, ToDoFalls
    <3>2. Queued' = Queued \/ Queued' + 1 = Queued
      BY <3>1, QueuedStep DEF IInv
    <3>3. System => Queued' + 1 = Queued
      BY <3>1, QueuedStep DEF IInv, System
    <3>4. CASE Queued' = Queued
      <4>1. Left' = Left /\ ~System
        BY <2>1, <2>3, <2>4, <3>3, <3>4
      <4> QED
        BY <2>4, <4>1
    <3>5. CASE Queued' + 1 = Queued
      <4>1. Left' < Left
        BY <2>1, <2>3, <2>4, <3>5, LeftSums
      <4> QED
        BY <2>4, <4>1
    <3> QED
      BY <3>2, <3>4, <3>5
  <2> QED
    BY <2>1, <2>2, <2>3
<1>4. IInv /\ IInv' /\ [Next]_vars /\ Left \in 0 .. 48 * Cardinality(Task)
          => (Left \in 0 .. 48 * Cardinality(Task))'
  <2> SUFFICES ASSUME IInv, IInv', [Next]_vars, Left \in 0 .. 48 * Cardinality(Task)
               PROVE  Left' \in 0 .. 48 * Cardinality(Task)
    OBVIOUS
  <2>1. Left \in Nat /\ Left' \in Nat
    <3>1. ToDo' \in Nat /\ Queued' \in Nat /\ ToDo \in Nat /\ Queued \in Nat
      BY ToDoFalls, QueuedStep DEF IInv
    <3>2. Left = 2 * ToDo + Queued /\ Left' = 2 * ToDo' + Queued'
      BY DEF Left
    <3> QED
      BY <3>1, <3>2, LeftSums
  <2>2. CASE UNCHANGED vars
    <3>1. ToDo' <= ToDo
      BY ToDoFalls
    <3>2. Queued' = Queued
      <4>1. putQueue' = putQueue
        BY <2>2 DEF vars
      <4> QED
        BY <4>1 DEF Queued, Somewhere, Peer
    <3>3. /\ ToDo' \in Nat /\ Queued' \in Nat /\ ToDo \in Nat /\ Queued \in Nat
          /\ Left = 2 * ToDo + Queued /\ Left' = 2 * ToDo' + Queued'
      BY ToDoFalls, QueuedStep DEF IInv, Left
    <3>4. Left' <= Left
      <4>1. CASE ToDo' < ToDo
        <5>1. Queued' <= Queued + 1
          BY <3>2, <3>3
        <5>2. Left' < Left
          BY <3>3, <4>1, <5>1, LeftSums
        <5> QED
          BY <2>1, <5>2
      <4>2. CASE ToDo' = ToDo
        <5>1. Left' = Left
          BY <3>2, <3>3, <4>2
        <5> QED
          BY <2>1, <5>1
      <4> QED
        BY <3>1, <3>3, <4>1, <4>2, LeftSums
    <3> QED
      BY <1>3, <2>1, <3>4
  <2>3. CASE ~UNCHANGED vars
    <3>1. Left' <= Left
      BY <1>2, <2>3
    <3> QED
      BY <1>3, <2>1, <3>1
  <2> QED
    BY <2>2, <2>3
<1> QED
  BY <1>1, <1>2, <1>4, InductiveInvariant, PTL DEF Spec, StepsCounted
=============================================================================
