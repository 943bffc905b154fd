---------------------------- MODULE MpcEngine_proofs ----------------------------
(***************************************************************************)
(* Theorems about MpcEngine, for every number of threads and every limit:  *)
(* the commit queue passes its limit by the other committing threads at    *)
(* most, a commit is refused only when the queue is full or one short of   *)
(* it, and no thread follows a null pointer while the engine is in service. *)
(*                                                                         *)
(* Once a destroy has stopped the ready processor, its thread takes a few  *)
(* steps more and ends (LeavingBounded).                                   *)
(***************************************************************************)
EXTENDS MpcEngine, FiniteSetTheorems, TLAPS

\* The threads between putCommitTask's test and its push, and between push and count.
Pushing == {c \in Caller : pc[c] = "push"}
Counting == {c \in Caller : pc[c] = "count"}

\* The tasks taken from the queue that are still in the counter.
Uncounted == IF readyPc = "count" THEN 1 ELSE 0

\* Who may set inited, and when the engine is inited.
MutexSound ==
    /\ inited => engineInited /\ initPc = "idle"
    /\ engineInited => inited \/ initPc = "end"
    /\ initPc = "end" => engineInited
    /\ destroyPc # "idle" => engineInited
    /\ \A c \in Caller : pc[c] \notin {"idle", "init"} => inited

\* What the steps of init, and the first ones of destroy, may rely on.
StepsSound ==
    /\ initPc \in {"dispatcher", "start", "ready", "monitor", "client", "data"} => servant = "up"
    /\ initPc \in {"ready", "monitor", "client", "data"} => dispatcher = "inited"
    /\ initPc = "data" => client
    /\ initPc = "start" => queued = 0
    /\ destroyPc = "dispatcher" => dispatcher = "inited"

\* There is one ready processor's thread: while it runs no other servant comes up.
OneThread ==
    /\ servant = "up" => iceMain = "up"
    /\ servant = "starting" => readyPc = "none"
    /\ initPc = "listen" /\ servant = "up" => readyPc = "none"
    /\ initPc \in {"dispatcher", "start", "ready"} => readyPc = "none"
    /\ readyPc # "none" /\ destroyPc = "idle" => iceMain = "up"

\* The engine in service has all its components.
ServiceSound ==
    engineInited /\ destroyPc = "idle" =>
        servant = "up" /\ dispatcher = "inited" /\ client /\ crashed # "pointer"

CountSound ==
    dispatcher \in {"inited", "exited"} =>
        counter = queued - Cardinality(Counting) + Uncounted

BoundSound == queued + Cardinality(Pushing) <= LoadLimit + Cardinality(Caller) - 1

Flags == MutexSound /\ StepsSound /\ OneThread /\ ServiceSound

IInv == TypeOK /\ Flags /\ CountSound /\ BoundSound

-----------------------------------------------------------------------------
(* The threads at a place of the commit, as one of them moves.               *)

LEMMA CallersFinite == IsFiniteSet(Caller) /\ Cardinality(Caller) \in Nat \ {0}
<1>1. IsFiniteSet(Caller) /\ Caller # {}
  BY EngineAssumption
<1> QED
  BY <1>1, FS_CardinalityType, FS_EmptySet

\* How the number of threads at a place changes when thread c moves.
LEMMA PlaceCount ==
    ASSUME NEW f \in [Caller -> CallerPc], NEW c \in Caller, NEW v \in CallerPc,
           NEW place \in CallerPc,
           NEW g, g = [f EXCEPT ![c] = v]
    PROVE  LET n == Cardinality({d \in Caller : f[d] = place})
               m == Cardinality({d \in Caller : g[d] = place})
           IN  /\ n \in Nat /\ m \in Nat
               /\ ((f[c] = place) <=> (v = place)) => m = n
               /\ f[c] # place /\ v = place => m = n + 1
               /\ f[c] = place /\ v # place => m = n - 1
<1> DEFINE N == {d \in Caller : f[d] = place}
           M == {d \in Caller : g[d] = place}
<1>1. IsFiniteSet(N) /\ IsFiniteSet(M)
  BY CallersFinite, FS_Subset, N \subseteq Caller, M \subseteq Caller
<1>2. Cardinality(N) \in Nat /\ Cardinality(M) \in Nat
  BY <1>1, FS_CardinalityType
<1>3. ((f[c] = place) <=> (v = place)) => M = N
  OBVIOUS
<1>4. ASSUME f[c] # place, v = place PROVE Cardinality(M) = Cardinality(N) + 1
  <2>1. M = N \cup {c} /\ c \notin N
    BY <1>4
  <2> QED
    BY <2>1, <1>1, FS_AddElement
<1>5. ASSUME f[c] = place, v # place PROVE Cardinality(M) = Cardinality(N) - 1
  <2>1. M = N \ {c} /\ c \in N
    BY <1>5
  <2> QED
    BY <2>1, <1>1, FS_RemoveElement
<1> QED
  BY <1>2, <1>3, <1>4, <1>5

\* Threads at two different places, and a third somewhere else.
LEMMA TwoPlaces ==
    ASSUME NEW c \in Caller, pc[c] \notin {"push", "count"}
    PROVE  /\ Cardinality(Pushing) \in Nat /\ Cardinality(Counting) \in Nat
           /\ Cardinality(Pushing) + Cardinality(Counting) <= Cardinality(Caller) - 1
<1>1. IsFiniteSet(Pushing) /\ IsFiniteSet(Counting)
  BY CallersFinite, FS_Subset, Pushing \subseteq Caller, Counting \subseteq Caller
     DEF Pushing, Counting
<1>2. Pushing \cap Counting = {} /\ Pushing \cup Counting \subseteq Caller \ {c}
  BY DEF Pushing, Counting
<1>3. IsFiniteSet(Caller \ {c}) /\ Cardinality(Caller \ {c}) = Cardinality(Caller) - 1
  BY CallersFinite, FS_RemoveElement
<1>4. Cardinality(Pushing \cup Counting) <= Cardinality(Caller) - 1
  BY <1>2, <1>3, FS_Subset
<1>5. Cardinality(Pushing \cup Counting) = Cardinality(Pushing) + Cardinality(Counting)
  <2>1. Cardinality(Pushing \cup Counting)
          = Cardinality(Pushing) + Cardinality(Counting) - Cardinality(Pushing \cap Counting)
    BY <1>1, FS_Union
  <2>2. Cardinality(Pushing \cap Counting) = 0
    BY <1>2, FS_EmptySet
  <2>3. Cardinality(Pushing) \in Nat /\ Cardinality(Counting) \in Nat
    BY <1>1, FS_CardinalityType
  <2> QED
    BY <2>1, <2>2, <2>3
<1> QED
  BY <1>1, <1>4, <1>5, FS_CardinalityType

-----------------------------------------------------------------------------
(* The type invariant.                                                       *)

LEMMA TypeStep == TypeOK /\ [Next]_vars => TypeOK'
<1> SUFFICES ASSUME TypeOK, [Next]_vars PROVE TypeOK'
  OBVIOUS
<1> USE EngineAssumption DEF TypeOK, InitPc, CallerPc, ReadyPc, MonitorPc, DestroyPc,
        startVars, objectVars, commitVars, threadVars
<1>1. CASE Start
  <2>1. ASSUME NEW c \in Caller, EnterInit(c) \/ LockInit(c) PROVE TypeOK'
    BY <2>1 DEF EnterInit, LockInit
  <2>2. CASE NewServant
    BY <2>2 DEF NewServant
  <2>3. CASE RunServant
    BY <2>3 DEF RunServant
  <2>4. CASE ServantListens
    BY <2>4 DEF ServantListens
  <2>5. CASE NewDispatcher
    <3>1. exited' \in BOOLEAN
      BY <2>5 DEF NewDispatcher
    <3>2. queued' = 0 /\ dispatcher' = "new" /\ initPc' = "start"
      BY <2>5 DEF NewDispatcher
    <3>3. /\ UNCHANGED <<inited, engineInited, inits, servant, iceMain, client, registered>>
          /\ UNCHANGED <<pc, commits, counter, readyPc, monPc, putQueue, destroyPc, crashed>>
      BY <2>5 DEF NewDispatcher
    <3> QED
      BY <3>1, <3>2, <3>3
  <2>6. CASE StartDispatcher
    BY <2>6 DEF StartDispatcher
  <2>7. CASE StartReadyProcessor
    BY <2>7 DEF StartReadyProcessor
  <2>8. CASE StartMonitor
    BY <2>8 DEF StartMonitor
  <2>9. CASE NewClient
    BY <2>9 DEF NewClient
  <2>10. CASE InitEngine
    BY <2>10 DEF InitEngine
  <2>11. CASE EndInit
    BY <2>11 DEF EndInit
  <2>12. CASE FailInit
    BY <2>12 DEF FailInit
  <2> QED
    BY <1>1, <2>1, <2>2, <2>3, <2>4, <2>5, <2>6, <2>7, <2>8, <2>9, <2>10, <2>11, <2>12 DEF Start
<1>2. CASE PeerCall \/ Register \/ JoinMonitorTwice
  <2>1. CASE PeerCall
    BY <2>1 DEF PeerCall, Crash
  <2>2. CASE Register
    BY <2>2 DEF Register, Crash
  <2>3. CASE JoinMonitorTwice
    BY <2>3 DEF JoinMonitorTwice, Crash
  <2> QED
    BY <1>2, <2>1, <2>2, <2>3
<1>3. ASSUME NEW c \in Caller,
             Commit(c) \/ GetAllInfo(c) \/ PutCommitTask(c) \/ PushCommit(c) \/ CountCommit(c)
                 \/ CommitUsesDeleted(c)
      PROVE  TypeOK'
  <2>1. CASE Commit(c)
    BY <2>1 DEF Commit
  <2>2. CASE GetAllInfo(c)
    BY <2>2 DEF GetAllInfo, Crash
  <2>3. CASE PutCommitTask(c)
    BY <2>3 DEF PutCommitTask, Crash
  <2>4. CASE PushCommit(c)
    BY <2>4 DEF PushCommit
  <2>5. CASE CountCommit(c)
    BY <2>5 DEF CountCommit
  <2>6. CASE CommitUsesDeleted(c)
    BY <2>6 DEF CommitUsesDeleted, Crash
  <2> QED
    BY <1>3, <2>1, <2>2, <2>3, <2>4, <2>5, <2>6
<1>4. CASE ReadyProcessor \/ Work
  <2>1. CASE ReadyLoop
    BY <2>1 DEF ReadyLoop, Crash
  <2>2. CASE PopCommitTask
    BY <2>2 DEF PopCommitTask
  <2>3. CASE Wake
    BY <2>3 DEF Wake
  <2>4. CASE AfterPop
    BY <2>4 DEF AfterPop
  <2>5. CASE CountPop
    BY <2>5 DEF CountPop
  <2>6. CASE ReadyUsesDeleted
    BY <2>6 DEF ReadyUsesDeleted, Crash
  <2>7. CASE Work
    BY <2>7 DEF Work
  <2> QED
    BY <1>4, <2>1, <2>2, <2>3, <2>4, <2>5, <2>6, <2>7 DEF ReadyProcessor
<1>5. CASE Monitor
  <2>1. CASE MonitorLoop
    BY <2>1 DEF MonitorLoop
  <2>2. CASE PopPutTask
    BY <2>2 DEF PopPutTask
  <2>3. CASE PutReadyTask
    BY <2>3 DEF PutReadyTask
  <2>4. CASE MonitorUsesDeleted
    BY <2>4 DEF MonitorUsesDeleted, Crash
  <2> QED
    BY <1>5, <2>1, <2>2, <2>3, <2>4 DEF Monitor
<1>6. CASE Destroy
  <2>1. CASE DeleteServant
    BY <2>1 DEF DeleteServant
  <2>2. CASE DestroyDispatcher
    BY <2>2 DEF DestroyDispatcher
  <2>3. CASE NotifyAll
    BY <2>3 DEF NotifyAll
  <2>4. CASE SetExited
    BY <2>4 DEF SetExited
  <2>5. CASE DeleteDispatcher
    BY <2>5 DEF DeleteDispatcher
  <2> QED
    BY <1>6, <2>1, <2>2, <2>3, <2>4, <2>5 DEF Destroy
<1>7. CASE UNCHANGED vars
  BY <1>7 DEF vars
<1> QED
  BY <1>1, <1>2, <1>3, <1>4, <1>5, <1>6, <1>7 DEF Next

-----------------------------------------------------------------------------
(* The flags and pointers.                                                   *)

LEMMA FlagsStep == TypeOK /\ Flags /\ [Next]_vars => Flags'
<1> SUFFICES ASSUME TypeOK, Flags, [Next]_vars PROVE Flags'
  OBVIOUS
<1> USE DEF Flags, MutexSound, StepsSound, OneThread, ServiceSound, startVars, objectVars,
        commitVars, threadVars
<1>0. pc \in [Caller -> CallerPc]
  BY DEF TypeOK
<1>1. ASSUME crashed = "no", Start PROVE Flags'
  <2>0. ASSUME NEW c \in Caller, EnterInit(c) \/ LockInit(c) PROVE Flags'
    BY <1>0, <2>0 DEF EnterInit, LockInit
  <2>1. CASE NewServant
    BY <1>1, <2>1 DEF NewServant
  <2>2. CASE RunServant
    BY <1>1, <2>2 DEF RunServant
  <2>3. CASE ServantListens
    BY <1>1, <2>3 DEF ServantListens
  <2>4. CASE NewDispatcher
    BY <1>1, <2>4 DEF NewDispatcher
  <2>5. CASE StartDispatcher
    BY <1>1, <2>5 DEF StartDispatcher
  <2>6. CASE StartReadyProcessor
    BY <1>1, <2>6 DEF StartReadyProcessor
  <2>7. CASE StartMonitor
    BY <1>1, <2>7 DEF StartMonitor
  <2>8. CASE NewClient
    BY <1>1, <2>8 DEF NewClient
  <2>9. CASE InitEngine
    BY <1>1, <2>9 DEF InitEngine
  <2>10. CASE EndInit
    BY <1>1, <2>10 DEF EndInit
  <2>11. CASE FailInit
    BY <1>1, <2>11 DEF FailInit
  <2> QED
    BY <1>1, <2>0, <2>1, <2>2, <2>3, <2>4, <2>5, <2>6, <2>7, <2>8, <2>9, <2>10, <2>11 DEF Start
<1>2. ASSUME crashed = "no", PeerCall \/ Register \/ JoinMonitorTwice PROVE Flags'
  <2>1. CASE PeerCall
    BY <1>0, <1>2, <2>1 DEF PeerCall, Crash
  <2>2. CASE Register
    BY <1>0, <1>2, <2>2 DEF Register, Crash
  <2>3. CASE JoinMonitorTwice
    BY <1>0, <1>2, <2>3 DEF JoinMonitorTwice, Crash
  <2> QED
    BY <1>2, <2>1, <2>2, <2>3
<1>3. ASSUME crashed = "no", NEW c \in Caller,
             Commit(c) \/ GetAllInfo(c) \/ PutCommitTask(c) \/ PushCommit(c) \/ CountCommit(c)
                 \/ CommitUsesDeleted(c)
      PROVE  Flags'
  <2>1. CASE Commit(c)
    BY <1>0, <1>3, <2>1 DEF Commit
  <2>2. CASE GetAllInfo(c)
    BY <1>0, <1>3, <2>2 DEF GetAllInfo, Crash
  <2>3. CASE PutCommitTask(c)
    BY <1>0, <1>3, <2>3 DEF PutCommitTask, Crash
  <2>4. CASE PushCommit(c)
    BY <1>0, <1>3, <2>4 DEF PushCommit
  <2>5. CASE CountCommit(c)
    BY <1>0, <1>3, <2>5 DEF CountCommit
  <2>6. CASE CommitUsesDeleted(c)
    BY <1>0, <1>3, <2>6 DEF CommitUsesDeleted, Crash
  <2> QED
    BY <1>3, <2>1, <2>2, <2>3, <2>4, <2>5, <2>6
<1>4. ASSUME crashed = "no", ReadyProcessor \/ Work PROVE Flags'
  <2>1. CASE ReadyLoop
    BY <1>0, <1>4, <2>1 DEF ReadyLoop, Crash
  <2>2. CASE PopCommitTask
    BY <1>0, <1>4, <2>2 DEF PopCommitTask
  <2>3. CASE Wake
    BY <1>0, <1>4, <2>3 DEF Wake
  <2>4. CASE AfterPop
    BY <1>0, <1>4, <2>4 DEF AfterPop
  <2>5. CASE CountPop
    BY <1>0, <1>4, <2>5 DEF CountPop
  <2>6. CASE ReadyUsesDeleted
    BY <1>0, <1>4, <2>6 DEF ReadyUsesDeleted, Crash
  <2>7. CASE Work
    BY <1>0, <1>4, <2>7 DEF Work
  <2> QED
    BY <1>4, <2>1, <2>2, <2>3, <2>4, <2>5, <2>6, <2>7 DEF ReadyProcessor
<1>5. ASSUME crashed = "no", Monitor PROVE Flags'
  <2>1. CASE MonitorLoop
    BY <1>0, <1>5, <2>1 DEF MonitorLoop
  <2>2. CASE PopPutTask
    BY <1>0, <1>5, <2>2 DEF PopPutTask
  <2>3. CASE PutReadyTask
    BY <1>0, <1>5, <2>3 DEF PutReadyTask
  <2>4. CASE MonitorUsesDeleted
    BY <1>0, <1>5, <2>4 DEF MonitorUsesDeleted, Crash
  <2> QED
    BY <1>5, <2>1, <2>2, <2>3, <2>4 DEF Monitor
<1>6. ASSUME crashed = "no", Destroy PROVE Flags'
  <2>1. CASE DeleteServant
    BY <1>0, <1>6, <2>1 DEF DeleteServant
  <2>2. CASE DestroyDispatcher
    BY <1>0, <1>6, <2>2 DEF DestroyDispatcher
  <2>3. CASE NotifyAll
    BY <1>0, <1>6, <2>3 DEF NotifyAll
  <2>4. CASE SetExited
    BY <1>0, <1>6, <2>4 DEF SetExited
  <2>5. CASE DeleteDispatcher
    BY <1>0, <1>6, <2>5 DEF DeleteDispatcher
  <2> QED
    BY <1>6, <2>1, <2>2, <2>3, <2>4, <2>5 DEF Destroy
<1>7. CASE UNCHANGED vars
  BY <1>7 DEF vars
<1> QED
  BY <1>1, <1>2, <1>3, <1>4, <1>5, <1>6, <1>7 DEF Next

-----------------------------------------------------------------------------
(* The counter and the length of the queue.                                  *)

LEMMA CountStep == TypeOK /\ Flags /\ CountSound /\ BoundSound /\ [Next]_vars
                       => CountSound' /\ BoundSound'
<1> SUFFICES ASSUME TypeOK, Flags, CountSound, BoundSound, [Next]_vars
             PROVE  CountSound' /\ BoundSound'
  OBVIOUS
<1> DEFINE P == Cardinality(Pushing)
           K == Cardinality(Counting)
           N == Cardinality(Caller)
<1>0. /\ pc \in [Caller -> CallerPc] /\ queued \in Nat /\ counter \in Int
      /\ LoadLimit \in Nat /\ N \in Nat
  BY EngineAssumption, CallersFinite DEF TypeOK
<1>1. ASSUME NEW c \in Caller, NEW v \in CallerPc, pc' = [pc EXCEPT ![c] = v]
      PROVE  /\ P \in Nat /\ P' \in Nat /\ K \in Nat /\ K' \in Nat
             /\ ((pc[c] = "push") <=> (v = "push")) => P' = P
             /\ pc[c] # "push" /\ v = "push" => P' = P + 1
             /\ pc[c] = "push" /\ v # "push" => P' = P - 1
             /\ ((pc[c] = "count") <=> (v = "count")) => K' = K
             /\ pc[c] # "count" /\ v = "count" => K' = K + 1
             /\ pc[c] = "count" /\ v # "count" => K' = K - 1
  <2>1. "push" \in CallerPc /\ "count" \in CallerPc
    BY DEF CallerPc
  <2>2. /\ P \in Nat /\ P' \in Nat
        /\ ((pc[c] = "push") <=> (v = "push")) => P' = P
        /\ pc[c] # "push" /\ v = "push" => P' = P + 1
        /\ pc[c] = "push" /\ v # "push" => P' = P - 1
    BY <1>0, <1>1, <2>1, PlaceCount, SMTT(60) DEF Pushing
  <2>3. /\ K \in Nat /\ K' \in Nat
        /\ ((pc[c] = "count") <=> (v = "count")) => K' = K
        /\ pc[c] # "count" /\ v = "count" => K' = K + 1
        /\ pc[c] = "count" /\ v # "count" => K' = K - 1
    BY <1>0, <1>1, <2>1, PlaceCount, SMTT(60) DEF Counting
  <2> QED
    BY <2>2, <2>3
<1>2. P \in Nat /\ K \in Nat
  <2>1. Pushing \in SUBSET Caller /\ Counting \in SUBSET Caller
    BY DEF Pushing, Counting
  <2>2. IsFiniteSet(Pushing) /\ IsFiniteSet(Counting)
    BY <2>1, CallersFinite, FS_Subset
  <2> QED
    BY <2>2, FS_CardinalityType
<1>3. Uncounted \in {0, 1}
  BY DEF Uncounted
<1>4. ASSUME pc' = pc PROVE Pushing' = Pushing /\ Counting' = Counting /\ P' = P /\ K' = K
  BY <1>4 DEF Pushing, Counting
<1>5. /\ dispatcher \in {"inited", "exited"} => counter = queued - K + Uncounted
      /\ queued + P <= LoadLimit + N - 1
  BY DEF CountSound, BoundSound
<1>6. ASSUME dispatcher' \in {"inited", "exited"} => counter' = queued' - K' + Uncounted',
             queued' + P' <= LoadLimit + N - 1
      PROVE  CountSound' /\ BoundSound'
  BY <1>6 DEF CountSound, BoundSound
<1> HIDE DEF P, K, N
<1> USE DEF startVars, objectVars, commitVars, threadVars
<1>7. ASSUME NEW c \in Caller, EnterInit(c) \/ LockInit(c) \/ Commit(c)
      PROVE  CountSound' /\ BoundSound'
  <2>1. PICK v \in {"idle", "init", "info"} :
            pc' = [pc EXCEPT ![c] = v] /\ pc[c] \in {"idle", "init"}
    BY <1>7 DEF EnterInit, LockInit, Commit
  <2>2. P' = P /\ K' = K
    BY <1>1, <2>1 DEF CallerPc
  <2> QED
    BY <1>5, <1>6, <1>7, <2>2 DEF EnterInit, LockInit, Commit, Uncounted
<1>8. ASSUME pc' = pc, queued' = queued, counter' = counter, Uncounted' = Uncounted,
             dispatcher' \in {"inited", "exited"} => dispatcher \in {"inited", "exited"}
      PROVE  CountSound' /\ BoundSound'
  BY <1>4, <1>5, <1>6, <1>8
<1>9. CASE Start
  <2>1. CASE NewDispatcher
    BY <1>0, <1>2, <1>4, <1>5, <1>6, <2>1 DEF NewDispatcher
  <2>2. CASE StartDispatcher
    <3>1. Counting = {}
      BY <2>2 DEF StartDispatcher, Counting, Flags, MutexSound
    <3>2. K = 0
      BY <3>1, FS_EmptySet DEF K
    <3>3. Uncounted = 0 /\ Uncounted' = 0 /\ queued = 0
      BY <2>2 DEF StartDispatcher, Uncounted, Flags, OneThread, StepsSound
    <3> QED
      BY <1>0, <1>2, <1>4, <1>5, <1>6, <2>2, <3>2, <3>3 DEF StartDispatcher
  <2>3. CASE StartReadyProcessor
    BY <1>8, <2>3 DEF StartReadyProcessor, Uncounted, Flags, OneThread
  <2>4. CASE NewServant
    BY <1>8, <2>4 DEF NewServant, Uncounted
  <2>5. CASE RunServant
    BY <1>8, <2>5 DEF RunServant, Uncounted
  <2>6. CASE ServantListens
    BY <1>8, <2>6 DEF ServantListens, Uncounted
  <2>7. CASE StartMonitor
    BY <1>8, <2>7 DEF StartMonitor, Uncounted
  <2>8. CASE NewClient
    BY <1>8, <2>8 DEF NewClient, Uncounted
  <2>9. CASE InitEngine
    BY <1>8, <2>9 DEF InitEngine, Uncounted
  <2>10. CASE EndInit
    BY <1>8, <2>10 DEF EndInit, Uncounted
  <2>11. CASE FailInit
    BY <1>8, <2>11 DEF FailInit, Uncounted
  <2> QED
    BY <1>7, <1>9, <2>1, <2>2, <2>3, <2>4, <2>5, <2>6, <2>7, <2>8, <2>9, <2>10, <2>11 DEF Start
<1>10. CASE PeerCall \/ Register \/ JoinMonitorTwice
  <2>1. CASE PeerCall
    BY <1>8, <2>1 DEF PeerCall, Crash, Uncounted
  <2>2. CASE Register
    BY <1>8, <2>2 DEF Register, Crash, Uncounted
  <2>3. CASE JoinMonitorTwice
    BY <1>8, <2>3 DEF JoinMonitorTwice, Crash, Uncounted
  <2> QED
    BY <1>10, <2>1, <2>2, <2>3
<1>11. ASSUME NEW c \in Caller, GetAllInfo(c) \/ CommitUsesDeleted(c)
       PROVE  CountSound' /\ BoundSound'
  <2>1. CASE UNCHANGED pc
    BY <1>8, <1>11, <2>1 DEF GetAllInfo, CommitUsesDeleted, Crash, Uncounted
  <2>2. CASE GetAllInfo(c) /\ pc' # pc
    <3>1. PICK v \in {"check", "idle"} : pc' = [pc EXCEPT ![c] = v] /\ pc[c] = "info"
      BY <2>2 DEF GetAllInfo, Crash
    <3>2. P' = P /\ K' = K
      BY <1>1, <3>1 DEF CallerPc
    <3> QED
      BY <1>5, <1>6, <2>2, <3>2 DEF GetAllInfo, Crash, Uncounted
  <2>3. CASE CommitUsesDeleted(c) /\ pc' # pc
    <3>1. pc' = [pc EXCEPT ![c] = "idle"] /\ pc[c] \in {"push", "count"}
      BY <2>3 DEF CommitUsesDeleted, Crash
    <3>2. P' = P \/ P' = P - 1
      BY <1>1, <3>1 DEF CallerPc
    <3>3. P' \in Nat
      BY <1>1, <3>1 DEF CallerPc
    <3> QED
      BY <1>0, <1>2, <1>5, <1>6, <2>3, <3>2, <3>3 DEF CommitUsesDeleted, Crash
  <2> QED
    BY <1>11, <2>1, <2>2, <2>3
<1>12. ASSUME NEW c \in Caller, PutCommitTask(c) PROVE CountSound' /\ BoundSound'
  <2>1. CASE UNCHANGED pc
    BY <1>8, <1>12, <2>1 DEF PutCommitTask, Crash, Uncounted
  <2>2. CASE pc' = [pc EXCEPT ![c] = "idle"]
    <3>1. P' = P /\ K' = K
      BY <1>1, <1>12, <2>2 DEF PutCommitTask, CallerPc
    <3> QED
      BY <1>5, <1>6, <1>12, <3>1 DEF PutCommitTask, Crash, Uncounted
  <2>3. CASE pc' = [pc EXCEPT ![c] = "push"] /\ pc' # pc
    <3>1. dispatcher = "inited" /\ counter < LoadLimit /\ pc[c] = "check"
      <4>1. "push" # "idle" /\ pc'[c] = "push"
        BY <1>0, <2>3
      <4> QED
        BY <1>0, <1>12, <2>3, <4>1 DEF PutCommitTask, Crash
    <3>2. P' = P + 1 /\ K' = K
      BY <1>1, <2>3, <3>1 DEF CallerPc
    <3>3. P + K <= N - 1
      BY <3>1, TwoPlaces DEF P, K, N
    <3>4. queued - K <= counter
      BY <1>0, <1>2, <1>3, <1>5, <3>1
    <3>5. queued + P' <= LoadLimit + N - 1
      BY <1>0, <1>2, <3>1, <3>2, <3>3, <3>4
    <3> QED
      BY <1>5, <1>6, <1>12, <3>2, <3>5 DEF PutCommitTask, Crash, Uncounted
  <2> QED
    BY <1>12, <2>1, <2>2, <2>3 DEF PutCommitTask, Crash
<1>13. ASSUME NEW c \in Caller, PushCommit(c) PROVE CountSound' /\ BoundSound'
  <2>1. P' = P - 1 /\ K' = K + 1
    BY <1>1, <1>13 DEF PushCommit, CallerPc
  <2>2. queued' = queued + 1 /\ UNCHANGED <<counter, Uncounted, dispatcher>>
    BY <1>13 DEF PushCommit, Uncounted
  <2> QED
    BY <1>0, <1>2, <1>3, <1>5, <1>6, <2>1, <2>2
<1>14. ASSUME NEW c \in Caller, CountCommit(c) PROVE CountSound' /\ BoundSound'
  <2>1. P' = P /\ K' = K - 1
    BY <1>1, <1>14 DEF CountCommit, CallerPc
  <2>2. counter' = counter + 1 /\ UNCHANGED <<queued, Uncounted, dispatcher>>
    BY <1>14 DEF CountCommit, Uncounted
  <2> QED
    BY <1>0, <1>2, <1>3, <1>5, <1>6, <2>1, <2>2
<1>15. CASE PopCommitTask \/ Wake
  <2>1. pc' = pc /\ UNCHANGED <<counter, dispatcher>>
    BY <1>15 DEF PopCommitTask, Wake
  <2>2. \/ queued' = queued /\ Uncounted' = Uncounted
        \/ queued' = queued - 1 /\ Uncounted = 0 /\ Uncounted' = 1
    BY <1>15 DEF PopCommitTask, Wake, Uncounted
  <2> QED
    BY <1>0, <1>2, <1>3, <1>4, <1>5, <1>6, <2>1, <2>2
<1>16. CASE CountPop
  <2>1. pc' = pc /\ UNCHANGED <<queued, dispatcher>> /\ counter' = counter - 1
    BY <1>16 DEF CountPop
  <2>2. Uncounted = 1 /\ Uncounted' = 0
    BY <1>16 DEF CountPop, Uncounted
  <2> QED
    BY <1>0, <1>2, <1>4, <1>5, <1>6, <2>1, <2>2
<1>17. CASE ReadyLoop \/ AfterPop \/ ReadyUsesDeleted \/ Work
  <2>1. CASE ReadyLoop
    BY <1>8, <2>1 DEF ReadyLoop, Crash, Uncounted
  <2>2. CASE AfterPop
    BY <1>8, <2>2 DEF AfterPop, Uncounted
  <2>3. CASE ReadyUsesDeleted
    BY <1>8, <2>3 DEF ReadyUsesDeleted, Crash, Uncounted
  <2>4. CASE Work
    BY <1>8, <2>4 DEF Work, Uncounted
  <2> QED
    BY <1>17, <2>1, <2>2, <2>3, <2>4
<1>18. CASE Monitor
  <2>1. CASE MonitorLoop
    BY <1>8, <2>1 DEF MonitorLoop, Uncounted
  <2>2. CASE PopPutTask
    BY <1>8, <2>2 DEF PopPutTask, Uncounted
  <2>3. CASE PutReadyTask
    BY <1>8, <2>3 DEF PutReadyTask, Uncounted
  <2>4. CASE MonitorUsesDeleted
    BY <1>8, <2>4 DEF MonitorUsesDeleted, Crash, Uncounted
  <2> QED
    BY <1>18, <2>1, <2>2, <2>3, <2>4 DEF Monitor
<1>19. CASE Destroy
  <2>1. CASE DeleteServant
    BY <1>8, <2>1 DEF DeleteServant, Uncounted
  <2>2. CASE DestroyDispatcher
    BY <1>8, <2>2 DEF DestroyDispatcher, Uncounted, Flags, StepsSound
  <2>3. CASE NotifyAll
    BY <1>8, <2>3 DEF NotifyAll, Uncounted
  <2>4. CASE SetExited
    BY <1>8, <2>4 DEF SetExited, Uncounted
  <2>5. CASE DeleteDispatcher
    BY <1>8, <2>5 DEF DeleteDispatcher, Uncounted
  <2> QED
    BY <1>19, <2>1, <2>2, <2>3, <2>4, <2>5 DEF Destroy
<1>20. CASE UNCHANGED vars
  BY <1>8, <1>20 DEF vars, Uncounted
<1> QED
  BY <1>7, <1>9, <1>10, <1>11, <1>12, <1>13, <1>14, <1>15, <1>16, <1>17, <1>18, <1>19, <1>20
     DEF Next, ReadyProcessor

-----------------------------------------------------------------------------
(* Theorems.                                                                 *)

LEMMA InitInv == Init => IInv
<1> SUFFICES ASSUME Init PROVE IInv
  OBVIOUS
<1>1. TypeOK
  <2>1. /\ inited \in BOOLEAN /\ engineInited \in BOOLEAN /\ client \in BOOLEAN
        /\ registered \in BOOLEAN /\ exited \in BOOLEAN
    BY DEF Init
  <2>2. /\ initPc \in InitPc /\ readyPc \in ReadyPc /\ monPc \in MonitorPc
        /\ destroyPc \in DestroyPc /\ pc \in [Caller -> CallerPc]
    BY DEF Init, InitPc, CallerPc, ReadyPc, MonitorPc, DestroyPc
  <2>3. /\ servant \in {"null", "starting", "up", "orphan"}
        /\ iceMain \in {"none", "starting", "up"}
        /\ dispatcher \in {"null", "new", "inited", "exited"}
        /\ crashed \in {"no", "pointer", "answer"}
    BY DEF Init
  <2>4. /\ inits \in 0 .. MaxInit /\ commits \in 0 .. MaxCommit
        /\ queued \in Nat /\ counter \in Int /\ putQueue \in Nat
    BY EngineAssumption DEF Init
  <2> QED
    BY <2>1, <2>2, <2>3, <2>4 DEF TypeOK
<1>2. Flags
  BY DEF Init, Flags, MutexSound, StepsSound, OneThread, ServiceSound
<1>3. CountSound
  BY DEF Init, CountSound
<1>4. BoundSound
  <2>1. Pushing = {}
    BY DEF Init, Pushing
  <2>2. Cardinality(Pushing) = 0
    BY <2>1, FS_EmptySet
  <2> QED
    BY <2>2, CallersFinite, EngineAssumption DEF Init, BoundSound
<1> QED
  BY <1>1, <1>2, <1>3, <1>4 DEF IInv

\* The inductive invariant: who may be where while init and destroy move the
\* pointers, and what the counter and the length of the queue owe to threads
\* between two steps.
THEOREM EngineInductive == Spec => []IInv
<1>1. IInv /\ [Next]_vars => IInv'
  BY TypeStep, FlagsStep, CountStep DEF IInv
<1> QED
  BY InitInv, <1>1, PTL DEF Spec

\* The variables of the engine keep their types.
THEOREM TypeCorrect == Spec => []TypeOK
<1>1. IInv => TypeOK
  BY DEF IInv
<1> QED
  BY EngineInductive, <1>1, PTL

\* The commit queue (putCommitTask) passes its limit by at most the number of
\* committing threads less one.
THEOREM CommitBoundCorrect == Spec => []CommitBound
<1>1. IInv => CommitBound
  <2> SUFFICES ASSUME IInv PROVE CommitBound
    OBVIOUS
  <2>1. Pushing \in SUBSET Caller
    BY DEF Pushing
  <2>2. Cardinality(Pushing) \in Nat
    BY <2>1, CallersFinite, FS_Subset, FS_CardinalityType
  <2> QED
    BY <2>2, CallersFinite, EngineAssumption DEF IInv, TypeOK, BoundSound, CommitBound
<1> QED
  BY EngineInductive, <1>1, PTL

\* No thread follows a null pointer while the engine is in service: not the
\* server's, not the ready processor's, not one that commits.
THEOREM NoNullInServiceCorrect == Spec => []NoNullInService
<1>1. IInv => NoNullInService
  BY DEF IInv, Flags, ServiceSound, NoNullInService
<1> QED
  BY EngineInductive, <1>1, PTL

\* A commit is refused only when the queue is full or one short of it.
THEOREM RefusedCorrect == Spec => RefusedOnlyWhenFull
<1>1. ASSUME IInv, Next, NEW c \in Caller, Refused(c) PROVE queued >= LoadLimit - 1
  <2>1. pc \in [Caller -> CallerPc] /\ queued \in Nat /\ counter \in Int /\ LoadLimit \in Nat
    BY <1>1, EngineAssumption DEF IInv, TypeOK
  <2>2. pc[c] = "check" /\ pc'[c] = "idle" /\ dispatcher = "inited"
    BY <1>1 DEF Refused
  <2>3. PutCommitTask(c)
    <3>1. ASSUME NEW d \in Caller,
                 EnterInit(d) \/ LockInit(d) \/ Commit(d) \/ GetAllInfo(d) \/ PutCommitTask(d)
                     \/ PushCommit(d) \/ CountCommit(d) \/ CommitUsesDeleted(d)
          PROVE  PutCommitTask(c)
      BY <2>1, <2>2, <3>1
         DEF EnterInit, LockInit, Commit, GetAllInfo, PutCommitTask, PushCommit, CountCommit,
             CommitUsesDeleted, Crash, commitVars
    <3>2. UNCHANGED pc => FALSE
      BY <2>2
    <3> QED
      BY <1>1, <3>1, <3>2
         DEF Next, Start, NewServant, RunServant, ServantListens, NewDispatcher, StartDispatcher,
             StartReadyProcessor, StartMonitor, NewClient, InitEngine, EndInit, FailInit,
             PeerCall, Register, Crash, ReadyProcessor, ReadyLoop, PopCommitTask, Wake, AfterPop,
             CountPop, ReadyUsesDeleted, Work, Monitor, MonitorLoop, PopPutTask, PutReadyTask,
             MonitorUsesDeleted, Destroy, DeleteServant, DestroyDispatcher, NotifyAll, SetExited,
             DeleteDispatcher, JoinMonitorTwice, commitVars
  <2>4. ~(counter < LoadLimit)
    BY <2>1, <2>2, <2>3 DEF PutCommitTask, Crash, commitVars
  <2>5. counter = queued - Cardinality(Counting) + Uncounted
    BY <1>1, <2>2 DEF IInv, CountSound
  <2>6. Counting \in SUBSET Caller
    BY DEF Counting
  <2>7. Cardinality(Counting) \in Nat
    BY <2>6, CallersFinite, FS_Subset, FS_CardinalityType
  <2> QED
    BY <2>1, <2>4, <2>5, <2>7 DEF Uncounted
<1>2. IInv /\ [Next]_vars => [\A c \in Caller : Refused(c) => queued >= LoadLimit - 1]_vars
  BY <1>1
<1> QED
  BY EngineInductive, <1>2, PTL DEF Spec, RefusedOnlyWhenFull

-----------------------------------------------------------------------------
(* How long the ready processor's thread can stay after the exit.            *)

\* The dispatcher has exited for good, and the queue only after it.
ExitSound ==
    /\ destroyPc \in {"notify", "exit", "delete", "monitor"} => dispatcher \in {"exited", "null"}
    /\ exited => destroyPc \in {"delete", "monitor"}

LEMMA ExitStep == IInv /\ ExitSound /\ [Next]_vars => ExitSound'
<1> SUFFICES ASSUME IInv, ExitSound, [Next]_vars PROVE ExitSound'
  OBVIOUS
<1>0. destroyPc # "idle" => initPc \in {"idle", "end"}
  BY DEF IInv, Flags, MutexSound
<1>1. CASE UNCHANGED <<dispatcher, exited, destroyPc>>
  BY <1>1 DEF ExitSound
<1>2. CASE NewDispatcher \/ StartDispatcher
  <2>1. destroyPc = "idle"
    BY <1>0, <1>2 DEF NewDispatcher, StartDispatcher
  <2>2. destroyPc' = "idle" /\ (exited' => exited)
    BY <1>2, <2>1 DEF NewDispatcher, StartDispatcher
  <2> QED
    BY <2>1, <2>2 DEF ExitSound
<1>3. CASE Destroy
  BY <1>3 DEF ExitSound, Destroy, DeleteServant, DestroyDispatcher, NotifyAll, SetExited,
     DeleteDispatcher, objectVars
<1>4. CASE UNCHANGED vars
  BY <1>1, <1>4 DEF vars, objectVars
<1>5. ASSUME NEW c \in Caller,
             \/ EnterInit(c) \/ LockInit(c) \/ Commit(c) \/ GetAllInfo(c) \/ PutCommitTask(c)
             \/ PushCommit(c) \/ CountCommit(c) \/ CommitUsesDeleted(c)
      PROVE  UNCHANGED <<dispatcher, exited, destroyPc>>
  BY <1>5 DEF EnterInit, LockInit, Commit, GetAllInfo, PutCommitTask, PushCommit, CountCommit,
     CommitUsesDeleted, Crash, objectVars
<1>6. CASE NewServant \/ RunServant \/ ServantListens \/ StartReadyProcessor \/ StartMonitor
               \/ NewClient \/ InitEngine \/ EndInit \/ FailInit \/ PeerCall \/ Register
  BY <1>1, <1>6 DEF NewServant, RunServant, ServantListens, StartReadyProcessor, StartMonitor,
     NewClient, InitEngine, EndInit, FailInit, PeerCall, Register, Crash, objectVars
<1>7. CASE ReadyProcessor \/ Work \/ Monitor \/ JoinMonitorTwice
  BY <1>1, <1>7 DEF ReadyProcessor, ReadyLoop, PopCommitTask, Wake, AfterPop, CountPop,
     ReadyUsesDeleted, Work, Monitor, MonitorLoop, PopPutTask, PutReadyTask, MonitorUsesDeleted,
     JoinMonitorTwice, Crash, objectVars
<1> QED
  BY <1>1, <1>2, <1>3, <1>4, <1>5, <1>6, <1>7 DEF Next, Start

\* The steps of the thread from its place to its end, once the dispatcher has exited.
ReadyLeft ==
    CASE readyPc = "count" -> 6
      [] readyPc = "work" -> 5
      [] readyPc = "loop" -> 4
      [] readyPc = "wait" -> 3
      [] readyPc = "pop" -> 2
      [] readyPc = "after" -> 1
      [] readyPc \in {"none", "done"} -> 0

\* The exit is never taken back, and from then on each step of the thread brings it
\* nearer to its end, or crashes the process.
LeavingCounted ==
    [][exited =>
           /\ exited'
           /\ ReadyLeft' <= ReadyLeft
           /\ ReadyProcessor \/ Work => ReadyLeft' < ReadyLeft \/ crashed' # "no"]_vars

\* After notify_exit has set the flag the ready processor's thread takes six steps at
\* most: its loop of timed waits does not go round again, whether the dispatcher is
\* still there or already deleted.
THEOREM LeavingBounded == Spec => [](ReadyLeft \in 0 .. 6) /\ LeavingCounted
<1>1. IInv => ReadyLeft \in 0 .. 6
  <2> SUFFICES ASSUME readyPc \in ReadyPc PROVE ReadyLeft \in 0 .. 6
    BY DEF IInv, TypeOK
  <2> QED
    BY DEF ReadyPc, ReadyLeft
<1>2. ASSUME IInv, IInv', ExitSound, Next, exited
      PROVE  /\ exited'
             /\ ReadyLeft' <= ReadyLeft
             /\ ReadyProcessor \/ Work => ReadyLeft' < ReadyLeft \/ crashed' # "no"
  <2>0. /\ ReadyLeft \in 0 .. 6 /\ ReadyLeft' \in 0 .. 6
    <3>1. readyPc \in ReadyPc /\ readyPc' \in ReadyPc
      BY <1>2 DEF IInv, TypeOK
    <3> QED
      BY <3>1 DEF ReadyPc, ReadyLeft
  <2>1. /\ destroyPc \in {"delete", "monitor"} /\ dispatcher \in {"exited", "null"}
        /\ initPc \in {"idle", "end"}
    BY <1>2 DEF ExitSound, IInv, Flags, MutexSound
  <2>2. exited'
    BY <1>2, <2>1
       DEF Next, Start, EnterInit, LockInit, NewServant, RunServant, ServantListens,
           NewDispatcher, StartDispatcher, StartReadyProcessor, StartMonitor, NewClient,
           InitEngine, EndInit, FailInit, PeerCall, Register, Commit, GetAllInfo,
           PutCommitTask, PushCommit, CountCommit, CommitUsesDeleted, Crash, ReadyProcessor,
           ReadyLoop, PopCommitTask, Wake, AfterPop, CountPop, ReadyUsesDeleted, Work, Monitor,
           MonitorLoop, PopPutTask, PutReadyTask, MonitorUsesDeleted, Destroy, DeleteServant,
           DestroyDispatcher, NotifyAll, SetExited, DeleteDispatcher, JoinMonitorTwice
  <2>3. CASE ReadyProcessor \/ Work
    <3>1. \/ crashed' # "no" /\ readyPc' = readyPc
          \/ readyPc = "loop" /\ readyPc' = "pop"
          \/ readyPc = "pop" /\ readyPc' = "after"
          \/ readyPc = "wait" /\ readyPc' \in {"pop", "after"}
          \/ readyPc = "after" /\ readyPc' = "done"
          \/ readyPc = "count" /\ readyPc' = "work"
          \/ readyPc = "work" /\ readyPc' = "loop"
          \/ readyPc \in {"pop", "after"} /\ readyPc' = "done"
      BY <1>2, <2>1, <2>3
         DEF ReadyProcessor, ReadyLoop, PopCommitTask, Wake, AfterPop, CountPop,
             ReadyUsesDeleted, Work, Crash, threadVars
    <3>2. CASE crashed' # "no" /\ readyPc' = readyPc
      <4>1. ReadyLeft' = ReadyLeft
        BY <3>2 DEF ReadyLeft
      <4> QED
        BY <2>0, <2>2, <3>2, <4>1
    <3>3. CASE ~(crashed' # "no" /\ readyPc' = readyPc)
      <4>1. ReadyLeft' < ReadyLeft
        BY <3>1, <3>3 DEF ReadyLeft
      <4> QED
        BY <2>0, <2>2, <4>1
    <3> QED
      BY <3>2, <3>3
  <2>4. CASE ~(ReadyProcessor \/ Work)
    <3>1. readyPc' = readyPc
      BY <1>2, <2>1, <2>4
         DEF Next, Start, EnterInit, LockInit, NewServant, RunServant, ServantListens,
             NewDispatcher, StartDispatcher, StartReadyProcessor, StartMonitor, NewClient,
             InitEngine, EndInit, FailInit, PeerCall, Register, Commit, GetAllInfo,
             PutCommitTask, PushCommit, CountCommit, CommitUsesDeleted, Crash, Monitor,
             MonitorLoop, PopPutTask, PutReadyTask, MonitorUsesDeleted, Destroy,
             DeleteServant, DestroyDispatcher, NotifyAll, SetExited, DeleteDispatcher,
             JoinMonitorTwice, threadVars
    <3>2. ReadyLeft' = ReadyLeft
      BY <3>1 DEF ReadyLeft
    <3> QED
      BY <2>0, <2>2, <2>4, <3>2
  <2> QED
    BY <2>3, <2>4
<1>3. IInv /\ IInv' /\ ExitSound /\ [Next]_vars =>
          [exited =>
               /\ exited'
               /\ ReadyLeft' <= ReadyLeft
               /\ ReadyProcessor \/ Work => ReadyLeft' < ReadyLeft \/ crashed' # "no"]_vars
  BY <1>2
<1>4. Init => ExitSound
  BY DEF Init, ExitSound
<1> QED
  BY <1>1, <1>3, <1>4, EngineInductive, ExitStep, PTL DEF Spec, LeavingCounted
===============================================================================
