------------------------------- MODULE MpcEngine -------------------------------
(***************************************************************************)
(* The life of the engine in one process: VMClient::init and               *)
(* MpcEngine::init, the commits of the application's threads, the ready    *)
(* processor's and the monitor's threads at their queues, and              *)
(* MpcEngine::destroy.                                                     *)
(*                                                                         *)
(* The engine's components are found through pointers that init sets one   *)
(* by one and destroy clears one by one, without a lock that the other     *)
(* threads take.  A thread that follows a pointer that is null, or whose   *)
(* object has no session yet, crashes the process; one that holds the      *)
(* dispatcher after it was deleted may crash or may seem to go on.         *)
(*                                                                         *)
(* What a commit becomes is the matter of TaskHandshake and TaskPipeline:  *)
(* here the commit queue is its length, and the processors are left out.   *)
(***************************************************************************)
EXTENDS Integers, FiniteSets

CONSTANTS
    Caller,    \* the application's threads
    LoadLimit, \* m_loadLimit
    MaxInit,   \* bound: how often VMClient::init runs MpcEngine::init
    MaxCommit  \* bound: the commits begun

ASSUME EngineAssumption ==
    /\ IsFiniteSet(Caller) /\ Caller # {}
    /\ LoadLimit \in Nat \ {0}
    /\ MaxInit \in Nat /\ MaxCommit \in Nat

InitPc == {"idle", "servant", "listen", "dispatcher", "start", "ready", "monitor",
           "client", "data", "end"}

CallerPc == {"idle", "init", "info", "check", "push", "count"}

ReadyPc == {"none", "loop", "pop", "wait", "after", "count", "work", "done"}

MonitorPc == {"none", "loop", "pop", "wait", "put", "done"}

DestroyPc == {"idle", "dispatcher", "notify", "exit", "delete", "monitor"}

VARIABLES
    inited,       \* VMClient's inited
    engineInited, \* the engine's m_inited
    initPc,       \* where MpcEngine::init is
    inits,        \* how often it was started
    servant,      \* m_mpcNodeServer2: null, starting, up, or never to come up
    iceMain,      \* external: the process's Ice application
    dispatcher,   \* m_taskDispatcher, and its m_inited
    client,       \* m_platonClient # nullptr
    registered,   \* has a data provider given its user_address?
    pc,           \* where a thread of the application is
    commits,      \* how many commits were begun
    queued,       \* the length of m_commitQueue
    counter,      \* m_atomicCommitNum
    exited,       \* m_commitQueue's m_exited
    readyPc,      \* the ready processor's thread
    putQueue,     \* the length of m_putQueue
    monPc,        \* the monitor's thread
    destroyPc,    \* where MpcEngine::destroy is
    crashed       \* did the process crash, and over what?

startVars == <<inited, engineInited, initPc, inits>>
objectVars == <<servant, iceMain, dispatcher, client>>
commitVars == <<pc, commits, queued, counter>>
threadVars == <<readyPc, monPc, putQueue>>
vars == <<startVars, objectVars, registered, commitVars, exited, threadVars,
          destroyPc, crashed>>

TypeOK ==
    /\ inited \in BOOLEAN /\ engineInited \in BOOLEAN
    /\ initPc \in InitPc
    /\ inits \in 0 .. MaxInit
    /\ servant \in {"null", "starting", "up", "orphan"}
    /\ iceMain \in {"none", "starting", "up"}
    /\ dispatcher \in {"null", "new", "inited", "exited"}
    /\ client \in BOOLEAN /\ registered \in BOOLEAN
    /\ pc \in [Caller -> CallerPc]
    /\ commits \in 0 .. MaxCommit
    /\ queued \in Nat /\ counter \in Int
    /\ exited \in BOOLEAN
    /\ readyPc \in ReadyPc /\ monPc \in MonitorPc
    /\ putQueue \in Nat
    /\ destroyPc \in DestroyPc
    /\ crashed \in {"no", "pointer", "answer"}

Init ==
    /\ inited = FALSE /\ engineInited = FALSE
    /\ initPc = "idle" /\ inits = 0
    /\ servant = "null" /\ iceMain = "none"
    /\ dispatcher = "null" /\ client = FALSE
    /\ registered = FALSE
    /\ pc = [c \in Caller |-> "idle"]
    /\ commits = 0 /\ queued = 0 /\ counter = 0
    /\ exited = FALSE
    /\ readyPc = "none" /\ monPc = "none" /\ putQueue = 0
    /\ destroyPc = "idle"
    /\ crashed = "no"

Crash(cause) ==
    /\ crashed' = cause
    /\ UNCHANGED <<startVars, objectVars, registered, commitVars, exited, threadVars, destroyPc>>

-----------------------------------------------------------------------------
(* Start: VMClient::init holds its mutex while MpcEngine::init runs.       *)

\* notify_security_init looks at inited without the mutex.
EnterInit(c) ==
    /\ pc[c] = "idle" /\ ~inited
    /\ pc' = [pc EXCEPT ![c] = "init"]
    /\ UNCHANGED <<startVars, objectVars, registered, commits, queued, counter, exited,
                   threadVars, destroyPc, crashed>>

\* Mutant: inited is not looked at again under the mutex.
LockInitNoRecheck(c) ==
    /\ pc[c] = "init" /\ initPc = "idle"
    /\ inits < MaxInit /\ initPc' = "servant" /\ inits' = inits + 1
    /\ pc' = [pc EXCEPT ![c] = "idle"]
    /\ UNCHANGED <<inited, engineInited, objectVars, registered, commits, queued, counter,
                   exited, threadVars, destroyPc, crashed>>

\* It gets the mutex, looks again, and starts the engine's init.  From here on
\* the thread that holds the mutex is initPc.
LockInit(c) ==
    /\ pc[c] = "init" /\ initPc = "idle"
    /\ IF inited
         THEN UNCHANGED <<initPc, inits>>
         ELSE inits < MaxInit /\ initPc' = "servant" /\ inits' = inits + 1
    /\ pc' = [pc EXCEPT ![c] = "idle"]
    /\ UNCHANGED <<inited, engineInited, objectVars, registered, commits, queued, counter,
                   exited, threadVars, destroyPc, crashed>>

\* A new servant.  A process has one Ice application: the servant of a later
\* attempt never comes up while the first one's runs.
NewServant ==
    /\ initPc = "servant"
    /\ IF iceMain = "none"
         THEN servant' = "starting" /\ iceMain' = "starting"
         ELSE servant' = "orphan" /\ iceMain' = iceMain
    /\ initPc' = "listen"
    /\ UNCHANGED <<inited, engineInited, inits, dispatcher, client, registered, commitVars,
                   exited, threadVars, destroyPc, crashed>>

\* MpcNodeServant::run: the session exists and the adapter is active, or the
\* Ice application ends with an error.
RunServant ==
    /\ iceMain = "starting"
    /\ \/ iceMain' = "up" /\ servant' = IF servant = "starting" THEN "up" ELSE servant
       \/ iceMain' = "none" /\ servant' = IF servant = "starting" THEN "orphan" ELSE servant
    /\ UNCHANGED <<startVars, dispatcher, client, registered, commitVars, exited, threadVars,
                   destroyPc, crashed>>

ServantListens ==
    /\ initPc = "listen" /\ servant = "up"
    /\ initPc' = "dispatcher"
    /\ UNCHANGED <<inited, engineInited, inits, objectVars, registered, commitVars, exited,
                   threadVars, destroyPc, crashed>>

\* init fails: ten waits for the servant passed, or the ABI or the directory of
\* the circuits cannot be had.  The destroy that VMClient::init then calls does
\* nothing, since engineInited is FALSE.
FailInit ==
    /\ \/ initPc = "listen" /\ servant # "up"
       \/ initPc = "data"
    /\ initPc' = "idle"
    /\ UNCHANGED <<inited, engineInited, inits, objectVars, registered, commitVars, exited,
                   threadVars, destroyPc, crashed>>

NewDispatcher ==
    /\ initPc = "dispatcher"
    /\ dispatcher' = "new" /\ queued' = 0 /\ exited' = FALSE
    /\ initPc' = "start"
    /\ UNCHANGED <<inited, engineInited, inits, servant, iceMain, client, registered, pc,
                   commits, counter, threadVars, destroyPc, crashed>>

StartDispatcher ==
    /\ initPc = "start"
    /\ dispatcher' = "inited" /\ counter' = 0
    /\ initPc' = "ready"
    /\ UNCHANGED <<inited, engineInited, inits, servant, iceMain, client, registered, pc,
                   commits, queued, exited, threadVars, destroyPc, crashed>>

StartReadyProcessor ==
    /\ initPc = "ready"
    /\ readyPc' = "loop" /\ initPc' = "monitor"
    /\ UNCHANGED <<inited, engineInited, inits, objectVars, registered, commitVars, exited,
                   monPc, putQueue, destroyPc, crashed>>

StartMonitor ==
    /\ initPc = "monitor"
    /\ monPc' = "loop" /\ initPc' = "client"
    /\ UNCHANGED <<inited, engineInited, inits, objectVars, registered, commitVars, exited,
                   readyPc, putQueue, destroyPc, crashed>>

\* The client factory, which no thread needs before the first commit, and the
\* JSON-RPC client.
NewClient ==
    /\ initPc = "client"
    /\ client' = TRUE /\ initPc' = "data"
    /\ UNCHANGED <<inited, engineInited, inits, servant, iceMain, dispatcher, registered,
                   commitVars, exited, threadVars, destroyPc, crashed>>

InitEngine ==
    /\ initPc = "data"
    /\ engineInited' = TRUE /\ initPc' = "end"
    /\ UNCHANGED <<inited, inits, objectVars, registered, commitVars, exited, threadVars,
                   destroyPc, crashed>>

\* VMClient::init sets inited and leaves the mutex.
EndInit ==
    /\ initPc = "end"
    /\ inited' = TRUE /\ initPc' = "idle"
    /\ UNCHANGED <<engineInited, inits, objectVars, registered, commitVars, exited, threadVars,
                   destroyPc, crashed>>

Start ==
    \/ \E c \in Caller : EnterInit(c) \/ LockInit(c)
    \/ NewServant \/ RunServant \/ ServantListens \/ NewDispatcher \/ StartDispatcher
    \/ StartReadyProcessor \/ StartMonitor \/ NewClient \/ InitEngine \/ EndInit \/ FailInit

-----------------------------------------------------------------------------
(* The server's threads: calls of a peer and of a data provider.           *)

\* invite2, notify2 and inputData use the dispatcher without a test; what they
\* do to it is in TaskHandshake and BufferChannel.
PeerCall ==
    /\ iceMain = "up" /\ dispatcher = "null"
    /\ Crash("pointer")

\* registTransactionCallback: the address is set before the JSON-RPC client is used.
Register ==
    /\ iceMain = "up"
    /\ registered' = TRUE
    /\ crashed' = IF client THEN crashed ELSE "pointer"
    /\ UNCHANGED <<startVars, objectVars, commitVars, exited, threadVars, destroyPc>>

-----------------------------------------------------------------------------
(* Commits: notify_security_calculation, VMClient::commit, MpcEngine::commit. *)

\* Inited, and the engine's test of its pointer and of m_inited.
Commit(c) ==
    /\ pc[c] = "idle" /\ inited
    /\ commits < MaxCommit
    /\ dispatcher # "null" /\ engineInited
    /\ pc' = [pc EXCEPT ![c] = "info"]
    /\ commits' = commits + 1
    /\ UNCHANGED <<startVars, objectVars, registered, queued, counter, exited, threadVars,
                   destroyPc, crashed>>

\* The address of the session, then the circuit and the parties of the task from
\* the chain.  No data provider and a wrong answer end the commit; an empty answer
\* (a call that failed) throws in getString, and two commits that cache a circuit
\* race on m_irDataHashs.
GetAllInfo(c) ==
    /\ pc[c] = "info"
    /\ \/ servant # "up" /\ Crash("pointer")
       \/ servant = "up" /\ registered /\ Crash("answer")
       \/ /\ servant = "up"
          /\ \/ registered /\ pc' = [pc EXCEPT ![c] = "check"]
             \/ pc' = [pc EXCEPT ![c] = "idle"]
          /\ UNCHANGED <<startVars, objectVars, registered, commits, queued, counter, exited,
                         threadVars, destroyPc, crashed>>

\* Mutant: the limit may be reached once more.
PutCommitTaskOneMore(c) ==
    /\ pc[c] = "check"
    /\ \/ dispatcher = "null" /\ Crash("pointer")
       \/ /\ dispatcher # "null"
          /\ pc' = [pc EXCEPT ![c] = IF dispatcher = "inited" /\ counter <= LoadLimit
                                       THEN "push" ELSE "idle"]
          /\ UNCHANGED <<startVars, objectVars, registered, commits, queued, counter, exited,
                         threadVars, destroyPc, crashed>>

\* putCommitTask refuses when the dispatcher is not inited or the counter is at
\* the limit.
PutCommitTask(c) ==
    /\ pc[c] = "check"
    /\ \/ dispatcher = "null" /\ Crash("pointer")
       \/ /\ dispatcher # "null"
          /\ pc' = [pc EXCEPT ![c] = IF dispatcher = "inited" /\ counter < LoadLimit
                                       THEN "push" ELSE "idle"]
          /\ UNCHANGED <<startVars, objectVars, registered, commits, queued, counter, exited,
                         threadVars, destroyPc, crashed>>

PushCommit(c) ==
    /\ pc[c] = "push" /\ dispatcher # "null"
    /\ queued' = queued + 1
    /\ pc' = [pc EXCEPT ![c] = "count"]
    /\ UNCHANGED <<startVars, objectVars, registered, commits, counter, exited, threadVars,
                   destroyPc, crashed>>

CountCommit(c) ==
    /\ pc[c] = "count" /\ dispatcher # "null"
    /\ counter' = counter + 1
    /\ pc' = [pc EXCEPT ![c] = "idle"]
    /\ UNCHANGED <<startVars, objectVars, registered, commits, queued, exited, threadVars,
                   destroyPc, crashed>>

\* In a deleted dispatcher: a crash, or nothing comes of the commit.
CommitUsesDeleted(c) ==
    /\ dispatcher = "null" /\ pc[c] \in {"push", "count"}
    /\ \/ Crash("pointer")
       \/ /\ pc' = [pc EXCEPT ![c] = "idle"]
          /\ UNCHANGED <<startVars, objectVars, registered, commits, queued, counter, exited,
                         threadVars, destroyPc, crashed>>

-----------------------------------------------------------------------------
(* The ready processor's thread: processReadyTask, popCommitTask, SafeQueue::pop. *)

\* It reads the dispatcher's pointer and the address of the servant's session;
\* without an address it sleeps and comes back.
ReadyLoop ==
    /\ readyPc = "loop"
    /\ \/ servant # "up" /\ Crash("pointer")
       \/ /\ servant = "up" /\ registered
          /\ readyPc' = "pop"
          /\ UNCHANGED <<startVars, objectVars, registered, commitVars, exited, monPc, putQueue,
                         destroyPc, crashed>>

\* The tests of popCommitTask and of SafeQueue::pop, the first one under no lock.
PopCommitTask ==
    /\ readyPc = "pop" /\ dispatcher # "null"
    /\ \/ /\ dispatcher # "inited" \/ exited
          /\ readyPc' = "after" /\ UNCHANGED queued
       \/ /\ ~exited /\ queued > 0
          /\ readyPc' = "count" /\ queued' = queued - 1
       \/ /\ ~exited /\ queued = 0
          /\ readyPc' = "wait" /\ UNCHANGED queued
    /\ UNCHANGED <<startVars, objectVars, registered, pc, commits, counter, exited, monPc,
                   putQueue, destroyPc, crashed>>

\* Mutant: after a wait the queue is not looked at again.
WakeNoTest ==
    /\ readyPc = "wait" /\ dispatcher # "null"
    /\ \/ exited /\ readyPc' = "after" /\ UNCHANGED queued
       \/ ~exited /\ readyPc' = "count" /\ queued' = queued - 1
    /\ UNCHANGED <<startVars, objectVars, registered, pc, commits, counter, exited, monPc,
                   putQueue, destroyPc, crashed>>

\* Mutant: the wait has no limit, only a push ends it.
WakeUntimed ==
    /\ readyPc = "wait" /\ dispatcher # "null"
    /\ ~exited /\ queued > 0 /\ readyPc' = "count" /\ queued' = queued - 1
    /\ UNCHANGED <<startVars, objectVars, registered, pc, commits, counter, exited, monPc,
                   putQueue, destroyPc, crashed>>

\* A push, or 1000 ms, end the wait; the dispatcher may be gone by then.
Wake ==
    /\ readyPc = "wait"
    /\ \/ dispatcher = "null" /\ readyPc' = "pop" /\ UNCHANGED queued
       \/ /\ dispatcher # "null" /\ (exited \/ queued = 0)
          /\ readyPc' = "after" /\ UNCHANGED queued
       \/ /\ dispatcher # "null" /\ ~exited /\ queued > 0
          /\ readyPc' = "count" /\ queued' = queued - 1
    /\ UNCHANGED <<startVars, objectVars, registered, pc, commits, counter, exited, monPc,
                   putQueue, destroyPc, crashed>>

\* popCommitTask returned no task: the thread leaves if the dispatcher is not inited.
AfterPop ==
    /\ readyPc = "after" /\ dispatcher # "null"
    /\ readyPc' = IF dispatcher = "inited" THEN "loop" ELSE "done"
    /\ UNCHANGED <<startVars, objectVars, registered, commitVars, exited, monPc, putQueue,
                   destroyPc, crashed>>

\* Mutant: the counter is not taken back.
CountPopNot ==
    /\ readyPc = "count" /\ dispatcher # "null"
    /\ readyPc' = "work"
    /\ UNCHANGED <<startVars, objectVars, registered, commitVars, exited, monPc, putQueue,
                   destroyPc, crashed>>

CountPop ==
    /\ readyPc = "count" /\ dispatcher # "null"
    /\ counter' = counter - 1
    /\ readyPc' = "work"
    /\ UNCHANGED <<startVars, objectVars, registered, pc, commits, queued, exited, monPc,
                   putQueue, destroyPc, crashed>>

\* The rest of processReadyTask, which TaskHandshake models: it may wait for a
\* request slot for ever; the task may become ready, or not.
Work ==
    /\ readyPc = "work" /\ dispatcher # "null"
    /\ readyPc' = "loop"
    /\ putQueue' \in {putQueue, putQueue + 1}
    /\ UNCHANGED <<startVars, objectVars, registered, commitVars, exited, monPc, destroyPc, crashed>>

\* The thread goes on in a deleted dispatcher: the process crashes, or the thread
\* finds there what a dispatcher that has exited holds.
ReadyUsesDeleted ==
    /\ dispatcher = "null" /\ readyPc \in {"pop", "after", "count", "work"}
    /\ \/ Crash("pointer")
       \/ /\ readyPc \in {"pop", "after"}
          /\ readyPc' = "done"
          /\ UNCHANGED <<startVars, objectVars, registered, commitVars, exited, monPc, putQueue,
                         destroyPc, crashed>>

ReadyProcessor ==
    ReadyLoop \/ PopCommitTask \/ Wake \/ AfterPop \/ CountPop \/ ReadyUsesDeleted

-----------------------------------------------------------------------------
(* The monitor's thread, whose pop has no limit.                           *)

MonitorLoop ==
    /\ monPc = "loop"
    /\ monPc' = IF dispatcher = "null" THEN "done" ELSE "pop"
    /\ UNCHANGED <<startVars, objectVars, registered, commitVars, exited, readyPc, putQueue,
                   destroyPc, crashed>>

PopPutTask ==
    /\ monPc \in {"pop", "wait"} /\ dispatcher # "null"
    /\ \/ putQueue > 0 /\ monPc' = "put" /\ putQueue' = putQueue - 1
       \/ putQueue = 0 /\ monPc = "pop" /\ monPc' = "wait" /\ UNCHANGED putQueue
    /\ UNCHANGED <<startVars, objectVars, registered, commitVars, exited, readyPc, destroyPc, crashed>>

\* putReadyTask, which returns also when the dispatcher is not inited any more.
PutReadyTask ==
    /\ monPc = "put" /\ dispatcher # "null"
    /\ monPc' = "loop"
    /\ UNCHANGED <<startVars, objectVars, registered, commitVars, exited, readyPc, putQueue,
                   destroyPc, crashed>>

\* In a deleted dispatcher; one that sleeps there is not woken.
MonitorUsesDeleted ==
    /\ dispatcher = "null" /\ monPc \in {"pop", "put"}
    /\ \/ Crash("pointer")
       \/ /\ monPc' = "loop"
          /\ UNCHANGED <<startVars, objectVars, registered, commitVars, exited, readyPc, putQueue,
                         destroyPc, crashed>>

Monitor == MonitorLoop \/ PopPutTask \/ PutReadyTask \/ MonitorUsesDeleted

-----------------------------------------------------------------------------
(* MpcEngine::destroy.                                                     *)

\* ~MpcNodeServant shuts the Ice application down and waits for its threads.
DeleteServant ==
    /\ destroyPc = "idle" /\ engineInited
    /\ servant' = "null" /\ iceMain' = "none"
    /\ destroyPc' = "dispatcher"
    /\ UNCHANGED <<startVars, dispatcher, client, registered, commitVars, exited, threadVars, crashed>>

DestroyDispatcher ==
    /\ destroyPc = "dispatcher"
    /\ dispatcher' = "exited"
    /\ destroyPc' = "notify"
    /\ UNCHANGED <<startVars, servant, iceMain, client, registered, commitVars, exited, threadVars,
                   crashed>>

\* notify_exit: a waiter that is woken looks at the queue and at m_exited,
\* before or after the flag is set.
NotifyAll ==
    /\ destroyPc = "notify"
    /\ readyPc' = IF readyPc = "wait" THEN "pop" ELSE readyPc
    /\ destroyPc' = "exit"
    /\ UNCHANGED <<startVars, objectVars, registered, commitVars, exited, monPc, putQueue, crashed>>

SetExited ==
    /\ destroyPc = "exit"
    /\ exited' = TRUE
    /\ destroyPc' = "delete"
    /\ UNCHANGED <<startVars, objectVars, registered, commitVars, threadVars, crashed>>

\* The processors are joined and the dispatcher is deleted.  To destroy a
\* condition variable somebody waits on is undefined: it returns, as here, or
\* blocks, and then this step is not taken.
DeleteDispatcher ==
    /\ destroyPc = "delete"
    /\ dispatcher' = "null"
    /\ destroyPc' = "monitor"
    /\ UNCHANGED <<startVars, servant, iceMain, client, registered, commitVars, exited, threadVars,
                   crashed>>

\* The monitor is joined, then deleted: its destructor joins the thread object
\* that the first join left deleted but not null.  destroy gets no further.
JoinMonitorTwice ==
    /\ destroyPc = "monitor" /\ monPc = "done"
    /\ Crash("pointer")

Destroy == DeleteServant \/ DestroyDispatcher \/ NotifyAll \/ SetExited \/ DeleteDispatcher

-----------------------------------------------------------------------------
Next ==
    /\ crashed = "no"
    /\ \/ Start \/ PeerCall \/ Register
       \/ \E c \in Caller :
             Commit(c) \/ GetAllInfo(c) \/ PutCommitTask(c) \/ PushCommit(c) \/ CountCommit(c)
             \/ CommitUsesDeleted(c)
       \/ ReadyProcessor \/ Work \/ Monitor
       \/ Destroy \/ JoinMonitorTwice

Spec == Init /\ [][Next]_vars

-----------------------------------------------------------------------------
(* Fairness: the threads of the engine, and the one that destroys it, are     *)
(* scheduled.  None for the application, the server, the outcome of init, and  *)
(* for Work, which may wait for ever.                                          *)

FairSpec ==
    /\ Spec
    /\ WF_vars(crashed = "no" /\ ReadyProcessor)
    /\ WF_vars(crashed = "no" /\ Monitor)
    /\ WF_vars(crashed = "no" /\ Destroy)

-----------------------------------------------------------------------------
(* Properties.                                                             *)

\* The limit of putCommitTask is tested before the push and counted after it:
\* the queue may pass it, but only by the other threads that commit.
CommitBound == queued <= LoadLimit + Cardinality(Caller) - 1

Refused(c) ==
    /\ pc[c] = "check" /\ dispatcher = "inited" /\ destroyPc = "idle"
    /\ pc'[c] = "idle"

\* A commit is refused only when the queue is full, or is one short of it because
\* the thread that took a task has not counted it yet (popCommitTask): no history
\* of commits and pops leaves the counter too high.
RefusedOnlyWhenFull ==
    [][\A c \in Caller : Refused(c) => queued >= LoadLimit - 1]_vars

\* From the end of MpcEngine::init to the start of destroy no thread follows a
\* null pointer: whatever calls arrived while init ran, and whoever else tried
\* VMClient::init at the same time.
NoNullInService == engineInited /\ destroyPc = "idle" => crashed # "pointer"

\* Once the dispatcher has exited, the ready processor's thread leaves it, although
\* notify_exit wakes the waiters before it sets the flag; unless the process
\* crashes, or the thread is held up by the task it has.
ReadyLeaves ==
    exited /\ destroyPc # "idle" ~> readyPc \in {"done", "work"} \/ crashed # "no"

\* Nobody stays asleep on a queue of the dispatcher after notify_exit, which the
\* comment in SafeQueue says is there to keep threads from waiting when resources
\* are released.
NobodyLeftWaiting ==
    destroyPc \in {"delete", "monitor"} ~>
        (readyPc # "wait" /\ monPc # "wait") \/ crashed # "no"
===============================================================================
