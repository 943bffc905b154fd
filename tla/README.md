# A TLA+ model of the PlatON MPC VM service

The MPC VM (`src/src/mpc-vm-service`) runs two-party computations for a data
provider.  A task is committed at two nodes; the nodes agree that both have it,
run the same garbled circuit (one as *alice*, the invitor, one as *bob*, the
invitee), exchange buffers while it runs, and bob sends the result to the chain.
This directory models that: the handshake, what a node does with an agreed task,
the two nodes together, the buffers of a running computation, who a node is in a
task, and the life of the engine from the first call of the application to its
destruction.

## The system

| Component | State it keeps | Operations |
|---|---|---|
| `VMClient`, `MpcEngine` (`core/`) | the other components; the user's nonces | `init`, `destroy`, `commit`: reads the task's parties from the chain, then `putCommitTask` |
| `MpcTaskDispatcher` (`task/`) | commit queue, task states, working tasks, request slots, put queue, two ready queues, first input buffers | put/pop of every queue, `updateTaskState`/`findTaskState`, `addRequest`/`removeRequest`, `putBuffer` |
| `MpcP2pTaskReadyProcessor` (`task/`) | one thread, one task at a time | `processReadyTask`: pop a commit, take a slot, call the peer, merge the reply, push the task |
| `NodeChannelSessionImpl` (`server/`) | none | `invite2`, `notify2` (the peer's call), `inputData` (a buffer of the peer); run in the Ice server's threads |
| `MPCPutReadyMonitor` (`task/`) | one thread | put queue -> ready queue of the task's role |
| `MpcTaskProcessor` (`task/`) | one thread per role, its task, its queue of buffers, `m_requestSeq` | `processTask`, `processMpcBusi`, `inputBuffer`, `consumeBuffer` |
| `CommunicatorIOChannel` (`io/`) | `m_seq`, the unread bytes | `send_data`, `recv_data` for the circuit library |
| `TaskSessionImpl` (`server/`) | the data provider's callbacks and address | registration, look-up |
| `MpcNodeClientFactory`, node clients (`client/`) | one client per user | `invite`, `notify` (synchronous), `forward` (asynchronous, result ignored) |
| `MpcNodeServant` (`server/`) | the Ice communicator | start, stop |
| `PlatonClient` (`jrpc/`) | none | JSON-RPC calls; exceptions become empty answers |
| `SafeQueue`, `SafeMap` (`mpc-vm-common/utils`) | a queue or map, a mutex | atomic operations, `notify_exit` |
| SDK wrapper | none | modelled with `MpcEngine` |
| codecs, logger, generated and third-party code | none of interest | not modelled |

How they interact, for one task at one node:

    commit -> commit queue -> ready processor --invite/notify--> peer's session
                                 |  \-- task state, working task, slot --/ |
                                 +------------> put queue <----------------+
                                                    |
                                                 monitor
                                               /         \
                                   ready queue alice   ready queue bob
                                        |                   |
                                   processor alice     processor bob --> chain
                                          \              /
        peer's buffers -> session -> putBuffer -> processor's queue
                                         \-> first input buffers

What is hard here:

* *Concurrency.*  The ready processor's thread and the server's threads share the
  task state; both may push a task.  `putBuffer` decides on what a processor was
  doing a moment ago.  Two server threads copy and write back the same map.
* *Failure.*  A call may raise after the peer handled it.  A buffer may be lost
  unnoticed.  A computation may fail, or never return because its peer is not
  there.  A transaction may be accepted and its answer lost.
* *Ordering.*  The two nodes run one computation per role at a time, so tasks
  must come to the processors of both in a compatible order; buffers must be read
  in the order in which they were sent.
* *Limits.*  Two request slots, ready queues of one place, one monitor thread for
  both roles, a strict comparison in the nonce.
* *Stale decisions.*  Which provider a node stands for is decided four times, for
  the role, the peer, the callbacks and the receivers, each with what is
  registered at that moment, and clients are cached for ever.
* *Start and stop.*  The engine's components are global pointers without a lock.
  The server accepts calls before the components they need exist, an `init` that
  fails leaves its threads behind, and `destroy` deletes what other threads use.
* *Time.*  The only timeouts are the 1 s of `popCommitTask` and the one of
  `recv_data` that nothing reads.

What makes each component correct:

* handshake: a node pushes a task only when both parties' calls were handled; no
  agreed task is lost; a task given up is never run; tasks are pushed in the same
  order at both nodes; the slots bound what is under way;
* monitor and processors: tasks start in push order; the chain gets one verdict
  on a task; nonces leave no hole; a computation that hangs stops its role only;
* buffers: a run reads its own task's buffers only, in order, each once; what is
  sent is read; a wait ends;
* two nodes together: processors never wait for each other with different tasks,
  and what both nodes were asked to do in the same order is done;
* registration: a node takes the role, asks the provider, calls and sends to the
  peers that the contract and its own provider imply, whatever registers meanwhile;
* engine: no null pointer in service, the commit limit bounds the queue and does
  not refuse for no reason, nobody is left asleep when the engine is destroyed.

## Modules

| Module | What it models |
|---|---|
| `TaskRendezvous` | abstract: two nodes join tasks in some order; a task is ready at a node only after both joined |
| `TaskHandshake` | the ready processors and sessions of two nodes, refines `TaskRendezvous` |
| `TaskHandshake_proofs` | its theorems |
| `TaskPipeline` | one node behind its put queue: monitor, ready queues, processors, result transaction |
| `TaskPipeline_proofs` | its theorems |
| `FifoChannel` | abstract: per task, buffers are received once each in the order sent |
| `BufferChannel` | a sending peer, the server's threads, the dispatcher and one processor, refines `FifoChannel` when runs read all their buffers |
| `BufferChannel_proofs` | its theorems |
| `NodePair` | two nodes: `TaskHandshake` with the monitor and the processors of both behind it, refines `TaskHandshake` |
| `NodePair_proofs` | its theorems |
| `MpcEngine` | one process: `init`, committing threads, the ready processor's and the monitor's threads at their queues, `destroy` |
| `MpcEngine_proofs` | its theorems |
| `TaskParties` | one node: registrations, the party and role a commit gives it, the peer it calls, the provider it asks, the nodes it sends to |
| `TaskParties_proofs` | its theorems |
| `Countdown` | sums of a function over a set, and lemmas about them, for the measures of the proofs |
| `MCTaskHandshake`, `MCTaskPipeline`, `MCBufferChannel`, `MCNodePair`, `MCMpcEngine`, `MCTaskParties` | small constants for TLC |

**TaskHandshake.**  One action per call on a shared table, because that is where
threads meet: each table has its own mutex and no step holds two.  `rpPc`,
`rpTask`, `rpState` are the place and the locals of `processReadyTask`;
`callSt[n][t]` and `callStatus[n][t]` are the peer's handler of the call that `n`
makes for `t`.  A call is synchronous and a task is called for once, so one cell
per node and task is enough.  The state bits 0x01 and 0x02 are the set of roles
`taskState[n][t]`.  `CallException` raises at any point of the call: before the
request arrived (it is then dropped), while it is handled, or after.  What is
behind the put queue is reduced to its effect on the tables (`TakePutTask`,
`Downstream`).  The handler of a peer's call and the thread can both push a task:
the model keeps that, `pushed` is a set and `putQueue` holds the task twice.

**TaskPipeline.**  `AddRequest` and `PushPutTask` are the handshake as seen from
here: a task gets a slot once and is pushed at most twice (`Twice` names the tasks that may be), at any time.  The
constructor of the dispatcher sets the number of cores to 1, so there is one
processor per role, two slots and one place in each ready queue.  The steps of
`processMpcBusi` that can fail differently are actions of their own; the
computation is `RunFunction`, to which no fairness is given.  The chain is
external: the set `used` of the account's nonces, with a pending count that is
the smallest unused nonce; it refuses a nonce it knows and keeps one that is
ahead.  `Clear` joins the three removals at the end of a run, since nothing here
reads the first and the third.  `pushLog` and `startLog` are histories: per role,
the tasks as they were pushed and as a processor took them.  So is `unsent`, the
nonces of this node's transactions that the chain did not take.

**NodePair.**  It EXTENDS `TaskHandshake` and replaces the actions that stood for
what is behind the put queue by that itself: `PopPutTask`, `PutReadyTask` of the
monitor, `FetchTask`, `EndRun`, `FailRun` and the three removals of each
processor.  A computation is two-party, so `EndRun` needs the peer to run the same
task; a run fails on its own only for the tasks in `Breaking`.  The history
`repushed` names the nodes where thread and handler both pushed a task: the second
run of such a task finds no peer and its processor waits for ever, in the model as
in the program, and `CommittedIsEnded` excludes those behaviours.  `HandshakeSpec`
is `Spec` of `TaskHandshake`: no substitution is needed, the variables are shared.

**MpcEngine.**  What a commit becomes is left to the other modules; here the
commit queue and the put queue are their lengths.  `servant`, `dispatcher` and
`client` are the pointers that `init` sets in this order and `destroy` clears;
`iceMain` is the process's one Ice application, external.  `initPc` is the thread
that holds the mutex of `VMClient::init`.  Following a null pointer ends the
process (`crashed = "pointer"`), a thread that holds a deleted dispatcher may
crash or may seem to go on, and both are kept.  The exception that `getString`
throws on an empty answer of the chain, and the data race of two commits on
`m_irDataHashs`, are `crashed = "answer"`.  `Wake` is the end of the timed wait of
`popCommitTask`, by a push or by its 1000 ms; `NotifyAll` and `SetExited` are the
two steps of `notify_exit`.  `destroy` ends at `JoinMonitorTwice`: if the join of
the monitor returns, the destructor joins a deleted thread.  `MpcEngine`'s
destructor calls `destroy` at process exit, so it happens under running threads.

**TaskParties.**  A registration is two stores, the callback and then the address,
in a server thread; `registering` is who is between them.  `transactionCB` and
`taskCB` are the keys of the session's maps, `userAddress` the provider registered
last.  A commit takes that address, looks the task's parties up one by one
(`IsRegistered`, a lock of the map each) and then makes the list of nodes, its own
first, and the role.  What the contract says of a task (`AddrUrl`, `Url`,
`Invitor`) does not change and is a constant.  `clients` is the factory's cache: a
client has the endpoint of the task that asked for its user first.  The ready
processor's address is read before it waits for a task (`ReadAddress`); the
processor's and `send_data`'s when they act.  A chain that does not answer and the
limit of the commit queue are in `MpcEngine`, what becomes of a call in
`TaskHandshake`, whose constants `Invitor` and `Peerless` presume what
`ServesItsParty` and `ReachesTheOthers` say here: one provider of the task at each
node, registered before the commit.

**BufferChannel.**  A buffer is its task and its number.  `CheckTask`,
`InputBuffer`, `GetFirst`, `PutFirst` are the steps of `putBuffer` between which
other threads run; `RemoveFirst`, `Merge`, `Wake`, `CompareTask` those of
`recv_data`/`consumeBuffer`.  A parked buffer that was fetched, read and deleted
can come back through a stale copy of the map: its entry is then dangling.
Reading the number of a deleted buffer is undefined; the model lets the number
read as another one (the reader waits) or as the next one (the buffer is deleted
a second time, the process is aborted).  That the memory was reused by another
buffer in the meantime is not modelled.

## Runs

| Run | Instance | Shows |
|---|---|---|
| `handshake_safety` | 2 nodes, 2 tasks with one invitor each, 2 slots, 1 exception | `TypeOK`, `Agreement`, `NoLostReady`, `AbandonedNeverRuns`, `NoOvertaking`, `NoDeadlock`, and that the handshake implements `TaskRendezvous` |
| `handshake_slots` | 3 tasks, the first without a peer, 2 slots, no exception, fair | `InFlightBounded`, `NoDeadlock`, and `CommittedIsPushed` under the same commit order at both nodes |
| `pipeline` | 3 bob tasks, one of them pushed up to twice, 1 alice task, 1 other transaction, fair, computations may hang | `TypeOK`, `StartOrder`, `OneVerdict`, `NoNonceHole`, `NoNonceSkipped`, `MonitorNotBehindRun`, `OnlyRunsStop`, `OtherRoleStarts` |
| `buffer_stale` | 2 tasks, the first may end early, 2 server threads, 2 buffers each, 1 lost | `TypeOK`, `OwnDataInOrder` |
| `buffer_fifo` | 2 tasks that read all, 2 server threads, 2 buffers each, 1 lost, fair | `SeqMatchesSender`, `FifoSpec` (implements `FifoChannel`), `DeliveredUnlessStraddled`, `WaitsForMissing` |
| `buffer_seq` | 2 tasks, the first may end early | *violated*: `SeqMatchesSender` |
| `buffer_parked` | 1 task, 1 server thread | *violated*: `ParkedIsFetched` |
| `pair` | 2 nodes, 2 tasks of the same invitor, 2 slots, the second may fail, fair | `PairTypeOK`, `NoCrossWait`, `PairNoDeadlock`, `HandshakeSpec` (implements `TaskHandshake`), `CommittedIsEnded` |
| `engine` | 2 threads, 2 attempts of `init`, limit 2, 4 commits, fair | `TypeOK`, `CommitBound`, `NoNullInService`, `RefusedOnlyWhenFull`, `ReadyLeaves` |
| `engine_destroy` | 2 threads, 1 attempt, limit 1, 1 commit, fair | *violated*: `NobodyLeftWaiting` |
| `parties` | 2 providers at the node, 1 elsewhere at two endpoints, 2 tasks of two parties, one with its invitor here | `TypeOK`, `AliceIsHere`, `ServesItsParty`, `ReachesTheOthers`, `SameNodeThroughout`, `TransactionCBFound` |
| `parties_self` | the same | *violated*: `NotToSelf` |

TLC's deadlock check is off in every run: every instance stops when its tasks and
buffers are used up, and several models have threads that really wait for ever.
Invariants say instead what a stop means.  `Quiet`, `PairQuiet` and `Stopped` are
read off the waits in the code (which thread waits for what), and `NoDeadlock`,
`PairNoDeadlock` and `OnlyRunsStop` say of such states that nothing is left to do
but what a computation, a slot that leaked or a missing commit holds up.

**Bounds.**  Two nodes are the system (the protocol is two-party).  Two tasks are
needed for order, overtaking and slots that are held by another task; a third one
adds the one that finds no peer.  One exception already meets every state of a
call, and a second one only removes a second task.  In `handshake_slots` the first
task each node gets has no peer and keeps one of its two slots for ever, so that the
waiting in `addRequest` happens with the other two; in `handshake_safety` the call
that raises keeps one.  `NoDeadlockCorrect` holds for every number of slots, tasks
and exceptions.  A constraint of the MC module keeps `handshake_slots` small:
`PeerlessFirst`, by which the nodes get the same tasks in the same order, the
peerless one first.  `NoDeadlock` and `CommittedIsPushed` claim nothing of nodes that
get their tasks in different orders, and an order once broken stays broken, so that
part excludes nothing they are about; that the slots bound the tasks in flight whatever
the order is the theorem `SlotsCorrect`.  Two server
threads make the two races of `putBuffer` happen; the server's pool has one
unless the Ice configuration file says more.  Two buffers per task let one
overtake the other.  In `pipeline` three bob tasks are what it takes for the
monitor to hold one while another is queued and a third runs; one of them may be
pushed twice, which is what a second verdict and a second start need, and the
theorems hold for any set of such tasks.  In `pair` both tasks have
the same invitor, so that they meet at the same two processors, which is where
processors can wait for each other; the order of commits is free at both nodes.
In `engine` two threads are what the race at the limit and the race in
`VMClient::init` need, two attempts let one `init` fail and another follow, and
four commits against a limit of two refuse some and count past the limit.
In `parties` a second provider at the node is what makes the decisions of a task
differ, each task has one party here and one elsewhere, and two tasks share a
client in the cache, for which their contracts name different endpoints; providers
may register again and again.  A buffer of `buffer_fifo` that is lost is one the run
must wait for and not skip.

**Fairness.**  Weak fairness for the threads that loop without conditions of
their own (ready processor, monitor, processors between computations, server
threads): the operating system schedules them, and what they wait for is a mutex
or a condition variable that is notified.  None for commits, exceptions, sends
and for the end of a computation: nothing in the code makes them happen.  In
`handshake_slots` and `pair` the fairness is that of the system as a whole
(`WF(System)`): as long as some thread, handler or processor can take a step, one
is taken.  It is weaker than fairness of each of them and enough, since every step
brings some task further and none is undone.  In `handshake_slots` the tasks
behind the put queue give their slot back (`TakePutTask`, `Downstream`); in `pair`
that is no assumption but what the processors do once both run the task.  A
computation that hangs is outside of these runs; `pipeline` is about those.
In `engine` the ready processor, the monitor and `destroy` once begun are fair;
the application, the server and the rest of a task's way (`Work`, which may wait
for a slot) are not.

**What the violated properties say.**

* `SeqMatchesSender`: the queue of a processor survives its task.  A buffer left
  by a run that ended early is counted by the next run, which then waits for ever
  for a number that is gone.
* `ParkedIsFetched`: a buffer whose thread looked for the processor just before
  the task started is parked, and the run, already waiting, does not look again.
* `NobodyLeftWaiting`: `notify_exit` is there so that nobody is left waiting, and
  `destroy` calls it for the commit queue only.  The monitor sleeps on the put
  queue, which is deleted under it, and the join that follows never returns.
* `NotToSelf`: `send_data` skips the provider that registered last, the list of
  nodes was made for the first registered party of the task.  When another provider
  of the node registered last, before the commit or since, the node sends its output
  to itself.

Three more disagreements are in the reachable states and have no run of their own.
The exception path of `processReadyTask` logs that it clears the cached task and
leaves the request slot, since the call that frees it is commented out.  The ready
processor skips the address it read before it waited for the task: when that is not
the party the task was committed for, it calls its own node.  And the second test for
"have not register!" (`mpc_engine.cpp:462`) looks at an address that is never empty
there: a node with none of a task's parties commits it, as bob.

## Theorems

All are proved by TLAPS for every value of the constants that meets the named
assumptions.

*How long a system can go on* is proved for each of its parts by a measure: a natural
number that no step raises and each step of the threads, handlers and server
lowers.  `StepsBounded` (handshake, pipeline, buffers), `PairStepsBounded` and
`LeavingBounded` say that it is one, and how big it is at most.  They assume that the
tasks (and for the buffers the server's threads) are finitely many, in the theorem and
not in the modules: infinitely many tasks have no last step.  The measures add up what
is left of each task.  Such a sum is usually a recursive definition; `Countdown`
defines it as the number of points below a function (`Total`) and proves that it
falls when one term falls and none rises (`TotalFalls`), rises by no more than one
term can (`TotalRises`), and what it is at most (`TotalMost`).

*TaskHandshake_proofs*, from `NodeAssumption` (two nodes), `InvitorAssumption`,
`TaskAssumption`, `BoundsAssumption`: `TypeCorrect`, `AgreementCorrect`,
`NoLostReadyCorrect`, `AbandonedCorrect`, `SlotsCorrect`, `NoOvertakingCorrect`,
`RefinesRendezvous`, `NoDeadlockCorrect` and `TakenInOrderCorrect`.  The properties are not inductive: that nobody is lost
needs to know where bits come from and how long they stay.  The inductive
invariant `IInv` says that a node holds a task once and in the order popped
(`QueuesSound`), that a call is `done` once its reply is merged (`CallsSound`),
that a bit of a state, of a reply or of the thread's copy is there only when its
call was received (`BitsSound`), that bits and working task stay until the task
is taken or given up (`BitsKept`), that with both bits set either the task is
pushed or somebody has yet to look (`SomeonePushes`), and that the slots hold
what is under way (`SlotsSound`).  `NoOvertaking` follows because a node merges
the replies of its tasks in the order it popped them.  The refinement maps the
popped tasks to `joined`, the pushed to `ready` and the given up to `gone`.

`NoDeadlockCorrect` is what fairness turns into `CommittedIsPushed`: when all wait
and fewer tasks were given up than there are slots, each other task committed at both
nodes was pushed at both.  A task given up (`GivenUp`) keeps its slot, so fewer of
them than slots leave each full request queue a task that is not given up.  A
waiting thread whose i-th task is not merged waits in `addRequest` (`WaitsForSlot`,
with `WaitsSound`: a called peer has the call, and a slot belongs to a task that was
popped).  A slot it waits for is held by an earlier task that the other node has
not merged (`SlotHolder`), so the other node waits for a slot held by a task still
earlier that this node has not merged; but this node merged all it popped before.
`SamePlaces` makes "earlier" mean the same at both nodes.
`TakenInOrderCorrect` says that a monitor takes the tasks as they were pushed.

`StepsBounded` counts what is left of each task at each node: six steps of the thread
(`ThreadLeft`), five of the handler with the call itself (`CallLeft`), one that gives
the slot back (`SlotLeft`); a step weighs two, since it may put the task into a put
queue, from where it is taken once (`Queued`).  So there are at most 48 steps for a
task, whatever is raised.  That a thread never meets a task twice, and that a slot
once given back is not taken again, is from `IInv`.

*BufferChannel_proofs*, from `BufferAssumption`: `TypeCorrect` and
`OwnDataCorrect`.  The invariant adds that a task that was not fetched has read
nothing and that `m_requestSeq` bounds the numbers the run has read (strictly,
when a buffer is in hand).  Nothing is assumed of the queue but its type: that a
run reads its own buffers in order rests on the two tests of number and task.
When no run ends early (`Failing = {}`) more holds: `FifoInductive`,
`SeqMatchesCorrect` and `RefinesFifo`.  The invariant `FifoIInv` says that a
buffer is only where the call that brought it can have put it (`ArrivedOnly`,
`QueueSound`), that what was read is the first so many buffers of the task, all of
them when the task is over, and is freed (`ReadAll`), and that `m_requestSeq`
counts them (`SeqCounts`).  The buffer taken is then the current task's: a task
that is over has read and freed all its own.  `buffer_seq` shows why the
assumption is needed.

`WaitsForMissingCorrect` says that the races of `putBuffer` and lost calls are all
that can go wrong with such runs.  Its premise is `[]NoRace` in the formula itself,
which fails in exactly the behaviours `buffer_parked` is one of.  The invariant
`Unlost` holds as long as there was no race: each buffer that came and was not read
is at one place, in the hands of one server thread, parked, fetched or queued, and
no other is anywhere (`OnePlace`); what is queued or on its way to the queue is the
current task's, and nothing is freed before it is read (`OwnRunOnly`).  So no entry
of the queue is dangling, and when the next number came and no server thread has
it, it is the head of the queue.

`StepsBounded` counts four steps for each call that has not come (its dispatch and
three of `putBuffer`, `ServerLeft`), and for each task that was not fetched the room
of a run: four steps for each number `m_requestSeq` can get to (`ReaderLeft`).  Nothing
is assumed of the runs: in particular a buffer of another task is deleted and never
put back, and a run never returns to a number, whatever is left in the queue.

*TaskPipeline_proofs*, from `PipelineAssumption`: `PipelineInductive`,
`TypeCorrect`, `OneVerdictCorrect`, `StartOrderCorrect`, `NoNonceHoleCorrect`,
`NoNonceSkippedCorrect`, `MonitorNotBehindRunCorrect`, `OnlyRunsStopCorrect`.  The invariant says that a role's queue and
processor have that role's tasks (`RoleSound`), that a task pushed once is at one
place (`OncePlaced`) and holds its slot until its run is over (`SlotsSound`), what
verdicts go with each place (`VerdictSound`), and that the nonces have no hole
(`NonceSound`, with `Holes`: from every number on there is a first unused nonce,
which stands in for an induction).  The monitor does not wait behind a run because
its task, the queued one and the running one would be three tasks in two slots.
The order of the starts needs where each push is (`OrderSound`): what was pushed
for a role is what was started, then the ready queue, the monitor's task and, by a
function that places its entries in the log, the put queue with the other role's
tasks left out.  It is proved for tasks that are pushed twice too.
`NoNonceSkippedCorrect` needs no answering chain: every nonce below one remembered
or used is used or of a transaction that was not sent (`Accounted`).
`OnlyRunsStopCorrect` adds that a task pushed and not over, however often it was
pushed, is kept at one of those places and has its slot (`Kept`).  So when all wait
and such a task is left, no processor waits in `removeRequest`, where no slot would be
taken; and the monitor waits behind a computation only if a task was pushed twice.

`StepsBounded` gives each push eleven steps: the push, the monitor's two, and from the
ready queue on the eight of a run with its transaction and a failure to report.  It
needs nothing but the types and holds for the ends of computations too.

*NodePair_proofs*, from the assumptions of `TaskHandshake` and
`BreakingAssumption`: `PairTypeCorrect`, `PairImplements` (every step of the pair
is a step of the handshake or leaves its variables alone, so all that is proved of
`TaskHandshake` holds of the pair) and `NoCrossWaitCorrect`.  The invariant
`PairIInv` adds to the handshake's that a task pushed is in the put queue, at the
monitor, in a ready queue or begun (`PipeSound`), and that what is ahead of a task
in that line was pushed before it or is begun (`OrderKept`).  Two processors that
wait for each other with different tasks would each have begun its task before
the other's; with the order of the pushes (`NoOvertaking`, by `PairImplements`)
that contradicts the common order of the commits.

`PairNoDeadlockCorrect` goes on from there: when all threads of both nodes wait,
both are done with each task committed at both.  It needs to know at which place of
its node each task is (`PlacesInductive`: exactly one place, which holds slot and
working task until they are given back, and the places filled in push order), what
each thread waits for (`WaitsInductive` of the handshake), and the following
argument.  Of the tasks not done at both nodes take the one committed first
(`LeastNatural`).  All before it are over, so it has its slot (`NoSlotWait`), it is
pushed at both nodes (`FirstPushed`), nothing is ahead of it in a ready queue or at
the monitor, both processors have it (`FirstBegun`), and then its run can end
(`FirstEnded`): the threads do not all wait.  Its premises are those of
`CommittedIsEnded` with "no call raises" replaced by "no task was given up".  No task
is pushed twice, since nobody answers a second run.  No run fails: the peer of one
that failed may wait for its data for ever, which the model does not decide (there
`EndRun` may still happen), so nothing is claimed of it, though the proof would not
need that premise.

`PairStepsBounded` adds to the handshake's measure what is behind the put queues: a
task there has seven steps before it, through the monitor (`MonitorLeft`), a ready
queue (`LineLeft`) and a run (`RunLeft`).  It has no premise but finitely many tasks:
exceptions, failing runs and tasks pushed twice only use steps up.

*MpcEngine_proofs*, from `EngineAssumption`: `EngineInductive`, `TypeCorrect`,
`CommitBoundCorrect`, `NoNullInServiceCorrect`, `RefusedCorrect`.  The invariant
says how the two flags, the thread in `init`, the one in `destroy` and those that
commit agree (`MutexSound`), what each step may rely on (`StepsSound`), that there
is one ready processor's thread since no other servant comes up while it runs
(`OneThread`), that the pointers are there while it is in service
(`ServiceSound`), that the counter is the length of the queue less the commits
pushed and not counted plus the task popped and not counted (`CountSound`), and
that the queue with the threads about to push keeps the bound (`BoundSound`).

The engine as a whole has no measure: in service the ready processor's thread wakes
from its timed wait for ever.  `LeavingBounded` is about its end: once `notify_exit`
has set the flag, which stays set (`ExitSound`: the dispatcher has exited for good),
each step brings the thread nearer to its end or crashes the process, six steps at
most.

*TaskParties_proofs*, from `PartiesAssumption` (nothing of which provider registers
where): `PartiesInductive`, `TypeCorrect`, `AliceIsHereCorrect`,
`ServesItsPartyCorrect`, `ReachesTheOthersCorrect`, `SameNodeThroughoutCorrect`,
`TransactionCBFoundCorrect`.
Callbacks are never erased, so what a thread once read stays true: every address
in use is that of a stored callback (`AddressSound`); a commit's address is too,
the parties it passed were not this node's, and what it stopped at is
(`CommitSound`); the threads have committed tasks only (`QueueSound`); whoever is
called or sent to is a party and not the only provider here, since it differs from
an address in use, and is reached through the one client the cache has for it
(`ReachSound`, with `ClientsSound` for the endpoint).  So `SameNodeThroughout` holds
whatever endpoints the contracts name.

Only model-checked are the liveness properties `CommittedIsPushed`,
`CommittedIsEnded`, `OtherRoleStarts`, `DeliveredUnlessStraddled` and `ReadyLeaves`,
since the prover has no rules for fairness and no induction on a temporal formula.
Both facts such an induction would use are proved: that in no reachable state all
stand still with work left (`NoDeadlock`, `PairNoDeadlock`, `OnlyRunsStop`,
`WaitsForMissing`), and that the threads do not move for ever without getting there
(the measures).  What is left to TLC is the step from these to "eventually": that a
thread which does not wait has a step it can take (the prover does not reason about
`ENABLED`), and that fairness takes it.

The other properties of the passing runs are theorems.

## Not modelled

* The join of the processors in `MpcTaskDispatcher::destroy`: a processor that
  waits for a buffer, or computes, holds it for ever.  What `destroy` does after
  the second join of the monitor, which it does not get past.
* The data race on `user_address` (it is read and written in one step); a client
  that cannot be made, which the ready processor would follow as a null pointer;
  `remove` of the client factory, which nobody calls.
* The timeout argument of `recv_data` (`communicator_io_channel.cpp:107`): it is
  logged and no wait reads it, so `BufferChannel` has waits without a limit.
* `setFailedResult` makes an `eth_call`; whether the chain keeps anything of it is
  the chain's matter, `failed` only records that it was made.
* Builds with `RUN_WITHOUT_PLATON`, where bob stops after the computation.
* The timeout queue and the asynchronous `invite`, `notify`, `ready`: no caller.
* The split of buffers into the lengths the circuit library asks for; encryption;
  codecs; logging; generated and third-party code.  Of the repository's lines the
  vendored libraries and the generated Ice code are by far the most; the service's
  own logic is some five thousand lines in `mpc-vm-service` and the two headers of
  `mpc-vm-common` it locks with.

## Plan

1. `TaskRendezvous`, `TaskHandshake`, its proofs - done.
2. `FifoChannel`, `BufferChannel`, its safety and the refinement proved - done.
3. `TaskPipeline`, checked and its safety proved - done.
4. `NodePair`, the two nodes end to end, checked and its safety proved - done.
5. `MpcEngine`, the commit queue's limit and the engine's start and end, checked
   and its safety proved - done.
6. `TaskParties`, registrations, roles and peers, checked and its safety proved -
   done.
7. Bounds on the steps of each part (`Countdown` and the measures) - done.
8. Next: the join of the processors in `destroy`, composed with `BufferChannel`.
