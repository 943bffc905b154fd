----------------------------- MODULE TaskParties -----------------------------
(***************************************************************************)
(* Who a node is in a task.  Data providers register at the node           *)
(* (TaskSessionImpl); a commit reads the task's parties from the chain and *)
(* decides which of them this node serves and in which role                *)
(* (MpcEngine::getAllInfo); the ready processor decides which node to call *)
(* (processReadyTask), the processor whom to ask for input                 *)
(* (processMpcBusi) and whom to send buffers to (send_data).  Each decides *)
(* with what is registered at that moment.                                 *)
(*                                                                         *)
(* One node.  What the contract says of a task is a constant: it is read   *)
(* from the chain and does not change.  A chain that does not answer is    *)
(* module MpcEngine's matter, and so is the limit of the commit queue;     *)
(* which tasks are run, and when, is that of TaskHandshake and             *)
(* TaskPipeline: here a task may be run once it was popped.                *)
(***************************************************************************)
EXTENDS Naturals, Sequences, Functions

CONSTANTS
    Provider, \* the addresses of data providers
    NoUser,   \* the empty address
    Endpoint, \* where nodes are
    Task,     \* task identifiers
    Local,    \* the providers that register at this node
    AddrUrl,  \* AddrUrl[t]: the task's parties in the order of task.addr_url
    Url,      \* Url[t][p]: the endpoint the contract of t names for p
    Invitor   \* Invitor[t]: the contract's invitor

ASSUME PartiesAssumption ==
    /\ NoUser \notin Provider
    /\ Local \subseteq Provider
    /\ AddrUrl \in [Task -> Seq(Provider) \ {<< >>}]
    /\ \A t \in Task : IsInjective(AddrUrl[t])
    /\ Url \in [Task -> [Provider -> Endpoint]]
    /\ Invitor \in [Task -> Provider]

Parties(t) == Range(AddrUrl[t])

CommitPc == {"idle", "data", "check", "list", "queued", "refused"}

RunPc == {"none", "ready", "callbacks", "run", "failed"}

VARIABLES
    transactionCB, \* the keys of mapTransactionCB
    taskCB,        \* the keys of mapTaskCB
    registering,   \* the providers whose registration is between its two stores
    userAddress,   \* user_address
    commitPc,      \* where the commit of a task is
    address,       \* its local address in getAllInfo
    next,          \* the entry of addr_url it looks up next
    nodeInfoList,  \* the task's m_nodeInfoList
    role,          \* the task's role: none or one
    commitQueue,   \* m_commitQueue
    rpPc,          \* where the ready processor is
    rpAddress,     \* its local address
    rpTask,        \* its task: none or one
    clients,       \* m_directClients: a user and the endpoint of its client
    called,        \* history: the client a task's call went to
    runPc,         \* where the run of a task is
    asked,         \* the user_address of its run: none or one
    sent,          \* history: the clients a run sent buffers to
    present        \* history: transactionCB when a commit began

sessionVars == <<transactionCB, taskCB, registering, userAddress>>
commitVars == <<commitPc, address, next, nodeInfoList, role, present>>
readyVars == <<rpPc, rpAddress, rpTask, called>>
runVars == <<runPc, asked, sent>>
vars == <<sessionVars, commitVars, commitQueue, readyVars, clients, runVars>>

Client == [user : Provider, at : Endpoint]

TypeOK ==
    /\ transactionCB \subseteq Provider
    /\ taskCB \subseteq Provider
    /\ registering \subseteq Provider
    /\ userAddress \in Provider \cup {NoUser}
    /\ commitPc \in [Task -> CommitPc]
    /\ address \in [Task -> Provider \cup {NoUser}]
    /\ next \in [Task -> Nat]
    /\ \A t \in Task : commitPc[t] = "check" => next[t] \in DOMAIN AddrUrl[t]
    /\ nodeInfoList \in [Task -> Seq(Provider)]
    /\ role \in [Task -> SUBSET {"alice", "bob"}]
    /\ commitQueue \in Seq(Task)
    /\ rpPc \in {"address", "pop", "peer"}
    /\ rpAddress \in Provider \cup {NoUser}
    /\ rpTask \subseteq Task
    /\ clients \subseteq Client
    /\ called \in [Task -> SUBSET Client]
    /\ runPc \in [Task -> RunPc]
    /\ asked \in [Task -> SUBSET Provider]
    /\ sent \in [Task -> SUBSET Client]
    /\ present \in [Task -> SUBSET Provider]

Init ==
    /\ transactionCB = {} /\ taskCB = {} /\ registering = {}
    /\ userAddress = NoUser
    /\ commitPc = [t \in Task |-> "idle"]
    /\ address = [t \in Task |-> NoUser]
    /\ next = [t \in Task |-> 1]
    /\ nodeInfoList = [t \in Task |-> << >>]
    /\ role = [t \in Task |-> {}]
    /\ commitQueue = << >>
    /\ rpPc = "address" /\ rpAddress = NoUser /\ rpTask = {}
    /\ clients = {}
    /\ called = [t \in Task |-> {}]
    /\ runPc = [t \in Task |-> "none"]
    /\ asked = [t \in Task |-> {}]
    /\ sent = [t \in Task |-> {}]
    /\ present = [t \in Task |-> {}]

-----------------------------------------------------------------------------
(* Registration: the server's threads.                                     *)

\* registTransactionCallback of p stores the callback first, the address later.
InsertCallback(p) ==
    /\ p \notin registering
    /\ transactionCB' = transactionCB \cup {p}
    /\ registering' = registering \cup {p}
    /\ UNCHANGED <<taskCB, userAddress, commitVars, commitQueue, readyVars, clients, runVars>>

\* Mutant: the address is stored without waiting for the callback.
SetUserAddressFirst(p) ==
    /\ userAddress' = p
    /\ registering' = registering \ {p}
    /\ UNCHANGED <<transactionCB, taskCB, commitVars, commitQueue, readyVars, clients, runVars>>

SetUserAddress(p) ==
    /\ p \in registering
    /\ userAddress' = p
    /\ registering' = registering \ {p}
    /\ UNCHANGED <<transactionCB, taskCB, commitVars, commitQueue, readyVars, clients, runVars>>

\* registerIR, whose ir_hash is the provider's address.
RegisterIR(p) ==
    /\ taskCB' = taskCB \cup {p}
    /\ UNCHANGED <<transactionCB, registering, userAddress, commitVars, commitQueue,
                   readyVars, clients, runVars>>

-----------------------------------------------------------------------------
(* Commit: the application's threads.                                      *)

\* The address registered last stands in for the task's party until the parties
\* are looked up; without any the task is refused.
GetAddress(t) ==
    /\ commitPc[t] = "idle"
    /\ address' = [address EXCEPT ![t] = userAddress]
    /\ present' = [present EXCEPT ![t] = transactionCB]
    /\ commitPc' = [commitPc EXCEPT ![t] = IF userAddress = NoUser THEN "refused" ELSE "data"]
    /\ UNCHANGED <<sessionVars, next, nodeInfoList, role, commitQueue, readyVars, clients, runVars>>

\* The circuit and the parties are read from the chain; a circuit that is missing
\* refuses the task.
ReadContract(t) ==
    /\ commitPc[t] = "data"
    /\ \E pc \in {"refused", "check"} : commitPc' = [commitPc EXCEPT ![t] = pc]
    /\ next' = [next EXCEPT ![t] = 1]
    /\ UNCHANGED <<sessionVars, address, nodeInfoList, role, present, commitQueue, readyVars,
                   clients, runVars>>

\* Mutant: the look-up goes on past the last party.
IsRegisteredPast(t) ==
    /\ commitPc[t] = "check"
    /\ LET party == AddrUrl[t][next[t]]
           last == next[t] > Len(AddrUrl[t])
       IN  /\ address' = [address EXCEPT ![t] = IF party \in transactionCB THEN party ELSE @]
           /\ commitPc' = [commitPc EXCEPT
                               ![t] = IF party \in transactionCB \/ last THEN "list" ELSE @]
           /\ next' = [next EXCEPT ![t] = IF party \in transactionCB \/ last THEN @ ELSE @ + 1]
    /\ UNCHANGED <<sessionVars, nodeInfoList, role, present, commitQueue, readyVars, clients,
                   runVars>>

\* Mutant: the look-up, "double check" in the code, does not change the address.
IsRegisteredNoMore(t) ==
    /\ commitPc[t] = "check"
    /\ LET party == AddrUrl[t][next[t]]
           last == next[t] = Len(AddrUrl[t])
       IN  /\ address' = [address EXCEPT ![t] = @]
           /\ commitPc' = [commitPc EXCEPT
                               ![t] = IF party \in transactionCB \/ last THEN "list" ELSE @]
           /\ next' = [next EXCEPT ![t] = IF party \in transactionCB \/ last THEN @ ELSE @ + 1]
    /\ UNCHANGED <<sessionVars, nodeInfoList, role, present, commitQueue, readyVars, clients,
                   runVars>>

\* isRegistered of one party: the first that is registered becomes the address.
IsRegistered(t) ==
    /\ commitPc[t] = "check"
    /\ LET party == AddrUrl[t][next[t]]
           last == next[t] = Len(AddrUrl[t])
       IN  /\ address' = [address EXCEPT ![t] = IF party \in transactionCB THEN party ELSE @]
           /\ commitPc' = [commitPc EXCEPT
                               ![t] = IF party \in transactionCB \/ last THEN "list" ELSE @]
           /\ next' = [next EXCEPT ![t] = IF party \in transactionCB \/ last THEN @ ELSE @ + 1]
    /\ UNCHANGED <<sessionVars, nodeInfoList, role, present, commitQueue, readyVars, clients,
                   runVars>>

\* The task's parties in the order of addr_url, but a, if it is one of them, first.
NodeInfoList(t, a) ==
    IF a \notin Parties(t)
        THEN AddrUrl[t]
        ELSE LET self == CHOOSE i \in DOMAIN AddrUrl[t] : AddrUrl[t][i] = a
             IN  [i \in DOMAIN AddrUrl[t] |->
                     IF i = 1 THEN a
                              ELSE IF i <= self THEN AddrUrl[t][i - 1] ELSE AddrUrl[t][i]]

\* Mutant: the first of the list, not this node's party, is compared with the invitor.
RoleOfFirst(t, a) == IF Invitor[t] = AddrUrl[t][1] THEN "alice" ELSE "bob"

RoleOf(t, a) == IF Invitor[t] = a THEN "alice" ELSE "bob"

PutCommitTask(t) ==
    /\ commitPc[t] = "list"
    /\ nodeInfoList' = [nodeInfoList EXCEPT ![t] = NodeInfoList(t, address[t])]
    /\ role' = [role EXCEPT ![t] = {RoleOf(t, address[t])}]
    /\ commitQueue' = Append(commitQueue, t)
    /\ commitPc' = [commitPc EXCEPT ![t] = "queued"]
    /\ UNCHANGED <<sessionVars, address, next, present, readyVars, clients, runVars>>

Commit(t) == GetAddress(t) \/ ReadContract(t) \/ IsRegistered(t) \/ PutCommitTask(t)

-----------------------------------------------------------------------------
(* The ready processor's thread.                                           *)

\* The address is read before the thread waits for a task.
ReadAddress ==
    /\ rpPc = "address" /\ userAddress # NoUser
    /\ rpAddress' = userAddress
    /\ rpPc' = "pop"
    /\ UNCHANGED <<sessionVars, commitVars, commitQueue, rpTask, called, clients, runVars>>

PopCommitTask ==
    /\ rpPc = "pop" /\ commitQueue # << >>
    /\ rpTask' = {Head(commitQueue)}
    /\ runPc' = [runPc EXCEPT ![Head(commitQueue)] = "ready"]
    /\ commitQueue' = Tail(commitQueue)
    /\ rpPc' = "peer"
    /\ UNCHANGED <<sessionVars, commitVars, rpAddress, called, clients, asked, sent>>

\* popCommitTask gives up after 1000 ms.
PopTimeout ==
    /\ rpPc = "pop" /\ commitQueue = << >>
    /\ rpPc' = "address"
    /\ UNCHANGED <<sessionVars, commitVars, commitQueue, rpAddress, rpTask, called,
                   clients, runVars>>

\* Mutant: the client is made anew for the endpoint the task at hand names.
WithClientReplaced(u, t) ==
    {c \in clients : c.user # u} \cup {[user |-> u, at |-> Url[t][u]]}

\* getNodeClient: the first client made for a user serves all tasks.
WithClient(u, t) ==
    IF \E c \in clients : c.user = u
        THEN clients
        ELSE clients \cup {[user |-> u, at |-> Url[t][u]]}

ClientOf(u, cs) == {c \in cs : c.user = u}

\* The peer is the first of the list that is not the address read before; without
\* one the thread returns.
Call(t) ==
    /\ rpPc = "peer" /\ t \in rpTask
    /\ LET others == {i \in DOMAIN nodeInfoList[t] : nodeInfoList[t][i] # rpAddress}
       IN  \/ others = {} /\ UNCHANGED <<clients, called>>
           \/ \E i \in others :
                  /\ \A j \in others : i <= j
                  /\ clients' = WithClient(nodeInfoList[t][i], t)
                  /\ called' = [called EXCEPT ![t] = ClientOf(nodeInfoList[t][i], clients')]
    /\ rpTask' = {} /\ rpPc' = "address"
    /\ UNCHANGED <<sessionVars, commitVars, commitQueue, rpAddress, runVars>>

ReadyProcessor == ReadAddress \/ PopCommitTask \/ PopTimeout \/ \E t \in Task : Call(t)

-----------------------------------------------------------------------------
(* The processors' threads: a task may be run once it was popped.          *)

\* The provider that registered last is asked.
ReadUserAddress(t) ==
    /\ runPc[t] = "ready"
    /\ asked' = [asked EXCEPT ![t] = {userAddress}]
    /\ runPc' = [runPc EXCEPT ![t] = "callbacks"]
    /\ UNCHANGED <<sessionVars, commitVars, commitQueue, readyVars, clients, sent>>

\* setTransactionCB and setTaskCB: each raises when it finds nothing.
SetCallbacks(t) ==
    /\ runPc[t] = "callbacks"
    /\ runPc' = [runPc EXCEPT ![t] = IF asked[t] \subseteq transactionCB \cap taskCB
                                         THEN "run" ELSE "failed"]
    /\ UNCHANGED <<sessionVars, commitVars, commitQueue, readyVars, clients, asked, sent>>

\* Mutant: to all of the list.
SendDataToAll(t, u) ==
    /\ runPc[t] = "run"
    /\ u \in Range(nodeInfoList[t])
    /\ clients' = WithClient(u, t)
    /\ sent' = [sent EXCEPT ![t] = @ \cup ClientOf(u, clients')]
    /\ UNCHANGED <<sessionVars, commitVars, commitQueue, readyVars, runPc, asked>>

\* send_data to the node of u: to all that are not the provider that registered last.
SendData(t, u) ==
    /\ runPc[t] = "run"
    /\ u \in Range(nodeInfoList[t]) /\ u # userAddress
    /\ clients' = WithClient(u, t)
    /\ sent' = [sent EXCEPT ![t] = @ \cup ClientOf(u, clients')]
    /\ UNCHANGED <<sessionVars, commitVars, commitQueue, readyVars, runPc, asked>>

Processor(t) == ReadUserAddress(t) \/ SetCallbacks(t) \/ \E u \in Provider : SendData(t, u)

Next ==
    \/ \E p \in Local : InsertCallback(p) \/ SetUserAddress(p) \/ RegisterIR(p)
    \/ \E t \in Task : Commit(t) \/ Processor(t)
    \/ ReadyProcessor

Spec == Init /\ [][Next]_vars

-----------------------------------------------------------------------------
(* Properties.                                                             *)

\* A run never fails for want of the transaction callback (setTransactionCB), whatever
\* registrations overlap: it is stored before the address that names it is.
TransactionCBFound ==
    [][\A t \in Task :
           runPc[t] = "callbacks" /\ runPc'[t] = "failed" => ~(asked[t] \subseteq taskCB)]_vars

\* Alice is the node where the invitor registered: no node computes the invitor's
\* part for somebody else's provider, whichever registered before.
AliceIsHere ==
    \A t \in Task : "alice" \in role[t] => Invitor[t] \in transactionCB

\* A node whose one provider of the task was registered when the commit began
\* serves that provider, in the invitor's role if it is the invitor, whatever other
\* providers register there before and meanwhile.
ServesItsParty ==
    \A t \in Task : \A p \in Parties(t) \cap present[t] :
        commitPc[t] = "queued" /\ Parties(t) \cap Local = {p} =>
            /\ nodeInfoList[t][1] = p
            /\ role[t] = {IF Invitor[t] = p THEN "alice" ELSE "bob"}

\* A run asks a provider that registered here for input (processMpcBusi).  Calls
\* (processReadyTask) and buffers (send_data) go to parties of the task at an endpoint
\* that a contract named, never to the one provider registered here while it is alone.
ReachesTheOthers ==
    \A t \in Task :
        /\ asked[t] \subseteq transactionCB
        /\ \A c \in called[t] \cup sent[t] :
               /\ c.user \in Parties(t) /\ transactionCB # {c.user}
               /\ \E v \in Task : c.at = Url[v][c.user]

\* A party is called, and sent buffers, at one node throughout (getDirectClient), by
\* the ready processor and the processors and in all tasks, even where contracts name
\* different endpoints for it: no computation is begun with one node and fed to another.
SameNodeThroughout ==
    \A t, v \in Task : \A c \in called[t] \cup sent[t] : \A d \in called[v] \cup sent[v] :
        c.user = d.user => c.at = d.at

\* communicator_io_channel.cpp:66, "not self": a node does not send to itself.
NotToSelf ==
    \A t \in Task : \A c \in sent[t] :
        c.user # nodeInfoList[t][1] \/ c.user \notin Local

=============================================================================
