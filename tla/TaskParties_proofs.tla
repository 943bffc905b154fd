-------------------------- MODULE TaskParties_proofs --------------------------
(***************************************************************************)
(* Proofs about who a node is in a task, for every set of providers, tasks *)
(* and contracts.                                                          *)
(*                                                                         *)
(* Every address the node works with is that of a provider whose callback  *)
(* is stored (AddressSound); a commit past its look-up has the address of  *)
(* this node's party, if there was one to find (CommitSound); and whoever  *)
(* is called or sent to, another provider is registered here (ReachSound), *)
(* through the one client there is for it (ClientsSound).  Callbacks and   *)
(* clients are never erased, so none of this is lost later.                *)
(***************************************************************************)
EXTENDS TaskParties, TLAPS

AddressSound ==
    /\ registering \subseteq transactionCB
    /\ transactionCB \subseteq Local
    /\ userAddress # NoUser => userAddress \in transactionCB
    /\ rpAddress # NoUser => rpAddress \in transactionCB /\ userAddress # NoUser
    /\ rpPc # "address" => rpAddress # NoUser
    /\ \A t \in Task : asked[t] \subseteq transactionCB
    /\ \A t \in Task : runPc[t] # "none" => userAddress # NoUser

\* p is the one party of t that registers at this node.
OnlyHere(t, p) == Parties(t) \cap Local = {p}

Commits(t) ==
    /\ present[t] \subseteq transactionCB
    /\ address[t] # NoUser => address[t] \in transactionCB
    /\ commitPc[t] \in {"data", "check", "list", "queued"} => address[t] # NoUser
    /\ commitPc[t] # "queued" => role[t] = {}
    /\ commitPc[t] = "queued" => /\ role[t] = {RoleOf(t, address[t])}
                                 /\ nodeInfoList[t] = NodeInfoList(t, address[t])

LooksUp(t) ==
    \A p \in Parties(t) \cap present[t] :
        OnlyHere(t, p) =>
            /\ commitPc[t] = "check" => \A i \in DOMAIN AddrUrl[t] : i < next[t] => AddrUrl[t][i] # p
            /\ commitPc[t] \in {"list", "queued"} => address[t] = p

CommitSound == \A t \in Task : Commits(t) /\ LooksUp(t)

\* A task the threads have was committed.
QueueSound ==
    /\ \A i \in DOMAIN commitQueue : commitPc[commitQueue[i]] = "queued"
    /\ \A t \in rpTask : commitPc[t] = "queued"
    /\ \A t \in Task : runPc[t] # "none" => commitPc[t] = "queued"

\* The cache: endpoints the contracts named, and one client for each user.
ClientsSound ==
    /\ \A c \in clients : \E t \in Task : c.at = Url[t][c.user]
    /\ \A c, d \in clients : c.user = d.user => c = d

ReachSound ==
    \A t \in Task : \A c \in called[t] \cup sent[t] :
        c \in clients /\ c.user \in Parties(t) /\ transactionCB \ {c.user} # {}

IInv ==
    TypeOK /\ AddressSound /\ CommitSound /\ QueueSound /\ ClientsSound /\ ReachSound

-----------------------------------------------------------------------------
(* Facts about the contracts and the list of nodes.                        *)

\* What a sequence holds when something was appended.
LEMMA AppendFacts ==
    ASSUME NEW S, NEW s \in Seq(S), NEW x \in S
    PROVE  \A i \in DOMAIN Append(s, x) :
               (i \in DOMAIN s /\ Append(s, x)[i] = s[i]) \/ Append(s, x)[i] = x
OBVIOUS

USE PartiesAssumption

\* What the list of a task's nodes is made of.
LEMMA ListFacts ==
    ASSUME NEW t \in Task, NEW a \in Provider
    PROVE  /\ NodeInfoList(t, a) \in Seq(Provider)
           /\ DOMAIN NodeInfoList(t, a) = DOMAIN AddrUrl[t]
           /\ \A i \in DOMAIN NodeInfoList(t, a) : NodeInfoList(t, a)[i] \in Parties(t)
           /\ a \in Parties(t) => NodeInfoList(t, a)[1] = a
<1>1. AddrUrl[t] \in Seq(Provider) /\ AddrUrl[t] # << >> /\ Len(AddrUrl[t]) \in Nat
  OBVIOUS
<1>2. DOMAIN AddrUrl[t] = 1 .. Len(AddrUrl[t]) /\ 1 \in DOMAIN AddrUrl[t]
  BY <1>1
<1>3. \A i \in DOMAIN AddrUrl[t] : AddrUrl[t][i] \in Parties(t) /\ AddrUrl[t][i] \in Provider
  BY <1>1, <1>2 DEF Parties, Range
<1>4. CASE a \notin Parties(t)
  BY <1>1, <1>2, <1>3, <1>4 DEF NodeInfoList
<1>5. CASE a \in Parties(t)
  <2> DEFINE self == CHOOSE i \in DOMAIN AddrUrl[t] : AddrUrl[t][i] = a
             entry(i) == IF i = 1 THEN a
                                  ELSE IF i <= self THEN AddrUrl[t][i - 1] ELSE AddrUrl[t][i]
  <2>1. self \in DOMAIN AddrUrl[t]
    BY <1>5 DEF Parties, Range
  <2>2. NodeInfoList(t, a) = [i \in 1 .. Len(AddrUrl[t]) |-> entry(i)]
    BY <1>2, <1>5 DEF NodeInfoList
  <2>3. \A i \in 1 .. Len(AddrUrl[t]) : entry(i) \in Parties(t) /\ entry(i) \in Provider
    <3> TAKE i \in 1 .. Len(AddrUrl[t])
    <3>1. CASE i = 1
      BY <1>5, <3>1
    <3>2. CASE i # 1
      <4>1. i - 1 \in DOMAIN AddrUrl[t] /\ i \in DOMAIN AddrUrl[t]
        BY <1>1, <1>2, <3>2
      <4> QED
        BY <1>3, <3>2, <4>1
    <3> QED
      BY <3>1, <3>2
  <2>4. entry(1) = a
    OBVIOUS
  <2> HIDE DEF entry, self
  <2>5. [i \in 1 .. Len(AddrUrl[t]) |-> entry(i)] \in Seq(Provider)
    BY <1>1, <2>3
  <2> QED
    BY <1>2, <2>2, <2>3, <2>4, <2>5
<1> QED
  BY <1>4, <1>5

\* The clients after a look-up: the old ones and at most a new one, for that user.
LEMMA ClientFacts ==
    ASSUME NEW t \in Task, NEW u \in Provider, clients \subseteq Client
    PROVE  /\ WithClient(u, t) \subseteq Client /\ clients \subseteq WithClient(u, t)
           /\ \A c \in WithClient(u, t) : c \in clients \/ c.at = Url[t][c.user]
           /\ \A c \in ClientOf(u, WithClient(u, t)) : c.user = u /\ c \in WithClient(u, t)
           /\ \A c, d \in WithClient(u, t) : c = d \/ c.user # d.user \/ {c, d} \subseteq clients
<1>1. [user |-> u, at |-> Url[t][u]] \in Client
  BY DEF Client
<1> QED
  BY <1>1 DEF WithClient, ClientOf

-----------------------------------------------------------------------------
(* The inductive invariant.                                                *)

LEMMA InitIInv == Init => IInv
BY DEF Init, IInv, TypeOK, AddressSound, CommitSound, Commits, LooksUp, QueueSound,
       ClientsSound, ReachSound, CommitPc, RunPc

\* The steps keep the types.
LEMMA TypeNext ==
    ASSUME IInv, [Next]_vars
    PROVE  TypeOK'
<1> USE DEF CommitPc, RunPc
<1>0. TypeOK
  BY DEF IInv
<1>1. ASSUME NEW p \in Local, InsertCallback(p) \/ SetUserAddress(p) \/ RegisterIR(p)
      PROVE  TypeOK'
  BY <1>0, <1>1 DEF TypeOK, InsertCallback, SetUserAddress, RegisterIR, commitVars, readyVars, runVars
<1>2. ASSUME NEW t \in Task, GetAddress(t) PROVE TypeOK'
  BY <1>0, <1>2 DEF TypeOK, GetAddress, sessionVars, readyVars, runVars
<1>3. ASSUME NEW t \in Task, ReadContract(t) PROVE TypeOK'
  <2>1. 1 \in DOMAIN AddrUrl[t]
    BY DEF TypeOK
  <2> QED
    BY <1>0, <1>3, <2>1 DEF TypeOK, ReadContract, sessionVars, readyVars, runVars
<1>4. ASSUME NEW t \in Task, IsRegistered(t) PROVE TypeOK'
  <2>1. AddrUrl[t] \in Seq(Provider) /\ Len(AddrUrl[t]) \in Nat
        /\ next[t] \in 1 .. Len(AddrUrl[t]) /\ next[t] \in Nat
    BY <1>0, <1>4 DEF TypeOK, IsRegistered
  <2>2. AddrUrl[t][next[t]] \in Provider
    BY <2>1
  <2>3. next[t] # Len(AddrUrl[t]) => next[t] + 1 \in DOMAIN AddrUrl[t]
    BY <2>1
  <2>4. /\ address' \in [Task -> Provider \cup {NoUser}]
        /\ commitPc' \in [Task -> CommitPc] /\ next' \in [Task -> Nat]
    BY <1>0, <1>4, <2>1, <2>2 DEF TypeOK, IsRegistered
  <2>5. ASSUME NEW u \in Task, commitPc'[u] = "check" PROVE next'[u] \in DOMAIN AddrUrl[u]
    <3>1. CASE u = t
      BY <1>0, <1>4, <2>1, <2>3, <2>5, <3>1 DEF TypeOK, IsRegistered
    <3>2. CASE u # t
      BY <1>0, <1>4, <2>5, <3>2 DEF TypeOK, IsRegistered
    <3> QED
      BY <3>1, <3>2
  <2> QED
    BY <1>0, <1>4, <2>4, <2>5 DEF TypeOK, IsRegistered, sessionVars, readyVars, runVars
<1>5. ASSUME NEW t \in Task, PutCommitTask(t) PROVE TypeOK'
  <2>1. address[t] \in Provider
    BY <1>0, <1>5 DEF IInv, TypeOK, CommitSound, Commits, PutCommitTask
  <2>2. NodeInfoList(t, address[t]) \in Seq(Provider) /\ RoleOf(t, address[t]) \in {"alice", "bob"}
    BY <2>1, ListFacts DEF RoleOf
  <2> QED
    BY <1>0, <1>5, <2>2 DEF TypeOK, PutCommitTask, sessionVars, readyVars, runVars
<1>6. CASE ReadAddress \/ PopTimeout
  BY <1>0, <1>6 DEF TypeOK, ReadAddress, PopTimeout, sessionVars, commitVars, runVars
<1>7. CASE PopCommitTask
  <2>1. Head(commitQueue) \in Task /\ Tail(commitQueue) \in Seq(Task)
    BY <1>0, <1>7 DEF TypeOK, PopCommitTask
  <2> QED
    BY <1>0, <1>7, <2>1 DEF TypeOK, PopCommitTask, sessionVars, commitVars
<1>8. ASSUME NEW t \in Task, Call(t) PROVE TypeOK'
  <2>1. clients' \subseteq Client /\ called' \in [Task -> SUBSET Client]
    <3>1. CASE UNCHANGED <<clients, called>>
      BY <1>0, <3>1 DEF TypeOK
    <3>2. ASSUME NEW i \in DOMAIN nodeInfoList[t],
                 clients' = WithClient(nodeInfoList[t][i], t),
                 called' = [called EXCEPT ![t] = ClientOf(nodeInfoList[t][i], clients')]
          PROVE  clients' \subseteq Client /\ called' \in [Task -> SUBSET Client]
      <4>1. nodeInfoList[t][i] \in Provider
        BY <1>0 DEF TypeOK
      <4>2. clients' \subseteq Client /\ ClientOf(nodeInfoList[t][i], clients') \subseteq Client
        BY <1>0, <3>2, <4>1, ClientFacts DEF TypeOK, ClientOf
      <4> QED
        BY <1>0, <3>2, <4>2 DEF TypeOK
    <3> QED
      BY <1>8, <3>1, <3>2 DEF Call
  <2> QED
    BY <1>0, <1>8, <2>1 DEF TypeOK, Call, sessionVars, commitVars, runVars
<1>9. ASSUME NEW t \in Task, ReadUserAddress(t) PROVE TypeOK'
  <2>1. userAddress \in Provider
    BY <1>0, <1>9 DEF IInv, TypeOK, AddressSound, ReadUserAddress
  <2> QED
    BY <1>0, <1>9, <2>1 DEF TypeOK, ReadUserAddress, sessionVars, commitVars, readyVars
<1>10. ASSUME NEW t \in Task, SetCallbacks(t) PROVE TypeOK'
  BY <1>0, <1>10 DEF TypeOK, SetCallbacks, sessionVars, commitVars, readyVars
<1>11. ASSUME NEW t \in Task, NEW u \in Provider, SendData(t, u) PROVE TypeOK'
  <2>1. clients' \subseteq Client /\ ClientOf(u, clients') \subseteq Client
    BY <1>0, <1>11, ClientFacts DEF TypeOK, SendData, ClientOf
  <2> QED
    BY <1>0, <1>11, <2>1 DEF TypeOK, SendData, sessionVars, commitVars, readyVars
<1>12. CASE UNCHANGED vars
  BY <1>0, <1>12 DEF TypeOK, vars, sessionVars, commitVars, readyVars, runVars
<1> QED
  BY <1>1, <1>2, <1>3, <1>4, <1>5, <1>6, <1>7, <1>8, <1>9, <1>10, <1>11, <1>12
     DEF Next, Commit, ReadyProcessor, Processor

\* The addresses in use are those of stored callbacks.
LEMMA AddressNext ==
    ASSUME IInv, [Next]_vars
    PROVE  AddressSound'
<1> USE DEF CommitPc, RunPc
<1>0. TypeOK /\ AddressSound
  BY DEF IInv
<1>1. ASSUME NEW p \in Local, InsertCallback(p) \/ SetUserAddress(p) \/ RegisterIR(p)
      PROVE  AddressSound'
  BY <1>0, <1>1
     DEF TypeOK, AddressSound, InsertCallback, SetUserAddress, RegisterIR, commitVars, readyVars, runVars
<1>2. ASSUME NEW t \in Task, Commit(t) PROVE AddressSound'
  BY <1>0, <1>2 DEF AddressSound, Commit, GetAddress, ReadContract, IsRegistered, PutCommitTask,
     sessionVars, readyVars, runVars
<1>3. CASE ReadAddress \/ PopTimeout
  BY <1>0, <1>3 DEF AddressSound, ReadAddress, PopTimeout, sessionVars, runVars
<1>4. CASE PopCommitTask
  BY <1>0, <1>4 DEF TypeOK, AddressSound, PopCommitTask, sessionVars
<1>5. ASSUME NEW t \in Task, Call(t) PROVE AddressSound'
  BY <1>0, <1>5 DEF AddressSound, Call, sessionVars, runVars
<1>6. ASSUME NEW t \in Task, ReadUserAddress(t) PROVE AddressSound'
  BY <1>0, <1>6 DEF TypeOK, AddressSound, ReadUserAddress, sessionVars, readyVars
<1>7. ASSUME NEW t \in Task, SetCallbacks(t) PROVE AddressSound'
  BY <1>0, <1>7 DEF TypeOK, AddressSound, SetCallbacks, sessionVars, readyVars
<1>8. ASSUME NEW t \in Task, NEW u \in Provider, SendData(t, u) PROVE AddressSound'
  BY <1>0, <1>8 DEF AddressSound, SendData, sessionVars, readyVars
<1>9. CASE UNCHANGED vars
  BY <1>0, <1>9 DEF AddressSound, vars, sessionVars, readyVars, runVars
<1> QED
  BY <1>1, <1>2, <1>3, <1>4, <1>5, <1>6, <1>7, <1>8, <1>9 DEF Next, ReadyProcessor, Processor

\* A commit finds this node's party: what it looked up before is not that party, and
\* what it stops at is.
LEMMA LookUpNext ==
    ASSUME IInv, NEW t \in Task, IsRegistered(t)
    PROVE  Commits(t)' /\ LooksUp(t)'
<1>0. /\ TypeOK /\ Commits(t) /\ LooksUp(t) /\ transactionCB \subseteq Local
      /\ UNCHANGED <<transactionCB, present, role, nodeInfoList>> /\ commitPc[t] = "check"
  BY DEF IInv, AddressSound, CommitSound, IsRegistered, sessionVars
<1>1. /\ AddrUrl[t] \in Seq(Provider) /\ Len(AddrUrl[t]) \in Nat /\ next[t] \in Nat
      /\ next[t] \in DOMAIN AddrUrl[t] /\ DOMAIN AddrUrl[t] = 1 .. Len(AddrUrl[t])
  BY <1>0 DEF TypeOK
<1> DEFINE party == AddrUrl[t][next[t]]
<1>2. party \in Parties(t) /\ party \in Provider
  BY <1>1 DEF Parties, Range
<1>3. ASSUME NEW p \in Parties(t) \cap present[t], OnlyHere(t, p), party \in transactionCB
      PROVE  party = p
  BY <1>0, <1>2, <1>3 DEF OnlyHere
<1>4. ASSUME NEW p \in Parties(t) \cap present[t], OnlyHere(t, p), party \notin transactionCB,
             NEW i \in DOMAIN AddrUrl[t], i <= next[t]
      PROVE  AddrUrl[t][i] # p
  <2>1. p # party
    BY <1>0, <1>4 DEF Commits
  <2>2. i < next[t] => AddrUrl[t][i] # p
    BY <1>0, <1>4 DEF LooksUp
  <2>3. i \in Nat
    BY <1>1
  <2> QED
    BY <1>1, <1>4, <2>1, <2>2, <2>3
<1>5. CASE party \in transactionCB
  <2>1. address'[t] = party /\ commitPc'[t] = "list"
    BY <1>0, <1>5 DEF IsRegistered, TypeOK
  <2> QED
    BY <1>0, <1>2, <1>3, <1>5, <2>1 DEF Commits, LooksUp, OnlyHere
<1>6. CASE party \notin transactionCB /\ next[t] = Len(AddrUrl[t])
  <2>1. address'[t] = address[t] /\ commitPc'[t] = "list"
    BY <1>0, <1>6 DEF IsRegistered, TypeOK
  <2>2. ASSUME NEW p \in Parties(t) \cap present[t], OnlyHere(t, p) PROVE FALSE
    <3>1. PICK i \in DOMAIN AddrUrl[t] : AddrUrl[t][i] = p
      BY DEF Parties, Range
    <3>2. i <= next[t]
      BY <1>1, <1>6
    <3> QED
      BY <1>4, <1>6, <2>2, <3>1, <3>2
  <2> QED
    BY <1>0, <2>1, <2>2 DEF Commits, LooksUp, OnlyHere
<1>7. CASE party \notin transactionCB /\ next[t] # Len(AddrUrl[t])
  <2>1. address'[t] = address[t] /\ commitPc'[t] = "check" /\ next'[t] = next[t] + 1
    BY <1>0, <1>7 DEF IsRegistered, TypeOK
  <2>2. \A i \in DOMAIN AddrUrl[t] : i < next'[t] => i <= next[t]
    BY <1>1, <2>1
  <2> QED
    BY <1>0, <1>4, <1>7, <2>1, <2>2 DEF Commits, LooksUp, OnlyHere
<1> QED
  BY <1>5, <1>6, <1>7

\* What a commit knows stays so when callbacks are added.
LEMMA CommitKept ==
    ASSUME NEW t \in Task, Commits(t), LooksUp(t), transactionCB \subseteq transactionCB',
           UNCHANGED <<commitPc[t], address[t], next[t], nodeInfoList[t], role[t], present[t]>>
    PROVE  Commits(t)' /\ LooksUp(t)'
BY DEF Commits, LooksUp, OnlyHere

LEMMA CommitNext ==
    ASSUME IInv, [Next]_vars
    PROVE  CommitSound'
<1> SUFFICES ASSUME NEW u \in Task PROVE Commits(u)' /\ LooksUp(u)'
  BY DEF CommitSound
<1>0. TypeOK /\ AddressSound /\ Commits(u) /\ LooksUp(u)
  BY DEF IInv, CommitSound
<1>1. ASSUME NEW t \in Task, GetAddress(t) PROVE Commits(u)' /\ LooksUp(u)'
  <2>1. CASE u = t
    BY <1>0, <1>1, <2>1 DEF TypeOK, AddressSound, Commits, LooksUp, GetAddress, sessionVars
  <2>2. CASE u # t
    BY <1>0, <1>1, <2>2, CommitKept DEF TypeOK, GetAddress, sessionVars
  <2> QED
    BY <2>1, <2>2
<1>2. ASSUME NEW t \in Task, ReadContract(t) PROVE Commits(u)' /\ LooksUp(u)'
  <2>1. CASE u = t
    <3>1. \A i \in DOMAIN AddrUrl[t] : ~(i < 1)
      BY DEF TypeOK
    <3> QED
      BY <1>0, <1>2, <2>1, <3>1 DEF TypeOK, Commits, LooksUp, OnlyHere, ReadContract, sessionVars
  <2>2. CASE u # t
    BY <1>0, <1>2, <2>2, CommitKept DEF TypeOK, ReadContract, sessionVars
  <2> QED
    BY <2>1, <2>2
<1>3. ASSUME NEW t \in Task, IsRegistered(t) PROVE Commits(u)' /\ LooksUp(u)'
  <2>1. CASE u = t
    BY <1>3, <2>1, LookUpNext
  <2>2. CASE u # t
    BY <1>0, <1>3, <2>2, CommitKept DEF TypeOK, IsRegistered, sessionVars
  <2> QED
    BY <2>1, <2>2
<1>4. ASSUME NEW t \in Task, PutCommitTask(t) PROVE Commits(u)' /\ LooksUp(u)'
  <2>1. CASE u = t
    BY <1>0, <1>4, <2>1, ZenonT(60) DEF TypeOK, Commits, LooksUp, OnlyHere, PutCommitTask, sessionVars
  <2>2. CASE u # t
    BY <1>0, <1>4, <2>2, CommitKept DEF TypeOK, PutCommitTask, sessionVars
  <2> QED
    BY <2>1, <2>2
<1>5. ASSUME \/ \E p \in Local : InsertCallback(p) \/ SetUserAddress(p) \/ RegisterIR(p)
             \/ ReadyProcessor \/ \E t \in Task : Processor(t)
             \/ UNCHANGED vars
      PROVE  transactionCB \subseteq transactionCB' /\ UNCHANGED commitVars
  BY <1>5
     DEF InsertCallback, SetUserAddress, RegisterIR, ReadyProcessor, ReadAddress, PopCommitTask,
         PopTimeout, Call, Processor, ReadUserAddress, SetCallbacks, SendData, vars, sessionVars,
         commitVars
<1>6. ASSUME transactionCB \subseteq transactionCB', UNCHANGED commitVars
      PROVE  Commits(u)' /\ LooksUp(u)'
  BY <1>0, <1>6, CommitKept DEF commitVars
<1> QED
  BY <1>1, <1>2, <1>3, <1>4, <1>5, <1>6 DEF Next, Commit

\* Only committed tasks reach the threads.
LEMMA QueueNext ==
    ASSUME IInv, [Next]_vars
    PROVE  QueueSound'
<1>0. TypeOK /\ QueueSound
  BY DEF IInv
<1>1. ASSUME NEW t \in Task, GetAddress(t) \/ ReadContract(t) \/ IsRegistered(t) PROVE QueueSound'
  <2>1. /\ UNCHANGED <<commitQueue, rpTask, runPc>> /\ commitPc[t] # "queued"
        /\ \A u \in Task : u # t => commitPc'[u] = commitPc[u]
    BY <1>0, <1>1 DEF TypeOK, GetAddress, ReadContract, IsRegistered, readyVars, runVars
  <2>2. \A i \in DOMAIN commitQueue : commitQueue[i] \in Task
    BY <1>0 DEF TypeOK
  <2>3. rpTask \subseteq Task
    BY <1>0 DEF TypeOK
  <2> QED
    BY <1>0, <2>1, <2>2, <2>3 DEF QueueSound
<1>2. ASSUME NEW t \in Task, PutCommitTask(t) PROVE QueueSound'
  <2>1. /\ commitQueue' = Append(commitQueue, t) /\ UNCHANGED <<rpTask, runPc>>
        /\ commitPc' = [commitPc EXCEPT ![t] = "queued"]
    BY <1>2 DEF PutCommitTask, readyVars, runVars
  <2>2. \A u \in Task : commitPc[u] = "queued" \/ u = t => commitPc'[u] = "queued"
    BY <1>0, <2>1 DEF TypeOK
  <2>3. \A i \in DOMAIN commitQueue' :
            (i \in DOMAIN commitQueue /\ commitQueue'[i] = commitQueue[i]) \/ commitQueue'[i] = t
    <3>1. commitQueue \in Seq(Task)
      BY <1>0 DEF TypeOK
    <3> QED
      BY <2>1, <3>1, AppendFacts
  <2>4. \A i \in DOMAIN commitQueue : commitQueue[i] \in Task
    BY <1>0 DEF TypeOK
  <2>5. rpTask \subseteq Task
    BY <1>0 DEF TypeOK
  <2> QED
    BY <1>0, <2>1, <2>2, <2>3, <2>4, <2>5 DEF QueueSound
<1>3. CASE PopCommitTask
  <2>1. /\ commitQueue # << >> /\ commitQueue' = Tail(commitQueue)
        /\ rpTask' = {Head(commitQueue)} /\ UNCHANGED commitPc
        /\ runPc' = [runPc EXCEPT ![Head(commitQueue)] = "ready"]
    BY <1>3 DEF PopCommitTask, commitVars
  <2>2. /\ 1 \in DOMAIN commitQueue /\ Head(commitQueue) = commitQueue[1]
        /\ \A i \in DOMAIN Tail(commitQueue) :
               i + 1 \in DOMAIN commitQueue /\ Tail(commitQueue)[i] = commitQueue[i + 1]
    BY <1>0, <2>1 DEF TypeOK
  <2> QED
    BY <1>0, <2>1, <2>2 DEF TypeOK, QueueSound
<1>4. ASSUME NEW t \in Task, Call(t) \/ ReadUserAddress(t) \/ SetCallbacks(t) PROVE QueueSound'
  BY <1>0, <1>4 DEF TypeOK, QueueSound, Call, ReadUserAddress, SetCallbacks, commitVars, readyVars, runVars
<1>5. ASSUME \/ \E p \in Local : InsertCallback(p) \/ SetUserAddress(p) \/ RegisterIR(p)
             \/ ReadAddress \/ PopTimeout
             \/ \E t \in Task : \E u \in Provider : SendData(t, u)
             \/ UNCHANGED vars
      PROVE  QueueSound'
  BY <1>0, <1>5
     DEF QueueSound, InsertCallback, SetUserAddress, RegisterIR, ReadAddress, PopTimeout, SendData,
         vars, sessionVars, commitVars, readyVars, runVars
<1> QED
  BY <1>1, <1>2, <1>3, <1>4, <1>5 DEF Next, Commit, ReadyProcessor, Processor
\* Whom a step reaches: a party of the task, when another provider is registered here.
LEMMA ReachKept ==
    ASSUME TypeOK, ClientsSound, ReachSound, transactionCB \subseteq transactionCB',
           NEW t \in Task, NEW u \in Parties(t) \cap Provider, transactionCB \ {u} # {},
           clients' = WithClient(u, t),
           \A v \in Task : \A c \in (called[v] \cup sent[v])' :
               c \in called[v] \cup sent[v] \/ (v = t /\ c \in ClientOf(u, clients'))
    PROVE  ClientsSound' /\ ReachSound'
<1>1. /\ clients \subseteq clients'
      /\ \A c \in clients' : c \in clients \/ c.at = Url[t][c.user]
      /\ \A c \in ClientOf(u, clients') : c.user = u /\ c \in clients'
      /\ \A c, d \in clients' : c = d \/ c.user # d.user \/ {c, d} \subseteq clients
  BY ClientFacts DEF TypeOK
<1>2. ClientsSound'
  BY <1>1 DEF ClientsSound
<1>3. ASSUME NEW v \in Task, NEW c \in (called[v] \cup sent[v])'
      PROVE  c \in clients' /\ c.user \in Parties(v) /\ transactionCB' \ {c.user} # {}
  <2>1. CASE c \in called[v] \cup sent[v]
    BY <1>1, <2>1 DEF ReachSound
  <2>2. CASE v = t /\ c \in ClientOf(u, clients')
    BY <1>1, <2>2
  <2> QED
    BY <1>3, <2>1, <2>2
<1> QED
  BY <1>2, <1>3 DEF ReachSound

\* The nodes of a committed task's list are its parties.
LEMMA ListOfParties ==
    ASSUME IInv, NEW t \in Task, commitPc[t] = "queued"
    PROVE  /\ \A i \in DOMAIN nodeInfoList[t] : nodeInfoList[t][i] \in Parties(t) \cap Provider
           /\ address[t] \in Provider
<1>1. TypeOK /\ Commits(t)
  BY DEF IInv, CommitSound
<1>2. address[t] \in Provider /\ nodeInfoList[t] = NodeInfoList(t, address[t])
  BY <1>1 DEF TypeOK, Commits
<1> QED
  BY <1>1, <1>2, ListFacts DEF TypeOK

\* Whoever is called or sent to is not the only provider registered here: the address
\* it differs from is that of a stored callback.
LEMMA ReachNext ==
    ASSUME IInv, [Next]_vars
    PROVE  ClientsSound' /\ ReachSound'
<1>0. TypeOK /\ AddressSound /\ QueueSound /\ ClientsSound /\ ReachSound
  BY DEF IInv
<1>1. ASSUME NEW t \in Task, Call(t) PROVE ClientsSound' /\ ReachSound'
  <2>1. CASE UNCHANGED <<clients, called>>
    BY <1>0, <1>1, <2>1 DEF Call, ClientsSound, ReachSound, sessionVars, runVars
  <2>2. ASSUME NEW i \in DOMAIN nodeInfoList[t], nodeInfoList[t][i] # rpAddress,
               clients' = WithClient(nodeInfoList[t][i], t),
               called' = [called EXCEPT ![t] = ClientOf(nodeInfoList[t][i], clients')]
        PROVE  ClientsSound' /\ ReachSound'
    <3> DEFINE u == nodeInfoList[t][i]
    <3>1. u \in Parties(t) \cap Provider
      BY <1>0, <1>1, ListOfParties DEF QueueSound, Call
    <3>2. rpAddress \in transactionCB /\ u # rpAddress
      BY <1>0, <1>1, <2>2 DEF AddressSound, Call
    <3>3. transactionCB' = transactionCB /\ sent' = sent
      BY <1>1 DEF Call, sessionVars, runVars
    <3>4. ASSUME NEW v \in Task, NEW c \in (called[v] \cup sent[v])'
          PROVE  c \in called[v] \cup sent[v] \/ (v = t /\ c \in ClientOf(u, clients'))
      BY <1>0, <2>2, <3>3, <3>4 DEF TypeOK
    <3>5. transactionCB \ {u} # {}
      BY <3>2
    <3> HIDE DEF u
    <3> QED
      BY <1>0, <2>2, <3>1, <3>3, <3>4, <3>5, ReachKept DEF u
  <2> QED
    BY <1>1, <2>1, <2>2 DEF Call
<1>2. ASSUME NEW t \in Task, NEW u \in Provider, SendData(t, u) PROVE ClientsSound' /\ ReachSound'
  <2>1. u \in Parties(t)
    BY <1>0, <1>2, ListOfParties DEF QueueSound, SendData, Range
  <2>2. userAddress \in transactionCB /\ u # userAddress
    BY <1>0, <1>2 DEF AddressSound, SendData
  <2>3. transactionCB' = transactionCB /\ called' = called /\ clients' = WithClient(u, t)
    BY <1>2 DEF SendData, sessionVars, readyVars
  <2>4. ASSUME NEW v \in Task, NEW c \in (called[v] \cup sent[v])'
        PROVE  c \in called[v] \cup sent[v] \/ (v = t /\ c \in ClientOf(u, clients'))
    BY <1>0, <1>2, <2>3, <2>4 DEF TypeOK, SendData
  <2> QED
    BY <1>0, <2>1, <2>2, <2>3, <2>4, ReachKept
<1>3. ASSUME \/ \E p \in Local : InsertCallback(p) \/ SetUserAddress(p) \/ RegisterIR(p)
             \/ ReadAddress \/ PopCommitTask \/ PopTimeout
             \/ \E t \in Task : Commit(t) \/ ReadUserAddress(t) \/ SetCallbacks(t)
             \/ UNCHANGED vars
      PROVE  transactionCB \subseteq transactionCB' /\ UNCHANGED <<clients, called, sent>>
  BY <1>3
     DEF InsertCallback, SetUserAddress, RegisterIR, ReadAddress, PopCommitTask, PopTimeout, Commit,
         GetAddress, ReadContract, IsRegistered, PutCommitTask, ReadUserAddress, SetCallbacks,
         vars, sessionVars, readyVars, runVars
<1>4. ASSUME transactionCB \subseteq transactionCB', UNCHANGED <<clients, called, sent>>
      PROVE  ClientsSound' /\ ReachSound'
  BY <1>0, <1>4 DEF ClientsSound, ReachSound
<1> QED
  BY <1>1, <1>2, <1>3, <1>4 DEF Next, ReadyProcessor, Processor

\* The addresses, look-ups, queue and clients are sound in every state.
THEOREM PartiesInductive == Spec => []IInv
<1>1. IInv /\ [Next]_vars => IInv'
  BY TypeNext, AddressNext, CommitNext, QueueNext, ReachNext DEF IInv
<1> QED
  BY InitIInv, <1>1, PTL DEF Spec

-----------------------------------------------------------------------------
(* The properties.                                                         *)

\* The variables keep their types: the look-up never leaves the task's parties, and a
\* run never asks an empty address.
THEOREM TypeCorrect == Spec => []TypeOK
<1>1. IInv => TypeOK
  BY DEF IInv
<1> QED
  BY PartiesInductive, <1>1, PTL

\* Alice is the node where the invitor registered, for every contract.
THEOREM AliceIsHereCorrect == Spec => []AliceIsHere
<1>1. IInv => AliceIsHere
  <2> SUFFICES ASSUME IInv, NEW t \in Task, "alice" \in role[t]
               PROVE  Invitor[t] \in transactionCB
    BY DEF AliceIsHere
  <2>1. Commits(t) /\ commitPc[t] = "queued" /\ "alice" \in {RoleOf(t, address[t])}
    BY DEF IInv, CommitSound, Commits
  <2>2. Invitor[t] = address[t]
    BY <2>1 DEF RoleOf
  <2>3. address[t] # NoUser
    BY <2>1 DEF Commits
  <2> QED
    BY <2>1, <2>2, <2>3 DEF Commits
<1> QED
  BY PartiesInductive, <1>1, PTL

\* A node with one provider in the task, registered before the commit, serves it.
THEOREM ServesItsPartyCorrect == Spec => []ServesItsParty
<1>1. IInv => ServesItsParty
  <2> SUFFICES ASSUME IInv, NEW t \in Task, NEW p \in Parties(t) \cap present[t],
                      commitPc[t] = "queued", OnlyHere(t, p)
               PROVE  /\ nodeInfoList[t][1] = p
                      /\ role[t] = {IF Invitor[t] = p THEN "alice" ELSE "bob"}
    BY DEF ServesItsParty, OnlyHere
  <2>1. TypeOK /\ Commits(t) /\ LooksUp(t)
    BY DEF IInv, CommitSound
  <2>2. address[t] = p /\ p \in Provider
    BY <2>1 DEF TypeOK, LooksUp
  <2>3. nodeInfoList[t] = NodeInfoList(t, p) /\ role[t] = {RoleOf(t, p)}
    BY <2>1, <2>2 DEF Commits
  <2> QED
    BY <2>2, <2>3, ListFacts DEF RoleOf
<1> QED
  BY PartiesInductive, <1>1, PTL

\* A provider registered here is asked, and the others are called and sent to, at
\* endpoints the contracts named: never the one provider here while it is alone.
THEOREM ReachesTheOthersCorrect == Spec => []ReachesTheOthers
<1>1. IInv => ReachesTheOthers
  <2> SUFFICES ASSUME IInv, NEW t \in Task
               PROVE  /\ asked[t] \subseteq transactionCB
                      /\ \A c \in called[t] \cup sent[t] :
                             /\ c.user \in Parties(t) /\ transactionCB # {c.user}
                             /\ \E v \in Task : c.at = Url[v][c.user]
    BY DEF ReachesTheOthers
  <2>1. asked[t] \subseteq transactionCB
    BY DEF IInv, AddressSound
  <2>2. ASSUME NEW c \in called[t] \cup sent[t]
        PROVE  /\ c.user \in Parties(t) /\ transactionCB # {c.user}
               /\ \E v \in Task : c.at = Url[v][c.user]
    <3>1. c \in clients /\ c.user \in Parties(t) /\ transactionCB \ {c.user} # {}
      BY <2>2 DEF IInv, ReachSound
    <3> QED
      BY <3>1 DEF IInv, ClientsSound
  <2> QED
    BY <2>1, <2>2
<1> QED
  BY PartiesInductive, <1>1, PTL

\* A party is called and sent to at one node throughout, for every set of contracts,
\* those that name different endpoints for it included.
THEOREM SameNodeThroughoutCorrect == Spec => []SameNodeThroughout
<1>1. IInv => SameNodeThroughout
  <2> SUFFICES ASSUME IInv, NEW t \in Task, NEW v \in Task, NEW c \in called[t] \cup sent[t],
                      NEW d \in called[v] \cup sent[v], c.user = d.user
               PROVE  c.at = d.at
    BY DEF SameNodeThroughout
  <2>1. c \in clients /\ d \in clients
    BY DEF IInv, ReachSound
  <2> QED
    BY <2>1 DEF IInv, ClientsSound
<1> QED
  BY PartiesInductive, <1>1, PTL

\* No run fails for want of the transaction callback of the provider it asks.
THEOREM TransactionCBFoundCorrect == Spec => TransactionCBFound
<1> DEFINE Found == \A t \in Task :
                        runPc[t] = "callbacks" /\ runPc'[t] = "failed" => ~(asked[t] \subseteq taskCB)
<1>1. IInv /\ [Next]_vars => [Found]_vars
  <2> SUFFICES ASSUME IInv, Next, NEW t \in Task, runPc[t] = "callbacks", runPc'[t] = "failed"
               PROVE  ~(asked[t] \subseteq taskCB)
    OBVIOUS
  <2>1. TypeOK /\ asked[t] \subseteq transactionCB
    BY DEF IInv, AddressSound
  <2>2. SetCallbacks(t)
    <3>1. ASSUME NEW s \in Task, ReadUserAddress(s) PROVE FALSE
      BY <2>1, <3>1 DEF TypeOK, ReadUserAddress
    <3>2. ASSUME NEW s \in Task, SetCallbacks(s), s # t PROVE FALSE
      BY <2>1, <3>2 DEF TypeOK, SetCallbacks
    <3>3. ASSUME PopCommitTask PROVE FALSE
      BY <2>1, <3>3 DEF TypeOK, PopCommitTask
    <3>4. ASSUME runPc' = runPc PROVE FALSE
      BY <3>4
    <3>5. ASSUME \/ \E p \in Local : InsertCallback(p) \/ SetUserAddress(p) \/ RegisterIR(p)
                 \/ ReadAddress \/ PopTimeout
                 \/ \E s \in Task : Commit(s) \/ Call(s) \/ \E u \in Provider : SendData(s, u)
          PROVE  runPc' = runPc
      BY <3>5 DEF InsertCallback, SetUserAddress, RegisterIR, ReadAddress, PopTimeout, Commit,
         GetAddress, ReadContract, IsRegistered, PutCommitTask, Call, SendData, runVars
    <3> QED
      BY <3>1, <3>2, <3>3, <3>4, <3>5 DEF Next, ReadyProcessor, Processor
  <2> QED
    BY <2>1, <2>2 DEF TypeOK, SetCallbacks
<1> QED
  BY PartiesInductive, <1>1, PTL DEF Spec, TransactionCBFound
===============================================================================
