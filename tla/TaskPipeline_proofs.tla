------------------------ MODULE TaskPipeline_proofs ------------------------
(***************************************************************************)
(* Proofs about what a node does with its tasks: types, one verdict on     *)
(* each, nonces without holes, a monitor that does not wait behind a       *)
(* computation, and tasks started in the order of the pushes, for every    *)
(* set of tasks.                                                           *)
(*                                                                         *)
(* The inductive invariant says that a task that was pushed once is at one *)
(* place of the pipeline (OncePlaced) and holds its slot until it is over  *)
(* (SlotsSound), which verdicts there can be at that place (VerdictSound), *)
(* and that every nonce remembered or used has all the smaller ones below  *)
(* it (NonceSound) or accounted for (Accounted).  OrderSound, proved on    *)
(* top of it, says where what was pushed for a role is.                    *)
(*                                                                         *)
(* A measure of the steps that each task still costs shows that a node     *)
(* comes to a stop (StepsBounded).                                         *)
(***************************************************************************)
EXTENDS TaskPipeline, Countdown, FiniteSetTheorems, TLAPS

Ready(t) == readyQueue[Role(t)]

\* The processor of t's role is at work on t.
Running(t) == pc[Role(t)] # "fetch" /\ t \in task[Role(t)]

\* Each role's queue, which has one place, and processor have that role's tasks.
RoleSound ==
    /\ \A r \in Roles :
           /\ Len(readyQueue[r]) <= 1
           /\ \A t \in Range(readyQueue[r]) \cup task[r] : Role(t) = r
           /\ pc[r] # "fetch" => task[r] # {}
    /\ pc["alice"] \in {"fetch", "input", "run", "clear"}

\* t is at one place at most.
OnePlace(t) ==
    /\ pushes[t] = 0 => /\ t \notin Range(putQueue) \cup monTask \cup Range(Ready(t)) \cup ended
                        /\ ~Running(t)
    /\ \A i, j \in DOMAIN putQueue : putQueue[i] = t /\ putQueue[j] = t => i = j
    /\ t \in Range(putQueue) => t \notin monTask \cup Range(Ready(t)) \cup ended /\ ~Running(t)
    /\ t \in monTask => t \notin Range(Ready(t)) \cup ended /\ ~Running(t)
    /\ t \in Range(Ready(t)) => t \notin ended /\ ~Running(t)
    /\ Running(t) => t \notin ended

OncePlaced == \A t \in Task : pushes[t] < 2 => OnePlace(t)

\* A task holds its slot until its run is over.
SlotHeld(t) ==
    \/ t \in Range(putQueue) \cup monTask \cup Range(Ready(t))
    \/ Running(t)
    => t \in requestQueue

SlotsSound ==
    /\ \A t \in Task : pushes[t] < 2 => SlotHeld(t)
    /\ IsFiniteSet(requestQueue)
    /\ Cardinality(requestQueue) <= ProcessorNum

\* What is known of a task when it gets its verdict.
Verdict(t) ==
    /\ t \in accepted \cup failed => t \in ended \/ (Running(t) /\ pc["bob"] \in {"report", "clear"})
    /\ t \in accepted /\ Running(t) /\ pc["bob"] = "report" => t \in answerLost
    /\ t \in failed /\ Running(t) => pc["bob"] = "clear"

VerdictSound ==
    /\ \A t \in Task : pushes[t] < 2 => Verdict(t)
    /\ pc["bob"] = "clear" => task["bob"] \subseteq accepted \cup failed
    /\ OneVerdict

\* All the nonces below n are used.
Below(n) == \A k \in 0 .. n : k # n => k \in used

\* From every number on there is a first nonce that is not used.
Holes ==
    \A k \in Nat : \E n \in Nat :
        n >= k /\ n \notin used /\ \A i \in k .. n : i # n => i \in used

NonceSound ==
    /\ IsFiniteSet(used) /\ Holes
    /\ countFailed \/ \A n \in used \cup userNonce \cup {nonce} : Below(n)

IInv == TypeOK /\ RoleSound /\ OncePlaced /\ SlotsSound /\ VerdictSound /\ NonceSound

-----------------------------------------------------------------------------
(* Facts about roles, sequences and nonces.                                *)

LEMMA PushLimit == MaxPush \in {1, 2}
BY DEF MaxPush

USE PipelineAssumption, PushLimit

LEMMA RoleFacts == Roles = {"alice", "bob"} /\ \A t \in Task : Role(t) \in Roles
BY DEF Roles, Role

LEMMA LimitFacts == ProcessorNum = 2 /\ ReadyLimit = 1
BY DEF ProcessorNum, ReadyLimit

LEMMA RangeAppend ==
    ASSUME NEW S, NEW s \in Seq(S), NEW x \in S
    PROVE  /\ Append(s, x) \in Seq(S)
           /\ Range(Append(s, x)) = Range(s) \cup {x}
           /\ \A i \in DOMAIN Append(s, x) :
                  (i \in DOMAIN s /\ Append(s, x)[i] = s[i])
                  \/ (i = Len(s) + 1 /\ Append(s, x)[i] = x)
<1>1. \A y \in Range(Append(s, x)) : y \in Range(s) \cup {x}
  BY DEF Range
<1>2. \A y \in Range(s) \cup {x} : y \in Range(Append(s, x))
  <2>1. Append(s, x)[Len(s) + 1] = x /\ Len(s) + 1 \in DOMAIN Append(s, x)
    OBVIOUS
  <2>2. \A i \in DOMAIN s : Append(s, x)[i] = s[i] /\ i \in DOMAIN Append(s, x)
    OBVIOUS
  <2> QED
    BY <2>1, <2>2 DEF Range
<1> QED
  BY <1>1, <1>2

LEMMA RangeTail ==
    ASSUME NEW S, NEW s \in Seq(S), s # << >>
    PROVE  /\ Head(s) \in Range(s) /\ Head(s) \in S /\ Tail(s) \in Seq(S)
           /\ Range(Tail(s)) \subseteq Range(s)
           /\ 1 \in DOMAIN s /\ s[1] = Head(s)
           /\ \A i \in DOMAIN Tail(s) : i + 1 \in DOMAIN s /\ Tail(s)[i] = s[i + 1]
           /\ DOMAIN Tail(s) \subseteq Nat \ {0}
<1>1. Head(s) = s[1] /\ 1 \in DOMAIN s
  OBVIOUS
<1>2. \A i \in DOMAIN Tail(s) : Tail(s)[i] = s[i + 1] /\ i + 1 \in DOMAIN s
  OBVIOUS
<1>3. DOMAIN Tail(s) \subseteq Nat \ {0}
  OBVIOUS
<1> QED
  BY <1>1, <1>2, <1>3 DEF Range

\* A sequence has its head and what is in its tail.
LEMMA RangeHeadTail ==
    ASSUME NEW S, NEW s \in Seq(S), s # << >>
    PROVE  Range(s) = {Head(s)} \cup Range(Tail(s))
<1>1. \A i \in DOMAIN s : i # 1 => /\ i - 1 \in DOMAIN Tail(s)
                                   /\ Tail(s)[i - 1] = s[i]
  OBVIOUS
<1>2. Head(s) = s[1]
  OBVIOUS
<1>3. Range(s) \subseteq {Head(s)} \cup Range(Tail(s))
  <2> SUFFICES ASSUME NEW i \in DOMAIN s PROVE s[i] \in {Head(s)} \cup Range(Tail(s))
    BY DEF Range
  <2> QED
    BY <1>1, <1>2 DEF Range
<1> QED
  BY <1>3, RangeTail

\* A queue of one place is empty after its task was fetched.
LEMMA OnePlaceQueue ==
    ASSUME NEW S, NEW s \in Seq(S), Len(s) <= 1, s # << >>
    PROVE  Tail(s) = << >> /\ Range(s) = {Head(s)} /\ Len(s) = 1
<1>1. Len(s) = 1
  OBVIOUS
<1>2. Tail(s) = << >>
  <2>1. Tail(s) \in Seq(S) /\ Len(Tail(s)) = 0
    BY <1>1
  <2>2. \A q \in Seq(S) : Len(q) = 0 => q = << >>
    OBVIOUS
  <2> QED
    BY <2>1, <2>2
<1>3. Range(s) = {Head(s)}
  BY <1>1 DEF Range
<1> QED
  BY <1>1, <1>2, <1>3

LEMMA RangeEmpty == Range(<< >>) = {}
BY DEF Range

\* The pending count is the first nonce that is not used: Holes has one, and it is
\* not larger than the number of those used.
LEMMA PendingFacts ==
    ASSUME used \subseteq Nat, IsFiniteSet(used), Holes
    PROVE  PendingCount \in Nat /\ PendingCount \notin used /\ Below(PendingCount)
<1>1. PICK n \in Nat : n \notin used /\ \A i \in 0 .. n : i # n => i \in used
  BY DEF Holes
<1>2. Cardinality(used) \in Nat
  BY FS_CardinalityType
<1>3. n <= Cardinality(used)
  <2>1. (0 .. (n - 1)) \in SUBSET used
    BY <1>1
  <2>2. Cardinality(0 .. (n - 1)) <= Cardinality(used)
    BY <2>1, FS_Subset
  <2>3. Cardinality(0 .. (n - 1)) = n
    <3>1. 0 \in Int /\ n - 1 \in Int
      BY <1>1
    <3>2. Cardinality(0 .. (n - 1)) = IF 0 > n - 1 THEN 0 ELSE (n - 1) - 0 + 1
      BY <3>1, FS_Interval
    <3> QED
      BY <3>2
  <2> QED
    BY <2>2, <2>3
<1>4. n \in 0 .. Cardinality(used)
  BY <1>2, <1>3
<1>5. /\ PendingCount \in 0 .. Cardinality(used)
      /\ PendingCount \notin used /\ \A k \in 0 .. PendingCount : k # PendingCount => k \in used
  BY <1>1, <1>4 DEF PendingCount
<1> QED
  BY <1>2, <1>5 DEF Below

LEMMA NextNonceType ==
    ASSUME userNonce \subseteq Nat, NEW count \in Nat
    PROVE  NextNonce(count) \in Nat
<1>1. CASE \E old \in userNonce : old > count
  <2>1. PICK last \in Nat : last = CHOOSE old \in userNonce : TRUE
    BY <1>1
  <2>2. NextNonce(count) = last + 1
    BY <1>1, <2>1 DEF NextNonce
  <2> QED
    BY <2>2
<1>2. CASE ~\E old \in userNonce : old > count
  BY <1>2 DEF NextNonce
<1> QED
  BY <1>1, <1>2

\* A nonce more leaves a first unused one above every number.
LEMMA HolesKept ==
    ASSUME used \subseteq Nat, Holes, NEW x \in Nat, used' = used \cup {x}
    PROVE  Holes'
<1> SUFFICES ASSUME NEW k \in Nat
             PROVE  \E n \in Nat : n >= k /\ n \notin used' /\ \A i \in k .. n : i # n => i \in used'
  BY DEF Holes
<1>1. PICK n \in Nat : n >= k /\ n \notin used /\ \A i \in k .. n : i # n => i \in used
  BY DEF Holes
<1>2. CASE n # x
  BY <1>1, <1>2
<1>3. CASE n = x
  <2>1. PICK m \in Nat : m >= x + 1 /\ m \notin used /\ \A i \in (x + 1) .. m : i # m => i \in used
    BY DEF Holes
  <2>2. \A i \in k .. m : i \in k .. n \/ i \in (x + 1) .. m
    BY <1>3
  <2>3. m >= k /\ m \notin used'
    BY <1>1, <1>3, <2>1
  <2>4. \A i \in k .. m : i # m => i \in used'
    BY <1>1, <1>3, <2>1, <2>2
  <2> QED
    BY <2>3, <2>4
<1> QED
  BY <1>2, <1>3

-----------------------------------------------------------------------------
(* The initial state.                                                      *)

LEMMA InitIInv == Init => IInv
<1> SUFFICES ASSUME Init PROVE IInv
  OBVIOUS
<1>1. TypeOK
  <2>1. pushes \in [Task -> 0 .. MaxPush] /\ other \in 0 .. MaxOther
    BY DEF Init
  <2>2. /\ readyQueue \in [Roles -> Seq(Task)] /\ startLog \in [Roles -> Seq(Task)]
        /\ pushLog \in [Roles -> Seq(Task)]
    BY DEF Init
  <2>3. pc \in [Roles -> ProcPc]
    BY DEF Init, ProcPc
  <2>4. task \in [Roles -> SUBSET Task] /\ \A r \in Roles : AtMostOne(task[r])
    BY DEF Init, AtMostOne
  <2>5. /\ requestQueue \subseteq Task /\ putQueue \in Seq(Task)
        /\ monTask \subseteq Task /\ AtMostOne(monTask)
    BY DEF Init, AtMostOne
  <2>6. nonce \in Nat /\ userNonce \subseteq Nat /\ AtMostOne(userNonce) /\ used \subseteq Nat
    BY DEF Init, AtMostOne
  <2>7. /\ accepted \subseteq Task /\ failed \subseteq Task /\ ended \subseteq Task
        /\ answerLost \subseteq Task /\ countFailed \in BOOLEAN /\ unsent \subseteq Nat
    BY DEF Init
  <2> QED
    BY <2>1, <2>2, <2>3, <2>4, <2>5, <2>6, <2>7 DEF TypeOK
<1>2. RoleSound
  BY RangeEmpty DEF Init, RoleSound, Roles
<1>3. OncePlaced
  BY RangeEmpty, RoleFacts DEF Init, OncePlaced, OnePlace, Ready, Running
<1>4. SlotsSound
  BY RangeEmpty, RoleFacts, LimitFacts, FS_EmptySet DEF Init, SlotsSound, SlotHeld, Ready, Running
<1>5. VerdictSound
  BY DEF Init, VerdictSound, Verdict, OneVerdict, Roles
<1>6. NonceSound
  <2>1. \A k \in Nat : k >= k /\ k \notin {} /\ \A i \in k .. k : i # k => i \in {}
    OBVIOUS
  <2>2. Holes
    BY <2>1 DEF Init, Holes
  <2> QED
    BY <2>2, FS_EmptySet DEF Init, NonceSound, Below
<1> QED
  BY <1>1, <1>2, <1>3, <1>4, <1>5, <1>6 DEF IInv

-----------------------------------------------------------------------------
(* Types.                                                                  *)

LEMMA TypeNext == IInv /\ [Next]_vars => TypeOK'
<1> SUFFICES ASSUME IInv, [Next]_vars PROVE TypeOK'
  OBVIOUS
<1>p. PendingCount \in Nat
  BY PendingFacts DEF IInv, TypeOK, NonceSound
<1>t. TypeOK
  BY DEF IInv
<1> USE <1>t, RoleFacts DEF TypeOK, AtMostOne
<1>1. ASSUME NEW t \in Task, AddRequest(t) PROVE TypeOK'
  BY <1>1 DEF AddRequest, chainVars, procVars
<1>2. ASSUME NEW t \in Task, PushPutTask(t) PROVE TypeOK'
  <2>1. pushes' \in [Task -> 0 .. MaxPush]
    BY <1>2 DEF PushPutTask
  <2>2. pushLog' \in [Roles -> Seq(Task)]
    BY <1>2 DEF PushPutTask
  <2>3. putQueue' \in Seq(Task)
    BY <1>2 DEF PushPutTask
  <2>4. UNCHANGED <<chainVars, procVars, requestQueue, monTask, readyQueue>>
    BY <1>2 DEF PushPutTask
  <2> QED
    BY <2>1, <2>2, <2>3, <2>4 DEF chainVars, procVars
<1>3. CASE OtherTransaction
  BY <1>3, <1>p DEF OtherTransaction, queueVars, procVars
<1>4. CASE PopPutTask
  BY <1>4, RangeTail, SMTT(30) DEF PopPutTask, chainVars, procVars
<1>5. CASE PutReadyTask
  BY <1>5, SMTT(30) DEF PutReadyTask, chainVars, procVars
<1>6. ASSUME NEW r \in Roles, FetchTask(r) PROVE TypeOK'
  <2>1. Head(readyQueue[r]) \in Task /\ Tail(readyQueue[r]) \in Seq(Task)
    BY <1>6, RangeTail DEF FetchTask
  <2>2. readyQueue' \in [Roles -> Seq(Task)] /\ startLog' \in [Roles -> Seq(Task)]
    BY <1>6, <2>1 DEF FetchTask
  <2>3. task' \in [Roles -> SUBSET Task] /\ \A q \in Roles : AtMostOne(task'[q])
    BY <1>6, <2>1 DEF FetchTask
  <2>4. pc' \in [Roles -> ProcPc]
    BY <1>6 DEF FetchTask, Goto, ProcPc
  <2> QED
    BY <1>6, <2>2, <2>3, <2>4 DEF FetchTask, chainVars
<1>7. ASSUME NEW r \in Roles, GetInput(r) PROVE TypeOK'
  BY <1>7 DEF GetInput, Goto, Failure, chainVars, queueVars, ProcPc
<1>8. ASSUME NEW r \in Roles, RunFunction(r) PROVE TypeOK'
  BY <1>8 DEF RunFunction, Goto, Failure, chainVars, queueVars, ProcPc
<1>9. ASSUME NEW r \in Roles, Clear(r) PROVE TypeOK'
  BY <1>9 DEF Clear, Goto, chainVars, ProcPc
<1>10. CASE GetNonce
  <2>1. \A count \in {PendingCount, 0} : NextNonce(count) \in Nat
    BY <1>p, NextNonceType
  <2> QED
    BY <1>10, <2>1 DEF GetNonce, Goto, queueVars, ProcPc
<1>11. CASE SignTransaction
  BY <1>11 DEF SignTransaction, Goto, chainVars, queueVars, ProcPc
<1>12. CASE SendRawTransaction
  BY <1>12 DEF SendRawTransaction, Goto, queueVars, ProcPc
<1>13. CASE SetFailedResult
  BY <1>13 DEF SetFailedResult, Goto, queueVars, ProcPc
<1>14. CASE UNCHANGED vars
  BY <1>14 DEF vars, chainVars, queueVars, procVars
<1> QED
  BY <1>1, <1>2, <1>3, <1>4, <1>5, <1>6, <1>7, <1>8, <1>9, <1>10, <1>11, <1>12, <1>13, <1>14
     DEF Next, Monitor, SendResult

-----------------------------------------------------------------------------
(* Roles.                                                                  *)

\* The steps of a run: the processor of role r goes on with its task.
RunStep(r) ==
    /\ pc[r] \notin {"fetch", "clear"} /\ pc'[r] # "fetch"
    /\ \A q \in Roles : q # r => pc'[q] = pc[q]
    /\ UNCHANGED <<queueVars, task, startLog, ended>>

LEMMA RunSteps ==
    ASSUME TypeOK
    PROVE  /\ \A r \in Roles : GetInput(r) \/ RunFunction(r) => RunStep(r)
           /\ SendResult => RunStep("bob")
<1> USE RoleFacts DEF TypeOK, RunStep
<1>1. ASSUME NEW r \in Roles, GetInput(r) PROVE RunStep(r)
  BY <1>1 DEF GetInput, Goto, Failure
<1>2. ASSUME NEW r \in Roles, RunFunction(r) PROVE RunStep(r)
  BY <1>2 DEF RunFunction, Goto, Failure
<1>3. ASSUME GetNonce PROVE RunStep("bob")
  BY <1>3 DEF GetNonce, Goto
<1>4. ASSUME SignTransaction PROVE RunStep("bob")
  BY <1>4 DEF SignTransaction, Goto
<1>5. ASSUME SendRawTransaction PROVE RunStep("bob")
  BY <1>5 DEF SendRawTransaction, Goto
<1>6. ASSUME SetFailedResult PROVE RunStep("bob")
  BY <1>6 DEF SetFailedResult, Goto
<1> QED
  BY <1>1, <1>2, <1>3, <1>4, <1>5, <1>6 DEF SendResult

LEMMA RoleNext == IInv /\ [Next]_vars => RoleSound'
<1> SUFFICES ASSUME TypeOK, RoleSound, [Next]_vars PROVE RoleSound'
  BY DEF IInv
<1> USE RoleFacts
<1>1. ASSUME UNCHANGED <<readyQueue, pc, task>> PROVE RoleSound'
  BY <1>1 DEF RoleSound
<1>2. ASSUME NEW r \in Roles, RunStep(r), pc'["alice"] \in {"fetch", "input", "run", "clear"}
      PROVE  RoleSound'
  <2>1. UNCHANGED <<readyQueue, task>> /\ \A q \in Roles : pc'[q] # "fetch" => pc[q] # "fetch"
    BY <1>2 DEF RunStep, queueVars
  <2> QED
    BY <1>2, <2>1 DEF RoleSound
<1>3. ASSUME NEW r \in Roles, GetInput(r) \/ RunFunction(r) PROVE RoleSound'
  <2>1. pc'["alice"] \in {"fetch", "input", "run", "clear"}
    BY <1>3 DEF GetInput, RunFunction, Goto, Failure, RoleSound, TypeOK
  <2> QED
    BY <1>2, <1>3, <2>1, RunSteps
<1>4. CASE SendResult
  <2>1. RunStep("bob") /\ "bob" \in Roles
    BY <1>4, RunSteps
  <2>2. pc'["alice"] = pc["alice"]
    BY <2>1 DEF RunStep
  <2> QED
    BY <1>2, <2>1, <2>2 DEF RoleSound
<1>5. CASE PutReadyTask
  <2>1. PICK t \in monTask :
            /\ Len(readyQueue[Role(t)]) < ReadyLimit
            /\ readyQueue' = [readyQueue EXCEPT ![Role(t)] = Append(@, t)]
    BY <1>5 DEF PutReadyTask
  <2>2. t \in Task /\ readyQueue[Role(t)] \in Seq(Task) /\ Role(t) \in Roles
    BY <2>1 DEF TypeOK
  <2>3. UNCHANGED <<pc, task>>
    BY <1>5 DEF PutReadyTask, procVars
  <2>4. ASSUME NEW q \in Roles, q # Role(t) PROVE readyQueue'[q] = readyQueue[q]
    BY <2>1, <2>4 DEF TypeOK
  <2>5. /\ readyQueue'[Role(t)] = Append(readyQueue[Role(t)], t)
        /\ Range(readyQueue'[Role(t)]) = Range(readyQueue[Role(t)]) \cup {t}
    BY <2>1, <2>2, RangeAppend DEF TypeOK
  <2>6. Len(readyQueue'[Role(t)]) <= 1
    BY <2>1, <2>2, <2>5, LimitFacts
  <2> QED
    BY <2>3, <2>4, <2>5, <2>6 DEF RoleSound
<1>6. ASSUME NEW r \in Roles, FetchTask(r) PROVE RoleSound'
  <2>1. readyQueue[r] \in Seq(Task) /\ readyQueue[r] # << >> /\ Len(readyQueue[r]) <= 1
    BY <1>6 DEF FetchTask, TypeOK, RoleSound
  <2>2. /\ readyQueue'[r] = << >> /\ \A q \in Roles : q # r => readyQueue'[q] = readyQueue[q]
    BY <1>6, <2>1, OnePlaceQueue DEF FetchTask, TypeOK
  <2>3. /\ task'[r] = {Head(readyQueue[r])} /\ Role(Head(readyQueue[r])) = r
        /\ \A q \in Roles : q # r => task'[q] = task[q]
    BY <1>6, <2>1, RangeTail DEF FetchTask, TypeOK, RoleSound
  <2>4. pc'[r] = "input" /\ \A q \in Roles : q # r => pc'[q] = pc[q]
    BY <1>6 DEF FetchTask, Goto, TypeOK
  <2>5. pc'["alice"] \in {"fetch", "input", "run", "clear"}
    BY <2>4 DEF RoleSound
  <2>6. ASSUME NEW q \in Roles
        PROVE  /\ Len(readyQueue'[q]) <= 1
               /\ \A t \in Range(readyQueue'[q]) \cup task'[q] : Role(t) = q
               /\ pc'[q] # "fetch" => task'[q] # {}
    <3>1. CASE q = r
      BY <3>1, <2>2, <2>3, RangeEmpty
    <3>2. CASE q # r
      BY <3>2, <2>2, <2>3, <2>4 DEF RoleSound
    <3> QED
      BY <3>1, <3>2
  <2> QED
    BY <2>5, <2>6 DEF RoleSound
<1>7. ASSUME NEW r \in Roles, Clear(r) PROVE RoleSound'
  <2>1. UNCHANGED <<readyQueue, task>>
    BY <1>7 DEF Clear
  <2>2. pc'[r] = "fetch" /\ \A q \in Roles : q # r => pc'[q] = pc[q]
    BY <1>7 DEF Clear, Goto, TypeOK
  <2> QED
    BY <2>1, <2>2 DEF RoleSound
<1>8. ASSUME \/ \E t \in Task : AddRequest(t) \/ PushPutTask(t)
             \/ OtherTransaction \/ PopPutTask \/ UNCHANGED vars
      PROVE  RoleSound'
  BY <1>1, <1>8
     DEF AddRequest, PushPutTask, OtherTransaction, PopPutTask, vars, queueVars, procVars
<1> QED
  BY <1>3, <1>4, <1>5, <1>6, <1>7, <1>8 DEF Next, Monitor

-----------------------------------------------------------------------------
(* Places and slots.                                                       *)

\* The places of a task are the same after a run step.
LEMMA PlacesSame ==
    ASSUME TypeOK, NEW r \in Roles, RunStep(r), NEW t \in Task
    PROVE  /\ UNCHANGED <<requestQueue, pushes, putQueue, monTask, readyQueue, ended>>
           /\ Running(t)' <=> Running(t)
<1>1. UNCHANGED <<requestQueue, pushes, putQueue, monTask, readyQueue, ended, task>>
  BY DEF RunStep, queueVars
<1>2. \A q \in Roles : pc'[q] # "fetch" <=> pc[q] # "fetch"
  BY DEF RunStep
<1> QED
  BY <1>1, <1>2, RoleFacts DEF Running

LEMMA OnceNext == IInv /\ [Next]_vars => OncePlaced'
<1> SUFFICES ASSUME TypeOK, RoleSound, OncePlaced, [Next]_vars, NEW u \in Task, pushes'[u] < 2
             PROVE  OnePlace(u)'
  BY DEF IInv, OncePlaced
<1> USE RoleFacts
<1>s. ASSUME UNCHANGED <<pushes, putQueue, monTask, readyQueue, ended, pc, task>>
      PROVE  OnePlace(u)'
  BY <1>s DEF OncePlaced, OnePlace, Ready, Running
<1>r. ASSUME NEW r \in Roles, RunStep(r) PROVE OnePlace(u)'
  BY <1>r, PlacesSame DEF OncePlaced, OnePlace, Ready
<1>2. ASSUME NEW t \in Task, PushPutTask(t) PROVE OnePlace(u)'
  <2>1. /\ putQueue' = Append(putQueue, t) /\ pushes' = [pushes EXCEPT ![t] = @ + 1]
        /\ UNCHANGED <<monTask, readyQueue, ended, pc, task>>
    BY <1>2 DEF PushPutTask, procVars
  <2>2. /\ putQueue \in Seq(Task) /\ Range(putQueue') = Range(putQueue) \cup {t}
        /\ \A i \in DOMAIN putQueue' :
               (i \in DOMAIN putQueue /\ putQueue'[i] = putQueue[i])
               \/ (i = Len(putQueue) + 1 /\ putQueue'[i] = t)
    BY <2>1, RangeAppend DEF TypeOK
  <2>3. Running(u)' <=> Running(u)
    BY <2>1 DEF Running
  <2>4. pushes[u] \in Nat /\ pushes[t] \in Nat
    BY DEF TypeOK
  <2>5. CASE u = t
    <3>1. pushes[t] = 0 /\ pushes'[t] = 1
      BY <2>1, <2>4, <2>5 DEF TypeOK
    <3>2. t \notin Range(putQueue) \cup monTask \cup Range(Ready(t)) \cup ended /\ ~Running(t)
      BY <3>1 DEF OncePlaced, OnePlace
    <3>3. \A i \in DOMAIN putQueue : putQueue[i] # t
      BY <3>2 DEF Range
    <3>4. \A i, j \in DOMAIN putQueue' : putQueue'[i] = t /\ putQueue'[j] = t => i = j
      BY <2>2, <3>3
    <3> QED
      BY <2>1, <2>3, <2>5, <3>1, <3>2, <3>4 DEF OnePlace, Ready
  <2>6. CASE u # t
    <3>1. pushes'[u] = pushes[u] /\ OnePlace(u)
      BY <2>1, <2>6 DEF OncePlaced, TypeOK
    <3>2. u \in Range(putQueue') <=> u \in Range(putQueue)
      BY <2>2, <2>6
    <3>3. \A i, j \in DOMAIN putQueue' : putQueue'[i] = u /\ putQueue'[j] = u => i = j
      BY <2>2, <2>6, <3>1 DEF OnePlace
    <3> QED
      BY <2>1, <2>3, <3>1, <3>2, <3>3 DEF OnePlace, Ready
  <2> QED
    BY <2>5, <2>6
<1>3. CASE PopPutTask
  <2>1. /\ putQueue # << >> /\ putQueue' = Tail(putQueue) /\ monTask = {}
        /\ monTask' = {Head(putQueue)}
        /\ UNCHANGED <<pushes, readyQueue, ended, pc, task>>
    BY <1>3 DEF PopPutTask, procVars
  <2>2. OnePlace(u) /\ (Running(u)' <=> Running(u))
    BY <2>1 DEF OncePlaced, Running
  <2>3. /\ putQueue \in Seq(Task) /\ Head(putQueue) \in Range(putQueue)
        /\ Range(putQueue') \subseteq Range(putQueue)
        /\ 1 \in DOMAIN putQueue /\ putQueue[1] = Head(putQueue)
        /\ \A i \in DOMAIN putQueue' : i + 1 \in DOMAIN putQueue /\ putQueue'[i] = putQueue[i + 1]
        /\ DOMAIN putQueue' \subseteq Nat \ {0}
    BY <2>1, RangeTail DEF TypeOK
  <2>4. \A i, j \in DOMAIN putQueue' : putQueue'[i] = u /\ putQueue'[j] = u => i = j
    <3> SUFFICES ASSUME NEW i \in DOMAIN putQueue', NEW j \in DOMAIN putQueue',
                        putQueue'[i] = u, putQueue'[j] = u
                 PROVE  i = j
      OBVIOUS
    <3>1. i + 1 = j + 1
      BY <2>2, <2>3 DEF OnePlace
    <3> QED
      BY <3>1, <2>3
  <2>5. u = Head(putQueue) => u \notin Range(putQueue')
    <3> SUFFICES ASSUME u = Head(putQueue), NEW i \in DOMAIN putQueue', putQueue'[i] = u
                 PROVE  FALSE
      BY DEF Range
    <3>1. i + 1 = 1
      BY <2>2, <2>3 DEF OnePlace
    <3> QED
      BY <3>1, <2>3
  <2> QED
    BY <2>1, <2>2, <2>3, <2>4, <2>5 DEF OnePlace, Ready
<1>4. CASE PutReadyTask
  <2>1. PICK t \in monTask :
            /\ readyQueue' = [readyQueue EXCEPT ![Role(t)] = Append(@, t)]
            /\ monTask' = {}
    BY <1>4 DEF PutReadyTask
  <2>2. UNCHANGED <<pushes, putQueue, ended, pc, task>>
    BY <1>4 DEF PutReadyTask, procVars
  <2>3. OnePlace(u) /\ (Running(u)' <=> Running(u))
    BY <2>2 DEF OncePlaced, Running
  <2>4. t \in Task /\ readyQueue[Role(t)] \in Seq(Task)
    BY DEF TypeOK
  <2>5. Range(readyQueue'[Role(t)]) = Range(readyQueue[Role(t)]) \cup {t}
    BY <2>1, <2>4, RangeAppend DEF TypeOK
  <2>6. \A q \in Roles : q # Role(t) => readyQueue'[q] = readyQueue[q]
    BY <2>1, <2>4 DEF TypeOK
  <2>7. u # t => (u \in Range(Ready(u))' <=> u \in Range(Ready(u)))
    BY <2>5, <2>6 DEF Ready
  <2> QED
    BY <2>1, <2>2, <2>3, <2>5, <2>7 DEF OnePlace, Ready
<1>5. ASSUME NEW r \in Roles, FetchTask(r) PROVE OnePlace(u)'
  <2>1. readyQueue[r] \in Seq(Task) /\ readyQueue[r] # << >> /\ Len(readyQueue[r]) <= 1
    BY <1>5 DEF FetchTask, TypeOK, RoleSound
  <2> DEFINE t == Head(readyQueue[r])
  <2>2. Range(readyQueue[r]) = {t} /\ t \in Task /\ Role(t) = r
    BY <2>1, OnePlaceQueue, RangeTail DEF RoleSound
  <2>3. /\ Range(readyQueue'[r]) = {} /\ \A q \in Roles : q # r => readyQueue'[q] = readyQueue[q]
    BY <1>5, <2>1, OnePlaceQueue, RangeEmpty DEF FetchTask, TypeOK
  <2>4. task'[r] = {t} /\ \A q \in Roles : q # r => task'[q] = task[q]
    BY <1>5 DEF FetchTask, TypeOK
  <2>5. pc[r] = "fetch" /\ pc'[r] # "fetch" /\ \A q \in Roles : q # r => pc'[q] = pc[q]
    BY <1>5 DEF FetchTask, Goto, TypeOK
  <2>6. UNCHANGED <<pushes, putQueue, monTask, ended>>
    BY <1>5 DEF FetchTask
  <2>7. OnePlace(u)
    BY <2>6 DEF OncePlaced
  <2>8. CASE Role(u) = r
    <3>1. Running(u)' <=> u = t
      BY <2>4, <2>5, <2>8 DEF Running
    <3>2. u \notin Range(Ready(u))' /\ (u \in Range(Ready(u)) <=> u = t)
      BY <2>2, <2>3, <2>8 DEF Ready
    <3> QED
      BY <2>6, <2>7, <3>1, <3>2 DEF OnePlace
  <2>9. CASE Role(u) # r
    <3>1. (Running(u)' <=> Running(u)) /\ Ready(u)' = Ready(u)
      BY <2>3, <2>4, <2>5, <2>9 DEF Running, Ready
    <3> QED
      BY <2>6, <2>7, <3>1 DEF OnePlace
  <2> QED
    BY <2>8, <2>9
<1>6. ASSUME NEW r \in Roles, Clear(r) PROVE OnePlace(u)'
  <2>1. UNCHANGED <<pushes, putQueue, monTask, readyQueue, task>> /\ ended' = ended \cup task[r]
    BY <1>6 DEF Clear
  <2>2. pc[r] = "clear" /\ pc'[r] = "fetch" /\ \A q \in Roles : q # r => pc'[q] = pc[q]
    BY <1>6 DEF Clear, Goto, TypeOK
  <2>3. OnePlace(u)
    BY <2>1 DEF OncePlaced
  <2>4. \A t \in task[r] : Role(t) = r /\ Running(t)
    BY <2>2 DEF RoleSound, Running
  <2>5. CASE u \in task[r]
    <3>1. Running(u) /\ ~Running(u)' /\ u \in ended'
      BY <2>1, <2>2, <2>4, <2>5 DEF Running
    <3> QED
      BY <2>1, <2>3, <3>1 DEF OnePlace, Ready
  <2>6. CASE u \notin task[r]
    <3>1. (Running(u)' <=> Running(u)) /\ (u \in ended' <=> u \in ended)
      BY <2>1, <2>2, <2>6 DEF Running
    <3> QED
      BY <2>1, <2>3, <3>1 DEF OnePlace, Ready
  <2> QED
    BY <2>5, <2>6
<1>7. ASSUME (\E t \in Task : AddRequest(t)) \/ OtherTransaction \/ UNCHANGED vars
      PROVE  OnePlace(u)'
  BY <1>s, <1>7 DEF AddRequest, OtherTransaction, vars, queueVars, procVars
<1> QED
  BY <1>r, <1>2, <1>3, <1>4, <1>5, <1>6, <1>7, RunSteps DEF Next, Monitor

\* A task that is at a place of the pipeline.
Held(t) == t \in Range(putQueue) \cup monTask \cup Range(Ready(t)) \/ Running(t)

\* What a step moves was at a place before, or has its slot.
LEMMA HeldNext ==
    ASSUME TypeOK, RoleSound, OncePlaced, [Next]_vars, NEW u \in Task, pushes'[u] < 2, Held(u)'
    PROVE  Held(u) \/ u \in requestQueue
<1> USE RoleFacts DEF Held
<1>s. ASSUME UNCHANGED <<putQueue, monTask, readyQueue, pc, task>> PROVE Held(u)
  BY <1>s DEF Ready, Running
<1>r. ASSUME NEW r \in Roles, RunStep(r) PROVE Held(u)
  BY <1>r, PlacesSame DEF Ready
<1>2. ASSUME NEW t \in Task, PushPutTask(t) PROVE Held(u) \/ u \in requestQueue
  <2>1. /\ putQueue' = Append(putQueue, t) /\ pushes' = [pushes EXCEPT ![t] = @ + 1]
        /\ UNCHANGED <<monTask, readyQueue, pc, task>>
        /\ pushes[t] = 0 => t \in requestQueue
    BY <1>2 DEF PushPutTask, procVars
  <2>2. Range(putQueue') = Range(putQueue) \cup {t}
    BY <2>1, RangeAppend DEF TypeOK
  <2>3. u = t => pushes[t] = 0
    BY <2>1 DEF TypeOK
  <2> QED
    BY <2>1, <2>2, <2>3 DEF Ready, Running
<1>3. CASE PopPutTask
  <2>1. /\ putQueue # << >> /\ putQueue' = Tail(putQueue) /\ monTask' = {Head(putQueue)}
        /\ UNCHANGED <<readyQueue, pc, task>>
    BY <1>3 DEF PopPutTask, procVars
  <2>2. Range(putQueue') \cup monTask' \subseteq Range(putQueue)
    BY <2>1, RangeTail DEF TypeOK
  <2> QED
    BY <2>1, <2>2 DEF Ready, Running
<1>4. CASE PutReadyTask
  <2>1. PICK t \in monTask :
            /\ readyQueue' = [readyQueue EXCEPT ![Role(t)] = Append(@, t)]
            /\ monTask' = {}
    BY <1>4 DEF PutReadyTask
  <2>2. UNCHANGED <<putQueue, pc, task>>
    BY <1>4 DEF PutReadyTask, procVars
  <2>3. t \in Task /\ readyQueue[Role(t)] \in Seq(Task)
    BY DEF TypeOK
  <2>4. /\ Range(readyQueue'[Role(t)]) = Range(readyQueue[Role(t)]) \cup {t}
        /\ \A q \in Roles : q # Role(t) => readyQueue'[q] = readyQueue[q]
    BY <2>1, <2>3, RangeAppend DEF TypeOK
  <2> QED
    BY <2>1, <2>2, <2>4 DEF Ready, Running
<1>5. ASSUME NEW r \in Roles, FetchTask(r) PROVE Held(u)
  <2>1. readyQueue[r] \in Seq(Task) /\ readyQueue[r] # << >> /\ Len(readyQueue[r]) <= 1
    BY <1>5 DEF FetchTask, TypeOK, RoleSound
  <2>2. Range(readyQueue[r]) = {Head(readyQueue[r])}
    BY <2>1, OnePlaceQueue
  <2>3. /\ Range(readyQueue'[r]) = {} /\ \A q \in Roles : q # r => readyQueue'[q] = readyQueue[q]
    BY <1>5, <2>1, OnePlaceQueue, RangeEmpty DEF FetchTask, TypeOK
  <2>4. task'[r] = {Head(readyQueue[r])} /\ \A q \in Roles : q # r => task'[q] = task[q]
    BY <1>5 DEF FetchTask, TypeOK
  <2>5. \A q \in Roles : q # r => pc'[q] = pc[q]
    BY <1>5 DEF FetchTask, Goto, TypeOK
  <2>6. UNCHANGED <<putQueue, monTask>>
    BY <1>5 DEF FetchTask
  <2>7. CASE Role(u) = r
    BY <2>2, <2>3, <2>4, <2>6, <2>7 DEF Ready, Running
  <2>8. CASE Role(u) # r
    BY <2>3, <2>4, <2>5, <2>6, <2>8 DEF Ready, Running
  <2> QED
    BY <2>7, <2>8
<1>6. ASSUME NEW r \in Roles, Clear(r) PROVE Held(u)
  <2>1. UNCHANGED <<putQueue, monTask, readyQueue, task>>
    BY <1>6 DEF Clear
  <2>2. pc'[r] = "fetch" /\ \A q \in Roles : q # r => pc'[q] = pc[q]
    BY <1>6 DEF Clear, Goto, TypeOK
  <2> QED
    BY <2>1, <2>2 DEF Ready, Running
<1>7. ASSUME (\E t \in Task : AddRequest(t)) \/ OtherTransaction \/ UNCHANGED vars
      PROVE  Held(u)
  BY <1>s, <1>7 DEF AddRequest, OtherTransaction, vars, queueVars, procVars
<1> QED
  BY <1>r, <1>2, <1>3, <1>4, <1>5, <1>6, <1>7, RunSteps DEF Next, Monitor

LEMMA SlotsNext == IInv /\ [Next]_vars => SlotsSound'
<1> SUFFICES ASSUME TypeOK, RoleSound, OncePlaced, OncePlaced', SlotsSound, [Next]_vars
             PROVE  SlotsSound'
  BY OnceNext DEF IInv
<1> USE RoleFacts
<1>1. \A u \in Task : pushes'[u] < 2 => pushes[u] < 2
  <2>1. CASE UNCHANGED pushes
    BY <2>1
  <2>2. ASSUME NEW t \in Task, PushPutTask(t)
        PROVE  \A u \in Task : pushes'[u] < 2 => pushes[u] < 2
    BY <2>2 DEF PushPutTask, TypeOK
  <2>3. UNCHANGED pushes \/ \E t \in Task : PushPutTask(t)
    BY RunSteps DEF Next, Monitor, AddRequest, OtherTransaction, PopPutTask, PutReadyTask,
                    FetchTask, Clear, RunStep, vars, queueVars
  <2> QED
    BY <2>1, <2>2, <2>3
<1>2. ASSUME NEW r \in Roles, Clear(r) PROVE SlotsSound'
  <2>1. requestQueue' = requestQueue \ task[r] /\ ended' = ended \cup task[r]
    BY <1>2 DEF Clear
  <2>2. IsFiniteSet(requestQueue') /\ Cardinality(requestQueue') <= ProcessorNum
    <3>1. requestQueue' \in SUBSET requestQueue /\ IsFiniteSet(requestQueue)
      BY <2>1 DEF SlotsSound
    <3>2. IsFiniteSet(requestQueue') /\ Cardinality(requestQueue') <= Cardinality(requestQueue)
      BY <3>1, FS_Subset
    <3>3. Cardinality(requestQueue') \in Nat /\ Cardinality(requestQueue) \in Nat
      BY <3>1, <3>2, FS_CardinalityType
    <3> QED
      BY <3>2, <3>3, LimitFacts DEF SlotsSound
  <2>3. ASSUME NEW u \in Task, pushes'[u] < 2, Held(u)' PROVE u \in requestQueue'
    <3>1. u \in requestQueue
      BY <1>1, <2>3, HeldNext DEF SlotsSound, SlotHeld, Held
    <3>2. u \notin ended'
      BY <2>3 DEF OncePlaced, OnePlace, Held
    <3> QED
      BY <2>1, <3>1, <3>2
  <2> QED
    BY <2>2, <2>3 DEF SlotsSound, SlotHeld, Held
<1>3. ASSUME IsFiniteSet(requestQueue') /\ Cardinality(requestQueue') <= ProcessorNum,
             requestQueue \subseteq requestQueue'
      PROVE  SlotsSound'
  <2>1. ASSUME NEW u \in Task, pushes'[u] < 2, Held(u)' PROVE u \in requestQueue'
    BY <1>1, <1>3, <2>1, HeldNext DEF SlotsSound, SlotHeld, Held
  <2> QED
    BY <1>3, <2>1 DEF SlotsSound, SlotHeld, Held
<1>4. ASSUME NEW t \in Task, AddRequest(t) PROVE SlotsSound'
  <2>1. requestQueue' = requestQueue \cup {t} /\ Cardinality(requestQueue) < ProcessorNum
    BY <1>4 DEF AddRequest
  <2>2. IsFiniteSet(requestQueue) /\ Cardinality(requestQueue) \in Nat
    BY FS_CardinalityType DEF SlotsSound
  <2>3. /\ IsFiniteSet(requestQueue')
        /\ \/ Cardinality(requestQueue') = Cardinality(requestQueue)
           \/ Cardinality(requestQueue') = Cardinality(requestQueue) + 1
    BY <2>1, <2>2, FS_AddElement
  <2> QED
    BY <1>3, <2>1, <2>2, <2>3, LimitFacts
<1>5. CASE UNCHANGED requestQueue
  BY <1>3, <1>5 DEF SlotsSound
<1>6. \/ UNCHANGED requestQueue \/ \E t \in Task : AddRequest(t)
      \/ \E r \in Roles : Clear(r)
  BY RunSteps DEF Next, Monitor, PushPutTask, OtherTransaction, PopPutTask, PutReadyTask,
                  FetchTask, RunStep, vars, queueVars
<1> QED
  BY <1>2, <1>4, <1>5, <1>6

-----------------------------------------------------------------------------
(* Verdicts.                                                               *)

\* While bob has not come to a verdict, the tasks that have one are over.
LEMMA VerdictOver ==
    ASSUME TypeOK, VerdictSound, pc["bob"] \notin {"report", "clear"},
           NEW u \in Task, pushes[u] < 2, u \in accepted \cup failed
    PROVE  u \in ended
BY DEF VerdictSound, Verdict

LEMMA VerdictNext == IInv /\ [Next]_vars => VerdictSound'
<1> SUFFICES ASSUME TypeOK, RoleSound, OncePlaced, OncePlaced', VerdictSound, [Next]_vars
             PROVE  VerdictSound'
  BY OnceNext DEF IInv
<1> USE RoleFacts
<1>b. "bob" \in Roles /\ "alice" \in Roles /\ \A t \in task["bob"] : t \in Task /\ Role(t) = "bob"
  BY DEF RoleSound, TypeOK
<1>i. \A u \in Task : Role(u) = "bob" <=> u \in Invited
  BY DEF Role
<1>s. ASSUME UNCHANGED <<pushes, ended, pc, task, accepted, failed, answerLost>>
      PROVE  VerdictSound'
  BY <1>s DEF VerdictSound, Verdict, OneVerdict, Running
<1>q. ASSUME RunStep("bob"), pc["bob"] \notin {"report", "clear"}, pc'["bob"] # "clear",
             UNCHANGED <<accepted, failed, answerLost>>
      PROVE  VerdictSound'
  <2>1. UNCHANGED <<pushes, ended, task>>
    BY <1>q DEF RunStep, queueVars
  <2>2. ASSUME NEW u \in Task, pushes'[u] < 2 PROVE Verdict(u)'
    <3>1. u \in (accepted \cup failed)' => u \in ended' /\ ~Running(u)'
      BY <1>q, <2>1, <2>2, VerdictOver DEF OncePlaced, OnePlace
    <3> QED
      BY <3>1 DEF Verdict
  <2> QED
    BY <1>q, <2>1, <2>2 DEF VerdictSound, OneVerdict
<1>a. ASSUME RunStep("alice"), UNCHANGED <<accepted, failed, answerLost>>
      PROVE  VerdictSound'
  <2>1. UNCHANGED <<pushes, ended, task>> /\ pc'["bob"] = pc["bob"]
    BY <1>a, <1>b DEF RunStep, queueVars
  <2>2. \A u \in Task : Running(u)' <=> Running(u)
    BY <1>a, <1>b, PlacesSame
  <2> QED
    BY <1>a, <2>1, <2>2 DEF VerdictSound, Verdict, OneVerdict
<1>2. ASSUME NEW t \in Task, PushPutTask(t) PROVE VerdictSound'
  <2>1. /\ pushes' = [pushes EXCEPT ![t] = @ + 1]
        /\ UNCHANGED <<ended, pc, task, accepted, failed, answerLost>>
    BY <1>2 DEF PushPutTask, procVars, chainVars
  <2>2. \A u \in Task : pushes[u] \in Nat /\ pushes'[u] \in Nat /\ pushes[u] <= pushes'[u]
    BY <2>1 DEF TypeOK
  <2>3. ASSUME NEW u \in Task, pushes'[u] < 2 PROVE Verdict(u)'
    <3>1. Verdict(u) /\ (Running(u)' <=> Running(u))
      BY <2>1, <2>2, <2>3 DEF VerdictSound, Running
    <3> QED
      BY <2>1, <3>1 DEF Verdict
  <2>4. accepted \subseteq Task
    BY DEF TypeOK
  <2> QED
    BY <2>1, <2>2, <2>3, <2>4 DEF VerdictSound, OneVerdict
<1>3. ASSUME NEW r \in Roles, FetchTask(r) PROVE VerdictSound'
  <2>1. /\ pc[r] = "fetch" /\ pc'[r] = "input" /\ \A q \in Roles : q # r => pc'[q] = pc[q]
        /\ \A q \in Roles : q # r => task'[q] = task[q]
        /\ UNCHANGED <<pushes, ended, accepted, failed, answerLost>>
    BY <1>3 DEF FetchTask, Goto, chainVars, TypeOK
  <2>2. CASE r = "bob"
    <3>1. ASSUME NEW u \in Task, pushes'[u] < 2 PROVE Verdict(u)'
      <4>1. u \in (accepted \cup failed)' => u \in ended' /\ ~Running(u)'
        BY <2>1, <2>2, <3>1, VerdictOver DEF OncePlaced, OnePlace
      <4> QED
        BY <4>1 DEF Verdict
    <3> QED
      BY <2>1, <2>2, <3>1 DEF VerdictSound, OneVerdict
  <2>3. CASE r = "alice"
    <3>1. pc'["bob"] = pc["bob"] /\ task'["bob"] = task["bob"]
      BY <1>b, <2>1, <2>3
    <3>2. \A u \in accepted \cup failed : u \in Task /\ (Running(u)' <=> Running(u))
      BY <1>i, <3>1 DEF Running, VerdictSound, OneVerdict, TypeOK
    <3> QED
      BY <2>1, <3>1, <3>2 DEF VerdictSound, Verdict, OneVerdict
  <2> QED
    BY <2>2, <2>3
<1>4. ASSUME NEW r \in Roles, GetInput(r) \/ RunFunction(r) PROVE VerdictSound'
  <2>1. RunStep(r) /\ UNCHANGED <<accepted, failed, answerLost>>
    BY <1>4, RunSteps DEF GetInput, RunFunction, chainVars
  <2>2. r = "bob" => pc["bob"] \notin {"report", "clear"} /\ pc'["bob"] # "clear"
    BY <1>4 DEF GetInput, RunFunction, Goto, Failure, TypeOK
  <2> QED
    BY <1>a, <1>q, <2>1, <2>2
<1>5. CASE GetNonce \/ SignTransaction
  <2>1. RunStep("bob") /\ UNCHANGED <<accepted, failed, answerLost>>
    BY <1>5, RunSteps DEF SendResult, GetNonce, SignTransaction, chainVars
  <2>2. pc["bob"] \notin {"report", "clear"} /\ pc'["bob"] # "clear"
    BY <1>5, <1>b DEF GetNonce, SignTransaction, Goto, TypeOK
  <2> QED
    BY <1>q, <2>1, <2>2
<1>6. CASE SendRawTransaction
  <2>1. RunStep("bob")
    BY <1>6, RunSteps DEF SendResult
  <2>2. UNCHANGED <<pushes, ended, task, failed>> /\ pc["bob"] = "send"
    BY <1>6 DEF SendRawTransaction, queueVars
  <2>3. CASE pc'["bob"] = "report" /\ UNCHANGED <<accepted, answerLost>>
    BY <1>q, <2>1, <2>2, <2>3
  <2>4. ASSUME accepted' = accepted \cup task["bob"],
               \/ pc'["bob"] = "clear" /\ answerLost' = answerLost
               \/ pc'["bob"] = "report" /\ answerLost' = answerLost \cup task["bob"]
        PROVE  VerdictSound'
    <3>1. ASSUME NEW u \in task["bob"]
          PROVE  u \in Task /\ Running(u) /\ Running(u)' /\ (pushes'[u] < 2 => u \notin failed)
      <4>1. u \in Task /\ Running(u) /\ Running(u)'
        BY <1>b, <2>2, <2>4, <3>1 DEF Running
      <4>2. pushes'[u] < 2 => u \notin ended
        BY <2>2, <4>1 DEF OncePlaced, OnePlace
      <4> QED
        BY <2>2, <4>1, <4>2, VerdictOver
    <3>2. ASSUME NEW u \in Task, u \notin task["bob"], pushes'[u] < 2,
                 u \in (accepted \cup failed)'
          PROVE  u \in ended' /\ ~Running(u)'
      BY <2>2, <2>4, <3>2, VerdictOver DEF OncePlaced, OnePlace
    <3>3. ASSUME NEW u \in Task, pushes'[u] < 2 PROVE Verdict(u)'
      <4>1. CASE u \in task["bob"]
        BY <2>2, <2>4, <3>1, <3>3, <4>1 DEF Verdict
      <4>2. CASE u \notin task["bob"]
        BY <3>2, <3>3, <4>2 DEF Verdict
      <4> QED
        BY <4>1, <4>2
    <3>4. OneVerdict'
      <4>1. (ended \cap Invited \subseteq accepted \cup failed)'
        BY <2>2, <2>4 DEF VerdictSound, OneVerdict
      <4>2. ASSUME NEW u \in (accepted \cap failed)'
            PROVE  u \in answerLost' \/ pushes'[u] > 1
        <5>1. CASE u \in task["bob"]
          <6>1. pushes[u] \in Nat /\ ~(pushes[u] < 2)
            BY <2>2, <3>1, <4>2, <5>1 DEF TypeOK
          <6> QED
            BY <2>2, <6>1
        <5>2. CASE u \notin task["bob"]
          BY <2>2, <2>4, <4>2, <5>2 DEF VerdictSound, OneVerdict
        <5> QED
          BY <5>1, <5>2
      <4>3. (accepted \cup failed \subseteq Invited)'
        BY <1>b, <1>i, <2>2, <2>4 DEF VerdictSound, OneVerdict
      <4> QED
        BY <4>1, <4>2, <4>3 DEF OneVerdict
    <3>5. (pc["bob"] = "clear" => task["bob"] \subseteq accepted \cup failed)'
      BY <2>2, <2>4
    <3> QED
      BY <3>3, <3>4, <3>5 DEF VerdictSound
  <2> QED
    BY <1>6, <1>b, <2>3, <2>4 DEF SendRawTransaction, Goto, TypeOK
<1>7. CASE SetFailedResult
  <2>1. /\ UNCHANGED <<pushes, ended, task, accepted, answerLost>>
        /\ pc["bob"] = "report" /\ pc'["bob"] = "clear" /\ failed' = failed \cup task["bob"]
    BY <1>7, <1>b DEF SetFailedResult, Goto, queueVars, TypeOK
  <2>2. ASSUME NEW u \in task["bob"] PROVE u \in Task /\ Running(u) /\ Running(u)'
    BY <1>b, <2>1, <2>2 DEF Running
  <2>3. ASSUME NEW u \in Task, u \notin task["bob"], pushes'[u] < 2,
               u \in (accepted \cup failed)'
        PROVE  u \in ended' /\ ~Running(u)'
    <3>1. ~Running(u)
      <4>1. Role(u) = "bob"
        BY <1>i, <2>1, <2>3 DEF VerdictSound, OneVerdict
      <4> QED
        BY <2>3, <4>1 DEF Running
    <3>2. u \in ended
      BY <2>1, <2>3, <3>1 DEF VerdictSound, Verdict
    <3> QED
      BY <2>1, <2>3, <3>2 DEF OncePlaced, OnePlace
  <2>4. ASSUME NEW u \in Task, pushes'[u] < 2 PROVE Verdict(u)'
    <3>1. CASE u \in task["bob"]
      BY <2>1, <2>2, <3>1 DEF Verdict
    <3>2. CASE u \notin task["bob"]
      BY <2>3, <2>4, <3>2 DEF Verdict
    <3> QED
      BY <3>1, <3>2
  <2>5. OneVerdict'
    <3>1. (ended \cap Invited \subseteq accepted \cup failed)'
      BY <2>1 DEF VerdictSound, OneVerdict
    <3>2. ASSUME NEW u \in (accepted \cap failed)'
          PROVE  u \in answerLost' \/ pushes'[u] > 1
      <4>1. CASE u \in task["bob"]
        <5>1. pushes[u] \in Nat /\ (pushes[u] < 2 => u \in answerLost)
          BY <2>1, <2>2, <3>2, <4>1 DEF VerdictSound, Verdict, TypeOK
        <5> QED
          BY <2>1, <5>1
      <4>2. CASE u \notin task["bob"]
        BY <2>1, <3>2, <4>2 DEF VerdictSound, OneVerdict
      <4> QED
        BY <4>1, <4>2
    <3>3. (accepted \cup failed \subseteq Invited)'
      BY <1>b, <1>i, <2>1 DEF VerdictSound, OneVerdict
    <3> QED
      BY <3>1, <3>2, <3>3 DEF OneVerdict
  <2> QED
    BY <2>1, <2>4, <2>5 DEF VerdictSound
<1>8. ASSUME NEW r \in Roles, Clear(r) PROVE VerdictSound'
  <2>1. UNCHANGED <<pushes, task, accepted, failed, answerLost>> /\ ended' = ended \cup task[r]
    BY <1>8 DEF Clear, chainVars
  <2>2. pc[r] = "clear" /\ pc'[r] = "fetch" /\ \A q \in Roles : q # r => pc'[q] = pc[q]
    BY <1>8 DEF Clear, Goto, TypeOK
  <2>3. ASSUME NEW u \in Task, pushes'[u] < 2 PROVE Verdict(u)'
    <3>1. Verdict(u)
      BY <2>1, <2>3 DEF VerdictSound
    <3>2. CASE r = "bob"
      <4>1. u \in accepted \cup failed => Role(u) = "bob"
        BY <1>i DEF VerdictSound, OneVerdict
      <4>2. u \in accepted \cup failed => ~Running(u)'
        BY <2>2, <3>2, <4>1 DEF Running
      <4>3. u \in accepted \cup failed => u \in ended'
        BY <2>1, <3>1, <3>2, <4>1 DEF Verdict, Running
      <4> QED
        BY <2>1, <4>2, <4>3 DEF Verdict
    <3>3. CASE r = "alice"
      <4>1. u \in accepted \cup failed => Role(u) = "bob"
        BY <1>i DEF VerdictSound, OneVerdict
      <4>2. u \in accepted \cup failed => (Running(u)' <=> Running(u))
        BY <1>b, <2>1, <2>2, <3>3, <4>1 DEF Running
      <4>3. pc'["bob"] = pc["bob"]
        BY <1>b, <2>2, <3>3
      <4> QED
        BY <2>1, <3>1, <4>2, <4>3 DEF Verdict
    <3> QED
      BY <3>2, <3>3
  <2>4. (ended \cap Invited \subseteq accepted \cup failed)'
    <3>1. CASE r = "bob"
      BY <2>1, <2>2, <3>1 DEF VerdictSound, OneVerdict
    <3>2. CASE r = "alice"
      <4>1. \A t \in task["alice"] : t \in Task /\ Role(t) = "alice"
        BY <1>b DEF RoleSound, TypeOK
      <4>2. task["alice"] \cap Invited = {}
        BY <1>i, <4>1
      <4> QED
        BY <2>1, <3>2, <4>2 DEF VerdictSound, OneVerdict
    <3> QED
      BY <3>1, <3>2
  <2>5. (pc["bob"] = "clear" => task["bob"] \subseteq accepted \cup failed)'
    BY <1>b, <2>1, <2>2 DEF VerdictSound
  <2> QED
    BY <2>1, <2>3, <2>4, <2>5 DEF VerdictSound, OneVerdict
<1>9. ASSUME \/ \E t \in Task : AddRequest(t)
             \/ OtherTransaction \/ PopPutTask \/ PutReadyTask \/ UNCHANGED vars
      PROVE  VerdictSound'
  BY <1>s, <1>9 DEF AddRequest, OtherTransaction, PopPutTask, PutReadyTask, vars, chainVars,
                    queueVars, procVars
<1> QED
  BY <1>2, <1>3, <1>4, <1>5, <1>6, <1>7, <1>8, <1>9 DEF Next, Monitor, SendResult

-----------------------------------------------------------------------------
(* Nonces.                                                                 *)

\* One more nonce that has all the smaller ones below it.
LEMMA NonceUsed ==
    ASSUME TypeOK, NonceSound, NEW x \in Nat, used' = used \cup {x},
           countFailed \/ Below(x), UNCHANGED <<nonce, userNonce, countFailed>>
    PROVE  NonceSound'
<1>1. IsFiniteSet(used')
  BY FS_AddElement DEF NonceSound
<1>2. Holes'
  BY HolesKept DEF TypeOK, NonceSound
<1>3. ASSUME ~countFailed', NEW n \in (used \cup userNonce \cup {nonce})' PROVE Below(n)'
  <2>1. Below(n)
    BY <1>3 DEF NonceSound
  <2> QED
    BY <2>1 DEF Below
<1> QED
  BY <1>1, <1>2, <1>3 DEF NonceSound

LEMMA NonceNext == IInv /\ [Next]_vars => NonceSound'
<1> SUFFICES ASSUME TypeOK, NonceSound, [Next]_vars PROVE NonceSound'
  BY DEF IInv
<1>p. PendingCount \in Nat /\ PendingCount \notin used /\ Below(PendingCount)
  BY PendingFacts DEF TypeOK, NonceSound
<1>s. ASSUME UNCHANGED <<used, userNonce, nonce, countFailed>> PROVE NonceSound'
  BY <1>s DEF NonceSound, Holes, Below
<1>1. CASE OtherTransaction
  BY <1>1, <1>p, NonceUsed DEF OtherTransaction
<1>2. CASE GetNonce
  <2>1. PICK count \in {PendingCount, 0} :
            /\ nonce' = NextNonce(count) /\ userNonce' = {NextNonce(count)}
            /\ countFailed' = (countFailed \/ count # PendingCount)
    BY <1>2 DEF GetNonce
  <2>2. used' = used
    BY <1>2 DEF GetNonce
  <2>3. IsFiniteSet(used') /\ Holes'
    BY <2>2 DEF NonceSound, Holes
  <2>4. ASSUME ~countFailed' PROVE nonce' = PendingCount /\ userNonce' = {PendingCount}
    <3>1. ~countFailed /\ count = PendingCount
      BY <2>1, <2>4
    <3>2. ASSUME NEW old \in userNonce PROVE ~(old > PendingCount)
      <4>1. Below(old) /\ old \in Nat
        BY <3>1, <3>2 DEF NonceSound, TypeOK
      <4> QED
        BY <1>p, <4>1 DEF Below
    <3>3. NextNonce(PendingCount) = PendingCount
      BY <3>2 DEF NextNonce
    <3> QED
      BY <2>1, <3>1, <3>3
  <2>5. ASSUME ~countFailed', NEW n \in (used \cup userNonce \cup {nonce})' PROVE Below(n)'
    <3>1. Below(n)
      <4>1. CASE n \in used
        <5>1. ~countFailed
          BY <2>1, <2>5
        <5> QED
          BY <4>1, <5>1 DEF NonceSound
      <4>2. CASE n \notin used
        <5>1. n = PendingCount
          BY <2>2, <2>4, <2>5, <4>2
        <5> QED
          BY <1>p, <5>1
      <4> QED
        BY <4>1, <4>2
    <3> QED
      BY <2>2, <3>1 DEF Below
  <2> QED
    BY <2>3, <2>5 DEF NonceSound
<1>3. CASE SendRawTransaction
  <2>1. UNCHANGED <<nonce, userNonce, countFailed>> /\ (used' = used \/ used' = used \cup {nonce})
    BY <1>3 DEF SendRawTransaction
  <2>2. nonce \in Nat /\ (countFailed \/ Below(nonce))
    BY DEF TypeOK, NonceSound
  <2> QED
    BY <1>s, <2>1, <2>2, NonceUsed
<1>4. ASSUME \/ \E t \in Task : AddRequest(t) \/ PushPutTask(t)
             \/ Monitor
             \/ \E r \in Roles : FetchTask(r) \/ GetInput(r) \/ RunFunction(r) \/ Clear(r)
             \/ SignTransaction \/ SetFailedResult \/ UNCHANGED vars
      PROVE  NonceSound'
  BY <1>s, <1>4
     DEF AddRequest, PushPutTask, Monitor, PopPutTask, PutReadyTask, FetchTask, GetInput,
         RunFunction, Clear, SignTransaction, SetFailedResult, vars, chainVars
<1> QED
  BY <1>1, <1>2, <1>3, <1>4 DEF Next, SendResult

-----------------------------------------------------------------------------
(* The order of the pushes.                                                *)

\* g gives the tasks of role r in the queue q their places in log: the ones after
\* b, in order, each taken.
Fits(g, q, log, b, r) ==
    /\ \A i \in DOMAIN q : Role(q[i]) = r => g[i] \in (b + 1) .. Len(log) /\ log[g[i]] = q[i]
    /\ \A i, j \in DOMAIN q : i < j /\ Role(q[i]) = r /\ Role(q[j]) = r => g[i] < g[j]
    /\ \A p \in (b + 1) .. Len(log) : \E i \in DOMAIN q : Role(q[i]) = r /\ g[i] = p

Placed(q, log, b, r) == \E g \in [DOMAIN q -> 0 .. Len(log)] : Fits(g, q, log, b, r)

\* How many tasks of role r the monitor has, and how many have left the put queue.
InMonitor(r) == IF \E t \in monTask : Role(t) = r THEN 1 ELSE 0

Left(r) == Len(startLog[r]) + Len(readyQueue[r]) + InMonitor(r)

\* What was pushed for a role is what was started, then the ready queue, the
\* monitor's task and the put queue.
OrderOf(r) ==
    /\ Left(r) <= Len(pushLog[r])
    /\ \A i \in 1 .. Len(startLog[r]) : startLog[r][i] = pushLog[r][i]
    /\ \A i \in 1 .. Len(readyQueue[r]) : readyQueue[r][i] = pushLog[r][Len(startLog[r]) + i]
    /\ \A t \in monTask : Role(t) = r => pushLog[r][Left(r)] = t
    /\ Placed(putQueue, pushLog[r], Left(r), r)

OrderSound == \A r \in Roles : OrderOf(r)

LEMMA PlacedAppend ==
    ASSUME NEW q \in Seq(Task), NEW log \in Seq(Task), NEW b \in Nat, b <= Len(log),
           NEW t \in Task, NEW r, Role(t) = r, Placed(q, log, b, r)
    PROVE  Placed(Append(q, t), Append(log, t), b, r)
<1>1. PICK g \in [DOMAIN q -> 0 .. Len(log)] : Fits(g, q, log, b, r)
  BY DEF Placed
<1> DEFINE Q == Append(q, t)
           L == Append(log, t)
           G == [i \in DOMAIN Q |-> IF i \in DOMAIN q THEN g[i] ELSE Len(log) + 1]
<1>2. /\ Len(log) \in Nat /\ Len(L) = Len(log) + 1 /\ L[Len(log) + 1] = t
      /\ \A p \in 1 .. Len(log) : L[p] = log[p]
  OBVIOUS
<1>3. /\ \A i \in DOMAIN q : i \in DOMAIN Q /\ Q[i] = q[i] /\ i \in Nat /\ i < Len(q) + 1
      /\ Len(q) + 1 \in DOMAIN Q /\ Q[Len(q) + 1] = t /\ Len(q) + 1 \notin DOMAIN q
      /\ \A i \in DOMAIN Q : i \in DOMAIN q \/ i = Len(q) + 1
      /\ Len(q) \in Nat
  OBVIOUS
<1> HIDE DEF Q, L
<1>4. /\ \A i \in DOMAIN q : G[i] = g[i] /\ g[i] \in 0 .. Len(log)
      /\ G[Len(q) + 1] = Len(log) + 1
  BY <1>3
<1>5. G \in [DOMAIN Q -> 0 .. Len(L)]
  BY <1>2, <1>3, <1>4
<1> HIDE DEF G
<1>6. \A i \in DOMAIN Q : Role(Q[i]) = r => G[i] \in (b + 1) .. Len(L) /\ L[G[i]] = Q[i]
  <2> SUFFICES ASSUME NEW i \in DOMAIN Q, Role(Q[i]) = r
               PROVE  G[i] \in (b + 1) .. Len(L) /\ L[G[i]] = Q[i]
    OBVIOUS
  <2>1. CASE i \in DOMAIN q
    <3>1. g[i] \in (b + 1) .. Len(log) /\ log[g[i]] = q[i]
      BY <1>1, <1>3, <2>1 DEF Fits
    <3>2. g[i] \in 1 .. Len(log)
      BY <1>2, <3>1
    <3> QED
      BY <1>2, <1>3, <1>4, <2>1, <3>1, <3>2
  <2>2. CASE i = Len(q) + 1
    BY <1>2, <1>3, <1>4, <2>2
  <2> QED
    BY <1>3, <2>1, <2>2
<1>7. \A i, j \in DOMAIN Q : i < j /\ Role(Q[i]) = r /\ Role(Q[j]) = r => G[i] < G[j]
  <2> SUFFICES ASSUME NEW i \in DOMAIN Q, NEW j \in DOMAIN Q, i < j,
                      Role(Q[i]) = r, Role(Q[j]) = r
               PROVE  G[i] < G[j]
    OBVIOUS
  <2>1. i \in DOMAIN q
    BY <1>3
  <2>2. CASE j \in DOMAIN q
    BY <1>1, <1>3, <1>4, <2>1, <2>2 DEF Fits
  <2>3. CASE j = Len(q) + 1
    BY <1>2, <1>4, <2>1, <2>3
  <2> QED
    BY <1>3, <2>2, <2>3
<1>8. \A p \in (b + 1) .. Len(L) : \E i \in DOMAIN Q : Role(Q[i]) = r /\ G[i] = p
  <2> SUFFICES ASSUME NEW p \in (b + 1) .. Len(L)
               PROVE  \E i \in DOMAIN Q : Role(Q[i]) = r /\ G[i] = p
    OBVIOUS
  <2>1. CASE p = Len(log) + 1
    BY <1>3, <1>4, <2>1
  <2>2. CASE p # Len(log) + 1
    <3>1. p \in (b + 1) .. Len(log)
      BY <1>2, <2>2
    <3>2. PICK i \in DOMAIN q : Role(q[i]) = r /\ g[i] = p
      BY <1>1, <3>1 DEF Fits
    <3> QED
      BY <1>3, <1>4, <3>2
  <2> QED
    BY <2>1, <2>2
<1> QED
  BY <1>5, <1>6, <1>7, <1>8 DEF Placed, Fits, Q, L

LEMMA PlacedAppendOther ==
    ASSUME NEW q \in Seq(Task), NEW log \in Seq(Task), NEW b \in Nat,
           NEW t \in Task, NEW r, Role(t) # r, Placed(q, log, b, r)
    PROVE  Placed(Append(q, t), log, b, r)
<1>1. PICK g \in [DOMAIN q -> 0 .. Len(log)] : Fits(g, q, log, b, r)
  BY DEF Placed
<1> DEFINE Q == Append(q, t)
           G == [i \in DOMAIN Q |-> IF i \in DOMAIN q THEN g[i] ELSE 0]
<1>2. /\ \A i \in DOMAIN q : i \in DOMAIN Q /\ Q[i] = q[i]
      /\ Q[Len(q) + 1] = t
      /\ \A i \in DOMAIN Q : i \in DOMAIN q \/ i = Len(q) + 1
      /\ Len(log) \in Nat
  OBVIOUS
<1> HIDE DEF Q
<1>3. \A i \in DOMAIN q : G[i] = g[i]
  BY <1>2
<1>4. G \in [DOMAIN Q -> 0 .. Len(log)]
  BY <1>2
<1>5. \A i \in DOMAIN Q : Role(Q[i]) = r => i \in DOMAIN q
  BY <1>2
<1> HIDE DEF G
<1>6. Fits(G, Q, log, b, r)
  BY <1>1, <1>2, <1>3, <1>5 DEF Fits
<1> QED
  BY <1>4, <1>6 DEF Placed, Q

\* The first task of role r in the queue has the first place: were it another's,
\* that one would come later and have a smaller place.
LEMMA PlacedHead ==
    ASSUME NEW q \in Seq(Task), NEW log \in Seq(Task), NEW b \in Nat, q # << >>,
           NEW r, Role(Head(q)) = r, Placed(q, log, b, r)
    PROVE  /\ b + 1 <= Len(log) /\ log[b + 1] = Head(q)
           /\ Placed(Tail(q), log, b + 1, r)
<1>1. PICK g \in [DOMAIN q -> 0 .. Len(log)] : Fits(g, q, log, b, r)
  BY DEF Placed
<1> DEFINE Q == Tail(q)
           G == [i \in DOMAIN Q |-> g[i + 1]]
<1>2. /\ 1 \in DOMAIN q /\ q[1] = Head(q)
      /\ \A i \in DOMAIN q : i \in Nat /\ (i = 1 \/ (1 < i /\ i - 1 \in DOMAIN Q))
      /\ \A i \in DOMAIN Q : i \in Nat /\ i + 1 \in DOMAIN q /\ Q[i] = q[i + 1] /\ 1 < i + 1
      /\ Len(log) \in Nat
  OBVIOUS
<1> HIDE DEF Q
<1>3. \A i \in DOMAIN Q : G[i] = g[i + 1]
  OBVIOUS
<1>4. G \in [DOMAIN Q -> 0 .. Len(log)]
  BY <1>2
<1> HIDE DEF G
<1>5. g[1] \in (b + 1) .. Len(log) /\ log[g[1]] = Head(q)
  BY <1>1, <1>2 DEF Fits
<1>6. g[1] = b + 1
  <2>1. b + 1 \in (b + 1) .. Len(log)
    BY <1>2, <1>5
  <2>2. PICK i \in DOMAIN q : Role(q[i]) = r /\ g[i] = b + 1
    BY <1>1, <2>1 DEF Fits
  <2>3. i = 1 \/ g[1] < g[i]
    BY <1>1, <1>2, <2>2 DEF Fits
  <2> QED
    BY <1>2, <1>5, <2>2, <2>3
<1>7. \A i \in DOMAIN Q : Role(Q[i]) = r =>
          G[i] \in (b + 1 + 1) .. Len(log) /\ log[G[i]] = Q[i]
  <2> SUFFICES ASSUME NEW i \in DOMAIN Q, Role(Q[i]) = r
               PROVE  G[i] \in (b + 1 + 1) .. Len(log) /\ log[G[i]] = Q[i]
    OBVIOUS
  <2>1. g[i + 1] \in (b + 1) .. Len(log) /\ log[g[i + 1]] = Q[i]
    BY <1>1, <1>2 DEF Fits
  <2>2. g[1] < g[i + 1]
    BY <1>1, <1>2 DEF Fits
  <2> QED
    BY <1>2, <1>3, <1>6, <2>1, <2>2
<1>8. \A i, j \in DOMAIN Q : i < j /\ Role(Q[i]) = r /\ Role(Q[j]) = r => G[i] < G[j]
  <2> SUFFICES ASSUME NEW i \in DOMAIN Q, NEW j \in DOMAIN Q, i < j,
                      Role(Q[i]) = r, Role(Q[j]) = r
               PROVE  G[i] < G[j]
    OBVIOUS
  <2>1. i + 1 < j + 1
    BY <1>2
  <2> QED
    BY <1>1, <1>2, <1>3, <2>1 DEF Fits
<1>9. \A p \in (b + 1 + 1) .. Len(log) : \E i \in DOMAIN Q : Role(Q[i]) = r /\ G[i] = p
  <2> SUFFICES ASSUME NEW p \in (b + 1 + 1) .. Len(log)
               PROVE  \E i \in DOMAIN Q : Role(Q[i]) = r /\ G[i] = p
    OBVIOUS
  <2>1. p \in (b + 1) .. Len(log) /\ p # b + 1
    BY <1>2
  <2>2. PICK i \in DOMAIN q : Role(q[i]) = r /\ g[i] = p
    BY <1>1, <2>1 DEF Fits
  <2>3. i - 1 \in DOMAIN Q /\ (i - 1) + 1 = i
    BY <1>2, <1>6, <2>1, <2>2
  <2>4. Q[i - 1] = q[i] /\ G[i - 1] = g[i]
    BY <1>2, <1>3, <2>3
  <2> QED
    BY <2>2, <2>3, <2>4
<1>10. Placed(Q, log, b + 1, r)
  BY <1>4, <1>7, <1>8, <1>9 DEF Placed, Fits
<1> QED
  BY <1>2, <1>5, <1>6, <1>10 DEF Q

LEMMA PlacedTailOther ==
    ASSUME NEW q \in Seq(Task), NEW log \in Seq(Task), NEW b \in Nat, q # << >>,
           NEW r, Role(Head(q)) # r, Placed(q, log, b, r)
    PROVE  Placed(Tail(q), log, b, r)
<1>1. PICK g \in [DOMAIN q -> 0 .. Len(log)] : Fits(g, q, log, b, r)
  BY DEF Placed
<1> DEFINE Q == Tail(q)
           G == [i \in DOMAIN Q |-> g[i + 1]]
<1>2. /\ q[1] = Head(q)
      /\ \A i \in DOMAIN q : i \in Nat /\ (i = 1 \/ i - 1 \in DOMAIN Q)
      /\ \A i \in DOMAIN Q : i \in Nat /\ i + 1 \in DOMAIN q /\ Q[i] = q[i + 1]
  OBVIOUS
<1> HIDE DEF Q
<1>3. \A i \in DOMAIN Q : G[i] = g[i + 1]
  OBVIOUS
<1>4. G \in [DOMAIN Q -> 0 .. Len(log)]
  BY <1>2
<1> HIDE DEF G
<1>5. \A i \in DOMAIN Q : Role(Q[i]) = r => G[i] \in (b + 1) .. Len(log) /\ log[G[i]] = Q[i]
  BY <1>1, <1>2, <1>3 DEF Fits
<1>6. \A i, j \in DOMAIN Q : i < j /\ Role(Q[i]) = r /\ Role(Q[j]) = r => G[i] < G[j]
  <2> SUFFICES ASSUME NEW i \in DOMAIN Q, NEW j \in DOMAIN Q, i < j,
                      Role(Q[i]) = r, Role(Q[j]) = r
               PROVE  G[i] < G[j]
    OBVIOUS
  <2>1. i + 1 < j + 1
    BY <1>2
  <2> QED
    BY <1>1, <1>2, <1>3, <2>1 DEF Fits
<1>7. \A p \in (b + 1) .. Len(log) : \E i \in DOMAIN Q : Role(Q[i]) = r /\ G[i] = p
  <2> SUFFICES ASSUME NEW p \in (b + 1) .. Len(log)
               PROVE  \E i \in DOMAIN Q : Role(Q[i]) = r /\ G[i] = p
    OBVIOUS
  <2>1. PICK i \in DOMAIN q : Role(q[i]) = r /\ g[i] = p
    BY <1>1 DEF Fits
  <2>2. i - 1 \in DOMAIN Q /\ (i - 1) + 1 = i
    BY <1>2, <2>1
  <2>3. Q[i - 1] = q[i] /\ G[i - 1] = g[i]
    BY <1>2, <1>3, <2>2
  <2> QED
    BY <2>1, <2>2, <2>3
<1> QED
  BY <1>4, <1>5, <1>6, <1>7 DEF Placed, Fits, Q

LEMMA InitOrder == Init => OrderSound
<1> SUFFICES ASSUME Init, NEW r \in Roles PROVE OrderOf(r)
  BY DEF OrderSound
<1>1. /\ Len(startLog[r]) = 0 /\ Len(readyQueue[r]) = 0 /\ Len(pushLog[r]) = 0
      /\ monTask = {} /\ DOMAIN putQueue = {}
  BY DEF Init
<1>2. Left(r) = 0
  BY <1>1 DEF Left, InMonitor
<1>3. [i \in DOMAIN putQueue |-> 0] \in [DOMAIN putQueue -> 0 .. Len(pushLog[r])]
  BY <1>1
<1>4. Fits([i \in DOMAIN putQueue |-> 0], putQueue, pushLog[r], 0, r)
  BY <1>1 DEF Fits
<1>5. Placed(putQueue, pushLog[r], 0, r)
  BY <1>3, <1>4 DEF Placed
<1> QED
  BY <1>1, <1>2, <1>5 DEF OrderOf

LEMMA OrderNext == IInv /\ OrderSound /\ [Next]_vars => OrderSound'
<1> SUFFICES ASSUME IInv, OrderSound, [Next]_vars, NEW r \in Roles PROVE OrderOf(r)'
  BY DEF OrderSound
<1>0. /\ startLog[r] \in Seq(Task) /\ readyQueue[r] \in Seq(Task) /\ pushLog[r] \in Seq(Task)
      /\ startLog \in [Roles -> Seq(Task)] /\ readyQueue \in [Roles -> Seq(Task)]
      /\ pushLog \in [Roles -> Seq(Task)]
      /\ putQueue \in Seq(Task) /\ monTask \subseteq Task /\ AtMostOne(monTask)
  BY DEF IInv, TypeOK
<1>1. OrderOf(r)
  BY DEF OrderSound
<1>2. /\ Len(startLog[r]) \in Nat /\ Len(readyQueue[r]) \in Nat /\ Len(pushLog[r]) \in Nat
      /\ Left(r) \in Nat /\ InMonitor(r) \in Nat
      /\ Left(r) = Len(startLog[r]) + Len(readyQueue[r]) + InMonitor(r)
      /\ Left(r)' = Len(startLog'[r]) + Len(readyQueue'[r]) + InMonitor(r)'
  <2>1. InMonitor(r) \in Nat
    BY DEF InMonitor
  <2> QED
    BY <1>0, <2>1 DEF Left
<1>9. startLog'[r] \in Seq(Task) /\ readyQueue'[r] \in Seq(Task)
  BY TypeNext DEF TypeOK
<1>3. ASSUME NEW t \in Task, PushPutTask(t) PROVE OrderOf(r)'
  <2>1. putQueue' = Append(putQueue, t) /\ Left(r)' = Left(r)
        /\ UNCHANGED <<startLog, readyQueue, monTask>>
        /\ pushLog' = [pushLog EXCEPT ![Role(t)] = Append(@, t)]
    BY <1>3 DEF PushPutTask, Left, InMonitor, procVars
  <2>2. CASE Role(t) = r
    <3>1. pushLog'[r] = Append(pushLog[r], t)
      BY <1>0, <2>1, <2>2
    <3>2. Placed(putQueue', pushLog'[r], Left(r), r)
      BY <1>0, <1>1, <1>2, <2>1, <2>2, <3>1, PlacedAppend DEF OrderOf
    <3>3. /\ Len(pushLog'[r]) = Len(pushLog[r]) + 1
          /\ \A p \in 1 .. Len(pushLog[r]) : pushLog'[r][p] = pushLog[r][p]
      BY <1>0, <3>1
    <3>4. /\ \A i \in 1 .. Len(startLog[r]) : i \in 1 .. Len(pushLog[r])
          /\ \A i \in 1 .. Len(readyQueue[r]) : Len(startLog[r]) + i \in 1 .. Len(pushLog[r])
          /\ (\E u \in monTask : Role(u) = r) => Left(r) \in 1 .. Len(pushLog[r])
      <4>1. Left(r) <= Len(pushLog[r])
        BY <1>1 DEF OrderOf
      <4>2. (\E u \in monTask : Role(u) = r) => InMonitor(r) = 1
        BY DEF InMonitor
      <4> QED
        BY <1>0, <1>2, <4>1, <4>2
    <3> QED
      <4>1. Left(r)' <= Len(pushLog'[r])
        BY <1>0, <1>1, <1>2, <2>1, <3>3 DEF OrderOf
      <4>2. Placed(putQueue, pushLog[r], Left(r), r)'
        BY <2>1, <3>2
      <4> QED
        BY <1>1, <2>1, <3>3, <3>4, <4>1, <4>2 DEF OrderOf
  <2>3. CASE Role(t) # r
    <3>1. pushLog'[r] = pushLog[r]
      BY <1>0, <2>1, <2>3
    <3>2. Placed(putQueue', pushLog[r], Left(r), r)
      BY <1>0, <1>1, <1>2, <2>1, <2>3, PlacedAppendOther DEF OrderOf
    <3> QED
      BY <1>1, <2>1, <3>1, <3>2 DEF OrderOf
  <2> QED
    BY <2>2, <2>3
<1>4. CASE PopPutTask
  <2>1. /\ monTask = {} /\ monTask' = {Head(putQueue)} /\ putQueue # << >>
        /\ putQueue' = Tail(putQueue) /\ UNCHANGED <<startLog, readyQueue, pushLog>>
    BY <1>4 DEF PopPutTask, procVars
  <2>2. CASE Role(Head(putQueue)) = r
    <3>1. Left(r)' = Left(r) + 1
      <4>1. InMonitor(r) = 0 /\ InMonitor(r)' = 1
        BY <2>1, <2>2 DEF InMonitor
      <4> QED
        BY <1>2, <2>1, <4>1
    <3>2. /\ Left(r) + 1 <= Len(pushLog[r]) /\ pushLog[r][Left(r) + 1] = Head(putQueue)
          /\ Placed(Tail(putQueue), pushLog[r], Left(r) + 1, r)
      BY <1>0, <1>1, <1>2, <2>1, <2>2, PlacedHead DEF OrderOf
    <3> QED
      BY <1>1, <2>1, <3>1, <3>2 DEF OrderOf
  <2>3. CASE Role(Head(putQueue)) # r
    <3>1. Left(r)' = Left(r)
      BY <2>1, <2>3 DEF Left, InMonitor
    <3>2. Placed(Tail(putQueue), pushLog[r], Left(r), r)
      BY <1>0, <1>1, <1>2, <2>1, <2>3, PlacedTailOther DEF OrderOf
    <3> QED
      BY <1>1, <2>1, <2>3, <3>1, <3>2 DEF OrderOf
  <2> QED
    BY <2>2, <2>3
<1>5. CASE PutReadyTask
  <2>1. PICK t \in monTask : /\ readyQueue' = [readyQueue EXCEPT ![Role(t)] = Append(@, t)]
                             /\ monTask' = {}
    BY <1>5 DEF PutReadyTask
  <2>2. UNCHANGED <<startLog, putQueue, pushLog>> /\ t \in Task /\ \A u \in monTask : u = t
    BY <1>0, <1>5, <2>1 DEF PutReadyTask, procVars, AtMostOne
  <2>3. CASE Role(t) = r
    <3>1. readyQueue'[r] = Append(readyQueue[r], t)
      BY <1>0, <2>1, <2>3
    <3>2. /\ Len(readyQueue'[r]) = Len(readyQueue[r]) + 1
          /\ \A i \in 1 .. Len(readyQueue[r]) : readyQueue'[r][i] = readyQueue[r][i]
          /\ readyQueue'[r][Len(readyQueue[r]) + 1] = t
      BY <1>0, <2>2, <3>1
    <3>3. Left(r) = Len(startLog[r]) + (Len(readyQueue[r]) + 1) /\ Left(r)' = Left(r)
      <4>1. InMonitor(r) = 1 /\ InMonitor(r)' = 0
        BY <2>1, <2>3 DEF InMonitor
      <4> QED
        <5>1. /\ Len(startLog'[r]) = Len(startLog[r])
              /\ Len(readyQueue'[r]) = Len(readyQueue[r]) + 1
          BY <2>2, <3>2
        <5> QED
          BY <1>0, <1>2, <1>9, <4>1, <5>1
    <3>4. \A i \in 1 .. Len(readyQueue'[r]) :
              readyQueue'[r][i] = pushLog[r][Len(startLog[r]) + i]
      <4>1. \A i \in 1 .. Len(readyQueue'[r]) :
                i \in 1 .. Len(readyQueue[r]) \/ i = Len(readyQueue[r]) + 1
        BY <1>2, <3>2
      <4>2. pushLog[r][Len(startLog[r]) + (Len(readyQueue[r]) + 1)] = t
        BY <1>1, <2>3, <3>3 DEF OrderOf
      <4> QED
        BY <1>1, <3>2, <4>1, <4>2 DEF OrderOf
    <3> QED
      BY <1>1, <2>1, <2>2, <3>3, <3>4 DEF OrderOf
  <2>4. CASE Role(t) # r
    <3>1. readyQueue'[r] = readyQueue[r]
      BY <1>0, <2>1, <2>4
    <3>2. Left(r)' = Left(r)
      BY <2>1, <2>2, <2>4, <3>1 DEF Left, InMonitor
    <3> QED
      BY <1>1, <2>1, <2>2, <3>1, <3>2 DEF OrderOf
  <2> QED
    BY <2>3, <2>4
<1>6. ASSUME NEW q \in Roles, FetchTask(q) PROVE OrderOf(r)'
  <2>1. /\ readyQueue[q] # << >>
        /\ readyQueue' = [readyQueue EXCEPT ![q] = Tail(@)]
        /\ startLog' = [startLog EXCEPT ![q] = Append(@, Head(readyQueue[q]))]
        /\ UNCHANGED <<putQueue, monTask, pushLog>>
    BY <1>6 DEF FetchTask
  <2>2. CASE q = r
    <3>1. /\ readyQueue'[r] = Tail(readyQueue[r]) /\ readyQueue[r] # << >>
          /\ startLog'[r] = Append(startLog[r], Head(readyQueue[r]))
      BY <1>0, <2>1, <2>2
    <3>2. /\ Len(readyQueue[r]) = Len(readyQueue'[r]) + 1 /\ Len(readyQueue'[r]) \in Nat
          /\ \A i \in 1 .. Len(readyQueue'[r]) :
                 i + 1 \in 1 .. Len(readyQueue[r]) /\ readyQueue'[r][i] = readyQueue[r][i + 1]
          /\ 1 \in 1 .. Len(readyQueue[r]) /\ Head(readyQueue[r]) = readyQueue[r][1]
      BY <1>0, <3>1
    <3>3. Head(readyQueue[r]) \in Task
      BY <1>0, <3>1, RangeTail
    <3>4. /\ Len(startLog'[r]) = Len(startLog[r]) + 1
          /\ \A i \in 1 .. Len(startLog[r]) : startLog'[r][i] = startLog[r][i]
          /\ startLog'[r][Len(startLog[r]) + 1] = readyQueue[r][1]
      BY <1>0, <3>1, <3>2, <3>3
    <3>5. Left(r)' = Left(r)
      <4>1. InMonitor(r)' = InMonitor(r)
        BY <2>1 DEF InMonitor
      <4> QED
        <5> DEFINE x == Len(startLog[r])
                   y == Len(readyQueue'[r])
                   m == InMonitor(r)
        <5>1. Left(r)' = (x + 1) + y + m
          BY <1>2, <3>4, <4>1
        <5>2. Left(r) = x + (y + 1) + m
          BY <1>2, <3>2
        <5>3. x \in Nat /\ y \in Nat /\ m \in Nat
          BY <1>2, <3>2
        <5> HIDE DEF x, y, m
        <5>4. (x + 1) + y + m = x + (y + 1) + m
          BY <5>3
        <5> QED
          BY <5>1, <5>2, <5>4
    <3>6. \A i \in 1 .. Len(startLog'[r]) : startLog'[r][i] = pushLog[r][i]
      <4>1. \A i \in 1 .. Len(startLog'[r]) :
                i \in 1 .. Len(startLog[r]) \/ i = Len(startLog[r]) + 1
        BY <1>2, <3>4
      <4>2. readyQueue[r][1] = pushLog[r][Len(startLog[r]) + 1]
        BY <1>1, <3>2 DEF OrderOf
      <4> QED
        BY <1>1, <3>4, <4>1, <4>2 DEF OrderOf
    <3>7. \A i \in 1 .. Len(readyQueue'[r]) :
              readyQueue'[r][i] = pushLog[r][Len(startLog'[r]) + i]
      <4> SUFFICES ASSUME NEW i \in 1 .. Len(readyQueue'[r])
                   PROVE  readyQueue'[r][i] = pushLog[r][Len(startLog'[r]) + i]
        OBVIOUS
      <4>1. readyQueue'[r][i] = pushLog[r][Len(startLog[r]) + (i + 1)]
        BY <1>1, <3>2 DEF OrderOf
      <4>2. Len(startLog[r]) + (i + 1) = Len(startLog'[r]) + i
        <5>1. Len(startLog'[r]) = Len(startLog[r]) + 1 /\ Len(readyQueue'[r]) \in Nat
          BY <3>2, <3>4
        <5> QED
          BY <1>0, <1>9, <5>1
      <4> QED
        BY <4>1, <4>2
    <3> QED
      BY <1>1, <2>1, <3>5, <3>6, <3>7 DEF OrderOf
  <2>3. CASE q # r
    <3>1. readyQueue'[r] = readyQueue[r] /\ startLog'[r] = startLog[r]
      BY <1>0, <2>1, <2>3
    <3>2. Left(r)' = Left(r)
      BY <2>1, <3>1 DEF Left, InMonitor
    <3> QED
      BY <1>1, <2>1, <3>1, <3>2 DEF OrderOf
  <2> QED
    BY <2>2, <2>3
<1>7. ASSUME UNCHANGED <<putQueue, monTask, readyQueue, pushLog, startLog>> PROVE OrderOf(r)'
  <2>1. Left(r)' = Left(r)
    BY <1>7 DEF Left, InMonitor
  <2> QED
    BY <1>1, <1>7, <2>1 DEF OrderOf
<1>8. ASSUME \/ \E t \in Task : AddRequest(t)
             \/ OtherTransaction
             \/ \E q \in Roles : GetInput(q) \/ RunFunction(q) \/ Clear(q)
             \/ SendResult \/ UNCHANGED vars
      PROVE  UNCHANGED <<putQueue, monTask, readyQueue, pushLog, startLog>>
  BY <1>8
     DEF AddRequest, OtherTransaction, GetInput, RunFunction, Clear, SendResult, GetNonce,
         SignTransaction, SendRawTransaction, SetFailedResult, vars, queueVars, procVars
<1> QED
  BY <1>3, <1>4, <1>5, <1>6, <1>7, <1>8 DEF Next, Monitor

-----------------------------------------------------------------------------
(* The theorems.                                                           *)

\* The invariant of the pipeline: a task pushed once is at one place, with its slot
\* and the verdicts that place allows, and the nonces are sound.
THEOREM PipelineInductive == Spec => []IInv
<1>1. IInv /\ [Next]_vars => IInv'
  BY TypeNext, RoleNext, OnceNext, SlotsNext, VerdictNext, NonceNext DEF IInv
<1> QED
  BY InitIInv, <1>1, PTL DEF Spec

\* The variables keep their types.
THEOREM TypeCorrect == Spec => []TypeOK
<1>1. IInv => TypeOK
  BY DEF IInv
<1> QED
  BY PipelineInductive, <1>1, PTL

\* The chain gets one verdict on a task (processMpcBusi, setFailedResult), unless an
\* answer was lost or the task was pushed twice.
THEOREM OneVerdictCorrect == Spec => []OneVerdict
<1>1. IInv => OneVerdict
  BY DEF IInv, VerdictSound
<1> QED
  BY PipelineInductive, <1>1, PTL

\* The i-th task of a role a processor starts is the i-th that was pushed for it,
\* for every number of tasks and however often each was pushed.
THEOREM StartOrderCorrect == Spec => []StartOrder
<1>1. IInv /\ OrderSound => StartOrder
  <2> SUFFICES ASSUME IInv, OrderSound, NEW r \in Roles, NEW i \in DOMAIN startLog[r]
               PROVE  i \in DOMAIN pushLog[r] /\ startLog[r][i] = pushLog[r][i]
    BY DEF StartOrder
  <2>1. /\ startLog[r] \in Seq(Task) /\ readyQueue[r] \in Seq(Task)
        /\ pushLog[r] \in Seq(Task)
    BY DEF IInv, TypeOK
  <2>2. OrderOf(r)
    BY DEF OrderSound
  <2>3. Len(startLog[r]) <= Left(r) /\ Left(r) \in Nat
    <3>1. InMonitor(r) \in Nat
      BY DEF InMonitor
    <3>2. Left(r) = Len(startLog[r]) + Len(readyQueue[r]) + InMonitor(r)
      BY DEF Left
    <3> DEFINE x == Len(startLog[r])
               y == Len(readyQueue[r])
               m == InMonitor(r)
    <3>3. x \in Nat /\ y \in Nat /\ m \in Nat
      BY <2>1, <3>1
    <3>4. Left(r) = x + y + m
      BY <3>2
    <3> HIDE DEF x, y, m
    <3>5. x <= Left(r) /\ Left(r) \in Nat
      BY <3>3, <3>4
    <3> QED
      BY <3>5 DEF x
  <2>4. i \in 1 .. Len(startLog[r])
    BY <2>1
  <2>5. Left(r) <= Len(pushLog[r])
    BY <2>2 DEF OrderOf
  <2>6. startLog[r][i] = pushLog[r][i]
    BY <2>2, <2>4 DEF OrderOf
  <2>7. i \in DOMAIN pushLog[r]
    <3> DEFINE x == Len(startLog[r])
               y == Len(pushLog[r])
    <3>1. x \in Nat /\ y \in Nat /\ x <= Left(r) /\ Left(r) <= y /\ i \in 1 .. x
      BY <2>1, <2>3, <2>4, <2>5
    <3>2. DOMAIN pushLog[r] = 1 .. y
      BY <2>1
    <3> HIDE DEF x, y
    <3> QED
      BY <2>3, <3>1, <3>2
  <2> QED
    BY <2>6, <2>7
<1>2. IInv /\ OrderSound /\ [Next]_vars => OrderSound'
  BY OrderNext
<1>3. Spec => []OrderSound
  BY PipelineInductive, InitOrder, <1>2, PTL DEF Spec
<1> QED
  BY PipelineInductive, <1>1, <1>3, PTL

\* As long as getTransactionCount answers, no nonce is used above one that is not:
\* not after a transaction that was signed and never sent, either.
THEOREM NoNonceHoleCorrect == Spec => []NoNonceHole
<1>1. ASSUME IInv PROVE NoNonceHole
  <2>1. ASSUME ~countFailed, NEW n \in used, NEW k \in 0 .. n PROVE k \in used
    <3>1. Below(n)
      BY <1>1, <2>1 DEF IInv, NonceSound
    <3> QED
      BY <3>1, <2>1 DEF Below
  <2> QED
    BY <2>1 DEF NoNonceHole
<1> QED
  BY PipelineInductive, <1>1, PTL

\* Each nonce below n is used, or was taken for a transaction the chain did not take.
Accounted(n) == \A k \in 0 .. n : k # n => k \in used \cup unsent

\* So it is for the nonces the chain knows and the last one the node took, which is
\* on its way or has one of these two ends itself.
SkipSound ==
    /\ \A n \in used \cup userNonce : Accounted(n)
    /\ IF pc["bob"] \in {"sign", "send"} THEN userNonce = {nonce}
                                          ELSE userNonce \subseteq used \cup unsent

LEMMA SkipNext == IInv /\ SkipSound /\ [Next]_vars => SkipSound'
<1> SUFFICES ASSUME TypeOK, NonceSound, SkipSound, [Next]_vars PROVE SkipSound'
  BY DEF IInv
<1> USE RoleFacts
<1>p. PendingCount \in Nat /\ Accounted(PendingCount)
  BY PendingFacts DEF TypeOK, NonceSound, Below, Accounted
<1>k. ASSUME NEW n, Accounted(n), used \subseteq used', unsent \subseteq unsent'
      PROVE  Accounted(n)'
  BY <1>k DEF Accounted
<1>1. CASE OtherTransaction
  <2>1. used' = used \cup {PendingCount} /\ UNCHANGED <<userNonce, nonce, unsent, pc>>
    BY <1>1 DEF OtherTransaction, procVars
  <2>2. \A n \in (used \cup userNonce)' : Accounted(n)'
    BY <1>p, <1>k, <2>1 DEF SkipSound
  <2> QED
    BY <2>1, <2>2 DEF SkipSound
<1>2. CASE GetNonce
  <2>1. PICK count \in {PendingCount, 0} :
            nonce' = NextNonce(count) /\ userNonce' = {NextNonce(count)}
    BY <1>2 DEF GetNonce
  <2>2. UNCHANGED <<used, unsent>> /\ pc["bob"] = "nonce" /\ pc'["bob"] = "sign"
    BY <1>2 DEF GetNonce, Goto, TypeOK
  <2>3. Accounted(NextNonce(count))
    <3>1. CASE \E old \in userNonce : old > count
      <4>1. PICK last \in userNonce : last = CHOOSE old \in userNonce : TRUE
        BY <3>1
      <4>2. last \in Nat /\ Accounted(last) /\ last \in used \cup unsent
        BY <2>2 DEF TypeOK, SkipSound
      <4>3. NextNonce(count) = last + 1
        BY <3>1, <4>1 DEF NextNonce
      <4>4. \A k \in 0 .. last + 1 : k # last + 1 => k = last \/ k \in 0 .. last
        BY <4>2
      <4> QED
        BY <4>2, <4>3, <4>4 DEF Accounted
    <3>2. CASE ~(\E old \in userNonce : old > count)
      <4>1. NextNonce(count) = count
        BY <3>2 DEF NextNonce
      <4>2. Accounted(0)
        BY DEF Accounted
      <4> QED
        BY <1>p, <4>1, <4>2
    <3> QED
      BY <3>1, <3>2
  <2>4. \A n \in (used \cup userNonce)' : Accounted(n)'
    BY <1>k, <2>1, <2>2, <2>3 DEF SkipSound
  <2> QED
    BY <2>1, <2>2, <2>4 DEF SkipSound
<1>3. CASE SignTransaction
  <2>1. /\ UNCHANGED <<used, userNonce, nonce>> /\ pc["bob"] = "sign"
        /\ \/ pc'["bob"] = "send" /\ UNCHANGED unsent
           \/ pc'["bob"] = "report" /\ unsent' = unsent \cup {nonce}
    BY <1>3 DEF SignTransaction, Goto, TypeOK
  <2>2. \A n \in (used \cup userNonce)' : Accounted(n)'
    BY <1>k, <2>1 DEF SkipSound
  <2> QED
    BY <2>1, <2>2 DEF SkipSound
<1>4. CASE SendRawTransaction
  <2>1. /\ UNCHANGED <<userNonce, nonce>> /\ pc["bob"] = "send"
        /\ pc'["bob"] \in {"clear", "report"}
        /\ \/ used' = used \cup {nonce} /\ UNCHANGED unsent
           \/ UNCHANGED used /\ unsent' = unsent \cup {nonce}
    BY <1>4 DEF SendRawTransaction, Goto, TypeOK
  <2>2. userNonce = {nonce} /\ Accounted(nonce)
    BY <2>1 DEF SkipSound
  <2>3. \A n \in (used \cup userNonce)' : Accounted(n)'
    BY <1>k, <2>1, <2>2 DEF SkipSound
  <2> QED
    BY <2>1, <2>2, <2>3 DEF SkipSound
<1>5. ASSUME UNCHANGED <<used, userNonce, nonce, unsent>>,
             pc["bob"] \in {"sign", "send"} <=> pc'["bob"] \in {"sign", "send"}
      PROVE  SkipSound'
  <2>1. \A n \in (used \cup userNonce)' : Accounted(n)'
    BY <1>k, <1>5 DEF SkipSound
  <2> QED
    BY <1>5, <2>1 DEF SkipSound
<1>6. ASSUME \/ \E t \in Task : AddRequest(t) \/ PushPutTask(t)
             \/ Monitor \/ UNCHANGED vars
      PROVE  SkipSound'
  BY <1>5, <1>6
     DEF AddRequest, PushPutTask, Monitor, PopPutTask, PutReadyTask, vars, chainVars, procVars
<1>7. ASSUME NEW r \in Roles, FetchTask(r) \/ GetInput(r) \/ RunFunction(r) \/ Clear(r)
      PROVE  SkipSound'
  <2>1. UNCHANGED <<used, userNonce, nonce, unsent>>
    BY <1>7 DEF FetchTask, GetInput, RunFunction, Clear, chainVars
  <2>2. /\ pc[r] \notin {"sign", "send"} /\ pc'[r] \notin {"sign", "send"}
        /\ \A q \in Roles : q # r => pc'[q] = pc[q]
    BY <1>7 DEF FetchTask, GetInput, RunFunction, Clear, Goto, Failure, TypeOK
  <2> QED
    BY <1>5, <2>1, <2>2
<1>8. CASE SetFailedResult
  <2>1. /\ UNCHANGED <<used, userNonce, nonce, unsent>>
        /\ pc["bob"] = "report" /\ pc'["bob"] = "clear"
    BY <1>8 DEF SetFailedResult, Goto, TypeOK
  <2> QED
    BY <1>5, <2>1
<1> QED
  BY <1>1, <1>2, <1>3, <1>4, <1>6, <1>7, <1>8 DEF Next, SendResult

\* Even when getTransactionCount fails no nonce is skipped: one that is missing below
\* a used one was taken by this node and not accepted.
THEOREM NoNonceSkippedCorrect == Spec => []NoNonceSkipped
<1>1. Init => SkipSound
  BY DEF Init, SkipSound, Roles
<1>2. ASSUME TypeOK, SkipSound PROVE NoNonceSkipped
  BY <1>2 DEF TypeOK, SkipSound, Accounted, NoNonceSkipped
<1> QED
  BY <1>1, <1>2, SkipNext, PipelineInductive, TypeCorrect, PTL DEF Spec

\* Three different tasks are a set of three: more than there are slots.
LEMMA ThreeElements ==
  ASSUME NEW a, NEW b, NEW c, a # b, a # c, b # c
  PROVE  Cardinality({a, b, c}) = 3
<1>1. IsFiniteSet({a}) /\ Cardinality({a}) = 1
  BY FS_Singleton
<1>2. IsFiniteSet({a} \cup {b}) /\ Cardinality({a} \cup {b}) = Cardinality({a}) + 1
  BY <1>1, FS_AddElement
<1>3. c \notin {a} \cup {b}
  OBVIOUS
<1> DEFINE S == {a} \cup {b}
<1> HIDE DEF S
<1>4. Cardinality(S \cup {c}) = Cardinality(S) + 1
  BY <1>2, <1>3, FS_AddElement DEF S
<1>5. Cardinality(S) = 2
  BY <1>1, <1>2 DEF S
<1>6. {a, b, c} = S \cup {c}
  BY DEF S
<1> QED
  BY <1>4, <1>5, <1>6

\* The monitor waits for a place in a ready queue only while the processor of that
\* role is between two tasks: its task, the one in the queue and the one that runs
\* would hold three slots.
THEOREM MonitorNotBehindRunCorrect == Spec => []MonitorNotBehindRun
<1>1. ASSUME IInv PROVE MonitorNotBehindRun
  <2> SUFFICES ASSUME \A t \in Task : pushes[t] < 2, NEW t \in monTask,
                      Len(readyQueue[Role(t)]) = ReadyLimit, pc[Role(t)] # "fetch"
               PROVE  FALSE
    BY DEF MonitorNotBehindRun
  <2>1. t \in Task /\ Role(t) \in Roles /\ readyQueue[Role(t)] \in Seq(Task)
    BY <1>1, RoleFacts DEF IInv, TypeOK
  <2> DEFINE u == Head(readyQueue[Role(t)])
  <2>2. u \in Range(readyQueue[Role(t)]) /\ u \in Task /\ Role(u) = Role(t)
    <3>1. readyQueue[Role(t)] # << >>
      BY LimitFacts
    <3>2. u \in Range(readyQueue[Role(t)]) /\ u \in Task
      BY <2>1, <3>1, RangeTail
    <3> QED
      BY <1>1, <2>1, <3>2 DEF IInv, RoleSound
  <2>3. PICK v \in task[Role(t)] : v \in Task /\ Role(v) = Role(t) /\ Running(v)
    BY <1>1, <2>1 DEF IInv, RoleSound, Running, TypeOK
  <2>4. OnePlace(t) /\ OnePlace(u) /\ OnePlace(v)
    BY <1>1, <2>1, <2>2, <2>3 DEF IInv, OncePlaced
  <2>5. t # u /\ t # v /\ u # v
    BY <2>2, <2>3, <2>4 DEF OnePlace, Ready
  <2>6. t \in requestQueue /\ u \in requestQueue /\ v \in requestQueue
    BY <1>1, <2>1, <2>2, <2>3 DEF IInv, SlotsSound, SlotHeld, Ready
  <2>7. Cardinality({t, u, v}) = 3
    BY <2>5, ThreeElements
  <2>8. Cardinality({t, u, v}) <= Cardinality(requestQueue)
    <3>1. {t, u, v} \in SUBSET requestQueue
      BY <2>6
    <3> QED
      BY <1>1, <3>1, FS_Subset DEF IInv, SlotsSound
  <2>9. Cardinality(requestQueue) \in Nat /\ Cardinality(requestQueue) <= 2
    BY <1>1, FS_CardinalityType, LimitFacts DEF IInv, SlotsSound
  <2> QED
    BY <2>7, <2>8, <2>9
<1> QED
  BY PipelineInductive, <1>1, PTL

-----------------------------------------------------------------------------
(* Only computations hold tasks up.                                        *)

\* What was pushed is over, or in the pipeline with its slot, however often pushed.
Kept(t) ==
    pushes[t] > 0 =>
        \/ t \in ended
        \/ /\ t \in requestQueue
           /\ t \in Range(putQueue) \cup monTask \cup Range(Ready(t)) \/ Running(t)

KeptSound == \A t \in Task : Kept(t)

LEMMA KeptNext == IInv /\ KeptSound /\ [Next]_vars => KeptSound'
<1> SUFFICES ASSUME IInv, KeptSound, [Next]_vars, NEW u \in Task PROVE Kept(u)'
  BY DEF KeptSound
<1> USE RoleFacts
<1>0. TypeOK /\ RoleSound /\ Kept(u) /\ Role(u) \in Roles
  BY DEF IInv, KeptSound
<1>s. ASSUME UNCHANGED <<pushes, putQueue, monTask, readyQueue, pc, task, ended>>,
             requestQueue \subseteq requestQueue'
      PROVE  Kept(u)'
  BY <1>0, <1>s DEF Kept, Ready, Running
<1>1. ASSUME (\E t \in Task : AddRequest(t)) \/ OtherTransaction \/ UNCHANGED vars
      PROVE  Kept(u)'
  BY <1>s, <1>1 DEF AddRequest, OtherTransaction, vars, queueVars, procVars
<1>2. ASSUME NEW t \in Task, PushPutTask(t) PROVE Kept(u)'
  <2>1. /\ putQueue' = Append(putQueue, t) /\ pushes' = [pushes EXCEPT ![t] = @ + 1]
        /\ UNCHANGED <<requestQueue, monTask, readyQueue, pc, task, ended>>
    BY <1>2 DEF PushPutTask, procVars
  <2>2. Range(putQueue') = Range(putQueue) \cup {t}
    BY <1>0, <2>1, RangeAppend DEF TypeOK
  <2>3. u # t => pushes'[u] = pushes[u]
    BY <1>0, <2>1 DEF TypeOK
  <2>4. pushes[t] > 0 \/ t \in requestQueue
    BY <1>0, <1>2 DEF PushPutTask, TypeOK
  <2> QED
    BY <1>0, <2>1, <2>2, <2>3, <2>4 DEF Kept, Ready, Running
<1>3. CASE PopPutTask
  <2>1. /\ putQueue # << >> /\ putQueue' = Tail(putQueue) /\ monTask = {}
        /\ monTask' = {Head(putQueue)}
        /\ UNCHANGED <<requestQueue, pushes, readyQueue, pc, task, ended>>
    BY <1>3 DEF PopPutTask, procVars
  <2>2. Range(putQueue) = Range(putQueue') \cup monTask'
    BY <1>0, <2>1, RangeHeadTail DEF TypeOK
  <2> QED
    BY <1>0, <2>1, <2>2 DEF Kept, Ready, Running
<1>4. CASE PutReadyTask
  <2>1. PICK t \in monTask :
            /\ readyQueue' = [readyQueue EXCEPT ![Role(t)] = Append(@, t)]
            /\ monTask' = {}
    BY <1>4 DEF PutReadyTask
  <2>2. UNCHANGED <<requestQueue, pushes, putQueue, pc, task, ended>> /\ monTask = {t}
    BY <1>0, <1>4 DEF PutReadyTask, procVars, TypeOK, AtMostOne
  <2>3. t \in Task /\ readyQueue[Role(t)] \in Seq(Task)
    BY <1>0 DEF TypeOK
  <2>4. /\ Range(readyQueue'[Role(t)]) = Range(readyQueue[Role(t)]) \cup {t}
        /\ \A q \in Roles : q # Role(t) => readyQueue'[q] = readyQueue[q]
    BY <1>0, <2>1, <2>3, RangeAppend DEF TypeOK
  <2> QED
    BY <1>0, <2>1, <2>2, <2>4 DEF Kept, Ready, Running
<1>5. ASSUME NEW r \in Roles, FetchTask(r) PROVE Kept(u)'
  <2>1. readyQueue[r] \in Seq(Task) /\ readyQueue[r] # << >> /\ Len(readyQueue[r]) <= 1
    BY <1>0, <1>5 DEF FetchTask, TypeOK, RoleSound
  <2>2. Range(readyQueue[r]) = {Head(readyQueue[r])}
    BY <2>1, OnePlaceQueue
  <2>3. task'[r] = Range(readyQueue[r]) /\ \A q \in Roles : q # r => task'[q] = task[q]
    BY <1>0, <1>5, <2>2 DEF FetchTask, TypeOK
  <2>4. /\ pc[r] = "fetch" /\ pc'[r] = "input"
        /\ \A q \in Roles : q # r => pc'[q] = pc[q] /\ readyQueue'[q] = readyQueue[q]
    BY <1>0, <1>5 DEF FetchTask, Goto, TypeOK
  <2>5. UNCHANGED <<requestQueue, pushes, putQueue, monTask, ended>>
    BY <1>5 DEF FetchTask
  <2>6. CASE Role(u) = r
    BY <1>0, <2>3, <2>4, <2>5, <2>6 DEF Kept, Ready, Running
  <2>7. CASE Role(u) # r
    BY <1>0, <2>3, <2>4, <2>5, <2>7 DEF Kept, Ready, Running
  <2> QED
    BY <2>6, <2>7
<1>6. ASSUME NEW r \in Roles, Clear(r) PROVE Kept(u)'
  <2>1. /\ UNCHANGED <<pushes, putQueue, monTask, readyQueue, task>>
        /\ ended' = ended \cup task[r] /\ requestQueue' = requestQueue \ task[r]
    BY <1>6 DEF Clear
  <2>2. pc'[r] = "fetch" /\ \A q \in Roles : q # r => pc'[q] = pc[q]
    BY <1>0, <1>6 DEF Clear, Goto, TypeOK
  <2> QED
    BY <1>0, <2>1, <2>2 DEF Kept, Ready, Running
<1>7. ASSUME NEW r \in Roles, RunStep(r) PROVE Kept(u)'
  <2>1. UNCHANGED <<requestQueue, pushes, ended>>
    BY <1>7 DEF RunStep, queueVars
  <2> QED
    BY <1>0, <1>7, <2>1, PlacesSame DEF Kept, Ready
<1> QED
  BY <1>0, <1>1, <1>2, <1>3, <1>4, <1>5, <1>6, <1>7, RunSteps DEF Next, Monitor

\* When the threads have stopped, a pushed task that is not over has its slot, so no
\* processor waits in removeRequest, and one with a task in its queue runs another.
\* If the task itself is not with a processor, the monitor waits behind such a run,
\* which it does only after a second push.
THEOREM OnlyRunsStopCorrect == Spec => []OnlyRunsStop
<1>1. IInv /\ KeptSound /\ MonitorNotBehindRun => OnlyRunsStop
  <2> SUFFICES ASSUME IInv, KeptSound, MonitorNotBehindRun, Stopped,
                      NEW u \in Task, pushes[u] > 0, pc[Role(u)] # "run", u \notin ended
               PROVE  /\ \E w \in Task : pushes[w] > 1
                      /\ \E t \in monTask : pc[Role(t)] = "run"
    BY DEF OnlyRunsStop
  <2>1. /\ u \in requestQueue
        /\ u \in Range(putQueue) \cup monTask \cup Range(Ready(u)) \/ Running(u)
    BY DEF KeptSound, Kept
  <2>2. \A r \in Roles : \/ pc[r] = "fetch" /\ readyQueue[r] = << >>
                         \/ pc[r] = "run"
    BY <2>1 DEF Stopped, ProcessorWaits
  <2>3. u \in Range(putQueue) \cup monTask
    BY <2>1, <2>2, RoleFacts, RangeEmpty DEF Ready, Running
  <2>4. PICK t \in monTask : Len(readyQueue[Role(t)]) >= ReadyLimit
    BY <2>3, RangeEmpty DEF Stopped, MonitorWaits
  <2>5. t \in Task /\ Role(t) \in Roles
    BY RoleFacts DEF IInv, TypeOK
  <2> DEFINE q == readyQueue[Role(t)]
  <2>6. q \in Seq(Task) /\ Len(q) \in Nat /\ Len(q) <= 1
    BY <2>5 DEF IInv, TypeOK, RoleSound
  <2>7. Len(q) = 1 /\ q # << >>
    <3> DEFINE k == Len(q)
    <3>1. k \in Nat /\ k <= 1 /\ k >= 1
      BY <2>4, <2>6, LimitFacts
    <3>2. k > 0 => q # << >>
      BY <2>6
    <3> HIDE DEF k
    <3>3. k = 1 /\ k > 0
      BY <3>1
    <3> QED
      BY <3>2, <3>3 DEF k
  <2>8. pc[Role(t)] = "run"
    BY <2>2, <2>5, <2>7
  <2>9. ~(\A w \in Task : pushes[w] < 2)
    BY <2>4, <2>7, <2>8, LimitFacts DEF MonitorNotBehindRun
  <2>10. \A w \in Task : pushes[w] \in Nat
    BY DEF IInv, TypeOK
  <2> QED
    BY <2>8, <2>9, <2>10
<1>2. Init => KeptSound
  BY DEF Init, KeptSound, Kept
<1> QED
  BY <1>1, <1>2, KeptNext, PipelineInductive, MonitorNotBehindRunCorrect, PTL DEF Spec

-----------------------------------------------------------------------------
(* How long it can go on.                                                  *)

PushesLeft == Total(Task, MaxPush, [t \in Task |-> MaxPush - pushes[t]])

MonitorLeft == IF monTask = {} THEN 0 ELSE 9

LineLeft(r) == 8 * Len(readyQueue[r])

\* The steps of a run that is at this place, if each of them is taken.
RunLeft(r) ==
    CASE pc[r] = "input" -> 7
      [] pc[r] = "run" -> 6
      [] pc[r] = "nonce" -> 5
      [] pc[r] = "sign" -> 4
      [] pc[r] = "send" -> 3
      [] pc[r] = "report" -> 2
      [] pc[r] = "clear" -> 1
      [] pc[r] = "fetch" -> 0

RoleLeft(r) == LineLeft(r) + RunLeft(r)

\* How many steps of the threads and the computations the pushes made and still to
\* come can lead to.
StepsLeft ==
    11 * PushesLeft + 10 * Len(putQueue) + MonitorLeft + RoleLeft("alice") + RoleLeft("bob")

\* No step adds to what is left, each of a thread or a computation takes from it.
StepsCounted ==
    [][/\ StepsLeft' <= StepsLeft
       /\ Threads \/ (\E r \in Roles : RunFunction(r)) => StepsLeft' < StepsLeft]_vars

LEMMA LeftTypes ==
    TypeOK => /\ Len(putQueue) \in Nat /\ MonitorLeft \in Nat
              /\ RoleLeft("alice") \in Nat /\ RoleLeft("bob") \in Nat
              /\ \A r \in Roles : LineLeft(r) \in Nat /\ RunLeft(r) \in Nat
<1> SUFFICES ASSUME TypeOK
             PROVE  /\ Len(putQueue) \in Nat /\ MonitorLeft \in Nat
                    /\ RoleLeft("alice") \in Nat /\ RoleLeft("bob") \in Nat
                    /\ \A r \in Roles : LineLeft(r) \in Nat /\ RunLeft(r) \in Nat
  OBVIOUS
<1>1. ASSUME NEW r \in Roles PROVE LineLeft(r) \in Nat /\ RunLeft(r) \in Nat
  <2>1. Len(readyQueue[r]) \in Nat /\ pc[r] \in ProcPc
    BY DEF TypeOK
  <2>2. LineLeft(r) \in Nat
    BY <2>1 DEF LineLeft
  <2>3. RunLeft(r) \in Nat
    BY <2>1 DEF RunLeft, ProcPc
  <2> QED
    BY <2>2, <2>3
<1>2. Len(putQueue) \in Nat
  BY DEF TypeOK
<1> QED
  BY <1>1, <1>2, RoleFacts DEF MonitorLeft, RoleLeft

LEMMA LeftTypesNext ==
    TypeOK' => (/\ Len(putQueue) \in Nat /\ MonitorLeft \in Nat
                /\ RoleLeft("alice") \in Nat /\ RoleLeft("bob") \in Nat
                /\ \A r \in Roles : LineLeft(r) \in Nat /\ RunLeft(r) \in Nat)'
BY LeftTypes, PTL

\* A step that is not one of a role leaves what the role has left.
LEMMA RoleSame ==
    ASSUME NEW r \in Roles, readyQueue'[r] = readyQueue[r], pc'[r] = pc[r]
    PROVE  LineLeft(r)' = LineLeft(r) /\ RunLeft(r)' = RunLeft(r) /\ RoleLeft(r)' = RoleLeft(r)
BY DEF LineLeft, RunLeft, RoleLeft

\* A step of a processor.
LEMMA ProcessorFalls ==
    ASSUME TypeOK, TypeOK', NEW r \in Roles,
           \/ FetchTask(r) \/ GetInput(r) \/ RunFunction(r) \/ Clear(r)
           \/ r = "bob" /\ SendResult
    PROVE  /\ RoleLeft(r)' < RoleLeft(r)
           /\ \A q \in Roles : q # r => RoleLeft(q)' = RoleLeft(q)
           /\ UNCHANGED <<pushes, putQueue, monTask>>
<1>1. UNCHANGED <<pushes, putQueue, monTask>>
  BY DEF FetchTask, GetInput, RunFunction, Clear, SendResult, GetNonce, SignTransaction,
     SendRawTransaction, SetFailedResult, queueVars
<1>2. /\ pc \in [Roles -> ProcPc] /\ readyQueue \in [Roles -> Seq(Task)]
      /\ readyQueue' \in [Roles -> Seq(Task)]
  BY DEF TypeOK
<1>3. /\ LineLeft(r) \in Nat /\ RunLeft(r) \in Nat
      /\ LineLeft(r)' \in Nat /\ RunLeft(r)' \in Nat
  BY LeftTypes, LeftTypesNext
<1>4. CASE FetchTask(r)
  <2> DEFINE s == readyQueue[r]
  <2>1. /\ s \in Seq(Task) /\ s # << >> /\ readyQueue'[r] = Tail(s)
        /\ pc[r] = "fetch" /\ pc'[r] = "input"
        /\ \A q \in Roles : q # r => pc'[q] = pc[q] /\ readyQueue'[q] = readyQueue[q]
    BY <1>2, <1>4 DEF FetchTask, Goto
  <2> HIDE DEF s
  <2>2. Len(readyQueue'[r]) + 1 = Len(s) /\ Len(s) \in Nat /\ Len(readyQueue'[r]) \in Nat
    BY <2>1
  <2>3. LineLeft(r)' + 8 = LineLeft(r)
    BY <2>2 DEF LineLeft, s
  <2>4. RunLeft(r) = 0 /\ RunLeft(r)' = 7
    BY <2>1 DEF RunLeft
  <2> QED
    BY <1>1, <1>3, <2>1, <2>3, <2>4, RoleSame DEF RoleLeft
<1>5. CASE ~FetchTask(r)
  <2>1. /\ readyQueue' = readyQueue
        /\ \A q \in Roles : q # r => pc'[q] = pc[q]
        /\ \/ pc[r] = "input" /\ pc'[r] \in {"run", "report", "clear"}
           \/ pc[r] = "run" /\ pc'[r] \in {"nonce", "report", "clear"}
           \/ pc[r] = "nonce" /\ pc'[r] = "sign"
           \/ pc[r] = "sign" /\ pc'[r] \in {"send", "report"}
           \/ pc[r] = "send" /\ pc'[r] \in {"report", "clear"}
           \/ pc[r] = "report" /\ pc'[r] = "clear"
           \/ pc[r] = "clear" /\ pc'[r] = "fetch"
    BY <1>2, <1>5 DEF GetInput, RunFunction, Clear, SendResult, GetNonce, SignTransaction,
       SendRawTransaction, SetFailedResult, Goto, Failure, queueVars
  <2>2. RunLeft(r)' < RunLeft(r)
    BY <2>1 DEF RunLeft
  <2>3. LineLeft(r)' = LineLeft(r)
    BY <2>1 DEF LineLeft
  <2> QED
    BY <1>1, <1>3, <2>1, <2>2, <2>3, RoleSame DEF RoleLeft
<1> QED
  BY <1>4, <1>5

\* The steps of the monitor.
LEMMA MonitorFalls ==
    ASSUME TypeOK, TypeOK', Monitor
    PROVE  /\ 10 * Len(putQueue') + MonitorLeft' + RoleLeft("alice")' + RoleLeft("bob")'
                  < 10 * Len(putQueue) + MonitorLeft + RoleLeft("alice") + RoleLeft("bob")
           /\ UNCHANGED pushes
<1>0. /\ Len(putQueue) \in Nat /\ Len(putQueue') \in Nat
      /\ MonitorLeft \in Nat /\ MonitorLeft' \in Nat
      /\ \A r \in Roles : /\ LineLeft(r) \in Nat /\ RunLeft(r) \in Nat
                          /\ LineLeft(r)' \in Nat /\ RunLeft(r)' \in Nat
  BY LeftTypes, LeftTypesNext
<1>1. CASE PopPutTask
  <2>1. /\ putQueue \in Seq(Task) /\ putQueue # << >> /\ putQueue' = Tail(putQueue)
        /\ monTask = {} /\ monTask' # {} /\ UNCHANGED <<pushes, readyQueue, pc>>
    BY <1>1 DEF PopPutTask, TypeOK, procVars
  <2>2. Len(putQueue') + 1 = Len(putQueue)
    BY <2>1
  <2>3. MonitorLeft = 0 /\ MonitorLeft' = 9
    BY <2>1 DEF MonitorLeft
  <2>4. \A r \in Roles : RoleLeft(r)' = RoleLeft(r)
    BY <2>1, RoleSame
  <2> QED
    BY <1>0, <2>1, <2>2, <2>3, <2>4, RoleFacts DEF RoleLeft
<1>2. CASE PutReadyTask
  <2>1. PICK t \in monTask : /\ readyQueue' = [readyQueue EXCEPT ![Role(t)] = Append(@, t)]
                             /\ monTask' = {} /\ UNCHANGED <<pushes, putQueue, pc>>
    BY <1>2 DEF PutReadyTask, procVars
  <2>2. t \in Task /\ Role(t) \in Roles
    BY RoleFacts DEF TypeOK
  <2> DEFINE r == Role(t)
             s == readyQueue[r]
  <2>3. /\ s \in Seq(Task) /\ readyQueue'[r] = Append(s, t)
        /\ \A q \in Roles : q # r => readyQueue'[q] = readyQueue[q]
    BY <2>1, <2>2 DEF TypeOK
  <2> HIDE DEF r, s
  <2>4. Len(s) \in Nat /\ Len(readyQueue'[r]) = Len(s) + 1
    BY <2>2, <2>3
  <2>5. LineLeft(r)' = LineLeft(r) + 8 /\ RunLeft(r)' = RunLeft(r)
    BY <2>1, <2>4 DEF LineLeft, RunLeft, r, s
  <2>6. MonitorLeft = 9 /\ MonitorLeft' = 0
    BY <2>1 DEF MonitorLeft
  <2>7. r \in Roles /\ \A q \in Roles : q # r => RoleLeft(q)' = RoleLeft(q)
    BY <2>1, <2>2, <2>3, RoleSame DEF r
  <2>8. RoleLeft(r)' = RoleLeft(r) + 8
    BY <1>0, <2>5, <2>7 DEF RoleLeft
  <2>9. RoleLeft("alice")' + RoleLeft("bob")' = RoleLeft("alice") + RoleLeft("bob") + 8
    <3>1. RoleLeft("alice") \in Nat /\ RoleLeft("bob") \in Nat
      BY LeftTypes
    <3>2. (r = "alice" \/ r = "bob") /\ "alice" \in Roles /\ "bob" \in Roles
      BY <2>7, RoleFacts
    <3>3. CASE r = "alice"
      BY <2>7, <2>8, <3>1, <3>2, <3>3
    <3>4. CASE r = "bob"
      BY <2>7, <2>8, <3>1, <3>2, <3>4
    <3> QED
      BY <3>2, <3>3, <3>4
  <2>10. /\ RoleLeft("alice") \in Nat /\ RoleLeft("bob") \in Nat
         /\ RoleLeft("alice")' \in Nat /\ RoleLeft("bob")' \in Nat
    BY LeftTypes, LeftTypesNext
  <2> QED
    BY <1>0, <2>1, <2>6, <2>9, <2>10
<1> QED
  BY <1>1, <1>2 DEF Monitor

\* A push that was to come is a task in the put queue.
LEMMA PushFalls ==
    ASSUME IsFiniteSet(Task), TypeOK, TypeOK', NEW t \in Task, PushPutTask(t)
    PROVE  /\ PushesLeft' + 1 <= PushesLeft
           /\ Len(putQueue') = Len(putQueue) + 1
           /\ UNCHANGED <<monTask, readyQueue, pc>>
<1> DEFINE f == [u \in Task |-> MaxPush - pushes[u]]
           g == [u \in Task |-> MaxPush - pushes'[u]]
<1>1. /\ pushes \in [Task -> 0 .. MaxPush] /\ pushes' = [pushes EXCEPT ![t] = @ + 1]
      /\ pushes' \in [Task -> 0 .. MaxPush]
      /\ putQueue \in Seq(Task) /\ putQueue' = Append(putQueue, t)
      /\ UNCHANGED <<monTask, readyQueue, pc>>
  BY DEF PushPutTask, TypeOK, procVars
<1>2. MaxPush \in Nat
  BY DEF MaxPush
<1>3. f \in [Task -> 0 .. MaxPush] /\ g \in [Task -> 0 .. MaxPush]
  BY <1>1, <1>2
<1>4. (\A u \in Task : g[u] <= f[u]) /\ g[t] < f[t]
  BY <1>1, <1>2
<1>5. PushesLeft = Total(Task, MaxPush, f) /\ PushesLeft' = Total(Task, MaxPush, g)
  BY DEF PushesLeft, Total, PointsBelow
<1> HIDE DEF f, g
<1>6. /\ Total(Task, MaxPush, f) \in Nat /\ Total(Task, MaxPush, g) \in Nat
      /\ Total(Task, MaxPush, g) < Total(Task, MaxPush, f)
  BY <1>2, <1>3, <1>4, TotalFalls
<1> QED
  BY <1>1, <1>5, <1>6

LEMMA PushesLeftType == IsFiniteSet(Task) /\ TypeOK => PushesLeft \in Nat
<1> SUFFICES ASSUME IsFiniteSet(Task), TypeOK PROVE PushesLeft \in Nat
  OBVIOUS
<1> DEFINE f == [u \in Task |-> MaxPush - pushes[u]]
<1>1. MaxPush \in Nat /\ pushes \in [Task -> 0 .. MaxPush]
  BY DEF MaxPush, TypeOK
<1>2. f \in [Task -> 0 .. MaxPush] /\ \A u \in Task : f[u] <= f[u]
  BY <1>1
<1>3. PushesLeft = Total(Task, MaxPush, f)
  BY DEF PushesLeft
<1> HIDE DEF f
<1> QED
  BY <1>1, <1>2, <1>3, TotalFalls

LEMMA PushesLeftTypeNext == ASSUME IsFiniteSet(Task) PROVE TypeOK' => (PushesLeft \in Nat)'
<1>1. TypeOK => PushesLeft \in Nat
  BY PushesLeftType
<1> QED
  BY <1>1, PTL

\* How the parts of what is left add up.
LEMMA LeftSums ==
    ASSUME NEW i \in Nat, NEW j \in Nat, NEW k \in Nat, NEW l \in Nat, NEW m \in Nat,
           NEW p \in Nat, NEW q \in Nat, NEW r \in Nat, NEW s \in Nat, NEW t \in Nat
    PROVE  /\ 11 * i + 10 * j + k + l + m \in Nat
           /\ p = i /\ 10 * q + r + s + t < 10 * j + k + l + m =>
                  11 * p + 10 * q + r + s + t < 11 * i + 10 * j + k + l + m
           /\ p = i /\ q = j /\ r = k /\ ((s < l /\ t = m) \/ (s = l /\ t < m)) =>
                  11 * p + 10 * q + r + s + t < 11 * i + 10 * j + k + l + m
OBVIOUS

LEMMA PushSums ==
    ASSUME NEW i \in Nat, NEW j \in Nat, NEW k \in Nat, NEW l \in Nat, NEW m \in Nat,
           NEW p \in Nat, NEW q \in Nat, p + 1 <= i, q = j + 1
    PROVE  11 * p + 10 * q + k + l + m < 11 * i + 10 * j + k + l + m
OBVIOUS

\* Whatever fails, a node is done with the tasks it got after so many steps: no
\* verdict, nonce or slot is tried for again and again.
THEOREM StepsBounded ==
    IsFiniteSet(Task) => (Spec => [](StepsLeft \in 0 .. 22 * Cardinality(Task)) /\ StepsCounted)
<1> SUFFICES ASSUME IsFiniteSet(Task)
             PROVE  Spec => [](StepsLeft \in 0 .. 22 * Cardinality(Task)) /\ StepsCounted
  OBVIOUS
<1>1. TypeOK => StepsLeft \in Nat
  BY LeftTypes, PushesLeftType, LeftSums DEF StepsLeft
<1>6. TypeOK' => (StepsLeft \in Nat)'
  BY <1>1, PTL
<1>2. TypeOK /\ TypeOK' /\ [Next]_vars =>
          [/\ StepsLeft' <= StepsLeft
           /\ Threads \/ (\E r \in Roles : RunFunction(r)) => StepsLeft' < StepsLeft]_vars
  <2> SUFFICES ASSUME TypeOK, TypeOK', Next
               PROVE  \/ StepsLeft' < StepsLeft
                      \/ /\ StepsLeft' = StepsLeft
                         /\ \/ UNCHANGED vars
                            \/ ~Threads /\ ~\E r \in Roles : RunFunction(r)
    <3> SUFFICES ASSUME TypeOK, TypeOK', Next, ~UNCHANGED vars
                 PROVE  /\ StepsLeft' <= StepsLeft
                        /\ Threads \/ (\E r \in Roles : RunFunction(r)) => StepsLeft' < StepsLeft
      OBVIOUS
    <3>1. StepsLeft \in Nat /\ StepsLeft' \in Nat
      BY <1>1, <1>6
    <3> QED
      BY <3>1
  <2>0. /\ PushesLeft \in Nat /\ PushesLeft' \in Nat
        /\ Len(putQueue) \in Nat /\ Len(putQueue') \in Nat
        /\ MonitorLeft \in Nat /\ MonitorLeft' \in Nat
        /\ RoleLeft("alice") \in Nat /\ RoleLeft("bob") \in Nat
        /\ RoleLeft("alice")' \in Nat /\ RoleLeft("bob")' \in Nat
        /\ StepsLeft = 11 * PushesLeft + 10 * Len(putQueue) + MonitorLeft
                      + RoleLeft("alice") + RoleLeft("bob")
        /\ StepsLeft' = 11 * PushesLeft' + 10 * Len(putQueue') + MonitorLeft'
                      + RoleLeft("alice")' + RoleLeft("bob")'
    <3>1. /\ PushesLeft \in Nat /\ PushesLeft' \in Nat
      BY PushesLeftType, PushesLeftTypeNext
    <3>2. /\ Len(putQueue) \in Nat /\ MonitorLeft \in Nat
          /\ RoleLeft("alice") \in Nat /\ RoleLeft("bob") \in Nat
      BY LeftTypes
    <3>3. /\ Len(putQueue') \in Nat /\ MonitorLeft' \in Nat
          /\ RoleLeft("alice")' \in Nat /\ RoleLeft("bob")' \in Nat
      BY LeftTypesNext
    <3> QED
      BY <3>1, <3>2, <3>3 DEF StepsLeft
  <2>1. CASE Threads \/ \E r \in Roles : RunFunction(r)
    <3>1. CASE Monitor
      <4>1. PushesLeft' = PushesLeft
        BY <3>1, MonitorFalls DEF PushesLeft
      <4> QED
        BY <2>0, <3>1, <4>1, MonitorFalls, LeftSums
    <3>2. ASSUME NEW r \in Roles,
                 \/ FetchTask(r) \/ GetInput(r) \/ RunFunction(r) \/ Clear(r)
                 \/ r = "bob" /\ SendResult
          PROVE  StepsLeft' < StepsLeft
      <4>1. /\ RoleLeft(r)' < RoleLeft(r)
            /\ \A q \in Roles : q # r => RoleLeft(q)' = RoleLeft(q)
            /\ UNCHANGED <<pushes, putQueue, monTask>>
        BY <3>2, ProcessorFalls
      <4>2. PushesLeft' = PushesLeft /\ MonitorLeft' = MonitorLeft
        BY <4>1 DEF PushesLeft, MonitorLeft
      <4>3. \/ /\ RoleLeft("alice")' < RoleLeft("alice")
               /\ RoleLeft("bob")' = RoleLeft("bob")
            \/ /\ RoleLeft("alice")' = RoleLeft("alice")
               /\ RoleLeft("bob")' < RoleLeft("bob")
        BY <4>1, RoleFacts
      <4> QED
        BY <2>0, <4>1, <4>2, <4>3, LeftSums
    <3> QED
      BY <2>1, <3>1, <3>2, RoleFacts DEF Threads
  <2>2. ASSUME NEW t \in Task, PushPutTask(t) PROVE StepsLeft' < StepsLeft
    <3>1. /\ PushesLeft' + 1 <= PushesLeft /\ Len(putQueue') = Len(putQueue) + 1
          /\ UNCHANGED <<monTask, readyQueue, pc>>
      BY <2>2, PushFalls
    <3>2. /\ MonitorLeft' = MonitorLeft
          /\ RoleLeft("alice")' = RoleLeft("alice") /\ RoleLeft("bob")' = RoleLeft("bob")
      BY <3>1, RoleSame, RoleFacts DEF MonitorLeft
    <3>3. /\ 11 * PushesLeft' + 10 * Len(putQueue') + MonitorLeft'
                 + RoleLeft("alice")' + RoleLeft("bob")'
             < 11 * PushesLeft + 10 * Len(putQueue) + MonitorLeft
                 + RoleLeft("alice") + RoleLeft("bob")
      <4>1. 11 * PushesLeft' + 10 * Len(putQueue') + MonitorLeft
                   + RoleLeft("alice") + RoleLeft("bob")
               < 11 * PushesLeft + 10 * Len(putQueue) + MonitorLeft
                   + RoleLeft("alice") + RoleLeft("bob")
        BY <2>0, <3>1, PushSums
      <4> QED
        BY <3>2, <4>1
    <3> QED
      BY <2>0, <3>3
  <2>3. ASSUME UNCHANGED <<pushes, putQueue, monTask, readyQueue, pc>>
        PROVE  StepsLeft' = StepsLeft
    BY <2>3 DEF StepsLeft, PushesLeft, MonitorLeft, RoleLeft, LineLeft, RunLeft
  <2>4. ASSUME NEW t \in Task, AddRequest(t) PROVE StepsLeft' = StepsLeft
    BY <2>3, <2>4 DEF AddRequest, procVars
  <2>5. ASSUME OtherTransaction PROVE StepsLeft' = StepsLeft
    BY <2>3, <2>5 DEF OtherTransaction, queueVars, procVars
  <2> QED
    BY <2>1, <2>2, <2>4, <2>5 DEF Next, Threads
<1>3. Cardinality(Task) \in Nat
  BY FS_CardinalityType
<1>4. Init => StepsLeft \in 0 .. 22 * Cardinality(Task)
  <2> SUFFICES ASSUME Init PROVE StepsLeft \in 0 .. 22 * Cardinality(Task)
    OBVIOUS
  <2>1. TypeOK
    BY InitIInv DEF IInv
  <2>2. PushesLeft \in Nat /\ PushesLeft <= 2 * Cardinality(Task)
    <3> DEFINE f == [u \in Task |-> MaxPush - pushes[u]]
    <3>0. MaxPush = 2 /\ pushes \in [Task -> 0 .. MaxPush]
      BY <2>1 DEF MaxPush, TypeOK
    <3>1. MaxPush = 2 /\ f \in [Task -> 0 .. MaxPush]
      BY <3>0
    <3>2. PushesLeft = Total(Task, MaxPush, f)
      BY DEF PushesLeft
    <3> HIDE DEF f
    <3>3. /\ Total(Task, MaxPush, f) \in Nat
          /\ Total(Task, MaxPush, f) <= Cardinality(Task) * MaxPush
      BY <3>1, TotalMost
    <3> QED
      BY <1>3, <3>1, <3>2, <3>3
  <2>3. Len(putQueue) = 0 /\ MonitorLeft = 0 /\ RoleLeft("alice") = 0 /\ RoleLeft("bob") = 0
    BY RoleFacts DEF Init, MonitorLeft, RoleLeft, LineLeft, RunLeft
  <2> QED
    BY <1>3, <2>2, <2>3 DEF StepsLeft
<1>5. TypeOK /\ TypeOK' /\ [Next]_vars /\ StepsLeft \in 0 .. 22 * Cardinality(Task)
          => (StepsLeft \in 0 .. 22 * Cardinality(Task))'
  <2> SUFFICES ASSUME TypeOK, TypeOK', [Next]_vars, StepsLeft \in 0 .. 22 * Cardinality(Task)
               PROVE  StepsLeft' \in 0 .. 22 * Cardinality(Task)
    OBVIOUS
  <2>1. StepsLeft \in Nat /\ StepsLeft' \in Nat
    BY <1>1, <1>6
  <2>2. CASE UNCHANGED vars
    <3>1. StepsLeft' = StepsLeft
      BY <2>2 DEF vars, queueVars, procVars, StepsLeft, PushesLeft, MonitorLeft, RoleLeft,
         LineLeft, RunLeft
    <3> QED
      BY <3>1
  <2>3. CASE ~UNCHANGED vars
    <3>1. StepsLeft' <= StepsLeft
      BY <1>2, <2>3
    <3> QED
      BY <1>3, <2>1, <3>1
  <2> QED
    BY <2>2, <2>3
<1> QED
  BY <1>2, <1>4, <1>5, TypeCorrect, PTL DEF Spec, StepsCounted
=============================================================================
