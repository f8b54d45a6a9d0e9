------------------------- MODULE ThreadPoolInvariant -------------------------
(***************************************************************************)
(* The inductive invariant of the thread pool, and the lemmas that the     *)
(* steps of a job's owner and of the pool's threads keep it.               *)
(*                                                                         *)
(* The argument: a pool thread joins a job only while the queue points at  *)
(* it; the caller takes it off the queue before it waits, so from then on  *)
(* the helpers only leave; the caller returns when their count, which is   *)
(* the number of pool threads inside, is zero.                             *)
(***************************************************************************)
EXTENDS ThreadPool, FiniteSetTheorems, TLAPS

HelpersOf(j) == {w \in Worker : helping[w] = j}

\* Job::helpers counts the pool threads inside the job.
HelperCount == \A j \in Job : helpers[j] = Cardinality(HelpersOf(j))

Queued == {"notify", "work", "task", "inner", "erase"}

\* The queue points once at each of its jobs: pooled ones whose owner has not yet taken them off it.
QueueInv ==
    /\ \A k \in 1 .. Len(queue) : Pooled(queue[k]) /\ pc[queue[k]] \in Queued
    /\ \A k, m \in 1 .. Len(queue) : queue[k] = queue[m] => k = m

\* Only a pooled job's owner goes through the queue.
OwnerInv ==
    \A j \in Job : pc[j] \in {"push", "notify", "erase", "wait", "sleep"} => Pooled(j)

\* A pool thread is inside a pooled, live job.
InsideInv == \A w \in Worker : Inside(w) => Pooled(helping[w]) /\ Live(helping[w])

Busy(r) == pc[r] \in {"task", "inner"}

\* A task in progress was handed out, to one runner.
TakenInv ==
    /\ \A r \in Runner : Busy(r) => at[r] \in Index(JobOf(r)) /\ at[r] < next[JobOf(r)]
    /\ \A r, s \in Runner : Busy(r) /\ Busy(s) /\ JobOf(r) = JobOf(s) /\ at[r] = at[s] => r = s

\* A nested job starts only once its task has been handed out and has called for it.
NestedInv ==
    \A j \in Job : \A i \in Index(j) :
        Sub[j][i] # NoJob /\ pc[Sub[j][i]] # "unborn" =>
            i < next[j] /\ \A r \in Runner : AtTask(r, j, i) => pc[r] = "inner"

\* A task that was handed out is in progress or has finished once; an owner that stopped working has seen
\* the last index handed out.
RunsInv ==
    /\ \A j \in Job : \A i \in Index(j) :
         runs[j][i] = IF i < next[j] /\ \A r \in Runner : ~ AtTask(r, j, i) THEN 1 ELSE 0
    /\ \A j \in Job : pc[j] \in {"erase", "wait", "sleep", "done"} => next[j] >= N[j]

\* The inductive invariant, in the part about helpers and the part about tasks.
PoolInv == TypeOK /\ HelperCount /\ QueueInv /\ InsideInv /\ OwnerInv /\ HelpersBounded
TaskInv == TakenInv /\ NestedInv /\ RunsInv
Inv == PoolInv /\ TaskInv

-----------------------------------------------------------------------------
(* Facts about the definitions. *)

LEMMA MaxHelpersNat ==
    ASSUME NEW j \in Job, Pooled(j)
    PROVE  MaxHelpers(j) \in Nat
BY PoolAssumption DEF Pooled, MaxHelpers

LEMMA HelpersOfFinite ==
    ASSUME NEW j \in Job
    PROVE  IsFiniteSet(HelpersOf(j)) /\ Cardinality(HelpersOf(j)) \in Nat
<1>1. HelpersOf(j) \subseteq Worker
  BY DEF HelpersOf
<1> QED
  BY <1>1, PoolAssumption, FS_Subset, FS_CardinalityType

\* A job nobody counts as a helper of has no pool thread inside it.
LEMMA NoHelpers ==
    ASSUME TypeOK, HelperCount, NEW j \in Job, helpers[j] = 0, NEW w \in Worker
    PROVE  helping[w] # j
<1>1. HelpersOf(j) = {}
  BY HelpersOfFinite, FS_EmptySet DEF HelperCount
<1> QED
  BY <1>1 DEF HelpersOf

\* The runner of a task, and the task, are where TypeOK says.
LEMMA BusyJob ==
    ASSUME TypeOK, NEW r \in Runner, pc[r] \in {"work", "task", "inner", "leave"}
    PROVE  JobOf(r) \in Job
BY DEF TypeOK, Runner, JobOf, Inside

-----------------------------------------------------------------------------
(* What a step keeps when it does not touch one of the two parts. *)

\* A step that leaves helping, helpers and queue alone, and keeps every queued or helped job live.
LEMMA KeepsPool ==
    ASSUME PoolInv, TypeOK', OwnerInv', UNCHANGED <<helping, helpers, queue>>,
           \A j \in Job : pc[j] \in Queued /\ Pooled(j) => pc'[j] \in Queued,
           \A j \in Job : Live(j) /\ HelpersOf(j) # {} => Live(j)'
    PROVE  PoolInv'
<1>1. HelperCount' /\ HelpersBounded'
  BY DEF PoolInv, HelperCount, HelpersOf, HelpersBounded, Pooled, MaxHelpers
<1>2. QueueInv'
  <2>1. \A k \in 1 .. Len(queue) : queue[k] \in Job
    BY DEF PoolInv, TypeOK
  <2> QED
    BY <2>1 DEF PoolInv, QueueInv, Pooled
<1>3. InsideInv'
  <2> SUFFICES ASSUME NEW w \in Worker, Inside(w)'
               PROVE  Pooled(helping[w]) /\ Live(helping[w])'
    BY DEF InsideInv, Live, Pooled
  <2>1. helping[w] \in Job /\ Inside(w)
    BY DEF TypeOK, PoolInv
  <2>2. HelpersOf(helping[w]) # {}
    BY DEF HelpersOf
  <2> QED
    BY <2>1, <2>2 DEF PoolInv, InsideInv
<1> QED
  BY <1>1, <1>2, <1>3 DEF PoolInv

\* A step that hands out and finishes no task, and starts no job but an outside thread's.
LEMMA KeepsTasks ==
    ASSUME Inv, UNCHANGED <<at, next, runs>>,
           \A r \in Runner : Busy(r) \/ Busy(r)' => pc'[r] = pc[r] /\ JobOf(r)' = JobOf(r),
           \A j \in Job : pc'[j] = "unborn" <=> pc[j] = "unborn" /\ pc'[j] = pc[j],
           \A j \in Job : pc[j] = "unborn" /\ pc'[j] # "unborn" => j \in Roots,
           \A j \in Job : pc'[j] \in {"erase", "wait", "sleep", "done"}
                            => pc[j] \in {"erase", "wait", "sleep", "done"}
    PROVE  TaskInv'
<1> USE PoolAssumption DEF Inv, PoolInv, TaskInv
<1>1. \A r \in Runner : Busy(r)' <=> Busy(r)
  BY DEF Busy
<1>2. \A r \in Runner : \A j, i : AtTask(r, j, i)' <=> AtTask(r, j, i)
  BY DEF Busy, AtTask
<1>3. TakenInv'
  BY <1>1 DEF TakenInv, Index
<1>4. NestedInv'
  <2> SUFFICES ASSUME NEW j \in Job, NEW i \in Index(j), Sub[j][i] # NoJob, pc'[Sub[j][i]] # "unborn",
                      NEW r \in Runner
               PROVE  i < next[j] /\ (AtTask(r, j, i)' => pc'[r] = "inner")
    BY DEF NestedInv, Index, Runner
  <2>1. Sub[j][i] \in Job /\ Sub[j][i] \notin Roots
    BY DEF Roots
  <2>2. pc[Sub[j][i]] # "unborn"
    BY <2>1
  <2>3. i < next[j] /\ (AtTask(r, j, i) => pc[r] = "inner")
    BY <2>2 DEF NestedInv
  <2> QED
    BY <2>3, <1>2 DEF AtTask, Busy
<1>5. RunsInv'
  BY <1>2 DEF RunsInv, Index
<1> QED
  BY <1>3, <1>4, <1>5

-----------------------------------------------------------------------------
(* One lemma per action. *)

LEMMA InitInv == Init => Inv
<1> SUFFICES ASSUME Init PROVE Inv
  OBVIOUS
<1>1. TypeOK
  BY PoolAssumption DEF Init, TypeOK, Runner, JobPc, WorkerPc, Inside
<1>2. ASSUME NEW j \in Job PROVE HelpersOf(j) = {}
  BY PoolAssumption DEF Init, HelpersOf
<1>3. HelperCount
  BY Zenon, <1>2, FS_EmptySet DEF Init, HelperCount
<1>4. QueueInv
  BY DEF Init, QueueInv
<1>5. InsideInv /\ OwnerInv
  BY PoolAssumption DEF Init, InsideInv, Inside, Runner, OwnerInv
<1>6. HelpersBounded
  BY <1>2, FS_EmptySet, MaxHelpersNat DEF HelpersBounded, HelpersOf
<1>7. \A r \in Runner : ~ Busy(r)
  BY PoolAssumption DEF Init, Busy, Runner
<1>8. TakenInv
  BY <1>7 DEF TakenInv
<1>9. NestedInv
  BY PoolAssumption DEF Init, NestedInv, Runner
<1>10. RunsInv
  BY PoolAssumption DEF Init, RunsInv, Index, Runner
<1> QED
  BY <1>1, <1>3, <1>4, <1>5, <1>6, <1>8, <1>9, <1>10 DEF Inv, PoolInv, TaskInv

\* An outside thread's call.
LEMMA CallKeeps ==
    ASSUME Inv, NEW j \in Job, Call(j)
    PROVE  Inv'
<1> USE PoolAssumption DEF Inv, PoolInv
<1>1. TypeOK'
  BY DEF Call, Called, TypeOK, Inside, JobPc, WorkerPc, Runner
<1>2. OwnerInv'
  BY DEF Call, Called, OwnerInv, Runner, Pooled
<1>3. \A k \in Job : pc'[k] = IF k = j THEN (IF Pooled(j) THEN "push" ELSE "work") ELSE pc[k]
  BY DEF Call, Called, Runner
<1>4. \A w \in Worker : pc'[w] = pc[w] \/ (pc[w] = "none" /\ pc'[w] = "idle")
  BY DEF Call, Called, Runner
<1>5. PoolInv'
  <2>1. UNCHANGED <<helping, helpers, queue>> /\ pc[j] = "unborn"
    BY DEF Call
  <2>2. \A k \in Job : pc[k] \in Queued => pc'[k] \in Queued
    BY <1>3, <2>1 DEF Queued
  <2>3. \A k \in Job : Live(k) => Live(k)'
    BY <1>3, <2>1 DEF Live
  <2> QED
    BY <1>1, <1>2, <2>1, <2>2, <2>3, KeepsPool
<1>6. TaskInv'
  <2>1. UNCHANGED <<at, next, runs, helping>> /\ pc[j] = "unborn" /\ j \in Roots
    BY DEF Call
  <2>2. \A r \in Runner : Busy(r) \/ Busy(r)' => pc'[r] = pc[r] /\ JobOf(r)' = JobOf(r)
    BY <2>1, <1>3, <1>4 DEF Busy, Runner, JobOf
  <2> QED
    BY <2>1, <2>2, <1>3, KeepsTasks
<1> QED
  BY <1>5, <1>6

\* Push puts a job that is not queued on the queue.
LEMMA PushKeeps ==
    ASSUME Inv, NEW j \in Job, Push(j)
    PROVE  Inv'
<1> USE PoolAssumption DEF Inv, PoolInv
<1>1. TypeOK'
  BY DEF Push, TypeOK, Inside, JobPc, WorkerPc, Runner
<1>2. \A r \in Runner : pc'[r] = IF r = j THEN "notify" ELSE pc[r]
  BY DEF Push, TypeOK
<1>3. pc[j] = "push" /\ Pooled(j) /\ UNCHANGED <<helping, at, next, helpers, runs>>
  BY DEF Push, OwnerInv
<1>4. OwnerInv'
  BY <1>2, <1>3 DEF OwnerInv, Runner, Pooled
<1>5. HelperCount' /\ HelpersBounded'
  BY <1>3 DEF HelperCount, HelpersOf, HelpersBounded, Pooled, MaxHelpers
<1>6. QueueInv'
  <2>1. \A k \in 1 .. Len(queue) : queue[k] \in Job /\ queue[k] # j
    <3>1. \A k \in 1 .. Len(queue) : queue[k] \in Job
      BY DEF TypeOK
    <3> QED
      BY <3>1, <1>3 DEF QueueInv, Queued
  <2>2. /\ Len(queue') = Len(queue) + 1
        /\ \A k \in 1 .. Len(queue') : queue'[k] = IF k <= Len(queue) THEN queue[k] ELSE j
    <3>1. queue \in Seq(Job) /\ queue' = Append(queue, j)
      BY DEF Push, TypeOK
    <3> QED
      BY <3>1
  <2>3. Len(queue) \in Nat
    BY DEF TypeOK
  <2>4. ASSUME NEW k \in 1 .. Len(queue') PROVE Pooled(queue'[k]) /\ pc'[queue'[k]] \in Queued
    <3>1. CASE k <= Len(queue)
      <4>1. k \in 1 .. Len(queue) /\ queue'[k] = queue[k]
        BY <3>1, <2>2, <2>3
      <4>2. pc'[queue[k]] = pc[queue[k]]
        BY <4>1, <2>1, <1>2 DEF Runner
      <4> QED
        BY <4>1, <4>2 DEF QueueInv
    <3>2. CASE ~ (k <= Len(queue))
      <4>1. queue'[k] = j /\ pc'[j] = "notify"
        BY <3>2, <2>2, <1>2 DEF Runner
      <4> QED
        BY <4>1, <1>3 DEF Queued
    <3> QED
      BY <3>1, <3>2
  <2>5. ASSUME NEW k \in 1 .. Len(queue'), NEW m \in 1 .. Len(queue'), queue'[k] = queue'[m] PROVE k = m
    BY <2>1, <2>2, <2>3, <2>5 DEF QueueInv
  <2> QED
    BY <2>4, <2>5 DEF QueueInv, Pooled
<1>7. InsideInv'
  <2> SUFFICES ASSUME NEW w \in Worker, Inside(w)'
               PROVE  Pooled(helping[w]) /\ Live(helping[w])'
    BY <1>3 DEF InsideInv, Live, Pooled
  <2>1. Inside(w) /\ helping[w] \in Job
    BY Zenon, <1>2, <1>3 DEF Inside, Runner, TypeOK
  <2> QED
    BY <2>1, <1>2, <1>3 DEF InsideInv, Live, Runner
<1>8. TaskInv'
  <2>1. \A r \in Runner : Busy(r) \/ Busy(r)' => pc'[r] = pc[r] /\ JobOf(r)' = JobOf(r)
    BY <1>2, <1>3 DEF Busy, JobOf
  <2> QED
    BY <2>1, <1>2, <1>3, KeepsTasks DEF Runner
<1> QED
  BY <1>1, <1>4, <1>5, <1>6, <1>7, <1>8

\* Waking the pool threads changes no job.
LEMMA NotifyKeeps ==
    ASSUME Inv, NEW j \in Job, Notify(j)
    PROVE  Inv'
<1> USE PoolAssumption DEF Inv, PoolInv
<1>1. TypeOK'
  BY DEF Notify, TypeOK, Inside, JobPc, WorkerPc, Runner
<1>2. \A k \in Job : pc'[k] = IF k = j THEN "work" ELSE pc[k]
  BY DEF Notify, Runner
<1>3. \A w \in Worker : pc'[w] = pc[w] \/ (pc[w] = "asleep" /\ pc'[w] = "idle")
  BY DEF Notify, Runner
<1>4. UNCHANGED <<helping, at, queue, next, helpers, runs>> /\ pc[j] = "notify"
  BY DEF Notify
<1>5. OwnerInv'
  BY <1>2 DEF OwnerInv, Pooled
<1>6. PoolInv'
  <2>1. \A k \in Job : pc[k] \in Queued => pc'[k] \in Queued
    BY <1>2, <1>4 DEF Queued
  <2>2. \A k \in Job : Live(k) => Live(k)'
    BY <1>2, <1>4 DEF Live
  <2> QED
    BY <1>1, <1>4, <1>5, <2>1, <2>2, KeepsPool
<1>7. TaskInv'
  <2>1. \A r \in Runner : Busy(r) \/ Busy(r)' => pc'[r] = pc[r] /\ JobOf(r)' = JobOf(r)
    BY <1>2, <1>3, <1>4 DEF Busy, JobOf, Runner
  <2> QED
    BY <2>1, <1>2, <1>4, KeepsTasks
<1> QED
  BY <1>6, <1>7

\* Taking the job off the queue: the queue held it once.
LEMMA EraseKeeps ==
    ASSUME Inv, NEW j \in Job, Erase(j)
    PROVE  Inv'
<1> USE PoolAssumption DEF Inv, PoolInv
<1>1. \A r \in Runner : pc'[r] = IF r = j THEN "wait" ELSE pc[r]
  BY DEF Erase, TypeOK
<1>2. pc[j] = "erase" /\ Pooled(j) /\ UNCHANGED <<helping, at, next, helpers, runs, errors>>
  BY DEF Erase, OwnerInv
<1>3. \A k \in 1 .. Len(queue) : queue[k] \in Job
  BY DEF TypeOK
<1>4. Len(queue) \in Nat
  BY DEF TypeOK
<1>5. /\ queue' \in Seq(Job)
      /\ \A k \in 1 .. Len(queue') : queue'[k] # j
      /\ \A k \in 1 .. Len(queue') : \E m \in 1 .. Len(queue) : queue'[k] = queue[m]
      /\ \A k, m \in 1 .. Len(queue') : queue'[k] = queue'[m] => k = m
  <2>1. CASE Positions(j) = {}
    <3>1. queue' = queue
      BY <2>1 DEF Erase
    <3> QED
      BY Zenon, <2>1, <3>1 DEF TypeOK, QueueInv, Positions
  <2>2. CASE Positions(j) # {}
    <3>1. PICK p \in 1 .. Len(queue) : queue[p] = j
      BY <2>2 DEF Positions
    <3>2. FirstPosition(j) = p
      <4>1. Positions(j) = {p}
        BY <3>1 DEF Positions, QueueInv
      <4> QED
        BY <4>1, <1>4 DEF FirstPosition
    <3>3. queue' = [m \in 1 .. Len(queue) - 1 |-> IF m < p THEN queue[m] ELSE queue[m + 1]]
      BY <2>2, <3>2 DEF Erase, Without
    <3>4. \A m \in 1 .. Len(queue) - 1 : m \in 1 .. Len(queue) /\ m + 1 \in 1 .. Len(queue)
      BY <1>4
    <3>5. queue' \in [1 .. Len(queue) - 1 -> Job]
      BY <3>3, <3>4, <1>3
    <3>6. Len(queue) - 1 \in Nat
      BY <3>1, <1>4
    <3>7. queue' \in Seq(Job) /\ Len(queue') = Len(queue) - 1
      BY <3>5, <3>6
    <3>8. \A k \in 1 .. Len(queue') : queue'[k] = IF k < p THEN queue[k] ELSE queue[k + 1]
      BY <3>3, <3>7
    <3>9. \A k, m \in 1 .. Len(queue) : queue[k] = queue[m] => k = m
      BY DEF QueueInv
    <3> DEFINE from(k) == IF k < p THEN k ELSE k + 1
    <3>10. \A k \in 1 .. Len(queue') : from(k) \in 1 .. Len(queue) /\ from(k) # p /\ queue'[k] = queue[from(k)]
      BY <3>4, <3>7, <3>8
    <3>11. \A k, m \in 1 .. Len(queue') : from(k) = from(m) => k = m
      BY <3>7, <1>4
    <3> HIDE DEF from
    <3>12. \A k \in 1 .. Len(queue') : queue'[k] # j /\ \E m \in 1 .. Len(queue) : queue'[k] = queue[m]
      BY <3>1, <3>9, <3>10
    <3>13. \A k, m \in 1 .. Len(queue') : queue'[k] = queue'[m] => k = m
      BY <3>9, <3>10, <3>11
    <3> QED
      BY Zenon, <3>7, <3>12, <3>13
  <2> QED
    BY Zenon, <2>1, <2>2
<1>6. TypeOK'
  BY <1>1, <1>2, <1>5 DEF Erase, TypeOK, Inside, JobPc, WorkerPc, Runner
<1>7. OwnerInv'
  BY <1>1, <1>2 DEF OwnerInv, Runner, Pooled
<1>8. HelperCount' /\ HelpersBounded'
  BY <1>2 DEF HelperCount, HelpersOf, HelpersBounded, Pooled, MaxHelpers
<1>9. QueueInv'
  <2>1. ASSUME NEW k \in 1 .. Len(queue') PROVE Pooled(queue'[k]) /\ pc'[queue'[k]] \in Queued
    <3>1. PICK m \in 1 .. Len(queue) : queue'[k] = queue[m]
      BY Zenon, <1>5
    <3>2. queue'[k] # j
      BY <1>5
    <3> QED
      BY <3>1, <3>2, <1>1, <1>3 DEF QueueInv, Runner
  <2> QED
    BY <2>1, <1>5 DEF QueueInv, Pooled
<1>10. InsideInv'
  <2> SUFFICES ASSUME NEW w \in Worker, Inside(w)'
               PROVE  Pooled(helping[w]) /\ Live(helping[w])'
    BY <1>2 DEF InsideInv, Live, Pooled
  <2>1. Inside(w) /\ helping[w] \in Job
    BY Zenon, <1>1, <1>2 DEF Inside, Runner, TypeOK
  <2> QED
    BY <2>1, <1>1, <1>2 DEF InsideInv, Live, Runner
<1>11. TaskInv'
  <2>1. \A r \in Runner : Busy(r) \/ Busy(r)' => pc'[r] = pc[r] /\ JobOf(r)' = JobOf(r)
    BY <1>1, <1>2 DEF Busy, JobOf
  <2> QED
    BY <2>1, <1>1, <1>2, KeepsTasks DEF Runner
<1> QED
  BY <1>6, <1>7, <1>8, <1>9, <1>10, <1>11

\* The caller returns only when the count says that no pool thread is inside.
LEMMA WaitKeeps ==
    ASSUME Inv, NEW j \in Job, Wait(j)
    PROVE  Inv'
<1> USE PoolAssumption DEF Inv, PoolInv
<1>1. \A r \in Runner : pc'[r] = IF r = j THEN (IF helpers[j] = 0 THEN "done" ELSE "sleep") ELSE pc[r]
  BY DEF Wait, TypeOK
<1>2. pc[j] = "wait" /\ UNCHANGED <<helping, at, queue, next, helpers, runs, errors>>
  BY DEF Wait
<1>3. TypeOK'
  BY <1>1, <1>2 DEF Wait, TypeOK, Inside, JobPc, WorkerPc, Runner
<1>4. OwnerInv'
  BY <1>1, <1>2 DEF OwnerInv, Runner, Pooled
<1>5. PoolInv'
  <2>1. \A k \in Job : pc[k] \in Queued => pc'[k] \in Queued
    BY <1>1, <1>2 DEF Queued, Runner
  <2>2. \A k \in Job : Live(k) /\ HelpersOf(k) # {} => Live(k)'
    BY <1>1, NoHelpers DEF Live, HelpersOf, Runner
  <2> QED
    BY <1>2, <1>3, <1>4, <2>1, <2>2, KeepsPool
<1>6. TaskInv'
  <2>1. \A r \in Runner : Busy(r) \/ Busy(r)' => pc'[r] = pc[r] /\ JobOf(r)' = JobOf(r)
    BY <1>1, <1>2 DEF Busy, JobOf
  <2> QED
    BY <2>1, <1>1, <1>2, KeepsTasks DEF Runner
<1> QED
  BY <1>5, <1>6

-----------------------------------------------------------------------------
(* The pool's threads. *)

\* Joining adds one helper to a queued job with room for it.
LEMMA JoinKeeps ==
    ASSUME Inv, NEW w \in Worker, Join(w)
    PROVE  Inv'
<1> USE PoolAssumption DEF Inv, PoolInv
<1>1. PICK j \in Job :
         /\ \E k \in 1 .. Len(queue) : queue[k] = j
         /\ Eligible(j)
         /\ helpers' = [helpers EXCEPT ![j] = @ + 1]
         /\ helping' = [helping EXCEPT ![w] = j]
  <2>1. \A k \in 1 .. Len(queue) : queue[k] \in Job
    BY DEF TypeOK
  <2> QED
    BY Zenon, <2>1 DEF Join
<1>2. j \in Job
  OBVIOUS
<1>3. Pooled(j) /\ Live(j)
  BY <1>1 DEF QueueInv, Queued, Live
<1>4. helpers[j] < MaxHelpers(j)
  BY <1>1 DEF Eligible
<1>5. /\ helpers' = [helpers EXCEPT ![j] = @ + 1]
      /\ helping' = [helping EXCEPT ![w] = j]
  BY <1>1
<1>6. pc[w] = "idle" /\ helping[w] = NoJob /\ pc' = [pc EXCEPT ![w] = "work"]
  BY Zenon DEF Join, TypeOK, Inside
<1>7. UNCHANGED <<at, queue, next, runs, errors>>
  BY DEF Join
<1>8. \A r \in Runner : pc'[r] = IF r = w THEN "work" ELSE pc[r]
  BY <1>6 DEF TypeOK
<1>9. \A u \in Worker : helping'[u] = IF u = w THEN j ELSE helping[u]
  BY <1>5 DEF TypeOK
<1>10. TypeOK'
  BY <1>2, <1>5, <1>6, <1>7, <1>8, <1>9 DEF TypeOK, Inside, JobPc, WorkerPc, Runner
<1>11. OwnerInv' /\ QueueInv'
  <2>1. \A i \in Job : pc'[i] = pc[i]
    BY <1>8 DEF Runner
  <2>2. \A m \in 1 .. Len(queue) : queue[m] \in Job
    BY DEF TypeOK
  <2> QED
    BY <2>1, <2>2, <1>7 DEF OwnerInv, QueueInv, Pooled
<1>12. InsideInv'
  <2>1. \A i \in Job : pc'[i] = pc[i]
    BY <1>8 DEF Runner
  <2> SUFFICES ASSUME NEW u \in Worker, Inside(u)'
               PROVE  Pooled(helping'[u]) /\ pc'[helping'[u]] \notin {"unborn", "done"}
    BY DEF InsideInv, Pooled, Live
  <2>2. CASE u = w
    BY <2>1, <2>2, <1>2, <1>3, <1>9 DEF Live
  <2>3. CASE u # w
    <3>1. Inside(u) /\ helping'[u] = helping[u] /\ helping[u] \in Job
      BY <2>3, <1>8, <1>9 DEF Inside, Runner, TypeOK
    <3> QED
      BY <3>1, <2>1 DEF InsideInv, Live
  <2> QED
    BY <2>2, <2>3
<1>13. HelperCount' /\ HelpersBounded'
  <2>1. HelpersOf(j)' = HelpersOf(j) \cup {w}
    BY <1>9 DEF HelpersOf
  <2>2. w \notin HelpersOf(j)
    BY <1>2, <1>6 DEF HelpersOf
  <2>3. Cardinality(HelpersOf(j)') = Cardinality(HelpersOf(j)) + 1
    BY Zenon, <1>2, <2>1, <2>2, HelpersOfFinite, FS_AddElement
  <2>4. \A i \in Job : i # j => HelpersOf(i)' = HelpersOf(i)
    BY <1>6, <1>9 DEF HelpersOf
  <2>5. HelperCount'
    BY <1>2, <1>5, <2>3, <2>4 DEF HelperCount, TypeOK
  <2>6. HelpersBounded'
    <3> SUFFICES ASSUME NEW i \in Job
                 PROVE  Cardinality(HelpersOf(i)') <= IF Pooled(i) THEN MaxHelpers(i) ELSE 0
      BY DEF HelpersBounded, HelpersOf, Pooled, MaxHelpers
    <3>1. CASE i = j
      BY <3>1, <1>2, <1>3, <1>4, <2>3, MaxHelpersNat, HelpersOfFinite DEF HelperCount
    <3>2. CASE i # j
      BY Zenon, <3>2, <2>4 DEF HelpersBounded, HelpersOf
    <3> QED
      BY <3>1, <3>2
  <2> QED
    BY <2>5, <2>6
<1>14. TaskInv'
  <2>1. \A r \in Runner : Busy(r) \/ Busy(r)' => pc'[r] = pc[r] /\ JobOf(r)' = JobOf(r)
    BY <1>6, <1>8, <1>9 DEF Busy, JobOf, Runner
  <2>2. \A i \in Job : pc'[i] = pc[i]
    BY <1>8 DEF Runner
  <2> QED
    BY <2>1, <2>2, <1>7, KeepsTasks
<1> QED
  BY <1>10, <1>11, <1>12, <1>13, <1>14

LEMMA SleepKeeps ==
    ASSUME Inv, NEW w \in Worker, Sleep(w)
    PROVE  Inv'
<1> USE PoolAssumption DEF Inv, PoolInv
<1>1. \A r \in Runner : pc'[r] = IF r = w THEN "asleep" ELSE pc[r]
  BY DEF Sleep, TypeOK
<1>2. pc[w] = "idle" /\ UNCHANGED <<helping, at, queue, next, helpers, runs, errors>>
  BY DEF Sleep
<1>3. \A j \in Job : pc'[j] = pc[j]
  BY <1>1 DEF Runner
<1>4. TypeOK'
  BY <1>1, <1>2 DEF Sleep, TypeOK, Inside, JobPc, WorkerPc, Runner
<1>5. OwnerInv'
  BY <1>3 DEF OwnerInv, Pooled
<1>6. PoolInv'
  BY <1>2, <1>3, <1>4, <1>5, KeepsPool DEF Live
<1>7. TaskInv'
  <2>1. \A r \in Runner : Busy(r) \/ Busy(r)' => pc'[r] = pc[r] /\ JobOf(r)' = JobOf(r)
    BY <1>1, <1>2 DEF Busy, JobOf
  <2> QED
    BY <2>1, <1>2, <1>3, KeepsTasks
<1> QED
  BY <1>6, <1>7

\* Leaving takes one helper off the count, and wakes the owner if it sleeps on it.
LEMMA LeaveKeeps ==
    ASSUME Inv, NEW w \in Worker, Leave(w)
    PROVE  Inv'
<1> USE PoolAssumption DEF Inv, PoolInv
<1>1. PICK j \in Job : j = helping[w]
  BY DEF Leave, TypeOK, Inside
<1>2. /\ pc[w] = "leave"
      /\ helpers' = [helpers EXCEPT ![j] = @ - 1]
      /\ helping' = [helping EXCEPT ![w] = NoJob]
      /\ pc' = [pc EXCEPT ![w] = "idle", ![j] = IF @ = "sleep" THEN "wait" ELSE @]
      /\ UNCHANGED <<at, queue, next, runs, errors>>
  BY <1>1 DEF Leave
<1>3. \A u \in Worker : pc'[u] = IF u = w THEN "idle" ELSE pc[u]
  BY <1>2 DEF TypeOK, Runner
<1>4. \A i \in Job : pc'[i] = IF i = j /\ pc[i] = "sleep" THEN "wait" ELSE pc[i]
  BY <1>2 DEF TypeOK, Runner
<1>5. \A u \in Worker : helping'[u] = IF u = w THEN NoJob ELSE helping[u]
  BY <1>2 DEF TypeOK
<1>6. HelpersOf(j)' = HelpersOf(j) \ {w} /\ w \in HelpersOf(j)
  BY <1>1, <1>5 DEF HelpersOf
<1>7. /\ Cardinality(HelpersOf(j)') = Cardinality(HelpersOf(j)) - 1
      /\ Cardinality(HelpersOf(j)') \in Nat
  <2>1. IsFiniteSet(HelpersOf(j)) /\ IsFiniteSet(HelpersOf(j)')
    BY <1>6, HelpersOfFinite, FS_RemoveElement
  <2> QED
    BY <2>1, <1>6, FS_RemoveElement, FS_CardinalityType
<1>8. \A i \in Job : i # j => HelpersOf(i)' = HelpersOf(i)
  BY <1>1, <1>5 DEF HelpersOf
<1>9. helpers[j] = Cardinality(HelpersOf(j))
  BY DEF HelperCount
<1>10. \A i \in Job : helpers'[i] = IF i = j THEN helpers[i] - 1 ELSE helpers[i]
  BY <1>2 DEF TypeOK
<1>11. TypeOK'
  <2>1. helpers' \in [Job -> Nat]
    BY <1>2, <1>7, <1>9, <1>10 DEF TypeOK
  <2>2. helping' \in [Worker -> Job \cup {NoJob}]
    BY <1>2 DEF TypeOK
  <2>3. /\ pc' \in [Runner -> JobPc \cup WorkerPc]
        /\ \A i \in Job : pc'[i] \in JobPc
        /\ \A u \in Worker : pc'[u] \in WorkerPc
    BY Zenon, <1>2, <1>3, <1>4 DEF TypeOK, JobPc, WorkerPc, Runner
  <2>4. \A u \in Worker : Inside(u)' <=> helping'[u] # NoJob
    BY Zenon, <1>3, <1>5 DEF TypeOK, Inside
  <2> QED
    BY Zenon, <2>1, <2>2, <2>3, <2>4, <1>2 DEF TypeOK
<1>12. OwnerInv'
  BY <1>4 DEF OwnerInv, Pooled
<1>13. QueueInv'
  <2>1. \A m \in 1 .. Len(queue) : queue[m] \in Job
    BY DEF TypeOK
  <2>2. \A i \in Job : pc[i] \in Queued => pc'[i] \in Queued
    BY <1>4 DEF Queued
  <2> QED
    BY Zenon, <2>1, <2>2, <1>2 DEF QueueInv, Pooled
<1>14. InsideInv'
  <2> SUFFICES ASSUME NEW u \in Worker, Inside(u)'
               PROVE  Pooled(helping'[u]) /\ pc'[helping'[u]] \notin {"unborn", "done"}
    BY DEF InsideInv, Pooled, Live
  <2>1. Inside(u) /\ helping'[u] = helping[u] /\ helping[u] \in Job
    BY <1>3, <1>5 DEF Inside, TypeOK
  <2> QED
    BY <2>1, <1>4 DEF InsideInv, Live
<1>15. HelperCount'
  BY <1>7, <1>8, <1>9, <1>10 DEF HelperCount
<1>16. HelpersBounded'
  <2> SUFFICES ASSUME NEW i \in Job
               PROVE  Cardinality(HelpersOf(i)') <= IF Pooled(i) THEN MaxHelpers(i) ELSE 0
    BY DEF HelpersBounded, HelpersOf, Pooled, MaxHelpers
  <2>1. Cardinality(HelpersOf(i)) <= IF Pooled(i) THEN MaxHelpers(i) ELSE 0
    BY Zenon DEF HelpersBounded, HelpersOf
  <2>2. CASE i = j
    BY <2>1, <2>2, <1>7, HelpersOfFinite, MaxHelpersNat
  <2>3. CASE i # j
    BY <2>1, <2>3, <1>8
  <2> QED
    BY <2>2, <2>3
<1>17. TaskInv'
  <2>1. ASSUME NEW r \in Runner, Busy(r) \/ Busy(r)'
        PROVE  pc'[r] = pc[r] /\ JobOf(r)' = JobOf(r)
    <3>1. CASE r \in Job
      BY <2>1, <3>1, <1>4 DEF Busy, JobOf
    <3>2. CASE r \in Worker
      <4>1. pc'[r] = pc[r] /\ helping'[r] = helping[r]
        <5>1. pc[w] = "leave" /\ pc'[w] = "idle"
          BY Zenon, <1>2, <1>3
        <5> QED
          BY <2>1, <3>2, <5>1, <1>3, <1>5 DEF Busy
      <4> QED
        BY <4>1 DEF JobOf
    <3> QED
      BY <3>1, <3>2 DEF Runner
  <2>2. UNCHANGED <<at, next, runs>>
    BY <1>2
  <2>3. \A i \in Job : pc'[i] = pc[i] \/ (pc[i] = "sleep" /\ pc'[i] = "wait")
    BY <1>4
  <2> QED
    BY <2>1, <2>2, <2>3, KeepsTasks
<1> QED
  BY <1>11, <1>12, <1>13, <1>14, <1>15, <1>16, <1>17
=============================================================================
