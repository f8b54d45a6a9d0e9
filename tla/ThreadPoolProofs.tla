-------------------------- MODULE ThreadPoolProofs --------------------------
(***************************************************************************)
(* For every set of jobs, pool size and nesting of for_each: the types are *)
(* kept, no pool thread is inside a job whose for_each returned, no job    *)
(* has more helpers than its width allows, and a for_each that returned    *)
(* has run each task once.  The steps that run tasks keep the invariant of *)
(* ThreadPoolInvariant: a task that was handed out is in the hands of one  *)
(* runner or has finished once.                                            *)
(***************************************************************************)
EXTENDS ThreadPoolInvariant

-----------------------------------------------------------------------------
(* The steps of whoever runs a job's tasks. *)

\* The part about helpers: a runner that stays inside its job changes nothing of it.
LEMMA RunnerKeepsPool ==
    ASSUME Inv, NEW r \in Runner,
           pc[r] \in {"work", "task", "inner"},
           pc' = [pc EXCEPT ![r] = pc'[r]],
           \/ pc'[r] \in {"work", "task", "inner"}
           \/ r \in Worker /\ pc'[r] = "leave"
           \/ r \in Job /\ Pooled(r) /\ pc'[r] = "erase"
           \/ r \in Job /\ ~ Pooled(r) /\ pc'[r] = "done",
           UNCHANGED <<helping, queue, helpers>>,
           at' \in [Runner -> Nat], next' \in [Job -> Nat], errors' \in [Job -> SUBSET Nat],
           DOMAIN runs' = Job, \A j \in Job : runs'[j] \in [Index(j) -> Nat]
    PROVE  PoolInv'
<1>0. TypeOK /\ InsideInv /\ OwnerInv
  BY DEF Inv, PoolInv
<1>1. \A s \in Runner : s # r => pc'[s] = pc[s]
  BY <1>0 DEF TypeOK
<1>2. /\ pc' \in [Runner -> JobPc \cup WorkerPc]
      /\ \A j \in Job : pc'[j] \in JobPc
      /\ \A w \in Worker : pc'[w] \in WorkerPc
  <2>1. pc'[r] \in JobPc \cup WorkerPc
    BY DEF JobPc, WorkerPc
  <2>2. pc' \in [Runner -> JobPc \cup WorkerPc]
    BY Zenon, <2>1, <1>0 DEF TypeOK
  <2>3. ASSUME NEW j \in Job PROVE pc'[j] \in JobPc
    <3>1. CASE j = r
      BY <3>1, PoolAssumption DEF JobPc
    <3>2. CASE j # r
      BY <3>2, <1>0, <1>1 DEF TypeOK, Runner
    <3> QED
      BY <3>1, <3>2
  <2>4. ASSUME NEW w \in Worker PROVE pc'[w] \in WorkerPc
    <3>1. CASE w = r
      BY <3>1, PoolAssumption DEF WorkerPc
    <3>2. CASE w # r
      BY <3>2, <1>0, <1>1 DEF TypeOK, Runner
    <3> QED
      BY <3>1, <3>2
  <2> QED
    BY <2>2, <2>3, <2>4
<1>3. ASSUME NEW w \in Worker PROVE Inside(w)' <=> helping'[w] # NoJob
  <2>1. Inside(w)' <=> Inside(w)
    <3>1. CASE w = r
      BY <3>1, PoolAssumption DEF Inside
    <3>2. CASE w # r
      BY <3>2, <1>1 DEF Inside, Runner
    <3> QED
      BY <3>1, <3>2
  <2> QED
    BY <2>1, <1>0 DEF TypeOK
<1>4. TypeOK'
  BY <1>0, <1>2, <1>3 DEF TypeOK, Index
<1>5. OwnerInv'
  BY <1>0, <1>1, PoolAssumption DEF OwnerInv, Runner, Pooled
<1>6. \A j \in Job : pc[j] \in Queued /\ Pooled(j) => pc'[j] \in Queued
  BY <1>1, PoolAssumption DEF Queued, Runner
<1>7. \A j \in Job : Live(j) /\ HelpersOf(j) # {} => Live(j)'
  <2> SUFFICES ASSUME NEW j \in Job, Live(j), NEW w \in HelpersOf(j) PROVE pc'[j] \notin {"unborn", "done"}
    BY DEF Live
  <2>1. Pooled(j)
    BY <1>0, PoolAssumption DEF HelpersOf, InsideInv, TypeOK
  <2> QED
    BY <2>1, <1>1, PoolAssumption DEF Live, Runner
<1>8. PoolInv
  BY DEF Inv
<1> QED
  BY <1>4, <1>5, <1>6, <1>7, <1>8, KeepsPool

LEMMA ClaimKeeps ==
    ASSUME Inv, NEW r \in Runner, Claim(r)
    PROVE  Inv'
<1> USE PoolAssumption DEF Inv, TaskInv
<1>1. TypeOK
  BY DEF PoolInv
<1>2. PICK j \in Job : j = JobOf(r)
  BY <1>1, BusyJob DEF Claim
<1>3. PICK i \in Nat : i = next[j]
  BY <1>1 DEF TypeOK
<1>4. /\ pc[r] = "work"
      /\ next' = [next EXCEPT ![j] = i + 1]
      /\ UNCHANGED <<helping, queue, helpers, runs, errors>>
  BY <1>2, <1>3 DEF Claim
<1>5. N[j] \in Nat /\ next' \in [Job -> Nat] /\ \A k \in Job : next'[k] = IF k = j THEN i + 1 ELSE next[k]
  BY <1>1, <1>4 DEF TypeOK
<1>6. \A k \in Job : next[k] \in Nat /\ next'[k] \in Nat /\ next[k] <= next'[k]
  <2>1. \A k \in Job : next[k] \in Nat
    BY <1>1 DEF TypeOK
  <2> QED
    BY <2>1, <1>3, <1>5
<1>7. \A s \in Runner : JobOf(s)' = JobOf(s)
  BY <1>4 DEF JobOf
<1>8. at \in [Runner -> Nat] /\ errors \in [Job -> SUBSET Nat]
      /\ DOMAIN runs = Job /\ \A k \in Job : runs[k] \in [Index(k) -> Nat]
  BY <1>1 DEF TypeOK
<1>9. CASE i >= N[j]
  <2> DEFINE v == IF r \in Worker THEN "leave" ELSE IF Pooled(j) THEN "erase" ELSE "done"
  <2>1. pc' = [pc EXCEPT ![r] = v] /\ at' = at
    BY <1>2, <1>3, <1>9 DEF Claim
  <2>2. r \in Job => r = j
    BY <1>2 DEF JobOf
  <2>3. PoolInv'
    <3>2. at' \in [Runner -> Nat] /\ next' \in [Job -> Nat] /\ errors' \in [Job -> SUBSET Nat]
      BY <1>4, <1>5, <1>8, <2>1
    <3>3. DOMAIN runs' = Job /\ \A k \in Job : runs'[k] \in [Index(k) -> Nat]
      BY <1>4, <1>8
    <3>4. pc'[r] = v /\ pc' = [pc EXCEPT ![r] = pc'[r]]
      BY <1>1, <2>1 DEF TypeOK
    <3>5. \/ r \in Worker /\ pc'[r] = "leave"
          \/ r \in Job /\ Pooled(r) /\ pc'[r] = "erase"
          \/ r \in Job /\ ~ Pooled(r) /\ pc'[r] = "done"
      BY <2>2, <3>4 DEF Runner
    <3> QED
      BY <1>4, <3>2, <3>3, <3>4, <3>5, RunnerKeepsPool
  <2>4. \A s \in Runner : pc'[s] = IF s = r THEN v ELSE pc[s]
    BY <1>1, <2>1 DEF TypeOK
  <2>5. \A s \in Runner : Busy(s)' <=> Busy(s)
    BY <1>4, <2>4 DEF Busy
  <2>6. \A s \in Runner : \A k, m : AtTask(s, k, m)' <=> AtTask(s, k, m)
    BY <1>7, <2>1, <2>5 DEF AtTask, Busy
  <2>7. TakenInv'
    <3>1. \A s \in Runner : Busy(s) => JobOf(s) \in Job
      BY <1>1, BusyJob DEF Busy
    <3>2. ASSUME NEW s \in Runner, Busy(s)'
          PROVE  at'[s] \in Index(JobOf(s)) /\ at'[s] < next'[JobOf(s)]
      <4>1. at[s] \in Index(JobOf(s)) /\ at[s] < next[JobOf(s)]
        BY <3>2, <2>5 DEF TakenInv
      <4> QED
        BY <3>1, <3>2, <4>1, <1>6, <1>8, <2>1, <2>5
    <3> QED
      BY <3>2, <1>7, <2>1, <2>5 DEF TakenInv, Index
  <2>8. NestedInv'
    <3> SUFFICES ASSUME NEW k \in Job, NEW m \in Index(k), Sub[k][m] # NoJob, pc'[Sub[k][m]] # "unborn",
                        NEW s \in Runner
                 PROVE  m < next'[k] /\ (AtTask(s, k, m)' => pc'[s] = "inner")
      BY Zenon DEF NestedInv, Index, Runner
    <3>1. Sub[k][m] \in Job
      OBVIOUS
    <3>2. pc[Sub[k][m]] # "unborn"
      BY <3>1, <2>4, <1>4 DEF Runner
    <3>3. m < next[k] /\ (AtTask(s, k, m) => pc[s] = "inner")
      BY <3>2 DEF NestedInv
    <3>4. m \in Nat
      BY DEF Index
    <3> QED
      BY <3>3, <3>4, <1>4, <1>6, <2>4, <2>6
  <2>9. RunsInv'
    <3>1. \A k \in Job : \A m \in Index(k) : m < next'[k] <=> m < next[k]
      BY <1>3, <1>5, <1>6, <1>9 DEF Index
    <3>2. \A k \in Job : \A m \in Index(k) :
            runs'[k][m] = IF m < next'[k] /\ \A s \in Runner : ~ AtTask(s, k, m)' THEN 1 ELSE 0
      BY <3>1, <2>6, <1>4 DEF RunsInv
    <3>3. \A k \in Job : pc'[k] \in {"erase", "wait", "sleep", "done"} => next'[k] >= N[k]
      BY <1>3, <1>4, <1>5, <1>6, <1>9, <2>2, <2>4 DEF RunsInv, Runner
    <3> QED
      BY <3>2, <3>3 DEF RunsInv, Index
  <2> QED
    BY <2>3, <2>7, <2>8, <2>9
<1>10. CASE i < N[j]
  <2>1. pc' = [pc EXCEPT ![r] = "task"] /\ at' = [at EXCEPT ![r] = i] /\ i \in Index(j)
    BY <1>2, <1>3, <1>5, <1>10 DEF Claim, Index
  <2>2. PoolInv'
    <3>1. at' \in [Runner -> Nat]
      BY <1>8, <2>1
    <3>2. pc'[r] = "task" /\ pc' = [pc EXCEPT ![r] = pc'[r]]
      BY <1>1, <2>1 DEF TypeOK
    <3> QED
      BY <1>4, <1>5, <1>8, <3>1, <3>2, RunnerKeepsPool
  <2>3. \A s \in Runner : pc'[s] = IF s = r THEN "task" ELSE pc[s]
    BY <1>1, <2>1 DEF TypeOK
  <2>4. \A s \in Runner : at'[s] = IF s = r THEN i ELSE at[s]
    BY <1>8, <2>1
  <2>5. \A s \in Runner : Busy(s) => s # r /\ JobOf(s) \in Job /\ at[s] \in Nat
    BY <1>1, <1>4, <1>8, BusyJob DEF Busy
  <2>6. \A s \in Runner : Busy(s)' <=> s = r \/ Busy(s)
    BY <2>3 DEF Busy
  <2>7. \A s \in Runner : \A k, m : AtTask(s, k, m)' <=> AtTask(s, k, m) \/ (s = r /\ k = j /\ m = i)
    BY <1>2, <1>4, <1>7, <2>3, <2>4 DEF AtTask
  <2>8. TakenInv'
    <3>1. ASSUME NEW s \in Runner, Busy(s)'
          PROVE  at'[s] \in Index(JobOf(s)) /\ at'[s] < next'[JobOf(s)]
      <4>1. CASE s = r
        BY <4>1, <1>2, <1>5, <2>1, <2>4
      <4>2. CASE s # r
        <5>1. at[s] \in Index(JobOf(s)) /\ at[s] < next[JobOf(s)]
          BY <3>1, <4>2, <2>6 DEF TakenInv
        <5> QED
          BY <3>1, <4>2, <5>1, <1>6, <2>4, <2>5, <2>6
      <4> QED
        BY <4>1, <4>2
    <3>2. ASSUME NEW s \in Runner, Busy(s) PROVE ~ (JobOf(s) = j /\ at[s] = i)
      BY <3>2, <1>3, <2>5 DEF TakenInv
    <3>3. ASSUME NEW s \in Runner, NEW t \in Runner, Busy(s)', Busy(t)', JobOf(s) = JobOf(t), at'[s] = at'[t]
          PROVE  s = t
      BY <3>2, <3>3, <1>2, <2>4, <2>6 DEF TakenInv
    <3> QED
      BY <3>1, <3>3, <1>7 DEF TakenInv, Index
  <2>9. NestedInv'
    <3> SUFFICES ASSUME NEW k \in Job, NEW m \in Index(k), Sub[k][m] # NoJob, pc'[Sub[k][m]] # "unborn",
                        NEW s \in Runner
                 PROVE  m < next'[k] /\ (AtTask(s, k, m)' => pc'[s] = "inner")
      BY DEF NestedInv, Index, Runner
    <3>1. Sub[k][m] \in Job
      OBVIOUS
    <3>2. pc[Sub[k][m]] # "unborn"
      BY <3>1, <2>3, <1>4 DEF Runner
    <3>3. m < next[k] /\ (AtTask(s, k, m) => pc[s] = "inner")
      BY <3>2 DEF NestedInv
    <3>4. m \in Nat
      BY DEF Index
    <3>5. ~ (k = j /\ m = i)
      BY <3>3, <3>4, <1>3
    <3>6. m < next'[k]
      BY <3>3, <3>4, <1>6
    <3>7. AtTask(s, k, m)' => AtTask(s, k, m) /\ s # r
      BY Zenon, <3>5, <2>7, <1>4 DEF AtTask
    <3> QED
      BY <3>3, <3>6, <3>7, <2>3
  <2>10. RunsInv'
    <3>1. ASSUME NEW k \in Job, NEW m \in Index(k)
          PROVE  runs'[k][m] = IF m < next'[k] /\ \A s \in Runner : ~ AtTask(s, k, m)' THEN 1 ELSE 0
      <4>0. runs[k][m] = IF m < next[k] /\ \A s \in Runner : ~ AtTask(s, k, m) THEN 1 ELSE 0
        BY DEF RunsInv
      <4>1. CASE k = j /\ m = i
        BY <4>0, <4>1, <1>3, <1>4, <2>7
      <4>2. CASE ~ (k = j /\ m = i)
        <5>1. m < next'[k] <=> m < next[k]
          BY <4>2, <1>3, <1>5, <1>6 DEF Index
        <5> QED
          BY <4>0, <4>2, <5>1, <1>4, <2>7
      <4> QED
        BY <4>1, <4>2
    <3>2. \A k \in Job : pc'[k] \in {"erase", "wait", "sleep", "done"} => next'[k] >= N[k]
      BY <1>3, <1>4, <1>5, <1>6, <2>3 DEF RunsInv, Runner
    <3> QED
      BY <3>1, <3>2 DEF RunsInv, Index
  <2> QED
    BY <2>2, <2>8, <2>9, <2>10
<1> QED
  BY <1>3, <1>5, <1>9, <1>10

\* A task ends: its index has now run once, and its runner takes another.
LEMMA FinishKeeps ==
    ASSUME Inv, NEW r \in Runner, pc[r] \in {"task", "inner"}, NEW threw \in BOOLEAN, Finish(r, threw)
    PROVE  Inv'
<1> USE PoolAssumption DEF Inv, TaskInv
<1>1. TypeOK
  BY DEF PoolInv
<1>2. PICK j \in Job : j = JobOf(r)
  BY <1>1, BusyJob
<1>3. PICK i \in Index(j) : i = at[r] /\ i < next[j]
  BY <1>2 DEF TakenInv, Busy
<1>4. /\ runs' = [runs EXCEPT ![j] = [runs[j] EXCEPT ![i] = runs[j][i] + 1]]
      /\ errors' = IF threw THEN [errors EXCEPT ![j] = @ \cup {i}] ELSE errors
      /\ pc' = [pc EXCEPT ![r] = "work"]
      /\ at' = [at EXCEPT ![r] = 0]
      /\ UNCHANGED <<helping, queue, next, helpers>>
  BY <1>2, <1>3 DEF Finish
<1>5. i \in Nat
  BY DEF Index
<1>6. /\ \A s \in Runner : pc'[s] = IF s = r THEN "work" ELSE pc[s]
      /\ \A s \in Runner : at'[s] = IF s = r THEN 0 ELSE at[s]
  BY <1>1, <1>4 DEF TypeOK
<1>7. \A s \in Runner : JobOf(s)' = JobOf(s)
  BY <1>4 DEF JobOf
<1>8. \A k \in Job : \A m \in Index(k) : runs'[k][m] = IF k = j /\ m = i THEN runs[k][m] + 1 ELSE runs[k][m]
  BY <1>1, <1>4 DEF TypeOK
<1>9. PoolInv'
  <2>1. at' \in [Runner -> Nat] /\ next' \in [Job -> Nat]
    BY <1>1, <1>4 DEF TypeOK
  <2>2. errors' \in [Job -> SUBSET Nat]
    BY <1>1, <1>4, <1>5 DEF TypeOK
  <2>3. DOMAIN runs' = Job /\ \A k \in Job : runs'[k] \in [Index(k) -> Nat]
    <3>1. runs[j] \in [Index(j) -> Nat] /\ DOMAIN runs = Job
      BY <1>1 DEF TypeOK
    <3>2. [runs[j] EXCEPT ![i] = runs[j][i] + 1] \in [Index(j) -> Nat]
      BY <3>1
    <3> QED
      BY <1>1, <3>1, <3>2, <1>4 DEF TypeOK
  <2>4. pc'[r] = "work" /\ pc' = [pc EXCEPT ![r] = pc'[r]]
    BY <1>1, <1>4 DEF TypeOK
  <2>5. UNCHANGED <<helping, queue, helpers>>
    BY <1>4
  <2> QED
    BY <2>1, <2>2, <2>3, <2>4, <2>5, RunnerKeepsPool
<1>10. \A s \in Runner : Busy(s)' <=> s # r /\ Busy(s)
  BY <1>6 DEF Busy
<1>11. \A s \in Runner : \A k, m : AtTask(s, k, m)' <=> s # r /\ AtTask(s, k, m)
  BY <1>6, <1>7 DEF AtTask
<1>12. TakenInv'
  BY <1>4, <1>6, <1>7, <1>10 DEF TakenInv, Index
<1>13. NestedInv'
  <2> SUFFICES ASSUME NEW k \in Job, NEW m \in Index(k), Sub[k][m] # NoJob, pc'[Sub[k][m]] # "unborn",
                      NEW s \in Runner
               PROVE  m < next'[k] /\ (AtTask(s, k, m)' => pc'[s] = "inner")
    BY DEF NestedInv, Index, Runner
  <2>1. Sub[k][m] \in Job
    OBVIOUS
  <2>2. pc[Sub[k][m]] # "unborn"
    BY <2>1, <1>6 DEF Runner
  <2>3. m < next[k] /\ (AtTask(s, k, m) => pc[s] = "inner")
    BY <2>2 DEF NestedInv
  <2> QED
    BY <2>3, <1>4, <1>6, <1>11
<1>14. RunsInv'
  <2>1. ASSUME NEW k \in Job, NEW m \in Index(k)
        PROVE  runs'[k][m] = IF m < next'[k] /\ \A s \in Runner : ~ AtTask(s, k, m)' THEN 1 ELSE 0
    <3>1. runs[k][m] = IF m < next[k] /\ \A s \in Runner : ~ AtTask(s, k, m) THEN 1 ELSE 0
      BY DEF RunsInv
    <3>2. CASE k = j /\ m = i
      <4>1. AtTask(r, j, i)
        BY <1>2, <1>3 DEF AtTask
      <4>2. \A s \in Runner : AtTask(s, j, i) => s = r
        BY <1>2, <1>3 DEF AtTask, TakenInv, Busy
      <4>3. runs'[j][i] = 1
        BY <4>1, <3>1, <3>2, <1>8
      <4> QED
        BY <4>2, <4>3, <3>2, <1>3, <1>4, <1>11
    <3>3. CASE ~ (k = j /\ m = i)
      <4>1. ~ AtTask(r, k, m)
        BY <3>3, <1>2, <1>3 DEF AtTask
      <4> QED
        BY <3>1, <3>3, <4>1, <1>4, <1>8, <1>11
    <3> QED
      BY <3>2, <3>3
  <2>2. \A k \in Job : pc'[k] \in {"erase", "wait", "sleep", "done"} => next'[k] >= N[k]
    BY <1>4, <1>6 DEF RunsInv, Runner
  <2> QED
    BY <2>1, <2>2 DEF RunsInv, Index
<1> QED
  BY <1>9, <1>12, <1>13, <1>14

\* A task calls for_each: the nested job had not been called for by anyone.
LEMMA CallNestedKeeps ==
    ASSUME Inv, NEW r \in Runner, CallNested(r)
    PROVE  Inv'
<1> USE PoolAssumption DEF Inv, TaskInv
<1>1. TypeOK
  BY DEF PoolInv
<1>2. pc[r] = "task" /\ UNCHANGED <<helping, at, queue, next, helpers, runs, errors>>
  BY DEF CallNested
<1>3. PICK j \in Job : j = JobOf(r)
  BY <1>1, <1>2, BusyJob
<1>4. PICK i \in Index(j) : i = at[r] /\ i < next[j]
  BY <1>2, <1>3 DEF TakenInv, Busy
<1>5. AtTask(r, j, i)
  BY <1>2, <1>3, <1>4 DEF AtTask
<1>6. PICK k \in Job : k = Sub[j][i]
  BY <1>3, <1>4 DEF CallNested
<1>7. k # NoJob /\ pc' = Called([pc EXCEPT ![r] = "inner"], k)
  BY <1>3, <1>4, <1>6 DEF CallNested
<1>8. pc[k] = "unborn" /\ k # r
  BY <1>2, <1>5, <1>6, <1>7 DEF NestedInv
<1>9. \A n \in Job : pc'[n] = IF n = k THEN (IF Pooled(k) THEN "push" ELSE "work")
                                ELSE IF n = r THEN "inner" ELSE pc[n]
  BY <1>1, <1>7 DEF Called, Runner, TypeOK
<1>10. \A w \in Worker :
         \/ w = r /\ pc'[w] = "inner"
         \/ w # r /\ pc'[w] = pc[w]
         \/ w # r /\ pc[w] = "none" /\ pc'[w] = "idle"
  BY <1>1, <1>7 DEF Called, Runner, TypeOK
<1>11. TypeOK'
  <2>1. pc' \in [Runner -> JobPc \cup WorkerPc]
    BY <1>1, <1>7 DEF Called, TypeOK, Runner, JobPc, WorkerPc
  <2>2. \A n \in Job : pc'[n] \in JobPc
    BY Zenon, <1>1, <1>9 DEF TypeOK, JobPc
  <2>3. \A w \in Worker : pc'[w] \in WorkerPc
    BY Zenon, <1>1, <1>10 DEF TypeOK, WorkerPc
  <2>4. \A w \in Worker : Inside(w)' <=> helping'[w] # NoJob
    BY Zenon, <1>1, <1>2, <1>10 DEF TypeOK, Inside
  <2> QED
    BY <1>1, <1>2, <2>1, <2>2, <2>3, <2>4 DEF TypeOK, Index
<1>12. OwnerInv'
  BY <1>9 DEF OwnerInv, Pooled, PoolInv
<1>13. PoolInv'
  <2>1. \A n \in Job : pc[n] \in Queued => pc'[n] \in Queued
    BY <1>8, <1>9 DEF Queued
  <2>2. \A n \in Job : Live(n) => Live(n)'
    BY <1>8, <1>9 DEF Live
  <2> QED
    BY <1>2, <1>11, <1>12, <2>1, <2>2, KeepsPool
<1>14. \A s \in Runner : JobOf(s)' = JobOf(s)
  BY <1>2 DEF JobOf
<1>15. \A s \in Runner : Busy(s)' <=> Busy(s)
  BY <1>2, <1>8, <1>9, <1>10 DEF Busy, Runner
<1>16. \A s \in Runner : \A n, m : AtTask(s, n, m)' <=> AtTask(s, n, m)
  BY <1>2, <1>14, <1>15 DEF AtTask, Busy
<1>17. TakenInv'
  BY <1>2, <1>14, <1>15 DEF TakenInv, Index
<1>18. NestedInv'
  <2> SUFFICES ASSUME NEW n \in Job, NEW m \in Index(n), Sub[n][m] # NoJob, pc'[Sub[n][m]] # "unborn",
                      NEW s \in Runner
               PROVE  m < next[n] /\ (AtTask(s, n, m) => pc'[s] = "inner")
    <3>1. \A n \in Job : \A m \in Index(n) : \A s \in Runner : AtTask(s, n, m)' <=> AtTask(s, n, m)
      BY <1>16
    <3>2. next' = next /\ Runner # {}
      BY <1>2
    <3> QED
      BY <3>1, <3>2 DEF NestedInv, Index
  <2>1. Sub[n][m] \in Job
    OBVIOUS
  <2>2. CASE Sub[n][m] = k
    <3>1. n = j /\ m = i
      BY <2>2, <1>6, OneCaller
    <3>2. AtTask(s, n, m) => s = r
      BY <3>1, <1>5 DEF AtTask, TakenInv, Busy
    <3>3. pc'[r] = "inner"
      BY <1>8, <1>9, <1>10 DEF Runner
    <3> QED
      BY <3>1, <3>2, <3>3, <1>4
  <2>3. CASE Sub[n][m] # k
    <3>1. pc[Sub[n][m]] # "unborn"
      BY <2>1, <2>3, <1>2, <1>9
    <3>2. m < next[n] /\ (AtTask(s, n, m) => pc[s] = "inner")
      BY <3>1 DEF NestedInv
    <3>3. pc[s] = "inner" => pc'[s] = "inner"
      BY <1>8, <1>9, <1>10 DEF Runner
    <3> QED
      BY <3>2, <3>3
  <2> QED
    BY <2>2, <2>3
<1>19. RunsInv'
  <2>1. \A n \in Job : pc'[n] \in {"erase", "wait", "sleep", "done"}
                        => pc[n] \in {"erase", "wait", "sleep", "done"}
    BY <1>9
  <2> QED
    BY <2>1, <1>2, <1>16 DEF RunsInv, Index
<1> QED
  BY <1>13, <1>17, <1>18, <1>19

-----------------------------------------------------------------------------
(* The theorems. *)

\* Every step keeps the inductive invariant.
LEMMA NextInv == Inv /\ [Next]_vars => Inv'
<1> SUFFICES ASSUME Inv, [Next]_vars PROVE Inv'
  OBVIOUS
<1>1. ASSUME NEW j \in Job, Call(j) \/ OwnerStep(j) PROVE Inv'
  BY <1>1, CallKeeps, PushKeeps, NotifyKeeps, EraseKeeps, WaitKeeps DEF OwnerStep
<1>2. ASSUME NEW w \in Worker, WorkerStep(w) PROVE Inv'
  BY <1>2, JoinKeeps, SleepKeeps, LeaveKeeps DEF WorkerStep
<1>3. ASSUME NEW r \in Runner, TaskStep(r) PROVE Inv'
  <2>1. CASE Claim(r)
    BY <2>1, ClaimKeeps
  <2>2. CASE RunLeaf(r)
    <3>1. PICK threw \in BOOLEAN : Finish(r, threw)
      <4>1. CASE <<JobOf(r), at[r]>> \in Fails
        <5>1. Finish(r, TRUE)
          BY <2>2, <4>1 DEF RunLeaf, Finish
        <5> QED
          BY Zenon, <5>1
      <4>2. CASE <<JobOf(r), at[r]>> \notin Fails
        <5>1. Finish(r, FALSE)
          BY <2>2, <4>2 DEF RunLeaf, Finish
        <5> QED
          BY Zenon, <5>1
      <4> QED
        BY <4>1, <4>2
    <3>2. pc[r] \in {"task", "inner"}
      BY <2>2 DEF RunLeaf
    <3> QED
      BY <3>1, <3>2, FinishKeeps
  <2>3. CASE CallNested(r)
    BY <2>3, CallNestedKeeps
  <2>4. CASE ReturnNested(r)
    <3>1. PICK threw \in BOOLEAN : Finish(r, threw)
      BY Zenon, <2>4 DEF ReturnNested
    <3>2. pc[r] \in {"task", "inner"}
      BY <2>4 DEF ReturnNested
    <3> QED
      BY <3>1, <3>2, FinishKeeps
  <2> QED
    BY <1>3, <2>1, <2>2, <2>3, <2>4 DEF TaskStep
<1>4. CASE UNCHANGED vars
  <2>1. UNCHANGED <<pc, helping, at, queue, next, helpers, runs, errors>>
    BY <1>4 DEF vars
  <2>2. TypeOK' /\ OwnerInv'
    BY <2>1 DEF Inv, PoolInv, TypeOK, OwnerInv, Inside, Index, Pooled
  <2>3. PoolInv'
    BY <2>1, <2>2, KeepsPool DEF Inv, Live
  <2>4. TaskInv'
    BY <2>1, KeepsTasks DEF JobOf
  <2> QED
    BY <2>3, <2>4 DEF Inv
<1> QED
  BY <1>1, <1>2, <1>3, <1>4 DEF Next

\* The inductive invariant holds in every behaviour of the pool.
THEOREM PoolInvariant == Spec => []Inv
<1> QED
  BY InitInv, NextInv, PTL DEF Spec

\* The pool's variables keep their types, whatever the jobs and the threads.
THEOREM TypeCorrect == Spec => []TypeOK
<1>1. Inv => TypeOK
  BY DEF Inv, PoolInv
<1> QED
  BY <1>1, PoolInvariant, PTL

\* No pool thread is inside a for_each that returned, and the queue points at none: Pool::run takes the job
\* off the queue and then waits for helpers to be zero, and Pool::loop counts itself in under the lock.
THEOREM NoUseAfterReturnHolds == Spec => []NoUseAfterReturn
<1>1. Inv => NoUseAfterReturn
  BY DEF Inv, PoolInv, NoUseAfterReturn, InsideInv, QueueInv, Queued, Live
<1> QED
  BY <1>1, PoolInvariant, PTL

\* No for_each is helped by more threads than its width.
THEOREM HelpersBoundedHolds == Spec => []HelpersBounded
<1>1. Inv => HelpersBounded
  BY DEF Inv, PoolInv
<1> QED
  BY <1>1, PoolInvariant, PTL

\* When for_each returns each of its tasks has finished, once.
THEOREM EachTaskOnceHolds == Spec => []EachTaskOnce
<1>1. Inv => EachTaskOnce
  <2> SUFFICES ASSUME Inv, NEW j \in Job, pc[j] = "done", NEW i \in Index(j)
               PROVE  runs[j][i] = 1 /\ \A r \in Runner : ~ AtTask(r, j, i)
    BY DEF EachTaskOnce
  <2>1. TypeOK
    BY DEF Inv, PoolInv
  <2>2. next[j] >= N[j] /\ i \in Nat /\ next[j] \in Nat /\ N[j] \in Nat /\ i < N[j]
    <3>1. next[j] \in Nat
      BY <2>1 DEF TypeOK
    <3>2. N[j] \in Nat
      BY PoolAssumption
    <3>3. next[j] >= N[j]
      BY DEF Inv, TaskInv, RunsInv
    <3> QED
      BY <3>1, <3>2, <3>3 DEF Index
  <2>3. \A r \in Runner : ~ AtTask(r, j, i)
    BY <2>1, PoolAssumption DEF AtTask, JobOf, Inv, PoolInv, InsideInv, Inside, Live, Runner
  <2>4. runs[j][i] = IF i < next[j] /\ \A r \in Runner : ~ AtTask(r, j, i) THEN 1 ELSE 0
    BY DEF Inv, TaskInv, RunsInv
  <2>5. i < next[j]
    BY <2>2
  <2> QED
    BY <2>3, <2>4, <2>5
<1> QED
  BY <1>1, PoolInvariant, PTL
=============================================================================
