----------------------------- MODULE ThreadPool -----------------------------
(***************************************************************************)
(* base/parallel.cpp: for_each(n, task) spread over a process-wide pool.   *)
(*                                                                         *)
(* A Job lives on its caller's stack.  The caller pushes it on the pool's  *)
(* queue, wakes the pool threads, takes tasks itself until none is left,   *)
(* removes the job from the queue and waits for every helper to leave.     *)
(* Tasks may call for_each again (a nested job).                           *)
(*                                                                         *)
(* The thread that owns a job is the one that called for_each: an outside  *)
(* thread, or the runner of the enclosing task, which stays inside that    *)
(* task until the nested job returns.  A job's owner is therefore named by *)
(* the job itself, and the "runners" are the jobs (their owners) and the   *)
(* pool's threads.                                                         *)
(***************************************************************************)
EXTENDS Naturals, Sequences, FiniteSets

CONSTANTS
    Job,      \* the for_each calls of the program
    Worker,   \* the pool's threads, once it is sized
    Threads,  \* threads(): how wide one for_each may run, its caller included
    N,        \* N[j]: how many tasks job j has
    Sub,      \* Sub[j][i]: the job task i of j calls for_each for, or NoJob
    Fails,    \* the tasks <<j, i>> whose own code throws
    NoJob

Runner == Job \cup Worker
Index(j) == 0 .. N[j] - 1

\* The for_each calls made by outside threads, not by a task.
Roots == {j \in Job : \A k \in Job : \A i \in Index(k) : Sub[k][i] # j}

ASSUME PoolAssumption ==
    /\ IsFiniteSet(Worker)
    /\ Threads \in Nat
    /\ Job \cap Worker = {}
    /\ NoJob \notin Job
    /\ N \in [Job -> Nat]
    /\ DOMAIN Sub = Job
    /\ \A j \in Job : Sub[j] \in [Index(j) -> Job \cup {NoJob}]

\* A job is called for by one task at most.
ASSUME OneCaller ==
    \A j, k \in Job : \A i \in Index(j), m \in Index(k) :
        Sub[j][i] = Sub[k][m] /\ Sub[j][i] # NoJob => j = k /\ i = m

\* for_each's width, less the caller: how many pool threads may help.
MaxHelpers(j) == (IF Threads <= N[j] THEN Threads ELSE N[j]) - 1
Pooled(j) == Threads > 1 /\ N[j] > 1

VARIABLES
    pc,       \* pc[r]: where runner r is
    helping,  \* helping[w]: the job pool thread w is inside, or NoJob
    at,       \* at[r]: the index of the task r is in (0 outside a task)
    queue,    \* Pool::queue_, guarded by Pool::mutex_
    next,     \* Job::next, the next task index to hand out
    helpers,  \* Job::helpers, the pool threads inside the job
    runs,     \* runs[j][i]: how often task i of j has finished
    errors    \* errors[j]: the task indices of j whose exception was kept

vars == <<pc, helping, at, queue, next, helpers, runs, errors>>

JobPc == {"unborn", "push", "notify", "work", "task", "inner", "erase", "wait", "sleep", "done"}
WorkerPc == {"none", "idle", "asleep", "work", "task", "inner", "leave"}

JobOf(r) == IF r \in Job THEN r ELSE helping[r]

Init ==
    /\ pc = [r \in Runner |-> IF r \in Job THEN "unborn" ELSE "none"]
    /\ helping = [w \in Worker |-> NoJob]
    /\ at = [r \in Runner |-> 0]
    /\ queue = <<>>
    /\ next = [j \in Job |-> 0]
    /\ helpers = [j \in Job |-> 0]
    /\ runs = [j \in Job |-> [i \in Index(j) |-> 0]]
    /\ errors = [j \in Job |-> {}]

-----------------------------------------------------------------------------
(* for_each: build the job and size the pool; a job one thread wide runs   *)
(* in its caller alone.  pcs is the program counters of the caller's step. *)

Called(pcs, j) ==
    [r \in Runner |->
        IF r = j THEN (IF Pooled(j) THEN "push" ELSE "work")
        ELSE IF Pooled(j) /\ r \in Worker /\ pcs[r] = "none" THEN "idle"
        ELSE pcs[r]]

\* An outside thread calls for_each.
Call(j) ==
    /\ j \in Roots
    /\ pc[j] = "unborn"
    /\ pc' = Called(pc, j)
    /\ UNCHANGED <<helping, at, queue, next, helpers, runs, errors>>

\* Pool::run, first critical section.
Push(j) ==
    /\ pc[j] = "push"
    /\ queue' = Append(queue, j)
    /\ pc' = [pc EXCEPT ![j] = "notify"]
    /\ UNCHANGED <<helping, at, next, helpers, runs, errors>>

\* Wrong form of Notify: one sleeping thread is woken, not all.
NotifyOne(j) ==
    /\ pc[j] = "notify"
    /\ \E w \in Worker :
         /\ pc[w] = "asleep" \/ \A u \in Worker : pc[u] # "asleep"
         /\ pc' = [pc EXCEPT ![j] = "work", ![w] = IF @ = "asleep" THEN "idle" ELSE @]
    /\ UNCHANGED <<helping, at, queue, next, helpers, runs, errors>>

\* wake_.notify_all, after the lock is released.
Notify(j) ==
    /\ pc[j] = "notify"
    /\ pc' = [r \in Runner |->
                IF r = j THEN "work"
                ELSE IF r \in Worker /\ pc[r] = "asleep" THEN "idle"
                ELSE pc[r]]
    /\ UNCHANGED <<helping, at, queue, next, helpers, runs, errors>>

\* Wrong form of Claim: the bound is off by one, so the last index is never handed out.
ClaimShort(r) ==
    LET j == JobOf(r)
        i == next[j]
        stop == IF r \in Worker THEN "leave" ELSE IF Pooled(j) THEN "erase" ELSE "done"
    IN  /\ pc[r] = "work"
        /\ next' = [next EXCEPT ![j] = i + 1]
        /\ IF i + 1 >= N[j]
           THEN /\ pc' = [pc EXCEPT ![r] = stop]
                /\ UNCHANGED at
           ELSE /\ pc' = [pc EXCEPT ![r] = "task"]
                /\ at' = [at EXCEPT ![r] = i]
        /\ UNCHANGED <<helping, queue, helpers, runs, errors>>

\* Job::work: take the next index; past the last one, stop working.
Claim(r) ==
    LET j == JobOf(r)
        i == next[j]
        stop == IF r \in Worker THEN "leave" ELSE IF Pooled(j) THEN "erase" ELSE "done"
    IN  /\ pc[r] = "work"
        /\ next' = [next EXCEPT ![j] = i + 1]
        /\ IF i >= N[j]
           THEN /\ pc' = [pc EXCEPT ![r] = stop]
                /\ UNCHANGED at
           ELSE /\ pc' = [pc EXCEPT ![r] = "task"]
                /\ at' = [at EXCEPT ![r] = i]
        /\ UNCHANGED <<helping, queue, helpers, runs, errors>>

\* Task i of j is over; threw says whether an exception escaped it.
Finish(r, threw) ==
    LET j == JobOf(r)
        i == at[r]
    IN  /\ runs' = [runs EXCEPT ![j][i] = @ + 1]
        /\ errors' = IF threw THEN [errors EXCEPT ![j] = @ \cup {i}] ELSE errors
        /\ pc' = [pc EXCEPT ![r] = "work"]
        /\ at' = [at EXCEPT ![r] = 0]
        /\ UNCHANGED <<helping, queue, next, helpers>>

\* A task without a for_each of its own.
RunLeaf(r) ==
    /\ pc[r] = "task"
    /\ Sub[JobOf(r)][at[r]] = NoJob
    /\ Finish(r, <<JobOf(r), at[r]>> \in Fails)

\* A task calls for_each: its runner becomes the owner of the nested job.
CallNested(r) ==
    LET k == Sub[JobOf(r)][at[r]]
    IN  /\ pc[r] = "task"
        /\ k # NoJob
        /\ pc' = Called([pc EXCEPT ![r] = "inner"], k)
        /\ UNCHANGED <<helping, at, queue, next, helpers, runs, errors>>

\* Wrong form of ReturnNested: an error of the nested for_each is swallowed.
ReturnNestedSilent(r) ==
    LET k == Sub[JobOf(r)][at[r]]
    IN  /\ pc[r] = "inner"
        /\ pc[k] = "done"
        /\ Finish(r, <<JobOf(r), at[r]>> \in Fails)

\* The nested for_each returned, or rethrew one of its errors.
ReturnNested(r) ==
    LET k == Sub[JobOf(r)][at[r]]
    IN  /\ pc[r] = "inner"
        /\ pc[k] = "done"
        /\ Finish(r, errors[k] # {} \/ <<JobOf(r), at[r]>> \in Fails)

\* std::find and erase: the queue without the first pointer to j.
Positions(j) == {k \in 1 .. Len(queue) : queue[k] = j}
FirstPosition(j) == CHOOSE k \in Positions(j) : \A m \in Positions(j) : k <= m
Without(q, k) == [m \in 1 .. Len(q) - 1 |-> IF m < k THEN q[m] ELSE q[m + 1]]

\* Pool::run, second critical section.
Erase(j) ==
    /\ pc[j] = "erase"
    /\ queue' = IF Positions(j) = {} THEN queue ELSE Without(queue, FirstPosition(j))
    /\ pc' = [pc EXCEPT ![j] = "wait"]
    /\ UNCHANGED <<helping, at, next, helpers, runs, errors>>

\* Wrong form of Wait: the caller returns without waiting for the helpers.
WaitNoHelpers(j) ==
    /\ pc[j] = "wait"
    /\ pc' = [pc EXCEPT ![j] = "done"]
    /\ UNCHANGED <<helping, at, queue, next, helpers, runs, errors>>

\* job.left.wait: under left_mutex, return when no helper is inside, else sleep.
Wait(j) ==
    /\ pc[j] = "wait"
    /\ pc' = [pc EXCEPT ![j] = IF helpers[j] = 0 THEN "done" ELSE "sleep"]
    /\ UNCHANGED <<helping, at, queue, next, helpers, runs, errors>>

\* Wrong form of Eligible: the width is not looked at.
EligibleAnyWidth(j) == next[j] < N[j]

Eligible(j) == next[j] < N[j] /\ helpers[j] < MaxHelpers(j)

\* Pool::loop under mutex_: join the first job of the queue that has a task left and room for a helper,
\* or sleep on wake_.
Join(w) ==
    /\ pc[w] = "idle"
    /\ \E k \in 1 .. Len(queue) :
         /\ Eligible(queue[k])
         /\ \A m \in 1 .. k - 1 : ~ Eligible(queue[m])
         /\ helpers' = [helpers EXCEPT ![queue[k]] = @ + 1]
         /\ helping' = [helping EXCEPT ![w] = queue[k]]
    /\ pc' = [pc EXCEPT ![w] = "work"]
    /\ UNCHANGED <<at, queue, next, runs, errors>>

Sleep(w) ==
    /\ pc[w] = "idle"
    /\ \A k \in 1 .. Len(queue) : ~ Eligible(queue[k])
    /\ pc' = [pc EXCEPT ![w] = "asleep"]
    /\ UNCHANGED <<helping, at, queue, next, helpers, runs, errors>>

\* Wrong form of Leave: the helper leaves without notifying the owner.
LeaveSilently(w) ==
    LET j == helping[w]
    IN  /\ pc[w] = "leave"
        /\ helpers' = [helpers EXCEPT ![j] = @ - 1]
        /\ helping' = [helping EXCEPT ![w] = NoJob]
        /\ pc' = [pc EXCEPT ![w] = "idle"]
        /\ UNCHANGED <<at, queue, next, runs, errors>>

\* Wrong form of Leave: the thread keeps its pointer to the job it left.
LeaveKeepingJob(w) ==
    LET j == helping[w]
    IN  /\ pc[w] = "leave"
        /\ helpers' = [helpers EXCEPT ![j] = @ - 1]
        /\ pc' = [pc EXCEPT ![w] = "idle", ![j] = IF @ = "sleep" THEN "wait" ELSE @]
        /\ UNCHANGED <<helping, at, queue, next, runs, errors>>

\* The helper leaves under left_mutex and notifies the owner.
Leave(w) ==
    LET j == helping[w]
    IN  /\ pc[w] = "leave"
        /\ helpers' = [helpers EXCEPT ![j] = @ - 1]
        /\ helping' = [helping EXCEPT ![w] = NoJob]
        /\ pc' = [pc EXCEPT ![w] = "idle", ![j] = IF @ = "sleep" THEN "wait" ELSE @]
        /\ UNCHANGED <<at, queue, next, runs, errors>>

OwnerStep(j) == Push(j) \/ Notify(j) \/ Erase(j) \/ Wait(j)
WorkerStep(w) == Join(w) \/ Sleep(w) \/ Leave(w)
TaskStep(r) == Claim(r) \/ RunLeaf(r) \/ CallNested(r) \/ ReturnNested(r)

Next ==
    \/ \E j \in Job : Call(j) \/ OwnerStep(j)
    \/ \E w \in Worker : WorkerStep(w)
    \/ \E r \in Runner : TaskStep(r)

Spec == Init /\ [][Next]_vars

\* Every thread that can run is scheduled in the end; nobody need call for_each.
Fairness ==
    /\ \A j \in Job : WF_vars(OwnerStep(j))
    /\ \A w \in Worker : WF_vars(WorkerStep(w))
    /\ \A r \in Runner : WF_vars(TaskStep(r))

FairSpec == Spec /\ Fairness

-----------------------------------------------------------------------------
(* What for_each promises. *)

Inside(w) == pc[w] \in {"work", "task", "inner", "leave"}
Live(j) == pc[j] \notin {"unborn", "done"}
AtTask(r, j, i) == pc[r] \in {"task", "inner"} /\ JobOf(r) = j /\ at[r] = i

\* The variables have their types: counters are naturals, the queue holds jobs, and a pool thread names a
\* job exactly while it is inside one.
TypeOK ==
    /\ pc \in [Runner -> JobPc \cup WorkerPc]
    /\ \A j \in Job : pc[j] \in JobPc
    /\ \A w \in Worker : pc[w] \in WorkerPc
    /\ helping \in [Worker -> Job \cup {NoJob}]
    /\ \A w \in Worker : Inside(w) <=> helping[w] # NoJob
    /\ at \in [Runner -> Nat]
    /\ queue \in Seq(Job)
    /\ next \in [Job -> Nat]
    /\ helpers \in [Job -> Nat]
    /\ DOMAIN runs = Job
    /\ \A j \in Job : runs[j] \in [Index(j) -> Nat]
    /\ errors \in [Job -> SUBSET Nat]

\* A Job is on its caller's stack: no pool thread is inside a job, and the queue does not point at it,
\* once its for_each returned (parallel.cpp, "its caller cannot have removed it and returned yet").
NoUseAfterReturn ==
    /\ \A w \in Worker : Inside(w) => Live(helping[w])
    /\ \A k \in 1 .. Len(queue) : Live(queue[k])

\* When for_each returns every task has finished, exactly once, whoever ran it, and nobody is still in one.
EachTaskOnce ==
    \A j \in Job : pc[j] = "done" =>
        \A i \in Index(j) : runs[j][i] = 1 /\ \A r \in Runner : ~ AtTask(r, j, i)

\* for_each's outcome is the one a sequential loop over all the tasks gives: it keeps an error for exactly
\* the tasks that throw, on whatever thread they ran, those whose nested for_each rethrows included (the
\* one of the least index is rethrown).
ErrorsAsSequential ==
    \A j \in Job : pc[j] = "done" =>
        errors[j] = {i \in Index(j) : <<j, i>> \in Fails \/ (Sub[j][i] # NoJob /\ errors[Sub[j][i]] # {})}

\* No job is helped by more pool threads than its width allows; one that runs in its caller, by none.
HelpersBounded ==
    \A j \in Job : Cardinality({w \in Worker : helping[w] = j}) <= IF Pooled(j) THEN MaxHelpers(j) ELSE 0

\* No wake-up is lost: a pool thread sleeps while a queued job has a task left and room for a helper only
\* until the notify_all that is still to come.
NoLostWakeup ==
    \A w \in Worker : \A k \in 1 .. Len(queue) :
        pc[w] = "asleep" /\ Eligible(queue[k]) => \E j \in Job : pc[j] = "notify"

\* Every for_each returns, nested ones and ones whose helpers are busy elsewhere included: nobody waits for
\* a thread that waits for them.
EveryCallReturns == \A j \in Job : Live(j) ~> pc[j] = "done"
=============================================================================
