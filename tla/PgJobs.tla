------------------------------- MODULE PgJobs -------------------------------
(***************************************************************************)
(* The durable job store, internal/jobs/postgres.go.  Every operation is    *)
(* one transaction that first takes FOR UPDATE locks on the rows it reads,  *)
(* so each is one action here.  All but Cancel see only the rows            *)
(* lockJobsSQL selects: those whose status is pending or running.           *)
(*                                                                          *)
(* The callers are unconstrained: a heartbeat or a commit may arrive from   *)
(* any worker at any time with any attempt id ever issued, which covers     *)
(* lost, late, repeated and reordered calls and workers that crashed.       *)
(***************************************************************************)
EXTENDS JobRules

CONSTANTS JobIDs,       \* job ids (newID), ordered as their text is
          Slots,        \* the slot count each worker declares, before clipping
          DefaultSlots, MaxSlots,
          ClientTTLs,   \* how far ahead the deadlines lie that clients ask for
          MaxLag,       \* a clock read waits at most this long for the row locks
          LastCreate,   \* bound: no job is created later
          MaxTime,      \* bound: the clock stops here
          MaxAttempts   \* bound: leases granted in a behaviour

ASSUME JobIDAssumption == JobIDs \subseteq Nat \ {0}
ASSUME SlotAssumption ==
  /\ Slots \in [Workers -> Int]
  /\ DefaultSlots \in Nat \ {0} /\ MaxSlots \in Nat \ {0} /\ DefaultSlots <= MaxSlots
ASSUME BoundAssumption ==
  /\ ClientTTLs \subseteq Nat /\ MaxLag \in Nat
  /\ LastCreate \in Nat /\ MaxTime \in Nat \ {0} /\ MaxAttempts \in Nat

VARIABLES jobs,   \* the rows of aquila.jobs by id
          now,    \* the wall clock all processes read
          ids     \* attempt ids issued so far: newID never repeats one

vars == <<jobs, now, ids>>

Init == jobs = [j \in {} |-> 0] /\ now = 1 /\ ids = 0

-----------------------------------------------------------------------------
\* lockJobsSQL: the rows an operation sees, ordered by (created_at, id).
active(rows) == {j \in DOMAIN rows : rows[j].status \in {"pending", "running"}}
order(rows) ==
  {p \in active(rows) \X active(rows) :
     \/ rows[p[1]].created < rows[p[2]].created
     \/ rows[p[1]].created = rows[p[2]].created /\ p[1] < p[2]}

\* expireTx: the rows after every active one has been reaped.
expireTx(rows, t) ==
  [j \in DOMAIN rows |-> IF j \in active(rows) THEN expireJob(rows[j], t) ELSE rows[j]]

slots(w) ==
  IF Slots[w] < 1 THEN DefaultSlots ELSE IF Slots[w] > MaxSlots THEN MaxSlots ELSE Slots[w]

\* Every operation reads the clock before it waits for its locks.
clockReads == {t \in 1..now : now - t <= MaxLag}

\* What a client may post; the deadline is 0 or, as validateCreate wants it, not past.
CreateOpts(built) ==
  [service : Services, base : Urls, patch : Urls, source : {"declared", "built"},
   deadline : {0} \cup {built + d : d \in ClientTTLs}, plan : Plans]

\* Create.  The job is built, and dated, before the advisory lock is taken; the
\* clock is read again for the expiry.  ErrBusy and ErrQuota return before
\* tx.Commit: nothing changes, the expiry of this transaction included.
Create(id, opts, built, t) ==
  LET rows == expireTx(jobs, t)
      job == buildJob(opts, built)
  IN  /\ now <= LastCreate
      /\ built <= t
      /\ id \notin DOMAIN jobs
      /\ ~gatewayBusy(rows, active(rows), job)
      /\ ~overActive(rows, active(rows), job)
      /\ jobs' = [j \in DOMAIN rows \cup {id} |-> IF j = id THEN job ELSE rows[j]]
      /\ UNCHANGED <<now, ids>>

\* Lease that grants task i of job j.  want is the job id asked for, or 0.
leaseRow(job, i, attempt, w, t) ==
  refreshJob([job EXCEPT !.tasks[i] = leaseTask(job.tasks[i], attempt, w, t)])

canLease(rows, w, want, j, i) ==
  /\ countLeased(rows, active(rows), w) < slots(w)
  /\ pickReady(rows, active(rows), want, order(rows), j, i)

Lease(w, want, j, i, t) ==
  LET rows == expireTx(jobs, t) IN
  /\ ids < MaxAttempts
  /\ canLease(rows, w, want, j, i)
  /\ jobs' = [rows EXCEPT ![j] = leaseRow(rows[j], i, ids + 1, w, t)]
  /\ ids' = ids + 1
  /\ UNCHANGED now

\* Lease that answers ErrCapacity or ErrNoReady: the expiry is committed.
LeaseEmpty(w, want, t) ==
  LET rows == expireTx(jobs, t) IN
  /\ ~\E j \in active(rows) : \E i \in DOMAIN rows[j].tasks : canLease(rows, w, want, j, i)
  /\ jobs' = rows
  /\ UNCHANGED <<now, ids>>

Heartbeat(w, j, i, attempt, t) ==
  /\ j \in active(jobs)
  /\ canHeartbeat(jobs[j].tasks[i], attempt, w)
  /\ jobs' = [jobs EXCEPT ![j].tasks[i] = applyHeartbeat(jobs[j].tasks[i], t)]
  /\ UNCHANGED <<now, ids>>

\* Mutant: the row is stored before its dependents are settled.
commitRowUnsettled(job, i, verdict, fail) ==
  LET ts == [job.tasks EXCEPT ![i] = applyCommit(job.tasks[i], verdict, fail)]
  IN  [job EXCEPT !.tasks = ts, !.status = jobStatus(ts)]

commitRow(job, i, verdict, fail) ==
  refreshJob([job EXCEPT !.tasks[i] = applyCommit(job.tasks[i], verdict, fail)])

Commit(j, i, attempt, verdict, fail) ==
  /\ j \in active(jobs)
  /\ canCommit(jobs[j].tasks[i], attempt, verdict, fail)
  /\ jobs' = [jobs EXCEPT ![j] = commitRow(jobs[j], i, verdict, fail)]
  /\ UNCHANGED <<now, ids>>

\* Cancel locks its own row, whatever its status.
Cancel(j) ==
  /\ jobs' = [jobs EXCEPT ![j] = applyCancel(jobs[j])]
  /\ UNCHANGED <<now, ids>>

\* RequeueExpired, from reaper.go's Loop: at start and every second.
Reap(t) ==
  /\ jobs' = expireTx(jobs, t)
  /\ UNCHANGED <<now, ids>>

Tick == now < MaxTime /\ now' = now + 1 /\ UNCHANGED <<jobs, ids>>

ClientStep ==
  \/ \E id \in JobIDs, built \in clockReads, t \in clockReads :
       \E opts \in CreateOpts(built) : Create(id, opts, built, t)
  \/ \E j \in DOMAIN jobs : Cancel(j)

WorkerStep ==
  \/ \E w \in Workers, want \in {0} \cup DOMAIN jobs, t \in clockReads :
       \/ \E j \in DOMAIN jobs : \E i \in DOMAIN jobs[j].tasks : Lease(w, want, j, i, t)
       \/ LeaseEmpty(w, want, t)
  \/ \E j \in DOMAIN jobs : \E i \in DOMAIN jobs[j].tasks : \E a \in 1..ids :
       \/ \E w \in Workers, t \in clockReads : Heartbeat(w, j, i, a, t)
       \/ \E verdict \in Verdicts, fail \in BOOLEAN : Commit(j, i, a, verdict, fail)

ReaperStep == \E t \in clockReads : Reap(t)

Next == ClientStep \/ WorkerStep \/ ReaperStep \/ Tick

Spec == Init /\ [][Next]_vars

\* The clock advances and the server's reaper loop keeps running; clients and
\* workers owe nothing.
FairSpec == Spec /\ WF_vars(Tick) /\ WF_vars(ReaperStep)

-----------------------------------------------------------------------------
(* Properties *)

\* Every row is a job whose tasks are those of its plan, every attempt id in it
\* has been issued, and the clock is within its bound.
TypeOK ==
  /\ DOMAIN jobs \subseteq JobIDs
  /\ \A j \in DOMAIN jobs :
       /\ jobs[j].plan \in Plans
       /\ jobs[j] \in Job(jobs[j].plan)
       /\ \A i \in DOMAIN jobs[j].tasks : jobs[j].tasks[i].attempt \in 0..ids
  /\ now \in 1..MaxTime
  /\ ids \in Nat

\* A task that was made ready, is being run or has succeeded has every task it
\* depends on succeeded or skipped: no reaping, retry, cancel or late commit takes
\* back a dependency once settle has counted on it (enqueue.go depsOK, requeue).
DependencyOrder == \A j \in DOMAIN jobs : dependencyOrder(jobs[j])

\* No lost wake-up: no stored row holds a pending task that settle would release,
\* whichever operation wrote the row last (enqueue.go settle, earned.go refreshJob).
NoLostWakeup == \A j \in DOMAIN jobs : settled(jobs[j])

\* The status column, which decides what every operation sees, always says what the
\* tasks say: failDeadline sets it without recomputing it (earned.go:108).
StatusAgrees == \A j \in DOMAIN jobs : statusAgrees(jobs[j])

\* A lease is whole or absent: a leased task has an attempt, a worker and an expiry,
\* so that the reaper can end it; any other task has neither worker nor expiry, and
\* one that may be leased again has no attempt a late commit could match.
LeaseWhole ==
  \A j \in DOMAIN jobs : \A i \in DOMAIN jobs[j].tasks : leaseWhole(jobs[j].tasks[i])

\* Two unfinished jobs never share a gateway, whatever order they were created,
\* expired and dated in (occupancy.go gatewayBusy under the advisory lock).
GatewayExclusive ==
  \A j, k \in active(jobs) :
    j # k => occupancyKeys(jobs[j]) \cap occupancyKeys(jobs[k]) = {}

\* No service holds more unfinished jobs than its quota (quota.go overActive).
ActiveQuota ==
  \A s \in Services :
    Cardinality({j \in active(jobs) : jobs[j].service = s}) <= ActiveJobs

\* Among unfinished jobs, no service has more tasks leased than its cap and no
\* worker more than its slots, stale clock reads and requeues included.
LeaseCaps ==
  /\ \A s \in Services : serviceLoad(jobs, active(jobs), s) <= LeasedTasks
  /\ \A w \in Workers : countLeased(jobs, active(jobs), w) <= slots(w)

\* No hosted job is ever validated, whatever revisions the client claims were built
\* and whatever verdicts workers report (enqueue.go:32-33, earned.go jobDecision).
NeverValidated == \A j \in DOMAIN jobs : ~jobs[j].validated

\* A finished job is frozen: no reaping, late heartbeat, late commit, repeated
\* cancel or new lease changes its row again.
FinishedFrozen ==
  [][\A j \in DOMAIN jobs : finished(jobs[j]) => j \in DOMAIN jobs' /\ jobs'[j] = jobs[j]]_vars

\* Fencing, over one step from task t to task u with `issued' attempts issued before:
\* a task that has ended never changes again, so a repeated or late commit leaves no
\* trace; a result is stored only under the attempt that holds the lease; an attempt
\* that lost its lease never regains it; each new attempt advances the fence by one.
fenced(t, u, issued) ==
  /\ t.state \in {"succeeded", "failed", "skipped"} => u = t
  /\ u.verdict # t.verdict => t.state = "leased" /\ u.attempt = t.attempt
  /\ u.attempt \in 1..issued => u.attempt = t.attempt
  /\ u.fence = IF u.attempt > issued THEN t.fence + 1 ELSE t.fence
Fencing ==
  [][\A j \in DOMAIN jobs : \A i \in DOMAIN jobs[j].tasks :
       fenced(jobs[j].tasks[i], jobs'[j].tasks[i], ids)]_vars

\* The store implements Ledger: however rows expire, fail, are canceled and leased
\* again, each task is held by one attempt at a time, reports once and stays done.
phase(t) ==
  IF t.state \in {"pending", "ready"} THEN "open" ELSE IF t.state = "leased" THEN "held" ELSE "done"
entry(t) == [phase |-> phase(t), attempt |-> t.attempt, fence |-> t.fence, result |-> t.verdict]
ledger == [j \in DOMAIN jobs |-> [i \in DOMAIN jobs[j].tasks |-> entry(jobs[j].tasks[i])]]
L == INSTANCE Ledger WITH ledger <- ledger, issued <- ids, Results <- Verdicts
ImplementsLedger == L!Spec

\* No attempt id is ever in two tasks, so that what a worker sends for its attempt
\* is accepted for its own task or for none (postgres.go Heartbeat, Commit).
AttemptsUnique == L!Unique

\* Every unfinished job whose deadline the clock can pass ends: if nothing else,
\* its deadline fails it at the next reaping, heartbeats or not, so it cannot hold
\* its gateway and its quota for ever (earned.go:93).
JobEnds ==
  \A j \in JobIDs :
    (j \in active(jobs) /\ jobs[j].deadline < MaxTime - MaxLag) ~> (j \notin active(jobs))

\* The lease of an unfinished job that runs out is reaped or renewed: it never
\* stays expired, so a dead worker cannot keep a task (postgres.go expireTx).
LeaseReaped ==
  \A j \in JobIDs : \A i \in UNION {DOMAIN p : p \in Plans} :
    LET Lapsed == j \in active(jobs) /\ i \in DOMAIN jobs[j].tasks /\ expired(jobs[j].tasks[i], now)
    IN  Lapsed ~> ~Lapsed

-----------------------------------------------------------------------------
(* What the repository's documents say and the code does not do *)

\* docs/EXECUTION_MODEL.md:13: an unfinished job occupying a gateway hostname
\* conflicts with another such job; ports do not create independent occupancy.
HostExclusive ==
  \A j, k \in active(jobs) :
    j # k => {u.host : u \in occupancyKeys(jobs[j])} \cap {u.host : u \in occupancyKeys(jobs[k])} = {}

\* README.md:161: the leased-task cap limits how many tasks one service can run at
\* once.  Tasks of canceled jobs, which keep running, are counted here.
ServiceRunsWithinCap == \A s \in Services : serviceLoad(jobs, DOMAIN jobs, s) <= LeasedTasks

=============================================================================
