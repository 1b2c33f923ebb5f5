------------------------------ MODULE MemJobs -------------------------------
(***************************************************************************)
(* The in-process job store, internal/jobs/memory.go, under its mutex.      *)
(* It follows JobRules as the durable store does, with these differences:   *)
(*  - it looks at every job, finished ones included, in the order they were *)
(*    created: a ready task of a failed job can still be leased, and the    *)
(*    leased task of a finished job is still counted, reaped and committed; *)
(*  - an operation that is refused keeps the expiry it began with;          *)
(*  - Lease recomputes the status without settling the job.                 *)
(***************************************************************************)
EXTENDS JobRules

CONSTANTS MaxJobs,      \* bound: jobs created
          LastCreate,   \* bound: no job is created later
          Slots,        \* the slots of a worker, after clipping
          MaxTime,      \* bound: the clock stops here
          MaxAttempts   \* bound: leases granted in a behaviour

ASSUME MemAssumption ==
  /\ MaxJobs \in Nat /\ LastCreate \in Nat /\ MaxTime \in Nat \ {0} /\ MaxAttempts \in Nat
  /\ Slots \in Nat \ {0}

VARIABLES jobs,   \* the jobs in the order they were created: byID and order
          now,    \* the wall clock
          ids     \* attempt ids issued so far: newID never repeats one

storeVars == <<jobs, now, ids>>

StoreInit == jobs = <<>> /\ now = 1 /\ ids = 0

-----------------------------------------------------------------------------
all == DOMAIN jobs
order == {p \in all \X all : p[1] < p[2]}

requeueExpiredLocked == [j \in all |-> expireJob(jobs[j], now)]

refused(rows, job) == gatewayBusy(rows, all, job) \/ overActive(rows, all, job)

Create(opts) ==
  LET rows == requeueExpiredLocked
      job == buildJob(opts, now)
  IN  /\ Len(jobs) < MaxJobs /\ now <= LastCreate
      /\ jobs' = IF refused(rows, job) THEN rows ELSE Append(rows, job)
      /\ UNCHANGED <<now, ids>>

Cancel(j) ==
  /\ jobs' = [jobs EXCEPT ![j] = applyCancel(jobs[j])]
  /\ UNCHANGED <<now, ids>>

\* RequeueExpired, from reaper.go's Loop.
Reap == jobs' = requeueExpiredLocked /\ UNCHANGED <<now, ids>>

Tick == now < MaxTime /\ now' = now + 1 /\ UNCHANGED <<jobs, ids>>

leaseJob(job, i, w) ==
  LET ts == [job.tasks EXCEPT ![i] = leaseTask(job.tasks[i], ids + 1, w, now)]
  IN  [job EXCEPT !.tasks = ts, !.status = jobStatus(ts)]

canLease(rows, w, j, i) ==
  countLeased(rows, all, w) < Slots /\ pickReady(rows, all, 0, order, j, i)

Lease(w, j, i) ==
  LET rows == requeueExpiredLocked IN
  /\ ids < MaxAttempts
  /\ canLease(rows, w, j, i)
  /\ jobs' = [rows EXCEPT ![j] = leaseJob(rows[j], i, w)]
  /\ ids' = ids + 1
  /\ UNCHANGED now

\* ErrCapacity or ErrNoReady.
LeaseEmpty(w) ==
  LET rows == requeueExpiredLocked IN
  /\ ~\E j \in all : \E i \in DOMAIN rows[j].tasks : canLease(rows, w, j, i)
  /\ jobs' = rows
  /\ UNCHANGED <<now, ids>>

Heartbeat(w, j, i, attempt) ==
  /\ canHeartbeat(jobs[j].tasks[i], attempt, w)
  /\ jobs' = [jobs EXCEPT ![j].tasks[i] = applyHeartbeat(jobs[j].tasks[i], now)]
  /\ UNCHANGED <<now, ids>>

\* Mutant: any commit of a leased task is taken for its holder's.
acceptsAny(j, i, attempt, verdict, fail) == jobs[j].tasks[i].state = "leased"

accepts(j, i, attempt, verdict, fail) == canCommit(jobs[j].tasks[i], attempt, verdict, fail)

commitJob(job, i, verdict, fail) ==
  refreshJob([job EXCEPT !.tasks[i] = applyCommit(job.tasks[i], verdict, fail)])

\* ErrStaleAttempt and ErrNotLeased change nothing.
Commit(j, i, attempt, verdict, fail) ==
  /\ jobs' = IF accepts(j, i, attempt, verdict, fail)
             THEN [jobs EXCEPT ![j] = commitJob(jobs[j], i, verdict, fail)] ELSE jobs
  /\ UNCHANGED <<now, ids>>

-----------------------------------------------------------------------------
\* The memory store implements Ledger too, though it goes on with the tasks of jobs
\* that have ended: each task is held by one attempt at a time, reports once and
\* stays done (store.go Store, memory.go Lease, Commit, requeueExpiredLocked).
phase(t) ==
  IF t.state \in {"pending", "ready"} THEN "open" ELSE IF t.state = "leased" THEN "held" ELSE "done"
entry(t) == [phase |-> phase(t), attempt |-> t.attempt, fence |-> t.fence, result |-> t.verdict]
ledger == [j \in all |-> [i \in DOMAIN jobs[j].tasks |-> entry(jobs[j].tasks[i])]]
L == INSTANCE Ledger WITH ledger <- ledger, issued <- ids, Results <- Verdicts
MemImplementsLedger == L!Init /\ [][UNCHANGED <<jobs, ids>> \/ L!Next]_(L!vars)

=============================================================================
