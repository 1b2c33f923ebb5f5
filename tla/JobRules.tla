------------------------------ MODULE JobRules ------------------------------
(***************************************************************************)
(* The rules a job and its tasks obey whichever store keeps them: pure      *)
(* functions of a job record (internal/jobs/enqueue.go, earned.go) and of a *)
(* set of job records (quota.go, occupancy.go).                             *)
(*                                                                          *)
(* A job is a record; its tasks are a function from the step numbers of its *)
(* plan.  The fixed part of a task (PlanID, Operator, DependsOn) is read    *)
(* from the plan.  Time is a number, 0 is Go's zero time; attempt 0 is the  *)
(* empty attempt id.  A gateway URL is [scheme, host, port, path].          *)
(***************************************************************************)
EXTENDS Integers, Sequences, FiniteSets

CONSTANTS Plans,           \* plans a client may enqueue: sequences of steps
          Services,        \* tenants (OTEL service.name)
          Urls,            \* gateway URLs
          Workers,         \* worker ids
          NoWorker,        \* the empty worker id
          Verdicts,        \* verdicts a worker may report
          LeaseTTL,        \* leaseTTL
          DefaultDeadline, \* DefaultDeadline
          ActiveJobs,      \* Quota.ActiveJobs after normalized()
          LeasedTasks      \* Quota.LeasedTasks after normalized()

ASSUME PlansAssumption ==
  \A p \in Plans :
    /\ p \in Seq({p[i] : i \in DOMAIN p}) /\ p # <<>>
    /\ \A i \in DOMAIN p : p[i].op \in BOOLEAN
ASSUME QuotaAssumption == ActiveJobs \in Nat \ {0} /\ LeasedTasks \in Nat \ {0}
ASSUME TimeAssumption == LeaseTTL \in Nat \ {0} /\ DefaultDeadline \in Nat \ {0}
ASSUME WorkerAssumption == NoWorker \notin Workers

States == {"pending", "ready", "leased", "succeeded", "failed", "skipped"}
Statuses == {"pending", "running", "complete", "failed", "canceled"}

Task == [state : States, attempt : Nat, fence : Nat, until : Nat,
         worker : Workers \cup {NoWorker}, verdict : Verdicts \cup {"none"}]

\* The jobs that run plan p.
Job(p) == [service : Services, base : Urls, patch : Urls, source : {"declared", "built"},
           created : Nat, deadline : Nat, canceled : BOOLEAN, status : Statuses,
           validated : BOOLEAN, plan : {p}, tasks : [DOMAIN p -> Task]]

-----------------------------------------------------------------------------
(* enqueue.go: readiness and status *)

\* depsOK over stateByPlan: the map keeps the LAST task of each plan id, and a
\* dependency that names no task has the empty state.
depsOK(plan, tasks, i) ==
  \A d \in plan[i].deps :
    \E k \in DOMAIN plan :
      /\ plan[k].id = d
      /\ \A m \in DOMAIN plan : plan[m].id = d => m <= k
      /\ tasks[k].state \in {"succeeded", "skipped"}

\* settle, in closed form.  Each round of the loop reads the states of the round
\* before; a pending operator task is skipped in the first, so the second sees
\* every dependency it can ever see satisfied (becoming ready satisfies none).
skipOperators(plan, tasks) ==
  [i \in DOMAIN plan |->
     IF plan[i].op /\ tasks[i].state = "pending"
     THEN [tasks[i] EXCEPT !.state = "skipped"] ELSE tasks[i]]

\* Mutant: a dependency that has not failed counts as satisfied.
settleEager(plan, tasks) ==
  [i \in DOMAIN plan |->
     IF tasks[i].state = "pending" /\ \A k \in DOMAIN plan : tasks[k].state # "failed"
     THEN [tasks[i] EXCEPT !.state = "ready"] ELSE tasks[i]]

settle(plan, tasks) ==
  LET seen == skipOperators(plan, tasks) IN
  [i \in DOMAIN plan |->
     IF seen[i].state = "pending" /\ depsOK(plan, seen, i)
     THEN [seen[i] EXCEPT !.state = "ready"] ELSE seen[i]]

Some(tasks, S) == \E i \in DOMAIN tasks : tasks[i].state \in S

jobStatus(tasks) ==
  IF Some(tasks, {"failed"}) THEN "failed"
  ELSE IF Some(tasks, {"leased", "ready"}) THEN "running"
  ELSE IF Some(tasks, {"pending"}) THEN "pending"
  ELSE "complete"

-----------------------------------------------------------------------------
(* earned.go: status refresh, decision, cancel, deadline *)

\* jobDecision.  Of the policy in validate.Decide two requirements are kept: both
\* revisions were built here, and no result the overall verdict counts differs or
\* is incomplete.  The others only block more, so a job validated by the code is
\* validated here.
jobDecision(job) ==
  /\ ~job.canceled
  /\ job.status = "complete"
  /\ job.source = "built"
  /\ \A i \in DOMAIN job.tasks :
       job.tasks[i].state = "succeeded" => job.tasks[i].verdict \notin {"differ", "incomplete"}

decided(job) == [job EXCEPT !.validated = jobDecision(job)]

\* Mutant: the status is spelt as no reader of it spells it.
refreshJobSpelling(job) ==
  LET ts == settle(job.plan, job.tasks) IN
  decided([job EXCEPT !.tasks = ts,
                      !.status = IF job.canceled THEN "cancelled" ELSE jobStatus(ts)])

refreshJob(job) ==
  LET ts == settle(job.plan, job.tasks) IN
  decided([job EXCEPT !.tasks = ts,
                      !.status = IF job.canceled THEN "canceled" ELSE jobStatus(ts)])

finished(job) == job.canceled \/ job.status \in {"complete", "failed", "canceled"}

\* Mutant: cancel does not first ask whether the job has finished.
applyCancelAlways(job) == refreshJob([job EXCEPT !.canceled = TRUE])

applyCancel(job) ==
  IF finished(job) THEN job
  ELSE refreshJob([job EXCEPT
         !.canceled = TRUE,
         !.tasks = [i \in DOMAIN job.tasks |->
                      IF job.tasks[i].state \in {"pending", "ready"}
                      THEN [job.tasks[i] EXCEPT !.state = "skipped"] ELSE job.tasks[i]]])

\* Mutant: a job one of whose tasks is leased is given more time.
pastDeadlineIdle(job, now) ==
  /\ now > job.deadline
  /\ ~finished(job)
  /\ ~Some(job.tasks, {"leased"})

\* failDeadline: the condition, then the effect (the attempt id is kept).
pastDeadline(job, now) ==
  /\ now > (IF job.deadline = 0 THEN job.created + DefaultDeadline ELSE job.deadline)
  /\ ~finished(job)

\* Mutant: ready tasks are forgotten.
failDeadlineLeased(job) ==
  decided([job EXCEPT
    !.status = "failed",
    !.tasks = [i \in DOMAIN job.tasks |->
                 IF job.tasks[i].state \in {"pending", "leased"}
                 THEN [job.tasks[i] EXCEPT !.state = "failed", !.worker = NoWorker, !.until = 0]
                 ELSE job.tasks[i]]])

\* Mutant: tasks that have ended are failed too.
failDeadlineAll(job) ==
  decided([job EXCEPT
    !.status = "failed",
    !.tasks = [i \in DOMAIN job.tasks |->
                 [job.tasks[i] EXCEPT !.state = "failed", !.attempt = 0, !.worker = NoWorker, !.until = 0]]])

failDeadline(job) ==
  decided([job EXCEPT
    !.status = "failed",
    !.tasks = [i \in DOMAIN job.tasks |->
                 IF job.tasks[i].state \in {"pending", "ready", "leased"}
                 THEN [job.tasks[i] EXCEPT !.state = "failed", !.worker = NoWorker, !.until = 0]
                 ELSE job.tasks[i]]])

-----------------------------------------------------------------------------
(* enqueue.go: one task's lease *)

expired(t, now) == t.state = "leased" /\ t.until # 0 /\ t.until < now

\* Mutant: the attempt id survives the requeue.
requeueKeepingAttempt(t, now, canceled) ==
  IF expired(t, now)
  THEN [t EXCEPT !.state = IF canceled THEN "skipped" ELSE "ready", !.worker = NoWorker, !.until = 0]
  ELSE t

requeue(t, now, canceled) ==
  IF expired(t, now)
  THEN [t EXCEPT !.state = IF canceled THEN "skipped" ELSE "ready",
                 !.attempt = 0, !.worker = NoWorker, !.until = 0]
  ELSE t

\* Mutant: only deadlines are looked at.
expireJobDeadline(job, now) == IF pastDeadline(job, now) THEN failDeadline(job) ELSE job

\* What one pass of expireTx / requeueExpiredLocked makes of one job.
expireJob(job, now) ==
  IF pastDeadline(job, now) THEN failDeadline(job)
  ELSE IF \E i \in DOMAIN job.tasks : expired(job.tasks[i], now)
  THEN refreshJob([job EXCEPT !.tasks =
         [i \in DOMAIN job.tasks |-> requeue(job.tasks[i], now, job.canceled)]])
  ELSE job

\* Mutant: attempts are numbered per task.
leaseTaskByFence(t, attempt, w, now) ==
  [t EXCEPT !.state = "leased", !.attempt = t.fence + 1, !.fence = t.fence + 1,
            !.worker = w, !.until = now + LeaseTTL]

leaseTask(t, attempt, w, now) ==
  [t EXCEPT !.state = "leased", !.attempt = attempt, !.fence = t.fence + 1,
            !.worker = w, !.until = now + LeaseTTL]

canHeartbeat(t, attempt, w) == t.state = "leased" /\ t.attempt = attempt /\ t.worker = w
applyHeartbeat(t, now) == [t EXCEPT !.until = now + LeaseTTL]

\* Mutant: the state is not checked, so a repeated commit of one attempt is accepted.
canCommitAgain(t, attempt, verdict, fail) == t.attempt = attempt

\* applyCommit: accepted only for the attempt that holds the lease; a success may
\* not be a pass, a failure is stored with whatever verdict came with it.
canCommit(t, attempt, verdict, fail) ==
  /\ t.state = "leased"
  /\ t.attempt = attempt
  /\ fail \/ verdict \notin {"pass", "validated"}

applyCommit(t, verdict, fail) ==
  [t EXCEPT !.state = IF fail THEN "failed" ELSE "succeeded",
            !.verdict = verdict, !.worker = NoWorker, !.until = 0]

-----------------------------------------------------------------------------
(* enqueue.go: a new job.  Whatever source the client claims is overwritten. *)

newTask(op) ==
  [state |-> IF op THEN "skipped" ELSE "pending", attempt |-> 0, fence |-> 0,
   until |-> 0, worker |-> NoWorker, verdict |-> "none"]

\* Mutant: the client is believed.
declareAsClaimed(source) == source

declare(source) == "declared"

buildJob(opts, now) ==
  refreshJob(
    [service |-> opts.service, base |-> opts.base, patch |-> opts.patch,
     source |-> declare(opts.source), created |-> now,
     deadline |-> IF opts.deadline = 0 THEN now + DefaultDeadline ELSE opts.deadline,
     canceled |-> FALSE, status |-> "pending", validated |-> FALSE,
     plan |-> opts.plan,
     tasks |-> settle(opts.plan, [i \in DOMAIN opts.plan |-> newTask(opts.plan[i].op)])])

-----------------------------------------------------------------------------
(* occupancy.go and quota.go: what the jobs of a set J of ids allow *)

\* scheme://host of a URL; Go's u.Host includes the port, the path is dropped.
occupancyKey(url) == [scheme |-> url.scheme, host |-> url.host, port |-> url.port]
occupancyKeys(job) == {occupancyKey(job.base), occupancyKey(job.patch)}
occupies(job) == job.status \in {"pending", "running"}

\* Mutant: baselines are compared with baselines only.
gatewayBusyBaseline(jobs, J, job) ==
  \E j \in J : occupies(jobs[j]) /\ occupancyKey(jobs[j].base) = occupancyKey(job.base)

gatewayBusy(jobs, J, job) ==
  \E j \in J : occupies(jobs[j]) /\ occupancyKeys(jobs[j]) \cap occupancyKeys(job) # {}

\* Mutant: off by one.
overActiveByOne(jobs, J, job) ==
  Cardinality({j \in J : jobs[j].service = job.service /\ occupies(jobs[j])}) > ActiveJobs

overActive(jobs, J, job) ==
  Cardinality({j \in J : jobs[j].service = job.service /\ occupies(jobs[j])}) >= ActiveJobs

\* The leased tasks of J, as pairs, that satisfy a filter on service or worker.
leasedBy(jobs, J, w) ==
  UNION {{<<j, i>> : i \in {i \in DOMAIN jobs[j].tasks :
            jobs[j].tasks[i].state = "leased" /\ jobs[j].tasks[i].worker = w}} : j \in J}
countLeased(jobs, J, w) == Cardinality(leasedBy(jobs, J, w))

leasedFor(jobs, J, s) ==
  UNION {{<<j, i>> : i \in {i \in DOMAIN jobs[j].tasks :
            jobs[j].tasks[i].state = "leased"}} : j \in {j \in J : jobs[j].service = s}}
serviceLoad(jobs, J, s) == Cardinality(leasedFor(jobs, J, s))

readyTasks(job) ==
  {i \in DOMAIN job.plan : job.tasks[i].state = "ready" /\ ~job.plan[i].op}

\* Mutant: a service at its cap is not skipped.
eligibleUncapped(jobs, J, want) ==
  {j \in J : /\ want \in {0, j}
             /\ ~jobs[j].canceled /\ jobs[j].status # "canceled"
             /\ readyTasks(jobs[j]) # {}}

\* pickReady as a relation: j is the first, in the store's order, of the
\* eligible jobs whose service holds fewest leases, and i its first ready task.
eligible(jobs, J, want) ==
  {j \in J : /\ want \in {0, j}
             /\ ~jobs[j].canceled /\ jobs[j].status # "canceled"
             /\ serviceLoad(jobs, J, jobs[j].service) < LeasedTasks
             /\ readyTasks(jobs[j]) # {}}

pickReady(jobs, J, want, order, j, i) ==
  /\ j \in eligible(jobs, J, want)
  /\ \A k \in eligible(jobs, J, want) \ {j} :
       LET nj == serviceLoad(jobs, J, jobs[j].service)
           nk == serviceLoad(jobs, J, jobs[k].service)
       IN  nj < nk \/ (nj = nk /\ <<j, k>> \in order)
  /\ i \in readyTasks(jobs[j])
  /\ \A m \in readyTasks(jobs[j]) : i <= m

-----------------------------------------------------------------------------
(* What should hold of every stored job.  The modules of the stores state these *)
(* as invariants.                                                               *)

\* A task that was made ready, is being run or has succeeded has every task it
\* depends on succeeded or skipped.
dependencyOrder(job) ==
  \A i \in DOMAIN job.tasks :
    job.tasks[i].state \in {"ready", "leased", "succeeded"} => depsOK(job.plan, job.tasks, i)

\* No pending task is one that settle would release or skip.
settled(job) ==
  \A i \in DOMAIN job.tasks :
    job.tasks[i].state = "pending" => ~job.plan[i].op /\ ~depsOK(job.plan, job.tasks, i)

\* The status is what the tasks say.
statusAgrees(job) ==
  job.status = IF job.canceled THEN "canceled" ELSE jobStatus(job.tasks)

\* A leased task has an attempt, a worker and an expiry; any other has neither
\* worker nor expiry, and one that can still be leased has no attempt.
leaseWhole(t) ==
  IF t.state = "leased"
  THEN t.attempt # 0 /\ t.worker # NoWorker /\ t.until # 0
  ELSE /\ t.worker = NoWorker /\ t.until = 0
       /\ t.state \in {"pending", "ready"} => t.attempt = 0

=============================================================================
