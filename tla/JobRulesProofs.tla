--------------------------- MODULE JobRulesProofs ---------------------------
(***************************************************************************)
(* What the operations of enqueue.go and earned.go make of one job, for     *)
(* every plan, every clock value and every number of attempts.              *)
(***************************************************************************)
EXTENDS JobRules, TLAPS

\* A job before its tasks are settled and its status recomputed, when n attempt
\* ids have been issued.
Raw(job, n) ==
  /\ job.plan \in Plans
  /\ job \in Job(job.plan)
  /\ job.source = "declared"
  /\ dependencyOrder(job)
  /\ \A i \in DOMAIN job.tasks : leaseWhole(job.tasks[i]) /\ job.tasks[i].attempt \in 0..n

\* A job as it is stored: the invariant of every row.
Sound(job, n) ==
  /\ Raw(job, n)
  /\ settled(job)
  /\ statusAgrees(job)
  /\ ~job.validated

\* What no operation on a stored job changes.
SameJob(a, b) ==
  /\ a.service = b.service /\ a.base = b.base /\ a.patch = b.patch
  /\ a.plan = b.plan /\ a.source = b.source /\ DOMAIN a.tasks = DOMAIN b.tasks

Satisfied == {"succeeded", "skipped"}

\* A change of one task, or of every task of a job, that grants no lease and stores
\* no result.
QuietTask(t, u) ==
  /\ t.state \in {"succeeded", "failed", "skipped"} => u = t
  /\ u.verdict = t.verdict /\ u.fence = t.fence
  /\ u.attempt \in {t.attempt, 0}
  /\ u.state = "leased" => t.state = "leased" /\ u.worker = t.worker
  /\ u.state = "succeeded" => t.state = "succeeded"

QuietJob(a, b) ==
  /\ SameJob(a, b)
  /\ \A i \in DOMAIN a.tasks : QuietTask(a.tasks[i], b.tasks[i])

-----------------------------------------------------------------------------
\* A dependency that stays satisfied keeps its dependents' dependencies satisfied.
LEMMA DepsMonotone ==
  ASSUME NEW p, NEW ts, NEW us, NEW i,
         \A k \in DOMAIN p : ts[k].state \in Satisfied => us[k].state \in Satisfied,
         depsOK(p, ts, i)
  PROVE  depsOK(p, us, i)
BY DEF depsOK, Satisfied

\* Skipping the operator steps changes nothing but the state of pending ones.
LEMMA SkipTasks ==
  ASSUME NEW p \in Plans, NEW ts \in [DOMAIN p -> Task]
  PROVE  /\ skipOperators(p, ts) \in [DOMAIN p -> Task]
         /\ \A i \in DOMAIN p :
              /\ ts[i].state # "pending" => skipOperators(p, ts)[i] = ts[i]
              /\ ts[i].state = "pending" =>
                   skipOperators(p, ts)[i] =
                     [ts[i] EXCEPT !.state = IF p[i].op THEN "skipped" ELSE "pending"]
<1>1. \A i \in DOMAIN p : ts[i] \in Task
  OBVIOUS
<1>2. \A i \in DOMAIN p : [ts[i] EXCEPT !.state = "skipped"] \in Task
  BY <1>1 DEF Task, States
<1>3. \A i \in DOMAIN p : ts[i].state = "pending" => ts[i] = [ts[i] EXCEPT !.state = "pending"]
  BY <1>1 DEF Task
<1> QED  BY <1>1, <1>2, <1>3 DEF skipOperators

\* settle, and its first round, leave every task that is not pending as it was.
LEMMA SkipKeeps ==
  ASSUME NEW p, NEW ts, NEW i \in DOMAIN p, ts[i].state # "pending"
  PROVE  skipOperators(p, ts)[i] = ts[i]
BY DEF skipOperators

LEMMA SettleKeeps ==
  ASSUME NEW p, NEW ts, NEW i \in DOMAIN p, ts[i].state # "pending"
  PROVE  settle(p, ts)[i] = ts[i]
<1> DEFINE seen == skipOperators(p, ts)
<1>1. seen[i] = ts[i]
  BY SkipKeeps
<1> HIDE DEF seen
<1>2. settle(p, ts)[i] = IF seen[i].state = "pending" /\ depsOK(p, seen, i)
                         THEN [seen[i] EXCEPT !.state = "ready"] ELSE seen[i]
  BY DEF settle, seen
<1> QED  BY <1>1, <1>2

\* settle changes nothing but the state of pending tasks: to skipped, for an
\* operator's, to ready, or not at all.
LEMMA SettleTasks ==
  ASSUME NEW p \in Plans, NEW ts \in [DOMAIN p -> Task]
  PROVE  /\ settle(p, ts) \in [DOMAIN p -> Task]
         /\ \A i \in DOMAIN p :
              /\ ts[i].state # "pending" => settle(p, ts)[i] = ts[i]
              /\ ts[i].state = "pending" =>
                   \E st \in {"pending", "ready", "skipped"} :
                     settle(p, ts)[i] = [ts[i] EXCEPT !.state = st]
<1> DEFINE seen == skipOperators(p, ts)
<1>1. seen \in [DOMAIN p -> Task]
  BY SkipTasks
<1>2. \A i \in DOMAIN p : ts[i] \in Task /\ seen[i] \in Task
  BY <1>1
<1>3. \A i \in DOMAIN p : [seen[i] EXCEPT !.state = "ready"] \in Task
  BY <1>2 DEF Task, States
<1>4. settle(p, ts) \in [DOMAIN p -> Task]
  BY <1>1, <1>3 DEF settle
<1>5. ASSUME NEW i \in DOMAIN p, ts[i].state # "pending"
      PROVE  settle(p, ts)[i] = ts[i]
  BY <1>5, SettleKeeps
<1>6. ASSUME NEW i \in DOMAIN p, ts[i].state = "pending"
      PROVE  \E st \in {"pending", "ready", "skipped"} : settle(p, ts)[i] = [ts[i] EXCEPT !.state = st]
  <2>1. \E s0 \in {"pending", "skipped"} : seen[i] = [ts[i] EXCEPT !.state = s0]
    BY <1>6, SkipTasks
  <2>2. PICK s0 \in {"pending", "skipped"} : seen[i] = [ts[i] EXCEPT !.state = s0]
    BY <2>1
  <2>3. [seen[i] EXCEPT !.state = "ready"] = [ts[i] EXCEPT !.state = "ready"]
    BY Zenon, <2>2, <1>2 DEF Task
  <2>4. settle(p, ts)[i] = seen[i] \/ settle(p, ts)[i] = [seen[i] EXCEPT !.state = "ready"]
    BY DEF settle
  <2> QED  BY <2>2, <2>3, <2>4
<1> QED  BY <1>4, <1>5, <1>6

\* After settle no pending task can be released, and no task released earlier has
\* lost a dependency.
LEMMA SettleOrder ==
  ASSUME NEW p \in Plans, NEW ts \in [DOMAIN p -> Task],
         \A i \in DOMAIN p : ts[i].state \in {"ready", "leased", "succeeded"} => depsOK(p, ts, i)
  PROVE  \A i \in DOMAIN p :
           /\ settle(p, ts)[i].state \in {"ready", "leased", "succeeded"} => depsOK(p, settle(p, ts), i)
           /\ settle(p, ts)[i].state = "pending" => ~p[i].op /\ ~depsOK(p, settle(p, ts), i)
<1> DEFINE seen == skipOperators(p, ts)
           us == settle(p, ts)
<1>0. \A k \in DOMAIN p : ts[k].state # "pending" => seen[k] = ts[k]
  BY SkipKeeps
<1>1. seen \in [DOMAIN p -> Task] /\ \A i \in DOMAIN p : ts[i] \in Task /\ seen[i] \in Task
  BY SkipTasks
<1>2. \A k \in DOMAIN p : ts[k].state \in Satisfied => seen[k].state \in Satisfied
  <2> SUFFICES ASSUME NEW k \in DOMAIN p, ts[k].state \in Satisfied
               PROVE  seen[k].state \in Satisfied
    OBVIOUS
  <2>1. ts[k].state # "pending"
    BY DEF Satisfied
  <2>2. seen[k] = ts[k]
    BY <1>0, <2>1
  <2> QED  BY <2>2
<1>3. \A k \in DOMAIN p : seen[k].state \in Satisfied <=> us[k].state \in Satisfied
  <2> SUFFICES ASSUME NEW k \in DOMAIN p
               PROVE  seen[k].state \in Satisfied <=> us[k].state \in Satisfied
    OBVIOUS
  <2>1. us[k] = IF seen[k].state = "pending" /\ depsOK(p, seen, k)
                THEN [seen[k] EXCEPT !.state = "ready"] ELSE seen[k]
    BY DEF settle
  <2>2. [seen[k] EXCEPT !.state = "ready"].state = "ready"
    BY <1>1 DEF Task
  <2> QED  BY <2>1, <2>2 DEF Satisfied
<1> SUFFICES ASSUME NEW i \in DOMAIN p
             PROVE  /\ us[i].state \in {"ready", "leased", "succeeded"} => depsOK(p, us, i)
                    /\ us[i].state = "pending" => ~p[i].op /\ ~depsOK(p, us, i)
  OBVIOUS
<1>4. depsOK(p, ts, i) => depsOK(p, seen, i)
  BY <1>2, DepsMonotone
<1>5. depsOK(p, seen, i) => depsOK(p, us, i)
  BY <1>3, DepsMonotone
<1>6. depsOK(p, us, i) => depsOK(p, seen, i)
  BY <1>3, DepsMonotone
<1>7. us[i] = IF seen[i].state = "pending" /\ depsOK(p, seen, i)
              THEN [seen[i] EXCEPT !.state = "ready"] ELSE seen[i]
  BY DEF settle
<1>8. seen[i] = IF p[i].op /\ ts[i].state = "pending" THEN [ts[i] EXCEPT !.state = "skipped"] ELSE ts[i]
  BY DEF skipOperators
<1>9. [ts[i] EXCEPT !.state = "skipped"].state = "skipped" /\ [seen[i] EXCEPT !.state = "ready"].state = "ready"
  BY <1>1 DEF Task
<1> QED  BY <1>4, <1>5, <1>6, <1>7, <1>8, <1>9

-----------------------------------------------------------------------------
\* No job with declared revisions is decided validated.
LEMMA DeclaredNeverValidates ==
  ASSUME NEW p \in Plans, NEW job \in Job(p), job.source = "declared"
  PROVE  /\ decided(job) = [job EXCEPT !.validated = FALSE]
         /\ decided(job) \in Job(p)
         /\ decided(job).tasks = job.tasks /\ decided(job).status = job.status
         /\ decided(job).canceled = job.canceled /\ decided(job).validated = FALSE
         /\ SameJob(job, decided(job))
<1>1. jobDecision(job) = FALSE
  BY DEF jobDecision
<1>2. decided(job) = [job EXCEPT !.validated = FALSE]
  BY Zenon, <1>1 DEF decided
<1> QED  BY Zenon, <1>2 DEF Job, SameJob

\* jobStatus answers one of the four statuses tasks can give a job.
LEMMA StatusType ==
  ASSUME NEW ts
  PROVE  jobStatus(ts) \in Statuses
BY DEF jobStatus, Statuses

\* refreshJob turns any job whose tasks respect the dependency order into one that
\* can be stored.
LEMMA RefreshSound ==
  ASSUME NEW n \in Nat, NEW job, Raw(job, n)
  PROVE  /\ Sound(refreshJob(job), n)
         /\ SameJob(refreshJob(job), job)
         /\ refreshJob(job).tasks = settle(job.plan, job.tasks)
         /\ refreshJob(job).canceled = job.canceled
<1> DEFINE p == job.plan
           ts == job.tasks
           us == settle(p, ts)
           st == IF job.canceled THEN "canceled" ELSE jobStatus(us)
           mid == [job EXCEPT !.tasks = us, !.status = st]
           new == decided(mid)
<1>1. p \in Plans /\ job \in Job(p) /\ job.source = "declared" /\ ts \in [DOMAIN p -> Task]
  BY DEF Raw, Job
<1>2. us \in [DOMAIN p -> Task]
  BY <1>1, SettleTasks
<1>a. \A i \in DOMAIN p : ts[i].state # "pending" => us[i] = ts[i]
  BY <1>1, SettleKeeps
<1>3. st \in Statuses
  BY StatusType DEF Statuses
<1>b. refreshJob(job) = decided(mid)
  BY DEF refreshJob
<1> HIDE DEF us, st
<1>4. /\ mid \in Job(p) /\ mid.source = "declared" /\ mid.tasks = us /\ mid.status = st
      /\ mid.canceled = job.canceled /\ SameJob(mid, job)
  BY Zenon, <1>1, <1>2, <1>3 DEF Job, SameJob
<1> HIDE DEF mid
<1>5. /\ refreshJob(job) = new /\ new \in Job(p)
      /\ new.tasks = mid.tasks /\ new.status = mid.status /\ new.canceled = mid.canceled
      /\ new.validated = FALSE /\ SameJob(mid, new)
  BY Zenon, <1>1, <1>4, <1>b, DeclaredNeverValidates
<1> HIDE DEF new
<1>6. /\ new.tasks = us /\ new.status = st /\ new.validated = FALSE /\ new.plan = p
      /\ new.canceled = job.canceled /\ new.source = "declared" /\ SameJob(new, job)
  BY Zenon, <1>1, <1>4, <1>5 DEF SameJob
<1> USE DEF us, st
<1>7. dependencyOrder(new) /\ settled(new)
  <2>1. \A i \in DOMAIN p : ts[i].state \in {"ready", "leased", "succeeded"} => depsOK(p, ts, i)
    BY <1>1 DEF Raw, dependencyOrder
  <2> QED  BY <1>1, <1>2, <1>6, <2>1, SettleOrder DEF dependencyOrder, settled
<1>8. statusAgrees(new)
  BY <1>6 DEF statusAgrees
<1>9. ASSUME NEW i \in DOMAIN us
      PROVE  leaseWhole(us[i]) /\ us[i].attempt \in 0..n
  <2>1. i \in DOMAIN p /\ ts[i] \in Task /\ leaseWhole(ts[i]) /\ ts[i].attempt \in 0..n
    BY <1>1, <1>2 DEF Raw
  <2>2. CASE ts[i].state # "pending"
    <3>1. us[i] = ts[i]
      BY <1>a, <2>1, <2>2
    <3> QED  BY <2>1, <3>1
  <2>3. CASE ts[i].state = "pending"
    <3>1. PICK s0 \in {"pending", "ready", "skipped"} : us[i] = [ts[i] EXCEPT !.state = s0]
      BY <1>1, <2>1, <2>3, SettleTasks
    <3>2. /\ us[i].state = s0 /\ us[i].attempt = ts[i].attempt
          /\ us[i].worker = ts[i].worker /\ us[i].until = ts[i].until
      BY <2>1, <3>1 DEF Task
    <3> QED  BY <2>1, <2>3, <3>2 DEF leaseWhole
  <2> QED  BY <2>2, <2>3
<1> QED  BY <1>1, <1>5, <1>6, <1>7, <1>8, <1>9 DEF Sound, Raw

-----------------------------------------------------------------------------
\* Replacing task i of a job by one whose dependencies hold keeps the job raw.
LEMMA ReplaceTask ==
  ASSUME NEW n \in Nat, NEW job, Sound(job, n), NEW m \in Nat, n <= m,
         NEW i \in DOMAIN job.tasks, NEW t \in Task,
         job.tasks[i].state \in {"ready", "leased"},
         leaseWhole(t), t.attempt \in 0..m
  PROVE  Raw([job EXCEPT !.tasks[i] = t], m)
<1> DEFINE p == job.plan
           new == [job EXCEPT !.tasks[i] = t]
<1>1. p \in Plans /\ job \in Job(p) /\ job.source = "declared" /\ job.tasks \in [DOMAIN p -> Task]
  BY DEF Sound, Raw, Job
<1>2. /\ new.tasks = [job.tasks EXCEPT ![i] = t] /\ new.plan = p /\ new.source = "declared"
      /\ new.tasks \in [DOMAIN p -> Task] /\ new \in Job(p)
  BY <1>1 DEF Job
<1>3. \A k \in DOMAIN p : job.tasks[k].state \in Satisfied => new.tasks[k].state \in Satisfied
  BY <1>1, <1>2 DEF Satisfied
<1>4. dependencyOrder(new)
  <2> SUFFICES ASSUME NEW k \in DOMAIN p, new.tasks[k].state \in {"ready", "leased", "succeeded"}
               PROVE  depsOK(p, new.tasks, k)
    BY <1>2 DEF dependencyOrder
  <2>1. job.tasks[k].state \in {"ready", "leased", "succeeded"}
    BY <1>1, <1>2
  <2>2. depsOK(p, job.tasks, k)
    BY <1>1, <2>1 DEF Sound, Raw, dependencyOrder
  <2> QED  BY Zenon, <1>3, <2>2, DepsMonotone
<1>5. \A k \in DOMAIN new.tasks : leaseWhole(new.tasks[k]) /\ new.tasks[k].attempt \in 0..m
  BY <1>1, <1>2 DEF Sound, Raw
<1> QED  BY <1>1, <1>2, <1>4, <1>5 DEF Raw

\* A row stays a row when more attempt ids are issued.
LEMMA SoundMonotone ==
  ASSUME NEW n \in Nat, NEW m \in Nat, n <= m, NEW job, Sound(job, n)
  PROVE  Sound(job, m)
BY DEF Sound, Raw

\* refreshJob grants no lease and stores no result.
LEMMA RefreshQuiet ==
  ASSUME NEW n \in Nat, NEW job, Raw(job, n)
  PROVE  QuietJob(job, refreshJob(job))
<1> DEFINE p == job.plan
           ts == job.tasks
           us == settle(p, ts)
<1>1. p \in Plans /\ ts \in [DOMAIN p -> Task] /\ DOMAIN ts = DOMAIN p
  BY DEF Raw, Job
<1>2. refreshJob(job).tasks = us /\ SameJob(job, refreshJob(job))
  BY RefreshSound DEF SameJob
<1>3. ASSUME NEW i \in DOMAIN p
      PROVE  QuietTask(ts[i], us[i])
  <2>1. ts[i] \in Task
    BY <1>1
  <2>2. CASE ts[i].state # "pending"
    <3>1. us[i] = ts[i]
      BY <1>1, <2>2, SettleKeeps
    <3> QED  BY <3>1 DEF QuietTask
  <2>3. CASE ts[i].state = "pending"
    <3>1. PICK s0 \in {"pending", "ready", "skipped"} : us[i] = [ts[i] EXCEPT !.state = s0]
      BY <1>1, <2>3, SettleTasks
    <3> QED  BY <2>1, <2>3, <3>1 DEF QuietTask, Task
  <2> QED  BY <2>2, <2>3
<1> QED  BY <1>1, <1>2, <1>3 DEF QuietJob

\* Quiet changes compose.
LEMMA QuietTransitive ==
  ASSUME NEW a, NEW b, NEW c, QuietJob(a, b), QuietJob(b, c)
  PROVE  QuietJob(a, c)
<1>1. SameJob(a, c)
  BY DEF QuietJob, SameJob
<1>2. ASSUME NEW i \in DOMAIN a.tasks
      PROVE  QuietTask(a.tasks[i], c.tasks[i])
  <2>1. QuietTask(a.tasks[i], b.tasks[i]) /\ QuietTask(b.tasks[i], c.tasks[i])
    BY DEF QuietJob, SameJob
  <2> QED  BY <2>1 DEF QuietTask
<1> QED  BY <1>1, <1>2 DEF QuietJob

\* Leaving a job alone is a quiet change.
LEMMA QuietReflexive ==
  ASSUME NEW job
  PROVE  QuietJob(job, job)
BY DEF QuietJob, QuietTask, SameJob

-----------------------------------------------------------------------------
(* Changing several tasks at once *)

\* A task that may be in a raw job with n attempts issued.
Good(t, n) == t \in Task /\ leaseWhole(t) /\ t.attempt \in 0..n

\* A change of one task that a raw job survives: it takes back no satisfied
\* dependency, starts nothing, grants no lease and stores no result.
Demotes(t, u, n) ==
  /\ Good(u, n)
  /\ t.state \in Satisfied => u.state \in Satisfied
  /\ u.state \in {"ready", "leased", "succeeded"} => t.state \in {"ready", "leased", "succeeded"}
  /\ QuietTask(t, u)

\* Leaving a sound task alone demotes it.
LEMMA DemoteSame ==
  ASSUME NEW n \in Nat, NEW t, Good(t, n)
  PROVE  Demotes(t, t, n)
BY DEF Demotes, QuietTask

\* Skipping a pending or ready task, as applyCancel does, demotes it.
LEMMA DemoteSkip ==
  ASSUME NEW n \in Nat, NEW t, Good(t, n), t.state \in {"pending", "ready"}
  PROVE  Demotes(t, [t EXCEPT !.state = "skipped"], n)
<1> DEFINE u == [t EXCEPT !.state = "skipped"]
<1>1. /\ u.state = "skipped" /\ u.attempt = t.attempt /\ u.worker = t.worker
      /\ u.until = t.until /\ u.verdict = t.verdict /\ u.fence = t.fence /\ u \in Task
  BY DEF Good, Task, States
<1> HIDE DEF u
<1>2. leaseWhole(u)
  BY <1>1 DEF Good, leaseWhole
<1>3. QuietTask(t, u)
  BY <1>1 DEF QuietTask
<1>4. Demotes(t, u, n)
  BY <1>1, <1>2, <1>3 DEF Demotes, Good, Satisfied
<1> QED  BY <1>4 DEF u

\* Failing an unfinished task, as failDeadline does, demotes it.
LEMMA DemoteFail ==
  ASSUME NEW n \in Nat, NEW t, Good(t, n), t.state \in {"pending", "ready", "leased"}
  PROVE  Demotes(t, [t EXCEPT !.state = "failed", !.worker = NoWorker, !.until = 0], n)
<1> DEFINE u == [t EXCEPT !.state = "failed", !.worker = NoWorker, !.until = 0]
<1>1. /\ u.state = "failed" /\ u.attempt = t.attempt /\ u.worker = NoWorker
      /\ u.until = 0 /\ u.verdict = t.verdict /\ u.fence = t.fence /\ u \in Task
  BY Zenon DEF Good, Task, States
<1> HIDE DEF u
<1>2. leaseWhole(u)
  BY <1>1 DEF Good, leaseWhole
<1>3. QuietTask(t, u)
  BY <1>1 DEF QuietTask
<1>4. Demotes(t, u, n)
  BY <1>1, <1>2, <1>3 DEF Demotes, Good, Satisfied
<1> QED  BY <1>4 DEF u

\* requeue demotes a task, whether its lease has expired or not.
LEMMA DemoteRequeue ==
  ASSUME NEW n \in Nat, NEW t, Good(t, n), NEW now, NEW c \in BOOLEAN
  PROVE  Demotes(t, requeue(t, now, c), n)
<1>1. CASE ~expired(t, now)
  BY <1>1, DemoteSame DEF requeue
<1>2. CASE expired(t, now)
  <2> DEFINE s0 == IF c THEN "skipped" ELSE "ready"
             u == [t EXCEPT !.state = s0, !.attempt = 0, !.worker = NoWorker, !.until = 0]
  <2>1. /\ u.state = s0 /\ u.attempt = 0 /\ u.worker = NoWorker
        /\ u.until = 0 /\ u.verdict = t.verdict /\ u.fence = t.fence /\ u \in Task
    BY Zenon DEF Good, Task, States
  <2>2. t.state = "leased"
    BY <1>2 DEF expired
  <2>3. s0 \in {"skipped", "ready"}
    OBVIOUS
  <2> HIDE DEF s0, u
  <2>4. Demotes(t, u, n)
    BY <2>1, <2>2, <2>3 DEF Demotes, Good, leaseWhole, Satisfied, QuietTask
  <2> QED  BY <1>2, <2>4 DEF requeue, u, s0
<1> QED  BY <1>1, <1>2

\* A change of a job that demotes some of its tasks keeps it raw and is quiet; what
\* else it assigns does not matter.
LEMMA DemoteJob ==
  ASSUME NEW n \in Nat, NEW job, Raw(job, n),
         NEW new \in Job(job.plan), new.source = "declared", SameJob(job, new),
         \A i \in DOMAIN job.plan : Demotes(job.tasks[i], new.tasks[i], n)
  PROVE  Raw(new, n) /\ QuietJob(job, new)
<1> DEFINE p == job.plan
           ts == new.tasks
<1>1. p \in Plans /\ job.tasks \in [DOMAIN p -> Task] /\ DOMAIN job.tasks = DOMAIN p
  BY DEF Raw, Job
<1>2. new.plan = p /\ ts \in [DOMAIN p -> Task]
  BY DEF Job
<1>3. dependencyOrder(new)
  <2> SUFFICES ASSUME NEW k \in DOMAIN p, ts[k].state \in {"ready", "leased", "succeeded"}
               PROVE  depsOK(p, ts, k)
    BY <1>2 DEF dependencyOrder
  <2>1. depsOK(p, job.tasks, k)
    BY <1>1 DEF Raw, dependencyOrder, Demotes
  <2>2. \A i \in DOMAIN p : job.tasks[i].state \in Satisfied => ts[i].state \in Satisfied
    BY DEF Demotes
  <2> QED  BY <2>1, <2>2, DepsMonotone
<1> QED  BY <1>1, <1>2, <1>3 DEF Raw, Demotes, Good, QuietJob

-----------------------------------------------------------------------------
(* The operations *)

\* Cancel stores a sound job, grants and stores nothing, and leaves a finished job
\* as it is.
LEMMA CancelSound ==
  ASSUME NEW n \in Nat, NEW job, Sound(job, n)
  PROVE  /\ Sound(applyCancel(job), n)
         /\ QuietJob(job, applyCancel(job))
         /\ finished(job) => applyCancel(job) = job
         /\ ~finished(job) => applyCancel(job).status = "canceled"
<1>1. CASE finished(job)
  BY <1>1, QuietReflexive DEF applyCancel
<1>2. CASE ~finished(job)
  <2> DEFINE p == job.plan
             ts == [i \in DOMAIN job.tasks |->
                      IF job.tasks[i].state \in {"pending", "ready"}
                      THEN [job.tasks[i] EXCEPT !.state = "skipped"] ELSE job.tasks[i]]
             mid == [job EXCEPT !.canceled = TRUE, !.tasks = ts]
  <2>1. /\ p \in Plans /\ job \in Job(p) /\ job.source = "declared" /\ Raw(job, n)
        /\ job.tasks \in [DOMAIN p -> Task] /\ DOMAIN job.tasks = DOMAIN p
    BY DEF Sound, Raw, Job
  <2>2. \A i \in DOMAIN p : Good(job.tasks[i], n)
    BY <2>1 DEF Raw, Good
  <2>3. \A i \in DOMAIN p : Demotes(job.tasks[i], ts[i], n)
    BY <2>1, <2>2, DemoteSkip, DemoteSame
  <2>b. DOMAIN ts = DOMAIN p /\ ts = [i \in DOMAIN p |-> ts[i]]
    BY <2>1
  <2>6. applyCancel(job) = refreshJob(mid)
    BY <1>2 DEF applyCancel
  <2> HIDE DEF ts
  <2>4. ts \in [DOMAIN p -> Task]
    BY <2>3, <2>b DEF Demotes, Good
  <2>5. /\ mid \in Job(p) /\ mid.tasks = ts /\ mid.source = "declared" /\ mid.canceled = TRUE
        /\ SameJob(job, mid)
    BY Zenon, <2>1, <2>4 DEF Job, SameJob
  <2> HIDE DEF mid
  <2>a. Raw(mid, n) /\ QuietJob(job, mid)
    BY <2>1, <2>3, <2>5, DemoteJob
  <2>7. Sound(refreshJob(mid), n) /\ refreshJob(mid).canceled = TRUE
    BY <2>5, <2>a, RefreshSound
  <2>8. QuietJob(job, refreshJob(mid))
    BY <2>a, RefreshQuiet, QuietTransitive
  <2> QED  BY <1>2, <2>6, <2>7, <2>8 DEF Sound, statusAgrees
<1> QED  BY <1>1, <1>2

\* Failing a job at its deadline stores a sound, finished job and grants nothing.
LEMMA DeadlineSound ==
  ASSUME NEW n \in Nat, NEW job, Sound(job, n), ~finished(job)
  PROVE  /\ Sound(failDeadline(job), n)
         /\ QuietJob(job, failDeadline(job))
<1> DEFINE p == job.plan
           ts == [i \in DOMAIN job.tasks |->
                    IF job.tasks[i].state \in {"pending", "ready", "leased"}
                    THEN [job.tasks[i] EXCEPT !.state = "failed", !.worker = NoWorker, !.until = 0]
                    ELSE job.tasks[i]]
           mid == [job EXCEPT !.status = "failed", !.tasks = ts]
           new == decided(mid)
<1>1. /\ p \in Plans /\ job \in Job(p) /\ job.source = "declared" /\ Raw(job, n)
      /\ job.tasks \in [DOMAIN p -> Task] /\ DOMAIN job.tasks = DOMAIN p
  BY DEF Sound, Raw, Job
<1>2. \A i \in DOMAIN p : Good(job.tasks[i], n)
  BY <1>1 DEF Raw, Good
<1>3. \A i \in DOMAIN p : Demotes(job.tasks[i], ts[i], n)
  BY Zenon, <1>1, <1>2, DemoteFail, DemoteSame
<1>9. \A i \in DOMAIN p : ts[i].state # "pending"
  BY Zenon, <1>1 DEF Task
<1>12. \A i \in DOMAIN p : job.tasks[i].state \in {"pending", "ready", "leased"} => ts[i].state = "failed"
  BY Zenon, <1>1 DEF Task
<1>13. DOMAIN ts = DOMAIN p /\ ts = [i \in DOMAIN p |-> ts[i]]
  BY Zenon, <1>1
<1>14. failDeadline(job) = decided(mid)
  BY DEF failDeadline
<1> HIDE DEF ts
<1>4. ts \in [DOMAIN p -> Task]
  BY <1>3, <1>13 DEF Demotes, Good
<1>5. /\ mid \in Job(p) /\ mid.source = "declared" /\ mid.tasks = ts /\ mid.status = "failed"
      /\ mid.plan = p /\ mid.canceled = job.canceled /\ SameJob(job, mid)
  BY Zenon, <1>1, <1>4 DEF Job, Statuses, SameJob
<1> HIDE DEF mid
<1>6. /\ failDeadline(job) = new /\ new \in Job(p)
      /\ new.tasks = mid.tasks /\ new.status = mid.status /\ new.canceled = mid.canceled
      /\ new.validated = FALSE /\ SameJob(mid, new)
  BY Zenon, <1>1, <1>5, <1>14, DeclaredNeverValidates
<1> HIDE DEF new
<1>7. /\ new.tasks = ts /\ new.status = "failed" /\ new.plan = p /\ new.canceled = job.canceled
      /\ new.source = "declared" /\ new.validated = FALSE /\ SameJob(job, new)
  BY Zenon, <1>5, <1>6 DEF SameJob
<1>8. Raw(new, n) /\ QuietJob(job, new)
  BY <1>1, <1>3, <1>6, <1>7, DemoteJob
<1>10. settled(new)
  BY Zenon, <1>7, <1>9, <1>13 DEF settled
<1>11. statusAgrees(new)
  <2>1. job.canceled = FALSE /\ job.status \in {"pending", "running"}
    BY <1>1 DEF finished, Job, Statuses
  <2>2. jobStatus(job.tasks) \in {"pending", "running"}
    BY <2>1 DEF Sound, statusAgrees
  <2>3. PICK i \in DOMAIN p : job.tasks[i].state \in {"pending", "ready", "leased"}
    BY <1>1, <2>2 DEF jobStatus, Some
  <2>4. ts[i].state = "failed"
    BY <1>12, <2>3
  <2>5. jobStatus(ts) = "failed"
    BY <1>4, <2>4 DEF jobStatus, Some
  <2> QED  BY <1>7, <2>1, <2>5 DEF statusAgrees
<1> QED  BY <1>6, <1>7, <1>8, <1>10, <1>11 DEF Sound

\* One pass of the reaper over a job stores a sound job and grants nothing.
LEMMA ExpireSound ==
  ASSUME NEW n \in Nat, NEW job, Sound(job, n), NEW now
  PROVE  Sound(expireJob(job, now), n) /\ QuietJob(job, expireJob(job, now))
<1> DEFINE p == job.plan
           ts == [i \in DOMAIN job.tasks |-> requeue(job.tasks[i], now, job.canceled)]
           mid == [job EXCEPT !.tasks = ts]
<1>1. /\ p \in Plans /\ job \in Job(p) /\ job.source = "declared" /\ Raw(job, n)
      /\ job.tasks \in [DOMAIN p -> Task] /\ DOMAIN job.tasks = DOMAIN p /\ job.canceled \in BOOLEAN
  BY DEF Sound, Raw, Job
<1>2. CASE pastDeadline(job, now)
  BY <1>2, DeadlineSound DEF expireJob, pastDeadline
<1>3. CASE ~pastDeadline(job, now) /\ \E i \in DOMAIN job.tasks : expired(job.tasks[i], now)
  <2>1. \A i \in DOMAIN p : Good(job.tasks[i], n)
    BY <1>1 DEF Raw, Good
  <2>2. \A i \in DOMAIN p : Demotes(job.tasks[i], ts[i], n)
    BY <1>1, <2>1, DemoteRequeue
  <2>3. ts \in [DOMAIN p -> Task]
    BY Zenon, <1>1, <2>2 DEF Demotes, Good
  <2>4. mid \in Job(p) /\ mid.tasks = ts /\ mid.source = "declared" /\ SameJob(job, mid)
    BY <1>1, <2>3 DEF Job, SameJob
  <2>5. Raw(mid, n) /\ QuietJob(job, mid)
    BY Zenon, <1>1, <2>2, <2>4, DemoteJob
  <2>6. expireJob(job, now) = refreshJob(mid)
    BY <1>3 DEF expireJob
  <2> QED  BY <2>5, <2>6, RefreshSound, RefreshQuiet, QuietTransitive
<1>4. CASE ~pastDeadline(job, now) /\ ~\E i \in DOMAIN job.tasks : expired(job.tasks[i], now)
  BY <1>4, QuietReflexive DEF expireJob
<1> QED  BY <1>2, <1>3, <1>4

\* Leasing a ready task under the next attempt id.
LEMMA LeaseSound ==
  ASSUME NEW n \in Nat, NEW job, Sound(job, n), NEW i \in DOMAIN job.tasks,
         job.tasks[i].state = "ready", NEW w \in Workers, NEW now \in Nat \ {0},
         NEW t, t = leaseTask(job.tasks[i], n + 1, w, now)
  PROVE  /\ Raw([job EXCEPT !.tasks[i] = t], n + 1)
         /\ t \in Task /\ t.state = "leased" /\ t.attempt = n + 1 /\ t.worker = w
         /\ t.fence = job.tasks[i].fence + 1 /\ t.verdict = job.tasks[i].verdict
<1>1. job.tasks[i] \in Task
  BY DEF Sound, Raw, Job
<1>2. /\ t.state = "leased" /\ t.attempt = n + 1 /\ t.worker = w /\ t.until = now + LeaseTTL
      /\ t.fence = job.tasks[i].fence + 1 /\ t.verdict = job.tasks[i].verdict
  BY <1>1 DEF leaseTask, Task
<1>a. n + 1 \in Nat /\ now + LeaseTTL \in Nat /\ job.tasks[i].fence + 1 \in Nat
  BY <1>1, TimeAssumption DEF Task
<1>3. t \in Task
  BY Zenon, <1>1, <1>a DEF leaseTask, Task, States
<1>4. leaseWhole(t)
  BY <1>2, TimeAssumption, WorkerAssumption DEF leaseWhole
<1>5. Raw([job EXCEPT !.tasks[i] = t], n + 1)
  BY <1>2, <1>3, <1>4, ReplaceTask
<1> QED  BY <1>2, <1>3, <1>5

\* Storing a result.
LEMMA CommitSound ==
  ASSUME NEW n \in Nat, NEW job, Sound(job, n), NEW i \in DOMAIN job.tasks,
         job.tasks[i].state = "leased", NEW v \in Verdicts, NEW fail \in BOOLEAN,
         NEW t, t = applyCommit(job.tasks[i], v, fail)
  PROVE  /\ Raw([job EXCEPT !.tasks[i] = t], n)
         /\ t \in Task /\ t.state \in {"failed", "succeeded"}
         /\ t.attempt = job.tasks[i].attempt /\ t.fence = job.tasks[i].fence /\ t.verdict = v
<1>1. job.tasks[i] \in Task /\ job.tasks[i].attempt \in 0..n
  BY DEF Sound, Raw, Job
<1>2. /\ t.state \in {"failed", "succeeded"} /\ t.attempt = job.tasks[i].attempt
      /\ t.worker = NoWorker /\ t.until = 0 /\ t.fence = job.tasks[i].fence /\ t.verdict = v
  BY <1>1 DEF applyCommit, Task
<1>3. t \in Task
  BY Zenon, <1>1 DEF applyCommit, Task, States
<1>4. leaseWhole(t)
  BY <1>2 DEF leaseWhole
<1>5. Raw([job EXCEPT !.tasks[i] = t], n)
  BY <1>1, <1>2, <1>3, <1>4, ReplaceTask
<1> QED  BY <1>2, <1>3, <1>5

\* Replacing one task and refreshing the job leaves that task as it was put and
\* changes the others quietly.
LEMMA TouchRow ==
  ASSUME NEW n \in Nat, NEW m \in Nat, NEW a, Sound(a, n), NEW i \in DOMAIN a.tasks,
         NEW t \in Task, t.state # "pending", Raw([a EXCEPT !.tasks[i] = t], m)
  PROVE  LET b == refreshJob([a EXCEPT !.tasks[i] = t]) IN
         /\ Sound(b, m) /\ SameJob(a, b) /\ b.tasks[i] = t
         /\ \A k \in DOMAIN a.tasks \ {i} : QuietTask(a.tasks[k], b.tasks[k])
<1> DEFINE mid == [a EXCEPT !.tasks[i] = t]
           b == refreshJob(mid)
<1>1. a.plan \in Plans /\ a \in Job(a.plan) /\ DOMAIN a.tasks = DOMAIN a.plan
  BY DEF Sound, Raw, Job
<1>2. /\ mid.tasks = [a.tasks EXCEPT ![i] = t] /\ mid.plan = a.plan /\ SameJob(a, mid)
      /\ mid.tasks[i] = t /\ \A k \in DOMAIN a.tasks \ {i} : mid.tasks[k] = a.tasks[k]
  BY <1>1 DEF Job, SameJob
<1>3. mid.tasks \in [DOMAIN a.plan -> Task]
  BY ZenonT(30), <1>2 DEF Raw, Job
<1> HIDE DEF mid
<1>4. Sound(b, m) /\ QuietJob(mid, b) /\ b.tasks = settle(mid.plan, mid.tasks)
  BY ZenonT(30), RefreshSound, RefreshQuiet DEF mid
<1>5. b.tasks[i] = t
  BY <1>1, <1>2, <1>3, <1>4, SettleKeeps
<1>6. SameJob(a, b)
  BY <1>2, <1>4 DEF QuietJob, SameJob
<1>7. \A k \in DOMAIN a.tasks \ {i} : QuietTask(a.tasks[k], b.tasks[k])
  BY <1>2, <1>4 DEF QuietJob, SameJob
<1> QED  BY <1>4, <1>5, <1>6, <1>7 DEF mid

\* Renewing a lease changes only its expiry.
LEMMA HeartbeatSound ==
  ASSUME NEW n \in Nat, NEW job, Sound(job, n), NEW i \in DOMAIN job.tasks,
         job.tasks[i].state = "leased", NEW now \in Nat \ {0}
  PROVE  LET new == [job EXCEPT !.tasks[i] = applyHeartbeat(job.tasks[i], now)] IN
         Sound(new, n) /\ QuietJob(job, new)
<1> DEFINE p == job.plan
           t == applyHeartbeat(job.tasks[i], now)
           new == [job EXCEPT !.tasks[i] = t]
<1>1. /\ p \in Plans /\ job \in Job(p) /\ job.source = "declared"
      /\ job.tasks \in [DOMAIN p -> Task] /\ DOMAIN job.tasks = DOMAIN p
      /\ job.tasks[i] \in Task /\ leaseWhole(job.tasks[i]) /\ job.tasks[i].attempt \in 0..n
  BY DEF Sound, Raw, Job
<1>2. /\ t.state = "leased" /\ t.attempt = job.tasks[i].attempt /\ t.worker = job.tasks[i].worker
      /\ t.until = now + LeaseTTL /\ t.fence = job.tasks[i].fence /\ t.verdict = job.tasks[i].verdict
  BY <1>1 DEF applyHeartbeat, Task
<1>3. t \in Task
  BY <1>1, TimeAssumption DEF applyHeartbeat, Task
<1>4. leaseWhole(t)
  BY <1>1, <1>2, TimeAssumption DEF leaseWhole
<1>5. /\ new.tasks = [job.tasks EXCEPT ![i] = t] /\ new.plan = p /\ new.status = job.status
      /\ new.canceled = job.canceled /\ new.validated = job.validated /\ SameJob(job, new)
  BY <1>1, <1>3 DEF Job, SameJob
<1> HIDE DEF t
<1>6. Raw(new, n)
  BY <1>1, <1>2, <1>3, <1>4, ReplaceTask
<1>7. \A k \in DOMAIN p : new.tasks[k].state = job.tasks[k].state
  BY <1>1, <1>2, <1>5
<1>8. \A k \in DOMAIN p : depsOK(p, new.tasks, k) => depsOK(p, job.tasks, k)
  BY Zenon, <1>7, DepsMonotone
<1>9. settled(new)
  BY <1>1, <1>5, <1>7, <1>8 DEF Sound, settled
<1>10. jobStatus(new.tasks) = jobStatus(job.tasks)
  BY <1>1, <1>5, <1>7 DEF jobStatus, Some
<1>11. statusAgrees(new) /\ ~new.validated
  BY <1>5, <1>10 DEF Sound, statusAgrees
<1>12. \A k \in DOMAIN p : QuietTask(job.tasks[k], new.tasks[k])
  BY <1>1, <1>2, <1>5 DEF QuietTask
<1>13. Sound(new, n) /\ QuietJob(job, new)
  BY <1>1, <1>5, <1>6, <1>9, <1>11, <1>12 DEF Sound, QuietJob
<1> QED  BY <1>13 DEF t

\* A task nobody has worked on.
Untouched(t) == t.state \notin {"leased", "succeeded"} /\ t.attempt = 0 /\ t.fence = 0 /\ t.verdict = "none"

\* A new job is sound, whatever the client posts, and nobody has worked on it.
LEMMA BuildSound ==
  ASSUME NEW n \in Nat, NEW opts, NEW now \in Nat,
         opts.service \in Services, opts.base \in Urls, opts.patch \in Urls,
         opts.deadline \in Nat, opts.plan \in Plans
  PROVE  /\ Sound(buildJob(opts, now), n)
         /\ buildJob(opts, now).service = opts.service
         /\ \A i \in DOMAIN buildJob(opts, now).tasks : Untouched(buildJob(opts, now).tasks[i])
<1> DEFINE p == opts.plan
           ts == [i \in DOMAIN p |-> newTask(p[i].op)]
           us == settle(p, ts)
           dl == IF opts.deadline = 0 THEN now + DefaultDeadline ELSE opts.deadline
           raw == [service |-> opts.service, base |-> opts.base, patch |-> opts.patch,
                   source |-> declare(opts.source), created |-> now, deadline |-> dl,
                   canceled |-> FALSE, status |-> "pending", validated |-> FALSE,
                   plan |-> p, tasks |-> us]
<1>1. \A i \in DOMAIN p : /\ Good(newTask(p[i].op), n) /\ Untouched(newTask(p[i].op))
                          /\ newTask(p[i].op).state \in {"pending", "skipped"}
  BY DEF Good, Untouched, newTask, Task, States, leaseWhole
<1>2. ts \in [DOMAIN p -> Task]
  BY <1>1 DEF Good
<1>3. \A i \in DOMAIN p : /\ ts[i].state \in {"pending", "skipped"} /\ Untouched(ts[i])
                          /\ leaseWhole(ts[i]) /\ ts[i].attempt \in 0..n
  BY <1>1 DEF Good
<1> HIDE DEF ts
<1>4. us \in [DOMAIN p -> Task]
  BY <1>2, SettleTasks
<1>5. \A i \in DOMAIN p : us[i].state \in {"ready", "leased", "succeeded"} => depsOK(p, us, i)
  BY <1>2, <1>3, SettleOrder
<1>6. ASSUME NEW i \in DOMAIN p
      PROVE  leaseWhole(us[i]) /\ us[i].attempt \in 0..n /\ Untouched(us[i])
  <2>1. CASE ts[i].state # "pending"
    <3>1. us[i] = ts[i]
      BY <1>2, <2>1, SettleKeeps
    <3> QED  BY <1>3, <3>1
  <2>2. CASE ts[i].state = "pending"
    <3>1. PICK s0 \in {"pending", "ready", "skipped"} : us[i] = [ts[i] EXCEPT !.state = s0]
      BY <1>2, <2>2, SettleTasks
    <3>2. ts[i] \in Task
      BY <1>2
    <3>3. /\ us[i].state = s0 /\ us[i].attempt = ts[i].attempt
          /\ us[i].worker = ts[i].worker /\ us[i].until = ts[i].until
          /\ us[i].fence = ts[i].fence /\ us[i].verdict = ts[i].verdict
      BY <3>1, <3>2 DEF Task
    <3> QED  BY <1>3, <2>2, <3>3 DEF leaseWhole, Untouched
  <2> QED  BY <2>1, <2>2
<1>a. dl \in Nat /\ declare(opts.source) = "declared"
  BY TimeAssumption DEF declare
<1> HIDE DEF us, dl
<1>7. /\ raw \in Job(p) /\ raw.source = "declared" /\ raw.tasks = us /\ raw.plan = p
      /\ raw.service = opts.service
  BY <1>4, <1>a DEF Job, Statuses
<1> HIDE DEF raw
<1>8. Raw(raw, n)
  BY <1>4, <1>5, <1>6, <1>7 DEF Raw, dependencyOrder
<1>9. buildJob(opts, now) = refreshJob(raw)
  BY DEF buildJob, raw, us, ts, dl
<1>10. Sound(refreshJob(raw), n) /\ QuietJob(raw, refreshJob(raw))
  BY <1>8, RefreshSound, RefreshQuiet
<1>11. \A i \in DOMAIN refreshJob(raw).tasks : Untouched(refreshJob(raw).tasks[i])
  BY <1>4, <1>6, <1>7, <1>10 DEF QuietJob, QuietTask, SameJob, Untouched
<1>12. refreshJob(raw).service = opts.service
  BY <1>7, <1>10 DEF QuietJob, SameJob
<1> QED  BY <1>9, <1>10, <1>11, <1>12

=============================================================================
