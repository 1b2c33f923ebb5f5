---------------------------- MODULE PgJobsProofs ----------------------------
(***************************************************************************)
(* The safety properties of the Postgres job store, for every set of plans, *)
(* services, gateways, workers and job ids, every quota and every bound.    *)
(***************************************************************************)
EXTENDS PgJobs, JobRulesProofs, FiniteSetTheorems

\* What is within one of a number below a bound is within the bound.
LEMMA WithinOne ==
  ASSUME NEW m \in Nat, NEW a \in Nat, NEW b, NEW c \in Nat, ~(a >= m), b = a + 1, c <= b
  PROVE  c <= m
OBVIOUS

\* The inductive invariant of the rows.
RowsSound ==
  /\ DOMAIN jobs \subseteq JobIDs
  /\ IsFiniteSet(DOMAIN jobs)
  /\ \A j \in DOMAIN jobs : Sound(jobs[j], ids)
  /\ now \in 1..MaxTime
  /\ ids \in Nat

\* What one step may do to a row that exists, n attempts having been issued.
RowStep(a, b, n) ==
  /\ finished(a) => b = a
  /\ SameJob(a, b)
  /\ \A i \in DOMAIN a.tasks : fenced(a.tasks[i], b.tasks[i], n)

-----------------------------------------------------------------------------
\* A stored job is active exactly when it has not finished.
LEMMA ActiveUnfinished ==
  ASSUME NEW n \in Nat, NEW job, Sound(job, n)
  PROVE  finished(job) <=> job.status \notin {"pending", "running"}
<1>1. job.status \in Statuses /\ job.canceled \in BOOLEAN
  BY Zenon DEF Sound, Raw, Job
<1> QED  BY Zenon, <1>1 DEF Sound, statusAgrees, finished, Statuses

\* A quiet change is fenced.
LEMMA QuietFenced ==
  ASSUME NEW n \in Nat, NEW t, NEW u, t.attempt \in 0..n, QuietTask(t, u)
  PROVE  fenced(t, u, n) /\ u.attempt \in 0..n
BY DEF QuietTask, fenced

\* A quiet change of an unfinished row is a step RowStep allows.
LEMMA QuietRow ==
  ASSUME NEW n \in Nat, NEW a, NEW b, Sound(a, n), QuietJob(a, b), finished(a) => b = a
  PROVE  RowStep(a, b, n)
<1>1. \A i \in DOMAIN a.tasks : a.tasks[i].attempt \in 0..n
  BY Zenon DEF Sound, Raw
<1> QED  BY Zenon, <1>1, QuietFenced DEF QuietJob, RowStep

\* expireTx keeps every row sound, changes no finished one and grants nothing.
LEMMA ExpireRows ==
  ASSUME NEW n \in Nat, NEW rows, \A j \in DOMAIN rows : Sound(rows[j], n), NEW t
  PROVE  LET new == expireTx(rows, t) IN
         /\ DOMAIN new = DOMAIN rows
         /\ \A j \in DOMAIN rows :
              Sound(new[j], n) /\ QuietJob(rows[j], new[j]) /\ RowStep(rows[j], new[j], n)
         /\ active(new) \subseteq active(rows)
<1> DEFINE new == expireTx(rows, t)
<1>1. DOMAIN new = DOMAIN rows
  BY Zenon DEF expireTx
<1>2. ASSUME NEW j \in DOMAIN rows
      PROVE  /\ Sound(new[j], n) /\ QuietJob(rows[j], new[j]) /\ RowStep(rows[j], new[j], n)
             /\ j \notin active(rows) => new[j] = rows[j]
  <2>1. CASE j \in active(rows)
    <3>1. new[j] = expireJob(rows[j], t)
      BY Zenon, <2>1 DEF expireTx
    <3>2. ~finished(rows[j])
      BY Zenon, <2>1, ActiveUnfinished DEF active
    <3>3. Sound(new[j], n) /\ QuietJob(rows[j], new[j])
      BY Zenon, <3>1, ExpireSound
    <3> QED  BY Zenon, <2>1, <3>2, <3>3, QuietRow
  <2>2. CASE j \notin active(rows)
    <3>1. new[j] = rows[j]
      BY Zenon, <2>2 DEF expireTx
    <3> QED  BY Zenon, <3>1, QuietReflexive, QuietRow
  <2> QED  BY Zenon, <2>1, <2>2
<1>3. active(new) \subseteq active(rows)
  BY Zenon, <1>1, <1>2 DEF active
<1> QED  BY Zenon, <1>1, <1>2, <1>3

\* The row of a job one of whose ready tasks has been leased.
HasLeased(a, b, n, i, w) ==
  /\ Sound(b, n + 1) /\ SameJob(a, b)
  /\ b.tasks[i].state = "leased" /\ b.tasks[i].attempt = n + 1 /\ b.tasks[i].worker = w
  /\ b.tasks[i].fence = a.tasks[i].fence + 1 /\ b.tasks[i].verdict = a.tasks[i].verdict
  /\ \A k \in DOMAIN a.tasks \ {i} : QuietTask(a.tasks[k], b.tasks[k])

LEMMA LeaseRow ==
  ASSUME NEW n \in Nat, NEW a, Sound(a, n), NEW i \in DOMAIN a.tasks,
         a.tasks[i].state = "ready", NEW w \in Workers, NEW t \in Nat \ {0}
  PROVE  HasLeased(a, leaseRow(a, i, n + 1, w, t), n, i, w)
<1> DEFINE u == leaseTask(a.tasks[i], n + 1, w, t)
<1>1. /\ Raw([a EXCEPT !.tasks[i] = u], n + 1)
      /\ u \in Task /\ u.state = "leased" /\ u.attempt = n + 1 /\ u.worker = w
      /\ u.fence = a.tasks[i].fence + 1 /\ u.verdict = a.tasks[i].verdict
  BY LeaseSound
<1>2. leaseRow(a, i, n + 1, w, t) = refreshJob([a EXCEPT !.tasks[i] = u])
  BY Zenon DEF leaseRow
<1> HIDE DEF u
<1> DEFINE b == refreshJob([a EXCEPT !.tasks[i] = u])
<1>3. n + 1 \in Nat
  OBVIOUS
<1>4. /\ Sound(b, n + 1) /\ SameJob(a, b) /\ b.tasks[i] = u
      /\ \A k \in DOMAIN a.tasks \ {i} : QuietTask(a.tasks[k], b.tasks[k])
  BY Zenon, <1>1, <1>3, TouchRow
<1> QED  BY Zenon, <1>1, <1>2, <1>4 DEF HasLeased

\* The row of a job the holder of one of whose leases has committed.
HasCommitted(a, b, n, i, v) ==
  /\ Sound(b, n) /\ SameJob(a, b)
  /\ b.tasks[i].state \in {"failed", "succeeded"}
  /\ b.tasks[i].fence = a.tasks[i].fence /\ b.tasks[i].attempt = a.tasks[i].attempt
  /\ b.tasks[i].verdict = v
  /\ \A k \in DOMAIN a.tasks \ {i} : QuietTask(a.tasks[k], b.tasks[k])

LEMMA CommitRow ==
  ASSUME NEW n \in Nat, NEW a, Sound(a, n), NEW i \in DOMAIN a.tasks,
         a.tasks[i].state = "leased", NEW v \in Verdicts, NEW fail \in BOOLEAN
  PROVE  HasCommitted(a, commitRow(a, i, v, fail), n, i, v)
<1> DEFINE u == applyCommit(a.tasks[i], v, fail)
<1>1. /\ Raw([a EXCEPT !.tasks[i] = u], n) /\ u \in Task /\ u.state \in {"failed", "succeeded"}
      /\ u.attempt = a.tasks[i].attempt /\ u.fence = a.tasks[i].fence /\ u.verdict = v
  BY CommitSound
<1>2. commitRow(a, i, v, fail) = refreshJob([a EXCEPT !.tasks[i] = u])
  BY Zenon DEF commitRow
<1> HIDE DEF u
<1> DEFINE b == refreshJob([a EXCEPT !.tasks[i] = u])
<1>3. /\ Sound(b, n) /\ SameJob(a, b) /\ b.tasks[i] = u
      /\ \A k \in DOMAIN a.tasks \ {i} : QuietTask(a.tasks[k], b.tasks[k])
  BY Zenon, <1>1, TouchRow
<1> QED  BY Zenon, <1>1, <1>2, <1>3 DEF HasCommitted

-----------------------------------------------------------------------------
(* One lemma per action: the rows stay sound, and each changes as RowStep allows *)

StepsRows == \A k \in DOMAIN jobs : k \in DOMAIN jobs' /\ RowStep(jobs[k], jobs'[k], ids)

\* Leaving a row alone is a step RowStep allows.
LEMMA SameRowStep ==
  ASSUME NEW n \in Nat, NEW a, Sound(a, n)
  PROVE  RowStep(a, a, n)
BY Zenon, QuietReflexive, QuietRow

\* Create, which also expires: the new row is sound and nobody has worked on it.
LEMMA CreateStep ==
  ASSUME RowsSound, NEW id \in JobIDs, NEW built \in clockReads, NEW t \in clockReads,
         NEW opts \in CreateOpts(built), Create(id, opts, built, t)
  PROVE  /\ RowsSound' /\ StepsRows
         /\ \A i \in DOMAIN jobs'[id].tasks : Untouched(jobs'[id].tasks[i])
<1> DEFINE rows == expireTx(jobs, t)
           job == buildJob(opts, built)
<1>1. built \in Nat /\ ids \in Nat /\ now \in Nat
  BY DEF RowsSound, clockReads
<1>2. /\ opts.service \in Services /\ opts.base \in Urls /\ opts.patch \in Urls
      /\ opts.plan \in Plans /\ opts.deadline \in Nat
  BY <1>1, BoundAssumption DEF CreateOpts
<1>3. Sound(job, ids) /\ \A i \in DOMAIN job.tasks : Untouched(job.tasks[i])
  BY Zenon, <1>1, <1>2, BuildSound
<1>4. /\ DOMAIN rows = DOMAIN jobs
      /\ \A j \in DOMAIN jobs : Sound(rows[j], ids) /\ RowStep(jobs[j], rows[j], ids)
  BY Zenon, <1>1, ExpireRows DEF RowsSound
<1> HIDE DEF rows, job
<1>5. /\ id \notin DOMAIN jobs /\ now' = now /\ ids' = ids
      /\ jobs' = [j \in DOMAIN rows \cup {id} |-> IF j = id THEN job ELSE rows[j]]
  BY Zenon DEF Create, rows, job
<1>6. /\ DOMAIN jobs' = DOMAIN jobs \cup {id} /\ jobs'[id] = job
      /\ \A j \in DOMAIN jobs : jobs'[j] = rows[j]
  BY Zenon, <1>4, <1>5
<1>7. IsFiniteSet(DOMAIN jobs')
  BY Zenon, <1>6, FS_AddElement DEF RowsSound
<1> QED  BY Zenon, <1>3, <1>4, <1>5, <1>6, <1>7 DEF RowsSound, StepsRows

\* Reap and LeaseEmpty, whose only effect is the expiry.
LEMMA ReapStep ==
  ASSUME RowsSound, NEW t \in clockReads, jobs' = expireTx(jobs, t), UNCHANGED <<now, ids>>
  PROVE  RowsSound' /\ StepsRows
<1> DEFINE rows == expireTx(jobs, t)
<1>1. /\ DOMAIN rows = DOMAIN jobs
      /\ \A j \in DOMAIN jobs : Sound(rows[j], ids) /\ RowStep(jobs[j], rows[j], ids)
  BY Zenon, ExpireRows DEF RowsSound
<1> QED  BY Zenon, <1>1 DEF RowsSound, StepsRows

\* A task granted under a fresh attempt, after an expiry that left it ready, is
\* fenced from what it was before the expiry.
LEMMA GrantFenced ==
  ASSUME NEW t, NEW r, NEW u, NEW issued \in Nat, QuietTask(t, r), r.state = "ready",
         u.attempt = issued + 1, u.fence = r.fence + 1, u.verdict = r.verdict
  PROVE  fenced(t, u, issued)
<1>1. t.state \notin {"succeeded", "failed", "skipped"}
  BY Zenon DEF QuietTask
<1>2. u.verdict = t.verdict /\ u.fence = t.fence + 1
  BY Zenon DEF QuietTask
<1>3. u.attempt \notin 1..issued /\ u.attempt > issued
  OBVIOUS
<1> QED  BY Zenon, <1>1, <1>2, <1>3 DEF fenced

\* Lease: the expiry, then one task granted under a fresh attempt.
LEMMA LeaseStep ==
  ASSUME RowsSound, NEW w \in Workers, NEW want, NEW j \in DOMAIN jobs,
         NEW i \in DOMAIN jobs[j].tasks, NEW t \in clockReads, Lease(w, want, j, i, t)
  PROVE  RowsSound' /\ StepsRows
<1> DEFINE rows == expireTx(jobs, t)
           new == leaseRow(rows[j], i, ids + 1, w, t)
<1>1. ids \in Nat /\ t \in Nat \ {0} /\ now \in Nat
  BY DEF RowsSound, clockReads
<1>2. /\ DOMAIN rows = DOMAIN jobs /\ active(rows) \subseteq active(jobs)
      /\ \A k \in DOMAIN jobs :
           Sound(rows[k], ids) /\ QuietJob(jobs[k], rows[k]) /\ RowStep(jobs[k], rows[k], ids)
  BY Zenon, <1>1, ExpireRows DEF RowsSound
<1>3. j \in active(rows) /\ i \in DOMAIN rows[j].tasks /\ rows[j].tasks[i].state = "ready"
  <2>1. j \in active(rows) /\ i \in readyTasks(rows[j])
    BY Zenon DEF Lease, canLease, pickReady, eligible
  <2>2. DOMAIN rows[j].tasks = DOMAIN rows[j].plan
    BY Zenon, <1>2 DEF Sound, Raw, Job
  <2> QED  BY Zenon, <2>1, <2>2 DEF readyTasks
<1> HIDE DEF rows
<1>5. /\ Sound(new, ids + 1) /\ SameJob(rows[j], new) /\ new.tasks[i].attempt = ids + 1
      /\ new.tasks[i].fence = rows[j].tasks[i].fence + 1
      /\ new.tasks[i].verdict = rows[j].tasks[i].verdict
      /\ \A k \in DOMAIN rows[j].tasks \ {i} : QuietTask(rows[j].tasks[k], new.tasks[k])
  <2>1. HasLeased(rows[j], new, ids, i, w)
    BY Zenon, <1>1, <1>2, <1>3, LeaseRow
  <2> QED  BY Zenon, <2>1 DEF HasLeased
<1>6. /\ jobs' = [rows EXCEPT ![j] = new] /\ ids' = ids + 1 /\ now' = now
  BY Zenon DEF Lease, rows
<1> HIDE DEF new
<1>7. \A k \in DOMAIN jobs' : Sound(jobs'[k], ids')
  BY SMTT(30), <1>1, <1>2, <1>5, <1>6, SoundMonotone
<1>8. RowStep(jobs[j], new, ids)
  <2>1. ~finished(jobs[j])
    BY Zenon, <1>1, <1>2, <1>3, ActiveUnfinished DEF RowsSound, active
  <2>2. SameJob(jobs[j], rows[j]) /\ SameJob(jobs[j], new)
    BY Zenon, <1>2, <1>5 DEF QuietJob, SameJob
  <2>3. ASSUME NEW k \in DOMAIN jobs[j].tasks
        PROVE  fenced(jobs[j].tasks[k], new.tasks[k], ids)
    <3>1. jobs[j].tasks[k].attempt \in 0..ids /\ QuietTask(jobs[j].tasks[k], rows[j].tasks[k])
      BY Zenon, <1>2 DEF RowsSound, Sound, Raw, QuietJob
    <3>2. CASE k = i
      BY Zenon, <1>1, <1>3, <1>5, <3>1, <3>2, GrantFenced
    <3>3. CASE k # i
      <4>1. QuietTask(rows[j].tasks[k], new.tasks[k])
        BY Zenon, <1>5, <2>2, <3>3 DEF SameJob
      <4>2. QuietTask(jobs[j].tasks[k], new.tasks[k])
        BY ZenonT(30), <3>1, <4>1 DEF QuietTask
      <4> QED  BY Zenon, <1>1, <3>1, <4>2, QuietFenced
    <3> QED  BY Zenon, <3>2, <3>3
  <2> QED  BY Zenon, <2>1, <2>2, <2>3 DEF RowStep
<1>9. StepsRows
  BY Zenon, <1>2, <1>6, <1>8 DEF StepsRows
<1> QED  BY <1>1, <1>2, <1>6, <1>7, <1>9 DEF RowsSound

\* Heartbeat moves the expiry of one lease.
LEMMA HeartbeatStep ==
  ASSUME RowsSound, NEW w \in Workers, NEW j \in DOMAIN jobs, NEW i \in DOMAIN jobs[j].tasks,
         NEW attempt, NEW t \in clockReads, Heartbeat(w, j, i, attempt, t)
  PROVE  RowsSound' /\ StepsRows
<1> DEFINE a == jobs[j]
           b == [a EXCEPT !.tasks[i] = applyHeartbeat(a.tasks[i], t)]
<1>1. ids \in Nat /\ t \in Nat \ {0} /\ now \in Nat /\ Sound(a, ids)
  BY DEF RowsSound, clockReads
<1>2. a.tasks[i].state = "leased" /\ j \in active(jobs)
  BY Zenon DEF Heartbeat, canHeartbeat
<1>3. /\ jobs' = [jobs EXCEPT ![j] = b] /\ ids' = ids /\ now' = now
  BY Zenon DEF Heartbeat
<1>4. Sound(b, ids) /\ QuietJob(a, b)
  <2> HIDE DEF a
  <2> QED  BY Zenon, <1>1, <1>2, HeartbeatSound DEF a
<1>5. RowStep(a, b, ids)
  <2>1. ~finished(a)
    BY Zenon, <1>1, <1>2, ActiveUnfinished DEF active
  <2> HIDE DEF a, b
  <2> QED  BY Zenon, <1>1, <1>4, <2>1, QuietRow
<1> HIDE DEF b
<1>6. DOMAIN jobs' = DOMAIN jobs /\ \A k \in DOMAIN jobs : jobs'[k] = IF k = j THEN b ELSE jobs[k]
  BY Zenon, <1>3
<1>7. \A k \in DOMAIN jobs : Sound(jobs'[k], ids') /\ RowStep(jobs[k], jobs'[k], ids)
  BY Zenon, <1>1, <1>3, <1>4, <1>5, <1>6, SameRowStep DEF RowsSound
<1> QED  BY Zenon, <1>3, <1>6, <1>7 DEF RowsSound, StepsRows

\* Commit stores the result of the attempt that holds the lease.
LEMMA CommitStep ==
  ASSUME RowsSound, NEW j \in DOMAIN jobs, NEW i \in DOMAIN jobs[j].tasks, NEW attempt,
         NEW v \in Verdicts, NEW fail \in BOOLEAN, Commit(j, i, attempt, v, fail)
  PROVE  RowsSound' /\ StepsRows
<1> DEFINE a == jobs[j]
           b == commitRow(a, i, v, fail)
<1>1. ids \in Nat /\ Sound(a, ids)
  BY Zenon DEF RowsSound
<1>2. a.tasks[i].state = "leased" /\ j \in active(jobs)
  BY Zenon DEF Commit, canCommit
<1>3. /\ jobs' = [jobs EXCEPT ![j] = b] /\ ids' = ids /\ now' = now
  BY Zenon DEF Commit
<1>4. /\ Sound(b, ids) /\ SameJob(a, b)
      /\ b.tasks[i].fence = a.tasks[i].fence /\ b.tasks[i].attempt = a.tasks[i].attempt
      /\ \A k \in DOMAIN a.tasks \ {i} : QuietTask(a.tasks[k], b.tasks[k])
  <2>1. HasCommitted(a, b, ids, i, v)
    BY Zenon, <1>1, <1>2, CommitRow
  <2> QED  BY Zenon, <2>1 DEF HasCommitted
<1> HIDE DEF b
<1>5. RowStep(a, b, ids)
  <2>1. ~finished(a)
    BY Zenon, <1>1, <1>2, ActiveUnfinished DEF active
  <2>2. \A k \in DOMAIN a.tasks : a.tasks[k].attempt \in 0..ids
    BY Zenon, <1>1 DEF Sound, Raw
  <2>3. fenced(a.tasks[i], b.tasks[i], ids)
    BY SMTT(30), <1>1, <1>2, <1>4, <2>2 DEF fenced
  <2>4. \A k \in DOMAIN a.tasks \ {i} : fenced(a.tasks[k], b.tasks[k], ids)
    BY Zenon, <1>1, <1>4, <2>2, QuietFenced
  <2> QED  BY Zenon, <1>4, <2>1, <2>3, <2>4 DEF RowStep
<1>6. DOMAIN jobs' = DOMAIN jobs /\ \A k \in DOMAIN jobs : jobs'[k] = IF k = j THEN b ELSE jobs[k]
  BY Zenon, <1>3
<1>7. \A k \in DOMAIN jobs : Sound(jobs'[k], ids') /\ RowStep(jobs[k], jobs'[k], ids)
  BY Zenon, <1>1, <1>3, <1>4, <1>5, <1>6, SameRowStep DEF RowsSound
<1> QED  BY Zenon, <1>3, <1>6, <1>7 DEF RowsSound, StepsRows

\* Cancel skips what has not started and leaves a finished row alone.
LEMMA CancelStep ==
  ASSUME RowsSound, NEW j \in DOMAIN jobs, Cancel(j)
  PROVE  RowsSound' /\ StepsRows
<1> DEFINE b == applyCancel(jobs[j])
<1>1. ids \in Nat /\ Sound(jobs[j], ids)
  BY Zenon DEF RowsSound
<1>2. /\ jobs' = [jobs EXCEPT ![j] = b] /\ ids' = ids /\ now' = now
  BY Zenon DEF Cancel
<1>3. Sound(b, ids) /\ QuietJob(jobs[j], b) /\ (finished(jobs[j]) => b = jobs[j])
  BY Zenon, <1>1, CancelSound
<1> HIDE DEF b
<1>4. RowStep(jobs[j], b, ids)
  BY Zenon, <1>1, <1>3, QuietRow
<1>5. DOMAIN jobs' = DOMAIN jobs /\ \A k \in DOMAIN jobs : jobs'[k] = IF k = j THEN b ELSE jobs[k]
  BY Zenon, <1>2
<1>6. \A k \in DOMAIN jobs : Sound(jobs'[k], ids') /\ RowStep(jobs[k], jobs'[k], ids)
  BY Zenon, <1>1, <1>2, <1>3, <1>4, <1>5, SameRowStep DEF RowsSound
<1> QED  BY Zenon, <1>2, <1>5, <1>6 DEF RowsSound, StepsRows

\* Tick and stuttering leave the rows alone.
LEMMA SameStep ==
  ASSUME RowsSound, jobs' = jobs, ids' = ids, now' \in 1..MaxTime
  PROVE  RowsSound' /\ StepsRows
BY Zenon, SameRowStep DEF RowsSound, StepsRows

-----------------------------------------------------------------------------
\* Every step keeps the rows sound and changes each row as RowStep allows.
LEMMA NextStep ==
  ASSUME RowsSound, [Next]_vars
  PROVE  RowsSound' /\ StepsRows
<1>1. CASE ClientStep
  BY Zenon, <1>1, CreateStep, CancelStep DEF ClientStep
<1>2. CASE WorkerStep
  BY Zenon, <1>2, LeaseStep, ReapStep, HeartbeatStep, CommitStep DEF WorkerStep, LeaseEmpty
<1>3. CASE ReaperStep
  BY Zenon, <1>3, ReapStep DEF ReaperStep, Reap
<1>4. CASE Tick
  BY <1>4, SameStep, BoundAssumption DEF Tick, RowsSound
<1>5. CASE UNCHANGED vars
  BY Zenon, <1>5, SameStep DEF vars, RowsSound
<1> QED  BY Zenon, <1>1, <1>2, <1>3, <1>4, <1>5 DEF Next

\* The empty table is sound.
LEMMA InitSound == Init => RowsSound
<1> SUFFICES ASSUME Init PROVE RowsSound
  BY Zenon
<1>1. DOMAIN jobs = {}
  BY Zenon DEF Init
<1>2. IsFiniteSet(DOMAIN jobs)
  BY Zenon, <1>1, FS_EmptySet
<1> QED  BY <1>1, <1>2, BoundAssumption DEF Init, RowsSound

\* RowsSound is an inductive invariant of the store.
THEOREM RowsInvariant == Spec => []RowsSound
<1>1. RowsSound /\ [Next]_vars => RowsSound'
  BY Zenon, NextStep
<1> QED  BY InitSound, <1>1, PTL DEF Spec

\* Every row the store ever holds is a well-formed job of its plan.
THEOREM TypeCorrect == Spec => []TypeOK
<1>1. RowsSound => TypeOK
  BY Zenon DEF RowsSound, TypeOK, Sound, Raw
<1> QED  BY RowsInvariant, <1>1, PTL

\* No task runs or has succeeded before the tasks it depends on are done.
THEOREM DependenciesHold == Spec => []DependencyOrder
<1>1. RowsSound => DependencyOrder
  BY Zenon DEF RowsSound, DependencyOrder, Sound, Raw
<1> QED  BY RowsInvariant, <1>1, PTL

\* No stored row holds a pending task whose dependencies are done.
THEOREM WakeupsHold == Spec => []NoLostWakeup
<1>1. RowsSound => NoLostWakeup
  BY Zenon DEF RowsSound, NoLostWakeup, Sound
<1> QED  BY RowsInvariant, <1>1, PTL

\* The status column always says what the tasks say.
THEOREM StatusHolds == Spec => []StatusAgrees
<1>1. RowsSound => StatusAgrees
  BY Zenon DEF RowsSound, StatusAgrees, Sound
<1> QED  BY RowsInvariant, <1>1, PTL

\* Leases are whole or absent in every row.
THEOREM LeasesWhole == Spec => []LeaseWhole
<1>1. RowsSound => LeaseWhole
  BY Zenon DEF RowsSound, LeaseWhole, Sound, Raw
<1> QED  BY RowsInvariant, <1>1, PTL

\* No hosted job is ever validated.
THEOREM HostedNeverValidated == Spec => []NeverValidated
<1>1. RowsSound => NeverValidated
  BY Zenon DEF RowsSound, NeverValidated, Sound
<1> QED  BY RowsInvariant, <1>1, PTL

\* No operation changes a finished job.
THEOREM FinishedStay == Spec => FinishedFrozen
<1>1. RowsSound /\ [Next]_vars =>
        [\A j \in DOMAIN jobs : finished(jobs[j]) => j \in DOMAIN jobs' /\ jobs'[j] = jobs[j]]_vars
  BY Zenon, NextStep DEF StepsRows, RowStep
<1> QED  BY RowsInvariant, <1>1, PTL DEF Spec, FinishedFrozen

\* Attempt fencing holds of every task at every step.
THEOREM AttemptsFenced == Spec => Fencing
<1>1. RowsSound /\ [Next]_vars =>
        [\A j \in DOMAIN jobs : \A i \in DOMAIN jobs[j].tasks :
           fenced(jobs[j].tasks[i], jobs'[j].tasks[i], ids)]_vars
  BY Zenon, NextStep DEF StepsRows, RowStep
<1> QED  BY RowsInvariant, <1>1, PTL DEF Spec, Fencing

-----------------------------------------------------------------------------
(* The store implements Ledger, and so names no attempt twice *)

LP == INSTANCE LedgerProofs WITH ledger <- ledger, issued <- ids, Results <- Verdicts

\* The ledger read off the rows, before and after a step.
LEMMA LedgerRows ==
  /\ DOMAIN ledger = DOMAIN jobs
  /\ \A k \in DOMAIN jobs :
       /\ DOMAIN ledger[k] = DOMAIN jobs[k].tasks
       /\ \A m \in DOMAIN jobs[k].tasks : ledger[k][m] = entry(jobs[k].tasks[m])
  /\ DOMAIN ledger' = DOMAIN jobs'
  /\ \A k \in DOMAIN jobs' :
       /\ DOMAIN ledger'[k] = DOMAIN jobs'[k].tasks
       /\ \A m \in DOMAIN jobs'[k].tasks : ledger'[k][m] = entry(jobs'[k].tasks[m])
BY Zenon DEF ledger

Whole(t) == t \in Task /\ leaseWhole(t)

\* A quiet change of a task releases its entry or leaves it.
LEMMA QuietReleased ==
  ASSUME NEW t, NEW u, Whole(t), Whole(u), QuietTask(t, u)
  PROVE  L!Released(entry(t), entry(u))
<1> DEFINE e == entry(t)
           f == entry(u)
<1>1. /\ e = [phase |-> phase(t), attempt |-> t.attempt, fence |-> t.fence, result |-> t.verdict]
      /\ f = [phase |-> phase(u), attempt |-> u.attempt, fence |-> t.fence, result |-> t.verdict]
  BY Zenon DEF entry, QuietTask
<1>2. /\ u.attempt \in {t.attempt, 0} /\ t.attempt \in Nat
      /\ t.state \in States /\ u.state \in States
  BY Zenon DEF QuietTask, Whole, Task
<1> HIDE DEF e, f
<1>3. CASE phase(t) = "done"
  <2>1. t.state \in {"succeeded", "failed", "skipped"}
    BY Zenon, <1>2, <1>3 DEF phase, States
  <2> QED  BY Zenon, <2>1 DEF QuietTask, L!Released
<1>4. CASE phase(t) # "done" /\ phase(u) = "done"
  <2>1. e.phase # "done" /\ f = L!Moved(e, "done", u.attempt)
    BY Zenon, <1>1, <1>4 DEF L!Moved
  <2>2. u.attempt \in {0, e.attempt}
    BY Zenon, <1>1, <1>2
  <2> QED  BY Zenon, <2>1, <2>2 DEF L!Released, L!GivenUp, e, f
<1>5. CASE phase(u) = "held"
  <2>1. t.state = "leased" /\ u.state = "leased" /\ u.attempt = t.attempt
    BY Zenon, <1>2, <1>5 DEF phase, QuietTask, Whole, leaseWhole
  <2>2. f = e
    BY Zenon, <1>1, <2>1 DEF phase
  <2> QED  BY Zenon, <2>2 DEF L!Released, e, f
<1>6. CASE phase(t) # "done" /\ phase(u) = "open"
  <2>1. u.state \in {"pending", "ready"} /\ u.attempt = 0
    BY Zenon, <1>6 DEF phase, Whole, leaseWhole
  <2>2. CASE phase(t) = "held"
    <3>1. e.phase = "held" /\ f = L!Moved(e, "open", 0)
      BY Zenon, <1>1, <1>6, <2>1, <2>2 DEF L!Moved
    <3> QED  BY Zenon, <3>1 DEF L!Released, L!Lapsed, e, f
  <2>3. CASE phase(t) = "open"
    <3>1. t.attempt = 0
      BY Zenon, <2>3 DEF phase, Whole, leaseWhole
    <3>2. f = e
      BY Zenon, <1>1, <1>6, <2>1, <2>3, <3>1
    <3> QED  BY Zenon, <3>2 DEF L!Released, e, f
  <2> QED  BY Zenon, <1>6, <2>2, <2>3 DEF phase
<1> QED  BY Zenon, <1>3, <1>4, <1>5, <1>6 DEF phase

\* In sound rows every task is whole.
LEMMA RowsWhole ==
  /\ RowsSound => \A k \in DOMAIN jobs : \A m \in DOMAIN jobs[k].tasks : Whole(jobs[k].tasks[m])
  /\ RowsSound' => \A k \in DOMAIN jobs' : \A m \in DOMAIN jobs'[k].tasks : Whole(jobs'[k].tasks[m])
BY Zenon DEF RowsSound, Sound, Raw, Job, Whole

\* Every task of the rows, but for those of a set of pairs, changes quietly.
QuietBut(S) ==
  \A k \in DOMAIN jobs :
    /\ k \in DOMAIN jobs' /\ DOMAIN jobs'[k].tasks = DOMAIN jobs[k].tasks
    /\ \A m \in DOMAIN jobs[k].tasks :
         <<k, m>> \notin S => QuietTask(jobs[k].tasks[m], jobs'[k].tasks[m])

\* Then the entries of the others are released or left.
LEMMA QuietEntries ==
  ASSUME RowsSound, RowsSound', NEW S, QuietBut(S)
  PROVE  /\ L!SameTasks
         /\ \A k \in DOMAIN ledger : \A m \in DOMAIN ledger[k] :
              <<k, m>> \notin S => L!Released(ledger[k][m], ledger'[k][m])
<1>1. L!SameTasks
  BY Zenon, LedgerRows DEF L!SameTasks, QuietBut
<1>2. ASSUME NEW k \in DOMAIN ledger, NEW m \in DOMAIN ledger[k], <<k, m>> \notin S
      PROVE  L!Released(ledger[k][m], ledger'[k][m])
  <2> DEFINE t == jobs[k].tasks[m]
             u == jobs'[k].tasks[m]
  <2>1. k \in DOMAIN jobs /\ m \in DOMAIN jobs[k].tasks /\ ledger[k][m] = entry(t)
    BY Zenon, LedgerRows
  <2>2. k \in DOMAIN jobs' /\ m \in DOMAIN jobs'[k].tasks /\ QuietTask(t, u)
    BY Zenon, <1>2, <2>1 DEF QuietBut
  <2>3. ledger'[k][m] = entry(u)
    BY Zenon, <2>2, LedgerRows
  <2>4. Whole(t) /\ Whole(u)
    BY Zenon, <2>1, <2>2, RowsWhole
  <2> HIDE DEF t, u
  <2> QED  BY Zenon, <2>1, <2>2, <2>3, <2>4, QuietReleased
<1> QED  BY Zenon, <1>1, <1>2

\* A step that grants and stores nothing releases or leaves every entry.
LEMMA QuietAll ==
  ASSUME RowsSound, RowsSound', QuietBut({})
  PROVE  L!AllReleased
<1> DEFINE none == {}
<1>1. \A k, m : <<k, m>> \notin none
  BY Zenon
<1> HIDE DEF none
<1>2. QuietBut(none)
  BY Zenon DEF none
<1>3. /\ L!SameTasks
      /\ \A k \in DOMAIN ledger : \A m \in DOMAIN ledger[k] :
           <<k, m>> \notin none => L!Released(ledger[k][m], ledger'[k][m])
  BY <1>2, QuietEntries, Zenon
<1> QED  BY <1>1, <1>3, Zenon DEF L!AllReleased

\* With the same jobs before and after, it is a Release.
LEMMA QuietRelease ==
  ASSUME RowsSound, RowsSound', DOMAIN jobs' = DOMAIN jobs, QuietBut({}), ids' = ids
  PROVE  L!Release
BY Zenon, QuietAll, LedgerRows DEF L!Release

-----------------------------------------------------------------------------
(* One lemma per action *)

LEMMA ReapReleases ==
  ASSUME RowsSound, NEW t \in clockReads, jobs' = expireTx(jobs, t), UNCHANGED <<now, ids>>
  PROVE  L!Release
<1>1. RowsSound'
  BY Zenon, ReapStep
<1>2. /\ DOMAIN jobs' = DOMAIN jobs
      /\ \A j \in DOMAIN jobs : QuietJob(jobs[j], jobs'[j])
  BY Zenon, ExpireRows DEF RowsSound
<1> QED  BY Zenon, <1>1, <1>2, QuietRelease DEF QuietBut, QuietJob, SameJob

LEMMA CancelReleases ==
  ASSUME RowsSound, NEW j \in DOMAIN jobs, Cancel(j)
  PROVE  L!Release
<1> DEFINE b == applyCancel(jobs[j])
<1>1. RowsSound' /\ ids \in Nat /\ Sound(jobs[j], ids)
  BY Zenon, CancelStep DEF RowsSound
<1>2. jobs' = [jobs EXCEPT ![j] = b] /\ ids' = ids /\ QuietJob(jobs[j], b)
  BY Zenon, <1>1, CancelSound DEF Cancel
<1> HIDE DEF b
<1>3. \A k \in DOMAIN jobs : QuietJob(jobs[k], jobs'[k])
  BY Zenon, <1>2, QuietReflexive
<1> QED  BY Zenon, <1>1, <1>2, <1>3, QuietRelease DEF QuietBut, QuietJob, SameJob

LEMMA HeartbeatReleases ==
  ASSUME RowsSound, NEW w \in Workers, NEW j \in DOMAIN jobs, NEW i \in DOMAIN jobs[j].tasks,
         NEW attempt, NEW t \in clockReads, Heartbeat(w, j, i, attempt, t)
  PROVE  L!Release
<1> DEFINE b == [jobs[j] EXCEPT !.tasks[i] = applyHeartbeat(jobs[j].tasks[i], t)]
<1>1. RowsSound' /\ ids \in Nat /\ Sound(jobs[j], ids) /\ t \in Nat \ {0}
  BY HeartbeatStep DEF RowsSound, clockReads
<1>2. jobs' = [jobs EXCEPT ![j] = b] /\ ids' = ids /\ jobs[j].tasks[i].state = "leased"
  BY Zenon DEF Heartbeat, canHeartbeat
<1>3. QuietJob(jobs[j], b)
  BY Zenon, <1>1, <1>2, HeartbeatSound
<1> HIDE DEF b
<1>4. \A k \in DOMAIN jobs : QuietJob(jobs[k], jobs'[k])
  BY Zenon, <1>2, <1>3, QuietReflexive
<1> QED  BY Zenon, <1>1, <1>2, <1>4, QuietRelease DEF QuietBut, QuietJob, SameJob

LEMMA CreatePosts ==
  ASSUME RowsSound, NEW id \in JobIDs, NEW built \in clockReads, NEW t \in clockReads,
         NEW opts \in CreateOpts(built), Create(id, opts, built, t)
  PROVE  L!Post(id)
<1> DEFINE rows == expireTx(jobs, t)
<1>1. RowsSound' /\ \A i \in DOMAIN jobs'[id].tasks : Untouched(jobs'[id].tasks[i])
  BY Zenon, CreateStep
<1>2. /\ DOMAIN rows = DOMAIN jobs
      /\ \A j \in DOMAIN jobs : QuietJob(jobs[j], rows[j])
  BY Zenon, ExpireRows DEF RowsSound
<1> DEFINE job == buildJob(opts, built)
<1> HIDE DEF rows, job
<1>a. /\ id \notin DOMAIN jobs /\ ids' = ids
      /\ jobs' = [j \in DOMAIN rows \cup {id} |-> IF j = id THEN job ELSE rows[j]]
  BY Zenon DEF Create, rows, job
<1>3. /\ id \notin DOMAIN jobs /\ ids' = ids /\ DOMAIN jobs' = DOMAIN rows \cup {id}
      /\ \A j \in DOMAIN rows : jobs'[j] = rows[j]
  BY Zenon, <1>2, <1>a
<1>4. QuietBut({})
  BY Zenon, <1>2, <1>3 DEF QuietBut, QuietJob, SameJob
<1>5. L!AllReleased
  BY Zenon, <1>1, <1>4, QuietAll
<1>6. ASSUME NEW i \in DOMAIN jobs'[id].tasks
      PROVE  L!Fresh(entry(jobs'[id].tasks[i]))
  <2> DEFINE u == jobs'[id].tasks[i]
  <2>1. Untouched(u)
    BY Zenon, <1>1
  <2> HIDE DEF u
  <2>2. L!Fresh(entry(u))
    BY Zenon, <2>1 DEF Untouched, entry, phase, L!Fresh
  <2> QED  BY Zenon, <2>2 DEF u
<1>7. /\ id \in DOMAIN jobs' /\ DOMAIN ledger' = DOMAIN ledger \cup {id} /\ id \notin DOMAIN ledger
  BY Zenon, <1>2, <1>3, LedgerRows
<1>8. \A i \in DOMAIN ledger'[id] : L!Fresh(ledger'[id][i])
  BY SMTT(30), <1>6, <1>7, LedgerRows
<1> QED  BY Zenon, <1>3, <1>5, <1>7, <1>8 DEF L!Post

\* Lease: what the expiry left ready is granted under the next attempt, whether the
\* task was ready before or its lease had run out.
LEMMA LeaseGrants ==
  ASSUME RowsSound, NEW w \in Workers, NEW want, NEW j \in DOMAIN jobs,
         NEW i \in DOMAIN jobs[j].tasks, NEW t \in clockReads, Lease(w, want, j, i, t)
  PROVE  L!Grant(j, i)
<1> DEFINE rows == expireTx(jobs, t)
           new == leaseRow(rows[j], i, ids + 1, w, t)
<1>0. RowsSound'
  BY LeaseStep, Zenon
<1>1. ids \in Nat /\ t \in Nat \ {0} /\ now \in Nat
  BY DEF RowsSound, clockReads
<1>2. /\ DOMAIN rows = DOMAIN jobs
      /\ \A k \in DOMAIN jobs : Sound(rows[k], ids) /\ QuietJob(jobs[k], rows[k])
  BY Zenon, <1>1, ExpireRows DEF RowsSound
<1>3. i \in DOMAIN rows[j].tasks /\ rows[j].tasks[i].state = "ready"
  <2>1. i \in readyTasks(rows[j])
    BY Zenon DEF Lease, canLease, pickReady
  <2>2. DOMAIN rows[j].tasks = DOMAIN rows[j].plan
    BY Zenon, <1>2 DEF Sound, Raw, Job
  <2> QED  BY Zenon, <2>1, <2>2 DEF readyTasks
<1> HIDE DEF rows
<1>a. Sound(rows[j], ids)
  BY Zenon, <1>2
<1>4. /\ Sound(new, ids + 1) /\ SameJob(rows[j], new)
      /\ new.tasks[i].state = "leased" /\ new.tasks[i].attempt = ids + 1 /\ new.tasks[i].worker = w
      /\ new.tasks[i].fence = rows[j].tasks[i].fence + 1
      /\ new.tasks[i].verdict = rows[j].tasks[i].verdict
      /\ \A k \in DOMAIN rows[j].tasks \ {i} : QuietTask(rows[j].tasks[k], new.tasks[k])
  <2>1. HasLeased(rows[j], new, ids, i, w)
    BY Zenon, <1>1, <1>a, <1>3, LeaseRow
  <2> QED  BY Zenon, <2>1 DEF HasLeased
<1>5. jobs' = [rows EXCEPT ![j] = new] /\ ids' = ids + 1
  BY Zenon DEF Lease, rows
<1> HIDE DEF new
<1>6. DOMAIN jobs' = DOMAIN jobs /\ jobs'[j] = new /\ \A k \in DOMAIN jobs \ {j} : jobs'[k] = rows[k]
  BY Zenon, <1>2, <1>5
<1>7. QuietBut({<<j, i>>})
  <2> SUFFICES ASSUME NEW k \in DOMAIN jobs
               PROVE  /\ DOMAIN jobs'[k].tasks = DOMAIN jobs[k].tasks
                      /\ \A m \in DOMAIN jobs[k].tasks :
                           <<k, m>> # <<j, i>> => QuietTask(jobs[k].tasks[m], jobs'[k].tasks[m])
    BY Zenon, <1>6 DEF QuietBut
  <2>1. CASE k # j
    BY Zenon, <1>2, <1>6, <2>1 DEF QuietJob, SameJob
  <2>2. CASE k = j
    <3>1. /\ DOMAIN rows[j].tasks = DOMAIN jobs[j].tasks /\ DOMAIN new.tasks = DOMAIN jobs[j].tasks
          /\ \A m \in DOMAIN jobs[j].tasks : QuietTask(jobs[j].tasks[m], rows[j].tasks[m])
      BY Zenon, <1>2, <1>4 DEF QuietJob, SameJob
    <3>2. ASSUME NEW m \in DOMAIN jobs[j].tasks, m # i
          PROVE  QuietTask(jobs[j].tasks[m], new.tasks[m])
      BY ZenonT(30), <1>4, <3>1, <3>2 DEF QuietTask
    <3> QED  BY Zenon, <1>6, <2>2, <3>1, <3>2
  <2> QED  BY Zenon, <2>1, <2>2
<1>8. L!Granted(entry(jobs[j].tasks[i]), entry(new.tasks[i]))
  <2> DEFINE a == jobs[j].tasks[i]
             r == rows[j].tasks[i]
             u == new.tasks[i]
  <2>1. QuietTask(a, r) /\ a.state \in States
    BY Zenon, <1>2, RowsWhole DEF QuietJob, Whole, Task
  <2>2. r.state = "ready" /\ u.state = "leased" /\ u.attempt = ids + 1 /\ u.fence = r.fence + 1
        /\ u.verdict = r.verdict
    BY Zenon, <1>3, <1>4
  <2> HIDE DEF a, r, u
  <2>3. u.fence = a.fence + 1 /\ u.verdict = a.verdict /\ phase(a) # "done"
    BY Zenon, <2>1, <2>2 DEF QuietTask, phase, States
  <2>4. L!Granted(entry(a), entry(u))
    BY <2>2, <2>3 DEF L!Granted, L!Moved, entry, phase
  <2> QED  BY Zenon, <2>4 DEF a, u
<1>9. /\ L!SameTasks
      /\ \A k \in DOMAIN ledger : \A m \in DOMAIN ledger[k] :
           <<k, m>> \notin {<<j, i>>} => L!Released(ledger[k][m], ledger'[k][m])
  BY ZenonT(30), <1>0, <1>7, QuietEntries
<1>10. /\ DOMAIN ledger' = DOMAIN ledger
       /\ ledger[j][i] = entry(jobs[j].tasks[i]) /\ ledger'[j][i] = entry(new.tasks[i])
  <2>1. i \in DOMAIN new.tasks
    BY Zenon, <1>3, <1>4 DEF SameJob
  <2> QED  BY Zenon, <1>6, <2>1, LedgerRows
<1> QED  BY Zenon, <1>5, <1>8, <1>9, <1>10 DEF L!Grant

LEMMA CommitReports ==
  ASSUME RowsSound, NEW j \in DOMAIN jobs, NEW i \in DOMAIN jobs[j].tasks, NEW attempt,
         NEW v \in Verdicts, NEW fail \in BOOLEAN, Commit(j, i, attempt, v, fail)
  PROVE  L!Report(j, i)
<1> DEFINE a == jobs[j]
           b == commitRow(a, i, v, fail)
<1>1. RowsSound' /\ ids \in Nat /\ Sound(a, ids)
  BY Zenon, CommitStep DEF RowsSound
<1>2. a.tasks[i].state = "leased" /\ jobs' = [jobs EXCEPT ![j] = b] /\ ids' = ids
  BY Zenon DEF Commit, canCommit
<1>3. /\ SameJob(a, b) /\ b.tasks[i].state \in {"failed", "succeeded"}
      /\ b.tasks[i].fence = a.tasks[i].fence /\ b.tasks[i].attempt = a.tasks[i].attempt
      /\ b.tasks[i].verdict = v
      /\ \A k \in DOMAIN a.tasks \ {i} : QuietTask(a.tasks[k], b.tasks[k])
  <2>1. HasCommitted(a, b, ids, i, v)
    BY Zenon, <1>1, <1>2, CommitRow
  <2> QED  BY Zenon, <2>1 DEF HasCommitted
<1> HIDE DEF b
<1>4. DOMAIN jobs' = DOMAIN jobs /\ jobs'[j] = b /\ \A k \in DOMAIN jobs \ {j} : jobs'[k] = jobs[k]
  BY Zenon, <1>2
<1>5. QuietBut({<<j, i>>})
  <2> SUFFICES ASSUME NEW k \in DOMAIN jobs
               PROVE  /\ DOMAIN jobs'[k].tasks = DOMAIN jobs[k].tasks
                      /\ \A m \in DOMAIN jobs[k].tasks :
                           <<k, m>> # <<j, i>> => QuietTask(jobs[k].tasks[m], jobs'[k].tasks[m])
    BY Zenon, <1>4 DEF QuietBut
  <2>1. CASE k # j
    BY Zenon, <1>4, <2>1, QuietReflexive DEF QuietJob
  <2>2. CASE k = j
    BY Zenon, <1>3, <1>4, <2>2 DEF SameJob
  <2> QED  BY Zenon, <2>1, <2>2
<1>6. L!Reported(entry(a.tasks[i]), entry(b.tasks[i]))
  <2> DEFINE t == a.tasks[i]
             u == b.tasks[i]
  <2>1. /\ t.state = "leased" /\ u.state \in {"failed", "succeeded"}
        /\ u.fence = t.fence /\ u.attempt = t.attempt /\ u.verdict = v
    BY Zenon, <1>2, <1>3
  <2> HIDE DEF t, u
  <2>2. L!Reported(entry(t), entry(u))
    BY <2>1 DEF L!Reported, L!Moved, entry, phase
  <2> QED  BY Zenon, <2>2 DEF t, u
<1>7. /\ L!SameTasks
      /\ \A k \in DOMAIN ledger : \A m \in DOMAIN ledger[k] :
           <<k, m>> \notin {<<j, i>>} => L!Released(ledger[k][m], ledger'[k][m])
  BY ZenonT(30), <1>1, <1>5, QuietEntries
<1>8. /\ DOMAIN ledger' = DOMAIN ledger
      /\ ledger[j][i] = entry(a.tasks[i]) /\ ledger'[j][i] = entry(b.tasks[i])
  <2>1. i \in DOMAIN b.tasks
    BY Zenon, <1>3 DEF SameJob
  <2> QED  BY Zenon, <1>4, <2>1, LedgerRows
<1> QED  BY Zenon, <1>2, <1>6, <1>7, <1>8 DEF L!Report

-----------------------------------------------------------------------------
\* Every step of the store is a step of the ledger or leaves it alone.
LEMMA StepRefines ==
  ASSUME RowsSound, [Next]_vars
  PROVE  [L!Next]_(L!vars)
<1>1. CASE ClientStep
  <2>1. ASSUME NEW id \in JobIDs, NEW built \in clockReads, NEW t \in clockReads,
               NEW opts \in CreateOpts(built), Create(id, opts, built, t)
        PROVE  L!Next
    <3>1. L!Post(id)
      BY Zenon, <2>1, CreatePosts
    <3>2. id \in DOMAIN ledger'
      BY Zenon, <3>1 DEF L!Post
    <3> QED  BY Zenon, <3>1, <3>2 DEF L!Next
  <2> QED  BY Zenon, <1>1, <2>1, CancelReleases DEF ClientStep, L!Next
<1>2. CASE WorkerStep
  <2>1. ASSUME NEW j \in DOMAIN jobs, NEW i \in DOMAIN jobs[j].tasks,
               L!Grant(j, i) \/ L!Report(j, i)
        PROVE  L!Next
    BY Zenon, <2>1, LedgerRows DEF L!Next
  <2>2. ASSUME L!Release PROVE L!Next
    BY Zenon, <2>2 DEF L!Next
  <2> QED  BY Zenon, <1>2, <2>1, <2>2, LeaseGrants, ReapReleases, HeartbeatReleases, CommitReports
             DEF WorkerStep, LeaseEmpty
<1>3. CASE ReaperStep
  BY Zenon, <1>3, ReapReleases DEF ReaperStep, Reap, L!Next
<1>4. CASE Tick \/ UNCHANGED vars
  <2>1. jobs' = jobs /\ ids' = ids
    BY Zenon, <1>4 DEF Tick, vars
  <2> QED  BY Zenon, <2>1 DEF L!vars, ledger
<1> QED  BY Zenon, <1>1, <1>2, <1>3, <1>4 DEF Next

\* The Postgres store implements Ledger.
THEOREM LedgerImplemented == Spec => ImplementsLedger
<1>1. Init => L!Init
  BY Zenon DEF Init, L!Init, ledger
<1>2. RowsSound /\ [Next]_vars => [L!Next]_(L!vars)
  BY Zenon, StepRefines
<1> QED  BY <1>1, <1>2, RowsInvariant, PTL DEF Spec, ImplementsLedger, L!Spec

\* No attempt id is ever in two tasks of the store.
THEOREM AttemptsNeverShared == Spec => []AttemptsUnique
<1>1. LP!Spec => []LP!Unique
  BY Zenon, LP!LedgerUnique
<1>2. L!Init <=> LP!Init
  BY Zenon DEF L!Init, LP!Init
<1>3. [L!Next]_(L!vars) <=> [LP!Next]_(LP!vars)
  BY Zenon DEF L!Next, L!Post, L!Release, L!Grant, L!Report, L!AllReleased, L!SameTasks, L!Fresh,
        L!Released, L!Lapsed, L!GivenUp, L!Granted, L!Reported, L!Moved, L!vars,
        LP!Next, LP!Post, LP!Release, LP!Grant, LP!Report, LP!AllReleased, LP!SameTasks, LP!Fresh,
        LP!Released, LP!Lapsed, LP!GivenUp, LP!Granted, LP!Reported, LP!Moved, LP!vars
<1>4. L!Unique <=> LP!Unique
  BY Zenon DEF L!Unique, LP!Unique
<1> QED  BY <1>1, <1>2, <1>3, <1>4, LedgerImplemented, PTL
           DEF ImplementsLedger, AttemptsUnique, L!Spec, LP!Spec

-----------------------------------------------------------------------------
(* Admission: gateways, quotas, lease caps and slots *)

\* An existing row that is active after a step was active before it, and holds the
\* same gateways for the same service.
LEMMA Kept ==
  ASSUME NEW n \in Nat, NEW a, NEW b, Sound(a, n), NEW m \in Nat, Sound(b, m), RowStep(a, b, n),
         b.status \in {"pending", "running"}
  PROVE  /\ a.status \in {"pending", "running"}
         /\ a.service = b.service /\ occupancyKeys(a) = occupancyKeys(b)
<1>1. ~finished(b)
  BY Zenon, ActiveUnfinished
<1>2. ~finished(a)
  BY Zenon, <1>1 DEF RowStep
<1>3. a.status \in {"pending", "running"}
  BY Zenon, <1>2, ActiveUnfinished
<1> QED  BY Zenon, <1>3 DEF RowStep, SameJob, occupancyKeys

\* The rows of a step that are not new: none becomes active again.
LEMMA KeptRows ==
  ASSUME RowsSound, [Next]_vars, NEW k \in DOMAIN jobs, k \in active(jobs')
  PROVE  /\ k \in active(jobs)
         /\ jobs[k].service = jobs'[k].service /\ occupancyKeys(jobs[k]) = occupancyKeys(jobs'[k])
<1>1. RowsSound' /\ StepsRows
  BY Zenon, NextStep
<1>2. /\ Sound(jobs[k], ids) /\ Sound(jobs'[k], ids') /\ RowStep(jobs[k], jobs'[k], ids)
      /\ ids \in Nat /\ ids' \in Nat /\ jobs'[k].status \in {"pending", "running"}
  BY Zenon, <1>1 DEF RowsSound, StepsRows, active
<1>3. /\ jobs[k].status \in {"pending", "running"}
      /\ jobs[k].service = jobs'[k].service /\ occupancyKeys(jobs[k]) = occupancyKeys(jobs'[k])
  BY Zenon, <1>2, Kept
<1> QED  BY Zenon, <1>3 DEF active

\* The step that adds a row: a Create that found the gateways free and the service
\* under its quota among the rows its own expiry left.
Admitted(id) ==
  \E t \in clockReads :
    LET rows == expireTx(jobs, t) IN
    /\ id \notin DOMAIN jobs
    /\ ~gatewayBusy(rows, active(rows), jobs'[id])
    /\ ~overActive(rows, active(rows), jobs'[id])
    /\ jobs' = [j \in DOMAIN jobs \cup {id} |-> IF j = id THEN jobs'[id] ELSE rows[j]]

\* No step but an admitted Create adds a row.
LEMMA OnlyCreateAdds ==
  ASSUME [Next]_vars
  PROVE  DOMAIN jobs' = DOMAIN jobs \/ \E id \in JobIDs : Admitted(id)
<1>1. ASSUME NEW t PROVE DOMAIN expireTx(jobs, t) = DOMAIN jobs
  BY Zenon DEF expireTx
<1>2. ASSUME NEW id \in JobIDs, NEW built \in clockReads, NEW t \in clockReads,
             NEW opts \in CreateOpts(built), Create(id, opts, built, t)
      PROVE  Admitted(id)
  <2> DEFINE rows == expireTx(jobs, t)
             job == buildJob(opts, built)
  <2>1. /\ id \notin DOMAIN jobs
        /\ ~gatewayBusy(rows, active(rows), job) /\ ~overActive(rows, active(rows), job)
        /\ jobs' = [j \in DOMAIN rows \cup {id} |-> IF j = id THEN job ELSE rows[j]]
    BY Zenon, <1>2 DEF Create
  <2>2. DOMAIN rows = DOMAIN jobs
    BY Zenon, <1>1
  <2> HIDE DEF rows, job
  <2>3. jobs'[id] = job
    BY Zenon, <2>1
  <2>4. /\ id \notin DOMAIN jobs
        /\ ~gatewayBusy(rows, active(rows), jobs'[id]) /\ ~overActive(rows, active(rows), jobs'[id])
        /\ jobs' = [j \in DOMAIN jobs \cup {id} |-> IF j = id THEN jobs'[id] ELSE rows[j]]
    BY Zenon, <2>1, <2>2, <2>3
  <2> QED  BY Zenon, <2>4 DEF Admitted, rows
<1>3. ASSUME NEW j \in DOMAIN jobs, Cancel(j) PROVE DOMAIN jobs' = DOMAIN jobs
  BY Zenon, <1>3 DEF Cancel
<1>4. CASE WorkerStep
  BY <1>1, <1>4 DEF WorkerStep, Lease, LeaseEmpty, Heartbeat, Commit
<1>5. CASE ReaperStep
  BY Zenon, <1>1, <1>5 DEF ReaperStep, Reap
<1>6. CASE Tick \/ UNCHANGED vars
  BY Zenon, <1>6 DEF Tick, vars
<1> QED  BY Zenon, <1>2, <1>3, <1>4, <1>5, <1>6 DEF Next, ClientStep

-----------------------------------------------------------------------------
\* Every step keeps gateways exclusive.
LEMMA GatewayStep ==
  ASSUME RowsSound, GatewayExclusive, [Next]_vars
  PROVE  GatewayExclusive'
<1>1. CASE DOMAIN jobs' = DOMAIN jobs
  <2>1. active(jobs') \subseteq DOMAIN jobs
    BY Zenon, <1>1 DEF active
  <2> QED  BY Zenon, <2>1, KeptRows DEF GatewayExclusive
<1>2. ASSUME NEW id \in JobIDs, Admitted(id) PROVE GatewayExclusive'
  <2> PICK t \in clockReads :
        /\ id \notin DOMAIN jobs
        /\ ~gatewayBusy(expireTx(jobs, t), active(expireTx(jobs, t)), jobs'[id])
        /\ jobs' = [j \in DOMAIN jobs \cup {id} |-> IF j = id THEN jobs'[id] ELSE expireTx(jobs, t)[j]]
    BY Zenon, <1>2 DEF Admitted
  <2> DEFINE rows == expireTx(jobs, t)
  <2>1. DOMAIN rows = DOMAIN jobs
    BY Zenon DEF expireTx
  <2>2. ~gatewayBusy(rows, active(rows), jobs'[id])
    BY Zenon
  <2>3. active(jobs') \subseteq DOMAIN jobs \cup {id}
    BY Zenon DEF active
  <2>4. \A k \in DOMAIN jobs : jobs'[k] = rows[k]
    BY Zenon
  <2> HIDE DEF rows
  <2>5. ASSUME NEW k \in DOMAIN jobs, k \in active(jobs')
        PROVE  occupancyKeys(jobs'[k]) \cap occupancyKeys(jobs'[id]) = {}
    <3>1. k \in active(rows) /\ occupies(rows[k])
      BY Zenon, <2>1, <2>4, <2>5 DEF active, occupies
    <3> QED  BY Zenon, <2>2, <2>4, <3>1 DEF gatewayBusy
  <2>6. ASSUME NEW k \in DOMAIN jobs, k \in active(jobs'), NEW l \in DOMAIN jobs, l \in active(jobs'),
               k # l
        PROVE  occupancyKeys(jobs'[k]) \cap occupancyKeys(jobs'[l]) = {}
    BY Zenon, <2>6, KeptRows DEF GatewayExclusive
  <2> QED  BY Zenon, <2>3, <2>5, <2>6 DEF GatewayExclusive
<1> QED  BY Zenon, <1>1, <1>2, OnlyCreateAdds

\* Two unfinished jobs never share a gateway.
THEOREM GatewaysExclusive == Spec => []GatewayExclusive
<1>1. Init => GatewayExclusive
  BY Zenon DEF Init, GatewayExclusive, active
<1>2. RowsSound /\ GatewayExclusive /\ [Next]_vars => GatewayExclusive'
  BY Zenon, GatewayStep
<1> QED  BY <1>1, <1>2, RowsInvariant, PTL DEF Spec

-----------------------------------------------------------------------------
\* Every step keeps every service within its quota of unfinished jobs.
LEMMA QuotaStep ==
  ASSUME RowsSound, ActiveQuota, [Next]_vars
  PROVE  ActiveQuota'
<1> SUFFICES ASSUME NEW s \in Services
             PROVE  Cardinality({j \in active(jobs') : jobs'[j].service = s}) <= ActiveJobs
  BY Zenon DEF ActiveQuota
<1> DEFINE S == {j \in active(jobs) : jobs[j].service = s}
           T == {j \in active(jobs') : jobs'[j].service = s}
<1>0. ActiveJobs \in Nat /\ Cardinality(S) <= ActiveJobs
  BY Zenon, QuotaAssumption DEF ActiveQuota
<1>1. IsFiniteSet(S)
  BY Zenon, FS_Subset DEF RowsSound, active
<1>2. T \cap DOMAIN jobs \subseteq S
  BY Zenon, KeptRows
<1>3. ASSUME NEW U \in SUBSET S
      PROVE  IsFiniteSet(U) /\ Cardinality(U) \in Nat /\ Cardinality(U) <= ActiveJobs
  <2>1. IsFiniteSet(U) /\ Cardinality(U) <= Cardinality(S)
    BY Zenon, <1>1, FS_Subset
  <2>2. Cardinality(U) \in Nat /\ Cardinality(S) \in Nat
    BY Zenon, <1>1, <2>1, FS_CardinalityType
  <2> QED  BY <1>0, <2>1, <2>2
<1>4. CASE DOMAIN jobs' = DOMAIN jobs
  <2>1. T \subseteq S
    BY Zenon, <1>2, <1>4 DEF active
  <2> QED  BY Zenon, <1>3, <2>1
<1>5. ASSUME NEW id \in JobIDs, Admitted(id) PROVE Cardinality(T) <= ActiveJobs
  <2> PICK t \in clockReads :
        /\ id \notin DOMAIN jobs
        /\ ~overActive(expireTx(jobs, t), active(expireTx(jobs, t)), jobs'[id])
        /\ jobs' = [j \in DOMAIN jobs \cup {id} |-> IF j = id THEN jobs'[id] ELSE expireTx(jobs, t)[j]]
    BY Zenon, <1>5 DEF Admitted
  <2> DEFINE rows == expireTx(jobs, t)
             V == {j \in active(rows) : rows[j].service = s}
             full == {j \in active(rows) : rows[j].service = jobs'[id].service /\ occupies(rows[j])}
  <2>1. DOMAIN rows = DOMAIN jobs
    BY Zenon DEF expireTx
  <2>2. ~overActive(rows, active(rows), jobs'[id])
    BY Zenon
  <2>3. /\ active(jobs') \subseteq DOMAIN jobs \cup {id}
        /\ \A k \in DOMAIN jobs : jobs'[k] = rows[k]
    BY Zenon DEF active
  <2> HIDE DEF rows
  <2>4. V = T \cap DOMAIN jobs /\ id \notin V
    <3>1. V \subseteq DOMAIN jobs /\ \A k \in DOMAIN jobs : k \in active(rows) <=> k \in active(jobs')
      BY Zenon, <2>1, <2>3 DEF active
    <3> QED  BY Zenon, <2>1, <2>3, <3>1
  <2>5. IsFiniteSet(V) /\ Cardinality(V) \in Nat /\ Cardinality(V) <= ActiveJobs
    <3>1. V \in SUBSET S
      BY Zenon, <1>2, <2>4
    <3> QED  BY Zenon, <1>3, <3>1
  <2>6. CASE jobs'[id].service # s
    <3>1. T = V
      BY Zenon, <2>3, <2>4, <2>6
    <3> QED  BY ZenonT(30), <2>5, <3>1
  <2>7. CASE jobs'[id].service = s
    <3>1. full = V
      BY Zenon, <2>7 DEF occupies, active
    <3>2. ~(Cardinality(V) >= ActiveJobs)
      BY ZenonT(30), <2>2, <3>1 DEF overActive
    <3>3. IsFiniteSet(V \cup {id}) /\ Cardinality(V \cup {id}) = Cardinality(V) + 1
      BY ZenonT(30), <2>4, <2>5, FS_AddElement
    <3>4. T \subseteq V \cup {id}
      BY Zenon, <2>3, <2>4
    <3>5. IsFiniteSet(T) /\ Cardinality(T) <= Cardinality(V \cup {id})
      BY Zenon, <3>3, <3>4, FS_Subset
    <3>6. Cardinality(T) \in Nat
      BY Zenon, <3>5, FS_CardinalityType
    <3> QED  BY Zenon, <1>0, <2>5, <3>2, <3>3, <3>5, <3>6, WithinOne
  <2> QED  BY Zenon, <2>6, <2>7
<1> QED  BY Zenon, <1>4, <1>5, OnlyCreateAdds

\* No service ever holds more unfinished jobs than its quota.
THEOREM QuotaHolds == Spec => []ActiveQuota
<1>1. Init => ActiveQuota
  <2> SUFFICES ASSUME Init PROVE ActiveQuota
    BY Zenon
  <2>1. \A s \in Services : {j \in active(jobs) : jobs[j].service = s} = {}
    BY Zenon DEF Init, active
  <2> QED  BY <2>1, FS_EmptySet, QuotaAssumption DEF ActiveQuota
<1>2. RowsSound /\ ActiveQuota /\ [Next]_vars => ActiveQuota'
  BY Zenon, QuotaStep
<1> QED  BY <1>1, <1>2, RowsInvariant, PTL DEF Spec

-----------------------------------------------------------------------------
(* Lease caps *)

\* Row b holds no lease that row a does not.
HoldsNoMore(a, b) ==
  /\ a.service = b.service
  /\ \A i \in DOMAIN b.tasks :
       b.tasks[i].state = "leased" =>
         i \in DOMAIN a.tasks /\ a.tasks[i].state = "leased" /\ a.tasks[i].worker = b.tasks[i].worker

\* Rows b hold no lease that rows a do not.
NoGrant(a, b) ==
  \A j \in active(b) :
    \/ \A i \in DOMAIN b[j].tasks : b[j].tasks[i].state # "leased"
    \/ j \in active(a) /\ HoldsNoMore(a[j], b[j])

\* LeaseCaps of any rows, with the finiteness that cardinalities need.
Capped(rows) ==
  /\ \A s \in Services : /\ IsFiniteSet(leasedFor(rows, active(rows), s))
                         /\ serviceLoad(rows, active(rows), s) <= LeasedTasks
  /\ \A w \in Workers : /\ IsFiniteSet(leasedBy(rows, active(rows), w))
                        /\ countLeased(rows, active(rows), w) <= slots(w)

\* A quiet change leaves a row with no lease it did not hold.
LEMMA QuietHolds ==
  ASSUME NEW a, NEW b, QuietJob(a, b)
  PROVE  HoldsNoMore(a, b)
BY Zenon DEF QuietJob, SameJob, QuietTask, HoldsNoMore

\* Cardinalities of finite sets are ordered by inclusion.
LEMMA SubsetBound ==
  ASSUME NEW S, IsFiniteSet(S), NEW T \in SUBSET S, NEW n \in Int, Cardinality(S) <= n
  PROVE  IsFiniteSet(T) /\ Cardinality(T) <= n
<1>1. IsFiniteSet(T) /\ Cardinality(T) <= Cardinality(S)
  BY Zenon, FS_Subset
<1>2. Cardinality(T) \in Nat /\ Cardinality(S) \in Nat
  BY Zenon, <1>1, FS_CardinalityType
<1> QED  BY <1>1, <1>2

\* A worker's clipped slot count is a number.
LEMMA SlotsType == \A w \in Workers : slots(w) \in Int
BY SlotAssumption DEF slots

\* Rows that grant nothing stay capped.
LEMMA NoGrantCapped ==
  ASSUME NEW a, NEW b, Capped(a), NoGrant(a, b)
  PROVE  Capped(b)
<1>1. ASSUME NEW s \in Services
      PROVE  IsFiniteSet(leasedFor(b, active(b), s)) /\ serviceLoad(b, active(b), s) <= LeasedTasks
  <2>1. leasedFor(b, active(b), s) \subseteq leasedFor(a, active(a), s)
    BY DEF leasedFor, NoGrant, HoldsNoMore
  <2>2. IsFiniteSet(leasedFor(a, active(a), s)) /\ Cardinality(leasedFor(a, active(a), s)) <= LeasedTasks
    BY Zenon DEF Capped, serviceLoad
  <2>3. LeasedTasks \in Int
    BY QuotaAssumption
  <2> QED  BY Zenon, <2>1, <2>2, <2>3, SubsetBound DEF serviceLoad
<1>2. ASSUME NEW w \in Workers
      PROVE  IsFiniteSet(leasedBy(b, active(b), w)) /\ countLeased(b, active(b), w) <= slots(w)
  <2>1. leasedBy(b, active(b), w) \subseteq leasedBy(a, active(a), w)
    BY DEF leasedBy, NoGrant, HoldsNoMore
  <2>2. IsFiniteSet(leasedBy(a, active(a), w)) /\ Cardinality(leasedBy(a, active(a), w)) <= slots(w)
    BY Zenon DEF Capped, countLeased
  <2>3. slots(w) \in Int
    BY Zenon, SlotsType
  <2> QED  BY Zenon, <2>1, <2>2, <2>3, SubsetBound DEF countLeased
<1> QED  BY Zenon, <1>1, <1>2 DEF Capped

\* The expiry of a transaction grants nothing.
LEMMA ExpireNoGrant ==
  ASSUME RowsSound, NEW t
  PROVE  NoGrant(jobs, expireTx(jobs, t))
<1> DEFINE rows == expireTx(jobs, t)
<1>1. /\ DOMAIN rows = DOMAIN jobs /\ active(rows) \subseteq active(jobs)
      /\ \A k \in DOMAIN jobs : QuietJob(jobs[k], rows[k])
  BY Zenon, ExpireRows DEF RowsSound
<1> QED  BY Zenon, <1>1, QuietHolds DEF NoGrant, active

\* A step that rewrites one active row so that it holds no more grants nothing.
LEMMA OneRowNoGrant ==
  ASSUME NEW j \in active(jobs), NEW b, HoldsNoMore(jobs[j], b), jobs' = [jobs EXCEPT ![j] = b]
  PROVE  NoGrant(jobs, jobs')
<1>1. \A k \in DOMAIN jobs : HoldsNoMore(jobs[k], jobs[k])
  BY Zenon DEF HoldsNoMore
<1>2. DOMAIN jobs' = DOMAIN jobs /\ \A k \in DOMAIN jobs : jobs'[k] = IF k = j THEN b ELSE jobs[k]
  BY Zenon
<1> QED  BY Zenon, <1>1, <1>2 DEF NoGrant, active

\* Create grants no lease.
LEMMA CreateNoGrant ==
  ASSUME RowsSound, NEW id \in JobIDs, NEW built \in clockReads, NEW t \in clockReads,
         NEW opts \in CreateOpts(built), Create(id, opts, built, t)
  PROVE  NoGrant(jobs, jobs')
<1> DEFINE rows == expireTx(jobs, t)
<1>1. \A i \in DOMAIN jobs'[id].tasks : jobs'[id].tasks[i].state # "leased"
  BY Zenon, CreateStep DEF Untouched
<1>2. DOMAIN rows = DOMAIN jobs /\ NoGrant(jobs, rows)
  BY Zenon, ExpireNoGrant DEF expireTx
<1>3. DOMAIN jobs' = DOMAIN rows \cup {id} /\ \A k \in DOMAIN rows : k # id => jobs'[k] = rows[k]
  BY Zenon DEF Create
<1> HIDE DEF rows
<1> QED  BY Zenon, <1>1, <1>2, <1>3 DEF NoGrant, active

\* Cancel grants no lease.
LEMMA CancelNoGrant ==
  ASSUME RowsSound, NEW j \in DOMAIN jobs, Cancel(j)
  PROVE  NoGrant(jobs, jobs')
<1>1. ids \in Nat /\ Sound(jobs[j], ids) /\ jobs' = [jobs EXCEPT ![j] = applyCancel(jobs[j])]
  BY Zenon DEF RowsSound, Cancel
<1>2. QuietJob(jobs[j], applyCancel(jobs[j])) /\ (finished(jobs[j]) => applyCancel(jobs[j]) = jobs[j])
  BY Zenon, <1>1, CancelSound
<1>3. CASE j \in active(jobs)
  BY ZenonT(30), <1>1, <1>2, <1>3, QuietHolds, OneRowNoGrant
<1>4. CASE j \notin active(jobs)
  <2>1. finished(jobs[j])
    BY Zenon, <1>1, <1>4, ActiveUnfinished DEF active
  <2>2. DOMAIN jobs' = DOMAIN jobs /\ \A k \in DOMAIN jobs : jobs'[k] = jobs[k]
    BY Zenon, <1>1, <1>2, <2>1
  <2> QED  BY Zenon, <2>2 DEF NoGrant, active, HoldsNoMore
<1> QED  BY Zenon, <1>3, <1>4

\* Heartbeat grants no lease.
LEMMA HeartbeatNoGrant ==
  ASSUME RowsSound, NEW w \in Workers, NEW j \in DOMAIN jobs, NEW i \in DOMAIN jobs[j].tasks,
         NEW attempt, NEW t \in clockReads, Heartbeat(w, j, i, attempt, t)
  PROVE  NoGrant(jobs, jobs')
<1> DEFINE a == jobs[j]
           b == [a EXCEPT !.tasks[i] = applyHeartbeat(a.tasks[i], t)]
<1>1. ids \in Nat /\ t \in Nat \ {0} /\ Sound(a, ids)
  BY DEF RowsSound, clockReads
<1>2. a.tasks[i].state = "leased" /\ j \in active(jobs) /\ jobs' = [jobs EXCEPT ![j] = b]
  BY Zenon DEF Heartbeat, canHeartbeat
<1>3. QuietJob(a, b)
  <2> HIDE DEF a
  <2> QED  BY Zenon, <1>1, <1>2, HeartbeatSound DEF a
<1> HIDE DEF b
<1> QED  BY ZenonT(30), <1>2, <1>3, QuietHolds, OneRowNoGrant

\* Commit grants no lease.
LEMMA CommitNoGrant ==
  ASSUME RowsSound, NEW j \in DOMAIN jobs, NEW i \in DOMAIN jobs[j].tasks, NEW attempt,
         NEW v \in Verdicts, NEW fail \in BOOLEAN, Commit(j, i, attempt, v, fail)
  PROVE  NoGrant(jobs, jobs')
<1> DEFINE b == commitRow(jobs[j], i, v, fail)
<1>1. ids \in Nat /\ Sound(jobs[j], ids)
  BY Zenon DEF RowsSound
<1>2. jobs[j].tasks[i].state = "leased" /\ j \in active(jobs) /\ jobs' = [jobs EXCEPT ![j] = b]
  BY Zenon DEF Commit, canCommit
<1>3. /\ SameJob(jobs[j], b) /\ b.tasks[i].state \in {"failed", "succeeded"}
      /\ \A k \in DOMAIN jobs[j].tasks \ {i} : QuietTask(jobs[j].tasks[k], b.tasks[k])
  <2>1. HasCommitted(jobs[j], b, ids, i, v)
    BY Zenon, <1>1, <1>2, CommitRow
  <2> QED  BY Zenon, <2>1 DEF HasCommitted
<1> HIDE DEF b
<1>4. HoldsNoMore(jobs[j], b)
  BY Zenon, <1>3 DEF HoldsNoMore, SameJob, QuietTask
<1> QED  BY ZenonT(30), <1>2, <1>4, OneRowNoGrant

\* The rows B of b hold no lease that rows a do not, but for task i of job j.
ButFor(a, b, B, j, i) ==
  \A k \in B :
    /\ b[k].service = a[k].service
    /\ \A l \in DOMAIN b[k].tasks :
         b[k].tasks[l].state = "leased" /\ (k # j \/ l # i) =>
           l \in DOMAIN a[k].tasks /\ a[k].tasks[l].state = "leased"
           /\ a[k].tasks[l].worker = b[k].tasks[l].worker

\* Such rows have at most the pair of that task more among their leases.
LEMMA OneMore ==
  ASSUME NEW a, NEW b, NEW A, NEW B, B \subseteq A, NEW j, NEW i, ButFor(a, b, B, j, i)
  PROVE  /\ \A s : /\ leasedFor(b, B, s) \subseteq leasedFor(a, A, s) \cup {<<j, i>>}
                   /\ a[j].service # s => leasedFor(b, B, s) \subseteq leasedFor(a, A, s)
         /\ \A w : /\ leasedBy(b, B, w) \subseteq leasedBy(a, A, w) \cup {<<j, i>>}
                   /\ b[j].tasks[i].worker # w => leasedBy(b, B, w) \subseteq leasedBy(a, A, w)
<1>1. ASSUME NEW s, NEW e \in leasedFor(b, B, s)
      PROVE  e \in leasedFor(a, A, s) \/ (e = <<j, i>> /\ a[j].service = s)
  <2>1. PICK k \in B : b[k].service = s /\ \E l \in DOMAIN b[k].tasks :
          b[k].tasks[l].state = "leased" /\ e = <<k, l>>
    BY Zenon DEF leasedFor
  <2>2. PICK l \in DOMAIN b[k].tasks : b[k].tasks[l].state = "leased" /\ e = <<k, l>>
    BY Zenon, <2>1
  <2>3. CASE k = j /\ l = i
    BY Zenon, <2>1, <2>2, <2>3 DEF ButFor
  <2>4. CASE k # j \/ l # i
    <3>1. k \in A /\ a[k].service = s /\ l \in DOMAIN a[k].tasks /\ a[k].tasks[l].state = "leased"
      BY Zenon, <2>1, <2>2, <2>4 DEF ButFor
    <3> QED  BY <2>2, <3>1 DEF leasedFor
  <2> QED  BY Zenon, <2>3, <2>4
<1>2. ASSUME NEW w, NEW e \in leasedBy(b, B, w)
      PROVE  e \in leasedBy(a, A, w) \/ (e = <<j, i>> /\ b[j].tasks[i].worker = w)
  <2>1. PICK k \in B : \E l \in DOMAIN b[k].tasks :
          b[k].tasks[l].state = "leased" /\ b[k].tasks[l].worker = w /\ e = <<k, l>>
    BY Zenon DEF leasedBy
  <2>2. PICK l \in DOMAIN b[k].tasks :
          b[k].tasks[l].state = "leased" /\ b[k].tasks[l].worker = w /\ e = <<k, l>>
    BY Zenon, <2>1
  <2>3. CASE k = j /\ l = i
    BY Zenon, <2>2, <2>3
  <2>4. CASE k # j \/ l # i
    <3>1. k \in A /\ l \in DOMAIN a[k].tasks /\ a[k].tasks[l].state = "leased"
          /\ a[k].tasks[l].worker = w
      BY Zenon, <2>1, <2>2, <2>4 DEF ButFor
    <3> QED  BY <2>2, <3>1 DEF leasedBy
  <2> QED  BY Zenon, <2>3, <2>4
<1> QED  BY Zenon, <1>1, <1>2

\* One more element keeps a set that had room within its bound.
LEMMA RoomForOne ==
  ASSUME NEW S, IsFiniteSet(S), NEW x, NEW T \in SUBSET (S \cup {x}), NEW n \in Int,
         Cardinality(S) < n
  PROVE  IsFiniteSet(T) /\ Cardinality(T) <= n
<1>1. /\ IsFiniteSet(S \cup {x})
      /\ Cardinality(S \cup {x}) = IF x \in S THEN Cardinality(S) ELSE Cardinality(S) + 1
  BY Zenon, FS_AddElement
<1>2. Cardinality(S) \in Nat
  BY Zenon, FS_CardinalityType
<1>3. Cardinality(S \cup {x}) <= n
  BY <1>1, <1>2
<1> QED  BY Zenon, <1>1, <1>3, SubsetBound

\* A granted lease is one more pair, for a service and a worker that had room.
LEMMA LeaseCapped ==
  ASSUME RowsSound, Capped(jobs), NEW w \in Workers, NEW want, NEW j \in DOMAIN jobs,
         NEW i \in DOMAIN jobs[j].tasks, NEW t \in clockReads, Lease(w, want, j, i, t)
  PROVE  Capped(jobs')
<1> DEFINE rows == expireTx(jobs, t)
           new == leaseRow(rows[j], i, ids + 1, w, t)
<1>1. ids \in Nat /\ t \in Nat \ {0} /\ now \in Nat
  BY DEF RowsSound, clockReads
<1>2. DOMAIN rows = DOMAIN jobs /\ \A k \in DOMAIN jobs : Sound(rows[k], ids)
  BY Zenon, <1>1, ExpireRows DEF RowsSound
<1>3. Capped(rows)
  BY Zenon, ExpireNoGrant, NoGrantCapped
<1>4. /\ countLeased(rows, active(rows), w) < slots(w)
      /\ serviceLoad(rows, active(rows), rows[j].service) < LeasedTasks
      /\ j \in active(rows) /\ i \in readyTasks(rows[j])
      /\ jobs' = [rows EXCEPT ![j] = new]
  BY Zenon DEF Lease, canLease, pickReady, eligible
<1> HIDE DEF rows
<1>5. i \in DOMAIN rows[j].tasks /\ rows[j].tasks[i].state = "ready"
  <2>1. DOMAIN rows[j].tasks = DOMAIN rows[j].plan
    BY Zenon, <1>2 DEF Sound, Raw, Job
  <2> QED  BY Zenon, <1>4, <2>1 DEF readyTasks
<1>6. /\ SameJob(rows[j], new) /\ new.tasks[i].state = "leased" /\ new.tasks[i].worker = w
      /\ \A k \in DOMAIN rows[j].tasks \ {i} : QuietTask(rows[j].tasks[k], new.tasks[k])
  <2>1. HasLeased(rows[j], new, ids, i, w)
    BY Zenon, <1>1, <1>2, <1>5, LeaseRow
  <2> QED  BY Zenon, <2>1 DEF HasLeased
<1> HIDE DEF new
<1>7. /\ DOMAIN jobs' = DOMAIN rows /\ jobs'[j] = new
      /\ \A k \in DOMAIN rows \ {j} : jobs'[k] = rows[k]
  BY Zenon, <1>2, <1>4
<1>8. active(jobs') \subseteq active(rows)
  BY Zenon, <1>4, <1>7 DEF active
<1>a. ASSUME NEW k \in active(jobs')
      PROVE  /\ jobs'[k].service = rows[k].service
             /\ \A l \in DOMAIN jobs'[k].tasks :
                  jobs'[k].tasks[l].state = "leased" /\ (k # j \/ l # i) =>
                    l \in DOMAIN rows[k].tasks /\ rows[k].tasks[l].state = "leased"
                    /\ rows[k].tasks[l].worker = jobs'[k].tasks[l].worker
  <2>1. CASE k = j
    BY Zenon, <1>6, <1>7, <2>1 DEF SameJob, QuietTask
  <2>2. CASE k # j
    BY Zenon, <1>7, <1>8, <2>2 DEF active
  <2> QED  BY Zenon, <2>1, <2>2
<1>b. /\ \A s : /\ leasedFor(jobs', active(jobs'), s) \subseteq leasedFor(rows, active(rows), s) \cup {<<j, i>>}
                /\ rows[j].service # s =>
                    leasedFor(jobs', active(jobs'), s) \subseteq leasedFor(rows, active(rows), s)
      /\ \A v : /\ leasedBy(jobs', active(jobs'), v) \subseteq leasedBy(rows, active(rows), v) \cup {<<j, i>>}
                /\ jobs'[j].tasks[i].worker # v =>
                    leasedBy(jobs', active(jobs'), v) \subseteq leasedBy(rows, active(rows), v)
  <2>1. ButFor(rows, jobs', active(jobs'), j, i)
    BY Zenon, <1>a DEF ButFor
  <2> QED  BY ZenonT(30), <1>8, <2>1, OneMore
<1>9. ASSUME NEW s \in Services
      PROVE  IsFiniteSet(leasedFor(jobs', active(jobs'), s)) /\ serviceLoad(jobs', active(jobs'), s) <= LeasedTasks
  <2> DEFINE S == leasedFor(rows, active(rows), s)
             T == leasedFor(jobs', active(jobs'), s)
  <2>1. IsFiniteSet(S) /\ Cardinality(S) <= LeasedTasks /\ LeasedTasks \in Int
    BY <1>3, QuotaAssumption DEF Capped, serviceLoad
  <2>2. CASE rows[j].service # s
    <3>1. T \subseteq S
      BY Zenon, <1>b, <2>2
    <3> HIDE DEF S, T
    <3>2. IsFiniteSet(T) /\ Cardinality(T) <= LeasedTasks
      BY Zenon, <2>1, <3>1, SubsetBound
    <3> QED  BY Zenon, <3>2 DEF serviceLoad, T
  <2>3. CASE rows[j].service = s
    <3>0. T \subseteq S \cup {<<j, i>>}
      BY Zenon, <1>b
    <3>1. Cardinality(S) < LeasedTasks
      BY Zenon, <1>4, <2>3 DEF serviceLoad
    <3> HIDE DEF S, T
    <3>2. IsFiniteSet(T) /\ Cardinality(T) <= LeasedTasks
      BY ZenonT(30), <2>1, <3>0, <3>1, RoomForOne
    <3> QED  BY Zenon, <3>2 DEF serviceLoad, T
  <2> QED  BY Zenon, <2>2, <2>3
<1>10. ASSUME NEW v \in Workers
       PROVE  IsFiniteSet(leasedBy(jobs', active(jobs'), v)) /\ countLeased(jobs', active(jobs'), v) <= slots(v)
  <2> DEFINE S == leasedBy(rows, active(rows), v)
             T == leasedBy(jobs', active(jobs'), v)
  <2>1. IsFiniteSet(S) /\ Cardinality(S) <= slots(v) /\ slots(v) \in Int
    BY Zenon, <1>3, SlotsType DEF Capped, countLeased
  <2>2. CASE v # w
    <3>1. T \subseteq S
      BY Zenon, <1>6, <1>7, <1>b, <2>2
    <3> HIDE DEF S, T
    <3>2. IsFiniteSet(T) /\ Cardinality(T) <= slots(v)
      BY Zenon, <2>1, <3>1, SubsetBound
    <3> QED  BY Zenon, <3>2 DEF countLeased, T
  <2>3. CASE v = w
    <3>0. T \subseteq S \cup {<<j, i>>}
      BY Zenon, <1>b
    <3>1. Cardinality(S) < slots(v)
      BY Zenon, <1>4, <2>3 DEF countLeased
    <3> HIDE DEF S, T
    <3>2. IsFiniteSet(T) /\ Cardinality(T) <= slots(v)
      BY ZenonT(30), <2>1, <3>0, <3>1, RoomForOne
    <3> QED  BY Zenon, <3>2 DEF countLeased, T
  <2> QED  BY Zenon, <2>2, <2>3
<1> QED  BY Zenon, <1>9, <1>10 DEF Capped

\* Every step keeps services within their cap and workers within their slots.
LEMMA CappedStep ==
  ASSUME RowsSound, Capped(jobs), [Next]_vars
  PROVE  Capped(jobs')
<1>1. CASE ClientStep
  BY Zenon, <1>1, CreateNoGrant, CancelNoGrant, NoGrantCapped DEF ClientStep
<1>2. CASE WorkerStep
  <2>1. ASSUME NEW w, NEW want, NEW t, LeaseEmpty(w, want, t)
        PROVE  Capped(jobs')
    BY Zenon, <2>1, ExpireNoGrant, NoGrantCapped DEF LeaseEmpty
  <2>2. ASSUME NEW j \in DOMAIN jobs, NEW i \in DOMAIN jobs[j].tasks, NEW a,
               \/ \E w \in Workers, t \in clockReads : Heartbeat(w, j, i, a, t)
               \/ \E verdict \in Verdicts, fail \in BOOLEAN : Commit(j, i, a, verdict, fail)
        PROVE  Capped(jobs')
    <3>1. NoGrant(jobs, jobs')
      BY Zenon, <2>2, HeartbeatNoGrant, CommitNoGrant
    <3> QED  BY Zenon, <3>1, NoGrantCapped
  <2> QED  BY Zenon, <1>2, <2>1, <2>2, LeaseCapped DEF WorkerStep
<1>3. CASE ReaperStep
  BY Zenon, <1>3, ExpireNoGrant, NoGrantCapped DEF ReaperStep, Reap
<1>4. CASE Tick \/ UNCHANGED vars
  BY Zenon, <1>4 DEF Tick, vars
<1> QED  BY Zenon, <1>1, <1>2, <1>3, <1>4 DEF Next

\* Among unfinished jobs, no service exceeds its lease cap and no worker its slots.
THEOREM CapsHold == Spec => []LeaseCaps
<1>1. Init => Capped(jobs)
  <2> SUFFICES ASSUME Init PROVE Capped(jobs)
    BY Zenon
  <2>1. active(jobs) = {}
    BY Zenon DEF Init, active
  <2>2. /\ \A s \in Services : leasedFor(jobs, active(jobs), s) = {}
        /\ \A w \in Workers : leasedBy(jobs, active(jobs), w) = {}
    BY Zenon, <2>1 DEF leasedFor, leasedBy
  <2>3. 0 <= LeasedTasks /\ \A w \in Workers : 0 <= slots(w)
    BY SlotAssumption, QuotaAssumption DEF slots
  <2>4. IsFiniteSet({}) /\ Cardinality({}) = 0
    BY Zenon, FS_EmptySet
  <2> QED  BY Zenon, <2>2, <2>3, <2>4 DEF Capped, serviceLoad, countLeased
<1>2. RowsSound /\ Capped(jobs) /\ [Next]_vars => Capped(jobs')
  BY Zenon, CappedStep
<1>3. Capped(jobs) => LeaseCaps
  BY Zenon DEF Capped, LeaseCaps
<1> DEFINE C == Capped(jobs)
<1>4. C' <=> Capped(jobs')
  BY Zenon DEF Capped, leasedFor, leasedBy, serviceLoad, countLeased, active, slots
<1> HIDE DEF C
<1>5. Init => C
  BY Zenon, <1>1 DEF C
<1>6. RowsSound /\ C /\ [Next]_vars => C'
  BY Zenon, <1>2, <1>4 DEF C
<1>7. C => LeaseCaps
  BY Zenon, <1>3 DEF C
<1> QED  BY <1>5, <1>6, <1>7, RowsInvariant, PTL DEF Spec

=============================================================================
