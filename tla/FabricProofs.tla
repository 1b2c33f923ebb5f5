---------------------------- MODULE FabricProofs ----------------------------
(***************************************************************************)
(* The memory store with its workers, for every set of plans, workers and   *)
(* verdicts, every quota and every bound: it implements Ledger, what a      *)
(* task succeeded with is what its own action reported, a commit that was   *)
(* acknowledged stays, and the cache's index names no object that was not   *)
(* written.                                                                 *)
(***************************************************************************)
EXTENDS Fabric, JobRulesProofs

Row == UNION {Job(p) : p \in Plans}

\* The stored jobs.
StoreOK ==
  /\ jobs \in Seq(Row) /\ Len(jobs) <= MaxJobs
  /\ now \in Nat \ {0} /\ ids \in Nat
  /\ \A j \in all : Sound(jobs[j], ids)

\* Every task of the store, but for those of a set of pairs, changes quietly, and no
\* job is lost.
QuietBut(S) ==
  \A j \in all :
    /\ j \in DOMAIN jobs' /\ SameJob(jobs[j], jobs'[j])
    /\ \A i \in DOMAIN jobs[j].tasks :
         <<j, i>> \notin S => QuietTask(jobs[j].tasks[i], jobs'[j].tasks[i])

-----------------------------------------------------------------------------
(* The store's operations *)

\* A sound job is a row.
LEMMA SoundRow ==
  ASSUME NEW n, NEW job, Sound(job, n)
  PROVE  job \in Row /\ DOMAIN job.tasks = DOMAIN job.plan /\ job.plan \in Plans
BY Zenon DEF Sound, Raw, Row, Job

\* Replacing the elements of a sequence.
LEMMA Mapped ==
  ASSUME NEW S, NEW s \in Seq(S), NEW f \in [DOMAIN s -> S]
  PROVE  f \in Seq(S) /\ DOMAIN f = DOMAIN s /\ Len(f) = Len(s)
<1>1. DOMAIN s = 1..Len(s) /\ Len(s) \in Nat
  OBVIOUS
<1>2. f \in Seq(S)
  BY <1>1
<1>3. DOMAIN f = 1..Len(f) /\ Len(f) \in Nat
  BY <1>2
<1> QED  BY <1>1, <1>2, <1>3

\* requeueExpiredLocked, with which most operations begin.
LEMMA Expired ==
  ASSUME StoreOK
  PROVE  LET rows == requeueExpiredLocked IN
         /\ rows \in Seq(Row) /\ DOMAIN rows = all /\ Len(rows) = Len(jobs)
         /\ \A j \in all : Sound(rows[j], ids) /\ QuietJob(jobs[j], rows[j])
<1> DEFINE rows == requeueExpiredLocked
<1>1. DOMAIN rows = all /\ \A j \in all : rows[j] = expireJob(jobs[j], now)
  BY Zenon DEF requeueExpiredLocked
<1>2. \A j \in all : Sound(rows[j], ids) /\ QuietJob(jobs[j], rows[j])
  BY Zenon, <1>1, ExpireSound DEF StoreOK
<1>3. rows \in [DOMAIN jobs -> Row]
  BY Zenon, <1>2, SoundRow DEF requeueExpiredLocked, all
<1> HIDE DEF rows
<1>4. rows \in Seq(Row) /\ Len(rows) = Len(jobs)
  BY Zenon, <1>3, Mapped DEF StoreOK
<1> QED  BY Zenon, <1>1, <1>2, <1>4 DEF rows

\* The expiry alone: Reap, LeaseEmpty and a refused Create.
LEMMA ReapStep ==
  ASSUME StoreOK, jobs' = requeueExpiredLocked, UNCHANGED <<now, ids>>
  PROVE  StoreOK' /\ DOMAIN jobs' = all /\ QuietBut({})
<1>1. /\ jobs' \in Seq(Row) /\ DOMAIN jobs' = all /\ Len(jobs') = Len(jobs)
      /\ \A j \in all : Sound(jobs'[j], ids) /\ QuietJob(jobs[j], jobs'[j])
  BY Zenon, Expired
<1> QED  BY Zenon, <1>1 DEF StoreOK, QuietBut, QuietJob, all

\* A job is replaced by a sound one.
LEMMA Replaced ==
  ASSUME StoreOK, NEW rows \in Seq(Row), DOMAIN rows = all, Len(rows) = Len(jobs),
         NEW n \in Nat, ids <= n, \A k \in all : Sound(rows[k], ids),
         NEW j \in all, NEW new, Sound(new, n),
         jobs' = [rows EXCEPT ![j] = new], now' = now, ids' = n
  PROVE  /\ StoreOK' /\ DOMAIN jobs' = all /\ jobs'[j] = new
         /\ \A k \in all \ {j} : jobs'[k] = rows[k]
<1>1. new \in Row
  BY Zenon, SoundRow
<1>2. jobs' \in [DOMAIN rows -> Row]
  BY <1>1
<1>3. jobs' \in Seq(Row) /\ Len(jobs') = Len(rows) /\ DOMAIN jobs' = all
  BY Zenon, <1>2, Mapped
<1>4. jobs'[j] = new /\ \A k \in all \ {j} : jobs'[k] = rows[k]
  BY Zenon
<1>5. \A k \in all : Sound(jobs'[k], n)
  BY Zenon, <1>4, SoundMonotone DEF StoreOK
<1> QED  BY Zenon, <1>3, <1>4, <1>5 DEF StoreOK, all
\* The same, of the jobs as they are.
LEMMA ReplacedOne ==
  ASSUME StoreOK, NEW j \in all, NEW new, Sound(new, ids),
         jobs' = [jobs EXCEPT ![j] = new], UNCHANGED <<now, ids>>
  PROVE  /\ StoreOK' /\ DOMAIN jobs' = all /\ jobs'[j] = new
         /\ \A k \in all \ {j} : jobs'[k] = jobs[k]
<1>1. /\ jobs \in Seq(Row) /\ DOMAIN jobs = all /\ ids \in Nat /\ ids <= ids
      /\ \A k \in all : Sound(jobs[k], ids)
  BY DEF StoreOK, all
<1> QED  BY <1>1, Replaced, Zenon

\* Create: the new job comes last, and nobody has worked on it.
LEMMA CreateStep ==
  ASSUME StoreOK, NEW opts \in CreateOpts, Create(opts)
  PROVE  /\ StoreOK' /\ QuietBut({}) /\ ids' = ids
         /\ \/ DOMAIN jobs' = all
            \/ /\ DOMAIN jobs' = all \cup {Len(jobs) + 1} /\ Len(jobs) + 1 \notin all
               /\ \A i \in DOMAIN jobs'[Len(jobs) + 1].tasks : Untouched(jobs'[Len(jobs) + 1].tasks[i])
<1> DEFINE rows == requeueExpiredLocked
           job == buildJob(opts, now)
           l == Len(jobs) + 1
<1>1. UNCHANGED <<now, ids>> /\ Len(jobs) < MaxJobs /\ jobs' \in {rows, Append(rows, job)}
  BY Zenon DEF Create
<1>2. /\ rows \in Seq(Row) /\ DOMAIN rows = all /\ Len(rows) = Len(jobs)
      /\ \A j \in all : Sound(rows[j], ids) /\ QuietJob(jobs[j], rows[j])
  BY Zenon, Expired
<1>3. Sound(job, ids) /\ \A i \in DOMAIN job.tasks : Untouched(job.tasks[i])
  <2>1. /\ opts.service \in Services /\ opts.base \in Urls /\ opts.patch \in Urls
        /\ opts.deadline \in Nat /\ opts.plan \in Plans
    BY DEF CreateOpts
  <2> QED  BY Zenon, <2>1, BuildSound DEF StoreOK
<1>4. CASE jobs' = rows
  BY Zenon, <1>1, <1>4, ReapStep
<1>5. CASE jobs' = Append(rows, job)
  <2>1. job \in Row
    BY Zenon, <1>3, SoundRow
  <2> HIDE DEF rows, job
  <2>2. /\ jobs' \in Seq(Row) /\ Len(jobs') = l /\ jobs'[l] = job
        /\ DOMAIN jobs' = all \cup {l} /\ l \notin all
        /\ \A j \in all : jobs'[j] = rows[j]
    <3>1. Len(rows) \in Nat /\ all = 1..Len(rows)
      BY <1>2
    <3>2. Append(rows, job) \in Seq(Row) /\ Len(Append(rows, job)) = Len(rows) + 1
      BY <1>2, <2>1
    <3>3. /\ Append(rows, job)[Len(rows) + 1] = job
          /\ \A j \in 1..Len(rows) : Append(rows, job)[j] = rows[j]
      BY <1>2, <2>1, <3>1
    <3>4. DOMAIN Append(rows, job) = 1..(Len(rows) + 1)
      BY <3>2
    <3> QED  BY <1>2, <1>5, <3>1, <3>2, <3>3, <3>4
  <2>3. QuietBut({})
    BY Zenon, <1>2, <2>2 DEF QuietBut, QuietJob
  <2>4. StoreOK'
    <3>1. \A j \in DOMAIN jobs' : Sound(jobs'[j], ids)
      BY Zenon, <1>2, <1>3, <2>2
    <3>2. Len(jobs') <= MaxJobs /\ now' \in Nat \ {0} /\ ids' \in Nat
      BY <1>1, <2>2, MemAssumption DEF StoreOK
    <3> QED  BY Zenon, <1>1, <2>2, <3>1, <3>2 DEF StoreOK, all
  <2> QED  BY Zenon, <1>1, <1>3, <2>2, <2>3, <2>4
<1> QED  BY Zenon, <1>1, <1>4, <1>5

\* Cancel.
LEMMA CancelStep ==
  ASSUME StoreOK, NEW j \in all, Cancel(j)
  PROVE  StoreOK' /\ DOMAIN jobs' = all /\ QuietBut({}) /\ ids' = ids
<1> DEFINE new == applyCancel(jobs[j])
<1>1. Sound(new, ids) /\ QuietJob(jobs[j], new)
  BY Zenon, CancelSound DEF StoreOK
<1>2. jobs' = [jobs EXCEPT ![j] = new] /\ UNCHANGED <<now, ids>>
  BY Zenon DEF Cancel
<1> HIDE DEF new
<1>3. StoreOK' /\ DOMAIN jobs' = all /\ jobs'[j] = new /\ \A k \in all \ {j} : jobs'[k] = jobs[k]
  BY <1>1, <1>2, ReplacedOne, Zenon
<1>4. \A k \in all : QuietJob(jobs[k], jobs'[k])
  BY Zenon, <1>1, <1>3, QuietReflexive
<1> QED  BY Zenon, <1>2, <1>3, <1>4 DEF QuietBut, QuietJob

\* Heartbeat.
LEMMA HeartbeatStep ==
  ASSUME StoreOK, NEW w, NEW j \in all, NEW i \in DOMAIN jobs[j].tasks, NEW attempt,
         Heartbeat(w, j, i, attempt)
  PROVE  StoreOK' /\ DOMAIN jobs' = all /\ QuietBut({}) /\ ids' = ids
<1> DEFINE new == [jobs[j] EXCEPT !.tasks[i] = applyHeartbeat(jobs[j].tasks[i], now)]
<1>1. jobs[j].tasks[i].state = "leased"
  BY Zenon DEF Heartbeat, canHeartbeat
<1>2. Sound(new, ids) /\ QuietJob(jobs[j], new)
  BY Zenon, <1>1, HeartbeatSound DEF StoreOK
<1>3. jobs' = [jobs EXCEPT ![j] = new] /\ UNCHANGED <<now, ids>>
  BY Zenon DEF Heartbeat
<1> HIDE DEF new
<1>4. StoreOK' /\ DOMAIN jobs' = all /\ jobs'[j] = new /\ \A k \in all \ {j} : jobs'[k] = jobs[k]
  BY <1>2, <1>3, ReplacedOne, Zenon
<1>5. \A k \in all : QuietJob(jobs[k], jobs'[k])
  BY Zenon, <1>2, <1>4, QuietReflexive
<1> QED  BY Zenon, <1>3, <1>4, <1>5 DEF QuietBut, QuietJob

\* The row of a job one of whose ready tasks has been leased: settling it would change
\* nothing, as no dependency was satisfied.
LEMMA LeaseRow ==
  ASSUME NEW a, ids \in Nat, now \in Nat \ {0}, Sound(a, ids), NEW i \in DOMAIN a.tasks,
         a.tasks[i].state = "ready", ~a.canceled, NEW w \in Workers
  PROVE  LET b == leaseJob(a, i, w) IN
         /\ Sound(b, ids + 1) /\ SameJob(a, b)
         /\ b.tasks[i] = leaseTask(a.tasks[i], ids + 1, w, now)
         /\ \A k \in DOMAIN a.tasks \ {i} : b.tasks[k] = a.tasks[k]
<1> DEFINE t == leaseTask(a.tasks[i], ids + 1, w, now)
           p == a.plan
           ts == [a.tasks EXCEPT ![i] = t]
           mid == [a EXCEPT !.tasks[i] = t]
           b == [a EXCEPT !.tasks = ts, !.status = jobStatus(ts)]
<1>1. Raw(mid, ids + 1) /\ t \in Task /\ t.state = "leased"
  BY LeaseSound
<1>2. /\ p \in Plans /\ a \in Job(p) /\ DOMAIN a.tasks = DOMAIN p /\ a.source = "declared"
      /\ ~a.validated /\ a.tasks \in [DOMAIN p -> Task]
  BY Zenon DEF Sound, Raw, Job
<1>3. leaseJob(a, i, w) = b
  BY Zenon DEF leaseJob
<1> HIDE DEF t
<1>4. ts \in [DOMAIN p -> Task] /\ ts[i] = t /\ \A k \in DOMAIN p \ {i} : ts[k] = a.tasks[k]
  BY Zenon, <1>1, <1>2
<1>5. mid.tasks = ts /\ mid.plan = p
  BY Zenon, <1>2 DEF Job
<1> HIDE DEF ts, mid
<1>6. jobStatus(ts) \in Statuses
  BY Zenon DEF jobStatus, Statuses
<1>7. /\ b \in Job(p) /\ b.tasks = ts /\ b.plan = p /\ b.source = "declared" /\ b.status = jobStatus(ts)
      /\ b.canceled = a.canceled /\ b.validated = a.validated /\ SameJob(a, b)
  BY <1>2, <1>4, <1>6, Zenon DEF Job, SameJob
<1> HIDE DEF b
<1>8. Raw(b, ids + 1)
  <2>1. dependencyOrder(b)
    BY Zenon, <1>1, <1>5, <1>7 DEF Raw, dependencyOrder
  <2>2. \A k \in DOMAIN b.tasks : leaseWhole(b.tasks[k]) /\ b.tasks[k].attempt \in 0..(ids + 1)
    BY Zenon, <1>1, <1>5, <1>7 DEF Raw
  <2> QED  BY Zenon, <1>2, <1>7, <2>1, <2>2 DEF Raw
<1>9. settled(b)
  <2>1. \A k \in DOMAIN p : ts[k].state \in Satisfied => a.tasks[k].state \in Satisfied
    BY Zenon, <1>1, <1>4 DEF Satisfied
  <2>2. \A k \in DOMAIN p : depsOK(p, ts, k) => depsOK(p, a.tasks, k)
    BY Zenon, <2>1, DepsMonotone
  <2>3. \A k \in DOMAIN p : ts[k].state = "pending" => a.tasks[k].state = "pending"
    BY Zenon, <1>1, <1>4
  <2> QED  BY Zenon, <1>2, <1>4, <1>7, <2>2, <2>3 DEF Sound, settled
<1>10. statusAgrees(b) /\ ~b.validated
  BY Zenon, <1>2, <1>7 DEF statusAgrees
<1>11. Sound(b, ids + 1)
  BY Zenon, <1>8, <1>9, <1>10 DEF Sound
<1>12. b.tasks[i] = t /\ \A k \in DOMAIN a.tasks \ {i} : b.tasks[k] = a.tasks[k]
  BY Zenon, <1>2, <1>4, <1>7
<1> QED  BY Zenon, <1>3, <1>7, <1>11, <1>12 DEF t

\* Lease: the expiry, then one task that it left ready is granted under a fresh attempt.
LEMMA LeaseStep ==
  ASSUME StoreOK, NEW w \in Workers, NEW j \in all, NEW i \in DOMAIN jobs[j].tasks, Lease(w, j, i)
  PROVE  /\ StoreOK' /\ DOMAIN jobs' = all /\ QuietBut({<<j, i>>}) /\ ids' = ids + 1
         /\ \E r : /\ QuietTask(jobs[j].tasks[i], r) /\ r \in Task /\ r.state = "ready"
                   /\ jobs'[j].tasks[i] = leaseTask(r, ids + 1, w, now)
<1> DEFINE rows == requeueExpiredLocked
           new == leaseJob(rows[j], i, w)
           r == rows[j].tasks[i]
<1>1. ids \in Nat /\ now \in Nat \ {0} /\ ids + 1 \in Nat /\ ids <= ids + 1
  BY DEF StoreOK
<1>2. /\ rows \in Seq(Row) /\ DOMAIN rows = all /\ Len(rows) = Len(jobs)
      /\ \A k \in all : Sound(rows[k], ids) /\ QuietJob(jobs[k], rows[k])
  BY Zenon, Expired
<1>3. i \in DOMAIN rows[j].tasks /\ r.state = "ready" /\ ~rows[j].canceled
  <2>1. i \in readyTasks(rows[j]) /\ j \in eligible(rows, all, 0)
    BY Zenon DEF Lease, canLease, pickReady
  <2>2. DOMAIN rows[j].tasks = DOMAIN rows[j].plan
    BY Zenon, <1>2, SoundRow
  <2> QED  BY Zenon, <2>1, <2>2 DEF readyTasks, eligible
<1>4. jobs' = [rows EXCEPT ![j] = new] /\ ids' = ids + 1 /\ now' = now
  BY Zenon DEF Lease
<1> HIDE DEF rows
<1>5. Sound(rows[j], ids) /\ QuietJob(jobs[j], rows[j])
  BY Zenon, <1>2
<1>6. /\ Sound(new, ids + 1) /\ SameJob(rows[j], new)
      /\ new.tasks[i] = leaseTask(r, ids + 1, w, now)
      /\ \A k \in DOMAIN rows[j].tasks \ {i} : new.tasks[k] = rows[j].tasks[k]
  BY Zenon, <1>1, <1>3, <1>5, LeaseRow
<1> HIDE DEF new
<1>7. /\ StoreOK' /\ DOMAIN jobs' = all /\ jobs'[j] = new
      /\ \A k \in all \ {j} : jobs'[k] = rows[k]
  BY <1>1, <1>2, <1>4, <1>6, Replaced, Zenon
<1>8. /\ SameJob(jobs[j], new)
      /\ \A k \in DOMAIN jobs[j].tasks \ {i} : QuietTask(jobs[j].tasks[k], new.tasks[k])
  BY Zenon, <1>5, <1>6 DEF QuietJob, SameJob
<1>9. QuietBut({<<j, i>>})
  <2> SUFFICES ASSUME NEW k \in all
               PROVE  /\ SameJob(jobs[k], jobs'[k])
                      /\ \A m \in DOMAIN jobs[k].tasks :
                           <<k, m>> # <<j, i>> => QuietTask(jobs[k].tasks[m], jobs'[k].tasks[m])
    BY Zenon, <1>7 DEF QuietBut
  <2>1. CASE k # j
    BY Zenon, <1>2, <1>7, <2>1 DEF QuietJob
  <2>2. CASE k = j
    BY Zenon, <1>7, <1>8, <2>2
  <2> QED  BY Zenon, <2>1, <2>2
<1>10. QuietTask(jobs[j].tasks[i], r) /\ r \in Task
  BY Zenon, <1>3, <1>5 DEF QuietJob, Sound, Raw, Job
<1> QED  BY Zenon, <1>3, <1>4, <1>6, <1>7, <1>9, <1>10

\* Commit, which is accepted for the attempt that holds the task or changes nothing.
LEMMA CommitStep ==
  ASSUME StoreOK, NEW j \in all, NEW i \in DOMAIN jobs[j].tasks, NEW attempt, NEW v \in Verdicts,
         NEW fail \in BOOLEAN, Commit(j, i, attempt, v, fail)
  PROVE  /\ StoreOK' /\ DOMAIN jobs' = all /\ ids' = ids
         /\ ~accepts(j, i, attempt, v, fail) => jobs' = jobs
         /\ accepts(j, i, attempt, v, fail) =>
              /\ QuietBut({<<j, i>>}) /\ jobs[j].tasks[i].state = "leased"
              /\ jobs[j].tasks[i].attempt = attempt
              /\ jobs'[j].tasks[i] = applyCommit(jobs[j].tasks[i], v, fail)
<1> DEFINE new == commitJob(jobs[j], i, v, fail)
           t == applyCommit(jobs[j].tasks[i], v, fail)
<1>1. UNCHANGED <<now, ids>> /\ ids \in Nat /\ Sound(jobs[j], ids)
  BY Zenon DEF Commit, StoreOK
<1>2. CASE ~accepts(j, i, attempt, v, fail)
  <2>1. jobs' = jobs
    BY Zenon, <1>2 DEF Commit
  <2> QED  BY Zenon, <1>1, <1>2, <2>1 DEF StoreOK, all
<1>3. CASE accepts(j, i, attempt, v, fail)
  <2>1. jobs[j].tasks[i].state = "leased" /\ jobs[j].tasks[i].attempt = attempt
    BY Zenon, <1>3 DEF accepts, canCommit
  <2>2. jobs' = [jobs EXCEPT ![j] = new]
    BY Zenon, <1>3 DEF Commit
  <2>3. Raw([jobs[j] EXCEPT !.tasks[i] = t], ids) /\ t \in Task /\ t.state \in {"failed", "succeeded"}
    BY <1>1, <2>1, CommitSound
  <2>4. new = refreshJob([jobs[j] EXCEPT !.tasks[i] = t])
    BY Zenon DEF commitJob
  <2> HIDE DEF t, new
  <2>5. /\ Sound(new, ids) /\ SameJob(jobs[j], new) /\ new.tasks[i] = t
        /\ \A k \in DOMAIN jobs[j].tasks \ {i} : QuietTask(jobs[j].tasks[k], new.tasks[k])
    BY <1>1, <2>3, <2>4, TouchRow
  <2>6. /\ StoreOK' /\ DOMAIN jobs' = all /\ jobs'[j] = new
        /\ \A k \in all \ {j} : jobs'[k] = jobs[k]
    BY <1>1, <2>2, <2>5, ReplacedOne, Zenon
  <2>7. QuietBut({<<j, i>>})
    <3> SUFFICES ASSUME NEW k \in all
                 PROVE  /\ SameJob(jobs[k], jobs'[k])
                        /\ \A m \in DOMAIN jobs[k].tasks :
                             <<k, m>> # <<j, i>> => QuietTask(jobs[k].tasks[m], jobs'[k].tasks[m])
      BY Zenon, <2>6 DEF QuietBut
    <3>1. CASE k # j
      BY Zenon, <2>6, <3>1, QuietReflexive DEF QuietJob
    <3>2. CASE k = j
      BY Zenon, <2>5, <2>6, <3>2
    <3> QED  BY Zenon, <3>1, <3>2
  <2> QED  BY Zenon, <1>1, <1>3, <2>1, <2>5, <2>6, <2>7 DEF t
<1> QED  BY Zenon, <1>2, <1>3

-----------------------------------------------------------------------------
(* The inductive invariant *)

inRange(j, i) == j \in all /\ i \in DOMAIN jobs[j].tasks

\* An execution of that very action, for that job, reported v.
reported(j, i, v) ==
  [job |-> j, kind |-> jobs[j].plan[i].kind, n |-> jobs[j].plan[i].n, verdict |-> v] \in ran

Contents == Verdicts \cup {"none", Torn}
WorkerPcs == {"idle", "look", "fetch", "run", "put", "index", "sent"}
Process == [pc : WorkerPcs, job : Nat, task : Nat, attempt : Nat, verdict : Contents]
Message == [w : Workers, job : Nat, task : Nat, attempt : Nat, verdict : Verdicts, fail : BOOLEAN]

\* A worker that is about to put or to use a result has one its action reported, and
\* the index is written only once the object is there.
workerOK(s) ==
  /\ s.pc # "idle" => inRange(s.job, s.task)
  /\ s.pc \in {"put", "index"} => s.verdict \in Verdicts /\ reported(s.job, s.task, s.verdict)
  /\ s.pc = "fetch" /\ s.verdict \in Digests => reported(s.job, s.task, s.verdict)
  /\ s.pc = "index" /\ s.verdict \in Digests => objects[s.verdict] # "none"
WorkersOK ==
  worker \in [Workers -> Process] /\ \A s \in {worker[w] : w \in Workers} : workerOK(s)

\* So has a commit on its way, however late it arrives.
messageOK(m) ==
  /\ m \in Message /\ inRange(m.job, m.task)
  /\ ~m.fail => reported(m.job, m.task, m.verdict)
NetOK == \A m \in net : messageOK(m)

\* A key's entry is the result of an execution of the action the key stands for.
keyOK(k) ==
  index[k] \in Digests =>
    /\ [job |-> k.scope, kind |-> k.kind, n |-> k.n, verdict |-> index[k]] \in ran
    /\ objects[index[k]] # "none"
CacheOK ==
  /\ index \in [Keys -> Contents] /\ objects \in [Digests -> Contents]
  /\ \A k \in Keys : keyOK(k)

\* A commit the worker was told of.
kept(m) ==
  LET t == jobs[m.job].tasks[m.task] IN
  /\ inRange(m.job, m.task)
  /\ t.attempt = m.attempt /\ t.verdict = m.verdict
  /\ t.state = IF m.fail THEN "failed" ELSE "succeeded"

\* A task that succeeded.
own(j, i) == jobs[j].tasks[i].state = "succeeded" => reported(j, i, jobs[j].tasks[i].verdict)

FabInv ==
  /\ StoreOK /\ WorkersOK /\ NetOK /\ CacheOK
  /\ \A m \in acked : kept(m)
  /\ \A j \in all : \A i \in DOMAIN jobs[j].tasks : own(j, i)

-----------------------------------------------------------------------------
(* What a step of the store leaves in place *)

Final == {"succeeded", "failed", "skipped"}

\* The tasks of S were not final, and a job that is new has no result.
StoreMoves(S) ==
  /\ StoreOK' /\ QuietBut(S)
  /\ \A j, i : <<j, i>> \in S => jobs[j].tasks[i].state \notin Final
  /\ \A j \in DOMAIN jobs' \ all : \A i \in DOMAIN jobs'[j].tasks : jobs'[j].tasks[i].state # "succeeded"

\* Jobs, tasks and plans stay, and so does what was reported.
LEMMA RangeKept ==
  ASSUME NEW S, QuietBut(S), ran \subseteq ran', NEW j, NEW i, inRange(j, i)
  PROVE  inRange(j, i)' /\ \A v : reported(j, i, v) => reported(j, i, v)'
<1>1. j \in DOMAIN jobs' /\ SameJob(jobs[j], jobs'[j])
  BY Zenon DEF inRange, QuietBut
<1>2. DOMAIN jobs'[j].tasks = DOMAIN jobs[j].tasks /\ jobs'[j].plan = jobs[j].plan
  BY Zenon, <1>1 DEF SameJob
<1> QED  BY Zenon, <1>1, <1>2 DEF inRange, reported, all

\* An acknowledged commit stays: its task is final.
LEMMA AckKept ==
  ASSUME NEW S, StoreMoves(S), NEW m, kept(m)
  PROVE  kept(m)'
<1> DEFINE t == jobs[m.job].tasks[m.task]
           u == jobs'[m.job].tasks[m.task]
<1>1. inRange(m.job, m.task) /\ t.state \in Final
  BY Zenon DEF kept, Final
<1>2. <<m.job, m.task>> \notin S
  BY Zenon, <1>1 DEF StoreMoves
<1>3. u = t
  BY Zenon, <1>1, <1>2 DEF StoreMoves, QuietBut, inRange, QuietTask, Final
<1>4. m.job \in DOMAIN jobs' /\ m.task \in DOMAIN jobs'[m.job].tasks
  BY Zenon, <1>1 DEF StoreMoves, QuietBut, SameJob, inRange
<1> QED  BY Zenon, <1>1, <1>3, <1>4 DEF kept, inRange, all

\* So does a result, of every task that is not of S.
LEMMA OwnKept ==
  ASSUME FabInv, NEW S, StoreMoves(S), ran \subseteq ran',
         NEW j \in DOMAIN jobs', NEW i \in DOMAIN jobs'[j].tasks, <<j, i>> \notin S
  PROVE  own(j, i)'
<1>1. CASE j \notin all
  BY Zenon, <1>1 DEF own, StoreMoves
<1>2. CASE j \in all
  <2>1. i \in DOMAIN jobs[j].tasks /\ QuietTask(jobs[j].tasks[i], jobs'[j].tasks[i])
    BY Zenon, <1>2 DEF StoreMoves, QuietBut, SameJob
  <2>2. own(j, i) /\ inRange(j, i)
    BY Zenon, <1>2, <2>1 DEF FabInv, inRange
  <2>3. QuietBut(S)
    BY Zenon DEF StoreMoves
  <2>4. \A v : reported(j, i, v) => reported(j, i, v)'
    BY Zenon, <2>2, <2>3, RangeKept
  <2>5. CASE jobs'[j].tasks[i].state = "succeeded"
    <3>1. jobs'[j].tasks[i] = jobs[j].tasks[i]
      BY Zenon, <2>1, <2>5 DEF QuietTask
    <3>2. reported(j, i, jobs[j].tasks[i].verdict)
      BY Zenon, <2>2, <2>5, <3>1 DEF own
    <3> QED  BY Zenon, <2>2, <2>3, <3>1, <3>2, RangeKept DEF own, reported, QuietBut, SameJob, inRange
  <2>6. CASE jobs'[j].tasks[i].state # "succeeded"
    BY Zenon, <2>6 DEF own
  <2> QED  BY Zenon, <2>5, <2>6
<1> QED  BY Zenon, <1>1, <1>2


(* What a step has to show, part by part: of what it changed, the invariant. *)

WorkersMove ==
  /\ worker' \in [Workers -> Process]
  /\ \A w \in Workers : worker'[w] = worker[w] \/ \A s : s = worker'[w] => workerOK(s)'
NetMove == \A m \in net' : m \in net \/ messageOK(m)'
CacheMove ==
  /\ index' \in [Keys -> Contents] /\ objects' \in [Digests -> Contents]
  /\ \A d \in Digests : objects[d] # "none" => objects'[d] # "none"
  /\ \A k \in Keys : index'[k] = index[k] \/ keyOK(k)'
AckedMove == \A m \in acked' : m \in acked \/ kept(m)'
OwnMove(S) == \A j, i : <<j, i>> \in S => own(j, i)'

\* Those together are enough.
LEMMA Assemble ==
  ASSUME FabInv, NEW S, StoreMoves(S), ran \subseteq ran',
         WorkersMove, NetMove, CacheMove, AckedMove, OwnMove(S)
  PROVE  FabInv'
<1>1. QuietBut(S) /\ StoreOK'
  BY Zenon DEF StoreMoves
<1>2. WorkersOK'
  <2>1. ASSUME NEW s, workerOK(s) PROVE workerOK(s)'
    <3>1. inRange(s.job, s.task) =>
            inRange(s.job, s.task)' /\ \A v : reported(s.job, s.task, v) => reported(s.job, s.task, v)'
      BY Zenon, <1>1, RangeKept
    <3>2. \A d \in Digests : objects[d] # "none" => objects'[d] # "none"
      BY Zenon DEF CacheMove
    <3> QED  BY Zenon, <2>1, <3>1, <3>2 DEF workerOK
  <2>2. ASSUME NEW w \in Workers, NEW s, s = worker'[w] PROVE workerOK(s)'
    BY Zenon, <2>1, <2>2 DEF WorkersMove, FabInv, WorkersOK
  <2> QED  BY Zenon, <2>2 DEF WorkersMove, WorkersOK
<1>3. NetOK'
  <2>1. ASSUME NEW m, messageOK(m) PROVE messageOK(m)'
    <3>1. /\ inRange(m.job, m.task)'
          /\ \A v : reported(m.job, m.task, v) => reported(m.job, m.task, v)'
      BY Zenon, <1>1, <2>1, RangeKept DEF messageOK
    <3> QED  BY Zenon, <2>1, <3>1 DEF messageOK
  <2> QED  BY Zenon, <2>1 DEF NetMove, NetOK, FabInv
<1>4. CacheOK'
  <2>1. ASSUME NEW k \in Keys, index'[k] = index[k] PROVE keyOK(k)'
    BY Zenon, <2>1 DEF FabInv, CacheOK, keyOK, CacheMove
  <2> QED  BY Zenon, <2>1 DEF CacheOK, CacheMove
<1>5. \A m \in acked' : kept(m)'
  BY Zenon, AckKept DEF AckedMove, FabInv
<1>6. \A j \in DOMAIN jobs' : \A i \in DOMAIN jobs'[j].tasks : own(j, i)'
  BY Zenon, OwnKept DEF OwnMove
<1> QED  BY Zenon, <1>1, <1>2, <1>3, <1>4, <1>5, <1>6 DEF FabInv, all

\* A step that leaves the store alone.
LEMMA StoreStays ==
  ASSUME FabInv, UNCHANGED storeVars
  PROVE  StoreMoves({}) /\ OwnMove({})
<1>1. jobs' = jobs /\ now' = now /\ ids' = ids
  BY Zenon DEF storeVars
<1>2. StoreOK'
  BY Zenon, <1>1 DEF FabInv, StoreOK, all
<1>3. \A j \in all : QuietJob(jobs[j], jobs[j])
  BY Zenon, QuietReflexive DEF FabInv, StoreOK
<1>4. QuietBut({})
  BY Zenon, <1>1, <1>3 DEF QuietBut, QuietJob, all
<1> QED  BY Zenon, <1>1, <1>2, <1>4 DEF StoreMoves, OwnMove, all

\* Parts that a step leaves alone.
LEMMA PartsStay ==
  /\ FabInv /\ UNCHANGED worker => WorkersMove
  /\ UNCHANGED net => NetMove
  /\ FabInv /\ UNCHANGED cacheVars => CacheMove
  /\ UNCHANGED acked => AckedMove
BY Zenon DEF WorkersMove, NetMove, CacheMove, AckedMove, FabInv, WorkersOK, CacheOK, cacheVars


-----------------------------------------------------------------------------
(* What a worker does with itself and the net *)

\* A worker that is not idle, and the task it holds.
Holds(w, j, i) ==
  w \in Workers /\ worker[w].pc # "idle" /\ j = worker[w].job /\ i = worker[w].task

\* to: the worker goes on with its task.
LEMMA ToMoves ==
  ASSUME FabInv, UNCHANGED jobs, NEW w, NEW j, NEW i, Holds(w, j, i),
         NEW pc \in WorkerPcs, NEW v \in Contents, to(w, pc, v),
         pc \in {"put", "index"} => v \in Verdicts /\ reported(j, i, v)',
         pc = "fetch" /\ v \in Digests => reported(j, i, v)',
         pc = "index" /\ v \in Digests => objects'[v] # "none"
  PROVE  WorkersMove
<1> DEFINE new == [worker[w] EXCEPT !.pc = pc, !.verdict = v]
<1>1. worker \in [Workers -> Process] /\ w \in Workers /\ worker[w] \in Process /\ workerOK(worker[w])
  BY Zenon DEF FabInv, WorkersOK, Holds
<1>2. new \in Process /\ new.pc = pc /\ new.job = j /\ new.task = i /\ new.verdict = v
  BY Zenon, <1>1 DEF Process, Holds
<1>3. worker' = [worker EXCEPT ![w] = new]
  BY Zenon DEF to
<1> HIDE DEF new
<1>4. worker' \in [Workers -> Process] /\ worker'[w] = new /\ \A x \in Workers \ {w} : worker'[x] = worker[x]
  BY Zenon, <1>1, <1>2, <1>3
<1>5. inRange(j, i)'
  BY Zenon, <1>1 DEF workerOK, Holds, inRange, all
<1>6. ASSUME NEW s, s = new PROVE workerOK(s)'
  BY Zenon, <1>2, <1>5, <1>6 DEF workerOK
<1> QED  BY Zenon, <1>4, <1>6 DEF WorkersMove

\* Ends: it is idle.
LEMMA EndMoves ==
  ASSUME FabInv, NEW w \in Workers, Ends(w)
  PROVE  WorkersMove
<1>1. worker \in [Workers -> Process] /\ Idle \in Process
  BY Zenon DEF FabInv, WorkersOK, Idle, Process, WorkerPcs, Contents
<1>2. ASSUME NEW s, s = Idle PROVE workerOK(s)'
  BY Zenon, <1>2 DEF workerOK, Idle
<1> QED  BY Zenon, <1>1, <1>2 DEF WorkersMove, Ends

\* Sends: the commit carries the worker's task, and a result that was reported or an error.
LEMMA SendMoves ==
  ASSUME FabInv, UNCHANGED jobs, NEW w, NEW j, NEW i, Holds(w, j, i),
         NEW v \in Verdicts, NEW fail \in BOOLEAN, ~fail => reported(j, i, v)', Sends(w, v, fail)
  PROVE  WorkersMove /\ NetMove
<1> DEFINE new == [w |-> w, job |-> worker[w].job, task |-> worker[w].task,
                   attempt |-> worker[w].attempt, verdict |-> v, fail |-> fail]
<1>1. w \in Workers /\ worker[w] \in Process /\ workerOK(worker[w]) /\ worker[w].pc # "idle"
  BY Zenon DEF FabInv, WorkersOK, Holds
<1>2. new \in Message /\ new.job = j /\ new.task = i /\ new.verdict = v /\ new.fail = fail
  BY Zenon, <1>1 DEF Message, Process, Holds
<1>3. net' = net \cup {new} /\ to(w, "sent", v)
  BY Zenon DEF Sends
<1> HIDE DEF new
<1>4. WorkersMove
  BY Zenon, <1>3, ToMoves DEF WorkerPcs, Contents
<1>5. inRange(j, i)'
  BY Zenon, <1>1 DEF workerOK, Holds, inRange, all
<1>6. ASSUME NEW m, m = new PROVE messageOK(m)'
  BY Zenon, <1>2, <1>5, <1>6 DEF messageOK
<1>7. NetMove
  BY Zenon, <1>3, <1>6 DEF NetMove
<1> QED  BY Zenon, <1>4, <1>7

\* Errors: no result.
LEMMA ErrorMoves ==
  ASSUME FabInv, UNCHANGED jobs, NEW w, NEW j, NEW i, Holds(w, j, i), Errors(w)
  PROVE  WorkersMove /\ NetMove
<1>1. Sends(w, "incomplete", TRUE) /\ "incomplete" \in Verdicts /\ TRUE \in BOOLEAN
  BY Zenon, FabricAssumption DEF Errors
<1> QED  BY Zenon, <1>1, SendMoves


-----------------------------------------------------------------------------
(* One lemma per action *)

\* What a worker at work has, as constants.
LEMMA AtWork ==
  ASSUME FabInv, NEW w \in Workers, worker[w].pc # "idle"
  PROVE  \E j, i : /\ Holds(w, j, i) /\ inRange(j, i)
                   /\ step(w) = jobs[j].plan[i] /\ key(w) = FromLease(j, i)
                   /\ workerOK(worker[w])
<1>1. worker \in [Workers -> Process] /\ workerOK(worker[w])
  BY Zenon DEF FabInv, WorkersOK
<1> QED  BY Zenon, <1>1 DEF workerOK, Holds, step, key

\* The key of a cached action.
LEMMA KeyKnown ==
  ASSUME FabInv, NEW j, NEW i, inRange(j, i), Cacheable(jobs[j].plan[i].kind)
  PROVE  FromLease(j, i) \in Keys
<1>1. j \in 1..MaxJobs
  BY MemAssumption DEF FabInv, StoreOK, inRange, all
<1>2. i \in DOMAIN jobs[j].plan /\ jobs[j].plan \in Plans
  BY Zenon, SoundRow DEF FabInv, StoreOK, inRange
<1> QED  BY Zenon, <1>1, <1>2, FabricAssumption DEF FromLease

LEMMA LookStep ==
  ASSUME FabInv, NEW w \in Workers, Look(w)
  PROVE  FabInv'
<1>1. UNCHANGED storeVars /\ UNCHANGED cacheVars /\ ran' = ran /\ acked' = acked /\ worker[w].pc = "look"
  BY Zenon DEF Look
<1>2. StoreMoves({}) /\ OwnMove({}) /\ CacheMove /\ AckedMove /\ jobs' = jobs
  BY Zenon, <1>1, StoreStays, PartsStay DEF storeVars
<1>3. PICK j, i : Holds(w, j, i) /\ inRange(j, i) /\ step(w) = jobs[j].plan[i] /\ key(w) = FromLease(j, i)
  BY Zenon, <1>1, AtWork
<1>4. CASE Goes(w, "run", "none")
  <2>1. WorkersMove
    BY Zenon, <1>2, <1>3, <1>4, ToMoves DEF Goes, WorkerPcs, Contents
  <2>2. NetMove
    BY Zenon, <1>4, PartsStay DEF Goes
  <2> QED  BY Zenon, <1>1, <1>2, <2>1, <2>2, Assemble
<1>5. CASE Cacheable(step(w).kind) /\ Goes(w, "fetch", index[key(w)])
  <2>1. PICK v : v = index[FromLease(j, i)]
    BY Zenon
  <2>2. FromLease(j, i) \in Keys
    BY Zenon, <1>3, <1>5, KeyKnown
  <2>3. v \in Contents /\ keyOK(FromLease(j, i))
    BY Zenon, <2>1, <2>2 DEF FabInv, CacheOK
  <2>4. v \in Digests => reported(j, i, v)'
    BY Zenon, <1>1, <1>2, <2>1, <2>3 DEF keyOK, FromLease, reported
  <2>5. to(w, "fetch", v) /\ "fetch" \in WorkerPcs /\ net' = net
    BY Zenon, <1>3, <1>5, <2>1 DEF Goes, WorkerPcs
  <2>6. WorkersMove
    BY Zenon, <1>2, <1>3, <2>3, <2>4, <2>5, ToMoves
  <2>7. NetMove
    BY Zenon, <2>5, PartsStay
  <2> QED  BY Zenon, <1>1, <1>2, <2>6, <2>7, Assemble
<1>6. CASE Errors(w)
  <2>1. WorkersMove /\ NetMove
    BY Zenon, <1>2, <1>3, <1>6, ErrorMoves
  <2> QED  BY Zenon, <1>1, <1>2, <2>1, Assemble
<1> QED  BY Zenon, <1>4, <1>5, <1>6 DEF Look

LEMMA FetchStep ==
  ASSUME FabInv, NEW w \in Workers, Fetch(w)
  PROVE  FabInv'
<1> DEFINE id == worker[w].verdict
           raw == IF id \in Digests THEN objects[id] ELSE "none"
<1>1. UNCHANGED storeVars /\ UNCHANGED cacheVars /\ ran' = ran /\ acked' = acked /\ worker[w].pc = "fetch"
  BY Zenon DEF Fetch
<1>2. StoreMoves({}) /\ OwnMove({}) /\ CacheMove /\ AckedMove /\ jobs' = jobs
  BY Zenon, <1>1, StoreStays, PartsStay DEF storeVars
<1>3. PICK j, i : Holds(w, j, i) /\ workerOK(worker[w])
  BY Zenon, <1>1, AtWork
<1>4. CASE casGet(id, raw)
  <2>1. PICK v : v = raw
    BY Zenon
  <2>2. v = id /\ v \in Digests
    BY Zenon, <1>4, <2>1 DEF casGet
  <2>3. reported(j, i, v) /\ v \in Verdicts
    BY Zenon, <1>1, <1>3, <2>2, FabricAssumption DEF workerOK, Holds
  <2>4. reported(j, i, v)' /\ FALSE \in BOOLEAN
    BY Zenon, <1>1, <1>2, <2>3 DEF reported
  <2>5. Sends(w, v, FALSE)
    BY Zenon, <1>4, <2>1 DEF Fetch
  <2>6. WorkersMove /\ NetMove
    BY Zenon, <1>2, <1>3, <2>3, <2>4, <2>5, SendMoves
  <2> QED  BY Zenon, <1>1, <1>2, <2>6, Assemble
<1>5. CASE ~casGet(id, raw)
  <2>1. WorkersMove /\ NetMove
    BY Zenon, <1>2, <1>3, <1>5, ErrorMoves DEF Fetch
  <2> QED  BY Zenon, <1>1, <1>2, <2>1, Assemble
<1> QED  BY Zenon, <1>4, <1>5


LEMMA RunStep ==
  ASSUME FabInv, NEW w \in Workers, Run(w)
  PROVE  FabInv'
<1>1. UNCHANGED storeVars /\ UNCHANGED cacheVars /\ acked' = acked /\ worker[w].pc = "run"
  BY Zenon DEF Run
<1>2. StoreMoves({}) /\ OwnMove({}) /\ CacheMove /\ AckedMove /\ jobs' = jobs
  BY Zenon, <1>1, StoreStays, PartsStay DEF storeVars
<1>3. PICK j, i : Holds(w, j, i) /\ step(w) = jobs[j].plan[i]
  BY Zenon, <1>1, AtWork
<1>4. ASSUME NEW v \in Verdicts,
             Goes(w, "put", v) \/ Sends(w, v, FALSE),
             ran' = ran \cup {[job |-> worker[w].job, kind |-> step(w).kind, n |-> step(w).n, verdict |-> v]}
      PROVE  FabInv'
  <2>1. reported(j, i, v)' /\ ran \subseteq ran'
    BY Zenon, <1>2, <1>3, <1>4 DEF reported, Holds
  <2>2. CASE Goes(w, "put", v)
    <3>1. to(w, "put", v) /\ net' = net /\ "put" \in WorkerPcs /\ v \in Contents
      BY Zenon, <2>2 DEF Goes, WorkerPcs, Contents
    <3>2. WorkersMove
      BY Zenon, <1>2, <1>3, <2>1, <3>1, ToMoves
    <3>3. NetMove
      BY Zenon, <3>1, PartsStay
    <3> QED  BY Zenon, <1>2, <2>1, <3>2, <3>3, Assemble
  <2>3. CASE Sends(w, v, FALSE)
    <3>1. FALSE \in BOOLEAN
      BY Zenon
    <3>2. WorkersMove /\ NetMove
      BY Zenon, <1>2, <1>3, <2>1, <2>3, <3>1, SendMoves
    <3> QED  BY Zenon, <1>2, <2>1, <3>2, Assemble
  <2> QED  BY Zenon, <1>4, <2>2, <2>3
<1>5. CASE Errors(w) /\ UNCHANGED ran
  <2>1. WorkersMove /\ NetMove
    BY Zenon, <1>2, <1>3, <1>5, ErrorMoves
  <2> QED  BY Zenon, <1>2, <1>5, <2>1, Assemble
<1> QED  BY Zenon, <1>4, <1>5 DEF Run

LEMMA PutObjectStep ==
  ASSUME FabInv, NEW w \in Workers, PutObject(w)
  PROVE  FabInv'
<1>1. UNCHANGED storeVars /\ index' = index /\ ran' = ran /\ acked' = acked /\ worker[w].pc = "put"
  BY Zenon DEF PutObject
<1>2. StoreMoves({}) /\ OwnMove({}) /\ AckedMove /\ jobs' = jobs
  BY Zenon, <1>1, StoreStays, PartsStay DEF storeVars
<1>3. PICK j, i : Holds(w, j, i) /\ workerOK(worker[w])
  BY Zenon, <1>1, AtWork
<1>4. PICK v : v = worker[w].verdict
  BY Zenon
<1>5. v \in Verdicts /\ reported(j, i, v)
  BY Zenon, <1>1, <1>3, <1>4 DEF workerOK, Holds
<1>6. CASE casPutOK(v) /\ casPut(v) /\ Goes(w, "index", v)
  <2>1. /\ objects \in [Digests -> Contents] /\ index \in [Keys -> Contents]
        /\ objects' = [objects EXCEPT ![v] = v] /\ v \in Contents
    BY Zenon, <1>5, <1>6 DEF casPut, FabInv, CacheOK, Contents
  <2>2. /\ objects' \in [Digests -> Contents]
        /\ \A d \in Digests : objects'[d] = IF d = v THEN v ELSE objects[d]
    BY Zenon, <2>1
  <2>3. \A d \in Digests : d # "none"
    BY Zenon, CacheAssumption
  <2>4. CacheMove
    BY Zenon, <1>1, <2>1, <2>2, <2>3 DEF CacheMove
  <2>5. to(w, "index", v) /\ net' = net /\ "index" \in WorkerPcs
    BY Zenon, <1>6 DEF Goes, WorkerPcs
  <2>6. reported(j, i, v)' /\ (v \in Digests => objects'[v] # "none")
    BY Zenon, <1>1, <1>2, <1>5, <2>2, <2>3 DEF reported
  <2>7. WorkersMove
    BY Zenon, <1>2, <1>3, <1>5, <2>1, <2>5, <2>6, ToMoves
  <2>8. NetMove
    BY Zenon, <2>5, PartsStay
  <2> QED  BY Zenon, <1>1, <1>2, <2>4, <2>7, <2>8, Assemble
<1>7. CASE Errors(w) /\ UNCHANGED objects
  <2>1. WorkersMove /\ NetMove
    BY Zenon, <1>2, <1>3, <1>7, ErrorMoves
  <2>2. CacheMove
    BY Zenon, <1>1, <1>7, PartsStay DEF cacheVars
  <2> QED  BY Zenon, <1>1, <1>2, <2>1, <2>2, Assemble
<1> QED  BY Zenon, <1>4, <1>6, <1>7 DEF PutObject

LEMMA PutNameStep ==
  ASSUME FabInv, NEW w \in Workers, PutName(w)
  PROVE  FabInv'
<1>1. UNCHANGED storeVars /\ objects' = objects /\ ran' = ran /\ acked' = acked /\ worker[w].pc = "index"
  BY Zenon DEF PutName
<1>2. StoreMoves({}) /\ OwnMove({}) /\ AckedMove /\ jobs' = jobs
  BY Zenon, <1>1, StoreStays, PartsStay DEF storeVars
<1>3. PICK j, i : Holds(w, j, i) /\ key(w) = FromLease(j, i) /\ workerOK(worker[w])
  BY Zenon, <1>1, AtWork
<1>4. PICK v : v = worker[w].verdict
  BY Zenon
<1>5. v \in Verdicts /\ reported(j, i, v) /\ (v \in Digests => objects[v] # "none")
  BY Zenon, <1>1, <1>3, <1>4 DEF workerOK, Holds
<1>6. CASE PutIndex(FromLease(j, i), v) /\ Sends(w, v, FALSE)
  <2>1. /\ objects \in [Digests -> Contents] /\ index \in [Keys -> Contents]
        /\ index' = [index EXCEPT ![FromLease(j, i)] = v] /\ v \in Contents
    BY Zenon, <1>5, <1>6 DEF PutIndex, FabInv, CacheOK, Contents
  <2>2. /\ index' \in [Keys -> Contents]
        /\ \A k \in Keys : index'[k] = IF k = FromLease(j, i) THEN v ELSE index[k]
    BY Zenon, <2>1
  <2>3. ASSUME NEW k \in Keys, k = FromLease(j, i) PROVE keyOK(k)'
    BY Zenon, <1>1, <1>5, <2>2, <2>3 DEF keyOK, FromLease, reported
  <2>4. CacheMove
    BY Zenon, <1>1, <2>1, <2>2, <2>3 DEF CacheMove
  <2>5. reported(j, i, v)' /\ FALSE \in BOOLEAN
    BY Zenon, <1>1, <1>2, <1>5 DEF reported
  <2>6. WorkersMove /\ NetMove
    BY Zenon, <1>2, <1>3, <1>5, <1>6, <2>5, SendMoves
  <2> QED  BY Zenon, <1>1, <1>2, <2>4, <2>6, Assemble
<1>7. CASE Errors(w) /\ UNCHANGED index
  <2>1. WorkersMove /\ NetMove
    BY Zenon, <1>2, <1>3, <1>7, ErrorMoves
  <2>2. CacheMove
    BY Zenon, <1>1, <1>7, PartsStay DEF cacheVars
  <2> QED  BY Zenon, <1>1, <1>2, <2>1, <2>2, Assemble
<1> QED  BY Zenon, <1>3, <1>4, <1>6, <1>7 DEF PutName

LEMMA LeaseRPCStep ==
  ASSUME FabInv, NEW w \in Workers, LeaseRPC(w)
  PROVE  FabInv'
<1>1. UNCHANGED cacheVars /\ net' = net /\ ran' = ran /\ acked' = acked
  BY Zenon DEF LeaseRPC
<1>2. CacheMove /\ NetMove /\ AckedMove /\ StoreOK /\ worker \in [Workers -> Process]
  BY Zenon, <1>1, PartsStay DEF FabInv, WorkersOK
<1>3. CASE LeaseEmpty(w) /\ UNCHANGED worker
  <2>1. StoreOK' /\ DOMAIN jobs' = all /\ QuietBut({})
    BY Zenon, <1>2, <1>3, ReapStep DEF LeaseEmpty
  <2>2. StoreMoves({}) /\ OwnMove({})
    BY Zenon, <2>1 DEF StoreMoves, OwnMove
  <2>3. WorkersMove
    BY Zenon, <1>3, PartsStay
  <2> QED  BY Zenon, <1>1, <1>2, <2>2, <2>3, Assemble
<1>4. ASSUME NEW j \in all, NEW i \in DOMAIN jobs[j].tasks, Lease(w, j, i),
             \/ worker' = [worker EXCEPT ![w] =
                  [pc |-> "look", job |-> j, task |-> i, attempt |-> ids', verdict |-> "none"]]
             \/ UNCHANGED worker
      PROVE  FabInv'
  <2> DEFINE S == {<<j, i>>}
             new == [pc |-> "look", job |-> j, task |-> i, attempt |-> ids', verdict |-> "none"]
  <2>1. /\ StoreOK' /\ DOMAIN jobs' = all /\ QuietBut(S) /\ ids' = ids + 1
        /\ \E r : /\ QuietTask(jobs[j].tasks[i], r) /\ r \in Task /\ r.state = "ready"
                  /\ jobs'[j].tasks[i] = leaseTask(r, ids + 1, w, now)
    BY Zenon, <1>2, <1>4, LeaseStep
  <2>2. jobs[j].tasks[i].state \notin Final /\ jobs'[j].tasks[i].state # "succeeded"
    BY <2>1 DEF QuietTask, Final, leaseTask
  <2>3. \A k, m : <<k, m>> \in S => k = j /\ m = i
    BY Zenon
  <2> HIDE DEF S
  <2>4. StoreMoves(S) /\ OwnMove(S)
    BY Zenon, <2>1, <2>2, <2>3 DEF StoreMoves, OwnMove, own
  <2>5. WorkersMove
    <3>1. CASE UNCHANGED worker
      BY Zenon, <3>1, PartsStay
    <3>2. CASE worker' = [worker EXCEPT ![w] = new]
      <4>1. j \in Nat /\ i \in Nat /\ ids' \in Nat
        <5>1. jobs[j].plan \in Plans /\ DOMAIN jobs[j].tasks = DOMAIN jobs[j].plan
          BY Zenon, <1>2, SoundRow DEF StoreOK
        <5>2. PICK p \in Plans : p = jobs[j].plan
          BY Zenon, <5>1
        <5>3. p \in Seq({p[k] : k \in DOMAIN p})
          BY Zenon, PlansAssumption
        <5>4. DOMAIN p = 1..Len(p) /\ Len(p) \in Nat
          BY <5>3
        <5>5. i \in Nat
          BY <5>1, <5>2, <5>4
        <5>6. all = 1..Len(jobs) /\ Len(jobs) \in Nat
          BY <1>2 DEF StoreOK, all
        <5>7. j \in Nat
          BY <5>6
        <5>8. ids \in Nat /\ ids' = ids + 1
          BY Zenon, <1>2, <2>1 DEF StoreOK
        <5>9. ids' \in Nat
          BY <5>8
        <5> QED  BY Zenon, <5>5, <5>7, <5>9
      <4>2. new \in Process
        BY Zenon, <4>1 DEF Process, WorkerPcs, Contents
      <4>3. inRange(j, i)'
        BY Zenon, <2>1 DEF QuietBut, SameJob, inRange, all
      <4>4. ASSUME NEW s, s = new PROVE workerOK(s)'
        BY Zenon, <4>3, <4>4 DEF workerOK
      <4> HIDE DEF new
      <4> QED  BY Zenon, <1>2, <3>2, <4>2, <4>4 DEF WorkersMove
    <3> QED  BY Zenon, <1>4, <3>1, <3>2
  <2> QED  BY Zenon, <1>1, <1>2, <2>4, <2>5, Assemble
<1> QED  BY Zenon, <1>3, <1>4 DEF LeaseRPC

\* A step that changes the store quietly and nothing else.
LEMMA QuietStep ==
  ASSUME FabInv, StoreOK', QuietBut({}), UNCHANGED <<cacheVars, workerVars>>,
         \A j \in DOMAIN jobs' \ all : \A i \in DOMAIN jobs'[j].tasks : Untouched(jobs'[j].tasks[i])
  PROVE  FabInv'
<1>1. StoreMoves({}) /\ OwnMove({})
  BY Zenon DEF StoreMoves, OwnMove, Untouched
<1>2. WorkersMove /\ NetMove /\ CacheMove /\ AckedMove /\ ran' = ran
  BY Zenon, PartsStay DEF workerVars
<1> QED  BY Zenon, <1>1, <1>2, Assemble

LEMMA HeartbeatRPCStep ==
  ASSUME FabInv, NEW w \in Workers, HeartbeatRPC(w)
  PROVE  FabInv'
<1>1. UNCHANGED <<cacheVars, workerVars>> /\ worker[w].pc # "idle"
  BY Zenon DEF HeartbeatRPC
<1>2. PICK j, i : Holds(w, j, i) /\ inRange(j, i)
  BY Zenon, <1>1, AtWork
<1>3. StoreOK' /\ DOMAIN jobs' = all /\ QuietBut({})
  BY Zenon, <1>2, HeartbeatStep DEF HeartbeatRPC, Holds, inRange, FabInv
<1> QED  BY Zenon, <1>1, <1>3, QuietStep

\* Create, Cancel, Reap and the clock.
LEMMA ServerStepKeeps ==
  ASSUME FabInv, ServerStep, UNCHANGED <<cacheVars, workerVars>>
  PROVE  FabInv'
<1>0. StoreOK
  BY Zenon DEF FabInv
<1>1. ASSUME NEW opts \in CreateOpts, Create(opts) PROVE FabInv'
  <2>1. /\ StoreOK' /\ QuietBut({})
        /\ \/ DOMAIN jobs' = all
           \/ /\ DOMAIN jobs' = all \cup {Len(jobs) + 1}
              /\ \A i \in DOMAIN jobs'[Len(jobs) + 1].tasks : Untouched(jobs'[Len(jobs) + 1].tasks[i])
    BY Zenon, <1>0, <1>1, CreateStep
  <2> QED  BY Zenon, <2>1, QuietStep
<1>2. ASSUME NEW j \in all, Cancel(j) PROVE FabInv'
  BY Zenon, <1>0, <1>2, CancelStep, QuietStep
<1>3. CASE Reap
  BY Zenon, <1>0, <1>3, ReapStep, QuietStep DEF Reap
<1>4. CASE Tick
  <2>1. jobs' = jobs /\ ids' = ids /\ now' = now + 1
    BY Zenon, <1>4 DEF Tick
  <2>2. StoreOK'
    BY <1>0, <2>1 DEF StoreOK, all
  <2>3. \A j \in all : QuietJob(jobs[j], jobs[j])
    BY Zenon, QuietReflexive
  <2>4. QuietBut({})
    BY Zenon, <2>1, <2>3 DEF QuietBut, QuietJob, all
  <2> QED  BY Zenon, <2>1, <2>2, <2>4, QuietStep DEF all
<1> QED  BY Zenon, <1>1, <1>2, <1>3, <1>4 DEF ServerStep


\* An accepted commit gives the task what its own action reported, or its failure; a
\* refused one, or one that comes too late, changes no task.
LEMMA HandleCommitStep ==
  ASSUME FabInv, NEW m \in net, HandleCommit(m)
  PROVE  FabInv'
<1> DEFINE j == m.job
           i == m.task
           ok == accepts(m.job, m.task, m.attempt, m.verdict, m.fail)
<1>1. UNCHANGED cacheVars /\ ran' = ran /\ net' = net \ {m} /\ Commit(j, i, m.attempt, m.verdict, m.fail)
  BY Zenon DEF HandleCommit
<1>2. messageOK(m) /\ m \in Message /\ j \in all /\ i \in DOMAIN jobs[j].tasks /\ StoreOK
  BY Zenon DEF FabInv, NetOK, messageOK, inRange
<1>3. m.verdict \in Verdicts /\ m.fail \in BOOLEAN /\ m.w \in Workers
  BY Zenon, <1>2 DEF Message
<1>4. WorkersMove
  BY Zenon, <1>3, EndMoves, PartsStay DEF HandleCommit
<1>5. NetMove /\ CacheMove
  BY Zenon, <1>1, PartsStay DEF NetMove
<1>6. /\ StoreOK' /\ DOMAIN jobs' = all /\ ids' = ids
      /\ ~ok => jobs' = jobs
      /\ ok => /\ QuietBut({<<j, i>>}) /\ jobs[j].tasks[i].state = "leased"
               /\ jobs[j].tasks[i].attempt = m.attempt
               /\ jobs'[j].tasks[i] = applyCommit(jobs[j].tasks[i], m.verdict, m.fail)
  BY SMTT(30), <1>1, <1>2, <1>3, CommitStep
<1>7. acked' = acked \/ (ok /\ acked' = acked \cup {m})
  BY Zenon DEF HandleCommit
<1>8. now' = now
  BY Zenon, <1>1 DEF Commit
<1>9. CASE ~ok
  <2>1. UNCHANGED storeVars /\ acked' = acked
    BY Zenon, <1>6, <1>7, <1>8, <1>9 DEF storeVars
  <2>2. StoreMoves({}) /\ OwnMove({}) /\ AckedMove
    BY Zenon, <2>1, StoreStays, PartsStay
  <2> QED  BY Zenon, <1>1, <1>4, <1>5, <2>2, Assemble
<1>10. CASE ok
  <2> DEFINE S == {<<j, i>>}
             t == jobs[j].tasks[i]
             u == jobs'[j].tasks[i]
  <2>1. QuietBut(S) /\ t.state = "leased" /\ t.attempt = m.attempt /\ u = applyCommit(t, m.verdict, m.fail)
    BY Zenon, <1>6, <1>10
  <2>2. t \in Task
    BY Zenon, <1>2 DEF StoreOK, Sound, Raw, Job
  <2>3. \A k, n : <<k, n>> \in S => k = j /\ n = i
    BY Zenon
  <2> HIDE DEF S
  <2>4. /\ u.attempt = m.attempt /\ u.verdict = m.verdict
        /\ u.state = IF m.fail THEN "failed" ELSE "succeeded"
    BY Zenon, <1>3, <2>1, <2>2 DEF applyCommit, Task
  <2>5. inRange(j, i)' /\ \A v : reported(j, i, v) => reported(j, i, v)'
    BY Zenon, <1>1, <1>2, <2>1, RangeKept DEF inRange
  <2>6. kept(m)'
    BY Zenon, <2>4, <2>5 DEF kept
  <2>7. own(j, i)'
    <3>1. CASE m.fail
      BY Zenon, <2>4, <3>1 DEF own
    <3>2. CASE ~m.fail
      <4>1. reported(j, i, m.verdict)
        BY Zenon, <1>2, <3>2 DEF messageOK
      <4>2. reported(j, i, m.verdict)'
        BY Zenon, <2>5, <4>1
      <4> QED  BY Zenon, <2>4, <4>2 DEF own, reported
    <3> QED  BY Zenon, <3>1, <3>2
  <2>8. StoreMoves(S) /\ OwnMove(S)
    <3>1. StoreMoves(S)
      BY Zenon, <1>6, <2>1, <2>3 DEF StoreMoves, Final
    <3>2. OwnMove(S)
      BY Zenon, <2>3, <2>7 DEF OwnMove
    <3> QED  BY Zenon, <3>1, <3>2
  <2>9. AckedMove
    BY Zenon, <1>7, <2>6 DEF AckedMove
  <2> QED  BY Zenon, <1>1, <1>4, <1>5, <2>8, <2>9, Assemble
<1> QED  BY Zenon, <1>9, <1>10

LEMMA CrashStep ==
  ASSUME FabInv, NEW w \in Workers, Crash(w)
  PROVE  FabInv'
<1>1. UNCHANGED storeVars /\ UNCHANGED cacheVars /\ ran' = ran /\ acked' = acked
  BY Zenon DEF Crash
<1>2. StoreMoves({}) /\ OwnMove({}) /\ CacheMove /\ AckedMove
  BY Zenon, <1>1, StoreStays, PartsStay
<1>3. WorkersMove
  BY Zenon, EndMoves DEF Crash
<1>4. NetMove
  BY Zenon DEF Crash, NetMove
<1> QED  BY Zenon, <1>1, <1>2, <1>3, <1>4, Assemble

\* A file that lost its bytes is no digest, and is still there.
LEMMA HostStopsStep ==
  ASSUME FabInv, HostStops
  PROVE  FabInv'
<1>1. UNCHANGED storeVars /\ net' = net /\ ran' = ran /\ acked' = acked
  BY Zenon DEF HostStops
<1>2. StoreMoves({}) /\ OwnMove({}) /\ NetMove /\ AckedMove
  BY Zenon, <1>1, StoreStays, PartsStay
<1>3. WorkersMove
  <2>1. Idle \in Process /\ worker' = [w \in Workers |-> Idle]
    BY Zenon DEF HostStops, Idle, Process, WorkerPcs, Contents
  <2>2. ASSUME NEW s, s = Idle PROVE workerOK(s)'
    BY Zenon, <2>2 DEF workerOK, Idle
  <2> QED  BY Zenon, <2>1, <2>2 DEF WorkersMove
<1>4. CacheMove
  <2>1. PICK K, D :
          /\ index' = [k \in Keys |-> IF k \in K THEN Torn ELSE index[k]]
          /\ objects' = [d \in Digests |-> IF d \in D THEN Torn ELSE objects[d]]
    BY DEF HostStops, PowerLoss
  <2>2. index \in [Keys -> Contents] /\ objects \in [Digests -> Contents] /\ Torn \in Contents
    BY Zenon DEF FabInv, CacheOK, Contents
  <2>3. Torn # "none" /\ Torn \notin Digests
    BY Zenon, CacheAssumption
  <2>4. \A k \in Keys : index'[k] = index[k] \/ keyOK(k)'
    BY Zenon, <2>1, <2>3 DEF keyOK
  <2> QED  BY Zenon, <2>1, <2>2, <2>3, <2>4 DEF CacheMove
<1> QED  BY Zenon, <1>1, <1>2, <1>3, <1>4, Assemble


-----------------------------------------------------------------------------
(* The theorems *)

\* Every step keeps the invariant.
LEMMA FabStep ==
  ASSUME FabInv, [Next]_vars
  PROVE  FabInv'
<1>1. ASSUME NEW w \in Workers, WorkerStep(w) PROVE FabInv'
  BY Zenon, <1>1, LeaseRPCStep, HeartbeatRPCStep, LookStep, FetchStep, RunStep, PutObjectStep, PutNameStep,
     CrashStep DEF WorkerStep
<1>2. CASE UNCHANGED vars
  <2>1. UNCHANGED storeVars /\ UNCHANGED cacheVars /\ UNCHANGED workerVars
    BY Zenon, <1>2 DEF vars, workerVars
  <2>2. StoreMoves({}) /\ OwnMove({})
    BY Zenon, <2>1, StoreStays
  <2>3. WorkersMove /\ NetMove /\ CacheMove /\ AckedMove /\ ran' = ran
    BY Zenon, <2>1, PartsStay DEF workerVars
  <2> QED  BY Zenon, <2>2, <2>3, Assemble
<1> QED  BY Zenon, <1>1, <1>2, ServerStepKeeps, HandleCommitStep, HostStopsStep DEF Next

\* The invariant of the memory store, its workers and their cache: rows are sound, and a
\* result is traced to the execution that reported it wherever it is, in a worker, on the
\* net, in the cache or in a task.
THEOREM FabricInvariant == Spec => []FabInv
<1>1. Init => FabInv
  <2> SUFFICES ASSUME Init PROVE FabInv
    BY Zenon
  <2>1. StoreOK /\ all = {}
    BY MemAssumption DEF Init, StoreInit, StoreOK, all
  <2>2. Idle \in Process /\ worker = [w \in Workers |-> Idle]
    BY Zenon DEF Init, Idle, Process, WorkerPcs, Contents
  <2>3. workerOK(Idle)
    BY Zenon DEF workerOK, Idle
  <2>4. WorkersOK
    BY Zenon, <2>2, <2>3 DEF WorkersOK
  <2>5. NetOK /\ acked = {}
    BY Zenon DEF Init, NetOK
  <2>6. CacheOK
    BY Zenon, CacheAssumption DEF Init, CacheInit, CacheOK, keyOK, Contents
  <2> QED  BY Zenon, <2>1, <2>4, <2>5, <2>6 DEF FabInv
<1>2. FabInv /\ [Next]_vars => FabInv'
  BY Zenon, FabStep
<1> QED  BY <1>1, <1>2, PTL DEF Spec

\* What a task has succeeded with is what an execution of that very action reported
\* (action/cache.go FromLease, cas.go Get, memory.go Commit).
THEOREM ResultsAreOwn == Spec => []OwnResult
<1>1. FabInv => OwnResult
  BY Zenon DEF FabInv, OwnResult, own, reported
<1> QED  BY <1>1, FabricInvariant, PTL

\* A commit the worker was told of stays (memory.go Commit, requeueExpiredLocked, Cancel).
THEOREM AcknowledgedStays == Spec => []AckedKept
<1>1. FabInv => AckedKept
  BY Zenon DEF FabInv, AckedKept, kept
<1> QED  BY <1>1, FabricInvariant, PTL

\* The index names only objects that were written, whoever dies or races between the two
\* renames of Put, and whatever a power failure tears (cache.go Put, cas.go Put).
THEOREM IndexNamesObjects == Spec => []IndexBacked
<1>1. FabInv => IndexBacked
  BY Zenon DEF FabInv, IndexBacked, CacheOK, keyOK
<1> QED  BY <1>1, FabricInvariant, PTL


-----------------------------------------------------------------------------
(* The refinement of Ledger *)

\* The ledger read off the jobs, before and after a step.
LEMMA LedgerRows ==
  /\ DOMAIN ledger = DOMAIN jobs
  /\ \A k \in DOMAIN jobs :
       /\ DOMAIN ledger[k] = DOMAIN jobs[k].tasks
       /\ \A m \in DOMAIN jobs[k].tasks : ledger[k][m] = entry(jobs[k].tasks[m])
  /\ DOMAIN ledger' = DOMAIN jobs'
  /\ \A k \in DOMAIN jobs' :
       /\ DOMAIN ledger'[k] = DOMAIN jobs'[k].tasks
       /\ \A m \in DOMAIN jobs'[k].tasks : ledger'[k][m] = entry(jobs'[k].tasks[m])
BY Zenon DEF ledger, all

Whole(t) == t \in Task /\ leaseWhole(t)

\* A quiet change of a task releases its entry or leaves it.
LEMMA QuietReleased ==
  ASSUME NEW t, NEW u, Whole(t), Whole(u), QuietTask(t, u)
  PROVE  L!Released(entry(t), entry(u))
<1> DEFINE e == entry(t)
           f == entry(u)
<1>1. /\ e = [phase |-> phase(t), attempt |-> t.attempt, fence |-> t.fence, result |-> t.verdict]
      /\ f = [phase |-> phase(u), attempt |-> u.attempt, fence |-> t.fence, result |-> t.verdict]
  BY Zenon DEF entry, QuietTask
<1>2. /\ u.attempt \in {t.attempt, 0} /\ t.attempt \in Nat
      /\ t.state \in States /\ u.state \in States
  BY Zenon DEF QuietTask, Whole, Task
<1> HIDE DEF e, f
<1>3. CASE phase(t) = "done"
  <2>1. t.state \in {"succeeded", "failed", "skipped"}
    BY Zenon, <1>2, <1>3 DEF phase, States
  <2> QED  BY Zenon, <2>1 DEF QuietTask, L!Released
<1>4. CASE phase(t) # "done" /\ phase(u) = "done"
  <2>1. e.phase # "done" /\ f = L!Moved(e, "done", u.attempt)
    BY Zenon, <1>1, <1>4 DEF L!Moved
  <2>2. u.attempt \in {0, e.attempt}
    BY Zenon, <1>1, <1>2
  <2> QED  BY Zenon, <2>1, <2>2 DEF L!Released, L!GivenUp, e, f
<1>5. CASE phase(u) = "held"
  <2>1. t.state = "leased" /\ u.state = "leased" /\ u.attempt = t.attempt
    BY Zenon, <1>2, <1>5 DEF phase, QuietTask, Whole, leaseWhole
  <2>2. f = e
    BY Zenon, <1>1, <2>1 DEF phase
  <2> QED  BY Zenon, <2>2 DEF L!Released, e, f
<1>6. CASE phase(t) # "done" /\ phase(u) = "open"
  <2>1. u.state \in {"pending", "ready"} /\ u.attempt = 0
    BY Zenon, <1>6 DEF phase, Whole, leaseWhole
  <2>2. CASE phase(t) = "held"
    <3>1. e.phase = "held" /\ f = L!Moved(e, "open", 0)
      BY SMTT(30), <1>1, <1>6, <2>1, <2>2 DEF L!Moved
    <3> QED  BY Zenon, <3>1 DEF L!Released, L!Lapsed, e, f
  <2>3. CASE phase(t) = "open"
    <3>1. t.attempt = 0
      BY Zenon, <2>3 DEF phase, Whole, leaseWhole
    <3>2. f = e
      BY SMTT(30), <1>1, <1>6, <2>1, <2>3, <3>1
    <3> QED  BY Zenon, <3>2 DEF L!Released, e, f
  <2> QED  BY Zenon, <1>6, <2>2, <2>3 DEF phase
<1> QED  BY Zenon, <1>3, <1>4, <1>5, <1>6 DEF phase

\* In a sound store every task is whole.
LEMMA RowsWhole ==
  /\ StoreOK => \A k \in DOMAIN jobs : \A m \in DOMAIN jobs[k].tasks : Whole(jobs[k].tasks[m])
  /\ StoreOK' => \A k \in DOMAIN jobs' : \A m \in DOMAIN jobs'[k].tasks : Whole(jobs'[k].tasks[m])
BY Zenon DEF StoreOK, Sound, Raw, Job, Whole, all

\* The entries of tasks that change quietly are released or left.
LEMMA QuietEntries ==
  ASSUME StoreOK, StoreOK', NEW S, QuietBut(S)
  PROVE  /\ L!SameTasks
         /\ \A k \in DOMAIN ledger : \A m \in DOMAIN ledger[k] :
              <<k, m>> \notin S => L!Released(ledger[k][m], ledger'[k][m])
<1>1. L!SameTasks
  BY Zenon, LedgerRows DEF L!SameTasks, QuietBut, SameJob, all
<1>2. ASSUME NEW k \in DOMAIN ledger, NEW m \in DOMAIN ledger[k], <<k, m>> \notin S
      PROVE  L!Released(ledger[k][m], ledger'[k][m])
  <2> DEFINE t == jobs[k].tasks[m]
             u == jobs'[k].tasks[m]
  <2>1. k \in DOMAIN jobs /\ m \in DOMAIN jobs[k].tasks /\ ledger[k][m] = entry(t)
    BY Zenon, LedgerRows
  <2>2. k \in DOMAIN jobs' /\ m \in DOMAIN jobs'[k].tasks /\ QuietTask(t, u)
    BY Zenon, <1>2, <2>1 DEF QuietBut, SameJob, all
  <2>3. ledger'[k][m] = entry(u)
    BY Zenon, <2>2, LedgerRows
  <2>4. Whole(t) /\ Whole(u)
    BY Zenon, <2>1, <2>2, RowsWhole
  <2> HIDE DEF t, u
  <2> QED  BY SMTT(30), <2>1, <2>2, <2>3, <2>4, QuietReleased
<1> QED  BY Zenon, <1>1, <1>2

\* A step that grants and stores nothing releases or leaves every entry.
LEMMA QuietAll ==
  ASSUME StoreOK, StoreOK', QuietBut({})
  PROVE  L!AllReleased
<1> DEFINE none == {}
<1>1. \A k, m : <<k, m>> \notin none
  BY Zenon
<1> HIDE DEF none
<1>2. QuietBut(none)
  BY Zenon DEF none
<1>3. /\ L!SameTasks
      /\ \A k \in DOMAIN ledger : \A m \in DOMAIN ledger[k] :
           <<k, m>> \notin none => L!Released(ledger[k][m], ledger'[k][m])
  BY <1>2, QuietEntries, Zenon
<1> QED  BY <1>1, <1>3, Zenon DEF L!AllReleased

\* With the same jobs before and after, it is a Release.
LEMMA QuietRelease ==
  ASSUME StoreOK, StoreOK', DOMAIN jobs' = DOMAIN jobs, QuietBut({}), ids' = ids
  PROVE  L!Next
BY Zenon, QuietAll, LedgerRows DEF L!Release, L!Next


\* Create posts the new job, or releases what the expiry released.
LEMMA CreatePosts ==
  ASSUME StoreOK, NEW opts \in CreateOpts, Create(opts)
  PROVE  L!Next
<1> DEFINE l == Len(jobs) + 1
<1>1. /\ StoreOK' /\ QuietBut({}) /\ ids' = ids
      /\ \/ DOMAIN jobs' = all
         \/ /\ DOMAIN jobs' = all \cup {l} /\ l \notin all
            /\ \A i \in DOMAIN jobs'[l].tasks : Untouched(jobs'[l].tasks[i])
  BY Zenon, CreateStep
<1> HIDE DEF l
<1>2. CASE DOMAIN jobs' = all
  BY Zenon, <1>1, <1>2, QuietRelease DEF all
<1>3. CASE /\ DOMAIN jobs' = all \cup {l} /\ l \notin all
           /\ \A i \in DOMAIN jobs'[l].tasks : Untouched(jobs'[l].tasks[i])
  <2>1. L!AllReleased
    BY Zenon, <1>1, QuietAll
  <2>2. ASSUME NEW i \in DOMAIN jobs'[l].tasks
        PROVE  L!Fresh(entry(jobs'[l].tasks[i]))
    <3>1. PICK u : u = jobs'[l].tasks[i]
      BY Zenon
    <3>2. Untouched(u) /\ u.state \in States
      BY Zenon, <1>1, <1>3, <3>1, RowsWhole DEF Whole, Task
    <3>3. L!Fresh(entry(u))
      BY Zenon, <3>2 DEF Untouched, entry, phase, L!Fresh
    <3> QED  BY Zenon, <3>1, <3>3
  <2>3. l \in DOMAIN jobs' /\ DOMAIN ledger' = DOMAIN ledger \cup {l} /\ l \notin DOMAIN ledger
    BY Zenon, <1>3, LedgerRows DEF all
  <2>4. \A i \in DOMAIN ledger'[l] : L!Fresh(ledger'[l][i])
    BY <2>2, <2>3, LedgerRows
  <2>5. L!Post(l)
    BY Zenon, <1>1, <2>1, <2>3, <2>4 DEF L!Post
  <2> QED  BY Zenon, <2>3, <2>5 DEF L!Next
<1> QED  BY Zenon, <1>1, <1>2, <1>3

\* Lease grants what the expiry left ready, whether the task was ready before or its
\* lease had run out.
LEMMA LeaseGrants ==
  ASSUME StoreOK, NEW w \in Workers, NEW j \in all, NEW i \in DOMAIN jobs[j].tasks, Lease(w, j, i)
  PROVE  L!Next
<1>1. /\ StoreOK' /\ DOMAIN jobs' = all /\ QuietBut({<<j, i>>}) /\ ids' = ids + 1
      /\ \E r : /\ QuietTask(jobs[j].tasks[i], r) /\ r \in Task /\ r.state = "ready"
                /\ jobs'[j].tasks[i] = leaseTask(r, ids + 1, w, now)
  BY Zenon, LeaseStep
<1>2. L!Granted(entry(jobs[j].tasks[i]), entry(jobs'[j].tasks[i]))
  <2>1. PICK r : /\ QuietTask(jobs[j].tasks[i], r) /\ r \in Task /\ r.state = "ready"
                 /\ jobs'[j].tasks[i] = leaseTask(r, ids + 1, w, now)
    BY Zenon, <1>1
  <2>2. PICK a, u : a = jobs[j].tasks[i] /\ u = jobs'[j].tasks[i]
    BY Zenon
  <2>3. a.state \in States /\ QuietTask(a, r)
    BY Zenon, <2>1, <2>2, RowsWhole DEF Whole, Task, all
  <2>4. u.state = "leased" /\ u.attempt = ids + 1 /\ u.fence = r.fence + 1 /\ u.verdict = r.verdict
    BY Zenon, <2>1, <2>2 DEF leaseTask, Task
  <2>5. u.fence = a.fence + 1 /\ u.verdict = a.verdict /\ phase(a) # "done"
    BY Zenon, <2>1, <2>3, <2>4 DEF QuietTask, phase, States
  <2>6. L!Granted(entry(a), entry(u))
    BY <2>4, <2>5 DEF L!Granted, L!Moved, entry, phase
  <2> QED  BY Zenon, <2>2, <2>6
<1>3. /\ L!SameTasks
      /\ \A k \in DOMAIN ledger : \A m \in DOMAIN ledger[k] :
           <<k, m>> \notin {<<j, i>>} => L!Released(ledger[k][m], ledger'[k][m])
  BY Zenon, <1>1, QuietEntries
<1>4. /\ DOMAIN ledger' = DOMAIN ledger /\ j \in DOMAIN ledger /\ i \in DOMAIN ledger[j]
      /\ ledger[j][i] = entry(jobs[j].tasks[i]) /\ ledger'[j][i] = entry(jobs'[j].tasks[i])
  BY Zenon, <1>1, LedgerRows DEF QuietBut, SameJob, all
<1>5. L!Grant(j, i)
  BY Zenon, <1>1, <1>2, <1>3, <1>4 DEF L!Grant
<1> QED  BY Zenon, <1>4, <1>5 DEF L!Next

\* Commit reports the result of the attempt that holds the task, or changes nothing.
LEMMA CommitReports ==
  ASSUME StoreOK, NEW j \in all, NEW i \in DOMAIN jobs[j].tasks, NEW attempt, NEW v \in Verdicts,
         NEW fail \in BOOLEAN, Commit(j, i, attempt, v, fail)
  PROVE  L!Next \/ UNCHANGED <<jobs, ids>>
<1>1. /\ StoreOK' /\ DOMAIN jobs' = all /\ ids' = ids
      /\ ~accepts(j, i, attempt, v, fail) => jobs' = jobs
      /\ accepts(j, i, attempt, v, fail) =>
           /\ QuietBut({<<j, i>>}) /\ jobs[j].tasks[i].state = "leased"
           /\ jobs'[j].tasks[i] = applyCommit(jobs[j].tasks[i], v, fail)
  BY SMTT(30), CommitStep
<1>2. CASE ~accepts(j, i, attempt, v, fail)
  BY Zenon, <1>1, <1>2
<1>3. CASE accepts(j, i, attempt, v, fail)
  <2>1. L!Reported(entry(jobs[j].tasks[i]), entry(jobs'[j].tasks[i]))
    <3>1. PICK t, u : t = jobs[j].tasks[i] /\ u = jobs'[j].tasks[i]
      BY Zenon
    <3>2. t \in Task /\ t.state = "leased" /\ u = applyCommit(t, v, fail)
      BY Zenon, <1>1, <1>3, <3>1, RowsWhole DEF Whole, all
    <3>3. /\ u.state \in {"failed", "succeeded"} /\ u.fence = t.fence /\ u.attempt = t.attempt
          /\ u.verdict = v
      BY Zenon, <3>2 DEF applyCommit, Task
    <3>4. L!Reported(entry(t), entry(u))
      BY <3>2, <3>3 DEF L!Reported, L!Moved, entry, phase
    <3> QED  BY Zenon, <3>1, <3>4
  <2>2. QuietBut({<<j, i>>})
    BY Zenon, <1>1, <1>3
  <2>3. /\ L!SameTasks
        /\ \A k \in DOMAIN ledger : \A m \in DOMAIN ledger[k] :
             <<k, m>> \notin {<<j, i>>} => L!Released(ledger[k][m], ledger'[k][m])
    BY Zenon, <1>1, <2>2, QuietEntries
  <2>4. /\ DOMAIN ledger' = DOMAIN ledger /\ j \in DOMAIN ledger /\ i \in DOMAIN ledger[j]
        /\ ledger[j][i] = entry(jobs[j].tasks[i]) /\ ledger'[j][i] = entry(jobs'[j].tasks[i])
    BY Zenon, <1>1, <2>2, LedgerRows DEF QuietBut, SameJob, all
  <2>5. L!Report(j, i)
    BY Zenon, <1>1, <2>1, <2>3, <2>4 DEF L!Report
  <2> QED  BY Zenon, <2>4, <2>5 DEF L!Next
<1> QED  BY Zenon, <1>2, <1>3

\* Every step, of the server or of a worker, is a step of the ledger or leaves it alone.
LEMMA StepRefines ==
  ASSUME FabInv, [Next]_vars
  PROVE  L!Next \/ UNCHANGED <<jobs, ids>>
<1>0. StoreOK
  BY Zenon DEF FabInv
<1>1. CASE ServerStep
  <2>1. ASSUME NEW j \in all, Cancel(j) PROVE L!Next
    BY Zenon, <1>0, <2>1, CancelStep, QuietRelease DEF all
  <2>2. CASE Reap
    BY Zenon, <1>0, <2>2, ReapStep, QuietRelease DEF all, Reap
  <2>3. CASE Tick
    BY Zenon, <2>3 DEF Tick
  <2> QED  BY Zenon, <1>0, <1>1, <2>1, <2>2, <2>3, CreatePosts DEF ServerStep
<1>2. ASSUME NEW w \in Workers, LeaseRPC(w) PROVE L!Next
  <2>1. CASE LeaseEmpty(w)
    BY Zenon, <1>0, <2>1, ReapStep, QuietRelease DEF all, LeaseEmpty
  <2> QED  BY Zenon, <1>0, <1>2, <2>1, LeaseGrants DEF LeaseRPC
<1>3. ASSUME NEW w \in Workers, HeartbeatRPC(w) PROVE L!Next
  <2>1. PICK j, i : Holds(w, j, i) /\ inRange(j, i)
    BY Zenon, <1>3, AtWork DEF HeartbeatRPC
  <2>2. StoreOK' /\ DOMAIN jobs' = all /\ QuietBut({}) /\ ids' = ids
    BY Zenon, <1>0, <1>3, <2>1, HeartbeatStep DEF HeartbeatRPC, Holds, inRange
  <2> QED  BY Zenon, <1>0, <2>2, QuietRelease DEF all
<1>4. ASSUME NEW m \in net, HandleCommit(m) PROVE L!Next \/ UNCHANGED <<jobs, ids>>
  <2>1. m \in Message /\ m.job \in all /\ m.task \in DOMAIN jobs[m.job].tasks
    BY Zenon DEF FabInv, NetOK, messageOK, inRange
  <2>2. m.verdict \in Verdicts /\ m.fail \in BOOLEAN /\ Commit(m.job, m.task, m.attempt, m.verdict, m.fail)
    BY Zenon, <1>4, <2>1 DEF Message, HandleCommit
  <2> QED  BY Zenon, <1>0, <2>1, <2>2, CommitReports
<1>5. CASE HostStops \/ UNCHANGED vars
  BY Zenon, <1>5 DEF HostStops, vars, storeVars
<1>6. ASSUME NEW w \in Workers,
             Look(w) \/ Fetch(w) \/ Run(w) \/ PutObject(w) \/ PutName(w) \/ Crash(w)
      PROVE  UNCHANGED <<jobs, ids>>
  <2>1. UNCHANGED storeVars
    BY Zenon, <1>6 DEF Look, Fetch, Run, PutObject, PutName, Crash
  <2> QED  BY Zenon, <2>1 DEF storeVars
<1> QED  BY Zenon, <1>1, <1>2, <1>3, <1>4, <1>5, <1>6 DEF Next, WorkerStep

\* The memory store implements Ledger, whatever its workers do and however late, often or
\* never their calls arrive (store.go Store, memory.go).
THEOREM MemLedgerImplemented == Spec => MemImplementsLedger
<1>1. Init => L!Init
  BY DEF Init, StoreInit, L!Init, ledger, all
<1>2. FabInv /\ [Next]_vars => [UNCHANGED <<jobs, ids>> \/ L!Next]_(L!vars)
  BY Zenon, StepRefines
<1> QED  BY <1>1, <1>2, FabricInvariant, PTL DEF Spec, MemImplementsLedger

=============================================================================
