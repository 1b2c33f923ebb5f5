------------------------------- MODULE Fabric -------------------------------
(***************************************************************************)
(* Workers (internal/cli/worker.go, internal/worker) that lease tasks from  *)
(* the memory store over gRPC, run them, with a result cache the workers of *)
(* the host share, and commit.  A worker is a process with a state of its   *)
(* own: it can crash at any step and be started again under the same id; a  *)
(* call may be lost, answered late or have its answer lost.  Any error but  *)
(* an empty queue ends the process.                                         *)
(*                                                                          *)
(* pc of a worker:  idle, which also stands for a process that has ended    *)
(* and may be started again; look, fetch (cache.Get reads the index, then   *)
(* the object); run; put, index (cache.Put); sent (Commit is waited for).   *)
(***************************************************************************)
EXTENDS MemJobs, ActionCache

CONSTANT MaxLosses   \* bound: power failures

\* Every action that is cached has a key; a worker may report any result that is cached,
\* and the error that stands for none.
ASSUME FabricAssumption ==
  /\ MaxLosses \in Nat
  /\ \A p \in Plans : \A i \in DOMAIN p : \A j \in 1..MaxJobs :
       Cacheable(p[i].kind) => [scope |-> j, kind |-> p[i].kind, n |-> p[i].n] \in Keys
  /\ Digests \cup {"incomplete"} \subseteq Verdicts

VARIABLES worker,    \* the state of each worker process
          net,       \* commits on their way to the server
          losses,    \* power failures so far
          ran,       \* ghost: what executions of an action reported
          acked      \* ghost: commits a worker was told were accepted

vars == <<storeVars, cacheVars, worker, net, losses, ran, acked>>
workerVars == <<worker, net, losses, ran, acked>>

Idle == [pc |-> "idle", job |-> 0, task |-> 0, attempt |-> 0, verdict |-> "none"]

Init ==
  /\ StoreInit /\ CacheInit
  /\ worker = [w \in Workers |-> Idle]
  /\ net = {} /\ losses = 0 /\ ran = {} /\ acked = {}

-----------------------------------------------------------------------------
\* Mutant: a key without the job, so that jobs share results.
FromLeaseShared(j, i) == [scope |-> 1, kind |-> jobs[j].plan[i].kind, n |-> jobs[j].plan[i].n]

\* FromLease: the job's id scopes the key, as no hosted job's revisions are built
\* here; workload and health path are the job's own.
FromLease(j, i) == [scope |-> j, kind |-> jobs[j].plan[i].kind, n |-> jobs[j].plan[i].n]

step(w) == jobs[worker[w].job].plan[worker[w].task]
key(w) == FromLease(worker[w].job, worker[w].task)

to(w, pc, v) == worker' = [worker EXCEPT ![w] = [worker[w] EXCEPT !.pc = pc, !.verdict = v]]
Ends(w) == worker' = [worker EXCEPT ![w] = Idle]

\* Execute returns a result, or an error for which "incomplete" is committed, and the
\* commit is sent.
Sends(w, v, fail) ==
  /\ to(w, "sent", v)
  /\ net' = net \cup {[w |-> w, job |-> worker[w].job, task |-> worker[w].task,
                       attempt |-> worker[w].attempt, verdict |-> v, fail |-> fail]}
Goes(w, pc, v) == to(w, pc, v) /\ UNCHANGED net
Errors(w) == Sends(w, "incomplete", TRUE)

-----------------------------------------------------------------------------
(* RemoteOnceSlots.  A granted lease whose answer is lost ends the process. *)

LeaseRPC(w) ==
  /\ worker[w].pc = "idle"
  /\ \/ \E j \in all : \E i \in DOMAIN jobs[j].tasks :
          /\ Lease(w, j, i)
          /\ \/ worker' = [worker EXCEPT ![w] =
                  [pc |-> "look", job |-> j, task |-> i, attempt |-> ids', verdict |-> "none"]]
             \/ UNCHANGED worker
     \/ LeaseEmpty(w) /\ UNCHANGED worker
  /\ UNCHANGED <<cacheVars, net, losses, ran, acked>>

\* The ticker's goroutine, until Execute returns; errors are ignored.
HeartbeatRPC(w) ==
  /\ worker[w].pc \in {"look", "fetch", "run", "put", "index"}
  /\ Heartbeat(w, worker[w].job, worker[w].task, worker[w].attempt)
  /\ UNCHANGED <<cacheVars, workerVars>>

(* ExecuteWith.  Besides its results, a read, a write or the run may fail, the
   job's deadline among the reasons. *)

Look(w) ==
  /\ worker[w].pc = "look"
  /\ \/ ~Cacheable(step(w).kind) /\ Goes(w, "run", "none")
     \/ /\ Cacheable(step(w).kind)
        /\ \/ index[key(w)] = "none" /\ Goes(w, "run", "none")
           \/ index[key(w)] # "none" /\ Goes(w, "fetch", index[key(w)])
           \/ Errors(w)
  /\ UNCHANGED <<storeVars, cacheVars, losses, ran, acked>>

Fetch(w) ==
  LET id == worker[w].verdict
      raw == IF id \in Digests THEN objects[id] ELSE "none"
  IN  /\ worker[w].pc = "fetch"
      /\ IF casGet(id, raw) THEN Sends(w, raw, FALSE) ELSE Errors(w)
      /\ UNCHANGED <<storeVars, cacheVars, losses, ran, acked>>

Run(w) ==
  /\ worker[w].pc = "run"
  /\ \/ \E v \in Verdicts :
          /\ IF Cacheable(step(w).kind) /\ Keeps(v) THEN Goes(w, "put", v) ELSE Sends(w, v, FALSE)
          /\ ran' = ran \cup {[job |-> worker[w].job, kind |-> step(w).kind, n |-> step(w).n, verdict |-> v]}
     \/ Errors(w) /\ UNCHANGED ran
  /\ UNCHANGED <<storeVars, cacheVars, losses, acked>>

\* Mutant: the index is written before the object.
PutIndexFirst(w) ==
  /\ worker[w].pc = "put"
  /\ PutIndex(key(w), worker[w].verdict) /\ Goes(w, "index", worker[w].verdict)
  /\ UNCHANGED <<storeVars, objects, losses, ran, acked>>

PutObject(w) ==
  LET id == worker[w].verdict IN
  /\ worker[w].pc = "put"
  /\ \/ casPutOK(id) /\ casPut(id) /\ Goes(w, "index", id)
     \/ Errors(w) /\ UNCHANGED objects
  /\ UNCHANGED <<storeVars, index, losses, ran, acked>>

PutName(w) ==
  /\ worker[w].pc = "index"
  /\ \/ PutIndex(key(w), worker[w].verdict) /\ Sends(w, worker[w].verdict, FALSE)
     \/ Errors(w) /\ UNCHANGED index
  /\ UNCHANGED <<storeVars, objects, losses, ran, acked>>

\* The server handles a commit.  Its answer reaches the worker if it still waits
\* for it, or is lost; unless the commit was accepted, the process ends.
HandleCommit(m) ==
  LET waits == worker[m.w].pc = "sent" /\ worker[m.w].attempt = m.attempt
      ok == accepts(m.job, m.task, m.attempt, m.verdict, m.fail)
  IN  /\ Commit(m.job, m.task, m.attempt, m.verdict, m.fail)
      /\ net' = net \ {m}
      /\ IF waits THEN Ends(m.w) ELSE UNCHANGED worker
      /\ \/ waits /\ ok /\ acked' = acked \cup {m}
         \/ UNCHANGED acked
      /\ UNCHANGED <<cacheVars, losses, ran>>

\* The process dies, at any step, or the commit it waits for fails: a request on its
\* way is lost, or arrives later.
Crash(w) ==
  /\ worker[w].pc # "idle"
  /\ Ends(w)
  /\ \/ UNCHANGED net
     \/ net' = {m \in net : m.w # w} /\ net' # net
  /\ UNCHANGED <<storeVars, cacheVars, losses, ran, acked>>

\* The workers' host stops; the server is another machine.
HostStops ==
  /\ losses < MaxLosses
  /\ PowerLoss
  /\ losses' = losses + 1
  /\ worker' = [w \in Workers |-> Idle]
  /\ UNCHANGED <<storeVars, net, ran, acked>>

-----------------------------------------------------------------------------
CreateOpts ==
  [service : Services, base : Urls, patch : Urls, source : {"declared"}, deadline : {0}, plan : Plans]

ServerStep ==
  \/ \E opts \in CreateOpts : Create(opts)
  \/ \E j \in all : Cancel(j)
  \/ Reap
  \/ Tick

WorkerStep(w) ==
  \/ LeaseRPC(w) \/ HeartbeatRPC(w) \/ Look(w) \/ Fetch(w) \/ Run(w)
  \/ PutObject(w) \/ PutName(w) \/ Crash(w)

Next ==
  \/ ServerStep /\ UNCHANGED <<cacheVars, workerVars>>
  \/ \E w \in Workers : WorkerStep(w)
  \/ \E m \in net : HandleCommit(m)
  \/ HostStops

Spec == Init /\ [][Next]_vars

-----------------------------------------------------------------------------
(* Properties *)

\* What a task has succeeded with is what some execution of that very action, for that
\* job, reported: no cached result of another job, no torn object, no late commit of a
\* lapsed attempt and no restarted worker puts another result there
\* (action/cache.go FromLease, cas.go Get, memory.go Commit).
OwnResult ==
  \A j \in all : \A i \in DOMAIN jobs[j].tasks :
    jobs[j].tasks[i].state = "succeeded" =>
      [job |-> j, kind |-> jobs[j].plan[i].kind, n |-> jobs[j].plan[i].n,
       verdict |-> jobs[j].tasks[i].verdict] \in ran

\* A commit the worker was told of stays: whatever lapses, is reaped, is canceled or
\* arrives late afterwards, the task keeps that worker's attempt and result.
AckedKept ==
  \A m \in acked :
    LET t == jobs[m.job].tasks[m.task] IN
    /\ t.attempt = m.attempt /\ t.verdict = m.verdict
    /\ t.state = IF m.fail THEN "failed" ELSE "succeeded"

\* An index file never names an object that was not written: a worker that dies
\* between the two renames of Put, or races another, leaves at most an object nobody
\* names, so Get never fails for a half-done Put (cache.go:125-143).
IndexBacked == \A k \in Keys : index[k] \in Digests => objects[index[k]] # "none"

=============================================================================
