------------------------------- MODULE Ledger -------------------------------
(***************************************************************************)
(* What a job store promises about the tasks it hands out, whatever plans,  *)
(* clocks, workers and quotas there are (the contract of jobs.Store,        *)
(* internal/jobs/store.go): a task is open, held under one attempt, or      *)
(* done; each attempt id is granted once, to one task; only the attempt     *)
(* that holds a task reports its result; what is done stays as it is.       *)
(*                                                                          *)
(* ledger[j][i] is the entry of task i of job j.                            *)
(***************************************************************************)
EXTENDS Integers

CONSTANT Results   \* what an attempt may report; "none" is no report

VARIABLES ledger, issued

vars == <<ledger, issued>>

Entry == [phase : {"open", "held", "done"}, attempt : Nat, fence : Nat,
          result : Results \cup {"none"}]

Init == ledger = [j \in {} |-> 0] /\ issued = 0

-----------------------------------------------------------------------------
(* What may become of one entry *)

Fresh(e) == e \in [phase : {"open", "done"}, attempt : {0}, fence : {0}, result : {"none"}]

\* e in phase p under attempt a.
Moved(e, p, a) == [phase |-> p, attempt |-> a, fence |-> e.fence, result |-> e.result]

\* The hold is lost, or the task is given up with or without a hold.
Lapsed(e, f) == e.phase = "held" /\ f = Moved(e, "open", 0)
GivenUp(e, f) ==
  e.phase # "done" /\ \E a \in {0, e.attempt} : f = Moved(e, "done", a)
Released(e, f) == f = e \/ Lapsed(e, f) \/ GivenUp(e, f)

Granted(e, f) ==
  /\ e.phase # "done"
  /\ f = [Moved(e, "held", issued + 1) EXCEPT !.fence = e.fence + 1]

Reported(e, f) ==
  e.phase = "held" /\ \E r \in Results : f = [Moved(e, "done", e.attempt) EXCEPT !.result = r]

-----------------------------------------------------------------------------
(* The steps.  Any of them may release other tasks. *)

SameTasks == \A k \in DOMAIN ledger : k \in DOMAIN ledger' /\ DOMAIN ledger'[k] = DOMAIN ledger[k]

AllReleased ==
  /\ SameTasks
  /\ \A k \in DOMAIN ledger : \A m \in DOMAIN ledger[k] : Released(ledger[k][m], ledger'[k][m])

Post(j) ==
  /\ j \notin DOMAIN ledger
  /\ DOMAIN ledger' = DOMAIN ledger \cup {j}
  /\ \A i \in DOMAIN ledger'[j] : Fresh(ledger'[j][i])
  /\ AllReleased
  /\ issued' = issued

Release ==
  /\ DOMAIN ledger' = DOMAIN ledger
  /\ AllReleased
  /\ issued' = issued

Grant(j, i) ==
  /\ DOMAIN ledger' = DOMAIN ledger
  /\ SameTasks
  /\ \A k \in DOMAIN ledger : \A m \in DOMAIN ledger[k] :
       IF k = j /\ m = i THEN Granted(ledger[k][m], ledger'[k][m])
                         ELSE Released(ledger[k][m], ledger'[k][m])
  /\ issued' = issued + 1

Report(j, i) ==
  /\ DOMAIN ledger' = DOMAIN ledger
  /\ SameTasks
  /\ \A k \in DOMAIN ledger : \A m \in DOMAIN ledger[k] :
       IF k = j /\ m = i THEN Reported(ledger[k][m], ledger'[k][m])
                         ELSE Released(ledger[k][m], ledger'[k][m])
  /\ issued' = issued

Next ==
  \/ \E j \in DOMAIN ledger' : Post(j)
  \/ Release
  \/ \E j \in DOMAIN ledger : \E i \in DOMAIN ledger[j] : Grant(j, i) \/ Report(j, i)

Spec == Init /\ [][Next]_vars

-----------------------------------------------------------------------------
\* No attempt id is ever in two entries: a heartbeat or a commit, which names its
\* task and its attempt, can be accepted for one task only (store.go Heartbeat, Commit).
Unique ==
  \A j, k \in DOMAIN ledger : \A i \in DOMAIN ledger[j] : \A m \in DOMAIN ledger[k] :
    /\ ledger[j][i].attempt # 0
    /\ ledger[j][i].attempt = ledger[k][m].attempt
    => j = k /\ i = m

\* A held task has an attempt that was issued; no task was granted more often than
\* attempts were issued.
Issued ==
  \A j \in DOMAIN ledger : \A i \in DOMAIN ledger[j] :
    /\ ledger[j][i].attempt \in 0..issued
    /\ ledger[j][i].fence \in 0..issued
    /\ ledger[j][i].phase = "held" => ledger[j][i].attempt # 0 /\ ledger[j][i].fence # 0

=============================================================================
