-------------------------------- MODULE Plan --------------------------------
(***************************************************************************)
(* internal/plan: the steps of an experiment, what each concludes from the *)
(* replays, and the overall verdict.  A plan is a sequence of steps, its   *)
(* evidence a sequence of results.                                         *)
(***************************************************************************)
EXTENDS Replay

CONSTANTS DefaultLatencyN, DefaultConcurrencyN

ASSUME PlanAssumption == DefaultLatencyN \in Nat \ {0} /\ DefaultConcurrencyN \in Nat \ {0}

-----------------------------------------------------------------------------
(* FromImpact, WithLatencyN, WithTests                                     *)

step(kind, required, n) == [kind |-> kind, required |-> required, operator |-> FALSE, n |-> n]

hasKind(dag, kind) == \E i \in 1 .. Len(dag) : dag[i].kind = kind

\* The plan for a report with or without runtime findings.
FromImpact(hasRuntime) ==
    <<step("env", TRUE, 0), step("behavior", TRUE, 0), step("latency", TRUE, DefaultLatencyN)>>
    \o (IF hasRuntime
        THEN <<step("concurrency", TRUE, DefaultConcurrencyN), step("fault_status", FALSE, 0)>>
        ELSE <<>>)

\* The repeats asked for, when at least one.
WithLatencyN(plan, n) ==
    [i \in 1 .. Len(plan) |->
        IF plan[i].kind = "latency" /\ n >= 1 THEN [plan[i] EXCEPT !.n = n] ELSE plan[i]]

\* A tests step when the changed files lie in packages of a Go module.
WithTests(plan, packages) ==
    IF packages /\ ~hasKind(plan, "tests") THEN Append(plan, step("tests", TRUE, 0)) ELSE plan

\* replayRepeats: how often the workload is replayed against each side.
replayRepeats(dag) ==
    LET ns == {dag[i].n : i \in {j \in 1 .. Len(dag) : dag[j].kind = "latency" /\ ~dag[j].operator}}
    IN  CHOOSE n \in ns \cup {1} : \A m \in ns \cup {1} : m <= n

\* concurrencyN: how many replays run in parallel against each side.
concurrencyN(dag) ==
    LET own == {j \in 1 .. Len(dag) : dag[j].kind = "concurrency" /\ ~dag[j].operator /\ dag[j].n > 0}
    IN  IF own = {} THEN DefaultConcurrencyN ELSE dag[CHOOSE j \in own : \A k \in own : k <= j].n

-----------------------------------------------------------------------------
(* evalStep                                                                *)

NoRows == <<>>

result(kind, verdict) == [kind |-> kind, verdict |-> verdict, latency |-> NoRows, steps |-> <<>>]

\* compareFirst: later runs only add latency samples.
behavior(data) ==
    IF data.base = <<>> \/ data.patch = <<>> THEN result("behavior", "incomplete")
    ELSE LET rep == Compare(data.base[1], data.patch[1])
         IN  [result("behavior", rep.verdict) EXCEPT !.steps = rep.steps]

hasSamples(rows) == \E i \in 1 .. Len(rows) : rows[i].base.n > 0 \/ rows[i].patch.n > 0

latency(data) ==
    IF data.base = <<>> \/ data.patch = <<>> THEN result("latency", "incomplete")
    ELSE LET rows == Latency(data.base, data.patch)
         IN  [result("latency", IF hasSamples(rows) THEN "samples" ELSE "incomplete")
                 EXCEPT !.latency = rows]

concurrency(data) ==
    result("concurrency", IF data.baseBurst = <<>> \/ data.patchBurst = <<>> THEN "incomplete"
                          ELSE compareBurst(data.baseBurst, data.patchBurst))

evalStep(s, data) ==
    CASE s.operator -> result(s.kind, "skipped")
      [] ~s.operator /\ s.kind = "env" -> result("env", IF data.healthy THEN "prepared" ELSE "incomplete")
      [] ~s.operator /\ s.kind = "behavior" -> behavior(data)
      [] ~s.operator /\ s.kind = "latency" -> latency(data)
      [] ~s.operator /\ s.kind = "concurrency" -> concurrency(data)
      [] ~s.operator /\ s.kind = "tests" -> result("tests", data.tests)
      [] OTHER -> result(s.kind, data.fault)

\* probeFault: a failure injected into the patch side is told from the baseline.
probeFault(inject, base, status) ==
    IF inject.status = status /\ ~base.err /\ base.status # status
    THEN "prepared" ELSE "incomplete"

evaluate(dag, data) == [i \in 1 .. Len(dag) |-> evalStep(dag[i], data)]

-----------------------------------------------------------------------------
(* overall                                                                 *)

\* The results that vote: env and fault never, skipped steps neither.
voting(results) ==
    {i \in 1 .. Len(results) : /\ results[i].verdict # "skipped"
                               /\ results[i].kind \notin {"env", "fault_status"}}

\* A vote: latency only tells whether there were samples.
vote(r) == IF r.kind = "latency" /\ r.verdict # "incomplete" THEN "match" ELSE r.verdict

overall(results) ==
    IF \E i \in 1 .. Len(results) : results[i].kind = "env" /\ results[i].verdict = "incomplete"
    THEN "incomplete"
    ELSE IF voting(results) = {} THEN "incomplete"
    ELSE worst({vote(results[i]) : i \in voting(results)})
=============================================================================
