------------------------------ MODULE Validate ------------------------------
(***************************************************************************)
(* internal/validate: the policy that turns executed evidence and a        *)
(* classified change into a decision.  The decision is the set of its      *)
(* blockers; validated is that there are none.                             *)
(***************************************************************************)
EXTENDS Plan

CONSTANT MinLatencyN

ASSUME ValidateAssumption == MinLatencyN \in Nat

coreKinds == {"env", "behavior", "latency", "concurrency"}

\* Mutant: a request that both sides refused counts as answered.
CoveredIfRefused(route, workload, results) ==
    \E r \in workload :
        /\ RouteMatches(route, r)
        /\ \E i \in 1 .. Len(results) : /\ results[i].kind = "behavior"
                                        /\ \E j \in 1 .. Len(results[i].steps) :
                                              LET d == results[i].steps[j]
                                              IN  d.request = r /\ d.base # 0 /\ d.patch # 0

\* Covered: some request of the workload hits the route, and in the behaviour
\* step both sides answered it without an auth refusal.
Covered(route, workload, results) ==
    \E r \in workload :
        /\ RouteMatches(route, r)
        /\ \E i \in 1 .. Len(results) : /\ results[i].kind = "behavior"
                                        /\ \E j \in 1 .. Len(results[i].steps) :
                                              LET d == results[i].steps[j]
                                              IN  /\ d.request = r /\ d.base # 0 /\ d.patch # 0
                                                  /\ ~d.rejected

\* The fewest samples of a request on either side; 0 without rows.
latencyN(r) ==
    LET ns == {r.latency[i].base.n : i \in 1 .. Len(r.latency)}
              \cup {r.latency[i].patch.n : i \in 1 .. Len(r.latency)}
    IN  IF ns = {} THEN 0 ELSE CHOOSE n \in ns : \A m \in ns : n <= m

shifts(r) == {i \in 1 .. Len(r.latency) : Shifted(r.latency[i])}

stepOK(r) ==
    CASE r.kind \in {"env", "tests"} -> r.verdict = "prepared"
      [] r.kind \in {"behavior", "concurrency"} -> r.verdict = "match"
      [] r.kind = "latency" -> /\ r.verdict = "samples" /\ latencyN(r) >= MinLatencyN
                               /\ shifts(r) = {}
      [] OTHER -> r.verdict \in {"match", "samples", "prepared"}

block(code, subject) == <<code, subject>>

revisionBlockers(in) ==
    {b \in {block("dirty_baseline", "")} : in.baselineRev.dirty}
    \cup {block("unverified_revision", s) :
            s \in {t \in {"baseline", "patch"} :
                     LET rev == IF t = "baseline" THEN in.baselineRev ELSE in.patchRev
                     IN  rev.tree = "" \/ rev.source # "built"}}
    \cup {b \in {block("same_target", in.baselineRev.tree)} :
            in.baselineRev.tree # "" /\ in.baselineRev.tree = in.patchRev.tree}

\* The targets are compared in their normalised form (normURL).
targetBlockers(in) ==
    {block("missing_target", s) :
        s \in {t \in {"baseline", "patch"} : (IF t = "baseline" THEN in.baseline ELSE in.patch) = ""}}
    \cup {b \in {block("same_target", in.baseline)} : in.baseline # "" /\ in.baseline = in.patch}

verdictBlockers(in) == {b \in {block("not_match", in.overall)} : in.overall # "match"}

kindsOf(s) == {s[i].kind : i \in 1 .. Len(s)}

ofKind(s, kind) == {i \in 1 .. Len(s) : s[i].kind = kind}

duplicateBlockers(in) ==
    {block("duplicate_step", k) :
        k \in {j \in kindsOf(in.plan) \cup kindsOf(in.results) :
                  Cardinality(ofKind(in.plan, j)) > 1 \/ Cardinality(ofKind(in.results, j)) > 1}}

\* Per kind: missing, failed, too few samples, a shifted request.
stepBlockers(kinds, results) ==
    UNION {
        LET own == {results[i] : i \in ofKind(results, k)}
        IN  {b \in {block("step_missing", k)} : own = {}}
            \cup {b \in {block("step_failed", k)} : \E r \in own : ~stepOK(r)}
            \cup UNION {IF k # "latency" THEN {}
                        ELSE {b \in {block("latency_n", latencyN(r))} : latencyN(r) < MinLatencyN}
                             \cup {block("latency_shift", r.latency[i].request) : i \in shifts(r)}
                        : r \in own}
        : k \in kinds}

requiredKinds(in) ==
    {in.plan[i].kind : i \in {j \in 1 .. Len(in.plan) : in.plan[j].required /\ ~in.plan[j].operator}}
    \ coreKinds

changeBlockers(in) ==
    {block("unanalyzed_change", p) : p \in in.unanalyzed}
    \cup (IF in.bound = {} THEN {block("no_function_binding", "")}
          ELSE IF in.impacted = {} THEN {block("no_runtime_route", "")} ELSE {})

\* Mutant: one exercised route stands for all of them.
coverageBlockersAny(in) ==
    {block("route_missed", r) :
        r \in {t \in in.impacted : \A u \in in.impacted : ~Covered(u, in.workload, in.results)}}

coverageBlockers(in) ==
    {block("route_missed", r) : r \in {t \in in.impacted : ~Covered(t, in.workload, in.results)}}

\* Decide: every requirement is evaluated, whatever the others say.
Decide(in) ==
    revisionBlockers(in) \cup targetBlockers(in) \cup verdictBlockers(in)
    \cup duplicateBlockers(in) \cup stepBlockers(coreKinds, in.results)
    \cup stepBlockers(requiredKinds(in), in.results) \cup changeBlockers(in)
    \cup coverageBlockers(in)

\* coverageBasis: inferred as soon as a covered route has callers only.
coverageBasis(in) ==
    LET covered == {r \in in.impacted : Covered(r, in.workload, in.results)}
        from(r) == {a.provenance : a \in {b \in in.attributions : b.route = r}}
        observed(r) == from(r) \cap {"trace_entry", "code_attrs"} # {}
    IN  IF \E r \in covered : ~observed(r) /\ "trace_entry_caller" \in from(r) THEN "inferred"
        ELSE IF \E r \in covered : observed(r) THEN "observed" ELSE ""
=============================================================================
