------------------------------ MODULE Evidence ------------------------------
(***************************************************************************)
(* internal/evidence: the artifact of an executed experiment, what it says *)
(* of the coverage of the impacted routes, and the decision it claims.     *)
(* Bodies are not part of it.                                              *)
(***************************************************************************)
EXTENDS Validate

NoRoute == [method |-> "", path |-> <<>>]

\* impact.RuntimeRoutes.
routesOf(runtime) == {f.route : f \in runtime} \ {NoRoute}

\* Delta.AuthRejected, per request of the behaviour step.
refused(results) ==
    {d.request : d \in {e \in UNION {{results[i].steps[j] : j \in 1 .. Len(results[i].steps)}
                                     : i \in ofKind(results, "behavior")} : e.rejected}}

\* coverageOf: a route reached by an answered request is exercised; any other
\* is missed, and rejected too when a request of it was refused.
coverageOf(runtime, workload, results) ==
    LET hits(route) == {r \in workload : RouteMatches(route, r)}
        reached(route) == \E r \in hits(route) : Covered(route, {r}, results)
        missed == {route \in routesOf(runtime) : ~reached(route)}
    IN  [impacted |-> routesOf(runtime),
         exercised |-> {route \in routesOf(runtime) : reached(route)},
         missed |-> missed,
         rejected |-> {route \in missed : hits(route) \cap refused(results) # {}},
         attributions |-> {[route |-> f.route, provenance |-> f.provenance] :
                              f \in {g \in runtime : g.route # NoRoute}}]

\* The input of the policy that an artifact of the current schema holds.
inputOf(a) ==
    [baselineRev |-> a.baselineRev, patchRev |-> a.patchRev, baseline |-> a.baseline,
     patch |-> a.patch, plan |-> a.plan, results |-> a.results, overall |-> a.overall,
     workload |-> a.workload, unanalyzed |-> a.unanalyzed, bound |-> a.bound,
     impacted |-> a.coverage.impacted, attributions |-> a.coverage.attributions]

\* Build: the artifact with the decision it earns.
Build(s, dag, unanalyzed, bound, results) ==
    LET workload == {s.workload[i] : i \in 1 .. Len(s.workload)}
        a == [baselineRev |-> s.baselineRev, patchRev |-> s.patchRev, baseline |-> s.baseline,
              patch |-> s.patch, plan |-> dag, results |-> results, overall |-> overall(results),
              workload |-> workload, unanalyzed |-> unanalyzed, bound |-> bound,
              coverage |-> coverageOf(s.runtime, workload, results)]
    IN  [artifact |-> a, blockers |-> Decide(inputOf(a)), basis |-> coverageBasis(inputOf(a))]

-----------------------------------------------------------------------------
(* What of an artifact the readers of stored evidence tell apart: its      *)
(* schema, whether its digests match its content, the decision it claims   *)
(* and the one its content earns.                                          *)

Sealed(digest, schema, intact, overallVerdict, claimed, earned) ==
    [digest |-> digest, schema |-> schema, intact |-> intact, overall |-> overallVerdict,
     claimed |-> claimed, earned |-> earned]

\* Decision: an older schema never earns validation.
Decision(a) == a.schema = "v3" /\ a.earned

Verify(a) == a.intact /\ a.overall \in {"match", "differ", "incomplete"}

\* Check: only the current schema, and only what the policy derives.
Check(a) == Verify(a) /\ a.schema = "v3" /\ a.claimed = Decision(a)
=============================================================================
