------------------------------ MODULE Pipeline ------------------------------
(***************************************************************************)
(* The experiment command from its impact report on (cli/plan.go,          *)
(* plan.Execute, evidence.Build, recordRun): it probes both gateways,      *)
(* replays the workload one side after the other, then in parallel, runs   *)
(* the tests, injects a fault, decides and uploads.  Its context may be    *)
(* cancelled at any time.  Other commands upload to the same store.        *)
(*                                                                         *)
(* The application under test answers as it likes; MaxDeviations bounds    *)
(* how often anything in an experiment goes otherwise than normally: an    *)
(* answer, the tests, the injected fault, or the context.                  *)
(***************************************************************************)
EXTENDS RunStore, Changes

CONSTANTS
    maxRepeats,     \* replays one after the other at most (100 in the code)
    maxBurst,       \* parallel replays at most (32 in the code)
    Scenarios,      \* what a command may start from
    Answers,        \* what a request may meet: [err, status, body, took]
    Normal,         \* the answer of a healthy application
    MaxDeviations,  \* bound on what is not normal in an experiment
    Imports         \* artifacts that another command may upload

ASSUME PipelineAssumption ==
    /\ Normal \in Answers
    /\ \A o \in Answers : o.err \in BOOLEAN /\ o.status \in Nat /\ o.took \in Nat
    /\ MaxDeviations \in Nat /\ maxRepeats \in Nat /\ maxBurst \in Nat
    /\ \A s \in Scenarios : Len(s.workload) \in Nat /\ s.latencyN \in Nat
    /\ \A s \in Scenarios : \A c \in s.diff : c.lines \subseteq Nat
    /\ "experiment" \in Clients

\* What an experiment may seal, as far as the store tells it apart.
Own == UNION {{Sealed(<<"experiment", o, ok>>, "v3", TRUE, o, ok, ok) : ok \in BOOLEAN}
                : o \in {"match", "differ", "incomplete"}}

\* A digest that is verified stands for its artifact.
ASSUME DigestAssumption ==
    \A a, b \in Own \cup Imports : Check(a) /\ Check(b) /\ a.digest = b.digest => a = b

VARIABLES
    stage,          \* where the command is
    scen,           \* what it started from
    canceled,       \* whether its context is done
    data,           \* execData: what the steps observed
    deviations,     \* what was not normal so far
    built           \* what Build returned

commandVars == <<stage, scen, canceled, data, deviations, built>>
vars == <<commandVars, storeVars>>

NoData == [healthy |-> FALSE, base |-> <<>>, patch |-> <<>>, baseBurst |-> <<>>,
           patchBurst |-> <<>>, tests |-> "incomplete", fault |-> "incomplete"]

None == "none"

Init ==
    /\ stage = "idle" /\ scen = None /\ canceled = FALSE /\ data = NoData
    /\ deviations = 0 /\ built = None
    /\ StoreInit

dag == WithTests(WithLatencyN(FromImpact(scen.runtime # {}), scen.latencyN), scen.tests)

-----------------------------------------------------------------------------
(* The command                                                             *)

\* analyzeDiff and resolveWorkload may fail; FromImpact refuses an empty report,
\* the command an empty workload.  A report that analyzeDiff makes without a
\* source graph (FromDiff) binds no line: it is the case of no functions.
Begin(s) ==
    /\ stage = "idle"
    /\ scen' = s
    /\ \/ stage' = "failed"
       \/ s.diff # {} /\ s.workload # <<>> /\ stage' = "env"
    /\ UNCHANGED <<canceled, data, deviations, built, storeVars>>

deviate(n) ==
    /\ deviations' = deviations + n
    /\ deviations' <= MaxDeviations

\* The command's deadline or an interrupt.
Cancel ==
    /\ stage \notin {"idle", "failed", "done"}
    /\ ~canceled /\ canceled' = TRUE
    /\ deviate(1)
    /\ UNCHANGED <<stage, scen, data, built, storeVars>>

\* probeEnv: without healthy gateways nothing is replayed.
ProbeEnv(healthy) ==
    /\ stage = "env"
    /\ canceled => ~healthy
    /\ data' = [data EXCEPT !.healthy = healthy]
    /\ stage' = IF healthy THEN "base" ELSE "tests"
    /\ UNCHANGED <<scen, canceled, deviations, built, storeVars>>

observe(request, o) ==
    [request |-> request, err |-> o.err, status |-> o.status, body |-> o.body, took |-> o.took]

BadGateway == [Normal EXCEPT !.status = 502]

Lost == [Normal EXCEPT !.err = TRUE]

\* replay.Run: one observation per request; those from a cut on meet a
\* context that is done.
runOf(answers, cut) ==
    [i \in 1 .. Len(scen.workload) |->
        observe(scen.workload[i], IF i < cut THEN answers[i] ELSE Lost)]

AnswerLists == [1 .. Len(scen.workload) -> Answers]

Uncut == Len(scen.workload) + 1

limit(parallel) == IF parallel THEN maxBurst ELSE maxRepeats

Off(answers) == Cardinality({i \in 1 .. Len(scen.workload) : answers[i] # Normal})

\* Another run of the workload against a side, by Repeat or Burst, which
\* refuse more than so many runs before the first.  Repeat returns an
\* error when it finds its context done before a run, but not when the context
\* ends during the last one.  The runs of a burst are parallel, each with its
\* own place: those under way when the context ends still report what they
\* met, one that had not started fails the burst.
Replayed(side, runs0, total, parallel, next) ==
    /\ stage = side
    /\ \/ /\ canceled \/ total > limit(parallel)
          /\ stage' = "failed"
          /\ UNCHANGED <<canceled, data, deviations>>
       \/ /\ total <= limit(parallel)
          /\ canceled => parallel
          /\ \E answers \in AnswerLists, cut \in 1 .. Uncut :
                /\ deviate(Off(answers) + IF cut < Uncut THEN 1 ELSE 0)
                /\ canceled' = (canceled \/ cut < Uncut)
                /\ data' = [data EXCEPT ![side] = Append(runs0, runOf(answers, cut))]
          /\ stage' = IF Len(runs0) + 1 = total THEN next ELSE side
    /\ UNCHANGED <<scen, built, storeVars>>

Base == Replayed("base", data.base, replayRepeats(dag), FALSE, "patch")

Patch == Replayed("patch", data.patch, replayRepeats(dag), FALSE,
                  IF hasKind(dag, "concurrency") THEN "baseBurst" ELSE "tests")

BaseBurst == Replayed("baseBurst", data.baseBurst, concurrencyN(dag), TRUE, "patchBurst")

PatchBurst == Replayed("patchBurst", data.patchBurst, concurrencyN(dag), TRUE, "tests")

\* runTests, when it is a step of the plan.
RunTests(verdict) ==
    /\ stage = "tests"
    /\ IF hasKind(dag, "tests")
       THEN /\ canceled => verdict = "incomplete"
            /\ data' = [data EXCEPT !.tests = verdict]
            /\ deviate(IF verdict = "prepared" \/ canceled THEN 0 ELSE 1)
       ELSE UNCHANGED <<data, deviations>>
    /\ stage' = "fault"
    /\ UNCHANGED <<scen, canceled, built, storeVars>>

\* probeFault, when it is a step; a request of a done context is an error.
ProbeFault ==
    /\ stage = "fault"
    /\ IF hasKind(dag, "fault_status")
       THEN \E inject, base \in {Normal, BadGateway, Lost} :
              /\ canceled => inject = Lost /\ base = Lost
              /\ data' = [data EXCEPT !.fault = probeFault(inject, base, 502)]
              /\ deviate(IF (inject = BadGateway /\ base = Normal) \/ canceled THEN 0 ELSE 1)
       ELSE UNCHANGED <<data, deviations>>
    /\ stage' = "decide"
    /\ UNCHANGED <<scen, canceled, built, storeVars>>

\* evalStep of every step, overall, Build.
Conclude ==
    /\ stage = "decide"
    /\ built' = Build(scen, dag, Unanalyzed(scen.diff), Bound(scen.diff), evaluate(dag, data))
    /\ stage' = "built"
    /\ UNCHANGED <<scen, canceled, data, deviations, storeVars>>

\* What the store tells apart of the artifact that the experiment built.
sealed ==
    LET a == built.artifact
        ok == built.blockers = {}
    IN  Sealed(<<"experiment", a.overall, ok>>, "v3", TRUE, a.overall, ok, ok)

\* recordRun; what was observed is forgotten, the artifact is what is left.
Record ==
    /\ stage = "built"
    /\ IF canceled THEN UNCHANGED storeVars ELSE Post("experiment", sealed)
    /\ stage' = "done" /\ data' = NoData /\ built' = None /\ scen' = None
    /\ deviations' = 0 /\ canceled' = FALSE

\* runs import of an artifact file, by a command of any version, and again
\* after an answer that was lost.
Import(c) ==
    /\ stage \in {"failed", "done"} /\ c # "experiment"
    /\ \E a \in Imports : Post(c, a)
    /\ UNCHANGED commandVars

Store ==
    /\ StoreNext
    /\ UNCHANGED commandVars

Next ==
    \/ \E s \in Scenarios : Begin(s)
    \/ Cancel
    \/ \E healthy \in BOOLEAN : ProbeEnv(healthy)
    \/ Base \/ Patch \/ BaseBurst \/ PatchBurst
    \/ \E verdict \in {"prepared", "differ", "incomplete"} : RunTests(verdict)
    \/ ProbeFault \/ Conclude \/ Record
    \/ \E c \in Clients : Import(c)
    \/ Store

Spec == Init /\ [][Next]_vars

-----------------------------------------------------------------------------
(* What validated means                                                    *)

answered(o) == ~o.err /\ o.status # 0

\* What a validated experiment saw, in terms of its raw observations.
FirstRunsAgree ==
    LET b == data.base[1]
        p == data.patch[1]
    IN  \A i \in 1 .. Len(scen.workload) :
            /\ ~b[i].err /\ ~p[i].err /\ b[i].status = p[i].status
            /\ sameBody(b[i].body, p[i].body)
            /\ ~authStatus(b[i].status)

ImpactedReached ==
    /\ routesOf(scen.runtime) # {}
    /\ \A route \in routesOf(scen.runtime) :
          \E i \in 1 .. Len(scen.workload) :
              /\ RouteMatches(route, scen.workload[i])
              /\ answered(data.base[1][i]) /\ answered(data.patch[1][i])

EnoughSamples ==
    \A i \in 1 .. Len(scen.workload) :
        /\ Cardinality(successful(data.base, i)) >= MinLatencyN
        /\ Cardinality(successful(data.patch, i)) >= MinLatencyN

BurstsAgree ==
    /\ Len(data.baseBurst) = concurrencyN(dag) /\ Len(data.patchBurst) = concurrencyN(dag)
    /\ burstErrors(data.baseBurst) = burstErrors(data.patchBurst)

ChangeAccountedFor ==
    \A c \in scen.diff :
        \/ c.path \in Inert
        \/ /\ ~c.binary /\ c.lines # {}
           /\ \A l \in c.lines : \E f \in Funcs : f.file = c.path /\ countsAs(f, l)

TwoBuiltRevisions ==
    /\ scen.baselineRev.source = "built" /\ scen.patchRev.source = "built"
    /\ ~scen.baselineRev.dirty
    /\ scen.baselineRev.tree # scen.patchRev.tree
    /\ scen.baseline # scen.patch

\* An experiment is validated only if two different built revisions were up,
\* every request of the first replays was answered alike by both, every
\* impacted route was among them, each request has its samples on each side,
\* the parallel replays failed equally often, the planned tests passed and
\* every changed line of the built application lies in the declaration of a
\* known function, or follows an interface method with no function in between
\* (Decide in validate/decide.go, from Execute's data in plan/run.go and
\* overlappingFuncs in impact/analyze.go: a line after an interface method
\* counts as that method's, whatever stands there, so it does not block).
ValidatedEarned ==
    stage = "built" /\ built.blockers = {} =>
        /\ data.healthy /\ TwoBuiltRevisions /\ FirstRunsAgree /\ ImpactedReached
        /\ EnoughSamples /\ BurstsAgree /\ ChangeAccountedFor
        /\ scen.tests => data.tests = "prepared"

\* The coverage an artifact reports agrees with what was observed and with
\* its blockers: the exercised routes are those that some request reached on
\* both sides, the missed ones those that block, a rejected one was met only
\* by refusals or failures, and coverage called observed rests on no route
\* known by a caller alone (coverageOf in evidence/coverage.go against
\* coverageBlockers in validate/decide.go).
CoverageAgrees ==
    stage = "built" =>
        LET c == built.artifact.coverage
            at(route) == {i \in 1 .. Len(scen.workload) : RouteMatches(route, scen.workload[i])}
            ran == data.base # <<>> /\ data.patch # <<>>
            both(i) == ran /\ answered(data.base[1][i]) /\ answered(data.patch[1][i])
            handled(i) == both(i) /\ ~(/\ authStatus(data.base[1][i].status)
                                      /\ authStatus(data.patch[1][i].status))
        IN  /\ c.exercised = {r \in c.impacted : \E i \in at(r) : handled(i)}
            /\ c.rejected = {r \in c.impacted \ c.exercised : \E i \in at(r) : both(i)}
            /\ built.basis = "observed" =>
                  \A r \in c.exercised : \E f \in scen.runtime :
                      f.route = r /\ f.provenance # "trace_entry_caller"
            /\ c.missed = {b[2] : b \in {x \in built.blockers : x[1] = "route_missed"}}

swapped(d) == [d EXCEPT !.base = d.patch, !.patch = d.base,
                        !.baseBurst = d.patchBurst, !.patchBurst = d.baseBurst]

\* Which side is called the baseline does not change the overall verdict: a
\* difference is one in either direction (overall in plan/run.go, Compare in
\* replay/compare.go, compareBurst in plan/fault.go).
SidesSymmetric ==
    stage = "decide" => overall(evaluate(dag, swapped(data))) = overall(evaluate(dag, data))
=============================================================================
