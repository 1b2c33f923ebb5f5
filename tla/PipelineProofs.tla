--------------------------- MODULE PipelineProofs ---------------------------
(***************************************************************************)
(* Proofs about Pipeline: what a validated experiment must have observed,  *)
(* for every workload, every number of repeats and every answer of the     *)
(* application, and that what the store tells stays true.                  *)
(***************************************************************************)
EXTENDS Pipeline, FiniteSetTheorems, WellFoundedInduction, TLAPS

-----------------------------------------------------------------------------
(* Facts about the operators                                               *)

\* A nonempty set of naturals has a least element.
LEMMA LeastNatural ==
    ASSUME NEW S \in SUBSET Nat, S # {}
    PROVE  \E n \in S : \A m \in S : n <= m
<1>1. PICK n \in S : \A m \in S : <<m, n>> \notin OpToRel(<, Nat)
    BY Zenon, WFMin, NatLessThanWellFounded
<1>2. ASSUME NEW m \in S PROVE n <= m
    <2> DEFINE pair == <<m, n>>
    <2>1. pair \in Nat \X Nat /\ pair[1] = m /\ pair[2] = n
        BY Zenon
    <2>2. pair \notin {ss \in Nat \X Nat : ss[1] < ss[2]}
        BY <1>1, Zenon DEF OpToRel
    <2> HIDE DEF pair
    <2>3. ~(m < n)
        BY Zenon, <2>1, <2>2
    <2> QED BY <2>3
<1> QED BY Zenon, <1>2

\* Concatenation.
LEMMA Concatenated ==
    ASSUME NEW T, NEW a \in Seq(T), NEW b \in Seq(T)
    PROVE  /\ a \o b \in Seq(T) /\ Len(a \o b) = Len(a) + Len(b)
           /\ \A i \in 1 .. Len(a) + Len(b) : (a \o b)[i] = IF i <= Len(a) THEN a[i] ELSE b[i - Len(a)]
OBVIOUS

\* The fewest samples of a latency result are no more than those of a row.
LEMMA LatencyNLeast ==
    ASSUME NEW r, NEW i \in 1 .. Len(r.latency),
           \A j \in 1 .. Len(r.latency) : r.latency[j].base.n \in Nat /\ r.latency[j].patch.n \in Nat
    PROVE  /\ latencyN(r) \in Nat
           /\ latencyN(r) <= r.latency[i].base.n /\ latencyN(r) <= r.latency[i].patch.n
<1> DEFINE ns == {r.latency[j].base.n : j \in 1 .. Len(r.latency)}
                 \cup {r.latency[j].patch.n : j \in 1 .. Len(r.latency)}
<1>1. ns \in SUBSET Nat /\ r.latency[i].base.n \in ns /\ r.latency[i].patch.n \in ns
    BY Zenon
<1>2. latencyN(r) = CHOOSE n \in ns : \A m \in ns : n <= m
    BY Zenon, <1>1 DEF latencyN
<1> HIDE DEF ns
<1>3. \E n \in ns : \A m \in ns : n <= m
    BY Zenon, <1>1, LeastNatural
<1> QED BY Zenon, <1>1, <1>2, <1>3

\* The samples of a side are counted by a natural number.
LEMMA SamplesNat ==
    ASSUME NEW rs, NEW i, Len(rs) \in Nat
    PROVE  Cardinality(successful(rs, i)) \in Nat
<1>1. IsFiniteSet(1 .. Len(rs))
    BY FS_Interval
<1>2. successful(rs, i) \subseteq 1 .. Len(rs)
    BY Zenon DEF successful
<1> QED BY Zenon, <1>1, <1>2, FS_Subset, FS_CardinalityType

\* Requests that agree in every way have an answer of both sides.
LEMMA MatchMeans ==
    ASSUME NEW a, NEW b, compareObs(a, b).verdict = "match"
    PROVE  /\ ~a.err /\ ~b.err /\ a.status = b.status /\ sameBody(a.body, b.body)
           /\ ~authStatus(a.status)
    BY Zenon DEF compareObs

\* A verdict that is neither incomplete nor different is that of every request.
LEMMA CompareMatch ==
    ASSUME NEW b, NEW p, Len(b) \in Nat, Len(p) \in Nat, Compare(b, p).verdict = "match"
    PROVE  /\ Len(b) = Len(p)
           /\ \A i \in 1 .. Len(b) : compareObs(b[i], p[i]).verdict = "match"
<1>1. Len(b) = Len(p) /\ shorter(b, p) = Len(b)
    BY Zenon DEF Compare, shorter
<1>2. worst({deltas(b, p)[i].verdict : i \in 1 .. Len(b)}) = "match"
    BY Zenon, <1>1 DEF Compare
<1>3. ASSUME NEW i \in 1 .. Len(b)
      PROVE  compareObs(b[i], p[i]).verdict = "match"
    <2>1. deltas(b, p)[i] = compareObs(b[i], p[i])
        BY Zenon, <1>1 DEF deltas
    <2>2. deltas(b, p)[i].verdict \notin {"incomplete", "differ"}
        BY Zenon, <1>2 DEF worst
    <2>3. compareObs(b[i], p[i]).verdict \in {"incomplete", "differ", "match"}
        BY Zenon DEF compareObs
    <2> QED BY Zenon, <2>1, <2>2, <2>3
<1> QED BY Zenon, <1>1, <1>3

-----------------------------------------------------------------------------
(* The plan and its evaluation                                             *)

Kinds == {"env", "behavior", "latency", "concurrency", "fault_status", "tests"}

StepType == [kind : Kinds, required : BOOLEAN, operator : {FALSE}, n : Nat]

\* A step that is written in a plan is one.
LEMMA StepTyped ==
    ASSUME NEW k \in Kinds, NEW r \in BOOLEAN, NEW n \in Nat
    PROVE  step(k, r, n) \in StepType /\ step(k, r, n).kind = k /\ step(k, r, n).required = r
    BY Zenon DEF step, StepType

\* Short tuples are sequences.
LEMMA TuplesTyped ==
    ASSUME NEW S, NEW a \in S, NEW b \in S, NEW c \in S
    PROVE  <<a, b, c>> \in Seq(S) /\ <<a, b>> \in Seq(S)
    OBVIOUS

\* The plan of a command is a list of steps that Aquila runs itself.
LEMMA DagType ==
    ASSUME scen.latencyN \in Nat
    PROVE  /\ dag \in Seq(StepType)
           /\ scen.tests => \E i \in 1 .. Len(dag) : dag[i].kind = "tests" /\ dag[i].required
<1> DEFINE p == FromImpact(scen.runtime # {})
           q == WithLatencyN(p, scen.latencyN)
           t == step("tests", TRUE, 0)
<1>1. /\ step("env", TRUE, 0) \in StepType /\ step("behavior", TRUE, 0) \in StepType
      /\ step("latency", TRUE, DefaultLatencyN) \in StepType
      /\ step("concurrency", TRUE, DefaultConcurrencyN) \in StepType
      /\ step("fault_status", FALSE, 0) \in StepType
    <2>1. 0 \in Nat /\ DefaultLatencyN \in Nat /\ DefaultConcurrencyN \in Nat
        BY Zenon, PlanAssumption
    <2> QED BY <2>1, StepTyped, Zenon DEF Kinds
<1>2. p \in Seq(StepType)
    <2>1. <<step("env", TRUE, 0), step("behavior", TRUE, 0),
            step("latency", TRUE, DefaultLatencyN)>> \in Seq(StepType)
        BY Zenon, <1>1, TuplesTyped
    <2>2. <<step("concurrency", TRUE, DefaultConcurrencyN), step("fault_status", FALSE, 0)>>
            \in Seq(StepType)
        BY Zenon, <1>1, TuplesTyped
    <2>3. << >> \in Seq(StepType)
        OBVIOUS
    <2> QED BY Zenon, <2>1, <2>2, <2>3, Concatenated DEF FromImpact
<1>3. \A i \in 1 .. Len(p) : p[i].kind # "tests"
    BY DEF FromImpact, step
<1> HIDE DEF p
<1>4. \A i \in 1 .. Len(p) : p[i] \in StepType
    BY <1>2
<1>5. \A x \in StepType : \A n \in Nat : [x EXCEPT !.n = n] \in StepType
    BY Zenon DEF StepType
<1>6. q \in [1 .. Len(p) -> StepType]
    BY Zenon, <1>4, <1>5 DEF WithLatencyN
<1>7. q \in Seq(StepType) /\ Len(q) = Len(p)
    BY <1>2, <1>6
<1>8. \A i \in 1 .. Len(q) : q[i].kind # "tests"
    BY Zenon, <1>3, <1>4, <1>7 DEF WithLatencyN, StepType
<1>9. ~hasKind(q, "tests")
    BY Zenon, <1>8 DEF hasKind
<1> HIDE DEF q
<1>10. t \in StepType /\ t.kind = "tests" /\ t.required
    <2>1. 0 \in Nat
        BY Zenon
    <2> QED BY <2>1, StepTyped, Zenon DEF Kinds
<1> HIDE DEF t
<1>11. /\ Append(q, t) \in Seq(StepType) /\ Len(Append(q, t)) = Len(q) + 1
       /\ Append(q, t)[Len(q) + 1] = t /\ Len(q) + 1 \in 1 .. Len(q) + 1
    BY <1>7, <1>10
<1>12. dag = IF scen.tests THEN Append(q, t) ELSE q
    BY Zenon, <1>9 DEF dag, WithTests, p, q, t
<1> QED BY Zenon, <1>7, <1>10, <1>11, <1>12

\* A step's result is of the step's kind, and what its evaluation says.
LEMMA EvalMeans ==
    ASSUME NEW s \in StepType, NEW d
    PROVE  /\ evalStep(s, d).kind = s.kind
           /\ s.kind = "env" => evalStep(s, d) = result("env", IF d.healthy THEN "prepared" ELSE "incomplete")
           /\ s.kind = "behavior" => evalStep(s, d) = behavior(d)
           /\ s.kind = "latency" => evalStep(s, d) = latency(d)
           /\ s.kind = "concurrency" => evalStep(s, d) = concurrency(d)
           /\ s.kind = "tests" => evalStep(s, d) = result("tests", d.tests)
<1>1. s.operator = FALSE
    BY Zenon DEF StepType
<1>2. behavior(d).kind = "behavior"
    BY Zenon DEF behavior, result
<1>3. latency(d).kind = "latency"
    BY Zenon DEF latency, result
<1>4. concurrency(d).kind = "concurrency"
    BY Zenon DEF concurrency, result
<1>5. \A k, v : result(k, v).kind = k
    BY Zenon DEF result
<1> QED BY <1>1, <1>2, <1>3, <1>4, <1>5 DEF evalStep

-----------------------------------------------------------------------------
(* What a decision without blockers means                                  *)

\* Every kind that is asked for has a result, and all its results are good.
LEMMA StepsGood ==
    ASSUME NEW kinds, NEW results, NEW k \in kinds, stepBlockers(kinds, results) = {}
    PROVE  /\ \E i \in 1 .. Len(results) : results[i].kind = k
           /\ \A i \in 1 .. Len(results) : results[i].kind = k => stepOK(results[i])
<1> DEFINE own == {results[i] : i \in ofKind(results, k)}
<1>1. {b \in {block("step_missing", k)} : own = {}} = {}
    BY SMTT(20) DEF stepBlockers
<1>2. {b \in {block("step_failed", k)} : \E r \in own : ~stepOK(r)} = {}
    BY DEF stepBlockers
<1>3. own # {} /\ \A r \in own : stepOK(r)
    BY <1>1, <1>2, Zenon
<1> QED BY Zenon, <1>3 DEF ofKind

Obs == {observe(scen.workload[i], o) : i \in 1 .. Len(scen.workload), o \in Answers \cup {Lost}}

\* The replays of the command's workload.
Replays == {r \in Seq(Obs) : /\ Len(r) = Len(scen.workload)
                             /\ \A i \in 1 .. Len(scen.workload) : r[i].request = scen.workload[i]}

U == Unanalyzed(scen.diff)

B == Bound(scen.diff)

Res == evaluate(dag, data)

\* The policy's input is what the command started from and what it evaluated.
LEMMA InputMeans ==
    ASSUME Build(scen, dag, U, B, Res).blockers = {}
    PROVE  \E in : /\ Decide(in) = {}
                   /\ in.baselineRev = scen.baselineRev /\ in.patchRev = scen.patchRev
                   /\ in.baseline = scen.baseline /\ in.patch = scen.patch
                   /\ in.plan = dag /\ in.results = Res
                   /\ in.workload = {scen.workload[i] : i \in 1 .. Len(scen.workload)}
                   /\ in.unanalyzed = U /\ in.bound = B
                   /\ in.impacted = routesOf(scen.runtime)
<1> DEFINE w == {scen.workload[i] : i \in 1 .. Len(scen.workload)}
           a == [baselineRev |-> scen.baselineRev, patchRev |-> scen.patchRev,
                 baseline |-> scen.baseline, patch |-> scen.patch, plan |-> dag, results |-> Res,
                 overall |-> overall(Res), workload |-> w, unanalyzed |-> U, bound |-> B,
                 coverage |-> coverageOf(scen.runtime, w, Res)]
<1>1. Decide(inputOf(a)) = {}
    BY Zenon DEF Build
<1>2. coverageOf(scen.runtime, w, Res).impacted = routesOf(scen.runtime)
    BY Zenon DEF coverageOf
<1>3. /\ inputOf(a).baselineRev = scen.baselineRev /\ inputOf(a).patchRev = scen.patchRev
      /\ inputOf(a).baseline = scen.baseline /\ inputOf(a).patch = scen.patch
      /\ inputOf(a).plan = dag /\ inputOf(a).results = Res
      /\ inputOf(a).workload = w /\ inputOf(a).unanalyzed = U /\ inputOf(a).bound = B
      /\ inputOf(a).impacted = coverageOf(scen.runtime, w, Res).impacted
    BY Zenon DEF inputOf
<1> QED BY <1>1, <1>2, <1>3, Zenon

\* A line in a function's span counts as its own.
LEMMA SpanCounts ==
    ASSUME NEW f \in Funcs, NEW l \in Nat, covers(f, l)
    PROVE  countsAs(f, l)
<1>1. f.line \in Nat /\ f.end \in Nat /\ \A g \in Funcs : g.line \in Nat
    BY Zenon, ChangesAssumption
<1>2. f.line <= l
    BY Zenon DEF covers
<1>3. CASE f.end >= f.line /\ f.end > 0
    <2>1. l < f.end + 1
        BY Zenon, <1>3 DEF covers
    <2>2. l <= f.end
        BY <1>1, <2>1
    <2> QED BY Zenon, <1>2, <1>3, <2>2 DEF countsAs
<1>4. CASE ~(f.end >= f.line /\ f.end > 0)
    <2>1. \A g \in Funcs : before(f, g) => l < g.line
        BY Zenon, <1>4 DEF covers
    <2>2. \A g \in Funcs : l < g.line => ~(g.line <= l)
        BY <1>1
    <2>3. f.end = 0 \/ f.end < f.line
        BY <1>1, <1>4
    <2> QED BY Zenon, <1>2, <2>1, <2>2, <2>3 DEF countsAs
<1> QED BY Zenon, <1>3, <1>4

\* A change without unanalysed paths has all its lines in known functions.
LEMMA AnalysedMeans ==
    ASSUME scen \in Scenarios, U = {}
    PROVE  ChangeAccountedFor
<1> SUFFICES ASSUME NEW c \in scen.diff, c.path \notin Inert
             PROVE  /\ ~c.binary /\ c.lines # {}
                    /\ \A l \in c.lines : \E f \in Funcs : f.file = c.path /\ countsAs(f, l)
    BY Zenon DEF ChangeAccountedFor
<1> DEFINE own == {f \in Direct(scen.diff) : f.file = c.path}
<1>1. own # {} /\ \A f \in own : f.reason = "changed_lines"
    BY Zenon DEF U, Unanalyzed
<1>2. \A d, x, y : finding(d, x, y).file = d.path /\ finding(d, x, y).reason = y
    BY Zenon DEF finding
<1>3. \A f \in directOf(c) : f.file = c.path
    BY <1>2 DEF directOf
<1>4. \A f \in directOf(c) : f.reason = "changed_lines"
    BY Zenon, <1>1, <1>3 DEF Direct
<1>5. c.path \in Files
    <2>1. PICK f \in own : TRUE
        BY Zenon, <1>1
    <2>2. PICK d \in scen.diff : f \in directOf(d)
        BY Zenon, <2>1 DEF Direct
    <2>3. d.path = c.path
        BY <1>2, <2>1, <2>2 DEF directOf
    <2> QED BY Zenon, <2>2, <2>3 DEF directOf
<1>6. ~c.binary
    <2>1. c.binary => finding(c, c.path, "binary") \in directOf(c)
        BY Zenon, <1>5 DEF directOf
    <2> QED BY <1>2, <1>4, <2>1
<1>7. ~outside(c)
    <2>1. outside(c) => finding(c, c.path, "changed_outside_func") \in directOf(c)
        BY Zenon, <1>5, <1>6 DEF directOf
    <2> QED BY <1>2, <1>4, <2>1
<1>8. overlappingFuncs(c) # {}
    <2>1. overlappingFuncs(c) = {} => finding(c, c.path, "changed_file") \in directOf(c)
        BY Zenon, <1>5, <1>6 DEF directOf
    <2> QED BY <1>2, <1>4, <2>1
<1>9. c.lines # {}
    BY Zenon, <1>8 DEF overlappingFuncs
<1>10. \A l \in c.lines : \E f \in Funcs : f.file = c.path /\ covers(f, l)
    BY Zenon, <1>7 DEF outside, matched
<1>11. c.lines \subseteq Nat
    BY Zenon, PipelineAssumption
<1> QED BY Zenon, <1>6, <1>9, <1>10, <1>11, SpanCounts

\* The results are those of the plan's steps, in order.
LEMMA ResMeans ==
    ASSUME scen.latencyN \in Nat
    PROVE  /\ Len(dag) \in Nat /\ Len(Res) = Len(dag)
           /\ \A i \in 1 .. Len(dag) : /\ dag[i] \in StepType
                                       /\ Res[i] = evalStep(dag[i], data)
                                       /\ Res[i].kind = dag[i].kind
<1>1. dag \in Seq(StepType)
    BY Zenon, DagType
<1> HIDE DEF dag
<1>2. Len(dag) \in Nat /\ \A i \in 1 .. Len(dag) : dag[i] \in StepType
    BY <1>1
<1>3. Len(Res) = Len(dag) /\ \A i \in 1 .. Len(dag) : Res[i] = evalStep(dag[i], data)
    BY <1>2 DEF Res, evaluate
<1> QED BY <1>2, <1>3, EvalMeans

\* The results of behavior steps are all the same comparison.
LEMMA BehaviorIs ==
    ASSUME scen.latencyN \in Nat
    PROVE  \A i \in 1 .. Len(Res) : Res[i].kind = "behavior" => Res[i] = behavior(data)
<1> SUFFICES ASSUME NEW i \in 1 .. Len(Res), Res[i].kind = "behavior"
             PROVE  Res[i] = behavior(data)
    BY Zenon
<1>1. dag[i] \in StepType /\ Res[i] = evalStep(dag[i], data) /\ dag[i].kind = "behavior"
    BY Zenon, ResMeans
<1> QED BY Zenon, <1>1, EvalMeans

\* What the good results of the steps say of the observations.
LEMMA CoreMeans ==
    ASSUME scen.latencyN \in Nat, stepBlockers(coreKinds, Res) = {}
    PROVE  /\ data.healthy
           /\ data.base # <<>> /\ data.patch # <<>>
           /\ Compare(data.base[1], data.patch[1]).verdict = "match"
           /\ latencyN(latency(data)) >= MinLatencyN
           /\ latency(data).latency = Latency(data.base, data.patch)
           /\ data.baseBurst # <<>> /\ data.patchBurst # <<>>
           /\ burstErrors(data.baseBurst) = burstErrors(data.patchBurst)
<1>1. ASSUME NEW k \in coreKinds
      PROVE  \E i \in 1 .. Len(dag) : /\ dag[i] \in StepType /\ dag[i].kind = k
                                      /\ stepOK(evalStep(dag[i], data))
    <2>1. PICK i \in 1 .. Len(Res) : Res[i].kind = k /\ stepOK(Res[i])
        BY StepsGood
    <2> QED BY Zenon, <2>1, ResMeans
<1>2. data.healthy
    <2>1. PICK i \in 1 .. Len(dag) : /\ dag[i] \in StepType /\ dag[i].kind = "env"
                                      /\ stepOK(evalStep(dag[i], data))
        BY Zenon, <1>1 DEF coreKinds
    <2>2. stepOK(result("env", IF data.healthy THEN "prepared" ELSE "incomplete"))
        BY Zenon, <2>1, EvalMeans
    <2> QED BY Zenon, <2>2 DEF stepOK, result
<1>3. stepOK(behavior(data))
    BY Zenon, <1>1, EvalMeans DEF coreKinds
<1>4. stepOK(latency(data))
    BY Zenon, <1>1, EvalMeans DEF coreKinds
<1>5. stepOK(concurrency(data))
    BY Zenon, <1>1, EvalMeans DEF coreKinds
<1>6. behavior(data).verdict = "match"
    <2>1. behavior(data).kind = "behavior"
        BY Zenon DEF behavior, result
    <2> QED BY Zenon, <1>3, <2>1 DEF stepOK
<1>7. /\ data.base # <<>> /\ data.patch # <<>>
      /\ Compare(data.base[1], data.patch[1]).verdict = "match"
    BY Zenon, <1>6 DEF behavior, result
<1>8. latencyN(latency(data)) >= MinLatencyN
    <2>1. latency(data).kind = "latency"
        BY Zenon DEF latency, result
    <2> QED BY Zenon, <1>4, <2>1 DEF stepOK
<1>9. latency(data).latency = Latency(data.base, data.patch)
    BY Zenon, <1>7 DEF latency, result
<1>10. concurrency(data).verdict = "match"
    <2>1. concurrency(data).kind = "concurrency"
        BY Zenon DEF concurrency, result
    <2> QED BY Zenon, <1>5, <2>1 DEF stepOK
<1>11. /\ data.baseBurst # <<>> /\ data.patchBurst # <<>>
       /\ compareBurst(data.baseBurst, data.patchBurst) = "match"
    BY Zenon, <1>10 DEF concurrency, result
<1>12. burstErrors(data.baseBurst) = burstErrors(data.patchBurst)
    BY Zenon, <1>11 DEF compareBurst
<1> QED BY Zenon, <1>2, <1>7, <1>8, <1>9, <1>11, <1>12

\* A planned tests step that does not block has passed.
LEMMA TestsMean ==
    ASSUME scen.latencyN \in Nat, scen.tests,
           NEW in, in.plan = dag, stepBlockers(requiredKinds(in), Res) = {}
    PROVE  data.tests = "prepared"
<1>1. PICK j \in 1 .. Len(dag) : dag[j].kind = "tests" /\ dag[j].required
    BY Zenon, DagType
<1>2. dag[j].operator = FALSE
    BY Zenon, ResMeans DEF StepType
<1>3. "tests" \in requiredKinds(in)
    BY Zenon, <1>1, <1>2 DEF requiredKinds, coreKinds
<1>4. PICK i \in 1 .. Len(Res) : Res[i].kind = "tests" /\ stepOK(Res[i])
    BY SMTT(20), <1>3, StepsGood
<1>5. stepOK(result("tests", data.tests))
    <2>1. dag[i] \in StepType /\ dag[i].kind = "tests" /\ Res[i] = evalStep(dag[i], data)
        BY Zenon, <1>4, ResMeans
    <2> QED BY Zenon, <1>4, <2>1, EvalMeans
<1> QED BY Zenon, <1>5 DEF stepOK, result

\* A route that does not block was reached on both sides by a request of the
\* first runs.
LEMMA CoveredMeans ==
    ASSUME scen.latencyN \in Nat, Len(scen.workload) \in Nat,
           data.base # <<>>, data.patch # <<>>,
           data.base[1] \in Replays, data.patch[1] \in Replays,
           NEW route, NEW W, Covered(route, W, Res)
    PROVE  \E i \in 1 .. Len(scen.workload) :
              /\ RouteMatches(route, scen.workload[i])
              /\ answered(data.base[1][i]) /\ answered(data.patch[1][i])
<1> DEFINE b == data.base[1]
           p == data.patch[1]
<1>1. PICK r \in W : /\ RouteMatches(route, r)
                     /\ \E i \in 1 .. Len(Res) :
                           /\ Res[i].kind = "behavior"
                           /\ \E j \in 1 .. Len(Res[i].steps) :
                                 LET d == Res[i].steps[j]
                                 IN  d.request = r /\ d.base # 0 /\ d.patch # 0
    BY Zenon DEF Covered
<1>2. PICK i \in 1 .. Len(Res) : /\ Res[i].kind = "behavior"
                                 /\ \E j \in 1 .. Len(Res[i].steps) :
                                       LET d == Res[i].steps[j]
                                       IN  d.request = r /\ d.base # 0 /\ d.patch # 0
    BY Zenon, <1>1
<1>3. Res[i] = behavior(data)
    BY Zenon, <1>2, BehaviorIs
<1>4. behavior(data).steps = deltas(b, p)
    BY Zenon DEF behavior, result, Compare
<1>5. Len(b) = Len(scen.workload) /\ Len(p) = Len(scen.workload)
    BY Zenon DEF Replays
<1>6. /\ Len(deltas(b, p)) = Len(scen.workload)
      /\ \A j \in 1 .. Len(scen.workload) : deltas(b, p)[j] = compareObs(b[j], p[j])
    BY <1>5 DEF deltas, shorter
<1>7. PICK j \in 1 .. Len(scen.workload) : /\ compareObs(b[j], p[j]).request = r
                                           /\ compareObs(b[j], p[j]).base # 0
                                           /\ compareObs(b[j], p[j]).patch # 0
    BY <1>2, <1>3, <1>4, <1>6
<1>8. b[j].request = r /\ answered(b[j]) /\ answered(p[j])
    BY Zenon, <1>7 DEF compareObs, answered
<1>9. b[j].request = scen.workload[j]
    BY Zenon DEF Replays
<1> QED BY Zenon, <1>1, <1>8, <1>9

\* A decision without blockers is earned.
LEMMA Policy ==
    ASSUME scen \in Scenarios, data.base \in Seq(Replays), data.patch \in Seq(Replays),
           data.baseBurst = <<>> \/ Len(data.baseBurst) = concurrencyN(dag),
           data.patchBurst = <<>> \/ Len(data.patchBurst) = concurrencyN(dag),
           Build(scen, dag, U, B, Res).blockers = {}
    PROVE  /\ data.healthy /\ TwoBuiltRevisions /\ FirstRunsAgree /\ ImpactedReached
           /\ EnoughSamples /\ BurstsAgree /\ ChangeAccountedFor
           /\ scen.tests => data.tests = "prepared"
<1> DEFINE n == Len(scen.workload)
           b == data.base[1]
           p == data.patch[1]
<1>1. scen.latencyN \in Nat /\ n \in Nat
    BY Zenon, PipelineAssumption
<1>2. PICK in : /\ Decide(in) = {}
                /\ in.baselineRev = scen.baselineRev /\ in.patchRev = scen.patchRev
                /\ in.baseline = scen.baseline /\ in.patch = scen.patch
                /\ in.plan = dag /\ in.results = Res
                /\ in.workload = {scen.workload[i] : i \in 1 .. Len(scen.workload)}
                /\ in.unanalyzed = U /\ in.bound = B
                /\ in.impacted = routesOf(scen.runtime)
    BY Zenon, InputMeans
<1>3. /\ revisionBlockers(in) = {} /\ targetBlockers(in) = {}
      /\ stepBlockers(coreKinds, Res) = {} /\ stepBlockers(requiredKinds(in), Res) = {}
      /\ changeBlockers(in) = {} /\ coverageBlockers(in) = {}
    BY Zenon, <1>2 DEF Decide
<1>4. /\ data.healthy /\ data.base # <<>> /\ data.patch # <<>>
      /\ Compare(b, p).verdict = "match"
      /\ latencyN(latency(data)) >= MinLatencyN
      /\ latency(data).latency = Latency(data.base, data.patch)
      /\ data.baseBurst # <<>> /\ data.patchBurst # <<>>
      /\ burstErrors(data.baseBurst) = burstErrors(data.patchBurst)
    BY Zenon, <1>1, <1>3, CoreMeans
<1>5. b \in Replays /\ p \in Replays /\ Len(data.base) \in Nat /\ Len(data.patch) \in Nat
    BY <1>4
<1>6. Len(b) = n /\ Len(p) = n
    BY Zenon, <1>5 DEF Replays
<1>7. TwoBuiltRevisions
    <2>1. /\ ~in.baselineRev.dirty
          /\ in.baselineRev.source = "built" /\ in.patchRev.source = "built"
          /\ in.baselineRev.tree # in.patchRev.tree
        <3>1. ~in.baselineRev.dirty
            BY Zenon, <1>3 DEF revisionBlockers
        <3>2. in.baselineRev.tree # "" /\ in.baselineRev.source = "built"
            BY Zenon, <1>3 DEF revisionBlockers
        <3>3. in.patchRev.source = "built"
            BY Zenon, <1>3 DEF revisionBlockers
        <3>4. in.baselineRev.tree # in.patchRev.tree
            BY Zenon, <1>3, <3>2 DEF revisionBlockers
        <3> QED BY Zenon, <3>1, <3>2, <3>3, <3>4
    <2>2. in.baseline # in.patch
        <3>1. in.baseline # ""
            BY Zenon, <1>3 DEF targetBlockers
        <3> QED BY Zenon, <1>3, <3>1 DEF targetBlockers
    <2> QED BY Zenon, <1>2, <2>1, <2>2 DEF TwoBuiltRevisions
<1>8. FirstRunsAgree
    <2>1. \A i \in 1 .. n : compareObs(b[i], p[i]).verdict = "match"
        BY Zenon, <1>1, <1>4, <1>6, CompareMatch
    <2> HIDE DEF b, p
    <2>2. \A i \in 1 .. n : /\ ~b[i].err /\ ~p[i].err /\ b[i].status = p[i].status
                           /\ sameBody(b[i].body, p[i].body) /\ ~authStatus(b[i].status)
        BY Zenon, <2>1, MatchMeans
    <2> QED BY Zenon, <2>2 DEF FirstRunsAgree, b, p
<1>9. ImpactedReached
    <2>1. in.impacted # {}
        BY Zenon, <1>3 DEF changeBlockers
    <2>2. \A route \in in.impacted : Covered(route, in.workload, Res)
        BY ZenonT(30), <1>2, <1>3 DEF coverageBlockers
    <2> QED BY Zenon, <1>1, <1>2, <1>4, <1>5, <2>1, <2>2, CoveredMeans DEF ImpactedReached
<1>10. EnoughSamples
    <2> DEFINE rows == Latency(data.base, data.patch)
    <2>1. /\ Len(rows) = n
          /\ \A i \in 1 .. n : /\ rows[i].base = Summarize(data.base, i)
                               /\ rows[i].patch = Summarize(data.patch, i)
        BY <1>1, <1>6 DEF Latency, shorter
    <2>2. \A i \in 1 .. n : /\ rows[i].base.n = Cardinality(successful(data.base, i))
                           /\ rows[i].patch.n = Cardinality(successful(data.patch, i))
        <3>1. \A rs, i : Summarize(rs, i).n = Cardinality(successful(rs, i))
            BY Zenon DEF Summarize
        <3> HIDE DEF rows
        <3> QED BY Zenon, <2>1, <3>1
    <2> HIDE DEF rows
    <2>3. \A i \in 1 .. n : rows[i].base.n \in Nat /\ rows[i].patch.n \in Nat
        BY <1>5, <2>2, SamplesNat
    <2>4. latency(data).latency = rows
        BY Zenon, <1>4 DEF rows
    <2>5. ASSUME NEW i \in 1 .. n
          PROVE  /\ latencyN(latency(data)) \in Nat
                 /\ latencyN(latency(data)) <= rows[i].base.n
                 /\ latencyN(latency(data)) <= rows[i].patch.n
        <3> DEFINE lat == latency(data)
        <3> HIDE DEF lat
        <3>1. /\ i \in 1 .. Len(lat.latency)
              /\ \A j \in 1 .. Len(lat.latency) :
                    lat.latency[j].base.n \in Nat /\ lat.latency[j].patch.n \in Nat
            BY Zenon, <2>1, <2>3, <2>4 DEF lat
        <3>2. /\ latencyN(lat) \in Nat
              /\ latencyN(lat) <= lat.latency[i].base.n
              /\ latencyN(lat) <= lat.latency[i].patch.n
            BY Zenon, <3>1, LatencyNLeast
        <3> QED BY Zenon, <2>4, <3>2 DEF lat
    <2>6. ASSUME NEW i \in 1 .. n
          PROVE  rows[i].base.n >= MinLatencyN /\ rows[i].patch.n >= MinLatencyN
        <3> DEFINE m == latencyN(latency(data))
        <3>1. m \in Nat /\ m >= MinLatencyN /\ m <= rows[i].base.n /\ m <= rows[i].patch.n
            BY Zenon, <1>4, <2>5
        <3> HIDE DEF m
        <3> QED BY <2>3, <3>1, ValidateAssumption
    <2> QED BY Zenon, <2>2, <2>6 DEF EnoughSamples
<1>11. BurstsAgree
    BY Zenon, <1>4 DEF BurstsAgree
<1>12. ChangeAccountedFor
    <2>1. U = {}
        <3>1. {block("unanalyzed_change", x) : x \in in.unanalyzed} = {}
            BY <1>3, Zenon DEF changeBlockers
        <3> QED BY <1>2, <3>1
    <2> QED BY Zenon, <2>1, AnalysedMeans
<1>13. scen.tests => data.tests = "prepared"
    BY Zenon, <1>1, <1>2, <1>3, TestsMean
<1> QED BY Zenon, <1>4, <1>7, <1>8, <1>9, <1>10, <1>11, <1>12, <1>13

-----------------------------------------------------------------------------
(* The invariant of the command                                            *)

Active == {"env", "base", "patch", "baseBurst", "patchBurst", "tests", "fault", "decide", "built"}

Fields == {"healthy", "base", "patch", "baseBurst", "patchBurst", "tests", "fault"}

Whole(burst) == burst = <<>> \/ Len(burst) = concurrencyN(dag)

Observed ==
    /\ data.base \in Seq(Replays) /\ data.patch \in Seq(Replays)
    /\ data.baseBurst \in Seq(Replays) /\ data.patchBurst \in Seq(Replays)

BurstsInOrder ==
    /\ stage \in {"env", "base", "patch"} => data.baseBurst = <<>> /\ data.patchBurst = <<>>
    /\ stage = "baseBurst" => data.patchBurst = <<>>
    /\ stage = "patchBurst" => Len(data.baseBurst) = concurrencyN(dag)
    /\ stage \in {"tests", "fault", "decide", "built"} =>
          Whole(data.baseBurst) /\ Whole(data.patchBurst)

CommandInv ==
    /\ stage = "idle" => data = NoData
    /\ stage \in Active =>
          /\ scen \in Scenarios /\ DOMAIN data = Fields
          /\ Observed /\ BurstsInOrder
          /\ stage = "built" => built = Build(scen, dag, U, B, Res)

\* A changed field of the observations leaves the other fields alone.
LEMMA FieldChanged ==
    ASSUME NEW d, DOMAIN d = Fields, NEW f \in Fields, NEW x, NEW e, e = [d EXCEPT ![f] = x]
    PROVE  DOMAIN e = Fields /\ e[f] = x /\ \A g \in Fields \ {f} : e[g] = d[g]
    BY Zenon

\* One run of the workload is a replay of it.
LEMMA RunTyped ==
    ASSUME Len(scen.workload) \in Nat, NEW answers \in AnswerLists, NEW cut \in 1 .. Uncut
    PROVE  runOf(answers, cut) \in Replays
<1> DEFINE r == runOf(answers, cut)
           n == Len(scen.workload)
<1>1. ASSUME NEW i \in 1 .. n
      PROVE  /\ (IF i < cut THEN answers[i] ELSE Lost) \in Answers \cup {Lost}
             /\ r[i] = observe(scen.workload[i], IF i < cut THEN answers[i] ELSE Lost)
    BY Zenon DEF AnswerLists, runOf
<1>2. \A i \in 1 .. n : r[i] \in Obs
    <2> HIDE DEF r
    <2>1. \A i \in 1 .. n : \E o \in Answers \cup {Lost} : r[i] = observe(scen.workload[i], o)
        BY Zenon, <1>1
    <2>2. ASSUME NEW i \in 1 .. n, NEW o \in Answers \cup {Lost}
          PROVE  observe(scen.workload[i], o) \in Obs
        BY DEF Obs
    <2> QED BY Zenon, <2>1, <2>2
<1>3. \A i \in 1 .. n : r[i].request = scen.workload[i]
    <2>1. \A q, o : observe(q, o).request = q
        BY Zenon DEF observe
    <2> HIDE DEF r
    <2> QED BY Zenon, <1>1, <2>1
<1>4. r \in [1 .. n -> Obs]
    <2>1. r = [i \in 1 .. n |-> observe(scen.workload[i], IF i < cut THEN answers[i] ELSE Lost)]
        BY Zenon DEF runOf
    <2> HIDE DEF r
    <2>2. r = [i \in 1 .. n |-> r[i]]
        BY Zenon, <2>1
    <2> QED BY Zenon, <1>2, <2>2
<1> HIDE DEF r
<1>5. r \in Seq(Obs) /\ Len(r) = n
    BY <1>4
<1> QED BY Zenon, <1>3, <1>5 DEF Replays, r

\* What a command has observed stays in shape: it starts from nothing, and
\* Repeat and Burst add whole runs of the workload in the order of
\* plan.Execute.
LEMMA InitCommand == Init => CommandInv
    BY Zenon DEF Init, CommandInv, Active

\* A further run against one side keeps the shape of what was observed.
LEMMA AddedRun ==
    ASSUME CommandInv, NEW side \in {"base", "patch", "baseBurst", "patchBurst"},
           NEW total, NEW parallel, NEW next \in Active,
           Replayed(side, data[side], total, parallel, next), stage' # "failed"
    PROVE  /\ scen' = scen /\ dag' = dag /\ DOMAIN data' = Fields /\ Observed'
           /\ Len(data'[side]) = Len(data[side]) + 1
           /\ \A g \in Fields \ {side} : data'[g] = data[g]
           /\ stage' = IF Len(data'[side]) = total THEN next ELSE side
<1>1. stage = side /\ side \in Active /\ side \in Fields /\ scen' = scen
    BY Zenon DEF Replayed, Active, Fields
<1>2. scen \in Scenarios /\ DOMAIN data = Fields /\ Observed
    BY Zenon, <1>1 DEF CommandInv
<1>3. PICK answers \in AnswerLists, cut \in 1 .. Uncut :
          data' = [data EXCEPT ![side] = Append(data[side], runOf(answers, cut))]
    BY Zenon DEF Replayed
<1>4. stage' = IF Len(data[side]) + 1 = total THEN next ELSE side
    BY Zenon DEF Replayed
<1>5. Len(scen.workload) \in Nat
    BY Zenon, <1>2, PipelineAssumption
<1> DEFINE r == runOf(answers, cut)
<1>6. r \in Replays
    BY Zenon, <1>5, RunTyped
<1> HIDE DEF r
<1>7. data[side] \in Seq(Replays)
    BY Zenon, <1>2 DEF Observed
<1>8. /\ DOMAIN data' = Fields /\ data'[side] = Append(data[side], r)
      /\ \A g \in Fields \ {side} : data'[g] = data[g]
    BY Zenon, <1>1, <1>2, <1>3, FieldChanged DEF r
<1>9. /\ Append(data[side], r) \in Seq(Replays)
      /\ Len(Append(data[side], r)) = Len(data[side]) + 1
    BY <1>6, <1>7
<1>10. Replays' = Replays /\ dag' = dag
    BY <1>1 DEF Replays, Obs, dag
<1>11. \A g \in {"base", "patch", "baseBurst", "patchBurst"} : data'[g] \in Seq(Replays)
    <2>1. \A g \in {"base", "patch", "baseBurst", "patchBurst"} : g \in Fields
        BY Zenon DEF Fields
    <2>2. \A g \in {"base", "patch", "baseBurst", "patchBurst"} : data[g] \in Seq(Replays)
        BY Zenon, <1>2 DEF Observed
    <2> QED BY Zenon, <1>8, <1>9, <2>1, <2>2
<1>12. Observed'
    BY Zenon, <1>10, <1>11 DEF Observed
<1> QED BY Zenon, <1>1, <1>4, <1>8, <1>9, <1>10, <1>12

\* A step that observes something other than a replay keeps the replays.
LEMMA OtherField ==
    ASSUME CommandInv, stage \in Active, scen' = scen,
           NEW f \in {"healthy", "tests", "fault"}, NEW x,
           data' = data \/ data' = [data EXCEPT ![f] = x]
    PROVE  /\ scen' \in Scenarios /\ dag' = dag /\ DOMAIN data' = Fields /\ Observed'
           /\ data'.baseBurst = data.baseBurst /\ data'.patchBurst = data.patchBurst
<1>1. scen \in Scenarios /\ DOMAIN data = Fields /\ Observed
    BY Zenon DEF CommandInv
<1>2. Replays' = Replays /\ dag' = dag
    BY DEF Replays, Obs, dag
<1>3. f \in Fields /\ \A g \in {"base", "patch", "baseBurst", "patchBurst"} : g \in Fields \ {f}
    BY Zenon DEF Fields
<1>4. /\ DOMAIN data' = Fields
      /\ \A g \in {"base", "patch", "baseBurst", "patchBurst"} : data'[g] = data[g]
    <2>1. CASE data' = data
        BY Zenon, <1>1, <2>1
    <2>2. CASE data' = [data EXCEPT ![f] = x]
        BY Zenon, <1>1, <1>3, <2>2, FieldChanged
    <2> QED BY Zenon, <2>1, <2>2
<1>5. /\ data'.base = data.base /\ data'.patch = data.patch
      /\ data'.baseBurst = data.baseBurst /\ data'.patchBurst = data.patchBurst
    BY Zenon, <1>4
<1>6. Observed'
    BY Zenon, <1>1, <1>2, <1>5 DEF Observed
<1> QED BY Zenon, <1>1, <1>2, <1>4, <1>5, <1>6

\* What is computed from the scenario and the observations changes with them only.
LEMMA SameInputs ==
    ASSUME scen' = scen, data' = data
    PROVE  Replays' = Replays /\ dag' = dag /\ U' = U /\ B' = B /\ Res' = Res
<1>1. Replays' = Replays
    BY DEF Replays, Obs
<1>2. dag' = dag /\ U' = U /\ B' = B
    BY Zenon DEF dag, U, B
<1>3. Res' = Res
    BY Zenon, <1>2 DEF Res
<1> QED BY Zenon, <1>1, <1>2, <1>3

\* Every step of the command keeps the invariant.
LEMMA NextCommand == CommandInv /\ [Next]_vars => CommandInv'
<1> SUFFICES ASSUME CommandInv, [Next]_vars PROVE CommandInv'
    BY Zenon
<1>1. ASSUME UNCHANGED commandVars PROVE CommandInv'
    <2>1. Replays' = Replays /\ dag' = dag /\ U' = U /\ B' = B /\ Res' = Res
        BY Zenon, <1>1, SameInputs DEF commandVars
    <2>2. Observed' = Observed /\ BurstsInOrder' = BurstsInOrder
        BY Zenon, <1>1, <2>1 DEF Observed, BurstsInOrder, Whole, commandVars
    <2> QED BY Zenon, <1>1, <2>1, <2>2 DEF CommandInv, commandVars
<1>2. ASSUME NEW s \in Scenarios, Begin(s) PROVE CommandInv'
    <2>1. data' = NoData /\ scen' = s /\ stage' \in {"failed", "env"}
        BY Zenon, <1>2 DEF Begin, CommandInv
    <2>2. /\ DOMAIN NoData = Fields /\ NoData.base = <<>> /\ NoData.patch = <<>>
          /\ NoData.baseBurst = <<>> /\ NoData.patchBurst = <<>>
        BY Zenon DEF NoData, Fields
    <2>3. Observed' /\ BurstsInOrder'
        BY <2>1, <2>2 DEF Observed, BurstsInOrder
    <2> QED BY Zenon, <2>1, <2>2, <2>3 DEF CommandInv, Active
<1>3. ASSUME Cancel PROVE CommandInv'
    <2>1. Replays' = Replays /\ dag' = dag /\ U' = U /\ B' = B /\ Res' = Res
        BY Zenon, <1>3, SameInputs DEF Cancel
    <2>2. Observed' = Observed /\ BurstsInOrder' = BurstsInOrder
        BY Zenon, <1>3, <2>1 DEF Cancel, Observed, BurstsInOrder, Whole
    <2> QED BY Zenon, <1>3, <2>1, <2>2 DEF Cancel, CommandInv
<1>4. ASSUME NEW healthy \in BOOLEAN, ProbeEnv(healthy) PROVE CommandInv'
    <2>1. /\ stage = "env" /\ stage \in Active /\ scen' = scen /\ stage' \in {"base", "tests"}
          /\ data' = [data EXCEPT !["healthy"] = healthy]
        BY Zenon, <1>4 DEF ProbeEnv, Active
    <2>2. /\ scen' \in Scenarios /\ dag' = dag /\ DOMAIN data' = Fields /\ Observed'
          /\ data'.baseBurst = data.baseBurst /\ data'.patchBurst = data.patchBurst
        BY Zenon, <2>1, OtherField
    <2>3. data.baseBurst = <<>> /\ data.patchBurst = <<>>
        BY Zenon, <2>1 DEF CommandInv, BurstsInOrder
    <2>4. BurstsInOrder'
        BY Zenon, <2>1, <2>2, <2>3 DEF BurstsInOrder, Whole
    <2> QED BY Zenon, <2>1, <2>2, <2>4 DEF CommandInv
<1>5. ASSUME NEW verdict \in {"prepared", "differ", "incomplete"}, RunTests(verdict)
      PROVE  CommandInv'
    <2>1. /\ stage = "tests" /\ stage \in Active /\ scen' = scen /\ stage' = "fault"
          /\ data' = data \/ data' = [data EXCEPT !["tests"] = verdict]
        BY Zenon, <1>5 DEF RunTests, Active
    <2>2. /\ scen' \in Scenarios /\ dag' = dag /\ DOMAIN data' = Fields /\ Observed'
          /\ data'.baseBurst = data.baseBurst /\ data'.patchBurst = data.patchBurst
        BY Zenon, <2>1, OtherField
    <2>3. BurstsInOrder'
        BY Zenon, <2>1, <2>2 DEF CommandInv, BurstsInOrder, Whole
    <2> QED BY Zenon, <2>1, <2>2, <2>3 DEF CommandInv
<1>6. ASSUME ProbeFault PROVE CommandInv'
    <2>1. PICK x : /\ stage = "fault" /\ stage \in Active /\ scen' = scen /\ stage' = "decide"
                   /\ data' = data \/ data' = [data EXCEPT !["fault"] = x]
        BY ZenonT(30), <1>6 DEF ProbeFault, Active
    <2>2. /\ scen' \in Scenarios /\ dag' = dag /\ DOMAIN data' = Fields /\ Observed'
          /\ data'.baseBurst = data.baseBurst /\ data'.patchBurst = data.patchBurst
        BY Zenon, <2>1, OtherField
    <2>3. BurstsInOrder'
        BY Zenon, <2>1, <2>2 DEF CommandInv, BurstsInOrder, Whole
    <2> QED BY Zenon, <2>1, <2>2, <2>3 DEF CommandInv
<1>7. ASSUME Conclude PROVE CommandInv'
    <2>1. /\ stage = "decide" /\ stage' = "built" /\ scen' = scen /\ data' = data
          /\ built' = Build(scen, dag, U, B, Res)
        BY Zenon, <1>7 DEF Conclude, U, B, Res
    <2>2. Replays' = Replays /\ dag' = dag /\ U' = U /\ B' = B /\ Res' = Res
        BY Zenon, <2>1, SameInputs
    <2>3. Observed' /\ BurstsInOrder'
        BY Zenon, <2>1, <2>2 DEF CommandInv, Active, Observed, BurstsInOrder, Whole
    <2> QED BY Zenon, <2>1, <2>2, <2>3 DEF CommandInv, Active
<1>8. ASSUME Record PROVE CommandInv'
    BY Zenon, <1>8 DEF Record, CommandInv, Active
<1>9. ASSUME stage' = "failed" PROVE CommandInv'
    BY Zenon, <1>9 DEF CommandInv, Active
<1>10. ASSUME NEW side \in {"base", "patch"}, NEW total,
             NEW next \in {"patch", "baseBurst", "tests"},
             Replayed(side, data[side], total, FALSE, next)
      PROVE  CommandInv'
    <2> SUFFICES ASSUME stage' # "failed" PROVE CommandInv'
        BY Zenon, <1>9
    <2>1. next \in Active /\ side \in Active
        BY Zenon DEF Active
    <2>2. /\ scen' = scen /\ dag' = dag /\ DOMAIN data' = Fields /\ Observed'
          /\ \A g \in Fields \ {side} : data'[g] = data[g]
          /\ stage' \in {next, side} /\ stage = side
        BY Zenon, <1>10, <2>1, AddedRun DEF Replayed
    <2>3. scen \in Scenarios /\ data.baseBurst = <<>> /\ data.patchBurst = <<>>
        BY Zenon, <2>1, <2>2 DEF CommandInv, BurstsInOrder
    <2>4. data'.baseBurst = <<>> /\ data'.patchBurst = <<>>
        BY Zenon, <2>2, <2>3 DEF Fields
    <2>5. BurstsInOrder' /\ stage' \notin {"built", "idle"}
        BY Zenon, <2>2, <2>4 DEF BurstsInOrder, Whole
    <2> QED BY Zenon, <2>2, <2>3, <2>5 DEF CommandInv
<1>11. ASSUME BaseBurst PROVE CommandInv'
    <2> SUFFICES ASSUME stage' # "failed" PROVE CommandInv'
        BY Zenon, <1>9
    <2>1. Replayed("baseBurst", data["baseBurst"], concurrencyN(dag), TRUE, "patchBurst")
        BY Zenon, <1>11 DEF BaseBurst
    <2>2. stage = "baseBurst" /\ stage \in Active /\ "patchBurst" \in Active
        BY Zenon, <2>1 DEF Replayed, Active
    <2>3. /\ scen' = scen /\ dag' = dag /\ DOMAIN data' = Fields /\ Observed'
          /\ \A g \in Fields \ {"baseBurst"} : data'[g] = data[g]
          /\ stage' = IF Len(data'["baseBurst"]) = concurrencyN(dag) THEN "patchBurst"
                      ELSE "baseBurst"
        BY Zenon, <2>1, <2>2, AddedRun
    <2>4. scen \in Scenarios /\ data.patchBurst = <<>>
        BY Zenon, <2>2 DEF CommandInv, BurstsInOrder
    <2>5. data'.patchBurst = <<>>
        BY Zenon, <2>3, <2>4 DEF Fields
    <2>6. BurstsInOrder' /\ stage' \notin {"built", "idle"}
        BY Zenon, <2>3, <2>5 DEF BurstsInOrder, Whole
    <2> QED BY Zenon, <2>3, <2>4, <2>6 DEF CommandInv
<1>12. ASSUME PatchBurst PROVE CommandInv'
    <2> SUFFICES ASSUME stage' # "failed" PROVE CommandInv'
        BY Zenon, <1>9
    <2>1. Replayed("patchBurst", data["patchBurst"], concurrencyN(dag), TRUE, "tests")
        BY Zenon, <1>12 DEF PatchBurst
    <2>2. stage = "patchBurst" /\ stage \in Active /\ "tests" \in Active
        BY Zenon, <2>1 DEF Replayed, Active
    <2>3. /\ scen' = scen /\ dag' = dag /\ DOMAIN data' = Fields /\ Observed'
          /\ \A g \in Fields \ {"patchBurst"} : data'[g] = data[g]
          /\ stage' = IF Len(data'["patchBurst"]) = concurrencyN(dag) THEN "tests"
                      ELSE "patchBurst"
        BY Zenon, <2>1, <2>2, AddedRun
    <2>4. scen \in Scenarios /\ Len(data.baseBurst) = concurrencyN(dag)
        BY Zenon, <2>2 DEF CommandInv, BurstsInOrder
    <2>5. Len(data'.baseBurst) = concurrencyN(dag)
        BY Zenon, <2>3, <2>4 DEF Fields
    <2>6. BurstsInOrder' /\ stage' \notin {"built", "idle"}
        BY Zenon, <2>3, <2>5 DEF BurstsInOrder, Whole
    <2> QED BY Zenon, <2>3, <2>4, <2>6 DEF CommandInv
<1>13. ASSUME Base \/ Patch PROVE CommandInv'
    <2>1. CASE Base
        BY Zenon, <1>10, <2>1 DEF Base
    <2>2. CASE Patch
        <3> DEFINE next == IF hasKind(dag, "concurrency") THEN "baseBurst" ELSE "tests"
        <3>1. next \in {"patch", "baseBurst", "tests"}
            BY Zenon
        <3>2. Replayed("patch", data["patch"], replayRepeats(dag), FALSE, next)
            BY Zenon, <2>2 DEF Patch
        <3> HIDE DEF next
        <3> QED BY Zenon, <1>10, <3>1, <3>2
    <2> QED BY Zenon, <1>13, <2>1, <2>2
<1>14. ASSUME \/ \E c \in Clients : Import(c)
              \/ Store
      PROVE  UNCHANGED commandVars
    BY Zenon, <1>14 DEF Import, Store
<1>15. CASE UNCHANGED vars
    BY Zenon, <1>1, <1>15 DEF vars
<1> QED BY Zenon, <1>1, <1>2, <1>3, <1>4, <1>5, <1>6, <1>7, <1>8, <1>11, <1>12, <1>13, <1>14, <1>15 DEF Next

\* An experiment that any command calls validated has observed what the
\* policy promises, for every scenario, workload, number of repeats and
\* parallel replays, answers of the application and moment of cancellation
\* (Decide in validate/decide.go over what Execute in plan/run.go gathered).
THEOREM ValidatedIsEarned == Spec => []ValidatedEarned
<1>1. CommandInv => ValidatedEarned
    <2> SUFFICES ASSUME CommandInv, stage = "built", built.blockers = {}
                 PROVE  /\ data.healthy /\ TwoBuiltRevisions /\ FirstRunsAgree
                        /\ ImpactedReached /\ EnoughSamples /\ BurstsAgree
                        /\ ChangeAccountedFor /\ (scen.tests => data.tests = "prepared")
        BY Zenon DEF ValidatedEarned
    <2>1. /\ scen \in Scenarios /\ Observed /\ BurstsInOrder
          /\ Build(scen, dag, U, B, Res).blockers = {}
        BY Zenon DEF CommandInv, Active
    <2>2. data.base \in Seq(Replays) /\ data.patch \in Seq(Replays)
        BY Zenon, <2>1 DEF Observed
    <2>3. /\ data.baseBurst = <<>> \/ Len(data.baseBurst) = concurrencyN(dag)
          /\ data.patchBurst = <<>> \/ Len(data.patchBurst) = concurrencyN(dag)
        BY Zenon, <2>1 DEF BurstsInOrder, Whole
    <2> QED BY Zenon, <2>1, <2>2, <2>3, Policy
<1> QED BY <1>1, InitCommand, NextCommand, PTL DEF Spec

-----------------------------------------------------------------------------
(* The store of runs                                                       *)

Artifacts == Own \cup Imports

\* What an answer says of a store.
TrueIn(store, t) ==
    LET id == Prefix(t.artifact.digest)
        found == id \in DOMAIN store
    IN  /\ t.status = "stored" => /\ found /\ store[id] = t.artifact
                                  /\ t.validated = t.artifact.claimed
                                  /\ t.artifact.claimed => t.artifact.overall = "match"
        /\ t.status = "collision" => found /\ store[id] # t.artifact

WellIn(store, k) ==
    /\ k.at \in {"sent", "conflict", "reply"} => k.artifact \in Artifacts
    /\ k.at = "conflict" => Check(k.artifact) /\ Prefix(k.artifact.digest) \in DOMAIN store
    /\ k.at = "reply" => TrueIn(store, k)

StoredWell == \A id \in DOMAIN runs : runs[id] \in Artifacts /\ Check(runs[id])

StoreInv ==
    /\ DOMAIN calls = Clients /\ DOMAIN told = Clients
    /\ StoredWell
    /\ \A c \in Clients : WellIn(runs, calls[c])
    /\ \A c \in Clients : \A t \in told[c] : TrueIn(runs, t)

\* What is stored is never changed or taken away.
Grown == /\ DOMAIN runs \subseteq DOMAIN runs'
         /\ \A id \in DOMAIN runs : runs'[id] = runs[id]

\* An answer that was true stays true while the store only grows.
LEMMA TrueStays ==
    ASSUME Grown, NEW t, TrueIn(runs, t)
    PROVE  TrueIn(runs', t)
    BY Zenon DEF Grown, TrueIn

\* A step that changes one call and grows the store keeps the invariant, if
\* the call is well after it.
LEMMA OneCall ==
    ASSUME StoreInv, Grown, StoredWell', NEW c \in Clients, NEW k,
           calls' = [calls EXCEPT ![c] = k], told' = told, WellIn(runs', k)
    PROVE  StoreInv'
<1>1. DOMAIN calls' = Clients /\ calls'[c] = k /\ \A d \in Clients \ {c} : calls'[d] = calls[d]
    BY Zenon DEF StoreInv
<1>2. \A d \in Clients \ {c} : WellIn(runs', calls[d])
    BY Zenon, TrueStays DEF StoreInv, WellIn, Grown
<1>3. \A d \in Clients : \A t \in told[d] : TrueIn(runs', t)
    BY Zenon, TrueStays DEF StoreInv
<1> QED BY Zenon, <1>1, <1>2, <1>3 DEF StoreInv

\* The same for a step that leaves the store alone.
LEMMA OneCallSame ==
    ASSUME StoreInv, NEW c \in Clients, NEW k, runs' = runs,
           calls' = [calls EXCEPT ![c] = k], told' = told, WellIn(runs, k)
    PROVE  StoreInv'
<1>1. Grown /\ StoredWell' /\ WellIn(runs', k)
    BY Zenon DEF Grown, StoreInv, StoredWell
<1> QED BY Zenon, <1>1, OneCall

\* An upload of a known artifact keeps the invariant.
LEMMA PostKeeps ==
    ASSUME StoreInv, NEW c \in Clients, NEW a \in Artifacts, Post(c, a)
    PROVE  StoreInv'
<1> DEFINE k == [at |-> "sent", artifact |-> a]
<1>1. runs' = runs /\ calls' = [calls EXCEPT ![c] = k] /\ told' = told
    BY Zenon DEF Post
<1>2. WellIn(runs, k)
    BY Zenon DEF WellIn
<1> HIDE DEF k
<1> QED BY Zenon, <1>1, <1>2, OneCallSame

\* An answer is a call of its own kind, and true if it says so.
LEMMA ReplyKeeps ==
    ASSUME StoreInv, NEW c \in Clients, calls[c].at \in {"sent", "conflict"},
           NEW status, NEW validated, reply(c, status, validated), told' = told,
           Grown, StoredWell',
           TrueIn(runs', [artifact |-> calls[c].artifact, status |-> status, validated |-> validated])
    PROVE  StoreInv'
<1> DEFINE k == [at |-> "reply", artifact |-> calls[c].artifact,
                 status |-> status, validated |-> validated]
<1>1. calls' = [calls EXCEPT ![c] = k]
    BY Zenon DEF reply
<1>2. calls[c].artifact \in Artifacts
    BY Zenon DEF StoreInv, WellIn
<1>3. WellIn(runs', k)
    BY Zenon, <1>2 DEF WellIn, TrueIn
<1> HIDE DEF k
<1> QED BY Zenon, <1>1, <1>3, OneCall

\* The answer that ends an upload which found or made its run.
LEMMA AnswerKeeps ==
    ASSUME StoreInv, NEW c \in Clients, calls[c].at \in {"sent", "conflict"},
           NEW a, a = calls[c].artifact, Check(a),
           answerStored(c, a, Decision(a)), told' = told, Grown, StoredWell',
           Prefix(a.digest) \in DOMAIN runs', runs'[Prefix(a.digest)] = a
    PROVE  StoreInv'
<1> DEFINE v == Decision(a)
           t(s, d) == [artifact |-> calls[c].artifact, status |-> s, validated |-> d]
<1>1. a.claimed = v
    BY Zenon DEF Check
<1>2. CASE v /\ a.overall # "match"
    <2>1. reply(c, "failed", FALSE)
        BY Zenon, <1>2 DEF answerStored
    <2>2. TrueIn(runs', t("failed", FALSE))
        BY Zenon DEF TrueIn
    <2> QED BY Zenon, <2>1, <2>2, ReplyKeeps
<1>3. CASE ~(v /\ a.overall # "match")
    <2>1. reply(c, "stored", v)
        BY Zenon, <1>3 DEF answerStored
    <2> HIDE DEF v
    <2>2. TrueIn(runs', t("stored", v))
        BY Zenon, <1>1, <1>3 DEF TrueIn
    <2> QED BY Zenon, <2>1, <2>2, ReplyKeeps
<1> QED BY Zenon, <1>2, <1>3

\* Every step of the store and of its clients' requests keeps the invariant.
LEMMA StoreKeeps ==
    ASSUME StoreInv, NEW c \in Clients,
           Refuse(c) \/ Insert(c) \/ Existing(c) \/ StoreFails(c) \/ Answer(c) \/ Lose(c)
    PROVE  StoreInv'
<1> DEFINE a == calls[c].artifact
           id == Prefix(a.digest)
           t(s, d) == [artifact |-> calls[c].artifact, status |-> s, validated |-> d]
<1>1. ASSUME runs' = runs PROVE Grown /\ StoredWell'
    BY Zenon, <1>1 DEF Grown, StoreInv, StoredWell
<1>2. ASSUME NEW s \in {"invalid", "failed"}, NEW d PROVE TrueIn(runs', t(s, d))
    BY Zenon, <1>2 DEF TrueIn
<1>3. CASE Refuse(c)
    BY Zenon, <1>1, <1>2, <1>3, ReplyKeeps DEF Refuse
<1>4. CASE StoreFails(c)
    BY Zenon, <1>1, <1>2, <1>4, ReplyKeeps DEF StoreFails
<1>5. CASE Lose(c)
    <2>1. WellIn(runs, Idle)
        BY Zenon DEF WellIn, Idle
    <2> QED BY Zenon, <1>5, <2>1, OneCallSame DEF Lose
<1>6. CASE Answer(c)
    <2> DEFINE n == [artifact |-> calls[c].artifact, status |-> calls[c].status,
                     validated |-> calls[c].validated]
    <2>1. /\ runs' = runs /\ calls' = [calls EXCEPT ![c] = Idle]
          /\ told' = [told EXCEPT ![c] = told[c] \cup {n}]
        BY Zenon, <1>6 DEF Answer, StoreInv
    <2>2. TrueIn(runs, n)
        BY Zenon, <1>6 DEF Answer, StoreInv, WellIn, TrueIn
    <2> HIDE DEF n
    <2>3. \A d \in Clients : \A u \in told'[d] : TrueIn(runs, u)
        BY Zenon, <2>1, <2>2 DEF StoreInv
    <2>4. \A d \in Clients : WellIn(runs, calls'[d])
        BY Zenon, <2>1 DEF StoreInv, WellIn, Idle
    <2>5. DOMAIN calls' = Clients /\ DOMAIN told' = Clients
        BY Zenon, <2>1 DEF StoreInv
    <2> QED BY Zenon, <1>1, <2>1, <2>3, <2>4, <2>5 DEF StoreInv
<1>7. CASE Insert(c)
    <2>1. calls[c].at = "sent" /\ Check(a) /\ told' = told /\ a \in Artifacts
        BY Zenon, <1>7 DEF Insert, accepts, StoreInv, WellIn
    <2>2. CASE id \in DOMAIN runs
        <3> DEFINE k == [at |-> "conflict", artifact |-> a]
        <3>1. runs' = runs /\ calls' = [calls EXCEPT ![c] = k]
            BY Zenon, <1>7, <2>2 DEF Insert
        <3>2. WellIn(runs, k)
            BY Zenon, <2>1, <2>2 DEF WellIn
        <3> HIDE DEF k
        <3> QED BY Zenon, <2>1, <3>1, <3>2, OneCallSame
    <2>3. CASE id \notin DOMAIN runs
        <3>1. /\ runs' = [i \in DOMAIN runs \cup {id} |-> IF i = id THEN a ELSE runs[i]]
              /\ answerStored(c, a, Decision(a))
            BY Zenon, <1>7, <2>3 DEF Insert
        <3>2. Grown /\ StoredWell' /\ id \in DOMAIN runs' /\ runs'[id] = a
            <4> HIDE DEF a, id
            <4>1. StoredWell
                BY Zenon DEF StoreInv
            <4> QED BY Zenon, <2>1, <2>3, <3>1, <4>1 DEF Grown, StoredWell
        <3> QED BY Zenon, <2>1, <3>1, <3>2, AnswerKeeps
    <2> QED BY Zenon, <2>2, <2>3
<1>8. CASE Existing(c)
    <2>1. /\ calls[c].at = "conflict" /\ Check(a) /\ told' = told /\ runs' = runs
          /\ a \in Artifacts /\ id \in DOMAIN runs
        BY Zenon, <1>8 DEF Existing, StoreInv, WellIn
    <2>2. runs[id] \in Artifacts /\ Check(runs[id])
        BY Zenon, <2>1 DEF StoreInv, StoredWell
    <2>3. CASE runs[id].digest # a.digest
        <3>1. reply(c, "collision", FALSE)
            BY Zenon, <1>8, <2>3 DEF Existing, Get
        <3>2. TrueIn(runs', t("collision", FALSE))
            BY Zenon, <2>1, <2>3 DEF TrueIn
        <3> QED BY Zenon, <1>1, <2>1, <3>1, <3>2, ReplyKeeps
    <2>4. CASE runs[id].digest = a.digest
        <3>1. runs[id] = a
            BY Zenon, <2>1, <2>2, <2>4, DigestAssumption DEF Artifacts
        <3>2. answerStored(c, a, Decision(a))
            BY Zenon, <1>8, <2>4, <3>1 DEF Existing, Get
        <3> QED BY Zenon, <1>1, <2>1, <3>1, <3>2, AnswerKeeps
    <2> QED BY Zenon, <2>3, <2>4
<1> QED BY Zenon, <1>3, <1>4, <1>5, <1>6, <1>7, <1>8

\* What the command seals is one of the artifacts an experiment may seal.
LEMMA SealedOwn ==
    ASSUME CommandInv, stage = "built"
    PROVE  sealed \in Own
<1> DEFINE o == built.artifact.overall
           ok == built.blockers = {}
<1>1. built = Build(scen, dag, U, B, Res)
    BY Zenon DEF CommandInv, Active
<1>2. built.artifact.overall = overall(Res)
    BY Zenon, <1>1 DEF Build
<1>3. overall(Res) \in {"match", "differ", "incomplete"}
    BY Zenon DEF overall, worst
<1>4. sealed = Sealed(<<"experiment", o, ok>>, "v3", TRUE, o, ok, ok)
    BY Zenon DEF sealed
<1>5. o \in {"match", "differ", "incomplete"} /\ ok \in BOOLEAN
    BY Zenon, <1>2, <1>3
<1> HIDE DEF o, ok
<1>6. ASSUME NEW x \in {"match", "differ", "incomplete"}, NEW y \in BOOLEAN
      PROVE  Sealed(<<"experiment", x, y>>, "v3", TRUE, x, y, y) \in Own
    <2> DEFINE art(v, w) == Sealed(<<"experiment", v, w>>, "v3", TRUE, v, w, w)
               V == {"match", "differ", "incomplete"}
    <2>1. Own = UNION {{art(v, w) : w \in BOOLEAN} : v \in V}
        BY Zenon DEF Own
    <2> HIDE DEF art, V
    <2>2. art(x, y) \in {art(x, w) : w \in BOOLEAN}
        BY Zenon
    <2>3. x \in V
        BY Zenon DEF V
    <2>4. art(x, y) \in Own
        BY <2>1, <2>2, <2>3, Zenon
    <2> QED BY Zenon, <2>4 DEF art
<1> QED BY <1>4, <1>5, <1>6, Zenon

\* A client that was told its run is stored finds it there from then on, with
\* the decision it was told, whatever other clients upload and whatever is
\* lost, given only that a verified digest stands for its artifact (Insert in
\* runs/postgres.go, handleCreateRun in api/runs.go).
THEOREM AnsweredStaysStored == Spec => []AnsweredIsStored
<1>1. Init => StoreInv
    <2> SUFFICES ASSUME Init PROVE StoreInv
        BY Zenon
    <2>1. /\ DOMAIN calls = Clients /\ DOMAIN told = Clients /\ DOMAIN runs = {}
          /\ \A c \in Clients : calls[c] = Idle /\ told[c] = {}
        BY Zenon DEF Init, StoreInit
    <2>2. \A store : WellIn(store, Idle)
        BY Zenon DEF WellIn, Idle
    <2> QED BY Zenon, <2>1, <2>2 DEF StoreInv, StoredWell
<1>2. CommandInv /\ StoreInv /\ [Next]_vars => StoreInv'
    <2> SUFFICES ASSUME CommandInv, StoreInv, [Next]_vars PROVE StoreInv'
        BY Zenon
    <2>1. ASSUME UNCHANGED storeVars PROVE StoreInv'
        BY Zenon, <2>1 DEF StoreInv, StoredWell, storeVars
    <2>2. CASE Record
        <3>1. CASE canceled
            BY Zenon, <2>1, <2>2, <3>1 DEF Record
        <3>2. CASE ~canceled
            BY Zenon, <2>2, <3>2, SealedOwn, PostKeeps, PipelineAssumption DEF Record, Artifacts
        <3> QED BY Zenon, <3>1, <3>2
    <2>3. ASSUME NEW c \in Clients, Import(c) PROVE StoreInv'
        BY Zenon, <2>3, PostKeeps DEF Import, Artifacts
    <2>4. CASE Store
        BY Zenon, <2>4, StoreKeeps DEF Store, StoreNext
    <2>5. ASSUME Cancel \/ Base \/ Patch \/ BaseBurst \/ PatchBurst
                 \/ ProbeFault \/ Conclude
                 \/ (\E s \in Scenarios : Begin(s))
                 \/ (\E healthy \in BOOLEAN : ProbeEnv(healthy))
                 \/ (\E verdict \in {"prepared", "differ", "incomplete"} : RunTests(verdict))
          PROVE  UNCHANGED storeVars
        <3>1. \A x, y, z, p, q : Replayed(x, y, z, p, q) => UNCHANGED storeVars
            BY Zenon DEF Replayed
        <3>2. Base \/ Patch \/ BaseBurst \/ PatchBurst => UNCHANGED storeVars
            BY <3>1, Zenon DEF Base, Patch, BaseBurst, PatchBurst
        <3> QED BY <2>5, <3>2, Zenon DEF Begin, Cancel, ProbeFault, Conclude, ProbeEnv, RunTests
    <2>6. CASE UNCHANGED vars
        BY Zenon, <2>1, <2>6 DEF vars
    <2> QED BY Zenon, <2>1, <2>2, <2>3, <2>4, <2>5, <2>6 DEF Next
<1>3. StoreInv => AnsweredIsStored
    BY Zenon DEF StoreInv, TrueIn, AnsweredIsStored
<1> QED BY <1>1, <1>2, <1>3, InitCommand, NextCommand, PTL DEF Spec

-----------------------------------------------------------------------------
(* Which side is the baseline                                              *)

\* Two observations compare alike in either direction.
LEMMA CompareObsSymmetric ==
    ASSUME NEW a, NEW b
    PROVE  compareObs(a, b).verdict = compareObs(b, a).verdict
<1>1. sameBody(a.body, b.body) <=> sameBody(b.body, a.body)
    BY Zenon DEF sameBody
<1> QED BY Zenon, <1>1 DEF compareObs

\* And so do two replays.
LEMMA CompareSymmetric ==
    ASSUME NEW s, NEW t, Len(s) \in Nat, Len(t) \in Nat
    PROVE  Compare(s, t).verdict = Compare(t, s).verdict
<1> PICK n : n = shorter(s, t)
    BY Zenon
<1>1. shorter(t, s) = n
    BY DEF shorter
<1>2. \A i \in 1 .. n : deltas(s, t)[i].verdict = deltas(t, s)[i].verdict
    BY Zenon, <1>1, CompareObsSymmetric DEF deltas
<1>3. {deltas(s, t)[i].verdict : i \in 1 .. n} = {deltas(t, s)[i].verdict : i \in 1 .. n}
    BY Zenon, <1>2
<1>4. worst({deltas(s, t)[i].verdict : i \in 1 .. n}) = worst({deltas(t, s)[i].verdict : i \in 1 .. n})
    BY Zenon, <1>3
<1>5. /\ Compare(s, t).verdict = IF Len(s) # Len(t) THEN "incomplete"
                                 ELSE worst({deltas(s, t)[i].verdict : i \in 1 .. n})
      /\ Compare(t, s).verdict = IF Len(t) # Len(s) THEN "incomplete"
                                 ELSE worst({deltas(t, s)[i].verdict : i \in 1 .. n})
    BY Zenon, <1>1 DEF Compare
<1> QED BY <1>4, <1>5

\* There are samples in either direction or in none.
LEMMA SamplesSymmetric ==
    ASSUME NEW s, NEW t, Len(s[1]) \in Nat, Len(t[1]) \in Nat
    PROVE  hasSamples(Latency(s, t)) <=> hasSamples(Latency(t, s))
<1> PICK n : n = shorter(s[1], t[1])
    BY Zenon
<1>1. shorter(t[1], s[1]) = n /\ n \in Nat
    BY DEF shorter
<1>2. /\ Len(Latency(s, t)) = n /\ Len(Latency(t, s)) = n
      /\ \A i \in 1 .. n : /\ Latency(s, t)[i].base = Summarize(s, i)
                           /\ Latency(s, t)[i].patch = Summarize(t, i)
                           /\ Latency(t, s)[i].base = Summarize(t, i)
                           /\ Latency(t, s)[i].patch = Summarize(s, i)
    BY <1>1 DEF Latency
<1> QED BY Zenon, <1>2 DEF hasSamples

LEMMA BurstSymmetric ==
    ASSUME NEW s, NEW t
    PROVE  compareBurst(s, t) = compareBurst(t, s)
    BY Zenon DEF compareBurst

\* The verdict of a step does not depend on the order of the sides.
LEMMA StepSymmetric ==
    ASSUME NEW s \in StepType, NEW d, NEW e,
           e.healthy = d.healthy /\ e.tests = d.tests /\ e.fault = d.fault,
           e.base = d.patch /\ e.patch = d.base,
           e.baseBurst = d.patchBurst /\ e.patchBurst = d.baseBurst,
           d.base # <<>> => Len(d.base[1]) \in Nat, d.patch # <<>> => Len(d.patch[1]) \in Nat
    PROVE  evalStep(s, e).kind = evalStep(s, d).kind /\ evalStep(s, e).verdict = evalStep(s, d).verdict
<1>1. evalStep(s, e).kind = s.kind /\ evalStep(s, d).kind = s.kind
    BY Zenon, EvalMeans
<1>2. \A k, v : result(k, v).verdict = v
    BY Zenon DEF result
<1>3. behavior(e).verdict = behavior(d).verdict
    <2>1. CASE d.base = <<>> \/ d.patch = <<>>
        BY Zenon, <2>1 DEF behavior
    <2>2. CASE d.base # <<>> /\ d.patch # <<>>
        <3>1. behavior(d).verdict = Compare(d.base[1], d.patch[1]).verdict
            BY Zenon, <2>2 DEF behavior, result
        <3>2. behavior(e).verdict = Compare(d.patch[1], d.base[1]).verdict
            BY Zenon, <2>2 DEF behavior, result
        <3> QED BY Zenon, <2>2, <3>1, <3>2, CompareSymmetric
    <2> QED BY Zenon, <2>1, <2>2
<1>4. latency(e).verdict = latency(d).verdict
    <2>1. CASE d.base = <<>> \/ d.patch = <<>>
        BY Zenon, <2>1 DEF latency
    <2>2. CASE d.base # <<>> /\ d.patch # <<>>
        <3>1. latency(d).verdict = IF hasSamples(Latency(d.base, d.patch)) THEN "samples" ELSE "incomplete"
            BY Zenon, <2>2 DEF latency, result
        <3>2. latency(e).verdict = IF hasSamples(Latency(d.patch, d.base)) THEN "samples" ELSE "incomplete"
            BY Zenon, <2>2 DEF latency, result
        <3> QED BY Zenon, <2>2, <3>1, <3>2, SamplesSymmetric
    <2> QED BY Zenon, <2>1, <2>2
<1>5. concurrency(e) = concurrency(d)
    BY Zenon, BurstSymmetric DEF concurrency
<1>6. s.operator = FALSE /\ s.kind \in Kinds
    BY Zenon DEF StepType
<1>7. s.kind = "fault_status" => evalStep(s, d) = result(s.kind, d.fault) /\ evalStep(s, e) = result(s.kind, e.fault)
    BY Zenon, <1>6 DEF evalStep
<1> QED BY <1>1, <1>3, <1>4, <1>5, <1>6, <1>7, EvalMeans DEF Kinds

\* The overall verdict is made of kinds and verdicts.
LEMMA OverallOf ==
    ASSUME NEW R, NEW S, Len(R) = Len(S),
           \A i \in 1 .. Len(R) : R[i].kind = S[i].kind /\ R[i].verdict = S[i].verdict
    PROVE  overall(R) = overall(S)
<1>1. voting(R) = voting(S)
    BY Zenon DEF voting
<1>2. \A i \in voting(R) : vote(R[i]) = vote(S[i])
    BY Zenon DEF voting, vote
<1>3. {vote(R[i]) : i \in voting(R)} = {vote(S[i]) : i \in voting(S)}
    BY Zenon, <1>1, <1>2
<1>4. worst({vote(R[i]) : i \in voting(R)}) = worst({vote(S[i]) : i \in voting(S)})
    BY Zenon, <1>3
<1>5. (\E i \in 1 .. Len(R) : R[i].kind = "env" /\ R[i].verdict = "incomplete")
        <=> (\E i \in 1 .. Len(S) : S[i].kind = "env" /\ S[i].verdict = "incomplete")
    BY Zenon
<1> QED BY Zenon, <1>1, <1>4, <1>5 DEF overall

\* Which side is called the baseline does not change the verdict of an experiment
\* (overall in plan/run.go, Compare in replay/compare.go, compareBurst in
\* plan/fault.go), whatever was observed.
THEOREM SidesAreSymmetric == Spec => []SidesSymmetric
<1>1. CommandInv => SidesSymmetric
    <2> SUFFICES ASSUME CommandInv, stage = "decide"
                 PROVE  overall(evaluate(dag, swapped(data))) = overall(evaluate(dag, data))
        BY Zenon DEF SidesSymmetric
    <2> DEFINE e == swapped(data)
    <2>1. scen \in Scenarios /\ DOMAIN data = Fields /\ Observed
        BY Zenon DEF CommandInv, Active
    <2>2. /\ e.healthy = data.healthy /\ e.tests = data.tests /\ e.fault = data.fault
          /\ e.base = data.patch /\ e.patch = data.base
          /\ e.baseBurst = data.patchBurst /\ e.patchBurst = data.baseBurst
        BY Zenon, <2>1 DEF swapped, Fields
    <2>3. /\ data.base # <<>> => Len(data.base[1]) \in Nat
          /\ data.patch # <<>> => Len(data.patch[1]) \in Nat
        <3>1. ASSUME NEW Q \in Seq(Replays), Q # <<>>
              PROVE  Len(Q[1]) \in Nat
            <4>1. Q[1] \in Replays
                BY <3>1
            <4>2. Q[1] \in Seq(Obs)
                BY Zenon, <4>1 DEF Replays
            <4> QED BY <4>2
        <3> QED BY Zenon, <3>1, <2>1 DEF Observed
    <2>4. Len(dag) \in Nat /\ \A i \in 1 .. Len(dag) : dag[i] \in StepType
        BY Zenon, <2>1, ResMeans, PipelineAssumption
    <2> HIDE DEF e, dag
    <2>5. \A i \in 1 .. Len(dag) : /\ evalStep(dag[i], e).kind = evalStep(dag[i], data).kind
                                  /\ evalStep(dag[i], e).verdict = evalStep(dag[i], data).verdict
        BY Zenon, <2>2, <2>3, <2>4, StepSymmetric
    <2>6. /\ Len(evaluate(dag, e)) = Len(dag) /\ Len(evaluate(dag, data)) = Len(dag)
          /\ \A i \in 1 .. Len(dag) : /\ evaluate(dag, e)[i] = evalStep(dag[i], e)
                                      /\ evaluate(dag, data)[i] = evalStep(dag[i], data)
        BY <2>4 DEF evaluate
    <2>7. overall(evaluate(dag, e)) = overall(evaluate(dag, data))
        BY <2>5, <2>6, OverallOf
    <2> QED BY Zenon, <2>7 DEF e
<1> QED BY <1>1, InitCommand, NextCommand, PTL DEF Spec


-----------------------------------------------------------------------------
(* The coverage that an artifact reports                                   *)

\* Every plan has the behaviour step.
LEMMA BehaviorPlanned ==
    ASSUME scen.latencyN \in Nat
    PROVE  \E i \in 1 .. Len(dag) : dag[i].kind = "behavior"
<1> DEFINE p == FromImpact(scen.runtime # {})
           q == WithLatencyN(p, scen.latencyN)
           a == <<step("env", TRUE, 0), step("behavior", TRUE, 0), step("latency", TRUE, DefaultLatencyN)>>
<1>1. PICK T, rest : a \in Seq(T) /\ rest \in Seq(T) /\ p = a \o rest
    <2> DEFINE e == step("concurrency", TRUE, DefaultConcurrencyN)
               f == step("fault_status", FALSE, 0)
               T == {a[1], a[2], a[3], e, f}
    <2>1. p = a \o <<e, f>> \/ p = a \o << >>
        BY Zenon DEF FromImpact
    <2>2. a = <<a[1], a[2], a[3]>>
        BY Zenon DEF step
    <2> HIDE DEF a, e, f, p
    <2>3. a[1] \in T /\ a[2] \in T /\ a[3] \in T /\ e \in T /\ f \in T /\ << >> \in Seq(T)
        OBVIOUS
    <2> HIDE DEF T
    <2>4. <<a[1], a[2], a[3]>> \in Seq(T) /\ <<e, f>> \in Seq(T)
        BY Zenon, <2>3, TuplesTyped
    <2> QED BY Zenon, <2>1, <2>2, <2>3, <2>4
<1>2. Len(a) = 3 /\ a[2].kind = "behavior"
    <2>1. \A x, y, z : Len(<<x, y, z>>) = 3 /\ <<x, y, z>>[2] = y
        BY Zenon
    <2>2. step("behavior", TRUE, 0).kind = "behavior"
        BY Zenon DEF step
    <2>3. Len(a) = 3 /\ a[2] = step("behavior", TRUE, 0)
        BY Zenon, <2>1
    <2> QED BY Zenon, <2>2, <2>3
<1> HIDE DEF a, p
<1>3. p \in Seq(T) /\ Len(p) = 3 + Len(rest) /\ p[2] = a[2] /\ Len(rest) \in Nat
    <2>1. /\ a \o rest \in Seq(T) /\ Len(a \o rest) = Len(a) + Len(rest)
          /\ \A i \in 1 .. Len(a) + Len(rest) :
                (a \o rest)[i] = IF i <= Len(a) THEN a[i] ELSE rest[i - Len(a)]
        BY Zenon, <1>1, Concatenated
    <2>2. Len(rest) \in Nat
        BY <1>1
    <2>3. 2 \in 1 .. Len(a) + Len(rest) /\ 2 <= Len(a)
        BY <1>2, <2>2
    <2> QED BY Zenon, <1>1, <1>2, <2>1, <2>2, <2>3
<1>4. Len(p) \in Nat /\ 2 \in 1 .. Len(p) /\ p[2].kind = "behavior"
    BY <1>2, <1>3
<1>5. q[2] = p[2] /\ q = [i \in 1 .. Len(p) |-> q[i]]
    <2> PICK n : n = scen.latencyN
        BY Zenon
    <2>1. q = [i \in 1 .. Len(p) |-> IF p[i].kind = "latency" /\ n >= 1 THEN [p[i] EXCEPT !.n = n] ELSE p[i]]
        BY Zenon DEF WithLatencyN
    <2> HIDE DEF q
    <2>2. q[2] = p[2]
        BY Zenon, <1>4, <2>1
    <2>3. q = [i \in 1 .. Len(p) |-> q[i]]
        BY Zenon, <2>1
    <2> QED BY Zenon, <2>2, <2>3
<1> HIDE DEF q
<1> DEFINE Q == {q[i] : i \in 1 .. Len(p)}
<1>6. q \in [1 .. Len(p) -> Q]
    BY Zenon, <1>5
<1> HIDE DEF Q
<1>7. q \in Seq(Q) /\ Len(q) = Len(p)
    BY <1>4, <1>6
<1>8. ASSUME NEW t PROVE Len(Append(q, t)) = Len(q) + 1 /\ Append(q, t)[2] = q[2]
    <2>1. q \in Seq(Q \cup {t}) /\ t \in Q \cup {t} /\ 2 \in 1 .. Len(q)
        BY <1>4, <1>7
    <2> QED BY <2>1
<1>9. dag = q \/ \E t : dag = Append(q, t)
    BY Zenon DEF dag, WithTests, p, q
<1> HIDE DEF dag
<1>10. Len(dag) \in Nat /\ 2 \in 1 .. Len(dag) /\ dag[2].kind = "behavior"
    BY <1>4, <1>5, <1>7, <1>8, <1>9
<1> QED BY Zenon, <1>10

\* What the first runs met at a request of the workload.
Ran == data.base # <<>> /\ data.patch # <<>>
Both(i) == Ran /\ answered(data.base[1][i]) /\ answered(data.patch[1][i])
Refusal(i) == authStatus(data.base[1][i].status) /\ authStatus(data.patch[1][i].status)

\* A delta tells whether both observations are answers, and refusals.
Tells(d, a, b) ==
    LET both == answered(a) /\ answered(b)
        refusal == authStatus(a.status) /\ authStatus(b.status)
    IN  /\ d.request = a.request
        /\ d.base # 0 /\ d.patch # 0 /\ ~d.rejected <=> both /\ ~refusal
        /\ d.rejected <=> both /\ refusal

\* What the delta of a request tells of it.
LEMMA DeltaMeans ==
    ASSUME NEW a, NEW b, a.request = b.request
    PROVE  Tells(compareObs(a, b), a, b)
<1>1. CASE a.err \/ b.err
    BY Zenon, <1>1 DEF compareObs, answered, Tells
<1>2. CASE ~a.err /\ ~b.err /\ authStatus(a.status) /\ authStatus(b.status)
    <2>1. a.status # 0 /\ b.status # 0
        BY <1>2 DEF authStatus
    <2> QED BY Zenon, <1>2, <2>1 DEF compareObs, answered, Tells
<1>3. CASE ~a.err /\ ~b.err /\ ~(authStatus(a.status) /\ authStatus(b.status))
    BY Zenon, <1>3 DEF compareObs, answered, Tells
<1> QED BY Zenon, <1>1, <1>2, <1>3

\* The deltas of the behaviour step.
LEMMA DeltasMean ==
    ASSUME Len(scen.workload) \in Nat, data.base \in Seq(Replays), data.patch \in Seq(Replays)
    PROVE  LET S == behavior(data).steps
               n == Len(scen.workload)
           IN  \/ ~Ran /\ Len(S) = 0
               \/ /\ Ran /\ Len(S) = n
                  /\ \A i \in 1 .. n :
                        /\ S[i].request = scen.workload[i]
                        /\ S[i].base # 0 /\ S[i].patch # 0 /\ ~S[i].rejected <=> Both(i) /\ ~Refusal(i)
                        /\ S[i].rejected <=> Both(i) /\ Refusal(i)
<1>1. CASE ~Ran
    BY Zenon, <1>1 DEF Ran, behavior, result
<1>2. CASE Ran
    <2> PICK b, p : b = data.base[1] /\ p = data.patch[1]
        BY Zenon
    <2>1. b \in Replays /\ p \in Replays
        BY <1>2 DEF Ran
    <2>2. behavior(data).steps = deltas(b, p)
        BY Zenon, <1>2 DEF Ran, behavior, result, Compare
    <2>3. Len(b) = Len(scen.workload) /\ Len(p) = Len(scen.workload)
        BY Zenon, <2>1 DEF Replays
    <2>4. /\ Len(deltas(b, p)) = Len(scen.workload)
          /\ \A j \in 1 .. Len(scen.workload) : deltas(b, p)[j] = compareObs(b[j], p[j])
        BY <2>3 DEF deltas, shorter
    <2>5. \A i \in 1 .. Len(scen.workload) : b[i].request = scen.workload[i] /\ p[i].request = scen.workload[i]
        BY Zenon, <2>1 DEF Replays
    <2> DEFINE finds(d, i) == /\ d.request = scen.workload[i]
                              /\ d.base # 0 /\ d.patch # 0 /\ ~d.rejected <=> Both(i) /\ ~Refusal(i)
                              /\ d.rejected <=> Both(i) /\ Refusal(i)
    <2>6. ASSUME NEW i \in 1 .. Len(scen.workload)
          PROVE  finds(compareObs(b[i], p[i]), i)
        <3>1. b[i].request = p[i].request /\ b[i].request = scen.workload[i]
            BY Zenon, <2>5
        <3> PICK x, y : x = b[i] /\ y = p[i]
            BY Zenon
        <3>2. Both(i) <=> answered(x) /\ answered(y)
            BY Zenon, <1>2 DEF Both
        <3>3. Refusal(i) <=> authStatus(x.status) /\ authStatus(y.status)
            BY Zenon DEF Refusal
        <3>4. x.request = y.request /\ x.request = scen.workload[i]
            BY Zenon, <3>1
        <3> PICK d : d = compareObs(x, y)
            BY Zenon
        <3>5. Tells(d, x, y)
            BY Zenon, <3>4, DeltaMeans
        <3>6. d.base # 0 /\ d.patch # 0 /\ ~d.rejected <=> Both(i) /\ ~Refusal(i)
            BY Zenon, <3>2, <3>3, <3>5 DEF Tells
        <3>7. d.rejected <=> Both(i) /\ Refusal(i)
            BY Zenon, <3>2, <3>3, <3>5 DEF Tells
        <3>8. d.request = scen.workload[i]
            BY Zenon, <3>4, <3>5 DEF Tells
        <3>9. finds(d, i)
            BY Zenon, <3>6, <3>7, <3>8
        <3> HIDE DEF finds
        <3> QED BY Zenon, <3>9
    <2> HIDE DEF finds
    <2>7. \A i \in 1 .. Len(scen.workload) : finds(behavior(data).steps[i], i)
        BY Zenon, <2>2, <2>4, <2>6
    <2>8. Len(behavior(data).steps) = Len(scen.workload)
        BY Zenon, <2>2, <2>4
    <2> QED BY Zenon, <1>2, <2>7, <2>8 DEF finds
<1> QED BY Zenon, <1>1, <1>2

\* A covered route is one that a request reached that was answered by both sides
\* and not refused by both.
LEMMA CoveredIs ==
    ASSUME scen.latencyN \in Nat, Len(scen.workload) \in Nat,
           data.base \in Seq(Replays), data.patch \in Seq(Replays), NEW route, NEW V
    PROVE  Covered(route, V, Res) <=>
              \E i \in 1 .. Len(scen.workload) :
                 /\ scen.workload[i] \in V /\ RouteMatches(route, scen.workload[i])
                 /\ Both(i) /\ ~Refusal(i)
<1> DEFINE S == behavior(data).steps
           hit(d, r) == d.request = r /\ d.base # 0 /\ d.patch # 0 /\ ~d.rejected
<1>1. Covered(route, V, Res) <=>
         \E r \in V : RouteMatches(route, r) /\ \E i \in 1 .. Len(Res) :
            Res[i].kind = "behavior" /\ \E j \in 1 .. Len(Res[i].steps) : hit(Res[i].steps[j], r)
    BY Zenon DEF Covered
<1>2. \A i \in 1 .. Len(Res) : Res[i].kind = "behavior" => Res[i] = behavior(data)
    BY Zenon, BehaviorIs
<1>3. \E i \in 1 .. Len(Res) : Res[i].kind = "behavior"
    BY Zenon, ResMeans, BehaviorPlanned
<1>4. Covered(route, V, Res) <=>
         \E r \in V : RouteMatches(route, r) /\ \E j \in 1 .. Len(S) : hit(S[j], r)
    <2>1. PICK k \in 1 .. Len(Res) : Res[k].kind = "behavior" /\ Res[k].steps = S
        BY Zenon, <1>2, <1>3
    <2>2. \A i \in 1 .. Len(Res) : Res[i].kind = "behavior" => Res[i].steps = S
        BY Zenon, <1>2
    <2> HIDE DEF S, hit
    <2>3. \A r : (\E i \in 1 .. Len(Res) :
                     Res[i].kind = "behavior" /\ \E j \in 1 .. Len(Res[i].steps) : hit(Res[i].steps[j], r))
                  <=> \E j \in 1 .. Len(S) : hit(S[j], r)
        BY Zenon, <2>1, <2>2
    <2> QED BY Zenon, <1>1, <2>3
<1>5. CASE ~Ran
    <2>1. Len(S) = 0 /\ 1 .. 0 = {}
        BY <1>5, DeltasMean
    <2>2. ~Covered(route, V, Res)
        BY Zenon, <1>4, <2>1
    <2> QED BY Zenon, <1>5, <2>2 DEF Both
<1>6. CASE Ran
    <2>1. /\ Len(S) = Len(scen.workload)
          /\ \A i \in 1 .. Len(S) : \A r : hit(S[i], r) <=> scen.workload[i] = r /\ Both(i) /\ ~Refusal(i)
        BY Zenon, <1>6, DeltasMean
    <2>2. \A r : (\E j \in 1 .. Len(S) : hit(S[j], r))
                    <=> \E i \in 1 .. Len(scen.workload) : scen.workload[i] = r /\ Both(i) /\ ~Refusal(i)
        BY Zenon, <2>1
    <2> HIDE DEF hit, S
    <2> QED BY Zenon, <1>4, <2>2
<1> QED BY Zenon, <1>5, <1>6

\* A refused request is one that both sides refused.
LEMMA RefusedIs ==
    ASSUME scen.latencyN \in Nat, Len(scen.workload) \in Nat,
           data.base \in Seq(Replays), data.patch \in Seq(Replays), NEW r
    PROVE  r \in refused(Res) <=>
              \E i \in 1 .. Len(scen.workload) : scen.workload[i] = r /\ Both(i) /\ Refusal(i)
<1> DEFINE S == behavior(data).steps
<1>1. r \in refused(Res) <=>
         \E i \in 1 .. Len(Res) : Res[i].kind = "behavior" /\ \E j \in 1 .. Len(Res[i].steps) :
            Res[i].steps[j].rejected /\ Res[i].steps[j].request = r
    <2> DEFINE E == UNION {{Res[i].steps[j] : j \in 1 .. Len(Res[i].steps)} : i \in ofKind(Res, "behavior")}
    <2>1. \A e : e \in E <=> \E i \in 1 .. Len(Res) : /\ Res[i].kind = "behavior"
                                                   /\ \E j \in 1 .. Len(Res[i].steps) : e = Res[i].steps[j]
        <3>1. \A e : e \in E <=> \E i \in ofKind(Res, "behavior") : e \in {Res[i].steps[j] : j \in 1 .. Len(Res[i].steps)}
            BY Zenon
        <3>2. \A i : i \in ofKind(Res, "behavior") <=> i \in 1 .. Len(Res) /\ Res[i].kind = "behavior"
            BY Zenon DEF ofKind
        <3> HIDE DEF E
        <3> QED BY SMTT(20), <3>1, <3>2
    <2>2. r \in refused(Res) <=> \E e \in E : e.rejected /\ e.request = r
        BY Zenon DEF refused
    <2> HIDE DEF E
    <2> QED BY <2>1, <2>2
<1>2. \A i \in 1 .. Len(Res) : Res[i].kind = "behavior" => Res[i] = behavior(data)
    BY Zenon, BehaviorIs
<1>3. \E i \in 1 .. Len(Res) : Res[i].kind = "behavior"
    BY Zenon, ResMeans, BehaviorPlanned
<1>4. r \in refused(Res) <=> \E j \in 1 .. Len(S) : S[j].rejected /\ S[j].request = r
    BY Zenon, <1>1, <1>2, <1>3
<1>5. CASE ~Ran
    <2>1. Len(S) = 0 /\ 1 .. 0 = {}
        BY <1>5, DeltasMean
    <2>2. r \notin refused(Res)
        BY Zenon, <1>4, <2>1
    <2> QED BY Zenon, <1>5, <2>2 DEF Both
<1>6. CASE Ran
    <2>1. /\ Len(S) = Len(scen.workload)
          /\ \A i \in 1 .. Len(S) : S[i].rejected /\ S[i].request = r <=> scen.workload[i] = r /\ Both(i) /\ Refusal(i)
        BY Zenon, <1>6, DeltasMean
    <2> HIDE DEF S
    <2> QED BY Zenon, <1>4, <2>1
<1> QED BY Zenon, <1>5, <1>6


\* The blockers that name a missed route are those of the coverage.
LEMMA MissedBlocks ==
    ASSUME NEW in
    PROVE  {b[2] : b \in {x \in Decide(in) : x[1] = "route_missed"}}
              = {t \in in.impacted : ~Covered(t, in.workload, in.results)}
<1>1. \A c, s : block(c, s)[1] = c /\ block(c, s)[2] = s
    BY Zenon DEF block
<1>2. \A x \in revisionBlockers(in) : x[1] # "route_missed"
    <2>1. \A x \in revisionBlockers(in) : \E s : \/ x = block("dirty_baseline", s)
                                                \/ x = block("unverified_revision", s)
                                                \/ x = block("same_target", s)
        BY Zenon DEF revisionBlockers
    <2> QED BY <1>1, <2>1
<1>3. \A x \in targetBlockers(in) \cup verdictBlockers(in) : x[1] # "route_missed"
    <2>1. \A x \in targetBlockers(in) \cup verdictBlockers(in) :
             \E s : x = block("missing_target", s) \/ x = block("same_target", s) \/ x = block("not_match", s)
        BY Zenon DEF targetBlockers, verdictBlockers
    <2> QED BY <1>1, <2>1
<1>8. \A x \in duplicateBlockers(in) \cup changeBlockers(in) : x[1] # "route_missed"
    <2>1. \A x \in duplicateBlockers(in) : \E s : x = block("duplicate_step", s)
        BY Zenon DEF duplicateBlockers
    <2>2. \A x \in changeBlockers(in) : \E s : \/ x = block("unanalyzed_change", s)
                                              \/ x = block("no_function_binding", s)
                                              \/ x = block("no_runtime_route", s)
        BY Zenon DEF changeBlockers
    <2> QED BY <1>1, <2>1, <2>2
<1>4. ASSUME NEW kinds, NEW x \in stepBlockers(kinds, in.results) PROVE x[1] # "route_missed"
    <2>1. \E s : \/ x = block("step_missing", s) \/ x = block("step_failed", s)
                 \/ x = block("latency_n", s) \/ x = block("latency_shift", s)
        <3> DEFINE own(k) == {in.results[i] : i \in ofKind(in.results, k)}
                   rows(k, r) == IF k # "latency" THEN {}
                                 ELSE {b \in {block("latency_n", latencyN(r))} : latencyN(r) < MinLatencyN}
                                      \cup {block("latency_shift", r.latency[i].request) : i \in shifts(r)}
                   ofStep(k) == {b \in {block("step_missing", k)} : own(k) = {}}
                                \cup {b \in {block("step_failed", k)} : \E r \in own(k) : ~stepOK(r)}
                                \cup UNION {rows(k, r) : r \in own(k)}
        <3>1. stepBlockers(kinds, in.results) = UNION {ofStep(k) : k \in kinds}
            BY Zenon DEF stepBlockers
        <3> HIDE DEF ofStep
        <3>2. PICK k \in kinds : x \in ofStep(k)
            BY Zenon, <1>4, <3>1
        <3> HIDE DEF rows, own
        <3>3. x = block("step_missing", k) \/ x = block("step_failed", k) \/ \E r : x \in rows(k, r)
            BY Zenon, <3>2 DEF ofStep
        <3>4. ASSUME NEW r, x \in rows(k, r)
              PROVE  \E s : x = block("latency_n", s) \/ x = block("latency_shift", s)
            BY Zenon, <3>4 DEF rows
        <3> QED BY Zenon, <3>3, <3>4
    <2> QED BY <1>1, <2>1
<1>5. \A x : x \in Decide(in) /\ x[1] = "route_missed" <=> x \in coverageBlockers(in)
    <2>1. \A x \in coverageBlockers(in) : x[1] = "route_missed"
        BY ZenonT(30), <1>1 DEF coverageBlockers
    <2> QED BY Zenon, <1>2, <1>3, <1>4, <1>8, <2>1 DEF Decide
<1>6. {b[2] : b \in coverageBlockers(in)} = {t \in in.impacted : ~Covered(t, in.workload, in.results)}
    BY <1>1 DEF coverageBlockers
<1>7. {x \in Decide(in) : x[1] = "route_missed"} = coverageBlockers(in)
    BY Zenon, <1>5
<1> QED BY Zenon, <1>6, <1>7

Requested == {scen.workload[i] : i \in 1 .. Len(scen.workload)}

\* What Build makes of the coverage.
LEMMA BuiltMeans ==
    LET b == Build(scen, dag, U, B, Res)
    IN  /\ b.artifact.coverage = coverageOf(scen.runtime, Requested, Res)
        /\ \E in : /\ b.blockers = Decide(in) /\ b.basis = coverageBasis(in)
                   /\ in.results = Res /\ in.workload = Requested
                   /\ in.impacted = routesOf(scen.runtime)
                   /\ in.attributions = coverageOf(scen.runtime, Requested, Res).attributions
<1> DEFINE a == [baselineRev |-> scen.baselineRev, patchRev |-> scen.patchRev,
                 baseline |-> scen.baseline, patch |-> scen.patch, plan |-> dag, results |-> Res,
                 overall |-> overall(Res), workload |-> Requested, unanalyzed |-> U, bound |-> B,
                 coverage |-> coverageOf(scen.runtime, Requested, Res)]
<1>1. /\ Build(scen, dag, U, B, Res).artifact = a
      /\ Build(scen, dag, U, B, Res).blockers = Decide(inputOf(a))
      /\ Build(scen, dag, U, B, Res).basis = coverageBasis(inputOf(a))
    BY Zenon DEF Build, Requested
<1>2. coverageOf(scen.runtime, Requested, Res).impacted = routesOf(scen.runtime)
    BY Zenon DEF coverageOf
<1>3. /\ inputOf(a).results = Res /\ inputOf(a).workload = Requested
      /\ inputOf(a).impacted = coverageOf(scen.runtime, Requested, Res).impacted
      /\ inputOf(a).attributions = coverageOf(scen.runtime, Requested, Res).attributions
      /\ a.coverage = coverageOf(scen.runtime, Requested, Res)
    BY Zenon DEF inputOf
<1> HIDE DEF a
<1> QED BY Zenon, <1>1, <1>2, <1>3

\* Coverage that is called observed rests on no route known by a caller alone.
LEMMA BasisMeans ==
    ASSUME NEW in, NEW runtime, coverageBasis(in) = "observed",
           in.attributions = {[route |-> f.route, provenance |-> f.provenance] :
                                f \in {g \in runtime : g.route # NoRoute}},
           NEW r \in in.impacted, r \in routesOf(runtime), Covered(r, in.workload, in.results)
    PROVE  \E f \in runtime : f.route = r /\ f.provenance # "trace_entry_caller"
<1> DEFINE from == {a.provenance : a \in {b \in in.attributions : b.route = r}}
<1>1. from \cap {"trace_entry", "code_attrs"} # {} \/ "trace_entry_caller" \notin from
    BY Zenon DEF coverageBasis
<1>2. \A p : p \in from <=> \E f \in runtime : f.route # NoRoute /\ f.route = r /\ f.provenance = p
    <2> DEFINE at(f) == [route |-> f.route, provenance |-> f.provenance]
    <2>1. \A f : at(f).route = f.route /\ at(f).provenance = f.provenance
        BY Zenon
    <2> HIDE DEF at
    <2>2. in.attributions = {at(f) : f \in {g \in runtime : g.route # NoRoute}}
        BY Zenon DEF at
    <2>3. \A a : a \in in.attributions <=> \E f \in runtime : f.route # NoRoute /\ a = at(f)
        BY Zenon, <2>2
    <2>4. \A p : p \in from <=> \E a \in in.attributions : a.route = r /\ a.provenance = p
        BY Zenon
    <2> HIDE DEF from
    <2> QED BY SMTT(20), <2>1, <2>3, <2>4
<1>3. PICK f \in runtime : f.route = r /\ r # NoRoute
    BY Zenon DEF routesOf
<1> HIDE DEF from
<1>4. CASE "trace_entry_caller" \notin from
    <2>1. f.provenance \in from
        BY Zenon, <1>2, <1>3
    <2> QED BY Zenon, <1>3, <1>4, <2>1
<1>5. CASE from \cap {"trace_entry", "code_attrs"} # {}
    <2>1. PICK p \in from : p \in {"trace_entry", "code_attrs"}
        BY Zenon, <1>5
    <2>2. p # "trace_entry_caller"
        BY Zenon, <2>1
    <2> QED BY Zenon, <1>2, <2>1, <2>2
<1> QED BY Zenon, <1>1, <1>4, <1>5

\* The coverage that an artifact reports is what the first replays showed, and agrees
\* with the blockers of its decision (coverageOf in evidence/coverage.go against
\* coverageBlockers in validate/decide.go), for every workload and every answer.
THEOREM CoverageIsObserved == Spec => []CoverageAgrees
<1>1. ASSUME CommandInv, stage = "built" PROVE CoverageAgrees
    <2> DEFINE c == coverageOf(scen.runtime, Requested, Res)
               n == Len(scen.workload)
               at(route) == {i \in 1 .. n : RouteMatches(route, scen.workload[i])}
    <2>1. /\ scen \in Scenarios /\ built = Build(scen, dag, U, B, Res)
          /\ data.base \in Seq(Replays) /\ data.patch \in Seq(Replays)
        BY Zenon, <1>1 DEF CommandInv, Active, Observed
    <2>2. scen.latencyN \in Nat /\ Len(scen.workload) \in Nat
        BY Zenon, <2>1, PipelineAssumption
    <2>3. built.artifact.coverage = c
        BY Zenon, <2>1, BuiltMeans
    <2>4. PICK in : /\ built.blockers = Decide(in) /\ built.basis = coverageBasis(in)
                    /\ in.results = Res /\ in.workload = Requested
                    /\ in.impacted = routesOf(scen.runtime)
                    /\ in.attributions = c.attributions
        BY Zenon, <2>1, BuiltMeans
    <2>5. \A route : Covered(route, Requested, Res) <=> \E i \in at(route) : Both(i) /\ ~Refusal(i)
        BY Zenon, <2>1, <2>2, CoveredIs DEF Requested
    <2>6. \A route : (\E r \in {x \in Requested : RouteMatches(route, x)} : Covered(route, {r}, Res))
                        <=> Covered(route, Requested, Res)
        BY Zenon DEF Covered
    <2>7. \A route : {x \in Requested : RouteMatches(route, x)} \cap refused(Res) # {}
                        <=> \E i \in at(route) : Both(i) /\ Refusal(i)
        <3>1. \A x : x \in refused(Res) <=> \E i \in 1 .. n : scen.workload[i] = x /\ Both(i) /\ Refusal(i)
            BY Zenon, <2>1, <2>2, RefusedIs
        <3> QED BY Zenon, <3>1 DEF Requested
    <2> DEFINE covered(route) == Covered(route, Requested, Res)
    <2>8. /\ c.impacted = routesOf(scen.runtime)
          /\ c.exercised = {route \in c.impacted : covered(route)}
          /\ c.missed = {route \in c.impacted : ~covered(route)}
          /\ c.rejected = {route \in c.missed : \E i \in at(route) : Both(i) /\ Refusal(i)}
          /\ c.attributions = {[route |-> f.route, provenance |-> f.provenance] :
                                 f \in {g \in scen.runtime : g.route # NoRoute}}
        BY Zenon, <2>6, <2>7 DEF coverageOf
    <2> HIDE DEF c, at, covered
    <2>9. c.exercised = {r \in c.impacted : \E i \in at(r) : Both(i) /\ ~Refusal(i)}
        BY Zenon, <2>5, <2>8 DEF covered
    <2>10. c.rejected = {r \in c.impacted \ c.exercised : \E i \in at(r) : Both(i)}
        <3>1. \A r : r \in c.missed <=> r \in c.impacted \ c.exercised
            BY Zenon, <2>8
        <3>2. \A r \in c.missed : (\E i \in at(r) : Both(i) /\ Refusal(i)) <=> \E i \in at(r) : Both(i)
            BY Zenon, <2>9, <3>1
        <3> QED BY Zenon, <2>8, <3>1, <3>2
    <2>11. ASSUME built.basis = "observed", NEW r \in c.exercised
           PROVE  \E f \in scen.runtime : f.route = r /\ f.provenance # "trace_entry_caller"
        <3>1. r \in in.impacted /\ r \in routesOf(scen.runtime) /\ Covered(r, in.workload, in.results)
            BY Zenon, <2>4, <2>8, <2>11 DEF covered
        <3>2. /\ coverageBasis(in) = "observed"
              /\ in.attributions = {[route |-> f.route, provenance |-> f.provenance] :
                                      f \in {g \in scen.runtime : g.route # NoRoute}}
            BY Zenon, <2>4, <2>8, <2>11
        <3> QED BY <3>1, <3>2, BasisMeans
    <2>12. c.missed = {b[2] : b \in {x \in built.blockers : x[1] = "route_missed"}}
        BY Zenon, <2>4, <2>8, MissedBlocks DEF covered
    <2> QED BY Zenon, <2>3, <2>9, <2>10, <2>11, <2>12 DEF CoverageAgrees, Both, Ran, Refusal, at
<1>2. CommandInv => CoverageAgrees
    BY Zenon, <1>1 DEF CoverageAgrees
<1> QED BY <1>2, InitCommand, NextCommand, PTL DEF Spec

=============================================================================
