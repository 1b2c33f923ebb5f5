---------------------------- MODULE MCPipeline ----------------------------
(***************************************************************************)
(* An instance of Pipeline: two requests, changes that are bound, partly   *)
(* bound or not, impacted routes of which the workload reaches all, one or *)
(* none, built and declared revisions, and artifacts to import: a copy of  *)
(* the experiment's, one whose id collides with it, one of an older schema *)
(* and one whose claim the current policy does not derive.                 *)
(***************************************************************************)
EXTENDS Pipeline

Body(stable, volatile) == [json |-> TRUE, stable |-> stable, volatile |-> volatile]

MCNormal == [err |-> FALSE, status |-> 200, body |-> Body("a", 1), took |-> 1]

MCAnswers ==
    {MCNormal, [MCNormal EXCEPT !.err = TRUE], [MCNormal EXCEPT !.status = 401],
     [MCNormal EXCEPT !.status = 500], [MCNormal EXCEPT !.body = Body("b", 1)],
     [MCNormal EXCEPT !.body = Body("a", 2)], [MCNormal EXCEPT !.took = 9]}

Request(method, path) == [method |-> method, path |-> path]

user == Request("GET", <<"users", "1">>)
list == Request("GET", <<"list">>)
userRoute == Request("GET", <<"users", "{id}">>)
pay == Request("POST", <<"pay">>)

Found(route, provenance) == [route |-> route, provenance |-> provenance]

Rev(tree, source) == [tree |-> tree, source |-> source, dirty |-> FALSE]

Change(path, lines) == [path |-> path, binary |-> FALSE, lines |-> lines]

\* A function, and a method of an interface after it.
MCFuncs ==
    {[id |-> "Charge", nth |-> 1, file |-> "pay.go", name |-> "Charge", line |-> 1, end |-> 2],
     [id |-> "Gate.Pay", nth |-> 2, file |-> "pay.go", name |-> "Pay", line |-> 4, end |-> 0]}

good == [diff |-> {Change("pay.go", {1, 5}), Change("README.md", {1})},
         runtime |-> {Found(userRoute, "trace_entry"), Found(list, "trace_entry_caller")},
         workload |-> <<user, list>>, latencyN |-> 0, tests |-> TRUE,
         baselineRev |-> Rev("t1", "built"), patchRev |-> Rev("t2", "built"),
         baseline |-> "b", patch |-> "p"]

MCScenarios ==
    {good,
     [good EXCEPT !.tests = FALSE, !.workload = <<list>>,
                  !.runtime = {Found(list, "code_attrs"), Found(pay, "trace_entry")}],
     [good EXCEPT !.tests = FALSE, !.latencyN = 1, !.workload = <<list>>],
     [good EXCEPT !.tests = FALSE, !.diff = {Change("pay.go", {1, 3})}, !.workload = <<user>>,
                  !.runtime = {Found(userRoute, "trace_entry")}],
     [good EXCEPT !.runtime = {Found(NoRoute, "code_attrs")}, !.workload = <<list>>],
     [good EXCEPT !.runtime = {}, !.workload = <<list>>],
     [good EXCEPT !.patchRev = Rev("t1", "built"), !.workload = <<user>>, !.tests = FALSE,
                  !.runtime = {Found(userRoute, "trace_entry")}],
     [good EXCEPT !.patchRev = Rev("t2", "declared"), !.workload = <<user>>, !.patch = "b",
                  !.runtime = {Found(userRoute, "trace_entry")}],
     [good EXCEPT !.workload = <<list>>, !.latencyN = 3],
     [good EXCEPT !.workload = <<>>]}

MCPrefix(digest) == digest[1]

MCImports ==
    {Sealed(<<"experiment", "match", TRUE>>, "v3", TRUE, "match", TRUE, TRUE),
     Sealed(<<"experiment", "other", FALSE>>, "v3", TRUE, "differ", FALSE, FALSE),
     Sealed(<<"old", "match", TRUE>>, "v1", TRUE, "match", TRUE, FALSE),
     Sealed(<<"skewed", "match", TRUE>>, "v3", TRUE, "match", TRUE, FALSE)}
=============================================================================
