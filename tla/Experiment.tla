----------------------------- MODULE Experiment -----------------------------
(***************************************************************************)
(* The commands that test a change: aquila experiment (RunExperiment), run  *)
(* (RunWorkflow) and env (RunEnv).  One process at a time, which may be     *)
(* killed at any step; its context ends with the command's timeout.  A      *)
(* command either builds the pair from the repository ("pair"), or is given *)
(* two gateways ("urls"), or only prepares the pair ("env").  The diff is   *)
(* the worktree's, or given: a pair of trees, from and to.                  *)
(*                                                                          *)
(* Any git or file operation may fail, and fails once the context has       *)
(* ended.  Analysis, plan and workload (analyze) have no state here, nor    *)
(* the replay (execute).                                                    *)
(***************************************************************************)
EXTENDS Pair

CONSTANT MaxCommands   \* bound: commands run

VARIABLES x,         \* the process
          late,      \* its context has ended
          commands,  \* commands started
          evidence   \* the artifacts written

vars == <<gitVars, pairVars, x, late, commands, evidence>>
procVars == <<late, commands, evidence>>

NoDiff == <<>>
Fresh(mode, raw, pc) ==
  [pc |-> pc, mode |-> mode, raw |-> raw, base |-> <<>>, patch |-> <<>>, diff |-> raw,
   built |-> FALSE, upped |-> FALSE, down |-> "none"]

Init ==
  /\ GitInit /\ PairInit
  /\ x = Fresh("none", NoDiff, "ended")
  /\ late = FALSE /\ commands = 0 /\ evidence = {}

to(pc) == x' = [x EXCEPT !.pc = pc]
id == idOf(x.base, x.patch)
quietGit == UNCHANGED gitVars

-----------------------------------------------------------------------------
(* Starting a command. *)

Begin(mode, raw, pc) ==
  /\ x.pc = "ended" /\ commands < MaxCommands
  /\ x' = Fresh(mode, raw, pc) /\ late' = FALSE /\ commands' = commands + 1
  /\ UNCHANGED <<pairVars, evidence>>

\* readDiff: a diff that is given, or none, for the worktree's.  A command is modelled from
\* its return on: the read of a diff on standard input has no timeout.
readDiff == {NoDiff} \cup {<<tree(head), t>> : t \in Trees \ {tree(head)}}

RunEnv == \E raw \in readDiff : Begin("env", raw, "head") /\ quietGit

\* With two gateways a diff that is given is used as it is.
RunExperiment ==
  /\ \E raw \in readDiff :
       \/ Begin("pair", raw, "head")
       \/ raw = NoDiff /\ Begin("urls", raw, "head")
       \/ raw # NoDiff /\ Begin("urls", raw, "analyze")
  /\ quietGit

\* RunWorkflow: the worktree's diff is given to the experiment, with -apply after a
\* candidate was written onto the tree.
RunWorkflow ==
  /\ worktree # tree(head)
  /\ Begin("pair", <<tree(head), worktree>>, "head")
  /\ worktree' \in Trees
  /\ UNCHANGED <<head, objects, pins, edits>>

-----------------------------------------------------------------------------
(* captureBuild, and resolveDiff's reading of the worktree. *)

ReadHead ==
  /\ x.pc = "head" /\ ~late
  /\ x' = [x EXCEPT !.base = head, !.pc = "snap"]
  /\ quietGit /\ UNCHANGED <<pairVars, procVars>>

\* SnapshotWorktreeAt, or SnapshotDiffAt if the diff applies to the baseline.
Snapshot ==
  /\ x.pc = "snap" /\ ~late
  /\ x.raw # NoDiff => x.raw[1] = tree(x.base)
  /\ LET c == snapshot(x.base, IF x.raw = NoDiff THEN worktree ELSE x.raw[2])
     IN  x' = [x EXCEPT !.patch = c, !.pc = "diff"] /\ AddsCommit(c)
  /\ UNCHANGED <<head, worktree, pins, edits, pairVars, procVars>>

\* Mutant: the diff is read from the worktree again.
DiffWorktree ==
  /\ x.pc = "diff" /\ ~late /\ tree(x.base) # worktree
  /\ x' = [x EXCEPT !.diff = <<tree(x.base), worktree>>,
                    !.pc = IF x.mode = "urls" THEN "analyze" ELSE "pinBase"]
  /\ quietGit /\ UNCHANGED <<pairVars, procVars>>

\* DiffTrees between the two commits; an empty diff is an error.
DiffTrees ==
  /\ x.pc = "diff" /\ ~late /\ tree(x.base) # tree(x.patch)
  /\ x' = [x EXCEPT !.diff = <<tree(x.base), tree(x.patch)>>,
                    !.pc = IF x.mode = "urls" THEN "analyze" ELSE "pinBase"]
  /\ quietGit /\ UNCHANGED <<pairVars, procVars>>

\* With two gateways a snapshot that is refused falls back on the plain diff.
PlainDiff ==
  /\ x.mode = "urls" /\ x.pc \in {"head", "snap", "diff"} /\ ~late /\ worktree # tree(head)
  /\ x' = [x EXCEPT !.diff = <<tree(head), worktree>>, !.pc = "analyze"]
  /\ quietGit /\ UNCHANGED <<pairVars, procVars>>

PinBase ==
  /\ x.pc = "pinBase" /\ ~late
  /\ Pin(x.base) /\ to("pinPatch")
  /\ UNCHANGED <<head, worktree, objects, edits, pairVars, procVars>>

PinPatch ==
  /\ x.pc = "pinPatch" /\ ~late
  /\ Pin(x.patch) /\ to(IF x.mode = "env" THEN "prepare" ELSE "analyze")
  /\ UNCHANGED <<head, worktree, objects, edits, pairVars, procVars>>

Analyze ==
  /\ x.pc = "analyze" /\ ~late
  /\ to(IF x.mode = "urls" THEN "declare" ELSE "prepare")
  /\ quietGit /\ UNCHANGED <<pairVars, procVars>>

\* declaredRevisions: HEAD and the worktree once more; an error is only printed.
Declare ==
  /\ x.pc = "declare"
  /\ \/ /\ ~late /\ x' = [x EXCEPT !.base = head, !.patch = snapshot(head, worktree), !.pc = "execute"]
        /\ AddsCommit(snapshot(head, worktree))
     \/ /\ x' = [x EXCEPT !.base = <<>>, !.patch = <<>>, !.pc = "execute"]
        /\ UNCHANGED objects
  /\ UNCHANGED <<head, worktree, pins, edits, pairVars, procVars>>

\* A snapshot is refused for attributes or settings that change bytes, for entries that
\* are no plain files, for its size; git fails; the context has ended.
SnapshotRefused ==
  /\ x.pc \in {"snap", "diff"} /\ to("ended")
  /\ quietGit /\ UNCHANGED <<pairVars, procVars>>

Fails ==
  /\ x.pc \in {"head", "pinBase", "pinPatch", "analyze", "prepare"} /\ to("ended")
  /\ quietGit /\ UNCHANGED <<pairVars, procVars>>

-----------------------------------------------------------------------------
(* The pair: Prepare, Up, the experiment, Down. *)

\* RunEnv does not replace a directory that is there.
Prepare ==
  /\ x.pc = "prepare" /\ ~late
  /\ x.mode = "env" => id \notin DOMAIN roots
  /\ \E stuck \in SUBSET Roles : replaceRoot(id, stuck)
  /\ to("baseline")
  /\ quietGit /\ UNCHANGED procVars

Fill(role, next) ==
  /\ x.pc = role /\ ~late
  /\ Materialize(id, role)
  /\ to(IF roots[id][role] = "none" THEN role ELSE next)
  /\ quietGit /\ UNCHANGED <<projects, procVars>>

\* The manifest is written last.
Manifest ==
  /\ x.pc = "manifest"
  /\ roots' = [roots EXCEPT ![id].manifest = TRUE]
  /\ to(IF x.mode = "env" THEN "ended" ELSE "ports")
  /\ quietGit /\ UNCHANGED <<projects, procVars>>

\* Prepare's deferred removal of a directory it could not complete.
PrepareFails ==
  /\ x.pc \in Roles \cup {"manifest"}
  /\ roots' = Without(id) /\ to("ended")
  /\ quietGit /\ UNCHANGED <<projects, procVars>>

\* Mutant: the pair is stopped only by a command that could start it.
AbortQuietly == to("ended")

\* An error after Prepare: the deferred stopPair comes next.
Abort == to("stop")

Ports ==
  /\ x.pc = "ports"
  /\ \/ portsFree /\ ~late /\ to("upBaseline")
     \/ (late \/ ~portsFree) /\ Abort
  /\ quietGit /\ UNCHANGED <<pairVars, procVars>>

\* upSide of the baseline: compose, then waitHealthy polls until the gateway answers.
UpBaseline ==
  /\ x.pc = "upBaseline"
  /\ \/ ~late /\ composeUp(id, "baseline") /\ x' = [x EXCEPT !.upped = TRUE, !.pc = "waitBaseline"]
     \/ projects' \in composeUpFails(id, "baseline") /\ x' = [x EXCEPT !.upped = TRUE, !.pc = "stop"]
  /\ quietGit /\ UNCHANGED <<roots, procVars>>

UpPatch ==
  /\ x.pc = "upPatch"
  /\ \/ ~late /\ composeUp(id, "patch") /\ to("waitPatch")
     \/ projects' \in composeUpFails(id, "patch") /\ to("fail")
  /\ quietGit /\ UNCHANGED <<roots, procVars>>

\* Up's fail after the patch: the baseline is stopped, the failing side is not.  Neither
\* the command's context nor a timeout ends this call of docker.
fail ==
  /\ x.pc = "fail" /\ Abort
  /\ \E stuck \in SUBSET {"baseline"} : projects' = downSides(projects, id, {"baseline"}, stuck)
  /\ quietGit /\ UNCHANGED <<roots, procVars>>

Healthy ==
  /\ \/ x.pc = "waitBaseline" /\ to("upPatch")
     \/ x.pc = "waitPatch" /\ x' = [x EXCEPT !.built = TRUE, !.pc = "execute"]
  /\ quietGit /\ UNCHANGED <<pairVars, procVars>>

\* Mutant: the poll does not look at the context.
UnhealthyNever == FALSE /\ UNCHANGED vars

\* The context ends first.
Unhealthy ==
  /\ late
  /\ \/ x.pc = "waitBaseline" /\ Abort
     \/ x.pc = "waitPatch" /\ to("fail")
  /\ quietGit /\ UNCHANGED <<pairVars, procVars>>

\* Execute and the artifact, or an error of either.
Execute ==
  /\ x.pc = "execute"
  /\ \/ evidence' = evidence \cup {[base |-> x.base, patch |-> x.patch, diff |-> x.diff, built |-> x.built]}
     \/ UNCHANGED evidence
  /\ to(IF x.mode = "urls" THEN "ended" ELSE "stop")
  /\ quietGit /\ UNCHANGED <<pairVars, late, commands>>

\* stopPair, in a context of its own: both sides, and the first error is printed.
Stop ==
  /\ x.pc = "stop"
  /\ \E stuck \in SUBSET Roles :
       /\ projects' = downSides(projects, id, Roles, stuck)
       /\ x' = [x EXCEPT !.pc = "ended", !.down = IF stuck = {} THEN "ok" ELSE "failed"]
  /\ quietGit /\ UNCHANGED <<roots, procVars>>

-----------------------------------------------------------------------------
running == x.pc # "ended"

Timeout == running /\ ~late /\ late' = TRUE /\ UNCHANGED <<gitVars, pairVars, x, commands, evidence>>

\* The process is killed, an interrupt included: no deferred call is made.
Kill ==
  /\ running
  /\ x' = Fresh("none", NoDiff, "ended") /\ late' = FALSE
  /\ UNCHANGED <<gitVars, pairVars, commands, evidence>>

Others ==
  /\ Developer \/ (~running /\ Gc)
  /\ UNCHANGED <<pairVars, x, procVars>>

Works ==
  \/ ReadHead \/ Snapshot \/ DiffTrees \/ PlainDiff \/ PinBase \/ PinPatch \/ Analyze \/ Declare
  \/ SnapshotRefused \/ Fails \/ Prepare \/ Fill("baseline", "patch") \/ Fill("patch", "manifest") \/ Manifest
  \/ PrepareFails \/ Ports \/ UpBaseline \/ UpPatch \/ Unhealthy
  \/ Execute \/ Stop

Next ==
  RunExperiment \/ RunEnv \/ RunWorkflow \/ Works \/ Healthy \/ fail \/ Timeout \/ Kill \/ Others

\* The process runs on unless it polls, and its context has a timeout: git and docker are
\* killed when it ends, and Down has a timeout of its own.  Neither that a gateway answers
\* nor that docker returns to fail is assumed.
Spec == Init /\ [][Next]_vars /\ WF_vars(Works) /\ WF_vars(Timeout)

-----------------------------------------------------------------------------
(* Properties. *)

\* A command that ran docker compose up leaves none of its pair's containers running,
\* or has printed that it could not stop them: a side that failed to come up, a gateway
\* that never answered and a timeout included (Up's fail leaves out the failing side).
NothingLeft ==
  x.pc = "ended" /\ x.upped => x.down = "failed" \/ \A p \in projects : p.id # id

\* While an experiment runs whose revisions are said to be built, each gateway's port is
\* served by containers built from exactly the recorded tree, whatever earlier commands
\* left behind and whatever the developer did since.
ServedIsRecorded ==
  x.pc = "execute" /\ x.built =>
    \A role \in Roles : {p.tree : p \in {q \in projects : q.role = role /\ q.bound}} = {id[role]}

\* Evidence with built revisions rests on the analysis of the diff between the two trees
\* that were built, though the worktree and HEAD move while the command runs.
AnalysedIsBuilt == \A e \in evidence : e.built => e.diff = <<tree(e.base), tree(e.patch)>>

\* The patch tree of evidence that says built stays in the repository, after amends,
\* garbage collections and pins of later commands.
PatchKept == \A e \in evidence : e.built => \E c \in objects : tree(c) = tree(e.patch)

\* Every command ends, even if a gateway never answers, unless docker hangs in the one
\* call that has no timeout, in Up's fail (pair/compose.go:46-49).
Ends == []<>(x.pc # "fail") => (running ~> ~running)

=============================================================================
