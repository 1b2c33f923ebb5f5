-------------------------- MODULE ExperimentProofs --------------------------
(***************************************************************************)
(* The commands that test a change, for any trees, any number of commands,  *)
(* edits and commits, and any failure or kill: what they leave running,     *)
(* what the gateways serve while they measure, and what evidence that says  *)
(* "built" rests on.                                                        *)
(***************************************************************************)
EXTENDS Experiment, TLAPS

Entry == [tree : Trees, author : {"developer", "aquila"}]
Histories == Seq(Entry)
writer(c) == c[Len(c)].author
Commits == Histories \ {<<>>}
Diffs == {NoDiff} \cup (Trees \X Trees)

Early == {"head", "snap", "diff"}
Pinning == {"pinBase", "pinPatch"}
Filling == {"prepare", "baseline", "patch", "manifest"}
Upping == {"ports", "upBaseline", "waitBaseline", "upPatch", "waitPatch", "fail"}
Pcs == {"ended", "analyze", "declare", "execute", "stop"} \cup Early \cup Pinning \cup Filling \cup Upping

Process ==
  [pc : Pcs, mode : {"none", "env", "pair", "urls"}, raw : Diffs, base : Histories,
   patch : Histories, diff : Diffs, built : BOOLEAN, upped : BOOLEAN, down : {"none", "ok", "failed"}]

-----------------------------------------------------------------------------
(* The inductive invariant *)

\* The repository: HEAD is the developer's, and no ref names a commit that is not there.
RepoOK ==
  /\ head \in Commits /\ writer(head) = "developer"
  /\ worktree \in Trees
  /\ objects \subseteq Commits
  /\ head \in objects /\ pins \subseteq objects

\* The two commits a process has read or made are there while it runs.
Based == x.pc \in {"snap", "diff"} \/ (x.mode # "urls" /\ x.pc \notin {"ended", "head"})
Patched == x.pc = "diff" \/ (x.mode # "urls" /\ x.pc \notin {"ended", "head", "snap"})
CommitsOK ==
  /\ Based => x.base \in objects
  /\ Patched => x.patch \in objects /\ writer(x.patch) = "aquila"

\* With a pair, the diff is the one between them from DiffTrees on, and the patch is
\* pinned from PinPatch on.
pinned(t) == \E p \in pins : tree(p) = t
DiffOK ==
  /\ x.mode # "urls" /\ x.pc \notin {"ended"} \cup Early => x.diff = <<tree(x.base), tree(x.patch)>>
  /\ x.mode # "urls" /\ x.pc \notin {"ended"} \cup Early \cup Pinning => pinned(tree(x.patch))

\* Gateways that are given are neither built nor started.
FlagsOK ==
  /\ x.mode = "urls" => x.pc \in {"ended", "analyze", "declare", "execute"} \cup Early
  /\ x.pc = "declare" => x.mode = "urls"
  /\ x.mode = "urls" => ~x.built /\ ~x.upped
  /\ x.built => x.pc \in {"execute", "stop", "ended"}
  /\ x.upped => x.pc \in {"waitBaseline", "upPatch", "waitPatch", "fail", "execute", "stop", "ended"}

\* The pair's directory holds the two trees from Materialize on.
Baselined == x.pc \in {"patch", "manifest"} \cup Upping
Entries == {"baseline", "patch", "manifest"}
RootsOK ==
  /\ \A d \in DOMAIN roots : DOMAIN roots[d] = Entries
  /\ x.pc \in Roles \cup {"manifest"} \cup Upping => id \in DOMAIN roots
  /\ Baselined => roots[id]["baseline"] = tree(x.base)
  /\ Baselined /\ x.pc # "patch" => roots[id]["patch"] = tree(x.patch)

\* At most one project has a gateway's port, and it was built from the recorded tree.
portsOK(ps) ==
  /\ \A p \in ps : p.role \in Roles /\ p.bound \in BOOLEAN
  /\ \A p, q \in ps : p.bound /\ q.bound /\ p.role = q.role => p = q
serves(role, t) == \E p \in projects : p.role = role /\ p.bound /\ p.tree = t
ProjectsOK ==
  /\ portsOK(projects)
  /\ x.pc \in {"waitBaseline", "upPatch", "waitPatch"} \/ (x.pc = "execute" /\ x.built) =>
       serves("baseline", tree(x.base))
  /\ x.pc = "waitPatch" \/ (x.pc = "execute" /\ x.built) => serves("patch", tree(x.patch))

EvidenceOK ==
  \A e \in evidence : e.built => e.diff = <<tree(e.base), tree(e.patch)>> /\ pinned(tree(e.patch))

ExpInv ==
  /\ x \in Process
  /\ RepoOK /\ CommitsOK /\ DiffOK /\ FlagsOK /\ RootsOK /\ ProjectsOK /\ EvidenceOK
  /\ NothingLeft

-----------------------------------------------------------------------------
(* Commits *)

\* What Append makes of a history.
LEMMA Appended ==
  ASSUME NEW c \in Histories, NEW t \in Trees, NEW a \in {"developer", "aquila"}
  PROVE  /\ Append(c, by(a, t)) \in Commits
         /\ tree(Append(c, by(a, t))) = t
         /\ writer(Append(c, by(a, t))) = a
<1> DEFINE e == by(a, t)
<1>1. e \in Entry /\ e.tree = t /\ e.author = a
  BY Zenon DEF by, Entry
<1> HIDE DEF e
<1>2. Append(c, e) \in Seq(Entry) /\ Len(Append(c, e)) = Len(c) + 1 /\ Len(c) \in Nat
      /\ Append(c, e)[Len(c) + 1] = e
  BY <1>1 DEF Histories
<1>3. Append(c, e) # <<>>
  BY <1>2
<1> QED  BY Zenon, <1>1, <1>2, <1>3 DEF Commits, Histories, tree, writer, e

\* A commit's tree, its parent, and that it reaches itself.
LEMMA CommitFacts ==
  ASSUME NEW c \in Commits
  PROVE  /\ tree(c) \in Trees
         /\ parent(c) \in Histories
         /\ reaches(c, c)
<1>1. c \in Seq(Entry) /\ Len(c) \in Nat /\ Len(c) >= 1
  BY DEF Commits, Histories
<1>2. c[Len(c)] \in Entry
  BY <1>1
<1>3. tree(c) \in Trees
  BY Zenon, <1>2 DEF tree, Entry
<1>4. parent(c) \in Histories
  BY <1>1 DEF parent, Histories
<1>5. c = SubSeq(c, 1, Len(c)) /\ Len(c) \in 1..Len(c)
  BY <1>1
<1>6. reaches(c, c)
  BY Zenon, <1>5 DEF reaches
<1> QED  BY Zenon, <1>3, <1>4, <1>6

-----------------------------------------------------------------------------
(* The repository's steps *)

\* What the developer and git do keeps the repository in order and loses no pin.
LEMMA OthersInv ==
  ASSUME ExpInv, Others
  PROVE  ExpInv'
<1> USE DEF ExpInv
<1>1. UNCHANGED <<roots, projects, x, evidence>> /\ pins' = pins
  BY Zenon DEF Others, Developer, Edit, CommitOn, Gc, pairVars, procVars
<1>2. RepoOK' /\ (objects \subseteq objects' \/ x.pc = "ended")
  <2>1. CASE Edit
    BY Zenon, <2>1 DEF Edit, RepoOK
  <2>2. ASSUME NEW onto \in Histories, CommitOn(onto)
        PROVE  RepoOK' /\ objects \subseteq objects'
    <3>1. /\ head' = Append(onto, by("developer", worktree)) /\ objects' = objects \cup {head'}
          /\ worktree' = worktree
      BY Zenon, <2>2 DEF CommitOn, AddsCommit
    <3>2. head' \in Commits /\ writer(head') = "developer"
      BY Zenon, <3>1, Appended DEF RepoOK
    <3> QED  BY Zenon, <1>1, <3>1, <3>2 DEF RepoOK
  <2>3. CASE Gc /\ ~running
    <3>1. /\ head' = head /\ worktree' = worktree
          /\ objects' = {c \in objects : \E r \in pins \cup {head} : reaches(r, c)}
      BY Zenon, <2>3 DEF Gc
    <3>2. \A c \in pins \cup {head} : c \in objects'
      BY Zenon, <3>1, CommitFacts DEF RepoOK
    <3> QED  BY Zenon, <1>1, <2>3, <3>1, <3>2 DEF RepoOK, running
  <2>4. head \in Histories /\ parent(head) \in Histories
    BY Zenon, CommitFacts DEF RepoOK, Commits
  <2> QED  BY Zenon, <2>1, <2>2, <2>3, <2>4 DEF Others, Developer
<1>3. CommitsOK'
  BY Zenon, <1>1, <1>2 DEF CommitsOK, Based, Patched
<1>4. DiffOK' /\ EvidenceOK'
  BY Zenon, <1>1 DEF DiffOK, EvidenceOK, pinned
<1>5. FlagsOK' /\ RootsOK' /\ ProjectsOK' /\ NothingLeft'
  BY <1>1 DEF FlagsOK, RootsOK, ProjectsOK, NothingLeft, Baselined, portsOK, serves, id
<1> QED  BY Zenon, <1>1, <1>2, <1>3, <1>4, <1>5

-----------------------------------------------------------------------------
(* What a step leaves of the process record *)

\* A step that only moves on.
LEMMA Moved ==
  ASSUME x \in Process, NEW pc \in Pcs, to(pc)
  PROVE  /\ x' \in Process /\ x'.pc = pc /\ x'.mode = x.mode /\ x'.raw = x.raw
         /\ x'.base = x.base /\ x'.patch = x.patch /\ x'.diff = x.diff
         /\ x'.built = x.built /\ x'.upped = x.upped /\ x'.down = x.down
BY Zenon DEF Process, to

\* ReadHead.
LEMMA MovedBase ==
  ASSUME x \in Process, NEW pc \in Pcs, NEW c \in Histories, x' = [x EXCEPT !.base = c, !.pc = pc]
  PROVE  /\ x' \in Process /\ x'.pc = pc /\ x'.mode = x.mode /\ x'.raw = x.raw
         /\ x'.base = c /\ x'.patch = x.patch /\ x'.diff = x.diff
         /\ x'.built = x.built /\ x'.upped = x.upped /\ x'.down = x.down
BY Zenon DEF Process

\* Snapshot.
LEMMA MovedPatch ==
  ASSUME x \in Process, NEW pc \in Pcs, NEW c \in Histories, x' = [x EXCEPT !.patch = c, !.pc = pc]
  PROVE  /\ x' \in Process /\ x'.pc = pc /\ x'.mode = x.mode /\ x'.raw = x.raw
         /\ x'.base = x.base /\ x'.patch = c /\ x'.diff = x.diff
         /\ x'.built = x.built /\ x'.upped = x.upped /\ x'.down = x.down
BY Zenon DEF Process

\* DiffTrees and PlainDiff.
LEMMA MovedDiff ==
  ASSUME x \in Process, NEW pc \in Pcs, NEW d \in Diffs, x' = [x EXCEPT !.diff = d, !.pc = pc]
  PROVE  /\ x' \in Process /\ x'.pc = pc /\ x'.mode = x.mode /\ x'.raw = x.raw
         /\ x'.base = x.base /\ x'.patch = x.patch /\ x'.diff = d
         /\ x'.built = x.built /\ x'.upped = x.upped /\ x'.down = x.down
BY Zenon DEF Process

\* Declare.
LEMMA MovedBoth ==
  ASSUME x \in Process, NEW pc \in Pcs, NEW b \in Histories, NEW c \in Histories,
         x' = [x EXCEPT !.base = b, !.patch = c, !.pc = pc]
  PROVE  /\ x' \in Process /\ x'.pc = pc /\ x'.mode = x.mode /\ x'.raw = x.raw
         /\ x'.base = b /\ x'.patch = c /\ x'.diff = x.diff
         /\ x'.built = x.built /\ x'.upped = x.upped /\ x'.down = x.down
BY Zenon DEF Process

\* UpBaseline.
LEMMA MovedUpped ==
  ASSUME x \in Process, NEW pc \in Pcs, x' = [x EXCEPT !.upped = TRUE, !.pc = pc]
  PROVE  /\ x' \in Process /\ x'.pc = pc /\ x'.mode = x.mode /\ x'.raw = x.raw
         /\ x'.base = x.base /\ x'.patch = x.patch /\ x'.diff = x.diff
         /\ x'.built = x.built /\ x'.upped = TRUE /\ x'.down = x.down
BY Zenon DEF Process

\* Healthy, of the patch.
LEMMA MovedBuilt ==
  ASSUME x \in Process, NEW pc \in Pcs, x' = [x EXCEPT !.built = TRUE, !.pc = pc]
  PROVE  /\ x' \in Process /\ x'.pc = pc /\ x'.mode = x.mode /\ x'.raw = x.raw
         /\ x'.base = x.base /\ x'.patch = x.patch /\ x'.diff = x.diff
         /\ x'.built = TRUE /\ x'.upped = x.upped /\ x'.down = x.down
BY Zenon DEF Process

\* Stop.
LEMMA MovedDown ==
  ASSUME x \in Process, NEW pc \in Pcs, NEW d \in {"ok", "failed"}, x' = [x EXCEPT !.pc = pc, !.down = d]
  PROVE  /\ x' \in Process /\ x'.pc = pc /\ x'.mode = x.mode /\ x'.raw = x.raw
         /\ x'.base = x.base /\ x'.patch = x.patch /\ x'.diff = x.diff
         /\ x'.built = x.built /\ x'.upped = x.upped /\ x'.down = d
BY Zenon DEF Process

\* A command that begins, and the process that was killed.
LEMMA FreshProcess ==
  ASSUME NEW mode \in {"none", "env", "pair", "urls"}, NEW raw \in Diffs, NEW pc \in Pcs,
         x' = Fresh(mode, raw, pc)
  PROVE  /\ x' \in Process /\ x'.pc = pc /\ x'.mode = mode /\ x'.raw = raw
         /\ x'.diff = raw /\ x'.built = FALSE /\ x'.upped = FALSE
<1>1. <<>> \in Histories
  BY DEF Histories
<1> QED  BY Zenon, <1>1 DEF Fresh, Process

-----------------------------------------------------------------------------
(* The parts of the invariant that a step leaves alone *)

\* A step that neither touches the repository nor writes evidence.
LEMMA SameRepo ==
  ASSUME ExpInv, UNCHANGED gitVars, evidence' = evidence
  PROVE  RepoOK' /\ EvidenceOK' /\ \A t : pinned(t)' <=> pinned(t)
BY Zenon DEF ExpInv, RepoOK, EvidenceOK, pinned, gitVars

\* A step before the pair's directory is made, or that ends a command which made none.
LEMMA BeforePair ==
  ASSUME ExpInv, UNCHANGED pairVars, ~x'.upped, ~x'.built,
         x'.pc \notin Roles \cup {"manifest"} \cup Upping
  PROVE  RootsOK' /\ ProjectsOK' /\ NothingLeft'
<1>1. RootsOK'
  BY Zenon DEF ExpInv, RootsOK, Baselined, Roles, pairVars
<1>2. ProjectsOK'
  BY Zenon DEF ExpInv, ProjectsOK, portsOK, pairVars, Upping
<1>3. NothingLeft'
  BY Zenon DEF NothingLeft
<1> QED  BY Zenon, <1>1, <1>2, <1>3

\* A step with the pair's commits and diff in hand, of a command that goes on.
LEMMA SameCommits ==
  ASSUME ExpInv, UNCHANGED gitVars, x.mode # "urls", x.pc \notin {"ended"} \cup Early \cup Pinning,
         x'.mode = x.mode, x'.base = x.base, x'.patch = x.patch, x'.diff = x.diff, x'.pc \notin Early
  PROVE  CommitsOK' /\ DiffOK' /\ id' = id
<1>1. x.base \in objects /\ x.patch \in objects /\ writer(x.patch) = "aquila"
  BY Zenon DEF ExpInv, CommitsOK, Based, Patched, Early
<1>2. CommitsOK'
  BY Zenon, <1>1 DEF CommitsOK, gitVars
<1>3. x.diff = <<tree(x.base), tree(x.patch)>> /\ pinned(tree(x.patch))
  BY Zenon DEF ExpInv, DiffOK
<1>4. DiffOK'
  BY Zenon, <1>3 DEF DiffOK, gitVars, pinned
<1> QED  BY Zenon, <1>2, <1>4 DEF id

-----------------------------------------------------------------------------
(* Starting a command *)

\* The process record of a command that begins.
LEMMA BeginInv ==
  ASSUME ExpInv, NEW mode \in {"env", "pair", "urls"}, NEW raw \in Diffs, NEW pc \in {"head", "analyze"},
         pc = "analyze" => mode = "urls", Begin(mode, raw, pc), RepoOK', pins' = pins
  PROVE  ExpInv'
<1>1. x' = Fresh(mode, raw, pc) /\ UNCHANGED <<pairVars, evidence>>
  BY Zenon DEF Begin
<1>2. /\ x' \in Process /\ x'.pc = pc /\ x'.mode = mode /\ x'.built = FALSE /\ x'.upped = FALSE
  BY Zenon, <1>1, FreshProcess DEF Pcs, Early
<1>3. RootsOK' /\ ProjectsOK' /\ NothingLeft'
  BY Zenon, <1>1, <1>2, BeforePair DEF Roles, Upping
<1>4. EvidenceOK'
  BY Zenon, <1>1 DEF ExpInv, EvidenceOK, pinned
<1>5. CommitsOK' /\ DiffOK' /\ FlagsOK'
  BY Zenon, <1>2 DEF CommitsOK, Based, Patched, DiffOK, FlagsOK, Early
<1> QED  BY Zenon, <1>2, <1>3, <1>4, <1>5 DEF ExpInv

\* The trees of a diff that is given.
LEMMA GivenDiffs ==
  ASSUME ExpInv
  PROVE  readDiff \subseteq Diffs /\ <<tree(head), worktree>> \in Diffs
<1>1. tree(head) \in Trees /\ worktree \in Trees
  BY Zenon, CommitFacts DEF ExpInv, RepoOK
<1> QED  BY <1>1 DEF readDiff, Diffs

\* The three commands.
LEMMA StartInv ==
  ASSUME ExpInv, RunExperiment \/ RunEnv \/ RunWorkflow
  PROVE  ExpInv'
<1>1. CASE RunEnv
  <2>1. PICK raw \in readDiff : Begin("env", raw, "head") /\ UNCHANGED gitVars
    BY Zenon, <1>1 DEF RunEnv, quietGit
  <2>2. RepoOK' /\ pins' = pins /\ raw \in Diffs
    BY Zenon, <2>1, GivenDiffs DEF ExpInv, RepoOK, gitVars
  <2> QED  BY Zenon, <2>1, <2>2, BeginInv
<1>2. CASE RunExperiment
  <2>1. PICK raw \in readDiff : /\ UNCHANGED gitVars
                                /\ \/ Begin("pair", raw, "head")
                                   \/ Begin("urls", raw, "head")
                                   \/ Begin("urls", raw, "analyze")
    BY Zenon, <1>2 DEF RunExperiment, quietGit
  <2>2. RepoOK' /\ pins' = pins /\ raw \in Diffs
    BY Zenon, <2>1, GivenDiffs DEF ExpInv, RepoOK, gitVars
  <2> QED  BY Zenon, <2>1, <2>2, BeginInv
<1>3. CASE RunWorkflow
  <2>1. /\ Begin("pair", <<tree(head), worktree>>, "head")
        /\ worktree' \in Trees /\ UNCHANGED <<head, objects, pins, edits>>
    BY Zenon, <1>3 DEF RunWorkflow
  <2>2. RepoOK' /\ <<tree(head), worktree>> \in Diffs
    BY Zenon, <2>1, GivenDiffs DEF ExpInv, RepoOK
  <2> QED  BY Zenon, <2>1, <2>2, BeginInv
<1> QED  BY Zenon, <1>1, <1>2, <1>3

\* A process that is killed, or whose context ends.
LEMMA KillInv ==
  ASSUME ExpInv, Kill
  PROVE  ExpInv'
<1>1. x' = Fresh("none", NoDiff, "ended") /\ UNCHANGED <<gitVars, pairVars, evidence>>
  BY Zenon DEF Kill
<1>2. x' \in Process /\ x'.pc = "ended" /\ x'.mode = "none" /\ x'.built = FALSE /\ x'.upped = FALSE
  BY Zenon, <1>1, FreshProcess DEF Pcs, Diffs
<1>3. RootsOK' /\ ProjectsOK' /\ NothingLeft'
  BY Zenon, <1>1, <1>2, BeforePair DEF Roles, Upping
<1>4. CommitsOK' /\ DiffOK' /\ FlagsOK'
  BY Zenon, <1>2 DEF CommitsOK, Based, Patched, DiffOK, FlagsOK
<1> QED  BY Zenon, <1>1, <1>2, <1>3, <1>4, SameRepo DEF ExpInv

\* A step of which the invariant tells nothing.
LEMMA SameInv ==
  ASSUME ExpInv, UNCHANGED <<gitVars, pairVars, x, evidence>>
  PROVE  ExpInv'
<1>1. CommitsOK' /\ DiffOK' /\ FlagsOK'
  BY Zenon DEF ExpInv, CommitsOK, Based, Patched, DiffOK, FlagsOK, pinned, gitVars
<1>2. RootsOK' /\ NothingLeft'
  BY Zenon DEF ExpInv, RootsOK, Baselined, NothingLeft, id, pairVars
<1>3. ProjectsOK'
  BY Zenon DEF ExpInv, ProjectsOK, portsOK, serves, pairVars
<1> QED  BY Zenon, <1>1, <1>2, <1>3, SameRepo DEF ExpInv

-----------------------------------------------------------------------------
(* captureBuild: the commits, the diff and the pins *)

\* Until the pair is prepared a process has started nothing.
LEMMA NothingUp ==
  ASSUME ExpInv, x.pc \in {"analyze", "declare", "prepare"} \cup Early \cup Pinning
  PROVE  ~x.upped /\ ~x.built
BY Zenon DEF ExpInv, FlagsOK, Early, Pinning

\* The steps' places in the program.
LEMMA PcsAre ==
  /\ \A pc \in Early \cup Pinning \cup Filling \cup Upping : pc \in Pcs
  /\ {"ended", "analyze", "declare", "execute", "stop"} \subseteq Pcs
  /\ "head" \in Early /\ "snap" \in Early /\ "diff" \in Early
BY Zenon DEF Pcs, Early

\* HEAD is read.
LEMMA ReadHeadInv ==
  ASSUME ExpInv, ReadHead
  PROVE  ExpInv'
<1>1. /\ x.pc = "head" /\ x' = [x EXCEPT !.base = head, !.pc = "snap"]
      /\ UNCHANGED <<gitVars, pairVars, evidence>> /\ head \in objects /\ head \in Histories
  BY Zenon DEF ReadHead, quietGit, procVars, ExpInv, RepoOK, Commits
<1>2. /\ x' \in Process /\ x'.pc = "snap" /\ x'.mode = x.mode /\ x'.base = head
      /\ x'.built = x.built /\ x'.upped = x.upped
  <2>1. x \in Process /\ "snap" \in Pcs
    BY Zenon, PcsAre DEF ExpInv
  <2> QED  BY <1>1, <2>1, MovedBase, Zenon
<1>3. ~x.upped /\ ~x.built
  BY Zenon, <1>1, NothingUp DEF Early
<1>4. RootsOK' /\ ProjectsOK' /\ NothingLeft'
  BY Zenon, <1>1, <1>2, <1>3, BeforePair DEF Roles, Upping
<1>5. CommitsOK' /\ DiffOK'
  BY <1>1, <1>2 DEF CommitsOK, Based, Patched, DiffOK, Early, gitVars
<1>6. FlagsOK'
  BY Zenon, <1>2, <1>3 DEF FlagsOK, Early
<1> QED  BY Zenon, <1>1, <1>2, <1>4, <1>5, <1>6, SameRepo DEF ExpInv

\* The patch is committed.
LEMMA SnapshotInv ==
  ASSUME ExpInv, Snapshot
  PROVE  ExpInv'
<1> DEFINE t == IF x.raw = NoDiff THEN worktree ELSE x.raw[2]
           c == snapshot(x.base, t)
<1>1. /\ x.pc = "snap" /\ x' = [x EXCEPT !.patch = c, !.pc = "diff"] /\ objects' = objects \cup {c}
      /\ UNCHANGED <<head, worktree, pins, pairVars, evidence>>
  BY Zenon DEF Snapshot, AddsCommit, procVars
<1>2. x.base \in Histories /\ t \in Trees
  BY Zenon DEF ExpInv, RepoOK, Process, Diffs, NoDiff
<1>3. c \in Commits /\ writer(c) = "aquila"
  BY Zenon, <1>2, Appended DEF snapshot
<1> HIDE DEF c, t
<1>4. /\ x' \in Process /\ x'.pc = "diff" /\ x'.mode = x.mode /\ x'.base = x.base /\ x'.patch = c
      /\ x'.built = x.built /\ x'.upped = x.upped
  <2>1. x \in Process /\ "diff" \in Pcs /\ c \in Histories
    BY Zenon, <1>3, PcsAre DEF ExpInv, Commits
  <2> QED  BY <1>1, <2>1, MovedPatch, Zenon
<1>5. ~x.upped /\ ~x.built
  BY Zenon, <1>1, NothingUp DEF Early
<1>6. RootsOK' /\ ProjectsOK' /\ NothingLeft'
  BY Zenon, <1>1, <1>4, <1>5, BeforePair DEF Roles, Upping
<1>7. CommitsOK' /\ DiffOK'
  BY <1>1, <1>3, <1>4 DEF ExpInv, CommitsOK, Based, Patched, DiffOK, Early
<1>8. FlagsOK'
  BY Zenon, <1>4, <1>5 DEF FlagsOK, Early
<1>9. RepoOK' /\ EvidenceOK'
  BY Zenon, <1>1, <1>3 DEF ExpInv, RepoOK, EvidenceOK, pinned
<1> QED  BY Zenon, <1>4, <1>6, <1>7, <1>8, <1>9 DEF ExpInv

\* The diff is taken.
LEMMA DiffInv ==
  ASSUME ExpInv, DiffTrees \/ PlainDiff
  PROVE  ExpInv'
<1>1. CASE DiffTrees
  <2> DEFINE d == <<tree(x.base), tree(x.patch)>>
             pc == IF x.mode = "urls" THEN "analyze" ELSE "pinBase"
  <2>1. /\ x.pc = "diff" /\ x' = [x EXCEPT !.diff = d, !.pc = pc]
        /\ UNCHANGED <<gitVars, pairVars, evidence>>
    BY Zenon, <1>1 DEF DiffTrees, quietGit, procVars
  <2>2. /\ x.base \in objects /\ x.patch \in objects /\ writer(x.patch) = "aquila"
        /\ objects \subseteq Commits
    BY Zenon, <2>1 DEF ExpInv, CommitsOK, Based, Patched, RepoOK
  <2>3. d \in Diffs /\ pc \in Pcs
    BY Zenon, <2>2, CommitFacts DEF Diffs, Pcs, Pinning
  <2> HIDE DEF d, pc
  <2>4. /\ x' \in Process /\ x'.pc = pc /\ x'.mode = x.mode /\ x'.base = x.base /\ x'.patch = x.patch
        /\ x'.diff = d /\ x'.built = x.built /\ x'.upped = x.upped
    <3>1. x \in Process
      BY Zenon DEF ExpInv
    <3> QED  BY <2>1, <2>3, <3>1, MovedDiff, Zenon
  <2>5. ~x.upped /\ ~x.built
    BY Zenon, <2>1, NothingUp DEF Early
  <2>6. RootsOK' /\ ProjectsOK' /\ NothingLeft'
    BY <2>1, <2>4, <2>5, BeforePair DEF Roles, Upping, pc
  <2>7. CommitsOK'
    BY <2>1, <2>2, <2>4 DEF CommitsOK, Based, Patched, gitVars, pc
  <2>8. DiffOK' /\ FlagsOK'
    BY Zenon, <2>4, <2>5 DEF DiffOK, FlagsOK, Early, Pinning, d, pc
  <2> QED  BY Zenon, <2>1, <2>4, <2>6, <2>7, <2>8, SameRepo DEF ExpInv
<1>2. CASE PlainDiff
  <2>1. /\ x.mode = "urls" /\ x.pc \in Early /\ x' = [x EXCEPT !.diff = <<tree(head), worktree>>, !.pc = "analyze"]
        /\ UNCHANGED <<gitVars, pairVars, evidence>>
    BY Zenon, <1>2 DEF PlainDiff, quietGit, procVars, Early
  <2>2. <<tree(head), worktree>> \in Diffs /\ "analyze" \in Pcs
    BY Zenon, GivenDiffs DEF Pcs
  <2>3. /\ x' \in Process /\ x'.pc = "analyze" /\ x'.mode = "urls"
        /\ x'.built = x.built /\ x'.upped = x.upped
    <3>1. x \in Process
      BY Zenon DEF ExpInv
    <3> QED  BY <2>1, <2>2, <3>1, MovedDiff, Zenon
  <2>4. ~x.upped /\ ~x.built
    BY Zenon, <2>1, NothingUp
  <2>5. RootsOK' /\ ProjectsOK' /\ NothingLeft'
    BY Zenon, <2>1, <2>3, <2>4, BeforePair DEF Roles, Upping
  <2>6. CommitsOK' /\ DiffOK' /\ FlagsOK'
    BY Zenon, <2>3, <2>4 DEF CommitsOK, Based, Patched, DiffOK, FlagsOK
  <2> QED  BY Zenon, <2>1, <2>3, <2>5, <2>6, SameRepo DEF ExpInv
<1> QED  BY Zenon, <1>1, <1>2

\* A pin of a commit that is there keeps a pin for every tree that had one.
LEMMA PinFacts ==
  ASSUME RepoOK, NEW c \in objects, Pin(c)
  PROVE  /\ pins' \subseteq objects
         /\ \A t : pinned(t) => pinned(t)'
         /\ c # head => pinned(tree(c))'
<1>1. CASE c = head
  BY Zenon, <1>1 DEF Pin, RepoOK, pinned
<1>2. CASE c # head
  <2>1. pins' = {p \in pins : tree(p) # tree(c)} \cup {c}
    BY Zenon, <1>2 DEF Pin
  <2>2. pinned(tree(c))'
    BY Zenon, <2>1 DEF pinned
  <2>3. ASSUME NEW t, pinned(t) PROVE pinned(t)'
    BY Zenon, <2>1, <2>3 DEF pinned
  <2> QED  BY Zenon, <2>1, <2>2, <2>3 DEF RepoOK
<1> QED  BY Zenon, <1>1, <1>2

\* Each commit is pinned; the patch is aquila's, so it is not the commit HEAD names.
LEMMA PinInv ==
  ASSUME ExpInv, PinBase \/ PinPatch
  PROVE  ExpInv'
<1>1. /\ x.pc \in Pinning
      /\ UNCHANGED <<head, worktree, objects, pairVars, evidence>>
      /\ \/ x.pc = "pinBase" /\ Pin(x.base) /\ to("pinPatch")
         \/ x.pc = "pinPatch" /\ Pin(x.patch) /\ to(IF x.mode = "env" THEN "prepare" ELSE "analyze")
  BY Zenon DEF PinBase, PinPatch, procVars, Pinning
<1>2. x \in Process /\ x.mode # "urls"
  BY Zenon, <1>1 DEF ExpInv, FlagsOK, Pinning, Early
<1>3. /\ x.base \in objects /\ x.patch \in objects /\ x.patch # head
      /\ x.diff = <<tree(x.base), tree(x.patch)>> /\ writer(x.patch) = "aquila"
  BY Zenon, <1>1, <1>2 DEF ExpInv, RepoOK, CommitsOK, Based, Patched, DiffOK, Pinning, Early
<1>4. ~x.upped /\ ~x.built
  BY Zenon, <1>1, NothingUp
<1>5. /\ pins' \subseteq objects
      /\ \A t : pinned(t) => pinned(t)'
      /\ x.pc = "pinPatch" => \E p \in pins' : tree(p) = tree(x.patch)
  <2>1. RepoOK
    BY Zenon DEF ExpInv
  <2>2. CASE x.pc = "pinBase"
    BY Zenon, <1>1, <1>3, <2>1, <2>2, PinFacts
  <2>3. CASE x.pc = "pinPatch"
    <3>1. Pin(x.patch)
      BY Zenon, <1>1, <2>3
    <3>2. pins' \subseteq objects /\ \A t : pinned(t) => pinned(t)'
      BY Zenon, <1>3, <2>1, <3>1, PinFacts
    <3>3. x.patch \in pins'
      BY Zenon, <1>3, <3>1 DEF Pin
    <3> QED  BY Zenon, <3>2, <3>3
  <2> QED  BY Zenon, <1>1, <2>2, <2>3 DEF Pinning
<1>6. PICK pc \in {"pinPatch", "prepare", "analyze"} : to(pc) /\ (pc # "pinPatch" <=> x.pc = "pinPatch")
  BY Zenon, <1>1 DEF Pinning
<1>7. pc \in Pcs
  BY Zenon DEF Pcs, Pinning, Filling
<1>8. /\ x' \in Process /\ x'.pc = pc /\ x'.mode = x.mode /\ x'.base = x.base
      /\ x'.patch = x.patch /\ x'.diff = x.diff /\ x'.built = x.built /\ x'.upped = x.upped
  BY <1>2, <1>6, <1>7, Moved, Zenon
<1>9. RootsOK' /\ ProjectsOK' /\ NothingLeft'
  BY Zenon, <1>1, <1>4, <1>8, BeforePair DEF Roles, Upping
<1>10. RepoOK' /\ EvidenceOK'
  BY Zenon, <1>1, <1>5 DEF ExpInv, RepoOK, EvidenceOK
<1>11. CommitsOK' /\ FlagsOK'
  BY Zenon, <1>1, <1>2, <1>3, <1>4, <1>8 DEF CommitsOK, FlagsOK
<1>12. DiffOK'
  BY Zenon, <1>3, <1>5, <1>6, <1>8 DEF DiffOK, Pinning, pinned
<1> QED  BY Zenon, <1>8, <1>9, <1>10, <1>11, <1>12 DEF ExpInv

\* A command that ends before it prepares a pair.
LEMMA FailsInv ==
  ASSUME ExpInv, SnapshotRefused \/ Fails
  PROVE  ExpInv'
<1>1. /\ x.pc \in {"analyze", "declare", "prepare"} \cup Early \cup Pinning
      /\ to("ended") /\ UNCHANGED <<gitVars, pairVars, evidence>>
  BY Zenon DEF SnapshotRefused, Fails, quietGit, procVars, Early, Pinning
<1>2. ~x.upped /\ ~x.built
  BY Zenon, <1>1, NothingUp
<1>3. x \in Process /\ "ended" \in Pcs
  BY Zenon, PcsAre DEF ExpInv
<1>4. /\ x' \in Process /\ x'.pc = "ended" /\ x'.built = x.built /\ x'.upped = x.upped
  BY <1>1, <1>3, Moved, Zenon
<1>5. RootsOK' /\ ProjectsOK' /\ NothingLeft'
  BY Zenon, <1>1, <1>2, <1>4, BeforePair DEF Roles, Upping
<1>6. CommitsOK' /\ DiffOK' /\ FlagsOK'
  BY Zenon, <1>2, <1>4 DEF CommitsOK, Based, Patched, DiffOK, FlagsOK
<1> QED  BY Zenon, <1>1, <1>4, <1>5, <1>6, SameRepo DEF ExpInv

\* The analysis.
LEMMA AnalyzeInv ==
  ASSUME ExpInv, Analyze
  PROVE  ExpInv'
<1> DEFINE pc == IF x.mode = "urls" THEN "declare" ELSE "prepare"
<1>1. x.pc = "analyze" /\ to(pc) /\ UNCHANGED <<gitVars, pairVars, evidence>>
  BY Zenon DEF Analyze, quietGit, procVars
<1>2. ~x.upped /\ ~x.built
  BY Zenon, <1>1, NothingUp
<1>3. x \in Process /\ pc \in Pcs
  BY Zenon DEF ExpInv, Pcs, Filling
<1> HIDE DEF pc
<1>4. /\ x' \in Process /\ x'.pc = pc /\ x'.mode = x.mode /\ x'.base = x.base
      /\ x'.patch = x.patch /\ x'.diff = x.diff /\ x'.built = x.built /\ x'.upped = x.upped
  BY <1>1, <1>3, Moved, Zenon
<1>5. RootsOK' /\ ProjectsOK' /\ NothingLeft'
  BY Zenon, <1>1, <1>2, <1>4, BeforePair DEF Roles, Upping, pc
<1>6. CommitsOK' /\ DiffOK'
  <2>1. CASE x.mode = "urls"
    BY Zenon, <1>4, <2>1 DEF CommitsOK, Based, Patched, DiffOK, pc
  <2>2. CASE x.mode # "urls"
    BY Zenon, <1>1, <1>4, <2>2, SameCommits DEF Early, Pinning, pc
  <2> QED  BY Zenon, <2>1, <2>2
<1>7. FlagsOK'
  BY Zenon, <1>2, <1>4 DEF FlagsOK, pc
<1> QED  BY Zenon, <1>1, <1>4, <1>5, <1>6, <1>7, SameRepo DEF ExpInv

\* The revisions declared for gateways that are given.
LEMMA DeclareInv ==
  ASSUME ExpInv, Declare
  PROVE  ExpInv'
<1>1. x \in Process /\ x.pc = "declare" /\ x.mode = "urls"
  BY Zenon DEF Declare, ExpInv, FlagsOK
<1>2. ~x.upped /\ ~x.built
  BY Zenon, <1>1, NothingUp
<1>3. UNCHANGED <<head, worktree, pins, pairVars, evidence>>
  BY Zenon DEF Declare, procVars
<1>4. PICK b \in Histories, c \in Histories :
        /\ x' = [x EXCEPT !.base = b, !.patch = c, !.pc = "execute"]
        /\ \E os \in SUBSET Commits : objects' = objects \cup os
  <2>1. head \in Histories /\ snapshot(head, worktree) \in Commits /\ <<>> \in Histories
    BY Appended DEF ExpInv, RepoOK, Commits, Histories, snapshot
  <2>2. CASE /\ x' = [x EXCEPT !.base = head, !.patch = snapshot(head, worktree), !.pc = "execute"]
             /\ AddsCommit(snapshot(head, worktree))
    BY <2>1, <2>2, Zenon DEF AddsCommit, Commits
  <2>3. CASE x' = [x EXCEPT !.base = <<>>, !.patch = <<>>, !.pc = "execute"] /\ UNCHANGED objects
    <3>1. {} \in SUBSET Commits /\ objects' = objects \cup {}
      BY Zenon, <2>3
    <3> QED  BY <2>1, <2>3, <3>1, Zenon
  <2> QED  BY <2>2, <2>3, Zenon DEF Declare
<1>5. "execute" \in Pcs
  BY Zenon, PcsAre
<1>6. /\ x' \in Process /\ x'.pc = "execute" /\ x'.mode = x.mode
      /\ x'.built = x.built /\ x'.upped = x.upped
  BY <1>1, <1>4, <1>5, MovedBoth, Zenon
<1>7. RootsOK' /\ ProjectsOK' /\ NothingLeft'
  BY Zenon, <1>2, <1>3, <1>6, BeforePair DEF Roles, Upping
<1>8. CommitsOK' /\ DiffOK' /\ FlagsOK'
  BY Zenon, <1>1, <1>2, <1>6 DEF CommitsOK, Based, Patched, DiffOK, FlagsOK
<1>9. RepoOK' /\ EvidenceOK'
  BY Zenon, <1>3, <1>4 DEF ExpInv, RepoOK, EvidenceOK, pinned
<1> QED  BY Zenon, <1>6, <1>7, <1>8, <1>9 DEF ExpInv

-----------------------------------------------------------------------------
(* The pair's directory and its projects *)

\* A command with a pair, from Prepare to stopPair.
LEMMA WithPair ==
  ASSUME ExpInv, x.pc \in {"stop"} \cup Filling \cup Upping
  PROVE  /\ x \in Process /\ x.mode # "urls"
         /\ x.pc # "stop" => ~x.built
         /\ x.pc \in Filling \cup {"ports", "upBaseline"} => ~x.upped
<1>1. x.pc \notin {"ended", "analyze", "declare", "execute"} \cup Early
  BY Zenon DEF Early, Filling, Upping
<1> QED  BY Zenon, <1>1 DEF ExpInv, FlagsOK, Filling, Upping

\* One entry of a directory is written.
LEMMA RootWritten ==
  ASSUME RootsOK
  PROVE  \A d \in DOMAIN roots, k \in Entries : \A v :
           roots' = [roots EXCEPT ![d][k] = v] =>
             /\ DOMAIN roots' = DOMAIN roots
             /\ \A e \in DOMAIN roots' : DOMAIN roots'[e] = Entries
             /\ roots'[d][k] = v
             /\ \A j \in Entries \ {k} : roots'[d][j] = roots[d][j]
<1> SUFFICES ASSUME NEW d \in DOMAIN roots, NEW k \in Entries, NEW v,
                    roots' = [roots EXCEPT ![d][k] = v]
             PROVE  /\ DOMAIN roots' = DOMAIN roots
                    /\ \A e \in DOMAIN roots' : DOMAIN roots'[e] = Entries
                    /\ roots'[d][k] = v
                    /\ \A j \in Entries \ {k} : roots'[d][j] = roots[d][j]
  BY Zenon
<1>1. \A e \in DOMAIN roots : DOMAIN roots[e] = Entries
  BY Zenon DEF RootsOK
<1>2. DOMAIN roots' = DOMAIN roots /\ roots'[d] = [roots[d] EXCEPT ![k] = v]
  BY Zenon
<1>3. \A e \in DOMAIN roots : e # d => roots'[e] = roots[e]
  BY Zenon
<1> QED  BY Zenon, <1>1, <1>2, <1>3

\* Fewer containers compete for no port.
LEMMA FewerProjects ==
  ASSUME NEW ps, portsOK(ps), NEW qs, qs \subseteq ps
  PROVE  portsOK(qs)
BY Zenon DEF portsOK

\* A project comes to have its port only when the port is free.
LEMMA ProjectAdded ==
  ASSUME portsOK(projects), NEW d, NEW role \in Roles, NEW bound \in BOOLEAN, bound => ~taken(role)
  PROVE  portsOK(others(d, role) \cup {project(d, role, bound)})
<1> DEFINE n == project(d, role, bound)
           ps == others(d, role)
<1>1. n.role = role /\ n.bound = bound
  BY Zenon DEF project
<1>2. \A p \in ps : p \in projects /\ (bound => ~(p.role = role /\ p.bound))
  BY Zenon DEF others, taken
<1> HIDE DEF n, ps
<1>3. \A p \in ps \cup {n} : p.role \in Roles /\ p.bound \in BOOLEAN
  BY Zenon, <1>1, <1>2 DEF portsOK
<1>4. ASSUME NEW p \in ps \cup {n}, NEW q \in ps \cup {n}, p.bound, q.bound, p.role = q.role
      PROVE  p = q
  <2>1. CASE p = n /\ q \in ps
    BY <1>1, <1>2, <1>4, <2>1, Zenon
  <2>2. CASE p \in ps /\ q = n
    BY <1>1, <1>2, <1>4, <2>2, Zenon
  <2>3. CASE p \in ps /\ q \in ps
    BY <1>2, <1>4, <2>3, Zenon DEF portsOK
  <2> QED  BY Zenon, <1>4, <2>1, <2>2, <2>3
<1> QED  BY Zenon, <1>3, <1>4 DEF portsOK, n, ps

\* What docker leaves when it fails.
LEMMA UpFailed ==
  ASSUME portsOK(projects), NEW d, NEW role \in Roles, NEW ps \in composeUpFails(d, role)
  PROVE  portsOK(ps)
BY Zenon, ProjectAdded DEF composeUpFails

\* A step of a command with a pair: what the moves above say of its other parts.
LEMMA PairStep ==
  ASSUME ExpInv, UNCHANGED <<gitVars, evidence>>, x.pc \in {"stop"} \cup Filling \cup Upping,
         NEW pc \in {"ended", "stop"} \cup Filling \cup Upping, to(pc)
  PROVE  /\ x' \in Process /\ x'.pc = pc /\ x'.mode = x.mode /\ x'.mode # "urls"
         /\ x'.base = x.base /\ x'.patch = x.patch
         /\ x'.built = x.built /\ x'.upped = x.upped /\ id' = id
         /\ RepoOK' /\ EvidenceOK' /\ CommitsOK' /\ DiffOK'
<1>1. x \in Process /\ x.mode # "urls"
  BY Zenon, WithPair
<1>2. pc \in Pcs /\ pc \notin Early /\ x.pc \notin {"ended"} \cup Early \cup Pinning
  BY Zenon DEF Pcs, Early, Pinning, Filling, Upping
<1>3. /\ x' \in Process /\ x'.pc = pc /\ x'.mode = x.mode /\ x'.base = x.base
      /\ x'.patch = x.patch /\ x'.diff = x.diff /\ x'.built = x.built /\ x'.upped = x.upped
  BY <1>1, <1>2, Moved, Zenon
<1>4. CommitsOK' /\ DiffOK' /\ id' = id
  BY <1>1, <1>2, <1>3, SameCommits, Zenon
<1> QED  BY Zenon, <1>1, <1>3, <1>4, SameRepo

\* The pair's id names the two trees.
LEMMA IdIs == id["baseline"] = tree(x.base) /\ id["patch"] = tree(x.patch)
BY Zenon DEF id, idOf

\* The directory is made anew, and its pair's containers are stopped.
LEMMA PrepareInv ==
  ASSUME ExpInv, Prepare
  PROVE  ExpInv'
<1>1. PICK stuck \in SUBSET Roles : replaceRoot(id, stuck)
  BY Zenon DEF Prepare
<1>2. x.pc = "prepare" /\ to("baseline") /\ UNCHANGED <<gitVars, evidence>>
  BY Zenon DEF Prepare, quietGit, procVars
<1>3. /\ x' \in Process /\ x'.pc = "baseline" /\ x'.built = x.built /\ x'.upped = x.upped /\ id' = id
      /\ x'.mode # "urls" /\ RepoOK' /\ EvidenceOK' /\ CommitsOK' /\ DiffOK'
  BY Zenon, <1>2, PairStep DEF Filling
<1>4. ~x.upped /\ ~x.built
  BY Zenon, <1>2, WithPair DEF Filling
<1>5. RootsOK'
  <2>1. roots' = [e \in DOMAIN roots \cup {id} |-> IF e = id THEN emptyRoot ELSE roots[e]]
    BY Zenon, <1>1 DEF replaceRoot, WithRoot
  <2>2. DOMAIN emptyRoot = Entries
    BY Zenon DEF emptyRoot, Entries
  <2>3. \A e \in DOMAIN roots' : DOMAIN roots'[e] = Entries
    BY Zenon, <2>1, <2>2 DEF ExpInv, RootsOK
  <2>4. id' \in DOMAIN roots'
    BY Zenon, <1>3, <2>1
  <2> QED  BY Zenon, <1>3, <2>3, <2>4 DEF RootsOK, Baselined, Upping
<1>6. ProjectsOK'
  <2>1. projects' \subseteq projects
    BY Zenon, <1>1 DEF replaceRoot, downSides
  <2> QED  BY Zenon, <1>3, <1>4, <2>1, FewerProjects DEF ExpInv, ProjectsOK
<1>7. NothingLeft' /\ FlagsOK'
  BY Zenon, <1>3, <1>4 DEF NothingLeft, FlagsOK
<1> QED  BY Zenon, <1>3, <1>5, <1>6, <1>7 DEF ExpInv

\* A side's tree is written.
LEMMA FillInv ==
  ASSUME ExpInv, Fill("baseline", "patch") \/ Fill("patch", "manifest")
  PROVE  ExpInv'
<1>1. PICK role \in Roles, next \in {"patch", "manifest"} :
        Fill(role, next) /\ (role = "baseline" <=> next = "patch")
  BY Zenon DEF Roles
<1> DEFINE pc == IF roots[id][role] = "none" THEN role ELSE next
           v  == IF roots[id][role] = "none" THEN "part" ELSE id[role]
<1>2. x.pc = role /\ to(pc) /\ roots' = [roots EXCEPT ![id][role] = v] /\ UNCHANGED <<gitVars, projects, evidence>>
  BY Zenon, <1>1 DEF Fill, Materialize, quietGit, procVars
<1>3. pc \in {"baseline", "patch", "manifest"} /\ pc \in Filling /\ x.pc \in Filling
  BY Zenon, <1>2 DEF Filling, Roles
<1>4. pc # role => pc = next /\ v = id[role]
  BY Zenon
<1> HIDE DEF pc, v
<1>5. /\ x' \in Process /\ x'.pc = pc /\ x'.built = x.built /\ x'.upped = x.upped /\ id' = id
      /\ x'.base = x.base /\ x'.patch = x.patch
      /\ x'.mode # "urls" /\ RepoOK' /\ EvidenceOK' /\ CommitsOK' /\ DiffOK'
  BY Zenon, <1>2, <1>3, PairStep
<1>6. ~x.upped /\ ~x.built
  BY Zenon, <1>3, WithPair DEF Filling
<1>7. RootsOK'
  <2>1. RootsOK /\ id \in DOMAIN roots
    BY Zenon, <1>2 DEF ExpInv, RootsOK
  <2>2. /\ DOMAIN roots' = DOMAIN roots
        /\ \A e \in DOMAIN roots' : DOMAIN roots'[e] = Entries
        /\ roots'[id][role] = v
        /\ \A j \in Entries \ {role} : roots'[id][j] = roots[id][j]
    <3>1. role \in Entries
      BY Zenon DEF Roles, Entries
    <3>2. roots' = [roots EXCEPT ![id][role] = v]
      BY Zenon, <1>2
    <3> QED  BY <2>1, <3>1, <3>2, RootWritten, Zenon
  <2>3. CASE role = "baseline"
    <3>1. pc = "patch" => roots'[id]["baseline"] = tree(x.base)
      BY Zenon, <1>4, <2>2, <2>3, IdIs
    <3>2. pc \in {"baseline", "patch"}
      BY Zenon, <1>1, <1>4, <2>3
    <3> QED  BY Zenon, <1>5, <2>1, <2>2, <3>1, <3>2 DEF RootsOK, Baselined, Upping
  <2>4. CASE role = "patch"
    <3>1. pc = "manifest" => roots'[id]["patch"] = tree(x.patch)
      BY Zenon, <1>4, <2>2, <2>4, IdIs
    <3>2. roots'[id]["baseline"] = tree(x.base)
      BY Zenon, <1>2, <2>1, <2>2, <2>4 DEF RootsOK, Baselined, Entries
    <3>3. pc \in {"patch", "manifest"}
      BY Zenon, <1>1, <1>4, <2>4
    <3> QED  BY Zenon, <1>5, <2>1, <2>2, <3>1, <3>2, <3>3 DEF RootsOK, Baselined, Upping
  <2> QED  BY Zenon, <2>3, <2>4 DEF Roles
<1>8. ProjectsOK'
  BY Zenon, <1>2, <1>3, <1>5, <1>6 DEF ExpInv, ProjectsOK
<1>9. NothingLeft' /\ FlagsOK'
  BY Zenon, <1>3, <1>5, <1>6 DEF NothingLeft, FlagsOK
<1> QED  BY Zenon, <1>5, <1>7, <1>8, <1>9 DEF ExpInv

\* The manifest is written, or the directory is removed.
LEMMA ManifestInv ==
  ASSUME ExpInv, Manifest \/ PrepareFails
  PROVE  ExpInv'
<1>1. CASE Manifest
  <2> DEFINE pc == IF x.mode = "env" THEN "ended" ELSE "ports"
  <2>1. /\ x.pc = "manifest" /\ to(pc) /\ roots' = [roots EXCEPT ![id]["manifest"] = TRUE]
        /\ UNCHANGED <<gitVars, projects, evidence>>
    BY <1>1, Zenon DEF Manifest, quietGit, procVars
  <2>2. pc \in {"ended", "ports"}
    BY Zenon
  <2> HIDE DEF pc
  <2>3. /\ x' \in Process /\ x'.pc = pc /\ x'.built = x.built /\ x'.upped = x.upped /\ id' = id
        /\ x'.base = x.base /\ x'.patch = x.patch
        /\ x'.mode # "urls" /\ RepoOK' /\ EvidenceOK' /\ CommitsOK' /\ DiffOK'
    BY Zenon, <2>1, <2>2, PairStep DEF Filling, Upping
  <2>4. ~x.upped /\ ~x.built
    BY Zenon, <2>1, WithPair DEF Filling
  <2>5. RootsOK'
    <3>1. RootsOK /\ id \in DOMAIN roots
      BY Zenon, <2>1 DEF ExpInv, RootsOK
    <3>2. /\ DOMAIN roots' = DOMAIN roots
          /\ \A e \in DOMAIN roots' : DOMAIN roots'[e] = Entries
          /\ \A j \in Entries \ {"manifest"} : roots'[id][j] = roots[id][j]
      <4>1. "manifest" \in Entries /\ roots' = [roots EXCEPT ![id]["manifest"] = TRUE]
        BY Zenon, <2>1 DEF Entries
      <4> QED  BY <3>1, <4>1, RootWritten, Zenon
    <3>3. roots'[id]["baseline"] = tree(x.base) /\ roots'[id]["patch"] = tree(x.patch)
      BY Zenon, <2>1, <3>1, <3>2 DEF RootsOK, Baselined, Entries
    <3> QED  BY Zenon, <2>3, <3>1, <3>2, <3>3 DEF RootsOK
  <2>6. ProjectsOK'
    BY Zenon, <2>1, <2>2, <2>3, <2>4 DEF ExpInv, ProjectsOK
  <2>7. NothingLeft' /\ FlagsOK'
    BY Zenon, <2>2, <2>3, <2>4 DEF NothingLeft, FlagsOK
  <2> QED  BY Zenon, <2>3, <2>5, <2>6, <2>7 DEF ExpInv
<1>2. CASE PrepareFails
  <2>1. /\ x.pc \in Filling /\ to("ended") /\ roots' = Without(id)
        /\ UNCHANGED <<gitVars, projects, evidence>>
    BY Zenon, <1>2 DEF PrepareFails, quietGit, procVars, Roles, Filling
  <2>2. /\ x' \in Process /\ x'.pc = "ended" /\ x'.built = x.built /\ x'.upped = x.upped /\ id' = id
        /\ x'.mode # "urls" /\ RepoOK' /\ EvidenceOK' /\ CommitsOK' /\ DiffOK'
    BY Zenon, <2>1, PairStep
  <2>3. ~x.upped /\ ~x.built
    BY Zenon, <2>1, WithPair DEF Filling
  <2>4. RootsOK'
    <3>1. \A d \in DOMAIN roots' : DOMAIN roots'[d] = Entries
      BY Zenon, <2>1 DEF ExpInv, RootsOK, Without
    <3> QED  BY Zenon, <2>2, <3>1 DEF RootsOK, Baselined, Roles, Upping
  <2>5. ProjectsOK'
    BY Zenon, <2>1, <2>2, <2>3 DEF ExpInv, ProjectsOK
  <2>6. NothingLeft' /\ FlagsOK'
    BY Zenon, <2>2, <2>3 DEF NothingLeft, FlagsOK
  <2> QED  BY Zenon, <2>2, <2>4, <2>5, <2>6 DEF ExpInv
<1> QED  BY Zenon, <1>1, <1>2

-----------------------------------------------------------------------------
(* Up, the experiment, Down *)

\* The directory is left alone.
LEMMA SameRoots ==
  ASSUME ExpInv, UNCHANGED roots, id' = id, x'.base = x.base, x'.patch = x.patch,
         x.pc \in Upping \/ x'.pc \notin Upping, x'.pc \notin Roles \cup {"manifest"}
  PROVE  RootsOK'
<1>1. CASE x'.pc \in Upping
  <2>1. /\ id \in DOMAIN roots /\ roots[id]["baseline"] = tree(x.base)
        /\ roots[id]["patch"] = tree(x.patch)
    BY Zenon, <1>1 DEF ExpInv, RootsOK, Baselined, Upping
  <2> QED  BY Zenon, <2>1 DEF ExpInv, RootsOK
<1>2. CASE x'.pc \notin Upping
  BY Zenon, <1>2 DEF ExpInv, RootsOK, Baselined, Roles
<1> QED  BY Zenon, <1>1, <1>2

\* The ports are looked at.
LEMMA PortsInv ==
  ASSUME ExpInv, Ports
  PROVE  ExpInv'
<1>1. PICK pc \in {"upBaseline", "stop"} : to(pc)
  BY Zenon DEF Ports, Abort
<1>2. x.pc = "ports" /\ UNCHANGED <<gitVars, pairVars, evidence>>
  BY Zenon DEF Ports, quietGit, procVars
<1>3. /\ x' \in Process /\ x'.pc = pc /\ x'.built = x.built /\ x'.upped = x.upped /\ id' = id
      /\ x'.base = x.base /\ x'.patch = x.patch
      /\ x'.mode # "urls" /\ RepoOK' /\ EvidenceOK' /\ CommitsOK' /\ DiffOK'
  BY Zenon, <1>1, <1>2, PairStep DEF Upping
<1>4. ~x.upped /\ ~x.built
  BY Zenon, <1>2, WithPair DEF Upping
<1>5. RootsOK'
  BY Zenon, <1>2, <1>3, SameRoots DEF pairVars, Upping, Roles
<1>6. ProjectsOK'
  BY Zenon, <1>2, <1>3, <1>4 DEF ExpInv, ProjectsOK, pairVars
<1>7. NothingLeft' /\ FlagsOK'
  BY Zenon, <1>3, <1>4 DEF NothingLeft, FlagsOK
<1> QED  BY Zenon, <1>3, <1>5, <1>6, <1>7 DEF ExpInv

\* The baseline comes up: its port was free, and it is built from the directory.
LEMMA UpBaselineInv ==
  ASSUME ExpInv, UpBaseline
  PROVE  ExpInv'
<1>1. /\ x.pc = "upBaseline" /\ UNCHANGED <<gitVars, roots, evidence>>
      /\ \/ composeUp(id, "baseline") /\ x' = [x EXCEPT !.upped = TRUE, !.pc = "waitBaseline"]
         \/ projects' \in composeUpFails(id, "baseline") /\ x' = [x EXCEPT !.upped = TRUE, !.pc = "stop"]
  BY Zenon DEF UpBaseline, quietGit, procVars
<1>2. x \in Process /\ x.mode # "urls" /\ ~x.built
  BY Zenon, <1>1, WithPair DEF Upping
<1>3. PICK pc \in {"waitBaseline", "stop"} :
        /\ x' = [x EXCEPT !.upped = TRUE, !.pc = pc]
        /\ pc = "waitBaseline" => composeUp(id, "baseline")
        /\ pc = "stop" => projects' \in composeUpFails(id, "baseline")
  BY <1>1, Zenon
<1>4. pc \in Pcs
  BY Zenon DEF Pcs, Upping
<1>5. /\ x' \in Process /\ x'.pc = pc /\ x'.mode = x.mode /\ x'.base = x.base /\ x'.patch = x.patch
      /\ x'.diff = x.diff /\ x'.built = x.built
  BY <1>2, <1>3, <1>4, MovedUpped, Zenon
<1>6. CommitsOK' /\ DiffOK' /\ id' = id /\ RepoOK' /\ EvidenceOK'
  BY Zenon, <1>1, <1>2, <1>5, SameCommits, SameRepo DEF Early, Pinning
<1>7. RootsOK'
  BY Zenon, <1>1, <1>5, <1>6, SameRoots DEF Upping, Roles
<1>8. ProjectsOK'
  <2>1. portsOK(projects) /\ roots[id]["baseline"] = tree(x.base) /\ "baseline" \in Roles
    BY Zenon, <1>1 DEF ExpInv, ProjectsOK, RootsOK, Baselined, Upping, Roles
  <2>2. CASE pc = "waitBaseline"
    <3> DEFINE n == project(id, "baseline", TRUE)
    <3>1. ~taken("baseline") /\ projects' = others(id, "baseline") \cup {n}
      BY <1>3, <2>2, Zenon DEF composeUp
    <3>2. portsOK(projects')
      BY <2>1, <3>1, ProjectAdded, Zenon
    <3>3. n.role = "baseline" /\ n.bound = TRUE /\ n.tree = tree(x.base)
      BY Zenon, <2>1 DEF project
    <3> HIDE DEF n
    <3>4. \E p \in projects' : p.role = "baseline" /\ p.bound /\ p.tree = tree(x.base)
      BY Zenon, <3>1, <3>3
    <3> QED  BY Zenon, <1>5, <2>2, <3>2, <3>4 DEF ProjectsOK, serves
  <2>3. CASE pc = "stop"
    <3>1. portsOK(projects')
      BY Zenon, <1>3, <2>1, <2>3, UpFailed
    <3> QED  BY Zenon, <1>5, <2>3, <3>1 DEF ProjectsOK
  <2> QED  BY Zenon, <2>2, <2>3
<1>9. NothingLeft' /\ FlagsOK'
  BY Zenon, <1>2, <1>5 DEF NothingLeft, FlagsOK
<1> QED  BY Zenon, <1>5, <1>6, <1>7, <1>8, <1>9 DEF ExpInv

\* The patch comes up beside it.
LEMMA UpPatchInv ==
  ASSUME ExpInv, UpPatch
  PROVE  ExpInv'
<1>1. x.pc = "upPatch" /\ UNCHANGED <<gitVars, roots, evidence>>
  BY Zenon DEF UpPatch, quietGit, procVars
<1>2. PICK pc \in {"waitPatch", "fail"} :
        /\ to(pc)
        /\ pc = "waitPatch" => composeUp(id, "patch")
        /\ pc = "fail" => projects' \in composeUpFails(id, "patch")
  BY Zenon DEF UpPatch
<1>3. x.mode # "urls" /\ ~x.built
  BY Zenon, <1>1, WithPair DEF Upping
<1>4. /\ x' \in Process /\ x'.pc = pc /\ x'.built = x.built /\ id' = id
      /\ x'.base = x.base /\ x'.patch = x.patch
      /\ x'.mode # "urls" /\ RepoOK' /\ EvidenceOK' /\ CommitsOK' /\ DiffOK'
  BY Zenon, <1>1, <1>2, PairStep DEF Upping
<1>5. RootsOK'
  BY Zenon, <1>1, <1>4, SameRoots DEF Upping, Roles
<1>6. ProjectsOK'
  <2>1. /\ portsOK(projects) /\ roots[id]["patch"] = tree(x.patch) /\ "patch" \in Roles
        /\ serves("baseline", tree(x.base))
    BY Zenon, <1>1 DEF ExpInv, ProjectsOK, RootsOK, Baselined, Upping, Roles
  <2>2. CASE pc = "waitPatch"
    <3> DEFINE n == project(id, "patch", TRUE)
    <3>1. ~taken("patch") /\ projects' = others(id, "patch") \cup {n}
      BY <1>2, <2>2, Zenon DEF composeUp
    <3>2. portsOK(projects')
      BY <2>1, <3>1, ProjectAdded, Zenon
    <3>3. n.role = "patch" /\ n.bound = TRUE /\ n.tree = tree(x.patch)
      BY Zenon, <2>1 DEF project
    <3> HIDE DEF n
    <3>4. \E p \in projects' : p.role = "patch" /\ p.bound /\ p.tree = tree(x.patch)
      BY Zenon, <3>1, <3>3
    <3>5. \E p \in projects' : p.role = "baseline" /\ p.bound /\ p.tree = tree(x.base)
      BY Zenon, <2>1, <3>1 DEF serves, others
    <3> QED  BY Zenon, <1>4, <2>2, <3>2, <3>4, <3>5 DEF ProjectsOK, serves
  <2>3. CASE pc = "fail"
    <3>1. portsOK(projects')
      BY Zenon, <1>2, <2>1, <2>3, UpFailed
    <3> QED  BY Zenon, <1>3, <1>4, <2>3, <3>1 DEF ProjectsOK
  <2> QED  BY Zenon, <2>2, <2>3
<1>7. NothingLeft' /\ FlagsOK'
  BY Zenon, <1>3, <1>4 DEF NothingLeft, FlagsOK
<1> QED  BY Zenon, <1>4, <1>5, <1>6, <1>7 DEF ExpInv

\* The gateways answer, or the context ends first.
LEMMA WaitInv ==
  ASSUME ExpInv, Healthy \/ Unhealthy
  PROVE  ExpInv'
<1>1. x.pc \in {"waitBaseline", "waitPatch"} /\ UNCHANGED <<gitVars, roots, evidence>>
  BY Zenon DEF Healthy, Unhealthy, quietGit, procVars, pairVars
<1>2. x \in Process /\ x.mode # "urls" /\ ~x.built
  BY Zenon, <1>1, WithPair DEF Upping
<1>3. CASE x.pc = "waitBaseline" /\ to("upPatch") /\ UNCHANGED projects
  <2>1. /\ x' \in Process /\ x'.pc = "upPatch" /\ x'.built = x.built /\ id' = id
        /\ x'.base = x.base /\ x'.patch = x.patch
        /\ x'.mode # "urls" /\ RepoOK' /\ EvidenceOK' /\ CommitsOK' /\ DiffOK'
    BY Zenon, <1>1, <1>3, PairStep DEF Upping
  <2>2. RootsOK'
    BY Zenon, <1>1, <1>3, <2>1, SameRoots DEF Upping, Roles
  <2>3. ProjectsOK'
    BY Zenon, <1>2, <1>3, <2>1 DEF ExpInv, ProjectsOK, serves
  <2>4. NothingLeft' /\ FlagsOK'
    BY Zenon, <1>2, <2>1 DEF NothingLeft, FlagsOK
  <2> QED  BY Zenon, <2>1, <2>2, <2>3, <2>4 DEF ExpInv
<1>4. CASE x.pc = "waitPatch" /\ x' = [x EXCEPT !.built = TRUE, !.pc = "execute"] /\ UNCHANGED projects
  <2>1. "execute" \in Pcs
    BY Zenon, PcsAre
  <2>2. /\ x' \in Process /\ x'.pc = "execute" /\ x'.mode = x.mode /\ x'.base = x.base
        /\ x'.patch = x.patch /\ x'.diff = x.diff
    BY <1>2, <1>4, <2>1, MovedBuilt, Zenon
  <2>3. CommitsOK' /\ DiffOK' /\ id' = id /\ RepoOK' /\ EvidenceOK'
    BY Zenon, <1>1, <1>2, <2>2, SameCommits, SameRepo DEF Early, Pinning
  <2>4. RootsOK'
    BY Zenon, <1>1, <2>2, <2>3, SameRoots DEF Upping, Roles
  <2>5. ProjectsOK'
    BY Zenon, <1>4, <2>2 DEF ExpInv, ProjectsOK, serves
  <2>6. NothingLeft' /\ FlagsOK'
    BY Zenon, <1>2, <2>2 DEF NothingLeft, FlagsOK
  <2> QED  BY Zenon, <2>2, <2>3, <2>4, <2>5, <2>6 DEF ExpInv
<1>5. CASE Unhealthy
  <2>1. PICK pc \in {"stop", "fail"} : to(pc) /\ UNCHANGED projects
    BY Zenon, <1>5 DEF Unhealthy, Abort, pairVars
  <2>2. /\ x' \in Process /\ x'.pc = pc /\ x'.built = x.built /\ id' = id
        /\ x'.base = x.base /\ x'.patch = x.patch
        /\ x'.mode # "urls" /\ RepoOK' /\ EvidenceOK' /\ CommitsOK' /\ DiffOK'
    BY Zenon, <1>1, <2>1, PairStep DEF Upping
  <2>3. RootsOK'
    BY Zenon, <1>1, <2>2, SameRoots DEF Upping, Roles
  <2>4. ProjectsOK'
    BY Zenon, <1>2, <2>1, <2>2 DEF ExpInv, ProjectsOK
  <2>5. NothingLeft' /\ FlagsOK'
    BY Zenon, <1>2, <2>2 DEF NothingLeft, FlagsOK
  <2> QED  BY Zenon, <2>2, <2>3, <2>4, <2>5 DEF ExpInv
<1> QED  BY Zenon, <1>3, <1>4, <1>5 DEF Healthy, pairVars

\* Up's fail stops the baseline, or does not.
LEMMA FailInv ==
  ASSUME ExpInv, fail
  PROVE  ExpInv'
<1>1. /\ x.pc = "fail" /\ UNCHANGED <<gitVars, roots, evidence>>
      /\ to("stop") /\ projects' \subseteq projects
  BY Zenon DEF fail, Abort, downSides, quietGit, procVars
<1>2. x.mode # "urls" /\ ~x.built
  BY Zenon, <1>1, WithPair DEF Upping
<1>3. /\ x' \in Process /\ x'.pc = "stop" /\ x'.built = x.built /\ id' = id
      /\ x'.base = x.base /\ x'.patch = x.patch
      /\ x'.mode # "urls" /\ RepoOK' /\ EvidenceOK' /\ CommitsOK' /\ DiffOK'
  BY Zenon, <1>1, PairStep DEF Upping
<1>4. RootsOK'
  BY Zenon, <1>1, <1>3, SameRoots DEF Upping, Roles
<1>5. ProjectsOK'
  BY Zenon, <1>1, <1>2, <1>3, FewerProjects DEF ExpInv, ProjectsOK
<1>6. NothingLeft' /\ FlagsOK'
  BY Zenon, <1>2, <1>3 DEF NothingLeft, FlagsOK
<1> QED  BY Zenon, <1>3, <1>4, <1>5, <1>6 DEF ExpInv

\* The evidence is written: what it says was built was pinned and compared.
LEMMA ExecuteInv ==
  ASSUME ExpInv, Execute
  PROVE  ExpInv'
<1> DEFINE pc == IF x.mode = "urls" THEN "ended" ELSE "stop"
           e  == [base |-> x.base, patch |-> x.patch, diff |-> x.diff, built |-> x.built]
<1>1. /\ x.pc = "execute" /\ to(pc) /\ UNCHANGED <<gitVars, pairVars>>
      /\ evidence' \subseteq evidence \cup {e}
  BY Zenon DEF Execute, quietGit
<1>2. x \in Process /\ pc \in Pcs
  BY Zenon, PcsAre DEF ExpInv
<1>3. e.base = x.base /\ e.patch = x.patch /\ e.diff = x.diff /\ e.built = x.built
  BY Zenon
<1>4. (x.mode = "urls" <=> pc = "ended") /\ pc \in {"ended", "stop"}
  BY Zenon
<1> HIDE DEF pc, e
<1>5. /\ x' \in Process /\ x'.pc = pc /\ x'.mode = x.mode /\ x'.base = x.base
      /\ x'.patch = x.patch /\ x'.diff = x.diff /\ x'.built = x.built /\ x'.upped = x.upped
  BY <1>1, <1>2, Moved, Zenon
<1>6. x.mode = "urls" => ~x.built /\ ~x.upped
  BY Zenon DEF ExpInv, FlagsOK
<1>7. RepoOK'
  BY Zenon, <1>1 DEF ExpInv, RepoOK, gitVars
<1>8. CommitsOK' /\ DiffOK' /\ id' = id
  <2>1. CASE x.mode = "urls"
    BY Zenon, <1>4, <1>5, <2>1 DEF CommitsOK, Based, Patched, DiffOK, id
  <2>2. CASE x.mode # "urls"
    BY Zenon, <1>1, <1>4, <1>5, <2>2, SameCommits DEF Early, Pinning
  <2> QED  BY Zenon, <2>1, <2>2
<1>9. EvidenceOK'
  <2>1. e.built => e.diff = <<tree(e.base), tree(e.patch)>> /\ pinned(tree(e.patch))
    BY Zenon, <1>1, <1>3, <1>6 DEF ExpInv, DiffOK, Early, Pinning
  <2>2. \A f \in evidence' : f.built => f.diff = <<tree(f.base), tree(f.patch)>> /\ pinned(tree(f.patch))
    BY Zenon, <1>1, <2>1 DEF ExpInv, EvidenceOK
  <2> QED  BY Zenon, <1>1, <2>2 DEF EvidenceOK, pinned, gitVars
<1>10. RootsOK'
  BY Zenon, <1>1, <1>4, <1>5, <1>8, SameRoots DEF Upping, Roles, pairVars
<1>11. ProjectsOK'
  BY Zenon, <1>1, <1>4, <1>5 DEF ExpInv, ProjectsOK, pairVars
<1>12. NothingLeft' /\ FlagsOK'
  BY Zenon, <1>4, <1>5, <1>6 DEF NothingLeft, FlagsOK
<1> QED  BY Zenon, <1>5, <1>7, <1>8, <1>9, <1>10, <1>11, <1>12 DEF ExpInv

\* The deferred stopPair.
LEMMA StopInv ==
  ASSUME ExpInv, Stop
  PROVE  ExpInv'
<1>1. x.pc = "stop" /\ UNCHANGED <<gitVars, roots, evidence>>
  BY Zenon DEF Stop, quietGit, procVars
<1>2. PICK stuck \in SUBSET Roles :
        /\ projects' = downSides(projects, id, Roles, stuck)
        /\ x' = [x EXCEPT !.pc = "ended", !.down = IF stuck = {} THEN "ok" ELSE "failed"]
  BY Zenon DEF Stop
<1> DEFINE d == IF stuck = {} THEN "ok" ELSE "failed"
<1>3. x \in Process /\ x.mode # "urls" /\ "ended" \in Pcs /\ d \in {"ok", "failed"}
  BY Zenon, <1>1, WithPair, PcsAre
<1>4. d = "ok" => stuck = {}
  BY Zenon
<1> HIDE DEF d
<1>5. /\ x' \in Process /\ x'.pc = "ended" /\ x'.mode = x.mode /\ x'.base = x.base /\ x'.patch = x.patch
      /\ x'.diff = x.diff /\ x'.built = x.built /\ x'.down = d
  <2>1. x' = [x EXCEPT !.pc = "ended", !.down = d]
    BY Zenon, <1>2 DEF d
  <2> QED  BY <1>3, <2>1, MovedDown, Zenon
<1>6. CommitsOK' /\ DiffOK' /\ id' = id /\ RepoOK' /\ EvidenceOK'
  BY Zenon, <1>1, <1>3, <1>5, SameCommits, SameRepo DEF Early, Pinning
<1>7. RootsOK'
  BY Zenon, <1>1, <1>5, <1>6, SameRoots DEF Upping, Roles
<1>8. ProjectsOK'
  <2>1. projects' \subseteq projects
    BY Zenon, <1>2 DEF downSides
  <2> QED  BY Zenon, <1>5, <2>1, FewerProjects DEF ExpInv, ProjectsOK
<1>9. NothingLeft'
  <2>1. CASE d = "ok"
    <3>1. \A p \in projects' : p.id # id
      BY Zenon, <1>2, <1>4, <2>1 DEF downSides, ExpInv, ProjectsOK, portsOK
    <3> QED  BY Zenon, <1>6, <3>1 DEF NothingLeft
  <2>2. CASE d = "failed"
    BY Zenon, <1>5, <2>2 DEF NothingLeft
  <2> QED  BY Zenon, <1>3, <2>1, <2>2
<1>10. FlagsOK'
  BY Zenon, <1>3, <1>5 DEF FlagsOK
<1> QED  BY Zenon, <1>5, <1>6, <1>7, <1>8, <1>9, <1>10 DEF ExpInv

-----------------------------------------------------------------------------
(* The invariant, and what follows from it *)

\* The first state.
LEMMA InitInv ==
  ASSUME Init
  PROVE  ExpInv
<1>1. /\ head = <<by("developer", Root)>> /\ worktree = Draft /\ objects = {head} /\ pins = {}
      /\ roots = [d \in {} |-> {}] /\ projects = {} /\ evidence = {}
      /\ x = Fresh("none", NoDiff, "ended")
  BY Zenon DEF Init, GitInit, PairInit
<1>2. RepoOK
  <2>1. <<>> \in Histories /\ Append(<<>>, by("developer", Root)) = head
    BY <1>1 DEF Histories
  <2>2. head \in Commits /\ writer(head) = "developer"
    BY <2>1, GitAssumption, Appended, Zenon
  <2> QED  BY Zenon, <1>1, <2>2, GitAssumption DEF RepoOK
<1>3. x \in Process /\ x.pc = "ended" /\ x.mode = "none" /\ ~x.built /\ ~x.upped
  BY <1>1 DEF Fresh, Process, Histories, Diffs, Pcs
<1>4. CommitsOK /\ DiffOK /\ FlagsOK
  BY Zenon, <1>3 DEF CommitsOK, Based, Patched, DiffOK, FlagsOK
<1>5. RootsOK /\ ProjectsOK
  BY Zenon, <1>1, <1>3 DEF RootsOK, ProjectsOK, portsOK, Baselined, Roles, Upping
<1>6. EvidenceOK /\ NothingLeft
  BY Zenon, <1>1, <1>3 DEF EvidenceOK, NothingLeft
<1> QED  BY Zenon, <1>2, <1>3, <1>4, <1>5, <1>6 DEF ExpInv

\* Every step of a command, of the developer or of git keeps the invariant.
LEMMA NextInv ==
  ASSUME ExpInv, [Next]_vars
  PROVE  ExpInv'
<1>1. CASE Works
  BY <1>1, ReadHeadInv, SnapshotInv, DiffInv, PinInv, AnalyzeInv, DeclareInv, FailsInv, PrepareInv,
     FillInv, ManifestInv, PortsInv, UpBaselineInv, UpPatchInv, WaitInv, ExecuteInv, StopInv, Zenon
     DEF Works
<1>2. CASE RunExperiment \/ RunEnv \/ RunWorkflow
  BY Zenon, <1>2, StartInv
<1>3. CASE Healthy \/ fail
  BY Zenon, <1>3, WaitInv, FailInv
<1>4. CASE Timeout
  BY Zenon, <1>4, SameInv DEF Timeout
<1>5. CASE Kill
  BY Zenon, <1>5, KillInv
<1>6. CASE Others
  BY Zenon, <1>6, OthersInv
<1>7. CASE UNCHANGED vars
  BY Zenon, <1>7, SameInv DEF vars
<1> QED  BY Zenon, <1>1, <1>2, <1>3, <1>4, <1>5, <1>6, <1>7 DEF Next

\* In every reachable state the repository, the pair's directory, the containers and the
\* evidence are as the process's place in the program says.
THEOREM ExperimentInvariant == Spec => []ExpInv
BY InitInv, NextInv, PTL DEF Spec

\* A command that ran docker compose up leaves none of its pair's containers running, or
\* has printed that it could not stop them.
THEOREM LeavesNothing == Spec => []NothingLeft
<1>1. ExpInv => NothingLeft
  BY Zenon DEF ExpInv
<1> QED  BY <1>1, ExperimentInvariant, PTL

\* While an experiment with built revisions runs, each gateway's port is served by
\* containers built from the recorded tree, and by no others.
THEOREM ServesTheRecord == Spec => []ServedIsRecorded
<1>1. ASSUME ExpInv, x.pc = "execute", x.built, NEW role \in Roles
      PROVE  {p.tree : p \in {q \in projects : q.role = role /\ q.bound}} = {id[role]}
  <2>1. \E p \in projects : p.role = role /\ p.bound /\ p.tree = id[role]
    BY Zenon, <1>1, IdIs DEF ExpInv, ProjectsOK, serves, Roles
  <2>2. \A p, q \in projects : p.bound /\ q.bound /\ p.role = q.role => p = q
    BY Zenon, <1>1 DEF ExpInv, ProjectsOK, portsOK
  <2> HIDE DEF id
  <2> QED  BY Zenon, <2>1, <2>2
<1>2. ExpInv => ServedIsRecorded
  BY Zenon, <1>1 DEF ServedIsRecorded
<1> QED  BY <1>2, ExperimentInvariant, PTL

\* Evidence that says built rests on the analysis of the diff between the trees built.
THEOREM AnalysesTheBuild == Spec => []AnalysedIsBuilt
<1>1. ExpInv => AnalysedIsBuilt
  BY Zenon DEF ExpInv, EvidenceOK, AnalysedIsBuilt
<1> QED  BY <1>1, ExperimentInvariant, PTL

\* The patch tree of such evidence stays in the repository, through amends, garbage
\* collections and later pins.
THEOREM KeepsThePatch == Spec => []PatchKept
<1>1. ExpInv => PatchKept
  BY Zenon DEF ExpInv, EvidenceOK, PatchKept, RepoOK, pinned
<1> QED  BY <1>1, ExperimentInvariant, PTL

=============================================================================
