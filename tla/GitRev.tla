------------------------------- MODULE GitRev -------------------------------
(***************************************************************************)
(* The developer's repository as internal/gitrev uses it.  A commit is its  *)
(* history, the sequence of module trees and authors from the root commit   *)
(* to its own, so that its parent is the sequence's front.  Other processes *)
(* own HEAD and the worktree: a developer edits, commits and amends while a *)
(* command runs, and git collects what no ref reaches.                      *)
(***************************************************************************)
EXTENDS Naturals, Sequences

CONSTANTS Trees,       \* contents of the module directory
          Root,        \* the tree of the first commit
          Draft,       \* what the worktree holds first
          MaxCommits,  \* bound: length of a history
          MaxEdits     \* bound: steps of the developer

ASSUME GitAssumption == {Root, Draft} \subseteq Trees /\ MaxCommits \in Nat \ {0} /\ MaxEdits \in Nat

VARIABLES head,      \* the commit HEAD names
          worktree,  \* what the module directory contains
          objects,   \* commits in the object store
          pins,      \* commits under refs/aquila/snapshots/, one for a tree
          edits      \* steps of the developer so far

gitVars == <<head, worktree, objects, pins, edits>>

\* A commit's content, by the developer or by aquila.
by(author, t) == [tree |-> t, author |-> author]
tree(c) == c[Len(c)].tree
parent(c) == SubSeq(c, 1, Len(c) - 1)
\* A ref to r keeps r and its ancestors.
reaches(r, c) == \E n \in 1..Len(r) : c = SubSeq(r, 1, n)

GitInit ==
  /\ head = <<by("developer", Root)>>
  /\ worktree = Draft
  /\ objects = {head} /\ pins = {} /\ edits = 0

-----------------------------------------------------------------------------
(* What Aquila does to the repository. *)

\* snapshot: a commit of tree t on the baseline, from a temporary index.  It has aquila's
\* name and message, so it is never a commit of the developer.
snapshot(base, t) == Append(base, by("aquila", t))
AddsCommit(c) == objects' = objects \cup {c}

\* Mutant: one ref for every snapshot.
PinOne(c) == pins' = IF c = head THEN pins ELSE {c}

\* Pin: nothing for the commit HEAD names now, else the ref of its tree moves to it.
Pin(c) == pins' = IF c = head THEN pins ELSE {p \in pins : tree(p) # tree(c)} \cup {c}

-----------------------------------------------------------------------------
(* The developer and git. *)

Edit == /\ edits < MaxEdits /\ edits' = edits + 1
        /\ \E t \in Trees \ {worktree} : worktree' = t
        /\ UNCHANGED <<head, objects, pins>>

\* git commit -a, or with --amend a commit in place of HEAD's.
CommitOn(onto) ==
  /\ edits < MaxEdits /\ edits' = edits + 1
  /\ worktree # tree(head) /\ Len(onto) < MaxCommits
  /\ head' = Append(onto, by("developer", worktree)) /\ AddsCommit(head')
  /\ UNCHANGED <<worktree, pins>>

\* gc prunes what no ref reaches, once it is older than any running command.
Gc ==
  /\ objects' = {c \in objects : \E r \in pins \cup {head} : reaches(r, c)}
  /\ UNCHANGED <<head, worktree, pins, edits>>

Developer == Edit \/ CommitOn(head) \/ CommitOn(parent(head))

=============================================================================
