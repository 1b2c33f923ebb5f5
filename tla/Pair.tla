-------------------------------- MODULE Pair --------------------------------
(***************************************************************************)
(* Pairs of shop environments (internal/pair): a directory for each pair,   *)
(* named by the two trees, and the compose projects docker runs from it.    *)
(* Both sides' gateways have fixed ports, the same for every pair.  docker  *)
(* is external: a command may fail and leave containers behind, with or     *)
(* without the gateway's port.                                              *)
(***************************************************************************)
EXTENDS GitRev

Roles == {"baseline", "patch"}

VARIABLES roots,     \* pair directories: id -> what they hold
          projects   \* compose projects with containers

pairVars == <<roots, projects>>

PairInit == roots = [d \in {} |-> {}] /\ projects = {}

\* Prepare's id, and the directory just made.
idOf(base, patch) == [baseline |-> tree(base), patch |-> tree(patch)]
emptyRoot == [baseline |-> "none", patch |-> "none", manifest |-> FALSE]

WithRoot(d, r) == [e \in DOMAIN roots \cup {d} |-> IF e = d THEN r ELSE roots[e]]
Without(d) == [e \in DOMAIN roots \ {d} |-> roots[e]]

\* downSides: every side is tried; those of stuck could not be stopped.
downSides(ps, d, sides, stuck) == {p \in ps : p.id = d /\ p.role \in sides => p.role \in stuck}

\* replaceRoot, then MkdirAll: with a manifest the old pair is stopped, an error of
\* which is ignored; the directory is made anew in any case.
replaceRoot(d, stuck) ==
  /\ projects' = IF d \in DOMAIN roots /\ roots[d].manifest
                   THEN downSides(projects, d, Roles, stuck) ELSE projects
  /\ roots' = WithRoot(d, emptyRoot)

\* Mutant: the patch is copied from the worktree.
MaterializeCopy(d, role) ==
  roots' = [roots EXCEPT ![d][role] = IF roots[d][role] = "none" THEN "part"
                                      ELSE IF role = "patch" THEN worktree ELSE d[role]]

\* Materialize opens the directory, and fills it from the object store.
Materialize(d, role) ==
  roots' = [roots EXCEPT ![d][role] = IF roots[d][role] = "none" THEN "part" ELSE d[role]]

\* portsFree listens on both gateways' ports.
taken(role) == \E p \in projects : p.role = role /\ p.bound
portsFree == \A role \in Roles : ~taken(role)

\* docker compose up -d --build: builds what the side's directory holds.
project(d, role, bound) == [id |-> d, role |-> role, tree |-> roots[d][role], bound |-> bound]
others(d, role) == {p \in projects : ~(p.id = d /\ p.role = role)}
composeUp(d, role) ==
  ~taken(role) /\ projects' = others(d, role) \cup {project(d, role, TRUE)}
composeUpFails(d, role) ==
  {projects} \cup {others(d, role) \cup {project(d, role, bound)} :
                     bound \in {b \in BOOLEAN : b => ~taken(role)}}

=============================================================================
