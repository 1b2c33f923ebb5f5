------------------------------ MODULE Changes ------------------------------
(***************************************************************************)
(* The source side of internal/impact: which functions of the source graph *)
(* a diff changes, which call them, and which of its paths the analysis    *)
(* cannot account for.  A change is one file of a parsed diff: its path,   *)
(* its changed lines, and whether it is binary.  The cap on the number of  *)
(* findings listed (500) is left out.                                      *)
(***************************************************************************)
EXTENDS Integers, FiniteSets

CONSTANTS
    Files,          \* the files of the source graph
    Funcs,          \* its functions: [id, nth, file, name, line, end]
    Calls,          \* its call edges: <<caller id, callee id>>
    Inert           \* paths that do not change the built application

\* nth is the place of the function's id among all ids.  The loader knows the
\* end of what a FuncDecl declares; an interface method, which becomes a node
\* when it is called, has end 0.
ASSUME ChangesAssumption ==
    /\ IsFiniteSet(Funcs)
    /\ \A f \in Funcs : f.nth \in Nat /\ f.line \in Nat /\ f.end \in Nat
    /\ \A f, g \in Funcs : f.id = g.id \/ f.nth = g.nth => f = g

\* index: the functions of a file by their lines, and by their ids on one line.
before(f, g) ==
    f.file = g.file /\ (f.line < g.line \/ (f.line = g.line /\ f.nth < g.nth))

\* Mutant: only a function with an end has lines.
coversBodies(f, line) == f.line <= line /\ line < f.end + 1

\* A function's span: it ends after its last line; without an end, where the
\* next function of the file begins, or never.
covers(f, line) ==
    /\ f.line <= line
    /\ IF f.end >= f.line /\ f.end > 0 THEN line < f.end + 1
       ELSE \A g \in Funcs : before(f, g) => line < g.line

\* A changed line is matched with the first function whose span has it.
matched(path, line) ==
    {f \in Funcs : /\ f.file = path /\ covers(f, line)
                   /\ \A g \in Funcs : before(g, f) => ~covers(g, line)}

\* The functions that the changed lines of a file are matched with, and whether
\* some line is matched with none.
overlappingFuncs(change) == UNION {matched(change.path, l) : l \in change.lines}

outside(change) == \E l \in change.lines : matched(change.path, l) = {}

finding(change, source, reason) == [file |-> change.path, source |-> source, reason |-> reason]

\* A binary file is one finding; otherwise lines outside every function,
\* a file without any hit, and every function hit, each have their own.
directOf(change) ==
    IF change.path \notin Files THEN {}
    ELSE IF change.binary THEN {finding(change, change.path, "binary")}
    ELSE (IF outside(change) THEN {finding(change, change.path, "changed_outside_func")} ELSE {})
         \cup (IF overlappingFuncs(change) = {}
               THEN {finding(change, change.path, "changed_file")} ELSE {})
         \cup {finding(change, f.id, "changed_lines") : f \in overlappingFuncs(change)}

Direct(diff) == UNION {directOf(c) : c \in diff}

directID(diff) == {f.source : f \in {g \in Direct(diff) : g.reason = "changed_lines"}}

\* callerTargets: the changed functions that a function calls.
callerTargets(diff, id) == {t \in directID(diff) : <<id, t>> \in Calls}

watch(diff) == directID(diff) \cup {f.id : f \in {g \in Funcs : callerTargets(diff, g.id) # {}}}

\* Classify: a changed file is analysed when it has findings and each binds
\* changed lines to a function; otherwise it is told to be unanalysed.
Unanalyzed(diff) ==
    {p \in {c.path : c \in diff} \ Inert :
        LET own == {f \in Direct(diff) : f.file = p}
        IN  own = {} \/ \E f \in own : f.reason # "changed_lines"}

Bound(diff) ==
    {f.source : f \in {g \in Direct(diff) : g.file \notin Inert \cup Unanalyzed(diff)}}

-----------------------------------------------------------------------------
(* What is promised of a changed line                                      *)

\* A line counts as a function's when it is a line of its declaration, or
\* follows a method that has none with no other function in between.
countsAs(f, line) ==
    /\ f.line <= line
    /\ \/ f.end > 0 /\ line <= f.end
       \/ /\ f.end = 0 \/ f.end < f.line
          /\ ~\E g \in Funcs : before(f, g) /\ g.line <= line
=============================================================================
