------------------------------- MODULE Impact -------------------------------
(***************************************************************************)
(* internal/locate and the runtime side of internal/impact: spans are      *)
(* bound to source functions by their code attributes, the changed         *)
(* functions and their direct callers are looked up among the bindings,    *)
(* and each binding counts for the entry route of its span.  The wording   *)
(* of findings, their sorting and the observed paths are left out.         *)
(***************************************************************************)
EXTENDS TraceGraph, Changes

CONSTANTS MaxBindings, MaxFindings

ASSUME ImpactAssumption == MaxBindings \in Nat \ {0} /\ MaxFindings \in Nat \ {0}

-----------------------------------------------------------------------------
(* locate.Bind                                                             *)

\* The functions a span's code attributes name; a binding needs exactly one.
hits(s) == {f \in Funcs : s.function # None /\ f.file = s.file /\ f.name = s.function}

bindOne(s) == Cardinality(hits(s)) = 1

\* Where a window has spans that bind, and the bindings kept of them.
boundAt(window) == {k \in DOMAIN window : bindOne(window[k])}

Bind(window) ==
    {window[k] : k \in {i \in boundAt(window) :
                            Cardinality({j \in boundAt(window) : j < i}) < MaxBindings}}

sourceOf(s) == (CHOOSE f \in hits(s) : TRUE).id

-----------------------------------------------------------------------------
(* impact.Analyze                                                          *)

NoRoute == <<>>

routeLabel(s) == <<s.method, s.route>>

\* The label of the entry span of a binding.  Any order of the map yields the
\* same entries; this takes one.
entryRoute(nodes, s) ==
    LET order == CHOOSE o \in orders(DOMAIN nodes) : TRUE
        label(e) == IF e = NoSpan THEN NoRoute ELSE routeLabel(nodes[e])
    IN  label(EntryForSpan(nodes, s.id, order))

\* boundFindings: a binding without an entry route is one finding; otherwise
\* it is observed when its function changed, inferred when it calls one.
boundFindings(route, diff, s) ==
    LET id == sourceOf(s)
        ps == IF route = NoRoute THEN {"code_attrs"}
              ELSE {p \in {"trace_entry", "trace_entry_caller"} :
                        IF p = "trace_entry" THEN id \in directID(diff)
                        ELSE callerTargets(diff, id) # {}}
    IN  {[source |-> id, route |-> route, provenance |-> p, trace |-> s.trace, span |-> s.id] :
            p \in ps}

\* The findings of the bindings of a window.
bound(window, diff) ==
    UNION {boundFindings(entryRoute(byID(Range(window), s.trace), s), diff, s) :
            s \in {r \in Bind(window) : sourceOf(r) \in watch(diff)}}

\* The order they come in: the bindings sorted by trace and span, the observed
\* finding of a binding before the inferred one.
comesBefore(f, g) ==
    \/ f.trace < g.trace
    \/ f.trace = g.trace /\ f.span < g.span
    \/ /\ f.trace = g.trace /\ f.span = g.span
       /\ f.provenance = "trace_entry" /\ g.provenance = "trace_entry_caller"

\* One finding per source, route and provenance (seenBind).
distinct(findings) ==
    {f \in findings : \A g \in findings :
        comesBefore(g, f) => <<g.source, g.route, g.provenance>> # <<f.source, f.route, f.provenance>>}

\* appendFinding: the findings up to the cap.
appendFinding(findings) ==
    {f \in findings : Cardinality({g \in findings : comesBefore(g, f)}) < MaxFindings}

\* The runtime findings of a report.
Runtime(window, diff) == appendFinding(distinct(bound(window, diff)))

\* The impacted routes of a report.
RuntimeRoutes(runtime) == {f.route : f \in runtime} \ {NoRoute}
=============================================================================
