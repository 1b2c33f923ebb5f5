----------------------------- MODULE Telemetry -----------------------------
(***************************************************************************)
(* What the commands conclude from the stored spans: they read a window of *)
(* the store, whatever batches have reached it by then, and analyse a      *)
(* change against it.                                                      *)
(***************************************************************************)
EXTENDS Ingest, Impact

CONSTANTS
    Diffs,          \* the changes analysed
    Windows,        \* window sizes asked for
    Services        \* service filters asked for, None included

ASSUME TelemetryAssumption ==
    /\ Windows \subseteq Int
    /\ \A diff \in Diffs : \A c \in diff : c.lines \subseteq Nat

-----------------------------------------------------------------------------
(* What a window is                                                        *)

\* A window depends on the stored spans alone, and whatever spans are stored
\* could be so with every answer lost and the server restarted: what is said
\* of windows is said of states without requests and answers.
AtRest == \A e \in DOMAIN Exports : request[e] = "idle" /\ told[e] = Waiting

\* Every window that can be read now, by size and service.
Readable(n, service) ==
    postgresWindows(spans, n, service) \cup {memoryWindow(spans, n, service)}

serving(service) ==
    {t \in tracesOf(spans) : traceTouches(ofTrace(spans, t), service)}

\* The traces that a window of n is meant to show.
wanted(n, service) ==
    LET shown == {t \in serving(service) : ~probeOnly(ofTrace(spans, t))}
    IN  {t \in shown : Cardinality({u \in shown : last(spans, u) > last(spans, t)})
                            < normalizeTraceWindow(n)}

\* The two probe lists take the same traces of a service for probes.
probesAgree(service) ==
    \A t \in serving(service) :
        probeOnly(ofTrace(spans, t)) <=> \A s \in ofTrace(spans, t) : sqlProbe(s)

\* Where the probe lists of traceWindowSQL and probeRoute agree, no two traces
\* are equally new and the span cap does not bite, both stores answer a window
\* with exactly the whole traces wanted: the newest ones of the service that
\* are not health probes.
WindowNewest ==
    AtRest => \A n \in Windows, service \in Services :
        LET whole == {s \in spans : s.trace \in wanted(n, service)}
        IN  /\ probesAgree(service)
            /\ \A t, u \in tracesOf(spans) : t # u => last(spans, t) # last(spans, u)
            /\ Cardinality(whole) <= MaxWindowSpans
            => \A w \in Readable(n, service) : Range(w) = whole /\ Len(w) = Cardinality(whole)

-----------------------------------------------------------------------------
(* What is concluded from a window                                         *)

\* The ways down from a root to a span, within the spans of a trace.
Lines(S) ==
    {q \in UNION {[1 .. n -> S] : n \in 1 .. Cardinality(S)} :
        /\ q[1].parent = NoSpan
        /\ \A i \in 1 .. Len(q) - 1 : q[i + 1].parent = q[i].id}

\* The span that a line leads to, and the routed servers on it.
foot(q) == q[Len(q)]

routedOn(q) == {i \in 1 .. Len(q) : routedServer(q[i])}

\* The lines that have an entry, the first routed server.
entered(S) == {q \in Lines(S) : routedOn(q) # {}}

entryOfLine(q) == q[Min(routedOn(q))]

\* However much of a trace has arrived or was cut from the window, and in
\* whatever order the map of spans is ranged over, the entry that traceEntries
\* gives a span is the one it really has, and it gives one as soon as the
\* span's whole ancestry is in the window ("Missing parents and cycles do not
\* establish an entry route").
EntryNeverWrong ==
    AtRest => \A n \in Windows, service \in Services : \A w \in Readable(n, service) :
        \A t \in tracesOf(Range(w)) :
            LET nodes == byID(Range(w), t)
                own == entered(ofTrace(Range(w), t))
                real == [id \in {foot(q).id : q \in own} |->
                            entryOfLine(CHOOSE q \in own : foot(q).id = id).id]
            IN  \A order \in orders(DOMAIN nodes) : traceEntries(nodes, order) = real

\* The functions of which a diff changes a line; a line that counts as one of
\* several functions is the earliest one's.
changed(diff) ==
    {f \in Funcs : \E c \in diff : \E l \in c.lines :
        /\ ~c.binary /\ c.path = f.file /\ c.path \in Files
        /\ countsAs(f, l) /\ ~\E g \in Funcs : before(g, f) /\ countsAs(g, l)}

\* These functions and their callers.
affected(diff) ==
    {f \in Funcs : f \in changed(diff) \/ \E g \in changed(diff) : <<f.id, g.id>> \in Calls}

\* The routes reported for a change are entry routes by which an affected
\* function was really reached in the window, and all of them unless the
\* bindings or findings were cut (locate.Bind, impact.Analyze, RuntimeRoutes).
\* What follows an interface method in its file, up to the next function,
\* counts as a change of the method and affects its callers (overlappingFuncs).
RoutesExact ==
    AtRest => \A n \in Windows, service \in Services : \A w \in Readable(n, service), diff \in Diffs :
        LET reached == {q \in UNION {entered(ofTrace(Range(w), t)) : t \in tracesOf(Range(w))} :
                            \E f \in affected(diff) : hits(foot(q)) = {f}}
            exact(found, routes) ==
                /\ RuntimeRoutes(found) \subseteq routes
                /\ \/ RuntimeRoutes(found) = routes
                   \/ Cardinality(boundAt(w)) > MaxBindings
                   \/ Cardinality(found) = MaxFindings
        IN  exact(Runtime(w, diff), {routeLabel(entryOfLine(q)) : q \in reached})
=============================================================================
