------------------------------- MODULE Spans -------------------------------
(***************************************************************************)
(* internal/ingest: what is kept of an OTLP export, and the window of      *)
(* recent traces that every analysis reads.  Ids are numbers, 0 being no   *)
(* id; names and routes are strings of a small alphabet; attributes that   *)
(* no later stage reads (status, duration, HTTP status) are left out.      *)
(***************************************************************************)
EXTENDS Integers, Sequences, FiniteSets, FiniteSetsExt

CONSTANTS
    MaxSpansBatch,      \* spans kept of one export
    MaxWindowSpans,     \* spans of one window
    DefaultTraceWindow,
    MaxTraceWindow

ASSUME SpansAssumption ==
    /\ MaxSpansBatch \in Nat \ {0} /\ MaxWindowSpans \in Nat \ {0}
    /\ MaxTraceWindow \in Nat \ {0} /\ DefaultTraceWindow \in 1 .. MaxTraceWindow

None == ""

NoSpan == 0

\* s[:n], or all of a shorter s.
upTo(s, n) == SubSeq(s, 1, IF Len(s) < n THEN Len(s) ELSE n)

\* The elements of S in the order of R, a strict order of them all: each is
\* where the number of those before it puts it.
orderBy(S, R) ==
    [k \in 1 .. Cardinality(S) |->
        CHOOSE x \in S : Cardinality({y \in S : <<y, x>> \in R}) = k - 1]

-----------------------------------------------------------------------------
(* Normalisation.  A span on the wire says whether its ids, its times and  *)
(* its parent id are well formed; the Span that is kept no longer does.    *)

\* normalizeSpan fails on a malformed id or a time beyond int64.
wellFormed(w) == w.ids /\ w.times

\* A malformed parent id is no parent.
normalizeSpan(w) ==
    [trace |-> w.trace, id |-> w.id, parent |-> IF w.parentOk THEN w.parent ELSE NoSpan,
     start |-> w.start, service |-> IF w.service = None THEN "unknown" ELSE w.service,
     name |-> w.name, kind |-> w.kind, method |-> w.method, route |-> w.route,
     function |-> w.function, file |-> w.file]

\* The positions of an export that are kept: a well-formed span, unless the
\* limit was reached before it.
taken(export) ==
    {i \in 1 .. Len(export) :
        /\ wellFormed(export[i])
        /\ Cardinality({j \in 1 .. i - 1 : wellFormed(export[j])}) < MaxSpansBatch}

\* What is kept, by position.
normalizeBatch(export) == [i \in taken(export) |-> normalizeSpan(export[i])]

\* What the exporter is told was not stored.
Rejected(export) == Len(export) - Cardinality(taken(export))

\* A span's primary key.
key(s) == <<s.trace, s.id>>

\* One row per key, the last one written; the store is a set of spans.
UpsertSpans(store, batch) ==
    {s \in store : \A i \in DOMAIN batch : key(batch[i]) # key(s)}
    \cup {batch[i] : i \in {j \in DOMAIN batch :
                \A k \in DOMAIN batch : k > j => key(batch[k]) # key(batch[j])}}

-----------------------------------------------------------------------------
(* The window in Go: SelectWindow over the spans it is given.              *)

\* strings.ToLower, on the spellings of the alphabet that it changes.
lower(s) ==
    CASE s = "GET /healthz" -> "get /healthz"
      [] s = "HEAD /healthz" -> "head /healthz"
      [] s = "GET /readyz" -> "get /readyz"
      [] s = "GET /livez" -> "get /livez"
      [] OTHER -> s

probeRoute(s) ==
    \/ lower(s.route) \in {"/healthz", "/livez", "/readyz", "/health"}
    \/ lower(s.name) \in {"get /healthz", "head /healthz", "/healthz", "get /readyz", "get /livez"}

ofTrace(spans, t) == {s \in spans : s.trace = t}

tracesOf(spans) == {s.trace : s \in spans}

probeOnly(spans) == \A s \in spans : probeRoute(s)

traceTouches(spans, service) == service = None \/ \E s \in spans : s.service = service

\* The start of a trace's newest span.
last(spans, t) == Max({s.start : s \in ofTrace(spans, t)})

\* The order of groupTraces: the newest trace first, equally new ones by id.
newer(spans, t, u) ==
    \/ last(spans, t) > last(spans, u)
    \/ last(spans, t) = last(spans, u) /\ t > u

\* The order of sortTraceSpans.
older(r, s) == r.start < s.start \/ (r.start = s.start /\ r.id < s.id)

normalizeTraceWindow(n) ==
    IF n <= 0 THEN DefaultTraceWindow ELSE IF n > MaxTraceWindow THEN MaxTraceWindow ELSE n

\* The traces that a window may show.
groupTraces(spans, service) ==
    {t \in tracesOf(spans) : /\ ~probeOnly(ofTrace(spans, t))
                             /\ traceTouches(ofTrace(spans, t), service)}

\* Mutant: probe traces use up the window.
aheadAll(spans, service, t) == {u \in tracesOf(spans) : newer(spans, u, t)}

\* Those that the loop of SelectWindow meets before a trace.
ahead(spans, service, t) == {u \in groupTraces(spans, service) : newer(spans, u, t)}

\* Whole traces, newest first, until there are enough traces or spans.
kept(spans, maxTraces, service) ==
    {t \in groupTraces(spans, service) :
        /\ Cardinality(ahead(spans, service, t)) < normalizeTraceWindow(maxTraces)
        /\ Cardinality({s \in spans : s.trace \in ahead(spans, service, t)}) < MaxWindowSpans}

\* The order of the spans in a window.
sooner(spans, r, s) == newer(spans, r.trace, s.trace) \/ (r.trace = s.trace /\ older(r, s))

\* The spans of the traces kept, in order; those beyond the cap are cut.
SelectWindow(spans, maxTraces, service) ==
    LET out == {s \in spans : s.trace \in kept(spans, maxTraces, service)}
    IN  upTo(orderBy(out, {p \in out \X out : sooner(spans, p[1], p[2])}), MaxWindowSpans)

\* internal/ingest/memory.go ListTraceWindow.
memoryWindow(store, maxTraces, service) == SelectWindow(store, maxTraces, service)

-----------------------------------------------------------------------------
(* The window of the PostgreSQL store: one statement picks the traces and  *)
(* at most MaxWindowSpans of their spans, oldest first, and SelectWindow   *)
(* runs over the rows.                                                     *)

sqlProbe(s) ==
    (IF s.route # None THEN s.route ELSE s.name) \in
        {"/healthz", "/livez", "/readyz", "/health", "GET /healthz", "HEAD /healthz"}

sqlCandidates(store, service) ==
    {t \in tracesOf(store) : /\ traceTouches(ofTrace(store, t), service)
                             /\ \E s \in ofTrace(store, t) : ~sqlProbe(s)}

\* ORDER BY R with LIMIT n: some n rows, none of them after a row left out.
limit(rows, R, n) ==
    {r \in SUBSET rows :
        /\ Cardinality(r) = IF Cardinality(rows) < n THEN Cardinality(rows) ELSE n
        /\ \A x \in r, y \in rows \ r : <<y, x>> \notin R}

\* The traces that "recent" may hold: MAX(start_time) does not order equal traces.
recent(store, maxTraces, service) ==
    LET traces == sqlCandidates(store, service)
    IN  limit(traces, {p \in traces \X traces : last(store, p[1]) > last(store, p[2])},
              normalizeTraceWindow(maxTraces))

\* The rows that traceWindowSQL may return for a choice of traces; spans of two
\* traces may be equal in its order.
windowRows(store, r) ==
    LET rows == {s \in store : s.trace \in r}
    IN  limit(rows, {p \in rows \X rows : older(p[1], p[2])}, MaxWindowSpans)

\* Every answer that internal/ingest/postgres.go ListTraceWindow may give.
postgresWindows(store, maxTraces, service) ==
    {SelectWindow(rows, maxTraces, service) :
        rows \in UNION {windowRows(store, r) : r \in recent(store, maxTraces, service)}}
=============================================================================
