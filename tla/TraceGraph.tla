---------------------------- MODULE TraceGraph ----------------------------
(***************************************************************************)
(* internal/graph, the part that decides what a span is attributed to: the *)
(* entry route, the root-most routed server span of its ancestry.  The     *)
(* code walks each span's parents in the order a Go map yields the spans   *)
(* and shares the results between the walks.                               *)
(***************************************************************************)
EXTENDS Spans

\* The spans of one trace by id (traces[s.TraceID] in Build).
byID(spans, t) == [i \in {s.id : s \in ofTrace(spans, t)} |->
                      CHOOSE s \in ofTrace(spans, t) : s.id = i]

routedServer(s) == s.kind = "server" /\ s.method # None /\ s.route # None

\* What is known of a span's ancestry: whether it reaches a root, and the
\* entry span found so far, NoSpan when there is none.
Unknown == [complete |-> FALSE, entry |-> NoSpan]

Rooted == [complete |-> TRUE, entry |-> NoSpan]

\* The way up from a span, parent by parent.
ancestors(nodes, id) ==
    LET parentOf(i) == IF i \in DOMAIN nodes THEN nodes[i].parent ELSE NoSpan
        up[k \in Nat] == IF k = 0 THEN id ELSE parentOf(up[k - 1])
    IN  up

\* The walk stops at a resolved span, a missing one, a span seen before, and
\* above a root.
stops(nodes, resolved, up, k) ==
    \/ up[k] \in DOMAIN resolved
    \/ up[k] \notin DOMAIN nodes
    \/ \E j \in 0 .. k - 1 : up[j] = up[k]

\* The spans met before the walk stops, and what it has learnt there.
climb(nodes, resolved, id) ==
    LET up == ancestors(nodes, id)
        n == Min({k \in 0 .. Cardinality(DOMAIN nodes) : stops(nodes, resolved, up, k)})
    IN  [chain |-> [k \in 1 .. n |-> up[k - 1]],
         parent |-> IF up[n] \in DOMAIN resolved THEN resolved[up[n]]
                    ELSE IF up[n] = NoSpan THEN Rooted ELSE Unknown]

\* Mutant: the nearest routed server instead of the root-most one.
inheritNearest(nodes, parent, id) ==
    IF parent.complete /\ routedServer(nodes[id])
    THEN [complete |-> TRUE, entry |-> id] ELSE parent

\* A span has its parent's ancestry, and is itself the entry when there is none yet.
inherit(nodes, parent, id) ==
    IF parent.complete /\ parent.entry = NoSpan /\ routedServer(nodes[id])
    THEN [complete |-> TRUE, entry |-> id] ELSE parent

\* The way back down the chain.
descend(nodes, walk, resolved) ==
    LET n == Len(walk.chain)
        back[k \in 0 .. n] ==
            IF k = 0 THEN walk.parent ELSE inherit(nodes, back[k - 1], walk.chain[n + 1 - k])
    IN  [i \in DOMAIN resolved \cup Range(walk.chain) |->
            IF i \in DOMAIN resolved THEN resolved[i]
            ELSE back[CHOOSE k \in 1 .. n : walk.chain[n + 1 - k] = i]]

resolve(nodes, resolved, id) == descend(nodes, climb(nodes, resolved, id), resolved)

\* The spans whose ancestry reaches a root and has an entry.
entriesOf(resolved) ==
    [id \in {i \in DOMAIN resolved : resolved[i].complete /\ resolved[i].entry # NoSpan} |->
        resolved[id].entry]

\* traceEntries, for one order of the map's keys: entry span by span id.
traceEntries(nodes, order) ==
    LET resolved[k \in 0 .. Len(order)] ==
            IF k = 0 THEN [i \in {} |-> Unknown] ELSE resolve(nodes, resolved[k - 1], order[k])
    IN  entriesOf(resolved[Len(order)])

\* The orders in which a Go map may yield its keys.
orders(keys) == Bijection(1 .. Cardinality(keys), keys)

\* Build's entryBySpan: the entry span of a span, or NoSpan.
EntryForSpan(nodes, id, order) ==
    LET entry(entries) == IF id \in DOMAIN entries THEN entries[id] ELSE NoSpan
    IN  entry(traceEntries(nodes, order))
=============================================================================
