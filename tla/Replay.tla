------------------------------- MODULE Replay -------------------------------
(***************************************************************************)
(* internal/replay: what two replays of a workload tell about a patch.  A  *)
(* request is a method and the segments of its path.  An observation is    *)
(* what one request met: a transport error, or a status and a body; a body *)
(* is what is compared of it and what is volatile (ids, timestamps).       *)
(***************************************************************************)
EXTENDS Integers, Sequences, FiniteSets

CONSTANTS
    ShiftRatio,     \* a shift is more than this many times the baseline median
    ShiftMin        \* and at least this much slower

ASSUME ReplayAssumption == ShiftRatio \in Nat \ {0} /\ ShiftMin \in Nat

-----------------------------------------------------------------------------
(* impact.RouteMatches                                                     *)

wild(segment) == segment \in {"{id}", ":id"}

RouteMatches(route, request) ==
    /\ route.method = request.method
    /\ Len(route.path) = Len(request.path)
    /\ \A i \in 1 .. Len(route.path) :
          \/ route.path[i] = request.path[i]
          \/ wild(route.path[i]) /\ request.path[i] # ""

-----------------------------------------------------------------------------
(* Compare                                                                 *)

authStatus(code) == code \in {401, 403}

\* jsonNotes: JSON is compared without its volatile keys, anything else as bytes.
sameBody(a, b) ==
    /\ a.json = b.json
    /\ a.stable = b.stable
    /\ a.json \/ a.volatile = b.volatile

\* compareObs: the delta of one request.  The statuses are recorded only when
\* both sides were answered.
compareObs(a, b) ==
    LET delta(verdict, base, patch, rejected) ==
            [request |-> a.request, verdict |-> verdict, base |-> base, patch |-> patch,
             rejected |-> rejected]
    IN  IF a.request # b.request \/ a.err \/ b.err THEN delta("incomplete", 0, 0, FALSE)
        ELSE IF authStatus(a.status) /\ authStatus(b.status)
             THEN delta("incomplete", a.status, b.status, TRUE)
        ELSE delta(IF a.status = b.status /\ sameBody(a.body, b.body) THEN "match" ELSE "differ",
                   a.status, b.status, FALSE)

\* Incomplete outweighs different.
worst(verdicts) ==
    IF "incomplete" \in verdicts THEN "incomplete"
    ELSE IF "differ" \in verdicts THEN "differ" ELSE "match"

shorter(s, t) == IF Len(s) < Len(t) THEN Len(s) ELSE Len(t)

deltas(base, patch) == [i \in 1 .. shorter(base, patch) |-> compareObs(base[i], patch[i])]

\* Compare: two replays of the same workload.
Compare(base, patch) ==
    [verdict |-> IF Len(base) # Len(patch) THEN "incomplete"
                 ELSE worst({deltas(base, patch)[i].verdict : i \in 1 .. shorter(base, patch)}),
     steps |-> deltas(base, patch)]

-----------------------------------------------------------------------------
(* Latency                                                                 *)

\* The runs of a side in which request i was answered.
successful(runs, i) ==
    {k \in 1 .. Len(runs) : /\ i <= Len(runs[k]) /\ ~runs[k][i].err
                            /\ runs[k][i].status > 0 /\ runs[k][i].took > 0}

\* Summarize: how many samples, and their nearest-rank median (0 of none).
Summarize(runs, i) ==
    LET ok == successful(runs, i)
        n == Cardinality(ok)
        rank == (n + 1) \div 2
        median == CHOOSE d \in {runs[k][i].took : k \in ok} :
                    /\ Cardinality({k \in ok : runs[k][i].took < d}) < rank
                    /\ Cardinality({k \in ok : runs[k][i].took <= d}) >= rank
    IN  [n |-> n, median |-> IF n = 0 THEN 0 ELSE median]

\* Latency: one row per request of the first runs.
Latency(base, patch) ==
    [i \in 1 .. shorter(base[1], patch[1]) |->
        [request |-> base[1][i].request, base |-> Summarize(base, i), patch |-> Summarize(patch, i)]]

Shifted(row) ==
    /\ row.base.n # 0 /\ row.patch.n # 0
    /\ row.patch.median > ShiftRatio * row.base.median
    /\ row.patch.median - row.base.median >= ShiftMin

-----------------------------------------------------------------------------
(* Burst                                                                   *)

\* The requests of all the parallel replays, by run and place.
sent(runs) == UNION {{k} \X (1 .. Len(runs[k])) : k \in 1 .. Len(runs)}

\* burstErrors: those that failed or met a 5xx.
burstErrors(runs) ==
    Cardinality({x \in sent(runs) : LET o == runs[x[1]][x[2]]
                                    IN  o.err \/ o.status >= 500 \/ o.status = 0})

burstTotal(runs) == Cardinality(sent(runs))

\* Mutant: fewer errors of the patch count as a match.
compareBurstOneSided(base, patch) ==
    IF burstTotal(base) = 0 \/ burstTotal(patch) = 0 THEN "incomplete"
    ELSE IF burstErrors(patch) > burstErrors(base) THEN "differ" ELSE "match"

\* compareBurst: different error counts, either way, are a difference.
compareBurst(base, patch) ==
    IF burstTotal(base) = 0 \/ burstTotal(patch) = 0 THEN "incomplete"
    ELSE IF burstErrors(patch) # burstErrors(base) THEN "differ" ELSE "match"
=============================================================================
