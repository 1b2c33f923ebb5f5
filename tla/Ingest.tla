------------------------------- MODULE Ingest -------------------------------
(***************************************************************************)
(* Exporters send batches of spans to POST /v1/traces, which stores them.  *)
(* Batches of one trace come from several services, in any order, may fail *)
(* or lose their answer and are then sent again; the server may restart.   *)
(* A batch is one implicit transaction of the PostgreSQL store, which ends *)
(* after the result of its last statement.                                 *)
(***************************************************************************)
EXTENDS Spans

CONSTANT Exports    \* the batches: a function to sequences of wire spans

VARIABLES
    spans,          \* aquila.spans
    request,        \* what an exporter's current request has reached
    told,           \* the rejected count each exporter was told, or Waiting
    unkept          \* ghost: exporters answered although their commit failed

vars == <<spans, request, told, unkept>>

Waiting == -1

\* Every span that was ever produced, as it is stored.
World == {normalizeSpan(w) : w \in {v \in UNION {Range(Exports[e]) : e \in DOMAIN Exports} :
                                        wellFormed(v)}}

ASSUME IngestAssumption ==
    /\ \A e \in DOMAIN Exports : Exports[e] \in Seq(Range(Exports[e]))
    /\ \A r, s \in World : r.trace = s.trace /\ r.id = s.id => r = s
    /\ \A s \in World : s.trace \in Nat /\ s.start \in Nat /\ s.id \in Nat \ {NoSpan}

Init ==
    /\ spans = {}
    /\ request = [e \in DOMAIN Exports |-> "idle"]
    /\ told = [e \in DOMAIN Exports |-> Waiting]
    /\ unkept = {}

\* An exporter sends a batch it has no answer for, the first time or again.
Send(e) ==
    /\ request[e] = "idle" /\ told[e] = Waiting
    /\ request' = [request EXCEPT ![e] = "sent"]
    /\ UNCHANGED <<spans, told, unkept>>

\* Mutant: every statement of the batch commits on its own.
StoreSome(e) ==
    /\ request[e] = "sent"
    /\ \E k \in taken(Exports[e]) :
          spans' = UpsertSpans(spans, Restrict(normalizeBatch(Exports[e]), taken(Exports[e]) \cap 1 .. k))
    /\ request' = [request EXCEPT ![e] = "stored"]
    /\ UNCHANGED <<told, unkept>>

\* handleOTLPTraces up to the end of UpsertSpans.
Store(e) ==
    /\ request[e] = "sent"
    /\ spans' = UpsertSpans(spans, normalizeBatch(Exports[e]))
    /\ request' = [request EXCEPT ![e] = "stored"]
    /\ UNCHANGED <<told, unkept>>

\* Every statement of the batch has its result, then the commit fails.  Only
\* br.Close() says so, and UpsertSpans ignores it and reports success.
CommitFails(e) ==
    /\ request[e] = "sent"
    /\ request' = [request EXCEPT ![e] = "dropped"]
    /\ UNCHANGED <<spans, told, unkept>>

\* The batch is rolled back (a deadlock with another batch, a cancelled
\* request); the exporter gets a 500 and keeps the batch.
StoreFails(e) ==
    /\ request[e] = "sent"
    /\ request' = [request EXCEPT ![e] = "idle"]
    /\ UNCHANGED <<spans, told, unkept>>

\* The answer, with the rejected count as its partial success.
Answer(e) ==
    /\ request[e] \in {"stored", "dropped"}
    /\ request' = [request EXCEPT ![e] = "idle"]
    /\ told' = [told EXCEPT ![e] = Rejected(Exports[e])]
    /\ unkept' = IF request[e] = "dropped" THEN unkept \cup {e} ELSE unkept
    /\ UNCHANGED spans

\* The answer is lost, or the exporter stopped waiting for it.
Lose(e) ==
    /\ request[e] \in {"stored", "dropped"}
    /\ request' = [request EXCEPT ![e] = "idle"]
    /\ UNCHANGED <<spans, told, unkept>>

\* The server restarts: what was not committed is gone, and so is every answer.
Restart ==
    /\ request' = [e \in DOMAIN Exports |-> "idle"]
    /\ UNCHANGED <<spans, told, unkept>>

Next ==
    \/ \E e \in DOMAIN Exports :
          \/ Send(e) \/ Store(e) \/ CommitFails(e) \/ StoreFails(e)
          \/ Answer(e) \/ Lose(e)
    \/ Restart

Spec == Init /\ [][Next]_vars
-----------------------------------------------------------------------------
(* What an export keeps                                                    *)

\* An exporter that has its answer knows of every span that is missing, if the
\* commit of the answered batch did not fail after its last result: those of
\* its batch that are not stored are no more than the rejected count, and they
\* stay stored whatever batches, retries and restarts follow (handleOTLPTraces
\* answers after UpsertSpans, with rep.Rejected()).  Where that commit failed,
\* the exporter is told the same, and nothing need be stored.
ExportKept ==
    \A e \in DOMAIN Exports \ unkept : told[e] # Waiting =>
        Cardinality({i \in 1 .. Len(Exports[e]) :
            ~(wellFormed(Exports[e][i]) /\ normalizeSpan(Exports[e][i]) \in spans)}) <= told[e]
=============================================================================
