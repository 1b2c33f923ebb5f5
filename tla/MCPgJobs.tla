------------------------------ MODULE MCPgJobs ------------------------------
(***************************************************************************)
(* Small instances of PgJobs: plans, gateways and slot counts for the .cfg  *)
(* files.                                                                   *)
(***************************************************************************)
EXTENDS PgJobs, TLC

step(id, op, deps) == [id |-> id, op |-> op, deps |-> deps]
url(host, port, path) == [scheme |-> "http", host |-> host, port |-> port, path |-> path]

\* env, then behavior, as FromImpact lays them out.
Core == <<step("env", FALSE, {}), step("behavior", FALSE, {"env"})>>
\* Two steps share an id, of which the last, an operator's, counts; the third needs
\* it; the fourth needs a step that does not exist.
Odd == <<step("a", FALSE, {}), step("a", TRUE, {}), step("b", FALSE, {"a"}), step("c", FALSE, {"gone"})>>
Pair == <<step("env", FALSE, {}), step("lint", FALSE, {})>>
Single == <<step("env", FALSE, {})>>

LifePlans == {Core, Odd}
PairPlans == {Pair}
SinglePlans == {Single}

OneUrl == {url("a", "80", "/")}
\* Two spellings of one gateway, and another.
QuotaUrls == {url("a", "80", "/"), url("a", "80", "/x"), url("b", "80", "/")}
PortUrls == {url("a", "80", "/"), url("a", "81", "/")}

NoSlots == [w \in Workers |-> 0]
OneSlot == [w \in Workers |-> 1]
TwoSlots == [w \in Workers |-> 2]

\* The specification treats workers alike unless their slots differ.
WorkerSymmetry == Permutations(Workers)
AdmissionSymmetry == Permutations(Workers) \cup Permutations(Services)

=============================================================================
