------------------------------ MODULE MCFabric ------------------------------
(***************************************************************************)
(* Small instances of Fabric.                                               *)
(***************************************************************************)
EXTENDS Fabric, TLC

act(id, kind, deps) == [id |-> id, op |-> FALSE, deps |-> deps, kind |-> kind, n |-> 1]

\* A step whose result is cached and one whose result is not, independent.
FabricPlans == {<<act("b", "behavior", {}), act("e", "env", {})>>}
OneUrl == {[scheme |-> "http", host |-> "a", port |-> "80", path |-> "/"]}

JobKeys == [scope : 1..MaxJobs, kind : {"behavior"}, n : {1}]

WorkerSymmetry == Permutations(Workers)

=============================================================================
