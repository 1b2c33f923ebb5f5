---------------------------- MODULE ShopInventory ----------------------------
(***************************************************************************)
(* The shop's inventory service, examples/shop/internal/inventory/handler.go: *)
(* mutate, the handler of POST /reserve and POST /release, under the global *)
(* Redis lock.  The lock has a time to live, and the handler that returns   *)
(* deletes it whoever set it, so several handlers may be past SetNX.        *)
(***************************************************************************)
EXTENDS Integers

CONSTANTS Skus,      \* the items on sale
          Initial    \* the stock of each at the start

ASSUME StockAssumption == Initial \in [Skus -> Nat]

VARIABLES stock,   \* items.stock
          lock,    \* whether the key inventory:global exists
          mut      \* the requests being handled

invVars == <<stock, lock, mut>>

InvInit ==
  /\ stock = Initial
  /\ lock = FALSE
  /\ mut = [k \in {} |-> 0]

-----------------------------------------------------------------------------
MutAt(k, pc) == k \in DOMAIN mut /\ mut[k].pc = pc
MutGoto(k, pc) == mut' = [mut EXCEPT ![k].pc = pc]
MutDone(k) == mut' = [m \in DOMAIN mut \ {k} |-> mut[m]]

Mutate(k, kind, sku, qty) ==
  /\ k \notin DOMAIN mut
  /\ mut' = [m \in DOMAIN mut \cup {k} |->
               IF m = k THEN [kind |-> kind, sku |-> sku, qty |-> qty, pc |-> "lock"]
               ELSE mut[m]]
  /\ UNCHANGED <<stock, lock>>

SetNX(k) ==
  /\ MutAt(k, "lock")
  /\ ~lock
  /\ lock' = TRUE
  /\ MutGoto(k, "update")
  /\ UNCHANGED stock

\* The key is there, or SetNX answers an error, with or without having set it.
NoLock(k, res) ==
  /\ MutAt(k, "lock")
  /\ res = "fail"
  /\ lock' \in {lock, TRUE}
  /\ MutDone(k)
  /\ UNCHANGED stock

\* stock - delta, delta being negative for a release.
Left(k) == stock[mut[k].sku] - (IF mut[k].kind = "release" THEN -mut[k].qty ELSE mut[k].qty)

\* Mutant: the UPDATE without its condition.
UpdateUnchecked(k) ==
  /\ MutAt(k, "update")
  /\ stock' = [stock EXCEPT ![mut[k].sku] = Left(k)]
  /\ MutGoto(k, "event") \/ MutGoto(k, "error")
  /\ UNCHANGED lock

\* UPDATE items SET stock = stock - delta ... AND stock - delta >= 0, whose answer
\* may be lost.
Update(k) ==
  /\ MutAt(k, "update")
  /\ Left(k) >= 0
  /\ stock' = [stock EXCEPT ![mut[k].sku] = Left(k)]
  /\ MutGoto(k, "event") \/ MutGoto(k, "error")
  /\ UNCHANGED lock

\* No row is affected, or the statement fails.
UpdateNothing(k) ==
  /\ MutAt(k, "update")
  /\ MutGoto(k, "error")
  /\ UNCHANGED <<stock, lock>>

\* The handler returns, after the INSERT into inventory_events if it got so far.
\* The deferred Del removes the key, or fails and leaves it to its time to live.
Return(k, res) ==
  /\ \/ MutAt(k, "event") /\ (res = "ok" \/ res = "fail")
     \/ MutAt(k, "error") /\ res = "fail"
  /\ lock' \in {FALSE, lock}
  /\ MutDone(k)
  /\ UNCHANGED stock

LockExpires ==
  /\ lock
  /\ lock' = FALSE
  /\ UNCHANGED <<stock, mut>>

MutStep(k) == SetNX(k) \/ Update(k) \/ UpdateNothing(k)
MutAnswer(k, res) == NoLock(k, res) \/ Return(k, res)

=============================================================================
