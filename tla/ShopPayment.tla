----------------------------- MODULE ShopPayment -----------------------------
(***************************************************************************)
(* The shop's payment service, examples/shop/internal/payment/handler.go:   *)
(* POST /authorize, several requests for one checkout being handled at      *)
(* once.  Each database statement is a step of its own; one that answers    *)
(* with an error may or may not have taken effect.                          *)
(***************************************************************************)
EXTENDS Integers, Sequences

CONSTANTS Checkouts,   \* checkout ids
          Requests,    \* requests, each posted at most once
          Amounts      \* amounts in cents that clients send

VARIABLES payments,   \* the row of a checkout, by the unique index on checkout_id
          charges,    \* of a checkout: how many charges the processor approved, and how many
                      \* it still has whose caller is gone
          auth        \* the requests being handled

payVars == <<payments, charges, auth>>

NoRow == [status |-> "none", amount |-> 0]
Rows == [status : {"none", "pending", "authorized"}, amount : Amounts \cup {0}]
Handling == [chk : Checkouts, amount : Amounts,
             pc : {"look", "insert", "reread", "charge", "approved", "settle", "undo"}]

PayInit ==
  /\ payments = [c \in Checkouts |-> NoRow]
  /\ charges = [c \in Checkouts |-> [approved |-> 0, late |-> 0]]
  /\ auth = [k \in {} |-> 0]

-----------------------------------------------------------------------------
At(k, pc) == k \in DOMAIN auth /\ auth[k].pc = pc
Goto(k, pc) == auth' = [auth EXCEPT ![k].pc = pc]
Done(k) == auth' = [m \in DOMAIN auth \ {k} |-> auth[m]]
row(k) == payments[auth[k].chk]
SetRow(k, new) == payments' = [payments EXCEPT ![auth[k].chk] = new]

Authorize(k, c, amount) ==
  /\ k \notin DOMAIN auth
  /\ auth' = [m \in DOMAIN auth \cup {k} |->
                IF m = k THEN [chk |-> c, amount |-> amount, pc |-> "look"] ELSE auth[m]]
  /\ UNCHANGED <<payments, charges>>

\* Mutant: a pending row is replayed as if it were authorized.
replayAny(existing, amount, res) == IF existing.amount = amount THEN res = "ok" ELSE res = "fail"

\* replayOrConflict: what the row that is there answers.
replayOrConflict(existing, amount, res) ==
  IF existing.status = "authorized" /\ existing.amount = amount THEN res = "ok" ELSE res = "fail"

\* An amount out of range, or an error of the first SELECT.
Reject(k, res) ==
  /\ At(k, "look")
  /\ res = "fail"
  /\ Done(k)
  /\ UNCHANGED <<payments, charges>>

\* getByCheckout finds the row: the first SELECT, or the one after a conflict.
Replay(k, res) ==
  /\ At(k, "look") \/ At(k, "reread")
  /\ row(k) # NoRow
  /\ replayOrConflict(row(k), auth[k].amount, res)
  /\ Done(k)
  /\ UNCHANGED <<payments, charges>>

Look(k) ==
  /\ At(k, "look")
  /\ auth[k].amount > 0
  /\ row(k) = NoRow
  /\ Goto(k, "insert")
  /\ UNCHANGED <<payments, charges>>

\* Mutant: a row that is there is overwritten.
InsertOver(k) ==
  /\ At(k, "insert")
  /\ SetRow(k, [status |-> "pending", amount |-> auth[k].amount]) /\ Goto(k, "charge")
  /\ UNCHANGED charges

\* INSERT ... ON CONFLICT (checkout_id) DO NOTHING.
Insert(k) ==
  /\ At(k, "insert")
  /\ IF row(k) = NoRow
     THEN SetRow(k, [status |-> "pending", amount |-> auth[k].amount]) /\ Goto(k, "charge")
     ELSE Goto(k, "reread") /\ UNCHANGED payments
  /\ UNCHANGED charges

InsertError(k, res) ==
  /\ At(k, "insert")
  /\ res = "fail"
  /\ \/ row(k) = NoRow /\ SetRow(k, [status |-> "pending", amount |-> auth[k].amount])
     \/ UNCHANGED payments
  /\ Done(k)
  /\ UNCHANGED charges

\* After a conflict: an error, or the row is gone.
RereadError(k, res) ==
  /\ At(k, "reread")
  /\ res = "fail"
  /\ Done(k)
  /\ UNCHANGED <<payments, charges>>

\* The processor approves a charge that it has, and has so many late ones left.
approve(c, late) ==
  charges' = [charges EXCEPT ![c] = [approved |-> charges[c].approved + 1, late |-> late]]

\* The processor approves every valid charge, while the caller waits ...
Charge(k) ==
  /\ At(k, "charge")
  /\ approve(auth[k].chk, charges[auth[k].chk].late)
  /\ Goto(k, "approved")
  /\ UNCHANGED payments

\* ... or when the caller is gone: its row deleted, perhaps a later try authorized.
LateCharge(c) ==
  /\ charges[c].late > 0
  /\ approve(c, charges[c].late - 1)
  /\ UNCHANGED <<payments, auth>>

\* chargeProcessor returns: with the approval, or with an error at any time, after the
\* client's five seconds or for a broken connection.  The processor may then have the
\* charge still; one that never reached it is one it never approves.
chargeProcessor(k) ==
  /\ \/ At(k, "approved") /\ (Goto(k, "settle") \/ Goto(k, "undo")) /\ UNCHANGED charges
     \/ /\ At(k, "charge") /\ Goto(k, "undo")
        /\ charges' = [charges EXCEPT ![auth[k].chk] =
                         [approved |-> charges[auth[k].chk].approved, late |-> charges[auth[k].chk].late + 1]]
  /\ UNCHANGED payments

\* DELETE of the pending row; its error is ignored.
Undo(k, res) ==
  /\ At(k, "undo")
  /\ res = "fail"
  /\ \/ row(k).status = "pending" /\ SetRow(k, NoRow)
     \/ UNCHANGED payments
  /\ Done(k)
  /\ UNCHANGED charges

\* UPDATE of the pending row to authorized.
Settle(k, res) ==
  /\ At(k, "settle")
  /\ res = "ok" \/ res = "fail"
  /\ \/ row(k).status = "pending" /\ SetRow(k, [row(k) EXCEPT !.status = "authorized"])
     \/ (res = "fail" \/ row(k).status # "pending") /\ UNCHANGED payments
  /\ Done(k)
  /\ UNCHANGED charges

\* A step of a request that goes on, and one that answers it.
PayStep(k) == Look(k) \/ Insert(k) \/ Charge(k) \/ chargeProcessor(k)
PayAnswer(k, res) ==
  \/ Reject(k, res) \/ Replay(k, res) \/ InsertError(k, res) \/ RereadError(k, res)
  \/ Undo(k, res) \/ Settle(k, res)

\* The service with callers that post what they like.
PayNext ==
  \/ \E k \in Requests :
       \/ \E c \in Checkouts, a \in Amounts : Authorize(k, c, a)
       \/ PayStep(k)
       \/ \E res \in {"ok", "fail"} : PayAnswer(k, res)
  \/ \E c \in Checkouts : LateCharge(c)

PaySpec == PayInit /\ [][PayNext]_payVars

-----------------------------------------------------------------------------
PayTypeOK ==
  /\ payments \in [Checkouts -> Rows]
  /\ charges \in [Checkouts -> [approved : Nat, late : Nat]]
  /\ DOMAIN auth \subseteq Requests
  /\ \A k \in DOMAIN auth : auth[k] \in Handling

\* However many requests for a checkout run at once, one at most is between its
\* INSERT and its UPDATE or DELETE, and the pending row is its own: it carries that
\* request's amount (handler.go:85-114).
Owning == {"charge", "approved", "settle", "undo"}
ChargeExclusive ==
  \A k \in DOMAIN auth : auth[k].pc \in Owning =>
    /\ row(k) = [status |-> "pending", amount |-> auth[k].amount]
    /\ \A m \in DOMAIN auth \ {k} : auth[m].chk = auth[k].chk => auth[m].pc \notin Owning

\* The charges of a checkout that were approved or may yet be.
Sent(c) == charges[c].approved + charges[c].late

\* An authorized payment stays as it is, and nothing sends another charge for it
\* (DEFECTS.md: a retry after success does not create a second charge).  A charge that
\* an earlier try sent and gave up may still be approved then (processor
\* handler.go:41-47): the checkout is charged twice, by tries before success.
AuthorizedFinal ==
  [][\A c \in Checkouts : payments[c].status = "authorized" =>
       payments'[c] = payments[c] /\ Sent(c)' = Sent(c)]_payVars

\* A payment is authorized only once the processor has approved a charge for it.
AuthorizedCharged == \A c \in Checkouts : payments[c].status = "authorized" => charges[c].approved > 0

=============================================================================
