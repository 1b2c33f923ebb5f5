---------------------------- MODULE ShopCheckout ----------------------------
(***************************************************************************)
(* The shop's checkout service, examples/shop/internal/checkout/handler.go, *)
(* composed with the inventory and the payment service: create reserves the *)
(* items one after the other, authorizes the payment with retries, records  *)
(* the checkout, and releases what it reserved when a step fails.           *)
(*                                                                          *)
(* A call that times out or loses its connection fails for the caller while *)
(* its handler may go on, now or much later; a request that never arrives   *)
(* is a handler that never takes a step.                                    *)
(***************************************************************************)
EXTENDS ShopInventory, ShopPayment, FiniteSets, FiniteSetsExt

CONSTANTS Order,   \* the items of each checkout: a sequence of [sku, qty]
          Price,   \* items.price_cents
          Tries    \* calls of /authorize at most (5 in the code)

MaxItems == 8   \* the items of a checkout at most

VARIABLE chk   \* each checkout's create

shopVars == <<invVars, payVars, chk>>

Item(c, i) == Order[c][i]
Count(c) == Len(Order[c])
Total(c) == MapThenSumSet(LAMBDA i : Price[Item(c, i).sku] * Item(c, i).qty, 1..Count(c))

ASSUME ShopAssumption ==
  /\ Tries \in Nat \ {0}
  /\ IsFiniteSet(Checkouts)
  /\ \A c \in Checkouts : Count(c) \in 1..MaxItems
  /\ \A c \in Checkouts : \A i \in 1..Count(c) : Item(c, i).sku \in Skus /\ Item(c, i).qty \in Nat
  /\ Checkouts \X (1..Tries) \subseteq Requests
  /\ \A c \in Checkouts : Total(c) \in Amounts

ShopInit ==
  /\ InvInit
  /\ PayInit
  /\ chk = [c \in Checkouts |-> [pc |-> "start", n |-> 0, t |-> 0, r |-> 0,
                                 row |-> FALSE, lines |-> {}]]

-----------------------------------------------------------------------------
In(c, pc) == chk[c].pc = pc
To(x, pc) == [x EXCEPT !.pc = pc]
Enter(c, pc) == chk' = [chk EXCEPT ![c] = To(@, pc)]

\* GET /users/{id}, then the loop over the items; or users is unavailable.
User(c) ==
  /\ In(c, "start")
  /\ Enter(c, "item") \/ Enter(c, "failed")
  /\ UNCHANGED <<invVars, payVars>>

\* The price of the next item is read and its reservation posted.
Reserve(c) ==
  /\ In(c, "item")
  /\ chk[c].n < Count(c)
  /\ LET i == chk[c].n + 1
     IN  Mutate(<<c, "reserve", i>>, "reserve", Item(c, i).sku, Item(c, i).qty)
  /\ Enter(c, "reserving")
  /\ UNCHANGED payVars

ItemUnavailable(c) ==
  /\ In(c, "item")
  /\ chk[c].n < Count(c)
  /\ Enter(c, "release")
  /\ UNCHANGED <<invVars, payVars>>

\* Mutant: a retry that is not counted.
PayForever(c) ==
  /\ \/ In(c, "item") /\ chk[c].n = Count(c)
     \/ In(c, "retry")
  /\ Authorize(<<c, 1>>, c, Total(c)) \/ UNCHANGED payVars
  /\ chk' = [chk EXCEPT ![c] = To([@ EXCEPT !.t = 1], "paying")]
  /\ UNCHANGED invVars

\* POST /authorize, the first time or again after an error.
Pay(c) ==
  /\ \/ In(c, "item") /\ chk[c].n = Count(c)
     \/ In(c, "retry")
  /\ Authorize(<<c, chk[c].t + 1>>, c, Total(c))
  /\ chk' = [chk EXCEPT ![c] = To([@ EXCEPT !.t = chk[c].t + 1], "paying")]
  /\ UNCHANGED invVars

\* INSERT INTO checkouts; its error ends the request, and nothing is released.
Confirm(c) ==
  /\ In(c, "confirm")
  /\ \/ chk' = [chk EXCEPT ![c] = To([@ EXCEPT !.row = TRUE], "notify")]
     \/ \E done \in BOOLEAN : chk' = [chk EXCEPT ![c] = To([@ EXCEPT !.row = done], "error")]
  /\ UNCHANGED <<invVars, payVars>>

\* The checkout's lines, each of which may fail unnoticed, and the notification.
Notify(c) ==
  /\ In(c, "notify")
  /\ \E s \in SUBSET (1..Count(c)) :
       chk' = [chk EXCEPT ![c] = To([@ EXCEPT !.lines = s], "done")]
  /\ UNCHANGED <<invVars, payVars>>

\* Mutant: the item whose reservation failed is released as well.
ReleaseOneMore(c) ==
  /\ In(c, "release")
  /\ LET i == chk[c].r + 1
     IN  IF i <= chk[c].n + 1 /\ i <= Count(c)
         THEN /\ Mutate(<<c, "release", i>>, "release", Item(c, i).sku, Item(c, i).qty)
              /\ chk' = [chk EXCEPT ![c] = To([@ EXCEPT !.r = i], "releasing")]
         ELSE Enter(c, "failed") /\ UNCHANGED invVars
  /\ UNCHANGED payVars

\* releaseAll: one POST /release for each reserved item, then the error answer.
releaseAll(c) ==
  /\ In(c, "release")
  /\ LET i == chk[c].r + 1
     IN  IF i <= chk[c].n
         THEN /\ Mutate(<<c, "release", i>>, "release", Item(c, i).sku, Item(c, i).qty)
              /\ chk' = [chk EXCEPT ![c] = To([@ EXCEPT !.r = i], "releasing")]
         ELSE Enter(c, "failed") /\ UNCHANGED invVars
  /\ UNCHANGED payVars

-----------------------------------------------------------------------------
\* What the call in flight answers moves create on.
Heard(x, res) ==
  CASE x.pc = "reserving" /\ res = "ok" -> To([x EXCEPT !.n = @ + 1], "item")
    [] x.pc = "reserving" /\ res = "fail" -> To(x, "release")
    [] x.pc = "paying" /\ res = "ok" -> To(x, "confirm")
    [] x.pc = "paying" /\ res = "fail" -> To(x, IF x.t < Tries THEN "retry" ELSE "release")
    [] x.pc = "releasing" -> To(x, "release")

\* The call create is waiting for.
Waits(c, k) ==
  \/ In(c, "reserving") /\ k = <<c, "reserve", chk[c].n + 1>>
  \/ In(c, "releasing") /\ k = <<c, "release", chk[c].r>>
  \/ In(c, "paying") /\ k = <<c, chk[c].t>>

\* An answer reaches its caller if the caller still waits for it.
Hear(k, res) ==
  chk' = [c \in Checkouts |-> IF c = k[1] /\ Waits(c, k) THEN Heard(chk[c], res) ELSE chk[c]]

\* The client's timeout, a broken connection, a cancelled request.
CallFails(c) ==
  /\ chk[c].pc \in {"reserving", "paying", "releasing"}
  /\ chk' = [chk EXCEPT ![c] = Heard(@, "fail")]
  /\ UNCHANGED <<invVars, payVars>>

create(c) ==
  \/ User(c) \/ Reserve(c) \/ ItemUnavailable(c) \/ Pay(c) \/ Confirm(c) \/ Notify(c)
  \/ releaseAll(c) \/ CallFails(c)

Inventory ==
  /\ \/ LockExpires /\ UNCHANGED chk
     \/ \E k \in DOMAIN mut :
          \/ MutStep(k) /\ UNCHANGED chk
          \/ \E res \in {"ok", "fail"} : MutAnswer(k, res) /\ Hear(k, res)
  /\ UNCHANGED payVars

Payment ==
  /\ \/ \E k \in DOMAIN auth :
          \/ PayStep(k) /\ UNCHANGED chk
          \/ \E res \in {"ok", "fail"} : PayAnswer(k, res) /\ Hear(k, res)
     \/ \E c \in Checkouts : LateCharge(c) /\ UNCHANGED chk
  /\ UNCHANGED invVars

ShopNext == Inventory \/ Payment \/ \E c \in Checkouts : create(c)

\* The services' handlers need not make progress: a checkout rests on its own steps,
\* the client's five-second timeout included.
ShopSpec ==
  ShopInit /\ [][ShopNext]_shopVars /\ \A c \in Checkouts : WF_shopVars(create(c))

-----------------------------------------------------------------------------
ShopTypeOK ==
  /\ stock \in [Skus -> Nat]
  /\ lock \in BOOLEAN
  /\ PayTypeOK
  /\ \A c \in Checkouts : chk[c].n \in 0..Count(c) /\ chk[c].t \in 0..Tries /\ chk[c].r \in 0..chk[c].n

\* The items a checkout counts on: all of a recorded one's, and those reserved and not
\* yet posted for release of one under way.
Held(c) == IF chk[c].row THEN 1..Count(c) ELSE (chk[c].r + 1)..chk[c].n
HeldOf(sku) ==
  MapThenSumSet(LAMBDA h : Item(h[1], h[2]).qty,
                {h \in Checkouts \X (1..MaxItems) : h[2] \in Held(h[1]) /\ Item(h[1], h[2]).sku = sku})

\* No stock is sold twice or invented: what is left and what checkouts count on never
\* exceed what there was, with the lock lost or expired, answers lost and handlers
\* running after their callers gave up (inventory handler.go:129, checkout
\* handler.go:111-130, 200-206).
StockBacked == \A sku \in Skus : stock[sku] >= 0 /\ stock[sku] + HeldOf(sku) <= Initial[sku]

\* A recorded checkout has a payment, authorized for its total and approved by the
\* processor (checkout handler.go:134-156).
ConfirmedPaid ==
  \A c \in Checkouts : chk[c].row =>
    payments[c] = [status |-> "authorized", amount |-> Total(c)] /\ charges[c].approved > 0

\* Every checkout ends, whatever the services do: the calls time out and the retries
\* are counted (checkout handler.go:134, svcclient/client.go:20).
CheckoutEnds == \A c \in Checkouts : <>(chk[c].pc \in {"done", "failed", "error"})

=============================================================================
