----------------------------- MODULE ShopProofs -----------------------------
(***************************************************************************)
(* The payment service charges exclusively and never after success, for any *)
(* number of checkouts, requests and amounts and for any callers; the       *)
(* shop's checkouts are such callers; and with the inventory they neither   *)
(* hold more stock than there is nor record a checkout that is not paid.    *)
(***************************************************************************)
EXTENDS ShopCheckout, FiniteSetTheorems, WellFoundedInduction, TLAPS

\* A request whose charge was approved, and that is to settle.
SettleCharged ==
  \A k \in DOMAIN auth : auth[k].pc \in {"approved", "settle"} => charges[auth[k].chk].approved > 0

PayInv == PayTypeOK /\ ChargeExclusive /\ SettleCharged /\ AuthorizedCharged

\* What a request's steps leave of the others.
LEMMA GotoOthers ==
  ASSUME PayTypeOK, NEW k \in DOMAIN auth, NEW pc, Goto(k, pc),
         pc \in {"look", "insert", "reread", "charge", "approved", "settle", "undo"}
  PROVE  /\ DOMAIN auth' = DOMAIN auth
         /\ \A m \in DOMAIN auth : /\ auth'[m].chk = auth[m].chk
                                   /\ auth'[m].amount = auth[m].amount
                                   /\ auth'[m].pc = IF m = k THEN pc ELSE auth[m].pc
                                   /\ auth'[m] \in Handling
  BY Zenon DEF PayTypeOK, Goto, Handling

LEMMA DoneOthers ==
  ASSUME NEW k, Done(k)
  PROVE  /\ DOMAIN auth' = DOMAIN auth \ {k}
         /\ \A m \in DOMAIN auth' : auth'[m] = auth[m]
  BY Zenon DEF Done

\* Type correctness and the inductive invariant of the payment service hold at the start.
LEMMA PayInitInv == PayInit => PayInv
  BY DEF PayInit, PayInv, PayTypeOK, ChargeExclusive, SettleCharged, AuthorizedCharged, NoRow, Rows, Owning

LEMMA PayStutter == PayInv /\ UNCHANGED payVars => PayInv'
  BY Zenon DEF PayInv, PayTypeOK, ChargeExclusive, SettleCharged, AuthorizedCharged, payVars, row, Owning

\* A new request.
LEMMA AuthorizeInv ==
  ASSUME PayInv, NEW k \in Requests, NEW c \in Checkouts, NEW a \in Amounts, Authorize(k, c, a)
  PROVE  PayInv'
<1> DEFINE h == [chk |-> c, amount |-> a, pc |-> "look"]
<1>1. h \in Handling /\ h.pc = "look"
  BY Zenon DEF Handling
<1>2. /\ DOMAIN auth' = DOMAIN auth \cup {k}
      /\ auth'[k] = h
      /\ \A m \in DOMAIN auth : m # k /\ auth'[m] = auth[m]
      /\ k \notin DOMAIN auth
  BY Zenon DEF Authorize
<1> HIDE DEF h
<1> QED
  BY <1>1, <1>2 DEF PayInv, PayTypeOK, ChargeExclusive, SettleCharged, AuthorizedCharged, row, Authorize, Owning

\* A request that goes on and touches no row and no charge, and does not take the
\* place of one that charges.
LEMMA MoveInv ==
  ASSUME PayInv, NEW k \in DOMAIN auth, NEW pc \in {"insert", "reread"}, Goto(k, pc),
         UNCHANGED <<payments, charges>>
  PROVE  PayInv'
<1>1. PayTypeOK /\ ChargeExclusive /\ SettleCharged /\ AuthorizedCharged
  BY Zenon DEF PayInv
<1>2. /\ DOMAIN auth' = DOMAIN auth
      /\ \A m \in DOMAIN auth : /\ auth'[m].chk = auth[m].chk
                                /\ auth'[m].amount = auth[m].amount
                                /\ auth'[m].pc = IF m = k THEN pc ELSE auth[m].pc
                                /\ auth'[m] \in Handling
  BY Zenon, <1>1, GotoOthers
<1> QED
  BY <1>1, <1>2 DEF PayInv, PayTypeOK, ChargeExclusive, SettleCharged, AuthorizedCharged, row, Owning

\* A request that ends and touches no row and no charge.
LEMMA EndInv ==
  ASSUME PayInv, NEW k \in DOMAIN auth, Done(k), UNCHANGED <<payments, charges>>
  PROVE  PayInv'
<1>1. /\ DOMAIN auth' = DOMAIN auth \ {k}
      /\ \A m \in DOMAIN auth' : auth'[m] = auth[m]
  BY Zenon, DoneOthers
<1> QED
  BY Zenon, <1>1 DEF PayInv, PayTypeOK, ChargeExclusive, SettleCharged, AuthorizedCharged, row

\* While a checkout has no row, no request for it charges.
LEMMA NoRowNoCharge ==
  ASSUME PayInv, NEW k \in DOMAIN auth, row(k) = NoRow,
         NEW m \in DOMAIN auth, auth[m].pc \in Owning
  PROVE  auth[m].chk # auth[k].chk
<1>1. row(m) = [status |-> "pending", amount |-> auth[m].amount]
  BY Zenon DEF PayInv, ChargeExclusive
<1>2. row(m).status = "pending"
  BY <1>1
<1>3. row(k).status = "none"
  BY DEF NoRow
<1>4. row(m).status # row(k).status
  BY Zenon, <1>2, <1>3
<1> QED
  BY Zenon, <1>4 DEF row

\* A request that ends and sets its checkout's row, which no other request owns.
LEMMA EndRowInv ==
  ASSUME PayInv, NEW k \in DOMAIN auth, NEW new \in Rows, Done(k), SetRow(k, new), UNCHANGED charges,
         row(k) = NoRow \/ auth[k].pc \in Owning,
         new.status = "authorized" => charges[auth[k].chk].approved > 0
  PROVE  PayInv'
<1>1. /\ DOMAIN auth' = DOMAIN auth \ {k}
      /\ \A m \in DOMAIN auth' : auth'[m] = auth[m]
  BY Zenon, DoneOthers
<1>2. auth[k].chk \in Checkouts /\ \A m \in DOMAIN auth : auth[m] \in Handling
  BY Zenon DEF PayInv, PayTypeOK, Handling
<1>3. /\ payments' \in [Checkouts -> Rows]
      /\ payments'[auth[k].chk] = new
      /\ \A c \in Checkouts \ {auth[k].chk} : payments'[c] = payments[c]
  BY Zenon, <1>2 DEF SetRow, PayInv, PayTypeOK
<1>4. ASSUME NEW m \in DOMAIN auth', auth[m].pc \in Owning
      PROVE  auth[m].chk # auth[k].chk
  <2>1. m \in DOMAIN auth /\ m # k
    BY Zenon, <1>1
  <2>2. CASE row(k) = NoRow
    BY Zenon, <1>4, <2>1, <2>2, NoRowNoCharge
  <2>3. CASE auth[k].pc \in Owning
    BY Zenon, <1>4, <2>1, <2>3 DEF PayInv, ChargeExclusive
  <2> QED
    BY Zenon, <2>2, <2>3
<1>5. PayTypeOK'
  BY Zenon, <1>1, <1>3 DEF PayInv, PayTypeOK
<1>6. ChargeExclusive'
  BY <1>1, <1>2, <1>3, <1>4 DEF PayInv, ChargeExclusive, row, Handling, Owning
<1>7. SettleCharged' /\ AuthorizedCharged'
  BY Zenon, <1>1, <1>2, <1>3 DEF PayInv, SettleCharged, AuthorizedCharged
<1> QED
  BY Zenon, <1>5, <1>6, <1>7 DEF PayInv

\* The row inserted as pending by a request that charges next.
LEMMA InsertInv ==
  ASSUME PayInv, NEW k \in DOMAIN auth, Insert(k)
  PROVE  PayInv'
<1> DEFINE new == [status |-> "pending", amount |-> auth[k].amount]
<1>1. CASE row(k) # NoRow
  BY Zenon, <1>1, MoveInv DEF Insert
<1>2. CASE row(k) = NoRow
  <2>1. SetRow(k, new) /\ Goto(k, "charge") /\ UNCHANGED charges
    BY Zenon, <1>2 DEF Insert
  <2>2. /\ DOMAIN auth' = DOMAIN auth
        /\ \A m \in DOMAIN auth : /\ auth'[m].chk = auth[m].chk
                                  /\ auth'[m].amount = auth[m].amount
                                  /\ auth'[m].pc = IF m = k THEN "charge" ELSE auth[m].pc
                                  /\ auth'[m] \in Handling
    BY Zenon, <2>1, GotoOthers DEF PayInv
  <2>3. /\ auth[k].chk \in Checkouts
        /\ new \in Rows
        /\ new.status = "pending"
        /\ \A m \in DOMAIN auth : auth[m] \in Handling
    BY Zenon DEF PayInv, PayTypeOK, Handling, Rows
  <2>4. /\ payments' \in [Checkouts -> Rows]
        /\ payments'[auth[k].chk] = new
        /\ \A c \in Checkouts \ {auth[k].chk} : payments'[c] = payments[c]
    BY Zenon, <2>1, <2>3 DEF SetRow, PayInv, PayTypeOK
  <2>5. ASSUME NEW m \in DOMAIN auth, auth[m].pc \in Owning
        PROVE  auth[m].chk # auth[k].chk
    BY Zenon, <1>2, <2>5, NoRowNoCharge
  <2>6. PayTypeOK'
    BY Zenon, <2>1, <2>2, <2>4 DEF PayInv, PayTypeOK
  <2>7. ChargeExclusive'
    BY <2>2, <2>3, <2>4, <2>5 DEF PayInv, ChargeExclusive, row, Handling, Owning
  <2>8. SettleCharged'
    BY Zenon, <2>1, <2>2 DEF PayInv, SettleCharged
  <2>9. AuthorizedCharged'
    BY Zenon, <2>1, <2>3, <2>4 DEF PayInv, AuthorizedCharged
  <2> QED
    BY Zenon, <2>6, <2>7, <2>8, <2>9 DEF PayInv
<1> QED
  BY Zenon, <1>1, <1>2

\* What becomes of the counts when one checkout's change.
LEMMA CountsMove ==
  ASSUME charges \in [Checkouts -> [approved : Nat, late : Nat]], NEW c \in Checkouts,
         NEW n \in Nat, n >= charges[c].approved, NEW late \in Nat,
         charges' = [charges EXCEPT ![c] = [approved |-> n, late |-> late]]
  PROVE  /\ charges' \in [Checkouts -> [approved : Nat, late : Nat]]
         /\ \A d \in Checkouts : charges[d].approved > 0 => charges'[d].approved > 0
         /\ charges'[c].approved = n /\ charges'[c].late = late
         /\ \A d \in Checkouts \ {c} : charges'[d] = charges[d]
<1> DEFINE Counts == [approved : Nat, late : Nat]
<1>1. [approved |-> n, late |-> late] \in Counts
  BY Zenon
<1>2. /\ charges' \in [Checkouts -> Counts]
      /\ charges'[c] = [approved |-> n, late |-> late]
      /\ \A d \in Checkouts \ {c} : charges'[d] = charges[d]
  BY Zenon, <1>1
<1>3. charges'[c].approved = n /\ charges'[c].late = late
  BY <1>2
<1>4. charges[c].approved \in Nat
  BY Zenon
<1>5. charges[c].approved > 0 => charges'[c].approved > 0
  BY <1>3, <1>4
<1> QED
  BY Zenon, <1>2, <1>3, <1>5

\* The processor's approval, and its caller's return.
LEMMA ChargeInv ==
  ASSUME PayInv, NEW k \in DOMAIN auth, Charge(k) \/ chargeProcessor(k)
  PROVE  PayInv'
<1>1. /\ UNCHANGED payments
      /\ auth[k].pc \in {"charge", "approved"}
      /\ auth[k].chk \in Checkouts
      /\ charges \in [Checkouts -> [approved : Nat, late : Nat]]
  BY Zenon DEF Charge, chargeProcessor, At, PayInv, PayTypeOK, Handling
<1>2. PICK pc \in {"approved", "settle", "undo"} :
        /\ Goto(k, pc)
        /\ pc = "approved" => Charge(k)
        /\ pc = "settle" => auth[k].pc = "approved"
  BY Zenon DEF Charge, chargeProcessor, At
<1>3. /\ charges' \in [Checkouts -> [approved : Nat, late : Nat]]
      /\ \A c \in Checkouts : charges[c].approved > 0 => charges'[c].approved > 0
      /\ pc \in {"approved", "settle"} => charges'[auth[k].chk].approved > 0
  <2> PICK c \in Checkouts : c = auth[k].chk
    BY Zenon, <1>1
  <2>1. charges[c].approved \in Nat /\ charges[c].late \in Nat
    BY Zenon, <1>1
  <2> PICK a \in Nat, l \in Nat : a = charges[c].approved /\ l = charges[c].late
    BY Zenon, <2>1
  <2>2. a + 1 \in Nat /\ a + 1 >= a /\ a >= a /\ a + 1 > 0 /\ l + 1 \in Nat
    OBVIOUS
  <2>3. CASE Charge(k)
    <3>1. charges' = [charges EXCEPT ![c] = [approved |-> a + 1, late |-> l]]
      BY Zenon, <2>3 DEF Charge, approve
    <3>2. /\ charges' \in [Checkouts -> [approved : Nat, late : Nat]]
          /\ \A d \in Checkouts : charges[d].approved > 0 => charges'[d].approved > 0
          /\ charges'[c].approved = a + 1
      BY Zenon, <1>1, <2>2, <3>1, CountsMove
    <3> QED
      BY Zenon, <2>2, <3>2
  <2>4. CASE ~Charge(k) /\ UNCHANGED charges
    BY Zenon, <1>1, <1>2, <2>4 DEF PayInv, SettleCharged
  <2>5. CASE ~Charge(k) /\ ~UNCHANGED charges
    <3>1. /\ charges' = [charges EXCEPT ![c] = [approved |-> a, late |-> l + 1]]
          /\ auth[k].pc = "charge"
      BY Zenon, <2>5 DEF chargeProcessor, At
    <3>2. pc = "undo"
      BY Zenon, <1>2, <2>5, <3>1
    <3> QED
      BY Zenon, <1>1, <2>2, <3>1, <3>2, CountsMove
  <2> QED
    BY Zenon, <2>3, <2>4, <2>5
<1>4. /\ DOMAIN auth' = DOMAIN auth
      /\ \A m \in DOMAIN auth : /\ auth'[m].chk = auth[m].chk
                                /\ auth'[m].amount = auth[m].amount
                                /\ auth'[m].pc = IF m = k THEN pc ELSE auth[m].pc
                                /\ auth'[m] \in Handling
  BY Zenon, <1>2, GotoOthers DEF PayInv
<1>5. PayTypeOK'
  BY Zenon, <1>1, <1>3, <1>4 DEF PayInv, PayTypeOK
<1>6. ChargeExclusive'
  BY <1>1, <1>4 DEF PayInv, ChargeExclusive, row, Owning
<1>7. \A m \in DOMAIN auth : auth[m].chk \in Checkouts
  BY Zenon DEF PayInv, PayTypeOK, Handling
<1>8. SettleCharged'
  BY Zenon, <1>3, <1>4, <1>7 DEF PayInv, SettleCharged
<1>9. AuthorizedCharged'
  BY Zenon, <1>1, <1>3 DEF PayInv, AuthorizedCharged
<1> QED
  BY Zenon, <1>5, <1>6, <1>8, <1>9 DEF PayInv

\* The approval of a charge whose caller is gone.
LEMMA LateInv ==
  ASSUME PayInv, NEW c \in Checkouts, LateCharge(c)
  PROVE  PayInv'
<1>1. charges \in [Checkouts -> [approved : Nat, late : Nat]] /\ UNCHANGED <<payments, auth>>
  BY Zenon DEF LateCharge, PayInv, PayTypeOK
<1>2. charges[c].approved \in Nat /\ charges[c].late \in Nat
  BY Zenon, <1>1
<1> PICK a \in Nat, l \in Nat : a = charges[c].approved /\ l = charges[c].late
  BY Zenon, <1>2
<1>3. a + 1 \in Nat /\ a + 1 >= a /\ l - 1 \in Nat
  BY DEF LateCharge
<1>4. charges' = [charges EXCEPT ![c] = [approved |-> a + 1, late |-> l - 1]]
  BY Zenon DEF LateCharge, approve
<1>5. /\ charges' \in [Checkouts -> [approved : Nat, late : Nat]]
      /\ \A d \in Checkouts : charges[d].approved > 0 => charges'[d].approved > 0
  BY Zenon, <1>1, <1>3, <1>4, CountsMove
<1>6. \A m \in DOMAIN auth : auth[m].chk \in Checkouts
  BY Zenon DEF PayInv, PayTypeOK, Handling
<1> QED
  BY Zenon, <1>1, <1>5, <1>6
  DEF PayInv, PayTypeOK, ChargeExclusive, SettleCharged, AuthorizedCharged, row

\* The answers.
LEMMA AnswerInv ==
  ASSUME PayInv, NEW k \in DOMAIN auth, NEW res, PayAnswer(k, res)
  PROVE  PayInv'
<1>1. NoRow \in Rows /\ NoRow.status = "none"
  BY Zenon DEF NoRow, Rows
<1>2. CASE UNCHANGED payments
  BY Zenon, <1>2, EndInv DEF PayAnswer, Reject, Replay, InsertError, RereadError, Undo, Settle
<1>3. CASE InsertError(k, res) /\ row(k) = NoRow /\ SetRow(k, [status |-> "pending", amount |-> auth[k].amount])
  <2> DEFINE new == [status |-> "pending", amount |-> auth[k].amount]
  <2>1. new \in Rows /\ new.status = "pending"
    BY Zenon DEF PayInv, PayTypeOK, Handling, Rows
  <2>2. Done(k) /\ SetRow(k, new) /\ UNCHANGED charges
    BY Zenon, <1>3 DEF InsertError
  <2> HIDE DEF new
  <2> QED
    BY Zenon, <1>3, <2>1, <2>2, EndRowInv
<1>4. CASE Undo(k, res) /\ SetRow(k, NoRow)
  BY Zenon, <1>1, <1>4, EndRowInv DEF Undo, At, Owning
<1>5. CASE Settle(k, res) /\ SetRow(k, [row(k) EXCEPT !.status = "authorized"])
  <2> DEFINE new == [row(k) EXCEPT !.status = "authorized"]
  <2>1. row(k) \in Rows
    BY Zenon DEF PayInv, PayTypeOK, Handling, row
  <2>2. new \in Rows
    BY Zenon, <2>1 DEF Rows
  <2>3. /\ charges[auth[k].chk].approved > 0 /\ auth[k].pc \in Owning
        /\ Done(k) /\ SetRow(k, new) /\ UNCHANGED charges
    BY Zenon, <1>5 DEF Settle, At, PayInv, SettleCharged, Owning
  <2> HIDE DEF new
  <2> QED
    BY Zenon, <2>2, <2>3, EndRowInv
<1> QED
  BY Zenon, <1>2, <1>3, <1>4, <1>5 DEF PayAnswer, Reject, Replay, InsertError, RereadError, Undo, Settle

\* Every step of the payment service preserves the invariant.
LEMMA PayNextInv == PayInv /\ [PayNext]_payVars => PayInv'
<1> SUFFICES ASSUME PayInv, PayNext PROVE PayInv'
  BY Zenon, PayStutter
<1>0. CASE \E c \in Checkouts : LateCharge(c)
  BY Zenon, <1>0, LateInv
<1> SUFFICES ASSUME NEW k \in Requests,
                    \/ \E c \in Checkouts, a \in Amounts : Authorize(k, c, a)
                    \/ PayStep(k)
                    \/ \E res \in {"ok", "fail"} : PayAnswer(k, res)
             PROVE  PayInv'
  BY Zenon, <1>0 DEF PayNext
<1>1. CASE \E c \in Checkouts, a \in Amounts : Authorize(k, c, a)
  BY Zenon, <1>1, AuthorizeInv
<1>2. CASE PayStep(k)
  <2>1. k \in DOMAIN auth
    BY Zenon, <1>2 DEF PayStep, Look, Insert, Charge, chargeProcessor, At
  <2>2. Look(k) => Goto(k, "insert") /\ UNCHANGED <<payments, charges>>
    BY Zenon DEF Look
  <2> QED
    BY Zenon, <1>2, <2>1, <2>2, MoveInv, InsertInv, ChargeInv DEF PayStep
<1>3. CASE \E res \in {"ok", "fail"} : PayAnswer(k, res)
  <2>1. k \in DOMAIN auth
    BY Zenon, <1>3 DEF PayAnswer, Reject, Replay, InsertError, RereadError, Undo, Settle, At
  <2> QED
    BY Zenon, <1>3, <2>1, AnswerInv
<1> QED
  BY Zenon, <1>1, <1>2, <1>3

\* With the invariant, no step of the service touches an authorized payment or charges
\* for it anew.
LEMMA FinalStep ==
  ASSUME PayInv, [PayNext]_payVars, NEW c \in Checkouts, payments[c].status = "authorized"
  PROVE  payments'[c] = payments[c] /\ Sent(c)' = Sent(c)
<1>1. payments[c] # NoRow /\ payments[c].status # "pending"
  BY DEF NoRow
<1>2. ASSUME NEW k \in DOMAIN auth, Charge(k) \/ chargeProcessor(k)
      PROVE  auth[k].chk # c
  <2>1. row(k) = [status |-> "pending", amount |-> auth[k].amount]
    BY Zenon, <1>2 DEF PayInv, ChargeExclusive, Charge, chargeProcessor, At, Owning
  <2>2. row(k).status = "pending"
    BY <2>1
  <2> QED
    BY Zenon, <1>1, <2>2 DEF row
<1>3. CASE UNCHANGED payVars
  BY Zenon, <1>3 DEF payVars, Sent
<1>4. ASSUME NEW d \in Checkouts, LateCharge(d)
      PROVE  payments'[c] = payments[c] /\ Sent(c)' = Sent(c)
  <2>1. charges \in [Checkouts -> [approved : Nat, late : Nat]] /\ UNCHANGED payments
    BY Zenon, <1>4 DEF LateCharge, PayInv, PayTypeOK
  <2>2. charges[d].approved \in Nat /\ charges[d].late \in Nat
    BY Zenon, <2>1
  <2> PICK a \in Nat, l \in Nat : a = charges[d].approved /\ l = charges[d].late
    BY Zenon, <2>2
  <2>3. a + 1 \in Nat /\ a + 1 >= a /\ l - 1 \in Nat /\ (a + 1) + (l - 1) = a + l
    BY <1>4 DEF LateCharge
  <2>4. charges' = [charges EXCEPT ![d] = [approved |-> a + 1, late |-> l - 1]]
    BY Zenon, <1>4 DEF LateCharge, approve
  <2>5. /\ charges'[d].approved = a + 1 /\ charges'[d].late = l - 1
        /\ \A e \in Checkouts \ {d} : charges'[e] = charges[e]
    BY Zenon, <2>1, <2>3, <2>4, CountsMove
  <2> QED
    BY Zenon, <2>1, <2>3, <2>5 DEF Sent
<1>5. CASE \E k \in Requests : \/ \E d \in Checkouts, a \in Amounts : Authorize(k, d, a)
                               \/ PayStep(k)
                               \/ \E res \in {"ok", "fail"} : PayAnswer(k, res)
  <2> PICK k \in Requests : \/ \E d \in Checkouts, a \in Amounts : Authorize(k, d, a)
                            \/ PayStep(k)
                            \/ \E res \in {"ok", "fail"} : PayAnswer(k, res)
    BY Zenon, <1>5
  <2>1. CASE \E d \in Checkouts, a \in Amounts : Authorize(k, d, a)
    BY Zenon, <2>1 DEF Authorize, Sent
  <2>2. CASE PayStep(k)
    <3>1. CASE Look(k)
      BY Zenon, <3>1 DEF Look, Sent
    <3>2. CASE Insert(k)
      BY Zenon, <1>1, <3>2 DEF Insert, SetRow, row, PayInv, PayTypeOK, Sent
    <3>3. CASE Charge(k) \/ chargeProcessor(k)
      <4>1. k \in DOMAIN auth /\ UNCHANGED payments
        BY Zenon, <3>3 DEF Charge, chargeProcessor, At
      <4>2. charges'[c] = charges[c]
        BY Zenon, <1>2, <3>3, <4>1 DEF Charge, chargeProcessor, approve, PayInv, PayTypeOK
      <4> QED
        BY Zenon, <4>1, <4>2 DEF Sent
    <3> QED
      BY Zenon, <2>2, <3>1, <3>2, <3>3 DEF PayStep
  <2>3. ASSUME NEW res, PayAnswer(k, res)
        PROVE  payments'[c] = payments[c] /\ Sent(c)' = Sent(c)
    BY Zenon, <1>1, <2>3 DEF Sent, PayAnswer, Reject, Replay, InsertError, RereadError, Undo, Settle,
                      SetRow, row, PayInv, PayTypeOK
  <2> QED
    BY Zenon, <2>1, <2>2, <2>3
<1> QED
  BY Zenon, <1>3, <1>4, <1>5 DEF PayNext

\* The payment service, whoever calls it and however often, charges exclusively, and
\* an authorized payment was approved.
THEOREM PaymentSafe == PaySpec => [](ChargeExclusive /\ AuthorizedCharged)
<1>1. PayInv => ChargeExclusive /\ AuthorizedCharged
  BY Zenon DEF PayInv
<1> QED
  BY <1>1, PayInitInv, PayNextInv, PTL DEF PaySpec

\* A payment the service authorized is not changed, and no new charge is sent for it;
\* what the processor approves then was sent by a try that had given up before.
THEOREM PaymentFinal == PaySpec => AuthorizedFinal
<1>1. PaySpec => []PayInv
  BY PayInitInv, PayNextInv, PTL DEF PaySpec
<1>2. PayInv /\ [PayNext]_payVars =>
        [\A c \in Checkouts : payments[c].status = "authorized" =>
           payments'[c] = payments[c] /\ Sent(c)' = Sent(c)]_payVars
  BY Zenon, FinalStep
<1> QED
  BY <1>1, <1>2, PTL DEF PaySpec, AuthorizedFinal

-----------------------------------------------------------------------------
\* The checkouts as callers: the n-th try is request <<c, n>>, and there are Tries.
Pcs == {"start", "item", "reserving", "retry", "paying", "confirm", "notify", "release",
        "releasing", "done", "failed", "error"}
Creating == [pc : Pcs, n : Nat, t : Nat, r : Nat, row : BOOLEAN, lines : SUBSET Nat]
Counted(x) ==
  /\ x \in Creating
  /\ x.pc \in {"start", "item", "reserving"} => x.t = 0
  /\ x.pc = "retry" => x.t < Tries

ChkInv == chk \in [Checkouts -> Creating] /\ \A c \in Checkouts : Counted(chk[c])

LEMMA ChkInitInv == ShopInit => ChkInv
<1> DEFINE x == [pc |-> "start", n |-> 0, t |-> 0, r |-> 0, row |-> FALSE, lines |-> {}]
<1>1. {} \in SUBSET Nat /\ FALSE \in BOOLEAN /\ 0 \in Nat /\ "start" \in Pcs
  BY Zenon DEF Pcs
<1>2. x \in Creating /\ x.pc = "start" /\ x.t = 0
  BY Zenon, <1>1 DEF Creating
<1>3. Counted(x)
  BY Zenon, <1>2 DEF Counted
<1> HIDE DEF x
<1>4. ShopInit => chk = [c \in Checkouts |-> x]
  BY Zenon DEF ShopInit, x
<1> QED
  BY Zenon, <1>2, <1>3, <1>4 DEF ChkInv

\* Moving on keeps the tries counted.
LEMMA ToCounted ==
  ASSUME NEW x \in Creating, NEW pc \in Pcs,
         pc \in {"start", "item", "reserving"} => x.t = 0, pc = "retry" => x.t < Tries
  PROVE  Counted(To(x, pc))
<1>1. To(x, pc) \in Creating /\ To(x, pc).pc = pc /\ To(x, pc).t = x.t
  BY Zenon DEF Creating, To
<1> QED
  BY Zenon, <1>1 DEF Counted

\* An answer keeps the tries counted.
LEMMA HeardInv ==
  ASSUME NEW x, Counted(x), NEW res \in {"ok", "fail"}, x.pc \in {"reserving", "paying", "releasing"}
  PROVE  Counted(Heard(x, res))
<1>1. x \in Creating /\ (x.pc = "reserving" => x.t = 0)
  BY Zenon DEF Counted
<1>3. CASE x.pc = "reserving" /\ res = "ok"
  <2> DEFINE y == [x EXCEPT !.n = @ + 1]
  <2>1. Heard(x, res) = To(y, "item")
    BY Zenon, <1>3 DEF Heard
  <2>2. y \in Creating /\ y.t = 0
    BY <1>1, <1>3 DEF Creating
  <2> HIDE DEF y
  <2> QED
    BY Zenon, <2>1, <2>2, ToCounted DEF Pcs
<1>4. CASE x.pc = "reserving" /\ res = "fail"
  <2>1. Heard(x, res) = To(x, "release")
    BY Zenon, <1>4 DEF Heard
  <2> QED
    BY Zenon, <1>1, <2>1, ToCounted DEF Pcs
<1>5. CASE x.pc = "paying" /\ res = "ok"
  <2>1. Heard(x, res) = To(x, "confirm")
    BY Zenon, <1>5 DEF Heard
  <2> QED
    BY Zenon, <1>1, <2>1, ToCounted DEF Pcs
<1>6. CASE x.pc = "paying" /\ res = "fail"
  <2> DEFINE pc == IF x.t < Tries THEN "retry" ELSE "release"
  <2>1. Heard(x, res) = To(x, pc)
    BY Zenon, <1>6 DEF Heard
  <2>2. pc \in Pcs /\ (pc = "retry" => x.t < Tries) /\ pc \notin {"start", "item", "reserving"}
    BY Zenon DEF Pcs
  <2> HIDE DEF pc
  <2> QED
    BY Zenon, <1>1, <2>1, <2>2, ToCounted
<1>7. CASE x.pc = "releasing"
  <2>1. Heard(x, res) = To(x, "release")
    BY Zenon, <1>7 DEF Heard
  <2> QED
    BY Zenon, <1>1, <2>1, ToCounted DEF Pcs
<1> QED
  BY Zenon, <1>3, <1>4, <1>5, <1>6, <1>7

\* A step of one checkout's create, or of none.
LEMMA OneMoves ==
  ASSUME ChkInv, NEW c \in Checkouts, NEW y, Counted(y), chk' = [chk EXCEPT ![c] = y]
  PROVE  ChkInv'
  BY Zenon DEF ChkInv, Counted

LEMMA CreateInv ==
  ASSUME ChkInv, NEW c \in Checkouts, create(c)
  PROVE  ChkInv'
<1> DEFINE x == chk[c]
<1>1. x \in Creating /\ Counted(x)
  BY Zenon DEF ChkInv
<1>2. x.t \in Nat /\ x.r \in Nat
  BY Zenon, <1>1 DEF Creating
<1>3. ASSUME NEW pc \in Pcs \ {"start", "item", "reserving", "retry"}, NEW y \in Creating,
             chk' = [chk EXCEPT ![c] = To(y, pc)]
      PROVE  ChkInv'
  BY Zenon, <1>3, ToCounted, OneMoves
<1>4. CASE User(c)
  <2>1. x.t = 0
    BY Zenon, <1>1, <1>4 DEF User, In, Counted
  <2>2. Counted(To(x, "item")) /\ Counted(To(x, "failed"))
    BY Zenon, <1>1, <2>1, ToCounted DEF Pcs
  <2>3. chk' = [chk EXCEPT ![c] = To(x, "item")] \/ chk' = [chk EXCEPT ![c] = To(x, "failed")]
    BY Zenon, <1>4 DEF User, Enter
  <2> QED
    BY Zenon, <2>2, <2>3, OneMoves
<1>5. CASE Reserve(c)
  <2>1. x.t = 0
    BY Zenon, <1>1, <1>5 DEF Reserve, In, Counted
  <2>2. Counted(To(x, "reserving"))
    BY Zenon, <1>1, <2>1, ToCounted DEF Pcs
  <2>3. chk' = [chk EXCEPT ![c] = To(x, "reserving")]
    BY Zenon, <1>5 DEF Reserve, Enter
  <2> QED
    BY Zenon, <2>2, <2>3, OneMoves
<1>6. CASE ItemUnavailable(c)
  BY Zenon, <1>1, <1>3, <1>6 DEF ItemUnavailable, Enter, Pcs
<1>7. CASE Pay(c)
  <2> DEFINE y == [x EXCEPT !.t = x.t + 1]
  <2>1. y \in Creating
    BY <1>1, <1>2 DEF Creating
  <2>2. chk' = [chk EXCEPT ![c] = To(y, "paying")]
    BY Zenon, <1>7 DEF Pay
  <2> HIDE DEF y
  <2> QED
    BY Zenon, <1>3, <2>1, <2>2 DEF Pcs
<1>8. CASE Confirm(c)
  <2>1. \E b \in BOOLEAN, pc \in {"notify", "error"} : chk' = [chk EXCEPT ![c] = To([x EXCEPT !.row = b], pc)]
    BY Zenon, <1>8 DEF Confirm
  <2>2. \A b \in BOOLEAN : [x EXCEPT !.row = b] \in Creating
    BY Zenon, <1>1 DEF Creating
  <2> QED
    BY Zenon, <1>3, <2>1, <2>2 DEF Pcs
<1>9. CASE Notify(c)
  <2>1. PICK s \in SUBSET (1..Count(c)) : chk' = [chk EXCEPT ![c] = To([x EXCEPT !.lines = s], "done")]
    BY Zenon, <1>9 DEF Notify
  <2>2. s \in SUBSET Nat
    BY ShopAssumption DEF MaxItems
  <2>3. [x EXCEPT !.lines = s] \in Creating
    BY Zenon, <1>1, <2>2 DEF Creating
  <2> QED
    BY Zenon, <1>3, <2>1, <2>3 DEF Pcs
<1>10. CASE releaseAll(c)
  <2> DEFINE y == [x EXCEPT !.r = x.r + 1]
  <2>1. y \in Creating
    BY <1>1, <1>2 DEF Creating
  <2>2. chk' = [chk EXCEPT ![c] = To(y, "releasing")] \/ chk' = [chk EXCEPT ![c] = To(x, "failed")]
    BY Zenon, <1>10 DEF releaseAll, Enter
  <2> HIDE DEF y
  <2> QED
    BY Zenon, <1>1, <1>3, <2>1, <2>2 DEF Pcs
<1>11. CASE CallFails(c)
  <2>1. Counted(Heard(x, "fail")) /\ chk' = [chk EXCEPT ![c] = Heard(x, "fail")]
    BY Zenon, <1>1, <1>11, HeardInv DEF CallFails
  <2> QED
    BY Zenon, <2>1, OneMoves
<1> QED
  BY Zenon, <1>4, <1>5, <1>6, <1>7, <1>8, <1>9, <1>10, <1>11 DEF create

\* Every step of the shop keeps the tries counted.
LEMMA ChkNextInv == ChkInv /\ [ShopNext]_shopVars => ChkInv'
<1> SUFFICES ASSUME ChkInv, [ShopNext]_shopVars PROVE ChkInv'
  BY Zenon
<1>1. CASE UNCHANGED chk
  BY Zenon, <1>1 DEF ChkInv
<1>2. ASSUME NEW k, NEW res \in {"ok", "fail"}, Hear(k, res)
      PROVE  ChkInv'
  <2>1. \A c \in Checkouts : Counted(chk'[c])
    BY Zenon, <1>2, HeardInv DEF Hear, Waits, In, ChkInv
  <2>2. chk' \in [Checkouts -> Creating]
    BY Zenon, <1>2, <2>1 DEF Hear, Counted
  <2> QED
    BY Zenon, <2>1, <2>2 DEF ChkInv
<1> QED
  BY Zenon, <1>1, <1>2, CreateInv DEF ShopNext, Inventory, Payment, shopVars

\* A step of the shop is a step of the payment service, with a request of its own for
\* each try, or leaves it alone.
LEMMA ShopPays ==
  ASSUME ChkInv, PayTypeOK, [ShopNext]_shopVars
  PROVE  [PayNext]_payVars
<1>1. CASE Payment
  BY Zenon, <1>1 DEF Payment, PayNext, PayTypeOK
<1>2. ASSUME NEW c \in Checkouts, Pay(c)
      PROVE  PayNext
  <2>1. chk[c].t \in Nat /\ chk[c].t + 1 \in 1..Tries
    BY <1>2, ShopAssumption DEF Pay, In, ChkInv, Counted, Creating
  <2>2. <<c, chk[c].t + 1>> \in Requests /\ Total(c) \in Amounts
    BY Zenon, <2>1, ShopAssumption
  <2>3. Authorize(<<c, chk[c].t + 1>>, c, Total(c))
    BY Zenon, <1>2 DEF Pay
  <2> QED
    BY Zenon, <2>2, <2>3 DEF PayNext
<1>3. ASSUME NEW c \in Checkouts, create(c), ~Pay(c)
      PROVE  UNCHANGED payVars
  BY Zenon, <1>3 DEF create, User, Reserve, ItemUnavailable, Confirm, Notify, releaseAll, CallFails
<1>4. CASE UNCHANGED shopVars
  BY Zenon, <1>4 DEF shopVars, payVars
<1>5. CASE Inventory
  BY Zenon, <1>5 DEF Inventory
<1> QED
  BY Zenon, <1>1, <1>2, <1>3, <1>4, <1>5 DEF ShopNext

\* The shop's checkouts are callers of the payment service: the composition implements
\* the payment service's own specification.
THEOREM ShopImplementsPayment == ShopSpec => PaySpec
<1>1. ShopInit => PayInit /\ ChkInv
  BY Zenon, ChkInitInv DEF ShopInit
<1>2. ShopSpec => []ChkInv
  BY <1>1, ChkNextInv, PTL DEF ShopSpec
<1>3. PayInv => PayTypeOK
  BY Zenon DEF PayInv
<1>4. ChkInv /\ PayInv /\ [ShopNext]_shopVars => PayInv'
  BY Zenon, <1>3, ShopPays, PayNextInv
<1>5. ShopSpec => []PayInv
  BY <1>1, <1>2, <1>4, PayInitInv, PTL DEF ShopSpec
<1> QED
  BY <1>1, <1>2, <1>3, <1>5, ShopPays, PTL DEF ShopSpec, PaySpec

\* In the shop, two tries for one checkout never charge at once (payment
\* handler.go:85-114), for any number of checkouts, items and tries.
THEOREM ShopChargeExclusive == ShopSpec => []ChargeExclusive
  BY ShopImplementsPayment, PaymentSafe, PTL

\* In the shop, a try after success leaves the payment alone and sends no charge
\* (DEFECTS.md).
THEOREM ShopAuthorizedFinal == ShopSpec => AuthorizedFinal
  BY ShopImplementsPayment, PaymentFinal, PTL


-----------------------------------------------------------------------------
(* Sums of quantities *)

\* A line of a checkout, and its quantity.
Pairs == {h \in Checkouts \X (1..MaxItems) : h[2] <= Count(h[1])}
Qty(h) == Item(h[1], h[2]).qty
SumQty(S) == MapThenSumSet(LAMBDA h : Item(h[1], h[2]).qty, S)

\* There are finitely many lines.
LEMMA PairsAssumed == IsFiniteSet(Pairs) /\ \A h \in Pairs : Qty(h) \in Nat
<1>1. IsFiniteSet(Checkouts) /\ IsFiniteSet(1..MaxItems)
  <2>1. 1 \in Int /\ MaxItems \in Int
    BY DEF MaxItems
  <2> QED  BY Zenon, <2>1, ShopAssumption, FS_Interval
<1>2. IsFiniteSet(Checkouts \X (1..MaxItems))
  BY Zenon, <1>1, FS_Product
<1>3. IsFiniteSet(Pairs)
  BY Zenon, <1>2, FS_Subset DEF Pairs
<1>4. ASSUME NEW h \in Pairs PROVE Qty(h) \in Nat
  <2>1. h[1] \in Checkouts /\ h[2] \in 1..Count(h[1])
    BY ShopAssumption DEF Pairs, MaxItems
  <2> QED  BY Zenon, <2>1, ShopAssumption DEF Qty
<1> QED  BY Zenon, <1>3, <1>4

pick(s) == CHOOSE x \in s : TRUE
\* The equation of the fold.
Eqn(g, s) == IF s = {} THEN 0 ELSE Qty(pick(s)) + g[s \ {pick(s)}]

\* Among sets of pairs there is a smallest.
LEMMA SmallestSet ==
  ASSUME NEW P \in SUBSET SUBSET Pairs, P # {}
  PROVE  \E s \in P : \A t \in P : Cardinality(s) <= Cardinality(t)
<1> DEFINE N == {Cardinality(s) : s \in P}
<1>1. \A s \in P : IsFiniteSet(s) /\ Cardinality(s) \in Nat
  BY Zenon, PairsAssumed, FS_Subset, FS_CardinalityType
<1>2. N \in SUBSET Nat /\ N # {}
  BY Zenon, <1>1
<1> HIDE DEF N
<1>3. PICK n \in N : \A m \in N : <<m, n>> \notin OpToRel(<, Nat)
  BY ZenonT(30), <1>2, WFMin, NatLessThanWellFounded
<1>4. ASSUME NEW m \in N PROVE n <= m
  <2> DEFINE pair == <<m, n>>
  <2>1. pair \in Nat \X Nat /\ pair[1] = m /\ pair[2] = n
    BY Zenon, <1>2
  <2>2. pair \notin {ss \in Nat \X Nat : ss[1] < ss[2]}
    BY <1>3, Zenon DEF OpToRel
  <2> HIDE DEF pair
  <2>3. ~(m < n)
    BY Zenon, <2>1, <2>2
  <2> QED  BY <1>2, <2>3
<1> QED  BY Zenon, <1>3, <1>4 DEF N

\* A set without one of its elements is smaller.
LEMMA Removed ==
  ASSUME NEW s \in SUBSET Pairs, NEW x \in s
  PROVE  /\ s \ {x} \in SUBSET Pairs /\ IsFiniteSet(s) /\ IsFiniteSet(s \ {x})
         /\ Cardinality(s) \in Nat /\ Cardinality(s \ {x}) \in Nat
         /\ Cardinality(s \ {x}) = Cardinality(s) - 1
         /\ ~(Cardinality(s) <= Cardinality(s \ {x}))
<1>1. IsFiniteSet(s)
  BY Zenon, PairsAssumed, FS_Subset
<1>2. IsFiniteSet(s \ {x}) /\ Cardinality(s \ {x}) = Cardinality(s) - 1
  BY Zenon, <1>1, FS_RemoveElement
<1> QED  BY <1>1, <1>2, FS_CardinalityType

\* What is picked is an element.
LEMMA Picked == ASSUME NEW s, s # {} PROVE pick(s) \in s
BY Zenon DEF pick

\* The fold of a set is the value at that set of a function that satisfies the equation.
LEMMA FoldIs ==
  ASSUME NEW S
  PROVE  SumQty(S) = (CHOOSE g : g = [s \in SUBSET S |-> Eqn(g, s)])[S]
BY Zenon DEF SumQty, Qty, MapThenSumSet, MapThenFoldSet, pick, Eqn

\* The subsets of a size, and a solution for them.
Small(S, n) == {s \in SUBSET S : Cardinality(s) <= n}
Solves(g, S, n) == g = [s \in Small(S, n) |-> Eqn(g, s)]

\* There is one on the sets of each size.
LEMMA Solvable ==
  ASSUME NEW S \in SUBSET Pairs, NEW n \in Nat
  PROVE  \E g : Solves(g, S, n)
<1> DEFINE Bad == {m \in Nat : ~\E g : Solves(g, S, m)}
<1> SUFFICES ASSUME Bad # {} PROVE FALSE
  BY Zenon
<1>0. \A s \in SUBSET S : Cardinality(s) \in Nat /\ IsFiniteSet(s)
  BY Zenon, PairsAssumed, FS_Subset, FS_CardinalityType
<1>1. PICK m \in Bad : \A k \in Bad : ~(k < m)
  <2>1. PICK m \in Bad : \A k \in Bad : <<k, m>> \notin OpToRel(<, Nat)
    BY Zenon, WFMin, NatLessThanWellFounded
  <2>2. ASSUME NEW k \in Bad PROVE ~(k < m)
    <3> DEFINE pair == <<k, m>>
    <3>1. pair \in Nat \X Nat /\ pair[1] = k /\ pair[2] = m
      BY Zenon
    <3>2. pair \notin {ss \in Nat \X Nat : ss[1] < ss[2]}
      BY <2>1, Zenon DEF OpToRel
    <3> HIDE DEF pair
    <3> QED  BY Zenon, <3>1, <3>2
  <2> QED  BY Zenon, <2>2
<1>2. m \in Nat /\ ~\E g : Solves(g, S, m)
  BY Zenon
<1>3. CASE m = 0
  <2> DEFINE g == [s \in Small(S, 0) |-> 0]
  <2>1. \A s \in Small(S, 0) : s = {}
    BY <1>0, FS_EmptySet DEF Small
  <2>2. Solves(g, S, 0)
    BY Zenon, <2>1 DEF Solves, Eqn
  <2> QED  BY Zenon, <1>2, <1>3, <2>2
<1>4. CASE m # 0
  <2>1. m - 1 \in Nat /\ m - 1 \notin Bad
    BY <1>1, <1>2, <1>4
  <2>2. PICK g : Solves(g, S, m - 1)
    BY Zenon, <2>1
  <2> DEFINE h == [s \in Small(S, m) |-> Eqn(g, s)]
  <2>3. ASSUME NEW s \in Small(S, m), s # {}
        PROVE  s \ {pick(s)} \in Small(S, m - 1) /\ s \ {pick(s)} \in Small(S, m)
    <3>1. pick(s) \in s /\ s \in SUBSET Pairs /\ s \in SUBSET S /\ Cardinality(s) <= m
      BY Zenon, <2>3, Picked DEF Small
    <3>2. Cardinality(s) \in Nat /\ Cardinality(s \ {pick(s)}) = Cardinality(s) - 1
      BY Zenon, <3>1, Removed
    <3> QED  BY <1>2, <3>1, <3>2 DEF Small
  <2>4. ASSUME NEW s \in Small(S, m - 1) PROVE h[s] = g[s] /\ s \in Small(S, m)
    <3>1. s \in Small(S, m)
      BY <1>0, <1>2 DEF Small
    <3>2. g[s] = Eqn(g, s)
      BY Zenon, <2>2 DEF Solves
    <3> QED  BY Zenon, <3>1, <3>2
  <2>5. ASSUME NEW s \in Small(S, m) PROVE Eqn(h, s) = Eqn(g, s)
    <3>1. CASE s = {}
      BY Zenon, <3>1 DEF Eqn
    <3>2. CASE s # {}
      <4>1. h[s \ {pick(s)}] = g[s \ {pick(s)}]
        BY Zenon, <2>3, <2>4, <3>2
      <4> HIDE DEF h
      <4> QED  BY Zenon, <3>2, <4>1 DEF Eqn
    <3> QED  BY Zenon, <3>1, <3>2
  <2>6. Solves(h, S, m)
    BY Zenon, <2>5 DEF Solves
  <2> QED  BY Zenon, <1>2, <2>6
<1> QED  BY Zenon, <1>3, <1>4

\* The function the fold of S uses.
fold(S) == CHOOSE g : g = [s \in SUBSET S |-> Eqn(g, s)]

\* It satisfies the equation.
LEMMA FoldSolves ==
  ASSUME NEW S \in SUBSET Pairs
  PROVE  \A s \in SUBSET S : fold(S)[s] = Eqn(fold(S), s)
<1>1. IsFiniteSet(S) /\ Cardinality(S) \in Nat
  BY Zenon, PairsAssumed, FS_Subset, FS_CardinalityType
<1>2. PICK g : Solves(g, S, Cardinality(S))
  BY Zenon, <1>1, Solvable
<1>3. Small(S, Cardinality(S)) = SUBSET S
  BY Zenon, <1>1, FS_Subset DEF Small
<1>4. g = [s \in SUBSET S |-> Eqn(g, s)]
  BY Zenon, <1>2, <1>3 DEF Solves
<1>5. fold(S) = [s \in SUBSET S |-> Eqn(fold(S), s)]
  BY Zenon, <1>4 DEF fold
<1> QED  BY Zenon, <1>5

\* It agrees with the fold of every subset.
LEMMA FoldAgrees ==
  ASSUME NEW S \in SUBSET Pairs, NEW T \in SUBSET S
  PROVE  fold(S)[T] = SumQty(T)
<1> DEFINE Bad == {s \in SUBSET T : fold(S)[s] # fold(T)[s]}
<1>1. Bad = {}
  <2> SUFFICES ASSUME Bad # {} PROVE FALSE
    BY Zenon
  <2>1. Bad \in SUBSET SUBSET Pairs
    BY Zenon
  <2>2. PICK s \in Bad : \A t \in Bad : Cardinality(s) <= Cardinality(t)
    BY Zenon, <2>1, SmallestSet
  <2>3. /\ s \in SUBSET T /\ s \in SUBSET Pairs /\ s \in SUBSET S
        /\ fold(S)[s] = Eqn(fold(S), s) /\ fold(T)[s] = Eqn(fold(T), s)
        /\ fold(S)[s] # fold(T)[s]
    BY Zenon, FoldSolves
  <2>4. s # {} /\ fold(S)[s \ {pick(s)}] # fold(T)[s \ {pick(s)}]
    BY Zenon, <2>3 DEF Eqn
  <2>5. pick(s) \in s
    BY Zenon, <2>4, Picked
  <2>6. s \ {pick(s)} \in Bad
    BY Zenon, <2>3, <2>4
  <2>7. ~(Cardinality(s) <= Cardinality(s \ {pick(s)}))
    BY Zenon, <2>3, <2>5, Removed
  <2> QED  BY Zenon, <2>2, <2>6, <2>7
<1>2. fold(S)[T] = fold(T)[T]
  BY Zenon, <1>1
<1> QED  BY Zenon, <1>2, FoldIs DEF fold

\* The sum of the empty set, and the sum of a set from that of a smaller one.
LEMMA SumPicked ==
  ASSUME NEW S \in SUBSET Pairs
  PROVE  /\ S = {} => SumQty(S) = 0
         /\ S # {} => SumQty(S) = Qty(pick(S)) + SumQty(S \ {pick(S)})
<1>1. SumQty(S) = fold(S)[S] /\ fold(S)[S] = Eqn(fold(S), S)
  BY Zenon, FoldSolves, FoldIs DEF fold
<1>2. fold(S)[S \ {pick(S)}] = SumQty(S \ {pick(S)})
  BY Zenon, FoldAgrees
<1> QED  BY Zenon, <1>1, <1>2 DEF Eqn

\* A sum of quantities is a natural number.
LEMMA SumNat ==
  ASSUME NEW S \in SUBSET Pairs
  PROVE  SumQty(S) \in Nat
<1> DEFINE Bad == {s \in SUBSET Pairs : SumQty(s) \notin Nat}
<1> SUFFICES ASSUME Bad # {} PROVE FALSE
  BY Zenon
<1>1. PICK s \in Bad : \A t \in Bad : Cardinality(s) <= Cardinality(t)
  BY Zenon, SmallestSet
<1>2. s \in SUBSET Pairs /\ SumQty(s) \notin Nat
  BY Zenon
<1>3. s # {} /\ SumQty(s) = Qty(pick(s)) + SumQty(s \ {pick(s)})
  BY <1>2, SumPicked
<1>4. pick(s) \in s /\ Qty(pick(s)) \in Nat /\ s \ {pick(s)} \in SUBSET Pairs
  BY Zenon, <1>2, <1>3, Picked, PairsAssumed
<1>5. s \ {pick(s)} \in Bad
  BY <1>2, <1>3, <1>4
<1>6. ~(Cardinality(s) <= Cardinality(s \ {pick(s)}))
  BY Zenon, <1>2, <1>4, Removed
<1> QED  BY Zenon, <1>1, <1>5, <1>6

\* Any element may be taken out first.
LEMMA SumRemove ==
  ASSUME NEW S \in SUBSET Pairs, NEW e \in S
  PROVE  SumQty(S) = Qty(e) + SumQty(S \ {e})
<1> DEFINE Bad == {s \in SUBSET Pairs : \E x \in s : SumQty(s) # Qty(x) + SumQty(s \ {x})}
<1> SUFFICES ASSUME Bad # {} PROVE FALSE
  BY Zenon
<1>1. PICK s \in Bad : \A t \in Bad : Cardinality(s) <= Cardinality(t)
  BY Zenon, SmallestSet
<1>2. PICK x \in s : SumQty(s) # Qty(x) + SumQty(s \ {x})
  BY Zenon
<1> DEFINE y == pick(s)
<1>3. s \in SUBSET Pairs /\ s # {} /\ y \in s
  BY Zenon, Picked
<1>4. SumQty(s) = Qty(y) + SumQty(s \ {y}) /\ y # x
  BY Zenon, <1>2, <1>3, SumPicked
<1> HIDE DEF y
<1>5. /\ s \ {x} \in SUBSET Pairs /\ s \ {y} \in SUBSET Pairs
      /\ s \ {x} \notin Bad /\ s \ {y} \notin Bad
  <2>1. s \ {x} \in SUBSET Pairs /\ s \ {y} \in SUBSET Pairs
    BY Zenon, <1>3
  <2>2. ~(Cardinality(s) <= Cardinality(s \ {x})) /\ ~(Cardinality(s) <= Cardinality(s \ {y}))
    BY Zenon, <1>3, Removed
  <2> QED  BY Zenon, <1>1, <2>1, <2>2
<1>6. SumQty(s \ {y}) = Qty(x) + SumQty((s \ {y}) \ {x})
  BY Zenon, <1>2, <1>4, <1>5
<1>7. SumQty(s \ {x}) = Qty(y) + SumQty((s \ {x}) \ {y})
  BY Zenon, <1>3, <1>4, <1>5
<1>8. (s \ {x}) \ {y} = (s \ {y}) \ {x} /\ (s \ {y}) \ {x} \in SUBSET Pairs
  BY Zenon, <1>3
<1>9. PICK a, b, z : a = Qty(x) /\ b = Qty(y) /\ z = SumQty((s \ {y}) \ {x})
  BY Zenon
<1>10. a \in Nat /\ b \in Nat /\ z \in Nat
  BY Zenon, <1>3, <1>8, <1>9, PairsAssumed, SumNat
<1>11. SumQty(s) = b + (a + z)
  BY Zenon, <1>4, <1>6, <1>9
<1>12. SumQty(s) # a + (b + z)
  BY Zenon, <1>2, <1>7, <1>8, <1>9
<1>13. b + (a + z) = a + (b + z)
  BY <1>10
<1> QED  BY Zenon, <1>11, <1>12, <1>13

\* More elements do not have a smaller sum.
LEMMA SumMonotone ==
  ASSUME NEW S \in SUBSET Pairs, NEW T \in SUBSET S
  PROVE  SumQty(T) <= SumQty(S)
<1> DEFINE Bad == {s \in SUBSET Pairs : T \in SUBSET s /\ ~(SumQty(T) <= SumQty(s))}
<1> SUFFICES ASSUME Bad # {} PROVE FALSE
  BY Zenon
<1>1. PICK s \in Bad : \A t \in Bad : Cardinality(s) <= Cardinality(t)
  BY Zenon, SmallestSet
<1>2. s \in SUBSET Pairs /\ T \in SUBSET s /\ ~(SumQty(T) <= SumQty(s)) /\ SumQty(s) \in Nat /\ SumQty(T) \in Nat
  BY Zenon, SumNat
<1>3. PICK x \in s : x \notin T
  <2>1. T # s
    BY <1>2
  <2> QED  BY Zenon, <1>2, <2>1
<1>4. SumQty(s) = Qty(x) + SumQty(s \ {x}) /\ Qty(x) \in Nat /\ SumQty(s \ {x}) \in Nat /\ s \ {x} \in SUBSET Pairs
  BY Zenon, <1>2, SumRemove, SumNat, PairsAssumed
<1>5. s \ {x} \in Bad
  BY <1>2, <1>3, <1>4
<1>6. ~(Cardinality(s) <= Cardinality(s \ {x}))
  BY Zenon, <1>2, <1>3, Removed
<1> QED  BY Zenon, <1>1, <1>5, <1>6


-----------------------------------------------------------------------------
(* The invariant of the shop *)

\* Where create is in its request: what it reserved, released and recorded.
Paying == {"retry", "paying", "confirm", "notify", "done", "error"}
Keeping == Paying \cup {"start", "item", "reserving"}
Placed(c, x) ==
  /\ x.n \in 0..Count(c) /\ x.r \in 0..x.n /\ x.t \in 0..Tries
  /\ x.pc \in Keeping => x.r = 0
  /\ x.pc \in Paying => x.n = Count(c)
  /\ x.pc = "reserving" => x.n < Count(c)
  /\ x.row => x.pc \in {"notify", "done", "error"}

MutPcs == {"lock", "update", "event", "error"}
Posted(kind, c, i) == [kind : {kind}, sku : {Item(c, i).sku}, qty : {Item(c, i).qty}, pc : MutPcs]

\* A request of the inventory is the reservation create is at or gave up at, or one of
\* its releases.
Reserves(k, c, i) ==
  /\ k = <<c, "reserve", i>> /\ mut[k] \in Posted("reserve", c, i)
  /\ i = chk[c].n + 1 /\ chk[c].pc \notin {"start", "item"}
Releases(k, c, i) ==
  /\ k = <<c, "release", i>> /\ mut[k] \in Posted("release", c, i)
  /\ i <= chk[c].r
MutOK ==
  \A k \in DOMAIN mut : \E c \in Checkouts : \E i \in 1..Count(c) : Reserves(k, c, i) \/ Releases(k, c, i)

\* A request of the payment service is a try of a checkout, for its total.
Tried(k, c) == k = <<c, k[2]>> /\ auth[k].chk = c /\ auth[k].amount = Total(c)
AuthOK == \A k \in DOMAIN auth : \E c \in Checkouts : Tried(k, c)

\* A checkout that is to be recorded has been paid.
Paid(c) == payments[c] = [status |-> "authorized", amount |-> Total(c)]
PaidOK == \A c \in Checkouts : chk[c].pc = "confirm" \/ chk[c].row => Paid(c)

\* The lines that account for stock: reserved and not released, their release not yet
\* written, or their reservation written and not yet heard of.
Claimed(c, i) ==
  \/ i \in (chk[c].r + 1)..chk[c].n
  \/ MutAt(<<c, "release", i>>, "lock") \/ MutAt(<<c, "release", i>>, "update")
  \/ MutAt(<<c, "reserve", i>>, "event")
Claims(sku) == {h \in Pairs : Claimed(h[1], h[2]) /\ Item(h[1], h[2]).sku = sku}
StockOK ==
  /\ stock \in [Skus -> Nat] /\ lock \in BOOLEAN
  /\ \A sku \in Skus : stock[sku] + SumQty(Claims(sku)) <= Initial[sku]

ShopInv ==
  /\ ChkInv /\ PayInv /\ \A c \in Checkouts : Placed(c, chk[c])
  /\ MutOK /\ AuthOK /\ PaidOK /\ StockOK


-----------------------------------------------------------------------------
(* How create moves *)

\* Moving on changes nothing else.
LEMMA ToFields ==
  ASSUME NEW x \in Creating, NEW pc \in Pcs
  PROVE  LET y == To(x, pc) IN
         /\ y \in Creating /\ y.pc = pc /\ y.n = x.n /\ y.r = x.r /\ y.t = x.t /\ y.row = x.row
BY Zenon DEF To, Creating

\* The steps of create itself, from x to y.
Calm(x, y) == y.n = x.n /\ y.r = x.r /\ y.t = x.t /\ y.row = x.row
Onward(c, x, y) ==
  \/ Calm(x, y) /\ x.pc = "start" /\ y.pc \in {"item", "failed"}
  \/ Calm(x, y) /\ x.pc = "item" /\ x.n < Count(c) /\ y.pc = "reserving"
  \/ Calm(x, y) /\ x.pc \in {"item", "reserving", "paying", "releasing"} /\ y.pc = "release"
  \/ Calm(x, y) /\ x.pc = "paying" /\ x.t < Tries /\ y.pc = "retry"
  \/ Calm(x, y) /\ x.pc = "notify" /\ y.pc = "done"
  \/ Calm(x, y) /\ x.pc = "release" /\ y.pc = "failed"
  \/ /\ x.pc \in {"item", "retry"} /\ (x.pc = "item" => x.n = Count(c)) /\ y.pc = "paying"
     /\ y.t = x.t + 1 /\ y.n = x.n /\ y.r = x.r /\ y.row = x.row
  \/ x.pc = "confirm" /\ y.pc \in {"notify", "error"} /\ y.n = x.n /\ y.r = x.r /\ y.t = x.t
  \/ /\ x.pc = "release" /\ x.r + 1 <= x.n /\ y.pc = "releasing"
     /\ y.r = x.r + 1 /\ y.n = x.n /\ y.t = x.t /\ y.row = x.row

\* An answer that came as a failure, or to a release.
LEMMA FailMoves ==
  ASSUME NEW c, NEW x \in Creating, NEW res \in {"ok", "fail"}, x.pc \in {"reserving", "paying", "releasing"},
         res = "fail" \/ x.pc = "releasing"
  PROVE  Heard(x, res) \in Creating /\ Onward(c, x, Heard(x, res))
<1>1. CASE x.pc = "paying" /\ x.t < Tries
  <2>1. Heard(x, res) = To(x, "retry")
    BY Zenon, <1>1 DEF Heard
  <2> QED  BY <1>1, <2>1, ToFields DEF Onward, Calm, Pcs
<1>2. CASE ~(x.pc = "paying" /\ x.t < Tries)
  <2>1. Heard(x, res) = To(x, "release")
    BY Zenon, <1>2 DEF Heard
  <2> QED  BY <2>1, ToFields DEF Onward, Calm, Pcs
<1> QED  BY Zenon, <1>1, <1>2

\* Every step of create is one of those.
LEMMA CreateMoves ==
  ASSUME ChkInv, NEW c \in Checkouts, create(c)
  PROVE  \E y \in Creating : chk' = [chk EXCEPT ![c] = y] /\ Onward(c, chk[c], y)
<1> DEFINE x == chk[c]
<1>1. x \in Creating /\ x.t \in Nat /\ x.r \in Nat
  BY Zenon DEF ChkInv, Creating
<1>2. CASE User(c)
  <2>1. PICK pc \in {"item", "failed"} : chk' = [chk EXCEPT ![c] = To(x, pc)]
    BY Zenon, <1>2 DEF User, Enter
  <2>2. x.pc = "start"
    BY Zenon, <1>2 DEF User, In
  <2>3. To(x, pc) \in Creating /\ Onward(c, x, To(x, pc))
    BY <1>1, <2>2, ToFields DEF Onward, Calm, Pcs
  <2> QED  BY Zenon, <2>1, <2>3
<1>3. CASE Reserve(c)
  <2>1. chk' = [chk EXCEPT ![c] = To(x, "reserving")] /\ x.pc = "item" /\ x.n < Count(c)
    BY Zenon, <1>3 DEF Reserve, Enter, In
  <2>2. To(x, "reserving") \in Creating /\ Onward(c, x, To(x, "reserving"))
    BY <1>1, <2>1, ToFields DEF Onward, Calm, Pcs
  <2> QED  BY Zenon, <2>1, <2>2
<1>4. CASE ItemUnavailable(c)
  <2>1. chk' = [chk EXCEPT ![c] = To(x, "release")] /\ x.pc = "item"
    BY Zenon, <1>4 DEF ItemUnavailable, Enter, In
  <2>2. To(x, "release") \in Creating /\ Onward(c, x, To(x, "release"))
    BY ZenonT(30), <1>1, <2>1, ToFields DEF Onward, Calm, Pcs
  <2> QED  BY Zenon, <2>1, <2>2
<1>5. CASE Pay(c)
  <2> DEFINE y == [x EXCEPT !.t = x.t + 1]
  <2>1. chk' = [chk EXCEPT ![c] = To(y, "paying")] /\ x.pc \in {"item", "retry"} /\ (x.pc = "item" => x.n = Count(c))
    BY Zenon, <1>5 DEF Pay, In
  <2>2. y \in Creating /\ y.t = x.t + 1 /\ y.n = x.n /\ y.r = x.r /\ y.row = x.row
    BY <1>1 DEF Creating
  <2> HIDE DEF y
  <2>3. To(y, "paying") \in Creating /\ Onward(c, x, To(y, "paying"))
    BY <2>1, <2>2, ToFields DEF Onward, Pcs
  <2> QED  BY Zenon, <2>1, <2>3 DEF y
<1>6. CASE Confirm(c)
  <2>1. PICK b \in BOOLEAN, pc \in {"notify", "error"} : chk' = [chk EXCEPT ![c] = To([x EXCEPT !.row = b], pc)]
    BY Zenon, <1>6 DEF Confirm
  <2> DEFINE y == [x EXCEPT !.row = b]
  <2>2. y \in Creating /\ y.t = x.t /\ y.n = x.n /\ y.r = x.r
    BY Zenon, <1>1 DEF Creating
  <2>3. x.pc = "confirm" /\ pc \in Pcs
    BY Zenon, <1>6 DEF Confirm, In, Pcs
  <2> HIDE DEF y
  <2>4. To(y, pc) \in Creating /\ Onward(c, x, To(y, pc))
    BY Zenon, <2>2, <2>3, ToFields DEF Onward
  <2> QED  BY Zenon, <2>1, <2>4 DEF y
<1>7. CASE Notify(c)
  <2>1. PICK s \in SUBSET (1..Count(c)) : chk' = [chk EXCEPT ![c] = To([x EXCEPT !.lines = s], "done")]
    BY Zenon, <1>7 DEF Notify
  <2> DEFINE y == [x EXCEPT !.lines = s]
  <2>2. s \in SUBSET Nat /\ x.pc = "notify"
    BY <1>7, ShopAssumption DEF MaxItems, Notify, In
  <2>3. y \in Creating /\ y.t = x.t /\ y.n = x.n /\ y.r = x.r /\ y.row = x.row
    BY Zenon, <1>1, <2>2 DEF Creating
  <2> HIDE DEF y
  <2>4. To(y, "done") \in Creating /\ Onward(c, x, To(y, "done"))
    BY <2>2, <2>3, ToFields DEF Onward, Calm, Pcs
  <2> QED  BY Zenon, <2>1, <2>4 DEF y
<1>8. CASE releaseAll(c)
  <2>1. CASE chk' = [chk EXCEPT ![c] = To(x, "failed")]
    <3>1. x.pc = "release"
      BY Zenon, <1>8 DEF releaseAll, In
    <3>2. To(x, "failed") \in Creating /\ Onward(c, x, To(x, "failed"))
      BY Zenon, <1>1, <3>1, ToFields DEF Onward, Calm, Pcs
    <3> QED  BY Zenon, <2>1, <3>2
  <2>2. CASE x.r + 1 <= x.n /\ chk' = [chk EXCEPT ![c] = To([x EXCEPT !.r = x.r + 1], "releasing")]
    <3> DEFINE y == [x EXCEPT !.r = x.r + 1]
    <3>1. y \in Creating /\ y.t = x.t /\ y.n = x.n /\ y.r = x.r + 1 /\ y.row = x.row
      BY <1>1 DEF Creating
    <3>2. x.pc = "release"
      BY Zenon, <1>8 DEF releaseAll, In
    <3> HIDE DEF y
    <3>3. To(y, "releasing") \in Creating /\ Onward(c, x, To(y, "releasing"))
      BY <2>2, <3>1, <3>2, ToFields DEF Onward, Pcs
    <3> QED  BY Zenon, <2>2, <3>3 DEF y
  <2> QED  BY Zenon, <1>8, <2>1, <2>2 DEF releaseAll, Enter
<1>9. CASE CallFails(c)
  BY Zenon, <1>1, <1>9, FailMoves DEF CallFails
<1> QED  BY Zenon, <1>2, <1>3, <1>4, <1>5, <1>6, <1>7, <1>8, <1>9 DEF create


\* The two answers that let create go on: its reservation, its payment.
Reserved(x, y) ==
  /\ x.pc = "reserving" /\ y.pc = "item" /\ y.n = x.n + 1
  /\ y.r = x.r /\ y.t = x.t /\ y.row = x.row
Authorized(x, y) == x.pc = "paying" /\ y.pc = "confirm" /\ Calm(x, y)

\* What an answer does to the checkouts.
LEMMA HearMoves ==
  ASSUME ChkInv, NEW k, NEW res \in {"ok", "fail"}, Hear(k, res), NEW c \in Checkouts
  PROVE  \/ chk'[c] = chk[c]
         \/ /\ Waits(c, k) /\ chk'[c] \in Creating
            /\ \/ Onward(c, chk[c], chk'[c])
               \/ res = "ok" /\ (Reserved(chk[c], chk'[c]) \/ Authorized(chk[c], chk'[c]))
<1> DEFINE x == chk[c]
           y == Heard(x, res)
<1>1. x \in Creating /\ x.n \in Nat
  BY Zenon DEF ChkInv, Creating
<1>2. chk'[c] = IF c = k[1] /\ Waits(c, k) THEN y ELSE x
  BY Zenon DEF Hear
<1>3. CASE ~(c = k[1] /\ Waits(c, k))
  BY Zenon, <1>2, <1>3
<1>4. CASE c = k[1] /\ Waits(c, k)
  <2>1. chk'[c] = y /\ x.pc \in {"reserving", "paying", "releasing"}
    BY Zenon, <1>2, <1>4 DEF Waits, In
  <2>2. CASE res = "fail" \/ x.pc = "releasing"
    <3>1. y \in Creating /\ Onward(c, x, y)
      BY Zenon, <1>1, <2>1, <2>2, FailMoves
    <3> QED  BY Zenon, <1>4, <2>1, <3>1
  <2>3. CASE res = "ok" /\ x.pc = "reserving"
    <3> DEFINE z == [x EXCEPT !.n = x.n + 1]
    <3>1. y = To(z, "item")
      BY Zenon, <2>3 DEF Heard
    <3>2. z \in Creating /\ z.n = x.n + 1 /\ z.r = x.r /\ z.t = x.t /\ z.row = x.row
      BY <1>1 DEF Creating
    <3> HIDE DEF z
    <3>3. To(z, "item") \in Creating /\ Reserved(x, To(z, "item"))
      BY <2>3, <3>2, ToFields DEF Reserved, Pcs
    <3> QED  BY Zenon, <1>4, <2>1, <2>3, <3>1, <3>3
  <2>4. CASE res = "ok" /\ x.pc = "paying"
    <3>1. y = To(x, "confirm")
      BY Zenon, <2>4 DEF Heard
    <3>2. To(x, "confirm") \in Creating /\ Authorized(x, To(x, "confirm"))
      BY <1>1, <2>4, ToFields DEF Authorized, Calm, Pcs
    <3> QED  BY Zenon, <1>4, <2>1, <2>4, <3>1, <3>2
  <2> QED  BY Zenon, <2>1, <2>2, <2>3, <2>4
<1> QED  BY Zenon, <1>3, <1>4

\* Each of these keeps create where its counts say it is.
LEMMA PlacedKept ==
  ASSUME NEW c \in Checkouts, NEW x, Counted(x), Placed(c, x), NEW y \in Creating,
         Onward(c, x, y) \/ Reserved(x, y) \/ Authorized(x, y)
  PROVE  Placed(c, y)
<1>1. x \in Creating /\ x.n \in Nat /\ x.r \in Nat /\ x.t \in Nat /\ Count(c) \in Nat /\ Tries \in Nat \ {0}
  BY ShopAssumption DEF Counted, Creating, MaxItems
<1>2. x.row => x.pc \in {"notify", "done", "error"}
  BY Zenon DEF Placed
<1>3. y.row => y.pc \in {"notify", "done", "error"}
  BY Zenon, <1>2 DEF Onward, Calm, Reserved, Authorized
<1>4. CASE Onward(c, x, y)
  <2>1. y.n = x.n /\ y.n \in 0..Count(c)
    BY Zenon, <1>4 DEF Onward, Calm, Placed
  <2>2. y.r \in 0..y.n
    BY <1>1, <1>4 DEF Onward, Calm, Placed
  <2>3. y.t \in 0..Tries
    BY <1>1, <1>4 DEF Onward, Calm, Placed, Counted
  <2>4. y.pc \in Keeping => y.r = 0
    BY Zenon, <1>4 DEF Onward, Calm, Placed, Keeping, Paying
  <2>5. y.pc \in Paying => y.n = Count(c)
    BY Zenon, <1>4 DEF Onward, Calm, Placed, Paying
  <2>6. y.pc = "reserving" => y.n < Count(c)
    BY Zenon, <1>4 DEF Onward, Calm
  <2> QED  BY Zenon, <1>3, <2>1, <2>2, <2>3, <2>4, <2>5, <2>6 DEF Placed
<1>5. CASE Reserved(x, y)
  BY <1>1, <1>3, <1>5 DEF Reserved, Placed, Keeping, Paying
<1>6. CASE Authorized(x, y)
  BY Zenon, <1>1, <1>3, <1>6 DEF Authorized, Calm, Placed, Keeping, Paying
<1> QED  BY Zenon, <1>4, <1>5, <1>6

\* Requests of the inventory and of the payment service have different names.
LEMMA NamesDiffer ==
  ASSUME NEW a, NEW b, NEW c, NEW d, NEW e
  PROVE  <<a, b>> # <<c, d, e>>
<1>1. Len(<<a, b>>) = 2 /\ Len(<<c, d, e>>) = 3
  BY Zenon
<1> QED  BY Zenon, <1>1


\* What a step of the shop may make of a checkout's create.
Moved(c, x, y) ==
  y = x \/ (y \in Creating /\ (Onward(c, x, y) \/ Reserved(x, y) \/ Authorized(x, y)))

LEMMA OnwardMoved ==
  ASSUME NEW c, NEW x, NEW y \in Creating, Onward(c, x, y)
  PROVE  Moved(c, x, y) /\ ~Reserved(x, y) /\ ~Authorized(x, y)
<1>1. ~Reserved(x, y) /\ ~Authorized(x, y)
  BY Zenon DEF Onward, Reserved, Authorized
<1> QED  BY Zenon, <1>1 DEF Moved

\* Each step of the shop moves each checkout so.
LEMMA CheckoutsMove ==
  ASSUME ChkInv, [ShopNext]_shopVars, NEW c \in Checkouts
  PROVE  Moved(c, chk[c], chk'[c])
<1>1. CASE UNCHANGED chk
  BY Zenon, <1>1 DEF Moved
<1>2. ASSUME NEW k, NEW res \in {"ok", "fail"}, Hear(k, res)
      PROVE  Moved(c, chk[c], chk'[c])
  BY Zenon, <1>2, HearMoves DEF Moved
<1>3. ASSUME NEW d \in Checkouts, create(d)
      PROVE  Moved(c, chk[c], chk'[c])
  <2>1. PICK y \in Creating : chk' = [chk EXCEPT ![d] = y] /\ Onward(d, chk[d], y)
    BY Zenon, <1>3, CreateMoves
  <2>2. chk'[c] = IF c = d THEN y ELSE chk[c]
    BY Zenon, <2>1 DEF ChkInv
  <2> QED  BY Zenon, <2>1, <2>2 DEF Moved
<1> QED  BY Zenon, <1>1, <1>2, <1>3 DEF ShopNext, Inventory, Payment, shopVars

\* A request stays what it is to a checkout that moves.
LEMMA ReserveStays ==
  ASSUME NEW c, NEW x, NEW y, Moved(c, x, y), ~Reserved(x, y), x.pc \notin {"start", "item"}
  PROVE  y.n = x.n /\ y.pc \notin {"start", "item"}
BY Zenon DEF Moved, Onward, Authorized, Calm

LEMMA ReleaseStays ==
  ASSUME NEW c, NEW x \in Creating, NEW y, Moved(c, x, y)
  PROVE  y.r \in Nat /\ x.r <= y.r
<1>1. x.r \in Nat
  BY Zenon DEF Creating
<1> QED  BY <1>1 DEF Moved, Onward, Authorized, Reserved, Calm

-----------------------------------------------------------------------------
(* What a step that does not write the stock leaves of the requests of the inventory *)

Row(kind, c, i, pc) == [kind |-> kind, sku |-> Item(c, i).sku, qty |-> Item(c, i).qty, pc |-> pc]
Same(k) == k \in DOMAIN mut /\ mut'[k] = mut[k]
Moves(k, from, to) == MutAt(k, from) /\ mut'[k] = [mut[k] EXCEPT !.pc = to]
NewReserve(c) == LET i == chk[c].n + 1 IN
  /\ i <= Count(c) /\ chk'[c].n = chk[c].n /\ chk'[c].pc = "reserving"
  /\ mut'[<<c, "reserve", i>>] = Row("reserve", c, i, "lock")
NewRelease(c) == LET i == chk[c].r + 1 IN
  /\ i <= chk[c].n /\ chk'[c].r = i
  /\ mut'[<<c, "release", i>>] = Row("release", c, i, "lock")
Fresh(k) == \E c \in Checkouts :
  \/ k = <<c, "reserve", chk[c].n + 1>> /\ NewReserve(c)
  \/ k = <<c, "release", chk[c].r + 1>> /\ NewRelease(c)
HeardOf(k) == MutAt(k, "event") /\ k \notin DOMAIN mut'

Quiet ==
  /\ UNCHANGED stock
  /\ \A k \in DOMAIN mut' : Same(k) \/ Moves(k, "lock", "update") \/ Moves(k, "update", "error") \/ Fresh(k)
  /\ \A c \in Checkouts : Reserved(chk[c], chk'[c]) => HeardOf(<<c, "reserve", chk[c].n + 1>>)

\* A step of create.
LEMMA CreateQuiet ==
  ASSUME ChkInv, NEW c \in Checkouts, create(c)
  PROVE  Quiet
<1>1. PICK y \in Creating : chk' = [chk EXCEPT ![c] = y] /\ Onward(c, chk[c], y)
  BY Zenon, CreateMoves
<1>2. ASSUME NEW d \in Checkouts PROVE ~Reserved(chk[d], chk'[d])
  <2>1. chk'[d] = IF d = c THEN y ELSE chk[d]
    BY Zenon, <1>1 DEF ChkInv
  <2>2. d # c => ~Reserved(chk[d], chk[d])
    BY Zenon DEF Reserved
  <2> QED  BY Zenon, <1>1, <2>1, <2>2, OnwardMoved
<1>3. CASE UNCHANGED invVars
  <2>1. UNCHANGED stock /\ \A k \in DOMAIN mut' : Same(k)
    BY Zenon, <1>3 DEF invVars, Same
  <2> QED  BY Zenon, <1>2, <2>1 DEF Quiet
<1>4. CASE Reserve(c)
  <2> DEFINE i == chk[c].n + 1
             k == <<c, "reserve", i>>
  <2>1. /\ UNCHANGED stock /\ DOMAIN mut' = DOMAIN mut \cup {k} /\ mut'[k] = Row("reserve", c, i, "lock")
        /\ \A m \in DOMAIN mut : m # k /\ mut'[m] = mut[m]
    BY Zenon, <1>4 DEF Reserve, Mutate, Row
  <2>2. i <= Count(c) /\ chk'[c].n = chk[c].n /\ chk'[c].pc = "reserving"
    <3>1. chk[c] \in Creating /\ chk[c].n \in Nat /\ Count(c) \in Nat /\ chk[c].n < Count(c)
      BY <1>4, ShopAssumption DEF ChkInv, Creating, Reserve, MaxItems
    <3>2. chk'[c] = To(chk[c], "reserving")
      BY Zenon, <1>4 DEF Reserve, Enter, ChkInv
    <3> QED  BY <3>1, <3>2, ToFields DEF Pcs
  <2>3. Fresh(k)
    BY Zenon, <2>1, <2>2 DEF Fresh, NewReserve
  <2> QED  BY Zenon, <1>2, <2>1, <2>3 DEF Quiet, Same
<1>5. CASE releaseAll(c) /\ chk[c].r + 1 <= chk[c].n
  <2> DEFINE i == chk[c].r + 1
             k == <<c, "release", i>>
  <2>1. /\ UNCHANGED stock /\ DOMAIN mut' = DOMAIN mut \cup {k} /\ mut'[k] = Row("release", c, i, "lock")
        /\ \A m \in DOMAIN mut : m # k /\ mut'[m] = mut[m]
    BY Zenon, <1>5 DEF releaseAll, Mutate, Row
  <2>2. chk'[c].r = i
    <3>1. chk[c] \in Creating /\ chk[c].r \in Nat
      BY Zenon DEF ChkInv, Creating
    <3>2. chk'[c] = To([chk[c] EXCEPT !.r = i], "releasing")
      BY Zenon, <1>5 DEF releaseAll, ChkInv
    <3> DEFINE z == [chk[c] EXCEPT !.r = i]
    <3>3. z \in Creating /\ z.r = i
      BY <3>1 DEF Creating
    <3> HIDE DEF z
    <3>4. To(z, "releasing").r = i
      BY Zenon, <3>3, ToFields DEF Pcs
    <3> QED  BY Zenon, <3>2, <3>4 DEF z
  <2>3. Fresh(k)
    BY Zenon, <1>5, <2>1, <2>2 DEF Fresh, NewRelease
  <2> QED  BY Zenon, <1>2, <2>1, <2>3 DEF Quiet, Same
<1>6. CASE releaseAll(c) /\ ~(chk[c].r + 1 <= chk[c].n)
  BY Zenon, <1>3, <1>6 DEF releaseAll
<1>7. ~Reserve(c) /\ ~releaseAll(c) => UNCHANGED invVars
  BY Zenon DEF create, User, ItemUnavailable, Pay, Confirm, Notify, CallFails
<1> QED  BY Zenon, <1>3, <1>4, <1>5, <1>6, <1>7


\* An answer that lets create go on to the next line is the answer of that reservation.
LEMMA ReservedHeard ==
  ASSUME ChkInv, NEW k, NEW res \in {"ok", "fail"}, Hear(k, res), NEW c \in Checkouts, Reserved(chk[c], chk'[c])
  PROVE  k = <<c, "reserve", chk[c].n + 1>> /\ res = "ok"
<1>1. chk[c].n \in Nat /\ chk[c].pc = "reserving" /\ chk'[c] # chk[c]
  BY Zenon DEF ChkInv, Creating, Reserved
<1>2. Waits(c, k) /\ res = "ok"
  <2>1. ~Onward(c, chk[c], chk'[c]) \/ chk'[c] \notin Creating
    BY Zenon, OnwardMoved
  <2> QED  BY Zenon, <1>1, <2>1, HearMoves
<1> QED  BY Zenon, <1>1, <1>2 DEF Waits, In

\* The payment service leaves the inventory alone, and none of its answers is a
\* reservation.
LEMMA PaymentQuiet ==
  ASSUME ChkInv, AuthOK, Payment
  PROVE  Quiet
<1>1. UNCHANGED stock /\ \A k \in DOMAIN mut' : Same(k)
  BY Zenon DEF Payment, invVars, Same
<1>2. ASSUME NEW c \in Checkouts, Reserved(chk[c], chk'[c]) PROVE FALSE
  <2>1. CASE UNCHANGED chk
    BY Zenon, <1>2, <2>1 DEF Reserved
  <2>2. ASSUME NEW k \in DOMAIN auth, NEW res \in {"ok", "fail"}, Hear(k, res)
        PROVE  FALSE
    <3>1. k = <<c, "reserve", chk[c].n + 1>>
      BY Zenon, <1>2, <2>2, ReservedHeard
    <3>2. PICK d \in Checkouts : k = <<d, k[2]>>
      BY Zenon DEF AuthOK, Tried
    <3>3. PICK a : a = k[2]
      BY Zenon
    <3>4. <<d, a>> # <<c, "reserve", chk[c].n + 1>>
      BY Zenon, NamesDiffer
    <3> QED  BY Zenon, <3>1, <3>2, <3>3, <3>4
  <2> QED  BY Zenon, <2>1, <2>2 DEF Payment
<1> QED  BY Zenon, <1>1, <1>2 DEF Quiet

\* A request of the inventory that returns.
LEMMA AnswerQuiet ==
  ASSUME ChkInv, NEW k \in DOMAIN mut, NEW res \in {"ok", "fail"}, MutAnswer(k, res), Hear(k, res)
  PROVE  Quiet
<1>1. UNCHANGED stock /\ MutDone(k) /\ (res = "ok" => MutAt(k, "event"))
  BY Zenon DEF MutAnswer, NoLock, Return
<1>2. k \notin DOMAIN mut' /\ \A m \in DOMAIN mut' : Same(m)
  BY Zenon, <1>1 DEF MutDone, Same
<1>3. ASSUME NEW c \in Checkouts, Reserved(chk[c], chk'[c])
      PROVE  HeardOf(<<c, "reserve", chk[c].n + 1>>)
  BY Zenon, <1>1, <1>2, <1>3, ReservedHeard DEF HeardOf
<1> QED  BY Zenon, <1>1, <1>2, <1>3 DEF Quiet

\* A request of the inventory that goes on without writing the stock.
LEMMA MutStepQuiet ==
  ASSUME ChkInv, NEW k \in DOMAIN mut, SetNX(k) \/ UpdateNothing(k), UNCHANGED chk
  PROVE  Quiet
<1>1. UNCHANGED stock
  BY Zenon DEF SetNX, UpdateNothing
<1>2. PICK pc : MutGoto(k, pc) /\ ((MutAt(k, "lock") /\ pc = "update") \/ (MutAt(k, "update") /\ pc = "error"))
  BY Zenon DEF SetNX, UpdateNothing
<1>3. /\ DOMAIN mut' = DOMAIN mut /\ mut'[k] = [mut[k] EXCEPT !.pc = pc]
      /\ \A m \in DOMAIN mut \ {k} : mut'[m] = mut[m]
  BY Zenon, <1>2 DEF MutGoto
<1>4. \A m \in DOMAIN mut' : Same(m) \/ Moves(m, "lock", "update") \/ Moves(m, "update", "error")
  BY Zenon, <1>2, <1>3 DEF Same, Moves
<1>5. \A c \in Checkouts : ~Reserved(chk[c], chk'[c])
  BY Zenon DEF Reserved
<1> QED  BY Zenon, <1>1, <1>4, <1>5 DEF Quiet

\* Every step of the shop is quiet but the UPDATE of the stock.
LEMMA QuietOrUpdate ==
  ASSUME ChkInv, AuthOK, [ShopNext]_shopVars
  PROVE  Quiet \/ \E k \in DOMAIN mut : Update(k) /\ UNCHANGED chk
<1>1. CASE UNCHANGED <<stock, mut, chk>>
  <2>1. \A m \in DOMAIN mut' : Same(m)
    BY Zenon, <1>1 DEF Same
  <2>2. \A c \in Checkouts : ~Reserved(chk[c], chk'[c])
    BY Zenon, <1>1 DEF Reserved
  <2> QED  BY Zenon, <1>1, <2>1, <2>2 DEF Quiet
<1>2. CASE LockExpires /\ UNCHANGED chk
  BY Zenon, <1>1, <1>2 DEF LockExpires
<1>3. CASE UNCHANGED shopVars
  BY Zenon, <1>1, <1>3 DEF shopVars, invVars
<1> QED
  BY Zenon, <1>2, <1>3, CreateQuiet, PaymentQuiet, AnswerQuiet, MutStepQuiet DEF ShopNext, Inventory, MutStep


-----------------------------------------------------------------------------
(* Requests of the inventory stay what they are *)

\* A request that goes on is still the request of its line.
LEMMA PostedStays ==
  ASSUME NEW kind, NEW c, NEW i, NEW u \in Posted(kind, c, i), NEW pc \in MutPcs
  PROVE  [u EXCEPT !.pc = pc] \in Posted(kind, c, i)
BY Zenon DEF Posted

LEMMA RowPosted ==
  ASSUME NEW kind, NEW c, NEW i, NEW pc \in MutPcs
  PROVE  Row(kind, c, i, pc) \in Posted(kind, c, i) /\ Row(kind, c, i, pc).pc = pc
BY Zenon DEF Row, Posted

\* The request of a line that a step keeps, its checkout moving on.
LEMMA RequestStays ==
  ASSUME ChkInv, NEW k \in DOMAIN mut, NEW c \in Checkouts, NEW i \in 1..Count(c),
         Moved(c, chk[c], chk'[c]),
         Reserved(chk[c], chk'[c]) => k # <<c, "reserve", chk[c].n + 1>>,
         \A kind : mut[k] \in Posted(kind, c, i) => mut'[k] \in Posted(kind, c, i),
         Reserves(k, c, i) \/ Releases(k, c, i)
  PROVE  Reserves(k, c, i)' \/ Releases(k, c, i)'
<1>1. chk[c] \in Creating /\ chk[c].r \in Nat /\ Count(c) \in Nat
  BY ShopAssumption DEF ChkInv, Creating, MaxItems
<1>2. CASE Reserves(k, c, i)
  <2>1. ~Reserved(chk[c], chk'[c]) /\ chk[c].pc \notin {"start", "item"} /\ i = chk[c].n + 1
    BY Zenon, <1>2 DEF Reserves
  <2>2. chk'[c].n = chk[c].n /\ chk'[c].pc \notin {"start", "item"}
    BY Zenon, <2>1, ReserveStays
  <2>3. mut'[k] \in Posted("reserve", c, i) /\ k = <<c, "reserve", i>>
    BY Zenon, <1>2 DEF Reserves
  <2> QED  BY Zenon, <2>1, <2>2, <2>3 DEF Reserves
<1>3. CASE Releases(k, c, i)
  <2>1. chk'[c].r \in Nat /\ chk[c].r <= chk'[c].r
    BY Zenon, <1>1, ReleaseStays
  <2>2. mut'[k] \in Posted("release", c, i) /\ k = <<c, "release", i>>
    BY Zenon, <1>3 DEF Releases
  <2>3. i <= chk'[c].r
    BY <1>1, <1>3, <2>1 DEF Releases
  <2> QED  BY Zenon, <2>2, <2>3 DEF Releases
<1> QED  BY Zenon, <1>2, <1>3

\* A new request is one of a line.
LEMMA FreshPosted ==
  ASSUME ChkInv, NEW c \in Checkouts, Placed(c, chk[c]), NEW k,
         \/ k = <<c, "reserve", chk[c].n + 1>> /\ NewReserve(c)
         \/ k = <<c, "release", chk[c].r + 1>> /\ NewRelease(c)
  PROVE  \E i \in 1..Count(c) : Reserves(k, c, i)' \/ Releases(k, c, i)'
<1>1. chk[c].n \in Nat /\ chk[c].r \in Nat /\ Count(c) \in Nat /\ chk[c].n <= Count(c)
  BY ShopAssumption DEF ChkInv, Creating, MaxItems, Placed
<1>2. CASE k = <<c, "reserve", chk[c].n + 1>> /\ NewReserve(c)
  <2> PICK i : i = chk[c].n + 1
    BY Zenon
  <2>1. i \in 1..Count(c)
    BY <1>1, <1>2 DEF NewReserve
  <2>2. mut'[k] \in Posted("reserve", c, i)
    BY Zenon, <1>2, RowPosted DEF NewReserve, MutPcs
  <2>3. chk'[c].n + 1 = i /\ chk'[c].pc \notin {"start", "item"} /\ k = <<c, "reserve", i>>
    BY Zenon, <1>2 DEF NewReserve
  <2>4. Reserves(k, c, i)'
    BY Zenon, <2>2, <2>3 DEF Reserves
  <2> QED  BY Zenon, <2>1, <2>4
<1>3. CASE k = <<c, "release", chk[c].r + 1>> /\ NewRelease(c)
  <2> PICK i : i = chk[c].r + 1
    BY Zenon
  <2>1. i \in 1..Count(c)
    BY <1>1, <1>3 DEF NewRelease
  <2>2. mut'[k] \in Posted("release", c, i)
    BY Zenon, <1>3, RowPosted DEF NewRelease, MutPcs
  <2>3. chk'[c].r = i /\ k = <<c, "release", i>> /\ i <= chk'[c].r
    BY <1>1, <1>3 DEF NewRelease
  <2>4. Releases(k, c, i)'
    BY Zenon, <2>2, <2>3 DEF Releases
  <2> QED  BY Zenon, <2>1, <2>4
<1> QED  BY Zenon, <1>2, <1>3

\* Each step keeps the requests of the inventory the ones of their lines.
LEMMA MutNext ==
  ASSUME ChkInv, AuthOK, MutOK, \A c \in Checkouts : Placed(c, chk[c]), [ShopNext]_shopVars
  PROVE  MutOK'
<1> SUFFICES ASSUME NEW k \in DOMAIN mut'
             PROVE  \E c \in Checkouts : \E i \in 1..Count(c) : Reserves(k, c, i)' \/ Releases(k, c, i)'
  BY Zenon DEF MutOK
<1>1. ASSUME k \in DOMAIN mut,
             \A c \in Checkouts : Reserved(chk[c], chk'[c]) => k # <<c, "reserve", chk[c].n + 1>>,
             mut'[k] = mut[k] \/ \E pc \in MutPcs : mut'[k] = [mut[k] EXCEPT !.pc = pc]
      PROVE  \E c \in Checkouts : \E i \in 1..Count(c) : Reserves(k, c, i)' \/ Releases(k, c, i)'
  <2> PICK c \in Checkouts : \E i \in 1..Count(c) : Reserves(k, c, i) \/ Releases(k, c, i)
    BY Zenon, <1>1 DEF MutOK
  <2>1. PICK i \in 1..Count(c) : Reserves(k, c, i) \/ Releases(k, c, i)
    BY Zenon
  <2>2. Moved(c, chk[c], chk'[c])
    BY Zenon, CheckoutsMove
  <2>3. \A kind : mut[k] \in Posted(kind, c, i) => mut'[k] \in Posted(kind, c, i)
    <3>1. CASE mut'[k] = mut[k]
      BY Zenon, <3>1
    <3>2. ASSUME NEW pc \in MutPcs, mut'[k] = [mut[k] EXCEPT !.pc = pc]
          PROVE  \A kind : mut[k] \in Posted(kind, c, i) => mut'[k] \in Posted(kind, c, i)
      BY <3>2, PostedStays
    <3> QED  BY Zenon, <1>1, <3>1, <3>2
  <2>4. Reserves(k, c, i)' \/ Releases(k, c, i)'
    BY Zenon, <1>1, <2>1, <2>2, <2>3, RequestStays
  <2> QED  BY Zenon, <2>4
<1>2. CASE Quiet
  <2>1. \A c \in Checkouts : Reserved(chk[c], chk'[c]) => k # <<c, "reserve", chk[c].n + 1>>
    BY Zenon, <1>2 DEF Quiet, HeardOf
  <2>2. CASE Same(k)
    BY Zenon, <1>1, <2>1, <2>2 DEF Same
  <2>3. "update" \in MutPcs /\ "error" \in MutPcs
    BY Zenon DEF MutPcs
  <2>4. CASE Moves(k, "lock", "update") \/ Moves(k, "update", "error")
    BY Zenon, <1>1, <2>1, <2>3, <2>4 DEF Moves, MutAt
  <2>5. CASE Fresh(k)
    BY Zenon, <2>5, FreshPosted DEF Fresh
  <2> QED  BY Zenon, <1>2, <2>2, <2>4, <2>5 DEF Quiet
<1>3. ASSUME NEW m \in DOMAIN mut, Update(m), UNCHANGED chk
      PROVE  \E c \in Checkouts : \E i \in 1..Count(c) : Reserves(k, c, i)' \/ Releases(k, c, i)'
  <2>1. \A c \in Checkouts : ~Reserved(chk[c], chk'[c])
    BY Zenon, <1>3 DEF Reserved
  <2>2. PICK pc \in MutPcs : mut' = [mut EXCEPT ![m].pc = pc]
    BY Zenon, <1>3 DEF Update, MutGoto, MutPcs
  <2>3. k \in DOMAIN mut /\ (mut'[k] = mut[k] \/ mut'[k] = [mut[k] EXCEPT !.pc = pc])
    BY Zenon, <2>2
  <2> QED  BY Zenon, <1>1, <2>1, <2>3
<1> QED  BY Zenon, <1>2, <1>3, QuietOrUpdate


-----------------------------------------------------------------------------
(* Payments *)

\* Each step keeps the requests of the payment service tries of their checkouts.
LEMMA AuthNext ==
  ASSUME AuthOK, [ShopNext]_shopVars
  PROVE  AuthOK'
<1> SUFFICES ASSUME NEW k \in DOMAIN auth' PROVE \E c \in Checkouts : Tried(k, c)'
  BY Zenon DEF AuthOK
<1>1. CASE k \in DOMAIN auth /\ auth'[k].chk = auth[k].chk /\ auth'[k].amount = auth[k].amount
  BY Zenon, <1>1 DEF AuthOK, Tried
<1>2. CASE UNCHANGED payVars
  BY Zenon, <1>1, <1>2 DEF payVars
<1>3. ASSUME NEW c \in Checkouts, Pay(c) PROVE \E d \in Checkouts : Tried(k, d)'
  <2>1. PICK m : /\ m = <<c, chk[c].t + 1>> /\ DOMAIN auth' = DOMAIN auth \cup {m}
                 /\ auth'[m] = [chk |-> c, amount |-> Total(c), pc |-> "look"]
                 /\ \A l \in DOMAIN auth : auth'[l] = auth[l]
    BY Zenon, <1>3 DEF Pay, Authorize
  <2>2. CASE k = m
    <3>1. k = <<c, k[2]>> /\ auth'[k].chk = c /\ auth'[k].amount = Total(c)
      BY <2>1, <2>2
    <3> QED  BY Zenon, <3>1 DEF Tried
  <2>3. CASE k # m
    BY Zenon, <1>1, <2>1, <2>3
  <2> QED  BY Zenon, <2>2, <2>3
<1>4. ASSUME NEW m \in DOMAIN auth, PayStep(m) PROVE \E d \in Checkouts : Tried(k, d)'
  <2>1. PICK pc : Goto(m, pc)
    BY Zenon, <1>4 DEF PayStep, Look, Insert, Charge, chargeProcessor
  <2>2. k \in DOMAIN auth /\ auth'[k].chk = auth[k].chk /\ auth'[k].amount = auth[k].amount
    BY <2>1 DEF Goto
  <2> QED  BY Zenon, <1>1, <2>2
<1>5. ASSUME NEW m \in DOMAIN auth, NEW res, PayAnswer(m, res) PROVE \E d \in Checkouts : Tried(k, d)'
  <2>1. Done(m)
    BY Zenon, <1>5 DEF PayAnswer, Reject, Replay, InsertError, RereadError, Undo, Settle
  <2> QED  BY Zenon, <1>1, <2>1, DoneOthers
<1>6. CASE UNCHANGED shopVars
  BY Zenon, <1>2, <1>6 DEF shopVars
<1>8. ASSUME NEW c \in Checkouts, LateCharge(c) PROVE \E d \in Checkouts : Tried(k, d)'
  BY Zenon, <1>1, <1>8 DEF LateCharge
<1>7. ASSUME NEW c \in Checkouts, create(c) PROVE UNCHANGED payVars \/ Pay(c)
  BY Zenon, <1>7 DEF create, User, Reserve, ItemUnavailable, Confirm, Notify, releaseAll, CallFails
<1> QED
  BY Zenon, <1>2, <1>3, <1>4, <1>5, <1>6, <1>7, <1>8 DEF ShopNext, Inventory, Payment

\* A try that is answered with success leaves the payment authorized with its amount.
LEMMA OkAuthorized ==
  ASSUME PayInv, NEW k \in DOMAIN auth, PayAnswer(k, "ok")
  PROVE  payments'[auth[k].chk] = [status |-> "authorized", amount |-> auth[k].amount]
<1>1. auth[k].chk \in Checkouts /\ payments \in [Checkouts -> Rows] /\ row(k) \in Rows
  BY Zenon DEF PayInv, PayTypeOK, Handling, row
<1>2. CASE Replay(k, "ok")
  <2>1. row(k).status = "authorized" /\ row(k).amount = auth[k].amount /\ UNCHANGED payments
    BY Zenon, <1>2 DEF Replay, replayOrConflict
  <2> QED  BY Zenon, <1>1, <2>1 DEF Rows, row
<1>3. CASE Settle(k, "ok")
  <2>1. row(k) = [status |-> "pending", amount |-> auth[k].amount]
    BY Zenon, <1>3 DEF Settle, At, PayInv, ChargeExclusive, Owning
  <2>2. SetRow(k, [row(k) EXCEPT !.status = "authorized"])
    BY <1>3, <2>1 DEF Settle
  <2>3. [row(k) EXCEPT !.status = "authorized"] = [status |-> "authorized", amount |-> auth[k].amount]
    BY <2>1
  <2> QED  BY Zenon, <1>1, <2>2, <2>3 DEF SetRow
<1> QED  BY Zenon, <1>2, <1>3 DEF PayAnswer, Reject, InsertError, RereadError, Undo

\* A checkout that goes on to be recorded heard so.
LEMMA AuthorizedPaid ==
  ASSUME ChkInv, PayInv, AuthOK, MutOK, [ShopNext]_shopVars, NEW c \in Checkouts, Authorized(chk[c], chk'[c])
  PROVE  Paid(c)'
<1>1. chk[c].pc = "paying" /\ chk'[c].pc = "confirm" /\ chk'[c] # chk[c]
  BY Zenon DEF Authorized
<1>2. ASSUME NEW k, NEW res \in {"ok", "fail"}, Hear(k, res)
      PROVE  k = <<c, chk[c].t>> /\ res = "ok"
  <2>1. ~Onward(c, chk[c], chk'[c]) \/ chk'[c] \notin Creating
    BY Zenon, OnwardMoved
  <2>2. Waits(c, k) /\ res = "ok"
    BY Zenon, <1>1, <1>2, <2>1, HearMoves
  <2> QED  BY Zenon, <1>1, <2>2 DEF Waits, In
<1>3. ASSUME NEW k \in DOMAIN mut, NEW res \in {"ok", "fail"}, Hear(k, res) PROVE FALSE
  <2>1. k = <<c, chk[c].t>>
    BY Zenon, <1>2, <1>3
  <2> PICK d \in Checkouts : \E i \in 1..Count(d) : Reserves(k, d, i) \/ Releases(k, d, i)
    BY Zenon DEF MutOK
  <2> PICK i \in 1..Count(d) : Reserves(k, d, i) \/ Releases(k, d, i)
    BY Zenon
  <2>2. k = <<d, "reserve", i>> \/ k = <<d, "release", i>>
    BY Zenon DEF Reserves, Releases
  <2> QED  BY Zenon, <2>1, <2>2, NamesDiffer
<1>4. ASSUME NEW k \in DOMAIN auth, NEW res \in {"ok", "fail"}, PayAnswer(k, res), Hear(k, res) PROVE Paid(c)'
  <2>1. k = <<c, chk[c].t>> /\ PayAnswer(k, "ok")
    BY Zenon, <1>2, <1>4
  <2>2. PICK d \in Checkouts : k = <<d, k[2]>> /\ auth[k].chk = d /\ auth[k].amount = Total(d)
    BY Zenon DEF AuthOK, Tried
  <2>3. d = c
    BY Zenon, <2>1, <2>2
  <2>4. payments'[c] = [status |-> "authorized", amount |-> Total(c)]
    BY Zenon, <2>1, <2>2, <2>3, OkAuthorized
  <2> QED  BY Zenon, <2>4 DEF Paid
<1>5. ASSUME NEW d \in Checkouts, create(d) PROVE FALSE
  <2>1. PICK y \in Creating : chk' = [chk EXCEPT ![d] = y] /\ Onward(d, chk[d], y)
    BY Zenon, <1>5, CreateMoves
  <2>2. chk'[c] = IF c = d THEN y ELSE chk[c]
    BY Zenon, <2>1 DEF ChkInv
  <2> QED  BY Zenon, <1>1, <2>1, <2>2, OnwardMoved
<1>6. chk' # chk
  BY Zenon, <1>1
<1>7. ~UNCHANGED shopVars
  BY Zenon, <1>6 DEF shopVars
<1> QED  BY Zenon, <1>3, <1>4, <1>5, <1>6, <1>7 DEF ShopNext, Inventory, Payment

\* What is to be recorded has been paid, and stays paid.
LEMMA PaidNext ==
  ASSUME ChkInv, PayInv, AuthOK, MutOK, PaidOK, [ShopNext]_shopVars
  PROVE  PaidOK'
<1> SUFFICES ASSUME NEW c \in Checkouts, chk'[c].pc = "confirm" \/ chk'[c].row PROVE Paid(c)'
  BY Zenon DEF PaidOK
<1>1. CASE Paid(c)
  <2>1. [PayNext]_payVars /\ payments[c].status = "authorized"
    BY <1>1, ShopPays DEF PayInv, Paid
  <2>2. payments'[c] = payments[c]
    BY Zenon, <2>1, FinalStep
  <2> QED  BY Zenon, <1>1, <2>2 DEF Paid
<1>2. CASE ~Paid(c)
  <2>1. chk[c].pc # "confirm" /\ ~chk[c].row
    BY Zenon, <1>2 DEF PaidOK
  <2>2. Moved(c, chk[c], chk'[c])
    BY Zenon, CheckoutsMove
  <2>3. ~Onward(c, chk[c], chk'[c])
    BY Zenon, <2>1 DEF Onward, Calm
  <2>4. ~Reserved(chk[c], chk'[c]) /\ chk'[c] # chk[c]
    BY <2>1 DEF Reserved
  <2>5. Authorized(chk[c], chk'[c])
    BY Zenon, <2>2, <2>3, <2>4 DEF Moved
  <2> QED  BY Zenon, <2>5, AuthorizedPaid
<1> QED  BY Zenon, <1>1, <1>2


-----------------------------------------------------------------------------
(* The stock *)

\* What the names of the requests of a line tell apart.
LEMMA KeyOf ==
  ASSUME NEW c, NEW kind, NEW i, NEW d, NEW other, NEW j, <<c, kind, i>> = <<d, other, j>>
  PROVE  c = d /\ kind = other /\ i = j
BY Zenon

\* A request that is handled is at one of the places of mutate.
LEMMA RequestOf ==
  ASSUME MutOK, NEW c \in Checkouts, NEW kind, NEW i, <<c, kind, i>> \in DOMAIN mut
  PROVE  LET k == <<c, kind, i>> IN
         /\ mut[k] \in Posted(kind, c, i)
         /\ (kind = "reserve" /\ i = chk[c].n + 1) \/ (kind = "release" /\ i <= chk[c].r)
<1> PICK k : k = <<c, kind, i>>
  BY Zenon
<1> PICK d \in Checkouts : \E j \in 1..Count(d) : Reserves(k, d, j) \/ Releases(k, d, j)
  BY Zenon DEF MutOK
<1> PICK j \in 1..Count(d) : Reserves(k, d, j) \/ Releases(k, d, j)
  BY Zenon
<1>1. CASE Reserves(k, d, j)
  <2>1. <<c, kind, i>> = <<d, "reserve", j>>
    BY Zenon, <1>1 DEF Reserves
  <2>2. c = d /\ kind = "reserve" /\ i = j
    BY Zenon, <2>1, KeyOf
  <2> QED  BY Zenon, <1>1, <2>2 DEF Reserves
<1>2. CASE Releases(k, d, j)
  <2>1. <<c, kind, i>> = <<d, "release", j>>
    BY Zenon, <1>2 DEF Releases
  <2>2. c = d /\ kind = "release" /\ i = j
    BY Zenon, <2>1, KeyOf
  <2> QED  BY Zenon, <1>2, <2>2 DEF Releases
<1> QED  BY Zenon, <1>1, <1>2

LEMMA MovedPc ==
  ASSUME MutOK, NEW k, NEW from, NEW to, Moves(k, from, to)
  PROVE  mut'[k].pc = to
<1>1. k \in DOMAIN mut /\ mut'[k] = [mut[k] EXCEPT !.pc = to]
  BY Zenon DEF Moves, MutAt
<1> PICK c \in Checkouts : \E i \in 1..Count(c) : Reserves(k, c, i) \/ Releases(k, c, i)
  BY Zenon, <1>1 DEF MutOK
<1> PICK i \in 1..Count(c) : Reserves(k, c, i) \/ Releases(k, c, i)
  BY Zenon
<1>2. PICK kind : mut[k] \in Posted(kind, c, i)
  BY Zenon DEF Reserves, Releases
<1> QED  BY Zenon, <1>1, <1>2 DEF Posted

\* A quiet step claims no line that was not claimed.
LEMMA QuietClaimed ==
  ASSUME ChkInv, MutOK, Quiet, NEW c \in Checkouts, Placed(c, chk[c]), Moved(c, chk[c], chk'[c]),
         NEW i \in Nat \ {0}, Claimed(c, i)'
  PROVE  Claimed(c, i)
<1>1. chk[c] \in Creating /\ chk[c].n \in Nat /\ chk[c].r \in Nat
  BY Zenon DEF ChkInv, Creating
<1>2. CASE i \in (chk'[c].r + 1)..chk'[c].n
  <2>1. chk'[c].r \in Nat /\ chk[c].r <= chk'[c].r
    BY Zenon, <1>1, ReleaseStays
  <2>2. chk'[c].n = chk[c].n \/ (Reserved(chk[c], chk'[c]) /\ chk'[c].n = chk[c].n + 1)
    BY Zenon DEF Moved, Onward, Authorized, Reserved, Calm
  <2>3. i \in (chk[c].r + 1)..chk[c].n \/ (Reserved(chk[c], chk'[c]) /\ i = chk[c].n + 1)
    BY <1>1, <1>2, <2>1, <2>2
  <2>4. CASE Reserved(chk[c], chk'[c]) /\ i = chk[c].n + 1
    BY Zenon, <2>4 DEF Quiet, HeardOf, Claimed
  <2> QED  BY Zenon, <2>3, <2>4 DEF Claimed
<1>3. ASSUME NEW pc \in {"lock", "update"}, MutAt(<<c, "release", i>>, pc)'
      PROVE  Claimed(c, i)
  <2> PICK k : k = <<c, "release", i>>
    BY Zenon
  <2>1. k \in DOMAIN mut' /\ mut'[k].pc = pc
    BY Zenon, <1>3 DEF MutAt
  <2>2. CASE Same(k)
    BY Zenon, <2>1, <2>2 DEF Same, MutAt, Claimed
  <2>3. CASE Moves(k, "lock", "update")
    BY Zenon, <2>3 DEF Moves, Claimed
  <2>4. ~Moves(k, "update", "error")
    BY Zenon, <2>1, MovedPc
  <2>5. CASE Fresh(k)
    <3>1. PICK d \in Checkouts : \/ k = <<d, "reserve", chk[d].n + 1>>
                                 \/ k = <<d, "release", chk[d].r + 1>> /\ NewRelease(d)
      BY Zenon, <2>5 DEF Fresh
    <3>2. k # <<d, "reserve", chk[d].n + 1>>
      BY Zenon, KeyOf
    <3>3. d = c /\ i = chk[c].r + 1
      BY Zenon, <3>1, <3>2, KeyOf
    <3>4. i <= chk[c].n
      BY Zenon, <3>1, <3>2, <3>3 DEF NewRelease
    <3>5. i \in (chk[c].r + 1)..chk[c].n
      BY <1>1, <3>3, <3>4
    <3> QED  BY Zenon, <3>5 DEF Claimed
  <2> QED  BY Zenon, <2>1, <2>2, <2>3, <2>4, <2>5 DEF Quiet
<1>4. CASE MutAt(<<c, "reserve", i>>, "event")'
  <2> PICK k : k = <<c, "reserve", i>>
    BY Zenon
  <2>1. k \in DOMAIN mut' /\ mut'[k].pc = "event"
    BY Zenon, <1>4 DEF MutAt
  <2>2. CASE Same(k)
    BY Zenon, <2>1, <2>2 DEF Same, MutAt, Claimed
  <2>3. ~Moves(k, "update", "error") /\ ~Moves(k, "lock", "update")
    BY Zenon, <2>1, MovedPc
  <2>4. ~Fresh(k)
    <3>1. \A d, j, kind : Row(kind, d, j, "lock").pc = "lock"
      BY Zenon DEF Row
    <3> QED  BY Zenon, <2>1, <3>1 DEF Fresh, NewReserve, NewRelease
  <2> QED  BY Zenon, <2>1, <2>2, <2>3, <2>4 DEF Quiet
<1> QED  BY Zenon, <1>2, <1>3, <1>4 DEF Claimed


LEMMA LineOf ==
  /\ \A h \in Pairs : h[1] \in Checkouts /\ h[2] \in 1..Count(h[1]) /\ h = <<h[1], h[2]>>
  /\ \A c \in Checkouts : \A i \in 1..Count(c) : <<c, i>> \in Pairs
<1>1. \A c \in Checkouts : Count(c) \in 1..8
  BY Zenon, ShopAssumption DEF MaxItems
<1>2. \A h \in Pairs : h \in Checkouts \X (1..8) /\ h[2] <= Count(h[1])
  BY Zenon DEF Pairs, MaxItems
<1>3. \A c \in Checkouts : \A i \in 1..Count(c) : <<c, i>> \in Checkouts \X (1..8) /\ i <= Count(c)
  BY <1>1
<1> QED  BY <1>1, <1>2, <1>3 DEF Pairs, MaxItems

\* Stock and claims together do not grow when no line is claimed anew.
LEMMA QuietStock ==
  ASSUME ShopInv, [ShopNext]_shopVars, Quiet
  PROVE  \A sku \in Skus : stock'[sku] + SumQty(Claims(sku)') <= Initial[sku]
<1> SUFFICES ASSUME NEW sku \in Skus PROVE stock'[sku] + SumQty(Claims(sku)') <= Initial[sku]
  BY Zenon
<1>1. Claims(sku)' \in SUBSET Claims(sku) /\ Claims(sku) \in SUBSET Pairs
  <2>1. ASSUME NEW h \in Pairs, Claimed(h[1], h[2])' PROVE Claimed(h[1], h[2])
    <3> PICK c, i : c = h[1] /\ i = h[2]
      BY Zenon
    <3>1. c \in Checkouts /\ i \in Nat \ {0}
      BY LineOf, ShopAssumption DEF MaxItems
    <3>2. ChkInv /\ MutOK /\ Placed(c, chk[c]) /\ Moved(c, chk[c], chk'[c])
      BY Zenon, <3>1, CheckoutsMove DEF ShopInv
    <3>3. Claimed(c, i)'
      BY Zenon, <2>1
    <3> QED  BY Zenon, <3>1, <3>2, <3>3, QuietClaimed
  <2> QED  BY Zenon, <2>1 DEF Claims
<1> PICK s, a, b, max : s = stock[sku] /\ a = SumQty(Claims(sku)) /\ b = SumQty(Claims(sku)') /\ max = Initial[sku]
  BY Zenon
<1>2. s \in Nat /\ max \in Nat /\ s + a <= max /\ stock'[sku] = s
  BY Zenon, StockAssumption DEF ShopInv, StockOK, Quiet
<1>3. Claims(sku)' \in SUBSET Pairs
  BY Zenon, <1>1
<1>4. a \in Nat /\ b \in Nat /\ b <= a
  BY Zenon, <1>1, <1>3, SumNat, SumMonotone
<1>5. s + b <= max
  BY <1>2, <1>4
<1> QED  BY Zenon, <1>2, <1>5

\* One line more adds its quantity at most.
LEMMA SumAdd ==
  ASSUME NEW S \in SUBSET Pairs, NEW e \in Pairs, NEW T \in SUBSET (S \cup {e})
  PROVE  SumQty(T) <= Qty(e) + SumQty(S)
<1> DEFINE U == S \cup {e}
<1>1. U \in SUBSET Pairs /\ e \in U /\ U \ {e} \in SUBSET S /\ U \ {e} \in SUBSET Pairs /\ T \in SUBSET Pairs
  BY Zenon
<1>2. SumQty(U) = Qty(e) + SumQty(U \ {e})
  BY Zenon, <1>1, SumRemove
<1>3. SumQty(T) <= SumQty(U) /\ SumQty(U \ {e}) <= SumQty(S)
  BY Zenon, <1>1, SumMonotone
<1>4. /\ SumQty(T) \in Nat /\ SumQty(U) \in Nat /\ SumQty(U \ {e}) \in Nat /\ SumQty(S) \in Nat
      /\ Qty(e) \in Nat
  BY Zenon, <1>1, SumNat, PairsAssumed
<1> HIDE DEF U
<1> QED  BY <1>2, <1>3, <1>4

\* The UPDATE of a request touches the claim of its own line only.
LEMMA UpdateClaimed ==
  ASSUME MutOK, NEW k \in DOMAIN mut, Update(k), UNCHANGED chk,
         NEW c \in Checkouts, NEW i, Claimed(c, i)', ~Claimed(c, i)
  PROVE  k = <<c, "reserve", i>>
<1>1. PICK pc \in {"event", "error"} : mut' = [mut EXCEPT ![k].pc = pc]
  BY Zenon DEF Update, MutGoto
<1>2. \A m : m # k => (m \in DOMAIN mut' => m \in DOMAIN mut /\ mut'[m] = mut[m])
  BY Zenon, <1>1
<1>3. \A m, p : MutAt(m, p)' /\ m # k => MutAt(m, p)
  BY Zenon, <1>2 DEF MutAt
<1>4. mut'[k].pc = pc
  <2>1. Moves(k, "update", pc)
    BY Zenon, <1>1 DEF Moves, Update
  <2> QED  BY Zenon, <2>1, MovedPc
<1>5. \A p \in {"lock", "update"} : ~MutAt(k, p)'
  BY Zenon, <1>4 DEF MutAt
<1>6. ~(i \in (chk'[c].r + 1)..chk'[c].n)
  BY Zenon DEF Claimed
<1>7. ~MutAt(<<c, "release", i>>, "lock")' /\ ~MutAt(<<c, "release", i>>, "update")'
  BY Zenon, <1>3, <1>5 DEF Claimed
<1>8. MutAt(<<c, "reserve", i>>, "event")' /\ ~MutAt(<<c, "reserve", i>>, "event")
  BY Zenon, <1>6, <1>7 DEF Claimed
<1> QED  BY Zenon, <1>3, <1>8


\* Once its release is written, a line is not claimed.
LEMMA ReleasedLine ==
  ASSUME ChkInv, MutOK, NEW c \in Checkouts, Placed(c, chk[c]), NEW i \in 1..Count(c),
         <<c, "release", i>> \in DOMAIN mut, Update(<<c, "release", i>>), UNCHANGED chk
  PROVE  ~Claimed(c, i)' /\ Claimed(c, i)
<1> PICK k, m : k = <<c, "release", i>> /\ m = <<c, "reserve", i>>
  BY Zenon
<1>1. chk[c].n \in Nat /\ chk[c].r \in Nat /\ chk[c].r <= chk[c].n /\ Count(c) \in Nat
  BY ShopAssumption DEF ChkInv, Creating, Placed, MaxItems
<1>2. k # m /\ "release" # "reserve"
  BY Zenon, KeyOf
<1>3. i <= chk[c].r
  BY Zenon, <1>2, RequestOf
<1>4. PICK pc \in {"event", "error"} : mut' = [mut EXCEPT ![k].pc = pc] /\ Moves(k, "update", pc)
  <2>1. PICK pc \in {"event", "error"} : mut' = [mut EXCEPT ![k].pc = pc]
    BY Zenon DEF Update, MutGoto
  <2>2. Moves(k, "update", pc)
    BY Zenon, <2>1 DEF Moves, Update
  <2> QED  BY Zenon, <2>1, <2>2
<1>5. mut'[k].pc = pc /\ DOMAIN mut' = DOMAIN mut
  <2>1. mut'[k].pc = pc
    BY Zenon, <1>4, MovedPc
  <2>2. DOMAIN mut' = DOMAIN mut
    BY Zenon, <1>4
  <2> QED  BY Zenon, <2>1, <2>2
<1>6. ~MutAt(k, "lock")' /\ ~MutAt(k, "update")'
  BY Zenon, <1>5 DEF MutAt
<1>7. ~MutAt(m, "event")'
  <2>1. m \in DOMAIN mut => i = chk[c].n + 1
    BY Zenon, <1>2, RequestOf
  <2>2. m \notin DOMAIN mut
    BY <1>1, <1>3, <2>1
  <2> QED  BY Zenon, <1>5, <2>2 DEF MutAt
<1>8. ~(i \in (chk'[c].r + 1)..chk'[c].n)
  BY <1>1, <1>3
<1>9. MutAt(k, "update")
  BY Zenon DEF Update
<1> QED  BY Zenon, <1>6, <1>7, <1>8, <1>9 DEF Claimed

\* The UPDATE of the stock: what it takes it adds to the claims at most, what it gives
\* back it takes from them.
LEMMA UpdateStock ==
  ASSUME ShopInv, NEW k \in DOMAIN mut, Update(k), UNCHANGED chk
  PROVE  /\ stock' \in [Skus -> Nat]
         /\ \A sku \in Skus : stock'[sku] + SumQty(Claims(sku)') <= Initial[sku]
<1>1. ChkInv /\ MutOK /\ stock \in [Skus -> Nat] /\ \A sku \in Skus : stock[sku] + SumQty(Claims(sku)) <= Initial[sku]
  BY Zenon DEF ShopInv, StockOK
<1> PICK c \in Checkouts : \E i \in 1..Count(c) : Reserves(k, c, i) \/ Releases(k, c, i)
  BY Zenon, <1>1 DEF MutOK
<1>2. PICK i \in 1..Count(c) : Reserves(k, c, i) \/ Releases(k, c, i)
  BY Zenon
<1> DEFINE e == <<c, i>>
<1> PICK s0, q, left : s0 = Item(c, i).sku /\ q = Item(c, i).qty /\ left = Left(k)
  BY Zenon
<1>3. e \in Pairs /\ s0 \in Skus /\ q \in Nat /\ Qty(e) = q
  BY Zenon, LineOf, ShopAssumption DEF Qty
<1>4. \/ k = <<c, "reserve", i>> /\ left = stock[s0] - q
      \/ k = <<c, "release", i>> /\ left = stock[s0] + q
  <2>1. CASE Reserves(k, c, i)
    <3>1. mut[k].sku = s0 /\ mut[k].qty = q /\ mut[k].kind = "reserve" /\ k = <<c, "reserve", i>>
      BY Zenon, <2>1 DEF Reserves, Posted
    <3> QED  BY Zenon, <3>1 DEF Left
  <2>2. CASE Releases(k, c, i)
    <3>1. mut[k].sku = s0 /\ mut[k].qty = q /\ mut[k].kind = "release" /\ k = <<c, "release", i>>
      BY Zenon, <2>2 DEF Releases, Posted
    <3>2. left = stock[s0] - (-q) /\ stock[s0] \in Nat
      BY Zenon, <1>1, <1>3, <3>1 DEF Left
    <3> QED  BY <1>3, <3>1, <3>2
  <2> QED  BY Zenon, <1>2, <2>1, <2>2
<1>5. left \in Nat /\ stock' = [stock EXCEPT ![s0] = left]
  <2>1. mut[k].sku = s0
    BY Zenon, <1>2 DEF Reserves, Releases, Posted
  <2>2. left >= 0 /\ stock' = [stock EXCEPT ![s0] = left]
    BY Zenon, <2>1 DEF Update
  <2>3. left \in Int
    BY <1>1, <1>3, <1>4
  <2> QED  BY <2>2, <2>3
<1>6. ASSUME NEW h \in Pairs, Claimed(h[1], h[2])', h # e PROVE Claimed(h[1], h[2])
  <2> PICK d, j : d = h[1] /\ j = h[2]
    BY Zenon
  <2>1. d \in Checkouts /\ h = <<d, j>>
    BY Zenon, LineOf
  <2>2. <<c, "reserve", i>> # <<d, "reserve", j>> /\ <<c, "release", i>> # <<d, "reserve", j>>
    BY Zenon, <1>6, <2>1, KeyOf
  <2>3. Claimed(d, j)'
    BY Zenon, <1>6
  <2> QED  BY Zenon, <1>1, <1>4, <2>1, <2>2, <2>3, UpdateClaimed
<1>7. \A sku \in Skus : Claims(sku) \in SUBSET Pairs /\ Claims(sku)' \in SUBSET (Claims(sku) \cup {e})
  BY Zenon, <1>6 DEF Claims
<1>13. stock' \in [Skus -> Nat]
  BY Zenon, <1>1, <1>3, <1>5
<1> SUFFICES ASSUME NEW sku \in Skus PROVE stock'[sku] + SumQty(Claims(sku)') <= Initial[sku]
  BY Zenon, <1>13
<1> PICK s, a, b, max : s = stock[sku] /\ a = SumQty(Claims(sku)) /\ b = SumQty(Claims(sku)') /\ max = Initial[sku]
  BY Zenon
<1>8. Claims(sku)' \in SUBSET Pairs
  BY Zenon, <1>3, <1>7
<1>9. s \in Nat /\ max \in Nat /\ s + a <= max /\ a \in Nat /\ b \in Nat
  BY Zenon, <1>1, <1>7, <1>8, StockAssumption, SumNat
<1>10. CASE sku # s0
  <2>1. e \notin Claims(sku)'
    BY Zenon, <1>10 DEF Claims
  <2>2. Claims(sku)' \in SUBSET Claims(sku)
    BY Zenon, <1>7, <2>1
  <2>3. b <= a
    BY Zenon, <1>7, <2>2, SumMonotone
  <2>4. stock'[sku] = s
    BY Zenon, <1>1, <1>5, <1>10
  <2>5. s + b <= max
    BY <1>9, <2>3
  <2> QED  BY Zenon, <2>4, <2>5
<1>11. CASE sku = s0 /\ k = <<c, "reserve", i>>
  <2>1. left = s - q /\ stock'[sku] = left
    BY Zenon, <1>1, <1>4, <1>5, <1>11, KeyOf
  <2>2. b <= q + a
    BY Zenon, <1>3, <1>7, SumAdd
  <2>3. left + b <= max
    BY <1>3, <1>5, <1>9, <2>1, <2>2
  <2> QED  BY Zenon, <2>1, <2>3
<1>12. CASE sku = s0 /\ k = <<c, "release", i>>
  <2>1. left = s + q /\ stock'[sku] = left
    BY Zenon, <1>1, <1>4, <1>5, <1>12, KeyOf
  <2>2. ~Claimed(c, i)' /\ Claimed(c, i)
    BY Zenon, <1>1, <1>12, ReleasedLine DEF ShopInv
  <2>3. e \in Claims(sku) /\ e \notin Claims(sku)'
    BY Zenon, <1>3, <1>12, <2>2 DEF Claims
  <2>4. Claims(sku)' \in SUBSET (Claims(sku) \ {e}) /\ Claims(sku) \ {e} \in SUBSET Pairs
    BY Zenon, <1>7, <2>3
  <2> PICK r : r = SumQty(Claims(sku) \ {e})
    BY Zenon
  <2>5. a = q + r /\ r \in Nat /\ b <= r
    BY Zenon, <1>3, <1>7, <2>3, <2>4, SumRemove, SumNat, SumMonotone
  <2>6. left + b <= max
    BY <1>3, <1>5, <1>9, <2>1, <2>5
  <2> QED  BY Zenon, <2>1, <2>6
<1> QED  BY Zenon, <1>4, <1>10, <1>11, <1>12


\* Each step keeps stock and claims within what there was at the start.
LEMMA StockNext ==
  ASSUME ShopInv, [ShopNext]_shopVars
  PROVE  StockOK'
<1>1. ChkInv /\ AuthOK /\ stock \in [Skus -> Nat] /\ lock \in BOOLEAN
  BY Zenon DEF ShopInv, StockOK
<1>2. /\ stock' \in [Skus -> Nat]
      /\ \A sku \in Skus : stock'[sku] + SumQty(Claims(sku)') <= Initial[sku]
  <2>1. CASE Quiet
    <3>1. stock' = stock
      BY Zenon, <2>1 DEF Quiet
    <3> QED  BY Zenon, <1>1, <2>1, <3>1, QuietStock
  <2> QED  BY Zenon, <1>1, <2>1, QuietOrUpdate, UpdateStock
<1>3. lock' \in BOOLEAN
  <2>1. CASE UNCHANGED lock
    BY Zenon, <1>1, <2>1
  <2>2. CASE UNCHANGED shopVars
    BY Zenon, <2>1, <2>2 DEF shopVars, invVars
  <2>3. CASE Payment
    BY Zenon, <2>1, <2>3 DEF Payment, invVars
  <2>4. CASE Inventory
    BY Zenon, <1>1, <2>4 DEF Inventory, LockExpires, MutStep, SetNX, Update, UpdateNothing, MutAnswer, NoLock, Return
  <2>5. ASSUME NEW c \in Checkouts, create(c) PROVE UNCHANGED lock
    <3>1. UNCHANGED invVars \/ Reserve(c) \/ releaseAll(c)
      BY Zenon, <2>5 DEF create, User, ItemUnavailable, Pay, Confirm, Notify, CallFails
    <3> QED  BY Zenon, <3>1 DEF invVars, Reserve, releaseAll, Mutate
  <2> QED  BY Zenon, <2>1, <2>2, <2>3, <2>4, <2>5 DEF ShopNext
<1> QED  BY Zenon, <1>2, <1>3 DEF StockOK

-----------------------------------------------------------------------------
LEMMA ShopInitInv == ShopInit => ShopInv
<1> SUFFICES ASSUME ShopInit PROVE ShopInv
  BY Zenon
<1>1. ChkInv /\ PayInv
  BY Zenon, ChkInitInv, PayInitInv DEF ShopInit
<1>2. \A c \in Checkouts : chk[c] = [pc |-> "start", n |-> 0, t |-> 0, r |-> 0, row |-> FALSE, lines |-> {}]
  BY Zenon DEF ShopInit
<1>3. \A c \in Checkouts : chk[c].pc = "start" /\ chk[c].n = 0 /\ chk[c].t = 0 /\ chk[c].r = 0 /\ chk[c].row = FALSE
  BY <1>2
<1>4. \A c \in Checkouts : Placed(c, chk[c])
  BY <1>3, ShopAssumption DEF Placed, Paying, MaxItems
<1>5. DOMAIN mut = {} /\ DOMAIN auth = {} /\ stock = Initial /\ lock = FALSE
  BY Zenon DEF ShopInit, InvInit, PayInit
<1>6. MutOK /\ AuthOK
  BY Zenon, <1>5 DEF MutOK, AuthOK
<1>7. PaidOK
  BY Zenon, <1>3 DEF PaidOK
<1>8. ASSUME NEW sku \in Skus PROVE stock[sku] + SumQty(Claims(sku)) <= Initial[sku]
  <2>1. \A h \in Pairs : ~Claimed(h[1], h[2])
    BY <1>3, <1>5, LineOf DEF Claimed, MutAt
  <2>2. Claims(sku) = {} /\ Claims(sku) \in SUBSET Pairs
    BY Zenon, <2>1 DEF Claims
  <2>3. SumQty(Claims(sku)) = 0
    BY Zenon, <2>2, SumPicked
  <2>4. stock[sku] = Initial[sku] /\ Initial[sku] \in Nat
    BY Zenon, <1>5, StockAssumption
  <2> QED  BY <2>3, <2>4
<1>9. StockOK
  BY Zenon, <1>5, <1>8, StockAssumption DEF StockOK
<1> QED  BY Zenon, <1>1, <1>4, <1>6, <1>7, <1>9 DEF ShopInv

LEMMA ShopNextInv == ShopInv /\ [ShopNext]_shopVars => ShopInv'
<1> SUFFICES ASSUME ShopInv, [ShopNext]_shopVars PROVE ShopInv'
  BY Zenon
<1>1. ChkInv /\ PayInv /\ (\A c \in Checkouts : Placed(c, chk[c])) /\ MutOK /\ AuthOK /\ PaidOK /\ PayTypeOK
  BY Zenon DEF ShopInv, PayInv
<1>2. ChkInv' /\ PayInv'
  BY Zenon, <1>1, ChkNextInv, ShopPays, PayNextInv
<1>3. ASSUME NEW c \in Checkouts PROVE Placed(c, chk'[c])
  <2>1. Moved(c, chk[c], chk'[c]) /\ Counted(chk[c]) /\ Placed(c, chk[c])
    BY Zenon, <1>1, CheckoutsMove DEF ChkInv
  <2> PICK x, y : x = chk[c] /\ y = chk'[c]
    BY Zenon
  <2> QED  BY Zenon, <2>1, PlacedKept DEF Moved
<1>4. (\A c \in Checkouts : Placed(c, chk[c]))'
  BY Zenon, <1>3 DEF Placed
<1>5. MutOK' /\ AuthOK' /\ PaidOK' /\ StockOK'
  BY Zenon, <1>1, MutNext, AuthNext, PaidNext, StockNext
<1> QED  BY Zenon, <1>2, <1>4, <1>5 DEF ShopInv


\* The shop keeps its invariant, for any checkouts, items, quantities and tries.
THEOREM ShopInvariant == ShopSpec => []ShopInv
  BY ShopInitInv, ShopNextInv, PTL DEF ShopSpec

\* Stock, lock, payments and the counts of create stay in their types: no reservation
\* takes the stock below zero (inventory handler.go), create reserves no more lines
\* than the order has, tries at most Tries times and releases no more than it reserved
\* (checkout handler.go).
THEOREM ShopTypesKept == ShopSpec => []ShopTypeOK
<1>1. ShopInv => ShopTypeOK
  BY Zenon DEF ShopInv, StockOK, PayInv, Placed, ShopTypeOK
<1> QED  BY <1>1, ShopInvariant, PTL

\* What the checkouts hold of an item and what is left of it is never more than there
\* was at the start, whatever calls fail, answer late or outlive the lock's time to live.
THEOREM HeldStockBacked == ShopSpec => []StockBacked
<1>1. ASSUME ShopInv PROVE StockBacked
  <2> SUFFICES ASSUME NEW sku \in Skus PROVE stock[sku] >= 0 /\ stock[sku] + HeldOf(sku) <= Initial[sku]
    BY Zenon DEF StockBacked
  <2> DEFINE H == {h \in Checkouts \X (1..MaxItems) : h[2] \in Held(h[1]) /\ Item(h[1], h[2]).sku = sku}
  <2>1. HeldOf(sku) = SumQty(H)
    BY Zenon DEF HeldOf, SumQty
  <2>2. ASSUME NEW h \in H PROVE h \in Claims(sku)
    <3> PICK c, i : c = h[1] /\ i = h[2]
      BY Zenon
    <3>1. c \in Checkouts /\ i \in Held(c) /\ Item(c, i).sku = sku /\ h \in Checkouts \X (1..MaxItems)
      BY Zenon
    <3>2. Placed(c, chk[c]) /\ chk[c].n \in Nat /\ chk[c].r \in Nat /\ Count(c) \in Nat
      BY <1>1, <3>1, ShopAssumption DEF ShopInv, ChkInv, Creating, MaxItems
    <3>3. chk[c].row => chk[c].r = 0 /\ chk[c].n = Count(c)
      BY Zenon, <3>2 DEF Placed, Keeping, Paying
    <3>4. i \in (chk[c].r + 1)..chk[c].n
      BY <3>1, <3>2, <3>3 DEF Held
    <3>5. i <= Count(c)
      BY <3>2, <3>4 DEF Placed
    <3>6. h \in Pairs
      BY Zenon, <3>1, <3>5 DEF Pairs
    <3> QED  BY Zenon, <3>1, <3>4, <3>6 DEF Claims, Claimed
  <2>3. H \in SUBSET Claims(sku) /\ Claims(sku) \in SUBSET Pairs /\ H \in SUBSET Pairs
    BY Zenon, <2>2 DEF Claims
  <2> PICK s, a, b, max : s = stock[sku] /\ a = SumQty(Claims(sku)) /\ b = SumQty(H) /\ max = Initial[sku]
    BY Zenon
  <2>4. s \in Nat /\ max \in Nat /\ s + a <= max
    BY Zenon, <1>1, StockAssumption DEF ShopInv, StockOK
  <2>5. a \in Nat /\ b \in Nat /\ b <= a
    BY Zenon, <2>3, SumNat, SumMonotone
  <2>6. s >= 0 /\ s + b <= max
    BY <2>4, <2>5
  <2> QED  BY Zenon, <2>1, <2>6
<1> QED  BY <1>1, ShopInvariant, PTL

\* A recorded checkout is paid: its payment is authorized with its total and the
\* processor approved it, though the answer it heard may be that of another try.
THEOREM RecordedIsPaid == ShopSpec => []ConfirmedPaid
<1>1. ASSUME ShopInv, NEW c \in Checkouts, chk[c].row
      PROVE  payments[c] = [status |-> "authorized", amount |-> Total(c)] /\ charges[c].approved > 0
  <2>1. payments[c] = [status |-> "authorized", amount |-> Total(c)]
    BY Zenon, <1>1 DEF ShopInv, PaidOK, Paid
  <2>2. payments[c].status = "authorized"
    BY <2>1
  <2> QED  BY Zenon, <1>1, <2>1, <2>2 DEF ShopInv, PayInv, AuthorizedCharged
<1>2. ShopInv => ConfirmedPaid
  BY Zenon, <1>1 DEF ConfirmedPaid
<1> QED  BY <1>2, ShopInvariant, PTL

=============================================================================
