------------------------------- MODULE MCShop -------------------------------
(***************************************************************************)
(* Two checkouts compete for the last piece of an item; one wants a second  *)
(* item as well.                                                            *)
(***************************************************************************)
EXTENDS ShopCheckout

MCOrder == [c \in Checkouts |->
  IF c = "c1" THEN <<[sku |-> "pen", qty |-> 1], [sku |-> "ink", qty |-> 1]>>
  ELSE <<[sku |-> "pen", qty |-> 1]>>]
MCInitial == [s \in {"pen", "ink"} |-> 1]
MCPrice == [s \in {"pen", "ink"} |-> IF s = "pen" THEN 2 ELSE 1]
MCRequests == Checkouts \X (1..Tries)

=============================================================================
