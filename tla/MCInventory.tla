----------------------------- MODULE MCInventory -----------------------------
(***************************************************************************)
(* Instances of Inventory: two products, an order of one and an order of   *)
(* both of them, and the workers that the calls run in.                    *)
(***************************************************************************)
EXTENDS Inventory

CONSTANTS mug, cap, w1

OneLine == <<[item |-> mug, qty |-> 1]>>
TwoLines == <<[item |-> mug, qty |-> 1], [item |-> cap, qty |-> 1]>>

MCCarts == {OneLine, TwoLines}
MCOn == [a \in Actor |-> w1]
=============================================================================
