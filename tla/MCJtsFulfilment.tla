-------------------------- MODULE MCJtsFulfilment --------------------------
(* A small instance of JtsFulfilment for TLC: one order of two items.         *)
EXTENDS JtsFulfilment

MCItems == {1, 2}
MCOrders == {MCItems}
=============================================================================
