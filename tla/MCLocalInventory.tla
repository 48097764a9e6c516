-------------------------- MODULE MCLocalInventory --------------------------
(* A small instance of LocalInventory for TLC: a buyer's order and one an admin *)
(* placed, for three eSIMs of a stock of two.                               *)
EXTENDS LocalInventory

CONSTANTS o1, o2

MCOrderOf == <<o1, o2>>
MCQuantity == <<1, 2>>
=============================================================================
