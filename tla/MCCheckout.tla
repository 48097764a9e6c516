----------------------------- MODULE MCCheckout -----------------------------
(* A small instance of Checkout for TLC: a buyer with two carts, one that *)
(* asks for eXu for a part and one for all of it, each with any code. Prices are *)
(* in VND; they and the constants of wallets.enum.ts are a tenth of real ones,   *)
(* so that TLC's 32 bits hold the products.                                 *)
EXTENDS Checkout, TLC

CONSTANTS u1, u2

MCBuyer == <<u1, u1>>
MCSubtotal == <<14950, 10000>>
MCUseWallet == <<3000, 10000>>
MCUnits == <<1, 2>>
MCFunds == (u1 :> 10000) @@ (u2 :> 0)
MCLimits == {[all |-> 1, each |-> 2], [all |-> 2, each |-> 1]}
MCAdjustments == {-6000}

\* Where at most one order uses the coupon, its limits do not matter.
MCInit == Init /\ (Couponed = Orders \/ limit.all = 2)
MCSpec == MCInit /\ [][Next]_vars
=============================================================================
