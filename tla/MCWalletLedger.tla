--------------------------- MODULE MCWalletLedger ---------------------------
(* A small instance of WalletLedger for TLC: an order's cashback and its      *)
(* reversal racing an admin credit and the nightly job, on one wallet that     *)
(* expires.                                                                 *)
EXTENDS WalletLedger

CONSTANTS u1, cashback, reversal

MCKeys == {cashback, reversal}

Asks(u, t, a, k) == [user |-> u, type |-> t, amt |-> a, key |-> k]

MCPosts ==
  {Asks(u1, "order_cashback", 2, cashback),
   Asks(u1, "order_cashback_reversal", -2, reversal),
   Asks(u1, "manual_credit", 3, NoKey)}
=============================================================================
