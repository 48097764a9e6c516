--------------------------- MODULE MCPaymentDesk ---------------------------
(* A small instance of PaymentDesk for TLC: documents share nothing, so one of *)
(* each kind shows what can happen to it.                                   *)
EXTENDS PaymentDesk
=============================================================================
