---------------------------- MODULE MCAccounts ----------------------------
(* A small instance of Accounts for TLC. Requests differ in nothing but their *)
(* names.                                                                   *)
EXTENDS Accounts, TLC

Requests == Permutations(Procs)
=============================================================================
