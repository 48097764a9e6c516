--------------------------- MODULE MCPlanPrices ---------------------------
(* A small instance of PlanPrices for TLC: a tier with a percentage and a       *)
(* fixed amount, which comes first and which an update may leave out; two        *)
(* admins may enter it side by side. One cost lies outside.                     *)
EXTENDS PlanPrices, TLC

MCRanges == {[min |-> 10000, max |-> 50000, percentage |-> 50, fixed |-> 5000]}

\* One plan becomes cheaper than the other, which is not offered any more.
MCOffers == {1 :> 100 @@ 2 :> 300, 2 :> 50}

\* A plan is taken off sale, or put on sale below its cost for nothing.
MCEdits ==
  {[cost |-> Keep, price |-> Keep, vnd |-> Keep, active |-> FALSE],
   [cost |-> 200, price |-> 100, vnd |-> 0, active |-> TRUE]}

Rate(n, whole) == [vnd |-> n, whole |-> whole]
MCRates == {Rate(10000, FALSE)}
MCDefault == Rate(10000, TRUE)

Jobs == Permutations(Procs)
=============================================================================
