-------------------------- MODULE MCOrderLifecycle --------------------------
(* Small instances of OrderLifecycle for TLC: one order under two handlers and  *)
(* the cron, and two orders of different kinds with one handler at a time.     *)
EXTENDS OrderLifecycle, TLC

CONSTANTS o1, o2, p1, p2

MCRefunds == {1, 2}

\* A refund of nothing is one too: it takes the benefits back.
MCAllRefunds == {0, 1, 2}

\* The handlers of one order are interchangeable; only runs of invariants use it.
MCSymmetry == Permutations(Slots)
=============================================================================
