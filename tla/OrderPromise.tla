---------------------------- MODULE OrderPromise ----------------------------
(***************************************************************************)
(* What the shop promises about an order, whatever the handlers do inside:   *)
(* it is failed or paid but never both, goods and eXu move only for an order *)
(* that was paid, each benefit once, and the eXu reserved for an order is    *)
(* either debited or given free. OrderLifecycle implements it as long as one *)
(* handler runs at a time, even when handlers stop half way.                *)
(***************************************************************************)
EXTENDS Naturals

CONSTANTS Orders

Benefits == {"cashback", "reward"}
Reversals == {"cashback_reversal", "reward_reversal"}

VARIABLES
  stage,     \* none, pending, paid, failed or refunded
  bought,    \* the orders whose buyer paid
  reserve,   \* the eXu of the order: none, held, captured or free
  effects,   \* the eXu movements of each order
  sent       \* how often the goods of each order were ordered

vars == <<stage, bought, reserve, effects, sent>>

Init ==
  /\ stage = [o \in Orders |-> "none"]
  /\ bought = {}
  /\ reserve = [o \in Orders |-> "none"]
  /\ effects = {}
  /\ sent = [o \in Orders |-> 0]

Place(o) ==
  /\ stage[o] = "none"
  /\ stage' = [stage EXCEPT ![o] = "pending"]
  /\ UNCHANGED <<bought, reserve, effects, sent>>

Reserve(o) ==
  /\ stage[o] = "pending" /\ reserve[o] = "none"
  /\ reserve' = [reserve EXCEPT ![o] = "held"]
  /\ UNCHANGED <<stage, bought, effects, sent>>

\* A reservation ends with the order, or when its time is over.
Free(S) ==
  /\ \A o \in S : reserve[o] = "held"
  /\ reserve' = [o \in Orders |-> IF o \in S THEN "free" ELSE reserve[o]]
  /\ UNCHANGED <<stage, bought, effects, sent>>

Buy(o) ==
  /\ stage[o] # "none"
  /\ bought' = bought \cup {o}
  /\ UNCHANGED <<stage, reserve, effects, sent>>

Settle(o) ==
  /\ stage[o] = "pending" /\ o \in bought
  /\ stage' = [stage EXCEPT ![o] = "paid"]
  /\ UNCHANGED <<bought, reserve, effects, sent>>

Fail(S) ==
  /\ \A o \in S : stage[o] = "pending"
  /\ stage' = [o \in Orders |-> IF o \in S THEN "failed" ELSE stage[o]]
  /\ UNCHANGED <<bought, reserve, effects, sent>>

Capture(o) ==
  /\ stage[o] = "paid" /\ reserve[o] = "held"
  /\ reserve' = [reserve EXCEPT ![o] = "captured"]
  /\ effects' = effects \cup {<<"capture", o>>}
  /\ UNCHANGED <<stage, bought, sent>>

Grant(o, k) ==
  /\ stage[o] = "paid" /\ <<k, o>> \notin effects
  /\ effects' = effects \cup {<<k, o>>}
  /\ UNCHANGED <<stage, bought, reserve, sent>>

Deliver(o) ==
  /\ stage[o] = "paid" /\ sent[o] = 0
  /\ sent' = [sent EXCEPT ![o] = 1]
  /\ UNCHANGED <<stage, bought, reserve, effects>>

TakeBack(o, k) ==
  /\ stage[o] \in {"paid", "refunded"} /\ <<k, o>> \notin effects
  /\ effects' = effects \cup {<<k, o>>}
  /\ UNCHANGED <<stage, bought, reserve, sent>>

Refund(o) ==
  /\ stage[o] = "paid"
  /\ stage' = [stage EXCEPT ![o] = "refunded"]
  /\ UNCHANGED <<bought, reserve, effects, sent>>

Next ==
  \/ \E o \in Orders :
       \/ Place(o) \/ Reserve(o) \/ Buy(o) \/ Settle(o) \/ Capture(o) \/ Deliver(o)
       \/ Refund(o)
       \/ \E k \in Benefits : Grant(o, k)
       \/ \E k \in Reversals : TakeBack(o, k)
  \/ \E S \in SUBSET Orders : Free(S) \/ Fail(S)

Spec == Init /\ [][Next]_vars
-----------------------------------------------------------------------------
\* Every variable has its type.
TypeOK ==
  /\ stage \in [Orders -> {"none", "pending", "paid", "failed", "refunded"}]
  /\ bought \subseteq Orders
  /\ reserve \in [Orders -> {"none", "held", "captured", "free"}]
  /\ effects \subseteq (Benefits \cup Reversals \cup {"capture"}) \X Orders
  /\ sent \in [Orders -> {0, 1}]

\* An order that failed moved nothing: no eXu was debited, credited or taken back
\* and no goods were ordered for it.
FailedMovedNothing ==
  \A o \in Orders : stage[o] = "failed" =>
    /\ sent[o] = 0
    /\ reserve[o] # "captured"
    /\ \A k \in Benefits \cup Reversals \cup {"capture"} : <<k, o>> \notin effects

\* Whatever moved for an order, its buyer paid for it.
NothingForFree ==
  \A o \in Orders :
    sent[o] > 0 \/ (\E k \in Benefits : <<k, o>> \in effects) => o \in bought

\* eXu is debited exactly when the reservation is captured.
DebitIsReservation ==
  \A o \in Orders : reserve[o] = "captured" <=> <<"capture", o>> \in effects
=============================================================================
