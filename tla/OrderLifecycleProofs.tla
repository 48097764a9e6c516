------------------------ MODULE OrderLifecycleProofs ------------------------
(* Safety of the order handlers for any number of orders and handlers, however  *)
(* they interleave and wherever they stop.                                  *)
EXTENDS OrderLifecycle, TLAPS

Settled == {"paid", "refunded"}
NoJob == {"idle", "cronFail", "cronNext"}
Creating == {"referral", "hold", "offer"}
Finalizing == {"markRead", "markWrite", "capRead", "capSave", "cashback", "cashbackId",
               "refRead", "reward", "rewardSave", "submit", "coupon"}
Refunding == {"rvCash", "rvCashId", "rvRead", "rvReward", "rvSave", "giveBack", "creditCash",
              "refunded"}

\* A handler past its first statement works on an order.
JobsAreOrders ==
  \A p \in Procs : pc[p] \notin {"idle", "cronFail", "cronNext"} => job[p] \in Orders

\* One checkout creates an order, and nothing is paid before it offers the payment.
CheckoutIsAlone ==
  /\ \A o \in Orders : order[o].status = "none" => payment[o] = "none"
  /\ \A p \in Procs : pc[p] \in Creating =>
       /\ order[job[p]].status # "none"
       /\ payment[job[p]] = "none"
       /\ \A q \in Procs : pc[q] \in Creating /\ job[q] = job[p] => q = p

\* What finalizes, refunds or is settled was paid by its buyer; a refund may still
\* trust a row it read.
WorkIsPaid ==
  /\ \A o \in Orders : order[o].status \in Settled => payment[o] = "success"
  /\ \A p \in Procs :
       /\ pc[p] \in Finalizing \cup Refunding => payment[job[p]] = "success"
       /\ pc[p] \in {"recall", "refund"} /\ seen[p].status \in Settled =>
            payment[job[p]] = "success"

\* A reward is in the ledger before the referral, or a refund, says so.
RewardIsPosted ==
  /\ \A o \in Orders : referral[o] = "credited" => <<"reward", o>> \in posted
  /\ \A p \in Procs : pc[p] \in {"rewardSave", "rvReward"} => <<"reward", job[p]>> \in posted

IInv == /\ TypeOK /\ JobsAreOrders /\ CheckoutIsAlone /\ WorkIsPaid /\ RewardIsPosted
        /\ NoPaymentNoBenefit /\ RewardBeforeReversal

\* A product grows with its second factor.
LEMMA MulMono ==
  ASSUME NEW a \in Nat, NEW s \in Nat, NEW t \in Nat, s <= t
  PROVE  a * s <= a * t
<1>1. PICK d \in Nat : t = s + d
  <2>1. t - s \in Nat
    OBVIOUS
  <2> QED BY <2>1
<1>2. a * t = a * s + a * d
  BY <1>1
<1>3. a * d \in Nat /\ a * s \in Nat
  OBVIOUS
<1> QED BY <1>2, <1>3

\* A quotient is at most what its bound divides to.
LEMMA DivBound ==
  ASSUME NEW x \in Nat, NEW d \in Nat \ {0}, NEW a \in Nat, x < d * (a + 1)
  PROVE  x \div d <= a
<1>1. PICK q \in Nat : q = x \div d
  OBVIOUS
<1>2. d * q <= x
  BY <1>1
<1>3. CASE q >= a + 1
  <2>1. d * (a + 1) <= d * q
    BY <1>3, MulMono
  <2>2. d * (a+1) \in Nat /\ d * q \in Nat
    OBVIOUS
  <2> QED BY <2>1, <1>2, <2>2
<1> QED BY <1>1, <1>3

\* The eXu share of a refund is a number and not more than the refund.
LEMMA ShareIsPart == \A o \in Orders, a \in Nat : Share(o, a) \in Nat /\ Share(o, a) <= a
<1> SUFFICES ASSUME NEW o \in Orders, NEW a \in Nat
             PROVE  Share(o, a) \in Nat /\ Share(o, a) <= a
  OBVIOUS
<1>1. Total \in Nat \ {0} /\ Spent \in Nat /\ Spent <= Total
  BY OrderAssumption
<1>2. a * Spent \in Nat /\ a * Total \in Nat /\ a * Spent <= a * Total
  BY <1>1, MulMono
<1>3. 2 * a * Spent + Total = 2 * (a * Spent) + Total /\ 2 * (a * Spent) + Total \in Nat
  BY <1>1, <1>2
<1>4. (2 * Total) * (a + 1) = 2 * (a * Total) + 2 * Total /\ 2 * Total \in Nat \ {0}
  BY <1>1, <1>2
<1>5. 2 * a * Spent + Total < (2 * Total) * (a + 1) /\ 2 * a * Spent + Total \in Nat
  BY <1>1, <1>2, <1>3, <1>4
<1>6. (2 * a * Spent + Total) \div (2 * Total) <= a
  BY <1>4, <1>5, DivBound
<1>7. (2 * a * Spent + Total) \div (2 * Total) \in Nat
  BY <1>4, <1>5
<1> QED BY <1>6, <1>7 DEF Share

LEMMA InitInv == Init => IInv
  BY OrderAssumption DEF Init, IInv, TypeOK, RowsOK, WorldOK, HandlersOK, JobsAreOrders,
     CheckoutIsAlone, WorkIsPaid,
     RewardIsPosted, NoPaymentNoBenefit, RewardBeforeReversal, NoRow, OrderRow, Labels,
     Creating, Finalizing, Refunding, Settled
-----------------------------------------------------------------------------
(* Rows and handlers keep their types.                                      *)

\* What the handlers write over a row is a row.
LEMMA RowWrites ==
  ASSUME NEW f \in [Orders -> OrderRow], NEW o \in Orders
  PROVE  /\ \A s \in {"pending", "paid", "failed"} :
              [f EXCEPT ![o].status = s] \in [Orders -> OrderRow]
         /\ [f EXCEPT ![o].cashbackTx = TRUE] \in [Orders -> OrderRow]
         /\ [f EXCEPT ![o].cashbackRev = TRUE] \in [Orders -> OrderRow]
         /\ \A n \in Nat : [f EXCEPT ![o].status = "refunded", ![o].refunded = n]
                              \in [Orders -> OrderRow]
<1>1. \A r \in OrderRow : \A s \in {"pending", "paid", "failed"} :
        [r EXCEPT !.status = s] \in OrderRow
  BY DEF OrderRow
<1>2. \A r \in OrderRow : [r EXCEPT !.cashbackTx = TRUE] \in OrderRow
  BY DEF OrderRow
<1>3. \A r \in OrderRow : [r EXCEPT !.cashbackRev = TRUE] \in OrderRow
  BY DEF OrderRow
<1>4. \A r \in OrderRow, n \in Nat :
        [r EXCEPT !.status = "refunded", !.refunded = n] \in OrderRow
  BY DEF OrderRow
<1> QED BY <1>1, <1>2, <1>3, <1>4

\* The payloads of OrderRepository.update.
LEMMA RowPayloads ==
  ASSUME NEW r \in OrderRow
  PROVE  /\ Paid(r) \in OrderRow /\ Paid(r).status = "paid"
         /\ Failed(r) \in OrderRow /\ Failed(r).status = "failed"
         /\ NoRow \in OrderRow
  BY DEF OrderRow, Paid, Failed, NoRow

\* The forms of a handler's step keep the types of the handlers and their orders.
Typed == HandlersOK /\ JobsAreOrders

LEMMA GotoTyped ==
  ASSUME NEW p \in Procs, NEW l \in Labels, Typed, Goto(p, l),
         job[p] \in Orders \/ l \in NoJob
  PROVE  Typed'
  BY DEF Typed, HandlersOK, JobsAreOrders, Goto, NoJob

LEMMA GotoSeenTyped ==
  ASSUME NEW p \in Procs, NEW l \in Labels, NEW row \in OrderRow, Typed,
         GotoSeen(p, l, row), job[p] \in Orders
  PROVE  Typed'
  BY DEF Typed, HandlersOK, JobsAreOrders, GotoSeen, NoJob

LEMMA FinishTyped ==
  ASSUME NEW p \in Procs, Typed, Finish(p)
  PROVE  Typed'
<1>1. NoRow \in OrderRow
  BY DEF NoRow, OrderRow
<1> QED BY <1>1 DEF Typed, HandlersOK, JobsAreOrders, Finish, Labels

LEMMA StartTyped ==
  ASSUME NEW p \in Procs, NEW l \in Labels, NEW o \in Orders, Typed, Start(p, l, o),
         UNCHANGED amt
  PROVE  Typed'
  BY DEF Typed, HandlersOK, JobsAreOrders, Start

LEMMA PostTyped ==
  ASSUME NEW p \in Procs, NEW l \in Labels, NEW k, Typed, Post(p, k, l),
         job[p] \in Orders, pc[p] \notin NoJob
  PROVE  Typed'
<1>1. "conflict" \in Labels
  BY DEF Labels
<1> QED BY <1>1 DEF Typed, HandlersOK, JobsAreOrders, Post, Rivals, NoJob

\* A request comes in: a checkout, a callback or a cancel.
LEMMA RequestKeepsInv ==
  ASSUME NEW p \in Procs, NEW o \in Orders, IInv,
         \/ CreateOrder(p, o) \/ Ipn(p, o) \/ Cancel(p, o)
  PROVE  IInv'
<1> USE OrderAssumption DEF Creating, Finalizing, Refunding, Settled, IInv, TypeOK, At,
   goods, rows, world
<1>t. Typed
  BY DEF Typed
<1>1. CASE CreateOrder(p, o)
  <2> USE <1>1 DEF CreateOrder, AfterReferral
  <2>1. (WorldOK /\ NoPaymentNoBenefit /\ RewardBeforeReversal)'
    BY DEF WorldOK, NoPaymentNoBenefit, RewardBeforeReversal
  <2>2. RowsOK'
    BY RowWrites DEF RowsOK, JobsAreOrders, HandlersOK
  <2>3. Typed'
    BY <1>t, StartTyped DEF Typed, HandlersOK, JobsAreOrders, Labels, NoJob
  <2>4. CheckoutIsAlone'
    BY DEF CheckoutIsAlone, Start, HandlersOK, JobsAreOrders, RowsOK, OrderRow
  <2>5. WorkIsPaid'
    BY RowPayloads DEF WorkIsPaid, Start, HandlersOK, JobsAreOrders, CheckoutIsAlone,
       RowsOK, OrderRow
  <2>6. RewardIsPosted'
    BY DEF RewardIsPosted, Start, HandlersOK, JobsAreOrders
  <2> QED BY <2>1, <2>2, <2>3, <2>4, <2>5, <2>6 DEF Typed
<1>2. CASE Ipn(p, o)
  <2> USE <1>2 DEF Ipn
  <2>1. (RowsOK /\ WorldOK /\ NoPaymentNoBenefit /\ RewardBeforeReversal)'
    BY DEF RowsOK, WorldOK, NoPaymentNoBenefit, RewardBeforeReversal
  <2>2. Typed'
    BY <1>t, StartTyped DEF Typed, HandlersOK, JobsAreOrders, Labels, NoJob
  <2>3. CheckoutIsAlone'
    BY DEF CheckoutIsAlone, Start, HandlersOK, JobsAreOrders
  <2>4. WorkIsPaid'
    BY DEF WorkIsPaid, Start, HandlersOK, JobsAreOrders
  <2>5. RewardIsPosted'
    BY DEF RewardIsPosted, Start, HandlersOK, JobsAreOrders
  <2> QED BY <2>1, <2>2, <2>3, <2>4, <2>5 DEF Typed
<1>3. CASE Cancel(p, o)
  <2> USE <1>3 DEF Cancel
  <2>1. (RowsOK /\ WorldOK /\ NoPaymentNoBenefit /\ RewardBeforeReversal)'
    BY DEF RowsOK, WorldOK, NoPaymentNoBenefit, RewardBeforeReversal
  <2>2. Typed'
    BY <1>t, StartTyped DEF Typed, HandlersOK, JobsAreOrders, Labels, NoJob
  <2>3. CheckoutIsAlone'
    BY DEF CheckoutIsAlone, Start, HandlersOK, JobsAreOrders
  <2>4. WorkIsPaid'
    BY DEF WorkIsPaid, Start, HandlersOK, JobsAreOrders
  <2>5. RewardIsPosted'
    BY DEF RewardIsPosted, Start, HandlersOK, JobsAreOrders
  <2> QED BY <2>1, <2>2, <2>3, <2>4, <2>5 DEF Typed
<1> QED BY <1>1, <1>2, <1>3

\* An admin asks for a refund.
LEMMA RefundRequestKeepsInv ==
  ASSUME NEW p \in Procs, NEW o \in Orders, NEW a \in Amounts, IInv,
         Refund(p, o, a)
  PROVE  IInv'
<1> USE OrderAssumption DEF Creating, Finalizing, Refunding, Settled, IInv, TypeOK, At,
   goods, rows, world
<1>t. Typed
  BY DEF Typed
<1>1. CASE Refund(p, o, a)
  <2> USE <1>1 DEF Refund
  <2>1. (RowsOK /\ NoPaymentNoBenefit /\ RewardBeforeReversal)'
    BY DEF RowsOK, NoPaymentNoBenefit, RewardBeforeReversal
  <2>2. WorldOK'
    BY DEF WorldOK
  <2>3. Typed'
    BY <1>t DEF Typed, HandlersOK, JobsAreOrders, Labels, RowsOK
  <2>4. CheckoutIsAlone'
    BY DEF CheckoutIsAlone, HandlersOK, JobsAreOrders
  <2>5. WorkIsPaid'
    BY DEF WorkIsPaid, HandlersOK, JobsAreOrders
  <2>6. RewardIsPosted'
    BY DEF RewardIsPosted, HandlersOK, JobsAreOrders
  <2> QED BY <2>1, <2>2, <2>3, <2>4, <2>5, <2>6 DEF Typed
<1> QED BY <1>1

\* Checkout: the order and its payment begin together, for one handler only.
LEMMA CheckoutKeepsInv ==
  ASSUME NEW p \in Procs, IInv,
         \/ CreateReferral(p) \/ CreateHold(p) \/ Offer(p)
  PROVE  IInv'
<1> USE OrderAssumption DEF Creating, Finalizing, Refunding, Settled, IInv, TypeOK, At,
   goods, rows, world
<1>t. Typed
  BY DEF Typed
<1>1. CASE CreateReferral(p)
  <2> USE <1>1 DEF CreateReferral, AfterReferral
  <2>1. (WorldOK /\ RewardBeforeReversal)'
    BY DEF WorldOK, RewardBeforeReversal
  <2>2. RowsOK'
    BY DEF RowsOK, JobsAreOrders, HandlersOK
  <2>3. Typed'
    BY <1>t, GotoTyped DEF Typed, HandlersOK, JobsAreOrders, Labels, NoJob
  <2>4. CheckoutIsAlone'
    BY DEF CheckoutIsAlone, Goto, HandlersOK, JobsAreOrders
  <2>5. WorkIsPaid'
    BY DEF WorkIsPaid, Goto, HandlersOK, JobsAreOrders
  <2>6. RewardIsPosted'
    BY DEF RewardIsPosted, Goto, HandlersOK, JobsAreOrders, RowsOK
  <2>7. NoPaymentNoBenefit'
    BY DEF NoPaymentNoBenefit, WorkIsPaid, RowsOK, HandlersOK, JobsAreOrders
  <2> QED BY <2>1, <2>2, <2>3, <2>4, <2>5, <2>6, <2>7 DEF Typed
<1>2. CASE CreateHold(p)
  <2> USE <1>2 DEF CreateHold
  <2>1. (WorldOK /\ NoPaymentNoBenefit /\ RewardBeforeReversal)'
    BY DEF WorldOK, NoPaymentNoBenefit, RewardBeforeReversal
  <2>2. RowsOK'
    BY DEF RowsOK, JobsAreOrders, HandlersOK
  <2>3. Typed'
    BY <1>t, GotoTyped, FinishTyped DEF Typed, HandlersOK, JobsAreOrders, Labels, NoJob
  <2>4. CheckoutIsAlone'
    BY DEF CheckoutIsAlone, Goto, Finish, HandlersOK, JobsAreOrders
  <2>5. WorkIsPaid'
    BY DEF WorkIsPaid, Goto, Finish, HandlersOK, JobsAreOrders
  <2>6. RewardIsPosted'
    BY DEF RewardIsPosted, Goto, Finish, HandlersOK, JobsAreOrders
  <2> QED BY <2>1, <2>2, <2>3, <2>4, <2>5, <2>6 DEF Typed
<1>3. CASE Offer(p)
  <2> USE <1>3 DEF Offer
  <2>1. job[p] \in Orders /\ payment[job[p]] = "none" /\ order[job[p]].status # "none"
    BY DEF CheckoutIsAlone, JobsAreOrders
  <2>2. \A q \in Orders : q # job[p] => payment'[q] = payment[q]
    BY DEF WorldOK
  <2>3. /\ pc'[p] \in {"idle", "markRead"}
       /\ \A q \in Procs : q # p => pc'[q] = pc[q] /\ job'[q] = job[q] /\ seen'[q] = seen[q]
    BY DEF HandlersOK, Goto, Finish
  <2>4. pc'[p] = "markRead" => job'[p] = job[p] /\ payment'[job[p]] = "success"
    BY <2>1 DEF WorldOK, HandlersOK, Goto, Finish
  <2>5. RewardBeforeReversal'
    BY DEF RewardBeforeReversal
  <2>6. RowsOK'
    BY DEF RowsOK, JobsAreOrders, HandlersOK
  <2>7. WorldOK'
    BY DEF WorldOK, JobsAreOrders
  <2>8. Typed'
    BY <1>t, GotoTyped, FinishTyped DEF Typed, HandlersOK, JobsAreOrders, Labels, NoJob
  <2>9. RewardIsPosted'
    BY DEF RewardIsPosted, Goto, Finish, HandlersOK, JobsAreOrders
  <2>10. CheckoutIsAlone'
    BY <2>1, <2>2, <2>3 DEF CheckoutIsAlone, JobsAreOrders
  <2>11. WorkIsPaid'
    BY <2>1, <2>2, <2>3, <2>4 DEF WorkIsPaid, JobsAreOrders
  <2>12. NoPaymentNoBenefit'
    BY <2>1, <2>2 DEF NoPaymentNoBenefit
  <2> QED BY <2>5, <2>6, <2>7, <2>8, <2>9, <2>10, <2>11, <2>12 DEF Typed
<1> QED BY <1>1, <1>2, <1>3

\* The callback of a successful payment and what follows from it.
LEMMA FinalizeKeepsInv ==
  ASSUME NEW p \in Procs, IInv,
         \/ MarkRead(p) \/ MarkWrite(p) \/ CaptureRead(p) \/ CaptureSave(p)
         \/ Cashback(p) \/ CashbackId(p) \/ RewardRead(p) \/ Reward(p)
         \/ RewardSave(p) \/ Submit(p) \/ ApplyCoupon(p) \/ Conflict(p)
  PROVE  IInv'
<1> USE OrderAssumption DEF Creating, Finalizing, Refunding, Settled, IInv, TypeOK, At,
   goods, rows, world
<1>t. Typed
  BY DEF Typed
<1>1. CASE MarkRead(p)
  <2> USE <1>1 DEF MarkRead
  <2>1. (RowsOK /\ WorldOK /\ NoPaymentNoBenefit /\ RewardBeforeReversal)'
    BY DEF RowsOK, WorldOK, NoPaymentNoBenefit, RewardBeforeReversal
  <2>2. Typed'
    BY <1>t, GotoSeenTyped, RowPayloads DEF Typed, HandlersOK, JobsAreOrders, Labels,
       NoJob, RowsOK
  <2>3. CheckoutIsAlone'
    BY DEF CheckoutIsAlone, GotoSeen, HandlersOK, JobsAreOrders
  <2>4. WorkIsPaid'
    BY DEF WorkIsPaid, GotoSeen, HandlersOK, JobsAreOrders
  <2>5. RewardIsPosted'
    BY DEF RewardIsPosted, GotoSeen, HandlersOK, JobsAreOrders
  <2> QED BY <2>1, <2>2, <2>3, <2>4, <2>5 DEF Typed
<1>2. CASE MarkWrite(p)
  <2> USE <1>2 DEF MarkWrite, Bases
  <2>r. \A q \in Orders : order'[q].status = "none" => order[q].status = "none"
    BY RowPayloads DEF RowsOK, HandlersOK, JobsAreOrders
  <2>1. (WorldOK /\ NoPaymentNoBenefit /\ RewardBeforeReversal)'
    BY DEF WorldOK, NoPaymentNoBenefit, RewardBeforeReversal
  <2>2. RowsOK'
    BY SMTT(30), RowPayloads DEF RowsOK, JobsAreOrders, HandlersOK
  <2>3. Typed'
    BY <1>t, GotoSeenTyped, RowPayloads DEF Typed, HandlersOK, JobsAreOrders, Labels,
       NoJob, RowsOK
  <2>4. CheckoutIsAlone'
    BY <2>r DEF CheckoutIsAlone, GotoSeen, HandlersOK, JobsAreOrders
  <2>5. WorkIsPaid'
    BY RowPayloads DEF WorkIsPaid, GotoSeen, HandlersOK, JobsAreOrders, RowsOK, OrderRow
  <2>6. RewardIsPosted'
    BY DEF RewardIsPosted, GotoSeen, HandlersOK, JobsAreOrders
  <2> QED BY <2>1, <2>2, <2>3, <2>4, <2>5, <2>6 DEF Typed
<1>3. CASE CaptureRead(p)
  <2> USE <1>3 DEF CaptureRead
  <2>1. (RowsOK /\ WorldOK /\ NoPaymentNoBenefit /\ RewardBeforeReversal)'
    BY DEF RowsOK, WorldOK, NoPaymentNoBenefit, RewardBeforeReversal
  <2>2. Typed'
    BY <1>t, GotoTyped DEF Typed, HandlersOK, JobsAreOrders, Labels, NoJob
  <2>3. CheckoutIsAlone'
    BY DEF CheckoutIsAlone, Goto, HandlersOK, JobsAreOrders
  <2>4. WorkIsPaid'
    BY DEF WorkIsPaid, Goto, HandlersOK, JobsAreOrders
  <2>5. RewardIsPosted'
    BY DEF RewardIsPosted, Goto, HandlersOK, JobsAreOrders
  <2> QED BY <2>1, <2>2, <2>3, <2>4, <2>5 DEF Typed
<1>4. CASE CaptureSave(p)
  <2> USE <1>4 DEF CaptureSave
  <2>1. WorldOK'
    BY DEF WorldOK
  <2>2. RowsOK'
    BY DEF RowsOK, JobsAreOrders, HandlersOK, Post, Kinds
  <2>3. Typed'
    BY <1>t, PostTyped DEF Typed, HandlersOK, JobsAreOrders, Labels, NoJob
  <2>4. CheckoutIsAlone'
    BY DEF CheckoutIsAlone, Post, HandlersOK, JobsAreOrders, Rivals
  <2>5. WorkIsPaid'
    BY DEF WorkIsPaid, Post, HandlersOK, JobsAreOrders, Rivals
  <2>6. RewardIsPosted'
    BY DEF RewardIsPosted, Post, HandlersOK, JobsAreOrders, Rivals, RowsOK
  <2>7. NoPaymentNoBenefit'
    BY DEF NoPaymentNoBenefit, WorkIsPaid, RowsOK, HandlersOK, JobsAreOrders, Post
  <2>8. RewardBeforeReversal'
    BY DEF RewardBeforeReversal, RewardIsPosted, RowsOK, Post
  <2> QED BY <2>1, <2>2, <2>3, <2>4, <2>5, <2>6, <2>7, <2>8 DEF Typed
<1>5. CASE Cashback(p)
  <2> USE <1>5 DEF Cashback
  <2>1. WorldOK'
    BY DEF WorldOK
  <2>2. RowsOK'
    BY DEF RowsOK, JobsAreOrders, HandlersOK, Post, Kinds
  <2>3. Typed'
    BY <1>t, GotoTyped, PostTyped DEF Typed, HandlersOK, JobsAreOrders, Labels, NoJob
  <2>4. CheckoutIsAlone'
    BY DEF CheckoutIsAlone, Goto, Post, HandlersOK, JobsAreOrders, Rivals
  <2>5. WorkIsPaid'
    BY DEF WorkIsPaid, Goto, Post, HandlersOK, JobsAreOrders, Rivals
  <2>6. RewardIsPosted'
    BY DEF RewardIsPosted, Goto, Post, HandlersOK, JobsAreOrders, Rivals, RowsOK
  <2>7. NoPaymentNoBenefit'
    BY DEF NoPaymentNoBenefit, WorkIsPaid, RowsOK, HandlersOK, JobsAreOrders, Goto, Post
  <2>8. RewardBeforeReversal'
    BY DEF RewardBeforeReversal, RewardIsPosted, RowsOK, Goto, Post
  <2> QED BY <2>1, <2>2, <2>3, <2>4, <2>5, <2>6, <2>7, <2>8 DEF Typed
<1>6. CASE CashbackId(p)
  <2> USE <1>6 DEF CashbackId
  <2>1. (WorldOK /\ NoPaymentNoBenefit /\ RewardBeforeReversal)'
    BY DEF WorldOK, NoPaymentNoBenefit, RewardBeforeReversal
  <2>2. RowsOK'
    BY RowWrites DEF RowsOK, JobsAreOrders, HandlersOK
  <2>3. Typed'
    BY <1>t, GotoTyped DEF Typed, HandlersOK, JobsAreOrders, Labels, NoJob
  <2>4. CheckoutIsAlone'
    BY DEF CheckoutIsAlone, Goto, HandlersOK, JobsAreOrders, RowsOK, OrderRow
  <2>5. WorkIsPaid'
    BY RowPayloads DEF WorkIsPaid, Goto, HandlersOK, JobsAreOrders, RowsOK, OrderRow
  <2>6. RewardIsPosted'
    BY DEF RewardIsPosted, Goto, HandlersOK, JobsAreOrders
  <2> QED BY <2>1, <2>2, <2>3, <2>4, <2>5, <2>6 DEF Typed
<1>7. CASE RewardRead(p)
  <2> USE <1>7 DEF RewardRead
  <2>1. (RowsOK /\ WorldOK /\ NoPaymentNoBenefit /\ RewardBeforeReversal)'
    BY DEF RowsOK, WorldOK, NoPaymentNoBenefit, RewardBeforeReversal
  <2>2. Typed'
    BY <1>t, GotoTyped DEF Typed, HandlersOK, JobsAreOrders, Labels, NoJob
  <2>3. CheckoutIsAlone'
    BY DEF CheckoutIsAlone, Goto, HandlersOK, JobsAreOrders
  <2>4. WorkIsPaid'
    BY DEF WorkIsPaid, Goto, HandlersOK, JobsAreOrders
  <2>5. RewardIsPosted'
    BY DEF RewardIsPosted, Goto, HandlersOK, JobsAreOrders
  <2> QED BY <2>1, <2>2, <2>3, <2>4, <2>5 DEF Typed
<1>8. CASE Reward(p)
  <2> USE <1>8 DEF Reward
  <2>1. WorldOK'
    BY DEF WorldOK
  <2>2. RowsOK'
    BY DEF RowsOK, JobsAreOrders, HandlersOK, Post, Kinds
  <2>3. Typed'
    BY <1>t, PostTyped DEF Typed, HandlersOK, JobsAreOrders, Labels, NoJob
  <2>4. CheckoutIsAlone'
    BY DEF CheckoutIsAlone, Post, HandlersOK, JobsAreOrders, Rivals
  <2>5. WorkIsPaid'
    BY DEF WorkIsPaid, Post, HandlersOK, JobsAreOrders, Rivals
  <2>6. RewardIsPosted'
    BY DEF RewardIsPosted, Post, HandlersOK, JobsAreOrders, Rivals, RowsOK
  <2>7. NoPaymentNoBenefit'
    BY DEF NoPaymentNoBenefit, WorkIsPaid, RowsOK, HandlersOK, JobsAreOrders, Post
  <2>8. RewardBeforeReversal'
    BY DEF RewardBeforeReversal, RewardIsPosted, RowsOK, Post
  <2> QED BY <2>1, <2>2, <2>3, <2>4, <2>5, <2>6, <2>7, <2>8 DEF Typed
<1>9. CASE RewardSave(p)
  <2> USE <1>9 DEF RewardSave
  <2>1. (WorldOK /\ RewardBeforeReversal)'
    BY DEF WorldOK, RewardBeforeReversal
  <2>2. RowsOK'
    BY DEF RowsOK, JobsAreOrders, HandlersOK
  <2>3. Typed'
    BY <1>t, GotoTyped DEF Typed, HandlersOK, JobsAreOrders, Labels, NoJob
  <2>4. CheckoutIsAlone'
    BY DEF CheckoutIsAlone, Goto, HandlersOK, JobsAreOrders
  <2>5. WorkIsPaid'
    BY DEF WorkIsPaid, Goto, HandlersOK, JobsAreOrders
  <2>6. RewardIsPosted'
    BY DEF RewardIsPosted, Goto, HandlersOK, JobsAreOrders, RowsOK
  <2>7. NoPaymentNoBenefit'
    BY DEF NoPaymentNoBenefit, WorkIsPaid, RowsOK, HandlersOK, JobsAreOrders
  <2> QED BY <2>1, <2>2, <2>3, <2>4, <2>5, <2>6, <2>7 DEF Typed
<1>10. CASE Submit(p)
  <2> USE <1>10 DEF Submit
  <2>1. (WorldOK /\ RewardBeforeReversal)'
    BY DEF WorldOK, RewardBeforeReversal
  <2>2. RowsOK'
    BY DEF RowsOK, JobsAreOrders, HandlersOK
  <2>3. Typed'
    BY <1>t, GotoTyped, FinishTyped DEF Typed, HandlersOK, JobsAreOrders, Labels, NoJob
  <2>4. CheckoutIsAlone'
    BY DEF CheckoutIsAlone, Goto, Finish, HandlersOK, JobsAreOrders
  <2>5. WorkIsPaid'
    BY DEF WorkIsPaid, Goto, Finish, HandlersOK, JobsAreOrders
  <2>6. RewardIsPosted'
    BY DEF RewardIsPosted, Goto, Finish, HandlersOK, JobsAreOrders
  <2>7. NoPaymentNoBenefit'
    BY DEF NoPaymentNoBenefit, WorkIsPaid, RowsOK, HandlersOK, JobsAreOrders
  <2> QED BY <2>1, <2>2, <2>3, <2>4, <2>5, <2>6, <2>7 DEF Typed
<1>11. CASE ApplyCoupon(p)
  <2> USE <1>11 DEF ApplyCoupon
  <2>1. (WorldOK /\ RewardBeforeReversal)'
    BY DEF WorldOK, RewardBeforeReversal
  <2>2. RowsOK'
    BY DEF RowsOK, JobsAreOrders, HandlersOK
  <2>3. Typed'
    BY <1>t, FinishTyped DEF Typed, HandlersOK, JobsAreOrders, Labels, NoJob
  <2>4. CheckoutIsAlone'
    BY DEF CheckoutIsAlone, Finish, HandlersOK, JobsAreOrders
  <2>5. WorkIsPaid'
    BY DEF WorkIsPaid, Finish, HandlersOK, JobsAreOrders
  <2>6. RewardIsPosted'
    BY DEF RewardIsPosted, Finish, HandlersOK, JobsAreOrders
  <2>7. NoPaymentNoBenefit'
    BY DEF NoPaymentNoBenefit, WorkIsPaid, RowsOK, HandlersOK, JobsAreOrders
  <2> QED BY <2>1, <2>2, <2>3, <2>4, <2>5, <2>6, <2>7 DEF Typed
<1>12. CASE Conflict(p)
  <2> USE <1>12 DEF Conflict
  <2>1. (RowsOK /\ WorldOK /\ NoPaymentNoBenefit /\ RewardBeforeReversal)'
    BY DEF RowsOK, WorldOK, NoPaymentNoBenefit, RewardBeforeReversal
  <2>2. Typed'
    BY <1>t, FinishTyped DEF Typed, HandlersOK, JobsAreOrders, Labels, NoJob
  <2>3. CheckoutIsAlone'
    BY DEF CheckoutIsAlone, Finish, HandlersOK, JobsAreOrders
  <2>4. WorkIsPaid'
    BY DEF WorkIsPaid, Finish, HandlersOK, JobsAreOrders
  <2>5. RewardIsPosted'
    BY DEF RewardIsPosted, Finish, HandlersOK, JobsAreOrders
  <2> QED BY <2>1, <2>2, <2>3, <2>4, <2>5 DEF Typed
<1> QED BY <1>1, <1>2, <1>3, <1>4, <1>5, <1>6, <1>7, <1>8, <1>9, <1>10, <1>11, <1>12

\* Cancel: it moves nothing to the buyer, whatever row it writes.
LEMMA CancelKeepsInv ==
  ASSUME NEW p \in Procs, IInv,
         \/ CancelRead(p) \/ FailRead(p) \/ FailWrite(p) \/ ReleaseRead(p)
         \/ ReleaseSave(p) \/ ReleaseCoupon(p) \/ ReverseRead(p)
         \/ ReverseSave(p)
  PROVE  IInv'
<1> USE OrderAssumption DEF Creating, Finalizing, Refunding, Settled, IInv, TypeOK, At,
   goods, rows, world
<1>t. Typed
  BY DEF Typed
<1>1. CASE CancelRead(p)
  <2> USE <1>1 DEF CancelRead
  <2>1. (RowsOK /\ WorldOK /\ NoPaymentNoBenefit /\ RewardBeforeReversal)'
    BY DEF RowsOK, WorldOK, NoPaymentNoBenefit, RewardBeforeReversal
  <2>2. Typed'
    BY <1>t, GotoTyped, FinishTyped DEF Typed, HandlersOK, JobsAreOrders, Labels, NoJob
  <2>3. CheckoutIsAlone'
    BY DEF CheckoutIsAlone, Goto, Finish, HandlersOK, JobsAreOrders
  <2>4. WorkIsPaid'
    BY DEF WorkIsPaid, Goto, Finish, HandlersOK, JobsAreOrders
  <2>5. RewardIsPosted'
    BY DEF RewardIsPosted, Goto, Finish, HandlersOK, JobsAreOrders
  <2> QED BY <2>1, <2>2, <2>3, <2>4, <2>5 DEF Typed
<1>2. CASE FailRead(p)
  <2> USE <1>2 DEF FailRead
  <2>1. (RowsOK /\ WorldOK /\ NoPaymentNoBenefit /\ RewardBeforeReversal)'
    BY DEF RowsOK, WorldOK, NoPaymentNoBenefit, RewardBeforeReversal
  <2>2. Typed'
    BY <1>t, GotoSeenTyped, RowPayloads DEF Typed, HandlersOK, JobsAreOrders, Labels,
       NoJob, RowsOK
  <2>3. CheckoutIsAlone'
    BY DEF CheckoutIsAlone, GotoSeen, HandlersOK, JobsAreOrders
  <2>4. WorkIsPaid'
    BY DEF WorkIsPaid, GotoSeen, HandlersOK, JobsAreOrders
  <2>5. RewardIsPosted'
    BY DEF RewardIsPosted, GotoSeen, HandlersOK, JobsAreOrders
  <2> QED BY <2>1, <2>2, <2>3, <2>4, <2>5 DEF Typed
<1>3. CASE FailWrite(p)
  <2> USE <1>3 DEF FailWrite, Bases
  <2>r. \A q \in Orders : order'[q].status = "none" => order[q].status = "none"
    BY RowPayloads DEF RowsOK, HandlersOK, JobsAreOrders
  <2>1. (WorldOK /\ NoPaymentNoBenefit /\ RewardBeforeReversal)'
    BY DEF WorldOK, NoPaymentNoBenefit, RewardBeforeReversal
  <2>2. RowsOK'
    BY SMTT(30), RowPayloads DEF RowsOK, JobsAreOrders, HandlersOK
  <2>3. Typed'
    BY <1>t, GotoTyped DEF Typed, HandlersOK, JobsAreOrders, Labels, NoJob
  <2>4. CheckoutIsAlone'
    BY <2>r DEF CheckoutIsAlone, Goto, HandlersOK, JobsAreOrders
  <2>5. WorkIsPaid'
    BY RowPayloads DEF WorkIsPaid, Goto, HandlersOK, JobsAreOrders, RowsOK, OrderRow
  <2>6. RewardIsPosted'
    BY DEF RewardIsPosted, Goto, HandlersOK, JobsAreOrders
  <2> QED BY <2>1, <2>2, <2>3, <2>4, <2>5, <2>6 DEF Typed
<1>4. CASE ReleaseRead(p)
  <2> USE <1>4 DEF ReleaseRead, AfterRelease
  <2>1. (RowsOK /\ WorldOK /\ NoPaymentNoBenefit /\ RewardBeforeReversal)'
    BY DEF RowsOK, WorldOK, NoPaymentNoBenefit, RewardBeforeReversal
  <2>2. Typed'
    BY <1>t, GotoTyped DEF Typed, HandlersOK, JobsAreOrders, Labels, NoJob
  <2>3. CheckoutIsAlone'
    BY DEF CheckoutIsAlone, Goto, HandlersOK, JobsAreOrders
  <2>4. WorkIsPaid'
    BY DEF WorkIsPaid, Goto, HandlersOK, JobsAreOrders
  <2>5. RewardIsPosted'
    BY DEF RewardIsPosted, Goto, HandlersOK, JobsAreOrders
  <2> QED BY <2>1, <2>2, <2>3, <2>4, <2>5 DEF Typed
<1>5. CASE ReleaseSave(p)
  <2> USE <1>5 DEF ReleaseSave, AfterRelease
  <2>1. (WorldOK /\ NoPaymentNoBenefit /\ RewardBeforeReversal)'
    BY DEF WorldOK, NoPaymentNoBenefit, RewardBeforeReversal
  <2>2. RowsOK'
    BY DEF RowsOK, JobsAreOrders, HandlersOK
  <2>3. Typed'
    BY <1>t, GotoTyped DEF Typed, HandlersOK, JobsAreOrders, Labels, NoJob
  <2>4. CheckoutIsAlone'
    BY DEF CheckoutIsAlone, Goto, HandlersOK, JobsAreOrders
  <2>5. WorkIsPaid'
    BY DEF WorkIsPaid, Goto, HandlersOK, JobsAreOrders
  <2>6. RewardIsPosted'
    BY DEF RewardIsPosted, Goto, HandlersOK, JobsAreOrders
  <2> QED BY <2>1, <2>2, <2>3, <2>4, <2>5, <2>6 DEF Typed
<1>6. CASE ReleaseCoupon(p)
  <2> USE <1>6 DEF ReleaseCoupon
  <2>1. (WorldOK /\ NoPaymentNoBenefit /\ RewardBeforeReversal)'
    BY DEF WorldOK, NoPaymentNoBenefit, RewardBeforeReversal
  <2>2. RowsOK'
    BY DEF RowsOK, JobsAreOrders, HandlersOK
  <2>3. Typed'
    BY <1>t, GotoTyped DEF Typed, HandlersOK, JobsAreOrders, Labels, NoJob
  <2>4. CheckoutIsAlone'
    BY DEF CheckoutIsAlone, Goto, HandlersOK, JobsAreOrders
  <2>5. WorkIsPaid'
    BY DEF WorkIsPaid, Goto, HandlersOK, JobsAreOrders
  <2>6. RewardIsPosted'
    BY DEF RewardIsPosted, Goto, HandlersOK, JobsAreOrders
  <2> QED BY <2>1, <2>2, <2>3, <2>4, <2>5, <2>6 DEF Typed
<1>7. CASE ReverseRead(p)
  <2> USE <1>7 DEF ReverseRead, Rest
  <2>1. (RowsOK /\ WorldOK /\ NoPaymentNoBenefit /\ RewardBeforeReversal)'
    BY DEF RowsOK, WorldOK, NoPaymentNoBenefit, RewardBeforeReversal
  <2>2. Typed'
    BY <1>t, GotoTyped, FinishTyped DEF Typed, HandlersOK, JobsAreOrders, Labels, NoJob
  <2>3. CheckoutIsAlone'
    BY DEF CheckoutIsAlone, Goto, Finish, HandlersOK, JobsAreOrders
  <2>4. WorkIsPaid'
    BY DEF WorkIsPaid, Goto, Finish, HandlersOK, JobsAreOrders
  <2>5. RewardIsPosted'
    BY DEF RewardIsPosted, Goto, Finish, HandlersOK, JobsAreOrders
  <2> QED BY <2>1, <2>2, <2>3, <2>4, <2>5 DEF Typed
<1>8. CASE ReverseSave(p)
  <2> USE <1>8 DEF ReverseSave, Rest
  <2>1. (WorldOK /\ RewardBeforeReversal)'
    BY DEF WorldOK, RewardBeforeReversal
  <2>2. RowsOK'
    BY DEF RowsOK, JobsAreOrders, HandlersOK
  <2>3. Typed'
    BY <1>t, GotoTyped, FinishTyped DEF Typed, HandlersOK, JobsAreOrders, Labels, NoJob
  <2>4. CheckoutIsAlone'
    BY DEF CheckoutIsAlone, Goto, Finish, HandlersOK, JobsAreOrders
  <2>5. WorkIsPaid'
    BY DEF WorkIsPaid, Goto, Finish, HandlersOK, JobsAreOrders
  <2>6. RewardIsPosted'
    BY DEF RewardIsPosted, Goto, Finish, HandlersOK, JobsAreOrders, RowsOK
  <2>7. NoPaymentNoBenefit'
    BY DEF NoPaymentNoBenefit, WorkIsPaid, RowsOK, HandlersOK, JobsAreOrders
  <2> QED BY <2>1, <2>2, <2>3, <2>4, <2>5, <2>6, <2>7 DEF Typed
<1> QED BY <1>1, <1>2, <1>3, <1>4, <1>5, <1>6, <1>7, <1>8

\* The crons.
LEMMA CronKeepsInv ==
  ASSUME IInv,
         \/ SelectExpired \/ FailExpired \/ ExpireHolds
  PROVE  IInv'
<1> USE OrderAssumption DEF Creating, Finalizing, Refunding, Settled, IInv, TypeOK, At,
   goods, rows, world
<1>t. Typed
  BY DEF Typed
<1>1. CASE SelectExpired
  <2> USE <1>1 DEF SelectExpired
  <2>c. Cron \in Procs
    BY DEF Procs
  <2>1. (RowsOK /\ WorldOK /\ NoPaymentNoBenefit /\ RewardBeforeReversal)'
    BY DEF RowsOK, WorldOK, NoPaymentNoBenefit, RewardBeforeReversal
  <2>2. Typed'
    BY <1>t, <2>c DEF Typed, HandlersOK, JobsAreOrders, Labels
  <2>3. CheckoutIsAlone'
    BY <2>c DEF CheckoutIsAlone, HandlersOK, JobsAreOrders
  <2>4. WorkIsPaid'
    BY <2>c DEF WorkIsPaid, HandlersOK, JobsAreOrders
  <2>5. RewardIsPosted'
    BY <2>c DEF RewardIsPosted, HandlersOK, JobsAreOrders
  <2> QED BY <2>1, <2>2, <2>3, <2>4, <2>5 DEF Typed
<1>2. CASE FailExpired
  <2> USE <1>2 DEF FailExpired
  <2>c. Cron \in Procs
    BY DEF Procs
  <2>r. \A q \in Orders : order'[q].status = "none" => order[q].status = "none"
    BY <2>c, RowPayloads DEF RowsOK, HandlersOK
  <2>1. (WorldOK /\ NoPaymentNoBenefit /\ RewardBeforeReversal)'
    BY DEF WorldOK, NoPaymentNoBenefit, RewardBeforeReversal
  <2>2. RowsOK'
    BY RowPayloads DEF RowsOK, HandlersOK
  <2>3. Typed'
    BY <1>t, <2>c, GotoTyped DEF Typed, HandlersOK, JobsAreOrders, Labels, NoJob
  <2>4. CheckoutIsAlone'
    BY <2>c, <2>r DEF CheckoutIsAlone, Goto, HandlersOK, JobsAreOrders
  <2>5. WorkIsPaid'
    BY <2>c, RowPayloads DEF WorkIsPaid, Goto, HandlersOK, JobsAreOrders, RowsOK, OrderRow
  <2>6. RewardIsPosted'
    BY <2>c DEF RewardIsPosted, Goto, HandlersOK, JobsAreOrders
  <2> QED BY <2>1, <2>2, <2>3, <2>4, <2>5, <2>6 DEF Typed
<1>3. CASE ExpireHolds
  <2> USE <1>3 DEF ExpireHolds
  <2>1. (WorldOK /\ NoPaymentNoBenefit /\ RewardBeforeReversal)'
    BY DEF WorldOK, NoPaymentNoBenefit, RewardBeforeReversal
  <2>2. RowsOK'
    BY DEF RowsOK
  <2>3. Typed'
    BY <1>t DEF Typed, HandlersOK, JobsAreOrders, Labels
  <2>4. CheckoutIsAlone'
    BY DEF CheckoutIsAlone, HandlersOK, JobsAreOrders
  <2>5. WorkIsPaid'
    BY DEF WorkIsPaid, HandlersOK, JobsAreOrders
  <2>6. RewardIsPosted'
    BY DEF RewardIsPosted, HandlersOK, JobsAreOrders
  <2> QED BY <2>1, <2>2, <2>3, <2>4, <2>5, <2>6 DEF Typed
<1> QED BY <1>1, <1>2, <1>3

\* The cron goes on with the next order.
LEMMA CronNextKeepsInv ==
  ASSUME NEW o \in Orders, IInv,
         FailNext(o)
  PROVE  IInv'
<1> USE OrderAssumption DEF Creating, Finalizing, Refunding, Settled, IInv, TypeOK, At,
   goods, rows, world
<1>t. Typed
  BY DEF Typed
<1>1. CASE FailNext(o)
  <2> USE <1>1 DEF FailNext
  <2>c. Cron \in Procs
    BY DEF Procs
  <2>0. UNCHANGED <<rows, world>>
    OBVIOUS
  <2>1. (RowsOK /\ WorldOK /\ NoPaymentNoBenefit /\ RewardBeforeReversal)'
    <3>1. RowsOK' /\ WorldOK'
      BY <2>0 DEF RowsOK, WorldOK
    <3>2. NoPaymentNoBenefit' /\ RewardBeforeReversal'
      BY <2>0 DEF NoPaymentNoBenefit, RewardBeforeReversal
    <3> QED BY <3>1, <3>2
  <2>2. Typed'
    BY <1>t, <2>c DEF Typed, HandlersOK, JobsAreOrders, Labels
  <2>3. CheckoutIsAlone'
    BY <2>c DEF CheckoutIsAlone, HandlersOK, JobsAreOrders
  <2>4. WorkIsPaid'
    BY <2>c DEF WorkIsPaid, HandlersOK, JobsAreOrders
  <2>5. RewardIsPosted'
    BY <2>c DEF RewardIsPosted, HandlersOK, JobsAreOrders
  <2> QED BY <2>1, <2>2, <2>3, <2>4, <2>5 DEF Typed
<1> QED BY <1>1

\* Refund: it starts from the row it read, which was settled only if it was paid.
LEMMA RefundKeepsInv ==
  ASSUME NEW p \in Procs, IInv,
         \/ Recall(p) \/ RefundRow(p) \/ ReverseCashback(p)
         \/ ReverseCashbackId(p) \/ RefundReferral(p) \/ ReverseReward(p)
         \/ RefundReferralSave(p) \/ GiveBack(p) \/ CreditCash(p) \/ Refunded(p)
  PROVE  IInv'
<1> USE OrderAssumption DEF Creating, Finalizing, Refunding, Settled, IInv, TypeOK, At,
   goods, rows, world
<1>t. Typed
  BY DEF Typed
<1>1. CASE Recall(p)
  <2> USE <1>1 DEF Recall
  <2>1. (WorldOK /\ NoPaymentNoBenefit /\ RewardBeforeReversal)'
    BY DEF WorldOK, NoPaymentNoBenefit, RewardBeforeReversal
  <2>2. RowsOK'
    BY DEF RowsOK, JobsAreOrders, HandlersOK
  <2>3. Typed'
    BY <1>t, GotoTyped DEF Typed, HandlersOK, JobsAreOrders, Labels, NoJob
  <2>4. CheckoutIsAlone'
    BY DEF CheckoutIsAlone, Goto, HandlersOK, JobsAreOrders
  <2>5. WorkIsPaid'
    BY DEF WorkIsPaid, Goto, HandlersOK, JobsAreOrders
  <2>6. RewardIsPosted'
    BY DEF RewardIsPosted, Goto, HandlersOK, JobsAreOrders
  <2> QED BY <2>1, <2>2, <2>3, <2>4, <2>5, <2>6 DEF Typed
<1>2. CASE RefundRow(p)
  <2> USE <1>2 DEF RefundRow
  <2>1. (WorldOK /\ RewardBeforeReversal)'
    BY DEF WorldOK, RewardBeforeReversal
  <2>2. RowsOK'
    BY DEF RowsOK, JobsAreOrders, HandlersOK
  <2>3. Typed'
    BY <1>t, GotoTyped, FinishTyped DEF Typed, HandlersOK, JobsAreOrders, Labels, NoJob
  <2>4. CheckoutIsAlone'
    BY DEF CheckoutIsAlone, Goto, Finish, HandlersOK, JobsAreOrders
  <2>5. WorkIsPaid'
    BY DEF WorkIsPaid, Goto, Finish, HandlersOK, JobsAreOrders
  <2>6. RewardIsPosted'
    BY DEF RewardIsPosted, Goto, Finish, HandlersOK, JobsAreOrders
  <2>7. NoPaymentNoBenefit'
    BY DEF NoPaymentNoBenefit, WorkIsPaid, RowsOK, HandlersOK, JobsAreOrders
  <2> QED BY <2>1, <2>2, <2>3, <2>4, <2>5, <2>6, <2>7 DEF Typed
<1>3. CASE ReverseCashback(p)
  <2> USE <1>3 DEF ReverseCashback
  <2>1. WorldOK'
    BY DEF WorldOK
  <2>2. RowsOK'
    BY DEF RowsOK, JobsAreOrders, HandlersOK, Post, Kinds
  <2>3. Typed'
    BY <1>t, PostTyped DEF Typed, HandlersOK, JobsAreOrders, Labels, NoJob
  <2>4. CheckoutIsAlone'
    BY DEF CheckoutIsAlone, Post, HandlersOK, JobsAreOrders, Rivals
  <2>5. WorkIsPaid'
    BY DEF WorkIsPaid, Post, HandlersOK, JobsAreOrders, Rivals
  <2>6. RewardIsPosted'
    BY DEF RewardIsPosted, Post, HandlersOK, JobsAreOrders, Rivals, RowsOK
  <2>7. NoPaymentNoBenefit'
    BY DEF NoPaymentNoBenefit, WorkIsPaid, RowsOK, HandlersOK, JobsAreOrders, Post
  <2>8. RewardBeforeReversal'
    BY DEF RewardBeforeReversal, RewardIsPosted, RowsOK, Post
  <2> QED BY <2>1, <2>2, <2>3, <2>4, <2>5, <2>6, <2>7, <2>8 DEF Typed
<1>4. CASE ReverseCashbackId(p)
  <2> USE <1>4 DEF ReverseCashbackId
  <2>1. (WorldOK /\ NoPaymentNoBenefit /\ RewardBeforeReversal)'
    BY DEF WorldOK, NoPaymentNoBenefit, RewardBeforeReversal
  <2>2. RowsOK'
    BY RowWrites DEF RowsOK, JobsAreOrders, HandlersOK
  <2>3. Typed'
    BY <1>t, GotoTyped DEF Typed, HandlersOK, JobsAreOrders, Labels, NoJob
  <2>4. CheckoutIsAlone'
    BY DEF CheckoutIsAlone, Goto, HandlersOK, JobsAreOrders, RowsOK, OrderRow
  <2>5. WorkIsPaid'
    BY RowPayloads DEF WorkIsPaid, Goto, HandlersOK, JobsAreOrders, RowsOK, OrderRow
  <2>6. RewardIsPosted'
    BY DEF RewardIsPosted, Goto, HandlersOK, JobsAreOrders
  <2> QED BY <2>1, <2>2, <2>3, <2>4, <2>5, <2>6 DEF Typed
<1>5. CASE RefundReferral(p)
  <2> USE <1>5 DEF RefundReferral
  <2>1. (RowsOK /\ WorldOK /\ NoPaymentNoBenefit /\ RewardBeforeReversal)'
    BY DEF RowsOK, WorldOK, NoPaymentNoBenefit, RewardBeforeReversal
  <2>2. Typed'
    BY <1>t, GotoTyped DEF Typed, HandlersOK, JobsAreOrders, Labels, NoJob
  <2>3. CheckoutIsAlone'
    BY DEF CheckoutIsAlone, Goto, HandlersOK, JobsAreOrders
  <2>4. WorkIsPaid'
    BY DEF WorkIsPaid, Goto, HandlersOK, JobsAreOrders
  <2>5. RewardIsPosted'
    BY DEF RewardIsPosted, Goto, HandlersOK, JobsAreOrders
  <2> QED BY <2>1, <2>2, <2>3, <2>4, <2>5 DEF Typed
<1>6. CASE ReverseReward(p)
  <2> USE <1>6 DEF ReverseReward
  <2>1. WorldOK'
    BY DEF WorldOK
  <2>2. RowsOK'
    BY DEF RowsOK, JobsAreOrders, HandlersOK, Post, Kinds
  <2>3. Typed'
    BY <1>t, PostTyped DEF Typed, HandlersOK, JobsAreOrders, Labels, NoJob
  <2>4. CheckoutIsAlone'
    BY DEF CheckoutIsAlone, Post, HandlersOK, JobsAreOrders, Rivals
  <2>5. WorkIsPaid'
    BY DEF WorkIsPaid, Post, HandlersOK, JobsAreOrders, Rivals
  <2>6. RewardIsPosted'
    BY DEF RewardIsPosted, Post, HandlersOK, JobsAreOrders, Rivals, RowsOK
  <2>7. NoPaymentNoBenefit'
    BY DEF NoPaymentNoBenefit, WorkIsPaid, RowsOK, HandlersOK, JobsAreOrders, Post
  <2>8. RewardBeforeReversal'
    BY DEF RewardBeforeReversal, RewardIsPosted, RowsOK, Post
  <2> QED BY <2>1, <2>2, <2>3, <2>4, <2>5, <2>6, <2>7, <2>8 DEF Typed
<1>7. CASE RefundReferralSave(p)
  <2> USE <1>7 DEF RefundReferralSave
  <2>1. (WorldOK /\ RewardBeforeReversal)'
    BY DEF WorldOK, RewardBeforeReversal
  <2>2. RowsOK'
    BY DEF RowsOK, JobsAreOrders, HandlersOK
  <2>3. Typed'
    BY <1>t, GotoTyped DEF Typed, HandlersOK, JobsAreOrders, Labels, NoJob
  <2>4. CheckoutIsAlone'
    BY DEF CheckoutIsAlone, Goto, HandlersOK, JobsAreOrders
  <2>5. WorkIsPaid'
    BY DEF WorkIsPaid, Goto, HandlersOK, JobsAreOrders
  <2>6. RewardIsPosted'
    BY DEF RewardIsPosted, Goto, HandlersOK, JobsAreOrders, RowsOK
  <2>7. NoPaymentNoBenefit'
    BY DEF NoPaymentNoBenefit, WorkIsPaid, RowsOK, HandlersOK, JobsAreOrders
  <2> QED BY <2>1, <2>2, <2>3, <2>4, <2>5, <2>6, <2>7 DEF Typed
<1>8. CASE GiveBack(p)
  <2> USE <1>8 DEF GiveBack
  <2>n. Share(job[p], amt[p]) \in Nat
    BY ShareIsPart DEF HandlersOK, JobsAreOrders
  <2>1. (WorldOK /\ NoPaymentNoBenefit /\ RewardBeforeReversal)'
    BY DEF WorldOK, NoPaymentNoBenefit, RewardBeforeReversal
  <2>2. RowsOK'
    BY SMTT(30), <2>n DEF RowsOK, JobsAreOrders, HandlersOK
  <2>3. Typed'
    BY <1>t, GotoTyped DEF Typed, HandlersOK, JobsAreOrders, Labels, NoJob
  <2>4. CheckoutIsAlone'
    BY DEF CheckoutIsAlone, Goto, HandlersOK, JobsAreOrders
  <2>5. WorkIsPaid'
    BY DEF WorkIsPaid, Goto, HandlersOK, JobsAreOrders
  <2>6. RewardIsPosted'
    BY DEF RewardIsPosted, Goto, HandlersOK, JobsAreOrders
  <2> QED BY <2>1, <2>2, <2>3, <2>4, <2>5, <2>6 DEF Typed
<1>10. CASE CreditCash(p)
  <2> USE <1>10 DEF CreditCash
  <2>n. amt[p] - Share(job[p], amt[p]) \in Nat
    BY ShareIsPart DEF HandlersOK, JobsAreOrders
  <2>1. (WorldOK /\ NoPaymentNoBenefit /\ RewardBeforeReversal)'
    BY DEF WorldOK, NoPaymentNoBenefit, RewardBeforeReversal
  <2>2. RowsOK'
    BY SMTT(30), <2>n DEF RowsOK, JobsAreOrders, HandlersOK
  <2>3. Typed'
    BY <1>t, GotoTyped DEF Typed, HandlersOK, JobsAreOrders, Labels, NoJob
  <2>4. CheckoutIsAlone'
    BY DEF CheckoutIsAlone, Goto, HandlersOK, JobsAreOrders
  <2>5. WorkIsPaid'
    BY DEF WorkIsPaid, Goto, HandlersOK, JobsAreOrders
  <2>6. RewardIsPosted'
    BY DEF RewardIsPosted, Goto, HandlersOK, JobsAreOrders
  <2> QED BY <2>1, <2>2, <2>3, <2>4, <2>5, <2>6 DEF Typed
<1>9. CASE Refunded(p)
  <2> USE <1>9 DEF Refunded
  <2>n. seen[p].refunded + amt[p] \in Nat
    BY DEF HandlersOK, OrderRow
  <2>r. \A q \in Orders : order'[q].status = "none" => order[q].status = "none"
    BY DEF RowsOK, HandlersOK, JobsAreOrders, OrderRow
  <2>k. \A q \in Procs : pc'[q] \in Creating => pc[q] \in Creating /\ job'[q] = job[q]
    BY DEF HandlersOK, Finish
  <2>u. UNCHANGED payment
    OBVIOUS
  <2>1. (WorldOK /\ NoPaymentNoBenefit /\ RewardBeforeReversal)'
    BY DEF WorldOK, NoPaymentNoBenefit, RewardBeforeReversal
  <2>2. RowsOK'
    BY ZenonT(30), <2>n, RowWrites DEF RowsOK, JobsAreOrders, HandlersOK
  <2>3. Typed'
    BY <1>t, FinishTyped DEF Typed, HandlersOK, JobsAreOrders, Labels, NoJob
  <2>4. CheckoutIsAlone'
    <3> HIDE <1>9 DEF Refunded
    <3> QED BY <2>r, <2>k, <2>u DEF CheckoutIsAlone, JobsAreOrders
  <2>5. WorkIsPaid'
    BY RowPayloads DEF WorkIsPaid, Finish, HandlersOK, JobsAreOrders, RowsOK, OrderRow
  <2>6. RewardIsPosted'
    BY DEF RewardIsPosted, Finish, HandlersOK, JobsAreOrders
  <2> QED BY <2>1, <2>2, <2>3, <2>4, <2>5, <2>6 DEF Typed
<1> QED BY <1>1, <1>2, <1>3, <1>4, <1>5, <1>6, <1>7, <1>8, <1>9, <1>10

\* Handlers stop and skip.
LEMMA FailureKeepsInv ==
  ASSUME NEW p \in Procs, IInv,
         \/ Stop(p) \/ Skip(p)
  PROVE  IInv'
<1> USE OrderAssumption DEF Creating, Finalizing, Refunding, Settled, IInv, TypeOK, At,
   goods, rows, world
<1>t. Typed
  BY DEF Typed
<1>1. CASE Stop(p)
  <2> USE <1>1 DEF Stop
  <2>1. (RowsOK /\ NoPaymentNoBenefit /\ RewardBeforeReversal)'
    BY DEF RowsOK, NoPaymentNoBenefit, RewardBeforeReversal
  <2>2. WorldOK'
    BY DEF WorldOK
  <2>3. Typed'
    BY <1>t, FinishTyped DEF Typed, HandlersOK, JobsAreOrders, Labels, NoJob
  <2>4. CheckoutIsAlone'
    BY DEF CheckoutIsAlone, Finish, HandlersOK, JobsAreOrders
  <2>5. WorkIsPaid'
    BY DEF WorkIsPaid, Finish, HandlersOK, JobsAreOrders
  <2>6. RewardIsPosted'
    BY DEF RewardIsPosted, Finish, HandlersOK, JobsAreOrders
  <2> QED BY <2>1, <2>2, <2>3, <2>4, <2>5, <2>6 DEF Typed
<1>2. CASE Skip(p)
  <2> USE <1>2 DEF Skip, AfterRelease, Rest
  <2>1. (RowsOK /\ NoPaymentNoBenefit /\ RewardBeforeReversal)'
    BY DEF RowsOK, NoPaymentNoBenefit, RewardBeforeReversal
  <2>2. WorldOK'
    BY DEF WorldOK
  <2>3. Typed'
    BY <1>t, GotoTyped, FinishTyped DEF Typed, HandlersOK, JobsAreOrders, Labels, NoJob
  <2>4. CheckoutIsAlone'
    BY DEF CheckoutIsAlone, Goto, Finish, HandlersOK, JobsAreOrders
  <2>5. WorkIsPaid'
    BY DEF WorkIsPaid, Goto, Finish, HandlersOK, JobsAreOrders
  <2>6. RewardIsPosted'
    BY DEF RewardIsPosted, Goto, Finish, HandlersOK, JobsAreOrders
  <2> QED BY <2>1, <2>2, <2>3, <2>4, <2>5, <2>6 DEF Typed
<1> QED BY <1>1, <1>2

\* The buyer pays and time passes.
LEMMA BuyerKeepsInv ==
  ASSUME NEW o \in Orders, IInv,
         \/ Pay(o) \/ GrowOld(o)
  PROVE  IInv'
<1> USE OrderAssumption DEF Creating, Finalizing, Refunding, Settled, IInv, TypeOK, At,
   goods, rows, world
<1>t. Typed
  BY DEF Typed
<1>1. CASE Pay(o)
  <2> USE <1>1 DEF Pay
  <2>1. RewardBeforeReversal'
    BY DEF RewardBeforeReversal
  <2>2. RowsOK'
    BY DEF RowsOK
  <2>3. WorldOK'
    BY DEF WorldOK
  <2>4. Typed'
    BY <1>t DEF Typed, HandlersOK, JobsAreOrders, Labels
  <2>5. CheckoutIsAlone'
    BY DEF CheckoutIsAlone, HandlersOK, JobsAreOrders, RowsOK, OrderRow
  <2>6. WorkIsPaid'
    BY DEF WorkIsPaid, HandlersOK, JobsAreOrders, CheckoutIsAlone, RowsOK, OrderRow
  <2>7. RewardIsPosted'
    BY DEF RewardIsPosted, HandlersOK, JobsAreOrders
  <2>8. NoPaymentNoBenefit'
    BY DEF NoPaymentNoBenefit, WorldOK
  <2> QED BY <2>1, <2>2, <2>3, <2>4, <2>5, <2>6, <2>7, <2>8 DEF Typed
<1>2. CASE GrowOld(o)
  <2> USE <1>2 DEF GrowOld
  <2>1. (RowsOK /\ NoPaymentNoBenefit /\ RewardBeforeReversal)'
    BY DEF RowsOK, NoPaymentNoBenefit, RewardBeforeReversal
  <2>2. WorldOK'
    BY DEF WorldOK
  <2>3. Typed'
    BY <1>t DEF Typed, HandlersOK, JobsAreOrders, Labels
  <2>4. CheckoutIsAlone'
    BY DEF CheckoutIsAlone, HandlersOK, JobsAreOrders
  <2>5. WorkIsPaid'
    BY DEF WorkIsPaid, HandlersOK, JobsAreOrders
  <2>6. RewardIsPosted'
    BY DEF RewardIsPosted, HandlersOK, JobsAreOrders
  <2> QED BY <2>1, <2>2, <2>3, <2>4, <2>5, <2>6 DEF Typed
<1> QED BY <1>1, <1>2

LEMMA StepKeepsInv == IInv /\ [Next]_vars => IInv'
<1> SUFFICES ASSUME IInv, [Next]_vars
             PROVE  IInv'
  OBVIOUS
<1>1. CASE UNCHANGED vars
  BY <1>1 DEF vars, rows, world, goods, IInv, TypeOK, RowsOK, WorldOK, HandlersOK,
     JobsAreOrders,
     CheckoutIsAlone, WorkIsPaid, RewardIsPosted, NoPaymentNoBenefit, RewardBeforeReversal
<1>2. ASSUME NEW o \in Orders, Pay(o) \/ GrowOld(o)
      PROVE  IInv'
  BY <1>2, BuyerKeepsInv
<1>3. ASSUME NEW p \in Procs, Statement(p)
      PROVE  IInv'
  BY <1>3, CheckoutKeepsInv, FinalizeKeepsInv, CancelKeepsInv, RefundKeepsInv DEF Statement
<1>4. ASSUME NEW p \in Procs, Stop(p) \/ Skip(p)
      PROVE  IInv'
  BY <1>4, FailureKeepsInv
<1>5. ASSUME NEW p \in Procs, NEW o \in Orders, CreateOrder(p, o) \/ Ipn(p, o) \/ Cancel(p, o)
      PROVE  IInv'
  BY <1>5, RequestKeepsInv
<1>6. ASSUME NEW p \in Procs, NEW o \in Orders, NEW a \in Amounts, Refund(p, o, a)
      PROVE  IInv'
  BY <1>6, RefundRequestKeepsInv
<1>7. CASE CronJob
  BY <1>7, CronKeepsInv, CronNextKeepsInv DEF CronJob
<1>8. CASE ExpireHolds
  BY <1>8, CronKeepsInv
<1> QED BY <1>1, <1>2, <1>3, <1>4, <1>5, <1>6, <1>7, <1>8 DEF Next
-----------------------------------------------------------------------------
(* What holds for every number of orders and handlers.                       *)

\* The inductive invariant.
THEOREM LifecycleInvariant == Spec => []IInv
<1>1. Init => IInv
  BY InitInv
<1>2. IInv /\ [Next]_vars => IInv'
  BY StepKeepsInv
<1> QED BY <1>1, <1>2, PTL DEF Spec

\* Every variable keeps its type.
THEOREM LifecycleTypes == Spec => []TypeOK
<1>1. IInv => TypeOK
  BY DEF IInv
<1> QED BY <1>1, LifecycleInvariant, PTL

\* Nothing goes out, and nothing is refunded, for an order its buyer did not pay,
\* however callbacks, cancels, crons and refunds overlap.
THEOREM PaymentComesFirst == Spec => []NoPaymentNoBenefit
<1>1. IInv => NoPaymentNoBenefit
  BY DEF IInv
<1> QED BY <1>1, LifecycleInvariant, PTL

\* A referrer only gives back a reward that was credited.
THEOREM RewardComesFirst == Spec => []RewardBeforeReversal
<1>1. IInv => RewardBeforeReversal
  BY DEF IInv
<1> QED BY <1>1, LifecycleInvariant, PTL
-----------------------------------------------------------------------------
(* One handler at a time (~Overlap): the promise of OrderPromise is kept, and *)
(* an order at rest is complete.                                            *)

Granting == Finalizing \ {"markRead", "markWrite"}
Releasing == {"relRead", "relSave", "couponBack", "revRead", "revSave"}

\* One handler at a time: the others are idle and two never post the same key. Only the
\* cron keeps a list.
Alone ==
  /\ \A p, q \in Procs : pc[p] # "idle" /\ pc[q] # "idle" => p = q
  /\ \A p \in Procs : pc[p] # "conflict"
  /\ \A p \in Procs : p \in Slots \/ pc[p] = "idle" => batch[p] = {}

\* The list of the cron: pending orders, which it then fails and works off one by one.
Listed ==
  /\ \A o \in batch[Cron] :
       order[o].status = IF pc[Cron] = "cronFail" THEN "pending" ELSE "failed"
  /\ pc[Cron] \notin NoJob => job[Cron] \notin batch[Cron]
  /\ pc[Cron] \in NoJob \cup Releasing

\* Nothing moved yet for an order that is not paid.
Untouched(o) ==
  /\ \A k \in Kinds : <<k, o>> \notin posted
  /\ ~order[o].cashbackTx
  /\ delivered[o] = 0 /\ applied[o] = 0
  /\ hold[o] # "captured" /\ referral[o] # "credited"

OrderOK(o) ==
  /\ order[o].status \notin Settled => Untouched(o)
  /\ order[o].status = "none" => hold[o] = "none" /\ referral[o] = "none"
  /\ order[o].status = "pending" => hold[o] # "released"
  /\ o \in WithWallet /\ payment[o] # "none" => hold[o] # "none"
  /\ hold[o] = "captured" <=> <<"capture", o>> \in posted
  /\ o \notin Referred => referral[o] = "none" /\ <<"reward", o>> \notin posted
  /\ order[o].cashbackRev => <<"cashback_reversal", o>> \in posted

\* What a handler relies on at each of its places: the row it works on did not change
\* since it looked, and what it is about to send was not sent.
PlaceOK(p) ==
  LET o == job[p] IN
  /\ pc[p] \in Creating \cup {"markRead", "markWrite", "failRead", "failWrite"}
       => order[o].status = "pending"
  /\ pc[p] \in Granting => order[o].status = "paid" /\ applied[o] = 0
  /\ pc[p] \in Releasing => order[o].status = "failed"
  /\ pc[p] \in Refunding => order[o].status \in Settled
  /\ pc[p] \in {"markWrite", "failWrite", "recall", "refund"} => seen[p] = order[o]
  /\ pc[p] \in {"referral", "hold"} => hold[o] = "none"
  /\ pc[p] = "referral" => o \in Referred
  /\ pc[p] = "rvCashId" => <<"cashback_reversal", o>> \in posted
  /\ pc[p] = "coupon" => o \in Couponed
  /\ pc[p] \in {"capSave", "relSave"} => hold[o] = "held"
  /\ pc[p] = "offer" /\ o \in WithWallet => hold[o] = "held"
  /\ pc[p] = "capRead" => hold[o] \in {"held", "expired"}
  /\ pc[p] \in Granting \ {"capRead", "capSave"} /\ o \in WithWallet =>
       <<"capture", o>> \in posted \/ hold[o] = "expired"
  /\ pc[p] \in {"reward", "revSave"} => referral[o] = "pending"
  /\ pc[p] \in {"rewardSave", "rvSave", "rvReward"} => o \in Referred
  /\ pc[p] \in {"capRead", "capSave", "cashback"} =>
       <<"cashback", o>> \notin posted /\ ~seen[p].cashbackTx
  /\ pc[p] \in {"capRead", "capSave", "cashback", "cashbackId", "refRead", "reward"} =>
       <<"reward", o>> \notin posted
  /\ pc[p] \in Granting \ {"coupon"} => delivered[o] = 0

SerialInv ==
  /\ Alone /\ Listed
  /\ \A o \in Orders : OrderOK(o)
  /\ \A p \in Procs : PlaceOK(p)

\* The sums of an order's refunds agree, and are not more than was paid.
SumsOK(o) == /\ order[o].refunded = refundRows[o]
             /\ refundRows[o] <= Value(o) /\ returned[o] <= refundRows[o]

\* An order on which no handler works has all the effects of its status.
Complete(o) ==
  /\ order[o].status = "pending" /\ o \in Referred => referral[o] = "pending"
  /\ order[o].status = "paid" => PaidInFull(o)
  /\ order[o].status = "refunded" => RefundedInFull(o)
  /\ order[o].status = "failed" => Released(o)
  /\ SumsOK(o)

Working(p, o) ==
  \/ pc[p] \notin NoJob /\ job[p] = o
  \/ pc[p] # "cronFail" /\ o \in batch[p]

\* What a handler has done of its work at each place, if none stopped so far.
DoneAt(p) ==
  LET o == job[p] IN
  /\ pc[p] \in {"cancel", "recall", "refund"} => Complete(o)
  /\ pc[p] \in {"hold", "offer", "markRead", "markWrite", "capRead", "capSave", "cashback",
                "cashbackId", "refRead"} /\ o \in Referred => referral[o] = "pending"
  /\ pc[p] \in {"cashbackId", "refRead", "reward", "rewardSave", "submit", "coupon"} =>
       o \in CodesOnly \/ <<"cashback", o>> \in posted
  /\ pc[p] \in {"refRead", "reward", "rewardSave", "submit", "coupon"} =>
       o \in CodesOnly \/ order[o].cashbackTx
  /\ pc[p] \in {"submit", "coupon"} /\ o \in Referred =>
       <<"reward", o>> \in posted /\ referral[o] = "credited"
  /\ pc[p] = "coupon" => delivered[o] = 1
  /\ pc[p] \in {"couponBack", "revRead", "revSave"} => hold[o] \notin {"held", "captured"}
  /\ pc[p] \notin NoJob \cup Refunding => SumsOK(o)
  /\ pc[p] \in Refunding =>
       /\ refundRows[o] = order[o].refunded + amt[p] /\ refundRows[o] <= Value(o)
       /\ seen[p].refunded = order[o].refunded
       /\ returned[o] <= CASE pc[p] = "refunded" -> refundRows[o]
                          [] pc[p] = "creditCash" -> order[o].refunded + Share(o, amt[p])
                          [] OTHER -> order[o].refunded
  /\ pc[p] \in {"rvCash", "rvCashId", "rvRead"} =>
       /\ order[o].status = "paid" => PaidInFull(o)
       /\ order[o].status = "refunded" => RefundedInFull(o)
  /\ pc[p] \in Refunding \cup {"refund"} => recalled[o]
  /\ pc[p] \in Refunding \ {"rvCash"} => o \in CodesOnly \/ <<"cashback_reversal", o>> \in posted
  /\ pc[p] \in {"rvReward", "rvSave", "giveBack", "creditCash", "refunded"} =>
       o \in CodesOnly \/ <<"cashback", o>> \in posted
  /\ pc[p] \in {"rvSave", "giveBack", "creditCash", "refunded"} /\ <<"reward", o>> \in posted =>
       <<"reward_reversal", o>> \in posted
  /\ pc[p] \in {"giveBack", "creditCash", "refunded"} => referral[o] \notin {"pending", "credited"}

CompleteInv ==
  faults = 0 =>
    /\ \A o \in Orders : (\A p \in Procs : ~Working(p, o)) => Complete(o)
    /\ \A p \in Procs : DoneAt(p)
    /\ pc[Cron] # "cronFail" => \A o \in batch[Cron] : SumsOK(o)

\* The step leaves everything that order o has as it is.
Same(o) ==
  /\ order'[o] = order[o] /\ hold'[o] = hold[o] /\ referral'[o] = referral[o]
  /\ \A k \in Kinds : <<k, o>> \in posted' <=> <<k, o>> \in posted
  /\ refundRows'[o] = refundRows[o] /\ returned'[o] = returned[o]
  /\ applied'[o] = applied[o] /\ delivered'[o] = delivered[o]
  /\ recalled'[o] = recalled[o] /\ payment'[o] = payment[o]

\* What is said of an order stays true of one that is left alone.
LEMMA SameIsOK ==
  ASSUME NEW o \in Orders, Same(o)
  PROVE  /\ OrderOK(o) => OrderOK(o)'
         /\ SumsOK(o) => SumsOK(o)'
         /\ Complete(o) => Complete(o)'
<1>1. OrderOK(o) => OrderOK(o)'
  BY DEF Same, OrderOK, Untouched, Kinds
<1>2. SumsOK(o) => SumsOK(o)'
  BY DEF Same, SumsOK
<1>3. Complete(o) => Complete(o)'
  <2>1. /\ PaidInFull(o) => PaidInFull(o)'
        /\ RefundedInFull(o) => RefundedInFull(o)'
        /\ Released(o) => Released(o)'
    BY DEF Same, PaidInFull, RefundedInFull, Released, Kinds
  <2> QED BY <1>2, <2>1 DEF Same, Complete
<1> QED BY <1>1, <1>2, <1>3

\* Every handler but p is idle, before the step and after it.
Only(p) == \A q \in Procs \ {p} : /\ pc[q] = "idle" /\ pc'[q] = "idle"
                                  /\ batch[q] = {} /\ batch'[q] = {}

\* An idle handler relies on nothing.
LEMMA IdleIsOK ==
  /\ \A p \in Procs : pc[p] = "idle" => PlaceOK(p) /\ DoneAt(p)
  /\ \A p \in Procs : pc'[p] = "idle" => PlaceOK(p)' /\ DoneAt(p)'
  BY DEF PlaceOK, DoneAt, Creating, Finalizing, Granting, Releasing, Refunding, NoJob

\* Handler p is at one of the places L now.
Went(p, L) == /\ Only(p) /\ pc'[p] \in L /\ batch'[p] = batch[p]
              /\ job'[p] = job[p] /\ faults' = faults

\* A handler goes on with its order, which alone changes.
LEMMA GoesOn ==
  ASSUME SerialInv, CompleteInv, NEW p \in Procs, NEW o \in Orders, job[p] = o,
         NEW L, Went(p, L), L \cap NoJob = {}, "conflict" \notin L, pc[p] \notin NoJob,
         \A q \in Orders \ {o} : Same(q), Same(o) \/ OrderOK(o)',
         PlaceOK(p)', faults = 0 => DoneAt(p)', batch[p] \subseteq Orders,
         p = Cron => L \subseteq Releasing
  PROVE  SerialInv' /\ CompleteInv'
<1>1. Alone'
  BY DEF SerialInv, Alone, Only, Went, NoJob
<1>2. Listed'
  BY DEF SerialInv, Listed, Only, Went, Same, NoJob, Procs
<1>3. ASSUME NEW q \in Orders
      PROVE  OrderOK(q)'
  BY SameIsOK DEF SerialInv
<1>4. \A q \in Procs : PlaceOK(q)' /\ (faults = 0 => DoneAt(q)')
  BY IdleIsOK DEF Only, Went
<1>5. ASSUME faults' = 0
      PROVE  /\ \A x \in Orders : (\A q \in Procs : ~Working(q, x)') => Complete(x)'
             /\ pc'[Cron] # "cronFail" => \A x \in batch'[Cron] : SumsOK(x)'
  <2>1. faults = 0
    BY <1>5 DEF Went
  <2>2. ASSUME NEW x \in Orders, \A q \in Procs : ~Working(q, x)'
        PROVE  Complete(x)'
    <3>1. x # o /\ x \notin batch[p]
      BY <2>2 DEF Working, Went, NoJob
    <3>2. \A q \in Procs : ~Working(q, x)
      BY <3>1 DEF Working, Went, Only, NoJob
    <3>3. Complete(x)
      BY <2>1, <3>2 DEF CompleteInv
    <3> QED BY <3>1, <3>3, SameIsOK
  <2>3. ASSUME NEW x \in batch'[Cron]
        PROVE  SumsOK(x)'
    <3>1. p = Cron /\ x \in batch[Cron] /\ x # o /\ pc[Cron] # "cronFail"
      BY <2>3 DEF Went, Only, SerialInv, Listed, NoJob, Procs
    <3>2. SumsOK(x) /\ x \in Orders
      BY <2>1, <3>1 DEF CompleteInv
    <3> QED BY <3>1, <3>2, SameIsOK
  <2> QED BY <2>2, <2>3
<1> QED BY <1>1, <1>2, <1>3, <1>4, <1>5 DEF SerialInv, CompleteInv, Went

\* A handler is done with its order, or stops.
LEMMA Finishes ==
  ASSUME SerialInv, CompleteInv, NEW p \in Procs, NEW o \in Orders \cup {NoOrder},
         Only(p), pc'[p] = "idle", batch'[p] = {}, faults \in Nat,
         \/ faults' = faults /\ batch[p] = {} /\ pc[p] \notin NoJob /\ job[p] = o
         \/ faults' = faults + 1,
         \A q \in Orders \ {o} : Same(q),
         o \in Orders => Same(o) \/ OrderOK(o)',
         o \in Orders /\ faults' = 0 => Complete(o)'
  PROVE  SerialInv' /\ CompleteInv'
<1>1. Alone'
  BY DEF SerialInv, Alone, Only
<1>2. Listed'
  BY DEF Listed, Only, NoJob, Procs
<1>3. ASSUME NEW q \in Orders
      PROVE  OrderOK(q)'
  BY SameIsOK DEF SerialInv
<1>4. \A q \in Procs : PlaceOK(q)' /\ DoneAt(q)'
  BY IdleIsOK DEF Only
<1>5. ASSUME faults' = 0, NEW x \in Orders
      PROVE  Complete(x)'
  <2>1. faults = 0 /\ batch[p] = {} /\ job[p] = o
    BY <1>5
  <2>2. CASE x # o
    <3>1. \A q \in Procs : ~Working(q, x)
      BY <2>1, <2>2 DEF Working, Only, NoJob
    <3>2. Complete(x)
      BY <2>1, <3>1 DEF CompleteInv
    <3> QED BY <2>2, <3>2, SameIsOK
  <2> QED BY <1>5, <2>2
<1>6. batch'[Cron] = {}
  BY DEF Only, Procs
<1> QED BY <1>1, <1>2, <1>3, <1>4, <1>5, <1>6 DEF SerialInv, CompleteInv

\* A request starts a handler.
LEMMA Starts ==
  ASSUME SerialInv, CompleteInv, NEW p \in Slots, NEW o \in Orders, NEW L, Only(p),
         pc[p] = "idle", batch[p] = {}, batch'[p] = {}, pc'[p] \in L, faults' = faults,
         L \cap NoJob = {}, "conflict" \notin L, job'[p] = o,
         \A q \in Orders \ {o} : Same(q), Same(o) \/ OrderOK(o)',
         PlaceOK(p)', faults = 0 => DoneAt(p)'
  PROVE  SerialInv' /\ CompleteInv'
<1> p \in Procs /\ p # Cron
  BY OrderAssumption DEF Procs
<1>1. Alone'
  BY DEF SerialInv, Alone, Only, NoJob
<1>2. Listed'
  BY DEF Listed, Only, NoJob, Procs
<1>3. ASSUME NEW q \in Orders
      PROVE  OrderOK(q)'
  BY SameIsOK DEF SerialInv
<1>4. \A q \in Procs : PlaceOK(q)' /\ (faults = 0 => DoneAt(q)')
  BY IdleIsOK DEF Only
<1>5. ASSUME faults' = 0, NEW x \in Orders, \A q \in Procs : ~Working(q, x)'
      PROVE  Complete(x)'
  <2>1. x # o
    BY <1>5 DEF Working, NoJob
  <2>2. \A q \in Procs : ~Working(q, x)
    BY DEF Working, Only, NoJob
  <2>3. Complete(x)
    BY <1>5, <2>2 DEF CompleteInv
  <2> QED BY <2>1, <2>3, SameIsOK
<1>6. batch'[Cron] = {}
  BY DEF Only, Procs
<1> QED BY <1>1, <1>2, <1>3, <1>4, <1>5, <1>6 DEF SerialInv, CompleteInv

\* With one handler at a time nobody loses the race for a key.
LEMMA PostIsGoto ==
  ASSUME Alone, NEW p \in Procs, NEW k, NEW l, HandlersOK, pc[p] # "idle", Post(p, k, l)
  PROVE  Goto(p, l) /\ posted' = posted \cup {<<k, job[p]>>}
<1>1. Rivals(p) = {}
  BY DEF Rivals, Alone
<1> QED BY <1>1 DEF Post, Goto, HandlersOK

\* The forms of a step, with one handler at a time.
LEMMA GotoAlone ==
  ASSUME Alone, HandlersOK, NEW p \in Procs, NEW l, pc[p] # "idle", Goto(p, l)
  PROVE  /\ Only(p) /\ pc'[p] = l /\ batch'[p] = batch[p]
         /\ job'[p] = job[p] /\ seen'[p] = seen[p] /\ amt'[p] = amt[p]
  BY DEF Alone, Only, Goto, HandlersOK

LEMMA GotoSeenAlone ==
  ASSUME Alone, HandlersOK, NEW p \in Procs, NEW l, NEW row, pc[p] # "idle", GotoSeen(p, l, row)
  PROVE  /\ Only(p) /\ pc'[p] = l /\ batch'[p] = batch[p]
         /\ job'[p] = job[p] /\ seen'[p] = row /\ amt'[p] = amt[p]
  BY DEF Alone, Only, GotoSeen, HandlersOK

LEMMA FinishAlone ==
  ASSUME Alone, HandlersOK, NEW p \in Procs, pc[p] # "idle", Finish(p)
  PROVE  Only(p) /\ pc'[p] = "idle" /\ batch'[p] = {}
  BY DEF Alone, Only, Finish, HandlersOK

LEMMA StartAlone ==
  ASSUME ~Overlap, Alone, HandlersOK, NEW p \in Procs, NEW l, NEW o, Start(p, l, o)
  PROVE  /\ Only(p) /\ pc[p] = "idle" /\ batch[p] = {} /\ batch'[p] = {} /\ pc'[p] = l
         /\ job'[p] = o /\ seen'[p] = seen[p] /\ \A q \in Procs, x \in Orders : ~Working(q, x)
  BY DEF Alone, Only, Start, Ready, Quiet, HandlersOK, Working, NoJob

\* What the writes of a column leave alone.
LEMMA RowFields ==
  ASSUME NEW f \in [Orders -> OrderRow], NEW o \in Orders, NEW g
  PROVE  /\ \A s : g = [f EXCEPT ![o].status = s] =>
              /\ g[o].status = s /\ g[o].cashbackTx = f[o].cashbackTx
              /\ g[o].cashbackRev = f[o].cashbackRev /\ g[o].refunded = f[o].refunded
              /\ \A q \in Orders : q # o => g[q] = f[q]
         /\ g = [f EXCEPT ![o].cashbackTx = TRUE] =>
              /\ g[o].status = f[o].status /\ g[o].cashbackTx
              /\ g[o].cashbackRev = f[o].cashbackRev /\ g[o].refunded = f[o].refunded
              /\ \A q \in Orders : q # o => g[q] = f[q]
         /\ g = [f EXCEPT ![o].cashbackRev = TRUE] =>
              /\ g[o].status = f[o].status /\ g[o].cashbackTx = f[o].cashbackTx
              /\ g[o].cashbackRev /\ g[o].refunded = f[o].refunded
              /\ \A q \in Orders : q # o => g[q] = f[q]
         /\ \A s, n : g = [f EXCEPT ![o].status = s, ![o].refunded = n] =>
              /\ g[o].status = s /\ g[o].cashbackTx = f[o].cashbackTx
              /\ g[o].cashbackRev = f[o].cashbackRev /\ g[o].refunded = n
              /\ \A q \in Orders : q # o => g[q] = f[q]
  BY DEF OrderRow

\* A whole row written back.
LEMMA RowWhole ==
  ASSUME NEW r \in OrderRow
  PROVE  /\ Paid(r).status = "paid" /\ Paid(r).cashbackTx = r.cashbackTx
         /\ Paid(r).cashbackRev = r.cashbackRev /\ Paid(r).refunded = r.refunded
         /\ Failed(r).status = "failed" /\ Failed(r).cashbackTx = r.cashbackTx
         /\ Failed(r).cashbackRev = r.cashbackRev /\ Failed(r).refunded = r.refunded
  BY DEF OrderRow, Paid, Failed

\* Checkout.
LEMMA CheckoutKeepsSerial ==
  ASSUME ~Overlap, NEW p \in Procs, IInv, SerialInv, CompleteInv,
         \/ CreateReferral(p) \/ CreateHold(p) \/ Offer(p)
  PROVE  SerialInv' /\ CompleteInv'
<1> USE DEF At, goods, rows, world, NoJob, Settled, Creating, Finalizing, Granting,
            Releasing, Refunding
<1>a. /\ HandlersOK /\ RowsOK /\ WorldOK /\ JobsAreOrders /\ WorkIsPaid /\ RewardIsPosted
      /\ Alone /\ Listed /\ faults \in Nat
      /\ PlaceOK(p) /\ (faults = 0 => DoneAt(p)) /\ \A q \in Orders : OrderOK(q)
  BY OrderAssumption DEF IInv, TypeOK, SerialInv, CompleteInv, WorldOK
<1>b. batch[p] \subseteq Orders /\ SerialInv /\ CompleteInv
  BY <1>a DEF HandlersOK
<1>c. p \in Slots => batch[p] = {}
  BY <1>a DEF Alone
<1>1. CASE CreateReferral(p)
  <2>0. PICK o \in Orders : o = job[p] /\ pc[p] = "referral" /\ p \in Slots /\ p # Cron
    BY <1>1, <1>a DEF CreateReferral, JobsAreOrders, Listed, Procs
  <2>1. Went(p, {"hold", "offer"}) /\ seen'[p] = seen[p] /\ amt'[p] = amt[p]
        /\ (pc'[p] = "offer" => o \notin WithWallet)
    BY <1>1, <1>a, <2>0, GotoAlone DEF CreateReferral, AfterReferral, Went
  <2>2. /\ \A q \in Orders \ {o} : Same(q)
        /\ referral'[o] = "pending"
        /\ order'[o] = order[o] /\ hold'[o] = hold[o] /\ refundRows'[o] = refundRows[o]
        /\ returned'[o] = returned[o] /\ applied'[o] = applied[o] /\ delivered'[o] = delivered[o]
        /\ recalled'[o] = recalled[o] /\ payment'[o] = payment[o]
        /\ \A k \in Kinds : <<k, o>> \in posted' <=> <<k, o>> \in posted
    BY <1>1, <1>a, <2>0 DEF CreateReferral, AfterReferral, Same, RowsOK
  <2>3. OrderOK(o)'
    BY <1>a, <2>0, <2>1, <2>2 DEF OrderOK, Untouched, PlaceOK, Kinds
  <2>4. PlaceOK(p)'
    BY <1>a, <2>0, <2>1, <2>2 DEF Went, PlaceOK
  <2>5. faults = 0 => DoneAt(p)'
    BY <1>a, <2>0, <2>1, <2>2 DEF Went, DoneAt, SumsOK
  <2> QED BY <1>a, <1>b, <2>0, <2>1, <2>2, <2>3, <2>4, <2>5, GoesOn DEF Went
<1>2. CASE CreateHold(p)
  <2>0. PICK o \in Orders : o = job[p] /\ pc[p] = "hold" /\ p \in Slots /\ p # Cron
    BY <1>2, <1>a DEF CreateHold, JobsAreOrders, Listed, Procs
  <2>1. \/ /\ Went(p, {"offer"}) /\ seen'[p] = seen[p] /\ amt'[p] = amt[p]
           /\ hold'[o] = "held"
        \/ /\ Only(p) /\ pc'[p] = "idle" /\ batch'[p] = {} /\ batch[p] = {}
           /\ faults' = faults /\ Same(o)
    <3>1. CASE UNCHANGED hold /\ Finish(p)
      BY <3>1, <1>2, <1>a, <1>c, <2>0, FinishAlone DEF CreateHold, Same
    <3>2. CASE hold' = [hold EXCEPT ![job[p]] = "held"] /\ Goto(p, "offer")
      BY <3>2, <1>2, <1>a, <2>0, GotoAlone DEF CreateHold, Went, RowsOK
    <3> QED BY <1>2, <3>1, <3>2 DEF CreateHold
  <2>2. /\ \A q \in Orders \ {o} : Same(q)
        /\ hold'[o] \in {hold[o], "held"}
        /\ order'[o] = order[o] /\ referral'[o] = referral[o] /\ refundRows'[o] = refundRows[o]
        /\ returned'[o] = returned[o] /\ applied'[o] = applied[o] /\ delivered'[o] = delivered[o]
        /\ recalled'[o] = recalled[o] /\ payment'[o] = payment[o]
        /\ \A k \in Kinds : <<k, o>> \in posted' <=> <<k, o>> \in posted
    BY <1>2, <1>a, <2>0 DEF CreateHold, Same, RowsOK
  <2>3. OrderOK(o)'
    BY <1>a, <2>0, <2>1, <2>2 DEF OrderOK, Untouched, PlaceOK, Kinds
  <2>4. pc'[p] # "idle" => PlaceOK(p)'
    BY <1>a, <2>0, <2>1, <2>2 DEF Went, PlaceOK
  <2>5. pc'[p] # "idle" => (faults = 0 => DoneAt(p)')
    BY <1>a, <2>0, <2>1, <2>2 DEF Went, DoneAt, SumsOK
  <2>6. pc'[p] = "idle" /\ faults = 0 => Complete(o)'
    BY <1>a, <2>0, <2>1, <2>2 DEF Went, DoneAt, Complete, SumsOK, PlaceOK
  <2> QED BY <1>a, <1>b, <2>0, <2>1, <2>2, <2>3, <2>4, <2>5, <2>6, GoesOn, Finishes DEF Went
<1>3. CASE Offer(p)
  <2>0. PICK o \in Orders : o = job[p] /\ pc[p] = "offer" /\ p \in Slots /\ p # Cron
    BY <1>3, <1>a DEF Offer, JobsAreOrders, Listed, Procs
  <2>1. \/ /\ Went(p, {"markRead"}) /\ seen'[p] = seen[p] /\ amt'[p] = amt[p]
           /\ o \in PaidAtOnce
        \/ /\ Only(p) /\ pc'[p] = "idle" /\ batch'[p] = {} /\ batch[p] = {} /\ faults' = faults
    <3>1. CASE job[p] \notin PaidAtOnce
      BY <3>1, <1>3, <1>a, <1>c, <2>0, FinishAlone DEF Offer
    <3>2. CASE job[p] \in PaidAtOnce
      BY <3>2, <1>3, <1>a, <2>0, GotoAlone DEF Offer, Went
    <3> QED BY <3>1, <3>2
  <2>2. /\ \A q \in Orders \ {o} : Same(q)
        /\ payment'[o] # "none"
        /\ order'[o] = order[o] /\ hold'[o] = hold[o] /\ referral'[o] = referral[o]
        /\ refundRows'[o] = refundRows[o] /\ returned'[o] = returned[o]
        /\ applied'[o] = applied[o]
        /\ delivered'[o] = delivered[o] /\ recalled'[o] = recalled[o]
        /\ \A k \in Kinds : <<k, o>> \in posted' <=> <<k, o>> \in posted
    BY <1>3, <1>a, <2>0 DEF Offer, Same, WorldOK, RowsOK
  <2>3. OrderOK(o)'
    BY <1>a, <2>0, <2>1, <2>2 DEF OrderOK, Untouched, PlaceOK, Kinds
  <2>4. pc'[p] # "idle" => PlaceOK(p)'
    BY <1>a, <2>0, <2>1, <2>2 DEF Went, PlaceOK
  <2>5. pc'[p] # "idle" => (faults = 0 => DoneAt(p)')
    BY <1>a, <2>0, <2>1, <2>2 DEF Went, DoneAt, SumsOK
  <2>6. pc'[p] = "idle" /\ faults = 0 => Complete(o)'
    BY <1>a, <2>0, <2>1, <2>2 DEF Went, DoneAt, Complete, SumsOK, PlaceOK
  <2> QED BY <1>a, <1>b, <2>0, <2>1, <2>2, <2>3, <2>4, <2>5, <2>6, GoesOn, Finishes DEF Went
<1> QED BY <1>1, <1>2, <1>3

\* The callback of a successful payment and what follows from it.
LEMMA FinalizeKeepsSerial ==
  ASSUME ~Overlap, NEW p \in Procs, IInv, SerialInv, CompleteInv,
         \/ MarkRead(p) \/ MarkWrite(p) \/ CaptureRead(p) \/ CaptureSave(p)
         \/ Cashback(p) \/ CashbackId(p) \/ RewardRead(p) \/ Reward(p)
         \/ RewardSave(p) \/ Submit(p) \/ ApplyCoupon(p)
  PROVE  SerialInv' /\ CompleteInv'
<1> USE DEF At, goods, rows, world, NoJob, Settled, Creating, Finalizing, Granting,
            Releasing, Refunding
<1>a. /\ HandlersOK /\ RowsOK /\ WorldOK /\ JobsAreOrders /\ WorkIsPaid /\ RewardIsPosted
      /\ Alone /\ Listed /\ faults \in Nat
      /\ PlaceOK(p) /\ (faults = 0 => DoneAt(p)) /\ \A q \in Orders : OrderOK(q)
  BY OrderAssumption DEF IInv, TypeOK, SerialInv, CompleteInv, WorldOK
<1>b. batch[p] \subseteq Orders /\ SerialInv /\ CompleteInv
  BY <1>a DEF HandlersOK
<1>c. p \in Slots => batch[p] = {}
  BY <1>a DEF Alone
<1>1. CASE MarkRead(p)
  <2>0. PICK o \in Orders : o = job[p] /\ pc[p] = "markRead" /\ p \in Slots /\ p # Cron
    BY <1>1, <1>a DEF MarkRead, JobsAreOrders, Listed, Procs
  <2>1. Went(p, {"markWrite"}) /\ seen'[p] = order[o] /\ amt'[p] = amt[p]
    BY <1>1, <1>a, <2>0, GotoSeenAlone DEF MarkRead, Went
  <2>2. \A q \in Orders : Same(q)
    BY <1>1, <1>a, <2>0 DEF MarkRead, Same, RowsOK
  <2>4. PlaceOK(p)'
    BY <1>a, <2>0, <2>1, <2>2 DEF Same, Went, PlaceOK
  <2>5. faults = 0 => DoneAt(p)'
    BY <1>a, <2>0, <2>1, <2>2 DEF Same, Went, DoneAt, SumsOK
  <2> QED BY <1>a, <1>b, <2>0, <2>1, <2>2, <2>4, <2>5, GoesOn DEF Went
<1>2. CASE MarkWrite(p)
  <2>0. PICK o \in Orders : o = job[p] /\ pc[p] = "markWrite" /\ p \in Slots /\ p # Cron
    BY <1>2, <1>a DEF MarkWrite, JobsAreOrders, Listed, Procs
  <2>1. Went(p, {"capRead", "cashback"}) /\ seen'[p] = Paid(order[o]) /\ amt'[p] = amt[p]
        /\ (pc'[p] = "capRead" <=> o \in WithWallet)
    BY <1>2, <1>a, <2>0, GotoSeenAlone DEF MarkWrite, PlaceOK, Went
  <2>r. /\ order'[o] = Paid(order[o]) /\ order[o].status = "pending" /\ order[o] \in OrderRow
        /\ \A q \in Orders \ {o} : order'[q] = order[q]
    BY <1>2, <1>a, <2>0 DEF MarkWrite, RowsOK, PlaceOK, Bases
  <2>w. /\ order'[o].status = "paid" /\ order'[o].cashbackTx = order[o].cashbackTx
        /\ order'[o].cashbackRev = order[o].cashbackRev /\ order'[o].refunded = order[o].refunded
    BY <2>r, RowWhole
  <2>h. /\ Untouched(o) /\ (o \in WithWallet => hold[o] \in {"held", "expired"})
        /\ Paid(order[o]).cashbackTx = order[o].cashbackTx
    BY <1>a, <2>0, <2>r, RowWhole DEF OrderOK, Untouched, WorkIsPaid, RowsOK
  <2>2. /\ \A q \in Orders \ {o} : Same(q)
        /\ hold'[o] = hold[o] /\ referral'[o] = referral[o] /\ refundRows'[o] = refundRows[o]
        /\ returned'[o] = returned[o] /\ applied'[o] = applied[o] /\ delivered'[o] = delivered[o]
        /\ recalled'[o] = recalled[o] /\ payment'[o] = payment[o]
        /\ \A k \in Kinds : <<k, o>> \in posted' <=> <<k, o>> \in posted
    BY <1>2, <1>a, <2>0, <2>r DEF MarkWrite, PlaceOK, Same, RowsOK
  <2>3. OrderOK(o)'
    BY <1>a, <2>0, <2>1, <2>2, <2>w DEF OrderOK, Untouched, PlaceOK, Kinds
  <2>4. PlaceOK(p)'
    BY <1>a, <2>0, <2>1, <2>2, <2>w, <2>h, RowWhole DEF Went, PlaceOK, Untouched, Kinds
  <2>5. faults = 0 => DoneAt(p)'
    BY <1>a, <2>0, <2>1, <2>2, <2>w DEF Went, DoneAt, SumsOK
  <2> QED BY <1>a, <1>b, <2>0, <2>1, <2>2, <2>3, <2>4, <2>5, GoesOn DEF Went
<1>3. CASE CaptureRead(p)
  <2>0. PICK o \in Orders : o = job[p] /\ pc[p] = "capRead" /\ p \in Slots /\ p # Cron
    BY <1>3, <1>a DEF CaptureRead, JobsAreOrders, Listed, Procs
  <2>1. Went(p, {"capSave", "cashback"}) /\ seen'[p] = seen[p] /\ amt'[p] = amt[p]
        /\ (pc'[p] = "capSave" <=> hold[o] = "held")
    BY <1>3, <1>a, <2>0, GotoAlone DEF CaptureRead, Went
  <2>2. \A q \in Orders : Same(q)
    BY <1>3, <1>a, <2>0 DEF CaptureRead, Same, RowsOK
  <2>3. /\ order'[o] = order[o] /\ hold'[o] = hold[o] /\ referral'[o] = referral[o]
        /\ recalled'[o] = recalled[o] /\ payment'[o] = payment[o] /\ delivered'[o] = delivered[o]
        /\ refundRows'[o] = refundRows[o] /\ returned'[o] = returned[o]
        /\ applied'[o] = applied[o]
        /\ \A k \in Kinds : <<k, o>> \in posted' <=> <<k, o>> \in posted
    BY <2>2 DEF Same
  <2>4. PlaceOK(p)'
    BY <1>a, <2>0, <2>1, <2>2, <2>3 DEF Went, PlaceOK, Kinds
  <2>5. faults = 0 => DoneAt(p)'
    BY <1>a, <2>0, <2>1, <2>2 DEF Same, Went, DoneAt, SumsOK
  <2> QED BY <1>a, <1>b, <2>0, <2>1, <2>2, <2>4, <2>5, GoesOn DEF Went
<1>4. CASE CaptureSave(p)
  <2>0. PICK o \in Orders : o = job[p] /\ pc[p] = "capSave" /\ p \in Slots /\ p # Cron
    BY <1>4, <1>a DEF CaptureSave, JobsAreOrders, Listed, Procs
  <2>1. Went(p, {"cashback"}) /\ seen'[p] = seen[p] /\ amt'[p] = amt[p]
    BY <1>4, <1>a, <2>0, PostIsGoto, GotoAlone DEF CaptureSave, Went
  <2>p. posted' = posted \cup {<<"capture", o>>}
    BY <1>4, <1>a, <2>0, PostIsGoto DEF CaptureSave
  <2>2. /\ \A q \in Orders \ {o} : Same(q)
        /\ hold'[o] = "captured"
        /\ <<"capture", o>> \in posted'
        /\ \A k \in Kinds \ {"capture"} : <<k, o>> \in posted' <=> <<k, o>> \in posted
        /\ order'[o] = order[o] /\ referral'[o] = referral[o] /\ refundRows'[o] = refundRows[o]
        /\ returned'[o] = returned[o] /\ applied'[o] = applied[o] /\ delivered'[o] = delivered[o]
        /\ recalled'[o] = recalled[o] /\ payment'[o] = payment[o]
    BY <1>4, <1>a, <2>0, <2>p DEF CaptureSave, Same, Kinds, RowsOK
  <2>3. OrderOK(o)'
    BY <1>a, <2>0, <2>1, <2>2 DEF OrderOK, Untouched, PlaceOK, Kinds
  <2>4. PlaceOK(p)'
    BY <1>a, <2>0, <2>1, <2>2 DEF Went, PlaceOK, Kinds
  <2>5. faults = 0 => DoneAt(p)'
    BY <1>a, <2>0, <2>1, <2>2 DEF Went, DoneAt, SumsOK, Kinds
  <2> QED BY <1>a, <1>b, <2>0, <2>1, <2>2, <2>3, <2>4, <2>5, GoesOn DEF Went
<1>5. CASE Cashback(p)
  <2>0. PICK o \in Orders : o = job[p] /\ pc[p] = "cashback" /\ p \in Slots /\ p # Cron
    BY <1>5, <1>a DEF Cashback, JobsAreOrders, Listed, Procs
  <2>t. ~seen[p].cashbackTx /\ <<"cashback", o>> \notin posted
    BY <1>a, <2>0 DEF PlaceOK
  <2>p. \/ o \in CodesOnly /\ posted' = posted /\ Goto(p, "refRead")
        \/ o \notin CodesOnly /\ posted' = posted \cup {<<"cashback", o>>} /\ Goto(p, "cashbackId")
    BY <1>5, <1>a, <2>0, <2>t, PostIsGoto DEF Cashback
  <2>1. /\ Went(p, {"cashbackId", "refRead"}) /\ seen'[p] = seen[p] /\ amt'[p] = amt[p]
        /\ pc'[p] = "refRead" <=> o \in CodesOnly
    BY <1>5, <1>a, <2>0, <2>p, GotoAlone DEF Cashback, Went
  <2>2. /\ \A q \in Orders \ {o} : Same(q)
        /\ o \in CodesOnly \/ <<"cashback", o>> \in posted'
        /\ \A k \in Kinds \ {"cashback"} : <<k, o>> \in posted' <=> <<k, o>> \in posted
        /\ order'[o] = order[o] /\ hold'[o] = hold[o] /\ referral'[o] = referral[o]
        /\ refundRows'[o] = refundRows[o] /\ returned'[o] = returned[o]
        /\ applied'[o] = applied[o]
        /\ delivered'[o] = delivered[o] /\ recalled'[o] = recalled[o] /\ payment'[o] = payment[o]
    BY <1>5, <1>a, <2>0, <2>p DEF Cashback, PlaceOK, Same, Kinds, RowsOK
  <2>3. OrderOK(o)'
    BY <1>a, <2>0, <2>1, <2>2 DEF OrderOK, Untouched, PlaceOK, Kinds
  <2>4. PlaceOK(p)'
    BY <1>a, <2>0, <2>1, <2>2 DEF Went, PlaceOK, Kinds
  <2>5. faults = 0 => DoneAt(p)'
    BY <1>a, <2>0, <2>1, <2>2 DEF Went, DoneAt, SumsOK, Kinds
  <2> QED BY <1>a, <1>b, <2>0, <2>1, <2>2, <2>3, <2>4, <2>5, GoesOn DEF Went
<1>6. CASE CashbackId(p)
  <2>0. PICK o \in Orders : o = job[p] /\ pc[p] = "cashbackId" /\ p \in Slots /\ p # Cron
    BY <1>6, <1>a DEF CashbackId, JobsAreOrders, Listed, Procs
  <2>1. Went(p, {"refRead"}) /\ seen'[p] = seen[p] /\ amt'[p] = amt[p]
    BY <1>6, <1>a, <2>0, GotoAlone DEF CashbackId, Went
  <2>r. /\ order'[o].status = order[o].status /\ order'[o].refunded = order[o].refunded
        /\ order'[o].cashbackTx
        /\ order'[o].cashbackRev = order[o].cashbackRev
        /\ \A q \in Orders \ {o} : order'[q] = order[q]
    BY <1>6, <1>a, <2>0, RowFields DEF CashbackId, RowsOK
  <2>2. /\ \A q \in Orders \ {o} : Same(q)
        /\ hold'[o] = hold[o] /\ referral'[o] = referral[o] /\ refundRows'[o] = refundRows[o]
        /\ returned'[o] = returned[o] /\ applied'[o] = applied[o] /\ delivered'[o] = delivered[o]
        /\ recalled'[o] = recalled[o] /\ payment'[o] = payment[o]
        /\ \A k \in Kinds : <<k, o>> \in posted' <=> <<k, o>> \in posted
    BY <1>6, <1>a, <2>0, <2>r DEF CashbackId, Same, RowsOK
  <2>3. OrderOK(o)'
    BY <1>a, <2>0, <2>1, <2>2, <2>r DEF OrderOK, Untouched, PlaceOK, Kinds
  <2>4. PlaceOK(p)'
    BY <1>a, <2>0, <2>1, <2>2, <2>r DEF Went, PlaceOK, Kinds
  <2>5. faults = 0 => DoneAt(p)'
    BY <1>a, <2>0, <2>1, <2>2, <2>r DEF Went, DoneAt, SumsOK, Kinds
  <2> QED BY <1>a, <1>b, <2>0, <2>1, <2>2, <2>3, <2>4, <2>5, GoesOn DEF Went
<1>7. CASE RewardRead(p)
  <2>0. PICK o \in Orders : o = job[p] /\ pc[p] = "refRead" /\ p \in Slots /\ p # Cron
    BY <1>7, <1>a DEF RewardRead, JobsAreOrders, Listed, Procs
  <2>1. Went(p, {"reward", "submit"}) /\ seen'[p] = seen[p] /\ amt'[p] = amt[p]
        /\ (pc'[p] = "reward" <=> referral[o] = "pending")
    BY <1>7, <1>a, <2>0, GotoAlone DEF RewardRead, Went
  <2>2. \A q \in Orders : Same(q)
    BY <1>7, <1>a, <2>0 DEF RewardRead, Same, RowsOK
  <2>3. /\ order'[o] = order[o] /\ hold'[o] = hold[o] /\ referral'[o] = referral[o]
        /\ recalled'[o] = recalled[o] /\ payment'[o] = payment[o] /\ delivered'[o] = delivered[o]
        /\ refundRows'[o] = refundRows[o] /\ returned'[o] = returned[o]
        /\ applied'[o] = applied[o]
        /\ \A k \in Kinds : <<k, o>> \in posted' <=> <<k, o>> \in posted
    BY <2>2 DEF Same
  <2>4. PlaceOK(p)'
    BY <1>a, <2>0, <2>1, <2>2, <2>3 DEF Went, PlaceOK, Kinds
  <2>5. faults = 0 => DoneAt(p)'
    BY <1>a, <2>0, <2>1, <2>2, <2>3 DEF Went, DoneAt, SumsOK, Kinds
  <2> QED BY <1>a, <1>b, <2>0, <2>1, <2>2, <2>4, <2>5, GoesOn DEF Went
<1>8. CASE Reward(p)
  <2>0. PICK o \in Orders : o = job[p] /\ pc[p] = "reward" /\ p \in Slots /\ p # Cron
    BY <1>8, <1>a DEF Reward, JobsAreOrders, Listed, Procs
  <2>1. Went(p, {"rewardSave"}) /\ seen'[p] = seen[p] /\ amt'[p] = amt[p]
    BY <1>8, <1>a, <2>0, PostIsGoto, GotoAlone DEF Reward, Went
  <2>p. posted' = posted \cup {<<"reward", o>>}
    BY <1>8, <1>a, <2>0, PostIsGoto DEF Reward
  <2>k. o \in Referred
    BY <1>a, <2>0 DEF PlaceOK, OrderOK
  <2>2. /\ \A q \in Orders \ {o} : Same(q)
        /\ <<"reward", o>> \in posted'
        /\ \A k \in Kinds \ {"reward"} : <<k, o>> \in posted' <=> <<k, o>> \in posted
        /\ order'[o] = order[o] /\ hold'[o] = hold[o] /\ referral'[o] = referral[o]
        /\ refundRows'[o] = refundRows[o] /\ returned'[o] = returned[o]
        /\ applied'[o] = applied[o]
        /\ delivered'[o] = delivered[o] /\ recalled'[o] = recalled[o] /\ payment'[o] = payment[o]
    BY <1>8, <1>a, <2>0, <2>p DEF Reward, Same, Kinds, RowsOK
  <2>3. OrderOK(o)'
    BY <1>a, <2>0, <2>1, <2>2 DEF OrderOK, Untouched, PlaceOK, Kinds
  <2>4. PlaceOK(p)'
    BY <1>a, <2>0, <2>1, <2>2, <2>k DEF Went, PlaceOK, Kinds, OrderOK
  <2>5. faults = 0 => DoneAt(p)'
    BY <1>a, <2>0, <2>1, <2>2 DEF Went, DoneAt, SumsOK, Kinds
  <2> QED BY <1>a, <1>b, <2>0, <2>1, <2>2, <2>3, <2>4, <2>5, GoesOn DEF Went
<1>9. CASE RewardSave(p)
  <2>0. PICK o \in Orders : o = job[p] /\ pc[p] = "rewardSave" /\ p \in Slots /\ p # Cron
    BY <1>9, <1>a DEF RewardSave, JobsAreOrders, Listed, Procs
  <2>1. Went(p, {"submit"}) /\ seen'[p] = seen[p] /\ amt'[p] = amt[p]
    BY <1>9, <1>a, <2>0, GotoAlone DEF RewardSave, Went
  <2>2. /\ \A q \in Orders \ {o} : Same(q)
        /\ referral'[o] = "credited"
        /\ order'[o] = order[o] /\ hold'[o] = hold[o] /\ refundRows'[o] = refundRows[o]
        /\ returned'[o] = returned[o] /\ applied'[o] = applied[o] /\ delivered'[o] = delivered[o]
        /\ recalled'[o] = recalled[o] /\ payment'[o] = payment[o]
        /\ \A k \in Kinds : <<k, o>> \in posted' <=> <<k, o>> \in posted
    BY <1>9, <1>a, <2>0 DEF RewardSave, Same, RowsOK
  <2>3. OrderOK(o)'
    BY <1>a, <2>0, <2>1, <2>2 DEF OrderOK, Untouched, PlaceOK, Kinds
  <2>4. PlaceOK(p)'
    BY <1>a, <2>0, <2>1, <2>2 DEF Went, PlaceOK, Kinds
  <2>5. faults = 0 => DoneAt(p)'
    BY <1>a, <2>0, <2>1, <2>2 DEF Went, DoneAt, SumsOK, Kinds, RewardIsPosted
  <2> QED BY <1>a, <1>b, <2>0, <2>1, <2>2, <2>3, <2>4, <2>5, GoesOn DEF Went
<1>10. CASE Submit(p)
  <2>0. PICK o \in Orders : o = job[p] /\ pc[p] = "submit" /\ p \in Slots /\ p # Cron
    BY <1>10, <1>a DEF Submit, JobsAreOrders, Listed, Procs
  <2>1. \/ /\ Went(p, {"coupon"}) /\ seen'[p] = seen[p] /\ amt'[p] = amt[p]
           /\ o \in Couponed
        \/ /\ Only(p) /\ pc'[p] = "idle" /\ batch'[p] = {} /\ batch[p] = {}
           /\ faults' = faults /\ o \notin Couponed
    <3>1. CASE job[p] \notin Couponed
      BY <3>1, <1>10, <1>a, <1>c, <2>0, FinishAlone DEF Submit
    <3>2. CASE job[p] \in Couponed
      BY <3>2, <1>10, <1>a, <2>0, GotoAlone DEF Submit, Went
    <3> QED BY <3>1, <3>2
  <2>2. /\ \A q \in Orders \ {o} : Same(q)
        /\ delivered'[o] = delivered[o] + 1
        /\ order'[o] = order[o] /\ hold'[o] = hold[o] /\ referral'[o] = referral[o]
        /\ refundRows'[o] = refundRows[o] /\ returned'[o] = returned[o]
        /\ applied'[o] = applied[o]
        /\ recalled'[o] = recalled[o] /\ payment'[o] = payment[o]
        /\ \A k \in Kinds : <<k, o>> \in posted' <=> <<k, o>> \in posted
    BY <1>10, <1>a, <2>0 DEF Submit, Same, RowsOK
  <2>3. OrderOK(o)'
    BY <1>a, <2>0, <2>1, <2>2 DEF OrderOK, Untouched, PlaceOK, Kinds
  <2>4. pc'[p] # "idle" => PlaceOK(p)'
    BY <1>a, <2>0, <2>1, <2>2 DEF Went, PlaceOK, Kinds
  <2>5. pc'[p] # "idle" => (faults = 0 => DoneAt(p)')
    BY <1>a, <2>0, <2>1, <2>2 DEF Went, DoneAt, SumsOK, Kinds, PlaceOK
  <2>6. pc'[p] = "idle" /\ faults = 0 => Complete(o)'
    BY <1>a, <2>0, <2>1, <2>2 DEF Went, DoneAt, Complete, SumsOK, Kinds, PaidInFull, PlaceOK
  <2> QED BY <1>a, <1>b, <2>0, <2>1, <2>2, <2>3, <2>4, <2>5, <2>6, GoesOn, Finishes DEF Went
<1>11. CASE ApplyCoupon(p)
  <2>0. PICK o \in Orders : o = job[p] /\ pc[p] = "coupon" /\ p \in Slots /\ p # Cron
    BY <1>11, <1>a DEF ApplyCoupon, JobsAreOrders, Listed, Procs
  <2>1. Only(p) /\ pc'[p] = "idle" /\ batch'[p] = {} /\ batch[p] = {} /\ faults' = faults
    BY <1>11, <1>a, <1>c, <2>0, FinishAlone DEF ApplyCoupon
  <2>2. /\ \A q \in Orders \ {o} : Same(q)
        /\ applied'[o] = applied[o] + 1
        /\ order'[o] = order[o] /\ hold'[o] = hold[o] /\ referral'[o] = referral[o]
        /\ refundRows'[o] = refundRows[o] /\ returned'[o] = returned[o]
        /\ delivered'[o] = delivered[o]
        /\ recalled'[o] = recalled[o] /\ payment'[o] = payment[o]
        /\ \A k \in Kinds : <<k, o>> \in posted' <=> <<k, o>> \in posted
    BY <1>11, <1>a, <2>0 DEF ApplyCoupon, Same, RowsOK
  <2>3. OrderOK(o)'
    BY <1>a, <2>0, <2>1, <2>2 DEF OrderOK, Untouched, PlaceOK, Kinds
  <2>6. faults = 0 => Complete(o)'
    BY <1>a, <2>0, <2>1, <2>2 DEF DoneAt, Complete, SumsOK, Kinds, PaidInFull, PlaceOK
  <2> QED BY <1>a, <1>b, <2>0, <2>1, <2>2, <2>3, <2>6, Finishes
<1> QED BY <1>1, <1>2, <1>3, <1>4, <1>5, <1>6, <1>7, <1>8, <1>9, <1>10, <1>11

\* A cancel, and the steps the cron shares with it.
LEMMA CancelKeepsSerial ==
  ASSUME ~Overlap, NEW p \in Procs, IInv, SerialInv, CompleteInv,
         \/ CancelRead(p) \/ FailRead(p) \/ FailWrite(p) \/ ReleaseRead(p)
         \/ ReleaseSave(p) \/ ReleaseCoupon(p)
  PROVE  SerialInv' /\ CompleteInv'
<1> USE DEF At, goods, rows, world, NoJob, Settled, Creating, Finalizing, Granting,
            Releasing, Refunding
<1>a. /\ HandlersOK /\ RowsOK /\ WorldOK /\ JobsAreOrders /\ WorkIsPaid /\ RewardIsPosted
      /\ Alone /\ Listed /\ faults \in Nat
      /\ PlaceOK(p) /\ (faults = 0 => DoneAt(p)) /\ \A q \in Orders : OrderOK(q)
  BY OrderAssumption DEF IInv, TypeOK, SerialInv, CompleteInv, WorldOK
<1>b. batch[p] \subseteq Orders /\ SerialInv /\ CompleteInv
  BY <1>a DEF HandlersOK
<1>c. p \in Slots => batch[p] = {}
  BY <1>a DEF Alone
<1>1. CASE CancelRead(p)
  <2>0. PICK o \in Orders : o = job[p] /\ pc[p] = "cancel" /\ p \in Slots /\ p # Cron
    BY <1>1, <1>a DEF CancelRead, JobsAreOrders, Listed, Procs
  <2>1. \/ /\ Went(p, {"failRead"}) /\ seen'[p] = seen[p] /\ amt'[p] = amt[p]
           /\ order[o].status = "pending"
        \/ /\ Only(p) /\ pc'[p] = "idle" /\ batch'[p] = {} /\ batch[p] = {} /\ faults' = faults
    <3>1. CASE order[job[p]].status # "pending"
      BY <3>1, <1>1, <1>a, <1>c, <2>0, FinishAlone DEF CancelRead
    <3>2. CASE order[job[p]].status = "pending"
      BY <3>2, <1>1, <1>a, <2>0, GotoAlone DEF CancelRead, Went
    <3> QED BY <3>1, <3>2
  <2>2. \A q \in Orders : Same(q)
    BY <1>1, <1>a, <2>0 DEF CancelRead, Same, RowsOK
  <2>4. pc'[p] # "idle" => PlaceOK(p)'
    BY <1>a, <2>0, <2>1, <2>2 DEF Same, Went, PlaceOK
  <2>5. pc'[p] # "idle" => (faults = 0 => DoneAt(p)')
    BY <1>a, <2>0, <2>1, <2>2 DEF Same, Went, DoneAt, Complete, SumsOK
  <2>6. pc'[p] = "idle" /\ faults = 0 => Complete(o)'
    BY <1>a, <2>0, <2>1, <2>2, SameIsOK DEF Went, DoneAt
  <2> QED BY <1>a, <1>b, <2>0, <2>1, <2>2, <2>4, <2>5, <2>6, GoesOn, Finishes DEF Went
<1>2. CASE FailRead(p)
  <2>0. PICK o \in Orders : o = job[p] /\ pc[p] = "failRead" /\ p \in Slots /\ p # Cron
    BY <1>2, <1>a DEF FailRead, JobsAreOrders, Listed, Procs
  <2>1. Went(p, {"failWrite"}) /\ seen'[p] = order[o] /\ amt'[p] = amt[p]
    BY <1>2, <1>a, <2>0, GotoSeenAlone DEF FailRead, Went
  <2>2. \A q \in Orders : Same(q)
    BY <1>2, <1>a, <2>0 DEF FailRead, Same, RowsOK
  <2>4. PlaceOK(p)'
    BY <1>a, <2>0, <2>1, <2>2 DEF Same, Went, PlaceOK
  <2>5. faults = 0 => DoneAt(p)'
    BY <1>a, <2>0, <2>1, <2>2 DEF Same, Went, DoneAt, SumsOK
  <2> QED BY <1>a, <1>b, <2>0, <2>1, <2>2, <2>4, <2>5, GoesOn DEF Went
<1>3. CASE FailWrite(p)
  <2>0. PICK o \in Orders : o = job[p] /\ pc[p] = "failWrite" /\ p \in Slots /\ p # Cron
    BY <1>3, <1>a DEF FailWrite, JobsAreOrders, Listed, Procs
  <2>1. Went(p, {"relRead"}) /\ seen'[p] = seen[p] /\ amt'[p] = amt[p]
    BY <1>3, <1>a, <2>0, GotoAlone DEF FailWrite, Went
  <2>r. /\ order'[o] = Failed(order[o]) /\ order[o].status = "pending" /\ order[o] \in OrderRow
        /\ \A q \in Orders \ {o} : order'[q] = order[q]
    BY <1>3, <1>a, <2>0 DEF FailWrite, RowsOK, PlaceOK, Bases
  <2>w. /\ order'[o].status = "failed" /\ order'[o].cashbackTx = order[o].cashbackTx
        /\ order'[o].cashbackRev = order[o].cashbackRev /\ order'[o].refunded = order[o].refunded
    BY <2>r, RowWhole
  <2>2. /\ \A q \in Orders \ {o} : Same(q)
        /\ hold'[o] = hold[o] /\ referral'[o] = referral[o] /\ refundRows'[o] = refundRows[o]
        /\ returned'[o] = returned[o] /\ applied'[o] = applied[o] /\ delivered'[o] = delivered[o]
        /\ recalled'[o] = recalled[o] /\ payment'[o] = payment[o]
        /\ \A k \in Kinds : <<k, o>> \in posted' <=> <<k, o>> \in posted
    BY <1>3, <1>a, <2>0, <2>r DEF FailWrite, Same, RowsOK
  <2>3. OrderOK(o)'
    <3>1. OrderOK(o) /\ Untouched(o)
      BY <1>a, <2>r DEF OrderOK
    <3> QED BY <2>r, <2>2, <2>w, <3>1 DEF OrderOK, Untouched, Kinds
  <2>4. PlaceOK(p)'
    BY <1>a, <2>0, <2>1, <2>2, <2>w DEF Went, PlaceOK
  <2>5. faults = 0 => DoneAt(p)'
    BY <1>a, <2>0, <2>1, <2>2, <2>w DEF Went, DoneAt, SumsOK
  <2> QED BY <1>a, <1>b, <2>0, <2>1, <2>2, <2>3, <2>4, <2>5, GoesOn DEF Went
<1>4. CASE ReleaseRead(p)
  <2>0. PICK o \in Orders : o = job[p] /\ pc[p] = "relRead"
    BY <1>4, <1>a DEF ReleaseRead, JobsAreOrders
  <2>1. Went(p, {"relSave", "couponBack", "revRead"}) /\ seen'[p] = seen[p] /\ amt'[p] = amt[p]
        /\ (pc'[p] = "relSave" <=> hold[o] = "held")
    BY <1>4, <1>a, <2>0, GotoAlone DEF ReleaseRead, AfterRelease, Went
  <2>2. \A q \in Orders : Same(q)
    BY <1>4, <1>a, <2>0 DEF ReleaseRead, AfterRelease, Same, RowsOK
  <2>4. PlaceOK(p)'
    BY <1>a, <2>0, <2>1, <2>2 DEF Same, Went, PlaceOK, OrderOK, Untouched
  <2>3. hold'[o] = hold[o] /\ hold[o] # "captured" /\ (SumsOK(o) => SumsOK(o)')
    BY <1>a, <2>0, <2>2, SameIsOK DEF Same, OrderOK, Untouched, PlaceOK
  <2>5. faults = 0 => DoneAt(p)'
    BY <1>a, <2>0, <2>1, <2>3 DEF Went, DoneAt
  <2> QED BY <1>a, <1>b, <2>0, <2>1, <2>2, <2>4, <2>5, GoesOn DEF Went
<1>5. CASE ReleaseSave(p)
  <2>0. PICK o \in Orders : o = job[p] /\ pc[p] = "relSave"
    BY <1>5, <1>a DEF ReleaseSave, JobsAreOrders
  <2>1. Went(p, {"couponBack", "revRead"}) /\ seen'[p] = seen[p] /\ amt'[p] = amt[p]
    BY <1>5, <1>a, <2>0, GotoAlone DEF ReleaseSave, AfterRelease, Went
  <2>2. /\ \A q \in Orders \ {o} : Same(q)
        /\ hold'[o] = "released"
        /\ order'[o] = order[o] /\ referral'[o] = referral[o] /\ refundRows'[o] = refundRows[o]
        /\ returned'[o] = returned[o] /\ applied'[o] = applied[o] /\ delivered'[o] = delivered[o]
        /\ recalled'[o] = recalled[o] /\ payment'[o] = payment[o]
        /\ \A k \in Kinds : <<k, o>> \in posted' <=> <<k, o>> \in posted
    BY <1>5, <1>a, <2>0 DEF ReleaseSave, AfterRelease, Same, RowsOK
  <2>3. OrderOK(o)'
    BY <1>a, <2>0, <2>1, <2>2 DEF OrderOK, Untouched, PlaceOK, Kinds
  <2>4. PlaceOK(p)'
    BY <1>a, <2>0, <2>1, <2>2 DEF Went, PlaceOK
  <2>5. faults = 0 => DoneAt(p)'
    BY <1>a, <2>0, <2>1, <2>2 DEF Went, DoneAt, SumsOK
  <2> QED BY <1>a, <1>b, <2>0, <2>1, <2>2, <2>3, <2>4, <2>5, GoesOn DEF Went
<1>6. CASE ReleaseCoupon(p)
  <2>0. PICK o \in Orders : o = job[p] /\ pc[p] = "couponBack"
    BY <1>6, <1>a DEF ReleaseCoupon, JobsAreOrders
  <2>1. Went(p, {"revRead"}) /\ seen'[p] = seen[p] /\ amt'[p] = amt[p]
    BY <1>6, <1>a, <2>0, GotoAlone DEF ReleaseCoupon, Went
  <2>2. \A q \in Orders : Same(q)
    BY <1>6, <1>a, <2>0 DEF ReleaseCoupon, Same, RowsOK
  <2>4. PlaceOK(p)'
    BY <1>a, <2>0, <2>1, <2>2 DEF Same, Went, PlaceOK
  <2>5. faults = 0 => DoneAt(p)'
    BY <1>a, <2>0, <2>1, <2>2 DEF Same, Went, DoneAt, SumsOK
  <2> QED BY <1>a, <1>b, <2>0, <2>1, <2>2, <2>4, <2>5, GoesOn DEF Went
<1> QED BY <1>1, <1>2, <1>3, <1>4, <1>5, <1>6

\* A refund.
LEMMA RefundKeepsSerial ==
  ASSUME ~Overlap, NEW p \in Procs, IInv, SerialInv, CompleteInv,
         \/ Recall(p) \/ RefundRow(p) \/ ReverseCashback(p)
         \/ ReverseCashbackId(p) \/ RefundReferral(p) \/ ReverseReward(p)
         \/ RefundReferralSave(p) \/ GiveBack(p) \/ CreditCash(p) \/ Refunded(p)
  PROVE  SerialInv' /\ CompleteInv'
<1> USE DEF At, goods, rows, world, NoJob, Settled, Creating, Finalizing, Granting,
            Releasing, Refunding
<1>a. /\ HandlersOK /\ RowsOK /\ WorldOK /\ JobsAreOrders /\ WorkIsPaid /\ RewardIsPosted
      /\ Alone /\ Listed /\ faults \in Nat
      /\ PlaceOK(p) /\ (faults = 0 => DoneAt(p)) /\ \A q \in Orders : OrderOK(q)
  BY OrderAssumption DEF IInv, TypeOK, SerialInv, CompleteInv, WorldOK
<1>b. batch[p] \subseteq Orders /\ SerialInv /\ CompleteInv
  BY <1>a DEF HandlersOK
<1>c. p \in Slots => batch[p] = {}
  BY <1>a DEF Alone
<1>1. CASE Recall(p)
  <2>0. PICK o \in Orders : o = job[p] /\ pc[p] = "recall" /\ p \in Slots /\ p # Cron
    BY <1>1, <1>a DEF Recall, JobsAreOrders, Listed, Procs
  <2>1. Went(p, {"refund"}) /\ seen'[p] = seen[p] /\ amt'[p] = amt[p]
    BY <1>1, <1>a, <2>0, GotoAlone DEF Recall, Went
  <2>2. /\ \A q \in Orders \ {o} : Same(q)
        /\ recalled'[o]
        /\ order'[o] = order[o] /\ hold'[o] = hold[o] /\ referral'[o] = referral[o]
        /\ refundRows'[o] = refundRows[o] /\ returned'[o] = returned[o]
        /\ applied'[o] = applied[o]
        /\ delivered'[o] = delivered[o] /\ payment'[o] = payment[o]
        /\ \A k \in Kinds : <<k, o>> \in posted' <=> <<k, o>> \in posted
    BY <1>1, <1>a, <2>0 DEF Recall, Same, RowsOK
  <2>3. OrderOK(o)'
    BY <1>a, <2>0, <2>1, <2>2 DEF OrderOK, Untouched, PlaceOK, Kinds
  <2>4. PlaceOK(p)'
    BY <1>a, <2>0, <2>1, <2>2 DEF Went, PlaceOK
  <2>5. faults = 0 => DoneAt(p)'
    BY <1>a, <2>0, <2>1, <2>2 DEF Went, DoneAt, Complete, SumsOK, PaidInFull, RefundedInFull,
       Released, Kinds
  <2> QED BY <1>a, <1>b, <2>0, <2>1, <2>2, <2>3, <2>4, <2>5, GoesOn DEF Went
<1>2. CASE RefundRow(p)
  <2>0. PICK o \in Orders : o = job[p] /\ pc[p] = "refund" /\ p \in Slots /\ p # Cron
    BY <1>2, <1>a DEF RefundRow, JobsAreOrders, Listed, Procs
  <2>1. \/ /\ Went(p, {"rvRead", "rvCash"}) /\ seen'[p] = seen[p] /\ amt'[p] = amt[p]
           /\ order[o].status \in Settled /\ refundRows'[o] = refundRows[o] + amt[p]
           /\ amt[p] <= Value(o) - order[o].refunded
           /\ (pc'[p] = "rvRead" => order[o].cashbackRev \/ o \in CodesOnly)
        \/ /\ Only(p) /\ pc'[p] = "idle" /\ batch'[p] = {} /\ batch[p] = {}
           /\ faults' = faults /\ Same(o)
    <3>1. CASE ~(seen[p].status \in {"paid", "refunded"} /\ amt[p] <= Value(o) - seen[p].refunded)
      BY <3>1, <1>2, <1>a, <1>c, <2>0, FinishAlone DEF RefundRow, Same
    <3>2. CASE seen[p].status \in {"paid", "refunded"} /\ amt[p] <= Value(o) - seen[p].refunded
      BY <3>2, <1>2, <1>a, <2>0, GotoAlone DEF RefundRow, Went, PlaceOK, RowsOK, HandlersOK
    <3> QED BY <3>1, <3>2
  <2>2. /\ \A q \in Orders \ {o} : Same(q)
        /\ refundRows'[o] \in {refundRows[o], refundRows[o] + amt[p]}
        /\ order'[o] = order[o] /\ hold'[o] = hold[o] /\ referral'[o] = referral[o]
        /\ returned'[o] = returned[o] /\ applied'[o] = applied[o] /\ delivered'[o] = delivered[o]
        /\ recalled'[o] = recalled[o] /\ payment'[o] = payment[o]
        /\ \A k \in Kinds : <<k, o>> \in posted' <=> <<k, o>> \in posted
    BY <1>2, <1>a, <2>0 DEF RefundRow, Same, RowsOK
  <2>3. OrderOK(o)'
    BY <1>a, <2>0, <2>1, <2>2 DEF OrderOK, Untouched, PlaceOK, Kinds
  <2>4. pc'[p] # "idle" => PlaceOK(p)'
    BY <1>a, <2>0, <2>1, <2>2 DEF Went, PlaceOK
  <2>n. /\ refundRows[o] \in Nat /\ returned[o] \in Nat /\ order[o].refunded \in Nat
        /\ amt[p] \in Nat /\ Value(o) \in Nat
    BY <1>a, <2>0, OrderAssumption DEF RowsOK, HandlersOK, OrderRow, Value
  <2>c. /\ order[o].cashbackRev => <<"cashback_reversal", o>> \in posted
        /\ seen[p] = order[o]
        /\ faults = 0 => Complete(o) /\ SumsOK(o) /\ recalled[o]
    BY <1>a, <2>0 DEF OrderOK, PlaceOK, DoneAt, Complete
  <2>d. pc'[p] # "idle" /\ faults = 0 =>
          /\ refundRows'[o] = order[o].refunded + amt[p] /\ refundRows'[o] <= Value(o)
          /\ returned[o] <= order[o].refunded
          /\ order[o].status = "paid" => PaidInFull(o)
          /\ order[o].status = "refunded" => RefundedInFull(o)
    BY <2>1, <2>n, <2>c DEF Went, SumsOK, Complete
  <2>5. pc'[p] # "idle" => (faults = 0 => DoneAt(p)')
    BY <1>a, <2>0, <2>1, <2>2, <2>n, <2>c, <2>d DEF Went, DoneAt, PaidInFull, RefundedInFull,
       Kinds
  <2>6. pc'[p] = "idle" /\ faults = 0 => Complete(o)'
    BY <1>a, <2>0, <2>1, <2>2, SameIsOK DEF Went, DoneAt
  <2> QED BY <1>a, <1>b, <2>0, <2>1, <2>2, <2>3, <2>4, <2>5, <2>6, GoesOn, Finishes DEF Went
<1>3. CASE ReverseCashback(p)
  <2>0. PICK o \in Orders : o = job[p] /\ pc[p] = "rvCash" /\ p \in Slots /\ p # Cron
    BY <1>3, <1>a DEF ReverseCashback, JobsAreOrders, Listed, Procs
  <2>1. Went(p, {"rvCashId"}) /\ seen'[p] = seen[p] /\ amt'[p] = amt[p]
    BY <1>3, <1>a, <2>0, PostIsGoto, GotoAlone DEF ReverseCashback, Went
  <2>p. posted' = posted \cup {<<"cashback_reversal", o>>}
    BY <1>3, <1>a, <2>0, PostIsGoto DEF ReverseCashback
  <2>2. /\ \A q \in Orders \ {o} : Same(q)
        /\ <<"cashback_reversal", o>> \in posted'
        /\ \A k \in Kinds \ {"cashback_reversal"} : <<k, o>> \in posted' <=> <<k, o>> \in posted
        /\ order'[o] = order[o] /\ hold'[o] = hold[o] /\ referral'[o] = referral[o]
        /\ refundRows'[o] = refundRows[o] /\ returned'[o] = returned[o]
        /\ applied'[o] = applied[o]
        /\ delivered'[o] = delivered[o] /\ recalled'[o] = recalled[o] /\ payment'[o] = payment[o]
    BY <1>3, <1>a, <2>0, <2>p DEF ReverseCashback, Same, Kinds, RowsOK
  <2>3. OrderOK(o)'
    BY <1>a, <2>0, <2>1, <2>2 DEF OrderOK, Untouched, PlaceOK, Kinds
  <2>4. PlaceOK(p)'
    BY <1>a, <2>0, <2>1, <2>2 DEF Went, PlaceOK, Kinds
  <2>5. faults = 0 => DoneAt(p)'
    BY <1>a, <2>0, <2>1, <2>2 DEF Went, DoneAt, PaidInFull, RefundedInFull, Kinds
  <2> QED BY <1>a, <1>b, <2>0, <2>1, <2>2, <2>3, <2>4, <2>5, GoesOn DEF Went
<1>4. CASE ReverseCashbackId(p)
  <2>0. PICK o \in Orders : o = job[p] /\ pc[p] = "rvCashId" /\ p \in Slots /\ p # Cron
    BY <1>4, <1>a DEF ReverseCashbackId, JobsAreOrders, Listed, Procs
  <2>1. Went(p, {"rvRead"}) /\ seen'[p] = seen[p] /\ amt'[p] = amt[p]
    BY <1>4, <1>a, <2>0, GotoAlone DEF ReverseCashbackId, Went
  <2>r. /\ order'[o].status = order[o].status /\ order'[o].refunded = order[o].refunded
        /\ order'[o].cashbackTx = order[o].cashbackTx
        /\ order'[o].cashbackRev
        /\ \A q \in Orders \ {o} : order'[q] = order[q]
    BY <1>4, <1>a, <2>0, RowFields DEF ReverseCashbackId, RowsOK
  <2>2. /\ \A q \in Orders \ {o} : Same(q)
        /\ hold'[o] = hold[o] /\ referral'[o] = referral[o] /\ refundRows'[o] = refundRows[o]
        /\ returned'[o] = returned[o] /\ applied'[o] = applied[o] /\ delivered'[o] = delivered[o]
        /\ recalled'[o] = recalled[o] /\ payment'[o] = payment[o]
        /\ \A k \in Kinds : <<k, o>> \in posted' <=> <<k, o>> \in posted
    BY <1>4, <1>a, <2>0, <2>r DEF ReverseCashbackId, Same, RowsOK
  <2>3. OrderOK(o)'
    BY <1>a, <2>0, <2>1, <2>2, <2>r DEF OrderOK, Untouched, PlaceOK, Kinds
  <2>4. PlaceOK(p)'
    BY <1>a, <2>0, <2>1, <2>2, <2>r DEF Went, PlaceOK, Kinds
  <2>5. faults = 0 => DoneAt(p)'
    BY <1>a, <2>0, <2>1, <2>2, <2>r DEF Went, DoneAt, PaidInFull, RefundedInFull, Kinds
  <2> QED BY <1>a, <1>b, <2>0, <2>1, <2>2, <2>3, <2>4, <2>5, GoesOn DEF Went
<1>5. CASE RefundReferral(p)
  <2>0. PICK o \in Orders : o = job[p] /\ pc[p] = "rvRead" /\ p \in Slots /\ p # Cron
    BY <1>5, <1>a DEF RefundReferral, JobsAreOrders, Listed, Procs
  <2>1. Went(p, {"rvReward", "rvSave", "giveBack"}) /\ seen'[p] = seen[p] /\ amt'[p] = amt[p]
        /\ (pc'[p] = "rvReward" <=> referral[o] = "credited")
        /\ (pc'[p] = "rvSave" <=> referral[o] = "pending")
    BY <1>5, <1>a, <2>0, GotoAlone DEF RefundReferral, Went
  <2>2. \A q \in Orders : Same(q)
    BY <1>5, <1>a, <2>0 DEF RefundReferral, Same, RowsOK
  <2>4. PlaceOK(p)'
    BY <1>a, <2>0, <2>1, <2>2 DEF Same, Went, PlaceOK, OrderOK
  <2>5. faults = 0 => DoneAt(p)'
    BY <1>a, <2>0, <2>1, <2>2 DEF Same, Went, DoneAt, PaidInFull, RefundedInFull, Kinds,
       PlaceOK, OrderOK
  <2> QED BY <1>a, <1>b, <2>0, <2>1, <2>2, <2>4, <2>5, GoesOn DEF Went
<1>6. CASE ReverseReward(p)
  <2>0. PICK o \in Orders : o = job[p] /\ pc[p] = "rvReward" /\ p \in Slots /\ p # Cron
    BY <1>6, <1>a DEF ReverseReward, JobsAreOrders, Listed, Procs
  <2>1. Went(p, {"rvSave"}) /\ seen'[p] = seen[p] /\ amt'[p] = amt[p]
    BY <1>6, <1>a, <2>0, PostIsGoto, GotoAlone DEF ReverseReward, Went
  <2>p. posted' = posted \cup {<<"reward_reversal", o>>}
    BY <1>6, <1>a, <2>0, PostIsGoto DEF ReverseReward
  <2>2. /\ \A q \in Orders \ {o} : Same(q)
        /\ <<"reward_reversal", o>> \in posted'
        /\ \A k \in Kinds \ {"reward_reversal"} : <<k, o>> \in posted' <=> <<k, o>> \in posted
        /\ order'[o] = order[o] /\ hold'[o] = hold[o] /\ referral'[o] = referral[o]
        /\ refundRows'[o] = refundRows[o] /\ returned'[o] = returned[o]
        /\ applied'[o] = applied[o]
        /\ delivered'[o] = delivered[o] /\ recalled'[o] = recalled[o] /\ payment'[o] = payment[o]
    BY <1>6, <1>a, <2>0, <2>p DEF ReverseReward, Same, Kinds, RowsOK
  <2>3. OrderOK(o)'
    BY <1>a, <2>0, <2>1, <2>2 DEF OrderOK, Untouched, PlaceOK, Kinds
  <2>4. PlaceOK(p)'
    BY <1>a, <2>0, <2>1, <2>2 DEF Went, PlaceOK, Kinds
  <2>5. faults = 0 => DoneAt(p)'
    BY <1>a, <2>0, <2>1, <2>2 DEF Went, DoneAt, Kinds
  <2> QED BY <1>a, <1>b, <2>0, <2>1, <2>2, <2>3, <2>4, <2>5, GoesOn DEF Went
<1>7. CASE RefundReferralSave(p)
  <2>0. PICK o \in Orders : o = job[p] /\ pc[p] = "rvSave" /\ p \in Slots /\ p # Cron
    BY <1>7, <1>a DEF RefundReferralSave, JobsAreOrders, Listed, Procs
  <2>1. Went(p, {"giveBack"}) /\ seen'[p] = seen[p] /\ amt'[p] = amt[p]
    BY <1>7, <1>a, <2>0, GotoAlone DEF RefundReferralSave, Went
  <2>2. /\ \A q \in Orders \ {o} : Same(q)
        /\ referral'[o] = "reversed"
        /\ order'[o] = order[o] /\ hold'[o] = hold[o] /\ refundRows'[o] = refundRows[o]
        /\ returned'[o] = returned[o] /\ applied'[o] = applied[o] /\ delivered'[o] = delivered[o]
        /\ recalled'[o] = recalled[o] /\ payment'[o] = payment[o]
        /\ \A k \in Kinds : <<k, o>> \in posted' <=> <<k, o>> \in posted
    BY <1>7, <1>a, <2>0 DEF RefundReferralSave, Same, RowsOK
  <2>3. OrderOK(o)'
    BY <1>a, <2>0, <2>1, <2>2 DEF OrderOK, Untouched, PlaceOK, Kinds
  <2>4. PlaceOK(p)'
    BY <1>a, <2>0, <2>1, <2>2 DEF Went, PlaceOK, Kinds
  <2>5. faults = 0 => DoneAt(p)'
    BY <1>a, <2>0, <2>1, <2>2 DEF Went, DoneAt, Kinds
  <2> QED BY <1>a, <1>b, <2>0, <2>1, <2>2, <2>3, <2>4, <2>5, GoesOn DEF Went
<1>8. CASE GiveBack(p)
  <2>0. PICK o \in Orders : o = job[p] /\ pc[p] = "giveBack" /\ p \in Slots /\ p # Cron
    BY <1>8, <1>a DEF GiveBack, JobsAreOrders, Listed, Procs
  <2>1. Went(p, {"creditCash", "refunded"}) /\ seen'[p] = seen[p] /\ amt'[p] = amt[p]
    BY <1>8, <1>a, <2>0, GotoAlone DEF GiveBack, Went
  <2>n. /\ refundRows[o] \in Nat /\ returned[o] \in Nat /\ order[o].refunded \in Nat
        /\ amt[p] \in Nat /\ Value(o) \in Nat
        /\ Share(o, amt[p]) \in Nat /\ Share(o, amt[p]) <= amt[p]
    BY <1>a, <2>0, OrderAssumption, ShareIsPart DEF RowsOK, HandlersOK, OrderRow, Value
  <2>2. /\ \A q \in Orders \ {o} : Same(q)
        /\ returned'[o] = returned[o] + Share(o, amt[p])
        /\ order'[o] = order[o] /\ hold'[o] = hold[o] /\ referral'[o] = referral[o]
        /\ refundRows'[o] = refundRows[o] /\ applied'[o] = applied[o]
        /\ delivered'[o] = delivered[o]
        /\ recalled'[o] = recalled[o] /\ payment'[o] = payment[o]
        /\ \A k \in Kinds : <<k, o>> \in posted' <=> <<k, o>> \in posted
    BY <1>8, <1>a, <2>0 DEF GiveBack, Same, RowsOK
  <2>3. OrderOK(o)'
    BY <1>a, <2>0, <2>1, <2>2 DEF OrderOK, Untouched, PlaceOK, Kinds
  <2>4. PlaceOK(p)'
    BY <1>a, <2>0, <2>1, <2>2 DEF Went, PlaceOK, Kinds
  <2>s. faults = 0 =>
          /\ refundRows'[o] = order'[o].refunded + amt'[p] /\ refundRows'[o] <= Value(o)
          /\ returned'[o] <= order[o].refunded + Share(o, amt[p])
    <3>1. faults = 0 => /\ refundRows[o] = order[o].refunded + amt[p] /\ refundRows[o] <= Value(o)
                        /\ returned[o] <= order[o].refunded
      BY <1>a, <2>0 DEF DoneAt
    <3> QED BY <2>1, <2>2, <2>n, <3>1
  <2>m. order[o].refunded + Share(o, amt[p]) <= order[o].refunded + amt[p]
    BY <2>n
  <2>r. faults = 0 => returned'[o] <= refundRows'[o]
    BY <2>n, <2>m, <2>s, <2>2, <2>1
  <2>5. faults = 0 => DoneAt(p)'
    BY <1>a, <2>0, <2>1, <2>2, <2>s, <2>r DEF Went, DoneAt, Kinds
  <2> QED BY <1>a, <1>b, <2>0, <2>1, <2>2, <2>3, <2>4, <2>5, GoesOn DEF Went
<1>10. CASE CreditCash(p)
  <2>0. PICK o \in Orders : o = job[p] /\ pc[p] = "creditCash" /\ p \in Slots /\ p # Cron
    BY <1>10, <1>a DEF CreditCash, JobsAreOrders, Listed, Procs
  <2>1. Went(p, {"refunded"}) /\ seen'[p] = seen[p] /\ amt'[p] = amt[p]
    BY <1>10, <1>a, <2>0, GotoAlone DEF CreditCash, Went
  <2>n. /\ refundRows[o] \in Nat /\ returned[o] \in Nat /\ order[o].refunded \in Nat
        /\ amt[p] \in Nat /\ Value(o) \in Nat
        /\ Share(o, amt[p]) \in Nat /\ Share(o, amt[p]) <= amt[p]
    BY <1>a, <2>0, OrderAssumption, ShareIsPart DEF RowsOK, HandlersOK, OrderRow, Value
  <2>2. /\ \A q \in Orders \ {o} : Same(q)
        /\ returned'[o] = returned[o] + amt[p] - Share(o, amt[p])
        /\ order'[o] = order[o] /\ hold'[o] = hold[o] /\ referral'[o] = referral[o]
        /\ refundRows'[o] = refundRows[o] /\ applied'[o] = applied[o]
        /\ delivered'[o] = delivered[o]
        /\ recalled'[o] = recalled[o] /\ payment'[o] = payment[o]
        /\ \A k \in Kinds : <<k, o>> \in posted' <=> <<k, o>> \in posted
    BY <1>10, <1>a, <2>0 DEF CreditCash, Same, RowsOK
  <2>3. OrderOK(o)'
    BY <1>a, <2>0, <2>1, <2>2 DEF OrderOK, Untouched, PlaceOK, Kinds
  <2>4. PlaceOK(p)'
    BY <1>a, <2>0, <2>1, <2>2 DEF Went, PlaceOK, Kinds
  <2>s. faults = 0 =>
          /\ refundRows'[o] = order'[o].refunded + amt'[p] /\ refundRows'[o] <= Value(o)
          /\ returned'[o] <= refundRows'[o]
    <3>1. faults = 0 => /\ refundRows[o] = order[o].refunded + amt[p] /\ refundRows[o] <= Value(o)
                        /\ returned[o] <= order[o].refunded + Share(o, amt[p])
      BY <1>a, <2>0 DEF DoneAt
    <3> QED BY <2>1, <2>2, <2>n, <3>1
  <2>5. faults = 0 => DoneAt(p)'
    BY <1>a, <2>0, <2>1, <2>2, <2>s DEF Went, DoneAt, Kinds
  <2> QED BY <1>a, <1>b, <2>0, <2>1, <2>2, <2>3, <2>4, <2>5, GoesOn DEF Went
<1>9. CASE Refunded(p)
  <2>0. PICK o \in Orders : o = job[p] /\ pc[p] = "refunded" /\ p \in Slots /\ p # Cron
    BY <1>9, <1>a DEF Refunded, JobsAreOrders, Listed, Procs
  <2>1. Only(p) /\ pc'[p] = "idle" /\ batch'[p] = {} /\ batch[p] = {} /\ faults' = faults
    BY <1>9, <1>a, <1>c, <2>0, FinishAlone DEF Refunded
  <2>r. /\ order'[o].status = "refunded" /\ order'[o].refunded = seen[p].refunded + amt[p]
        /\ order'[o].cashbackTx = order[o].cashbackTx
        /\ order'[o].cashbackRev = order[o].cashbackRev
        /\ \A q \in Orders \ {o} : order'[q] = order[q]
    BY <1>9, <1>a, <2>0, RowFields DEF Refunded, RowsOK
  <2>2. /\ \A q \in Orders \ {o} : Same(q)
        /\ hold'[o] = hold[o] /\ referral'[o] = referral[o] /\ refundRows'[o] = refundRows[o]
        /\ returned'[o] = returned[o] /\ applied'[o] = applied[o] /\ delivered'[o] = delivered[o]
        /\ recalled'[o] = recalled[o] /\ payment'[o] = payment[o]
        /\ \A k \in Kinds : <<k, o>> \in posted' <=> <<k, o>> \in posted
    BY <1>9, <1>a, <2>0, <2>r DEF Refunded, Same, RowsOK
  <2>3. OrderOK(o)'
    BY <1>a, <2>0, <2>1, <2>2, <2>r DEF OrderOK, Untouched, PlaceOK, Kinds
  <2>6. faults = 0 => Complete(o)'
    BY <1>a, <2>0, <2>1, <2>2, <2>r DEF DoneAt, Complete, SumsOK, Kinds, RefundedInFull, PlaceOK
  <2> QED BY <1>a, <1>b, <2>0, <2>1, <2>2, <2>3, <2>6, Finishes
<1> QED BY <1>1, <1>2, <1>3, <1>4, <1>5, <1>6, <1>7, <1>8, <1>9, <1>10

\* Two places of the cron at which it works on no order.
LEMMA NoJobIsOK ==
  \A p \in Procs : pc'[p] \in NoJob => PlaceOK(p)' /\ DoneAt(p)'
  BY DEF PlaceOK, DoneAt, Creating, Finalizing, Granting, Releasing, Refunding, NoJob

\* The cron is done with an order and has others on its list.
LEMMA Rests ==
  ASSUME SerialInv, CompleteInv, NEW p \in Procs, NEW o \in Orders, job[p] = o,
         pc[p] \in Releasing, Only(p), pc'[p] = "cronNext", batch'[p] = batch[p],
         batch[p] # {}, batch[p] \subseteq Orders, faults \in Nat,
         faults' = faults \/ faults' = faults + 1,
         \A q \in Orders \ {o} : Same(q), Same(o) \/ OrderOK(o)',
         faults' = 0 => Complete(o)'
  PROVE  SerialInv' /\ CompleteInv'
<1>0. p = Cron /\ o \notin batch[p] /\ pc[p] \notin NoJob /\ pc[p] # "cronFail"
  BY DEF SerialInv, Alone, Listed, Procs, NoJob, Releasing
<1>1. Alone'
  BY <1>0 DEF SerialInv, Alone, Only, NoJob
<1>2. Listed'
  BY <1>0 DEF SerialInv, Listed, Only, Same, NoJob, Procs
<1>3. ASSUME NEW q \in Orders
      PROVE  OrderOK(q)'
  BY SameIsOK DEF SerialInv
<1>4. \A q \in Procs : PlaceOK(q)' /\ DoneAt(q)'
  BY IdleIsOK, NoJobIsOK DEF Only, NoJob
<1>5. ASSUME faults' = 0
      PROVE  /\ \A x \in Orders : (\A q \in Procs : ~Working(q, x)') => Complete(x)'
             /\ pc'[Cron] # "cronFail" => \A x \in batch'[Cron] : SumsOK(x)'
  <2>1. faults = 0
    BY <1>5
  <2>2. ASSUME NEW x \in Orders, \A q \in Procs : ~Working(q, x)'
        PROVE  Complete(x)'
    <3>1. CASE x = o
      BY <1>5, <3>1
    <3>2. CASE x # o
      <4>1. x \notin batch[p]
        BY <2>2 DEF Working
      <4>2. \A q \in Procs : ~Working(q, x)
        BY <3>2, <4>1 DEF Working, Only, NoJob
      <4>3. Complete(x)
        BY <2>1, <4>2 DEF CompleteInv
      <4> QED BY <3>2, <4>3, SameIsOK
    <3> QED BY <3>1, <3>2
  <2>3. ASSUME NEW x \in batch'[Cron]
        PROVE  SumsOK(x)'
    <3>1. x \in batch[Cron] /\ x # o /\ x \in Orders
      BY <1>0, <2>3
    <3>2. SumsOK(x)
      BY <1>0, <2>1, <3>1 DEF CompleteInv
    <3> QED BY <3>1, <3>2, SameIsOK
  <2> QED BY <2>2, <2>3
<1> QED BY <1>1, <1>2, <1>3, <1>4, <1>5 DEF SerialInv, CompleteInv

\* The end of a cancel or of one order of the cron.
LEMMA RestKeepsSerial ==
  ASSUME SerialInv, CompleteInv, HandlersOK, NEW p \in Procs, NEW o \in Orders, job[p] = o,
         pc[p] \in Releasing, Rest(p), faults \in Nat,
         faults' = faults \/ faults' = faults + 1,
         \A q \in Orders \ {o} : Same(q), Same(o) \/ OrderOK(o)',
         faults' = 0 => Complete(o)'
  PROVE  SerialInv' /\ CompleteInv'
<1>1. Alone /\ pc[p] # "idle" /\ pc[p] \notin NoJob /\ batch[p] \subseteq Orders
  BY DEF SerialInv, Releasing, NoJob, HandlersOK
<1>2. CASE batch[p] = {}
  <2>1. Only(p) /\ pc'[p] = "idle" /\ batch'[p] = {}
    BY <1>1, <1>2, FinishAlone DEF Rest
  <2> QED BY <1>1, <1>2, <2>1, Finishes
<1>3. CASE batch[p] # {}
  <2>1. Only(p) /\ pc'[p] = "cronNext" /\ batch'[p] = batch[p]
    BY <1>1, <1>3, GotoAlone DEF Rest
  <2> QED BY <1>1, <1>3, <2>1, Rests
<1> QED BY <1>2, <1>3

\* The referral of a failed order.
LEMMA ReversalKeepsSerial ==
  ASSUME NEW p \in Procs, IInv, SerialInv, CompleteInv, ReverseRead(p) \/ ReverseSave(p)
  PROVE  SerialInv' /\ CompleteInv'
<1> USE DEF At, goods, rows, world, NoJob, Settled, Creating, Finalizing, Granting,
            Releasing, Refunding
<1>a. /\ HandlersOK /\ RowsOK /\ JobsAreOrders /\ Alone /\ faults \in Nat
      /\ PlaceOK(p) /\ (faults = 0 => DoneAt(p)) /\ \A q \in Orders : OrderOK(q)
      /\ batch[p] \subseteq Orders
  BY OrderAssumption DEF IInv, TypeOK, SerialInv, CompleteInv, WorldOK, HandlersOK
<1>0. PICK o \in Orders : o = job[p] /\ pc[p] \in {"revRead", "revSave"} /\ pc[p] # "idle"
  BY <1>a DEF ReverseRead, ReverseSave, JobsAreOrders
<1>s. order[o].status = "failed"
  BY <1>0, <1>a DEF PlaceOK
<1>1. CASE ReverseRead(p)
  <2>1. /\ \A q \in Orders : Same(q)
        /\ faults' = faults /\ pc[p] = "revRead"
    BY <1>1 DEF ReverseRead, Same
  <2>2. CASE referral[job[p]] = "pending"
    <3>1. Went(p, {"revSave"}) /\ pc'[p] = "revSave" /\ seen'[p] = seen[p] /\ amt'[p] = amt[p]
      BY <1>1, <1>a, <1>0, <2>1, <2>2, GotoAlone DEF ReverseRead, Went
    <3>2. PlaceOK(p)'
      BY <1>0, <1>s, <2>1, <2>2, <3>1 DEF PlaceOK, Same, Went
    <3>3. faults = 0 => DoneAt(p)'
      BY <1>a, <1>0, <2>1, <2>2, <3>1 DEF DoneAt, SumsOK, Same, Went
    <3> QED BY <1>a, <1>0, <2>1, <3>1, <3>2, <3>3, GoesOn DEF Went
  <2>3. CASE referral[job[p]] # "pending"
    <3>1. Rest(p)
      BY <1>1, <2>3 DEF ReverseRead
    <3>2. faults = 0 => Complete(o)
      BY <1>a, <1>0, <1>s, <2>1, <2>3 DEF DoneAt, Complete, Released
    <3>3. faults' = 0 => Complete(o)'
      BY <2>1, <3>2, SameIsOK
    <3> QED BY <1>a, <1>0, <2>1, <3>1, <3>3, RestKeepsSerial
  <2> QED BY <2>2, <2>3
<1>2. CASE ReverseSave(p)
  <2>1. /\ \A q \in Orders \ {o} : Same(q)
        /\ referral'[o] = "reversed" /\ Rest(p)
        /\ faults' = faults /\ pc[p] = "revSave"
        /\ order'[o] = order[o] /\ hold'[o] = hold[o] /\ refundRows'[o] = refundRows[o]
        /\ returned'[o] = returned[o] /\ applied'[o] = applied[o] /\ delivered'[o] = delivered[o]
        /\ payment'[o] = payment[o] /\ posted' = posted
    BY <1>2, <1>a, <1>0 DEF ReverseSave, Same, RowsOK
  <2>2. OrderOK(o)'
    BY <1>a, <1>0, <1>s, <2>1 DEF OrderOK, Untouched, PlaceOK, Kinds
  <2>3. faults' = 0 => Complete(o)'
    BY <1>a, <1>0, <1>s, <2>1 DEF DoneAt, Complete, Released, SumsOK
  <2> QED BY <1>a, <1>0, <2>1, <2>2, <2>3, RestKeepsSerial
<1> QED BY <1>1, <1>2

\* A handler stops, or a step of it fails and it goes on with the next.
LEMMA FaultKeepsSerial ==
  ASSUME NEW p \in Procs, IInv, SerialInv, CompleteInv, Stop(p) \/ Skip(p) \/ Conflict(p)
  PROVE  SerialInv' /\ CompleteInv'
<1>a. /\ HandlersOK /\ JobsAreOrders /\ Alone /\ Listed /\ faults \in Nat /\ PlaceOK(p)
      /\ \A q \in Orders : OrderOK(q)
  BY OrderAssumption DEF IInv, TypeOK, SerialInv, WorldOK
<1>b. \A q \in Orders : Same(q)
  BY DEF Stop, Skip, Conflict, Same, rows, goods, world
<1>1. CASE Conflict(p)
  BY <1>1, <1>a DEF Alone, Conflict, At
<1>2. CASE Stop(p)
  <2>1. Only(p) /\ pc'[p] = "idle" /\ batch'[p] = {} /\ faults' = faults + 1
    BY <1>2, <1>a, FinishAlone DEF Stop
  <2>2. NoOrder \notin Orders
    BY OrderAssumption
  <2> QED BY <1>a, <1>b, <2>1, <2>2, Finishes
<1>3. CASE Skip(p)
  <2>0. PICK o \in Orders : o = job[p] /\ pc[p] \in Releasing /\ pc[p] # "idle"
    BY <1>3, <1>a DEF Skip, JobsAreOrders, Releasing
  <2>1. faults' = faults + 1 /\ faults' # 0
    BY <1>3, <1>a DEF Skip
  <2>2. ASSUME NEW l \in {"couponBack", "revRead"}, Goto(p, l)
        PROVE  SerialInv'
    <3>1. /\ Only(p) /\ pc'[p] = l /\ batch'[p] = batch[p] /\ job'[p] = job[p]
      BY <2>2, <2>0, <1>a, GotoAlone
    <3>2. Alone' /\ Listed'
      BY <1>a, <1>b, <2>0, <3>1 DEF Alone, Listed, Only, Same, Releasing, NoJob, Procs,
         HandlersOK
    <3>3. PlaceOK(p)'
      BY <1>a, <1>b, <2>0, <3>1 DEF PlaceOK, Same, Releasing, Creating, Granting, Finalizing,
         Refunding
    <3>4. \A q \in Procs : PlaceOK(q)'
      BY <3>1, <3>3, IdleIsOK DEF Only
    <3>5. ASSUME NEW q \in Orders
          PROVE  OrderOK(q)'
      BY <1>a, <1>b, SameIsOK
    <3> QED BY <3>2, <3>4, <3>5 DEF SerialInv
  <2>3. CASE Rest(p)
    BY <1>a, <1>b, <2>0, <2>1, <2>3, RestKeepsSerial
  <2>4. Rest(p) \/ \E l \in {"couponBack", "revRead"} : Goto(p, l)
    BY <1>3 DEF Skip, AfterRelease
  <2>5. SerialInv' /\ ~Rest(p) => CompleteInv'
    BY <2>1 DEF CompleteInv
  <2> QED BY <2>2, <2>3, <2>4, <2>5
<1> QED BY <1>1, <1>2, <1>3

\* A request starts a handler.
LEMMA RequestKeepsSerial ==
  ASSUME ~Overlap, NEW p \in Procs, NEW o \in Orders, IInv, SerialInv, CompleteInv,
         \/ CreateOrder(p, o) \/ Ipn(p, o) \/ Cancel(p, o)
         \/ \E a \in Amounts : Refund(p, o, a)
  PROVE  SerialInv' /\ CompleteInv'
<1> USE DEF goods, rows, world, NoJob, Settled, Creating, Finalizing, Granting,
            Releasing, Refunding
<1>a. /\ HandlersOK /\ RowsOK /\ WorldOK /\ CheckoutIsAlone /\ WorkIsPaid /\ Alone
      /\ faults \in Nat /\ \A q \in Orders : OrderOK(q)
  BY OrderAssumption DEF IInv, TypeOK, SerialInv, WorldOK
<1>c. p \in Slots
  BY DEF CreateOrder, Ipn, Cancel, Refund
<1>k. (\A q \in Procs : ~Working(q, o)) /\ faults = 0 => Complete(o) /\ SumsOK(o)
  BY DEF CompleteInv, Complete
<1>1. CASE CreateOrder(p, o)
  <2>1. PICK l \in {"referral", "hold", "offer"} :
          /\ Start(p, l, o)
          /\ l = "referral" <=> o \in Referred
          /\ l = "offer" => o \notin WithWallet
    BY <1>1 DEF CreateOrder, AfterReferral
  <2>2. /\ Only(p) /\ pc[p] = "idle" /\ batch[p] = {} /\ batch'[p] = {} /\ pc'[p] = l
        /\ job'[p] = o /\ seen'[p] = seen[p] /\ \A q \in Procs, x \in Orders : ~Working(q, x)
    BY <1>a, <2>1, StartAlone
  <2>3. /\ order[o].status = "none" /\ order' = [order EXCEPT ![o].status = "pending"]
        /\ UNCHANGED <<hold, referral, posted, refundRows, returned, usage, applied, goods,
                       world, amt>>
    BY <1>1 DEF CreateOrder
  <2>4. /\ order'[o].status = "pending" /\ order'[o].cashbackTx = order[o].cashbackTx
        /\ order'[o].cashbackRev = order[o].cashbackRev /\ order'[o].refunded = order[o].refunded
        /\ \A q \in Orders : q # o => order'[q] = order[q]
    BY <1>a, <2>3, RowFields DEF RowsOK
  <2>5. \A q \in Orders \ {o} : Same(q)
    BY <2>3, <2>4 DEF Same
  <2>6. OrderOK(o) /\ hold[o] = "none" /\ referral[o] = "none" /\ payment[o] = "none"
    BY <1>a, <2>3 DEF OrderOK, CheckoutIsAlone
  <2>7. OrderOK(o)'
    BY <2>3, <2>4, <2>6 DEF OrderOK, Untouched
  <2>8. PlaceOK(p)'
    BY <2>1, <2>2, <2>3, <2>4, <2>6 DEF PlaceOK
  <2>9. faults = 0 => SumsOK(o)'
    BY <1>k, <2>2, <2>3, <2>4 DEF SumsOK
  <2>10. faults = 0 => DoneAt(p)'
    BY <2>1, <2>2, <2>9 DEF DoneAt
  <2>11. faults' = faults
    BY <2>3
  <2> QED BY <1>c, <2>2, <2>5, <2>7, <2>8, <2>10, <2>11, Starts
<1>2. CASE Ipn(p, o) \/ Cancel(p, o)
  <2>1. PICK l \in {"markRead", "cancel"} :
          Start(p, l, o) /\ (l = "markRead" => order[o].status = "pending")
    BY <1>2 DEF Ipn, Cancel
  <2>2. /\ Only(p) /\ pc[p] = "idle" /\ batch[p] = {} /\ batch'[p] = {} /\ pc'[p] = l
        /\ job'[p] = o /\ seen'[p] = seen[p] /\ \A q \in Procs, x \in Orders : ~Working(q, x)
    BY <1>a, <2>1, StartAlone
  <2>3. /\ \A q \in Orders : Same(q)
        /\ faults' = faults /\ order' = order
    BY <1>2 DEF Ipn, Cancel, Same
  <2>4. PlaceOK(p)'
    BY <2>1, <2>2, <2>3 DEF PlaceOK
  <2>5. faults = 0 => Complete(o) /\ Complete(o)' /\ SumsOK(o)'
    BY <1>k, <2>2, <2>3, SameIsOK
  <2>6. faults = 0 /\ l = "markRead" => (o \in Referred => referral'[o] = "pending")
    BY <2>1, <2>3, <2>5 DEF Complete, Same
  <2>7. faults = 0 => DoneAt(p)'
    BY <2>1, <2>2, <2>5, <2>6 DEF DoneAt
  <2> QED BY <1>c, <2>2, <2>3, <2>4, <2>7, Starts
<1>3. CASE \E a \in Amounts : Refund(p, o, a)
  <2>2. /\ Only(p) /\ pc[p] = "idle" /\ batch[p] = {} /\ batch'[p] = {} /\ pc'[p] = "recall"
        /\ job'[p] = o /\ seen'[p] = order[o] /\ \A q \in Procs : ~Working(q, o)
    BY <1>3, <1>a DEF Refund, Ready, Quiet, Only, Alone, HandlersOK, Working
  <2>3. /\ \A q \in Orders : Same(q)
        /\ faults' = faults /\ order' = order
    BY <1>3 DEF Refund, Same
  <2>4. PlaceOK(p)'
    BY <2>2, <2>3 DEF PlaceOK
  <2>5. faults = 0 => Complete(o)' /\ SumsOK(o)'
    BY <1>k, <2>2, <2>3, SameIsOK
  <2>7. faults = 0 => DoneAt(p)'
    BY <2>2, <2>5 DEF DoneAt
  <2> QED BY <1>c, <2>2, <2>3, <2>4, <2>7, Starts
<1> QED BY <1>1, <1>2, <1>3

\* The cron selects the expired orders, fails them and takes them one by one.
LEMMA CronKeepsSerial ==
  ASSUME ~Overlap, IInv, SerialInv, CompleteInv, CronJob
  PROVE  SerialInv' /\ CompleteInv'
<1> USE DEF At, goods, rows, world, NoJob, Settled, Creating, Finalizing, Granting,
            Releasing, Refunding
<1>a. /\ HandlersOK /\ RowsOK /\ Alone /\ Listed /\ \A q \in Orders : OrderOK(q)
      /\ Cron \in Procs /\ batch[Cron] \subseteq Orders /\ Cron \notin Slots
  BY OrderAssumption DEF IInv, TypeOK, SerialInv, HandlersOK, Procs
<1>1. CASE SelectExpired
  <2>1. /\ Only(Cron) /\ pc'[Cron] = "cronFail" /\ faults' = faults
        /\ \A q \in Orders : Same(q)
        /\ \A q \in batch'[Cron] : q \in Orders /\ order'[q].status = "pending"
        /\ \A q \in Procs, x \in Orders : ~Working(q, x)
    BY <1>1, <1>a DEF SelectExpired, Ready, Quiet, Only, Alone, HandlersOK, Working, Same, Expired
  <2>2. Alone' /\ Listed'
    BY <2>1, <1>a DEF Alone, Listed, Only, Procs
  <2>3. \A q \in Procs : PlaceOK(q)' /\ DoneAt(q)'
    BY <2>1, NoJobIsOK DEF Only
  <2>4. ASSUME NEW q \in Orders
        PROVE  OrderOK(q)'
    BY <1>a, <2>1, SameIsOK
  <2>5. ASSUME NEW q \in Orders, faults' = 0
        PROVE  Complete(q)'
    <3>1. Complete(q)
      BY <2>1, <2>5 DEF CompleteInv
    <3> QED BY <2>1, <3>1, SameIsOK
  <2> QED BY <2>1, <2>2, <2>3, <2>4, <2>5 DEF SerialInv, CompleteInv
<1>2. CASE FailExpired
  <2>0. pc[Cron] = "cronFail" /\ Goto(Cron, "cronNext") /\ faults' = faults
    BY <1>2 DEF FailExpired
  <2>1. Only(Cron) /\ pc'[Cron] = "cronNext" /\ batch'[Cron] = batch[Cron]
    BY <1>a, <2>0, GotoAlone
  <2>2. \A q \in Orders \ batch[Cron] : Same(q)
    BY <1>2, <1>a DEF FailExpired, Same
  <2>3. ASSUME NEW q \in batch[Cron]
        PROVE  /\ order[q].status = "pending" /\ order'[q].status = "failed"
               /\ order'[q].cashbackTx = order[q].cashbackTx
               /\ order'[q].cashbackRev = order[q].cashbackRev
               /\ order'[q].refunded = order[q].refunded
    <3>1. order'[q] = Failed(order[q]) /\ order[q] \in OrderRow
      BY <1>2, <1>a DEF FailExpired, RowsOK
    <3>2. order[q].status = "pending"
      BY <1>a, <2>0 DEF Listed
    <3> QED BY <3>1, <3>2, RowWhole
  <2>4. UNCHANGED <<hold, referral, posted, refundRows, returned, applied, goods, payment>>
    BY <1>2 DEF FailExpired
  <2>5. Alone' /\ Listed'
    BY <1>a, <2>1, <2>3 DEF Alone, Listed, Only, Procs
  <2>6. \A q \in Procs : PlaceOK(q)' /\ DoneAt(q)'
    BY <2>1, NoJobIsOK DEF Only
  <2>7. ASSUME NEW q \in Orders
        PROVE  OrderOK(q)'
    <3>1. CASE q \in batch[Cron]
      <4>1. OrderOK(q)
        BY <1>a
      <4> QED BY <3>1, <4>1, <2>3, <2>4 DEF OrderOK, Untouched
    <3>2. CASE q \notin batch[Cron]
      BY <1>a, <2>2, <3>2, SameIsOK
    <3> QED BY <3>1, <3>2
  <2>8. ASSUME faults' = 0, NEW q \in Orders, \A r \in Procs : ~Working(r, q)'
        PROVE  Complete(q)'
    <3>1. q \notin batch[Cron]
      BY <2>1, <2>8, <1>a DEF Working
    <3>2. \A r \in Procs : ~Working(r, q)
      BY <2>0, <2>1, <3>1 DEF Working, Only
    <3>3. Complete(q)
      BY <2>0, <2>8, <3>2 DEF CompleteInv
    <3> QED BY <2>2, <3>1, <3>3, SameIsOK
  <2>9. ASSUME faults' = 0, NEW q \in batch'[Cron]
        PROVE  SumsOK(q)'
    <3>1. q \in Orders /\ \A r \in Procs : ~Working(r, q)
      BY <1>a, <2>0, <2>1, <2>9 DEF Working, Only
    <3>2. SumsOK(q)
      BY <2>0, <2>9, <3>1 DEF CompleteInv, Complete
    <3> QED BY <2>1, <2>3, <2>4, <2>9, <3>2 DEF SumsOK
  <2> QED BY <2>5, <2>6, <2>7, <2>8, <2>9 DEF SerialInv, CompleteInv
<1>3. ASSUME NEW o \in Orders, FailNext(o)
      PROVE  SerialInv' /\ CompleteInv'
  <2>1. /\ pc[Cron] = "cronNext" /\ o \in batch[Cron] /\ Only(Cron) /\ pc'[Cron] = "relRead"
        /\ job'[Cron] = o /\ batch'[Cron] = batch[Cron] \ {o} /\ faults' = faults
    BY <1>3, <1>a DEF FailNext, Only, Alone, HandlersOK
  <2>2. \A q \in Orders : Same(q)
    BY <1>3 DEF FailNext, Same
  <2>3. Alone' /\ Listed'
    BY <1>a, <2>1, <2>2 DEF Alone, Listed, Only, Same, Procs
  <2>4. order'[o].status = "failed"
    BY <1>a, <2>1, <2>2 DEF Listed, Same
  <2>5. PlaceOK(Cron)'
    BY <2>1, <2>4 DEF PlaceOK
  <2>6. \A q \in Procs : PlaceOK(q)'
    BY <2>1, <2>5, IdleIsOK DEF Only
  <2>7. ASSUME NEW q \in Orders
        PROVE  OrderOK(q)'
    BY <1>a, <2>2, SameIsOK
  <2>8. ASSUME faults' = 0, NEW q \in batch[Cron]
        PROVE  SumsOK(q)'
    <3>1. SumsOK(q) /\ q \in Orders
      BY <1>a, <2>1, <2>8 DEF CompleteInv
    <3> QED BY <2>2, <3>1, SameIsOK
  <2>9. faults' = 0 => DoneAt(Cron)'
    BY <2>1, <2>8 DEF DoneAt
  <2>10. \A q \in Procs : faults' = 0 => DoneAt(q)'
    BY <2>1, <2>9, IdleIsOK DEF Only
  <2>11. ASSUME faults' = 0, NEW q \in Orders, \A r \in Procs : ~Working(r, q)'
         PROVE  Complete(q)'
    <3>1. q # o /\ q \notin batch[Cron]
      BY <1>a, <2>1, <2>11 DEF Working
    <3>2. \A r \in Procs : ~Working(r, q)
      BY <2>1, <3>1 DEF Working, Only
    <3>3. Complete(q)
      BY <2>1, <2>11, <3>2 DEF CompleteInv
    <3> QED BY <2>2, <3>3, SameIsOK
  <2> QED BY <2>1, <2>3, <2>6, <2>7, <2>8, <2>10, <2>11 DEF SerialInv, CompleteInv
<1> QED BY <1>1, <1>2, <1>3 DEF CronJob

\* A step of the buyer, of time or of the other cron.
LEMMA WorldKeepsSerial ==
  ASSUME ~Overlap, IInv, SerialInv, CompleteInv,
         ExpireHolds \/ UNCHANGED vars \/ \E o \in Orders : Pay(o) \/ GrowOld(o)
  PROVE  SerialInv' /\ CompleteInv'
<1> USE DEF goods, rows, world
<1>a. RowsOK /\ WorldOK /\ Alone /\ \A o \in Orders : OrderOK(o)
  BY DEF IInv, TypeOK, SerialInv
<1>1. CASE ExpireHolds
  <2>0. /\ UNCHANGED <<order, referral, posted, refundRows, returned, applied, goods, world, pc,
                       job, batch>>
        /\ \A p \in Procs : pc[p] = "idle"
    BY <1>1 DEF ExpireHolds, Quiet
  <2>1. \A o \in Orders : hold'[o] = hold[o] \/ (hold[o] = "held" /\ hold'[o] = "expired")
    BY <1>1, <1>a DEF ExpireHolds, RowsOK
  <2>2. Alone' /\ Listed'
    BY <2>0 DEF SerialInv, Alone, Listed
  <2>3. ASSUME NEW o \in Orders
        PROVE  OrderOK(o)'
    BY <1>a, <2>0, <2>1 DEF OrderOK, Untouched
  <2>4. \A p \in Procs : PlaceOK(p)' /\ DoneAt(p)'
    BY <2>0, IdleIsOK
  <2>5. ASSUME NEW o \in Orders, faults = 0
        PROVE  Complete(o)'
    <3>1. \A p \in Procs : ~Working(p, o)
      BY <1>a, <2>0 DEF Working, Alone, NoJob
    <3>2. Complete(o)
      BY <2>5, <3>1 DEF CompleteInv
    <3> QED BY <2>0, <2>1, <3>2 DEF Complete, PaidInFull, RefundedInFull, Released, SumsOK
  <2>6. batch[Cron] = {}
    BY <1>a, <2>0 DEF Alone, Procs
  <2> QED BY <2>0, <2>2, <2>3, <2>4, <2>5, <2>6 DEF SerialInv, CompleteInv
<1>2. CASE UNCHANGED vars \/ \E o \in Orders : Pay(o) \/ GrowOld(o)
  <2>1. /\ UNCHANGED <<rows, pc, job, seen, amt, batch, faults>>
        /\ \A o \in Orders : payment'[o] # "none" => payment[o] # "none"
    BY <1>2, <1>a DEF Pay, GrowOld, vars, WorldOK
  <2>2. Alone' /\ Listed'
    BY <2>1 DEF SerialInv, Alone, Listed
  <2>3. ASSUME NEW o \in Orders
        PROVE  OrderOK(o)'
    BY <1>a, <2>1 DEF OrderOK, Untouched
  <2>4. ASSUME NEW p \in Procs
        PROVE  /\ PlaceOK(p)'
               /\ DoneAt(p) => DoneAt(p)'
               /\ \A o \in Orders : Working(p, o)' <=> Working(p, o)
    <3>1. PlaceOK(p)
      BY DEF SerialInv
    <3>2. \A o : Complete(o)' <=> Complete(o)
      BY <2>1 DEF Complete, PaidInFull, RefundedInFull, Released, SumsOK
    <3> QED BY <2>1, <3>1, <3>2 DEF PlaceOK, DoneAt, Working, SumsOK, PaidInFull, RefundedInFull
  <2>5. \A o : (Complete(o)' <=> Complete(o)) /\ (SumsOK(o)' <=> SumsOK(o))
    BY <2>1 DEF Complete, PaidInFull, RefundedInFull, Released, SumsOK
  <2>6. CompleteInv'
    BY <2>1, <2>4, <2>5 DEF CompleteInv
  <2> QED BY <2>2, <2>3, <2>4, <2>6 DEF SerialInv
<1> QED BY <1>1, <1>2

\* The invariant holds at the start.
LEMMA SerialInit == Init => SerialInv /\ CompleteInv
<1> SUFFICES ASSUME Init
             PROVE  SerialInv /\ CompleteInv
  OBVIOUS
<1>1. Alone /\ Listed
  BY DEF Init, Alone, Listed, NoJob, Procs
<1>2. \A o \in Orders : OrderOK(o) /\ Complete(o)
  BY OrderAssumption DEF Init, OrderOK, Untouched, Complete, SumsOK, NoRow, Settled,
     Value
<1>3. \A p \in Procs : PlaceOK(p) /\ DoneAt(p)
  BY IdleIsOK DEF Init
<1>4. batch[Cron] = {}
  BY DEF Init, Procs
<1> QED BY <1>1, <1>2, <1>3, <1>4 DEF SerialInv, CompleteInv

\* Every step keeps it.
LEMMA StepKeepsSerial ==
  ASSUME ~Overlap, IInv, SerialInv, CompleteInv, [Next]_vars
  PROVE  SerialInv' /\ CompleteInv'
<1>1. ASSUME NEW p \in Procs, Statement(p)
      PROVE  SerialInv' /\ CompleteInv'
  BY <1>1, CheckoutKeepsSerial, FinalizeKeepsSerial, CancelKeepsSerial, RefundKeepsSerial,
     ReversalKeepsSerial, FaultKeepsSerial DEF Statement
<1>2. ASSUME NEW p \in Procs, Stop(p) \/ Skip(p)
      PROVE  SerialInv' /\ CompleteInv'
  BY <1>2, FaultKeepsSerial
<1>3. ASSUME NEW p \in Procs, NEW o \in Orders,
             \/ CreateOrder(p, o) \/ Ipn(p, o) \/ Cancel(p, o)
             \/ \E a \in Amounts : Refund(p, o, a)
      PROVE  SerialInv' /\ CompleteInv'
  BY <1>3, RequestKeepsSerial
<1> QED BY <1>1, <1>2, <1>3, CronKeepsSerial, WorldKeepsSerial DEF Next

\* With one handler at a time, what each of them relies on at each of its places holds.
THEOREM SerialInvariant ==
  ASSUME Overlap = FALSE
  PROVE  Spec => [](SerialInv /\ CompleteInv)
<1>1. IInv /\ SerialInv /\ CompleteInv /\ [Next]_vars => SerialInv' /\ CompleteInv'
  BY StepKeepsSerial
<1> QED BY <1>1, SerialInit, LifecycleInvariant, PTL DEF Spec

\* With one handler at a time, and as long as none dies, an order at rest has all the
\* effects of its status and none of another, and its refunds add up.
THEOREM RestsComplete ==
  ASSUME Overlap = FALSE
  PROVE  Spec => []RestIsComplete
<1>1. SerialInv /\ CompleteInv => RestIsComplete
  <2> SUFFICES ASSUME SerialInv, CompleteInv, faults = 0, Quiet, NEW o \in Orders
               PROVE  Complete(o)
    BY DEF RestIsComplete, Complete, SumsOK
  <2>1. \A p \in Procs : ~Working(p, o)
    BY DEF SerialInv, Alone, Quiet, Working, NoJob
  <2> QED BY <2>1 DEF CompleteInv
<1> QED BY <1>1, SerialInvariant, PTL
-----------------------------------------------------------------------------
(* The refinement: what each step of a serial handler is to the promise.     *)

\* The hold as the promise sees it.
Reserve(h) == IF h \in {"released", "expired"} THEN "free" ELSE h

\* A step that changes nothing the promise speaks of.
LEMMA Stutters ==
  ASSUME UNCHANGED <<delivered, posted>>,
         \A o \in Orders : /\ order'[o].status = order[o].status
                           /\ payment'[o] = "success" <=> payment[o] = "success"
                           /\ Reserve(hold'[o]) = Reserve(hold[o])
  PROVE  UNCHANGED Promise!vars
  BY DEF Promise!vars, Reserve

\* The step changes the stage of the orders S only.
LEMMA StageMoves ==
  ASSUME UNCHANGED <<hold, payment, posted, delivered>>, NEW S \in SUBSET Orders, NEW s,
         \A o \in Orders : order'[o].status = IF o \in S THEN s ELSE order[o].status
  PROVE  /\ [o \in Orders |-> order'[o].status] =
              [o \in Orders |-> IF o \in S THEN s ELSE order[o].status]
         /\ \A x \in Orders : S = {x} =>
              [o \in Orders |-> order'[o].status] =
                [[o \in Orders |-> order[o].status] EXCEPT ![x] = s]
         /\ {o \in Orders : payment[o] = "success"}' = {o \in Orders : payment[o] = "success"}
  OBVIOUS

\* A checkout places its order; the other requests move nothing yet.
LEMMA RequestKeepsPromise ==
  ASSUME NEW p \in Procs, NEW o \in Orders, IInv,
         \/ CreateOrder(p, o) \/ Ipn(p, o) \/ Cancel(p, o)
         \/ \E a \in Amounts : Refund(p, o, a)
  PROVE  [Promise!Next]_(Promise!vars)
<1> USE DEF goods, rows, world
<1>1. CASE CreateOrder(p, o)
  <2>1. Promise!Place(o)
    <3>1. order[o].status = "none" /\ order' = [order EXCEPT ![o].status = "pending"]
      BY <1>1 DEF CreateOrder
    <3>2. order \in [Orders -> OrderRow]
      BY DEF IInv, TypeOK, RowsOK
    <3>3. \A q \in Orders : order'[q].status = IF q = o THEN "pending" ELSE order[q].status
      BY <3>1, <3>2, RowFields
    <3> QED BY <1>1, <3>1, <3>3 DEF CreateOrder, Promise!Place
  <2> QED BY <2>1 DEF Promise!Next
<1>2. CASE ~CreateOrder(p, o)
  <2>1. UNCHANGED <<order, payment, hold, delivered, posted>>
    BY <1>2 DEF Ipn, Cancel, Refund
  <2> QED BY <2>1, Stutters
<1> QED BY <1>1, <1>2

\* The buyer pays, the cron fails the expired orders, holds expire.
LEMMA WorldKeepsPromise ==
  ASSUME ~Overlap, IInv, SerialInv,
         CronJob \/ ExpireHolds \/ UNCHANGED vars \/ \E o \in Orders : Pay(o) \/ GrowOld(o)
  PROVE  [Promise!Next]_(Promise!vars)
<1> USE DEF goods, rows, world, At
<1>a. RowsOK /\ HandlersOK /\ WorldOK /\ CheckoutIsAlone /\ Listed
  BY DEF IInv, TypeOK, SerialInv
<1>1. CASE SelectExpired \/ UNCHANGED vars \/ \E o \in Orders : FailNext(o) \/ GrowOld(o)
  <2>1. UNCHANGED <<order, payment, hold, delivered, posted>>
    BY <1>1 DEF SelectExpired, FailNext, GrowOld, vars
  <2> QED BY <2>1, Stutters
<1>2. CASE FailExpired
  <2>1. PICK S \in SUBSET Orders :
          S = batch[Cron] /\ \A o \in S : order[o].status = "pending"
    BY <1>2, <1>a DEF FailExpired, Listed, HandlersOK, Procs
  <2>2. UNCHANGED <<hold, payment, posted, delivered>>
    BY <1>2 DEF FailExpired
  <2>3. \A o \in Orders : order'[o].status = IF o \in S THEN "failed" ELSE order[o].status
    BY <1>2, <1>a, <2>1, RowWhole DEF FailExpired, RowsOK
  <2>4. Promise!Fail(S)
    BY <2>1, <2>2, <2>3 DEF Promise!Fail
  <2> QED BY <2>4 DEF Promise!Next
<1>3. CASE ExpireHolds
  <2>0. PICK S \in SUBSET Orders : S = {o \in Orders : hold[o] = "held" /\ age[o] = 2}
    OBVIOUS
  <2>1. UNCHANGED <<order, payment, posted, delivered>>
    BY <1>3 DEF ExpireHolds
  <2>2. \A o \in Orders : hold'[o] = IF o \in S THEN "expired" ELSE hold[o]
    BY <1>3, <2>0 DEF ExpireHolds
  <2>3. Promise!Free(S)
    BY <2>0, <2>1, <2>2 DEF Promise!Free
  <2> QED BY <2>3 DEF Promise!Next
<1>4. ASSUME NEW o \in Orders, Pay(o)
      PROVE  [Promise!Next]_(Promise!vars)
  <2>1. /\ UNCHANGED <<order, hold, posted, delivered>>
        /\ payment[o] = "offered" /\ order[o].status # "none"
    BY <1>4, <1>a DEF Pay, CheckoutIsAlone
  <2>2. CASE payment' = [payment EXCEPT ![o] = "success"]
    <3>1. {q \in Orders : payment'[q] = "success"} =
            {q \in Orders : payment[q] = "success"} \cup {o}
      BY <1>a, <2>2 DEF WorldOK
    <3>2. Promise!Buy(o)
      BY <2>1, <3>1 DEF Promise!Buy
    <3> QED BY <3>2 DEF Promise!Next
  <2>3. CASE payment' = [payment EXCEPT ![o] = "failure"]
    <3>1. \A q \in Orders : payment'[q] = "success" <=> payment[q] = "success"
      BY <1>a, <2>1, <2>3 DEF WorldOK
    <3> QED BY <2>1, <3>1, Stutters
  <2> QED BY <1>4, <2>2, <2>3 DEF Pay
<1> QED BY <1>1, <1>2, <1>3, <1>4 DEF CronJob

\* The statements the promise does not see.
LEMMA SilentKeepsPromise ==
  ASSUME NEW p \in Procs, IInv, SerialInv,
         \/ Conflict(p) \/ CreateReferral(p) \/ MarkRead(p) \/ CaptureRead(p)
         \/ CashbackId(p) \/ RewardRead(p) \/ RewardSave(p) \/ ApplyCoupon(p)
         \/ CancelRead(p) \/ FailRead(p) \/ ReleaseRead(p) \/ ReleaseCoupon(p)
         \/ ReverseRead(p) \/ ReverseSave(p) \/ Recall(p) \/ RefundRow(p)
         \/ ReverseCashbackId(p) \/ RefundReferral(p) \/ RefundReferralSave(p)
         \/ GiveBack(p) \/ CreditCash(p) \/ Stop(p) \/ Skip(p)
  PROVE  [Promise!Next]_(Promise!vars)
<1> USE DEF goods, rows, world, At
<1>1. UNCHANGED <<hold, payment, posted, delivered>>
  BY DEF Conflict, CreateReferral, MarkRead, CaptureRead, CashbackId, RewardRead, RewardSave,
     ApplyCoupon, CancelRead, FailRead, ReleaseRead, ReleaseCoupon, ReverseRead, ReverseSave,
     Recall, RefundRow, ReverseCashbackId, RefundReferral, RefundReferralSave, GiveBack,
     CreditCash, Stop, Skip
<1>2. \A o \in Orders : order'[o].status = order[o].status
  <2>1. CASE CashbackId(p) \/ ReverseCashbackId(p)
    <3>1. job[p] \in Orders /\ order \in [Orders -> OrderRow]
      BY <2>1 DEF IInv, JobsAreOrders, TypeOK, RowsOK, CashbackId, ReverseCashbackId
    <3>2. \/ order' = [order EXCEPT ![job[p]].cashbackTx = TRUE]
          \/ order' = [order EXCEPT ![job[p]].cashbackRev = TRUE]
      BY <2>1 DEF CashbackId, ReverseCashbackId
    <3> QED BY <3>1, <3>2, RowFields
  <2>2. CASE ~CashbackId(p) /\ ~ReverseCashbackId(p)
    BY <2>2 DEF Conflict, CreateReferral, MarkRead, CaptureRead, RewardRead, RewardSave,
       ApplyCoupon, CancelRead, FailRead, ReleaseRead, ReleaseCoupon, ReverseRead,
       ReverseSave, Recall, RefundRow, RefundReferral, RefundReferralSave, GiveBack,
       CreditCash, Stop, Skip
  <2> QED BY <2>1, <2>2
<1> QED BY <1>1, <1>2, Stutters

\* Holds and payments.
LEMMA CheckoutKeepsPromise ==
  ASSUME NEW p \in Procs, IInv, SerialInv,
         CreateHold(p) \/ Offer(p) \/ ReleaseSave(p) \/ CaptureSave(p)
  PROVE  [Promise!Next]_(Promise!vars)
<1> USE DEF goods, rows, world, At
<1>a. RowsOK /\ HandlersOK /\ WorldOK /\ JobsAreOrders /\ Alone /\ PlaceOK(p)
  BY DEF IInv, TypeOK, SerialInv
<1>0. PICK o \in Orders : o = job[p] /\ pc[p] \in {"hold", "offer", "relSave", "capSave"}
  BY <1>a DEF CreateHold, Offer, ReleaseSave, CaptureSave, JobsAreOrders
<1>b. /\ pc[p] \in {"hold", "offer"} => order[o].status = "pending"
      /\ pc[p] = "hold" => hold[o] = "none"
      /\ pc[p] \in {"relSave", "capSave"} => hold[o] = "held"
      /\ pc[p] = "capSave" => order[o].status = "paid"
  BY <1>a, <1>0 DEF PlaceOK, Creating, Granting, Finalizing
<1>1. CASE CreateHold(p)
  <2>1. UNCHANGED <<order, payment, posted, delivered>> /\ pc[p] = "hold"
    BY <1>1 DEF CreateHold
  <2>2. CASE UNCHANGED hold
    BY <2>1, <2>2, Stutters
  <2>3. CASE hold' = [hold EXCEPT ![o] = "held"]
    <3>1. \A q \in Orders : hold'[q] = IF q = o THEN "held" ELSE hold[q]
      BY <1>a, <2>3 DEF RowsOK
    <3>2. Promise!Reserve(o)
      BY <1>b, <2>1, <3>1 DEF Promise!Reserve
    <3> QED BY <3>2 DEF Promise!Next
  <2> QED BY <1>0, <1>1, <2>2, <2>3 DEF CreateHold
<1>2. CASE Offer(p)
  <2>1. UNCHANGED <<order, hold, posted, delivered>> /\ pc[p] = "offer"
    BY <1>2 DEF Offer
  <2>2. CASE payment' = [payment EXCEPT ![o] = "success"]
    <3>1. {q \in Orders : payment'[q] = "success"} =
            {q \in Orders : payment[q] = "success"} \cup {o}
      BY <1>a, <2>2 DEF WorldOK
    <3>2. Promise!Buy(o)
      BY <1>b, <2>1, <3>1 DEF Promise!Buy
    <3> QED BY <3>2 DEF Promise!Next
  <2>3. CASE payment' = [payment EXCEPT ![o] = "offered"]
    <3>0. payment[o] = "none"
      BY <1>0, <2>1 DEF IInv, CheckoutIsAlone, Creating
    <3>1. \A q \in Orders : payment'[q] = "success" <=> payment[q] = "success"
      BY <1>a, <3>0, <2>3 DEF WorldOK
    <3> QED BY <2>1, <3>1, Stutters
  <2> QED BY <1>0, <1>2, <2>2, <2>3 DEF Offer
<1>3. CASE ReleaseSave(p)
  <2>1. UNCHANGED <<order, payment, posted, delivered>> /\ pc[p] = "relSave"
    BY <1>3 DEF ReleaseSave
  <2>2. \A q \in Orders : hold'[q] = IF q \in {o} THEN "released" ELSE hold[q]
    BY <1>0, <1>a, <1>3 DEF ReleaseSave, RowsOK
  <2>3. Promise!Free({o})
    BY <1>b, <2>1, <2>2 DEF Promise!Free
  <2>4. {o} \in SUBSET Orders
    OBVIOUS
  <2> QED BY <2>3, <2>4 DEF Promise!Next
<1>4. CASE CaptureSave(p)
  <2>1. UNCHANGED <<order, payment, delivered>> /\ pc[p] = "capSave"
    BY <1>4 DEF CaptureSave
  <2>2. \A q \in Orders : hold'[q] = IF q = o THEN "captured" ELSE hold[q]
    BY <1>0, <1>a, <1>4 DEF CaptureSave, RowsOK
  <2>3. posted' = posted \cup {<<"capture", o>>}
    BY <1>0, <1>4 DEF CaptureSave, Post
  <2>4. Promise!Capture(o)
    BY <1>b, <2>1, <2>2, <2>3 DEF Promise!Capture
  <2> QED BY <2>4 DEF Promise!Next
<1> QED BY <1>1, <1>2, <1>3, <1>4

\* The other movements of eXu, and the goods.
LEMMA BenefitsKeepPromise ==
  ASSUME NEW p \in Procs, IInv, SerialInv,
         \/ Cashback(p) \/ Reward(p) \/ Submit(p) \/ ReverseCashback(p) \/ ReverseReward(p)
  PROVE  [Promise!Next]_(Promise!vars)
<1> USE DEF goods, rows, world, At
<1>a. RowsOK /\ JobsAreOrders /\ PlaceOK(p)
  BY DEF IInv, TypeOK, SerialInv
<1>0. PICK o \in Orders :
        o = job[p] /\ pc[p] \in {"cashback", "reward", "submit", "rvCash", "rvReward"}
  BY <1>a DEF Cashback, Reward, Submit, ReverseCashback, ReverseReward, JobsAreOrders
<1>b. /\ pc[p] \in {"cashback", "reward", "submit"} => order[o].status = "paid"
      /\ pc[p] = "cashback" => <<"cashback", o>> \notin posted /\ ~seen[p].cashbackTx
      /\ pc[p] = "reward" => <<"reward", o>> \notin posted
      /\ pc[p] = "submit" => delivered[o] = 0
      /\ pc[p] \in {"rvCash", "rvReward"} => order[o].status \in Settled
  BY <1>a, <1>0 DEF PlaceOK, Granting, Finalizing, Refunding
<1>1. CASE Submit(p)
  <2>1. UNCHANGED <<order, payment, hold, posted>> /\ pc[p] = "submit"
    BY <1>1 DEF Submit
  <2>2. delivered' = [delivered EXCEPT ![o] = 1]
    <3>1. delivered' = [delivered EXCEPT ![o] = delivered[o] + 1]
      BY <1>0, <1>1 DEF Submit
    <3>2. delivered[o] = 0
      BY <1>b, <2>1
    <3>3. delivered[o] + 1 = 1
      BY <3>2
    <3> QED BY <3>1, <3>3
  <2>3. Promise!Deliver(o)
    BY <1>b, <2>1, <2>2 DEF Promise!Deliver
  <2> QED BY <2>3 DEF Promise!Next
<1>4. CASE Cashback(p) /\ o \in CodesOnly
  <2>1. UNCHANGED <<order, payment, hold, delivered, posted>>
    BY <1>4, <1>0 DEF Cashback
  <2> QED BY <2>1, Stutters
<1>2. CASE (Cashback(p) /\ o \notin CodesOnly) \/ Reward(p)
  <2>1. PICK k \in {"cashback", "reward"} :
          pc[p] = k /\ <<k, o>> \notin posted /\ posted' = posted \cup {<<k, o>>}
    BY <1>2, <1>0, <1>b DEF Cashback, Reward, Post
  <2>2. UNCHANGED <<order, payment, hold, delivered>>
    BY <1>2 DEF Cashback, Reward
  <2>3. Promise!Grant(o, k)
    BY <1>b, <2>1, <2>2 DEF Promise!Grant
  <2> QED BY <2>3 DEF Promise!Next, Promise!Benefits
<1>3. CASE ReverseCashback(p) \/ ReverseReward(p)
  <2>1. PICK k \in {"cashback_reversal", "reward_reversal"} :
          posted' = posted \cup {<<k, o>>} /\ pc[p] \in {"rvCash", "rvReward"}
    BY <1>3, <1>0 DEF ReverseCashback, ReverseReward, Post
  <2>2. UNCHANGED <<order, payment, hold, delivered>>
    BY <1>3 DEF ReverseCashback, ReverseReward
  <2>3. CASE <<k, o>> \in posted
    <3>1. posted' = posted
      BY <2>1, <2>3
    <3> QED BY <2>2, <3>1, Stutters
  <2>4. CASE <<k, o>> \notin posted
    <3>1. Promise!TakeBack(o, k)
      BY <1>b, <2>1, <2>2, <2>4 DEF Promise!TakeBack, Settled
    <3> QED BY <3>1 DEF Promise!Next, Promise!Reversals
  <2> QED BY <2>3, <2>4
<1> QED BY <1>1, <1>2, <1>3, <1>4

\* What decides an order.
LEMMA StatusKeepsPromise ==
  ASSUME NEW p \in Procs, IInv, SerialInv, MarkWrite(p) \/ FailWrite(p) \/ Refunded(p)
  PROVE  [Promise!Next]_(Promise!vars)
<1> USE DEF goods, rows, world, At
<1>a. RowsOK /\ JobsAreOrders /\ PlaceOK(p) /\ WorkIsPaid
  BY DEF IInv, TypeOK, SerialInv
<1>0. PICK o \in Orders : o = job[p] /\ pc[p] \in {"markWrite", "failWrite", "refunded"}
  BY <1>a DEF MarkWrite, FailWrite, Refunded, JobsAreOrders
<1>b. UNCHANGED <<payment, hold, posted, delivered>>
  BY DEF MarkWrite, FailWrite, Refunded
<1>1. CASE MarkWrite(p)
  <2>0. pc[p] = "markWrite"
    BY <1>1 DEF MarkWrite
  <2>1. /\ order[o].status = "pending" /\ payment[o] = "success"
        /\ order' = [order EXCEPT ![o] = Paid(order[o])]
    BY <1>0, <1>1, <1>a, <2>0 DEF MarkWrite, PlaceOK, Bases, WorkIsPaid, Finalizing
  <2>2. \A q \in Orders : order'[q].status = IF q = o THEN "paid" ELSE order[q].status
    BY <1>a, <2>1, RowWhole DEF RowsOK
  <2>3. Promise!Settle(o)
    BY <1>b, <2>1, <2>2 DEF Promise!Settle
  <2> QED BY <2>3 DEF Promise!Next
<1>2. CASE FailWrite(p)
  <2>0. pc[p] = "failWrite"
    BY <1>2 DEF FailWrite
  <2>1. order[o].status = "pending" /\ order' = [order EXCEPT ![o] = Failed(order[o])]
    BY <1>0, <1>2, <1>a, <2>0 DEF FailWrite, PlaceOK, Bases
  <2>2. \A q \in Orders : order'[q].status = IF q \in {o} THEN "failed" ELSE order[q].status
    BY <1>a, <2>1, RowWhole DEF RowsOK
  <2>3. Promise!Fail({o})
    BY <1>b, <2>1, <2>2 DEF Promise!Fail
  <2>4. {o} \in SUBSET Orders
    OBVIOUS
  <2> QED BY <2>3, <2>4 DEF Promise!Next
<1>3. CASE Refunded(p)
  <2>0. pc[p] = "refunded"
    BY <1>3 DEF Refunded
  <2>1. /\ order[o].status \in Settled
        /\ order' = [order EXCEPT ![o].status = "refunded",
                                  ![o].refunded = seen[p].refunded + amt[p]]
    BY <1>0, <1>3, <1>a, <2>0 DEF Refunded, PlaceOK, Refunding
  <2>2. \A q \in Orders : order'[q].status = IF q = o THEN "refunded" ELSE order[q].status
    BY <1>a, <2>1, RowFields DEF RowsOK
  <2>3. CASE order[o].status = "paid"
    <3>1. Promise!Refund(o)
      BY <1>b, <2>2, <2>3 DEF Promise!Refund
    <3> QED BY <3>1 DEF Promise!Next
  <2>4. CASE order[o].status = "refunded"
    BY <1>b, <2>2, <2>4, Stutters
  <2> QED BY <2>1, <2>3, <2>4 DEF Settled
<1> QED BY <1>1, <1>2, <1>3

\* One handler at a time, even one that dies half way, implements the promise: every
\* step of the handlers is one of its steps or changes nothing it speaks of.
THEOREM SerialKeepsPromise ==
  ASSUME Overlap = FALSE
  PROVE  Spec => KeepsPromise
<1>1. Init => Promise!Init
  BY DEF Init, Promise!Init, NoRow
<1>2. IInv /\ SerialInv /\ [Next]_vars => [Promise!Next]_(Promise!vars)
  <2> SUFFICES ASSUME IInv, SerialInv, [Next]_vars
               PROVE  [Promise!Next]_(Promise!vars)
    OBVIOUS
  <2>1. ASSUME NEW p \in Procs, Statement(p) \/ Stop(p) \/ Skip(p)
        PROVE  [Promise!Next]_(Promise!vars)
    BY <2>1, SilentKeepsPromise, CheckoutKeepsPromise, BenefitsKeepPromise,
       StatusKeepsPromise DEF Statement
  <2>2. ASSUME NEW p \in Procs, NEW o \in Orders,
               \/ CreateOrder(p, o) \/ Ipn(p, o) \/ Cancel(p, o)
               \/ \E a \in Amounts : Refund(p, o, a)
        PROVE  [Promise!Next]_(Promise!vars)
    BY <2>2, RequestKeepsPromise
  <2> QED BY <2>1, <2>2, WorldKeepsPromise DEF Next
<1> QED BY <1>1, <1>2, LifecycleInvariant, SerialInvariant, PTL DEF Spec, KeepsPromise,
   Promise!Spec

\* What the abstract promise says of an order is true of the handlers: a failed order moved
\* neither eXu nor goods.
THEOREM FailedNeverMoved ==
  ASSUME Overlap = FALSE
  PROVE  Spec => []Promise!FailedMovedNothing
<1>1. SerialInv => Promise!FailedMovedNothing
  BY DEF SerialInv, OrderOK, Untouched, Settled, Kinds, Promise!FailedMovedNothing,
     Promise!Benefits, Promise!Reversals
<1> QED BY <1>1, SerialInvariant, PTL

\* Goods and benefits go only to buyers who paid, also when handlers overlap.
THEOREM NothingIsFree == Spec => []Promise!NothingForFree
<1>1. NoPaymentNoBenefit => Promise!NothingForFree
  BY DEF NoPaymentNoBenefit, Kinds, Promise!NothingForFree, Promise!Benefits
<1> QED BY <1>1, PaymentComesFirst, PTL

\* The eXu of an order is debited exactly when its hold is captured.
THEOREM DebitsAreReservations ==
  ASSUME Overlap = FALSE
  PROVE  Spec => []Promise!DebitIsReservation
<1>1. SerialInv => Promise!DebitIsReservation
  BY DEF SerialInv, OrderOK, Promise!DebitIsReservation
<1> QED BY <1>1, SerialInvariant, PTL
=============================================================================
