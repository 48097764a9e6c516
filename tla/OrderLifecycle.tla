--------------------------- MODULE OrderLifecycle ---------------------------
(***************************************************************************)
(* The life of a BUY_NEW order and of everything that hangs on it: the eXu  *)
(* hold, the order's referral, its coupon and its benefits. It composes     *)
(* PaymentService (checkout and the OnePay IPN), OrdersService (finalize,    *)
(* cancel, the expiry cron, refund) and the order side of WalletsService.    *)
(*                                                                         *)
(* Each handler is a sequence of awaited statements and one action per       *)
(* statement that reads or writes shared rows; handlers of several requests  *)
(* interleave between any two. Nothing is locked: OrderRepository.update     *)
(* reads the whole row, merges its payload and saves it.                     *)
(*                                                                         *)
(* The ledger appears as the set of idempotency keys it holds: WalletLedger  *)
(* shows that createTransaction adds the row of a key once and atomically.   *)
(***************************************************************************)
EXTENDS Integers, FiniteSets

CONSTANTS
  Orders,
  Slots,        \* concurrent handlers: checkouts, IPNs, cancels, refunds
  Cron,         \* the slot of failExpiredPendingOrders
  WithWallet,   \* the orders that spend eXu (walletSpentVndAmount > 0)
  WalletOnly,   \* those it covers entirely
  CodesOnly,    \* the orders whose codes leave nothing to pay (afterCouponAndReferral = 0)
  Referred,     \* the orders with a referral code
  Couponed,     \* the orders with the coupon
  Total,        \* payableVndPrice + walletSpentVndAmount of the others, in price units
  Spent,        \* walletSpentVndAmount of the orders WithWallet
  Amounts,      \* what an admin may ask to refund
  Usage0,       \* usageCount of the coupon before these orders
  NoOrder,
  Overlap,      \* FALSE: the instances in which one handler runs at a time
  MaxFaults,    \* bound: statements that fail and processes that stop
  MaxRefunds    \* bound: refund requests per order

ASSUME OrderAssumption ==
  /\ WalletOnly \subseteq WithWallet /\ WithWallet \subseteq Orders
  /\ CodesOnly \subseteq Orders \ WithWallet
  /\ Referred \subseteq Orders /\ Couponed \subseteq Orders
  /\ Referred \cap Couponed = {}        \* calculateOrderPricing refuses both codes
  /\ NoOrder \notin Orders /\ Cron \notin Slots
  /\ Overlap \in BOOLEAN
  /\ Total \in Nat \ {0} /\ Spent \in 0..Total /\ Amounts \subseteq 0..Total
  /\ Usage0 \in Nat /\ MaxFaults \in Nat /\ MaxRefunds \in Nat

Procs == Slots \cup {Cron}

VARIABLES
  order,      \* the order rows
  hold,       \* status of the wallet_hold row of the order
  referral,   \* status of its order_referral row
  posted,     \* idempotency keys in the ledger: <<kind, order>>
  refundRows, \* total of the order_refund rows
  returned,   \* eXu credited back by refunds
  usage,      \* usageCount of the coupon
  applied,    \* history: how often each order was counted in it
  delivered,  \* how often the order was submitted to the suppliers
  recalled,   \* a refund request cancelled what they delivered
  payment,    \* where the buyer's payment stands at OnePay
  age,        \* 0 fresh, 1 the order is past 30 minutes, 2 its hold too
  pc, job, seen, amt, batch,   \* the handlers: place, order, row read, amount, cron ids
  asked, faults

goods == <<delivered, recalled>>
rows == <<order, hold, referral, posted, refundRows, returned, usage, applied, goods>>
world == <<payment, age, asked, faults>>
vars == <<rows, world, pc, job, seen, amt, batch>>

Kinds == {"capture", "cashback", "cashback_reversal", "reward", "reward_reversal"}
NoRow == [status |-> "none", cashbackTx |-> FALSE, cashbackRev |-> FALSE, refunded |-> 0]

Init ==
  /\ order = [o \in Orders |-> NoRow]
  /\ hold = [o \in Orders |-> "none"]
  /\ referral = [o \in Orders |-> "none"]
  /\ posted = {}
  /\ refundRows = [o \in Orders |-> 0]
  /\ returned = [o \in Orders |-> 0]
  /\ usage = Usage0
  /\ applied = [o \in Orders |-> 0]
  /\ delivered = [o \in Orders |-> 0]
  /\ recalled = [o \in Orders |-> FALSE]
  /\ payment = [o \in Orders |-> "none"]
  /\ age = [o \in Orders |-> 0]
  /\ pc = [p \in Procs |-> "idle"]
  /\ job = [p \in Procs |-> NoOrder]
  /\ seen = [p \in Procs |-> NoRow]
  /\ amt = [p \in Procs |-> 0]
  /\ batch = [p \in Procs |-> {}]
  /\ asked = [o \in Orders |-> 0]
  /\ faults = 0
-----------------------------------------------------------------------------
(* The program counter of a handler. Reading the row keeps it in seen.     *)

At(p, l) == pc[p] = l

Goto(p, l) == /\ pc' = [pc EXCEPT ![p] = l]
              /\ UNCHANGED <<job, seen, amt, batch>>

GotoSeen(p, l, row) == /\ pc' = [pc EXCEPT ![p] = l]
                       /\ seen' = [seen EXCEPT ![p] = row]
                       /\ UNCHANGED <<job, amt, batch>>

Quiet == \A p \in Procs : pc[p] = "idle"

Ready(p) == pc[p] = "idle" /\ (Overlap \/ Quiet)

Start(p, l, o) == /\ Ready(p)
                  /\ pc' = [pc EXCEPT ![p] = l]
                  /\ job' = [job EXCEPT ![p] = o]
                  /\ UNCHANGED <<seen, batch>>

Finish(p) == /\ pc' = [pc EXCEPT ![p] = "idle"]
             /\ job' = [job EXCEPT ![p] = NoOrder]
             /\ seen' = [seen EXCEPT ![p] = NoRow]
             /\ amt' = [amt EXCEPT ![p] = 0]
             /\ batch' = [batch EXCEPT ![p] = {}]

\* OrderRepository.update: the entity read before, with the payload on top. save()
\* re-reads the row and writes the columns that differ: the entity's, unless the
\* re-read came before a change of others.
Bases(p) == {seen[p], order[job[p]]}

\* createTransaction does nothing when it finds the key. Of two that both missed it,
\* the unique index fails the second one, and the handler with it.
Rivals(p) == {q \in Procs \ {p} : pc[q] = pc[p] /\ job[q] = job[p]}

Post(p, kind, l) ==
  /\ posted' = posted \cup {<<kind, job[p]>>}
  /\ \E late \in IF <<kind, job[p]>> \in posted THEN {{}} ELSE SUBSET Rivals(p) :
       pc' = [q \in Procs |-> IF q = p THEN l ELSE IF q \in late THEN "conflict" ELSE pc[q]]
  /\ UNCHANGED <<job, seen, amt, batch>>

Conflict(p) ==
  /\ At(p, "conflict")
  /\ Finish(p)
  /\ UNCHANGED <<rows, world>>
-----------------------------------------------------------------------------
(* Checkout: createPendingOrder, then the payment URL or, when eXu covers    *)
(* everything, the order at once.                                           *)

\* payableVndPrice = 0: the order is paid by its own checkout.
PaidAtOnce == WalletOnly \cup CodesOnly

Value(o) == IF o \in CodesOnly THEN 0 ELSE Total

AfterReferral(o) == IF o \in WithWallet THEN "hold" ELSE "offer"

CreateOrder(p, o) ==
  /\ p \in Slots
  /\ order[o].status = "none"
  /\ order' = [order EXCEPT ![o].status = "pending"]
  /\ Start(p, IF o \in Referred THEN "referral" ELSE AfterReferral(o), o)
  /\ UNCHANGED <<hold, referral, posted, refundRows, returned, usage, applied,
                 goods, world, amt>>

CreateReferral(p) ==
  /\ At(p, "referral")
  /\ referral' = [referral EXCEPT ![job[p]] = "pending"]
  /\ Goto(p, AfterReferral(job[p]))
  /\ UNCHANGED <<order, hold, posted, refundRows, returned, usage, applied,
                 goods, world>>

\* createHold throws when the available balance is too small: the order stays.
CreateHold(p) ==
  /\ At(p, "hold")
  /\ \/ hold' = [hold EXCEPT ![job[p]] = "held"] /\ Goto(p, "offer")
     \/ UNCHANGED hold /\ Finish(p)
  /\ UNCHANGED <<order, referral, posted, refundRows, returned, usage, applied,
                 goods, world>>

Offer(p) ==
  /\ At(p, "offer")
  /\ IF job[p] \in PaidAtOnce
     THEN /\ payment' = [payment EXCEPT ![job[p]] = "success"]
          /\ Goto(p, "markRead")
     ELSE /\ payment' = [payment EXCEPT ![job[p]] = "offered"]
          /\ Finish(p)
  /\ UNCHANGED <<rows, age, asked, faults>>

\* The buyer pays, or fails to, on the page of OnePay.
Pay(o) ==
  /\ payment[o] = "offered"
  /\ \E outcome \in {"success", "failure"} :
       payment' = [payment EXCEPT ![o] = outcome]
  /\ UNCHANGED <<rows, age, asked, faults, pc, job, seen, amt, batch>>
-----------------------------------------------------------------------------
(* The IPN of OnePay, delivered any number of times. An order that is not    *)
(* pending is acknowledged without effect.                                  *)

\* Mutant: the response code is not looked at.
IpnAnyOutcome(p, o) ==
  /\ p \in Slots
  /\ o \notin PaidAtOnce
  /\ payment[o] \in {"success", "failure"}
  /\ order[o].status = "pending"
  /\ Start(p, "markRead", o)
  /\ UNCHANGED <<rows, world, amt>>

\* Mutant: a repeated callback is not recognised.
IpnRepeats(p, o) ==
  /\ p \in Slots
  /\ o \notin PaidAtOnce
  /\ payment[o] \in {"success", "failure"}
  /\ order[o].status # "none"
  /\ Start(p, IF payment[o] = "success" THEN "markRead" ELSE "cancel", o)
  /\ UNCHANGED <<rows, world, amt>>

Ipn(p, o) ==
  /\ p \in Slots
  /\ o \notin PaidAtOnce
  /\ payment[o] \in {"success", "failure"}
  /\ order[o].status = "pending"
  /\ Start(p, IF payment[o] = "success" THEN "markRead" ELSE "cancel", o)
  /\ UNCHANGED <<rows, world, amt>>

\* finalizePaidOrder: OrderRepository.update to paid...
MarkRead(p) ==
  /\ At(p, "markRead")
  /\ GotoSeen(p, "markWrite", order[job[p]])
  /\ UNCHANGED <<rows, world>>

Paid(row) == [row EXCEPT !.status = "paid"]

MarkWrite(p) ==
  /\ At(p, "markWrite")
  /\ \E row \in Bases(p) : order' = [order EXCEPT ![job[p]] = Paid(row)]
  /\ GotoSeen(p, IF job[p] \in WithWallet THEN "capRead" ELSE "cashback", Paid(seen[p]))
  /\ UNCHANGED <<hold, referral, posted, refundRows, returned, usage, applied,
                 goods, world>>

\* Mutant: without a hold to debit, the handler returns.
CaptureReadLeaves(p) ==
  /\ At(p, "capRead")
  /\ IF hold[job[p]] = "held" THEN Goto(p, "capSave") ELSE Finish(p)
  /\ UNCHANGED <<rows, world>>

\* ... then completePaidOrderBenefits. captureHoldForOrder is one transaction,
\* which does nothing when the hold is not HELD any more.
CaptureRead(p) ==
  /\ At(p, "capRead")
  /\ Goto(p, IF hold[job[p]] = "held" THEN "capSave" ELSE "cashback")
  /\ UNCHANGED <<rows, world>>

CaptureSave(p) ==
  /\ At(p, "capSave")
  /\ Post(p, "capture", "cashback")
  /\ hold' = [hold EXCEPT ![job[p]] = "captured"]
  /\ UNCHANGED <<order, referral, refundRows, returned, usage, applied, goods, world>>

\* An order of no value earns no cashback.
Cashback(p) ==
  /\ At(p, "cashback")
  /\ IF seen[p].cashbackTx \/ job[p] \in CodesOnly
     THEN UNCHANGED posted /\ Goto(p, "refRead")
     ELSE Post(p, "cashback", "cashbackId")
  /\ UNCHANGED <<order, hold, referral, refundRows, returned, usage, applied,
                 goods, world>>

CashbackId(p) ==
  /\ At(p, "cashbackId")
  /\ order' = [order EXCEPT ![job[p]].cashbackTx = TRUE]
  /\ Goto(p, "refRead")
  /\ UNCHANGED <<hold, referral, posted, refundRows, returned, usage, applied,
                 goods, world>>

RewardRead(p) ==
  /\ At(p, "refRead")
  /\ Goto(p, IF referral[job[p]] = "pending" THEN "reward" ELSE "submit")
  /\ UNCHANGED <<rows, world>>

Reward(p) ==
  /\ At(p, "reward")
  /\ Post(p, "reward", "rewardSave")
  /\ UNCHANGED <<order, hold, referral, refundRows, returned, usage, applied,
                 goods, world>>

RewardSave(p) ==
  /\ At(p, "rewardSave")
  /\ referral' = [referral EXCEPT ![job[p]] = "credited"]
  /\ Goto(p, "submit")
  /\ UNCHANGED <<order, hold, posted, refundRows, returned, usage, applied,
                 goods, world>>

\* submitProviders, whose own errors are caught item by item.
Submit(p) ==
  /\ At(p, "submit")
  /\ delivered' = [delivered EXCEPT ![job[p]] = @ + 1]
  /\ IF job[p] \in Couponed THEN Goto(p, "coupon") ELSE Finish(p)
  /\ UNCHANGED <<order, hold, referral, posted, refundRows, returned, usage,
                 applied, recalled, world>>

ApplyCoupon(p) ==
  /\ At(p, "coupon")
  /\ usage' = usage + 1
  /\ applied' = [applied EXCEPT ![job[p]] = @ + 1]
  /\ Finish(p)
  /\ UNCHANGED <<order, hold, referral, posted, refundRows, returned, goods, world>>
-----------------------------------------------------------------------------
(* cancelOrder, for the buyer, an admin or a failed payment.               *)

Cancel(p, o) ==
  /\ p \in Slots
  /\ order[o].status # "none"
  /\ Start(p, "cancel", o)
  /\ UNCHANGED <<rows, world, amt>>

CancelRead(p) ==
  /\ At(p, "cancel")
  /\ IF order[job[p]].status = "pending" THEN Goto(p, "failRead") ELSE Finish(p)
  /\ UNCHANGED <<rows, world>>

FailRead(p) ==
  /\ At(p, "failRead")
  /\ GotoSeen(p, "failWrite", order[job[p]])
  /\ UNCHANGED <<rows, world>>

Failed(row) == [row EXCEPT !.status = "failed"]

FailWrite(p) ==
  /\ At(p, "failWrite")
  /\ \E row \in Bases(p) : order' = [order EXCEPT ![job[p]] = Failed(row)]
  /\ Goto(p, "relRead")
  /\ UNCHANGED <<hold, referral, posted, refundRows, returned, usage, applied,
                 goods, world>>

AfterRelease(p) ==
  IF p = Cron \/ job[p] \notin Couponed THEN "revRead" ELSE "couponBack"

\* Mutant: without a hold to release, the handler returns.
ReleaseReadLeaves(p) ==
  /\ At(p, "relRead")
  /\ IF hold[job[p]] = "held" THEN Goto(p, "relSave") ELSE Finish(p)
  /\ UNCHANGED <<rows, world>>

\* releaseHoldForOrder reads, then saves without condition.
ReleaseRead(p) ==
  /\ At(p, "relRead")
  /\ Goto(p, IF hold[job[p]] = "held" THEN "relSave" ELSE AfterRelease(p))
  /\ UNCHANGED <<rows, world>>

ReleaseSave(p) ==
  /\ At(p, "relSave")
  /\ hold' = [hold EXCEPT ![job[p]] = "released"]
  /\ Goto(p, AfterRelease(p))
  /\ UNCHANGED <<order, referral, posted, refundRows, returned, usage, applied,
                 goods, world>>

\* releaseCoupon: GREATEST("usageCount" - 1, 0), in the database.
ReleaseCoupon(p) ==
  /\ At(p, "couponBack")
  /\ usage' = IF usage > 0 THEN usage - 1 ELSE 0
  /\ Goto(p, "revRead")
  /\ UNCHANGED <<order, hold, referral, posted, refundRows, returned, applied,
                 goods, world>>

\* The end of a cancel, or the next order of the cron.
Rest(p) == IF batch[p] = {} THEN Finish(p) ELSE Goto(p, "cronNext")

\* Mutant: only the referral of an order still pending is reversed.
ReverseReadPending(p) ==
  /\ At(p, "revRead")
  /\ IF referral[job[p]] = "pending" /\ order[job[p]].status = "pending"
     THEN Goto(p, "revSave") ELSE Rest(p)
  /\ UNCHANGED <<rows, world>>

\* reversePendingReferralForOrder reads, then saves without condition.
ReverseRead(p) ==
  /\ At(p, "revRead")
  /\ IF referral[job[p]] = "pending" THEN Goto(p, "revSave") ELSE Rest(p)
  /\ UNCHANGED <<rows, world>>

ReverseSave(p) ==
  /\ At(p, "revSave")
  /\ referral' = [referral EXCEPT ![job[p]] = "reversed"]
  /\ Rest(p)
  /\ UNCHANGED <<order, hold, posted, refundRows, returned, usage, applied,
                 goods, world>>
-----------------------------------------------------------------------------
(* The crons. failExpiredPendingOrders selects the ids, then updates them    *)
(* whatever their status is by then.                                        *)

Expired(o) == order[o].status = "pending" /\ age[o] > 0

SelectExpired ==
  /\ Ready(Cron)
  /\ \E o \in Orders : Expired(o)
  /\ pc' = [pc EXCEPT ![Cron] = "cronFail"]
  /\ batch' = [batch EXCEPT ![Cron] = {o \in Orders : Expired(o)}]
  /\ UNCHANGED <<rows, world, job, seen, amt>>

FailExpired ==
  /\ At(Cron, "cronFail")
  /\ order' = [o \in Orders |-> IF o \in batch[Cron] THEN Failed(order[o]) ELSE order[o]]
  /\ Goto(Cron, "cronNext")
  /\ UNCHANGED <<hold, referral, posted, refundRows, returned, usage, applied,
                 goods, world>>

FailNext(o) ==
  /\ At(Cron, "cronNext")
  /\ o \in batch[Cron]
  /\ pc' = [pc EXCEPT ![Cron] = "relRead"]
  /\ job' = [job EXCEPT ![Cron] = o]
  /\ batch' = [batch EXCEPT ![Cron] = @ \ {o}]
  /\ UNCHANGED <<rows, world, seen, amt>>

\* expireHolds: one UPDATE with its condition.
ExpireHolds ==
  /\ Overlap \/ Quiet
  /\ hold' = [o \in Orders |-> IF hold[o] = "held" /\ age[o] = 2
                               THEN "expired" ELSE hold[o]]
  /\ UNCHANGED <<order, referral, posted, refundRows, returned, usage, applied,
                 goods, world, pc, job, seen, amt, batch>>
-----------------------------------------------------------------------------
(* refundOrder of an admin.                                                *)

\* The order is read once, and its suppliers are asked to cancel whatever it says.
Refund(p, o, a) ==
  /\ p \in Slots
  /\ asked[o] < MaxRefunds
  /\ order[o].status # "none"
  /\ Ready(p)
  /\ pc' = [pc EXCEPT ![p] = "recall"]
  /\ job' = [job EXCEPT ![p] = o]
  /\ seen' = [seen EXCEPT ![p] = order[o]]
  /\ amt' = [amt EXCEPT ![p] = a]
  /\ asked' = [asked EXCEPT ![o] = @ + 1]
  /\ UNCHANGED <<rows, payment, age, faults, batch>>

Recall(p) ==
  /\ At(p, "recall")
  /\ recalled' = [recalled EXCEPT ![job[p]] = TRUE]
  /\ Goto(p, "refund")
  /\ UNCHANGED <<order, hold, referral, posted, refundRows, returned, usage, applied,
                 delivered, world>>

RefundRow(p) ==
  /\ At(p, "refund")
  /\ IF /\ seen[p].status \in {"paid", "refunded"}
        /\ amt[p] <= Value(job[p]) - seen[p].refunded
     THEN /\ refundRows' = [refundRows EXCEPT ![job[p]] = @ + amt[p]]
          /\ Goto(p, IF seen[p].cashbackRev \/ job[p] \in CodesOnly THEN "rvRead" ELSE "rvCash")
     ELSE UNCHANGED refundRows /\ Finish(p)
  /\ UNCHANGED <<order, hold, referral, posted, returned, usage, applied,
                 goods, world>>

ReverseCashback(p) ==
  /\ At(p, "rvCash")
  /\ Post(p, "cashback_reversal", "rvCashId")
  /\ UNCHANGED <<order, hold, referral, refundRows, returned, usage, applied,
                 goods, world>>

ReverseCashbackId(p) ==
  /\ At(p, "rvCashId")
  /\ order' = [order EXCEPT ![job[p]].cashbackRev = TRUE]
  /\ Goto(p, "rvRead")
  /\ UNCHANGED <<hold, referral, posted, refundRows, returned, usage, applied,
                 goods, world>>

\* Mutant: a reward not credited yet is taken back too.
RefundReferralEarly(p) ==
  /\ At(p, "rvRead")
  /\ Goto(p, IF referral[job[p]] \in {"credited", "pending"} THEN "rvReward" ELSE "giveBack")
  /\ UNCHANGED <<rows, world>>

RefundReferral(p) ==
  /\ At(p, "rvRead")
  /\ Goto(p, CASE referral[job[p]] = "credited" -> "rvReward"
               [] referral[job[p]] = "pending" -> "rvSave"
               [] OTHER -> "giveBack")
  /\ UNCHANGED <<rows, world>>

ReverseReward(p) ==
  /\ At(p, "rvReward")
  /\ Post(p, "reward_reversal", "rvSave")
  /\ UNCHANGED <<order, hold, referral, refundRows, returned, usage, applied,
                 goods, world>>

RefundReferralSave(p) ==
  /\ At(p, "rvSave")
  /\ referral' = [referral EXCEPT ![job[p]] = "reversed"]
  /\ Goto(p, "giveBack")
  /\ UNCHANGED <<order, hold, posted, refundRows, returned, usage, applied,
                 goods, world>>

\* The eXu part goes back to the wallet, Math.round of its share...
Share(o, a) == IF o \in WithWallet THEN (2 * a * Spent + Total) \div (2 * Total) ELSE 0

GiveBack(p) ==
  /\ At(p, "giveBack")
  /\ returned' = [returned EXCEPT ![job[p]] = @ + Share(job[p], amt[p])]
  /\ \/ amt[p] > Share(job[p], amt[p]) /\ Goto(p, "creditCash")
     \/ Goto(p, "refunded")
  /\ UNCHANGED <<order, hold, referral, posted, refundRows, usage, applied,
                 goods, world>>

\* ... and then the cash, when the refund is in mode WALLET.
\* The save of the refund row that follows writes only the credit's id, read by nobody.
CreditCash(p) ==
  /\ At(p, "creditCash")
  /\ returned' = [returned EXCEPT ![job[p]] = @ + amt[p] - Share(job[p], amt[p])]
  /\ Goto(p, "refunded")
  /\ UNCHANGED <<order, hold, referral, posted, refundRows, usage, applied,
                 goods, world>>

Refunded(p) ==
  /\ At(p, "refunded")
  /\ order' = [order EXCEPT ![job[p]].status = "refunded",
                            ![job[p]].refunded = seen[p].refunded + amt[p]]
  /\ Finish(p)
  /\ UNCHANGED <<hold, referral, posted, refundRows, returned, usage, applied,
                 goods, world>>
-----------------------------------------------------------------------------
(* The environment.                                                        *)

\* Orders and, a moment later, their holds pass 30 minutes; no checkout takes as long.
GrowOld(o) ==
  /\ order[o].status # "none"
  /\ \A p \in Slots : job[p] = o => pc[p] \notin {"referral", "hold", "offer"}
  /\ age[o] < 2
  /\ age' = [age EXCEPT ![o] = @ + 1]
  /\ UNCHANGED <<rows, payment, asked, faults, pc, job, seen, amt, batch>>

\* An exception leaves the handler, or the process stops.
Stop(p) ==
  /\ pc[p] # "idle"
  /\ faults < MaxFaults
  /\ faults' = faults + 1
  /\ Finish(p)
  /\ UNCHANGED <<rows, payment, age, asked>>

\* cancelOrder and the cron catch the error of a step and go on with the next.
Skip(p) ==
  /\ faults < MaxFaults
  /\ faults' = faults + 1
  /\ \/ pc[p] \in {"relRead", "relSave"} /\ Goto(p, AfterRelease(p))
     \/ pc[p] = "couponBack" /\ Goto(p, "revRead")
     \/ pc[p] \in {"revRead", "revSave"} /\ Rest(p)
  /\ UNCHANGED <<rows, payment, age, asked>>

Statement(p) ==
  \/ Conflict(p) \/ CreateReferral(p) \/ CreateHold(p) \/ Offer(p)
  \/ MarkRead(p) \/ MarkWrite(p) \/ CaptureRead(p) \/ CaptureSave(p)
  \/ Cashback(p) \/ CashbackId(p) \/ RewardRead(p) \/ Reward(p) \/ RewardSave(p)
  \/ Submit(p) \/ ApplyCoupon(p)
  \/ CancelRead(p) \/ FailRead(p) \/ FailWrite(p) \/ ReleaseRead(p) \/ ReleaseSave(p)
  \/ ReleaseCoupon(p) \/ ReverseRead(p) \/ ReverseSave(p)
  \/ Recall(p) \/ RefundRow(p) \/ ReverseCashback(p) \/ ReverseCashbackId(p) \/ RefundReferral(p)
  \/ ReverseReward(p) \/ RefundReferralSave(p) \/ GiveBack(p) \/ CreditCash(p)
  \/ Refunded(p)

CronJob == SelectExpired \/ FailExpired \/ \E o \in Orders : FailNext(o)

Next ==
  \/ \E o \in Orders : Pay(o) \/ GrowOld(o)
  \/ \E p \in Procs :
       \/ Statement(p) \/ Stop(p) \/ Skip(p)
       \/ \E o \in Orders :
            \/ CreateOrder(p, o) \/ Ipn(p, o) \/ Cancel(p, o)
            \/ \E a \in Amounts : Refund(p, o, a)
  \/ CronJob
  \/ ExpireHolds

Spec == Init /\ [][Next]_vars

\* Started handlers go on, both crons fire every five minutes and time passes.
\* Nothing is assumed of buyers, admins or OnePay.
Fairness ==
  /\ \A p \in Procs : WF_vars(Statement(p))
  /\ WF_vars(CronJob)
  /\ WF_vars(ExpireHolds)
  /\ \A o \in Orders : WF_vars(GrowOld(o))

FairSpec == Spec /\ Fairness
-----------------------------------------------------------------------------
(* Properties that hold however the handlers interleave.                   *)

Labels ==
  {"idle", "conflict", "referral", "hold", "offer", "markRead", "markWrite", "capRead",
   "capSave", "cashback", "cashbackId", "refRead", "reward", "rewardSave", "submit",
   "coupon", "cancel", "failRead", "failWrite", "relRead", "relSave", "couponBack",
   "revRead", "revSave", "cronFail", "cronNext", "recall", "refund", "rvCash",
   "rvCashId", "rvRead", "rvReward", "rvSave", "giveBack", "creditCash", "refunded"}

OrderRow == [status : {"none", "pending", "paid", "failed", "refunded"},
             cashbackTx : BOOLEAN, cashbackRev : BOOLEAN, refunded : Nat]

RowsOK ==
  /\ order \in [Orders -> OrderRow]
  /\ hold \in [Orders -> {"none", "held", "captured", "released", "expired"}]
  /\ referral \in [Orders -> {"none", "pending", "credited", "reversed"}]
  /\ posted \subseteq Kinds \X Orders
  /\ refundRows \in [Orders -> Nat] /\ returned \in [Orders -> Nat]
  /\ usage \in Nat /\ applied \in [Orders -> Nat]
  /\ delivered \in [Orders -> Nat] /\ recalled \in [Orders -> BOOLEAN]

WorldOK ==
  /\ payment \in [Orders -> {"none", "offered", "success", "failure"}]
  /\ age \in [Orders -> 0..2]
  /\ asked \in [Orders -> 0..MaxRefunds]
  /\ faults \in 0..MaxFaults

HandlersOK ==
  /\ pc \in [Procs -> Labels]
  /\ job \in [Procs -> Orders \cup {NoOrder}]
  /\ seen \in [Procs -> OrderRow]
  /\ amt \in [Procs -> Nat]
  /\ batch \in [Procs -> SUBSET Orders]

\* Every variable has its type.
TypeOK == RowsOK /\ WorldOK /\ HandlersOK

\* Goods, eXu and coupon uses go out, and refunds come in, only for an order whose
\* buyer paid, whatever stale row a racing cancel, cron or refund writes back.
NoPaymentNoBenefit ==
  \A o \in Orders :
    \/ delivered[o] > 0
    \/ applied[o] > 0
    \/ refundRows[o] > 0
    \/ referral[o] = "credited"
    \/ \E k \in Kinds : <<k, o>> \in posted
    => payment[o] = "success"

\* The referrer never gives back a reward that was not credited.
RewardBeforeReversal ==
  \A o \in Orders : <<"reward_reversal", o>> \in posted => <<"reward", o>> \in posted

\* What an unfinished order leaves behind ends. It does not wait for its payment for
\* ever: a callback, a cancel or the cron decides, also after the process stopped in the
\* middle of one of them. Held eXu is debited or free again, even if the handler that
\* should release it dies. And as long as nothing crashes, the referral of a pending
\* order is decided with it: the referrer is credited or the referral reversed.
LeftoversEnd ==
  \A o \in Orders :
    /\ order[o].status = "pending" ~> order[o].status # "pending"
    /\ hold[o] = "held" ~> hold[o] # "held"
    /\ referral[o] = "pending" /\ order[o].status = "pending"
         ~> referral[o] # "pending" \/ faults > 0

\* A buyer's money is answered: the goods are ordered, or the order was cancelled or
\* expired before the callback came, and nobody takes it up again; unless a handler died.
MoneyIsAnswered ==
  \A o \in Orders :
    payment[o] = "success" ~> delivered[o] > 0 \/ order[o].status = "failed" \/ faults > 0
-----------------------------------------------------------------------------
(* What a comment of the code promises.                                     *)

\* "only orders in PENDING status are cancellable. Orders that are already paid [...]
\* must go through the refund workflow instead" (cancelOrder): a cancel does not save a
\* paid order as failed.
PaidIsNotCancelled ==
  [][\A p \in Slots : At(p, "failWrite") /\ pc'[p] = "relRead" =>
       order[job[p]].status # "paid"]_<<order, pc>>
-----------------------------------------------------------------------------
(* Without overlap: one handler runs at a time, and may die half way.          *)

\* The abstract promise, kept by the serial handlers even when they die half way.
Promise ==
  INSTANCE OrderPromise WITH
    stage <- [o \in Orders |-> order[o].status],
    bought <- {o \in Orders : payment[o] = "success"},
    reserve <- [o \in Orders |-> IF hold[o] \in {"released", "expired"}
                                 THEN "free" ELSE hold[o]],
    effects <- posted,
    sent <- delivered

KeepsPromise == Promise!Spec

\* A paid order got all of its effects: the goods are ordered, the eXu debited unless the
\* hold expired first, the cashback and the reward credited and the coupon counted.
PaidInFull(o) ==
  /\ delivered[o] = 1
  /\ o \notin CodesOnly => <<"cashback", o>> \in posted /\ order[o].cashbackTx
  /\ o \in WithWallet => <<"capture", o>> \in posted \/ hold[o] = "expired"
  /\ o \in Referred => <<"reward", o>> \in posted /\ referral[o] = "credited"
  /\ o \in Couponed => applied[o] = 1

\* A refunded order gave everything back: cashback and reward are reversed, and the
\* suppliers were told.
RefundedInFull(o) ==
  /\ recalled[o]
  /\ o \notin CodesOnly => {<<"cashback", o>>, <<"cashback_reversal", o>>} \subseteq posted
  /\ <<"reward", o>> \in posted => <<"reward_reversal", o>> \in posted
  /\ referral[o] \notin {"pending", "credited"}

\* A failed order holds nothing of the buyer: the hold is free, the referral reversed.
Released(o) == hold[o] \notin {"held", "captured"} /\ referral[o] # "pending"

\* When no handler died, an order at rest has all the effects of its status and none of
\* another, and it knows what its refund rows add up to, which is not more than was paid.
RestIsComplete ==
  faults = 0 /\ Quiet =>
    \A o \in Orders :
      /\ order[o].status = "paid" => PaidInFull(o)
      /\ order[o].status = "refunded" => RefundedInFull(o)
      /\ order[o].status = "failed" => Released(o)
      /\ order[o].refunded = refundRows[o]
      /\ refundRows[o] <= Value(o) /\ returned[o] <= refundRows[o]
=============================================================================
