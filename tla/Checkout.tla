------------------------------ MODULE Checkout ------------------------------
(***************************************************************************)
(* Checkouts of several orders side by side: calculateOrderPricing with the *)
(* checks of the coupon and of the referral code, createPendingOrder step by *)
(* step, then payment, refund, cancellation or expiry. What the checks read *)
(* (uses of the coupon, live referrals, free eXu) is written by other       *)
(* checkouts, by refunds, by admins and by the nightly job, and nothing is  *)
(* locked in between. How the handlers after the checkout race on one order *)
(* is the subject of OrderLifecycle; here each of their steps is atomic, and *)
(* what matters is what the orders do to each other.                        *)
(***************************************************************************)
EXTENDS Integers, FiniteSets, FiniteSetsExt

CONSTANTS
  Users,
  Orders,     \* the checkouts, each of one order
  Buyer,      \* the user who checks out
  Referrer,   \* the user whose referral code is used
  Subtotal,   \* prices of the plans in the cart, in VND
  UseWallet,  \* useWalletAmountVnd of the request
  Units,      \* order items the order gets
  Funds,      \* eXu in the wallets at first
  Percent,    \* discountPercent of the coupon
  Limits,     \* its limits are one of these: [all |-> maxUsage, each |-> maxUsagePerUser]
  MinOrder, Discount, RewardVnd, CashbackPercent,  \* constants of wallets.enum.ts
  Refunds, Adjustments,  \* bound: the amounts an admin enters, in VND
  MaxActs,    \* bound: refunds and steps on a wallet by an admin or the nightly job
  MaxFaults   \* bound: checkouts and callbacks that stop half way

ASSUME CheckoutAssumption ==
  /\ Buyer \in [Orders -> Users] /\ Referrer \in Users
  /\ Subtotal \in [Orders -> Nat] /\ UseWallet \in [Orders -> Nat]
  /\ Units \in [Orders -> Nat] /\ Funds \in [Users -> Nat]
  /\ Percent \in 0..100 /\ Limits \subseteq [all : Nat, each : Nat]
  /\ MinOrder \in Nat /\ Discount \in Nat /\ RewardVnd \in Nat
  /\ CashbackPercent \in Nat /\ MaxActs \in Nat /\ MaxFaults \in Nat
  /\ Refunds \subseteq Nat /\ Adjustments \subseteq Int
  /\ IsFiniteSet(Orders)

VARIABLES
  pc,         \* where the checkout of an order is, then its payment
  code,       \* what the request came with: no code, the coupon or the referral code
  status,     \* of the order row
  items,      \* its order_item rows
  hold, age,  \* its wallet_hold; age 1: the order is past 30 minutes, 2: its hold too
  referral,   \* its order_referral
  read,       \* what createHold read: the balance, then what is free of it
  bal, locked,  \* the wallets
  limit,      \* the limits of the coupon
  usage,      \* its usageCount
  counted,    \* orders that were counted in it
  exposed,    \* history: users whose wallet was debited beside its holds, see below
  again,      \* history: users of whom two orders referred to somebody side by side
  loose,      \* history: the coupon was used side by side, or a use given back
  revived,    \* history: orders paid over a status that was not pending
  hurt,       \* history: orders a fault hit
  refunded,   \* refundedAmountVnd of the order rows
  acts        \* bounded counter of what admins and the nightly job did

rows == <<status, items, hold, age, referral>>
wallets == <<bal, locked>>
coupon == <<limit, usage, counted>>
history == <<exposed, again, loose, revived>>
admin == <<refunded, acts>>
vars == <<pc, code, rows, read, wallets, coupon, history, hurt, admin>>

Codes == {"none", "coupon", "referral"}

Init ==
  /\ pc = [o \in Orders |-> "new"]
  /\ code \in [Orders -> Codes]          \* calculateOrderPricing refuses both codes
  /\ status = [o \in Orders |-> "none"]
  /\ items = [o \in Orders |-> 0]
  /\ hold = [o \in Orders |-> "none"] /\ age = [o \in Orders |-> 0]
  /\ referral = [o \in Orders |-> "none"]
  /\ read = [o \in Orders |-> 0]
  /\ bal = Funds /\ locked = {}
  /\ limit \in Limits /\ usage = 0 /\ counted = {}
  /\ exposed = {} /\ again = {} /\ loose = FALSE /\ revived = {} /\ hurt = {}
  /\ refunded = [o \in Orders |-> 0] /\ acts = 0
-----------------------------------------------------------------------------
(* calculateOrderPricing.                                                   *)

Couponed == {o \in Orders : code[o] = "coupon"}
Referred == {o \in Orders : code[o] = "referral"}

AtLeast0(n) == IF n > 0 THEN n ELSE 0
Least(m, n) == IF m < n THEN m ELSE n

\* Math.round of n / d.
RoundDiv(n, d) == (2 * n + d) \div (2 * d)

\* A percentage, kept to the hundredth and then rounded to thousands.
CouponDiscount(o) ==
  IF o \in Couponed THEN 1000 * RoundDiv(Subtotal[o] * Percent, 100000) ELSE 0

AfterCodes(o) ==
  AtLeast0(Subtotal[o] - CouponDiscount(o) - (IF o \in Referred THEN Discount ELSE 0))

WalletSpent(o) == Least(UseWallet[o], AfterCodes(o))
Payable(o) == AtLeast0(AfterCodes(o) - WalletSpent(o))
Cashback(o) == RoundDiv(AfterCodes(o) * CashbackPercent, 100)

-----------------------------------------------------------------------------
OfUser(u) == {o \in Orders : Buyer[o] = u}
PaidOf(u) == {o \in OfUser(u) : status[o] = "paid"}
Others(o) == OfUser(Buyer[o]) \ {o}

Goto(o, l) == pc' = [pc EXCEPT ![o] = l]

\* createOrderReferral comes after the order row, createHold after the referral.
AfterReferral(o) == IF WalletSpent(o) > 0 THEN "balance" ELSE "items"
AfterOrder(o) == IF o \in Referred THEN "referral" ELSE AfterReferral(o)

\* Between its validation and the count of its use, unless it can be paid no more.
Unsettled(o) ==
  /\ o \in Couponed /\ pc[o] \notin {"new", "refused", "over"}
  /\ ~(pc[o] = "offered" /\ status[o] = "failed")

UsesOf(u) == PaidOf(u) \cap Couponed

\* Mutant: the limit for each user is not looked at.
CouponValidInAll(o) == usage < limit.all

\* validateCoupon: uses of all users are counted, those of the user are the paid orders.
CouponValid(o) ==
  /\ usage < limit.all
  /\ Cardinality(UsesOf(Buyer[o])) < limit.each

Live(u) == {o \in OfUser(u) : referral[o] \in {"pending", "credited"}}

\* Mutant: an order that is not paid leaves the code free.
ReferralValidIfPaid(o) ==
  /\ Subtotal[o] >= MinOrder
  /\ Referrer \notin locked
  /\ Referrer # Buyer[o]
  /\ PaidOf(Buyer[o]) = {}

\* validateReferralForOrder.
ReferralValid(o) ==
  /\ Subtotal[o] >= MinOrder
  /\ Referrer \notin locked
  /\ Referrer # Buyer[o]
  /\ PaidOf(Buyer[o]) = {}
  /\ Live(Buyer[o]) = {}

\* Pricing reads; a code that is refused ends the checkout before the order row.
Price(o) ==
  /\ pc[o] = "new"
  /\ Goto(o, IF /\ o \in Couponed => CouponValid(o)
                /\ o \in Referred => ReferralValid(o)
             THEN "order" ELSE "refused")
  /\ loose' = (loose \/ (o \in Couponed /\ \E p \in Orders \ {o} : Unsettled(p)))
  /\ UNCHANGED <<code, rows, read, wallets, coupon, exposed, again, revived, hurt, admin>>

CreateOrder(o) ==
  /\ pc[o] = "order"
  /\ status' = [status EXCEPT ![o] = "pending"]
  /\ Goto(o, AfterOrder(o))
  /\ UNCHANGED <<code, items, hold, age, referral, read, wallets, coupon, history, hurt, admin>>

CreateReferral(o) ==
  /\ pc[o] = "referral"
  /\ referral' = [referral EXCEPT ![o] = "pending"]
  /\ again' = IF \E p \in Others(o) \cap Referred : pc[p] \in {"order", "referral"}
              THEN again \cup {Buyer[o]} ELSE again
  /\ Goto(o, AfterReferral(o))
  /\ UNCHANGED <<code, status, items, hold, age, read, wallets, coupon, exposed, loose, revived,
                 hurt, admin>>

\* createHold: the balance, then the sum of the active holds, then the INSERT. What it
\* throws leaves the order row and the referral behind.
ReadBalance(o) ==
  /\ pc[o] = "balance"
  /\ read' = [read EXCEPT ![o] = bal[Buyer[o]]]
  /\ Goto(o, IF Buyer[o] \in locked THEN "refused" ELSE "holds")
  /\ UNCHANGED <<code, rows, wallets, coupon, history, hurt, admin>>

Held(u) == MapThenSumSet(WalletSpent, {o \in OfUser(u) : hold[o] = "held" /\ age[o] < 2})

\* Mutant: holds count once they are captured.
ReadHoldsNone(o) ==
  /\ pc[o] = "holds"
  /\ Goto(o, IF WalletSpent(o) <= AtLeast0(read[o]) THEN "hold" ELSE "refused")
  /\ UNCHANGED <<code, rows, read, wallets, coupon, history, hurt, admin>>

\* Mutant: without a hold, the order is offered all the same.
ReadHoldsAnyway(o) ==
  /\ pc[o] = "holds"
  /\ Goto(o, IF WalletSpent(o) <= AtLeast0(read[o] - Held(Buyer[o]))
             THEN "hold" ELSE "items")
  /\ UNCHANGED <<code, rows, read, wallets, coupon, history, hurt, admin>>

ReadHolds(o) ==
  /\ pc[o] = "holds"
  /\ Goto(o, IF WalletSpent(o) <= AtLeast0(read[o] - Held(Buyer[o]))
             THEN "hold" ELSE "refused")
  /\ read' = [read EXCEPT ![o] = 0]
  /\ UNCHANGED <<code, rows, wallets, coupon, history, hurt, admin>>

\* Another createHold or capture of the user is between its statements.
Beside(o) == \E p \in Others(o) : pc[p] \in {"holds", "hold"}

Touch(o, because) == exposed' = IF because THEN exposed \cup {Buyer[o]} ELSE exposed

SaveHold(o) ==
  /\ pc[o] = "hold"
  /\ hold' = [hold EXCEPT ![o] = "held"]
  /\ Touch(o, Beside(o))
  /\ Goto(o, "items")
  /\ UNCHANGED <<code, status, items, age, referral, read, wallets, coupon, again, loose, revived,
                 hurt, admin>>

CreateItem(o) ==
  /\ pc[o] = "items" /\ items[o] < Units[o]
  /\ items' = [items EXCEPT ![o] = @ + 1]
  /\ UNCHANGED <<code, pc, status, hold, age, referral, read, wallets, coupon, history, hurt, admin>>

\* With nothing left to pay, the order is finalized at once.
Offer(o) ==
  /\ pc[o] = "items" /\ items[o] = Units[o]
  /\ Goto(o, IF Payable(o) = 0 THEN "mark" ELSE "offered")
  /\ UNCHANGED <<code, rows, read, wallets, coupon, history, hurt, admin>>
-----------------------------------------------------------------------------
(* The payment, and finalizePaidOrder.                                      *)

Ipn(o) ==
  /\ pc[o] = "offered"
  /\ Goto(o, IF status[o] = "pending" THEN "mark" ELSE "over")
  /\ UNCHANGED <<code, rows, read, wallets, coupon, history, hurt, admin>>

MarkPaid(o) ==
  /\ pc[o] = "mark"
  /\ status' = [status EXCEPT ![o] = "paid"]
  /\ revived' = IF status[o] = "pending" THEN revived ELSE revived \cup {o}
  /\ Goto(o, IF WalletSpent(o) > 0 THEN "capture" ELSE "benefits")
  /\ UNCHANGED <<code, items, hold, age, referral, read, wallets, coupon, exposed, again, loose,
                 hurt, admin>>

\* Mutant: a hold is captured within 30 minutes of the order.
CaptureFresh(o) ==
  /\ pc[o] = "capture"
  /\ IF hold[o] = "held" /\ age[o] = 0
     THEN /\ hold' = [hold EXCEPT ![o] = "captured"]
          /\ bal' = [bal EXCEPT ![Buyer[o]] = @ - WalletSpent(o)]
          /\ Touch(o, Beside(o))
     ELSE UNCHANGED <<hold, bal, exposed>>
  /\ Goto(o, "benefits")
  /\ UNCHANGED <<code, status, items, age, referral, read, locked, coupon, again, loose,
                 revived, hurt, admin>>

\* captureHoldForOrder debits a hold that is still HELD, expired or not.
Capture(o) ==
  /\ pc[o] = "capture"
  /\ IF hold[o] = "held"
     THEN /\ hold' = [hold EXCEPT ![o] = "captured"]
          /\ bal' = [bal EXCEPT ![Buyer[o]] = @ - WalletSpent(o)]
          /\ Touch(o, age[o] = 2 \/ Beside(o))
     ELSE UNCHANGED <<hold, bal, exposed>>
  /\ Goto(o, "benefits")
  /\ UNCHANGED <<code, status, items, age, referral, read, locked, coupon, again, loose, revived,
                 hurt, admin>>

\* The cashback, and the reward of a referral that is still pending.
Benefits(o) ==
  /\ pc[o] = "benefits"
  /\ LET due == referral[o] = "pending" IN
     /\ bal' = [u \in Users |-> bal[u] + (IF u = Buyer[o] THEN Cashback(o) ELSE 0)
                                       + (IF due /\ u = Referrer THEN RewardVnd ELSE 0)]
     /\ referral' = [referral EXCEPT ![o] = IF due THEN "credited" ELSE @]
  /\ Goto(o, IF o \in Couponed THEN "count" ELSE "over")
  /\ UNCHANGED <<code, status, items, hold, age, read, locked, coupon, history, hurt, admin>>

\* applyCoupon.
Count(o) ==
  /\ pc[o] = "count"
  /\ usage' = usage + 1 /\ counted' = counted \cup {o}
  /\ Goto(o, "over")
  /\ UNCHANGED <<code, rows, read, wallets, limit, history, hurt, admin>>
-----------------------------------------------------------------------------
(* The order does not get paid.                                             *)

Close(o) ==
  /\ status' = [status EXCEPT ![o] = "failed"]
  /\ hold' = [hold EXCEPT ![o] = IF @ = "held" THEN "released" ELSE @]
  /\ referral' = [referral EXCEPT ![o] = IF @ = "pending" THEN "reversed" ELSE @]
  /\ UNCHANGED <<code, pc, items, age, read, wallets, exposed, again, revived, hurt, admin>>

\* cancelOrder, for the buyer, an admin or a payment that failed. The coupon gets a use
\* back, counted or not.
Cancel(o) ==
  /\ status[o] = "pending"
  /\ Close(o)
  /\ usage' = IF o \in Couponed THEN AtLeast0(usage - 1) ELSE usage
  /\ loose' = (loose \/ o \in Couponed)
  /\ UNCHANGED <<limit, counted>>

\* failExpiredPendingOrders.
FailExpired(o) ==
  /\ status[o] = "pending" /\ age[o] > 0
  /\ Close(o)
  /\ UNCHANGED <<coupon, loose>>

\* expireHolds.
ExpireHolds ==
  /\ \E o \in Orders : hold[o] = "held" /\ age[o] = 2
  /\ hold' = [o \in Orders |-> IF hold[o] = "held" /\ age[o] = 2 THEN "expired" ELSE hold[o]]
  /\ UNCHANGED <<code, pc, status, items, age, referral, read, wallets, coupon, history, hurt, admin>>

\* Time passes, as far as a step looks at it; the hold was created after its order.
Age(o) ==
  /\ \/ age[o] = 0 /\ (status[o] = "pending" \/ hold[o] = "held")
     \/ age[o] = 1 /\ hold[o] = "held"
  /\ age' = [age EXCEPT ![o] = @ + 1]
  /\ UNCHANGED <<code, pc, status, items, hold, referral, read, wallets, coupon, history, hurt, admin>>

-----------------------------------------------------------------------------
(* An admin, and the nightly job. Refunds and debits look at no holds.         *)

Act == acts < MaxActs /\ acts' = acts + 1

\* A hold of the user is active, or a createHold is between its statements.
Reserving(u) == \E o \in OfUser(u) : hold[o] = "held" \/ pc[o] \in {"holds", "hold"}

Expose == exposed' = exposed \cup {u \in Users : bal'[u] < bal[u] /\ Reserving(u)}

\* refundOrder, of an amount that is left of the order. The first one takes the cashback
\* back, credited or not yet; a referral ends, and a credited reward with it. What was paid
\* in eXu returns to the wallet, in mode WALLET what was paid in money too. The use of the
\* coupon stays counted.
Returned(o, a) ==
  LET exu == IF AfterCodes(o) = 0 THEN 0 ELSE RoundDiv(a * WalletSpent(o), AfterCodes(o))
  IN  {exu, a}

Refund(o) ==
  /\ Act
  /\ status[o] \in {"paid", "refunded"}
  /\ \E a \in Refunds : \E back \in Returned(o, a) :
       /\ a <= AfterCodes(o) - refunded[o]
       /\ refunded' = [refunded EXCEPT ![o] = @ + a]
       /\ LET taken == IF status[o] = "paid" THEN Cashback(o) ELSE 0
              lost == IF referral[o] = "credited" THEN RewardVnd ELSE 0
          IN  bal' = [u \in Users |-> bal[u] + (IF u = Buyer[o] THEN back - taken ELSE 0)
                                            - (IF u = Referrer THEN lost ELSE 0)]
  /\ status' = [status EXCEPT ![o] = "refunded"]
  /\ referral' = [referral EXCEPT ![o] = IF @ \in {"pending", "credited"}
                                         THEN "reversed" ELSE @]
  /\ Expose
  /\ UNCHANGED <<code, pc, items, hold, age, read, locked, coupon, again, loose, revived,
                 hurt>>

UpdateWalletStatus(u) ==
  /\ Act
  /\ locked' = IF u \in locked THEN locked \ {u} ELSE locked \cup {u}
  /\ UNCHANGED <<code, pc, rows, read, bal, coupon, history, hurt, refunded>>

\* adminAdjustWallet, by any amount but 0; cancelWalletBalance, which makes the balance 0;
\* and expireWallets, which does so when it is positive.
AdjustWallet(u) ==
  /\ Act
  /\ \E b \in {bal[u] + n : n \in Adjustments} \cup {0} :
       b # bal[u] /\ bal' = [bal EXCEPT ![u] = b]
  /\ Expose
  /\ UNCHANGED <<code, pc, rows, read, locked, coupon, again, loose, revived, hurt, refunded>>

\* An exception or the end of the process.
Stop(o) ==
  /\ pc[o] \notin {"new", "refused", "offered", "over"}
  /\ Cardinality(hurt) < MaxFaults
  /\ hurt' = hurt \cup {o}
  /\ Goto(o, "refused")
  /\ UNCHANGED <<code, rows, read, wallets, coupon, history, admin>>
-----------------------------------------------------------------------------
CheckingOut(o) ==
  \/ CreateOrder(o) \/ CreateReferral(o) \/ ReadBalance(o) \/ ReadHolds(o) \/ SaveHold(o)
  \/ CreateItem(o) \/ Offer(o)

Paying(o) == MarkPaid(o) \/ Capture(o) \/ Benefits(o) \/ Count(o)

Next ==
  \/ \E o \in Orders :
       \/ Price(o) \/ CheckingOut(o) \/ Ipn(o) \/ Paying(o)
       \/ Refund(o) \/ Cancel(o) \/ FailExpired(o) \/ Age(o) \/ Stop(o)
  \/ ExpireHolds
  \/ \E u \in Users : UpdateWalletStatus(u) \/ AdjustWallet(u)

Spec == Init /\ [][Next]_vars
-----------------------------------------------------------------------------
\* Every variable has its type.
TypeOK ==
  /\ pc \in [Orders -> {"new", "order", "referral", "balance", "holds", "hold", "items",
                        "offered", "mark", "capture", "benefits", "count", "over",
                        "refused"}]
  /\ status \in [Orders -> {"none", "pending", "paid", "failed", "refunded"}]
  /\ items \in [Orders -> Nat]
  /\ hold \in [Orders -> {"none", "held", "captured", "released", "expired"}]
  /\ age \in [Orders -> 0..2]
  /\ referral \in [Orders -> {"none", "pending", "credited", "reversed"}]
  /\ read \in [Orders -> Int] /\ bal \in [Users -> Int]
  /\ locked \subseteq Users
  /\ limit \in Limits /\ usage \in Nat /\ counted \subseteq Orders
  /\ exposed \subseteq Users /\ again \subseteq Users /\ loose \in BOOLEAN
  /\ revived \subseteq Orders /\ hurt \subseteq Orders
  /\ refunded \in [Orders -> Nat] /\ acts \in 0..MaxActs

\* createHold: what the active holds of a user reserve is in the wallet, so that every
\* capture is covered. The exceptions: a checkout of the user read the wallet while another
\* one held or debited it; a hold was debited after it had expired; or, beside a hold or a
\* createHold of the user, a refund took back cashback or reward, an admin lowered the
\* balance, or it expired.
HeldIsCovered == \A u \in Users \ exposed : Held(u) = 0 \/ Held(u) <= bal[u]

\* What was validated holds when it is used. A user is referred once at a time, unless two
\* checkouts of the user were validated side by side. As long as checkouts with the coupon
\* do not overlap and none is cancelled, the coupon is counted for no more orders than it
\* allows in all, and no user has more paid orders with it than it allows each; an order that
\* is refunded is free for its user again, and stays counted in all.
LimitsHold ==
  /\ \A u \in Users \ again : Cardinality(Live(u)) <= 1
  /\ ~loose => /\ Cardinality(counted) <= limit.all
               /\ \A u \in Users : Cardinality(UsesOf(u)) <= limit.each

\* A buyer can pay only for an order that has all of its parts: the items, the hold for
\* what the price leaves to eXu, the referral behind the discount; and the parts of the
\* price add up.
OfferIsComplete ==
  \A o \in Orders : pc[o] \in {"offered", "mark"} =>
    /\ items[o] = Units[o]
    /\ WalletSpent(o) > 0 => hold[o] # "none"
    /\ o \in Referred => referral[o] # "none"
    /\ Payable(o) + WalletSpent(o) = AfterCodes(o)

\* When an order is settled without a fault, refunded or not, its eXu was debited, unless
\* its hold had expired or the order had failed by then.
PaidIsDebited ==
  \A o \in Orders \ (revived \cup hurt) :
    pc[o] = "over" /\ status[o] \in {"paid", "refunded"} /\ WalletSpent(o) > 0 /\ age[o] < 2
      => hold[o] = "captured"
=============================================================================
