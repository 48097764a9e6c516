--------------------------- MODULE CheckoutProofs ---------------------------
(* What a checkout validated is kept, for any number of users and orders, any     *)
(* prices and any coupon, and what is held of a wallet is in it.                *)
EXTENDS Checkout, TLAPS, FiniteSetTheorems, WellFoundedInduction

Early == {"new", "order"}
Later == {"capture", "benefits", "count"}

\* The rows of an order are there when the checkout has come past them.
Staged(o) ==
  /\ pc[o] \in Early => status[o] = "none"
  /\ pc[o] = "referral" => o \in Referred
  /\ pc[o] = "count" => o \in Couponed
  /\ pc[o] \in {"items", "offered", "mark"} /\ WalletSpent(o) > 0 => hold[o] # "none"
  /\ pc[o] \in {"balance", "holds", "hold", "items", "offered", "mark"} /\ o \in Referred
       => referral[o] # "none"
  /\ pc[o] \in {"offered", "mark"} => items[o] = Units[o]

\* An order is paid once the payment has marked it, and until it is refunded.
Paid == {"paid", "refunded"}

Marked(o) ==
  /\ status[o] \in Paid => pc[o] \in Later \cup {"over", "refused"}
  /\ pc[o] \in Later => status[o] \in Paid
  /\ o \in counted => pc[o] = "over" /\ o \in Couponed

\* The hold of an order that can be paid waits for its capture.
Reserved(o) ==
  /\ hold[o] = "expired" => age[o] = 2
  /\ o \notin revived \cup hurt /\ WalletSpent(o) > 0 /\ age[o] < 2 =>
       /\ pc[o] \in {"items", "offered", "mark"} /\ status[o] = "pending" => hold[o] = "held"
       /\ pc[o] = "capture" => hold[o] = "held"
       /\ pc[o] \in {"benefits", "count"} => hold[o] = "captured"
       /\ pc[o] = "over" /\ status[o] \in Paid => hold[o] = "captured"

OrderInv(o) == Staged(o) /\ Marked(o) /\ Reserved(o)

\* Between the validation of its referral code and the referral.
Validated(o) == o \in Referred /\ pc[o] \in {"order", "referral"}
IsLive(o) == referral[o] \in {"pending", "credited"}

\* Beside a live referral of a user there is no other, and none is on its way.
ReferralInv ==
  \A o, p \in Orders :
    o # p /\ Buyer[o] = Buyer[p] /\ Buyer[o] \notin again /\ IsLive(o)
      => ~IsLive(p) /\ ~Validated(p)

\* The coupon has a use left for the one order that was validated with it.
CouponInv ==
  ~loose =>
    /\ usage = Cardinality(counted) /\ usage <= limit.all
    /\ \A u \in Users : Cardinality(UsesOf(u)) <= limit.each
    /\ \A o, p \in Orders : Unsettled(o) /\ Unsettled(p) => o = p
    /\ \A o \in Orders : Unsettled(o) =>
         /\ usage < limit.all
         /\ status[o] \notin Paid => Cardinality(UsesOf(Buyer[o])) < limit.each

IInv == TypeOK /\ (\A o \in Orders : OrderInv(o)) /\ ReferralInv /\ CouponInv

LEMMA InitInv == Init => IInv
<1> SUFFICES ASSUME Init PROVE IInv OBVIOUS
<1> USE CheckoutAssumption DEF Init
<1>1. TypeOK
  <2>1. bal \in [Users -> Int]
    OBVIOUS
  <2>2. /\ read \in [Orders -> Int] /\ items \in [Orders -> Nat] /\ age \in [Orders -> 0..2]
        /\ refunded \in [Orders -> Nat] /\ acts \in 0..MaxActs
    OBVIOUS
  <2> QED BY <2>1, <2>2 DEF TypeOK
<1>2. ASSUME NEW o \in Orders PROVE OrderInv(o)
  BY DEF OrderInv, Staged, Marked, Reserved, Early, Later, Paid
<1>3. ReferralInv
  BY DEF ReferralInv, IsLive
<1>4. CouponInv
  <2>1. Cardinality(counted) = 0 /\ \A u \in Users : Cardinality(UsesOf(u)) = 0
    <3>1. \A u \in Users : UsesOf(u) = {}
      BY DEF UsesOf, PaidOf, OfUser
    <3> QED BY <3>1, FS_EmptySet
  <2>2. \A o \in Orders : ~Unsettled(o)
    BY DEF Unsettled
  <2>3. limit.all \in Nat /\ limit.each \in Nat
    OBVIOUS
  <2> QED BY <2>1, <2>2, <2>3 DEF CouponInv
<1> QED BY <1>1, <1>2, <1>3, <1>4 DEF IInv
-----------------------------------------------------------------------------
(* Prices are whole numbers, and stay what they were.                       *)

LEMMA RoundIsInt ==
  ASSUME NEW n \in Int, NEW d \in Nat \ {0}
  PROVE  RoundDiv(n, d) \in Int
  BY DEF RoundDiv

LEMMA PricesAreInts ==
  ASSUME NEW o \in Orders
  PROVE  /\ CouponDiscount(o) \in Int /\ AfterCodes(o) \in Nat
         /\ WalletSpent(o) \in Nat /\ WalletSpent(o) <= AfterCodes(o)
         /\ Payable(o) + WalletSpent(o) = AfterCodes(o)
         /\ Cashback(o) \in Int
<1> USE CheckoutAssumption
<1>1. CouponDiscount(o) \in Int
  <2>1. Subtotal[o] * Percent \in Int
    OBVIOUS
  <2>2. RoundDiv(Subtotal[o] * Percent, 100000) \in Int
    BY <2>1, RoundIsInt
  <2> QED BY <2>2 DEF CouponDiscount
<1>2. AfterCodes(o) \in Nat
  BY <1>1 DEF AfterCodes, AtLeast0
<1>3. WalletSpent(o) \in Nat /\ WalletSpent(o) <= AfterCodes(o)
  BY <1>2 DEF WalletSpent, Least
<1>4. Payable(o) + WalletSpent(o) = AfterCodes(o)
  BY <1>2, <1>3 DEF Payable, AtLeast0
<1>5. Cashback(o) \in Int
  <2>1. AfterCodes(o) * CashbackPercent \in Int
    BY <1>2
  <2> QED BY <2>1, RoundIsInt DEF Cashback
<1> QED BY <1>1, <1>2, <1>3, <1>4, <1>5

LEMMA CashbackIsNat ==
  ASSUME NEW o \in Orders
  PROVE  Cashback(o) \in Nat
<1>1. AfterCodes(o) \in Nat /\ CashbackPercent \in Nat
  BY PricesAreInts, CheckoutAssumption
<1>2. AfterCodes(o) * CashbackPercent \in Nat
  BY <1>1
<1>3. \A n \in Nat : RoundDiv(n, 100) \in Nat
  BY DEF RoundDiv
<1> QED BY <1>2, <1>3 DEF Cashback

LEMMA AfterReferralIs ==
  ASSUME NEW o \in Orders
  PROVE  AfterReferral(o) \in {"balance", "items"} /\ (AfterReferral(o) = "items" => WalletSpent(o) = 0)
<1>1. WalletSpent(o) \in Nat
  BY PricesAreInts
<1> QED BY <1>1 DEF AfterReferral

LEMMA PricesStay ==
  ASSUME UNCHANGED code
  PROVE  /\ Couponed' = Couponed /\ Referred' = Referred
         /\ \A o \in Orders : WalletSpent(o)' = WalletSpent(o)
  BY DEF Couponed, Referred, WalletSpent, AfterCodes, CouponDiscount
-----------------------------------------------------------------------------
LEMMA UntouchedOrder ==
  ASSUME NEW o \in Orders, OrderInv(o), UNCHANGED code,
         UNCHANGED <<pc[o], status[o], items[o], hold[o], age[o], referral[o]>>,
         o \in counted' => o \in counted, revived \subseteq revived', hurt \subseteq hurt'
  PROVE  OrderInv(o)'
<1>1. Staged(o)'
  BY PricesStay DEF OrderInv, Staged
<1>2. Marked(o)'
  BY PricesStay DEF OrderInv, Marked
<1>3. Reserved(o)'
  BY PricesStay DEF OrderInv, Reserved
<1> QED BY <1>1, <1>2, <1>3 DEF OrderInv

LEMMA ReferralStep ==
  ASSUME ReferralInv, UNCHANGED code, again \subseteq again',
         \A o \in Orders : /\ IsLive(o)' => IsLive(o)
                           /\ Validated(o)' => Validated(o)
  PROVE  ReferralInv'
  BY DEF ReferralInv

LEMMA LimitsAreNats ==
  ASSUME TypeOK
  PROVE  limit.all \in Nat /\ limit.each \in Nat
  BY CheckoutAssumption DEF TypeOK

\* No order becomes paid, so that no user gets more uses.
LEMMA FewerUses ==
  ASSUME UNCHANGED code, \A o \in Orders : status'[o] = "paid" => status[o] = "paid",
         NEW u \in Users
  PROVE  /\ Cardinality(UsesOf(u)) \in Nat /\ Cardinality(UsesOf(u)') \in Nat
         /\ Cardinality(UsesOf(u)') <= Cardinality(UsesOf(u))
<1>1. UsesOf(u) \subseteq Orders /\ UsesOf(u)' \subseteq UsesOf(u)
  BY PricesStay DEF UsesOf, PaidOf, OfUser
<1>2. IsFiniteSet(UsesOf(u))
  BY <1>1, FS_Subset, CheckoutAssumption
<1>3. IsFiniteSet(UsesOf(u)') /\ Cardinality(UsesOf(u)') <= Cardinality(UsesOf(u))
  BY <1>1, <1>2, FS_Subset
<1> QED BY <1>2, <1>3, FS_CardinalityType

LEMMA CouponStep ==
  ASSUME TypeOK, CouponInv, UNCHANGED code, loose => loose', loose' \in BOOLEAN,
         loose' \/ UNCHANGED coupon,
         \A o \in Orders : /\ Unsettled(o)' => Unsettled(o)
                           /\ status'[o] = "paid" => status[o] = "paid"
                           /\ status[o] \in Paid => status'[o] \in Paid
  PROVE  CouponInv'
<1> SUFFICES ASSUME ~loose' PROVE CouponInv'
  BY DEF CouponInv
<1>1. ~loose /\ UNCHANGED coupon /\ limit.all \in Nat /\ limit.each \in Nat
  BY LimitsAreNats DEF TypeOK
<1>2. ASSUME NEW u \in Users PROVE Cardinality(UsesOf(u)') <= limit.each
  BY <1>1, <1>2, FewerUses DEF CouponInv
<1>3. ASSUME NEW o \in Orders, Unsettled(o)', status'[o] \notin Paid
      PROVE  Cardinality(UsesOf(Buyer[o])') < limit.each
  <2>1. Buyer[o] \in Users
    BY CheckoutAssumption
  <2>2. Cardinality(UsesOf(Buyer[o])) < limit.each
    BY <1>1, <1>3 DEF CouponInv
  <2> QED BY <1>1, <2>1, <2>2, FewerUses
<1> QED BY <1>1, <1>2, <1>3 DEF CouponInv, coupon

\* A step on one order leaves the others as they are.
LEMMA OtherOrders ==
  ASSUME IInv, TypeOK', NEW o \in Orders, UNCHANGED code, OrderInv(o)',
         \A p \in Orders \ {o} :
           UNCHANGED <<pc[p], status[p], items[p], hold[p], age[p], referral[p]>>,
         revived \subseteq revived', hurt \subseteq hurt', again \subseteq again',
         counted' = counted,
         IsLive(o)' => IsLive(o), Validated(o)' => Validated(o),
         CouponInv'
  PROVE  IInv'
<1>1. ASSUME NEW p \in Orders PROVE OrderInv(p)'
  BY <1>1, UntouchedOrder DEF IInv
<1>2. \A p \in Orders : /\ IsLive(p)' => IsLive(p)
                        /\ Validated(p)' => Validated(p)
  BY PricesStay DEF IsLive, Validated
<1>3. ReferralInv'
  BY <1>2, ReferralStep DEF IInv
<1> QED BY <1>1, <1>3 DEF IInv

\* A step on one order that neither validates nor uses a code.
LEMMA OrderStep ==
  ASSUME IInv, TypeOK', NEW o \in Orders, UNCHANGED code, OrderInv(o)',
         \A p \in Orders \ {o} :
           UNCHANGED <<pc[p], status[p], items[p], hold[p], age[p], referral[p]>>,
         revived \subseteq revived', hurt \subseteq hurt', again \subseteq again',
         counted' = counted, loose => loose', loose' \/ UNCHANGED coupon,
         IsLive(o)' => IsLive(o), Validated(o)' => Validated(o),
         Unsettled(o)' => Unsettled(o),
         status'[o] = "paid" => status[o] = "paid",
         status[o] \in Paid => status'[o] \in Paid
  PROVE  IInv'
<1>1. \A p \in Orders : /\ Unsettled(p)' => Unsettled(p)
                        /\ status'[p] = "paid" => status[p] = "paid"
                        /\ status[p] \in Paid => status'[p] \in Paid
  BY PricesStay DEF Unsettled
<1>2. CouponInv'
  BY <1>1, CouponStep DEF IInv, TypeOK
<1> QED BY <1>2, OtherOrders
-----------------------------------------------------------------------------
(* Validation and use of the codes.                                         *)

LEMMA PriceKeepsInv ==
  ASSUME IInv, NEW o \in Orders, Price(o)
  PROVE  IInv'
<1> USE DEF Price, Goto, rows, wallets, coupon, admin
<1>0. TypeOK /\ OrderInv(o) /\ ReferralInv /\ CouponInv
  BY DEF IInv
<1>1. PICK l \in {"order", "refused"} :
        /\ pc' = [pc EXCEPT ![o] = l]
        /\ l = "order" => /\ o \in Couponed => CouponValid(o)
                          /\ o \in Referred => ReferralValid(o)
  OBVIOUS
<1>2. TypeOK'
  BY <1>0, <1>1 DEF TypeOK
<1>3. pc[o] = "new" /\ pc'[o] = l /\ \A p \in Orders \ {o} : pc'[p] = pc[p]
  BY <1>0, <1>1 DEF TypeOK
<1>4. OrderInv(o)'
  <2>1. Staged(o)'
    BY <1>0, <1>3, PricesStay DEF OrderInv, Staged, Early
  <2>2. Marked(o)'
    BY <1>0, <1>3, PricesStay DEF OrderInv, Marked, Early, Later, Paid
  <2>3. Reserved(o)'
    BY <1>0, <1>3, PricesStay DEF OrderInv, Reserved
  <2> QED BY <2>1, <2>2, <2>3 DEF OrderInv
<1>5. ASSUME NEW p \in Orders PROVE OrderInv(p)'
  BY <1>3, <1>4, UntouchedOrder DEF IInv
<1>6. ReferralInv'
  <2>1. \A p \in Orders : IsLive(p)' <=> IsLive(p)
    BY DEF IsLive
  <2>2. \A p \in Orders : Validated(p)' =>
          Validated(p) \/ (p = o /\ \A q \in Orders : Buyer[q] = Buyer[o] => ~IsLive(q))
    BY <1>1, <1>3, PricesStay DEF Validated, ReferralValid, Live, OfUser, IsLive
  <2> QED BY <1>0, <2>1, <2>2 DEF ReferralInv
<1>7. CouponInv'
  <2> SUFFICES ASSUME ~loose' PROVE CouponInv'
    BY DEF CouponInv
  <2>1. ~loose /\ (o \in Couponed => \A p \in Orders \ {o} : ~Unsettled(p))
    OBVIOUS
  <2>2. \A p \in Orders : Unsettled(p)' =>
          Unsettled(p) \/ (p = o /\ o \in Couponed /\ CouponValid(o))
    BY <1>1, <1>3, PricesStay DEF Unsettled
  <2>3. \A p, q \in Orders : Unsettled(p)' /\ Unsettled(q)' => p = q
    BY <1>0, <2>1, <2>2 DEF CouponInv
  <2>4. UNCHANGED <<status, limit, usage, counted>> /\ \A u \in Users : UsesOf(u)' = UsesOf(u)
    BY PricesStay DEF UsesOf, PaidOf, OfUser
  <2>5. \A p \in Orders : Unsettled(p)' =>
          /\ usage < limit.all
          /\ status[p] \notin Paid => Cardinality(UsesOf(Buyer[p])) < limit.each
    BY <1>0, <2>1, <2>2 DEF CouponInv, CouponValid
  <2>6. \A p \in Orders : Buyer[p] \in Users
    BY CheckoutAssumption
  <2> QED BY <1>0, <2>1, <2>3, <2>4, <2>5, <2>6 DEF CouponInv
<1> QED BY <1>2, <1>5, <1>6, <1>7 DEF IInv

LEMMA CreateReferralKeepsInv ==
  ASSUME IInv, NEW o \in Orders, CreateReferral(o)
  PROVE  IInv'
<1> USE DEF CreateReferral, Goto, wallets, coupon, admin
<1>0. TypeOK /\ OrderInv(o) /\ ReferralInv /\ CouponInv
  BY DEF IInv
<1>1. PICK l \in {"balance", "items"} :
        pc' = [pc EXCEPT ![o] = l] /\ (l = "items" => WalletSpent(o) = 0)
  BY AfterReferralIs
<1>2. TypeOK'
  <2>1. pc' \in [Orders -> {"new", "order", "referral", "balance", "holds", "hold", "items",
                        "offered", "mark", "capture", "benefits", "count", "over", "refused"}]
    BY <1>0, <1>1 DEF TypeOK
  <2>2. referral' \in [Orders -> {"none", "pending", "credited", "reversed"}]
    BY <1>0 DEF TypeOK
  <2>3. again' \subseteq Users
    BY <1>0, CheckoutAssumption DEF TypeOK
  <2> QED BY <1>0, <2>1, <2>2, <2>3 DEF TypeOK
<1>3. /\ pc[o] = "referral" /\ pc'[o] = l /\ referral'[o] = "pending"
      /\ \A p \in Orders \ {o} : pc'[p] = pc[p] /\ referral'[p] = referral[p]
  BY <1>0, <1>1 DEF TypeOK
<1>4. OrderInv(o)'
  <2>1. Staged(o)'
    BY <1>0, <1>1, <1>3, PricesStay DEF OrderInv, Staged, Early
  <2>2. Marked(o)'
    BY <1>0, <1>3, PricesStay DEF OrderInv, Marked, Later
  <2>3. Reserved(o)'
    BY <1>0, <1>1, <1>3, PricesStay DEF OrderInv, Reserved
  <2> QED BY <2>1, <2>2, <2>3 DEF OrderInv
<1>5. ASSUME NEW p \in Orders PROVE OrderInv(p)'
  BY <1>3, <1>4, UntouchedOrder DEF IInv
<1>6. ReferralInv'
  <2>1. \A p \in Orders : /\ IsLive(p)' => IsLive(p) \/ p = o
                          /\ Validated(p)' => Validated(p) /\ p # o
    BY <1>3, PricesStay DEF IsLive, Validated
  <2>2. Validated(o)
    BY <1>0, <1>3 DEF OrderInv, Staged, Validated
  <2>3. Buyer[o] \notin again' =>
          \A p \in Orders : p # o /\ Buyer[p] = Buyer[o] => ~Validated(p)
    BY DEF Others, OfUser, Validated
  <2>4. again \subseteq again'
    OBVIOUS
  <2> QED BY <1>0, <2>1, <2>2, <2>3, <2>4 DEF ReferralInv
<1>7. CouponInv'
  <2>1. \A p \in Orders : Unsettled(p)' => Unsettled(p)
    BY <1>1, <1>3, PricesStay DEF Unsettled
  <2> QED BY <1>0, <2>1, CouponStep DEF TypeOK
<1> QED BY <1>2, <1>5, <1>6, <1>7 DEF IInv

LEMMA CountKeepsInv ==
  ASSUME IInv, NEW o \in Orders, Count(o)
  PROVE  IInv'
<1> USE CheckoutAssumption DEF Count, Goto, rows, wallets, history, admin
<1>0. TypeOK /\ OrderInv(o) /\ ReferralInv /\ CouponInv
  BY DEF IInv
<1>1. TypeOK'
  <2>1. pc' \in [Orders -> {"new", "order", "referral", "balance", "holds", "hold", "items",
                        "offered", "mark", "capture", "benefits", "count", "over", "refused"}]
    BY <1>0 DEF TypeOK
  <2>2. usage' \in Nat /\ counted' \subseteq Orders
    BY <1>0 DEF TypeOK
  <2> QED BY <1>0, <2>1, <2>2 DEF TypeOK
<1>2. pc[o] = "count" /\ pc'[o] = "over" /\ \A p \in Orders \ {o} : pc'[p] = pc[p]
  BY <1>0 DEF TypeOK
<1>3. o \in Couponed /\ o \notin counted
  BY <1>0, <1>2 DEF OrderInv, Staged, Marked, Later
<1>4. OrderInv(o)'
  <2>1. Staged(o)'
    BY <1>2, PricesStay DEF Staged, Early
  <2>2. Marked(o)'
    BY <1>2, <1>3, PricesStay DEF Marked, Later
  <2>3. Reserved(o)'
    BY <1>0, <1>2, PricesStay DEF OrderInv, Reserved
  <2> QED BY <2>1, <2>2, <2>3 DEF OrderInv
<1>5. ASSUME NEW p \in Orders PROVE OrderInv(p)'
  BY <1>2, <1>4, UntouchedOrder DEF IInv
<1>6. ReferralInv'
  <2>1. \A p \in Orders : /\ IsLive(p)' => IsLive(p)
                          /\ Validated(p)' => Validated(p)
    BY <1>2, PricesStay DEF IsLive, Validated
  <2> QED BY <1>0, <2>1, ReferralStep
<1>7. CouponInv'
  <2> SUFFICES ASSUME ~loose PROVE CouponInv'
    BY DEF CouponInv
  <2>1. Unsettled(o)
    BY <1>2, <1>3 DEF Unsettled
  <2>2. \A p \in Orders : ~Unsettled(p)'
    <3>1. \A p \in Orders : p # o => ~Unsettled(p)
      BY <1>0, <2>1 DEF CouponInv
    <3>2. ASSUME NEW p \in Orders, p # o PROVE ~Unsettled(p)'
      BY <3>1, <3>2, <1>2, PricesStay DEF Unsettled
    <3>3. ~Unsettled(o)'
      BY <1>2 DEF Unsettled
    <3> QED BY <3>2, <3>3
  <2>3. IsFiniteSet(counted)
    BY <1>0, FS_Subset DEF TypeOK
  <2>4. Cardinality(counted') = Cardinality(counted) + 1
    BY <1>3, <2>3, FS_AddElement
  <2>5. ASSUME NEW u \in Users PROVE Cardinality(UsesOf(u)') <= limit.each
    <3>1. UsesOf(u)' = UsesOf(u)
      BY PricesStay DEF UsesOf, PaidOf, OfUser
    <3> QED BY <1>0, <3>1 DEF CouponInv
  <2>6. usage' = Cardinality(counted') /\ usage' <= limit.all /\ limit' = limit
    <3>1. usage = Cardinality(counted) /\ usage < limit.all
      BY <1>0, <2>1 DEF CouponInv
    <3> QED BY <1>0, <2>4, <3>1, LimitsAreNats DEF TypeOK
  <2> QED BY <2>2, <2>5, <2>6 DEF CouponInv
<1> QED BY <1>1, <1>5, <1>6, <1>7 DEF IInv
-----------------------------------------------------------------------------
(* The other steps.                                                         *)

\* A checkout that goes on, or the payment, from one place to the next.
LEMMA MoveKeepsInv ==
  ASSUME IInv, NEW o \in Orders,
         \/ CreateOrder(o) \/ ReadBalance(o) \/ ReadHolds(o) \/ CreateItem(o) \/ Offer(o)
         \/ Ipn(o) \/ Stop(o)
  PROVE  IInv'
<1> USE DEF Goto, rows, wallets, coupon, history, admin
<1>0. TypeOK /\ OrderInv(o)
  BY DEF IInv
<1>1. CASE CreateOrder(o)
  <2> USE <1>1 DEF CreateOrder
  <2>1. PICK l \in {"referral", "balance", "items"} :
          /\ pc' = [pc EXCEPT ![o] = l]
          /\ l = "referral" <=> o \in Referred
          /\ l = "items" => WalletSpent(o) = 0
    BY AfterReferralIs DEF AfterOrder
  <2>2. TypeOK'
    BY <1>0, <2>1 DEF TypeOK
  <2>3. /\ pc[o] = "order" /\ pc'[o] = l /\ status'[o] = "pending"
        /\ \A p \in Orders \ {o} : pc'[p] = pc[p] /\ status'[p] = status[p]
    BY <1>0, <2>1 DEF TypeOK
  <2>4. Staged(o)'
    BY <1>0, <2>1, <2>3, PricesStay DEF OrderInv, Staged, Early
  <2>5. Marked(o)'
    BY <1>0, <2>3, PricesStay DEF OrderInv, Marked, Later, Paid
  <2>6. Reserved(o)'
    BY <1>0, <2>1, <2>3, PricesStay DEF OrderInv, Reserved, Paid
  <2>7. /\ IsLive(o)' => IsLive(o)
        /\ Validated(o)' => Validated(o)
        /\ Unsettled(o)' => Unsettled(o)
    BY <2>3, PricesStay DEF IsLive, Validated, Unsettled
  <2>8. status'[o] # "paid" /\ status[o] \notin Paid
    BY <1>0, <2>3 DEF OrderInv, Marked, Later, Paid
  <2> QED BY <2>2, <2>3, <2>4, <2>5, <2>6, <2>7, <2>8, OrderStep DEF OrderInv
<1>2. CASE ReadBalance(o) \/ ReadHolds(o)
  <2> USE <1>2 DEF ReadBalance, ReadHolds
  <2>1. PICK l \in {"holds", "hold", "refused"} : pc' = [pc EXCEPT ![o] = l]
    OBVIOUS
  <2>2. TypeOK'
    <3>1. read' \in [Orders -> Int]
      BY <1>0, CheckoutAssumption DEF TypeOK
    <3> QED BY <1>0, <2>1, <3>1 DEF TypeOK
  <2>3. /\ pc[o] \in {"balance", "holds"} /\ pc'[o] = l
        /\ \A p \in Orders \ {o} : pc'[p] = pc[p]
    BY <1>0, <2>1 DEF TypeOK
  <2>4. OrderInv(o)'
    BY <1>0, <2>3, PricesStay DEF OrderInv, Staged, Marked, Reserved, Early, Later, Paid
  <2>5. /\ IsLive(o)' => IsLive(o)
        /\ Validated(o)' => Validated(o)
        /\ Unsettled(o)' => Unsettled(o)
    BY <2>3, PricesStay DEF IsLive, Validated, Unsettled
  <2> QED BY <2>2, <2>3, <2>4, <2>5, OrderStep
<1>3. CASE CreateItem(o)
  <2> USE <1>3 DEF CreateItem
  <2>1. TypeOK'
    BY <1>0 DEF TypeOK
  <2>2. pc[o] = "items" /\ \A p \in Orders \ {o} : items'[p] = items[p]
    BY <1>0 DEF TypeOK
  <2>3. OrderInv(o)'
    BY <1>0, <2>2, PricesStay DEF OrderInv, Staged, Marked, Reserved, Early, Later, Paid
  <2>4. /\ IsLive(o)' => IsLive(o)
        /\ Validated(o)' => Validated(o)
        /\ Unsettled(o)' => Unsettled(o)
    BY PricesStay DEF IsLive, Validated, Unsettled
  <2> QED BY <2>1, <2>2, <2>3, <2>4, OrderStep
<1>4. CASE Offer(o)
  <2> USE <1>4 DEF Offer
  <2>1. PICK l \in {"mark", "offered"} : pc' = [pc EXCEPT ![o] = l]
    OBVIOUS
  <2>2. TypeOK'
    BY <1>0, <2>1 DEF TypeOK
  <2>3. /\ pc[o] = "items" /\ pc'[o] = l /\ items[o] = Units[o]
        /\ \A p \in Orders \ {o} : pc'[p] = pc[p]
    BY <1>0, <2>1 DEF TypeOK
  <2>4. OrderInv(o)'
    BY <1>0, <2>3, PricesStay DEF OrderInv, Staged, Marked, Reserved, Early, Later, Paid
  <2>5. /\ IsLive(o)' => IsLive(o)
        /\ Validated(o)' => Validated(o)
        /\ Unsettled(o)' => Unsettled(o)
    BY <2>3, PricesStay DEF IsLive, Validated, Unsettled
  <2> QED BY <2>2, <2>3, <2>4, <2>5, OrderStep
<1>5. CASE Ipn(o)
  <2> USE <1>5 DEF Ipn
  <2>1. PICK l \in {"mark", "over"} :
          pc' = [pc EXCEPT ![o] = l] /\ (l = "mark" <=> status[o] = "pending")
    OBVIOUS
  <2>2. TypeOK'
    BY <1>0, <2>1 DEF TypeOK
  <2>3. pc[o] = "offered" /\ pc'[o] = l /\ \A p \in Orders \ {o} : pc'[p] = pc[p]
    BY <1>0, <2>1 DEF TypeOK
  <2>4. OrderInv(o)'
    BY <1>0, <2>1, <2>3, PricesStay DEF OrderInv, Staged, Marked, Reserved, Early, Later, Paid
  <2>5. /\ IsLive(o)' => IsLive(o)
        /\ Validated(o)' => Validated(o)
        /\ Unsettled(o)' => Unsettled(o)
    BY <2>1, <2>3, PricesStay DEF IsLive, Validated, Unsettled
  <2> QED BY <2>2, <2>3, <2>4, <2>5, OrderStep
<1>6. CASE Stop(o)
  <2> USE <1>6 DEF Stop
  <2>1. TypeOK'
    BY <1>0 DEF TypeOK
  <2>2. /\ pc[o] \notin {"new", "refused", "offered", "over"} /\ pc'[o] = "refused"
        /\ o \in hurt' /\ \A p \in Orders \ {o} : pc'[p] = pc[p]
    BY <1>0 DEF TypeOK
  <2>3. OrderInv(o)'
    BY <1>0, <2>2, PricesStay DEF OrderInv, Staged, Marked, Reserved, Early, Later, Paid
  <2>4. /\ IsLive(o)' => IsLive(o)
        /\ Validated(o)' => Validated(o)
        /\ Unsettled(o)' => Unsettled(o)
    BY <2>2, PricesStay DEF IsLive, Validated, Unsettled
  <2> QED BY <2>1, <2>2, <2>3, <2>4, OrderStep
<1> QED BY <1>1, <1>2, <1>3, <1>4, <1>5, <1>6

\* The one order that was validated with the coupon is paid: a use of its buyer.
LEMMA UseKeepsCoupon ==
  ASSUME IInv, NEW o \in Orders, MarkPaid(o)
  PROVE  CouponInv'
<1> USE DEF MarkPaid, Goto, coupon
<1> SUFFICES ASSUME ~loose PROVE CouponInv'
  BY DEF CouponInv
<1>0. TypeOK /\ OrderInv(o) /\ CouponInv
  BY DEF IInv
<1>1. /\ pc[o] = "mark" /\ pc'[o] \in {"capture", "benefits"} /\ status'[o] = "paid"
      /\ \A p \in Orders \ {o} : pc'[p] = pc[p] /\ status'[p] = status[p]
  BY <1>0 DEF TypeOK
<1>2. status[o] \notin Paid /\ limit.each \in Nat
  BY <1>0, <1>1, LimitsAreNats DEF OrderInv, Marked, Later
<1>3. \A p \in Orders : Unsettled(p)' => Unsettled(p)
  BY <1>1, PricesStay DEF Unsettled
<1>4. ASSUME NEW u \in Users, u # Buyer[o] \/ o \notin Couponed
      PROVE  UsesOf(u)' = UsesOf(u)
  BY <1>1, <1>4, PricesStay DEF UsesOf, PaidOf, OfUser
<1>5. ASSUME o \in Couponed
      PROVE  /\ Cardinality(UsesOf(Buyer[o])') <= limit.each
             /\ \A p \in Orders : Unsettled(p)' => p = o
  <2>1. Unsettled(o)
    BY <1>1, <1>5 DEF Unsettled
  <2>2. Cardinality(UsesOf(Buyer[o])) < limit.each
    BY <1>0, <1>2, <2>1 DEF CouponInv
  <2>3. IsFiniteSet(UsesOf(Buyer[o]))
    <3>1. UsesOf(Buyer[o]) \subseteq Orders
      BY DEF UsesOf, PaidOf, OfUser
    <3> QED BY <3>1, FS_Subset, CheckoutAssumption
  <2>4. UsesOf(Buyer[o])' = UsesOf(Buyer[o]) \cup {o} /\ o \notin UsesOf(Buyer[o])
    BY <1>1, <1>2, <1>5, PricesStay DEF UsesOf, PaidOf, OfUser, Paid
  <2>5. Cardinality(UsesOf(Buyer[o]) \cup {o}) = Cardinality(UsesOf(Buyer[o])) + 1
    BY <2>3, <2>4, FS_AddElement
  <2>6. Cardinality(UsesOf(Buyer[o])) \in Nat
    BY <2>3, FS_CardinalityType
  <2>7. \A p \in Orders : Unsettled(p)' => p = o
    BY <1>0, <1>3, <2>1 DEF CouponInv
  <2> QED BY <1>2, <2>2, <2>4, <2>5, <2>6, <2>7
<1>6. \A u \in Users : Cardinality(UsesOf(u)') <= limit.each
  BY <1>0, <1>4, <1>5 DEF CouponInv
<1>7. ASSUME NEW p \in Orders, Unsettled(p)', status'[p] \notin Paid
      PROVE  Cardinality(UsesOf(Buyer[p])') < limit.each
  <2>1. p # o /\ status[p] \notin Paid /\ Unsettled(p)
    BY <1>1, <1>3, <1>7 DEF Paid
  <2>2. o \notin Couponed
    BY <1>5, <1>7, <2>1
  <2>3. Buyer[p] \in Users
    BY CheckoutAssumption
  <2> QED BY <1>0, <1>4, <2>1, <2>2, <2>3 DEF CouponInv
<1> QED BY <1>0, <1>3, <1>6, <1>7 DEF CouponInv

\* Steps that write the rows of an order.
LEMMA RowsKeepInv ==
  ASSUME IInv, NEW o \in Orders,
         SaveHold(o) \/ MarkPaid(o) \/ Capture(o) \/ Benefits(o)
  PROVE  IInv'
<1> USE DEF Goto, rows, wallets, coupon, history, Touch, admin
<1>0. TypeOK /\ OrderInv(o)
  BY DEF IInv
<1>1. CASE SaveHold(o)
  <2> USE <1>1 DEF SaveHold
  <2>1. TypeOK'
    <3>1. exposed' \subseteq Users
      BY <1>0, CheckoutAssumption DEF TypeOK
    <3> QED BY <1>0, <3>1 DEF TypeOK
  <2>2. /\ pc[o] = "hold" /\ pc'[o] = "items" /\ hold'[o] = "held"
        /\ \A p \in Orders \ {o} : pc'[p] = pc[p] /\ hold'[p] = hold[p]
    BY <1>0 DEF TypeOK
  <2>3. OrderInv(o)'
    BY <1>0, <2>2, PricesStay DEF OrderInv, Staged, Marked, Reserved, Early, Later, Paid
  <2>4. /\ IsLive(o)' => IsLive(o)
        /\ Validated(o)' => Validated(o)
        /\ Unsettled(o)' => Unsettled(o)
    BY <2>2, PricesStay DEF IsLive, Validated, Unsettled
  <2> QED BY <2>1, <2>2, <2>3, <2>4, OrderStep
<1>2. CASE MarkPaid(o)
  <2> USE <1>2 DEF MarkPaid
  <2>1. PICK l \in {"capture", "benefits"} :
          pc' = [pc EXCEPT ![o] = l] /\ (l = "capture" <=> WalletSpent(o) > 0)
    OBVIOUS
  <2>2. TypeOK'
    BY <1>0, <2>1 DEF TypeOK
  <2>3. /\ pc[o] = "mark" /\ pc'[o] = l /\ status'[o] = "paid"
        /\ \A p \in Orders \ {o} : pc'[p] = pc[p] /\ status'[p] = status[p]
    BY <1>0, <2>1 DEF TypeOK
  <2>4. Staged(o)' /\ Marked(o)'
    BY <1>0, <2>3, PricesStay DEF OrderInv, Staged, Marked, Early, Later, Paid
  <2>5. Reserved(o)'
    BY <1>0, <2>1, <2>3, PricesStay DEF OrderInv, Reserved, Paid
  <2>6. /\ IsLive(o)' => IsLive(o)
        /\ Validated(o)' => Validated(o)
    BY <2>3, PricesStay DEF IsLive, Validated
  <2>7. CouponInv'
    BY <2>2, <2>3, UseKeepsCoupon
  <2> QED BY <2>2, <2>3, <2>4, <2>5, <2>6, <2>7, OtherOrders DEF OrderInv
<1>3. CASE Capture(o)
  <2> USE <1>3 DEF Capture
  <2>1. TypeOK'
    <3>1. exposed' \subseteq Users
      BY <1>0, CheckoutAssumption DEF TypeOK
    <3>2. bal' \in [Users -> Int]
      BY <1>0, PricesAreInts, CheckoutAssumption DEF TypeOK
    <3>3. hold' \in [Orders -> {"none", "held", "captured", "released", "expired"}]
      BY <1>0 DEF TypeOK
    <3> QED BY <1>0, <3>1, <3>2, <3>3 DEF TypeOK
  <2>2. /\ pc[o] = "capture" /\ pc'[o] = "benefits"
        /\ hold'[o] = IF hold[o] = "held" THEN "captured" ELSE hold[o]
        /\ \A p \in Orders \ {o} : pc'[p] = pc[p] /\ hold'[p] = hold[p]
    BY <1>0 DEF TypeOK
  <2>3. OrderInv(o)'
    BY <1>0, <2>2, PricesStay DEF OrderInv, Staged, Marked, Reserved, Early, Later, Paid
  <2>4. /\ IsLive(o)' => IsLive(o)
        /\ Validated(o)' => Validated(o)
        /\ Unsettled(o)' => Unsettled(o)
    BY <2>2, PricesStay DEF IsLive, Validated, Unsettled
  <2> QED BY <2>1, <2>2, <2>3, <2>4, OrderStep
<1>4. CASE Benefits(o)
  <2> USE <1>4 DEF Benefits
  <2>1. PICK l \in {"count", "over"} :
          pc' = [pc EXCEPT ![o] = l] /\ (l = "count" <=> o \in Couponed)
    OBVIOUS
  <2>2. TypeOK'
    <3>1. bal' \in [Users -> Int]
      BY <1>0, PricesAreInts, CheckoutAssumption DEF TypeOK
    <3>2. referral' \in [Orders -> {"none", "pending", "credited", "reversed"}]
      BY <1>0 DEF TypeOK
    <3> QED BY <1>0, <2>1, <3>1, <3>2 DEF TypeOK
  <2>3. /\ pc[o] = "benefits" /\ pc'[o] = l
        /\ referral'[o] = IF referral[o] = "pending" THEN "credited" ELSE referral[o]
        /\ \A p \in Orders \ {o} : pc'[p] = pc[p] /\ referral'[p] = referral[p]
    BY <1>0, <2>1 DEF TypeOK
  <2>4. OrderInv(o)'
    BY <1>0, <2>1, <2>3, PricesStay DEF OrderInv, Staged, Marked, Reserved, Early, Later, Paid
  <2>5. /\ IsLive(o)' => IsLive(o)
        /\ Validated(o)' => Validated(o)
        /\ Unsettled(o)' => Unsettled(o)
    BY <2>3, PricesStay DEF IsLive, Validated, Unsettled
  <2> QED BY <2>2, <2>3, <2>4, <2>5, OrderStep
<1> QED BY <1>1, <1>2, <1>3, <1>4

\* An order that does not get paid, and time.
LEMMA CloseKeepsInv ==
  ASSUME IInv, NEW o \in Orders, Cancel(o) \/ FailExpired(o) \/ Age(o)
  PROVE  IInv'
<1> USE DEF rows, wallets, coupon, history, admin
<1>0. TypeOK /\ OrderInv(o)
  BY DEF IInv
<1>1. CASE Cancel(o) \/ FailExpired(o)
  <2> USE <1>1 DEF Cancel, FailExpired, Close
  <2>1. TypeOK'
    <3>1. /\ status' \in [Orders -> {"none", "pending", "paid", "failed", "refunded"}]
          /\ hold' \in [Orders -> {"none", "held", "captured", "released", "expired"}]
          /\ referral' \in [Orders -> {"none", "pending", "credited", "reversed"}]
      BY <1>0 DEF TypeOK
    <3>2. usage' \in Nat
      BY <1>0 DEF TypeOK, AtLeast0
    <3>3. loose' \in BOOLEAN /\ counted' = counted
      <4>1. loose \in BOOLEAN
        BY <1>0 DEF TypeOK
      <4> QED BY <4>1
    <3> QED BY <1>0, <3>1, <3>2, <3>3 DEF TypeOK
  <2>2. /\ status[o] = "pending" /\ status'[o] = "failed"
        /\ hold'[o] = IF hold[o] = "held" THEN "released" ELSE hold[o]
        /\ referral'[o] = IF referral[o] = "pending" THEN "reversed" ELSE referral[o]
        /\ \A p \in Orders \ {o} : UNCHANGED <<status[p], hold[p], referral[p]>>
        /\ UNCHANGED <<pc, items, age, counted, revived, hurt, again>>
    BY <1>0 DEF TypeOK
  <2>3. OrderInv(o)'
    BY <1>0, <2>2, PricesStay DEF OrderInv, Staged, Marked, Reserved, Early, Later, Paid
  <2>4. /\ IsLive(o)' => IsLive(o)
        /\ Validated(o)' => Validated(o)
        /\ Unsettled(o)' => Unsettled(o)
    BY <2>2, PricesStay DEF IsLive, Validated, Unsettled
  <2>5. (loose => loose') /\ (loose' \/ UNCHANGED coupon)
    BY <1>0 DEF TypeOK
  <2>6. status'[o] # "paid" /\ status[o] \notin Paid
    BY <2>2 DEF Paid
  <2> QED BY <2>1, <2>2, <2>3, <2>4, <2>5, <2>6, OrderStep
<1>2. CASE Age(o)
  <2> USE <1>2 DEF Age
  <2>1. TypeOK'
    BY <1>0 DEF TypeOK
  <2>2. age'[o] = age[o] + 1 /\ age[o] \in {0, 1} /\ \A p \in Orders \ {o} : age'[p] = age[p]
    BY <1>0 DEF TypeOK
  <2>3. OrderInv(o)'
    BY <1>0, <2>2, PricesStay DEF OrderInv, Staged, Marked, Reserved, Early, Later, Paid
  <2>4. /\ IsLive(o)' => IsLive(o)
        /\ Validated(o)' => Validated(o)
        /\ Unsettled(o)' => Unsettled(o)
    BY PricesStay DEF IsLive, Validated, Unsettled
  <2> QED BY <2>1, <2>2, <2>3, <2>4, OrderStep
<1> QED BY <1>1, <1>2

LEMMA ReturnedIsInt ==
  ASSUME NEW o \in Orders, NEW a \in Refunds, NEW back \in Returned(o, a)
  PROVE  back \in Int
<1>1. a \in Int /\ AfterCodes(o) \in Nat /\ WalletSpent(o) \in Nat
  BY PricesAreInts, CheckoutAssumption
<1>2. a * WalletSpent(o) \in Int
  BY <1>1
<1>3. AfterCodes(o) # 0 => RoundDiv(a * WalletSpent(o), AfterCodes(o)) \in Int
  BY <1>1, <1>2, RoundIsInt
<1> QED BY <1>1, <1>3 DEF Returned

\* A refund.
LEMMA RefundKeepsInv ==
  ASSUME IInv, NEW o \in Orders, Refund(o)
  PROVE  IInv'
<1> USE DEF Refund, Act, Expose, coupon
<1>0. TypeOK /\ OrderInv(o)
  BY DEF IInv
<1>1. TypeOK'
  <2>1. PICK a \in Refunds : \E back \in Returned(o, a) :
       /\ refunded' = [refunded EXCEPT ![o] = @ + a]
       /\ LET taken == IF status[o] = "paid" THEN Cashback(o) ELSE 0
              lost == IF referral[o] = "credited" THEN RewardVnd ELSE 0
          IN  bal' = [u \in Users |-> bal[u] + (IF u = Buyer[o] THEN back - taken ELSE 0)
                                            - (IF u = Referrer THEN lost ELSE 0)]
    OBVIOUS
  <2>2. refunded' \in [Orders -> Nat]
    BY <1>0, <2>1, CheckoutAssumption DEF TypeOK
  <2>3. bal' \in [Users -> Int]
    <3> DEFINE taken == IF status[o] = "paid" THEN Cashback(o) ELSE 0
               lost == IF referral[o] = "credited" THEN RewardVnd ELSE 0
    <3>1. PICK back \in Returned(o, a) :
            bal' = [u \in Users |-> bal[u] + (IF u = Buyer[o] THEN back - taken ELSE 0)
                                           - (IF u = Referrer THEN lost ELSE 0)]
      BY <2>1
    <3>2. back \in Int
      BY ReturnedIsInt
    <3>3. taken \in Int /\ lost \in Int
      BY PricesAreInts, CheckoutAssumption
    <3>4. \A u \in Users : bal[u] \in Int
      BY <1>0 DEF TypeOK
    <3> HIDE DEF taken, lost
    <3> QED BY <3>1, <3>2, <3>3, <3>4
  <2>4. acts' \in 0..MaxActs /\ exposed' \subseteq Users
    BY <1>0, CheckoutAssumption DEF TypeOK
  <2>5. /\ status' \in [Orders -> {"none", "pending", "paid", "failed", "refunded"}]
        /\ referral' \in [Orders -> {"none", "pending", "credited", "reversed"}]
    BY <1>0 DEF TypeOK
  <2> QED BY <1>0, <2>2, <2>3, <2>4, <2>5 DEF TypeOK
<1>2. /\ status[o] \in Paid /\ status'[o] = "refunded"
      /\ referral'[o] = IF referral[o] \in {"pending", "credited"} THEN "reversed" ELSE referral[o]
      /\ \A p \in Orders \ {o} : UNCHANGED <<status[p], referral[p]>>
      /\ UNCHANGED <<code, pc, items, hold, age, limit, usage, counted, again, loose, revived,
                     hurt>>
  BY <1>0 DEF TypeOK, Paid
<1>3. OrderInv(o)'
  <2>1. Staged(o)'
    BY <1>0, <1>2, PricesStay DEF OrderInv, Staged, Marked, Early, Later
  <2>2. Marked(o)'
    BY <1>0, <1>2, PricesStay DEF OrderInv, Marked, Later, Paid
  <2>3. Reserved(o)'
    BY <1>0, <1>2, PricesStay DEF OrderInv, Reserved, Paid
  <2> QED BY <2>1, <2>2, <2>3 DEF OrderInv
<1>4. /\ IsLive(o)' => IsLive(o)
      /\ Validated(o)' => Validated(o)
      /\ Unsettled(o)' => Unsettled(o)
  BY <1>2, PricesStay DEF IsLive, Validated, Unsettled
<1>5. /\ status'[o] = "paid" => status[o] = "paid"
      /\ status[o] \in Paid => status'[o] \in Paid
  BY <1>2 DEF Paid
<1> QED BY <1>1, <1>2, <1>3, <1>4, <1>5, OrderStep

\* Steps that leave the orders alone, but for holds that expire.
LEMMA WalletKeepsInv ==
  ASSUME IInv, ExpireHolds \/ (\E u \in Users : UpdateWalletStatus(u) \/ AdjustWallet(u))
                 \/ UNCHANGED vars
  PROVE  IInv'
<1> USE DEF rows, wallets, coupon, history, vars, admin
<1>0. TypeOK
  BY DEF IInv
<1>1. /\ UNCHANGED <<code, pc, status, items, age, referral, counted, again, revived, hurt,
                     limit, usage, loose>>
      /\ \A o \in Orders : \/ hold'[o] = hold[o]
                           \/ hold[o] = "held" /\ hold'[o] = "expired" /\ age[o] = 2
  <2>1. CASE ExpireHolds
    BY <2>1 DEF ExpireHolds
  <2>2. CASE \E u \in Users : UpdateWalletStatus(u) \/ AdjustWallet(u)
    BY <2>2 DEF UpdateWalletStatus, AdjustWallet, Act, Expose
  <2>3. CASE UNCHANGED vars
    BY <2>3
  <2> QED BY <2>1, <2>2, <2>3
<1>2. TypeOK'
  <2>1. hold' \in [Orders -> {"none", "held", "captured", "released", "expired"}]
    <3>1. CASE ExpireHolds
      BY <1>0, <3>1 DEF TypeOK, ExpireHolds
    <3>2. CASE ~ExpireHolds
      BY <1>0, <3>2 DEF TypeOK, UpdateWalletStatus, AdjustWallet, Act, Expose
    <3> QED BY <3>1, <3>2
  <2>2. bal' \in [Users -> Int] /\ exposed' \subseteq Users
    <3>1. CASE \E u \in Users : AdjustWallet(u)
      <4>1. PICK u \in Users : \E b \in {bal[u] + n : n \in Adjustments} \cup {0} :
                                 bal' = [bal EXCEPT ![u] = b]
        BY <3>1 DEF AdjustWallet
      <4>2. \A b \in {bal[u] + n : n \in Adjustments} \cup {0} : b \in Int
        BY <1>0, CheckoutAssumption DEF TypeOK
      <4> QED BY <1>0, <3>1, <4>1, <4>2 DEF TypeOK, AdjustWallet, Expose
    <3>2. CASE ~(\E u \in Users : AdjustWallet(u))
      BY <1>0, <3>2 DEF TypeOK, ExpireHolds, UpdateWalletStatus
    <3> QED BY <3>1, <3>2
  <2>3. locked' \subseteq Users
    BY <1>0 DEF TypeOK, ExpireHolds, UpdateWalletStatus, AdjustWallet
  <2>4. read' = read /\ refunded' = refunded /\ acts' \in 0..MaxActs /\ limit' = limit
    BY <1>0, CheckoutAssumption DEF TypeOK, ExpireHolds, UpdateWalletStatus, AdjustWallet, Act
  <2> QED BY <1>0, <1>1, <2>1, <2>2, <2>3, <2>4 DEF TypeOK
<1>3. ASSUME NEW o \in Orders PROVE OrderInv(o)'
  <2>1. OrderInv(o)
    BY DEF IInv
  <2> QED BY <1>1, <2>1, PricesStay DEF OrderInv, Staged, Marked, Reserved
<1>4. ReferralInv'
  <2>1. \A o \in Orders : /\ IsLive(o)' => IsLive(o)
                          /\ Validated(o)' => Validated(o)
    BY <1>1, PricesStay DEF IsLive, Validated
  <2> QED BY <1>1, <2>1, ReferralStep DEF IInv
<1>5. CouponInv'
  <2>1. \A o \in Orders : Unsettled(o)' => Unsettled(o)
    BY <1>1, PricesStay DEF Unsettled
  <2> QED BY <1>0, <1>1, <2>1, CouponStep DEF IInv, TypeOK
<1> QED BY <1>2, <1>3, <1>4, <1>5 DEF IInv

LEMMA NextKeepsInv == IInv /\ [Next]_vars => IInv'
  BY PriceKeepsInv, CreateReferralKeepsInv, CountKeepsInv, MoveKeepsInv, RowsKeepInv,
     CloseKeepsInv, RefundKeepsInv, WalletKeepsInv DEF Next, CheckingOut, Paying
-----------------------------------------------------------------------------
(* The sum of what a set of orders spends: what holds of it is shown on a      *)
(* smallest set of which it would not hold.                                 *)

LEMMA LeastNat ==
  ASSUME NEW N, N \subseteq Nat, N # {}
  PROVE  \E n \in N : \A m \in N : n <= m
<1>1. PICK R : R = OpToRel(<, Nat)
  OBVIOUS
<1>2. \A m, n \in Nat : m < n => <<m, n>> \in R
  BY <1>1 DEF OpToRel
<1>3. PICK n \in N : \A m \in N : <<m, n>> \notin R
  BY <1>1, NatLessThanWellFounded, WFMin
<1>4. ASSUME NEW m \in N
      PROVE  n <= m
  <2>1. m \in Nat /\ n \in Nat /\ ~(m < n)
    BY <1>2, <1>3
  <2> QED BY <2>1
<1> QED BY <1>4

\* A class of finite sets has a smallest one.
LEMMA Smallest ==
  ASSUME NEW C, C # {}, \A s \in C : IsFiniteSet(s)
  PROVE  \E s \in C : \A t \in C : Cardinality(s) <= Cardinality(t)
<1> DEFINE N == {Cardinality(s) : s \in C}
<1>1. N \subseteq Nat /\ N # {}
  BY FS_CardinalityType
<1>2. PICK n \in N : \A m \in N : n <= m
  BY <1>1, LeastNat
<1> QED BY <1>2

First(s) == CHOOSE x \in s : TRUE

\* A function that adds up W over the subsets of S.
Sums(f, S, W) ==
  /\ f[{}] = 0
  /\ \A s \in SUBSET S : s # {} => f[s] = W[First(s)] + f[s \ {First(s)}]

IsSum(f, S, W) == f \in [SUBSET S -> Nat] /\ Sums(f, S, W)

LEMMA Removed ==
  ASSUME NEW s, IsFiniteSet(s), NEW x \in s
  PROVE  /\ IsFiniteSet(s \ {x}) /\ Cardinality(s \ {x}) = Cardinality(s) - 1
         /\ Cardinality(s) \in Nat \ {0} /\ First(s) \in s
<1>1. Cardinality(s) # 0
  BY FS_EmptySet
<1> QED BY <1>1, FS_RemoveElement, FS_CardinalityType DEF First

\* Any element can be counted first.
LEMMA SumStep ==
  ASSUME NEW S, IsFiniteSet(S), NEW W \in [S -> Nat], NEW f, IsSum(f, S, W)
  PROVE  \A T : T \subseteq S => \A x \in T : f[T] = W[x] + f[T \ {x}]
<1> DEFINE Good(T) == \A x \in T : f[T] = W[x] + f[T \ {x}]
           C == {T \in SUBSET S : ~Good(T)}
<1> SUFFICES ASSUME C # {}
             PROVE  FALSE
  OBVIOUS
<1>0. \A s \in SUBSET S : IsFiniteSet(s)
  BY FS_Subset
<1>1. PICK T \in C : \A t \in C : Cardinality(T) <= Cardinality(t)
  BY <1>0, Smallest
<1>2. PICK x \in T : f[T] # W[x] + f[T \ {x}]
  BY <1>1
<1>3. PICK y \in T : y = First(T)
  BY <1>0, <1>1, <1>2, Removed
<1>4. f[T] = W[y] + f[T \ {y}] /\ x # y
  BY <1>1, <1>2, <1>3 DEF IsSum, Sums
<1>5. ASSUME NEW z \in T
      PROVE  Good(T \ {z})
  <2>1. Cardinality(T \ {z}) = Cardinality(T) - 1 /\ Cardinality(T) \in Nat
    BY <1>0, <1>1, Removed
  <2>2. T \ {z} \notin C
    BY <1>1, <2>1
  <2> QED BY <1>1, <2>2
<1>6. /\ f[T \ {y}] = W[x] + f[(T \ {y}) \ {x}]
      /\ f[T \ {x}] = W[y] + f[(T \ {x}) \ {y}]
  BY <1>4, <1>5
<1>7. (T \ {y}) \ {x} = (T \ {x}) \ {y}
  OBVIOUS
<1>8. W[x] \in Nat /\ W[y] \in Nat /\ f[(T \ {x}) \ {y}] \in Nat
  BY <1>1 DEF IsSum, Sums
<1> QED BY <1>2, <1>4, <1>6, <1>7, <1>8

\* Two of them agree where both are defined.
LEMMA SumUnique ==
  ASSUME NEW S, IsFiniteSet(S), NEW W, NEW f, Sums(f, S, W), NEW R, NEW g, Sums(g, R, W),
         R \subseteq S
  PROVE  \A T \in SUBSET R : f[T] = g[T]
<1> DEFINE C == {T \in SUBSET R : f[T] # g[T]}
<1> SUFFICES ASSUME C # {}
             PROVE  FALSE
  OBVIOUS
<1>0. \A s \in SUBSET S : IsFiniteSet(s)
  BY FS_Subset
<1>1. PICK T \in C : \A t \in C : Cardinality(T) <= Cardinality(t)
  BY <1>0, Smallest
<1>2. T # {}
  BY <1>1 DEF IsSum, Sums
<1>3. PICK y \in T : y = First(T)
  BY <1>0, <1>1, <1>2, Removed
<1>4. f[T \ {y}] = g[T \ {y}]
  BY <1>0, <1>1, <1>3, Removed, FS_CardinalityType
<1> QED BY <1>1, <1>2, <1>3, <1>4 DEF IsSum, Sums

\* There is such a function: one that adds up the subsets of at most n elements, for each n.
LEMMA SumExists ==
  ASSUME NEW S, IsFiniteSet(S), NEW W \in [S -> Nat]
  PROVE  \E f : IsSum(f, S, W)
<1> DEFINE Upto(n) == {s \in SUBSET S : Cardinality(s) <= n}
           Adds(f, n) == /\ f \in [Upto(n) -> Nat] /\ f[{}] = 0
                         /\ \A s \in Upto(n) : s # {} => f[s] = W[First(s)] + f[s \ {First(s)}]
           N == {n \in Nat : ~ \E f : Adds(f, n)}
<1>0. \A s \in SUBSET S : IsFiniteSet(s) /\ Cardinality(s) \in Nat
  BY FS_Subset, FS_CardinalityType
<1>1. N = {}
  <2> SUFFICES ASSUME N # {}
               PROVE  FALSE
    OBVIOUS
  <2>1. PICK n \in N : \A m \in N : n <= m
    BY LeastNat
  <2>2. CASE n = 0
    <3>1. Upto(0) = {{}}
      BY <1>0, FS_EmptySet
    <3>2. Adds([s \in Upto(0) |-> 0], 0)
      BY <3>1
    <3> QED BY <2>1, <2>2, <3>2
  <2>3. CASE n # 0
    <3>1. PICK k \in Nat : n = k + 1
      BY <2>1, <2>3
    <3>2. PICK f : Adds(f, k)
      <4>1. k \notin N
        <5> HIDE DEF N
        <5> QED BY <2>1, <3>1
      <4> HIDE DEF Adds
      <4> QED BY <4>1
    <3> DEFINE g == [s \in Upto(n) |-> IF s = {} THEN 0 ELSE W[First(s)] + f[s \ {First(s)}]]
    <3>3. {} \in Upto(n) /\ {} \in Upto(k)
      BY FS_EmptySet, <3>1
    <3>4. ASSUME NEW s \in Upto(n), s # {}
          PROVE  First(s) \in S /\ s \ {First(s)} \in Upto(k)
      <4>1. First(s) \in s
        BY <3>4 DEF First
      <4>2. IsFiniteSet(s) /\ s \in SUBSET S /\ Cardinality(s) \in Nat /\ Cardinality(s) <= k + 1
        BY <1>0, <3>1, <3>4
      <4>3. Cardinality(s \ {First(s)}) = Cardinality(s) - 1
        BY <4>1, <4>2, Removed
      <4> QED BY <4>1, <4>2, <4>3
    <3>5. ASSUME NEW s \in Upto(k)
          PROVE  s \in Upto(n) /\ f[s] = g[s]
      <4>1. s \in Upto(n)
        BY <1>0, <3>1
      <4> QED BY <3>2, <4>1
    <3>6. g \in [Upto(n) -> Nat] /\ g[{}] = 0
      BY <3>2, <3>3, <3>4
    <3>7. Adds(g, n)
      BY <3>4, <3>5, <3>6
    <3> QED BY <2>1, <3>7
  <2> QED BY <2>2, <2>3
<1>2. PICK f : Adds(f, Cardinality(S))
  BY <1>0, <1>1
<1>3. Upto(Cardinality(S)) = SUBSET S
  BY FS_Subset
<1> QED BY <1>2, <1>3 DEF IsSum, Sums

\* It is what MapThenSumSet computes.
LEMMA SpendingIsSum ==
  ASSUME NEW S \in SUBSET Orders, NEW W \in [S -> Nat], \A o \in S : W[o] = WalletSpent(o)
  PROVE  \E f : IsSum(f, S, W) /\ MapThenSumSet(WalletSpent, S) = f[S]
<1> DEFINE Iter(f) == f = [s \in SUBSET S |-> IF s = {} THEN 0
                     ELSE WalletSpent(CHOOSE x \in s : TRUE) + f[s \ {CHOOSE x \in s : TRUE}]]
           iter == CHOOSE f : Iter(f)
<1>1. MapThenSumSet(WalletSpent, S) = iter[S]
  BY DEF MapThenSumSet, MapThenFoldSet
<1>2. PICK f : IsSum(f, S, W)
  BY SumExists, CheckoutAssumption, FS_Subset
<1>3. ASSUME NEW s \in SUBSET S, s # {}
      PROVE  First(s) \in s /\ W[First(s)] = WalletSpent(First(s))
  BY <1>3 DEF First
<1>4. f = [s \in SUBSET S |-> f[s]]
  BY <1>2 DEF IsSum
<1>5. ASSUME NEW s \in SUBSET S
      PROVE  f[s] = IF s = {} THEN 0 ELSE WalletSpent(First(s)) + f[s \ {First(s)}]
  BY <1>2, <1>3 DEF IsSum, Sums
<1>6. Iter(f)
  BY <1>4, <1>5 DEF First
<1>7. Iter(iter)
  BY <1>6
<1>8. ASSUME NEW s \in SUBSET S
      PROVE  iter[s] = IF s = {} THEN 0 ELSE WalletSpent(First(s)) + iter[s \ {First(s)}]
  <2> HIDE DEF iter
  <2> QED BY <1>7 DEF First
<1>9. Sums(iter, S, W)
  <2> HIDE DEF iter
  <2> QED BY <1>3, <1>8 DEF Sums
<1>10. IsFiniteSet(S)
  BY CheckoutAssumption, FS_Subset
<1>11. iter[S] = f[S]
  <2> HIDE DEF iter
  <2> QED BY <1>2, <1>9, <1>10, SumUnique DEF IsSum
<1> QED BY <1>1, <1>2, <1>11
Spend == [o \in Orders |-> WalletSpent(o)]

\* The orders that hold eXu of a user.
Holding(u) == {o \in OfUser(u) : hold[o] = "held" /\ age[o] < 2}

\* What is held is a sum over some of the orders.
HeldAddsUp == \A F : IsSum(F, Orders, Spend) => \A u \in Users : Held(u) = F[Holding(u)]

LEMMA SpendIsNat == Spend \in [Orders -> Nat]
  BY PricesAreInts DEF Spend

LEMMA HeldIsSum == HeldAddsUp
<1> SUFFICES ASSUME NEW F, IsSum(F, Orders, Spend), NEW u \in Users
             PROVE  Held(u) = F[Holding(u)]
  BY DEF HeldAddsUp
<1> DEFINE S == Holding(u)
           W == [o \in S |-> WalletSpent(o)]
<1>1. S \in SUBSET Orders
  BY DEF Holding, OfUser
<1>2. W \in [S -> Nat] /\ \A o \in S : W[o] = WalletSpent(o) /\ W[o] = Spend[o]
  BY <1>1, PricesAreInts DEF Spend
<1>3. PICK f : IsSum(f, S, W) /\ MapThenSumSet(WalletSpent, S) = f[S]
  <2> HIDE DEF S, W
  <2> QED BY <1>1, <1>2, SpendingIsSum
<1>4. Sums(f, S, Spend)
  <2>1. \A s \in SUBSET S : s # {} => First(s) \in S /\ W[First(s)] = Spend[First(s)]
    BY <1>2 DEF First
  <2>2. f[{}] = 0 /\ \A s \in SUBSET S : s # {} => f[s] = W[First(s)] + f[s \ {First(s)}]
    BY <1>3 DEF IsSum, Sums
  <2> HIDE DEF S, W
  <2> QED BY <2>1, <2>2 DEF Sums
<1>5. F[S] = f[S]
  <2> HIDE DEF S, W
  <2> QED BY <1>1, <1>4, SumUnique, CheckoutAssumption DEF IsSum
<1> QED BY <1>3, <1>5 DEF Held, Holding

LEMMA SpendSum ==
  ASSUME NEW F, IsSum(F, Orders, Spend), NEW T \in SUBSET Orders, NEW x \in T
  PROVE  F[T] = Spend[x] + F[T \ {x}]
<1>1. IsFiniteSet(Orders)
  BY CheckoutAssumption
<1>2. PICK W \in [Orders -> Nat] : W = Spend
  BY SpendIsNat
<1>3. IsSum(F, Orders, W)
  BY <1>2
<1>4. \A R : R \subseteq Orders => \A y \in R : F[R] = W[y] + F[R \ {y}]
  BY <1>1, <1>3, SumStep
<1> QED BY <1>2, <1>4

\* What one order adds to it, or takes from it.
LEMMA HeldStep ==
  ASSUME UNCHANGED code, NEW u \in Users
  PROVE  /\ Held(u) \in Nat /\ Held(u)' \in Nat
         /\ Holding(u)' = Holding(u) => Held(u)' = Held(u)
         /\ Holding(u)' = {} => Held(u)' = 0
         /\ \A o \in Orders :
              /\ Holding(u)' = Holding(u) \cup {o} => Held(u)' <= Held(u) + WalletSpent(o)
              /\ Holding(u)' = Holding(u) \ {o} => Held(u)' <= Held(u)
              /\ o \in Holding(u) /\ Holding(u)' = Holding(u) \ {o}
                   => Held(u)' = Held(u) - WalletSpent(o)
<1>1. PICK F : IsSum(F, Orders, Spend)
  BY SumExists, SpendIsNat, CheckoutAssumption
<1>2. Spend' = Spend
  BY PricesStay DEF Spend
<1>3. Held(u) = F[Holding(u)]
  BY <1>1, HeldIsSum DEF HeldAddsUp
<1>4. HeldAddsUp'
  BY HeldIsSum, PTL
<1>5. Held(u)' = F[Holding(u)']
  BY <1>1, <1>2, <1>4 DEF HeldAddsUp
<1>6. Holding(u) \in SUBSET Orders /\ Holding(u)' \in SUBSET Orders
  BY DEF Holding, OfUser
<1>8. \A T \in SUBSET Orders : F[T] \in Nat
  BY <1>1 DEF IsSum
<1>9. \A o \in Orders : Spend[o] = WalletSpent(o) /\ WalletSpent(o) \in Nat
  BY PricesAreInts DEF Spend
<1>10. ASSUME NEW o \in Orders, NEW T \in SUBSET Orders, NEW R \in SUBSET Orders, R = T \cup {o}
       PROVE  F[R] <= F[T] + WalletSpent(o)
  <2>1. F[T] \in Nat /\ F[R] \in Nat /\ Spend[o] = WalletSpent(o) /\ WalletSpent(o) \in Nat
    BY <1>8, <1>9
  <2>2. CASE o \in T
    <3>1. R = T
      BY <1>10, <2>2
    <3>2. F[R] = F[T]
      BY <3>1
    <3> QED BY <2>1, <3>2
  <2>3. CASE o \notin T
    <3>1. o \in R /\ R \ {o} = T
      BY <1>10, <2>3
    <3>2. F[R] = Spend[o] + F[R \ {o}]
      BY <1>1, <3>1, SpendSum
    <3>3. F[R \ {o}] = F[T]
      BY <3>1
    <3> QED BY <2>1, <3>2, <3>3
  <2> QED BY <2>2, <2>3
<1>11. ASSUME NEW o \in Orders, NEW T \in SUBSET Orders, NEW R \in SUBSET Orders, R = T \ {o}
       PROVE  /\ F[R] <= F[T]
              /\ o \in T => F[R] = F[T] - WalletSpent(o)
  <2>1. F[T] \in Nat /\ F[R] \in Nat /\ Spend[o] = WalletSpent(o) /\ WalletSpent(o) \in Nat
    BY <1>8, <1>9
  <2>2. CASE o \in T
    <3>1. F[T] = Spend[o] + F[T \ {o}]
      BY <1>1, <2>2, SpendSum
    <3>2. F[T \ {o}] = F[R]
      BY <1>11
    <3> QED BY <2>1, <3>1, <3>2
  <2>3. CASE o \notin T
    <3>1. R = T
      BY <1>11, <2>3
    <3>2. F[R] = F[T]
      BY <3>1
    <3> QED BY <2>1, <2>3, <3>2
  <2> QED BY <2>2, <2>3
<1>12. Held(u) \in Nat /\ Held(u)' \in Nat
  BY <1>3, <1>5, <1>6, <1>8
<1>13. Holding(u)' = Holding(u) => Held(u)' = Held(u)
  BY <1>3, <1>5
<1>14. ASSUME NEW o \in Orders
       PROVE  /\ Holding(u)' = Holding(u) \cup {o} => Held(u)' <= Held(u) + WalletSpent(o)
              /\ Holding(u)' = Holding(u) \ {o} => Held(u)' <= Held(u)
              /\ o \in Holding(u) /\ Holding(u)' = Holding(u) \ {o}
                   => Held(u)' = Held(u) - WalletSpent(o)
  BY <1>3, <1>5, <1>6, <1>10, <1>11
<1>15. Holding(u)' = {} => Held(u)' = 0
  BY <1>1, <1>5 DEF IsSum, Sums
<1> QED BY <1>12, <1>13, <1>14, <1>15
-----------------------------------------------------------------------------
(* What is held of a wallet is in it, and so is what a createHold is about to hold.  *)

Covered(u) ==
  /\ Held(u) = 0 \/ Held(u) <= bal[u]
  /\ \A o \in OfUser(u) :
       /\ pc[o] = "holds" => read[o] <= bal[u]
       /\ pc[o] = "hold" /\ WalletSpent(o) > 0 => Held(u) + WalletSpent(o) <= bal[u]

CoverInv == \A u \in Users \ exposed : Covered(u)

\* Nothing more is held, nothing is debited, and no createHold comes further.
LEMMA StaysCovered ==
  ASSUME TypeOK, TypeOK', UNCHANGED code, NEW u \in Users, Covered(u),
         Held(u)' <= Held(u), bal[u] <= bal'[u],
         \A o \in OfUser(u) : /\ pc'[o] = "holds" => pc[o] = "holds" /\ read'[o] = read[o]
                              /\ pc'[o] = "hold" => pc[o] = "hold"
  PROVE  Covered(u)'
<1>1. Held(u) \in Nat /\ Held(u)' \in Nat
  BY HeldStep
<1>2. bal[u] \in Int /\ bal'[u] \in Int
  BY DEF TypeOK
<1>3. (Held(u) = 0 \/ Held(u) <= bal[u])'
  BY <1>1, <1>2 DEF Covered
<1>4. ASSUME NEW o \in OfUser(u)
      PROVE  /\ pc'[o] = "holds" => read'[o] <= bal'[u]
             /\ pc'[o] = "hold" /\ WalletSpent(o)' > 0 => Held(u)' + WalletSpent(o)' <= bal'[u]
  <2>1. o \in Orders
    BY DEF OfUser
  <2>2. WalletSpent(o) \in Nat /\ WalletSpent(o)' = WalletSpent(o) /\ read[o] \in Int
    BY <2>1, PricesAreInts, PricesStay DEF TypeOK
  <2>3. /\ pc[o] = "holds" => read[o] <= bal[u]
        /\ pc[o] = "hold" /\ WalletSpent(o) > 0 => Held(u) + WalletSpent(o) <= bal[u]
    BY DEF Covered
  <2> QED BY <1>1, <1>2, <2>2, <2>3
<1> QED BY <1>3, <1>4 DEF Covered, OfUser

LEMMA InitCovered == Init => CoverInv
<1> SUFFICES ASSUME Init, NEW u \in Users PROVE Covered(u)
  BY DEF CoverInv
<1>1. Holding(u) = {}
  BY DEF Init, Holding, OfUser
<1>2. PICK F : IsSum(F, Orders, Spend)
  BY SumExists, SpendIsNat, CheckoutAssumption
<1>3. Held(u) = 0
  BY <1>1, <1>2, HeldIsSum DEF HeldAddsUp, IsSum, Sums
<1> QED BY <1>3, CheckoutAssumption DEF Init, Covered, OfUser

\* createHold: it reads what is free, and saves a hold that it found covered.
LEMMA HoldKeepsCover ==
  ASSUME IInv, TypeOK', CoverInv, NEW o \in Orders,
         ReadBalance(o) \/ ReadHolds(o) \/ SaveHold(o), NEW u \in Users \ exposed'
  PROVE  Covered(u)'
<1> USE DEF Goto, rows, wallets, coupon, history
<1>0. TypeOK /\ UNCHANGED <<code, bal>> /\ u \in Users
  BY DEF IInv, ReadBalance, ReadHolds, SaveHold
<1>1. u \notin exposed /\ Covered(u)
  BY DEF ReadBalance, ReadHolds, SaveHold, Touch, CoverInv
<1>2. /\ Held(u) \in Nat /\ Held(u)' \in Nat /\ bal[u] \in Int /\ bal'[u] = bal[u]
      /\ WalletSpent(o) \in Nat /\ WalletSpent(o)' = WalletSpent(o)
      /\ (Held(u) = 0 \/ Held(u) <= bal[u]) /\ bal'[u] \in Int
  BY <1>0, <1>1, HeldStep, PricesAreInts, PricesStay DEF TypeOK, Covered
<1>3. CASE u # Buyer[o]
  <2>1. o \notin OfUser(u)
    BY <1>3 DEF OfUser
  <2>2. Holding(u)' = Holding(u)
    BY <1>0, <2>1 DEF Holding, OfUser, ReadBalance, ReadHolds, SaveHold, TypeOK
  <2>3. Held(u)' = Held(u)
    BY <1>0, <2>2, HeldStep
  <2>4. \A p \in OfUser(u) : pc'[p] = pc[p] /\ read'[p] = read[p]
    BY <1>0, <2>1 DEF OfUser, ReadBalance, ReadHolds, SaveHold, TypeOK
  <2> QED BY <1>0, <1>1, <1>2, <2>3, <2>4, StaysCovered
<1>4. CASE u = Buyer[o] /\ (ReadBalance(o) \/ ReadHolds(o))
  <2>1. Holding(u)' = Holding(u)
    BY <1>4 DEF Holding, OfUser, ReadBalance, ReadHolds
  <2>2. Held(u)' = Held(u)
    BY <1>0, <2>1, HeldStep
  <2>3. \A p \in OfUser(u) \ {o} : pc'[p] = pc[p] /\ read'[p] = read[p]
    BY <1>0, <1>4 DEF OfUser, ReadBalance, ReadHolds, TypeOK
  <2>4. /\ pc'[o] = "holds" => read'[o] = bal[u]
        /\ pc'[o] = "hold" /\ WalletSpent(o) > 0 => Held(u) + WalletSpent(o) <= bal[u]
    <3>1. CASE ReadBalance(o)
      BY <1>0, <1>4, <3>1 DEF ReadBalance, TypeOK
    <3>2. CASE ReadHolds(o)
      <4>1. read[o] \in Int /\ read[o] <= bal[u]
        BY <1>0, <1>1, <1>4, <3>2 DEF ReadHolds, Covered, OfUser, TypeOK
      <4>2. pc'[o] = "hold" => WalletSpent(o) <= AtLeast0(read[o] - Held(u))
        BY <1>0, <1>4, <3>2 DEF ReadHolds, TypeOK
      <4>3. pc'[o] # "holds"
        BY <1>0, <3>2 DEF ReadHolds, TypeOK
      <4>4. WalletSpent(o) > 0 /\ WalletSpent(o) <= AtLeast0(read[o] - Held(u))
              => Held(u) + WalletSpent(o) <= bal[u]
        BY <1>2, <4>1 DEF AtLeast0
      <4> QED BY <4>2, <4>3, <4>4
    <3> QED BY <1>4, <3>1, <3>2
  <2>5. ASSUME NEW p \in OfUser(u)'
        PROVE  /\ pc'[p] = "holds" => read'[p] <= bal'[u]
               /\ pc'[p] = "hold" /\ WalletSpent(p)' > 0
                    => Held(u)' + WalletSpent(p)' <= bal'[u]
    <3>1. p \in OfUser(u) /\ p \in Orders /\ WalletSpent(p)' = WalletSpent(p)
      BY <1>0, PricesStay DEF OfUser
    <3>2. CASE p = o
      BY <1>2, <2>2, <2>4, <3>2
    <3>3. CASE p # o
      <4>1. pc'[p] = pc[p] /\ read'[p] = read[p]
        BY <2>3, <3>1, <3>3
      <4>2. /\ pc[p] = "holds" => read[p] <= bal[u]
            /\ pc[p] = "hold" /\ WalletSpent(p) > 0 => Held(u) + WalletSpent(p) <= bal[u]
        BY <1>1, <3>1 DEF Covered
      <4> QED BY <1>2, <2>2, <3>1, <4>1, <4>2
    <3> QED BY <3>2, <3>3
  <2>6. Held(u)' = 0 \/ Held(u)' <= bal'[u]
    BY <1>2, <2>2
  <2> QED BY <2>5, <2>6 DEF Covered
<1>5. CASE u = Buyer[o] /\ SaveHold(o)
  <2> USE <1>5 DEF SaveHold
  <2>1. ~Beside(o) /\ pc[o] = "hold" /\ pc'[o] = "items"
    BY <1>0 DEF Touch, TypeOK
  <2>2. \A p \in OfUser(u) : pc'[p] \notin {"holds", "hold"}
    BY <1>0, <2>1 DEF Beside, Others, OfUser, TypeOK
  <2>3. WalletSpent(o) > 0 => Held(u) + WalletSpent(o) <= bal[u]
    BY <1>1, <2>1 DEF Covered, OfUser
  <2>4. Holding(u)' = Holding(u) \/ Holding(u)' = Holding(u) \cup {o}
    <3>1. hold'[o] = "held" /\ \A p \in Orders \ {o} : hold'[p] = hold[p]
      BY <1>0 DEF TypeOK
    <3> QED BY <3>1 DEF Holding, OfUser
  <2>5. Held(u)' = Held(u) \/ Held(u)' <= Held(u) + WalletSpent(o)
    BY <1>0, <2>4, HeldStep
  <2>6. Held(u)' = 0 \/ Held(u)' <= bal'[u]
    BY <1>2, <2>3, <2>5
  <2> QED BY <2>2, <2>6 DEF Covered, OfUser
<1> QED BY <1>3, <1>4, <1>5

\* captureHoldForOrder: the hold goes with the debit.
LEMMA CaptureKeepsCover ==
  ASSUME IInv, TypeOK', CoverInv, NEW o \in Orders, Capture(o), NEW u \in Users \ exposed'
  PROVE  Covered(u)'
<1> USE DEF Goto, Capture
<1>0. TypeOK /\ UNCHANGED <<code, age, read>> /\ u \in Users
  BY DEF IInv
<1>1. u \notin exposed /\ Covered(u)
  BY DEF Touch, CoverInv
<1>2. /\ Held(u) \in Nat /\ Held(u)' \in Nat /\ bal[u] \in Int
      /\ WalletSpent(o) \in Nat /\ (Held(u) = 0 \/ Held(u) <= bal[u])
  BY <1>0, <1>1, HeldStep, PricesAreInts DEF TypeOK, Covered
<1>3. /\ pc[o] = "capture" /\ pc'[o] = "benefits"
      /\ \A p \in Orders \ {o} : pc'[p] = pc[p]
  BY <1>0 DEF TypeOK
<1>4. CASE u # Buyer[o] \/ hold[o] # "held"
  <2>1. bal'[u] = bal[u]
    BY <1>0, <1>4 DEF TypeOK
  <2>2. Holding(u)' = Holding(u)
    BY <1>0, <1>4 DEF Holding, OfUser, TypeOK
  <2>3. Held(u)' = Held(u)
    BY <1>0, <2>2, HeldStep
  <2>4. \A p \in OfUser(u) : /\ pc'[p] = "holds" => pc[p] = "holds" /\ read'[p] = read[p]
                             /\ pc'[p] = "hold" => pc[p] = "hold"
    BY <1>0, <1>3 DEF OfUser
  <2> QED BY <1>0, <1>1, <1>2, <2>1, <2>3, <2>4, StaysCovered
<1>5. CASE u = Buyer[o] /\ hold[o] = "held"
  <2>1. age[o] # 2 /\ ~Beside(o)
    BY <1>5 DEF Touch
  <2>2. \A p \in OfUser(u) : pc'[p] \notin {"holds", "hold"}
    BY <1>3, <1>5, <2>1 DEF Beside, Others, OfUser
  <2>3. age[o] < 2
    BY <1>0, <2>1 DEF TypeOK
  <2>4. o \in Holding(u) /\ Holding(u)' = Holding(u) \ {o}
    <3>1. hold'[o] = "captured" /\ \A p \in Orders \ {o} : hold'[p] = hold[p]
      BY <1>0, <1>5 DEF TypeOK
    <3> QED BY <1>0, <1>5, <2>3, <3>1 DEF Holding, OfUser
  <2>5. Held(u)' = Held(u) - WalletSpent(o)
    BY <1>0, <2>4, HeldStep
  <2>6. bal'[u] = bal[u] - WalletSpent(o)
    BY <1>0, <1>5 DEF TypeOK
  <2>7. Held(u)' = 0 \/ Held(u)' <= bal'[u]
    BY <1>2, <2>5, <2>6
  <2> QED BY <2>2, <2>7 DEF Covered, OfUser
<1> QED BY <1>4, <1>5

\* Steps of an order that neither hold nor debit; one of them may end a hold.
LEMMA MoveKeepsCover ==
  ASSUME IInv, TypeOK', CoverInv, NEW o \in Orders,
         \/ Price(o) \/ CreateOrder(o) \/ CreateReferral(o) \/ CreateItem(o) \/ Offer(o)
         \/ Ipn(o) \/ MarkPaid(o) \/ Benefits(o) \/ Count(o)
         \/ Cancel(o) \/ FailExpired(o) \/ Age(o) \/ Stop(o),
         NEW u \in Users \ exposed'
  PROVE  Covered(u)'
<1> USE DEF Goto, rows, wallets, coupon, history
<1>0. TypeOK /\ UNCHANGED <<code, read, exposed>> /\ u \in Users
  BY DEF IInv, Price, CreateOrder, CreateReferral, CreateItem, Offer, Ipn, MarkPaid, Benefits,
         Count, Cancel, FailExpired, Close, Age, Stop
<1>1. Covered(u)
  BY <1>0 DEF CoverInv
<1>2. Held(u) \in Nat /\ Held(u)' \in Nat /\ bal[u] \in Int /\ bal'[u] \in Int
  BY <1>0, HeldStep DEF TypeOK
<1>3. Holding(u)' = Holding(u) \/ Holding(u)' = Holding(u) \ {o}
  <2>1. CASE UNCHANGED <<hold, age>>
    BY <2>1 DEF Holding, OfUser
  <2>2. CASE Cancel(o) \/ FailExpired(o)
    <3>1. /\ age' = age /\ hold'[o] = IF hold[o] = "held" THEN "released" ELSE hold[o]
          /\ \A p \in Orders \ {o} : hold'[p] = hold[p]
      BY <1>0, <2>2 DEF Cancel, FailExpired, Close, TypeOK
    <3> QED BY <3>1 DEF Holding, OfUser
  <2>3. CASE Age(o)
    <3>1. /\ hold' = hold /\ age[o] \in {0, 1} /\ age'[o] = age[o] + 1
          /\ \A p \in Orders \ {o} : age'[p] = age[p]
      BY <1>0, <2>3 DEF Age, TypeOK
    <3>2. age[o] < 2 /\ (age'[o] < 2 \/ age'[o] = 2)
      BY <3>1
    <3>3. CASE age'[o] < 2
      BY <3>1, <3>2, <3>3 DEF Holding, OfUser
    <3>4. CASE age'[o] = 2
      BY <3>1, <3>2, <3>4 DEF Holding, OfUser
    <3> QED BY <3>2, <3>3, <3>4
  <2> QED BY <2>1, <2>2, <2>3 DEF Price, CreateOrder, CreateReferral, CreateItem, Offer, Ipn,
                                  MarkPaid, Benefits, Count, Stop
<1>4. Held(u)' <= Held(u)
  BY <1>0, <1>2, <1>3, HeldStep
<1>5. bal[u] <= bal'[u]
  <2>1. CASE Benefits(o)
    <3>1. PICK c \in Nat : c = Cashback(o)
      BY CashbackIsNat
    <3>2. PICK r \in BOOLEAN : r = (referral[o] = "pending")
      OBVIOUS
    <3>3. bal'[u] = bal[u] + (IF u = Buyer[o] THEN c ELSE 0)
                           + (IF r /\ u = Referrer THEN RewardVnd ELSE 0)
      BY <1>0, <2>1, <3>1, <3>2 DEF Benefits
    <3> QED BY <1>2, <3>3, CheckoutAssumption
  <2>2. CASE ~Benefits(o)
    <3>1. bal' = bal
      BY <2>2 DEF Price, CreateOrder, CreateReferral, CreateItem, Offer, Ipn, MarkPaid,
                  Count, Cancel, FailExpired, Close, Age, Stop
    <3> QED BY <1>2, <3>1
  <2> QED BY <2>1, <2>2
<1>6. \A p \in OfUser(u) : /\ pc'[p] = "holds" => pc[p] = "holds" /\ read'[p] = read[p]
                           /\ pc'[p] = "hold" => pc[p] = "hold"
  <2>1. pc' = pc \/ \E l : pc' = [pc EXCEPT ![o] = l] /\ l \notin {"holds", "hold"}
    <3>1. CASE CreateOrder(o) \/ CreateReferral(o)
      BY <3>1, AfterReferralIs DEF CreateOrder, CreateReferral, AfterOrder
    <3>2. CASE ~(CreateOrder(o) \/ CreateReferral(o))
      BY <3>2 DEF Price, CreateItem, Offer, Ipn, MarkPaid, Benefits, Count, Cancel, FailExpired,
                  Close, Age, Stop
    <3> QED BY <3>1, <3>2
  <2> QED BY <1>0, <2>1 DEF OfUser, TypeOK
<1> QED BY <1>0, <1>1, <1>4, <1>5, <1>6, StaysCovered

\* A refund or an admin, who debits beside no hold: then nothing is held.
LEMMA DebitKeepsCover ==
  ASSUME IInv, TypeOK', CoverInv, NEW u \in Users \ exposed',
         (\E o \in Orders : Refund(o)) \/ (\E w \in Users : AdjustWallet(w))
  PROVE  Covered(u)'
<1>0. /\ TypeOK /\ UNCHANGED <<code, pc, read, hold, age>> /\ u \in Users /\ Expose
  BY DEF IInv, Refund, AdjustWallet, rows
<1>1. Covered(u)
  BY <1>0 DEF CoverInv, Expose
<1>2. Held(u) \in Nat /\ Held(u)' \in Nat /\ bal[u] \in Int /\ bal'[u] \in Int
  BY <1>0, HeldStep DEF TypeOK
<1>3. Holding(u)' = Holding(u)
  BY <1>0 DEF Holding, OfUser
<1>4. CASE bal[u] <= bal'[u]
  <2>1. Held(u)' = Held(u)
    BY <1>0, <1>3, HeldStep
  <2>2. Held(u)' <= Held(u)
    BY <1>2, <2>1
  <2> QED BY <1>0, <1>1, <1>4, <2>2, StaysCovered
<1>5. CASE ~(bal[u] <= bal'[u])
  <2>1. ~Reserving(u)
    BY <1>0, <1>2, <1>5 DEF Expose
  <2>2. Held(u)' = 0
    <3>1. Holding(u)' = {}
      BY <1>3, <2>1 DEF Reserving, Holding
    <3> QED BY <1>0, <3>1, HeldStep
  <2>3. \A o \in OfUser(u) : pc'[o] \notin {"holds", "hold"}
    BY <1>0, <2>1 DEF Reserving
  <2> QED BY <2>2, <2>3 DEF Covered, OfUser
<1> QED BY <1>4, <1>5

\* The status of a wallet, the expiry of holds, or nothing.
LEMMA WalletKeepsCover ==
  ASSUME IInv, TypeOK', CoverInv, NEW u \in Users \ exposed',
         ExpireHolds \/ (\E w \in Users : UpdateWalletStatus(w)) \/ UNCHANGED vars
  PROVE  Covered(u)'
<1> USE DEF rows, wallets, coupon, history, vars
<1>0. TypeOK /\ UNCHANGED <<code, pc, read, age, bal, exposed>> /\ u \in Users
  BY DEF IInv, ExpireHolds, UpdateWalletStatus
<1>1. Covered(u)
  BY <1>0 DEF CoverInv
<1>2. Held(u) \in Nat /\ Held(u)' \in Nat /\ bal[u] \in Int
  BY <1>0, HeldStep DEF TypeOK
<1>3. Holding(u)' = Holding(u)
  <2>1. CASE ExpireHolds
    <3>1. \A p \in Orders : hold'[p] = IF hold[p] = "held" /\ age[p] = 2 THEN "expired" ELSE hold[p]
      BY <2>1 DEF ExpireHolds
    <3> QED BY <1>0, <3>1 DEF Holding, OfUser
  <2>2. CASE ~ExpireHolds
    BY <1>0, <2>2 DEF Holding, OfUser, UpdateWalletStatus
  <2> QED BY <2>1, <2>2
<1>4. Held(u)' = Held(u)
  BY <1>0, <1>3, HeldStep
<1>5. Held(u)' <= Held(u) /\ bal[u] <= bal'[u]
  BY <1>0, <1>2, <1>4
<1> QED BY <1>0, <1>1, <1>5, StaysCovered

LEMMA NextKeepsCover == IInv /\ IInv' /\ CoverInv /\ [Next]_vars => CoverInv'
<1> SUFFICES ASSUME IInv, IInv', CoverInv, [Next]_vars, NEW u \in Users \ exposed'
             PROVE  Covered(u)'
  BY DEF CoverInv
<1>1. TypeOK'
  BY DEF IInv
<1> QED BY <1>1, HoldKeepsCover, CaptureKeepsCover, MoveKeepsCover, DebitKeepsCover, WalletKeepsCover
        DEF Next, CheckingOut, Paying
-----------------------------------------------------------------------------
\* For any users, orders and prices, and any interleaving of their checkouts and payments,
\* the invariant holds.
THEOREM CheckoutInvariant == Spec => []IInv
  BY InitInv, NextKeepsInv, PTL DEF Spec

\* Every variable keeps its type; the wallets stay whole numbers.
THEOREM CheckoutTypes == Spec => []TypeOK
<1>1. IInv => TypeOK
  BY DEF IInv
<1> QED BY <1>1, CheckoutInvariant, PTL

\* createPendingOrder never offers an order without its items, its hold or its referral.
THEOREM OffersAreComplete == Spec => []OfferIsComplete
<1>1. IInv => OfferIsComplete
  BY PricesAreInts DEF IInv, OrderInv, Staged, OfferIsComplete
<1> QED BY <1>1, CheckoutInvariant, PTL

\* What the wallet was to pay of a settled order was debited.
THEOREM PaidOrdersAreDebited == Spec => []PaidIsDebited
<1>1. IInv => PaidIsDebited
  BY DEF IInv, OrderInv, Reserved, PaidIsDebited, Paid
<1> QED BY <1>1, CheckoutInvariant, PTL

\* Nobody is referred by two live referrals, the coupon is counted no more often than it
\* allows in all, and nobody has more paid orders with it than it allows each, refunds
\* included, as long as the checkouts concerned did not overlap and none was cancelled.
THEOREM CodesKeepTheirLimits == Spec => []LimitsHold
<1>1. IInv => LimitsHold
  <2> SUFFICES ASSUME IInv PROVE LimitsHold OBVIOUS
  <2>1. ASSUME NEW u \in Users \ again PROVE Cardinality(Live(u)) <= 1
    <3>1. \A o, p \in Live(u) : o = p
      BY <2>1 DEF IInv, ReferralInv, Live, OfUser, IsLive
    <3>2. CASE Live(u) = {}
      <4>1. Cardinality(Live(u)) = 0
        BY <3>2, FS_EmptySet
      <4> QED BY <4>1
    <3>3. CASE Live(u) # {}
      <4>1. PICK o \in Live(u) : TRUE
        BY <3>3
      <4>2. Live(u) = {o}
        BY <3>1, <4>1
      <4>3. Cardinality(Live(u)) = 1
        BY <4>2, FS_Singleton
      <4> QED BY <4>3
    <3> QED BY <3>2, <3>3
  <2>2. ASSUME ~loose
        PROVE  /\ Cardinality(counted) <= limit.all
               /\ \A u \in Users : Cardinality(UsesOf(u)) <= limit.each
    BY <2>2 DEF IInv, CouponInv
  <2> QED BY <2>1, <2>2 DEF LimitsHold
<1> QED BY <1>1, CheckoutInvariant, PTL

\* What active holds reserve is in the wallet, unless it was debited beside them, by a
\* refund, an admin or the expiry of the balance too: so every capture of a hold that is
\* still active is covered.
THEOREM HoldsAreCovered == Spec => []HeldIsCovered
<1>1. CoverInv => HeldIsCovered
  BY DEF CoverInv, Covered, HeldIsCovered
<1> QED BY <1>1, InitCovered, NextKeepsCover, CheckoutInvariant, PTL DEF Spec
=============================================================================
