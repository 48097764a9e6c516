-------------------------- MODULE ProviderDelivery --------------------------
(***************************************************************************)
(* How the eSIMs of a paid order reach its buyer when Airalo, eSIM Access or *)
(* Gadget Korea make them: submitProviders asks the suppliers one after the  *)
(* other and saves their request ids, each supplier answers later by calling *)
(* a webhook, whose handler completes the items, inserts or updates the eSIM *)
(* rows and mails them, and a refund recalls what is there. Nothing keeps    *)
(* the webhook of an order behind the save of its request id, two deliveries *)
(* of it apart, or a refund away from either.                              *)
(***************************************************************************)
EXTENDS Integers, FiniteSets

CONSTANTS
  Orders,       \* paid orders, each with its buyer
  Items,        \* their order items
  OrderOf,      \* the order of an item
  Mixes,        \* the providers its items' plans may have
  Polled,       \* the eSIMs whose data usage is asked for
  Quantity,     \* eSIMs the item is for
  Esims,        \* the eSIMs (iccids) the suppliers will make
  MadeFor,      \* the item an eSIM is made for, as one of its quantity
  PlanOf,       \* the plan of an item
  Slots,        \* webhook calls handled at the same time, by number
  NoItem, NoRef, NoOrder, NoEsim,
  MaxRepeats,   \* bound: webhook calls that are repeated
  MaxFaults     \* bound: supplier's orders a fault may hit

Providers == {"airalo", "esimaccess", "gadgetkorea"}

ASSUME DeliveryAssumption ==
  /\ OrderOf \in [Items -> Orders] /\ Mixes \subseteq [Items -> Providers]
  /\ Quantity \in [Items -> Nat \ {0}]
  /\ Polled \subseteq Esims /\ MadeFor \in [Esims -> Items] /\ DOMAIN PlanOf = Items
  /\ Items \cup Esims \cup Slots \subseteq Nat
  /\ Items \cap Orders = {} /\ Items \cap Esims = {}
  /\ NoItem \notin Items /\ NoRef \notin Items \cup Orders /\ NoOrder \notin Orders
  /\ NoEsim \notin Esims
  /\ MaxRepeats \in Nat /\ MaxFaults \in Nat

\* A supplier makes as many eSIMs for an item as it is for.
ASSUME MadeAssumption ==
  /\ IsFiniteSet(Esims)
  /\ \A i \in Items : Cardinality({e \in Esims : MadeFor[e] = i}) = Quantity[i]

VARIABLES
  provider,         \* the provider of the item's plan
  at, todo, hand,   \* submitProviders: supplier, items to ask for, answers to save
  saved,            \* the items whose orderRequestId is saved
  accepted,         \* the orders the suppliers took
  status,           \* status of the order_item rows
  esim,             \* status of the esim rows
  itemOf, buyer,    \* their orderItemId and userId
  hook,             \* a webhook call: complete, esims, write
  href, hitems, hleft, hgiven, hcur,  \* its order, items, eSIMs left, uses, eSIM
  usage,            \* a getDataUsage that read the row of an eSIM: the eSIM, its status
  mailed,           \* the eSIMs mailed, with the order whose buyer got the e-mail
  refund, rtodo,    \* the refund of an order: cancel, done; items to cancel
  recalled,         \* eSIMs and orders the suppliers were told to cancel
  called, repeats,  \* orders whose webhook was called, calls made again
  early, crossed, late, hurt  \* history, see below

submission == <<provider, at, todo, hand, saved, accepted>>
rows == <<status, esim, itemOf, buyer>>
hooks == <<hook, href, hitems, hleft, hgiven, hcur>>
refunds == <<refund, rtodo, recalled>>
history == <<early, crossed, late>>
calls == <<called, repeats>>
vars == <<submission, rows, hooks, usage, mailed, refunds, calls, history, hurt>>

\* eSIM Access takes the items of an order as one order of its own, Airalo one
\* item and Gadget Korea one unit, which has an item of its own.
Ref(i) == IF provider[i] = "esimaccess" THEN OrderOf[i] ELSE i

Refs == {Ref(i) : i \in Items}

\* Loops take items and eSIMs by id.
First(s) == {i \in s : \A j \in s : i <= j}

Of(r) == {i \in Items : Ref(i) = r}          \* the items of a supplier's order
RefOf(e) == Ref(MadeFor[e])
BuyerOf(r) == IF r \in Orders THEN r ELSE OrderOf[r]

(* early: orders whose webhook came before all their request ids were saved.   *)
(* crossed: orders two of whose webhooks ran at the same time.              *)
(* late: orders refunded beside or before a webhook, a submission or a poll.  *)
(* hurt: orders a fault hit.                                               *)

Asked(o, p) == {i \in Items : OrderOf[i] = o /\ provider[i] = p}

Init ==
  /\ provider \in Mixes
  /\ at = [o \in Orders |-> "airalo"]
  /\ todo = [o \in Orders |-> Asked(o, "airalo")]
  /\ hand = [o \in Orders |-> {}]
  /\ saved = {} /\ accepted = {}
  /\ status = [i \in Items |-> "pending"]
  /\ esim = [e \in Esims |-> "none"]
  /\ itemOf = [e \in Esims |-> NoItem]
  /\ buyer = [e \in Esims |-> NoOrder]
  /\ hook = [h \in Slots |-> "idle"]
  /\ href = [h \in Slots |-> NoRef]
  /\ hitems = [h \in Slots |-> {}]
  /\ hleft = [h \in Slots |-> {}]
  /\ hgiven = [h \in Slots |-> [i \in Items |-> 0]]
  /\ hcur = [h \in Slots |-> [esim |-> NoEsim, item |-> NoItem, found |-> FALSE]]
  /\ usage = [esim |-> NoEsim, status |-> "none"]
  /\ mailed = {}
  /\ refund = [o \in Orders |-> "none"]
  /\ rtodo = [o \in Orders |-> {}]
  /\ recalled = {}
  /\ called = {} /\ repeats = 0
  /\ early = {} /\ crossed = {} /\ late = {} /\ hurt = {}

Fault(rs) == Cardinality(hurt) < MaxFaults /\ hurt' = hurt \cup rs
-----------------------------------------------------------------------------
(* submitProviders.                                                        *)

\* Airalo is asked item by item, the others once for all.
Batches(o) == IF at[o] = "airalo" THEN {First(todo[o])} ELSE {todo[o]}

\* A call that fails is caught, also when only its answer is lost.
Ask(o) ==
  /\ todo[o] # {} /\ hand[o] = {}
  /\ \E b \in Batches(o) :
       LET rs == {Ref(i) : i \in b} IN
       /\ \/ accepted' = accepted \cup rs
             /\ hand' = [hand EXCEPT ![o] = b]
             /\ UNCHANGED hurt
          \/ Fault(rs)
             /\ accepted' \in {accepted, accepted \cup rs}
             /\ UNCHANGED hand
       /\ todo' = [todo EXCEPT ![o] = @ \ b]
  /\ UNCHANGED <<provider, at, saved, rows, hooks, usage, mailed, refunds, calls, history>>

Save(o) ==
  /\ \E i \in First(hand[o]) :
       /\ saved' = saved \cup {i}
       /\ hand' = [hand EXCEPT ![o] = @ \ {i}]
  /\ UNCHANGED <<provider, at, todo, accepted, rows, hooks, usage, mailed, refunds, calls,
                 history, hurt>>

\* A failing save leaves the ones after it; for Gadget Korea it is not caught.
SaveFails(o) ==
  /\ hand[o] # {} /\ Fault({Ref(i) : i \in hand[o]})
  /\ hand' = [hand EXCEPT ![o] = {}]
  /\ at' = [at EXCEPT ![o] = IF @ = "gadgetkorea" THEN "over" ELSE @]
  /\ UNCHANGED <<provider, todo, saved, accepted, rows, hooks, usage, mailed, refunds, calls,
                 history>>

Following == [airalo |-> "esimaccess", esimaccess |-> "gadgetkorea",
              gadgetkorea |-> "over"]

NextProvider(o) ==
  /\ at[o] # "over" /\ todo[o] = {} /\ hand[o] = {}
  /\ at' = [at EXCEPT ![o] = Following[@]]
  /\ todo' = [todo EXCEPT ![o] = Asked(o, Following[at[o]])]
  /\ UNCHANGED <<provider, hand, saved, accepted, rows, hooks, usage, mailed, refunds, calls,
                 history, hurt>>

\* The process stops: nothing resumes the submission.
Stop(o) ==
  /\ at[o] # "over"
  /\ Fault({Ref(i) : i \in {j \in Items : OrderOf[j] = o} \ saved})
  /\ at' = [at EXCEPT ![o] = "over"]
  /\ todo' = [todo EXCEPT ![o] = {}]
  /\ hand' = [hand EXCEPT ![o] = {}]
  /\ UNCHANGED <<provider, saved, accepted, rows, hooks, usage, mailed, refunds, calls, history>>
-----------------------------------------------------------------------------
(* handleAiraloEvent, handleEsimAccessEvent and handleGadgetKoreaEvent.       *)

Busy(r) == \E h \in Slots : hook[h] # "idle" /\ href[h] = r

\* Mutant: one item of the request id is read.
DeliverToOne(h, r) ==
  /\ h \in First({g \in Slots : hook[g] = "idle"}) /\ r \in accepted
  /\ \/ r \notin called /\ called' = called \cup {r} /\ UNCHANGED repeats
     \/ r \in called /\ repeats < MaxRepeats /\ repeats' = repeats + 1 /\ UNCHANGED called
  /\ hook' = [hook EXCEPT ![h] = "complete"]
  /\ href' = [href EXCEPT ![h] = r]
  /\ hitems' = [hitems EXCEPT ![h] = First(Of(r) \cap saved)]
  /\ early' = IF Of(r) \subseteq saved THEN early ELSE early \cup {r}
  /\ crossed' = IF Busy(r) THEN crossed \cup {r} ELSE crossed
  /\ late' = IF refund[BuyerOf(r)] = "none" THEN late ELSE late \cup {BuyerOf(r)}
  /\ UNCHANGED <<submission, rows, hleft, hgiven, hcur, usage, mailed, refunds, hurt>>

\* The items are matched by their request id, once.
Deliver(h, r) ==
  /\ h \in First({g \in Slots : hook[g] = "idle"}) /\ r \in accepted
  /\ \/ r \notin called /\ called' = called \cup {r} /\ UNCHANGED repeats
     \/ r \in called /\ repeats < MaxRepeats /\ repeats' = repeats + 1 /\ UNCHANGED called
  /\ hook' = [hook EXCEPT ![h] = "complete"]
  /\ href' = [href EXCEPT ![h] = r]
  /\ hitems' = [hitems EXCEPT ![h] = Of(r) \cap saved]
  /\ early' = IF Of(r) \subseteq saved THEN early ELSE early \cup {r}
  /\ crossed' = IF Busy(r) THEN crossed \cup {r} ELSE crossed
  /\ late' = IF refund[BuyerOf(r)] = "none" THEN late ELSE late \cup {BuyerOf(r)}
  /\ UNCHANGED <<submission, rows, hleft, hgiven, hcur, usage, mailed, refunds, hurt>>

Goto(h, l) == hook' = [hook EXCEPT ![h] = l]

\* The handler returns.
Return(h) ==
  /\ Goto(h, "idle")
  /\ href' = [href EXCEPT ![h] = NoRef]
  /\ hitems' = [hitems EXCEPT ![h] = {}]
  /\ hleft' = [hleft EXCEPT ![h] = {}]
  /\ hgiven' = [hgiven EXCEPT ![h] = [i \in Items |-> 0]]
  /\ hcur' = [hcur EXCEPT ![h] = [esim |-> NoEsim, item |-> NoItem, found |-> FALSE]]

CompleteItem(h) ==
  /\ hook[h] = "complete"
  /\ \E i \in First({j \in hitems[h] : status[j] # "completed"}) :
       status' = [status EXCEPT ![i] = "completed"]
  /\ UNCHANGED <<submission, esim, itemOf, buyer, hooks, usage, mailed, refunds, calls,
                 history, hurt>>

\* The eSIMs are those of the call; eSIM Access is asked for its list, which may fail,
\* and a call of Gadget Korea may have no iccid.
List(h) ==
  /\ hook[h] = "complete" /\ \A i \in hitems[h] : status[i] = "completed"
  /\ \/ /\ Goto(h, "esims")
        /\ hleft' = [hleft EXCEPT ![h] = {e \in Esims : RefOf(e) = href[h]}]
        /\ UNCHANGED <<href, hitems, hgiven, hcur, hurt>>
     \/ /\ \E i \in Of(href[h]) : provider[i] # "airalo"
        /\ Fault({href[h]}) /\ Return(h)
  /\ UNCHANGED <<submission, rows, usage, mailed, refunds, calls, history>>

\* Mutant: any item of the order with the eSIM's package will do.
MatchesByPlan(h, e) ==
  {i \in saved : OrderOf[i] = BuyerOf(href[h]) /\ PlanOf[i] = PlanOf[MadeFor[e]]}

\* eSIM Access: the first item with the eSIM's package that is not yet full in this
\* call. The other two: the only item of the request id.
Matches(h, e) ==
  LET fits == {i \in hitems[h] : PlanOf[i] = PlanOf[MadeFor[e]] /\ hgiven[h][i] < Quantity[i]}
      begun == {i \in fits : hgiven[h][i] > 0}
  IN  IF href[h] \notin Orders THEN hitems[h]
      ELSE IF begun # {} THEN begun ELSE fits

\* findByIccid.
Find(h) ==
  /\ hook[h] = "esims"
  /\ \E e \in First(hleft[h]) :
       /\ \E i \in IF Matches(h, e) = {} THEN {NoItem} ELSE Matches(h, e) :
            /\ hcur' = [hcur EXCEPT ![h] = [esim |-> e, item |-> i,
                                            found |-> esim[e] # "none"]]
            /\ hgiven' = [hgiven EXCEPT ![h] =
                            [j \in Items |-> IF j = i THEN @[j] + 1 ELSE @[j]]]
       /\ hleft' = [hleft EXCEPT ![h] = @ \ {e}]
  /\ Goto(h, "write")
  /\ UNCHANGED <<submission, rows, href, hitems, usage, mailed, refunds, calls, history,
                 hurt>>

\* update keeps the owner that is there where the call has none; create fails on an
\* iccid that is there by now. Errors are caught per eSIM.
Upsert(h) ==
  LET c == hcur[h]
      e == c.esim
      o == IF hitems[h] = {} THEN NoOrder ELSE BuyerOf(href[h])
  IN
  /\ hook[h] = "write"
  /\ \/ /\ c.found \/ esim[e] = "none"
        /\ esim' = [esim EXCEPT ![e] = "available"]
        /\ itemOf' = [itemOf EXCEPT ![e] = IF c.item = NoItem THEN @ ELSE c.item]
        /\ buyer' = [buyer EXCEPT ![e] = IF o = NoOrder THEN @ ELSE o]
        /\ UNCHANGED hurt
     \/ /\ ~c.found /\ esim[e] # "none"
        /\ UNCHANGED <<esim, itemOf, buyer, hurt>>
     \/ Fault({href[h]}) /\ UNCHANGED <<esim, itemOf, buyer>>
  /\ Goto(h, "esims")
  /\ UNCHANGED <<submission, status, href, hitems, hleft, hgiven, hcur, usage, mailed,
                 refunds, calls, history>>

\* Mutant: the e-mails of the first item only.
MailFirst(h) ==
  LET mine == {e \in Esims : itemOf[e] \in First(hitems[h])} IN
  /\ hook[h] = "esims" /\ hleft[h] = {}
  /\ mailed' = mailed \cup {<<e, BuyerOf(href[h])>> : e \in mine}
  /\ Return(h)
  /\ UNCHANGED <<submission, rows, usage, refunds, calls, history, hurt>>

\* The e-mails of all eSIMs of the matched items, on every delivery; a failing e-mail
\* leaves the ones after it.
Mail(h) ==
  LET mine == {e \in Esims : itemOf[e] \in hitems[h]}
      All(es) == {<<e, BuyerOf(href[h])>> : e \in es}
  IN
  /\ hook[h] = "esims" /\ hleft[h] = {}
  /\ \/ mailed' = mailed \cup All(mine) /\ UNCHANGED hurt
     \/ \E es \in SUBSET mine : Fault({href[h]}) /\ mailed' = mailed \cup All(es)
  /\ Return(h)
  /\ UNCHANGED <<submission, rows, usage, refunds, calls, history>>

\* The process stops in the middle of a call.
Die(h) ==
  /\ hook[h] # "idle" /\ Fault({href[h]})
  /\ Return(h)
  /\ UNCHANGED <<submission, rows, usage, mailed, refunds, calls, history>>
-----------------------------------------------------------------------------
(* refundOrder and getDataUsage.                                           *)

BuyersItems(o) == {i \in Items : OrderOf[i] = o}

\* The amount fits; what a refused refund leaves behind is part of OrderLifecycle.
Refund(o) ==
  /\ refund[o] = "none"
  /\ refund' = [refund EXCEPT ![o] = "cancel"]
  /\ rtodo' = [rtodo EXCEPT ![o] = BuyersItems(o)]
  /\ late' = IF at[o] # "over" \/ \E r \in Refs : BuyerOf(r) = o /\ Busy(r)
             THEN late \cup {o} ELSE late \ {o}
  /\ UNCHANGED <<submission, rows, hooks, usage, mailed, recalled, calls, early, crossed,
                 hurt>>

\* Mutant: Gadget Korea is not told.
ToCancelEsims(i) ==
  IF provider[i] = "esimaccess" THEN {e \in Esims : itemOf[e] = i} ELSE {}

\* What the supplier of an item is told: eSIM Access to cancel each eSIM that is
\* there, Gadget Korea its order, Airalo nothing.
ToCancel(i) ==
  CASE provider[i] = "esimaccess" -> {e \in Esims : itemOf[e] = i}
    [] provider[i] = "gadgetkorea" -> {i} \cap saved
    [] OTHER -> {}

\* cancelOrderWithSuppliers, item by item; an error leaves the rest of the item.
CancelItem(o) ==
  /\ refund[o] = "cancel"
  /\ \E i \in First(rtodo[o]) :
       /\ \/ recalled' = recalled \cup ToCancel(i) /\ UNCHANGED hurt
          \/ \E s \in SUBSET ToCancel(i) :
               Fault({Ref(i)}) /\ recalled' = recalled \cup s
       /\ rtodo' = [rtodo EXCEPT ![o] = @ \ {i}]
  /\ UNCHANGED <<submission, rows, hooks, usage, mailed, refund, calls, history>>

\* markRefundedByOrderId: one UPDATE, whose error is caught.
MarkRefunded(o) ==
  /\ refund[o] = "cancel" /\ rtodo[o] = {}
  /\ refund' = [refund EXCEPT ![o] = "done"]
  /\ \/ /\ esim' = [e \in Esims |-> IF itemOf[e] \in BuyersItems(o) THEN "refunded"
                                    ELSE esim[e]]
        /\ UNCHANGED hurt
     \/ Fault({Ref(i) : i \in BuyersItems(o)}) /\ UNCHANGED esim
  /\ late' = IF usage.esim \in Esims /\ itemOf[usage.esim] \in BuyersItems(o)
             THEN late \cup {o} ELSE late
  /\ UNCHANGED <<submission, status, itemOf, buyer, hooks, usage, mailed, rtodo, recalled,
                 calls, early, crossed>>

\* getDataUsage saves the whole row it read, with the new usage. Bound: only polls that
\* read the row just before a refund marks it.
ReadUsage(e) ==
  /\ usage.esim = NoEsim /\ itemOf[e] # NoItem
  /\ LET o == OrderOf[itemOf[e]] IN refund[o] = "cancel" /\ rtodo[o] = {}
  /\ usage' = [esim |-> e, status |-> esim[e]]
  /\ UNCHANGED <<submission, rows, hooks, mailed, refunds, calls, history, hurt>>

SaveUsage ==
  /\ usage.esim # NoEsim
  /\ esim' = [esim EXCEPT ![usage.esim] = usage.status]
  /\ usage' = [esim |-> NoEsim, status |-> "none"]
  /\ UNCHANGED <<submission, status, itemOf, buyer, hooks, mailed, refunds, calls,
                 history, hurt>>
-----------------------------------------------------------------------------
Submitting(o) == Ask(o) \/ Save(o) \/ NextProvider(o)
Handling(h) == CompleteItem(h) \/ List(h) \/ Find(h) \/ Upsert(h) \/ Mail(h)
Refunding(o) == CancelItem(o) \/ MarkRefunded(o)

Next ==
  \/ \E o \in Orders : \/ Submitting(o) \/ SaveFails(o) \/ Stop(o)
                       \/ Refund(o) \/ Refunding(o)
  \/ \E h \in Slots : Handling(h) \/ Die(h) \/ \E r \in Refs : Deliver(h, r)
  \/ \E e \in Polled : ReadUsage(e)
  \/ SaveUsage

Spec == Init /\ [][Next]_vars

\* Started handlers go on, and a supplier calls for an order it made at least once. A
\* handler has finitely many steps and calls are bounded, so one condition suffices.
Progress ==
  \/ \E o \in Orders : Submitting(o)
  \/ \E h \in Slots : Handling(h)
  \/ \E r \in Refs \ called, h \in Slots : Deliver(h, r)

Fairness == WF_vars(Progress)

FairSpec == Spec /\ Fairness
-----------------------------------------------------------------------------
\* Every variable has its type.
TypeOK ==
  /\ provider \in [Items -> Providers]
  /\ at \in [Orders -> Providers \cup {"over"}]
  /\ todo \in [Orders -> SUBSET Items] /\ hand \in [Orders -> SUBSET Items]
  /\ saved \subseteq Items /\ accepted \subseteq Refs
  /\ status \in [Items -> {"pending", "completed"}]
  /\ esim \in [Esims -> {"none", "available", "refunded"}]
  /\ itemOf \in [Esims -> Items \cup {NoItem}]
  /\ buyer \in [Esims -> Orders \cup {NoOrder}]
  /\ hook \in [Slots -> {"idle", "complete", "esims", "write"}]
  /\ href \in [Slots -> Refs \cup {NoRef}]
  /\ hitems \in [Slots -> SUBSET Items] /\ hleft \in [Slots -> SUBSET Esims]
  /\ hgiven \in [Slots -> [Items -> Nat]]
  /\ hcur \in [Slots -> [esim : Esims \cup {NoEsim}, item : Items \cup {NoItem},
                         found : BOOLEAN]]
  /\ usage \in [esim : Esims \cup {NoEsim}, status : {"none", "available", "refunded"}]
  /\ mailed \subseteq Esims \X Orders
  /\ refund \in [Orders -> {"none", "cancel", "done"}]
  /\ rtodo \in [Orders -> SUBSET Items]
  /\ recalled \subseteq Esims \cup Refs
  /\ called \subseteq Refs /\ repeats \in 0..MaxRepeats
  /\ early \subseteq Refs /\ crossed \subseteq Refs /\ late \subseteq Orders
  /\ hurt \subseteq Refs

\* The eSIM a supplier made for one buyer is assigned to an item of that buyer, of the
\* eSIM's package, and mailed to nobody else, however deliveries, refunds and polls
\* interleave.
EsimsFindTheirBuyer ==
  /\ \A e \in Esims :
       /\ itemOf[e] # NoItem => Ref(itemOf[e]) = RefOf(e) /\ PlanOf[itemOf[e]] = PlanOf[MadeFor[e]]
       /\ buyer[e] \in {NoOrder, BuyerOf(RefOf(e))}
  /\ \A m \in mailed : m[2] = BuyerOf(RefOf(m[1]))

\* At rest a completed item has as many eSIMs as were bought, all of them mailed, unless
\* its webhook came early, overlapped with itself or was hit by a fault. And an eSIM has no
\* item only when its webhook came early, that is before all request ids were saved.
CompletedIsDelivered ==
  /\ \A i \in Items :
       status[i] = "completed" /\ ~Busy(Ref(i)) /\ Ref(i) \notin early \cup crossed \cup hurt
       => LET es == {e \in Esims : itemOf[e] = i} IN
          /\ Cardinality(es) = Quantity[i]
          /\ \A e \in es : <<e, OrderOf[i]>> \in mailed
  /\ \A e \in Esims : esim[e] # "none" /\ itemOf[e] = NoItem => RefOf(e) \in early

\* The eSIMs of a refunded order say so and their supplier was told to cancel them,
\* unless the refund met a webhook, the submission or a poll, or a fault hit it.
RefundIsRecalled ==
  \A o \in Orders : refund[o] = "done" /\ o \notin late =>
    \A i \in BuyersItems(o) : Ref(i) \notin hurt =>
      /\ \A e \in Esims : itemOf[e] = i =>
           esim[e] = "refunded" /\ (provider[i] = "esimaccess" => e \in recalled)
      /\ provider[i] = "gadgetkorea" /\ i \in saved => i \in recalled

\* What a supplier accepted is completed in the end, unless its webhook overtook the
\* save of a request id or a fault hit it: a lost answer, for one, ends the matter.
AcceptedIsCompleted ==
  \A i \in Items :
    Ref(i) \in accepted ~> status[i] = "completed" \/ Ref(i) \in early \cup hurt
=============================================================================
