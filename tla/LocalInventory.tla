--------------------------- MODULE LocalInventory ---------------------------
(***************************************************************************)
(* The stock of a plan sold from the local inventory: the Excel import puts *)
(* eSIMs in, submitProviders takes the ones that expire first for the items  *)
(* of a paid order, refunds take them back, and a nightly job soft-deletes    *)
(* what was sold or refunded six months ago, which an import may restore.     *)
(* findAvailableByPlanId locks nothing: two orders may find the same eSIM.    *)
(***************************************************************************)
EXTENDS Integers, FiniteSets

CONSTANTS
  Orders,     \* paid orders, each with its buyer
  Muted,      \* the ones an admin placed, without the automatic e-mail
  Items,      \* order items of the plan, by id
  OrderOf,    \* the order of an item
  Quantity,   \* eSIMs the item is for
  Esims,      \* the eSIMs (iccids) of the plan, in the order they expire
  NoItem, NoOrder,
  MaxFaults   \* bound: orders a fault may hit

ASSUME InventoryAssumption ==
  /\ Muted \subseteq Orders /\ Items \subseteq Nat
  /\ Esims \subseteq Nat /\ IsFiniteSet(Esims)
  /\ OrderOf \in [Items -> Orders] /\ Quantity \in [Items -> Nat \ {0}]
  /\ NoItem \notin Items /\ NoOrder \notin Orders /\ MaxFaults \in Nat

VARIABLES
  status, itemOf, buyer,  \* the esim rows
  deleted,                \* the ones that are soft-deleted
  importing,              \* the ones an import restored and has not updated yet
  istatus,                \* status of the order_item rows
  at, todo,               \* the local phase of submitProviders: place, items left,
  picked, full, done,     \* eSIMs left to assign, enough of them, items completed
  refund, rtodo, rleft,   \* the refund of an order: place, items left, eSIMs left
  mailed,                 \* the eSIMs mailed to the buyer of an order
  holders,                \* history: orders an eSIM was assigned to since its import
  raced,                  \* history: eSIMs written while another handler had them in hand
  short, hurt       \* history, see below

rows == <<status, itemOf, buyer, deleted, importing>>
sale == <<at, todo, picked, full, done>>
refunds == <<refund, rtodo, rleft>>
vars == <<rows, istatus, sale, refunds, mailed, holders, raced, short, hurt>>

(* short: items that found too little stock. hurt: orders a fault *)
(* hit.                                                                     *)

Of(o) == {i \in Items : OrderOf[i] = o}

First(n, s) == {x \in s : Cardinality({y \in s : y < x}) < n}

Init ==
  /\ status = [e \in Esims |-> "none"]
  /\ itemOf = [e \in Esims |-> NoItem]
  /\ buyer = [e \in Esims |-> NoOrder]
  /\ deleted = {} /\ importing = {}
  /\ istatus = [i \in Items |-> "pending"]
  /\ at = [o \in Orders |-> "find"]
  /\ todo = [o \in Orders |-> Of(o)]
  /\ picked = [o \in Orders |-> {}]
  /\ full = [o \in Orders |-> FALSE]
  /\ done = [o \in Orders |-> {}]
  /\ refund = [o \in Orders |-> "none"]
  /\ rtodo = [o \in Orders |-> {}]
  /\ rleft = [o \in Orders |-> {}]
  /\ mailed = {}
  /\ holders = [e \in Esims |-> {}]
  /\ raced = {} /\ short = {} /\ hurt = {}

Fault(o) == Cardinality(hurt) < MaxFaults /\ hurt' = hurt \cup {o}

InHand(e, o) == \E p \in Orders \ {o} : e \in picked[p] \cup rleft[p]

Owned(e, i, o, s) ==
  /\ status' = [status EXCEPT ![e] = s]
  /\ itemOf' = [itemOf EXCEPT ![e] = i]
  /\ buyer' = [buyer EXCEPT ![e] = o]
-----------------------------------------------------------------------------
(* The import, one row of the file at a time.                              *)

Import(e) ==
  /\ status[e] = "none"
  /\ Owned(e, NoItem, NoOrder, "available")
  /\ UNCHANGED <<deleted, importing, istatus, sale, refunds, mailed, holders, raced,
                 short, hurt>>

\* A soft-deleted row is restored, then overwritten.
Restore(e) ==
  /\ e \in deleted
  /\ deleted' = deleted \ {e}
  /\ importing' = importing \cup {e}
  /\ UNCHANGED <<status, itemOf, buyer, istatus, sale, refunds, mailed, holders, raced,
                 short, hurt>>

Overwrite(e) ==
  /\ e \in importing
  /\ Owned(e, NoItem, NoOrder, "available")
  /\ importing' = importing \ {e}
  /\ holders' = [holders EXCEPT ![e] = {}]
  /\ mailed' = {m \in mailed : m[1] # e}
  /\ raced' = IF InHand(e, NoOrder) THEN raced \cup {e} ELSE raced
  /\ UNCHANGED <<deleted, istatus, sale, refunds, short, hurt>>

\* An error is caught per row; the next import finds the row there and skips it.
OverwriteFails(e) ==
  /\ e \in importing
  /\ importing' = importing \ {e}
  /\ UNCHANGED <<status, itemOf, buyer, deleted, istatus, sale, refunds, mailed, holders,
                 raced, short, hurt>>
-----------------------------------------------------------------------------
(* The local phase of submitProviders, item by item.                        *)

\* Mutant: everything that is not sold.
StockNotSold == {e \in Esims : status[e] \in {"available", "refunded"} /\ e \notin deleted}

\* The null filters on owner and item are dropped by the query builder.
Stock == {e \in Esims : status[e] = "available" /\ e \notin deleted}

\* Mutant: an item is complete with any eSIM.
FindAny(o) ==
  /\ at[o] = "find" /\ todo[o] # {}
  /\ \E i \in First(1, todo[o]) :
       /\ picked' = [picked EXCEPT ![o] = First(Quantity[i], Stock)]
       /\ full' = [full EXCEPT ![o] = Stock # {}]
       /\ short' = IF Cardinality(Stock) >= Quantity[i] THEN short ELSE short \cup {i}
  /\ at' = [at EXCEPT ![o] = "assign"]
  /\ UNCHANGED <<rows, istatus, todo, done, refunds, mailed, holders, raced, hurt>>

\* Mutant: more eSIMs must be there than are needed.
FindMore(o) ==
  /\ at[o] = "find" /\ todo[o] # {}
  /\ \E i \in First(1, todo[o]) :
       /\ picked' = [picked EXCEPT ![o] = First(Quantity[i], Stock)]
       /\ full' = [full EXCEPT ![o] = Cardinality(Stock) > Quantity[i]]
       /\ short' = IF Cardinality(Stock) >= Quantity[i] THEN short ELSE short \cup {i}
  /\ at' = [at EXCEPT ![o] = "assign"]
  /\ UNCHANGED <<rows, istatus, todo, done, refunds, mailed, holders, raced, hurt>>

Find(o) ==
  /\ at[o] = "find" /\ todo[o] # {}
  /\ \E i \in First(1, todo[o]) :
       /\ picked' = [picked EXCEPT ![o] = First(Quantity[i], Stock)]
       /\ full' = [full EXCEPT ![o] = Cardinality(Stock) >= Quantity[i]]
       /\ short' = IF Cardinality(Stock) >= Quantity[i] THEN short ELSE short \cup {i}
  /\ at' = [at EXCEPT ![o] = "assign"]
  /\ UNCHANGED <<rows, istatus, todo, done, refunds, mailed, holders, raced, hurt>>

\* The update asks nothing of the row it writes.
Assign(o) ==
  /\ at[o] = "assign"
  /\ \E e \in First(1, picked[o]), i \in First(1, todo[o]) :
       /\ Owned(e, i, o, "sold")
       /\ picked' = [picked EXCEPT ![o] = @ \ {e}]
       /\ holders' = [holders EXCEPT ![e] = @ \cup {o}]
       /\ raced' = IF InHand(e, o) THEN raced \cup {e} ELSE raced
  /\ UNCHANGED <<deleted, importing, istatus, at, todo, full, done, refunds, mailed,
                 short, hurt>>

Close(o) ==
  /\ at[o] = "assign" /\ picked[o] = {}
  /\ \E i \in First(1, todo[o]) :
       /\ istatus' = [istatus EXCEPT ![i] = IF full[o] THEN "completed" ELSE "pending"]
       /\ done' = [done EXCEPT ![o] = IF full[o] THEN @ \cup {i} ELSE @]
       /\ todo' = [todo EXCEPT ![o] = @ \ {i}]
  /\ at' = [at EXCEPT ![o] = "find"]
  /\ UNCHANGED <<rows, picked, full, refunds, mailed, holders, raced, short, hurt>>

\* An error leaves the item with what it was assigned, and goes on with the next.
ItemFails(o) ==
  /\ at[o] = "assign" /\ Fault(o)
  /\ picked' = [picked EXCEPT ![o] = {}]
  /\ todo' = [todo EXCEPT ![o] = @ \ First(1, @)]
  /\ at' = [at EXCEPT ![o] = "find"]
  /\ UNCHANGED <<rows, istatus, full, done, refunds, mailed, holders, raced, short>>

Mails(o, is) == {<<e, o>> : e \in {x \in Esims : itemOf[x] \in is /\ x \notin deleted}}

\* The items that were completed are mailed, one e-mail per eSIM; the first that fails
\* ends it, in whatever order the query returned them.
Mail(o) ==
  /\ at[o] = "find" /\ todo[o] = {}
  /\ at' = [at EXCEPT ![o] = "over"]
  /\ \/ mailed' = mailed \cup (IF o \in Muted THEN {} ELSE Mails(o, done[o]))
        /\ UNCHANGED hurt
     \/ /\ o \notin Muted /\ Fault(o)
        /\ \E sent \in SUBSET Mails(o, done[o]) : mailed' = mailed \cup sent
  /\ UNCHANGED <<rows, istatus, todo, picked, full, done, refunds, holders, raced, short>>

\* The process stops in the middle.
Stop(o) ==
  /\ at[o] # "over" /\ Fault(o)
  /\ at' = [at EXCEPT ![o] = "over"]
  /\ picked' = [picked EXCEPT ![o] = {}]
  /\ UNCHANGED <<rows, istatus, todo, full, done, refunds, mailed, holders, raced, short>>

\* resendEsimEmail, by an admin: all eSIMs of the order.
Resend(o) ==
  /\ at[o] = "over"
  /\ mailed' = mailed \cup Mails(o, Of(o))
  /\ UNCHANGED <<rows, istatus, sale, refunds, holders, raced, short, hurt>>
-----------------------------------------------------------------------------
(* A refund, and the nightly job.                                           *)

\* The amount fits; what a refused refund leaves behind is part of OrderLifecycle.
Refund(o) ==
  /\ refund[o] = "none"
  /\ refund' = [refund EXCEPT ![o] = "recall"]
  /\ rtodo' = [rtodo EXCEPT ![o] = Of(o)]
  /\ UNCHANGED <<rows, istatus, sale, rleft, mailed, holders, raced, short, hurt>>

RecallRead(o) ==
  /\ refund[o] = "recall" /\ rleft[o] = {}
  /\ \E i \in First(1, rtodo[o]) :
       /\ rleft' = [rleft EXCEPT ![o] = {e \in Esims : itemOf[e] = i /\ e \notin deleted}]
       /\ rtodo' = [rtodo EXCEPT ![o] = @ \ {i}]
  /\ UNCHANGED <<rows, istatus, sale, refund, mailed, holders, raced, short, hurt>>

\* Mutant: the eSIM goes back on sale.
RecallToStock(o) ==
  /\ \E e \in First(1, rleft[o]) \ deleted :
       /\ Owned(e, NoItem, NoOrder, "available")
       /\ rleft' = [rleft EXCEPT ![o] = @ \ {e}]
       /\ raced' = IF InHand(e, o) THEN raced \cup {e} ELSE raced
  /\ UNCHANGED <<deleted, importing, istatus, sale, refund, rtodo, mailed, holders, short, hurt>>

\* Mutant: the eSIM goes back on sale and keeps its item.
RecallKeepsItem(o) ==
  /\ \E e \in First(1, rleft[o]) \ deleted :
       /\ Owned(e, itemOf[e], buyer[e], "available")
       /\ rleft' = [rleft EXCEPT ![o] = @ \ {e}]
       /\ raced' = IF InHand(e, o) THEN raced \cup {e} ELSE raced
  /\ UNCHANGED <<deleted, importing, istatus, sale, refund, rtodo, mailed, holders, short, hurt>>

RecallSave(o) ==
  /\ \E e \in First(1, rleft[o]) \ deleted :
       /\ Owned(e, NoItem, NoOrder, "refunded")
       /\ rleft' = [rleft EXCEPT ![o] = @ \ {e}]
       /\ raced' = IF InHand(e, o) THEN raced \cup {e} ELSE raced
  /\ UNCHANGED <<deleted, importing, istatus, sale, refund, rtodo, mailed, holders, short, hurt>>

\* EsimRepository.update does not find a row that was soft-deleted meanwhile, and throws.
RecallGone(o) ==
  /\ First(1, rleft[o]) \cap deleted # {}
  /\ rleft' = [rleft EXCEPT ![o] = {}]
  /\ UNCHANGED <<rows, istatus, sale, refund, rtodo, mailed, holders, raced, short, hurt>>

\* An error leaves the rest of the item.
RecallFails(o) ==
  /\ rleft[o] # {} /\ Fault(o)
  /\ rleft' = [rleft EXCEPT ![o] = {}]
  /\ UNCHANGED <<rows, istatus, sale, refund, rtodo, mailed, holders, raced, short>>

\* markRefundedByOrderId: what still has an item of the order, deleted or not.
MarkRefunded(o) ==
  /\ refund[o] = "recall" /\ rtodo[o] = {} /\ rleft[o] = {}
  /\ refund' = [refund EXCEPT ![o] = "done"]
  /\ \/ status' = [e \in Esims |-> IF itemOf[e] \in Of(o) THEN "refunded" ELSE status[e]]
        /\ UNCHANGED hurt
     \/ Fault(o) /\ UNCHANGED status
  /\ UNCHANGED <<itemOf, buyer, deleted, importing, istatus, sale, rtodo, rleft, mailed,
                 holders, raced, short>>

\* Six months after the last update of the row, whatever else runs: who found the eSIM
\* before that update and who made it is done by then.
Clean(e) ==
  /\ status[e] \in {"sold", "refunded"} /\ e \notin deleted \cup importing
  /\ \A o \in Orders : e \notin picked[o]
  /\ \A o \in holders[e] :
       at[o] = "over" /\ (status[e] = "refunded" => refund[o] # "recall")
  /\ deleted' = deleted \cup {e}
  /\ UNCHANGED <<status, itemOf, buyer, importing, istatus, sale, refunds, mailed, holders,
                 raced, short, hurt>>
-----------------------------------------------------------------------------
Selling(o) == Find(o) \/ Assign(o) \/ Close(o) \/ Mail(o)
Refunding(o) == RecallRead(o) \/ RecallSave(o) \/ RecallGone(o) \/ MarkRefunded(o)

Next ==
  \/ \E e \in Esims : \/ Import(e) \/ Restore(e) \/ Overwrite(e) \/ OverwriteFails(e)
                      \/ Clean(e)
  \/ \E o \in Orders :
       \/ Selling(o) \/ ItemFails(o) \/ Stop(o) \/ Resend(o)
       \/ Refund(o) \/ Refunding(o) \/ RecallFails(o)

Spec == Init /\ [][Next]_vars

\* Started handlers go on. Nothing is assumed of admins.
Fairness == \A o \in Orders : WF_vars(Selling(o)) /\ WF_vars(Refunding(o))

FairSpec == Spec /\ Fairness
-----------------------------------------------------------------------------
\* Every variable has its type.
TypeOK ==
  /\ status \in [Esims -> {"none", "available", "sold", "refunded"}]
  /\ itemOf \in [Esims -> Items \cup {NoItem}]
  /\ buyer \in [Esims -> Orders \cup {NoOrder}]
  /\ deleted \subseteq Esims /\ importing \subseteq Esims
  /\ istatus \in [Items -> {"pending", "completed"}]
  /\ at \in [Orders -> {"find", "assign", "over"}]
  /\ todo \in [Orders -> SUBSET Items] /\ done \in [Orders -> SUBSET Items]
  /\ picked \in [Orders -> SUBSET Esims] /\ full \in [Orders -> BOOLEAN]
  /\ refund \in [Orders -> {"none", "recall", "done"}]
  /\ rtodo \in [Orders -> SUBSET Items] /\ rleft \in [Orders -> SUBSET Esims]
  /\ mailed \subseteq Esims \X Orders
  /\ holders \in [Esims -> SUBSET Orders]
  /\ raced \subseteq Esims /\ short \subseteq Items
  /\ hurt \subseteq Orders

\* What is for sale belongs to nobody, so the filters that the query drops are not
\* missed; and the two owner columns of an eSIM agree.
AvailableIsFree ==
  \A e \in Esims :
    /\ status[e] = "available" => itemOf[e] = NoItem
    /\ buyer[e] = IF itemOf[e] = NoItem THEN NoOrder ELSE OrderOf[itemOf[e]]

\* Between two imports an eSIM is sold to one order and mailed to its buyer only, unless
\* two handlers that overlapped both wrote it.
SoldOnce ==
  \A e \in Esims \ raced :
    /\ Cardinality(holders[e]) <= 1
    /\ \A m \in mailed : m[1] = e => m[2] \in holders[e]

\* When the submission of an order ends without a fault, a refund or another order
\* writing its eSIMs, each completed item has as many eSIMs as were bought, sold and,
\* unless muted, mailed; and an item stays pending only for want of stock.
CompletedIsDelivered ==
  [][\A o \in Orders : \A i \in Of(o) :
       /\ at[o] # "over" /\ at'[o] = "over"
       /\ o \notin hurt' /\ refund[o] = "none"
       /\ \A e \in raced : o \notin holders[e]
       => LET es == {e \in Esims : itemOf[e] = i /\ status[e] = "sold"} IN
          IF istatus[i] = "completed"
          THEN /\ Cardinality(es) = Quantity[i]
               /\ o \notin Muted => \A e \in es : <<e, o>> \in mailed'
          ELSE i \in short]_vars

\* A refund that was recalled takes an eSIM out of the stock until an import puts it
\* back: no order is sold a refunded eSIM, unless it found it before.
RefundedIsNotSold ==
  [][\A e \in Esims : status[e] = "refunded" /\ status'[e] # "refunded" =>
       e \in importing \cup raced']_vars

\* A paid item is completed, or was short of stock when its order was submitted, or a
\* fault hit its order.
PaidIsServed ==
  \A i \in Items :
    at[OrderOf[i]] = "find"
      ~> istatus[i] = "completed" \/ i \in short \/ OrderOf[i] \in hurt
=============================================================================
