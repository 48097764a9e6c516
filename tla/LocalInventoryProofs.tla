------------------------ MODULE LocalInventoryProofs ------------------------
(* Why the local inventory needs no owner filter, who gets an eSIM, and how many   *)
(* an order gets, for any stock and any number of orders that are submitted and    *)
(* refunded at a time.                                                            *)
EXTENDS LocalInventory, TLAPS, FiniteSetTheorems, WellFoundedInduction

\* An order works on its own items.
OwnItems == \A o \in Orders : todo[o] \subseteq Of(o) /\ done[o] \subseteq Of(o)

\* The columns of a row agree, and who has an eSIM, or was mailed it, is among its holders.
RowAgrees(e) ==
  /\ status[e] \in {"none", "available"} => itemOf[e] = NoItem
  /\ buyer[e] = IF itemOf[e] = NoItem THEN NoOrder ELSE OrderOf[itemOf[e]]
  /\ itemOf[e] # NoItem => OrderOf[itemOf[e]] \in holders[e]
  /\ \A m \in mailed : m[1] = e => m[2] \in holders[e]

\* What a handler has in hand is still as it found it, unless two handlers wrote it.
InHandStays(e) ==
  e \notin raced =>
    /\ status[e] \in {"none", "available"} => holders[e] = {}
    /\ \A o \in Orders : e \in picked[o] => status[e] = "available"
    /\ \A o \in Orders : e \in rleft[o] => itemOf[e] # NoItem
    /\ \A o, p \in holders[e] : o = p

EsimInv(e) == RowAgrees(e) /\ InHandStays(e)

IInv == TypeOK /\ OwnItems /\ \A e \in Esims : EsimInv(e)

LEMMA InitInv == Init => IInv
<1> SUFFICES ASSUME Init PROVE IInv OBVIOUS
<1> USE InventoryAssumption DEF Init
<1>1. TypeOK
  BY DEF TypeOK, Of
<1>2. OwnItems
  BY DEF OwnItems
<1>3. ASSUME NEW e \in Esims PROVE EsimInv(e)
  BY DEF EsimInv, RowAgrees, InHandStays
<1> QED BY <1>1, <1>2, <1>3 DEF IInv
-----------------------------------------------------------------------------
\* The eSIMs a step does not write.
LEMMA Unwritten ==
  ASSUME NEW e \in Esims, EsimInv(e), UNCHANGED <<status[e], itemOf[e], buyer[e], holders[e]>>,
         \A m \in mailed' : m[1] = e => m \in mailed \/ m[2] \in holders[e],
         e \in raced => e \in raced',
         \A o \in Orders :
           /\ e \in picked'[o] => e \in picked[o] \/ status[e] = "available"
           /\ e \in rleft'[o] => e \in rleft[o] \/ itemOf[e] # NoItem
  PROVE  EsimInv(e)'
<1>1. RowAgrees(e)'
  BY DEF EsimInv, RowAgrees
<1>2. InHandStays(e)'
  BY DEF EsimInv, InHandStays
<1> QED BY <1>1, <1>2 DEF EsimInv

\* Steps that write no eSIM.
LEMMA QuietStep ==
  ASSUME IInv, TypeOK', OwnItems', UNCHANGED <<status, itemOf, buyer, holders>>,
         raced \subseteq raced',
         \A m \in mailed' : m \in mailed \/ m[2] \in holders[m[1]],
         \A o \in Orders, e \in Esims :
           /\ e \in picked'[o] => e \in picked[o] \/ status[e] = "available"
           /\ e \in rleft'[o] => e \in rleft[o] \/ itemOf[e] # NoItem
  PROVE  IInv'
<1>1. ASSUME NEW e \in Esims PROVE EsimInv(e)'
  BY <1>1, Unwritten DEF IInv
<1> QED BY <1>1 DEF IInv

LEMMA FirstIsPart ==
  ASSUME NEW n, NEW s, NEW x \in First(n, s)
  PROVE  x \in s
  BY DEF First

LEMMA ImportKeepsInv ==
  ASSUME IInv, NEW e \in Esims,
         Import(e) \/ Restore(e) \/ Overwrite(e) \/ OverwriteFails(e) \/ Clean(e)
  PROVE  IInv'
<1> USE InventoryAssumption DEF sale, refunds, rows
<1>1. CASE Import(e)
  <2> USE <1>1 DEF Import, Owned
  <2>1. TypeOK'
    BY DEF IInv, TypeOK
  <2>2. ASSUME NEW f \in Esims \ {e} PROVE EsimInv(f)'
    BY <2>2, Unwritten DEF IInv, TypeOK
  <2>3. status'[e] = "available" /\ itemOf'[e] = NoItem /\ buyer'[e] = NoOrder
    BY DEF IInv, TypeOK
  <2>4. EsimInv(e)
    BY DEF IInv
  <2>5. RowAgrees(e)'
    BY <2>3, <2>4 DEF EsimInv, RowAgrees
  <2>6. InHandStays(e)'
    BY <2>3, <2>4 DEF EsimInv, InHandStays, RowAgrees
  <2> QED BY <2>1, <2>2, <2>5, <2>6 DEF IInv, OwnItems, EsimInv
<1>2. CASE Overwrite(e)
  <2> USE <1>2 DEF Overwrite, Owned
  <2>1. TypeOK'
    BY DEF IInv, TypeOK
  <2>2. ASSUME NEW f \in Esims \ {e} PROVE EsimInv(f)'
    BY <2>2, Unwritten DEF IInv, TypeOK
  <2>3. status'[e] = "available" /\ itemOf'[e] = NoItem /\ buyer'[e] = NoOrder
        /\ holders'[e] = {} /\ UNCHANGED <<picked, rleft>>
    BY DEF IInv, TypeOK
  <2>4. RowAgrees(e)'
    BY <2>3 DEF RowAgrees
  <2>5. e \notin raced' => \A o \in Orders : e \notin rleft[o]
    BY DEF InHand
  <2>6. InHandStays(e)'
    BY <2>3, <2>5 DEF InHandStays
  <2> QED BY <2>1, <2>2, <2>4, <2>6 DEF IInv, OwnItems, EsimInv
<1>3. CASE Restore(e) \/ OverwriteFails(e) \/ Clean(e)
  <2> USE <1>3 DEF Restore, OverwriteFails, Clean
  <2>1. TypeOK'
    BY DEF IInv, TypeOK
  <2>2. UNCHANGED <<status, itemOf, buyer, holders, raced, mailed, picked, rleft, todo, done>>
    OBVIOUS
  <2> QED BY <2>1, <2>2, QuietStep DEF IInv, OwnItems
<1> QED BY <1>1, <1>2, <1>3
-----------------------------------------------------------------------------
LEMMA AssignKeepsInv ==
  ASSUME IInv, NEW o \in Orders, Assign(o)
  PROVE  IInv'
<1> USE InventoryAssumption DEF Assign, Owned, refunds
<1>1. PICK e \in First(1, picked[o]), i \in First(1, todo[o]) :
        /\ Owned(e, i, o, "sold")
        /\ picked' = [picked EXCEPT ![o] = @ \ {e}]
        /\ holders' = [holders EXCEPT ![e] = @ \cup {o}]
        /\ raced' = IF InHand(e, o) THEN raced \cup {e} ELSE raced
  OBVIOUS
<1>2. e \in picked[o] /\ e \in Esims /\ i \in Items /\ OrderOf[i] = o /\ i # NoItem
  BY FirstIsPart DEF IInv, TypeOK, OwnItems, Of
<1>3. TypeOK'
  <2>1. /\ status' \in [Esims -> {"none", "available", "sold", "refunded"}]
        /\ itemOf' \in [Esims -> Items \cup {NoItem}]
        /\ buyer' \in [Esims -> Orders \cup {NoOrder}]
    BY <1>1, <1>2 DEF IInv, TypeOK
  <2>2. picked' \in [Orders -> SUBSET Esims] /\ raced' \subseteq Esims
    BY <1>1, <1>2 DEF IInv, TypeOK
  <2>3. holders' \in [Esims -> SUBSET Orders]
    BY <1>1, <1>2 DEF IInv, TypeOK
  <2> QED BY <2>1, <2>2, <2>3 DEF IInv, TypeOK
<1>4. ASSUME NEW f \in Esims \ {e} PROVE EsimInv(f)'
  BY <1>1, <1>4, Unwritten DEF IInv, TypeOK
<1>5. /\ status'[e] = "sold" /\ itemOf'[e] = i /\ buyer'[e] = o
      /\ holders'[e] = holders[e] \cup {o} /\ UNCHANGED <<mailed, rleft>>
      /\ \A p \in Orders : p # o => picked'[p] = picked[p]
      /\ e \notin picked'[o]
  BY <1>1, <1>2 DEF IInv, TypeOK
<1>6. EsimInv(e)
  BY <1>2 DEF IInv
<1>7. RowAgrees(e)'
  BY <1>2, <1>5, <1>6 DEF EsimInv, RowAgrees
<1>8. InHandStays(e)'
  <2> SUFFICES ASSUME e \notin raced' PROVE InHandStays(e)'
    BY DEF InHandStays
  <2>1. e \notin raced /\ \A p \in Orders \ {o} : e \notin picked[p]
    BY <1>1 DEF InHand
  <2>2. holders[e] = {}
    BY <1>2, <1>6, <2>1 DEF EsimInv, InHandStays
  <2> QED BY <1>2, <1>5, <2>1, <2>2 DEF InHandStays
<1> QED BY <1>3, <1>4, <1>7, <1>8 DEF IInv, OwnItems, EsimInv

LEMMA SellingKeepsInv ==
  ASSUME IInv, NEW o \in Orders,
         Find(o) \/ Close(o) \/ ItemFails(o) \/ Mail(o) \/ Stop(o) \/ Resend(o)
  PROVE  IInv'
<1> USE DEF rows, refunds, sale, Fault
<1>1. CASE Find(o)
  <2> USE <1>1 DEF Find
  <2>1. PICK i \in First(1, todo[o]) :
          /\ picked' = [picked EXCEPT ![o] = First(Quantity[i], Stock)]
          /\ full' = [full EXCEPT ![o] = Cardinality(Stock) >= Quantity[i]]
          /\ short' = IF Cardinality(Stock) >= Quantity[i] THEN short ELSE short \cup {i}
    OBVIOUS
  <2>2. i \in Items
    BY FirstIsPart DEF IInv, TypeOK
  <2>3. \A x \in First(Quantity[i], Stock) : x \in Esims /\ status[x] = "available"
    BY FirstIsPart DEF Stock
  <2>4. TypeOK'
    <3>1. picked' \in [Orders -> SUBSET Esims]
      BY <2>1, <2>3 DEF IInv, TypeOK
    <3>2. full' \in [Orders -> BOOLEAN]
      BY <2>1 DEF IInv, TypeOK
    <3> QED BY <2>1, <2>2, <3>1, <3>2 DEF IInv, TypeOK
  <2>5. \A p \in Orders, e \in Esims :
          e \in picked'[p] => e \in picked[p] \/ status[e] = "available"
    BY <2>1, <2>3 DEF IInv, TypeOK
  <2> QED BY <2>4, <2>5, QuietStep DEF IInv, OwnItems
<1>2. CASE Close(o)
  <2> USE <1>2 DEF Close
  <2>1. PICK i \in First(1, todo[o]) :
          /\ istatus' = [istatus EXCEPT ![i] = IF full[o] THEN "completed" ELSE "pending"]
          /\ done' = [done EXCEPT ![o] = IF full[o] THEN @ \cup {i} ELSE @]
          /\ todo' = [todo EXCEPT ![o] = @ \ {i}]
    OBVIOUS
  <2>2. i \in todo[o] /\ i \in Items /\ i \in Of(o)
    BY FirstIsPart DEF IInv, TypeOK, OwnItems
  <2>3. TypeOK'
    <3>1. istatus' \in [Items -> {"pending", "completed"}]
      BY <2>1, <2>2 DEF IInv, TypeOK
    <3>2. done' \in [Orders -> SUBSET Items] /\ todo' \in [Orders -> SUBSET Items]
      BY <2>1, <2>2 DEF IInv, TypeOK
    <3> QED BY <3>1, <3>2 DEF IInv, TypeOK
  <2>4. OwnItems'
    BY <2>1, <2>2 DEF IInv, TypeOK, OwnItems, Of
  <2> QED BY <2>3, <2>4, QuietStep
<1>3. CASE ItemFails(o)
  <2> USE <1>3 DEF ItemFails
  <2>1. TypeOK'
    BY DEF IInv, TypeOK
  <2>2. OwnItems'
    BY DEF IInv, TypeOK, OwnItems, Of
  <2>3. \A p \in Orders : picked'[p] \subseteq picked[p]
    BY DEF IInv, TypeOK
  <2> QED BY <2>1, <2>2, <2>3, QuietStep
<1>4. CASE Mail(o) \/ Resend(o)
  <2> USE <1>4 DEF Mail, Resend
  <2>1. \A m \in mailed' : m \in mailed \/ \E e \in Esims : m = <<e, o>> /\ itemOf[e] \in Of(o)
    BY DEF Mails, IInv, OwnItems
  <2>2. \A m \in mailed' : m \in mailed \/ m[2] \in holders[m[1]]
    <3> SUFFICES ASSUME NEW e \in Esims, itemOf[e] \in Of(o) PROVE o \in holders[e]
      BY <2>1
    <3>1. itemOf[e] # NoItem /\ OrderOf[itemOf[e]] = o
      BY InventoryAssumption DEF Of
    <3> QED BY <3>1 DEF IInv, EsimInv, RowAgrees
  <2>3. TypeOK'
    <3>1. mailed' \subseteq Esims \X Orders
      BY <2>1 DEF IInv, TypeOK
    <3>2. at' \in [Orders -> {"find", "assign", "over"}] /\ hurt' \subseteq Orders
      BY DEF IInv, TypeOK
    <3> QED BY <3>1, <3>2 DEF IInv, TypeOK
  <2> QED BY <2>2, <2>3, QuietStep DEF IInv, OwnItems
<1>5. CASE Stop(o)
  <2> USE <1>5 DEF Stop
  <2>1. TypeOK'
    BY DEF IInv, TypeOK
  <2>2. \A p \in Orders : picked'[p] \subseteq picked[p]
    BY DEF IInv, TypeOK
  <2> QED BY <2>1, <2>2, QuietStep DEF IInv, OwnItems
<1> QED BY <1>1, <1>2, <1>3, <1>4, <1>5
-----------------------------------------------------------------------------
LEMMA RecallSaveKeepsInv ==
  ASSUME IInv, NEW o \in Orders, RecallSave(o)
  PROVE  IInv'
<1> USE InventoryAssumption DEF RecallSave, Owned, sale
<1>1. PICK e \in First(1, rleft[o]) :
        /\ Owned(e, NoItem, NoOrder, "refunded")
        /\ rleft' = [rleft EXCEPT ![o] = @ \ {e}]
        /\ raced' = IF InHand(e, o) THEN raced \cup {e} ELSE raced
  OBVIOUS
<1>2. e \in rleft[o] /\ e \in Esims
  BY FirstIsPart DEF IInv, TypeOK
<1>3. TypeOK'
  BY <1>1, <1>2 DEF IInv, TypeOK
<1>4. ASSUME NEW f \in Esims \ {e} PROVE EsimInv(f)'
  BY <1>1, <1>4, Unwritten DEF IInv, TypeOK
<1>5. /\ status'[e] = "refunded" /\ itemOf'[e] = NoItem /\ buyer'[e] = NoOrder
      /\ UNCHANGED <<mailed, picked, holders>>
      /\ \A p \in Orders : p # o => rleft'[p] = rleft[p]
      /\ e \notin rleft'[o]
  BY <1>1, <1>2 DEF IInv, TypeOK
<1>6. EsimInv(e)
  BY <1>2 DEF IInv
<1>7. RowAgrees(e)'
  BY <1>5, <1>6 DEF EsimInv, RowAgrees
<1>8. InHandStays(e)'
  <2> SUFFICES ASSUME e \notin raced' PROVE InHandStays(e)'
    BY DEF InHandStays
  <2>1. e \notin raced /\ \A p \in Orders \ {o} : e \notin picked[p] /\ e \notin rleft[p]
    BY <1>1 DEF InHand
  <2>2. e \notin picked[o]
    BY <1>2, <1>6, <2>1 DEF EsimInv, RowAgrees, InHandStays
  <2> QED BY <1>5, <1>6, <2>1, <2>2 DEF EsimInv, InHandStays
<1> QED BY <1>3, <1>4, <1>7, <1>8 DEF IInv, OwnItems, EsimInv

LEMMA RefundKeepsInv ==
  ASSUME IInv, NEW o \in Orders, Refund(o) \/ RecallRead(o) \/ RecallGone(o) \/ RecallFails(o)
  PROVE  IInv'
<1> USE DEF rows, sale, Fault
<1>1. CASE Refund(o)
  <2> USE <1>1 DEF Refund
  <2>1. TypeOK'
    BY DEF IInv, TypeOK, Of
  <2> QED BY <2>1, QuietStep DEF IInv, OwnItems
<1>2. CASE RecallRead(o)
  <2> USE <1>2 DEF RecallRead
  <2>1. PICK i \in First(1, rtodo[o]) :
          /\ rleft' = [rleft EXCEPT ![o] = {e \in Esims : itemOf[e] = i /\ e \notin deleted}]
          /\ rtodo' = [rtodo EXCEPT ![o] = @ \ {i}]
    OBVIOUS
  <2>2. i \in Items /\ i # NoItem
    BY FirstIsPart, InventoryAssumption DEF IInv, TypeOK
  <2>3. TypeOK'
    BY <2>1 DEF IInv, TypeOK
  <2>4. \A p \in Orders, e \in Esims : e \in rleft'[p] => e \in rleft[p] \/ itemOf[e] # NoItem
    BY <2>1, <2>2 DEF IInv, TypeOK
  <2> QED BY <2>3, <2>4, QuietStep DEF IInv, OwnItems
<1>3. CASE RecallGone(o) \/ RecallFails(o)
  <2> USE <1>3 DEF RecallGone, RecallFails
  <2>1. TypeOK'
    BY DEF IInv, TypeOK
  <2>2. \A p \in Orders : rleft'[p] \subseteq rleft[p]
    BY DEF IInv, TypeOK
  <2> QED BY <2>1, <2>2, QuietStep DEF IInv, OwnItems
<1> QED BY <1>1, <1>2, <1>3

LEMMA MarkKeepsInv ==
  ASSUME IInv, NEW o \in Orders, MarkRefunded(o)
  PROVE  IInv'
<1> USE DEF MarkRefunded, sale, Fault
<1>1. /\ \A e \in Esims : \/ status'[e] = status[e]
                          \/ status'[e] = "refunded" /\ itemOf[e] \in Items
      /\ UNCHANGED <<itemOf, buyer, mailed, picked, rleft, holders, raced>>
  <2>1. CASE status' = [e \in Esims |-> IF itemOf[e] \in Of(o) THEN "refunded" ELSE status[e]]
    <3>1. Of(o) \subseteq Items
      BY DEF Of
    <3> QED BY <2>1, <3>1
  <2>2. CASE UNCHANGED status
    BY <2>2
  <2> QED BY <2>1, <2>2
<1>2. TypeOK'
  <2>1. status' \in [Esims -> {"none", "available", "sold", "refunded"}]
    BY DEF IInv, TypeOK
  <2>2. refund' \in [Orders -> {"none", "recall", "done"}] /\ hurt' \subseteq Orders
    BY DEF IInv, TypeOK
  <2> QED BY <2>1, <2>2 DEF IInv, TypeOK
<1>3. ASSUME NEW e \in Esims PROVE EsimInv(e)'
  <2>1. EsimInv(e)
    BY DEF IInv
  <2>2. CASE status'[e] = status[e]
    BY <1>1, <2>1, <2>2, Unwritten
  <2>3. CASE status'[e] = "refunded" /\ itemOf[e] \in Items
    <3>1. itemOf[e] # NoItem
      BY <2>3, InventoryAssumption
    <3>2. RowAgrees(e)'
      BY <1>1, <2>1, <2>3 DEF EsimInv, RowAgrees
    <3>3. InHandStays(e)'
      BY <1>1, <2>1, <2>3, <3>1 DEF EsimInv, RowAgrees, InHandStays
    <3> QED BY <3>2, <3>3 DEF EsimInv
  <2> QED BY <1>1, <2>2, <2>3
<1> QED BY <1>2, <1>3 DEF IInv, OwnItems

LEMMA NextKeepsInv == IInv /\ [Next]_vars => IInv'
<1> SUFFICES ASSUME IInv, [Next]_vars PROVE IInv' OBVIOUS
<1>1. CASE UNCHANGED vars
  <2> USE <1>1 DEF vars, rows, sale, refunds
  <2>1. TypeOK'
    BY DEF IInv, TypeOK
  <2> QED BY <2>1, QuietStep DEF IInv, OwnItems
<1>2. ASSUME NEW e \in Esims,
             Import(e) \/ Restore(e) \/ Overwrite(e) \/ OverwriteFails(e) \/ Clean(e)
      PROVE  IInv'
  BY <1>2, ImportKeepsInv
<1>3. ASSUME NEW o \in Orders,
             \/ Selling(o) \/ ItemFails(o) \/ Stop(o) \/ Resend(o)
             \/ Refund(o) \/ Refunding(o) \/ RecallGone(o) \/ RecallFails(o)
      PROVE  IInv'
  BY <1>3, AssignKeepsInv, SellingKeepsInv, RecallSaveKeepsInv, RefundKeepsInv, MarkKeepsInv
     DEF Selling, Refunding
<1> QED BY <1>1, <1>2, <1>3 DEF Next

\* For any stock, any orders and any interleaving of their handlers, the invariant holds.
THEOREM InventoryInvariant == Spec => []IInv
  BY InitInv, NextKeepsInv, PTL DEF Spec

\* Every variable keeps its type.
THEOREM InventoryTypes == Spec => []TypeOK
<1>1. IInv => TypeOK
  BY DEF IInv
<1> QED BY <1>1, InventoryInvariant, PTL

\* What findAvailableByPlanId returns has no owner, although the query drops the filter on it.
THEOREM StockHasNoOwner == Spec => []AvailableIsFree
<1>1. IInv => AvailableIsFree
  BY DEF IInv, EsimInv, RowAgrees, AvailableIsFree
<1> QED BY <1>1, InventoryInvariant, PTL

\* An eSIM that no two handlers wrote is sold to one order, and mailed to nobody else.
THEOREM SoldToOneOrder == Spec => []SoldOnce
<1>1. IInv => SoldOnce
  <2> SUFFICES ASSUME IInv, NEW e \in Esims \ raced
               PROVE  /\ Cardinality(holders[e]) <= 1
                      /\ \A m \in mailed : m[1] = e => m[2] \in holders[e]
    BY DEF SoldOnce
  <2>1. EsimInv(e)
    BY DEF IInv
  <2>2. CASE holders[e] = {}
    BY <2>1, <2>2, FS_EmptySet DEF EsimInv, RowAgrees
  <2>3. CASE holders[e] # {}
    <3>1. PICK o \in holders[e] : TRUE
      BY <2>3
    <3>2. holders[e] = {o}
      BY <2>1, <3>1 DEF EsimInv, InHandStays
    <3>3. Cardinality(holders[e]) = 1
      BY <3>2, FS_Singleton
    <3> QED BY <2>1, <3>3 DEF EsimInv, RowAgrees
  <2> QED BY <2>2, <2>3
<1> QED BY <1>1, InventoryInvariant, PTL

\* A refunded eSIM comes back only by an import, or by an order that had found it before.
THEOREM RefundsAreNotSold == Spec => RefundedIsNotSold
<1> DEFINE Step == \A e \in Esims : status[e] = "refunded" /\ status'[e] # "refunded" =>
                     e \in importing \cup raced'
<1>1. IInv /\ [Next]_vars => [Step]_vars
  <2> SUFFICES ASSUME IInv, Next, NEW e \in Esims,
                      status[e] = "refunded", status'[e] # "refunded"
               PROVE  e \in importing \cup raced'
    BY DEF vars
  <2>1. CASE \E f \in Esims : Import(f) \/ Overwrite(f)
    BY <2>1 DEF Import, Overwrite, Owned, IInv, TypeOK
  <2>2. CASE \E o \in Orders : Assign(o)
    <3>1. PICK o \in Orders : Assign(o)
      BY <2>2
    <3>2. PICK f \in First(1, picked[o]), i \in First(1, todo[o]) :
            Owned(f, i, o, "sold") /\ raced \subseteq raced'
      BY <3>1 DEF Assign
    <3>3. e = f /\ e \in picked[o]
      BY <3>2, FirstIsPart DEF Owned, IInv, TypeOK
    <3> QED BY <3>2, <3>3 DEF IInv, EsimInv, InHandStays
  <2>3. CASE \E o \in Orders : RecallSave(o) \/ MarkRefunded(o)
    BY <2>3 DEF RecallSave, MarkRefunded, Owned, IInv, TypeOK
  <2>4. CASE UNCHANGED status
    BY <2>4
  <2> QED BY <2>1, <2>2, <2>3, <2>4
     DEF Next, Restore, OverwriteFails, Clean, Selling, Find, Close, Mail, ItemFails, Stop,
         Resend, Refund, Refunding, RecallRead, RecallGone, RecallFails, rows
<1> QED BY <1>1, InventoryInvariant, PTL DEF Spec, RefundedIsNotSold
-----------------------------------------------------------------------------
(* How many eSIMs First takes.                                             *)

\* A set of naturals has a least element.
LEMMA LeastNat ==
  ASSUME NEW N, N \subseteq Nat, N # {}
  PROVE  \E n \in N : \A m \in N : n <= m
<1>1. PICK R : R = OpToRel(<, Nat)
  OBVIOUS
<1>2. \A m, n \in Nat : m < n => <<m, n>> \in R
  BY <1>1 DEF OpToRel
<1>3. PICK n \in N : \A m \in N : <<m, n>> \notin R
  BY <1>1, NatLessThanWellFounded, WFMin
<1>4. ASSUME NEW m \in N
      PROVE  n <= m
  <2>1. m \in Nat /\ n \in Nat /\ ~(m < n)
    BY <1>2, <1>3
  <2> QED BY <2>1
<1> QED BY <1>4

\* What comes before x in s is finite.
Below(x, s) == {y \in s : y < x}

LEMMA BelowIsFinite ==
  ASSUME NEW s, s \subseteq Nat, NEW x \in s
  PROVE  IsFiniteSet(Below(x, s)) /\ Cardinality(Below(x, s)) \in Nat
<1>1. Below(x, s) \in SUBSET Nat /\ x \in Nat /\ \A y \in Below(x, s) : y <= x
  <2>1. x \in Nat /\ Below(x, s) \in SUBSET Nat
    BY DEF Below
  <2>2. ASSUME NEW y \in Below(x, s) PROVE y <= x
    <3>1. y \in Nat /\ x \in Nat /\ y < x
      BY DEF Below
    <3> QED BY <3>1
  <2> QED BY <2>1, <2>2
<1>2. IsFiniteSet(Below(x, s))
  BY <1>1, FS_BoundedSetOfNaturals
<1> QED BY <1>2, FS_CardinalityType

\* Only one element has nothing before it.
LEMMA FirstOne ==
  ASSUME NEW s, s \subseteq Nat, NEW x \in First(1, s), NEW y \in First(1, s)
  PROVE  x = y
<1>1. ASSUME NEW u \in First(1, s), NEW v \in First(1, s), u < v
      PROVE  FALSE
  <2>1. u \in Below(v, s) /\ v \in s /\ Cardinality(Below(v, s)) < 1
    BY <1>1 DEF First, Below
  <2>2. IsFiniteSet(Below(v, s)) /\ Cardinality(Below(v, s)) = 0
    <3>1. IsFiniteSet(Below(v, s)) /\ Cardinality(Below(v, s)) \in Nat
      BY <2>1, BelowIsFinite
    <3> QED BY <2>1, <3>1
  <2> QED BY <2>1, <2>2, FS_EmptySet
<1>2. x \in Nat /\ y \in Nat
  BY FirstIsPart
<1>3. x < y \/ y < x \/ x = y
  BY <1>2
<1> QED BY <1>1, <1>3

\* As many as are asked for come first, when there are as many.
LEMMA FirstCard ==
  ASSUME NEW s, s \subseteq Nat, IsFiniteSet(s), NEW n \in Nat, n <= Cardinality(s)
  PROVE  Cardinality(First(n, s)) = n
<1> DEFINE Wrong == {k \in Nat : k <= Cardinality(s) /\ Cardinality(First(k, s)) # k}
<1>0. \A k \in Nat, x \in s : x \in First(k, s) <=> Cardinality(Below(x, s)) < k
  BY DEF First, Below
<1>1. SUFFICES ASSUME Wrong # {} PROVE FALSE
  OBVIOUS
<1>2. PICK m \in Wrong : \A k \in Wrong : m <= k
  BY <1>1, LeastNat
<1>3. Cardinality(s) \in Nat
  BY FS_CardinalityType
<1>4. CASE m = 0
  <2>1. First(m, s) = {}
    <3>1. ASSUME NEW x \in First(m, s) PROVE FALSE
      <4>1. x \in s /\ Cardinality(Below(x, s)) < 0
        BY <1>0, <1>4, <3>1, FirstIsPart
      <4>2. Cardinality(Below(x, s)) \in Nat
        BY <4>1, BelowIsFinite
      <4> QED BY <4>1, <4>2
    <3> QED BY <3>1
  <2> QED BY <1>4, <2>1, FS_EmptySet
<1>5. CASE m # 0
  <2>1. PICK k \in Nat : m = k + 1
    <3>1. m \in Nat /\ m - 1 \in Nat /\ m = (m - 1) + 1
      BY <1>5
    <3> QED BY <3>1
  <2>2. k \notin Wrong /\ k < Cardinality(s)
    <3>1. ~(m <= k) /\ k <= Cardinality(s)
      BY <1>3, <2>1
    <3> QED BY <1>2, <1>3, <2>1, <3>1
  <2> DEFINE F == First(k, s)
  <2>3. Cardinality(F) = k /\ F \in SUBSET s /\ IsFiniteSet(F)
    <3>1. F \in SUBSET s
      BY FirstIsPart
    <3> QED BY <1>3, <2>2, <3>1, FS_Subset
  <2>4. s \ F # {} /\ s \ F \subseteq Nat
    <3>1. ASSUME s \ F = {} PROVE FALSE
      <4>1. s = F
        BY <2>3, <3>1
      <4>2. Cardinality(s) = k /\ k < Cardinality(s)
        BY <2>2, <2>3, <4>1
      <4> QED BY <4>2
    <3> QED BY <3>1
  <2>5. PICK x \in s \ F : \A y \in s \ F : x <= y
    BY <2>4, LeastNat
  <2>6. Below(x, s) = F
    <3>1. ASSUME NEW y \in F PROVE y \in Below(x, s)
      <4>0. x \in Nat /\ y \in Nat /\ y # x /\ y \in s
        BY <2>3
      <4>1. SUFFICES ASSUME x < y PROVE FALSE
        BY <4>0 DEF Below
      <4>2. Below(x, s) \in SUBSET Below(y, s)
        <5>1. ASSUME NEW z \in s, z < x PROVE z < y
          <6>1. z \in Nat
            OBVIOUS
          <6> QED BY <4>0, <4>1, <5>1, <6>1
        <5> QED BY <5>1 DEF Below
      <4>3. Cardinality(Below(x, s)) <= Cardinality(Below(y, s))
        BY <4>0, <4>2, BelowIsFinite, FS_Subset
      <4>4. Cardinality(Below(y, s)) < k /\ ~(Cardinality(Below(x, s)) < k)
        BY <1>0, <4>0
      <4>5. Cardinality(Below(y, s)) \in Nat /\ Cardinality(Below(x, s)) \in Nat
        BY <4>0, BelowIsFinite
      <4> QED BY <4>3, <4>4, <4>5
    <3>2. ASSUME NEW y \in Below(x, s) PROVE y \in F
      <4>1. y \in s /\ y < x /\ y \in Nat /\ x \in Nat
        BY DEF Below
      <4>2. ~(x <= y)
        BY <4>1
      <4> QED BY <2>5, <4>1, <4>2
    <3> QED BY <3>1, <3>2
  <2>7. First(m, s) = F \cup {x}
    <3>1. ASSUME NEW z \in s PROVE z \in First(m, s) <=> z \in F \cup {x}
      <4> DEFINE c == Cardinality(Below(z, s))
      <4>0. c \in Nat /\ IsFiniteSet(Below(z, s))
        BY BelowIsFinite
      <4>1. z \in F <=> c < k
        BY <1>0
      <4>2. z \in First(m, s) <=> c < k + 1
        BY <1>0, <2>1
      <4>3. CASE z \in F
        BY <4>0, <4>1, <4>2, <4>3
      <4>4. CASE z = x
        BY <2>3, <2>6, <4>0, <4>2, <4>4
      <4>5. CASE z \notin F /\ z # x
        <5>1. x < z /\ x \in Nat /\ z \in Nat
          <6>1. x <= z /\ x \in Nat /\ z \in Nat /\ x # z
            BY <2>5, <4>5
          <6> QED BY <6>1
        <5>2. F \cup {x} \in SUBSET Below(z, s)
          <6>1. ASSUME NEW y \in F PROVE y \in s /\ y < z
            <7>1. y \in s /\ y < x /\ y \in Nat
              BY <2>6 DEF Below
            <7> QED BY <5>1, <7>1
          <6> QED BY <5>1, <6>1 DEF Below
        <5>3. Cardinality(F \cup {x}) = k + 1
          <6>1. x \notin F /\ IsFiniteSet(F)
            BY <2>3
          <6> HIDE DEF F
          <6>2. Cardinality(F \cup {x}) = Cardinality(F) + 1
            BY <6>1, FS_AddElement
          <6> QED BY <2>3, <6>2
        <5>4. k + 1 <= c
          BY <4>0, <5>2, <5>3, FS_Subset
        <5> HIDE DEF c
        <5> QED BY <4>0, <4>2, <4>5, <5>4
      <4> QED BY <4>3, <4>4, <4>5
    <3> QED BY <2>3, <3>1, FirstIsPart
  <2>8. Cardinality(First(m, s)) = m
    BY <2>1, <2>3, <2>5, <2>7, FS_AddElement
  <2> QED BY <2>8
<1> QED BY <1>4, <1>5
-----------------------------------------------------------------------------
(* What the items of an order got.                                          *)

\* The hands of an order are empty between its items, and what it counts as done is.
OrderRests(o) ==
  /\ at[o] # "assign" => picked[o] = {}
  /\ done[o] \cap todo[o] = {}
  /\ \A i \in Of(o) : i \in done[o] <=> istatus[i] = "completed"
  /\ refund[o] = "none" => rleft[o] = {}
  /\ rtodo[o] \subseteq Of(o)

\* Nobody is about to sell an eSIM that is soft-deleted or being restored, and what a refund
\* has in hand is its order's.
RowRests(e) ==
  /\ e \in deleted => e \notin importing
  /\ e \in deleted \cup importing =>
       status[e] \in {"sold", "refunded"} /\ \A o \in Orders : e \notin picked[o]
  /\ e \notin raced => \A o \in Orders : e \in rleft[o] => itemOf[e] \in Of(o)

\* An item whose turn has not come has nothing, and the nightly job leaves the eSIMs of a
\* running order alone.
Running(o) ==
  at[o] # "over" =>
    /\ \A e \in Esims : itemOf[e] \in todo[o] => at[o] = "assign" /\ itemOf[e] \in First(1, todo[o])
    /\ o \notin hurt => \A e \in Esims : o \in holders[e] =>
         (at[o] = "assign" \/ todo[o] # Of(o)) /\ e \notin deleted \cup importing

Untouched(o) == \A e \in raced : o \notin holders[e]

Undisturbed(o) == at[o] # "over" /\ o \notin hurt /\ refund[o] = "none" /\ Untouched(o)

Sold(i) == {e \in Esims : itemOf[e] = i /\ status[e] = "sold"}

\* As many eSIMs are sold to an item, or about to be, as were bought, or it is short.
Served(o) ==
  Undisturbed(o) => \A i \in Of(o) :
    /\ i \in done[o] => Cardinality(Sold(i)) = Quantity[i]
    /\ i \notin done[o] \cup todo[o] => i \in short
    /\ at[o] = "assign" /\ i \in First(1, todo[o]) =>
         IF full[o] THEN Cardinality(Sold(i) \cup picked[o]) = Quantity[i] ELSE i \in short

-----------------------------------------------------------------------------
\* What a step of another handler may do to an order.
Elsewhere(q) ==
  /\ UNCHANGED <<at[q], todo[q], done[q], picked[q], full[q]>>
  /\ \A i \in Of(q) : istatus'[i] = istatus[i]
  /\ short \subseteq short' /\ hurt \subseteq hurt'
  /\ refund'[q] = "none" => rleft'[q] = {}
  /\ rtodo'[q] \subseteq Of(q)
  /\ \A e \in Esims :
       /\ q \in holders'[e] => q \in holders[e]
       /\ itemOf'[e] \in Of(q) => itemOf'[e] = itemOf[e]
       /\ at[q] # "over" /\ q \notin hurt /\ q \in holders[e] =>
            (e \in deleted' \cup importing' => e \in deleted \cup importing)
  /\ Undisturbed(q)' => Undisturbed(q) /\ \A i \in Of(q) : Sold(i)' = Sold(i)

LEMMA ElsewhereRests ==
  ASSUME NEW q \in Orders, OrderRests(q), Elsewhere(q)
  PROVE  OrderRests(q)'
  BY DEF OrderRests, Elsewhere, Of

LEMMA ElsewhereRuns ==
  ASSUME NEW q \in Orders, todo[q] \subseteq Of(q), Running(q), Elsewhere(q)
  PROVE  Running(q)'
<1> SUFFICES ASSUME at[q] # "over"
             PROVE  Running(q)'
  BY DEF Running, Elsewhere
<1>1. ASSUME NEW e \in Esims, itemOf'[e] \in todo'[q]
      PROVE  at'[q] = "assign" /\ itemOf'[e] \in First(1, todo'[q])
  <2>1. itemOf'[e] \in Of(q) /\ todo'[q] = todo[q] /\ at'[q] = at[q]
    BY <1>1 DEF Elsewhere
  <2>2. itemOf'[e] = itemOf[e]
    BY <2>1 DEF Elsewhere
  <2> QED BY <1>1, <2>1, <2>2 DEF Running
<1>2. ASSUME q \notin hurt', NEW e \in Esims, q \in holders'[e]
      PROVE  (at'[q] = "assign" \/ todo'[q] # Of(q)) /\ e \notin (deleted \cup importing)'
  <2>1. q \notin hurt /\ q \in holders[e]
    BY <1>2 DEF Elsewhere
  <2>2. (at[q] = "assign" \/ todo[q] # Of(q)) /\ e \notin deleted \cup importing
    BY <2>1 DEF Running
  <2> QED BY <2>1, <2>2 DEF Elsewhere
<1>3. Of(q)' = Of(q)
  BY DEF Of
<1>4. First(1, todo[q])' = First(1, todo'[q])
  BY DEF First
<1> QED BY <1>1, <1>2, <1>3, <1>4 DEF Running

LEMMA ElsewhereServes ==
  ASSUME NEW q \in Orders, Served(q), Elsewhere(q)
  PROVE  Served(q)'
<1> SUFFICES ASSUME Undisturbed(q)', NEW i \in Of(q)
             PROVE  /\ i \in done'[q] => Cardinality(Sold(i)') = Quantity[i]
                    /\ i \notin done'[q] \cup todo'[q] => i \in short'
                    /\ at'[q] = "assign" /\ i \in First(1, todo'[q]) =>
                         IF full'[q] THEN Cardinality(Sold(i)' \cup picked'[q]) = Quantity[i]
                         ELSE i \in short'
  <2>1. Of(q)' = Of(q) /\ First(1, todo[q])' = First(1, todo'[q])
    BY DEF Of, First
  <2> QED BY <2>1 DEF Served
<1>1. Undisturbed(q) /\ Sold(i)' = Sold(i)
  BY DEF Elsewhere
<1>2. /\ i \in done[q] => Cardinality(Sold(i)) = Quantity[i]
      /\ i \notin done[q] \cup todo[q] => i \in short
      /\ at[q] = "assign" /\ i \in First(1, todo[q]) =>
           IF full[q] THEN Cardinality(Sold(i) \cup picked[q]) = Quantity[i] ELSE i \in short
  BY <1>1 DEF Served
<1>3. UNCHANGED <<at[q], todo[q], done[q], picked[q], full[q]>> /\ short \subseteq short'
  BY DEF Elsewhere
<1> QED BY <1>1, <1>2, <1>3

OrderSale(o) == OrderRests(o) /\ Running(o) /\ Served(o)

LEMMA ElsewhereKeeps ==
  ASSUME NEW q \in Orders, IInv, OrderSale(q), Elsewhere(q)
  PROVE  OrderSale(q)'
<1>1. todo[q] \subseteq Of(q)
  BY DEF IInv, OwnItems
<1> QED BY <1>1, ElsewhereRests, ElsewhereRuns, ElsewhereServes DEF OrderSale

\* Steps that write no eSIM of an order leave what it was sold.
LEMMA SoldStays ==
  ASSUME NEW q \in Orders,
         \A e \in Esims : (itemOf[e] \in Of(q) \/ itemOf'[e] \in Of(q)) =>
           itemOf'[e] = itemOf[e] /\ status'[e] = status[e]
  PROVE  \A i \in Of(q) : Sold(i)' = Sold(i)
<1>1. ASSUME NEW i \in Of(q), NEW e \in Esims
      PROVE  itemOf'[e] = i /\ status'[e] = "sold" <=> itemOf[e] = i /\ status[e] = "sold"
  OBVIOUS
<1> QED BY <1>1 DEF Sold

SaleInv == (\A o \in Orders : OrderSale(o)) /\ \A e \in Esims : RowRests(e)

LEMMA OwnerHolds ==
  ASSUME IInv, NEW q \in Orders, NEW e \in Esims, itemOf[e] \in Of(q)
  PROVE  q \in holders[e] /\ itemOf[e] # NoItem /\ itemOf[e] \in Items
<1>1. itemOf[e] # NoItem /\ OrderOf[itemOf[e]] = q /\ itemOf[e] \in Items
  BY InventoryAssumption DEF Of
<1> QED BY <1>1 DEF IInv, EsimInv, RowAgrees

\* Steps that are nobody's sale or refund.
LEMMA ImportElsewhere ==
  ASSUME IInv, SaleInv, NEW e \in Esims, NEW q \in Orders,
         Import(e) \/ Restore(e) \/ Overwrite(e) \/ OverwriteFails(e) \/ Clean(e)
  PROVE  Elsewhere(q)
<1> USE InventoryAssumption DEF sale, refunds, rows
<1>0. OrderSale(q) /\ OrderRests(q) /\ Running(q) /\ NoItem \notin Of(q)
  BY DEF SaleInv, OrderSale, Of
<1>1. /\ UNCHANGED <<at[q], todo[q], done[q], picked[q], full[q], refund[q], rleft[q], rtodo[q]>>
      /\ UNCHANGED <<istatus, short, hurt>>
  BY DEF Import, Restore, Overwrite, OverwriteFails, Clean
<1>2. refund'[q] = "none" => rleft'[q] = {}
  BY <1>0, <1>1 DEF OrderRests
<1>3. rtodo'[q] \subseteq Of(q)
  BY <1>0, <1>1 DEF OrderRests
<1>4. CASE Import(e)
  <2> USE <1>4 DEF Import, Owned
  <2>1. itemOf[e] = NoItem /\ itemOf'[e] = NoItem /\ \A f \in Esims : f # e =>
          itemOf'[f] = itemOf[f] /\ status'[f] = status[f]
    BY DEF IInv, TypeOK, EsimInv, RowAgrees
  <2>2. \A i \in Of(q) : Sold(i)' = Sold(i)
    BY <1>0, <2>1, SoldStays
  <2>3. UNCHANGED <<holders, deleted, importing, raced>>
    OBVIOUS
  <2>4. Undisturbed(q)' => Undisturbed(q)
    BY <1>1, <2>3 DEF Undisturbed, Untouched
  <2> QED BY <1>0, <1>1, <1>2, <1>3, <2>1, <2>2, <2>3, <2>4 DEF Elsewhere
<1>5. CASE Overwrite(e)
  <2> USE <1>5 DEF Overwrite, Owned
  <2>1. itemOf'[e] = NoItem /\ \A f \in Esims : f # e =>
          itemOf'[f] = itemOf[f] /\ status'[f] = status[f]
    BY DEF IInv, TypeOK
  <2>2. /\ holders'[e] = {} /\ \A f \in Esims : f # e => holders'[f] = holders[f]
        /\ raced \subseteq raced' /\ deleted' = deleted /\ importing' \subseteq importing
    BY DEF IInv, TypeOK
  <2>3. Undisturbed(q)' => Undisturbed(q) /\ \A i \in Of(q) : Sold(i)' = Sold(i)
    <3> SUFFICES ASSUME Undisturbed(q)'
                 PROVE  Undisturbed(q) /\ \A i \in Of(q) : Sold(i)' = Sold(i)
      OBVIOUS
    <3>1. at[q] # "over" /\ q \notin hurt /\ refund[q] = "none"
      BY <1>1 DEF Undisturbed
    <3>2. q \notin holders[e]
      BY <1>0, <3>1 DEF Running
    <3>3. Untouched(q)
      <4>1. ASSUME NEW f \in raced PROVE q \notin holders[f]
        <5>1. f \in raced' /\ f \in Esims
          BY <2>2 DEF IInv, TypeOK
        <5>2. q \notin holders'[f]
          BY <5>1 DEF Undisturbed, Untouched
        <5> QED BY <2>2, <3>2, <5>1, <5>2
      <4> QED BY <4>1 DEF Untouched
    <3>4. itemOf[e] \notin Of(q)
      BY <3>2, OwnerHolds
    <3>5. \A i \in Of(q) : Sold(i)' = Sold(i)
      BY <1>0, <2>1, <3>4, SoldStays
    <3> QED BY <3>1, <3>3, <3>5 DEF Undisturbed
  <2> QED BY <1>0, <1>1, <1>2, <1>3, <2>1, <2>2, <2>3 DEF Elsewhere
<1>6. CASE Restore(e) \/ OverwriteFails(e) \/ Clean(e)
  <2>1. UNCHANGED <<status, itemOf, holders, raced>>
    BY <1>6 DEF Restore, OverwriteFails, Clean
  <2>2. \A i \in Of(q) : Sold(i)' = Sold(i)
    BY <2>1, SoldStays
  <2>3. Undisturbed(q)' => Undisturbed(q)
    BY <1>1, <2>1 DEF Undisturbed, Untouched
  <2>4. ASSUME at[q] # "over", q \notin hurt, NEW f \in Esims, q \in holders[f],
               f \in deleted' \cup importing'
        PROVE  f \in deleted \cup importing
    <3>1. CASE Restore(e) \/ OverwriteFails(e)
      BY <2>4, <3>1 DEF Restore, OverwriteFails
    <3>2. CASE Clean(e)
      <4>1. at[q] = "assign" \/ todo[q] # Of(q)
        BY <1>0, <2>4 DEF Running
      <4> QED BY <2>4, <3>2, <4>1 DEF Clean
    <3> QED BY <1>6, <3>1, <3>2
  <2> QED BY <1>0, <1>1, <1>2, <1>3, <2>1, <2>2, <2>3, <2>4 DEF Elsewhere
<1> QED BY <1>4, <1>5, <1>6

\* Another order is sold an eSIM.
LEMMA AssignElsewhere ==
  ASSUME IInv, SaleInv, NEW o \in Orders, NEW q \in Orders, q # o, Assign(o)
  PROVE  Elsewhere(q)
<1> USE InventoryAssumption DEF Assign, Owned, refunds
<1>0. OrderRests(q)
  BY DEF SaleInv, OrderSale
<1>1. PICK e \in First(1, picked[o]), i \in First(1, todo[o]) :
        /\ Owned(e, i, o, "sold")
        /\ picked' = [picked EXCEPT ![o] = @ \ {e}]
        /\ holders' = [holders EXCEPT ![e] = @ \cup {o}]
        /\ raced' = IF InHand(e, o) THEN raced \cup {e} ELSE raced
  OBVIOUS
<1>2. e \in picked[o] /\ e \in Esims /\ i \in Of(o) /\ i \notin Of(q)
  BY FirstIsPart DEF IInv, TypeOK, OwnItems, Of
<1>3. itemOf'[e] = i /\ \A f \in Esims : f # e =>
        itemOf'[f] = itemOf[f] /\ status'[f] = status[f]
  BY <1>1, <1>2 DEF IInv, TypeOK
<1>4. /\ UNCHANGED <<at, todo, done, full, refund, rleft, rtodo, istatus, short, hurt,
                      deleted, importing>>
      /\ picked'[q] = picked[q]
  BY <1>1 DEF IInv, TypeOK
<1>5. raced \subseteq raced' /\ \A f \in Esims : q \in holders'[f] <=> q \in holders[f]
  BY <1>1, <1>2 DEF IInv, TypeOK
<1>6. Undisturbed(q)' => Undisturbed(q) /\ \A j \in Of(q) : Sold(j)' = Sold(j)
  <2> SUFFICES ASSUME Undisturbed(q)'
               PROVE  Undisturbed(q) /\ \A j \in Of(q) : Sold(j)' = Sold(j)
    OBVIOUS
  <2>1. Untouched(q)
    BY <1>5 DEF Undisturbed, Untouched, IInv, TypeOK
  <2>2. itemOf[e] \notin Of(q)
    <3> SUFFICES ASSUME itemOf[e] \in Of(q) PROVE FALSE
      OBVIOUS
    <3>1. q \in holders[e]
      BY <1>2, OwnerHolds
    <3>2. e \notin raced
      BY <2>1, <3>1 DEF Untouched
    <3> QED BY <1>2, <3>1, <3>2 DEF IInv, EsimInv, InHandStays
  <2>3. \A j \in Of(q) : Sold(j)' = Sold(j)
    BY <1>2, <1>3, <2>2, SoldStays
  <2> QED BY <1>4, <2>1, <2>3 DEF Undisturbed
<1> QED BY <1>0, <1>2, <1>3, <1>4, <1>5, <1>6 DEF Elsewhere, OrderRests

\* The other steps of a sale write no eSIM.
LEMMA SellingElsewhere ==
  ASSUME IInv, SaleInv, NEW o \in Orders, NEW q \in Orders, q # o,
         Find(o) \/ Close(o) \/ ItemFails(o) \/ Mail(o) \/ Stop(o)
  PROVE  Elsewhere(q)
<1> USE DEF rows, refunds, Fault
<1>0. OrderRests(q)
  BY DEF SaleInv, OrderSale
<1>1. /\ UNCHANGED <<rows, refunds, holders, raced>>
      /\ short \subseteq short' /\ hurt \subseteq hurt'
  BY DEF Find, Close, ItemFails, Mail, Stop
<1>2. UNCHANGED <<at[q], todo[q], done[q], picked[q], full[q]>>
  BY DEF Find, Close, ItemFails, Mail, Stop, IInv, TypeOK
<1>3. \A i \in Of(q) : istatus'[i] = istatus[i]
  <2>1. CASE Close(o)
    <3>1. PICK j \in First(1, todo[o]) :
            istatus' = [istatus EXCEPT ![j] = IF full[o] THEN "completed" ELSE "pending"]
      BY <2>1 DEF Close
    <3>2. j \in Of(o)
      BY FirstIsPart DEF IInv, OwnItems
    <3> QED BY <3>1, <3>2 DEF Of, IInv, TypeOK
  <2>2. CASE ~Close(o)
    BY <2>2 DEF Find, ItemFails, Mail, Stop
  <2> QED BY <2>1, <2>2
<1>4. \A i \in Of(q) : Sold(i)' = Sold(i)
  BY <1>1, SoldStays
<1>5. Undisturbed(q)' => Undisturbed(q)
  BY <1>1, <1>2 DEF Undisturbed, Untouched
<1> QED BY <1>0, <1>1, <1>2, <1>3, <1>4, <1>5 DEF Elsewhere, OrderRests

\* A refund does not touch what an order that is not refunded was sold.
LEMMA RefundElsewhere ==
  ASSUME IInv, SaleInv, NEW o \in Orders, NEW q \in Orders,
         Refund(o) \/ RecallRead(o) \/ RecallGone(o) \/ RecallFails(o) \/ Resend(o)
  PROVE  Elsewhere(q)
<1> USE DEF rows, sale, refunds, Fault
<1>0. OrderRests(q)
  BY DEF SaleInv, OrderSale
<1>1. /\ UNCHANGED <<rows, sale, istatus, holders, raced, short>> /\ hurt \subseteq hurt'
  BY DEF Refund, RecallRead, RecallGone, RecallFails, Resend
<1>2. \A i \in Of(q) : Sold(i)' = Sold(i)
  BY <1>1, SoldStays
<1>3. refund'[q] = "none" => refund[q] = "none" /\ rleft'[q] = {}
  BY <1>0 DEF Refund, RecallRead, RecallGone, RecallFails, Resend, OrderRests, IInv, TypeOK
<1>4. rtodo'[q] \subseteq Of(q)
  BY <1>0 DEF Refund, RecallRead, RecallGone, RecallFails, Resend, OrderRests, IInv, TypeOK
<1>5. Undisturbed(q)' => Undisturbed(q)
  BY <1>1, <1>3 DEF Undisturbed, Untouched
<1> QED BY <1>1, <1>2, <1>3, <1>4, <1>5 DEF Elsewhere

LEMMA RecallElsewhere ==
  ASSUME IInv, SaleInv, NEW o \in Orders, NEW q \in Orders, RecallSave(o)
  PROVE  Elsewhere(q)
<1> USE InventoryAssumption DEF RecallSave, Owned, sale
<1>0. OrderRests(q) /\ OrderRests(o) /\ NoItem \notin Of(q)
  BY DEF SaleInv, OrderSale, Of
<1>1. PICK e \in First(1, rleft[o]) :
        /\ Owned(e, NoItem, NoOrder, "refunded")
        /\ rleft' = [rleft EXCEPT ![o] = @ \ {e}]
        /\ raced' = IF InHand(e, o) THEN raced \cup {e} ELSE raced
  OBVIOUS
<1>2. e \in rleft[o] /\ e \in Esims
  BY FirstIsPart DEF IInv, TypeOK
<1>3. itemOf'[e] = NoItem /\ \A f \in Esims : f # e =>
        itemOf'[f] = itemOf[f] /\ status'[f] = status[f]
  BY <1>1, <1>2 DEF IInv, TypeOK
<1>4. UNCHANGED <<sale, refund, rtodo, istatus, short, hurt, deleted, importing, holders>>
      /\ raced \subseteq raced' /\ rleft'[q] \subseteq rleft[q]
  BY <1>1 DEF IInv, TypeOK
<1>5. Undisturbed(q)' => Undisturbed(q) /\ \A j \in Of(q) : Sold(j)' = Sold(j)
  <2> SUFFICES ASSUME Undisturbed(q)'
               PROVE  Undisturbed(q) /\ \A j \in Of(q) : Sold(j)' = Sold(j)
    OBVIOUS
  <2>1. Undisturbed(q)
    BY <1>4 DEF Undisturbed, Untouched
  <2>2. q # o
    BY <1>0, <1>2, <2>1 DEF OrderRests, Undisturbed
  <2>3. itemOf[e] \notin Of(q)
    <3> SUFFICES ASSUME itemOf[e] \in Of(q) PROVE FALSE
      OBVIOUS
    <3>1. e \notin raced
      BY <1>2, <2>1, OwnerHolds DEF Undisturbed, Untouched
    <3>2. itemOf[e] \in Of(o)
      BY <1>2, <3>1 DEF SaleInv, RowRests
    <3> QED BY <2>2, <3>2 DEF Of
  <2>4. \A j \in Of(q) : Sold(j)' = Sold(j)
    BY <1>0, <1>3, <2>3, SoldStays
  <2> QED BY <2>1, <2>4
<1> QED BY <1>0, <1>3, <1>4, <1>5 DEF Elsewhere, OrderRests

LEMMA MarkElsewhere ==
  ASSUME IInv, SaleInv, NEW o \in Orders, NEW q \in Orders, MarkRefunded(o)
  PROVE  Elsewhere(q)
<1> USE DEF MarkRefunded, sale, Fault
<1>0. OrderRests(q)
  BY DEF SaleInv, OrderSale
<1>1. /\ UNCHANGED <<itemOf, deleted, importing, istatus, at, todo, picked, full, done,
                      rtodo, rleft, holders, raced, short>>
      /\ hurt \subseteq hurt'
  OBVIOUS
<1>2. refund'[q] = "none" => refund[q] = "none" /\ q # o
  BY DEF IInv, TypeOK
<1>3. \A e \in Esims : itemOf[e] \notin Of(o) => status'[e] = status[e]
  OBVIOUS
<1>4. Undisturbed(q)' => Undisturbed(q) /\ \A j \in Of(q) : Sold(j)' = Sold(j)
  <2> SUFFICES ASSUME Undisturbed(q)'
               PROVE  Undisturbed(q) /\ \A j \in Of(q) : Sold(j)' = Sold(j)
    OBVIOUS
  <2>1. Undisturbed(q) /\ q # o
    BY <1>1, <1>2 DEF Undisturbed, Untouched
  <2>2. \A e \in Esims : itemOf[e] \in Of(q) => itemOf[e] \notin Of(o)
    BY <2>1 DEF Of
  <2>3. \A j \in Of(q) : Sold(j)' = Sold(j)
    BY <1>1, <1>3, <2>2, SoldStays
  <2> QED BY <2>1, <2>3
<1> QED BY <1>0, <1>1, <1>2, <1>4 DEF Elsewhere, OrderRests

-----------------------------------------------------------------------------
(* The steps of an order's own sale.                                         *)

LEMMA FindKeeps ==
  ASSUME IInv, SaleInv, NEW o \in Orders, Find(o)
  PROVE  OrderSale(o)'
<1> USE InventoryAssumption DEF Find, rows, refunds
<1>0. OrderSale(o) /\ OrderRests(o) /\ Running(o) /\ Served(o)
  BY DEF SaleInv, OrderSale
<1>1. PICK i \in First(1, todo[o]) :
        /\ picked' = [picked EXCEPT ![o] = First(Quantity[i], Stock)]
        /\ full' = [full EXCEPT ![o] = Cardinality(Stock) >= Quantity[i]]
        /\ short' = IF Cardinality(Stock) >= Quantity[i] THEN short ELSE short \cup {i}
  OBVIOUS
<1>2. /\ i \in todo[o] /\ i \in Of(o) /\ i \in Items /\ todo[o] \subseteq Nat
      /\ Quantity[i] \in Nat
  BY FirstIsPart DEF IInv, TypeOK, OwnItems
<1>3. /\ UNCHANGED <<rows, istatus, todo, done, refunds, holders, raced, hurt>>
      /\ at[o] = "find" /\ at'[o] = "assign"
      /\ picked'[o] = First(Quantity[i], Stock)
      /\ full'[o] = (Cardinality(Stock) >= Quantity[i])
      /\ short \subseteq short'
  BY <1>1 DEF IInv, TypeOK
<1>4. OrderRests(o)'
  BY <1>0, <1>3 DEF OrderRests, Of
<1>5. Running(o)'
  <2>1. \A e \in Esims : itemOf[e] \notin todo[o]
    BY <1>0, <1>3 DEF Running
  <2>2. o \notin hurt => \A e \in Esims : o \in holders[e] => e \notin deleted \cup importing
    BY <1>0, <1>3 DEF Running
  <2> QED BY <1>3, <2>1, <2>2 DEF Running
<1>6. Served(o)'
  <2> SUFFICES ASSUME Undisturbed(o)', NEW j \in Of(o)
               PROVE  /\ j \in done'[o] => Cardinality(Sold(j)') = Quantity[j]
                      /\ j \notin done'[o] \cup todo'[o] => j \in short'
                      /\ j \in First(1, todo'[o]) =>
                           IF full'[o] THEN Cardinality(Sold(j)' \cup picked'[o]) = Quantity[j]
                           ELSE j \in short'
    <3>1. Of(o)' = Of(o) /\ First(1, todo[o])' = First(1, todo'[o])
      BY DEF Of, First
    <3> QED BY <3>1 DEF Served
  <2>1. Undisturbed(o)
    BY <1>3 DEF Undisturbed, Untouched
  <2>2. /\ j \in done[o] => Cardinality(Sold(j)) = Quantity[j]
        /\ j \notin done[o] \cup todo[o] => j \in short
    BY <1>0, <2>1 DEF Served
  <2>3. Sold(j)' = Sold(j)
    BY <1>3 DEF Sold
  <2>4. ASSUME j \in First(1, todo[o])
        PROVE  IF full'[o] THEN Cardinality(Sold(j)' \cup picked'[o]) = Quantity[j]
               ELSE j \in short'
    <3>1. j = i
      BY <1>2, <2>4, FirstOne
    <3>2. CASE Cardinality(Stock) >= Quantity[i]
      <4>1. Sold(j) = {}
        BY <1>0, <1>2, <1>3, <3>1 DEF Running, Sold
      <4>2. Stock \in SUBSET Esims
        BY DEF Stock
      <4>3. Stock \subseteq Nat /\ IsFiniteSet(Stock) /\ Cardinality(Stock) \in Nat
        BY <4>2, FS_Subset, FS_CardinalityType
      <4>4. Quantity[i] <= Cardinality(Stock)
        BY <1>2, <3>2, <4>3
      <4>5. Cardinality(First(Quantity[i], Stock)) = Quantity[i]
        BY <1>2, <4>3, <4>4, FirstCard
      <4>6. Sold(j)' \cup picked'[o] = First(Quantity[i], Stock)
        BY <1>3, <2>3, <4>1
      <4> QED BY <1>3, <3>1, <3>2, <4>5, <4>6
    <3>3. CASE ~(Cardinality(Stock) >= Quantity[i])
      BY <1>1, <1>3, <3>1, <3>3
    <3> QED BY <3>2, <3>3
  <2> QED BY <1>3, <2>2, <2>3, <2>4
<1> QED BY <1>4, <1>5, <1>6 DEF OrderSale

LEMMA AssignKeeps ==
  ASSUME IInv, SaleInv, NEW o \in Orders, Assign(o)
  PROVE  OrderSale(o)'
<1> USE InventoryAssumption DEF Assign, Owned, refunds
<1>0. OrderSale(o) /\ OrderRests(o) /\ Running(o) /\ Served(o)
  BY DEF SaleInv, OrderSale
<1>1. PICK e \in First(1, picked[o]), i \in First(1, todo[o]) :
        /\ Owned(e, i, o, "sold")
        /\ picked' = [picked EXCEPT ![o] = @ \ {e}]
        /\ holders' = [holders EXCEPT ![e] = @ \cup {o}]
        /\ raced' = IF InHand(e, o) THEN raced \cup {e} ELSE raced
  OBVIOUS
<1>2. /\ e \in picked[o] /\ e \in Esims /\ i \in todo[o] /\ i \in Of(o) /\ i \in Items
      /\ todo[o] \subseteq Nat
  BY FirstIsPart DEF IInv, TypeOK, OwnItems
<1>3. /\ itemOf'[e] = i /\ status'[e] = "sold"
      /\ \A f \in Esims : f # e => itemOf'[f] = itemOf[f] /\ status'[f] = status[f]
  BY <1>1, <1>2 DEF IInv, TypeOK
<1>4. /\ UNCHANGED <<at, todo, done, full, refund, rleft, rtodo, istatus, short, hurt,
                      deleted, importing>>
      /\ picked'[o] = picked[o] \ {e} /\ at[o] = "assign"
  BY <1>1 DEF IInv, TypeOK
<1>5. /\ raced \subseteq raced' /\ o \in holders'[e]
      /\ \A f \in Esims : f # e => holders'[f] = holders[f]
      /\ \A f \in Esims : o \in holders[f] => o \in holders'[f]
  BY <1>1, <1>2 DEF IInv, TypeOK
<1>6. OrderRests(o)'
  BY <1>0, <1>4 DEF OrderRests, Of
<1>7. Running(o)'
  <2>1. ASSUME NEW f \in Esims, itemOf'[f] \in todo[o] PROVE itemOf'[f] \in First(1, todo[o])
    BY <1>0, <1>2, <1>3, <1>4, <2>1 DEF Running
  <2>2. ASSUME o \notin hurt, NEW f \in Esims, o \in holders'[f]
        PROVE  f \notin deleted \cup importing
    <3>1. CASE f = e
      BY <1>2, <3>1 DEF SaleInv, RowRests
    <3>2. CASE f # e
      BY <1>0, <1>4, <1>5, <2>2, <3>2 DEF Running
    <3> QED BY <3>1, <3>2
  <2>3. First(1, todo[o])' = First(1, todo[o])
    BY <1>4 DEF First
  <2> QED BY <1>4, <2>1, <2>2, <2>3 DEF Running
<1>8. Served(o)'
  <2> SUFFICES ASSUME Undisturbed(o)', NEW j \in Of(o)
               PROVE  /\ j \in done[o] => Cardinality(Sold(j)') = Quantity[j]
                      /\ j \notin done[o] \cup todo[o] => j \in short
                      /\ j \in First(1, todo[o]) =>
                           IF full[o] THEN Cardinality(Sold(j)' \cup picked'[o]) = Quantity[j]
                           ELSE j \in short
    <3>1. Of(o)' = Of(o) /\ First(1, todo[o])' = First(1, todo[o])
      BY <1>4 DEF Of, First
    <3> QED BY <1>4, <3>1 DEF Served
  <2>1. Undisturbed(o)
    <3>1. Untouched(o)
      BY <1>5 DEF Undisturbed, Untouched, IInv, TypeOK
    <3> QED BY <1>4, <3>1 DEF Undisturbed
  <2>2. itemOf[e] = NoItem
    <3>1. e \notin raced
      BY <1>5 DEF Undisturbed, Untouched
    <3> QED BY <1>2, <3>1 DEF IInv, EsimInv, InHandStays, RowAgrees
  <2>3. /\ j \in done[o] => Cardinality(Sold(j)) = Quantity[j]
        /\ j \notin done[o] \cup todo[o] => j \in short
        /\ j \in First(1, todo[o]) =>
             IF full[o] THEN Cardinality(Sold(j) \cup picked[o]) = Quantity[j] ELSE j \in short
    BY <1>0, <1>4, <2>1 DEF Served
  <2>4. j # i => Sold(j)' = Sold(j)
    <3>1. j # NoItem
      BY DEF Of
    <3>2. ASSUME j # i, NEW f \in Esims
          PROVE  itemOf'[f] = j /\ status'[f] = "sold" <=> itemOf[f] = j /\ status[f] = "sold"
      BY <1>3, <2>2, <3>1, <3>2
    <3> QED BY <3>2 DEF Sold
  <2>5. Sold(i)' \cup picked'[o] = Sold(i) \cup picked[o]
    <3>1. ASSUME NEW f \in Esims
          PROVE  f \in Sold(i)' \cup picked'[o] <=> f \in Sold(i) \cup picked[o]
      BY <1>2, <1>3, <1>4 DEF Sold
    <3>2. picked[o] \subseteq Esims /\ picked'[o] \subseteq Esims
      BY <1>4 DEF IInv, TypeOK
    <3>3. Sold(i) \subseteq Esims /\ Sold(i)' \subseteq Esims
      BY DEF Sold
    <3> QED BY <3>1, <3>2, <3>3
  <2>6. i \notin done[o] /\ (j \in First(1, todo[o]) => j = i)
    BY <1>0, <1>2, FirstOne DEF OrderRests
  <2> QED BY <2>3, <2>4, <2>5, <2>6
<1> QED BY <1>6, <1>7, <1>8 DEF OrderSale

LEMMA CloseKeeps ==
  ASSUME IInv, SaleInv, NEW o \in Orders, Close(o)
  PROVE  OrderSale(o)'
<1> USE InventoryAssumption DEF Close, refunds, rows
<1>0. OrderSale(o) /\ OrderRests(o) /\ Running(o) /\ Served(o)
  BY DEF SaleInv, OrderSale
<1>1. PICK i \in First(1, todo[o]) :
        /\ istatus' = [istatus EXCEPT ![i] = IF full[o] THEN "completed" ELSE "pending"]
        /\ done' = [done EXCEPT ![o] = IF full[o] THEN @ \cup {i} ELSE @]
        /\ todo' = [todo EXCEPT ![o] = @ \ {i}]
  OBVIOUS
<1>2. /\ i \in todo[o] /\ i \in Of(o) /\ i \in Items /\ todo[o] \subseteq Nat
  BY FirstIsPart DEF IInv, TypeOK, OwnItems
<1>3. /\ UNCHANGED <<rows, picked, full, refunds, holders, raced, short, hurt>>
      /\ picked[o] = {} /\ at[o] = "assign" /\ at'[o] = "find"
      /\ todo'[o] = todo[o] \ {i}
      /\ done'[o] = IF full[o] THEN done[o] \cup {i} ELSE done[o]
      /\ istatus'[i] = IF full[o] THEN "completed" ELSE "pending"
      /\ \A j \in Items : j # i => istatus'[j] = istatus[j]
  <2>1. /\ UNCHANGED <<rows, picked, full, refunds, holders, raced, short, hurt>>
        /\ picked[o] = {} /\ at[o] = "assign" /\ at'[o] = "find"
    BY DEF IInv, TypeOK
  <2>2. /\ todo'[o] = todo[o] \ {i}
        /\ done'[o] = IF full[o] THEN done[o] \cup {i} ELSE done[o]
    <3>1. todo'[o] = todo[o] \ {i}
      BY <1>1 DEF IInv, TypeOK
    <3>2. full[o] => done'[o] = done[o] \cup {i}
      BY <1>1 DEF IInv, TypeOK
    <3>3. ~full[o] => done'[o] = done[o]
      BY <1>1 DEF IInv, TypeOK
    <3> QED BY <3>1, <3>2, <3>3
  <2>3. /\ istatus'[i] = IF full[o] THEN "completed" ELSE "pending"
        /\ \A j \in Items : j # i => istatus'[j] = istatus[j]
    BY <1>1, <1>2 DEF IInv, TypeOK
  <2> QED BY <2>1, <2>2, <2>3
<1>4. OrderRests(o)'
  <2>1. Of(o)' = Of(o) /\ Of(o) \subseteq Items
    BY DEF Of
  <2>2. done'[o] \cap todo'[o] = {}
    BY <1>0, <1>3 DEF OrderRests
  <2>3. ASSUME NEW j \in Of(o) PROVE j \in done'[o] <=> istatus'[j] = "completed"
    <3>1. CASE j = i
      BY <1>0, <1>2, <1>3, <3>1 DEF OrderRests
    <3>2. CASE j # i
      BY <1>0, <1>3, <2>1, <3>2 DEF OrderRests
    <3> QED BY <3>1, <3>2
  <2> QED BY <1>0, <1>3, <2>1, <2>2, <2>3 DEF OrderRests
<1>5. Running(o)'
  <2>1. ASSUME NEW e \in Esims, itemOf[e] \in todo'[o] PROVE FALSE
    <3>1. itemOf[e] \in First(1, todo[o])
      BY <1>0, <1>3, <2>1 DEF Running
    <3>2. itemOf[e] = i
      BY <1>2, <3>1, FirstOne
    <3> QED BY <1>3, <2>1, <3>2
  <2>2. todo'[o] # Of(o) /\ Of(o)' = Of(o)
    BY <1>2, <1>3 DEF Of
  <2>3. o \notin hurt => \A e \in Esims : o \in holders[e] => e \notin deleted \cup importing
    BY <1>0, <1>3 DEF Running
  <2> QED BY <1>3, <2>1, <2>2, <2>3 DEF Running
<1>6. Served(o)'
  <2> SUFFICES ASSUME Undisturbed(o)', NEW j \in Of(o)
               PROVE  /\ j \in done'[o] => Cardinality(Sold(j)') = Quantity[j]
                      /\ j \notin done'[o] \cup todo'[o] => j \in short
    <3>1. Of(o)' = Of(o)
      BY DEF Of
    <3> QED BY <1>3, <3>1 DEF Served
  <2>1. Undisturbed(o)
    BY <1>3 DEF Undisturbed, Untouched
  <2>2. Sold(j)' = Sold(j)
    BY <1>3 DEF Sold
  <2>3. /\ j \in done[o] => Cardinality(Sold(j)) = Quantity[j]
        /\ j \notin done[o] \cup todo[o] => j \in short
        /\ j \in First(1, todo[o]) =>
             IF full[o] THEN Cardinality(Sold(j) \cup picked[o]) = Quantity[j] ELSE j \in short
    BY <1>0, <1>3, <2>1 DEF Served
  <2>4. Sold(j) \cup picked[o] = Sold(j)
    BY <1>3
  <2>5. CASE j = i
    BY <1>2, <1>3, <2>2, <2>3, <2>4, <2>5
  <2>6. CASE j # i
    BY <1>3, <2>2, <2>3, <2>6
  <2> QED BY <2>5, <2>6
<1> QED BY <1>4, <1>5, <1>6 DEF OrderSale

LEMMA EndsKeep ==
  ASSUME IInv, SaleInv, NEW o \in Orders, ItemFails(o) \/ Mail(o) \/ Stop(o)
  PROVE  OrderSale(o)'
<1> USE DEF rows, refunds, Fault
<1>0. OrderSale(o) /\ OrderRests(o) /\ Running(o)
  BY DEF SaleInv, OrderSale
<1>1. Of(o)' = Of(o)
  BY DEF Of
<1>2. CASE ItemFails(o)
  <2> USE <1>2 DEF ItemFails
  <2>1. /\ at'[o] = "find" /\ picked'[o] = {} /\ todo'[o] = todo[o] \ First(1, todo[o])
        /\ o \in hurt' /\ at[o] = "assign"
        /\ UNCHANGED <<rows, istatus, full, done, refunds, holders, raced, short>>
    BY DEF IInv, TypeOK
  <2>2. OrderRests(o)'
    BY <1>0, <1>1, <2>1 DEF OrderRests
  <2>3. Running(o)'
    BY <1>0, <2>1 DEF Running
  <2>4. Served(o)'
    BY <2>1 DEF Served, Undisturbed
  <2> QED BY <2>2, <2>3, <2>4 DEF OrderSale
<1>3. CASE Mail(o) \/ Stop(o)
  <2> USE DEF Mail, Stop
  <2>1. /\ at'[o] = "over" /\ (picked'[o] = {} \/ (picked'[o] = picked[o] /\ at[o] = "find"))
        /\ UNCHANGED <<rows, istatus, todo, full, done, refunds, holders, raced, short>>
    <3>1. CASE Mail(o)
      BY <3>1 DEF IInv, TypeOK
    <3>2. CASE Stop(o)
      <4>1. at'[o] = "over" /\ picked'[o] = {}
        BY <3>2 DEF IInv, TypeOK
      <4>2. UNCHANGED <<rows, istatus, todo, full, done, refunds, holders, raced, short>>
        BY <3>2 DEF Stop
      <4> QED BY <4>1, <4>2
    <3> QED BY <1>3, <3>1, <3>2
  <2>2. OrderRests(o)'
    BY <1>0, <1>1, <2>1 DEF OrderRests
  <2>3. Running(o)' /\ Served(o)'
    BY <2>1 DEF Running, Served, Undisturbed
  <2> QED BY <2>2, <2>3 DEF OrderSale
<1> QED BY <1>2, <1>3

\* An order's own steps, and every other.
LEMMA SaleStep ==
  ASSUME IInv, SaleInv, Next, NEW q \in Orders
  PROVE  OrderSale(q)'
<1>0. OrderSale(q)
  BY DEF SaleInv
<1>1. ASSUME NEW e \in Esims,
             Import(e) \/ Restore(e) \/ Overwrite(e) \/ OverwriteFails(e) \/ Clean(e)
      PROVE  OrderSale(q)'
  BY <1>0, <1>1, ImportElsewhere, ElsewhereKeeps
<1>2. ASSUME NEW o \in Orders, Find(o) \/ Assign(o) \/ Close(o) \/ Mail(o) \/ ItemFails(o) \/ Stop(o)
      PROVE  OrderSale(q)'
  <2>1. CASE q = o
    BY <1>2, <2>1, FindKeeps, AssignKeeps, CloseKeeps, EndsKeep
  <2>2. CASE q # o
    BY <1>0, <1>2, <2>2, AssignElsewhere, SellingElsewhere, ElsewhereKeeps
  <2> QED BY <2>1, <2>2
<1>3. ASSUME NEW o \in Orders,
             \/ Refund(o) \/ RecallRead(o) \/ RecallGone(o) \/ RecallFails(o) \/ Resend(o)
             \/ RecallSave(o) \/ MarkRefunded(o)
      PROVE  OrderSale(q)'
  BY <1>0, <1>3, RefundElsewhere, RecallElsewhere, MarkElsewhere, ElsewhereKeeps
<1> QED BY <1>1, <1>2, <1>3 DEF Next, Selling, Refunding
-----------------------------------------------------------------------------
(* The rows at rest.                                                         *)

\* Steps that write no eSIM, restore none and clean none.
LEMMA RowStays ==
  ASSUME IInv, NEW e \in Esims, RowRests(e), UNCHANGED <<status[e], itemOf[e]>>,
         deleted' \subseteq deleted, importing' \subseteq importing, raced \subseteq raced',
         \A o \in Orders :
           /\ e \in picked'[o] => e \in picked[o] \/ status[e] = "available"
           /\ e \in rleft'[o] => e \in rleft[o] \/ itemOf[e] \in Of(o)
  PROVE  RowRests(e)'
  BY DEF RowRests, Of

LEMMA ImportRests ==
  ASSUME IInv, SaleInv, NEW f \in Esims, NEW e \in Esims,
         Import(e) \/ Restore(e) \/ Overwrite(e) \/ OverwriteFails(e) \/ Clean(e)
  PROVE  RowRests(f)'
<1> USE DEF sale, refunds, rows
<1>0. RowRests(f)
  BY DEF SaleInv
<1>1. CASE Import(e) \/ Overwrite(e)
  <2> USE <1>1 DEF Import, Overwrite, Owned
  <2>1. CASE f = e
    <3>1. /\ f \notin deleted' \cup importing'
          /\ f \notin raced' => \A o \in Orders : f \notin rleft'[o]
      <4>1. CASE Import(e)
        BY <2>1, <4>1, <1>0 DEF RowRests, IInv, EsimInv, RowAgrees, InHandStays
      <4>2. CASE Overwrite(e)
        BY <2>1, <4>2, <1>0, InventoryAssumption DEF RowRests, InHand
      <4> QED BY <4>1, <4>2
    <3> QED BY <3>1 DEF RowRests
  <2>2. CASE f # e
    <3>1. /\ UNCHANGED <<status[f], itemOf[f]>> /\ deleted' \subseteq deleted
          /\ importing' \subseteq importing /\ raced \subseteq raced' /\ UNCHANGED <<picked, rleft>>
      BY <2>2 DEF IInv, TypeOK
    <3> QED BY <1>0, <3>1, RowStays
  <2> QED BY <2>1, <2>2
<1>2. CASE Restore(e) \/ OverwriteFails(e)
  BY <1>0, <1>2 DEF Restore, OverwriteFails, RowRests, Of
<1>3. CASE Clean(e)
  <2> USE <1>3 DEF Clean
  <2>1. UNCHANGED <<status, itemOf, importing, raced, picked, rleft>>
    OBVIOUS
  <2>2. f \in deleted' => f \in deleted \/ f = e
    OBVIOUS
  <2>3. f = e => /\ status[f] \in {"sold", "refunded"} /\ f \notin importing
                 /\ \A o \in Orders : f \notin picked[o]
    OBVIOUS
  <2> QED BY <1>0, <2>1, <2>2, <2>3 DEF RowRests, Of
<1> QED BY <1>1, <1>2, <1>3

LEMMA SaleRests ==
  ASSUME IInv, SaleInv, NEW f \in Esims, NEW o \in Orders,
         \/ Find(o) \/ Close(o) \/ ItemFails(o) \/ Mail(o) \/ Stop(o) \/ Resend(o)
         \/ Refund(o) \/ RecallRead(o) \/ RecallGone(o) \/ RecallFails(o)
  PROVE  RowRests(f)'
<1> USE DEF rows, refunds, sale
<1>0. RowRests(f) /\ OrderRests(o)
  BY DEF SaleInv, OrderSale
<1>1. UNCHANGED <<rows, raced>>
  BY DEF Find, Close, ItemFails, Mail, Stop, Resend, Refund, RecallRead, RecallGone, RecallFails
<1>2. \A q \in Orders : f \in picked'[q] => f \in picked[q] \/ status[f] = "available"
  <2>1. CASE Find(o)
    <3>1. \A n : \A x \in First(n, Stock) : status[x] = "available"
      BY FirstIsPart DEF Stock
    <3> QED BY <2>1, <3>1 DEF Find, IInv, TypeOK
  <2>2. CASE ItemFails(o) \/ Stop(o)
    BY <2>2 DEF ItemFails, Stop, IInv, TypeOK
  <2>3. CASE UNCHANGED picked
    BY <2>3
  <2> QED BY <2>1, <2>2, <2>3 DEF Close, Mail, Resend, Refund, RecallRead, RecallGone, RecallFails
<1>3. \A q \in Orders : f \in rleft'[q] => f \in rleft[q] \/ itemOf[f] \in Of(q)
  <2>1. CASE RecallRead(o)
    <3>1. \A i \in First(1, rtodo[o]) : i \in Of(o)
      BY <1>0, FirstIsPart DEF OrderRests
    <3> QED BY <2>1, <3>1 DEF RecallRead, IInv, TypeOK
  <2>2. CASE RecallGone(o) \/ RecallFails(o)
    BY <2>2 DEF RecallGone, RecallFails, IInv, TypeOK
  <2>3. CASE UNCHANGED rleft
    BY <2>3
  <2> QED BY <2>1, <2>2, <2>3 DEF Find, Close, ItemFails, Mail, Stop, Resend, Refund
<1> QED BY <1>0, <1>1, <1>2, <1>3, RowStays

LEMMA AssignRests ==
  ASSUME IInv, SaleInv, NEW f \in Esims, NEW o \in Orders, Assign(o)
  PROVE  RowRests(f)'
<1> USE DEF Assign, Owned, refunds
<1>0. RowRests(f)
  BY DEF SaleInv
<1>1. PICK e \in First(1, picked[o]), i \in First(1, todo[o]) :
        /\ Owned(e, i, o, "sold")
        /\ picked' = [picked EXCEPT ![o] = @ \ {e}]
        /\ holders' = [holders EXCEPT ![e] = @ \cup {o}]
        /\ raced' = IF InHand(e, o) THEN raced \cup {e} ELSE raced
  OBVIOUS
<1>2. e \in picked[o] /\ e \in Esims
  BY FirstIsPart DEF IInv, TypeOK
<1>3. /\ UNCHANGED <<deleted, importing, rleft>> /\ raced \subseteq raced'
      /\ \A q \in Orders : picked'[q] \subseteq picked[q]
  BY <1>1 DEF IInv, TypeOK
<1>4. CASE f # e
  <2>1. UNCHANGED <<status[f], itemOf[f]>>
    BY <1>1, <1>4 DEF IInv, TypeOK
  <2> QED BY <1>0, <1>3, <2>1, RowStays
<1>5. CASE f = e
  <2>1. f \notin deleted' \cup importing'
    BY <1>0, <1>2, <1>3, <1>5 DEF RowRests
  <2>2. ASSUME f \notin raced' PROVE \A q \in Orders : f \notin rleft[q]
    <3>1. f \notin raced /\ \A q \in Orders \ {o} : f \notin rleft[q]
      BY <1>1, <1>5, <2>2 DEF InHand
    <3>2. f \notin rleft[o]
      BY <1>2, <1>5, <3>1 DEF IInv, EsimInv, InHandStays, RowAgrees
    <3> QED BY <3>1, <3>2
  <2> QED BY <1>3, <2>1, <2>2 DEF RowRests
<1> QED BY <1>4, <1>5

LEMMA RecallRests ==
  ASSUME IInv, SaleInv, NEW f \in Esims, NEW o \in Orders, RecallSave(o)
  PROVE  RowRests(f)'
<1> USE DEF RecallSave, Owned, sale
<1>0. RowRests(f)
  BY DEF SaleInv
<1>1. PICK e \in First(1, rleft[o]) :
        /\ Owned(e, NoItem, NoOrder, "refunded")
        /\ rleft' = [rleft EXCEPT ![o] = @ \ {e}]
        /\ raced' = IF InHand(e, o) THEN raced \cup {e} ELSE raced
  OBVIOUS
<1>2. e \in rleft[o] /\ e \in Esims
  BY FirstIsPart DEF IInv, TypeOK
<1>3. /\ UNCHANGED <<deleted, importing, picked>> /\ raced \subseteq raced'
      /\ \A q \in Orders : rleft'[q] \subseteq rleft[q]
      /\ e \notin rleft'[o]
  BY <1>1 DEF IInv, TypeOK
<1>4. CASE f # e
  <2>1. UNCHANGED <<status[f], itemOf[f]>>
    BY <1>1, <1>4 DEF IInv, TypeOK
  <2> QED BY <1>0, <1>3, <2>1, RowStays
<1>5. CASE f = e
  <2>1. status'[f] = "refunded"
    BY <1>1, <1>2, <1>5 DEF IInv, TypeOK
  <2>2. f \notin raced' => \A q \in Orders : f \notin rleft'[q]
    BY <1>1, <1>3, <1>5 DEF InHand
  <2> QED BY <1>0, <1>3, <2>1, <2>2 DEF RowRests
<1> QED BY <1>4, <1>5

LEMMA MarkRests ==
  ASSUME IInv, SaleInv, NEW f \in Esims, NEW o \in Orders, MarkRefunded(o)
  PROVE  RowRests(f)'
<1> USE DEF MarkRefunded, sale
<1>0. RowRests(f)
  BY DEF SaleInv
<1>1. /\ UNCHANGED <<itemOf, deleted, importing, picked, rleft, raced>>
      /\ status'[f] = status[f] \/ status'[f] = "refunded"
  OBVIOUS
<1> QED BY <1>0, <1>1 DEF RowRests, Of

LEMMA NextKeepsSale == IInv /\ SaleInv /\ [Next]_vars => SaleInv'
<1> SUFFICES ASSUME IInv, SaleInv, [Next]_vars PROVE SaleInv' OBVIOUS
<1>1. CASE UNCHANGED vars
  <2> USE <1>1 DEF vars, rows, sale, refunds
  <2>1. ASSUME NEW o \in Orders PROVE OrderSale(o)'
    <3>1. OrderRests(o) /\ Running(o) /\ Served(o)
      BY DEF SaleInv, OrderSale
    <3>2. \A i \in Of(o) : Sold(i)' = Sold(i)
      BY SoldStays
    <3>3. OrderRests(o)' /\ Running(o)'
      BY <3>1 DEF OrderRests, Running, Of, First
    <3>4. Of(o)' = Of(o) /\ First(1, todo[o])' = First(1, todo[o])
          /\ Undisturbed(o)' = Undisturbed(o)
      BY DEF Of, First, Undisturbed, Untouched
    <3>5. Served(o)'
      BY <3>1, <3>2, <3>4 DEF Served
    <3> QED BY <3>3, <3>5 DEF OrderSale
  <2>2. ASSUME NEW e \in Esims PROVE RowRests(e)'
    BY DEF SaleInv, RowRests, Of
  <2> QED BY <2>1, <2>2 DEF SaleInv
<1>2. CASE Next
  <2>1. ASSUME NEW o \in Orders PROVE OrderSale(o)'
    BY <1>2, SaleStep
  <2>2. ASSUME NEW f \in Esims PROVE RowRests(f)'
    <3>1. ASSUME NEW e \in Esims,
                 Import(e) \/ Restore(e) \/ Overwrite(e) \/ OverwriteFails(e) \/ Clean(e)
          PROVE  RowRests(f)'
      BY <3>1, ImportRests
    <3>2. ASSUME NEW o \in Orders,
                 \/ Selling(o) \/ ItemFails(o) \/ Stop(o) \/ Resend(o)
                 \/ Refund(o) \/ Refunding(o) \/ RecallGone(o) \/ RecallFails(o)
          PROVE  RowRests(f)'
      BY <3>2, SaleRests, AssignRests, RecallRests, MarkRests DEF Selling, Refunding
    <3> QED BY <1>2, <3>1, <3>2 DEF Next
  <2> QED BY <2>1, <2>2 DEF SaleInv
<1> QED BY <1>1, <1>2

LEMMA InitSale == Init => SaleInv
<1> SUFFICES ASSUME Init PROVE SaleInv OBVIOUS
<1>1. ASSUME NEW o \in Orders PROVE OrderSale(o)
  <2>1. OrderRests(o)
    BY DEF Init, OrderRests, Of
  <2>2. Running(o)
    BY InventoryAssumption DEF Init, Running, Of
  <2>3. Served(o)
    BY DEF Init, Served
  <2> QED BY <2>1, <2>2, <2>3 DEF OrderSale
<1>2. ASSUME NEW e \in Esims PROVE RowRests(e)
  BY DEF Init, RowRests
<1> QED BY <1>1, <1>2 DEF SaleInv

\* For any stock, any orders and any interleaving: what an order that nobody disturbed sold to its
\* items, and what it is about to, is what was bought, and the nightly job never takes it.
THEOREM SaleInvariant == Spec => []SaleInv
  BY InitSale, NextKeepsSale, InventoryInvariant, PTL DEF Spec

\* The submission of an order that no fault, refund or other order disturbed leaves each
\* completed item with as many eSIMs as were bought, mailed to the buyer unless an admin
\* placed the order, and each other item for want of stock.
THEOREM ItemsAreDelivered == Spec => CompletedIsDelivered
<1> DEFINE Step == \A o \in Orders : \A i \in Of(o) :
             /\ at[o] # "over" /\ at'[o] = "over"
             /\ o \notin hurt' /\ refund[o] = "none"
             /\ \A e \in raced : o \notin holders[e]
             => LET es == {e \in Esims : itemOf[e] = i /\ status[e] = "sold"} IN
                IF istatus[i] = "completed"
                THEN /\ Cardinality(es) = Quantity[i]
                     /\ o \notin Muted => \A e \in es : <<e, o>> \in mailed'
                ELSE i \in short
<1>1. IInv /\ SaleInv /\ [Next]_vars => [Step]_vars
  <2> SUFFICES ASSUME IInv, SaleInv, Next, NEW o \in Orders, NEW i \in Of(o),
                      at[o] # "over", at'[o] = "over", o \notin hurt', refund[o] = "none",
                      \A e \in raced : o \notin holders[e]
               PROVE  IF istatus[i] = "completed"
                      THEN /\ Cardinality(Sold(i)) = Quantity[i]
                           /\ o \notin Muted => \A e \in Sold(i) : <<e, o>> \in mailed'
                      ELSE i \in short
    BY DEF Sold
  <2>0. OrderRests(o) /\ Running(o) /\ Served(o)
    BY DEF SaleInv, OrderSale
  <2>1. Mail(o) /\ o \notin hurt
    <3>1. PICK p \in Orders : Mail(p) \/ Stop(p)
      BY DEF Next, Import, Restore, Overwrite, OverwriteFails, Clean, Selling, Find, Assign,
             Close, ItemFails, Resend, Refund, Refunding, RecallRead, RecallSave, RecallGone,
             RecallFails,
             MarkRefunded, sale, IInv, TypeOK
    <3>2. p = o
      BY <3>1 DEF Mail, Stop, IInv, TypeOK
    <3> QED BY <3>1, <3>2 DEF Mail, Stop, Fault
  <2>2. Undisturbed(o)
    BY <2>1 DEF Undisturbed, Untouched
  <2>3. todo[o] = {}
    BY <2>1 DEF Mail
  <2>4. CASE i \in done[o]
    <3>1. istatus[i] = "completed" /\ Cardinality(Sold(i)) = Quantity[i]
      BY <2>0, <2>2, <2>4 DEF OrderRests, Served
    <3>2. ASSUME o \notin Muted, NEW e \in Sold(i) PROVE <<e, o>> \in mailed'
      <4>1. e \in Esims /\ itemOf[e] = i
        BY DEF Sold
      <4>2. o \in holders[e]
        BY <4>1, OwnerHolds
      <4>3. e \notin deleted
        BY <2>0, <2>2, <4>1, <4>2 DEF Running, Undisturbed
      <4>4. mailed' = mailed \cup Mails(o, done[o])
        BY <2>1, <3>2 DEF Mail, Fault
      <4> QED BY <2>4, <4>1, <4>3, <4>4 DEF Mails
    <3> QED BY <3>1, <3>2
  <2>5. CASE i \notin done[o]
    BY <2>0, <2>2, <2>3, <2>5 DEF OrderRests, Served
  <2> QED BY <2>4, <2>5
<1> QED BY <1>1, InventoryInvariant, SaleInvariant, PTL DEF Spec, CompletedIsDelivered
=============================================================================
