----------------------- MODULE ProviderDeliveryProofs -----------------------
(* No eSIM reaches another buyer than the one it was made for, every completed  *)
(* item gets the eSIMs that were bought, and a refund recalls them, with any    *)
(* number of orders, suppliers' calls and refunds under way at a time.         *)
EXTENDS ProviderDelivery, JtsFulfilment, TLAPS, FiniteSetTheorems, WellFoundedInduction

\* What a supplier's order is about: an item, and the eSIM of a call.
FitsEsim(i, e) == Ref(i) = RefOf(e) /\ PlanOf[i] = PlanOf[MadeFor[e]]

\* A webhook call keeps to its own order.
HookInv(h) ==
  /\ hook[h] # "idle" => href[h] \in Refs
  /\ hook[h] \in {"idle", "complete"} => hleft[h] = {}
  /\ hitems[h] \subseteq Of(href[h])
  /\ \A e \in hleft[h] : RefOf(e) = href[h]
  /\ hook[h] = "write" =>
       /\ hcur[h].esim \in Esims /\ RefOf(hcur[h].esim) = href[h]
       /\ hcur[h].item # NoItem => FitsEsim(hcur[h].item, hcur[h].esim)

RowInv(e) ==
  /\ itemOf[e] # NoItem => FitsEsim(itemOf[e], e)
  /\ buyer[e] \in {NoOrder, BuyerOf(RefOf(e))}

MailInv == \A m \in mailed : m[2] = BuyerOf(RefOf(m[1]))

IInv == TypeOK /\ (\A h \in Slots : HookInv(h)) /\ (\A e \in Esims : RowInv(e)) /\ MailInv

LEMMA FirstIsPart ==
  ASSUME NEW s, NEW x \in First(s)
  PROVE  x \in s
  BY DEF First

LEMMA RefTypes ==
  /\ \A i \in Items : Ref(i) \in Refs
  /\ \A e \in Esims : RefOf(e) \in Refs
  /\ \A r \in Refs : BuyerOf(r) \in Orders
<1>1. \A i \in Items : Ref(i) \in Refs
  BY DEF Refs
<1>2. \A e \in Esims : RefOf(e) \in Refs
  BY <1>1, DeliveryAssumption DEF RefOf
<1>3. \A i \in Items : Ref(i) \in Items \cup Orders
  BY DeliveryAssumption DEF Ref
<1>4. \A r \in Refs : BuyerOf(r) \in Orders
  BY <1>3, DeliveryAssumption DEF Refs, BuyerOf
<1> QED BY <1>1, <1>2, <1>4

LEMMA RefsStay ==
  ASSUME UNCHANGED provider
  PROVE  /\ \A i : Ref(i)' = Ref(i)
         /\ \A e : RefOf(e)' = RefOf(e)
         /\ Refs' = Refs
         /\ \A r : Of(r)' = Of(r)
         /\ \A i, e : FitsEsim(i, e)' <=> FitsEsim(i, e)
  BY DEF Ref, RefOf, Refs, Of, FitsEsim

\* Steps of the submission, of a refund or of a poll: no call, no row's owner, no e-mail.
LEMMA QuietStep ==
  ASSUME IInv, TypeOK', UNCHANGED <<provider, hooks, itemOf, buyer, mailed>>
  PROVE  IInv'
<1> USE RefsStay DEF hooks
<1>1. ASSUME NEW h \in Slots PROVE HookInv(h)'
  BY DEF IInv, HookInv
<1>2. ASSUME NEW e \in Esims PROVE RowInv(e)'
  BY DEF IInv, RowInv, BuyerOf
<1>3. MailInv'
  BY DEF IInv, MailInv, BuyerOf
<1> QED BY <1>1, <1>2, <1>3 DEF IInv

\* Steps of one call that write no row's owner.
LEMMA CallStep ==
  ASSUME IInv, TypeOK', UNCHANGED <<provider, itemOf, buyer>>, NEW h \in Slots, HookInv(h)',
         \A g \in Slots \ {h} :
           UNCHANGED <<hook[g], href[g], hitems[g], hleft[g], hcur[g]>>,
         \A m \in mailed' : m \in mailed \/ m[2] = BuyerOf(RefOf(m[1]))
  PROVE  IInv'
<1> USE RefsStay
<1>1. ASSUME NEW g \in Slots PROVE HookInv(g)'
  BY DEF IInv, HookInv
<1>2. ASSUME NEW e \in Esims PROVE RowInv(e)'
  BY DEF IInv, RowInv, BuyerOf
<1>3. MailInv'
  BY DEF IInv, MailInv, BuyerOf
<1> QED BY <1>1, <1>2, <1>3 DEF IInv

LEMMA InitInv == Init => IInv
<1> SUFFICES ASSUME Init PROVE IInv OBVIOUS
<1> USE DeliveryAssumption DEF Init
<1>1. TypeOK
  <2>1. provider \in [Items -> Providers]
    OBVIOUS
  <2>2. todo \in [Orders -> SUBSET Items]
    BY DEF Asked
  <2>3. at \in [Orders -> Providers \cup {"over"}]
    BY DEF Providers
  <2>4. hcur \in [Slots -> [esim : Esims \cup {NoEsim}, item : Items \cup {NoItem},
                            found : BOOLEAN]]
    OBVIOUS
  <2> QED BY <2>1, <2>2, <2>3, <2>4 DEF TypeOK
<1>2. ASSUME NEW h \in Slots PROVE HookInv(h)
  BY DEF HookInv
<1>3. ASSUME NEW e \in Esims PROVE RowInv(e)
  BY DEF RowInv
<1>4. MailInv
  BY DEF MailInv
<1> QED BY <1>1, <1>2, <1>3, <1>4 DEF IInv
-----------------------------------------------------------------------------
(* submitProviders.                                                        *)

LEMMA SubmissionKeepsInv ==
  ASSUME IInv, NEW o \in Orders, Submitting(o) \/ SaveFails(o) \/ Stop(o)
  PROVE  IInv'
<1> USE DEF rows, hooks, refunds, calls, history, Fault
<1>0. TypeOK
  BY DEF IInv
<1>1. CASE Ask(o)
  <2> USE <1>1 DEF Ask
  <2>1. PICK b \in Batches(o) :
          LET rs == {Ref(i) : i \in b} IN
          /\ \/ accepted' = accepted \cup rs
                /\ hand' = [hand EXCEPT ![o] = b]
                /\ UNCHANGED hurt
             \/ Fault(rs)
                /\ accepted' \in {accepted, accepted \cup rs}
                /\ UNCHANGED hand
          /\ todo' = [todo EXCEPT ![o] = @ \ b]
    OBVIOUS
  <2>2. b \subseteq Items
    <3>1. todo[o] \subseteq Items
      BY <1>0 DEF TypeOK
    <3> QED BY <3>1, FirstIsPart DEF Batches
  <2>3. {Ref(i) : i \in b} \subseteq Refs
    BY <2>2, RefTypes
  <2>4. accepted' \subseteq Refs /\ hurt' \subseteq Refs
    BY <1>0, <2>1, <2>3 DEF TypeOK
  <2>5. todo' \in [Orders -> SUBSET Items] /\ hand' \in [Orders -> SUBSET Items]
    BY <1>0, <2>1, <2>2 DEF TypeOK
  <2>6. TypeOK'
    BY <1>0, <2>4, <2>5, RefsStay DEF TypeOK
  <2> QED BY <2>6, QuietStep
<1>2. CASE Save(o)
  <2> USE <1>2 DEF Save
  <2>1. PICK i \in First(hand[o]) :
          saved' = saved \cup {i} /\ hand' = [hand EXCEPT ![o] = @ \ {i}]
    OBVIOUS
  <2>2. i \in Items
    BY <1>0, FirstIsPart DEF TypeOK
  <2>3. TypeOK'
    BY <1>0, <2>1, <2>2, RefsStay DEF TypeOK
  <2> QED BY <2>3, QuietStep
<1>3. CASE NextProvider(o)
  <2> USE <1>3 DEF NextProvider
  <2>1. at' \in [Orders -> Providers \cup {"over"}]
    BY <1>0 DEF TypeOK, Following, Providers
  <2>2. todo' \in [Orders -> SUBSET Items]
    BY <1>0 DEF TypeOK, Asked
  <2>3. TypeOK'
    BY <1>0, <2>1, <2>2, RefsStay DEF TypeOK
  <2> QED BY <2>3, QuietStep
<1>4. CASE SaveFails(o)
  <2> USE <1>4 DEF SaveFails
  <2>1. hurt' \subseteq Refs
    BY <1>0, RefTypes DEF TypeOK
  <2>2. at' \in [Orders -> Providers \cup {"over"}] /\ hand' \in [Orders -> SUBSET Items]
    BY <1>0 DEF TypeOK, Providers
  <2>3. TypeOK'
    BY <1>0, <2>1, <2>2, RefsStay DEF TypeOK
  <2> QED BY <2>3, QuietStep
<1>5. CASE Stop(o)
  <2> USE <1>5 DEF Stop
  <2>1. hurt' \subseteq Refs
    BY <1>0, RefTypes DEF TypeOK
  <2>2. at' \in [Orders -> Providers \cup {"over"}]
    BY <1>0 DEF TypeOK
  <2>3. todo' \in [Orders -> SUBSET Items] /\ hand' \in [Orders -> SUBSET Items]
    BY <1>0 DEF TypeOK
  <2>4. TypeOK'
    BY <1>0, <2>1, <2>2, <2>3, RefsStay DEF TypeOK
  <2> QED BY <2>4, QuietStep
<1> QED BY <1>1, <1>2, <1>3, <1>4, <1>5 DEF Submitting
-----------------------------------------------------------------------------
(* The webhooks.                                                           *)

LEMMA DeliverKeepsInv ==
  ASSUME IInv, NEW h \in Slots, NEW r \in Refs, Deliver(h, r)
  PROVE  IInv'
<1> USE DEF Deliver, submission, rows, refunds
<1>0. TypeOK
  BY DEF IInv
<1>1. TypeOK'
  <2>1. called' \subseteq Refs /\ repeats' \in 0..MaxRepeats
    BY <1>0, DeliveryAssumption DEF TypeOK
  <2>2. /\ hook' \in [Slots -> {"idle", "complete", "esims", "write"}]
        /\ href' \in [Slots -> Refs \cup {NoRef}]
    BY <1>0 DEF TypeOK
  <2>3. hitems' \in [Slots -> SUBSET Items]
    BY <1>0 DEF TypeOK, Of
  <2>4. early' \subseteq Refs /\ crossed' \subseteq Refs
    BY <1>0 DEF TypeOK
  <2>5. late' \subseteq Orders
    BY <1>0, RefTypes DEF TypeOK
  <2> QED BY <1>0, <2>1, <2>2, <2>3, <2>4, <2>5, RefsStay DEF TypeOK
<1>2. /\ hook'[h] = "complete" /\ href'[h] = r /\ hitems'[h] = Of(r) \cap saved
      /\ \A g \in Slots \ {h} : UNCHANGED <<hook[g], href[g], hitems[g]>>
      /\ UNCHANGED <<hleft, hcur, mailed>>
  BY <1>0 DEF TypeOK
<1>3. hook[h] = "idle"
  BY FirstIsPart
<1>4. HookInv(h)'
  BY <1>2, <1>3, RefsStay DEF IInv, HookInv
<1> QED BY <1>1, <1>2, <1>4, CallStep

\* The handler returns, and has sent e-mails of its own items only.
LEMMA ReturnKeepsInv ==
  ASSUME IInv, NEW h \in Slots, Return(h), UNCHANGED <<submission, rows, usage, refunds, calls, history>>,
         hurt' \subseteq Refs,
         \A m \in mailed' : \/ m \in mailed
                            \/ \E e \in Esims : itemOf[e] \in hitems[h] /\ m = <<e, BuyerOf(href[h])>>
  PROVE  IInv'
<1> USE DEF Return, Goto, submission, rows, refunds, calls, history
<1>0. TypeOK /\ HookInv(h)
  BY DEF IInv
<1>1. ASSUME NEW e \in Esims, itemOf[e] \in hitems[h]
      PROVE  BuyerOf(href[h]) = BuyerOf(RefOf(e)) /\ BuyerOf(href[h]) \in Orders
  <2>1. itemOf[e] \in Items /\ Ref(itemOf[e]) = href[h]
    BY <1>0, <1>1 DEF HookInv, Of
  <2>2. RefOf(e) = href[h]
    BY <2>1, DeliveryAssumption DEF IInv, RowInv, FitsEsim
  <2> QED BY <2>2, RefTypes
<1>2. TypeOK'
  <2>1. mailed' \subseteq Esims \X Orders
    BY <1>0, <1>1 DEF TypeOK
  <2>2. /\ hook' \in [Slots -> {"idle", "complete", "esims", "write"}]
        /\ href' \in [Slots -> Refs \cup {NoRef}]
        /\ hitems' \in [Slots -> SUBSET Items] /\ hleft' \in [Slots -> SUBSET Esims]
    BY <1>0 DEF TypeOK
  <2>3. hgiven' \in [Slots -> [Items -> Nat]]
    BY <1>0 DEF TypeOK
  <2>4. hcur' \in [Slots -> [esim : Esims \cup {NoEsim}, item : Items \cup {NoItem},
                             found : BOOLEAN]]
    BY <1>0 DEF TypeOK
  <2> QED BY <1>0, <2>1, <2>2, <2>3, <2>4, RefsStay DEF TypeOK
<1>3. /\ hook'[h] = "idle" /\ hitems'[h] = {} /\ hleft'[h] = {}
      /\ \A g \in Slots \ {h} :
           UNCHANGED <<hook[g], href[g], hitems[g], hleft[g], hcur[g]>>
  BY <1>0 DEF TypeOK
<1>4. HookInv(h)'
  BY <1>3 DEF HookInv
<1>5. \A m \in mailed' : m \in mailed \/ m[2] = BuyerOf(RefOf(m[1]))
  BY <1>1
<1> QED BY <1>2, <1>3, <1>4, <1>5, CallStep

LEMMA HandleKeepsInv ==
  ASSUME IInv, NEW h \in Slots, CompleteItem(h) \/ List(h) \/ Mail(h) \/ Die(h)
  PROVE  IInv'
<1> USE DEF rows, Fault, history
<1>0. TypeOK /\ HookInv(h)
  BY DEF IInv
<1>1. CASE CompleteItem(h)
  <2> USE <1>1 DEF CompleteItem
  <2>1. TypeOK'
    <3>1. status' \in [Items -> {"pending", "completed"}]
      BY <1>0 DEF TypeOK
    <3> QED BY <1>0, <3>1, RefsStay DEF TypeOK, submission, hooks, refunds, calls
  <2> QED BY <2>1, QuietStep DEF submission
<1>2. CASE List(h)
  <2> USE <1>2 DEF List
  <2>1. CASE Return(h)
    <3>1. hurt' \subseteq Refs
      BY <1>0 DEF TypeOK, HookInv
    <3> QED BY <2>1, <3>1, ReturnKeepsInv
  <2>2. CASE ~Return(h)
    <3> USE <2>2 DEF Goto
    <3>1. TypeOK'
      <4>1. hleft' \in [Slots -> SUBSET Esims]
        <5>1. hleft' = [hleft EXCEPT ![h] = {e \in Esims : RefOf(e) = href[h]}]
          OBVIOUS
        <5>2. hleft \in [Slots -> SUBSET Esims]
          BY <1>0 DEF TypeOK
        <5> QED BY <5>1, <5>2
      <4>2. hook' \in [Slots -> {"idle", "complete", "esims", "write"}]
        <5>1. hook' = [hook EXCEPT ![h] = "esims"]
          OBVIOUS
        <5>2. hook \in [Slots -> {"idle", "complete", "esims", "write"}]
          BY <1>0 DEF TypeOK
        <5> QED BY <5>1, <5>2
      <4>3. UNCHANGED <<href, hitems, hgiven, hcur, hurt>>
        OBVIOUS
      <4> QED BY <1>0, <4>1, <4>2, <4>3, RefsStay DEF TypeOK, submission, refunds, calls
    <3>2. /\ hook'[h] = "esims" /\ hleft'[h] = {e \in Esims : RefOf(e) = href[h]}
          /\ hook[h] = "complete"
          /\ \A g \in Slots \ {h} : UNCHANGED <<hook[g], hleft[g]>>
          /\ UNCHANGED <<href, hitems, hcur>>
      BY <1>0 DEF TypeOK
    <3>3. HookInv(h)'
      BY <1>0, <3>2, RefsStay DEF HookInv, submission
    <3> QED BY <3>1, <3>2, <3>3, CallStep DEF submission
  <2> QED BY <2>1, <2>2
<1>3. CASE Mail(h)
  <2> USE <1>3 DEF Mail
  <2>1. hurt' \subseteq Refs
    BY <1>0 DEF TypeOK, HookInv
  <2>2. \A m \in mailed' : \/ m \in mailed
                           \/ \E e \in Esims : itemOf[e] \in hitems[h] /\ m = <<e, BuyerOf(href[h])>>
    OBVIOUS
  <2> QED BY <2>1, <2>2, ReturnKeepsInv
<1>4. CASE Die(h)
  <2> USE <1>4 DEF Die
  <2>1. hurt' \subseteq Refs
    BY <1>0 DEF TypeOK, HookInv
  <2> QED BY <2>1, ReturnKeepsInv
<1> QED BY <1>1, <1>2, <1>3, <1>4

\* The item that a call finds for an eSIM is one the eSIM was made for.
LEMMA MatchesFit ==
  ASSUME TypeOK, NEW h \in Slots, NEW e \in Esims, HookInv(h), RefOf(e) = href[h],
         NEW i \in Matches(h, e)
  PROVE  i \in Items /\ FitsEsim(i, e)
<1>1. i \in hitems[h]
  BY DEF Matches
<1>2. i \in Items /\ Ref(i) = href[h]
  BY <1>1 DEF HookInv, Of
<1>3. CASE href[h] \in Orders
  <2>1. PlanOf[i] = PlanOf[MadeFor[e]]
    BY <1>3 DEF Matches
  <2> QED BY <1>2, <2>1 DEF FitsEsim
<1>4. CASE href[h] \notin Orders
  <2>1. MadeFor[e] \in Items
    BY DeliveryAssumption
  <2>2. i = href[h] /\ MadeFor[e] = href[h]
    BY <1>2, <1>4, <2>1, DeliveryAssumption DEF Ref, RefOf
  <2> QED BY <1>2, <2>2 DEF FitsEsim
<1> QED BY <1>3, <1>4

LEMMA FindKeepsInv ==
  ASSUME IInv, NEW h \in Slots, Find(h)
  PROVE  IInv'
<1> USE DEF Find, Goto, submission, rows, refunds, calls, history
<1>0. TypeOK /\ HookInv(h)
  BY DEF IInv
<1>1. PICK e \in First(hleft[h]) :
        /\ \E i \in IF Matches(h, e) = {} THEN {NoItem} ELSE Matches(h, e) :
             /\ hcur' = [hcur EXCEPT ![h] = [esim |-> e, item |-> i,
                                             found |-> esim[e] # "none"]]
             /\ hgiven' = [hgiven EXCEPT ![h] =
                             [j \in Items |-> IF j = i THEN @[j] + 1 ELSE @[j]]]
        /\ hleft' = [hleft EXCEPT ![h] = @ \ {e}]
  OBVIOUS
<1>2. e \in hleft[h] /\ e \in Esims /\ RefOf(e) = href[h]
  BY <1>0, FirstIsPart DEF TypeOK, HookInv
<1>3. PICK i \in IF Matches(h, e) = {} THEN {NoItem} ELSE Matches(h, e) :
             /\ hcur' = [hcur EXCEPT ![h] = [esim |-> e, item |-> i,
                                             found |-> esim[e] # "none"]]
             /\ hgiven' = [hgiven EXCEPT ![h] =
                             [j \in Items |-> IF j = i THEN @[j] + 1 ELSE @[j]]]
  BY <1>1
<1>4. i = NoItem \/ (i \in Items /\ FitsEsim(i, e))
  BY <1>0, <1>2, MatchesFit
<1>5. TypeOK'
  <2>1. hcur' \in [Slots -> [esim : Esims \cup {NoEsim}, item : Items \cup {NoItem},
                             found : BOOLEAN]]
    BY <1>0, <1>2, <1>3, <1>4 DEF TypeOK
  <2>2. hgiven' \in [Slots -> [Items -> Nat]]
    <3>1. hgiven[h] \in [Items -> Nat]
      BY <1>0 DEF TypeOK
    <3>2. [j \in Items |-> IF j = i THEN hgiven[h][j] + 1 ELSE hgiven[h][j]] \in [Items -> Nat]
      BY <3>1
    <3> QED BY <1>0, <1>3, <3>2 DEF TypeOK
  <2>3. /\ hook' \in [Slots -> {"idle", "complete", "esims", "write"}]
        /\ hleft' \in [Slots -> SUBSET Esims]
    BY <1>0, <1>1 DEF TypeOK
  <2> QED BY <1>0, <2>1, <2>2, <2>3, RefsStay DEF TypeOK
<1>6. /\ hook'[h] = "write" /\ hleft'[h] = hleft[h] \ {e} /\ hook[h] = "esims"
      /\ hcur'[h].esim = e /\ hcur'[h].item = i
      /\ \A g \in Slots \ {h} : UNCHANGED <<hook[g], hleft[g], hcur[g]>>
      /\ UNCHANGED <<href, hitems>>
  BY <1>0, <1>1, <1>3 DEF TypeOK
<1>7. HookInv(h)'
  BY <1>0, <1>2, <1>4, <1>6, RefsStay DEF HookInv
<1> QED BY <1>5, <1>6, <1>7, CallStep

LEMMA UpsertKeepsInv ==
  ASSUME IInv, NEW h \in Slots, Upsert(h)
  PROVE  IInv'
<1> DEFINE e == hcur[h].esim
           i == hcur[h].item
           o == IF hitems[h] = {} THEN NoOrder ELSE BuyerOf(href[h])
<1> USE DEF Upsert, Goto, Fault, submission, refunds, calls, history
<1>0. TypeOK /\ HookInv(h)
  BY DEF IInv
<1>1. /\ hook[h] = "write" /\ e \in Esims /\ i \in Items \cup {NoItem} /\ RefOf(e) = href[h]
      /\ i # NoItem => FitsEsim(i, e)
      /\ o \in {NoOrder, BuyerOf(RefOf(e))} /\ o \in Orders \cup {NoOrder}
  BY <1>0, RefTypes DEF TypeOK, HookInv
<1>2. \/ /\ esim' = [esim EXCEPT ![e] = "available"]
         /\ itemOf' = [itemOf EXCEPT ![e] = IF i = NoItem THEN @ ELSE i]
         /\ buyer' = [buyer EXCEPT ![e] = IF o = NoOrder THEN @ ELSE o]
         /\ UNCHANGED hurt
      \/ UNCHANGED <<esim, itemOf, buyer>> /\ hurt' \subseteq hurt \cup {href[h]}
  OBVIOUS
<1> HIDE DEF e, i, o
<1>3. TypeOK'
  <2>1. /\ esim' \in [Esims -> {"none", "available", "refunded"}]
        /\ itemOf' \in [Esims -> Items \cup {NoItem}]
        /\ buyer' \in [Esims -> Orders \cup {NoOrder}]
    <3>1. /\ esim \in [Esims -> {"none", "available", "refunded"}]
          /\ itemOf \in [Esims -> Items \cup {NoItem}]
          /\ buyer \in [Esims -> Orders \cup {NoOrder}]
      BY <1>0 DEF TypeOK
    <3>2. esim' \in [Esims -> {"none", "available", "refunded"}]
      BY <1>1, <1>2, <3>1
    <3>3. itemOf' \in [Esims -> Items \cup {NoItem}]
      BY <1>1, <1>2, <3>1
    <3>4. buyer' \in [Esims -> Orders \cup {NoOrder}]
      BY <1>1, <1>2, <3>1
    <3> QED BY <3>2, <3>3, <3>4
  <2>2. hurt' \subseteq Refs
    BY <1>0, <1>1, <1>2 DEF TypeOK, HookInv
  <2>3. hook' \in [Slots -> {"idle", "complete", "esims", "write"}]
    BY <1>0 DEF TypeOK
  <2> QED BY <1>0, <2>1, <2>2, <2>3, RefsStay DEF TypeOK
<1>4. ASSUME NEW f \in Esims PROVE RowInv(f)'
  <2>1. RowInv(f)
    BY DEF IInv
  <2>2. itemOf'[f] = itemOf[f] \/ (f = e /\ itemOf'[f] = i /\ i # NoItem)
    BY <1>0, <1>2 DEF TypeOK
  <2>3. buyer'[f] = buyer[f] \/ (f = e /\ buyer'[f] = o)
    BY <1>0, <1>2 DEF TypeOK
  <2> QED BY <1>1, <2>1, <2>2, <2>3, RefsStay DEF RowInv, BuyerOf
<1>5. ASSUME NEW g \in Slots PROVE HookInv(g)'
  <2>1. /\ hook'[g] = hook[g] \/ (g = h /\ hook'[g] = "esims" /\ hook[g] = "write")
        /\ UNCHANGED <<href, hitems, hleft, hcur>>
    BY <1>0, <1>1 DEF TypeOK
  <2> QED BY <2>1, RefsStay DEF IInv, HookInv
<1>6. MailInv'
  BY RefsStay DEF IInv, MailInv, BuyerOf
<1> QED BY <1>3, <1>4, <1>5, <1>6 DEF IInv
-----------------------------------------------------------------------------
(* Refunds and polls.                                                      *)

LEMMA RefundKeepsInv ==
  ASSUME IInv, NEW o \in Orders, Refund(o) \/ Refunding(o)
  PROVE  IInv'
<1> USE DEF submission, rows, hooks, calls, Fault
<1>0. TypeOK
  BY DEF IInv
<1>1. CASE Refund(o)
  <2> USE <1>1 DEF Refund
  <2>1. TypeOK'
    BY <1>0, RefsStay DEF TypeOK, BuyersItems
  <2> QED BY <2>1, QuietStep
<1>2. CASE CancelItem(o)
  <2> USE <1>2 DEF CancelItem
  <2>1. PICK i \in First(rtodo[o]) :
          /\ \/ recalled' = recalled \cup ToCancel(i) /\ UNCHANGED hurt
             \/ \E s \in SUBSET ToCancel(i) :
                  Fault({Ref(i)}) /\ recalled' = recalled \cup s
          /\ rtodo' = [rtodo EXCEPT ![o] = @ \ {i}]
    OBVIOUS
  <2>2. i \in Items
    BY <1>0, FirstIsPart DEF TypeOK
  <2>3. ToCancel(i) \subseteq Esims \cup Refs
    <3>1. CASE provider[i] = "esimaccess"
      BY <3>1 DEF ToCancel
    <3>2. CASE provider[i] = "gadgetkorea"
      <4>1. Ref(i) = i
        BY <3>2 DEF Ref
      <4> QED BY <2>2, <3>2, <4>1, RefTypes DEF ToCancel
    <3>3. CASE provider[i] \notin {"esimaccess", "gadgetkorea"}
      BY <3>3 DEF ToCancel
    <3> QED BY <3>1, <3>2, <3>3
  <2>4. recalled' \subseteq Esims \cup Refs /\ hurt' \subseteq Refs
    BY <1>0, <2>1, <2>2, <2>3, RefTypes DEF TypeOK
  <2>5. rtodo' \in [Orders -> SUBSET Items]
    BY <1>0, <2>1 DEF TypeOK
  <2>6. TypeOK'
    BY <1>0, <2>4, <2>5, RefsStay DEF TypeOK, history
  <2> QED BY <2>6, QuietStep
<1>3. CASE MarkRefunded(o)
  <2> USE <1>3 DEF MarkRefunded
  <2>1. esim' \in [Esims -> {"none", "available", "refunded"}] /\ hurt' \subseteq Refs
    <3>1. {Ref(i) : i \in BuyersItems(o)} \subseteq Refs
      BY RefTypes DEF BuyersItems
    <3> QED BY <1>0, <3>1 DEF TypeOK
  <2>2. refund' \in [Orders -> {"none", "cancel", "done"}] /\ late' \subseteq Orders
    BY <1>0 DEF TypeOK
  <2>3. TypeOK'
    BY <1>0, <2>1, <2>2, RefsStay DEF TypeOK
  <2> QED BY <2>3, QuietStep
<1> QED BY <1>1, <1>2, <1>3 DEF Refunding

LEMMA PollKeepsInv ==
  ASSUME IInv, (\E e \in Polled : ReadUsage(e)) \/ SaveUsage
  PROVE  IInv'
<1> USE DEF submission, rows, hooks, refunds, calls, history
<1>0. TypeOK
  BY DEF IInv
<1>1. CASE \E e \in Polled : ReadUsage(e)
  <2>1. TypeOK'
    BY <1>0, <1>1, RefsStay, DeliveryAssumption DEF TypeOK, ReadUsage
  <2> QED BY <1>1, <2>1, QuietStep DEF ReadUsage
<1>2. CASE SaveUsage
  <2>1. TypeOK'
    BY <1>0, <1>2, RefsStay DEF TypeOK, SaveUsage
  <2> QED BY <1>2, <2>1, QuietStep DEF SaveUsage
<1> QED BY <1>1, <1>2

LEMMA NextKeepsInv == IInv /\ [Next]_vars => IInv'
<1> SUFFICES ASSUME IInv, [Next]_vars PROVE IInv' OBVIOUS
<1>1. CASE UNCHANGED vars
  <2> USE <1>1 DEF vars, submission, rows, hooks, refunds, calls, history
  <2>1. TypeOK'
    BY RefsStay DEF IInv, TypeOK
  <2> QED BY <2>1, QuietStep
<1>2. CASE Next
  BY <1>2, SubmissionKeepsInv, DeliverKeepsInv, HandleKeepsInv, FindKeepsInv, UpsertKeepsInv,
     RefundKeepsInv, PollKeepsInv DEF Next, Handling
<1> QED BY <1>1, <1>2
-----------------------------------------------------------------------------
(* Refunds: what is recalled stays so, as long as nothing else runs on the order.  *)

\* The submission keeps to the items of its order, and has none left at its end.
SubmissionInv(o) ==
  /\ todo[o] \subseteq BuyersItems(o) /\ hand[o] \subseteq BuyersItems(o)
  /\ at[o] = "over" => todo[o] = {} /\ hand[o] = {}
  /\ at[o] # "airalo" /\ hand[o] # {} => todo[o] = {}

\* Neither the submission of an order nor a webhook of it is under way.
Alone(o) == at[o] = "over" /\ \A r \in Refs : BuyerOf(r) = o => ~Busy(r)

\* What the refund has come to is recalled, and marked at its end.
RefundInv(o) ==
  refund[o] # "none" /\ o \notin late =>
    /\ Alone(o)
    /\ \A i \in BuyersItems(o) : Ref(i) \notin hurt =>
         /\ i \notin rtodo[o] => ToCancel(i) \subseteq recalled
         /\ refund[o] = "done" => /\ i \notin rtodo[o]
                                  /\ \A e \in Esims : itemOf[e] = i => esim[e] = "refunded"

\* A poll that a refund overtook is known of.
Polling(o) == refund[o] = "cancel" \/ (refund[o] = "done" /\ o \in late)

PollInv ==
  usage.esim # NoEsim => itemOf[usage.esim] # NoItem /\ Polling(BuyerOf(RefOf(usage.esim)))

RecallInv == (\A o \in Orders : SubmissionInv(o) /\ RefundInv(o)) /\ PollInv

LEMMA BuyerOfItem ==
  ASSUME NEW i \in Items
  PROVE  BuyerOf(Ref(i)) = OrderOf[i] /\ i \in BuyersItems(OrderOf[i])
<1>1. CASE provider[i] = "esimaccess"
  BY <1>1, DeliveryAssumption DEF Ref, BuyerOf, BuyersItems
<1>2. CASE provider[i] # "esimaccess"
  BY <1>2, DeliveryAssumption DEF Ref, BuyerOf, BuyersItems
<1> QED BY <1>1, <1>2

\* The item an eSIM is at belongs to the order the eSIM was made for.
LEMMA BuyerOfEsim ==
  ASSUME IInv, NEW e \in Esims, NEW o \in Orders, itemOf[e] \in BuyersItems(o)
  PROVE  itemOf[e] \in Items /\ BuyerOf(RefOf(e)) = o /\ OrderOf[itemOf[e]] = o
<1>1. itemOf[e] \in Items /\ OrderOf[itemOf[e]] = o
  BY DEF BuyersItems
<1>2. Ref(itemOf[e]) = RefOf(e)
  BY <1>1, DeliveryAssumption DEF IInv, RowInv, FitsEsim
<1>3. BuyerOf(Ref(itemOf[e])) = OrderOf[itemOf[e]]
  BY <1>1, BuyerOfItem
<1> QED BY <1>1, <1>2, <1>3

LEMMA ToCancelStays ==
  ASSUME UNCHANGED provider, NEW i \in Items, i \in saved' => i \in saved,
         \A e \in Esims : itemOf'[e] = i => itemOf[e] = i
  PROVE  ToCancel(i)' \subseteq ToCancel(i)
<1>1. CASE provider[i] = "esimaccess"
  BY <1>1 DEF ToCancel
<1>2. CASE provider[i] = "gadgetkorea"
  BY <1>2 DEF ToCancel
<1>3. CASE provider[i] \notin {"esimaccess", "gadgetkorea"}
  BY <1>3 DEF ToCancel
<1> QED BY <1>1, <1>2, <1>3

\* A refund of another order, or a step beside it.
LEMMA RefundStays ==
  ASSUME UNCHANGED provider, NEW o \in Orders, RefundInv(o), UNCHANGED <<refund[o], rtodo[o]>>,
         late \subseteq late', hurt \subseteq hurt', recalled \subseteq recalled',
         refund[o] # "none" /\ o \notin late' /\ Alone(o) =>
           /\ Alone(o)'
           /\ \A i \in BuyersItems(o) :
                /\ i \in saved' => i \in saved
                /\ \A e \in Esims : itemOf'[e] = i =>
                     /\ itemOf[e] = i
                     /\ refund[o] = "done" /\ esim[e] = "refunded" => esim'[e] = "refunded"
  PROVE  RefundInv(o)'
<1> SUFFICES ASSUME refund[o] # "none", o \notin late'
             PROVE  RefundInv(o)'
  BY DEF RefundInv
<1>1. Alone(o) /\ Alone(o)'
  BY DEF RefundInv
<1>2. ASSUME NEW i \in BuyersItems(o), Ref(i) \notin hurt'
      PROVE  /\ i \notin rtodo[o] => ToCancel(i)' \subseteq recalled'
             /\ refund[o] = "done" => /\ i \notin rtodo[o]
                                      /\ \A e \in Esims : itemOf'[e] = i => esim'[e] = "refunded"
  <2>1. /\ i \notin rtodo[o] => ToCancel(i) \subseteq recalled
        /\ refund[o] = "done" => /\ i \notin rtodo[o]
                                 /\ \A e \in Esims : itemOf[e] = i => esim[e] = "refunded"
    BY <1>2 DEF RefundInv
  <2>2. /\ i \in saved' => i \in saved
        /\ \A e \in Esims : itemOf'[e] = i =>
             /\ itemOf[e] = i
             /\ refund[o] = "done" /\ esim[e] = "refunded" => esim'[e] = "refunded"
    BY <1>1
  <2>3. i \in Items
    BY DEF BuyersItems
  <2>4. ToCancel(i)' \subseteq ToCancel(i)
    BY <2>2, <2>3, ToCancelStays
  <2> QED BY <2>1, <2>2, <2>4
<1> QED BY <1>1, <1>2, RefsStay DEF RefundInv, BuyersItems

\* Only the hooks and the submission tell whether an order is alone.
LEMMA AloneStays ==
  ASSUME UNCHANGED <<provider, hook, href>>, NEW o \in Orders, Alone(o), at'[o] = "over"
  PROVE  Alone(o)'
  BY RefsStay DEF Alone, Busy, BuyerOf

LEMMA InitRecall == Init => RecallInv
<1> SUFFICES ASSUME Init PROVE RecallInv
  OBVIOUS
<1>1. ASSUME NEW o \in Orders PROVE SubmissionInv(o) /\ RefundInv(o)
  BY DEF Init, SubmissionInv, RefundInv, Asked, BuyersItems
<1>2. PollInv
  BY DEF Init, PollInv
<1> QED BY <1>1, <1>2 DEF RecallInv

LEMMA SubmissionKeepsRecall ==
  ASSUME IInv, IInv', RecallInv, NEW o \in Orders, Submitting(o) \/ SaveFails(o) \/ Stop(o)
  PROVE  RecallInv'
<1> USE DEF rows, hooks, refunds, calls, history, Fault
<1>0. TypeOK /\ SubmissionInv(o)
  BY DEF IInv, RecallInv
<1>1. UNCHANGED <<provider, rows, hooks, usage, refunds, late>> /\ hurt \subseteq hurt'
  BY DEF Submitting, Ask, Save, NextProvider, SaveFails, Stop
<1>2. \A p \in Orders \ {o} : UNCHANGED <<at[p], todo[p], hand[p]>>
  BY <1>0 DEF Submitting, Ask, Save, NextProvider, SaveFails, Stop, TypeOK
<1>3. SubmissionInv(o)'
  <2>1. CASE Ask(o)
    <3>1. PICK b \in Batches(o) :
            /\ hand'[o] \in {hand[o], b} /\ todo'[o] = todo[o] \ b
      BY <1>0, <2>1 DEF Ask, TypeOK
    <3>2. at'[o] = at[o] /\ todo[o] # {} /\ hand[o] = {}
      BY <2>1 DEF Ask
    <3>3. b \subseteq todo[o] /\ (at[o] # "airalo" => b = todo[o])
      BY <3>1, FirstIsPart DEF Batches
    <3> QED BY <1>0, <3>1, <3>2, <3>3 DEF SubmissionInv, BuyersItems
  <2>2. CASE Save(o)
    <3>1. hand'[o] \subseteq hand[o] /\ UNCHANGED <<at[o], todo[o]>>
      BY <1>0, <2>2 DEF Save, TypeOK
    <3> QED BY <1>0, <3>1 DEF SubmissionInv, BuyersItems
  <2>3. CASE NextProvider(o)
    <3>1. /\ at[o] \in Providers /\ at'[o] = Following[at[o]] /\ hand'[o] = {}
          /\ todo'[o] = Asked(o, Following[at[o]])
      BY <1>0, <2>3 DEF NextProvider, TypeOK
    <3>2. at'[o] = "over" => todo'[o] = {}
      <4>1. \A i \in Items : provider[i] # "over"
        BY <1>0 DEF TypeOK, Providers
      <4>2. Asked(o, "over") = {}
        BY <4>1 DEF Asked
      <4> QED BY <3>1, <4>2
    <3> QED BY <3>1, <3>2 DEF SubmissionInv, BuyersItems, Asked
  <2>4. CASE SaveFails(o)
    <3>1. hand[o] # {} /\ hand'[o] = {} /\ todo'[o] = todo[o]
      BY <1>0, <2>4 DEF SaveFails, TypeOK
    <3>2. at'[o] = "over" => at[o] \in {"gadgetkorea", "over"}
      BY <1>0, <2>4 DEF SaveFails, TypeOK
    <3> QED BY <1>0, <3>1, <3>2 DEF SubmissionInv, BuyersItems
  <2>5. CASE Stop(o)
    <3>1. hand'[o] = {} /\ todo'[o] = {}
      BY <1>0, <2>5 DEF Stop, TypeOK
    <3> QED BY <3>1 DEF SubmissionInv, BuyersItems
  <2> QED BY <2>1, <2>2, <2>3, <2>4, <2>5 DEF Submitting
<1>4. \A i \in saved' \ saved : i \in BuyersItems(o) /\ at[o] # "over"
  <2>1. CASE Save(o)
    <3>1. saved' \subseteq saved \cup hand[o] /\ hand[o] # {}
      BY <2>1, FirstIsPart DEF Save
    <3> QED BY <1>0, <3>1 DEF SubmissionInv
  <2>2. CASE ~Save(o)
    BY <2>2 DEF Submitting, Ask, NextProvider, SaveFails, Stop
  <2> QED BY <2>1, <2>2
<1>5. at[o] = "over" => at'[o] = "over"
  BY <1>0 DEF Submitting, Ask, Save, NextProvider, SaveFails, Stop, TypeOK
<1>6. ASSUME NEW p \in Orders
      PROVE  SubmissionInv(p)' /\ RefundInv(p)'
  <2>1. SubmissionInv(p)'
    <3>1. CASE p = o
      BY <1>3, <3>1
    <3>2. CASE p # o
      BY <1>2, <3>2 DEF RecallInv, SubmissionInv, BuyersItems
    <3> QED BY <3>1, <3>2
  <2>2. ASSUME Alone(p)
        PROVE  /\ Alone(p)'
               /\ \A i \in BuyersItems(p) : i \in saved' => i \in saved
    <3>1. at[p] = "over" /\ at'[p] = "over"
      BY <1>2, <1>5, <2>2 DEF Alone
    <3>2. Alone(p)'
      BY <1>1, <2>2, <3>1, AloneStays
    <3> QED BY <1>4, <3>1, <3>2 DEF BuyersItems
  <2>3. RefundInv(p)
    BY DEF RecallInv
  <2>4. RefundInv(p)'
    BY <1>1, <2>2, <2>3, RefundStays
  <2> QED BY <2>1, <2>4
<1>7. PollInv'
  BY <1>1, RefsStay DEF RecallInv, PollInv, Polling, BuyerOf
<1> QED BY <1>6, <1>7 DEF RecallInv

\* A webhook that comes to a refunded order makes its refund late.
LEMMA DeliverKeepsRecall ==
  ASSUME IInv, IInv', RecallInv, NEW h \in Slots, NEW r \in Refs, Deliver(h, r)
  PROVE  RecallInv'
<1> USE DEF submission, rows, refunds
<1>0. TypeOK
  BY DEF IInv
<1>1. /\ UNCHANGED <<submission, rows, usage, refunds, hurt>>
      /\ late \subseteq late'
      /\ refund[BuyerOf(r)] # "none" => BuyerOf(r) \in late'
  BY DEF Deliver
<1>2. /\ href'[h] = r /\ \A g \in Slots \ {h} : UNCHANGED <<hook[g], href[g]>>
  BY <1>0 DEF Deliver, TypeOK
<1>3. ASSUME NEW p \in Orders
      PROVE  SubmissionInv(p)' /\ RefundInv(p)'
  <2>1. SubmissionInv(p)'
    BY <1>1 DEF RecallInv, SubmissionInv, BuyersItems
  <2>2. ASSUME Alone(p), refund[p] # "none", p \notin late'
        PROVE  Alone(p)'
    <3>1. p # BuyerOf(r)
      BY <1>1, <2>2
    <3>2. \A s \in Refs : BuyerOf(s) = p => s # r /\ ~Busy(s)
      BY <2>2, <3>1 DEF Alone
    <3>3. \A s \in Refs : BuyerOf(s) = p => ~Busy(s)'
      BY <1>2, <3>2 DEF Busy
    <3> QED BY <1>1, <2>2, <3>3, RefsStay DEF Alone, BuyerOf
  <2>3. RefundInv(p)
    BY DEF RecallInv
  <2>4. RefundInv(p)'
    BY <1>1, <2>2, <2>3, RefundStays
  <2> QED BY <2>1, <2>4
<1>4. PollInv'
  BY <1>1, RefsStay DEF RecallInv, PollInv, Polling, BuyerOf
<1> QED BY <1>3, <1>4 DEF RecallInv

\* A webhook under way: its order is not alone.
LEMMA HandlingKeepsRecall ==
  ASSUME IInv, IInv', RecallInv, NEW h \in Slots, Handling(h) \/ Die(h)
  PROVE  RecallInv'
<1> USE DEF submission, rows, refunds, history
<1> DEFINE r == href[h]
<1>0. TypeOK /\ HookInv(h)
  BY DEF IInv
<1>1. /\ UNCHANGED <<submission, refunds, late, usage>> /\ hurt \subseteq hurt'
  BY DEF Handling, CompleteItem, List, Find, Upsert, Mail, Die, Fault
<1>2. hook[h] # "idle" /\ r \in Refs
  BY <1>0 DEF Handling, CompleteItem, List, Find, Upsert, Mail, Die, HookInv
<1>3. /\ \A g \in Slots \ {h} : UNCHANGED <<hook[g], href[g]>>
      /\ href'[h] = r \/ hook'[h] = "idle"
  BY <1>0 DEF Handling, CompleteItem, List, Find, Upsert, Mail, Die, Return, Goto, hooks, TypeOK
<1>4. /\ \A e \in Esims : RefOf(e) # r => UNCHANGED <<esim[e], itemOf[e]>>
      /\ \A e \in Esims : itemOf[e] # NoItem => itemOf'[e] # NoItem
  <2>1. CASE Upsert(h)
    <3>1. PICK e \in Esims : e = hcur[h].esim /\ RefOf(e) = r
      BY <1>0, <2>1 DEF Upsert, HookInv
    <3>2. PICK i : i = hcur[h].item
      OBVIOUS
    <3>3. \/ UNCHANGED <<esim, itemOf>>
          \/ /\ esim' = [esim EXCEPT ![e] = "available"]
             /\ itemOf' = [itemOf EXCEPT ![e] = IF i = NoItem THEN @ ELSE i]
      BY <2>1, <3>1, <3>2 DEF Upsert
    <3>4. \A f \in Esims : f # e => UNCHANGED <<esim[f], itemOf[f]>>
      BY <1>0, <3>3 DEF TypeOK
    <3>5. itemOf[e] # NoItem => itemOf'[e] # NoItem
      BY <1>0, <3>3 DEF TypeOK
    <3> QED BY <3>1, <3>4, <3>5
  <2>2. CASE ~Upsert(h)
    BY <2>2 DEF Handling, CompleteItem, List, Find, Mail, Die
  <2> QED BY <2>1, <2>2
<1>5. ASSUME NEW p \in Orders
      PROVE  SubmissionInv(p)' /\ RefundInv(p)'
  <2>1. SubmissionInv(p)'
    BY <1>1 DEF RecallInv, SubmissionInv, BuyersItems
  <2>2. ASSUME Alone(p)
        PROVE  /\ Alone(p)'
               /\ \A i \in BuyersItems(p), e \in Esims : itemOf'[e] = i =>
                    itemOf[e] = i /\ esim'[e] = esim[e]
    <3>1. BuyerOf(r) # p
      BY <1>2, <2>2 DEF Alone, Busy
    <3>2. \A s \in Refs : BuyerOf(s) = p => ~Busy(s)'
      BY <1>3, <2>2, <3>1 DEF Alone, Busy
    <3>3. Alone(p)'
      BY <1>1, <2>2, <3>2, RefsStay DEF Alone, BuyerOf
    <3>4. ASSUME NEW e \in Esims, itemOf'[e] \in BuyersItems(p)
          PROVE  UNCHANGED <<esim[e], itemOf[e]>>
      <4>1. BuyerOf(RefOf(e)) = p
        <5>1. BuyerOf(Ref(itemOf'[e])) = p
          BY <3>4, BuyerOfItem DEF BuyersItems
        <5>2. Ref(itemOf'[e]) = RefOf(e)
          <6>1. itemOf'[e] # NoItem
            BY <3>4, DeliveryAssumption DEF BuyersItems
          <6>2. RowInv(e)'
            BY DEF IInv
          <6>3. FitsEsim(itemOf[e], e)'
            BY <6>1, <6>2 DEF RowInv
          <6>4. (Ref(itemOf[e]))' = RefOf(e)'
            BY <6>3 DEF FitsEsim
          <6> QED BY <1>1, <6>4 DEF Ref, RefOf
        <5> QED BY <5>1, <5>2
      <4> QED BY <1>4, <3>1, <4>1
    <3> QED BY <3>3, <3>4
  <2>3. RefundInv(p)
    BY DEF RecallInv
  <2>4. RefundInv(p)'
    BY <1>1, <2>2, <2>3, RefundStays
  <2> QED BY <2>1, <2>4
<1>6. PollInv'
  BY <1>0, <1>1, <1>4, RefsStay DEF RecallInv, PollInv, Polling, BuyerOf, TypeOK
<1> QED BY <1>5, <1>6 DEF RecallInv

LEMMA RefundKeepsRecall ==
  ASSUME IInv, IInv', RecallInv, NEW o \in Orders, Refund(o) \/ Refunding(o)
  PROVE  RecallInv'
<1> USE DEF submission, rows, hooks
<1>0. TypeOK /\ TypeOK' /\ RefundInv(o)
  BY DEF IInv, RecallInv
<1>1. /\ UNCHANGED <<submission, status, itemOf, buyer, hooks, usage>> /\ hurt \subseteq hurt'
      /\ recalled \subseteq recalled'
      /\ \A p \in Orders \ {o} : UNCHANGED <<refund[p], rtodo[p]>> /\ (p \in late' <=> p \in late)
      /\ \A e \in Esims : esim'[e] \in {esim[e], "refunded"}
  BY <1>0 DEF Refund, Refunding, CancelItem, MarkRefunded, Fault, refunds, history, TypeOK
<1>2. ASSUME NEW p \in Orders
      PROVE  SubmissionInv(p)'
  BY <1>1 DEF RecallInv, SubmissionInv, BuyersItems
<1>3. ASSUME NEW p \in Orders, p # o
      PROVE  RefundInv(p)'
  <2>1. Alone(p) => Alone(p)'
    BY <1>1, AloneStays DEF Alone
  <2>2. RefundInv(p) /\ UNCHANGED <<refund[p], rtodo[p]>> /\ (p \in late' <=> p \in late)
    BY <1>1, <1>3 DEF RecallInv
  <2> QED BY <1>1, <2>1, <2>2 DEF RefundInv, BuyersItems, ToCancel, Ref
<1>4. RefundInv(o)'
  <2> SUFFICES ASSUME o \notin late'
               PROVE  RefundInv(o)'
    BY DEF RefundInv
  <2>1. Alone(o) => Alone(o)'
    BY <1>1, AloneStays DEF Alone
  <2>2. CASE Refund(o)
    <3>1. rtodo'[o] = BuyersItems(o) /\ refund'[o] = "cancel"
      BY <1>0, <2>2 DEF Refund, TypeOK
    <3>2. Alone(o)
      BY <2>2 DEF Refund, Alone
    <3> QED BY <2>1, <3>1, <3>2 DEF RefundInv, BuyersItems
  <2>3. CASE CancelItem(o)
    <3>1. PICK i \in First(rtodo[o]) :
            /\ \/ recalled' = recalled \cup ToCancel(i) /\ UNCHANGED hurt
               \/ \E s \in SUBSET ToCancel(i) :
                    Fault({Ref(i)}) /\ recalled' = recalled \cup s
            /\ rtodo' = [rtodo EXCEPT ![o] = @ \ {i}]
      BY <2>3 DEF CancelItem
    <3>0. rtodo'[o] = rtodo[o] \ {i}
      BY <1>0, <3>1 DEF TypeOK
    <3>2. ToCancel(i) \subseteq recalled' \/ Ref(i) \in hurt'
      BY <3>1 DEF Fault
    <3>3. refund[o] = "cancel" /\ refund'[o] = "cancel" /\ late' = late
      BY <2>3 DEF CancelItem, history
    <3>4. Alone(o) /\ \A j \in BuyersItems(o) : Ref(j) \notin hurt /\ j \notin rtodo[o]
                        => ToCancel(j) \subseteq recalled
      BY <1>0, <3>3 DEF RefundInv
    <3>5. \A j \in Items : Ref(j)' = Ref(j) /\ ToCancel(j)' = ToCancel(j)
      BY <1>1 DEF Ref, ToCancel
    <3>6. ASSUME NEW j \in BuyersItems(o), Ref(j) \notin hurt', j \notin rtodo'[o]
          PROVE  ToCancel(j) \subseteq recalled'
      BY <1>1, <3>0, <3>1, <3>2, <3>4, <3>6
    <3> QED BY <2>1, <3>3, <3>4, <3>5, <3>6 DEF RefundInv, BuyersItems
  <2>4. CASE MarkRefunded(o)
    <3>1. /\ refund[o] = "cancel" /\ rtodo[o] = {} /\ rtodo' = rtodo /\ recalled' = recalled
          /\ \/ \A e \in Esims : itemOf[e] \in BuyersItems(o) => esim'[e] = "refunded"
             \/ \A i \in BuyersItems(o) : Ref(i) \in hurt'
          /\ o \notin late
      BY <2>4 DEF MarkRefunded, Fault
    <3>2. Alone(o) /\ \A j \in BuyersItems(o) : Ref(j) \notin hurt => ToCancel(j) \subseteq recalled
      BY <1>0, <3>1 DEF RefundInv
    <3>3. \A j \in Items : Ref(j)' = Ref(j) /\ ToCancel(j)' = ToCancel(j)
      BY <1>1 DEF Ref, ToCancel
    <3>4. ASSUME NEW j \in BuyersItems(o), Ref(j) \notin hurt'
          PROVE  /\ ToCancel(j) \subseteq recalled' /\ j \notin rtodo'[o]
                 /\ \A e \in Esims : itemOf[e] = j => esim'[e] = "refunded"
      BY <1>1, <3>1, <3>2, <3>4
    <3> QED BY <1>1, <2>1, <3>2, <3>3, <3>4 DEF RefundInv, BuyersItems
  <2> QED BY <2>2, <2>3, <2>4 DEF Refunding
<1>5. PollInv'
  <2> SUFFICES ASSUME usage.esim # NoEsim
               PROVE  (itemOf[usage.esim] # NoItem /\ Polling(BuyerOf(RefOf(usage.esim))))'
    BY <1>1 DEF PollInv
  <2>1. PICK e \in Esims : e = usage.esim
    BY <1>0 DEF TypeOK
  <2>2. PICK p \in Orders : p = BuyerOf(RefOf(e))
    BY <2>1, RefTypes
  <2>3. itemOf[e] # NoItem /\ Polling(p)
    BY <2>1, <2>2 DEF RecallInv, PollInv
  <2>4. itemOf[e] \in BuyersItems(p)
    <3>1. itemOf[e] \in Items /\ RowInv(e)
      BY <1>0, <2>3 DEF TypeOK, IInv
    <3>2. BuyerOf(Ref(itemOf[e])) = p
      BY <2>2, <2>3, <3>1 DEF RowInv, FitsEsim
    <3> QED BY <3>1, <3>2, BuyerOfItem DEF BuyersItems
  <2>5. Polling(p)'
    <3>1. CASE p # o
      BY <1>1, <2>3, <3>1 DEF Polling
    <3>2. CASE p = o /\ Refund(o)
      BY <2>3, <3>2 DEF Refund, Polling
    <3>3. CASE p = o /\ CancelItem(o)
      BY <2>3, <3>3 DEF CancelItem, history, Polling
    <3>4. CASE p = o /\ MarkRefunded(o)
      <4>1. o \in late'
        BY <2>1, <2>4, <3>4 DEF MarkRefunded
      <4>2. refund'[o] = "done"
        BY <1>0, <3>4 DEF MarkRefunded, TypeOK
      <4> QED BY <3>4, <4>1, <4>2 DEF Polling
    <3> QED BY <3>1, <3>2, <3>3, <3>4 DEF Refunding
  <2>6. BuyerOf(RefOf(usage.esim))' = p /\ usage'.esim = e /\ itemOf'[e] = itemOf[e]
    BY <1>1, <2>1, <2>2, RefsStay DEF BuyerOf
  <2> QED BY <2>3, <2>5, <2>6 DEF Polling
<1> QED BY <1>2, <1>3, <1>4, <1>5 DEF RecallInv

LEMMA PollKeepsRecall ==
  ASSUME IInv, IInv', RecallInv, (\E e \in Polled : ReadUsage(e)) \/ SaveUsage \/ UNCHANGED vars
  PROVE  RecallInv'
<1> USE DEF submission, rows, hooks, refunds, history, vars
<1>0. TypeOK
  BY DEF IInv
<1>1. UNCHANGED <<submission, itemOf, hooks, refunds, hurt, late>>
  BY DEF ReadUsage, SaveUsage
<1>2. ASSUME NEW p \in Orders
      PROVE  SubmissionInv(p)' /\ RefundInv(p)'
  <2>1. SubmissionInv(p)'
    BY <1>1 DEF RecallInv, SubmissionInv, BuyersItems
  <2>2. Alone(p) => Alone(p)'
    BY <1>1, AloneStays DEF Alone
  <2>3. ASSUME refund[p] = "done", p \notin late, NEW e \in Esims, itemOf[e] \in BuyersItems(p)
        PROVE  esim'[e] = esim[e]
    <3>1. CASE SaveUsage
      <4>1. e # usage.esim
        <5>1. BuyerOf(RefOf(e)) = p
          BY <2>3, BuyerOfEsim
        <5> QED BY <2>3, <3>1, <5>1 DEF SaveUsage, RecallInv, PollInv, Polling
      <4> QED BY <1>0, <3>1, <4>1 DEF SaveUsage, TypeOK
    <3>2. CASE ~SaveUsage
      BY <3>2 DEF ReadUsage
    <3> QED BY <3>1, <3>2
  <2>4. RefundInv(p)
    BY DEF RecallInv
  <2>5. RefundInv(p)'
    BY <1>1, <2>2, <2>3, <2>4, RefundStays
  <2> QED BY <2>1, <2>5
<1>3. PollInv'
  <2>1. CASE \E e \in Polled : ReadUsage(e)
    <3>1. PICK e \in Polled : ReadUsage(e)
      BY <2>1
    <3>2. e \in Esims /\ itemOf[e] # NoItem /\ itemOf[e] \in Items
      BY <1>0, <3>1, DeliveryAssumption DEF ReadUsage, TypeOK
    <3>3. PICK p \in Orders : p = OrderOf[itemOf[e]]
      BY <3>2, DeliveryAssumption
    <3>4. refund[p] = "cancel" /\ BuyerOf(RefOf(e)) = p
      BY <3>1, <3>2, <3>3, BuyerOfEsim DEF ReadUsage, BuyersItems
    <3>5. usage'.esim = e
      BY <3>1 DEF ReadUsage
    <3>6. BuyerOf(RefOf(usage.esim))' = p
      BY <1>1, <3>4, <3>5, RefsStay DEF BuyerOf
    <3> QED BY <1>1, <3>2, <3>4, <3>5, <3>6 DEF PollInv, Polling
  <2>2. CASE SaveUsage
    BY <2>2 DEF SaveUsage, PollInv
  <2>3. CASE UNCHANGED vars
    BY <2>3, RefsStay DEF RecallInv, PollInv, Polling, BuyerOf
  <2> QED BY <2>1, <2>2, <2>3
<1> QED BY <1>2, <1>3 DEF RecallInv

LEMMA NextKeepsRecall == IInv /\ IInv' /\ RecallInv /\ [Next]_vars => RecallInv'
  BY SubmissionKeepsRecall, DeliverKeepsRecall, HandlingKeepsRecall, RefundKeepsRecall,
     PollKeepsRecall DEF Next
-----------------------------------------------------------------------------
(* A set is dealt out to places, no place getting more than it has room for.   *)

LEMMA LeastNat ==
  ASSUME NEW N, N \subseteq Nat, N # {}
  PROVE  \E n \in N : \A m \in N : n <= m
<1>1. PICK R : R = OpToRel(<, Nat)
  OBVIOUS
<1>2. \A m, n \in Nat : m < n => <<m, n>> \in R
  BY <1>1 DEF OpToRel
<1>3. PICK n \in N : \A m \in N : <<m, n>> \notin R
  BY <1>1, NatLessThanWellFounded, WFMin
<1>4. ASSUME NEW m \in N
      PROVE  n <= m
  <2>1. m \in Nat /\ n \in Nat /\ ~(m < n)
    BY <1>2, <1>3
  <2> QED BY <2>1
<1> QED BY <1>4

\* What f deals to a place.
Part(f, i) == {x \in DOMAIN f : f[x] = i}

\* g deals to each place of P at most what M does.
Within(g, M, P) == \A i \in P : Cardinality(Part(g, i)) <= Cardinality(Part(M, i))

\* Then it deals out at most as many, and as many just when every place gets as many.
Levels(g, M, P) ==
  /\ Cardinality(DOMAIN g) <= Cardinality(DOMAIN M)
  /\ Cardinality(DOMAIN g) = Cardinality(DOMAIN M)
       <=> \A i \in P : Cardinality(Part(g, i)) = Cardinality(Part(M, i))

LEMMA PartIsFinite ==
  ASSUME NEW f, NEW i, IsFiniteSet(DOMAIN f)
  PROVE  /\ IsFiniteSet(Part(f, i)) /\ Cardinality(Part(f, i)) \in Nat
         /\ Cardinality(DOMAIN f) \in Nat
<1>1. Part(f, i) \subseteq DOMAIN f
  BY DEF Part
<1>2. IsFiniteSet(Part(f, i))
  BY <1>1, FS_Subset
<1> QED BY <1>2, FS_CardinalityType

\* Without one of what it deals.
Without(f, a) == [x \in DOMAIN f \ {a} |-> f[x]]

OneLess(f, h, a, P) ==
  /\ Cardinality(DOMAIN h) = Cardinality(DOMAIN f) - 1
  /\ Cardinality(Part(h, f[a])) = Cardinality(Part(f, f[a])) - 1
  /\ \A i \in P : i # f[a] => Cardinality(Part(h, i)) = Cardinality(Part(f, i))

LEMMA WithoutOne ==
  ASSUME NEW P, NEW A, NEW f \in [A -> P], IsFiniteSet(A), NEW a \in A
  PROVE  /\ Without(f, a) \in [A \ {a} -> P] /\ IsFiniteSet(A \ {a})
         /\ OneLess(f, Without(f, a), a, P)
<1> DEFINE h == Without(f, a)
<1>1. h \in [A \ {a} -> P] /\ DOMAIN h = A \ {a} /\ DOMAIN f = A /\ \A x \in A \ {a} : h[x] = f[x]
  BY DEF Without
<1> HIDE DEF h
<1>2. IsFiniteSet(A \ {a}) /\ Cardinality(A \ {a}) = Cardinality(A) - 1
  BY FS_RemoveElement
<1>3. Part(h, f[a]) = Part(f, f[a]) \ {a} /\ a \in Part(f, f[a])
  BY <1>1 DEF Part
<1>4. IsFiniteSet(Part(f, f[a]))
  BY <1>1, PartIsFinite
<1>5. Cardinality(Part(h, f[a])) = Cardinality(Part(f, f[a])) - 1
  BY <1>3, <1>4, FS_RemoveElement
<1>6. ASSUME NEW i \in P, i # f[a]
      PROVE  Cardinality(Part(h, i)) = Cardinality(Part(f, i))
  <2>1. Part(h, i) = Part(f, i)
    BY <1>1, <1>6 DEF Part
  <2> QED BY <2>1
<1> QED BY <1>1, <1>2, <1>5, <1>6 DEF OneLess, h

LEMMA Dealt ==
  ASSUME NEW P, NEW A, NEW E, NEW g \in [A -> P], NEW M \in [E -> P],
         IsFiniteSet(A), IsFiniteSet(E), Within(g, M, P)
  PROVE  Levels(g, M, P)
<1> DEFINE Claim(n) ==
             \A B, F : \A k \in [B -> P], L \in [F -> P] :
               IsFiniteSet(B) /\ IsFiniteSet(F) /\ Within(k, L, P) /\ Cardinality(B) = n
                 => Levels(k, L, P)
           N == {n \in Nat : ~Claim(n)}
<1>1. N = {}
  <2> SUFFICES ASSUME N # {}
               PROVE  FALSE
    OBVIOUS
  <2>1. PICK n \in N : \A m \in N : n <= m
    BY LeastNat
  <2>2. n \in Nat /\ ~Claim(n)
    BY <2>1
  <2>3. PICK B, F : \E k \in [B -> P], L \in [F -> P] :
          /\ IsFiniteSet(B) /\ IsFiniteSet(F) /\ Within(k, L, P) /\ Cardinality(B) = n
          /\ ~Levels(k, L, P)
    BY <2>2
  <2>4. PICK k \in [B -> P], L \in [F -> P] :
          /\ IsFiniteSet(B) /\ IsFiniteSet(F) /\ Within(k, L, P) /\ Cardinality(B) = n
          /\ ~Levels(k, L, P)
    BY <2>3
  <2> HIDE DEF Claim, N
  <2>5. DOMAIN k = B /\ DOMAIN L = F /\ Cardinality(F) \in Nat
    BY <2>4, FS_CardinalityType
  <2>6. \A i \in P : Cardinality(Part(k, i)) \in Nat /\ Cardinality(Part(L, i)) \in Nat
    BY <2>4, <2>5, PartIsFinite
  <2>7. CASE n = 0
    <3>1. B = {}
      BY <2>4, <2>7, FS_EmptySet
    <3>2. \A i \in P : Cardinality(Part(k, i)) = 0
      <4>1. \A i \in P : Part(k, i) = {}
        BY <2>5, <3>1 DEF Part
      <4> QED BY <4>1, FS_EmptySet
    <3>3. ASSUME Cardinality(F) = 0, NEW i \in P
          PROVE  Cardinality(Part(L, i)) = 0
      <4>1. F = {}
        BY <2>4, <3>3, FS_EmptySet
      <4>2. Part(L, i) = {}
        BY <2>5, <4>1 DEF Part
      <4> QED BY <4>2, FS_EmptySet
    <3>4. ASSUME \A i \in P : Cardinality(Part(L, i)) = 0
          PROVE  Cardinality(F) = 0
      <4>1. \A i \in P : Part(L, i) = {}
        BY <2>4, <2>5, <3>4, PartIsFinite, FS_EmptySet
      <4>2. F = {}
        BY <2>5, <4>1 DEF Part
      <4> QED BY <4>2, FS_EmptySet
    <3> QED BY <2>4, <2>5, <2>6, <2>7, <3>2, <3>3, <3>4 DEF Levels
  <2>8. CASE n # 0
    <3>1. PICK a \in B : TRUE
      BY <2>4, <2>8, FS_EmptySet
    <3>2. k[a] \in P
      BY <2>4
    <3>3. Cardinality(Part(k, k[a])) # 0
      <4>1. a \in Part(k, k[a])
        BY <2>5 DEF Part
      <4>2. IsFiniteSet(Part(k, k[a]))
        BY <2>4, <2>5, PartIsFinite
      <4> QED BY <4>1, <4>2, FS_EmptySet
    <3>4. Cardinality(Part(L, k[a])) # 0
      BY <2>4, <2>6, <3>2, <3>3 DEF Within
    <3>5. PICK m \in F : L[m] = k[a]
      <4>1. Part(L, k[a]) # {}
        BY <3>4, FS_EmptySet
      <4> QED BY <2>5, <4>1 DEF Part
    <3>6. PICK k1 : k1 = Without(k, a)
      OBVIOUS
    <3>7. PICK L1 : L1 = Without(L, m)
      OBVIOUS
    <3>8. k1 \in [B \ {a} -> P] /\ IsFiniteSet(B \ {a}) /\ OneLess(k, k1, a, P)
      BY <2>4, <3>1, <3>6, WithoutOne
    <3>9. L1 \in [F \ {m} -> P] /\ IsFiniteSet(F \ {m}) /\ OneLess(L, L1, m, P)
      BY <2>4, <3>5, <3>7, WithoutOne
    <3>10. Within(k1, L1, P)
      BY <2>4, <2>6, <3>5, <3>8, <3>9 DEF Within, OneLess
    <3>11. Cardinality(B \ {a}) = n - 1 /\ n - 1 \in Nat
      <4>1. DOMAIN k1 = B \ {a}
        BY <3>8
      <4> QED BY <2>2, <2>4, <2>5, <2>8, <3>8, <4>1 DEF OneLess
    <3>12. Claim(n - 1)
      BY <2>1, <2>2, <3>11 DEF N
    <3>13. Levels(k1, L1, P)
      BY <3>8, <3>9, <3>10, <3>11, <3>12 DEF Claim
    <3>14. \A i \in P : Cardinality(Part(k1, i)) = Cardinality(Part(L1, i))
                          <=> Cardinality(Part(k, i)) = Cardinality(Part(L, i))
      BY <2>6, <3>5, <3>8, <3>9 DEF OneLess
    <3>15. /\ Cardinality(B) - 1 <= Cardinality(F) - 1
           /\ Cardinality(B) - 1 = Cardinality(F) - 1
                <=> \A i \in P : Cardinality(Part(k, i)) = Cardinality(Part(L, i))
      BY <2>5, <3>8, <3>9, <3>13, <3>14 DEF Levels, OneLess
    <3>16. Levels(k, L, P)
      BY <2>2, <2>4, <2>5, <3>15 DEF Levels
    <3> QED BY <2>4, <3>16
  <2> QED BY <2>7, <2>8
<1>2. Claim(Cardinality(A))
  BY <1>1, FS_CardinalityType
<1> QED BY <1>2
-----------------------------------------------------------------------------
(* A call deals the eSIMs of its order out to the items.                        *)

EsimsOf(r) == {e \in Esims : RefOf(e) = r}
MadeOf(i) == {e \in Esims : MadeFor[e] = i}

LEMMA MadeIsQuantity ==
  ASSUME NEW i \in Items
  PROVE  /\ IsFiniteSet(MadeOf(i)) /\ Cardinality(MadeOf(i)) = Quantity[i] /\ Quantity[i] \in Nat
         /\ MadeOf(i) \subseteq EsimsOf(Ref(i))
<1>1. MadeOf(i) \subseteq Esims /\ IsFiniteSet(Esims)
  BY MadeAssumption DEF MadeOf
<1>2. IsFiniteSet(MadeOf(i))
  BY <1>1, FS_Subset
<1> QED BY <1>2, MadeAssumption, DeliveryAssumption DEF MadeOf, EsimsOf, RefOf

\* As long as an eSIM is left, an item of its package has room for it.
LEMMA RoomIsLeft ==
  ASSUME NEW r \in Refs, NEW G \in SUBSET EsimsOf(r), NEW g \in [G -> Of(r)],
         \A i \in Of(r) : Cardinality(Part(g, i)) <= Quantity[i],
         \A e \in G : PlanOf[g[e]] = PlanOf[MadeFor[e]],
         NEW x \in EsimsOf(r) \ G
  PROVE  \E i \in Of(r) : PlanOf[i] = PlanOf[MadeFor[x]] /\ Cardinality(Part(g, i)) < Quantity[i]
<1> DEFINE p == PlanOf[MadeFor[x]]
           P == {i \in Of(r) : PlanOf[i] = p}
           E == {e \in EsimsOf(r) : PlanOf[MadeFor[e]] = p}
           A == G \cap E
           k == [e \in A |-> g[e]]
           M == [e \in E |-> MadeFor[e]]
<1>1. IsFiniteSet(E) /\ IsFiniteSet(A) /\ A \subseteq E /\ x \in E /\ x \notin A /\ IsFiniteSet(G)
  BY MadeAssumption, FS_Subset DEF EsimsOf
<1>2. k \in [A -> P] /\ M \in [E -> P]
  <2>1. \A e \in EsimsOf(r) : MadeFor[e] \in Of(r)
    BY DeliveryAssumption DEF EsimsOf, RefOf, Of
  <2> QED BY <2>1
<1>3. ASSUME NEW i \in P
      PROVE  /\ Part(k, i) = Part(g, i) /\ Cardinality(Part(M, i)) = Quantity[i]
             /\ i \in Of(r) /\ PlanOf[i] = p /\ Quantity[i] \in Nat
             /\ Cardinality(Part(g, i)) \in Nat
  <2>1. i \in Items /\ Ref(i) = r
    BY DEF Of
  <2>2. Part(k, i) = Part(g, i)
    BY DEF Part
  <2>3. Part(M, i) = MadeOf(i)
    <3>1. MadeOf(i) \subseteq EsimsOf(r)
      BY <2>1, MadeIsQuantity
    <3>2. \A e \in EsimsOf(r) : e \in Esims
      BY DEF EsimsOf
    <3>3. \A e : e \in Part(M, i) <=> e \in E /\ MadeFor[e] = i
      BY DEF Part
    <3>4. \A e : e \in MadeOf(i) <=> e \in E /\ MadeFor[e] = i
      BY <3>1, <3>2 DEF MadeOf
    <3> QED BY <3>3, <3>4
  <2>4. DOMAIN g = G
    OBVIOUS
  <2> QED BY <1>1, <2>1, <2>2, <2>3, <2>4, MadeIsQuantity, PartIsFinite
<1> HIDE DEF P, E, A, k, M, p
<1>4. Within(k, M, P)
  BY <1>3 DEF Within
<1>5. Levels(k, M, P)
  BY <1>1, <1>2, <1>4, Dealt
<1>6. Cardinality(A) # Cardinality(E)
  BY <1>1, FS_Subset
<1>7. PICK i \in P : Cardinality(Part(k, i)) # Cardinality(Part(M, i))
  <2>1. DOMAIN k = A /\ DOMAIN M = E
    BY <1>2
  <2> QED BY <1>5, <1>6, <2>1 DEF Levels
<1>8. Cardinality(Part(g, i)) < Quantity[i]
  BY <1>3, <1>7
<1> QED BY <1>3, <1>8 DEF p

\* When none is left, every item has its quantity.
LEMMA AllAreDealt ==
  ASSUME NEW r \in Refs, NEW g \in [EsimsOf(r) -> Of(r)],
         \A i \in Of(r) : Cardinality(Part(g, i)) <= Quantity[i]
  PROVE  \A i \in Of(r) : Cardinality(Part(g, i)) = Quantity[i]
<1> DEFINE E == EsimsOf(r)
           P == Of(r)
           M == [e \in E |-> MadeFor[e]]
<1>1. IsFiniteSet(E)
  BY MadeAssumption, FS_Subset DEF EsimsOf
<1>2. M \in [E -> P] /\ DOMAIN g = E
  <2>1. \A e \in E : MadeFor[e] \in P
    BY DeliveryAssumption DEF EsimsOf, RefOf, Of
  <2> QED BY <2>1
<1>3. ASSUME NEW i \in P
      PROVE  Cardinality(Part(M, i)) = Quantity[i]
  <2>1. i \in Items /\ Ref(i) = r
    BY DEF Of
  <2>2. Part(M, i) = MadeOf(i)
    <3>1. MadeOf(i) \subseteq E
      BY <2>1, MadeIsQuantity
    <3>2. \A e \in E : e \in Esims
      BY DEF EsimsOf
    <3>3. \A e : e \in Part(M, i) <=> e \in E /\ MadeFor[e] = i
      BY DEF Part
    <3>4. \A e : e \in MadeOf(i) <=> e \in E /\ MadeFor[e] = i
      BY <3>1, <3>2 DEF MadeOf
    <3> QED BY <3>3, <3>4
  <2> QED BY <2>1, <2>2, MadeIsQuantity
<1> HIDE DEF E, M
<1>4. Within(g, M, P)
  BY <1>3 DEF Within
<1>5. Levels(g, M, P)
  BY <1>1, <1>2, <1>4, Dealt DEF E
<1>6. \A i \in P : Cardinality(Part(g, i)) = Cardinality(Part(M, i))
  <2>1. DOMAIN g = DOMAIN M
    BY <1>2
  <2> QED BY <1>5, <2>1 DEF Levels
<1> QED BY <1>3, <1>6

\* The eSIMs a call has come to.
Given(h) == EsimsOf(href[h]) \ hleft[h]

Writing(h, e) == hook[h] = "write" /\ e = hcur[h].esim

\* What a call has dealt so far, and, if nothing came between, written.
IsDeal(h, g) ==
  /\ g \in [Given(h) -> Of(href[h])]
  /\ \A i \in Of(href[h]) :
       hgiven[h][i] = Cardinality(Part(g, i)) /\ Cardinality(Part(g, i)) <= Quantity[i]
  /\ \A e \in Given(h) : PlanOf[g[e]] = PlanOf[MadeFor[e]]
  /\ hook[h] = "write" => hcur[h].esim \in Given(h) /\ hcur[h].item = g[hcur[h].esim]
  /\ href[h] \notin crossed \cup hurt => \A e \in Given(h) : itemOf[e] = g[e] \/ Writing(h, e)

CallInv(h) ==
  /\ hook[h] \in {"idle", "complete"} => \A i \in Items : hgiven[h][i] = 0
  /\ hook[h] # "idle" /\ href[h] \notin early => hitems[h] = Of(href[h])
  /\ hook[h] = "write" /\ ~hcur[h].found /\ href[h] \notin crossed => esim[hcur[h].esim] = "none"
  /\ hook[h] \in {"esims", "write"} /\ href[h] \notin early => \E g : IsDeal(h, g)

LoneInv ==
  \A g, h \in Slots : g # h /\ hook[g] # "idle" /\ hook[h] # "idle" /\ href[g] = href[h]
                        => href[h] \in crossed

OwnedInv(e) ==
  /\ itemOf[e] # NoItem => esim[e] # "none"
  /\ esim[e] # "none" /\ itemOf[e] = NoItem => RefOf(e) \in early

Done(i) ==
  /\ Cardinality({e \in Esims : itemOf[e] = i}) = Quantity[i]
  /\ \A e \in Esims : itemOf[e] = i => <<e, OrderOf[i]>> \in mailed

DoneInv(i) ==
  status[i] = "completed" /\ ~Busy(Ref(i)) /\ Ref(i) \notin early \cup crossed \cup hurt => Done(i)

ReadInv == usage.esim # NoEsim => usage.status # "none"

DealInv ==
  /\ (\A h \in Slots : CallInv(h)) /\ LoneInv
  /\ (\A e \in Esims : OwnedInv(e)) /\ (\A i \in Items : DoneInv(i)) /\ ReadInv

LEMMA InitDeal == Init => DealInv
<1> SUFFICES ASSUME Init PROVE DealInv
  OBVIOUS
<1>1. ASSUME NEW h \in Slots PROVE CallInv(h)
  BY DEF Init, CallInv
<1>2. LoneInv /\ ReadInv
  BY DEF Init, LoneInv, ReadInv
<1>3. ASSUME NEW e \in Esims PROVE OwnedInv(e)
  BY DEF Init, OwnedInv
<1>4. ASSUME NEW i \in Items PROVE DoneInv(i)
  BY DEF Init, DoneInv
<1> QED BY <1>1, <1>2, <1>3, <1>4 DEF DealInv

HistoryGrows == early \subseteq early' /\ crossed \subseteq crossed' /\ hurt \subseteq hurt'

\* A step beside a call.
LEMMA CallStays ==
  ASSUME UNCHANGED provider, NEW h \in Slots, HookInv(h), CallInv(h), HistoryGrows,
         UNCHANGED <<hook[h], href[h], hitems[h], hleft[h], hgiven[h], hcur[h]>>,
         hook[h] # "idle" /\ href[h] \notin crossed' =>
           \A e \in EsimsOf(href[h]) :
             itemOf'[e] = itemOf[e] /\ (esim[e] = "none" => esim'[e] = "none")
  PROVE  CallInv(h)'
<1>1. EsimsOf(href[h])' = EsimsOf(href[h]) /\ Of(href[h])' = Of(href[h])
  BY RefsStay DEF EsimsOf
<1>2. Given(h)' = Given(h)
  BY <1>1 DEF Given
<1>3. ASSUME hook[h] \in {"esims", "write"}, href[h] \notin early'
      PROVE  \E g : IsDeal(h, g)'
  <2>1. PICK g : IsDeal(h, g)
    BY <1>3 DEF CallInv, HistoryGrows
  <2>2. href[h] \notin crossed' \cup hurt' =>
          \A e \in Given(h) : itemOf'[e] = g[e] \/ Writing(h, e)
    BY <1>3, <2>1 DEF IsDeal, HistoryGrows, Given
  <2>3. IsDeal(h, g)'
    BY <1>1, <1>2, <2>1, <2>2 DEF IsDeal, Writing
  <2> QED BY <2>3
<1>4. ASSUME hook[h] = "write", ~hcur[h].found, href[h] \notin crossed'
      PROVE  esim'[hcur[h].esim] = "none"
  <2>1. hcur[h].esim \in EsimsOf(href[h])
    BY <1>4 DEF HookInv, EsimsOf
  <2> QED BY <1>4, <2>1 DEF CallInv, HistoryGrows
<1>5. /\ hook[h] \in {"idle", "complete"} => \A i \in Items : hgiven[h][i] = 0
      /\ hook[h] # "idle" /\ href[h] \notin early' => hitems[h] = Of(href[h])
  BY DEF CallInv, HistoryGrows
<1> QED BY <1>1, <1>3, <1>4, <1>5 DEF CallInv

\* A step beside the calls of an item's order, or one that leaves a call of it under way.
LEMMA DoneStays ==
  ASSUME UNCHANGED provider, NEW i \in Items, DoneInv(i), HistoryGrows, mailed \subseteq mailed',
         ~Busy(Ref(i))' => /\ ~Busy(Ref(i)) /\ status'[i] = status[i]
                           /\ \A e \in Esims : itemOf'[e] = i <=> itemOf[e] = i
  PROVE  DoneInv(i)'
<1> SUFFICES ASSUME status'[i] = "completed", ~Busy(Ref(i))',
                    Ref(i) \notin early' \cup crossed' \cup hurt'
             PROVE  Done(i)'
  BY RefsStay DEF DoneInv
<1>1. Done(i)
  BY DEF DoneInv, HistoryGrows
<1>2. {e \in Esims : itemOf'[e] = i} = {e \in Esims : itemOf[e] = i}
  OBVIOUS
<1> QED BY <1>1, <1>2 DEF Done

LEMMA BusyStays ==
  ASSUME UNCHANGED <<provider, href>>, \A h \in Slots : hook'[h] = "idle" <=> hook[h] = "idle"
  PROVE  \A r : Busy(r)' <=> Busy(r)
  BY DEF Busy

\* Steps of the submission, of a refund or of a poll.
LEMMA QuietKeepsDeal ==
  ASSUME IInv, DealInv, UNCHANGED <<provider, hooks, status, itemOf, mailed, early, crossed>>,
         hurt \subseteq hurt', ReadInv',
         \A e \in Esims : esim'[e] = "none" <=> esim[e] = "none"
  PROVE  DealInv'
<1> USE DEF hooks
<1>1. HistoryGrows
  BY DEF HistoryGrows
<1>2. ASSUME NEW h \in Slots PROVE CallInv(h)'
  <2>1. HookInv(h) /\ CallInv(h)
    BY DEF IInv, DealInv
  <2> QED BY <1>1, <2>1, CallStays DEF EsimsOf
<1>3. LoneInv'
  BY DEF DealInv, LoneInv
<1>4. ASSUME NEW e \in Esims PROVE OwnedInv(e)'
  BY RefsStay DEF DealInv, OwnedInv
<1>5. ASSUME NEW i \in Items PROVE DoneInv(i)'
  <2>1. Busy(Ref(i))' <=> Busy(Ref(i))
    BY RefsStay DEF Busy
  <2>2. DoneInv(i)
    BY DEF DealInv
  <2> QED BY <1>1, <2>1, <2>2, DoneStays
<1> QED BY <1>2, <1>3, <1>4, <1>5 DEF DealInv

LEMMA OthersKeepDeal ==
  ASSUME IInv, RecallInv, DealInv,
         \/ \E o \in Orders : Submitting(o) \/ SaveFails(o) \/ Stop(o) \/ Refund(o) \/ Refunding(o)
         \/ \E e \in Polled : ReadUsage(e)
         \/ SaveUsage \/ UNCHANGED vars
  PROVE  DealInv'
<1> USE DEF submission, rows, refunds, calls, history, vars, Fault
<1>0. TypeOK
  BY DEF IInv
<1>1. CASE \E o \in Orders : Submitting(o) \/ SaveFails(o) \/ Stop(o) \/ Refund(o) \/ CancelItem(o)
  <2>1. UNCHANGED <<provider, rows, hooks, usage, mailed, early, crossed>> /\ hurt \subseteq hurt'
    BY <1>1 DEF Submitting, Ask, Save, NextProvider, SaveFails, Stop, Refund, CancelItem
  <2>2. ReadInv'
    BY <2>1 DEF DealInv, ReadInv
  <2> QED BY <2>1, <2>2, QuietKeepsDeal
<1>2. CASE \E o \in Orders : MarkRefunded(o)
  <2>1. PICK o \in Orders : MarkRefunded(o)
    BY <1>2
  <2>2. /\ UNCHANGED <<provider, hooks, status, itemOf, usage, mailed, early, crossed>>
        /\ hurt \subseteq hurt'
        /\ \A e \in Esims : \/ esim'[e] = esim[e]
                            \/ esim'[e] = "refunded" /\ itemOf[e] \in BuyersItems(o)
    BY <2>1 DEF MarkRefunded
  <2>3. \A e \in Esims : itemOf[e] \in BuyersItems(o) => esim[e] # "none"
    BY DeliveryAssumption DEF DealInv, OwnedInv, BuyersItems
  <2>4. \A e \in Esims : esim'[e] = "none" <=> esim[e] = "none"
    BY <2>2, <2>3
  <2>5. ReadInv'
    BY <2>2 DEF DealInv, ReadInv
  <2> QED BY <2>2, <2>4, <2>5, QuietKeepsDeal
<1>3. CASE \E e \in Polled : ReadUsage(e)
  <2>1. PICK e \in Polled : ReadUsage(e)
    BY <1>3
  <2>2. UNCHANGED <<provider, rows, hooks, mailed, early, crossed, hurt>>
    BY <2>1 DEF ReadUsage
  <2>3. e \in Esims /\ itemOf[e] # NoItem /\ usage'.status = esim[e]
    BY <2>1, DeliveryAssumption DEF ReadUsage
  <2>4. ReadInv'
    BY <2>3 DEF DealInv, OwnedInv, ReadInv
  <2> QED BY <2>2, <2>4, QuietKeepsDeal
<1>4. CASE SaveUsage
  <2>1. PICK e \in Esims : e = usage.esim /\ e # NoEsim
    BY <1>0, <1>4, DeliveryAssumption DEF SaveUsage, TypeOK
  <2>2. UNCHANGED <<provider, hooks, status, itemOf, mailed, early, crossed, hurt>> /\ ReadInv'
    BY <1>4 DEF SaveUsage, ReadInv
  <2>3. esim[e] # "none" /\ usage.status # "none"
    BY <2>1 DEF RecallInv, PollInv, DealInv, OwnedInv, ReadInv
  <2>4. \A f \in Esims : esim'[f] = IF f = e THEN usage.status ELSE esim[f]
    BY <1>0, <1>4, <2>1 DEF SaveUsage, TypeOK
  <2>5. \A f \in Esims : esim'[f] = "none" <=> esim[f] = "none"
    BY <2>3, <2>4
  <2> QED BY <2>2, <2>5, QuietKeepsDeal
<1>5. CASE UNCHANGED vars
  <2>1. ReadInv'
    BY <1>5 DEF DealInv, ReadInv
  <2> QED BY <1>5, <2>1, QuietKeepsDeal
<1> QED BY <1>1, <1>2, <1>3, <1>4, <1>5 DEF Refunding

\* A call comes in; another one of the same order makes them cross.
LEMMA DeliverKeepsDeal ==
  ASSUME IInv, DealInv, NEW h \in Slots, NEW r \in Refs, Deliver(h, r)
  PROVE  DealInv'
<1> USE DEF Deliver, submission, rows
<1>0. TypeOK
  BY DEF IInv
<1>1. HistoryGrows /\ UNCHANGED <<provider, status, esim, itemOf, mailed, usage, hleft, hgiven, hcur>>
  BY DEF HistoryGrows
<1>2. hook[h] = "idle"
  BY FirstIsPart
<1>3. /\ hook'[h] = "complete" /\ href'[h] = r /\ hitems'[h] = Of(r) \cap saved
      /\ \A g \in Slots \ {h} : UNCHANGED <<hook[g], href[g], hitems[g], hleft[g], hgiven[g], hcur[g]>>
  BY <1>0 DEF TypeOK
<1>4. ASSUME NEW g \in Slots PROVE CallInv(g)'
  <2>1. HookInv(g) /\ CallInv(g)
    BY DEF IInv, DealInv
  <2>2. CASE g # h
    BY <1>1, <1>3, <2>1, <2>2, CallStays DEF EsimsOf
  <2>3. CASE g = h
    <3>1. \A i \in Items : hgiven'[h][i] = 0
      BY <1>1, <1>2, <2>1, <2>3 DEF CallInv
    <3>2. r \notin early' => hitems'[h] = Of(r)
      BY <1>3
    <3> QED BY <1>1, <1>3, <2>3, <3>1, <3>2, RefsStay DEF CallInv
  <2> QED BY <2>2, <2>3
<1>5. LoneInv'
  <2>1. \A g \in Slots : g # h /\ hook[g] # "idle" /\ href[g] = r => r \in crossed'
    BY DEF Busy
  <2> QED BY <1>1, <1>3, <2>1 DEF DealInv, LoneInv, HistoryGrows
<1>6. ASSUME NEW e \in Esims PROVE OwnedInv(e)'
  BY <1>1, RefsStay DEF DealInv, OwnedInv, HistoryGrows
<1>7. ASSUME NEW i \in Items PROVE DoneInv(i)'
  <2>1. Busy(Ref(i)) => Busy(Ref(i))'
    BY <1>1, <1>2, <1>3, RefsStay DEF Busy
  <2>2. DoneInv(i)
    BY DEF DealInv
  <2> QED BY <1>1, <2>1, <2>2, DoneStays
<1>8. ReadInv'
  BY <1>1 DEF DealInv, ReadInv
<1> QED BY <1>4, <1>5, <1>6, <1>7, <1>8 DEF DealInv

LEMMA CompleteKeepsDeal ==
  ASSUME IInv, DealInv, NEW h \in Slots, CompleteItem(h)
  PROVE  DealInv'
<1> USE DEF CompleteItem, submission, hooks, history
<1>0. TypeOK /\ HookInv(h)
  BY DEF IInv
<1>1. HistoryGrows /\ UNCHANGED <<provider, hooks, esim, itemOf, mailed, usage, early>>
  BY DEF HistoryGrows
<1>2. ASSUME NEW g \in Slots PROVE CallInv(g)'
  <2>1. HookInv(g) /\ CallInv(g)
    BY DEF IInv, DealInv
  <2> QED BY <1>1, <2>1, CallStays DEF EsimsOf
<1>3. LoneInv' /\ ReadInv'
  BY DEF DealInv, LoneInv, ReadInv
<1>4. ASSUME NEW e \in Esims PROVE OwnedInv(e)'
  BY <1>1, RefsStay DEF DealInv, OwnedInv
<1>5. ASSUME NEW i \in Items PROVE DoneInv(i)'
  <2>1. Busy(Ref(i))' <=> Busy(Ref(i))
    BY <1>1, RefsStay DEF Busy
  <2>2. PICK j \in hitems[h] : status' = [status EXCEPT ![j] = "completed"]
    BY FirstIsPart
  <2>3. Busy(Ref(j))
    BY <1>0 DEF HookInv, Of, Busy
  <2>4. i # j => status'[i] = status[i]
    BY <1>0, <2>2 DEF TypeOK
  <2>5. DoneInv(i)
    BY DEF DealInv
  <2> QED BY <1>1, <2>1, <2>3, <2>4, <2>5, DoneStays
<1> QED BY <1>2, <1>3, <1>4, <1>5 DEF DealInv

\* A call ends: it was hit, or its items are done.
LEMMA ReturnKeepsDeal ==
  ASSUME IInv, DealInv, NEW h \in Slots, Return(h), hook[h] # "idle",
         UNCHANGED <<provider, status, esim, itemOf, usage, early, crossed>>,
         hurt \subseteq hurt', mailed \subseteq mailed',
         \/ href[h] \in hurt'
         \/ href[h] \notin early \cup crossed \cup hurt' => \A i \in Of(href[h]) : Done(i)'
  PROVE  DealInv'
<1> USE DEF Return, Goto
<1>0. TypeOK
  BY DEF IInv
<1>1. HistoryGrows
  BY DEF HistoryGrows
<1>2. /\ hook'[h] = "idle" /\ \A i \in Items : hgiven'[h][i] = 0
      /\ \A g \in Slots \ {h} : UNCHANGED <<hook[g], href[g], hitems[g], hleft[g], hgiven[g], hcur[g]>>
  BY <1>0 DEF TypeOK
<1>3. ASSUME NEW g \in Slots PROVE CallInv(g)'
  <2>1. HookInv(g) /\ CallInv(g)
    BY DEF IInv, DealInv
  <2>2. CASE g # h
    BY <1>1, <1>2, <2>1, <2>2, CallStays DEF EsimsOf
  <2>3. CASE g = h
    BY <1>2, <2>3 DEF CallInv
  <2> QED BY <2>2, <2>3
<1>4. LoneInv' /\ ReadInv'
  BY <1>2 DEF DealInv, LoneInv, ReadInv
<1>5. ASSUME NEW e \in Esims PROVE OwnedInv(e)'
  BY RefsStay DEF DealInv, OwnedInv
<1>6. ASSUME NEW i \in Items PROVE DoneInv(i)'
  <2>1. DoneInv(i)
    BY DEF DealInv
  <2>2. CASE Ref(i) # href[h]
    <3>1. Busy(Ref(i)) => Busy(Ref(i))'
      BY <1>2, <2>2, RefsStay DEF Busy
    <3> QED BY <1>1, <2>1, <3>1, DoneStays
  <2>3. CASE Ref(i) = href[h]
    <3>1. i \in Of(href[h])
      BY <2>3 DEF Of
    <3> QED BY <2>3, <3>1, RefsStay DEF DoneInv
  <2> QED BY <2>2, <2>3
<1> QED BY <1>3, <1>4, <1>5, <1>6 DEF DealInv

LEMMA ListKeepsDeal ==
  ASSUME IInv, DealInv, NEW h \in Slots, List(h) \/ Die(h)
  PROVE  DealInv'
<1> USE DEF rows, submission, history, Fault
<1>0. TypeOK /\ HookInv(h)
  BY DEF IInv
<1>1. CASE Return(h) /\ href[h] \in hurt'
  <2>1. /\ hook[h] # "idle" /\ hurt \subseteq hurt' /\ mailed' = mailed
        /\ UNCHANGED <<provider, status, esim, itemOf, usage, early, crossed>>
    BY DEF List, Die
  <2> QED BY <1>1, <2>1, ReturnKeepsDeal
<1>2. CASE ~(Return(h) /\ href[h] \in hurt')
  <2>1. /\ hook[h] = "complete" /\ hook' = [hook EXCEPT ![h] = "esims"]
        /\ hleft' = [hleft EXCEPT ![h] = {e \in Esims : RefOf(e) = href[h]}]
        /\ UNCHANGED <<provider, status, esim, itemOf, usage, mailed, early, crossed, hurt, href,
                       hitems, hgiven, hcur>>
    BY <1>2 DEF List, Die, Goto
  <2>2. /\ hook'[h] = "esims" /\ hleft'[h] = EsimsOf(href[h])
        /\ \A g \in Slots \ {h} : UNCHANGED <<hook[g], hleft[g]>>
    BY <1>0, <2>1 DEF TypeOK, EsimsOf
  <2>3. HistoryGrows
    BY <2>1 DEF HistoryGrows
  <2>4. ASSUME NEW g \in Slots PROVE CallInv(g)'
    <3>1. HookInv(g) /\ CallInv(g)
      BY DEF IInv, DealInv
    <3>2. CASE g # h
      BY <2>1, <2>2, <2>3, <3>1, <3>2, CallStays DEF EsimsOf
    <3>3. CASE g = h
      <4>1. PICK f : f = [x \in {} |-> x]
        OBVIOUS
      <4>2. Given(h)' = {}
        BY <2>1, <2>2, RefsStay DEF Given, EsimsOf
      <4>3. \A i \in Of(href[h]) : hgiven[h][i] = 0 /\ Quantity[i] \in Nat
        BY <2>1, <3>1, <3>3, DeliveryAssumption DEF CallInv, Of
      <4>4. \A i : Cardinality(Part(f, i)) = 0
        <5>1. \A i : Part(f, i) = {}
          BY <4>1 DEF Part
        <5> QED BY <5>1, FS_EmptySet
      <4>5. \A i \in Of(href[h]) : 0 <= Quantity[i]
        BY <4>3
      <4>6. IsDeal(h, f)'
        <5>1. f \in [Given(h)' -> Of(href[h])']
          BY <4>1, <4>2
        <5>2. \A i \in Of(href[h])' :
                hgiven'[h][i] = Cardinality(Part(f, i)) /\ Cardinality(Part(f, i)) <= Quantity[i]
          BY <2>1, <4>3, <4>4, <4>5, RefsStay
        <5> QED BY <2>2, <4>2, <5>1, <5>2 DEF IsDeal
      <4> QED BY <2>1, <2>2, <3>1, <3>3, <4>6, RefsStay DEF CallInv
    <3> QED BY <3>2, <3>3
  <2>5. LoneInv' /\ ReadInv'
    BY <2>1, <2>2 DEF DealInv, LoneInv, ReadInv
  <2>6. ASSUME NEW e \in Esims PROVE OwnedInv(e)'
    BY <2>1, RefsStay DEF DealInv, OwnedInv
  <2>7. ASSUME NEW i \in Items PROVE DoneInv(i)'
    <3>1. Busy(Ref(i)) => Busy(Ref(i))'
      BY <2>1, <2>2, RefsStay DEF Busy
    <3>2. DoneInv(i)
      BY DEF DealInv
    <3> QED BY <2>1, <2>3, <3>1, <3>2, DoneStays
  <2> QED BY <2>4, <2>5, <2>6, <2>7 DEF DealInv
<1> QED BY <1>1, <1>2

\* The last e-mails of a call: its items have what was bought.
LEMMA MailKeepsDeal ==
  ASSUME IInv, DealInv, NEW h \in Slots, Mail(h)
  PROVE  DealInv'
<1> DEFINE r == href[h]
<1> USE DEF Mail, rows, submission, history, Fault
<1>0. TypeOK /\ HookInv(h) /\ CallInv(h)
  BY DEF IInv, DealInv
<1>1. /\ hook[h] = "esims" /\ hleft[h] = {} /\ Return(h) /\ hurt \subseteq hurt' /\ mailed \subseteq mailed'
      /\ UNCHANGED <<provider, status, esim, itemOf, usage, early, crossed>>
  OBVIOUS
<1>2. \/ href[h] \in hurt'
      \/ \A e \in Esims : itemOf[e] \in hitems[h] => <<e, BuyerOf(href[h])>> \in mailed'
  OBVIOUS
<1>3. ASSUME r \notin early \cup crossed \cup hurt', NEW i \in Of(r)
      PROVE  Done(i)'
  <2>1. PICK g : IsDeal(h, g)
    BY <1>0, <1>1, <1>3 DEF CallInv
  <2>2. Given(h) = EsimsOf(r) /\ r \in Refs /\ hitems[h] = Of(r)
    BY <1>0, <1>1, <1>3 DEF Given, HookInv, CallInv
  <2>3. g \in [EsimsOf(r) -> Of(r)] /\ \A j \in Of(r) : Cardinality(Part(g, j)) <= Quantity[j]
    BY <2>1, <2>2 DEF IsDeal
  <2>4. \A j \in Of(r) : Cardinality(Part(g, j)) = Quantity[j]
    <3> HIDE DEF r
    <3> QED BY <2>2, <2>3, AllAreDealt
  <2>5. \A e \in EsimsOf(r) : itemOf[e] = g[e]
    BY <1>1, <1>3, <2>1, <2>2 DEF IsDeal, Writing
  <2>6. i \in Items /\ Ref(i) = r
    BY DEF Of
  <2>7. \A e \in Esims : itemOf[e] = i => e \in EsimsOf(r)
    <3>1. i # NoItem
      BY <2>6, DeliveryAssumption
    <3> QED BY <2>6, <3>1 DEF IInv, RowInv, FitsEsim, EsimsOf
  <2>8. Part(g, i) = {e \in Esims : itemOf[e] = i}
    <3>1. DOMAIN g = EsimsOf(r) /\ \A e \in EsimsOf(r) : e \in Esims
      BY <2>3 DEF EsimsOf
    <3> QED BY <2>5, <2>7, <3>1 DEF Part
  <2>9. \A e \in Esims : itemOf[e] = i => <<e, OrderOf[i]>> \in mailed'
    <3>1. BuyerOf(r) = OrderOf[i]
      BY <2>6, BuyerOfItem
    <3>2. href[h] \notin hurt'
      BY <1>3
    <3> QED BY <1>2, <2>2, <3>1, <3>2
  <2> QED BY <1>1, <2>4, <2>8, <2>9 DEF Done
<1> QED BY <1>1, <1>3, ReturnKeepsDeal

\* One more is dealt.
With(g, e, i) == [x \in DOMAIN g \cup {e} |-> IF x = e THEN i ELSE g[x]]

OneMore(g, k, e, i, P) ==
  /\ k[e] = i /\ \A x \in DOMAIN g : k[x] = g[x]
  /\ Cardinality(Part(k, i)) = Cardinality(Part(g, i)) + 1
  /\ \A j \in P : j # i => Cardinality(Part(k, j)) = Cardinality(Part(g, j))

LEMMA DealOne ==
  ASSUME NEW P, NEW G, IsFiniteSet(G), NEW g \in [G -> P], NEW e, e \notin G, NEW i \in P
  PROVE  With(g, e, i) \in [G \cup {e} -> P] /\ OneMore(g, With(g, e, i), e, i, P)
<1> DEFINE k == With(g, e, i)
<1>1. k \in [G \cup {e} -> P] /\ k[e] = i /\ \A x \in G : k[x] = g[x]
  BY DEF With
<1>2. DOMAIN k = G \cup {e} /\ DOMAIN g = G
  BY DEF With
<1> HIDE DEF k
<1>3. Part(k, i) = Part(g, i) \cup {e} /\ e \notin Part(g, i)
  BY <1>1, <1>2 DEF Part
<1>4. IsFiniteSet(Part(g, i))
  BY <1>2, PartIsFinite
<1>5. Cardinality(Part(k, i)) = Cardinality(Part(g, i)) + 1
  BY <1>3, <1>4, FS_AddElement
<1>6. ASSUME NEW j \in P, j # i
      PROVE  Cardinality(Part(k, j)) = Cardinality(Part(g, j))
  <2>1. Part(k, j) = Part(g, j)
    BY <1>1, <1>2, <1>6 DEF Part
  <2> QED BY <2>1
<1> QED BY <1>1, <1>2, <1>5, <1>6 DEF OneMore, k

\* The item a call finds has room for the eSIM, unless the call came early.
LEMMA FindsRoom ==
  ASSUME IInv, DealInv, NEW h \in Slots, hook[h] = "esims", href[h] \notin early,
         NEW g, IsDeal(h, g), NEW e \in hleft[h]
  PROVE  /\ Matches(h, e) # {}
         /\ \A i \in Matches(h, e) : /\ i \in Of(href[h]) /\ PlanOf[i] = PlanOf[MadeFor[e]]
                                     /\ hgiven[h][i] < Quantity[i]
<1> DEFINE r == href[h]
<1>0. TypeOK /\ HookInv(h) /\ CallInv(h)
  BY DEF IInv, DealInv
<1>1. r \in Refs /\ hitems[h] = Of(r) /\ e \in Esims /\ e \in EsimsOf(r) /\ RefOf(e) = r
  BY <1>0 DEF HookInv, CallInv, EsimsOf, TypeOK
<1>2. PICK G \in SUBSET EsimsOf(r) : G = Given(h)
  BY DEF Given
<1>3. /\ g \in [G -> Of(r)] /\ e \in EsimsOf(r) \ G
      /\ \A i \in Of(r) : Cardinality(Part(g, i)) <= Quantity[i] /\ hgiven[h][i] = Cardinality(Part(g, i))
      /\ \A x \in G : PlanOf[g[x]] = PlanOf[MadeFor[x]]
  BY <1>1, <1>2 DEF IsDeal, Given
<1> HIDE DEF r
<1>4. PICK j \in Of(r) : PlanOf[j] = PlanOf[MadeFor[e]] /\ Cardinality(Part(g, j)) < Quantity[j]
  BY <1>1, <1>3, RoomIsLeft
<1>5. hgiven[h][j] < Quantity[j]
  BY <1>3, <1>4
<1>6. Matches(h, e) # {}
  BY <1>1, <1>4, <1>5 DEF Matches, r
<1>7. ASSUME NEW i \in Matches(h, e)
      PROVE  i \in Of(r) /\ PlanOf[i] = PlanOf[MadeFor[e]] /\ hgiven[h][i] < Quantity[i]
  <2>1. i \in Of(r)
    BY <1>1, <1>7 DEF Matches
  <2>2. PlanOf[i] = PlanOf[MadeFor[e]]
    BY <1>0, <1>1, MatchesFit DEF FitsEsim, r
  <2>3. CASE r \in Orders
    BY <1>7, <2>1, <2>2, <2>3 DEF Matches, r
  <2>4. CASE r \notin Orders
    <3>1. i = r /\ j = r
      BY <1>4, <2>1, <2>4, DeliveryAssumption DEF Of, Ref
    <3> QED BY <1>5, <2>1, <2>2, <3>1
  <2> QED BY <2>3, <2>4
<1> QED BY <1>6, <1>7 DEF r

LEMMA FindKeepsDeal ==
  ASSUME IInv, DealInv, NEW h \in Slots, Find(h)
  PROVE  DealInv'
<1> USE DEF Find, Goto, submission, rows, history
<1>0. TypeOK /\ HookInv(h) /\ CallInv(h)
  BY DEF IInv, DealInv
<1>1. PICK e \in First(hleft[h]) :
        /\ \E i \in IF Matches(h, e) = {} THEN {NoItem} ELSE Matches(h, e) :
             /\ hcur' = [hcur EXCEPT ![h] = [esim |-> e, item |-> i,
                                             found |-> esim[e] # "none"]]
             /\ hgiven' = [hgiven EXCEPT ![h] =
                             [j \in Items |-> IF j = i THEN @[j] + 1 ELSE @[j]]]
        /\ hleft' = [hleft EXCEPT ![h] = @ \ {e}]
  OBVIOUS
<1>2. PICK i \in IF Matches(h, e) = {} THEN {NoItem} ELSE Matches(h, e) :
             /\ hcur' = [hcur EXCEPT ![h] = [esim |-> e, item |-> i,
                                             found |-> esim[e] # "none"]]
             /\ hgiven' = [hgiven EXCEPT ![h] =
                             [j \in Items |-> IF j = i THEN @[j] + 1 ELSE @[j]]]
  BY <1>1
<1>3. e \in hleft[h] /\ e \in Esims /\ e \in EsimsOf(href[h])
  BY <1>0, <1>1, FirstIsPart DEF HookInv, EsimsOf, TypeOK
<1>4. /\ hook[h] = "esims" /\ hook'[h] = "write" /\ hleft'[h] = hleft[h] \ {e}
      /\ hcur'[h] = [esim |-> e, item |-> i, found |-> esim[e] # "none"]
      /\ \A g \in Slots \ {h} : UNCHANGED <<hook[g], hleft[g], hgiven[g], hcur[g]>>
      /\ UNCHANGED <<provider, status, esim, itemOf, usage, mailed, early, crossed, hurt, href, hitems>>
  BY <1>0, <1>1, <1>2 DEF TypeOK
<1>5. hgiven'[h] = [j \in Items |-> IF j = i THEN hgiven[h][j] + 1 ELSE hgiven[h][j]]
  BY <1>0, <1>2 DEF TypeOK
<1>6. HistoryGrows
  BY <1>4 DEF HistoryGrows
<1>7. ASSUME NEW g \in Slots PROVE CallInv(g)'
  <2>1. HookInv(g) /\ CallInv(g)
    BY DEF IInv, DealInv
  <2>2. CASE g # h
    BY <1>4, <1>6, <2>1, <2>2, CallStays DEF EsimsOf
  <2>3. CASE g = h
    <3>1. ASSUME href[h] \notin early
          PROVE  \E f : IsDeal(h, f)'
      <4>1. PICK d : IsDeal(h, d)
        BY <1>0, <1>4, <3>1 DEF CallInv
      <4>2. /\ i \in Of(href[h]) /\ PlanOf[i] = PlanOf[MadeFor[e]] /\ hgiven[h][i] < Quantity[i]
            /\ i \in Items
        BY <1>2, <1>3, <1>4, <3>1, <4>1, FindsRoom DEF Of
      <4>3. PICK G : G = Given(h)
        OBVIOUS
      <4>4. IsFiniteSet(G) /\ e \notin G /\ Given(h)' = G \cup {e}
        <5>1. G \subseteq Esims /\ e \notin G
          BY <1>3, <4>3 DEF Given, EsimsOf
        <5>2. EsimsOf(href[h])' = EsimsOf(href[h])
          BY <1>4, RefsStay DEF EsimsOf
        <5>3. Given(h)' = G \cup {e}
          BY <1>3, <1>4, <4>3, <5>2 DEF Given
        <5> QED BY <5>1, <5>3, MadeAssumption, FS_Subset
      <4>5. /\ d \in [G -> Of(href[h])]
            /\ \A j \in Of(href[h]) :
                 hgiven[h][j] = Cardinality(Part(d, j)) /\ Cardinality(Part(d, j)) <= Quantity[j]
            /\ \A x \in G : PlanOf[d[x]] = PlanOf[MadeFor[x]]
            /\ href[h] \notin crossed \cup hurt => \A x \in G : itemOf[x] = d[x]
        BY <1>4, <4>1, <4>3 DEF IsDeal, Writing
      <4>6. PICK k : k = With(d, e, i)
        OBVIOUS
      <4>7. k \in [G \cup {e} -> Of(href[h])] /\ OneMore(d, k, e, i, Of(href[h])) /\ DOMAIN d = G
        BY <4>2, <4>4, <4>5, <4>6, DealOne
      <4>8. ASSUME NEW j \in Of(href[h])
            PROVE  hgiven'[h][j] = Cardinality(Part(k, j)) /\ Cardinality(Part(k, j)) <= Quantity[j]
        <5>1. j \in Items /\ Quantity[j] \in Nat /\ hgiven[h][j] \in Nat
          BY <1>0, DeliveryAssumption DEF Of, TypeOK
        <5>2. CASE j = i
          <6>1. hgiven'[h][i] = hgiven[h][i] + 1
            BY <1>5, <4>2
          <6> QED BY <4>2, <4>5, <4>7, <5>1, <5>2, <6>1 DEF OneMore
        <5>3. CASE j # i
          <6>1. hgiven'[h][j] = hgiven[h][j]
            BY <1>5, <5>1, <5>3
          <6> QED BY <4>5, <4>7, <5>3, <6>1 DEF OneMore
        <5> QED BY <5>2, <5>3
      <4>9. \A x \in G \cup {e} : PlanOf[k[x]] = PlanOf[MadeFor[x]]
        BY <4>2, <4>5, <4>7 DEF OneMore
      <4>10. href[h] \notin crossed \cup hurt => \A x \in G \cup {e} : itemOf[x] = k[x] \/ x = e
        BY <4>5, <4>7 DEF OneMore
      <4>11. IsDeal(h, k)'
        <5>1. Of(href[h])' = Of(href[h])
          BY <1>4, RefsStay
        <5>2. hcur'[h].esim = e /\ hcur'[h].item = i /\ k[e] = i
          BY <1>4, <4>7 DEF OneMore
        <5>3. k \in [Given(h)' -> Of(href[h])']
          BY <4>4, <4>7, <5>1
        <5>4. hook'[h] = "write" => hcur'[h].esim \in Given(h)' /\ hcur'[h].item = k[hcur'[h].esim]
          BY <4>4, <5>2
        <5>5. href'[h] \notin crossed' \cup hurt' =>
                \A x \in Given(h)' : itemOf'[x] = k[x] \/ (hook'[h] = "write" /\ x = hcur'[h].esim)
          BY <1>4, <4>4, <4>10, <5>2
        <5>6. \A x \in Given(h)' : PlanOf[k[x]] = PlanOf[MadeFor[x]]
          BY <4>4, <4>9
        <5>7. \A j \in Of(href[h])' :
                hgiven'[h][j] = Cardinality(Part(k, j)) /\ Cardinality(Part(k, j)) <= Quantity[j]
          BY <4>8, <5>1
        <5> QED BY <5>3, <5>4, <5>5, <5>6, <5>7 DEF IsDeal, Writing
      <4> QED BY <4>11
    <3>2. href[h] \notin early => hitems[h] = Of(href[h])
      BY <1>0, <1>4 DEF CallInv
    <3>3. ~hcur'[h].found => esim[hcur'[h].esim] = "none"
      <4>1. hcur'[h].esim = e /\ hcur'[h].found = (esim[e] # "none")
        BY <1>4
      <4> QED BY <4>1
    <3> QED BY <1>4, <2>3, <3>1, <3>2, <3>3, RefsStay DEF CallInv
  <2> QED BY <2>2, <2>3
<1>8. LoneInv' /\ ReadInv'
  BY <1>4 DEF DealInv, LoneInv, ReadInv
<1>9. ASSUME NEW f \in Esims PROVE OwnedInv(f)'
  BY <1>4, RefsStay DEF DealInv, OwnedInv
<1>10. ASSUME NEW j \in Items PROVE DoneInv(j)'
  <2>1. Busy(Ref(j)) => Busy(Ref(j))'
    BY <1>4, RefsStay DEF Busy
  <2>2. DoneInv(j)
    BY DEF DealInv
  <2> QED BY <1>4, <1>6, <2>1, <2>2, DoneStays
<1> QED BY <1>7, <1>8, <1>9, <1>10 DEF DealInv

LEMMA UpsertKeepsDeal ==
  ASSUME IInv, IInv', DealInv, NEW h \in Slots, Upsert(h)
  PROVE  DealInv'
<1> USE DEF Goto, Fault, submission, calls, history
<1>0. TypeOK /\ HookInv(h) /\ CallInv(h)
  BY DEF IInv, DealInv
<1>1. PICK e \in Esims : e = hcur[h].esim /\ RefOf(e) = href[h] /\ hook[h] = "write"
  BY <1>0 DEF Upsert, HookInv
<1>2. PICK i : i = hcur[h].item
  OBVIOUS
<1>3. /\ UNCHANGED <<provider, status, usage, mailed, early, crossed, href, hitems, hleft, hgiven, hcur>>
      /\ hook' = [hook EXCEPT ![h] = "esims"]
  BY DEF Upsert
<1>4. \/ /\ esim' = [esim EXCEPT ![e] = "available"]
         /\ itemOf' = [itemOf EXCEPT ![e] = IF i = NoItem THEN @ ELSE i]
         /\ UNCHANGED hurt
      \/ ~hcur[h].found /\ esim[e] # "none" /\ UNCHANGED <<esim, itemOf, hurt>>
      \/ href[h] \in hurt' /\ hurt \subseteq hurt' /\ UNCHANGED <<esim, itemOf>>
  BY <1>1, <1>2 DEF Upsert
<1>5. \/ /\ esim'[e] = "available" /\ itemOf'[e] = IF i = NoItem THEN itemOf[e] ELSE i
      \/ ~hcur[h].found /\ esim[e] # "none" /\ UNCHANGED <<esim, itemOf>>
      \/ href[h] \in hurt' /\ UNCHANGED <<esim, itemOf>>
  BY <1>0, <1>4 DEF TypeOK
<1>6. \A f \in Esims : f # e => UNCHANGED <<esim[f], itemOf[f]>>
  BY <1>0, <1>4 DEF TypeOK
<1>7. HistoryGrows
  BY <1>3, <1>4 DEF HistoryGrows
<1>8. hook'[h] = "esims" /\ \A g \in Slots \ {h} : hook'[g] = hook[g]
  BY <1>0, <1>3 DEF TypeOK
<1>9. ASSUME href[h] \notin early
      PROVE  \E g : IsDeal(h, g) /\ g[e] = i /\ i \in Items
  <2>1. PICK g : IsDeal(h, g)
    BY <1>0, <1>1, <1>9 DEF CallInv
  <2>2. g[e] = i /\ g[e] \in Of(href[h])
    BY <1>1, <1>2, <2>1 DEF IsDeal
  <2> QED BY <2>1, <2>2 DEF Of
<1>10. ASSUME NEW g \in Slots PROVE CallInv(g)'
  <2>1. HookInv(g) /\ CallInv(g)
    BY DEF IInv, DealInv
  <2>2. CASE g # h
    <3>1. ASSUME hook[g] # "idle", href[g] \notin crossed'
          PROVE  \A f \in EsimsOf(href[g]) :
                   itemOf'[f] = itemOf[f] /\ (esim[f] = "none" => esim'[f] = "none")
      <4>1. href[g] # href[h]
        BY <1>1, <1>3, <2>2, <3>1 DEF DealInv, LoneInv
      <4> QED BY <1>1, <1>6, <4>1 DEF EsimsOf
    <3> QED BY <1>3, <1>7, <1>8, <2>1, <2>2, <3>1, CallStays
  <2>3. CASE g = h
    <3>1. ASSUME href[h] \notin early
          PROVE  \E f : IsDeal(h, f)'
      <4>1. PICK d : IsDeal(h, d) /\ d[e] = i /\ i \in Items
        BY <1>9, <3>1
      <4>2. Given(h)' = Given(h) /\ Of(href[h])' = Of(href[h])
        BY <1>3, RefsStay DEF Given, EsimsOf
      <4>3. ASSUME href[h] \notin crossed \cup hurt', NEW x \in Given(h)
            PROVE  itemOf'[x] = d[x]
        <5>1. x \in Esims
          BY DEF Given, EsimsOf
        <5>2. itemOf[x] = d[x] \/ x = e
          BY <1>1, <1>7, <4>1, <4>3 DEF IsDeal, Writing, HistoryGrows
        <5>3. CASE x # e
          BY <1>6, <5>1, <5>2, <5>3
        <5>4. CASE x = e
          <6>1. hcur[h].found \/ esim[e] = "none"
            BY <1>0, <1>1, <4>3 DEF CallInv
          <6>2. i # NoItem
            BY <4>1, DeliveryAssumption
          <6> QED BY <1>5, <4>1, <4>3, <5>4, <6>1, <6>2
        <5> QED BY <5>3, <5>4
      <4>4. IsDeal(h, d)'
        <5>1. /\ d \in [Given(h) -> Of(href[h])]
              /\ \A j \in Of(href[h]) :
                   hgiven[h][j] = Cardinality(Part(d, j)) /\ Cardinality(Part(d, j)) <= Quantity[j]
              /\ \A x \in Given(h) : PlanOf[d[x]] = PlanOf[MadeFor[x]]
          BY <4>1 DEF IsDeal
        <5> QED BY <1>3, <1>8, <4>2, <4>3, <5>1 DEF IsDeal
      <4> QED BY <4>4
    <3>2. href[h] \notin early => hitems[h] = Of(href[h])
      BY <1>0, <1>1 DEF CallInv
    <3> QED BY <1>3, <1>8, <2>3, <3>1, <3>2, RefsStay DEF CallInv
  <2> QED BY <2>2, <2>3
<1>11. LoneInv' /\ ReadInv'
  BY <1>1, <1>3, <1>8 DEF DealInv, LoneInv, ReadInv
<1>12. ASSUME NEW f \in Esims PROVE OwnedInv(f)'
  <2>1. OwnedInv(f)
    BY DEF DealInv
  <2>2. CASE f # e
    BY <1>3, <1>6, <2>1, <2>2, RefsStay DEF OwnedInv
  <2>3. CASE f = e
    <3>1. i = NoItem => RefOf(e) \in early
      BY <1>1, <1>9, DeliveryAssumption
    <3> QED BY <1>3, <1>5, <2>1, <2>3, <3>1, RefsStay DEF OwnedInv
  <2> QED BY <2>2, <2>3
<1>13. ASSUME NEW j \in Items PROVE DoneInv(j)'
  <2>1. Busy(Ref(j))' <=> Busy(Ref(j))
    BY <1>1, <1>3, <1>8, RefsStay DEF Busy
  <2>2. DoneInv(j)
    BY DEF DealInv
  <2>3. ASSUME ~Busy(Ref(j)), NEW f \in Esims
        PROVE  itemOf'[f] = j <=> itemOf[f] = j
    <3>1. Ref(j) # href[h]
      BY <1>1, <2>3 DEF Busy
    <3>2. CASE f # e
      BY <1>6, <3>2
    <3>3. CASE f = e
      <4>1. j # NoItem
        BY DeliveryAssumption
      <4>2. itemOf[e] # j
        BY <1>1, <3>1, <4>1 DEF IInv, RowInv, FitsEsim
      <4>3. itemOf'[e] # j
        <5>1. RowInv(e)'
          BY DEF IInv
        <5>2. itemOf'[e] # NoItem => Ref(itemOf'[e]) = RefOf(e)
          BY <1>3, <5>1 DEF RowInv, FitsEsim, Ref, RefOf
        <5> QED BY <1>1, <3>1, <4>1, <5>2
      <4> QED BY <3>3, <4>2, <4>3
    <3> QED BY <3>2, <3>3
  <2> QED BY <1>3, <1>7, <2>1, <2>2, <2>3, DoneStays
<1> QED BY <1>10, <1>11, <1>12, <1>13 DEF DealInv

LEMMA NextKeepsDeal == IInv /\ IInv' /\ RecallInv /\ DealInv /\ [Next]_vars => DealInv'
<1> SUFFICES ASSUME IInv, IInv', RecallInv, DealInv, [Next]_vars PROVE DealInv'
  OBVIOUS
<1>1. CASE \/ \E o \in Orders : \/ Submitting(o) \/ SaveFails(o) \/ Stop(o)
                                \/ Refund(o) \/ Refunding(o)
           \/ \E e \in Polled : ReadUsage(e)
           \/ SaveUsage \/ UNCHANGED vars
  BY <1>1, OthersKeepDeal
<1>2. CASE \E h \in Slots : Handling(h) \/ Die(h) \/ \E r \in Refs : Deliver(h, r)
  BY <1>2, DeliverKeepsDeal, CompleteKeepsDeal, ListKeepsDeal, FindKeepsDeal, UpsertKeepsDeal,
     MailKeepsDeal DEF Handling
<1> QED BY <1>1, <1>2 DEF Next
-----------------------------------------------------------------------------
\* For any orders, providers and eSIMs, and any interleaving of submissions, webhooks, refunds
\* and polls, the invariant holds.
THEOREM DeliveryInvariant == Spec => []IInv
  BY InitInv, NextKeepsInv, PTL DEF Spec

\* Every variable keeps its type.
THEOREM DeliveryTypes == Spec => []TypeOK
<1>1. IInv => TypeOK
  BY DEF IInv
<1> QED BY <1>1, DeliveryInvariant, PTL

\* The handlers of the three providers' webhooks give an eSIM to an item of the order it was
\* made for, of its package, and mail it to that order's buyer only.
THEOREM EveryEsimFindsItsBuyer == Spec => []EsimsFindTheirBuyer
<1>1. IInv => EsimsFindTheirBuyer
  BY DEF IInv, RowInv, MailInv, FitsEsim, EsimsFindTheirBuyer
<1> QED BY <1>1, DeliveryInvariant, PTL

\* A refund that met neither a webhook nor the submission nor a poll leaves no eSIM of its
\* order unmarked, and none that its supplier was not told to cancel.
THEOREM RefundsAreRecalled == Spec => []RefundIsRecalled
<1>1. IInv /\ RecallInv => RefundIsRecalled
  <2> SUFFICES ASSUME IInv, RecallInv, NEW o \in Orders, refund[o] = "done", o \notin late,
                      NEW i \in BuyersItems(o), Ref(i) \notin hurt
               PROVE  /\ \A e \in Esims : itemOf[e] = i =>
                           /\ esim[e] = "refunded"
                           /\ provider[i] = "esimaccess" => e \in recalled
                      /\ provider[i] = "gadgetkorea" /\ i \in saved => i \in recalled
    BY DEF RefundIsRecalled
  <2>1. RefundInv(o)
    BY DEF RecallInv
  <2>2. /\ ToCancel(i) \subseteq recalled
        /\ \A e \in Esims : itemOf[e] = i => esim[e] = "refunded"
    BY <2>1 DEF RefundInv
  <2> QED BY <2>2 DEF ToCancel
<1> QED BY <1>1, InitRecall, NextKeepsRecall, DeliveryInvariant, PTL DEF Spec

\* A completed item has as many eSIMs as were bought, all mailed to its buyer, once its
\* webhooks have ended, if none came early, two did not cross and none was hit; and an eSIM
\* has an item unless a webhook came before all request ids were saved.
THEOREM CompletedIsDeliveredInFull == Spec => []CompletedIsDelivered
<1>1. DealInv => CompletedIsDelivered
  <2> SUFFICES ASSUME DealInv PROVE CompletedIsDelivered
    OBVIOUS
  <2>1. \A i \in Items :
          status[i] = "completed" /\ ~Busy(Ref(i)) /\ Ref(i) \notin early \cup crossed \cup hurt
            => Done(i)
    BY DEF DealInv, DoneInv
  <2>2. \A e \in Esims : esim[e] # "none" /\ itemOf[e] = NoItem => RefOf(e) \in early
    BY DEF DealInv, OwnedInv
  <2> QED BY <2>1, <2>2 DEF CompletedIsDelivered, Done
<1> QED BY <1>1, InitRecall, NextKeepsRecall, InitDeal, NextKeepsDeal, DeliveryInvariant, PTL DEF Spec
-----------------------------------------------------------------------------
(* JapanTravelSim is asked for its results instead of calling a webhook. The      *)
(* e-mails of its items, for any number of orders, items and overlapping polls:  *)
(* why the row of the eSIM is enough to keep them apart.                       *)

\* A poll that handles a result has an item.
Working == \A p \in Polls :
  pc[p] \in {"look", "create", "mail", "complete"} => cur[p] \in JtsItems

\* Only the poll that inserted the eSIM is about to mail it, for the first time.
Mailer == \A p \in Polls : pc[p] = "mail" =>
  /\ jtsEsim[cur[p]] # "none" /\ mails[cur[p]] = 0
  /\ \A q \in Polls : pc[q] = "mail" /\ cur[q] = cur[p] => q = p

\* What was mailed, or is completed, has its eSIM.
HasEsim ==
  /\ \A i \in JtsItems : mails[i] > 0 \/ jtsStatus[i] = "completed" => jtsEsim[i] # "none"
  /\ \A p \in Polls : pc[p] = "complete" => jtsEsim[cur[p]] # "none"

\* Without faults an eSIM is mailed or about to be.
MailIsDue == faults = 0 =>
  \A i \in JtsItems : jtsEsim[i] # "none" =>
    mails[i] = 1 \/ \E p \in Polls : pc[p] = "mail" /\ cur[p] = i

JtsInv ==
  /\ JtsTypeOK
  /\ Working /\ Mailer /\ HasEsim /\ MailIsDue /\ OneMail

LEMMA InitJts == JtsInit => JtsInv
  BY JtsAssumption DEF JtsInit, JtsInv, JtsTypeOK, Working, Mailer, HasEsim, MailIsDue, OneMail,
     Polls
-----------------------------------------------------------------------------
LEMMA AskedForItems ==
  ASSUME JtsTypeOK, NEW p \in Polls
  PROVE  AskedFor(p) \subseteq JtsItems
  BY DEF JtsTypeOK, AskedFor, Front

\* Steps that leave the rows of items and the e-mails alone, and start no mail.
LEMMA QuietPoll ==
  ASSUME JtsInv, JtsTypeOK', UNCHANGED <<jtsStatus, jtsEsim, mails>>, faults' >= faults,
         \A p \in Polls :
           \/ pc'[p] = pc[p] /\ cur'[p] = cur[p]
           \/ pc'[p] \in {"idle", "ask", "loop"} /\ (pc[p] = "mail" => faults' > 0)
           \/ pc'[p] \in {"look", "create"} /\ cur'[p] \in JtsItems /\ pc[p] # "mail"
           \/ /\ pc'[p] = "complete" /\ cur'[p] \in JtsItems /\ jtsEsim[cur'[p]] # "none"
              /\ pc[p] # "mail"
  PROVE  JtsInv'
<1>1. Working'
  BY DEF JtsInv, Working
<1>2. Mailer'
  BY DEF JtsInv, Mailer
<1>3. HasEsim'
  BY DEF JtsInv, HasEsim
<1>4. MailIsDue'
  BY DEF JtsInv, MailIsDue, JtsTypeOK
<1>5. OneMail'
  BY DEF JtsInv, OneMail
<1> QED BY <1>1, <1>2, <1>3, <1>4, <1>5 DEF JtsInv

LEMMA RequestKeepsJts ==
  ASSUME JtsInv, NEW o \in JtsOrders,
         \/ Submit(o) \/ Schedule(o) \/ GiveUp(o)
         \/ \E i \in JtsItems : SaveRequest(o, i)
  PROVE  JtsInv'
<1> USE DEF JtsInv, JtsTypeOK, JtsFault, jtsRows, polls
<1>1. JtsTypeOK'
  <2>1. CASE Submit(o)
    <3>1. sub' \in [JtsOrders -> {"ask", "save", "over"}] /\ faults' \in 0..MaxJtsFaults
      BY <2>1, JtsAssumption DEF JtsInv, Submit
    <3>2. jts' \in [JtsItems -> {"none", "accepted", "ready"}]
      BY <2>1 DEF Submit
    <3> QED BY <2>1, <3>1, <3>2 DEF Submit
  <2>2. CASE Schedule(o) \/ GiveUp(o)
    <3>1. sub' \in [JtsOrders -> {"ask", "save", "over"}] /\ faults' \in 0..MaxJtsFaults
      BY <2>2, JtsAssumption DEF JtsInv, Schedule, GiveUp
    <3>2. timer' \subseteq JtsOrders
      BY <2>2 DEF Schedule, GiveUp
    <3> QED BY <2>2, <3>1, <3>2 DEF Schedule, GiveUp
  <2>3. ASSUME NEW i \in JtsItems, SaveRequest(o, i)
        PROVE  JtsTypeOK'
    BY <2>3, JtsAssumption DEF JtsInv, SaveRequest
  <2> QED BY <2>1, <2>2, <2>3
<1>2. /\ UNCHANGED <<jtsStatus, jtsEsim, mails, pc, cur>>
      /\ faults' >= faults
  BY JtsAssumption DEF JtsInv, Submit, Schedule, GiveUp, SaveRequest
<1> QED BY <1>1, <1>2, QuietPoll

LEMMA ProduceKeepsJts ==
  ASSUME JtsInv, NEW i \in JtsItems, Produce(i)
  PROVE  JtsInv'
<1> USE DEF JtsInv, JtsTypeOK, jtsRows, polls
<1>1. JtsTypeOK'
  BY DEF Produce
<1>2. UNCHANGED <<jtsStatus, jtsEsim, mails, pc, cur, faults>>
  BY DEF Produce
<1> QED BY <1>1, <1>2, QuietPoll, JtsAssumption DEF JtsInv

LEMMA PollKeepsJts ==
  ASSUME JtsInv, NEW p \in Polls,
         \/ AskResults(p) \/ More(p) \/ Look(p) \/ Break(p)
         \/ \E i \in JtsItems : Take(p, i)
  PROVE  JtsInv'
<1> USE DEF jtsRows, polls, At, GoOn, Finish, JtsFault
<1>1. CASE AskResults(p)
  <2>1. JtsTypeOK'
    BY <1>1, AskedForItems, JtsAssumption DEF JtsInv, JtsTypeOK, AskResults
  <2> QED BY <1>1, <2>1, QuietPoll DEF JtsInv, JtsTypeOK, AskResults
<1>2. CASE More(p)
  <2>1. JtsTypeOK'
    BY <1>2, JtsAssumption DEF JtsInv, JtsTypeOK, More
  <2> QED BY <1>2, <2>1, QuietPoll DEF JtsInv, JtsTypeOK, More
<1>3. CASE Look(p)
  <2>1. JtsTypeOK'
    BY <1>3, JtsAssumption DEF JtsInv, JtsTypeOK, Look
  <2> QED BY <1>3, <2>1, QuietPoll DEF JtsInv, JtsTypeOK, Look, Working
<1>4. ASSUME NEW i \in JtsItems, Take(p, i)
      PROVE  JtsInv'
  <2>1. JtsTypeOK'
    BY <1>4, JtsAssumption DEF JtsInv, JtsTypeOK, Take
  <2> QED BY <1>4, <2>1, QuietPoll DEF JtsInv, JtsTypeOK, Take
<1>5. CASE Break(p)
  <2>1. JtsTypeOK'
    BY <1>5, JtsAssumption DEF JtsInv, JtsTypeOK, Break
  <2> QED BY <1>5, <2>1, QuietPoll DEF JtsInv, JtsTypeOK, Break
<1> QED BY <1>1, <1>2, <1>3, <1>4, <1>5

LEMMA TriggerKeepsJts ==
  ASSUME JtsInv,
         Restart \/ (\E o \in JtsOrders : TimerFires(o)) \/ (\E t \in Ticks : Tick(t))
  PROVE  JtsInv'
<1> USE DEF jtsRows, JtsFault
<1>1. CASE Restart
  <2>1. JtsTypeOK'
    BY <1>1, JtsAssumption DEF JtsInv, JtsTypeOK, Restart
  <2> QED BY <1>1, <2>1, QuietPoll DEF JtsInv, JtsTypeOK, Restart
<1>2. ASSUME NEW o \in JtsOrders, TimerFires(o)
      PROVE  JtsInv'
  <2>1. JtsTypeOK'
    BY <1>2, JtsAssumption DEF JtsInv, JtsTypeOK, TimerFires, Polls
  <2> QED BY <1>2, <2>1, QuietPoll DEF JtsInv, JtsTypeOK, TimerFires, At
<1>3. ASSUME NEW t \in Ticks, Tick(t)
      PROVE  JtsInv'
  <2>1. JtsTypeOK'
    BY <1>3, JtsAssumption DEF JtsInv, JtsTypeOK, Tick, Front, Pending, Polls
  <2> QED BY <1>3, <2>1, QuietPoll DEF JtsInv, JtsTypeOK, Tick, At
<1> QED BY <1>1, <1>2, <1>3
-----------------------------------------------------------------------------
LEMMA CreateKeepsJts ==
  ASSUME JtsInv, NEW p \in Polls, Create(p)
  PROVE  JtsInv'
<1> USE DEF jtsRows, polls, At, GoOn, Finish
<1>1. JtsTypeOK'
  BY JtsAssumption DEF JtsInv, JtsTypeOK, Create, Working
<1>2. CASE jtsEsim[cur[p]] # "none"
  BY <1>1, <1>2, QuietPoll DEF JtsInv, JtsTypeOK, Create
<1>3. CASE jtsEsim[cur[p]] = "none"
  <2>1. /\ cur[p] \in JtsItems /\ mails[cur[p]] = 0
        /\ \A q \in Polls : pc[q] = "mail" => cur[q] # cur[p]
    <3>1. cur[p] \in JtsItems
      BY DEF JtsInv, Working, Create
    <3>2. mails[cur[p]] \in Nat /\ ~(mails[cur[p]] > 0)
      BY <1>3, <3>1 DEF JtsInv, JtsTypeOK, HasEsim
    <3>3. \A q \in Polls : pc[q] = "mail" => cur[q] # cur[p]
      BY <1>3 DEF JtsInv, Mailer
    <3> QED BY <3>1, <3>2, <3>3
  <2>0. /\ pc' = [pc EXCEPT ![p] = "mail"] /\ UNCHANGED <<cur, mails, jtsStatus, faults>>
        /\ jtsEsim' = [jtsEsim EXCEPT ![cur[p]] = "available"]
        /\ pc \in [Polls -> {"idle", "ask", "loop", "look", "create", "mail", "complete"}]
        /\ jtsEsim \in [JtsItems -> {"none", "available", "refunded"}]
    BY <1>1, <1>3 DEF JtsInv, JtsTypeOK, Create
  <2>2. Working'
    BY <1>3, <2>1 DEF JtsInv, JtsTypeOK, Working, Create
  <2>3. Mailer'
    <3>1. /\ pc'[p] = "mail" /\ (\A q \in Polls \ {p} : pc'[q] = pc[q])
          /\ jtsEsim'[cur[p]] = "available"
          /\ \A i \in JtsItems \ {cur[p]} : jtsEsim'[i] = jtsEsim[i]
      BY <2>1, <2>0
    <3>2. ASSUME NEW q \in Polls, pc'[q] = "mail"
          PROVE  /\ jtsEsim'[cur'[q]] # "none" /\ mails'[cur'[q]] = 0
                 /\ \A r \in Polls : pc'[r] = "mail" /\ cur'[r] = cur'[q] => r = q
      <4>1. CASE q = p
        BY <2>1, <2>0, <3>1, <4>1
      <4>2. CASE q # p
        <5>1. pc[q] = "mail" /\ cur[q] # cur[p] /\ cur[q] \in JtsItems
          BY <2>1, <3>1, <3>2, <4>2 DEF JtsInv, Working
        <5> QED BY <2>0, <3>1, <5>1 DEF JtsInv, Mailer
      <4> QED BY <4>1, <4>2
    <3> QED BY <3>2 DEF Mailer
  <2>4. HasEsim'
    <3>1. \A i \in JtsItems : jtsEsim[i] # "none" => jtsEsim'[i] # "none"
      BY <2>1, <2>0
    <3>2. \A q \in Polls : pc'[q] = "complete" => pc[q] = "complete"
      BY <2>0
    <3>3. \A q \in Polls : pc[q] = "complete" => cur[q] \in JtsItems
      BY DEF JtsInv, Working
    <3> QED BY <2>0, <3>1, <3>2, <3>3 DEF JtsInv, HasEsim
  <2>5. MailIsDue'
    BY <1>3, <2>1 DEF JtsInv, JtsTypeOK, MailIsDue, Create
  <2>6. OneMail'
    BY <1>3 DEF JtsInv, OneMail, Create
  <2> QED BY <1>1, <2>2, <2>3, <2>4, <2>5, <2>6 DEF JtsInv
<1> QED BY <1>2, <1>3

LEMMA MailKeepsJts ==
  ASSUME JtsInv, NEW p \in Polls, MailEsim(p)
  PROVE  JtsInv'
<1> USE DEF jtsRows, polls, At, GoOn
<1>1. /\ cur[p] \in JtsItems /\ mails[cur[p]] = 0 /\ jtsEsim[cur[p]] # "none"
      /\ \A q \in Polls : pc[q] = "mail" /\ q # p => cur[q] # cur[p]
  BY DEF JtsInv, JtsTypeOK, Mailer, Working, MailEsim
<1>2. JtsTypeOK'
  BY <1>1, JtsAssumption DEF JtsInv, JtsTypeOK, MailEsim, JtsFault
<1>3. Working'
  BY DEF JtsInv, JtsTypeOK, Working, MailEsim
<1>4. Mailer'
  <2>1. /\ pc'[p] # "mail" /\ (\A q \in Polls \ {p} : pc'[q] = pc[q])
        /\ UNCHANGED <<cur, jtsEsim>>
        /\ \A i \in JtsItems \ {cur[p]} : mails'[i] = mails[i]
    BY <1>1 DEF JtsInv, JtsTypeOK, MailEsim
  <2>2. ASSUME NEW q \in Polls, pc'[q] = "mail"
        PROVE  /\ jtsEsim'[cur'[q]] # "none" /\ mails'[cur'[q]] = 0
               /\ \A r \in Polls : pc'[r] = "mail" /\ cur'[r] = cur'[q] => r = q
    <3>1. q # p /\ pc[q] = "mail" /\ cur[q] # cur[p] /\ cur[q] \in JtsItems
      BY <1>1, <2>1, <2>2 DEF JtsInv, Working
    <3> QED BY <2>1, <3>1 DEF JtsInv, Mailer
  <2> QED BY <2>2 DEF Mailer
<1>5. HasEsim'
  BY <1>1 DEF JtsInv, JtsTypeOK, Working, HasEsim, MailEsim
<1>6. MailIsDue'
  BY <1>1 DEF JtsInv, JtsTypeOK, MailIsDue, MailEsim, JtsFault
<1>7. OneMail'
  BY <1>1 DEF JtsInv, JtsTypeOK, OneMail, MailEsim
<1> QED BY <1>2, <1>3, <1>4, <1>5, <1>6, <1>7 DEF JtsInv

LEMMA CompleteKeepsJts ==
  ASSUME JtsInv, NEW p \in Polls, Complete(p)
  PROVE  JtsInv'
<1> USE DEF jtsRows, polls, At, GoOn
<1>1. JtsTypeOK'
  BY JtsAssumption DEF JtsInv, JtsTypeOK, Complete
<1>2. Working'
  BY DEF JtsInv, JtsTypeOK, Working, Complete
<1>3. Mailer'
  BY DEF JtsInv, JtsTypeOK, Mailer, Complete
<1>4. HasEsim'
  BY DEF JtsInv, JtsTypeOK, Working, HasEsim, Complete
<1>5. MailIsDue'
  BY DEF JtsInv, JtsTypeOK, MailIsDue, Complete
<1>6. OneMail'
  BY DEF JtsInv, OneMail, Complete
<1> QED BY <1>1, <1>2, <1>3, <1>4, <1>5, <1>6 DEF JtsInv

LEMMA RefundKeepsJts ==
  ASSUME JtsInv, NEW o \in JtsOrders, RefundItems(o)
  PROVE  JtsInv'
<1> USE DEF polls
<1>1. JtsTypeOK'
  BY JtsAssumption DEF JtsInv, JtsTypeOK, RefundItems, JtsFault
<1>2. /\ \A i \in JtsItems : (jtsEsim'[i] = "none") <=> (jtsEsim[i] = "none")
      /\ faults' >= faults
      /\ UNCHANGED <<jtsStatus, mails, pc, cur>>
  BY JtsAssumption DEF JtsInv, JtsTypeOK, RefundItems, JtsFault
<1>3. Working' /\ OneMail'
  BY <1>2 DEF JtsInv, Working, OneMail
<1>4. Mailer'
  BY <1>2 DEF JtsInv, Working, Mailer
<1>5. HasEsim'
  BY <1>2 DEF JtsInv, Working, HasEsim
<1>6. MailIsDue'
  BY <1>2 DEF JtsInv, JtsTypeOK, MailIsDue
<1> QED BY <1>1, <1>3, <1>4, <1>5, <1>6 DEF JtsInv

LEMMA NextKeepsJts == JtsInv /\ [JtsNext]_jtsVars => JtsInv'
<1> SUFFICES ASSUME JtsInv, [JtsNext]_jtsVars
             PROVE  JtsInv'
  OBVIOUS
<1>1. CASE UNCHANGED jtsVars
  BY <1>1 DEF jtsVars, jtsRows, polls, JtsInv, JtsTypeOK, Working, Mailer, HasEsim,
              MailIsDue, OneMail
<1>2. ASSUME NEW o \in JtsOrders,
             \/ Submit(o) \/ Schedule(o) \/ GiveUp(o)
             \/ \E i \in JtsItems : SaveRequest(o, i)
      PROVE  JtsInv'
  BY <1>2, RequestKeepsJts
<1>3. ASSUME NEW o \in JtsOrders, TimerFires(o)
      PROVE  JtsInv'
  BY <1>3, TriggerKeepsJts
<1>4. ASSUME NEW o \in JtsOrders, RefundItems(o)
      PROVE  JtsInv'
  BY <1>4, RefundKeepsJts
<1>5. ASSUME NEW t \in Ticks, Tick(t)
      PROVE  JtsInv'
  BY <1>5, TriggerKeepsJts
<1>6. ASSUME NEW p \in Polls, Step(p) \/ Break(p)
      PROVE  JtsInv'
  BY <1>6, PollKeepsJts, CreateKeepsJts, MailKeepsJts, CompleteKeepsJts DEF Step
<1>7. ASSUME NEW i \in JtsItems, Produce(i)
      PROVE  JtsInv'
  BY <1>7, ProduceKeepsJts
<1>8. CASE Restart
  BY <1>8, TriggerKeepsJts
<1> QED BY <1>1, <1>2, <1>3, <1>4, <1>5, <1>6, <1>7, <1>8 DEF JtsNext
-----------------------------------------------------------------------------
(* What holds for every number of orders, items and polls.                   *)

\* The inductive invariant.
THEOREM EmailInvariant == JtsSpec => []JtsInv
  BY InitJts, NextKeepsJts, PTL DEF JtsSpec

\* Every variable keeps its type.
THEOREM PollsKeepTypes == JtsSpec => []JtsTypeOK
<1>1. JtsInv => JtsTypeOK
  BY DEF JtsInv
<1> QED BY <1>1, EmailInvariant, PTL

\* Timer poll and overlapping ticks, broken and restarted, mail an eSIM at most once.
THEOREM BuyersGetOneMail == JtsSpec => []OneMail
<1>1. JtsInv => OneMail
  BY DEF JtsInv
<1> QED BY <1>1, EmailInvariant, PTL

\* Without faults, what is completed at rest was mailed.
THEOREM CompletionMeansMail == JtsSpec => []CompletedByMail
<1>1. JtsInv => CompletedByMail
  BY DEF JtsInv, HasEsim, MailIsDue, CompletedByMail, Quiet, At
<1> QED BY <1>1, EmailInvariant, PTL
=============================================================================
