--------------------------- MODULE JtsFulfilment ---------------------------
(***************************************************************************)
(* How the eSIMs of paid JapanTravelSim items reach their buyers: the        *)
(* submission of an order, the poll scheduled 60 seconds after it, the poll  *)
(* of the cron every 30 seconds, and handleOrderComplete, which both run for *)
(* each result. Timers are in memory, ticks of the cron may overlap, and     *)
(* nothing but UNIQUE(iccid) keeps two polls of one item apart.             *)
(* Names that ProviderDelivery has too are prefixed: proofs are about both.   *)
(***************************************************************************)
EXTENDS Integers, FiniteSets

CONSTANTS
  JtsItems,   \* order items, by id; one per unit, each with its channelOrderId
  JtsOrders,  \* the orders, each the set of its items
  Ticks,      \* ticks of the cron that may run at the same time
  Page,       \* findPendingByProvider takes that many items (100 in the code)
  Batch,      \* items per call of the callback API (10 in the code)
  NoJtsItem,
  MaxJtsFaults  \* bound: errors, lost e-mails and restarts

ASSUME JtsAssumption ==
  /\ JtsItems \subseteq Nat /\ JtsOrders \subseteq SUBSET JtsItems
  /\ Ticks \cap JtsOrders = {} /\ NoJtsItem \notin JtsItems
  /\ Page \in Nat \ {0} /\ Batch \in Nat \ {0} /\ MaxJtsFaults \in Nat

Polls == Ticks \cup JtsOrders  \* the poll of an order is the one its timer starts

VARIABLES
  jtsStatus,  \* status of the order_item rows
  request,    \* the items whose orderRequestId is saved
  jtsEsim,    \* status of the esim row with the item's iccid
  refunded,   \* the orders that were refunded
  sub,        \* submitProviders: ask, save, over
  timer,      \* the orders whose setTimeout is armed
  jts,        \* what JapanTravelSim made of the item
  mails,      \* e-mails with the item's eSIM that the buyer got
  pc, jtsTodo, got, cur,  \* a poll: place, items to ask for, results to handle, item
  faults

jtsRows == <<jtsStatus, request, jtsEsim, refunded>>
polls == <<pc, jtsTodo, got, cur>>
jtsVars == <<jtsRows, sub, timer, jts, mails, polls, faults>>

JtsInit ==
  /\ jtsStatus = [i \in JtsItems |-> "pending"]
  /\ request = {}
  /\ jtsEsim = [i \in JtsItems |-> "none"]
  /\ refunded = {}
  /\ sub = [o \in JtsOrders |-> "ask"]
  /\ timer = {}
  /\ jts = [i \in JtsItems |-> "none"]
  /\ mails = [i \in JtsItems |-> 0]
  /\ pc = [p \in Polls |-> "idle"]
  /\ jtsTodo = [p \in Polls |-> {}]
  /\ got = [p \in Polls |-> {}]
  /\ cur = [p \in Polls |-> NoJtsItem]
  /\ faults = 0

At(p, l) == pc[p] = l

GoOn(p, l) == pc' = [pc EXCEPT ![p] = l] /\ UNCHANGED <<jtsTodo, got, cur>>

Finish(p) == /\ pc' = [pc EXCEPT ![p] = "idle"]
             /\ jtsTodo' = [jtsTodo EXCEPT ![p] = {}]
             /\ got' = [got EXCEPT ![p] = {}]
             /\ cur' = [cur EXCEPT ![p] = NoJtsItem]

JtsFault == faults < MaxJtsFaults /\ faults' = faults + 1

\* The n items with the smallest ids.
Front(n, s) == {i \in s : Cardinality({j \in s : j < i}) < n}
-----------------------------------------------------------------------------
(* submitProviders, for the items of this supplier.                        *)

\* The call is caught when it fails, also when only its answer is lost.
Submit(o) ==
  /\ sub[o] = "ask"
  /\ \/ /\ jts' = [i \in JtsItems |-> IF i \in o THEN "accepted" ELSE jts[i]]
        /\ sub' = [sub EXCEPT ![o] = "save"]
        /\ UNCHANGED faults
     \/ /\ \/ UNCHANGED jts
           \/ jts' = [i \in JtsItems |-> IF i \in o THEN "accepted" ELSE jts[i]]
        /\ sub' = [sub EXCEPT ![o] = "over"]
        /\ JtsFault
  /\ UNCHANGED <<jtsRows, timer, mails, polls>>

SaveRequest(o, i) ==
  /\ sub[o] = "save"
  /\ i \in o \ request
  /\ request' = request \cup {i}
  /\ UNCHANGED <<jtsStatus, jtsEsim, refunded, sub, timer, jts, mails, polls, faults>>

Schedule(o) ==
  /\ sub[o] = "save"
  /\ o \subseteq request
  /\ sub' = [sub EXCEPT ![o] = "over"]
  /\ timer' = timer \cup {o}
  /\ UNCHANGED <<jtsRows, jts, mails, polls, faults>>

\* An UPDATE fails: nothing catches it, and the poll is not scheduled.
GiveUp(o) ==
  /\ sub[o] = "save"
  /\ sub' = [sub EXCEPT ![o] = "over"]
  /\ JtsFault
  /\ UNCHANGED <<jtsRows, timer, jts, mails, polls>>
-----------------------------------------------------------------------------
(* The two polls.                                                          *)

\* pollSpecificOrders: one call for all channelOrderIds of the order.
TimerFires(o) ==
  /\ o \in timer /\ At(o, "idle")
  /\ timer' = timer \ {o}
  /\ pc' = [pc EXCEPT ![o] = "ask"]
  /\ jtsTodo' = [jtsTodo EXCEPT ![o] = o]
  /\ UNCHANGED <<jtsRows, sub, jts, mails, got, cur, faults>>

\* pollPendingCallbacks reads the first Page pending items...
Pending == {i \in request : jtsStatus[i] = "pending"}

Tick(t) ==
  /\ At(t, "idle")
  /\ Pending # {}
  /\ pc' = [pc EXCEPT ![t] = "ask"]
  /\ jtsTodo' = [jtsTodo EXCEPT ![t] = Front(Page, Pending)]
  /\ UNCHANGED <<jtsRows, sub, timer, jts, mails, got, cur, faults>>

\* ... and asks for them batch by batch. A result has an iccid once the supplier is
\* done; an answer with another tradeCode has no results.
AskedFor(p) == IF p \in JtsOrders THEN jtsTodo[p] ELSE Front(Batch, jtsTodo[p])

AskResults(p) ==
  /\ At(p, "ask")
  /\ \/ /\ got' = [got EXCEPT ![p] = {i \in AskedFor(p) : jts[i] = "ready"}]
        /\ UNCHANGED faults
     \/ UNCHANGED got /\ JtsFault
  /\ jtsTodo' = [jtsTodo EXCEPT ![p] = @ \ AskedFor(p)]
  /\ pc' = [pc EXCEPT ![p] = "loop"]
  /\ UNCHANGED <<jtsRows, sub, timer, jts, mails, cur>>

\* The poll of the timer reads the item again, a tick trusts the one it listed.
Take(p, i) ==
  /\ At(p, "loop")
  /\ i \in got[p]
  /\ got' = [got EXCEPT ![p] = @ \ {i}]
  /\ IF p \in JtsOrders /\ jtsStatus[i] # "pending"
     THEN UNCHANGED <<pc, cur>>
     ELSE pc' = [pc EXCEPT ![p] = "look"] /\ cur' = [cur EXCEPT ![p] = i]
  /\ UNCHANGED <<jtsRows, sub, timer, jts, mails, jtsTodo, faults>>

More(p) ==
  /\ At(p, "loop")
  /\ got[p] = {}
  /\ IF jtsTodo[p] = {} THEN Finish(p) ELSE GoOn(p, "ask")
  /\ UNCHANGED <<jtsRows, sub, timer, jts, mails, faults>>
-----------------------------------------------------------------------------
(* handleOrderComplete.                                                    *)

\* Mutant: an eSIM that exists ends the work on its item.
LookReturns(p) ==
  /\ At(p, "look")
  /\ GoOn(p, IF jtsEsim[cur[p]] = "none" THEN "create" ELSE "loop")
  /\ UNCHANGED <<jtsRows, sub, timer, jts, mails, faults>>

Look(p) ==
  /\ At(p, "look")
  /\ GoOn(p, IF jtsEsim[cur[p]] = "none" THEN "create" ELSE "complete")
  /\ UNCHANGED <<jtsRows, sub, timer, jts, mails, faults>>

\* Mutant: create or refresh, as its comment has it.
CreateOrRefresh(p) ==
  /\ At(p, "create")
  /\ jtsEsim' = [jtsEsim EXCEPT ![cur[p]] = "available"]
  /\ GoOn(p, "mail")
  /\ UNCHANGED <<jtsStatus, request, refunded, sub, timer, jts, mails, faults>>

\* Mutant: the item is completed before its e-mail.
CreateAndComplete(p) ==
  /\ At(p, "create")
  /\ IF jtsEsim[cur[p]] = "none"
     THEN /\ jtsEsim' = [jtsEsim EXCEPT ![cur[p]] = "available"]
          /\ GoOn(p, "complete")
     ELSE UNCHANGED jtsEsim /\ Finish(p)
  /\ UNCHANGED <<jtsStatus, request, refunded, sub, timer, jts, mails, faults>>

\* EsimsService.create throws when the iccid exists, by its own check or by the
\* unique index, and the exception ends the poll.
Create(p) ==
  /\ At(p, "create")
  /\ IF jtsEsim[cur[p]] = "none"
     THEN /\ jtsEsim' = [jtsEsim EXCEPT ![cur[p]] = "available"]
          /\ GoOn(p, "mail")
     ELSE UNCHANGED jtsEsim /\ Finish(p)
  /\ UNCHANGED <<jtsStatus, request, refunded, sub, timer, jts, mails, faults>>

\* An e-mail that fails, or whose answer is lost, leaves the item pending.
MailEsim(p) ==
  /\ At(p, "mail")
  /\ \/ /\ mails' = [mails EXCEPT ![cur[p]] = @ + 1]
        /\ GoOn(p, "complete")
        /\ UNCHANGED faults
     \/ /\ UNCHANGED mails \/ mails' = [mails EXCEPT ![cur[p]] = @ + 1]
        /\ GoOn(p, "loop")
        /\ JtsFault
  /\ UNCHANGED <<jtsRows, sub, timer, jts>>

Complete(p) ==
  /\ At(p, "complete")
  /\ jtsStatus' = [jtsStatus EXCEPT ![cur[p]] = "completed"]
  /\ GoOn(p, "loop")
  /\ UNCHANGED <<request, jtsEsim, refunded, sub, timer, jts, mails, faults>>
-----------------------------------------------------------------------------
(* The supplier, admins and failures.                                      *)

Produce(i) ==
  /\ jts[i] = "accepted"
  /\ jts' = [jts EXCEPT ![i] = "ready"]
  /\ UNCHANGED <<jtsRows, sub, timer, mails, polls, faults>>

\* A refund: cancelOrderWithSuppliers has nothing for this supplier, and
\* markRefundedByOrderId, whose failure is caught, updates the eSIMs that exist.
RefundItems(o) ==
  /\ refunded' = refunded \cup {o}
  /\ \/ /\ jtsEsim' = [i \in JtsItems |->
                       IF i \in o /\ jtsEsim[i] # "none" THEN "refunded" ELSE jtsEsim[i]]
        /\ UNCHANGED faults
     \/ UNCHANGED jtsEsim /\ JtsFault
  /\ UNCHANGED <<jtsStatus, request, sub, timer, jts, mails, polls>>

\* A statement or a call fails; both polls catch it outside their loops.
Break(p) ==
  /\ pc[p] # "idle"
  /\ Finish(p)
  /\ JtsFault
  /\ UNCHANGED <<jtsRows, sub, timer, jts, mails>>

\* The process restarts: polls, timers and submissions are gone.
Restart ==
  /\ sub' = [o \in JtsOrders |-> "over"]
  /\ timer' = {}
  /\ pc' = [p \in Polls |-> "idle"]
  /\ jtsTodo' = [p \in Polls |-> {}]
  /\ got' = [p \in Polls |-> {}]
  /\ cur' = [p \in Polls |-> NoJtsItem]
  /\ JtsFault
  /\ UNCHANGED <<jtsRows, jts, mails>>

Step(p) ==
  \/ AskResults(p) \/ More(p) \/ Look(p) \/ Create(p) \/ MailEsim(p) \/ Complete(p)
  \/ \E i \in JtsItems : Take(p, i)

JtsNext ==
  \/ \E o \in JtsOrders : Submit(o) \/ Schedule(o) \/ GiveUp(o)
  \/ \E o \in JtsOrders : TimerFires(o) \/ RefundItems(o)
  \/ \E o \in JtsOrders, i \in JtsItems : SaveRequest(o, i)
  \/ \E t \in Ticks : Tick(t)
  \/ \E p \in Polls : Step(p) \/ Break(p)
  \/ \E i \in JtsItems : Produce(i)
  \/ Restart

JtsSpec == JtsInit /\ [][JtsNext]_jtsVars

\* The cron fires, a poll goes on, and the supplier makes what it accepted.
JtsFairness ==
  /\ \A t \in Ticks : WF_jtsVars(Tick(t))
  /\ \A p \in Polls : WF_jtsVars(Step(p))
  /\ \A i \in JtsItems : WF_jtsVars(Produce(i))

JtsFairSpec == JtsSpec /\ JtsFairness
-----------------------------------------------------------------------------
Quiet == \A p \in Polls : At(p, "idle")

\* Every variable has its type.
JtsTypeOK ==
  /\ jtsStatus \in [JtsItems -> {"pending", "completed"}]
  /\ request \subseteq JtsItems
  /\ jtsEsim \in [JtsItems -> {"none", "available", "refunded"}]
  /\ refunded \subseteq JtsOrders /\ timer \subseteq JtsOrders
  /\ sub \in [JtsOrders -> {"ask", "save", "over"}]
  /\ jts \in [JtsItems -> {"none", "accepted", "ready"}]
  /\ mails \in [JtsItems -> Nat]
  /\ pc \in [Polls -> {"idle", "ask", "loop", "look", "create", "mail", "complete"}]
  /\ jtsTodo \in [Polls -> SUBSET JtsItems] /\ got \in [Polls -> SUBSET JtsItems]
  /\ cur \in [Polls -> JtsItems \cup {NoJtsItem}]
  /\ faults \in 0..MaxJtsFaults

\* A buyer gets the e-mail of an eSIM once, although the poll of the timer and
\* overlapping ticks all see the item pending ("prevents duplicate purchase emails").
OneMail == \A i \in JtsItems : mails[i] <= 1

\* Without faults, an item that is completed when no poll runs was mailed, whichever
\* poll created the eSIM and whichever one completed the item.
CompletedByMail ==
  faults = 0 /\ Quiet => \A i \in JtsItems : jtsStatus[i] = "completed" => mails[i] = 1

\* An item whose request is saved is completed once the supplier made it, also when
\* polls break, e-mails fail and the process restarts with its timers lost.
RequestsEnd ==
  \A i \in JtsItems : jts[i] = "ready" /\ i \in request ~> jtsStatus[i] = "completed"
=============================================================================
