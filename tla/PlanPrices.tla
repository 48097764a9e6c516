----------------------------- MODULE PlanPrices -----------------------------
(***************************************************************************)
(* What the catalogue asks for a plan: the synchronisation with a provider    *)
(* writes costs, the margin tiers turn costs into prices, the exchange rate     *)
(* turns prices into VND, and the cheapest plan of a group is marked to be      *)
(* shown. Crons and admins start these jobs, which share nothing but the        *)
(* tables; every statement on a table is an action.                           *)
(*                                                                         *)
(* The plans are those of one provider and one group (destination, type, data  *)
(* and days). Money is in cents, and in VND.                                  *)
(***************************************************************************)
EXTENDS Integers, FiniteSets, FiniteSetsExt

CONSTANTS
  Procs,      \* jobs under way at a time
  Plans,      \* numbers, in the order of the provider's list
  Offers,     \* lists the provider may send: costs in cents of some plans
  Ranges,     \* margin tiers an admin may enter: min, max, percentage, fixed
  Rates,      \* VND for a dollar, and whether the service sends a whole number
  Default,    \* the rate when the service does not answer
  Edits,      \* what an admin may enter for a plan: cost, price, VND price, on sale
  Keep,       \* what an admin leaves out
  MaxOps,     \* bound: jobs
  MaxFaults   \* bound: jobs that die on their way

ASSUME PricesAssumption ==
  /\ Plans \subseteq Nat /\ IsFiniteSet(Plans)
  /\ \A offer \in Offers : DOMAIN offer \subseteq Plans
                          /\ \A p \in DOMAIN offer : offer[p] \in Nat \ {0}
  /\ Ranges \subseteq [min : Nat, max : Nat, percentage : Nat, fixed : Nat]
  /\ Rates \cup {Default} \subseteq [vnd : Nat \ {0}, whole : BOOLEAN]
  /\ Keep \notin Nat \cup BOOLEAN
  /\ Edits \subseteq [cost : Nat \cup {Keep}, price : Nat \cup {Keep}, vnd : Nat \cup {Keep},
                     active : BOOLEAN \cup {Keep}]
  /\ MaxOps \in Nat /\ MaxFaults \in Nat

VARIABLES
  source,   \* where the plans come from: a provider's list, or a JapanTravelSim or
            \* Gadget Korea sheet
  plan,     \* the rows
  tiers,    \* the rows of the margin tiers
  proc,     \* the jobs
  ops, faults,
  raw,      \* history: plans whose cost was written since the prices were
  atCost,   \* history: plans whose VND price was made of a raw price
  beside,   \* history: VND prices were written beside a synchronisation
  behind,   \* history: the prices were last made from tiers that had changed
  cut,      \* history: plans priced by a fixed amount at a whole rate
  own,      \* history: plans whose cost or prices an admin entered since they were made
  dirty,    \* history: plans changed since the cheapest was marked
  crossed,  \* history: two jobs worked off lists, marked, changed a tier or saved a row
            \* at a time
  offered   \* history: plans that should be on sale

history == <<raw, atCost, beside, behind, cut, own, dirty, crossed, offered>>
vars == <<source, plan, tiers, proc, ops, faults, history>>

None == [exists |-> FALSE, cost |-> 0, price |-> 0, vnd |-> 0,
         cheapest |-> FALSE, active |-> FALSE, listed |-> FALSE, stale |-> {}]

Idle == [at |-> "idle", op |-> "none", offer |-> <<>>, todo |-> {}, cheapest |-> FALSE,
         tiers |-> {}, rate |-> Default]

Init ==
  /\ source \in {"sync", "jts", "gadget"}
  /\ plan = [p \in Plans |-> None]
  /\ tiers = {}
  /\ proc = [q \in Procs |-> Idle]
  /\ ops = 0 /\ faults = 0
  /\ raw = {} /\ atCost = {} /\ cut = {} /\ own = {} /\ offered = {}
  /\ beside = FALSE /\ behind = FALSE /\ dirty = FALSE /\ crossed = {}
-----------------------------------------------------------------------------
(* Prices.                                                                  *)

RoundDiv(a, b) == (2 * a + b) \div (2 * b)

\* findAll orders by minVnd; CASE takes the first tier that fits.
Fits(cost, t, r) == LET vnd == RoundDiv(cost * r.vnd, 100) IN t.min <= vnd /\ vnd <= t.max
Fitting(cost, ts, r) == {t \in ts : Fits(cost, t, r)}
TierOf(cost, ts, r) ==
  CHOOSE t \in Fitting(cost, ts, r) : \A u \in Fitting(cost, ts, r) : t.min <= u.min

\* The fixed amount in cents: a whole number is divided by a whole number as one.
Fixed(t, r) == IF r.whole THEN (t.fixed \div r.vnd) * 100 ELSE RoundDiv(t.fixed * 100, r.vnd)

\* Mutant: the fixed amount is not converted.
PriceOfUnconverted(cost, ts, r) ==
  IF Fitting(cost, ts, r) = {} THEN cost
  ELSE LET t == TierOf(cost, ts, r)
       IN IF t.fixed > 0 THEN cost + t.fixed ELSE RoundDiv(cost * (100 + t.percentage), 100)

PriceOf(cost, ts, r) ==
  IF Fitting(cost, ts, r) = {} THEN cost
  ELSE LET t == TierOf(cost, ts, r)
       IN IF t.fixed > 0 THEN cost + Fixed(t, r) ELSE RoundDiv(cost * (100 + t.percentage), 100)

VndOf(price, r) == RoundDiv(price * r.vnd, 100000) * 1000
-----------------------------------------------------------------------------
At(q, l) == proc[q].at = l
Goto(q, l) == proc' = [proc EXCEPT ![q].at = l]
End(q) == proc' = [proc EXCEPT ![q] = Idle]
Begin(q, r) ==
  /\ At(q, "idle") /\ ops < MaxOps
  /\ ops' = ops + 1
  /\ proc' = [proc EXCEPT ![q] = r]
  /\ UNCHANGED <<source, faults>>
Step == UNCHANGED <<source, ops, faults>>

Existing == {p \in Plans : plan[p].exists}
Active == {p \in Existing : plan[p].active}
Cheapest == {p \in Existing : plan[p].cheapest}

\* The other jobs, between two statements.
Beside(q, ls) == \E o \in Procs \ {q} : proc[o].at \in ls
-----------------------------------------------------------------------------
(* The synchronisation and the imports.                                     *)

Filling == {"off", "upsert", "save", "stale", "tiers", "price", "vnd"}

\* A job at the list of a provider, and one that has not made prices of its costs yet.
Listing == {"off", "upsert", "save", "stale"}
Unmade(q) == proc[q].op = "fill" /\ proc[q].at \in Listing \cup {"tiers", "price"}

\* syncPlans of runFullSync, or an import: the whole list is read at once. What was last
\* synchronised before the start is stale to this job; a plan nobody synchronised is not.
Fill(q) ==
  /\ \E offer \in Offers :
       Begin(q, [Idle EXCEPT !.at = IF source = "sync" THEN "upsert" ELSE "off",
                             !.op = "fill", !.offer = offer, !.todo = DOMAIN offer])
  /\ plan' = [p \in Plans |-> [plan[p] EXCEPT !.stale = IF plan[p].listed THEN @ \cup {q} ELSE @]]
  /\ crossed' = IF Beside(q, Listing) THEN crossed \cup {"list"} ELSE crossed
  /\ UNCHANGED <<tiers, raw, atCost, beside, behind, cut, own, dirty, offered>>

\* deactivateAllProviderPlans comes before the rows of an import.
AllOff(q) ==
  /\ At(q, "off")
  /\ plan' = [p \in Plans |-> [plan[p] EXCEPT !.active = FALSE]]
  /\ offered' = {} /\ dirty' = TRUE
  /\ Goto(q, "upsert")
  /\ Step /\ UNCHANGED <<tiers, raw, atCost, beside, behind, cut, own, crossed>>

Following(q) == CHOOSE p \in proc[q].todo : \A o \in proc[q].todo : p <= o

\* A new plan is on sale at once, and its VND price is 0. Only a synchronisation sets
\* lastSyncedAt.
CreatePlan(q) ==
  /\ At(q, "upsert") /\ proc[q].todo # {} /\ ~plan[Following(q)].exists
  /\ LET p == Following(q)
         cost == proc[q].offer[p]
     IN /\ plan' = [plan EXCEPT ![p] = [None EXCEPT !.exists = TRUE, !.cost = cost, !.price = cost,
                                                    !.active = TRUE, !.listed = source = "sync"]]
        /\ proc' = [proc EXCEPT ![q].todo = @ \ {p}]
        /\ raw' = raw \cup {p} /\ offered' = offered \cup {p} /\ dirty' = TRUE
  /\ Step /\ UNCHANGED <<tiers, atCost, beside, behind, cut, own, crossed>>

\* PlanRepository.update reads the row; of what it read it writes back isCheapest.
ReadPlan(q) ==
  /\ At(q, "upsert") /\ proc[q].todo # {} /\ plan[Following(q)].exists
  /\ proc' = [proc EXCEPT ![q].at = "save", ![q].cheapest = plan[Following(q)].cheapest]
  /\ Step /\ UNCHANGED <<plan, tiers, history>>

SavePlan(q) ==
  /\ At(q, "save")
  /\ LET p == Following(q)
         cost == proc[q].offer[p]
     IN /\ plan' = [plan EXCEPT ![p] = [@ EXCEPT !.cost = cost, !.price = cost, !.active = TRUE,
                                                 !.listed = source = "sync", !.stale = {},
                                                 !.cheapest = proc[q].cheapest]]
        /\ proc' = [proc EXCEPT ![q].at = "upsert", ![q].todo = @ \ {p},
                               ![q].cheapest = FALSE]
        /\ crossed' = IF plan[p].cheapest = proc[q].cheapest THEN crossed
                      ELSE crossed \cup {"row"}
        /\ raw' = raw \cup {p} /\ offered' = offered \cup {p} /\ dirty' = TRUE
  /\ Step /\ UNCHANGED <<tiers, atCost, beside, behind, cut, own>>

\* Mutant: a synchronisation that failed takes the rest off sale.
UpsertFailsOff(q) ==
  /\ At(q, "upsert") /\ proc[q].todo # {}
  /\ proc' = [proc EXCEPT ![q].at = "stale"]
  /\ Step /\ UNCHANGED <<plan, tiers, history>>

\* Mutant: a synchronisation that failed leaves the prices alone.
UpsertFailsUnpriced(q) ==
  /\ At(q, "upsert") /\ proc[q].todo # {}
  /\ proc' = [proc EXCEPT ![q].at = "vnd", ![q].todo = @ \ {Following(q)}]
  /\ Step /\ UNCHANGED <<plan, tiers, history>>

\* A package that cannot be saved ends a synchronisation, but the prices are made again
\* all the same; an import goes on with the next row.
UpsertFails(q) ==
  /\ At(q, "upsert") /\ proc[q].todo # {}
  /\ proc' = [proc EXCEPT ![q].at = IF source = "sync" THEN "tiers" ELSE @,
                          ![q].todo = @ \ {Following(q)}]
  /\ Step /\ UNCHANGED <<plan, tiers, history>>

\* After the last row, a synchronisation takes off sale what it has not seen, and the
\* JapanTravelSim import goes on to the margins (importFromExcel, the lines after its loop).
\* The Gadget Korea import asks for no margins: it marks, and turns costs into VND.
Filled(q) ==
  /\ At(q, "upsert") /\ proc[q].todo = {}
  /\ \/ source = "sync" /\ Goto(q, "stale")
     \/ source = "jts" /\ Goto(q, "tiers")
     \/ source = "gadget" /\ proc' = [proc EXCEPT ![q] = [Idle EXCEPT !.at = "reset", !.op = "rest"]]
  /\ Step /\ UNCHANGED <<plan, tiers, history>>

\* deactivateStaleProviderPlans.
Deactivate(q) ==
  /\ At(q, "stale")
  /\ plan' = [p \in Plans |-> [plan[p] EXCEPT !.active = @ /\ q \notin plan[p].stale]]
  /\ offered' = {p \in offered : p \in DOMAIN proc[q].offer \/ ~plan[p].listed}
  /\ dirty' = TRUE
  /\ Goto(q, "tiers")
  /\ Step /\ UNCHANGED <<tiers, raw, atCost, beside, behind, cut, own, crossed>>
-----------------------------------------------------------------------------
(* Prices, VND prices and the cheapest plan.                                *)

\* recalculateAllPlanPrices reads the tiers and asks for the rate.
ReadTiers(q) ==
  /\ At(q, "tiers")
  /\ \E r \in Rates \cup {Default} :
       proc' = [proc EXCEPT ![q] = [Idle EXCEPT !.at = "price", !.op = proc[q].op,
                                                !.tiers = tiers, !.rate = r]]
  /\ Step /\ UNCHANGED <<plan, tiers, history>>

Recalculate(q) ==
  LET r == proc[q].rate
      ts == proc[q].tiers
  IN
  /\ At(q, "price")
  /\ plan' = [p \in Plans |-> IF p \in Existing
                THEN [plan[p] EXCEPT !.price = PriceOf(plan[p].cost, ts, r)] ELSE plan[p]]
  /\ raw' = {} /\ own' = {} /\ behind' = (ts # tiers)
  /\ cut' = {p \in Existing : r.whole /\ Fitting(plan[p].cost, ts, r) # {}
                                /\ TierOf(plan[p].cost, ts, r).fixed > 0}
  /\ proc' = [proc EXCEPT ![q].at = "vnd", ![q].tiers = {}]
  /\ Step /\ UNCHANGED <<tiers, atCost, beside, dirty, crossed, offered>>

\* updateAllVndPrices takes the prices as they are.
UpdateVnd(q) ==
  /\ At(q, "vnd")
  /\ plan' = [p \in Plans |-> IF p \in Existing
                THEN [plan[p] EXCEPT !.vnd = VndOf(plan[p].price, proc[q].rate)] ELSE plan[p]]
  /\ atCost' = raw
  /\ beside' = (beside \/ \E o \in Procs \ {q} : Unmade(o))
  /\ proc' = [proc EXCEPT ![q] = IF @.op = "vnd" THEN Idle
                              ELSE [Idle EXCEPT !.at = "reset", !.op = proc[q].op]]
  /\ Step /\ UNCHANGED <<tiers, raw, behind, cut, own, dirty, crossed, offered>>

\* Mutant: the marks before stay.
ResetNone(q) ==
  /\ At(q, "reset")
  /\ crossed' = IF Beside(q, {"mark"}) THEN crossed \cup {"mark"} ELSE crossed
  /\ dirty' = TRUE
  /\ Goto(q, "mark")
  /\ Step /\ UNCHANGED <<plan, tiers, raw, atCost, beside, behind, cut, own, offered>>

\* markCheapestPlans: nothing is marked between its two statements.
ResetCheapest(q) ==
  /\ At(q, "reset")
  /\ plan' = [p \in Plans |-> [plan[p] EXCEPT !.cheapest = FALSE]]
  /\ crossed' = IF Beside(q, {"mark"}) THEN crossed \cup {"mark"} ELSE crossed
  /\ dirty' = TRUE
  /\ Goto(q, "mark")
  /\ Step /\ UNCHANGED <<tiers, raw, atCost, beside, behind, cut, own, offered>>

\* DISTINCT ON takes any one of the cheapest.
Candidates == {p \in Active : \A o \in Active : plan[p].cost <= plan[o].cost}

\* After a recalculation, a full synchronisation and an import mark again, and renew the
\* VND prices at the rate of the moment, if they get it.
Mark(q) ==
  /\ At(q, "mark")
  /\ IF Active = {} THEN UNCHANGED plan
     ELSE \E p \in Candidates : plan' = [plan EXCEPT ![p].cheapest = TRUE]
  /\ dirty' = FALSE
  /\ IF proc[q].op = "fill"
     THEN proc' = [proc EXCEPT ![q] = [Idle EXCEPT !.at = "reset", !.op = "rest"]]
     ELSE IF proc[q].op = "rest"
     THEN \E l \in {"idle", "vnd"}, r \in Rates :
            proc' = [proc EXCEPT ![q] = IF l = "idle" THEN Idle
                                        ELSE [Idle EXCEPT !.at = "vnd", !.op = "vnd", !.rate = r]]
     ELSE End(q)
  /\ Step /\ UNCHANGED <<tiers, raw, atCost, beside, behind, cut, own, crossed, offered>>

\* The crons of the exchange rate, every hour, and of the cheapest plan.
Hourly(q) ==
  /\ \E r \in Rates : Begin(q, [Idle EXCEPT !.at = "vnd", !.op = "vnd", !.rate = r])
  /\ UNCHANGED <<plan, tiers, history>>

MarkCron(q) ==
  /\ Begin(q, [Idle EXCEPT !.at = "reset", !.op = "mark"])
  /\ UNCHANGED <<plan, tiers, history>>
-----------------------------------------------------------------------------
(* Admins.                                                                  *)

Given(entered, else) == IF entered = Keep THEN else ELSE entered

\* A plan is entered in the form, or by a row of the plain Excel import.
Enter(p, e) ==
  /\ ~plan[p].exists /\ ops < MaxOps /\ ops' = ops + 1
  /\ plan' = [plan EXCEPT ![p] = [None EXCEPT !.exists = TRUE, !.cost = Given(e.cost, 0),
                                              !.price = Given(e.price, 0), !.vnd = Given(e.vnd, 0),
                                              !.active = Given(e.active, TRUE)]]
  /\ own' = own \cup {p} /\ dirty' = TRUE
  /\ offered' = IF Given(e.active, TRUE) THEN offered \cup {p} ELSE offered
  /\ UNCHANGED <<source, tiers, proc, faults, raw, atCost, beside, behind, cut, crossed>>

\* The update of a plan reads it first.
Edit(q, p) ==
  /\ plan[p].exists
  /\ Begin(q, [Idle EXCEPT !.at = "edit", !.op = "edit", !.todo = {p},
                           !.cheapest = plan[p].cheapest])
  /\ UNCHANGED <<plan, tiers, history>>

\* Only what was entered is written, and isCheapest as it was read.
SaveEdit(q) ==
  /\ At(q, "edit")
  /\ \E e \in Edits :
       LET p == Following(q)
           row == plan[p]
       IN /\ plan' = [plan EXCEPT ![p] =
               [row EXCEPT !.cost = Given(e.cost, row.cost), !.price = Given(e.price, row.price),
                           !.vnd = Given(e.vnd, row.vnd), !.active = Given(e.active, row.active),
                           !.cheapest = proc[q].cheapest]]
          /\ crossed' = IF row.cheapest = proc[q].cheapest THEN crossed
                        ELSE crossed \cup {"row"}
          /\ raw' = IF e.price = Keep THEN raw ELSE raw \ {p}
          /\ atCost' = IF e.vnd = Keep THEN atCost ELSE atCost \ {p}
          /\ own' = IF {e.cost, e.price, e.vnd} = {Keep} THEN own ELSE own \cup {p}
          /\ offered' = IF e.active = Keep THEN offered
                        ELSE IF e.active THEN offered \cup {p} ELSE offered \ {p}
          /\ dirty' = TRUE
  /\ End(q)
  /\ Step /\ UNCHANGED <<tiers, beside, behind, cut>>

Overlap(t, u) == t.min <= u.max /\ u.min <= t.max

NoOverlap(t, others) == t.min <= t.max /\ \A u \in others : ~Overlap(t, u)

Row(t, id) == [id |-> id, min |-> t.min, max |-> t.max,
               percentage |-> t.percentage, fixed |-> t.fixed]

\* The validation reads the tiers, the insert or update follows.
CreateTier(q, t) ==
  /\ NoOverlap(t, tiers)
  /\ Begin(q, [Idle EXCEPT !.at = "tier", !.op = "tier", !.tiers = {Row(t, ops + 1)}])
  /\ UNCHANGED <<plan, tiers, history>>

\* An admin fills in an existing tier anew; a fixed amount that is left out becomes 0.
UpdateTier(q, t) ==
  /\ \E u \in tiers, f \in {t.fixed, 0} :
       /\ NoOverlap(t, tiers \ {u})
       /\ Begin(q, [Idle EXCEPT !.at = "tier", !.op = "update",
                               !.tiers = {Row([t EXCEPT !.fixed = f], u.id)}])
  /\ UNCHANGED <<plan, tiers, history>>

SameRow(t, q) == \E u \in proc[q].tiers : u.id = t.id
Gone(q) == proc[q].op = "update" /\ \A t \in tiers : ~SameRow(t, q)

\* Mutant: the limits are saved in each other's place.
SaveTierSwapped(q) ==
  /\ At(q, "tier")
  /\ tiers' = {t \in tiers : ~SameRow(t, q)}
               \cup {[t EXCEPT !.min = t.max, !.max = t.min] : t \in proc[q].tiers}
  /\ crossed' = IF Beside(q, {"tier"}) THEN crossed \cup {"tier"} ELSE crossed
  /\ behind' = TRUE
  /\ proc' = [proc EXCEPT ![q] = [Idle EXCEPT !.at = "tiers", !.op = "tier"]]
  /\ Step /\ UNCHANGED <<plan, raw, atCost, beside, cut, own, dirty, offered>>

\* The insert, or the save of the row. A removal is a soft one: when it came between the
\* find and the save, the row is restored, or saved as it lies, by the order of their writes.
SaveTier(q) ==
  /\ At(q, "tier")
  /\ \/ tiers' = {t \in tiers : ~SameRow(t, q)} \cup proc[q].tiers
     \/ Gone(q) /\ UNCHANGED tiers
  /\ crossed' = IF Beside(q, {"tier"}) THEN crossed \cup {"tier"} ELSE crossed
  /\ behind' = TRUE
  /\ proc' = [proc EXCEPT ![q] = [Idle EXCEPT !.at = "tiers", !.op = "tier"]]
  /\ Step /\ UNCHANGED <<plan, raw, atCost, beside, cut, own, dirty, offered>>

\* The repository does not find the row.
UpdateTierFails(q) ==
  /\ At(q, "tier") /\ Gone(q)
  /\ End(q)
  /\ Step /\ UNCHANGED <<plan, tiers, history>>

RemoveTier(q, t) ==
  /\ Begin(q, [Idle EXCEPT !.at = "tiers", !.op = "tier"])
  /\ tiers' = tiers \ {t} /\ behind' = TRUE
  /\ UNCHANGED <<plan, raw, atCost, beside, cut, own, dirty, crossed, offered>>

Die(q) ==
  /\ ~At(q, "idle") /\ faults < MaxFaults
  /\ faults' = faults + 1
  /\ End(q)
  /\ UNCHANGED <<source, plan, tiers, ops, history>>
-----------------------------------------------------------------------------
Next ==
  \E q \in Procs :
    \/ Fill(q) \/ AllOff(q) \/ CreatePlan(q) \/ ReadPlan(q) \/ SavePlan(q) \/ UpsertFails(q)
    \/ Filled(q) \/ Deactivate(q) \/ ReadTiers(q) \/ Recalculate(q) \/ UpdateVnd(q)
    \/ ResetCheapest(q) \/ Mark(q) \/ Hourly(q) \/ MarkCron(q)
    \/ (\E p \in Plans : Edit(q, p) \/ \E e \in Edits : Enter(p, e)) \/ SaveEdit(q)
    \/ (\E t \in Ranges : CreateTier(q, t) \/ UpdateTier(q, t))
    \/ (\E t \in tiers : RemoveTier(q, t)) \/ SaveTier(q) \/ UpdateTierFails(q) \/ Die(q)

Spec == Init /\ [][Next]_vars
-----------------------------------------------------------------------------
\* Every variable has its type.
TypeOK ==
  /\ source \in {"sync", "jts", "gadget"}
  /\ \A p \in Plans :
       /\ {plan[p].cost, plan[p].price, plan[p].vnd} \subseteq Nat
       /\ {plan[p].exists, plan[p].cheapest, plan[p].active, plan[p].listed} \subseteq BOOLEAN
       /\ plan[p].stale \subseteq Procs
  /\ \A t \in tiers : \E r \in Ranges : t \in {Row(r, t.id), Row([r EXCEPT !.fixed = 0], t.id)}
  /\ \A q \in Procs : proc[q].at \in Filling \cup {"idle", "reset", "mark", "tier", "edit"}

\* The Gadget Korea import leaves its plans at their bare cost.
Unpriced == IF source = "gadget" THEN raw ELSE {}

\* What the admins enter as a margin is what a price carries, once the jobs that write
\* prices are done: a percentage of the cost, or an amount in VND, converted. Excepted
\* are a job that died, tiers that changed while the prices were made, tiers that overlap,
\* a fixed amount at a whole rate, which is cut to whole dollars, a cost or price that an
\* admin or the plain import entered since, and what a Gadget Korea import wrote since.
MarginIsCharged ==
  (faults = 0 /\ ~behind /\ "tier" \notin crossed /\ \A q \in Procs : proc[q].at \notin Filling)
    => \A p \in Existing \ (cut \cup own \cup Unpriced) :
         \E r \in Rates \cup {Default} :
           plan[p].price =
             LET fit == Fitting(plan[p].cost, tiers, r) IN
             IF fit = {} THEN plan[p].cost
             ELSE LET t == CHOOSE t \in fit : TRUE
                  IN plan[p].cost + IF t.fixed > 0 THEN RoundDiv(t.fixed * 100, r.vnd)
                                    ELSE RoundDiv(plan[p].cost * t.percentage, 100)

\* A buyer pays a price with its margin: but for what an admin entered, no price is below
\* its cost, and a VND price is made of a bare cost only by a job that runs beside a
\* synchronisation or import whose prices are not made yet, by the Gadget Korea import, or
\* after a job that died. But for what an admin or a Gadget Korea import wrote since the
\* prices were made, a plan worth 500 VND or more costs something once the jobs are done.
BuyersPayTheMargin ==
  /\ \A p \in Plans \ own : plan[p].price >= plan[p].cost
  /\ faults = 0 /\ ~beside /\ source # "gadget" => atCost = {}
  /\ (faults = 0 /\ \A q \in Procs : proc[q].at \notin Filling) =>
       \A p \in Existing \ (own \cup Unpriced) :
         (\A r \in Rates \cup {Default} : plan[p].cost * r.vnd >= 50000) => plan[p].vnd > 0

\* Once marked, a group shows exactly one of its plans, the cheapest on sale, unless two
\* jobs marked at a time, or a row was saved as it was before the marking.
OneCheapest ==
  (~dirty /\ crossed \cap {"mark", "row"} = {})
    => IF Active = {} THEN Cheapest = {} ELSE \E p \in Candidates : Cheapest = {p}

\* On sale is what the last list held, with what admins put on sale or took off since, and
\* what was never synchronised: unless two jobs worked off lists at a time, as nothing
\* keeps a second synchronisation or import from starting.
OnSaleIsOffered == "list" \notin crossed => Active = offered
=============================================================================
