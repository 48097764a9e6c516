------------------------- MODULE PlanPricesProofs -------------------------
(* Margins are charged, groups show one cheapest plan and on sale is what was     *)
(* offered, for any plans, lists of providers, tiers and rates, and any number  *)
(* of jobs at a time.                                                       *)
EXTENDS PlanPrices, TLAPS, FiniteSetTheorems, WellFoundedInduction

AllRates == Rates \cup {Default}

PlanRow == [exists : BOOLEAN, cost : Nat, price : Nat, vnd : Nat,
            cheapest : BOOLEAN, active : BOOLEAN, listed : BOOLEAN, stale : SUBSET Procs]

\* An admin enters a range as it is, or leaves its fixed amount out.
TierRows == {Row(r, id) : r \in Ranges, id \in Nat}
              \cup {Row([r EXCEPT !.fixed = 0], id) : r \in Ranges, id \in Nat}

Places == Filling \cup {"idle", "reset", "mark", "tier", "edit"}
Kinds == {"none", "fill", "rest", "vnd", "mark", "edit", "tier", "update"}

Job == [at : Places, op : Kinds, offer : Offers \cup {<<>>}, todo : SUBSET Plans,
        cheapest : BOOLEAN, tiers : SUBSET TierRows, rate : AllRates]

Types ==
  /\ source \in {"sync", "jts", "gadget"}
  /\ plan \in [Plans -> PlanRow]
  /\ tiers \subseteq TierRows
  /\ proc \in [Procs -> Job]
  /\ ops \in Nat /\ faults \in Nat

LEMMA IdleJob == Idle \in Job /\ Idle.at = "idle" /\ Idle.op = "none"
  BY DEF Idle, Job, Places, Kinds, AllRates

LEMMA NoneRow == None \in PlanRow
  BY DEF None, PlanRow

LEMMA TierType ==
  ASSUME NEW t \in TierRows
  PROVE  t.min \in Nat /\ t.max \in Nat /\ t.percentage \in Nat /\ t.fixed \in Nat /\ t.id \in Nat
  BY PricesAssumption DEF TierRows, Row

\* A step moves one job.
Moves(q) == \A o \in Procs \ {q} : proc'[o] = proc[o]

\* A job at work on the list of a provider.
Filler(q) == proc[q].op = "fill" /\ proc[q].at \in Listing

JobRests(q) ==
  /\ proc[q].at \in Listing => proc[q].op = "fill"
  /\ Filler(q) => proc[q].offer \in Offers /\ proc[q].todo \subseteq DOMAIN proc[q].offer
  /\ proc[q].at = "stale" => source = "sync" /\ proc[q].todo = {}
  /\ proc[q].at \in {"save", "edit"} => proc[q].todo # {} /\ plan[Following(q)].exists

Jobs == Types /\ \A q \in Procs : JobRests(q)

Grows == source' = source /\ \A p \in Plans : plan[p].exists => plan'[p].exists

LEMMA LeastNat ==
  ASSUME NEW N, N \subseteq Nat, N # {}
  PROVE  \E n \in N : \A m \in N : n <= m
<1>1. PICK R : R = OpToRel(<, Nat)
  OBVIOUS
<1>2. \A m, n \in Nat : m < n => <<m, n>> \in R
  BY <1>1 DEF OpToRel
<1>3. PICK n \in N : \A m \in N : <<m, n>> \notin R
  BY <1>1, NatLessThanWellFounded, WFMin
<1>4. ASSUME NEW m \in N
      PROVE  n <= m
  <2>1. m \in Nat /\ n \in Nat /\ ~(m < n)
    BY <1>2, <1>3
  <2> QED BY <2>1
<1> QED BY <1>4

LEMMA FollowingIsLeft ==
  ASSUME Types, NEW q \in Procs, proc[q].todo # {}
  PROVE  Following(q) \in proc[q].todo /\ Following(q) \in Plans
<1>1. proc[q].todo \subseteq Plans
  BY DEF Types, Job
<1>2. \E p \in proc[q].todo : \A o \in proc[q].todo : p <= o
  BY <1>1, LeastNat, PricesAssumption
<1> QED BY <1>1, <1>2 DEF Following

LEMMA JobSaved ==
  ASSUME Types, NEW q \in Procs, NEW j, j \in Job, proc' = [proc EXCEPT ![q] = j]
  PROVE  proc' \in [Procs -> Job] /\ proc'[q] = j /\ Moves(q)
  BY DEF Types, Moves

LEMMA RowSaved ==
  ASSUME Types, NEW p \in Plans, NEW r, r \in PlanRow, plan' = [plan EXCEPT ![p] = r]
  PROVE  /\ plan' \in [Plans -> PlanRow] /\ plan'[p] = r
         /\ \A x \in Plans \ {p} : plan'[x] = plan[x]
  BY DEF Types

\* The other jobs find their rows.
LEMMA OtherJobs ==
  ASSUME Jobs, NEW q \in Procs, Types', Moves(q), Grows, JobRests(q)'
  PROVE  Jobs' /\ Moves(q) /\ Grows
<1>1. ASSUME NEW o \in Procs \ {q} PROVE JobRests(o)'
  <2>1. proc'[o] = proc[o] /\ JobRests(o)
    BY DEF Moves, Jobs
  <2>2. Following(o)' = Following(o)
    BY <2>1 DEF Following
  <2>3. proc[o].at \in {"save", "edit"} => Following(o) \in Plans
    BY <2>1, FollowingIsLeft DEF JobRests, Jobs, Listing
  <2> QED BY <2>1, <2>2, <2>3 DEF JobRests, Filler, Grows, Listing
<1> QED BY <1>1 DEF Jobs

LEMMA FillJobs ==
  ASSUME Jobs, NEW q \in Procs, Fill(q)
  PROVE  Jobs' /\ Moves(q) /\ Grows
<1>1. PICK offer \in Offers :
        proc' = [proc EXCEPT ![q] =
          [Idle EXCEPT !.at = IF source = "sync" THEN "upsert" ELSE "off",
                       !.op = "fill", !.offer = offer, !.todo = DOMAIN offer]]
  BY DEF Fill, Begin
<1> DEFINE j == [Idle EXCEPT !.at = IF source = "sync" THEN "upsert" ELSE "off",
                             !.op = "fill", !.offer = offer, !.todo = DOMAIN offer]
<1>2. /\ j \in Job /\ j.at \in {"off", "upsert"} /\ j.op = "fill" /\ j.offer = offer
      /\ j.todo = DOMAIN offer
  BY IdleJob, PricesAssumption DEF Job, Places, Kinds, Filling
<1> HIDE DEF j
<1>3. proc' \in [Procs -> Job] /\ Moves(q) /\ proc'[q] = j
  BY <1>1, <1>2 DEF Jobs, Types, Moves, j
<1>4. plan' \in [Plans -> PlanRow] /\ Grows
  <2> DEFINE row(p) == [plan[p] EXCEPT !.stale = IF plan[p].listed THEN @ \cup {q} ELSE @]
  <2>1. plan' = [p \in Plans |-> row(p)] /\ source' = source
    BY DEF Fill, Begin
  <2>2. ASSUME NEW p \in Plans
        PROVE  plan'[p] \in PlanRow /\ plan'[p].exists = plan[p].exists
    <3>1. plan[p] \in PlanRow /\ plan'[p] = row(p)
      BY <2>1 DEF Jobs, Types
    <3> QED BY <3>1 DEF PlanRow
  <2> QED BY <2>1, <2>2 DEF Grows
<1>5. JobRests(q)'
  BY <1>2, <1>3 DEF JobRests, Filler, Listing
<1>6. Types'
  BY <1>3, <1>4 DEF Jobs, Types, Fill, Begin
<1> QED BY <1>3, <1>4, <1>5, <1>6, OtherJobs

\* A plan of the list is written.
Written(q, p) ==
  /\ Filler(q) /\ p \in Plans /\ p \in proc[q].todo
  /\ proc[q].offer \in Offers /\ p \in DOMAIN proc[q].offer
  /\ plan'[p].exists /\ plan'[p].active
  /\ plan'[p].listed = (source = "sync") /\ plan'[p].stale = {}
  /\ plan'[p].cost = proc[q].offer[p] /\ plan'[p].price = proc[q].offer[p]
  /\ plan'[p].cheapest = (proc[q].at = "save" /\ proc[q].cheapest)
  /\ \A x \in Plans \ {p} : plan'[x] = plan[x]
  /\ Filler(q)' /\ proc'[q].at = "upsert" /\ proc'[q].offer = proc[q].offer
  /\ proc'[q].todo = proc[q].todo \ {p}

LEMMA CreatePlanJobs ==
  ASSUME Jobs, NEW q \in Procs, CreatePlan(q)
  PROVE  Jobs' /\ Moves(q) /\ Grows /\ Written(q, Following(q))
<1> DEFINE p == Following(q)
           cost == proc[q].offer[p]
<1>1. JobRests(q) /\ p \in proc[q].todo /\ p \in Plans
  BY FollowingIsLeft DEF Jobs, CreatePlan
<1>2. /\ proc[q].offer \in Offers /\ p \in DOMAIN proc[q].offer /\ cost \in Nat
      /\ proc[q].op = "fill" /\ proc[q].todo \subseteq DOMAIN proc[q].offer
  BY <1>1, PricesAssumption DEF JobRests, Filler, CreatePlan, At, Listing
<1> HIDE DEF p
<1>3. /\ proc' = [proc EXCEPT ![q].todo = @ \ {p}]
      /\ plan' = [plan EXCEPT ![p] = [None EXCEPT !.exists = TRUE, !.cost = cost, !.price = cost,
                                                    !.active = TRUE, !.listed = source = "sync"]]
  BY DEF CreatePlan, p
<1>4. proc' \in [Procs -> Job] /\ Moves(q)
  BY <1>3 DEF Jobs, Types, Moves, Job
<1>5. /\ proc'[q].at = "upsert" /\ proc'[q].op = "fill"
      /\ proc'[q].offer = proc[q].offer /\ proc'[q].todo \subseteq proc[q].todo
  BY <1>2, <1>3 DEF Jobs, Types, Job, CreatePlan, At
<1>6. /\ plan' \in [Plans -> PlanRow] /\ Grows
      /\ plan'[p] = [None EXCEPT !.exists = TRUE, !.cost = cost, !.price = cost,
                                   !.active = TRUE, !.listed = source = "sync"]
      /\ \A x \in Plans \ {p} : plan'[x] = plan[x]
  <2> DEFINE row == [None EXCEPT !.exists = TRUE, !.cost = cost, !.price = cost,
                                 !.active = TRUE, !.listed = source = "sync"]
  <2>1. row \in PlanRow /\ row.exists
    BY <1>2, NoneRow DEF PlanRow, None
  <2>2. plan' = [plan EXCEPT ![p] = row]
    BY <1>3
  <2> HIDE DEF row
  <2>3. /\ plan' \in [Plans -> PlanRow] /\ plan'[p] = row
        /\ \A x \in Plans \ {p} : plan'[x] = plan[x]
    BY <1>1, <2>1, <2>2, RowSaved DEF Jobs
  <2>4. Grows
    BY <2>1, <2>3 DEF Grows, CreatePlan, Step
  <2> QED BY <2>3, <2>4 DEF row
<1>7. JobRests(q)'
  BY <1>2, <1>5 DEF JobRests, Filler, Listing
<1>8. Types'
  BY <1>4, <1>6 DEF Jobs, Types, CreatePlan, Step
<1>9. Written(q, p)
  <2>1. /\ plan'[p].exists /\ plan'[p].active /\ plan'[p].cost = cost
        /\ plan'[p].listed = (source = "sync") /\ plan'[p].stale = {}
        /\ plan'[p].price = cost /\ plan'[p].cheapest = FALSE
    BY <1>6 DEF None
  <2>2. proc'[q].todo = proc[q].todo \ {p} /\ proc[q].at = "upsert"
    BY <1>3 DEF Jobs, Types, Job, CreatePlan, At
  <2> QED BY <1>1, <1>2, <1>5, <1>6, <2>1, <2>2 DEF Written, Filler, p, Listing
<1> QED BY <1>4, <1>6, <1>7, <1>8, <1>9, OtherJobs DEF p

LEMMA SavePlanJobs ==
  ASSUME Jobs, NEW q \in Procs, SavePlan(q)
  PROVE  Jobs' /\ Moves(q) /\ Grows /\ Written(q, Following(q))
<1> DEFINE p == Following(q)
           cost == proc[q].offer[p]
<1>1. JobRests(q) /\ p \in proc[q].todo /\ p \in Plans
  BY FollowingIsLeft DEF Jobs, SavePlan, At, JobRests, Listing
<1>2. /\ proc[q].offer \in Offers /\ p \in DOMAIN proc[q].offer /\ cost \in Nat
      /\ proc[q].op = "fill" /\ proc[q].todo \subseteq DOMAIN proc[q].offer
  BY <1>1, PricesAssumption DEF JobRests, Filler, SavePlan, At, Listing
<1> HIDE DEF p
<1>3. /\ proc' = [proc EXCEPT ![q].at = "upsert", ![q].todo = @ \ {p}, ![q].cheapest = FALSE]
      /\ plan' = [plan EXCEPT ![p] = [@ EXCEPT !.cost = cost, !.price = cost, !.active = TRUE,
                                                 !.listed = source = "sync", !.stale = {},
                                                 !.cheapest = proc[q].cheapest]]
  BY DEF SavePlan, p
<1>4. /\ proc' \in [Procs -> Job] /\ Moves(q)
      /\ proc'[q] = [proc[q] EXCEPT !.at = "upsert", !.todo = @ \ {p}, !.cheapest = FALSE]
  <2> DEFINE j == [proc[q] EXCEPT !.at = "upsert", !.todo = @ \ {p}, !.cheapest = FALSE]
  <2>1. proc[q] \in Job
    BY DEF Jobs, Types
  <2>2. j \in Job
    BY <2>1 DEF Job, Places, Filling
  <2>3. proc' = [proc EXCEPT ![q] = j]
    BY <1>3 DEF Jobs, Types
  <2> QED BY <2>2, <2>3, JobSaved DEF Jobs
<1>5. /\ proc'[q].at = "upsert" /\ proc'[q].op = "fill"
      /\ proc'[q].offer = proc[q].offer /\ proc'[q].todo \subseteq proc[q].todo
  <2>1. proc[q] \in Job
    BY DEF Jobs, Types
  <2> QED BY <1>2, <1>4, <2>1 DEF Job
<1>6. /\ plan' \in [Plans -> PlanRow] /\ Grows
      /\ plan'[p].exists /\ plan'[p].active /\ plan'[p].cost = cost
      /\ plan'[p].listed = (source = "sync") /\ plan'[p].stale = {}
      /\ plan'[p].price = cost /\ plan'[p].cheapest = proc[q].cheapest
      /\ \A x \in Plans \ {p} : plan'[x] = plan[x]
  <2>1. proc[q].cheapest \in BOOLEAN
    BY DEF Jobs, Types, Job
  <2> DEFINE row == [plan[p] EXCEPT !.cost = cost, !.price = cost, !.active = TRUE,
                                    !.listed = source = "sync", !.stale = {},
                                    !.cheapest = proc[q].cheapest]
  <2>2. plan[p] \in PlanRow
    BY <1>1 DEF Jobs, Types
  <2>3. /\ row \in PlanRow /\ row.exists = plan[p].exists /\ row.active
        /\ row.listed = (source = "sync") /\ row.stale = {}
        /\ row.cost = cost /\ row.price = cost /\ row.cheapest = proc[q].cheapest
    BY <1>2, <2>1, <2>2 DEF PlanRow
  <2>4. plan' = [plan EXCEPT ![p] = row]
    BY <1>3
  <2> HIDE DEF row
  <2>5. /\ plan' \in [Plans -> PlanRow] /\ plan'[p] = row
        /\ \A x \in Plans \ {p} : plan'[x] = plan[x]
    BY <1>1, <2>3, <2>4, RowSaved DEF Jobs
  <2>6. plan[p].exists
    BY <1>1 DEF JobRests, SavePlan, At, p, Listing
  <2> QED BY <2>3, <2>5, <2>6 DEF Grows, SavePlan, Step
<1>7. JobRests(q)'
  BY <1>2, <1>5 DEF JobRests, Filler, Listing
<1>8. Types'
  BY <1>4, <1>6 DEF Jobs, Types, SavePlan, Step
<1>9. Written(q, p)
  <2>1. proc'[q].todo = proc[q].todo \ {p} /\ proc[q].at = "save"
    BY <1>4 DEF Jobs, Types, Job, SavePlan, At
  <2>2. proc[q].cheapest \in BOOLEAN
    BY DEF Jobs, Types, Job
  <2> QED BY <1>1, <1>2, <1>5, <1>6, <2>1, <2>2 DEF Written, Filler, p, Listing
<1> QED BY <1>4, <1>6, <1>7, <1>8, <1>9, OtherJobs DEF p
-----------------------------------------------------------------------------
\* Prices are going to be made of the costs this job writes, and VND prices are going to be
\* written.
Making(q) == source # "gadget" /\ Unmade(q)
Due(q) == Making(q) \/ proc[q].at \in {"tiers", "price", "vnd"}

\* A step that writes no plan, and drops no prices that are due unless the job dies.
Quiet(q) ==
  /\ plan' = plan
  /\ Filler(q)' => Filler(q) /\ proc'[q].offer = proc[q].offer
                   /\ (source = "sync" => proc'[q].todo = proc[q].todo)
  /\ \/ /\ faults' = faults /\ (Making(q) => Making(q)') /\ (Due(q) => Due(q)')
        /\ proc'[q].at # "mark"
     \/ faults' > 0 /\ proc'[q] = Idle

LEMMA ReadingJobs ==
  ASSUME Jobs, NEW q \in Procs, ReadPlan(q) \/ UpsertFails(q) \/ Filled(q) \/ ReadTiers(q)
  PROVE  Jobs' /\ Moves(q) /\ Grows /\ Quiet(q)
<1>0. proc[q] \in Job /\ JobRests(q)
  BY DEF Jobs, Types
<1>1. Grows /\ UNCHANGED <<plan, source, tiers, ops, faults>>
  BY DEF ReadPlan, UpsertFails, Filled, ReadTiers, Step, Grows
<1>2. CASE ReadPlan(q)
  <2> DEFINE j == [proc[q] EXCEPT !.at = "save", !.cheapest = plan[Following(q)].cheapest]
  <2>1. /\ proc[q].at = "upsert" /\ proc[q].op = "fill" /\ Following(q) \in Plans
        /\ plan[Following(q)].exists /\ proc[q].todo # {}
    BY <1>0, <1>2, FollowingIsLeft DEF ReadPlan, At, JobRests, Jobs, Listing
  <2>2. plan[Following(q)].cheapest \in BOOLEAN
    BY <2>1 DEF Jobs, Types, PlanRow
  <2>3. /\ j \in Job /\ j.at = "save" /\ j.op = "fill"
        /\ j.offer = proc[q].offer /\ j.todo = proc[q].todo
    BY <1>0, <2>1, <2>2 DEF Job, Places, Filling
  <2>4. proc' = [proc EXCEPT ![q] = j]
    BY <1>2 DEF ReadPlan, Jobs, Types
  <2> HIDE DEF j
  <2>5. proc' \in [Procs -> Job] /\ proc'[q] = j /\ Moves(q)
    BY <2>3, <2>4, JobSaved DEF Jobs
  <2>6. Following(q)' = Following(q)
    BY <2>3, <2>5 DEF Following
  <2>7. JobRests(q)'
    BY <1>0, <1>1, <2>1, <2>3, <2>5, <2>6 DEF JobRests, Filler, Listing
  <2>8. Quiet(q)
    BY <1>1, <2>1, <2>3, <2>5 DEF Quiet, Filler, Making, Due, Unmade, Listing
  <2> QED BY <1>1, <2>5, <2>7, <2>8, OtherJobs DEF Jobs, Types
<1>3. CASE UpsertFails(q)
  <2> DEFINE j == [proc[q] EXCEPT !.at = IF source = "sync" THEN "tiers" ELSE @,
                                  !.todo = @ \ {Following(q)}]
  <2>1. proc[q].at = "upsert" /\ proc[q].op = "fill"
    BY <1>0, <1>3 DEF UpsertFails, At, JobRests, Listing
  <2>3. /\ j \in Job /\ j.at = (IF source = "sync" THEN "tiers" ELSE "upsert") /\ j.op = "fill"
        /\ j.offer = proc[q].offer /\ j.todo \subseteq proc[q].todo
    BY <1>0, <2>1 DEF Job, Places, Filling
  <2>4. proc' = [proc EXCEPT ![q] = j]
    BY <1>3 DEF UpsertFails, Jobs, Types
  <2> HIDE DEF j
  <2>5. proc' \in [Procs -> Job] /\ proc'[q] = j /\ Moves(q)
    BY <2>3, <2>4, JobSaved DEF Jobs
  <2>7. JobRests(q)'
    BY <1>0, <1>1, <2>1, <2>3, <2>5 DEF JobRests, Filler, Listing
  <2>8. Quiet(q)
    BY <1>1, <2>1, <2>3, <2>5 DEF Quiet, Filler, Making, Due, Unmade, Listing
  <2> QED BY <1>1, <2>5, <2>7, <2>8, OtherJobs DEF Jobs, Types
<1>4. CASE Filled(q)
  <2>1. proc[q].at = "upsert" /\ proc[q].op = "fill" /\ proc[q].todo = {}
    BY <1>0, <1>4 DEF Filled, At, JobRests, Listing
  <2>2. PICK j \in Job :
          /\ proc' = [proc EXCEPT ![q] = j]
          /\ \/ /\ source # "gadget" /\ j.at = (IF source = "sync" THEN "stale" ELSE "tiers")
                /\ j.op = "fill" /\ j.offer = proc[q].offer /\ j.todo = proc[q].todo
             \/ source = "gadget" /\ j.at = "reset"
    <3>1. CASE source # "gadget"
      <4> DEFINE j == [proc[q] EXCEPT !.at = IF source = "sync" THEN "stale" ELSE "tiers"]
      <4>1. /\ j \in Job /\ j.at = (IF source = "sync" THEN "stale" ELSE "tiers") /\ j.op = "fill"
            /\ j.offer = proc[q].offer /\ j.todo = proc[q].todo
        BY <1>0, <2>1 DEF Job, Places, Filling
      <4>2. proc' = [proc EXCEPT ![q] = j]
        BY <1>4, <3>1 DEF Filled, Goto, Jobs, Types
      <4> QED BY <3>1, <4>1, <4>2
    <3>2. CASE source = "gadget"
      <4> DEFINE j == [Idle EXCEPT !.at = "reset", !.op = "rest"]
      <4>1. j \in Job /\ j.at = "reset"
        BY IdleJob DEF Job, Places, Kinds
      <4>2. proc' = [proc EXCEPT ![q] = j]
        BY <1>4, <3>2 DEF Filled
      <4> QED BY <3>2, <4>1, <4>2
    <3> QED BY <3>1, <3>2
  <2>5. proc' \in [Procs -> Job] /\ proc'[q] = j /\ Moves(q)
    BY <2>2, JobSaved DEF Jobs
  <2>7. JobRests(q)'
    BY <1>0, <1>1, <2>1, <2>2, <2>5 DEF JobRests, Filler, Listing
  <2>8. Quiet(q)
    BY <1>1, <2>1, <2>2, <2>5 DEF Quiet, Filler, Making, Due, Unmade, Listing
  <2> QED BY <1>1, <2>5, <2>7, <2>8, OtherJobs DEF Jobs, Types
<1>5. CASE ReadTiers(q)
  <2>0. PICK r \in AllRates :
          proc' = [proc EXCEPT ![q] = [Idle EXCEPT !.at = "price", !.op = proc[q].op,
                                                   !.tiers = tiers, !.rate = r]]
    BY <1>5 DEF ReadTiers, AllRates
  <2> DEFINE j == [Idle EXCEPT !.at = "price", !.op = proc[q].op, !.tiers = tiers, !.rate = r]
  <2>1. proc[q].at = "tiers" /\ tiers \subseteq TierRows
    BY <1>5 DEF ReadTiers, At, Jobs, Types
  <2>2. proc[q].op \in Kinds
    BY <1>0 DEF Job
  <2>3. j \in Job /\ j.at = "price" /\ j.op = proc[q].op
    BY IdleJob, <2>1, <2>2 DEF Job, Places, Filling
  <2>4. proc' = [proc EXCEPT ![q] = j]
    BY <2>0
  <2> HIDE DEF j
  <2>5. proc' \in [Procs -> Job] /\ proc'[q] = j /\ Moves(q)
    BY <2>3, <2>4, JobSaved DEF Jobs
  <2>7. JobRests(q)'
    BY <2>3, <2>5 DEF JobRests, Filler, Listing
  <2>8. Quiet(q)
    BY <1>1, <2>1, <2>3, <2>5 DEF Quiet, Filler, Making, Due, Unmade, Listing
  <2> QED BY <1>1, <2>5, <2>7, <2>8, OtherJobs DEF Jobs, Types
<1> QED BY <1>2, <1>3, <1>4, <1>5

\* The jobs that start or end without a word to the plans.
LEMMA StartingJobs ==
  ASSUME Jobs, NEW q \in Procs, NEW j, j \in Job,
         proc' = [proc EXCEPT ![q] = j], JobRests(q)', ~Filler(q)',
         j.at # "mark",
         \/ ~Due(q) /\ faults' = faults
         \/ faults' > 0 /\ j = Idle,
         UNCHANGED <<source, plan>>, tiers' \subseteq TierRows,
         ops' \in Nat, faults' \in Nat
  PROVE  Jobs' /\ Moves(q) /\ Grows /\ Quiet(q)
<1>1. proc' \in [Procs -> Job] /\ proc'[q] = j /\ Moves(q)
  BY JobSaved DEF Jobs
<1>2. Grows /\ Types'
  BY <1>1 DEF Grows, Jobs, Types
<1>3. Quiet(q)
  BY <1>1 DEF Quiet, Due
<1> QED BY <1>1, <1>2, <1>3, OtherJobs

\* Of the columns of an idle job only the place and the kind of work change.
Started(j, l, k) == j \in Job /\ j.at = l /\ j.op = k

LEMMA CronJobs ==
  ASSUME Jobs, NEW q \in Procs, Hourly(q) \/ MarkCron(q)
  PROVE  Jobs' /\ Moves(q) /\ Grows /\ Quiet(q)
<1>1. PICK j : /\ proc' = [proc EXCEPT ![q] = j]
               /\ Started(j, "vnd", "vnd") \/ Started(j, "reset", "mark")
  <2>1. CASE Hourly(q)
    <3>1. PICK r \in Rates :
            proc' = [proc EXCEPT ![q] = [Idle EXCEPT !.at = "vnd", !.op = "vnd", !.rate = r]]
      BY <2>1 DEF Hourly, Begin
    <3>2. Started([Idle EXCEPT !.at = "vnd", !.op = "vnd", !.rate = r], "vnd", "vnd")
      BY IdleJob DEF Started, Job, Places, Kinds, Filling, AllRates
    <3> QED BY <3>1, <3>2
  <2>2. CASE MarkCron(q)
    <3>1. Started([Idle EXCEPT !.at = "reset", !.op = "mark"], "reset", "mark")
      BY IdleJob DEF Started, Job, Places, Kinds
    <3> QED BY <2>2, <3>1 DEF MarkCron, Begin
  <2> QED BY <2>1, <2>2
<1>2. /\ UNCHANGED <<source, plan, tiers, faults>> /\ ops' \in Nat
      /\ tiers' \subseteq TierRows /\ faults' \in Nat /\ proc[q].at = "idle"
  <2>1. ops' = ops + 1 /\ UNCHANGED <<source, plan, tiers, faults>> /\ proc[q].at = "idle"
    <3>1. CASE Hourly(q)
      BY <3>1 DEF Hourly, Begin, At
    <3>2. CASE MarkCron(q)
      BY <3>2 DEF MarkCron, Begin, At
    <3> QED BY <3>1, <3>2
  <2> QED BY <2>1 DEF Jobs, Types
<1>3. proc'[q] = j /\ j \in Job /\ j.at \in {"vnd", "reset"}
  BY <1>1 DEF Started, Jobs, Types
<1>4. JobRests(q)' /\ ~Filler(q)' /\ ~Due(q)
  BY <1>2, <1>3 DEF JobRests, Filler, Making, Due, Unmade, Listing
<1> QED BY <1>1, <1>2, <1>3, <1>4, StartingJobs

LEMMA EditJobs ==
  ASSUME Jobs, NEW q \in Procs, NEW p \in Plans, Edit(q, p)
  PROVE  Jobs' /\ Moves(q) /\ Grows /\ Quiet(q)
<1> DEFINE j == [Idle EXCEPT !.at = "edit", !.op = "edit", !.todo = {p},
                             !.cheapest = plan[p].cheapest]
<1>1. proc' = [proc EXCEPT ![q] = j]
  BY DEF Edit, Begin
<1>2. plan[p].cheapest \in BOOLEAN /\ plan[p].exists
  BY DEF Jobs, Types, PlanRow, Edit
<1>3. /\ j \in Job /\ j.at = "edit" /\ j.todo = {p}
  BY <1>2, IdleJob DEF Job, Places, Kinds, Filling
<1> HIDE DEF j
<1>4. /\ UNCHANGED <<source, plan, tiers, faults>> /\ ops' \in Nat
      /\ tiers' \subseteq TierRows /\ faults' \in Nat /\ proc[q].at = "idle"
  BY DEF Edit, Begin, At, Jobs, Types
<1>5. proc'[q] = j
  BY <1>1 DEF Jobs, Types
<1>6. Following(q)' = p
  <2>1. p \in Nat /\ p <= p
    BY PricesAssumption
  <2> QED BY <1>3, <1>5, <2>1 DEF Following
<1>7. JobRests(q)' /\ ~Filler(q)' /\ ~Due(q)
  BY <1>2, <1>3, <1>4, <1>5, <1>6 DEF JobRests, Filler, Making, Due, Unmade, Listing
<1> QED BY <1>1, <1>3, <1>4, <1>7, StartingJobs

LEMMA RowIsTier ==
  ASSUME NEW r \in Ranges, NEW id \in Nat, NEW f \in {r.fixed, 0}
  PROVE  Row([r EXCEPT !.fixed = f], id) \in TierRows
<1>1. r = [r EXCEPT !.fixed = r.fixed]
  BY PricesAssumption
<1> QED BY <1>1 DEF TierRows

LEMMA TierJobs ==
  ASSUME Jobs, NEW q \in Procs,
         \/ \E t \in Ranges : CreateTier(q, t) \/ UpdateTier(q, t)
         \/ (\E t \in tiers : RemoveTier(q, t)) \/ SaveTier(q) \/ UpdateTierFails(q) \/ Die(q)
  PROVE  Jobs' /\ Moves(q) /\ Grows /\ Quiet(q)
<1>0. proc[q] \in Job
  BY DEF Jobs, Types
<1>1. CASE \E t \in Ranges : CreateTier(q, t) \/ UpdateTier(q, t)
  <2>1. PICK t \in TierRows, k \in {"tier", "update"} :
          /\ proc' = [proc EXCEPT ![q] = [Idle EXCEPT !.at = "tier", !.op = k, !.tiers = {t}]]
          /\ UNCHANGED <<source, plan, tiers, faults>> /\ ops' \in Nat /\ proc[q].at = "idle"
    <3>1. PICK t \in Ranges : CreateTier(q, t) \/ UpdateTier(q, t)
      BY <1>1
    <3>2. CASE CreateTier(q, t)
      <4>1. ops + 1 \in Nat
        BY DEF Jobs, Types
      <4>2. Row(t, ops + 1) \in TierRows
        BY <4>1 DEF TierRows
      <4> QED BY <3>2, <4>1, <4>2 DEF CreateTier, Begin, At
    <3>3. CASE UpdateTier(q, t)
      <4>1. PICK u \in tiers, f \in {t.fixed, 0} :
              Begin(q, [Idle EXCEPT !.at = "tier", !.op = "update",
                                    !.tiers = {Row([t EXCEPT !.fixed = f], u.id)}])
        BY <3>3 DEF UpdateTier
      <4>2. u.id \in Nat
        BY TierType DEF Jobs, Types
      <4>3. Row([t EXCEPT !.fixed = f], u.id) \in TierRows
        BY <4>2, RowIsTier
      <4>4. ops + 1 \in Nat
        BY DEF Jobs, Types
      <4> QED BY <3>3, <4>1, <4>3, <4>4 DEF UpdateTier, Begin, At
    <3> QED BY <3>1, <3>2, <3>3
  <2> DEFINE j == [Idle EXCEPT !.at = "tier", !.op = k, !.tiers = {t}]
  <2>2. j \in Job /\ j.at = "tier"
    BY IdleJob DEF Job, Places, Kinds
  <2>3. proc'[q] = j
    BY <2>1 DEF Jobs, Types
  <2> HIDE DEF j
  <2>4. JobRests(q)' /\ ~Filler(q)' /\ ~Due(q)
    BY <2>1, <2>2, <2>3 DEF JobRests, Filler, Making, Due, Unmade, Listing
  <2>5. proc' = [proc EXCEPT ![q] = j] /\ tiers' \subseteq TierRows /\ faults' \in Nat
    BY <2>1 DEF j, Jobs, Types
  <2> QED BY <2>1, <2>2, <2>4, <2>5, StartingJobs
<1>2. CASE (\E t \in tiers : RemoveTier(q, t)) \/ SaveTier(q)
  <2> DEFINE j == [Idle EXCEPT !.at = "tiers", !.op = "tier"]
  <2>1. j \in Job /\ j.at = "tiers"
    BY IdleJob DEF Job, Places, Kinds, Filling
  <2>2. /\ proc' = [proc EXCEPT ![q] = j] /\ UNCHANGED <<source, plan, faults>>
        /\ proc[q].at \in {"idle", "tier"} /\ ops' \in Nat /\ faults' \in Nat
    BY <1>2 DEF RemoveTier, SaveTier, Begin, Step, At, Jobs, Types
  <2>3. tiers' \subseteq TierRows
    <3>1. tiers \subseteq TierRows /\ proc[q].tiers \subseteq TierRows
      BY <1>0 DEF Jobs, Types, Job
    <3> QED BY <1>2, <3>1 DEF RemoveTier, SaveTier
  <2>4. proc'[q] = j
    BY <2>2 DEF Jobs, Types
  <2> HIDE DEF j
  <2>5. JobRests(q)' /\ ~Filler(q)' /\ ~Due(q)
    BY <2>1, <2>2, <2>4 DEF JobRests, Filler, Making, Due, Unmade, Listing
  <2> QED BY <2>1, <2>2, <2>3, <2>5, StartingJobs
<1>3. CASE UpdateTierFails(q) \/ Die(q)
  <2>1. /\ proc' = [proc EXCEPT ![q] = Idle] /\ UNCHANGED <<source, plan, tiers, ops>>
        /\ (proc[q].at = "tier" /\ faults' = faults) \/ faults' = faults + 1
    BY <1>3 DEF UpdateTierFails, Die, End, Step, At
  <2>2. /\ tiers' \subseteq TierRows /\ ops' \in Nat /\ faults' \in Nat
        /\ faults' = faults \/ faults' > 0
    BY <2>1 DEF Jobs, Types
  <2>3. proc'[q] = Idle
    BY <2>1 DEF Jobs, Types
  <2>4. JobRests(q)' /\ ~Filler(q)'
    BY <2>3, IdleJob DEF JobRests, Filler, Listing
  <2>5. \/ ~Due(q) /\ faults' = faults
        \/ faults' > 0
    BY <2>1, <2>2 DEF Making, Due, Unmade, Listing
  <2>6. CASE ~Due(q) /\ faults' = faults
    BY <2>1, <2>2, <2>4, <2>6, IdleJob, StartingJobs
  <2>7. CASE faults' > 0
    BY <2>1, <2>2, <2>4, <2>7, IdleJob, StartingJobs
  <2> QED BY <2>5, <2>6, <2>7
<1> QED BY <1>1, <1>2, <1>3
-----------------------------------------------------------------------------
(* The steps that write one column of the plans.                             *)

LEMMA AllOffJobs ==
  ASSUME Jobs, NEW q \in Procs, AllOff(q)
  PROVE  /\ Jobs' /\ Moves(q) /\ Grows
         /\ \A x \in Plans : plan'[x] = [plan[x] EXCEPT !.active = FALSE]
         /\ Filler(q) /\ Filler(q)' /\ proc'[q].at = "upsert"
         /\ proc'[q].offer = proc[q].offer /\ proc'[q].todo = proc[q].todo
<1> DEFINE j == [proc[q] EXCEPT !.at = "upsert"]
<1>0. proc[q] \in Job /\ JobRests(q)
  BY DEF Jobs, Types
<1>1. proc' = [proc EXCEPT ![q] = j] /\ proc[q].at = "off" /\ proc[q].op = "fill"
  BY <1>0 DEF AllOff, Goto, At, Jobs, Types, JobRests, Listing
<1>2. /\ j \in Job /\ j.at = "upsert" /\ j.op = "fill" /\ j.offer = proc[q].offer
      /\ j.todo = proc[q].todo
  BY <1>0, <1>1 DEF Job, Places, Filling
<1> HIDE DEF j
<1>3. proc' \in [Procs -> Job] /\ proc'[q] = j /\ Moves(q)
  BY <1>1, <1>2, JobSaved DEF Jobs
<1>4. plan' = [x \in Plans |-> [plan[x] EXCEPT !.active = FALSE]] /\ source' = source
  BY DEF AllOff, Step
<1>5. \A x \in Plans : plan'[x] = [plan[x] EXCEPT !.active = FALSE] /\ plan[x] \in PlanRow
  BY <1>4 DEF Jobs, Types
<1>6. plan' \in [Plans -> PlanRow] /\ Grows
  BY <1>4, <1>5 DEF Grows, PlanRow
<1>7. JobRests(q)'
  BY <1>0, <1>1, <1>2, <1>3 DEF JobRests, Filler, Listing
<1>8. Types'
  BY <1>3, <1>6 DEF AllOff, Step, Jobs, Types
<1> QED BY <1>1, <1>2, <1>3, <1>5, <1>6, <1>7, <1>8, OtherJobs DEF Filler, Listing

LEMMA DeactivateJobs ==
  ASSUME Jobs, NEW q \in Procs, Deactivate(q)
  PROVE  /\ Jobs' /\ Moves(q) /\ Grows
         /\ \A x \in Plans : plan'[x] = [plan[x] EXCEPT !.active = @ /\ q \notin plan[x].stale]
         /\ Filler(q) /\ proc[q].at = "stale" /\ proc[q].todo = {} /\ source = "sync"
         /\ proc'[q].at = "tiers" /\ proc'[q].op = "fill"
<1> DEFINE j == [proc[q] EXCEPT !.at = "tiers"]
<1>0. proc[q] \in Job /\ JobRests(q)
  BY DEF Jobs, Types
<1>1. proc' = [proc EXCEPT ![q] = j] /\ proc[q].at = "stale" /\ proc[q].op = "fill"
  BY <1>0 DEF Deactivate, Goto, At, Jobs, Types, JobRests, Listing
<1>2. /\ j \in Job /\ j.at = "tiers" /\ j.op = "fill"
  BY <1>0, <1>1 DEF Job, Places, Filling
<1> HIDE DEF j
<1>3. proc' \in [Procs -> Job] /\ proc'[q] = j /\ Moves(q)
  BY <1>1, <1>2, JobSaved DEF Jobs
<1>4. plan' = [x \in Plans |-> [plan[x] EXCEPT !.active = @ /\ q \notin plan[x].stale]] /\ source' = source
  BY DEF Deactivate, Step
<1>5. \A x \in Plans : /\ plan'[x] = [plan[x] EXCEPT !.active = @ /\ q \notin plan[x].stale]
                       /\ plan[x] \in PlanRow
  BY <1>4 DEF Jobs, Types
<1>6. plan' \in [Plans -> PlanRow] /\ Grows
  BY <1>4, <1>5 DEF Grows, PlanRow
<1>7. JobRests(q)'
  BY <1>2, <1>3 DEF JobRests, Filler, Listing
<1>8. Types'
  BY <1>3, <1>6 DEF Deactivate, Step, Jobs, Types
<1> QED BY <1>0, <1>1, <1>2, <1>3, <1>5, <1>6, <1>7, <1>8, OtherJobs DEF Filler, JobRests, Listing

LEMMA DeactivateRows ==
  ASSUME Jobs, NEW q \in Procs, Deactivate(q), NEW x \in Plans
  PROVE  /\ plan'[x].exists = plan[x].exists /\ plan'[x].cheapest = plan[x].cheapest
         /\ plan'[x].cost = plan[x].cost /\ plan'[x].price = plan[x].price
         /\ plan'[x].vnd = plan[x].vnd
         /\ plan'[x].active = (plan[x].active /\ q \notin plan[x].stale)
<1> DEFINE b == plan[x].active /\ q \notin plan[x].stale
<1>1. plan'[x] = [plan[x] EXCEPT !.active = b] /\ plan[x] \in PlanRow
  BY DeactivateJobs DEF Jobs, Types
<1> HIDE DEF b
<1>2. /\ plan'[x].exists = plan[x].exists /\ plan'[x].cheapest = plan[x].cheapest
      /\ plan'[x].cost = plan[x].cost /\ plan'[x].price = plan[x].price
      /\ plan'[x].vnd = plan[x].vnd /\ plan'[x].active = b
  BY <1>1 DEF PlanRow
<1> QED BY <1>2 DEF b

\* The one plan an admin edits.
Saved(q, e) ==
  LET p == Following(q)
      row == plan[p]
      new == plan'[p]
  IN /\ p \in Plans /\ row.exists /\ new.exists /\ new.listed = row.listed /\ new.stale = row.stale
     /\ new.cheapest = proc[q].cheapest
     /\ new.cost = Given(e.cost, row.cost) /\ new.price = Given(e.price, row.price)
     /\ new.vnd = Given(e.vnd, row.vnd) /\ new.active = Given(e.active, row.active)
     /\ \A x \in Plans \ {p} : plan'[x] = plan[x]
     /\ crossed' = IF row.cheapest = proc[q].cheapest THEN crossed ELSE crossed \cup {"row"}
     /\ raw' = IF e.price = Keep THEN raw ELSE raw \ {p}
     /\ atCost' = IF e.vnd = Keep THEN atCost ELSE atCost \ {p}
     /\ own' = IF {e.cost, e.price, e.vnd} = {Keep} THEN own ELSE own \cup {p}
     /\ offered' = IF e.active = Keep THEN offered
                   ELSE IF e.active THEN offered \cup {p} ELSE offered \ {p}

LEMMA EditType ==
  ASSUME NEW e \in Edits, NEW r \in PlanRow
  PROVE  /\ Given(e.cost, r.cost) \in Nat /\ Given(e.price, r.price) \in Nat
         /\ Given(e.vnd, r.vnd) \in Nat /\ Given(e.active, r.active) \in BOOLEAN
         /\ e.active = Keep \/ e.active \in BOOLEAN
<1>1. e \in [cost : Nat \cup {Keep}, price : Nat \cup {Keep}, vnd : Nat \cup {Keep},
            active : BOOLEAN \cup {Keep}]
  BY PricesAssumption
<1>2. /\ e.cost \in Nat \cup {Keep} /\ e.price \in Nat \cup {Keep} /\ e.vnd \in Nat \cup {Keep}
      /\ e.active \in BOOLEAN \cup {Keep}
  BY <1>1
<1>3. r.cost \in Nat /\ r.price \in Nat /\ r.vnd \in Nat /\ r.active \in BOOLEAN
  BY DEF PlanRow
<1>4. /\ Given(e.cost, r.cost) \in Nat /\ Given(e.price, r.price) \in Nat
      /\ Given(e.vnd, r.vnd) \in Nat
  BY <1>2, <1>3 DEF Given
<1>5. Given(e.active, r.active) \in BOOLEAN
  BY <1>2, <1>3 DEF Given
<1> QED BY <1>2, <1>4, <1>5

LEMMA SaveEditJobs ==
  ASSUME Jobs, NEW q \in Procs, SaveEdit(q)
  PROVE  /\ Jobs' /\ Moves(q) /\ Grows /\ proc'[q] = Idle /\ proc[q].at = "edit"
         /\ \E e \in Edits : Saved(q, e)
<1> DEFINE p == Following(q)
<1>0. proc[q] \in Job /\ JobRests(q)
  BY DEF Jobs, Types
<1>1. /\ proc' = [proc EXCEPT ![q] = Idle] /\ proc[q].at = "edit" /\ plan[p].exists
      /\ proc[q].todo # {} /\ UNCHANGED <<source, tiers, ops, faults>>
  BY <1>0 DEF SaveEdit, End, At, Step, JobRests, Listing
<1>2. p \in Plans
  BY <1>1, FollowingIsLeft DEF Jobs
<1>3. proc' \in [Procs -> Job] /\ proc'[q] = Idle /\ Moves(q)
  BY <1>1, IdleJob, JobSaved DEF Jobs
<1>4. plan[p] \in PlanRow /\ proc[q].cheapest \in BOOLEAN
  BY <1>0, <1>2 DEF Jobs, Types, Job
<1> HIDE DEF p
<1>5. PICK e \in Edits :
        /\ plan' = [plan EXCEPT ![p] =
             [plan[p] EXCEPT !.cost = Given(e.cost, plan[p].cost),
                             !.price = Given(e.price, plan[p].price),
                             !.vnd = Given(e.vnd, plan[p].vnd),
                             !.active = Given(e.active, plan[p].active),
                             !.cheapest = proc[q].cheapest]]
        /\ crossed' = IF plan[p].cheapest = proc[q].cheapest THEN crossed
                      ELSE crossed \cup {"row"}
        /\ raw' = IF e.price = Keep THEN raw ELSE raw \ {p}
        /\ atCost' = IF e.vnd = Keep THEN atCost ELSE atCost \ {p}
        /\ own' = IF {e.cost, e.price, e.vnd} = {Keep} THEN own ELSE own \cup {p}
        /\ offered' = IF e.active = Keep THEN offered
                      ELSE IF e.active THEN offered \cup {p} ELSE offered \ {p}
  BY DEF SaveEdit, p
<1> DEFINE row == [plan[p] EXCEPT !.cost = Given(e.cost, plan[p].cost),
                                  !.price = Given(e.price, plan[p].price),
                                  !.vnd = Given(e.vnd, plan[p].vnd),
                                  !.active = Given(e.active, plan[p].active),
                                  !.cheapest = proc[q].cheapest]
<1>6. /\ row \in PlanRow /\ row.exists = plan[p].exists /\ row.cheapest = proc[q].cheapest
      /\ row.listed = plan[p].listed /\ row.stale = plan[p].stale
      /\ row.cost = Given(e.cost, plan[p].cost) /\ row.price = Given(e.price, plan[p].price)
      /\ row.vnd = Given(e.vnd, plan[p].vnd) /\ row.active = Given(e.active, plan[p].active)
  BY <1>4, EditType DEF PlanRow
<1>7. plan' = [plan EXCEPT ![p] = row]
  BY <1>5
<1> HIDE DEF row
<1>8. /\ plan' \in [Plans -> PlanRow] /\ plan'[p] = row
      /\ \A x \in Plans \ {p} : plan'[x] = plan[x]
  BY <1>2, <1>6, <1>7, RowSaved DEF Jobs
<1>9. Grows
  BY <1>1, <1>6, <1>8 DEF Grows
<1>10. JobRests(q)'
  BY <1>3, IdleJob DEF JobRests, Filler, Listing
<1>11. Types'
  BY <1>1, <1>3, <1>8 DEF Jobs, Types
<1>12. Saved(q, e)
  BY <1>1, <1>2, <1>5, <1>6, <1>8 DEF Saved, p
<1> QED BY <1>1, <1>3, <1>9, <1>10, <1>11, <1>12, OtherJobs

\* The one plan that is entered.
Entered(p, e) ==
  /\ p \in Plans /\ ~plan[p].exists /\ plan'[p].exists /\ ~plan'[p].cheapest /\ ~plan'[p].listed
  /\ plan'[p].stale = {} /\ plan'[p].active = Given(e.active, TRUE)
  /\ \A x \in Plans \ {p} : plan'[x] = plan[x]

LEMMA EnterJobs ==
  ASSUME Jobs, NEW p \in Plans, NEW e \in Edits, Enter(p, e)
  PROVE  Jobs' /\ proc' = proc /\ Grows /\ Entered(p, e) /\ Given(e.active, TRUE) \in BOOLEAN
<1> DEFINE row == [None EXCEPT !.exists = TRUE, !.cost = Given(e.cost, 0),
                               !.price = Given(e.price, 0), !.vnd = Given(e.vnd, 0),
                               !.active = Given(e.active, TRUE)]
<1>1. /\ plan' = [plan EXCEPT ![p] = row] /\ ~plan[p].exists
      /\ proc' = proc /\ ops' = ops + 1 /\ UNCHANGED <<source, tiers, faults>>
  BY DEF Enter
<1>2. /\ Given(e.cost, 0) \in Nat /\ Given(e.price, 0) \in Nat /\ Given(e.vnd, 0) \in Nat
      /\ Given(e.active, TRUE) \in BOOLEAN
  <2>1. [None EXCEPT !.active = TRUE] \in PlanRow
    BY NoneRow DEF PlanRow
  <2> QED BY <2>1, EditType DEF None
<1>3. /\ row \in PlanRow /\ row.exists /\ ~row.cheapest /\ ~row.listed /\ row.stale = {}
      /\ row.active = Given(e.active, TRUE)
  BY <1>2, NoneRow DEF PlanRow, None
<1> HIDE DEF row
<1>4. /\ plan' \in [Plans -> PlanRow] /\ plan'[p] = row
      /\ \A x \in Plans \ {p} : plan'[x] = plan[x]
  BY <1>1, <1>3, RowSaved DEF Jobs
<1>5. Entered(p, e)
  BY <1>1, <1>3, <1>4 DEF Entered
<1>6. Grows
  BY <1>1, <1>3, <1>4 DEF Grows
<1>7. Types'
  BY <1>1, <1>4 DEF Jobs, Types
<1>8. ASSUME NEW o \in Procs PROVE JobRests(o)'
  <2>1. JobRests(o) /\ Following(o)' = Following(o)
    BY <1>1 DEF Jobs, Following
  <2>2. proc[o].at \in {"save", "edit"} => Following(o) \in Plans
    BY <2>1, FollowingIsLeft DEF JobRests, Jobs, Listing
  <2> QED BY <1>1, <1>6, <2>1, <2>2 DEF JobRests, Filler, Grows, Listing
<1> QED BY <1>1, <1>2, <1>5, <1>6, <1>7, <1>8 DEF Jobs
-----------------------------------------------------------------------------
LEMMA ResetJobs ==
  ASSUME Jobs, NEW q \in Procs, ResetCheapest(q)
  PROVE  /\ Jobs' /\ Moves(q) /\ Grows /\ proc[q].at = "reset" /\ proc'[q].at = "mark"
         /\ \A x \in Plans : plan'[x] = [plan[x] EXCEPT !.cheapest = FALSE]
<1> DEFINE j == [proc[q] EXCEPT !.at = "mark"]
<1>0. proc[q] \in Job
  BY DEF Jobs, Types
<1>1. proc' = [proc EXCEPT ![q] = j] /\ proc[q].at = "reset"
  BY DEF ResetCheapest, Goto, At, Jobs, Types
<1>2. j \in Job /\ j.at = "mark"
  BY <1>0 DEF Job, Places
<1> HIDE DEF j
<1>3. proc' \in [Procs -> Job] /\ proc'[q] = j /\ Moves(q)
  BY <1>1, <1>2, JobSaved DEF Jobs
<1>4. plan' = [x \in Plans |-> [plan[x] EXCEPT !.cheapest = FALSE]] /\ source' = source
  BY DEF ResetCheapest, Step
<1>5. \A x \in Plans : plan'[x] = [plan[x] EXCEPT !.cheapest = FALSE] /\ plan[x] \in PlanRow
  BY <1>4 DEF Jobs, Types
<1>6. plan' \in [Plans -> PlanRow] /\ Grows
  BY <1>4, <1>5 DEF Grows, PlanRow
<1>7. JobRests(q)'
  BY <1>2, <1>3 DEF JobRests, Filler, Listing
<1>8. Types'
  BY <1>3, <1>6 DEF ResetCheapest, Step, Jobs, Types
<1> QED BY <1>1, <1>2, <1>3, <1>5, <1>6, <1>7, <1>8, OtherJobs

LEMMA MarkJobs ==
  ASSUME Jobs, NEW q \in Procs, Mark(q)
  PROVE  /\ Jobs' /\ Moves(q) /\ Grows /\ proc[q].at = "mark"
         /\ proc'[q].at \in {"idle", "reset", "vnd"} /\ ~Filler(q)'
         /\ IF Active = {} THEN plan' = plan
            ELSE \E p \in Candidates :
                   /\ p \in Plans /\ plan'[p] = [plan[p] EXCEPT !.cheapest = TRUE]
                   /\ \A x \in Plans \ {p} : plan'[x] = plan[x]
<1>1. PICK j \in Job : proc' = [proc EXCEPT ![q] = j] /\ j.at \in {"idle", "reset", "vnd"}
  <2>1. CASE proc[q].op = "fill"
    <3>1. [Idle EXCEPT !.at = "reset", !.op = "rest"] \in Job
      BY IdleJob DEF Job, Places, Kinds
    <3>2. [Idle EXCEPT !.at = "reset", !.op = "rest"].at = "reset"
      BY IdleJob DEF Job
    <3>3. proc' = [proc EXCEPT ![q] = [Idle EXCEPT !.at = "reset", !.op = "rest"]]
      BY <2>1 DEF Mark
    <3> QED BY <3>1, <3>2, <3>3
  <2>2. CASE proc[q].op = "rest"
    <3>1. PICK l \in {"idle", "vnd"}, r \in Rates :
            proc' = [proc EXCEPT ![q] = IF l = "idle" THEN Idle
                                        ELSE [Idle EXCEPT !.at = "vnd", !.op = "vnd", !.rate = r]]
      BY <2>2 DEF Mark
    <3>2. [Idle EXCEPT !.at = "vnd", !.op = "vnd", !.rate = r] \in Job
      BY IdleJob DEF Job, Places, Kinds, Filling, AllRates
    <3>3. [Idle EXCEPT !.at = "vnd", !.op = "vnd", !.rate = r].at = "vnd"
      BY IdleJob DEF Job
    <3> QED BY <3>1, <3>2, <3>3, IdleJob
  <2>3. CASE proc[q].op \notin {"fill", "rest"}
    BY <2>3, IdleJob DEF Mark, End
  <2> QED BY <2>1, <2>2, <2>3
<1>2. proc' \in [Procs -> Job] /\ proc'[q] = j /\ Moves(q)
  BY <1>1, JobSaved DEF Jobs
<1>3. IF Active = {} THEN plan' = plan
      ELSE \E p \in Candidates :
             /\ p \in Plans /\ plan[p] \in PlanRow
             /\ plan'[p] = [plan[p] EXCEPT !.cheapest = TRUE]
             /\ plan' \in [Plans -> PlanRow]
             /\ \A x \in Plans \ {p} : plan'[x] = plan[x]
  <2>1. ASSUME Active # {}
        PROVE  \E p \in Candidates :
                 /\ p \in Plans /\ plan[p] \in PlanRow
                 /\ plan'[p] = [plan[p] EXCEPT !.cheapest = TRUE]
                 /\ plan' \in [Plans -> PlanRow]
                 /\ \A x \in Plans \ {p} : plan'[x] = plan[x]
    <3>1. PICK p \in Candidates : plan' = [plan EXCEPT ![p].cheapest = TRUE]
      BY <2>1 DEF Mark
    <3>2. p \in Plans
      BY DEF Candidates, Active, Existing
    <3> DEFINE row == [plan[p] EXCEPT !.cheapest = TRUE]
    <3>3. plan[p] \in PlanRow
      BY <3>2 DEF Jobs, Types
    <3>4. row \in PlanRow
      BY <3>3 DEF PlanRow
    <3>5. plan' = [plan EXCEPT ![p] = row]
      BY <3>1
    <3>6. /\ plan' \in [Plans -> PlanRow] /\ plan'[p] = row
          /\ \A x \in Plans \ {p} : plan'[x] = plan[x]
      BY <3>2, <3>4, <3>5, RowSaved DEF Jobs
    <3> QED BY <3>2, <3>3, <3>6
  <2>2. Active = {} => plan' = plan
    BY DEF Mark
  <2> QED BY <2>1, <2>2
<1>4. plan' \in [Plans -> PlanRow] /\ Grows
  <2>1. source' = source
    BY DEF Mark, Step
  <2> QED BY <1>3, <2>1 DEF Jobs, Types, Grows, PlanRow
<1>5. JobRests(q)' /\ ~Filler(q)'
  BY <1>1, <1>2 DEF JobRests, Filler, Making, Due, Unmade, Listing
<1>6. Types'
  BY <1>2, <1>4 DEF Mark, Step, Jobs, Types
<1> QED BY <1>1, <1>2, <1>3, <1>4, <1>5, <1>6, OtherJobs DEF Mark, At
-----------------------------------------------------------------------------
(* Prices.                                                                  *)

LEMMA RateType ==
  ASSUME NEW r \in AllRates
  PROVE  r.vnd \in Nat \ {0} /\ r.whole \in BOOLEAN
  BY PricesAssumption DEF AllRates

LEMMA DivNat ==
  ASSUME NEW a \in Nat, NEW b \in Nat \ {0}
  PROVE  a \div b \in Nat
  OBVIOUS

LEMMA RoundNat ==
  ASSUME NEW a \in Nat, NEW b \in Nat \ {0}
  PROVE  RoundDiv(a, b) \in Nat
<1>1. 2 * a + b \in Nat /\ 2 * b \in Nat \ {0}
  OBVIOUS
<1> QED BY <1>1, DivNat DEF RoundDiv

\* A percentage on top of the cost.
LEMMA RoundShift ==
  ASSUME NEW c \in Nat, NEW k \in Nat
  PROVE  RoundDiv(c * (100 + k), 100) = c + RoundDiv(c * k, 100)
<1>1. PICK x \in Nat : x = c * k
  OBVIOUS
<1>2. c * (100 + k) = 100 * c + x
  BY <1>1
<1>3. (2 * (100 * c + x) + 100) \div 200 = c + (2 * x + 100) \div 200
  OBVIOUS
<1> QED BY <1>1, <1>2, <1>3 DEF RoundDiv

LEMMA TierIsFitting ==
  ASSUME NEW cost \in Nat, NEW ts, ts \subseteq TierRows, NEW r \in AllRates,
         Fitting(cost, ts, r) # {}
  PROVE  TierOf(cost, ts, r) \in Fitting(cost, ts, r) /\ TierOf(cost, ts, r) \in TierRows
<1> DEFINE F == Fitting(cost, ts, r)
           M == {t.min : t \in F}
<1>1. F \subseteq TierRows
  BY DEF Fitting
<1>2. M \subseteq Nat /\ M # {}
  BY <1>1, TierType
<1>3. PICK m \in M : \A n \in M : m <= n
  BY <1>2, LeastNat
<1>4. \E t \in F : \A u \in F : t.min <= u.min
  BY <1>3
<1> HIDE DEF F
<1>5. TierOf(cost, ts, r) = CHOOSE t \in F : \A u \in F : t.min <= u.min
  BY DEF TierOf, F
<1>6. TierOf(cost, ts, r) \in F
  BY <1>4, <1>5
<1> QED BY <1>1, <1>6 DEF F

LEMMA PriceCovers ==
  ASSUME NEW cost \in Nat, NEW ts, ts \subseteq TierRows, NEW r \in AllRates
  PROVE  PriceOf(cost, ts, r) \in Nat /\ PriceOf(cost, ts, r) >= cost
<1> DEFINE t == TierOf(cost, ts, r)
<1>1. CASE Fitting(cost, ts, r) = {}
  BY <1>1 DEF PriceOf
<1>2. CASE Fitting(cost, ts, r) # {}
  <2>1. t.fixed \in Nat /\ t.percentage \in Nat /\ r.vnd \in Nat \ {0}
    BY <1>2, TierIsFitting, TierType, RateType
  <2>2. PriceOf(cost, ts, r) = IF t.fixed > 0 THEN cost + Fixed(t, r)
                               ELSE RoundDiv(cost * (100 + t.percentage), 100)
    BY <1>2 DEF PriceOf
  <2> HIDE DEF t
  <2>3. Fixed(t, r) \in Nat
    <3>1. t.fixed \div r.vnd \in Nat /\ t.fixed * 100 \in Nat
      BY <2>1, DivNat
    <3>2. RoundDiv(t.fixed * 100, r.vnd) \in Nat
      BY <2>1, <3>1, RoundNat
    <3>3. (t.fixed \div r.vnd) * 100 \in Nat
      BY <3>1
    <3> QED BY <3>2, <3>3 DEF Fixed
  <2>4. RoundDiv(cost * (100 + t.percentage), 100) = cost + RoundDiv(cost * t.percentage, 100)
    BY <2>1, RoundShift
  <2>5. cost * t.percentage \in Nat
    BY <2>1
  <2>6. RoundDiv(cost * t.percentage, 100) \in Nat
    BY <2>5, RoundNat
  <2> QED BY <2>2, <2>3, <2>4, <2>6
<1> QED BY <1>1, <1>2

\* A cost of at least 500 VND at any rate.
Worth(c) == \A r \in AllRates : c * r.vnd >= 50000

LEMMA VndIsPositive ==
  ASSUME NEW cost \in Nat, Worth(cost), NEW price \in Nat, price >= cost, NEW r \in AllRates
  PROVE  VndOf(price, r) \in Nat /\ VndOf(price, r) > 0
<1>1. r.vnd \in Nat
  BY RateType
<1>2. PICK v \in Nat : v = r.vnd
  BY <1>1
<1>3. cost * v >= 50000
  BY <1>2 DEF Worth
<1>4. price * v >= 50000
  <2>1. PICK d \in Nat : price = cost + d
    <3>1. price - cost \in Nat /\ price = cost + (price - cost)
      OBVIOUS
    <3> QED BY <3>1
  <2>2. price * v = cost * v + d * v /\ d * v \in Nat /\ cost * v \in Nat
    BY <2>1
  <2> QED BY <1>3, <2>2
<1>5. PICK x \in Nat : x = price * v
  OBVIOUS
<1>6. x >= 50000
  BY <1>4, <1>5
<1>7. (2 * x + 100000) \div 200000 >= 1
  BY <1>6
<1>8. VndOf(price, r) = ((2 * x + 100000) \div 200000) * 1000
  BY <1>2, <1>5 DEF VndOf, RoundDiv
<1>9. (2 * x + 100000) \div 200000 \in Nat
  BY DivNat
<1> QED BY <1>7, <1>8, <1>9

LEMMA RecalculateJobs ==
  ASSUME Jobs, NEW q \in Procs, Recalculate(q)
  PROVE  /\ Jobs' /\ Moves(q) /\ Grows /\ proc[q].at = "price" /\ proc'[q].at = "vnd"
         /\ proc[q].tiers \subseteq TierRows /\ proc[q].rate \in AllRates
         /\ \A x \in Plans : plan'[x] =
              IF plan[x].exists
              THEN [plan[x] EXCEPT !.price = PriceOf(plan[x].cost, proc[q].tiers, proc[q].rate)]
              ELSE plan[x]
<1> DEFINE j == [proc[q] EXCEPT !.at = "vnd", !.tiers = {}]
           r == proc[q].rate
           ts == proc[q].tiers
<1>0. proc[q] \in Job
  BY DEF Jobs, Types
<1>1. proc' = [proc EXCEPT ![q] = j] /\ proc[q].at = "price"
  BY DEF Recalculate, At, Jobs, Types
<1>2. /\ j \in Job /\ j.at = "vnd" /\ j.op = proc[q].op
      /\ ts \subseteq TierRows /\ r \in AllRates
  BY <1>0 DEF Job, Places, Filling
<1> HIDE DEF j, ts, r
<1>3. proc' \in [Procs -> Job] /\ proc'[q] = j /\ Moves(q)
  BY <1>1, <1>2, JobSaved DEF Jobs
<1>4. plan' = [x \in Plans |-> IF x \in Existing
                 THEN [plan[x] EXCEPT !.price = PriceOf(plan[x].cost, ts, r)] ELSE plan[x]]
  BY DEF Recalculate, ts, r
<1>5. ASSUME NEW x \in Plans
      PROVE  /\ plan'[x] = IF plan[x].exists
                           THEN [plan[x] EXCEPT !.price = PriceOf(plan[x].cost, ts, r)] ELSE plan[x]
             /\ plan'[x] \in PlanRow /\ plan'[x].exists = plan[x].exists
  <2>1. plan'[x] = IF plan[x].exists
                   THEN [plan[x] EXCEPT !.price = PriceOf(plan[x].cost, ts, r)] ELSE plan[x]
    BY <1>4 DEF Existing
  <2>2. plan[x] \in PlanRow /\ plan[x].cost \in Nat
    BY DEF Jobs, Types, PlanRow
  <2>3. PriceOf(plan[x].cost, ts, r) \in Nat
    BY <1>2, <2>2, PriceCovers
  <2> QED BY <2>1, <2>2, <2>3 DEF PlanRow
<1>6. plan' \in [Plans -> PlanRow] /\ Grows
  BY <1>4, <1>5 DEF Grows, Recalculate, Step
<1>7. JobRests(q)'
  BY <1>2, <1>3 DEF JobRests, Filler, Listing
<1>8. Types'
  BY <1>3, <1>6 DEF Recalculate, Step, Jobs, Types
<1> QED BY <1>1, <1>2, <1>3, <1>5, <1>6, <1>7, <1>8, OtherJobs DEF ts, r

LEMMA UpdateVndJobs ==
  ASSUME Jobs, NEW q \in Procs, UpdateVnd(q)
  PROVE  /\ Jobs' /\ Moves(q) /\ Grows /\ proc[q].at = "vnd"
         /\ proc'[q].at \in {"idle", "reset"} /\ proc[q].rate \in AllRates
         /\ \A x \in Plans : plan'[x] =
              IF plan[x].exists THEN [plan[x] EXCEPT !.vnd = VndOf(plan[x].price, proc[q].rate)]
              ELSE plan[x]
<1> DEFINE r == proc[q].rate
<1>0. proc[q] \in Job
  BY DEF Jobs, Types
<1>1. PICK j \in Job : proc' = [proc EXCEPT ![q] = j] /\ j.at \in {"idle", "reset"}
  <2>1. [Idle EXCEPT !.at = "reset", !.op = proc[q].op] \in Job
    BY <1>0, IdleJob DEF Job, Places
  <2>2. [Idle EXCEPT !.at = "reset", !.op = proc[q].op].at = "reset"
    BY IdleJob DEF Job
  <2>3. proc' = [proc EXCEPT ![q] = IF proc[q].op = "vnd" THEN Idle
                                    ELSE [Idle EXCEPT !.at = "reset", !.op = proc[q].op]]
    BY DEF UpdateVnd, Jobs, Types
  <2> QED BY <2>1, <2>2, <2>3, IdleJob
<1>2. r \in AllRates /\ proc[q].at = "vnd"
  BY <1>0 DEF Job, UpdateVnd, At
<1> HIDE DEF r
<1>3. proc' \in [Procs -> Job] /\ proc'[q] = j /\ Moves(q)
  BY <1>1, JobSaved DEF Jobs
<1>4. plan' = [x \in Plans |-> IF x \in Existing
                 THEN [plan[x] EXCEPT !.vnd = VndOf(plan[x].price, r)] ELSE plan[x]]
  BY DEF UpdateVnd, r
<1>5. ASSUME NEW x \in Plans
      PROVE  /\ plan'[x] = IF plan[x].exists
                           THEN [plan[x] EXCEPT !.vnd = VndOf(plan[x].price, r)] ELSE plan[x]
             /\ plan'[x] \in PlanRow /\ plan'[x].exists = plan[x].exists
  <2>1. plan'[x] = IF plan[x].exists
                   THEN [plan[x] EXCEPT !.vnd = VndOf(plan[x].price, r)] ELSE plan[x]
    BY <1>4 DEF Existing
  <2>2. plan[x] \in PlanRow /\ plan[x].price \in Nat /\ r.vnd \in Nat
    BY <1>2, RateType DEF Jobs, Types, PlanRow
  <2>3. plan[x].price * r.vnd \in Nat
    BY <2>2
  <2>4. RoundDiv(plan[x].price * r.vnd, 100000) \in Nat
    BY <2>3, RoundNat
  <2>5. VndOf(plan[x].price, r) \in Nat
    BY <2>4 DEF VndOf
  <2> QED BY <2>1, <2>2, <2>5 DEF PlanRow
<1>6. plan' \in [Plans -> PlanRow] /\ Grows
  BY <1>4, <1>5 DEF Grows, UpdateVnd, Step
<1>7. JobRests(q)'
  BY <1>1, <1>3 DEF JobRests, Filler, Listing
<1>8. Types'
  BY <1>3, <1>6 DEF UpdateVnd, Step, Jobs, Types
<1> QED BY <1>1, <1>2, <1>3, <1>5, <1>6, <1>7, <1>8, OtherJobs DEF r

LEMMA FillRows ==
  ASSUME Jobs, NEW q \in Procs, Fill(q)
  PROVE  /\ \A x \in Plans : plan'[x] =
              [plan[x] EXCEPT !.stale = IF plan[x].listed THEN @ \cup {q} ELSE @]
         /\ Filler(q)' /\ proc'[q].todo = DOMAIN proc'[q].offer /\ proc[q].at = "idle"
         /\ crossed' = IF Beside(q, Listing) THEN crossed \cup {"list"} ELSE crossed
         /\ UNCHANGED <<source, tiers, faults, raw, atCost, beside, behind, cut, own, dirty, offered>>
<1>1. PICK offer \in Offers :
        proc' = [proc EXCEPT ![q] =
          [Idle EXCEPT !.at = IF source = "sync" THEN "upsert" ELSE "off",
                       !.op = "fill", !.offer = offer, !.todo = DOMAIN offer]]
  BY DEF Fill, Begin
<1>2. proc'[q] = [Idle EXCEPT !.at = IF source = "sync" THEN "upsert" ELSE "off",
                              !.op = "fill", !.offer = offer, !.todo = DOMAIN offer]
  BY <1>1 DEF Jobs, Types
<1>3. /\ proc'[q].op = "fill" /\ proc'[q].at \in {"off", "upsert"}
      /\ proc'[q].todo = DOMAIN proc'[q].offer
  BY <1>2 DEF Idle
<1>4. \A x \in Plans : plan'[x] =
        [plan[x] EXCEPT !.stale = IF plan[x].listed THEN @ \cup {q} ELSE @]
  BY DEF Fill
<1> QED BY <1>3, <1>4 DEF Filler, Listing, Fill, Begin, At
-----------------------------------------------------------------------------
(* What a list is, while it is worked off.                                   *)

\* Only a row that was synchronised can have been synchronised before a job began.
RowsListed ==
  \A p \in Plans : /\ plan[p].listed => plan[p].exists
                   /\ plan[p].stale # {} => plan[p].listed

\* While one list is worked off at a time, a job finds current what it has written from its
\* list, and what nobody synchronised.
FillerInv ==
  /\ RowsListed
  /\ "list" \notin crossed =>
       /\ \A q, o \in Procs : Filler(q) /\ Filler(o) => q = o
       /\ source = "sync" => \A q \in Procs : Filler(q) => \A p \in Plans :
            /\ plan[p].listed /\ q \notin plan[p].stale => p \in DOMAIN proc[q].offer
            /\ p \in DOMAIN proc[q].offer \ proc[q].todo => plan[p].listed /\ q \notin plan[p].stale

LEMMA SameFillers ==
  ASSUME Jobs, FillerInv, NEW q \in Procs, Moves(q), Grows, crossed \subseteq crossed',
         Filler(q)' => Filler(q) /\ proc'[q].offer = proc[q].offer
                       /\ (source = "sync" => proc'[q].todo = proc[q].todo),
         \A x \in Plans : plan'[x].listed = plan[x].listed /\ plan'[x].stale = plan[x].stale
  PROVE  FillerInv'
<1>1. ASSUME NEW o \in Procs, Filler(o)'
      PROVE  Filler(o) /\ proc'[o].offer = proc[o].offer
             /\ (source = "sync" => proc'[o].todo = proc[o].todo)
  BY <1>1 DEF Moves, Filler, Listing
<1>2. RowsListed'
  BY DEF FillerInv, RowsListed, Grows
<1> SUFFICES ASSUME "list" \notin crossed
             PROVE  /\ \A o, p \in Procs : Filler(o)' /\ Filler(p)' => o = p
                    /\ source' = "sync" => \A o \in Procs : Filler(o)' => \A p \in Plans :
                         /\ plan'[p].listed /\ o \notin plan'[p].stale => p \in DOMAIN proc'[o].offer
                         /\ p \in DOMAIN proc'[o].offer \ proc'[o].todo =>
                              plan'[p].listed /\ o \notin plan'[p].stale
  BY <1>2 DEF FillerInv
<1>3. \A o, p \in Procs : Filler(o)' /\ Filler(p)' => o = p
  BY <1>1 DEF FillerInv
<1>4. ASSUME source' = "sync", NEW o \in Procs, Filler(o)', NEW p \in Plans
      PROVE  /\ plan'[p].listed /\ o \notin plan'[p].stale => p \in DOMAIN proc'[o].offer
             /\ p \in DOMAIN proc'[o].offer \ proc'[o].todo =>
                  plan'[p].listed /\ o \notin plan'[p].stale
  BY <1>1, <1>4 DEF FillerInv, Grows
<1> QED BY <1>3, <1>4

LEMMA RowFillers ==
  ASSUME Jobs, FillerInv, NEW q \in Procs, NEW p, Moves(q), Grows, Written(q, p),
         crossed \subseteq crossed'
  PROVE  FillerInv'
<1>1. RowsListed'
  BY DEF FillerInv, RowsListed, Grows, Written
<1> SUFFICES ASSUME "list" \notin crossed
             PROVE  /\ \A o, i \in Procs : Filler(o)' /\ Filler(i)' => o = i
                    /\ source' = "sync" => \A o \in Procs : Filler(o)' => \A x \in Plans :
                         /\ plan'[x].listed /\ o \notin plan'[x].stale => x \in DOMAIN proc'[o].offer
                         /\ x \in DOMAIN proc'[o].offer \ proc'[o].todo =>
                              plan'[x].listed /\ o \notin plan'[x].stale
  BY <1>1 DEF FillerInv
<1>2. ASSUME NEW o \in Procs, Filler(o)' PROVE o = q
  <2>1. Filler(o) /\ Filler(q)
    BY <1>2 DEF Moves, Filler, Listing, Written
  <2> QED BY <2>1 DEF FillerInv
<1>3. ASSUME source' = "sync", NEW x \in Plans
      PROVE  /\ plan'[x].listed /\ q \notin plan'[x].stale => x \in DOMAIN proc'[q].offer
             /\ x \in DOMAIN proc'[q].offer \ proc'[q].todo =>
                  plan'[x].listed /\ q \notin plan'[x].stale
  BY <1>3 DEF FillerInv, Grows, Written
<1> QED BY <1>2, <1>3

LEMMA FillFillers ==
  ASSUME Jobs, FillerInv, NEW q \in Procs, Fill(q)
  PROVE  FillerInv'
<1>1. Moves(q) /\ Filler(q)' /\ proc'[q].todo = DOMAIN proc'[q].offer
  BY FillJobs, FillRows
<1>2. ASSUME NEW x \in Plans
      PROVE  /\ plan'[x].exists = plan[x].exists /\ plan'[x].listed = plan[x].listed
             /\ plan[x].listed => q \in plan'[x].stale
             /\ ~plan[x].listed => plan'[x].stale = {}
  <2>1. /\ plan[x] \in PlanRow
        /\ plan'[x] = [plan[x] EXCEPT !.stale = IF plan[x].listed THEN @ \cup {q} ELSE @]
    BY FillRows DEF Jobs, Types
  <2>2. plan[x].stale # {} => plan[x].listed
    BY DEF FillerInv, RowsListed
  <2> QED BY <2>1, <2>2 DEF PlanRow
<1>3. RowsListed'
  BY <1>2 DEF FillerInv, RowsListed
<1>4. ASSUME "list" \notin crossed', NEW o \in Procs, Filler(o)' PROVE o = q
  <2>1. ~Beside(q, Listing)
    BY <1>4, FillRows
  <2>2. o # q => Filler(o)
    BY <1>1, <1>4 DEF Moves, Filler, Listing
  <2> QED BY <2>1, <2>2 DEF Beside, Filler
<1>5. \A x \in Plans : plan'[x].listed => q \in plan'[x].stale
  BY <1>2
<1> QED BY <1>1, <1>3, <1>4, <1>5 DEF FillerInv

\* A plan that is entered is in nobody's list yet.
LEMMA EnterFillers ==
  ASSUME Jobs, FillerInv, NEW p \in Plans, NEW e \in Edits, Enter(p, e)
  PROVE  FillerInv'
<1>1. Entered(p, e) /\ proc' = proc /\ Grows /\ crossed' = crossed
  BY EnterJobs DEF Enter
<1>2. ~plan[p].listed
  BY <1>1 DEF Entered, FillerInv, RowsListed
<1>3. RowsListed'
  BY <1>1 DEF FillerInv, RowsListed, Entered
<1> SUFFICES ASSUME "list" \notin crossed
             PROVE  /\ \A o, i \in Procs : Filler(o) /\ Filler(i) => o = i
                    /\ source = "sync" => \A o \in Procs : Filler(o) => \A x \in Plans :
                         /\ plan'[x].listed /\ o \notin plan'[x].stale => x \in DOMAIN proc[o].offer
                         /\ x \in DOMAIN proc[o].offer \ proc[o].todo =>
                              plan'[x].listed /\ o \notin plan'[x].stale
  BY <1>1, <1>3 DEF FillerInv, Filler, Listing, Grows
<1>4. ASSUME source = "sync", NEW o \in Procs, Filler(o), NEW x \in Plans
      PROVE  /\ plan'[x].listed /\ o \notin plan'[x].stale => x \in DOMAIN proc[o].offer
             /\ x \in DOMAIN proc[o].offer \ proc[o].todo =>
                  plan'[x].listed /\ o \notin plan'[x].stale
  BY <1>1, <1>2, <1>4 DEF Entered, FillerInv
<1> QED BY <1>4 DEF FillerInv

\* What each step does, and whose it is.
Rewrites(q) ==
  AllOff(q) \/ Deactivate(q) \/ SaveEdit(q) \/ Recalculate(q) \/ UpdateVnd(q)
  \/ ResetCheapest(q) \/ Mark(q)

Silent(q) ==
  \/ ReadPlan(q) \/ UpsertFails(q) \/ Filled(q) \/ ReadTiers(q) \/ Hourly(q) \/ MarkCron(q)
  \/ \E p \in Plans : Edit(q, p)
  \/ \E t \in Ranges : CreateTier(q, t) \/ UpdateTier(q, t)
  \/ (\E t \in tiers : RemoveTier(q, t)) \/ SaveTier(q) \/ UpdateTierFails(q) \/ Die(q)

Enters == \E p \in Plans, e \in Edits : Enter(p, e)

LEMMA StepOf ==
  ASSUME Next
  PROVE  \/ Enters
         \/ \E q \in Procs : Fill(q) \/ CreatePlan(q) \/ SavePlan(q) \/ Rewrites(q) \/ Silent(q)
  BY DEF Next, Rewrites, Silent, Enters

LEMMA SilentIsQuiet ==
  ASSUME Jobs, NEW q \in Procs, Silent(q)
  PROVE  Jobs' /\ Moves(q) /\ Grows /\ Quiet(q)
  BY ReadingJobs, CronJobs, EditJobs, TierJobs DEF Silent

LEMMA RewritesMove ==
  ASSUME Jobs, NEW q \in Procs, Rewrites(q)
  PROVE  /\ Jobs' /\ Moves(q) /\ Grows /\ crossed \subseteq crossed'
         /\ Filler(q)' => Filler(q) /\ proc'[q].offer = proc[q].offer
                          /\ (source = "sync" => proc'[q].todo = proc[q].todo)
         /\ \A x \in Plans : plan'[x].listed = plan[x].listed /\ plan'[x].stale = plan[x].stale
<1> SUFFICES /\ Jobs' /\ Moves(q) /\ Grows
             /\ Filler(q)' => Filler(q) /\ proc'[q].offer = proc[q].offer
                              /\ (source = "sync" => proc'[q].todo = proc[q].todo)
             /\ \A x \in Plans : plan'[x].listed = plan[x].listed /\ plan'[x].stale = plan[x].stale
  BY DEF Rewrites, AllOff, Deactivate, SaveEdit, Recalculate, UpdateVnd, ResetCheapest, Mark
<1>0. \A x \in Plans : plan[x] \in PlanRow
  BY DEF Jobs, Types
<1>1. CASE AllOff(q)
  BY <1>0, <1>1, AllOffJobs DEF PlanRow
<1>2. CASE Deactivate(q)
  BY <1>0, <1>2, DeactivateJobs DEF PlanRow, Filler, Listing
<1>3. CASE SaveEdit(q)
  <2>1. ~Filler(q)'
    BY <1>3, SaveEditJobs, IdleJob DEF Filler, Listing
  <2>2. ASSUME NEW x \in Plans PROVE plan'[x].listed = plan[x].listed /\ plan'[x].stale = plan[x].stale
    <3>1. PICK e \in Edits : Saved(q, e)
      BY <1>3, SaveEditJobs
    <3> QED BY <3>1 DEF Saved
  <2> QED BY <1>3, <2>1, <2>2, SaveEditJobs
<1>4. CASE Recalculate(q)
  <2>1. ~Filler(q)'
    BY <1>4, RecalculateJobs DEF Filler, Listing
  <2>2. \A x \in Plans : plan'[x].listed = plan[x].listed /\ plan'[x].stale = plan[x].stale
    BY <1>0, <1>4, RecalculateJobs DEF PlanRow
  <2> QED BY <1>4, <2>1, <2>2, RecalculateJobs
<1>5. CASE UpdateVnd(q)
  <2>1. ~Filler(q)'
    BY <1>5, UpdateVndJobs DEF Filler, Listing
  <2>2. \A x \in Plans : plan'[x].listed = plan[x].listed /\ plan'[x].stale = plan[x].stale
    BY <1>0, <1>5, UpdateVndJobs DEF PlanRow
  <2> QED BY <1>5, <2>1, <2>2, UpdateVndJobs
<1>6. CASE ResetCheapest(q)
  <2>1. ~Filler(q)'
    BY <1>6, ResetJobs DEF Filler, Listing
  <2>2. \A x \in Plans : plan'[x].listed = plan[x].listed /\ plan'[x].stale = plan[x].stale
    BY <1>0, <1>6, ResetJobs DEF PlanRow
  <2> QED BY <1>6, <2>1, <2>2, ResetJobs
<1>7. CASE Mark(q)
  <2>1. ~Filler(q)'
    BY <1>7, MarkJobs
  <2>2. ASSUME NEW x \in Plans PROVE plan'[x].listed = plan[x].listed /\ plan'[x].stale = plan[x].stale
    <3>1. CASE Active = {}
      BY <1>7, <3>1, MarkJobs
    <3>2. CASE Active # {}
      <4>1. PICK p \in Plans : /\ plan'[p] = [plan[p] EXCEPT !.cheapest = TRUE]
                              /\ \A y \in Plans \ {p} : plan'[y] = plan[y]
        BY <1>7, <3>2, MarkJobs
      <4>2. x = p => plan'[x].listed = plan[x].listed /\ plan'[x].stale = plan[x].stale
        BY <1>0, <4>1 DEF PlanRow
      <4> QED BY <4>1, <4>2
    <3> QED BY <3>1, <3>2
  <2> QED BY <1>7, <2>1, <2>2, MarkJobs
<1> QED BY <1>1, <1>2, <1>3, <1>4, <1>5, <1>6, <1>7 DEF Rewrites

LEMMA SilentHistory ==
  ASSUME NEW q \in Procs, Silent(q)
  PROVE  /\ UNCHANGED <<raw, atCost, beside, cut, own, dirty, offered>> /\ crossed \subseteq crossed'
         /\ UNCHANGED <<tiers, behind>> \/ behind'
<1>1. ASSUME \/ ReadPlan(q) \/ UpsertFails(q) \/ Filled(q) \/ ReadTiers(q) \/ Hourly(q) \/ MarkCron(q)
             \/ \E p \in Plans : Edit(q, p)
             \/ \E t \in Ranges : CreateTier(q, t) \/ UpdateTier(q, t)
             \/ UpdateTierFails(q) \/ Die(q)
      PROVE  UNCHANGED <<tiers, history>>
  BY <1>1 DEF ReadPlan, UpsertFails, Filled, ReadTiers, Hourly, MarkCron, Edit, CreateTier, UpdateTier,
              UpdateTierFails, Die
<1>2. CASE \E t \in tiers : RemoveTier(q, t)
  BY <1>2 DEF RemoveTier
<1>3. CASE SaveTier(q)
  BY <1>3 DEF SaveTier
<1> QED BY <1>1, <1>2, <1>3 DEF Silent, history

LEMMA NextFillers ==
  ASSUME Jobs, FillerInv, Next
  PROVE  Jobs' /\ FillerInv'
<1>0. CASE Enters
  BY <1>0, EnterJobs, EnterFillers DEF Enters
<1>1. ASSUME NEW q \in Procs,
             Fill(q) \/ CreatePlan(q) \/ SavePlan(q) \/ Rewrites(q) \/ Silent(q)
      PROVE  Jobs' /\ FillerInv'
  <2>1. CASE Fill(q)
    BY <2>1, FillJobs, FillFillers
  <2>2. CASE CreatePlan(q)
    <3>1. crossed' = crossed
      BY <2>2 DEF CreatePlan
    <3> QED BY <2>2, <3>1, CreatePlanJobs, RowFillers
  <2>3. CASE SavePlan(q)
    <3>1. crossed \subseteq crossed'
      BY <2>3 DEF SavePlan
    <3> QED BY <2>3, <3>1, SavePlanJobs, RowFillers
  <2>4. CASE Rewrites(q)
    BY <2>4, RewritesMove, SameFillers
  <2>5. CASE Silent(q)
    <3>1. Jobs' /\ Moves(q) /\ Grows /\ Quiet(q) /\ crossed \subseteq crossed'
      BY <2>5, SilentIsQuiet, SilentHistory
    <3> QED BY <3>1, SameFillers DEF Quiet
  <2> QED BY <1>1, <2>1, <2>2, <2>3, <2>4, <2>5
<1> QED BY <1>0, <1>1, StepOf
-----------------------------------------------------------------------------
(* On sale, and marked.                                                     *)

LEMMA SaleKept ==
  ASSUME OnSaleIsOffered, offered' = offered, crossed \subseteq crossed',
         \A x \in Plans : plan'[x].exists = plan[x].exists /\ plan'[x].active = plan[x].active
  PROVE  OnSaleIsOffered'
  BY DEF OnSaleIsOffered, Active, Existing

LEMMA SaleAdds ==
  ASSUME Jobs, OnSaleIsOffered, NEW q \in Procs, NEW p, Written(q, p), offered' = offered \cup {p},
         crossed \subseteq crossed'
  PROVE  OnSaleIsOffered'
  BY DEF OnSaleIsOffered, Active, Existing, Written

LEMMA EnterSale ==
  ASSUME Jobs, OnSaleIsOffered, NEW p \in Plans, NEW e \in Edits, Enter(p, e)
  PROVE  OnSaleIsOffered'
<1>1. Entered(p, e) /\ Given(e.active, TRUE) \in BOOLEAN
  BY EnterJobs
<1>2. /\ crossed' = crossed
      /\ offered' = IF Given(e.active, TRUE) THEN offered \cup {p} ELSE offered
  BY DEF Enter
<1>3. Active = {x \in Plans : plan[x].exists /\ plan[x].active}
  BY DEF Active, Existing
<1>4. Active' = {x \in Plans : plan'[x].exists /\ plan'[x].active}
  BY DEF Active, Existing
<1>5. Active' = IF Given(e.active, TRUE) THEN Active \cup {p} ELSE Active
  BY <1>1, <1>3, <1>4 DEF Entered
<1> QED BY <1>2, <1>5 DEF OnSaleIsOffered

LEMMA EditSale ==
  ASSUME Jobs, OnSaleIsOffered, NEW q \in Procs, SaveEdit(q)
  PROVE  OnSaleIsOffered'
<1>1. PICK e \in Edits : Saved(q, e)
  BY SaveEditJobs
<1> DEFINE p == Following(q)
<1>2. p \in Plans /\ plan[p] \in PlanRow
  BY <1>1 DEF Saved, Jobs, Types
<1>3. e.active = Keep \/ e.active \in BOOLEAN
  BY <1>2, EditType
<1>4. Active = {x \in Plans : plan[x].exists /\ plan[x].active}
  BY DEF Active, Existing
<1>5. Active' = {x \in Plans : plan'[x].exists /\ plan'[x].active}
  BY DEF Active, Existing
<1>6. /\ plan[p].exists /\ plan'[p].exists
      /\ plan'[p].active = IF e.active = Keep THEN plan[p].active ELSE e.active
      /\ \A x \in Plans \ {p} : plan'[x] = plan[x]
  BY <1>1 DEF Saved, Given
<1>7. /\ crossed \subseteq crossed'
      /\ offered' = IF e.active = Keep THEN offered
                    ELSE IF e.active THEN offered \cup {p} ELSE offered \ {p}
  BY <1>1 DEF Saved
<1> HIDE DEF p
<1>8. Active' = IF e.active = Keep THEN Active
                ELSE IF e.active THEN Active \cup {p} ELSE Active \ {p}
  BY <1>2, <1>3, <1>4, <1>5, <1>6
<1> QED BY <1>7, <1>8 DEF OnSaleIsOffered

LEMMA RewritesSale ==
  ASSUME Jobs, FillerInv, OnSaleIsOffered, NEW q \in Procs, Rewrites(q)
  PROVE  OnSaleIsOffered'
<1>0. \A x \in Plans : plan[x] \in PlanRow
  BY DEF Jobs, Types
<1>1. CASE AllOff(q)
  <2>1. \A x \in Plans : ~plan'[x].active
    BY <1>0, <1>1, AllOffJobs DEF PlanRow
  <2>2. offered' = {}
    BY <1>1 DEF AllOff
  <2> QED BY <2>1, <2>2 DEF OnSaleIsOffered, Active, Existing
<1>2. CASE Deactivate(q)
  <2> SUFFICES ASSUME "list" \notin crossed
               PROVE  Active' = offered'
    BY <1>2 DEF OnSaleIsOffered, Deactivate
  <2>1. ASSUME NEW x \in Plans
        PROVE  /\ plan'[x].exists = plan[x].exists
               /\ plan'[x].active = (plan[x].active /\ q \notin plan[x].stale)
    BY <1>2, DeactivateRows
  <2>2. ASSUME NEW x \in Plans
        PROVE  q \notin plan[x].stale <=> x \in DOMAIN proc[q].offer \/ ~plan[x].listed
    BY <1>2, DeactivateJobs DEF FillerInv, RowsListed
  <2>3. offered' = {x \in offered : x \in DOMAIN proc[q].offer \/ ~plan[x].listed}
    BY <1>2 DEF Deactivate
  <2>4. Active = {x \in Plans : plan[x].exists /\ plan[x].active} /\ Active = offered
    BY DEF Active, Existing, OnSaleIsOffered
  <2>5. Active' = {x \in Plans : plan'[x].exists /\ plan'[x].active}
    BY DEF Active, Existing
  <2> QED BY <2>1, <2>2, <2>3, <2>4, <2>5
<1>3. CASE SaveEdit(q)
  BY <1>3, EditSale
<1>4. CASE Recalculate(q)
  <2>1. \A x \in Plans : plan'[x].exists = plan[x].exists /\ plan'[x].active = plan[x].active
    BY <1>0, <1>4, RecalculateJobs DEF PlanRow
  <2> QED BY <1>4, <2>1, SaleKept DEF Recalculate
<1>5. CASE UpdateVnd(q)
  <2>1. \A x \in Plans : plan'[x].exists = plan[x].exists /\ plan'[x].active = plan[x].active
    BY <1>0, <1>5, UpdateVndJobs DEF PlanRow
  <2> QED BY <1>5, <2>1, SaleKept DEF UpdateVnd
<1>6. CASE ResetCheapest(q)
  <2>1. \A x \in Plans : plan'[x].exists = plan[x].exists /\ plan'[x].active = plan[x].active
    BY <1>0, <1>6, ResetJobs DEF PlanRow
  <2> QED BY <1>6, <2>1, SaleKept DEF ResetCheapest
<1>7. CASE Mark(q)
  <2>1. \A x \in Plans : plan'[x].exists = plan[x].exists /\ plan'[x].active = plan[x].active
    <3>1. CASE Active = {}
      BY <1>7, <3>1, MarkJobs
    <3>2. CASE Active # {}
      <4>1. PICK p \in Plans : /\ plan'[p] = [plan[p] EXCEPT !.cheapest = TRUE]
                              /\ \A y \in Plans \ {p} : plan'[y] = plan[y]
        BY <1>7, <3>2, MarkJobs
      <4>2. plan'[p].exists = plan[p].exists /\ plan'[p].active = plan[p].active
        BY <1>0, <4>1 DEF PlanRow
      <4> QED BY <4>1, <4>2
    <3> QED BY <3>1, <3>2
  <2> QED BY <1>7, <2>1, SaleKept DEF Mark
<1> QED BY <1>1, <1>2, <1>3, <1>4, <1>5, <1>6, <1>7 DEF Rewrites

LEMMA NextSale ==
  ASSUME Jobs, FillerInv, OnSaleIsOffered, Next
  PROVE  OnSaleIsOffered'
<1>0. \A x \in Plans : plan[x] \in PlanRow
  BY DEF Jobs, Types
<1>1. CASE Enters
  BY <1>1, EnterSale DEF Enters
<1>2. ASSUME NEW q \in Procs,
             Fill(q) \/ CreatePlan(q) \/ SavePlan(q) \/ Rewrites(q) \/ Silent(q)
      PROVE  OnSaleIsOffered'
  <2>1. CASE Fill(q)
    <3>1. \A x \in Plans : plan'[x].exists = plan[x].exists /\ plan'[x].active = plan[x].active
      BY <1>0, <2>1, FillRows DEF PlanRow
    <3> QED BY <2>1, <3>1, FillRows, SaleKept
  <2>2. CASE CreatePlan(q)
    <3>1. offered' = offered \cup {Following(q)} /\ crossed' = crossed
      BY <2>2 DEF CreatePlan
    <3> QED BY <2>2, <3>1, CreatePlanJobs, SaleAdds
  <2>3. CASE SavePlan(q)
    <3>1. offered' = offered \cup {Following(q)} /\ crossed \subseteq crossed'
      BY <2>3 DEF SavePlan
    <3> QED BY <2>3, <3>1, SavePlanJobs, SaleAdds
  <2>4. CASE Rewrites(q)
    BY <2>4, RewritesSale
  <2>5. CASE Silent(q)
    BY <2>5, SilentIsQuiet, SilentHistory, SaleKept DEF Quiet
  <2> QED BY <1>2, <2>1, <2>2, <2>3, <2>4, <2>5
<1> QED BY <1>1, <1>2, StepOf

\* One job marks at a time, and finds no mark.
MarkInv ==
  crossed \cap {"mark", "row"} = {} =>
    \A q \in Procs : proc[q].at = "mark" =>
      /\ \A x \in Plans : plan[x].exists => ~plan[x].cheapest
      /\ \A o \in Procs : proc[o].at = "mark" => o = q

\* The rows have the marks they had, or lose them.
SameMarks == \A x \in Plans : plan'[x].exists /\ plan'[x].cheapest => plan[x].exists /\ plan[x].cheapest

LEMMA MarkKept ==
  ASSUME MarkInv, NEW q \in Procs, Moves(q), proc'[q].at # "mark", crossed \subseteq crossed',
         crossed' \cap {"mark", "row"} = {} => SameMarks
  PROVE  MarkInv'
<1> SUFFICES ASSUME crossed' \cap {"mark", "row"} = {}, NEW o \in Procs, proc'[o].at = "mark"
             PROVE  /\ \A x \in Plans : plan'[x].exists => ~plan'[x].cheapest
                    /\ \A i \in Procs : proc'[i].at = "mark" => i = o
  BY DEF MarkInv
<1>1. o # q /\ proc[o].at = "mark" /\ crossed \cap {"mark", "row"} = {}
  BY DEF Moves
<1>2. \A i \in Procs : proc'[i].at = "mark" => proc[i].at = "mark"
  BY DEF Moves
<1> QED BY <1>1, <1>2 DEF MarkInv, SameMarks

\* A row is written with the mark it was read with.
LEMMA WrittenMarks ==
  ASSUME Jobs, NEW q \in Procs, CreatePlan(q) \/ SavePlan(q) \/ SaveEdit(q)
  PROVE  /\ crossed \subseteq crossed' /\ dirty' /\ proc'[q].at # "mark"
         /\ crossed' \cap {"mark", "row"} = {} => SameMarks
<1>0. \A x \in Plans : plan[x] \in PlanRow
  BY DEF Jobs, Types
<1>1. CASE CreatePlan(q)
  <2>1. ~plan'[Following(q)].cheapest /\ crossed' = crossed /\ dirty'
    BY <1>1, CreatePlanJobs DEF Written, CreatePlan, At
  <2> QED BY <1>1, <2>1, CreatePlanJobs DEF Written, SameMarks
<1>2. CASE SavePlan(q)
  <2> DEFINE p == Following(q)
  <2>1. /\ dirty'
        /\ crossed' = IF plan[p].cheapest = proc[q].cheapest THEN crossed ELSE crossed \cup {"row"}
    BY <1>2 DEF SavePlan
  <2>2. Written(q, p) /\ proc[q].at = "save" /\ plan[p].exists
    BY <1>2, SavePlanJobs DEF SavePlan, At, Jobs, JobRests, Listing
  <2> HIDE DEF p
  <2>3. ASSUME crossed' \cap {"mark", "row"} = {} PROVE SameMarks
    <3>1. plan[p].cheapest = proc[q].cheapest
      BY <2>1, <2>3
    <3> QED BY <2>2, <3>1 DEF Written, SameMarks
  <2> QED BY <2>1, <2>2, <2>3 DEF Written
<1>3. CASE SaveEdit(q)
  <2>1. PICK e \in Edits : Saved(q, e)
    BY <1>3, SaveEditJobs
  <2>2. dirty' /\ proc'[q].at # "mark"
    BY <1>3, SaveEditJobs, IdleJob DEF SaveEdit
  <2>3. ASSUME crossed' \cap {"mark", "row"} = {} PROVE SameMarks
    <3>1. plan[Following(q)].cheapest = proc[q].cheapest
      BY <2>1, <2>3 DEF Saved
    <3> QED BY <2>1, <3>1 DEF Saved, SameMarks
  <2> QED BY <2>1, <2>2, <2>3 DEF Saved
<1> QED BY <1>1, <1>2, <1>3

MarksInv == MarkInv /\ OneCheapest

LEMMA MarksKept ==
  ASSUME MarksInv, NEW q \in Procs, Moves(q), proc'[q].at # "mark", crossed \subseteq crossed',
         dirty' = dirty,
         \A x \in Plans : /\ plan'[x].exists = plan[x].exists /\ plan'[x].active = plan[x].active
                          /\ plan'[x].cheapest = plan[x].cheapest /\ plan'[x].cost = plan[x].cost
  PROVE  MarksInv'
<1>1. MarkInv'
  BY MarkKept DEF MarksInv, SameMarks
<1>2. Active' = Active /\ Cheapest' = Cheapest
  BY DEF Active, Existing, Cheapest
<1>3. Candidates' = Candidates
  BY <1>2 DEF Candidates, Active, Existing
<1>4. OneCheapest'
  BY <1>2, <1>3 DEF MarksInv, OneCheapest
<1> QED BY <1>1, <1>4 DEF MarksInv

LEMMA DirtyMarks ==
  ASSUME MarksInv, NEW q \in Procs, Moves(q), proc'[q].at # "mark", crossed \subseteq crossed',
         dirty', crossed' \cap {"mark", "row"} = {} => SameMarks
  PROVE  MarksInv'
  BY MarkKept DEF MarksInv, OneCheapest

LEMMA EnterMarks ==
  ASSUME Jobs, MarksInv, NEW p \in Plans, NEW e \in Edits, Enter(p, e)
  PROVE  MarksInv'
<1>1. Entered(p, e) /\ proc' = proc /\ crossed' = crossed /\ dirty'
  BY EnterJobs DEF Enter
<1>2. \A x \in Plans : plan'[x].exists /\ plan'[x].cheapest => plan[x].exists /\ plan[x].cheapest
  BY <1>1 DEF Entered
<1>3. MarkInv'
  BY <1>1, <1>2 DEF MarksInv, MarkInv
<1> QED BY <1>1, <1>3 DEF MarksInv, OneCheapest

LEMMA ResetMarks ==
  ASSUME Jobs, MarksInv, NEW q \in Procs, ResetCheapest(q)
  PROVE  MarksInv'
<1>1. \A x \in Plans : ~plan'[x].cheapest
  BY ResetJobs DEF Jobs, Types, PlanRow
<1>2. dirty' /\ crossed' = IF Beside(q, {"mark"}) THEN crossed \cup {"mark"} ELSE crossed
  BY DEF ResetCheapest
<1>3. ASSUME crossed' \cap {"mark", "row"} = {}, NEW o \in Procs, proc'[o].at = "mark"
      PROVE  o = q
  <2>1. ~Beside(q, {"mark"})
    BY <1>2, <1>3
  <2> QED BY <1>3, <2>1, ResetJobs DEF Moves, Beside
<1>4. MarkInv'
  BY <1>1, <1>3 DEF MarkInv
<1> QED BY <1>2, <1>4 DEF MarksInv, OneCheapest

LEMMA MarkMarks ==
  ASSUME Jobs, MarksInv, NEW q \in Procs, Mark(q)
  PROVE  MarksInv'
<1>0. (\A x \in Plans : plan[x] \in PlanRow) /\ crossed' = crossed /\ ~dirty'
  BY DEF Jobs, Types, Mark
<1>1. proc[q].at = "mark" /\ proc'[q].at # "mark" /\ Moves(q)
  BY MarkJobs
<1> SUFFICES ASSUME crossed \cap {"mark", "row"} = {}
             PROVE  /\ \A o \in Procs : proc'[o].at # "mark"
                    /\ IF Active' = {} THEN Cheapest' = {} ELSE \E p \in Candidates' : Cheapest' = {p}
  BY <1>0 DEF MarksInv, MarkInv, OneCheapest
<1>2. /\ \A x \in Plans : plan[x].exists => ~plan[x].cheapest
      /\ \A o \in Procs : proc[o].at = "mark" => o = q
  BY <1>1 DEF MarksInv, MarkInv
<1>3. \A o \in Procs : proc'[o].at # "mark"
  BY <1>1, <1>2 DEF Moves
<1>4. CASE Active = {}
  <2>1. plan' = plan
    BY <1>4, MarkJobs
  <2>2. Active' = {} /\ Cheapest' = {}
    BY <1>2, <1>4, <2>1 DEF Active, Cheapest, Existing
  <2> QED BY <1>3, <2>2
<1>5. CASE Active # {}
  <2>1. PICK p \in Candidates : /\ p \in Plans /\ plan'[p] = [plan[p] EXCEPT !.cheapest = TRUE]
                                /\ \A y \in Plans \ {p} : plan'[y] = plan[y]
    BY <1>5, MarkJobs
  <2>2. /\ plan'[p].exists = plan[p].exists /\ plan'[p].active = plan[p].active
        /\ plan'[p].cost = plan[p].cost /\ plan'[p].cheapest
    BY <1>0, <2>1 DEF PlanRow
  <2>3. Active' = Active
    BY <2>1, <2>2 DEF Active, Existing
  <2>4. \A x \in Plans : plan'[x].cost = plan[x].cost
    BY <2>1, <2>2
  <2>5. Candidates' = Candidates
    BY <2>3, <2>4 DEF Candidates, Active, Existing
  <2>6. p \in Existing
    BY DEF Candidates, Active
  <2>7. Cheapest' = {p}
    BY <1>2, <2>1, <2>2, <2>6 DEF Cheapest, Existing
  <2> QED BY <1>3, <1>5, <2>3, <2>5, <2>7
<1> QED BY <1>4, <1>5

LEMMA NextMarks ==
  ASSUME Jobs, MarksInv, Next
  PROVE  MarksInv'
<1>0. \A x \in Plans : plan[x] \in PlanRow
  BY DEF Jobs, Types
<1>1. CASE Enters
  BY <1>1, EnterMarks DEF Enters
<1>2. ASSUME NEW q \in Procs,
             Fill(q) \/ CreatePlan(q) \/ SavePlan(q) \/ Rewrites(q) \/ Silent(q)
      PROVE  MarksInv'
  <2>1. CASE Fill(q)
    <3>1. \A x \in Plans : /\ plan'[x].exists = plan[x].exists /\ plan'[x].active = plan[x].active
                           /\ plan'[x].cheapest = plan[x].cheapest /\ plan'[x].cost = plan[x].cost
      BY <1>0, <2>1, FillRows DEF PlanRow
    <3> QED BY <2>1, <3>1, FillJobs, FillRows, MarksKept DEF Filler, Listing
  <2>2. CASE CreatePlan(q) \/ SavePlan(q)
    BY <2>2, WrittenMarks, DirtyMarks, CreatePlanJobs, SavePlanJobs
  <2>3. CASE SaveEdit(q)
    BY <2>3, WrittenMarks, DirtyMarks, SaveEditJobs
  <2>4. CASE AllOff(q)
    <3>1. SameMarks
      BY <1>0, <2>4, AllOffJobs DEF PlanRow, SameMarks
    <3>2. dirty' /\ crossed' = crossed
      BY <2>4 DEF AllOff
    <3> QED BY <2>4, <3>1, <3>2, AllOffJobs, DirtyMarks
  <2>5. CASE Deactivate(q)
    <3>1. SameMarks
      BY <2>5, DeactivateRows DEF SameMarks
    <3>2. dirty' /\ crossed' = crossed
      BY <2>5 DEF Deactivate
    <3> QED BY <2>5, <3>1, <3>2, DeactivateJobs, DirtyMarks
  <2>6. CASE Recalculate(q)
    <3>1. \A x \in Plans : /\ plan'[x].exists = plan[x].exists /\ plan'[x].active = plan[x].active
                           /\ plan'[x].cheapest = plan[x].cheapest /\ plan'[x].cost = plan[x].cost
      BY <1>0, <2>6, RecalculateJobs DEF PlanRow
    <3> QED BY <2>6, <3>1, RecalculateJobs, MarksKept DEF Recalculate
  <2>7. CASE UpdateVnd(q)
    <3>1. \A x \in Plans : /\ plan'[x].exists = plan[x].exists /\ plan'[x].active = plan[x].active
                           /\ plan'[x].cheapest = plan[x].cheapest /\ plan'[x].cost = plan[x].cost
      BY <1>0, <2>7, UpdateVndJobs DEF PlanRow
    <3> QED BY <2>7, <3>1, UpdateVndJobs, MarksKept DEF UpdateVnd
  <2>8. CASE ResetCheapest(q) \/ Mark(q)
    BY <2>8, ResetMarks, MarkMarks
  <2>9. CASE Silent(q)
    <3>1. proc'[q].at # "mark"
      BY <2>9, SilentIsQuiet, IdleJob DEF Quiet
    <3> QED BY <2>9, <3>1, SilentIsQuiet, SilentHistory, MarksKept DEF Quiet
  <2> QED BY <1>2, <2>1, <2>2, <2>3, <2>4, <2>5, <2>6, <2>7, <2>8, <2>9 DEF Rewrites
<1> QED BY <1>1, <1>2, StepOf
-----------------------------------------------------------------------------
(* What the buyers pay.                                                     *)

Covered(x) == plan[x].price >= plan[x].cost

\* A plan that is worth something, whose prices were made, and that has no VND price yet.
Free(x) ==
  plan[x].exists /\ x \notin own \cup Unpriced /\ Worth(plan[x].cost) /\ plan[x].vnd = 0

BuyerInv ==
  /\ \A x \in Plans : Covered(x) \/ (x \in own /\ plan[x].exists)
  /\ faults = 0 /\ source # "gadget" /\ raw # {} => \E q \in Procs : Making(q)
  /\ faults = 0 /\ (\E x \in Plans : Free(x)) => \E q \in Procs : Due(q)
  /\ faults = 0 /\ ~beside /\ source # "gadget" => atCost = {}

\* Prices that are due stay so.
LEMMA DueStays ==
  ASSUME NEW q \in Procs, Moves(q), source' = source, Making(q) => Making(q)', Due(q) => Due(q)'
  PROVE  /\ (\E o \in Procs : Making(o)) => \E o \in Procs : Making(o)'
         /\ (\E o \in Procs : Due(o)) => \E o \in Procs : Due(o)'
<1>1. \A o \in Procs \ {q} : (Making(o) => Making(o)') /\ (Due(o) => Due(o)')
  BY DEF Moves, Making, Due, Unmade
<1> QED BY <1>1

LEMMA BuyersKept ==
  ASSUME Jobs, BuyerInv, NEW q \in Procs, Moves(q), Making(q) => Making(q)', Due(q) => Due(q)',
         source' = source, faults' = faults, raw' = raw, own' = own, atCost' = atCost, beside' = beside,
         \A x \in Plans : /\ plan'[x].exists = plan[x].exists /\ plan'[x].cost = plan[x].cost
                          /\ plan'[x].price = plan[x].price /\ plan'[x].vnd = plan[x].vnd
  PROVE  BuyerInv'
<1>1. \A x \in Plans : Covered(x)' \/ (x \in own /\ plan'[x].exists)
  BY DEF BuyerInv, Covered
<1>2. faults' = 0 /\ source' # "gadget" /\ raw' # {} => \E o \in Procs : Making(o)'
  BY DueStays DEF BuyerInv
<1>3. \A x \in Plans : Free(x)' => Free(x)
  BY DEF Free, Worth, Unpriced
<1>4. faults' = 0 /\ (\E x \in Plans : Free(x)') => \E o \in Procs : Due(o)'
  BY <1>3, DueStays DEF BuyerInv
<1> QED BY <1>1, <1>2, <1>4 DEF BuyerInv

LEMMA WrittenBuyers ==
  ASSUME Jobs, BuyerInv, NEW q \in Procs, NEW p, Written(q, p), Moves(q), source' = source,
         raw' = raw \cup {p}, own' = own, atCost' = atCost, beside' = beside, faults' = faults
  PROVE  BuyerInv'
<1>1. plan'[p].price >= plan'[p].cost
  BY PricesAssumption DEF Written
<1>2. ASSUME NEW x \in Plans PROVE Covered(x)' \/ (x \in own' /\ plan'[x].exists)
  <2>1. CASE x # p
    BY <2>1 DEF Written, Covered, BuyerInv
  <2>2. CASE x = p
    <3>1. plan'[x].price >= plan'[x].cost
      BY <1>1, <2>2
    <3> QED BY <3>1 DEF Covered
  <2> QED BY <2>1, <2>2
<1>3. source # "gadget" => Making(q)' /\ Due(q)'
  BY DEF Written, Making, Due, Unmade, Filler, Listing
<1>4. CASE source # "gadget"
  <2>1. source' # "gadget" /\ (\E o \in Procs : Making(o)') /\ (\E o \in Procs : Due(o)')
    BY <1>3, <1>4
  <2>2. faults' = 0 /\ ~beside' => atCost' = {}
    BY <1>4 DEF BuyerInv
  <2> QED BY <1>2, <2>1, <2>2 DEF BuyerInv
<1>5. CASE source = "gadget"
  <2>1. ASSUME NEW x \in Plans, Free(x)' PROVE Free(x)
    <3>1. x # p
      BY <1>5, <2>1 DEF Free, Unpriced
    <3> QED BY <1>5, <2>1, <3>1 DEF Free, Unpriced, Written, Worth
  <2>2. \A o \in Procs : Due(o) => Due(o)'
    <3>1. ~Due(q)
      BY <1>5 DEF Written, Due, Making, Filler, Listing
    <3> QED BY <3>1 DEF Moves, Due, Making, Unmade
  <2>3. faults' = 0 /\ (\E x \in Plans : Free(x)') => \E o \in Procs : Due(o)'
    BY <2>1, <2>2 DEF BuyerInv
  <2>4. source' = "gadget"
    BY <1>5
  <2> QED BY <1>2, <2>3, <2>4 DEF BuyerInv
<1> QED BY <1>4, <1>5

\* What an admin enters is the admin's.
LEMMA EnterBuyers ==
  ASSUME Jobs, BuyerInv, NEW p \in Plans, NEW e \in Edits, Enter(p, e)
  PROVE  BuyerInv'
<1>1. /\ Entered(p, e) /\ proc' = proc /\ source' = source /\ own' = own \cup {p}
      /\ UNCHANGED <<faults, raw, atCost, beside>>
  BY EnterJobs DEF Enter
<1>2. \A x \in Plans : Covered(x)' \/ (x \in own' /\ plan'[x].exists)
  BY <1>1 DEF Entered, Covered, BuyerInv
<1>3. \A o \in Procs : (Making(o)' <=> Making(o)) /\ (Due(o)' <=> Due(o))
  BY <1>1 DEF Making, Due, Unmade
<1>4. ASSUME NEW x \in Plans, Free(x)' PROVE Free(x)
  <2>1. x # p
    BY <1>1, <1>4 DEF Free
  <2> QED BY <1>1, <1>4, <2>1 DEF Free, Unpriced, Entered, Worth
<1> QED BY <1>1, <1>2, <1>3, <1>4 DEF BuyerInv

LEMMA EditBuyers ==
  ASSUME Jobs, BuyerInv, NEW q \in Procs, SaveEdit(q)
  PROVE  BuyerInv'
<1>1. PICK e \in Edits : Saved(q, e)
  BY SaveEditJobs
<1>2. /\ Moves(q) /\ proc[q].at = "edit" /\ proc'[q] = Idle /\ UNCHANGED <<source, beside, faults>>
  BY SaveEditJobs DEF SaveEdit, Step
<1> DEFINE p == Following(q)
<1>3. /\ p \in Plans /\ plan'[p].exists /\ plan[p].exists
      /\ raw' \subseteq raw /\ atCost' \subseteq atCost /\ own \subseteq own' /\ own' \subseteq own \cup {p}
      /\ \A x \in Plans \ {p} : plan'[x] = plan[x]
      /\ raw \ {p} \subseteq raw'
  BY <1>1 DEF Saved
<1>4. ASSUME p \notin own'
      PROVE  /\ plan'[p].cost = plan[p].cost /\ plan'[p].price = plan[p].price
             /\ plan'[p].vnd = plan[p].vnd /\ raw' = raw
  <2>1. {e.cost, e.price, e.vnd} = {Keep}
    BY <1>1, <1>4 DEF Saved
  <2>2. e.cost = Keep /\ e.price = Keep /\ e.vnd = Keep
    BY <2>1
  <2> QED BY <1>1, <2>2 DEF Saved, Given
<1> HIDE DEF p
<1>5. \A x \in Plans : Covered(x)' \/ (x \in own' /\ plan'[x].exists)
  BY <1>3, <1>4 DEF Covered, BuyerInv
<1>6. ~Making(q) /\ ~Due(q)
  BY <1>2 DEF Making, Due, Unmade, Listing
<1>7. /\ (\E o \in Procs : Making(o)) => \E o \in Procs : Making(o)'
      /\ (\E o \in Procs : Due(o)) => \E o \in Procs : Due(o)'
  BY <1>2, <1>6, DueStays
<1>8. ASSUME NEW x \in Plans, Free(x)' PROVE Free(x)
  <2>1. CASE x # p
    BY <1>2, <1>3, <1>8, <2>1 DEF Free, Unpriced, Worth
  <2>2. CASE x = p
    <3>1. x \notin own' /\ plan'[x].cost = plan[x].cost /\ plan'[x].vnd = plan[x].vnd /\ raw' = raw
      BY <1>4, <1>8, <2>2 DEF Free
    <3> QED BY <1>2, <1>3, <1>8, <2>2, <3>1 DEF Free, Unpriced, Worth
  <2> QED BY <2>1, <2>2
<1>9. faults' = 0 /\ (\E x \in Plans : Free(x)') => \E o \in Procs : Due(o)'
  BY <1>2, <1>7, <1>8 DEF BuyerInv
<1> QED BY <1>2, <1>3, <1>5, <1>7, <1>9 DEF BuyerInv

LEMMA RecalculateBuyers ==
  ASSUME Jobs, BuyerInv, NEW q \in Procs, Recalculate(q)
  PROVE  BuyerInv'
<1> DEFINE r == proc[q].rate
           ts == proc[q].tiers
<1>0. \A x \in Plans : plan[x] \in PlanRow
  BY DEF Jobs, Types
<1>1. /\ Moves(q) /\ proc[q].at = "price" /\ proc'[q].at = "vnd"
      /\ ts \subseteq TierRows /\ r \in AllRates
      /\ \A x \in Plans : plan'[x] =
           IF plan[x].exists THEN [plan[x] EXCEPT !.price = PriceOf(plan[x].cost, ts, r)] ELSE plan[x]
  BY RecalculateJobs
<1>2. raw' = {} /\ own' = {} /\ atCost' = atCost /\ beside' = beside /\ UNCHANGED <<source, faults>>
  BY DEF Recalculate, Step
<1> HIDE DEF r, ts
<1>3. ASSUME NEW x \in Plans PROVE plan'[x].price >= plan'[x].cost
  <2>1. plan[x] \in PlanRow /\ plan[x].cost \in Nat /\ (Covered(x) \/ plan[x].exists)
    BY <1>0 DEF PlanRow, BuyerInv
  <2>2. PriceOf(plan[x].cost, ts, r) >= plan[x].cost
    BY <1>1, <2>1, PriceCovers
  <2>3. CASE plan[x].exists
    <3>1. plan'[x] = [plan[x] EXCEPT !.price = PriceOf(plan[x].cost, ts, r)]
      BY <1>1, <2>3
    <3>2. plan'[x].cost = plan[x].cost /\ plan'[x].price = PriceOf(plan[x].cost, ts, r)
      BY <2>1, <3>1 DEF PlanRow
    <3> QED BY <2>2, <3>2
  <2>4. CASE ~plan[x].exists
    <3>1. plan'[x] = plan[x]
      BY <1>1, <2>4
    <3> QED BY <2>1, <2>4, <3>1 DEF Covered
  <2> QED BY <2>3, <2>4
<1>4. Due(q)'
  BY <1>1 DEF Due
<1>5. faults' = 0 /\ ~beside' /\ source' # "gadget" => atCost' = {}
  BY <1>2 DEF BuyerInv
<1>6. \A x \in Plans : Covered(x)' \/ (x \in own' /\ plan'[x].exists)
  BY <1>3 DEF Covered
<1>7. raw' = {} /\ \E o \in Procs : Due(o)'
  BY <1>2, <1>4
<1> QED BY <1>5, <1>6, <1>7 DEF BuyerInv

LEMMA UpdateVndBuyers ==
  ASSUME Jobs, BuyerInv, NEW q \in Procs, UpdateVnd(q)
  PROVE  BuyerInv'
<1> DEFINE r == proc[q].rate
<1>0. \A x \in Plans : plan[x] \in PlanRow
  BY DEF Jobs, Types
<1>1. /\ Moves(q) /\ proc[q].at = "vnd" /\ r \in AllRates
      /\ \A x \in Plans : plan'[x] =
           IF plan[x].exists THEN [plan[x] EXCEPT !.vnd = VndOf(plan[x].price, r)] ELSE plan[x]
  BY UpdateVndJobs
<1>2. /\ raw' = raw /\ own' = own /\ atCost' = raw
      /\ beside' = (beside \/ \E o \in Procs \ {q} : Unmade(o))
      /\ UNCHANGED <<source, faults>>
  BY DEF UpdateVnd, Step
<1> HIDE DEF r
<1>3. ASSUME NEW x \in Plans
      PROVE  (Covered(x)' \/ (x \in own' /\ plan'[x].exists)) /\ ~Free(x)'
  <2>1. /\ plan[x] \in PlanRow /\ plan[x].cost \in Nat /\ plan[x].price \in Nat
        /\ Covered(x) \/ (x \in own /\ plan[x].exists)
    BY <1>0 DEF PlanRow, BuyerInv
  <2>2. CASE plan[x].exists
    <3>1. plan'[x] = [plan[x] EXCEPT !.vnd = VndOf(plan[x].price, r)]
      BY <1>1, <2>2
    <3>2. /\ plan'[x].cost = plan[x].cost /\ plan'[x].price = plan[x].price
          /\ plan'[x].vnd = VndOf(plan[x].price, r) /\ plan'[x].exists
      BY <2>1, <2>2, <3>1 DEF PlanRow
    <3>3. CASE x \in own
      BY <1>2, <3>2, <3>3 DEF Free
    <3>4. CASE Covered(x)
      <4>1. Worth(plan[x].cost) => VndOf(plan[x].price, r) > 0
        BY <1>1, <2>1, <3>4, VndIsPositive DEF Covered
      <4>2. Worth(plan'[x].cost) => plan'[x].vnd # 0
        BY <3>2, <4>1
      <4> QED BY <3>2, <3>4, <4>2 DEF Covered, Free, Worth
    <3> QED BY <2>1, <3>3, <3>4
  <2>3. CASE ~plan[x].exists
    <3>1. plan'[x] = plan[x]
      BY <1>1, <2>3
    <3> QED BY <2>1, <2>3, <3>1 DEF Covered, Free
  <2> QED BY <2>2, <2>3
<1>4. ASSUME faults = 0, source # "gadget", raw # {}
      PROVE  (\E o \in Procs : Making(o)') /\ beside'
  <2>1. PICK o \in Procs : Making(o)
    BY <1>4 DEF BuyerInv
  <2>2. o # q /\ Unmade(o)
    BY <1>1, <2>1 DEF Making, Unmade, Listing
  <2>3. Making(o)'
    BY <1>1, <1>2, <2>1, <2>2 DEF Making, Unmade, Moves
  <2> QED BY <1>2, <2>2, <2>3
<1> QED BY <1>2, <1>3, <1>4 DEF BuyerInv

LEMMA NextBuyers ==
  ASSUME Jobs, BuyerInv, Next
  PROVE  BuyerInv'
<1>0. \A x \in Plans : plan[x] \in PlanRow
  BY DEF Jobs, Types
<1>1. CASE Enters
  BY <1>1, EnterBuyers DEF Enters
<1>2. ASSUME NEW q \in Procs,
             Fill(q) \/ CreatePlan(q) \/ SavePlan(q) \/ Rewrites(q) \/ Silent(q)
      PROVE  BuyerInv'
  <2>1. CASE Fill(q)
    <3>1. \A x \in Plans : /\ plan'[x].exists = plan[x].exists /\ plan'[x].cost = plan[x].cost
                           /\ plan'[x].price = plan[x].price /\ plan'[x].vnd = plan[x].vnd
      BY <1>0, <2>1, FillRows DEF PlanRow
    <3>2. UNCHANGED <<source, raw, own, atCost, beside, faults>>
      BY <2>1, FillRows
    <3>3. Moves(q) /\ (Making(q) => Making(q)') /\ (Due(q) => Due(q)')
      BY <2>1, FillJobs, FillRows DEF Making, Due, Unmade, Filler, Listing, Grows
    <3> QED BY <3>1, <3>2, <3>3, BuyersKept
  <2>2. CASE CreatePlan(q)
    <3>1. UNCHANGED <<source, own, atCost, beside, faults>> /\ raw' = raw \cup {Following(q)}
      BY <2>2 DEF CreatePlan, Step
    <3> QED BY <2>2, <3>1, CreatePlanJobs, WrittenBuyers
  <2>3. CASE SavePlan(q)
    <3>1. UNCHANGED <<source, own, atCost, beside, faults>> /\ raw' = raw \cup {Following(q)}
      BY <2>3 DEF SavePlan, Step
    <3> QED BY <2>3, <3>1, SavePlanJobs, WrittenBuyers
  <2>4. CASE AllOff(q)
    <3>1. \A x \in Plans : /\ plan'[x].exists = plan[x].exists /\ plan'[x].cost = plan[x].cost
                           /\ plan'[x].price = plan[x].price /\ plan'[x].vnd = plan[x].vnd
      BY <1>0, <2>4, AllOffJobs DEF PlanRow
    <3>2. UNCHANGED <<source, raw, own, atCost, beside, faults>>
      BY <2>4 DEF AllOff, Step
    <3>3. Moves(q) /\ (Making(q) => Making(q)') /\ (Due(q) => Due(q)')
      BY <2>4, AllOffJobs DEF Making, Due, Unmade, Filler, Listing, Grows
    <3> QED BY <3>1, <3>2, <3>3, BuyersKept
  <2>5. CASE Deactivate(q)
    <3>1. \A x \in Plans : /\ plan'[x].exists = plan[x].exists /\ plan'[x].cost = plan[x].cost
                           /\ plan'[x].price = plan[x].price /\ plan'[x].vnd = plan[x].vnd
      BY <2>5, DeactivateRows
    <3>2. UNCHANGED <<source, raw, own, atCost, beside, faults>>
      BY <2>5 DEF Deactivate, Step
    <3>3. Moves(q) /\ (Making(q) => Making(q)') /\ (Due(q) => Due(q)')
      BY <2>5, DeactivateJobs DEF Making, Due, Unmade, Filler, Listing, Grows
    <3> QED BY <3>1, <3>2, <3>3, BuyersKept
  <2>6. CASE SaveEdit(q)
    BY <2>6, EditBuyers
  <2>7. CASE Recalculate(q) \/ UpdateVnd(q)
    BY <2>7, RecalculateBuyers, UpdateVndBuyers
  <2>8. CASE ResetCheapest(q)
    <3>1. \A x \in Plans : /\ plan'[x].exists = plan[x].exists /\ plan'[x].cost = plan[x].cost
                           /\ plan'[x].price = plan[x].price /\ plan'[x].vnd = plan[x].vnd
      BY <1>0, <2>8, ResetJobs DEF PlanRow
    <3>2. UNCHANGED <<source, raw, own, atCost, beside, faults>>
      BY <2>8 DEF ResetCheapest, Step
    <3>3. Moves(q) /\ ~Making(q) /\ ~Due(q)
      BY <2>8, ResetJobs DEF Making, Due, Unmade, Filler, Listing, Grows
    <3> QED BY <3>1, <3>2, <3>3, BuyersKept
  <2>9. CASE Mark(q)
    <3>1. ASSUME NEW x \in Plans
          PROVE  /\ plan'[x].exists = plan[x].exists /\ plan'[x].cost = plan[x].cost
                 /\ plan'[x].price = plan[x].price /\ plan'[x].vnd = plan[x].vnd
      <4>1. CASE Active = {}
        BY <2>9, <4>1, MarkJobs
      <4>2. CASE Active # {}
        <5>1. PICK p \in Plans : /\ plan'[p] = [plan[p] EXCEPT !.cheapest = TRUE]
                                /\ \A y \in Plans \ {p} : plan'[y] = plan[y]
          BY <2>9, <4>2, MarkJobs
        <5>2. x = p => /\ plan'[x].exists = plan[x].exists /\ plan'[x].cost = plan[x].cost
                       /\ plan'[x].price = plan[x].price /\ plan'[x].vnd = plan[x].vnd
          BY <1>0, <5>1 DEF PlanRow
        <5> QED BY <5>1, <5>2
      <4> QED BY <4>1, <4>2
    <3>2. UNCHANGED <<source, raw, own, atCost, beside, faults>>
      BY <2>9 DEF Mark, Step
    <3>3. Moves(q) /\ ~Making(q) /\ ~Due(q)
      BY <2>9, MarkJobs DEF Making, Due, Unmade, Filler, Listing, Grows
    <3> QED BY <3>1, <3>2, <3>3, BuyersKept
  <2>10. CASE Silent(q)
    <3>1. Quiet(q) /\ Moves(q) /\ UNCHANGED <<source, raw, own, atCost, beside>> /\ Jobs'
      BY <2>10, SilentIsQuiet, SilentHistory DEF Grows
    <3>2. CASE faults' = faults /\ (Making(q) => Making(q)') /\ (Due(q) => Due(q)')
      BY <3>1, <3>2, BuyersKept DEF Quiet
    <3>3. CASE faults' > 0
      <4>1. faults' # 0 /\ plan' = plan
        BY <3>1, <3>3 DEF Quiet, Jobs, Types
      <4>2. \A x \in Plans : Covered(x)' \/ (x \in own' /\ plan'[x].exists)
        BY <3>1, <4>1 DEF BuyerInv, Covered
      <4> QED BY <4>1, <4>2 DEF BuyerInv
    <3> QED BY <3>1, <3>2, <3>3 DEF Quiet
  <2> QED BY <1>2, <2>1, <2>2, <2>3, <2>4, <2>5, <2>6, <2>7, <2>8, <2>9, <2>10 DEF Rewrites
<1> QED BY <1>1, <1>2, StepOf
-----------------------------------------------------------------------------
(* The margins.                                                             *)

\* A job that is going to write a tier has found room for it.
Checked(q) ==
  proc[q].at = "tier" =>
    \E x \in TierRows : proc[q].tiers = {x} /\ NoOverlap(x, {u \in tiers : u.id # x.id})

TierInv ==
  "tier" \notin crossed =>
    /\ \A t, u \in tiers : t # u => ~Overlap(t, u)
    /\ \A q \in Procs : Checked(q)

\* The amounts that are charged as they were entered.
Whole(x, r) == /\ r.whole /\ Fitting(plan[x].cost, tiers, r) # {}
               /\ TierOf(plan[x].cost, tiers, r).fixed > 0

Priced(x) ==
  \E r \in AllRates : /\ plan[x].price = PriceOf(plan[x].cost, tiers, r)
                      /\ x \notin cut => ~Whole(x, r)

PriceInv == ~behind => \A x \in Plans \ (raw \cup own) : plan[x].exists => Priced(x)

LEMMA TiersKept ==
  ASSUME TierInv, NEW q \in Procs, Moves(q), proc'[q].at # "tier", tiers' \subseteq tiers,
         crossed \subseteq crossed'
  PROVE  TierInv'
<1> SUFFICES ASSUME "tier" \notin crossed'
             PROVE  /\ \A t, u \in tiers' : t # u => ~Overlap(t, u)
                    /\ \A o \in Procs : Checked(o)'
  BY DEF TierInv, Overlap
<1>1. "tier" \notin crossed
  OBVIOUS
<1>2. ASSUME NEW o \in Procs PROVE Checked(o)'
  <2> SUFFICES ASSUME proc'[o].at = "tier"
               PROVE  \E x \in TierRows :
                        proc'[o].tiers = {x} /\ NoOverlap(x, {u \in tiers' : u.id # x.id})
    BY DEF Checked, NoOverlap, Overlap
  <2>1. proc'[o] = proc[o]
    BY DEF Moves
  <2>2. PICK x \in TierRows : proc[o].tiers = {x} /\ NoOverlap(x, {u \in tiers : u.id # x.id})
    BY <1>1, <2>1 DEF TierInv, Checked
  <2>3. NoOverlap(x, {u \in tiers' : u.id # x.id})
    BY <2>2 DEF NoOverlap
  <2> QED BY <2>1, <2>2, <2>3
<1>3. \A t, u \in tiers' : t # u => ~Overlap(t, u)
  BY <1>1 DEF TierInv
<1> QED BY <1>2, <1>3

\* An entered tier is a row that overlaps no other.
LEMMA EnteredTiers ==
  ASSUME Jobs, TierInv, NEW q \in Procs, \E t \in Ranges : CreateTier(q, t) \/ UpdateTier(q, t)
  PROVE  TierInv'
<1> SUFFICES ASSUME "tier" \notin crossed
             PROVE  /\ \A t, u \in tiers : t # u => ~Overlap(t, u)
                    /\ \A o \in Procs : Checked(o)'
  <2>1. tiers' = tiers /\ crossed' = crossed
    BY DEF CreateTier, UpdateTier, history
  <2> QED BY <2>1 DEF TierInv, Overlap
<1>0. PICK t \in Ranges : CreateTier(q, t) \/ UpdateTier(q, t)
  OBVIOUS
<1>1. tiers' = tiers
  BY <1>0 DEF CreateTier, UpdateTier
<1>2. PICK x \in TierRows, k \in {"tier", "update"} :
        /\ proc' = [proc EXCEPT ![q] = [Idle EXCEPT !.at = "tier", !.op = k, !.tiers = {x}]]
        /\ NoOverlap(x, {u \in tiers : u.id # x.id})
  <2>1. CASE CreateTier(q, t)
    <3> DEFINE x == Row(t, ops + 1)
    <3>1. x \in TierRows /\ x.min = t.min /\ x.max = t.max
      <4>1. ops + 1 \in Nat
        BY DEF Jobs, Types
      <4> QED BY <4>1 DEF TierRows, Row
    <3>2. /\ NoOverlap(t, tiers)
          /\ proc' = [proc EXCEPT ![q] = [Idle EXCEPT !.at = "tier", !.op = "tier", !.tiers = {x}]]
      BY <2>1 DEF CreateTier, Begin
    <3> HIDE DEF x
    <3>3. NoOverlap(x, {u \in tiers : u.id # x.id})
      BY <3>1, <3>2 DEF NoOverlap, Overlap
    <3> QED BY <3>1, <3>2, <3>3
  <2>2. CASE UpdateTier(q, t)
    <3>1. PICK u \in tiers, f \in {t.fixed, 0} :
            /\ NoOverlap(t, tiers \ {u})
            /\ proc' = [proc EXCEPT ![q] =
                 [Idle EXCEPT !.at = "tier", !.op = "update",
                              !.tiers = {Row([t EXCEPT !.fixed = f], u.id)}]]
      BY <2>2 DEF UpdateTier, Begin
    <3> DEFINE x == Row([t EXCEPT !.fixed = f], u.id)
    <3>2. u.id \in Nat
      BY TierType DEF Jobs, Types
    <3>3. t \in [min : Nat, max : Nat, percentage : Nat, fixed : Nat]
      BY PricesAssumption
    <3>4. x \in TierRows
      BY <3>2, RowIsTier
    <3>5. x.min = t.min /\ x.max = t.max /\ x.id = u.id
      BY <3>3 DEF Row
    <3> HIDE DEF x
    <3>6. NoOverlap(x, {v \in tiers : v.id # x.id})
      <4>1. \A v \in tiers : v.id # x.id => v \in tiers \ {u}
        BY <3>5
      <4> QED BY <3>1, <3>5, <4>1 DEF NoOverlap, Overlap
    <3> QED BY <3>1, <3>4, <3>6 DEF x
  <2> QED BY <1>0, <2>1, <2>2
<1>3. proc'[q].tiers = {x}
  <2> DEFINE j == [Idle EXCEPT !.at = "tier", !.op = k, !.tiers = {x}]
  <2>1. proc'[q] = j
    BY <1>2 DEF Jobs, Types
  <2>2. j.tiers = {x}
    BY DEF Idle
  <2> QED BY <2>1, <2>2
<1>4. Checked(q)'
  BY <1>1, <1>2, <1>3 DEF Checked
<1>5. ASSUME NEW o \in Procs \ {q} PROVE Checked(o)'
  <2>1. proc'[o] = proc[o]
    BY <1>2 DEF Jobs, Types
  <2> QED BY <1>1, <2>1 DEF Checked, TierInv
<1> QED BY <1>4, <1>5 DEF TierInv

LEMMA SaveTierTiers ==
  ASSUME Jobs, TierInv, NEW q \in Procs, SaveTier(q)
  PROVE  TierInv'
<1> SUFFICES ASSUME "tier" \notin crossed'
             PROVE  /\ \A t, u \in tiers' : t # u => ~Overlap(t, u)
                    /\ \A o \in Procs : Checked(o)'
  BY DEF TierInv, Overlap
<1>1. /\ proc[q].at = "tier" /\ ~Beside(q, {"tier"}) /\ "tier" \notin crossed
      /\ proc' = [proc EXCEPT ![q] = [Idle EXCEPT !.at = "tiers", !.op = "tier"]]
  BY DEF SaveTier, At
<1>2. PICK x \in TierRows : proc[q].tiers = {x} /\ NoOverlap(x, {u \in tiers : u.id # x.id})
  BY <1>1 DEF TierInv, Checked
<1>3. tiers \subseteq TierRows /\ \A t, u \in tiers : t # u => ~Overlap(t, u)
  BY <1>1 DEF TierInv, Jobs, Types
<1>4. \A t, u \in tiers' : t # u => ~Overlap(t, u)
  <2>1. CASE tiers' = tiers
    BY <1>3, <2>1
  <2>2. CASE tiers' = {t \in tiers : ~SameRow(t, q)} \cup proc[q].tiers
    <3>1. tiers' = {t \in tiers : t.id # x.id} \cup {x}
      BY <1>2, <2>2 DEF SameRow
    <3>2. ASSUME NEW u \in tiers, u.id # x.id
          PROVE  ~Overlap(x, u) /\ ~Overlap(u, x)
      BY <1>2, <3>2 DEF NoOverlap, Overlap
    <3> QED BY <1>3, <3>1, <3>2
  <2> QED BY <2>1, <2>2 DEF SaveTier
<1>5. ASSUME NEW o \in Procs PROVE proc'[o].at # "tier"
  <2> DEFINE j == [Idle EXCEPT !.at = "tiers", !.op = "tier"]
  <2>1. o = q => proc'[o] = j
    BY <1>1 DEF Jobs, Types
  <2>2. j.at = "tiers"
    BY DEF Idle
  <2>3. o # q => proc'[o] = proc[o] /\ proc[o].at # "tier"
    BY <1>1 DEF Beside, Jobs, Types
  <2> QED BY <2>1, <2>2, <2>3
<1> QED BY <1>4, <1>5 DEF Checked

\* The jobs that stand at no tier afterwards.
LEMMA SilentPlaces ==
  ASSUME Jobs, NEW q \in Procs,
         \/ ReadPlan(q) \/ UpsertFails(q) \/ Filled(q) \/ ReadTiers(q) \/ Hourly(q) \/ MarkCron(q)
         \/ (\E p \in Plans : Edit(q, p)) \/ (\E t \in tiers : RemoveTier(q, t))
         \/ UpdateTierFails(q) \/ Die(q)
  PROVE  proc'[q].at # "tier"
<1>0. proc[q] \in Job /\ proc \in [Procs -> Job]
  BY DEF Jobs, Types
<1>1. CASE ReadPlan(q)
  BY <1>0, <1>1 DEF ReadPlan, Job
<1>10. CASE ReadTiers(q)
  <2>1. PICK r \in AllRates :
          proc' = [proc EXCEPT ![q] = [Idle EXCEPT !.at = "price", !.op = proc[q].op,
                                                   !.tiers = tiers, !.rate = r]]
    BY <1>10 DEF ReadTiers, AllRates
  <2> DEFINE j == [Idle EXCEPT !.at = "price", !.op = proc[q].op, !.tiers = tiers, !.rate = r]
  <2>2. j.at = "price"
    BY DEF Idle
  <2>3. proc' = [proc EXCEPT ![q] = j]
    BY <2>1
  <2> HIDE DEF j
  <2> QED BY <1>0, <2>2, <2>3
<1>2. CASE UpsertFails(q)
  <2>1. proc[q].at = "upsert" /\ proc' = [proc EXCEPT ![q].at = IF source = "sync" THEN "tiers" ELSE @,
                          ![q].todo = @ \ {Following(q)}]
    BY <1>2 DEF UpsertFails, At
  <2>2. proc'[q].at \in {"tiers", "upsert"}
    BY <1>0, <2>1 DEF Job
  <2> QED BY <2>2
<1>3. CASE Filled(q)
  <2> DEFINE j == [Idle EXCEPT !.at = "reset", !.op = "rest"]
  <2>1. j.at = "reset"
    BY DEF Idle
  <2>2. \/ proc' = [proc EXCEPT ![q] = j]
        \/ proc' = [proc EXCEPT ![q].at = "stale"] \/ proc' = [proc EXCEPT ![q].at = "tiers"]
    BY <1>3 DEF Filled, Goto
  <2> HIDE DEF j
  <2> QED BY <1>0, <2>1, <2>2 DEF Job
<1>4. CASE Hourly(q)
  BY <1>0, <1>4 DEF Hourly, Begin, Idle
<1>5. CASE MarkCron(q)
  BY <1>0, <1>5 DEF MarkCron, Begin, Idle
<1>6. CASE \E p \in Plans : Edit(q, p)
  <2>1. PICK p \in Plans : Edit(q, p)
    BY <1>6
  <2> DEFINE j == [Idle EXCEPT !.at = "edit", !.op = "edit", !.todo = {p},
                               !.cheapest = plan[p].cheapest]
  <2>2. proc'[q] = j
    BY <1>0, <2>1 DEF Edit, Begin
  <2>3. j.at = "edit"
    BY DEF Idle
  <2> QED BY <2>2, <2>3
<1>7. CASE \E t \in tiers : RemoveTier(q, t)
  BY <1>0, <1>7 DEF RemoveTier, Begin, Idle
<1>8. CASE UpdateTierFails(q) \/ Die(q)
  BY <1>0, <1>8 DEF UpdateTierFails, Die, End, Idle
<1> QED BY <1>1, <1>2, <1>3, <1>4, <1>5, <1>6, <1>7, <1>8, <1>10

LEMMA NextTiers ==
  ASSUME Jobs, TierInv, Next
  PROVE  TierInv'
<1>1. CASE Enters
  BY <1>1 DEF Enters, Enter, TierInv, Checked
<1>2. ASSUME NEW q \in Procs,
             Fill(q) \/ CreatePlan(q) \/ SavePlan(q) \/ Rewrites(q) \/ Silent(q)
      PROVE  TierInv'
  <2>1. CASE Fill(q)
    <3>1. proc'[q].at # "tier" /\ Moves(q)
      BY <2>1, FillRows, FillJobs DEF Filler, Listing
    <3>2. tiers' = tiers /\ crossed \subseteq crossed'
      BY <2>1, FillRows
    <3> QED BY <3>1, <3>2, TiersKept
  <2>2. CASE CreatePlan(q) \/ SavePlan(q)
    <3>1. Moves(q) /\ proc'[q].at # "tier"
      BY <2>2, CreatePlanJobs, SavePlanJobs DEF Written
    <3>2. tiers' = tiers /\ crossed \subseteq crossed'
      BY <2>2 DEF CreatePlan, SavePlan
    <3> QED BY <3>1, <3>2, TiersKept
  <2>3. CASE Rewrites(q)
    <3>1. Moves(q)
      BY <2>3, RewritesMove
    <3>2. tiers' = tiers /\ crossed \subseteq crossed'
      BY <2>3 DEF Rewrites, AllOff, Deactivate, SaveEdit, Recalculate, UpdateVnd, ResetCheapest, Mark
    <3>3. proc'[q].at # "tier"
      BY <2>3, AllOffJobs, DeactivateJobs, SaveEditJobs, RecalculateJobs, UpdateVndJobs, ResetJobs,
         MarkJobs, IdleJob DEF Rewrites
    <3> QED BY <3>1, <3>2, <3>3, TiersKept
  <2>4. CASE Silent(q)
    <3>1. CASE \/ ReadPlan(q) \/ UpsertFails(q) \/ Filled(q) \/ ReadTiers(q) \/ Hourly(q) \/ MarkCron(q)
               \/ (\E p \in Plans : Edit(q, p)) \/ (\E t \in tiers : RemoveTier(q, t))
               \/ UpdateTierFails(q) \/ Die(q)
      <4>1. tiers' \subseteq tiers
        BY <3>1 DEF ReadPlan, UpsertFails, Filled, ReadTiers, Hourly, MarkCron, Edit, RemoveTier,
                    UpdateTierFails, Die
      <4>2. Moves(q) /\ crossed \subseteq crossed' /\ proc'[q].at # "tier"
        BY <2>4, <3>1, SilentIsQuiet, SilentHistory, SilentPlaces
      <4> QED BY <4>1, <4>2, TiersKept
    <3>2. CASE \E t \in Ranges : CreateTier(q, t) \/ UpdateTier(q, t)
      BY <3>2, EnteredTiers
    <3>3. CASE SaveTier(q)
      BY <3>3, SaveTierTiers
    <3> QED BY <2>4, <3>1, <3>2, <3>3 DEF Silent
  <2> QED BY <1>2, <2>1, <2>2, <2>3, <2>4
<1> QED BY <1>1, <1>2, StepOf

LEMMA PricesKept ==
  ASSUME PriceInv, raw \cup own \subseteq raw' \cup own', cut' = cut, UNCHANGED <<tiers, behind>>,
         \A x \in Plans \ (raw' \cup own') :
           plan'[x].exists => /\ plan[x].exists /\ plan'[x].cost = plan[x].cost
                              /\ plan'[x].price = plan[x].price
  PROVE  PriceInv'
<1> SUFFICES ASSUME ~behind, NEW x \in Plans \ (raw' \cup own'), plan'[x].exists
             PROVE  Priced(x)'
  BY DEF PriceInv
<1>1. Priced(x) /\ plan'[x].cost = plan[x].cost /\ plan'[x].price = plan[x].price
  BY DEF PriceInv
<1> QED BY <1>1 DEF Priced, Whole

LEMMA RecalculatePrices ==
  ASSUME Jobs, NEW q \in Procs, Recalculate(q)
  PROVE  PriceInv'
<1> SUFFICES ASSUME ~behind', NEW x \in Plans, plan'[x].exists
             PROVE  Priced(x)'
  BY DEF PriceInv
<1>1. PICK r \in AllRates : r = proc[q].rate
  BY RecalculateJobs
<1>2. /\ proc[q].tiers = tiers /\ tiers' = tiers
      /\ cut' = {p \in Existing : r.whole /\ Fitting(plan[p].cost, tiers, r) # {}
                                    /\ TierOf(plan[p].cost, tiers, r).fixed > 0}
  BY <1>1 DEF Recalculate
<1>3. plan'[x] = IF plan[x].exists
                 THEN [plan[x] EXCEPT !.price = PriceOf(plan[x].cost, tiers, r)] ELSE plan[x]
  BY <1>1, <1>2, RecalculateJobs
<1>4. plan[x] \in PlanRow
  BY DEF Jobs, Types
<1>5. plan[x].exists
  BY <1>3
<1>6. plan'[x].cost = plan[x].cost /\ plan'[x].price = PriceOf(plan[x].cost, tiers, r)
  <2>1. plan'[x] = [plan[x] EXCEPT !.price = PriceOf(plan[x].cost, tiers, r)]
    BY <1>3, <1>5
  <2> QED BY <1>4, <2>1 DEF PlanRow
<1>7. x \notin cut' => ~Whole(x, r)
  BY <1>2, <1>5 DEF Whole, Existing
<1>8. Whole(x, r)' <=> Whole(x, r)
  BY <1>2, <1>6 DEF Whole
<1>9. plan'[x].price = PriceOf(plan'[x].cost, tiers', r)
  BY <1>2, <1>6
<1> QED BY <1>7, <1>8, <1>9 DEF Priced

LEMMA EnterPrices ==
  ASSUME Jobs, PriceInv, NEW p \in Plans, NEW e \in Edits, Enter(p, e)
  PROVE  PriceInv'
<1>1. Entered(p, e)
  BY EnterJobs
<1>2. own' = own \cup {p} /\ UNCHANGED <<raw, cut, tiers, behind>>
  BY DEF Enter
<1>3. \A x \in Plans \ (raw' \cup own') : plan'[x] = plan[x]
  BY <1>1, <1>2 DEF Entered
<1> QED BY <1>2, <1>3, PricesKept

LEMMA EditPrices ==
  ASSUME Jobs, PriceInv, NEW q \in Procs, SaveEdit(q)
  PROVE  PriceInv'
<1>1. PICK e \in Edits : Saved(q, e)
  BY SaveEditJobs
<1> DEFINE p == Following(q)
<1>2. UNCHANGED <<cut, tiers, behind>>
  BY DEF SaveEdit, Step
<1>3. /\ plan[p].exists /\ \A x \in Plans \ {p} : plan'[x] = plan[x]
      /\ raw' \subseteq raw /\ raw \ {p} \subseteq raw' /\ own \subseteq own'
  BY <1>1 DEF Saved
<1>4. ASSUME p \notin own'
      PROVE  /\ plan'[p].cost = plan[p].cost /\ plan'[p].price = plan[p].price /\ raw' = raw
  <2>1. {e.cost, e.price, e.vnd} = {Keep}
    BY <1>1, <1>4 DEF Saved
  <2>2. e.cost = Keep /\ e.price = Keep
    BY <2>1
  <2> QED BY <1>1, <2>2 DEF Saved, Given
<1> HIDE DEF p
<1>5. raw \cup own \subseteq raw' \cup own'
  BY <1>3, <1>4
<1>6. ASSUME NEW x \in Plans \ (raw' \cup own')
      PROVE  /\ plan'[x].exists => plan[x].exists
             /\ plan'[x].cost = plan[x].cost /\ plan'[x].price = plan[x].price
  BY <1>3, <1>4
<1> QED BY <1>2, <1>5, <1>6, PricesKept

LEMMA NextPrices ==
  ASSUME Jobs, PriceInv, Next
  PROVE  PriceInv'
<1>0. \A x \in Plans : plan[x] \in PlanRow
  BY DEF Jobs, Types
<1>1. CASE Enters
  BY <1>1, EnterPrices DEF Enters
<1>2. ASSUME NEW q \in Procs,
             Fill(q) \/ CreatePlan(q) \/ SavePlan(q) \/ Rewrites(q) \/ Silent(q)
      PROVE  PriceInv'
  <2>1. CASE Fill(q)
    <3>1. \A x \in Plans : /\ plan'[x].exists = plan[x].exists /\ plan'[x].cost = plan[x].cost
                           /\ plan'[x].price = plan[x].price
      BY <1>0, <2>1, FillRows DEF PlanRow
    <3>2. UNCHANGED <<raw, own, cut, tiers, behind>>
      BY <2>1, FillRows
    <3> QED BY <3>1, <3>2, PricesKept
  <2>2. CASE CreatePlan(q) \/ SavePlan(q)
    <3>1. Written(q, Following(q))
      BY <2>2, CreatePlanJobs, SavePlanJobs
    <3>2. UNCHANGED <<own, cut, tiers, behind>> /\ raw' = raw \cup {Following(q)}
      BY <2>2 DEF CreatePlan, SavePlan
    <3>3. \A x \in Plans \ (raw' \cup own') : plan'[x] = plan[x]
      BY <3>1, <3>2 DEF Written
    <3> QED BY <3>2, <3>3, PricesKept
  <2>3. CASE Recalculate(q)
    BY <2>3, RecalculatePrices
  <2>4. CASE AllOff(q) \/ Deactivate(q) \/ UpdateVnd(q) \/ ResetCheapest(q) \/ Mark(q)
    <3>1. UNCHANGED <<raw, own, cut, tiers, behind>>
      BY <2>4 DEF AllOff, Deactivate, UpdateVnd, ResetCheapest, Mark
    <3>2. ASSUME NEW x \in Plans
          PROVE  /\ plan'[x].exists = plan[x].exists /\ plan'[x].cost = plan[x].cost
                 /\ plan'[x].price = plan[x].price
      <4>0. plan[x] \in PlanRow
        BY <1>0
      <4>1. CASE AllOff(q)
        BY <4>0, <4>1, AllOffJobs DEF PlanRow
      <4>2. CASE Deactivate(q)
        BY <4>2, DeactivateRows
      <4>3. CASE UpdateVnd(q)
        BY <4>0, <4>3, UpdateVndJobs DEF PlanRow
      <4>4. CASE ResetCheapest(q)
        BY <4>0, <4>4, ResetJobs DEF PlanRow
      <4>5. CASE Mark(q)
        <5>1. CASE Active = {}
          BY <4>5, <5>1, MarkJobs
        <5>2. CASE Active # {}
          <6>1. PICK p \in Plans : /\ plan'[p] = [plan[p] EXCEPT !.cheapest = TRUE]
                                  /\ \A y \in Plans \ {p} : plan'[y] = plan[y]
            BY <4>5, <5>2, MarkJobs
          <6>2. CASE x = p
            BY <4>0, <6>1, <6>2 DEF PlanRow
          <6> QED BY <6>1, <6>2
        <5> QED BY <5>1, <5>2
      <4> QED BY <2>4, <4>1, <4>2, <4>3, <4>4, <4>5
    <3> QED BY <3>1, <3>2, PricesKept
  <2>5. CASE Silent(q)
    <3>1. plan' = plan /\ UNCHANGED <<raw, own, cut>> /\ (UNCHANGED <<tiers, behind>> \/ behind')
      BY <2>5, SilentIsQuiet, SilentHistory DEF Quiet
    <3>2. CASE UNCHANGED <<tiers, behind>>
      BY <3>1, <3>2, PricesKept
    <3> QED BY <3>1, <3>2 DEF PriceInv
  <2>6. CASE SaveEdit(q)
    BY <2>6, EditPrices
  <2> QED BY <1>2, <2>1, <2>2, <2>3, <2>4, <2>5, <2>6 DEF Rewrites
<1> QED BY <1>1, <1>2, StepOf

-----------------------------------------------------------------------------
PricesInv == Jobs /\ FillerInv /\ OnSaleIsOffered /\ MarksInv /\ BuyerInv /\ TierInv /\ PriceInv

LEMMA InitPrices ==
  ASSUME Init
  PROVE  PricesInv
<1>1. /\ \A x \in Plans : plan[x] = None
      /\ \A q \in Procs : proc[q] = Idle
  BY DEF Init
<1>2. Types
  BY IdleJob, NoneRow DEF Init, Types
<1>3. \A q \in Procs : JobRests(q) /\ ~Filler(q) /\ proc[q].at = "idle"
  BY <1>1, IdleJob DEF JobRests, Filler, Listing
<1>4. \A x \in Plans : /\ ~plan[x].exists /\ ~plan[x].cheapest
                       /\ plan[x].price = 0 /\ plan[x].cost = 0
  BY <1>1 DEF None
<1>5. Existing = {}
  BY <1>4 DEF Existing
<1>6. FillerInv
  <2>1. RowsListed
    BY <1>1 DEF RowsListed, None
  <2> QED BY <1>3, <2>1 DEF FillerInv
<1>7. OnSaleIsOffered
  BY <1>5 DEF Init, OnSaleIsOffered, Active
<1>8. MarksInv
  BY <1>3, <1>5 DEF MarksInv, MarkInv, OneCheapest, Active, Cheapest
<1>9. BuyerInv
  <2>1. \A x \in Plans : plan[x].price >= plan[x].cost
    BY <1>4
  <2>2. \A x \in Plans : ~Free(x)
    BY <1>4 DEF Free
  <2>3. raw = {} /\ atCost = {}
    BY DEF Init
  <2> QED BY <2>1, <2>2, <2>3 DEF BuyerInv, Covered
<1>10. TierInv
  BY <1>3 DEF Init, TierInv, Checked
<1>11. PriceInv
  BY <1>4 DEF PriceInv
<1> QED BY <1>2, <1>3, <1>6, <1>7, <1>8, <1>9, <1>10, <1>11 DEF PricesInv, Jobs

LEMMA NextPricesInv ==
  ASSUME PricesInv, [Next]_vars
  PROVE  PricesInv'
<1>1. CASE Next
  BY <1>1, NextFillers, NextSale, NextMarks, NextBuyers, NextTiers, NextPrices DEF PricesInv
<1>2. CASE UNCHANGED vars
  <2> USE <1>2 DEF vars, history
  <2>1. Jobs'
    BY DEF PricesInv, Jobs, Types, JobRests, Filler, Following, Listing
  <2>2. FillerInv'
    BY DEF PricesInv, FillerInv, RowsListed, Filler, Listing
  <2>3. OnSaleIsOffered'
    BY DEF PricesInv, OnSaleIsOffered, Active, Existing
  <2>4. MarksInv'
    BY DEF PricesInv, MarksInv, MarkInv, OneCheapest, Active, Cheapest, Candidates, Existing
  <2>5. BuyerInv'
    BY DEF PricesInv, BuyerInv, Covered, Free, Unpriced, Worth, Due, Making, Unmade
  <2>6. TierInv'
    BY DEF PricesInv, TierInv, Checked
  <2>7. PriceInv'
    BY DEF PricesInv, PriceInv, Priced, Whole
  <2> QED BY <2>1, <2>2, <2>3, <2>4, <2>5, <2>6, <2>7 DEF PricesInv
<1> QED BY <1>1, <1>2

\* The state of the jobs, the lists they work off, the marks, the tiers and the prices, together.
THEOREM PricesInvariant == Spec => []PricesInv
  BY InitPrices, NextPricesInv, PTL DEF Spec

\* Every variable keeps its type.
THEOREM PriceTypes == Spec => []TypeOK
<1>1. PricesInv => TypeOK
  <2> SUFFICES ASSUME PricesInv PROVE TypeOK OBVIOUS
  <2>1. Types
    BY DEF PricesInv, Jobs
  <2>2. \A p \in Plans : plan[p] \in PlanRow
    BY <2>1 DEF Types
  <2>3. \A p \in Plans :
          /\ {plan[p].cost, plan[p].price, plan[p].vnd} \subseteq Nat
          /\ {plan[p].exists, plan[p].cheapest, plan[p].active, plan[p].listed} \subseteq BOOLEAN
          /\ plan[p].stale \subseteq Procs
    BY <2>2 DEF PlanRow
  <2>4. ASSUME NEW t \in tiers
        PROVE  \E r \in Ranges : t \in {Row(r, t.id), Row([r EXCEPT !.fixed = 0], t.id)}
    <3>1. t \in TierRows
      BY <2>1 DEF Types
    <3>2. PICK r \in Ranges, id \in Nat : t \in {Row(r, id), Row([r EXCEPT !.fixed = 0], id)}
      BY <3>1 DEF TierRows
    <3>3. t.id = id
      BY <3>2 DEF Row
    <3> QED BY <3>2, <3>3
  <2>5. \A q \in Procs : proc[q].at \in Places
    BY <2>1 DEF Types, Job
  <2> QED BY <2>1, <2>3, <2>4, <2>5 DEF TypeOK, Types, Places
<1> QED BY <1>1, PricesInvariant, PTL

\* A margin is charged as it was entered, for any plans, tiers and rates, outside the cases
\* the property names.
THEOREM MarginsAreCharged == Spec => []MarginIsCharged
<1>1. PricesInv => MarginIsCharged
  <2> SUFFICES ASSUME PricesInv, faults = 0, ~behind, "tier" \notin crossed,
                      \A q \in Procs : proc[q].at \notin Filling, NEW p \in Existing \ (cut \cup own \cup Unpriced)
               PROVE  \E r \in AllRates :
                        plan[p].price =
                          LET fit == Fitting(plan[p].cost, tiers, r) IN
                          IF fit = {} THEN plan[p].cost
                          ELSE LET t == CHOOSE t \in fit : TRUE
                               IN plan[p].cost + IF t.fixed > 0 THEN RoundDiv(t.fixed * 100, r.vnd)
                                                 ELSE RoundDiv(plan[p].cost * t.percentage, 100)
    BY DEF MarginIsCharged, AllRates
  <2>1. p \notin raw
    <3>1. \A q \in Procs : ~Making(q)
      BY DEF Making, Unmade, Filling, Listing
    <3>2. CASE source = "gadget"
      BY <3>2 DEF Unpriced
    <3>3. CASE source # "gadget"
      BY <3>1, <3>3 DEF PricesInv, BuyerInv
    <3> QED BY <3>2, <3>3
  <2>2. Types /\ p \in Plans /\ plan[p].exists
    BY DEF PricesInv, Jobs, Existing
  <2> DEFINE c == plan[p].cost
  <2>3. c \in Nat /\ tiers \subseteq TierRows
    BY <2>2 DEF Types, PlanRow
  <2>4. PICK r \in AllRates : plan[p].price = PriceOf(c, tiers, r) /\ ~Whole(p, r)
    BY <2>1, <2>2 DEF PricesInv, PriceInv, Priced
  <2> DEFINE fit == Fitting(c, tiers, r)
             t == CHOOSE t \in fit : TRUE
  <2>5. CASE fit = {}
    BY <2>4, <2>5 DEF PriceOf
  <2>6. CASE fit # {}
    <3>1. TierOf(c, tiers, r) \in fit /\ t \in fit /\ t \in TierRows
      <4>1. TierOf(c, tiers, r) \in fit /\ fit \subseteq TierRows
        BY <2>3, <2>6, TierIsFitting DEF Fitting
      <4> HIDE DEF fit
      <4> QED BY <2>6, <4>1
    <3>2. \A u, v \in fit : u = v
      <4>1. ASSUME NEW u \in fit, NEW v \in fit, u # v PROVE FALSE
        <5>1. u \in tiers /\ v \in tiers /\ Fits(c, u, r) /\ Fits(c, v, r)
          BY DEF Fitting
        <5>2. u.min \in Nat /\ u.max \in Nat /\ v.min \in Nat /\ v.max \in Nat
          BY <2>3, <5>1, TierType
        <5>3. RoundDiv(c * r.vnd, 100) \in Nat
          <6>1. c * r.vnd \in Nat
            BY <2>3, RateType
          <6> QED BY <6>1, RoundNat
        <5>4. Overlap(u, v)
          BY <5>1, <5>2, <5>3 DEF Fits, Overlap
        <5> QED BY <4>1, <5>1, <5>4 DEF PricesInv, TierInv
      <4> QED BY <4>1
    <3>3. TierOf(c, tiers, r) = t
      BY <3>1, <3>2
    <3>4. plan[p].price = IF t.fixed > 0 THEN c + Fixed(t, r)
                          ELSE RoundDiv(c * (100 + t.percentage), 100)
      BY <2>4, <2>6, <3>3 DEF PriceOf
    <3>5. t.fixed > 0 => Fixed(t, r) = RoundDiv(t.fixed * 100, r.vnd)
      BY <2>4, <2>6, <3>3 DEF Whole, Fixed
    <3>6. RoundDiv(c * (100 + t.percentage), 100) = c + RoundDiv(c * t.percentage, 100)
      <4>1. t.percentage \in Nat
        BY <3>1, TierType
      <4> QED BY <2>3, <4>1, RoundShift
    <3>7. plan[p].price = c + IF t.fixed > 0 THEN RoundDiv(t.fixed * 100, r.vnd)
                              ELSE RoundDiv(c * t.percentage, 100)
      <4> HIDE DEF t, c
      <4> QED BY <3>4, <3>5, <3>6
    <3> QED BY <2>4, <2>6, <3>7
  <2> QED BY <2>5, <2>6
<1> QED BY <1>1, PricesInvariant, PTL

\* But for what an admin entered, no price is below its cost; a VND price of a bare cost comes
\* of a job beside a synchronisation or import whose prices are not made yet, of the Gadget
\* Korea import or of a job that died; and once the jobs are done every plan whose prices they
\* made costs something.
THEOREM BuyersPayMargins == Spec => []BuyersPayTheMargin
<1>1. PricesInv => BuyersPayTheMargin
  <2> SUFFICES ASSUME PricesInv PROVE BuyersPayTheMargin OBVIOUS
  <2>1. \A p \in Plans \ own : plan[p].price >= plan[p].cost
    BY DEF PricesInv, BuyerInv, Covered
  <2>2. faults = 0 /\ ~beside /\ source # "gadget" => atCost = {}
    BY DEF PricesInv, BuyerInv
  <2>3. ASSUME faults = 0, \A q \in Procs : proc[q].at \notin Filling, NEW p \in Existing \ (own \cup Unpriced),
               \A r \in Rates \cup {Default} : plan[p].cost * r.vnd >= 50000
        PROVE  plan[p].vnd > 0
    <3>1. p \in Plans /\ plan[p].exists /\ plan[p].vnd \in Nat
      BY DEF Existing, PricesInv, Jobs, Types, PlanRow
    <3>2. \A q \in Procs : ~Due(q)
      BY <2>3 DEF Due, Making, Unmade, Filling, Listing
    <3>3. plan[p].vnd # 0
      BY <2>3, <3>1, <3>2 DEF PricesInv, BuyerInv, Free, Worth, AllRates
    <3> QED BY <3>1, <3>3
  <2> QED BY <2>1, <2>2, <2>3 DEF BuyersPayTheMargin
<1> QED BY <1>1, PricesInvariant, PTL

\* A marked group shows one plan, and it is a cheapest one on sale.
THEOREM OneIsCheapest == Spec => []OneCheapest
<1>1. PricesInv => OneCheapest
  BY DEF PricesInv, MarksInv
<1> QED BY <1>1, PricesInvariant, PTL

\* Unless two jobs work off lists at a time, on sale is what the last list held, with what
\* admins put on sale or took off since and what was never synchronised.
THEOREM SaleIsOffered == Spec => []OnSaleIsOffered
<1>1. PricesInv => OnSaleIsOffered
  BY DEF PricesInv
<1> QED BY <1>1, PricesInvariant, PTL
=============================================================================
