---------------------------- MODULE WalletLedger ----------------------------
(***************************************************************************)
(* The eXu wallet and its ledger (src/wallets/wallets.service.ts): every    *)
(* change of a balance goes through createTransactionWithManager, a         *)
(* database transaction that checks an idempotency key, reads the wallet    *)
(* row, saves it with the new balance and inserts a ledger row.             *)
(*                                                                         *)
(* The database runs at READ COMMITTED and the code takes no row lock when  *)
(* it reads, so each awaited statement of a call is an action of its own:   *)
(* a read sees what is committed, an UPDATE takes the row lock until the    *)
(* transaction ends, and the unique index on the key refuses a second row.  *)
(* The calls (HTTP requests, payment callbacks, the nightly cron) interleave *)
(* freely, and any of them can fail and roll back between two statements.   *)
(***************************************************************************)
EXTENDS Integers, Sequences, FiniteSets

CONSTANTS
  Users,      \* owners of wallets
  Calls,      \* slots for concurrent service calls
  Cron,       \* the slot of the nightly expireWallets job
  Keys,       \* idempotency keys of the order flows (cashback, capture, refund...)
  Posts,      \* the transactions the callers of createTransaction ask for
  NoKey,      \* a transaction without idempotency key (admin adjustments)
  NoReq,      \* an idle slot has no request
  NoWallet,   \* the user has no wallet row yet
  Nobody,     \* nobody holds the row lock
  Life,       \* EXU_EXPIRY_DAYS
  MaxTime,    \* bound: the clock stops there
  MaxRows,    \* bound: ledger rows per wallet that the calls may add
  MaxAborts   \* bound: transactions that fail for a reason of the database

Procs == Calls \cup {Cron}

\* The types shouldResetExpiry lists, and the others.
ResetTypes == {"order_cashback", "referral_reward", "refund_to_wallet",
               "manual_credit"}
Types == ResetTypes \cup {"order_cashback_reversal", "referral_reward_reversal",
                          "manual_debit", "manual_cancel",
                          "redemption_capture", "expiry_debit"}
Statuses == {"active", "locked"}

Wallet == [bal : Int, exp : Nat, status : Statuses]      \* exp 0: never expires
AllKeys == Keys \cup {NoKey} \cup (Users \X Nat)         \* <<u, exp>>: wallet_expiry
Request == [user : Users, type : Types, amt : Int, key : AllKeys]
Row == [type : Types, amt : Int, after : Int, key : AllKeys]

ASSUME ConstantsAssumption ==
  /\ Cron \notin Calls
  /\ Nobody \notin Calls \cup {Cron}
  /\ NoKey \notin Keys \cup (Users \X Nat)
  /\ NoReq \notin Request
  /\ NoWallet \notin Wallet
  /\ Posts \subseteq {r \in Request : r.amt # 0 /\ r.key \in Keys \cup {NoKey}}
  /\ Life \in Nat /\ MaxTime \in Nat /\ MaxRows \in Nat /\ MaxAborts \in Nat

VARIABLES
  wallet,      \* user_wallet, committed
  ledger,      \* wallet_transaction, committed, by wallet in commit order
  lock,        \* the slot whose open transaction wrote the wallet row
  pc, req,     \* where each call is, and what it was asked
  ent,         \* the entity each call read, then the row it wrote
  todo,        \* the wallets the running expireWallets still has to debit
  now, aborts,
  stale,       \* history: another call committed the wallet after this one read it
  lost,        \* history: a stale transaction was committed on the wallet
  overwritten  \* history: a stale status update was committed on the wallet

db == <<wallet, ledger, lock>>
history == <<stale, lost, overwritten>>
vars == <<db, pc, req, ent, todo, now, aborts, history>>

Fresh == [bal |-> 0, exp |-> 0, status |-> "active"]

Init ==
  /\ wallet = [u \in Users |-> NoWallet]
  /\ ledger = [u \in Users |-> <<>>]
  /\ lock = [u \in Users |-> Nobody]
  /\ pc = [p \in Procs |-> "idle"]
  /\ req = [p \in Procs |-> NoReq]
  /\ ent = [p \in Procs |-> Fresh]
  /\ todo = {}
  /\ now = 1
  /\ aborts = 0
  /\ stale = [p \in Procs |-> FALSE]
  /\ lost = [u \in Users |-> FALSE]
  /\ overwritten = [u \in Users |-> FALSE]

-----------------------------------------------------------------------------
KeyUsed(k) == \E u \in Users : \E i \in 1..Len(ledger[u]) : ledger[u][i].key = k

Resets(r) == r.amt > 0 /\ r.type \in ResetTypes

Free(u, p) == lock[u] \in {Nobody, p}

\* The calls that hold an entity of wallet u other than p's are now behind it.
Outdate(p, u) ==
  [q \in Procs |-> IF q # p /\ pc[q] \in {"save", "status"} /\ req[q].user = u
                   THEN TRUE ELSE stale[q]]

\* Slot p is done, whatever the outcome; its transaction holds no lock any more.
Idle(p) ==
  /\ pc' = [pc EXCEPT ![p] = "idle"]
  /\ req' = [req EXCEPT ![p] = NoReq]
  /\ ent' = [ent EXCEPT ![p] = Fresh]

Unlock(p) == [u \in Users |-> IF lock[u] = p THEN Nobody ELSE lock[u]]

\* Mutant: without a transaction, the saved balance stays when the row fails.
RollbackKeepsBalance(p) ==
  /\ Idle(p)
  /\ lock' = Unlock(p)
  /\ stale' = [stale EXCEPT ![p] = FALSE]
  /\ todo' = IF p = Cron THEN {} ELSE todo
  /\ wallet' = IF pc[p] = "insert" THEN [wallet EXCEPT ![req[p].user] = ent[p]] ELSE wallet
  /\ UNCHANGED <<ledger, lost, overwritten>>

\* The transaction of p rolls back: nothing it wrote was visible to anybody.
\* An exception in expireWallets leaves its loop.
Rollback(p) ==
  /\ Idle(p)
  /\ lock' = Unlock(p)
  /\ stale' = [stale EXCEPT ![p] = FALSE]
  /\ todo' = IF p = Cron THEN {} ELSE todo
  /\ UNCHANGED <<wallet, ledger, lost, overwritten>>

\* MaxRows bounds what the calls add, counting those under way.
Room(u) ==
  Len(ledger[u]) + Cardinality({q \in Calls : req[q] # NoReq /\ req[q].user = u})
    < MaxRows

Ask(p, r) ==
  /\ pc[p] = "idle"
  /\ pc' = [pc EXCEPT ![p] = "key"]
  /\ req' = [req EXCEPT ![p] = r]
  /\ UNCHANGED <<ent, history>>
-----------------------------------------------------------------------------
(* The callers of createTransaction.                                       *)

\* completePaidOrderBenefits, refundOrder, captureHoldForOrder, adminAdjustWallet:
\* a transaction of a fixed amount; the keyed ones can be asked again and again.
Post(p, r) ==
  /\ p \in Calls
  /\ Room(r.user)
  /\ Ask(p, r)
  /\ UNCHANGED <<db, todo, now, aborts>>

\* Mutant: an upsert instead of a find.
GetOrCreateUpsert(u) ==
  /\ lock[u] = Nobody
  /\ wallet' = [wallet EXCEPT ![u] = Fresh]

\* getOrCreateWallet in a transaction of its own; a concurrent creation that is
\* not committed yet makes the INSERT wait.
GetOrCreate(u) ==
  /\ wallet[u] = NoWallet => lock[u] = Nobody
  /\ wallet' = IF wallet[u] = NoWallet THEN [wallet EXCEPT ![u] = Fresh] ELSE wallet

\* cancelWalletBalance: the amount is the balance as it is read here.
CancelBalance(p, u) ==
  /\ p \in Calls
  /\ Room(u)
  /\ GetOrCreate(u)
  /\ IF wallet'[u].bal = 0
     THEN pc[p] = "idle" /\ UNCHANGED <<pc, req, ent, history>>
     ELSE Ask(p, [user |-> u, type |-> "manual_cancel",
                  amt |-> -wallet[u].bal, key |-> NoKey])
  /\ UNCHANGED <<ledger, lock, todo, now, aborts>>

\* updateWalletStatus reads the whole row...
ReadForStatus(p, u) ==
  /\ p \in Calls
  /\ pc[p] = "idle"
  /\ GetOrCreate(u)
  /\ pc' = [pc EXCEPT ![p] = "status"]
  /\ req' = [req EXCEPT ![p] = [user |-> u, type |-> "manual_cancel",
                                amt |-> 0, key |-> NoKey]]
  /\ ent' = [ent EXCEPT ![p] = wallet'[u]]
  /\ UNCHANGED <<ledger, lock, todo, now, aborts, history>>

\* ... and saves it. save() re-reads the row and updates the columns that differ
\* from it: the stale ones too, unless the re-read came before they changed.
SaveStatus(p, s) ==
  LET u == req[p].user IN
  /\ pc[p] = "status"
  /\ lock[u] = Nobody
  /\ \E row \in {ent[p], wallet[u]} :
       wallet' = [wallet EXCEPT ![u] = [row EXCEPT !.status = s]]
  /\ Idle(p)
  /\ stale' = [Outdate(p, u) EXCEPT ![p] = FALSE]
  /\ overwritten' = [overwritten EXCEPT ![u] = @ \/ stale[p]]
  /\ UNCHANGED <<ledger, lock, todo, now, aborts, lost>>

\* expireWallets: one SELECT of the active wallets past their date...
Due(u) ==
  /\ wallet[u] # NoWallet
  /\ wallet[u].status = "active"
  /\ wallet[u].exp # 0
  /\ wallet[u].exp < now
  /\ wallet[u].bal > 0

\* Mutant: off by one on the date.
ListExpiredLate ==
  /\ pc[Cron] = "idle"
  /\ todo = {}
  /\ todo' = {[user |-> u, type |-> "expiry_debit", amt |-> -wallet[u].bal,
               key |-> <<u, wallet[u].exp>>] :
               u \in {v \in Users : Due(v) /\ wallet[v].exp + 1 < now}}
  /\ UNCHANGED <<db, pc, req, ent, now, aborts, history>>

ListExpired ==
  /\ pc[Cron] = "idle"
  /\ todo = {}
  /\ todo' = {[user |-> u, type |-> "expiry_debit", amt |-> -wallet[u].bal,
               key |-> <<u, wallet[u].exp>>] : u \in {v \in Users : Due(v)}}
  /\ UNCHANGED <<db, pc, req, ent, now, aborts, history>>

\* ... and one transaction for each, with the balance of the SELECT.
ExpireNext(r) ==
  /\ r \in todo
  /\ Ask(Cron, r)
  /\ todo' = todo \ {r}
  /\ UNCHANGED <<db, now, aborts>>
-----------------------------------------------------------------------------
(* createTransactionWithManager, statement by statement.                   *)

CheckKey(p) ==
  /\ pc[p] = "key"
  /\ IF req[p].key # NoKey /\ KeyUsed(req[p].key)
     THEN Idle(p)
     ELSE pc' = [pc EXCEPT ![p] = "read"] /\ UNCHANGED <<req, ent>>
  /\ UNCHANGED <<db, todo, now, aborts, history>>

ReadWallet(p) ==
  LET u == req[p].user IN
  /\ pc[p] = "read"
  /\ IF wallet[u] = NoWallet
     THEN pc' = [pc EXCEPT ![p] = "create"] /\ UNCHANGED ent
     ELSE /\ pc' = [pc EXCEPT ![p] = "save"]
          /\ ent' = [ent EXCEPT ![p] = wallet[u]]
  /\ UNCHANGED <<db, req, todo, now, aborts, history>>

\* The INSERT of getOrCreateWalletWithManager waits for a concurrent one, and
\* fails on UNIQUE("userId") when that one was committed.
CreateWallet(p) ==
  LET u == req[p].user IN
  /\ pc[p] = "create"
  /\ lock[u] = Nobody
  /\ IF wallet[u] = NoWallet
     THEN /\ lock' = [lock EXCEPT ![u] = p]
          /\ ent' = [ent EXCEPT ![p] = Fresh]
          /\ pc' = [pc EXCEPT ![p] = "save"]
          /\ UNCHANGED <<wallet, ledger, req, todo, history>>
     ELSE Rollback(p)
  /\ UNCHANGED <<now, aborts>>

\* The balance read plus the amount, never an increment in the database. The
\* other columns are written as SaveStatus says.
NewRow(base, r, bal) ==
  [base EXCEPT !.bal = bal, !.exp = IF Resets(r) THEN now + Life ELSE @]

SaveWallet(p) ==
  LET u == req[p].user
      current == IF wallet[u] = NoWallet THEN ent[p] ELSE wallet[u] IN
  /\ pc[p] = "save"
  /\ Free(u, p)
  /\ lock' = [lock EXCEPT ![u] = p]
  /\ \E base \in {ent[p], current} :
       ent' = [ent EXCEPT ![p] = NewRow(base, req[p], ent[p].bal + req[p].amt)]
  /\ pc' = [pc EXCEPT ![p] = "insert"]
  /\ UNCHANGED <<wallet, ledger, req, todo, now, aborts, history>>

\* Mutant: no unique index.
UniqueNever(k) == TRUE

\* UNIQUE("idempotencyKey") on wallet_transaction.
Unique(k) == k = NoKey \/ ~KeyUsed(k)

\* The last statement and the COMMIT that makes row and balance visible together.
InsertRow(p) ==
  LET r == req[p]
      u == r.user IN
  /\ pc[p] = "insert"
  /\ IF Unique(r.key)
     THEN /\ ledger' = [ledger EXCEPT ![u] =
                Append(@, [type |-> r.type, amt |-> r.amt,
                           after |-> ent[p].bal, key |-> r.key])]
          /\ wallet' = [wallet EXCEPT ![u] = ent[p]]
          /\ lock' = [lock EXCEPT ![u] = Nobody]
          /\ stale' = [Outdate(p, u) EXCEPT ![p] = FALSE]
          /\ lost' = [lost EXCEPT ![u] = @ \/ stale[p]]
          /\ Idle(p)
          /\ UNCHANGED <<todo, overwritten>>
     ELSE Rollback(p)
  /\ UNCHANGED <<now, aborts>>
-----------------------------------------------------------------------------
(* The environment.                                                        *)

\* A statement fails or the process stops: the open transaction is rolled back.
Abort(p) ==
  /\ pc[p] # "idle"
  /\ aborts < MaxAborts
  /\ aborts' = aborts + 1
  /\ Rollback(p)
  /\ UNCHANGED now

\* A tick is a good part of a year: an expiry date is committed in the instant
\* it was computed for.
Tick ==
  /\ now < MaxTime
  /\ \A p \in Procs : pc[p] # "insert"
  /\ now' = now + 1
  /\ UNCHANGED <<db, pc, req, ent, todo, aborts, history>>

Statement(p) ==
  CheckKey(p) \/ ReadWallet(p) \/ CreateWallet(p) \/ SaveWallet(p) \/ InsertRow(p)

Next ==
  \/ \E p \in Procs :
       \/ \E r \in Posts : Post(p, r)
       \/ \E u \in Users : CancelBalance(p, u) \/ ReadForStatus(p, u)
       \/ \E s \in Statuses : SaveStatus(p, s)
       \/ Statement(p)
       \/ Abort(p)
  \/ ListExpired
  \/ \E r \in todo : ExpireNext(r)
  \/ Tick

Spec == Init /\ [][Next]_vars

\* A call that was started goes on (the server awaits every statement), the cron
\* fires every day and works through its list, and time passes. Callers may stop.
Fairness ==
  /\ \A p \in Procs : WF_vars(Statement(p))
  /\ WF_vars(ListExpired)
  /\ WF_vars(\E r \in todo : ExpireNext(r))
  /\ WF_vars(Tick)

FairSpec == Spec /\ Fairness
-----------------------------------------------------------------------------
(* Properties.                                                             *)

\* Every variable has its type; no property rests on it but the proofs do.
TypeOK ==
  /\ wallet \in [Users -> Wallet \cup {NoWallet}]
  /\ ledger \in [Users -> Seq(Row)]
  /\ lock \in [Users -> Procs \cup {Nobody}]
  /\ pc \in [Procs -> {"idle", "key", "read", "create", "save", "insert", "status"}]
  /\ req \in [Procs -> Request \cup {NoReq}]
  /\ ent \in [Procs -> Wallet]
  /\ todo \subseteq Request
  /\ now \in Nat /\ aborts \in Nat
  /\ stale \in [Procs -> BOOLEAN]
  /\ lost \in [Users -> BOOLEAN]
  /\ overwritten \in [Users -> BOOLEAN]

\* An idempotency key is redeemed at most once over all wallets, however often the
\* payment callback is delivered, retried after a failure or run twice at a time.
OneRowPerKey ==
  \A u, v \in Users : \A i \in 1..Len(ledger[u]), j \in 1..Len(ledger[v]) :
    /\ ledger[u][i].key = ledger[v][j].key
    /\ ledger[u][i].key # NoKey
    => u = v /\ i = j

Balance(u) == IF wallet[u] = NoWallet THEN 0 ELSE wallet[u].bal
LastAfter(u) == IF ledger[u] = <<>> THEN 0 ELSE ledger[u][Len(ledger[u])].after

\* The balance a user sees is the balanceAfterVnd of the last row of the ledger,
\* even when transactions overlapped: only updateWalletStatus, which saves a wallet
\* it read earlier, can put back an older balance.
BalanceIsLastRow == \A u \in Users : ~overwritten[u] => Balance(u) = LastAfter(u)

\* As long as no two writers of a wallet overlapped, its ledger adds up: every
\* balanceAfterVnd is the previous one plus the amount of the row.
LedgerAddsUp ==
  \A u \in Users : ~overwritten[u] /\ ~lost[u] =>
    \A i \in 1..Len(ledger[u]) :
      ledger[u][i].after =
        ledger[u][i].amt + (IF i = 1 THEN 0 ELSE ledger[u][i - 1].after)

\* A balance moves only with the ledger row that explains it, and rows stay: no
\* step commits the balance without the row (a crash between the two statements
\* leaves neither), drops or rewrites a row.
AuditTrail ==
  [][\A u \in Users :
       \/ ledger'[u] = ledger[u]
          /\ (Balance(u)' = Balance(u) \/ overwritten'[u])
       \/ /\ Len(ledger'[u]) = Len(ledger[u]) + 1
          /\ \A i \in 1..Len(ledger[u]) : ledger'[u][i] = ledger[u][i]
          /\ Balance(u)' = LastAfter(u)']_<<wallet, ledger>>

\* A balance past its date does not stay: the nightly job debits it, unless a
\* credit moves the date, an admin locks or empties the wallet, or overlapping
\* writers broke the wallet before.
ExpiredIsDrained ==
  \A u \in Users :
    Due(u) ~> (~Due(u) \/ lost[u] \/ overwritten[u])
=============================================================================
