------------------------- MODULE WalletLedgerProofs -------------------------
(***************************************************************************)
(* Proofs about WalletLedger for every number of users, of concurrent calls *)
(* and of transactions, and with every interleaving, failure and bound.     *)
(***************************************************************************)
EXTENDS WalletLedger, SequenceTheorems, TLAPS

\* A call that is under way knows its request, and updateWalletStatus has made
\* sure that the wallet exists.
Asked == \A p \in Procs : pc[p] # "idle" => req[p] \in Request
HasWallet == \A p \in Procs : pc[p] = "status" => wallet[req[p].user] # NoWallet

TypeInv == TypeOK /\ Asked /\ HasWallet

-----------------------------------------------------------------------------
(* Type correctness.                                                       *)

\* The ghost that marks the calls left behind by a commit is well typed.
LEMMA OutdateType ==
  ASSUME TypeOK, NEW p, NEW u
  PROVE  Outdate(p, u) \in [Procs -> BOOLEAN]
BY DEF Outdate, TypeOK

\* A rollback keeps the types: it only forgets what its call knew.
LEMMA RollbackType ==
  ASSUME TypeInv, NEW p \in Procs, Rollback(p), UNCHANGED now, aborts' \in Nat
  PROVE  TypeInv'
<1> USE DEF Rollback, Idle
<1>1. lock' \in [Users -> Procs \cup {Nobody}]
  BY DEF Unlock, TypeInv, TypeOK
<1>2. Fresh \in Wallet
  BY DEF Fresh, Wallet, Statuses
<1>3. TypeOK'
  <2>1. /\ pc' \in [Procs -> {"idle", "key", "read", "create", "save", "insert", "status"}]
        /\ req' \in [Procs -> Request \cup {NoReq}]
        /\ ent' \in [Procs -> Wallet]
        /\ stale' \in [Procs -> BOOLEAN]
    BY <1>2 DEF TypeInv, TypeOK
  <2>2. todo' \subseteq Request
    BY DEF TypeInv, TypeOK
  <2> QED BY <1>1, <2>1, <2>2 DEF TypeInv, TypeOK
<1>4. Asked' /\ HasWallet'
  BY DEF TypeInv, TypeOK, Asked, HasWallet
<1> QED BY <1>3, <1>4 DEF TypeInv

\* A wallet row with another status is a wallet row.
LEMMA StatusRow ==
  ASSUME NEW w \in Wallet, NEW s \in Statuses
  PROVE  [w EXCEPT !.status = s] \in Wallet
BY DEF Wallet

\* So is the row a transaction writes.
LEMMA NewRowType ==
  ASSUME TypeOK, NEW w \in Wallet, NEW r, NEW b \in Int
  PROVE  NewRow(w, r, b) \in Wallet
<1>1. w.exp \in Nat /\ now + Life \in Nat
  BY ConstantsAssumption DEF Wallet, TypeOK
<1> DEFINE e == IF Resets(r) THEN now + Life ELSE w.exp
<1>2. e \in Nat
  BY <1>1
<1>3. NewRow(w, r, b) = [w EXCEPT !.bal = b, !.exp = e]
  BY DEF NewRow
<1> HIDE DEF e
<1> QED BY <1>2, <1>3 DEF Wallet

\* A caller's request is well formed.
LEMMA PostsType ==
  ASSUME NEW r \in Posts
  PROVE  r \in Request
BY ConstantsAssumption

\* TypeInv is inductive.
LEMMA TypeStep == TypeInv /\ [Next]_vars => TypeInv'
<1> SUFFICES ASSUME TypeInv, [Next]_vars PROVE TypeInv'
  OBVIOUS
<1> USE DEF TypeInv, TypeOK, Asked, HasWallet, db, history
<1>f. Fresh \in Wallet
  BY DEF Fresh, Wallet, Statuses
<1>1. ASSUME NEW p \in Procs, NEW r \in Posts, Post(p, r) PROVE TypeInv'
  BY <1>1, PostsType DEF Post, Ask
<1>2. ASSUME NEW p \in Procs, NEW u \in Users, CancelBalance(p, u) PROVE TypeInv'
  <2>1. wallet' \in [Users -> Wallet \cup {NoWallet}] /\ wallet'[u] \in Wallet
        /\ (\A v \in Users : wallet[v] # NoWallet => wallet'[v] # NoWallet)
    BY <1>2, <1>f, ConstantsAssumption DEF CancelBalance, GetOrCreate
  <2>2. CASE wallet'[u].bal = 0
    BY <1>2, <2>1, <2>2 DEF CancelBalance, Request
  <2>3. CASE wallet'[u].bal # 0
    <3>1. wallet[u] # NoWallet
      BY <1>2, <2>3 DEF CancelBalance, GetOrCreate, Fresh
    <3> DEFINE r == [user |-> u, type |-> "manual_cancel",
                     amt |-> -wallet[u].bal, key |-> NoKey]
    <3>2. r \in Request
      BY <3>1 DEF Request, Wallet, AllKeys, Types
    <3>3. Ask(p, r)
      BY <1>2, <2>3 DEF CancelBalance
    <3> HIDE DEF r
    <3>4. UNCHANGED <<ledger, lock, todo, now, aborts>>
      BY <1>2 DEF CancelBalance
    <3>5. TypeOK'
      BY <2>1, <3>2, <3>3, <3>4 DEF Ask
    <3>6. Asked' /\ HasWallet'
      BY <2>1, <3>2, <3>3, ConstantsAssumption DEF Ask, Request
    <3> QED BY <3>5, <3>6
  <2> QED BY <2>2, <2>3
<1>3. ASSUME NEW p \in Procs, NEW u \in Users, ReadForStatus(p, u) PROVE TypeInv'
  <2>1. wallet' \in [Users -> Wallet \cup {NoWallet}] /\ wallet'[u] \in Wallet
        /\ (\A v \in Users : wallet[v] # NoWallet => wallet'[v] # NoWallet)
    BY <1>3, <1>f, ConstantsAssumption DEF ReadForStatus, GetOrCreate
  <2> DEFINE r == [user |-> u, type |-> "manual_cancel", amt |-> 0, key |-> NoKey]
  <2>2. r \in Request /\ r.user = u
    BY DEF Request, AllKeys, Types
  <2>3. req' = [req EXCEPT ![p] = r]
    BY <1>3 DEF ReadForStatus
  <2> HIDE DEF r
  <2>4. TypeOK'
    BY <1>3, <2>1, <2>2, <2>3 DEF ReadForStatus
  <2>5. Asked' /\ HasWallet'
    BY <1>3, <2>1, <2>2, <2>3, ConstantsAssumption DEF ReadForStatus, Request
  <2> QED BY <2>4, <2>5
<1>4. ASSUME NEW p \in Procs, NEW s \in Statuses, SaveStatus(p, s) PROVE TypeInv'
  <2> DEFINE u == req[p].user
  <2>1. u \in Users /\ wallet[u] \in Wallet
    BY <1>4 DEF SaveStatus, Request
  <2>2. PICK row \in {ent[p], wallet[u]} :
          wallet' = [wallet EXCEPT ![u] = [row EXCEPT !.status = s]]
    BY <1>4 DEF SaveStatus
  <2>3. [row EXCEPT !.status = s] \in Wallet
    <3>1. row \in Wallet
      BY <2>1, <2>2
    <3> QED BY <3>1, StatusRow
  <2>4. wallet' \in [Users -> Wallet \cup {NoWallet}]
        /\ (\A v \in Users : wallet[v] # NoWallet => wallet'[v] # NoWallet)
    BY <2>1, <2>2, <2>3, ConstantsAssumption
  <2>5. Outdate(p, u) \in [Procs -> BOOLEAN]
    BY OutdateType
  <2>6. TypeOK'
    BY <1>4, <1>f, <2>1, <2>4, <2>5 DEF SaveStatus, Idle
  <2>7. Asked' /\ HasWallet'
    BY <1>4, <2>4 DEF SaveStatus, Idle, Request
  <2> QED BY <2>6, <2>7
<1>5. ASSUME NEW p \in Procs, CheckKey(p) PROVE TypeInv'
  BY <1>5, <1>f DEF CheckKey, Idle
<1>6. ASSUME NEW p \in Procs, ReadWallet(p) PROVE TypeInv'
  BY <1>6, ConstantsAssumption DEF ReadWallet, Request
<1>7. ASSUME NEW p \in Procs, CreateWallet(p) PROVE TypeInv'
  <2>1. CASE wallet[req[p].user] = NoWallet
    BY <1>7, <2>1, <1>f DEF CreateWallet
  <2>2. CASE wallet[req[p].user] # NoWallet
    BY <1>7, <2>2, RollbackType DEF CreateWallet
  <2> QED BY <2>1, <2>2
<1>8. ASSUME NEW p \in Procs, SaveWallet(p) PROVE TypeInv'
  <2> DEFINE u == req[p].user
             current == IF wallet[u] = NoWallet THEN ent[p] ELSE wallet[u]
  <2>1. u \in Users /\ req[p].amt \in Int /\ current \in Wallet
    BY <1>8 DEF SaveWallet, Request
  <2>2. PICK base \in {ent[p], current} :
          ent' = [ent EXCEPT ![p] = NewRow(base, req[p], ent[p].bal + req[p].amt)]
    BY <1>8 DEF SaveWallet
  <2>3. base \in Wallet /\ ent[p] \in Wallet
    BY <2>1, <2>2
  <2>4. NewRow(base, req[p], ent[p].bal + req[p].amt) \in Wallet
    <3>1. ent[p].bal + req[p].amt \in Int
      BY <2>1, <2>3 DEF Wallet
    <3> QED BY <2>3, <3>1, NewRowType
  <2> QED BY <1>8, <2>1, <2>2, <2>4 DEF SaveWallet
<1>9. ASSUME NEW p \in Procs, InsertRow(p) PROVE TypeInv'
  <2> DEFINE r == req[p]  u == r.user
             row == [type |-> r.type, amt |-> r.amt, after |-> ent[p].bal, key |-> r.key]
  <2>1. CASE Unique(r.key)
    <3>1. r \in Request /\ u \in Users
      BY <1>9 DEF InsertRow, Request
    <3>2. row \in Row
      BY <3>1 DEF Request, Row, Wallet
    <3>3. ledger' = [ledger EXCEPT ![u] = Append(@, row)]
      BY <1>9, <2>1 DEF InsertRow
    <3> HIDE DEF row
    <3>4. ledger' \in [Users -> Seq(Row)]
      BY <3>1, <3>2, <3>3
    <3>5. wallet' \in [Users -> Wallet \cup {NoWallet}]
          /\ (\A v \in Users : wallet[v] # NoWallet => wallet'[v] # NoWallet)
      <4>1. wallet' = [wallet EXCEPT ![u] = ent[p]]
        BY <1>9, <2>1 DEF InsertRow
      <4> QED BY <3>1, <4>1, ConstantsAssumption
    <3>6. Outdate(p, u) \in [Procs -> BOOLEAN]
      BY OutdateType
    <3>7. TypeOK'
      BY <1>9, <1>f, <2>1, <3>1, <3>4, <3>5, <3>6 DEF InsertRow, Idle
    <3>8. Asked' /\ HasWallet'
      BY <1>9, <2>1, <3>5 DEF InsertRow, Idle, Request
    <3> QED BY <3>7, <3>8
  <2>2. CASE ~Unique(r.key)
    BY <1>9, <2>2, RollbackType DEF InsertRow
  <2> QED BY <2>1, <2>2
<1>10. ASSUME NEW p \in Procs, Abort(p) PROVE TypeInv'
  BY <1>10, RollbackType DEF Abort
<1>11. ASSUME ListExpired PROVE TypeInv'
  <2>1. todo' \subseteq Request
    BY <1>11 DEF ListExpired, Due, Request, Wallet, AllKeys, Types
  <2> QED BY <1>11, <2>1 DEF ListExpired
<1>12. ASSUME NEW r \in todo, ExpireNext(r) PROVE TypeInv'
  <2>1. Cron \in Procs /\ r \in Request
    BY DEF Procs
  <2> QED BY <1>12, <2>1 DEF ExpireNext, Ask
<1>13. CASE Tick
  BY <1>13 DEF Tick
<1>14. CASE UNCHANGED vars
  BY <1>14 DEF vars
<1> QED
  BY <1>1, <1>2, <1>3, <1>4, <1>5, <1>6, <1>7, <1>8, <1>9, <1>10, <1>11, <1>12,
     <1>13, <1>14 DEF Next, Statement

\* Type correctness of every reachable state.
THEOREM TypeCorrect == Spec => []TypeOK
<1>1. Init => TypeInv
  BY ConstantsAssumption
     DEF Init, TypeInv, TypeOK, Asked, HasWallet, Fresh, Wallet, Statuses
<1>2. TypeInv => TypeOK
  BY DEF TypeInv
<1> QED BY <1>1, <1>2, TypeStep, PTL DEF Spec
-----------------------------------------------------------------------------
(* The ledger: an inductive invariant.                                     *)

\* A transaction between its two writes holds the lock of the wallet row.
Holds == \A p \in Procs : pc[p] = "insert" => lock[req[p].user] = p

\* What a call knows of a balance is true until another call is marked to have
\* committed in between.
Current ==
  \A p \in Procs : ~stale[p] =>
    /\ pc[p] \in {"save", "status"} => ent[p].bal = Balance(req[p].user)
    /\ pc[p] = "insert" => ent[p].bal = Balance(req[p].user) + req[p].amt

Books == OneRowPerKey /\ BalanceIsLastRow /\ LedgerAddsUp

IInv == TypeInv /\ Holds /\ Current /\ Books

\* A step that shows no new row and no other balance.
Quiet ==
  /\ \A u \in Users : Balance(u)' = Balance(u)
  /\ UNCHANGED <<ledger, lost, overwritten>>

\* Appending a row leaves the others where they are.
LEMMA AppendRow ==
  ASSUME NEW s \in Seq(Row), NEW row \in Row, NEW t, t = Append(s, row)
  PROVE  /\ t \in Seq(Row) /\ t # <<>> /\ Len(t) = Len(s) + 1 /\ Len(s) \in Nat
         /\ \A i \in 1..Len(s) : t[i] = s[i]
         /\ t[Len(t)] = row
OBVIOUS

\* A committed transaction adds its row to the ledger of its wallet and puts
\* the balance of the row on the wallet.
LEMMA Committed ==
  ASSUME IInv, NEW p \in Procs, InsertRow(p), Unique(req[p].key)
  PROVE  \E u \in Users : \E row \in Row :
           /\ u = req[p].user /\ row.key = req[p].key /\ row.amt = req[p].amt
           /\ row.amt \in Int /\ row.after \in Int
           /\ ledger' = [ledger EXCEPT ![u] = Append(ledger[u], row)]
           /\ Balance(u)' = row.after /\ row.after = ent[p].bal
           /\ \A v \in Users : v # u => Balance(v)' = Balance(v)
           /\ lost' = [lost EXCEPT ![u] = lost[u] \/ stale[p]]
           /\ UNCHANGED overwritten
<1>1. /\ req[p] \in Request /\ ent[p] \in Wallet
      /\ wallet \in [Users -> Wallet \cup {NoWallet}] /\ ent[p] # NoWallet
  BY ConstantsAssumption DEF InsertRow, IInv, TypeInv, TypeOK, Asked
<1>2. PICK u \in Users : u = req[p].user
  BY <1>1 DEF Request
<1>3. PICK row \in Row :
        row = [type |-> req[p].type, amt |-> req[p].amt, after |-> ent[p].bal,
               key |-> req[p].key]
  BY <1>1 DEF Request, Row, Wallet
<1>4. /\ row.key = req[p].key /\ row.amt = req[p].amt /\ row.after = ent[p].bal
      /\ row.amt \in Int /\ row.after \in Int
  BY <1>1, <1>3 DEF Request, Wallet
<1>5. /\ ledger' = [ledger EXCEPT ![u] = Append(ledger[u], row)]
      /\ wallet' = [wallet EXCEPT ![u] = ent[p]]
      /\ lost' = [lost EXCEPT ![u] = lost[u] \/ stale[p]]
      /\ UNCHANGED overwritten
  BY <1>2, <1>3 DEF InsertRow
<1>6. Balance(u)' = row.after /\ (\A v \in Users : v # u => Balance(v)' = Balance(v))
  BY <1>1, <1>4, <1>5 DEF Balance
<1> QED BY <1>2, <1>4, <1>5, <1>6

\* Of all steps, only a commit and a status update show anything new.
LEMMA StepKinds ==
  ASSUME TypeInv, [Next]_vars
  PROVE  \/ Quiet
         \/ \E p \in Procs : InsertRow(p) /\ Unique(req[p].key)
         \/ \E p \in Procs, s \in Statuses : SaveStatus(p, s)
<1> USE DEF db, history
<1>0. ASSUME UNCHANGED <<wallet, ledger, lost, overwritten>> PROVE Quiet
  BY <1>0 DEF Quiet, Balance
<1>1. ASSUME NEW u \in Users, GetOrCreate(u), UNCHANGED <<ledger, lost, overwritten>>
      PROVE  Quiet
  BY <1>1, ConstantsAssumption
     DEF GetOrCreate, Quiet, Balance, TypeInv, TypeOK, Fresh, Wallet, Statuses
<1>2. ASSUME NEW p \in Procs, NEW r \in Posts, Post(p, r) PROVE Quiet
  BY <1>0, <1>2 DEF Post, Ask
<1>3. ASSUME NEW p \in Procs, NEW u \in Users, CancelBalance(p, u) PROVE Quiet
  BY <1>1, <1>3 DEF CancelBalance, Ask
<1>4. ASSUME NEW p \in Procs, NEW u \in Users, ReadForStatus(p, u) PROVE Quiet
  BY <1>1, <1>4 DEF ReadForStatus
<1>5. ASSUME NEW p \in Procs, CheckKey(p) \/ ReadWallet(p) \/ SaveWallet(p)
      PROVE  Quiet
  BY <1>0, <1>5 DEF CheckKey, ReadWallet, SaveWallet
<1>6. ASSUME NEW p \in Procs, CreateWallet(p) \/ Abort(p) PROVE Quiet
  BY <1>0, <1>6 DEF CreateWallet, Abort, Rollback
<1>7. ASSUME NEW p \in Procs, InsertRow(p), ~Unique(req[p].key) PROVE Quiet
  BY <1>0, <1>7 DEF InsertRow, Rollback
<1>8. CASE ListExpired \/ (\E r \in todo : ExpireNext(r)) \/ Tick \/ UNCHANGED vars
  BY <1>0, <1>8 DEF ListExpired, ExpireNext, Ask, Tick, vars
<1> QED BY <1>2, <1>3, <1>4, <1>5, <1>6, <1>7, <1>8 DEF Next, Statement

\* A quiet step keeps the books.
LEMMA QuietBooks ==
  ASSUME Books, Quiet
  PROVE  Books'
<1>1. OneRowPerKey'
  BY DEF Books, Quiet, OneRowPerKey
<1>2. BalanceIsLastRow'
  BY DEF Books, Quiet, BalanceIsLastRow, LastAfter
<1>3. LedgerAddsUp'
  BY DEF Books, Quiet, LedgerAddsUp
<1> QED BY <1>1, <1>2, <1>3 DEF Books

\* A commit keeps the books: the unique index refuses a second row of a key, the
\* balance is the row's, and a call that is not stale continues the last row.
LEMMA CommitBooks ==
  ASSUME IInv, NEW p \in Procs, InsertRow(p), Unique(req[p].key)
  PROVE  Books'
<1>1. PICK u \in Users, row \in Row :
        /\ u = req[p].user /\ row.key = req[p].key /\ row.amt = req[p].amt
        /\ row.amt \in Int /\ row.after \in Int
        /\ ledger' = [ledger EXCEPT ![u] = Append(ledger[u], row)]
        /\ Balance(u)' = row.after /\ row.after = ent[p].bal
        /\ \A v \in Users : v # u => Balance(v)' = Balance(v)
        /\ lost' = [lost EXCEPT ![u] = lost[u] \/ stale[p]]
        /\ UNCHANGED overwritten
  BY Committed
<1>2. /\ ledger \in [Users -> Seq(Row)] /\ lost \in [Users -> BOOLEAN]
      /\ stale \in [Procs -> BOOLEAN] /\ pc[p] = "insert"
  BY DEF IInv, TypeInv, TypeOK, InsertRow
<1>3. /\ ledger'[u] = Append(ledger[u], row)
      /\ \A v \in Users : v # u => ledger'[v] = ledger[v]
  BY <1>1, <1>2
<1>4. /\ Len(ledger'[u]) = Len(ledger[u]) + 1 /\ Len(ledger[u]) \in Nat
      /\ ledger'[u] # <<>> /\ ledger'[u][Len(ledger'[u])] = row
      /\ \A i \in 1..Len(ledger[u]) : ledger'[u][i] = ledger[u][i]
  BY <1>2, <1>3, AppendRow
<1>5. OneRowPerKey'
  <2> SUFFICES ASSUME NEW v \in Users, NEW w \in Users,
                      NEW i \in 1..Len(ledger'[v]), NEW j \in 1..Len(ledger'[w]),
                      ledger'[v][i].key = ledger'[w][j].key,
                      ledger'[v][i].key # NoKey
               PROVE  v = w /\ i = j
    BY DEF OneRowPerKey
  <2> DEFINE New(x, k) == x = u /\ k = Len(ledger[u]) + 1
  <2>1. \A x \in Users : \A k \in 1..Len(ledger'[x]) :
          ~New(x, k) => k \in 1..Len(ledger[x]) /\ ledger'[x][k] = ledger[x][k]
    <3>1. ASSUME NEW x \in Users, NEW k \in 1..Len(ledger'[x]), ~New(x, k)
          PROVE  k \in 1..Len(ledger[x]) /\ ledger'[x][k] = ledger[x][k]
      <4>1. CASE x = u
        <5>1. k \in 1..Len(ledger[u])
          BY <1>4, <3>1, <4>1
        <5> QED BY <1>4, <4>1, <5>1
      <4>2. CASE x # u
        BY <1>3, <4>2
      <4> QED BY <4>1, <4>2
    <3> QED BY <3>1
  <2>2. \A x \in Users : \A k \in 1..Len(ledger[x]) :
          row.key # NoKey => ledger[x][k].key # row.key
    BY <1>1 DEF Unique, KeyUsed
  <2>3. \A x \in Users : \A k \in 1..Len(ledger'[x]) :
          New(x, k) => ledger'[x][k] = row
    BY <1>4
  <2> HIDE DEF New
  <2>4. CASE New(v, i) /\ New(w, j)
    BY <2>4 DEF New
  <2>5. CASE New(v, i) /\ ~New(w, j)
    <3>1. ledger'[v][i] = row
      BY <2>3, <2>5
    <3>2. j \in 1..Len(ledger[w]) /\ ledger'[w][j] = ledger[w][j]
      BY <2>1, <2>5
    <3>3. row.key # NoKey /\ ledger[w][j].key = row.key
      BY <3>1, <3>2, Zenon
    <3> QED BY <2>2, <3>2, <3>3
  <2>6. CASE New(w, j) /\ ~New(v, i)
    <3>1. ledger'[w][j] = row
      BY <2>3, <2>6
    <3>2. i \in 1..Len(ledger[v]) /\ ledger'[v][i] = ledger[v][i]
      BY <2>1, <2>6
    <3>3. row.key # NoKey /\ ledger[v][i].key = row.key
      BY <3>1, <3>2, Zenon
    <3> QED BY <2>2, <3>2, <3>3
  <2>7. CASE ~New(v, i) /\ ~New(w, j)
    <3>1. /\ i \in 1..Len(ledger[v]) /\ ledger'[v][i] = ledger[v][i]
          /\ j \in 1..Len(ledger[w]) /\ ledger'[w][j] = ledger[w][j]
      BY <2>1, <2>7
    <3>2. ledger[v][i].key = ledger[w][j].key /\ ledger[v][i].key # NoKey
      BY <3>1, Zenon
    <3> QED BY <3>1, <3>2 DEF IInv, Books, OneRowPerKey
  <2> QED BY <2>4, <2>5, <2>6, <2>7
<1>6. \A v \in Users : LastAfter(v)' = IF v = u THEN row.after ELSE LastAfter(v)
  BY <1>3, <1>4 DEF LastAfter
<1>7. BalanceIsLastRow'
  BY <1>1, <1>6 DEF IInv, Books, BalanceIsLastRow
<1>8. LedgerAddsUp'
  <2> SUFFICES ASSUME NEW v \in Users, ~overwritten'[v], ~lost'[v],
                      NEW i \in 1..Len(ledger'[v])
               PROVE  ledger'[v][i].after =
                        ledger'[v][i].amt + (IF i = 1 THEN 0 ELSE ledger'[v][i - 1].after)
    BY DEF LedgerAddsUp
  <2>1. CASE v # u
    BY <1>1, <1>2, <1>3, <2>1 DEF IInv, Books, LedgerAddsUp
  <2>2. CASE v = u /\ i \in 1..Len(ledger[u])
    <3>1. ~lost[u] /\ ~overwritten[u]
      BY <1>1, <1>2, <2>2
    <3>2. i # 1 => i - 1 \in 1..Len(ledger[u])
      BY <1>4, <2>2
    <3> QED BY <1>4, <2>2, <3>1, <3>2 DEF IInv, Books, LedgerAddsUp
  <2>3. CASE v = u /\ i = Len(ledger[u]) + 1
    <3>1. ~stale[p] /\ ~overwritten[u]
      BY <1>1, <1>2, <2>3
    <3>2. row.after = LastAfter(u) + row.amt
      BY <1>1, <1>2, <3>1 DEF IInv, Current, Books, BalanceIsLastRow
    <3>3. LastAfter(u) = IF i = 1 THEN 0 ELSE ledger[u][i - 1].after
      <4>1. i = 1 <=> ledger[u] = <<>>
        BY <1>2, <1>4, <2>3, EmptySeq
      <4> QED BY <1>4, <2>3, <4>1 DEF LastAfter
    <3>4. i # 1 => ledger'[u][i - 1] = ledger[u][i - 1]
      BY <1>4, <2>3
    <3>5. LastAfter(u) \in Int
      <4>1. ledger[u] # <<>> => ledger[u][Len(ledger[u])] \in Row
        BY <1>2, EmptySeq
      <4> QED BY <4>1 DEF LastAfter, Row
    <3> QED BY <1>1, <1>4, <2>3, <3>2, <3>3, <3>4, <3>5
  <2> QED BY <1>4, <2>1, <2>2, <2>3
<1> QED BY <1>5, <1>7, <1>8 DEF Books

\* A status update writes no row; one that is not stale leaves the balance.
LEMMA StatusSaved ==
  ASSUME IInv, NEW p \in Procs, NEW s \in Statuses, SaveStatus(p, s)
  PROVE  \E u \in Users :
           /\ u = req[p].user /\ lock[u] = Nobody
           /\ UNCHANGED <<ledger, lost>>
           /\ overwritten' = [overwritten EXCEPT ![u] = overwritten[u] \/ stale[p]]
           /\ \A v \in Users : v # u \/ ~stale[p] => Balance(v)' = Balance(v)
<1>1. /\ pc[p] = "status" /\ req[p] \in Request
      /\ wallet[req[p].user] # NoWallet /\ ent[p] \in Wallet
      /\ wallet \in [Users -> Wallet \cup {NoWallet}]
  BY DEF SaveStatus, IInv, TypeInv, TypeOK, Asked, HasWallet
<1>2. PICK u \in Users : u = req[p].user
  BY <1>1 DEF Request
<1>3. PICK row \in {ent[p], wallet[u]} :
        wallet' = [wallet EXCEPT ![u] = [row EXCEPT !.status = s]]
  BY <1>2 DEF SaveStatus
<1>4. row \in Wallet
  BY <1>1, <1>2, <1>3
<1>5. [row EXCEPT !.status = s] # NoWallet /\ [row EXCEPT !.status = s].bal = row.bal
  BY <1>4, StatusRow, ConstantsAssumption DEF Wallet
<1>6. ~stale[p] => row.bal = wallet[u].bal
  BY <1>1, <1>2, <1>3 DEF IInv, Current, Balance
<1>7. \A v \in Users : v # u \/ ~stale[p] => Balance(v)' = Balance(v)
  BY <1>1, <1>2, <1>3, <1>5, <1>6 DEF Balance
<1> QED BY <1>2, <1>7 DEF SaveStatus

\* A status update keeps the books.
LEMMA StatusBooks ==
  ASSUME IInv, NEW p \in Procs, NEW s \in Statuses, SaveStatus(p, s)
  PROVE  Books'
<1>1. PICK u \in Users :
        /\ UNCHANGED <<ledger, lost>>
        /\ overwritten' = [overwritten EXCEPT ![u] = overwritten[u] \/ stale[p]]
        /\ \A v \in Users : v # u \/ ~stale[p] => Balance(v)' = Balance(v)
  BY StatusSaved
<1>2. overwritten \in [Users -> BOOLEAN]
  BY DEF IInv, TypeInv, TypeOK
<1>3. OneRowPerKey'
  BY <1>1 DEF IInv, Books, OneRowPerKey
<1>4. \A v \in Users : ~overwritten'[v] => ~overwritten[v] /\ Balance(v)' = Balance(v)
  BY <1>1, <1>2
<1>5. BalanceIsLastRow'
  BY <1>1, <1>4 DEF IInv, Books, BalanceIsLastRow, LastAfter
<1>6. LedgerAddsUp'
  BY <1>1, <1>4 DEF IInv, Books, LedgerAddsUp
<1> QED BY <1>3, <1>5, <1>6 DEF Books

\* Every step keeps the books.
LEMMA BooksStep == IInv /\ [Next]_vars => Books'
BY StepKinds, QuietBooks, CommitBooks, StatusBooks DEF IInv
-----------------------------------------------------------------------------
(* The rest of the invariant: locks, and what a call knows.                *)

\* A step moves the calls it does not belong to at most to stale, and frees no
\* lock of theirs.
Others(p) ==
  \A q \in Procs \ {p} :
    /\ pc'[q] = pc[q] /\ req'[q] = req[q] /\ ent'[q] = ent[q]
    /\ pc[q] = "insert" => lock'[req[q].user] = q
    /\ ~stale'[q] =>
         /\ ~stale[q]
         /\ pc[q] \in {"save", "status", "insert"} =>
              Balance(req[q].user)' = Balance(req[q].user)

\* What the invariant says of p itself, after the step.
Own(p) ==
  /\ pc'[p] = "insert" => lock'[req'[p].user] = p
  /\ ~stale'[p] =>
       /\ pc'[p] \in {"save", "status"} => ent'[p].bal = Balance(req[p].user)'
       /\ pc'[p] = "insert" => ent'[p].bal = Balance(req[p].user)' + req'[p].amt

\* The two together give the invariant.
LEMMA Split ==
  ASSUME IInv, NEW p \in Procs, Others(p), Own(p)
  PROVE  Holds' /\ Current'
<1>1. Holds'
  BY DEF IInv, Holds, Others, Own
<1>2. Current'
  <2> SUFFICES ASSUME NEW q \in Procs, ~stale'[q]
               PROVE  /\ pc'[q] \in {"save", "status"} =>
                           ent'[q].bal = Balance(req[q].user)'
                      /\ pc'[q] = "insert" =>
                           ent'[q].bal = Balance(req[q].user)' + req'[q].amt
    BY DEF Current, Balance
  <2>1. CASE q = p
    BY <2>1 DEF Own
  <2>2. CASE q # p
    <3>1. /\ pc'[q] = pc[q] /\ req'[q] = req[q] /\ ent'[q] = ent[q] /\ ~stale[q]
          /\ pc[q] \in {"save", "status", "insert"} =>
               Balance(req[q].user)' = Balance(req[q].user)
      BY <2>2 DEF Others
    <3> QED BY <3>1 DEF IInv, Current, Balance
  <2> QED BY <2>1, <2>2
<1> QED BY <1>1, <1>2

\* A quiet step that leaves the others' locks and ghosts alone leaves them alone.
LEMMA QuietOthers ==
  ASSUME IInv, Quiet, NEW p \in Procs,
         \A q \in Procs \ {p} :
            /\ pc'[q] = pc[q] /\ req'[q] = req[q] /\ ent'[q] = ent[q]
            /\ stale'[q] = stale[q],
         \A u \in Users : lock[u] \notin {p, Nobody} => lock'[u] = lock[u]
  PROVE  Others(p)
<1> SUFFICES ASSUME NEW q \in Procs \ {p}
             PROVE  /\ pc[q] = "insert" => lock'[req[q].user] = q
                    /\ pc[q] \in {"save", "status", "insert"} =>
                         Balance(req[q].user)' = Balance(req[q].user)
  BY DEF Others
<1>1. CASE pc[q] # "idle"
  <2>1. PICK u \in Users : u = req[q].user
    BY <1>1 DEF IInv, TypeInv, Asked, Request
  <2>2. pc[q] = "insert" => lock'[u] = q
    BY <2>1, ConstantsAssumption DEF IInv, Holds, Procs
  <2>3. Balance(u)' = Balance(u)
    BY DEF Quiet
  <2>4. req'[q] = req[q]
    OBVIOUS
  <2> QED BY <2>1, <2>2, <2>3, <2>4
<1>2. CASE pc[q] = "idle"
  BY <1>2
<1> QED BY <1>1, <1>2

\* Rolling back touches nobody else.
LEMMA RollbackStep ==
  ASSUME IInv, NEW p \in Procs, Rollback(p)
  PROVE  Others(p) /\ Own(p)
<1>1. Quiet
  BY DEF Rollback, Quiet, Balance
<1>2. \A u \in Users : lock[u] \notin {p, Nobody} => lock'[u] = lock[u]
  BY DEF Rollback, Unlock
<1>3. \A q \in Procs \ {p} :
        /\ pc'[q] = pc[q] /\ req'[q] = req[q] /\ ent'[q] = ent[q]
        /\ stale'[q] = stale[q]
  BY DEF Rollback, Idle, IInv, TypeInv, TypeOK
<1>4. Others(p)
  BY <1>1, <1>2, <1>3, QuietOthers
<1>5. pc'[p] = "idle"
  BY DEF Rollback, Idle, IInv, TypeInv, TypeOK
<1> QED BY <1>4, <1>5 DEF Own

\* A step that writes wallet u while nobody else has it locked: nobody else is
\* about to commit it, and those who have read it become stale.
LEMMA WriterStep ==
  ASSUME IInv, NEW p \in Procs, NEW u \in Users, lock[u] \in {p, Nobody},
         \A v \in Users : v # u => Balance(v)' = Balance(v) /\ lock'[v] = lock[v],
         stale' = [Outdate(p, u) EXCEPT ![p] = FALSE], Idle(p)
  PROVE  Others(p) /\ Own(p)
<1>1. pc'[p] = "idle"
  BY DEF Idle, IInv, TypeInv, TypeOK
<1>2. Others(p)
  <2> SUFFICES ASSUME NEW q \in Procs \ {p}
               PROVE  /\ pc'[q] = pc[q] /\ req'[q] = req[q] /\ ent'[q] = ent[q]
                      /\ pc[q] = "insert" => lock'[req[q].user] = q
                      /\ ~stale'[q] =>
                           /\ ~stale[q]
                           /\ pc[q] \in {"save", "status", "insert"} =>
                                Balance(req[q].user)' = Balance(req[q].user)
    BY DEF Others
  <2>1. pc'[q] = pc[q] /\ req'[q] = req[q] /\ ent'[q] = ent[q]
    BY DEF Idle, IInv, TypeInv, TypeOK
  <2>2. stale'[q] = IF pc[q] \in {"save", "status"} /\ req[q].user = u
                    THEN TRUE ELSE stale[q]
    BY DEF Outdate
  <2>3. CASE pc[q] = "idle"
    BY <2>1, <2>2, <2>3
  <2>4. CASE pc[q] # "idle"
    <3>1. PICK v \in Users : v = req[q].user
      BY <2>4 DEF IInv, TypeInv, Asked, Request
    <3>2. pc[q] = "insert" => lock[v] = q /\ v # u
      BY <3>1, ConstantsAssumption DEF IInv, Holds, Procs
    <3>3. pc[q] = "insert" => lock'[v] = q
      BY <3>2
    <3>4. v # u => Balance(v)' = Balance(v)
      OBVIOUS
    <3>5. ~stale'[q] => ~stale[q] /\
            (pc[q] \in {"save", "status", "insert"} => Balance(v)' = Balance(v))
      BY <2>2, <3>1, <3>2, <3>4
    <3> QED BY <2>1, <3>1, <3>3, <3>5
  <2> QED BY <2>3, <2>4
<1> QED BY <1>1, <1>2 DEF Own

\* A commit holds the lock of its wallet.
LEMMA CommitStep ==
  ASSUME IInv, NEW p \in Procs, InsertRow(p), Unique(req[p].key)
  PROVE  Others(p) /\ Own(p)
<1>1. PICK u \in Users :
        /\ u = req[p].user
        /\ \A v \in Users : v # u => Balance(v)' = Balance(v)
  BY Committed
<1>2. /\ lock' = [lock EXCEPT ![u] = Nobody] /\ pc[p] = "insert"
      /\ stale' = [Outdate(p, u) EXCEPT ![p] = FALSE] /\ Idle(p)
  BY <1>1 DEF InsertRow
<1>3. lock[u] = p /\ (\A v \in Users : v # u => lock'[v] = lock[v])
  BY <1>1, <1>2 DEF IInv, Holds, TypeInv, TypeOK
<1> QED BY <1>1, <1>2, <1>3, WriterStep

\* A status update waits until nobody has it.
LEMMA StatusStep ==
  ASSUME IInv, NEW p \in Procs, NEW s \in Statuses, SaveStatus(p, s)
  PROVE  Others(p) /\ Own(p)
<1>1. PICK u \in Users :
        /\ u = req[p].user /\ lock[u] = Nobody
        /\ \A v \in Users : v # u \/ ~stale[p] => Balance(v)' = Balance(v)
  BY StatusSaved
<1>2. /\ lock' = lock
      /\ stale' = [Outdate(p, u) EXCEPT ![p] = FALSE] /\ Idle(p)
  BY <1>1 DEF SaveStatus
<1> QED BY <1>1, <1>2, WriterStep

\* The statements of a transaction before its last one show nothing to the others.
LEMMA StatementStep ==
  ASSUME IInv, NEW p \in Procs,
         CheckKey(p) \/ ReadWallet(p) \/ CreateWallet(p) \/ SaveWallet(p)
  PROVE  Others(p) /\ Own(p)
<1> USE DEF db, history, IInv, TypeInv, TypeOK
<1>1. CASE CheckKey(p)
  <2>1. Quiet /\ pc'[p] \in {"idle", "read"}
    BY <1>1 DEF CheckKey, Idle, Quiet, Balance
  <2>2. Others(p)
    BY <1>1, <2>1, QuietOthers DEF CheckKey, Idle
  <2> QED BY <2>1, <2>2 DEF Own
<1>2. CASE ReadWallet(p)
  <2>1. Quiet
    BY <1>2 DEF ReadWallet, Quiet, Balance
  <2>2. Others(p)
    BY <1>2, <2>1, QuietOthers DEF ReadWallet
  <2>3. pc'[p] # "insert" /\ req' = req /\ wallet' = wallet
        /\ (pc'[p] = "save" => wallet[req[p].user] # NoWallet
                               /\ ent'[p] = wallet[req[p].user])
        /\ pc'[p] # "status"
    BY <1>2 DEF ReadWallet
  <2>4. Own(p)
    BY <2>3 DEF Own, Balance
  <2> QED BY <2>2, <2>4
<1>3. CASE CreateWallet(p)
  <2>1. CASE wallet[req[p].user] = NoWallet
    <3>1. Quiet
      BY <1>3, <2>1 DEF CreateWallet, Quiet, Balance
    <3>2. Others(p)
      BY <1>3, <2>1, <3>1, QuietOthers DEF CreateWallet
    <3>3. pc'[p] = "save" /\ ent'[p].bal = 0 /\ req' = req /\ wallet' = wallet
      BY <1>3, <2>1 DEF CreateWallet, Fresh
    <3>4. Own(p)
      BY <2>1, <3>3 DEF Own, Balance
    <3> QED BY <3>2, <3>4
  <2>2. CASE wallet[req[p].user] # NoWallet
    BY <1>3, <2>2, RollbackStep DEF CreateWallet
  <2> QED BY <2>1, <2>2
<1>4. CASE SaveWallet(p)
  <2>1. Quiet
    BY <1>4 DEF SaveWallet, Quiet, Balance
  <2>2. PICK u \in Users : u = req[p].user
    BY <1>4 DEF SaveWallet, Asked, Request
  <2>3. Others(p)
    BY <1>4, <2>1, <2>2, QuietOthers DEF SaveWallet, Free
  <2>4. PICK base : base \in Wallet /\
          ent' = [ent EXCEPT ![p] = NewRow(base, req[p], ent[p].bal + req[p].amt)]
    <3>1. ent[p] \in Wallet
          /\ (IF wallet[u] = NoWallet THEN ent[p] ELSE wallet[u]) \in Wallet
      OBVIOUS
    <3> QED BY <1>4, <2>2, <3>1 DEF SaveWallet
  <2>5. ent'[p].bal = ent[p].bal + req[p].amt
    BY <2>4 DEF NewRow, Wallet
  <2>6. Own(p)
    <3>1. /\ pc'[p] = "insert" /\ lock'[u] = p /\ req' = req /\ wallet' = wallet
          /\ pc[p] = "save" /\ stale' = stale
      BY <1>4, <2>2 DEF SaveWallet
    <3>2. ~stale[p] => ent[p].bal = Balance(u)
      BY <2>2, <3>1 DEF Current, Balance
    <3> QED BY <2>2, <2>5, <3>1, <3>2 DEF Own, Balance
  <2> QED BY <2>3, <2>6
<1> QED BY <1>1, <1>2, <1>3, <1>4

\* Every step keeps the locks and what the calls know.
LEMMA LockStep == IInv /\ [Next]_vars => Holds' /\ Current'
<1> SUFFICES ASSUME IInv, [Next]_vars PROVE Holds' /\ Current'
  OBVIOUS
<1> USE DEF db, history
<1>0. TypeInv /\ TypeOK
  BY DEF IInv, TypeInv
<1>1. ASSUME NEW p \in Procs, Others(p), Own(p) PROVE Holds' /\ Current'
  BY <1>1, Split
<1>2. ASSUME NEW p \in Procs, Quiet, UNCHANGED <<lock, stale>>, pc'[p] \in {"idle", "key"},
             \A q \in Procs \ {p} :
               pc'[q] = pc[q] /\ req'[q] = req[q] /\ ent'[q] = ent[q]
      PROVE  Holds' /\ Current'
  <2>1. Others(p)
    BY <1>2, QuietOthers
  <2> QED BY <1>1, <1>2, <2>1 DEF Own
<1>3. ASSUME NEW u \in Users, GetOrCreate(u), UNCHANGED <<ledger, lost, overwritten>>
      PROVE  Quiet
  BY <1>0, <1>3, ConstantsAssumption
     DEF GetOrCreate, Quiet, Balance, TypeOK, Fresh, Wallet, Statuses
<1>4. ASSUME NEW p \in Procs, NEW r \in Posts, Post(p, r) PROVE Holds' /\ Current'
  BY <1>0, <1>2, <1>4 DEF Post, Ask, Quiet, Balance, TypeOK
<1>5. ASSUME NEW p \in Procs, NEW u \in Users, CancelBalance(p, u)
      PROVE  Holds' /\ Current'
  <2>1. Quiet
    BY <1>3, <1>5 DEF CancelBalance, Ask
  <2> QED BY <1>0, <1>2, <1>5, <2>1 DEF CancelBalance, Ask, TypeOK
<1>6. ASSUME NEW p \in Procs, NEW u \in Users, ReadForStatus(p, u)
      PROVE  Holds' /\ Current'
  <2>1. Quiet
    BY <1>3, <1>6 DEF ReadForStatus
  <2>2. Others(p)
    BY <1>0, <1>6, <2>1, QuietOthers DEF ReadForStatus, TypeOK
  <2>3. /\ pc'[p] = "status" /\ req'[p].user = u /\ ent'[p] = wallet'[u]
        /\ wallet'[u] # NoWallet
    BY <1>0, <1>6, ConstantsAssumption
       DEF ReadForStatus, TypeOK, GetOrCreate, Fresh, Wallet, Statuses
  <2>4. Own(p)
    BY <2>3 DEF Own, Balance
  <2> QED BY <1>1, <2>2, <2>4
<1>7. ASSUME NEW p \in Procs, NEW s \in Statuses, SaveStatus(p, s)
      PROVE  Holds' /\ Current'
  BY <1>1, <1>7, StatusStep
<1>8. ASSUME NEW p \in Procs, Statement(p) PROVE Holds' /\ Current'
  <2>1. CASE InsertRow(p) /\ Unique(req[p].key)
    BY <1>1, <2>1, CommitStep
  <2>2. CASE InsertRow(p) /\ ~Unique(req[p].key)
    BY <1>1, <2>2, RollbackStep DEF InsertRow
  <2> QED BY <1>1, <1>8, <2>1, <2>2, StatementStep DEF Statement
<1>9. ASSUME NEW p \in Procs, Abort(p) PROVE Holds' /\ Current'
  BY <1>1, <1>9, RollbackStep DEF Abort
<1>10. ASSUME NEW r \in todo, ExpireNext(r) PROVE Holds' /\ Current'
  BY <1>0, <1>2, <1>10 DEF ExpireNext, Ask, Quiet, Balance, TypeOK, Procs
<1>11. CASE ListExpired \/ Tick \/ UNCHANGED vars
  BY <1>11 DEF ListExpired, Tick, vars, IInv, Holds, Current, Balance
<1> QED
  BY <1>4, <1>5, <1>6, <1>7, <1>8, <1>9, <1>10, <1>11 DEF Next

\* The invariant holds initially and is kept.
THEOREM LedgerInvariant == Spec => []IInv
<1>1. Init => IInv
  <2> SUFFICES ASSUME Init PROVE IInv
    OBVIOUS
  <2>1. TypeInv
    BY ConstantsAssumption
       DEF Init, TypeInv, TypeOK, Asked, HasWallet, Fresh, Wallet, Statuses
  <2>2. Holds /\ Current
    BY DEF Init, Holds, Current
  <2>3. \A u \in Users : ledger[u] = <<>> /\ wallet[u] = NoWallet
    BY DEF Init
  <2>4. Books
    BY <2>3 DEF Books, OneRowPerKey, BalanceIsLastRow, LedgerAddsUp, Balance, LastAfter
  <2> QED BY <2>1, <2>2, <2>4 DEF IInv
<1>2. IInv /\ [Next]_vars => IInv'
  BY TypeStep, BooksStep, LockStep DEF IInv
<1> QED BY <1>1, <1>2, PTL DEF Spec

\* No idempotency key is ever redeemed twice.
THEOREM KeysAreRedeemedOnce == Spec => []OneRowPerKey
<1>1. IInv => OneRowPerKey
  BY DEF IInv, Books
<1> QED BY <1>1, LedgerInvariant, PTL

\* The balance is the last row's unless a stale status update overwrote it.
THEOREM BalanceFollowsLedger == Spec => []BalanceIsLastRow
<1>1. IInv => BalanceIsLastRow
  BY DEF IInv, Books
<1> QED BY <1>1, LedgerInvariant, PTL

\* Without overlapping writers, the rows add up.
THEOREM LedgerAddsUpAlways == Spec => []LedgerAddsUp
<1>1. IInv => LedgerAddsUp
  BY DEF IInv, Books
<1> QED BY <1>1, LedgerInvariant, PTL

\* What AuditTrail says of one wallet in one step.
Audited(u) ==
  \/ ledger'[u] = ledger[u] /\ (Balance(u)' = Balance(u) \/ overwritten'[u])
  \/ /\ Len(ledger'[u]) = Len(ledger[u]) + 1
     /\ \A i \in 1..Len(ledger[u]) : ledger'[u][i] = ledger[u][i]
     /\ Balance(u)' = LastAfter(u)'

\* No balance moves without its row, and no row is lost or rewritten.
THEOREM LedgerIsAuditTrail == Spec => AuditTrail
<1>1. IInv /\ [Next]_vars => \A u \in Users : Audited(u)
  <2> SUFFICES ASSUME IInv, [Next]_vars, NEW u \in Users PROVE Audited(u)
    OBVIOUS
  <2>1. CASE Quiet
    BY <2>1 DEF Quiet, Audited
  <2>2. ASSUME NEW p \in Procs, InsertRow(p), Unique(req[p].key) PROVE Audited(u)
    <3>1. PICK v \in Users, row \in Row :
            /\ ledger' = [ledger EXCEPT ![v] = Append(ledger[v], row)]
            /\ Balance(v)' = row.after
            /\ \A w \in Users : w # v => Balance(w)' = Balance(w)
      BY <2>2, Committed
    <3>2. ledger \in [Users -> Seq(Row)]
      BY DEF IInv, TypeInv, TypeOK
    <3>3. CASE u = v
      <4>1. ledger'[u] = Append(ledger[u], row) /\ ledger[u] \in Seq(Row)
        BY <3>1, <3>2, <3>3
      <4>2. /\ Len(ledger'[u]) = Len(ledger[u]) + 1 /\ ledger'[u] # <<>>
            /\ \A i \in 1..Len(ledger[u]) : ledger'[u][i] = ledger[u][i]
            /\ ledger'[u][Len(ledger'[u])] = row
        BY <4>1, AppendRow
      <4>3. LastAfter(u)' = row.after
        BY <4>2 DEF LastAfter
      <4> QED BY <3>1, <3>3, <4>2, <4>3 DEF Audited
    <3>4. CASE u # v
      BY <3>1, <3>2, <3>4 DEF Audited
    <3> QED BY <3>3, <3>4
  <2>3. ASSUME NEW p \in Procs, NEW s \in Statuses, SaveStatus(p, s) PROVE Audited(u)
    <3>1. PICK v \in Users :
            /\ UNCHANGED <<ledger, lost>>
            /\ overwritten' = [overwritten EXCEPT ![v] = overwritten[v] \/ stale[p]]
            /\ \A w \in Users : w # v \/ ~stale[p] => Balance(w)' = Balance(w)
      BY <2>3, StatusSaved
    <3>2. overwritten \in [Users -> BOOLEAN] /\ stale[p] \in BOOLEAN
      BY DEF IInv, TypeInv, TypeOK
    <3> QED BY <3>1, <3>2 DEF Audited
  <2> QED BY <2>1, <2>2, <2>3, StepKinds DEF IInv
<1>2. (\A u \in Users : Audited(u)) =>
        [\A u \in Users :
           \/ ledger'[u] = ledger[u]
              /\ (Balance(u)' = Balance(u) \/ overwritten'[u])
           \/ /\ Len(ledger'[u]) = Len(ledger[u]) + 1
              /\ \A i \in 1..Len(ledger[u]) : ledger'[u][i] = ledger[u][i]
              /\ Balance(u)' = LastAfter(u)']_<<wallet, ledger>>
  BY DEF Audited
<1> QED BY <1>1, <1>2, LedgerInvariant, PTL DEF Spec, AuditTrail
=============================================================================
