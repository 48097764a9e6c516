CONSTANTS
  u1 = u1
  cashback = cashback
  reversal = reversal
  Cron = cron
  NoKey = NoKey
  NoReq = NoReq
  NoWallet = NoWallet
  Nobody = Nobody
  Users = {u1}
  Calls = {c1, c2}
  Keys <- MCKeys
  Posts <- MCPosts
  Life = 1
  MaxTime = 3
  MaxRows = 2
  MaxAborts = 1
SPECIFICATION FairSpec
INVARIANTS OneRowPerKey BalanceIsLastRow LedgerAddsUp
PROPERTIES AuditTrail ExpiredIsDrained
