CONSTANTS
  o1 = o1
  o2 = o2
  p1 = p1
  p2 = p2
  Cron = cron
  NoOrder = NoOrder
  Overlap = FALSE
  Orders = {o1, o2}
  Slots = {p1}
  WithWallet = {o1}
  WalletOnly = {}
  CodesOnly = {o2}
  Referred = {o1}
  Couponed = {o2}
  Total = 2
  Spent = 1
  Amounts <- MCAllRefunds
  Usage0 = 0
  MaxFaults = 1
  MaxRefunds = 2
SPECIFICATION Spec
INVARIANTS RestIsComplete
PROPERTIES KeepsPromise
