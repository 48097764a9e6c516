CONSTANTS
  o1 = o1
  o2 = o2
  p1 = p1
  p2 = p2
  Cron = cron
  NoOrder = NoOrder
  Overlap = TRUE
  Orders = {o1}
  Slots = {p1, p2}
  WithWallet = {o1}
  WalletOnly = {}
  CodesOnly = {}
  Referred = {o1}
  Couponed = {}
  Total = 2
  Spent = 1
  Amounts <- MCRefunds
  Usage0 = 0
  MaxFaults = 1
  MaxRefunds = 1
SPECIFICATION Spec
INVARIANTS NoPaymentNoBenefit RewardBeforeReversal
SYMMETRY MCSymmetry
