CONSTANTS
  o1 = o1
  o2 = o2
  p1 = p1
  p2 = p2
  Cron = cron
  NoOrder = NoOrder
  Overlap = TRUE
  Orders = {o1}
  Slots = {p1}
  WithWallet = {o1}
  WalletOnly = {}
  CodesOnly = {}
  Referred = {o1}
  Couponed = {}
  Total = 2
  Spent = 1
  Amounts <- MCRefunds
  Usage0 = 0
  MaxFaults = 2
  MaxRefunds = 0
SPECIFICATION FairSpec
PROPERTIES LeftoversEnd MoneyIsAnswered
