CONSTANTS
  Topups = {"topup"}
  Links = {"link"}
  MaxFaults = 1
  MaxEdits = 1
SPECIFICATION FairSpec
INVARIANTS AppliedOnce StatusTells
PROPERTY MoneySettles
CHECK_DEADLOCK FALSE
