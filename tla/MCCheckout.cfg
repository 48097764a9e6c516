CONSTANTS
  u1 = u1
  u2 = u2
  Users = {u1, u2}
  Orders = {1, 2}
  Buyer <- MCBuyer
  Referrer = u2
  Subtotal <- MCSubtotal
  UseWallet <- MCUseWallet
  Units <- MCUnits
  Funds <- MCFunds
  Percent = 15
  Limits <- MCLimits
  MinOrder = 10000
  Discount = 1000
  RewardVnd = 1000
  CashbackPercent = 2
  Refunds = {1000}
  Adjustments <- MCAdjustments
  MaxActs = 1
  MaxFaults = 1
SPECIFICATION MCSpec
INVARIANTS HeldIsCovered LimitsHold OfferIsComplete PaidIsDebited
CHECK_DEADLOCK FALSE
