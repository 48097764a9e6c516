CONSTANTS
  o1 = o1
  o2 = o2
  Orders = {o1, o2}
  Muted = {o2}
  Items = {1, 2}
  OrderOf <- MCOrderOf
  Quantity <- MCQuantity
  Esims = {1, 2}
  NoItem = NoItem
  NoOrder = NoOrder
  MaxFaults = 1
SPECIFICATION FairSpec
INVARIANTS AvailableIsFree SoldOnce
PROPERTIES CompletedIsDelivered RefundedIsNotSold PaidIsServed
CHECK_DEADLOCK FALSE
