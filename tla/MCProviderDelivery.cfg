CONSTANTS
  o1 = o1
  plan = plan
  Orders = {o1}
  Items = {1, 2}
  Esims = {11, 12}
  Polled = {11}
  Mixes <- MCMixes
  OrderOf <- MCOrderOf
  Quantity <- MCOne
  MadeFor <- MCMadeFor
  PlanOf <- MCPlanOf
  Slots = {1, 2}
  NoItem = NoItem
  NoRef = NoRef
  NoOrder = NoOrder
  NoEsim = NoEsim
  MaxRepeats = 1
  MaxFaults = 1
SPECIFICATION FairSpec
PROPERTIES AcceptedIsCompleted
INVARIANTS EsimsFindTheirBuyer CompletedIsDelivered RefundIsRecalled
CHECK_DEADLOCK FALSE
