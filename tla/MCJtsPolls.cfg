CONSTANTS
  NoJtsItem = NoJtsItem
  JtsItems <- MCItems
  JtsOrders <- MCOrders
  Ticks = {t1, t2}
  Page = 1
  Batch = 1
  MaxJtsFaults = 1
SPECIFICATION JtsFairSpec
INVARIANTS OneMail CompletedByMail
PROPERTIES RequestsEnd
