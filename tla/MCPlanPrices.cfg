CONSTANTS
  Procs = {j1, j2}
  j1 = j1
  j2 = j2
  Plans = {1, 2}
  Offers <- MCOffers
  Ranges <- MCRanges
  Rates <- MCRates
  Default <- MCDefault
  Edits <- MCEdits
  Keep = Keep
  MaxOps = 3
  MaxFaults = 1
SYMMETRY Jobs
SPECIFICATION Spec
INVARIANTS TypeOK MarginIsCharged BuyersPayTheMargin OneCheapest OnSaleIsOffered
CHECK_DEADLOCK FALSE
