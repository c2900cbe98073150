SPECIFICATION Spec
CONSTANTS
  Accounts = {pl, a, b}
  Platform = pl
  Market = Market
  Requests = {q1, q2}
  Prices = {7, 20}
  Fees = {20, 50}
  Funds = 27
  MaxListings = 2
  MaxPurchases = 2
  MaxFaults = 1
SYMMETRY MarketSymmetry
INVARIANTS
  TypeOK
  LedgerExact
  RowsMirrorListings
CHECK_DEADLOCK FALSE
