SPECIFICATION Spec
CONSTANTS
  Accounts = {a1, a2}
  Vault = Vault
  Funds = 1
  Users = {u1}
  Jobs = {j1, j2}
  Requests = {q1}
  Purchases = {p1}
  Platform = a1
  CrawlJobs = {j2}
  NoUser = NoUser
  NoWallet = NoWallet
  SIGNUP_BONUS = 1
  JobDebit = 1
  CRAWL_JOB_COST = 2
  EVENT_INDEX_COST = 1
  WeiPerInc = 1
  MaxU64 = 0
  MaxI64 = 1
SYMMETRY CreditsSymmetry
INVARIANTS
  TypeOK
  Solvent
  BurnedForJobs
  BalanceSound
  PurchasesOnChain
CHECK_DEADLOCK FALSE
