SPECIFICATION Spec
CONSTANTS
  Accounts = {a1}
  Vault = Vault
  Funds = 1
  Users = {u1}
  Jobs = {j1, j2, j3}
  Requests = {q1}
  Purchases = {}
  Platform = a1
  CrawlJobs = {}
  NoUser = NoUser
  NoWallet = NoWallet
  SIGNUP_BONUS = 1
  JobDebit = 1
  CRAWL_JOB_COST = 2
  EVENT_INDEX_COST = 1
  WeiPerInc = 1
  MaxU64 = 0
  MaxI64 = 0
INVARIANT
  PaidInFull
CHECK_DEADLOCK FALSE
