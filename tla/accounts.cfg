SPECIFICATION Spec
CONSTANTS
  Users = {u1, u2}
  Tokens = {t1, t2}
  Resets = {r1, r2}
  Logins = {l1}
  Keys = {k1}
  Hooks = {h1}
  Calls = {c1}
  First = First
  None = None
  MaxFaults = 1
SYMMETRY AccountSymmetry
INVARIANTS
  TypeOK
  LinksSound
  ResetTakesEffect
PROPERTIES
  OwnersOnly
CHECK_DEADLOCK FALSE
