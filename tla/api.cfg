CONSTANTS
  e1 = e1
  e2 = e2
  f1 = f1
  f2 = f2
  r1 = r1
  r2 = r2
  r3 = r3
  m1 = m1
  None = None
  Addresses = {e1, e2}
  Founders = {f1, f2}
  Requests = {r1, r2, r3}
  Monitors = {m1}
  MaxChecks = 2
SPECIFICATION Spec
INVARIANTS
  TypeOK
  RegisteredOwnsAddress
  WritesAreOwners
  MetricsAgree
SYMMETRY Symmetry
CHECK_DEADLOCK FALSE
