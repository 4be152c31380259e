CONSTANTS
  r1 = r1
  p1 = p1
  p2 = p2
  m2 = m2
  m1 = m1
  base = base
  dropped = dropped
  retyped = retyped
  None = None
  Monitors = {m1, m2}
  Polls = {p1, p2}
  Requests = {r1}
  Schemas <- ThreeSchemas
  Verdict <- VerdictTable
  Overlap = FALSE
  Environment = {"resolve", "acknowledge"}
  MaxEvents = 3
SPECIFICATION Spec
INVARIANTS
  TypeOK
  AtMostOneUnacknowledged
  BreakingChangeLeavesIncident
  CriticalIsAnnounced
SYMMETRY Symmetry
