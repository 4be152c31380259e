CONSTANTS
  r1 = r1
  p1 = p1
  m1 = m1
  base = base
  dropped = dropped
  retyped = retyped
  None = None
  Monitors = {m1}
  Polls = {p1}
  Requests = {r1}
  Schemas <- ThreeSchemas
  Verdict <- VerdictTable
  Overlap = FALSE
  Environment = {"throw", "crash", "mailFailure", "delete", "resolve"}
  MaxEvents = 5
SPECIFICATION Spec
INVARIANTS
  AtMostOneOpen
  OutageTracksChecks
  SnapshotsDiffer
  BreakingChangeLeavesIncident
SYMMETRY Symmetry
