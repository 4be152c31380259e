CONSTANTS
  m1 = m1
  c1 = c1
  c2 = c2
  r1 = r1
  base = base
  dropped = dropped
  None = None
  Monitors = {m1}
  Calls = {c1, c2}
  Requests = {r1}
  Schemas <- TwoSchemas
  Verdict <- VerdictTable
  Environment = {"throw", "crash", "resolve", "delete"}
  MaxEvents = 3
  Interval <- Intervals
  PollConcurrency <- One
  DefaultConcurrency = 1
  MaxCrashes = 1
SPECIFICATION SystemSpec
INVARIANTS
  PoolMirrorsPolls
PROPERTIES
  SchedulerPollsSerially
  DownIsReported
  UpIsCleared
