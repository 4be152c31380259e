CONSTANTS
  m1 = m1
  m2 = m2
  m3 = m3
  c1 = c1
  c2 = c2
  Monitors = {m1, m2, m3}
  Calls = {c1, c2}
  Interval <- Intervals
  PollConcurrency <- Two
  DefaultConcurrency = 1
  MaxCrashes = 1
SPECIFICATION Spec
INVARIANTS
  OneCycleAtATime
  PoolIsFull
  StatisticsAddUp
PROPERTIES
  ImplementsBatch
