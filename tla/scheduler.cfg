CONSTANTS
  m1 = m1
  m2 = m2
  c1 = c1
  c2 = c2
  Monitors = {m1, m2}
  Calls = {c1, c2}
  Interval <- Intervals
  PollConcurrency <- Zero
  DefaultConcurrency = 1
  MaxCrashes = 1
  Minute = 2
SPECIFICATION TimedSpec
INVARIANTS
  TimedTypeOK
  PolledOnTime
  NoEarlyPoll
PROPERTIES
  DueIsPolled
  GuardIsReleased
