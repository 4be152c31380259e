--------------------------- MODULE PollTimingProofs ---------------------------
(***************************************************************************)
(* Theorems about PollTiming: on a clock the scheduler is still the        *)
(* scheduler of PollScheduler, and no monitor waits a whole minute after   *)
(* its interval unless something went wrong, whatever the intervals, the   *)
(* limit and the number of monitors are.                                   *)
(***************************************************************************)
EXTENDS PollTiming, PollSchedulerProofs

\* Time since cron last fired, or should have.
SinceTick == IF phase = 0 /\ ~ ticked THEN Minute ELSE phase

\* m is listed, or to be polled in the running cycle, or its poll has not saved
\* a check yet.
InHand(m) ==
  \E c \in Calls : \/ cycle[c].stage = "finding"
                   \/ m \in Waiting(cycle[c])
                   \/ poll[c][m] = "checking"

\* A tick since m's interval was over has taken m in hand.
TakenUp(m) == late[m] > SinceTick /\ ~ hindered[m] => InHand(m)

ClockType ==
  /\ phase \in 0 .. Minute - 1
  /\ ticked \in BOOLEAN
  /\ late \in [Monitors -> 0 .. Minute]
  /\ hindered \in [Monitors -> BOOLEAN]

TimedInv ==
  /\ SchedInv
  /\ ClockType
  /\ \A m \in Monitors : TakenUp(m)

LEMMA ClockFacts ==
  ASSUME ClockType
  PROVE  /\ phase \in Nat /\ Minute \in Nat /\ phase < Minute
         /\ SinceTick \in Nat /\ SinceTick <= Minute
         /\ \A m \in Monitors : late[m] \in Nat /\ late[m] <= Minute
BY TimingAssumption DEF ClockType, SinceTick

LEMMA ObserveType ==
  ASSUME ClockType, NEW time \in {0, 1}, NEW h \in BOOLEAN, Observe(time, h)
  PROVE  /\ late' \in [Monitors -> 0 .. Minute]
         /\ hindered' \in [Monitors -> BOOLEAN]
<1>1. \A m \in Monitors : Minimum(late[m] + time, Minute) \in 0 .. Minute
  BY ClockFacts DEF Minimum
<1>2. late' \in [Monitors -> 0 .. Minute]
  BY <1>1, ClockFacts DEF Observe
<1>3. hindered' \in [Monitors -> BOOLEAN]
  BY DEF Observe, ClockType, IntervalOver
<1>4. QED
  BY <1>2, <1>3

\* What it means that m is late after a step, and nothing has gone wrong.
LEMMA LateAfter ==
  ASSUME ClockType, NEW time \in {0, 1}, NEW h \in BOOLEAN, Observe(time, h),
         NEW m \in Monitors, NEW n \in Nat, late'[m] > n, ~ hindered'[m]
  PROVE  /\ IntervalOver(m) /\ IntervalOver(m)'
         /\ ~ hindered[m] /\ ~ h
         /\ late[m] + time > n
<1>1. late'[m] # 0
  BY ClockFacts
<1>2. /\ IntervalOver(m) /\ IntervalOver(m)'
      /\ late'[m] = Minimum(late[m] + time, Minute)
  BY <1>1 DEF Observe
<1>3. ~ hindered[m] /\ ~ h
  BY <1>2 DEF Observe, ClockType
<1>4. QED
  BY <1>2, <1>3, ClockFacts DEF Minimum

\* A step that takes no time keeps m in hand, unless it ends m's being late.
LEMMA UntimedStep ==
  ASSUME TimedInv, SchedInv', NEW h \in BOOLEAN, Observe(0, h),
         UNCHANGED <<phase, ticked>>,
         \A m \in Monitors :
           InHand(m) /\ IntervalOver(m) /\ IntervalOver(m)' /\ ~ h => InHand(m)'
  PROVE  TimedInv'
<1>1. ClockType'
  BY ObserveType DEF TimedInv, ClockType
<1>2. ASSUME NEW m \in Monitors, late'[m] > SinceTick', ~ hindered'[m]
      PROVE  InHand(m)'
  <2>1. SinceTick' = SinceTick /\ SinceTick \in Nat
    BY ClockFacts DEF SinceTick, TimedInv
  <2>2. /\ IntervalOver(m) /\ IntervalOver(m)' /\ ~ hindered[m] /\ ~ h
        /\ late[m] + 0 > SinceTick
    BY <1>2, <2>1, LateAfter DEF TimedInv
  <2>3. late[m] > SinceTick
    BY <2>1, <2>2, ClockFacts DEF TimedInv
  <2>4. QED
    BY <2>2, <2>3 DEF TimedInv, TakenUp
<1>3. QED
  BY <1>1, <1>2 DEF TimedInv, TakenUp

-----------------------------------------------------------------------------
(* What the steps do to the monitors in hand.                              *)

\* A listing without repetitions, as long as there are monitors, has them all.
LEMMA ListingHasAll ==
  ASSUME NEW S \in SUBSET Monitors, NEW items \in Listings(S), NEW m \in S
  PROVE  \E k \in 1 .. Len(items) : items[k] = m
<1> DEFINE n == Cardinality(S)
<1>1. IsFiniteSet(S) /\ n \in Nat
  BY SchedulerAssumption, FS_Subset, FS_CardinalityType
<1>2. /\ items \in [1 .. n -> S]
      /\ \A i, j \in 1 .. n : items[i] = items[j] => i = j
  BY DEF Listings
<1> HIDE DEF n
<1>3. items \in Injection(1 .. n, S)
  BY <1>2 DEF Injection, IsInjective
<1>4. Cardinality(1 .. n) = n
  BY <1>1, FS_Interval
<1>5. items \in Surjection(1 .. n, S)
  BY <1>1, <1>3, <1>4, FS_Injection DEF n
<1>6. \E k \in 1 .. n : items[k] = m
  BY <1>5 DEF Surjection
<1>7. items \in Seq(S) /\ Len(items) = n
  BY <1>1, <1>2
<1>8. QED
  BY <1>6, <1>7

LEMMA StartTakes ==
  ASSUME SchedInv, NEW c \in Calls,
         NEW items \in Listings({m \in Monitors : Due(m)}), StartPool(c, items),
         NEW m \in Monitors, IntervalOver(m)
  PROVE  InHand(m)'
<1>1. Due(m)
  BY SchedulerAssumption DEF IntervalOver, Due
<1>2. PICK k \in 1 .. Len(items) : items[k] = m
  BY <1>1, ListingHasAll
<1> DEFINE workers == Minimum(Limit, Len(items))
<1>3. /\ cycle'[c].items = items /\ cycle'[c].next = workers + 1
      /\ poll'[c] = [n \in Monitors |-> IF \E j \in 1 .. workers : items[j] = n
                                        THEN "checking" ELSE "none"]
  BY DEF StartPool, SchedInv, TypeOK
<1>4. workers \in Nat /\ Len(items) \in Nat
  BY LimitType, ListingFacts DEF Minimum
<1> HIDE DEF workers
<1>5. CASE k <= workers
  BY <1>2, <1>3, <1>4, <1>5 DEF InHand
<1>6. CASE k > workers
  BY <1>2, <1>3, <1>4, <1>6 DEF InHand, Waiting
<1>7. QED
  BY <1>4, <1>5, <1>6

LEMMA SaveKeeps ==
  ASSUME SchedInv, NEW c \in Calls, NEW m \in Monitors, SaveCheck(c, m),
         NEW n \in Monitors, InHand(n), IntervalOver(n)'
  PROVE  InHand(n)'
<1>1. n # m
  BY SchedulerAssumption DEF SaveCheck, IntervalOver, SchedInv, TypeOK
<1>2. \A d \in Calls : poll'[d][n] = poll[d][n] /\ cycle'[d] = cycle[d]
  BY <1>1 DEF SaveCheck, SchedInv, TypeOK
<1>3. QED
  BY <1>2 DEF InHand, Waiting

\* A poll that does not fail has saved its check, so its monitor was not in hand.
LEMMA SettleKeeps ==
  ASSUME SchedInv, NEW c \in Calls, NEW m \in Monitors, Settle(c, m),
         ~ cycle'[c].failed > cycle[c].failed,
         NEW n \in Monitors, InHand(n)
  PROVE  InHand(n)'
<1>1. PICK thrown \in BOOLEAN :
        /\ poll[c][m] = "saved" \/ (poll[c][m] = "checking" /\ thrown)
        /\ cycle' = [cycle EXCEPT ![c] = Pulled(Counted(cycle[c], thrown))]
  BY DEF Settle
<1>2. cycle'[c].failed = IF thrown THEN cycle[c].failed + 1 ELSE cycle[c].failed
  BY <1>1 DEF SchedInv, TypeOK, Cycle, Pulled, Counted
<1>3. poll[c][m] = "saved"
  BY <1>1, <1>2 DEF SchedInv, TypeOK, Cycle
<1>4. /\ \A d \in Live : d = c
      /\ cycle[c].stage = "draining" /\ m \in Running(poll[c])
      /\ Running(poll[c]) \cap Waiting(cycle[c]) = {}
  BY <1>3, PollIsLive, BusyNotWaiting
<1>5. n \in Waiting(cycle[c]) \/ poll[c][n] = "checking"
  <2>1. \A d \in Calls \ {c} :
          /\ cycle[d].stage = "idle"
          /\ Waiting(cycle[d]) = {} /\ poll[d][n] # "checking"
    BY <1>4, OthersIdle, NobodyPending
  <2>2. QED
    BY <1>4, <2>1 DEF InHand
<1>6. n # m
  BY <1>3, <1>4, <1>5
<1>7. n \in Waiting(cycle'[c]) \/ poll'[c][n] = "checking"
  BY <1>5, <1>6, SettleSlots
<1>8. QED
  BY <1>7 DEF InHand

\* Nobody is in hand when a call returns.
LEMMA ReturnHasNone ==
  ASSUME SchedInv, NEW c \in Calls, Return(c), NEW n \in Monitors
  PROVE  ~ InHand(n)
<1>1. /\ cycle[c].stage = "draining" /\ cycle[c] \in Cycle
      /\ Running(poll[c]) = {} /\ PoolOK(cycle[c], poll[c])
  BY DEF Return, Drained, Running, SchedInv, TypeOK
<1>2. Waiting(cycle[c]) = {}
  <2>1. cycle[c].inFlight = 0
    BY <1>1, FS_EmptySet DEF PoolOK
  <2>2. cycle[c].next \in Nat /\ Len(cycle[c].items) \in Nat
    BY <1>1 DEF Cycle
  <2>3. cycle[c].next > Len(cycle[c].items)
    BY <1>1, <2>1, <2>2, LimitType DEF PoolOK
  <2>4. QED
    BY <2>2, <2>3 DEF Waiting
<1>3. \A d \in Calls \ {c} :
        /\ cycle[d].stage = "idle"
        /\ Waiting(cycle[d]) = {} /\ poll[d][n] # "checking"
  <2>1. \A d \in Live : d = c
    BY <1>1 DEF SchedInv, OneCycleAtATime, Live
  <2>2. QED
    BY <2>1, OthersIdle, NobodyPending
<1>4. poll[c][n] # "checking"
  BY <1>1, NobodyPending
<1>5. QED
  BY <1>1, <1>2, <1>3, <1>4 DEF InHand

-----------------------------------------------------------------------------
(* The invariant is inductive.                                             *)

LEMMA TickKeeps == ASSUME TimedInv, SchedInv', CronTick PROVE TimedInv'
<1>1. PICK h \in BOOLEAN :
        /\ Observe(0, h)
        /\ h \/ \E c \in Calls : Tick(c)
  BY DEF CronTick
<1>2. ClockType' /\ SinceTick' = 0
  BY <1>1, ObserveType DEF CronTick, TimedInv, ClockType, SinceTick
<1>3. ASSUME NEW m \in Monitors, late'[m] > 0, ~ hindered'[m]
      PROVE  InHand(m)'
  <2>1. ~ h
    BY <1>1, <1>3, LateAfter DEF TimedInv
  <2>2. PICK c \in Calls : Tick(c)
    BY <1>1, <2>1
  <2>3. cycle'[c].stage = "finding"
    BY <2>2 DEF Tick, TimedInv, SchedInv, TypeOK
  <2>4. QED
    BY <2>3 DEF InHand
<1>4. QED
  BY <1>2, <1>3 DEF TimedInv, TakenUp

LEMMA ClockKeeps == ASSUME TimedInv, SchedInv', ClockAdvances PROVE TimedInv'
<1>1. /\ phase \in Nat /\ Minute \in Nat \ {0} /\ phase < Minute
      /\ phase # 0 \/ ticked
  BY ClockFacts, TimingAssumption DEF TimedInv, ClockAdvances
<1>2. /\ phase' = IF phase + 1 = Minute THEN 0 ELSE phase + 1
      /\ ticked' = FALSE
  BY <1>1 DEF ClockAdvances
<1>3. ClockType'
  <2>1. phase' \in 0 .. Minute - 1
    <3>1. CASE phase + 1 = Minute
      BY <1>1, <1>2, <3>1
    <3>2. CASE phase + 1 # Minute
      BY <1>1, <1>2, <3>2
    <3>3. QED
      BY <3>1, <3>2
  <2>2. Observe(1, FALSE) /\ ClockType
    BY DEF ClockAdvances, TimedInv
  <2>3. QED
    BY <1>2, <2>1, <2>2, ObserveType DEF ClockType
<1>4. SinceTick = phase /\ SinceTick' = phase + 1
  BY <1>1, <1>2 DEF SinceTick
<1>5. ASSUME NEW m \in Monitors, late'[m] > SinceTick', ~ hindered'[m]
      PROVE  InHand(m)'
  <2> DEFINE n == phase + 1
  <2>1. n \in Nat /\ late'[m] > n
    BY <1>1, <1>4, <1>5
  <2>2. Observe(1, FALSE) /\ ClockType
    BY DEF ClockAdvances, TimedInv
  <2> HIDE DEF n
  <2>3. ~ hindered[m] /\ late[m] + 1 > n
    BY <1>5, <2>1, <2>2, LateAfter
  <2>4. late[m] > SinceTick
    BY <1>1, <1>4, <2>1, <2>2, <2>3, ClockFacts DEF n
  <2>5. InHand(m)
    BY <2>3, <2>4 DEF TimedInv, TakenUp
  <2>6. QED
    BY <2>5 DEF InHand, ClockAdvances, TimePasses
<1>6. QED
  BY <1>3, <1>5 DEF TimedInv, TakenUp

\* On the clock, too, every step is a step of the scheduler or none.
LEMMA TimedIsScheduler == TimedNext => [Next]_vars
<1> SUFFICES ASSUME TimedNext PROVE Next \/ UNCHANGED vars
  OBVIOUS
<1>1. CASE CronTick \/ ClockAdvances
  BY <1>1 DEF CronTick, ClockAdvances, Next
<1>2. CASE ~ (CronTick \/ ClockAdvances)
  BY <1>2 DEF TimedNext, Untimed, List, SettleTimed, Next
<1>3. QED
  BY <1>1, <1>2

LEMMA TimedInductive == TimedInv /\ [TimedNext]_timedVars => TimedInv'
<1> SUFFICES ASSUME TimedInv, [TimedNext]_timedVars PROVE TimedInv'
  OBVIOUS
<1>1. SchedInv'
  BY TimedIsScheduler, StepInv DEF TimedInv, timedVars
<1>2. CASE CronTick
  BY <1>1, <1>2, TickKeeps
<1>3. CASE ClockAdvances
  BY <1>1, <1>3, ClockKeeps
<1>4. ASSUME NEW c \in Calls, Untimed(FindFails(c), TRUE) PROVE TimedInv'
  BY <1>1, <1>4, UntimedStep DEF Untimed
<1>5. ASSUME NEW c \in Calls, Untimed(List(c), FALSE) PROVE TimedInv'
  <2>1. \A m \in Monitors : IntervalOver(m) => InHand(m)'
    BY <1>5, StartTakes DEF Untimed, List, TimedInv
  <2>2. Observe(0, FALSE) /\ UNCHANGED <<phase, ticked>>
    BY <1>5 DEF Untimed
  <2>3. QED
    BY <1>1, <2>1, <2>2, UntimedStep
<1>6. ASSUME NEW c \in Calls, NEW m \in Monitors, Untimed(SaveCheck(c, m), FALSE)
      PROVE  TimedInv'
  <2>1. \A n \in Monitors : InHand(n) /\ IntervalOver(n)' => InHand(n)'
    BY <1>6, SaveKeeps DEF Untimed, TimedInv
  <2>2. Observe(0, FALSE) /\ UNCHANGED <<phase, ticked>>
    BY <1>6 DEF Untimed
  <2>3. QED
    BY <1>1, <2>1, <2>2, UntimedStep
<1>7. ASSUME NEW c \in Calls, NEW m \in Monitors, SettleTimed(c, m)
      PROVE  TimedInv'
  <2> DEFINE h == cycle'[c].failed > cycle[c].failed
  <2>1. /\ Settle(c, m) /\ Observe(0, h) /\ UNCHANGED <<phase, ticked>>
        /\ h \in BOOLEAN
    BY <1>7 DEF SettleTimed, Untimed
  <2>2. \A n \in Monitors : InHand(n) /\ ~ h => InHand(n)'
    BY <2>1, SettleKeeps DEF TimedInv
  <2> HIDE DEF h
  <2>3. QED
    BY <1>1, <2>1, <2>2, UntimedStep
<1>8. ASSUME NEW c \in Calls, Untimed(Return(c), FALSE) PROVE TimedInv'
  <2>1. \A m \in Monitors : ~ InHand(m)
    BY <1>8, ReturnHasNone DEF Untimed, TimedInv
  <2>2. Observe(0, FALSE) /\ UNCHANGED <<phase, ticked>>
    BY <1>8 DEF Untimed
  <2>3. QED
    BY <1>1, <2>1, <2>2, UntimedStep
<1>9. ASSUME NEW m \in Monitors,
             Untimed(PollNow(m), FALSE) \/ Untimed(SetActive(m), FALSE)
      PROVE  TimedInv'
  <2>1. \A n \in Monitors : InHand(n) => InHand(n)'
    BY <1>9 DEF Untimed, PollNow, SetActive, InHand
  <2>2. Observe(0, FALSE) /\ UNCHANGED <<phase, ticked>>
    BY <1>9 DEF Untimed
  <2>3. QED
    BY <1>1, <2>1, <2>2, UntimedStep
<1>10. CASE Untimed(Crash, TRUE)
  BY <1>1, <1>10, UntimedStep DEF Untimed
<1>11. CASE UNCHANGED timedVars
  BY <1>1, <1>11
  DEF timedVars, vars, TimedInv, ClockType, TakenUp, InHand, SinceTick
<1>12. QED
  BY <1>2, <1>3, <1>4, <1>5, <1>6, <1>7, <1>8, <1>9, <1>10, <1>11 DEF TimedNext

LEMMA TimedInitInv == TimedInit => TimedInv
<1> SUFFICES ASSUME TimedInit PROVE TimedInv
  OBVIOUS
<1>1. SchedInv
  BY InitInv DEF TimedInit
<1>2. ClockType
  <2>1. 0 \in 0 .. Minute - 1 /\ 0 \in 0 .. Minute
    BY TimingAssumption
  <2>2. QED
    BY <2>1 DEF TimedInit, ClockType
<1>3. \A m \in Monitors : ~ late[m] > SinceTick
  BY <1>2, ClockFacts DEF TimedInit
<1>4. QED
  BY <1>1, <1>2, <1>3 DEF TimedInv, TakenUp

LEMMA TimedInvariant == TimedSpec => []TimedInv
BY TimedInitInv, TimedInductive, PTL DEF TimedSpec

-----------------------------------------------------------------------------
(* The properties.                                                         *)

\* Every variable keeps its type, the clock's included.
THEOREM TimedTypeCorrect == TimedSpec => []TimedTypeOK
<1>1. TimedInv => TimedTypeOK
  BY DEF TimedInv, SchedInv, ClockType, TimedTypeOK
<1>2. QED
  BY <1>1, TimedInvariant, PTL

\* Putting cron and the durations on a clock takes nothing away: what is proved
\* of every behaviour of PollScheduler's safety part holds of this one.
THEOREM ClockKeepsScheduler == TimedSpec => Init /\ [][Next]_vars
<1>1. TimedInit => Init
  BY DEF TimedInit
<1>2. [TimedNext]_timedVars => [Next]_vars
  BY TimedIsScheduler DEF timedVars
<1>3. QED
  BY <1>1, <1>2, PTL DEF TimedSpec

\* A monitor whose interval is over is in hand of the scheduler within a minute,
\* or a tick was skipped, a listing or its cycle's poll failed, or the process
\* restarted since (cron every minute, findDueMonitors, the guard).
THEOREM OnTime == TimedSpec => []PolledOnTime
<1>1. ASSUME TimedInv, NEW m \in Monitors,
             late[m] = Minute, ~ hindered[m], phase = 0 => ticked
      PROVE  InHand(m)
  <2>1. late[m] > SinceTick
    BY <1>1, ClockFacts DEF SinceTick, TimedInv
  <2>2. QED
    BY <1>1, <2>1 DEF TimedInv, TakenUp
<1>2. ASSUME NEW m \in Monitors, InHand(m)
      PROVE  \E c \in Calls : \/ cycle[c].stage = "finding"
                              \/ m \in Waiting(cycle[c])
                              \/ poll[c][m] # "none"
  BY <1>2 DEF InHand
<1>3. TimedInv => PolledOnTime
  BY <1>1, <1>2 DEF PolledOnTime
<1>4. QED
  BY <1>3, TimedInvariant, PTL

=============================================================================
