---------------------------- MODULE PollScheduler ----------------------------
(***************************************************************************)
(* jobs/scheduler.ts: pollDueMonitors, called by cron every minute, lists  *)
(* the due monitors and polls them through a bounded pool.                 *)
(*                                                                         *)
(* JavaScript runs from one await to the next without interruption, so an  *)
(* action here is everything a continuation does: the check of the guard   *)
(* and its setting, the end of one poll together with the pull of the next *)
(* item.  recordCheck, the pool's worker, is known here by the two things  *)
(* the scheduler can see of it: a check row appears, and the call settles. *)
(* CheckPipeline models it in detail.                                      *)
(*                                                                         *)
(* Name_Variant is Name with a plausible mistake in it; no action uses it. *)
(***************************************************************************)
EXTENDS Integers, FiniteSets, Sequences

CONSTANTS
  Monitors,         \* rows of api_monitors
  Calls,            \* identities of calls of pollDueMonitors
  Interval,         \* pollIntervalMinutes of each monitor, in units of time
  PollConcurrency,  \* the environment variable POLL_CONCURRENCY
  DefaultConcurrency,
  MaxCrashes        \* bound on restarts of the process

ASSUME SchedulerAssumption ==
  /\ IsFiniteSet(Monitors)
  /\ Interval \in [Monitors -> Nat \ {0}]
  /\ PollConcurrency \in [kind: {"unset", "number", "other"}, value: Int]
  /\ DefaultConcurrency \in Nat \ {0}
  /\ MaxCrashes \in Nat

Limit_Unchecked ==
  IF PollConcurrency.kind = "number" THEN PollConcurrency.value
                                     ELSE DefaultConcurrency

\* resolvePollConcurrency: only a positive integer counts.
Limit ==
  IF PollConcurrency.kind = "number" /\ PollConcurrency.value >= 1
  THEN PollConcurrency.value
  ELSE DefaultConcurrency

VARIABLES
  isActive,      \* isActive[m]: is m to be polled at all?
  age,           \* age[m]: time since m's latest check, Interval[m] if that
                 \* much or more, or if there is none
  cycleRunning,  \* the guard
  cycle,         \* cycle[c]: local variables of the call c of pollDueMonitors
                 \* and of its runBounded
  poll,          \* poll[c][m]: the recordCheck of c for m
  touched,       \* monitors a user polled, or switched on or off, since the
                 \* running cycle listed the due ones (history)
  crashes        \* restarts so far

vars == <<isActive, age, cycleRunning, cycle, poll, touched, crashes>>

IdleCycle == [stage |-> "idle", items |-> <<>>, next |-> 1, inFlight |-> 0,
              maxInFlight |-> 0, completed |-> 0, failed |-> 0]

Cycle == [stage: {"idle", "finding", "draining"}, items: Seq(Monitors),
          next: Nat, inFlight: Nat, maxInFlight: Nat, completed: Nat, failed: Nat]

NoPolls == [m \in Monitors |-> "none"]

TypeOK ==
  /\ isActive \in [Monitors -> BOOLEAN]
  /\ age \in [Monitors -> Nat]
  /\ cycleRunning \in BOOLEAN
  /\ cycle \in [Calls -> Cycle]
  /\ poll \in [Calls -> [Monitors -> {"none", "checking", "saved"}]]
  /\ touched \subseteq Monitors
  /\ crashes \in 0 .. MaxCrashes

Init ==
  /\ isActive \in [Monitors -> BOOLEAN]
  /\ age = [m \in Monitors |-> Interval[m]]
  /\ cycleRunning = FALSE
  /\ cycle = [c \in Calls |-> IdleCycle]
  /\ poll = [c \in Calls |-> NoPolls]
  /\ touched = {}
  /\ crashes = 0

-----------------------------------------------------------------------------
(* A call of pollDueMonitors.                                              *)

Due_Strictly(m) == isActive[m] /\ age[m] > Interval[m]

\* findDueMonitors: dueAt <= Date.now().
Due(m) == isActive[m] /\ age[m] >= Interval[m]

Minimum(a, b) == IF a <= b THEN a ELSE b

\* findMany has no order: the due monitors come in any.
Listings(S) ==
  {s \in [1 .. Cardinality(S) -> S] :
     \A i, j \in DOMAIN s : s[i] = s[j] => i = j}

Tick_NoGuard(c) ==
  /\ cycle[c].stage = "idle"
  /\ cycleRunning' = TRUE
  /\ cycle' = [cycle EXCEPT ![c].stage = "finding"]
  /\ UNCHANGED <<isActive, age, poll, touched, crashes>>

\* A tick that finds the guard set is skipped: it returns zeros and changes
\* nothing.
Tick(c) ==
  /\ cycle[c].stage = "idle"
  /\ ~ cycleRunning
  /\ cycleRunning' = TRUE
  /\ cycle' = [cycle EXCEPT ![c].stage = "finding"]
  /\ UNCHANGED <<isActive, age, poll, touched, crashes>>

FindFails_KeepsGuard(c) ==
  /\ cycle[c].stage = "finding"
  /\ cycle' = [cycle EXCEPT ![c] = IdleCycle]
  /\ UNCHANGED <<isActive, age, cycleRunning, poll, touched, crashes>>

\* findMany rejects: the finally block still releases the guard.
FindFails(c) ==
  /\ cycle[c].stage = "finding"
  /\ cycle' = [cycle EXCEPT ![c] = IdleCycle]
  /\ cycleRunning' = FALSE
  /\ UNCHANGED <<isActive, age, poll, touched, crashes>>

\* The database reads who is due, and the list arrives: runBounded starts
\* min(limit, length) workers, and each calls recordCheck for its first item before
\* anything else runs.  Reading and arriving are one action, as nobody sees
\* what a call has not started yet; what users do between the two is touched.
StartPool(c, items) ==
  LET workers == Minimum(Limit, Len(items))
  IN  /\ cycle[c].stage = "finding"
      /\ items \in Listings({m \in Monitors : Due(m)})
      /\ cycle' = [cycle EXCEPT ![c] =
                     [stage |-> "draining", items |-> items, next |-> workers + 1,
                      inFlight |-> workers, maxInFlight |-> workers,
                      completed |-> 0, failed |-> 0]]
      /\ poll' = [poll EXCEPT ![c] =
                    [m \in Monitors |-> IF \E k \in 1 .. workers : items[k] = m
                                        THEN "checking" ELSE "none"]]
      /\ touched' = {}
      /\ UNCHANGED <<isActive, age, cycleRunning, crashes>>

\* recordCheck has written the check of m.
SaveCheck(c, m) ==
  /\ poll[c][m] = "checking"
  /\ poll' = [poll EXCEPT ![c][m] = "saved"]
  /\ age' = [age EXCEPT ![m] = 0]
  /\ UNCHANGED <<isActive, cycleRunning, cycle, touched, crashes>>

Counted_NoFinally(r, thrown) ==
  [r EXCEPT !.completed = IF thrown THEN @ ELSE @ + 1,
            !.failed = IF thrown THEN @ + 1 ELSE @,
            !.inFlight = IF thrown THEN @ ELSE @ - 1]

Counted_DecrementsTwice(r, thrown) ==
  [r EXCEPT !.completed = IF thrown THEN @ ELSE @ + 1,
            !.failed = IF thrown THEN @ + 1 ELSE @,
            !.inFlight = IF thrown THEN @ - 2 ELSE @ - 1]

\* The counters after a poll has settled; its worker is not in flight now.
Counted(r, thrown) ==
  [r EXCEPT !.completed = IF thrown THEN @ ELSE @ + 1,
            !.failed = IF thrown THEN @ + 1 ELSE @,
            !.inFlight = @ - 1]

Pulled_TooEarly(r) ==
  IF r.next < Len(r.items) THEN [r EXCEPT !.next = @ + 1, !.inFlight = @ + 1]
                           ELSE r

\* The worker's next turn of the loop, if there is an item left.
Pulled(r) ==
  IF r.next <= Len(r.items)
  THEN [r EXCEPT !.next = @ + 1,
                 !.inFlight = @ + 1,
                 !.maxInFlight = IF @ > r.inFlight THEN @ ELSE r.inFlight + 1]
  ELSE r

\* The polls of a call after its worker has put m down and taken the next item.
Handed(r, P, m) ==
  LET down == [P EXCEPT ![m] = "none"]
  IN  IF r.next <= Len(r.items) THEN [down EXCEPT ![r.items[r.next]] = "checking"]
                                ELSE down

\* recordCheck for m settles - it may throw before or after the check is saved
\* - and the same worker goes on to the next item in the same continuation.
Settle(c, m) ==
  /\ \E thrown \in BOOLEAN :
       /\ poll[c][m] = "saved" \/ (poll[c][m] = "checking" /\ thrown)
       /\ cycle' = [cycle EXCEPT ![c] = Pulled(Counted(cycle[c], thrown))]
  /\ poll' = [poll EXCEPT ![c] = Handed(cycle[c], poll[c], m)]
  /\ UNCHANGED <<isActive, age, cycleRunning, touched, crashes>>

Drained_NotAwaited(c) ==
  /\ cycle[c].stage = "draining"
  /\ cycle[c].next > Len(cycle[c].items)

\* A worker ends when it finds the cursor at the end, so Promise.all resolves
\* when no worker has a poll any more.
Drained(c) ==
  /\ cycle[c].stage = "draining"
  /\ \A m \in Monitors : poll[c][m] = "none"

\* The call returns its statistics.
Return(c) ==
  /\ Drained(c)
  /\ cycle' = [cycle EXCEPT ![c] = IdleCycle]
  /\ cycleRunning' = FALSE
  /\ UNCHANGED <<isActive, age, poll, touched, crashes>>

-----------------------------------------------------------------------------
(* Around the scheduler.                                                   *)

\* A unit of time passes.
TimePasses ==
  /\ age' = [m \in Monitors |-> Minimum(age[m] + 1, Interval[m])]
  /\ UNCHANGED <<isActive, cycleRunning, cycle, poll, touched, crashes>>

\* A user polls m at once; the guard is not consulted, nor the interval.
PollNow(m) ==
  /\ age' = [age EXCEPT ![m] = 0]
  /\ touched' = touched \cup {m}
  /\ UNCHANGED <<isActive, cycleRunning, cycle, poll, crashes>>

SetActive(m) ==
  /\ isActive' = [isActive EXCEPT ![m] = ~ @]
  /\ touched' = touched \cup {m}
  /\ UNCHANGED <<age, cycleRunning, cycle, poll, crashes>>

\* The process restarts; the guard is a variable of the process.
Crash ==
  /\ crashes < MaxCrashes
  /\ crashes' = crashes + 1
  /\ cycleRunning' = FALSE
  /\ cycle' = [c \in Calls |-> IdleCycle]
  /\ poll' = [c \in Calls |-> NoPolls]
  /\ UNCHANGED <<isActive, age, touched>>

Next ==
  \/ \E c \in Calls : Tick(c)
  \/ \E c \in Calls : FindFails(c)
  \/ \E c \in Calls : \E items \in Listings({m \in Monitors : Due(m)}) :
       StartPool(c, items)
  \/ \E c \in Calls, m \in Monitors : SaveCheck(c, m)
  \/ \E c \in Calls, m \in Monitors : Settle(c, m)
  \/ \E c \in Calls : Return(c)
  \/ TimePasses
  \/ \E m \in Monitors : PollNow(m)
  \/ \E m \in Monitors : SetActive(m)
  \/ Crash

\* cron keeps ticking; the database answers the listing some time; every
\* recordCheck settles (the probe has a timeout of 10 s, the statements and the
\* SMTP exchange are taken to end); a drained pool returns.
Fairness ==
  /\ WF_vars(\E c \in Calls : Tick(c))
  /\ \A c \in Calls :
       /\ SF_vars(\E items \in Listings({m \in Monitors : Due(m)}) :
                    StartPool(c, items))
       /\ \A m \in Monitors : WF_vars(Settle(c, m))
       /\ WF_vars(Return(c))

Spec == Init /\ [][Next]_vars /\ Fairness

-----------------------------------------------------------------------------
(* What the scheduler is for.                                              *)

Live == {c \in Calls : cycle[c].stage # "idle"}
Running(P) == {m \in Monitors : P[m] # "none"}
Waiting(r) == {r.items[k] : k \in r.next .. Len(r.items)}

\* "Guards against overlapping cycles within this process": whatever the
\* interleaving of ticks, failing listings, ends and restarts, at most one call
\* is past the guard, the guard is set exactly while one is, and no poll of an
\* earlier call is still running then.
OneCycleAtATime ==
  /\ \A c, d \in Live : c = d
  /\ cycleRunning = (Live # {})
  /\ \A c \in Calls : Running(poll[c]) # {} => cycle[c].stage = "draining"

\* "a slow item never holds up the others": the pool is as full as the limit
\* and the unfinished items allow, at every moment of the cycle, however the
\* polls before have ended; and no monitor is in it twice.
PoolIsFull ==
  \A c \in Calls :
    cycle[c].stage = "draining" =>
      /\ cycle[c].inFlight = Cardinality(Running(poll[c]))
      /\ cycle[c].inFlight =
           Minimum(Limit, Len(cycle[c].items) - cycle[c].completed - cycle[c].failed)
      /\ Waiting(cycle[c]) \cap Running(poll[c]) = {}

\* The statistics of a cycle add up: each monitor due was polled, each poll
\* either completed or failed, and the limit was used.
StatisticsAddUp ==
  \A c \in Calls :
    Drained(c) =>
      /\ cycle[c].completed + cycle[c].failed = Len(cycle[c].items)
      /\ cycle[c].maxInFlight = Minimum(Limit, Len(cycle[c].items))

\* Nobody is polled by the scheduler before the interval is over, not even a
\* monitor that waits long in a slow cycle: what was due when it was listed
\* still is when its check is made, unless a user interfered.
NoEarlyPoll ==
  \A c \in Calls : \A m \in Monitors \ touched :
    m \in Waiting(cycle[c]) \/ poll[c][m] = "checking" => Due(m)

batch == IF \E c \in Calls : cycle[c].stage = "draining" THEN "polling"
         ELSE IF Live # {} THEN "listing" ELSE "closed"
waiting == UNION {Waiting(cycle[c]) : c \in Calls}
polling == UNION {Running(poll[c]) : c \in Calls}

Batch == INSTANCE PollBatch WITH batch <- batch, waiting <- waiting, polling <- polling

\* The scheduler keeps its promise: one batch at a time, each monitor of it
\* polled once, as many at once as the limit admits, until the batch is closed.
ImplementsBatch == Batch!Spec

\* A monitor that is due is polled, unless it stops being due first: slow or
\* failing polls of others, failing listings and restarts cannot shut it out.
DueIsPolled ==
  \A m \in Monitors :
    Due(m) ~> (~ Due(m) \/ \E c \in Calls : poll[c][m] # "none")

\* The guard is never left set for good, whichever way a cycle ends.
GuardIsReleased == cycleRunning ~> ~ cycleRunning

=============================================================================
