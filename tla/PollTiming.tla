----------------------------- MODULE PollTiming -----------------------------
(***************************************************************************)
(* PollScheduler on a clock: cron (jobs/scheduler.ts, startScheduler)      *)
(* calls pollDueMonitors at the start of every minute and at no other      *)
(* time, while lists, probes and statements take as long as they take.  A  *)
(* check is stamped when it is saved, in the middle of a minute, so a      *)
(* monitor falls due between two ticks and waits for the second.           *)
(*                                                                         *)
(* A minute has Minute units of time; ages and intervals count units here. *)
(***************************************************************************)
EXTENDS PollScheduler

CONSTANT Minute  \* units of time in a minute

ASSUME TimingAssumption ==
  /\ Minute \in Nat \ {0}
  /\ \A m \in Monitors : Interval[m] % Minute = 0

VARIABLES
  phase,     \* units since the minute began
  ticked,    \* has cron fired for this minute?
  late,      \* late[m]: units since m's interval was over, Minute if that many
             \* or more (history)
  hindered   \* hindered[m]: since then a tick was skipped, a listing or a poll
             \* failed, or the process restarted (history)

timedVars == <<vars, phase, ticked, late, hindered>>

TimedTypeOK ==
  /\ TypeOK
  /\ phase \in 0 .. Minute - 1
  /\ ticked \in BOOLEAN
  /\ late \in [Monitors -> 0 .. Minute]
  /\ hindered \in [Monitors -> BOOLEAN]

TimedInit ==
  /\ Init
  /\ phase = 0
  /\ ticked = FALSE
  /\ late = [m \in Monitors |-> 0]
  /\ hindered = [m \in Monitors |-> FALSE]

-----------------------------------------------------------------------------
IntervalOver(m) == isActive[m] /\ age[m] = Interval[m]

\* The history of a step that takes some time, or none, and may be a hindrance.
Observe(time, hindrance) ==
  /\ late' = [m \in Monitors |->
                IF IntervalOver(m)' THEN IF IntervalOver(m)
                                         THEN Minimum(late[m] + time, Minute)
                                         ELSE 0
                                    ELSE 0]
  /\ hindered' = [m \in Monitors |->
                    IntervalOver(m)' /\ (hindered[m] \/ hindrance)]

\* cron fires: a call of pollDueMonitors starts, or is skipped.
CronTick ==
  /\ phase = 0 /\ ~ ticked
  /\ \/ /\ \E c \in Calls : Tick(c)
        /\ Observe(0, FALSE)
     \/ /\ cycleRunning
        /\ UNCHANGED vars
        /\ Observe(0, TRUE)
  /\ ticked' = TRUE
  /\ UNCHANGED phase

\* cron is not late: it fires before the minute goes on.
ClockAdvances ==
  /\ phase # 0 \/ ticked
  /\ TimePasses
  /\ phase' = (phase + 1) % Minute
  /\ ticked' = FALSE
  /\ Observe(1, FALSE)

\* What happens between two movements of the clock; a poll that failed left its
\* monitor as late as it was.
Untimed(A, hindrance) ==
  /\ A
  /\ Observe(0, hindrance)
  /\ UNCHANGED <<phase, ticked>>

List(c) ==
  \E items \in Listings({m \in Monitors : Due(m)}) : StartPool(c, items)

SettleTimed(c, m) ==
  Untimed(Settle(c, m), cycle'[c].failed > cycle[c].failed)

TimedNext ==
  \/ CronTick
  \/ ClockAdvances
  \/ \E c \in Calls : Untimed(FindFails(c), TRUE)
  \/ \E c \in Calls : Untimed(List(c), FALSE)
  \/ \E c \in Calls, m \in Monitors : Untimed(SaveCheck(c, m), FALSE)
  \/ \E c \in Calls, m \in Monitors : SettleTimed(c, m)
  \/ \E c \in Calls : Untimed(Return(c), FALSE)
  \/ \E m \in Monitors : Untimed(PollNow(m), FALSE)
  \/ \E m \in Monitors : Untimed(SetActive(m), FALSE)
  \/ Untimed(Crash, TRUE)

\* The clock never stops and cron fires; the rest as in PollScheduler.
TimedFairness ==
  /\ WF_timedVars(ClockAdvances)
  /\ WF_timedVars(CronTick)
  /\ \A c \in Calls :
       /\ SF_timedVars(Untimed(List(c), FALSE))
       /\ \A m \in Monitors : WF_timedVars(SettleTimed(c, m))
       /\ WF_timedVars(Untimed(Return(c), FALSE))

TimedSpec == TimedInit /\ [][TimedNext]_timedVars /\ TimedFairness

-----------------------------------------------------------------------------
\* No monitor waits a whole minute after its interval is over without being
\* listed, waiting in the pool or being polled, unless a tick was skipped, a
\* listing or poll failed or the process restarted meanwhile.  With NoEarlyPoll:
\* two polls are an interval to an interval and a minute apart, and the minute is
\* what a check saved after its tick costs.
PolledOnTime ==
  \A m \in Monitors :
    late[m] = Minute /\ ~ hindered[m] /\ (phase = 0 => ticked) =>
      \E c \in Calls : \/ cycle[c].stage = "finding"
                       \/ m \in Waiting(cycle[c])
                       \/ poll[c][m] # "none"

=============================================================================
