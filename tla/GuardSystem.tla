----------------------------- MODULE GuardSystem -----------------------------
(***************************************************************************)
(* The backend at work: the scheduler (PollScheduler) together with the    *)
(* calls of recordCheck its pool makes (CheckPipeline).  Polls that users  *)
(* ask for are not here; CheckPipeline with Overlap covers them.           *)
(*                                                                         *)
(* A step is a step of one of the two parts, or of both where they meet: a *)
(* poll of the pool saves its check or ends.  The call that the cycle c    *)
(* makes for monitor m is the poll <<c, m>>.  In the code it starts in the *)
(* continuation that pulls m; here it may start later, which only delays   *)
(* its probe.                                                              *)
(***************************************************************************)
EXTENDS PollScheduler

\* Described in CheckPipeline.
CONSTANTS Requests, Schemas, Verdict, Environment, MaxEvents, None

VARIABLES
  monitors, endpoint, lastCheck, snapshots, incidents, nextId, outbox,
  request, undisturbed, lost, events,  \* as in CheckPipeline
  call  \* what CheckPipeline knows of the polls: its variable poll

\* The pipeline as it is when no two polls of one monitor overlap.
Pipe == INSTANCE CheckPipeline
          WITH Polls <- Calls \X Monitors, poll <- call, Overlap <- FALSE

ASSUME PipelineAssumption ==
  /\ Pipe!SchemasAssumption
  /\ Pipe!VerdictAssumption
  /\ Pipe!EnvironmentAssumption

Response == Pipe!Response

pipeVars == <<monitors, endpoint, lastCheck, snapshots, incidents, nextId, outbox,
              call, request, undisturbed, lost, events>>

systemVars == <<vars, pipeVars>>

SystemInit == Init /\ Pipe!Init

-----------------------------------------------------------------------------
(* The scheduler's own steps.                                              *)

CronTick == (\E c \in Calls : Tick(c)) /\ UNCHANGED pipeVars

ListingFails(c) == FindFails(c) /\ UNCHANGED pipeVars

List(c) ==
  /\ \E items \in Listings({m \in Monitors : Due(m)}) : StartPool(c, items)
  /\ UNCHANGED pipeVars

CycleReturns(c) == Return(c) /\ UNCHANGED pipeVars

MinutePasses == TimePasses /\ UNCHANGED pipeVars

-----------------------------------------------------------------------------
(* A poll of the pool.                                                     *)

\* Nothing here looks for another poll of m in progress: no code does.
PollStarts(c, m) ==
  /\ poll[c][m] = "checking"
  /\ Pipe!StartPoll(<<c, m>>, m)
  /\ UNCHANGED vars

\* The scheduler sees a check appear and nothing else of what the call does.
PollGoesOn(c, m) ==
  /\ Pipe!PollStep(<<c, m>>)
  /\ call'[<<c, m>>].stage # "idle"
  /\ IF call[<<c, m>>].stage = "savingCheck" THEN SaveCheck(c, m)
                                             ELSE UNCHANGED vars

PollReturns_KeepsSlot(c, m) ==
  /\ Pipe!PollStep(<<c, m>>) /\ ~ Pipe!Refused(<<c, m>>)
  /\ call'[<<c, m>>].stage = "idle"
  /\ UNCHANGED vars

\* recordCheck resolves: a completed poll, and the worker takes the next item.
PollReturns(c, m) ==
  /\ Pipe!PollStep(<<c, m>>) /\ ~ Pipe!Refused(<<c, m>>)
  /\ call'[<<c, m>>].stage = "idle"
  /\ Settle(c, m)
  /\ cycle'[c].failed = cycle[c].failed

\* It rejects, because the monitor is gone or a statement fails: a failed poll.
PollRejects(c, m) ==
  /\ \/ Pipe!Refused(<<c, m>>) /\ UNCHANGED <<monitors, endpoint, request, events>>
     \/ Pipe!Throw(<<c, m>>)
  /\ Settle(c, m)
  /\ cycle'[c].completed = cycle[c].completed

-----------------------------------------------------------------------------
(* Users, the endpoints, restarts.                                         *)

SwitchActive(m) ==
  /\ m \in monitors
  /\ SetActive(m)
  /\ UNCHANGED pipeVars

\* findDueMonitors lists a deleted monitor no more.
RemoveMonitor(m) ==
  /\ Pipe!DeleteMonitor(m)
  /\ IF isActive[m] THEN SetActive(m) ELSE UNCHANGED vars

UserRequests ==
  /\ \E r \in Requests :
       \/ \E i \in DOMAIN incidents : Pipe!ReadForResolve(r, i)
       \/ Pipe!WriteResolve(r)
  /\ UNCHANGED vars

EndpointMoves ==
  /\ \E m \in Monitors, answer \in Response : Pipe!EndpointChanges(m, answer)
  /\ UNCHANGED vars

Restart == Crash /\ Pipe!Crash

SystemNext ==
  \/ CronTick
  \/ MinutePasses
  \/ \E c \in Calls : ListingFails(c) \/ List(c) \/ CycleReturns(c)
  \/ \E c \in Calls, m \in Monitors :
       \/ PollStarts(c, m)  \/ PollGoesOn(c, m)
       \/ PollReturns(c, m) \/ PollRejects(c, m)
  \/ \E m \in Monitors : SwitchActive(m) \/ RemoveMonitor(m)
  \/ UserRequests
  \/ EndpointMoves
  \/ Restart

\* cron and the clock go on, a listing tried again and again succeeds some time,
\* a drained pool returns, and every poll takes its next step.  That monitors are
\* polled again and again, which CheckPipeline assumes, follows.
SystemFairness ==
  /\ WF_systemVars(CronTick)
  /\ WF_systemVars(MinutePasses)
  /\ \A c \in Calls :
       /\ SF_systemVars(List(c))
       /\ WF_systemVars(CycleReturns(c))
       /\ \A m \in Monitors :
            WF_systemVars(\/ PollStarts(c, m)  \/ PollGoesOn(c, m)
                          \/ PollReturns(c, m) \/ PollRejects(c, m))

SystemSafe == SystemInit /\ [][SystemNext]_systemVars

SystemSpec == SystemSafe /\ SystemFairness

-----------------------------------------------------------------------------
\* The pool and the calls agree through every end a call can take: a slot of the
\* pool is held exactly while its call has work left, and what the scheduler
\* believes of a check is what the call has done.
PoolMirrorsPolls ==
  \A c \in Calls, m \in Monitors :
    LET p == <<c, m>>
    IN  /\ poll[c][m] = "none" => call[p].stage = "idle"
        /\ poll[c][m] = "saved" <=>
             call[p].stage \notin {"idle", "probing", "savingCheck"}
        /\ call[p].stage # "idle" => call[p].api = m

\* What the pipeline's theorems assume of the scheduler: left to itself, it never
\* has two polls of one monitor in progress, across cycles, failures, deletions
\* and restarts.
SchedulerPollsSerially == Pipe!Init /\ [][Pipe!Next]_pipeVars

Watched(m) == m \in monitors /\ isActive[m]

\* From cron to the incidents table: a monitor that stays active and whose
\* endpoint stays down has an open outage in the end, whatever failed before.
DownIsReported ==
  \A m \in Monitors :
    <>[](Watched(m) /\ endpoint[m] = "down") => <>[](Pipe!Open(m, "OUTAGE") # {})

\* And the outages of one that stays up are closed.
UpIsCleared ==
  \A m \in Monitors :
    <>[](Watched(m) /\ endpoint[m] # "down") => <>[](Pipe!Open(m, "OUTAGE") = {})

=============================================================================
