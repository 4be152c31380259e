# GuardAPI in TLA+

GuardAPI polls HTTP endpoints, keeps their checks and the structures of their
JSON answers in PostgreSQL, opens and resolves incidents and sends an e-mail for
the critical ones. This directory holds TLA+ models of it, the TLC
configurations that check them on small instances, and proofs for the TLA+ proof
system. Paths below are relative to `backend/src` unless they start with
`frontend` or `backend`.

## The system

| Part | State it keeps | Operations | Modelled in |
|---|---|---|---|
| poll scheduler, `jobs/scheduler.ts` | `cycleRunning`, and per call the list, the cursor and the counters of the pool | `pollDueMonitors` every minute: `findDueMonitors`, `runBounded`; `resolvePollConcurrency` | `PollScheduler`, `PollBatch`, `PollTiming`, `GuardSystem` |
| check pipeline, `services/monitorService.ts` | rows of `monitor_checks` and `schema_snapshots` | `recordCheck`, `captureSchemaSnapshot` | `CheckPipeline`, `GuardSystem` |
| incidents, `services/incidentService.ts` | rows of `incidents` | `handleOutageIncident`, `handleSchemaChangeIncident`, `notifyIfCritical`, `acknowledgeIncident`, `resolveIncident`; two reads | `CheckPipeline` |
| schema diff, `services/schemaService.ts` | none | `extractSchema`, `hashSchema`, `diffSchemas`, `classifySeverity` | `SchemaDiff` |
| probe, `services/probeService.ts` | none | `probeEndpoint`, address checks | `CheckPipeline` (its result only) |
| e-mail, `services/emailService.ts` | a cached transporter | `sendIncidentEmail` | `CheckPipeline` (sent or failed) |
| monitor management, `services/apiMonitorService.ts`, `controllers/apiMonitorController.ts` | rows of `api_monitors` | create, list, get, update, delete, poll now | `ApiServer`; deletion under polls in `CheckPipeline`, (de)activation and poll now in `PollScheduler` |
| accounts, `services/authService.ts`, `middleware/auth.ts`, `utils/jwt.ts` | rows of `users`, tokens | register, login, me | `ApiServer`; tokens in `WebClient` |
| metrics, `services/metricsService.ts` | none | latest check and 24 h aggregate | `ApiServer` |
| HTTP shell, rate limits | request counters (library) | routing, validation, error mapping | statuses of errors in `ApiServer` |
| web client, `frontend/src` | token, query cache | log in, log out, reload, pages, acknowledge, resolve, add monitor | `WebClient` |
| benchmarks, seeds, CI | - | - | no |

How they interact: cron calls `pollDueMonitors`, which calls `recordCheck` for
each due monitor through a bounded pool; the route `POST /apis/:id/poll` calls
`recordCheck` directly and without the scheduler's guard. `recordCheck` probes,
saves the check, opens or resolves the outage, stores a new snapshot and opens a
schema incident. Users acknowledge and resolve incidents, edit, switch off and
delete monitors meanwhile. All of this shares four tables; no call uses a
transaction, and between any two awaits every other call of the process may run.

What is hard, and therefore what the properties are for:

* a search and the insert that depends on it are two statements (duplicate
  incidents and snapshots), a status check and the update by id are two more
  (an acknowledgement that arrives after the resolution);
* checks, snapshots and incidents are separate writes, so a fault or restart
  between them leaves them out of step, and a mail follows the commit;
* monitors vanish, with all their rows, under a running poll;
* slow polls store what they saw long ago;
* the guard and the pool must survive every way a poll or a listing can end;
* ownership, uniqueness of an address and the metrics rest on two statements each,
  with other requests between them;
* in the browser, answers arrive after log-out, after another log-in, in another
  order than they were made, or into a fetch that began before them;
* alarms must neither be lost nor doubled nor false.

`PROJECT.json` lists each of these at its line, with the properties about it.

## The modules

| Module | What it is |
|---|---|
| `CheckPipeline` | calls of `recordCheck` and everything around them, statement by statement |
| `CheckPipelineProofs` | theorems about it |
| `IncidentProofs` | theorems about its snapshots and incidents, and that it implements `OutageAlarm` |
| `OutageAlarm` | what the pipeline promises of outages, in one page |
| `PollBatch` | what the scheduler promises, in one page |
| `PollScheduler` | the scheduler in detail, and the mapping to `PollBatch` |
| `PollSchedulerProofs` | theorems about it, the refinement among them |
| `SchemaDiff` | the pure functions of the schema service and a monitor whose snapshots they compare |
| `SchemaDiffProofs` | theorems about them |
| `PollTiming` | the scheduler on a clock with units smaller than a minute |
| `PollTimingProofs` | theorems about it |
| `GuardSystem` | scheduler and pipeline composed |
| `GuardSystemProofs` | theorems about the composition, what the pipeline's theorems say of it, and what those of `SchemaDiff` add |
| `ApiServer` | accounts, monitors and metrics, concurrent requests |
| `ApiServerProofs` | theorems about it |
| `WebClient` | one browser tab: session, routes, query cache, requests |
| `WebClientProofs` | theorems about it |
| `MC...` | small instances for TLC |

Who uses whom: `PollScheduler` instantiates `PollBatch` (`Batch ==
INSTANCE PollBatch WITH ...`, the refinement); `PollTiming` extends
`PollScheduler`; `GuardSystem` extends `PollScheduler` and instantiates
`CheckPipeline` without overlap (`Pipe`) beside it, both as a part, with its calls
in the variable `call`, and as what the composition refines. The modules of
proofs extend the module they are about and the proofs of what that extends;
`IncidentProofs` extends `CheckPipelineProofs`.
`IncidentProofs` instantiates `OutageAlarm` (`Alarm`), and `GuardSystemProofs`
instantiates `IncidentProofs` with `Overlap` FALSE (`Serial`) and `SchemaDiffProofs`
(`Service`).

`Name_Variant` in a module is the definition `Name` with a plausible mistake in
it. No action uses one; each is there to show that a property tells the mistake
from the code (`PROJECT.json`, "mutants").

### CheckPipeline

JavaScript runs from one `await` to the next without interruption, so **an action
is one awaited statement together with the code that follows it up to the next
`await`**. `poll[p]` holds the local variables of one call of `recordCheck` and
the `stage` it is suspended at:

| Stage | Action | Code |
|---|---|---|
| `probing` | `Probe` | `probeEndpoint`, which turns every error into a failed result |
| `savingCheck` | `SaveCheck` | `monitorCheck.create` |
| `findingOutage` | `FindOutage` | `findOpenIncident(.., 'OUTAGE')` and the branches behind it |
| `openingOutage`, `resolvingOutage` | `OpenOutage`, `ResolveOutage` | `incident.create`, `incident.update` |
| `readingSnapshot`, `savingSnapshot` | `ReadSnapshot`, `SaveSnapshot` | `captureSchemaSnapshot`, with the diff |
| `findingSchemaChange`, `openingSchemaChange` | `FindSchemaChange`, `OpenSchemaChange` | `handleSchemaChangeIncident` |
| `readingOwner`, `mailing` | `ReadOwner`, `Mail` | `notifyIfCritical` |

`Refused` is the statement that fails because the monitor was deleted (foreign
key on an insert, missing row on an update). A user request is a read and a
later write (`ReadForAcknowledge`/`WriteAcknowledge`,
`ReadForResolve`/`WriteResolve`); a request the status check refuses changes
nothing and is no step. Around them, as far as the constant `Environment`
admits: `EndpointChanges`, `Throw` (the awaited statement is rejected), `Crash`
(what was in progress is forgotten), `DeleteMonitor` (with the cascade). A
statement that commits although its answer is lost is the statement's action
followed by `Throw`.

Data: an endpoint's answer is `"down"` (any failed check), `"text"` (a success whose
body is no object) or a structure. A structure is a model value; what the diff says
of two of them is the constant `Verdict`, so that the model holds for any schema
service, and `SchemaDiff` says what the real one computes. Check rows are reduced to
the latest outcome, times to their order. Two snapshots saved in the same
millisecond have no defined order in the code; the model takes insertion order. An
incident's `openedAt` and `resolvedAt` are counted in the snapshots its monitor has
by then, which is all of the time that the properties ask for.

`undisturbed` and `lost` are history. `undisturbed[m]` says that since the latest
poll of `m` began none was cut short and no user wrote to its incidents. `lost[m]`
holds the numbers of those snapshots of `m` whose call was cut short, by a rejected
statement or a restart, after it had stored the snapshot and before it came to the
incident. `BreakingChangeLeavesIncident` is about each change by itself: the
snapshot of a change that must page was the latest one at some time while a schema
incident of its monitor was open, be it opened for it or open when it came. An
incident that was resolved before does not count, and the only changes excepted are
those in `lost`. An incident that a late acknowledgement opens again counts as open
from its beginning, as its row does not tell when that was. The property does not
ask for the severity of the change: while a WARNING is open, a CRITICAL change opens
and mails nothing, which the comment at `incidentService.ts:98` chooses.

`Overlap` says whether two polls of one monitor may be in progress at once.
FALSE is what the scheduler alone guarantees: one cycle at a time
(`OneCycleAtATime`) over a list in which a monitor occurs once (`PoolIsFull`).
TRUE is the program as a whole, where "poll now" bypasses the guard, or where
two backend processes run (`scheduler.ts` says the guard is not cross-process).

`OutageAlarm` is the promise of `handleOutageIncident` without any statement: the
latest check of each monitor and the set of monitors with an open outage, which
grows only on a failed latest check and shrinks only on a successful one, on a
user's resolution or with the monitor. That `CheckPipeline` without overlap and
acknowledgements implements it is a theorem and no property of a run.

### PollScheduler and PollBatch

`Calls` are calls of `pollDueMonitors`. A tick checks and sets the guard in one
action, as the code does; a call that finds the guard set returns zeros and is no
step. `StartPool` is the database's reading of the due monitors, in any order, the
arrival of the list and the start of `min(limit, length)` workers. These are one
action at the time of the read: what the call does when the list arrives is to fill
its own variables, which nobody else reads; that a poll has begun is seen only by
its check, which is an action of its own in any case; users who poll or switch a
monitor between the read and the arrival are in `touched` like those who do so
later; and a connection that is lost between the two is `FindFails` or `Crash`.
`Settle` is everything the continuation of one poll does: count it, leave the
in-flight counter, pull the next item, raise the maximum, start its poll.
`recordCheck` is known here by the row it saves (`SaveCheck`) and by settling, which
it may do with an error before or after the row. `age` counts whole minutes since
the latest check and stops at the interval. Users poll, activate and deactivate
monitors at any time; `touched` remembers whom, since the running cycle made its
list.

`PollBatch` has a batch that is closed, listing or polling, the monitors waiting
in it and those being polled. `ImplementsBatch` is `PollBatch`'s specification,
fairness included, under the mapping at the end of `PollScheduler`.

### PollTiming

`PollScheduler` lets ticks come at any moment. Here cron fires when a minute
begins and at no other time, a minute has `Minute` units, and `age` and
`Interval` count units. Between two movements of the clock anything may happen or
nothing, so a list, a probe or a statement takes as long as it likes. A check is
stamped in the middle of a minute, so its monitor falls due after the tick that
would have been in time and waits for the next: a monitor of one minute may be
polled every two. `PolledOnTime` says it is never worse. `late` and `hindered` are
history: how long ago the interval was over, and whether since then a tick was
skipped, something failed or the process restarted.

### GuardSystem

The poll `<<c, m>>` of `CheckPipeline` is the call that the cycle `c` makes for
the monitor `m`. Each step is a step of `PollScheduler`, of `CheckPipeline`, or
of both where they meet: the check is saved (`PollGoesOn`), the call resolves
(`PollReturns`: a completed poll), or it rejects (`PollRejects`: a failed one,
whether a statement was refused for a deleted monitor or failed by itself). A
restart hits both. `PollStarts` is `StartPoll`, the start of a call without any look
at others; `BeginPoll`, the action of `CheckPipeline`, adds that there is none.
`SchedulerPollsSerially` is the specification of
`CheckPipeline` with `Overlap` FALSE: it is what the runs `checks_serial` and
`checks_faults` and seven theorems assume, derived here from the guard. So
`GuardSystemProofs` can instantiate them and state them of the system.
`DownIsReported` and `UpIsCleared` need no fairness of single monitors any more:
cron, the pool and the statements are enough.

### ApiServer

A request's record holds its `kind`, its `stage` (which statement it waits for),
whose it is and the row or address it is about. `Arrive` is the middleware;
`FindAddress` and `CreateUser` are the two statements of `registerUser` (the hash
between them is why others come between), `Login` is `loginUser`, `FindMonitor` is
`getApiMonitor` in front of `UpdateMonitor`, `DeleteMonitor` and the metrics,
`ReadLatest` and `ReadAggregate` are the two reads of `Promise.all`. A row's id is
never used twice (`unused`). Deletion takes the checks along. `holder` and `editor`
are history: whose a row is, also after its deletion, and which request wrote or
deleted it last. Where Prisma rejects because of what is in the tables (address
taken, row gone) the error is no `AppError` and becomes a 500. Statements that fail
for any other reason, or commit although their answer is lost, also become a 500 and
are not modelled: with them, a registration may be refused and the address be free,
or be the client's own. `RegisteredOwnsAddress` holds while the database executes
what it is sent. `CheckSaved` is the pipeline, `CheckAges` the 24-hour window moving
on. Requests that only read one row, and 400s of the validation, are left out.

### WebClient

`token`, the route and the cache of React Query, which is external: its defaults as
the pages use them are in the module's head. Five queries stand for those of the
pages: `me`; `monitors` and `incidents` of the dashboard; `apiIncidents` for the
four of a monitor's page; `incident`. The dashboard's metrics and the other reads of
the incident's page behave alike and are left out. Data carry the user they were
made for and a version of the server's table; the incident's version is its status.
An action is an event handler together with the render that follows: `Render`
redirects as `ProtectedRoute` does and fetches what is mounted now and was not.
`Receive` is the answer to a fetch, made at any moment since it was sent; the
retries of a failed one are part of it. `Submit`, `Serve` and `Finish` are a request
that changes something: sent, handled by the server, its answer handled by
`onSuccess`. `mutation[n]` is the request made by the user's `n`-th act. `waits[a]`
is the request whose end the form or button `a` waits for, disabled by `isPending`.
It belongs to the mounted component (`Shown`): leaving the page forgets it and not
the request, so after coming back the same thing can be asked for a second time
while the first request is under way.

`told` and `joined` are history: what a request was told it had made of a table, and which
lists were invalidated in a way that did not start a new fetch.

### SchemaDiff

Values and schema nodes share one shape. `ExtractSchema`, `DiffSchemas` and
`ClassifySeverity` are the functions of the code, `Has` and `Field` JavaScript's
`in` and property access on plain objects, with the constant `Inherited` for the
names every object inherits. The first two are recursive functions over their
domains - a depth and a value of `Values`, two nodes and a path - so that they can be
proved about; `ExtractNode` and `DiffNodes` are one call of each, given the function
for the calls it makes. `Nodes` are what the diff can meet: schemas, their parts,
the mark of an empty array, and the function found under an inherited name.
`Capture` stores the latest structure.

The properties compare them with an independent definition: the *places* of a value,
that is, the paths a client can follow through fields and first elements, with
what is found there. `Places` follows a value one step further than a schema can
reach, which is all the properties ask about. A change's path is a sequence of
names; the code joins them with dots, which can make two paths look alike in a mail
but nowhere else.

## What the runs check

| Run | Instance | Properties |
|---|---|---|
| `checks_serial` | 2 monitors, 2 polls, no overlap, 3 structures; acknowledge and resolve, 3 events | `TypeOK`, `AtMostOneUnacknowledged`, `BreakingChangeLeavesIncident`, `CriticalIsAnnounced` |
| `checks_faults` | 1 monitor, no overlap, 3 structures; refused statements, restarts, failing mail, deletion, resolve, 5 events | `AtMostOneOpen`, `OutageTracksChecks`, `SnapshotsDiffer`, `BreakingChangeLeavesIncident` |
| `checks_overlap` | 1 monitor, 2 overlapping polls, 2 structures; refused statements, restarts, deletion, acknowledge, resolve, 2 events; fair | `MailOncePerIncident`, `SchemaIncidentExplained`, `OpenBounded`, `RecoveryClears`, `OutageIsRaised`, `BaselineCatchesUp` |
| `scheduler` | `PollTiming` with 2 monitors of one and two minutes, 2 units a minute, 2 callers, `POLL_CONCURRENCY=0` and a default of 1, 1 restart; fair | `TimedTypeOK`, `PolledOnTime`, `NoEarlyPoll`, `DueIsPolled`, `GuardIsReleased` |
| `pool` | `PollScheduler` with 3 monitors, 2 callers, `POLL_CONCURRENCY=2`, 1 restart; fair | `OneCycleAtATime`, `PoolIsFull`, `StatisticsAddUp`, `ImplementsBatch` |
| `system` | 1 monitor, 2 callers, a user who resolves; refused statements, a restart, deletion, 3 events; fair | `PoolMirrorsPolls`, `SchedulerPollsSerially`, `DownIsReported`, `UpIsCleared` |
| `api` | 2 addresses, 2 users who exist, 3 requests, 1 monitor, 2 checks | `TypeOK`, `RegisteredOwnsAddress`, `WritesAreOwners`, `MetricsAgree` |
| `web` | 2 tokens of 2 users, 3 pages, 2 acts of the user, 1 change of the server or failure of the network; fair | `TypeOK`, `LogoutIsFinal`, `OwnChangesShow`, `LoadingIsFetching`, `ShownCatchesUp` |
| `schema_diff` | every pair of objects and arrays of at most two levels over two names and two primitive types, and of deeper ones; depth cap 1 | `ExtractionIsExact`, `DiffIsExact`, `StoredMeansChanged`, `SeverityTellsCompatibility` |

Together they show: without overlapping polls, incidents, snapshots and checks agree
with each other whatever faults, restarts, deletions and resolutions happen, and a
breaking change is lost only by the call that a fault cuts short between its
snapshot and its incident; with overlap, alarms are still explained by the history,
mailed once, and doubled at most once per concurrent poll; in every case a world
that stays as it is ends with the right alarms and the right baseline. The scheduler
polls whoever is due, in full pools, one cycle at a time and at most a minute late,
and with the pipeline under it polls nobody twice at once. Racing requests end with
one owner per address and rows that only their owners wrote. Whatever answers arrive
when, the browser ends with the session and the data it should show.

Three runs end in a counterexample. Each states what a comment, test or error
text of the repository says:

* `duplicate_open`: two overlapping polls of a failing endpoint open two outages
  ("Never opens a second incident while one is already open").
* `ack_reopens`: an acknowledgement that checked an OPEN row writes after a poll
  has resolved it; the incident is ACKNOWLEDGED again, with `resolvedAt` set
  ("Only an open incident can be acknowledged"). `AtMostOneUnacknowledged` is
  what survives.
* `inherited_name`: a removed field named `constructor` is reported as a change of
  type and only a WARNING (a removed field "is CRITICAL").

Two overlapping polls can also store one structure twice, against the comment at
`monitorService.ts:33` ("so unchanged responses never create duplicates"). It is the
race of `duplicate_open` with `findFirst` and `create` of snapshots in place of
incidents and has no run of its own; `SnapshotsDiffer` is checked and proved for
polls that do not overlap.

Some things the models show that no line of the repository denies: a registration or
an edit that loses a race is answered with 500, not 409 or 404; an incident page may
show an incident going back from RESOLVED for a while; after a log-out and log-in as
somebody else, the pages show the first user's lists until the first fetch is
answered.

### Bounds

`MaxEvents` bounds what the environment does in all, endpoint changes included;
polls are not counted, so an endpoint is polled any number of times between two
events. Three events are enough for the sequences that matter: a change, a user's
read, another change; so they are for an incident that is raised, resolved and
followed by a second change, for which `checks_serial` has three structures.
`checks_faults` needs more: fail, throw, recover, resolve, delete. In
`checks_overlap` the race is between the polls, which are no events, and two events
are a failure and a recovery, a fault after a change, or a user's read and write
around one. The event bound also bounds the tables: a new incident or snapshot needs
a change of the endpoint, a resolved incident or a lost poll. Two polls suffice for
a race of two statements, two monitors for interference between monitors. In `pool`,
three monitors and a limit of two make both workers run at once, one of them take a
third item while the other goes on, and polls settle in any order. In `scheduler`,
two monitors and a pool of one make the second monitor wait for the first; the
theorems are about any number of monitors and any limit. One restart falls anywhere
in a cycle; `age` is capped by the interval; two units a minute let a check be saved
at the tick or after it. The system has one monitor, as monitors meet only in the
pool, and two cycles, as a third finds one of two ended; its safety is proved for
any number of both. In `api`, three requests are a race of two and another that sees
its outcome, and two checks are one before and one between the reads. In `web`,
versions go to 2, an old answer, a newer and the newest; two acts are a log-out and
a log-in, or a request and a move to another page while it is under way, and one
change or failure of the rest of the world falls between any two steps; answers and
focus are not bounded. To leave a page, come back and ask for the same thing again
while the first request is under way takes four acts and is left to the theorems,
which hold for any number of acts and changes. In `schema_diff` a depth cap of 1 puts bodies above, at and
below it; the code's 6 has no other role. Symmetry is used over polls or calls,
never in a run with liveness properties.

All runs report deadlock but `api` and `web`, where all requests end.

### Fairness

* `CheckPipeline!Fairness`. Every call takes its next step (weak): the probe has a
  timeout of 10 s, and statements and the SMTP exchange are taken to answer or
  fail. Every monitor is polled again and again (strong, because a poll of
  it in progress disables the next one): this is what `DueIsPolled` shows of the
  scheduler for active monitors. Nothing is assumed of users, faults, or the order
  of steps of different calls.
* `PollScheduler!Fairness`. cron keeps ticking; a listing that is tried again and
  again succeeds some time (strong, as `FindFails` competes with it); every
  `recordCheck` settles; a drained pool returns. `Crash` is bounded, `TimePasses`
  and the users need no fairness. `PollTiming!TimedFairness` is the same, with
  a clock that never stops instead of ticks that keep coming.
* `GuardSystem!SystemFairness`. cron and the clock go on, listings succeed some
  time, and each call of the pool takes its next step. That monitors are polled again
  and again is not assumed but follows.
* `WebClient!Fairness`. Every fetch and every request is answered or fails, every
  answer is handled, and the window gets the focus again and again while something
  could be fetched; without a user who comes back, nothing refetches a query that
  failed or is old. Nothing is assumed of log-ins or of what the user does otherwise.

The assumption that every `recordCheck` settles is essential: the pool waits for
all its workers, so one statement that never answers leaves the guard set and
stops polling for the whole process.

## What is proved

All of it for any constants that satisfy the named assumptions (`SchemasAssumption`,
`VerdictAssumption`, `EnvironmentAssumption`, `SchedulerAssumption`,
`TimingAssumption`, `PipelineAssumption`, `ServerAssumption`, `ClientAssumption`,
`JsonAssumption`). `PipelineAssumption` repeats in `GuardSystem` the first three for
the pipeline inside it. `JsonAssumption` says that every value is a primitive, an
array of values or an object whose fields hold values, and that the depth cap is a
number; the values may nest without end. `ClientAssumption` says that `None` is no
token, user or datum: a query without an answer could not be told from one with it
otherwise. Further premises are those in a theorem's statement: no overlapping
polls, a set of things `Environment` does not contain, or no field with an inherited
name (`OwnNames`). Those of a property that a run checks hold in the run as well.
`duplicate_open`, `ack_reopens` and `inherited_name` show the counterexamples
without the first, with acknowledgements, and with such a name. Faults are excluded
from `CriticalsAreAnnounced` only: there, one loses the mail of the call it hits.

`CheckPipelineProofs`:

* `TypeCorrect`: `TypeOK`. Not inductive by itself: the row a call inserts is well
  typed only if the call got to the insert the right way. `TypeInv` adds what a call
  knows at each stage: past the snapshots its response is a structure, on the way to
  a schema incident the severity is one that pages, while mailing it has an incident.
* `MailedAtMostOnce`: `MailOncePerIncident`. Being mailed once is not inductive: the
  invariant adds that a call that is about to mail an incident is the only one to
  hold it, that this incident was not mailed yet, and that ids in the table, in
  the outbox and in calls are below `nextId`. Only the call that inserted an
  incident gets to mail it, because the id it has in hand is fresh.
* `OneUnacknowledgedWhenSerial` and `OneOpenWhenSerial`: with `~ Overlap`, and
  for the second without acknowledgements. The invariant says that a call that
  has found no open incident and is about to insert one is alone with its
  monitor, so the search still holds when the insert is made: no other poll may open
  one meanwhile, users only take incidents out of `OPEN` (or, by acknowledging,
  turn a resolved one into `ACKNOWLEDGED`, which is why the second theorem excludes
  them).

`IncidentProofs` first shows that of all steps only three matter to snapshots
(`PollStepKeeps`, `OthersKeep`), then:

* `SchemaIncidentsAreExplained`: `SchemaIncidentExplained`, for any overlap. The
  invariant says that what a call compares is in the history already: before the
  insert its previous structure is the baseline's absence or an entry, after it the
  pair is there in this order. Histories only grow, or vanish with their monitor, whose
  incidents vanish, too, and for which nothing can be inserted any more. A change
  from no baseline never pages, so the pair exists whenever an incident is opened.
* `SnapshotsDifferWhenSerial`: `SnapshotsDiffer` with `~ Overlap`. A call that is about
  to store a structure still knows the latest one, as it is alone with its monitor
  (`SerialInv`), and it differs from what it stores.
* `IncidentsAreAboutChanges`: `IncidentsTellChanges`, which is `SchemaIncidentExplained`
  made precise with `~ Overlap`: the two structures are successive. As the latest
  snapshot is still the one the call has read, what it compared is what now stands at
  the end of the history (`CallsCompare`), and stays there.

For the incidents it starts from what a step may do to the rows (`StepRows`): a row
keeps monitor, kind and severity, its status changes only to `RESOLVED` or, by an
acknowledgement, to `ACKNOWLEDGED`, and only the two inserts add one.

* `CriticalsAreAnnounced`: `CriticalIsAnnounced`, for any overlap and any users, if
  nothing is deleted, refused, cut short or lost by the mail server
  (`NothingFails`). Each of the four can lose a mail, as nothing tries again. The
  call that inserts an incident has it in hand up to the mail (`AnnouncedStays`).
* `DuplicatesAreBounded`: `OpenBounded`, for a finite set of polls, under any
  overlap and with any users. It counts the open incidents that were never resolved,
  as a late acknowledgement can open any number of others again (`ack_reopens`). Not
  inductive: the next insert may be one too many. The invariant counts them together
  with the calls that have found none open and are about to open one: there are
  never more than polls, since a call joins only when none is open, and an insert
  turns one of the second sort into one of the first. That an open incident without
  `resolvedAt` was never resolved is part of it (`Stamped`).
* `OutagesTrackChecks` (`OutageTracksChecks`), with `~ Overlap` and without
  acknowledgements, as for `OneOpenWhenSerial`: a resolved incident that is
  acknowledged by a stale request would be a second open one, and a recovery
  resolves one. `TrackInv` says per monitor what its only call knows: once the check
  is saved, that the check is the one of its response; about to resolve, that it
  holds the open outage, the only one; past that, that an outage is open exactly if
  its response was a failure. A new poll needs no such premise, which is why it
  repairs whatever a fault left behind.
* `BreakingChangesLeaveIncidents`: `BreakingChangeLeavesIncident`, with `~ Overlap`
  and nothing else: statements may fail, the process may restart, users and deletion
  are free. The baseline moves before the incident is opened, so in between there is
  none. `RaisedInv` says of every change in a history that must page: it is in
  `lost`, or it has its incident, or it is the latest one and a call is on its way
  from this very snapshot to the incident. The call is alone with its monitor, so
  the pair it judged is the pair it stored (`DifferInv`), no snapshot comes while it
  searches and inserts, and an incident it finds open or opens is open at this
  snapshot. Later steps keep it so: an incident is resolved at a time that is not
  before the change (`OpenedInTime` says that no time is in the future), and rows go
  only with their monitor.
* `OutagesImplementAlarm`: `Spec => Alarm!Spec`, with the premises of
  `OutagesTrackChecks`. The promise is weaker in that it obliges nobody to
  raise or clear, and stronger in that it is about every step, with faults, restarts
  and users before or after it. `SaveCheck` is `Checked`, `OpenOutage` is `Raise`, `ResolveOutage` is
  `Clear` or, if a user was faster, a stutter; `WriteResolve` is `Dismiss` or a
  stutter, `DeleteMonitor` is `Forget`, all else stutters. `AlarmInv` adds
  to `TrackInv` that what a call acts on is still the latest check of its monitor
  (`ChecksKnown`, in every state and not only undisturbed ones) and that incidents
  belong to monitors there are (`RowsOwned`), so a call with an incident in hand
  finds its check.

`PollSchedulerProofs` rests on one inductive invariant, `SchedInv`: the types,
`OneCycleAtATime`, and for every call in the pool's loop that its cursor,
its counters and the set of running polls belong together (the running polls are
listed before the cursor, as many of them as `inFlight`, and none waits behind
it). `OneCycle`, `PoolFull`, `Statistics` follow from it; `NeverEarly` adds that
nobody but the cycle itself and users make checks; `SchedulerImplementsBatch`
shows that each action is an action of `PollBatch` or a stutter, which gives
`Spec => Batch!Safety`.

`PollTimingProofs`: every step on the clock is a step of the scheduler or none
(`ClockKeepsScheduler`), so `SchedInv` holds there. `OnTime` (`PolledOnTime`) is not
inductive: a monitor just short of a minute late may be about to break it. The
invariant `TakenUp` compares lateness with the time since the last tick: who is
later than that was late when cron fired, so he is in the listing, in the list, or
his poll has not saved its check. Each of these lasts until the check is saved,
since a listing contains every due monitor (an injection of a finite set into
itself meets all of it), and a poll that settles without a check has failed.

`GuardSystemProofs`: `PoolAndPollsAgree` (`PoolMirrorsPolls`) with the invariant
`SysInv`, which is `SchedInv`, the shape of the calls, and the property itself. What
a step of a call can do to its stage is proved once for all twelve statements
(`PollStepMoves`); every action of the system is then a change of one slot.
`SchedulerIsSerial` follows: were another call for the monitor in progress, it would
hold a slot of the pool, of the only live cycle, and it would be the slot whose
call has not started. This joins the theorems about `CheckPipeline` with `~ Overlap` to
the guard in `scheduler.ts`: `SystemAlarmsTrackChecks` (`AtMostOneOpen` and
`OutageTracksChecks` of the whole system), `SystemSnapshotsDiffer`,
`SystemMissesNoBreakingChange` and `SystemImplementsAlarm` are instances of the
theorems above in which nothing is assumed of overlap any more. `Serial` and `Pipe` are
two instances of one specification, so their definitions expand to one formula
(`SerialIsPipe`).

Two more put the real schema service into the system. `ServiceInUse` says that the
structures of the pipeline are the schemas of `SchemaDiff` and `Verdict` what
`DiffSchemas` and `ClassifySeverity` say of two of them. `VerdictTells` turns each
verdict into a statement about clients: a change pages exactly if a place of the old
structure is not as it was, and is critical exactly if one is gone or something else
altogether (`Breaks`). So `SystemIncidentsTellClients` and `SystemWarnsClients` say,
from cron to the incidents table and with no word of diffs: no schema incident
without two successive structures between which a client can notice a change, none
critical unless the change breaks one; and no such change without an incident opened
for it or still open when it came, but for those in `lost`.

`SchemaDiffProofs` is about functions more than states: that the latest snapshot and the
response are what an endpoint may answer (`Typed`) is all there is of an invariant.

* The definitions have a meaning: each of the three recursive functions equals one
  call of itself (`ExtractUnfolds`, `PlacesUnfold`, `DiffUnfolds`). For none is this
  obvious, as bodies may nest without end: extraction stops at the cap, places at
  paths of a certain length, and the diff because the parts of a node start deeper than
  it does (`NodeParts`). Each proof makes a solution for one depth more out of one
  for the depths below.
* Induction. The library states it with an operator parameter, which cannot be
  instantiated here, so `SetInduction` states it of a set and derives it from
  cardinality: were the set to end at some `k`, counting on would map the numbers up to
  there injectively into themselves without 0. `DepthInduction` and `NodeInduction` run
  it from the cap upwards.
* `ExtractionTellsAll`: `ExtractionIsExact`. `ExtractCases` compares one call with the
  value's own steps, `ExtractedPlaces` is the induction over the depth.
* `DiffTellsChanges`: `DiffIsExact`. What is gone, of another kind or of another type
  splits into what is so at the root and what is so behind a step both structures
  have (`GoneCases`, `ClashCases`), and so do the changes reported (`SaysCases`);
  `ChangesAreExact` joins them. A place is found behind a step exactly if its path takes
  it (`PlacesMatch`), so nothing is counted twice.
* `StoredIsChanged`: `StoredMeansChanged`. No change is reported exactly if the
  structures are equal (`EmptyMeansEqual`), which is what the hash decides.
* `SeverityTells`: `SeverityTellsCompatibility`. `SeverityIsCompatibility` shows the two
  equivalences by the same induction (`LostCases`), `ClassifiesExactly` that the order of
  the tests in `classifySeverity` keeps them apart.

`ApiServerProofs`:

* `ServerTypeCorrect`: `TypeOK`, with `TypeInv`, which adds what the stage of a
  request says of its kind and of its target.
* `RegistrationsAgree`: `RegisteredOwnsAddress`. The invariant adds that nobody has
  an account before he is answered; so an address found taken is somebody else's, and
  as no account is ever removed it stays so.
* `OnlyOwnersWrite`: `WritesAreOwners`, of edits and deletions. The invariant says
  what a request still knows when it writes: its row is not unused, and belongs to
  its user or to nobody; a row that is somebody's is its holder's (`Held`). Ids are
  not used twice, which is why what was checked cannot become false in any other
  way.
* `MetricsReadsAgree`: `MetricsAgree`. The two reads of `Promise.all` see the list of
  checks at different moments. `MetricsInv` says that what each of them reported
  stays true of the list, which only grows at its end as long as the row is there:
  the latest check at position `latest` had that outcome, and of the `total` checks
  up to `upTo` so many were successful. Whichever read comes second then decides
  whether the latest check is one of those counted. If the row is deleted between
  the reads, its list is empty and nothing is left to disagree with.

`WebClientProofs`:

* `ClientTypeCorrect`: `TypeOK`. `TypeInv` adds that a query's status agrees with its
  data and fetch, and that without a token the page is the log-in page and the query
  `me` is absent: it is disabled then, and a log-out removes it with its fetch.
* `LogoutEndsSession`: `LogoutIsFinal`, which this says in every state, whatever was
  under way at the log-out.
* `NothingLoadsUnfetched`: `LoadingIsFetching`. The invariant `Awaited` says of every
  query on the screen that, while pending, it has a fetch under way. A render fetches
  what appears on the screen (`RenderShows`), an answer or its failure ends the
  pending state, and a reload starts over.
* `ListsShowOwnChanges`: `OwnChangesShow`. The invariant says of a list that was not
  `joined`: a fetch under way was sent at a version no older than the last change
  this client was told of, and so were data that are shown and at rest
  (`ListsCurrent`); and the server is never behind what it has answered
  (`AnswersOK`), to any of the requests under way. An invalidation cancels an older
  fetch, which is what makes the first half true; lists off the screen are refetched
  when they appear.

Only model-checked: everything temporal beyond safety (`RecoveryClears`,
`OutageIsRaised`, `BaselineCatchesUp`, `DueIsPolled`, `GuardIsReleased`,
`DownIsReported`, `UpIsCleared`, `ShownCatchesUp`, the fairness of `PollBatch`),
because the prover has no ENABLED. Every other property of a passing run is
stated by a theorem. On the other hand no run composes the system with `SchemaDiff`:
what the two share is the table of verdicts, which `schema_diff` computes and the runs
of the pipeline take as given. `ServiceInUse` is a premise of theorems only; TLC could not
evaluate the composition as it stands, as it compares no record (a structure) with a
string (`"down"`).

## Not modelled

Wording of titles, descriptions and mails; latencies, their percentiles and
rounding; requests that only read, apart from the metrics; which addresses the
probe refuses; an edited interval or address of a monitor; a field named
`__proto__`; keys of arrays beyond the first element (the code looks at no
other); validation, rate limits (counted by a library), the layout of the pages,
benchmarks and seeds, deployment. No code deletes a user, so users stay.

## Plan

* `WebClient` with a server that is `ApiServer` and the incident requests of
  `CheckPipeline`, instead of tables with versions.
* `OutageAlarm` with the fairness of the pipeline, as a property of a run.
