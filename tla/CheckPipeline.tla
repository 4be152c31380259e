---------------------------- MODULE CheckPipeline ----------------------------
(***************************************************************************)
(* One poll of a monitored endpoint, from the probe to the last e-mail     *)
(* (services/monitorService.ts, services/incidentService.ts), together     *)
(* with everything that can run between two of its awaits: other polls of  *)
(* the same monitor, a user acknowledging or resolving an incident, the    *)
(* deletion of the monitor, a failing database statement and a restart of  *)
(* the process.                                                            *)
(*                                                                         *)
(* Every await of the code is a database statement, the HTTP probe or the  *)
(* SMTP exchange; each is one action here.  Code between two awaits runs   *)
(* without interruption, so it belongs to the action of the await it       *)
(* follows.                                                                *)
(*                                                                         *)
(* Name_Variant is Name with a plausible mistake in it; no action uses it. *)
(* The runs' properties are checked to tell each from the code.            *)
(***************************************************************************)
EXTENDS Naturals, FiniteSets, Sequences

CONSTANTS
  Monitors,     \* rows of api_monitors at the start
  Polls,        \* identities of calls of recordCheck that may be in progress
  Requests,     \* identities of user requests on incidents
  Schemas,      \* structures an endpoint's JSON body can have
  Verdict,      \* severity of the difference between two structures
  Overlap,      \* may two polls of one monitor be in progress at once?
  Environment,  \* what may happen around the polls, beside endpoints changing
  MaxEvents,    \* bound on the events of the environment
  None

\* What the probe makes of an endpoint's answer: a failed check ("down", any
\* network error, timeout or unexpected status), a success whose body is no
\* object ("text"), or a success whose body has one of the structures.
Response == {"down", "text"} \cup Schemas

Severities == {"NONE", "INFO", "WARNING", "CRITICAL"}

ASSUME SchemasAssumption ==
  /\ Schemas \cap {"down", "text"} = {}
  /\ None \notin Monitors \cup Response
  /\ None \notin Nat

ASSUME VerdictAssumption == Verdict \in [Schemas \X Schemas -> Severities]

ASSUME EnvironmentAssumption ==
  /\ Overlap \in BOOLEAN
  /\ Environment \subseteq
       {"throw", "crash", "mailFailure", "delete", "acknowledge", "resolve"}
  /\ MaxEvents \in Nat

VARIABLES
  monitors,   \* the monitors not deleted yet
  endpoint,   \* endpoint[m]: what m's endpoint answers now
  lastCheck,  \* lastCheck[m]: outcome of m's latest monitor_checks row
  snapshots,  \* snapshots[m]: m's schema_snapshots rows, oldest first
  incidents,  \* the incidents table: a function from ids to rows
  nextId,     \* the id of the next incident
  outbox,     \* ids of the incidents an e-mail was sent for, in order
  poll,       \* poll[p]: the call p of recordCheck
  request,    \* request[r]: the user request r
  undisturbed,  \* undisturbed[m]: since m's latest poll began, no call for m
                \* was cut short and no user wrote to m's incidents (history)
  lost,       \* lost[m]: which of m's snapshots a call had stored when it was cut
              \* short before it came to the incident (history)
  events      \* events of the environment so far

\* What polls write, and what they never write.
written == <<lastCheck, snapshots, incidents, nextId, outbox>>
outside == <<monitors, endpoint, request, events>>

vars == <<written, outside, poll, undisturbed, lost>>

-----------------------------------------------------------------------------
(* Rows, and the positions a call can be suspended at.                     *)

OPEN_STATUSES == {"OPEN", "ACKNOWLEDGED"}

\* The time in openedAt and resolvedAt is the number of snapshots the monitor
\* has; resolvedAt is None while the column is empty.
Incident == [api: Monitors, type: {"OUTAGE", "SCHEMA_CHANGE"},
             severity: {"WARNING", "CRITICAL"},
             status: {"OPEN", "ACKNOWLEDGED", "RESOLVED"},
             openedAt: Nat, resolvedAt: Nat \cup {None}]

\* The statements recordCheck awaits, any of which may be refused.
DatabaseStages ==
  {"savingCheck", "findingOutage", "openingOutage", "resolvingOutage",
   "readingSnapshot", "savingSnapshot", "findingSchemaChange",
   "openingSchemaChange", "readingOwner"}

Stages == {"idle", "probing", "mailing"} \cup DatabaseStages

\* The snapshot is stored, the incident not opened yet.
PagingStages == {"findingSchemaChange", "openingSchemaChange"}

\* A call's local variables: the monitor, the probe's answer, the incident at
\* hand and the previous snapshot.
Call == [stage: Stages, api: Monitors \cup {None},
         response: Response \cup {None}, incident: Nat,
         previous: Schemas \cup {None}]

IdlePoll == [stage |-> "idle", api |-> None, response |-> None,
             incident |-> 0, previous |-> None]

UserRequest == [stage: {"idle", "acknowledging", "resolving"}, incident: Nat]

IdleRequest == [stage |-> "idle", incident |-> 0]

\* Table f with the row added under id.
AddRow(f, id, row) ==
  [i \in DOMAIN f \cup {id} |-> IF i = id THEN row ELSE f[i]]

Open(m, t) ==
  {i \in DOMAIN incidents : /\ incidents[i].api = m
                            /\ incidents[i].type = t
                            /\ incidents[i].status \in OPEN_STATUSES}

FindOpenIncident_OnlyOpen(m, t) ==
  LET found == {i \in Open(m, t) : incidents[i].status = "OPEN"}
  IN  IF found = {} THEN {0} ELSE found

FindOpenIncident_AnyStatus(m, t) ==
  LET found == {i \in DOMAIN incidents : /\ incidents[i].api = m
                                         /\ incidents[i].type = t}
  IN  IF found = {} THEN {0} ELSE found

\* findOpenIncident: findFirst without an order, so any open row, or 0.
FindOpenIncident(m, t) == IF Open(m, t) = {} THEN {0} ELSE Open(m, t)

Last_Oldest(s) == IF s = <<>> THEN None ELSE s[1]

\* findFirst of the rows by capturedAt, latest first.
Last(s) == IF s = <<>> THEN None ELSE s[Len(s)]

Severity_Swapped(previous, current) ==
  IF previous = None THEN "NONE" ELSE Verdict[<<current, previous>>]

\* What classifySeverity says of the change from previous to current; the
\* baseline, and a change without any entry in the diff, raise nothing.
Severity(previous, current) ==
  IF previous = None THEN "NONE" ELSE Verdict[<<previous, current>>]

Paging == {"WARNING", "CRITICAL"}

-----------------------------------------------------------------------------
TypeOK ==
  /\ monitors \subseteq Monitors
  /\ endpoint \in [Monitors -> Response]
  /\ lastCheck \in [Monitors -> {"none", "ok", "fail"}]
  /\ snapshots \in [Monitors -> Seq(Schemas)]
  /\ nextId \in Nat \ {0}
  /\ DOMAIN incidents \subseteq Nat \ {0}
  /\ \A i \in DOMAIN incidents : incidents[i] \in Incident
  /\ outbox \in Seq(Nat \ {0})
  /\ poll \in [Polls -> Call]
  /\ request \in [Requests -> UserRequest]
  /\ undisturbed \in [Monitors -> BOOLEAN]
  /\ lost \in [Monitors -> SUBSET Nat]
  /\ events \in 0 .. MaxEvents

Init ==
  /\ monitors = Monitors
  /\ endpoint \in [Monitors -> Response]
  /\ lastCheck = [m \in Monitors |-> "none"]
  /\ snapshots = [m \in Monitors |-> <<>>]
  /\ incidents = [i \in {} |-> None]
  /\ nextId = 1
  /\ outbox = <<>>
  /\ poll = [p \in Polls |-> IdlePoll]
  /\ request = [r \in Requests |-> IdleRequest]
  /\ undisturbed = [m \in Monitors |-> TRUE]
  /\ lost = [m \in Monitors |-> {}]
  /\ events = 0

-----------------------------------------------------------------------------
(* Control flow of a call of recordCheck.                                  *)

GoTo(p, stage) ==
  /\ poll' = [poll EXCEPT ![p].stage = stage]
  /\ UNCHANGED <<undisturbed, lost>>

\* The same, with the incident the call has found or created in hand.
GoToWith(p, stage, incident) ==
  /\ poll' = [poll EXCEPT ![p].stage = stage, ![p].incident = incident]
  /\ UNCHANGED <<undisturbed, lost>>

Return(p) ==
  /\ poll' = [poll EXCEPT ![p] = IdlePoll]
  /\ UNCHANGED <<undisturbed, lost>>

\* The calls are cut short.
CutShort(calls) ==
  lost' = [m \in Monitors |->
             IF \E p \in calls : poll[p].api = m /\ poll[p].stage \in PagingStages
             THEN lost[m] \cup {Len(snapshots[m])} ELSE lost[m]]

\* The promise rejects: the scheduler counts a failed poll, the controller
\* answers 500, and in both cases the rest of the call is skipped.
Reject(p) ==
  /\ poll' = [poll EXCEPT ![p] = IdlePoll]
  /\ undisturbed' = [undisturbed EXCEPT ![poll[p].api] = FALSE]
  /\ CutShort({p})

InProgress(m) == {p \in Polls : poll[p].stage # "idle" /\ poll[p].api = m}

\* A caller holds the row of monitor m and calls recordCheck with it.  The row
\* may be an old one: the scheduler lists the due monitors once a cycle, and m
\* may be deleted while it waits in the pool.
StartPoll(p, m) ==
  /\ poll[p].stage = "idle"
  /\ poll' = [poll EXCEPT ![p].stage = "probing", ![p].api = m]
  /\ undisturbed' = [undisturbed EXCEPT ![m] = TRUE]
  /\ UNCHANGED <<written, outside, lost>>

\* Here is what is known of the caller: whether it may start one poll of m
\* while another is in progress.
BeginPoll(p, m) ==
  /\ Overlap \/ InProgress(m) = {}
  /\ StartPoll(p, m)

\* probeEndpoint never rejects: every error becomes a failed result.
Probe(p) ==
  /\ poll[p].stage = "probing"
  /\ poll' = [poll EXCEPT ![p].stage = "savingCheck",
                          ![p].response = endpoint[poll[p].api]]
  /\ UNCHANGED <<written, undisturbed, lost>>

\* monitorCheck.create.
SaveCheck(p) ==
  LET m == poll[p].api
  IN  /\ poll[p].stage = "savingCheck"
      /\ m \in monitors
      /\ lastCheck' = [lastCheck EXCEPT ![m] =
                         IF poll[p].response = "down" THEN "fail" ELSE "ok"]
      /\ GoTo(p, "findingOutage")
      /\ UNCHANGED <<snapshots, incidents, nextId, outbox>>

AfterOutage_AnyBody(p) ==
  IF poll[p].response # "down" THEN GoTo(p, "readingSnapshot") ELSE Return(p)

\* Only a successful check with an object for a body reaches the snapshots.
AfterOutage(p) ==
  IF poll[p].response \in Schemas THEN GoTo(p, "readingSnapshot") ELSE Return(p)

OnFailure_NeverDeduplicates(p, existing) == GoTo(p, "openingOutage")

OnFailure_NotifiesAgain(p, existing) ==
  \/ existing = 0 /\ GoTo(p, "openingOutage")
  \/ existing # 0 /\ GoToWith(p, "readingOwner", existing)

OnFailure(p, existing) ==
  \/ existing = 0 /\ GoTo(p, "openingOutage")
  \/ existing # 0 /\ Return(p)

OnSuccess(p, existing) ==
  \/ existing = 0 /\ AfterOutage(p)
  \/ existing # 0 /\ GoToWith(p, "resolvingOutage", existing)

\* The first statement of handleOutageIncident and the branches behind it.
FindOutage(p) ==
  /\ poll[p].stage = "findingOutage"
  /\ \E existing \in FindOpenIncident(poll[p].api, "OUTAGE") :
       IF poll[p].response = "down" THEN OnFailure(p, existing)
                                    ELSE OnSuccess(p, existing)
  /\ UNCHANGED written

\* incident.create for monitor m.
CreateIncident(m, type, severity) ==
  /\ m \in monitors
  /\ incidents' = AddRow(incidents, nextId,
                    [api |-> m, type |-> type, severity |-> severity,
                     status |-> "OPEN",
                     openedAt |-> Len(snapshots[m]), resolvedAt |-> None])
  /\ nextId' = nextId + 1

OpenOutage(p) ==
  /\ poll[p].stage = "openingOutage"
  /\ CreateIncident(poll[p].api, "OUTAGE", "CRITICAL")
  /\ GoToWith(p, "readingOwner", nextId)
  /\ UNCHANGED <<lastCheck, snapshots, outbox>>

Resolved_OnlyStamped(row) == [row EXCEPT !.resolvedAt = Len(snapshots[row.api])]

Resolved(row) ==
  [row EXCEPT !.status = "RESOLVED", !.resolvedAt = Len(snapshots[row.api])]

\* incident.update to RESOLVED.
ResolveOutage(p) ==
  LET i == poll[p].incident
  IN  /\ poll[p].stage = "resolvingOutage"
      /\ i \in DOMAIN incidents
      /\ incidents' = [incidents EXCEPT ![i] = Resolved(@)]
      /\ AfterOutage(p)
      /\ UNCHANGED <<lastCheck, snapshots, nextId, outbox>>

\* captureSchemaSnapshot reads the latest snapshot; equal hashes end the call.
ReadSnapshot(p) ==
  LET previous == Last(snapshots[poll[p].api])
  IN  /\ poll[p].stage = "readingSnapshot"
      /\ \/ /\ previous = poll[p].response
            /\ Return(p)
         \/ /\ previous # poll[p].response
            /\ poll' = [poll EXCEPT ![p].stage = "savingSnapshot",
                                    ![p].previous = previous]
            /\ UNCHANGED <<undisturbed, lost>>
      /\ UNCHANGED written

\* schemaSnapshot.create, then the diff, which pages or ends the call.
SaveSnapshot(p) ==
  LET m == poll[p].api
      severity == Severity(poll[p].previous, poll[p].response)
  IN  /\ poll[p].stage = "savingSnapshot"
      /\ m \in monitors
      /\ snapshots' = [snapshots EXCEPT ![m] = Append(@, poll[p].response)]
      /\ IF severity \in Paging THEN GoTo(p, "findingSchemaChange")
                                ELSE Return(p)
      /\ UNCHANGED <<lastCheck, incidents, nextId, outbox>>

FindSchemaChange_NoGuard(p) ==
  /\ poll[p].stage = "findingSchemaChange"
  /\ GoTo(p, "openingSchemaChange")
  /\ UNCHANGED written

FindSchemaChange_AnyStatus(p) ==
  /\ poll[p].stage = "findingSchemaChange"
  /\ IF FindOpenIncident_AnyStatus(poll[p].api, "SCHEMA_CHANGE") = {0}
     THEN GoTo(p, "openingSchemaChange")
     ELSE Return(p)
  /\ UNCHANGED written

\* handleSchemaChangeIncident: an open incident of this kind ends the call.
FindSchemaChange(p) ==
  /\ poll[p].stage = "findingSchemaChange"
  /\ IF Open(poll[p].api, "SCHEMA_CHANGE") = {}
     THEN GoTo(p, "openingSchemaChange")
     ELSE Return(p)
  /\ UNCHANGED written

\* incident.create; notifyIfCritical goes on only for a CRITICAL one.
OpenSchemaChange(p) ==
  LET severity == Severity(poll[p].previous, poll[p].response)
  IN  /\ poll[p].stage = "openingSchemaChange"
      /\ CreateIncident(poll[p].api, "SCHEMA_CHANGE", severity)
      /\ IF severity = "CRITICAL" THEN GoToWith(p, "readingOwner", nextId)
                                 ELSE Return(p)
      /\ UNCHANGED <<lastCheck, snapshots, outbox>>

ReadOwner_Inverted(p) ==
  /\ poll[p].stage = "readingOwner"
  /\ IF poll[p].api \notin monitors THEN GoTo(p, "mailing") ELSE Return(p)
  /\ UNCHANGED written

\* notifyIfCritical looks the monitor and its owner up; no monitor, no mail.
ReadOwner(p) ==
  /\ poll[p].stage = "readingOwner"
  /\ IF poll[p].api \in monitors THEN GoTo(p, "mailing") ELSE Return(p)
  /\ UNCHANGED written

\* sendIncidentEmail; a failure is caught and logged, nothing tries again.
Mail(p) ==
  /\ poll[p].stage = "mailing"
  /\ \/ outbox' = Append(outbox, poll[p].incident)
     \/ "mailFailure" \in Environment /\ UNCHANGED outbox
  /\ Return(p)
  /\ UNCHANGED <<lastCheck, snapshots, incidents, nextId>>

\* Once the monitor is gone the foreign key refuses every insert, and the
\* update of an incident deleted with it rejects.
Refused(p) ==
  /\ \/ /\ poll[p].stage \in {"savingCheck", "openingOutage", "savingSnapshot",
                              "openingSchemaChange"}
        /\ poll[p].api \notin monitors
     \/ /\ poll[p].stage = "resolvingOutage"
        /\ poll[p].incident \notin DOMAIN incidents
  /\ Reject(p)
  /\ UNCHANGED written

\* The call's next step.
PollStep(p) ==
  /\ \/ Probe(p)         \/ SaveCheck(p)        \/ FindOutage(p)
     \/ OpenOutage(p)    \/ ResolveOutage(p)    \/ ReadSnapshot(p)
     \/ SaveSnapshot(p)  \/ FindSchemaChange(p) \/ OpenSchemaChange(p)
     \/ ReadOwner(p)     \/ Mail(p)             \/ Refused(p)
  /\ UNCHANGED outside

-----------------------------------------------------------------------------
(* Requests of users: each reads the row, checks its status, then updates  *)
(* it by id.  One that finds no row, or a status the check refuses, answers *)
(* 404 or 400 and changes nothing.                                         *)

Event == events < MaxEvents /\ events' = events + 1

ReadForAcknowledge(r, i) ==
  /\ "acknowledge" \in Environment
  /\ request[r].stage = "idle"
  /\ incidents[i].status = "OPEN"
  /\ request' = [request EXCEPT ![r] = [stage |-> "acknowledging", incident |-> i]]
  /\ Event
  /\ UNCHANGED <<written, monitors, endpoint, poll, undisturbed, lost>>

ReadForResolve(r, i) ==
  /\ "resolve" \in Environment
  /\ request[r].stage = "idle"
  /\ incidents[i].status # "RESOLVED"
  /\ request' = [request EXCEPT ![r] = [stage |-> "resolving", incident |-> i]]
  /\ Event
  /\ UNCHANGED <<written, monitors, endpoint, poll, undisturbed, lost>>

\* The update of a request on incident i; it rejects when the row is gone.
Update(r, row) ==
  LET i == request[r].incident
  IN  /\ request' = [request EXCEPT ![r] = IdleRequest]
      /\ \/ /\ i \in DOMAIN incidents
            /\ incidents' = [incidents EXCEPT ![i] = row]
            /\ undisturbed' = [undisturbed EXCEPT ![incidents[i].api] = FALSE]
         \/ /\ i \notin DOMAIN incidents
            /\ UNCHANGED <<incidents, undisturbed>>
      /\ UNCHANGED <<monitors, endpoint, lastCheck, snapshots, nextId, outbox,
                     poll, lost, events>>

WriteAcknowledge(r) ==
  /\ request[r].stage = "acknowledging"
  /\ Update(r, [incidents[request[r].incident] EXCEPT !.status = "ACKNOWLEDGED"])

WriteResolve(r) ==
  /\ request[r].stage = "resolving"
  /\ Update(r, Resolved(incidents[request[r].incident]))

-----------------------------------------------------------------------------
(* The rest of the environment.                                            *)

EndpointChanges(m, answer) ==
  /\ endpoint[m] # answer
  /\ endpoint' = [endpoint EXCEPT ![m] = answer]
  /\ Event
  /\ UNCHANGED <<written, monitors, poll, request, undisturbed, lost>>

\* The statement p awaits is refused, a lost connection say.
Throw(p) ==
  /\ "throw" \in Environment
  /\ poll[p].stage \in DatabaseStages
  /\ Reject(p)
  /\ Event
  /\ UNCHANGED <<written, monitors, endpoint, request>>

\* The process stops and starts again: what was in progress is forgotten.
Crash ==
  /\ "crash" \in Environment
  /\ poll' = [p \in Polls |-> IdlePoll]
  /\ request' = [r \in Requests |-> IdleRequest]
  /\ undisturbed' = [m \in Monitors |-> FALSE]
  /\ CutShort(Polls)
  /\ Event
  /\ UNCHANGED <<written, monitors, endpoint>>

\* The owner deletes the monitor; its rows go with it (onDelete: Cascade).
DeleteMonitor(m) ==
  /\ "delete" \in Environment
  /\ m \in monitors
  /\ monitors' = monitors \ {m}
  /\ lastCheck' = [lastCheck EXCEPT ![m] = "none"]
  /\ snapshots' = [snapshots EXCEPT ![m] = <<>>]
  /\ incidents' =
       [i \in {j \in DOMAIN incidents : incidents[j].api # m} |-> incidents[i]]
  /\ Event
  /\ UNCHANGED <<endpoint, nextId, outbox, poll, request, undisturbed, lost>>

Next ==
  \/ \E p \in Polls, m \in Monitors : BeginPoll(p, m)
  \/ \E p \in Polls : PollStep(p)
  \/ \E r \in Requests, i \in DOMAIN incidents : ReadForAcknowledge(r, i)
  \/ \E r \in Requests, i \in DOMAIN incidents : ReadForResolve(r, i)
  \/ \E r \in Requests : WriteAcknowledge(r)
  \/ \E r \in Requests : WriteResolve(r)
  \/ \E m \in Monitors, answer \in Response : EndpointChanges(m, answer)
  \/ \E p \in Polls : Throw(p)
  \/ Crash
  \/ \E m \in Monitors : DeleteMonitor(m)

Spec == Init /\ [][Next]_vars

\* The scheduler polls every monitor again and again, and every call it makes
\* takes its next step: the probe times out after 10 s, statements and the
\* SMTP exchange answer or fail.  Nothing is promised of users and faults.
Fairness ==
  /\ \A m \in Monitors : SF_vars(\E p \in Polls : BeginPoll(p, m))
  /\ \A p \in Polls : WF_vars(PollStep(p))

FairSpec == Spec /\ Fairness

-----------------------------------------------------------------------------
(* Safety.  The first five hold only when polls of one monitor do not      *)
(* overlap, which is what the scheduler's guard and its list of distinct   *)
(* monitors give; "poll now" (apiMonitorController.ts) can break that.     *)

\* No monitor has two open incidents of one kind ("Never opens a second
\* incident while one is already open", incidentService.ts): the check and
\* the insert are separate statements, and no unique index backs them.
AtMostOneOpen ==
  \A m \in Monitors, t \in {"OUTAGE", "SCHEMA_CHANGE"} :
    Cardinality(Open(m, t)) <= 1

\* Acknowledgements may hit an incident that was resolved meanwhile and so
\* open it again, but even then no two incidents of one kind wait for a first
\* reaction: at most one is OPEN.
AtMostOneUnacknowledged ==
  \A i, j \in DOMAIN incidents :
    /\ incidents[i].status = "OPEN"
    /\ incidents[j].status = "OPEN"
    /\ incidents[i].api = incidents[j].api
    /\ incidents[i].type = incidents[j].type
    => i = j

\* Between polls, unless a fault or a user interfered with the last one, an
\* outage is open exactly if the latest check failed: recordCheck keeps the
\* two tables in step.
OutageTracksChecks ==
  \A m \in monitors :
    undisturbed[m] /\ InProgress(m) = {} =>
      (Open(m, "OUTAGE") # {} <=> lastCheck[m] = "fail")

\* "Unchanged responses never create duplicates" (monitorService.ts).
SnapshotsDiffer ==
  \A m \in Monitors : \A n \in 1 .. Len(snapshots[m]) - 1 :
    snapshots[m][n] # snapshots[m][n + 1]

\* Incident i was open at some time while the n-th snapshot of m was the latest.
OpenAtSnapshot(i, m, n) ==
  /\ incidents[i].api = m
  /\ incidents[i].type = "SCHEMA_CHANGE"
  /\ incidents[i].openedAt <= n
  /\ incidents[i].status \in OPEN_STATUSES \/ incidents[i].resolvedAt >= n

\* captureSchemaSnapshot moves the baseline first, so no later poll sees the same
\* change again.  Yet each change that must page has its incident: opened for
\* it, or open when it came, one that was resolved before does not count.  Only
\* a call cut short between the snapshot and the incident loses its change, and
\* no other (the latest one may still be on its way).
BreakingChangeLeavesIncident ==
  \A m \in monitors : \A n \in 2 .. Len(snapshots[m]) :
    /\ Verdict[<<snapshots[m][n - 1], snapshots[m][n]>>] \in Paging
    /\ n \notin lost[m]
    /\ n < Len(snapshots[m]) \/ InProgress(m) = {}
    => \E i \in DOMAIN incidents : OpenAtSnapshot(i, m, n)

\* With a working database and mail server, every CRITICAL incident was mailed
\* or the call that opened it is about to mail it.
CriticalIsAnnounced ==
  \A i \in DOMAIN incidents :
    incidents[i].severity = "CRITICAL" =>
      \/ \E n \in 1 .. Len(outbox) : outbox[n] = i
      \/ \E p \in Polls : /\ poll[p].stage \in {"readingOwner", "mailing"}
                          /\ poll[p].incident = i

\* "Fires once per newly-opened CRITICAL incident" (notifyIfCritical): however
\* polls overlap, fail or are cut short, no incident is mailed twice.
MailOncePerIncident ==
  \A k, n \in 1 .. Len(outbox) : outbox[k] = outbox[n] => k = n

\* A schema incident is never a false alarm: the monitor's history holds two
\* snapshots, in this order, whose difference has the incident's severity.  In
\* particular a baseline, or an addition, raises nothing.
SchemaIncidentExplained ==
  \A i \in DOMAIN incidents :
    incidents[i].type = "SCHEMA_CHANGE" =>
      LET stored == snapshots[incidents[i].api]
      IN  \E n \in 1 .. Len(stored) : \E k \in 1 .. n - 1 :
            Verdict[<<stored[k], stored[n]>>] = incidents[i].severity

\* Overlapping polls can open duplicates, but never more than one each: as
\* long as one incident is open, every later poll finds it.  Those that a late
\* acknowledgement opens again, after their resolution, come on top.
OpenBounded ==
  \A m \in Monitors, t \in {"OUTAGE", "SCHEMA_CHANGE"} :
    Cardinality({i \in Open(m, t) : incidents[i].resolvedAt = None})
      <= Cardinality(Polls)

\* A resolved incident stays resolved; a new problem is a new incident ("Only
\* an open incident can be acknowledged", acknowledgeIncident).
ResolvedIsFinal ==
  [][\A i \in DOMAIN incidents :
       incidents[i].status = "RESOLVED" /\ i \in DOMAIN incidents' =>
         incidents'[i].status = "RESOLVED"]_vars

-----------------------------------------------------------------------------
(* Liveness: whatever races, faults and restarts happened, a world that     *)
(* stays as it is gets noticed in the end.                                  *)

\* "Resolves it automatically once the endpoint recovers": every open outage
\* of an endpoint that stays up is closed for good, duplicates included.
RecoveryClears ==
  \A m \in Monitors :
    <>[](endpoint[m] # "down") => <>[](Open(m, "OUTAGE") = {})

\* An endpoint that stays down has an open outage from some time on.
OutageIsRaised ==
  \A m \in Monitors :
    <>[](endpoint[m] = "down" /\ m \in monitors) => <>[](Open(m, "OUTAGE") # {})

\* An endpoint that keeps one structure has it as its baseline in the end,
\* even after a slow poll stored an older answer over it.
BaselineCatchesUp ==
  \A m \in Monitors : \A s \in Schemas :
    <>[](endpoint[m] = s /\ m \in monitors) => <>[](
      snapshots[m] # <<>> /\ snapshots[m][Len(snapshots[m])] = s)

=============================================================================
