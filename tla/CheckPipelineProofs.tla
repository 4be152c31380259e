------------------------ MODULE CheckPipelineProofs ------------------------
(***************************************************************************)
(* Theorems about CheckPipeline, for any number of monitors, overlapping   *)
(* polls, requests and events, and any verdicts.                           *)
(***************************************************************************)
EXTENDS CheckPipeline, SequenceTheorems, FiniteSetTheorems, TLAPS

-----------------------------------------------------------------------------
(* Types.  TypeOK is inductive with what a call knows at each stage.       *)

Notifying == {"readingOwner", "mailing"}

SchemaStages ==
  {"readingSnapshot", "savingSnapshot", "findingSchemaChange",
   "openingSchemaChange"}

CallOK(c) ==
  /\ c \in Call
  /\ c.stage # "idle" => c.api \in Monitors
  /\ c.stage \notin {"idle", "probing"} => c.response \in Response
  /\ c.stage \in SchemaStages => c.response \in Schemas
  /\ c.stage \in PagingStages => Severity(c.previous, c.response) \in Paging
  /\ c.stage \in Notifying => c.incident # 0

TypeInv == TypeOK /\ \A p \in Polls : CallOK(poll[p])

LEMMA IdleOK == CallOK(IdlePoll) /\ IdleRequest \in UserRequest
BY DEF CallOK, IdlePoll, IdleRequest, Call, UserRequest, Stages, SchemaStages,
       PagingStages, Notifying

LEMMA InitTypeInv == Init => TypeInv
<1> SUFFICES ASSUME Init PROVE TypeInv
  OBVIOUS
<1>1. \A p \in Polls : poll[p] = IdlePoll
  BY DEF Init
<1>2. TypeOK
  BY IdleOK, EnvironmentAssumption DEF Init, TypeOK, CallOK
<1>3. QED
  BY <1>1, <1>2, IdleOK DEF TypeInv

\* A step of call p that leaves it in a good state keeps every call good.
LEMMA CallFrame ==
  ASSUME TypeInv, NEW p \in Polls, NEW c, CallOK(c),
         poll' = [poll EXCEPT ![p] = c]
  PROVE  /\ poll' \in [Polls -> Call]
         /\ \A q \in Polls : CallOK(poll'[q])
BY DEF TypeInv, TypeOK, CallOK

LEMMA GoToFrame ==
  ASSUME TypeInv, NEW p \in Polls, NEW stage, GoTo(p, stage),
         CallOK([poll[p] EXCEPT !.stage = stage])
  PROVE  /\ poll' \in [Polls -> Call]
         /\ \A q \in Polls : CallOK(poll'[q])
         /\ undisturbed' \in [Monitors -> BOOLEAN]
         /\ lost' \in [Monitors -> SUBSET Nat]
<1>1. poll' = [poll EXCEPT ![p] = [poll[p] EXCEPT !.stage = stage]]
  BY DEF GoTo
<1>2. QED
  BY <1>1, CallFrame DEF GoTo, TypeInv, TypeOK

LEMMA GoToWithFrame ==
  ASSUME TypeInv, NEW p \in Polls, NEW stage, NEW i, GoToWith(p, stage, i),
         CallOK([poll[p] EXCEPT !.stage = stage, !.incident = i])
  PROVE  /\ poll' \in [Polls -> Call]
         /\ \A q \in Polls : CallOK(poll'[q])
         /\ undisturbed' \in [Monitors -> BOOLEAN]
         /\ lost' \in [Monitors -> SUBSET Nat]
<1>1. poll' = [poll EXCEPT ![p] = [poll[p] EXCEPT !.stage = stage,
                                                  !.incident = i]]
  BY DEF GoToWith, TypeInv, TypeOK, Call
<1>2. QED
  BY <1>1, CallFrame DEF GoToWith, TypeInv, TypeOK

LEMMA CutShortType ==
  ASSUME TypeInv, NEW calls, CutShort(calls)
  PROVE  lost' \in [Monitors -> SUBSET Nat]
<1>1. \A m \in Monitors : Len(snapshots[m]) \in Nat
  BY DEF TypeInv, TypeOK
<1>2. QED
  BY <1>1 DEF CutShort, TypeInv, TypeOK

LEMMA IdleFrame ==
  ASSUME TypeInv, NEW p \in Polls, Return(p) \/ Reject(p)
  PROVE  /\ poll' \in [Polls -> Call]
         /\ \A q \in Polls : CallOK(poll'[q])
         /\ undisturbed' \in [Monitors -> BOOLEAN]
         /\ lost' \in [Monitors -> SUBSET Nat]
<1>1. poll' = [poll EXCEPT ![p] = IdlePoll]
  BY DEF Return, Reject
<1>2. /\ undisturbed' \in [Monitors -> BOOLEAN]
      /\ lost' \in [Monitors -> SUBSET Nat]
  BY CutShortType DEF Return, Reject, TypeInv, TypeOK
<1>3. QED
  BY <1>1, <1>2, IdleOK, CallFrame

LEMMA AfterOutageFrame ==
  ASSUME TypeInv, NEW p \in Polls, AfterOutage(p),
         poll[p].stage \in {"findingOutage", "resolvingOutage"}
  PROVE  /\ poll' \in [Polls -> Call]
         /\ \A q \in Polls : CallOK(poll'[q])
         /\ undisturbed' \in [Monitors -> BOOLEAN]
         /\ lost' \in [Monitors -> SUBSET Nat]
<1>1. CASE poll[p].response \in Schemas /\ GoTo(p, "readingSnapshot")
  <2>1. CallOK([poll[p] EXCEPT !.stage = "readingSnapshot"])
    BY <1>1 DEF TypeInv, CallOK, Call, Stages, DatabaseStages, SchemaStages,
                PagingStages, Notifying
  <2>2. QED
    BY <1>1, <2>1, GoToFrame
<1>2. CASE Return(p)
  BY <1>2, IdleFrame
<1>3. QED
  BY <1>1, <1>2 DEF AfterOutage

LEMMA NewIncident ==
  ASSUME TypeInv, NEW m \in Monitors, NEW t \in {"OUTAGE", "SCHEMA_CHANGE"},
         NEW severity \in {"WARNING", "CRITICAL"}, CreateIncident(m, t, severity)
  PROVE  /\ nextId \in Nat \ {0}
         /\ nextId' = nextId + 1
         /\ DOMAIN incidents' = DOMAIN incidents \cup {nextId}
         /\ DOMAIN incidents' \subseteq Nat \ {0}
         /\ \A i \in DOMAIN incidents' : incidents'[i] \in Incident
BY DEF CreateIncident, AddRow, Incident, TypeInv, TypeOK

LEMMA UpdatedIncident ==
  ASSUME TypeInv, NEW j \in DOMAIN incidents, NEW row \in Incident,
         incidents' = [incidents EXCEPT ![j] = row]
  PROVE  /\ DOMAIN incidents' = DOMAIN incidents
         /\ \A i \in DOMAIN incidents' : incidents'[i] \in Incident
BY DEF TypeInv, TypeOK

\* What a resolution leaves of a row.
LEMMA ResolvedRow ==
  ASSUME TypeInv, NEW i \in DOMAIN incidents
  PROVE  LET row == Resolved(incidents[i])
         IN  /\ row \in Incident
             /\ row.status = "RESOLVED"
             /\ row.resolvedAt = Len(snapshots[incidents[i].api])
             /\ row.api = incidents[i].api
             /\ row.type = incidents[i].type
             /\ row.severity = incidents[i].severity
             /\ row.openedAt = incidents[i].openedAt
<1>1. incidents[i] \in Incident
  BY DEF TypeInv, TypeOK
<1>2. Len(snapshots[incidents[i].api]) \in Nat
  BY <1>1 DEF Incident, TypeInv, TypeOK
<1>3. QED
  BY <1>1, <1>2 DEF Resolved, Incident

LEMMA PollStepType ==
  ASSUME TypeInv, NEW p \in Polls, PollStep(p)
  PROVE  TypeInv'
<1> USE DEF TypeInv
<1>0. CallOK(poll[p])
  OBVIOUS
<1>a. UNCHANGED outside
  BY DEF PollStep
<1>1. CASE Probe(p)
  <2> DEFINE c == [poll[p] EXCEPT !.stage = "savingCheck",
                                  !.response = endpoint[poll[p].api]]
  <2>1. poll' = [poll EXCEPT ![p] = c]
    BY <1>1 DEF Probe, TypeOK, Call
  <2>2. CallOK(c)
    BY <1>0, <1>1 DEF Probe, TypeOK, CallOK, Call, Stages, DatabaseStages,
                      SchemaStages, PagingStages, Notifying
  <2>3. poll' \in [Polls -> Call] /\ \A q \in Polls : CallOK(poll'[q])
    BY <2>1, <2>2, CallFrame
  <2>4. QED
    BY <1>1, <1>a, <2>3 DEF Probe, TypeOK, outside, written
<1>2. CASE SaveCheck(p)
  <2>1. CallOK([poll[p] EXCEPT !.stage = "findingOutage"])
    BY <1>0, <1>2 DEF SaveCheck, CallOK, Call, Stages, DatabaseStages,
                      SchemaStages, PagingStages, Notifying
  <2>2. /\ poll' \in [Polls -> Call]
        /\ \A q \in Polls : CallOK(poll'[q])
        /\ undisturbed' \in [Monitors -> BOOLEAN]
        /\ lost' \in [Monitors -> SUBSET Nat]
    BY <1>2, <2>1, GoToFrame DEF SaveCheck
  <2>3. QED
    BY <1>2, <1>a, <2>2 DEF SaveCheck, TypeOK, outside
<1>3. CASE FindOutage(p)
  <2>1. PICK existing \in FindOpenIncident(poll[p].api, "OUTAGE") :
          OnFailure(p, existing) \/ OnSuccess(p, existing)
    BY <1>3 DEF FindOutage
  <2>2. existing \in Nat
    BY DEF FindOpenIncident, Open, TypeOK
  <2>3. \A stage \in {"openingOutage", "resolvingOutage"} :
          \A i \in Nat :
            /\ CallOK([poll[p] EXCEPT !.stage = stage])
            /\ CallOK([poll[p] EXCEPT !.stage = stage, !.incident = i])
    BY <1>0, <1>3 DEF FindOutage, CallOK, Call, Stages, DatabaseStages,
                      SchemaStages, PagingStages, Notifying
  <2>4. \/ GoTo(p, "openingOutage")
        \/ Return(p)
        \/ AfterOutage(p)
        \/ GoToWith(p, "resolvingOutage", existing)
    BY <2>1 DEF OnFailure, OnSuccess
  <2>5. /\ poll' \in [Polls -> Call]
        /\ \A q \in Polls : CallOK(poll'[q])
        /\ undisturbed' \in [Monitors -> BOOLEAN]
        /\ lost' \in [Monitors -> SUBSET Nat]
    <3>1. CASE GoTo(p, "openingOutage")
      BY <2>2, <2>3, <3>1, GoToFrame
    <3>2. CASE Return(p)
      BY <3>2, IdleFrame
    <3>3. CASE AfterOutage(p)
      BY <1>3, <3>3, AfterOutageFrame DEF FindOutage
    <3>4. CASE GoToWith(p, "resolvingOutage", existing)
      BY <2>2, <2>3, <3>4, GoToWithFrame
    <3>5. QED
      BY <2>4, <3>1, <3>2, <3>3, <3>4
  <2>6. QED
    BY <1>3, <1>a, <2>5 DEF FindOutage, TypeOK, outside, written
<1>4. CASE OpenOutage(p)
  <2>1. /\ poll[p].api \in Monitors
        /\ CreateIncident(poll[p].api, "OUTAGE", "CRITICAL")
        /\ GoToWith(p, "readingOwner", nextId)
    BY <1>0, <1>4 DEF OpenOutage, CallOK
  <2>2. /\ nextId \in Nat \ {0}
        /\ nextId' = nextId + 1
        /\ DOMAIN incidents' \subseteq Nat \ {0}
        /\ \A i \in DOMAIN incidents' : incidents'[i] \in Incident
    BY <2>1, NewIncident
  <2>3. CallOK([poll[p] EXCEPT !.stage = "readingOwner", !.incident = nextId])
    BY <1>0, <1>4, <2>2 DEF OpenOutage, CallOK, Call, Stages, DatabaseStages,
                            SchemaStages, PagingStages, Notifying
  <2>4. /\ poll' \in [Polls -> Call]
        /\ \A q \in Polls : CallOK(poll'[q])
        /\ undisturbed' \in [Monitors -> BOOLEAN]
        /\ lost' \in [Monitors -> SUBSET Nat]
    BY <2>1, <2>3, GoToWithFrame
  <2>5. QED
    BY <1>4, <1>a, <2>2, <2>4 DEF OpenOutage, TypeOK, outside
<1>5. CASE ResolveOutage(p)
  <2> DEFINE j == poll[p].incident
  <2>1. /\ j \in DOMAIN incidents
        /\ incidents' = [incidents EXCEPT ![j] = Resolved(incidents[j])]
        /\ AfterOutage(p)
    BY <1>5 DEF ResolveOutage
  <2>2. Resolved(incidents[j]) \in Incident
    BY <2>1, ResolvedRow
  <2>3. /\ DOMAIN incidents' = DOMAIN incidents
        /\ \A i \in DOMAIN incidents' : incidents'[i] \in Incident
    BY <2>1, <2>2, UpdatedIncident
  <2>4. /\ poll' \in [Polls -> Call]
        /\ \A q \in Polls : CallOK(poll'[q])
        /\ undisturbed' \in [Monitors -> BOOLEAN]
        /\ lost' \in [Monitors -> SUBSET Nat]
    BY <1>5, <2>1, AfterOutageFrame DEF ResolveOutage
  <2>5. QED
    BY <1>5, <1>a, <2>3, <2>4 DEF ResolveOutage, TypeOK, outside
<1>6. CASE ReadSnapshot(p)
  <2> DEFINE previous == Last(snapshots[poll[p].api])
             c == [poll[p] EXCEPT !.stage = "savingSnapshot",
                                  !.previous = previous]
  <2>1. previous \in Schemas \cup {None}
    BY <1>0, <1>6 DEF ReadSnapshot, Last, TypeOK, CallOK
  <2>2. CallOK(c)
    BY <1>0, <1>6, <2>1 DEF ReadSnapshot, CallOK, Call, Stages, DatabaseStages,
                            SchemaStages, PagingStages, Notifying
  <2>3. CASE Return(p)
    BY <1>6, <1>a, <2>3, IdleFrame DEF ReadSnapshot, TypeOK, outside, written
  <2>4. CASE /\ poll' = [poll EXCEPT ![p].stage = "savingSnapshot",
                                     ![p].previous = previous]
             /\ UNCHANGED <<undisturbed, lost>>
    <3>1. poll' = [poll EXCEPT ![p] = c]
      BY <2>4 DEF TypeOK, Call
    <3>2. poll' \in [Polls -> Call] /\ \A q \in Polls : CallOK(poll'[q])
      BY <2>2, <3>1, CallFrame
    <3>3. QED
      BY <1>6, <1>a, <2>4, <3>2 DEF ReadSnapshot, TypeOK, outside, written
  <2>5. QED
    BY <1>6, <2>3, <2>4 DEF ReadSnapshot
<1>7. CASE SaveSnapshot(p)
  <2> DEFINE m == poll[p].api
             severity == Severity(poll[p].previous, poll[p].response)
  <2>1. snapshots' \in [Monitors -> Seq(Schemas)]
    BY <1>0, <1>7 DEF SaveSnapshot, TypeOK, CallOK, SchemaStages
  <2>2. CASE severity \in Paging /\ GoTo(p, "findingSchemaChange")
    <3>1. CallOK([poll[p] EXCEPT !.stage = "findingSchemaChange"])
      BY <1>0, <1>7, <2>2 DEF SaveSnapshot, CallOK, Call, Stages,
           DatabaseStages, SchemaStages, PagingStages, Notifying
    <3>2. QED
      BY <1>7, <1>a, <2>1, <2>2, <3>1, GoToFrame
      DEF SaveSnapshot, TypeOK, outside
  <2>3. CASE Return(p)
    BY <1>7, <1>a, <2>1, <2>3, IdleFrame DEF SaveSnapshot, TypeOK, outside
  <2>4. QED
    BY <1>7, <2>2, <2>3 DEF SaveSnapshot
<1>8. CASE FindSchemaChange(p)
  <2>1. CASE GoTo(p, "openingSchemaChange")
    <3>1. CallOK([poll[p] EXCEPT !.stage = "openingSchemaChange"])
      BY <1>0, <1>8 DEF FindSchemaChange, CallOK, Call, Stages,
           DatabaseStages, SchemaStages, PagingStages, Notifying
    <3>2. QED
      BY <1>8, <1>a, <2>1, <3>1, GoToFrame
      DEF FindSchemaChange, TypeOK, outside, written
  <2>2. CASE Return(p)
    BY <1>8, <1>a, <2>2, IdleFrame DEF FindSchemaChange, TypeOK, outside, written
  <2>3. QED
    BY <1>8, <2>1, <2>2 DEF FindSchemaChange
<1>9. CASE OpenSchemaChange(p)
  <2> DEFINE severity == Severity(poll[p].previous, poll[p].response)
  <2>1. /\ poll[p].api \in Monitors
        /\ severity \in {"WARNING", "CRITICAL"}
        /\ CreateIncident(poll[p].api, "SCHEMA_CHANGE", severity)
    BY <1>0, <1>9 DEF OpenSchemaChange, CallOK, PagingStages, Paging
  <2>2. /\ nextId \in Nat \ {0}
        /\ nextId' = nextId + 1
        /\ DOMAIN incidents' \subseteq Nat \ {0}
        /\ \A i \in DOMAIN incidents' : incidents'[i] \in Incident
    BY <2>1, NewIncident
  <2>3. CASE GoToWith(p, "readingOwner", nextId)
    <3>1. CallOK([poll[p] EXCEPT !.stage = "readingOwner", !.incident = nextId])
      BY <1>0, <1>9, <2>2 DEF OpenSchemaChange, CallOK, Call, Stages,
           DatabaseStages, SchemaStages, PagingStages, Notifying
    <3>2. /\ poll' \in [Polls -> Call]
          /\ \A q \in Polls : CallOK(poll'[q])
          /\ undisturbed' \in [Monitors -> BOOLEAN]
          /\ lost' \in [Monitors -> SUBSET Nat]
      BY <2>3, <3>1, GoToWithFrame
    <3>3. QED
      BY <1>9, <1>a, <2>2, <3>2 DEF OpenSchemaChange, TypeOK, outside
  <2>4. CASE Return(p)
    BY <1>9, <1>a, <2>2, <2>4, IdleFrame DEF OpenSchemaChange, TypeOK, outside
  <2>5. QED
    BY <1>9, <2>3, <2>4 DEF OpenSchemaChange
<1>10. CASE ReadOwner(p)
  <2>1. CASE GoTo(p, "mailing")
    <3>1. CallOK([poll[p] EXCEPT !.stage = "mailing"])
      BY <1>0, <1>10 DEF ReadOwner, CallOK, Call, Stages, DatabaseStages,
                         SchemaStages, PagingStages, Notifying
    <3>2. QED
      BY <1>10, <1>a, <2>1, <3>1, GoToFrame
      DEF ReadOwner, TypeOK, outside, written
  <2>2. CASE Return(p)
    BY <1>10, <1>a, <2>2, IdleFrame DEF ReadOwner, TypeOK, outside, written
  <2>3. QED
    BY <1>10, <2>1, <2>2 DEF ReadOwner
<1>11. CASE Mail(p)
  <2>1. poll[p].incident \in Nat \ {0}
    BY <1>0, <1>11 DEF Mail, CallOK, Call, Notifying
  <2>2. outbox' = Append(outbox, poll[p].incident) \/ outbox' = outbox
    BY <1>11 DEF Mail
  <2>3. outbox' \in Seq(Nat \ {0})
    <3>1. outbox \in Seq(Nat \ {0})
      BY DEF TypeOK
    <3>2. Append(outbox, poll[p].incident) \in Seq(Nat \ {0})
      BY <2>1, <3>1, AppendProperties, Zenon
    <3>3. QED
      BY <2>2, <3>1, <3>2
  <2>4. QED
    BY <1>11, <1>a, <2>3, IdleFrame DEF Mail, TypeOK, outside
<1>12. CASE Refused(p)
  BY <1>12, <1>a, IdleFrame DEF Refused, TypeOK, outside, written
<1>13. QED
  BY <1>1, <1>2, <1>3, <1>4, <1>5, <1>6, <1>7, <1>8, <1>9, <1>10, <1>11, <1>12
  DEF PollStep

LEMMA UpdateType ==
  ASSUME TypeInv, NEW r \in Requests, NEW row, Update(r, row),
         request[r].incident \in DOMAIN incidents => row \in Incident
  PROVE  TypeInv'
<1> DEFINE i == request[r].incident
<1>1. /\ request' = [request EXCEPT ![r] = IdleRequest]
      /\ UNCHANGED <<monitors, endpoint, lastCheck, snapshots, nextId, outbox,
                     poll, lost, events>>
  BY DEF Update
<1>2. request' \in [Requests -> UserRequest]
  BY <1>1, IdleOK DEF TypeInv, TypeOK
<1>3. /\ DOMAIN incidents' \subseteq Nat \ {0}
      /\ \A j \in DOMAIN incidents' : incidents'[j] \in Incident
      /\ undisturbed' \in [Monitors -> BOOLEAN]
      /\ lost' \in [Monitors -> SUBSET Nat]
  BY DEF Update, TypeInv, TypeOK
<1>4. QED
  BY <1>1, <1>2, <1>3 DEF TypeInv, TypeOK

\* Every step, of a call or of the environment, preserves the types.
LEMMA NextType == TypeInv /\ [Next]_vars => TypeInv'
<1> SUFFICES ASSUME TypeInv, [Next]_vars PROVE TypeInv'
  OBVIOUS
<1> USE DEF TypeInv
<1>1. ASSUME NEW p \in Polls, NEW m \in Monitors, BeginPoll(p, m)
      PROVE  TypeInv'
  <2> DEFINE c == [poll[p] EXCEPT !.stage = "probing", !.api = m]
  <2>1. poll' = [poll EXCEPT ![p] = c]
    BY <1>1 DEF BeginPoll, StartPoll, TypeOK, Call
  <2>2. CallOK(c)
    BY DEF CallOK, Call, Stages, SchemaStages, PagingStages, Notifying
  <2>3. poll' \in [Polls -> Call] /\ \A q \in Polls : CallOK(poll'[q])
    BY <2>1, <2>2, CallFrame
  <2>4. QED
    BY <1>1, <2>3 DEF BeginPoll, StartPoll, TypeOK, written, outside
<1>2. ASSUME NEW p \in Polls, PollStep(p) PROVE TypeInv'
  BY <1>2, PollStepType
<1>3. ASSUME NEW r \in Requests, NEW i \in DOMAIN incidents,
             ReadForAcknowledge(r, i) \/ ReadForResolve(r, i)
      PROVE  TypeInv'
  <2>1. request' \in [Requests -> UserRequest]
    <3>1. PICK stage \in {"acknowledging", "resolving"} :
            request' = [request EXCEPT ![r] = [stage |-> stage, incident |-> i]]
      BY <1>3 DEF ReadForAcknowledge, ReadForResolve
    <3>2. [stage |-> stage, incident |-> i] \in UserRequest
      BY DEF TypeOK, UserRequest
    <3>3. QED
      BY <3>1, <3>2 DEF TypeOK
  <2>2. events' \in 0 .. MaxEvents
    <3>1. Event
      BY <1>3 DEF ReadForAcknowledge, ReadForResolve
    <3>2. QED
      BY <3>1, EnvironmentAssumption DEF Event, TypeOK
  <2>3. QED
    BY <1>3, <2>1, <2>2 DEF ReadForAcknowledge, ReadForResolve, TypeOK, written
<1>4. ASSUME NEW r \in Requests, WriteAcknowledge(r) PROVE TypeInv'
  <2> DEFINE i == request[r].incident
             row == [incidents[i] EXCEPT !.status = "ACKNOWLEDGED"]
  <2>1. i \in DOMAIN incidents => row \in Incident
    BY ZenonT(60) DEF TypeOK, Incident
  <2>2. Update(r, row)
    BY <1>4 DEF WriteAcknowledge
  <2>3. QED
    BY <2>1, <2>2, UpdateType
<1>5. ASSUME NEW r \in Requests, WriteResolve(r) PROVE TypeInv'
  <2> DEFINE i == request[r].incident
  <2>1. i \in DOMAIN incidents => Resolved(incidents[i]) \in Incident
    BY ResolvedRow
  <2>2. Update(r, Resolved(incidents[i]))
    BY <1>5 DEF WriteResolve
  <2>3. QED
    BY <2>1, <2>2, UpdateType
<1>6. ASSUME NEW m \in Monitors, NEW answer \in Response,
             EndpointChanges(m, answer)
      PROVE  TypeInv'
  BY <1>6, EnvironmentAssumption DEF EndpointChanges, Event, TypeOK, written
<1>7. ASSUME NEW p \in Polls, Throw(p) PROVE TypeInv'
  <2>1. /\ poll' \in [Polls -> Call]
        /\ \A q \in Polls : CallOK(poll'[q])
        /\ undisturbed' \in [Monitors -> BOOLEAN]
        /\ lost' \in [Monitors -> SUBSET Nat]
    BY <1>7, IdleFrame DEF Throw
  <2>2. events' \in 0 .. MaxEvents
    BY <1>7, EnvironmentAssumption DEF Throw, Event, TypeOK
  <2>3. QED
    BY <1>7, <2>1, <2>2 DEF Throw, TypeOK, written
<1>8. CASE Crash
  <2>1. lost' \in [Monitors -> SUBSET Nat]
    BY <1>8, CutShortType DEF Crash
  <2>2. QED
    BY <1>8, <2>1, IdleOK, EnvironmentAssumption
    DEF Crash, Event, TypeOK, CallOK, written
<1>9. ASSUME NEW m \in Monitors, DeleteMonitor(m) PROVE TypeInv'
  BY <1>9, EnvironmentAssumption DEF DeleteMonitor, Event, TypeOK
<1>10. CASE UNCHANGED vars
  BY <1>10 DEF vars, written, outside, TypeOK
<1>11. QED
  BY <1>1, <1>2, <1>3, <1>4, <1>5, <1>6, <1>7, <1>8, <1>9, <1>10 DEF Next

LEMMA TypeInvariant == Spec => []TypeInv
<1>1. Init => TypeInv
  BY InitTypeInv
<1>2. TypeInv /\ [Next]_vars => TypeInv'
  BY NextType
<1>3. QED
  BY <1>1, <1>2, PTL DEF Spec

\* Tables, calls and requests keep their types: whatever interleaves, every
\* statement of recordCheck has the values it needs (CallOK says which).
THEOREM TypeCorrect == Spec => []TypeOK
<1>1. TypeInv => TypeOK
  BY DEF TypeInv
<1>2. QED
  BY <1>1, TypeInvariant, PTL

-----------------------------------------------------------------------------
(* Mails.  An id is handed out once; a call about to mail holds an id that *)
(* was not mailed and that no other call holds.                            *)

IdsOK ==
  /\ \A i \in DOMAIN incidents : i < nextId
  /\ \A k \in 1 .. Len(outbox) : outbox[k] < nextId
  /\ \A p \in Polls : poll[p].incident < nextId

PendingMailsOK ==
  /\ \A p \in Polls : \A k \in 1 .. Len(outbox) :
       poll[p].stage \in Notifying => outbox[k] # poll[p].incident
  /\ \A p, q \in Polls :
       /\ poll[p].stage \in Notifying
       /\ poll[q].stage \in Notifying
       /\ poll[p].incident = poll[q].incident
       => p = q

MailInv == TypeInv /\ IdsOK /\ PendingMailsOK /\ MailOncePerIncident

\* A step that neither opens a CRITICAL incident nor mails one.
Quiet ==
  /\ nextId' \in {nextId, nextId + 1}
  /\ outbox' = outbox
  /\ \A i \in DOMAIN incidents' : i < nextId'
  /\ \A p \in Polls :
       /\ poll'[p].incident < nextId'
       /\ poll'[p].stage \in Notifying =>
            /\ poll[p].stage \in Notifying
            /\ poll'[p].incident = poll[p].incident

LEMMA QuietMail ==
  ASSUME MailInv, TypeInv', Quiet
  PROVE  MailInv'
<1>1. IdsOK'
  <2>1. outbox \in Seq(Nat \ {0}) /\ nextId \in Nat /\ Len(outbox) \in Nat
    BY DEF MailInv, TypeInv, TypeOK
  <2>2. \A k \in 1 .. Len(outbox) : outbox[k] \in Nat
    BY <2>1
  <2>3. QED
    BY <2>1, <2>2 DEF MailInv, IdsOK, Quiet
<1>2. PendingMailsOK'
  BY DEF MailInv, PendingMailsOK, Quiet
<1>3. MailOncePerIncident'
  BY DEF MailInv, MailOncePerIncident, Quiet
<1>4. QED
  BY <1>1, <1>2, <1>3 DEF MailInv

LEMMA OpenedMail ==
  ASSUME MailInv, TypeInv', NEW p \in Polls,
         nextId' = nextId + 1, outbox' = outbox,
         DOMAIN incidents' = DOMAIN incidents \cup {nextId},
         GoToWith(p, "readingOwner", nextId)
  PROVE  MailInv'
<1>1. /\ outbox \in Seq(Nat \ {0}) /\ nextId \in Nat /\ Len(outbox) \in Nat
      /\ poll \in [Polls -> Call]
      /\ DOMAIN incidents \subseteq Nat
      /\ \A q \in Polls : poll[q].incident \in Nat
  BY DEF MailInv, TypeInv, TypeOK, Call
<1>2. \A k \in 1 .. Len(outbox) : outbox[k] \in Nat
  BY <1>1
<1>3. /\ poll'[p].incident = nextId
      /\ \A q \in Polls \ {p} : poll'[q] = poll[q]
  BY <1>1 DEF GoToWith, Call
<1>4. IdsOK'
  BY <1>1, <1>2, <1>3 DEF MailInv, IdsOK
<1>5. PendingMailsOK'
  BY <1>1, <1>2, <1>3 DEF MailInv, IdsOK, PendingMailsOK
<1>6. MailOncePerIncident'
  BY DEF MailInv, MailOncePerIncident
<1>7. QED
  BY <1>4, <1>5, <1>6 DEF MailInv

LEMMA SentMail ==
  ASSUME MailInv, TypeInv', NEW p \in Polls, Mail(p), UNCHANGED outside
  PROVE  MailInv'
<1> DEFINE i == poll[p].incident
<1>1. /\ outbox \in Seq(Nat \ {0}) /\ nextId \in Nat \ {0}
      /\ Len(outbox) \in Nat
      /\ i \in Nat \ {0}
      /\ poll \in [Polls -> Call]
  BY DEF MailInv, TypeInv, TypeOK, CallOK, Call, Mail, Notifying
<1>2. /\ poll'[p].stage = "idle" /\ poll'[p].incident = 0
      /\ \A q \in Polls \ {p} : poll'[q] = poll[q]
      /\ UNCHANGED <<incidents, nextId>>
  BY <1>1 DEF Mail, Return, IdlePoll
<1>3. CASE outbox' = outbox
  <2>1. Quiet
    BY <1>1, <1>2, <1>3 DEF MailInv, IdsOK, Quiet, Notifying
  <2>2. QED
    BY <2>1, QuietMail
<1>4. CASE outbox' = Append(outbox, i)
  <2>1. /\ Len(outbox') = Len(outbox) + 1
        /\ \A k \in 1 .. Len(outbox) : outbox'[k] = outbox[k]
        /\ outbox'[Len(outbox) + 1] = i
    <3>1. /\ Len(Append(outbox, i)) = Len(outbox) + 1
          /\ \A k \in 1 .. Len(outbox) : Append(outbox, i)[k] = outbox[k]
          /\ Append(outbox, i)[Len(outbox) + 1] = i
      BY <1>1, AppendProperties
    <3>2. QED
      BY <1>4, <3>1, Zenon
  <2>2. \A k \in 1 .. Len(outbox') : k \in 1 .. Len(outbox) \/ k = Len(outbox) + 1
    BY <1>1, <2>1
  <2>3. IdsOK'
    <3>1. i < nextId
      BY DEF MailInv, IdsOK
    <3>2. \A k \in 1 .. Len(outbox') : outbox'[k] < nextId
      BY <2>1, <2>2, <3>1 DEF MailInv, IdsOK
    <3>3. \A q \in Polls : poll'[q].incident < nextId
      BY <1>1, <1>2 DEF MailInv, IdsOK
    <3>4. QED
      BY <1>2, <3>2, <3>3 DEF MailInv, IdsOK
  <2>4. PendingMailsOK'
    BY <1>2, <2>1, <2>2 DEF MailInv, PendingMailsOK, Mail, Notifying
  <2>5. MailOncePerIncident'
    BY <2>1, <2>2 DEF MailInv, PendingMailsOK, MailOncePerIncident, Mail, Notifying
  <2>6. QED
    BY <2>3, <2>4, <2>5 DEF MailInv
<1>5. QED
  BY <1>3, <1>4 DEF Mail

\* The steps of a call that open and mail nothing only move the call on.
LEMMA MovesAreQuiet ==
  ASSUME MailInv, NEW p \in Polls,
         nextId' \in {nextId, nextId + 1}, outbox' = outbox,
         \A i \in DOMAIN incidents' : i < nextId',
         \/ Return(p) \/ Reject(p)
         \/ \E stage \in Stages \ Notifying : GoTo(p, stage)
         \/ \E stage \in Stages \ Notifying : \E i \in DOMAIN incidents :
              GoToWith(p, stage, i)
         \/ poll[p].stage \in Notifying /\ GoTo(p, "mailing")
  PROVE  Quiet
<1>1. /\ nextId \in Nat \ {0} /\ poll \in [Polls -> Call]
      /\ \A q \in Polls : poll[q].incident \in Nat /\ poll[q].incident < nextId
      /\ \A i \in DOMAIN incidents : i \in Nat /\ i < nextId
  BY DEF MailInv, TypeInv, TypeOK, Call, IdsOK
<1> DEFINE Moved ==
      /\ \A q \in Polls \ {p} : poll'[q] = poll[q]
      /\ poll'[p].incident < nextId'
      /\ poll'[p].stage \in Notifying =>
           /\ poll[p].stage \in Notifying
           /\ poll'[p].incident = poll[p].incident
<1>2. Moved
  <2>1. CASE Return(p) \/ Reject(p)
    BY <1>1, <2>1 DEF Return, Reject, IdlePoll, Notifying
  <2>2. ASSUME NEW stage \in Stages \ Notifying, GoTo(p, stage)
        PROVE  Moved
    BY <1>1, <2>2 DEF GoTo, Call
  <2>3. ASSUME NEW stage \in Stages \ Notifying, NEW i \in DOMAIN incidents,
               GoToWith(p, stage, i)
        PROVE  Moved
    <3>1. poll'[p].incident = i /\ poll'[p].stage = stage
      BY <1>1, <2>3 DEF GoToWith, Call
    <3>2. \A q \in Polls \ {p} : poll'[q] = poll[q]
      BY <1>1, <2>3 DEF GoToWith
    <3>3. i < nextId'
      BY <1>1
    <3>4. QED
      BY <3>1, <3>2, <3>3
  <2>4. CASE poll[p].stage \in Notifying /\ GoTo(p, "mailing")
    BY <1>1, <2>4 DEF GoTo, Call
  <2>5. QED
    BY <2>1, <2>2, <2>3, <2>4
<1>3. QED
  BY <1>1, <1>2 DEF Quiet

LEMMA PollStepMail ==
  ASSUME MailInv, TypeInv', NEW p \in Polls, PollStep(p)
  PROVE  MailInv'
<1>0. /\ UNCHANGED outside
      /\ nextId \in Nat
      /\ \A i \in DOMAIN incidents : i < nextId
      /\ poll \in [Polls -> Call]
  BY DEF PollStep, MailInv, TypeInv, TypeOK, IdsOK
<1>1. CASE Probe(p)
  <2>1. Quiet
    BY <1>0, <1>1 DEF Probe, MailInv, IdsOK, Quiet, Notifying, Call, written
  <2>2. QED
    BY <2>1, QuietMail
<1>2. CASE SaveCheck(p)
  BY <1>0, <1>2, MovesAreQuiet, QuietMail
  DEF SaveCheck, Stages, DatabaseStages, Notifying
<1>3. CASE FindOutage(p)
  <2>1. \/ Return(p)
        \/ \E stage \in Stages \ Notifying : GoTo(p, stage)
        \/ \E stage \in Stages \ Notifying : \E i \in DOMAIN incidents :
             GoToWith(p, stage, i)
    BY <1>3 DEF FindOutage, OnFailure, OnSuccess, AfterOutage, FindOpenIncident,
                Open, Stages, DatabaseStages, Notifying
  <2>2. QED
    BY <1>0, <1>3, <2>1, MovesAreQuiet, QuietMail DEF FindOutage, written
<1>4. CASE OpenOutage(p)
  BY <1>4, OpenedMail DEF OpenOutage, CreateIncident, AddRow
<1>5. CASE ResolveOutage(p)
  <2>1. Return(p) \/ \E stage \in Stages \ Notifying : GoTo(p, stage)
    BY <1>5 DEF ResolveOutage, AfterOutage, Stages, DatabaseStages, Notifying
  <2>2. nextId' = nextId /\ outbox' = outbox /\ DOMAIN incidents' = DOMAIN incidents
    BY <1>5 DEF ResolveOutage
  <2>3. QED
    BY <1>0, <2>1, <2>2, MovesAreQuiet, QuietMail
<1>6. CASE ReadSnapshot(p)
  <2>1. CASE Return(p)
    BY <1>0, <1>6, <2>1, MovesAreQuiet, QuietMail DEF ReadSnapshot, written
  <2>2. CASE ~Return(p)
    <3>1. Quiet
      BY <1>0, <1>6, <2>2
      DEF ReadSnapshot, MailInv, IdsOK, Quiet, Notifying, Call, written
    <3>2. QED
      BY <3>1, QuietMail
  <2>3. QED
    BY <2>1, <2>2
<1>7. CASE SaveSnapshot(p)
  <2>1. Return(p) \/ \E stage \in Stages \ Notifying : GoTo(p, stage)
    BY <1>7 DEF SaveSnapshot, Stages, DatabaseStages, Notifying
  <2>2. QED
    BY <1>0, <1>7, <2>1, MovesAreQuiet, QuietMail DEF SaveSnapshot
<1>8. CASE FindSchemaChange(p)
  <2>1. Return(p) \/ \E stage \in Stages \ Notifying : GoTo(p, stage)
    BY <1>8 DEF FindSchemaChange, Stages, DatabaseStages, Notifying
  <2>2. QED
    BY <1>0, <1>8, <2>1, MovesAreQuiet, QuietMail DEF FindSchemaChange, written
<1>9. CASE OpenSchemaChange(p)
  <2>1. /\ nextId' = nextId + 1 /\ outbox' = outbox
        /\ DOMAIN incidents' = DOMAIN incidents \cup {nextId}
        /\ Return(p) \/ GoToWith(p, "readingOwner", nextId)
    BY <1>9 DEF OpenSchemaChange, CreateIncident, AddRow
  <2>2. \A i \in DOMAIN incidents' : i < nextId'
    <3>1. DOMAIN incidents \subseteq Nat
      BY DEF MailInv, TypeInv, TypeOK
    <3>2. QED
      BY <1>0, <2>1, <3>1
  <2>3. CASE Return(p)
    BY <2>1, <2>2, <2>3, MovesAreQuiet, QuietMail
  <2>4. CASE GoToWith(p, "readingOwner", nextId)
    BY <2>1, <2>4, OpenedMail
  <2>5. QED
    BY <2>1, <2>3, <2>4
<1>10. CASE ReadOwner(p)
  <2>1. \/ Return(p)
        \/ poll[p].stage \in Notifying /\ GoTo(p, "mailing")
    BY <1>10 DEF ReadOwner, Notifying
  <2>2. QED
    BY <1>0, <1>10, <2>1, MovesAreQuiet, QuietMail DEF ReadOwner, written
<1>11. CASE Mail(p)
  BY <1>0, <1>11, SentMail
<1>12. CASE Refused(p)
  BY <1>0, <1>12, MovesAreQuiet, QuietMail DEF Refused, written
<1>13. QED
  BY <1>1, <1>2, <1>3, <1>4, <1>5, <1>6, <1>7, <1>8, <1>9, <1>10, <1>11, <1>12
  DEF PollStep

LEMMA NextMail == MailInv /\ [Next]_vars => MailInv'
<1> SUFFICES ASSUME MailInv, [Next]_vars PROVE MailInv'
  OBVIOUS
<1>0. TypeInv'
  BY NextType DEF MailInv
<1>t. /\ nextId \in Nat
      /\ poll \in [Polls -> Call]
      /\ \A i \in DOMAIN incidents : i < nextId
      /\ \A q \in Polls : poll[q].incident < nextId
  BY DEF MailInv, TypeInv, TypeOK, IdsOK
<1>1. ASSUME NEW p \in Polls, NEW m \in Monitors, BeginPoll(p, m)
      PROVE  Quiet
  BY <1>1, <1>t DEF BeginPoll, StartPoll, Quiet, Notifying, Call, written
<1>2. ASSUME NEW p \in Polls, PollStep(p) PROVE MailInv'
  BY <1>0, <1>2, PollStepMail
<1>3. ASSUME NEW r \in Requests, NEW i \in DOMAIN incidents,
             ReadForAcknowledge(r, i) \/ ReadForResolve(r, i)
      PROVE  Quiet
  BY <1>3, <1>t DEF ReadForAcknowledge, ReadForResolve, Quiet, written
<1>4. ASSUME NEW r \in Requests, WriteAcknowledge(r) \/ WriteResolve(r)
      PROVE  Quiet
  <2>1. /\ UNCHANGED <<nextId, outbox, poll>>
        /\ DOMAIN incidents' = DOMAIN incidents
    BY <1>4 DEF WriteAcknowledge, WriteResolve, Update
  <2>2. QED
    BY <2>1, <1>t DEF Quiet
<1>5. ASSUME NEW m \in Monitors, NEW answer \in Response,
             EndpointChanges(m, answer)
      PROVE  Quiet
  BY <1>5, <1>t DEF EndpointChanges, Quiet, written
<1>6. ASSUME NEW p \in Polls, Throw(p) PROVE Quiet
  BY <1>6, <1>t, MovesAreQuiet DEF Throw, written
<1>7. CASE Crash
  <2>1. Quiet
    <3>1. 0 < nextId
      BY DEF MailInv, TypeInv, TypeOK
    <3>2. QED
      BY <1>7, <1>t, <3>1 DEF Crash, Quiet, IdlePoll, Notifying, written
  <2>2. QED
    BY <1>0, <2>1, QuietMail
<1>8. ASSUME NEW m \in Monitors, DeleteMonitor(m) PROVE Quiet
  BY <1>8, <1>t DEF DeleteMonitor, Quiet
<1>9. CASE UNCHANGED vars
  <2>1. Quiet
    BY <1>9, <1>t DEF vars, written, outside, Quiet
  <2>2. QED
    BY <1>0, <2>1, QuietMail
<1>10. QED
  BY <1>0, <1>1, <1>2, <1>3, <1>4, <1>5, <1>6, <1>7, <1>8, <1>9, QuietMail
  DEF Next

LEMMA MailInvariant == Spec => []MailInv
<1>1. Init => MailInv
  <2> SUFFICES ASSUME Init PROVE MailInv
    OBVIOUS
  <2>1. TypeInv
    BY InitTypeInv
  <2>2. IdsOK /\ PendingMailsOK /\ MailOncePerIncident
    BY DEF Init, IdsOK, PendingMailsOK, MailOncePerIncident, IdlePoll, Notifying
  <2>3. QED
    BY <2>1, <2>2 DEF MailInv
<1>2. QED
  BY <1>1, NextMail, PTL DEF Spec

\* "Fires once per newly-opened CRITICAL incident" (notifyIfCritical): however
\* many polls overlap, throw or are cut off by a crash, no incident is mailed
\* twice.
THEOREM MailedAtMostOnce == Spec => []MailOncePerIncident
<1>1. MailInv => MailOncePerIncident
  BY DEF MailInv
<1>2. QED
  BY <1>1, MailInvariant, PTL

-----------------------------------------------------------------------------
(* Duplicates.  When polls of one monitor do not overlap, a call that is   *)
(* about to open an incident still has nothing OPEN of that kind to find.  *)

Opening(c, t) ==
  \/ c.stage = "openingOutage" /\ t = "OUTAGE"
  \/ c.stage = "openingSchemaChange" /\ t = "SCHEMA_CHANGE"

IsOpenRow(row, m, t) == row.api = m /\ row.type = t /\ row.status = "OPEN"

OnePollPerMonitor ==
  \A p, q \in Polls :
    /\ poll[p].stage # "idle"
    /\ poll[q].stage # "idle"
    /\ poll[p].api = poll[q].api
    => p = q

OpeningOK ==
  \A p \in Polls, t \in {"OUTAGE", "SCHEMA_CHANGE"} :
    Opening(poll[p], t) =>
      \A i \in DOMAIN incidents : ~ IsOpenRow(incidents[i], poll[p].api, t)

SerialInv ==
  /\ MailInv
  /\ OnePollPerMonitor
  /\ OpeningOK
  /\ AtMostOneUnacknowledged

\* A step that begins no call, brings none to an insert and makes no row OPEN.
RowsCalm ==
  \A i \in DOMAIN incidents' :
    /\ i \in DOMAIN incidents
    /\ incidents'[i].api = incidents[i].api
    /\ incidents'[i].type = incidents[i].type
    /\ incidents'[i].status = "OPEN" => incidents[i].status = "OPEN"

CallsCalm ==
  \A q \in Polls :
    /\ poll'[q].stage # "idle" =>
         poll[q].stage # "idle" /\ poll'[q].api = poll[q].api
    /\ \A t \in {"OUTAGE", "SCHEMA_CHANGE"} :
         Opening(poll'[q], t) => Opening(poll[q], t)

LEMMA CalmSerial ==
  ASSUME SerialInv, MailInv', RowsCalm, CallsCalm
  PROVE  SerialInv'
<1>1. OnePollPerMonitor'
  BY DEF SerialInv, OnePollPerMonitor, CallsCalm
<1>2. OpeningOK'
  <2> SUFFICES ASSUME NEW p \in Polls, NEW t \in {"OUTAGE", "SCHEMA_CHANGE"},
                      Opening(poll'[p], t), NEW i \in DOMAIN incidents'
               PROVE  ~ IsOpenRow(incidents'[i], poll'[p].api, t)
    BY DEF OpeningOK
  <2>1. Opening(poll[p], t) /\ poll'[p].api = poll[p].api
    BY DEF CallsCalm, Opening
  <2>2. i \in DOMAIN incidents /\ ~ IsOpenRow(incidents[i], poll[p].api, t)
    BY <2>1 DEF SerialInv, OpeningOK, RowsCalm
  <2>3. QED
    BY <2>1, <2>2 DEF RowsCalm, IsOpenRow
<1>3. AtMostOneUnacknowledged'
  BY DEF SerialInv, AtMostOneUnacknowledged, RowsCalm
<1>4. QED
  BY <1>1, <1>2, <1>3 DEF SerialInv

\* findOpenIncident found nothing: the call may go on to the insert.
LEMMA FoundNoneSerial ==
  ASSUME SerialInv, MailInv', NEW p \in Polls, UNCHANGED incidents,
         NEW t \in {"OUTAGE", "SCHEMA_CHANGE"}, NEW stage,
         \A u \in {"OUTAGE", "SCHEMA_CHANGE"} :
           Opening([poll[p] EXCEPT !.stage = stage], u) => u = t,
         GoTo(p, stage), poll[p].stage # "idle", Open(poll[p].api, t) = {}
  PROVE  SerialInv'
<1>1. poll \in [Polls -> Call]
  BY DEF SerialInv, MailInv, TypeInv, TypeOK
<1>2. /\ poll'[p] = [poll[p] EXCEPT !.stage = stage]
      /\ poll'[p].api = poll[p].api
      /\ \A q \in Polls \ {p} : poll'[q] = poll[q]
  <2>1. poll' = [poll EXCEPT ![p] = [poll[p] EXCEPT !.stage = stage]]
    BY DEF GoTo
  <2>2. poll[p] \in Call
    BY <1>1
  <2>3. [poll[p] EXCEPT !.stage = stage].api = poll[p].api
    BY <2>2 DEF Call
  <2>4. QED
    BY <1>1, <2>1, <2>3
<1>3. OnePollPerMonitor'
  <2>1. \A q \in Polls : /\ poll'[q].api = poll[q].api
                         /\ poll'[q].stage # "idle" => poll[q].stage # "idle"
    BY <1>2
  <2>2. QED
    BY <2>1, Zenon DEF SerialInv, OnePollPerMonitor
<1>4. \A i \in DOMAIN incidents : ~ IsOpenRow(incidents[i], poll[p].api, t)
  BY DEF Open, OPEN_STATUSES, IsOpenRow
<1>5. OpeningOK'
  <2> SUFFICES ASSUME NEW q \in Polls, NEW u \in {"OUTAGE", "SCHEMA_CHANGE"},
                      Opening(poll'[q], u), NEW i \in DOMAIN incidents
               PROVE  ~ IsOpenRow(incidents[i], poll'[q].api, u)
    BY DEF OpeningOK
  <2>1. CASE q = p
    BY <1>2, <1>4, <2>1
  <2>2. CASE q # p
    BY <1>2, <2>2 DEF SerialInv, OpeningOK
  <2>3. QED
    BY <2>1, <2>2
<1>6. AtMostOneUnacknowledged'
  BY DEF SerialInv, AtMostOneUnacknowledged
<1>7. QED
  BY <1>3, <1>5, <1>6 DEF SerialInv

\* The insert: nobody else polls this monitor, so its rows are as they were.
LEMMA CreatedSerial ==
  ASSUME SerialInv, MailInv', NEW p \in Polls,
         NEW t \in {"OUTAGE", "SCHEMA_CHANGE"}, NEW severity,
         Opening(poll[p], t), CreateIncident(poll[p].api, t, severity),
         CallsCalm, \A u \in {"OUTAGE", "SCHEMA_CHANGE"} : ~ Opening(poll'[p], u)
  PROVE  SerialInv'
<1> DEFINE m == poll[p].api
<1>1. OnePollPerMonitor'
  BY DEF SerialInv, OnePollPerMonitor, CallsCalm
<1>2. /\ nextId \notin DOMAIN incidents
      /\ \A i \in DOMAIN incidents' : i = nextId \/ i \in DOMAIN incidents
      /\ \A i \in DOMAIN incidents : incidents'[i] = incidents[i]
      /\ incidents'[nextId].api = m
      /\ incidents'[nextId].type = t
  <2>1. /\ nextId \in Nat /\ DOMAIN incidents \subseteq Nat
        /\ \A i \in DOMAIN incidents : i < nextId
    BY DEF SerialInv, MailInv, IdsOK, TypeInv, TypeOK
  <2>2. nextId \notin DOMAIN incidents
    BY <2>1
  <2>3. QED
    BY <2>2 DEF CreateIncident, AddRow
<1>3. \A i \in DOMAIN incidents : ~ IsOpenRow(incidents[i], m, t)
  BY DEF SerialInv, OpeningOK
<1>4. OpeningOK'
  <2> SUFFICES ASSUME NEW q \in Polls, NEW u \in {"OUTAGE", "SCHEMA_CHANGE"},
                      Opening(poll'[q], u), NEW i \in DOMAIN incidents'
               PROVE  ~ IsOpenRow(incidents'[i], poll'[q].api, u)
    BY DEF OpeningOK
  <2>1. q # p
    OBVIOUS
  <2>2. Opening(poll[q], u) /\ poll'[q].api = poll[q].api /\ poll[q].api # m
    BY <2>1 DEF SerialInv, OnePollPerMonitor, CallsCalm, Opening
  <2>3. CASE i = nextId
    BY <1>2, <2>2, <2>3 DEF IsOpenRow
  <2>4. CASE i \in DOMAIN incidents
    BY <1>2, <2>2, <2>4 DEF SerialInv, OpeningOK
  <2>5. QED
    BY <1>2, <2>3, <2>4
<1>5. AtMostOneUnacknowledged'
  BY <1>2, <1>3 DEF SerialInv, AtMostOneUnacknowledged, IsOpenRow
<1>6. QED
  BY <1>1, <1>4, <1>5 DEF SerialInv

\* A call that moves on to anything but an insert, or ends.
LEMMA MovesAreCalm ==
  ASSUME TypeInv, NEW p \in Polls, poll[p].stage # "idle",
         \/ Return(p) \/ Reject(p)
         \/ \E stage \in Stages \ {"openingOutage", "openingSchemaChange"} :
              GoTo(p, stage)
         \/ \E stage \in Stages \ {"openingOutage", "openingSchemaChange"},
               i \in Nat : GoToWith(p, stage, i)
  PROVE  CallsCalm /\ \A u \in {"OUTAGE", "SCHEMA_CHANGE"} : ~ Opening(poll'[p], u)
<1>0. poll \in [Polls -> Call]
  BY DEF TypeInv, TypeOK
<1>1. CASE Return(p) \/ Reject(p)
  BY <1>0, <1>1 DEF Return, Reject, IdlePoll, CallsCalm, Opening
<1>2. ASSUME NEW stage \in Stages \ {"openingOutage", "openingSchemaChange"},
             GoTo(p, stage)
      PROVE  CallsCalm /\ \A u \in {"OUTAGE", "SCHEMA_CHANGE"} : ~ Opening(poll'[p], u)
  <2>1. /\ poll'[p].stage = stage /\ poll'[p].api = poll[p].api
        /\ \A q \in Polls \ {p} : poll'[q] = poll[q]
    BY <1>0, <1>2 DEF GoTo, Call
  <2>2. CallsCalm
    BY <2>1 DEF CallsCalm, Opening
  <2>3. QED
    BY <2>1, <2>2 DEF Opening
<1>3. ASSUME NEW stage \in Stages \ {"openingOutage", "openingSchemaChange"},
             NEW i \in Nat, GoToWith(p, stage, i)
      PROVE  CallsCalm /\ \A u \in {"OUTAGE", "SCHEMA_CHANGE"} : ~ Opening(poll'[p], u)
  <2>1. /\ poll'[p].stage = stage /\ poll'[p].api = poll[p].api
        /\ \A q \in Polls \ {p} : poll'[q] = poll[q]
    BY <1>0, <1>3, ZenonT(60) DEF GoToWith, Call
  <2>2. CallsCalm
    BY <2>1 DEF CallsCalm, Opening
  <2>3. QED
    BY <2>1, <2>2 DEF Opening
<1>4. QED
  BY <1>1, <1>2, <1>3

\* The steps of a call that matter to duplicates: a search that finds nothing,
\* and the insert.
FindsNone(p, t) ==
  /\ incidents' = incidents
  /\ Open(poll[p].api, t) = {}
  /\ \E stage \in Stages :
       /\ GoTo(p, stage)
       /\ \A u \in {"OUTAGE", "SCHEMA_CHANGE"} :
            Opening([poll[p] EXCEPT !.stage = stage], u) => u = t

Opens(p, t) ==
  /\ Opening(poll[p], t)
  /\ \E severity : CreateIncident(poll[p].api, t, severity)
  /\ CallsCalm
  /\ \A u \in {"OUTAGE", "SCHEMA_CHANGE"} : ~ Opening(poll'[p], u)

LEMMA PollStepKinds ==
  ASSUME MailInv, NEW p \in Polls, PollStep(p)
  PROVE  \/ RowsCalm /\ CallsCalm
         \/ \E t \in {"OUTAGE", "SCHEMA_CHANGE"} : FindsNone(p, t) \/ Opens(p, t)
<1>0. /\ TypeInv
      /\ poll \in [Polls -> Call]
      /\ nextId \in Nat
      /\ DOMAIN incidents \subseteq Nat
  BY DEF MailInv, TypeInv, TypeOK
<1>s. incidents' = incidents => RowsCalm
  BY DEF RowsCalm
<1>1. CASE Probe(p)
  <2>1. CallsCalm
    BY <1>0, <1>1 DEF Probe, CallsCalm, Opening, Call
  <2>2. QED
    BY <1>1, <1>s, <2>1 DEF Probe, written
<1>2. CASE SaveCheck(p)
  BY <1>0, <1>2, <1>s, MovesAreCalm
  DEF SaveCheck, Stages, DatabaseStages
<1>3. CASE FindOutage(p)
  <2>1. /\ poll[p].stage # "idle"
        /\ incidents' = incidents
        /\ poll[p].stage = "findingOutage"
    BY <1>3 DEF FindOutage, written
  <2>2. PICK existing \in FindOpenIncident(poll[p].api, "OUTAGE") :
          OnFailure(p, existing) \/ OnSuccess(p, existing)
    BY <1>3 DEF FindOutage
  <2>3. existing \in Nat /\ (existing = 0 => Open(poll[p].api, "OUTAGE") = {})
    BY DEF FindOpenIncident, Open, MailInv, TypeInv, TypeOK
  <2>4. CASE existing = 0 /\ GoTo(p, "openingOutage")
    BY <2>1, <2>3, <2>4 DEF FindsNone, Opening, Stages, DatabaseStages
  <2>5. CASE ~ (existing = 0 /\ GoTo(p, "openingOutage"))
    BY <1>0, <1>s, <2>1, <2>2, <2>3, <2>5, MovesAreCalm
    DEF OnFailure, OnSuccess, AfterOutage, Stages, DatabaseStages
  <2>6. QED
    BY <2>4, <2>5
<1>4. CASE OpenOutage(p)
  <2>1. Opening(poll[p], "OUTAGE") /\ poll[p].stage # "idle"
    BY <1>4 DEF OpenOutage, Opening
  <2>2. /\ CallsCalm
        /\ \A u \in {"OUTAGE", "SCHEMA_CHANGE"} : ~ Opening(poll'[p], u)
    BY <1>0, <1>4, <2>1, MovesAreCalm DEF OpenOutage, Stages, DatabaseStages
  <2>3. QED
    BY <1>4, <2>1, <2>2 DEF OpenOutage, Opens
<1>5. CASE ResolveOutage(p)
  <2>1. RowsCalm
    BY <1>5 DEF ResolveOutage, Resolved, RowsCalm, MailInv, TypeInv,
                TypeOK, Incident
  <2>2. CallsCalm
    BY <1>0, <1>5, MovesAreCalm
    DEF ResolveOutage, AfterOutage, Stages, DatabaseStages
  <2>3. QED
    BY <2>1, <2>2
<1>6. CASE ReadSnapshot(p)
  <2>1. CASE Return(p)
    BY <1>0, <1>6, <1>s, <2>1, MovesAreCalm DEF ReadSnapshot, written
  <2>2. CASE ~ Return(p)
    <3>1. CallsCalm
      BY <1>0, <1>6, <2>2 DEF ReadSnapshot, CallsCalm, Opening, Call
    <3>2. QED
      BY <1>6, <1>s, <3>1 DEF ReadSnapshot, written
  <2>3. QED
    BY <2>1, <2>2
<1>7. CASE SaveSnapshot(p)
  <2>1. CallsCalm
    BY <1>0, <1>7, MovesAreCalm DEF SaveSnapshot, Stages, DatabaseStages
  <2>2. QED
    BY <1>7, <1>s, <2>1 DEF SaveSnapshot
<1>8. CASE FindSchemaChange(p)
  <2>1. CASE GoTo(p, "openingSchemaChange") /\ Open(poll[p].api, "SCHEMA_CHANGE") = {}
    BY <1>8, <2>1
    DEF FindSchemaChange, FindsNone, Opening, Stages, DatabaseStages, written
  <2>2. CASE Return(p)
    BY <1>0, <1>8, <1>s, <2>2, MovesAreCalm
    DEF FindSchemaChange, written
  <2>3. QED
    BY <1>8, <2>1, <2>2 DEF FindSchemaChange
<1>9. CASE OpenSchemaChange(p)
  <2> DEFINE severity == Severity(poll[p].previous, poll[p].response)
  <2>1. Opening(poll[p], "SCHEMA_CHANGE") /\ poll[p].stage # "idle"
    BY <1>9 DEF OpenSchemaChange, Opening
  <2>2. /\ CreateIncident(poll[p].api, "SCHEMA_CHANGE", severity)
        /\ Return(p) \/ GoToWith(p, "readingOwner", nextId)
    BY <1>9 DEF OpenSchemaChange
  <2>3. /\ CallsCalm
        /\ \A u \in {"OUTAGE", "SCHEMA_CHANGE"} : ~ Opening(poll'[p], u)
    BY <1>0, <2>1, <2>2, MovesAreCalm DEF Stages, DatabaseStages
  <2>4. QED
    BY <2>1, <2>2, <2>3 DEF Opens
<1>10. CASE ReadOwner(p)
  <2>1. CallsCalm
    BY <1>0, <1>10, MovesAreCalm DEF ReadOwner, Stages, DatabaseStages
  <2>2. QED
    BY <1>10, <1>s, <2>1 DEF ReadOwner, written
<1>11. CASE Mail(p)
  <2>1. CallsCalm
    BY <1>0, <1>11, MovesAreCalm DEF Mail
  <2>2. QED
    BY <1>11, <1>s, <2>1 DEF Mail
<1>12. CASE Refused(p)
  <2>1. CallsCalm
    BY <1>0, <1>12, MovesAreCalm DEF Refused
  <2>2. QED
    BY <1>12, <1>s, <2>1 DEF Refused, written
<1>13. QED
  BY <1>1, <1>2, <1>3, <1>4, <1>5, <1>6, <1>7, <1>8, <1>9, <1>10, <1>11, <1>12
  DEF PollStep

LEMMA PollStepSerial ==
  ASSUME SerialInv, MailInv', NEW p \in Polls, PollStep(p)
  PROVE  SerialInv'
<1>1. poll[p].stage # "idle"
  BY DEF PollStep, Probe, SaveCheck, FindOutage, OpenOutage, ResolveOutage,
         ReadSnapshot, SaveSnapshot, FindSchemaChange, OpenSchemaChange, ReadOwner,
         Mail, Refused
<1>2. ASSUME NEW t \in {"OUTAGE", "SCHEMA_CHANGE"}, FindsNone(p, t)
      PROVE  SerialInv'
  BY <1>1, <1>2, FoundNoneSerial DEF FindsNone
<1>3. ASSUME NEW t \in {"OUTAGE", "SCHEMA_CHANGE"}, Opens(p, t)
      PROVE  SerialInv'
  BY <1>3, CreatedSerial DEF Opens
<1>4. QED
  BY <1>2, <1>3, PollStepKinds, CalmSerial DEF SerialInv

\* Only the start of a call and those steps do not leave duplicates as they are.
LEMMA NextKinds ==
  ASSUME MailInv, [Next]_vars
  PROVE  \/ RowsCalm /\ CallsCalm
         \/ \E p \in Polls, m \in Monitors : BeginPoll(p, m)
         \/ \E p \in Polls, t \in {"OUTAGE", "SCHEMA_CHANGE"} :
              PollStep(p) /\ (FindsNone(p, t) \/ Opens(p, t))
<1>0. TypeInv
  BY DEF MailInv
<1>s. incidents' = incidents => RowsCalm
  BY DEF RowsCalm
<1>c. poll' = poll => CallsCalm
  BY DEF CallsCalm
<1>3. ASSUME NEW r \in Requests, NEW i \in DOMAIN incidents,
             ReadForAcknowledge(r, i) \/ ReadForResolve(r, i)
      PROVE  RowsCalm /\ CallsCalm
  BY <1>0, <1>3, <1>s, <1>c
  DEF ReadForAcknowledge, ReadForResolve, written
<1>4. ASSUME NEW r \in Requests, WriteAcknowledge(r) \/ WriteResolve(r)
      PROVE  RowsCalm /\ CallsCalm
  <2> DEFINE j == request[r].incident
  <2>1. RowsCalm
    <3>1. PICK row :
            /\ Update(r, row)
            /\ j \in DOMAIN incidents =>
                 /\ row.api = incidents[j].api
                 /\ row.type = incidents[j].type
                 /\ row.status # "OPEN"
      <4>1. j \in DOMAIN incidents => incidents[j] \in Incident
        BY <1>0 DEF TypeInv, TypeOK
      <4>2. CASE WriteAcknowledge(r)
        <5> DEFINE acked == [incidents[j] EXCEPT !.status = "ACKNOWLEDGED"]
        <5>1. Update(r, acked)
          BY <4>2 DEF WriteAcknowledge
        <5>2. j \in DOMAIN incidents =>
                /\ acked.api = incidents[j].api
                /\ acked.type = incidents[j].type
                /\ acked.status # "OPEN"
          BY <4>1 DEF Incident
        <5>3. QED
          BY <5>1, <5>2
      <4>3. CASE WriteResolve(r)
        <5>1. Update(r, Resolved(incidents[j]))
          BY <4>3 DEF WriteResolve
        <5>2. j \in DOMAIN incidents =>
                /\ Resolved(incidents[j]).api = incidents[j].api
                /\ Resolved(incidents[j]).type = incidents[j].type
                /\ Resolved(incidents[j]).status # "OPEN"
          BY <4>1 DEF Resolved, Incident
        <5>3. QED
          BY <5>1, <5>2
      <4>4. QED
        BY <1>4, <4>2, <4>3
    <3>2. QED
      BY <3>1 DEF Update, RowsCalm
  <2>2. poll' = poll
    BY <1>4 DEF WriteAcknowledge, WriteResolve, Update
  <2>3. QED
    BY <1>0, <1>c, <2>1, <2>2
<1>5. ASSUME NEW m \in Monitors, NEW answer \in Response,
             EndpointChanges(m, answer)
      PROVE  RowsCalm /\ CallsCalm
  BY <1>0, <1>5, <1>s, <1>c DEF EndpointChanges, written
<1>6. ASSUME NEW p \in Polls, Throw(p) PROVE RowsCalm /\ CallsCalm
  <2>1. CallsCalm
    BY <1>0, <1>6, MovesAreCalm DEF Throw, DatabaseStages
  <2>2. QED
    BY <1>0, <1>6, <1>s, <2>1 DEF Throw, written
<1>7. CASE Crash
  <2>1. CallsCalm
    BY <1>7 DEF Crash, CallsCalm, IdlePoll, Opening
  <2>2. QED
    BY <1>0, <1>7, <1>s, <2>1 DEF Crash, written
<1>8. ASSUME NEW m \in Monitors, DeleteMonitor(m) PROVE RowsCalm /\ CallsCalm
  <2>1. RowsCalm
    BY <1>8 DEF DeleteMonitor, RowsCalm
  <2>2. QED
    BY <1>0, <1>8, <1>c, <2>1 DEF DeleteMonitor
<1>9. CASE UNCHANGED vars
  BY <1>0, <1>9, <1>s, <1>c DEF vars, written
<1>10. QED
  BY <1>3, <1>4, <1>5, <1>6, <1>7, <1>8, <1>9, PollStepKinds DEF Next

LEMMA NextSerial ==
  ASSUME ~ Overlap
  PROVE  SerialInv /\ [Next]_vars => SerialInv'
<1> SUFFICES ASSUME SerialInv, [Next]_vars PROVE SerialInv'
  OBVIOUS
<1>0. MailInv' /\ MailInv /\ TypeInv
  BY NextMail DEF SerialInv, MailInv
<1>1. ASSUME NEW p \in Polls, NEW m \in Monitors, BeginPoll(p, m)
      PROVE  SerialInv'
  <2>1. /\ poll'[p].stage = "probing" /\ poll'[p].api = m
        /\ \A q \in Polls \ {p} : poll'[q] = poll[q]
        /\ incidents' = incidents
    BY <1>0, <1>1 DEF BeginPoll, StartPoll, TypeInv, TypeOK, Call, written
  <2>2. \A q \in Polls : poll[q].stage # "idle" => poll[q].api # m
    BY <1>1 DEF BeginPoll, StartPoll, InProgress
  <2>3. OnePollPerMonitor'
    <3> SUFFICES ASSUME NEW q \in Polls, NEW u \in Polls,
                        poll'[q].stage # "idle", poll'[u].stage # "idle",
                        poll'[q].api = poll'[u].api
                 PROVE  q = u
      BY DEF OnePollPerMonitor
    <3>1. CASE q = p \/ u = p
      BY <2>1, <2>2, <3>1
    <3>2. CASE q # p /\ u # p
      BY <2>1, <3>2 DEF SerialInv, OnePollPerMonitor
    <3>3. QED
      BY <3>1, <3>2
  <2>4. OpeningOK'
    <3>1. \A q \in Polls, t \in {"OUTAGE", "SCHEMA_CHANGE"} :
            Opening(poll'[q], t) => Opening(poll[q], t) /\ poll'[q].api = poll[q].api
      BY <2>1 DEF Opening
    <3>2. QED
      BY <2>1, <3>1 DEF SerialInv, OpeningOK
  <2>5. QED
    BY <1>0, <2>1, <2>3, <2>4 DEF SerialInv, AtMostOneUnacknowledged
<1>2. QED
  BY <1>0, <1>1, NextKinds, CalmSerial, PollStepSerial

LEMMA SerialInvariant ==
  ASSUME ~ Overlap
  PROVE  Spec => []SerialInv
<1>1. Init => SerialInv
  <2> SUFFICES ASSUME Init PROVE SerialInv
    OBVIOUS
  <2>1. MailInv
    <3>1. IdsOK /\ PendingMailsOK /\ MailOncePerIncident
      BY DEF Init, IdsOK, PendingMailsOK, MailOncePerIncident, IdlePoll, Notifying
    <3>2. QED
      BY <3>1, InitTypeInv DEF MailInv
  <2>2. OnePollPerMonitor /\ OpeningOK /\ AtMostOneUnacknowledged
    BY DEF Init, OnePollPerMonitor, OpeningOK, AtMostOneUnacknowledged, IdlePoll,
           Opening
  <2>3. QED
    BY <2>1, <2>2 DEF SerialInv
<1>2. SerialInv /\ [Next]_vars => SerialInv'
  BY NextSerial
<1>3. QED
  BY <1>1, <1>2, PTL DEF Spec

\* As long as polls of one monitor do not overlap, no two incidents of one kind
\* wait for a first reaction, whatever users, faults and crashes do: the gap
\* between findOpenIncident and the insert is then harmless.
THEOREM OneUnacknowledgedWhenSerial ==
  ASSUME ~ Overlap
  PROVE  Spec => []AtMostOneUnacknowledged
<1>1. SerialInv => AtMostOneUnacknowledged
  BY DEF SerialInv
<1>2. QED
  BY <1>1, SerialInvariant, PTL

\* Nothing is acknowledged where nobody acknowledges.
NoneAcknowledged ==
  /\ \A i \in DOMAIN incidents : incidents[i].status # "ACKNOWLEDGED"
  /\ \A r \in Requests : request[r].stage # "acknowledging"

LEMMA NextNoneAcknowledged ==
  ASSUME "acknowledge" \notin Environment, TypeInv, NoneAcknowledged, [Next]_vars
  PROVE  NoneAcknowledged'
<1> USE DEF NoneAcknowledged
<1>1. ASSUME NEW p \in Polls, PollStep(p) PROVE NoneAcknowledged'
  <2>1. request' = request
    BY <1>1 DEF PollStep, outside
  <2>2. \/ incidents' = incidents
        \/ \E m \in Monitors, t \in {"OUTAGE", "SCHEMA_CHANGE"}, severity \in Severities :
              CreateIncident(m, t, severity)
        \/ ResolveOutage(p)
    BY <1>1 DEF PollStep, Probe, SaveCheck, FindOutage, OpenOutage, ReadSnapshot,
         SaveSnapshot, FindSchemaChange, OpenSchemaChange, ReadOwner, Mail,
         Refused, written, Severities, TypeInv, CallOK, PagingStages, Paging
  <2>3. \A i \in DOMAIN incidents' : incidents'[i].status # "ACKNOWLEDGED"
    <3>1. CASE incidents' = incidents
      BY <3>1
    <3>2. CASE \E m \in Monitors, t \in {"OUTAGE", "SCHEMA_CHANGE"}, severity \in Severities :
                 CreateIncident(m, t, severity)
      BY <3>2 DEF CreateIncident, AddRow
    <3>3. CASE ResolveOutage(p)
      BY <3>3 DEF ResolveOutage, Resolved, TypeInv, TypeOK, Incident
    <3>4. QED
      BY <2>2, <3>1, <3>2, <3>3
  <2>4. QED
    BY <2>1, <2>3
<1>2. ASSUME NEW r \in Requests, NEW i \in DOMAIN incidents, ReadForResolve(r, i)
      PROVE  NoneAcknowledged'
  BY <1>2 DEF ReadForResolve, written, TypeInv, TypeOK
<1>3. ASSUME NEW r \in Requests, WriteResolve(r) PROVE NoneAcknowledged'
  <2>1. \A q \in Requests : request'[q].stage # "acknowledging"
    BY <1>3 DEF WriteResolve, Update, IdleRequest, TypeInv, TypeOK
  <2>2. \A i \in DOMAIN incidents' : incidents'[i].status # "ACKNOWLEDGED"
    <3>1. request[r].incident \in DOMAIN incidents =>
            Resolved(incidents[request[r].incident]).status = "RESOLVED"
      BY DEF Resolved, TypeInv, TypeOK, Incident
    <3>2. QED
      BY <1>3, <3>1 DEF WriteResolve, Update
  <2>3. QED
    BY <2>1, <2>2
<1>4. CASE Crash
  BY <1>4 DEF Crash, IdleRequest, written
<1>5. ASSUME NEW m \in Monitors, DeleteMonitor(m) PROVE NoneAcknowledged'
  BY <1>5 DEF DeleteMonitor
<1>6. CASE UNCHANGED <<incidents, request>>
  BY <1>6
<1>7. QED
  BY <1>1, <1>2, <1>3, <1>4, <1>5, <1>6
  DEF Next, BeginPoll, StartPoll, ReadForAcknowledge, WriteAcknowledge, EndpointChanges,
      Throw, vars, written, outside

LEMMA NoneAcknowledgedInvariant ==
  ASSUME "acknowledge" \notin Environment
  PROVE  Spec => [](TypeInv /\ NoneAcknowledged)
<1>1. Init => TypeInv /\ NoneAcknowledged
  BY InitTypeInv DEF Init, NoneAcknowledged, IdleRequest
<1>2. TypeInv /\ NoneAcknowledged /\ [Next]_vars => (TypeInv /\ NoneAcknowledged)'
  BY NextType, NextNoneAcknowledged
<1>3. QED
  BY <1>1, <1>2, PTL DEF Spec

\* "Never opens a second incident while one is already open for this monitor"
\* (incidentService.ts): true when polls of one monitor do not overlap and no
\* acknowledgement races with a resolution.  Both premises are needed: the
\* runs duplicate_open and ack_reopens violate it without them.
THEOREM OneOpenWhenSerial ==
  ASSUME ~ Overlap, "acknowledge" \notin Environment
  PROVE  Spec => []AtMostOneOpen
<1>1. SerialInv /\ NoneAcknowledged => AtMostOneOpen
  <2> SUFFICES ASSUME SerialInv, NoneAcknowledged,
                      NEW m \in Monitors, NEW t \in {"OUTAGE", "SCHEMA_CHANGE"}
               PROVE  Cardinality(Open(m, t)) <= 1
    BY DEF AtMostOneOpen
  <2>1. \A i, j \in Open(m, t) : i = j
    BY DEF SerialInv, AtMostOneUnacknowledged, NoneAcknowledged, Open, OPEN_STATUSES
  <2>2. CASE Open(m, t) = {}
    BY <2>2, FS_EmptySet
  <2>3. CASE Open(m, t) # {}
    <3>1. PICK i \in Open(m, t) : Open(m, t) = {i}
      BY <2>1, <2>3
    <3>2. Cardinality(Open(m, t)) = 1
      BY <3>1, FS_Singleton, Zenon
    <3>3. QED
      BY <3>2
  <2>4. QED
    BY <2>2, <2>3
<1>2. QED
  BY <1>1, SerialInvariant, NoneAcknowledgedInvariant, PTL

=============================================================================
