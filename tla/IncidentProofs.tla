----------------------------- MODULE IncidentProofs -----------------------------
(***************************************************************************)
(* Theorems about the snapshots and the incidents of CheckPipeline, for    *)
(* any monitors, polls, requests, structures and verdicts.                 *)
(*                                                                         *)
(* Snapshots: every schema incident has the pair of snapshots it is about, *)
(* however polls overlap; and without overlap no structure is stored twice *)
(* in a row.  Incidents: critical ones are announced, overlapping polls    *)
(* open a bounded number, outages are in step with the checks, and every   *)
(* breaking change has its incident unless its call was cut short.         *)
(***************************************************************************)
EXTENDS CheckPipelineProofs

-----------------------------------------------------------------------------
(* Steps that neither read nor write snapshots.                            *)

Comparing == {"savingSnapshot"} \cup PagingStages

\* No call starts to compare, and one that does still compares the same.
CallsKept ==
  \A q \in Polls :
    poll'[q].stage \in Comparing =>
      /\ poll'[q].api = poll[q].api
      /\ poll'[q].previous = poll[q].previous
      /\ poll'[q].response = poll[q].response
      /\ \/ poll[q].stage = "savingSnapshot" /\ poll'[q].stage = "savingSnapshot"
         \/ poll[q].stage \in PagingStages /\ poll'[q].stage \in PagingStages

\* No schema incident is opened, and none says something else afterwards.
RowsKept ==
  \A i \in DOMAIN incidents' :
    incidents'[i].type = "SCHEMA_CHANGE" =>
      /\ i \in DOMAIN incidents
      /\ incidents[i].type = "SCHEMA_CHANGE"
      /\ incidents'[i].api = incidents[i].api
      /\ incidents'[i].severity = incidents[i].severity

LEMMA MovesAreKept ==
  ASSUME TypeInv, NEW p \in Polls,
         \/ Return(p) \/ Reject(p)
         \/ \E stage \in Stages \ Comparing : GoTo(p, stage)
         \/ \E stage \in Stages \ Comparing, i \in Nat : GoToWith(p, stage, i)
         \/ poll[p].stage \in PagingStages /\ GoTo(p, "openingSchemaChange")
  PROVE  CallsKept
<1>1. poll \in [Polls -> Call]
  BY DEF TypeInv, TypeOK
<1>2. CASE Return(p) \/ Reject(p)
  BY <1>1, <1>2 DEF Return, Reject, IdlePoll, CallsKept, Comparing, PagingStages
<1>3. ASSUME NEW stage \in Stages \ Comparing, GoTo(p, stage) PROVE CallsKept
  <2>1. poll'[p].stage = stage /\ \A q \in Polls \ {p} : poll'[q] = poll[q]
    BY <1>1, <1>3 DEF GoTo, Call
  <2>2. QED
    BY <1>3, <2>1 DEF CallsKept, Comparing
<1>4. ASSUME NEW stage \in Stages \ Comparing, NEW i \in Nat, GoToWith(p, stage, i)
      PROVE  CallsKept
  <2>1. poll'[p].stage = stage /\ \A q \in Polls \ {p} : poll'[q] = poll[q]
    BY <1>1, <1>4 DEF GoToWith, Call
  <2>2. QED
    BY <1>4, <2>1 DEF CallsKept, Comparing
<1>5. CASE poll[p].stage \in PagingStages /\ GoTo(p, "openingSchemaChange")
  <2>1. /\ poll'[p].stage = "openingSchemaChange" /\ poll'[p].api = poll[p].api
        /\ poll'[p].previous = poll[p].previous
        /\ poll'[p].response = poll[p].response
        /\ \A q \in Polls \ {p} : poll'[q] = poll[q]
    BY <1>1, <1>5 DEF GoTo, Call
  <2>2. QED
    BY <1>5, <2>1 DEF CallsKept, Comparing, PagingStages
<1>6. QED
  BY <1>2, <1>3, <1>4, <1>5

\* Every step of a call is one of those, or one of the three that matter here.
LEMMA PollStepKeeps ==
  ASSUME TypeInv, NEW p \in Polls, PollStep(p)
  PROVE  \/ CallsKept /\ RowsKept /\ snapshots' = snapshots
         \/ ReadSnapshot(p) \/ SaveSnapshot(p) \/ OpenSchemaChange(p)
<1>0. /\ poll \in [Polls -> Call] /\ nextId \in Nat
      /\ DOMAIN incidents \subseteq Nat
      /\ \A i \in DOMAIN incidents : incidents[i] \in Incident
  BY DEF TypeInv, TypeOK
<1>r. incidents' = incidents => RowsKept
  BY DEF RowsKept
<1> USE DEF Stages, DatabaseStages, Comparing, PagingStages
<1>1. CASE Probe(p)
  <2>1. CallsKept
    BY <1>0, <1>1 DEF Probe, CallsKept, Call
  <2>2. QED
    BY <1>1, <1>r, <2>1 DEF Probe, written
<1>2. CASE SaveCheck(p)
  BY <1>2, <1>r, MovesAreKept DEF SaveCheck
<1>3. CASE FindOutage(p)
  <2>1. PICK existing \in FindOpenIncident(poll[p].api, "OUTAGE") :
          OnFailure(p, existing) \/ OnSuccess(p, existing)
    BY <1>3 DEF FindOutage
  <2>2. existing \in Nat
    BY <1>0 DEF FindOpenIncident, Open
  <2>3. CallsKept
    BY <2>1, <2>2, MovesAreKept DEF OnFailure, OnSuccess, AfterOutage
  <2>4. QED
    BY <1>3, <1>r, <2>3 DEF FindOutage, written
<1>4. CASE OpenOutage(p)
  <2>1. CallsKept
    BY <1>0, <1>4, MovesAreKept DEF OpenOutage
  <2>2. RowsKept
    BY <1>4 DEF OpenOutage, CreateIncident, AddRow, RowsKept
  <2>3. QED
    BY <1>4, <2>1, <2>2 DEF OpenOutage
<1>5. CASE ResolveOutage(p)
  <2>1. CallsKept
    BY <1>5, MovesAreKept DEF ResolveOutage, AfterOutage
  <2>2. RowsKept
    BY <1>0, <1>5 DEF ResolveOutage, Resolved, RowsKept, Incident
  <2>3. QED
    BY <1>5, <2>1, <2>2 DEF ResolveOutage
<1>6. CASE FindSchemaChange(p)
  <2>1. CallsKept
    BY <1>6, MovesAreKept DEF FindSchemaChange
  <2>2. QED
    BY <1>6, <1>r, <2>1 DEF FindSchemaChange, written
<1>7. CASE ReadOwner(p)
  <2>1. CallsKept
    BY <1>7, MovesAreKept DEF ReadOwner
  <2>2. QED
    BY <1>7, <1>r, <2>1 DEF ReadOwner, written
<1>8. CASE Mail(p)
  BY <1>8, <1>r, MovesAreKept DEF Mail
<1>9. CASE Refused(p)
  <2>1. CallsKept
    BY <1>9, MovesAreKept DEF Refused
  <2>2. QED
    BY <1>9, <1>r, <2>1 DEF Refused, written
<1>10. QED
  BY <1>1, <1>2, <1>3, <1>4, <1>5, <1>6, <1>7, <1>8, <1>9 DEF PollStep

\* And the steps of users and the environment keep all, or delete a monitor.
LEMMA OthersKeep ==
  ASSUME TypeInv, [Next]_vars, ~ \E p \in Polls : PollStep(p)
  PROVE  /\ CallsKept /\ RowsKept
         /\ \/ snapshots' = snapshots /\ monitors' = monitors
            \/ \E m \in Monitors : DeleteMonitor(m)
<1>0. /\ poll \in [Polls -> Call] /\ request \in [Requests -> UserRequest]
      /\ \A i \in DOMAIN incidents : incidents[i] \in Incident
  BY DEF TypeInv, TypeOK
<1>r. incidents' = incidents => RowsKept
  BY DEF RowsKept
<1>c. poll' = poll => CallsKept
  BY DEF CallsKept, Comparing
<1>1. ASSUME NEW p \in Polls, NEW m \in Monitors, BeginPoll(p, m)
      PROVE  CallsKept /\ RowsKept /\ snapshots' = snapshots /\ monitors' = monitors
  <2>1. /\ poll'[p].stage = "probing"
        /\ \A q \in Polls \ {p} : poll'[q] = poll[q]
    BY <1>0, <1>1 DEF BeginPoll, StartPoll, Call
  <2>2. CallsKept
    BY <2>1 DEF CallsKept, Comparing, PagingStages
  <2>3. QED
    BY <1>1, <1>r, <2>2 DEF BeginPoll, StartPoll, written, outside
<1>2. ASSUME NEW r \in Requests, NEW i \in DOMAIN incidents,
             ReadForAcknowledge(r, i) \/ ReadForResolve(r, i)
      PROVE  CallsKept /\ RowsKept /\ snapshots' = snapshots /\ monitors' = monitors
  BY <1>2, <1>r, <1>c DEF ReadForAcknowledge, ReadForResolve, written
<1>3. ASSUME NEW r \in Requests, WriteAcknowledge(r) \/ WriteResolve(r)
      PROVE  CallsKept /\ RowsKept /\ snapshots' = snapshots /\ monitors' = monitors
  <2> DEFINE i == request[r].incident
  <2>1. PICK row :
          /\ Update(r, row)
          /\ i \in DOMAIN incidents => /\ row.api = incidents[i].api
                                      /\ row.type = incidents[i].type
                                      /\ row.severity = incidents[i].severity
    <3>1. CASE WriteAcknowledge(r)
      <4> DEFINE acked == [incidents[i] EXCEPT !.status = "ACKNOWLEDGED"]
      <4>1. i \in DOMAIN incidents => /\ acked.api = incidents[i].api
                                      /\ acked.type = incidents[i].type
                                      /\ acked.severity = incidents[i].severity
        BY <1>0 DEF Incident
      <4>2. Update(r, acked)
        BY <3>1 DEF WriteAcknowledge
      <4>3. QED
        BY <4>1, <4>2
    <3>2. CASE WriteResolve(r)
      <4> DEFINE done == Resolved(incidents[i])
      <4>1. i \in DOMAIN incidents => /\ done.api = incidents[i].api
                                      /\ done.type = incidents[i].type
                                      /\ done.severity = incidents[i].severity
        BY <1>0 DEF Resolved, Incident
      <4>2. Update(r, done)
        BY <3>2 DEF WriteResolve
      <4>3. QED
        BY <4>1, <4>2
    <3>3. QED
      BY <1>3, <3>1, <3>2
  <2>2. RowsKept
    BY <2>1 DEF Update, RowsKept
  <2>3. QED
    BY <1>c, <2>1, <2>2 DEF Update
<1>4. ASSUME NEW m \in Monitors, NEW answer \in Response,
             EndpointChanges(m, answer)
      PROVE  CallsKept /\ RowsKept /\ snapshots' = snapshots /\ monitors' = monitors
  BY <1>4, <1>r, <1>c DEF EndpointChanges, written
<1>5. ASSUME NEW p \in Polls, Throw(p)
      PROVE  CallsKept /\ RowsKept /\ snapshots' = snapshots /\ monitors' = monitors
  BY <1>5, <1>r, MovesAreKept DEF Throw, written
<1>6. CASE Crash
  <2>1. CallsKept
    BY <1>6 DEF Crash, IdlePoll, CallsKept, Comparing, PagingStages
  <2>2. QED
    BY <1>6, <1>r, <2>1 DEF Crash, written
<1>7. ASSUME NEW m \in Monitors, DeleteMonitor(m)
      PROVE  CallsKept /\ RowsKept
  BY <1>7, <1>c DEF DeleteMonitor, RowsKept
<1>8. CASE UNCHANGED vars
  BY <1>8, <1>r, <1>c DEF vars, written, outside
<1>9. QED
  BY <1>1, <1>2, <1>3, <1>4, <1>5, <1>6, <1>7, <1>8 DEF Next

-----------------------------------------------------------------------------
(* Schema incidents are explained.                                         *)

\* What a call that compares knows is still in the history h of its monitor.
Remembers(c, h) ==
  /\ c.stage = "savingSnapshot" =>
       c.previous = None \/ \E k \in 1 .. Len(h) : h[k] = c.previous
  /\ c.stage \in PagingStages =>
       \E n \in 1 .. Len(h) : \E k \in 1 .. n - 1 :
         h[k] = c.previous /\ h[n] = c.response

\* Of a monitor that is deleted there is no history, and no insert for it any
\* more.
CallsRemember ==
  \A p \in Polls :
    poll[p].api \in monitors => Remembers(poll[p], snapshots[poll[p].api])

\* Two structures of h, in this order, differ with that severity.
Explained(severity, h) ==
  \E n \in 1 .. Len(h) : \E k \in 1 .. n - 1 :
    Verdict[<<h[k], h[n]>>] = severity

RowsExplained ==
  \A i \in DOMAIN incidents :
    incidents[i].type = "SCHEMA_CHANGE" =>
      Explained(incidents[i].severity, snapshots[incidents[i].api])

ExplainedInv == TypeInv /\ CallsRemember /\ RowsExplained

\* A history that grows forgets nothing.
LEMMA HistoryGrows ==
  ASSUME NEW h \in Seq(Schemas), NEW s \in Schemas
  PROVE  /\ \A c : Remembers(c, h) => Remembers(c, Append(h, s))
         /\ \A severity : Explained(severity, h) => Explained(severity, Append(h, s))
<1>1. /\ Len(h) \in Nat /\ Len(Append(h, s)) = Len(h) + 1
      /\ \A k \in 1 .. Len(h) : Append(h, s)[k] = h[k]
  OBVIOUS
<1>2. ASSUME NEW n \in 1 .. Len(h)
      PROVE  n \in 1 .. Len(Append(h, s)) /\ \A k \in 1 .. n - 1 : k \in 1 .. Len(h)
  BY <1>1
<1>3. QED
  BY <1>1, <1>2 DEF Remembers, Explained

\* Steps that keep all keep this, too, and so does a deletion.
LEMMA KeptExplained ==
  ASSUME ExplainedInv, TypeInv', CallsKept, RowsKept,
         monitors' \subseteq monitors,
         \A m \in monitors' : snapshots'[m] = snapshots[m],
         \A i \in DOMAIN incidents' :
           snapshots'[incidents'[i].api] = snapshots[incidents'[i].api]
  PROVE  ExplainedInv'
<1>1. CallsRemember'
  <2> SUFFICES ASSUME NEW p \in Polls, poll'[p].api \in monitors',
                      poll'[p].stage \in Comparing
               PROVE  Remembers(poll'[p], snapshots'[poll'[p].api])
    BY DEF CallsRemember, Remembers, Comparing
  <2>1. /\ poll'[p].api = poll[p].api
        /\ poll'[p].previous = poll[p].previous
        /\ poll'[p].response = poll[p].response
        /\ \/ poll[p].stage = "savingSnapshot" /\ poll'[p].stage = "savingSnapshot"
           \/ poll[p].stage \in PagingStages /\ poll'[p].stage \in PagingStages
    BY DEF CallsKept
  <2>2. Remembers(poll[p], snapshots[poll[p].api])
    BY <2>1 DEF ExplainedInv, CallsRemember
  <2>3. snapshots'[poll'[p].api] = snapshots[poll[p].api]
    BY <2>1
  <2>4. QED
    BY <2>1, <2>2, <2>3 DEF Remembers, PagingStages
<1>2. RowsExplained'
  <2> SUFFICES ASSUME NEW i \in DOMAIN incidents',
                      incidents'[i].type = "SCHEMA_CHANGE"
               PROVE  Explained(incidents'[i].severity, snapshots'[incidents'[i].api])
    BY DEF RowsExplained, Explained
  <2>1. /\ i \in DOMAIN incidents
        /\ incidents[i].type = "SCHEMA_CHANGE"
        /\ incidents'[i].api = incidents[i].api
        /\ incidents'[i].severity = incidents[i].severity
    BY DEF RowsKept
  <2>2. Explained(incidents[i].severity, snapshots[incidents[i].api])
    BY <2>1 DEF ExplainedInv, RowsExplained
  <2>3. QED
    BY <2>1, <2>2
<1>3. QED
  BY <1>1, <1>2 DEF ExplainedInv

\* The baseline, and what the diff finds nothing in, never page.
LEMMA PagingHasPrevious ==
  ASSUME NEW previous, NEW current, Severity(previous, current) \in Paging
  PROVE  previous # None /\ Severity(previous, current) = Verdict[<<previous, current>>]
BY DEF Severity, Paging

LEMMA ReadSnapshotExplained ==
  ASSUME ExplainedInv, TypeInv', NEW p \in Polls, ReadSnapshot(p), UNCHANGED outside
  PROVE  ExplainedInv'
<1>0. poll \in [Polls -> Call] /\ snapshots \in [Monitors -> Seq(Schemas)]
  BY DEF ExplainedInv, TypeInv, TypeOK
<1>1. UNCHANGED <<snapshots, incidents, monitors>>
  BY DEF ReadSnapshot, written, outside
<1>2. CASE Return(p)
  <2>1. CallsKept
    BY <1>2, MovesAreKept DEF ExplainedInv
  <2>2. RowsKept
    BY <1>1 DEF RowsKept
  <2>3. QED
    BY <1>1, <2>1, <2>2, KeptExplained
<1>3. CASE ~ Return(p)
  <2> DEFINE h == snapshots[poll[p].api]
  <2>1. /\ poll'[p].stage = "savingSnapshot"
        /\ poll'[p].api = poll[p].api
        /\ poll'[p].previous = Last(h)
        /\ \A q \in Polls \ {p} : poll'[q] = poll[q]
    BY <1>0, <1>3 DEF ReadSnapshot, Call
  <2>2. ASSUME poll[p].api \in monitors
        PROVE  Last(h) = None \/ \E k \in 1 .. Len(h) : h[k] = Last(h)
    <3>1. h \in Seq(Schemas)
      BY <1>0, <2>2 DEF ExplainedInv, TypeInv, TypeOK
    <3>2. h # <<>> => Len(h) \in 1 .. Len(h)
      BY <3>1
    <3>3. QED
      BY <3>2 DEF Last
  <2>3. CallsRemember'
    <3> SUFFICES ASSUME NEW q \in Polls, poll'[q].api \in monitors
                 PROVE  Remembers(poll'[q], snapshots[poll'[q].api])
      BY <1>1 DEF CallsRemember, Remembers
    <3>1. CASE q = p
      BY <2>1, <2>2, <3>1 DEF Remembers, PagingStages
    <3>2. CASE q # p
      BY <2>1, <3>2 DEF ExplainedInv, CallsRemember
    <3>3. QED
      BY <3>1, <3>2
  <2>4. RowsExplained'
    BY <1>1 DEF ExplainedInv, RowsExplained, Explained
  <2>5. QED
    BY <2>3, <2>4 DEF ExplainedInv
<1>4. QED
  BY <1>2, <1>3

LEMMA SaveSnapshotExplained ==
  ASSUME ExplainedInv, TypeInv', NEW p \in Polls, SaveSnapshot(p), UNCHANGED outside
  PROVE  ExplainedInv'
<1> DEFINE m == poll[p].api
           h == snapshots[m]
           s == poll[p].response
<1>0. /\ poll \in [Polls -> Call] /\ CallOK(poll[p])
      /\ snapshots \in [Monitors -> Seq(Schemas)]
      /\ monitors \subseteq Monitors
      /\ \A i \in DOMAIN incidents : incidents[i] \in Incident
  BY DEF ExplainedInv, TypeInv, TypeOK
<1>1. /\ poll[p].stage = "savingSnapshot" /\ m \in monitors
      /\ s \in Schemas /\ h \in Seq(Schemas)
      /\ incidents' = incidents /\ monitors' = monitors
      /\ snapshots' = [snapshots EXCEPT ![m] = Append(h, s)]
  BY <1>0 DEF SaveSnapshot, outside, CallOK, SchemaStages
<1>2. /\ snapshots'[m] = Append(h, s)
      /\ \A x \in Monitors \ {m} : snapshots'[x] = snapshots[x]
  BY <1>0, <1>1
<1>3. \A x \in Monitors :
        /\ \A c : Remembers(c, snapshots[x]) => Remembers(c, snapshots'[x])
        /\ \A severity :
             Explained(severity, snapshots[x]) => Explained(severity, snapshots'[x])
  BY <1>1, <1>2, HistoryGrows
<1>4. \A q \in Polls \ {p} : poll'[q] = poll[q]
  BY <1>0 DEF SaveSnapshot, GoTo, Return
<1>5. ASSUME poll'[p].stage \in Comparing, poll'[p].api \in monitors
      PROVE  Remembers(poll'[p], snapshots'[poll'[p].api])
  <2>1. Severity(poll[p].previous, s) \in Paging /\ GoTo(p, "findingSchemaChange")
    BY <1>0, <1>5 DEF SaveSnapshot, Return, IdlePoll, Comparing, PagingStages
  <2>2. /\ poll'[p].stage = "findingSchemaChange" /\ poll'[p].api = m
        /\ poll'[p].previous = poll[p].previous /\ poll'[p].response = s
    BY <1>0, <2>1 DEF GoTo, Call
  <2>3. PICK k \in 1 .. Len(h) : h[k] = poll[p].previous
    <3>1. Remembers(poll[p], h)
      BY <1>1 DEF ExplainedInv, CallsRemember
    <3>2. QED
      BY <1>1, <2>1, <3>1, PagingHasPrevious DEF Remembers
  <2>4. /\ Len(Append(h, s)) = Len(h) + 1
        /\ Append(h, s)[k] = h[k]
        /\ Append(h, s)[Len(h) + 1] = s
        /\ Len(h) + 1 \in 1 .. Len(Append(h, s))
        /\ k \in 1 .. (Len(h) + 1) - 1
    BY <1>1
  <2>5. \E n \in 1 .. Len(Append(h, s)) : \E j \in 1 .. n - 1 :
          Append(h, s)[j] = poll[p].previous /\ Append(h, s)[n] = s
    BY <2>3, <2>4
  <2>6. QED
    BY <1>2, <2>2, <2>5 DEF Remembers
<1>6. CallsRemember'
  <2> SUFFICES ASSUME NEW q \in Polls, poll'[q].api \in monitors,
                      poll'[q].stage \in Comparing
               PROVE  Remembers(poll'[q], snapshots'[poll'[q].api])
    BY <1>1 DEF CallsRemember, Remembers, Comparing
  <2>1. CASE q = p
    BY <1>5, <2>1
  <2>2. CASE q # p
    <3>1. Remembers(poll[q], snapshots[poll[q].api]) /\ poll[q].api \in Monitors
      BY <1>0, <1>4, <2>2 DEF ExplainedInv, CallsRemember
    <3>2. QED
      BY <1>3, <1>4, <2>2, <3>1
  <2>3. QED
    BY <2>1, <2>2
<1>7. RowsExplained'
  <2> SUFFICES ASSUME NEW i \in DOMAIN incidents,
                      incidents[i].type = "SCHEMA_CHANGE"
               PROVE  Explained(incidents[i].severity, snapshots'[incidents[i].api])
    BY <1>1, ZenonT(60) DEF RowsExplained, Explained
  <2>1. Explained(incidents[i].severity, snapshots[incidents[i].api])
    BY DEF ExplainedInv, RowsExplained
  <2>2. incidents[i].api \in Monitors
    BY <1>0 DEF Incident
  <2>3. QED
    BY <1>3, <2>1, <2>2
<1>8. QED
  BY <1>6, <1>7 DEF ExplainedInv

LEMMA OpenSchemaChangeExplained ==
  ASSUME ExplainedInv, TypeInv', NEW p \in Polls, OpenSchemaChange(p),
         UNCHANGED outside
  PROVE  ExplainedInv'
<1> DEFINE m == poll[p].api
           severity == Severity(poll[p].previous, poll[p].response)
<1>0. TypeInv /\ CallOK(poll[p]) /\ nextId \in Nat
  BY DEF ExplainedInv, TypeInv, TypeOK
<1>1. /\ poll[p].stage = "openingSchemaChange" /\ m \in monitors
      /\ UNCHANGED <<snapshots, monitors>>
      /\ incidents' = AddRow(incidents, nextId,
                        [api |-> m, type |-> "SCHEMA_CHANGE", severity |-> severity,
                         status |-> "OPEN",
                         openedAt |-> Len(snapshots[m]), resolvedAt |-> None])
  BY DEF OpenSchemaChange, CreateIncident, outside
<1>2. CallsKept
  BY <1>0, MovesAreKept
  DEF OpenSchemaChange, Stages, DatabaseStages, Comparing, PagingStages
<1>3. Explained(severity, snapshots[m])
  <2>1. Remembers(poll[p], snapshots[m])
    BY <1>1 DEF ExplainedInv, CallsRemember
  <2>2. severity = Verdict[<<poll[p].previous, poll[p].response>>]
    BY <1>0, <1>1, PagingHasPrevious DEF CallOK, PagingStages
  <2>3. QED
    BY <1>1, <2>1, <2>2 DEF Remembers, Explained, PagingStages
<1>4. RowsExplained'
  <2> SUFFICES ASSUME NEW i \in DOMAIN incidents',
                      incidents'[i].type = "SCHEMA_CHANGE"
               PROVE  Explained(incidents'[i].severity, snapshots[incidents'[i].api])
    BY <1>1 DEF RowsExplained, Explained
  <2>1. CASE i = nextId
    BY <1>1, <1>3, <2>1 DEF AddRow
  <2>2. CASE i # nextId
    <3>1. i \in DOMAIN incidents /\ incidents'[i] = incidents[i]
      BY <1>1, <2>2 DEF AddRow
    <3>2. QED
      BY <3>1 DEF ExplainedInv, RowsExplained
  <2>3. QED
    BY <2>1, <2>2
<1>5. CallsRemember'
  <2> SUFFICES ASSUME NEW q \in Polls, poll'[q].api \in monitors,
                      poll'[q].stage \in Comparing
               PROVE  Remembers(poll'[q], snapshots[poll'[q].api])
    BY <1>1 DEF CallsRemember, Remembers, Comparing
  <2>1. Remembers(poll[q], snapshots[poll[q].api]) /\ poll'[q].api = poll[q].api
    BY <1>2 DEF CallsKept, ExplainedInv, CallsRemember
  <2>2. QED
    BY <1>2, <2>1 DEF CallsKept, Remembers, PagingStages
<1>6. QED
  BY <1>4, <1>5 DEF ExplainedInv

LEMMA NextExplained == ExplainedInv /\ [Next]_vars => ExplainedInv'
<1> SUFFICES ASSUME ExplainedInv, [Next]_vars PROVE ExplainedInv'
  OBVIOUS
<1>0. TypeInv /\ TypeInv'
  BY NextType DEF ExplainedInv
<1>1. ASSUME NEW p \in Polls, PollStep(p) PROVE ExplainedInv'
  <2>1. UNCHANGED outside
    BY <1>1 DEF PollStep
  <2>2. CASE CallsKept /\ RowsKept /\ snapshots' = snapshots
    BY <1>0, <2>1, <2>2, KeptExplained DEF outside
  <2>3. QED
    BY <1>0, <1>1, <2>1, <2>2, PollStepKeeps, ReadSnapshotExplained,
       SaveSnapshotExplained, OpenSchemaChangeExplained
<1>2. CASE ~ \E p \in Polls : PollStep(p)
  <2>1. /\ CallsKept /\ RowsKept
        /\ \/ snapshots' = snapshots /\ monitors' = monitors
           \/ \E m \in Monitors : DeleteMonitor(m)
    BY <1>0, <1>2, OthersKeep
  <2>2. CASE snapshots' = snapshots /\ monitors' = monitors
    BY <1>0, <2>1, <2>2, KeptExplained
  <2>3. ASSUME NEW m \in Monitors, DeleteMonitor(m) PROVE ExplainedInv'
    <3>1. /\ monitors' = monitors \ {m}
          /\ \A x \in Monitors \ {m} : snapshots'[x] = snapshots[x]
          /\ \A i \in DOMAIN incidents' : /\ i \in DOMAIN incidents
                                          /\ incidents'[i] = incidents[i]
                                          /\ incidents[i].api # m
      BY <1>0, <2>3 DEF DeleteMonitor, TypeInv, TypeOK
    <3>2. /\ monitors \subseteq Monitors
          /\ \A i \in DOMAIN incidents : incidents[i].api \in Monitors
      BY <1>0 DEF TypeInv, TypeOK, Incident
    <3>3. QED
      BY <1>0, <2>1, <3>1, <3>2, KeptExplained
  <2>4. QED
    BY <2>1, <2>2, <2>3
<1>3. QED
  BY <1>1, <1>2

\* A schema incident is never a false alarm, whatever overlaps, fails or is cut
\* short (captureSchemaSnapshot, handleSchemaChangeIncident): the history of its
\* monitor holds, in this order, two structures it is about.
THEOREM SchemaIncidentsAreExplained == Spec => []SchemaIncidentExplained
<1>1. Init => ExplainedInv
  BY InitTypeInv
  DEF Init, ExplainedInv, CallsRemember, RowsExplained, Remembers, IdlePoll,
      PagingStages
<1>2. ExplainedInv => SchemaIncidentExplained
  BY DEF ExplainedInv, RowsExplained, Explained, SchemaIncidentExplained
<1>3. QED
  BY <1>1, <1>2, NextExplained, PTL DEF Spec

-----------------------------------------------------------------------------
(* Without overlap nothing is stored twice.                                *)

\* A call about to store a structure still knows the latest one.
SavingOK ==
  \A p \in Polls :
    poll[p].stage = "savingSnapshot" /\ poll[p].api \in monitors =>
      /\ poll[p].previous = Last(snapshots[poll[p].api])
      /\ poll[p].previous # poll[p].response

DifferInv == SerialInv /\ SavingOK /\ SnapshotsDiffer

LEMMA KeptDiffers ==
  ASSUME DifferInv, SerialInv', CallsKept, monitors' \subseteq monitors,
         \A m \in monitors' : snapshots'[m] = snapshots[m],
         \A m \in Monitors : snapshots'[m] \in {snapshots[m], <<>>}
  PROVE  DifferInv'
<1>1. SavingOK'
  <2> SUFFICES ASSUME NEW p \in Polls, poll'[p].stage = "savingSnapshot",
                      poll'[p].api \in monitors'
               PROVE  /\ poll'[p].previous = Last(snapshots'[poll'[p].api])
                      /\ poll'[p].previous # poll'[p].response
    BY DEF SavingOK, Last
  <2>1. /\ poll[p].stage = "savingSnapshot" /\ poll'[p].api = poll[p].api
        /\ poll'[p].previous = poll[p].previous
        /\ poll'[p].response = poll[p].response
    BY DEF CallsKept, Comparing, PagingStages
  <2>2. QED
    BY <2>1 DEF DifferInv, SavingOK
<1>2. SnapshotsDiffer'
  <2> SUFFICES ASSUME NEW m \in Monitors, NEW n \in 1 .. Len(snapshots'[m]) - 1
               PROVE  snapshots'[m][n] # snapshots'[m][n + 1]
    BY DEF SnapshotsDiffer
  <2>1. snapshots'[m] = snapshots[m]
    OBVIOUS
  <2>2. QED
    BY <2>1 DEF DifferInv, SnapshotsDiffer
<1>3. QED
  BY <1>1, <1>2 DEF DifferInv

LEMMA ReadSnapshotDiffers ==
  ASSUME DifferInv, SerialInv', NEW p \in Polls, ReadSnapshot(p), UNCHANGED outside
  PROVE  DifferInv'
<1>0. TypeInv /\ poll \in [Polls -> Call]
  BY DEF DifferInv, SerialInv, MailInv, TypeInv, TypeOK
<1>1. UNCHANGED <<snapshots, monitors>>
  BY DEF ReadSnapshot, written, outside
<1>2. CASE Return(p)
  <2>1. CallsKept
    BY <1>0, <1>2, MovesAreKept
  <2>2. QED
    BY <1>1, <2>1, KeptDiffers
<1>3. CASE ~ Return(p)
  <2>1. /\ poll'[p].api = poll[p].api
        /\ poll'[p].previous = Last(snapshots[poll[p].api])
        /\ poll'[p].response = poll[p].response
        /\ poll'[p].previous # poll'[p].response
        /\ \A q \in Polls \ {p} : poll'[q] = poll[q]
    BY <1>0, <1>3 DEF ReadSnapshot, Call
  <2>2. SavingOK'
    <3> SUFFICES ASSUME NEW q \in Polls, poll'[q].stage = "savingSnapshot",
                        poll'[q].api \in monitors
                 PROVE  /\ poll'[q].previous = Last(snapshots[poll'[q].api])
                        /\ poll'[q].previous # poll'[q].response
      BY <1>1 DEF SavingOK, Last
    <3>1. CASE q = p
      BY <2>1, <3>1
    <3>2. CASE q # p
      BY <2>1, <3>2 DEF DifferInv, SavingOK
    <3>3. QED
      BY <3>1, <3>2
  <2>3. SnapshotsDiffer'
    BY <1>1 DEF DifferInv, SnapshotsDiffer
  <2>4. QED
    BY <2>2, <2>3 DEF DifferInv
<1>4. QED
  BY <1>2, <1>3

LEMMA SaveSnapshotDiffers ==
  ASSUME DifferInv, SerialInv', NEW p \in Polls, SaveSnapshot(p), UNCHANGED outside
  PROVE  DifferInv'
<1> DEFINE m == poll[p].api
           h == snapshots[m]
           s == poll[p].response
<1>0. /\ poll \in [Polls -> Call] /\ CallOK(poll[p])
      /\ snapshots \in [Monitors -> Seq(Schemas)]
      /\ monitors \subseteq Monitors
  BY DEF DifferInv, SerialInv, MailInv, TypeInv, TypeOK
<1>1. /\ poll[p].stage = "savingSnapshot" /\ m \in monitors
      /\ s \in Schemas /\ h \in Seq(Schemas) /\ monitors' = monitors
      /\ snapshots' = [snapshots EXCEPT ![m] = Append(h, s)]
  BY <1>0 DEF SaveSnapshot, outside, CallOK, SchemaStages
<1>2. /\ snapshots'[m] = Append(h, s)
      /\ \A x \in Monitors \ {m} : snapshots'[x] = snapshots[x]
  BY <1>0, <1>1
<1>3. /\ \A q \in Polls \ {p} : poll'[q] = poll[q]
      /\ poll'[p].stage # "savingSnapshot"
  BY <1>0 DEF SaveSnapshot, GoTo, Return, Call, IdlePoll
<1>4. SavingOK'
  <2> SUFFICES ASSUME NEW q \in Polls, poll'[q].stage = "savingSnapshot",
                      poll'[q].api \in monitors
               PROVE  /\ poll'[q].previous = Last(snapshots'[poll'[q].api])
                      /\ poll'[q].previous # poll'[q].response
    BY <1>1 DEF SavingOK, Last
  <2>1. q # p /\ poll'[q] = poll[q]
    BY <1>3
  <2>2. poll[q].api # m
    BY <1>1, <2>1 DEF DifferInv, SerialInv, OnePollPerMonitor
  <2>3. snapshots'[poll'[q].api] = snapshots[poll[q].api]
    BY <1>0, <1>2, <2>1, <2>2
  <2>4. QED
    BY <2>1, <2>3 DEF DifferInv, SavingOK
<1>5. SnapshotsDiffer'
  <2> SUFFICES ASSUME NEW x \in Monitors, NEW n \in 1 .. Len(snapshots'[x]) - 1
               PROVE  snapshots'[x][n] # snapshots'[x][n + 1]
    BY DEF SnapshotsDiffer
  <2>1. CASE x # m
    BY <1>2, <2>1 DEF DifferInv, SnapshotsDiffer
  <2>2. CASE x = m
    <3>1. /\ Len(h) \in Nat /\ Len(Append(h, s)) = Len(h) + 1
          /\ \A k \in 1 .. Len(h) : Append(h, s)[k] = h[k]
          /\ Append(h, s)[Len(h) + 1] = s
      BY <1>1
    <3>2. CASE n < Len(h)
      <4>1. n \in 1 .. Len(h) - 1 /\ n \in 1 .. Len(h) /\ n + 1 \in 1 .. Len(h)
        BY <1>2, <2>2, <3>1, <3>2
      <4>2. h[n] # h[n + 1]
        BY <1>0, <2>2, <4>1 DEF DifferInv, SnapshotsDiffer
      <4>3. QED
        BY <1>2, <2>2, <3>1, <4>1, <4>2
    <3>3. CASE n = Len(h)
      <4>1. h # <<>> /\ n \in 1 .. Len(h)
        BY <1>1, <3>1, <3>3
      <4>2. h[n] # s
        BY <1>1, <3>3, <4>1 DEF DifferInv, SavingOK, Last
      <4>3. QED
        BY <1>2, <2>2, <3>1, <3>3, <4>1, <4>2
    <3>4. QED
      BY <1>2, <2>2, <3>1, <3>2, <3>3
  <2>3. QED
    BY <2>1, <2>2
<1>6. QED
  BY <1>4, <1>5 DEF DifferInv

LEMMA NextDiffers ==
  ASSUME ~ Overlap
  PROVE  DifferInv /\ [Next]_vars => DifferInv'
<1> SUFFICES ASSUME DifferInv, [Next]_vars PROVE DifferInv'
  OBVIOUS
<1>0. TypeInv /\ SerialInv'
  BY NextSerial DEF DifferInv, SerialInv, MailInv
<1>1. ASSUME NEW p \in Polls, PollStep(p) PROVE DifferInv'
  <2>1. UNCHANGED outside
    BY <1>1 DEF PollStep
  <2>2. CASE CallsKept /\ snapshots' = snapshots
    BY <1>0, <2>1, <2>2, KeptDiffers DEF outside
  <2>3. ASSUME OpenSchemaChange(p) PROVE CallsKept /\ snapshots' = snapshots
    <3>1. nextId \in Nat
      BY <1>0 DEF TypeInv, TypeOK
    <3>2. QED
      BY <1>0, <2>3, <3>1, MovesAreKept
      DEF OpenSchemaChange, Stages, DatabaseStages, Comparing, PagingStages
  <2>4. QED
    BY <1>0, <1>1, <2>1, <2>2, <2>3, PollStepKeeps, ReadSnapshotDiffers,
       SaveSnapshotDiffers
<1>2. CASE ~ \E p \in Polls : PollStep(p)
  <2>1. /\ CallsKept
        /\ \/ snapshots' = snapshots /\ monitors' = monitors
           \/ \E m \in Monitors : DeleteMonitor(m)
    BY <1>0, <1>2, OthersKeep
  <2>2. CASE snapshots' = snapshots /\ monitors' = monitors
    BY <1>0, <2>1, <2>2, KeptDiffers
  <2>3. ASSUME NEW m \in Monitors, DeleteMonitor(m) PROVE DifferInv'
    <3>1. /\ monitors' = monitors \ {m} /\ monitors \subseteq Monitors
          /\ \A x \in Monitors \ {m} : snapshots'[x] = snapshots[x]
          /\ snapshots'[m] = <<>>
      BY <1>0, <2>3 DEF DeleteMonitor, TypeInv, TypeOK
    <3>2. QED
      BY <1>0, <2>1, <3>1, KeptDiffers
  <2>4. QED
    BY <2>1, <2>2, <2>3
<1>3. QED
  BY <1>1, <1>2

\* "Unchanged responses never create duplicates" (captureSchemaSnapshot) for
\* as long as no two polls of one monitor overlap, whatever fails, whatever the
\* polls of other monitors do, and across restarts and deletions.
THEOREM SnapshotsDifferWhenSerial ==
  ASSUME ~ Overlap
  PROVE  Spec => []SnapshotsDiffer
<1>1. Init /\ SerialInv => DifferInv
  BY DEF Init, DifferInv, SavingOK, SnapshotsDiffer, IdlePoll
<1>2. DifferInv => SnapshotsDiffer
  BY DEF DifferInv
<1>3. QED
  BY <1>1, <1>2, NextDiffers, SerialInvariant, PTL DEF Spec

-----------------------------------------------------------------------------
(* Without overlap an incident is about two successive structures.         *)

\* Two successive structures of h differ with that severity; two are those that
\* the call compared.
ChangedBy(severity, h) == \E n \in 1 .. Len(h) - 1 : Verdict[<<h[n], h[n + 1]>>] = severity

Compared(c, h) == \E n \in 1 .. Len(h) - 1 : h[n] = c.previous /\ h[n + 1] = c.response

CallsCompare ==
  \A p \in Polls :
    poll[p].stage \in PagingStages /\ poll[p].api \in monitors =>
      Compared(poll[p], snapshots[poll[p].api])

\* SchemaIncidentExplained, made precise: no structure was stored in between.
IncidentsTellChanges ==
  \A i \in DOMAIN incidents :
    incidents[i].type = "SCHEMA_CHANGE" =>
      ChangedBy(incidents[i].severity, snapshots[incidents[i].api])

SuccessiveInv == DifferInv /\ CallsCompare /\ IncidentsTellChanges

\* A history that grows keeps the successions it has.
LEMMA SuccessionsStay ==
  ASSUME NEW h \in Seq(Schemas), NEW s \in Schemas
  PROVE  /\ \A c : Compared(c, h) => Compared(c, Append(h, s))
         /\ \A severity : ChangedBy(severity, h) => ChangedBy(severity, Append(h, s))
<1>1. /\ Len(h) \in Nat /\ Len(Append(h, s)) = Len(h) + 1
      /\ \A k \in 1 .. Len(h) : Append(h, s)[k] = h[k]
  OBVIOUS
<1>2. ASSUME NEW n \in 1 .. Len(h) - 1
      PROVE  /\ n \in 1 .. Len(Append(h, s)) - 1
             /\ n \in 1 .. Len(h) /\ n + 1 \in 1 .. Len(h)
  BY <1>1
<1>3. QED
  BY <1>1, <1>2 DEF Compared, ChangedBy

\* Steps that keep all keep this, too, and so does a deletion.
LEMMA KeptSuccessive ==
  ASSUME SuccessiveInv, DifferInv', CallsKept, RowsKept,
         monitors' \subseteq monitors,
         \A m \in monitors' : snapshots'[m] = snapshots[m],
         \A i \in DOMAIN incidents' :
           snapshots'[incidents'[i].api] = snapshots[incidents'[i].api]
  PROVE  SuccessiveInv'
<1>1. CallsCompare'
  <2> SUFFICES ASSUME NEW p \in Polls, poll'[p].stage \in PagingStages,
                      poll'[p].api \in monitors'
               PROVE  Compared(poll'[p], snapshots'[poll'[p].api])
    BY DEF CallsCompare, Compared
  <2>1. /\ poll'[p].api = poll[p].api
        /\ poll'[p].previous = poll[p].previous
        /\ poll'[p].response = poll[p].response
        /\ poll[p].stage \in PagingStages
    BY DEF CallsKept, Comparing, PagingStages
  <2>2. Compared(poll[p], snapshots[poll[p].api])
    BY <2>1 DEF SuccessiveInv, CallsCompare
  <2>3. QED
    BY <2>1, <2>2 DEF Compared
<1>2. IncidentsTellChanges'
  <2> SUFFICES ASSUME NEW i \in DOMAIN incidents', incidents'[i].type = "SCHEMA_CHANGE"
               PROVE  ChangedBy(incidents'[i].severity, snapshots'[incidents'[i].api])
    BY DEF IncidentsTellChanges, ChangedBy
  <2>1. /\ i \in DOMAIN incidents
        /\ incidents[i].type = "SCHEMA_CHANGE"
        /\ incidents'[i].api = incidents[i].api
        /\ incidents'[i].severity = incidents[i].severity
    BY DEF RowsKept
  <2>2. QED
    BY <2>1 DEF SuccessiveInv, IncidentsTellChanges
<1>3. QED
  BY <1>1, <1>2 DEF SuccessiveInv

LEMMA SaveSnapshotSuccessive ==
  ASSUME SuccessiveInv, DifferInv', NEW p \in Polls, SaveSnapshot(p), UNCHANGED outside
  PROVE  SuccessiveInv'
<1> DEFINE m == poll[p].api
           h == snapshots[m]
           s == poll[p].response
<1>0. /\ poll \in [Polls -> Call] /\ CallOK(poll[p])
      /\ snapshots \in [Monitors -> Seq(Schemas)]
      /\ monitors \subseteq Monitors
      /\ \A i \in DOMAIN incidents : incidents[i] \in Incident
  BY DEF SuccessiveInv, DifferInv, SerialInv, MailInv, TypeInv, TypeOK
<1>1. /\ poll[p].stage = "savingSnapshot" /\ m \in monitors
      /\ s \in Schemas /\ h \in Seq(Schemas)
      /\ incidents' = incidents /\ monitors' = monitors
      /\ snapshots' = [snapshots EXCEPT ![m] = Append(h, s)]
  BY <1>0 DEF SaveSnapshot, outside, CallOK, SchemaStages
<1>2. /\ snapshots'[m] = Append(h, s)
      /\ \A x \in Monitors \ {m} : snapshots'[x] = snapshots[x]
  BY <1>0, <1>1
<1>3. \A x \in Monitors :
        /\ \A c : Compared(c, snapshots[x]) => Compared(c, snapshots'[x])
        /\ \A severity : ChangedBy(severity, snapshots[x]) => ChangedBy(severity, snapshots'[x])
  BY <1>1, <1>2, SuccessionsStay
<1>4. \A q \in Polls \ {p} : poll'[q] = poll[q]
  BY <1>0 DEF SaveSnapshot, GoTo, Return
<1>5. ASSUME poll'[p].stage \in PagingStages
      PROVE  Compared(poll'[p], snapshots'[poll'[p].api])
  <2>1. Severity(poll[p].previous, s) \in Paging /\ GoTo(p, "findingSchemaChange")
    BY <1>0, <1>5 DEF SaveSnapshot, Return, IdlePoll, PagingStages
  <2>2. /\ poll'[p].stage = "findingSchemaChange" /\ poll'[p].api = m
        /\ poll'[p].previous = poll[p].previous /\ poll'[p].response = s
    BY <1>0, <2>1 DEF GoTo, Call
  <2>3. h # <<>> /\ h[Len(h)] = poll[p].previous
    <3>1. poll[p].previous = Last(h) /\ poll[p].previous # None
      BY <1>1, <2>1, PagingHasPrevious DEF SuccessiveInv, DifferInv, SavingOK
    <3>2. QED
      BY <3>1 DEF Last
  <2>4. Len(h) \in 1 .. Len(h)
    BY <1>1, <2>3
  <2>5. /\ Len(h) \in 1 .. Len(Append(h, s)) - 1
        /\ Append(h, s)[Len(h)] = h[Len(h)] /\ Append(h, s)[Len(h) + 1] = s
    BY <1>1, <2>4
  <2>6. \E n \in 1 .. Len(Append(h, s)) - 1 :
          Append(h, s)[n] = poll[p].previous /\ Append(h, s)[n + 1] = s
    BY <2>3, <2>5
  <2>7. QED
    BY <1>2, <2>2, <2>6 DEF Compared
<1>6. CallsCompare'
  <2> SUFFICES ASSUME NEW q \in Polls, poll'[q].api \in monitors,
                      poll'[q].stage \in PagingStages
               PROVE  Compared(poll'[q], snapshots'[poll'[q].api])
    BY <1>1 DEF CallsCompare, Compared
  <2>1. CASE q = p
    BY <1>5, <2>1
  <2>2. CASE q # p
    <3>1. Compared(poll[q], snapshots[poll[q].api]) /\ poll[q].api \in Monitors
      BY <1>0, <1>4, <2>2 DEF SuccessiveInv, CallsCompare
    <3>2. QED
      BY <1>3, <1>4, <2>2, <3>1
  <2>3. QED
    BY <2>1, <2>2
<1>7. IncidentsTellChanges'
  <2> SUFFICES ASSUME NEW i \in DOMAIN incidents, incidents[i].type = "SCHEMA_CHANGE"
               PROVE  ChangedBy(incidents[i].severity, snapshots'[incidents[i].api])
    BY <1>1 DEF IncidentsTellChanges, ChangedBy
  <2>1. ChangedBy(incidents[i].severity, snapshots[incidents[i].api])
    BY DEF SuccessiveInv, IncidentsTellChanges
  <2>2. incidents[i].api \in Monitors
    BY <1>0 DEF Incident
  <2>3. QED
    BY <1>3, <2>1, <2>2
<1>8. QED
  BY <1>6, <1>7 DEF SuccessiveInv

LEMMA OpenSchemaChangeSuccessive ==
  ASSUME SuccessiveInv, DifferInv', NEW p \in Polls, OpenSchemaChange(p),
         UNCHANGED outside
  PROVE  SuccessiveInv'
<1> DEFINE m == poll[p].api
           severity == Severity(poll[p].previous, poll[p].response)
<1>0. TypeInv /\ CallOK(poll[p]) /\ nextId \in Nat
  BY DEF SuccessiveInv, DifferInv, SerialInv, MailInv, TypeInv, TypeOK
<1>1. /\ poll[p].stage = "openingSchemaChange" /\ m \in monitors
      /\ UNCHANGED <<snapshots, monitors>>
      /\ incidents' = AddRow(incidents, nextId,
                        [api |-> m, type |-> "SCHEMA_CHANGE", severity |-> severity,
                         status |-> "OPEN",
                         openedAt |-> Len(snapshots[m]), resolvedAt |-> None])
  BY DEF OpenSchemaChange, CreateIncident, outside
<1>2. CallsKept
  BY <1>0, MovesAreKept
  DEF OpenSchemaChange, Stages, DatabaseStages, Comparing, PagingStages
<1>3. ChangedBy(severity, snapshots[m])
  <2>1. Compared(poll[p], snapshots[m])
    BY <1>1 DEF SuccessiveInv, CallsCompare, PagingStages
  <2>2. severity = Verdict[<<poll[p].previous, poll[p].response>>]
    BY <1>0, <1>1, PagingHasPrevious DEF CallOK, PagingStages
  <2>3. QED
    BY <2>1, <2>2 DEF Compared, ChangedBy
<1>4. IncidentsTellChanges'
  <2> SUFFICES ASSUME NEW i \in DOMAIN incidents', incidents'[i].type = "SCHEMA_CHANGE"
               PROVE  ChangedBy(incidents'[i].severity, snapshots[incidents'[i].api])
    BY <1>1 DEF IncidentsTellChanges, ChangedBy
  <2>1. CASE i = nextId
    BY <1>1, <1>3, <2>1 DEF AddRow
  <2>2. CASE i # nextId
    <3>1. i \in DOMAIN incidents /\ incidents'[i] = incidents[i]
      BY <1>1, <2>2 DEF AddRow
    <3>2. QED
      BY <3>1 DEF SuccessiveInv, IncidentsTellChanges
  <2>3. QED
    BY <2>1, <2>2
<1>5. CallsCompare'
  <2> SUFFICES ASSUME NEW q \in Polls, poll'[q].api \in monitors,
                      poll'[q].stage \in PagingStages
               PROVE  Compared(poll'[q], snapshots[poll'[q].api])
    BY <1>1 DEF CallsCompare, Compared
  <2>1. /\ poll[q].stage \in PagingStages /\ poll'[q].api = poll[q].api
        /\ poll'[q].previous = poll[q].previous /\ poll'[q].response = poll[q].response
    BY <1>2 DEF CallsKept, Comparing, PagingStages
  <2>2. Compared(poll[q], snapshots[poll[q].api])
    BY <2>1 DEF SuccessiveInv, CallsCompare
  <2>3. QED
    BY <2>1, <2>2 DEF Compared
<1>6. QED
  BY <1>4, <1>5 DEF SuccessiveInv

LEMMA NextSuccessive ==
  ASSUME ~ Overlap
  PROVE  SuccessiveInv /\ [Next]_vars => SuccessiveInv'
<1> SUFFICES ASSUME SuccessiveInv, [Next]_vars PROVE SuccessiveInv'
  OBVIOUS
<1>0. TypeInv /\ DifferInv'
  BY NextDiffers DEF SuccessiveInv, DifferInv, SerialInv, MailInv
<1>1. ASSUME NEW p \in Polls, PollStep(p) PROVE SuccessiveInv'
  <2>1. UNCHANGED outside
    BY <1>1 DEF PollStep
  <2>2. CASE CallsKept /\ RowsKept /\ snapshots' = snapshots
    BY <1>0, <2>1, <2>2, KeptSuccessive DEF outside
  <2>3. CASE ReadSnapshot(p)
    <3>1. UNCHANGED <<snapshots, incidents, monitors>>
      BY <2>1, <2>3 DEF ReadSnapshot, outside, written
    <3>2. \A q \in Polls : poll'[q].stage \in PagingStages => poll'[q] = poll[q]
      BY <1>0, <2>3 DEF ReadSnapshot, Return, IdlePoll, PagingStages, TypeInv, TypeOK, Call
    <3>3. QED
      BY <1>0, <3>1, <3>2
      DEF SuccessiveInv, CallsCompare, IncidentsTellChanges, Compared, ChangedBy
  <2>4. QED
    BY <1>0, <1>1, <2>1, <2>2, <2>3, PollStepKeeps, SaveSnapshotSuccessive,
       OpenSchemaChangeSuccessive
<1>2. CASE ~ \E p \in Polls : PollStep(p)
  <2>1. /\ CallsKept /\ RowsKept
        /\ \/ snapshots' = snapshots /\ monitors' = monitors
           \/ \E m \in Monitors : DeleteMonitor(m)
    BY <1>0, <1>2, OthersKeep
  <2>2. CASE snapshots' = snapshots /\ monitors' = monitors
    BY <1>0, <2>1, <2>2, KeptSuccessive
  <2>3. ASSUME NEW m \in Monitors, DeleteMonitor(m) PROVE SuccessiveInv'
    <3>1. /\ monitors' = monitors \ {m}
          /\ \A x \in Monitors \ {m} : snapshots'[x] = snapshots[x]
          /\ \A i \in DOMAIN incidents' : /\ i \in DOMAIN incidents
                                          /\ incidents'[i] = incidents[i]
                                          /\ incidents[i].api # m
      BY <1>0, <2>3 DEF DeleteMonitor, TypeInv, TypeOK
    <3>2. /\ monitors \subseteq Monitors
          /\ \A i \in DOMAIN incidents : incidents[i].api \in Monitors
      BY <1>0 DEF TypeInv, TypeOK, Incident
    <3>3. QED
      BY <1>0, <2>1, <3>1, <3>2, KeptSuccessive
  <2>4. QED
    BY <2>1, <2>2, <2>3
<1>3. QED
  BY <1>1, <1>2

\* Polled without overlap, a schema incident is about two successive structures of
\* its monitor's history, whatever fails and across restarts: what the call read as
\* the latest snapshot still is when it stores its own (captureSchemaSnapshot).
THEOREM IncidentsAreAboutChanges ==
  ASSUME ~ Overlap
  PROVE  Spec => []IncidentsTellChanges
<1>1. Init /\ DifferInv => SuccessiveInv
  BY DEF Init, SuccessiveInv, CallsCompare, IncidentsTellChanges, IdlePoll, PagingStages
<1>2. Init /\ SerialInv => DifferInv
  BY DEF Init, DifferInv, SavingOK, SnapshotsDiffer, IdlePoll
<1>3. SuccessiveInv => IncidentsTellChanges
  BY DEF SuccessiveInv
<1>4. QED
  BY <1>1, <1>2, <1>3, NextSuccessive, SerialInvariant, PTL DEF Spec

-----------------------------------------------------------------------------
(* What a step does to the rows of the table.                              *)

\* No row changes monitor, kind, severity or its opening, or its status but to
\* RESOLVED, with the time, or, by an acknowledgement, to ACKNOWLEDGED.
RowsFollow ==
  \A i \in DOMAIN incidents : i \in DOMAIN incidents' =>
    /\ incidents'[i].api = incidents[i].api
    /\ incidents'[i].type = incidents[i].type
    /\ incidents'[i].severity = incidents[i].severity
    /\ incidents'[i].openedAt = incidents[i].openedAt
    /\ \/ /\ incidents'[i].status = incidents[i].status
          /\ incidents'[i].resolvedAt = incidents[i].resolvedAt
       \/ /\ incidents'[i].status = "RESOLVED"
          /\ incidents'[i].resolvedAt = Len(snapshots[incidents[i].api])
       \/ /\ incidents'[i].status = "ACKNOWLEDGED"
          /\ incidents'[i].resolvedAt = incidents[i].resolvedAt
          /\ \E r \in Requests : request[r].stage = "acknowledging"

\* A row is new only if a call has just inserted it.
RowsInserted ==
  \A i \in DOMAIN incidents' \ DOMAIN incidents :
    \E p \in Polls : i = nextId /\ (OpenOutage(p) \/ OpenSchemaChange(p))

LEMMA AcknowledgedRow ==
  ASSUME NEW row \in Incident
  PROVE  LET acked == [row EXCEPT !.status = "ACKNOWLEDGED"]
         IN  /\ acked.api = row.api
             /\ acked.type = row.type
             /\ acked.severity = row.severity
             /\ acked.openedAt = row.openedAt
             /\ acked.resolvedAt = row.resolvedAt
             /\ acked.status = "ACKNOWLEDGED"
BY DEF Incident

LEMMA StepRows ==
  ASSUME MailInv, [Next]_vars
  PROVE  RowsFollow /\ RowsInserted
<1>0. /\ \A i \in DOMAIN incidents : incidents[i] \in Incident
      /\ nextId \notin DOMAIN incidents
      /\ TypeInv
  <2>1. nextId \in Nat /\ \A i \in DOMAIN incidents : i < nextId
    BY DEF MailInv, TypeInv, TypeOK, IdsOK
  <2>2. QED
    BY <2>1 DEF MailInv, TypeInv, TypeOK
<1>s. incidents' = incidents => RowsFollow /\ RowsInserted
  BY DEF RowsFollow, RowsInserted
<1>1. ASSUME NEW p \in Polls, OpenOutage(p) \/ OpenSchemaChange(p)
      PROVE  RowsFollow /\ RowsInserted
  <2>1. PICK row : incidents' = AddRow(incidents, nextId, row)
    BY <1>1 DEF OpenOutage, OpenSchemaChange, CreateIncident
  <2>2. /\ DOMAIN incidents' = DOMAIN incidents \cup {nextId}
        /\ \A i \in DOMAIN incidents : incidents'[i] = incidents[i]
    BY <1>0, <2>1 DEF AddRow
  <2>3. QED
    BY <1>1, <2>2 DEF RowsFollow, RowsInserted
<1>2. ASSUME NEW p \in Polls, ResolveOutage(p) PROVE RowsFollow /\ RowsInserted
  <2> DEFINE i == poll[p].incident
  <2>1. /\ i \in DOMAIN incidents
        /\ incidents' = [incidents EXCEPT ![i] = Resolved(incidents[i])]
    BY <1>2 DEF ResolveOutage
  <2>2. LET row == Resolved(incidents[i])
        IN  /\ row.status = "RESOLVED"
            /\ row.resolvedAt = Len(snapshots[incidents[i].api])
            /\ row.api = incidents[i].api
            /\ row.type = incidents[i].type
            /\ row.severity = incidents[i].severity
            /\ row.openedAt = incidents[i].openedAt
    BY <1>0, <2>1, ResolvedRow
  <2>3. QED
    BY <1>0, <2>1, <2>2 DEF RowsFollow, RowsInserted
<1>3. ASSUME NEW p \in Polls, PollStep(p) PROVE RowsFollow /\ RowsInserted
  BY <1>1, <1>2, <1>3, <1>s
  DEF PollStep, Probe, SaveCheck, FindOutage, ReadSnapshot, SaveSnapshot,
      FindSchemaChange, ReadOwner, Mail, Refused, written
<1>4. ASSUME NEW r \in Requests, WriteAcknowledge(r)
      PROVE  RowsFollow /\ RowsInserted
  <2> DEFINE i == request[r].incident
             acked == [incidents[i] EXCEPT !.status = "ACKNOWLEDGED"]
  <2>1. request[r].stage = "acknowledging" /\ Update(r, acked)
    BY <1>4 DEF WriteAcknowledge
  <2>2. i \in DOMAIN incidents => /\ acked.api = incidents[i].api
                                  /\ acked.type = incidents[i].type
                                  /\ acked.severity = incidents[i].severity
                                  /\ acked.openedAt = incidents[i].openedAt
                                  /\ acked.resolvedAt = incidents[i].resolvedAt
                                  /\ acked.status = "ACKNOWLEDGED"
    BY <1>0, AcknowledgedRow
  <2> HIDE DEF acked
  <2>3. QED
    BY <2>1, <2>2 DEF Update, RowsFollow, RowsInserted
<1>5. ASSUME NEW r \in Requests, WriteResolve(r) PROVE RowsFollow /\ RowsInserted
  <2>1. Update(r, Resolved(incidents[request[r].incident]))
    BY <1>5 DEF WriteResolve
  <2> DEFINE i == request[r].incident
             row == Resolved(incidents[i])
  <2>2. i \in DOMAIN incidents =>
          /\ row.status = "RESOLVED"
          /\ row.resolvedAt = Len(snapshots[incidents[i].api])
          /\ row.api = incidents[i].api
          /\ row.type = incidents[i].type
          /\ row.severity = incidents[i].severity
          /\ row.openedAt = incidents[i].openedAt
    BY <1>0, ResolvedRow
  <2> HIDE DEF row
  <2>3. QED
    BY <1>0, <2>1, <2>2 DEF row, Update, RowsFollow, RowsInserted
<1>6. ASSUME NEW m \in Monitors, DeleteMonitor(m) PROVE RowsFollow /\ RowsInserted
  BY <1>6 DEF DeleteMonitor, RowsFollow, RowsInserted
<1>7. CASE UNCHANGED incidents
  BY <1>s, <1>7
<1>8. QED
  BY <1>3, <1>4, <1>5, <1>6, <1>7
  DEF Next, BeginPoll, StartPoll, ReadForAcknowledge, ReadForResolve,
      EndpointChanges, Throw, Crash, vars, written

-----------------------------------------------------------------------------
(* Announcements.                                                          *)

Announced(i) ==
  \/ \E n \in 1 .. Len(outbox) : outbox[n] = i
  \/ \E p \in Polls : poll[p].stage \in Notifying /\ poll[p].incident = i

\* Nothing is deleted, refused, cut short or lost by the mail server.
NothingFails ==
  Environment \cap {"throw", "crash", "mailFailure", "delete"} = {}

AnnouncedInv == MailInv /\ monitors = Monitors /\ CriticalIsAnnounced

\* Whoever is about to mail goes on until the mail is sent.
LEMMA AnnouncedStays ==
  ASSUME NothingFails, MailInv, monitors = Monitors, [Next]_vars,
         NEW i, Announced(i)
  PROVE  Announced(i)'
<1>0. /\ outbox \in Seq(Nat \ {0}) /\ Len(outbox) \in Nat
      /\ poll \in [Polls -> Call]
      /\ \A p \in Polls : CallOK(poll[p])
  BY DEF MailInv, TypeInv, TypeOK
<1>1. CASE \E n \in 1 .. Len(outbox) : outbox[n] = i
  <2>1. \/ outbox' = outbox
        \/ \E p \in Polls : outbox' = Append(outbox, poll[p].incident)
    BY DEF Next, BeginPoll, StartPoll, PollStep, Probe, SaveCheck, FindOutage,
           OpenOutage, ResolveOutage, ReadSnapshot, SaveSnapshot, FindSchemaChange,
           OpenSchemaChange, ReadOwner, Mail, Refused, ReadForAcknowledge,
           ReadForResolve, WriteAcknowledge, WriteResolve, Update, EndpointChanges,
           Throw, Crash, DeleteMonitor, vars, written
  <2>2. CASE outbox' = outbox
    BY <1>1, <2>2 DEF Announced
  <2>3. ASSUME NEW p \in Polls, outbox' = Append(outbox, poll[p].incident)
        PROVE  Announced(i)'
    <3>1. poll[p].incident \in Nat
      BY <1>0 DEF Call
    <3>2. /\ Len(outbox') = Len(outbox) + 1
          /\ \A n \in 1 .. Len(outbox) : outbox'[n] = outbox[n]
      BY <1>0, <2>3, <3>1
    <3>3. QED
      BY <1>0, <1>1, <3>2 DEF Announced
  <2>4. QED
    BY <2>1, <2>2, <2>3
<1>2. ASSUME NEW p \in Polls, poll[p].stage \in Notifying, poll[p].incident = i
      PROVE  Announced(i)'
  <2>1. CASE poll'[p] = poll[p]
    BY <1>2, <2>1 DEF Announced
  <2>2. CASE ReadOwner(p)
    <3>1. GoTo(p, "mailing")
      BY <1>0, <2>2 DEF ReadOwner, CallOK
    <3>2. poll'[p].stage = "mailing" /\ poll'[p].incident = i
      BY <1>0, <1>2, <3>1 DEF GoTo, Call
    <3>3. QED
      BY <3>2 DEF Announced, Notifying
  <2>3. CASE Mail(p)
    <3>1. outbox' = Append(outbox, i)
      BY <1>2, <2>3 DEF Mail, NothingFails
    <3>2. i \in Nat \ {0}
      BY <1>0, <1>2 DEF CallOK, Call
    <3>3. Len(outbox) + 1 \in 1 .. Len(outbox') /\ outbox'[Len(outbox) + 1] = i
      BY <1>0, <3>1, <3>2
    <3>4. QED
      BY <3>3 DEF Announced
  <2>4. poll'[p] = poll[p] \/ ReadOwner(p) \/ Mail(p)
    <3>1. ASSUME NEW q \in Polls, NEW m \in Monitors, BeginPoll(q, m)
          PROVE  poll'[p] = poll[p]
      BY <1>0, <1>2, <3>1 DEF BeginPoll, StartPoll, Notifying
    <3>2. ASSUME NEW q \in Polls, PollStep(q)
          PROVE  poll'[p] = poll[p] \/ ReadOwner(p) \/ Mail(p)
      <4>1. CASE q = p
        BY <1>2, <3>2, <4>1
        DEF PollStep, Probe, SaveCheck, FindOutage, OpenOutage, ResolveOutage,
            ReadSnapshot, SaveSnapshot, FindSchemaChange, OpenSchemaChange, Refused,
            Notifying
      <4>2. CASE q # p
        BY <1>0, <3>2, <4>2
        DEF PollStep, Probe, SaveCheck, FindOutage, OnFailure, OnSuccess, AfterOutage,
            OpenOutage, ResolveOutage, ReadSnapshot, SaveSnapshot, FindSchemaChange,
            OpenSchemaChange, ReadOwner, Mail, Refused, GoTo, GoToWith, Return, Reject
      <4>3. QED
        BY <4>1, <4>2
    <3>3. QED
      BY <3>1, <3>2
      DEF Next, ReadForAcknowledge, ReadForResolve, WriteAcknowledge, WriteResolve,
          Update, EndpointChanges, Throw, Crash, DeleteMonitor, NothingFails, vars
  <2>5. QED
    BY <2>1, <2>2, <2>3, <2>4
<1>3. QED
  BY <1>1, <1>2 DEF Announced

LEMMA NextAnnounced ==
  ASSUME NothingFails, AnnouncedInv, [Next]_vars
  PROVE  AnnouncedInv'
<1>1. MailInv'
  BY NextMail DEF AnnouncedInv
<1>2. monitors' = Monitors
  BY DEF AnnouncedInv, NothingFails, Next, BeginPoll, StartPoll, PollStep,
         ReadForAcknowledge, ReadForResolve, WriteAcknowledge, WriteResolve, Update,
         EndpointChanges, Throw, Crash, DeleteMonitor, vars, outside
<1>3. ASSUME NEW i \in DOMAIN incidents', incidents'[i].severity = "CRITICAL"
      PROVE  Announced(i)'
  <2>1. CASE i \in DOMAIN incidents
    <3>1. incidents[i].severity = "CRITICAL"
      BY <1>3, <2>1, StepRows DEF AnnouncedInv, RowsFollow
    <3>2. Announced(i)
      BY <2>1, <3>1 DEF AnnouncedInv, CriticalIsAnnounced, Announced, Notifying
    <3>3. QED
      BY <3>2, AnnouncedStays DEF AnnouncedInv
  <2>2. CASE i \notin DOMAIN incidents
    <3>1. PICK p \in Polls : i = nextId /\ (OpenOutage(p) \/ OpenSchemaChange(p))
      BY <2>2, StepRows DEF AnnouncedInv, RowsInserted
    <3>2. GoToWith(p, "readingOwner", i)
      <4>1. CASE OpenOutage(p)
        BY <3>1, <4>1 DEF OpenOutage
      <4>2. CASE OpenSchemaChange(p)
        <5>1. incidents'[nextId].severity = Severity(poll[p].previous, poll[p].response)
          BY <4>2 DEF OpenSchemaChange, CreateIncident, AddRow
        <5>2. QED
          BY <1>3, <3>1, <4>2, <5>1 DEF OpenSchemaChange
      <4>3. QED
        BY <3>1, <4>1, <4>2
    <3>3. poll \in [Polls -> Call]
      BY DEF AnnouncedInv, MailInv, TypeInv, TypeOK
    <3>4. poll'[p].stage = "readingOwner" /\ poll'[p].incident = i
      BY <3>2, <3>3 DEF GoToWith, Call
    <3>5. QED
      BY <3>4 DEF Announced, Notifying
  <2>3. QED
    BY <2>1, <2>2
<1>4. CriticalIsAnnounced'
  BY <1>3 DEF CriticalIsAnnounced, Announced, Notifying
<1>5. QED
  BY <1>1, <1>2, <1>4 DEF AnnouncedInv

\* With a working database and mail server every CRITICAL incident was mailed
\* or is about to be (notifyIfCritical), however polls overlap and whatever
\* users do to it meanwhile: the call that opens one goes on to the mail.
THEOREM CriticalsAreAnnounced ==
  ASSUME NothingFails
  PROVE  Spec => []CriticalIsAnnounced
<1>1. Init /\ MailInv => AnnouncedInv
  BY DEF Init, AnnouncedInv, CriticalIsAnnounced
<1>2. AnnouncedInv /\ [Next]_vars => AnnouncedInv'
  BY NextAnnounced
<1>3. AnnouncedInv => CriticalIsAnnounced
  BY DEF AnnouncedInv
<1>4. QED
  BY <1>1, <1>2, <1>3, MailInvariant, PTL DEF Spec

-----------------------------------------------------------------------------
(* How many duplicates there can be.                                       *)

\* The incidents that are open and never were resolved.
Unresolved(m, t) == {i \in Open(m, t) : incidents[i].resolvedAt = None}

Openers(m, t) == {p \in Polls : poll[p].api = m /\ Opening(poll[p], t)}

\* These incidents and the calls about to add one are no more than there are
\* calls: when one found none, only calls were left to count.
Bounded(m, t) ==
  /\ IsFiniteSet(Unresolved(m, t))
  /\ Cardinality(Unresolved(m, t)) + Cardinality(Openers(m, t)) <= Cardinality(Polls)

\* What is resolved has its time, and keeps it when it is acknowledged.
Stamped ==
  \A i \in DOMAIN incidents :
    incidents[i].status = "RESOLVED" => incidents[i].resolvedAt # None

BoundInv ==
  /\ MailInv /\ Stamped
  /\ \A m \in Monitors, t \in {"OUTAGE", "SCHEMA_CHANGE"} : Bounded(m, t)

LEMMA FewerBounded ==
  ASSUME IsFiniteSet(Polls), NEW m, NEW t, Bounded(m, t),
         Unresolved(m, t)' \subseteq Unresolved(m, t),
         Openers(m, t)' \subseteq Openers(m, t)
  PROVE  Bounded(m, t)'
<1>1. IsFiniteSet(Openers(m, t))
  BY FS_Subset DEF Openers
<1>2. /\ IsFiniteSet(Unresolved(m, t)')
      /\ Cardinality(Unresolved(m, t)') <= Cardinality(Unresolved(m, t))
      /\ Cardinality(Openers(m, t)') <= Cardinality(Openers(m, t))
      /\ IsFiniteSet(Openers(m, t)')
  BY <1>1, FS_Subset DEF Bounded
<1>3. /\ Cardinality(Unresolved(m, t)) \in Nat /\ Cardinality(Unresolved(m, t)') \in Nat
      /\ Cardinality(Openers(m, t)) \in Nat /\ Cardinality(Openers(m, t)') \in Nat
      /\ Cardinality(Polls) \in Nat
  BY <1>1, <1>2, FS_CardinalityType DEF Bounded
<1>4. QED
  BY <1>2, <1>3 DEF Bounded

LEMMA NoneBounded ==
  ASSUME IsFiniteSet(Polls), NEW m, NEW t, Unresolved(m, t)' = {}
  PROVE  Bounded(m, t)'
<1>1. /\ IsFiniteSet(Openers(m, t)')
      /\ Cardinality(Openers(m, t)') <= Cardinality(Polls)
  BY FS_Subset DEF Openers
<1>2. Cardinality(Openers(m, t)') \in Nat /\ Cardinality(Polls) \in Nat
  BY <1>1, FS_CardinalityType
<1>3. IsFiniteSet(Unresolved(m, t)') /\ Cardinality(Unresolved(m, t)') = 0
  BY FS_EmptySet
<1>4. QED
  BY <1>1, <1>2, <1>3 DEF Bounded

LEMMA OneMoreBounded ==
  ASSUME IsFiniteSet(Polls), NEW m, NEW t, NEW i, NEW p, Bounded(m, t),
         p \in Openers(m, t),
         Openers(m, t)' \subseteq Openers(m, t) \ {p},
         Unresolved(m, t)' \subseteq Unresolved(m, t) \cup {i}
  PROVE  Bounded(m, t)'
<1>1. IsFiniteSet(Openers(m, t))
  BY FS_Subset DEF Openers
<1>2. /\ IsFiniteSet(Openers(m, t) \ {p})
      /\ Cardinality(Openers(m, t) \ {p}) = Cardinality(Openers(m, t)) - 1
      /\ IsFiniteSet(Unresolved(m, t) \cup {i})
      /\ \/ Cardinality(Unresolved(m, t) \cup {i}) = Cardinality(Unresolved(m, t)) + 1
         \/ Cardinality(Unresolved(m, t) \cup {i}) = Cardinality(Unresolved(m, t))
  BY <1>1, FS_RemoveElement, FS_AddElement DEF Bounded
<1>3. /\ IsFiniteSet(Unresolved(m, t)')
      /\ Cardinality(Unresolved(m, t)') <= Cardinality(Unresolved(m, t) \cup {i})
      /\ IsFiniteSet(Openers(m, t)')
      /\ Cardinality(Openers(m, t)') <= Cardinality(Openers(m, t) \ {p})
  BY <1>2, FS_Subset
<1>4. /\ Cardinality(Unresolved(m, t)) \in Nat /\ Cardinality(Unresolved(m, t)') \in Nat
      /\ Cardinality(Openers(m, t)) \in Nat /\ Cardinality(Openers(m, t)') \in Nat
      /\ Cardinality(Polls) \in Nat
  BY <1>1, <1>3, FS_CardinalityType DEF Bounded
<1>5. QED
  BY <1>2, <1>3, <1>4 DEF Bounded

LEMMA NextStamped ==
  ASSUME MailInv, MailInv', Stamped, [Next]_vars
  PROVE  Stamped'
<1> SUFFICES ASSUME NEW i \in DOMAIN incidents', incidents'[i].status = "RESOLVED"
             PROVE  incidents'[i].resolvedAt # None
  BY DEF Stamped
<1>1. CASE i \in DOMAIN incidents
  <2>1. Len(snapshots[incidents[i].api]) \in Nat
    BY <1>1 DEF MailInv, TypeInv, TypeOK, Incident
  <2>2. RowsFollow
    BY StepRows
  <2>3. QED
    BY <1>1, <2>1, <2>2, SchemasAssumption DEF RowsFollow, Stamped
<1>2. CASE i \notin DOMAIN incidents
  <2>1. PICK p \in Polls : i = nextId /\ (OpenOutage(p) \/ OpenSchemaChange(p))
    BY <1>2, StepRows DEF RowsInserted
  <2>2. incidents'[i].status = "OPEN"
    BY <2>1 DEF OpenOutage, OpenSchemaChange, CreateIncident, AddRow
  <2>3. QED
    BY <2>2
<1>3. QED
  BY <1>1, <1>2

LEMMA NextBounded ==
  ASSUME IsFiniteSet(Polls), BoundInv, [Next]_vars
  PROVE  BoundInv'
<1>0. /\ MailInv' /\ Stamped'
      /\ poll \in [Polls -> Call]
      /\ nextId \notin DOMAIN incidents
  <2>1. nextId \in Nat /\ \A i \in DOMAIN incidents : i < nextId
    BY DEF BoundInv, MailInv, TypeInv, TypeOK, IdsOK
  <2>2. TypeInv
    BY DEF BoundInv, MailInv
  <2>3. QED
    BY <2>1, <2>2, NextMail, NextStamped DEF BoundInv, TypeInv, TypeOK
<1>1. SUFFICES ASSUME NEW m \in Monitors, NEW t \in {"OUTAGE", "SCHEMA_CHANGE"}
               PROVE  Bounded(m, t)'
  BY <1>0 DEF BoundInv
<1>2. Bounded(m, t)
  BY DEF BoundInv
<1>3. RowsCalm => Unresolved(m, t)' \subseteq Unresolved(m, t)
  <2>1. SUFFICES ASSUME RowsCalm, NEW i \in Unresolved(m, t)'
                 PROVE  i \in Unresolved(m, t)
    OBVIOUS
  <2>2. /\ i \in DOMAIN incidents /\ i \in DOMAIN incidents'
        /\ incidents[i].api = m /\ incidents[i].type = t
        /\ incidents'[i].status \in OPEN_STATUSES /\ incidents'[i].resolvedAt = None
    BY <2>1 DEF RowsCalm, Unresolved, Open
  <2>3. /\ incidents[i].status \in {"OPEN", "ACKNOWLEDGED", "RESOLVED"}
        /\ Len(snapshots[incidents[i].api]) \in Nat
    BY <2>2 DEF BoundInv, MailInv, TypeInv, TypeOK, Incident
  <2>4. RowsFollow
    BY StepRows DEF BoundInv
  <2>5. QED
    BY <2>2, <2>3, <2>4 DEF RowsFollow, BoundInv, Stamped, Unresolved, Open, OPEN_STATUSES
<1>4. CallsCalm => Openers(m, t)' \subseteq Openers(m, t)
  BY DEF CallsCalm, Openers, Opening
<1>5. CASE RowsCalm /\ CallsCalm
  BY <1>2, <1>3, <1>4, <1>5, FewerBounded
<1>6. ASSUME NEW p \in Polls, NEW x \in Monitors, BeginPoll(p, x)
      PROVE  Bounded(m, t)'
  <2>1. /\ incidents' = incidents
        /\ poll'[p].stage = "probing"
        /\ \A q \in Polls \ {p} : poll'[q] = poll[q]
    BY <1>0, <1>6 DEF BeginPoll, StartPoll, Call, written
  <2>2. Unresolved(m, t)' = Unresolved(m, t) /\ Openers(m, t)' \subseteq Openers(m, t)
    BY <2>1 DEF Unresolved, Open, Openers, Opening
  <2>3. QED
    BY <1>2, <2>2, FewerBounded
<1>7. ASSUME NEW p \in Polls, NEW u \in {"OUTAGE", "SCHEMA_CHANGE"},
             FindsNone(p, u)
      PROVE  Bounded(m, t)'
  <2>1. PICK stage \in Stages :
          /\ GoTo(p, stage)
          /\ \A v \in {"OUTAGE", "SCHEMA_CHANGE"} :
               Opening([poll[p] EXCEPT !.stage = stage], v) => v = u
    BY <1>7 DEF FindsNone
  <2>2. /\ poll'[p] = [poll[p] EXCEPT !.stage = stage]
        /\ poll'[p].api = poll[p].api
        /\ \A q \in Polls \ {p} : poll'[q] = poll[q]
    <3>1. poll' = [poll EXCEPT ![p] = [poll[p] EXCEPT !.stage = stage]]
      BY <2>1 DEF GoTo
    <3>2. poll[p] \in Call
      BY <1>0
    <3>3. [poll[p] EXCEPT !.stage = stage].api = poll[p].api
      BY <3>2 DEF Call
    <3>4. QED
      BY <1>0, <3>1, <3>3
  <2>3. Unresolved(m, t)' = Unresolved(m, t)
    BY <1>7 DEF FindsNone, Unresolved, Open
  <2>4. CASE poll[p].api = m /\ t = u
    BY <1>7, <2>3, <2>4, NoneBounded DEF FindsNone, Unresolved
  <2>5. CASE ~ (poll[p].api = m /\ t = u)
    <3>1. p \notin Openers(m, t)'
      BY <2>1, <2>2, <2>5 DEF Openers
    <3>2. Openers(m, t)' \subseteq Openers(m, t)
      BY <2>2, <3>1 DEF Openers
    <3>3. QED
      BY <1>2, <2>3, <3>2, FewerBounded
  <2>6. QED
    BY <2>4, <2>5
<1>8. ASSUME NEW p \in Polls, NEW u \in {"OUTAGE", "SCHEMA_CHANGE"}, Opens(p, u)
      PROVE  Bounded(m, t)'
  <2>1. /\ DOMAIN incidents' = DOMAIN incidents \cup {nextId}
        /\ incidents'[nextId].api = poll[p].api
        /\ incidents'[nextId].type = u
        /\ \A i \in DOMAIN incidents : incidents'[i] = incidents[i]
    BY <1>0, <1>8 DEF Opens, CreateIncident, AddRow
  <2>2. Openers(m, t)' \subseteq Openers(m, t)
    BY <1>4, <1>8 DEF Opens
  <2>3. CASE poll[p].api = m /\ t = u
    <3>1. Unresolved(m, t)' \subseteq Unresolved(m, t) \cup {nextId}
      BY <2>1 DEF Unresolved, Open
    <3>2. p \in Openers(m, t) /\ p \notin Openers(m, t)'
      BY <1>8, <2>3 DEF Opens, Openers
    <3>3. QED
      BY <1>2, <2>2, <3>1, <3>2, OneMoreBounded
  <2>4. CASE ~ (poll[p].api = m /\ t = u)
    <3>1. Unresolved(m, t)' \subseteq Unresolved(m, t)
      BY <2>1, <2>4 DEF Unresolved, Open
    <3>2. QED
      BY <1>2, <2>2, <3>1, FewerBounded
  <2>5. QED
    BY <2>3, <2>4
<1>9. QED
  BY <1>5, <1>6, <1>7, <1>8, NextKinds DEF BoundInv

\* However polls of a monitor overlap, fail and restart, it never has more open
\* incidents of one kind than polls were in progress, but for those that a late
\* acknowledgement opened again: as long as one is open every search finds it
\* (handleOutageIncident, handleSchemaChangeIncident).
THEOREM DuplicatesAreBounded ==
  ASSUME IsFiniteSet(Polls)
  PROVE  Spec => []OpenBounded
<1>1. Init /\ MailInv => BoundInv
  <2> SUFFICES ASSUME Init, MailInv,
                      NEW m \in Monitors, NEW t \in {"OUTAGE", "SCHEMA_CHANGE"}
               PROVE  Bounded(m, t)
    BY DEF BoundInv, Stamped, Init
  <2>1. Unresolved(m, t) = {} /\ Openers(m, t) = {}
    BY DEF Init, Unresolved, Open, Openers, Opening, IdlePoll
  <2>2. Cardinality(Polls) \in Nat
    BY FS_CardinalityType
  <2>3. QED
    BY <2>1, <2>2, FS_EmptySet DEF Bounded
<1>2. BoundInv /\ [Next]_vars => BoundInv'
  BY NextBounded
<1>3. BoundInv => OpenBounded
  <2> SUFFICES ASSUME BoundInv,
                      NEW m \in Monitors, NEW t \in {"OUTAGE", "SCHEMA_CHANGE"}
               PROVE  Cardinality(Unresolved(m, t)) <= Cardinality(Polls)
    BY DEF OpenBounded, Unresolved
  <2>1. Bounded(m, t)
    BY DEF BoundInv
  <2>2. IsFiniteSet(Openers(m, t))
    BY FS_Subset DEF Openers
  <2>3. /\ Cardinality(Unresolved(m, t)) \in Nat /\ Cardinality(Openers(m, t)) \in Nat
        /\ Cardinality(Polls) \in Nat
    BY <2>1, <2>2, FS_CardinalityType DEF Bounded
  <2>4. QED
    BY <2>1, <2>3 DEF Bounded
<1>4. QED
  BY <1>1, <1>2, <1>3, MailInvariant, PTL DEF Spec

-----------------------------------------------------------------------------
(* What a call knows, and what is known of a monitor nobody polls.         *)

Outcome(response) == IF response = "down" THEN "fail" ELSE "ok"

\* Stages of a call that has done with the outage of its monitor.
Settled == SchemaStages \cup Notifying

AfterCheck ==
  {"findingOutage", "openingOutage", "resolvingOutage"} \cup Settled

\* A call c of a monitor whose latest check and open outages are these.
CallTracks(c, check, open) ==
  /\ c.stage \in AfterCheck => check = Outcome(c.response)
  /\ c.stage = "openingOutage" => c.response = "down"
  /\ c.stage = "resolvingOutage" => c.response # "down" /\ c.incident \in open
  /\ c.stage \in Settled => (open # {} <=> c.response = "down")

MonitorTracks(m) ==
  undisturbed[m] /\ m \in monitors =>
    /\ InProgress(m) = {} => (Open(m, "OUTAGE") # {} <=> lastCheck[m] = "fail")
    /\ \A p \in InProgress(m) :
         CallTracks(poll[p], lastCheck[m], Open(m, "OUTAGE"))

\* A call resolves an outage of its own monitor.
ResolvesOwn ==
  \A p \in Polls :
    poll[p].stage = "resolvingOutage" /\ poll[p].incident \in DOMAIN incidents =>
      /\ incidents[poll[p].incident].api = poll[p].api
      /\ incidents[poll[p].incident].type = "OUTAGE"

TrackInv ==
  /\ SerialInv
  /\ NoneAcknowledged
  /\ ResolvesOwn
  /\ \A m \in Monitors : MonitorTracks(m)

-----------------------------------------------------------------------------
(* A step concerns one monitor.                                            *)

Untouched(m) ==
  /\ undisturbed'[m] => undisturbed[m]
  /\ m \in monitors' => m \in monitors
  /\ lastCheck'[m] = lastCheck[m]
  /\ Open(m, "OUTAGE")' = Open(m, "OUTAGE")
  /\ InProgress(m)' = InProgress(m)
  /\ \A p \in InProgress(m) : poll'[p] = poll[p]

LEMMA UntouchedTracks ==
  ASSUME NEW m, MonitorTracks(m), Untouched(m)
  PROVE  MonitorTracks(m)'
BY DEF MonitorTracks, Untouched

\* Rows there already keep their monitor and their kind.
RowsStay ==
  \A i \in DOMAIN incidents' :
    i < nextId => /\ i \in DOMAIN incidents
                  /\ incidents'[i].api = incidents[i].api
                  /\ incidents'[i].type = incidents[i].type

LEMMA StayResolvesOwn ==
  ASSUME TrackInv, RowsStay,
         \A p \in Polls : poll'[p].stage = "resolvingOutage" =>
           /\ poll'[p].api = poll[p].api
           /\ \/ poll[p].stage = "resolvingOutage" /\ poll'[p].incident = poll[p].incident
              \/ poll'[p].incident \in Open(poll[p].api, "OUTAGE")
  PROVE  ResolvesOwn'
<1>1. /\ \A p \in Polls : poll[p].incident < nextId
      /\ \A i \in DOMAIN incidents : i < nextId
  BY DEF TrackInv, SerialInv, MailInv, IdsOK
<1>2. SUFFICES ASSUME NEW p \in Polls, poll'[p].stage = "resolvingOutage",
                      poll'[p].incident \in DOMAIN incidents'
               PROVE  /\ incidents'[poll'[p].incident].api = poll'[p].api
                      /\ incidents'[poll'[p].incident].type = "OUTAGE"
  BY DEF ResolvesOwn
<1>3. CASE poll[p].stage = "resolvingOutage" /\ poll'[p].incident = poll[p].incident
  BY <1>1, <1>2, <1>3 DEF TrackInv, ResolvesOwn, RowsStay
<1>4. CASE poll'[p].incident \in Open(poll[p].api, "OUTAGE")
  BY <1>1, <1>2, <1>4 DEF RowsStay, Open
<1>5. QED
  BY <1>2, <1>3, <1>4

\* The moves of a call, and what they leave alone.
LEMMA GoToShape ==
  ASSUME TypeInv, NEW p \in Polls, NEW stage, GoTo(p, stage)
  PROVE  /\ \A q \in Polls \ {p} : poll'[q] = poll[q]
         /\ poll'[p].stage = stage /\ poll'[p].api = poll[p].api
         /\ poll'[p].response = poll[p].response
         /\ undisturbed' = undisturbed
<1>1. poll \in [Polls -> Call]
  BY DEF TypeInv, TypeOK
<1>2. QED
  BY <1>1 DEF GoTo, Call

LEMMA GoToWithShape ==
  ASSUME TypeInv, NEW p \in Polls, NEW stage, NEW i, GoToWith(p, stage, i)
  PROVE  /\ \A q \in Polls \ {p} : poll'[q] = poll[q]
         /\ poll'[p].stage = stage /\ poll'[p].api = poll[p].api
         /\ poll'[p].response = poll[p].response
         /\ poll'[p].incident = i
         /\ undisturbed' = undisturbed
<1>1. poll \in [Polls -> Call]
  BY DEF TypeInv, TypeOK
<1>2. poll[p] \in Call
  BY <1>1
<1>3. poll' = [poll EXCEPT ![p] = [poll[p] EXCEPT !.stage = stage, !.incident = i]]
  BY <1>1, <1>2 DEF GoToWith, Call
<1>4. poll'[p] = [poll[p] EXCEPT !.stage = stage, !.incident = i]
  BY <1>1, <1>3
<1>5. QED
  BY <1>1, <1>2, <1>3, <1>4 DEF GoToWith, Call

LEMMA EndShape ==
  ASSUME TypeInv, NEW p \in Polls, Return(p) \/ Reject(p)
  PROVE  /\ \A q \in Polls \ {p} : poll'[q] = poll[q]
         /\ poll'[p].stage = "idle"
         /\ \A m \in Monitors \ {poll[p].api} : undisturbed'[m] = undisturbed[m]
         /\ Return(p) => undisturbed' = undisturbed
         /\ Reject(p) /\ poll[p].api \in Monitors => ~ undisturbed'[poll[p].api]
BY DEF TypeInv, TypeOK, Return, Reject, IdlePoll

\* The poller of m is alone with it, before and after its step.
LEMMA Alone ==
  ASSUME SerialInv, NEW p \in Polls, NEW m, poll[p].stage # "idle",
         poll[p].api = m,
         \A q \in Polls \ {p} : poll'[q] = poll[q],
         poll'[p].stage # "idle" => poll'[p].api = m
  PROVE  /\ InProgress(m) = {p}
         /\ InProgress(m)' = IF poll'[p].stage = "idle" THEN {} ELSE {p}
         /\ \A x \in Monitors \ {m} :
              /\ InProgress(x)' = InProgress(x)
              /\ \A q \in InProgress(x) : poll'[q] = poll[q]
<1>1. \A q \in Polls \ {p} : poll[q].stage # "idle" => poll[q].api # m
  BY DEF SerialInv, OnePollPerMonitor
<1>2. InProgress(m) = {p}
  BY <1>1 DEF InProgress
<1>3. InProgress(m)' = IF poll'[p].stage = "idle" THEN {} ELSE {p}
  <2>1. \A q \in Polls : q \in InProgress(m)' => q = p /\ poll'[p].stage # "idle"
    BY <1>1 DEF InProgress
  <2>2. poll'[p].stage # "idle" => p \in InProgress(m)'
    BY DEF InProgress
  <2>3. InProgress(m)' \subseteq Polls
    BY DEF InProgress
  <2>4. QED
    BY <2>1, <2>2, <2>3
<1>4. ASSUME NEW x \in Monitors \ {m}
      PROVE  /\ InProgress(x)' = InProgress(x)
             /\ \A q \in InProgress(x) : poll'[q] = poll[q]
  <2>1. p \notin InProgress(x) /\ p \notin InProgress(x)'
    BY DEF InProgress
  <2>2. \A q \in Polls \ {p} : q \in InProgress(x)' <=> q \in InProgress(x)
    BY DEF InProgress
  <2>3. InProgress(x)' \subseteq Polls /\ InProgress(x) \subseteq Polls
    BY DEF InProgress
  <2>4. QED
    BY <2>1, <2>2, <2>3
<1>5. QED
  BY <1>2, <1>3, <1>4

\* A step of the poller of m that is right for m, and about m only.
LEMMA PollerTracks ==
  ASSUME TrackInv, SerialInv', NoneAcknowledged', RowsStay, NEW p \in Polls,
         NEW m \in Monitors, poll[p].stage # "idle", poll[p].api = m,
         \A q \in Polls \ {p} : poll'[q] = poll[q],
         poll'[p].stage # "idle" => poll'[p].api = m,
         poll'[p].stage = "resolvingOutage" =>
           poll'[p].incident \in Open(m, "OUTAGE"),
         UNCHANGED monitors,
         \A x \in Monitors \ {m} : /\ undisturbed'[x] = undisturbed[x]
                                   /\ lastCheck'[x] = lastCheck[x]
                                   /\ Open(x, "OUTAGE")' = Open(x, "OUTAGE"),
         undisturbed'[m] /\ m \in monitors =>
           IF poll'[p].stage = "idle"
           THEN Open(m, "OUTAGE")' # {} <=> lastCheck'[m] = "fail"
           ELSE CallTracks(poll'[p], lastCheck'[m], Open(m, "OUTAGE")')
  PROVE  TrackInv'
<1>1. SerialInv
  BY DEF TrackInv
<1>2. /\ InProgress(m)' = IF poll'[p].stage = "idle" THEN {} ELSE {p}
      /\ \A x \in Monitors \ {m} :
           /\ InProgress(x)' = InProgress(x)
           /\ \A q \in InProgress(x) : poll'[q] = poll[q]
  BY <1>1, Alone
<1>3. MonitorTracks(m)'
  BY <1>2 DEF MonitorTracks
<1>4. ASSUME NEW x \in Monitors \ {m} PROVE MonitorTracks(x)'
  <2>1. Untouched(x)
    BY <1>2 DEF Untouched
  <2>2. QED
    BY <2>1, UntouchedTracks DEF TrackInv
<1>5. ResolvesOwn'
  BY StayResolvesOwn
<1>6. QED
  BY <1>3, <1>4, <1>5 DEF TrackInv

LEMMA SameRows ==
  ASSUME UNCHANGED incidents
  PROVE  RowsStay /\ \A x \in Monitors : Open(x, "OUTAGE")' = Open(x, "OUTAGE")
BY DEF RowsStay, Open

LEMMA NewRow ==
  ASSUME SerialInv, NEW m, NEW t, NEW severity, CreateIncident(m, t, severity)
  PROVE  /\ RowsStay
         /\ \A x : x # m \/ t # "OUTAGE" => Open(x, "OUTAGE")' = Open(x, "OUTAGE")
         /\ t = "OUTAGE" => nextId \in Open(m, "OUTAGE")'
<1>1. nextId \notin DOMAIN incidents
  BY DEF SerialInv, MailInv, IdsOK, TypeInv, TypeOK
<1>2. /\ DOMAIN incidents' = DOMAIN incidents \cup {nextId}
      /\ incidents'[nextId] = [api |-> m, type |-> t, severity |-> severity,
                               status |-> "OPEN",
                               openedAt |-> Len(snapshots[m]), resolvedAt |-> None]
      /\ \A i \in DOMAIN incidents : incidents'[i] = incidents[i]
  BY <1>1 DEF CreateIncident, AddRow
<1>3. ~ (nextId < nextId)
  BY DEF SerialInv, MailInv, TypeInv, TypeOK
<1>4. RowsStay
  BY <1>2, <1>3 DEF RowsStay
<1>5. ASSUME NEW x, x # m \/ t # "OUTAGE"
      PROVE  Open(x, "OUTAGE")' = Open(x, "OUTAGE")
  BY <1>1, <1>2, <1>5 DEF Open
<1>6. t = "OUTAGE" => nextId \in Open(m, "OUTAGE")'
  BY <1>2 DEF Open, OPEN_STATUSES
<1>7. QED
  BY <1>4, <1>5, <1>6

LEMMA PollStepTracks ==
  ASSUME TrackInv, SerialInv', NoneAcknowledged', NEW p \in Polls, PollStep(p)
  PROVE  TrackInv'
<1>0. /\ TypeInv /\ SerialInv
      /\ poll \in [Polls -> Call] /\ CallOK(poll[p])
      /\ lastCheck \in [Monitors -> {"none", "ok", "fail"}]
      /\ nextId \in Nat
      /\ \A i \in DOMAIN incidents : incidents[i] \in Incident
      /\ 0 \notin DOMAIN incidents /\ DOMAIN incidents \subseteq Nat
  BY DEF TrackInv, SerialInv, MailInv, TypeInv, TypeOK
<1>1. poll[p].stage # "idle" /\ UNCHANGED monitors
  BY DEF PollStep, outside, Probe, SaveCheck, FindOutage, OpenOutage, ResolveOutage,
         ReadSnapshot, SaveSnapshot, FindSchemaChange, OpenSchemaChange, ReadOwner,
         Mail, Refused
<1>2. PICK m \in Monitors : poll[p].api = m
  BY <1>0, <1>1 DEF CallOK
<1>3. undisturbed[m] /\ m \in monitors =>
        CallTracks(poll[p], lastCheck[m], Open(m, "OUTAGE"))
  BY <1>1, <1>2 DEF TrackInv, MonitorTracks, InProgress
<1> USE DEF AfterCheck, Settled, SchemaStages, Notifying, Outcome
<1>4. CASE Probe(p)
  <2>1. /\ poll'[p].stage = "savingCheck" /\ poll'[p].api = m
        /\ \A q \in Polls \ {p} : poll'[q] = poll[q]
        /\ UNCHANGED <<incidents, lastCheck, undisturbed>>
    BY <1>0, <1>2, <1>4 DEF Probe, Call, written
  <2>2. CallTracks(poll'[p], lastCheck'[m], Open(m, "OUTAGE")')
    BY <2>1 DEF CallTracks
  <2>3. QED
    BY <1>1, <1>2, <2>1, <2>2, SameRows, PollerTracks
<1>5. CASE SaveCheck(p)
  <2>1. /\ GoTo(p, "findingOutage") /\ UNCHANGED incidents
        /\ lastCheck'[m] = Outcome(poll[p].response)
        /\ \A x \in Monitors \ {m} : lastCheck'[x] = lastCheck[x]
    BY <1>0, <1>2, <1>5 DEF SaveCheck
  <2>2. CallTracks(poll'[p], lastCheck'[m], Open(m, "OUTAGE")')
    BY <1>0, <2>1, GoToShape DEF CallTracks
  <2>3. QED
    BY <1>0, <1>1, <1>2, <2>1, <2>2, SameRows, GoToShape, PollerTracks
<1>6. CASE FindOutage(p)
  <2>1. UNCHANGED <<incidents, lastCheck>>
    BY <1>6 DEF FindOutage, written
  <2>2. PICK existing \in FindOpenIncident(m, "OUTAGE") :
          IF poll[p].response = "down" THEN OnFailure(p, existing)
                                      ELSE OnSuccess(p, existing)
    BY <1>2, <1>6 DEF FindOutage
  <2>3. /\ existing = 0 => Open(m, "OUTAGE") = {}
        /\ existing # 0 => existing \in Open(m, "OUTAGE")
    BY <1>0, <2>2 DEF FindOpenIncident, Open
  <2>4. Open(m, "OUTAGE")' = Open(m, "OUTAGE")
    BY <2>1, SameRows
  <2>5. undisturbed[m] /\ m \in monitors => lastCheck'[m] = Outcome(poll[p].response)
    BY <1>3, <1>6, <2>1 DEF CallTracks, FindOutage
  <2>6. CASE Return(p)
    <3>1. undisturbed[m] /\ m \in monitors =>
            (Open(m, "OUTAGE")' # {} <=> lastCheck'[m] = "fail")
      <4>1. \/ poll[p].response = "down" /\ existing # 0
            \/ poll[p].response # "down" /\ existing = 0
        BY <1>0, <1>6, <2>2, <2>6
        DEF OnFailure, OnSuccess, GoTo, GoToWith, Return, IdlePoll, Call, FindOutage
      <4>2. QED
        BY <2>3, <2>4, <2>5, <4>1
    <3>2. QED
      BY <1>0, <1>1, <1>2, <2>1, <2>6, <3>1, SameRows, EndShape, PollerTracks
  <2>7. CASE GoTo(p, "openingOutage") /\ poll[p].response = "down"
    <3>1. undisturbed[m] /\ m \in monitors =>
            CallTracks(poll'[p], lastCheck'[m], Open(m, "OUTAGE")')
      BY <1>0, <2>5, <2>7, GoToShape DEF CallTracks
    <3>2. QED
      BY <1>0, <1>1, <1>2, <2>1, <2>7, <3>1, SameRows, GoToShape, PollerTracks
  <2>8. CASE GoTo(p, "readingSnapshot") /\ poll[p].response # "down" /\ existing = 0
    <3>1. undisturbed[m] /\ m \in monitors =>
            CallTracks(poll'[p], lastCheck'[m], Open(m, "OUTAGE")')
      BY <1>0, <2>3, <2>4, <2>5, <2>8, GoToShape DEF CallTracks
    <3>2. QED
      BY <1>0, <1>1, <1>2, <2>1, <2>8, <3>1, SameRows, GoToShape, PollerTracks
  <2>9. CASE /\ GoToWith(p, "resolvingOutage", existing)
             /\ poll[p].response # "down" /\ existing # 0
    <3>1. undisturbed[m] /\ m \in monitors =>
            CallTracks(poll'[p], lastCheck'[m], Open(m, "OUTAGE")')
      BY <1>0, <2>3, <2>4, <2>5, <2>9, GoToWithShape DEF CallTracks
    <3>2. QED
      BY <1>0, <1>1, <1>2, <2>1, <2>3, <2>9, <3>1, SameRows, GoToWithShape,
         PollerTracks
  <2>10. QED
    BY <2>2, <2>6, <2>7, <2>8, <2>9 DEF OnFailure, OnSuccess, AfterOutage
<1>7. CASE OpenOutage(p)
  <2>1. /\ poll[p].stage = "openingOutage"
        /\ CreateIncident(m, "OUTAGE", "CRITICAL")
        /\ GoToWith(p, "readingOwner", nextId) /\ UNCHANGED lastCheck
    BY <1>2, <1>7 DEF OpenOutage
  <2>2. undisturbed[m] /\ m \in monitors =>
          CallTracks(poll'[p], lastCheck'[m], Open(m, "OUTAGE")')
    BY <1>0, <1>3, <2>1, GoToWithShape, NewRow DEF CallTracks
  <2>3. QED
    BY <1>0, <1>1, <1>2, <2>1, <2>2, GoToWithShape, NewRow, PollerTracks
<1>8. CASE ResolveOutage(p)
  <2> DEFINE i == poll[p].incident
  <2>1. /\ poll[p].stage = "resolvingOutage" /\ i \in DOMAIN incidents
        /\ incidents' = [incidents EXCEPT ![i] = Resolved(@)]
        /\ AfterOutage(p) /\ UNCHANGED lastCheck
    BY <1>8 DEF ResolveOutage
  <2>2. /\ incidents[i].api = m
        /\ Resolved(incidents[i]).api = incidents[i].api
        /\ Resolved(incidents[i]).type = incidents[i].type
        /\ Resolved(incidents[i]).status = "RESOLVED"
    BY <1>0, <1>2, <2>1 DEF TrackInv, ResolvesOwn, Resolved, Incident
  <2>3. /\ DOMAIN incidents' = DOMAIN incidents
        /\ incidents'[i] = Resolved(incidents[i])
        /\ \A j \in DOMAIN incidents \ {i} : incidents'[j] = incidents[j]
    BY <2>1
  <2>4. RowsStay
    BY <2>2, <2>3 DEF RowsStay
  <2>5. \A x \in Monitors \ {m} : Open(x, "OUTAGE")' = Open(x, "OUTAGE")
    <3> SUFFICES ASSUME NEW x \in Monitors \ {m}
                 PROVE  Open(x, "OUTAGE")' = Open(x, "OUTAGE")
      OBVIOUS
    <3>1. incidents'[i].api # x /\ incidents[i].api # x
      BY <2>2, <2>3
    <3>2. QED
      BY <2>3, <3>1 DEF Open
  <2>6. i \in Open(m, "OUTAGE") => Open(m, "OUTAGE")' = {}
    <3> SUFFICES ASSUME i \in Open(m, "OUTAGE"), NEW j \in Open(m, "OUTAGE")'
                 PROVE  FALSE
      OBVIOUS
    <3>1. j # i /\ j \in Open(m, "OUTAGE")
      BY <2>2, <2>3 DEF Open, OPEN_STATUSES
    <3>2. QED
      BY <3>1 DEF Open, OPEN_STATUSES, TrackInv, SerialInv, NoneAcknowledged,
                  AtMostOneUnacknowledged
  <2>7. undisturbed[m] /\ m \in monitors =>
          /\ Open(m, "OUTAGE")' = {}
          /\ poll[p].response # "down" /\ lastCheck'[m] = "ok"
    BY <1>3, <2>1, <2>6 DEF CallTracks
  <2>8. CASE Return(p)
    BY <1>0, <1>1, <1>2, <2>1, <2>4, <2>5, <2>7, <2>8, EndShape, PollerTracks
  <2>9. CASE GoTo(p, "readingSnapshot")
    <3>1. undisturbed[m] /\ m \in monitors =>
            CallTracks(poll'[p], lastCheck'[m], Open(m, "OUTAGE")')
      BY <1>0, <2>7, <2>9, GoToShape DEF CallTracks
    <3>2. QED
      BY <1>0, <1>1, <1>2, <2>1, <2>4, <2>5, <2>9, <3>1, GoToShape, PollerTracks
  <2>10. QED
    BY <2>1, <2>8, <2>9 DEF AfterOutage
<1>9. CASE Refused(p)
  BY <1>0, <1>1, <1>2, <1>9, SameRows, EndShape, PollerTracks DEF Refused, written
<1>10. ASSUME poll[p].stage \in Settled,
              \/ Return(p)
              \/ \E stage \in Settled : GoTo(p, stage)
              \/ GoToWith(p, "readingOwner", nextId)
              \/ /\ poll'[p].stage = "savingSnapshot" /\ poll'[p].api = m
                 /\ poll'[p].response = poll[p].response
                 /\ \A q \in Polls \ {p} : poll'[q] = poll[q]
                 /\ UNCHANGED undisturbed,
              RowsStay, \A x \in Monitors : Open(x, "OUTAGE")' = Open(x, "OUTAGE"),
              UNCHANGED lastCheck
       PROVE  TrackInv'
  <2>1. Open(m, "OUTAGE")' = Open(m, "OUTAGE") /\ lastCheck'[m] = lastCheck[m]
    BY <1>10
  <2>2. CASE Return(p)
    <3>1. undisturbed[m] /\ m \in monitors =>
            (Open(m, "OUTAGE")' # {} <=> lastCheck'[m] = "fail")
      BY <1>3, <1>10, <2>1 DEF CallTracks
    <3>2. QED
      BY <1>0, <1>1, <1>2, <1>10, <2>2, <3>1, EndShape, PollerTracks
  <2>3. CASE ~ Return(p)
    <3>1. /\ poll'[p].stage \in Settled /\ poll'[p].api = m
          /\ poll'[p].response = poll[p].response
          /\ \A q \in Polls \ {p} : poll'[q] = poll[q]
          /\ UNCHANGED undisturbed
      BY <1>0, <1>2, <1>10, <2>3, GoToShape, GoToWithShape
    <3>2. undisturbed[m] /\ m \in monitors =>
            CallTracks(poll'[p], lastCheck'[m], Open(m, "OUTAGE")')
      BY <1>3, <1>10, <2>1, <3>1 DEF CallTracks
    <3>3. QED
      BY <1>0, <1>1, <1>2, <1>10, <3>1, <3>2, PollerTracks
  <2>4. QED
    BY <2>2, <2>3
<1>11. CASE ReadSnapshot(p)
  <2>1. \/ Return(p)
        \/ /\ poll'[p].stage = "savingSnapshot" /\ poll'[p].api = m
           /\ poll'[p].response = poll[p].response
           /\ \A q \in Polls \ {p} : poll'[q] = poll[q]
           /\ UNCHANGED undisturbed
    BY <1>0, <1>2, <1>11 DEF ReadSnapshot, Call
  <2>2. QED
    BY <1>10, <1>11, <2>1, SameRows DEF ReadSnapshot, written
<1>12. CASE SaveSnapshot(p)
  BY <1>10, <1>12, SameRows DEF SaveSnapshot
<1>13. CASE FindSchemaChange(p)
  BY <1>10, <1>13, SameRows DEF FindSchemaChange, written
<1>14. CASE OpenSchemaChange(p)
  BY <1>0, <1>10, <1>14, NewRow DEF OpenSchemaChange
<1>15. CASE ReadOwner(p)
  BY <1>10, <1>15, SameRows DEF ReadOwner, written
<1>16. CASE Mail(p)
  BY <1>10, <1>16, SameRows DEF Mail
<1>17. QED
  BY <1>4, <1>5, <1>6, <1>7, <1>8, <1>9, <1>11, <1>12, <1>13, <1>14, <1>15, <1>16
  DEF PollStep

-----------------------------------------------------------------------------
(* Users and the environment.                                              *)

\* The write of a request disturbs the monitor of its incident, no other.
LEMMA UpdateTracks ==
  ASSUME TrackInv, SerialInv', NoneAcknowledged', NEW r \in Requests, NEW row,
         Update(r, row),
         request[r].incident \in DOMAIN incidents =>
           /\ row.api = incidents[request[r].incident].api
           /\ row.type = incidents[request[r].incident].type
  PROVE  TrackInv'
<1> DEFINE i == request[r].incident
<1>0. /\ undisturbed \in [Monitors -> BOOLEAN]
      /\ UNCHANGED <<monitors, lastCheck, poll>>
      /\ \A j \in DOMAIN incidents : incidents[j].api \in Monitors
  BY DEF TrackInv, SerialInv, MailInv, TypeInv, TypeOK, Incident, Update
<1>1. ASSUME NEW x \in Monitors PROVE MonitorTracks(x)'
  <2>1. CASE i \in DOMAIN incidents /\ incidents[i].api = x
    BY <1>0, <2>1 DEF Update, MonitorTracks
  <2>2. CASE ~ (i \in DOMAIN incidents /\ incidents[i].api = x)
    <3>1. undisturbed'[x] = undisturbed[x]
      BY <1>0, <2>2 DEF Update
    <3>2. Open(x, "OUTAGE")' = Open(x, "OUTAGE")
      BY <2>2 DEF Update, Open
    <3>3. Untouched(x)
      BY <1>0, <3>1, <3>2 DEF Untouched, InProgress
    <3>4. QED
      BY <3>3, UntouchedTracks DEF TrackInv
  <2>3. QED
    BY <2>1, <2>2
<1>2. RowsStay
  BY DEF Update, RowsStay
<1>3. ResolvesOwn'
  BY <1>0, <1>2, StayResolvesOwn
<1>4. QED
  BY <1>1, <1>3 DEF TrackInv

LEMMA NextTracks ==
  ASSUME ~ Overlap, "acknowledge" \notin Environment
  PROVE  TrackInv /\ [Next]_vars => TrackInv'
<1> SUFFICES ASSUME TrackInv, [Next]_vars PROVE TrackInv'
  OBVIOUS
<1>0. /\ TypeInv /\ SerialInv /\ SerialInv' /\ NoneAcknowledged'
      /\ poll \in [Polls -> Call] /\ undisturbed \in [Monitors -> BOOLEAN]
      /\ lastCheck \in [Monitors -> {"none", "ok", "fail"}]
      /\ \A i \in DOMAIN incidents : incidents[i] \in Incident
      /\ \A p \in Polls : poll[p].stage # "idle" => poll[p].api \in Monitors
  <2>1. TypeInv /\ SerialInv /\ NoneAcknowledged
    BY DEF TrackInv, SerialInv, MailInv
  <2>2. QED
    BY <2>1, NextSerial, NextNoneAcknowledged DEF TypeInv, TypeOK, CallOK
<1>1. ASSUME UNCHANGED <<monitors, lastCheck, incidents, poll, undisturbed>>
      PROVE  TrackInv'
  <2>1. \A x \in Monitors : Untouched(x)
    BY <1>1, SameRows DEF Untouched, InProgress
  <2>2. ResolvesOwn'
    BY <1>1, SameRows, StayResolvesOwn
  <2>3. QED
    BY <1>0, <2>1, <2>2, UntouchedTracks DEF TrackInv
<1>2. ASSUME NEW p \in Polls, NEW m \in Monitors, BeginPoll(p, m) PROVE TrackInv'
  <2>1. /\ poll[p].stage = "idle" /\ InProgress(m) = {}
        /\ poll'[p].stage = "probing" /\ poll'[p].api = m
        /\ \A q \in Polls \ {p} : poll'[q] = poll[q]
        /\ UNCHANGED <<incidents, lastCheck, monitors>>
        /\ \A x \in Monitors \ {m} : undisturbed'[x] = undisturbed[x]
    BY <1>0, <1>2 DEF BeginPoll, StartPoll, Call, written, outside
  <2>2. MonitorTracks(m)'
    <3>1. \A q \in Polls : q \in InProgress(m)' => q = p
      BY <2>1 DEF InProgress
    <3>2. p \in InProgress(m)'
      BY <2>1 DEF InProgress
    <3>3. CallTracks(poll'[p], lastCheck'[m], Open(m, "OUTAGE")')
      BY <2>1 DEF CallTracks, AfterCheck, Settled, SchemaStages, Notifying
    <3>4. InProgress(m)' \subseteq Polls
      BY DEF InProgress
    <3>5. QED
      BY <3>1, <3>2, <3>3, <3>4 DEF MonitorTracks
  <2>3. ASSUME NEW x \in Monitors \ {m} PROVE MonitorTracks(x)'
    <3>1. p \notin InProgress(x) /\ p \notin InProgress(x)'
      BY <2>1 DEF InProgress
    <3>2. InProgress(x)' = InProgress(x)
      BY <2>1, <3>1 DEF InProgress
    <3>3. \A q \in InProgress(x) : poll'[q] = poll[q]
      BY <2>1, <3>1 DEF InProgress
    <3>4. Untouched(x)
      BY <2>1, <3>2, <3>3, SameRows DEF Untouched
    <3>5. QED
      BY <3>4, UntouchedTracks DEF TrackInv
  <2>4. ResolvesOwn'
    BY <2>1, SameRows, StayResolvesOwn
  <2>5. QED
    BY <1>0, <2>2, <2>3, <2>4 DEF TrackInv
<1>3. ASSUME NEW p \in Polls, PollStep(p) PROVE TrackInv'
  BY <1>0, <1>3, PollStepTracks
<1>4. ASSUME NEW r \in Requests, NEW i \in DOMAIN incidents, ReadForResolve(r, i)
      PROVE  TrackInv'
  BY <1>1, <1>4 DEF ReadForResolve, written
<1>5. ASSUME NEW r \in Requests, WriteResolve(r) PROVE TrackInv'
  <2>1. request[r].incident \in DOMAIN incidents =>
          /\ Resolved(incidents[request[r].incident]).api
               = incidents[request[r].incident].api
          /\ Resolved(incidents[request[r].incident]).type
               = incidents[request[r].incident].type
    BY <1>0 DEF Resolved, Incident
  <2>2. QED
    BY <1>0, <1>5, <2>1, UpdateTracks DEF WriteResolve
<1>6. ASSUME NEW m \in Monitors, NEW answer \in Response, EndpointChanges(m, answer)
      PROVE  TrackInv'
  BY <1>1, <1>6 DEF EndpointChanges, written
<1>7. ASSUME NEW p \in Polls, Throw(p) PROVE TrackInv'
  <2>1. /\ poll[p].stage # "idle" /\ Reject(p)
        /\ UNCHANGED <<incidents, lastCheck, monitors>>
    BY <1>7 DEF Throw, DatabaseStages, written
  <2>2. PICK m \in Monitors : poll[p].api = m
    BY <1>0, <2>1
  <2>3. QED
    BY <1>0, <2>1, <2>2, SameRows, EndShape, PollerTracks
<1>8. CASE Crash
  <2>1. \A x \in Monitors : MonitorTracks(x)'
    BY <1>8 DEF Crash, MonitorTracks
  <2>2. ResolvesOwn'
    BY <1>8 DEF Crash, ResolvesOwn, IdlePoll
  <2>3. QED
    BY <1>0, <2>1, <2>2 DEF TrackInv
<1>9. ASSUME NEW m \in Monitors, DeleteMonitor(m) PROVE TrackInv'
  <2>1. /\ monitors' = monitors \ {m} /\ UNCHANGED <<poll, undisturbed>>
        /\ \A x \in Monitors \ {m} : lastCheck'[x] = lastCheck[x]
    BY <1>0, <1>9 DEF DeleteMonitor
  <2>2. RowsStay
    BY <1>9 DEF DeleteMonitor, RowsStay
  <2>3. ASSUME NEW x \in Monitors \ {m} PROVE MonitorTracks(x)'
    <3>1. Open(x, "OUTAGE")' = Open(x, "OUTAGE")
      BY <1>9 DEF DeleteMonitor, Open
    <3>2. Untouched(x)
      BY <2>1, <3>1 DEF Untouched, InProgress
    <3>3. QED
      BY <3>2, UntouchedTracks DEF TrackInv
  <2>4. MonitorTracks(m)'
    BY <2>1 DEF MonitorTracks
  <2>5. ResolvesOwn'
    BY <2>1, <2>2, StayResolvesOwn
  <2>6. QED
    BY <1>0, <2>3, <2>4, <2>5 DEF TrackInv
<1>10. CASE UNCHANGED vars
  BY <1>1, <1>10 DEF vars, written, outside
<1>11. ASSUME NEW r \in Requests, WriteAcknowledge(r) PROVE FALSE
  BY <1>11 DEF WriteAcknowledge, TrackInv, NoneAcknowledged
<1>12. QED
  BY <1>2, <1>3, <1>4, <1>5, <1>6, <1>7, <1>8, <1>9, <1>10, <1>11
  DEF Next, ReadForAcknowledge

\* The outage of a monitor follows its checks (handleOutageIncident): whenever
\* its latest poll ran to its end and no user wrote to its incidents since,
\* an outage is open exactly if that check failed.  What faults and restarts
\* left behind the next poll repairs.
THEOREM OutagesTrackChecks ==
  ASSUME ~ Overlap, "acknowledge" \notin Environment
  PROVE  Spec => []OutageTracksChecks
<1>1. Init /\ SerialInv /\ NoneAcknowledged => TrackInv
  BY DEF Init, TrackInv, ResolvesOwn, MonitorTracks, InProgress, IdlePoll, Open
<1>2. TrackInv => OutageTracksChecks
  <2> SUFFICES ASSUME TrackInv, NEW m \in monitors, undisturbed[m],
                      InProgress(m) = {}
               PROVE  Open(m, "OUTAGE") # {} <=> lastCheck[m] = "fail"
    BY DEF OutageTracksChecks
  <2>1. m \in Monitors
    BY DEF TrackInv, SerialInv, MailInv, TypeInv, TypeOK
  <2>2. QED
    BY <2>1 DEF TrackInv, MonitorTracks
<1>3. QED
  BY <1>1, <1>2, NextTracks, SerialInvariant, NoneAcknowledgedInvariant, PTL DEF Spec

-----------------------------------------------------------------------------
(* Breaking changes.                                                       *)

\* The n-th snapshot of m is one whose difference to its predecessor must page.
Breaks(m, n) == Verdict[<<snapshots[m][n - 1], snapshots[m][n]>>] \in Paging

HasIncident(m, n) == \E i \in DOMAIN incidents : OpenAtSnapshot(i, m, n)

Raising(c, m) == c.api = m /\ c.stage \in PagingStages

\* No incident was opened after the latest snapshot.
OpenedInTime ==
  \A i \in DOMAIN incidents :
    incidents[i].api \in monitors =>
      incidents[i].openedAt <= Len(snapshots[incidents[i].api])

\* Between the snapshot and the incident the call is on its way.
ChangesRaised ==
  \A m \in monitors : \A n \in 2 .. Len(snapshots[m]) :
    Breaks(m, n) =>
      \/ n \in lost[m]
      \/ HasIncident(m, n)
      \/ n = Len(snapshots[m]) /\ \E p \in Polls : Raising(poll[p], m)

RaisedInv == DifferInv /\ OpenedInTime /\ ChangesRaised

\* Rows go only with their monitor.
LEMMA RowsGoWithMonitor ==
  ASSUME MailInv, [Next]_vars, NEW i \in DOMAIN incidents,
         incidents[i].api \in monitors'
  PROVE  i \in DOMAIN incidents'
<1>1. ASSUME NEW m \in Monitors, DeleteMonitor(m) PROVE i \in DOMAIN incidents'
  BY <1>1 DEF DeleteMonitor
<1>2. ASSUME NEW p \in Polls, PollStep(p) PROVE i \in DOMAIN incidents'
  BY <1>2
  DEF PollStep, Probe, SaveCheck, FindOutage, OpenOutage, ResolveOutage,
      ReadSnapshot, SaveSnapshot, FindSchemaChange, OpenSchemaChange, ReadOwner,
      Mail, Refused, CreateIncident, AddRow, written
<1>3. ASSUME NEW r \in Requests, WriteAcknowledge(r) \/ WriteResolve(r)
      PROVE  i \in DOMAIN incidents'
  BY <1>3 DEF WriteAcknowledge, WriteResolve, Update
<1>4. CASE UNCHANGED incidents
  BY <1>4
<1>5. QED
  BY <1>1, <1>2, <1>3, <1>4
  DEF Next, BeginPoll, StartPoll, ReadForAcknowledge, ReadForResolve,
      EndpointChanges, Throw, Crash, vars, written

\* A history grows by the snapshot of a call, and goes with its monitor.
LEMMA HistoryStep ==
  ASSUME TypeInv, [Next]_vars, NEW m \in monitors'
  PROVE  /\ m \in monitors
         /\ \/ snapshots'[m] = snapshots[m]
            \/ \E p \in Polls : SaveSnapshot(p) /\ poll[p].api = m
<1>0. snapshots \in [Monitors -> Seq(Schemas)] /\ monitors \subseteq Monitors
  BY DEF TypeInv, TypeOK
<1>1. ASSUME NEW x \in Monitors, DeleteMonitor(x)
      PROVE  m \in monitors /\ snapshots'[m] = snapshots[m]
  BY <1>0, <1>1 DEF DeleteMonitor
<1>2. CASE UNCHANGED <<monitors, snapshots>>
  BY <1>2
<1>3. ASSUME NEW p \in Polls, PollStep(p)
      PROVE  /\ m \in monitors
             /\ \/ snapshots'[m] = snapshots[m]
                \/ SaveSnapshot(p) /\ poll[p].api = m
  <2>1. m \in monitors
    BY <1>3 DEF PollStep, outside
  <2>2. CASE SaveSnapshot(p)
    <3>1. poll[p].api # m => snapshots'[m] = snapshots[m]
      BY <1>0, <2>1, <2>2 DEF SaveSnapshot
    <3>2. QED
      BY <2>1, <2>2, <3>1
  <2>3. CASE UNCHANGED snapshots
    BY <2>1, <2>3
  <2>4. QED
    BY <1>3, <2>2, <2>3
    DEF PollStep, Probe, SaveCheck, FindOutage, OpenOutage, ResolveOutage,
        ReadSnapshot, FindSchemaChange, OpenSchemaChange, ReadOwner, Mail,
        Refused, written
<1>4. QED
  BY <1>1, <1>2, <1>3
  DEF Next, BeginPoll, StartPoll, ReadForAcknowledge, ReadForResolve,
      WriteAcknowledge, WriteResolve, Update, EndpointChanges, Throw, Crash,
      vars, written, outside

\* What a call stores is the next snapshot, and the earlier ones stay.
LEMMA SnapshotAppended ==
  ASSUME TypeInv, NEW p \in Polls, SaveSnapshot(p), NEW m, poll[p].api = m
  PROVE  /\ m \in monitors
         /\ poll[p].response \in Schemas
         /\ Len(snapshots[m]) \in Nat
         /\ Len(snapshots'[m]) = Len(snapshots[m]) + 1
         /\ \A k \in 1 .. Len(snapshots[m]) :
              /\ snapshots[m][k] \in Schemas
              /\ snapshots'[m][k] = snapshots[m][k]
         /\ snapshots'[m][Len(snapshots[m]) + 1] = poll[p].response
<1> DEFINE h == snapshots[m]
           s == poll[p].response
<1>1. /\ snapshots \in [Monitors -> Seq(Schemas)] /\ monitors \subseteq Monitors
      /\ CallOK(poll[p])
  BY DEF TypeInv, TypeOK
<1>2. m \in monitors /\ s \in Schemas /\ h \in Seq(Schemas)
  BY <1>1 DEF SaveSnapshot, CallOK, SchemaStages
<1>3. snapshots'[m] = Append(h, s)
  BY <1>1, <1>2 DEF SaveSnapshot
<1>4. /\ Len(h) \in Nat /\ Len(Append(h, s)) = Len(h) + 1
      /\ \A k \in 1 .. Len(h) : h[k] \in Schemas /\ Append(h, s)[k] = h[k]
      /\ Append(h, s)[Len(h) + 1] = s
  BY <1>2
<1>5. QED
  BY <1>2, <1>3, <1>4

\* Histories only grow while their monitor stays.
LEMMA HistoryKept ==
  ASSUME TypeInv, [Next]_vars, NEW m \in monitors'
  PROVE  /\ Len(snapshots[m]) \in Nat /\ Len(snapshots'[m]) \in Nat
         /\ Len(snapshots'[m]) \in {Len(snapshots[m]), Len(snapshots[m]) + 1}
         /\ \A k \in 1 .. Len(snapshots[m]) : snapshots'[m][k] = snapshots[m][k]
<1>1. m \in monitors /\ Len(snapshots[m]) \in Nat
  <2>1. m \in monitors
    BY HistoryStep
  <2>2. QED
    BY <2>1 DEF TypeInv, TypeOK
<1>2. CASE snapshots'[m] = snapshots[m]
  BY <1>1, <1>2
<1>3. ASSUME NEW p \in Polls, SaveSnapshot(p), poll[p].api = m
      PROVE  /\ Len(snapshots'[m]) = Len(snapshots[m]) + 1
             /\ \A k \in 1 .. Len(snapshots[m]) : snapshots'[m][k] = snapshots[m][k]
  BY <1>3, SnapshotAppended
<1>4. QED
  BY <1>1, <1>2, <1>3, HistoryStep

\* The history of what was lost forgets nothing.
LEMMA LostGrows ==
  ASSUME TypeInv, [Next]_vars, NEW m \in Monitors
  PROVE  lost[m] \subseteq lost'[m]
<1>1. ASSUME NEW calls, CutShort(calls) PROVE lost[m] \subseteq lost'[m]
  BY <1>1 DEF CutShort
<1>2. CASE UNCHANGED lost
  BY <1>2
<1>3. ASSUME NEW p \in Polls, PollStep(p) PROVE lost[m] \subseteq lost'[m]
  BY <1>1, <1>2, <1>3
  DEF PollStep, Probe, SaveCheck, FindOutage, OnFailure, OnSuccess, AfterOutage,
      OpenOutage, ResolveOutage, ReadSnapshot, SaveSnapshot, FindSchemaChange,
      OpenSchemaChange, ReadOwner, Mail, Refused, GoTo, GoToWith, Return, Reject
<1>4. QED
  BY <1>1, <1>2, <1>3
  DEF Next, BeginPoll, StartPoll, ReadForAcknowledge, ReadForResolve,
      WriteAcknowledge, WriteResolve, Update, EndpointChanges, Throw, Reject, Crash,
      DeleteMonitor, vars

\* An incident that was open at a snapshot will always have been.
LEMMA HasIncidentStays ==
  ASSUME MailInv, [Next]_vars, NEW m \in monitors',
         NEW n \in 2 .. Len(snapshots[m]), HasIncident(m, n)
  PROVE  HasIncident(m, n)'
<1>1. PICK i \in DOMAIN incidents : OpenAtSnapshot(i, m, n)
  BY DEF HasIncident
<1>2. incidents[i].api = m
  BY <1>1 DEF OpenAtSnapshot
<1>3. i \in DOMAIN incidents'
  BY <1>2, RowsGoWithMonitor
<1>4. RowsFollow /\ Len(snapshots[m]) \in Nat
  BY StepRows, HistoryKept DEF MailInv
<1>5. OpenAtSnapshot(i, m, n)'
  BY <1>1, <1>2, <1>3, <1>4 DEF RowsFollow, OpenAtSnapshot, OPEN_STATUSES
<1>6. QED
  BY <1>3, <1>5 DEF HasIncident

\* A call on its way to an incident goes on, finds one, opens one or is cut
\* short.
LEMMA RaisingEnds ==
  ASSUME MailInv, OpenedInTime, [Next]_vars,
         NEW m \in monitors', NEW p \in Polls, Raising(poll[p], m),
         NEW n, n = Len(snapshots[m])
  PROVE  \/ n \in lost'[m]
         \/ HasIncident(m, n)'
         \/ Raising(poll'[p], m)
<1>0. /\ poll \in [Polls -> Call] /\ CallOK(poll[p])
      /\ m \in monitors /\ m \in Monitors /\ n \in Nat
  <2>1. m \in monitors
    BY HistoryStep DEF MailInv
  <2>2. QED
    BY <2>1 DEF MailInv, TypeInv, TypeOK
<1>1. CASE FindSchemaChange(p)
  <2>1. CASE Open(m, "SCHEMA_CHANGE") = {}
    <3>1. GoTo(p, "openingSchemaChange")
      BY <1>1, <2>1 DEF FindSchemaChange, Raising
    <3>2. QED
      BY <1>0, <3>1 DEF GoTo, Call, Raising, PagingStages
  <2>2. CASE Open(m, "SCHEMA_CHANGE") # {}
    <3>1. PICK i \in Open(m, "SCHEMA_CHANGE") : TRUE
      BY <2>2
    <3>2. i \in DOMAIN incidents /\ OpenAtSnapshot(i, m, n)
      BY <1>0, <3>1 DEF Open, OpenAtSnapshot, OpenedInTime
    <3>3. incidents' = incidents
      BY <1>1 DEF FindSchemaChange, written
    <3>4. i \in DOMAIN incidents' /\ OpenAtSnapshot(i, m, n)'
      BY <1>1, <3>2, <3>3 DEF OpenAtSnapshot, FindSchemaChange, written
    <3>5. QED
      BY <3>4 DEF HasIncident
  <2>3. QED
    BY <2>1, <2>2
<1>2. CASE OpenSchemaChange(p)
  <2>0. PICK i : i = nextId
    OBVIOUS
  <2>1. /\ i \in DOMAIN incidents' /\ incidents'[i].api = m
        /\ incidents'[i].type = "SCHEMA_CHANGE"
        /\ incidents'[i].status = "OPEN"
        /\ incidents'[i].openedAt = n
    BY <1>2, <2>0 DEF OpenSchemaChange, CreateIncident, AddRow, Raising
  <2>2. OpenAtSnapshot(i, m, n)'
    BY <1>0, <2>1 DEF OpenAtSnapshot, OPEN_STATUSES
  <2>3. QED
    BY <2>1, <2>2 DEF HasIncident
<1>3. CASE CutShort({p}) \/ CutShort(Polls)
  BY <1>0, <1>3 DEF CutShort, Raising
<1>4. \/ poll'[p] = poll[p] \/ FindSchemaChange(p) \/ OpenSchemaChange(p)
      \/ CutShort({p}) \/ CutShort(Polls)
  <2>1. ASSUME NEW q \in Polls, NEW x \in Monitors, BeginPoll(q, x)
        PROVE  poll'[p] = poll[p]
    BY <1>0, <2>1 DEF BeginPoll, StartPoll, Raising, PagingStages
  <2>2. ASSUME NEW q \in Polls, PollStep(q)
        PROVE  \/ poll'[p] = poll[p] \/ FindSchemaChange(p) \/ OpenSchemaChange(p)
               \/ CutShort({p})
    <3>1. CASE q = p
      BY <2>2, <3>1
      DEF PollStep, Probe, SaveCheck, FindOutage, OpenOutage, ResolveOutage,
          ReadSnapshot, SaveSnapshot, ReadOwner, Mail, Refused, Reject, Raising,
          PagingStages
    <3>2. CASE q # p
      BY <1>0, <2>2, <3>2
      DEF PollStep, Probe, SaveCheck, FindOutage, OnFailure, OnSuccess, AfterOutage,
          OpenOutage, ResolveOutage, ReadSnapshot, SaveSnapshot, FindSchemaChange,
          OpenSchemaChange, ReadOwner, Mail, Refused, GoTo, GoToWith, Return, Reject
    <3>3. QED
      BY <3>1, <3>2
  <2>3. ASSUME NEW q \in Polls, Throw(q)
        PROVE  poll'[p] = poll[p] \/ CutShort({p})
    BY <1>0, <2>3 DEF Throw, Reject
  <2>4. QED
    BY <2>1, <2>2, <2>3
    DEF Next, ReadForAcknowledge, ReadForResolve, WriteAcknowledge, WriteResolve,
        Update, EndpointChanges, Crash, DeleteMonitor, vars
<1>5. QED
  BY <1>1, <1>2, <1>3, <1>4

\* The snapshot a call compared with is still the latest one, so that it goes
\* on to the incident when the pair its own snapshot makes must page.
LEMMA BreakIsSeen ==
  ASSUME DifferInv, NEW p \in Polls, SaveSnapshot(p), NEW m, poll[p].api = m,
         NEW n, n = Len(snapshots[m]), n # 0, Breaks(m, n + 1)'
  PROVE  Raising(poll'[p], m)
<1> DEFINE s == poll[p].response
<1>0. TypeInv /\ poll \in [Polls -> Call]
  BY DEF DifferInv, SerialInv, MailInv, TypeInv, TypeOK
<1>1. /\ m \in monitors /\ s \in Schemas /\ n \in Nat
      /\ n \in 1 .. n /\ snapshots[m][n] \in Schemas
      /\ snapshots'[m][n] = snapshots[m][n]
      /\ snapshots'[m][n + 1] = s
  BY <1>0, SnapshotAppended
<1>2. Verdict[<<snapshots[m][n], s>>] \in Paging
  <2>1. (n + 1) - 1 = n
    BY <1>1
  <2>2. Verdict[<<snapshots'[m][(n + 1) - 1], snapshots'[m][n + 1]>>] \in Paging
    BY DEF Breaks
  <2>3. QED
    BY <1>1, <2>1, <2>2
<1>3. poll[p].previous = snapshots[m][n]
  <2>1. snapshots[m] # <<>>
    OBVIOUS
  <2>2. QED
    BY <1>1, <2>1 DEF DifferInv, SavingOK, SaveSnapshot, Last
<1>4. Severity(poll[p].previous, s) \in Paging
  BY <1>1, <1>2, <1>3, SchemasAssumption DEF Severity, Response
<1>5. GoTo(p, "findingSchemaChange")
  BY <1>4 DEF SaveSnapshot
<1>6. QED
  BY <1>0, <1>5 DEF GoTo, Call, Raising, PagingStages

LEMMA NextOpenedInTime ==
  ASSUME MailInv, OpenedInTime, [Next]_vars
  PROVE  OpenedInTime'
<1> SUFFICES ASSUME NEW i \in DOMAIN incidents', incidents'[i].api \in monitors'
             PROVE  incidents'[i].openedAt <= Len(snapshots'[incidents'[i].api])
  BY DEF OpenedInTime
<1> DEFINE m == incidents'[i].api
<1>0. TypeInv
  BY DEF MailInv
<1>1. CASE i \in DOMAIN incidents
  <2>1. m = incidents[i].api /\ incidents'[i].openedAt = incidents[i].openedAt
    BY <1>1, StepRows DEF RowsFollow
  <2>2. m \in monitors /\ incidents[i].openedAt \in Nat
    BY <1>0, <1>1, <2>1, HistoryStep DEF TypeInv, TypeOK, Incident
  <2>3. incidents[i].openedAt <= Len(snapshots[m])
    BY <1>1, <2>1, <2>2 DEF OpenedInTime
  <2>4. /\ Len(snapshots[m]) \in Nat /\ Len(snapshots'[m]) \in Nat
        /\ Len(snapshots[m]) <= Len(snapshots'[m])
    BY <1>0, HistoryKept
  <2>5. QED
    BY <2>1, <2>2, <2>3, <2>4
<1>2. CASE i \notin DOMAIN incidents
  <2>1. PICK p \in Polls : i = nextId /\ (OpenOutage(p) \/ OpenSchemaChange(p))
    BY <1>2, StepRows DEF RowsInserted
  <2>2. /\ snapshots' = snapshots
        /\ incidents'[i].openedAt = Len(snapshots[m])
    BY <2>1 DEF OpenOutage, OpenSchemaChange, CreateIncident, AddRow
  <2>3. Len(snapshots[m]) \in Nat
    BY <1>0, HistoryKept
  <2>4. QED
    BY <2>2, <2>3
<1>3. QED
  BY <1>1, <1>2

LEMMA NextRaised ==
  ASSUME ~ Overlap, RaisedInv, [Next]_vars
  PROVE  RaisedInv'
<1>0. DifferInv /\ DifferInv' /\ MailInv /\ MailInv' /\ TypeInv /\ OnePollPerMonitor
  BY NextDiffers DEF RaisedInv, DifferInv, SerialInv, MailInv
<1>1. OpenedInTime /\ OpenedInTime'
  BY <1>0, NextOpenedInTime DEF RaisedInv
<1>2. ASSUME NEW m \in monitors', NEW n \in 2 .. Len(snapshots'[m]),
             Breaks(m, n)'
      PROVE  \/ n \in lost'[m]
             \/ HasIncident(m, n)'
             \/ n = Len(snapshots'[m]) /\ \E p \in Polls : Raising(poll'[p], m)
  <2>0. /\ m \in monitors /\ m \in Monitors
        /\ Len(snapshots[m]) \in Nat /\ Len(snapshots'[m]) \in Nat
        /\ Len(snapshots'[m]) \in {Len(snapshots[m]), Len(snapshots[m]) + 1}
        /\ \A k \in 1 .. Len(snapshots[m]) : snapshots'[m][k] = snapshots[m][k]
        /\ \/ snapshots'[m] = snapshots[m]
           \/ \E p \in Polls : SaveSnapshot(p) /\ poll[p].api = m
    <3>1. m \in monitors
      BY <1>0, HistoryStep
    <3>2. m \in Monitors
      BY <1>0, <3>1 DEF TypeInv, TypeOK
    <3>3. QED
      BY <1>0, <3>1, <3>2, HistoryStep, HistoryKept
  <2>1. CASE n <= Len(snapshots[m])
    <3>1. n \in 2 .. Len(snapshots[m])
      BY <2>0, <2>1
    <3>2. Breaks(m, n)
      <4>1. n \in 1 .. Len(snapshots[m]) /\ n - 1 \in 1 .. Len(snapshots[m])
        BY <2>0, <3>1
      <4>2. QED
        BY <1>2, <2>0, <4>1 DEF Breaks
    <3>3. CASE n \in lost[m]
      BY <2>0, <1>0, <3>3, LostGrows
    <3>4. CASE HasIncident(m, n)
      BY <1>0, <3>1, <3>4, HasIncidentStays
    <3>5. ASSUME n = Len(snapshots[m]), NEW p \in Polls, Raising(poll[p], m)
          PROVE  \/ n \in lost'[m]
                 \/ HasIncident(m, n)'
                 \/ n = Len(snapshots'[m]) /\ Raising(poll'[p], m)
      <4>1. snapshots'[m] = snapshots[m]
        <5>1. ~ \E q \in Polls : SaveSnapshot(q) /\ poll[q].api = m
          BY <1>0, <3>5
          DEF OnePollPerMonitor, SaveSnapshot, Raising, PagingStages
        <5>2. QED
          BY <2>0, <5>1
      <4>2. \/ n \in lost'[m] \/ HasIncident(m, n)' \/ Raising(poll'[p], m)
        BY <1>0, <1>1, <3>5, RaisingEnds
      <4>3. QED
        BY <3>5, <4>1, <4>2
    <3>6. QED
      BY <2>0, <3>1, <3>2, <3>3, <3>4, <3>5 DEF RaisedInv, ChangesRaised
  <2>2. CASE ~ (n <= Len(snapshots[m]))
    <3>1. /\ n = Len(snapshots[m]) + 1 /\ n = Len(snapshots'[m])
          /\ Len(snapshots[m]) # 0
      BY <2>0, <2>2
    <3>2. PICK p \in Polls : SaveSnapshot(p) /\ poll[p].api = m
      <4>1. snapshots'[m] # snapshots[m]
        BY <2>0, <3>1
      <4>2. QED
        BY <2>0, <4>1
    <3>3. PICK k \in Nat : k = Len(snapshots[m])
      BY <2>0
    <3>4. Raising(poll'[p], m)
      <4>1. n = k + 1 /\ k # 0
        BY <3>1, <3>3
      <4>2. Breaks(m, k + 1)'
        BY <1>2, <4>1
      <4>3. QED
        BY <1>0, <3>2, <3>3, <4>1, <4>2, BreakIsSeen
    <3>5. QED
      BY <3>1, <3>4
  <2>3. QED
    BY <2>1, <2>2
<1>3. ChangesRaised'
  BY <1>2 DEF ChangesRaised
<1>4. QED
  BY <1>0, <1>1, <1>3 DEF RaisedInv

\* captureSchemaSnapshot moves the baseline before it raises the incident, so a
\* change is seen once.  Yet every change that must page has an incident that
\* was open while its snapshot was the latest, unless the call that stored the
\* snapshot was cut short before it came to the incident, by a refused statement
\* or a restart: nothing else loses a change, whatever users do and wherever
\* monitors are deleted.
THEOREM BreakingChangesLeaveIncidents ==
  ASSUME ~ Overlap
  PROVE  Spec => []BreakingChangeLeavesIncident
<1>1. Init /\ SerialInv => RaisedInv
  <2> SUFFICES ASSUME Init, SerialInv PROVE RaisedInv
    OBVIOUS
  <2>1. DifferInv
    BY DEF Init, DifferInv, SavingOK, SnapshotsDiffer, IdlePoll
  <2>2. OpenedInTime
    BY DEF Init, OpenedInTime
  <2>3. ChangesRaised
    <3>1. \A m \in monitors : Len(snapshots[m]) = 0
      BY DEF Init
    <3>2. \A m \in monitors : 2 .. Len(snapshots[m]) = {}
      BY <3>1
    <3>3. QED
      BY <3>2 DEF ChangesRaised
  <2>4. QED
    BY <2>1, <2>2, <2>3 DEF RaisedInv
<1>2. RaisedInv /\ [Next]_vars => RaisedInv'
  BY NextRaised
<1>3. RaisedInv => BreakingChangeLeavesIncident
  <2> SUFFICES ASSUME RaisedInv, NEW m \in monitors,
                      NEW n \in 2 .. Len(snapshots[m]),
                      Verdict[<<snapshots[m][n - 1], snapshots[m][n]>>] \in Paging,
                      n \notin lost[m],
                      n < Len(snapshots[m]) \/ InProgress(m) = {}
               PROVE  \E i \in DOMAIN incidents : OpenAtSnapshot(i, m, n)
    BY DEF BreakingChangeLeavesIncident
  <2>1. Len(snapshots[m]) \in Nat
    BY DEF RaisedInv, DifferInv, SerialInv, MailInv, TypeInv, TypeOK
  <2>2. \/ HasIncident(m, n)
        \/ n = Len(snapshots[m]) /\ \E p \in Polls : Raising(poll[p], m)
    BY DEF RaisedInv, ChangesRaised, Breaks
  <2>3. ~ (n = Len(snapshots[m]) /\ \E p \in Polls : Raising(poll[p], m))
    BY <2>1 DEF Raising, PagingStages, InProgress
  <2>4. QED
    BY <2>2, <2>3 DEF HasIncident
<1>4. QED
  BY <1>1, <1>2, <1>3, SerialInvariant, PTL DEF Spec

-----------------------------------------------------------------------------
(* The pipeline keeps the promise of OutageAlarm.                          *)

\* The monitors with an open outage.
Alarmed == {m \in Monitors : Open(m, "OUTAGE") # {}}

Alarm == INSTANCE OutageAlarm
           WITH check <- lastCheck, alarm <- Alarmed,
                Dismissable <- "resolve" \in Environment

\* Stages between the check's row and the decision about its outage.
Judging == {"findingOutage", "openingOutage", "resolvingOutage"}

\* What a call acts on is still the latest check of its monitor.
CallKnows(c, check) ==
  /\ c.stage \in Judging => check = Outcome(c.response)
  /\ c.stage = "openingOutage" => c.response = "down"
  /\ c.stage = "resolvingOutage" => c.response # "down"

ChecksKnown ==
  \A p \in Polls :
    poll[p].api \in monitors => CallKnows(poll[p], lastCheck[poll[p].api])

RowsOwned == \A i \in DOMAIN incidents : incidents[i].api \in monitors

UsersResolve ==
  \A r \in Requests : request[r].stage = "resolving" => "resolve" \in Environment

AlarmInv == TrackInv /\ ChecksKnown /\ RowsOwned /\ UsersResolve

\* The poller's step: the others' monitors, and so what they know, stay.
LEMMA PollerKnows ==
  ASSUME SerialInv, ChecksKnown, NEW p \in Polls, poll[p].stage # "idle",
         \A q \in Polls \ {p} : poll'[q] = poll[q],
         UNCHANGED monitors,
         \A x \in Monitors \ {poll[p].api} : lastCheck'[x] = lastCheck[x],
         poll'[p].api \in monitors => CallKnows(poll'[p], lastCheck'[poll'[p].api])
  PROVE  ChecksKnown'
<1> SUFFICES ASSUME NEW q \in Polls, poll'[q].api \in monitors
             PROVE  CallKnows(poll'[q], lastCheck'[poll'[q].api])
  BY DEF ChecksKnown
<1>1. CASE q = p
  BY <1>1
<1>2. CASE q # p
  <2>1. poll'[q] = poll[q] /\ CallKnows(poll[q], lastCheck[poll[q].api])
    BY <1>2 DEF ChecksKnown
  <2>2. CASE poll[q].stage = "idle"
    BY <2>1, <2>2 DEF CallKnows, Judging
  <2>3. CASE poll[q].stage # "idle"
    <3>1. poll[q].api # poll[p].api
      BY <1>2, <2>3 DEF SerialInv, OnePollPerMonitor
    <3>2. poll[q].api \in Monitors
      BY <2>1 DEF SerialInv, MailInv, TypeInv, TypeOK
    <3>3. lastCheck'[poll[q].api] = lastCheck[poll[q].api]
      BY <3>1, <3>2
    <3>4. QED
      BY <2>1, <3>3
  <2>4. QED
    BY <2>2, <2>3
<1>3. QED
  BY <1>1, <1>2

LEMMA PollStepKnows ==
  ASSUME SerialInv, ChecksKnown, NEW p \in Polls, PollStep(p)
  PROVE  ChecksKnown'
<1>0. /\ TypeInv /\ poll \in [Polls -> Call]
      /\ lastCheck \in [Monitors -> {"none", "ok", "fail"}]
      /\ monitors \subseteq Monitors
  BY DEF SerialInv, MailInv, TypeInv, TypeOK
<1>1. poll[p].stage # "idle" /\ UNCHANGED monitors
  BY DEF PollStep, outside, Probe, SaveCheck, FindOutage, OpenOutage, ResolveOutage,
         ReadSnapshot, SaveSnapshot, FindSchemaChange, OpenSchemaChange, ReadOwner,
         Mail, Refused
<1>2. poll[p].api \in monitors => CallKnows(poll[p], lastCheck[poll[p].api])
  BY DEF ChecksKnown
<1> USE DEF Judging
<1>3. ASSUME poll'[p].stage \notin Judging, UNCHANGED lastCheck,
             \A q \in Polls \ {p} : poll'[q] = poll[q]
      PROVE  ChecksKnown'
  <2>1. CallKnows(poll'[p], lastCheck'[poll'[p].api])
    BY <1>3 DEF CallKnows
  <2>2. QED
    BY <1>1, <1>3, <2>1, PollerKnows
<1>4. ASSUME Return(p) \/ Reject(p), UNCHANGED lastCheck PROVE ChecksKnown'
  BY <1>0, <1>3, <1>4, EndShape
<1>5. ASSUME NEW stage \in Stages \ Judging, GoTo(p, stage), UNCHANGED lastCheck
      PROVE  ChecksKnown'
  BY <1>0, <1>3, <1>5, GoToShape
<1>6. ASSUME NEW stage \in Stages \ Judging, NEW i, GoToWith(p, stage, i),
             UNCHANGED lastCheck
      PROVE  ChecksKnown'
  BY <1>0, <1>3, <1>6, GoToWithShape
<1> USE DEF Stages, DatabaseStages
<1>7. CASE Probe(p)
  <2>1. /\ poll'[p].stage = "savingCheck" /\ UNCHANGED lastCheck
        /\ \A q \in Polls \ {p} : poll'[q] = poll[q]
    BY <1>0, <1>7 DEF Probe, Call, written
  <2>2. QED
    BY <1>3, <2>1
<1>8. CASE SaveCheck(p)
  <2> DEFINE m == poll[p].api
  <2>1. /\ GoTo(p, "findingOutage") /\ m \in monitors
        /\ lastCheck'[m] = Outcome(poll[p].response)
        /\ \A x \in Monitors \ {m} : lastCheck'[x] = lastCheck[x]
    BY <1>0, <1>8 DEF SaveCheck, Outcome
  <2>2. /\ poll'[p].stage = "findingOutage" /\ poll'[p].api = m
        /\ poll'[p].response = poll[p].response
        /\ \A q \in Polls \ {p} : poll'[q] = poll[q]
    BY <1>0, <2>1, GoToShape
  <2>3. CallKnows(poll'[p], lastCheck'[poll'[p].api])
    BY <2>1, <2>2 DEF CallKnows
  <2>4. QED
    BY <1>1, <2>1, <2>2, <2>3, PollerKnows
<1>9. CASE FindOutage(p)
  <2>1. poll[p].stage = "findingOutage" /\ UNCHANGED lastCheck
    BY <1>9 DEF FindOutage, written
  <2>2. ASSUME NEW stage,
               \/ stage = "openingOutage" /\ poll[p].response = "down"
               \/ stage = "resolvingOutage" /\ poll[p].response # "down",
               poll'[p].stage = stage, poll'[p].api = poll[p].api,
               poll'[p].response = poll[p].response,
               \A q \in Polls \ {p} : poll'[q] = poll[q]
        PROVE  ChecksKnown'
    <3>1. poll'[p].api \in monitors => CallKnows(poll'[p], lastCheck'[poll'[p].api])
      BY <1>2, <2>1, <2>2 DEF CallKnows
    <3>2. QED
      BY <1>1, <2>1, <2>2, <3>1, PollerKnows
  <2>3. PICK existing :
          IF poll[p].response = "down" THEN OnFailure(p, existing)
                                      ELSE OnSuccess(p, existing)
    BY <1>9 DEF FindOutage
  <2>4. CASE GoTo(p, "openingOutage") /\ poll[p].response = "down"
    BY <1>0, <2>2, <2>4, GoToShape
  <2>5. CASE /\ GoToWith(p, "resolvingOutage", existing)
             /\ poll[p].response # "down"
    BY <1>0, <2>2, <2>5, GoToWithShape
  <2>6. CASE GoTo(p, "readingSnapshot") \/ Return(p)
    BY <1>4, <1>5, <2>1, <2>6
  <2>7. QED
    BY <2>3, <2>4, <2>5, <2>6 DEF OnFailure, OnSuccess, AfterOutage
<1>10. CASE OpenOutage(p)
  BY <1>6, <1>10 DEF OpenOutage
<1>11. CASE ResolveOutage(p)
  BY <1>4, <1>5, <1>11 DEF ResolveOutage, AfterOutage
<1>12. CASE ReadSnapshot(p)
  <2>1. UNCHANGED lastCheck
    BY <1>12 DEF ReadSnapshot, written
  <2>2. CASE Return(p)
    BY <1>4, <2>1, <2>2
  <2>3. CASE ~ Return(p)
    <3>1. /\ poll'[p].stage = "savingSnapshot"
          /\ \A q \in Polls \ {p} : poll'[q] = poll[q]
      BY <1>0, <1>12, <2>3 DEF ReadSnapshot, Call
    <3>2. QED
      BY <1>3, <2>1, <3>1
  <2>4. QED
    BY <2>2, <2>3
<1>13. CASE SaveSnapshot(p)
  BY <1>4, <1>5, <1>13 DEF SaveSnapshot
<1>14. CASE FindSchemaChange(p)
  BY <1>4, <1>5, <1>14 DEF FindSchemaChange, written
<1>15. CASE OpenSchemaChange(p)
  BY <1>4, <1>6, <1>15 DEF OpenSchemaChange
<1>16. CASE ReadOwner(p)
  BY <1>4, <1>5, <1>16 DEF ReadOwner, written
<1>17. CASE Mail(p)
  BY <1>4, <1>17 DEF Mail
<1>18. CASE Refused(p)
  BY <1>4, <1>18 DEF Refused, written
<1>19. QED
  BY <1>7, <1>8, <1>9, <1>10, <1>11, <1>12, <1>13, <1>14, <1>15, <1>16, <1>17, <1>18
  DEF PollStep

LEMMA NextKnows ==
  ASSUME SerialInv, ChecksKnown, [Next]_vars
  PROVE  ChecksKnown'
<1>0. /\ poll \in [Polls -> Call]
      /\ lastCheck \in [Monitors -> {"none", "ok", "fail"}]
      /\ monitors \subseteq Monitors
  BY DEF SerialInv, MailInv, TypeInv, TypeOK
<1>1. ASSUME NEW p \in Polls, NEW m \in Monitors, BeginPoll(p, m)
      PROVE  ChecksKnown'
  <2>1. /\ poll'[p].stage = "probing"
        /\ \A q \in Polls \ {p} : poll'[q] = poll[q]
        /\ UNCHANGED <<monitors, lastCheck>>
    BY <1>0, <1>1 DEF BeginPoll, StartPoll, Call, written, outside
  <2>2. QED
    BY <2>1 DEF ChecksKnown, CallKnows, Judging
<1>2. ASSUME NEW p \in Polls, PollStep(p) PROVE ChecksKnown'
  BY <1>2, PollStepKnows
<1>3. ASSUME NEW p \in Polls, Throw(p) PROVE ChecksKnown'
  <2>1. /\ poll'[p].stage = "idle"
        /\ \A q \in Polls \ {p} : poll'[q] = poll[q]
        /\ UNCHANGED <<monitors, lastCheck>>
    BY <1>0, <1>3 DEF Throw, Reject, IdlePoll, written
  <2>2. QED
    BY <2>1 DEF ChecksKnown, CallKnows, Judging
<1>4. CASE Crash
  BY <1>4 DEF Crash, ChecksKnown, CallKnows, Judging, IdlePoll
<1>5. ASSUME NEW m \in Monitors, DeleteMonitor(m) PROVE ChecksKnown'
  <2>1. /\ monitors' = monitors \ {m} /\ UNCHANGED poll
        /\ \A x \in Monitors \ {m} : lastCheck'[x] = lastCheck[x]
    BY <1>0, <1>5 DEF DeleteMonitor
  <2>2. QED
    BY <1>0, <2>1 DEF ChecksKnown
<1>6. CASE UNCHANGED <<monitors, lastCheck, poll>>
  BY <1>6 DEF ChecksKnown
<1>7. QED
  BY <1>1, <1>2, <1>3, <1>4, <1>5, <1>6
  DEF Next, ReadForAcknowledge, ReadForResolve, WriteAcknowledge, WriteResolve,
      Update, EndpointChanges, vars, written, outside

\* Rows are inserted for monitors there are, and go with them.
LEMMA NextOwned ==
  ASSUME MailInv, RowsOwned, [Next]_vars
  PROVE  RowsOwned'
<1>1. CASE UNCHANGED monitors
  <2> SUFFICES ASSUME NEW i \in DOMAIN incidents'
               PROVE  incidents'[i].api \in monitors
    BY <1>1 DEF RowsOwned
  <2>1. CASE i \in DOMAIN incidents
    BY <2>1, StepRows DEF RowsFollow, RowsOwned
  <2>2. CASE i \notin DOMAIN incidents
    <3>1. PICK p \in Polls : i = nextId /\ (OpenOutage(p) \/ OpenSchemaChange(p))
      BY <2>2, StepRows DEF RowsInserted
    <3>2. QED
      BY <3>1 DEF OpenOutage, OpenSchemaChange, CreateIncident, AddRow
  <2>3. QED
    BY <2>1, <2>2
<1>2. ASSUME NEW m \in Monitors, DeleteMonitor(m) PROVE RowsOwned'
  BY <1>2 DEF DeleteMonitor, RowsOwned
<1>3. QED
  BY <1>1, <1>2
  DEF Next, BeginPoll, StartPoll, PollStep, ReadForAcknowledge, ReadForResolve,
      WriteAcknowledge, WriteResolve, Update, EndpointChanges, Throw, Crash, vars,
      outside

LEMMA NextUsersResolve ==
  ASSUME TypeInv, UsersResolve, [Next]_vars
  PROVE  UsersResolve'
<1>0. request \in [Requests -> UserRequest]
  BY DEF TypeInv, TypeOK
<1>1. CASE UNCHANGED request
  BY <1>1 DEF UsersResolve
<1>2. ASSUME NEW q \in Requests, NEW i, ReadForAcknowledge(q, i)
      PROVE  UsersResolve'
  BY <1>0, <1>2 DEF ReadForAcknowledge, UsersResolve
<1>3. ASSUME NEW q \in Requests, NEW i, ReadForResolve(q, i)
      PROVE  UsersResolve'
  BY <1>3 DEF ReadForResolve, UsersResolve
<1>4. ASSUME NEW q \in Requests, NEW row, Update(q, row) PROVE UsersResolve'
  BY <1>0, <1>4 DEF Update, IdleRequest, UsersResolve
<1>5. CASE Crash
  BY <1>5 DEF Crash, IdleRequest, UsersResolve
<1>6. QED
  BY <1>1, <1>2, <1>3, <1>4, <1>5
  DEF Next, BeginPoll, StartPoll, PollStep, WriteAcknowledge, WriteResolve,
      EndpointChanges, Throw, DeleteMonitor, vars, outside

LEMMA NextAlarmInv ==
  ASSUME ~ Overlap, "acknowledge" \notin Environment
  PROVE  AlarmInv /\ [Next]_vars => AlarmInv'
BY NextTracks, NextKnows, NextOwned, NextUsersResolve
DEF AlarmInv, TrackInv, SerialInv, MailInv

-----------------------------------------------------------------------------
(* Step by step.                                                           *)

\* An outage that ends was its monitor's only one.
LEMMA OutageEnds ==
  ASSUME TrackInv, NEW i \in DOMAIN incidents, NEW row,
         row.api = incidents[i].api, row.type = incidents[i].type,
         row.status = "RESOLVED", incidents' = [incidents EXCEPT ![i] = row]
  PROVE  Alarmed' = IF i \in Open(incidents[i].api, "OUTAGE")
                    THEN Alarmed \ {incidents[i].api} ELSE Alarmed
<1> DEFINE m == incidents[i].api
<1>0. m \in Monitors
  BY DEF TrackInv, SerialInv, MailInv, TypeInv, TypeOK, Incident
<1>1. /\ DOMAIN incidents' = DOMAIN incidents
      /\ incidents'[i] = row
      /\ \A j \in DOMAIN incidents \ {i} : incidents'[j] = incidents[j]
  OBVIOUS
<1>2. \A x : Open(x, "OUTAGE")' = Open(x, "OUTAGE") \ {i}
  <2> SUFFICES ASSUME NEW x PROVE Open(x, "OUTAGE")' = Open(x, "OUTAGE") \ {i}
    OBVIOUS
  <2>1. i \notin Open(x, "OUTAGE")'
    BY <1>1 DEF Open, OPEN_STATUSES
  <2>2. \A j \in DOMAIN incidents \ {i} :
          j \in Open(x, "OUTAGE")' <=> j \in Open(x, "OUTAGE")
    BY <1>1 DEF Open
  <2>3. Open(x, "OUTAGE")' \subseteq DOMAIN incidents
        /\ Open(x, "OUTAGE") \subseteq DOMAIN incidents
    BY <1>1 DEF Open
  <2>4. QED
    BY <2>1, <2>2, <2>3
<1>3. CASE i \in Open(m, "OUTAGE")
  <2>1. \A j \in Open(m, "OUTAGE") : j = i
    BY <1>3 DEF Open, OPEN_STATUSES, TrackInv, SerialInv, NoneAcknowledged,
                AtMostOneUnacknowledged
  <2>2. Open(m, "OUTAGE")' = {}
    BY <1>2, <2>1
  <2>3. ASSUME NEW x \in Monitors \ {m}
        PROVE  Open(x, "OUTAGE")' = Open(x, "OUTAGE")
    <3>1. i \notin Open(x, "OUTAGE")
      BY DEF Open
    <3>2. QED
      BY <1>2, <3>1
  <2>4. QED
    BY <1>0, <1>3, <2>2, <2>3 DEF Alarmed
<1>4. CASE i \notin Open(m, "OUTAGE")
  <2>1. \A x : i \notin Open(x, "OUTAGE")
    BY <1>4 DEF Open
  <2>2. \A x : Open(x, "OUTAGE")' = Open(x, "OUTAGE")
    BY <1>2, <2>1
  <2>3. QED
    BY <1>4, <2>2 DEF Alarmed
<1>5. QED
  BY <1>3, <1>4

LEMMA PollStepAlarm ==
  ASSUME AlarmInv, NEW p \in Polls, PollStep(p)
  PROVE  [Alarm!Next]_<<lastCheck, Alarmed>>
<1>0. /\ SerialInv /\ TrackInv /\ TypeInv
      /\ CallOK(poll[p])
      /\ lastCheck \in [Monitors -> {"none", "ok", "fail"}]
      /\ \A i \in DOMAIN incidents : incidents[i] \in Incident
  BY DEF AlarmInv, TrackInv, SerialInv, MailInv, TypeInv, TypeOK
<1>1. PICK m \in Monitors : poll[p].api = m
  <2>1. poll[p].stage # "idle"
    BY DEF PollStep, Probe, SaveCheck, FindOutage, OpenOutage, ResolveOutage,
           ReadSnapshot, SaveSnapshot, FindSchemaChange, OpenSchemaChange, ReadOwner,
           Mail, Refused
  <2>2. QED
    BY <1>0, <2>1 DEF CallOK
<1>2. m \in monitors => CallKnows(poll[p], lastCheck[m])
  BY <1>1 DEF AlarmInv, ChecksKnown
<1>3. CASE UNCHANGED <<lastCheck, incidents>>
  BY <1>3, SameRows DEF Alarmed
<1>4. CASE SaveCheck(p)
  <2>1. /\ lastCheck' = [lastCheck EXCEPT ![m] = Outcome(poll[p].response)]
        /\ UNCHANGED incidents
    BY <1>1, <1>4 DEF SaveCheck, Outcome
  <2>2. UNCHANGED Alarmed
    BY <2>1, SameRows DEF Alarmed
  <2>3. Alarm!Checked(m, Outcome(poll[p].response))
    BY <2>1, <2>2 DEF Alarm!Checked
  <2>4. Outcome(poll[p].response) \in {"ok", "fail"}
    BY DEF Outcome
  <2>5. QED
    BY <1>1, <2>3, <2>4 DEF Alarm!Next
<1>5. CASE OpenOutage(p)
  <2>1. /\ poll[p].stage = "openingOutage" /\ m \in monitors
        /\ CreateIncident(m, "OUTAGE", "CRITICAL") /\ UNCHANGED lastCheck
    BY <1>1, <1>5 DEF OpenOutage, CreateIncident
  <2>2. lastCheck[m] = "fail"
    BY <1>2, <2>1 DEF CallKnows, Judging, Outcome
  <2>3. Open(m, "OUTAGE") = {}
    BY <1>0, <1>1, <2>1 DEF SerialInv, OpeningOK, Opening, IsOpenRow, Open, OPEN_STATUSES,
                      TrackInv, NoneAcknowledged
  <2>4. /\ \A x \in Monitors \ {m} : Open(x, "OUTAGE")' = Open(x, "OUTAGE")
        /\ Open(m, "OUTAGE")' # {}
    BY <1>0, <2>1, NewRow
  <2>5. m \notin Alarmed /\ Alarmed' = Alarmed \cup {m}
    BY <1>1, <2>3, <2>4 DEF Alarmed
  <2>6. Alarm!Raise(m)
    BY <2>1, <2>2, <2>5 DEF Alarm!Raise
  <2>7. QED
    BY <1>1, <2>6 DEF Alarm!Next
<1>6. CASE ResolveOutage(p)
  <2> DEFINE i == poll[p].incident
  <2>1. /\ poll[p].stage = "resolvingOutage" /\ i \in DOMAIN incidents
        /\ incidents' = [incidents EXCEPT ![i] = Resolved(incidents[i])]
        /\ UNCHANGED lastCheck
    BY <1>6 DEF ResolveOutage
  <2>2. incidents[i].api = m
    BY <1>0, <1>1, <2>1 DEF TrackInv, ResolvesOwn
  <2>3. m \in monitors
    BY <2>1, <2>2 DEF AlarmInv, RowsOwned
  <2>4. lastCheck[m] = "ok"
    BY <1>2, <2>1, <2>3 DEF CallKnows, Judging, Outcome
  <2>5. Alarmed' = IF i \in Open(m, "OUTAGE") THEN Alarmed \ {m} ELSE Alarmed
    <3>1. /\ Resolved(incidents[i]).api = incidents[i].api
          /\ Resolved(incidents[i]).type = incidents[i].type
          /\ Resolved(incidents[i]).status = "RESOLVED"
      BY <1>0, <2>1, ResolvedRow
    <3>2. QED
      BY <1>0, <2>1, <2>2, <3>1, OutageEnds
  <2>6. CASE i \in Open(m, "OUTAGE")
    <3>1. Alarm!Clear(m)
      BY <1>1, <2>1, <2>4, <2>5, <2>6 DEF Alarm!Clear, Alarmed
    <3>2. QED
      BY <1>1, <3>1 DEF Alarm!Next
  <2>7. CASE i \notin Open(m, "OUTAGE")
    BY <2>1, <2>5, <2>7
  <2>8. QED
    BY <2>6, <2>7
<1>7. CASE OpenSchemaChange(p)
  <2>1. /\ CreateIncident(m, "SCHEMA_CHANGE",
                          Severity(poll[p].previous, poll[p].response))
        /\ UNCHANGED lastCheck
    BY <1>1, <1>7 DEF OpenSchemaChange
  <2>2. \A x \in Monitors : Open(x, "OUTAGE")' = Open(x, "OUTAGE")
    BY <1>0, <2>1, NewRow
  <2>3. QED
    BY <2>1, <2>2 DEF Alarmed
<1>8. QED
  BY <1>3, <1>4, <1>5, <1>6, <1>7
  DEF PollStep, Probe, FindOutage, ReadSnapshot, SaveSnapshot, FindSchemaChange,
      ReadOwner, Mail, Refused, written

LEMMA NextAlarm ==
  ASSUME AlarmInv, [Next]_vars
  PROVE  [Alarm!Next]_<<lastCheck, Alarmed>>
<1>0. /\ TrackInv /\ TypeInv
      /\ \A i \in DOMAIN incidents : incidents[i] \in Incident
  BY DEF AlarmInv, TrackInv, SerialInv, MailInv, TypeInv, TypeOK
<1>1. CASE UNCHANGED <<lastCheck, incidents>>
  BY <1>1, SameRows DEF Alarmed
<1>2. ASSUME NEW p \in Polls, PollStep(p)
      PROVE  [Alarm!Next]_<<lastCheck, Alarmed>>
  BY <1>2, PollStepAlarm
<1>3. ASSUME NEW r \in Requests, WriteResolve(r)
      PROVE  [Alarm!Next]_<<lastCheck, Alarmed>>
  <2> DEFINE i == request[r].incident
  <2>1. /\ request[r].stage = "resolving" /\ UNCHANGED lastCheck
        /\ \/ /\ i \in DOMAIN incidents
              /\ incidents' = [incidents EXCEPT ![i] = Resolved(incidents[i])]
           \/ UNCHANGED incidents
    BY <1>3 DEF WriteResolve, Update
  <2>2. CASE UNCHANGED incidents
    BY <1>1, <2>1, <2>2
  <2>3. CASE /\ i \in DOMAIN incidents
             /\ incidents' = [incidents EXCEPT ![i] = Resolved(incidents[i])]
    <3> DEFINE m == incidents[i].api
    <3>1. m \in Monitors
      BY <1>0, <2>3 DEF Incident
    <3>2. Alarmed' = IF i \in Open(m, "OUTAGE") THEN Alarmed \ {m} ELSE Alarmed
      <4>1. /\ Resolved(incidents[i]).api = incidents[i].api
            /\ Resolved(incidents[i]).type = incidents[i].type
            /\ Resolved(incidents[i]).status = "RESOLVED"
        BY <1>0, <2>3, ResolvedRow
      <4>2. QED
        BY <1>0, <2>3, <4>1, OutageEnds
    <3>3. "resolve" \in Environment
      BY <2>1 DEF AlarmInv, UsersResolve
    <3>4. CASE i \in Open(m, "OUTAGE")
      <4>1. Alarm!Dismiss(m)
        BY <2>1, <3>1, <3>2, <3>3, <3>4 DEF Alarm!Dismiss, Alarmed
      <4>2. QED
        BY <3>1, <4>1 DEF Alarm!Next
    <3>5. CASE i \notin Open(m, "OUTAGE")
      BY <2>1, <3>2, <3>5
    <3>6. QED
      BY <3>4, <3>5
  <2>4. QED
    BY <2>1, <2>2, <2>3
<1>4. ASSUME NEW m \in Monitors, DeleteMonitor(m)
      PROVE  [Alarm!Next]_<<lastCheck, Alarmed>>
  <2>1. \A x \in Monitors \ {m} : Open(x, "OUTAGE")' = Open(x, "OUTAGE")
    BY <1>4 DEF DeleteMonitor, Open
  <2>2. Open(m, "OUTAGE")' = {}
    BY <1>4 DEF DeleteMonitor, Open
  <2>3. Alarmed' = Alarmed \ {m}
    BY <2>1, <2>2 DEF Alarmed
  <2>4. Alarm!Forget(m)
    BY <1>4, <2>3 DEF DeleteMonitor, Alarm!Forget
  <2>5. QED
    BY <2>4 DEF Alarm!Next
<1>5. ASSUME NEW r \in Requests, WriteAcknowledge(r) PROVE FALSE
  BY <1>0, <1>5 DEF WriteAcknowledge, TrackInv, NoneAcknowledged
<1>6. QED
  BY <1>1, <1>2, <1>3, <1>4, <1>5
  DEF Next, BeginPoll, StartPoll, ReadForAcknowledge, ReadForResolve,
      EndpointChanges, Throw, Crash, vars, written

\* The pipeline implements OutageAlarm: an outage is opened only while the
\* latest check of its monitor failed and none is open, and ends only when the
\* latest check succeeded, a user resolved it or its monitor was deleted, whatever
\* else is refused, cut short or restarted meanwhile (handleOutageIncident).
THEOREM OutagesImplementAlarm ==
  ASSUME ~ Overlap, "acknowledge" \notin Environment
  PROVE  Spec => Alarm!Spec
<1>1. Init /\ SerialInv /\ NoneAcknowledged => AlarmInv /\ Alarm!Init
  BY DEF Init, AlarmInv, TrackInv, ResolvesOwn, MonitorTracks, InProgress, IdlePoll,
         Open, ChecksKnown, CallKnows, Judging, RowsOwned, UsersResolve, IdleRequest,
         Alarm!Init, Alarmed
<1>2. AlarmInv /\ [Next]_vars => AlarmInv'
  BY NextAlarmInv
<1>3. AlarmInv /\ [Next]_vars => [Alarm!Next]_(Alarm!alarmVars)
  BY NextAlarm DEF Alarm!alarmVars
<1>4. QED
  BY <1>1, <1>2, <1>3, SerialInvariant, NoneAcknowledgedInvariant, PTL
  DEF Spec, Alarm!Spec

=============================================================================
