-------------------------- MODULE GuardSystemProofs --------------------------
(***************************************************************************)
(* Theorems about GuardSystem, for any monitors, calls, intervals and      *)
(* limit: the pool of the scheduler and the calls of the pipeline stay in  *)
(* step, and therefore the scheduler never overlaps two polls of one       *)
(* monitor, which is what the theorems about CheckPipeline assume of it    *)
(* (~ Overlap); so they hold of the system.                                *)
(***************************************************************************)
EXTENDS GuardSystem, PollSchedulerProofs

Slots == Calls \X Monitors

\* A call whose local variables have values in V and I: what the call computes does
\* not matter here, only where it is.
CallOf(V, I) == [stage: Pipe!Stages, api: Monitors \cup {None}, response: V,
              incident: I, previous: V]

CallsOK == \E V, I : call \in [Slots -> CallOf(V, I)]

\* The invariant: the scheduler's, and the two parts agree.
SysInv == SchedInv /\ CallsOK /\ PoolMirrorsPolls

-----------------------------------------------------------------------------
(* What a step of the call p can do to the calls.                          *)

Moves(p, stages) ==
  /\ CallsOK'
  /\ \A q \in Slots : q # p => call'[q] = call[q]
  /\ call'[p].stage \in stages
  /\ call'[p].stage # "idle" => call'[p].api = call[p].api

LEMMA Moving ==
  ASSUME NEW V, NEW I, NEW W, NEW J, call \in [Slots -> CallOf(V, I)], NEW p \in Slots,
         NEW row \in CallOf(W, J), call' = [call EXCEPT ![p] = row],
         row.stage # "idle" => row.api = call[p].api
  PROVE  Moves(p, {row.stage})
<1>1. call' \in [Slots -> CallOf(V \cup W, I \cup J)]
  BY DEF CallOf
<1>2. QED
  BY <1>1 DEF CallsOK, Moves

LEMMA GoToMoves ==
  ASSUME CallsOK, NEW p \in Slots, NEW stage \in Pipe!Stages, Pipe!GoTo(p, stage)
  PROVE  Moves(p, {stage})
<1>1. PICK V, I : call \in [Slots -> CallOf(V, I)]
  BY DEF CallsOK
<1> DEFINE row == [call[p] EXCEPT !.stage = stage]
<1>2. row \in CallOf(V, I) /\ row.stage = stage /\ row.api = call[p].api
  BY <1>1 DEF CallOf
<1>3. call' = [call EXCEPT ![p] = row]
  BY <1>1 DEF Pipe!GoTo, CallOf
<1> HIDE DEF row
<1>4. QED
  BY <1>1, <1>2, <1>3, Moving

LEMMA GoToWithMoves ==
  ASSUME CallsOK, NEW p \in Slots, NEW stage \in Pipe!Stages, NEW i,
         Pipe!GoToWith(p, stage, i)
  PROVE  Moves(p, {stage})
<1>1. PICK V, I : call \in [Slots -> CallOf(V, I)]
  BY DEF CallsOK
<1> DEFINE row == [call[p] EXCEPT !.stage = stage, !.incident = i]
<1>2. row \in CallOf(V, I \cup {i}) /\ row.stage = stage /\ row.api = call[p].api
  BY <1>1 DEF CallOf
<1>3. call' = [call EXCEPT ![p] = row]
  BY <1>1 DEF Pipe!GoToWith, CallOf
<1> HIDE DEF row
<1>4. QED
  BY <1>1, <1>2, <1>3, Moving

LEMMA ToIdle ==
  ASSUME CallsOK, NEW p \in Slots, call' = [call EXCEPT ![p] = Pipe!IdlePoll]
  PROVE  Moves(p, {"idle"})
<1>1. PICK V, I : call \in [Slots -> CallOf(V, I)]
  BY DEF CallsOK
<1>2. Pipe!IdlePoll \in CallOf({None}, {0}) /\ Pipe!IdlePoll.stage = "idle"
  BY DEF CallOf, Pipe!IdlePoll, Pipe!Stages
<1>3. QED
  BY <1>1, <1>2, Moving

LEMMA ReturnMoves ==
  ASSUME CallsOK, NEW p \in Slots, Pipe!Return(p) \/ Pipe!Reject(p)
  PROVE  Moves(p, {"idle"})
BY ToIdle DEF Pipe!Return, Pipe!Reject

\* Where a step of a call leads, as far as the scheduler can tell.
Before == {"probing", "savingCheck"}
After == Pipe!Stages \ ({"idle"} \cup Before)

LEMMA MovesMore ==
  ASSUME NEW p \in Slots, NEW S, NEW T, S \subseteq T, Moves(p, S)
  PROVE  Moves(p, T)
BY DEF Moves

LEMMA AfterOutageMoves ==
  ASSUME CallsOK, NEW p \in Slots, Pipe!AfterOutage(p)
  PROVE  Moves(p, After \cup {"idle"})
<1>1. CASE Pipe!GoTo(p, "readingSnapshot")
  BY <1>1, GoToMoves, MovesMore DEF After, Before, Pipe!Stages, Pipe!DatabaseStages
<1>2. CASE Pipe!Return(p)
  BY <1>2, ReturnMoves, MovesMore
<1>3. QED
  BY <1>1, <1>2 DEF Pipe!AfterOutage

LEMMA PollStepMoves ==
  ASSUME CallsOK, NEW p \in Slots, Pipe!PollStep(p)
  PROVE  \/ call[p].stage = "probing" /\ Moves(p, {"savingCheck"})
         \/ call[p].stage = "savingCheck" /\ Moves(p, {"findingOutage", "idle"})
         \/ call[p].stage \in After /\ Moves(p, After \cup {"idle"})
<1> USE DEF After, Before, Pipe!Stages, Pipe!DatabaseStages
<1>1. CASE Pipe!Probe(p)
  <2>1. PICK V, I : call \in [Slots -> CallOf(V, I)]
    BY DEF CallsOK
  <2> DEFINE answer == endpoint[call[p].api]
             row == [call[p] EXCEPT !.stage = "savingCheck", !.response = answer]
  <2>2. /\ row \in CallOf(V \cup {answer}, I)
        /\ row.stage = "savingCheck" /\ row.api = call[p].api
    BY <2>1 DEF CallOf
  <2>3. call' = [call EXCEPT ![p] = row]
    BY <1>1, <2>1 DEF Pipe!Probe, CallOf
  <2> HIDE DEF row
  <2>4. Moves(p, {row.stage})
    BY <2>1, <2>2, <2>3, Moving
  <2>5. QED
    BY <1>1, <2>2, <2>4 DEF Pipe!Probe
<1>2. CASE Pipe!SaveCheck(p)
  <2>1. call[p].stage = "savingCheck" /\ Pipe!GoTo(p, "findingOutage")
    BY <1>2 DEF Pipe!SaveCheck
  <2>2. QED
    BY <2>1, GoToMoves, MovesMore
<1>3. CASE Pipe!FindOutage(p)
  <2>1. call[p].stage = "findingOutage"
    BY <1>3 DEF Pipe!FindOutage
  <2>2. ASSUME NEW i, Pipe!OnFailure(p, i)
        PROVE  Moves(p, After \cup {"idle"})
    BY <2>2, GoToMoves, ReturnMoves, MovesMore DEF Pipe!OnFailure
  <2>3. ASSUME NEW i, Pipe!OnSuccess(p, i)
        PROVE  Moves(p, After \cup {"idle"})
    BY <2>3, GoToWithMoves, AfterOutageMoves, MovesMore DEF Pipe!OnSuccess
  <2>4. QED
    BY <1>3, <2>1, <2>2, <2>3 DEF Pipe!FindOutage
<1>4. CASE Pipe!OpenOutage(p)
  <2>1. call[p].stage = "openingOutage" /\ Pipe!GoToWith(p, "readingOwner", nextId)
    BY <1>4 DEF Pipe!OpenOutage
  <2>2. QED
    BY <2>1, GoToWithMoves, MovesMore
<1>5. CASE Pipe!ResolveOutage(p)
  <2>1. call[p].stage = "resolvingOutage" /\ Pipe!AfterOutage(p)
    BY <1>5 DEF Pipe!ResolveOutage
  <2>2. QED
    BY <2>1, AfterOutageMoves
<1>6. CASE Pipe!ReadSnapshot(p)
  <2>1. call[p].stage = "readingSnapshot"
    BY <1>6 DEF Pipe!ReadSnapshot
  <2>2. CASE Pipe!Return(p)
    BY <2>1, <2>2, ReturnMoves, MovesMore
  <2>3. ASSUME NEW previous,
               call' = [call EXCEPT ![p].stage = "savingSnapshot",
                                    ![p].previous = previous]
        PROVE  Moves(p, {"savingSnapshot"})
    <3>1. PICK V, I : call \in [Slots -> CallOf(V, I)]
      BY DEF CallsOK
    <3> DEFINE row == [call[p] EXCEPT !.stage = "savingSnapshot",
                                      !.previous = previous]
    <3>2. /\ row \in CallOf(V \cup {previous}, I)
          /\ row.stage = "savingSnapshot" /\ row.api = call[p].api
      BY <3>1 DEF CallOf
    <3>3. call' = [call EXCEPT ![p] = row]
      BY <2>3, <3>1 DEF CallOf
    <3> HIDE DEF row
    <3>4. QED
      BY <3>1, <3>2, <3>3, Moving
  <2>4. QED
    BY <1>6, <2>1, <2>2, <2>3, MovesMore DEF Pipe!ReadSnapshot
<1>7. CASE Pipe!SaveSnapshot(p)
  <2>1. /\ call[p].stage = "savingSnapshot"
        /\ Pipe!GoTo(p, "findingSchemaChange") \/ Pipe!Return(p)
    BY <1>7 DEF Pipe!SaveSnapshot
  <2>2. QED
    BY <2>1, GoToMoves, ReturnMoves, MovesMore
<1>8. CASE Pipe!FindSchemaChange(p)
  <2>1. /\ call[p].stage = "findingSchemaChange"
        /\ Pipe!GoTo(p, "openingSchemaChange") \/ Pipe!Return(p)
    BY <1>8 DEF Pipe!FindSchemaChange
  <2>2. QED
    BY <2>1, GoToMoves, ReturnMoves, MovesMore
<1>9. CASE Pipe!OpenSchemaChange(p)
  <2>1. /\ call[p].stage = "openingSchemaChange"
        /\ Pipe!GoToWith(p, "readingOwner", nextId) \/ Pipe!Return(p)
    BY <1>9 DEF Pipe!OpenSchemaChange
  <2>2. QED
    BY <2>1, GoToWithMoves, ReturnMoves, MovesMore
<1>10. CASE Pipe!ReadOwner(p)
  <2>1. /\ call[p].stage = "readingOwner"
        /\ Pipe!GoTo(p, "mailing") \/ Pipe!Return(p)
    BY <1>10 DEF Pipe!ReadOwner
  <2>2. QED
    BY <2>1, GoToMoves, ReturnMoves, MovesMore
<1>11. CASE Pipe!Mail(p)
  <2>1. call[p].stage = "mailing" /\ Pipe!Return(p)
    BY <1>11 DEF Pipe!Mail
  <2>2. QED
    BY <2>1, ReturnMoves, MovesMore
<1>12. CASE Pipe!Refused(p)
  <2>1. /\ call[p].stage \in {"savingCheck"} \cup After
        /\ Moves(p, {"idle"})
    BY <1>12, ReturnMoves DEF Pipe!Refused
  <2>2. QED
    BY <2>1, MovesMore
<1>13. QED
  BY <1>1, <1>2, <1>3, <1>4, <1>5, <1>6, <1>7, <1>8, <1>9, <1>10, <1>11, <1>12
  DEF Pipe!PollStep

LEMMA ThrowMoves ==
  ASSUME CallsOK, NEW p \in Slots, Pipe!Refused(p) \/ Pipe!Throw(p)
  PROVE  call[p].stage \in {"savingCheck"} \cup After /\ Moves(p, {"idle"})
BY ReturnMoves
DEF Pipe!Refused, Pipe!Throw, After, Before, Pipe!Stages, Pipe!DatabaseStages

-----------------------------------------------------------------------------
(* The invariant is inductive.                                             *)

\* A slot of the pool against its call.
Mirrors(slot, p, m) ==
  /\ slot = "none" => call[p].stage = "idle"
  /\ slot = "saved" <=> call[p].stage \notin {"idle", "probing", "savingCheck"}
  /\ call[p].stage # "idle" => call[p].api = m

LEMMA MirrorsAll ==
  PoolMirrorsPolls <=>
    \A c \in Calls, m \in Monitors : Mirrors(poll[c][m], <<c, m>>, m)
BY DEF PoolMirrorsPolls, Mirrors

\* A step of the call of c for m, whose slot is updated to match, while no other
\* slot changes except from none to checking.
LEMMA OneSlot ==
  ASSUME SysInv, NEW c \in Calls, NEW m \in Monitors,
         CallsOK', \A q \in Slots : q # <<c, m>> => call'[q] = call[q],
         poll'[c] \in Polls, poll' = [poll EXCEPT ![c] = poll'[c]],
         Mirrors(poll[c][m], <<c, m>>, m) => Mirrors(poll[c][m], <<c, m>>, m)',
         \A n \in Monitors \ {m} :
           \/ poll'[c][n] = poll[c][n]
           \/ poll[c][n] = "none" /\ poll'[c][n] = "checking"
  PROVE  CallsOK' /\ PoolMirrorsPolls'
<1> SUFFICES ASSUME NEW d \in Calls, NEW n \in Monitors
             PROVE  Mirrors(poll[d][n], <<d, n>>, n)'
  BY DEF PoolMirrorsPolls, Mirrors
<1>1. <<c, m>> \in Slots /\ <<d, n>> \in Slots
  BY DEF Slots
<1>2. Mirrors(poll[d][n], <<d, n>>, n) /\ Mirrors(poll[c][m], <<c, m>>, m)
  BY MirrorsAll DEF SysInv
<1>3. CASE d = c /\ n = m
  BY <1>2, <1>3
<1>4. CASE d # c \/ n # m
  <2>1. call'[<<d, n>>] = call[<<d, n>>]
    BY <1>1, <1>4
  <2>2. \/ poll'[d][n] = poll[d][n]
        \/ poll[d][n] = "none" /\ poll'[d][n] = "checking"
    BY <1>4 DEF SysInv, SchedInv, TypeOK
  <2>3. QED
    BY <1>2, <2>1, <2>2 DEF Mirrors
<1>5. QED
  BY <1>3, <1>4

LEMMA SettleMirrors ==
  ASSUME SysInv, NEW c \in Calls, NEW m \in Monitors,
         Moves(<<c, m>>, {"idle"}), Settle(c, m)
  PROVE  CallsOK' /\ PoolMirrorsPolls'
<1>1. /\ CallsOK' /\ call'[<<c, m>>].stage = "idle"
      /\ \A q \in Slots : q # <<c, m>> => call'[q] = call[q]
  BY DEF Moves
<1>2. Mirrors(poll[c][m], <<c, m>>, m)'
  BY <1>1, SettleSlots DEF SysInv, Mirrors
<1>3. QED
  BY <1>1, <1>2, SettleSlots, OneSlot DEF SysInv

LEMMA QuietMirrors ==
  ASSUME SysInv, UNCHANGED <<call, poll>>
  PROVE  CallsOK' /\ PoolMirrorsPolls'
BY DEF SysInv, CallsOK, PoolMirrorsPolls, Slots, CallOf

LEMMA StartPoolMirrors ==
  ASSUME SysInv, NEW c \in Calls,
         NEW items \in Listings({m \in Monitors : Due(m)}), StartPool(c, items),
         call' = call
  PROVE  CallsOK' /\ PoolMirrorsPolls'
<1>1. poll' = [poll EXCEPT ![c] = poll'[c]]
  BY StartPoolFacts DEF SysInv
<1>2. \A n \in Monitors : poll[c][n] = "none"
  BY DEF SysInv, SchedInv, OneCycleAtATime, StartPool, Running
<1>3. \A n \in Monitors : poll'[c][n] \in {"none", "checking"}
  BY DEF SysInv, SchedInv, TypeOK, StartPool
<1>4. ASSUME NEW d \in Calls, NEW n \in Monitors
      PROVE  Mirrors(poll[d][n], <<d, n>>, n)'
  <2>1. Mirrors(poll[d][n], <<d, n>>, n)
    BY MirrorsAll DEF SysInv
  <2>2. CASE d = c
    BY <1>2, <1>3, <2>1, <2>2 DEF Mirrors
  <2>3. CASE d # c
    BY <1>1, <2>1, <2>3 DEF Mirrors, SysInv, SchedInv, TypeOK
  <2>4. QED
    BY <2>2, <2>3
<1>5. CallsOK'
  BY DEF SysInv, CallsOK, Slots, CallOf
<1>6. QED
  BY <1>4, <1>5 DEF PoolMirrorsPolls, Mirrors

LEMMA PollStartsMirrors ==
  ASSUME SysInv, NEW c \in Calls, NEW m \in Monitors, PollStarts(c, m)
  PROVE  CallsOK' /\ PoolMirrorsPolls'
<1> DEFINE p == <<c, m>>
<1>1. p \in Slots
  BY DEF Slots
<1>2. PICK V, I : call \in [Slots -> CallOf(V, I)]
  BY DEF SysInv, CallsOK
<1> DEFINE row == [call[p] EXCEPT !.stage = "probing", !.api = m]
<1>3. row \in CallOf(V, I) /\ row.stage = "probing" /\ row.api = m
  BY <1>1, <1>2 DEF CallOf, Pipe!Stages
<1>4. call' = [call EXCEPT ![p] = row]
  BY <1>1, <1>2 DEF PollStarts, Pipe!StartPoll, CallOf
<1>5. poll' = poll /\ poll[c][m] = "checking"
  BY DEF PollStarts, vars
<1> HIDE DEF row, p
<1>6. /\ CallsOK' /\ call'[p] = row
      /\ \A q \in Slots : q # p => call'[q] = call[q]
  BY <1>1, <1>2, <1>3, <1>4 DEF CallsOK
<1>7. Mirrors(poll[c][m], p, m)'
  BY <1>3, <1>5, <1>6 DEF Mirrors
<1>8. /\ poll'[c] \in Polls /\ poll' = [poll EXCEPT ![c] = poll'[c]]
      /\ \A n \in Monitors : poll'[c][n] = poll[c][n]
  BY <1>5 DEF SysInv, SchedInv, TypeOK, Polls
<1>9. QED
  BY <1>6, <1>7, <1>8, OneSlot DEF p

LEMMA PollGoesOnMirrors ==
  ASSUME SysInv, NEW c \in Calls, NEW m \in Monitors, PollGoesOn(c, m)
  PROVE  CallsOK' /\ PoolMirrorsPolls'
<1> DEFINE p == <<c, m>>
<1>1. p \in Slots
  BY DEF Slots
<1>2. /\ Pipe!PollStep(p) /\ call'[p].stage # "idle"
      /\ IF call[p].stage = "savingCheck" THEN SaveCheck(c, m) ELSE UNCHANGED vars
  BY DEF PollGoesOn
<1> HIDE DEF p
<1>3. Mirrors(poll[c][m], p, m)
  BY MirrorsAll DEF SysInv, p
<1>4. CASE call[p].stage = "savingCheck"
  <2>1. Moves(p, {"findingOutage", "idle"})
    BY <1>1, <1>2, <1>4, PollStepMoves DEF SysInv, After, Before
  <2>2. /\ CallsOK' /\ \A q \in Slots : q # p => call'[q] = call[q]
        /\ call'[p].stage = "findingOutage" /\ call'[p].api = call[p].api
    BY <1>2, <2>1 DEF Moves
  <2>3. /\ poll'[c] \in Polls /\ poll' = [poll EXCEPT ![c] = poll'[c]]
        /\ poll'[c] = [poll[c] EXCEPT ![m] = "saved"] /\ poll[c] \in Polls
    BY <1>2, <1>4, SaveCheckFacts DEF SysInv, SchedInv, TypeOK, Polls
  <2>4. /\ poll'[c][m] = "saved"
        /\ \A n \in Monitors \ {m} : poll'[c][n] = poll[c][n]
    BY <2>3 DEF Polls
  <2>5. Mirrors(poll[c][m], p, m)'
    BY <1>3, <1>4, <2>2, <2>4 DEF Mirrors
  <2>6. QED
    BY <2>2, <2>3, <2>4, <2>5, OneSlot, ZenonT(60) DEF p
<1>5. CASE call[p].stage # "savingCheck"
  <2>1. poll' = poll
    BY <1>2, <1>5 DEF vars
  <2>2. \/ call[p].stage = "probing" /\ Moves(p, {"savingCheck"})
        \/ call[p].stage \in After /\ Moves(p, After \cup {"idle"})
    BY <1>1, <1>2, <1>5, PollStepMoves DEF SysInv
  <2>3. /\ CallsOK' /\ \A q \in Slots : q # p => call'[q] = call[q]
        /\ call'[p].api = call[p].api
        /\ \/ call[p].stage = "probing" /\ call'[p].stage = "savingCheck"
           \/ call[p].stage \in After /\ call'[p].stage \in After
    BY <1>2, <2>2 DEF Moves
  <2>4. Mirrors(poll[c][m], p, m)'
    BY <1>3, <2>1, <2>3 DEF Mirrors, After, Before
  <2>5. /\ poll'[c] \in Polls /\ poll' = [poll EXCEPT ![c] = poll'[c]]
        /\ \A n \in Monitors : poll'[c][n] = poll[c][n]
    BY <2>1 DEF SysInv, SchedInv, TypeOK, Polls
  <2>6. QED
    BY <2>3, <2>4, <2>5, OneSlot DEF p
<1>6. QED
  BY <1>4, <1>5

LEMMA PollEndsMirrors ==
  ASSUME SysInv, NEW c \in Calls, NEW m \in Monitors,
         PollReturns(c, m) \/ PollRejects(c, m)
  PROVE  CallsOK' /\ PoolMirrorsPolls'
<1>1. <<c, m>> \in Slots /\ CallsOK
  BY DEF Slots, SysInv
<1>2. CASE PollReturns(c, m)
  <2>1. Moves(<<c, m>>, {"idle"})
    BY <1>1, <1>2, PollStepMoves DEF PollReturns, Moves
  <2>2. QED
    BY <1>2, <2>1, SettleMirrors DEF PollReturns
<1>3. CASE PollRejects(c, m)
  BY <1>1, <1>3, ThrowMoves, SettleMirrors DEF PollRejects
<1>4. QED
  BY <1>2, <1>3

LEMMA RestartMirrors == ASSUME SysInv, Restart PROVE CallsOK' /\ PoolMirrorsPolls'
<1>1. /\ call' = [p \in Slots |-> Pipe!IdlePoll]
      /\ poll' = [c \in Calls |-> NoPolls]
  BY DEF Restart, Pipe!Crash, Crash, Slots
<1>2. Pipe!IdlePoll \in CallOf({None}, {0}) /\ Pipe!IdlePoll.stage = "idle"
  BY DEF CallOf, Pipe!IdlePoll, Pipe!Stages
<1>3. CallsOK'
  BY <1>1, <1>2 DEF CallsOK
<1>4. \A c \in Calls, m \in Monitors : Mirrors(poll[c][m], <<c, m>>, m)'
  BY <1>1, <1>2 DEF Mirrors, NoPolls, Slots
<1>5. QED
  BY <1>3, <1>4 DEF PoolMirrorsPolls, Mirrors

\* To the scheduler every step is one of its own, or none.
LEMMA SchedulerStep == SystemNext => [Next]_vars
BY DEF SystemNext, CronTick, MinutePasses, ListingFails, List, CycleReturns,
       PollStarts, PollGoesOn, PollReturns, PollRejects, SwitchActive,
       RemoveMonitor, UserRequests, EndpointMoves, Restart, Next

LEMMA SystemInductive == SysInv /\ [SystemNext]_systemVars => SysInv'
<1> SUFFICES ASSUME SysInv, [SystemNext]_systemVars PROVE SysInv'
  OBVIOUS
<1>1. SchedInv'
  BY SchedulerStep, StepInv DEF SysInv, systemVars, vars
<1> SUFFICES CallsOK' /\ PoolMirrorsPolls'
  BY <1>1 DEF SysInv
<1>2. ASSUME UNCHANGED <<call, poll>> PROVE CallsOK' /\ PoolMirrorsPolls'
  BY <1>2, QuietMirrors
<1>3. CASE CronTick \/ MinutePasses
  BY <1>2, <1>3 DEF CronTick, MinutePasses, Tick, TimePasses, pipeVars
<1>4. ASSUME NEW c \in Calls, ListingFails(c) \/ CycleReturns(c)
      PROVE  CallsOK' /\ PoolMirrorsPolls'
  BY <1>2, <1>4 DEF ListingFails, CycleReturns, FindFails, Return, pipeVars
<1>5. ASSUME NEW c \in Calls, List(c) PROVE CallsOK' /\ PoolMirrorsPolls'
  BY <1>5, StartPoolMirrors DEF List, pipeVars
<1>6. ASSUME NEW c \in Calls, NEW m \in Monitors,
             \/ PollStarts(c, m)  \/ PollGoesOn(c, m)
             \/ PollReturns(c, m) \/ PollRejects(c, m)
      PROVE  CallsOK' /\ PoolMirrorsPolls'
  BY <1>6, PollStartsMirrors, PollGoesOnMirrors, PollEndsMirrors
<1>7. ASSUME NEW m \in Monitors, SwitchActive(m) \/ RemoveMonitor(m)
      PROVE  CallsOK' /\ PoolMirrorsPolls'
  BY <1>2, <1>7
  DEF SwitchActive, RemoveMonitor, SetActive, Pipe!DeleteMonitor, vars, pipeVars
<1>8. CASE UserRequests \/ EndpointMoves
  BY <1>2, <1>8
  DEF UserRequests, EndpointMoves, Pipe!ReadForResolve, Pipe!WriteResolve,
      Pipe!Update, Pipe!EndpointChanges, vars
<1>9. CASE Restart
  BY <1>9, RestartMirrors
<1>10. CASE UNCHANGED systemVars
  BY <1>2, <1>10 DEF systemVars, vars, pipeVars
<1>11. QED
  BY <1>3, <1>4, <1>5, <1>6, <1>7, <1>8, <1>9, <1>10 DEF SystemNext

LEMMA SystemInitInv == SystemInit => SysInv
<1> SUFFICES ASSUME SystemInit PROVE SysInv
  OBVIOUS
<1>1. SchedInv
  BY InitInv DEF SystemInit
<1>2. /\ call = [p \in Slots |-> Pipe!IdlePoll]
      /\ poll = [c \in Calls |-> NoPolls]
  BY DEF SystemInit, Init, Pipe!Init, Slots
<1>3. Pipe!IdlePoll \in CallOf({None}, {0}) /\ Pipe!IdlePoll.stage = "idle"
  BY DEF CallOf, Pipe!IdlePoll, Pipe!Stages
<1>4. CallsOK
  BY <1>2, <1>3 DEF CallsOK
<1>5. \A c \in Calls, m \in Monitors : Mirrors(poll[c][m], <<c, m>>, m)
  BY <1>2, <1>3 DEF Mirrors, NoPolls, Slots
<1>6. QED
  BY <1>1, <1>4, <1>5, MirrorsAll DEF SysInv

\* A slot of the pool is held exactly while its call of recordCheck has work
\* left, and counts as saved exactly when the call has saved its check, for any
\* number of monitors and any limit (runBounded against recordCheck).
THEOREM PoolAndPollsAgree == SystemSafe => []PoolMirrorsPolls
<1>1. SysInv => PoolMirrorsPolls
  BY DEF SysInv
<1>2. QED
  BY <1>1, SystemInitInv, SystemInductive, PTL DEF SystemSafe

-----------------------------------------------------------------------------
(* The scheduler keeps the pipeline's assumption.                          *)

\* A poll that starts finds no other of its monitor in progress: the other
\* would hold a slot, of the same cycle because there is only one, and a cycle
\* has one slot for a monitor.
LEMMA StartsAlone ==
  ASSUME SysInv, NEW c \in Calls, NEW m \in Monitors, PollStarts(c, m)
  PROVE  Pipe!BeginPoll(<<c, m>>, m)
<1>1. poll[c][m] = "checking" /\ Pipe!StartPoll(<<c, m>>, m)
  BY DEF PollStarts
<1>2. ASSUME NEW d \in Calls, NEW n \in Monitors,
             call[<<d, n>>].stage # "idle", call[<<d, n>>].api = m
      PROVE  FALSE
  <2>1. Mirrors(poll[d][n], <<d, n>>, n)
    BY MirrorsAll DEF SysInv
  <2>2. n = m /\ poll[d][n] # "none"
    BY <1>2, <2>1 DEF Mirrors
  <2>3. cycle[c].stage = "draining" /\ \A e \in Live : e = d
    BY <1>1, <2>2, PollIsLive DEF SysInv
  <2>4. c = d
    BY <2>3 DEF Live
  <2>5. call[<<c, m>>].stage = "idle"
    BY <1>1 DEF Pipe!StartPoll
  <2>6. QED
    BY <1>2, <2>2, <2>4, <2>5
<1>3. Pipe!InProgress(m) = {}
  BY <1>2 DEF Pipe!InProgress
<1>4. QED
  BY <1>1, <1>3 DEF Pipe!BeginPoll

LEMMA PipeStep == SysInv /\ [SystemNext]_systemVars => [Pipe!Next]_pipeVars
<1> SUFFICES ASSUME SysInv, [SystemNext]_systemVars
             PROVE  Pipe!Next \/ UNCHANGED pipeVars
  OBVIOUS
<1>1. CASE CronTick \/ MinutePasses \/ UNCHANGED systemVars
  BY <1>1 DEF CronTick, MinutePasses, systemVars
<1>2. ASSUME NEW c \in Calls, ListingFails(c) \/ List(c) \/ CycleReturns(c)
      PROVE  UNCHANGED pipeVars
  BY <1>2 DEF ListingFails, List, CycleReturns
<1>3. ASSUME NEW c \in Calls, NEW m \in Monitors, PollStarts(c, m)
      PROVE  Pipe!Next
  <2>1. <<c, m>> \in Calls \X Monitors
    OBVIOUS
  <2>2. QED
    BY <1>3, <2>1, StartsAlone DEF Pipe!Next
<1>4. ASSUME NEW c \in Calls, NEW m \in Monitors,
             PollGoesOn(c, m) \/ PollReturns(c, m) \/ PollRejects(c, m)
      PROVE  Pipe!Next
  <2>1. <<c, m>> \in Calls \X Monitors
    OBVIOUS
  <2>2. Pipe!PollStep(<<c, m>>) \/ Pipe!Throw(<<c, m>>)
    BY <1>4 DEF PollGoesOn, PollReturns, PollRejects, Pipe!PollStep, Pipe!outside
  <2>3. QED
    BY <2>1, <2>2 DEF Pipe!Next
<1>5. ASSUME NEW m \in Monitors, SwitchActive(m) \/ RemoveMonitor(m)
      PROVE  Pipe!Next \/ UNCHANGED pipeVars
  BY <1>5 DEF SwitchActive, RemoveMonitor, Pipe!Next
<1>6. CASE UserRequests
  BY <1>6 DEF UserRequests, Pipe!Next
<1>7. CASE EndpointMoves
  BY <1>7 DEF EndpointMoves, Response, Pipe!Next
<1>8. CASE Restart
  BY <1>8 DEF Restart, Pipe!Next
<1>9. QED
  BY <1>1, <1>2, <1>3, <1>4, <1>5, <1>6, <1>7, <1>8 DEF SystemNext

\* Driven by the scheduler alone, recordCheck behaves as CheckPipeline says it
\* does without overlapping polls: a tick finds the guard set until every poll
\* of the cycle before has settled, and a cycle polls each monitor once.
THEOREM SchedulerIsSerial == SystemSafe => SchedulerPollsSerially
<1>1. SystemInit => Pipe!Init
  BY DEF SystemInit
<1>2. QED
  BY <1>1, SystemInitInv, SystemInductive, PipeStep, PTL
  DEF SystemSafe, SchedulerPollsSerially

-----------------------------------------------------------------------------
(* What the pipeline's theorems say of the system.                         *)

\* CheckPipeline without overlap once more, with its theorems.
Serial == INSTANCE IncidentProofs
          WITH Polls <- Calls \X Monitors, poll <- call, Overlap <- FALSE

LEMMA SerialAssumptions ==
  Serial!SchemasAssumption /\ Serial!VerdictAssumption /\ Serial!EnvironmentAssumption
BY PipelineAssumption
DEF Serial!SchemasAssumption, Serial!VerdictAssumption, Serial!EnvironmentAssumption,
    Pipe!SchemasAssumption, Pipe!VerdictAssumption, Pipe!EnvironmentAssumption,
    Serial!Response, Pipe!Response, Serial!Severities, Pipe!Severities

\* Serial and Pipe are the same specification: their definitions expand to one
\* formula.
LEMMA SerialIsPipe == (Serial!Init <=> Pipe!Init) /\ (Serial!Next <=> Pipe!Next)
<1>1. Serial!Init <=> Pipe!Init
  BY DEF Serial!Init, Pipe!Init, Serial!Response, Pipe!Response, Serial!IdlePoll,
         Pipe!IdlePoll, Serial!IdleRequest, Pipe!IdleRequest
<1>2. Serial!Next <=> Pipe!Next
  BY Zenon
  DEF Pipe!Next, Pipe!BeginPoll, Pipe!StartPoll, Pipe!InProgress, Pipe!PollStep,
      Pipe!Probe, Pipe!SaveCheck, Pipe!FindOutage, Pipe!OpenOutage,
      Pipe!ResolveOutage, Pipe!ReadSnapshot, Pipe!SaveSnapshot,
      Pipe!FindSchemaChange, Pipe!OpenSchemaChange, Pipe!ReadOwner, Pipe!Mail,
      Pipe!Refused, Pipe!FindOpenIncident, Pipe!OnFailure, Pipe!OnSuccess,
      Pipe!AfterOutage, Pipe!CreateIncident, Pipe!AddRow, Pipe!Open,
      Pipe!OPEN_STATUSES, Pipe!Last, Pipe!Severity, Pipe!Paging, Pipe!GoTo,
      Pipe!GoToWith, Pipe!Return, Pipe!Reject, Pipe!CutShort,
      Pipe!PagingStages, Pipe!ReadForAcknowledge,
      Pipe!ReadForResolve, Pipe!WriteAcknowledge, Pipe!WriteResolve, Pipe!Update,
      Pipe!Resolved, Pipe!EndpointChanges, Pipe!Throw, Pipe!Crash,
      Pipe!DeleteMonitor, Pipe!Event, Pipe!Response, Pipe!DatabaseStages,
      Pipe!IdlePoll, Pipe!IdleRequest, Pipe!written, Pipe!outside,
      Serial!Next, Serial!BeginPoll, Serial!StartPoll, Serial!InProgress, Serial!PollStep,
      Serial!Probe, Serial!SaveCheck, Serial!FindOutage, Serial!OpenOutage,
      Serial!ResolveOutage, Serial!ReadSnapshot, Serial!SaveSnapshot,
      Serial!FindSchemaChange, Serial!OpenSchemaChange, Serial!ReadOwner, Serial!Mail,
      Serial!Refused, Serial!FindOpenIncident, Serial!OnFailure, Serial!OnSuccess,
      Serial!AfterOutage, Serial!CreateIncident, Serial!AddRow, Serial!Open,
      Serial!OPEN_STATUSES, Serial!Last, Serial!Severity, Serial!Paging, Serial!GoTo,
      Serial!GoToWith, Serial!Return, Serial!Reject, Serial!CutShort,
      Serial!PagingStages, Serial!ReadForAcknowledge,
      Serial!ReadForResolve, Serial!WriteAcknowledge, Serial!WriteResolve, Serial!Update,
      Serial!Resolved, Serial!EndpointChanges, Serial!Throw, Serial!Crash,
      Serial!DeleteMonitor, Serial!Event, Serial!Response, Serial!DatabaseStages,
      Serial!IdlePoll, Serial!IdleRequest, Serial!written, Serial!outside
<1>3. QED
  BY <1>1, <1>2

LEMMA SystemIsSerial == SystemSafe => Serial!Spec
<1>1. [Pipe!Next]_pipeVars => [Serial!Next]_(Serial!vars)
  BY SerialIsPipe DEF pipeVars, Serial!vars, Serial!written, Serial!outside
<1>2. QED
  BY <1>1, SerialIsPipe, SchedulerIsSerial, PTL DEF SchedulerPollsSerially, Serial!Spec

\* From cron to the incidents table: polled by the scheduler alone, a monitor
\* never has two open incidents of a kind, and while no call for it was cut short
\* and no user wrote to its incidents, an outage is open exactly if its latest
\* check failed (pollDueMonitors, recordCheck, handleOutageIncident).  Nothing is
\* assumed of overlap: the guard and the list of distinct monitors exclude it.
THEOREM SystemAlarmsTrackChecks ==
  ASSUME "acknowledge" \notin Environment
  PROVE  SystemSafe => [](Pipe!AtMostOneOpen /\ Pipe!OutageTracksChecks)
<1>1. Serial!Spec => []Serial!AtMostOneOpen
  BY SerialAssumptions, Serial!OneOpenWhenSerial
<1>2. Serial!Spec => []Serial!OutageTracksChecks
  BY SerialAssumptions, Serial!OutagesTrackChecks
<1>3. Serial!AtMostOneOpen => Pipe!AtMostOneOpen
  BY DEF Serial!AtMostOneOpen, Pipe!AtMostOneOpen, Serial!Open, Pipe!Open,
         Serial!OPEN_STATUSES, Pipe!OPEN_STATUSES, Serial!Cardinality, Pipe!Cardinality
<1>4. Serial!OutageTracksChecks => Pipe!OutageTracksChecks
  BY DEF Serial!OutageTracksChecks, Pipe!OutageTracksChecks, Serial!Open, Pipe!Open,
         Serial!InProgress, Pipe!InProgress, Serial!OPEN_STATUSES, Pipe!OPEN_STATUSES
<1>5. QED
  BY <1>1, <1>2, <1>3, <1>4, SystemIsSerial, PTL

\* Polled by the scheduler alone, no monitor's structure is stored twice in a row
\* (captureSchemaSnapshot), whatever fails and across restarts.
THEOREM SystemSnapshotsDiffer == SystemSafe => []Pipe!SnapshotsDiffer
<1>1. Serial!Spec => []Serial!SnapshotsDiffer
  BY SerialAssumptions, Serial!SnapshotsDifferWhenSerial
<1>2. Serial!SnapshotsDiffer => Pipe!SnapshotsDiffer
  BY DEF Serial!SnapshotsDiffer, Pipe!SnapshotsDiffer
<1>3. QED
  BY <1>1, <1>2, SystemIsSerial, PTL

\* And when its poll is over, every change of a structure that must page has an
\* incident that was open while the new structure was the latest one, unless a
\* refused statement or a restart cut the poll short right before the incident.
THEOREM SystemMissesNoBreakingChange ==
  SystemSafe => []Pipe!BreakingChangeLeavesIncident
<1>1. Serial!Spec => []Serial!BreakingChangeLeavesIncident
  BY SerialAssumptions, Serial!BreakingChangesLeaveIncidents
<1>2. Serial!BreakingChangeLeavesIncident => Pipe!BreakingChangeLeavesIncident
  BY DEF Serial!BreakingChangeLeavesIncident, Pipe!BreakingChangeLeavesIncident,
         Serial!OpenAtSnapshot, Pipe!OpenAtSnapshot, Serial!OPEN_STATUSES,
         Pipe!OPEN_STATUSES, Serial!InProgress, Pipe!InProgress, Serial!Paging,
         Pipe!Paging
<1>3. QED
  BY <1>1, <1>2, SystemIsSerial, PTL

\* The whole system keeps the promise of OutageAlarm: polled by the scheduler
\* alone, a monitor's outage is opened only on a failed latest check and ends
\* only on a successful one, a user's resolution or the monitor's deletion.
THEOREM SystemImplementsAlarm ==
  ASSUME "acknowledge" \notin Environment
  PROVE  SystemSafe => Serial!Alarm!Spec
<1>1. Serial!Spec => Serial!Alarm!Spec
  BY SerialAssumptions, Serial!OutagesImplementAlarm
<1>2. QED
  BY <1>1, SystemIsSerial, PTL

-----------------------------------------------------------------------------
(* The system with the schema service it has, SchemaDiff.                  *)

CONSTANTS Values, Bodies, Item, Inherited, MaxDepth  \* described in SchemaDiff

\* Only its functions are used here, so what its variables are does not matter.
Service == INSTANCE SchemaDiffProofs WITH latest <- None, body <- None

\* The structures are the schemas of the bodies there can be, and the verdict on
\* two of them is what the service says of their difference, if there is one.  No
\* body has a field whose name every object inherits.
ServiceInUse ==
  /\ Service!JsonAssumption /\ Service!OwnNames
  /\ Schemas = {Service!ExtractSchema[0][v] : v \in Bodies}
  /\ \A old, new \in Schemas :
       LET changes == Service!DiffAt(old, new, <<>>)
       IN  Verdict[<<old, new>>]
             = IF changes = {} THEN "NONE" ELSE Service!ClassifySeverity(changes)

\* What a client of a structure can read: the places it can get to, with what is
\* there.
Reads(structure) == Service!PlacesAt(structure, <<>>)

\* A place a client reads is gone, or has become something else altogether.
Breaks(old, new) ==
  \E p \in Reads(old) : \A r \in Reads(new) : r.path = p.path => r.kind # p.kind

\* A change pages exactly if some client of the old structure can notice it, and
\* is critical exactly if it breaks one.
LEMMA VerdictTells ==
  ASSUME ServiceInUse, NEW old \in Schemas, NEW new \in Schemas
  PROVE  /\ Verdict[<<old, new>>] = "CRITICAL" <=> Breaks(old, new)
         /\ Verdict[<<old, new>>] \in Pipe!Paging <=> ~(Reads(old) \subseteq Reads(new))
<1> DEFINE changes == Service!DiffAt(old, new, <<>>)
           says == Service!ClassifySeverity(changes)
<1>1. Service!JsonAssumption /\ Service!OwnNames
  BY DEF ServiceInUse
<1>2. old \in Service!Nodes /\ new \in Service!Nodes
  BY DEF ServiceInUse, Service!Nodes, Service!JsonAssumption
<1>3. /\ says \in {"INFO", "WARNING", "CRITICAL"}
      /\ says = "INFO" <=> Reads(old) \subseteq Reads(new)
      /\ says = "CRITICAL" <=> Service!SomeLost(old, new, <<>>)
      /\ changes = {} => says = "INFO"
  BY <1>1, <1>2, Service!ClassifiesExactly DEF Reads
<1>4. Service!SomeLost(old, new, <<>>) <=> Breaks(old, new)
  BY DEF Service!SomeLost, Breaks, Reads
<1>5. Verdict[<<old, new>>] = IF changes = {} THEN "NONE" ELSE says
  BY DEF ServiceInUse
<1> HIDE DEF changes, says
<1>6. QED
  BY <1>3, <1>4, <1>5 DEF Pipe!Paging

\* What the rows of the two tables are, in terms of the system.
LEMMA HistoriesAreSchemas ==
  SystemSafe => [](/\ snapshots \in [Monitors -> Seq(Schemas)]
                   /\ \A i \in DOMAIN incidents : incidents[i].api \in Monitors)
<1>1. Serial!Spec => []Serial!TypeOK
  BY SerialAssumptions, Serial!TypeCorrect
<1>2. Serial!TypeOK => /\ snapshots \in [Monitors -> Seq(Schemas)]
                       /\ \A i \in DOMAIN incidents : incidents[i].api \in Monitors
  BY DEF Serial!TypeOK, Serial!Incident
<1>3. QED
  BY <1>1, <1>2, SystemIsSerial, PTL

\* No schema incident is a false alarm to clients: two successive structures in its
\* monitor's history differ so that some client of the first can notice, and the
\* incident is critical exactly if the change breaks one.
IncidentsTellClients ==
  \A i \in DOMAIN incidents :
    incidents[i].type = "SCHEMA_CHANGE" =>
      LET history == snapshots[incidents[i].api]
      IN  \E n \in 1 .. Len(history) - 1 :
            /\ ~(Reads(history[n]) \subseteq Reads(history[n + 1]))
            /\ incidents[i].severity = "CRITICAL" <=> Breaks(history[n], history[n + 1])

\* From an endpoint's answers to the incidents table (extractSchema, hashSchema,
\* captureSchemaSnapshot, diffSchemas, classifySeverity,
\* handleSchemaChangeIncident): polled by the scheduler, a monitor has no schema
\* incident without such a change, whatever fails and across restarts.
THEOREM SystemIncidentsTellClients ==
  ServiceInUse => (SystemSafe => []IncidentsTellClients)
<1> SUFFICES ASSUME ServiceInUse PROVE SystemSafe => []IncidentsTellClients
  OBVIOUS
<1>1. Serial!Spec => []Serial!IncidentsTellChanges
  BY SerialAssumptions, Serial!IncidentsAreAboutChanges
<1>2. ASSUME Serial!IncidentsTellChanges, Serial!TypeOK PROVE IncidentsTellClients
  <2> SUFFICES ASSUME NEW i \in DOMAIN incidents, incidents[i].type = "SCHEMA_CHANGE"
               PROVE  LET history == snapshots[incidents[i].api]
                      IN  \E n \in 1 .. Len(history) - 1 :
                            /\ ~(Reads(history[n]) \subseteq Reads(history[n + 1]))
                            /\ incidents[i].severity = "CRITICAL"
                                 <=> Breaks(history[n], history[n + 1])
    BY DEF IncidentsTellClients
  <2> DEFINE history == snapshots[incidents[i].api]
  <2>1. PICK n \in 1 .. Len(history) - 1 :
          Verdict[<<history[n], history[n + 1]>>] = incidents[i].severity
    BY <1>2 DEF Serial!IncidentsTellChanges, Serial!ChangedBy
  <2>2. incidents[i].severity \in Pipe!Paging /\ history \in Seq(Schemas)
    BY <1>2 DEF Serial!TypeOK, Serial!Incident, Pipe!Paging
  <2>3. history[n] \in Schemas /\ history[n + 1] \in Schemas
    BY <2>2
  <2>4. /\ Verdict[<<history[n], history[n + 1]>>] = "CRITICAL" <=> Breaks(history[n], history[n + 1])
        /\ Verdict[<<history[n], history[n + 1]>>] \in Pipe!Paging
             <=> ~(Reads(history[n]) \subseteq Reads(history[n + 1]))
    BY <2>3, VerdictTells
  <2>5. QED
    BY <2>1, <2>2, <2>4
<1>3. Serial!Spec => []Serial!TypeOK
  BY SerialAssumptions, Serial!TypeCorrect
<1>4. QED
  BY <1>1, <1>2, <1>3, SystemIsSerial, PTL

\* And no client is left in the dark: a change that some client of the old
\* structure can notice has a schema incident of its monitor, opened for it or
\* still open when it came and not resolved before it, unless a call was cut short
\* between this snapshot and its incident (the latest change may still be on its
\* way).
ClientsAreWarned ==
  \A m \in monitors : \A n \in 2 .. Len(snapshots[m]) :
    /\ ~(Reads(snapshots[m][n - 1]) \subseteq Reads(snapshots[m][n]))
    /\ n \notin lost[m]
    /\ n < Len(snapshots[m]) \/ Pipe!InProgress(m) = {}
    => \E i \in DOMAIN incidents :
         /\ incidents[i].api = m
         /\ incidents[i].type = "SCHEMA_CHANGE"
         /\ incidents[i].openedAt <= n
         /\ incidents[i].status # "RESOLVED" \/ incidents[i].resolvedAt >= n

\* From an endpoint's answers to the incidents table once more: whatever users do,
\* whatever fails and across restarts, a change is missed only where lost has it.
THEOREM SystemWarnsClients ==
  ServiceInUse => (SystemSafe => []ClientsAreWarned)
<1> SUFFICES ASSUME ServiceInUse PROVE SystemSafe => []ClientsAreWarned
  OBVIOUS
<1>1. ASSUME Pipe!BreakingChangeLeavesIncident, Serial!TypeOK PROVE ClientsAreWarned
  <2> SUFFICES ASSUME NEW m \in monitors, NEW n \in 2 .. Len(snapshots[m]),
                      ~(Reads(snapshots[m][n - 1]) \subseteq Reads(snapshots[m][n])),
                      n \notin lost[m],
                      n < Len(snapshots[m]) \/ Pipe!InProgress(m) = {}
               PROVE  \E i \in DOMAIN incidents :
                        /\ incidents[i].api = m
                        /\ incidents[i].type = "SCHEMA_CHANGE"
                        /\ incidents[i].openedAt <= n
                        /\ \/ incidents[i].status # "RESOLVED"
                           \/ incidents[i].resolvedAt >= n
    BY DEF ClientsAreWarned
  <2>1. snapshots[m] \in Seq(Schemas)
    BY <1>1 DEF Serial!TypeOK
  <2>2. snapshots[m][n - 1] \in Schemas /\ snapshots[m][n] \in Schemas
    BY <2>1
  <2>3. Verdict[<<snapshots[m][n - 1], snapshots[m][n]>>] \in Pipe!Paging
    BY <2>2, VerdictTells
  <2>4. PICK i \in DOMAIN incidents : Pipe!OpenAtSnapshot(i, m, n)
    BY <1>1, <2>3 DEF Pipe!BreakingChangeLeavesIncident
  <2>5. QED
    BY <2>4 DEF Pipe!OpenAtSnapshot, Pipe!OPEN_STATUSES
<1>2. Serial!Spec => []Serial!TypeOK
  BY SerialAssumptions, Serial!TypeCorrect
<1>3. QED
  BY <1>1, <1>2, SystemMissesNoBreakingChange, SystemIsSerial, PTL

=============================================================================
