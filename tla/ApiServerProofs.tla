--------------------------- MODULE ApiServerProofs ---------------------------
(***************************************************************************)
(* Theorems about ApiServer, for any number of requests, addresses, users  *)
(* and monitors.                                                           *)
(***************************************************************************)
EXTENDS ApiServer, FiniteSetTheorems, SequenceTheorems, TLAPS

-----------------------------------------------------------------------------
(* Types.  TypeOK is inductive with what the stage of a request says of its *)
(* kind and its target.                                                    *)

AddressStages == {"findingAddress", "creatingUser"}

Shape(q) ==
  /\ q.kind \in {"register", "login"} => q.target \in Addresses
  /\ q.kind \in Monitored => q.target \in Monitors
  /\ q.stage \in AddressStages => q.kind \in {"register", "login"}
  /\ q.stage = "creatingUser" => q.kind = "register"
  /\ q.stage = "findingMonitor" => q.kind \in Monitored
  /\ q.stage = "reading" => q.kind = "metrics"
  /\ q.stage = "writing" => q.kind \in {"create", "update", "delete"}
  /\ q.status # 0 <=> q.stage = "answered"
  /\ q.stage = "arriving" => q.kind = "none"

RequestOK(q) == q \in Request /\ Shape(q)

TypeInv == TypeOK /\ \A r \in Requests : RequestOK(request[r])

LEMMA InitTypeInv == Init => TypeInv
<1> SUFFICES ASSUME Init PROVE TypeInv
  OBVIOUS
<1>1. RequestOK(Arriving)
  BY ServerAssumption DEF RequestOK, Shape, Arriving, Request, AddressStages,
                          Monitored, Kinds, Stages, Health, Statuses
<1>2. <<>> \in Seq(BOOLEAN) /\ Len(<<>>) = 0
  OBVIOUS
<1>3. TypeOK
  BY <1>1, <1>2, ServerAssumption DEF Init, TypeOK, Users, RequestOK
<1>4. QED
  BY <1>1, <1>3 DEF Init, TypeInv

\* The two ways to change a request, as one record replaced.
LEMMA AnsweredIs ==
  ASSUME TypeInv, NEW r \in Requests, NEW status, Answered(r, status)
  PROVE  request' = [request EXCEPT ![r] =
           [request[r] EXCEPT !.stage = "answered", !.status = status]]
BY DEF Answered, TypeInv, TypeOK

LEMMA GoesIs ==
  ASSUME TypeInv, NEW r \in Requests, NEW stage, Goes(r, stage)
  PROVE  request' = [request EXCEPT ![r] = [request[r] EXCEPT !.stage = stage]]
BY DEF Goes, TypeInv, TypeOK

LEMMA AnswerInRequest ==
  ASSUME NEW q \in Request, NEW status \in Statuses
  PROVE  [q EXCEPT !.stage = "answered", !.status = status] \in Request
<1>1. "answered" \in Stages
  BY DEF Stages
<1>2. QED
  BY <1>1 DEF Request

LEMMA AnsweredOK ==
  ASSUME TypeInv, NEW r \in Requests, NEW status \in Statuses \ {0},
         Answered(r, status)
  PROVE  /\ request' \in [Requests -> Request]
         /\ \A q \in Requests : RequestOK(request'[q])
<1> DEFINE q == [request[r] EXCEPT !.stage = "answered", !.status = status]
<1>1. RequestOK(request[r])
  BY DEF TypeInv
<1>2. q \in Request
  BY <1>1, AnswerInRequest DEF RequestOK
<1>3. /\ q.stage = "answered" /\ q.status = status /\ q.kind = request[r].kind
      /\ q.target = request[r].target
  BY <1>1 DEF RequestOK, Request
<1>4. RequestOK(q)
  BY <1>1, <1>2, <1>3 DEF RequestOK, Shape, AddressStages
<1>5. request' = [request EXCEPT ![r] = q]
  BY AnsweredIs
<1>6. QED
  BY <1>4, <1>5 DEF TypeInv, TypeOK, RequestOK

\* A step that replaces a request by a good one and leaves the tables alone.
LEMMA RequestFrame ==
  ASSUME TypeInv, NEW r \in Requests, NEW q, RequestOK(q),
         request' = [request EXCEPT ![r] = q], UNCHANGED tables
  PROVE  TypeInv'
BY DEF TypeInv, TypeOK, RequestOK, tables

LEMMA ArriveType == ASSUME TypeInv, NEW r \in Requests, Arrive(r) PROVE TypeInv'
<1> DEFINE q == request[r]
<1>1. q \in Request /\ q.stage = "arriving" /\ q.status = 0 /\ UNCHANGED tables
  BY DEF TypeInv, RequestOK, Shape, Arrive
<1>2. CASE \E kind \in {"register", "login"}, e \in Addresses :
              request' = [request EXCEPT ![r].kind = kind, ![r].target = e,
                                         ![r].stage = "findingAddress"]
  <2>1. PICK kind \in {"register", "login"}, e \in Addresses :
          request' = [request EXCEPT ![r].kind = kind, ![r].target = e,
                                     ![r].stage = "findingAddress"]
    BY <1>2
  <2>2. request' = [request EXCEPT ![r] =
          [q EXCEPT !.kind = kind, !.target = e, !.stage = "findingAddress"]]
    BY <2>1 DEF TypeInv, TypeOK
  <2> DEFINE p == [q EXCEPT !.kind = kind, !.target = e, !.stage = "findingAddress"]
  <2>3. RequestOK(p)
    <3>1. p \in Request
      BY <1>1 DEF Request, Kinds, Stages
    <3>2. p.kind = kind /\ p.target = e /\ p.stage = "findingAddress" /\ p.status = 0
      BY <1>1 DEF Request
    <3>3. QED
      BY <3>1, <3>2 DEF RequestOK, Shape, AddressStages, Monitored
  <2>4. QED
    BY <1>1, <2>2, <2>3, RequestFrame
<1>3. CASE \E u \in Users :
              request' = [request EXCEPT ![r].kind = "create", ![r].by = u,
                                         ![r].stage = "writing"]
  <2>1. PICK u \in Users :
          request' = [request EXCEPT ![r].kind = "create", ![r].by = u,
                                     ![r].stage = "writing"]
    BY <1>3
  <2>2. request' = [request EXCEPT ![r] =
          [q EXCEPT !.kind = "create", !.by = u, !.stage = "writing"]]
    BY <2>1 DEF TypeInv, TypeOK
  <2> DEFINE p == [q EXCEPT !.kind = "create", !.by = u, !.stage = "writing"]
  <2>3. RequestOK(p)
    <3>1. p \in Request
      BY <1>1 DEF Request, Kinds, Stages
    <3>2. p.kind = "create" /\ p.stage = "writing" /\ p.status = 0
      BY <1>1 DEF Request
    <3>3. QED
      BY <3>1, <3>2 DEF RequestOK, Shape, AddressStages, Monitored
  <2>4. QED
    BY <1>1, <2>2, <2>3, RequestFrame
<1>4. CASE \E u \in Users, kind \in Monitored, m \in Monitors :
              request' = [request EXCEPT ![r].kind = kind, ![r].by = u, ![r].target = m,
                                         ![r].stage = "findingMonitor"]
  <2>1. PICK u \in Users, kind \in Monitored, m \in Monitors :
          request' = [request EXCEPT ![r].kind = kind, ![r].by = u, ![r].target = m,
                                     ![r].stage = "findingMonitor"]
    BY <1>4
  <2>2. request' = [request EXCEPT ![r] =
          [q EXCEPT !.kind = kind, !.by = u, !.target = m, !.stage = "findingMonitor"]]
    BY <2>1 DEF TypeInv, TypeOK
  <2> DEFINE p == [q EXCEPT !.kind = kind, !.by = u, !.target = m,
                            !.stage = "findingMonitor"]
  <2>3. RequestOK(p)
    <3>1. p \in Request
      BY <1>1 DEF Request, Kinds, Stages
    <3>2. p.kind = kind /\ p.target = m /\ p.stage = "findingMonitor" /\ p.status = 0
      BY <1>1 DEF Request
    <3>3. QED
      BY <3>1, <3>2 DEF RequestOK, Shape, AddressStages, Monitored
  <2>4. QED
    BY <1>1, <2>2, <2>3, RequestFrame
<1>5. CASE Answered(r, 401)
  BY <1>1, <1>5, AnsweredOK DEF TypeInv, TypeOK, tables, Statuses
<1>6. QED
  BY <1>2, <1>3, <1>4, <1>5, ZenonT(60) DEF Arrive

LEMMA FindAddressType == ASSUME TypeInv, NEW r \in Requests, FindAddress(r) PROVE TypeInv'
<1>1. CASE Answered(r, 409)
  BY <1>1, AnsweredOK DEF Statuses, FindAddress, TypeInv, TypeOK, tables
<1>2. CASE Goes(r, "creatingUser")
  <2> DEFINE p == [request[r] EXCEPT !.stage = "creatingUser"]
  <2>1. RequestOK(p)
    <3>1. RequestOK(request[r]) /\ request[r].stage = "findingAddress"
      BY DEF FindAddress, TypeInv
    <3>2. p \in Request
      BY <3>1 DEF RequestOK, Request, Stages
    <3>3. /\ p.stage = "creatingUser" /\ p.kind = "register"
          /\ p.target \in Addresses /\ p.status = 0
      BY <3>1 DEF FindAddress, RequestOK, Shape, Request
    <3>4. QED
      BY <3>2, <3>3 DEF RequestOK, Shape, AddressStages, Monitored
  <2>2. QED
    BY <1>2, <2>1, GoesIs, RequestFrame DEF FindAddress
<1>3. QED
  BY <1>1, <1>2 DEF FindAddress

LEMMA LoginType == ASSUME TypeInv, NEW r \in Requests, Login(r) PROVE TypeInv'
<1> DEFINE u == account[request[r].target]
           q == [request[r] EXCEPT !.stage = "answered", !.status = 200, !.by = u]
<1>1. CASE Answered(r, 401)
  BY <1>1, AnsweredOK DEF Statuses, Login, TypeInv, TypeOK, tables
<1>2. CASE request' = [request EXCEPT ![r].stage = "answered", ![r].status = 200,
                                      ![r].by = u]
  <2>1. request' = [request EXCEPT ![r] = q]
    BY <1>2 DEF TypeInv, TypeOK
  <2>2. request[r].target \in Addresses
    BY DEF Login, TypeInv, RequestOK, Shape, AddressStages
  <2>3. u \in Users \cup {None}
    BY <2>2 DEF TypeInv, TypeOK
  <2>4. RequestOK(q)
    <3>1. request[r] \in Request /\ request[r].kind = "login"
      BY DEF Login, TypeInv, TypeOK
    <3>2. "answered" \in Stages /\ 200 \in Statuses
      BY DEF Stages, Statuses
    <3>3. q \in Request
      BY <2>3, <3>1, <3>2 DEF Request
    <3>4. /\ q.stage = "answered" /\ q.status = 200 /\ q.kind = "login"
          /\ q.target = request[r].target
      BY <3>1 DEF Request
    <3>5. QED
      BY <2>2, <3>3, <3>4 DEF RequestOK, Shape, AddressStages, Monitored
  <2>5. QED
    BY <2>1, <2>4, RequestFrame DEF Login
<1>3. QED
  BY <1>1, <1>2 DEF Login

LEMMA CreateUserType == ASSUME TypeInv, NEW r \in Requests, CreateUser(r) PROVE TypeInv'
<1>1. account' \in [Addresses -> Users \cup {None}]
  BY DEF CreateUser, TypeInv, TypeOK, Users
<1>2. Answered(r, 201) \/ Answered(r, 500)
  BY DEF CreateUser
<1>3. QED
  BY <1>1, <1>2, AnsweredOK DEF Statuses, CreateUser, TypeInv, TypeOK

LEMMA FindMonitorType == ASSUME TypeInv, NEW r \in Requests, FindMonitor(r) PROVE TypeInv'
<1>1. CASE Answered(r, 404)
  BY <1>1, AnsweredOK DEF Statuses, FindMonitor, TypeInv, TypeOK, tables
<1>2. CASE Goes(r, IF request[r].kind = "metrics" THEN "reading" ELSE "writing")
  <2> DEFINE stage == IF request[r].kind = "metrics" THEN "reading" ELSE "writing"
             p == [request[r] EXCEPT !.stage = stage]
  <2>1. RequestOK(p)
    <3>1. RequestOK(request[r]) /\ request[r].stage = "findingMonitor"
      BY DEF FindMonitor, TypeInv
    <3>2. p \in Request
      BY <3>1 DEF RequestOK, Request, Stages
    <3>3. /\ p.stage = stage /\ p.kind = request[r].kind /\ p.kind \in Monitored
          /\ p.target \in Monitors /\ p.status = 0
      BY <3>1 DEF RequestOK, Shape, Request
    <3>4. QED
      BY <3>2, <3>3 DEF RequestOK, Shape, AddressStages, Monitored
  <2>2. QED
    BY <1>2, <2>1, GoesIs, RequestFrame DEF FindMonitor
<1>3. QED
  BY <1>1, <1>2 DEF FindMonitor

LEMMA CreateMonitorType == ASSUME TypeInv, NEW r \in Requests, CreateMonitor(r) PROVE TypeInv'
<1>1. PICK m \in unused : /\ owner' = [owner EXCEPT ![m] = request[r].by]
                          /\ holder' = [holder EXCEPT ![m] = request[r].by]
                          /\ editor' = [editor EXCEPT ![m] = r]
                          /\ unused' = unused \ {m}
  BY DEF CreateMonitor
<1>2. request[r].by \in Users \cup {None}
  BY DEF TypeInv, TypeOK, Request
<1>3. /\ owner' \in [Monitors -> Users \cup {None}]
      /\ holder' \in [Monitors -> Users \cup {None}]
      /\ editor' \in [Monitors -> Requests \cup {None}]
      /\ unused' \subseteq Monitors
  BY <1>1, <1>2 DEF TypeInv, TypeOK
<1>4. \A n \in Monitors : /\ owner'[n] = None => checks[n] = <<>>
                          /\ n \in unused' => owner'[n] = None
  BY <1>1 DEF TypeInv, TypeOK
<1>5. /\ request' \in [Requests -> Request]
      /\ \A q \in Requests : RequestOK(request'[q])
  BY AnsweredOK DEF CreateMonitor, Statuses
<1>6. QED
  BY <1>3, <1>4, <1>5 DEF CreateMonitor, TypeInv, TypeOK

LEMMA UpdateMonitorType == ASSUME TypeInv, NEW r \in Requests, UpdateMonitor(r) PROVE TypeInv'
<1>1. editor' \in [Monitors -> Requests \cup {None}]
  BY DEF UpdateMonitor, TypeInv, TypeOK
<1>2. Answered(r, 500) \/ Answered(r, 200)
  BY DEF UpdateMonitor
<1>3. QED
  BY <1>1, <1>2, AnsweredOK DEF Statuses, UpdateMonitor, TypeInv, TypeOK

LEMMA DeleteMonitorType == ASSUME TypeInv, NEW r \in Requests, DeleteMonitor(r) PROVE TypeInv'
<1> DEFINE m == request[r].target
<1>1. m \in Monitors
  BY DEF DeleteMonitor, TypeInv, RequestOK, Shape, Monitored
<1>2. Answered(r, 500) \/ Answered(r, 204)
  BY DEF DeleteMonitor
<1>3. /\ request' \in [Requests -> Request]
      /\ \A q \in Requests : RequestOK(request'[q])
  BY <1>2, AnsweredOK DEF Statuses
<1>4. CASE UNCHANGED <<owner, editor, checks, old>>
  BY <1>3, <1>4 DEF DeleteMonitor, TypeInv, TypeOK
<1>5. CASE /\ owner' = [owner EXCEPT ![m] = None]
           /\ editor' = [editor EXCEPT ![m] = r]
           /\ checks' = [checks EXCEPT ![m] = <<>>]
           /\ old' = [old EXCEPT ![m] = 0]
  <2>1. <<>> \in Seq(BOOLEAN) /\ Len(<<>>) = 0
    OBVIOUS
  <2>2. /\ owner' \in [Monitors -> Users \cup {None}]
        /\ editor' \in [Monitors -> Requests \cup {None}]
        /\ checks' \in [Monitors -> Seq(BOOLEAN)]
        /\ old' \in [Monitors -> Nat]
    BY <1>5, <2>1 DEF TypeInv, TypeOK
  <2>3. \A n \in Monitors : /\ Len(checks'[n]) <= MaxChecks
                            /\ old'[n] \in 0 .. Len(checks'[n])
                            /\ owner'[n] = None => checks'[n] = <<>>
                            /\ n \in unused => owner'[n] = None
    BY <1>5, <2>1, ServerAssumption DEF TypeInv, TypeOK
  <2>4. QED
    BY <1>3, <2>2, <2>3 DEF DeleteMonitor, TypeInv, TypeOK
<1>6. QED
  BY <1>4, <1>5 DEF DeleteMonitor

\* What the reads of the metrics return.
LEMMA ReadsInRange ==
  ASSUME TypeInv, NEW m \in Monitors
  PROVE  /\ Len(checks[m]) \in 0 .. MaxChecks
         /\ Latest(checks[m]) \in {"unknown", "healthy", "down"}
         /\ Cardinality(Recent(m)) \in 0 .. MaxChecks
         /\ Cardinality({i \in Recent(m) : checks[m][i]}) \in 0 .. MaxChecks
<1> DEFINE n == Len(checks[m])
           S == {i \in Recent(m) : checks[m][i]}
<1>1. n \in Nat /\ n <= MaxChecks /\ old[m] \in 0 .. n
  BY DEF TypeInv, TypeOK
<1>2. \A k \in Nat : IsFiniteSet(1 .. k) /\ Cardinality(1 .. k) = k
  <2> SUFFICES ASSUME NEW k \in Nat PROVE IsFiniteSet(1 .. k) /\ Cardinality(1 .. k) = k
    OBVIOUS
  <2>1. 1 \in Int /\ k \in Int
    OBVIOUS
  <2>2. IsFiniteSet(1 .. k) /\ Cardinality(1 .. k) = IF 1 > k THEN 0 ELSE k - 1 + 1
    BY <2>1, FS_Interval
  <2>3. QED
    BY <2>2
<1>3. Recent(m) \subseteq 1 .. n /\ S \subseteq 1 .. n
  BY <1>1 DEF Recent
<1>4. \A T \in SUBSET (1 .. n) : Cardinality(T) \in Nat /\ Cardinality(T) <= n
  <2>1. IsFiniteSet(1 .. n) /\ Cardinality(1 .. n) = n
    BY <1>1, <1>2
  <2>2. QED
    BY <2>1, FS_Subset, FS_CardinalityType
<1>5. Cardinality(Recent(m)) \in 0 .. MaxChecks /\ Cardinality(S) \in 0 .. MaxChecks
  BY <1>1, <1>3, <1>4, ServerAssumption
<1>6. QED
  BY <1>1, <1>5, ServerAssumption DEF Latest

LEMMA ReadType ==
  ASSUME TypeInv, NEW r \in Requests, NEW q \in Request, Read(r, q),
         q.stage = "reading", q.kind = "metrics", q.target \in Monitors, q.status = 0
  PROVE  TypeInv'
<1> DEFINE p == [q EXCEPT !.stage = "answered", !.status = 200]
<1>1. RequestOK(q)
  BY DEF RequestOK, Shape, AddressStages, Monitored
<1>2. p \in Request
  <2>1. 200 \in Statuses
    BY DEF Statuses
  <2>2. QED
    BY <2>1, AnswerInRequest
<1>3. /\ p.stage = "answered" /\ p.status = 200 /\ p.kind = "metrics"
      /\ p.target = q.target
  BY DEF Request
<1>4. RequestOK(p)
  BY <1>2, <1>3 DEF RequestOK, Shape, AddressStages, Monitored
<1>5. UNCHANGED tables
  BY DEF Read
<1>6. CASE request' = [request EXCEPT ![r] = q]
  BY <1>1, <1>5, <1>6, RequestFrame
<1>7. CASE request' = [request EXCEPT ![r] = p]
  BY <1>4, <1>5, <1>7, RequestFrame
<1>8. QED
  BY <1>6, <1>7 DEF Read

LEMMA ReadLatestType == ASSUME TypeInv, NEW r \in Requests, ReadLatest(r) PROVE TypeInv'
<1> DEFINE m == request[r].target
           q == [request[r] EXCEPT !.latest = Len(checks[m]), !.health = Latest(checks[m])]
<1>1. Read(r, q)
  BY DEF ReadLatest
<1>2. request[r].stage = "reading" /\ RequestOK(request[r])
  BY <1>1 DEF Read, TypeInv
<1>3. m \in Monitors /\ request[r].kind = "metrics" /\ request[r].status = 0
  BY <1>2 DEF RequestOK, Shape, Monitored
<1>4. q \in Request
  BY <1>2, <1>3, ReadsInRange DEF RequestOK, Request, Health
<1>5. q.stage = "reading" /\ q.kind = "metrics" /\ q.target = m /\ q.status = 0
  BY <1>2, <1>3 DEF RequestOK, Request
<1>6. QED
  BY <1>1, <1>3, <1>4, <1>5, ReadType

LEMMA ReadAggregateType == ASSUME TypeInv, NEW r \in Requests, ReadAggregate(r) PROVE TypeInv'
<1> DEFINE m == request[r].target
           q == [request[r] EXCEPT
                   !.upTo = Len(checks[m]),
                   !.total = Cardinality(Recent(m)),
                   !.successful = Cardinality({i \in Recent(m) : checks[m][i]})]
<1>1. Read(r, q)
  BY DEF ReadAggregate
<1>2. request[r].stage = "reading" /\ RequestOK(request[r])
  BY <1>1 DEF Read, TypeInv
<1>3. m \in Monitors /\ request[r].kind = "metrics" /\ request[r].status = 0
  BY <1>2 DEF RequestOK, Shape, Monitored
<1>4. q \in Request
  BY <1>2, <1>3, ReadsInRange DEF RequestOK, Request, Health
<1>5. q.stage = "reading" /\ q.kind = "metrics" /\ q.target = m /\ q.status = 0
  BY <1>2, <1>3 DEF RequestOK, Request
<1>6. QED
  BY <1>1, <1>3, <1>4, <1>5, ReadType

LEMMA CheckSavedType ==
  ASSUME TypeInv, NEW m \in Monitors, NEW success \in BOOLEAN, CheckSaved(m, success)
  PROVE  TypeInv'
<1>1. /\ Append(checks[m], success) \in Seq(BOOLEAN)
      /\ Len(Append(checks[m], success)) = Len(checks[m]) + 1
  BY DEF TypeInv, TypeOK
<1>2. checks' \in [Monitors -> Seq(BOOLEAN)]
  BY <1>1 DEF CheckSaved, TypeInv, TypeOK
<1>3. \A n \in Monitors : /\ Len(checks'[n]) <= MaxChecks
                          /\ old[n] \in 0 .. Len(checks'[n])
                          /\ owner[n] = None => checks'[n] = <<>>
  BY <1>1, ServerAssumption DEF CheckSaved, TypeInv, TypeOK
<1>4. QED
  BY <1>2, <1>3 DEF CheckSaved, TypeInv, TypeOK

LEMMA CheckAgesType == ASSUME TypeInv, NEW m \in Monitors, CheckAges(m) PROVE TypeInv'
<1>1. Len(checks[m]) \in Nat /\ old[m] \in Nat
  BY DEF TypeInv, TypeOK
<1>2. /\ old' \in [Monitors -> Nat]
      /\ \A n \in Monitors : old'[n] \in 0 .. Len(checks[n])
  BY <1>1 DEF CheckAges, TypeInv, TypeOK
<1>3. QED
  BY <1>2 DEF CheckAges, TypeInv, TypeOK

LEMMA StepTypeInv == TypeInv /\ [Next]_vars => TypeInv'
<1> SUFFICES ASSUME TypeInv, [Next]_vars PROVE TypeInv'
  OBVIOUS
<1>1. CASE UNCHANGED vars
  BY <1>1 DEF vars, tables, TypeInv, TypeOK
<1>2. ASSUME NEW r \in Requests, Arrive(r) PROVE TypeInv'
  BY <1>2, ArriveType
<1>3. ASSUME NEW r \in Requests, FindAddress(r) PROVE TypeInv'
  BY <1>3, FindAddressType
<1>4. ASSUME NEW r \in Requests, CreateUser(r) PROVE TypeInv'
  BY <1>4, CreateUserType
<1>5. ASSUME NEW r \in Requests, Login(r) PROVE TypeInv'
  BY <1>5, LoginType
<1>6. ASSUME NEW r \in Requests, FindMonitor(r) PROVE TypeInv'
  BY <1>6, FindMonitorType
<1>7. ASSUME NEW r \in Requests, CreateMonitor(r) PROVE TypeInv'
  BY <1>7, CreateMonitorType
<1>8. ASSUME NEW r \in Requests, UpdateMonitor(r) PROVE TypeInv'
  BY <1>8, UpdateMonitorType
<1>9. ASSUME NEW r \in Requests, DeleteMonitor(r) PROVE TypeInv'
  BY <1>9, DeleteMonitorType
<1>10. ASSUME NEW r \in Requests, ReadLatest(r) \/ ReadAggregate(r) PROVE TypeInv'
  BY <1>10, ReadLatestType, ReadAggregateType
<1>11. ASSUME NEW m \in Monitors, NEW success \in BOOLEAN, CheckSaved(m, success)
       PROVE  TypeInv'
  BY <1>11, CheckSavedType
<1>12. ASSUME NEW m \in Monitors, CheckAges(m) PROVE TypeInv'
  BY <1>12, CheckAgesType
<1>13. QED
  BY <1>1, <1>2, <1>3, <1>4, <1>5, <1>6, <1>7, <1>8, <1>9, <1>10, <1>11, <1>12 DEF Next

LEMMA TypeInvariant == Spec => []TypeInv
BY InitTypeInv, StepTypeInv, PTL DEF Spec

\* TypeOK: the tables and the requests keep their types; no check outlives its
\* monitor (apiMonitorService, deleteApiMonitor, with the cascade).
THEOREM ServerTypeCorrect == Spec => []TypeOK
<1>1. TypeInv => TypeOK
  BY DEF TypeInv
<1>2. QED
  BY <1>1, TypeInvariant, PTL

-----------------------------------------------------------------------------
(* Requests.  A step is the step of one request, or of a check.            *)

Others(r) == \A q \in Requests \ {r} : request'[q] = request[q]

\* What the statements of a request do to its record.
LEMMA AnsweredFacts ==
  ASSUME TypeInv, NEW r \in Requests, NEW status, Answered(r, status)
  PROVE  /\ Others(r)
         /\ request'[r].stage = "answered" /\ request'[r].status = status
         /\ request'[r].kind = request[r].kind
         /\ request'[r].target = request[r].target
         /\ request'[r].by = request[r].by
<1> DEFINE q == [request[r] EXCEPT !.stage = "answered", !.status = status]
<1>1. request \in [Requests -> Request] /\ request[r] \in Request
  BY DEF TypeInv, TypeOK
<1>2. Others(r) /\ request'[r] = q
  <2>1. request' = [request EXCEPT ![r] = q]
    BY AnsweredIs
  <2>2. QED
    BY <1>1, <2>1 DEF Others
<1>3. /\ q.stage = "answered" /\ q.status = status /\ q.kind = request[r].kind
      /\ q.target = request[r].target /\ q.by = request[r].by
  BY <1>1 DEF Request
<1>4. QED
  BY <1>2, <1>3

LEMMA GoesFacts ==
  ASSUME TypeInv, NEW r \in Requests, NEW stage, Goes(r, stage)
  PROVE  /\ Others(r)
         /\ request'[r].stage = stage /\ request'[r].status = request[r].status
         /\ request'[r].kind = request[r].kind
         /\ request'[r].target = request[r].target
         /\ request'[r].by = request[r].by
<1> DEFINE q == [request[r] EXCEPT !.stage = stage]
<1>1. request \in [Requests -> Request] /\ request[r] \in Request
  BY DEF TypeInv, TypeOK
<1>2. Others(r) /\ request'[r] = q
  BY <1>1, GoesIs DEF Others
<1>3. /\ q.stage = stage /\ q.status = request[r].status /\ q.kind = request[r].kind
      /\ q.target = request[r].target /\ q.by = request[r].by
  BY <1>1 DEF Request
<1>4. QED
  BY <1>2, <1>3

LEMMA ArriveFacts ==
  ASSUME TypeInv, NEW r \in Requests, Arrive(r)
  PROVE  /\ Others(r) /\ request[r].stage = "arriving" /\ UNCHANGED tables
         /\ \/ /\ request'[r].kind = "none" /\ request'[r].stage = "answered"
               /\ request'[r].status = 401
            \/ /\ request'[r].status = 0
               /\ request'[r].stage \in {"findingAddress", "writing", "findingMonitor"}
               /\ request'[r].stage = "writing" => request'[r].kind = "create"
               /\ request'[r].stage = "findingMonitor" => request'[r].target \notin unused
<1> DEFINE q == request[r]
<1>1. /\ request \in [Requests -> Request] /\ q \in Request /\ UNCHANGED tables
      /\ q.stage = "arriving" /\ q.kind = "none" /\ q.status = 0
  BY DEF Arrive, TypeInv, TypeOK, RequestOK, Shape
<1>2. CASE Answered(r, 401)
  BY <1>1, <1>2, AnsweredFacts
<1>3. ASSUME NEW kind \in {"register", "login"}, NEW e \in Addresses,
             request' = [request EXCEPT ![r].kind = kind, ![r].target = e,
                                        ![r].stage = "findingAddress"]
      PROVE  Others(r) /\ request'[r].status = 0 /\ request'[r].stage = "findingAddress"
  <2>1. Others(r)
    BY <1>1, <1>3 DEF Others
  <2>2. request'[r] = [q EXCEPT !.kind = kind, !.target = e, !.stage = "findingAddress"]
    BY <1>1, <1>3
  <2>3. QED
    BY <1>1, <2>1, <2>2 DEF Request
<1>4. ASSUME NEW u \in Users,
             request' = [request EXCEPT ![r].kind = "create", ![r].by = u,
                                        ![r].stage = "writing"]
      PROVE  /\ Others(r) /\ request'[r].status = 0
             /\ request'[r].stage = "writing" /\ request'[r].kind = "create"
  <2>1. Others(r)
    BY <1>1, <1>4 DEF Others
  <2>2. request'[r] = [q EXCEPT !.kind = "create", !.by = u, !.stage = "writing"]
    BY <1>1, <1>4
  <2>3. QED
    BY <1>1, <2>1, <2>2 DEF Request
<1>5. ASSUME NEW u \in Users, NEW kind \in Monitored, NEW m \in Monitors \ unused,
             request' = [request EXCEPT ![r].kind = kind, ![r].by = u, ![r].target = m,
                                        ![r].stage = "findingMonitor"]
      PROVE  /\ Others(r) /\ request'[r].status = 0
             /\ request'[r].stage = "findingMonitor" /\ request'[r].target = m
  <2>1. Others(r)
    BY <1>1, <1>5 DEF Others
  <2>2. request'[r] = [q EXCEPT !.kind = kind, !.by = u, !.target = m,
                                !.stage = "findingMonitor"]
    BY <1>1, <1>5
  <2>3. QED
    BY <1>1, <2>1, <2>2 DEF Request
<1>6. CASE \E kind \in {"register", "login"}, e \in Addresses :
              request' = [request EXCEPT ![r].kind = kind, ![r].target = e,
                                         ![r].stage = "findingAddress"]
  <2>1. Others(r) /\ request'[r].status = 0 /\ request'[r].stage = "findingAddress"
    BY <1>3, <1>6, Zenon
  <2>2. QED
    BY <1>1, <2>1
<1>7. CASE \E u \in Users :
              request' = [request EXCEPT ![r].kind = "create", ![r].by = u,
                                         ![r].stage = "writing"]
  BY <1>1, <1>4, <1>7
<1>8. CASE \E u \in Users, kind \in Monitored, m \in Monitors \ unused :
              request' = [request EXCEPT ![r].kind = kind, ![r].by = u, ![r].target = m,
                                         ![r].stage = "findingMonitor"]
  <2>1. /\ Others(r) /\ request'[r].status = 0
        /\ request'[r].stage = "findingMonitor" /\ request'[r].target \notin unused
    BY <1>5, <1>8, Zenon
  <2>2. QED
    BY <1>1, <2>1
<1>9. QED
  BY <1>2, <1>6, <1>7, <1>8 DEF Arrive

LEMMA ReadFacts ==
  ASSUME TypeInv, NEW r \in Requests, ReadLatest(r) \/ ReadAggregate(r)
  PROVE  /\ Others(r) /\ request[r].stage = "reading" /\ UNCHANGED tables
         /\ request'[r].kind = "metrics"
         /\ request'[r].stage \in {"reading", "answered"}
<1>1. PICK q : /\ Read(r, q)
               /\ q \in {[request[r] EXCEPT !.latest = Len(checks[request[r].target]),
                                            !.health = Latest(checks[request[r].target])],
                         [request[r] EXCEPT
                            !.upTo = Len(checks[request[r].target]),
                            !.total = Cardinality(Recent(request[r].target)),
                            !.successful = Cardinality({i \in Recent(request[r].target) :
                                                          checks[request[r].target][i]})]}
  BY DEF ReadLatest, ReadAggregate
<1>2. request[r].stage = "reading" /\ RequestOK(request[r]) /\ UNCHANGED tables
  BY <1>1 DEF Read, TypeInv
<1>3. request[r] \in Request /\ request[r].kind = "metrics"
  BY <1>2 DEF RequestOK, Shape
<1>4. q.kind = "metrics" /\ q.stage = "reading"
  BY <1>1, <1>2, <1>3 DEF Request
<1>5. \/ request' = [request EXCEPT ![r] = q]
      \/ request' = [request EXCEPT ![r] =
                       [q EXCEPT !.stage = "answered", !.status = 200]]
  BY <1>1 DEF Read
<1>6. [q EXCEPT !.stage = "answered", !.status = 200].kind = q.kind
  BY <1>1, <1>3 DEF Request
<1>7. [q EXCEPT !.stage = "answered", !.status = 200].stage = "answered"
  BY <1>1, <1>3 DEF Request
<1>8. QED
  BY <1>2, <1>4, <1>5, <1>6, <1>7 DEF Others, TypeInv, TypeOK

-----------------------------------------------------------------------------
(* Accounts.  An address that is taken stays taken, and a request has an   *)
(* account only when it is answered: so "taken" means by somebody else.    *)

Settled(r) ==
  /\ request[r].kind = "register" /\ request[r].status = 201 =>
       account[request[r].target] = r
  /\ request[r].kind = "register" /\ request[r].status \in {409, 500} =>
       account[request[r].target] \notin {None, r}
  /\ request[r].kind = "login" /\ request[r].status = 200 =>
       request[r].by # None /\ account[request[r].target] = request[r].by
  /\ \A e \in Addresses : account[e] = r => request[r].stage = "answered"

AccountsInv == \A r \in Requests : Settled(r)

LEMMA InitAccounts == Init => AccountsInv
BY ServerAssumption DEF Init, AccountsInv, Settled, Arriving

LEMMA AccountsFrame ==
  ASSUME TypeInv, AccountsInv, NEW r \in Requests, Others(r),
         \A e \in Addresses : account[e] # None => account'[e] = account[e],
         \A e \in Addresses : account'[e] \in {account[e], r},
         Settled(r)'
  PROVE  AccountsInv'
<1> SUFFICES ASSUME NEW q \in Requests PROVE Settled(q)'
  BY DEF AccountsInv
<1>1. CASE q = r
  BY <1>1
<1>2. CASE q # r
  <2>1. request'[q] = request[q] /\ Settled(q) /\ RequestOK(request[q])
    BY <1>2 DEF Others, AccountsInv, TypeInv
  <2>2. q # None
    BY ServerAssumption
  <2>3. request[q].kind \in {"register", "login"} => request[q].target \in Addresses
    BY <2>1 DEF RequestOK, Shape
  <2>4. \A e \in Addresses : account'[e] = q => account[e] = q
    BY <1>2
  <2>5. QED
    BY <2>1, <2>2, <2>3, <2>4 DEF Settled
<1>3. QED
  BY <1>1, <1>2

\* A request with no account that changes no account.
LEMMA AccountsKept ==
  ASSUME TypeInv, AccountsInv, NEW r \in Requests, Others(r), UNCHANGED account,
         request[r].stage # "answered",
         request'[r].kind = "register" =>
           \/ request'[r].status = 0
           \/ /\ request'[r].status \in {409, 500}
              /\ request'[r].target \in Addresses
              /\ account[request'[r].target] # None,
         request'[r].kind = "login" =>
           \/ request'[r].status # 200
           \/ /\ request'[r].by # None
              /\ account[request'[r].target] = request'[r].by
  PROVE  AccountsInv'
<1>1. \A e \in Addresses : account[e] # r
  BY DEF AccountsInv, Settled
<1>2. Settled(r)'
  BY <1>1 DEF Settled
<1>3. QED
  BY <1>2, AccountsFrame

LEMMA StepAccounts == TypeInv /\ AccountsInv /\ [Next]_vars => AccountsInv'
<1> SUFFICES ASSUME TypeInv, AccountsInv, [Next]_vars PROVE AccountsInv'
  OBVIOUS
<1>1. CASE UNCHANGED <<account, request>>
  BY <1>1 DEF AccountsInv, Settled
<1>2. ASSUME NEW r \in Requests, Arrive(r) PROVE AccountsInv'
  BY <1>2, ArriveFacts, AccountsKept DEF tables
<1>3. ASSUME NEW r \in Requests, FindAddress(r) PROVE AccountsInv'
  <2>1. /\ RequestOK(request[r]) /\ request[r].stage = "findingAddress"
        /\ request[r].kind = "register" /\ UNCHANGED account
    BY <1>3 DEF FindAddress, TypeInv, tables
  <2>2. request[r].target \in Addresses /\ request[r].status = 0
    BY <2>1 DEF RequestOK, Shape
  <2>3. CASE Answered(r, 409) /\ account[request[r].target] # None
    BY <2>1, <2>2, <2>3, AnsweredFacts, AccountsKept
  <2>4. CASE Goes(r, "creatingUser")
    BY <2>1, <2>2, <2>4, GoesFacts, AccountsKept
  <2>5. QED
    BY <1>3, <2>3, <2>4 DEF FindAddress
<1>4. ASSUME NEW r \in Requests, CreateUser(r) PROVE AccountsInv'
  <2> DEFINE e == request[r].target
  <2>1. /\ RequestOK(request[r]) /\ request[r].stage = "creatingUser"
        /\ request[r].kind = "register"
    BY <1>4 DEF CreateUser, TypeInv, RequestOK, Shape
  <2>2. e \in Addresses
    BY <2>1 DEF RequestOK, Shape
  <2>3. CASE UNCHANGED account /\ Answered(r, 500) /\ account[e] # None
    BY <2>1, <2>2, <2>3, AnsweredFacts, AccountsKept
  <2>4. CASE /\ account' = [account EXCEPT ![e] = r] /\ Answered(r, 201)
             /\ account[e] = None
    <3>1. /\ account'[e] = r
          /\ \A f \in Addresses : account[f] # None => account'[f] = account[f]
          /\ \A f \in Addresses : account'[f] \in {account[f], r}
      BY <2>2, <2>4 DEF TypeInv, TypeOK
    <3>2. Settled(r)'
      BY <2>1, <2>4, <3>1, AnsweredFacts DEF Settled
    <3>3. QED
      BY <2>4, <3>1, <3>2, AnsweredFacts, AccountsFrame
  <2>5. QED
    BY <1>4, <2>3, <2>4 DEF CreateUser
<1>5. ASSUME NEW r \in Requests, Login(r) PROVE AccountsInv'
  <2>1. /\ request[r] \in Request /\ request[r].stage = "findingAddress"
        /\ request[r].kind = "login" /\ UNCHANGED account
    BY <1>5 DEF Login, TypeInv, TypeOK, tables
  <2>2. CASE Answered(r, 401)
    BY <2>1, <2>2, AnsweredFacts, AccountsKept
  <2>3. CASE /\ account[request[r].target] # None
             /\ request' = [request EXCEPT ![r].stage = "answered", ![r].status = 200,
                                           ![r].by = account[request[r].target]]
    <3>1. /\ Others(r) /\ request'[r].kind = "login"
          /\ request'[r].target = request[r].target
          /\ request'[r].by = account[request[r].target]
      BY <2>1, <2>3 DEF Others, Request, TypeInv, TypeOK
    <3>2. QED
      BY <2>1, <2>3, <3>1, AccountsKept
  <2>4. QED
    BY <1>5, <2>2, <2>3 DEF Login
<1>6. ASSUME NEW r \in Requests, FindMonitor(r) PROVE AccountsInv'
  <2>1. /\ RequestOK(request[r]) /\ request[r].stage = "findingMonitor" /\ UNCHANGED account
    BY <1>6 DEF FindMonitor, TypeInv, tables
  <2>2. request[r].kind \notin {"register", "login"}
    BY <2>1 DEF RequestOK, Shape, Monitored
  <2>3. Others(r) /\ request'[r].kind = request[r].kind
    BY <1>6, AnsweredFacts, GoesFacts DEF FindMonitor
  <2>4. QED
    BY <2>1, <2>2, <2>3, AccountsKept
<1>7. ASSUME NEW r \in Requests,
             CreateMonitor(r) \/ UpdateMonitor(r) \/ DeleteMonitor(r)
      PROVE  AccountsInv'
  <2>1. /\ request[r].stage = "writing" /\ request[r].kind \notin {"register", "login"}
        /\ UNCHANGED account
    BY <1>7 DEF CreateMonitor, UpdateMonitor, DeleteMonitor
  <2>2. Others(r) /\ request'[r].kind = request[r].kind
    BY <1>7, AnsweredFacts DEF CreateMonitor, UpdateMonitor, DeleteMonitor
  <2>3. QED
    BY <2>1, <2>2, AccountsKept
<1>8. ASSUME NEW r \in Requests, ReadLatest(r) \/ ReadAggregate(r) PROVE AccountsInv'
  BY <1>8, ReadFacts, AccountsKept DEF tables
<1>9. CASE Next
  BY <1>1, <1>2, <1>3, <1>4, <1>5, <1>6, <1>7, <1>8, <1>9 DEF Next, CheckSaved, CheckAges
<1>10. QED
  BY <1>1, <1>9 DEF vars, tables

\* RegisteredOwnsAddress: for any number of racing registrations and log-ins,
\* whoever was told of success owns the address, and a refusal had a reason
\* (authService, registerUser and loginUser, with the unique index).
THEOREM RegistrationsAgree == Spec => []RegisteredOwnsAddress
<1>1. AccountsInv => RegisteredOwnsAddress
  BY DEF AccountsInv, Settled, RegisteredOwnsAddress, Done
<1>2. Spec => []AccountsInv
  BY InitAccounts, StepAccounts, TypeInvariant, PTL DEF Spec
<1>3. QED
  BY <1>1, <1>2, PTL

-----------------------------------------------------------------------------
(* Monitors.  A row goes from unused to somebody's to deleted and never    *)
(* back, so what FindMonitor saw is, at the write, either true or the row  *)
(* is gone.  holder remembers whose a deleted row was.                     *)

Claim(r) ==
  /\ request[r].stage = "findingMonitor" => request[r].target \notin unused
  /\ request[r].stage = "writing" /\ request[r].kind \in {"update", "delete"} =>
       /\ request[r].target \notin unused
       /\ owner[request[r].target] \in {None, request[r].by}
  /\ request[r].kind = "delete" /\ request[r].status = 204 =>
       request[r].target \notin unused /\ owner[request[r].target] = None

Written(m) ==
  editor[m] # None =>
    /\ request[editor[m]].stage = "answered"
    /\ request[editor[m]].by = holder[m]

Held(m) == owner[m] \in {None, holder[m]}

DeletedOnce ==
  \A r, q \in Done("delete", 204) : request[r].target = request[q].target => r = q

OwnersInv ==
  /\ \A r \in Requests : Claim(r)
  /\ \A m \in Monitors : Held(m) /\ Written(m)
  /\ DeletedOnce

LEMMA InitOwners == Init => OwnersInv
BY DEF Init, OwnersInv, Claim, Held, Written, DeletedOnce, Done, Arriving

\* What a request claims of a row survives a step of another: rows that are not
\* unused change only by being deleted.
LEMMA ClaimKept ==
  ASSUME TypeInv, OwnersInv, NEW r \in Requests, Others(r), NEW q \in Requests, q # r,
         unused' \subseteq unused,
         \A m \in Monitors : m \notin unused => owner'[m] \in {owner[m], None}
  PROVE  Claim(q)'
<1>1. request'[q] = request[q] /\ Claim(q) /\ RequestOK(request[q])
  BY DEF Others, OwnersInv, TypeInv
<1>2. \/ request[q].stage = "findingMonitor"
      \/ request[q].stage = "writing" /\ request[q].kind \in {"update", "delete"}
      \/ request[q].kind = "delete" /\ request[q].status = 204
      => request[q].target \in Monitors
  BY <1>1 DEF RequestOK, Shape, Monitored
<1>3. QED
  BY <1>1, <1>2 DEF Claim

\* Who wrote a row has been answered, and is not heard of again.
LEMMA WrittenKept ==
  ASSUME TypeInv, OwnersInv, NEW r \in Requests, Others(r),
         request[r].stage # "answered", NEW m \in Monitors,
         editor'[m] = editor[m], holder'[m] = holder[m], owner'[m] \in {owner[m], None}
  PROVE  Held(m)' /\ Written(m)'
<1>1. Held(m) /\ Written(m) /\ editor[m] \in Requests \cup {None}
  BY DEF OwnersInv, TypeInv, TypeOK
<1>2. editor[m] # None => request'[editor[m]] = request[editor[m]]
  BY <1>1 DEF Others, Written
<1>3. QED
  BY <1>1, <1>2 DEF Held, Written

LEMMA DeletedOnceKept ==
  ASSUME TypeInv, OwnersInv, NEW r \in Requests, Others(r),
         \/ request'[r].kind # "delete" \/ request'[r].status # 204
         \/ owner[request'[r].target] # None
  PROVE  DeletedOnce'
<1> SUFFICES ASSUME NEW a \in Requests, NEW b \in Requests,
                    request'[a].kind = "delete", request'[a].status = 204,
                    request'[b].kind = "delete", request'[b].status = 204,
                    request'[a].target = request'[b].target, a # b
             PROVE  FALSE
  BY DEF DeletedOnce, Done
<1>1. \A q \in Requests \ {r} : request'[q] = request[q] /\ Claim(q)
  BY DEF Others, OwnersInv
<1>2. CASE a # r /\ b # r
  BY <1>1, <1>2 DEF OwnersInv, DeletedOnce, Done
<1>3. CASE a = r
  BY <1>1, <1>3 DEF Claim
<1>4. CASE b = r
  BY <1>1, <1>4 DEF Claim
<1>5. QED
  BY <1>2, <1>3, <1>4

\* A step of a request that writes no row.
LEMMA OwnersKept ==
  ASSUME TypeInv, OwnersInv, NEW r \in Requests, Others(r),
         request[r].stage # "answered", UNCHANGED <<owner, holder, editor, unused>>,
         request'[r].status # 204, Claim(r)'
  PROVE  OwnersInv'
<1>1. \A q \in Requests : Claim(q)'
  BY ClaimKept
<1>2. \A m \in Monitors : Held(m)' /\ Written(m)'
  BY WrittenKept
<1>3. QED
  BY <1>1, <1>2, DeletedOnceKept DEF OwnersInv

\* An answer that tells of no deletion claims nothing.
LEMMA AnswerClaims ==
  ASSUME NEW r \in Requests, request'[r].stage = "answered", request'[r].status # 204
  PROVE  Claim(r)'
BY DEF Claim

\* An address, an account and the metrics are nobody's row.
LEMMA AddressOwners ==
  ASSUME TypeInv, OwnersInv, NEW r \in Requests,
         FindAddress(r) \/ CreateUser(r) \/ Login(r)
  PROVE  OwnersInv'
<1>1. /\ request[r] \in Request /\ UNCHANGED <<owner, holder, editor, unused>>
      /\ request[r].stage \in AddressStages /\ request[r].status = 0
      /\ request[r].kind \in {"register", "login"}
  BY DEF FindAddress, CreateUser, Login, tables, TypeInv, RequestOK, Shape, AddressStages
<1>2. CASE \E status \in {401, 409, 201, 500} : Answered(r, status)
  BY <1>1, <1>2, AnsweredFacts, AnswerClaims, OwnersKept DEF AddressStages
<1>3. CASE Goes(r, "creatingUser")
  <2>1. Others(r) /\ request'[r].stage = "creatingUser" /\ request'[r].status = 0
    BY <1>1, <1>3, GoesFacts
  <2>2. Claim(r)'
    BY <2>1 DEF Claim
  <2>3. QED
    BY <1>1, <2>1, <2>2, OwnersKept DEF AddressStages
<1>4. CASE request' = [request EXCEPT ![r].stage = "answered", ![r].status = 200,
                                      ![r].by = account[request[r].target]]
  <2>1. Others(r) /\ request'[r].stage = "answered" /\ request'[r].status = 200
    BY <1>1, <1>4 DEF Others, Request, TypeInv, TypeOK
  <2>2. QED
    BY <1>1, <2>1, AnswerClaims, OwnersKept DEF AddressStages
<1>5. QED
  BY <1>2, <1>3, <1>4 DEF FindAddress, CreateUser, Login

LEMMA FindMonitorOwners ==
  ASSUME TypeInv, OwnersInv, NEW r \in Requests, FindMonitor(r) PROVE OwnersInv'
<1>1. /\ RequestOK(request[r]) /\ Claim(r) /\ request[r].stage = "findingMonitor"
      /\ request[r].status = 0 /\ UNCHANGED <<owner, holder, editor, unused>>
  BY DEF FindMonitor, tables, TypeInv, OwnersInv, RequestOK, Shape
<1>2. CASE Answered(r, 404)
  BY <1>1, <1>2, AnsweredFacts, AnswerClaims, OwnersKept
<1>3. ASSUME NEW stage, Goes(r, stage), stage # "findingMonitor",
             owner[request[r].target] = request[r].by
      PROVE  OwnersInv'
  <2>1. Claim(r)'
    BY <1>1, <1>3, GoesFacts DEF Claim
  <2>2. QED
    BY <1>1, <1>3, <2>1, GoesFacts, OwnersKept
<1>4. QED
  BY <1>2, <1>3 DEF FindMonitor

LEMMA CreateMonitorOwners ==
  ASSUME TypeInv, OwnersInv, NEW r \in Requests, CreateMonitor(r) PROVE OwnersInv'
<1>1. PICK m \in unused : /\ owner' = [owner EXCEPT ![m] = request[r].by]
                          /\ holder' = [holder EXCEPT ![m] = request[r].by]
                          /\ editor' = [editor EXCEPT ![m] = r]
                          /\ unused' = unused \ {m}
  BY DEF CreateMonitor
<1>2. /\ m \in Monitors /\ request[r].stage = "writing" /\ request[r].kind = "create"
      /\ owner \in [Monitors -> Users \cup {None}]
      /\ holder \in [Monitors -> Users \cup {None}]
      /\ editor \in [Monitors -> Requests \cup {None}]
  BY DEF CreateMonitor, TypeInv, TypeOK
<1>3. /\ Others(r) /\ request'[r].stage = "answered" /\ request'[r].status = 201
      /\ request'[r].kind = "create" /\ request'[r].by = request[r].by
  BY <1>2, AnsweredFacts DEF CreateMonitor
<1>4. \A q \in Requests : Claim(q)'
  BY <1>1, <1>2, <1>3, ClaimKept, AnswerClaims
<1>5. Held(m)' /\ Written(m)'
  BY <1>1, <1>2, <1>3 DEF Held, Written
<1>6. \A l \in Monitors \ {m} : Held(l)' /\ Written(l)'
  BY <1>1, <1>2, <1>3, WrittenKept
<1>7. QED
  BY <1>3, <1>4, <1>5, <1>6, DeletedOnceKept DEF OwnersInv

LEMMA UpdateMonitorOwners ==
  ASSUME TypeInv, OwnersInv, NEW r \in Requests, UpdateMonitor(r) PROVE OwnersInv'
<1>1. /\ RequestOK(request[r]) /\ Claim(r) /\ request[r].stage = "writing"
      /\ request[r].kind = "update" /\ UNCHANGED <<owner, holder, unused>>
      /\ editor \in [Monitors -> Requests \cup {None}]
  BY DEF UpdateMonitor, TypeInv, TypeOK, OwnersInv
<1>2. PICK m \in Monitors : /\ m = request[r].target
                            /\ owner[m] \in {None, request[r].by}
                            /\ Held(m)
  BY <1>1 DEF RequestOK, Shape, Monitored, Claim, OwnersInv
<1>3. CASE UNCHANGED editor /\ Answered(r, 500)
  BY <1>1, <1>3, AnsweredFacts, AnswerClaims, OwnersKept
<1>4. CASE owner[m] # None /\ editor' = [editor EXCEPT ![m] = r] /\ Answered(r, 200)
  <2>1. /\ Others(r) /\ request'[r].stage = "answered" /\ request'[r].status = 200
        /\ request'[r].by = request[r].by
    BY <1>4, AnsweredFacts
  <2>2. \A q \in Requests : Claim(q)'
    BY <1>1, <2>1, ClaimKept, AnswerClaims
  <2>3. Held(m)' /\ Written(m)'
    BY <1>1, <1>2, <1>4, <2>1 DEF Held, Written
  <2>4. \A l \in Monitors \ {m} : Held(l)' /\ Written(l)'
    BY <1>1, <1>2, <1>4, <2>1, WrittenKept
  <2>5. QED
    BY <2>1, <2>2, <2>3, <2>4, DeletedOnceKept DEF OwnersInv
<1>5. QED
  BY <1>2, <1>3, <1>4 DEF UpdateMonitor

LEMMA DeleteMonitorOwners ==
  ASSUME TypeInv, OwnersInv, NEW r \in Requests, DeleteMonitor(r) PROVE OwnersInv'
<1>1. /\ RequestOK(request[r]) /\ Claim(r) /\ request[r].stage = "writing"
      /\ request[r].kind = "delete" /\ UNCHANGED <<holder, unused>>
      /\ owner \in [Monitors -> Users \cup {None}]
      /\ editor \in [Monitors -> Requests \cup {None}]
  BY DEF DeleteMonitor, TypeInv, TypeOK, OwnersInv
<1>2. PICK m \in Monitors : /\ m = request[r].target /\ m \notin unused
                            /\ owner[m] \in {None, request[r].by}
                            /\ Held(m)
  BY <1>1 DEF RequestOK, Shape, Monitored, Claim, OwnersInv
<1>3. CASE UNCHANGED <<owner, editor>> /\ Answered(r, 500)
  BY <1>1, <1>3, AnsweredFacts, AnswerClaims, OwnersKept
<1>4. CASE /\ owner[m] # None /\ Answered(r, 204)
           /\ owner' = [owner EXCEPT ![m] = None]
           /\ editor' = [editor EXCEPT ![m] = r]
  <2>1. /\ Others(r) /\ request'[r].stage = "answered" /\ request'[r].target = m
        /\ request'[r].by = request[r].by
    BY <1>2, <1>4, AnsweredFacts
  <2>2. /\ owner'[m] = None
        /\ \A l \in Monitors : owner'[l] \in {owner[l], None}
    BY <1>1, <1>2, <1>4
  <2>3. Claim(r)'
    BY <1>1, <1>2, <2>1, <2>2 DEF Claim
  <2>4. \A q \in Requests : Claim(q)'
    BY <1>1, <2>1, <2>2, <2>3, ClaimKept
  <2>5. Held(m)' /\ Written(m)'
    <3>1. editor'[m] = r /\ holder'[m] = holder[m] /\ request[r].by = holder[m]
      BY <1>1, <1>2, <1>4 DEF Held
    <3>2. QED
      BY <2>1, <2>2, <3>1 DEF Held, Written
  <2>6. \A l \in Monitors \ {m} : Held(l)' /\ Written(l)'
    BY <1>1, <1>4, <2>1, <2>2, WrittenKept
  <2>7. DeletedOnce'
    BY <1>4, <2>1, DeletedOnceKept
  <2>8. QED
    BY <2>4, <2>5, <2>6, <2>7 DEF OwnersInv
<1>5. QED
  BY <1>2, <1>3, <1>4 DEF DeleteMonitor

LEMMA StepOwners == TypeInv /\ OwnersInv /\ [Next]_vars => OwnersInv'
<1> SUFFICES ASSUME TypeInv, OwnersInv, [Next]_vars PROVE OwnersInv'
  OBVIOUS
<1>1. CASE UNCHANGED <<owner, holder, editor, unused, request>>
  BY <1>1 DEF OwnersInv, Claim, Held, Written, DeletedOnce, Done
<1>2. ASSUME NEW r \in Requests, Arrive(r) PROVE OwnersInv'
  <2>1. Others(r) /\ request[r].stage = "arriving" /\ UNCHANGED <<owner, holder, editor, unused>>
    BY <1>2, ArriveFacts DEF tables
  <2>2. Claim(r)' /\ request'[r].status # 204
    BY <1>2, <2>1, ArriveFacts DEF Claim
  <2>3. QED
    BY <2>1, <2>2, OwnersKept
<1>3. ASSUME NEW r \in Requests, ReadLatest(r) \/ ReadAggregate(r) PROVE OwnersInv'
  <2>1. /\ Others(r) /\ request[r].stage = "reading" /\ UNCHANGED <<owner, holder, editor, unused>>
        /\ request'[r].kind = "metrics" /\ request'[r].stage \in {"reading", "answered"}
    BY <1>3, ReadFacts DEF tables
  <2>2. Claim(r)'
    BY <2>1 DEF Claim
  <2>3. (\A q \in Requests : Claim(q)') /\ (\A m \in Monitors : Held(m)' /\ Written(m)')
    BY <2>1, <2>2, ClaimKept, WrittenKept
  <2>4. QED
    BY <2>1, <2>3, DeletedOnceKept DEF OwnersInv
<1>4. ASSUME NEW r \in Requests,
             \/ FindAddress(r)   \/ CreateUser(r)    \/ Login(r) \/ FindMonitor(r)
             \/ CreateMonitor(r) \/ UpdateMonitor(r) \/ DeleteMonitor(r)
      PROVE  OwnersInv'
  BY <1>4, AddressOwners, FindMonitorOwners, CreateMonitorOwners, UpdateMonitorOwners,
     DeleteMonitorOwners
<1>5. CASE Next
  BY <1>1, <1>2, <1>3, <1>4, <1>5 DEF Next, CheckSaved, CheckAges
<1>6. QED
  BY <1>1, <1>5 DEF vars, tables

\* WritesAreOwners: for any number of requests, a row is written and deleted by its
\* owner's requests only, and deleted once, though updateApiMonitor and deleteApiMonitor
\* check the owner in one statement and write by id in another.
THEOREM OnlyOwnersWrite == Spec => []WritesAreOwners
<1>1. OwnersInv => WritesAreOwners
  BY DEF OwnersInv, Held, Written, DeletedOnce, WritesAreOwners
<1>2. Spec => []OwnersInv
  BY InitOwners, StepOwners, TypeInvariant, PTL DEF Spec
<1>3. QED
  BY <1>1, <1>2, PTL

-----------------------------------------------------------------------------
(* Metrics.  What one read saw is still there when the other one reads,    *)
(* or the monitor is gone and the other one sees nothing.                  *)

Unread(q) == q.health = "unread" /\ q.total = None

\* What is known later of a read of the latest check, from the row and the
\* checks s of the monitor: checks are only added, unless all of them go.
LatestOK(q, row, s) ==
  /\ q.health = "unknown" <=> q.latest = 0
  /\ row # None =>
       /\ q.latest <= Len(s)
       /\ q.latest > 0 => (q.health = "healthy" <=> s[q.latest])

\* The successes in s after the first a and up to b.
Successes(s, a, b) == {i \in a + 1 .. b : s[i]}

\* And of a read of the checks of the last 24 hours.
CountedOK(q, row, s) ==
  /\ q.total <= q.upTo
  /\ row # None =>
       /\ q.upTo <= Len(s)
       /\ q.successful = Cardinality(Successes(s, q.upTo - q.total, q.upTo))

Agrees(q) ==
  q.latest <= q.upTo =>
    /\ q.health = "unknown" => q.total <= q.upTo - q.latest
    /\ q.health = "healthy" /\ q.total > q.upTo - q.latest => q.successful > 0
    /\ q.health = "down" /\ q.total > q.upTo - q.latest => q.successful < q.total

\* The request q of a monitor with that row and the checks s, where no id in
\* free has been used.
MetricsOK(q, free, row, s) ==
  /\ q.stage \notin {"reading", "answered"} => Unread(q)
  /\ q.stage = "reading" =>
       /\ q.target \notin free
       /\ q.health = "unread" \/ LatestOK(q, row, s)
       /\ q.total = None \/ CountedOK(q, row, s)
       /\ q.health = "unread" \/ q.total = None
  /\ q.kind = "metrics" /\ q.status = 200 => Agrees(q)

MetricsInv ==
  \A r \in Requests :
    MetricsOK(request[r], unused, owner[request[r].target], checks[request[r].target])

LEMMA InitMetrics == Init => MetricsInv
BY DEF Init, MetricsInv, MetricsOK, Unread, Arriving

LEMMA IntervalSize ==
  ASSUME NEW a \in Nat, NEW b \in Nat, a <= b
  PROVE  IsFiniteSet(a + 1 .. b) /\ Cardinality(a + 1 .. b) = b - a
<1>1. a + 1 \in Int /\ b \in Int
  OBVIOUS
<1>2. /\ IsFiniteSet(a + 1 .. b)
      /\ Cardinality(a + 1 .. b) = IF a + 1 > b THEN 0 ELSE b - (a + 1) + 1
  BY <1>1, FS_Interval
<1>3. QED
  BY <1>2

\* A check of the window that is known is one of those counted, or one of the
\* others.
LEMMA OneIsCounted ==
  ASSUME NEW a \in Nat, NEW b \in Nat, a <= b, NEW s \in Seq(BOOLEAN), b <= Len(s),
         NEW i \in a + 1 .. b
  PROVE  /\ s[i] => Cardinality(Successes(s, a, b)) > 0
         /\ ~ s[i] => Cardinality(Successes(s, a, b)) < b - a
<1> DEFINE window == a + 1 .. b
           good == Successes(s, a, b)
<1>0. good = {k \in window : s[k]}
  BY DEF Successes
<1> HIDE DEF good
<1>1. IsFiniteSet(window) /\ Cardinality(window) = b - a
  BY IntervalSize
<1>2. IsFiniteSet(good) /\ Cardinality(good) \in Nat
  BY <1>0, <1>1, FS_Subset, FS_CardinalityType
<1>3. ASSUME s[i] PROVE Cardinality(good) > 0
  <2>1. i \in good
    BY <1>0, <1>3
  <2>2. Cardinality(good) # 0
    BY <1>2, <2>1, FS_EmptySet
  <2>3. QED
    BY <1>2, <2>2
<1>4. ASSUME ~ s[i] PROVE Cardinality(good) < b - a
  <2>1. good \subseteq window \ {i}
    BY <1>0, <1>4
  <2>2. /\ IsFiniteSet(window \ {i})
        /\ Cardinality(window \ {i}) = Cardinality(window) - 1
    BY <1>1, FS_RemoveElement
  <2>3. Cardinality(good) <= Cardinality(window \ {i})
    BY <2>1, <2>2, FS_Subset
  <2>4. QED
    BY <1>1, <1>2, <2>2, <2>3
<1>5. QED
  BY <1>3, <1>4 DEF good

\* A step of others: the row and its checks stay, the row goes, or a check comes.
LEMMA MetricsKept ==
  ASSUME NEW q \in Request, NEW s \in Seq(BOOLEAN), NEW row, NEW free, NEW freeLater,
         NEW later, NEW rowLater, MetricsOK(q, free, row, s),
         q.target \notin free => q.target \notin freeLater,
         \/ rowLater = None
         \/ rowLater = row /\ later = s
         \/ rowLater = row /\ \E success \in BOOLEAN : later = Append(s, success)
  PROVE  MetricsOK(q, freeLater, rowLater, later)
<1>1. /\ q.latest \in Nat /\ q.upTo \in Nat
      /\ q.total # None => q.total \in Nat
  BY ServerAssumption DEF Request
<1>2. ASSUME LatestOK(q, row, s) PROVE LatestOK(q, rowLater, later)
  <2>1. CASE \E success \in BOOLEAN : later = Append(s, success)
    <3>1. Len(later) = Len(s) + 1 /\ \A k \in 1 .. Len(s) : later[k] = s[k]
      BY <2>1
    <3>2. Len(s) \in Nat
      OBVIOUS
    <3>3. QED
      BY <1>1, <1>2, <3>1, <3>2 DEF LatestOK
  <2>2. QED
    BY <1>2, <2>1 DEF LatestOK
<1>3. ASSUME q.total # None, CountedOK(q, row, s)
      PROVE  CountedOK(q, rowLater, later)
  <2>1. CASE rowLater # None /\ \E success \in BOOLEAN : later = Append(s, success)
    <3>1. Len(later) = Len(s) + 1 /\ \A k \in 1 .. Len(s) : later[k] = s[k]
      BY <2>1
    <3>2. Len(s) \in Nat /\ q.upTo <= Len(s) /\ q.total <= q.upTo
      BY <1>3, <2>1 DEF CountedOK
    <3>3. \A k \in q.upTo - q.total + 1 .. q.upTo : k \in 1 .. Len(s)
      BY <1>1, <1>3, <3>2
    <3>4. Successes(later, q.upTo - q.total, q.upTo)
            = Successes(s, q.upTo - q.total, q.upTo)
      BY <3>1, <3>3 DEF Successes
    <3>5. QED
      BY <1>1, <1>3, <2>1, <3>1, <3>2, <3>4 DEF CountedOK
  <2>2. QED
    BY <1>3, <2>1 DEF CountedOK
<1>4. QED
  BY <1>2, <1>3 DEF MetricsOK

\* The step of one request r.
LEMMA RequestMetrics ==
  ASSUME TypeInv, MetricsInv, NEW r \in Requests, Others(r), unused' \subseteq unused,
         \A m \in Monitors \ unused :
           \/ owner'[m] = None
           \/ owner'[m] = owner[m] /\ checks'[m] = checks[m],
         MetricsOK(request[r], unused, owner[request[r].target],
                   checks[request[r].target])'
  PROVE  MetricsInv'
<1> SUFFICES ASSUME NEW q \in Requests, q # r
             PROVE  MetricsOK(request[q], unused, owner[request[q].target],
                              checks[request[q].target])'
  BY DEF MetricsInv
<1>1. request'[q] = request[q] /\ RequestOK(request[q])
  BY DEF Others, TypeInv
<1>2. MetricsOK(request[q], unused, owner[request[q].target], checks[request[q].target])
  BY DEF MetricsInv
<1>3. CASE request[q].stage # "reading"
  BY <1>1, <1>2, <1>3 DEF MetricsOK
<1>4. CASE request[q].stage = "reading"
  <2>1. /\ request[q].target \in Monitors \ unused
        /\ request[q] \in Request
        /\ checks[request[q].target] \in Seq(BOOLEAN)
    BY <1>1, <1>2, <1>4 DEF MetricsOK, RequestOK, Shape, Monitored, TypeInv, TypeOK
  <2>2. MetricsOK(request[q], unused', owner'[request[q].target],
                  checks'[request[q].target])
    BY <1>2, <2>1, MetricsKept
  <2>3. QED
    BY <1>1, <2>2
<1>5. QED
  BY <1>3, <1>4

\* The first read of a request.
LEMMA LatestSeen ==
  ASSUME NEW q \in Request, NEW row, NEW s \in Seq(BOOLEAN), row = None => s = <<>>,
         q.latest = Len(s), q.health = Latest(s)
  PROVE  LatestOK(q, row, s)
<1>1. Len(s) \in Nat /\ (s = <<>> <=> Len(s) = 0)
  OBVIOUS
<1>2. QED
  BY <1>1 DEF LatestOK, Latest

LEMMA AggregateSeen ==
  ASSUME TypeInv, NEW m \in Monitors, NEW q \in Request, q.upTo = Len(checks[m]),
         q.total = Cardinality(Recent(m)),
         q.successful = Cardinality({i \in Recent(m) : checks[m][i]})
  PROVE  CountedOK(q, owner[m], checks[m]) /\ q.total = Len(checks[m]) - old[m]
<1>1. Len(checks[m]) \in Nat /\ old[m] \in Nat /\ old[m] <= Len(checks[m])
  BY DEF TypeInv, TypeOK
<1>2. q.total = Len(checks[m]) - old[m]
  BY <1>1, IntervalSize DEF Recent
<1>3. {i \in Recent(m) : checks[m][i]} = Successes(checks[m], old[m], Len(checks[m]))
  BY DEF Recent, Successes
<1>4. q.successful = Cardinality(Successes(checks[m], old[m], Len(checks[m])))
  BY <1>3, Zenon
<1>5. q.upTo - q.total = old[m] /\ q.total <= q.upTo
  BY <1>1, <1>2
<1>6. QED
  BY <1>2, <1>4, <1>5 DEF CountedOK

\* The second one: it sees the checks the first one saw, and those saved since.
LEMMA LatestCompletes ==
  ASSUME NEW q \in Request, NEW row, NEW s \in Seq(BOOLEAN), row = None => s = <<>>,
         CountedOK(q, row, s), q.total # None, q.latest = Len(s), q.health = Latest(s)
  PROVE  Agrees(q)
<1>1. /\ Len(s) \in Nat /\ (s = <<>> <=> Len(s) = 0)
      /\ q.upTo \in Nat /\ q.total \in Nat /\ q.successful \in Nat /\ q.total <= q.upTo
  BY ServerAssumption DEF Request, CountedOK
<1>2. CASE s = <<>>
  BY <1>1, <1>2 DEF Agrees, Latest
<1>3. CASE s # <<>> /\ q.latest <= q.upTo
  <2>1. q.upTo = Len(s)
    BY <1>1, <1>3 DEF CountedOK
  <2>2. CASE q.total = 0
    BY <1>1, <1>3, <2>1, <2>2 DEF Agrees, Latest
  <2>3. CASE q.total # 0
    <3> DEFINE a == q.upTo - q.total
    <3>1. a \in Nat /\ a <= Len(s) /\ Len(s) \in a + 1 .. Len(s) /\ Len(s) - a = q.total
      BY <1>1, <2>1, <2>3
    <3>2. q.successful = Cardinality(Successes(s, a, Len(s)))
      BY <1>3, <2>1 DEF CountedOK
    <3> HIDE DEF a
    <3>3. /\ s[Len(s)] => q.successful > 0
          /\ ~ s[Len(s)] => q.successful < q.total
      BY <1>1, <3>1, <3>2, OneIsCounted
    <3>4. QED
      BY <1>1, <1>3, <3>3 DEF Agrees, Latest
  <2>4. QED
    BY <2>2, <2>3
<1>4. QED
  BY <1>2, <1>3 DEF Agrees

LEMMA AggregateCompletes ==
  ASSUME TypeInv, NEW m \in Monitors, NEW q \in Request,
         LatestOK(q, owner[m], checks[m]), q.health # "unread",
         q.upTo = Len(checks[m]), q.total = Cardinality(Recent(m)),
         q.successful = Cardinality({i \in Recent(m) : checks[m][i]})
  PROVE  Agrees(q)
<1> DEFINE s == checks[m]
<1>1. /\ s \in Seq(BOOLEAN) /\ Len(s) \in Nat /\ old[m] \in Nat /\ old[m] <= Len(s)
      /\ owner[m] = None => s = <<>>
  BY DEF TypeInv, TypeOK
<1>2. /\ q.latest \in Nat /\ q.successful \in Nat
      /\ q.health \in {"unknown", "healthy", "down"}
  BY ServerAssumption DEF Request, Health
<1>3. q.total = Len(s) - old[m]
  BY AggregateSeen
<1>4. CASE q.latest = 0
  BY <1>1, <1>2, <1>3, <1>4 DEF LatestOK, Agrees
<1>5. CASE q.latest # 0 /\ owner[m] = None
  <2>1. Len(s) = 0
    BY <1>1, <1>5
  <2>2. QED
    BY <1>2, <1>5, <2>1 DEF Agrees
<1>6. CASE q.latest # 0 /\ owner[m] # None
  <2>1. /\ q.latest <= Len(s) /\ q.health # "unknown"
        /\ q.health = "healthy" <=> s[q.latest]
    BY <1>2, <1>6 DEF LatestOK
  <2>2. CASE q.latest > old[m]
    <3>1. q.latest \in old[m] + 1 .. Len(s)
      BY <1>1, <1>2, <2>1, <2>2
    <3>2. /\ s[q.latest] => q.successful > 0
          /\ ~ s[q.latest] => q.successful < Len(s) - old[m]
      BY <1>1, <3>1, OneIsCounted DEF Recent, Successes
    <3>3. QED
      BY <1>3, <2>1, <3>2 DEF Agrees
  <2>3. CASE ~ q.latest > old[m]
    <3>1. ~ q.total > q.upTo - q.latest
      BY <1>1, <1>2, <1>3, <2>3
    <3>2. QED
      BY <2>1, <3>1 DEF Agrees
  <2>4. QED
    BY <2>2, <2>3
<1>7. QED
  BY <1>4, <1>5, <1>6

\* What the other statements do to the results of the reads: nothing.
LEMMA ReadsKept ==
  ASSUME TypeInv, NEW r \in Requests,
         \/ \E status : Answered(r, status)
         \/ \E stage : Goes(r, stage)
         \/ Arrive(r)
         \/ Login(r)
  PROVE  /\ request'[r].latest = request[r].latest
         /\ request'[r].health = request[r].health
         /\ request'[r].upTo = request[r].upTo
         /\ request'[r].total = request[r].total
         /\ request'[r].successful = request[r].successful
<1> DEFINE Same(q) == /\ q.latest = request[r].latest
                      /\ q.health = request[r].health
                      /\ q.upTo = request[r].upTo
                      /\ q.total = request[r].total
                      /\ q.successful = request[r].successful
<1>1. request \in [Requests -> Request] /\ request[r] \in Request
  BY DEF TypeInv, TypeOK
<1>2. ASSUME NEW status, Answered(r, status) PROVE Same(request'[r])
  BY <1>1, <1>2 DEF Answered, Request
<1>3. ASSUME NEW stage, Goes(r, stage) PROVE Same(request'[r])
  BY <1>1, <1>3 DEF Goes, Request
<1>4. CASE \E kind \in {"register", "login"}, e \in Addresses :
              request' = [request EXCEPT ![r].kind = kind, ![r].target = e,
                                         ![r].stage = "findingAddress"]
  BY <1>1, <1>4 DEF Request
<1>a. CASE \E u \in Users :
              request' = [request EXCEPT ![r].kind = "create", ![r].by = u,
                                         ![r].stage = "writing"]
  BY <1>1, <1>a DEF Request
<1>b. CASE \E u \in Users, kind \in Monitored, m \in Monitors \ unused :
              request' = [request EXCEPT ![r].kind = kind, ![r].by = u, ![r].target = m,
                                         ![r].stage = "findingMonitor"]
  BY <1>1, <1>b DEF Request
<1>5. CASE Arrive(r)
  BY <1>2, <1>4, <1>5, <1>a, <1>b DEF Arrive
<1>6. CASE Login(r)
  <2>1. CASE request' = [request EXCEPT ![r].stage = "answered", ![r].status = 200,
                                        ![r].by = account[request[r].target]]
    BY <1>1, <2>1 DEF Request
  <2>2. QED
    BY <1>2, <1>6, <2>1 DEF Login
<1>7. QED
  BY <1>2, <1>3, <1>5, <1>6

\* A read of request r with the result q.
LEMMA ReadMetrics ==
  ASSUME TypeInv, MetricsInv, NEW r \in Requests, NEW q \in Request, Read(r, q),
         q.stage = "reading", q.target = request[r].target, q.status = 0,
         LET m == q.target
         IN  /\ q.health = "unread" \/ LatestOK(q, owner[m], checks[m])
             /\ q.total = None \/ CountedOK(q, owner[m], checks[m])
             /\ q.health # "unread" /\ q.total # None => Agrees(q)
  PROVE  MetricsInv'
<1> DEFINE m == q.target
           p == [q EXCEPT !.stage = "answered", !.status = 200]
<1>1. /\ request \in [Requests -> Request] /\ UNCHANGED tables
      /\ MetricsOK(request[r], unused, owner[m], checks[m])
      /\ request[r].stage = "reading"
  BY DEF Read, TypeInv, TypeOK, MetricsInv
<1>2. m \notin unused
  BY <1>1 DEF MetricsOK
<1>3. CASE q.health # "unread" /\ q.total # None
  <2>1. /\ p.stage = "answered" /\ p.status = 200 /\ p.kind = q.kind
        /\ p.latest = q.latest /\ p.health = q.health /\ p.upTo = q.upTo
        /\ p.total = q.total /\ p.successful = q.successful
    BY DEF Request
  <2>2. request' = [request EXCEPT ![r] = p]
    BY <1>3 DEF Read
  <2> HIDE DEF p
  <2>3. Agrees(p)
    BY <1>3, <2>1 DEF Agrees
  <2>4. \A free, row, s : MetricsOK(p, free, row, s)
    BY <2>1, <2>3 DEF MetricsOK
  <2>5. Others(r) /\ request'[r] = p
    BY <1>1, <2>2 DEF Others
  <2>6. QED
    BY <1>1, <2>4, <2>5, RequestMetrics DEF tables
<1>4. CASE ~ (q.health # "unread" /\ q.total # None)
  <2>1. request' = [request EXCEPT ![r] = q]
    BY <1>4 DEF Read
  <2>2. MetricsOK(q, unused, owner[m], checks[m])
    BY <1>2, <1>4 DEF MetricsOK
  <2>3. Others(r) /\ request'[r] = q
    BY <1>1, <2>1 DEF Others
  <2>4. QED
    BY <1>1, <2>2, <2>3, RequestMetrics DEF tables
<1>5. QED
  BY <1>3, <1>4

LEMMA ReadLatestMetrics ==
  ASSUME TypeInv, MetricsInv, NEW r \in Requests, ReadLatest(r) PROVE MetricsInv'
<1> DEFINE m == request[r].target
           s == checks[m]
           q == [request[r] EXCEPT !.latest = Len(s), !.health = Latest(s)]
<1>1. Read(r, q) /\ request[r].stage = "reading" /\ request[r].health = "unread"
  BY DEF ReadLatest, Read
<1>2. RequestOK(request[r]) /\ request[r].kind = "metrics" /\ m \in Monitors
  BY <1>1 DEF TypeInv, RequestOK, Shape, Monitored
<1>3. q \in Request
  BY <1>2, ReadsInRange DEF RequestOK, Request, Health
<1>4. /\ q.stage = "reading" /\ q.target = m /\ q.status = 0
      /\ q.latest = Len(s) /\ q.health = Latest(s)
      /\ q.upTo = request[r].upTo /\ q.total = request[r].total
      /\ q.successful = request[r].successful
  BY <1>1, <1>2 DEF RequestOK, Shape, Request
<1>5. s \in Seq(BOOLEAN) /\ (owner[m] = None => s = <<>>)
  BY <1>2 DEF TypeInv, TypeOK
<1>6. request[r].total = None \/ CountedOK(request[r], owner[m], s)
  BY <1>1 DEF MetricsInv, MetricsOK
<1> HIDE DEF q
<1>7. LatestOK(q, owner[m], s)
  BY <1>3, <1>4, <1>5, LatestSeen
<1>8. q.total = None \/ CountedOK(q, owner[m], s)
  BY <1>4, <1>6 DEF CountedOK
<1>9. q.total # None => Agrees(q)
  BY <1>3, <1>4, <1>5, <1>8, LatestCompletes
<1>10. QED
  BY <1>1, <1>3, <1>4, <1>7, <1>8, <1>9, ReadMetrics

LEMMA ReadAggregateMetrics ==
  ASSUME TypeInv, MetricsInv, NEW r \in Requests, ReadAggregate(r) PROVE MetricsInv'
<1> DEFINE m == request[r].target
           total == Cardinality(Recent(m))
           successful == Cardinality({i \in Recent(m) : checks[m][i]})
           q == [request[r] EXCEPT !.upTo = Len(checks[m]), !.total = total,
                                   !.successful = successful]
<1>1. Read(r, q) /\ request[r].stage = "reading" /\ request[r].total = None
  BY DEF ReadAggregate, Read
<1>2. RequestOK(request[r]) /\ request[r].kind = "metrics" /\ m \in Monitors
  BY <1>1 DEF TypeInv, RequestOK, Shape, Monitored
<1>3. q \in Request
  BY <1>2, ReadsInRange DEF RequestOK, Request, Health
<1>4. /\ q.stage = "reading" /\ q.target = m /\ q.status = 0
      /\ q.latest = request[r].latest /\ q.health = request[r].health
      /\ q.upTo = Len(checks[m]) /\ q.total = total /\ q.successful = successful
  BY <1>1, <1>2 DEF RequestOK, Shape, Request
<1>5. request[r].health = "unread" \/ LatestOK(request[r], owner[m], checks[m])
  BY <1>1 DEF MetricsInv, MetricsOK
<1> HIDE DEF q
<1>6. CountedOK(q, owner[m], checks[m])
  BY <1>2, <1>3, <1>4, AggregateSeen
<1>7. q.health = "unread" \/ LatestOK(q, owner[m], checks[m])
  BY <1>4, <1>5 DEF LatestOK
<1>8. q.health # "unread" => Agrees(q)
  BY <1>2, <1>3, <1>4, <1>7, AggregateCompletes
<1>9. QED
  BY <1>1, <1>3, <1>4, <1>6, <1>7, <1>8, ReadMetrics

\* Statements that read no checks.
LEMMA OtherStatementMetrics ==
  ASSUME TypeInv, OwnersInv, MetricsInv, NEW r \in Requests, Others(r),
         \/ \E status : Answered(r, status)
         \/ \E stage : Goes(r, stage)
         \/ Arrive(r)
         \/ Login(r),
         request[r].stage \notin {"reading", "answered"},
         request'[r].kind # "metrics" \/ request'[r].status # 200,
         request'[r].stage = "reading" => request'[r].target \notin unused',
         unused' \subseteq unused,
         \A m \in Monitors \ unused :
           \/ owner'[m] = None
           \/ owner'[m] = owner[m] /\ checks'[m] = checks[m]
  PROVE  MetricsInv'
<1>1. Unread(request[r])
  BY DEF MetricsInv, MetricsOK
<1>2. Unread(request'[r])
  BY <1>1, ReadsKept DEF Unread
<1>3. MetricsOK(request[r], unused, owner[request[r].target],
                checks[request[r].target])'
  BY <1>2 DEF MetricsOK, Unread
<1>4. QED
  BY <1>3, RequestMetrics

LEMMA StepMetrics == TypeInv /\ OwnersInv /\ MetricsInv /\ [Next]_vars => MetricsInv'
<1> SUFFICES ASSUME TypeInv, OwnersInv, MetricsInv, [Next]_vars PROVE MetricsInv'
  OBVIOUS
<1>1. CASE UNCHANGED vars
  BY <1>1 DEF MetricsInv, vars, tables
<1>2. ASSUME NEW r \in Requests, Arrive(r) PROVE MetricsInv'
  <2>1. request'[r].kind # "metrics" \/ request'[r].status # 200
    BY <1>2, ArriveFacts
  <2>2. QED
    BY <1>2, <2>1, ArriveFacts, OtherStatementMetrics DEF tables
<1>3. ASSUME NEW r \in Requests, FindAddress(r) \/ Login(r) \/ CreateUser(r)
      PROVE  MetricsInv'
  <2>1. /\ request[r].stage \in AddressStages /\ UNCHANGED <<owner, unused, checks>>
        /\ request[r].kind \in {"register", "login"}
        /\ request \in [Requests -> Request]
    BY <1>3
    DEF FindAddress, Login, CreateUser, tables, TypeInv, TypeOK, RequestOK, Shape,
        AddressStages
  <2>2. CASE \E status : Answered(r, status)
    BY <2>1, <2>2, AnsweredFacts, OtherStatementMetrics DEF AddressStages
  <2>3. CASE Goes(r, "creatingUser")
    BY <2>1, <2>3, GoesFacts, OtherStatementMetrics DEF AddressStages
  <2>4. CASE /\ Login(r)
             /\ request' = [request EXCEPT ![r].stage = "answered", ![r].status = 200,
                                           ![r].by = account[request[r].target]]
    <3>1. /\ Others(r) /\ request'[r].stage = "answered"
          /\ request'[r].kind = request[r].kind
      BY <2>1, <2>4 DEF Others, Request
    <3>2. QED
      BY <2>1, <2>4, <3>1, OtherStatementMetrics DEF AddressStages
  <2>5. QED
    BY <1>3, <2>2, <2>3, <2>4 DEF FindAddress, Login, CreateUser
<1>4. ASSUME NEW r \in Requests, FindMonitor(r) PROVE MetricsInv'
  <2>1. /\ request[r].stage = "findingMonitor" /\ request[r].target \notin unused
        /\ request[r].status = 0 /\ UNCHANGED <<owner, unused, checks>>
    BY <1>4 DEF FindMonitor, tables, OwnersInv, Claim, TypeInv, RequestOK, Shape
  <2>2. CASE Answered(r, 404)
    BY <2>1, <2>2, AnsweredFacts, OtherStatementMetrics
  <2>3. ASSUME NEW stage, Goes(r, stage) PROVE MetricsInv'
    BY <2>1, <2>3, GoesFacts, OtherStatementMetrics
  <2>4. QED
    BY <1>4, <2>2, <2>3 DEF FindMonitor
<1>5. ASSUME NEW r \in Requests,
             CreateMonitor(r) \/ UpdateMonitor(r) \/ DeleteMonitor(r)
      PROVE  MetricsInv'
  <2>1. /\ request[r].stage = "writing" /\ request[r].kind # "metrics"
        /\ \E status : Answered(r, status)
    BY <1>5 DEF CreateMonitor, UpdateMonitor, DeleteMonitor
  <2>2. /\ Others(r) /\ request'[r].stage = "answered"
        /\ request'[r].kind = request[r].kind
    BY <2>1, AnsweredFacts
  <2>3. unused' \subseteq unused
    BY <1>5 DEF CreateMonitor, UpdateMonitor, DeleteMonitor
  <2>4. \A m \in Monitors \ unused :
          \/ owner'[m] = None
          \/ owner'[m] = owner[m] /\ checks'[m] = checks[m]
    BY <1>5 DEF CreateMonitor, UpdateMonitor, DeleteMonitor, TypeInv, TypeOK
  <2>5. QED
    BY <2>1, <2>2, <2>3, <2>4, OtherStatementMetrics
<1>6. ASSUME NEW r \in Requests, ReadLatest(r) \/ ReadAggregate(r) PROVE MetricsInv'
  BY <1>6, ReadLatestMetrics, ReadAggregateMetrics
<1>7. ASSUME NEW m \in Monitors, NEW success \in BOOLEAN,
             CheckSaved(m, success) \/ CheckAges(m)
      PROVE  MetricsInv'
  <2>1. /\ UNCHANGED <<owner, unused, request>>
        /\ \A x \in Monitors : \/ checks'[x] = checks[x]
                               \/ checks'[x] = Append(checks[x], success)
    BY <1>7 DEF CheckSaved, CheckAges, TypeInv, TypeOK
  <2> SUFFICES ASSUME NEW r \in Requests
               PROVE  MetricsOK(request[r], unused, owner[request[r].target],
                                checks'[request[r].target])
    BY <2>1 DEF MetricsInv
  <2>2. /\ RequestOK(request[r])
        /\ MetricsOK(request[r], unused, owner[request[r].target],
                     checks[request[r].target])
    BY DEF TypeInv, MetricsInv
  <2>3. CASE request[r].stage # "reading"
    BY <2>2, <2>3 DEF MetricsOK
  <2>4. CASE request[r].stage = "reading"
    <3>1. /\ request[r] \in Request /\ request[r].target \in Monitors
          /\ checks[request[r].target] \in Seq(BOOLEAN)
      BY <2>2, <2>4 DEF RequestOK, Shape, Monitored, TypeInv, TypeOK
    <3>2. QED
      BY <2>1, <2>2, <3>1, MetricsKept
  <2>5. QED
    BY <2>3, <2>4
<1>8. QED
  BY <1>1, <1>2, <1>3, <1>4, <1>5, <1>6, <1>7 DEF Next

\* The two reads of getMonitorMetrics run side by side without a transaction:
\* for any number of requests and checks, and though the monitor may be deleted
\* between them, they contradict each other by no more than the checks saved
\* between them.
THEOREM MetricsReadsAgree == Spec => []MetricsAgree
<1>1. MetricsInv => MetricsAgree
  BY DEF MetricsInv, MetricsOK, Agrees, MetricsAgree, Done
<1>2. Spec => []OwnersInv
  BY InitOwners, StepOwners, TypeInvariant, PTL DEF Spec
<1>3. Spec => []MetricsInv
  BY <1>2, InitMetrics, StepMetrics, TypeInvariant, PTL DEF Spec
<1>4. QED
  BY <1>1, <1>3, PTL

=============================================================================
