------------------------------ MODULE ApiServer ------------------------------
(***************************************************************************)
(* The HTTP API apart from incidents: accounts (services/authService.ts),  *)
(* monitors (services/apiMonitorService.ts) and their metrics              *)
(* (services/metricsService.ts), several requests at once.  Each statement *)
(* a handler awaits is an action; what a middleware or a handler does      *)
(* before its first statement belongs to the action of that statement.     *)
(***************************************************************************)
EXTENDS Naturals, FiniteSets, Sequences

CONSTANTS
  Addresses,  \* e-mail addresses, normalised (authSchemas.ts)
  Founders,   \* users registered before
  Requests,   \* identities of requests; one that registers a user is his id, too
  Monitors,   \* ids of rows of api_monitors, before, during or after their life
  MaxChecks,  \* bound on the checks of a monitor
  None

ASSUME ServerAssumption ==
  /\ Founders \cap Requests = {}
  /\ None \notin Founders \cup Requests \cup Addresses \cup Monitors
  /\ MaxChecks \in Nat

Users == Founders \cup Requests

VARIABLES
  account,  \* account[e]: the user registered with address e
  owner,    \* owner[m]: userId of the row m, None if there is none
  holder,   \* holder[m]: userId of the row m, also after its deletion (history)
  editor,   \* editor[m]: the request that wrote or deleted it last (history)
  unused,   \* ids that no row has had yet
  checks,   \* checks[m]: success of m's checks, oldest first
  old,      \* old[m]: how many of them are older than 24 hours
  request   \* request[r]: the request r

tables == <<account, owner, holder, editor, unused, checks, old>>
vars == <<tables, request>>

Monitored == {"update", "delete", "metrics"}
Kinds == {"none", "register", "login", "create"} \cup Monitored
Stages == {"arriving", "findingAddress", "creatingUser", "findingMonitor",
           "writing", "reading", "answered"}
Health == {"unread", "unknown", "healthy", "down"}
Statuses == {0, 200, 201, 204, 401, 404, 409, 500}

\* What requireAuth and the route leave of a request, the results of the two
\* reads of the metrics, and the status of the answer, 0 before.
Request ==
  [kind: Kinds, stage: Stages, by: Users \cup {None},
   target: Addresses \cup Monitors \cup {None}, latest: 0 .. MaxChecks, health: Health,
   upTo: 0 .. MaxChecks, total: {None} \cup (0 .. MaxChecks), successful: 0 .. MaxChecks,
   status: Statuses]

Arriving ==
  [kind |-> "none", stage |-> "arriving", by |-> None, target |-> None,
   latest |-> 0, health |-> "unread", upTo |-> 0, total |-> None, successful |-> 0,
   status |-> 0]

TypeOK ==
  /\ account \in [Addresses -> Users \cup {None}]
  /\ owner \in [Monitors -> Users \cup {None}]
  /\ holder \in [Monitors -> Users \cup {None}]
  /\ editor \in [Monitors -> Requests \cup {None}]
  /\ unused \subseteq Monitors
  /\ checks \in [Monitors -> Seq(BOOLEAN)]
  /\ old \in [Monitors -> Nat]
  /\ \A m \in Monitors : /\ Len(checks[m]) <= MaxChecks
                         /\ old[m] \in 0 .. Len(checks[m])
                         /\ owner[m] = None => checks[m] = <<>>
                         /\ m \in unused => owner[m] = None
  /\ request \in [Requests -> Request]

Init ==
  /\ account \in [Addresses -> Founders \cup {None}]
  /\ owner \in [Monitors -> Founders \cup {None}]
  /\ holder = owner
  /\ editor = [m \in Monitors |-> None]
  /\ unused = {m \in Monitors : owner[m] = None}
  /\ checks = [m \in Monitors |-> <<>>]
  /\ old = [m \in Monitors |-> 0]
  /\ request = [r \in Requests |-> Arriving]

-----------------------------------------------------------------------------
(* Requests.                                                               *)

Answered(r, status) ==
  request' = [request EXCEPT ![r].stage = "answered", ![r].status = status]

Goes(r, stage) == request' = [request EXCEPT ![r].stage = stage]

\* A request passes the middleware: requireAuth knows whom its token was issued
\* to, or answers 401; register and login need none.
Arrive(r) ==
  /\ request[r].stage = "arriving"
  /\ \/ \E kind \in {"register", "login"}, e \in Addresses :
          request' = [request EXCEPT ![r].kind = kind, ![r].target = e,
                                     ![r].stage = "findingAddress"]
     \/ \E u \in Users : /\ \E e \in Addresses : account[e] = u
                         /\ \/ request' = [request EXCEPT ![r].kind = "create", ![r].by = u,
                                                          ![r].stage = "writing"]
                            \/ \E kind \in Monitored, m \in Monitors \ unused :
                                 request' = [request EXCEPT
                                   ![r].kind = kind, ![r].by = u, ![r].target = m,
                                   ![r].stage = "findingMonitor"]
     \/ Answered(r, 401)
  /\ UNCHANGED tables

\* registerUser: is the address taken?
FindAddress(r) ==
  /\ request[r].stage = "findingAddress" /\ request[r].kind = "register"
  /\ IF account[request[r].target] # None THEN Answered(r, 409)
                                           ELSE Goes(r, "creatingUser")
  /\ UNCHANGED tables

\* loginUser: the account, if there is one and the password is right.
Login(r) ==
  /\ request[r].stage = "findingAddress" /\ request[r].kind = "login"
  /\ \/ /\ account[request[r].target] # None
        /\ request' = [request EXCEPT ![r].stage = "answered", ![r].status = 200,
                                     ![r].by = account[request[r].target]]
     \/ Answered(r, 401)
  /\ UNCHANGED tables

CreateUser_NoIndex(r) ==
  /\ request[r].stage = "creatingUser"
  /\ account' = [account EXCEPT ![request[r].target] = r]
  /\ Answered(r, 201)
  /\ UNCHANGED <<owner, holder, editor, unused, checks, old>>

\* user.create, after the hash: the unique index refuses a second account, with
\* an error that is no AppError, which the error handler turns into a 500.
CreateUser(r) ==
  LET e == request[r].target
  IN  /\ request[r].stage = "creatingUser"
      /\ IF account[e] = None
         THEN account' = [account EXCEPT ![e] = r] /\ Answered(r, 201)
         ELSE UNCHANGED account /\ Answered(r, 500)
      /\ UNCHANGED <<owner, holder, editor, unused, checks, old>>

FindMonitor_ById(r) ==
  /\ request[r].stage = "findingMonitor"
  /\ IF owner[request[r].target] = None THEN Answered(r, 404)
     ELSE Goes(r, IF request[r].kind = "metrics" THEN "reading" ELSE "writing")
  /\ UNCHANGED tables

\* getApiMonitor: findFirst by id and owner.
FindMonitor(r) ==
  /\ request[r].stage = "findingMonitor"
  /\ IF owner[request[r].target] # request[r].by THEN Answered(r, 404)
     ELSE Goes(r, IF request[r].kind = "metrics" THEN "reading" ELSE "writing")
  /\ UNCHANGED tables

CreateMonitor(r) ==
  /\ request[r].stage = "writing" /\ request[r].kind = "create"
  /\ \E m \in unused :
       /\ owner' = [owner EXCEPT ![m] = request[r].by]
       /\ holder' = [holder EXCEPT ![m] = request[r].by]
       /\ editor' = [editor EXCEPT ![m] = r]
       /\ unused' = unused \ {m}
  /\ Answered(r, 201)
  /\ UNCHANGED <<account, checks, old>>

\* apiMonitor.update by id; no row, and Prisma rejects.
UpdateMonitor(r) ==
  LET m == request[r].target
  IN  /\ request[r].stage = "writing" /\ request[r].kind = "update"
      /\ IF owner[m] = None
         THEN UNCHANGED editor /\ Answered(r, 500)
         ELSE editor' = [editor EXCEPT ![m] = r] /\ Answered(r, 200)
      /\ UNCHANGED <<account, owner, holder, unused, checks, old>>

DeleteMonitor_KeepsChecks(r) ==
  LET m == request[r].target
  IN  /\ request[r].stage = "writing" /\ request[r].kind = "delete"
      /\ owner[m] # None
      /\ owner' = [owner EXCEPT ![m] = None]
      /\ editor' = [editor EXCEPT ![m] = r]
      /\ Answered(r, 204)
      /\ UNCHANGED <<account, holder, unused, checks, old>>

\* apiMonitor.delete by id, with the checks; no row, and Prisma rejects.
DeleteMonitor(r) ==
  LET m == request[r].target
  IN  /\ request[r].stage = "writing" /\ request[r].kind = "delete"
      /\ IF owner[m] = None
         THEN UNCHANGED <<owner, editor, checks, old>> /\ Answered(r, 500)
         ELSE /\ owner' = [owner EXCEPT ![m] = None]
              /\ editor' = [editor EXCEPT ![m] = r]
              /\ checks' = [checks EXCEPT ![m] = <<>>]
              /\ old' = [old EXCEPT ![m] = 0]
              /\ Answered(r, 204)
      /\ UNCHANGED <<account, holder, unused>>

-----------------------------------------------------------------------------
(* getMonitorMetrics: two statements side by side; the second to return    *)
(* answers.                                                                *)

Latest_First(s) == IF s = <<>> THEN "unknown" ELSE IF s[1] THEN "healthy" ELSE "down"

\* findFirst by checkedAt, latest first, and what currentHealth makes of it.
Latest(s) ==
  IF s = <<>> THEN "unknown" ELSE IF s[Len(s)] THEN "healthy" ELSE "down"

\* The checks of the last 24 hours.
Recent(m) == old[m] + 1 .. Len(checks[m])

Read(r, result) ==
  LET both == result.health # "unread" /\ result.total # None
  IN  /\ request[r].stage = "reading"
      /\ request' = [request EXCEPT ![r] =
           IF both THEN [result EXCEPT !.stage = "answered", !.status = 200] ELSE result]
      /\ UNCHANGED tables

ReadLatest(r) ==
  LET m == request[r].target
  IN  /\ request[r].health = "unread"
      /\ Read(r, [request[r] EXCEPT !.latest = Len(checks[m]),
                                    !.health = Latest(checks[m])])

ReadAggregate(r) ==
  LET m == request[r].target
  IN  /\ request[r].total = None
      /\ Read(r, [request[r] EXCEPT
              !.upTo = Len(checks[m]),
              !.total = Cardinality(Recent(m)),
              !.successful = Cardinality({i \in Recent(m) : checks[m][i]})])

-----------------------------------------------------------------------------
\* recordCheck saves a check.
CheckSaved(m, success) ==
  /\ owner[m] # None /\ Len(checks[m]) < MaxChecks
  /\ checks' = [checks EXCEPT ![m] = Append(@, success)]
  /\ UNCHANGED <<account, owner, holder, editor, unused, old, request>>

\* A check turns 24 hours old.
CheckAges(m) ==
  /\ old[m] < Len(checks[m])
  /\ old' = [old EXCEPT ![m] = @ + 1]
  /\ UNCHANGED <<account, owner, holder, editor, unused, checks, request>>

Next ==
  \/ \E r \in Requests :
       \/ Arrive(r)        \/ FindAddress(r)   \/ CreateUser(r)
       \/ Login(r)         \/ FindMonitor(r)   \/ CreateMonitor(r)
       \/ UpdateMonitor(r) \/ DeleteMonitor(r) \/ ReadLatest(r)
       \/ ReadAggregate(r)
  \/ \E m \in Monitors, success \in BOOLEAN : CheckSaved(m, success)
  \/ \E m \in Monitors : CheckAges(m)

Spec == Init /\ [][Next]_vars

-----------------------------------------------------------------------------
Done(kind, status) ==
  {r \in Requests : request[r].kind = kind /\ request[r].status = status}

\* However registrations race, each that is told it succeeded has the address
\* for its own, one that is refused was refused because somebody has it (while
\* the database works), and whoever has logged in with an address goes on being
\* its owner.
RegisteredOwnsAddress ==
  /\ \A r \in Done("register", 201) : account[request[r].target] = r
  /\ \A r \in Done("register", 409) \cup Done("register", 500) :
       account[request[r].target] \notin {None, r}
  /\ \A r \in Done("login", 200) : account[request[r].target] = request[r].by

\* No request writes or deletes a row of somebody else's, though it does so by id
\* alone and later than it checked; and a row is deleted once.
WritesAreOwners ==
  /\ \A m \in Monitors : editor[m] # None => request[editor[m]].by = holder[m]
  /\ \A r, q \in Done("delete", 204) :
       request[r].target = request[q].target => r = q

\* The metrics contradict themselves by no more than the checks saved between
\* their two reads: if the latest check is in the window it is among those
\* counted, and no latest check means that none was there before these.
MetricsAgree ==
  \A r \in Done("metrics", 200) :
    LET a == request[r]
        between == a.upTo - a.latest
    IN  a.latest <= a.upTo =>
          /\ a.health = "unknown" => a.total <= between
          /\ a.health = "healthy" /\ a.total > between => a.successful > 0
          /\ a.health = "down" /\ a.total > between => a.successful < a.total

=============================================================================
