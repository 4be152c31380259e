------------------------------ MODULE WebClient ------------------------------
(***************************************************************************)
(* One browser tab of the web client (frontend/src): the session kept by   *)
(* AuthProvider, the pages, their cached queries and the requests the user *)
(* makes, against a server that other clients and the scheduler change.    *)
(*                                                                         *)
(* React Query is external and modelled as the pages use it, with its      *)
(* defaults: data is stale at once, so a query is fetched when a page      *)
(* mounts it, when the window gets the focus and when it is invalidated; a *)
(* fetch under way is joined by the next one, except that invalidation     *)
(* starts it anew if there are data already; a write to the cache does not *)
(* stop a fetch; unmounting stops nothing.                                 *)
(*                                                                         *)
(* A handler runs to its end without interruption and React renders before *)
(* the next one, so an action is a handler with the render that follows.   *)
(***************************************************************************)
EXTENDS Naturals, FiniteSets

CONSTANTS
  Tokens,      \* tokens the server may issue
  Owner,       \* Owner[t]: the user t was issued to
  Reporter,    \* the user whose monitor and incident the pages show
  Pages,       \* the pages the user goes to, beside "login"
  MaxActions,  \* bound on what the user does
  MaxChanges,  \* bound on what happens to the server and the network
  None

\* The queries: the session's user, the two lists of the dashboard, the incident
\* of its page, and the list of incidents of a monitor, which stands for the four
\* reads of the monitor's page.
Keys == {"me", "monitors", "incidents", "apiIncidents", "incident"}

Resource(k) ==
  CASE k = "me"       -> "users"
    [] k = "monitors" -> "monitors"
    [] OTHER          -> "incidents"

Users == {Owner[t] : t \in Tokens}

\* What an answer holds: whose it is, and how new.
Data == [user: Users, version: 0 .. 2]

\* The incident is OPEN, ACKNOWLEDGED or RESOLVED at versions 0, 1 and 2 of its
\* table; there are 0, 1 or 2 monitors more than at the start.
ACKNOWLEDGED == 1
RESOLVED == 2

ASSUME ClientAssumption ==
  /\ None \notin Tokens \cup Users \cup Data
  /\ Owner \in [Tokens -> Users]
  /\ Reporter \in Users
  /\ Pages \subseteq {"dashboard", "api", "incident"}
  /\ "dashboard" \in Pages
  /\ MaxActions \in Nat /\ MaxChanges \in Nat

VARIABLES
  token,     \* the state of AuthProvider and the entry in localStorage
  page,      \* the route
  cache,     \* cache[k]: the cached query k and its fetch
  mutation,  \* mutation[n]: the request that the user's n-th act made
  waits,     \* waits[a]: the act whose answer the form or button a on the screen
             \* waits for (isPending), 0 if none
  version,   \* version[r]: how often the server's table r has changed
  expired,   \* tokens the server does not accept any more
  told,      \* told[r]: the newest version of r that a request of this client
             \* was answered with (history)
  joined,    \* queries that were invalidated while a fetch was under way and
             \* have not been fetched anew (history)
  actions, changes

session == <<token, page>>
server == <<version, expired>>
bounds == <<actions, changes>>
vars == <<session, cache, mutation, waits, server, told, joined, bounds>>

\* A query's fetch: sent with the token "by", when the table was at version
\* "since".
NoFetch == [by |-> None, since |-> 0]

Query == [status: {"pending", "success", "error"}, data: Data \cup {None},
          fetch: [by: Tokens \cup {None}, since: 0 .. 2]]

Fetching(q) == q.fetch.by # None

Absent == [status |-> "pending", data |-> None, fetch |-> NoFetch]

\* Log-in (or registration) and the three changes a user can make.
Changes == {"acknowledge", "resolve", "add"}
Mutations == {"login"} \cup Changes

Acts == 1 .. MaxActions

Request == [kind: Mutations \cup {"none"}, stage: {"idle", "sent", "answered"},
            by: Tokens \cup {None}, answer: 0 .. 2]

NoRequest == [kind |-> "none", stage |-> "idle", by |-> None, answer |-> 0]

Sent(a, t) == [kind |-> a, stage |-> "sent", by |-> t, answer |-> 0]

TypeOK ==
  /\ token \in Tokens \cup {None}
  /\ page \in Pages \cup {"login"}
  /\ cache \in [Keys -> Query]
  /\ mutation \in [Acts -> Request]
  /\ waits \in [Mutations -> 0 .. MaxActions]
  /\ version \in [{"users", "monitors", "incidents"} -> 0 .. 2]
  /\ expired \subseteq Tokens
  /\ told \in [{"users", "monitors", "incidents"} -> 0 .. 2]
  /\ joined \subseteq Keys
  /\ actions \in 0 .. MaxActions /\ changes \in 0 .. MaxChanges
  /\ \A k \in Keys : /\ cache[k].status = "success" => cache[k].data # None
                     /\ cache[k].status = "pending" => cache[k].data = None

-----------------------------------------------------------------------------
(* What is on the screen, as a function of the token, the route and the    *)
(* cache.                                                                  *)

\* AuthContext: the last user answered, unless the latest answer is an error.
User(c) ==
  IF c["me"].status # "error" /\ c["me"].data # None THEN c["me"].data.user ELSE None

Loading_WithoutUser(t, c) == t # None /\ User(c) = None

\* AuthContext: isLoading.
Loading(t, c) == t # None /\ c["me"].status = "pending"

\* ProtectedRoute: a page is mounted for a user, not while one is looked for.
Mounted(t, p, c) == p # "login" /\ ~ Loading(t, c)

DashboardQueries == {"monitors", "incidents"}
ApiQueries == {"apiIncidents"}
IncidentQueries == {"incident"}

Queries(p) ==
  CASE p = "dashboard" -> DashboardQueries
    [] p = "api"       -> ApiQueries
    [] p = "incident"  -> IncidentQueries

\* The queries that are enabled and mounted.
Observed(t, p, c) ==
  (IF t # None THEN {"me"} ELSE {}) \cup
  (IF Mounted(t, p, c) THEN Queries(p) ELSE {})

\* The branches of the pages.  The dashboard loads until both its lists are
\* there, even if one of them has failed; the others show a failure at once.
Statuses(S) == {cache[k].status : k \in S}

DashboardView ==
  CASE "pending" \in Statuses(DashboardQueries) -> "loading"
    [] "error" \in Statuses(DashboardQueries) /\ "pending" \notin Statuses(DashboardQueries)
         -> "error"
    [] OTHER -> "data"

ApiView ==
  CASE "error" \in Statuses(ApiQueries)   -> "error"
    [] "pending" \in Statuses(ApiQueries) /\ "error" \notin Statuses(ApiQueries)
         -> "loading"
    [] OTHER -> "data"

IncidentView ==
  CASE cache["incident"].status = "error"   -> "error"
    [] cache["incident"].status = "pending" -> "loading"
    [] OTHER -> "data"

View ==
  CASE ~ Mounted(token, page, cache) -> "none"
    [] Mounted(token, page, cache) /\ page = "dashboard" -> DashboardView
    [] Mounted(token, page, cache) /\ page = "api"       -> ApiView
    [] Mounted(token, page, cache) /\ page = "incident"  -> IncidentView

\* A fetch starts with the token at hand, or joins the one under way.
Fetch(c, k, t) ==
  LET q == c[k]
  IN  IF Fetching(q) THEN q
      ELSE [status |-> IF q.data = None THEN "pending" ELSE q.status,
            data |-> q.data,
            fetch |-> [by |-> t, since |-> version[Resource(k)]]]

\* Every handler ends in a render: a protected page without token or user gives
\* way to the login page, and what is observed now and was not is fetched.
Render(t, p, c, j) ==
  LET there == IF t # None /\ (Loading(t, c) \/ User(c) # None) THEN p ELSE "login"
      new == Observed(t, there, c) \ Observed(token, page, cache)
      started == {k \in new : ~ Fetching(c[k])}
  IN  /\ token' = t
      /\ page' = there
      /\ cache' = [k \in Keys |-> IF k \in new THEN Fetch(c, k, t) ELSE c[k]]
      /\ joined' = j \ started

\* A form lasts as long as it is on the screen, and with it what it waits for; the
\* request goes on.
Shown(a) ==
  CASE a = "login" -> page = "login"
    [] a = "add"   -> page = "dashboard" /\ View \in {"loading", "data"}
    [] a \in {"acknowledge", "resolve"}
         -> page = "incident" /\ Mounted(token, page, cache)

Shows(w) == waits' = [a \in Mutations |-> IF Shown(a)' THEN w[a] ELSE 0]

Answered(n) == [a \in Mutations |-> IF waits[a] = n THEN 0 ELSE waits[a]]

\* The cache when the page is loaded: a token in localStorage is tried.
Started(t) ==
  [k \in Keys |->
     IF k = "me" /\ t # None
     THEN [status |-> "pending", data |-> None, fetch |-> [by |-> t, since |-> 0]]
     ELSE Absent]

Init ==
  /\ page \in Pages \cup {"login"}
  /\ token \in {t \in Tokens : Owner[t] = Reporter} \cup {None}
  /\ token = None => page = "login"
  /\ cache = Started(token)
  /\ mutation = [n \in Acts |-> NoRequest]
  /\ waits = [a \in Mutations |-> 0]
  /\ version = [r \in {"users", "monitors", "incidents"} |-> 0]
  /\ expired = {}
  /\ told = [r \in {"users", "monitors", "incidents"} |-> 0]
  /\ joined = {}
  /\ actions = 0 /\ changes = 0

-----------------------------------------------------------------------------
(* The session.                                                            *)

Act == actions < MaxActions /\ actions' = actions + 1 /\ UNCHANGED changes

Change == changes < MaxChanges /\ changes' = changes + 1 /\ UNCHANGED actions

\* The user submits the log-in or registration form; t is the token the server
\* issues if it agrees.
SignIn(t) ==
  /\ page = "login" /\ waits["login"] = 0
  /\ Act
  /\ mutation' = [mutation EXCEPT ![actions'] = Sent("login", t)]
  /\ waits' = [waits EXCEPT !["login"] = actions']
  /\ UNCHANGED <<session, cache, server, told, joined>>

\* setSession, and on to the dashboard: the user answered goes to the cache,
\* past a fetch of it that is under way.
SetSession(t) ==
  Render(t, "dashboard",
         [cache EXCEPT !["me"].status = "success",
                       !["me"].data = [user |-> Owner[t], version |-> 0]], joined)

\* The answer to the form; a refusal is a message on the form.
SignInAnswered(n) ==
  LET t == mutation[n].by
  IN  /\ mutation[n].kind = "login"
      /\ mutation' = [mutation EXCEPT ![n] = NoRequest]
      /\ UNCHANGED <<server, told, bounds>>
      /\ \/ t \notin expired /\ SetSession(t)
         \/ UNCHANGED <<session, cache, joined>>
      /\ Shows(Answered(n))

Forgotten_TokenOnly(c) == c

\* removeQueries({queryKey: ['me']}): a fetch of it is dropped as well.
Forgotten(c) == [c EXCEPT !["me"] = Absent]

Logout ==
  /\ Mounted(token, page, cache)
  /\ Render(None, page, Forgotten(cache), joined)
  /\ Shows(waits)
  /\ Act
  /\ UNCHANGED <<mutation, server, told>>

\* The page gives way to the other, even if that one leads back at once.
Navigate(p) ==
  /\ p # page
  /\ Render(token, p, cache, joined)
  /\ waits' = [a \in Mutations |-> 0]
  /\ Act
  /\ UNCHANGED <<mutation, server, told>>

\* The page is loaded anew: all that is left is the token in localStorage.
Reload ==
  /\ cache' = Started(token)
  /\ mutation' = [n \in Acts |-> NoRequest]
  /\ waits' = [a \in Mutations |-> 0]
  /\ joined' = {}
  /\ Act
  /\ UNCHANGED <<session, server, told>>

-----------------------------------------------------------------------------
(* Queries.                                                                *)

Refetched_PagesOnly(S) == S \ {"me"}

\* What the focus fetches of the queries observed: all, as all are stale.
Refetched(S) == S

\* The window gets the focus.
Focus ==
  LET idle == {k \in Refetched(Observed(token, page, cache)) : ~ Fetching(cache[k])}
  IN  /\ idle # {}
      /\ UNCHANGED <<mutation, server, told, bounds>>
      /\ Render(token, page,
                [k \in Keys |-> IF k \in idle THEN Fetch(cache, k, token) ELSE cache[k]],
                joined \ idle)
      /\ Shows(waits)

Failed_ErrorUnseen(q) == [status |-> "success", data |-> q.data, fetch |-> NoFetch]

\* An error leaves the data that were there.
Failed(q) == [status |-> "error", data |-> q.data, fetch |-> NoFetch]

Succeeded(q, v) ==
  [status |-> "success", data |-> [user |-> Owner[q.fetch.by], version |-> v],
   fetch |-> NoFetch]

\* The answer to a fetch arrives.  The server read its table at some moment since
\* it was sent.  It refuses an expired token, and the monitor and the incident to
\* all but their owner; the network loses what it likes.
Receive(k) ==
  LET q == cache[k]
      Refused == \/ q.fetch.by \in expired
                 \/ k \in {"incident", "apiIncidents"} /\ Owner[q.fetch.by] # Reporter
  IN  /\ Fetching(q)
      /\ UNCHANGED <<mutation, server, told>>
      /\ \/ /\ ~ Refused
            /\ \E v \in q.fetch.since .. version[Resource(k)] :
                 Render(token, page, [cache EXCEPT ![k] = Succeeded(q, v)], joined)
            /\ UNCHANGED bounds
         \/ /\ Render(token, page, [cache EXCEPT ![k] = Failed(q)], joined)
            /\ IF Refused THEN UNCHANGED bounds ELSE Change
      /\ Shows(waits)

-----------------------------------------------------------------------------
(* Requests that change something.  A button is disabled while the request  *)
(* it has made is under way; after leaving the page and coming back it is   *)
(* a new button.                                                           *)

Offered(a) ==
  /\ Shown(a) /\ waits[a] = 0
  /\ a = "acknowledge" => View = "data" /\ cache["incident"].data.version < ACKNOWLEDGED
  /\ a = "resolve" => View = "data" /\ cache["incident"].data.version < RESOLVED

Submit(a) ==
  /\ Offered(a)
  /\ Act
  /\ mutation' = [mutation EXCEPT ![actions'] = Sent(a, token)]
  /\ waits' = [waits EXCEPT ![a] = actions']
  /\ UNCHANGED <<session, cache, server, told, joined>>

\* The table that a request changes, and what it makes of it.
Table(a) == IF a = "add" THEN "monitors" ELSE "incidents"

Outcome(a) ==
  CASE a = "add"         -> version["monitors"] + 1
    [] a = "acknowledge" -> ACKNOWLEDGED
    [] a = "resolve"     -> RESOLVED

Granted(m) ==
  /\ m.by \notin expired
  /\ m.kind = "add" => version["monitors"] < 2
  /\ m.kind = "acknowledge" => version["incidents"] < ACKNOWLEDGED
  /\ m.kind = "resolve" => version["incidents"] < RESOLVED
  /\ m.kind # "add" => Owner[m.by] = Reporter

\* Nothing comes of the request but a message.
Dropped(n) ==
  /\ mutation' = [mutation EXCEPT ![n] = NoRequest]
  /\ waits' = Answered(n)

\* The server handles a request.  One that is refused, or whose answer is lost,
\* leaves the client as it was but for a message.
Serve(n) ==
  LET a == mutation[n].kind
  IN  /\ a \in Changes /\ mutation[n].stage = "sent"
      /\ \/ /\ Granted(mutation[n])
            /\ version' = [version EXCEPT ![Table(a)] = Outcome(a)]
            /\ \/ /\ mutation' = [mutation EXCEPT ![n].stage = "answered",
                                                   ![n].answer = Outcome(a)]
                  /\ UNCHANGED <<waits, bounds>>
               \/ Dropped(n) /\ Change
         \/ /\ ~ Granted(mutation[n])
            /\ Dropped(n)
            /\ UNCHANGED <<version, bounds>>
      /\ UNCHANGED <<session, cache, expired, told, joined>>

Invalidated_Joins(c, S) ==
  [k \in Keys |-> IF k \in S THEN Fetch(c, k, token) ELSE c[k]]

\* invalidateQueries on mounted queries: a fetch under way starts anew, unless
\* it is the first.
Invalidated(c, S) ==
  LET dropped == [k \in Keys |-> IF k \in S /\ c[k].data # None
                                 THEN [c[k] EXCEPT !.fetch = NoFetch] ELSE c[k]]
  IN  [k \in Keys |-> IF k \in S THEN Fetch(dropped, k, token) ELSE c[k]]

\* The queries whose key begins with the one the request invalidates.
Affected(a) == IF a = "add" THEN {"monitors"} ELSE {"incidents", "apiIncidents"}

\* onSuccess of acknowledge, resolve and add, also when the page has gone: the
\* updated incident is written over the cached one, the lists are invalidated.
Apply(m) ==
  LET written ==
        IF m.kind = "add" THEN cache
        ELSE [cache EXCEPT !["incident"].status = "success",
                !["incident"].data = [user |-> Owner[m.by], version |-> m.answer]]
      active == Affected(m.kind) \cap Observed(token, page, cache)
      left == {k \in Affected(m.kind) : /\ Fetching(cache[k])
                                        /\ k \notin active \/ cache[k].data = None}
  IN  /\ told' = [told EXCEPT ![Table(m.kind)] = IF @ > m.answer THEN @ ELSE m.answer]
      /\ Render(token, page, Invalidated(written, active), joined \cup left)

Finish(n) ==
  /\ mutation[n].stage = "answered"
  /\ mutation' = [mutation EXCEPT ![n] = NoRequest]
  /\ Apply(mutation[n])
  /\ Shows(Answered(n))
  /\ UNCHANGED <<server, bounds>>

-----------------------------------------------------------------------------
(* The rest of the world.                                                  *)

\* The scheduler or another client changes a table.
ServerChanges(r) ==
  /\ version[r] < 2
  /\ version' = [version EXCEPT ![r] = @ + 1]
  /\ Change
  /\ UNCHANGED <<session, cache, mutation, waits, expired, told, joined>>

\* A token reaches the end of its 7 days, or its user is gone.
Expire(t) ==
  /\ t \notin expired
  /\ expired' = expired \cup {t}
  /\ Change
  /\ UNCHANGED <<session, cache, mutation, waits, version, told, joined>>

Next ==
  \/ \E t \in Tokens : SignIn(t)
  \/ Logout
  \/ \E p \in Pages \cup {"login"} : Navigate(p)
  \/ Reload
  \/ Focus
  \/ \E k \in Keys : Receive(k)
  \/ \E n \in Acts : SignInAnswered(n)
  \/ \E a \in Changes : Submit(a)
  \/ \E n \in Acts : Serve(n)
  \/ \E n \in Acts : Finish(n)
  \/ \E r \in {"monitors", "incidents"} : ServerChanges(r)
  \/ \E t \in Tokens : Expire(t)

\* Every request is answered or fails, every answer is handled, and the user
\* comes back to the window again and again.
Fairness ==
  /\ \A k \in Keys : WF_vars(Receive(k))
  /\ WF_vars(\E n \in Acts : SignInAnswered(n) \/ Serve(n) \/ Finish(n))
  /\ WF_vars(Focus)

Spec == Init /\ [][Next]_vars /\ Fairness

-----------------------------------------------------------------------------
\* After log-out no user is left and none comes back: no answer that is still
\* under way restores the session that was ended.
LogoutIsFinal ==
  token = None => User(cache) = None /\ ~ Fetching(cache["me"])

\* A list on the screen shows the user's own changes as soon as it is at rest,
\* whatever fetches were under way when they were answered: onSuccess starts
\* those anew.  Only a list on its first fetch, or one off the screen, joins it.
OwnChangesShow ==
  \A k \in Observed(token, page, cache) \ (joined \cup {"me", "incident"}) :
    cache[k].status = "success" /\ ~ Fetching(cache[k]) =>
      cache[k].data.version >= told[Resource(k)]

\* "treats a failed session restore as logged out, not stuck loading"
\* (AuthContext.test.tsx): whatever is shown as loading has a fetch under way,
\* through errors, log-outs and fetches of an earlier session.
LoadingIsFetching ==
  /\ Loading(token, cache) => Fetching(cache["me"])
  /\ View = "loading" => \E k \in Queries(page) : /\ cache[k].status = "pending"
                                                 /\ Fetching(cache[k])

\* Answers that cross, come late from another session or join an old fetch may
\* show the wrong user, old lists or an incident going back; but whoever stays
\* and comes back to the window sees himself and the latest data in the end, or
\* the login page if the token has expired.
ShownCatchesUp ==
  LET stays == /\ token # None
               /\ page \in {"api", "incident"} => Owner[token] = Reporter
      latest(k) == [user |-> Owner[token], version |-> version[Resource(k)]]
  IN  <>[]stays =>
        <>[](IF token \in expired
             THEN page = "login"
             ELSE \A k \in Observed(token, page, cache) :
                    cache[k].status = "success" /\ cache[k].data = latest(k))

=============================================================================
