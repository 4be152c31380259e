---------------------------- MODULE WebClientProofs ----------------------------
(***************************************************************************)
(* Theorems about WebClient, for any tokens, users and pages, and however  *)
(* much the user does and the server changes.                              *)
(***************************************************************************)
EXTENDS WebClient, TLAPS

-----------------------------------------------------------------------------
(* The parts of the screen.                                                *)

Tables == {"users", "monitors", "incidents"}

LEMMA ResourceIsTable == \A k \in Keys : Resource(k) \in Tables
BY DEF Keys, Resource, Tables

LEMMA QueriesAreKeys == \A p \in Pages : Queries(p) \subseteq Keys \ {"me"}
<1> SUFFICES ASSUME NEW p \in {"dashboard", "api", "incident"}
             PROVE  Queries(p) \subseteq Keys \ {"me"}
  BY ClientAssumption
<1>1. CASE p = "dashboard"
  BY <1>1 DEF Queries, DashboardQueries, Keys
<1>2. CASE p = "api"
  BY <1>2 DEF Queries, ApiQueries, Keys
<1>3. CASE p = "incident"
  BY <1>3 DEF Queries, IncidentQueries, Keys
<1>4. QED
  BY <1>1, <1>2, <1>3

\* Without a page nothing but the user is observed, without a token nothing.
LEMMA ObservedFacts ==
  ASSUME NEW t, NEW p \in Pages \cup {"login"}, NEW c, t = None => p = "login"
  PROVE  /\ Observed(t, p, c) \subseteq Keys
         /\ "me" \in Observed(t, p, c) <=> t # None
         /\ t = None => Observed(t, p, c) = {}
<1>1. "me" \in Keys
  BY DEF Keys
<1>2. QED
  BY <1>1, QueriesAreKeys DEF Observed, Mounted

-----------------------------------------------------------------------------
(* Types.                                                                  *)

QueryOK(q) ==
  /\ q \in Query
  /\ q.status = "success" => q.data # None
  /\ q.status = "pending" => q.data = None

CacheOK(c) == c \in [Keys -> Query] /\ \A k \in Keys : QueryOK(c[k])

\* Nobody has a page or a user without a token.
Screen ==
  /\ token \in Tokens \cup {None}
  /\ page \in Pages \cup {"login"}
  /\ CacheOK(cache)
  /\ joined \subseteq Keys
  /\ token = None => page = "login" /\ cache["me"] = Absent

\* A request was made with a token; what is handled of an answer is a change.
RequestOK(m) ==
  /\ m \in Request
  /\ m.kind # "none" => m.by \in Tokens
  /\ m.stage = "answered" => m.kind \in Changes

Waits == [Mutations -> 0 .. MaxActions]

World ==
  /\ mutation \in [Acts -> Request]
  /\ \A n \in Acts : RequestOK(mutation[n])
  /\ waits \in Waits
  /\ version \in [Tables -> 0 .. 2]
  /\ expired \subseteq Tokens
  /\ told \in [Tables -> 0 .. 2]
  /\ actions \in 0 .. MaxActions /\ changes \in 0 .. MaxChanges

TypeInv == Screen /\ World

LEMMA AbsentOK == QueryOK(Absent)
BY DEF QueryOK, Absent, Query, NoFetch

LEMMA StartedOK ==
  ASSUME NEW t \in Tokens \cup {None}
  PROVE  CacheOK(Started(t)) /\ (t = None => Started(t)["me"] = Absent)
<1> DEFINE q == [status |-> "pending", data |-> None, fetch |-> [by |-> t, since |-> 0]]
<1>1. QueryOK(q)
  BY DEF QueryOK, Query
<1>2. "me" \in Keys
  BY DEF Keys
<1>3. QED
  BY <1>1, <1>2, AbsentOK DEF CacheOK, Started, QueryOK

\* A fetch keeps a query well-formed and is under way afterwards.
LEMMA FetchOK ==
  ASSUME NEW c, NEW k \in Keys, QueryOK(c[k]), NEW t \in Tokens,
         version \in [Tables -> 0 .. 2]
  PROVE  /\ QueryOK(Fetch(c, k, t)) /\ Fetching(Fetch(c, k, t))
         /\ Fetch(c, k, t).data = c[k].data
         /\ c[k].data # None => Fetch(c, k, t).status = c[k].status
<1>1. version[Resource(k)] \in 0 .. 2
  BY ResourceIsTable
<1>2. t # None
  BY ClientAssumption
<1>3. QED
  BY <1>1, <1>2 DEF Fetch, Fetching, QueryOK, Query

\* What a render makes of a well-formed cache.
LEMMA RenderType ==
  ASSUME version \in [Tables -> 0 .. 2], NEW t \in Tokens \cup {None},
         NEW p \in Pages \cup {"login"}, NEW c, CacheOK(c),
         NEW j \in SUBSET Keys, Render(t, p, c, j)
  PROVE  /\ token' = t /\ page' \in {p, "login"} /\ (t = None => page' = "login")
         /\ CacheOK(cache')
         /\ t = None => cache' = c
         /\ joined' \subseteq j
<1> DEFINE there == IF t # None /\ (Loading(t, c) \/ User(c) # None) THEN p ELSE "login"
           new == Observed(t, there, c) \ Observed(token, page, cache)
<1>1. /\ token' = t /\ page' = there
      /\ cache' = [k \in Keys |-> IF k \in new THEN Fetch(c, k, t) ELSE c[k]]
      /\ joined' \subseteq j
  BY DEF Render
<1>2. there \in Pages \cup {"login"} /\ (t = None => there = "login")
  OBVIOUS
<1>3. t = None => new = {}
  BY <1>2, ObservedFacts
<1> HIDE DEF there, new
<1>4. \A k \in Keys : QueryOK(IF k \in new THEN Fetch(c, k, t) ELSE c[k])
  BY <1>3, FetchOK DEF CacheOK
<1>5. CacheOK(cache')
  BY <1>1, <1>4 DEF CacheOK, QueryOK
<1>6. t = None => cache' = c
  BY <1>1, <1>3 DEF CacheOK
<1>7. QED
  BY <1>1, <1>5, <1>6 DEF there

\* A render whose cache has no user without a token leaves none.
LEMMA RenderScreen ==
  ASSUME World, NEW t \in Tokens \cup {None}, NEW p \in Pages \cup {"login"}, NEW c,
         CacheOK(c), t = None => c["me"] = Absent, NEW j \in SUBSET Keys,
         Render(t, p, c, j)
  PROVE  Screen'
<1>1. version \in [Tables -> 0 .. 2]
  BY DEF World
<1>2. QED
  BY <1>1, RenderType DEF Screen

\* One request under way more, or less.
LEMMA RequestFrame ==
  ASSUME World, NEW n \in Acts, NEW m, RequestOK(m),
         mutation' = [mutation EXCEPT ![n] = m]
  PROVE  /\ mutation' \in [Acts -> Request]
         /\ \A i \in Acts : RequestOK(mutation'[i])
BY DEF World, RequestOK

LEMMA NewRequestsOK ==
  /\ RequestOK(NoRequest)
  /\ \A a \in Mutations, t \in Tokens : RequestOK(Sent(a, t))
BY DEF RequestOK, NoRequest, Sent, Request, Mutations, Changes

\* An act has a number, and what the forms wait for is one.
LEMMA ActIsNext == ASSUME World, Act PROVE actions' \in Acts
BY ClientAssumption DEF World, Act, Acts

LEMMA AnsweredWaits == ASSUME World, NEW n PROVE Answered(n) \in Waits
BY ClientAssumption DEF World, Waits, Answered

LEMMA ShownWaits == ASSUME NEW w \in Waits, Shows(w) PROVE waits' \in Waits
BY ClientAssumption DEF Waits, Shows

LEMMA WaitsAre ==
  ASSUME TypeInv, \/ Shows(waits)
                  \/ \E n : Shows(Answered(n))
                  \/ waits' = [a \in Mutations |-> 0]
  PROVE  waits' \in Waits
<1>1. CASE waits' = [a \in Mutations |-> 0]
  BY <1>1, ClientAssumption DEF Waits
<1>2. QED
  BY <1>1, AnsweredWaits, ShownWaits DEF TypeInv, World

LEMMA InitTypeInv == Init => TypeInv
<1> SUFFICES ASSUME Init PROVE TypeInv
  OBVIOUS
<1>1. token \in Tokens \cup {None}
  BY DEF Init
<1>2. Screen
  BY <1>1, StartedOK DEF Init, Screen
<1>3. World
  BY NewRequestsOK, ClientAssumption DEF Init, World, Waits, Tables, RequestOK
<1>4. QED
  BY <1>2, <1>3 DEF TypeInv

LEMMA BoundsOK ==
  ASSUME World, Act \/ Change \/ UNCHANGED bounds
  PROVE  actions' \in 0 .. MaxActions /\ changes' \in 0 .. MaxChanges
BY ClientAssumption DEF World, Act, Change, bounds

\* Handlers of the session.
LEMMA SignInType == ASSUME TypeInv, NEW t \in Tokens, SignIn(t) PROVE TypeInv'
<1>1. "login" \in Mutations
  BY DEF Mutations
<1>2. Screen'
  BY DEF SignIn, TypeInv, Screen, session
<1>3. actions' \in Acts /\ actions' \in 0 .. MaxActions
  BY ActIsNext, BoundsOK DEF SignIn, TypeInv
<1>4. waits' \in Waits
  BY <1>1, <1>3 DEF SignIn, TypeInv, World, Waits
<1>5. World'
  BY <1>1, <1>3, <1>4, NewRequestsOK, RequestFrame, BoundsOK
  DEF SignIn, TypeInv, World, server
<1>6. QED
  BY <1>2, <1>5 DEF TypeInv

\* Data written to the cache past the fetch of their query.
Known(c, k, u, v) ==
  [c EXCEPT ![k].status = "success", ![k].data = [user |-> u, version |-> v]]

LEMMA KnownOK ==
  ASSUME NEW c, CacheOK(c), NEW k \in Keys, NEW u \in Users, NEW v \in 0 .. 2
  PROVE  /\ CacheOK(Known(c, k, u, v))
         /\ Known(c, k, u, v)[k].status = "success"
         /\ \A l \in Keys \ {k} : Known(c, k, u, v)[l] = c[l]
<1> DEFINE d == [user |-> u, version |-> v]
           known == Known(c, k, u, v)
           q == [c[k] EXCEPT !.status = "success", !.data = d]
<1>1. d \in Data /\ d # None
  BY ClientAssumption DEF Data
<1> HIDE DEF d
<1>2. c[k] \in Query
  BY DEF CacheOK
<1>3. q \in Query /\ q.status = "success" /\ q.data = d /\ q.fetch = c[k].fetch
  BY <1>1, <1>2 DEF Query
<1>4. known = [c EXCEPT ![k] = q]
  BY DEF CacheOK, Known, d
<1>5. QED
  BY <1>1, <1>3, <1>4 DEF CacheOK, QueryOK, d

LEMMA OwnerIsUser == \A t \in Tokens : Owner[t] \in Users
BY ClientAssumption

LEMMA SignInAnsweredType ==
  ASSUME TypeInv, NEW n \in Acts, SignInAnswered(n) PROVE TypeInv'
<1> DEFINE t == mutation[n].by
<1>1. "me" \in Keys
  BY DEF Keys
<1>2. t \in Tokens
  BY DEF SignInAnswered, TypeInv, World, RequestOK
<1>3. World'
  BY NewRequestsOK, RequestFrame, BoundsOK, WaitsAre
  DEF SignInAnswered, TypeInv, World, server
<1>4. CASE SetSession(t)
  <2> DEFINE known == Known(cache, "me", Owner[t], 0)
  <2>1. Render(t, "dashboard", known, joined)
    BY <1>4 DEF SetSession, Known
  <2>2. CacheOK(known)
    <3>1. CacheOK(cache) /\ Owner[t] \in Users /\ 0 \in 0 .. 2
      BY <1>2, OwnerIsUser DEF TypeInv, Screen
    <3>2. QED
      BY <1>1, <3>1, KnownOK
  <2>3. /\ t # None /\ t \in Tokens \cup {None} /\ joined \in SUBSET Keys
        /\ "dashboard" \in Pages \cup {"login"}
    BY <1>2, ClientAssumption DEF TypeInv, Screen
  <2> HIDE DEF known
  <2>4. Screen'
    BY <2>1, <2>2, <2>3, RenderScreen DEF TypeInv
  <2>5. QED
    BY <1>3, <2>4 DEF TypeInv
<1>5. CASE UNCHANGED <<session, cache, joined>>
  BY <1>3, <1>5 DEF TypeInv, Screen, session
<1>6. QED
  BY <1>4, <1>5 DEF SignInAnswered

LEMMA LogoutType == ASSUME TypeInv, Logout PROVE TypeInv'
<1> DEFINE c == Forgotten(cache)
<1>1. CacheOK(c) /\ c["me"] = Absent
  BY AbsentOK DEF Forgotten, TypeInv, Screen, CacheOK, QueryOK, Keys
<1> HIDE DEF c
<1>2. Screen'
  BY <1>1, RenderScreen DEF Logout, TypeInv, Screen, c
<1>3. World'
  BY BoundsOK, WaitsAre DEF Logout, TypeInv, World, server
<1>4. QED
  BY <1>2, <1>3 DEF TypeInv

LEMMA NavigateType ==
  ASSUME TypeInv, NEW p \in Pages \cup {"login"}, Navigate(p) PROVE TypeInv'
<1>1. Screen'
  BY RenderScreen DEF Navigate, TypeInv, Screen
<1>2. World'
  BY BoundsOK, WaitsAre DEF Navigate, TypeInv, World, server
<1>3. QED
  BY <1>1, <1>2 DEF TypeInv

LEMMA ReloadType == ASSUME TypeInv, Reload PROVE TypeInv'
<1>1. Screen'
  BY StartedOK DEF Reload, TypeInv, Screen, session
<1>2. World'
  BY NewRequestsOK, BoundsOK, WaitsAre DEF Reload, TypeInv, World, server, RequestOK
<1>3. QED
  BY <1>1, <1>2 DEF TypeInv

\* Queries fetched anew, of a cache in which some fetches were dropped.
LEMMA RefreshedOK ==
  ASSUME World, NEW c, CacheOK(c), NEW S, NEW t \in Tokens \cup {None},
         t = None => S = {}
  PROVE  CacheOK([k \in Keys |-> IF k \in S THEN Fetch(c, k, t) ELSE c[k]])
<1>1. version \in [Tables -> 0 .. 2]
  BY DEF World
<1>2. \A k \in Keys : QueryOK(IF k \in S THEN Fetch(c, k, t) ELSE c[k])
  BY <1>1, FetchOK DEF CacheOK
<1>3. QED
  BY <1>2 DEF CacheOK, QueryOK

LEMMA DroppedOK ==
  ASSUME NEW q, QueryOK(q)
  PROVE  /\ QueryOK([q EXCEPT !.fetch = NoFetch])
         /\ [q EXCEPT !.fetch = NoFetch].data = q.data
         /\ [q EXCEPT !.fetch = NoFetch].status = q.status
         /\ ~ Fetching([q EXCEPT !.fetch = NoFetch])
BY DEF QueryOK, Query, NoFetch, Fetching

LEMMA InvalidatedOK ==
  ASSUME TypeInv, NEW c, CacheOK(c), NEW S, token = None => S = {}
  PROVE  /\ CacheOK(Invalidated(c, S))
         /\ \A k \in Keys \ S : Invalidated(c, S)[k] = c[k]
<1> DEFINE dropped == [k \in Keys |-> IF k \in S /\ c[k].data # None
                                      THEN [c[k] EXCEPT !.fetch = NoFetch] ELSE c[k]]
<1>1. CacheOK(dropped)
  <2>1. \A k \in Keys : QueryOK(dropped[k])
    BY DroppedOK DEF CacheOK
  <2>2. QED
    BY <2>1 DEF CacheOK, QueryOK
<1>2. \A k \in Keys \ S : dropped[k] = c[k]
  OBVIOUS
<1>3. Invalidated(c, S) =
        [k \in Keys |-> IF k \in S THEN Fetch(dropped, k, token) ELSE c[k]]
  BY DEF Invalidated
<1> HIDE DEF dropped
<1>4. Invalidated(c, S) =
        [k \in Keys |-> IF k \in S THEN Fetch(dropped, k, token) ELSE dropped[k]]
  BY <1>2, <1>3
<1>5. CacheOK([k \in Keys |-> IF k \in S THEN Fetch(dropped, k, token) ELSE dropped[k]])
  BY <1>1, RefreshedOK DEF TypeInv, Screen
<1>6. QED
  BY <1>3, <1>4, <1>5

LEMMA FocusType == ASSUME TypeInv, Focus PROVE TypeInv'
<1> DEFINE S == {k \in Refetched(Observed(token, page, cache)) : ~ Fetching(cache[k])}
           c == [k \in Keys |-> IF k \in S THEN Fetch(cache, k, token) ELSE cache[k]]
<1>1. token # None
  BY ObservedFacts DEF Focus, Refetched, TypeInv, Screen
<1>2. CacheOK(c)
  BY <1>1, RefreshedOK DEF TypeInv, Screen
<1>3. Render(token, page, c, joined \ S)
  BY DEF Focus
<1> HIDE DEF c, S
<1>4. Screen'
  BY <1>1, <1>2, <1>3, RenderScreen DEF TypeInv, Screen
<1>5. World'
  BY BoundsOK, WaitsAre DEF Focus, TypeInv, World, server
<1>6. QED
  BY <1>4, <1>5 DEF TypeInv

\* An answer ends the fetch, with data or without.
LEMMA AnsweredOK ==
  ASSUME TypeInv, NEW k \in Keys, Fetching(cache[k])
  PROVE  /\ QueryOK(Failed(cache[k])) /\ ~ Fetching(Failed(cache[k]))
         /\ \A v \in cache[k].fetch.since .. version[Resource(k)] :
              /\ QueryOK(Succeeded(cache[k], v)) /\ ~ Fetching(Succeeded(cache[k], v))
              /\ v \in 0 .. 2
<1>1. QueryOK(cache[k]) /\ version[Resource(k)] \in 0 .. 2
  BY ResourceIsTable DEF TypeInv, Screen, World, CacheOK
<1>2. QueryOK(Failed(cache[k])) /\ ~ Fetching(Failed(cache[k]))
  BY <1>1 DEF Failed, QueryOK, Query, NoFetch, Fetching
<1>3. ASSUME NEW v \in cache[k].fetch.since .. version[Resource(k)]
      PROVE  /\ QueryOK(Succeeded(cache[k], v)) /\ ~ Fetching(Succeeded(cache[k], v))
             /\ v \in 0 .. 2
  <2>1. v \in 0 .. 2 /\ cache[k].fetch.by \in Tokens
    BY <1>1, <1>3 DEF QueryOK, Query, Fetching
  <2> DEFINE d == [user |-> Owner[cache[k].fetch.by], version |-> v]
  <2>2. d \in Data /\ d # None
    BY <2>1, OwnerIsUser, ClientAssumption DEF Data
  <2> HIDE DEF d
  <2>3. Succeeded(cache[k], v) = [status |-> "success", data |-> d, fetch |-> NoFetch]
    BY DEF Succeeded, d
  <2>4. QED
    BY <2>1, <2>2, <2>3 DEF QueryOK, Query, NoFetch, Fetching
<1>4. QED
  BY <1>2, <1>3

LEMMA ReceiveType == ASSUME TypeInv, NEW k \in Keys, Receive(k) PROVE TypeInv'
<1>1. Fetching(cache[k])
  BY DEF Receive
<1>2. PICK q : /\ Render(token, page, [cache EXCEPT ![k] = q], joined)
               /\ QueryOK(q)
  <2>1. CASE Render(token, page, [cache EXCEPT ![k] = Failed(cache[k])], joined)
    BY <1>1, <2>1, AnsweredOK
  <2>2. CASE \E v \in cache[k].fetch.since .. version[Resource(k)] :
               Render(token, page, [cache EXCEPT ![k] = Succeeded(cache[k], v)], joined)
    BY <1>1, <2>2, AnsweredOK
  <2>3. QED
    BY <2>1, <2>2 DEF Receive
<1>3. CacheOK([cache EXCEPT ![k] = q])
  BY <1>2 DEF TypeInv, Screen, CacheOK, QueryOK
<1>4. token = None => [cache EXCEPT ![k] = q]["me"] = Absent
  BY <1>1 DEF TypeInv, Screen, CacheOK, Absent, Fetching, NoFetch, Keys
<1>5. Screen'
  BY <1>2, <1>3, <1>4, RenderScreen DEF TypeInv, Screen
<1>6. World'
  BY BoundsOK, WaitsAre DEF Receive, TypeInv, World, server
<1>7. QED
  BY <1>5, <1>6 DEF TypeInv

\* A change needs a page, and a page needs a token.
LEMMA SubmitType == ASSUME TypeInv, NEW a \in Changes, Submit(a) PROVE TypeInv'
<1>1. a \in Mutations
  BY DEF Mutations
<1>2. token \in Tokens
  <2>1. page # "login"
    BY DEF Submit, Offered, Shown, Mounted, Changes
  <2>2. QED
    BY <2>1 DEF TypeInv, Screen
<1>3. Screen'
  BY DEF Submit, TypeInv, Screen, session
<1>4. actions' \in Acts /\ actions' \in 0 .. MaxActions
  BY ActIsNext, BoundsOK DEF Submit, TypeInv
<1>5. waits' \in Waits
  BY <1>1, <1>4 DEF Submit, TypeInv, World, Waits
<1>6. World'
  BY <1>1, <1>2, <1>4, <1>5, NewRequestsOK, RequestFrame, BoundsOK
  DEF Submit, TypeInv, World, server
<1>7. QED
  BY <1>3, <1>6 DEF TypeInv

\* What the server makes of a table is newer.
LEMMA OutcomeIsNewer ==
  ASSUME World, NEW a \in Changes, NEW m, m.kind = a, Granted(m)
  PROVE  /\ Table(a) \in Tables /\ Outcome(a) \in 0 .. 2
         /\ version[Table(a)] < Outcome(a)
<1>1. version["monitors"] \in 0 .. 2 /\ version["incidents"] \in 0 .. 2
  BY DEF World, Tables
<1>2. CASE a = "add"
  BY <1>1, <1>2 DEF Granted, Outcome, Table, Tables
<1>3. CASE a = "acknowledge"
  BY <1>1, <1>3 DEF Granted, Outcome, Table, Tables, ACKNOWLEDGED
<1>4. CASE a = "resolve"
  BY <1>1, <1>4 DEF Granted, Outcome, Table, Tables, RESOLVED
<1>5. QED
  BY <1>2, <1>3, <1>4 DEF Changes

LEMMA ServeType == ASSUME TypeInv, NEW n \in Acts, Serve(n) PROVE TypeInv'
<1> DEFINE a == mutation[n].kind
<1>1. a \in Changes /\ mutation[n] \in Request /\ mutation[n].by \in Tokens
  BY DEF Serve, TypeInv, World, RequestOK, Changes
<1>2. Screen'
  BY DEF Serve, TypeInv, Screen, session
<1>3. /\ version' \in [Tables -> 0 .. 2]
      /\ \E m : RequestOK(m) /\ mutation' = [mutation EXCEPT ![n] = m]
      /\ waits' \in Waits
  <2>1. CASE Granted(mutation[n]) /\ version' = [version EXCEPT ![Table(a)] = Outcome(a)]
    <3>1. Outcome(a) \in 0 .. 2 /\ version' \in [Tables -> 0 .. 2]
      BY <1>1, <2>1, OutcomeIsNewer DEF TypeInv, World
    <3> DEFINE m == [mutation[n] EXCEPT !.stage = "answered", !.answer = Outcome(a)]
    <3>2. RequestOK(m)
      BY <1>1, <3>1 DEF RequestOK, Request
    <3>3. mutation' = [mutation EXCEPT ![n].stage = "answered", ![n].answer = Outcome(a)]
            => mutation' = [mutation EXCEPT ![n] = m]
      BY DEF TypeInv, World
    <3> HIDE DEF m
    <3>4. CASE Dropped(n)
      BY <3>1, <3>4, NewRequestsOK, AnsweredWaits DEF Dropped, TypeInv
    <3>5. CASE mutation' = [mutation EXCEPT ![n] = m] /\ UNCHANGED waits
      BY <3>1, <3>2, <3>5 DEF TypeInv, World
    <3>6. QED
      BY <2>1, <3>3, <3>4, <3>5 DEF Serve
  <2>2. CASE Dropped(n) /\ UNCHANGED version
    BY <2>2, NewRequestsOK, AnsweredWaits DEF Dropped, TypeInv, World
  <2>3. QED
    BY <2>1, <2>2 DEF Serve
<1>4. World'
  BY <1>3, RequestFrame, BoundsOK DEF Serve, TypeInv, World
<1>5. QED
  BY <1>2, <1>4 DEF TypeInv

\* The parts of onSuccess.
Written(m) ==
  IF m.kind = "add" THEN cache ELSE Known(cache, "incident", Owner[m.by], m.answer)

Told(m) ==
  [told EXCEPT ![Table(m.kind)] =
     IF told[Table(m.kind)] > m.answer THEN told[Table(m.kind)] ELSE m.answer]

Active(a) == Affected(a) \cap Observed(token, page, cache)

Left(a) == {k \in Affected(a) : /\ Fetching(cache[k])
                                /\ k \notin Active(a) \/ cache[k].data = None}

LEMMA ApplyParts ==
  ASSUME TypeInv, NEW n \in Acts, NEW m, m = mutation[n], NEW a, a = m.kind, Finish(n)
  PROVE  /\ a \in Changes
         /\ Render(token, page, Invalidated(Written(m), Active(a)), joined \cup Left(a))
         /\ told' = Told(m)
         /\ m.answer \in 0 .. 2 /\ Table(a) \in Tables
         /\ CacheOK(Written(m))
         /\ \A k \in Keys \ {"incident"} : Written(m)[k] = cache[k]
         /\ \/ Written(m)["incident"] = cache["incident"]
            \/ Written(m)["incident"].status = "success"
         /\ Affected(a) \subseteq Keys \ {"me", "incident"}
         /\ token = None => Active(a) = {}
<1>1. RequestOK(m) /\ m.stage = "answered" /\ a \in Changes /\ m.by \in Tokens
  BY DEF Finish, TypeInv, World, RequestOK, Changes
<1>2. /\ m.answer \in 0 .. 2 /\ Owner[m.by] \in Users
  BY <1>1, OwnerIsUser DEF RequestOK, Request
<1>3. "incident" \in Keys /\ CacheOK(cache)
  BY DEF Keys, TypeInv, Screen
<1>4. /\ CacheOK(Written(m)) /\ \A k \in Keys \ {"incident"} : Written(m)[k] = cache[k]
      /\ \/ Written(m)["incident"] = cache["incident"]
         \/ Written(m)["incident"].status = "success"
  <2> DEFINE known == Known(cache, "incident", Owner[m.by], m.answer)
  <2>1. /\ CacheOK(known) /\ known["incident"].status = "success"
        /\ \A k \in Keys \ {"incident"} : known[k] = cache[k]
    <3> DEFINE u == Owner[m.by]
               v == m.answer
    <3>1. u \in Users /\ v \in 0 .. 2
      BY <1>2
    <3> HIDE DEF u, v
    <3>2. LET K == Known(cache, "incident", u, v)
          IN  /\ CacheOK(K) /\ K["incident"].status = "success"
              /\ \A k \in Keys \ {"incident"} : K[k] = cache[k]
      BY <1>3, <3>1, KnownOK
    <3>3. QED
      BY <3>2 DEF u, v
  <2>2. Written(m) = cache \/ Written(m) = known
    BY DEF Written
  <2> HIDE DEF known
  <2>3. QED
    BY <1>3, <2>1, <2>2
<1>5. Affected(a) \subseteq Keys \ {"me", "incident"} /\ Table(a) \in Tables
  BY <1>1 DEF Affected, Keys, Table, Tables
<1>6. token = None => Active(a) = {}
  BY ObservedFacts DEF Active, TypeInv, Screen
<1>7. /\ Render(token, page, Invalidated(Written(m), Active(a)), joined \cup Left(a))
      /\ told' = Told(m)
  BY DEF Finish, Apply, Written, Active, Left, Known, Told
<1>8. QED
  BY <1>1, <1>2, <1>4, <1>5, <1>6, <1>7

LEMMA FinishType == ASSUME TypeInv, NEW n \in Acts, Finish(n) PROVE TypeInv'
<1> DEFINE m == mutation[n]
           a == m.kind
           c == Invalidated(Written(m), Active(a))
<1>1. /\ Render(token, page, c, joined \cup Left(a)) /\ CacheOK(c)
      /\ \A k \in Keys \ Active(a) : c[k] = Written(m)[k]
  BY ApplyParts, InvalidatedOK
<1>2. "me" \in Keys /\ "me" # "incident" /\ "me" \notin Active(a)
  BY ApplyParts DEF Keys, Active
<1>3. c["me"] = cache["me"]
  BY <1>1, <1>2, ApplyParts
<1> HIDE DEF c
<1>4. joined \cup Left(a) \in SUBSET Keys
  BY ApplyParts DEF Left, TypeInv, Screen
<1>5. Screen'
  BY <1>1, <1>3, <1>4, RenderScreen DEF TypeInv, Screen
<1>6. told' \in [Tables -> 0 .. 2]
  <2>1. told' = Told(m) /\ m.answer \in 0 .. 2 /\ Table(m.kind) \in Tables
    BY ApplyParts
  <2>2. QED
    BY <2>1 DEF Told, TypeInv, World
<1>7. World'
  BY <1>6, NewRequestsOK, RequestFrame, BoundsOK, WaitsAre
  DEF Finish, TypeInv, World, server
<1>8. QED
  BY <1>5, <1>7 DEF TypeInv

LEMMA ElsewhereType ==
  ASSUME TypeInv,
         \/ \E r \in {"monitors", "incidents"} : ServerChanges(r)
         \/ \E t \in Tokens : Expire(t)
  PROVE  TypeInv'
<1>1. Screen'
  BY DEF ServerChanges, Expire, TypeInv, Screen, session
<1>2. ASSUME NEW r \in {"monitors", "incidents"}, ServerChanges(r) PROVE World'
  <2>1. version' \in [Tables -> 0 .. 2]
    BY <1>2 DEF ServerChanges, TypeInv, World, Tables
  <2>2. QED
    BY <1>2, <2>1, BoundsOK DEF ServerChanges, TypeInv, World
<1>3. ASSUME NEW t \in Tokens, Expire(t) PROVE World'
  BY <1>3, BoundsOK DEF Expire, TypeInv, World
<1>4. QED
  BY <1>1, <1>2, <1>3 DEF TypeInv

LEMMA NextType == TypeInv /\ [Next]_vars => TypeInv'
<1> SUFFICES ASSUME TypeInv, [Next]_vars PROVE TypeInv'
  OBVIOUS
<1>1. CASE UNCHANGED vars
  BY <1>1 DEF TypeInv, Screen, World, vars, session, server, bounds
<1>2. QED
  BY <1>1, SignInType, LogoutType, NavigateType, ReloadType, FocusType, ReceiveType,
     SignInAnsweredType, SubmitType, ServeType, FinishType, ElsewhereType DEF Next

LEMMA TypeInvariant == Spec => []TypeInv
<1>1. QED
  BY InitTypeInv, NextType, PTL DEF Spec

\* The state of the tab keeps its types: a page needs a session that is known or
\* looked for, a success has data and a query that never ended has none, whatever
\* handlers, answers and renders come in which order.
THEOREM ClientTypeCorrect == Spec => []TypeOK
<1>1. TypeInv => TypeOK
  BY DEF TypeInv, Screen, World, Waits, CacheOK, QueryOK, TypeOK, Tables
<1>2. QED
  BY <1>1, TypeInvariant, PTL

-----------------------------------------------------------------------------
(* Log-out.                                                                *)

\* After log-out nothing brings the session back: whatever was under way when
\* the user logged out, the query "me" of a tab without a token has no data, no
\* error and no fetch, because removeQueries drops the fetch with the data.
THEOREM LogoutEndsSession == Spec => []LogoutIsFinal
<1>1. TypeInv => LogoutIsFinal
  BY DEF TypeInv, Screen, LogoutIsFinal, User, Absent, Fetching, NoFetch
<1>2. QED
  BY <1>1, TypeInvariant, PTL

-----------------------------------------------------------------------------
(* What is on the screen.                                                  *)

\* What is on the screen and pending has a fetch under way.
Awaited == \A k \in Observed(token, page, cache) :
             cache[k].status = "pending" => Fetching(cache[k])

Lists == {"monitors", "incidents", "apiIncidents"}

\* The query q of a table that this client has changed up to version n: a fetch
\* was sent later than that, and data on the screen are not older.
Current(q, shown, n) ==
  /\ Fetching(q) => q.fetch.since >= n
  /\ shown /\ ~ Fetching(q) /\ q.status = "success" => q.data.version >= n

ListsCurrent ==
  \A k \in Lists \ joined :
    Current(cache[k], k \in Observed(token, page, cache), told[Resource(k)])

\* The server is never behind what it has answered.
AnswersOK ==
  /\ \A r \in Tables : told[r] <= version[r]
  /\ \A n \in Acts :
       mutation[n].stage = "answered" =>
         mutation[n].answer <= version[Table(mutation[n].kind)]

WatchInv == TypeInv /\ Awaited

CurrentInv == TypeInv /\ AnswersOK /\ ListsCurrent

OnScreen == Observed(token, page, cache)

\* What a render fetches is what it shows and was not shown before.
LEMMA RenderShows ==
  ASSUME TypeInv, NEW t \in Tokens \cup {None}, NEW p \in Pages \cup {"login"}, NEW c,
         CacheOK(c), token = None /\ t # None => c["me"].data # None, NEW j,
         Render(t, p, c, j)
  PROVE  /\ \A k \in Keys :
              cache'[k] = IF k \in OnScreen' \ OnScreen THEN Fetch(c, k, t) ELSE c[k]
         /\ joined' = j \ {k \in OnScreen' \ OnScreen : ~ Fetching(c[k])}
         /\ OnScreen' \subseteq Keys
         /\ OnScreen' # {} => t \in Tokens
<1> DEFINE there == IF t # None /\ (Loading(t, c) \/ User(c) # None) THEN p ELSE "login"
           O == Observed(t, there, c)
           new == O \ OnScreen
<1>1. /\ token' = t /\ page' = there
      /\ cache' = [k \in Keys |-> IF k \in new THEN Fetch(c, k, t) ELSE c[k]]
      /\ joined' = j \ {k \in new : ~ Fetching(c[k])}
  BY DEF Render, OnScreen
<1>2. /\ there \in Pages \cup {"login"} /\ (t = None => there = "login")
  OBVIOUS
<1>3. O \subseteq Keys /\ (t = None => O = {}) /\ ("me" \in O <=> t # None)
  BY <1>2, ObservedFacts
<1>4. "me" \in OnScreen <=> token # None
  BY ObservedFacts DEF OnScreen, TypeInv, Screen
<1>5. "me" \in Keys /\ version \in [Tables -> 0 .. 2]
  BY DEF Keys, TypeInv, World
<1>6. cache'["me"].status = c["me"].status
  <2>1. CASE "me" \in new
    <3>1. t \in Tokens /\ c["me"].data # None
      BY <1>3, <1>4, <2>1
    <3>2. Fetch(c, "me", t).status = c["me"].status
      BY <1>5, <3>1, FetchOK DEF CacheOK
    <3>3. QED
      BY <1>1, <1>5, <2>1, <3>2
  <2>2. QED
    BY <1>1, <1>5, <2>1
<1>7. OnScreen' = O
  BY <1>1, <1>6 DEF OnScreen, Observed, Mounted, Loading
<1> HIDE DEF there, O
<1>8. QED
  BY <1>1, <1>3, <1>7

LEMMA RenderAwaited ==
  ASSUME TypeInv, NEW t \in Tokens \cup {None}, NEW p \in Pages \cup {"login"}, NEW c,
         CacheOK(c), token = None /\ t # None => c["me"].data # None, NEW j,
         Render(t, p, c, j),
         t = None \/ \A k \in OnScreen : c[k].status = "pending" => Fetching(c[k])
  PROVE  Awaited'
<1> SUFFICES ASSUME NEW k \in OnScreen', cache'[k].status = "pending"
             PROVE  Fetching(cache'[k])
  BY DEF Awaited, OnScreen, Fetching
<1>0. /\ \A q \in Keys :
           cache'[q] = IF q \in OnScreen' \ OnScreen THEN Fetch(c, q, t) ELSE c[q]
      /\ OnScreen' \subseteq Keys
      /\ OnScreen' # {} => t \in Tokens
  BY RenderShows
<1>1. /\ k \in Keys /\ t \in Tokens
      /\ cache'[k] = IF k \in OnScreen' \ OnScreen THEN Fetch(c, k, t) ELSE c[k]
  BY <1>0
<1>2. CASE k \in OnScreen' \ OnScreen
  <2>1. version \in [Tables -> 0 .. 2] /\ QueryOK(c[k])
    BY <1>1 DEF TypeInv, World, CacheOK
  <2>2. QED
    BY <1>1, <1>2, <2>1, FetchOK
<1>3. CASE k \in OnScreen
  BY <1>1, <1>3, ClientAssumption
<1>4. QED
  BY <1>2, <1>3

\* A fetch that starts now is sent later than all that was answered before.
LEMMA FetchIsCurrent ==
  ASSUME TypeInv, NEW c, CacheOK(c), NEW k \in Keys, NEW t \in Tokens,
         NEW n \in 0 .. 2, n <= version[Resource(k)], NEW shown,
         Fetching(c[k]) => c[k].fetch.since >= n
  PROVE  Current(Fetch(c, k, t), shown, n)
<1>1. Fetching(Fetch(c, k, t))
  BY FetchOK DEF TypeInv, World, CacheOK
<1>2. Fetch(c, k, t).fetch.since >= n
  BY ResourceIsTable DEF Fetch, TypeInv, World
<1>3. QED
  BY <1>1, <1>2 DEF Current

LEMMA RenderCurrent ==
  ASSUME TypeInv, TypeInv', AnswersOK', NEW t \in Tokens \cup {None},
         NEW p \in Pages \cup {"login"}, NEW c, CacheOK(c),
         token = None /\ t # None => c["me"].data # None,
         NEW j, Render(t, p, c, j), version' = version,
         \A k \in Lists \ j : Current(c[k], k \in OnScreen, told'[Resource(k)])
  PROVE  ListsCurrent'
<1> SUFFICES ASSUME NEW k \in Lists, k \notin joined'
             PROVE  Current(cache'[k], k \in OnScreen', told'[Resource(k)])
  BY DEF ListsCurrent, OnScreen, Current, Fetching
<1>1. /\ k \in Keys
      /\ cache'[k] = IF k \in OnScreen' \ OnScreen THEN Fetch(c, k, t) ELSE c[k]
      /\ joined' = j \ {l \in OnScreen' \ OnScreen : ~ Fetching(c[l])}
      /\ OnScreen' # {} => t \in Tokens
  BY RenderShows DEF Lists, Keys
<1>2. /\ Resource(k) \in Tables /\ told'[Resource(k)] \in 0 .. 2
      /\ told'[Resource(k)] <= version[Resource(k)]
  BY <1>1, ResourceIsTable DEF AnswersOK, TypeInv, World
<1>3. CASE k \in OnScreen' \ OnScreen
  <2>1. Fetching(c[k]) => c[k].fetch.since >= told'[Resource(k)]
    BY <1>1, <1>3 DEF Current
  <2>2. QED
    BY <1>1, <1>2, <1>3, <2>1, FetchIsCurrent
<1>4. CASE k \notin OnScreen' \ OnScreen
  BY <1>1, <1>4 DEF Current
<1>5. QED
  BY <1>3, <1>4

\* Steps of the session touch no query but the user's, and that one only when
\* they log in or out.
SessionStep ==
  \E t \in Tokens \cup {None}, p \in Pages \cup {"login"}, c \in [Keys -> Query] :
    /\ Render(t, p, c, joined)
    /\ CacheOK(c)
    /\ \A k \in Keys \ {"me"} : c[k] = cache[k]
    /\ t = None \/ c["me"].status = "success" \/ c["me"] = cache["me"]
    /\ token = None /\ t # None => c["me"].data # None

LEMMA SessionSteps ==
  ASSUME TypeInv,
         \/ \E n \in Acts : SignInAnswered(n)
         \/ Logout
         \/ \E p \in Pages \cup {"login"} : Navigate(p)
  PROVE  SessionStep \/ UNCHANGED <<session, cache, joined>>
<1>0. CacheOK(cache) /\ cache \in [Keys -> Query] /\ "me" \in Keys
  BY DEF TypeInv, Screen, CacheOK, Keys
<1>1. ASSUME NEW n \in Acts, NEW t, t = mutation[n].by, SignInAnswered(n), SetSession(t)
      PROVE  SessionStep
  <2>1. t \in Tokens
    BY <1>1 DEF SignInAnswered, TypeInv, World, RequestOK
  <2> DEFINE c == Known(cache, "me", Owner[t], 0)
  <2>2. CacheOK(cache) /\ Owner[t] \in Users /\ 0 \in 0 .. 2 /\ "me" \in Keys
    BY <1>0, <2>1, OwnerIsUser
  <2>3. /\ CacheOK(c) /\ c["me"].status = "success"
        /\ \A k \in Keys \ {"me"} : c[k] = cache[k]
    BY <2>2, KnownOK
  <2>4. Render(t, "dashboard", c, joined)
    BY <1>1 DEF SetSession, Known
  <2> HIDE DEF c
  <2>5. c \in [Keys -> Query] /\ c["me"].data # None
    BY <1>0, <2>3 DEF CacheOK, QueryOK
  <2>6. "dashboard" \in Pages \cup {"login"} /\ t \in Tokens \cup {None}
    BY <2>1, ClientAssumption
  <2>7. QED
    BY <2>3, <2>4, <2>5, <2>6 DEF SessionStep
<1>2. CASE Logout
  <2> DEFINE c == Forgotten(cache)
  <2>1. CacheOK(c) /\ \A k \in Keys \ {"me"} : c[k] = cache[k]
    BY <1>0, AbsentOK DEF Forgotten, CacheOK, QueryOK
  <2>2. Render(None, page, c, joined)
    BY <1>2 DEF Logout
  <2> HIDE DEF c
  <2>3. c \in [Keys -> Query] /\ page \in Pages \cup {"login"}
    BY <2>1 DEF CacheOK, TypeInv, Screen
  <2>4. QED
    BY <2>1, <2>2, <2>3 DEF SessionStep
<1>3. ASSUME NEW p \in Pages \cup {"login"}, Navigate(p) PROVE SessionStep
  <2>1. Render(token, p, cache, joined) /\ token \in Tokens \cup {None}
    BY <1>3 DEF Navigate, TypeInv, Screen
  <2>2. QED
    BY <1>0, <2>1 DEF SessionStep
<1>4. QED
  BY <1>1, <1>2, <1>3 DEF SignInAnswered

\* Steps that leave the screen alone.
LEMMA OtherSteps ==
  ASSUME \/ \E t \in Tokens : SignIn(t)
         \/ \E a \in Changes : Submit(a)
         \/ \E n \in Acts : Serve(n)
         \/ \E r \in {"monitors", "incidents"} : ServerChanges(r)
         \/ \E t \in Tokens : Expire(t)
         \/ UNCHANGED vars
  PROVE  UNCHANGED <<session, cache, joined>>
BY DEF SignIn, Submit, Serve, ServerChanges, Expire, vars, session

\* A page just loaded looks for the user and shows nothing else.
LEMMA StartedShows ==
  ASSUME NEW t \in Tokens \cup {None}, NEW p, t = None => p = "login"
  PROVE  /\ Observed(t, p, Started(t)) \subseteq {"me"}
         /\ \A k \in Observed(t, p, Started(t)) : Fetching(Started(t)[k])
<1>1. "me" \in Keys
  BY DEF Keys
<1>2. CASE t = None
  BY <1>1, <1>2 DEF Observed, Mounted
<1>3. CASE t # None
  <2>1. Started(t)["me"] = [status |-> "pending", data |-> None,
                            fetch |-> [by |-> t, since |-> 0]]
    BY <1>1, <1>3 DEF Started
  <2>2. Observed(t, p, Started(t)) = {"me"}
    BY <1>3, <2>1 DEF Observed, Mounted, Loading
  <2>3. QED
    BY <1>3, <2>1, <2>2 DEF Fetching
<1>4. QED
  BY <1>2, <1>3

\* The answer to a fetch: data or an error, and no fetch any more.
LEMMA ReceiveStep ==
  ASSUME TypeInv, NEW l \in Keys, Receive(l)
  PROVE  \E q \in Query :
           /\ QueryOK(q) /\ ~ Fetching(q) /\ q.status # "pending"
           /\ Render(token, page, [cache EXCEPT ![l] = q], joined)
           /\ \/ q.status = "error"
              \/ q.data.version >= cache[l].fetch.since
<1>1. Fetching(cache[l])
  BY DEF Receive
<1>2. CASE Render(token, page, [cache EXCEPT ![l] = Failed(cache[l])], joined)
  <2>1. Failed(cache[l]).status = "error"
    BY DEF Failed
  <2>2. QueryOK(Failed(cache[l])) /\ ~ Fetching(Failed(cache[l]))
    BY <1>1, AnsweredOK
  <2>3. QED
    BY <1>2, <2>1, <2>2 DEF QueryOK
<1>3. ASSUME NEW v \in cache[l].fetch.since .. version[Resource(l)],
             Render(token, page, [cache EXCEPT ![l] = Succeeded(cache[l], v)], joined)
      PROVE  \E q \in Query :
               /\ QueryOK(q) /\ ~ Fetching(q) /\ q.status # "pending"
               /\ Render(token, page, [cache EXCEPT ![l] = q], joined)
               /\ \/ q.status = "error"
                  \/ q.data.version >= cache[l].fetch.since
  <2>1. QueryOK(Succeeded(cache[l], v)) /\ ~ Fetching(Succeeded(cache[l], v))
    BY <1>1, AnsweredOK
  <2>2. cache[l].fetch.since \in 0 .. 2 /\ version[Resource(l)] \in 0 .. 2
    BY ResourceIsTable DEF TypeInv, Screen, World, CacheOK, QueryOK, Query
  <2>3. v >= cache[l].fetch.since
    BY <2>2
  <2>4. /\ Succeeded(cache[l], v).status = "success"
        /\ Succeeded(cache[l], v).data.version = v
    BY DEF Succeeded
  <2>5. QED
    BY <1>3, <2>1, <2>3, <2>4 DEF QueryOK
<1>4. QED
  BY <1>2, <1>3 DEF Receive

\* What Finish invalidates is fetched, with data or for the first time.
LEMMA InvalidatedFetches ==
  ASSUME TypeInv, NEW c, CacheOK(c), NEW S, NEW k \in Keys, k \in S, token \in Tokens
  PROVE  /\ Fetching(Invalidated(c, S)[k])
         /\ c[k].data # None \/ ~ Fetching(c[k]) =>
              Invalidated(c, S)[k].fetch.since = version[Resource(k)]
<1> DEFINE dropped == [l \in Keys |-> IF l \in S /\ c[l].data # None
                                      THEN [c[l] EXCEPT !.fetch = NoFetch] ELSE c[l]]
<1>1. QueryOK(c[k])
  BY DEF CacheOK
<1>2. /\ QueryOK(dropped[k])
      /\ c[k].data # None \/ ~ Fetching(c[k]) => ~ Fetching(dropped[k])
  BY <1>1, DroppedOK
<1>3. Invalidated(c, S)[k] = Fetch(dropped, k, token)
  BY DEF Invalidated
<1> HIDE DEF dropped
<1>4. Fetching(Fetch(dropped, k, token))
  BY <1>2, FetchOK DEF TypeInv, World
<1>5. ~ Fetching(dropped[k]) => Fetch(dropped, k, token).fetch.since = version[Resource(k)]
  BY DEF Fetch
<1>6. QED
  BY <1>2, <1>3, <1>4, <1>5

LEMMA NextAwaited == WatchInv /\ [Next]_vars => WatchInv'
<1> SUFFICES ASSUME WatchInv, [Next]_vars PROVE Awaited'
  BY NextType DEF WatchInv
<1>0. TypeInv /\ TypeInv' /\ Awaited
  BY NextType DEF WatchInv
<1>1. /\ token \in Tokens \cup {None} /\ page \in Pages \cup {"login"}
      /\ CacheOK(cache) /\ OnScreen \subseteq Keys
      /\ token = None => OnScreen = {}
  BY <1>0, ObservedFacts DEF TypeInv, Screen, OnScreen
<1>2. \A k \in OnScreen : cache[k].status = "pending" => Fetching(cache[k])
  BY <1>0 DEF Awaited, OnScreen
<1>3. CASE UNCHANGED <<session, cache, joined>>
  <2>1. token' = token /\ page' = page /\ cache' = cache
    BY <1>3 DEF session
  <2>2. OnScreen' = OnScreen
    BY <2>1 DEF OnScreen, Observed, Mounted, Loading
  <2>3. QED
    BY <1>2, <2>1, <2>2 DEF Awaited, OnScreen, Fetching
<1>4. CASE SessionStep
  <2>1. PICK t \in Tokens \cup {None}, p \in Pages \cup {"login"}, c \in [Keys -> Query] :
          /\ Render(t, p, c, joined)
          /\ CacheOK(c)
          /\ \A k \in Keys \ {"me"} : c[k] = cache[k]
          /\ t = None \/ c["me"].status = "success" \/ c["me"] = cache["me"]
          /\ token = None /\ t # None => c["me"].data # None
    BY <1>4 DEF SessionStep
  <2>2. t = None \/ \A k \in OnScreen : c[k].status = "pending" => Fetching(c[k])
    BY <1>1, <1>2, <2>1
  <2>3. QED
    BY <1>0, <2>1, <2>2, RenderAwaited
<1>5. CASE Reload
  <2>1. cache' = Started(token) /\ token' = token /\ page' = page
    BY <1>5 DEF Reload, session
  <2>2. \A k \in Observed(token, page, Started(token)) : Fetching(Started(token)[k])
    BY <1>0, <1>1, StartedShows DEF TypeInv, Screen
  <2>3. QED
    BY <2>1, <2>2 DEF Awaited, Fetching, Observed, Mounted, Loading
<1>6. CASE Focus
  <2> DEFINE S == {k \in Refetched(OnScreen) : ~ Fetching(cache[k])}
             c == [k \in Keys |-> IF k \in S THEN Fetch(cache, k, token) ELSE cache[k]]
  <2>1. token \in Tokens /\ token # None
    BY <1>1, <1>6, ClientAssumption DEF Focus, Refetched, OnScreen
  <2>2. CacheOK(c)
    BY <1>0, <1>1, <2>1, RefreshedOK DEF TypeInv
  <2>3. Render(token, page, c, joined \ S)
    BY <1>6 DEF Focus, OnScreen
  <2>4. \A k \in OnScreen : Fetching(c[k])
    <3>1. ASSUME NEW k \in OnScreen PROVE Fetching(c[k])
      <4>1. k \in Keys /\ QueryOK(cache[k]) /\ version \in [Tables -> 0 .. 2]
        BY <1>0, <1>1 DEF CacheOK, TypeInv, World
      <4>2. Fetching(Fetch(cache, k, token))
        BY <2>1, <4>1, FetchOK
      <4>3. k \in S \/ Fetching(cache[k])
        BY DEF Refetched
      <4>4. QED
        BY <4>1, <4>2, <4>3
    <3>2. QED
      BY <3>1
  <2> HIDE DEF c, S
  <2>5. QED
    BY <1>0, <1>1, <2>1, <2>2, <2>3, <2>4, RenderAwaited
<1>7. ASSUME NEW l \in Keys, Receive(l) PROVE Awaited'
  <2>1. PICK q \in Query : /\ QueryOK(q) /\ q.status # "pending"
                           /\ Render(token, page, [cache EXCEPT ![l] = q], joined)
    BY <1>0, <1>7, ReceiveStep
  <2> DEFINE c == [cache EXCEPT ![l] = q]
  <2>2. CacheOK(c) /\ \A k \in Keys : k # l => c[k] = cache[k]
    BY <1>1, <2>1 DEF CacheOK, QueryOK
  <2>3. c[l] = q
    BY <1>1 DEF CacheOK
  <2> HIDE DEF c
  <2>4. \A k \in OnScreen : c[k].status = "pending" => Fetching(c[k])
    BY <1>1, <1>2, <2>1, <2>2, <2>3
  <2>5. Render(token, page, c, joined)
    BY <2>1 DEF c
  <2>6. QED
    BY <1>0, <1>1, <2>2, <2>4, <2>5, RenderAwaited
<1>8. ASSUME NEW n \in Acts, NEW a, a = mutation[n].kind, Finish(n) PROVE Awaited'
  <2> DEFINE w == Written(mutation[n])
             c == Invalidated(w, Active(a))
  <2>1. /\ Render(token, page, c, joined \cup Left(a)) /\ CacheOK(w)
        /\ \A k \in Keys \ {"incident"} : w[k] = cache[k]
        /\ w["incident"] = cache["incident"] \/ w["incident"].status = "success"
        /\ token = None => Active(a) = {}
    BY <1>0, <1>8, ApplyParts
  <2>2. CacheOK(c) /\ \A k \in Keys \ Active(a) : c[k] = w[k]
    BY <1>0, <2>1, InvalidatedOK
  <2>3. \A k \in Keys : k \in Active(a) => Fetching(c[k])
    BY <1>0, <1>1, <2>1, InvalidatedFetches
  <2> HIDE DEF w, c
  <2>4. \A k \in OnScreen : c[k].status = "pending" => Fetching(c[k])
    BY <1>1, <1>2, <2>1, <2>2, <2>3
  <2>5. QED
    BY <1>0, <1>1, <2>1, <2>2, <2>4, RenderAwaited
<1>9. QED
  BY <1>3, <1>4, <1>5, <1>6, <1>7, <1>8, <1>0, SessionSteps, OtherSteps DEF Next

LEMMA InitAwaited == Init => Awaited
<1> SUFFICES ASSUME Init PROVE Awaited
  OBVIOUS
<1>1. /\ token \in Tokens \cup {None} /\ cache = Started(token)
      /\ token = None => page = "login"
  BY DEF Init
<1>2. QED
  BY <1>1, StartedShows DEF Awaited

LEMMA WatchInvariant == Spec => []WatchInv
<1>1. Init => WatchInv
  BY InitTypeInv, InitAwaited DEF WatchInv
<1>2. QED
  BY <1>1, NextAwaited, PTL DEF Spec

LEMMA LoadingHasPending ==
  ASSUME TypeInv, View = "loading"
  PROVE  /\ Queries(page) \subseteq Observed(token, page, cache)
         /\ \E k \in Queries(page) : cache[k].status = "pending"
<1>1. page \in {"dashboard", "api", "incident", "login"}
  BY ClientAssumption DEF TypeInv, Screen
<1>2. CASE ~ Mounted(token, page, cache)
  <2>1. View = "none"
    BY <1>2 DEF View
  <2>2. QED
    BY <2>1
<1>3. CASE Mounted(token, page, cache)
  <2>1. Queries(page) \subseteq Observed(token, page, cache)
    BY <1>3 DEF Observed
  <2>2. page # "login"
    BY <1>3 DEF Mounted
  <2>3. CASE page = "dashboard"
    <3>1. View = DashboardView
      BY <1>3, <2>3 DEF View
    <3>2. "pending" \in Statuses(DashboardQueries)
      BY <3>1 DEF DashboardView
    <3>3. QED
      BY <2>1, <2>3, <3>2 DEF Statuses, Queries
  <2>4. CASE page = "api"
    <3>1. View = ApiView
      BY <1>3, <2>4 DEF View
    <3>2. "pending" \in Statuses(ApiQueries)
      BY <3>1 DEF ApiView
    <3>3. QED
      BY <2>1, <2>4, <3>2 DEF Statuses, Queries
  <2>5. CASE page = "incident"
    <3>1. View = IncidentView
      BY <1>3, <2>5 DEF View
    <3>2. cache["incident"].status = "pending"
      BY <3>1 DEF IncidentView
    <3>3. QED
      BY <2>1, <2>5, <3>2 DEF Queries, IncidentQueries
  <2>6. QED
    BY <1>1, <2>2, <2>3, <2>4, <2>5
<1>4. QED
  BY <1>2, <1>3

\* Nothing on the screen loads forever for want of a request: the session that is
\* looked for and the page that shows its skeleton have a fetch under way.  It
\* takes a fetch for every pending query on the screen, through log-ins past a
\* fetch under way, log-outs, reloads, failures and invalidations.
THEOREM NothingLoadsUnfetched == Spec => []LoadingIsFetching
<1>1. ASSUME WatchInv PROVE LoadingIsFetching
  <2>1. TypeInv /\ Awaited
    BY <1>1 DEF WatchInv
  <2>2. Loading(token, cache) => Fetching(cache["me"])
    BY <2>1 DEF Awaited, Observed, Loading
  <2>3. View = "loading" => \E k \in Queries(page) : /\ cache[k].status = "pending"
                                                    /\ Fetching(cache[k])
    BY <2>1, LoadingHasPending DEF Awaited
  <2>4. QED
    BY <2>2, <2>3 DEF LoadingIsFetching
<1>2. QED
  BY <1>1, WatchInvariant, PTL

-----------------------------------------------------------------------------
(* The user's own changes.                                                 *)

LEMMA AnswersFrame ==
  ASSUME AnswersOK, UNCHANGED <<version, told>>,
         \A n \in Acts : mutation'[n].stage = "answered" => mutation'[n] = mutation[n]
  PROVE  AnswersOK'
<1>1. \A r \in Tables : told'[r] <= version'[r]
  BY DEF AnswersOK
<1>2. ASSUME NEW n \in Acts, mutation'[n].stage = "answered"
      PROVE  mutation'[n].answer <= version'[Table(mutation'[n].kind)]
  BY <1>2 DEF AnswersOK
<1>3. QED
  BY <1>1, <1>2 DEF AnswersOK

LEMMA TableIsTable == \A a : Table(a) \in Tables
BY DEF Table, Tables

LEMMA ServeAnswers ==
  ASSUME TypeInv, AnswersOK, NEW n \in Acts, Serve(n) PROVE AnswersOK'
<1> DEFINE a == mutation[n].kind
<1>1. /\ mutation \in [Acts -> Request] /\ a \in Changes
      /\ version \in [Tables -> 0 .. 2] /\ told \in [Tables -> 0 .. 2]
      /\ told' = told
  BY DEF TypeInv, World, Serve
<1>2. CASE Dropped(n) /\ UNCHANGED version
  BY <1>1, <1>2, AnswersFrame DEF Dropped, NoRequest
<1>3. CASE Granted(mutation[n]) /\ version' = [version EXCEPT ![Table(a)] = Outcome(a)]
  <2>1. Outcome(a) \in 0 .. 2 /\ version[Table(a)] < Outcome(a)
    BY <1>1, <1>3, OutcomeIsNewer DEF TypeInv
  <2>2. \A r \in Tables : version[r] <= version'[r] /\ version'[r] \in 0 .. 2
    BY <1>1, <1>3, <2>1
  <2>3. version'[Table(a)] = Outcome(a)
    BY <1>1, <1>3, TableIsTable
  <2>4. \A r \in Tables : told'[r] <= version'[r]
    <3>1. ASSUME NEW r \in Tables PROVE told'[r] <= version'[r]
      <4>1. told[r] <= version[r] /\ told[r] \in 0 .. 2 /\ version[r] \in 0 .. 2
        BY <1>1 DEF AnswersOK
      <4>2. QED
        BY <1>1, <2>2, <4>1
    <3>2. QED
      BY <3>1
  <2>5. ASSUME NEW i \in Acts, mutation'[i].stage = "answered"
        PROVE  mutation'[i].answer <= version'[Table(mutation'[i].kind)]
    <3>1. CASE i = n
      <4>1. mutation'[n].answer = Outcome(a) /\ mutation'[n].kind = a
        BY <1>1, <1>3, <2>5, <3>1 DEF Serve, Dropped, NoRequest, Request
      <4>2. QED
        BY <2>1, <2>3, <3>1, <4>1
    <3>2. CASE i # n
      <4>1. mutation'[i] = mutation[i]
        BY <1>1, <3>2 DEF Serve, Dropped
      <4>2. mutation[i].answer <= version[Table(mutation[i].kind)]
        BY <2>5, <4>1 DEF AnswersOK
      <4>3. /\ mutation[i].answer \in 0 .. 2
            /\ version[Table(mutation[i].kind)] \in 0 .. 2
        BY <1>1, TableIsTable DEF Request
      <4>4. QED
        BY <2>2, <4>1, <4>2, <4>3, TableIsTable
    <3>3. QED
      BY <3>1, <3>2
  <2>6. QED
    BY <2>4, <2>5 DEF AnswersOK
<1>4. QED
  BY <1>2, <1>3 DEF Serve

LEMMA FinishAnswers ==
  ASSUME TypeInv, AnswersOK, NEW n \in Acts, Finish(n) PROVE AnswersOK'
<1> DEFINE a == mutation[n].kind
<1>1. told' = Told(mutation[n]) /\ Table(a) \in Tables
  BY ApplyParts
<1>2. /\ mutation[n].answer <= version[Table(a)]
      /\ mutation' = [mutation EXCEPT ![n] = NoRequest] /\ version' = version
  BY DEF Finish, AnswersOK, server
<1>3. \A r \in Tables : told'[r] <= version'[r]
  BY <1>1, <1>2 DEF Told, AnswersOK, TypeInv, World
<1>4. \A i \in Acts : mutation'[i].stage = "answered" => mutation'[i] = mutation[i]
  BY <1>2 DEF NoRequest, TypeInv, World
<1>5. QED
  BY <1>2, <1>3, <1>4 DEF AnswersOK

LEMMA NextAnswers == ASSUME TypeInv, AnswersOK, [Next]_vars PROVE AnswersOK'
<1>0. mutation \in [Acts -> Request]
  BY DEF TypeInv, World
<1>1. CASE UNCHANGED <<version, told, mutation>>
  BY <1>1, AnswersFrame
<1>2. ASSUME NEW t \in Tokens, SignIn(t) PROVE AnswersOK'
  BY <1>0, <1>2, AnswersFrame DEF SignIn, Sent, server
<1>3. ASSUME NEW n \in Acts, SignInAnswered(n) PROVE AnswersOK'
  BY <1>0, <1>3, AnswersFrame DEF SignInAnswered, NoRequest, server
<1>4. CASE Reload
  BY <1>0, <1>4, AnswersFrame DEF Reload, server, NoRequest
<1>5. ASSUME NEW a \in Changes, Submit(a) PROVE AnswersOK'
  BY <1>0, <1>5, AnswersFrame DEF Submit, Sent, server
<1>6. ASSUME NEW r \in {"monitors", "incidents"}, ServerChanges(r) PROVE AnswersOK'
  <2>1. \A s \in Tables :
          version[s] <= version'[s] /\ {version[s], version'[s]} \subseteq 0 .. 2
    BY <1>6 DEF ServerChanges, TypeInv, World
  <2>2. \A n \in Acts : Table(mutation[n].kind) \in Tables
    BY TableIsTable
  <2>3. mutation' = mutation /\ told' = told
    BY <1>6 DEF ServerChanges
  <2>4. \A s \in Tables : told'[s] <= version'[s]
    BY <2>1, <2>3 DEF AnswersOK, TypeInv, World
  <2>5. ASSUME NEW n \in Acts, mutation'[n].stage = "answered"
        PROVE  mutation'[n].answer <= version'[Table(mutation'[n].kind)]
    <3>1. /\ mutation[n].answer <= version[Table(mutation[n].kind)]
          /\ mutation[n].answer \in 0 .. 2
      BY <1>0, <2>3, <2>5 DEF AnswersOK, Request
    <3>2. QED
      BY <2>1, <2>2, <2>3, <3>1
  <2>6. QED
    BY <2>4, <2>5 DEF AnswersOK
<1>7. CASE \/ Logout
           \/ \E p \in Pages \cup {"login"} : Navigate(p)
           \/ Focus
           \/ \E k \in Keys : Receive(k)
           \/ \E t \in Tokens : Expire(t)
           \/ UNCHANGED vars
  <2>1. UNCHANGED <<version, told, mutation>>
    BY <1>7 DEF Logout, Navigate, Focus, Receive, Expire, vars, server
  <2>2. QED
    BY <1>1, <2>1
<1>8. QED
  BY <1>2, <1>3, <1>4, <1>5, <1>6, <1>7, ServeAnswers, FinishAnswers DEF Next

LEMMA ListFacts ==
  /\ Lists \subseteq Keys \ {"me", "incident"}
  /\ Lists = Keys \ {"me", "incident"}
BY DEF Lists, Keys

LEMMA FrameLists ==
  ASSUME ListsCurrent, UNCHANGED <<session, cache, joined>>, told' = told
  PROVE  ListsCurrent'
<1>1. token' = token /\ page' = page /\ cache' = cache /\ joined' = joined
  BY DEF session
<1>2. OnScreen' = OnScreen
  BY <1>1 DEF OnScreen, Observed, Mounted, Loading
<1>3. QED
  BY <1>1, <1>2 DEF ListsCurrent, OnScreen, Current, Fetching

LEMMA SessionLists ==
  ASSUME CurrentInv, TypeInv', AnswersOK', SessionStep, UNCHANGED <<version, told>>
  PROVE  ListsCurrent'
<1>1. PICK t \in Tokens \cup {None}, p \in Pages \cup {"login"}, c \in [Keys -> Query] :
        /\ Render(t, p, c, joined)
        /\ CacheOK(c)
        /\ \A k \in Keys \ {"me"} : c[k] = cache[k]
        /\ token = None /\ t # None => c["me"].data # None
  BY DEF SessionStep
<1>2. \A k \in Lists \ joined : Current(cache[k], k \in OnScreen, told[Resource(k)])
  BY DEF CurrentInv, ListsCurrent, OnScreen
<1>3. \A k \in Lists \ joined : Current(c[k], k \in OnScreen, told'[Resource(k)])
  BY <1>1, <1>2, ListFacts
<1>4. QED
  BY <1>1, <1>3, RenderCurrent DEF CurrentInv

LEMMA FocusLists ==
  ASSUME CurrentInv, TypeInv', AnswersOK', Focus PROVE ListsCurrent'
<1> DEFINE S == {k \in Refetched(OnScreen) : ~ Fetching(cache[k])}
           c == [k \in Keys |-> IF k \in S THEN Fetch(cache, k, token) ELSE cache[k]]
<1>0. /\ TypeInv /\ AnswersOK /\ CacheOK(cache) /\ version' = version /\ told' = told
      /\ page \in Pages \cup {"login"}
  BY DEF CurrentInv, TypeInv, Screen, Focus, server
<1>1. token \in Tokens /\ token # None
  BY <1>0, ObservedFacts, ClientAssumption DEF Focus, Refetched, TypeInv, Screen
<1>2. CacheOK(c)
  BY <1>0, <1>1, RefreshedOK DEF TypeInv
<1>3. Render(token, page, c, joined \ S)
  BY DEF Focus, OnScreen
<1>4. ASSUME NEW k \in Lists \ (joined \ S)
      PROVE  Current(c[k], k \in OnScreen, told'[Resource(k)])
  <2>1. k \in Keys /\ Resource(k) \in Tables
    BY ListFacts, ResourceIsTable
  <2>2. /\ told[Resource(k)] \in 0 .. 2
        /\ told[Resource(k)] <= version[Resource(k)]
    BY <1>0, <2>1 DEF AnswersOK, TypeInv, World
  <2>3. CASE k \in S
    <3>1. ~ Fetching(cache[k])
      BY <2>3
    <3>2. Current(Fetch(cache, k, token), k \in OnScreen, told[Resource(k)])
      BY <1>0, <1>1, <2>1, <2>2, <3>1, FetchIsCurrent
    <3>3. QED
      BY <1>0, <2>1, <2>3, <3>2
  <2>4. CASE k \notin S
    <3>1. Current(cache[k], k \in OnScreen, told[Resource(k)])
      BY <1>4, <2>4 DEF CurrentInv, ListsCurrent, OnScreen
    <3>2. QED
      BY <1>0, <2>1, <2>4, <3>1
  <2>5. QED
    BY <2>3, <2>4
<1> HIDE DEF c, S
<1>5. QED
  BY <1>0, <1>1, <1>2, <1>3, <1>4, RenderCurrent

LEMMA ReceiveLists ==
  ASSUME CurrentInv, TypeInv', AnswersOK', NEW l \in Keys, Receive(l)
  PROVE  ListsCurrent'
<1>0. /\ TypeInv /\ CacheOK(cache) /\ version' = version /\ told' = told
      /\ page \in Pages \cup {"login"} /\ token \in Tokens \cup {None}
      /\ Fetching(cache[l])
  BY DEF CurrentInv, TypeInv, Screen, Receive, server
<1>1. PICK q \in Query :
        /\ QueryOK(q) /\ ~ Fetching(q)
        /\ Render(token, page, [cache EXCEPT ![l] = q], joined)
        /\ q.status = "error" \/ q.data.version >= cache[l].fetch.since
  BY <1>0, ReceiveStep
<1> DEFINE c == [cache EXCEPT ![l] = q]
<1>2. CacheOK(c) /\ \A k \in Keys : k # l => c[k] = cache[k]
  BY <1>0, <1>1 DEF CacheOK, QueryOK
<1>3. c[l] = q
  BY <1>0 DEF CacheOK
<1>4. Render(token, page, c, joined)
  BY <1>1
<1> HIDE DEF c
<1>5. ASSUME NEW k \in Lists \ joined
      PROVE  Current(c[k], k \in OnScreen, told'[Resource(k)])
  <2>1. k \in Keys /\ Current(cache[k], k \in OnScreen, told[Resource(k)])
    BY ListFacts DEF CurrentInv, ListsCurrent, OnScreen
  <2>2. CASE k # l
    BY <1>0, <1>2, <2>1, <2>2
  <2>3. CASE k = l
    <3>1. cache[l].fetch.since >= told[Resource(l)]
      BY <1>0, <2>1, <2>3 DEF Current
    <3>2. q.status = "success" => q.data.version \in 0 .. 2
      BY <1>1, ClientAssumption DEF QueryOK, Query, Data
    <3>3. cache[l].fetch.since \in 0 .. 2 /\ told[Resource(l)] \in 0 .. 2
      BY <1>0, ResourceIsTable DEF CacheOK, QueryOK, Query, TypeInv, World
    <3>4. q.status = "success" => q.data.version >= told[Resource(l)]
      BY <1>1, <3>1, <3>2, <3>3
    <3>5. QED
      BY <1>0, <1>1, <1>3, <2>3, <3>4 DEF Current
  <2>4. QED
    BY <2>2, <2>3
<1>6. token = None /\ token # None => c["me"].data # None
  OBVIOUS
<1>7. QED
  BY <1>0, <1>2, <1>4, <1>5, <1>6, RenderCurrent

LEMMA AffectedFacts ==
  ASSUME NEW a \in Changes, NEW k \in Lists, k \notin Affected(a)
  PROVE  Resource(k) # Table(a)
<1>1. CASE a = "add"
  BY <1>1 DEF Affected, Lists, Resource, Table
<1>2. CASE a # "add"
  BY <1>2 DEF Affected, Lists, Resource, Table
<1>3. QED
  BY <1>1, <1>2

LEMMA FinishLists ==
  ASSUME CurrentInv, TypeInv', AnswersOK', NEW n \in Acts, Finish(n)
  PROVE  ListsCurrent'
<1> DEFINE m == mutation[n]
           a == m.kind
           w == Written(m)
           S == Active(a)
           c == Invalidated(w, S)
<1>0. /\ TypeInv /\ CacheOK(cache) /\ version' = version
      /\ page \in Pages \cup {"login"} /\ token \in Tokens \cup {None}
  BY DEF CurrentInv, TypeInv, Screen, Finish, server
<1>1. /\ Render(token, page, c, joined \cup Left(a)) /\ CacheOK(w)
      /\ \A k \in Keys \ {"incident"} : w[k] = cache[k]
      /\ token = None => S = {}
  BY <1>0, ApplyParts
<1>2. CacheOK(c) /\ \A k \in Keys \ S : c[k] = w[k]
  BY <1>0, <1>1, InvalidatedOK
<1>3. told' = Told(m) /\ Table(a) \in Tables /\ a \in Changes
  BY <1>0, ApplyParts
<1>4. ASSUME NEW k \in Lists \ (joined \cup Left(a))
      PROVE  Current(c[k], k \in OnScreen, told'[Resource(k)])
  <2>1. /\ k \in Keys /\ Resource(k) \in Tables /\ w[k] = cache[k]
        /\ Current(cache[k], k \in OnScreen, told[Resource(k)])
    BY <1>1, ListFacts, ResourceIsTable DEF CurrentInv, ListsCurrent, OnScreen
  <2>2. told'[Resource(k)] \in 0 .. 2 /\ version[Resource(k)] \in 0 .. 2
    BY <1>0, <2>1 DEF TypeInv, World
  <2>3. told'[Resource(k)] <= version[Resource(k)]
    BY <1>0, <2>1 DEF AnswersOK
  <2>4. CASE k \in S
    <3>1. token \in Tokens
      BY <1>0, <1>1, <2>4
    <3>2. cache[k].data # None \/ ~ Fetching(cache[k])
      BY <1>4, <2>4 DEF Left, Active
    <3>3. /\ Fetching(c[k])
          /\ c[k].fetch.since = version[Resource(k)]
      BY <1>0, <1>1, <2>1, <2>4, <3>1, <3>2, InvalidatedFetches
    <3> HIDE DEF c, S
    <3>4. QED
      BY <2>2, <2>3, <3>3 DEF Current
  <2>5. CASE k \in Affected(a) \ S
    <3>1. ~ Fetching(cache[k]) /\ k \notin OnScreen
      BY <1>4, <2>5 DEF Left, Active, OnScreen
    <3>2. c[k] = cache[k]
      BY <1>2, <2>1, <2>5
    <3> HIDE DEF c, S
    <3>3. QED
      BY <3>1, <3>2 DEF Current
  <2>6. CASE k \notin Affected(a)
    <3>1. Resource(k) # Table(a)
      BY <1>3, <2>6, AffectedFacts
    <3>2. told'[Resource(k)] = told[Resource(k)]
      BY <1>0, <1>3, <2>1, <3>1 DEF Told, TypeInv, World
    <3>3. c[k] = cache[k]
      BY <1>2, <2>1, <2>6 DEF Active
    <3> HIDE DEF c, S
    <3>4. QED
      BY <2>1, <3>2, <3>3
  <2>7. QED
    BY <2>4, <2>5, <2>6
<1>5. token = None /\ token # None => c["me"].data # None
  OBVIOUS
<1> HIDE DEF c, w, S
<1>6. QED
  BY <1>0, <1>1, <1>2, <1>4, <1>5, RenderCurrent

LEMMA ReloadLists ==
  ASSUME Reload PROVE ListsCurrent'
<1>1. ASSUME NEW k \in Lists, NEW shown, NEW n PROVE Current(cache'[k], shown, n)
  <2>1. cache'[k] = Absent
    BY ListFacts DEF Reload, Started
  <2>2. QED
    BY <2>1 DEF Current, Absent, Fetching, NoFetch
<1>2. QED
  BY <1>1 DEF ListsCurrent, Current, Fetching

LEMMA NextCurrent == CurrentInv /\ [Next]_vars => CurrentInv'
<1> SUFFICES ASSUME CurrentInv, [Next]_vars PROVE ListsCurrent'
  BY NextType, NextAnswers DEF CurrentInv
<1>0. TypeInv /\ TypeInv' /\ AnswersOK /\ AnswersOK' /\ ListsCurrent
  BY NextType, NextAnswers DEF CurrentInv
<1>1. CASE \/ \E n \in Acts : SignInAnswered(n)
           \/ Logout
           \/ \E p \in Pages \cup {"login"} : Navigate(p)
  <2>1. UNCHANGED <<version, told>>
    BY <1>1 DEF SignInAnswered, Logout, Navigate, server
  <2>2. QED
    BY <1>0, <1>1, <2>1, SessionSteps, SessionLists, FrameLists
<1>2. CASE \/ \E t \in Tokens : SignIn(t)
           \/ \E a \in Changes : Submit(a)
           \/ \E n \in Acts : Serve(n)
           \/ \E r \in {"monitors", "incidents"} : ServerChanges(r)
           \/ \E t \in Tokens : Expire(t)
           \/ UNCHANGED vars
  <2>1. told' = told
    BY <1>2 DEF SignIn, Submit, Serve, ServerChanges, Expire, vars
  <2>2. QED
    BY <1>0, <1>2, <2>1, OtherSteps, FrameLists
<1>3. QED
  BY <1>0, <1>1, <1>2, ReloadLists, FocusLists, ReceiveLists, FinishLists DEF Next

LEMMA InitCurrent == Init => CurrentInv
<1> SUFFICES ASSUME Init PROVE CurrentInv
  OBVIOUS
<1>1. AnswersOK
  BY DEF Init, AnswersOK, Tables, NoRequest
<1>2. ListsCurrent
  <2>1. ASSUME NEW k \in Lists, NEW shown, NEW n PROVE Current(cache[k], shown, n)
    <3>1. cache[k] = Absent
      BY ListFacts DEF Init, Started
    <3>2. QED
      BY <3>1 DEF Current, Absent, Fetching, NoFetch
  <2>2. QED
    BY <2>1 DEF ListsCurrent
<1>3. QED
  BY <1>1, <1>2, InitTypeInv DEF CurrentInv

\* Once a change of the user's own has been answered, no list on the screen that
\* is at rest hides it, however the fetches under way then, the navigation, other
\* log-ins and later changes fall: every fetch of such a list, and so every
\* answer, is of a moment after the change.
THEOREM ListsShowOwnChanges == Spec => []OwnChangesShow
<1>1. ASSUME CurrentInv,
             NEW k \in Observed(token, page, cache) \ (joined \cup {"me", "incident"}),
             cache[k].status = "success", ~ Fetching(cache[k])
      PROVE  cache[k].data.version >= told[Resource(k)]
  <2>1. k \in Lists \ joined
    BY <1>1, ListFacts, ObservedFacts DEF CurrentInv, TypeInv, Screen
  <2>2. QED
    BY <1>1, <2>1 DEF CurrentInv, ListsCurrent, Current
<1>2. CurrentInv => OwnChangesShow
  BY <1>1 DEF OwnChangesShow
<1>3. QED
  BY <1>2, InitCurrent, NextCurrent, PTL DEF Spec

=============================================================================
