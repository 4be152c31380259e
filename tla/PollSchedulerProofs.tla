------------------------ MODULE PollSchedulerProofs ------------------------
(***************************************************************************)
(* Theorems about PollScheduler, for any number of monitors and calls, any *)
(* intervals and any value of POLL_CONCURRENCY.                            *)
(***************************************************************************)
EXTENDS PollScheduler, FiniteSetTheorems, TLAPS

-----------------------------------------------------------------------------
(* The pool of one call.  r is the call's record, P its polls.             *)

Polls == [Monitors -> {"none", "checking", "saved"}]

\* Cursor, counters and the polls in progress fit together; while an item is
\* left, every worker is busy.
PoolOK(r, P) ==
  /\ \A i, j \in 1 .. Len(r.items) : r.items[i] = r.items[j] => i = j
  /\ r.next \in 1 .. Len(r.items) + 1
  /\ \A m \in Running(P) : \E k \in 1 .. r.next - 1 : r.items[k] = m
  /\ r.inFlight = Cardinality(Running(P))
  /\ r.completed + r.failed + r.inFlight = r.next - 1
  /\ r.inFlight <= Limit
  /\ r.next <= Len(r.items) => r.inFlight = Limit
  /\ r.maxInFlight = Minimum(Limit, Len(r.items))

LEMMA LimitType == Limit \in Nat \ {0}
BY SchedulerAssumption DEF Limit

LEMMA BusyFinite ==
  ASSUME NEW P PROVE IsFiniteSet(Running(P)) /\ Cardinality(Running(P)) \in Nat
<1>1. IsFiniteSet(Running(P))
  BY SchedulerAssumption, FS_Subset, Running(P) \subseteq Monitors DEF Running
<1>2. QED
  BY <1>1, FS_CardinalityType

\* No monitor is both in the pool and still to come.
LEMMA BusyNotWaiting ==
  ASSUME NEW r \in Cycle, NEW P, PoolOK(r, P)
  PROVE  Running(P) \cap Waiting(r) = {}
<1> SUFFICES ASSUME NEW m \in Running(P), NEW k \in r.next .. Len(r.items),
                    r.items[k] = m
             PROVE  FALSE
  BY DEF Waiting
<1>1. PICK j \in 1 .. r.next - 1 : r.items[j] = m
  BY DEF PoolOK
<1>2. j \in 1 .. Len(r.items) /\ k \in 1 .. Len(r.items) /\ j < k
  BY <1>1 DEF PoolOK, Cycle
<1>3. QED
  BY <1>1, <1>2 DEF PoolOK, Cycle

\* The items of a listing are distinct, and all of them are in the set listed.
LEMMA ListingFacts ==
  ASSUME NEW S \in SUBSET Monitors, NEW items \in Listings(S)
  PROVE  /\ items \in Seq(Monitors)
         /\ \A i, j \in 1 .. Len(items) : items[i] = items[j] => i = j
         /\ \A i \in 1 .. Len(items) : items[i] \in S
<1>1. IsFiniteSet(S)
  BY SchedulerAssumption, FS_Subset
<1>2. Cardinality(S) \in Nat
  BY <1>1, FS_CardinalityType
<1>3. items \in [1 .. Cardinality(S) -> S]
  BY DEF Listings
<1>4. items \in Seq(S) /\ Len(items) = Cardinality(S)
  BY <1>2, <1>3
<1>5. QED
  BY <1>3, <1>4 DEF Listings

\* A pool that starts with the first n of its items is in order.
LEMMA StartKeepsPool ==
  ASSUME NEW items \in Seq(Monitors),
         \A i, j \in 1 .. Len(items) : items[i] = items[j] => i = j,
         NEW n, n = Minimum(Limit, Len(items)),
         NEW r, r = [stage |-> "draining", items |-> items, next |-> n + 1,
                     inFlight |-> n, maxInFlight |-> n,
                     completed |-> 0, failed |-> 0],
         NEW P, P = [m \in Monitors |-> IF \E k \in 1 .. n : items[k] = m
                                        THEN "checking" ELSE "none"]
  PROVE  r \in Cycle /\ P \in Polls /\ PoolOK(r, P)
<1>1. /\ Len(items) \in Nat
      /\ n \in 0 .. Len(items) /\ n <= Limit
      /\ n < Len(items) => n = Limit
  BY LimitType DEF Minimum
<1>2. r \in Cycle /\ P \in Polls
  BY <1>1 DEF Cycle, Polls
<1>3. Running(P) = {items[k] : k \in 1 .. n}
  BY <1>1 DEF Running
<1>4. Cardinality(Running(P)) = n
  <2> DEFINE f == [k \in 1 .. n |-> items[k]]
  <2>1. f \in Bijection(1 .. n, Running(P))
    <3>1. f \in [1 .. n -> Running(P)]
      BY <1>3
    <3>2. \A i, j \in 1 .. n : f[i] = f[j] => i = j
      BY <1>1
    <3>3. \A m \in Running(P) : \E k \in 1 .. n : f[k] = m
      BY <1>3
    <3>4. QED
      BY <3>1, <3>2, <3>3 DEF Bijection, Injection, Surjection, IsInjective
  <2>2. ExistsBijection(1 .. n, Running(P))
    BY <2>1 DEF ExistsBijection
  <2>3. IsFiniteSet(1 .. n) /\ Cardinality(1 .. n) = n
    BY <1>1, FS_Interval
  <2>4. QED
    BY <2>2, <2>3, FS_Bijection
<1>5. /\ r.items = items /\ r.next = n + 1 /\ r.inFlight = n
      /\ r.maxInFlight = n /\ r.completed = 0 /\ r.failed = 0
  OBVIOUS
<1>6. PoolOK(r, P)
  <2>1. \A m \in Running(P) : \E k \in 1 .. r.next - 1 : r.items[k] = m
    BY <1>1, <1>3, <1>5
  <2>2. r.next \in 1 .. Len(r.items) + 1 /\ r.completed + r.failed + r.inFlight = r.next - 1
    BY <1>1, <1>5
  <2>3. r.next <= Len(r.items) => r.inFlight = Limit
    BY <1>1, <1>5
  <2>4. QED
    BY <1>1, <1>4, <1>5, <2>1, <2>2, <2>3 DEF PoolOK
<1>7. QED
  BY <1>2, <1>6

\* What the pull of the next item does while the pool is not full.
LEMMA PulledNext ==
  ASSUME NEW q \in Cycle, q.next <= Len(q.items), q.maxInFlight > q.inFlight
  PROVE  Pulled(q) = [q EXCEPT !.next = q.next + 1, !.inFlight = q.inFlight + 1,
                               !.maxInFlight = q.maxInFlight]
BY DEF Pulled, Cycle

\* The end of one poll, and the pull of the next, keep it in order.
LEMMA SettleKeepsPool ==
  ASSUME NEW r \in Cycle, NEW P \in Polls, PoolOK(r, P),
         NEW m \in Running(P), NEW thrown \in BOOLEAN,
         NEW r2, r2 = Pulled(Counted(r, thrown)),
         NEW P2, P2 = Handed(r, P, m)
  PROVE  /\ r2 \in Cycle /\ r2.stage = r.stage /\ r2.items = r.items
         /\ P2 \in Polls
         /\ PoolOK(r2, P2)
         /\ r.next > Len(r.items) =>
              Waiting(r) = {} /\ Waiting(r2) = {} /\ Running(P2) = Running(P) \ {m}
         /\ r.next <= Len(r.items) =>
              /\ r.items[r.next] \in Waiting(r)
              /\ Waiting(r2) = Waiting(r) \ {r.items[r.next]}
              /\ Running(P2) = (Running(P) \ {m}) \cup {r.items[r.next]}
<1> DEFINE mid == Counted(r, thrown)
<1>1. /\ Len(r.items) \in Nat /\ r.next \in Nat /\ r.inFlight \in Nat
      /\ r.items \in Seq(Monitors)
      /\ r.completed \in Nat /\ r.failed \in Nat /\ r.maxInFlight \in Nat
      /\ m \in Monitors /\ Limit \in Nat \ {0}
  BY LimitType DEF Cycle, Running
<1>2. r.inFlight >= 1
  BY BusyFinite, FS_EmptySet DEF PoolOK
<1>3. /\ Cardinality(Running(P) \ {m}) = r.inFlight - 1
      /\ IsFiniteSet(Running(P) \ {m})
  BY BusyFinite, FS_RemoveElement DEF PoolOK
<1>4. /\ mid \in Cycle
      /\ mid.stage = r.stage /\ mid.items = r.items /\ mid.next = r.next
      /\ mid.maxInFlight = r.maxInFlight
      /\ mid.inFlight = r.inFlight - 1
      /\ mid.completed \in Nat /\ mid.failed \in Nat
      /\ mid.completed + mid.failed = r.completed + r.failed + 1
  <2> DEFINE completed == IF thrown THEN r.completed ELSE r.completed + 1
             failed == IF thrown THEN r.failed + 1 ELSE r.failed
             others == r.inFlight - 1
  <2>1. /\ completed \in Nat /\ failed \in Nat /\ others \in Nat
        /\ completed + failed = r.completed + r.failed + 1
    <3>1. others \in Nat
      BY <1>1, <1>2
    <3>2. r.completed \in Nat /\ r.failed \in Nat
      BY <1>1
    <3>3. CASE thrown
      <4>1. completed = r.completed /\ failed = r.failed + 1
        BY <3>3
      <4>2. QED
        BY <3>1, <3>2, <4>1
    <3>4. CASE ~ thrown
      <4>1. completed = r.completed + 1 /\ failed = r.failed
        BY <3>4
      <4>2. QED
        BY <3>1, <3>2, <4>1
    <3>5. QED
      BY <3>3, <3>4
  <2>2. mid = [r EXCEPT !.completed = completed, !.failed = failed,
                        !.inFlight = others]
    BY DEF Counted, Cycle
  <2>3. others = r.inFlight - 1
    OBVIOUS
  <2> HIDE DEF completed, failed, others
  <2> SUFFICES ASSUME NEW q, q = [r EXCEPT !.completed = completed,
                                           !.failed = failed, !.inFlight = others]
               PROVE  /\ q \in Cycle
                      /\ q.stage = r.stage /\ q.items = r.items /\ q.next = r.next
                      /\ q.maxInFlight = r.maxInFlight /\ q.inFlight = others
                      /\ q.completed = completed /\ q.failed = failed
    BY <2>1, <2>2, <2>3
  <2>4. q \in Cycle
    BY <2>1 DEF Cycle
  <2>5. QED
    BY <2>4 DEF Cycle
<1>5. CASE r.next > Len(r.items)
  <2>1. r2 = mid
    BY <1>1, <1>4, <1>5 DEF Pulled
  <2>2. Waiting(r) = {} /\ Waiting(r2) = {}
    BY <1>1, <1>4, <1>5, <2>1 DEF Waiting
  <2>3. P2 = [n \in Monitors |-> IF n = m THEN "none" ELSE P[n]]
    <3>1. ~ (r.next <= Len(r.items))
      BY <1>1, <1>5
    <3>2. P2 = [P EXCEPT ![m] = "none"]
      BY <3>1 DEF Handed
    <3>3. QED
      BY <3>2 DEF Polls
  <2>4. P2 \in Polls /\ Running(P2) = Running(P) \ {m}
    BY <2>3 DEF Polls, Running
  <2>5. PoolOK(r2, P2)
    <3>1. r.next = Len(r.items) + 1
      BY <1>1, <1>5 DEF PoolOK
    <3>2. \A n \in Running(P2) : \E k \in 1 .. r.next - 1 : r.items[k] = n
      BY <2>4 DEF PoolOK
    <3>3. mid.completed + mid.failed + mid.inFlight = r.next - 1
      BY <1>1, <1>2, <1>4 DEF PoolOK
    <3>4. mid.inFlight <= Limit
      BY <1>1, <1>2, <1>4 DEF PoolOK
    <3>5. /\ r2.items = r.items /\ r2.next = r.next
          /\ r2.inFlight = r.inFlight - 1 /\ r2.maxInFlight = r.maxInFlight
          /\ r2.completed + r2.failed + r2.inFlight = r.next - 1
          /\ r2.inFlight <= Limit
      BY <1>4, <2>1, <3>3, <3>4
    <3>6. Cardinality(Running(P2)) = r.inFlight - 1
      BY <1>3, <2>4
    <3>7. ~ (r.next <= Len(r.items))
      BY <1>1, <1>5
    <3>8. QED
      BY <3>2, <3>5, <3>6, <3>7 DEF PoolOK
  <2>6. QED
    BY <1>4, <1>5, <1>1, <2>1, <2>2, <2>4, <2>5
<1>6. CASE r.next <= Len(r.items)
  <2> DEFINE i == r.items[r.next]
  <2>1. r.next \in 1 .. Len(r.items) /\ i \in Monitors /\ i \in Waiting(r)
    BY <1>1, <1>6 DEF PoolOK, Waiting
  <2>2. i \notin Running(P) /\ i # m
    BY <2>1, BusyNotWaiting
  <2>3. r.inFlight = Limit /\ r.maxInFlight = Limit
    <3>1. r.inFlight = Limit
      BY <1>6 DEF PoolOK
    <3>2. r.next \in 1 .. Len(r.items) /\ Limit <= r.next - 1
      BY <1>1, <1>6, <3>1 DEF PoolOK
    <3>3. Minimum(Limit, Len(r.items)) = Limit
      BY <1>1, <3>2 DEF Minimum
    <3>4. QED
      BY <3>1, <3>3 DEF PoolOK
  <2>4. /\ r2 \in Cycle
        /\ r2.stage = r.stage /\ r2.items = r.items /\ r2.next = r.next + 1
        /\ r2.inFlight = r.inFlight /\ r2.maxInFlight = r.maxInFlight
        /\ r2.completed = mid.completed /\ r2.failed = mid.failed
    <3> HIDE DEF mid
    <3>a. mid.next <= Len(mid.items) /\ mid.maxInFlight > mid.inFlight
      BY <1>1, <1>4, <1>6, <2>3
    <3>b. r2 = Pulled(mid)
      BY DEF mid
    <3>1. r2 = [mid EXCEPT !.next = mid.next + 1, !.inFlight = mid.inFlight + 1,
                           !.maxInFlight = Limit]
      <4>1. mid.maxInFlight = Limit
        BY <1>4, <2>3
      <4>2. QED
        BY <1>4, <3>a, <3>b, <4>1, PulledNext
    <3>2. mid.next + 1 \in Nat /\ mid.inFlight + 1 = r.inFlight
      BY <1>1, <1>4, SMTT(30)
    <3>3. r2 = [mid EXCEPT !.next = mid.next + 1, !.inFlight = r.inFlight,
                           !.maxInFlight = Limit]
      BY <3>1, <3>2
    <3>4. r2 \in Cycle
      BY <1>1, <1>4, <3>2, <3>3 DEF Cycle
    <3>5. QED
      BY <1>4, <2>3, <3>3, <3>4 DEF Cycle
  <2>5. P2 = [n \in Monitors |-> IF n = m THEN "none"
                                 ELSE IF n = i THEN "checking" ELSE P[n]]
    BY <1>1, <1>6, <2>1, <2>2 DEF Handed, Polls
  <2>6. P2 \in Polls /\ Running(P2) = (Running(P) \ {m}) \cup {i}
    BY <2>1, <2>2, <2>5 DEF Polls, Running
  <2>7. Cardinality(Running(P2)) = r.inFlight
    <3>1. Cardinality((Running(P) \ {m}) \cup {i}) = Cardinality(Running(P) \ {m}) + 1
      BY <1>3, <2>2, FS_AddElement
    <3>2. QED
      BY <1>1, <1>3, <2>6, <3>1
  <2>8. Waiting(r2) = Waiting(r) \ {i}
    <3>1. \A k \in 1 .. Len(r.items) : r.items[k] = i => k = r.next
      BY <2>1 DEF PoolOK
    <3>2. QED
      BY <1>1, <1>6, <2>1, <2>4, <3>1, SMTT(30) DEF Waiting
  <2>9. \A n \in Running(P2) : \E k \in 1 .. r2.next - 1 : r2.items[k] = n
    <3> SUFFICES ASSUME NEW n \in Running(P2)
                 PROVE  \E k \in 1 .. r.next : r.items[k] = n
      BY <1>1, <2>4
    <3>1. CASE n = i
      BY <2>1, <3>1
    <3>2. CASE n \in Running(P)
      BY <1>1, <3>2 DEF PoolOK
    <3>3. QED
      BY <2>6, <3>1, <3>2
  <2>10. PoolOK(r2, P2)
    <3>1. r2.next \in 1 .. Len(r2.items) + 1
      BY <1>1, <2>1, <2>4
    <3>2. r2.completed + r2.failed + r2.inFlight = r2.next - 1
      <4> HIDE DEF mid
      <4>1. r.completed + r.failed + r.inFlight = r.next - 1
        BY DEF PoolOK
      <4>2. r2.completed + r2.failed = r.completed + r.failed + 1
        BY <1>4, <2>4
      <4>3. /\ r2.inFlight = r.inFlight /\ r2.next = r.next + 1
            /\ r2.completed \in Nat /\ r2.failed \in Nat
        BY <1>4, <2>4
      <4>4. r.completed + r.failed + 1 + r.inFlight = r.next
        BY <1>1, <4>1
      <4>5. r2.completed + r2.failed + r2.inFlight = r.next
        BY <1>1, <4>2, <4>3, <4>4
      <4>6. QED
        BY <1>1, <4>3, <4>5
    <3>3. QED
      BY <1>1, <2>3, <2>4, <2>7, <2>9, <3>1, <3>2, ZenonT(60) DEF PoolOK
  <2>11. QED
    BY <1>1, <1>6, <2>1, <2>4, <2>6, <2>8, <2>10
<1>7. QED
  BY <1>1, <1>5, <1>6

-----------------------------------------------------------------------------
(* The invariant: every call is idle, listing, or has a pool in order, and *)
(* at most one is not idle.                                                *)

SchedInv ==
  /\ TypeOK
  /\ OneCycleAtATime
  /\ \A c \in Calls :
       /\ cycle[c].stage = "draining" => PoolOK(cycle[c], poll[c])
       /\ cycle[c].stage # "draining" => Waiting(cycle[c]) = {}

LEMMA IdleFacts ==
  /\ IdleCycle \in Cycle /\ NoPolls \in Polls
  /\ IdleCycle.stage = "idle"
  /\ Waiting(IdleCycle) = {} /\ Running(NoPolls) = {}
  /\ \A P \in Polls : Running(P) = {} => P = NoPolls
BY DEF IdleCycle, Cycle, NoPolls, Polls, Waiting, Running

\* A step of the only live call c that leaves it with the record r and the
\* polls P.  The others are idle before and after.
LEMMA StepOfLive ==
  ASSUME SchedInv, NEW c \in Calls, \A d \in Live : d = c,
         NEW r \in Cycle, NEW P \in Polls,
         cycle' = [cycle EXCEPT ![c] = r],
         poll' = [poll EXCEPT ![c] = P],
         cycleRunning' = (r.stage # "idle"),
         r.stage = "draining" => PoolOK(r, P),
         r.stage # "draining" => Waiting(r) = {} /\ Running(P) = {},
         isActive' \in [Monitors -> BOOLEAN], age' \in [Monitors -> Nat],
         touched' \subseteq Monitors, crashes' \in 0 .. MaxCrashes
  PROVE  SchedInv'
<1>1. cycle' \in [Calls -> Cycle] /\ poll' \in [Calls -> Polls]
  BY DEF SchedInv, TypeOK, Polls
<1>2. TypeOK'
  BY <1>1 DEF TypeOK, Polls
<1>3. /\ cycle'[c] = r /\ poll'[c] = P
      /\ \A d \in Calls : d # c => cycle'[d] = cycle[d] /\ poll'[d] = poll[d]
  BY DEF SchedInv, TypeOK
<1>4. \A d \in Calls : d # c => cycle[d].stage = "idle"
  BY DEF Live
<1>5. Live' = IF r.stage = "idle" THEN {} ELSE {c}
  BY <1>3, <1>4 DEF Live
<1>6. OneCycleAtATime'
  BY <1>3, <1>4, <1>5 DEF OneCycleAtATime, SchedInv
<1>7. ASSUME NEW d \in Calls
      PROVE  /\ cycle'[d].stage = "draining" => PoolOK(cycle'[d], poll'[d])
             /\ cycle'[d].stage # "draining" => Waiting(cycle'[d]) = {}
  BY <1>3, <1>4 DEF SchedInv
<1>8. QED
  BY <1>2, <1>6, <1>7 DEF SchedInv

LEMMA InitInv == Init => SchedInv
<1> SUFFICES ASSUME Init PROVE SchedInv
  OBVIOUS
<1>1. \A c \in Calls : cycle[c] = IdleCycle /\ poll[c] = NoPolls
  BY DEF Init
<1>2. TypeOK
  <2>1. age \in [Monitors -> Nat]
    BY SchedulerAssumption DEF Init
  <2>2. crashes \in 0 .. MaxCrashes
    BY SchedulerAssumption DEF Init
  <2>3. cycle \in [Calls -> Cycle]
    BY IdleFacts DEF Init
  <2>4. poll \in [Calls -> Polls]
    BY IdleFacts DEF Init
  <2>5. QED
    BY <2>1, <2>2, <2>3, <2>4 DEF Init, TypeOK, Polls
<1>3. Live = {}
  BY <1>1, IdleFacts DEF Live
<1>4. OneCycleAtATime
  BY <1>1, <1>3, IdleFacts DEF Init, OneCycleAtATime
<1>5. QED
  BY <1>1, <1>2, <1>4, IdleFacts DEF SchedInv

LEMMA TickInv ==
  ASSUME SchedInv, NEW c \in Calls, Tick(c) PROVE SchedInv'
<1> DEFINE r == [cycle[c] EXCEPT !.stage = "finding"]
<1>1. cycle[c] \in Cycle /\ Live = {}
  BY DEF SchedInv, TypeOK, OneCycleAtATime, Tick
<1>2. r \in Cycle /\ r.stage = "finding" /\ Waiting(r) = Waiting(cycle[c])
  BY <1>1 DEF Cycle, Waiting
<1>3. Waiting(cycle[c]) = {} /\ Running(poll[c]) = {}
  BY DEF SchedInv, OneCycleAtATime, Tick
<1>4. /\ poll[c] \in Polls /\ poll' = [poll EXCEPT ![c] = poll[c]]
      /\ cycle' = [cycle EXCEPT ![c] = r]
  BY DEF SchedInv, TypeOK, Polls, Tick
<1> HIDE DEF r
<1>5. cycleRunning' = (r.stage # "idle") /\ \A d \in Live : d = c
  BY <1>1, <1>2 DEF Tick
<1>6. /\ isActive' \in [Monitors -> BOOLEAN] /\ age' \in [Monitors -> Nat]
      /\ touched' \subseteq Monitors /\ crashes' \in 0 .. MaxCrashes
  BY DEF SchedInv, TypeOK, Tick
<1>7. QED
  BY <1>2, <1>3, <1>4, <1>5, <1>6, StepOfLive

LEMMA FindFailsInv ==
  ASSUME SchedInv, NEW c \in Calls, FindFails(c) PROVE SchedInv'
<1>1. /\ \A d \in Live : d = c
      /\ Running(poll[c]) = {} /\ poll[c] \in Polls
  BY DEF SchedInv, TypeOK, Polls, OneCycleAtATime, Live, FindFails
<1>2. poll' = [poll EXCEPT ![c] = poll[c]]
  BY DEF SchedInv, TypeOK, FindFails
<1>3. QED
  BY <1>1, <1>2, IdleFacts, StepOfLive DEF SchedInv, TypeOK, FindFails

LEMMA ReturnInv ==
  ASSUME SchedInv, NEW c \in Calls, Return(c) PROVE SchedInv'
<1>1. /\ \A d \in Live : d = c
      /\ Running(poll[c]) = {} /\ poll[c] \in Polls
  BY DEF SchedInv, TypeOK, Polls, OneCycleAtATime, Live, Return, Drained, Running
<1>2. poll' = [poll EXCEPT ![c] = poll[c]]
  BY DEF SchedInv, TypeOK, Return
<1>3. QED
  BY <1>1, <1>2, IdleFacts, StepOfLive DEF SchedInv, TypeOK, Return

\* What a call's pool is when it starts.
LEMMA StartPoolFacts ==
  ASSUME SchedInv, NEW c \in Calls,
         NEW items \in Listings({m \in Monitors : Due(m)}), StartPool(c, items)
  PROVE  /\ \A d \in Live : d = c
         /\ cycle'[c] \in Cycle /\ cycle'[c].stage = "draining"
         /\ cycle' = [cycle EXCEPT ![c] = cycle'[c]]
         /\ poll'[c] \in Polls /\ poll' = [poll EXCEPT ![c] = poll'[c]]
         /\ PoolOK(cycle'[c], poll'[c])
         /\ \A m \in Waiting(cycle'[c]) \cup Running(poll'[c]) : Due(m)
<1> DEFINE n == Minimum(Limit, Len(items))
           r == [stage |-> "draining", items |-> items, next |-> n + 1,
                 inFlight |-> n, maxInFlight |-> n, completed |-> 0, failed |-> 0]
           P == [m \in Monitors |-> IF \E k \in 1 .. n : items[k] = m
                                    THEN "checking" ELSE "none"]
<1>1. /\ items \in Seq(Monitors)
      /\ \A i, j \in 1 .. Len(items) : items[i] = items[j] => i = j
      /\ \A i \in 1 .. Len(items) : Due(items[i])
  BY ListingFacts
<1>2. r \in Cycle /\ P \in Polls /\ PoolOK(r, P)
  BY <1>1, StartKeepsPool
<1>3. cycle' = [cycle EXCEPT ![c] = r] /\ poll' = [poll EXCEPT ![c] = P]
  BY DEF StartPool
<1>4. r.stage = "draining" /\ r.items = items
  OBVIOUS
<1> HIDE DEF n, r, P
<1>5. cycle'[c] = r /\ poll'[c] = P
  BY <1>3 DEF SchedInv, TypeOK
<1>6. \A d \in Live : d = c
  BY DEF SchedInv, OneCycleAtATime, Live, StartPool
<1>7. \A m \in Waiting(r) : Due(m)
  <2>1. r.next .. Len(items) \subseteq 1 .. Len(items)
    BY <1>1, <1>2, <1>4 DEF PoolOK
  <2>2. QED
    BY <1>1, <1>4, <2>1 DEF Waiting
<1>8. \A m \in Running(P) : Due(m)
  <2>1. 1 .. r.next - 1 \subseteq 1 .. Len(items)
    BY <1>1, <1>2, <1>4 DEF PoolOK
  <2>2. \A m \in Running(P) : \E k \in 1 .. r.next - 1 : items[k] = m
    BY <1>2, <1>4 DEF PoolOK
  <2>3. QED
    BY <1>1, <2>1, <2>2
<1>9. QED
  BY <1>2, <1>3, <1>4, <1>5, <1>6, <1>7, <1>8

LEMMA StartPoolInv ==
  ASSUME SchedInv, NEW c \in Calls,
         NEW items \in Listings({m \in Monitors : Due(m)}), StartPool(c, items)
  PROVE  SchedInv'
<1>1. cycleRunning' = TRUE /\ touched' = {}
  BY DEF SchedInv, OneCycleAtATime, Live, StartPool
<1>2. QED
  BY <1>1, StartPoolFacts, StepOfLive DEF SchedInv, TypeOK, StartPool

\* A poll in progress is one of the only live call.
LEMMA PollIsLive ==
  ASSUME SchedInv, NEW c \in Calls, NEW m \in Monitors, poll[c][m] # "none"
  PROVE  /\ \A d \in Live : d = c
         /\ cycle[c].stage = "draining" /\ cycleRunning = TRUE
         /\ cycle[c] \in Cycle /\ poll[c] \in Polls
         /\ PoolOK(cycle[c], poll[c]) /\ m \in Running(poll[c])
<1>1. m \in Running(poll[c])
  BY DEF Running
<1>2. cycle[c].stage = "draining"
  BY <1>1 DEF SchedInv, OneCycleAtATime
<1>3. QED
  BY <1>1, <1>2 DEF SchedInv, TypeOK, Polls, OneCycleAtATime, Live

LEMMA SaveCheckFacts ==
  ASSUME SchedInv, NEW c \in Calls, NEW m \in Monitors, SaveCheck(c, m)
  PROVE  /\ poll' = [poll EXCEPT ![c] = poll'[c]] /\ poll'[c] \in Polls
         /\ Running(poll'[c]) = Running(poll[c])
         /\ poll'[c] = [poll[c] EXCEPT ![m] = "saved"]
BY DEF SaveCheck, SchedInv, TypeOK, Polls, Running

LEMMA SaveCheckInv ==
  ASSUME SchedInv, NEW c \in Calls, NEW m \in Monitors, SaveCheck(c, m)
  PROVE  SchedInv'
<1>1. poll[c][m] # "none"
  BY DEF SaveCheck
<1>2. cycle' = [cycle EXCEPT ![c] = cycle[c]]
  BY DEF SaveCheck, SchedInv, TypeOK
<1>3. PoolOK(cycle[c], poll'[c])
  BY <1>1, PollIsLive, SaveCheckFacts, ZenonT(60) DEF PoolOK
<1>4. age' \in [Monitors -> Nat]
  BY DEF SaveCheck, SchedInv, TypeOK
<1>5. QED
  BY <1>1, <1>2, <1>3, <1>4, PollIsLive, SaveCheckFacts, StepOfLive, ZenonT(60)
  DEF SaveCheck, SchedInv, TypeOK

LEMMA SettleFacts ==
  ASSUME SchedInv, NEW c \in Calls, NEW m \in Monitors, Settle(c, m)
  PROVE  /\ poll[c][m] # "none"
         /\ cycle' = [cycle EXCEPT ![c] = cycle'[c]] /\ cycle'[c] \in Cycle
         /\ cycle'[c].stage = "draining"
         /\ poll' = [poll EXCEPT ![c] = poll'[c]] /\ poll'[c] \in Polls
         /\ poll'[c] = Handed(cycle[c], poll[c], m)
         /\ PoolOK(cycle'[c], poll'[c])
         /\ cycle[c].next > Len(cycle[c].items) =>
              /\ Waiting(cycle[c]) = {} /\ Waiting(cycle'[c]) = {}
              /\ Running(poll'[c]) = Running(poll[c]) \ {m}
         /\ cycle[c].next <= Len(cycle[c].items) =>
              LET i == cycle[c].items[cycle[c].next]
              IN  /\ i \in Waiting(cycle[c])
                  /\ Waiting(cycle'[c]) = Waiting(cycle[c]) \ {i}
                  /\ Running(poll'[c]) = (Running(poll[c]) \ {m}) \cup {i}
<1>1. poll[c][m] # "none"
  BY DEF Settle
<1>2. PICK thrown \in BOOLEAN :
        cycle' = [cycle EXCEPT ![c] = Pulled(Counted(cycle[c], thrown))]
  BY DEF Settle
<1>3. poll' = [poll EXCEPT ![c] = Handed(cycle[c], poll[c], m)]
  BY DEF Settle
<1>4. /\ cycle'[c] = Pulled(Counted(cycle[c], thrown))
      /\ poll'[c] = Handed(cycle[c], poll[c], m)
  BY <1>2, <1>3 DEF SchedInv, TypeOK
<1> DEFINE r == cycle[c]  P == poll[c]  r2 == cycle'[c]  P2 == poll'[c]
<1>5. /\ r \in Cycle /\ P \in Polls /\ PoolOK(r, P) /\ m \in Running(P)
      /\ r.stage = "draining"
  BY <1>1, PollIsLive
<1>6. r2 = Pulled(Counted(r, thrown)) /\ P2 = Handed(r, P, m)
  BY <1>4
<1>7. cycle' = [cycle EXCEPT ![c] = r2] /\ poll' = [poll EXCEPT ![c] = P2]
  BY <1>2, <1>3, <1>6
<1> HIDE DEF r, P, r2, P2
<1>8. /\ r2 \in Cycle /\ r2.stage = r.stage
      /\ P2 \in Polls
      /\ PoolOK(r2, P2)
      /\ r.next > Len(r.items) =>
           Waiting(r) = {} /\ Waiting(r2) = {} /\ Running(P2) = Running(P) \ {m}
      /\ r.next <= Len(r.items) =>
           /\ r.items[r.next] \in Waiting(r)
           /\ Waiting(r2) = Waiting(r) \ {r.items[r.next]}
           /\ Running(P2) = (Running(P) \ {m}) \cup {r.items[r.next]}
  BY <1>5, <1>6, SettleKeepsPool
<1>9. QED
  BY <1>1, <1>5, <1>6, <1>7, <1>8 DEF r, P, r2, P2

LEMMA SettleInv ==
  ASSUME SchedInv, NEW c \in Calls, NEW m \in Monitors, Settle(c, m)
  PROVE  SchedInv'
<1>1. cycleRunning' = TRUE
  BY SettleFacts, PollIsLive DEF Settle
<1>2. /\ isActive' \in [Monitors -> BOOLEAN] /\ age' \in [Monitors -> Nat]
      /\ touched' \subseteq Monitors /\ crashes' \in 0 .. MaxCrashes
  BY DEF SchedInv, TypeOK, Settle
<1>3. \A d \in Live : d = c
  BY SettleFacts, PollIsLive
<1> DEFINE r2 == cycle'[c]  P2 == poll'[c]
<1>4. /\ cycle' = [cycle EXCEPT ![c] = r2] /\ r2 \in Cycle /\ r2.stage = "draining"
      /\ poll' = [poll EXCEPT ![c] = P2] /\ P2 \in Polls
      /\ PoolOK(r2, P2)
  BY SettleFacts
<1> HIDE DEF r2, P2
<1>5. QED
  BY <1>1, <1>2, <1>3, <1>4, StepOfLive

\* The pool when a poll of it settles: m's slot is free, and only the slot of
\* the next item is taken.
LEMMA SettleSlots ==
  ASSUME SchedInv, NEW c \in Calls, NEW m \in Monitors, Settle(c, m)
  PROVE  /\ poll'[c] \in Polls /\ poll' = [poll EXCEPT ![c] = poll'[c]]
         /\ poll'[c][m] = "none"
         /\ \A n \in Monitors \ {m} :
              \/ poll'[c][n] = poll[c][n]
              \/ poll[c][n] = "none" /\ poll'[c][n] = "checking"
         /\ \A n \in Waiting(cycle[c]) :
              n \in Waiting(cycle'[c]) \/ poll'[c][n] = "checking"
<1> DEFINE i == cycle[c].items[cycle[c].next]
<1> DEFINE more == cycle[c].next <= Len(cycle[c].items)
<1>1. cycle[c] \in Cycle /\ poll[c][m] # "none"
  BY DEF SchedInv, TypeOK, Settle
<1>2. cycle[c].next \in Nat /\ Len(cycle[c].items) \in Nat
  BY <1>1 DEF Cycle
<1>3. ~ more => cycle[c].next > Len(cycle[c].items)
  BY <1>2
<1>4. more => /\ i \in Waiting(cycle[c])
              /\ Waiting(cycle'[c]) = Waiting(cycle[c]) \ {i}
              /\ Running(poll'[c]) = (Running(poll[c]) \ {m}) \cup {i}
  BY SettleFacts
<1>5. /\ poll'[c] \in Polls /\ poll' = [poll EXCEPT ![c] = poll'[c]]
      /\ poll'[c] = Handed(cycle[c], poll[c], m)
      /\ ~ more => Waiting(cycle[c]) = {}
  BY <1>3, SettleFacts
<1>6. /\ poll[c] \in Polls /\ m \in Running(poll[c])
      /\ Running(poll[c]) \cap Waiting(cycle[c]) = {}
  BY <1>1, PollIsLive, BusyNotWaiting
<1>7. more => i # m /\ i \notin Running(poll[c])
  BY <1>6, <1>4
<1> HIDE DEF i, more
<1>8. IF more
      THEN poll'[c] = [[poll[c] EXCEPT ![m] = "none"] EXCEPT ![i] = "checking"]
      ELSE poll'[c] = [poll[c] EXCEPT ![m] = "none"]
  BY <1>5 DEF Handed, i, more
<1>9. \A n \in Monitors \ {m} :
        \/ poll'[c][n] = poll[c][n]
        \/ poll[c][n] = "none" /\ poll'[c][n] = "checking"
  BY <1>5, <1>6, <1>7, <1>8 DEF Polls, Running
<1>10. \A n \in Waiting(cycle[c]) : n \in Waiting(cycle'[c]) \/ poll'[c][n] = "checking"
  BY <1>5, <1>6, <1>8, <1>4 DEF Polls, Running
<1>11. QED
  BY <1>5, <1>6, <1>7, <1>8, <1>9, <1>10 DEF Polls

\* Steps that leave the calls alone.
LEMMA AroundInv ==
  ASSUME SchedInv, UNCHANGED <<cycle, poll, cycleRunning, crashes>>,
         isActive' \in [Monitors -> BOOLEAN], age' \in [Monitors -> Nat],
         touched' \subseteq Monitors
  PROVE  SchedInv'
BY DEF SchedInv, TypeOK, OneCycleAtATime, Live

LEMMA CrashInv == ASSUME SchedInv, Crash PROVE SchedInv'
<1>1. \A c \in Calls : cycle'[c] = IdleCycle /\ poll'[c] = NoPolls
  BY DEF Crash
<1>2. crashes' \in 0 .. MaxCrashes
  BY SchedulerAssumption DEF Crash, SchedInv, TypeOK
<1>3. cycle' \in [Calls -> Cycle] /\ poll' \in [Calls -> Polls]
  BY IdleFacts DEF Crash
<1>4. TypeOK'
  BY <1>2, <1>3 DEF Crash, SchedInv, TypeOK, Polls
<1>5. Live' = {}
  BY <1>1, IdleFacts DEF Live
<1>6. QED
  BY <1>1, <1>4, <1>5, IdleFacts DEF Crash, SchedInv, OneCycleAtATime

LEMMA StepInv == SchedInv /\ [Next]_vars => SchedInv'
<1> SUFFICES ASSUME SchedInv, [Next]_vars PROVE SchedInv'
  OBVIOUS
<1>1. ASSUME NEW c \in Calls, Tick(c) PROVE SchedInv'
  BY <1>1, TickInv
<1>2. ASSUME NEW c \in Calls, FindFails(c) PROVE SchedInv'
  BY <1>2, FindFailsInv
<1>3. ASSUME NEW c \in Calls, NEW items \in Listings({m \in Monitors : Due(m)}),
             StartPool(c, items)
      PROVE  SchedInv'
  BY <1>3, StartPoolInv
<1>4. ASSUME NEW c \in Calls, NEW m \in Monitors, SaveCheck(c, m) PROVE SchedInv'
  BY <1>4, SaveCheckInv
<1>5. ASSUME NEW c \in Calls, NEW m \in Monitors, Settle(c, m) PROVE SchedInv'
  BY <1>5, SettleInv
<1>6. ASSUME NEW c \in Calls, Return(c) PROVE SchedInv'
  BY <1>6, ReturnInv
<1>7. CASE TimePasses
  <2>1. \A m \in Monitors : Minimum(age[m] + 1, Interval[m]) \in Nat
    BY SchedulerAssumption DEF SchedInv, TypeOK, Minimum
  <2>2. QED
    BY <1>7, <2>1, AroundInv DEF TimePasses, SchedInv, TypeOK
<1>8. ASSUME NEW m \in Monitors, PollNow(m) PROVE SchedInv'
  BY <1>8, AroundInv DEF PollNow, SchedInv, TypeOK
<1>9. ASSUME NEW m \in Monitors, SetActive(m) PROVE SchedInv'
  BY <1>9, AroundInv DEF SetActive, SchedInv, TypeOK
<1>10. CASE Crash
  BY <1>10, CrashInv
<1>11. CASE UNCHANGED vars
  BY <1>11, AroundInv DEF vars, SchedInv, TypeOK
<1>12. QED
  BY <1>1, <1>2, <1>3, <1>4, <1>5, <1>6, <1>7, <1>8, <1>9, <1>10, <1>11 DEF Next

-----------------------------------------------------------------------------
(* The properties.                                                         *)

LEMMA Inductive == Spec => []SchedInv
<1>1. SchedInv /\ [Next]_vars => SchedInv'
  BY StepInv
<1>2. QED
  BY <1>1, InitInv, PTL DEF Spec

LEMMA PoolFacts ==
  ASSUME SchedInv, NEW c \in Calls, cycle[c].stage = "draining"
  PROVE  /\ cycle[c].inFlight = Cardinality(Running(poll[c]))
         /\ cycle[c].inFlight =
              Minimum(Limit, Len(cycle[c].items) - cycle[c].completed - cycle[c].failed)
         /\ Waiting(cycle[c]) \cap Running(poll[c]) = {}
         /\ Running(poll[c]) = {} =>
              cycle[c].completed + cycle[c].failed = Len(cycle[c].items)
         /\ cycle[c].maxInFlight = Minimum(Limit, Len(cycle[c].items))
<1> DEFINE r == cycle[c]  P == poll[c]
<1>1. r \in Cycle /\ PoolOK(r, P)
  BY DEF SchedInv, TypeOK
<1> SUFFICES /\ r.inFlight = Cardinality(Running(P))
             /\ r.inFlight = Minimum(Limit, Len(r.items) - r.completed - r.failed)
             /\ Waiting(r) \cap Running(P) = {}
             /\ Running(P) = {} => r.completed + r.failed = Len(r.items)
             /\ r.maxInFlight = Minimum(Limit, Len(r.items))
  OBVIOUS
<1> HIDE DEF r, P
<1>2. /\ r.inFlight = Cardinality(Running(P))
      /\ r.inFlight \in Nat /\ r.completed \in Nat /\ r.failed \in Nat
      /\ Len(r.items) \in Nat /\ r.next \in 1 .. Len(r.items) + 1
      /\ r.completed + r.failed + r.inFlight = r.next - 1
      /\ r.inFlight <= Limit
      /\ r.next <= Len(r.items) => r.inFlight = Limit
      /\ r.maxInFlight = Minimum(Limit, Len(r.items))
  BY <1>1 DEF PoolOK, Cycle
<1>3. Running(P) = {} => r.inFlight = 0
  BY <1>2, FS_EmptySet
<1>4. r.next <= Len(r.items) =>
        r.inFlight = Limit /\ Limit <= Len(r.items) - r.completed - r.failed
  BY <1>2, LimitType
<1>5. ~ (r.next <= Len(r.items)) =>
        r.inFlight = Len(r.items) - r.completed - r.failed
  BY <1>2, SMTT(30)
<1>6. r.inFlight = Minimum(Limit, Len(r.items) - r.completed - r.failed)
  BY <1>2, <1>4, <1>5, LimitType DEF Minimum
<1>7. Running(P) = {} => r.completed + r.failed = Len(r.items)
  BY <1>2, <1>3, <1>4, <1>5, LimitType
<1>8. QED
  BY <1>1, <1>2, <1>6, <1>7, BusyNotWaiting

\* Every variable keeps its type.
THEOREM SchedulerTypeCorrect == Spec => []TypeOK
<1>1. SchedInv => TypeOK
  BY DEF SchedInv
<1>2. QED
  BY <1>1, Inductive, PTL

\* The guard does its work: never two cycles past it, and it is set exactly
\* while there is one.
THEOREM OneCycle == Spec => []OneCycleAtATime
<1>1. SchedInv => OneCycleAtATime
  BY DEF SchedInv
<1>2. QED
  BY <1>1, Inductive, PTL

\* The pool is bounded by the limit, and full while items wait.
THEOREM PoolFull == Spec => []PoolIsFull
<1>1. SchedInv => PoolIsFull
  BY PoolFacts DEF PoolIsFull
<1>2. QED
  BY <1>1, Inductive, PTL

\* A cycle that ends has polled each of its monitors, and says so.
THEOREM Statistics == Spec => []StatisticsAddUp
<1>1. ASSUME SchedInv, NEW c \in Calls, Drained(c)
      PROVE  cycle[c].stage = "draining" /\ Running(poll[c]) = {}
  BY <1>1 DEF Drained, Running
<1>2. SchedInv => StatisticsAddUp
  BY <1>1, PoolFacts DEF StatisticsAddUp
<1>3. QED
  BY <1>2, Inductive, PTL

-----------------------------------------------------------------------------
(* Nobody is polled early.                                                 *)

LEMMA OthersIdle ==
  ASSUME SchedInv, NEW c \in Calls, \A d \in Live : d = c,
         NEW d \in Calls, d # c
  PROVE  /\ cycle[d].stage = "idle"
         /\ Waiting(cycle[d]) = {} /\ Running(poll[d]) = {}
BY DEF SchedInv, OneCycleAtATime, Live

LEMMA NobodyPending ==
  ASSUME NEW P, Running(P) = {}, NEW m \in Monitors PROVE P[m] # "checking"
BY DEF Running

\* A step that adds no monitor to those to be polled, and ends none's being
\* due unless it is one a user touched.
LEMMA StillDue ==
  ASSUME NoEarlyPoll, touched \subseteq touched',
         \A c \in Calls, m \in Monitors :
           m \in Waiting(cycle'[c]) \/ poll'[c][m] = "checking" =>
             m \in Waiting(cycle[c]) \/ poll[c][m] = "checking",
         \A c \in Calls, m \in Monitors \ touched' :
           (m \in Waiting(cycle'[c]) \/ poll'[c][m] = "checking") /\ Due(m) => Due(m)'
  PROVE  NoEarlyPoll'
BY DEF NoEarlyPoll

LEMMA EarlyStep == SchedInv /\ NoEarlyPoll /\ [Next]_vars => NoEarlyPoll'
<1> SUFFICES ASSUME SchedInv, NoEarlyPoll, [Next]_vars PROVE NoEarlyPoll'
  OBVIOUS
<1>1. ASSUME NEW c \in Calls, Tick(c) PROVE NoEarlyPoll'
  <2>1. \A d \in Calls : Waiting(cycle'[d]) = Waiting(cycle[d])
    BY <1>1 DEF Tick, SchedInv, TypeOK, Cycle, Waiting
  <2>2. QED
    BY <1>1, <2>1, StillDue DEF Tick, Due
<1>2. ASSUME NEW c \in Calls, FindFails(c) \/ Return(c) PROVE NoEarlyPoll'
  <2>1. \A d \in Calls : Waiting(cycle'[d]) \subseteq Waiting(cycle[d])
    BY <1>2, IdleFacts DEF FindFails, Return, SchedInv, TypeOK
  <2>2. QED
    BY <1>2, <2>1, StillDue DEF FindFails, Return, Due
<1>3. ASSUME NEW c \in Calls, NEW items \in Listings({m \in Monitors : Due(m)}),
             StartPool(c, items)
      PROVE  NoEarlyPoll'
  <2>1. \A d \in Calls, m \in Monitors :
          m \in Waiting(cycle'[d]) \/ poll'[d][m] = "checking" => Due(m)
    <3> SUFFICES ASSUME NEW d \in Calls, NEW m \in Monitors,
                        m \in Waiting(cycle'[d]) \/ poll'[d][m] = "checking"
                 PROVE  Due(m)
      OBVIOUS
    <3>1. CASE d = c
      BY <1>3, <3>1, StartPoolFacts DEF Running
    <3>2. CASE d # c
      <4>1. cycle'[d] = cycle[d] /\ poll'[d] = poll[d]
        BY <1>3, <3>2 DEF StartPool, SchedInv, TypeOK
      <4>2. QED
        BY <1>3, <3>2, <4>1, StartPoolFacts, OthersIdle, NobodyPending
    <3>3. QED
      BY <3>1, <3>2
  <2>2. \A m \in Monitors : Due(m)' = Due(m)
    BY <1>3 DEF StartPool, Due
  <2>3. QED
    BY <2>1, <2>2 DEF NoEarlyPoll
<1>4. ASSUME NEW c \in Calls, NEW m \in Monitors, SaveCheck(c, m) PROVE NoEarlyPoll'
  <2>1. poll[c][m] # "none" /\ cycle' = cycle /\ touched' = touched
    BY <1>4 DEF SaveCheck
  <2>2. \A d \in Calls : d # c => poll'[d] = poll[d]
    BY <1>4 DEF SaveCheck, SchedInv, TypeOK
  <2>3. poll'[c] = [poll[c] EXCEPT ![m] = "saved"] /\ poll[c] \in Polls
    BY <1>4, <2>1, SaveCheckFacts, PollIsLive
  <2>4. m \notin Waiting(cycle[c])
    BY <2>1, PollIsLive, BusyNotWaiting
  <2>5. \A n \in Monitors : n # m => Due(n)' = Due(n)
    BY <1>4 DEF SaveCheck, Due, SchedInv, TypeOK
  <2>6. \A d \in Calls, n \in Monitors :
          n \in Waiting(cycle'[d]) \/ poll'[d][n] = "checking" =>
            n # m /\ (n \in Waiting(cycle[d]) \/ poll[d][n] = "checking")
    <3> SUFFICES ASSUME NEW d \in Calls, NEW n \in Monitors,
                        n \in Waiting(cycle'[d]) \/ poll'[d][n] = "checking"
                 PROVE  n # m /\ (n \in Waiting(cycle[d]) \/ poll[d][n] = "checking")
      OBVIOUS
    <3>1. CASE d = c
      BY <2>1, <2>3, <2>4, <3>1 DEF Polls
    <3>2. CASE d # c
      <4>1. Waiting(cycle[d]) = {} /\ Running(poll[d]) = {}
        BY <2>1, <3>2, PollIsLive, OthersIdle
      <4>2. QED
        BY <2>1, <2>2, <3>2, <4>1, NobodyPending
    <3>3. QED
      BY <3>1, <3>2
  <2>7. QED
    BY <2>1, <2>5, <2>6, StillDue
<1>5. ASSUME NEW c \in Calls, NEW m \in Monitors, Settle(c, m) PROVE NoEarlyPoll'
  <2>1. \A d \in Calls : d # c => cycle'[d] = cycle[d] /\ poll'[d] = poll[d]
    BY <1>5 DEF Settle, SchedInv, TypeOK
  <2>2. /\ cycle[c] \in Cycle /\ poll[c] \in Polls
        /\ Len(cycle[c].items) \in Nat /\ cycle[c].next \in Nat
    <3>1. cycle[c] \in Cycle /\ poll[c] \in Polls
      BY <1>5, SettleFacts, PollIsLive
    <3>2. QED
      BY <3>1 DEF Cycle
  <2>3. Waiting(cycle'[c]) \subseteq Waiting(cycle[c])
    <3>1. CASE cycle[c].next > Len(cycle[c].items)
      BY <1>5, <3>1, SettleFacts
    <3>2. CASE cycle[c].next <= Len(cycle[c].items)
      BY <1>5, <3>2, SettleFacts
    <3>3. QED
      BY <2>2, <3>1, <3>2
  <2>4. \A n \in Monitors : poll'[c][n] = "checking" =>
          n \in Waiting(cycle[c]) \/ poll[c][n] = "checking"
    <3>1. poll'[c] = Handed(cycle[c], poll[c], m)
      BY <1>5, SettleFacts
    <3>2. cycle[c].next <= Len(cycle[c].items) =>
            cycle[c].items[cycle[c].next] \in Waiting(cycle[c])
      BY <1>5, SettleFacts
    <3>3. QED
      BY <2>2, <3>1, <3>2 DEF Handed, Polls
  <2>5. QED
    BY <1>5, <2>1, <2>3, <2>4, StillDue DEF Settle, Due
<1>6. CASE TimePasses
  <2>1. \A m \in Monitors : Due(m) => Due(m)'
    BY <1>6, SchedulerAssumption DEF TimePasses, Due, Minimum, SchedInv, TypeOK
  <2>2. QED
    BY <1>6, <2>1, StillDue DEF TimePasses
<1>7. ASSUME NEW m \in Monitors, PollNow(m) \/ SetActive(m) PROVE NoEarlyPoll'
  <2>1. \A n \in Monitors \ touched' : Due(n)' = Due(n)
    BY <1>7 DEF PollNow, SetActive, Due, SchedInv, TypeOK
  <2>2. QED
    BY <1>7, <2>1, StillDue DEF PollNow, SetActive
<1>8. CASE Crash
  <2>1. \A c \in Calls : cycle'[c] = IdleCycle /\ poll'[c] = NoPolls
    BY <1>8 DEF Crash
  <2>2. QED
    BY <2>1, IdleFacts, NobodyPending DEF NoEarlyPoll
<1>9. CASE UNCHANGED vars
  BY <1>9, StillDue DEF vars, Due
<1>10. QED
  BY <1>1, <1>2, <1>3, <1>4, <1>5, <1>6, <1>7, <1>8, <1>9 DEF Next

\* A monitor the scheduler is about to poll is due, however long it has waited
\* for its turn, unless a user interfered since it was listed.
THEOREM NeverEarly == Spec => []NoEarlyPoll
<1>1. Init => NoEarlyPoll
  <2> SUFFICES ASSUME Init PROVE NoEarlyPoll
    OBVIOUS
  <2>1. \A c \in Calls : cycle[c] = IdleCycle /\ poll[c] = NoPolls
    BY DEF Init
  <2>2. QED
    BY <2>1, IdleFacts, NobodyPending DEF NoEarlyPoll
<1>2. SchedInv /\ NoEarlyPoll /\ [Next]_vars => NoEarlyPoll'
  BY EarlyStep
<1>3. QED
  BY <1>1, <1>2, Inductive, PTL DEF Spec

-----------------------------------------------------------------------------
(* Refinement: every step is one of PollBatch, or none.                    *)

StageOf(r) == IF r.stage = "draining" THEN "polling"
              ELSE IF r.stage = "idle" THEN "closed" ELSE "listing"

\* If only the call c may be live, it alone makes up the batch.
LEMMA UnionOfOne ==
  ASSUME NEW cy, NEW po, NEW c \in Calls,
         \A d \in Calls : d # c => /\ cy[d].stage = "idle"
                                   /\ Waiting(cy[d]) = {} /\ Running(po[d]) = {}
  PROVE  /\ UNION {Waiting(cy[d]) : d \in Calls} = Waiting(cy[c])
         /\ UNION {Running(po[d]) : d \in Calls} = Running(po[c])
         /\ (\E d \in Calls : cy[d].stage = "draining") = (cy[c].stage = "draining")
         /\ ({d \in Calls : cy[d].stage # "idle"} # {}) = (cy[c].stage # "idle")
OBVIOUS

LEMMA MapStep ==
  ASSUME SchedInv, NEW c \in Calls, \A d \in Live : d = c,
         \A d \in Calls : d # c => cycle'[d] = cycle[d] /\ poll'[d] = poll[d]
  PROVE  /\ batch = StageOf(cycle[c]) /\ batch' = StageOf(cycle'[c])
         /\ waiting = Waiting(cycle[c]) /\ waiting' = Waiting(cycle'[c])
         /\ polling = Running(poll[c]) /\ polling' = Running(poll'[c])
<1>1. \A d \in Calls : d # c => /\ cycle[d].stage = "idle"
                                /\ Waiting(cycle[d]) = {} /\ Running(poll[d]) = {}
  BY OthersIdle
<1>2. \A d \in Calls : d # c => /\ cycle'[d].stage = "idle"
                                /\ Waiting(cycle'[d]) = {} /\ Running(poll'[d]) = {}
  BY <1>1
<1>3. /\ batch = StageOf(cycle[c])
      /\ waiting = Waiting(cycle[c]) /\ polling = Running(poll[c])
  BY <1>1, UnionOfOne DEF batch, waiting, polling, Live, StageOf
<1>4. /\ batch' = StageOf(cycle'[c])
      /\ waiting' = Waiting(cycle'[c]) /\ polling' = Running(poll'[c])
  BY <1>2, UnionOfOne DEF batch, waiting, polling, Live, StageOf
<1>5. QED
  BY <1>3, <1>4

\* Nothing the batch is made of changes.
LEMMA MapStutter ==
  ASSUME UNCHANGED cycle,
         \A c \in Calls : Running(poll'[c]) = Running(poll[c])
  PROVE  UNCHANGED Batch!batchVars
BY DEF Batch!batchVars, batch, waiting, polling, Live

LEMMA RefinementStep == SchedInv /\ [Next]_vars => [Batch!Next]_Batch!batchVars
<1> SUFFICES ASSUME SchedInv, [Next]_vars
             PROVE  Batch!Next \/ UNCHANGED Batch!batchVars
  OBVIOUS
<1>1. ASSUME NEW c \in Calls, Tick(c) PROVE Batch!Open
  <2>1. /\ \A d \in Live : d = c
        /\ \A d \in Calls : d # c => cycle'[d] = cycle[d] /\ poll'[d] = poll[d]
        /\ cycle'[c] = [cycle[c] EXCEPT !.stage = "finding"]
        /\ poll'[c] = poll[c] /\ cycle[c].stage = "idle" /\ cycle[c] \in Cycle
    BY <1>1 DEF Tick, SchedInv, TypeOK, OneCycleAtATime
  <2>2. cycle'[c].stage = "finding" /\ Waiting(cycle'[c]) = Waiting(cycle[c])
    BY <2>1 DEF Cycle, Waiting
  <2>3. /\ batch = "closed" /\ batch' = "listing"
        /\ waiting' = waiting /\ polling' = polling
    <3>1. /\ batch = StageOf(cycle[c]) /\ batch' = StageOf(cycle'[c])
          /\ waiting = Waiting(cycle[c]) /\ waiting' = Waiting(cycle'[c])
          /\ polling = Running(poll[c]) /\ polling' = Running(poll'[c])
      BY <2>1, MapStep
    <3>2. QED
      BY <2>1, <2>2, <3>1 DEF StageOf
  <2>4. QED
    BY <2>3 DEF Batch!Open
<1>2. ASSUME NEW c \in Calls, FindFails(c) PROVE Batch!Abandon
  <2>1. /\ \A d \in Live : d = c
        /\ \A d \in Calls : d # c => cycle'[d] = cycle[d] /\ poll'[d] = poll[d]
        /\ cycle'[c] = IdleCycle /\ poll'[c] = poll[c]
        /\ cycle[c].stage = "finding"
        /\ Running(poll[c]) = {}
    BY <1>2 DEF FindFails, SchedInv, TypeOK, OneCycleAtATime, Live
  <2>2. QED
    BY <2>1, IdleFacts, MapStep DEF Batch!Abandon, StageOf
<1>3. ASSUME NEW c \in Calls, NEW items \in Listings({m \in Monitors : Due(m)}),
             StartPool(c, items)
      PROVE  Batch!Next
  <2>1. /\ \A d \in Live : d = c
        /\ \A d \in Calls : d # c => cycle'[d] = cycle[d] /\ poll'[d] = poll[d]
        /\ cycle[c].stage = "finding"
    BY <1>3, StartPoolFacts DEF StartPool, SchedInv, TypeOK
  <2>2. cycle'[c].stage = "draining" /\ cycle'[c] \in Cycle /\ PoolOK(cycle'[c], poll'[c])
    BY <1>3, StartPoolFacts
  <2> DEFINE first == Running(poll'[c])  due == first \cup Waiting(cycle'[c])
  <2>3. first \subseteq due /\ due \ first = Waiting(cycle'[c])
    BY <2>2, BusyNotWaiting
  <2>4. due \in SUBSET Monitors
    <3>1. Waiting(cycle'[c]) \subseteq Monitors
      BY <2>2 DEF Waiting, PoolOK, Cycle
    <3>2. QED
      BY <3>1 DEF Running
  <2>5. /\ Cardinality(first) <= Limit
        /\ Cardinality(first) = Limit \/ first = due
    <3>1. CASE cycle'[c].next <= Len(cycle'[c].items)
      BY <2>2, <3>1, LimitType DEF PoolOK
    <3>2. CASE ~ (cycle'[c].next <= Len(cycle'[c].items))
      <4>1. Waiting(cycle'[c]) = {}
        BY <2>2, <3>2 DEF Waiting, Cycle
      <4>2. QED
        BY <2>2, <4>1 DEF PoolOK
    <3>3. QED
      BY <3>1, <3>2
  <2> HIDE DEF first, due
  <2>6. Batch!Start(due, first)
    <3>1. /\ batch = "listing" /\ batch' = "polling"
          /\ waiting' = Waiting(cycle'[c]) /\ polling' = first
      BY <2>1, <2>2, MapStep DEF StageOf, first
    <3>2. Batch!Cardinality(first) = Cardinality(first)
      BY DEF Batch!Cardinality, Cardinality
    <3>3. QED
      BY <2>3, <2>5, <3>1, <3>2 DEF Batch!Start
  <2>7. QED
    BY <2>3, <2>4, <2>6 DEF Batch!Next
<1>4. ASSUME NEW c \in Calls, NEW m \in Monitors, SaveCheck(c, m)
      PROVE  UNCHANGED Batch!batchVars
  <2>1. \A d \in Calls : d # c => poll'[d] = poll[d]
    BY <1>4 DEF SaveCheck, SchedInv, TypeOK
  <2>2. QED
    BY <1>4, <2>1, SaveCheckFacts, MapStutter DEF SaveCheck
<1>5. ASSUME NEW c \in Calls, NEW m \in Monitors, Settle(c, m) PROVE Batch!Replace(m)
  <2>1. /\ \A d \in Live : d = c
        /\ cycle[c].stage = "draining" /\ cycle'[c].stage = "draining"
        /\ cycle[c] \in Cycle
        /\ m \in Running(poll[c])
    BY <1>5, SettleFacts, PollIsLive
  <2>2. \A d \in Calls : d # c => cycle'[d] = cycle[d] /\ poll'[d] = poll[d]
    BY <1>5 DEF Settle, SchedInv, TypeOK
  <2>3. /\ batch = "polling" /\ batch' = "polling"
        /\ waiting = Waiting(cycle[c]) /\ waiting' = Waiting(cycle'[c])
        /\ polling = Running(poll[c]) /\ polling' = Running(poll'[c])
    BY <2>1, <2>2, MapStep DEF StageOf
  <2>4. CASE cycle[c].next > Len(cycle[c].items)
    <3>1. /\ Waiting(cycle[c]) = {} /\ Waiting(cycle'[c]) = {}
          /\ Running(poll'[c]) = Running(poll[c]) \ {m}
      BY <1>5, <2>4, SettleFacts
    <3>2. QED
      BY <2>1, <2>3, <3>1 DEF Batch!Replace
  <2>5. CASE cycle[c].next <= Len(cycle[c].items)
    <3> DEFINE i == cycle[c].items[cycle[c].next]
    <3>1. /\ i \in Waiting(cycle[c])
          /\ Waiting(cycle'[c]) = Waiting(cycle[c]) \ {i}
          /\ Running(poll'[c]) = (Running(poll[c]) \ {m}) \cup {i}
      BY <1>5, <2>5, SettleFacts
    <3> HIDE DEF i
    <3>2. QED
      BY <2>1, <2>3, <3>1 DEF Batch!Replace
  <2>6. cycle[c].next \in Nat /\ Len(cycle[c].items) \in Nat
    BY <2>1 DEF Cycle
  <2>7. QED
    BY <2>4, <2>5, <2>6
<1>6. ASSUME NEW c \in Calls, Return(c) PROVE Batch!Close
  <2>1. /\ \A d \in Live : d = c
        /\ \A d \in Calls : d # c => cycle'[d] = cycle[d] /\ poll'[d] = poll[d]
        /\ cycle'[c] = IdleCycle /\ poll'[c] = poll[c]
        /\ cycle[c].stage = "draining" /\ Running(poll[c]) = {}
    BY <1>6 DEF Return, Drained, SchedInv, TypeOK, OneCycleAtATime, Live, Running
  <2>2. Waiting(cycle[c]) = {}
    <3>1. cycle[c] \in Cycle /\ PoolOK(cycle[c], poll[c])
      BY <2>1 DEF SchedInv, TypeOK
    <3>2. cycle[c].inFlight = 0
      BY <2>1, <3>1, FS_EmptySet DEF PoolOK
    <3>3. ~ (cycle[c].next <= Len(cycle[c].items))
      BY <3>1, <3>2, LimitType DEF PoolOK
    <3>4. QED
      BY <3>1, <3>3 DEF Waiting, Cycle
  <2>3. QED
    BY <2>1, <2>2, IdleFacts, MapStep DEF Batch!Close, StageOf
<1>7. CASE TimePasses
  BY <1>7, MapStutter DEF TimePasses
<1>8. ASSUME NEW m \in Monitors, PollNow(m) \/ SetActive(m)
      PROVE  UNCHANGED Batch!batchVars
  BY <1>8, MapStutter DEF PollNow, SetActive
<1>9. CASE Crash
  <2>1. \A c \in Calls : cycle'[c] = IdleCycle /\ poll'[c] = NoPolls
    BY <1>9 DEF Crash
  <2>2. batch' = "closed" /\ waiting' = {} /\ polling' = {}
    BY <2>1, IdleFacts DEF batch, waiting, polling, Live
  <2>3. CASE batch = "closed"
    <3>1. \A c \in Calls : cycle[c].stage = "idle"
      BY <2>3 DEF batch, Live
    <3>2. \A c \in Calls : Waiting(cycle[c]) = {} /\ Running(poll[c]) = {}
      BY <3>1 DEF SchedInv, OneCycleAtATime
    <3>3. waiting = {} /\ polling = {}
      BY <3>2 DEF waiting, polling
    <3>4. QED
      BY <2>2, <2>3, <3>3 DEF Batch!batchVars
  <2>4. CASE batch # "closed"
    BY <2>2, <2>4 DEF Batch!Abandon, Batch!Next
  <2>5. QED
    BY <2>3, <2>4
<1>10. CASE UNCHANGED vars
  BY <1>10, MapStutter DEF vars
<1>11. QED
  BY <1>1, <1>2, <1>3, <1>4, <1>5, <1>6, <1>7, <1>8, <1>9, <1>10
  DEF Next, Batch!Next

\* pollDueMonitors, its guard, its pool, their error paths and restarts of the
\* process implement the batches of PollBatch.
THEOREM SchedulerImplementsBatch == Spec => Batch!Safety
<1>1. Init => Batch!Init
  <2> SUFFICES ASSUME Init PROVE Batch!Init
    OBVIOUS
  <2>1. \A c \in Calls : cycle[c] = IdleCycle /\ poll[c] = NoPolls
    BY DEF Init
  <2>2. QED
    BY <2>1, IdleFacts DEF Batch!Init, batch, waiting, polling, Live
<1>2. SchedInv /\ [Next]_vars => [Batch!Next]_Batch!batchVars
  BY RefinementStep
<1>3. QED
  BY <1>1, <1>2, Inductive, PTL DEF Spec, Batch!Safety

=============================================================================
