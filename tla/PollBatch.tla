------------------------------ MODULE PollBatch ------------------------------
(***************************************************************************)
(* What the scheduler promises (jobs/scheduler.ts, the comments at         *)
(* runBounded and cycleRunning): one batch at a time, every monitor of a   *)
(* batch polled once, never more than Limit polls at once, and never fewer *)
(* while monitors are waiting - whatever becomes of the single polls.      *)
(***************************************************************************)
EXTENDS Naturals, FiniteSets

CONSTANTS
  Monitors,  \* what may be polled
  Limit      \* polls in progress at most

VARIABLES
  batch,    \* "closed", "listing" the due monitors, or "polling" them
  waiting,  \* the monitors of the batch not polled yet
  polling   \* those being polled

batchVars == <<batch, waiting, polling>>

Init == batch = "closed" /\ waiting = {} /\ polling = {}

Open ==
  /\ batch = "closed"
  /\ batch' = "listing"
  /\ UNCHANGED <<waiting, polling>>

\* Polls start at once, as many as the limit admits.
Start(due, first) ==
  /\ batch = "listing"
  /\ batch' = "polling"
  /\ first \subseteq due
  /\ Cardinality(first) <= Limit
  /\ Cardinality(first) = Limit \/ first = due
  /\ polling' = first
  /\ waiting' = due \ first

\* The poll of m ends, well or badly; the next one, if any, takes its place.
Replace(m) ==
  /\ batch = "polling"
  /\ m \in polling
  /\ \/ waiting = {} /\ polling' = polling \ {m} /\ UNCHANGED waiting
     \/ \E n \in waiting : /\ polling' = (polling \ {m}) \cup {n}
                           /\ waiting' = waiting \ {n}
  /\ UNCHANGED batch

Close ==
  /\ batch = "polling"
  /\ waiting = {} /\ polling = {}
  /\ batch' = "closed"
  /\ UNCHANGED <<waiting, polling>>

\* The listing fails, or the process stops.
Abandon ==
  /\ batch # "closed"
  /\ batch' = "closed"
  /\ waiting' = {} /\ polling' = {}

Next ==
  \/ Open
  \/ \E due \in SUBSET Monitors : \E first \in SUBSET due : Start(due, first)
  \/ \E m \in Monitors : Replace(m)
  \/ Close
  \/ Abandon

\* A batch that was opened is over some time.
Fairness ==
  /\ WF_batchVars(Close)
  /\ WF_batchVars(\E m \in Monitors : Replace(m))

Safety == Init /\ [][Next]_batchVars

Spec == Safety /\ Fairness

=============================================================================
