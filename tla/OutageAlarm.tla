----------------------------- MODULE OutageAlarm -----------------------------
(***************************************************************************)
(* What the pipeline promises of outages (handleOutageIncident,            *)
(* services/incidentService.ts): one is opened only when the latest check  *)
(* of its monitor failed and none is open, and it ends only when the       *)
(* latest check succeeded, a user resolves it or the monitor is deleted.   *)
(***************************************************************************)
CONSTANTS
  Monitors,    \* what is polled
  Dismissable  \* may users resolve outages?

VARIABLES
  check,  \* check[m]: "none", or how the latest check of m ended
  alarm   \* the monitors with an open outage

alarmVars == <<check, alarm>>

Init == check = [m \in Monitors |-> "none"] /\ alarm = {}

Checked(m, outcome) ==
  /\ check' = [check EXCEPT ![m] = outcome]
  /\ UNCHANGED alarm

Raise(m) ==
  /\ check[m] = "fail" /\ m \notin alarm
  /\ alarm' = alarm \cup {m}
  /\ UNCHANGED check

Clear(m) ==
  /\ check[m] = "ok" /\ m \in alarm
  /\ alarm' = alarm \ {m}
  /\ UNCHANGED check

Dismiss(m) ==
  /\ Dismissable /\ m \in alarm
  /\ alarm' = alarm \ {m}
  /\ UNCHANGED check

\* The monitor is deleted, with its checks and its outage.
Forget(m) ==
  /\ check' = [check EXCEPT ![m] = "none"]
  /\ alarm' = alarm \ {m}

Next ==
  \E m \in Monitors :
    \/ \E outcome \in {"ok", "fail"} : Checked(m, outcome)
    \/ Raise(m)
    \/ Clear(m)
    \/ Dismiss(m)
    \/ Forget(m)

Spec == Init /\ [][Next]_alarmVars

=============================================================================
