------------------------------ MODULE Incidents ------------------------------
(***************************************************************************)
(* What the evaluator promises about one monitor's incidents and alerts,   *)
(* whatever crashes, restarts and mutes happen: incidents do not overlap,  *)
(* an alert is sent at most once, and only after the database records what *)
(* it says.                                                                *)
(***************************************************************************)
EXTENDS Naturals

VARIABLES
    open,      \* unresolved incidents of the monitor
    resolved,  \* has an incident been resolved?
    alerts     \* DOWN and RECOVERED alerts sent about the latest incident

vars == <<open, resolved, alerts>>

NoAlerts == [down |-> 0, recovered |-> 0]

Init == open = 0 /\ resolved = FALSE /\ alerts = NoAlerts

Open ==
    /\ open = 0
    /\ open' = 1 /\ alerts' = NoAlerts
    /\ UNCHANGED resolved

Resolve ==
    /\ open = 1
    /\ open' = 0 /\ resolved' = TRUE
    /\ UNCHANGED alerts

AlertDown ==
    /\ open = 1 /\ alerts = NoAlerts
    /\ alerts' = [alerts EXCEPT !.down = 1]
    /\ UNCHANGED <<open, resolved>>

AlertRecovered ==
    /\ open = 0 /\ resolved /\ alerts.recovered = 0
    /\ alerts' = [alerts EXCEPT !.recovered = 1]
    /\ UNCHANGED <<open, resolved>>

\* The monitor is deleted, and its incidents with it.
Delete == open' = 0 /\ resolved' = FALSE /\ alerts' = NoAlerts

Next == Open \/ Resolve \/ AlertDown \/ AlertRecovered \/ Delete

Spec == Init /\ [][Next]_vars
=============================================================================
