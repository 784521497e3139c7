------------------------------ MODULE Pipeline ------------------------------
(***************************************************************************)
(* The scheduler composed with the checkers: jobs go through the NATS      *)
(* queue group to one cmd/checker each, which probes the site              *)
(* (internal/check) and publishes a result.  All monitors watch one site.  *)
(***************************************************************************)
EXTENDS Scheduler

CONSTANT
    Region       \* the checkers

ASSUME PipelineAssumption == "" \in Keyword

\* What a page has, "" standing for the expected status; {} is a site that
\* does not answer in time, or with another status.
Site == {{}} \cup {words \cup {""} : words \in SUBSET Keyword}

VARIABLES
    checker,     \* "up", "stopping" (its context is cancelled) or "down"
    checking,    \* the job in the subscription's callback
    site,        \* what the site answers
    verdict      \* the last result published about a monitor

checkVars == <<checker, checking, site, verdict>>
vars == <<schedVars, events, checkVars>>

Init ==
    /\ SchedInit
    /\ checker = [r \in Region |-> "up"]
    /\ checking = [r \in Region |-> None]
    /\ site = Keyword
    /\ verdict = [m \in Monitors |-> "none"]

TypeOK ==
    /\ table \in [Monitors -> Row \cup {None}]
    /\ used \subseteq Owned
    /\ file \in [Seeded -> Entry \cup {None}]
    /\ seeding \in [Process -> [Seeded -> Row \cup {None}]]
    /\ up \in BOOLEAN
    /\ fetched \in [Monitors -> Row \cup {None}] \cup {None}
    /\ running \in [Monitors -> Row \cup {None}]
    /\ loops \subseteq Loop
    /\ jobs \subseteq Job
    /\ events \in Nat
    /\ checker \in [Region -> {"up", "stopping", "down"}]
    /\ checking \in [Region -> Job \cup {None}]
    /\ site \in Site
    /\ verdict \in [Monitors -> {"none", "up", "down"}]

-----------------------------------------------------------------------------
\* Mutant of TakeJob: every job goes to one and the same subscriber.
TakeJobPinned(r, j) ==
    /\ j \in jobs
    /\ r = CHOOSE x \in Region : TRUE
    /\ checker[r] # "down" /\ checking[r] = None
    /\ jobs' = jobs \ {j}
    /\ checking' = [checking EXCEPT ![r] = j]
    /\ UNCHANGED <<tableVars, file, seeding, procVars, events, checker, site,
                   verdict>>

\* The queue group hands a job to one subscriber; its callback runs one job at
\* a time, also while the process is shutting down.
TakeJob(r, j) ==
    /\ j \in jobs
    /\ checker[r] # "down" /\ checking[r] = None
    /\ jobs' = jobs \ {j}
    /\ checking' = [checking EXCEPT ![r] = j]
    /\ UNCHANGED <<tableVars, file, seeding, procVars, events, checker, site,
                   verdict>>

\* Core NATS keeps nothing: a job is gone when nobody subscribes, or when a
\* connection breaks while it is on its way.
LoseJob(j) ==
    /\ j \in jobs
    /\ \/ (\A r \in Region : checker[r] = "down") /\ UNCHANGED events
       \/ Event
    /\ jobs' = jobs \ {j}
    /\ UNCHANGED <<tableVars, file, seeding, procVars, checkVars>>

\* check.Do: the request completed with the expected status, and the page has
\* the keyword if there is one.
Do(row) == IF "" \in site /\ row.keyword \in site THEN "up" ELSE "down"

\* handleJob publishes whatever Do returns.  On shutdown the request fails
\* unless it had completed, and the failure is published as "down".
FinishCheck(r) ==
    /\ checking[r] # None
    /\ \E v \in {Do(checking[r].row)} \cup
                (IF checker[r] = "stopping" THEN {"down"} ELSE {}) :
          verdict' = [verdict EXCEPT ![checking[r].id] = v]
    /\ checking' = [checking EXCEPT ![r] = None]
    /\ UNCHANGED <<schedVars, events, checker, site>>

StartChecker(r) ==
    /\ checker[r] = "down"
    /\ checker' = [checker EXCEPT ![r] = "up"]
    /\ UNCHANGED <<schedVars, events, checking, site, verdict>>

\* SIGTERM cancels the context of the check under way ...
Terminate(r) ==
    /\ checker[r] = "up"
    /\ Event
    /\ checker' = [checker EXCEPT ![r] = "stopping"]
    /\ UNCHANGED <<schedVars, checking, site, verdict>>

\* Mutant of Exit: main waits until no job is left for its subscription.
ExitWhenIdle(r) ==
    /\ checker[r] = "stopping" /\ jobs = {} /\ checking[r] = None
    /\ checker' = [checker EXCEPT ![r] = "down"]
    /\ UNCHANGED <<schedVars, events, checking, site, verdict>>

\* ... and main returns without waiting for the callback.
Exit(r) ==
    /\ checker[r] = "stopping"
    /\ checker' = [checker EXCEPT ![r] = "down"]
    /\ checking' = [checking EXCEPT ![r] = None]
    /\ UNCHANGED <<schedVars, events, site, verdict>>

Kill(r) ==
    /\ checker[r] = "up"
    /\ Event
    /\ checker' = [checker EXCEPT ![r] = "down"]
    /\ checking' = [checking EXCEPT ![r] = None]
    /\ UNCHANGED <<schedVars, site, verdict>>

\* The site goes away, comes back, or its page changes.
Flip ==
    /\ Event
    /\ site' \in Site \ {site}
    /\ UNCHANGED <<schedVars, checker, checking, verdict>>

Next ==
    \/ SchedNext /\ UNCHANGED checkVars
    \/ \E r \in Region, j \in jobs : TakeJob(r, j)
    \/ \E j \in jobs : LoseJob(j)
    \/ \E r \in Region :
          FinishCheck(r) \/ StartChecker(r) \/ Terminate(r) \/ Exit(r)
          \/ Kill(r)
    \/ Flip

Spec == Init /\ [][Next]_vars

-----------------------------------------------------------------------------
(***************************************************************************)
(* Fairness.  Goroutines and callbacks are scheduled and tickers fire; a   *)
(* dead scheduler is restarted; the jobs of a monitor are not overtaken    *)
(* for ever by those of another, since NATS and the subscription's buffer  *)
(* keep their order.  Nothing is assumed of stopped checkers.              *)
(***************************************************************************)

OfMonitor(m, A(_)) ==
    (\E l \in loops : l.id = m /\ A(l)) /\ UNCHANGED checkVars

Begins(l) == LoopBegins(l) \/ LoopPanics(l)
Ticks(l)  == ~l.cancelled /\ LoopTick(l)

Fairness ==
    /\ WF_vars(StartScheduler /\ UNCHANGED checkVars)
    /\ WF_vars(EnabledMonitors /\ UNCHANGED checkVars)
    /\ WF_vars(SyncOnce /\ UNCHANGED checkVars)
    /\ \A p \in Process, m \in Seeded :
          WF_vars(UpsertMonitor(p, m) /\ UNCHANGED checkVars)
    /\ \A m \in Monitors :
          /\ WF_vars(OfMonitor(m, Begins))
          /\ WF_vars(OfMonitor(m, Ticks))
          /\ WF_vars(OfMonitor(m, LoopEnds))
          /\ SF_vars(\E r \in Region, j \in jobs : j.id = m /\ TakeJob(r, j))
    /\ \A r \in Region : WF_vars(FinishCheck(r)) /\ WF_vars(Exit(r))

FairSpec == Spec /\ Fairness

-----------------------------------------------------------------------------
(***************************************************************************)
(* Properties                                                              *)
(***************************************************************************)

\* Through every order of stale snapshots, restarts and cancellations a
\* watched monitor has exactly one loop that is not cancelled, publishing the
\* row the scheduler compares with, and an unwatched one has none (reconcile:
\* start, cancel and delete keep `running` and the goroutines together).
OneLoopPerMonitor ==
    \A m \in Monitors :
       LET live == {l \in loops : l.id = m /\ ~l.cancelled} IN
       IF running[m] = None THEN live = {}
       ELSE \E l \in live : live = {l} /\ l.row = running[m]

Enabled(m) == table[m] # None /\ table[m].enabled

\* No enabled row has an interval that NewTicker refuses.
Tickable == \A m \in Monitors : Enabled(m) => table[m].interval > 0

\* The interval of a row, 0 where there is none.
ProbedEvery(row) == IF row = None THEN 0 ELSE row.interval

CheckerUp == \E r \in Region : checker[r] = "up"

\* A monitor that stays enabled is watched in the end ("sites added/removed ...
\* start/stop being watched without a restart"), and a loop of an outdated
\* interval is replaced, unless some row makes the scheduler panic again and
\* again.
WatchedEventually ==
    \A m \in Monitors :
       <>[](Enabled(m) /\ Tickable)
       => <>[](/\ running[m] # None
               /\ ProbedEvery(running[m]) = ProbedEvery(table[m]))

\* "restarts ones whose config changed": the loop of a monitor that stays
\* enabled publishes what its row says in the end, the keyword included.
ConfigurationWatched ==
    \A m \in Monitors :
       <>[](Enabled(m) /\ Tickable) => <>[](running[m] = table[m])

\* A monitor that stays disabled or deleted is no longer scheduled, requested
\* or probed in the end: cancelled loops stop, although each may still publish.
UnwatchedEventually ==
    \A m \in Monitors :
       <>[](~Enabled(m) /\ CheckerUp)
       => <>[](\A x \in loops \cup jobs \cup
                        {checking[r] : r \in {q \in Region : checking[q] # None}} :
                 x.id # m)

\* "Killing one doesn't stop monitoring": as long as some checker is up an
\* enabled monitor is probed again and again, also after a lost job or a job
\* that died with its checker.
MonitoringSurvives ==
    \A m \in Monitors :
       <>[](Enabled(m) /\ Tickable /\ CheckerUp)
       => []<>(\E r \in Region : checking[r] # None /\ checking[r].id = m)

\* The last published result is right in the end about the row the scheduler
\* watches: jobs of an outdated configuration and the "down" of a check that a
\* shutdown interrupted are superseded.
VerdictsBecomeTrue ==
    \A m \in Monitors :
       <>[](Enabled(m) /\ Tickable /\ CheckerUp)
       => <>[](running[m] # None /\ verdict[m] = Do(running[m]))
=============================================================================
