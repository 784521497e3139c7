----------------------------- MODULE Evaluator ------------------------------
(***************************************************************************)
(* cmd/evaluator around one monitor: results arrive from the checkers over *)
(* NATS, are stored and fed to the engine, and what the engine commits     *)
(* becomes incident rows and alerts.  The tick loop, the web application   *)
(* and the scheduler's configuration seed run beside it on the same        *)
(* database.                                                               *)
(*                                                                         *)
(* The section of handleResult and of tickLoop under e.mu is a sequence of *)
(* steps, `todo`: the lock is held while it is not empty.  A step ends     *)
(* where the code calls out (the database, the mail server), because there *)
(* the process may die and other processes may change the database.        *)
(***************************************************************************)
EXTENDS Evaluate, Sequences

CONSTANTS
    NoResult,     \* no result is being handled
    Owned,        \* TRUE: a user's monitor; FALSE: a system monitor
    SlowValues,   \* may an up result be over the slow threshold?
    CertValues,   \* certificate expiries seen: of "none", "ok", "near"
    MaxDelay,     \* bound: age of a result until it is observed
    MaxInFlight,  \* bound: results in NATS at once
    MaxFlips,     \* bound: changes of the site's health
    MaxAdmin,     \* bound: creations, deletions, mutes, config changes
    MaxCrashes,   \* bound: deaths of the evaluator
    MaxDbErrors   \* bound: failing database calls

ASSUME EvaluatorAssumption ==
    /\ Owned \in BOOLEAN /\ SlowValues \subseteq BOOLEAN
    /\ CertValues \subseteq {"none", "ok", "near"}
    /\ MaxDelay \in Nat /\ MaxInFlight \in Nat /\ MaxFlips \in Nat
    /\ MaxAdmin \in Nat /\ MaxCrashes \in Nat /\ MaxDbErrors \in Nat

SlowStreakToAlert == 3

VARIABLES
    \* the database
    row,        \* the monitors row: "none", "enabled", "disabled" or "gone"
    muted,      \* muted_until > now()
    open,       \* incidents with resolved_at IS NULL
    resolved,   \* is there an incident with resolved_at set?
    checks,     \* are there rows in checks?
    certExpiry, \* monitors.cert_expiry, as the evaluator judged it
    \* the evaluator process
    running,
    known,      \* is there an entry for the monitor?
    engine, certAlerted, slowStreak, slowAlerted,
    current,    \* the result handleResult is working on
    todo,       \* what the holder of e.mu still has to do
    \* the world
    inflight,   \* results in NATS
    site,       \* can a region reach the site?
    \* history of the alerts sent; of the warnings, by the running process
    alerts,     \* DOWN and RECOVERED alerts about the latest incident
    certMails,  \* certificate warnings since the last healthy certificate
    slowMails,  \* slow warnings since the last result that was not slow
    \* how much of the bounds is used
    flips, admin, crashes, dbErrors

dbVars    == <<row, muted, certExpiry>>
incVars   == <<open, resolved>>
warnVars  == <<certAlerted, slowStreak, slowAlerted>>
mailVars  == <<certMails, slowMails>>
boundVars == <<flips, admin, crashes>>
vars == <<dbVars, incVars, checks, running, known, engine,
          warnVars, current, todo, inflight, site, alerts, mailVars,
          boundVars, dbErrors>>

Result == [region : Region, up : BOOLEAN, slow : BOOLEAN,
           cert : {"none", "ok", "near"}, age : 0..Expired]

ASSUME NoResultAssumption == NoResult \notin Result

Kind == {"down", "recovered", "cert", "slow"}
StepName == {"checkCert", "checkSlow", "observe"} \cup Kind

NoAlerts == [down |-> 0, recovered |-> 0]

\* The monitors row exists: foreign keys hold and updates find it.
RowExists == row \in {"enabled", "disabled"}

\* A counter of the history stops at 2: no property tells more apart.
Count(n) == IF n < 2 THEN n + 1 ELSE n

-----------------------------------------------------------------------------
(* The site, the checkers, and the passing of time *)

Flip(r) ==
    /\ flips < MaxFlips /\ flips' = flips + 1
    /\ site' = [site EXCEPT ![r] = ~@]
    /\ UNCHANGED <<dbVars, incVars, checks, running, known, engine, warnVars,
                   current, todo, inflight, alerts, mailVars, admin, crashes,
                   dbErrors>>

\* A checker of region r runs a job and publishes the result; the scheduler
\* notices a disabled or deleted monitor only at its next reconcile, so jobs
\* may still come.  Without a subscriber core NATS drops the result.
Publish(r) ==
    /\ row # "none" /\ running
    /\ Cardinality(inflight) < MaxInFlight
    /\ \E slow \in SlowValues, cert \in CertValues :
          inflight' = inflight \cup
             {[region |-> r, up |-> site[r], slow |-> slow /\ site[r],
               cert |-> cert, age |-> 0]}
    /\ UNCHANGED <<dbVars, incVars, checks, running, known, engine, warnVars,
                   current, todo, site, alerts, mailVars, boundVars, dbErrors>>

\* At-most-once delivery.
Lose(m) ==
    /\ inflight' = inflight \ {m}
    /\ UNCHANGED <<dbVars, incVars, checks, running, known, engine, warnVars,
                   current, todo, site, alerts, mailVars, boundVars, dbErrors>>

OlderResult(m) == [m EXCEPT !.age = Older(@, Expired)]

\* A result that is not received within MaxDelay never is.
Elapse ==
    /\ current # NoResult => current.age < MaxDelay
    /\ engine' = Aged(engine)
    /\ inflight' = {OlderResult(m) : m \in {n \in inflight : n.age < MaxDelay}}
    /\ current' = IF current = NoResult THEN NoResult ELSE OlderResult(current)
    /\ UNCHANGED <<dbVars, incVars, checks, running, known, warnVars, todo,
                   site, alerts, mailVars, boundVars, dbErrors>>

-----------------------------------------------------------------------------
(* handleResult *)

\* InsertCheck, outside the lock; the table has no foreign key.
Receive(m) ==
    /\ running /\ current = NoResult /\ todo = <<>>
    /\ current' = m
    /\ inflight' = inflight \ {m}
    /\ \/ checks' = TRUE /\ UNCHANGED dbErrors
       \/ /\ dbErrors < MaxDbErrors /\ dbErrors' = dbErrors + 1
          /\ UNCHANGED checks
    /\ UNCHANGED <<dbVars, incVars, running, known, engine, warnVars, todo,
                   site, alerts, mailVars, boundVars>>

\* e.mu is taken; an unknown monitor gets an entry with the baseline up.
Lock ==
    /\ running /\ current # NoResult /\ todo = <<>>
    /\ known' = TRUE
    /\ engine' = IF known THEN engine ELSE NewMonitor(TRUE)
    /\ todo' = <<"checkCert", "checkSlow", "observe">>
    /\ UNCHANGED <<dbVars, incVars, checks, running, warnVars, current,
                   inflight, site, alerts, mailVars, boundVars, dbErrors>>

\* Mutant of CheckCert: certAlerted is not set.
CheckCertForgets ==
    /\ todo # <<>> /\ Head(todo) = "checkCert"
    /\ todo' = IF current.cert = "near" THEN <<"cert">> \o Tail(todo)
               ELSE Tail(todo)
    /\ UNCHANGED <<dbVars, incVars, checks, running, known, engine, warnVars,
                   current, inflight, site, alerts, mailVars, boundVars,
                   dbErrors>>

CheckCert ==
    LET near == current.cert = "near"
        warn == near /\ ~certAlerted
    IN
    /\ todo # <<>> /\ Head(todo) = "checkCert"
    /\ IF current.cert = "none"
       THEN UNCHANGED <<certExpiry, certAlerted, certMails>>
       ELSE /\ certExpiry' = IF RowExists THEN current.cert ELSE certExpiry
            /\ certAlerted' = near
            /\ certMails' = IF near THEN certMails ELSE 0
    /\ todo' = IF warn THEN <<"cert">> \o Tail(todo) ELSE Tail(todo)
    /\ UNCHANGED <<row, muted, incVars, checks, running, known, engine,
                   slowStreak, slowAlerted, current, inflight, site, alerts,
                   slowMails, boundVars, dbErrors>>

\* Mutant of CheckSlow: one slow check too few.
CheckSlowEarly ==
    /\ todo # <<>> /\ Head(todo) = "checkSlow"
    /\ slowStreak' = IF current.slow THEN slowStreak + 1 ELSE 0
    /\ todo' = IF slowStreak' = 2 THEN <<"slow">> \o Tail(todo) ELSE Tail(todo)
    /\ UNCHANGED <<dbVars, incVars, checks, running, known, engine,
                   certAlerted, slowAlerted, current, inflight, site, alerts,
                   mailVars, boundVars, dbErrors>>

\* The streak is only compared with SlowStreakToAlert and stops there.
CheckSlow ==
    LET streak == IF slowStreak < SlowStreakToAlert THEN slowStreak + 1
                  ELSE slowStreak
        warn == streak >= SlowStreakToAlert /\ ~slowAlerted
    IN
    /\ todo # <<>> /\ Head(todo) = "checkSlow"
    /\ IF ~current.slow
       THEN /\ slowStreak' = 0 /\ slowAlerted' = FALSE /\ slowMails' = 0
            /\ todo' = Tail(todo)
       ELSE /\ slowStreak' = streak
            /\ slowAlerted' = (slowAlerted \/ warn)
            /\ todo' = IF warn THEN <<"slow">> \o Tail(todo) ELSE Tail(todo)
            /\ UNCHANGED slowMails
    /\ UNCHANGED <<dbVars, incVars, checks, running, known, engine,
                   certAlerted, current, inflight, site, alerts, certMails,
                   boundVars, dbErrors>>

-----------------------------------------------------------------------------
(* commit and notify *)

\* Mutant of OpenIncident: no foreign key.
OpenIncidentUnchecked ==
    open' = open + 1 /\ alerts' = NoAlerts /\ UNCHANGED resolved

\* OpenIncident: an insert that the foreign key refuses without the row.
OpenIncident ==
    IF RowExists
    THEN open' = open + 1 /\ alerts' = NoAlerts /\ UNCHANGED resolved
    ELSE UNCHANGED <<incVars, alerts>>

\* Mutant of ResolveIncident: no row is updated.
ResolveIncidentNone == UNCHANGED <<incVars, alerts>>

\* ResolveIncident: every unresolved row is closed.
ResolveIncident ==
    /\ open' = 0
    /\ resolved' = (resolved \/ open > 0)
    /\ UNCHANGED alerts

\* Evaluate the monitor m and commit what it returns.  A failing write is
\* logged, and the alert goes out all the same.
Commit(m, lag, rest) ==
    LET event == EvaluateEvent(m, lag) IN
    /\ engine' = Evaluated(m, lag)
    /\ todo' = CASE event = "None" -> rest
                 [] event = "Down" -> rest \o <<"down">>
                 [] event = "Recovered" -> rest \o <<"recovered">>
    /\ \/ /\ CASE event = "None" -> UNCHANGED <<incVars, alerts>>
               [] event = "Down" -> OpenIncident
               [] event = "Recovered" -> ResolveIncident
          /\ UNCHANGED dbErrors
       \/ /\ event # "None"
          /\ dbErrors < MaxDbErrors /\ dbErrors' = dbErrors + 1
          /\ UNCHANGED <<incVars, alerts>>

\* The end of handleResult.
ObserveResult ==
    /\ todo # <<>> /\ Head(todo) = "observe"
    /\ Commit(Observe(engine, current.region,
                      [up |-> current.up, age |-> current.age]),
              0, Tail(todo))
    /\ current' = NoResult
    /\ UNCHANGED <<dbVars, checks, running, known, warnVars, inflight, site,
                   mailVars, boundVars>>

\* One round of tickLoop, with the instant the ticker fired.
TickLoop(lag) ==
    /\ running /\ known /\ todo = <<>>
    /\ Commit(engine, lag, <<>>)
    /\ UNCHANGED <<dbVars, checks, running, known, warnVars, current, inflight,
                   site, mailVars, boundVars>>

\* Every notifier gets the event.
SendAlert(kind) ==
    /\ alerts' = IF kind \in {"down", "recovered"}
                 THEN [alerts EXCEPT ![kind] = Count(@)] ELSE alerts
    /\ certMails' = IF kind = "cert" THEN Count(certMails) ELSE certMails
    /\ slowMails' = IF kind = "slow" THEN Count(slowMails) ELSE slowMails

\* notify: suppressed while the monitor is muted, sent when the mute cannot
\* be read.
Notify ==
    /\ todo # <<>> /\ Head(todo) \in Kind
    /\ todo' = Tail(todo)
    /\ \/ /\ IF muted THEN UNCHANGED <<alerts, mailVars>>
             ELSE SendAlert(Head(todo))
          /\ UNCHANGED dbErrors
       \/ /\ dbErrors < MaxDbErrors /\ dbErrors' = dbErrors + 1
          /\ SendAlert(Head(todo))
    /\ UNCHANGED <<dbVars, incVars, checks, running, known, engine, warnVars,
                   current, inflight, site, boundVars>>

-----------------------------------------------------------------------------
(* The process dies and starts again *)

Crash ==
    /\ running /\ crashes < MaxCrashes /\ crashes' = crashes + 1
    /\ running' = FALSE /\ known' = FALSE
    /\ engine' = NewMonitor(TRUE)
    /\ certAlerted' = FALSE /\ slowStreak' = 0 /\ slowAlerted' = FALSE
    /\ current' = NoResult /\ todo' = <<>> /\ inflight' = {}
    /\ certMails' = 0 /\ slowMails' = 0
    /\ UNCHANGED <<dbVars, incVars, checks, site, alerts, flips, admin,
                   dbErrors>>

\* Mutant of Start: the engine is not seeded from the database.
StartUnseeded ==
    /\ ~running /\ running' = TRUE
    /\ known' = (row = "enabled") /\ engine' = NewMonitor(TRUE)
    /\ UNCHANGED <<dbVars, incVars, checks, warnVars, current, todo, inflight,
                   site, alerts, mailVars, boundVars, dbErrors>>

\* main: the enabled monitors are seeded; HasOpenIncident reads as false when
\* it fails.
Start ==
    /\ ~running /\ running' = TRUE
    /\ known' = (row = "enabled")
    /\ \/ /\ engine' = NewMonitor(row = "enabled" => open = 0)
          /\ UNCHANGED dbErrors
       \/ /\ row = "enabled"
          /\ dbErrors < MaxDbErrors /\ dbErrors' = dbErrors + 1
          /\ engine' = NewMonitor(TRUE)
    /\ UNCHANGED <<dbVars, incVars, checks, warnVars, current, todo, inflight,
                   site, alerts, mailVars, boundVars>>

-----------------------------------------------------------------------------
(* The other writers of the database *)

Administers == admin < MaxAdmin /\ admin' = admin + 1

\* The web form, or the scheduler's seed, inserts the monitor.
CreateMonitor ==
    /\ Administers /\ row = "none" /\ row' = "enabled"
    /\ UNCHANGED <<muted, certExpiry, incVars, checks, running, known, engine,
                   warnVars, current, todo, inflight, site, alerts, mailVars,
                   flips, crashes, dbErrors>>

\* The seed updates the enabled flag of a system monitor.
UpsertMonitor ==
    /\ Administers /\ ~Owned /\ RowExists
    /\ row' = IF row = "enabled" THEN "disabled" ELSE "enabled"
    /\ UNCHANGED <<muted, certExpiry, incVars, checks, running, known, engine,
                   warnVars, current, todo, inflight, site, alerts, mailVars,
                   flips, crashes, dbErrors>>

\* The owner mutes or unmutes, or the mute runs out.
SetMuted ==
    /\ Administers /\ Owned /\ row = "enabled"
    /\ muted' = ~muted
    /\ UNCHANGED <<row, certExpiry, incVars, checks, running, known, engine,
                   warnVars, current, todo, inflight, site, alerts, mailVars,
                   flips, crashes, dbErrors>>

\* One transaction removes the checks, the incidents and the row.
DeleteMonitor ==
    /\ Administers /\ Owned /\ row = "enabled"
    /\ row' = "gone" /\ muted' = FALSE /\ certExpiry' = "none"
    /\ open' = 0 /\ resolved' = FALSE /\ checks' = FALSE
    /\ UNCHANGED <<running, known, engine, warnVars, current, todo, inflight,
                   site, alerts, mailVars, flips, crashes, dbErrors>>

-----------------------------------------------------------------------------
Init ==
    /\ row \in {"none", "enabled"} /\ muted = FALSE /\ certExpiry = "none"
    /\ open = 0 /\ resolved = FALSE /\ checks = FALSE
    /\ running = TRUE /\ known = (row = "enabled")
    /\ engine = NewMonitor(TRUE)
    /\ certAlerted = FALSE /\ slowStreak = 0 /\ slowAlerted = FALSE
    /\ current = NoResult /\ todo = <<>> /\ inflight = {}
    /\ site = [r \in Region |-> TRUE]
    /\ alerts = NoAlerts /\ certMails = 0 /\ slowMails = 0
    /\ flips = 0 /\ admin = 0 /\ crashes = 0 /\ dbErrors = 0

\* The holder of e.mu goes on.
Proceed == CheckCert \/ CheckSlow \/ ObserveResult \/ Notify

Environment ==
    \/ \E r \in Region : Flip(r) \/ Publish(r)
    \/ \E m \in inflight : Lose(m)
    \/ Elapse

Process ==
    \/ \E m \in inflight : Receive(m)
    \/ Lock
    \/ Proceed
    \/ \E lag \in 0..MaxLag : TickLoop(lag)
    \/ Crash
    \/ Start

Admin == CreateMonitor \/ UpsertMonitor \/ SetMuted

Next == Environment \/ Process \/ Admin

Spec == Init /\ [][Next]_vars

\* Monitors may be deleted as well.
DeleteNext == Next \/ DeleteMonitor
DeleteSpec == Init /\ [][DeleteNext]_vars

\* The evaluator is scheduled and supervised; time passes; every region keeps
\* checking, and not all of its results are lost.
Fairness ==
    /\ WF_vars(Proceed) /\ WF_vars(Lock) /\ WF_vars(Start)
    /\ WF_vars(TickLoop(0)) /\ WF_vars(Elapse)
    /\ \A r \in Region :
          /\ WF_vars(Publish(r))
          /\ SF_vars(\E m \in inflight : m.region = r /\ Receive(m))
FairSpec == Spec /\ Fairness

-----------------------------------------------------------------------------
\* Type correctness of the database, the process and the messages.
TypeOK ==
    /\ row \in {"none", "enabled", "disabled", "gone"} /\ muted \in BOOLEAN
    /\ open \in Nat /\ resolved \in BOOLEAN /\ checks \in BOOLEAN
    /\ certExpiry \in {"none", "ok", "near"}
    /\ running \in BOOLEAN /\ known \in BOOLEAN /\ engine \in Monitor
    /\ certAlerted \in BOOLEAN
    /\ slowStreak \in 0..SlowStreakToAlert /\ slowAlerted \in BOOLEAN
    /\ current \in Result \cup {NoResult} /\ todo \in Seq(StepName)
    /\ inflight \subseteq Result /\ site \in [Region -> BOOLEAN]
    /\ alerts \in [down : 0..2, recovered : 0..2]
    /\ certMails \in 0..2 /\ slowMails \in 0..2
    /\ flips \in Nat /\ admin \in Nat /\ crashes \in Nat /\ dbErrors \in Nat

\* "A restart mid-outage doesn't open a duplicate incident": a monitor never
\* has two unresolved incidents.
OneOpenIncident == open <= 1

\* The engine and the database agree whenever the lock is free: the committed
\* state of a monitor that is not deleted is down exactly while an incident is
\* open.
EngineMatchesIncident ==
    running /\ known /\ todo = <<>> /\ row # "gone"
       => (engine.confirmedUp <=> open = 0)

\* The evaluator implements the incident life cycle of module Incidents:
\* across crashes, mutes and the deletion of the monitor, incidents do not
\* overlap, and an alert is sent at most once, after its row is written.
\* What is sent about a monitor already deleted is not counted.
Lifecycle == INSTANCE Incidents WITH
                alerts <- IF row = "gone" THEN NoAlerts ELSE alerts
IncidentLifecycle == Lifecycle!Spec

\* What every region sees of the site, from some point on.
SettledDown == row = "enabled" /\ \A r \in Region : ~site[r]
SettledUp == row = "enabled" /\ \A r \in Region : site[r]

\* An outage every region sees is recorded in the end and stays recorded, and
\* so is a recovery, whatever results are lost, delayed or cut off by crashes,
\* unless the database failed.
IncidentsEventuallyAccurate ==
    /\ <>[](SettledDown /\ dbErrors = 0) => <>[](open = 1)
    /\ <>[](SettledUp /\ dbErrors = 0) => <>[](open = 0)

\* The engine's committed state follows the site also when database calls
\* fail: an error loses a row, never the decision.
EngineEventuallyAccurate ==
    /\ <>[]SettledDown => <>[](known /\ ~engine.confirmedUp)
    /\ <>[]SettledUp => <>[](known /\ engine.confirmedUp)

\* The slow warning: a process sends at most one per slow spell, and only after
\* three slow results in a row.
OneSlowWarning ==
    slowMails <= 1 /\ (slowMails = 1 => slowStreak >= SlowStreakToAlert)

\* The certificate warning: a process sends at most one until the certificate
\* is renewed.
OneCertWarning == certMails <= 1

\* A deleted monitor has no incidents, and none comes back from an evaluator
\* that still knows it.
DeletedHasNoIncident == row = "gone" => open = 0 /\ ~resolved
=============================================================================
