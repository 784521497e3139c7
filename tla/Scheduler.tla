----------------------------- MODULE Scheduler ------------------------------
(***************************************************************************)
(* cmd/scheduler: the monitors table is reconciled with one publish loop   *)
(* per enabled monitor, and every loop publishes check jobs on NATS.  Rows *)
(* come from the configuration file, which the scheduler and the v1 binary *)
(* (cmd/monitor) seed when they start, and from the web form.              *)
(*                                                                         *)
(* A row keeps what the scheduler tells apart: `interval`, which stands    *)
(* for every field `changed` compares, `keyword`, which stands for the     *)
(* fields of a job that it does not compare, and `enabled`.  Tickers have  *)
(* no clock: a loop may publish, and reconcile may run, at any time.       *)
(***************************************************************************)
EXTENDS Integers, FiniteSets

CONSTANTS
    Seeded,      \* monitors of the configuration file (user_id IS NULL)
    Owned,       \* monitors of the web form; an id is used once (BIGSERIAL)
    Keyword,     \* keywords, "" for none
    Entry,       \* what people write in the file or the form
    None,        \* no row, no entry, no snapshot, no job
    MaxJobs,     \* bound: jobs of a monitor in NATS at once
    MaxEvents    \* bound: edits, additions, starts of the v1 binary, faults

Monitors == Seeded \cup Owned
Process  == {"scheduler", "monitor"}

Row  == [interval : Int \ {0}, keyword : Keyword, enabled : BOOLEAN]
Loop == [id : Monitors, row : Row, started : BOOLEAN, cancelled : BOOLEAN]
Job  == [id : Monitors, row : Row]

ASSUME SchedulerAssumption ==
    /\ Seeded \cap Owned = {}
    /\ Entry \subseteq [interval : Int, keyword : Keyword, enabled : BOOLEAN]
    /\ None \notin Row /\ None \notin Job /\ None \notin Entry
    /\ None \notin [Monitors -> Row \cup {None}]
    /\ MaxJobs \in Nat /\ MaxEvents \in Nat

VARIABLES
    table,     \* the monitors table
    used,      \* the web form's ids that have been handed out
    file,      \* the configuration file
    seeding,   \* per process: the entries it has read and not yet upserted
    up,        \* is the scheduler running?
    fetched,   \* what EnabledMonitors returned, until syncOnce has used it
    running,   \* the map `running`: the row each watched monitor has
    loops,     \* the publishLoop goroutines
    jobs,      \* check jobs in NATS
    events     \* how much of MaxEvents is used

tableVars == <<table, used>>
procVars  == <<up, fetched, running, loops>>
schedVars == <<tableVars, file, seeding, procVars, jobs>>

Nothing == [m \in Monitors |-> None]
NoSeed  == [m \in Seeded |-> None]

\* Mutant of ToStoreMonitor: the schema's default is left to the schema.
ToStoreMonitorNoDefault(e) == e

\* toStoreMonitor: an omitted interval becomes 30, any other is kept as it is
ToStoreMonitor(e) ==
    [e EXCEPT !.interval = IF @ = 0 THEN 30 ELSE @]

\* the interval the web form stores
FormInterval(i) == IF i > 0 THEN i ELSE 30

SchedInit ==
    /\ table = Nothing
    /\ used = {}
    /\ file \in [Seeded -> Entry \cup {None}]
    /\ seeding = [p \in Process |-> NoSeed]
    /\ up = FALSE
    /\ fetched = None
    /\ running = Nothing
    /\ loops = {}
    /\ jobs = {}
    /\ events = 0

-----------------------------------------------------------------------------
(***************************************************************************)
(* Starting: config.Load, then one upsert per entry                        *)
(***************************************************************************)

\* Something happens to the system that it does not do by itself.
Event == events < MaxEvents /\ events' = events + 1

\* Load and StoreMonitors.  Load refuses a file without monitors, which the
\* scheduler tolerates and the v1 binary does not.
Load ==
    [m \in Seeded |->
       IF file[m] = None THEN None ELSE ToStoreMonitor(file[m])]

StartScheduler ==
    /\ ~up
    /\ up' = TRUE
    /\ seeding' = [seeding EXCEPT !["scheduler"] = Load]
    /\ UNCHANGED <<tableVars, file, fetched, running, loops, jobs, events>>

StartMonitor ==
    /\ seeding["monitor"] = NoSeed /\ file # NoSeed
    /\ Event
    /\ seeding' = [seeding EXCEPT !["monitor"] = Load]
    /\ UNCHANGED <<tableVars, file, procVars, jobs>>

\* UpsertMonitor: insert the row of that name, or overwrite it
UpsertMonitor(p, m) ==
    /\ seeding[p][m] # None
    /\ table' = [table EXCEPT ![m] = seeding[p][m]]
    /\ seeding' = [seeding EXCEPT ![p][m] = None]
    /\ UNCHANGED <<used, file, procVars, jobs, events>>

\* The scheduler dies: every goroutine and every map is gone.
Died ==
    /\ up' = FALSE
    /\ fetched' = None
    /\ running' = Nothing
    /\ loops' = {}

\* A failing upsert ends the process (log.Fatalf); earlier ones stay.
UpsertFails(p) ==
    /\ seeding[p] # NoSeed
    /\ Event
    /\ seeding' = [seeding EXCEPT ![p] = NoSeed]
    /\ IF p = "scheduler" THEN Died ELSE UNCHANGED procVars
    /\ UNCHANGED <<tableVars, file, jobs>>

-----------------------------------------------------------------------------
(***************************************************************************)
(* reconcile                                                               *)
(***************************************************************************)

Reconciling == up /\ seeding["scheduler"] = NoSeed

\* EnabledMonitors, the query at the head of syncOnce.  When it fails syncOnce
\* returns and nothing has changed.
EnabledMonitors ==
    /\ Reconciling /\ fetched = None
    /\ fetched' = [m \in Monitors |->
                     IF table[m] # None /\ table[m].enabled THEN table[m]
                     ELSE None]
    /\ UNCHANGED <<tableVars, file, seeding, up, running, loops, jobs, events>>

\* Mutant of Changed: no field is compared.
ChangedNever(old, new) == FALSE

\* changed: of the fields a job carries, the keyword is not compared
Changed(old, new) == old.interval # new.interval

\* Mutant of Cancels: removed monitors are not looked for.
CancelsChanged(m) ==
    running[m] # None /\ fetched[m] # None /\ Changed(running[m], fetched[m])

\* monitors whose loop has to end, and those that need a new one
Cancels(m) ==
    /\ running[m] # None
    /\ \/ fetched[m] = None
       \/ Changed(running[m], fetched[m])
Starts(m) ==
    /\ fetched[m] # None
    /\ \/ running[m] = None
       \/ Changed(running[m], fetched[m])

NewLoop(m) ==
    [id |-> m, row |-> fetched[m], started |-> FALSE, cancelled |-> FALSE]

Watched ==
    [m \in Monitors |-> IF Starts(m) THEN fetched[m]
                        ELSE IF Cancels(m) THEN None ELSE running[m]]

\* Mutant of SyncOnce: a restarted monitor keeps its old loop as well.
SyncOnceNoCancel ==
    /\ Reconciling /\ fetched # None
    /\ loops' = loops \cup {NewLoop(m) : m \in {x \in Monitors : Starts(x)}}
    /\ running' = Watched
    /\ fetched' = None
    /\ UNCHANGED <<tableVars, file, seeding, up, jobs, events>>

\* The rest of syncOnce: no call out, and only this goroutine uses the map.
SyncOnce ==
    /\ Reconciling /\ fetched # None
    /\ loops' = {IF Cancels(l.id) THEN [l EXCEPT !.cancelled = TRUE] ELSE l :
                   l \in loops}
                \cup {NewLoop(m) : m \in {x \in Monitors : Starts(x)}}
    /\ running' = Watched
    /\ fetched' = None
    /\ UNCHANGED <<tableVars, file, seeding, up, jobs, events>>

-----------------------------------------------------------------------------
(***************************************************************************)
(* publishLoop                                                             *)
(***************************************************************************)

\* Two equal goroutines (both cancelled) behave as one, and two equal jobs in
\* flight as one: loops and jobs are sets.
Publish(l) ==
    LET job == [id |-> l.id, row |-> l.row] IN
    /\ Cardinality({j \in jobs : j.id = l.id} \cup {job}) <= MaxJobs
    /\ jobs' = jobs \cup {job}

\* NewTicker, and the job that is published before the first select - also
\* by a loop that was cancelled before it ran.
LoopBegins(l) ==
    /\ l \in loops /\ ~l.started
    /\ l.row.interval > 0
    /\ Publish(l)
    /\ loops' = (loops \ {l}) \cup {[l EXCEPT !.started = TRUE]}
    /\ UNCHANGED <<tableVars, file, seeding, up, fetched, running, events>>

\* NewTicker panics, and a panic in one goroutine ends the process.
LoopPanics(l) ==
    /\ l \in loops /\ ~l.started
    /\ l.row.interval <= 0
    /\ Died
    /\ UNCHANGED <<tableVars, file, seeding, jobs, events>>

\* A tick.  When the loop is cancelled too, select may take either case.
LoopTick(l) ==
    /\ l \in loops /\ l.started
    /\ Publish(l)
    /\ UNCHANGED <<tableVars, file, seeding, procVars, events>>

LoopEnds(l) ==
    /\ l \in loops /\ l.started /\ l.cancelled
    /\ loops' = loops \ {l}
    /\ UNCHANGED <<tableVars, file, seeding, up, fetched, running, jobs, events>>

-----------------------------------------------------------------------------
(***************************************************************************)
(* Faults and the outside world                                            *)
(***************************************************************************)

\* The process is killed, or told to stop, at any point: on SIGTERM the loops
\* may publish until main returns, and what they hold is gone then.
Crash ==
    /\ up /\ Event
    /\ Died
    /\ seeding' = [seeding EXCEPT !["scheduler"] = NoSeed]
    /\ UNCHANGED <<tableVars, file, jobs>>

\* An entry is written, changed or taken out of the configuration file.
EditConfig(m) ==
    /\ Event
    /\ \E e \in Entry \cup {None} : file' = [file EXCEPT ![m] = e]
    /\ UNCHANGED <<tableVars, seeding, procVars, jobs>>

\* the web form; the row is enabled and its interval positive
CreateMonitor(m) ==
    /\ m \in Owned \ used
    /\ Event
    /\ used' = used \cup {m}
    /\ \E e \in Entry :
          table' = [table EXCEPT ![m] = [interval |-> FormInterval(e.interval),
                                         keyword |-> e.keyword,
                                         enabled |-> TRUE]]
    /\ UNCHANGED <<file, seeding, procVars, jobs>>

DeleteMonitor(m) ==
    /\ m \in Owned /\ table[m] # None
    /\ Event
    /\ table' = [table EXCEPT ![m] = None]
    /\ UNCHANGED <<used, file, seeding, procVars, jobs>>

-----------------------------------------------------------------------------
SchedNext ==
    \/ StartScheduler \/ StartMonitor
    \/ \E p \in Process : UpsertFails(p)
    \/ \E p \in Process, m \in Seeded : UpsertMonitor(p, m)
    \/ EnabledMonitors \/ SyncOnce \/ Crash
    \/ \E l \in loops :
          LoopBegins(l) \/ LoopPanics(l) \/ LoopTick(l) \/ LoopEnds(l)
    \/ \E m \in Seeded : EditConfig(m)
    \/ \E m \in Owned : CreateMonitor(m) \/ DeleteMonitor(m)
=============================================================================
