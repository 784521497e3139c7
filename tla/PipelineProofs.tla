--------------------------- MODULE PipelineProofs ---------------------------
(***************************************************************************)
(* Theorems about the scheduler and the checkers, for every set of         *)
(* monitors, configurations and regions and without any bound on events.   *)
(***************************************************************************)
EXTENDS Pipeline, TLAPS

\* What the configuration file and the web form store is a row.
LEMMA StoredRows ==
    ASSUME NEW e \in Entry
    PROVE  /\ ToStoreMonitor(e) \in Row
           /\ [interval |-> FormInterval(e.interval), keyword |-> e.keyword,
               enabled |-> TRUE] \in Row
<1>1. e \in [interval : Int, keyword : Keyword, enabled : BOOLEAN]
  BY SchedulerAssumption
<1>2. ToStoreMonitor(e) \in Row
  BY <1>1 DEF ToStoreMonitor, Row
<1>3. FormInterval(e.interval) \in Int \ {0}
  BY <1>1 DEF FormInterval
<1> QED BY <1>1, <1>2, <1>3 DEF Row

\* Seeded and owned monitors are monitors.
LEMMA MonitorSets == Seeded \subseteq Monitors /\ Owned \subseteq Monitors
BY DEF Monitors

\* The part of TypeOK about the scheduler.
SchedType ==
    /\ table \in [Monitors -> Row \cup {None}]
    /\ used \subseteq Owned
    /\ file \in [Seeded -> Entry \cup {None}]
    /\ seeding \in [Process -> [Seeded -> Row \cup {None}]]
    /\ up \in BOOLEAN
    /\ fetched \in [Monitors -> Row \cup {None}] \cup {None}
    /\ running \in [Monitors -> Row \cup {None}]
    /\ loops \subseteq Loop
    /\ jobs \subseteq Job
    /\ events \in Nat

\* The part of TypeOK about the checkers.
CheckType ==
    /\ checker \in [Region -> {"up", "stopping", "down"}]
    /\ checking \in [Region -> Job \cup {None}]
    /\ site \in Site
    /\ verdict \in [Monitors -> {"none", "up", "down"}]

\* Every step of the scheduler, and of what is around it, keeps its types.
LEMMA SchedTypeStep == SchedType /\ SchedNext => SchedType'
<1> SUFFICES ASSUME SchedType, SchedNext PROVE SchedType'
  OBVIOUS
<1> USE DEF SchedType
<1>1. ASSUME StartScheduler PROVE SchedType'
  <2>1. Load \in [Seeded -> Row \cup {None}]
    BY StoredRows DEF Load
  <2> QED BY <1>1, <2>1 DEF StartScheduler, tableVars, Process
<1>2. ASSUME StartMonitor PROVE SchedType'
  <2>1. Load \in [Seeded -> Row \cup {None}]
    BY StoredRows DEF Load
  <2> QED BY <1>2, <2>1 DEF StartMonitor, Event, tableVars, procVars, Process
<1>3. ASSUME NEW p \in Process, UpsertFails(p) PROVE SchedType'
  <2>1. NoSeed \in [Seeded -> Row \cup {None}]
    BY DEF NoSeed
  <2>2. Nothing \in [Monitors -> Row \cup {None}]
    BY DEF Nothing
  <2>3. UNCHANGED procVars \/ Died
    BY <1>3 DEF UpsertFails
  <2>4. /\ up' \in BOOLEAN
        /\ fetched' \in [Monitors -> Row \cup {None}] \cup {None}
        /\ running' \in [Monitors -> Row \cup {None}]
        /\ loops' \subseteq Loop
    BY <2>2, <2>3 DEF Died, procVars
  <2> QED BY <1>3, <2>1, <2>4 DEF UpsertFails, Event, tableVars
<1>4. ASSUME NEW p \in Process, NEW m \in Seeded, UpsertMonitor(p, m)
      PROVE  SchedType'
  <2>1. seeding[p][m] \in Row
    BY <1>4 DEF UpsertMonitor
  <2>2. table' \in [Monitors -> Row \cup {None}]
    BY <1>4, <2>1, MonitorSets DEF UpsertMonitor
  <2>3. seeding' \in [Process -> [Seeded -> Row \cup {None}]]
    BY <1>4 DEF UpsertMonitor
  <2> QED BY <1>4, <2>2, <2>3 DEF UpsertMonitor, procVars
<1>5. ASSUME EnabledMonitors PROVE SchedType'
  BY <1>5 DEF EnabledMonitors, tableVars
<1>6. ASSUME SyncOnce PROVE SchedType'
  <2>1. fetched \in [Monitors -> Row \cup {None}]
    BY <1>6 DEF SyncOnce
  <2>2. running' \in [Monitors -> Row \cup {None}]
    BY <1>6, <2>1 DEF SyncOnce, Watched
  <2>3. ASSUME NEW m \in Monitors, Starts(m) PROVE NewLoop(m) \in Loop
    BY <2>1, <2>3 DEF Starts, NewLoop, Loop
  <2>4. ASSUME NEW l \in loops
        PROVE  l \in Loop /\ [l EXCEPT !.cancelled = TRUE] \in Loop
    BY DEF Loop
  <2>5. loops' \subseteq Loop
    BY <1>6, <2>3, <2>4 DEF SyncOnce
  <2> QED BY <1>6, <2>2, <2>5 DEF SyncOnce, tableVars
<1>7. ASSUME Crash PROVE SchedType'
  <2>1. NoSeed \in [Seeded -> Row \cup {None}]
    BY DEF NoSeed
  <2>2. /\ up' \in BOOLEAN
        /\ fetched' \in [Monitors -> Row \cup {None}] \cup {None}
        /\ running' \in [Monitors -> Row \cup {None}]
        /\ loops' \subseteq Loop
    BY <1>7 DEF Crash, Died, Nothing
  <2>3. seeding' \in [Process -> [Seeded -> Row \cup {None}]]
    BY <1>7, <2>1 DEF Crash
  <2> QED BY <1>7, <2>2, <2>3 DEF Crash, Event, tableVars
<1>8. ASSUME NEW l \in loops,
             LoopBegins(l) \/ LoopPanics(l) \/ LoopTick(l) \/ LoopEnds(l)
      PROVE  SchedType'
  <2>1. l \in Loop /\ [id |-> l.id, row |-> l.row] \in Job
        /\ [l EXCEPT !.started = TRUE] \in Loop
    BY DEF Loop, Job
  <2>2. CASE LoopBegins(l)
    BY <2>1, <2>2 DEF LoopBegins, Publish, tableVars
  <2>3. CASE LoopPanics(l)
    BY <2>3 DEF LoopPanics, Died, Nothing, tableVars
  <2>4. CASE LoopTick(l)
    BY <2>1, <2>4 DEF LoopTick, Publish, tableVars, procVars
  <2>5. CASE LoopEnds(l)
    BY <2>5 DEF LoopEnds, tableVars
  <2> QED BY <1>8, <2>2, <2>3, <2>4, <2>5
<1>9. ASSUME NEW m \in Seeded, EditConfig(m) PROVE SchedType'
  BY <1>9 DEF EditConfig, Event, tableVars, procVars
<1>10. ASSUME NEW m \in Owned, CreateMonitor(m) \/ DeleteMonitor(m)
       PROVE  SchedType'
  <2>1. CASE CreateMonitor(m)
    <3>1. table' \in [Monitors -> Row \cup {None}]
      BY <2>1, StoredRows, MonitorSets DEF CreateMonitor
    <3> QED BY <2>1, <3>1 DEF CreateMonitor, Event, procVars
  <2>2. CASE DeleteMonitor(m)
    BY <2>2, MonitorSets DEF DeleteMonitor, Event, procVars
  <2> QED BY <1>10, <2>1, <2>2
<1> QED BY <1>1, <1>2, <1>3, <1>4, <1>5, <1>6, <1>7, <1>8, <1>9, <1>10
        DEF SchedNext

\* The checkers' steps leave the scheduler alone but for taking jobs.
LEMMA CheckTypeStep ==
    ASSUME SchedType, CheckType, Next
    PROVE  SchedType' /\ CheckType'
<1> USE DEF CheckType
<1>1. CASE SchedNext /\ UNCHANGED checkVars
  BY <1>1, SchedTypeStep DEF checkVars
<1>2. ASSUME NEW r \in Region, NEW j \in jobs, TakeJob(r, j)
      PROVE  SchedType' /\ CheckType'
  BY <1>2 DEF TakeJob, SchedType, tableVars, procVars
<1>3. ASSUME NEW j \in jobs, LoseJob(j) PROVE SchedType' /\ CheckType'
  <2>1. events' \in Nat
    BY <1>3 DEF LoseJob, Event, SchedType
  <2> QED BY <1>3, <2>1 DEF LoseJob, SchedType, tableVars, procVars, checkVars
<1>4. ASSUME NEW r \in Region, FinishCheck(r) PROVE SchedType' /\ CheckType'
  <2>1. checking[r] \in Job
    BY <1>4 DEF FinishCheck
  <2>2. PICK v \in {"up", "down"} :
            verdict' = [verdict EXCEPT ![checking[r].id] = v]
    BY <1>4 DEF FinishCheck, Do
  <2>3. verdict' \in [Monitors -> {"none", "up", "down"}]
    BY <2>1, <2>2 DEF Job
  <2>4. SchedType'
    BY <1>4 DEF FinishCheck, SchedType, schedVars, tableVars, procVars
  <2> QED BY <1>4, <2>3, <2>4 DEF FinishCheck
<1>5. ASSUME NEW r \in Region,
             StartChecker(r) \/ Terminate(r) \/ Exit(r) \/ Kill(r)
      PROVE  SchedType' /\ CheckType'
  <2>1. UNCHANGED schedVars /\ (Event \/ UNCHANGED events)
    BY <1>5 DEF StartChecker, Terminate, Exit, Kill
  <2>2. SchedType'
    BY <2>1 DEF Event, SchedType, schedVars, tableVars, procVars
  <2>3. CheckType'
    BY <1>5 DEF StartChecker, Terminate, Exit, Kill
  <2> QED BY <2>2, <2>3
<1>6. CASE Flip
  <2>1. SchedType'
    BY <1>6 DEF Flip, Event, SchedType, schedVars, tableVars, procVars
  <2> QED BY <1>6, <2>1 DEF Flip
<1> QED BY <1>1, <1>2, <1>3, <1>4, <1>5, <1>6 DEF Next

\* Type correctness of the pipeline; in particular no row is stored with the
\* interval zero (toStoreMonitor, and the web form).
THEOREM PipelineTypes == Spec => []TypeOK
<1>1. TypeOK <=> SchedType /\ CheckType
  BY DEF TypeOK, SchedType, CheckType
<1>2. Init => TypeOK
  <2> SUFFICES ASSUME Init PROVE TypeOK
    OBVIOUS
  <2>1. /\ Nothing \in [Monitors -> Row \cup {None}]
        /\ NoSeed \in [Seeded -> Row \cup {None}]
    BY DEF Nothing, NoSeed
  <2>2. SchedType
    BY <2>1 DEF Init, SchedInit, SchedType
  <2>3. Keyword \in Site
    <3>1. Keyword = Keyword \cup {""}
      BY PipelineAssumption
    <3> QED BY <3>1 DEF Site
  <2>4. CheckType
    BY <2>3 DEF Init, CheckType
  <2> QED BY <1>1, <2>2, <2>4
<1>3. TypeOK /\ [Next]_vars => TypeOK'
  <2>1. CASE Next
    BY <1>1, <2>1, CheckTypeStep DEF TypeOK, SchedType, CheckType
  <2>2. CASE UNCHANGED vars
    BY <2>2 DEF TypeOK, vars, schedVars, tableVars, procVars, checkVars
  <2> QED BY <2>1, <2>2
<1> QED BY <1>2, <1>3, PTL DEF Spec

-----------------------------------------------------------------------------
\* One loop of a monitor that is not cancelled, the clause of
\* OneLoopPerMonitor for one monitor.
OneLoop(m) ==
    LET live == {l \in loops : l.id = m /\ ~l.cancelled} IN
    IF running[m] = None THEN live = {}
    ELSE \E l \in live : live = {l} /\ l.row = running[m]

\* syncOnce keeps the map and the goroutines together for every monitor.
LEMMA SyncKeepsOneLoop ==
    ASSUME SchedType, SyncOnce, NEW m \in Monitors, OneLoop(m)
    PROVE  OneLoop(m)'
<1> DEFINE live == {l \in loops : l.id = m /\ ~l.cancelled}
           live2 == {l \in loops' : l.id = m /\ ~l.cancelled}
<1>1. loops \subseteq Loop /\ loops' = 
         {IF Cancels(l.id) THEN [l EXCEPT !.cancelled = TRUE] ELSE l :
            l \in loops} \cup {NewLoop(x) : x \in {y \in Monitors : Starts(y)}}
  BY DEF SyncOnce, SchedType
<1>2. ASSUME NEW l \in loops
      PROVE  /\ [l EXCEPT !.cancelled = TRUE].cancelled
             /\ [l EXCEPT !.cancelled = TRUE].id = l.id
  BY <1>1 DEF Loop
<1>3. /\ running'[m] = IF Starts(m) THEN fetched[m]
                       ELSE IF Cancels(m) THEN None ELSE running[m]
      /\ \A x \in Monitors : NewLoop(x).id = x /\ ~NewLoop(x).cancelled
      /\ NewLoop(m).row = fetched[m]
  BY DEF SyncOnce, Watched, NewLoop
\* what is live afterwards was live and not to be cancelled, or is new
<1>4. ASSUME NEW k \in live2
      PROVE  \/ k \in live /\ ~Cancels(m)
             \/ k = NewLoop(m) /\ Starts(m)
  <2>1. k \in loops' /\ k.id = m /\ ~k.cancelled
    OBVIOUS
  <2>2. CASE \E x \in Monitors : Starts(x) /\ k = NewLoop(x)
    BY <2>1, <2>2, <1>3
  <2>3. CASE \E l \in loops : k = IF Cancels(l.id)
                                 THEN [l EXCEPT !.cancelled = TRUE] ELSE l
    <3>1. PICK l \in loops : k = IF Cancels(l.id)
                                THEN [l EXCEPT !.cancelled = TRUE] ELSE l
      BY <2>3
    <3>2. ~Cancels(l.id) /\ k = l
      BY <3>1, <1>2, <2>1
    <3> QED BY <3>2, <2>1
  <2> QED BY <1>1, <2>1, <2>2, <2>3
<1>5. ASSUME Starts(m) PROVE NewLoop(m) \in live2
  <2>1. NewLoop(m) \in loops'
    BY <1>1, <1>5
  <2> QED BY <2>1, <1>3
<1>6. ASSUME NEW k \in live, ~Cancels(m) PROVE k \in live2
  <2>1. k \in loops'
    BY <1>1, <1>6
  <2> QED BY <2>1
<1> HIDE DEF live, live2
<1>7. CASE Starts(m)
  <2>1. Cancels(m) \/ live = {}
    BY <1>7 DEF Starts, Cancels, OneLoop, live
  <2>2. live2 = {NewLoop(m)}
    BY <1>7, <1>4, <1>5, <2>1
  <2>3. running'[m] # None
    BY <1>3, <1>7 DEF Starts
  <2> QED BY <1>3, <1>7, <2>2, <2>3 DEF OneLoop, live2
<1>8. CASE ~Starts(m) /\ Cancels(m)
  <2>1. live2 = {}
    BY <1>8, <1>4
  <2> QED BY <1>3, <1>8, <2>1 DEF OneLoop, live2
<1>9. CASE ~Starts(m) /\ ~Cancels(m)
  <2>1. live2 = live
    BY <1>9, <1>4, <1>6
  <2> QED BY <1>3, <1>9, <2>1 DEF OneLoop, live, live2
<1> QED BY <1>7, <1>8, <1>9

\* The steps that neither synchronise nor end the process.
LEMMA LoopsKeepOneLoop ==
    ASSUME SchedType, NEW m \in Monitors, OneLoop(m), NEW l \in loops,
           LoopBegins(l) \/ LoopEnds(l)
    PROVE  OneLoop(m)'
<1> DEFINE live == {k \in loops : k.id = m /\ ~k.cancelled}
           live2 == {k \in loops' : k.id = m /\ ~k.cancelled}
           s == [l EXCEPT !.started = TRUE]
<1>1. l \in Loop /\ s.id = l.id /\ s.cancelled = l.cancelled /\ s.row = l.row
      /\ l.cancelled \in BOOLEAN /\ running' = running
  BY DEF SchedType, Loop, LoopBegins, LoopEnds
<1>2. CASE LoopEnds(l)
  <2>1. live2 = live
    BY <1>2 DEF LoopEnds
  <2> QED BY <1>1, <2>1 DEF OneLoop
<1>3. CASE LoopBegins(l) /\ l \notin live
  <2>1. live2 = live
    BY <1>1, <1>3 DEF LoopBegins
  <2> QED BY <1>1, <2>1 DEF OneLoop
<1>4. CASE LoopBegins(l) /\ l \in live
  <2>1. live = {l} /\ l.row = running[m] /\ running[m] # None
    BY <1>4 DEF OneLoop
  <2>2. live2 = {s}
    BY <1>1, <1>4, <2>1 DEF LoopBegins
  <2> QED BY <1>1, <2>1, <2>2 DEF OneLoop
<1> QED BY <1>2, <1>3, <1>4

\* A monitor the scheduler watches has exactly one live publish loop, which
\* publishes the row the scheduler compares with; the others have none
\* (reconcile in cmd/scheduler).
THEOREM OneLoopAlways == Spec => []OneLoopPerMonitor
<1>1. OneLoopPerMonitor <=> \A m \in Monitors : OneLoop(m)
  BY DEF OneLoopPerMonitor, OneLoop
<1>2. Init => OneLoopPerMonitor
  BY DEF Init, SchedInit, Nothing, OneLoopPerMonitor
<1>3. TypeOK /\ OneLoopPerMonitor /\ [Next]_vars => OneLoopPerMonitor'
  <2> SUFFICES ASSUME TypeOK, [Next]_vars, NEW m \in Monitors, OneLoop(m)
               PROVE  OneLoop(m)'
    BY <1>1 DEF OneLoopPerMonitor, OneLoop
  <2>1. SchedType
    BY DEF TypeOK, SchedType
  <2>2. ASSUME UNCHANGED <<running, loops>> PROVE OneLoop(m)'
    BY <2>2 DEF OneLoop
  <2>3. ASSUME Died PROVE OneLoop(m)'
    BY <2>3 DEF Died, Nothing, OneLoop
  <2>4. ASSUME SchedNext PROVE OneLoop(m)'
    <3>1. CASE SyncOnce
      BY <3>1, <2>1, SyncKeepsOneLoop
    <3>2. ASSUME NEW l \in loops,
                 LoopBegins(l) \/ LoopPanics(l) \/ LoopTick(l) \/ LoopEnds(l)
          PROVE  OneLoop(m)'
      BY <3>2, <2>1, <2>2, <2>3, LoopsKeepOneLoop
         DEF LoopPanics, LoopTick, procVars
    <3>3. CASE Crash
      BY <3>3, <2>3 DEF Crash
    <3>4. ASSUME NEW p \in Process, UpsertFails(p) PROVE OneLoop(m)'
      BY <3>4, <2>2, <2>3 DEF UpsertFails, procVars
    <3>5. CASE \/ StartScheduler \/ StartMonitor \/ EnabledMonitors
               \/ \E p \in Process, x \in Seeded : UpsertMonitor(p, x)
               \/ \E x \in Seeded : EditConfig(x)
               \/ \E x \in Owned : CreateMonitor(x) \/ DeleteMonitor(x)
      <4>1. UNCHANGED <<running, loops>>
        BY <3>5 DEF StartScheduler, StartMonitor, EnabledMonitors,
           UpsertMonitor, EditConfig, CreateMonitor, DeleteMonitor, procVars
      <4> QED BY <4>1, <2>2
    <3> QED BY <2>4, <3>1, <3>2, <3>3, <3>4, <3>5 DEF SchedNext
  <2>5. ASSUME Next, ~SchedNext PROVE UNCHANGED <<running, loops>>
    BY <2>5 DEF Next, TakeJob, LoseJob, FinishCheck, StartChecker, Terminate,
       Exit, Kill, Flip, schedVars, procVars
  <2>6. CASE UNCHANGED vars
    BY <2>6, <2>2 DEF vars, schedVars, procVars
  <2> QED BY <2>2, <2>4, <2>5, <2>6
<1> QED BY <1>2, <1>3, PipelineTypes, PTL DEF Spec
=============================================================================
