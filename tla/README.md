# uptime-monitor in TLA+

Models, model-checking runs and machine-checked proofs for the uptime monitor:
the services that decide whether a site is down and tell its owner, and the Raft
implementation that is meant to replace their single points of failure.
`PROJECT.json` maps every definition to the lines it models.

## The system

| component | state | operations | hard parts |
|---|---|---|---|
| `internal/raft` (raft.go) | term, vote, role, commit and apply indices, leader's progress maps; state machine behind callbacks | elections, AppendEntries, InstallSnapshot, Propose, apply loop, Stop, restart | lost and reordered calls, replies that outlive the term or the process, crash between disk writes, ignored disk errors |
| `internal/raftlog` (log.go, snapshot.go, state.go, entry.go) | log file, snapshot file, hard state file, `Log` struct | Append, TruncateSuffix, Snapshot, InstallSnapshot, Open; Save/LoadHardState | torn records, crash between two renames |
| `internal/evaluate` | per monitor: latest sample per region, committed state, candidate and its start | Observe, Evaluate | stale and delayed samples, flapping, ticks that waited for the lock |
| `cmd/evaluator` | entries in memory (engine, warning flags), one lock | handleResult, tickLoop, commit, checkCert, checkSlow, notify, seeding at start | crash inside a handler, lost results, failing database calls, rows changed by others meanwhile |
| `internal/store` + migrations | monitors, incidents, checks; users, sessions, password resets | the SQL statements | foreign keys, deletion against late inserts |
| `cmd/scheduler` | the map `running`, one publishLoop goroutine per watched monitor | seeding, reconcile, publishLoop | a snapshot of the table that is stale when used, cancellation against a fired ticker, what counts as changed, a panic in one goroutine |
| `cmd/checker`, `internal/check` | the job in the callback | one HTTP probe per job, result published | one shared queue group for all regions, shutdown during a probe, lost jobs |
| `cmd/web` | none of its own: users, sessions, password resets and monitors in the database | sign-up, login, logout, forgot, reset; add, mute, unmute, delete a monitor | every statement a separate step, concurrent use of one token, login against reset, ignored errors |
| `internal/alert` | none | webhook and SMTP messages | I/O; errors are logged by the caller |
| `cmd/monitor` | v1's single loop | seeding; check, Transition, incident | seeds the same table; superseded by the services |
| `internal/config` | the file's entries | Load, StoreMonitors | defaults, negative intervals |
| `internal/env`, `internal/metrics`, `cmd/migrate`, templates, deploy | none of their own | - | - |

The scheduler publishes a job per monitor and interval on NATS; one checker of
the queue group takes it and publishes a result; the evaluator stores the
result, feeds the engine under `e.mu` and turns committed events into incident
rows and alerts, while a one-second tick re-evaluates every monitor under the
same lock. The web application and the scheduler's seed write the same tables.
The Raft packages are a standalone engine: raft.go calls raftlog under `r.mu`
and talks to peers through the `Network` interface.

What makes each part correct: Raft - one leader per term, logs that match,
committed entries that stay and are applied once and in order; raftlog - what is
acknowledged survives a crash, and operations are atomic; the engine - no commit
before the stability window; the evaluator - incidents that do not overlap,
agree with the engine, are alerted at most once and are recorded eventually; the
scheduler and the checkers - one live loop per watched monitor, every enabled row
watched and probed again and again whatever dies, no probe of a removed one, and
a last result that is true; accounts - a session only for a password, no session
that outlives a reset unnoticed, no change of another user's monitor.

## Modules

| module | models | composed from |
|---|---|---|
| `Raft` | raft.go on an abstract log | |
| `RaftLog` | raftlog on its files | refines `DurableLog` |
| `DurableLog` | what raftlog promises: whole operations | |
| `Evaluate` | evaluate.go as operators on one monitor | |
| `Engine` | every sequence of calls to it | extends `Evaluate` |
| `Evaluator` | cmd/evaluator, the rows it uses, its environment | extends `Evaluate`, refines `Incidents` |
| `Incidents` | what the evaluator promises | |
| `Scheduler` | cmd/scheduler, internal/config, the seed of cmd/monitor, the rows they use | |
| `Pipeline` | cmd/checker, internal/check and NATS behind the scheduler | extends `Scheduler` |
| `Accounts` | cmd/web's requests on users, sessions, resets and monitors | |
| `MCRaft`, `MCEngine`, `MCEvaluator`, `MCPipeline`, `MCAccounts` | symmetry sets, views and constants for TLC | |
| `RaftProofs`, `RaftSafetyProofs` | theorems about `Raft` | the second extends the first |
| `RaftLogProofs` | theorems about `RaftLog` | |
| `EvaluateProofs` | lemmas about the operators of `Evaluate` | |
| `EngineProofs`, `EvaluatorProofs` | theorems about `Engine` and `Evaluator` | extend `EvaluateProofs` |
| `PipelineProofs`, `AccountsProofs` | theorems about `Pipeline` and `Accounts` | |

**Raft.** One action per handler and per section of a goroutine between taking
and releasing `r.mu`. A remote call is a request message and a reply message;
the reply carries what the caller's closure remembers (`sentIn`, `match`).
Messages are a set: delivery in any order, loss by `Lose` or by never being
delivered. A goroutine handles its reply once, so a reply is consumed; a request
repeated by a later heartbeat is a new message. Deadlines and tickers may fire at
any time, so timing is not assumed. `log` holds the entries above the snapshot,
`snap.data` the applied entries, so `FullLog` is the log as if it had never been
compacted. `hard` is the hard state file; a crash restarts a node from `hard`,
`log` and `snap`, between handlers (`Restart`) or between two writes of one
(`CrashInVote`, `CrashInAppend`, and in `TornSpec` `CrashInInstall`).
`FaultySpec` adds failing writes, which the code prints and ignores. `votes`,
`elections` and `committed` are history.

**RaftLog.** An operation under `l.mu` is a list of effects on the two files,
each synced before the next; memory changes at the end. A crash finds the first
outstanding effect absent, complete, or, for an append, torn. `Open` is
`recover` with its own two effects. Record framing and checksums are reduced to
whether a record is `Torn`; temporary files are not modelled, since only their
rename is visible. `CleanCrash` leaves out the one window in which the code
breaks its promise (see `raftlog_torn`); `TornCrash` is every crash.

**Evaluate, Engine.** The code subtracts stored instants from `now`; the model
stores the differences as ages, capped where no comparison tells them apart.
`lag` is how far the `now` of a tick lies in the past when it gets the lock. A
sample's age may be negative: checkers stamp results with their own clock.

**Evaluator.** One monitor. `todo` is the rest of the critical section of
`handleResult` or `tickLoop`: the lock is held while it is not empty, and a step
ends where the code calls the database or a notifier, because there the process
may die and others may write. `InsertCheck` happens before the lock (`Receive`,
then `Lock`). The checker and NATS are `Publish` and `Lose`; the web form, the
mute and the seed are `CreateMonitor`, `SetMuted`, `DeleteMonitor` and
`UpsertMonitor`. Names, causes, latencies and the region an alert quotes are
left out. `alerts`, `certMails` and `slowMails` are history; the two counts of
warnings begin anew with the process, as the flags they are compared with do.

**Scheduler.** `table` is the monitors table, `file` the configuration file,
`seeding` what a starting process has read of it and not yet upserted. syncOnce
is two steps, because rows may change while it holds the result of its query:
`EnabledMonitors` fills `fetched`, `SyncOnce` compares it with `running`, marks
loops cancelled and starts new ones. A loop is a record in `loops`; it publishes
when it begins (`LoopBegins`), at a tick (`LoopTick`, also when it is cancelled:
select may take either case), ends when it sees the cancellation (`LoopEnds`),
or takes the process with it when NewTicker refuses its interval
(`LoopPanics`). A row has one field for all that `changed` compares, `interval`,
and one for what it does not compare although the job carries it, `keyword`.

**Pipeline.** `TakeJob` is the queue group: any subscriber that is free, one job
per callback. `Do` is check.Do's verdict from the expected status and the
keyword. A checker that is told to stop cancels the probe under way, so
`FinishCheck` may then publish "down" whatever the site does, and `Exit` does
not wait for the callback; `Kill` is a death without any of it. All monitors
watch one site, and results are followed up to their publication (`verdict`);
what the evaluator makes of them is `Evaluator`, whose `Publish` allows every
sequence of results this module produces.

**Accounts.** `request[r]` is what a request has left to do, with the values it
has read; one step per statement, so two requests interleave everywhere. The
password hash is a sequence, of which the last element is the column: `version`
in a session says which password was typed. Tokens and ids are used once. Expiry
is a row that disappears (`Logout`, `ResetExpires`). A failing statement, a
client that goes away and the death of the process all end a request where it
stands (`Abandon`); `reset` ignores the errors of its last two statements
(`ConsumeFails`). `purged`, `failed`, `tokens` and `monitorIds` are history.

## Runs

| run | expects | shows |
|---|---|---|
| `raft_core` | pass | types, election safety, log matching, leader completeness, stable committed prefixes, state machines that agree and skip nothing, committed entries on a majority of disks; with snapshots and with crashes inside handlers and inside InstallSnapshot |
| `raft_stop` | pass | the apply loop skips nothing, progress maps are sound and committed prefixes stable across Stop, requests and replies that overtake each other, and snapshots |
| `raft_vote_disk` | violation | a failing hard state write, of the vote alone or of the term too, gives a term two leaders |
| `raftlog` | pass | acknowledged writes survive, indices stay in place, `DurableLog` is implemented |
| `raftlog_torn` | violation | a crash inside a contradicting InstallSnapshot leaves neither the old nor the new log |
| `engine` | pass | candidates are real disagreements, commits wait for the window |
| `evaluator` | pass | one open incident and none of a deleted monitor, engine and database agree, a process sends one slow warning per spell after three results and one certificate warning until renewal, `Incidents` is implemented; with a crash at every step and a deletion |
| `evaluator_live` | pass | lasting outages and recoveries are committed, and recorded unless the database failed; results are lost and overtake each other |
| `evaluator_reenable` | violation | a monitor disabled during an outage gets a second open incident after a restart |
| `pipeline` | pass | one live loop per watched monitor; enabled rows are watched and loops of an outdated interval replaced, removed rows no longer probed, probing survives dead checkers and lost jobs, the last result becomes true |
| `pipeline_edit` | violation | an edit of the keyword never reaches the loop while the scheduler runs |
| `accounts` | pass | sessions rest on a password, a reset leaves only straddling logins, only owners change monitors |

**Bounds.** Raft: three nodes, two terms and logs of two entries are the
smallest cluster in which a minority leader is replaced, a conflicting suffix is
overwritten, a new leader commits an entry of an earlier term behind its own
no-op, and a follower needs a snapshot (`SnapThreshold = 1`). A node whose log is
full may vote and follow but not stand, since it would have to append a no-op.
Crashes in `raft_core` are not bounded: the search ends at depth 40, long before
`MaxRestarts = 100`, and the view hides the count.
With one message in flight a request or reply may be lost, or delayed across any
local step, election or crash, which is what the two-term runs are about;
messages that overtake each other need two, and are in `raft_stop`, which in
turn keeps to one term because its questions are about a leader and its late
goroutines, and in `raft_vote_disk`. Symmetry over the nodes is sound: nothing orders them. The
view drops what no later step and no property of the run reads. RaftLog: index 5 leaves
room for a snapshot, a suffix and appends after three crashes. Engine: windows
of two units and ages to both sides of them; three regions are the smallest
majority that is not unanimity. Evaluator: one region, since the vote of several
is the question of `engine` and here would only multiply states (the theorems
hold for any number); three changes of the site's health, so that an outage, a
recovery and a disagreement occur; two acts of users, so that a creation or a
mute and the deletion meet. `evaluator_live` has two results in flight, so that
a delayed one replaces a newer sample (evaluate.go:83); a result not received
within `MaxDelay` is lost.
Pipeline: one configured and one user's monitor, so that seeding, the form
and the loops of two monitors meet; two checkers, so that one can die; five
entries that differ in what `changed` compares, in what it does not, in being
enabled, and one with a negative interval. `MaxEvents = 2` allows any two of:
an edit of the file, a new or deleted monitor, a start of the v1 binary, a
failing upsert, a crash of the scheduler, a kill or shutdown of a checker, a lost
job, a change of the site. Each hazard listed for these parts needs one or two;
what the system does by itself (restarts, reconciliation, ticks, probes) is not
counted. One job of a monitor in NATS at a time: a second one of the same loop
is equal to it, and a job of the old loop already meets the new one through
`checking`. `pipeline_edit` needs no second checker. A second configured
monitor, and with it a seed that writes one entry and fails at the other, is out
of reach of the liveness check. Accounts: two users, requests, tokens of each kind and addresses, so
that any two operations race; three passwords, so that a session can be two
resets old; one fault, since every exception is caused by a single one. `Symmetry`
permutes what nothing orders.
`CHECK_DEADLOCK FALSE` is set for Raft, RaftLog and Accounts: once the bounds are
used up there may be nothing left to do.

**Fairness** (`evaluator_live`). Weak fairness for the lock holder, the lock,
the tick and time: the goroutines are runnable and Go schedules them. Weak
fairness for `Start`: the services are restarted by the container runtime
(`restart: unless-stopped` in
deploy/terraform/compose-core.yml.tftpl). Weak fairness for `Publish`: the
scheduler keeps publishing jobs for an enabled monitor and every region's
checker keeps taking some. Strong fairness for receiving a region's result: NATS
may lose results, but not all of them. Without the last assumption nothing could
be promised; it is also what a queue group does not by itself guarantee, see the
observations.

**Fairness** (`pipeline`, `pipeline_edit`). Weak fairness for the steps of the scheduler and of a
seeding process, for every monitor's loops and for a probe and the exit of a
checker: runnable goroutines, tickers and calls with a timeout. Weak fairness for
`StartScheduler`, again because of `restart: unless-stopped`; none for the start
of a checker, so that `MonitoringSurvives` needs only one that is up. Strong
fairness for taking a job of each monitor: NATS and the subscription's buffer are
in order, so the jobs of one monitor are not overtaken for ever by another's.
Losses of jobs while somebody subscribes are events, hence finitely many.

## Proofs

`tlapm` checks the eight modules whose names end in `Proofs`. Every safety
invariant, every action property and both refinements that the passing runs
check are theorems: for every membership, every bound, every number of crashes
and messages. Assumptions: a finite membership that does not contain `Nil`,
finitely many regions, natural numbers for windows and bounds, and constants for
"nothing" that are not also something (`SchedulerAssumption`,
`AccountsAssumption`, `NoResultAssumption`, `TornAssumption`). Each inductive
invariant was an invariant of a TLC run before it was proved.

- `TypeCorrect` (Raft, `TypeOK`): inductive with `IndexOrder`
  (snapshot <= lastApplied <= commitIndex), without which a leader's commit
  could read an entry its snapshot has replaced. The content is that the
  unsigned index arithmetic never underflows.
- `ElectionSafe` (Raft, `ElectionSafety`): by `VoteInv`. The vote in memory is
  on disk unless the node is closed (`HardInv`); a vote ever cast is on disk or
  outdated by a newer term there (`VotesDurable`), so a restart cannot forget
  it; therefore a node casts one vote per term (`OneVote`); grants in flight,
  tallies and elections rest on votes cast; two majorities meet
  (`MajoritiesMeet`). `VoteRestart` covers a crash between the two hard state
  writes of `HandleRequestVote`. The theorem is about `Spec`: `FaultySpec`,
  where writes fail, violates it (`raft_vote_disk`).
- `LogsMatch`, `LeadersComplete`, `CommittedStaysPut`, `MachinesAgree`,
  `AppliesAll`, `MatchesSound`, `CommittedStable` (Raft, `LogMatching`,
  `LeaderCompleteness`, `CommittedOnMajority`, `StateMachineSafety`,
  `NothingSkipped`, `MatchIndexSound`, `CommittedPrefixStable`): by one inductive
  invariant, `RaftInv`, in two layers.
  The lower one, `LogsInv`, knows only each node's log and the term on its disk,
  and two witnesses: `H`, all logs any node ever had, and `A`, which node held
  which log in that log's own term. Logs of `H` that end in the same term are
  prefixes of one another (`HistoryInv`), because one leader wrote them; that is
  log matching. A log of `H` that ends in an earlier term either lies below
  every log of a later term or can no longer be counted (`OrderInv`): a majority
  has moved past its term without holding it (`Doomed`). A log that a majority
  did hold (`Chosen`) is not doomed, since two majorities meet; so it lies below
  all later logs, which is leader completeness, and two settled logs are
  comparable (`Settled`), which is state machine safety. The lemmas of this
  layer say what following a leader and what a leader's append preserve
  (`Moves`).
  The upper layer ties the code to it. A leader has all logs of its term and
  counts a peer only for what the peer held, or for its own snapshot
  (`LeaderInv`); a voter's logs are in its candidate's, or doomed (`VoteSafe`,
  where the comparison of HandleRequestVote is used); requests carry slices of
  their leader's log and replies what was held (`MessageInv`); commit indices,
  snapshots and state machines cover settled logs (`CommitInv`, `NodeInv`).
  There is one lemma per action that writes a log, a snapshot, a vote or a
  progress map. The witnesses are existentially quantified, so the model needs
  no further history variables.
  The theorems are about `Spec`: with the crash of `raftlog_torn` inside an
  install (`TornSpec`) log matching is not an invariant of larger clusters, see
  the observations, and with failing writes (`FaultySpec`) not even election safety holds.
- `RaftLogTypes`, `NothingLost`, `OffsetsAreIndices` (RaftLog, `TypeOK`,
  `MemoryIsDurable`, `EntriesInPlace`): by `FileInv`, which says for each phase
  of an operation (`Opened`, `Writing`, `Compacting`, `Rewriting`, `Closed`,
  `Recovering`) what is on the two files, relative to memory before and after.
  Every crash leaves a disk of one `Shape`: records that follow an index the
  snapshot covers one by one, and perhaps a torn one; recovery reads all of them
  and keeps those past the snapshot (`ReadableIs`, `RecoveredIs`). Terms play no
  part in it, so these hold for `TornSpec`, every crash included.
- `CrashIsAtomic` (RaftLog, `CrashAtomic`): the refinement of `DurableLog` under
  `Spec`. An operation becomes visible with its first effect; what follows, and
  all of recovery, are stuttering steps; a crash finds the operation visible or
  not (`DurableStep`). `TornSpec` violates it (`raftlog_torn`).
- `CandidateSound` (Engine, `TypeOK` and `CandidateDisagrees`): inductive as it
  stands; a candidate is never older than the last agreement, up to a lag.
- `FlapSuppressed` (Engine, `CommitsOnlyAfterStability`): an action property
  from that invariant, for all windows and any number of regions.
- `EngineTypes` (Engine, `TypeOK`): ages stay in their bounds, from the lemmas
  of `EvaluateProofs` on what Observe, Evaluate and the passing of time return.
- `EvaluatorTypes`, `DeletedForGood` (Evaluator, `TypeOK`,
  `DeletedHasNoIncident`): for `DeleteSpec`, deletions included, with `StepsInv`: the steps under
  the lock come in the code's order, a dead process holds nothing.
- `SlowWarnedOnce`, `CertWarnedOnce` (Evaluator, `OneSlowWarning`,
  `OneCertWarning`): with the flags in memory and the warnings still in `todo`
  counted together. They hold in every life of the process; across a restart
  they could not, since the flags are only in memory.
- `NoDuplicateIncident`, `EngineMatches` (Evaluator, `OneOpenIncident`,
  `EngineMatchesIncident`): by `IncidentInv`, which relates the committed state,
  the rows and the alerts at every step of the critical section, so that a crash
  between any two leaves rows from which seeding restores the same state. They
  are theorems of `DeleteSpec`, where the row may go at any moment (the second
  property says nothing of a row that is gone), under the conditions of the
  code's promise: the monitor belongs to a user (`Owned`), so that nothing disables it - `evaluator_reenable` violates
  the property otherwise - and no database call has failed, since errors are
  logged and ignored.
- `ImplementsLifecycle` (Evaluator, `IncidentLifecycle`): the refinement of
  `Incidents` by `DeleteSpec` under the same two conditions. The deletion of the
  row is the action `Delete` of `Incidents`; what the evaluator still does about
  the monitor afterwards is a stuttering step.
- `PipelineTypes` (Pipeline, `TypeOK`): inductive as it stands. The content is
  that rows from the file, from the form and from two seeding processes all
  have an interval that is not zero.
- `OneLoopAlways` (Pipeline, `OneLoopPerMonitor`): inductive together with the
  types. `SyncOnce` is the case that matters: it cancels and starts for every
  monitor at once, from a snapshot that need not be the table any more.
- `AccountsTypes`, `PasswordProven`, `LoggedOutEverywhere` and
  `OnlyTheOwner` (Accounts, `TypeOK`, `SessionProvesPassword`,
  `StaleSessionStraddles`, `OwnerOnly`): by one inductive
  invariant, `Inv`. The properties speak of rows, so each is strengthened by
  what requests in flight must carry: a request about to insert a session has
  proved a password (`RequestProves`) and has the excuse its session will need
  (`RequestStraddles`); a reset in flight is for a user that exists
  (`UsersExist`); a deletion that has read its owner still meets
  that owner or no row, because ids are not reused (`OwnerKept`). Passwords are
  only ever appended (`HashesGrow`), so what was proved stays proved.

Only model-checked: liveness (all of `evaluator_live` and the temporal properties
of `pipeline`) and anything with ENABLED, which the prover does not handle; the
properties of `raft_core` under `TornSpec`, for three nodes; `OneOpenIncident`,
`EngineMatchesIncident` and `IncidentLifecycle` after database errors, as far as
they hold there. Operators are written without recursion, so that the modules
can be proved about: `RecoveredEntries`, for one, names each entry by its index
instead of filtering the records.

## Observations

Besides the four violation runs, modelling showed the following; the hazards in
PROJECT.json give the lines.

- A follower that fails to append still answers success (raft.go:757-765), and a
  closed node's refusal of a snapshot counts as success (raft.go:613). The
  second is harmless for commitment, since a snapshot holds committed entries
  only: that is why `MatchIndexSound` speaks of entries above the leader's snapshot.
- The crash of `raftlog_torn` can leave a log whose terms decrease, against the
  comment at raft.go:659. `raft_core` shows that in a cluster of three the safety
  properties survive it. With five nodes log matching does not: the crash leaves
  the new snapshot in front of an entry of a deposed leader, which that leader
  still holds behind entries of its own; in a cluster of three such an entry
  would have been on a majority. The proofs are therefore about crashes
  outside that window.
- Every AppendEntries carries the whole suffix including the leader's no-op, so
  the own-term rule of `maybeAdvanceCommitLocked` is never what decides within
  these bounds: a prior-term entry is not counted without the no-op behind it.
- The stability window is shorter by the time a tick waited for the lock, which
  is held during SMTP calls; `CommitsOnlyAfterStability` states the exact bound.
  A candidate also survives a gap in which no region is fresh (evaluate.go:116).
- Only fresh samples vote (evaluate.go:93), and all checkers share one queue
  group, so nothing makes every region report within the freshness window: when
  only a region with a bad path reports, it is the majority of one. The comment
  at evaluate.go:91-92 ("this is what stops one bad network path from paging
  you") holds only while the other regions report too.
- A certificate warning that falls into a mute is not sent later, and a restart
  sends it again: `OneCertWarning` is about each life of the process.
- A crash between the incident row and `notify` loses the DOWN alert for good;
  `Incidents` therefore promises at most one alert, not exactly one.
- Results in flight when a monitor is deleted leave rows in `checks`, and an
  alert may still go out: `notify` reads the monitor it was given before the
  deletion, and runs also when the foreign key has refused the incident.
  `IncidentLifecycle` does not count alerts about a monitor that is gone.
- `ResolveIncident` closes every open row, which is what ends the duplicate of
  `evaluator_reenable`.
- `changed` (scheduler/main.go:69) says it compares "anything the publish loop
  bakes into its job" and leaves out the keyword and the slow threshold: such an
  edit is probed only after the scheduler restarts. `pipeline_edit` shows it, with
  `ConfigurationWatched`; `WatchedEventually` speaks of the interval, which is
  compared, and `VerdictsBecomeTrue` of the row that is watched.
- An entry taken out of the configuration file keeps its row, and stays watched.
- One enabled row with a negative interval makes the scheduler panic at every
  start (`Tickable` in the properties); config.go replaces only a zero.
- A checker that is stopped during a probe publishes a "down" for a healthy
  site (checker/main.go:60); a later result corrects it, and the stability
  window keeps it from paging.
- `store.go:90` speaks of a "single-use reset token". It is one only for requests
  that come one after the other and whose statements all succeed: two requests
  that have both looked a token up (auth.go:134) both change the password with
  it, and when the deletion fails, whose error is ignored (auth.go:154), the
  token works again until it expires. Both are behaviours of `Accounts`.
- A reset consumes the token it was made with. Other tokens of the user stay
  valid until they expire, and a login that straddles the reset keeps its
  session: "log out everywhere" (auth.go:155) is about the sessions there are.
- A graceful stop of the evaluator cancels the context of calls under way; in
  the model that is a failing database call followed by `Crash`.

## Not modelled

The HTTP exchange, rendering and sending of alerts, YAML and JSON syntax, metrics,
migrations, templates and deployment files: I/O or no state of their own. Byte
layout of records. Failing writes inside raftlog. Several monitors in the
evaluator at once: they share only the lock, whose wait is the `lag`. The status
page's queries, which only read. bcrypt and the randomness of tokens.

## Plan

1. The check loop of the v1 binary (`cmd/monitor`) against `Incidents`, with two
   processes on one table.
2. Failing writes inside raftlog (log.go:326).
3. A run that states the single use of reset tokens as a property, and how far
   it fails.
4. Proofs: what of leader completeness and state machine safety survives the
   torn install of `TornSpec`, for any membership; the incident properties of
   the evaluator with failing database calls.
