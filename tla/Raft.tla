-------------------------------- MODULE Raft --------------------------------
(***************************************************************************)
(* The consensus core of internal/raft/raft.go: leader election, log       *)
(* replication, commitment, the apply loop, and snapshots, on top of the   *)
(* durable log of internal/raftlog.                                        *)
(*                                                                         *)
(* Every public handler and every section of a goroutine between taking    *)
(* and releasing r.mu is one action.  A remote call is two messages: the   *)
(* request, and the reply together with the variables the calling          *)
(* goroutine's closure holds (the term it was sent in, the match index a   *)
(* success would establish).  The network may delay, reorder and lose      *)
(* either of them.  Election deadlines and heartbeat tickers are           *)
(* nondeterministic: they may fire at any time.                            *)
(***************************************************************************)
EXTENDS Naturals, Sequences, FiniteSets, FiniteSetsExt

CONSTANTS
    Server,         \* the nodes: every NodeID of the static membership
    Command,        \* payloads clients propose
    Nil,            \* votedFor = 0: no vote cast in this term
    Noop,           \* the payload of the entry a new leader appends
    SnapThreshold,  \* entries past the snapshot before a node compacts; 0: never
    MaxTerm,        \* bound: no election beyond this term
    MaxIndex,       \* bound: no log grows beyond this index
    MaxInFlight,    \* bound: messages in the network at once
    MaxRestarts,    \* bound: process crashes
    MaxStops,       \* bound: orderly Stop calls
    MaxDiskErrors   \* bound: failing writes (FaultySpec only)

ASSUME ServerAssumption == IsFiniteSet(Server) /\ Nil \notin Server
ASSUME BoundAssumption ==
    /\ SnapThreshold \in Nat /\ MaxTerm \in Nat /\ MaxIndex \in Nat
    /\ MaxInFlight \in Nat /\ MaxRestarts \in Nat /\ MaxStops \in Nat
    /\ MaxDiskErrors \in Nat

Follower  == "Follower"
Candidate == "Candidate"
Leader    == "Leader"

VARIABLES
    \* Raft struct, the persistent part, and its image on disk
    currentTerm, votedFor, hard,
    \* raftlog.Log: entries above the snapshot, and the snapshot
    log, snap,
    \* Raft struct, the volatile part
    state, closed, votesGranted, nextIndex, matchIndex,
    commitIndex, lastApplied,
    \* the state machine behind the apply/snapshot/restore callbacks
    sm,
    \* the network
    msgs,
    \* history: votes cast, elections won, entries a leader committed
    votes, elections, committed,
    \* how much of the fault bounds is used
    restarts, stops, diskErrors

hardVars   == <<currentTerm, votedFor, hard>>
logVars    == <<log, snap>>
leaderVars == <<votesGranted, nextIndex, matchIndex>>
applyVars  == <<lastApplied, sm>>
ghostVars  == <<votes, elections, committed>>
faultVars  == <<restarts, stops, diskErrors>>
vars == <<hardVars, logVars, state, closed, leaderVars, commitIndex,
          applyVars, msgs, ghostVars, faultVars>>

-----------------------------------------------------------------------------
(* Types *)

Entry == [term : Nat, value : Command \cup {Noop}]

\* The data of a snapshot is the state machine: the entries applied to it.
Snapshot == [index : Nat, term : Nat, data : Seq(Entry)]

RequestVoteArgs ==
    [type : {"RequestVote"}, src : Server, dst : Server, term : Nat,
     lastLogIndex : Nat, lastLogTerm : Nat]
RequestVoteReply ==
    [type : {"RequestVoteReply"}, src : Server, dst : Server, sentIn : Nat,
     term : Nat, voteGranted : BOOLEAN]
AppendEntriesArgs ==
    [type : {"AppendEntries"}, src : Server, dst : Server, term : Nat,
     prevLogIndex : Nat, prevLogTerm : Nat, entries : Seq(Entry),
     leaderCommit : Nat]
AppendEntriesReply ==
    [type : {"AppendEntriesReply"}, src : Server, dst : Server, sentIn : Nat,
     match : Nat, term : Nat, success : BOOLEAN,
     conflictIndex : Nat, conflictTerm : Nat]
InstallSnapshotArgs ==
    [type : {"InstallSnapshot"}, src : Server, dst : Server, term : Nat,
     snapshot : Snapshot]
InstallSnapshotReply ==
    [type : {"InstallSnapshotReply"}, src : Server, dst : Server,
     sentIn : Nat, match : Nat, term : Nat]

Message == RequestVoteArgs \cup RequestVoteReply
           \cup AppendEntriesArgs \cup AppendEntriesReply
           \cup InstallSnapshotArgs \cup InstallSnapshotReply

-----------------------------------------------------------------------------
(* The log: raftlog.Log as raft.go uses it *)

MinU(a, b) == IF a < b THEN a ELSE b
MaxU(a, b) == IF a > b THEN a ELSE b

LastIndex(i) == snap[i].index + Len(log[i])

\* Log.At: is there an entry, rather than a snapshot, at index n?
HasEntry(i, n) == n > snap[i].index /\ n <= LastIndex(i)
At(i, n) == log[i][n - snap[i].index]

\* Log.TermAt; 0 stands for its ok = false, no entry has term 0.
TermAt(i, n) ==
    IF n = snap[i].index THEN snap[i].term
    ELSE IF HasEntry(i, n) THEN At(i, n).term ELSE 0

\* Log.From
From(i, n) == SubSeq(log[i], n - snap[i].index, Len(log[i]))

LastLogTerm(i) == TermAt(i, LastIndex(i))

\* lastIndexWithTermLocked: scan down to the first index of term t; the scan
\* gives up, with 0, at an index of a smaller term or below the snapshot.
LastIndexWithTerm(i, t) ==
    Max({0} \cup {n \in snap[i].index..LastIndex(i) :
                     /\ TermAt(i, n) = t
                     /\ \A k \in n..LastIndex(i) : TermAt(i, k) >= t})

\* firstIndexWithTermLocked: scan up from 1, with default 1.
FirstIndexWithTerm(i, t) ==
    LET S == {n \in 1..LastIndex(i) : TermAt(i, n) = t}
    IN  IF S = {} THEN 1 ELSE Min(S)

\* count >= r.majority(), where the membership is the peers and the node.
Majority(S) == Cardinality(S) >= (Cardinality(Server) \div 2) + 1

-----------------------------------------------------------------------------
(* The network *)

Send(ms) ==
    /\ Cardinality(msgs) + Cardinality(ms) <= MaxInFlight
    /\ msgs' = msgs \cup ms

Reply(m, r) == msgs' = (msgs \ {m}) \cup {r}
Consume(m) == msgs' = msgs \ {m}

\* net.Send... returned an error: the request or its reply was lost.
Lose(m) ==
    /\ Consume(m)
    /\ UNCHANGED <<hardVars, logVars, state, closed, leaderVars, commitIndex,
                   applyVars, ghostVars, faultVars>>

-----------------------------------------------------------------------------
(* Persistence and role transitions *)

\* Mutant of Persist: the hard state file loses the vote.
PersistTermOnly(i, t, v) ==
    hard' = IF closed[i] THEN hard
            ELSE [hard EXCEPT ![i] = [term |-> t, votedFor |-> Nil]]

\* persistLocked: a closed node no longer writes its hard state.
Persist(i, t, v) ==
    hard' = IF closed[i] THEN hard
            ELSE [hard EXCEPT ![i] = [term |-> t, votedFor |-> v]]

BecomeFollower(i, t) ==
    /\ state' = [state EXCEPT ![i] = Follower]
    /\ IF t > currentTerm[i]
       THEN /\ currentTerm' = [currentTerm EXCEPT ![i] = t]
            /\ votedFor' = [votedFor EXCEPT ![i] = Nil]
            /\ Persist(i, t, Nil)
       ELSE UNCHANGED hardVars

\* nextIndex is computed before the no-op is appended, so the no-op is sent
\* with the first AppendEntries.
BecomeLeader(i) ==
    /\ state' = [state EXCEPT ![i] = Leader]
    /\ nextIndex' = [nextIndex EXCEPT ![i] =
                        [p \in Server |-> LastIndex(i) + 1]]
    /\ matchIndex' = [matchIndex EXCEPT ![i] = [p \in Server |-> 0]]
    /\ log' = [log EXCEPT ![i] =
                  Append(@, [term |-> currentTerm[i], value |-> Noop])]
    /\ elections' = elections \cup {[term |-> currentTerm[i], leader |-> i]}

-----------------------------------------------------------------------------
(* Election *)

\* startElection up to the remote calls, one goroutine per peer; Q are the
\* peers whose call does not fail at once.
StartElection(i, Q) ==
    /\ state[i] # Leader /\ ~closed[i]
    /\ currentTerm[i] < MaxTerm /\ LastIndex(i) < MaxIndex
    /\ LET t == currentTerm[i] + 1 IN
       /\ state' = [state EXCEPT ![i] = Candidate]
       /\ currentTerm' = [currentTerm EXCEPT ![i] = t]
       /\ votedFor' = [votedFor EXCEPT ![i] = i]
       /\ Persist(i, t, i)
       /\ votesGranted' = [votesGranted EXCEPT ![i] = {i}]
       /\ votes' = votes \cup {[term |-> t, voter |-> i, candidate |-> i]}
       /\ Send({[type |-> "RequestVote", src |-> i, dst |-> p, term |-> t,
                 lastLogIndex |-> LastIndex(i), lastLogTerm |-> LastLogTerm(i)]
                    : p \in Q})
    /\ UNCHANGED <<logVars, closed, nextIndex, matchIndex, commitIndex,
                   applyVars, elections, committed, faultVars>>

VoteReply(m, i, t, granted) ==
    [type |-> "RequestVoteReply", src |-> i, dst |-> m.src,
     sentIn |-> m.term, term |-> t, voteGranted |-> granted]

\* Mutant of UpToDate: the last term alone decides.
UpToDateByTerm(i, m) == m.lastLogTerm >= LastLogTerm(i)

UpToDate(i, m) ==
    \/ m.lastLogTerm > LastLogTerm(i)
    \/ m.lastLogTerm = LastLogTerm(i) /\ m.lastLogIndex >= LastIndex(i)

\* The guard of every handler: a closed node, and one that knows a newer
\* term, answers with its term and changes nothing.
Refuses(i, m) == closed[i] \/ m.term < currentTerm[i]

Grants(i, m) ==
    /\ m.term > currentTerm[i] \/ votedFor[i] \in {Nil, m.src}
    /\ UpToDate(i, m)

HandleRequestVote(i, m) ==
    /\ m.type = "RequestVote" /\ m.dst = i
    /\ IF Refuses(i, m)
       THEN /\ Reply(m, VoteReply(m, i, currentTerm[i], FALSE))
            /\ UNCHANGED <<hardVars, state, votes>>
       ELSE LET newer == m.term > currentTerm[i]
                grant == Grants(i, m)
                vote  == IF grant THEN m.src
                         ELSE IF newer THEN Nil ELSE votedFor[i]
            IN /\ currentTerm' = [currentTerm EXCEPT ![i] = m.term]
               /\ votedFor' = [votedFor EXCEPT ![i] = vote]
               /\ IF newer \/ grant THEN Persist(i, m.term, vote)
                  ELSE UNCHANGED hard
               /\ state' = [state EXCEPT ![i] = IF newer THEN Follower ELSE @]
               /\ votes' = IF grant
                           THEN votes \cup {[term |-> m.term, voter |-> i,
                                             candidate |-> m.src]}
                           ELSE votes
               /\ Reply(m, VoteReply(m, i, m.term, grant))
    /\ UNCHANGED <<logVars, closed, leaderVars, commitIndex, applyVars,
                   elections, committed, faultVars>>

\* The rest of the goroutine startElection runs per peer, once the reply is in.
HandleVoteReply(i, m) ==
    /\ m.type = "RequestVoteReply" /\ m.dst = i
    /\ Consume(m)
    /\ IF currentTerm[i] # m.sentIn \/ state[i] # Candidate
       THEN UNCHANGED <<hardVars, log, state, leaderVars, elections>>
       ELSE IF m.term > currentTerm[i]
       THEN /\ BecomeFollower(i, m.term)
            /\ UNCHANGED <<log, leaderVars, elections>>
       ELSE IF ~m.voteGranted
       THEN UNCHANGED <<hardVars, log, state, leaderVars, elections>>
       ELSE /\ votesGranted' = [votesGranted EXCEPT ![i] = @ \cup {m.src}]
            /\ IF Majority(votesGranted[i] \cup {m.src})
               THEN BecomeLeader(i)
               ELSE UNCHANGED <<state, nextIndex, matchIndex, log, elections>>
            /\ UNCHANGED hardVars
    /\ UNCHANGED <<snap, closed, commitIndex, applyVars, votes, committed,
                   faultVars>>

-----------------------------------------------------------------------------
(* Replication, the leader's side *)

Propose(i, c) ==
    /\ state[i] = Leader /\ ~closed[i]
    /\ LastIndex(i) < MaxIndex
    /\ log' = [log EXCEPT ![i] =
                  Append(@, [term |-> currentTerm[i], value |-> c])]
    /\ UNCHANGED <<hardVars, snap, state, closed, leaderVars, commitIndex,
                   applyVars, msgs, ghostVars, faultVars>>

\* replicateTo up to the remote call: entries, a heartbeat, or the snapshot.
ReplicateTo(i, p) ==
    /\ p # i
    /\ state[i] = Leader /\ ~closed[i]
    /\ LET ni == MaxU(1, nextIndex[i][p]) IN
       IF ni <= snap[i].index
       THEN Send({[type |-> "InstallSnapshot", src |-> i, dst |-> p,
                   term |-> currentTerm[i], snapshot |-> snap[i]]})
       ELSE Send({[type |-> "AppendEntries", src |-> i, dst |-> p,
                   term |-> currentTerm[i], prevLogIndex |-> ni - 1,
                   prevLogTerm |-> TermAt(i, ni - 1), entries |-> From(i, ni),
                   leaderCommit |-> commitIndex[i]]})
    /\ UNCHANGED <<hardVars, logVars, state, closed, leaderVars, commitIndex,
                   applyVars, ghostVars, faultVars>>

\* Mutant of Committable: off by one in the comparison with matchIndex.
CommittableOffByOne(i, match) ==
    {n \in (commitIndex[i] + 1)..LastIndex(i) :
        /\ TermAt(i, n) = currentTerm[i]
        /\ Majority({i} \cup {p \in Server \ {i} : match[p] + 1 >= n})}

\* maybeAdvanceCommitLocked, with the follower progress the reply brings: only
\* entries of the leader's own term are counted.
Committable(i, match) ==
    {n \in (commitIndex[i] + 1)..LastIndex(i) :
        /\ TermAt(i, n) = currentTerm[i]
        /\ Majority({i} \cup {p \in Server \ {i} : match[p] >= n})}

AdvanceCommit(i, match) ==
    LET n == Max({commitIndex[i]} \cup Committable(i, match)) IN
    /\ commitIndex' = [commitIndex EXCEPT ![i] = n]
    /\ committed' = committed \cup
          {[index |-> k, entry |-> At(i, k), by |-> currentTerm[i]] :
               k \in (commitIndex[i] + 1)..n}

\* Mutant of RecordMatch: the leader's log at the time of the reply, not the
\* entries the request carried, is taken as replicated.
RecordMatchAll(i, p, n) ==
    /\ matchIndex' = [matchIndex EXCEPT ![i][p] = LastIndex(i)]
    /\ nextIndex' = [nextIndex EXCEPT ![i][p] = LastIndex(i) + 1]
    /\ AdvanceCommit(i, [matchIndex[i] EXCEPT ![p] = LastIndex(i)])

\* A success, for entries or a snapshot, that establishes n at peer p.
RecordMatch(i, p, n) ==
    LET best == MaxU(n, matchIndex[i][p]) IN
    /\ matchIndex' = [matchIndex EXCEPT ![i][p] = best]
    /\ nextIndex' = [nextIndex EXCEPT ![i][p] = best + 1]
    /\ AdvanceCommit(i, [matchIndex[i] EXCEPT ![p] = best])

\* The reply to a request of an earlier term or role: the goroutine returns.
IsStale(i, m) == currentTerm[i] # m.sentIn \/ state[i] # Leader

\* A failed consistency check: resume where the follower's hint says.
BackUp(i, m) ==
    LET last == IF m.conflictTerm = 0 THEN 0
                ELSE LastIndexWithTerm(i, m.conflictTerm)
    IN  nextIndex' = [nextIndex EXCEPT ![i][m.src] =
                         IF last > 0 THEN last + 1
                         ELSE MaxU(1, m.conflictIndex)]

HandleAppendReply(i, m) ==
    /\ m.type = "AppendEntriesReply" /\ m.dst = i
    /\ Consume(m)
    /\ IF IsStale(i, m)
       THEN UNCHANGED <<hardVars, state, nextIndex, matchIndex, commitIndex,
                        committed>>
       ELSE IF m.term > currentTerm[i]
       THEN /\ BecomeFollower(i, m.term)
            /\ UNCHANGED <<nextIndex, matchIndex, commitIndex, committed>>
       ELSE /\ IF m.success
               THEN RecordMatch(i, m.src, m.match)
               ELSE /\ BackUp(i, m)
                    /\ UNCHANGED <<matchIndex, commitIndex, committed>>
            /\ UNCHANGED <<hardVars, state>>
    /\ UNCHANGED <<logVars, closed, votesGranted, applyVars, votes, elections,
                   faultVars>>

\* Any reply that is not from a newer term counts as success.
HandleSnapshotReply(i, m) ==
    /\ m.type = "InstallSnapshotReply" /\ m.dst = i
    /\ Consume(m)
    /\ IF IsStale(i, m)
       THEN UNCHANGED <<hardVars, state, nextIndex, matchIndex, commitIndex,
                        committed>>
       ELSE IF m.term > currentTerm[i]
       THEN /\ BecomeFollower(i, m.term)
            /\ UNCHANGED <<nextIndex, matchIndex, commitIndex, committed>>
       ELSE /\ RecordMatch(i, m.src, m.match)
            /\ UNCHANGED <<hardVars, state>>
    /\ UNCHANGED <<logVars, closed, votesGranted, applyVars, votes, elections,
                   faultVars>>

-----------------------------------------------------------------------------
(* Replication, the follower's side *)

\* becomeFollowerLocked, or only the role change, on hearing from a leader.
FollowLeader(i, m) == BecomeFollower(i, m.term)

AppendReply(m, i, t, ok, ci, ct) ==
    [type |-> "AppendEntriesReply", src |-> i, dst |-> m.src,
     sentIn |-> m.term, match |-> m.prevLogIndex + Len(m.entries),
     term |-> t, success |-> ok, conflictIndex |-> ci, conflictTerm |-> ct]

\* The consistency check at PrevLogIndex.
Consistent(i, m) ==
    /\ m.prevLogIndex >= snap[i].index
    /\ m.prevLogIndex <= LastIndex(i)
    /\ m.prevLogIndex >= 1 => TermAt(i, m.prevLogIndex) = m.prevLogTerm

\* Mutant of InconsistentReply: the hint of a short log is one too low and
\* wraps below zero for an empty log.
InconsistentReplyLow(i, m) ==
    AppendReply(m, i, m.term, FALSE, LastIndex(i) - 1, 0)

InconsistentReply(i, m) ==
    IF m.prevLogIndex < snap[i].index
    THEN AppendReply(m, i, m.term, FALSE, snap[i].index + 1, 0)
    ELSE IF m.prevLogIndex > LastIndex(i)
    THEN AppendReply(m, i, m.term, FALSE, LastIndex(i) + 1, 0)
    ELSE LET ours == TermAt(i, m.prevLogIndex)
         IN  AppendReply(m, i, m.term, FALSE, FirstIndexWithTerm(i, ours), ours)

\* The entries of m the follower lacks, or holds with another term.  Up to the
\* first of them its own log is kept; from there on m's entries are appended.
Missing(i, m) ==
    {k \in 1..Len(m.entries) :
        \/ m.prevLogIndex + k > LastIndex(i)
        \/ TermAt(i, m.prevLogIndex + k) # m.entries[k].term}
Kept(i, m, k) == SubSeq(log[i], 1, m.prevLogIndex + k - 1 - snap[i].index)

\* Mutant of AppendedLog: entries the log already has an index for are kept,
\* whatever their term.
AppendedLogNoTruncate(i, m) ==
    log[i] \o SubSeq(m.entries, LastIndex(i) - m.prevLogIndex + 1,
                     Len(m.entries))

\* Mutant of AppendedLog: the log is always cut behind PrevLogIndex.
AppendedLogAlwaysTruncate(i, m) == Kept(i, m, 1) \o m.entries

AppendedLog(i, m) ==
    IF Missing(i, m) = {} THEN log[i]
    ELSE LET k == Min(Missing(i, m))
         IN  Kept(i, m, k) \o SubSeq(m.entries, k, Len(m.entries))

\* The logs on disk while the handler is between its writes: TruncateSuffix
\* and then one fsync per appended entry.
PartialLogs(i, m) ==
    IF Missing(i, m) = {} THEN {}
    ELSE LET k == Min(Missing(i, m))
         IN  {Kept(i, m, k) \o SubSeq(m.entries, k, n) :
                  n \in (k - 1)..(Len(m.entries) - 1)}

\* The commit index a follower may adopt: at most the last entry it verified.
FollowerCommit(i, m) ==
    MaxU(commitIndex[i],
         MinU(m.leaderCommit, m.prevLogIndex + Len(m.entries)))

HandleAppendEntries(i, m) ==
    /\ m.type = "AppendEntries" /\ m.dst = i
    /\ IF Refuses(i, m)
       THEN /\ Reply(m, AppendReply(m, i, currentTerm[i], FALSE, 0, 0))
            /\ UNCHANGED <<hardVars, state, log, commitIndex>>
       ELSE /\ FollowLeader(i, m)
            /\ IF ~Consistent(i, m)
               THEN /\ Reply(m, InconsistentReply(i, m))
                    /\ UNCHANGED <<log, commitIndex>>
               ELSE /\ log' = [log EXCEPT ![i] = AppendedLog(i, m)]
                    /\ commitIndex' =
                          [commitIndex EXCEPT ![i] = FollowerCommit(i, m)]
                    /\ Reply(m, AppendReply(m, i, m.term, TRUE, 0, 0))
    /\ UNCHANGED <<snap, closed, leaderVars, applyVars, ghostVars, faultVars>>

SnapshotReply(m, i, t) ==
    [type |-> "InstallSnapshotReply", src |-> i, dst |-> m.src,
     sentIn |-> m.term, match |-> m.snapshot.index, term |-> t]

\* raftlog.InstallSnapshot: the suffix is kept only behind a matching entry.
LogAfterInstall(i, s) ==
    IF HasEntry(i, s.index) /\ At(i, s.index).term = s.term
    THEN From(i, s.index + 1) ELSE <<>>

Covered(i, s) == s.index <= snap[i].index \/ s.index <= commitIndex[i]

\* Mutant of HandleInstallSnapshot: the state machine is not restored.
HandleInstallSnapshotNoRestore(i, m) ==
    /\ m.type = "InstallSnapshot" /\ m.dst = i
    /\ ~Refuses(i, m) /\ ~Covered(i, m.snapshot)
    /\ FollowLeader(i, m)
    /\ Reply(m, SnapshotReply(m, i, m.term))
    /\ log' = [log EXCEPT ![i] = LogAfterInstall(i, m.snapshot)]
    /\ snap' = [snap EXCEPT ![i] = m.snapshot]
    /\ lastApplied' = [lastApplied EXCEPT ![i] = m.snapshot.index]
    /\ commitIndex' = [commitIndex EXCEPT ![i] = m.snapshot.index]
    /\ UNCHANGED <<sm, closed, leaderVars, ghostVars, faultVars>>

HandleInstallSnapshot(i, m) ==
    /\ m.type = "InstallSnapshot" /\ m.dst = i
    /\ IF Refuses(i, m)
       THEN /\ Reply(m, SnapshotReply(m, i, currentTerm[i]))
            /\ UNCHANGED <<hardVars, state, logVars, commitIndex, applyVars>>
       ELSE /\ FollowLeader(i, m)
            /\ Reply(m, SnapshotReply(m, i, m.term))
            /\ IF Covered(i, m.snapshot)
               THEN UNCHANGED <<logVars, commitIndex, applyVars>>
               ELSE LET s == m.snapshot IN
                    /\ log' = [log EXCEPT ![i] = LogAfterInstall(i, s)]
                    /\ snap' = [snap EXCEPT ![i] = s]
                    /\ sm' = [sm EXCEPT ![i] = s.data]
                    /\ lastApplied' = [lastApplied EXCEPT ![i] = s.index]
                    /\ commitIndex' = [commitIndex EXCEPT ![i] = s.index]
    /\ UNCHANGED <<closed, leaderVars, ghostVars, faultVars>>

-----------------------------------------------------------------------------
(* The apply loop *)

\* Mutant of Apply: the snapshot is taken before the entry is applied.
ApplySnapshotFirst(i) ==
    /\ ~closed[i] /\ lastApplied[i] < commitIndex[i]
    /\ LET n == lastApplied[i] + 1 IN
       /\ HasEntry(i, n)
       /\ lastApplied' = [lastApplied EXCEPT ![i] = n]
       /\ sm' = [sm EXCEPT ![i] = Append(@, At(i, n))]
       /\ IF SnapThreshold # 0 /\ n - snap[i].index >= SnapThreshold
          THEN /\ snap' = [snap EXCEPT ![i] =
                     [index |-> n, term |-> TermAt(i, n), data |-> sm[i]]]
               /\ log' = [log EXCEPT ![i] = From(i, n + 1)]
          ELSE UNCHANGED logVars
    /\ UNCHANGED <<hardVars, state, closed, leaderVars, commitIndex, msgs,
                   ghostVars, faultVars>>

\* One round of applyLoop with maybeSnapshotLocked at its end.  An index the
\* log does not hold is passed over without applying anything.
Apply(i) ==
    /\ ~closed[i] /\ lastApplied[i] < commitIndex[i]
    /\ LET n == lastApplied[i] + 1
           applied == IF HasEntry(i, n) THEN Append(sm[i], At(i, n)) ELSE sm[i]
           compact == /\ SnapThreshold # 0
                      /\ n - snap[i].index >= SnapThreshold
                      /\ HasEntry(i, n)
       IN /\ lastApplied' = [lastApplied EXCEPT ![i] = n]
          /\ sm' = [sm EXCEPT ![i] = applied]
          /\ IF compact
             THEN /\ snap' = [snap EXCEPT ![i] =
                        [index |-> n, term |-> TermAt(i, n), data |-> applied]]
                  /\ log' = [log EXCEPT ![i] = From(i, n + 1)]
             ELSE UNCHANGED logVars
    /\ UNCHANGED <<hardVars, state, closed, leaderVars, commitIndex, msgs,
                   ghostVars, faultVars>>

-----------------------------------------------------------------------------
(* Life cycle *)

\* Stop: the three loops end and the handlers refuse, but goroutines that
\* wait for a reply still run when it comes.
Stop(i) ==
    /\ ~closed[i] /\ stops < MaxStops
    /\ closed' = [closed EXCEPT ![i] = TRUE]
    /\ stops' = stops + 1
    /\ UNCHANGED <<hardVars, logVars, state, leaderVars, commitIndex,
                   applyVars, msgs, ghostVars, restarts, diskErrors>>

\* A process dies and New + Start run on what its disk holds: h, l and s.
RestartWith(i, h, l, s) ==
    /\ restarts < MaxRestarts
    /\ restarts' = restarts + 1
    /\ hard' = [hard EXCEPT ![i] = h]
    /\ currentTerm' = [currentTerm EXCEPT ![i] = h.term]
    /\ votedFor' = [votedFor EXCEPT ![i] = h.votedFor]
    /\ log' = [log EXCEPT ![i] = l]
    /\ snap' = [snap EXCEPT ![i] = s]
    /\ state' = [state EXCEPT ![i] = Follower]
    /\ closed' = [closed EXCEPT ![i] = FALSE]
    /\ votesGranted' = [votesGranted EXCEPT ![i] = {}]
    /\ nextIndex' = [nextIndex EXCEPT ![i] = [p \in Server |-> 0]]
    /\ matchIndex' = [matchIndex EXCEPT ![i] = [p \in Server |-> 0]]
    /\ commitIndex' = [commitIndex EXCEPT ![i] = s.index]
    /\ lastApplied' = [lastApplied EXCEPT ![i] = s.index]
    /\ sm' = [sm EXCEPT ![i] = s.data]
    /\ UNCHANGED <<ghostVars, stops, diskErrors>>

Restart(i) ==
    /\ RestartWith(i, hard[i], log[i], snap[i])
    /\ UNCHANGED msgs

\* The hard state once a handler has adopted the term of m.
HardAfterTerm(i, m) ==
    IF m.term > currentTerm[i] THEN [term |-> m.term, votedFor |-> Nil]
    ELSE hard[i]

\* The process dies inside HandleRequestVote, the term written, the vote not.
CrashInVote(i, m) ==
    /\ m.type = "RequestVote" /\ m.dst = i /\ ~Refuses(i, m)
    /\ m.term > currentTerm[i]
    /\ RestartWith(i, HardAfterTerm(i, m), log[i], snap[i])
    /\ Consume(m)

\* The process dies inside HandleAppendEntries, between two log writes.
CrashInAppend(i, m) ==
    /\ m.type = "AppendEntries" /\ m.dst = i
    /\ ~Refuses(i, m) /\ Consistent(i, m)
    /\ \E l \in PartialLogs(i, m) :
          RestartWith(i, HardAfterTerm(i, m), l, snap[i])
    /\ Consume(m)

\* The process dies inside raftlog.InstallSnapshot: the snapshot file is
\* written, the log is not yet rewritten.  Recovery keeps every entry above
\* the snapshot, whatever term the entry at its index had.
CrashInInstall(i, m) ==
    /\ m.type = "InstallSnapshot" /\ m.dst = i
    /\ ~Refuses(i, m) /\ ~Covered(i, m.snapshot)
    /\ RestartWith(i, HardAfterTerm(i, m),
                   IF m.snapshot.index < LastIndex(i)
                   THEN From(i, m.snapshot.index + 1) ELSE <<>>,
                   m.snapshot)
    /\ Consume(m)

-----------------------------------------------------------------------------
(* Failing writes: every error of the log and of the hard state file is      *)
(* printed and then ignored.                                                 *)

\* What the follower's log becomes when TruncateSuffix fails (AppendEntry then
\* refuses entries that do not follow the old end, and takes those that do),
\* or when one AppendEntry fails and the later ones are not contiguous.
LogsAfterDiskError(i, m) ==
    PartialLogs(i, m) \cup
    {log[i] \o SubSeq(m.entries, LastIndex(i) - m.prevLogIndex + 1,
                      Len(m.entries))}

AppendEntriesDiskError(i, m) ==
    /\ diskErrors < MaxDiskErrors
    /\ m.type = "AppendEntries" /\ m.dst = i
    /\ ~Refuses(i, m) /\ Consistent(i, m)
    /\ FollowLeader(i, m)
    /\ \E l \in LogsAfterDiskError(i, m) : log' = [log EXCEPT ![i] = l]
    /\ commitIndex' = [commitIndex EXCEPT ![i] = FollowerCommit(i, m)]
    /\ Reply(m, AppendReply(m, i, m.term, TRUE, 0, 0))
    /\ diskErrors' = diskErrors + 1
    /\ UNCHANGED <<snap, closed, leaderVars, applyVars, ghostVars, restarts,
                   stops>>

\* HandleRequestVote grants, and SaveHardState of the vote fails: it is answered
\* and known in memory only.  The write of a newer term before it, without a
\* vote, is one of its own and may fail too.
VoteDiskError(i, m) ==
    /\ diskErrors < MaxDiskErrors
    /\ m.type = "RequestVote" /\ m.dst = i
    /\ ~Refuses(i, m) /\ Grants(i, m)
    /\ currentTerm' = [currentTerm EXCEPT ![i] = m.term]
    /\ votedFor' = [votedFor EXCEPT ![i] = m.src]
    /\ state' = [state EXCEPT ![i] =
                    IF m.term > currentTerm[i] THEN Follower ELSE @]
    /\ \/ UNCHANGED hard
       \/ m.term > currentTerm[i] /\ Persist(i, m.term, Nil)
    /\ votes' = votes \cup {[term |-> m.term, voter |-> i, candidate |-> m.src]}
    /\ Reply(m, VoteReply(m, i, m.term, TRUE))
    /\ diskErrors' = diskErrors + 1
    /\ UNCHANGED <<logVars, closed, leaderVars, commitIndex, applyVars,
                   elections, committed, restarts, stops>>

-----------------------------------------------------------------------------
Init ==
    /\ currentTerm = [i \in Server |-> 0]
    /\ votedFor = [i \in Server |-> Nil]
    /\ hard = [i \in Server |-> [term |-> 0, votedFor |-> Nil]]
    /\ log = [i \in Server |-> <<>>]
    /\ snap = [i \in Server |-> [index |-> 0, term |-> 0, data |-> <<>>]]
    /\ state = [i \in Server |-> Follower]
    /\ closed = [i \in Server |-> FALSE]
    /\ votesGranted = [i \in Server |-> {}]
    /\ nextIndex = [i \in Server |-> [p \in Server |-> 0]]
    /\ matchIndex = [i \in Server |-> [p \in Server |-> 0]]
    /\ commitIndex = [i \in Server |-> 0]
    /\ lastApplied = [i \in Server |-> 0]
    /\ sm = [i \in Server |-> <<>>]
    /\ msgs = {} /\ votes = {} /\ elections = {} /\ committed = {}
    /\ restarts = 0 /\ stops = 0 /\ diskErrors = 0

\* One step of a node that no message triggers.
Step(i) ==
    \/ \E Q \in SUBSET (Server \ {i}) : StartElection(i, Q)
    \/ \E c \in Command : Propose(i, c)
    \/ \E p \in Server : ReplicateTo(i, p)
    \/ Apply(i)
    \/ Stop(i)
    \/ Restart(i)

Receive(i, m) ==
    \/ HandleRequestVote(i, m)
    \/ HandleVoteReply(i, m)
    \/ HandleAppendEntries(i, m)
    \/ HandleAppendReply(i, m)
    \/ HandleInstallSnapshot(i, m)
    \/ HandleSnapshotReply(i, m)
    \/ CrashInVote(i, m)
    \/ CrashInAppend(i, m)

Next ==
    \/ \E i \in Server : Step(i)
    \/ \E m \in msgs : Lose(m)
    \/ \E i \in Server, m \in msgs : Receive(i, m)

Spec == Init /\ [][Next]_vars

\* Crashes inside InstallSnapshot as well.
TornNext == Next \/ \E i \in Server, m \in msgs : CrashInInstall(i, m)
TornSpec == Init /\ [][TornNext]_vars

\* Failing disk writes as well.
FaultyNext ==
    \/ Next
    \/ \E i \in Server, m \in msgs :
          AppendEntriesDiskError(i, m) \/ VoteDiskError(i, m)
FaultySpec == Init /\ [][FaultyNext]_vars

-----------------------------------------------------------------------------
(* Properties *)

\* Type correctness: in particular no index or term a handler computes wraps
\* below zero.
TypeOK ==
    /\ currentTerm \in [Server -> Nat]
    /\ votedFor \in [Server -> Server \cup {Nil}]
    /\ hard \in [Server -> [term : Nat, votedFor : Server \cup {Nil}]]
    /\ log \in [Server -> Seq(Entry)]
    /\ snap \in [Server -> Snapshot]
    /\ state \in [Server -> {Follower, Candidate, Leader}]
    /\ closed \in [Server -> BOOLEAN]
    /\ votesGranted \in [Server -> SUBSET Server]
    /\ nextIndex \in [Server -> [Server -> Nat]]
    /\ matchIndex \in [Server -> [Server -> Nat]]
    /\ commitIndex \in [Server -> Nat]
    /\ lastApplied \in [Server -> Nat]
    /\ sm \in [Server -> Seq(Entry)]
    /\ msgs \subseteq Message
    /\ votes \subseteq [term : Nat, voter : Server, candidate : Server]
    /\ elections \subseteq [term : Nat, leader : Server]
    /\ committed \subseteq [index : Nat, entry : Entry, by : Nat]
    /\ restarts \in Nat /\ stops \in Nat /\ diskErrors \in Nat

\* No term ever has two leaders, not even one after the other.
ElectionSafety ==
    \A e, f \in elections : e.term = f.term => e.leader = f.leader

\* The whole log of a node, the part behind its snapshot included: a snapshot
\* is the entries applied up to it.
FullLog(i) == snap[i].data \o log[i]

\* Logs that have the same term at an index are identical up to that index.
LogMatching ==
    \A i, j \in Server :
        i # j => LET a == FullLog(i)  b == FullLog(j) IN
                 \A n \in 1..MinU(Len(a), Len(b)) :
                    a[n].term = b[n].term => SubSeq(a, 1, n) = SubSeq(b, 1, n)

Holds(i, c) ==
    c.index <= Len(FullLog(i)) /\ FullLog(i)[c.index] = c.entry

\* An entry a leader counted as committed stays on a majority of disks.
CommittedOnMajority ==
    \A c \in committed : Majority({i \in Server : Holds(i, c)})

\* Every leader of a later term than the one an entry was committed in has it.
LeaderCompleteness ==
    \A i \in Server, c \in committed :
        state[i] = Leader /\ currentTerm[i] > c.by => Holds(i, c)

\* No two state machines ever apply different entries at the same index,
\* crashes, snapshots and restores included.
StateMachineSafety ==
    \A i, j \in Server : \A n \in 1..Len(sm[i]) :
        n <= Len(sm[j]) => sm[i][n] = sm[j][n]

\* The apply loop never passes over an index: the state machine holds exactly
\* the entries up to lastApplied, and the log behind it is there.
NothingSkipped ==
    \A i \in Server :
        /\ Len(sm[i]) = lastApplied[i]
        /\ lastApplied[i] <= commitIndex[i]
        /\ commitIndex[i] <= LastIndex(i)

\* What a leader believes a follower holds, the follower holds, as long as
\* neither has moved to another term; only up to the leader's own snapshot may
\* the belief be wrong, since a stopped follower's answer to InstallSnapshot
\* counts as success.
MatchIndexSound ==
    \A i, p \in Server :
        i # p /\ state[i] = Leader /\ currentTerm[p] = currentTerm[i]
           => \A n \in (snap[i].index + 1)..matchIndex[i][p] :
                 /\ n <= LastIndex(p)
                 /\ FullLog(p)[n] = FullLog(i)[n]

\* No step changes an entry at or below a node's commit index: neither a
\* truncation, nor a snapshot, nor a crash in the middle of either.
CommittedPrefixStable ==
    [][\A i \in Server : \A n \in 1..commitIndex[i] :
          /\ n <= Len(FullLog(i)')
          /\ FullLog(i)'[n] = FullLog(i)[n]]_logVars

=============================================================================
