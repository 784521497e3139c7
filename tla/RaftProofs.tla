----------------------------- MODULE RaftProofs -----------------------------
(***************************************************************************)
(* Proofs about Raft: type correctness, and election safety for every set  *)
(* of servers and every value of the bounds.                               *)
(***************************************************************************)
EXTENDS Raft, FiniteSetTheorems, SequenceTheorems, WellFoundedInduction, TLAPS

-----------------------------------------------------------------------------
(* Lemmas on the operators the model is built from *)

\* A non-empty set of naturals has a least element, which Min returns: the
\* scans of firstIndexWithTermLocked and of the append loop find one.
LEMMA MinNat ==
    ASSUME NEW S \in SUBSET Nat, S # {}
    PROVE  Min(S) \in S /\ \A y \in S : Min(S) <= y
<1>1. \E x \in S : \A y \in S : ~ (<<y, x>> \in OpToRel(<, Nat))
  BY NatLessThanWellFounded, WFMin
<1>2. PICK x \in S : \A y \in S : ~ (<<y, x>> \in OpToRel(<, Nat))
  BY <1>1
<1>3. \A y \in S : x <= y
  <2>1. TAKE y \in S
  <2>2. ~(y < x)
    BY <1>2 DEF OpToRel
  <2> QED BY <2>2
<1> QED BY <1>3 DEF Min

\* A non-empty set of naturals with a bound has a greatest element, which Max
\* returns: the commit index a leader advances to exists.
LEMMA MaxNat ==
    ASSUME NEW S \in SUBSET Nat, S # {}, NEW b \in Nat, \A x \in S : x <= b
    PROVE  Max(S) \in S /\ \A y \in S : Max(S) >= y
<1> DEFINE B == {u \in Nat : \A x \in S : x <= u}
<1>1. B \in SUBSET Nat /\ B # {}
  OBVIOUS
<1>2. Min(B) \in B /\ \A u \in B : Min(B) <= u
  BY <1>1, MinNat
<1>3. Min(B) \in S
  <2>1. SUFFICES ASSUME Min(B) \notin S PROVE FALSE
    OBVIOUS
  <2>2. \A x \in S : x < Min(B)
    BY <1>2, <2>1
  <2>3. Min(B) \in Nat /\ Min(B) # 0
    <3>1. PICK x \in S : TRUE
      OBVIOUS
    <3> QED BY <3>1, <2>2, <1>2
  <2>4. Min(B) - 1 \in B
    BY <2>2, <2>3, <1>2
  <2> QED BY <2>4, <1>2
<1>4. \A y \in S : Min(B) >= y
  BY <1>2
<1> QED BY <1>3, <1>4 DEF Max

-----------------------------------------------------------------------------
(* Type correctness *)

\* What type correctness needs besides TypeOK: the log still holds the entries
\* above the commit index, because a snapshot covers only applied entries and
\* only committed entries are applied.
IndexOrder ==
    \A i \in Server : /\ snap[i].index <= lastApplied[i]
                      /\ lastApplied[i] <= commitIndex[i]

TypeInv == TypeOK /\ IndexOrder

\* The log operators return indices, terms and entries, for the indices the
\* handlers call them with.
LEMMA LogTypes ==
    ASSUME TypeOK, NEW i \in Server
    PROVE  /\ snap[i].index \in Nat /\ snap[i].term \in Nat
           /\ snap[i].data \in Seq(Entry) /\ log[i] \in Seq(Entry)
           /\ LastIndex(i) \in Nat
           /\ \A n \in Nat : HasEntry(i, n) => At(i, n) \in Entry
           /\ \A n \in Nat : TermAt(i, n) \in Nat
           /\ \A n \in Nat : n > snap[i].index => From(i, n) \in Seq(Entry)
           /\ LastLogTerm(i) \in Nat
<1>1. /\ snap[i].index \in Nat /\ snap[i].term \in Nat
      /\ snap[i].data \in Seq(Entry) /\ log[i] \in Seq(Entry)
  BY DEF TypeOK, Snapshot
<1>2. LastIndex(i) \in Nat
  BY <1>1 DEF LastIndex
<1>3. ASSUME NEW n \in Nat, HasEntry(i, n) PROVE At(i, n) \in Entry
  BY <1>1, <1>3 DEF HasEntry, LastIndex, At
<1>4. ASSUME NEW n \in Nat PROVE TermAt(i, n) \in Nat
  BY <1>1, <1>3 DEF TermAt, Entry
<1>5. ASSUME NEW n \in Nat, n > snap[i].index
      PROVE  From(i, n) \in Seq(Entry)
  <2>1. n - snap[i].index \in 1..(Len(log[i]) + 1) \/ n - snap[i].index > Len(log[i])
    BY <1>1, <1>5
  <2> QED BY <1>1, <1>5, <2>1, SubSeqProperties DEF From
<1> QED BY <1>1, <1>2, <1>3, <1>4, <1>5 DEF LastLogTerm

\* The two scans return indices.
LEMMA ScanTypes ==
    ASSUME TypeOK, NEW i \in Server, NEW t \in Nat
    PROVE  LastIndexWithTerm(i, t) \in Nat /\ FirstIndexWithTerm(i, t) \in Nat
<1>1. LastIndex(i) \in Nat /\ snap[i].index \in Nat
  BY LogTypes
<1>2. LastIndexWithTerm(i, t) \in Nat
  <2> DEFINE S == {0} \cup {n \in snap[i].index..LastIndex(i) :
                     /\ TermAt(i, n) = t
                     /\ \A k \in n..LastIndex(i) : TermAt(i, k) >= t}
  <2>1. S \in SUBSET Nat /\ S # {} /\ \A x \in S : x <= LastIndex(i)
    BY <1>1
  <2>2. Max(S) \in S
    BY <2>1, <1>1, MaxNat
  <2> QED BY <2>1, <2>2 DEF LastIndexWithTerm
<1>3. FirstIndexWithTerm(i, t) \in Nat
  <2> DEFINE S == {n \in 1..LastIndex(i) : TermAt(i, n) = t}
  <2>1. S \in SUBSET Nat
    BY <1>1
  <2>2. CASE S = {}
    BY <2>2 DEF FirstIndexWithTerm
  <2>3. CASE S # {}
    <3>1. Min(S) \in S
      BY <2>1, <2>3, MinNat
    <3> QED BY <3>1, <2>1, <2>3 DEF FirstIndexWithTerm
  <2> QED BY <2>2, <2>3
<1> QED BY <1>2, <1>3

\* Applying the entries of a consistent AppendEntries yields a log.
LEMMA AppendedLogType ==
    ASSUME TypeOK, NEW i \in Server, NEW m \in AppendEntriesArgs,
           Consistent(i, m)
    PROVE  /\ AppendedLog(i, m) \in Seq(Entry)
           /\ \A l \in PartialLogs(i, m) : l \in Seq(Entry)
<1>1. /\ log[i] \in Seq(Entry) /\ snap[i].index \in Nat
      /\ m.entries \in Seq(Entry) /\ m.prevLogIndex \in Nat
  BY LogTypes DEF AppendEntriesArgs
<1>2. CASE Missing(i, m) = {}
  BY <1>1, <1>2 DEF AppendedLog, PartialLogs
<1>3. CASE Missing(i, m) # {}
  <2> DEFINE k == Min(Missing(i, m))
  <2>1. Missing(i, m) \in SUBSET Nat
    BY <1>1 DEF Missing
  <2>2. k \in Missing(i, m) /\ \A y \in Missing(i, m) : k <= y
    BY <1>3, <2>1, MinNat
  <2>3. k \in 1..Len(m.entries)
    BY <2>2 DEF Missing
  <2>4. Kept(i, m, k) \in Seq(Entry)
    <3>1. m.prevLogIndex + k - 1 - snap[i].index <= Len(log[i])
      <4>1. m.prevLogIndex <= snap[i].index + Len(log[i])
        BY DEF Consistent, LastIndex
      <4>2. CASE k = 1
        BY <4>1, <4>2, <1>1
      <4>3. CASE k > 1
        <5> HIDE DEF k
        <5>1. k - 1 \in 1..Len(m.entries) /\ k - 1 \notin Missing(i, m)
          BY <2>2, <2>3, <4>3, <1>1
        <5>2. m.prevLogIndex + (k - 1) <= LastIndex(i)
          <6>1. ~(m.prevLogIndex + (k - 1) > LastIndex(i))
            BY <5>1 DEF Missing
          <6>2. LastIndex(i) \in Nat
            BY LogTypes
          <6> HIDE DEF k
          <6> QED BY <6>1, <6>2, <2>3, <1>1
        <5> QED BY <5>2, <1>1, <2>3 DEF LastIndex
      <4> QED BY <4>2, <4>3, <2>3
    <3> QED BY <3>1, <1>1, <2>3, SubSeqProperties DEF Kept, Consistent
  <2>5. \A n \in Nat : n <= Len(m.entries)
                       => SubSeq(m.entries, k, n) \in Seq(Entry)
    BY <1>1, <2>3, SubSeqProperties
  <2>6. AppendedLog(i, m) = Kept(i, m, k) \o SubSeq(m.entries, k, Len(m.entries))
    BY <1>3 DEF AppendedLog
  <2>7. AppendedLog(i, m) \in Seq(Entry)
    <3> HIDE DEF k
    <3>1. SubSeq(m.entries, k, Len(m.entries)) \in Seq(Entry)
      BY <2>5, <1>1
    <3> QED BY <2>4, <2>6, <3>1, ConcatProperties
  <2>8. ASSUME NEW l \in PartialLogs(i, m) PROVE l \in Seq(Entry)
    <3>1. PICK n \in (k - 1)..(Len(m.entries) - 1) :
              l = Kept(i, m, k) \o SubSeq(m.entries, k, n)
      BY <2>8, <1>3 DEF PartialLogs
    <3> HIDE DEF k
    <3>2. n \in Nat /\ n <= Len(m.entries)
      BY <3>1, <2>3, <1>1
    <3>3. SubSeq(m.entries, k, n) \in Seq(Entry)
      BY <3>2, <2>5
    <3> QED BY <2>4, <3>1, <3>3, ConcatProperties
  <2> QED BY <2>7, <2>8
<1> QED BY <1>2, <1>3
\* The tag of a message tells which record it is.
LEMMA MessageTypes ==
    ASSUME TypeOK, NEW m \in msgs
    PROVE  /\ m.type = "RequestVote" => m \in RequestVoteArgs
           /\ m.type = "RequestVoteReply" => m \in RequestVoteReply
           /\ m.type = "AppendEntries" => m \in AppendEntriesArgs
           /\ m.type = "AppendEntriesReply" => m \in AppendEntriesReply
           /\ m.type = "InstallSnapshot" => m \in InstallSnapshotArgs
           /\ m.type = "InstallSnapshotReply" => m \in InstallSnapshotReply
BY DEF TypeOK, Message, RequestVoteArgs, RequestVoteReply, AppendEntriesArgs,
       AppendEntriesReply, InstallSnapshotArgs, InstallSnapshotReply

\* The replies the handlers build are messages.
LEMMA ReplyTypes ==
    ASSUME TypeOK, NEW i \in Server, NEW t \in Nat
    PROVE  /\ \A m \in RequestVoteArgs, b \in BOOLEAN :
                 VoteReply(m, i, t, b) \in RequestVoteReply
           /\ \A m \in AppendEntriesArgs, b \in BOOLEAN, ci, ct \in Nat :
                 AppendReply(m, i, t, b, ci, ct) \in AppendEntriesReply
           /\ \A m \in AppendEntriesArgs :
                 InconsistentReply(i, m) \in AppendEntriesReply
           /\ \A m \in InstallSnapshotArgs :
                 SnapshotReply(m, i, t) \in InstallSnapshotReply
<1>1. \A m \in RequestVoteArgs, b \in BOOLEAN :
          VoteReply(m, i, t, b) \in RequestVoteReply
  BY DEF RequestVoteArgs, RequestVoteReply, VoteReply
<1>2. ASSUME NEW u \in Nat, NEW m \in AppendEntriesArgs, NEW b \in BOOLEAN,
             NEW ci \in Nat, NEW ct \in Nat
      PROVE  AppendReply(m, i, u, b, ci, ct) \in AppendEntriesReply
  <2>1. m.prevLogIndex + Len(m.entries) \in Nat
    BY DEF AppendEntriesArgs
  <2> QED BY <2>1 DEF AppendEntriesArgs, AppendEntriesReply, AppendReply
<1>3. ASSUME NEW m \in AppendEntriesArgs
      PROVE  InconsistentReply(i, m) \in AppendEntriesReply
  <2>1. /\ m.term \in Nat /\ m.prevLogIndex \in Nat
        /\ snap[i].index + 1 \in Nat /\ LastIndex(i) + 1 \in Nat
    <3>1. m.term \in Nat /\ m.prevLogIndex \in Nat
      BY DEF AppendEntriesArgs
    <3>2. snap[i].index \in Nat /\ LastIndex(i) \in Nat
      BY LogTypes
    <3> QED BY <3>1, <3>2
  <2>2. TermAt(i, m.prevLogIndex) \in Nat
    BY <2>1, LogTypes
  <2>3. FirstIndexWithTerm(i, TermAt(i, m.prevLogIndex)) \in Nat
    BY <2>2, ScanTypes
  <2> QED BY <1>2, <2>1, <2>2, <2>3 DEF InconsistentReply
<1>4. \A m \in InstallSnapshotArgs :
          SnapshotReply(m, i, t) \in InstallSnapshotReply
  BY DEF InstallSnapshotArgs, InstallSnapshotReply, SnapshotReply, Snapshot
<1> QED BY <1>1, <1>2, <1>3, <1>4

\* becomeFollowerLocked keeps the types of what it assigns.
LEMMA BecomeFollowerType ==
    ASSUME TypeOK, NEW i \in Server, NEW t \in Nat, BecomeFollower(i, t)
    PROVE  /\ currentTerm' \in [Server -> Nat]
           /\ votedFor' \in [Server -> Server \cup {Nil}]
           /\ hard' \in [Server -> [term : Nat, votedFor : Server \cup {Nil}]]
           /\ state' \in [Server -> {Follower, Candidate, Leader}]
<1>1. /\ currentTerm \in [Server -> Nat]
      /\ votedFor \in [Server -> Server \cup {Nil}]
      /\ hard \in [Server -> [term : Nat, votedFor : Server \cup {Nil}]]
      /\ state \in [Server -> {Follower, Candidate, Leader}]
  BY DEF TypeOK
<1>2. state' \in [Server -> {Follower, Candidate, Leader}]
  BY <1>1 DEF BecomeFollower
<1>3. CASE t > currentTerm[i]
  <2>1. hard' = hard
        \/ hard' = [hard EXCEPT ![i] = [term |-> t, votedFor |-> Nil]]
    BY <1>3 DEF BecomeFollower, Persist
  <2> QED BY <1>1, <1>2, <1>3, <2>1 DEF BecomeFollower
<1>4. CASE ~(t > currentTerm[i])
  BY <1>1, <1>2, <1>4 DEF BecomeFollower, hardVars
<1> QED BY <1>3, <1>4

\* Advancing the commit index keeps the types, and never lowers the index.
LEMMA RecordMatchType ==
    ASSUME TypeInv, NEW i \in Server, NEW p \in Server, NEW n \in Nat,
           RecordMatch(i, p, n)
    PROVE  /\ nextIndex' \in [Server -> [Server -> Nat]]
           /\ matchIndex' \in [Server -> [Server -> Nat]]
           /\ commitIndex' \in [Server -> Nat]
           /\ committed' \subseteq [index : Nat, entry : Entry, by : Nat]
           /\ \A j \in Server : commitIndex[j] <= commitIndex'[j]
<1> DEFINE best == MaxU(n, matchIndex[i][p])
           match == [matchIndex[i] EXCEPT ![p] = best]
           S == {commitIndex[i]} \cup Committable(i, match)
<1> TypeOK
  BY DEF TypeInv
<1>t. /\ nextIndex \in [Server -> [Server -> Nat]]
      /\ matchIndex \in [Server -> [Server -> Nat]]
      /\ commitIndex \in [Server -> Nat] /\ lastApplied \in [Server -> Nat]
      /\ currentTerm \in [Server -> Nat]
      /\ committed \subseteq [index : Nat, entry : Entry, by : Nat]
      /\ snap[i].index <= lastApplied[i] /\ lastApplied[i] <= commitIndex[i]
  BY DEF TypeInv, TypeOK, IndexOrder
<1>1. /\ LastIndex(i) \in Nat /\ snap[i].index \in Nat
      /\ matchIndex[i][p] \in Nat /\ best \in Nat /\ commitIndex[i] \in Nat
      /\ snap[i].index <= commitIndex[i] /\ currentTerm[i] \in Nat
  <2>1. LastIndex(i) \in Nat /\ snap[i].index \in Nat
    BY LogTypes
  <2> QED BY <2>1, <1>t DEF MaxU
<1>2. /\ nextIndex' \in [Server -> [Server -> Nat]]
      /\ matchIndex' \in [Server -> [Server -> Nat]]
  <2>1. best + 1 \in Nat
    BY <1>1
  <2>2. /\ matchIndex' = [matchIndex EXCEPT ![i] = [@ EXCEPT ![p] = best]]
        /\ nextIndex' = [nextIndex EXCEPT ![i] = [@ EXCEPT ![p] = best + 1]]
    BY DEF RecordMatch
  <2> HIDE DEF best
  <2> QED BY <2>1, <2>2, <1>1, <1>t
<1>3. S \in SUBSET Nat /\ S # {}
  BY <1>1 DEF Committable
<1>4. \A x \in S : x <= commitIndex[i] + LastIndex(i)
  BY <1>1 DEF Committable
<1>5. Max(S) \in S /\ \A y \in S : Max(S) >= y
  <2>1. commitIndex[i] + LastIndex(i) \in Nat
    BY <1>1
  <2> HIDE DEF S
  <2> QED BY <2>1, <1>3, <1>4, MaxNat
<1>6. /\ commitIndex' = [commitIndex EXCEPT ![i] = Max(S)]
      /\ committed' = committed \cup
            {[index |-> k, entry |-> At(i, k), by |-> currentTerm[i]] :
                 k \in (commitIndex[i] + 1)..Max(S)}
  BY DEF RecordMatch, AdvanceCommit
<1>7. Max(S) \in Nat /\ Max(S) >= commitIndex[i]
      /\ (Max(S) = commitIndex[i] \/ Max(S) <= LastIndex(i))
  <2>1. commitIndex[i] \in S
    OBVIOUS
  <2>2. \A x \in S : x = commitIndex[i] \/ x <= LastIndex(i)
    BY <1>1 DEF Committable
  <2> HIDE DEF S
  <2> QED BY <2>1, <2>2, <1>3, <1>5
<1> HIDE DEF S
<1>8. ASSUME NEW k \in (commitIndex[i] + 1)..Max(S)
      PROVE  At(i, k) \in Entry /\ k \in Nat
  <2>1. k \in Nat /\ HasEntry(i, k)
    BY <1>1, <1>7 DEF HasEntry
  <2> QED BY <2>1, LogTypes DEF TypeInv
<1>9. committed' \subseteq [index : Nat, entry : Entry, by : Nat]
  BY <1>t, <1>1, <1>6, <1>8
<1>10. /\ commitIndex' \in [Server -> Nat]
       /\ \A j \in Server : commitIndex[j] <= commitIndex'[j]
  BY <1>t, <1>6, <1>7
<1> QED BY <1>2, <1>9, <1>10
\* The initial state has the types.
LEMMA TypeInit == Init => TypeInv
<1> SUFFICES ASSUME Init PROVE TypeInv
  OBVIOUS
<1>1. /\ <<>> \in Seq(Entry)
      /\ [index |-> 0, term |-> 0, data |-> <<>>] \in Snapshot
  BY DEF Snapshot
<1>2. TypeOK
  BY <1>1 DEF Init, TypeOK
<1>3. IndexOrder
  BY DEF Init, IndexOrder
<1> QED BY <1>2, <1>3 DEF TypeInv

\* The facts of the type invariant about one node.
LEMMA NodeTypes ==
    ASSUME TypeInv, NEW i \in Server
    PROVE  /\ currentTerm[i] \in Nat /\ votedFor[i] \in Server \cup {Nil}
           /\ hard[i] \in [term : Nat, votedFor : Server \cup {Nil}]
           /\ log[i] \in Seq(Entry) /\ snap[i] \in Snapshot
           /\ closed[i] \in BOOLEAN /\ votesGranted[i] \in SUBSET Server
           /\ nextIndex[i] \in [Server -> Nat]
           /\ matchIndex[i] \in [Server -> Nat]
           /\ commitIndex[i] \in Nat /\ lastApplied[i] \in Nat
           /\ sm[i] \in Seq(Entry)
           /\ snap[i].index <= lastApplied[i]
           /\ lastApplied[i] <= commitIndex[i]
BY DEF TypeInv, TypeOK, IndexOrder

\* Restarting a process on well-typed disk contents.
LEMMA RestartType ==
    ASSUME TypeInv, NEW i \in Server, NEW l \in Seq(Entry), NEW s \in Snapshot,
           NEW h \in [term : Nat, votedFor : Server \cup {Nil}],
           RestartWith(i, h, l, s), msgs' \subseteq msgs
    PROVE  TypeInv'
<1>1. s.index \in Nat /\ s.data \in Seq(Entry)
      /\ h.term \in Nat /\ h.votedFor \in Server \cup {Nil}
  BY DEF Snapshot
<1>2. [p \in Server |-> 0] \in [Server -> Nat]
  OBVIOUS
<1>3. TypeOK'
  <2>1. /\ currentTerm' \in [Server -> Nat]
        /\ votedFor' \in [Server -> Server \cup {Nil}]
        /\ hard' \in [Server -> [term : Nat, votedFor : Server \cup {Nil}]]
        /\ log' \in [Server -> Seq(Entry)]
        /\ snap' \in [Server -> Snapshot]
        /\ state' \in [Server -> {Follower, Candidate, Leader}]
        /\ closed' \in [Server -> BOOLEAN]
    BY <1>1 DEF RestartWith, TypeInv, TypeOK
  <2>2. /\ votesGranted' \in [Server -> SUBSET Server]
        /\ nextIndex' \in [Server -> [Server -> Nat]]
        /\ matchIndex' \in [Server -> [Server -> Nat]]
        /\ commitIndex' \in [Server -> Nat]
        /\ lastApplied' \in [Server -> Nat]
        /\ sm' \in [Server -> Seq(Entry)]
    BY <1>1, <1>2 DEF RestartWith, TypeInv, TypeOK
  <2>3. /\ msgs' \subseteq Message
        /\ votes' \subseteq [term : Nat, voter : Server, candidate : Server]
        /\ elections' \subseteq [term : Nat, leader : Server]
        /\ committed' \subseteq [index : Nat, entry : Entry, by : Nat]
        /\ restarts' \in Nat /\ stops' \in Nat /\ diskErrors' \in Nat
    <3>1. /\ UNCHANGED <<votes, elections, committed, stops, diskErrors>>
          /\ restarts' = restarts + 1
      BY DEF RestartWith, ghostVars
    <3>2. /\ msgs \subseteq Message
          /\ votes \subseteq [term : Nat, voter : Server, candidate : Server]
          /\ elections \subseteq [term : Nat, leader : Server]
          /\ committed \subseteq [index : Nat, entry : Entry, by : Nat]
          /\ restarts \in Nat /\ stops \in Nat /\ diskErrors \in Nat
      BY DEF TypeInv, TypeOK
    <3> QED BY <3>1, <3>2
  <2> QED BY <2>1, <2>2, <2>3 DEF TypeOK
<1>4. IndexOrder'
  BY <1>1 DEF RestartWith, TypeInv, TypeOK, IndexOrder
<1> QED BY <1>3, <1>4 DEF TypeInv

\* Every step of Next keeps the types.
LEMMA TypeNext == TypeInv /\ [Next]_vars => TypeInv'
<1> SUFFICES ASSUME TypeInv, [Next]_vars PROVE TypeInv'
  OBVIOUS
<1> TypeOK
  BY DEF TypeInv
<1> USE DEF hardVars, logVars, leaderVars, applyVars, ghostVars, faultVars
<1>1. ASSUME NEW i \in Server, NEW Q \in SUBSET (Server \ {i}),
             StartElection(i, Q)
      PROVE  TypeInv'
  <2>1. /\ currentTerm[i] + 1 \in Nat /\ {i} \in SUBSET Server
        /\ LastIndex(i) \in Nat /\ LastLogTerm(i) \in Nat
    <3>1. currentTerm[i] + 1 \in Nat
      BY NodeTypes
    <3>2. LastIndex(i) \in Nat /\ LastLogTerm(i) \in Nat
      BY LogTypes
    <3> QED BY <3>1, <3>2
  <2>2. msgs' \subseteq Message
    BY <1>1, <2>1 DEF StartElection, Send, Message, RequestVoteArgs, TypeOK
  <2>3. votes' \subseteq [term : Nat, voter : Server, candidate : Server]
    BY <1>1, <2>1 DEF StartElection, TypeOK
  <2>4. hard' \in [Server -> [term : Nat, votedFor : Server \cup {Nil}]]
    BY <1>1, <2>1 DEF StartElection, Persist, TypeOK
  <2>5. /\ currentTerm' \in [Server -> Nat]
        /\ votedFor' \in [Server -> Server \cup {Nil}]
        /\ state' \in [Server -> {Follower, Candidate, Leader}]
        /\ votesGranted' \in [Server -> SUBSET Server]
    BY <1>1, <2>1 DEF StartElection, TypeOK
  <2> QED BY <1>1, <2>2, <2>3, <2>4, <2>5
          DEF StartElection, TypeInv, TypeOK, IndexOrder
<1>2. ASSUME NEW i \in Server, NEW c \in Command, Propose(i, c)
      PROVE  TypeInv'
  <2>1. [term |-> currentTerm[i], value |-> c] \in Entry
    BY NodeTypes DEF Entry
  <2>2. log' \in [Server -> Seq(Entry)]
    BY <1>2, <2>1, AppendProperties DEF Propose, TypeOK
  <2> QED BY <1>2, <2>2 DEF Propose, TypeInv, TypeOK, IndexOrder
<1>3. ASSUME NEW i \in Server, NEW p \in Server, ReplicateTo(i, p)
      PROVE  TypeInv'
  <2> DEFINE ni == MaxU(1, nextIndex[i][p])
  <2>1. ni \in Nat /\ ni >= 1
    BY NodeTypes DEF MaxU
  <2>2. msgs' \subseteq Message
    <3>1. CASE ni <= snap[i].index
      <4>1. [type |-> "InstallSnapshot", src |-> i, dst |-> p,
             term |-> currentTerm[i], snapshot |-> snap[i]]
               \in InstallSnapshotArgs
        BY NodeTypes DEF InstallSnapshotArgs
      <4> QED BY <1>3, <3>1, <4>1 DEF ReplicateTo, Send, Message, TypeOK
    <3>2. CASE ~(ni <= snap[i].index)
      <4>1. /\ ni - 1 \in Nat /\ TermAt(i, ni - 1) \in Nat
            /\ From(i, ni) \in Seq(Entry)
        <5>1. ni - 1 \in Nat /\ snap[i].index \in Nat /\ ni > snap[i].index
          <6>1. snap[i].index \in Nat
            BY LogTypes
          <6> HIDE DEF ni
          <6> QED BY <2>1, <3>2, <6>1
        <5> HIDE DEF ni
        <5> QED BY <2>1, <5>1, LogTypes
      <4>2. [type |-> "AppendEntries", src |-> i, dst |-> p,
             term |-> currentTerm[i], prevLogIndex |-> ni - 1,
             prevLogTerm |-> TermAt(i, ni - 1), entries |-> From(i, ni),
             leaderCommit |-> commitIndex[i]] \in AppendEntriesArgs
        BY <4>1, NodeTypes DEF AppendEntriesArgs
      <4> QED BY <1>3, <3>2, <4>2 DEF ReplicateTo, Send, Message, TypeOK
    <3> QED BY <3>1, <3>2
  <2> QED BY <1>3, <2>2 DEF ReplicateTo, TypeInv, TypeOK, IndexOrder
<1>4. ASSUME NEW i \in Server, Apply(i) PROVE TypeInv'
  <2> DEFINE n == lastApplied[i] + 1
             applied == IF HasEntry(i, n) THEN Append(sm[i], At(i, n)) ELSE sm[i]
  <2>0. /\ lastApplied[i] \in Nat /\ commitIndex[i] \in Nat
        /\ snap[i].index <= lastApplied[i] /\ snap[i].index \in Nat
    BY NodeTypes, LogTypes
  <2>1. n \in Nat /\ n <= commitIndex[i] /\ snap[i].index <= n
    BY <1>4, <2>0 DEF Apply
  <2>2. applied \in Seq(Entry)
    <3>1. HasEntry(i, n) => At(i, n) \in Entry
      BY <2>1, LogTypes
    <3> QED BY <3>1, NodeTypes, AppendProperties
  <2>3. /\ [index |-> n, term |-> TermAt(i, n), data |-> applied] \in Snapshot
        /\ From(i, n + 1) \in Seq(Entry)
    <3>1. TermAt(i, n) \in Nat
      BY <2>1, LogTypes
    <3>2. n + 1 \in Nat /\ n + 1 > snap[i].index
      BY <2>0, <2>1
    <3> HIDE DEF n, applied
    <3>3. From(i, n + 1) \in Seq(Entry)
      BY <3>2, LogTypes
    <3> QED BY <2>1, <2>2, <3>1, <3>3 DEF Snapshot
  <2>4. /\ lastApplied' = [lastApplied EXCEPT ![i] = n]
        /\ sm' = [sm EXCEPT ![i] = applied]
        /\ \/ /\ snap' = [snap EXCEPT ![i] =
                    [index |-> n, term |-> TermAt(i, n), data |-> applied]]
              /\ log' = [log EXCEPT ![i] = From(i, n + 1)]
           \/ UNCHANGED logVars
        /\ UNCHANGED <<hardVars, state, closed, leaderVars, commitIndex, msgs,
                       ghostVars, faultVars>>
    BY <1>4 DEF Apply
  <2> HIDE DEF n, applied
  <2>5. /\ log' \in [Server -> Seq(Entry)] /\ snap' \in [Server -> Snapshot]
        /\ lastApplied' \in [Server -> Nat] /\ sm' \in [Server -> Seq(Entry)]
    <3>1. /\ log \in [Server -> Seq(Entry)] /\ snap \in [Server -> Snapshot]
          /\ lastApplied \in [Server -> Nat] /\ sm \in [Server -> Seq(Entry)]
      BY DEF TypeOK
    <3>2. lastApplied' \in [Server -> Nat] /\ sm' \in [Server -> Seq(Entry)]
      BY <3>1, <2>1, <2>2, <2>4
    <3>3. log' \in [Server -> Seq(Entry)]
      BY <3>1, <2>3, <2>4
    <3>4. snap' \in [Server -> Snapshot]
      BY <3>1, <2>3, <2>4
    <3> QED BY <3>2, <3>3, <3>4
  <2>6. TypeOK'
    BY <2>4, <2>5 DEF TypeOK
  <2>7. IndexOrder'
    <3>1. \A j \in Server : /\ snap[j].index <= lastApplied[j]
                            /\ lastApplied[j] <= commitIndex[j]
      BY DEF TypeInv, IndexOrder
    <3>2. /\ snap \in [Server -> Snapshot] /\ lastApplied \in [Server -> Nat]
          /\ commitIndex' = commitIndex
          /\ snap[i].index \in Nat
      BY <2>4, LogTypes DEF TypeOK
    <3>3. snap'[i].index <= n /\ \A j \in Server \ {i} : snap'[j] = snap[j]
      BY <2>1, <2>4, <3>2
    <3> QED BY <2>1, <2>4, <3>1, <3>2, <3>3 DEF IndexOrder
  <2> QED BY <2>6, <2>7 DEF TypeInv
<1>5. ASSUME NEW i \in Server, Stop(i) PROVE TypeInv'
  <2>1. closed' \in [Server -> BOOLEAN] /\ stops' \in Nat
    BY <1>5 DEF Stop, TypeOK
  <2> QED BY <1>5, <2>1 DEF Stop, TypeInv, TypeOK, IndexOrder
<1>6. ASSUME NEW i \in Server, Restart(i) PROVE TypeInv'
  <2>1. RestartWith(i, hard[i], log[i], snap[i]) /\ msgs' \subseteq msgs
    BY <1>6 DEF Restart
  <2>2. /\ hard[i] \in [term : Nat, votedFor : Server \cup {Nil}]
        /\ log[i] \in Seq(Entry) /\ snap[i] \in Snapshot
    BY NodeTypes
  <2> QED BY <2>1, <2>2, RestartType
<1>7. ASSUME NEW m \in msgs, Lose(m) PROVE TypeInv'
  <2>1. msgs' \subseteq Message
    BY <1>7 DEF Lose, Consume, TypeOK
  <2> QED BY <1>7, <2>1 DEF Lose, TypeInv, TypeOK, IndexOrder
<1>8. ASSUME NEW i \in Server, NEW m \in msgs, HandleRequestVote(i, m)
      PROVE  TypeInv'
  <2>1. m \in RequestVoteArgs
    BY <1>8, MessageTypes DEF HandleRequestVote
  <2>2. m.src \in Server /\ m.term \in Nat
    BY <2>1 DEF RequestVoteArgs
  <2>3. currentTerm[i] \in Nat /\ votedFor[i] \in Server \cup {Nil}
    BY NodeTypes
  <2>4. Grants(i, m) \in BOOLEAN
    BY DEF Grants
  <2>5. CASE Refuses(i, m)
    <3>1. VoteReply(m, i, currentTerm[i], FALSE) \in Message
      BY <2>1, <2>3, ReplyTypes DEF Message
    <3>2. msgs' \subseteq Message
      BY <1>8, <2>5, <3>1 DEF HandleRequestVote, Reply, TypeOK
    <3> QED BY <1>8, <2>5, <3>2
            DEF HandleRequestVote, TypeInv, TypeOK, IndexOrder
  <2>6. CASE ~Refuses(i, m)
    <3> DEFINE newer == m.term > currentTerm[i]
               vote  == IF Grants(i, m) THEN m.src
                        ELSE IF newer THEN Nil ELSE votedFor[i]
    <3>1. vote \in Server \cup {Nil}
      BY <2>2, <2>3
    <3>2. VoteReply(m, i, m.term, Grants(i, m)) \in Message
      BY <2>1, <2>2, <2>4, ReplyTypes DEF Message
    <3>3. /\ currentTerm' = [currentTerm EXCEPT ![i] = m.term]
          /\ votedFor' = [votedFor EXCEPT ![i] = vote]
          /\ hard' \in {hard, [hard EXCEPT ![i] =
                                  [term |-> m.term, votedFor |-> vote]]}
          /\ state' = [state EXCEPT ![i] = IF newer THEN Follower ELSE @]
          /\ votes' \in {votes, votes \cup {[term |-> m.term, voter |-> i,
                                             candidate |-> m.src]}}
          /\ msgs' = (msgs \ {m}) \cup {VoteReply(m, i, m.term, Grants(i, m))}
          /\ UNCHANGED <<logVars, closed, leaderVars, commitIndex, applyVars,
                         elections, committed, faultVars>>
      BY <1>8, <2>6 DEF HandleRequestVote, Persist, Reply
    <3> HIDE DEF vote, newer
    <3>4. /\ currentTerm' \in [Server -> Nat]
          /\ votedFor' \in [Server -> Server \cup {Nil}]
          /\ hard' \in [Server -> [term : Nat, votedFor : Server \cup {Nil}]]
          /\ state' \in [Server -> {Follower, Candidate, Leader}]
      <4>1. /\ currentTerm \in [Server -> Nat]
            /\ votedFor \in [Server -> Server \cup {Nil}]
            /\ hard \in [Server -> [term : Nat, votedFor : Server \cup {Nil}]]
            /\ state \in [Server -> {Follower, Candidate, Leader}]
        BY DEF TypeOK
      <4>2. [term |-> m.term, votedFor |-> vote]
               \in [term : Nat, votedFor : Server \cup {Nil}]
        BY <2>2, <3>1
      <4> QED BY <2>2, <3>1, <3>3, <4>1, <4>2
    <3>5. /\ votes' \subseteq [term : Nat, voter : Server, candidate : Server]
          /\ msgs' \subseteq Message
      <4>1. /\ votes \subseteq [term : Nat, voter : Server, candidate : Server]
            /\ msgs \subseteq Message
        BY DEF TypeOK
      <4> QED BY <2>2, <3>2, <3>3, <4>1
    <3> QED BY <3>3, <3>4, <3>5 DEF TypeInv, TypeOK, IndexOrder
  <2> QED BY <2>5, <2>6
<1>9. ASSUME NEW i \in Server, NEW m \in msgs, HandleVoteReply(i, m)
      PROVE  TypeInv'
  <2>1. m.src \in Server /\ m.term \in Nat
    BY <1>9, MessageTypes DEF HandleVoteReply, RequestVoteReply
  <2>2. msgs' \subseteq Message
    BY <1>9 DEF HandleVoteReply, Consume, TypeOK
  <2>3. UNCHANGED <<snap, closed, commitIndex, applyVars, votes, committed,
                    faultVars>>
    BY <1>9 DEF HandleVoteReply
  <2>4. \/ UNCHANGED <<hardVars, log, state, leaderVars, elections>>
        \/ /\ BecomeFollower(i, m.term)
           /\ UNCHANGED <<log, leaderVars, elections>>
        \/ /\ votesGranted' = [votesGranted EXCEPT ![i] = @ \cup {m.src}]
           /\ \/ BecomeLeader(i)
              \/ UNCHANGED <<state, nextIndex, matchIndex, log, elections>>
           /\ UNCHANGED hardVars
    BY <1>9 DEF HandleVoteReply
  <2>5. CASE UNCHANGED <<hardVars, log, state, leaderVars, elections>>
    BY <2>2, <2>3, <2>5 DEF TypeInv, TypeOK, IndexOrder
  <2>6. CASE /\ BecomeFollower(i, m.term)
             /\ UNCHANGED <<log, leaderVars, elections>>
    <3>1. /\ currentTerm' \in [Server -> Nat]
          /\ votedFor' \in [Server -> Server \cup {Nil}]
          /\ hard' \in [Server -> [term : Nat, votedFor : Server \cup {Nil}]]
          /\ state' \in [Server -> {Follower, Candidate, Leader}]
      BY <2>1, <2>6, BecomeFollowerType
    <3> QED BY <2>2, <2>3, <2>6, <3>1 DEF TypeInv, TypeOK, IndexOrder
  <2>7. CASE /\ votesGranted' = [votesGranted EXCEPT ![i] = @ \cup {m.src}]
             /\ UNCHANGED <<state, nextIndex, matchIndex, log, elections>>
             /\ UNCHANGED hardVars
    <3>1. votesGranted' \in [Server -> SUBSET Server]
      BY <2>1, <2>7 DEF TypeOK
    <3> QED BY <2>2, <2>3, <2>7, <3>1 DEF TypeInv, TypeOK, IndexOrder
  <2>8. CASE /\ votesGranted' = [votesGranted EXCEPT ![i] = @ \cup {m.src}]
             /\ BecomeLeader(i)
             /\ UNCHANGED hardVars
    <3>1. votesGranted' \in [Server -> SUBSET Server]
      BY <2>1, <2>8 DEF TypeOK
    <3>2. /\ currentTerm[i] \in Nat /\ LastIndex(i) + 1 \in Nat
          /\ [term |-> currentTerm[i], value |-> Noop] \in Entry
      BY NodeTypes, LogTypes DEF Entry
    <3>3. log' \in [Server -> Seq(Entry)]
      BY <2>8, <3>2, AppendProperties DEF BecomeLeader, TypeOK
    <3>4. /\ nextIndex' \in [Server -> [Server -> Nat]]
          /\ matchIndex' \in [Server -> [Server -> Nat]]
          /\ state' \in [Server -> {Follower, Candidate, Leader}]
          /\ elections' \subseteq [term : Nat, leader : Server]
      BY <2>8, <3>2 DEF BecomeLeader, TypeOK
    <3> QED BY <2>2, <2>3, <2>8, <3>1, <3>3, <3>4
            DEF TypeInv, TypeOK, IndexOrder
  <2> QED BY <2>4, <2>5, <2>6, <2>7, <2>8
<1>10. ASSUME NEW i \in Server, NEW m \in msgs, HandleAppendEntries(i, m)
       PROVE  TypeInv'
  <2>1. m \in AppendEntriesArgs
    BY <1>10, MessageTypes DEF HandleAppendEntries
  <2>2. /\ m.term \in Nat /\ m.prevLogIndex \in Nat /\ m.leaderCommit \in Nat
        /\ Len(m.entries) \in Nat
    BY <2>1 DEF AppendEntriesArgs
  <2>3. currentTerm[i] \in Nat /\ commitIndex[i] \in Nat
    BY NodeTypes
  <2>4. UNCHANGED <<snap, closed, leaderVars, applyVars, ghostVars, faultVars>>
    BY <1>10 DEF HandleAppendEntries
  <2>5. CASE Refuses(i, m)
    <3>1. AppendReply(m, i, currentTerm[i], FALSE, 0, 0) \in Message
      BY <2>1, <2>3, ReplyTypes DEF Message
    <3>2. msgs' \subseteq Message
      BY <1>10, <2>5, <3>1 DEF HandleAppendEntries, Reply, TypeOK
    <3> QED BY <1>10, <2>5, <3>2
            DEF HandleAppendEntries, TypeInv, TypeOK, IndexOrder
  <2>6. CASE ~Refuses(i, m)
    <3>1. /\ currentTerm' \in [Server -> Nat]
          /\ votedFor' \in [Server -> Server \cup {Nil}]
          /\ hard' \in [Server -> [term : Nat, votedFor : Server \cup {Nil}]]
          /\ state' \in [Server -> {Follower, Candidate, Leader}]
      BY <1>10, <2>2, <2>6, BecomeFollowerType
         DEF HandleAppendEntries, FollowLeader
    <3>2. CASE ~Consistent(i, m)
      <4>1. InconsistentReply(i, m) \in Message
        BY <2>1, <2>3, ReplyTypes DEF Message
      <4>2. msgs' \subseteq Message
        BY <1>10, <2>6, <3>2, <4>1 DEF HandleAppendEntries, Reply, TypeOK
      <4>3. UNCHANGED <<log, commitIndex>>
        BY <1>10, <2>6, <3>2 DEF HandleAppendEntries
      <4> QED BY <2>4, <3>1, <4>2, <4>3 DEF TypeInv, TypeOK, IndexOrder
    <3>3. CASE Consistent(i, m)
      <4>1. AppendReply(m, i, m.term, TRUE, 0, 0) \in Message
        BY <2>1, <2>2, ReplyTypes DEF Message
      <4>2. msgs' \subseteq Message
        BY <1>10, <2>6, <3>3, <4>1 DEF HandleAppendEntries, Reply, TypeOK
      <4>3. AppendedLog(i, m) \in Seq(Entry)
        BY <2>1, <3>3, AppendedLogType
      <4>4. FollowerCommit(i, m) \in Nat /\ FollowerCommit(i, m) >= commitIndex[i]
        BY <2>2, <2>3 DEF FollowerCommit, MaxU, MinU
      <4>5. /\ log' = [log EXCEPT ![i] = AppendedLog(i, m)]
            /\ commitIndex' = [commitIndex EXCEPT ![i] = FollowerCommit(i, m)]
        BY <1>10, <2>6, <3>3 DEF HandleAppendEntries
      <4>6. /\ log' \in [Server -> Seq(Entry)]
            /\ commitIndex' \in [Server -> Nat]
            /\ \A j \in Server : commitIndex[j] <= commitIndex'[j]
        <5>1. log \in [Server -> Seq(Entry)] /\ commitIndex \in [Server -> Nat]
          BY DEF TypeOK
        <5> QED BY <4>3, <4>4, <4>5, <5>1
      <4>7. TypeOK'
        BY <2>4, <3>1, <4>2, <4>6 DEF TypeOK
      <4>8. IndexOrder'
        BY <2>4, <4>6 DEF TypeInv, TypeOK, IndexOrder
      <4> QED BY <4>7, <4>8 DEF TypeInv
    <3> QED BY <3>2, <3>3
  <2> QED BY <2>5, <2>6
<1>11. ASSUME NEW i \in Server, NEW m \in msgs,
              HandleAppendReply(i, m) \/ HandleSnapshotReply(i, m)
       PROVE  TypeInv'
  <2>1. /\ m.src \in Server /\ m.term \in Nat /\ m.match \in Nat
        /\ m.type = "AppendEntriesReply" =>
              m.conflictTerm \in Nat /\ m.conflictIndex \in Nat
    BY <1>11, MessageTypes
       DEF HandleAppendReply, HandleSnapshotReply, AppendEntriesReply,
           InstallSnapshotReply
  <2>2. msgs' \subseteq Message
    BY <1>11 DEF HandleAppendReply, HandleSnapshotReply, Consume, TypeOK
  <2>3. UNCHANGED <<logVars, closed, votesGranted, applyVars, votes, elections,
                    faultVars>>
    BY <1>11 DEF HandleAppendReply, HandleSnapshotReply
  <2>4. \/ UNCHANGED <<hardVars, state, nextIndex, matchIndex, commitIndex,
                       committed>>
        \/ /\ BecomeFollower(i, m.term)
           /\ UNCHANGED <<nextIndex, matchIndex, commitIndex, committed>>
        \/ /\ RecordMatch(i, m.src, m.match)
           /\ UNCHANGED <<hardVars, state>>
        \/ /\ BackUp(i, m) /\ m.type = "AppendEntriesReply"
           /\ UNCHANGED <<hardVars, state, matchIndex, commitIndex, committed>>
    BY <1>11 DEF HandleAppendReply, HandleSnapshotReply
  <2>5. CASE UNCHANGED <<hardVars, state, nextIndex, matchIndex, commitIndex,
                         committed>>
    BY <2>2, <2>3, <2>5 DEF TypeInv, TypeOK, IndexOrder
  <2>6. CASE /\ BecomeFollower(i, m.term)
             /\ UNCHANGED <<nextIndex, matchIndex, commitIndex, committed>>
    <3>1. /\ currentTerm' \in [Server -> Nat]
          /\ votedFor' \in [Server -> Server \cup {Nil}]
          /\ hard' \in [Server -> [term : Nat, votedFor : Server \cup {Nil}]]
          /\ state' \in [Server -> {Follower, Candidate, Leader}]
      BY <2>1, <2>6, BecomeFollowerType
    <3> QED BY <2>2, <2>3, <2>6, <3>1 DEF TypeInv, TypeOK, IndexOrder
  <2>7. CASE /\ RecordMatch(i, m.src, m.match)
             /\ UNCHANGED <<hardVars, state>>
    <3>1. /\ nextIndex' \in [Server -> [Server -> Nat]]
          /\ matchIndex' \in [Server -> [Server -> Nat]]
          /\ commitIndex' \in [Server -> Nat]
          /\ committed' \subseteq [index : Nat, entry : Entry, by : Nat]
          /\ \A j \in Server : commitIndex[j] <= commitIndex'[j]
      BY <2>1, <2>7, RecordMatchType
    <3>2. TypeOK'
      BY <2>2, <2>3, <2>7, <3>1 DEF TypeOK
    <3>3. IndexOrder'
      BY <2>3, <3>1 DEF TypeInv, TypeOK, IndexOrder
    <3> QED BY <3>2, <3>3 DEF TypeInv
  <2>8. CASE /\ BackUp(i, m) /\ m.type = "AppendEntriesReply"
             /\ UNCHANGED <<hardVars, state, matchIndex, commitIndex, committed>>
    <3> DEFINE last == IF m.conflictTerm = 0 THEN 0
                       ELSE LastIndexWithTerm(i, m.conflictTerm)
               next == IF last > 0 THEN last + 1
                       ELSE MaxU(1, m.conflictIndex)
    <3>1. last \in Nat
      BY <2>1, <2>8, ScanTypes
    <3>2. next \in Nat
      <4> HIDE DEF last
      <4> QED BY <2>1, <2>8, <3>1 DEF MaxU
    <3>3. nextIndex' = [nextIndex EXCEPT ![i] = [@ EXCEPT ![m.src] = next]]
      BY <2>8 DEF BackUp
    <3> HIDE DEF next
    <3>4. nextIndex' \in [Server -> [Server -> Nat]]
      BY <2>1, <3>2, <3>3 DEF TypeOK
    <3> QED BY <2>2, <2>3, <2>8, <3>4 DEF TypeInv, TypeOK, IndexOrder
  <2> QED BY <2>4, <2>5, <2>6, <2>7, <2>8
<1>12. ASSUME NEW i \in Server, NEW m \in msgs, HandleInstallSnapshot(i, m)
       PROVE  TypeInv'
  <2>1. m \in InstallSnapshotArgs
    BY <1>12, MessageTypes DEF HandleInstallSnapshot
  <2> DEFINE s == m.snapshot
  <2>2. /\ m.term \in Nat /\ s \in Snapshot
        /\ s.index \in Nat /\ s.data \in Seq(Entry)
    BY <2>1 DEF InstallSnapshotArgs, Snapshot
  <2>3. currentTerm[i] \in Nat
    BY NodeTypes
  <2>4. UNCHANGED <<closed, leaderVars, ghostVars, faultVars>>
    BY <1>12 DEF HandleInstallSnapshot
  <2>5. CASE Refuses(i, m)
    <3>1. SnapshotReply(m, i, currentTerm[i]) \in Message
      BY <2>1, <2>3, ReplyTypes DEF Message
    <3>2. msgs' \subseteq Message
      BY <1>12, <2>5, <3>1 DEF HandleInstallSnapshot, Reply, TypeOK
    <3> QED BY <1>12, <2>5, <3>2
            DEF HandleInstallSnapshot, TypeInv, TypeOK, IndexOrder
  <2>6. CASE ~Refuses(i, m)
    <3>1. /\ currentTerm' \in [Server -> Nat]
          /\ votedFor' \in [Server -> Server \cup {Nil}]
          /\ hard' \in [Server -> [term : Nat, votedFor : Server \cup {Nil}]]
          /\ state' \in [Server -> {Follower, Candidate, Leader}]
      BY <1>12, <2>2, <2>6, BecomeFollowerType
         DEF HandleInstallSnapshot, FollowLeader
    <3>2. SnapshotReply(m, i, m.term) \in Message
      BY <2>1, <2>2, ReplyTypes DEF Message
    <3>3. msgs' \subseteq Message
      BY <1>12, <2>6, <3>2 DEF HandleInstallSnapshot, Reply, TypeOK
    <3>4. CASE Covered(i, s)
      <4>1. UNCHANGED <<logVars, commitIndex, applyVars>>
        BY <1>12, <2>6, <3>4 DEF HandleInstallSnapshot
      <4> QED BY <2>4, <3>1, <3>3, <4>1 DEF TypeInv, TypeOK, IndexOrder
    <3>5. CASE ~Covered(i, s)
      <4>1. LogAfterInstall(i, s) \in Seq(Entry)
        <5>1. s.index + 1 \in Nat /\ snap[i].index \in Nat
          <6>1. snap[i].index \in Nat
            BY LogTypes
          <6> QED BY <2>2, <6>1
        <5>2. HasEntry(i, s.index) => s.index + 1 > snap[i].index
          BY <2>2, <5>1 DEF HasEntry
        <5>3. HasEntry(i, s.index) => From(i, s.index + 1) \in Seq(Entry)
          BY <5>1, <5>2, LogTypes
        <5> QED BY <5>3 DEF LogAfterInstall
      <4>2. /\ log' = [log EXCEPT ![i] = LogAfterInstall(i, s)]
            /\ snap' = [snap EXCEPT ![i] = s]
            /\ sm' = [sm EXCEPT ![i] = s.data]
            /\ lastApplied' = [lastApplied EXCEPT ![i] = s.index]
            /\ commitIndex' = [commitIndex EXCEPT ![i] = s.index]
        BY <1>12, <2>6, <3>5 DEF HandleInstallSnapshot
      <4>3. /\ log' \in [Server -> Seq(Entry)] /\ snap' \in [Server -> Snapshot]
            /\ sm' \in [Server -> Seq(Entry)]
            /\ lastApplied' \in [Server -> Nat] /\ commitIndex' \in [Server -> Nat]
        BY <2>2, <4>1, <4>2 DEF TypeOK
      <4>4. TypeOK'
        BY <2>4, <3>1, <3>3, <4>3 DEF TypeOK
      <4>5. IndexOrder'
        BY <2>2, <4>2 DEF TypeInv, TypeOK, IndexOrder
      <4> QED BY <4>4, <4>5 DEF TypeInv
    <3> QED BY <3>4, <3>5
  <2> QED BY <2>5, <2>6
<1>13. ASSUME NEW i \in Server, NEW m \in msgs,
              CrashInVote(i, m) \/ CrashInAppend(i, m)
       PROVE  TypeInv'
  <2>1. msgs' \subseteq msgs /\ m.term \in Nat
    BY <1>13, MessageTypes
       DEF CrashInVote, CrashInAppend, Consume, RequestVoteArgs, AppendEntriesArgs
  <2>2. HardAfterTerm(i, m) \in [term : Nat, votedFor : Server \cup {Nil}]
    BY <2>1, NodeTypes DEF HardAfterTerm
  <2>3. log[i] \in Seq(Entry) /\ snap[i] \in Snapshot
    BY NodeTypes
  <2>4. CASE CrashInVote(i, m)
    BY <2>1, <2>2, <2>3, <2>4, RestartType DEF CrashInVote
  <2>5. CASE CrashInAppend(i, m)
    <3>1. PICK l \in PartialLogs(i, m) :
              RestartWith(i, HardAfterTerm(i, m), l, snap[i])
      BY <2>5 DEF CrashInAppend
    <3>2. m \in AppendEntriesArgs /\ Consistent(i, m)
      BY <2>5, MessageTypes DEF CrashInAppend
    <3>3. l \in Seq(Entry)
      BY <3>1, <3>2, AppendedLogType
    <3> QED BY <2>1, <2>2, <2>3, <3>1, <3>3, RestartType
  <2> QED BY <1>13, <2>4, <2>5
<1>14. CASE UNCHANGED vars
  BY <1>14 DEF vars, TypeInv, TypeOK, IndexOrder
<1> QED
  BY <1>1, <1>2, <1>3, <1>4, <1>5, <1>6, <1>7, <1>8, <1>9, <1>10, <1>11, <1>12,
     <1>13, <1>14
     DEF Next, Step, Receive

\* Every reachable state of the consensus core is well-typed, for every
\* membership and every value of the bounds: in particular no index or term a
\* handler computes from a hint, a snapshot boundary or a length underflows.
THEOREM TypeCorrect == Spec => []TypeOK
<1>1. Init => TypeInv
  BY TypeInit
<1>2. TypeInv /\ [Next]_vars => TypeInv'
  BY TypeNext
<1>3. TypeInv => TypeOK
  BY DEF TypeInv
<1> QED BY <1>1, <1>2, <1>3, PTL DEF Spec
-----------------------------------------------------------------------------
(* Election safety *)

Vote(t, v, c) == [term |-> t, voter |-> v, candidate |-> c]

\* The hard state on disk is the one in memory, except on a closed node, which
\* may learn a newer term and not write it.
HardInv ==
    \A i \in Server :
        /\ hard[i].term <= currentTerm[i]
        /\ closed[i] \/ hard[i].term = currentTerm[i]
        /\ closed[i] \/ hard[i].votedFor = votedFor[i]

\* A vote that was cast is still on disk, unless the disk has a newer term.
VotesDurable ==
    \A v \in votes :
        /\ v.term <= hard[v.voter].term
        /\ v.term = hard[v.voter].term => hard[v.voter].votedFor = v.candidate

OneVote ==
    \A u, v \in votes :
        u.term = v.term /\ u.voter = v.voter => u.candidate = v.candidate

\* A granting reply, a candidate's tally and an election won rest on votes cast.
Grant(m) == m.type = "RequestVoteReply" /\ m.voteGranted = TRUE

RepliesCast == \A m \in msgs : Grant(m) => Vote(m.sentIn, m.src, m.dst) \in votes

TallyCast ==
    \A i \in Server : state[i] = Candidate =>
        \A v \in votesGranted[i] : Vote(currentTerm[i], v, i) \in votes

Supporters(t, c) == {v \in Server : Vote(t, v, c) \in votes}

ElectionsWon == \A e \in elections : Majority(Supporters(e.term, e.leader))

VoteInv == HardInv /\ VotesDurable /\ OneVote /\ RepliesCast /\ TallyCast
           /\ ElectionsWon

NoNewGrant == \A m \in msgs' \ msgs : ~Grant(m)

\* Two majorities of the membership have a node in common.
LEMMA MajoritiesMeet ==
    ASSUME NEW S \in SUBSET Server, NEW T \in SUBSET Server,
           Majority(S), Majority(T)
    PROVE  \E v \in S : v \in T
<1>1. IsFiniteSet(Server) /\ IsFiniteSet(S) /\ IsFiniteSet(T)
  BY ServerAssumption, FS_Subset
<1>2. Cardinality(Server) \in Nat /\ Cardinality(S) \in Nat /\ Cardinality(T) \in Nat
  BY <1>1, FS_CardinalityType
<1>3. Cardinality(S) + Cardinality(T) > Cardinality(Server)
  BY <1>2 DEF Majority
<1>4. S \cap T # {}
  BY <1>1, <1>3, FS_MajoritiesIntersect
<1> QED BY <1>4

\* More supporters keep a majority.
LEMMA MajorityGrows ==
    ASSUME NEW S \in SUBSET Server, NEW T \in SUBSET Server,
           S \subseteq T, Majority(S)
    PROVE  Majority(T)
<1>1. IsFiniteSet(Server) /\ IsFiniteSet(S) /\ IsFiniteSet(T)
  BY ServerAssumption, FS_Subset
<1>2. Cardinality(Server) \in Nat /\ Cardinality(S) \in Nat /\ Cardinality(T) \in Nat
  BY <1>1, FS_CardinalityType
<1>3. Cardinality(S) <= Cardinality(T)
  BY <1>1, FS_Subset
<1> QED BY <1>2, <1>3 DEF Majority

\* Votes are never forgotten, so elections stay won.
LEMMA ElectionsStayWon ==
    ASSUME VoteInv, votes \subseteq votes'
    PROVE  \A e \in elections : Majority(Supporters(e.term, e.leader)')
<1>1. SUFFICES ASSUME NEW e \in elections
               PROVE  Majority(Supporters(e.term, e.leader)')
  OBVIOUS
<1>2. Majority(Supporters(e.term, e.leader))
  BY DEF VoteInv, ElectionsWon
<1>3. /\ Supporters(e.term, e.leader) \subseteq Supporters(e.term, e.leader)'
      /\ Supporters(e.term, e.leader) \in SUBSET Server
      /\ Supporters(e.term, e.leader)' \in SUBSET Server
  BY DEF Supporters, Vote
<1> QED BY <1>2, <1>3, MajorityGrows

\* ... and the grants in the network stay covered.
LEMMA VotesGrow ==
    ASSUME VoteInv, votes \subseteq votes', elections' = elections, NoNewGrant
    PROVE  RepliesCast' /\ ElectionsWon'
<1>1. RepliesCast'
  BY DEF VoteInv, RepliesCast, NoNewGrant, Grant, Vote
<1>2. ElectionsWon'
  BY ElectionsStayWon DEF ElectionsWon, Majority
<1> QED BY <1>1, <1>2

\* A step that touches neither roles, terms nor votes.
LEMMA VoteQuiet ==
    ASSUME VoteInv, NoNewGrant,
           UNCHANGED <<currentTerm, votedFor, hard, closed, state, votesGranted,
                       votes, elections>>
    PROVE  VoteInv'
<1>1. RepliesCast' /\ ElectionsWon'
  BY VotesGrow
<1>2. HardInv' /\ VotesDurable' /\ OneVote' /\ TallyCast'
  BY DEF VoteInv, HardInv, VotesDurable, OneVote, TallyCast, Vote
<1> QED BY <1>1, <1>2 DEF VoteInv
\* A hard state write of a newer term, or none, leaves every vote durable.
LEMMA DurableNewTerm ==
    ASSUME TypeInv, VoteInv, NEW i \in Server,
           NEW h \in [term : Nat, votedFor : Server \cup {Nil}],
           h = hard[i] \/ h.term > hard[i].term,
           hard' = [hard EXCEPT ![i] = h], votes' = votes
    PROVE  VotesDurable'
<1>1. SUFFICES ASSUME NEW v \in votes
               PROVE  /\ v.term <= hard'[v.voter].term
                      /\ v.term = hard'[v.voter].term
                            => hard'[v.voter].votedFor = v.candidate
  BY DEF VotesDurable
<1>2. /\ v.term \in Nat /\ v.voter \in Server
      /\ hard[v.voter].term \in Nat
      /\ v.term <= hard[v.voter].term
      /\ v.term = hard[v.voter].term => hard[v.voter].votedFor = v.candidate
  <2>1. votes \subseteq [term : Nat, voter : Server, candidate : Server]
        /\ hard \in [Server -> [term : Nat, votedFor : Server \cup {Nil}]]
    BY DEF TypeInv, TypeOK
  <2> QED BY <2>1 DEF VoteInv, VotesDurable
<1>3. hard \in [Server -> [term : Nat, votedFor : Server \cup {Nil}]]
  BY DEF TypeInv, TypeOK
<1>4. CASE v.voter = i
  BY <1>2, <1>3, <1>4
<1>5. CASE v.voter # i
  BY <1>2, <1>3, <1>5
<1> QED BY <1>4, <1>5

\* Adopting a term, on any message: no vote is lost.
LEMMA VoteFollow ==
    ASSUME TypeInv, VoteInv, NoNewGrant, NEW i \in Server, NEW t \in Nat,
           BecomeFollower(i, t),
           UNCHANGED <<closed, votesGranted, votes, elections>>
    PROVE  VoteInv'
<1>t. /\ currentTerm \in [Server -> Nat]
      /\ votedFor \in [Server -> Server \cup {Nil}]
      /\ hard \in [Server -> [term : Nat, votedFor : Server \cup {Nil}]]
      /\ state \in [Server -> {Follower, Candidate, Leader}]
      /\ closed \in [Server -> BOOLEAN]
  BY DEF TypeInv, TypeOK
<1>1. RepliesCast' /\ ElectionsWon'
  BY VotesGrow
<1>2. OneVote'
  BY DEF VoteInv, OneVote
<1>3. /\ state' = [state EXCEPT ![i] = Follower]
      /\ \A j \in Server \ {i} : currentTerm'[j] = currentTerm[j]
  BY <1>t DEF BecomeFollower, hardVars
<1>4. TallyCast'
  <2>1. SUFFICES ASSUME NEW j \in Server, state'[j] = Candidate,
                        NEW v \in votesGranted[j]
                 PROVE  Vote(currentTerm'[j], v, j) \in votes
    BY DEF TallyCast, Vote
  <2>2. j # i /\ state[j] = Candidate
    BY <1>3, <1>t, <2>1 DEF Candidate, Follower
  <2> QED BY <2>1, <2>2, <1>3 DEF VoteInv, TallyCast
<1>5. CASE ~(t > currentTerm[i])
  <2>1. UNCHANGED <<currentTerm, votedFor, hard>>
    BY <1>5 DEF BecomeFollower, hardVars
  <2>2. HardInv' /\ VotesDurable'
    BY <2>1 DEF VoteInv, HardInv, VotesDurable
  <2> QED BY <1>1, <1>2, <1>4, <2>2 DEF VoteInv
<1>6. CASE t > currentTerm[i]
  <2> DEFINE h == IF closed[i] THEN hard[i] ELSE [term |-> t, votedFor |-> Nil]
  <2>1. /\ currentTerm' = [currentTerm EXCEPT ![i] = t]
        /\ votedFor' = [votedFor EXCEPT ![i] = Nil]
        /\ hard' = [hard EXCEPT ![i] = h]
    BY <1>6, <1>t DEF BecomeFollower, Persist
  <2>2. /\ h \in [term : Nat, votedFor : Server \cup {Nil}]
        /\ h = hard[i] \/ h.term > hard[i].term
    <3>1. hard[i].term <= currentTerm[i]
      BY DEF VoteInv, HardInv
    <3> QED BY <3>1, <1>t, <1>6
  <2>3. VotesDurable'
    <3> HIDE DEF h
    <3> QED BY <2>1, <2>2, DurableNewTerm
  <2>4. HardInv'
    <3>1. SUFFICES ASSUME NEW j \in Server
                   PROVE  /\ hard'[j].term <= currentTerm'[j]
                          /\ closed[j] \/ hard'[j].term = currentTerm'[j]
                          /\ closed[j] \/ hard'[j].votedFor = votedFor'[j]
      BY DEF HardInv
    <3>2. /\ hard[j].term <= currentTerm[j]
          /\ closed[j] \/ hard[j].term = currentTerm[j]
          /\ closed[j] \/ hard[j].votedFor = votedFor[j]
      BY DEF VoteInv, HardInv
    <3>3. CASE j # i
      BY <3>2, <3>3, <2>1, <1>t
    <3>4. CASE j = i /\ closed[i]
      BY <3>2, <3>4, <2>1, <1>t, <1>6
    <3>5. CASE j = i /\ ~closed[i]
      BY <3>2, <3>5, <2>1, <1>t, <1>6
    <3> QED BY <3>3, <3>4, <3>5
  <2> QED BY <1>1, <1>2, <1>4, <2>3, <2>4 DEF VoteInv
<1> QED BY <1>5, <1>6

\* Restarting on the hard state, as it is or with a newer term.
LEMMA VoteRestart ==
    ASSUME TypeInv, VoteInv, NoNewGrant, NEW i \in Server,
           NEW h \in [term : Nat, votedFor : Server \cup {Nil}],
           h = hard[i] \/ h.term > hard[i].term,
           NEW l, NEW s, RestartWith(i, h, l, s)
    PROVE  VoteInv'
<1>t. /\ currentTerm \in [Server -> Nat]
      /\ votedFor \in [Server -> Server \cup {Nil}]
      /\ hard \in [Server -> [term : Nat, votedFor : Server \cup {Nil}]]
      /\ state \in [Server -> {Follower, Candidate, Leader}]
      /\ closed \in [Server -> BOOLEAN]
      /\ votesGranted \in [Server -> SUBSET Server]
  BY DEF TypeInv, TypeOK
<1>1. /\ hard' = [hard EXCEPT ![i] = h]
      /\ currentTerm' = [currentTerm EXCEPT ![i] = h.term]
      /\ votedFor' = [votedFor EXCEPT ![i] = h.votedFor]
      /\ state' = [state EXCEPT ![i] = Follower]
      /\ closed' = [closed EXCEPT ![i] = FALSE]
      /\ votesGranted' = [votesGranted EXCEPT ![i] = {}]
      /\ votes' = votes /\ elections' = elections
  BY DEF RestartWith, ghostVars
<1>2. RepliesCast' /\ ElectionsWon'
  BY <1>1, VotesGrow
<1>3. OneVote'
  BY <1>1 DEF VoteInv, OneVote
<1>4. VotesDurable'
  BY <1>1, DurableNewTerm
<1>5. HardInv'
  <2>1. SUFFICES ASSUME NEW j \in Server
                 PROVE  /\ hard'[j].term <= currentTerm'[j]
                        /\ closed'[j] \/ hard'[j].term = currentTerm'[j]
                        /\ closed'[j] \/ hard'[j].votedFor = votedFor'[j]
    BY DEF HardInv
  <2>2. /\ hard[j].term <= currentTerm[j]
        /\ closed[j] \/ hard[j].term = currentTerm[j]
        /\ closed[j] \/ hard[j].votedFor = votedFor[j]
    BY DEF VoteInv, HardInv
  <2>3. CASE j = i
    BY <2>3, <1>1, <1>t
  <2>4. CASE j # i
    BY <2>2, <2>4, <1>1, <1>t
  <2> QED BY <2>3, <2>4
<1>6. TallyCast'
  <2>1. SUFFICES ASSUME NEW j \in Server, state'[j] = Candidate,
                        NEW v \in votesGranted'[j]
                 PROVE  Vote(currentTerm'[j], v, j) \in votes
    BY <1>1 DEF TallyCast, Vote
  <2>2. j # i /\ state[j] = Candidate
    BY <1>1, <1>t, <2>1 DEF Candidate, Follower
  <2>3. currentTerm'[j] = currentTerm[j] /\ votesGranted'[j] = votesGranted[j]
    BY <1>1, <1>t, <2>2
  <2> QED BY <2>1, <2>2, <2>3 DEF VoteInv, TallyCast
<1> QED BY <1>2, <1>3, <1>4, <1>5, <1>6 DEF VoteInv
\* Casting a vote and writing it: in a newer term than the disk has, or in the
\* same term with no vote for somebody else on disk.
LEMMA CastVote ==
    ASSUME TypeInv, VoteInv, NEW i \in Server, NEW c \in Server, NEW t \in Nat,
           \/ t > hard[i].term
           \/ t = hard[i].term /\ hard[i].votedFor \in {Nil, c},
           hard' = [hard EXCEPT ![i] = [term |-> t, votedFor |-> c]],
           votes' = votes \cup {Vote(t, i, c)}
    PROVE  VotesDurable' /\ OneVote'
<1>t. /\ votes \subseteq [term : Nat, voter : Server, candidate : Server]
      /\ hard \in [Server -> [term : Nat, votedFor : Server \cup {Nil}]]
  BY DEF TypeInv, TypeOK
<1>1. ASSUME NEW v \in votes
      PROVE  /\ v.term \in Nat /\ v.voter \in Server /\ v.candidate \in Server
             /\ v.term <= hard[v.voter].term
             /\ v.term = hard[v.voter].term => hard[v.voter].votedFor = v.candidate
  BY <1>t DEF VoteInv, VotesDurable
<1>2. ASSUME NEW v \in votes, v.voter = i, v.term = t
      PROVE  v.candidate = c
  <2>1. t = hard[i].term /\ hard[i].votedFor \in {Nil, c}
    BY <1>1, <1>2, <1>t
  <2>2. hard[i].votedFor = v.candidate /\ v.candidate # Nil
    BY <1>1, <1>2, <2>1, ServerAssumption
  <2> QED BY <2>1, <2>2
<1>3. OneVote'
  <2>1. \A u, v \in votes :
           u.term = v.term /\ u.voter = v.voter => u.candidate = v.candidate
    BY DEF VoteInv, OneVote
  <2> QED BY <1>2, <2>1 DEF OneVote, Vote
<1>4. VotesDurable'
  <2>1. SUFFICES ASSUME NEW v \in votes \cup {Vote(t, i, c)}
                 PROVE  /\ v.term <= hard'[v.voter].term
                        /\ v.term = hard'[v.voter].term
                              => hard'[v.voter].votedFor = v.candidate
    BY DEF VotesDurable
  <2>2. hard'[i] = [term |-> t, votedFor |-> c]
        /\ \A j \in Server \ {i} : hard'[j] = hard[j]
    BY <1>t
  <2>3. CASE v = Vote(t, i, c)
    BY <2>2, <2>3 DEF Vote
  <2>4. CASE v \in votes /\ v.voter = i
    <3>1. v.term <= t
      BY <1>1, <1>t, <2>4
    <3> QED BY <1>2, <2>2, <2>4, <3>1
  <2>5. CASE v \in votes /\ v.voter # i
    BY <1>1, <2>2, <2>5
  <2> QED BY <2>1, <2>3, <2>4, <2>5
<1> QED BY <1>3, <1>4

\* startElection casts the vote of the candidate itself in a new term.
LEMMA VoteStart ==
    ASSUME TypeInv, VoteInv, NEW i \in Server, NEW Q \in SUBSET (Server \ {i}),
           StartElection(i, Q)
    PROVE  VoteInv'
<1>t. /\ currentTerm \in [Server -> Nat]
      /\ votedFor \in [Server -> Server \cup {Nil}]
      /\ hard \in [Server -> [term : Nat, votedFor : Server \cup {Nil}]]
      /\ state \in [Server -> {Follower, Candidate, Leader}]
      /\ closed \in [Server -> BOOLEAN]
      /\ votesGranted \in [Server -> SUBSET Server]
  BY DEF TypeInv, TypeOK
<1> DEFINE t == currentTerm[i] + 1
<1>1. /\ ~closed[i] /\ t \in Nat /\ t > currentTerm[i]
      /\ hard[i].term <= currentTerm[i] /\ hard[i].term \in Nat
  BY <1>t DEF StartElection, VoteInv, HardInv
<1>2. /\ state' = [state EXCEPT ![i] = Candidate]
      /\ currentTerm' = [currentTerm EXCEPT ![i] = t]
      /\ votedFor' = [votedFor EXCEPT ![i] = i]
      /\ hard' = [hard EXCEPT ![i] = [term |-> t, votedFor |-> i]]
      /\ votesGranted' = [votesGranted EXCEPT ![i] = {i}]
      /\ votes' = votes \cup {Vote(t, i, i)}
      /\ elections' = elections /\ closed' = closed
  BY <1>1 DEF StartElection, Persist, Vote
<1>3. NoNewGrant
  BY DEF StartElection, Send, NoNewGrant, Grant
<1> HIDE DEF t
<1>4. RepliesCast' /\ ElectionsWon'
  BY <1>2, <1>3, VotesGrow
<1>5. VotesDurable' /\ OneVote'
  <2>1. t > hard[i].term
    BY <1>1, <1>t
  <2> QED BY <1>1, <1>2, <2>1, CastVote
<1>6. HardInv'
  <2>1. \A j \in Server : /\ hard[j].term <= currentTerm[j]
                          /\ closed[j] \/ hard[j].term = currentTerm[j]
                          /\ closed[j] \/ hard[j].votedFor = votedFor[j]
    BY DEF VoteInv, HardInv
  <2> QED BY <1>t, <1>1, <1>2, <2>1 DEF HardInv
<1>7. TallyCast'
  <2>1. SUFFICES ASSUME NEW j \in Server, state'[j] = Candidate,
                        NEW v \in votesGranted'[j]
                 PROVE  Vote(currentTerm'[j], v, j) \in votes'
    BY DEF TallyCast, Vote
  <2>2. CASE j = i
    BY <1>2, <1>t, <2>1, <2>2
  <2>3. CASE j # i
    <3>1. /\ currentTerm'[j] = currentTerm[j] /\ state[j] = Candidate
          /\ v \in votesGranted[j]
      BY <1>2, <1>t, <2>1, <2>3
    <3> QED BY <1>2, <3>1 DEF VoteInv, TallyCast
  <2> QED BY <2>2, <2>3
<1> QED BY <1>4, <1>5, <1>6, <1>7 DEF VoteInv

\* HandleRequestVote answers a grant only for the vote it has written.
LEMMA VoteHandle ==
    ASSUME TypeInv, VoteInv, NEW i \in Server, NEW m \in msgs,
           HandleRequestVote(i, m)
    PROVE  VoteInv'
<1> TypeOK
  BY DEF TypeInv
<1>t. /\ currentTerm \in [Server -> Nat]
      /\ votedFor \in [Server -> Server \cup {Nil}]
      /\ hard \in [Server -> [term : Nat, votedFor : Server \cup {Nil}]]
      /\ state \in [Server -> {Follower, Candidate, Leader}]
      /\ closed \in [Server -> BOOLEAN]
  BY DEF TypeOK
<1>1. m.src \in Server /\ m.term \in Nat
  BY MessageTypes DEF HandleRequestVote, RequestVoteArgs
<1>2. CASE Refuses(i, m)
  <2>1. NoNewGrant
    BY <1>2 DEF HandleRequestVote, Reply, VoteReply, NoNewGrant, Grant
  <2> QED BY <1>2, <2>1, VoteQuiet
          DEF HandleRequestVote, hardVars, leaderVars
<1>3. CASE ~Refuses(i, m)
  <2> DEFINE newer == m.term > currentTerm[i]
             vote  == IF Grants(i, m) THEN m.src
                      ELSE IF newer THEN Nil ELSE votedFor[i]
  <2>1. /\ ~closed[i] /\ m.term >= currentTerm[i]
        /\ hard[i].term = currentTerm[i] /\ hard[i].votedFor = votedFor[i]
    BY <1>1, <1>3, <1>t DEF Refuses, VoteInv, HardInv
  <2>2. /\ currentTerm' = [currentTerm EXCEPT ![i] = m.term]
        /\ votedFor' = [votedFor EXCEPT ![i] = vote]
        /\ state' = [state EXCEPT ![i] = IF newer THEN Follower ELSE @]
        /\ IF newer \/ Grants(i, m)
           THEN hard' = [hard EXCEPT ![i] = [term |-> m.term, votedFor |-> vote]]
           ELSE hard' = hard
        /\ votes' = IF Grants(i, m) THEN votes \cup {Vote(m.term, i, m.src)}
                    ELSE votes
        /\ msgs' = (msgs \ {m}) \cup {VoteReply(m, i, m.term, Grants(i, m))}
        /\ UNCHANGED <<closed, votesGranted, elections>>
    BY <1>3, <2>1 DEF HandleRequestVote, Persist, Reply, leaderVars, Vote
  <2>3. HardInv'
    <3>1. \A j \in Server : /\ hard[j].term <= currentTerm[j]
                            /\ closed[j] \/ hard[j].term = currentTerm[j]
                            /\ closed[j] \/ hard[j].votedFor = votedFor[j]
      BY DEF VoteInv, HardInv
    <3>2. hard' = [hard EXCEPT ![i] = [term |-> m.term, votedFor |-> vote]]
      <4>1. CASE newer \/ Grants(i, m)
        BY <4>1, <2>2
      <4>2. CASE ~(newer \/ Grants(i, m))
        <5>1. hard[i] = [term |-> m.term, votedFor |-> vote]
          BY <4>2, <2>1, <1>t, <1>1
        <5> QED BY <5>1, <4>2, <2>2, <1>t
      <4> QED BY <4>1, <4>2
    <3> HIDE DEF vote
    <3> QED BY <3>1, <3>2, <2>2, <1>t, <1>1 DEF HardInv
  <2>4. TallyCast'
    <3>1. SUFFICES ASSUME NEW j \in Server, state'[j] = Candidate,
                          NEW v \in votesGranted[j]
                   PROVE  Vote(currentTerm'[j], v, j) \in votes'
      BY <2>2 DEF TallyCast, Vote
    <3>2. state[j] = Candidate /\ currentTerm'[j] = currentTerm[j]
      <4>1. CASE j = i
        <5>1. ~newer /\ state[i] = Candidate
          BY <2>2, <3>1, <4>1, <1>t DEF Candidate, Follower
        <5>2. m.term = currentTerm[i]
          BY <5>1, <2>1, <1>1, <1>t
        <5> QED BY <5>1, <5>2, <4>1, <2>2, <1>t
      <4>2. CASE j # i
        BY <2>2, <3>1, <4>2, <1>t
      <4> QED BY <4>1, <4>2
    <3>3. votes \subseteq votes'
      BY <2>2
    <3> QED BY <3>1, <3>2, <3>3 DEF VoteInv, TallyCast
  <2>5. CASE Grants(i, m)
    <3>1. VotesDurable' /\ OneVote'
      <4>1. \/ m.term > hard[i].term
            \/ m.term = hard[i].term /\ hard[i].votedFor \in {Nil, m.src}
        BY <2>1, <2>5, <1>1, <1>t DEF Grants
      <4>2. /\ hard' = [hard EXCEPT ![i] = [term |-> m.term, votedFor |-> m.src]]
            /\ votes' = votes \cup {Vote(m.term, i, m.src)}
        BY <2>2, <2>5
      <4> QED BY <4>1, <4>2, <1>1, CastVote
    <3>2. RepliesCast'
      <4>1. SUFFICES ASSUME NEW n \in msgs', Grant(n)
                     PROVE  Vote(n.sentIn, n.src, n.dst) \in votes'
        BY DEF RepliesCast, Grant, Vote
      <4>2. CASE n \in msgs
        BY <4>1, <4>2, <2>2, <2>5 DEF VoteInv, RepliesCast
      <4>3. CASE n = VoteReply(m, i, m.term, Grants(i, m))
        BY <4>3, <2>2, <2>5 DEF VoteReply, Vote
      <4> QED BY <4>1, <4>2, <4>3, <2>2
    <3>3. ElectionsWon'
      <4>1. votes \subseteq votes' /\ elections' = elections
        BY <2>2
      <4> QED BY <4>1, ElectionsStayWon DEF ElectionsWon, Majority
    <3> QED BY <2>3, <2>4, <3>1, <3>2, <3>3 DEF VoteInv
  <2>6. CASE ~Grants(i, m)
    <3>1. NoNewGrant
      BY <2>2, <2>6 DEF NoNewGrant, Grant, VoteReply
    <3>2. RepliesCast' /\ ElectionsWon'
      BY <2>2, <2>6, <3>1, VotesGrow
    <3>3. OneVote'
      BY <2>2, <2>6 DEF VoteInv, OneVote
    <3>4. VotesDurable'
      <4>1. CASE newer
        <5>1. hard' = [hard EXCEPT ![i] = [term |-> m.term, votedFor |-> Nil]]
              /\ votes' = votes
          BY <2>2, <2>6, <4>1
        <5>2. m.term > hard[i].term
          BY <2>1, <4>1
        <5> QED BY <5>1, <5>2, <1>1, DurableNewTerm
      <4>2. CASE ~newer
        BY <2>2, <2>6, <4>2 DEF VoteInv, VotesDurable
      <4> QED BY <4>1, <4>2
    <3> QED BY <2>3, <2>4, <3>2, <3>3, <3>4 DEF VoteInv
  <2> QED BY <2>5, <2>6
<1> QED BY <1>2, <1>3

\* Counting a reply: whoever becomes leader holds votes of a majority.
LEMMA VoteTally ==
    ASSUME TypeInv, VoteInv, NEW i \in Server, NEW m \in msgs,
           HandleVoteReply(i, m)
    PROVE  VoteInv'
<1> TypeOK
  BY DEF TypeInv
<1>t. /\ currentTerm \in [Server -> Nat]
      /\ state \in [Server -> {Follower, Candidate, Leader}]
      /\ votesGranted \in [Server -> SUBSET Server]
  BY DEF TypeOK
<1>1. m.src \in Server /\ m.term \in Nat /\ m.type = "RequestVoteReply"
      /\ m.dst = i /\ m.voteGranted \in BOOLEAN
  BY MessageTypes DEF HandleVoteReply, RequestVoteReply
<1>2. NoNewGrant /\ UNCHANGED <<closed, votes>>
  BY DEF HandleVoteReply, Consume, NoNewGrant
<1>3. CASE currentTerm[i] # m.sentIn \/ state[i] # Candidate
  BY <1>2, <1>3, VoteQuiet DEF HandleVoteReply, hardVars, leaderVars
<1>4. CASE /\ currentTerm[i] = m.sentIn /\ state[i] = Candidate
           /\ m.term > currentTerm[i]
  <2>1. /\ BecomeFollower(i, m.term)
        /\ UNCHANGED <<closed, votesGranted, votes, elections>>
    BY <1>2, <1>4 DEF HandleVoteReply, leaderVars
  <2> QED BY <1>1, <1>2, <2>1, VoteFollow
<1>5. CASE /\ currentTerm[i] = m.sentIn /\ state[i] = Candidate
           /\ ~(m.term > currentTerm[i]) /\ ~m.voteGranted
  BY <1>2, <1>5, VoteQuiet DEF HandleVoteReply, hardVars, leaderVars
<1>6. CASE /\ currentTerm[i] = m.sentIn /\ state[i] = Candidate
           /\ ~(m.term > currentTerm[i]) /\ m.voteGranted
  <2> DEFINE tally == votesGranted[i] \cup {m.src}
  <2>1. /\ votesGranted' = [votesGranted EXCEPT ![i] = tally]
        /\ IF Majority(tally) THEN BecomeLeader(i)
           ELSE UNCHANGED <<state, nextIndex, matchIndex, log, elections>>
        /\ UNCHANGED <<currentTerm, votedFor, hard>>
    BY <1>6 DEF HandleVoteReply, hardVars
  <2>2. \A v \in tally : Vote(currentTerm[i], v, i) \in votes
    <3>1. Vote(m.sentIn, m.src, m.dst) \in votes
      BY <1>1, <1>6 DEF VoteInv, RepliesCast, Grant
    <3> QED BY <1>1, <1>6, <3>1 DEF VoteInv, TallyCast
  <2>3. HardInv' /\ VotesDurable' /\ OneVote'
    BY <1>2, <2>1 DEF VoteInv, HardInv, VotesDurable, OneVote
  <2>4. RepliesCast'
    BY <1>2 DEF VoteInv, RepliesCast, NoNewGrant, Vote, Grant
  <2>5. TallyCast'
    <3>1. SUFFICES ASSUME NEW j \in Server, state'[j] = Candidate,
                          NEW v \in votesGranted'[j]
                   PROVE  Vote(currentTerm[j], v, j) \in votes
      BY <1>2, <2>1 DEF TallyCast, Vote
    <3>2. CASE j = i
      BY <1>t, <2>1, <2>2, <3>1, <3>2
    <3>3. CASE j # i
      <4>1. v \in votesGranted[j] /\ state[j] = Candidate
        BY <1>t, <2>1, <3>1, <3>3 DEF BecomeLeader
      <4> QED BY <4>1 DEF VoteInv, TallyCast
    <3> QED BY <3>2, <3>3
  <2>6. ElectionsWon'
    <3>1. votes \subseteq votes' /\ votes' = votes
      BY <1>2
    <3>2. \A e \in elections : Majority(Supporters(e.term, e.leader)')
      BY <3>1, ElectionsStayWon
    <3>3. CASE Majority(tally)
      <4>1. elections' = elections \cup {[term |-> currentTerm[i], leader |-> i]}
        BY <2>1, <3>3 DEF BecomeLeader
      <4>2. /\ tally \in SUBSET Server
            /\ Supporters(currentTerm[i], i)' \in SUBSET Server
            /\ tally \subseteq Supporters(currentTerm[i], i)'
        <5>1. tally \in SUBSET Server
          BY <1>1, <1>t
        <5> QED BY <2>1, <2>2, <3>1, <5>1 DEF Supporters, Vote
      <4>3. Majority(Supporters(currentTerm[i], i)')
        <5> HIDE DEF tally
        <5> QED BY <3>3, <4>2, MajorityGrows
      <4>4. \A e \in elections' : Majority(Supporters(e.term, e.leader)')
        <5>1. TAKE e \in elections'
        <5>2. CASE e \in elections
          BY <3>2, <5>2
        <5>3. CASE e = [term |-> currentTerm[i], leader |-> i]
          <6>1. e.term = currentTerm[i] /\ e.leader = i
            BY <5>3
          <6>2. Supporters(e.term, e.leader)' = Supporters(currentTerm[i], i)'
            BY <6>1, <2>1 DEF Supporters, Vote
          <6> QED BY <4>3, <6>2
        <5> QED BY <4>1, <5>2, <5>3
      <4> QED BY <4>4 DEF ElectionsWon, Majority
    <3>4. CASE ~Majority(tally)
      BY <2>1, <3>2, <3>4 DEF ElectionsWon, Majority
    <3> QED BY <3>3, <3>4
  <2> QED BY <2>3, <2>4, <2>5, <2>6 DEF VoteInv
<1> QED BY <1>1, <1>3, <1>4, <1>5, <1>6

\* Every step of Next keeps the vote invariant.
LEMMA VoteNext == TypeInv /\ VoteInv /\ [Next]_vars => VoteInv'
<1> SUFFICES ASSUME TypeInv, VoteInv, [Next]_vars PROVE VoteInv'
  OBVIOUS
<1> TypeOK
  BY DEF TypeInv
<1> USE DEF hardVars, logVars, leaderVars, applyVars, ghostVars, faultVars
<1>1. ASSUME NEW i \in Server, NEW Q \in SUBSET (Server \ {i}),
             StartElection(i, Q)
      PROVE  VoteInv'
  BY <1>1, VoteStart
<1>2. ASSUME NEW i \in Server, NEW c \in Command, Propose(i, c)
      PROVE  VoteInv'
  BY <1>2, VoteQuiet DEF Propose, NoNewGrant
<1>3. ASSUME NEW i \in Server, NEW p \in Server, ReplicateTo(i, p)
      PROVE  VoteInv'
  <2>1. NoNewGrant
    BY <1>3 DEF ReplicateTo, Send, NoNewGrant, Grant
  <2> QED BY <1>3, <2>1, VoteQuiet DEF ReplicateTo
<1>4. ASSUME NEW i \in Server, Apply(i) PROVE VoteInv'
  <2>1. NoNewGrant
    BY <1>4 DEF Apply, NoNewGrant
  <2> QED BY <1>4, <2>1, VoteQuiet DEF Apply
<1>5. ASSUME NEW i \in Server, Stop(i) PROVE VoteInv'
  <2>1. /\ NoNewGrant
        /\ UNCHANGED <<currentTerm, votedFor, hard, state, votesGranted, votes,
                       elections>>
        /\ \A j \in Server : closed[j] => closed'[j]
    BY <1>5 DEF Stop, NoNewGrant, TypeOK
  <2>2. HardInv'
    BY <2>1 DEF VoteInv, HardInv
  <2>3. RepliesCast' /\ ElectionsWon'
    BY <2>1, VotesGrow
  <2>4. VotesDurable' /\ OneVote' /\ TallyCast'
    BY <2>1 DEF VoteInv, VotesDurable, OneVote, TallyCast, Vote
  <2> QED BY <2>2, <2>3, <2>4 DEF VoteInv
<1>6. ASSUME NEW i \in Server, Restart(i) PROVE VoteInv'
  <2>1. NoNewGrant /\ RestartWith(i, hard[i], log[i], snap[i])
    BY <1>6 DEF Restart, NoNewGrant
  <2>2. hard[i] \in [term : Nat, votedFor : Server \cup {Nil}]
    BY NodeTypes
  <2> QED BY <2>1, <2>2, VoteRestart
<1>7. ASSUME NEW m \in msgs, Lose(m) PROVE VoteInv'
  BY <1>7, VoteQuiet DEF Lose, Consume, NoNewGrant
<1>8. ASSUME NEW i \in Server, NEW m \in msgs, HandleRequestVote(i, m)
      PROVE  VoteInv'
  BY <1>8, VoteHandle
<1>9. ASSUME NEW i \in Server, NEW m \in msgs, HandleVoteReply(i, m)
      PROVE  VoteInv'
  BY <1>9, VoteTally
<1>10. ASSUME NEW i \in Server, NEW m \in msgs, HandleAppendEntries(i, m)
       PROVE  VoteInv'
  <2>1. m.term \in Nat
    BY <1>10, MessageTypes DEF HandleAppendEntries, AppendEntriesArgs
  <2>2. NoNewGrant
    BY <1>10 DEF HandleAppendEntries, Reply, AppendReply, InconsistentReply,
                 NoNewGrant, Grant
  <2>3. UNCHANGED <<closed, votesGranted, votes, elections>>
    BY <1>10 DEF HandleAppendEntries
  <2>4. CASE Refuses(i, m)
    BY <1>10, <2>2, <2>3, <2>4, VoteQuiet DEF HandleAppendEntries
  <2>5. CASE ~Refuses(i, m)
    <3>1. BecomeFollower(i, m.term)
      BY <1>10, <2>5 DEF HandleAppendEntries, FollowLeader
    <3> QED BY <2>1, <2>2, <2>3, <3>1, VoteFollow
  <2> QED BY <2>4, <2>5
<1>11. ASSUME NEW i \in Server, NEW m \in msgs,
              HandleAppendReply(i, m) \/ HandleSnapshotReply(i, m)
       PROVE  VoteInv'
  <2>1. m.term \in Nat
    BY <1>11, MessageTypes
       DEF HandleAppendReply, HandleSnapshotReply, AppendEntriesReply,
           InstallSnapshotReply
  <2>2. NoNewGrant /\ UNCHANGED <<closed, votesGranted, votes, elections>>
    BY <1>11 DEF HandleAppendReply, HandleSnapshotReply, Consume, NoNewGrant
  <2>3. \/ UNCHANGED <<currentTerm, votedFor, hard, state>>
        \/ BecomeFollower(i, m.term)
    BY <1>11 DEF HandleAppendReply, HandleSnapshotReply
  <2> QED BY <2>1, <2>2, <2>3, VoteQuiet, VoteFollow
<1>12. ASSUME NEW i \in Server, NEW m \in msgs, HandleInstallSnapshot(i, m)
       PROVE  VoteInv'
  <2>1. m.term \in Nat
    BY <1>12, MessageTypes DEF HandleInstallSnapshot, InstallSnapshotArgs
  <2>2. NoNewGrant
    BY <1>12 DEF HandleInstallSnapshot, Reply, SnapshotReply, NoNewGrant, Grant
  <2>3. UNCHANGED <<closed, votesGranted, votes, elections>>
    BY <1>12 DEF HandleInstallSnapshot
  <2>4. CASE Refuses(i, m)
    BY <1>12, <2>2, <2>3, <2>4, VoteQuiet DEF HandleInstallSnapshot
  <2>5. CASE ~Refuses(i, m)
    <3>1. BecomeFollower(i, m.term)
      BY <1>12, <2>5 DEF HandleInstallSnapshot, FollowLeader
    <3> QED BY <2>1, <2>2, <2>3, <3>1, VoteFollow
  <2> QED BY <2>4, <2>5
<1>13. ASSUME NEW i \in Server, NEW m \in msgs,
              CrashInVote(i, m) \/ CrashInAppend(i, m)
       PROVE  VoteInv'
  <2>1. /\ m.term \in Nat /\ currentTerm[i] \in Nat
        /\ hard[i] \in [term : Nat, votedFor : Server \cup {Nil}]
    BY <1>13, MessageTypes, NodeTypes
       DEF CrashInVote, CrashInAppend, RequestVoteArgs, AppendEntriesArgs
  <2>2. hard[i].term <= currentTerm[i]
    BY DEF VoteInv, HardInv
  <2> DEFINE h == HardAfterTerm(i, m)
  <2>3. /\ h \in [term : Nat, votedFor : Server \cup {Nil}]
        /\ h = hard[i] \/ h.term > hard[i].term
    BY <2>1, <2>2 DEF HardAfterTerm
  <2>4. NoNewGrant
    BY <1>13 DEF CrashInVote, CrashInAppend, Consume, NoNewGrant
  <2>5. PICK l : RestartWith(i, h, l, snap[i])
    BY <1>13 DEF CrashInVote, CrashInAppend
  <2> HIDE DEF h
  <2> QED BY <2>3, <2>4, <2>5, VoteRestart
<1>14. CASE UNCHANGED vars
  BY <1>14, VoteQuiet DEF vars, NoNewGrant
<1> QED
  BY <1>1, <1>2, <1>3, <1>4, <1>5, <1>6, <1>7, <1>8, <1>9, <1>10, <1>11, <1>12,
     <1>13, <1>14
     DEF Next, Step, Receive

\* Two winners of a term would share a voter, who voted for one of them.
LEMMA OneWinner == VoteInv => ElectionSafety
<1>1. SUFFICES ASSUME VoteInv, NEW e \in elections, NEW f \in elections,
                      e.term = f.term
               PROVE  e.leader = f.leader
  BY DEF ElectionSafety
<1>2. /\ Majority(Supporters(e.term, e.leader))
      /\ Majority(Supporters(f.term, f.leader))
  BY <1>1 DEF VoteInv, ElectionsWon
<1>3. \E v \in Supporters(e.term, e.leader) : v \in Supporters(f.term, f.leader)
  <2>1. /\ Supporters(e.term, e.leader) \in SUBSET Server
        /\ Supporters(f.term, f.leader) \in SUBSET Server
    BY DEF Supporters
  <2> QED BY <1>2, <2>1, MajoritiesMeet
<1>4. PICK v \in Server : /\ Vote(e.term, v, e.leader) \in votes
                          /\ Vote(f.term, v, f.leader) \in votes
  BY <1>3 DEF Supporters
<1> QED BY <1>1, <1>4 DEF VoteInv, OneVote, Vote

\* At most one node ever wins an election of a given term, for every
\* membership, with lost and reordered messages, crashes at every point between
\* two disk writes and orderly stops: startElection, HandleRequestVote and
\* persistLocked together keep a node from voting twice in a term.
THEOREM ElectionSafe == Spec => []ElectionSafety
<1>1. Init => TypeInv /\ VoteInv
  <2>1. Init => VoteInv
    BY DEF Init, VoteInv, HardInv, VotesDurable, OneVote, RepliesCast,
           TallyCast, ElectionsWon, Follower, Candidate
  <2> QED BY <2>1, TypeInit
<1>2. TypeInv /\ VoteInv /\ [Next]_vars => TypeInv' /\ VoteInv'
  BY TypeNext, VoteNext
<1>3. VoteInv => ElectionSafety
  BY OneWinner
<1> QED BY <1>1, <1>2, <1>3, PTL DEF Spec
=============================================================================
