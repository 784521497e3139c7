------------------------------- MODULE MCRaft -------------------------------
(***************************************************************************)
(* Model-checking instances of Raft.                                       *)
(***************************************************************************)
EXTENDS Raft, TLC

Symmetry == Permutations(Server)

\* A reply no goroutine will act on any more, and a request both ends are
\* past: delivering it changes nothing, now or later.
Dead(m) ==
    \/ /\ m.type = "RequestVoteReply"
       /\ currentTerm[m.dst] # m.sentIn \/ state[m.dst] # Candidate
    \/ /\ m.type \in {"AppendEntriesReply", "InstallSnapshotReply"}
       /\ IsStale(m.dst, m)
    \/ /\ m.type \in {"RequestVote", "AppendEntries", "InstallSnapshot"}
       /\ m.term < currentTerm[m.src] /\ m.term < currentTerm[m.dst]

\* A stopped follower answers every request with its term, and a restart would
\* take everything else from its disk.
Retired(i) == closed[i] /\ state[i] = Follower

\* The state without what no later step reads: the content of dead messages
\* (each still takes its place in the network), the progress maps of nodes that
\* do not lead, the tally of nodes that do not stand, the memory of retired
\* nodes, the history of votes, and the count of restarts: raft_core never
\* reaches MaxRestarts, and in raft_stop it is zero.  StateMachineSafety does
\* read the memory of retired nodes; raft_core, which checks it, has none.
View ==
    <<currentTerm, hard, logVars, state, closed,
      [i \in Server |-> IF state[i] = Candidate THEN votesGranted[i] ELSE {}],
      [i \in Server |-> IF state[i] = Leader THEN nextIndex[i] ELSE <<>>],
      [i \in Server |-> IF state[i] = Leader THEN matchIndex[i] ELSE <<>>],
      [i \in Server |->
          IF Retired(i) THEN <<>>
          ELSE <<votedFor[i], commitIndex[i], lastApplied[i], sm[i]>>],
      {m \in msgs : ~Dead(m)}, Cardinality(msgs), elections, committed, stops,
      diskErrors>>
=============================================================================
