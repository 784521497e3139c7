------------------------------- MODULE RaftLog -------------------------------
(***************************************************************************)
(* internal/raftlog on its files: the record log, appended and truncated   *)
(* in place, and the snapshot file and the rewritten log, both replaced by *)
(* an atomic rename.  Every write is synced before the next one starts, so *)
(* an operation is a sequence of effects on the disk, `steps`, and a crash *)
(* finds the first of them absent, complete, or (an append) torn.          *)
(*                                                                         *)
(* All operations hold l.mu; readers see memory only between operations.   *)
(***************************************************************************)
EXTENDS Naturals, Sequences, FiniteSetsExt

CONSTANTS
    Term,        \* terms of entries and snapshots
    MaxIndex,    \* bound: the largest index
    MaxCrashes,  \* bound: crashes
    Torn         \* a record that is short or fails its CRC

ASSUME RaftLogAssumption ==
    Term \subseteq Nat \ {0} /\ MaxIndex \in Nat /\ MaxCrashes \in Nat

VARIABLES
    disk,     \* log: the records of the log file; snap: the snapshot file
    mem,      \* entries, snap: the Log struct
    isOpen,   \* Open has returned
    steps,    \* disk effects the running operation still has to make
    result,   \* mem once they are made
    crashes

vars == <<disk, mem, isOpen, steps, result, crashes>>

Entry == [index : Nat, term : Nat]

\* A record that fails its CRC is never taken for an entry.
ASSUME TornAssumption == Torn \notin Entry

NoSnapshot == [index |-> 0, term |-> 0]

-----------------------------------------------------------------------------
(* Files *)

\* An effect: the new content of one file.
ReplaceLog(records) == [file |-> "log", to |-> records]
ReplaceSnap(s) == [file |-> "snap", to |-> s]

After(d, e) == [d EXCEPT ![e.file] = e.to]

\* The first effect of an interrupted operation.  A rename, a truncation or an
\* append is seen or not; an append that grew the file may also be torn.
CrashImages(d, e) ==
    {d, After(d, e)} \cup
    (IF e.file = "log" /\ Len(e.to) = Len(d.log) + 1
     THEN {[d EXCEPT !.log = Append(@, Torn)]} ELSE {})

\* The index a record past the snapshot must have to follow the k - 1 records
\* before it.
Expected(d, k) ==
    Max({d.snap.index} \cup {d.log[m].index : m \in 1..(k - 1)}) + 1

\* The number of records recover reads before the first that is torn or does
\* not follow the one before it; those the snapshot covers are passed over.
Readable(d) ==
    Min({k \in 1..Len(d.log) :
            \/ d.log[k] = Torn
            \/ /\ d.log[k].index > d.snap.index
               /\ d.log[k].index # Expected(d, k)} \cup {Len(d.log) + 1}) - 1

\* Mutant of RecoveredEntries: torn records are not recognised.
RecoveredEntriesUnchecked(d) ==
    SelectSeq(d.log, LAMBDA e : e = Torn \/ e.index > d.snap.index)

\* Mutant of RecoveredEntries: records the snapshot covers are kept.
RecoveredEntriesAll(d) == SubSeq(d.log, 1, Readable(d))

\* The records it keeps: one for each index past the snapshot's.
RecoveredEntries(d) ==
    LET n == Readable(d)
        last == Expected(d, n + 1) - 1
    IN [j \in 1..(last - d.snap.index) |->
           d.log[CHOOSE k \in 1..n : d.log[k].index = d.snap.index + j]]

Recovered(d) == [snap |-> d.snap, entries |-> RecoveredEntries(d)]

-----------------------------------------------------------------------------
(* Operations *)

LastIndex(m) ==
    IF m.entries = <<>> THEN m.snap.index ELSE m.entries[Len(m.entries)].index

\* Copy of the entries from index n on.
From(m, n) == SubSeq(m.entries, n - m.snap.index, Len(m.entries))

Idle == isOpen /\ steps = <<>>

\* An operation takes the lock, with its effects and the memory it leaves.
Begin(effects, m) ==
    /\ steps' = effects /\ result' = m
    /\ UNCHANGED <<disk, mem, isOpen, crashes>>

\* The log file with e written at l.end, one past the records of the entries
\* in memory.
Written(e) == Append(SubSeq(disk.log, 1, Len(mem.entries)), e)

AppendEntry(t) ==
    /\ Idle /\ LastIndex(mem) < MaxIndex
    /\ LET e == [index |-> LastIndex(mem) + 1, term |-> t]
       IN Begin(<<ReplaceLog(Written(e))>>,
                [mem EXCEPT !.entries = Append(@, e)])

\* Mutant of TruncateSuffix: the file is cut one record too late.
TruncateSuffixLate(from) ==
    /\ Idle /\ from > mem.snap.index /\ from <= LastIndex(mem)
    /\ Begin(<<ReplaceLog(SubSeq(mem.entries, 1, from - mem.snap.index))>>,
             [mem EXCEPT !.entries = SubSeq(@, 1, from - 1 - mem.snap.index)])

TruncateSuffix(from) ==
    /\ Idle /\ from > mem.snap.index /\ from <= LastIndex(mem)
    /\ LET kept == SubSeq(mem.entries, 1, from - 1 - mem.snap.index)
       IN Begin(<<ReplaceLog(kept)>>, [mem EXCEPT !.entries = kept])

\* Mutant of Compaction: the log is rewritten before the snapshot is there.
CompactionLogFirst(s, keep) ==
    Begin(<<ReplaceLog(keep), ReplaceSnap(s)>>, [snap |-> s, entries |-> keep])

\* writeSnapshotFile, then rewriteLocked.
Compaction(s, keep) ==
    Begin(<<ReplaceSnap(s), ReplaceLog(keep)>>, [snap |-> s, entries |-> keep])

Snapshot(n) ==
    /\ Idle /\ n > mem.snap.index /\ n <= LastIndex(mem)
    /\ Compaction([index |-> n, term |-> From(mem, n)[1].term],
                  From(mem, n + 1))

InstallSnapshot(n, t) ==
    /\ Idle /\ n > mem.snap.index
    /\ LET matches == n <= LastIndex(mem) /\ From(mem, n)[1].term = t
       IN Compaction([index |-> n, term |-> t],
                     IF matches THEN From(mem, n + 1) ELSE <<>>)

\* The next effect is on disk; memory changes after the last one.
Sync ==
    /\ steps # <<>>
    /\ disk' = After(disk, Head(steps))
    /\ steps' = Tail(steps)
    /\ IF Len(steps) = 1 THEN mem' = result /\ isOpen' = TRUE
       ELSE UNCHANGED <<mem, isOpen>>
    /\ UNCHANGED <<result, crashes>>

-----------------------------------------------------------------------------
(* Crash and recovery *)

\* An installed snapshot that the log contradicts, between its two writes:
\* recovery would keep the entries after it.
Contradicted == disk.snap.index > 0 /\
    \E k \in 1..Len(disk.log) :
        /\ disk.log[k] # Torn
        /\ disk.log[k].index = disk.snap.index
        /\ disk.log[k].term # disk.snap.term

Crash(images) ==
    /\ crashes < MaxCrashes /\ crashes' = crashes + 1
    /\ disk' \in images
    /\ mem' = [snap |-> NoSnapshot, entries |-> <<>>] /\ isOpen' = FALSE
    /\ steps' = <<>> /\ result' = mem'

CleanCrash ==
    \/ steps = <<>> /\ Crash({disk})
    \/ /\ steps # <<>> /\ Crash(CrashImages(disk, Head(steps)))
       /\ ~Contradicted /\ ~Contradicted'

TornCrash ==
    \/ steps = <<>> /\ Crash({disk})
    \/ steps # <<>> /\ Crash(CrashImages(disk, Head(steps)))

\* recover: a torn tail is cut off, then a covered prefix is dropped.
Open ==
    /\ ~isOpen /\ steps = <<>>
    /\ LET n == Readable(disk)
           cut == IF n < Len(disk.log)
                  THEN <<ReplaceLog(SubSeq(disk.log, 1, n))>> ELSE <<>>
           finish == IF \E k \in 1..n : disk.log[k].index <= disk.snap.index
                     THEN <<ReplaceLog(RecoveredEntries(disk))>> ELSE <<>>
       IN IF cut \o finish = <<>>
          THEN /\ mem' = Recovered(disk) /\ isOpen' = TRUE
               /\ UNCHANGED <<disk, steps, result, crashes>>
          ELSE Begin(cut \o finish, Recovered(disk))

-----------------------------------------------------------------------------
Init ==
    /\ disk = [log |-> <<>>, snap |-> NoSnapshot]
    /\ mem = [snap |-> NoSnapshot, entries |-> <<>>] /\ isOpen = FALSE
    /\ steps = <<>> /\ result = mem
    /\ crashes = 0

Operation ==
    \/ \E t \in Term : AppendEntry(t)
    \/ \E n \in 1..MaxIndex : TruncateSuffix(n) \/ Snapshot(n)
    \/ \E n \in 1..MaxIndex, t \in Term : InstallSnapshot(n, t)

Next == Operation \/ Sync \/ Open \/ CleanCrash
Spec == Init /\ [][Next]_vars

\* Crashes between the writes of a snapshot the log contradicts as well.
TornNext == Next \/ TornCrash
TornSpec == Init /\ [][TornNext]_vars

-----------------------------------------------------------------------------
\* Type correctness of the files and of the Log struct.
TypeOK ==
    /\ disk \in [log : Seq(Entry \cup {Torn}), snap : Entry]
    /\ mem \in [snap : Entry, entries : Seq(Entry)]
    /\ isOpen \in BOOLEAN
    /\ crashes \in Nat

\* Nothing acknowledged is ever lost: between operations a crash would
\* recover exactly what memory holds.
MemoryIsDurable == Idle => Recovered(disk) = mem

\* "In-memory, indices (snapIndex+1 .. snapIndex+len)": At and From find the
\* entry of the index they are asked for.
EntriesInPlace ==
    isOpen /\ steps = <<>> =>
        \A k \in 1..Len(mem.entries) :
            mem.entries[k].index = mem.snap.index + k

\* While an install runs, the log it contradicts counts as replaced.
SafeEntries ==
    IF isOpen /\ steps # <<>> /\ Contradicted THEN result.entries
    ELSE RecoveredEntries(disk)
Durable == INSTANCE DurableLog WITH snap <- disk.snap, entries <- SafeEntries

\* "A crash during compaction leaves either the old or new log intact": the
\* log a crash would recover changes by whole operations only, as DurableLog
\* says.
CrashAtomic == Durable!Spec
=============================================================================
