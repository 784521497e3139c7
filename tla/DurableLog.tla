----------------------------- MODULE DurableLog -----------------------------
(***************************************************************************)
(* What internal/raftlog promises: a snapshot and the entries after it,    *)
(* changed by whole operations only.  A crash is not visible: an operation *)
(* it interrupts has happened or has not.                                  *)
(***************************************************************************)
EXTENDS Naturals, Sequences

CONSTANTS
    Term,    \* terms of entries and snapshots
    MaxIndex \* the largest index

VARIABLES
    snap,    \* [index, term] of the snapshot
    entries  \* the entries after it, each with its index and term

vars == <<snap, entries>>

Last == snap.index + Len(entries)
Suffix(n) == SubSeq(entries, n - snap.index, Len(entries))

Init == snap = [index |-> 0, term |-> 0] /\ entries = <<>>

AppendEntry(t) ==
    /\ Last < MaxIndex
    /\ entries' = Append(entries, [index |-> Last + 1, term |-> t])
    /\ UNCHANGED snap

TruncateSuffix(from) ==
    /\ snap.index < from
    /\ entries' = SubSeq(entries, 1, from - 1 - snap.index)
    /\ UNCHANGED snap

Snapshot(n) ==
    /\ snap' = [index |-> n, term |-> entries[n - snap.index].term]
    /\ entries' = Suffix(n + 1)

\* Entries after the snapshot survive only behind an entry that matches it.
InstallSnapshot(n, t) ==
    /\ n > snap.index
    /\ snap' = [index |-> n, term |-> t]
    /\ entries' = IF n <= Last /\ entries[n - snap.index].term = t
                  THEN Suffix(n + 1) ELSE <<>>

Next ==
    \/ \E t \in Term : AppendEntry(t)
    \/ \E n \in (snap.index + 1)..Last : TruncateSuffix(n) \/ Snapshot(n)
    \/ \E n \in 1..MaxIndex, t \in Term : InstallSnapshot(n, t)

Spec == Init /\ [][Next]_vars
=============================================================================
