--------------------------- MODULE RaftLogProofs ----------------------------
(***************************************************************************)
(* Theorems about internal/raftlog for every set of terms, every log       *)
(* length and every number of crashes: a log that is open holds what a     *)
(* crash would recover, also after a crash between the two writes of a     *)
(* compaction, and outside a contradicted install a crash is not visible.  *)
(***************************************************************************)
EXTENDS RaftLog, SequenceTheorems, TLAPS

Disk == [log : Seq(Entry \cup {Torn}), snap : Entry]
Memory == [snap : Entry, entries : Seq(Entry)]

\* Entries in place behind their snapshot.
Holds(m) ==
    /\ m \in Memory
    /\ \A k \in 1..Len(m.entries) : m.entries[k].index = m.snap.index + k

\* The files of an idle log.
Image(m) == [log |-> m.entries, snap |-> m.snap]

\* n records follow index b, which the snapshot covers; only a torn record may
\* come after them.
Shape(d, b, n) ==
    /\ d \in Disk /\ b \in 0..d.snap.index /\ n \in 0..Len(d.log)
    /\ \A k \in 1..n : d.log[k] \in Entry /\ d.log[k].index = b + k
    /\ \/ Len(d.log) = n
       \/ Len(d.log) = n + 1 /\ d.log[n + 1] = Torn

\* What every crash leaves.
Recoverable(d) == \E b \in 0..d.snap.index, n \in 0..Len(d.log) : Shape(d, b, n)

\* r is m after an append, a truncation, a compaction, an install.
Appends(m, r) ==
    /\ LastIndex(m) < MaxIndex
    /\ \E t \in Term : r = [m EXCEPT !.entries =
                               Append(@, [index |-> LastIndex(m) + 1, term |-> t])]

Truncates(m, r) ==
    \E n \in (m.snap.index + 1)..LastIndex(m) :
        r = [m EXCEPT !.entries = SubSeq(@, 1, n - 1 - m.snap.index)]

Snapshots(m, r) ==
    \E n \in (m.snap.index + 1)..LastIndex(m) :
        r = [snap |-> [index |-> n, term |-> From(m, n)[1].term],
             entries |-> From(m, n + 1)]

Matches(m, n, t) == n <= LastIndex(m) /\ From(m, n)[1].term = t

Installs(m, r) ==
    \E n \in 1..MaxIndex, t \in Term :
        /\ n > m.snap.index
        /\ r = [snap |-> [index |-> n, term |-> t],
                entries |-> IF Matches(m, n, t) THEN From(m, n + 1) ELSE <<>>]

-----------------------------------------------------------------------------
(* The inductive invariant: where the running operation stands *)

Opened == isOpen /\ steps = <<>> /\ disk = Image(mem)

Writing ==
    /\ isOpen /\ steps = <<ReplaceLog(result.entries)>> /\ disk = Image(mem)
    /\ Appends(mem, result) \/ Truncates(mem, result)

Compacting ==
    /\ isOpen /\ disk = Image(mem)
    /\ steps = <<ReplaceSnap(result.snap), ReplaceLog(result.entries)>>
    /\ Snapshots(mem, result) \/ Installs(mem, result)

Rewriting ==
    /\ isOpen /\ steps = <<ReplaceLog(result.entries)>>
    /\ disk = [log |-> mem.entries, snap |-> result.snap]
    /\ Snapshots(mem, result) \/ Installs(mem, result)

Closed == ~isOpen /\ steps = <<>> /\ Recoverable(disk)

Recovering ==
    /\ ~isOpen /\ Recoverable(disk) /\ result = Recovered(disk)
    /\ \/ steps = <<ReplaceLog(result.entries)>>
       \/ steps = <<ReplaceLog(SubSeq(disk.log, 1, Readable(disk))),
                    ReplaceLog(result.entries)>>

FileInv ==
    /\ crashes \in Nat /\ isOpen \in BOOLEAN /\ Holds(mem) /\ Holds(result)
    /\ \/ Opened \/ Writing \/ Compacting \/ Rewriting
       \/ Closed \/ Recovering

-----------------------------------------------------------------------------
(* What recovery reads *)

\* The greatest and the least element of a set are what Max and Min choose.
LEMMA Extremes ==
    ASSUME NEW S \in SUBSET Int, NEW x \in S
    PROVE  /\ (\A y \in S : x >= y) => Max(S) = x
           /\ (\A y \in S : x <= y) => Min(S) = x
<1>1. ASSUME \A y \in S : x >= y PROVE Max(S) = x
  <2>1. Max(S) \in S /\ \A y \in S : Max(S) >= y
    BY <1>1, Zenon DEF Max
  <2>2. PICK z \in Int : z = Max(S) /\ x \in Int /\ z >= x /\ x >= z
    BY <1>1, <2>1
  <2>3. z = x
    BY <2>2
  <2> QED BY <2>2, <2>3
<1>2. ASSUME \A y \in S : x <= y PROVE Min(S) = x
  <2>1. Min(S) \in S /\ \A y \in S : Min(S) <= y
    BY <1>2, Zenon DEF Min
  <2>2. PICK z \in Int : z = Min(S) /\ x \in Int /\ z <= x /\ x <= z
    BY <1>2, <2>1
  <2>3. z = x
    BY <2>2
  <2> QED BY <2>2, <2>3
<1> QED BY <1>1, <1>2

\* The parts of a disk have their types.
LEMMA ShapeTypes ==
    ASSUME NEW d, NEW b, NEW n, Shape(d, b, n)
    PROVE  /\ d.log \in Seq(Entry \cup {Torn}) /\ Len(d.log) \in Nat
           /\ d.snap \in Entry /\ d.snap.index \in Nat
           /\ b \in Nat /\ b <= d.snap.index /\ n \in Nat /\ n <= Len(d.log)
           /\ \A k \in 1..n : d.log[k] \in Entry /\ d.log[k] # Torn
           /\ \A k \in 1..n : d.log[k].index = b + k
<1>1. d \in Disk /\ b \in 0..d.snap.index /\ n \in 0..Len(d.log)
  BY DEF Shape
<1>2. /\ d.log \in Seq(Entry \cup {Torn}) /\ d.snap \in Entry
      /\ d.snap.index \in Nat
  BY <1>1 DEF Disk, Entry
<1>3. Len(d.log) \in Nat
  BY <1>2
<1>4. \A k \in 1..n : d.log[k] \in Entry /\ d.log[k].index = b + k
  BY DEF Shape
<1>5. \A k \in 1..n : d.log[k] # Torn
  BY <1>4, TornAssumption
<1> QED BY <1>1, <1>2, <1>3, <1>4, <1>5

\* After k - 1 records the next index is one past the last of them, or one
\* past the snapshot that still covers them all.
LEMMA ExpectedIs ==
    ASSUME NEW d, NEW b, NEW n, Shape(d, b, n), NEW k \in 1..(n + 1)
    PROVE  Expected(d, k) = IF b + k - 1 > d.snap.index
                            THEN b + k ELSE d.snap.index + 1
<1> DEFINE s == d.snap.index
           S == {s} \cup {d.log[m].index : m \in 1..(k - 1)}
<1>1. s \in Nat /\ b \in Nat /\ b <= s /\ n \in Nat
  BY ShapeTypes
<1>2. \A m \in 1..(k - 1) : d.log[m].index = b + m
  <2>1. \A m \in 1..n : d.log[m].index = b + m
    BY ShapeTypes
  <2> QED BY <1>1, <2>1
<1>3. S = {s} \cup {b + m : m \in 1..(k - 1)}
  BY <1>2
<1>4. Expected(d, k) = Max(S) + 1
  BY DEF Expected
<1> HIDE DEF s, S
<1>5. S \in SUBSET Int /\ s \in S
  BY <1>1, <1>3
<1>6. CASE b + k - 1 > s
  <2>1. k - 1 \in 1..(k - 1)
    BY <1>1, <1>6
  <2>2. b + (k - 1) \in S
    BY <1>3, <2>1
  <2>3. \A y \in S : b + (k - 1) >= y
    BY <1>1, <1>3, <1>6
  <2>4. Max(S) = b + (k - 1)
    BY <1>5, <2>2, <2>3, Extremes
  <2> QED BY <1>1, <1>4, <1>6, <2>4 DEF s
<1>7. CASE ~(b + k - 1 > s)
  <2>1. \A y \in S : s >= y
    BY <1>1, <1>3, <1>7
  <2>2. Max(S) = s
    BY <1>5, <2>1, Extremes
  <2> QED BY <1>1, <1>4, <1>7, <2>2 DEF s
<1> QED BY <1>6, <1>7

\* Recovery reads all records that follow one another.
LEMMA ReadableIs ==
    ASSUME NEW d, NEW b, NEW n, Shape(d, b, n)
    PROVE  Readable(d) = n
<1> DEFINE Bad == {k \in 1..Len(d.log) :
                      \/ d.log[k] = Torn
                      \/ /\ d.log[k].index > d.snap.index
                         /\ d.log[k].index # Expected(d, k)}
           S == Bad \cup {Len(d.log) + 1}
<1>1. /\ d.snap.index \in Nat /\ b \in Nat /\ b <= d.snap.index /\ n \in Nat
      /\ Len(d.log) \in Nat /\ n <= Len(d.log)
  BY ShapeTypes
<1>2. ASSUME NEW k \in 1..n PROVE k \notin Bad
  <2>1. d.log[k] # Torn /\ d.log[k].index = b + k
    BY ShapeTypes
  <2>2. k \in 1..(n + 1)
    BY <1>1
  <2>3. Expected(d, k) = IF b + k - 1 > d.snap.index
                         THEN b + k ELSE d.snap.index + 1
    BY <2>2, ExpectedIs
  <2>4. ~(b + k > d.snap.index /\ b + k # Expected(d, k))
    BY <1>1, <2>3
  <2> QED BY <2>1, <2>4
<1>3. S \in SUBSET Int
  BY <1>1
<1>4. n + 1 \in S
  <2>1. CASE Len(d.log) = n
    BY <2>1
  <2>2. CASE Len(d.log) = n + 1 /\ d.log[n + 1] = Torn
    <3>1. n + 1 \in 1..Len(d.log)
      BY <1>1, <2>2
    <3> QED BY <2>2, <3>1
  <2> QED BY <2>1, <2>2 DEF Shape
<1>5. \A y \in S : n + 1 <= y
  <2>1. TAKE y \in S
  <2>2. CASE y = Len(d.log) + 1
    BY <1>1, <2>2
  <2>3. CASE y \in Bad
    <3>1. y \in Int /\ y >= 1 /\ y \notin 1..n
      BY <1>2, <2>3
    <3> QED BY <1>1, <3>1
  <2> QED BY <2>2, <2>3
<1> HIDE DEF S
<1>6. Min(S) = n + 1
  BY <1>3, <1>4, <1>5, Extremes
<1>7. Readable(d) = Min(S) - 1
  BY DEF Readable, S
<1> QED BY <1>1, <1>6, <1>7

\* Recovery keeps the records past the snapshot, in place behind it.
LEMMA RecoveredIs ==
    ASSUME NEW d, NEW b, NEW n, Shape(d, b, n)
    PROVE  /\ RecoveredEntries(d) \in Seq(Entry)
           /\ Len(RecoveredEntries(d)) = IF b + n > d.snap.index
                                         THEN b + n - d.snap.index ELSE 0
           /\ \A j \in 1..Len(RecoveredEntries(d)) :
                 RecoveredEntries(d)[j] = d.log[d.snap.index - b + j]
           /\ Holds(Recovered(d)) /\ Recovered(d).snap = d.snap
           /\ Recovered(d).entries = RecoveredEntries(d)
<1> DEFINE s == d.snap.index
           len == IF b + n > s THEN b + n - s ELSE 0
           r == RecoveredEntries(d)
<1>1. /\ s \in Nat /\ b \in Nat /\ b <= s /\ n \in Nat /\ d.snap \in Entry
      /\ \A k \in 1..n : d.log[k] \in Entry /\ d.log[k].index = b + k
  BY ShapeTypes
<1>2. len \in Nat
  BY <1>1
<1>3. Expected(d, n + 1) - 1 - s = len
  <2>1. n + 1 \in 1..(n + 1)
    BY <1>1
  <2>2. Expected(d, n + 1) = IF b + (n + 1) - 1 > s THEN b + (n + 1) ELSE s + 1
    BY <2>1, ExpectedIs
  <2> HIDE DEF s
  <2> QED BY <1>1, <2>2
<1>4. r = [j \in 1..len |-> d.log[CHOOSE k \in 1..n : d.log[k].index = s + j]]
  <2>1. Readable(d) = n
    BY ReadableIs
  <2> QED BY <1>3, <2>1 DEF RecoveredEntries
<1> HIDE DEF len, s, r
<1>5. ASSUME NEW j \in 1..len PROVE /\ r[j] = d.log[s - b + j] /\ r[j] \in Entry
                                    /\ r[j].index = s + j
  <2>1. s - b + j \in 1..n /\ b + (s - b + j) = s + j
    BY <1>1 DEF len
  <2>2. \A k \in 1..n : d.log[k].index = s + j <=> k = s - b + j
    BY <1>1
  <2>3. (CHOOSE k \in 1..n : d.log[k].index = s + j) = s - b + j
    BY <2>1, <2>2
  <2>4. r[j] = d.log[s - b + j]
    BY <1>4, <2>3
  <2>5. d.log[s - b + j] \in Entry /\ d.log[s - b + j].index = s + j
    BY <1>1, <2>1
  <2> QED BY <2>4, <2>5
<1>6. r \in Seq(Entry) /\ Len(r) = len
  <2>1. r \in [1..len -> Entry]
    BY <1>4, <1>5
  <2> QED BY <1>2, <2>1
<1>7. Recovered(d).snap = d.snap /\ Recovered(d).entries = r
  BY DEF Recovered, r
<1>8. Holds(Recovered(d))
  <2>1. Recovered(d) \in Memory
    BY <1>1, <1>6 DEF Recovered, Memory, r
  <2>2. \A k \in 1..Len(r) : r[k].index = s + k
    BY <1>5, <1>6
  <2> QED BY <1>7, <2>1, <2>2 DEF Holds, s
<1> QED BY <1>5, <1>6, <1>7, <1>8 DEF len, s, r

\* The last index of a log whose entries are in place.
LEMMA HoldsFacts ==
    ASSUME NEW m, Holds(m)
    PROVE  /\ m.snap \in Entry /\ m.snap.index \in Nat /\ m.snap.term \in Nat
           /\ m.entries \in Seq(Entry) /\ Len(m.entries) \in Nat
           /\ m = [snap |-> m.snap, entries |-> m.entries]
           /\ \A k \in 1..Len(m.entries) :
                 m.entries[k] \in Entry /\ m.entries[k].index = m.snap.index + k
           /\ LastIndex(m) = m.snap.index + Len(m.entries)
<1>1. m \in Memory
  BY DEF Holds
<1>2. /\ m.snap \in Entry /\ m.snap.index \in Nat /\ m.snap.term \in Nat
      /\ m.entries \in Seq(Entry)
      /\ m = [snap |-> m.snap, entries |-> m.entries]
  BY <1>1 DEF Memory, Entry
<1>3. Len(m.entries) \in Nat
  BY <1>2
<1>4. \A k \in 1..Len(m.entries) :
         m.entries[k] \in Entry /\ m.entries[k].index = m.snap.index + k
  BY <1>2 DEF Holds
<1>5. LastIndex(m) = m.snap.index + Len(m.entries)
  <2>1. CASE m.entries = <<>>
    BY <1>2, <2>1 DEF LastIndex
  <2>2. CASE m.entries # <<>>
    <3>1. Len(m.entries) \in 1..Len(m.entries)
      BY <1>2, <2>2, EmptySeq
    <3> QED BY <1>4, <2>2, <3>1 DEF LastIndex
  <2> QED BY <2>1, <2>2
<1> QED BY <1>1, <1>2, <1>3, <1>4, <1>5

\* The log of m behind a later snapshot s, as a crash between the two writes of
\* a compaction leaves it: the entries past s are recovered.
LEMMA CoveredIs ==
    ASSUME NEW m, Holds(m), NEW s \in Entry, s.index >= m.snap.index,
           NEW d, d = [log |-> m.entries, snap |-> s]
    PROVE  /\ Shape(d, m.snap.index, Len(m.entries))
           /\ RecoveredEntries(d) =
                 SubSeq(m.entries, s.index + 1 - m.snap.index, Len(m.entries))
<1> DEFINE b == m.snap.index
           n == Len(m.entries)
           a == s.index + 1 - b
           q == SubSeq(m.entries, a, n)
           r == RecoveredEntries(d)
<1>1. /\ b \in Nat /\ n \in Nat /\ s.index \in Nat /\ m.entries \in Seq(Entry)
      /\ \A k \in 1..n : m.entries[k] \in Entry /\ m.entries[k].index = b + k
  BY HoldsFacts DEF Entry
<1>2. d.log = m.entries /\ d.snap = s
  OBVIOUS
<1>3. Shape(d, b, n)
  <2>1. d \in Disk
    <3>1. m.entries \in Seq(Entry \cup {Torn})
      BY <1>1
    <3> QED BY <3>1 DEF Disk
  <2>2. b \in 0..s.index /\ n \in 0..n
    BY <1>1
  <2> QED BY <1>1, <1>2, <2>1, <2>2 DEF Shape
<1>4. /\ r \in Seq(Entry)
      /\ Len(r) = IF b + n > s.index THEN b + n - s.index ELSE 0
      /\ \A j \in 1..Len(r) : r[j] = m.entries[s.index - b + j]
  BY <1>2, <1>3, RecoveredIs
<1> HIDE DEF b, n, r
<1>5. a \in Int /\ n \in Int /\ a >= 1
  BY <1>1 DEF b
<1>6. \A k \in a..n : m.entries[k] \in Entry
  BY <1>1, <1>5
<1>7. /\ q \in Seq(Entry) /\ Len(q) = IF a <= n THEN n - a + 1 ELSE 0
      /\ \A k \in 1..n - a + 1 : q[k] = m.entries[a + k - 1]
  BY <1>5, <1>6, SubSeqProperties
<1> HIDE DEF q
<1>8. Len(q) = Len(r)
  BY <1>1, <1>4, <1>7
<1>9. \A k \in 1..Len(r) : r[k] = q[k]
  <2>1. TAKE k \in 1..Len(r)
  <2>2. Len(r) \in Nat /\ k \in 1..n - a + 1 /\ a + k - 1 = s.index - b + k
    <3>1. Len(r) \in Nat /\ k >= 1 /\ k <= Len(r)
      BY <1>4
    <3>2. b + n > s.index /\ k <= b + n - s.index
      BY <1>1, <1>4, <3>1
    <3>3. n - a + 1 = b + n - s.index /\ a + k - 1 = s.index - b + k
      BY <1>1
    <3> QED BY <1>1, <3>1, <3>2, <3>3
  <2>3. q[k] = m.entries[a + k - 1] /\ r[k] = m.entries[s.index - b + k]
    BY <1>4, <1>7, <2>2
  <2> QED BY <2>2, <2>3
<1>10. r = q
  BY <1>4, <1>7, <1>8, <1>9, SeqEqual
<1> QED BY <1>3, <1>10 DEF b, n, r, q

\* The files of an idle log hold what is in memory.
LEMMA ImageIs ==
    ASSUME NEW m, Holds(m)
    PROVE  /\ Shape(Image(m), m.snap.index, Len(m.entries))
           /\ Recovered(Image(m)) = m /\ RecoveredEntries(Image(m)) = m.entries
<1>1. m.snap \in Entry /\ m.snap.index \in Nat /\ m.entries \in Seq(Entry)
      /\ m = [snap |-> m.snap, entries |-> m.entries]
  BY HoldsFacts
<1>2. /\ Shape(Image(m), m.snap.index, Len(m.entries))
      /\ RecoveredEntries(Image(m)) =
            SubSeq(m.entries, m.snap.index + 1 - m.snap.index, Len(m.entries))
  BY <1>1, CoveredIs DEF Image
<1>3. m.snap.index + 1 - m.snap.index = 1
  BY <1>1
<1>4. SubSeq(m.entries, 1, Len(m.entries)) = m.entries
  BY <1>1, SubSeqFull
<1>5. RecoveredEntries(Image(m)) = m.entries
  BY <1>2, <1>3, <1>4
<1>6. Recovered(Image(m)) = [snap |-> m.snap, entries |-> m.entries]
  BY <1>5 DEF Recovered, Image
<1> QED BY <1>1, <1>2, <1>5, <1>6

-----------------------------------------------------------------------------
(* What the operations leave *)

\* An effect replaces one file.
LEMMA AfterIs ==
    ASSUME NEW d \in Disk, NEW q, NEW s
    PROVE  /\ After(d, ReplaceLog(q)) = [log |-> q, snap |-> d.snap]
           /\ After(d, ReplaceSnap(s)) = [log |-> d.log, snap |-> s]
<1>1. d = [log |-> d.log, snap |-> d.snap]
  BY DEF Disk
<1>2. After(d, ReplaceLog(q)) = [log |-> q, snap |-> d.snap]
  <2>1. ReplaceLog(q).file = "log" /\ ReplaceLog(q).to = q
    BY DEF ReplaceLog
  <2>2. After(d, ReplaceLog(q)) = [d EXCEPT !["log"] = q]
    BY <2>1, Zenon DEF After
  <2> QED BY <1>1, <2>2
<1>3. After(d, ReplaceSnap(s)) = [log |-> d.log, snap |-> s]
  <2>1. ReplaceSnap(s).file = "snap" /\ ReplaceSnap(s).to = s
    BY DEF ReplaceSnap
  <2>2. After(d, ReplaceSnap(s)) = [d EXCEPT !["snap"] = s]
    BY <2>1, Zenon DEF After
  <2> QED BY <1>1, <2>2
<1> QED BY <1>2, <1>3

\* The entries from n on, for a snapshot at n - 1.
LEMMA FromIs ==
    ASSUME NEW m, Holds(m), NEW n \in Nat, n > m.snap.index
    PROVE  /\ From(m, n) \in Seq(Entry)
           /\ \A k \in 1..Len(From(m, n)) : From(m, n)[k].index = n - 1 + k
           /\ n <= LastIndex(m) =>
                 /\ n - m.snap.index \in 1..Len(m.entries)
                 /\ From(m, n)[1] = m.entries[n - m.snap.index]
           /\ n > LastIndex(m) => From(m, n) = <<>>
<1> DEFINE b == m.snap.index
           len == Len(m.entries)
           a == n - b
           q == SubSeq(m.entries, a, len)
<1>1. /\ b \in Nat /\ len \in Nat /\ LastIndex(m) = b + len
      /\ m.entries \in Seq(Entry)
      /\ \A k \in 1..len : m.entries[k] \in Entry /\ m.entries[k].index = b + k
  BY HoldsFacts
<1>2. From(m, n) = q
  BY DEF From
<1> HIDE DEF b, len
<1>3. a \in Int /\ a >= 1 /\ len \in Int
  BY <1>1 DEF b
<1>4. \A k \in a..len : m.entries[k] \in Entry
  BY <1>1, <1>3
<1>5. /\ q \in Seq(Entry) /\ Len(q) = IF a <= len THEN len - a + 1 ELSE 0
      /\ \A k \in 1..len - a + 1 : q[k] = m.entries[a + k - 1]
  BY <1>3, <1>4, SubSeqProperties
<1> HIDE DEF q
<1>6. ASSUME NEW k \in 1..Len(q) PROVE q[k].index = n - 1 + k
  <2>1. Len(q) \in Nat /\ k >= 1 /\ k <= Len(q)
    BY <1>5
  <2>2. a <= len /\ k <= len - a + 1
    BY <1>1, <1>5, <2>1
  <2>3. k \in 1..len - a + 1 /\ a + k - 1 \in 1..len /\ b + (a + k - 1) = n - 1 + k
    BY <1>1, <1>3, <2>1, <2>2
  <2> QED BY <1>1, <1>5, <2>3
<1>7. ASSUME n <= LastIndex(m) PROVE a \in 1..len /\ q[1] = m.entries[a]
  <2>1. a \in 1..len /\ 1 \in 1..len - a + 1 /\ a + 1 - 1 = a
    BY <1>1, <1>3, <1>7
  <2> QED BY <1>5, <2>1
<1>8. ASSUME n > LastIndex(m) PROVE q = <<>>
  <2>1. len < a
    BY <1>1, <1>8
  <2> QED BY <1>3, <2>1, SubSeqEmpty DEF q
<1> QED BY <1>2, <1>5, <1>6, <1>7, <1>8 DEF b, len

\* A log whose entries are in place is one the reader can use.
LEMMA HoldsIntro ==
    ASSUME NEW s \in Entry, NEW q \in Seq(Entry),
           \A k \in 1..Len(q) : q[k].index = s.index + k
    PROVE  /\ Holds([snap |-> s, entries |-> q])
           /\ [snap |-> s, entries |-> q].snap = s
           /\ [snap |-> s, entries |-> q].entries = q
  BY DEF Holds, Memory

\* An append and a truncation keep the snapshot.
LEMMA WritesHold ==
    ASSUME NEW m, Holds(m), NEW r, Appends(m, r) \/ Truncates(m, r)
    PROVE  Holds(r) /\ r.snap = m.snap
<1>1. /\ m.snap \in Entry /\ m.snap.index \in Nat /\ m.entries \in Seq(Entry)
      /\ Len(m.entries) \in Nat /\ LastIndex(m) = m.snap.index + Len(m.entries)
      /\ m = [snap |-> m.snap, entries |-> m.entries]
      /\ \A k \in 1..Len(m.entries) :
            m.entries[k] \in Entry /\ m.entries[k].index = m.snap.index + k
  BY HoldsFacts
<1>2. CASE Appends(m, r)
  <2>1. PICK t \in Term :
           r = [m EXCEPT !.entries =
                   Append(@, [index |-> LastIndex(m) + 1, term |-> t])]
    BY <1>2 DEF Appends
  <2>2. PICK e : e = [index |-> LastIndex(m) + 1, term |-> t]
    OBVIOUS
  <2>3. e \in Entry /\ e.index = m.snap.index + (Len(m.entries) + 1)
    BY <1>1, <2>2, RaftLogAssumption DEF Entry
  <2>4. PICK q : q = Append(m.entries, e)
    OBVIOUS
  <2>5. r = [snap |-> m.snap, entries |-> q]
    BY <1>1, <2>1, <2>2, <2>4
  <2>6. /\ q \in Seq(Entry) /\ Len(q) = Len(m.entries) + 1
        /\ \A k \in 1..Len(m.entries) : q[k] = m.entries[k]
        /\ q[Len(m.entries) + 1] = e
    BY <1>1, <2>3, <2>4, AppendProperties
  <2>7. ASSUME NEW k \in 1..Len(q) PROVE q[k].index = m.snap.index + k
    <3>1. k \in 1..Len(m.entries) \/ k = Len(m.entries) + 1
      BY <1>1, <2>6
    <3> QED BY <1>1, <2>3, <2>6, <3>1
  <2> QED BY <1>1, <2>5, <2>6, <2>7, HoldsIntro
<1>3. CASE Truncates(m, r)
  <2>1. PICK n \in (m.snap.index + 1)..LastIndex(m) :
           r = [m EXCEPT !.entries = SubSeq(@, 1, n - 1 - m.snap.index)]
    BY <1>3 DEF Truncates
  <2>2. PICK l \in Int : l = n - 1 - m.snap.index
    BY <1>1
  <2>3. l >= 0 /\ l <= Len(m.entries)
    BY <1>1, <2>2
  <2>4. PICK q : q = SubSeq(m.entries, 1, l)
    OBVIOUS
  <2>5. r = [snap |-> m.snap, entries |-> q]
    BY <1>1, <2>1, <2>2, <2>4
  <2>6. \A k \in 1..l : m.entries[k] \in Entry /\ m.entries[k].index = m.snap.index + k
    BY <1>1, <2>3
  <2>7. /\ q \in Seq(Entry) /\ Len(q) = IF 1 <= l THEN l - 1 + 1 ELSE 0
        /\ \A k \in 1..l - 1 + 1 : q[k] = m.entries[1 + k - 1]
    BY <2>4, <2>6, SubSeqProperties
  <2>8. Len(q) = l
    BY <2>3, <2>7
  <2>9. ASSUME NEW k \in 1..Len(q) PROVE q[k].index = m.snap.index + k
    <3>1. k \in 1..l /\ k \in 1..l - 1 + 1 /\ 1 + k - 1 = k
      BY <2>8
    <3> QED BY <2>6, <2>7, <3>1
  <2> QED BY <1>1, <2>5, <2>7, <2>9, HoldsIntro
<1> QED BY <1>2, <1>3

\* A compaction leaves a later snapshot; between its writes the log is the new
\* one to a reader, unless an entry contradicts the snapshot.
LEMMA CompactionsHold ==
    ASSUME NEW m, Holds(m), NEW r, Snapshots(m, r) \/ Installs(m, r),
           NEW d, d = [log |-> m.entries, snap |-> r.snap]
    PROVE  /\ Holds(r) /\ r.snap.index > m.snap.index
           /\ \/ RecoveredEntries(d) = r.entries
              \/ /\ d.snap.index > 0
                 /\ \E k \in 1..Len(d.log) : /\ d.log[k] # Torn
                                             /\ d.log[k].index = d.snap.index
                                             /\ d.log[k].term # d.snap.term
<1>1. /\ m.snap \in Entry /\ m.snap.index \in Nat /\ m.entries \in Seq(Entry)
      /\ Len(m.entries) \in Nat /\ LastIndex(m) = m.snap.index + Len(m.entries)
      /\ \A k \in 1..Len(m.entries) :
            m.entries[k] \in Entry /\ m.entries[k].index = m.snap.index + k
  BY HoldsFacts
<1>2. d.log = m.entries /\ d.snap = r.snap
  OBVIOUS
<1>3. ASSUME NEW s \in Entry, s.index > m.snap.index,
             r = [snap |-> s, entries |-> From(m, s.index + 1)]
      PROVE  Holds(r) /\ RecoveredEntries(d) = r.entries
  <2>1. s.index \in Nat /\ s.index >= m.snap.index
    BY <1>1, <1>3 DEF Entry
  <2>2. PICK p \in Nat : p = s.index + 1
    BY <2>1
  <2>3. p > m.snap.index /\ \A k \in Nat : p - 1 + k = s.index + k
    BY <1>1, <2>1, <2>2
  <2>4. PICK q : q = From(m, p)
    OBVIOUS
  <2>5. q \in Seq(Entry) /\ \A k \in 1..Len(q) : q[k].index = p - 1 + k
    BY <2>3, <2>4, FromIs
  <2>6. \A k \in 1..Len(q) : q[k].index = s.index + k
    BY <2>1, <2>2, <2>5
  <2>7. r = [snap |-> s, entries |-> q]
    BY <1>3, <2>2, <2>4
  <2>8. Holds(r) /\ r.snap = s /\ r.entries = q
    BY <2>5, <2>6, <2>7, HoldsIntro
  <2>9. RecoveredEntries(d) =
           SubSeq(m.entries, s.index + 1 - m.snap.index, Len(m.entries))
    BY <2>1, <2>8, CoveredIs
  <2>10. q = SubSeq(m.entries, p - m.snap.index, Len(m.entries))
    BY <2>4 DEF From
  <2>11. p - m.snap.index = s.index + 1 - m.snap.index
    <3>1. PICK x \in Nat, y \in Nat : x = s.index /\ y = m.snap.index
      BY <1>1, <2>1
    <3>2. x + 1 - y = (x + 1) - y
      BY <3>1
    <3> QED BY <2>2, <3>1, <3>2, Zenon
  <2>12. RecoveredEntries(d) = q
    BY <2>9, <2>10, <2>11, Zenon
  <2> QED BY <2>8, <2>12, Zenon
<1>4. CASE Snapshots(m, r)
  <2>1. PICK n \in (m.snap.index + 1)..LastIndex(m) :
           r = [snap |-> [index |-> n, term |-> From(m, n)[1].term],
                entries |-> From(m, n + 1)]
    BY <1>4 DEF Snapshots
  <2>2. n \in Nat /\ n > m.snap.index /\ n <= LastIndex(m)
    BY <1>1, <2>1
  <2>3. From(m, n)[1] \in Entry
    BY <1>1, <2>2, FromIs
  <2>4. PICK s \in Entry : s = [index |-> n, term |-> From(m, n)[1].term]
    BY <2>2, <2>3 DEF Entry
  <2>5. s.index = n /\ r = [snap |-> s, entries |-> From(m, s.index + 1)]
    BY <2>1, <2>4
  <2>6. r.snap = s
    BY <2>5
  <2> QED BY <1>3, <2>2, <2>5, <2>6
<1>5. CASE Installs(m, r)
  <2>1. PICK n \in 1..MaxIndex, t \in Term :
           /\ n > m.snap.index
           /\ r = [snap |-> [index |-> n, term |-> t],
                   entries |-> IF Matches(m, n, t) THEN From(m, n + 1) ELSE <<>>]
    BY <1>5 DEF Installs
  <2>2. n \in Nat /\ n > 0 /\ t \in Nat
    BY RaftLogAssumption
  <2>3. PICK s \in Entry : s = [index |-> n, term |-> t]
    BY <2>2 DEF Entry
  <2>4. s.index = n /\ s.term = t /\ r.snap = s
    BY <2>1, <2>3
  <2>5. CASE Matches(m, n, t)
    <3>1. r = [snap |-> s, entries |-> From(m, s.index + 1)]
      BY <2>1, <2>3, <2>4, <2>5
    <3> QED BY <1>3, <2>1, <2>4, <3>1
  <2>6. CASE n > LastIndex(m)
    <3>1. ~Matches(m, n, t)
      BY <1>1, <2>2, <2>6 DEF Matches
    <3>2. n + 1 \in Nat /\ n + 1 > m.snap.index /\ n + 1 > LastIndex(m)
      BY <1>1, <2>1, <2>2, <2>6
    <3>3. From(m, n + 1) = <<>>
      BY <3>2, FromIs
    <3>4. r = [snap |-> s, entries |-> From(m, s.index + 1)]
      BY <2>1, <2>3, <2>4, <3>1, <3>3
    <3> QED BY <1>3, <2>1, <2>4, <3>4
  <2>7. CASE ~Matches(m, n, t) /\ n <= LastIndex(m)
    <3>1. /\ n - m.snap.index \in 1..Len(m.entries)
          /\ From(m, n)[1] = m.entries[n - m.snap.index]
      BY <2>1, <2>2, <2>7, FromIs
    <3>2. PICK k \in 1..Len(m.entries) : k = n - m.snap.index
      BY <3>1
    <3>3. m.entries[k].term # t
      BY <2>7, <3>1, <3>2 DEF Matches
    <3>4. m.entries[k] \in Entry /\ m.entries[k].index = n
      BY <1>1, <2>2, <3>2
    <3>5. m.entries[k] # Torn
      BY <3>4, TornAssumption
    <3>6. Holds(r)
      <4>1. r = [snap |-> s, entries |-> <<>>]
        BY <2>1, <2>3, <2>7
      <4>2. <<>> \in Seq(Entry) /\ \A x \in 1..Len(<<>>) : <<>>[x].index = s.index + x
        OBVIOUS
      <4> QED BY <4>1, <4>2, HoldsIntro
    <3> QED BY <1>2, <2>1, <2>2, <2>4, <3>3, <3>4, <3>5, <3>6
  <2>8. n > LastIndex(m) \/ n <= LastIndex(m)
    BY <1>1, <2>2
  <2> QED BY <2>5, <2>6, <2>7, <2>8
<1> QED BY <1>4, <1>5

-----------------------------------------------------------------------------
(* What a crash leaves *)

\* Two disks that agree on the records in sequence recover the same log.
LEMMA SameRecovery ==
    ASSUME NEW b, NEW n, NEW d, NEW c, Shape(d, b, n), Shape(c, b, n),
           c.snap = d.snap, \A k \in 1..n : c.log[k] = d.log[k]
    PROVE  Recovered(c) = Recovered(d)
<1> DEFINE s == d.snap.index
           r == RecoveredEntries(d)
           q == RecoveredEntries(c)
<1>1. s \in Nat /\ b \in Nat /\ b <= s /\ n \in Nat
  BY ShapeTypes
<1>2. /\ r \in Seq(Entry) /\ Len(r) = IF b + n > s THEN b + n - s ELSE 0
      /\ \A j \in 1..Len(r) : r[j] = d.log[s - b + j]
  BY RecoveredIs
<1>3. /\ q \in Seq(Entry) /\ Len(q) = IF b + n > s THEN b + n - s ELSE 0
      /\ \A j \in 1..Len(q) : q[j] = c.log[s - b + j]
  BY RecoveredIs
<1> HIDE DEF s, r, q
<1>4. Len(q) = Len(r)
  BY <1>2, <1>3
<1>5. \A j \in 1..Len(q) : q[j] = r[j]
  <2>1. TAKE j \in 1..Len(q)
  <2>2. Len(q) \in Nat /\ j >= 1 /\ j <= Len(q)
    BY <1>3
  <2>3. j <= b + n - s
    BY <1>1, <1>3, <2>2
  <2>4. s - b + j \in 1..n
    BY <1>1, <2>2, <2>3
  <2> QED BY <1>2, <1>3, <1>4, <2>4
<1>6. q = r
  BY <1>2, <1>3, <1>4, <1>5, SeqEqual
<1> QED BY <1>6 DEF Recovered, q, r

\* Recovery does not see a torn append.
LEMMA TornTail ==
    ASSUME NEW d, NEW b, NEW n, Shape(d, b, n), Len(d.log) = n,
           NEW c, c = [log |-> Append(d.log, Torn), snap |-> d.snap]
    PROVE  Shape(c, b, n) /\ Recovered(c) = Recovered(d)
<1>1. /\ d.log \in Seq(Entry \cup {Torn}) /\ d.snap \in Entry /\ n \in Nat
      /\ b \in 0..d.snap.index
      /\ \A k \in 1..n : d.log[k] \in Entry /\ d.log[k].index = b + k
  <2>1. d.log \in Seq(Entry \cup {Torn}) /\ d.snap \in Entry /\ n \in Nat
    BY ShapeTypes, Zenon
  <2>2. /\ b \in 0..d.snap.index
        /\ \A k \in 1..n : d.log[k] \in Entry /\ d.log[k].index = b + k
    BY Zenon DEF Shape
  <2> QED BY <2>1, <2>2, Zenon
<1>3. PICK q : q = Append(d.log, Torn)
  OBVIOUS
<1>4. c = [log |-> q, snap |-> d.snap]
  BY <1>3
<1>5. c.log = q /\ c.snap = d.snap
  BY <1>4
<1>6. /\ q \in Seq(Entry \cup {Torn}) /\ Len(q) = n + 1
      /\ \A k \in 1..n : q[k] = d.log[k]
      /\ q[n + 1] = Torn
  <2>1. Torn \in Entry \cup {Torn}
    OBVIOUS
  <2> QED BY <1>1, <1>3, <2>1, AppendProperties
<1>7. Shape(c, b, n)
  <2>1. c \in Disk
    <3>1. [log |-> q, snap |-> d.snap] \in Disk
      BY <1>1, <1>6, Zenon DEF Disk
    <3> QED BY <1>4, <3>1, Zenon
  <2>2. n \in 0..Len(q)
    BY <1>1, <1>6
  <2>3. \A k \in 1..n : q[k] \in Entry /\ q[k].index = b + k
    BY <1>1, <1>6
  <2> QED BY <1>1, <1>5, <1>6, <2>1, <2>2, <2>3 DEF Shape
<1>8. Recovered(c) = Recovered(d)
  <2>1. \A k \in 1..n : c.log[k] = d.log[k]
    BY <1>5, <1>6, Zenon
  <2>2. c.snap = d.snap
    BY <1>5
  <2> QED BY <1>7, <2>1, <2>2, SameRecovery
<1> QED BY <1>7, <1>8

\* Nor the cut that removes it.
LEMMA CutTail ==
    ASSUME NEW d, NEW b, NEW n, Shape(d, b, n),
           NEW c, c = [log |-> SubSeq(d.log, 1, n), snap |-> d.snap]
    PROVE  /\ Shape(c, b, n) /\ Len(c.log) = n
           /\ Recovered(c) = Recovered(d)
<1>1. /\ d.log \in Seq(Entry \cup {Torn}) /\ d.snap \in Entry /\ n \in Nat
      /\ b \in 0..d.snap.index
      /\ \A k \in 1..n : d.log[k] \in Entry /\ d.log[k].index = b + k
  <2>1. d.log \in Seq(Entry \cup {Torn}) /\ d.snap \in Entry /\ n \in Nat
    BY ShapeTypes, Zenon
  <2>2. /\ b \in 0..d.snap.index
        /\ \A k \in 1..n : d.log[k] \in Entry /\ d.log[k].index = b + k
    BY Zenon DEF Shape
  <2> QED BY <2>1, <2>2, Zenon
<1>2. PICK q : q = SubSeq(d.log, 1, n)
  OBVIOUS
<1>3. c.log = q /\ c.snap = d.snap
  BY <1>2
<1>4. n \in Int /\ 1 \in Int /\ \A k \in 1..n : d.log[k] \in Entry \cup {Torn}
  BY <1>1
<1>5. /\ q \in Seq(Entry \cup {Torn}) /\ Len(q) = IF 1 <= n THEN n - 1 + 1 ELSE 0
      /\ \A k \in 1..n - 1 + 1 : q[k] = d.log[1 + k - 1]
  BY <1>2, <1>4, SubSeqProperties
<1>6. Len(q) = n
  BY <1>1, <1>5
<1>7. \A k \in 1..n : q[k] = d.log[k]
  <2>1. TAKE k \in 1..n
  <2>2. k \in 1..n - 1 + 1 /\ 1 + k - 1 = k
    BY <1>1
  <2> QED BY <1>5, <2>2
<1>8. Shape(c, b, n)
  <2>1. c \in Disk
    BY <1>1, <1>2, <1>5 DEF Disk
  <2>2. n \in 0..n
    BY <1>1
  <2> QED BY <1>1, <1>3, <1>6, <1>7, <2>1, <2>2 DEF Shape
<1>9. Recovered(c) = Recovered(d)
  BY <1>3, <1>7, <1>8, SameRecovery
<1> QED BY <1>3, <1>6, <1>8, <1>9

\* The outcomes of a crash within an effect.
LEMMA ImagesAre ==
    ASSUME NEW d \in Disk, NEW q, NEW s, NEW c
    PROVE  /\ c \in CrashImages(d, ReplaceLog(q)) =>
                 \/ c = d \/ c = [log |-> q, snap |-> d.snap]
                 \/ /\ Len(q) = Len(d.log) + 1
                    /\ c = [log |-> Append(d.log, Torn), snap |-> d.snap]
           /\ c \in CrashImages(d, ReplaceSnap(s)) =>
                 c = d \/ c = [log |-> d.log, snap |-> s]
<1>1. ReplaceLog(q).file = "log" /\ ReplaceLog(q).to = q
  BY DEF ReplaceLog
<1>2. ReplaceSnap(s).file = "snap"
  BY DEF ReplaceSnap
<1>3. "snap" # "log"
  OBVIOUS
<1>4. /\ After(d, ReplaceLog(q)) = [log |-> q, snap |-> d.snap]
      /\ After(d, ReplaceSnap(s)) = [log |-> d.log, snap |-> s]
  BY AfterIs
<1>5. c \in CrashImages(d, ReplaceLog(q)) =>
         \/ c = d \/ c = After(d, ReplaceLog(q))
         \/ /\ Len(q) = Len(d.log) + 1
            /\ c = [d EXCEPT !.log = Append(@, Torn)]
  BY <1>1, Zenon DEF CrashImages
<1>6. c \in CrashImages(d, ReplaceSnap(s)) => c = d \/ c = After(d, ReplaceSnap(s))
  BY <1>2, <1>3, Zenon DEF CrashImages
<1>7. [d EXCEPT !.log = Append(@, Torn)] =
         [log |-> Append(d.log, Torn), snap |-> d.snap]
  <2>1. d = [log |-> d.log, snap |-> d.snap]
    BY DEF Disk
  <2> QED BY <2>1
<1> QED BY <1>4, <1>5, <1>6, <1>7, Zenon

\* Short sequences of effects.
LEMMA Effects ==
    ASSUME NEW a, NEW b
    PROVE  /\ <<a>> # <<>> /\ <<a, b>> # <<>>
           /\ Head(<<a>>) = a /\ Tail(<<a>>) = <<>> /\ Len(<<a>>) = 1
           /\ Head(<<a, b>>) = a /\ Tail(<<a, b>>) = <<b>> /\ Len(<<a, b>>) = 2
           /\ <<a>> \o <<b>> = <<a, b>> /\ <<a>> \o <<>> = <<a>>
           /\ <<>> \o <<a>> = <<a>> /\ <<>> \o <<>> = <<>>
<1>1. <<a>> # <<>> /\ <<a, b>> # <<>>
  OBVIOUS
<1>2. Head(<<a>>) = a /\ Tail(<<a>>) = <<>> /\ Len(<<a>>) = 1
  OBVIOUS
<1>3. Head(<<a, b>>) = a /\ Len(<<a, b>>) = 2
  OBVIOUS
<1>4. Tail(<<a, b>>) = <<b>>
  OBVIOUS
<1>5. <<a>> \o <<b>> = <<a, b>>
  <2> DEFINE s == <<a>> \o <<b>>
             t == <<a, b>>
  <2>1. <<a>> \in Seq({a, b}) /\ <<b>> \in Seq({a, b}) /\ t \in Seq({a, b})
    OBVIOUS
  <2>2. s \in Seq({a, b}) /\ Len(s) = 2 /\ Len(t) = 2
    BY <2>1
  <2>3. s[1] = a /\ s[2] = b /\ t[1] = a /\ t[2] = b
    BY <2>1
  <2> HIDE DEF s, t
  <2>4. \A i \in 1..2 : s[i] = t[i]
    BY <2>3
  <2>5. s = t
    BY <2>1, <2>2, <2>4, SeqEqual
  <2> QED BY <2>5 DEF s, t
<1>6. /\ <<a>> \o <<>> = <<a>> /\ <<>> \o <<a>> = <<a>>
      /\ <<>> \o <<>> = <<>>
  <2>1. <<a>> \in Seq({a}) /\ <<>> \in Seq({a})
    OBVIOUS
  <2> QED BY <2>1, ConcatEmptySeq
<1> QED BY <1>1, <1>2, <1>3, <1>4, <1>5, <1>6

\* A disk with the shape of b and n is recoverable.
LEMMA ShapeRecoverable ==
    ASSUME NEW d, NEW b, NEW n, Shape(d, b, n)
    PROVE  Recoverable(d) /\ d \in Disk
  BY DEF Shape, Recoverable

\* A crash finds the first effect of the running operation missing, complete
\* or torn.
LEMMA CrashLeaves ==
    ASSUME CleanCrash \/ TornCrash
    PROVE  /\ steps = <<>> => disk' = disk
           /\ steps # <<>> => disk' \in CrashImages(disk, Head(steps))
           /\ isOpen' = FALSE /\ steps' = <<>>
           /\ mem' = [snap |-> NoSnapshot, entries |-> <<>>]
           /\ result' = mem' /\ crashes' = crashes + 1
  BY DEF CleanCrash, TornCrash, Crash

\* A crash during an append or a truncation: the log before or after it.
LEMMA CrashInWriting ==
    ASSUME Holds(mem), Holds(result), Writing, CleanCrash \/ TornCrash
    PROVE  /\ Recoverable(disk') /\ disk'.snap = mem.snap
           /\ Recovered(disk') = mem \/ Recovered(disk') = result
<1>1. /\ Shape(Image(mem), mem.snap.index, Len(mem.entries))
      /\ Recovered(Image(mem)) = mem
  BY ImageIs
<1>2. /\ Shape(Image(result), result.snap.index, Len(result.entries))
      /\ Recovered(Image(result)) = result
  BY ImageIs
<1>3. result.snap = mem.snap
  BY WritesHold DEF Writing
<1>4. /\ disk = Image(mem) /\ disk.log = mem.entries /\ disk.snap = mem.snap
      /\ disk \in Disk
  BY <1>1, ShapeRecoverable DEF Writing, Image
<1>5. disk' \in CrashImages(disk, ReplaceLog(result.entries))
  BY CrashLeaves, Effects DEF Writing
<1>6. \/ disk' = disk \/ disk' = [log |-> result.entries, snap |-> disk.snap]
      \/ disk' = [log |-> Append(disk.log, Torn), snap |-> disk.snap]
  BY <1>4, <1>5, ImagesAre, Zenon
<1>7. CASE disk' = disk
  BY <1>1, <1>4, <1>7, ShapeRecoverable
<1>8. CASE disk' = [log |-> result.entries, snap |-> disk.snap]
  <2>1. disk' = Image(result)
    BY <1>3, <1>4, <1>8 DEF Image
  <2> QED BY <1>2, <1>3, <2>1, ShapeRecoverable DEF Image
<1>9. CASE disk' = [log |-> Append(disk.log, Torn), snap |-> disk.snap]
  <2>1. Shape(disk, mem.snap.index, Len(mem.entries)) /\ Recovered(disk) = mem
    BY <1>1, <1>4, Zenon
  <2>2. Shape(disk', mem.snap.index, Len(mem.entries)) /\ Recovered(disk') = mem
    <3>1. Len(disk.log) = Len(mem.entries)
      BY <1>4
    <3>2. /\ Shape(disk', mem.snap.index, Len(mem.entries))
          /\ Recovered(disk') = Recovered(disk)
      BY <1>9, <2>1, <3>1, TornTail, Zenon
    <3> QED BY <2>1, <3>2
  <2> QED BY <1>4, <1>9, <2>2, ShapeRecoverable
<1> QED BY <1>6, <1>7, <1>8, <1>9

\* The files between the two writes of a compaction.
LEMMA MidShape ==
    ASSUME NEW m, NEW r, Holds(m), Snapshots(m, r) \/ Installs(m, r),
           NEW d, d = [log |-> m.entries, snap |-> r.snap]
    PROVE  /\ Shape(d, m.snap.index, Len(m.entries))
           /\ d.log = m.entries /\ d.snap = r.snap
<1>1. Holds(r) /\ r.snap.index > m.snap.index
  BY CompactionsHold
<1>2. r.snap \in Entry /\ r.snap.index \in Nat /\ m.snap.index \in Nat
  BY <1>1, HoldsFacts
<1>3. r.snap.index >= m.snap.index
  BY <1>1, <1>2
<1>4. Shape(d, m.snap.index, Len(m.entries))
  BY <1>2, <1>3, CoveredIs
<1> QED BY <1>4

\* A crash while a compaction writes its snapshot.
LEMMA CrashInCompacting ==
    ASSUME Holds(mem), Compacting, CleanCrash \/ TornCrash
    PROVE  /\ Recoverable(disk')
           /\ disk' = disk \/ disk' = [log |-> mem.entries, snap |-> result.snap]
<1>1. Shape(Image(mem), mem.snap.index, Len(mem.entries))
  BY ImageIs
<1>2. disk = Image(mem) /\ disk.log = mem.entries /\ disk \in Disk
  BY <1>1, ShapeRecoverable DEF Compacting, Image
<1>3. disk' \in CrashImages(disk, ReplaceSnap(result.snap))
  BY CrashLeaves, Effects DEF Compacting
<1>4. disk' = disk \/ disk' = [log |-> disk.log, snap |-> result.snap]
  BY <1>2, <1>3, ImagesAre, Zenon
<1>5. CASE disk' = disk
  BY <1>1, <1>2, <1>5, ShapeRecoverable
<1>6. CASE disk' = [log |-> mem.entries, snap |-> result.snap]
  <2>1. Shape(disk', mem.snap.index, Len(mem.entries))
    BY <1>6, MidShape DEF Compacting
  <2> QED BY <1>6, <2>1, ShapeRecoverable
<1> QED BY <1>2, <1>4, <1>5, <1>6

\* A crash while a compaction rewrites the log.
LEMMA CrashInRewriting ==
    ASSUME Holds(mem), Holds(result), Rewriting, CleanCrash \/ TornCrash
    PROVE  /\ Recoverable(disk') /\ disk'.snap = result.snap
           /\ Recovered(disk') = result \/ Recovered(disk') = Recovered(disk)
<1>1. /\ Shape(disk, mem.snap.index, Len(mem.entries))
      /\ disk.log = mem.entries /\ disk.snap = result.snap
  BY MidShape DEF Rewriting
<1>2. /\ Shape(Image(result), result.snap.index, Len(result.entries))
      /\ Recovered(Image(result)) = result
  BY ImageIs
<1>3. disk \in Disk
  BY <1>1, ShapeRecoverable
<1>4. disk' \in CrashImages(disk, ReplaceLog(result.entries))
  BY CrashLeaves, Effects DEF Rewriting
<1>5. \/ disk' = disk \/ disk' = [log |-> result.entries, snap |-> disk.snap]
      \/ disk' = [log |-> Append(disk.log, Torn), snap |-> disk.snap]
  BY <1>3, <1>4, ImagesAre, Zenon
<1>6. CASE disk' = disk
  BY <1>1, <1>6, ShapeRecoverable
<1>7. CASE disk' = [log |-> result.entries, snap |-> disk.snap]
  <2>1. disk' = Image(result)
    BY <1>1, <1>7 DEF Image
  <2> QED BY <1>2, <2>1, ShapeRecoverable DEF Image
<1>8. CASE disk' = [log |-> Append(disk.log, Torn), snap |-> disk.snap]
  <2>1. Len(disk.log) = Len(mem.entries)
    BY <1>1
  <2>2. /\ Shape(disk', mem.snap.index, Len(mem.entries))
        /\ Recovered(disk') = Recovered(disk)
    <3>1. Shape(disk, mem.snap.index, Len(mem.entries))
      BY <1>1
    <3> QED BY <1>8, <2>1, <3>1, TornTail, Zenon
  <2> QED BY <1>1, <1>8, <2>2, ShapeRecoverable
<1> QED BY <1>5, <1>6, <1>7, <1>8

\* A crash during recovery: recovery starts again from an equivalent disk.
LEMMA CrashInRecovering ==
    ASSUME Recovering, CleanCrash \/ TornCrash
    PROVE  /\ Recoverable(disk') /\ disk'.snap = disk.snap
           /\ Recovered(disk') = Recovered(disk)
<1>1. PICK b \in 0..disk.snap.index, n \in 0..Len(disk.log) : Shape(disk, b, n)
  BY DEF Recovering, Recoverable
<1>2. /\ disk \in Disk /\ Readable(disk) = n /\ n \in Nat /\ Len(disk.log) \in Nat
      /\ n <= Len(disk.log) /\ b \in Nat /\ disk.snap.index \in Nat
      /\ b <= disk.snap.index
  BY <1>1, ReadableIs, ShapeRecoverable, ShapeTypes
<1>3. /\ result = Recovered(disk) /\ Holds(result) /\ result.snap = disk.snap
      /\ Len(result.entries) <= n
  <2>1. /\ Holds(Recovered(disk)) /\ Recovered(disk).snap = disk.snap
        /\ Len(Recovered(disk).entries) = IF b + n > disk.snap.index
                                          THEN b + n - disk.snap.index ELSE 0
    BY <1>1, RecoveredIs
  <2>2. Len(Recovered(disk).entries) <= n
    BY <1>2, <2>1
  <2> QED BY <2>1, <2>2 DEF Recovering
<1>4. CASE steps = <<ReplaceLog(result.entries)>>
  <2>1. disk' \in CrashImages(disk, ReplaceLog(result.entries))
    BY <1>4, CrashLeaves, Effects
  <2>2. Len(result.entries) # Len(disk.log) + 1
    <3>1. Len(result.entries) \in Nat
      BY <1>3, HoldsFacts
    <3> QED BY <1>2, <1>3, <3>1
  <2>3. disk' = disk \/ disk' = [log |-> result.entries, snap |-> disk.snap]
    BY <1>2, <2>1, <2>2, ImagesAre, Zenon
  <2>4. CASE disk' = disk
    BY <1>1, <2>4, ShapeRecoverable
  <2>5. CASE disk' = [log |-> result.entries, snap |-> disk.snap]
    <3>1. disk' = Image(result)
      BY <1>3, <2>5 DEF Image
    <3>2. /\ Shape(Image(result), result.snap.index, Len(result.entries))
          /\ Recovered(Image(result)) = result
      BY <1>3, ImageIs
    <3> QED BY <1>3, <2>5, <3>1, <3>2, ShapeRecoverable
  <2> QED BY <2>3, <2>4, <2>5
<1>5. CASE steps = <<ReplaceLog(SubSeq(disk.log, 1, n)), ReplaceLog(result.entries)>>
  <2>1. disk' \in CrashImages(disk, ReplaceLog(SubSeq(disk.log, 1, n)))
    BY <1>5, CrashLeaves, Effects
  <2>2. PICK c : c = [log |-> SubSeq(disk.log, 1, n), snap |-> disk.snap]
    OBVIOUS
  <2>3. /\ Shape(c, b, n) /\ Len(c.log) = n /\ Recovered(c) = Recovered(disk)
        /\ c.snap = disk.snap /\ c.log = SubSeq(disk.log, 1, n)
    BY <1>1, <2>2, CutTail
  <2>4. Len(SubSeq(disk.log, 1, n)) # Len(disk.log) + 1
    BY <1>2, <2>3
  <2>5. disk' = disk \/ disk' = c
    <3>1. PICK q : q = SubSeq(disk.log, 1, n)
      OBVIOUS
    <3>2. disk' \in CrashImages(disk, ReplaceLog(q)) /\ Len(q) # Len(disk.log) + 1
      BY <2>1, <2>4, <3>1
    <3>3. disk' = disk \/ disk' = [log |-> q, snap |-> disk.snap]
      BY <1>2, <3>2, ImagesAre, Zenon
    <3> QED BY <2>2, <3>1, <3>3
  <2> QED BY <1>1, <2>3, <2>5, ShapeRecoverable
<1> QED BY <1>2, <1>4, <1>5 DEF Recovering

-----------------------------------------------------------------------------
(* The invariant is inductive *)

\* Every case of the invariant has effects left or is idle or closed.
LEMMA StepCases ==
    ASSUME FileInv
    PROVE  /\ Idle => Opened
           /\ ~isOpen /\ steps = <<>> => Closed
           /\ steps # <<>> => \/ Writing \/ Compacting \/ Rewriting \/ Recovering
           /\ steps = <<>> => Opened \/ Closed
<1>1. (Writing \/ Compacting \/ Rewriting \/ Recovering) => steps # <<>>
  BY Effects DEF Writing, Compacting, Rewriting, Recovering
<1>2. Opened => isOpen /\ steps = <<>>
  BY DEF Opened
<1>3. Closed => ~isOpen /\ steps = <<>>
  BY DEF Closed
<1> QED BY <1>1, <1>2, <1>3 DEF FileInv, Idle

\* An empty log is in place.
LEMMA EmptyHolds ==
    Holds([snap |-> NoSnapshot, entries |-> <<>>])
<1>1. NoSnapshot \in Entry
  BY DEF NoSnapshot, Entry
<1>2. <<>> \in Seq(Entry) /\ \A k \in 1..Len(<<>>) : <<>>[k].index = NoSnapshot.index + k
  OBVIOUS
<1> QED BY <1>1, <1>2, HoldsIntro

\* A log that was never opened is recoverable.
LEMMA FileInit ==
    Init => FileInv
<1> SUFFICES ASSUME Init PROVE FileInv
  OBVIOUS
<1>1. Holds(mem) /\ result = mem
  BY EmptyHolds DEF Init
<1>2. disk = Image(mem)
  BY DEF Init, Image
<1>3. Recoverable(disk)
  BY <1>1, <1>2, ImageIs, ShapeRecoverable
<1>4. Closed /\ crashes \in Nat /\ isOpen \in BOOLEAN
  BY <1>3 DEF Init, Closed
<1> QED BY <1>1, <1>4 DEF FileInv

\* An operation of an idle log starts from files that agree with memory.
LEMMA OperationInv ==
    ASSUME FileInv, Operation
    PROVE  /\ FileInv' /\ Opened /\ disk' = disk /\ mem' = mem
           /\ Writing' \/ Compacting'
<1>1. Holds(mem) /\ crashes \in Nat /\ isOpen \in BOOLEAN
  BY DEF FileInv
<1>2. Idle
  BY DEF Operation, AppendEntry, TruncateSuffix, Snapshot, InstallSnapshot
<1>3. Opened /\ isOpen /\ disk = Image(mem)
  BY <1>2, StepCases DEF Opened
<1>4. /\ disk' = disk /\ mem' = mem /\ isOpen' = isOpen /\ crashes' = crashes
  BY DEF Operation, AppendEntry, TruncateSuffix, Snapshot, InstallSnapshot,
         Compaction, Begin
<1>5. /\ mem.snap.index \in Nat /\ Len(mem.entries) \in Nat
      /\ LastIndex(mem) = mem.snap.index + Len(mem.entries)
      /\ mem.entries \in Seq(Entry)
      /\ mem = [snap |-> mem.snap, entries |-> mem.entries]
  BY <1>1, HoldsFacts
<1>6. ASSUME NEW t \in Term, AppendEntry(t)
      PROVE  /\ Appends(mem, result')
             /\ steps' = <<ReplaceLog(result'.entries)>>
  <2>1. PICK e : e = [index |-> LastIndex(mem) + 1, term |-> t]
    OBVIOUS
  <2>2. /\ LastIndex(mem) < MaxIndex /\ steps' = <<ReplaceLog(Written(e))>>
        /\ result' = [mem EXCEPT !.entries = Append(@, e)]
    BY <1>6, <2>1 DEF AppendEntry, Begin
  <2>3. Written(e) = Append(mem.entries, e)
    <3>1. disk.log = mem.entries
      BY <1>3 DEF Image
    <3>2. SubSeq(mem.entries, 1, Len(mem.entries)) = mem.entries
      BY <1>5, SubSeqFull
    <3> QED BY <3>1, <3>2, Zenon DEF Written
  <2>4. result'.entries = Append(mem.entries, e)
    BY <1>5, <2>2
  <2>5. steps' = <<ReplaceLog(result'.entries)>>
    BY <2>2, <2>3, <2>4, Zenon
  <2> QED BY <2>1, <2>2, <2>5 DEF Appends
<1>7. ASSUME NEW n \in 1..MaxIndex, TruncateSuffix(n)
      PROVE  /\ Truncates(mem, result')
             /\ steps' = <<ReplaceLog(result'.entries)>>
  <2>1. PICK q : q = SubSeq(mem.entries, 1, n - 1 - mem.snap.index)
    OBVIOUS
  <2>2. /\ n > mem.snap.index /\ n <= LastIndex(mem)
        /\ steps' = <<ReplaceLog(q)>> /\ result' = [mem EXCEPT !.entries = q]
    BY <1>7, <2>1 DEF TruncateSuffix, Begin
  <2>3. n \in (mem.snap.index + 1)..LastIndex(mem)
    BY <1>5, <2>2, RaftLogAssumption
  <2>4. result'.entries = q
    BY <1>5, <2>2
  <2> QED BY <2>1, <2>2, <2>3, <2>4 DEF Truncates
<1>8. ASSUME NEW n \in 1..MaxIndex, Snapshot(n)
      PROVE  /\ Snapshots(mem, result')
             /\ steps' = <<ReplaceSnap(result'.snap), ReplaceLog(result'.entries)>>
  <2>1. /\ n > mem.snap.index /\ n <= LastIndex(mem)
        /\ Compaction([index |-> n, term |-> From(mem, n)[1].term],
                      From(mem, n + 1))
    BY <1>8 DEF Snapshot
  <2>2. n \in (mem.snap.index + 1)..LastIndex(mem)
    BY <1>5, <2>1, RaftLogAssumption
  <2> QED BY <2>1, <2>2 DEF Snapshots, Compaction, Begin
<1>9. ASSUME NEW n \in 1..MaxIndex, NEW t \in Term, InstallSnapshot(n, t)
      PROVE  /\ Installs(mem, result')
             /\ steps' = <<ReplaceSnap(result'.snap), ReplaceLog(result'.entries)>>
  <2>1. /\ n > mem.snap.index
        /\ Compaction([index |-> n, term |-> t],
                      IF Matches(mem, n, t) THEN From(mem, n + 1) ELSE <<>>)
    BY <1>9 DEF InstallSnapshot, Matches
  <2> QED BY <2>1 DEF Installs, Compaction, Begin
<1>10. CASE \/ \E t \in Term : AppendEntry(t)
            \/ \E n \in 1..MaxIndex : TruncateSuffix(n)
  <2>1. /\ Appends(mem, result') \/ Truncates(mem, result')
        /\ steps' = <<ReplaceLog(result'.entries)>>
    BY <1>6, <1>7, <1>10
  <2>2. Holds(result')
    BY <1>1, <2>1, WritesHold
  <2>3. Writing'
    BY <1>3, <1>4, <2>1 DEF Writing
  <2> QED BY <1>1, <1>3, <1>4, <2>2, <2>3 DEF FileInv
<1>11. CASE \/ \E n \in 1..MaxIndex : Snapshot(n)
            \/ \E n \in 1..MaxIndex, t \in Term : InstallSnapshot(n, t)
  <2>1. /\ Snapshots(mem, result') \/ Installs(mem, result')
        /\ steps' = <<ReplaceSnap(result'.snap), ReplaceLog(result'.entries)>>
    BY <1>8, <1>9, <1>11
  <2>2. Holds(result')
    BY <1>1, <2>1, CompactionsHold
  <2>3. Compacting'
    BY <1>3, <1>4, <2>1 DEF Compacting
  <2> QED BY <1>1, <1>3, <1>4, <2>2, <2>3 DEF FileInv
<1> QED BY <1>10, <1>11 DEF Operation

\* A finished effect: the operation is over, or the next effect is due.
LEMMA SyncInv ==
    ASSUME FileInv, Sync
    PROVE  /\ FileInv'
           /\ Writing \/ Rewriting => Opened' /\ mem' = result
           /\ Compacting => Rewriting' /\ mem' = mem /\ result' = result
           /\ Recovering => \/ Opened' /\ mem' = result
                            \/ Recovering' /\ disk'.snap = disk.snap /\ result' = result
<1>1. Holds(mem) /\ Holds(result) /\ crashes \in Nat /\ isOpen \in BOOLEAN
  BY DEF FileInv
<1>2. /\ steps # <<>> /\ disk' = After(disk, Head(steps)) /\ steps' = Tail(steps)
      /\ Len(steps) = 1 => mem' = result /\ isOpen' = TRUE
      /\ Len(steps) # 1 => mem' = mem /\ isOpen' = isOpen
      /\ result' = result /\ crashes' = crashes
  BY DEF Sync
<1>3. ASSUME disk \in Disk, disk.snap = result.snap,
             steps = <<ReplaceLog(result.entries)>>
      PROVE  FileInv' /\ Opened' /\ mem' = result
  <2>1. /\ disk' = After(disk, ReplaceLog(result.entries)) /\ steps' = <<>>
        /\ mem' = result /\ isOpen' = TRUE
    BY <1>2, <1>3, Effects
  <2>2. disk' = [log |-> result.entries, snap |-> disk.snap]
    BY <1>3, <2>1, AfterIs, Zenon
  <2>3. disk' = Image(mem')
    BY <1>3, <2>1, <2>2 DEF Image
  <2>4. Opened'
    BY <2>1, <2>3 DEF Opened
  <2>5. /\ Holds(mem') /\ Holds(result') /\ crashes' \in Nat
        /\ isOpen' \in BOOLEAN
    BY <1>1, <1>2, <2>1
  <2> QED BY <2>1, <2>4, <2>5 DEF FileInv
<1>4. CASE Writing
  <2>1. disk \in Disk
    BY <1>1, <1>4, ImageIs, ShapeRecoverable DEF Writing
  <2>2. disk.snap = mem.snap
    BY <1>4 DEF Writing, Image
  <2>3. result.snap = mem.snap
    BY <1>1, <1>4, WritesHold DEF Writing
  <2>4. steps = <<ReplaceLog(result.entries)>> /\ isOpen
    BY <1>4 DEF Writing
  <2>5. Len(steps) = 1
    BY <2>4, Effects
  <2>6. ~Compacting /\ ~Recovering
    BY <2>4, <2>5, Effects DEF Compacting, Recovering
  <2> QED BY <1>3, <2>1, <2>2, <2>3, <2>4, <2>6
<1>5. CASE Rewriting
  <2>1. disk \in Disk /\ disk.snap = result.snap
    BY <1>1, <1>5, MidShape, ShapeRecoverable DEF Rewriting
  <2>2. steps = <<ReplaceLog(result.entries)>> /\ isOpen
    BY <1>5 DEF Rewriting
  <2>3. Len(steps) = 1
    BY <2>2, Effects
  <2>4. ~Compacting /\ ~Recovering
    BY <2>2, <2>3, Effects DEF Compacting, Recovering
  <2> QED BY <1>3, <2>1, <2>2, <2>4
<1>6. CASE Compacting
  <2>1. disk \in Disk /\ disk.log = mem.entries
    <3>1. disk = Image(mem)
      BY <1>6 DEF Compacting
    <3> QED BY <1>1, <3>1, ImageIs, ShapeRecoverable DEF Image
  <2>2. /\ steps = <<ReplaceSnap(result.snap), ReplaceLog(result.entries)>>
        /\ isOpen
        /\ Snapshots(mem, result) \/ Installs(mem, result)
    BY <1>6 DEF Compacting
  <2>3. /\ disk' = After(disk, ReplaceSnap(result.snap)) /\ Len(steps) = 2
        /\ steps' = <<ReplaceLog(result.entries)>>
    BY <1>2, <2>2, Effects
  <2>4. mem' = mem /\ isOpen' = isOpen /\ isOpen'
    BY <1>2, <2>2, <2>3
  <2>5. disk' = [log |-> mem.entries, snap |-> result.snap]
    BY <2>1, <2>3, AfterIs
  <2>6. Rewriting'
    BY <1>2, <2>2, <2>3, <2>4, <2>5 DEF Rewriting
  <2>7. FileInv'
    BY <1>1, <1>2, <2>4, <2>6 DEF FileInv
  <2>8. ~Writing /\ ~Rewriting /\ ~Recovering
    <3>1. ~Writing /\ ~Rewriting
      BY <2>3, Effects DEF Writing, Rewriting
    <3> QED BY <2>2, <3>1 DEF Recovering
  <2> QED BY <1>2, <2>4, <2>6, <2>7, <2>8
<1>7. CASE Recovering
  <2>1. PICK b \in 0..disk.snap.index, n \in 0..Len(disk.log) : Shape(disk, b, n)
    BY <1>7 DEF Recovering, Recoverable
  <2>2. /\ disk \in Disk /\ Readable(disk) = n
        /\ result = Recovered(disk) /\ result.snap = disk.snap
    BY <1>7, <2>1, ReadableIs, ShapeRecoverable, RecoveredIs DEF Recovering
  <2>3. ~isOpen /\ ~Writing /\ ~Rewriting /\ ~Compacting
    BY <1>7 DEF Recovering, Writing, Rewriting, Compacting
  <2>4. CASE steps = <<ReplaceLog(result.entries)>>
    BY <1>3, <2>2, <2>3, <2>4
  <2>5. CASE steps = <<ReplaceLog(SubSeq(disk.log, 1, n)), ReplaceLog(result.entries)>>
    <3>1. PICK q : q = SubSeq(disk.log, 1, n)
      OBVIOUS
    <3>2. /\ disk' = After(disk, ReplaceLog(q)) /\ Len(steps) = 2
          /\ steps' = <<ReplaceLog(result.entries)>>
      BY <1>2, <2>5, <3>1, Effects
    <3>3. mem' = mem /\ isOpen' = isOpen /\ ~isOpen'
      BY <1>2, <2>3, <3>2
    <3>4. disk' = [log |-> q, snap |-> disk.snap]
      BY <2>2, <3>2, AfterIs
    <3>5. Shape(disk', b, n) /\ Recovered(disk') = Recovered(disk)
      BY <2>1, <3>1, <3>4, CutTail
    <3>6. Recoverable(disk') /\ result' = Recovered(disk') /\ disk'.snap = disk.snap
      BY <1>2, <2>2, <3>4, <3>5, ShapeRecoverable
    <3>7. Recovering'
      BY <1>2, <3>2, <3>3, <3>6 DEF Recovering
    <3>8. FileInv'
      BY <1>1, <1>2, <3>3, <3>7 DEF FileInv
    <3> QED BY <1>2, <2>3, <3>6, <3>7, <3>8
  <2> QED BY <1>7, <2>2, <2>4, <2>5 DEF Recovering
<1> QED BY <1>2, <1>4, <1>5, <1>6, <1>7, StepCases

\* Records none of which the snapshot covers are all recovered.
LEMMA NoneCovered ==
    ASSUME NEW d, NEW b, NEW n, Shape(d, b, n),
           \A k \in 1..n : ~(d.log[k].index <= d.snap.index)
    PROVE  RecoveredEntries(d) = SubSeq(d.log, 1, n)
<1> DEFINE s == d.snap.index
           r == RecoveredEntries(d)
           q == SubSeq(d.log, 1, n)
<1>1. /\ s \in Nat /\ b \in Nat /\ b <= s /\ n \in Nat
      /\ \A k \in 1..n : d.log[k] \in Entry /\ d.log[k].index = b + k
  BY ShapeTypes
<1>2. n = 0 \/ b = s
  <2>1. CASE n >= 1
    <3>1. 1 \in 1..n
      BY <1>1, <2>1
    <3>2. ~(b + 1 <= s)
      BY <1>1, <3>1
    <3> QED BY <1>1, <3>2
  <2> QED BY <1>1, <2>1
<1>3. /\ r \in Seq(Entry) /\ Len(r) = IF b + n > s THEN b + n - s ELSE 0
      /\ \A j \in 1..Len(r) : r[j] = d.log[s - b + j]
  BY RecoveredIs
<1>4. 1 \in Int /\ n \in Int /\ \A k \in 1..n : d.log[k] \in Entry
  BY <1>1
<1>5. /\ q \in Seq(Entry) /\ Len(q) = IF 1 <= n THEN n - 1 + 1 ELSE 0
      /\ \A k \in 1..n - 1 + 1 : q[k] = d.log[1 + k - 1]
  BY <1>4, SubSeqProperties
<1> HIDE DEF s, r, q
<1>6. Len(r) = n /\ Len(q) = n
  BY <1>1, <1>2, <1>3, <1>5
<1>7. \A k \in 1..Len(r) : r[k] = q[k]
  <2>1. TAKE k \in 1..Len(r)
  <2>2. b = s /\ k \in 1..n /\ k \in Nat
    BY <1>1, <1>2, <1>6
  <2>3. s - b + k = k /\ 1 + k - 1 = k /\ k \in 1..n - 1 + 1
    BY <1>1, <2>2
  <2>4. r[k] = d.log[k]
    BY <1>3, <2>1, <2>3
  <2>5. q[k] = d.log[k]
    BY <1>5, <2>3
  <2> QED BY <2>4, <2>5
<1>8. r = q
  BY <1>3, <1>5, <1>6, <1>7, SeqEqual
<1> QED BY <1>8 DEF r, q

\* Open reads the disk, and rewrites it when a record was torn or covered.
LEMMA OpenInv ==
    ASSUME FileInv, Open
    PROVE  /\ FileInv' /\ disk' = disk
           /\ (Opened' /\ mem' = Recovered(disk)) \/ Recovering'
<1>1. Holds(mem) /\ Holds(result) /\ crashes \in Nat /\ isOpen \in BOOLEAN
  BY DEF FileInv
<1>2. Closed
  BY StepCases DEF Open
<1>3. PICK b \in 0..disk.snap.index, n \in 0..Len(disk.log) : Shape(disk, b, n)
  BY <1>2 DEF Closed, Recoverable
<1>4. /\ disk \in Disk /\ Readable(disk) = n /\ n \in Nat /\ Len(disk.log) \in Nat
      /\ n <= Len(disk.log) /\ disk.log \in Seq(Entry \cup {Torn})
      /\ Holds(Recovered(disk)) /\ Recovered(disk).snap = disk.snap
      /\ Recovered(disk).entries = RecoveredEntries(disk)
  BY <1>3, ReadableIs, ShapeRecoverable, ShapeTypes, RecoveredIs
<1> DEFINE cut == IF n < Len(disk.log)
                  THEN <<ReplaceLog(SubSeq(disk.log, 1, n))>> ELSE <<>>
           covered == \E k \in 1..n : disk.log[k].index <= disk.snap.index
           finish == IF covered THEN <<ReplaceLog(RecoveredEntries(disk))>> ELSE <<>>
<1>5. IF cut \o finish = <<>>
      THEN /\ mem' = Recovered(disk) /\ isOpen' = TRUE
           /\ UNCHANGED <<disk, steps, result, crashes>>
      ELSE Begin(cut \o finish, Recovered(disk))
  BY <1>4, Zenon DEF Open
<1>6. ~covered => RecoveredEntries(disk) = SubSeq(disk.log, 1, n)
  BY <1>3, NoneCovered
<1> HIDE DEF covered
<1>7. CASE n = Len(disk.log) /\ ~covered
  <2>1. cut \o finish = <<>>
    BY <1>7, Effects
  <2>2. /\ mem' = Recovered(disk) /\ isOpen' = TRUE
        /\ disk' = disk /\ steps' = steps /\ result' = result /\ crashes' = crashes
    BY <1>5, <2>1
  <2>3. RecoveredEntries(disk) = disk.log
    BY <1>4, <1>6, <1>7, SubSeqFull
  <2>4. disk = Image(Recovered(disk))
    <3>1. disk = [log |-> disk.log, snap |-> disk.snap]
      BY <1>4 DEF Disk
    <3> QED BY <1>4, <2>3, <3>1 DEF Image
  <2>5. Opened'
    BY <1>2, <2>2, <2>4 DEF Opened, Closed
  <2> QED BY <1>1, <1>4, <2>2, <2>5 DEF FileInv
<1>8. CASE n < Len(disk.log) \/ covered
  <2>1. /\ cut \o finish # <<>>
        /\ \/ cut \o finish = <<ReplaceLog(RecoveredEntries(disk))>>
           \/ cut \o finish = <<ReplaceLog(SubSeq(disk.log, 1, n)),
                                 ReplaceLog(RecoveredEntries(disk))>>
    <3>1. CASE n < Len(disk.log) /\ covered
      BY <3>1, Effects
    <3>2. CASE n < Len(disk.log) /\ ~covered
      BY <1>6, <3>2, Effects
    <3>3. CASE ~(n < Len(disk.log)) /\ covered
      BY <3>3, Effects
    <3> QED BY <1>8, <3>1, <3>2, <3>3
  <2>2. /\ steps' = cut \o finish /\ result' = Recovered(disk)
        /\ disk' = disk /\ mem' = mem /\ isOpen' = isOpen /\ crashes' = crashes
    BY <1>5, <2>1 DEF Begin
  <2>3. \/ steps' = <<ReplaceLog(result'.entries)>>
        \/ steps' = <<ReplaceLog(SubSeq(disk.log, 1, Readable(disk))),
                      ReplaceLog(result'.entries)>>
    <3>1. result'.entries = RecoveredEntries(disk)
      BY <1>4, <2>2
    <3> QED BY <1>4, <2>1, <2>2, <3>1, Zenon
  <2>4. Recovering'
    BY <1>2, <2>2, <2>3 DEF Recovering, Closed
  <2> QED BY <1>1, <1>4, <2>2, <2>4 DEF FileInv
<1> QED BY <1>4, <1>7, <1>8

\* A crash loses memory and leaves a disk that recovery can read.
LEMMA CrashInv ==
    ASSUME FileInv, CleanCrash \/ TornCrash
    PROVE  FileInv' /\ Closed'
<1>1. Holds(mem) /\ Holds(result) /\ crashes \in Nat /\ isOpen \in BOOLEAN
  BY DEF FileInv
<1>2. /\ isOpen' = FALSE /\ steps' = <<>>
      /\ mem' = [snap |-> NoSnapshot, entries |-> <<>>]
      /\ result' = mem' /\ crashes' = crashes + 1
  BY CrashLeaves
<1>3. Recoverable(disk')
  <2>1. CASE Opened
    <3>1. disk = Image(mem) /\ disk' = disk
      BY <2>1, CrashLeaves DEF Opened
    <3>2. Recoverable(Image(mem))
      BY <1>1, ImageIs, ShapeRecoverable
    <3> QED BY <3>1, <3>2
  <2>2. CASE Closed
    BY <2>2, CrashLeaves DEF Closed
  <2>3. CASE Writing
    BY <1>1, <2>3, CrashInWriting
  <2>4. CASE Compacting
    BY <1>1, <2>4, CrashInCompacting
  <2>5. CASE Rewriting
    BY <1>1, <2>5, CrashInRewriting
  <2>6. CASE Recovering
    BY <2>6, CrashInRecovering
  <2> QED BY <2>1, <2>2, <2>3, <2>4, <2>5, <2>6 DEF FileInv
<1>4. Closed'
  BY <1>2, <1>3 DEF Closed
<1>5. /\ Holds(mem') /\ Holds(result') /\ crashes' \in Nat
      /\ isOpen' \in BOOLEAN
  <2>1. Holds(mem') /\ Holds(result')
    BY <1>2, EmptyHolds
  <2>2. crashes' \in Nat
    BY <1>1, <1>2
  <2>3. isOpen' \in BOOLEAN
    BY <1>2
  <2> QED BY <2>1, <2>2, <2>3
<1> QED BY <1>4, <1>5 DEF FileInv

\* A stuttering step keeps the invariant.
LEMMA StutterInv ==
    ASSUME FileInv, UNCHANGED vars
    PROVE  FileInv'
  BY DEF FileInv, vars, Opened, Writing, Compacting, Rewriting, Closed, Recovering

\* Every step, the crash between the writes of an install included, keeps the
\* invariant.
LEMMA FileNext ==
    FileInv /\ [TornNext]_vars => FileInv'
  BY OperationInv, SyncInv, OpenInv, CrashInv, StutterInv DEF TornNext, Next

\* Where the log stands holds in every reachable state, even if a crash may
\* leave a snapshot that contradicts the log.
LEMMA FileInvariant ==
    TornSpec => []FileInv
  BY FileInit, FileNext, PTL DEF TornSpec

\* The crashes of Spec are crashes of TornSpec.
LEMMA CleanIsTorn ==
    Spec => TornSpec
<1>1. [Next]_vars => [TornNext]_vars
  BY DEF TornNext
<1> QED BY <1>1, PTL DEF Spec, TornSpec

-----------------------------------------------------------------------------
(* The theorems *)

\* The files and the Log struct keep their types, whatever a crash leaves:
\* Open never takes a torn record for an entry.
THEOREM RaftLogTypes ==
    TornSpec => []TypeOK
<1>1. FileInv => TypeOK
  <2> SUFFICES ASSUME FileInv PROVE TypeOK
    OBVIOUS
  <2>1. Holds(mem) /\ Holds(result) /\ crashes \in Nat
    BY DEF FileInv
  <2>2. mem \in [snap : Entry, entries : Seq(Entry)]
    BY <2>1 DEF Holds, Memory
  <2>3. isOpen \in BOOLEAN
    BY DEF FileInv
  <2>4. disk \in Disk
    <3>1. CASE Opened \/ Writing \/ Compacting
      <4>1. disk = Image(mem)
        BY <3>1 DEF Opened, Writing, Compacting
      <4> QED BY <2>1, <4>1, ImageIs, ShapeRecoverable
    <3>2. CASE Rewriting
      BY <2>1, <3>2, MidShape, ShapeRecoverable DEF Rewriting
    <3>3. CASE Closed \/ Recovering
      BY <3>3, ShapeRecoverable DEF Closed, Recovering, Recoverable
    <3> QED BY <3>1, <3>2, <3>3 DEF FileInv
  <2> QED BY <2>1, <2>2, <2>3, <2>4 DEF TypeOK, Disk
<1> QED BY <1>1, FileInvariant, PTL

\* Between two operations a crash recovers exactly what memory holds: no
\* acknowledged entry is lost and none comes back, also after crashes between
\* the two files of a compaction.
THEOREM NothingLost ==
    TornSpec => []MemoryIsDurable
<1>1. FileInv => MemoryIsDurable
  <2> SUFFICES ASSUME FileInv, Idle PROVE Recovered(disk) = mem
    BY DEF MemoryIsDurable
  <2>1. disk = Image(mem) /\ Holds(mem)
    BY StepCases DEF Opened, FileInv
  <2> QED BY <2>1, ImageIs
<1> QED BY <1>1, FileInvariant, PTL

\* The entry at offset k is the one of index snapIndex + k, as At and From
\* assume.
THEOREM OffsetsAreIndices ==
    TornSpec => []EntriesInPlace
<1>1. FileInv => EntriesInPlace
  BY DEF FileInv, Holds, EntriesInPlace
<1> QED BY <1>1, FileInvariant, PTL

-----------------------------------------------------------------------------
(* DurableLog is implemented *)

\* The log a crash would recover, in each phase of an operation.
Visible ==
    /\ Opened \/ Writing \/ Compacting =>
          disk.snap = mem.snap /\ SafeEntries = mem.entries
    /\ Rewriting => disk.snap = result.snap /\ SafeEntries = result.entries
    /\ Closed \/ Recovering => SafeEntries = RecoveredEntries(disk)

\* In the middle of a compaction the new log is visible: recovered, or, when
\* the install contradicts the log, counted as replaced.
LEMMA VisibleIs ==
    FileInv => Visible
<1> SUFFICES ASSUME FileInv PROVE Visible
  OBVIOUS
<1>1. Holds(mem)
  BY DEF FileInv
<1>2. ASSUME Opened \/ Writing \/ Compacting
      PROVE  disk.snap = mem.snap /\ SafeEntries = mem.entries
  <2>1. disk = Image(mem)
    BY <1>2 DEF Opened, Writing, Compacting
  <2>2. disk.log = mem.entries /\ disk.snap = mem.snap
    BY <2>1 DEF Image
  <2>3. ~Contradicted
    <3>1. \A k \in 1..Len(mem.entries) : mem.entries[k].index # mem.snap.index
      BY <1>1, HoldsFacts
    <3> QED BY <2>2, <3>1 DEF Contradicted
  <2>4. RecoveredEntries(disk) = mem.entries
    BY <1>1, <2>1, ImageIs
  <2> QED BY <2>2, <2>3, <2>4 DEF SafeEntries
<1>3. ASSUME Rewriting
      PROVE  disk.snap = result.snap /\ SafeEntries = result.entries
  <2>1. isOpen /\ steps # <<>> /\ disk = [log |-> mem.entries, snap |-> result.snap]
    BY <1>3, Effects DEF Rewriting
  <2>2. RecoveredEntries(disk) = result.entries \/ Contradicted
    BY <1>1, <1>3, CompactionsHold DEF Rewriting, Contradicted
  <2> QED BY <2>1, <2>2 DEF SafeEntries
<1>4. ASSUME Closed \/ Recovering PROVE SafeEntries = RecoveredEntries(disk)
  BY <1>4 DEF Closed, Recovering, SafeEntries
<1> QED BY <1>2, <1>3, <1>4 DEF Visible


\* An append or a truncation that becomes visible is one of DurableLog's.
LEMMA AbstractWrite ==
    ASSUME NEW m, NEW r, Holds(m), Appends(m, r) \/ Truncates(m, r),
           disk.snap = m.snap, SafeEntries = m.entries,
           disk'.snap = r.snap, SafeEntries' = r.entries
    PROVE  Durable!Next
<1>1. /\ LastIndex(m) = m.snap.index + Len(m.entries)
      /\ m = [snap |-> m.snap, entries |-> m.entries]
  BY HoldsFacts
<1>2. Durable!Last = LastIndex(m)
  BY <1>1, Zenon DEF Durable!Last
<1>3. r.snap = m.snap
  BY WritesHold
<1>4. ASSUME NEW t \in Term, LastIndex(m) < MaxIndex,
             r = [m EXCEPT !.entries =
                     Append(@, [index |-> LastIndex(m) + 1, term |-> t])]
      PROVE  Durable!AppendEntry(t)
  <2>1. r.entries = Append(m.entries, [index |-> LastIndex(m) + 1, term |-> t])
    BY <1>1, <1>4
  <2> QED BY <1>2, <1>3, <1>4, <2>1, Zenon DEF Durable!AppendEntry
<1>5. ASSUME NEW n \in (m.snap.index + 1)..LastIndex(m),
             r = [m EXCEPT !.entries = SubSeq(@, 1, n - 1 - m.snap.index)]
      PROVE  Durable!TruncateSuffix(n) /\ n \in (disk.snap.index + 1)..Durable!Last
  <2>1. r.entries = SubSeq(m.entries, 1, n - 1 - m.snap.index)
    BY <1>1, <1>5
  <2>2. m.snap.index < n
    <3>1. m.snap.index \in Nat /\ Len(m.entries) \in Nat
      BY HoldsFacts
    <3> QED BY <1>1, <3>1
  <2>3. Durable!TruncateSuffix(n)
    BY <1>3, <2>1, <2>2, Zenon DEF Durable!TruncateSuffix
  <2> QED BY <1>2, <2>3, Zenon
<1>6. CASE Appends(m, r)
  BY <1>4, <1>6, Zenon DEF Appends, Durable!Next
<1>7. CASE Truncates(m, r)
  BY <1>5, <1>7, Zenon DEF Truncates, Durable!Next
<1> QED BY <1>6, <1>7

\* So is a compaction or an install.
LEMMA AbstractCompaction ==
    ASSUME NEW m, NEW r, Holds(m), Snapshots(m, r) \/ Installs(m, r),
           disk.snap = m.snap, SafeEntries = m.entries,
           disk'.snap = r.snap, SafeEntries' = r.entries
    PROVE  Durable!Next
<1>1. LastIndex(m) = m.snap.index + Len(m.entries)
  BY HoldsFacts
<1>2. Durable!Last = LastIndex(m)
  BY <1>1, Zenon DEF Durable!Last
<1>3. ASSUME NEW n PROVE Durable!Suffix(n) = From(m, n)
  BY Zenon DEF Durable!Suffix, From
<1>4. ASSUME NEW n \in Nat, n > m.snap.index, n <= LastIndex(m)
      PROVE  From(m, n)[1] = m.entries[n - m.snap.index]
  BY <1>4, FromIs
<1>5. ASSUME NEW n \in (m.snap.index + 1)..LastIndex(m),
             r = [snap |-> [index |-> n, term |-> From(m, n)[1].term],
                  entries |-> From(m, n + 1)]
      PROVE  Durable!Snapshot(n) /\ n \in (disk.snap.index + 1)..Durable!Last
  <2>1. n \in Nat /\ n > m.snap.index /\ n <= LastIndex(m)
    <3>1. m.snap.index \in Nat /\ Len(m.entries) \in Nat
      BY HoldsFacts
    <3> QED BY <1>1, <3>1
  <2>2. From(m, n)[1] = m.entries[n - m.snap.index]
    BY <1>4, <2>1
  <2>3. /\ r.snap = [index |-> n, term |-> m.entries[n - m.snap.index].term]
        /\ r.entries = From(m, n + 1)
    BY <1>5, <2>2
  <2>4. Durable!Snapshot(n)
    BY <1>3, <2>3, Zenon DEF Durable!Snapshot
  <2> QED BY <1>2, <2>4, Zenon
<1>6. ASSUME NEW n \in 1..MaxIndex, NEW t \in Term, n > m.snap.index,
             r = [snap |-> [index |-> n, term |-> t],
                  entries |-> IF Matches(m, n, t) THEN From(m, n + 1) ELSE <<>>]
      PROVE  Durable!InstallSnapshot(n, t)
  <2>1. n \in Nat
    BY RaftLogAssumption
  <2>2. Matches(m, n, t) <=>
           n <= LastIndex(m) /\ m.entries[n - m.snap.index].term = t
    <3>1. CASE n <= LastIndex(m)
      <4>1. From(m, n)[1] = m.entries[n - m.snap.index]
        BY <1>4, <1>6, <2>1, <3>1
      <4> QED BY <4>1, Zenon DEF Matches
    <3>2. CASE ~(n <= LastIndex(m))
      BY <3>2, Zenon DEF Matches
    <3> QED BY <3>1, <3>2
  <2>3. /\ r.snap = [index |-> n, term |-> t]
        /\ r.entries = IF Matches(m, n, t) THEN From(m, n + 1) ELSE <<>>
    BY <1>6
  <2>4. r.entries = IF n <= LastIndex(m) /\ m.entries[n - m.snap.index].term = t
                    THEN From(m, n + 1) ELSE <<>>
    BY <2>2, <2>3, Zenon
  <2> QED BY <1>2, <1>3, <1>6, <2>3, <2>4, Zenon DEF Durable!InstallSnapshot
<1>7. CASE Snapshots(m, r)
  BY <1>5, <1>7, Zenon DEF Snapshots, Durable!Next
<1>8. CASE Installs(m, r)
  BY <1>6, <1>8, Zenon DEF Installs, Durable!Next
<1> QED BY <1>7, <1>8

\* Every step shows one operation of DurableLog or nothing: an operation
\* becomes visible with its first effect, a crash finds it visible or not.
LEMMA DurableStep ==
    ASSUME FileInv, [Next]_vars
    PROVE  [Durable!Next]_(Durable!vars)
<1>1. FileInv'
  BY FileNext DEF TornNext
<1>2. Visible
  BY VisibleIs
<1>3. Visible'
  BY <1>1, VisibleIs, PTL
<1>4. Holds(mem) /\ Holds(result)
  BY DEF FileInv
<1>5. ASSUME disk'.snap = disk.snap, SafeEntries' = SafeEntries
      PROVE  UNCHANGED Durable!vars
  BY <1>5 DEF Durable!vars
<1>6. CASE Operation
  <2>1. Opened /\ (Writing' \/ Compacting') /\ disk' = disk /\ mem' = mem
    BY <1>6, OperationInv
  <2>2. disk'.snap = disk.snap /\ SafeEntries' = SafeEntries
    BY <1>2, <1>3, <2>1 DEF Visible
  <2> QED BY <1>5, <2>2
<1>7. CASE Sync
  <2>1. CASE Writing
    <3>1. Opened' /\ mem' = result
      BY <1>7, <2>1, SyncInv
    <3>2. /\ disk.snap = mem.snap /\ SafeEntries = mem.entries
          /\ disk'.snap = result.snap /\ SafeEntries' = result.entries
      BY <1>2, <1>3, <2>1, <3>1 DEF Visible
    <3>3. Durable!Next
      BY <1>4, <2>1, <3>2, AbstractWrite DEF Writing
    <3> QED BY <3>3
  <2>2. CASE Compacting
    <3>1. Rewriting' /\ mem' = mem /\ result' = result
      BY <1>7, <2>2, SyncInv
    <3>2. /\ disk.snap = mem.snap /\ SafeEntries = mem.entries
          /\ disk'.snap = result.snap /\ SafeEntries' = result.entries
      BY <1>2, <1>3, <2>2, <3>1 DEF Visible
    <3>3. Durable!Next
      BY <1>4, <2>2, <3>2, AbstractCompaction DEF Compacting
    <3> QED BY <3>3
  <2>3. CASE Rewriting
    <3>1. Opened' /\ mem' = result
      BY <1>7, <2>3, SyncInv
    <3>2. disk'.snap = disk.snap /\ SafeEntries' = SafeEntries
      BY <1>2, <1>3, <2>3, <3>1 DEF Visible
    <3> QED BY <1>5, <3>2
  <2>4. CASE Recovering
    <3>1. PICK b \in 0..disk.snap.index, n \in 0..Len(disk.log) : Shape(disk, b, n)
      BY <2>4 DEF Recovering, Recoverable
    <3>2. /\ result = Recovered(disk) /\ result.snap = disk.snap
          /\ result.entries = RecoveredEntries(disk)
      BY <2>4, <3>1, RecoveredIs DEF Recovering
    <3>3. CASE Opened' /\ mem' = result
      <4>1. disk'.snap = disk.snap /\ SafeEntries' = SafeEntries
        BY <1>2, <1>3, <2>4, <3>2, <3>3 DEF Visible
      <4> QED BY <1>5, <4>1
    <3>4. CASE Recovering' /\ disk'.snap = disk.snap /\ result' = result
      <4>1. Recovered(disk') = Recovered(disk)
        BY <3>2, <3>4 DEF Recovering
      <4>2. RecoveredEntries(disk') = RecoveredEntries(disk)
        BY <4>1 DEF Recovered
      <4>3. SafeEntries' = SafeEntries
        BY <1>2, <1>3, <2>4, <3>4, <4>2 DEF Visible
      <4> QED BY <1>5, <3>4, <4>3
    <3> QED BY <1>7, <2>4, <3>3, <3>4, SyncInv
  <2>5. steps # <<>>
    BY <1>7 DEF Sync
  <2> QED BY <2>1, <2>2, <2>3, <2>4, <2>5, StepCases
<1>8. CASE Open
  <2>1. Closed
    BY <1>8, StepCases DEF Open
  <2>2. disk' = disk /\ ((Opened' /\ mem' = Recovered(disk)) \/ Recovering')
    BY <1>8, OpenInv
  <2>3. SafeEntries' = RecoveredEntries(disk)
    <3>1. CASE Opened' /\ mem' = Recovered(disk)
      BY <1>3, <3>1 DEF Visible, Recovered
    <3>2. CASE Recovering'
      BY <1>3, <2>2, <3>2 DEF Visible
    <3> QED BY <2>2, <3>1, <3>2
  <2>4. disk'.snap = disk.snap /\ SafeEntries' = SafeEntries
    BY <1>2, <2>1, <2>2, <2>3 DEF Visible
  <2> QED BY <1>5, <2>4
<1>9. CASE CleanCrash
  <2>1. Closed'
    BY <1>9, CrashInv
  <2>2. SafeEntries' = Recovered(disk').entries
    BY <1>3, <2>1 DEF Visible, Recovered
  <2>3. steps # <<>> => ~Contradicted /\ ~Contradicted'
    BY <1>9 DEF CleanCrash
  <2>4. CASE Opened \/ Closed
    <3>1. disk' = disk
      BY <1>9, <2>4, CrashLeaves DEF Opened, Closed
    <3>2. SafeEntries = RecoveredEntries(disk)
      <4>1. CASE Opened
        <5>1. disk = Image(mem) /\ SafeEntries = mem.entries
          BY <1>2, <4>1 DEF Opened, Visible
        <5> QED BY <1>4, <5>1, ImageIs
      <4>2. CASE Closed
        BY <1>2, <4>2 DEF Visible
      <4> QED BY <2>4, <4>1, <4>2
    <3>3. disk'.snap = disk.snap /\ SafeEntries' = SafeEntries
      BY <2>2, <3>1, <3>2 DEF Recovered
    <3> QED BY <1>5, <3>3
  <2>5. CASE Writing
    <3>1. /\ disk'.snap = mem.snap
          /\ Recovered(disk') = mem \/ Recovered(disk') = result
      BY <1>4, <1>9, <2>5, CrashInWriting
    <3>2. disk.snap = mem.snap /\ SafeEntries = mem.entries
      BY <1>2, <2>5 DEF Visible
    <3>3. CASE Recovered(disk') = mem
      <4>1. disk'.snap = disk.snap /\ SafeEntries' = SafeEntries
        BY <2>2, <3>1, <3>2, <3>3
      <4> QED BY <1>5, <4>1
    <3>4. CASE Recovered(disk') = result
      <4>1. disk'.snap = result.snap /\ SafeEntries' = result.entries
        BY <1>4, <2>2, <2>5, <3>1, <3>4, WritesHold DEF Writing
      <4>2. Durable!Next
        BY <1>4, <2>5, <3>2, <4>1, AbstractWrite DEF Writing
      <4> QED BY <4>2
    <3> QED BY <3>1, <3>3, <3>4
  <2>6. CASE Compacting
    <3>1. \/ disk' = disk
          \/ disk' = [log |-> mem.entries, snap |-> result.snap]
      BY <1>4, <1>9, <2>6, CrashInCompacting
    <3>2. /\ disk.snap = mem.snap /\ SafeEntries = mem.entries
          /\ disk = Image(mem) /\ steps # <<>>
      BY <1>2, <2>6, Effects DEF Visible, Compacting
    <3>3. CASE disk' = disk
      <4>1. Recovered(disk') = mem
        BY <1>4, <3>2, <3>3, ImageIs
      <4>2. disk'.snap = disk.snap /\ SafeEntries' = SafeEntries
        BY <2>2, <3>2, <3>3, <4>1
      <4> QED BY <1>5, <4>2
    <3>4. CASE disk' = [log |-> mem.entries, snap |-> result.snap]
      <4>1. RecoveredEntries(disk') = result.entries \/ Contradicted'
        BY <1>4, <2>6, <3>4, CompactionsHold DEF Compacting, Contradicted
      <4>2. disk'.snap = result.snap /\ SafeEntries' = result.entries
        BY <2>2, <2>3, <3>2, <3>4, <4>1 DEF Recovered
      <4>3. Durable!Next
        BY <1>4, <2>6, <3>2, <4>2, AbstractCompaction DEF Compacting
      <4> QED BY <4>3
    <3> QED BY <3>1, <3>3, <3>4
  <2>7. CASE Rewriting
    <3>1. /\ disk'.snap = result.snap
          /\ Recovered(disk') = result \/ Recovered(disk') = Recovered(disk)
      BY <1>4, <1>9, <2>7, CrashInRewriting
    <3>2. /\ disk.snap = result.snap /\ SafeEntries = result.entries
          /\ isOpen /\ steps # <<>>
      BY <1>2, <2>7, Effects DEF Visible, Rewriting
    <3>3. Recovered(disk).entries = result.entries
      BY <2>3, <3>2 DEF SafeEntries, Recovered
    <3>4. disk'.snap = disk.snap /\ SafeEntries' = SafeEntries
      BY <2>2, <3>1, <3>2, <3>3
    <3> QED BY <1>5, <3>4
  <2>8. CASE Recovering
    <3>1. disk'.snap = disk.snap /\ Recovered(disk') = Recovered(disk)
      BY <1>9, <2>8, CrashInRecovering
    <3>2. disk'.snap = disk.snap /\ SafeEntries' = SafeEntries
      BY <1>2, <2>2, <2>8, <3>1 DEF Visible, Recovered
    <3> QED BY <1>5, <3>2
  <2> QED BY <2>4, <2>5, <2>6, <2>7, <2>8 DEF FileInv
<1>10. CASE UNCHANGED vars
  <2>1. disk'.snap = disk.snap /\ SafeEntries' = SafeEntries
    BY <1>10 DEF vars, SafeEntries, Contradicted
  <2> QED BY <1>5, <2>1
<1> QED BY <1>6, <1>7, <1>8, <1>9, <1>10 DEF Next

\* The log a crash would recover changes by whole appends, truncations,
\* compactions and installs only, as long as no crash falls between the two
\* writes of an install that the log contradicts.
THEOREM CrashIsAtomic ==
    Spec => CrashAtomic
<1>1. Init => Durable!Init
  <2> SUFFICES ASSUME Init PROVE Durable!Init
    OBVIOUS
  <2>1. FileInv /\ Visible
    BY FileInit, VisibleIs
  <2>2. disk = Image(mem) /\ Holds(mem) /\ mem.entries = <<>> /\ disk.snap = NoSnapshot
    BY <2>1 DEF Init, Image, FileInv
  <2>3. RecoveredEntries(disk) = <<>>
    BY <2>2, ImageIs
  <2>4. SafeEntries = <<>>
    BY <2>3 DEF Init, SafeEntries
  <2> QED BY <2>2, <2>4 DEF Durable!Init, NoSnapshot
<1>2. FileInv /\ [Next]_vars => [Durable!Next]_(Durable!vars)
  BY DurableStep
<1>3. Spec => []FileInv
  BY CleanIsTorn, FileInvariant, PTL
<1>4. Spec => Durable!Spec
  BY <1>1, <1>2, <1>3, PTL DEF Spec, Durable!Spec
<1> QED BY <1>4 DEF CrashAtomic
=============================================================================
