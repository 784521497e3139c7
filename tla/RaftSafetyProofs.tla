-------------------------- MODULE RaftSafetyProofs --------------------------
(***************************************************************************)
(* Proofs that the logs of Raft are safe: log matching, leader            *)
(* completeness, state machine safety and the properties that rest on      *)
(* them, for every set of servers and every value of the bounds, under     *)
(* Spec.                                                                   *)
(*                                                                         *)
(* The argument has two layers.  The first speaks of nothing but logs and  *)
(* terms: F maps every node to its log, T to the term on its disk, H is    *)
(* the set of logs any node ever held and A relates a node to the logs it  *)
(* held in the term of their last entry.  It shows that the two ways logs  *)
(* change, a leader appending an entry and a follower moving towards a     *)
(* leader's log, never take away a log a majority held.  The second layer  *)
(* shows that every action of the consensus core changes logs in one of    *)
(* these ways only, or not at all.                                         *)
(***************************************************************************)
EXTENDS RaftProofs

-----------------------------------------------------------------------------
(* Sequences of entries *)

\* The first n entries, the term of the last entry, and the prefix order.
Pre(h, n) == SubSeq(h, 1, n)
LastTerm(h) == IF h = <<>> THEN 0 ELSE h[Len(h)].term
Below(p, h) == Len(p) <= Len(h) /\ \A n \in 1..Len(p) : p[n] = h[n]

\* Prefixes are logs, below the log they are taken from.
LEMMA PreFacts ==
    ASSUME NEW h \in Seq(Entry), NEW n \in 0..Len(h)
    PROVE  /\ Pre(h, n) \in Seq(Entry) /\ Len(Pre(h, n)) = n
           /\ \A k \in 1..n : Pre(h, n)[k] = h[k]
           /\ Below(Pre(h, n), h)
           /\ Pre(h, n) = <<>> <=> n = 0
           /\ n >= 1 => LastTerm(Pre(h, n)) = h[n].term
<1>1. /\ Pre(h, n) \in Seq(Entry) /\ Len(Pre(h, n)) = n
      /\ \A k \in 1..n : Pre(h, n)[k] = h[k]
  <2>1. \A k \in 1..n : h[k] \in Entry
    BY ElementOfSeq
  <2>2. 1 \in Int /\ n \in Int /\ n \in Nat
    BY LenProperties
  <2> QED BY <2>1, <2>2, SubSeqProperties DEF Pre
<1>2. Below(Pre(h, n), h)
  BY <1>1 DEF Below
<1>3. Pre(h, n) = <<>> <=> n = 0
  BY <1>1, EmptySeq
<1>4. n >= 1 => LastTerm(Pre(h, n)) = h[n].term
  BY <1>1, <1>3 DEF LastTerm
<1> QED BY <1>1, <1>2, <1>3, <1>4

\* The prefix order is a partial order whose down-sets are chains.
LEMMA BelowFacts ==
    ASSUME NEW f \in Seq(Entry), NEW g \in Seq(Entry), NEW h \in Seq(Entry)
    PROVE  /\ Below(<<>>, h) /\ Below(h, h)
           /\ Below(f, g) /\ Below(g, h) => Below(f, h)
           /\ Below(f, g) /\ Below(g, f) => f = g
           /\ Below(f, g) /\ Len(g) <= Len(f) => f = g
           /\ Below(f, h) /\ Below(g, h) => Below(f, g) \/ Below(g, f)
           /\ Below(f, h) /\ Below(g, h) /\ Len(f) <= Len(g) => Below(f, g)
           /\ Below(f, h) => f = Pre(h, Len(f)) /\ Len(f) \in 0..Len(h)
<1>1. /\ Len(f) \in Nat /\ Len(g) \in Nat /\ Len(h) \in Nat
      /\ Len(<<>>) = 0
  BY EmptySeq
<1>2. Below(<<>>, h) /\ Below(h, h)
  BY <1>1 DEF Below
<1>3. Below(f, g) /\ Below(g, h) => Below(f, h)
  BY <1>1 DEF Below
<1>4. Below(f, g) /\ Len(g) <= Len(f) => f = g
  <2>1. SUFFICES ASSUME Below(f, g), Len(g) <= Len(f) PROVE f = g
    OBVIOUS
  <2>2. Len(f) = Len(g) /\ \A n \in 1..Len(f) : f[n] = g[n]
    BY <1>1, <2>1 DEF Below
  <2> QED BY <2>2, SeqEqual
<1>5. Below(f, g) /\ Below(g, f) => f = g
  BY <1>4 DEF Below
<1>6. Below(f, h) /\ Below(g, h) /\ Len(f) <= Len(g) => Below(f, g)
  BY <1>1 DEF Below
<1>7. Below(f, h) /\ Below(g, h) => Below(f, g) \/ Below(g, f)
  BY <1>1 DEF Below
<1>8. Below(f, h) => f = Pre(h, Len(f)) /\ Len(f) \in 0..Len(h)
  <2>1. SUFFICES ASSUME Below(f, h)
                 PROVE  f = Pre(h, Len(f)) /\ Len(f) \in 0..Len(h)
    OBVIOUS
  <2>2. Len(f) \in 0..Len(h) /\ \A n \in 1..Len(f) : f[n] = h[n]
    BY <1>1, <2>1 DEF Below
  <2>3. /\ Pre(h, Len(f)) \in Seq(Entry) /\ Len(Pre(h, Len(f))) = Len(f)
        /\ \A k \in 1..Len(f) : Pre(h, Len(f))[k] = h[k]
    BY <2>2, PreFacts
  <2> QED BY <2>2, <2>3, SeqEqual
<1> QED BY <1>2, <1>3, <1>4, <1>5, <1>6, <1>7, <1>8

\* A log is below the log with one more entry, which ends in that entry.
LEMMA AppendFacts ==
    ASSUME NEW f \in Seq(Entry), NEW e \in Entry
    PROVE  /\ Append(f, e) \in Seq(Entry) /\ Len(Append(f, e)) = Len(f) + 1
           /\ Append(f, e) # <<>> /\ Append(f, e)[Len(f) + 1] = e
           /\ Below(f, Append(f, e)) /\ LastTerm(Append(f, e)) = e.term
           /\ \A n \in 1..Len(f) : Append(f, e)[n] = f[n]
           /\ \A n \in 0..Len(f) : Pre(Append(f, e), n) = Pre(f, n)
           /\ Pre(Append(f, e), Len(f) + 1) = Append(f, e)
<1> DEFINE h == Append(f, e)
<1>1. /\ h \in Seq(Entry) /\ h # <<>> /\ Len(h) = Len(f) + 1
      /\ \A n \in 1..Len(f) : h[n] = f[n]
      /\ h[Len(f) + 1] = e /\ Len(f) \in Nat
  BY AppendProperties
<1> HIDE DEF h
<1>2. Below(f, h) /\ LastTerm(h) = e.term
  BY <1>1 DEF Below, LastTerm
<1>3. ASSUME NEW n \in 0..Len(f) PROVE Pre(h, n) = Pre(f, n)
  <2>1. n \in 0..Len(h)
    BY <1>1
  <2>2. /\ Pre(h, n) \in Seq(Entry) /\ Len(Pre(h, n)) = n
        /\ \A k \in 1..n : Pre(h, n)[k] = h[k]
    BY <1>1, <2>1, PreFacts
  <2>3. /\ Pre(f, n) \in Seq(Entry) /\ Len(Pre(f, n)) = n
        /\ \A k \in 1..n : Pre(f, n)[k] = f[k]
    BY <1>1, PreFacts
  <2>4. ASSUME NEW k \in 1..n PROVE Pre(h, n)[k] = Pre(f, n)[k]
    <3>1. k \in 1..Len(f)
      BY <1>1
    <3> QED BY <1>1, <2>2, <2>3, <3>1
  <2> QED BY <2>2, <2>3, <2>4, SeqEqual
<1>4. Pre(h, Len(f) + 1) = h
  BY <1>1, BelowFacts
<1> QED BY <1>1, <1>2, <1>3, <1>4 DEF h

-----------------------------------------------------------------------------
(* The invariant on logs and terms *)

\* A majority moved past the term of p without holding p in it: p cannot be
\* committed by counting any more.
Doomed(T, A, p) ==
    \E Q \in SUBSET Server :
       Majority(Q) /\ \A q \in Q : T[q] > LastTerm(p) /\ <<q, p>> \notin A

\* A majority held p in its term.
Chosen(A, p) ==
    \E Q \in SUBSET Server : Majority(Q) /\ \A q \in Q : <<q, p>> \in A

\* The log g lies below one that a leader of a term up to t counted.
Settled(H, A, g, t) ==
    g = <<>> \/ \E p \in H : Chosen(A, p) /\ LastTerm(p) <= t /\ Below(g, p)

\* q held every prefix of h that ends in an entry of term t, in that term.
Acked(A, q, h, t) ==
    \A n \in 1..Len(h) : h[n].term = t => <<q, Pre(h, n)>> \in A

\* The acknowledgement of the entries up to k that a leader of term t may
\* count q for.
Confirmed(H, A, q, t, k) ==
    \E h \in H : Len(h) = k /\ LastTerm(h) = t /\ Acked(A, q, h, t)

\* Logs grow only at their leaders: terms ascend, and logs that end in the
\* same term are one leader's log at different times.
HistoryInv(H) ==
    /\ H \subseteq Seq(Entry) /\ <<>> \in H
    /\ \A h \in H : \A n \in 0..Len(h) : Pre(h, n) \in H
    /\ \A h \in H : \A m, n \in 1..Len(h) :
          1 <= h[m].term /\ (m <= n => h[m].term <= h[n].term)
    /\ \A g, h \in H : LastTerm(g) = LastTerm(h) => Below(g, h) \/ Below(h, g)

\* What a node held in its term it still holds, unless it is doomed.
AckInv(F, T, H, A) ==
    /\ A \subseteq Server \X H
    /\ \A q \in Server, p \in H : <<q, p>> \in A =>
          /\ p # <<>> /\ LastTerm(p) <= T[q]
          /\ LastTerm(p) = T[q] => Below(p, F[q])
          /\ Below(p, F[q]) \/ Doomed(T, A, p)

\* A log of a later term has every log that is not doomed.
OrderInv(T, H, A) ==
    \A h, p \in H : LastTerm(h) > LastTerm(p) => Below(p, h) \/ Doomed(T, A, p)

\* Nobody has an entry of a term a majority has not reached.
Backed(T, H) ==
    \A h \in H : h # <<>> =>
       \E Q \in SUBSET Server : Majority(Q) /\ \A q \in Q : T[q] >= LastTerm(h)

\* The replicated logs: what the lemmas of this layer assume and preserve.
LogsInv(F, T, H, A) ==
    /\ F \in [Server -> H] /\ T \in [Server -> Nat]
    /\ HistoryInv(H) /\ AckInv(F, T, H, A) /\ OrderInv(T, H, A)

-----------------------------------------------------------------------------
(* Consequences *)

\* The term of a log's end is a number, and zero only for the empty log.
LEMMA TermFacts ==
    ASSUME NEW H, HistoryInv(H), NEW h \in H
    PROVE  /\ h \in Seq(Entry) /\ Len(h) \in Nat /\ LastTerm(h) \in Nat
           /\ LastTerm(h) = 0 <=> h = <<>>
           /\ \A n \in 1..Len(h) : /\ h[n].term \in Nat /\ h[n].term >= 1
                                   /\ h[n].term <= LastTerm(h)
                                   /\ h[n] \in Entry
<1>1. h \in Seq(Entry)
  BY DEF HistoryInv
<1>2. Len(h) \in Nat /\ (h = <<>> <=> Len(h) = 0)
  BY <1>1, EmptySeq
<1>3. \A n \in 1..Len(h) : h[n] \in Entry /\ h[n].term \in Nat
  <2>1. \A n \in 1..Len(h) : h[n] \in Entry
    BY <1>1, ElementOfSeq
  <2> QED BY <2>1 DEF Entry
<1>4. \A n \in 1..Len(h) : h[n].term >= 1
  BY <1>3 DEF HistoryInv
<1>5. \A n \in 1..Len(h) : h[n].term <= h[Len(h)].term
  BY <1>2 DEF HistoryInv
<1>6. LastTerm(h) = 0 <=> h = <<>>
  BY <1>2, <1>3, <1>4 DEF LastTerm
<1>7. LastTerm(h) \in Nat
  BY <1>2, <1>3 DEF LastTerm
<1>8. \A n \in 1..Len(h) : h[n].term <= LastTerm(h)
  BY <1>2, <1>5 DEF LastTerm
<1> QED BY <1>1, <1>2, <1>3, <1>4, <1>6, <1>7, <1>8

\* Two logs with the same term at an index are the same up to there.
LEMMA Matching ==
    ASSUME NEW H, HistoryInv(H), NEW g \in H, NEW h \in H,
           NEW n \in 1..Len(g), n <= Len(h), g[n].term = h[n].term
    PROVE  Pre(g, n) = Pre(h, n) /\ Below(Pre(g, n), h)
<1>1. g \in Seq(Entry) /\ h \in Seq(Entry) /\ Len(g) \in Nat /\ Len(h) \in Nat
  BY TermFacts
<1>2. n \in 0..Len(g) /\ n \in 0..Len(h) /\ n >= 1
  BY <1>1
<1>3. Pre(g, n) \in H /\ Pre(h, n) \in H
  BY <1>2 DEF HistoryInv
<1>4. /\ LastTerm(Pre(g, n)) = g[n].term /\ LastTerm(Pre(h, n)) = h[n].term
      /\ Len(Pre(g, n)) = n /\ Len(Pre(h, n)) = n
      /\ Pre(g, n) \in Seq(Entry) /\ Pre(h, n) \in Seq(Entry)
      /\ Below(Pre(h, n), h)
  BY <1>1, <1>2, PreFacts
<1>5. Below(Pre(g, n), Pre(h, n)) \/ Below(Pre(h, n), Pre(g, n))
  BY <1>3, <1>4 DEF HistoryInv
<1>6. Pre(g, n) = Pre(h, n)
  BY <1>2, <1>4, <1>5, BelowFacts
<1> QED BY <1>4, <1>6

\* A chosen log is not doomed: the two majorities meet.
LEMMA ChosenNotDoomed ==
    ASSUME NEW T, NEW A, NEW p, Chosen(A, p)
    PROVE  ~Doomed(T, A, p)
<1>1. SUFFICES ASSUME Doomed(T, A, p) PROVE FALSE
  OBVIOUS
<1>2. PICK Q \in SUBSET Server : Majority(Q) /\ \A q \in Q : <<q, p>> \in A
  BY DEF Chosen
<1>3. PICK R \in SUBSET Server : Majority(R) /\ \A q \in R : <<q, p>> \notin A
  BY <1>1 DEF Doomed
<1>4. \E q \in Q : q \in R
  BY <1>2, <1>3, MajoritiesMeet
<1> QED BY <1>2, <1>3, <1>4

\* A log of the same or a later term than a chosen one is comparable to it,
\* and above it when the term is later.
LEMMA ChosenStays ==
    ASSUME NEW T, NEW H, NEW A, HistoryInv(H), OrderInv(T, H, A),
           NEW p \in H, Chosen(A, p), NEW h \in H, LastTerm(p) <= LastTerm(h)
    PROVE  Below(p, h) \/ (LastTerm(p) = LastTerm(h) /\ Below(h, p))
<1>1. LastTerm(p) \in Nat /\ LastTerm(h) \in Nat
  BY TermFacts
<1>2. CASE LastTerm(p) = LastTerm(h)
  BY <1>2 DEF HistoryInv
<1>3. CASE LastTerm(p) < LastTerm(h)
  BY <1>1, <1>3, ChosenNotDoomed DEF OrderInv
<1> QED BY <1>1, <1>2, <1>3

\* Settled logs are prefixes of one another.
LEMMA SettledAgree ==
    ASSUME NEW T, NEW H, NEW A, HistoryInv(H), OrderInv(T, H, A),
           NEW f \in H, NEW g \in H, NEW t, NEW u,
           Settled(H, A, f, t), Settled(H, A, g, u)
    PROVE  Below(f, g) \/ Below(g, f)
<1>1. f \in Seq(Entry) /\ g \in Seq(Entry)
  BY TermFacts
<1>2. CASE f = <<>> \/ g = <<>>
  BY <1>1, <1>2, BelowFacts
<1>3. CASE f # <<>> /\ g # <<>>
  <2>1. PICK p \in H : Chosen(A, p) /\ Below(f, p)
    BY <1>3 DEF Settled
  <2>2. PICK q \in H : Chosen(A, q) /\ Below(g, q)
    BY <1>3 DEF Settled
  <2>3. /\ LastTerm(p) \in Nat /\ LastTerm(q) \in Nat
        /\ p \in Seq(Entry) /\ q \in Seq(Entry)
    BY TermFacts
  <2>4. Below(p, q) \/ Below(q, p)
    <3>1. CASE LastTerm(p) <= LastTerm(q)
      BY <2>1, <3>1, ChosenStays
    <3>2. CASE LastTerm(q) <= LastTerm(p)
      BY <2>2, <3>2, ChosenStays
    <3> QED BY <2>3, <3>1, <3>2
  <2>5. CASE Below(p, q)
    <3>1. Below(f, q)
      BY <1>1, <2>1, <2>3, <2>5, BelowFacts
    <3> QED BY <1>1, <2>2, <2>3, <3>1, BelowFacts
  <2>6. CASE Below(q, p)
    <3>1. Below(g, p)
      BY <1>1, <2>2, <2>3, <2>6, BelowFacts
    <3> QED BY <1>1, <2>1, <2>3, <3>1, BelowFacts
  <2> QED BY <2>4, <2>5, <2>6
<1> QED BY <1>2, <1>3

\* More history and more acknowledgements settle and confirm no less.
LEMMA Monotone ==
    ASSUME NEW H, NEW A, NEW H2, NEW A2, H \subseteq H2, A \subseteq A2
    PROVE  /\ \A p : Chosen(A, p) => Chosen(A2, p)
           /\ \A g : \A t, u \in Nat : HistoryInv(H) /\ Settled(H, A, g, t) /\ t <= u
                                       => Settled(H2, A2, g, u)
           /\ \A q, h, t : Acked(A, q, h, t) => Acked(A2, q, h, t)
           /\ \A q, t, k : Confirmed(H, A, q, t, k) => Confirmed(H2, A2, q, t, k)
<1>1. \A p : Chosen(A, p) => Chosen(A2, p)
  BY DEF Chosen
<1>2. \A q, h, t : Acked(A, q, h, t) => Acked(A2, q, h, t)
  BY DEF Acked
<1>3. \A q, t, k : Confirmed(H, A, q, t, k) => Confirmed(H2, A2, q, t, k)
  BY <1>2 DEF Confirmed
<1>4. ASSUME NEW g, NEW t \in Nat, NEW u \in Nat, HistoryInv(H),
             Settled(H, A, g, t), t <= u
      PROVE  Settled(H2, A2, g, u)
  <2>1. CASE g = <<>>
    BY <2>1 DEF Settled
  <2>2. CASE g # <<>>
    <3>1. PICK p \in H : Chosen(A, p) /\ LastTerm(p) <= t /\ Below(g, p)
      BY <1>4, <2>2 DEF Settled
    <3>2. LastTerm(p) <= u
      <4>1. LastTerm(p) \in Nat
        BY <1>4, TermFacts
      <4> QED BY <1>4, <3>1, <4>1
    <3> QED BY <1>1, <3>1, <3>2 DEF Settled
  <2> QED BY <2>1, <2>2
<1> QED BY <1>1, <1>2, <1>3, <1>4

\* A prefix of a settled log is settled.
LEMMA SettledPrefix ==
    ASSUME NEW H, NEW A, HistoryInv(H), NEW g \in H, NEW t,
           Settled(H, A, g, t), NEW f \in Seq(Entry), Below(f, g)
    PROVE  Settled(H, A, f, t)
<1>1. g \in Seq(Entry)
  BY TermFacts
<1>2. CASE g = <<>>
  <2>1. f = <<>>
    BY <1>1, <1>2, BelowFacts
  <2> QED BY <2>1 DEF Settled
<1>3. CASE g # <<>>
  <2>1. PICK p \in H : Chosen(A, p) /\ LastTerm(p) <= t /\ Below(g, p)
    BY <1>3 DEF Settled
  <2>2. p \in Seq(Entry)
    BY TermFacts
  <2>3. Below(f, p)
    BY <1>1, <2>1, <2>2, BelowFacts
  <2> QED BY <2>1, <2>3 DEF Settled
<1> QED BY <1>2, <1>3

-----------------------------------------------------------------------------
(* A node follows a leader *)

\* A node with log f takes over l, a log of the leader of its new term t, and
\* ends with g: its own log did not have all of l, and it keeps what it had of
\* it.
Adopted(H, f, g, l, t) ==
    /\ l \in H /\ LastTerm(l) = t /\ ~Below(l, f)
    /\ g \in H /\ Below(g, l)
    /\ \A p \in H : Below(p, l) /\ Below(p, f) => Below(p, g)

\* A step in which at most q changes its log, by following a leader, and holds
\* the logs K in its new term.
Moves(F, T, H, F2, T2, q, K) ==
    /\ F2 \in [Server -> H] /\ T2 \in [Server -> Nat]
    /\ \A j \in Server : T[j] <= T2[j]
    /\ \A j \in Server \ {q} : F2[j] = F[j]
    /\ F2[q] = F[q] \/ \E l \in H : Adopted(H, F[q], F2[q], l, T2[q])
    /\ K \subseteq {q} \X H
    /\ \A p \in H : <<q, p>> \in K =>
          p # <<>> /\ LastTerm(p) = T2[q] /\ Below(p, F2[q])

\* A log that is doomed stays doomed: who has moved to a later term never
\* holds it in its term again.
LEMMA DoomedStays ==
    ASSUME NEW F, NEW T, NEW H, NEW A, NEW F2, NEW T2, NEW q \in Server, NEW K,
           LogsInv(F, T, H, A), Moves(F, T, H, F2, T2, q, K),
           NEW p \in H, Doomed(T, A, p)
    PROVE  Doomed(T2, A \cup K, p)
<1>1. PICK Q \in SUBSET Server :
         Majority(Q) /\ \A r \in Q : T[r] > LastTerm(p) /\ <<r, p>> \notin A
  BY DEF Doomed
<1>2. ASSUME NEW r \in Q
      PROVE  T2[r] > LastTerm(p) /\ <<r, p>> \notin A \cup K
  <2>1. /\ T[r] \in Nat /\ T2[r] \in Nat /\ T[r] <= T2[r] /\ LastTerm(p) \in Nat
        /\ T[r] > LastTerm(p) /\ <<r, p>> \notin A
    BY <1>1, TermFacts DEF LogsInv, Moves
  <2>2. T2[r] > LastTerm(p)
    BY <2>1
  <2>3. <<r, p>> \notin K
    <3>1. SUFFICES ASSUME <<r, p>> \in K PROVE FALSE
      OBVIOUS
    <3>2. r = q
      BY <3>1 DEF Moves
    <3>3. LastTerm(p) = T2[q]
      BY <3>1, <3>2 DEF Moves
    <3> QED BY <2>1, <2>2, <3>2, <3>3
  <2> QED BY <2>1, <2>2, <2>3
<1> QED BY <1>1, <1>2 DEF Doomed

\* What q held, and is not doomed, is below what it holds now.
LEMMA HeldStays ==
    ASSUME NEW F, NEW T, NEW H, NEW A, NEW F2, NEW T2, NEW q \in Server, NEW K,
           LogsInv(F, T, H, A), Moves(F, T, H, F2, T2, q, K),
           NEW p \in H, Below(p, F[q]), LastTerm(p) <= T2[q],
           ~Doomed(T, A, p)
    PROVE  Below(p, F2[q])
<1>1. CASE F2[q] = F[q]
  BY <1>1
<1>2. CASE F2[q] # F[q]
  <2>1. PICK l \in H : Adopted(H, F[q], F2[q], l, T2[q])
    BY <1>2 DEF Moves
  <2>2. /\ F[q] \in H /\ F[q] \in Seq(Entry) /\ l \in Seq(Entry)
        /\ p \in Seq(Entry) /\ LastTerm(p) \in Nat /\ T2[q] \in Nat
        /\ LastTerm(l) = T2[q] /\ HistoryInv(H)
    BY <2>1, TermFacts DEF LogsInv, Moves, Adopted
  <2>3. Below(p, l)
    <3>1. CASE LastTerm(p) = LastTerm(l)
      <4>1. Below(p, l) \/ Below(l, p)
        BY <2>2, <3>1 DEF HistoryInv
      <4>2. ~Below(l, p)
        BY <2>1, <2>2, BelowFacts DEF Adopted
      <4> QED BY <4>1, <4>2
    <3>2. CASE LastTerm(l) > LastTerm(p)
      BY <3>2 DEF LogsInv, OrderInv
    <3> QED BY <2>2, <3>1, <3>2
  <2> QED BY <2>1, <2>3 DEF Adopted
<1> QED BY <1>1, <1>2

\* Following a leader preserves the invariant.
LEMMA FollowKeeps ==
    ASSUME NEW F, NEW T, NEW H, NEW A, NEW F2, NEW T2, NEW q \in Server, NEW K,
           LogsInv(F, T, H, A), Moves(F, T, H, F2, T2, q, K)
    PROVE  LogsInv(F2, T2, H, A \cup K)
<1> DEFINE A2 == A \cup K
<1>1. \A p \in H : Doomed(T, A, p) => Doomed(T2, A2, p)
  BY DoomedStays
<1>2. OrderInv(T2, H, A2)
  BY <1>1 DEF LogsInv, OrderInv
<1>3. A2 \subseteq Server \X H
  BY DEF LogsInv, AckInv, Moves
<1>4. ASSUME NEW r \in Server, NEW p \in H, <<r, p>> \in A2
      PROVE  /\ p # <<>> /\ LastTerm(p) <= T2[r]
             /\ LastTerm(p) = T2[r] => Below(p, F2[r])
             /\ Below(p, F2[r]) \/ Doomed(T2, A2, p)
  <2>1. /\ T[r] \in Nat /\ T2[r] \in Nat /\ T[r] <= T2[r] /\ LastTerm(p) \in Nat
    BY TermFacts DEF LogsInv, Moves
  <2>2. CASE <<r, p>> \in K
    <3>1. r = q
      BY <2>2 DEF Moves
    <3>2. p # <<>> /\ LastTerm(p) = T2[q] /\ Below(p, F2[q])
      BY <2>2, <3>1 DEF Moves
    <3> QED BY <2>1, <3>1, <3>2
  <2>3. CASE <<r, p>> \in A
    <3>1. /\ p # <<>> /\ LastTerm(p) <= T[r]
          /\ LastTerm(p) = T[r] => Below(p, F[r])
          /\ Below(p, F[r]) \/ Doomed(T, A, p)
      BY <2>3 DEF LogsInv, AckInv
    <3>2. LastTerm(p) <= T2[r]
      BY <2>1, <3>1
    <3>3. Below(p, F2[r]) \/ Doomed(T2, A2, p)
      <4>1. CASE Doomed(T, A, p)
        BY <1>1, <4>1
      <4>2. CASE ~Doomed(T, A, p) /\ r = q
        BY <3>1, <3>2, <4>2, HeldStays
      <4>3. CASE ~Doomed(T, A, p) /\ r # q
        BY <3>1, <4>3 DEF Moves
      <4> QED BY <4>1, <4>2, <4>3
    <3>4. LastTerm(p) = T2[r] => Below(p, F2[r])
      <4>1. SUFFICES ASSUME LastTerm(p) = T2[r] PROVE Below(p, F2[r])
        OBVIOUS
      <4>2. Below(p, F[r])
        BY <2>1, <3>1, <4>1
      <4>3. CASE r # q \/ F2[q] = F[q]
        BY <4>2, <4>3 DEF Moves
      <4>4. CASE r = q /\ F2[q] # F[q]
        <5>1. PICK l \in H : Adopted(H, F[q], F2[q], l, T2[q])
          BY <4>4 DEF Moves
        <5>2. /\ F[q] \in Seq(Entry) /\ l \in Seq(Entry) /\ p \in Seq(Entry)
              /\ LastTerm(l) = LastTerm(p) /\ HistoryInv(H)
          BY <4>1, <4>4, <5>1, TermFacts DEF LogsInv, Moves, Adopted
        <5>3. Below(p, l) \/ Below(l, p)
          BY <5>2 DEF HistoryInv
        <5>4. ~Below(l, p)
          BY <4>2, <4>4, <5>1, <5>2, BelowFacts DEF Adopted
        <5> QED BY <4>2, <4>4, <5>1, <5>3, <5>4 DEF Adopted
      <4> QED BY <4>3, <4>4
    <3> QED BY <3>1, <3>2, <3>3, <3>4
  <2> QED BY <1>4, <2>2, <2>3
<1>5. AckInv(F2, T2, H, A2)
  BY <1>3, <1>4 DEF AckInv
<1> QED BY <1>2, <1>5 DEF LogsInv, Moves

\* A settled prefix of a log stays where it is when the node follows a leader.
LEMMA SettledKept ==
    ASSUME NEW F, NEW T, NEW H, NEW A, NEW F2, NEW T2, NEW q \in Server, NEW K,
           LogsInv(F, T, H, A), Moves(F, T, H, F2, T2, q, K),
           NEW j \in Server, NEW c \in 0..Len(F[j]),
           Settled(H, A, Pre(F[j], c), T[j])
    PROVE  c <= Len(F2[j]) /\ Pre(F2[j], c) = Pre(F[j], c)
<1> DEFINE g == Pre(F[j], c)
<1>1. /\ HistoryInv(H) /\ OrderInv(T, H, A)
      /\ F[j] \in H /\ F2[j] \in H /\ T[j] \in Nat /\ T2[j] \in Nat
      /\ T[j] <= T2[j]
  BY DEF LogsInv, Moves
<1>2. /\ F[j] \in Seq(Entry) /\ F2[j] \in Seq(Entry) /\ Len(F[j]) \in Nat
      /\ Len(F2[j]) \in Nat
  BY <1>1, TermFacts
<1>3. g \in H /\ g \in Seq(Entry) /\ Len(g) = c /\ Below(g, F[j])
  <2>1. g \in H
    BY <1>1 DEF HistoryInv
  <2> QED BY <1>2, <2>1, PreFacts
<1>4. Below(g, F2[j])
  <2>1. CASE F2[j] = F[j]
    BY <1>3, <2>1
  <2>2. CASE g = <<>>
    BY <1>2, <2>2, BelowFacts
  <2>3. CASE F2[j] # F[j] /\ g # <<>>
    <3>1. j = q
      BY <2>3 DEF Moves
    <3>2. PICK l \in H : Adopted(H, F[j], F2[j], l, T2[j])
      BY <2>3, <3>1 DEF Moves
    <3>3. PICK p \in H : Chosen(A, p) /\ LastTerm(p) <= T[j] /\ Below(g, p)
      BY <2>3 DEF Settled
    <3>4. /\ l \in Seq(Entry) /\ p \in Seq(Entry) /\ LastTerm(p) \in Nat
          /\ LastTerm(l) = T2[j]
      BY <1>1, <3>2, TermFacts DEF Adopted
    <3>5. Below(p, l) \/ Below(l, p)
      <4>1. LastTerm(p) <= LastTerm(l)
        BY <1>1, <3>3, <3>4
      <4> QED BY <1>1, <3>3, <4>1, ChosenStays
    <3>6. Below(g, l)
      <4>1. CASE Below(p, l)
        BY <1>3, <3>3, <3>4, <4>1, BelowFacts
      <4>2. CASE Below(l, p)
        <5>1. Below(g, l) \/ Below(l, g)
          BY <1>3, <3>3, <3>4, <4>2, BelowFacts
        <5>2. ~Below(l, g)
          BY <1>2, <1>3, <3>2, <3>4, BelowFacts DEF Adopted
        <5> QED BY <5>1, <5>2
      <4> QED BY <3>5, <4>1, <4>2
    <3> QED BY <1>3, <3>2, <3>6 DEF Adopted
  <2> QED BY <2>1, <2>2, <2>3
<1>5. g = Pre(F2[j], c) /\ c <= Len(F2[j])
  <2> HIDE DEF g
  <2>1. g = Pre(F2[j], Len(g)) /\ Len(g) \in 0..Len(F2[j])
    BY <1>2, <1>3, <1>4, BelowFacts
  <2> QED BY <1>2, <1>3, <2>1
<1> QED BY <1>5

-----------------------------------------------------------------------------
(* A leader appends *)

\* The log h is f with one more entry, of term t.
OneMore(f, h, t) ==
    /\ h \in Seq(Entry) /\ h # <<>> /\ Len(h) = Len(f) + 1
    /\ LastTerm(h) = t /\ h[Len(h)].term = t /\ Below(f, h)
    /\ \A n \in 1..Len(f) : h[n] = f[n]
    /\ \A n \in 0..Len(f) : Pre(h, n) = Pre(f, n)
    /\ Pre(h, Len(h)) = h

\* Appending an entry adds one more.
LEMMA Appended ==
    ASSUME NEW f \in Seq(Entry), NEW e \in Entry
    PROVE  OneMore(f, Append(f, e), e.term)
BY AppendFacts DEF OneMore

\* Leader i, in term t, has every log of its term and every log of an earlier
\* term that is not doomed; h is its log with one more entry.
Leads(F, T, H, A, i, t) ==
    /\ t \in Nat /\ t >= 1 /\ T[i] = t /\ LastTerm(F[i]) <= t
    /\ \A g \in H : LastTerm(g) = t => Below(g, F[i])
    /\ \A p \in H : LastTerm(p) < t => Below(p, F[i]) \/ Doomed(T, A, p)

\* The new log is in nobody's past.
LEMMA FreshLog ==
    ASSUME NEW F, NEW T, NEW H, NEW A, NEW i \in Server, NEW t,
           LogsInv(F, T, H, A), Leads(F, T, H, A, i, t),
           NEW h, OneMore(F[i], h, t)
    PROVE  /\ F[i] \in H /\ F[i] \in Seq(Entry) /\ h \in Seq(Entry)
           /\ h \notin H /\ LastTerm(h) = t /\ Below(F[i], h) /\ h # <<>>
           /\ Len(h) = Len(F[i]) + 1 /\ Len(F[i]) \in Nat
           /\ \A q \in Server : <<q, h>> \notin A
<1>1. F[i] \in H /\ F[i] \in Seq(Entry) /\ Len(F[i]) \in Nat
  <2>1. F[i] \in H /\ HistoryInv(H)
    BY DEF LogsInv
  <2> QED BY <2>1, TermFacts
<1>2. /\ h \in Seq(Entry) /\ LastTerm(h) = t /\ Below(F[i], h) /\ h # <<>>
      /\ Len(h) = Len(F[i]) + 1
  BY DEF OneMore
<1>3. h \notin H
  <2>1. SUFFICES ASSUME h \in H PROVE FALSE
    OBVIOUS
  <2>2. Below(h, F[i])
    BY <1>2, <2>1 DEF Leads
  <2> QED BY <1>1, <1>2, <2>2 DEF Below
<1>4. \A q \in Server : <<q, h>> \notin A
  BY <1>3 DEF LogsInv, AckInv
<1> QED BY <1>1, <1>2, <1>3, <1>4

\* The history with the new log is one.
LEMMA ExtendHistory ==
    ASSUME NEW F, NEW T, NEW H, NEW A, NEW i \in Server, NEW t,
           LogsInv(F, T, H, A), Leads(F, T, H, A, i, t),
           NEW h, OneMore(F[i], h, t)
    PROVE  HistoryInv(H \cup {h})
<1> DEFINE H2 == H \cup {h}
<1>0. /\ F[i] \in H /\ F[i] \in Seq(Entry) /\ h \in Seq(Entry)
      /\ LastTerm(h) = t /\ Below(F[i], h)
      /\ Len(h) = Len(F[i]) + 1 /\ Len(F[i]) \in Nat
      /\ HistoryInv(H) /\ t \in Nat /\ t >= 1 /\ LastTerm(F[i]) <= t
  BY FreshLog DEF LogsInv, Leads
<1>1. H2 \subseteq Seq(Entry) /\ <<>> \in H2
  BY <1>0 DEF HistoryInv
<1>2. \A g \in H2 : \A n \in 0..Len(g) : Pre(g, n) \in H2
  <2>1. ASSUME NEW n \in 0..Len(h) PROVE Pre(h, n) \in H2
    <3>1. CASE n = Len(F[i]) + 1
      BY <1>0, <3>1 DEF OneMore
    <3>2. CASE n \in 0..Len(F[i])
      <4>1. Pre(h, n) = Pre(F[i], n)
        BY <1>0, <3>2 DEF OneMore
      <4>2. Pre(F[i], n) \in H
        BY <1>0, <3>2 DEF HistoryInv
      <4> QED BY <4>1, <4>2
    <3> QED BY <1>0, <3>1, <3>2
  <2>2. \A g \in H : \A n \in 0..Len(g) : Pre(g, n) \in H2
    BY <1>0 DEF HistoryInv
  <2> QED BY <2>1, <2>2
<1>3. \A g \in H2 : \A m, n \in 1..Len(g) :
         1 <= g[m].term /\ (m <= n => g[m].term <= g[n].term)
  <2>1. ASSUME NEW m \in 1..Len(h), NEW n \in 1..Len(h)
        PROVE  1 <= h[m].term /\ (m <= n => h[m].term <= h[n].term)
    <3>1. ASSUME NEW k \in 1..Len(F[i])
          PROVE  /\ h[k] = F[i][k] /\ F[i][k].term \in Nat
                 /\ F[i][k].term >= 1 /\ F[i][k].term <= t
      <4>1. h[k] = F[i][k]
        BY <1>0 DEF OneMore
      <4>2. /\ F[i][k].term \in Nat /\ F[i][k].term >= 1
            /\ F[i][k].term <= LastTerm(F[i]) /\ LastTerm(F[i]) \in Nat
        BY <1>0, TermFacts
      <4> QED BY <1>0, <4>1, <4>2
    <3>2. h[Len(F[i]) + 1].term = t
      BY <1>0 DEF OneMore
    <3>3. CASE m = Len(F[i]) + 1
      <4>1. m <= n => n = m
        BY <1>0, <3>3
      <4> QED BY <1>0, <3>2, <3>3, <4>1
    <3>4. CASE m \in 1..Len(F[i])
      <4>1. CASE n = Len(F[i]) + 1
        BY <1>0, <3>1, <3>2, <3>4, <4>1
      <4>2. CASE n \in 1..Len(F[i])
        <5>1. 1 <= F[i][m].term /\ (m <= n => F[i][m].term <= F[i][n].term)
          BY <1>0, <3>4, <4>2 DEF HistoryInv
        <5> QED BY <3>1, <3>4, <4>2, <5>1
      <4> QED BY <1>0, <4>1, <4>2
    <3> QED BY <1>0, <3>3, <3>4
  <2>2. \A g \in H : \A m, n \in 1..Len(g) :
           1 <= g[m].term /\ (m <= n => g[m].term <= g[n].term)
    BY <1>0 DEF HistoryInv
  <2> QED BY <2>1, <2>2
<1>4. \A f, g \in H2 : LastTerm(f) = LastTerm(g) => Below(f, g) \/ Below(g, f)
  <2>1. ASSUME NEW g \in H, LastTerm(g) = t PROVE Below(g, h)
    <3>1. Below(g, F[i]) /\ g \in Seq(Entry)
      BY <1>0, <2>1, TermFacts DEF Leads
    <3> QED BY <1>0, <3>1, BelowFacts
  <2>2. Below(h, h)
    BY <1>0, BelowFacts
  <2>3. \A f, g \in H : LastTerm(f) = LastTerm(g) => Below(f, g) \/ Below(g, f)
    BY <1>0 DEF HistoryInv
  <2> QED BY <1>0, <2>1, <2>2, <2>3
<1> QED BY <1>1, <1>2, <1>3, <1>4 DEF HistoryInv

\* A leader that appends preserves the invariant.
LEMMA ExtendKeeps ==
    ASSUME NEW F, NEW T, NEW H, NEW A, NEW i \in Server, NEW t,
           LogsInv(F, T, H, A), Leads(F, T, H, A, i, t), Backed(T, H),
           NEW h, OneMore(F[i], h, t)
    PROVE  /\ LogsInv([F EXCEPT ![i] = h], T, H \cup {h}, A \cup {<<i, h>>})
           /\ \A p \in H : Doomed(T, A, p) => Doomed(T, A \cup {<<i, h>>}, p)
<1> DEFINE H2 == H \cup {h}
           A2 == A \cup {<<i, h>>}
           F2 == [F EXCEPT ![i] = h]
<1>0. /\ F[i] \in H /\ F[i] \in Seq(Entry) /\ h \in Seq(Entry) /\ h # <<>>
      /\ LastTerm(h) = t /\ Below(F[i], h) /\ h \notin H
      /\ HistoryInv(H) /\ t \in Nat /\ T[i] = t
      /\ F \in [Server -> H] /\ T \in [Server -> Nat]
      /\ \A q \in Server : <<q, h>> \notin A
  <2>1. /\ F[i] \in H /\ F[i] \in Seq(Entry) /\ h \in Seq(Entry) /\ h # <<>>
        /\ LastTerm(h) = t /\ Below(F[i], h) /\ h \notin H
        /\ \A q \in Server : <<q, h>> \notin A
    BY FreshLog
  <2>2. HistoryInv(H) /\ F \in [Server -> H] /\ T \in [Server -> Nat]
    BY Zenon DEF LogsInv
  <2>3. t \in Nat /\ T[i] = t
    BY Zenon DEF Leads
  <2> QED BY <2>1, <2>2, <2>3, Zenon
<1>1. HistoryInv(H2)
  BY ExtendHistory
<1>2. F2 \in [Server -> H2] /\ F2[i] = h /\ \A j \in Server \ {i} : F2[j] = F[j]
  BY <1>0
<1> HIDE DEF F2
<1>3. ASSUME NEW p \in H, Doomed(T, A, p) PROVE Doomed(T, A2, p)
  BY <1>0, <1>3 DEF Doomed
<1>4. ASSUME NEW q \in Server, NEW p \in H2, <<q, p>> \in A2
      PROVE  /\ p # <<>> /\ LastTerm(p) <= T[q]
             /\ LastTerm(p) = T[q] => Below(p, F2[q])
             /\ Below(p, F2[q]) \/ Doomed(T, A2, p)
  <2>1. CASE <<q, p>> \in A
    <3>1. p \in H
      BY <2>1 DEF LogsInv, AckInv
    <3>2. /\ p # <<>> /\ LastTerm(p) <= T[q]
          /\ LastTerm(p) = T[q] => Below(p, F[q])
          /\ Below(p, F[q]) \/ Doomed(T, A, p)
      BY <2>1, <3>1 DEF LogsInv, AckInv
    <3>3. Below(p, F[q]) => Below(p, F2[q])
      <4>1. p \in Seq(Entry)
        BY <1>0, <3>1, TermFacts
      <4>2. CASE q = i
        BY <1>0, <1>2, <4>1, <4>2, BelowFacts
      <4>3. CASE q # i
        BY <1>2, <4>3
      <4> QED BY <4>2, <4>3
    <3> QED BY <1>3, <3>1, <3>2, <3>3
  <2>2. CASE q = i /\ p = h
    <3>1. Below(h, h)
      BY <1>0, BelowFacts
    <3> QED BY <1>0, <1>2, <2>2, <3>1
  <2> QED BY <1>4, <2>1, <2>2
<1>5. AckInv(F2, T, H2, A2)
  <2>1. A2 \subseteq Server \X H2
    BY DEF LogsInv, AckInv
  <2> QED BY <1>4, <2>1 DEF AckInv
<1>6. ASSUME NEW g \in H, LastTerm(g) > t PROVE Doomed(T, A2, h)
  <2>1. g # <<>>
    BY <1>0, <1>6 DEF LastTerm
  <2>2. PICK Q \in SUBSET Server : Majority(Q) /\ \A q \in Q : T[q] >= LastTerm(g)
    BY <2>1 DEF Backed
  <2>3. ASSUME NEW q \in Q PROVE T[q] > LastTerm(h) /\ <<q, h>> \notin A2
    <3>1. T[q] > t
      <4>1. LastTerm(g) \in Nat /\ T[q] \in Nat
        BY <1>0, TermFacts
      <4> QED BY <1>0, <1>6, <2>2, <4>1
    <3>2. q # i
      BY <1>0, <3>1
    <3> QED BY <1>0, <3>1, <3>2
  <2> QED BY <2>2, <2>3 DEF Doomed
<1>7. OrderInv(T, H2, A2)
  <2>1. SUFFICES ASSUME NEW g \in H2, NEW p \in H2, LastTerm(g) > LastTerm(p)
                 PROVE  Below(p, g) \/ Doomed(T, A2, p)
    BY DEF OrderInv
  <2>2. CASE g \in H /\ p \in H
    BY <1>3, <2>1, <2>2 DEF LogsInv, OrderInv
  <2>3. CASE g = h /\ p \in H
    <3>1. LastTerm(p) < t /\ p \in Seq(Entry)
      BY <1>0, <2>1, <2>3, TermFacts
    <3>2. Below(p, F[i]) \/ Doomed(T, A, p)
      BY <2>3, <3>1 DEF Leads
    <3>3. Below(p, F[i]) => Below(p, h)
      BY <1>0, <3>1, BelowFacts
    <3> QED BY <1>3, <2>3, <3>2, <3>3
  <2>4. CASE g \in H /\ p = h
    BY <1>0, <1>6, <2>1, <2>4
  <2>5. CASE g = h /\ p = h
    BY <1>0, <2>1, <2>5
  <2> QED BY <2>1, <2>2, <2>3, <2>4, <2>5
<1>8. LogsInv(F2, T, H2, A2)
  BY <1>0, <1>1, <1>2, <1>5, <1>7 DEF LogsInv
<1> QED BY <1>3, <1>8 DEF F2

-----------------------------------------------------------------------------
(* The inductive invariant *)

Logs  == [i \in Server |-> FullLog(i)]
Terms == [i \in Server |-> hard[i].term]

\* Every term that occurs in a log was won.
Elected(H) == \A h \in H : h # <<>> => \E e \in elections : e.term = LastTerm(h)

\* A snapshot stands for the entries in it, and no disk has an entry of a term
\* it does not know.
NodeInv ==
    \A i \in Server :
       /\ LastTerm(FullLog(i)) <= hard[i].term
       /\ Len(snap[i].data) = snap[i].index
       /\ snap[i].term = LastTerm(snap[i].data)

Won(t, i) == [term |-> t, leader |-> i] \in elections

\* Candidates and leaders have their term, which is not the initial one, on
\* disk; a leader won its term, a candidate did not win it yet.
RoleInv ==
    /\ \A e \in elections : e.term <= hard[e.leader].term
    /\ \A v \in votes : v.term <= hard[v.candidate].term
    /\ \A i \in Server :
          /\ state[i] # Follower
                => hard[i].term = currentTerm[i] /\ currentTerm[i] >= 1
          /\ state[i] = Candidate => ~Won(currentTerm[i], i)
          /\ state[i] = Leader => Won(currentTerm[i], i)

\* A leader holds every entry of its term, and counts a peer only for what the
\* peer held, or for its own snapshot.
LeaderInv(H, A) ==
    \A i \in Server : state[i] = Leader =>
       /\ LastTerm(FullLog(i)) = currentTerm[i]
       /\ \A h \in H : LastTerm(h) = currentTerm[i] => Below(h, FullLog(i))
       /\ Acked(A, i, FullLog(i), currentTerm[i])
       /\ \A q \in Server \ {i} :
             \/ matchIndex[i][q] <= snap[i].index
             \/ Confirmed(H, A, q, currentTerm[i], matchIndex[i][q])

\* A candidate has what its voters held in earlier terms.
VoteSafe(H, A) ==
    \A v \in votes :
       state[v.candidate] = Candidate /\ currentTerm[v.candidate] = v.term =>
          \A p \in H : <<v.voter, p>> \in A /\ LastTerm(p) < v.term =>
             Below(p, FullLog(v.candidate)) \/ Doomed(Terms, A, p)

\* What a node may apply is settled, and its state machine is a part of it.
NodeCommit(H, A, i) ==
    /\ commitIndex[i] <= Len(FullLog(i))
    /\ Settled(H, A, Pre(FullLog(i), commitIndex[i]), hard[i].term)
    /\ sm[i] = Pre(FullLog(i), lastApplied[i])

\* A committed entry is in a log its leader counted.
CommitOk(H, A, c) ==
    \E p \in H : /\ Chosen(A, p) /\ LastTerm(p) = c.by
                 /\ c.index \in 1..Len(p) /\ p[c.index] = c.entry

CommitInv(H, A) ==
    /\ \A i \in Server : NodeCommit(H, A, i)
    /\ \A c \in committed : CommitOk(H, A, c)

RequestOk(m) ==
    /\ m.term <= hard[m.src].term
    /\ state[m.src] = Candidate /\ currentTerm[m.src] = m.term
          => /\ m.lastLogIndex = Len(FullLog(m.src))
             /\ m.lastLogTerm = LastTerm(FullLog(m.src))

\* The entries of m are the end of h, the log of the leader of m's term, and
\* the leader had committed what m says it had.
SliceOf(H, A, h, m) ==
    /\ h \in H /\ LastTerm(h) = m.term
    /\ Len(h) = m.prevLogIndex + Len(m.entries)
    /\ m.prevLogIndex >= 1 => h[m.prevLogIndex].term = m.prevLogTerm
    /\ \A k \in 1..Len(m.entries) : m.entries[k] = h[m.prevLogIndex + k]
    /\ Settled(H, A, Pre(h, MinU(m.leaderCommit, Len(h))), m.term)

\* A leader whose nextIndex ran past its log sends a request no follower finds
\* consistent.
AppendOk(H, A, m) ==
    \/ m.prevLogIndex >= 1 /\ m.prevLogTerm = 0
    \/ \E h \in H : SliceOf(H, A, h, m)

InstallOk(H, A, m) ==
    LET s == m.snapshot IN
    /\ Len(s.data) = s.index /\ s.term = LastTerm(s.data)
    /\ \E l \in H : LastTerm(l) = m.term /\ Below(s.data, l)
    /\ Settled(H, A, s.data, m.term)
    /\ Won(m.term, m.src)
    /\ state[m.src] = Leader /\ currentTerm[m.src] = m.term
          => s.index <= snap[m.src].index

InstallReplyOk(m) ==
    /\ Won(m.sentIn, m.dst)
    /\ state[m.dst] = Leader /\ currentTerm[m.dst] = m.sentIn
          => m.match <= snap[m.dst].index

MessageOk(H, A, m) ==
    /\ m.type = "RequestVote" => RequestOk(m)
    /\ m.type = "AppendEntries" => AppendOk(H, A, m)
    /\ m.type = "AppendEntriesReply" /\ m.success = TRUE
          => Confirmed(H, A, m.src, m.sentIn, m.match)
    /\ m.type = "InstallSnapshot" => InstallOk(H, A, m)
    /\ m.type = "InstallSnapshotReply" => InstallReplyOk(m)

MessageInv(H, A) == \A m \in msgs : MessageOk(H, A, m)

SafetyInv(H, A) ==
    /\ LogsInv(Logs, Terms, H, A) /\ Elected(H) /\ NodeInv /\ RoleInv
    /\ LeaderInv(H, A) /\ VoteSafe(H, A) /\ CommitInv(H, A) /\ MessageInv(H, A)

\* All that is proved of the reachable states: H and A are witnesses.
RaftInv == TypeInv /\ VoteInv /\ \E H, A : SafetyInv(H, A)

-----------------------------------------------------------------------------
(* Steps in which no leader appends *)

\* Terms, snapshots, votes and elections only grow; nobody wins an election;
\* who is not a follower afterwards keeps its log, and its role and term
\* unless it starts to stand for election.
SteadyRoles ==
    /\ elections' = elections /\ votes \subseteq votes'
    /\ \A j \in Server :
          /\ hard[j].term <= hard'[j].term
          /\ snap[j].index <= snap'[j].index
          /\ state'[j] # Follower =>
                /\ FullLog(j)' = FullLog(j)
                /\ \/ state'[j] = state[j] /\ currentTerm'[j] = currentTerm[j]
                   \/ /\ state'[j] = Candidate
                      /\ hard[j].term < currentTerm'[j]
                      /\ hard'[j].term = currentTerm'[j]

\* The votes cast in a step go to known terms and safe candidates.
NewVotesOk(H, A) ==
    \A v \in votes' \ votes :
       /\ v.term <= hard'[v.candidate].term
       /\ state'[v.candidate] = Candidate /\ currentTerm'[v.candidate] = v.term
          => \A p \in H : <<v.voter, p>> \in A /\ LastTerm(p) < v.term =>
                Below(p, FullLog(v.candidate)) \/ Doomed(Terms, A, p)

\* What leaders newly count rests on acknowledgements.
NewMatchesOk(H, A) ==
    \A i \in Server : state'[i] = Leader =>
       \A q \in Server \ {i} :
          \/ matchIndex'[i][q] = matchIndex[i][q]
          \/ matchIndex'[i][q] <= snap[i].index
          \/ Confirmed(H, A, q, currentTerm[i], matchIndex'[i][q])

\* The facts of the types these proofs use.
LEMMA Facts ==
    ASSUME TypeInv, VoteInv, NEW i \in Server
    PROVE  /\ currentTerm[i] \in Nat /\ hard[i].term \in Nat
           /\ hard[i].term <= currentTerm[i]
           /\ closed[i] \/ hard[i].term = currentTerm[i]
           /\ snap[i].index \in Nat /\ snap[i].term \in Nat
           /\ snap[i].data \in Seq(Entry) /\ log[i] \in Seq(Entry)
           /\ FullLog(i) \in Seq(Entry) /\ Len(FullLog(i)) \in Nat
           /\ commitIndex[i] \in Nat /\ lastApplied[i] \in Nat
           /\ snap[i].index <= lastApplied[i] /\ lastApplied[i] <= commitIndex[i]
           /\ state[i] \in {Follower, Candidate, Leader}
           /\ Logs[i] = FullLog(i) /\ Terms[i] = hard[i].term
           /\ \A q \in Server : matchIndex[i][q] \in Nat
<1>1. /\ currentTerm[i] \in Nat /\ hard[i].term \in Nat
      /\ commitIndex[i] \in Nat /\ lastApplied[i] \in Nat
      /\ snap[i].index <= lastApplied[i] /\ lastApplied[i] <= commitIndex[i]
      /\ \A q \in Server : matchIndex[i][q] \in Nat
  BY NodeTypes
<1>2. /\ snap[i].index \in Nat /\ snap[i].term \in Nat
      /\ snap[i].data \in Seq(Entry) /\ log[i] \in Seq(Entry)
  BY LogTypes DEF TypeInv
<1>3. FullLog(i) \in Seq(Entry) /\ Len(FullLog(i)) \in Nat
  <2>1. FullLog(i) \in Seq(Entry)
    BY <1>2, ConcatProperties DEF FullLog
  <2> QED BY <2>1, LenProperties
<1>4. state[i] \in {Follower, Candidate, Leader}
  BY DEF TypeInv, TypeOK
<1>5. /\ hard[i].term <= currentTerm[i]
      /\ closed[i] \/ hard[i].term = currentTerm[i]
  BY DEF VoteInv, HardInv
<1>6. Logs[i] = FullLog(i) /\ Terms[i] = hard[i].term
  BY DEF Logs, Terms
<1> QED BY <1>1, <1>2, <1>3, <1>4, <1>5, <1>6

\* The same of the state a step leads to.
LEMMA FactsAfter ==
    ASSUME TypeInv', VoteInv', NEW i \in Server
    PROVE  /\ currentTerm'[i] \in Nat /\ hard'[i].term \in Nat
           /\ hard'[i].term <= currentTerm'[i]
           /\ snap'[i].index \in Nat
           /\ snap'[i].data \in Seq(Entry) /\ log'[i] \in Seq(Entry)
           /\ FullLog(i)' \in Seq(Entry) /\ Len(FullLog(i)') \in Nat
           /\ commitIndex'[i] \in Nat /\ lastApplied'[i] \in Nat
           /\ snap'[i].index <= lastApplied'[i]
           /\ lastApplied'[i] <= commitIndex'[i]
           /\ state'[i] \in {Follower, Candidate, Leader}
           /\ Logs'[i] = FullLog(i)' /\ Terms'[i] = hard'[i].term
<1>1. /\ currentTerm'[i] \in Nat /\ hard'[i].term \in Nat
      /\ commitIndex'[i] \in Nat /\ lastApplied'[i] \in Nat
      /\ snap'[i].index <= lastApplied'[i] /\ lastApplied'[i] <= commitIndex'[i]
      /\ snap'[i].index \in Nat /\ snap'[i].data \in Seq(Entry)
      /\ log'[i] \in Seq(Entry)
      /\ state'[i] \in {Follower, Candidate, Leader}
  BY DEF TypeInv, TypeOK, IndexOrder, Snapshot
<1>2. FullLog(i)' \in Seq(Entry) /\ Len(FullLog(i)') \in Nat
  <2>1. FullLog(i)' \in Seq(Entry)
    BY <1>1, ConcatProperties DEF FullLog
  <2> QED BY <2>1, LenProperties
<1>3. hard'[i].term <= currentTerm'[i]
  BY DEF VoteInv, HardInv
<1>4. Logs'[i] = FullLog(i)' /\ Terms'[i] = hard'[i].term
  BY DEF Logs, Terms
<1> QED BY <1>1, <1>2, <1>3, <1>4

\* Roles and leaders in a steady step.
LEMMA SteadyLeaders ==
    ASSUME TypeInv, TypeInv', VoteInv, VoteInv', NEW H, NEW A, NEW A2,
           SafetyInv(H, A), A \subseteq A2, SteadyRoles, NewVotesOk(H, A),
           NewMatchesOk(H, A)
    PROVE  RoleInv' /\ LeaderInv(H, A2)'
<1>r. RoleInv /\ LeaderInv(H, A)
  BY DEF SafetyInv
<1>s. /\ elections' = elections /\ votes \subseteq votes'
      /\ \A j \in Server :
            /\ hard[j].term <= hard'[j].term
            /\ snap[j].index <= snap'[j].index
            /\ state'[j] # Follower =>
                  /\ FullLog(j)' = FullLog(j)
                  /\ \/ state'[j] = state[j] /\ currentTerm'[j] = currentTerm[j]
                     \/ /\ state'[j] = Candidate
                        /\ hard[j].term < currentTerm'[j]
                        /\ hard'[j].term = currentTerm'[j]
  BY DEF SteadyRoles
<1>t. /\ \A e \in elections : e.term \in Nat /\ e.leader \in Server
      /\ \A v \in votes : v.term \in Nat /\ v.candidate \in Server
      /\ \A j \in Server : hard[j].term \in Nat /\ hard'[j].term \in Nat
  <2>1. /\ elections \subseteq [term : Nat, leader : Server]
        /\ votes \subseteq [term : Nat, voter : Server, candidate : Server]
    BY DEF TypeInv, TypeOK
  <2> QED BY <2>1, Facts, FactsAfter
<1>1. \A e \in elections : e.term <= hard'[e.leader].term
  BY <1>r, <1>s, <1>t DEF RoleInv
<1>2. \A v \in votes' : v.term <= hard'[v.candidate].term
  <2>1. TAKE v \in votes'
  <2>2. CASE v \in votes
    BY <1>r, <1>s, <1>t, <2>2 DEF RoleInv
  <2>3. CASE v \notin votes
    BY <2>3 DEF NewVotesOk
  <2> QED BY <2>2, <2>3
<1>3. ASSUME NEW i \in Server
      PROVE  /\ state'[i] # Follower
                   => hard'[i].term = currentTerm'[i] /\ currentTerm'[i] >= 1
             /\ state'[i] = Candidate => ~Won(currentTerm'[i], i)
             /\ state'[i] = Leader => Won(currentTerm'[i], i)
  <2>1. /\ hard'[i].term <= currentTerm'[i] /\ hard[i].term <= hard'[i].term
        /\ hard[i].term \in Nat /\ hard'[i].term \in Nat
        /\ currentTerm'[i] \in Nat /\ currentTerm[i] \in Nat
    BY <1>s, Facts, FactsAfter
  <2>2. CASE state'[i] = Follower
    BY <2>2 DEF Follower, Candidate, Leader
  <2>3. CASE state'[i] = state[i] /\ currentTerm'[i] = currentTerm[i]
    <3>1. /\ state[i] # Follower
                => hard[i].term = currentTerm[i] /\ currentTerm[i] >= 1
          /\ state[i] = Candidate => ~Won(currentTerm[i], i)
          /\ state[i] = Leader => Won(currentTerm[i], i)
      BY <1>r DEF RoleInv
    <3> QED BY <2>1, <2>3, <3>1
  <2>4. CASE /\ state'[i] = Candidate
             /\ hard[i].term < currentTerm'[i]
             /\ hard'[i].term = currentTerm'[i]
    <3>1. ~Won(currentTerm'[i], i)
      <4>1. SUFFICES ASSUME Won(currentTerm'[i], i) PROVE FALSE
        OBVIOUS
      <4>2. PICK e \in elections : e = [term |-> currentTerm'[i], leader |-> i]
        BY <4>1 DEF Won
      <4>3. e.term <= hard[e.leader].term /\ e.term = currentTerm'[i]
            /\ e.leader = i
        BY <1>r, <4>2 DEF RoleInv
      <4> QED BY <2>1, <2>4, <4>3
    <3>2. currentTerm'[i] >= 1
      BY <2>1, <2>4
    <3> QED BY <2>4, <3>1, <3>2 DEF Follower, Candidate, Leader
  <2> QED BY <1>s, <2>2, <2>3, <2>4
<1>4. RoleInv'
  BY <1>s, <1>1, <1>2, <1>3 DEF RoleInv, Won
<1>5. ASSUME NEW i \in Server, state'[i] = Leader
      PROVE  /\ LastTerm(FullLog(i)') = currentTerm'[i]
             /\ \A h \in H : LastTerm(h) = currentTerm'[i] => Below(h, FullLog(i)')
             /\ Acked(A2, i, FullLog(i)', currentTerm'[i])
             /\ \A q \in Server \ {i} :
                   \/ matchIndex'[i][q] <= snap'[i].index
                   \/ Confirmed(H, A2, q, currentTerm'[i], matchIndex'[i][q])
  <2>1. /\ FullLog(i)' = FullLog(i) /\ state[i] = Leader
        /\ currentTerm'[i] = currentTerm[i]
    BY <1>s, <1>5 DEF Follower, Candidate, Leader
  <2>2. /\ LastTerm(FullLog(i)) = currentTerm[i]
        /\ \A h \in H : LastTerm(h) = currentTerm[i] => Below(h, FullLog(i))
        /\ Acked(A, i, FullLog(i), currentTerm[i])
        /\ \A q \in Server \ {i} :
              \/ matchIndex[i][q] <= snap[i].index
              \/ Confirmed(H, A, q, currentTerm[i], matchIndex[i][q])
    BY <1>r, <2>1 DEF LeaderInv
  <2>3. Acked(A2, i, FullLog(i), currentTerm[i])
    BY <2>2, Monotone
  <2>4. ASSUME NEW q \in Server \ {i}
        PROVE  \/ matchIndex'[i][q] <= snap'[i].index
               \/ Confirmed(H, A2, q, currentTerm[i], matchIndex'[i][q])
    <3>1. \/ matchIndex'[i][q] <= snap[i].index
          \/ Confirmed(H, A, q, currentTerm[i], matchIndex'[i][q])
      BY <1>5, <2>2 DEF NewMatchesOk
    <3>2. /\ matchIndex'[i][q] \in Nat /\ snap[i].index \in Nat
          /\ snap'[i].index \in Nat /\ snap[i].index <= snap'[i].index
      <4>1. matchIndex'[i][q] \in Nat
        BY DEF TypeInv, TypeOK
      <4> QED BY <1>s, <4>1, Facts, FactsAfter
    <3>3. CASE matchIndex'[i][q] <= snap[i].index
      BY <3>2, <3>3
    <3>4. CASE Confirmed(H, A, q, currentTerm[i], matchIndex'[i][q])
      <4>1. H \subseteq H
        OBVIOUS
      <4> QED BY <3>4, <4>1, Monotone
    <3> QED BY <3>1, <3>3, <3>4
  <2> QED BY <2>1, <2>2, <2>3, <2>4
<1>6. LeaderInv(H, A2)'
  BY <1>5 DEF LeaderInv
<1> QED BY <1>4, <1>6

\* Candidates in a steady step: the logs K were held in a term no vote is
\* newer than.
LEMMA SteadyVotes ==
    ASSUME TypeInv, TypeInv', VoteInv, VoteInv', NEW H, NEW A,
           NEW q \in Server, NEW K, SafetyInv(H, A),
           Moves(Logs, Terms, H, Logs', Terms', q, K), SteadyRoles,
           NewVotesOk(H, A), votes' = votes \/ K = {}
    PROVE  VoteSafe(H, A \cup K)'
<1>1. SUFFICES ASSUME NEW v \in votes', state'[v.candidate] = Candidate,
                      currentTerm'[v.candidate] = v.term,
                      NEW p \in H, <<v.voter, p>> \in A \cup K,
                      LastTerm(p) < v.term
               PROVE  \/ Below(p, FullLog(v.candidate)')
                      \/ Doomed(Terms', A \cup K, p)
  BY DEF VoteSafe
<1>0. LogsInv(Logs, Terms, H, A) /\ HistoryInv(H) /\ VoteSafe(H, A) /\ RoleInv
  BY DEF SafetyInv, LogsInv
<1>2. Doomed(Terms, A, p) => Doomed(Terms', A \cup K, p)
  BY <1>0, DoomedStays
<1>3. v \in [term : Nat, voter : Server, candidate : Server]
  BY DEF TypeInv, TypeOK
<1>4. /\ FullLog(v.candidate)' = FullLog(v.candidate)
      /\ \/ /\ state'[v.candidate] = state[v.candidate]
            /\ currentTerm'[v.candidate] = currentTerm[v.candidate]
         \/ hard[v.candidate].term < currentTerm'[v.candidate]
  BY <1>1, <1>3 DEF SteadyRoles, Follower, Candidate
<1>5. CASE v \notin votes
  <2>1. <<v.voter, p>> \in A
    BY <1>1, <1>5
  <2>2. Below(p, FullLog(v.candidate)) \/ Doomed(Terms, A, p)
    BY <1>1, <1>5, <2>1 DEF NewVotesOk
  <2> QED BY <1>2, <1>4, <2>2
<1>6. CASE v \in votes
  <2>1. /\ v.term <= hard[v.voter].term /\ v.term <= hard[v.candidate].term
        /\ v.term \in Nat /\ hard[v.candidate].term \in Nat
        /\ hard[v.voter].term \in Nat /\ LastTerm(p) \in Nat
    BY <1>0, <1>3, <1>6, Facts, TermFacts DEF VoteInv, VotesDurable, RoleInv
  <2>2. state[v.candidate] = Candidate /\ currentTerm[v.candidate] = v.term
    BY <1>1, <1>4, <2>1
  <2>3. <<v.voter, p>> \in A
    <3>1. SUFFICES ASSUME <<v.voter, p>> \in K PROVE FALSE
      BY <1>1
    <3>2. v.voter = q
      BY <3>1 DEF Moves
    <3>3. LastTerm(p) = Terms'[q] /\ Terms[q] <= Terms'[q]
      BY <3>1, <3>2 DEF Moves
    <3>4. Terms[q] = hard[q].term /\ Terms'[q] \in Nat
      BY Facts, FactsAfter
    <3> QED BY <1>1, <2>1, <3>2, <3>3, <3>4
  <2>4. Below(p, FullLog(v.candidate)) \/ Doomed(Terms, A, p)
    BY <1>0, <1>1, <1>6, <2>2, <2>3 DEF VoteSafe
  <2> QED BY <1>2, <1>4, <2>4
<1> QED BY <1>5, <1>6

\* A message in the network stays true to what is known, in a steady step and
\* when a leader appends.
LEMMA MessageStays ==
    ASSUME TypeInv, TypeInv', NEW H, NEW A, NEW H2, NEW A2,
           H \subseteq H2, A \subseteq A2, HistoryInv(H),
           elections \subseteq elections',
           \A j \in Server :
              /\ hard[j].term <= hard'[j].term
              /\ snap[j].index <= snap'[j].index,
           NEW m \in msgs, MessageOk(H, A, m),
           m.type = "RequestVote" /\ state'[m.src] = Candidate
              /\ currentTerm'[m.src] = m.term
              => /\ FullLog(m.src)' = FullLog(m.src) /\ state[m.src] = Candidate
                 /\ currentTerm[m.src] = m.term,
           \A j \in Server : \A t \in Nat :
              /\ state'[j] = Leader /\ currentTerm'[j] = t /\ Won(t, j)
              => state[j] = Leader /\ currentTerm[j] = t
    PROVE  MessageOk(H2, A2, m)'
<1>m. /\ \A q, t, k : Confirmed(H, A, q, t, k) => Confirmed(H2, A2, q, t, k)
      /\ \A g : \A t \in Nat : Settled(H, A, g, t) => Settled(H2, A2, g, t)
  <2>1. \A g : \A t, u \in Nat : Settled(H, A, g, t) /\ t <= u
                                 => Settled(H2, A2, g, u)
    BY Monotone
  <2>2. \A t \in Nat : t <= t
    OBVIOUS
  <2>3. \A q, t, k : Confirmed(H, A, q, t, k) => Confirmed(H2, A2, q, t, k)
    BY Monotone
  <2> QED BY <2>1, <2>2, <2>3
<1>h. \A j \in Server : /\ hard[j].term \in Nat /\ hard'[j].term \in Nat
                        /\ snap[j].index \in Nat /\ snap'[j].index \in Nat
  <2>1. TAKE j \in Server
  <2>2. hard[j].term \in Nat /\ hard'[j].term \in Nat
    <3>1. /\ hard \in [Server -> [term : Nat, votedFor : Server \cup {Nil}]]
          /\ hard' \in [Server -> [term : Nat, votedFor : Server \cup {Nil}]]
      BY Zenon DEF TypeInv, TypeOK
    <3> QED BY <3>1
  <2>3. snap[j].index \in Nat /\ snap'[j].index \in Nat
    <3>1. snap \in [Server -> Snapshot] /\ snap' \in [Server -> Snapshot]
      BY Zenon DEF TypeInv, TypeOK
    <3> QED BY <3>1 DEF Snapshot
  <2> QED BY <2>2, <2>3, Zenon
<1>1. CASE m.type = "RequestVote"
  <2>1. m.src \in Server /\ m.term \in Nat /\ RequestOk(m)
    BY <1>1, MessageTypes DEF TypeInv, RequestVoteArgs, MessageOk
  <2>2. m.term <= hard'[m.src].term
    BY <1>h, <2>1 DEF RequestOk
  <2>3. RequestOk(m)'
    BY <1>1, <2>1, <2>2 DEF RequestOk
  <2> QED BY <1>1, <2>3 DEF MessageOk
<1>2. CASE m.type = "AppendEntries"
  <2>1. m.term \in Nat /\ AppendOk(H, A, m)
    BY <1>2, MessageTypes DEF TypeInv, AppendEntriesArgs, MessageOk
  <2>2. AppendOk(H2, A2, m)
    <3>1. CASE m.prevLogIndex >= 1 /\ m.prevLogTerm = 0
      BY <3>1 DEF AppendOk
    <3>2. CASE \E h \in H : SliceOf(H, A, h, m)
      <4>1. PICK h \in H : SliceOf(H, A, h, m)
        BY <3>2
      <4>2. Settled(H2, A2, Pre(h, MinU(m.leaderCommit, Len(h))), m.term)
        BY <1>m, <2>1, <4>1 DEF SliceOf
      <4>3. SliceOf(H2, A2, h, m)
        BY <4>1, <4>2 DEF SliceOf
      <4> QED BY <4>1, <4>3 DEF AppendOk
    <3> QED BY <2>1, <3>1, <3>2 DEF AppendOk
  <2> QED BY <1>2, <2>2 DEF MessageOk
<1>3. CASE m.type = "AppendEntriesReply"
  BY <1>m, <1>3 DEF MessageOk
<1>4. CASE m.type = "InstallSnapshot"
  <2>1. /\ m.src \in Server /\ m.term \in Nat /\ m.snapshot \in Snapshot
        /\ InstallOk(H, A, m)
    BY <1>4, MessageTypes DEF TypeInv, InstallSnapshotArgs, MessageOk
  <2>2. /\ Settled(H2, A2, m.snapshot.data, m.term)
        /\ \E l \in H2 : LastTerm(l) = m.term /\ Below(m.snapshot.data, l)
        /\ Won(m.term, m.src) /\ Won(m.term, m.src)'
    BY <1>m, <2>1 DEF InstallOk, Won
  <2>3. state'[m.src] = Leader /\ currentTerm'[m.src] = m.term
           => m.snapshot.index <= snap'[m.src].index
    <3>1. SUFFICES ASSUME state'[m.src] = Leader, currentTerm'[m.src] = m.term
                   PROVE  m.snapshot.index <= snap'[m.src].index
      OBVIOUS
    <3>2. state[m.src] = Leader /\ currentTerm[m.src] = m.term
      BY <2>1, <2>2, <3>1
    <3>3. m.snapshot.index <= snap[m.src].index /\ m.snapshot.index \in Nat
      BY <2>1, <3>2 DEF InstallOk, Snapshot
    <3> QED BY <1>h, <2>1, <3>3
  <2>4. InstallOk(H2, A2, m)'
    BY <2>1, <2>2, <2>3 DEF InstallOk
  <2> QED BY <1>4, <2>4 DEF MessageOk
<1>5. CASE m.type = "InstallSnapshotReply"
  <2>1. /\ m.dst \in Server /\ m.sentIn \in Nat /\ m.match \in Nat
        /\ InstallReplyOk(m)
    BY <1>5, MessageTypes DEF TypeInv, InstallSnapshotReply, MessageOk
  <2>2. Won(m.sentIn, m.dst) /\ Won(m.sentIn, m.dst)'
    BY <2>1 DEF InstallReplyOk, Won
  <2>3. state'[m.dst] = Leader /\ currentTerm'[m.dst] = m.sentIn
           => m.match <= snap'[m.dst].index
    BY <1>h, <2>1, <2>2 DEF InstallReplyOk
  <2>4. InstallReplyOk(m)'
    BY <2>2, <2>3 DEF InstallReplyOk
  <2> QED BY <1>5, <2>4 DEF MessageOk
<1>6. CASE /\ m.type # "RequestVote" /\ m.type # "AppendEntries"
           /\ m.type # "AppendEntriesReply" /\ m.type # "InstallSnapshot"
           /\ m.type # "InstallSnapshotReply"
  BY <1>6 DEF MessageOk
<1> QED BY <1>1, <1>2, <1>3, <1>4, <1>5, <1>6

\* A steady step that keeps the obligations on commits and new messages
\* preserves the invariant.
LEMMA SteadyStep ==
    ASSUME TypeInv, TypeInv', VoteInv, VoteInv', NEW H, NEW A,
           NEW q \in Server, NEW K, SafetyInv(H, A),
           Moves(Logs, Terms, H, Logs', Terms', q, K), SteadyRoles,
           NewVotesOk(H, A), votes' = votes \/ K = {}, NewMatchesOk(H, A),
           NodeInv', CommitInv(H, A \cup K)',
           \A m \in msgs' \ msgs : MessageOk(H, A \cup K, m)'
    PROVE  SafetyInv(H, A \cup K)'
<1>0. LogsInv(Logs, Terms, H, A) /\ HistoryInv(H) /\ Elected(H)
      /\ MessageInv(H, A) /\ RoleInv
  BY DEF SafetyInv, LogsInv
<1>1. LogsInv(Logs, Terms, H, A \cup K)'
  BY <1>0, FollowKeeps
<1>2. Elected(H)'
  BY <1>0 DEF Elected, SteadyRoles
<1>3. RoleInv' /\ LeaderInv(H, A \cup K)'
  <2>1. A \subseteq A \cup K
    OBVIOUS
  <2> QED BY <2>1, SteadyLeaders
<1>4. VoteSafe(H, A \cup K)'
  BY SteadyVotes
<1>5. MessageInv(H, A \cup K)'
  <2>1. SUFFICES ASSUME NEW m \in msgs' PROVE MessageOk(H, A \cup K, m)'
    BY DEF MessageInv
  <2>2. CASE m \in msgs
    <3>1. MessageOk(H, A, m)
      BY <1>0, <2>2 DEF MessageInv
    <3>2. m.type = "RequestVote" /\ state'[m.src] = Candidate
             /\ currentTerm'[m.src] = m.term
             => /\ FullLog(m.src)' = FullLog(m.src) /\ state[m.src] = Candidate
                /\ currentTerm[m.src] = m.term
      <4>1. SUFFICES ASSUME m.type = "RequestVote", state'[m.src] = Candidate,
                            currentTerm'[m.src] = m.term
                     PROVE  /\ FullLog(m.src)' = FullLog(m.src)
                            /\ state[m.src] = Candidate
                            /\ currentTerm[m.src] = m.term
        OBVIOUS
      <4>2. m.src \in Server /\ m.term \in Nat /\ m.term <= hard[m.src].term
        BY <2>2, <3>1, <4>1, MessageTypes
           DEF TypeInv, RequestVoteArgs, MessageOk, RequestOk
      <4>3. hard[m.src].term \in Nat
        BY <4>2, Facts
      <4> QED BY <4>1, <4>2, <4>3 DEF SteadyRoles, Candidate, Follower
    <3>3. \A j \in Server : \A t \in Nat :
             /\ state'[j] = Leader /\ currentTerm'[j] = t /\ Won(t, j)
             => state[j] = Leader /\ currentTerm[j] = t
      BY DEF SteadyRoles, Leader, Candidate, Follower
    <3>4. /\ H \subseteq H /\ A \subseteq A \cup K
          /\ elections \subseteq elections'
          /\ \A j \in Server : /\ hard[j].term <= hard'[j].term
                               /\ snap[j].index <= snap'[j].index
      BY DEF SteadyRoles
    <3> QED BY <1>0, <2>2, <3>1, <3>2, <3>3, <3>4, MessageStays
  <2>3. CASE m \notin msgs
    BY <2>1, <2>3
  <2> QED BY <2>2, <2>3
<1> QED BY <1>1, <1>2, <1>3, <1>4, <1>5 DEF SafetyInv

-----------------------------------------------------------------------------
(* Commitment *)

\* No node loses, in a step, what it had committed.
CommitKept ==
    \/ UNCHANGED logVars
    \/ \A j \in Server :
          /\ commitIndex[j] <= Len(FullLog(j)')
          /\ Pre(FullLog(j)', commitIndex[j]) = Pre(FullLog(j), commitIndex[j])

\* What a node has committed stays in its log and stays settled, whatever
\* leader it follows.
LEMMA CommitStays ==
    ASSUME TypeInv, TypeInv', VoteInv, VoteInv', NEW H, NEW A,
           NEW q \in Server, NEW K, SafetyInv(H, A),
           Moves(Logs, Terms, H, Logs', Terms', q, K), NEW j \in Server
    PROVE  /\ commitIndex[j] <= Len(FullLog(j)')
           /\ \A n \in 0..commitIndex[j] : Pre(FullLog(j)', n) = Pre(FullLog(j), n)
           /\ Settled(H, A \cup K, Pre(FullLog(j)', commitIndex[j]), hard'[j].term)
           /\ sm[j] = Pre(FullLog(j)', lastApplied[j])
<1>0. LogsInv(Logs, Terms, H, A) /\ HistoryInv(H) /\ NodeCommit(H, A, j)
  BY DEF SafetyInv, LogsInv, CommitInv
<1> DEFINE f == FullLog(j)
           g == FullLog(j)'
           c == commitIndex[j]
<1>1. /\ f \in Seq(Entry) /\ g \in Seq(Entry) /\ Len(f) \in Nat /\ Len(g) \in Nat
      /\ c \in Nat /\ lastApplied[j] \in 0..c
      /\ hard[j].term \in Nat /\ hard'[j].term \in Nat
      /\ Logs[j] = f /\ Logs'[j] = g /\ Terms[j] = hard[j].term
      /\ Terms'[j] = hard'[j].term
  BY Facts, FactsAfter
<1>2. /\ c <= Len(f) /\ Settled(H, A, Pre(f, c), hard[j].term)
      /\ sm[j] = Pre(f, lastApplied[j])
  BY <1>0 DEF NodeCommit
<1> HIDE DEF f, g, c
<1>3. c <= Len(g) /\ Pre(g, c) = Pre(f, c)
  <2>1. c \in 0..Len(Logs[j]) /\ Settled(H, A, Pre(Logs[j], c), Terms[j])
    BY <1>1, <1>2
  <2>2. c <= Len(Logs'[j]) /\ Pre(Logs'[j], c) = Pre(Logs[j], c)
    BY <1>0, <2>1, SettledKept
  <2> QED BY <1>1, <2>2
<1>4. ASSUME NEW n \in 0..c PROVE Pre(g, n) = Pre(f, n)
  <2>1. n \in 0..Len(f) /\ n \in 0..Len(g) /\ c \in 0..Len(f) /\ c \in 0..Len(g)
    BY <1>1, <1>2, <1>3
  <2>2. /\ Pre(g, n) \in Seq(Entry) /\ Len(Pre(g, n)) = n
        /\ \A k \in 1..n : Pre(g, n)[k] = g[k]
        /\ \A k \in 1..c : Pre(g, c)[k] = g[k]
    BY <1>1, <2>1, PreFacts
  <2>3. /\ Pre(f, n) \in Seq(Entry) /\ Len(Pre(f, n)) = n
        /\ \A k \in 1..n : Pre(f, n)[k] = f[k]
        /\ \A k \in 1..c : Pre(f, c)[k] = f[k]
    BY <1>1, <2>1, PreFacts
  <2>4. ASSUME NEW k \in 1..n PROVE Pre(g, n)[k] = Pre(f, n)[k]
    <3>1. k \in 1..c
      BY <1>1
    <3> QED BY <1>3, <2>2, <2>3, <3>1
  <2> QED BY <2>2, <2>3, <2>4, SeqEqual
<1>5. Settled(H, A \cup K, Pre(g, c), hard'[j].term)
  <2>1. hard[j].term <= hard'[j].term
    BY <1>1 DEF Moves
  <2>2. H \subseteq H /\ A \subseteq A \cup K
    OBVIOUS
  <2> QED BY <1>0, <1>1, <1>2, <1>3, <2>1, <2>2, Monotone
<1>6. sm[j] = Pre(g, lastApplied[j])
  BY <1>1, <1>2, <1>4
<1> QED BY <1>3, <1>4, <1>5, <1>6 DEF f, g, c

\* A node that follows a leader loses nothing it had committed.
LEMMA MovesKept ==
    ASSUME TypeInv, TypeInv', VoteInv, VoteInv', NEW H, NEW A,
           NEW q \in Server, NEW K, SafetyInv(H, A),
           Moves(Logs, Terms, H, Logs', Terms', q, K)
    PROVE  CommitKept
<1>1. ASSUME NEW j \in Server
      PROVE  /\ commitIndex[j] <= Len(FullLog(j)')
             /\ Pre(FullLog(j)', commitIndex[j]) = Pre(FullLog(j), commitIndex[j])
  <2>1. commitIndex[j] \in Nat
    BY Facts
  <2>2. commitIndex[j] \in 0..commitIndex[j]
    BY <2>1
  <2> QED BY <2>2, CommitStays
<1> QED BY <1>1 DEF CommitKept

\* Entries that were committed rest on the same chosen logs.
LEMMA CommittedStays ==
    ASSUME NEW H, NEW A, NEW H2, NEW A2, H \subseteq H2, A \subseteq A2,
           CommitInv(H, A), NEW c \in committed
    PROVE  CommitOk(H2, A2, c)
<1>1. PICK p \in H : /\ Chosen(A, p) /\ LastTerm(p) = c.by
                     /\ c.index \in 1..Len(p) /\ p[c.index] = c.entry
  BY DEF CommitInv, CommitOk
<1>2. Chosen(A2, p)
  BY <1>1, Monotone
<1> QED BY <1>1, <1>2 DEF CommitOk

\* A step that neither commits nor applies anything.
LEMMA CommitQuiet ==
    ASSUME TypeInv, TypeInv', VoteInv, VoteInv', NEW H, NEW A,
           NEW q \in Server, NEW K, SafetyInv(H, A),
           Moves(Logs, Terms, H, Logs', Terms', q, K),
           UNCHANGED <<commitIndex, lastApplied, sm, committed>>
    PROVE  CommitInv(H, A \cup K)'
<1>1. ASSUME NEW j \in Server PROVE NodeCommit(H, A \cup K, j)'
  BY CommitStays DEF NodeCommit
<1>2. ASSUME NEW c \in committed' PROVE CommitOk(H, A \cup K, c)'
  <2>1. CommitInv(H, A) /\ H \subseteq H /\ A \subseteq A \cup K
    BY DEF SafetyInv
  <2>2. CommitOk(H, A \cup K, c)
    BY <2>1, CommittedStays
  <2> QED BY <2>2
<1> QED BY <1>1, <1>2 DEF CommitInv

\* A step in which no log changes.
LEMMA LogsStay ==
    ASSUME TypeInv, TypeInv', VoteInv, VoteInv', NEW H, NEW A,
           SafetyInv(H, A), NEW q \in Server,
           \A j \in Server : /\ FullLog(j)' = FullLog(j)
                             /\ hard[j].term <= hard'[j].term
    PROVE  Moves(Logs, Terms, H, Logs', Terms', q, {})
<1>1. Logs' = Logs /\ Logs \in [Server -> H]
  BY DEF Logs, SafetyInv, LogsInv
<1>2. Terms' \in [Server -> Nat] /\ \A j \in Server : Terms[j] <= Terms'[j]
  <2>1. \A j \in Server : hard'[j].term \in Nat
    BY FactsAfter
  <2> QED BY <2>1 DEF Terms
<1> QED BY <1>1, <1>2 DEF Moves

-----------------------------------------------------------------------------
(* The whole log of a node, and the operators of raftlog on it *)

\* Indices below the snapshot point into its data, indices above into the log.
LEMMA FullLogFacts ==
    ASSUME TypeInv, VoteInv, NodeInv, NEW i \in Server
    PROVE  /\ Len(FullLog(i)) = LastIndex(i) /\ snap[i].index \in 0..LastIndex(i)
           /\ Len(snap[i].data) = snap[i].index
           /\ LastIndex(i) = snap[i].index + Len(log[i]) /\ Len(log[i]) \in Nat
           /\ snap[i].data = Pre(FullLog(i), snap[i].index)
           /\ \A n \in 1..snap[i].index : snap[i].data[n] = FullLog(i)[n]
           /\ \A n \in 1..Len(log[i]) : log[i][n] = FullLog(i)[snap[i].index + n]
<1>1. /\ snap[i].index \in Nat /\ snap[i].data \in Seq(Entry)
      /\ log[i] \in Seq(Entry) /\ FullLog(i) \in Seq(Entry)
      /\ Len(snap[i].data) = snap[i].index
  BY Facts DEF NodeInv
<1>2. Len(log[i]) \in Nat
  BY <1>1, LenProperties
<1>3. /\ Len(FullLog(i)) = Len(snap[i].data) + Len(log[i])
      /\ \A n \in 1..Len(snap[i].data) + Len(log[i]) :
            FullLog(i)[n] = IF n <= Len(snap[i].data) THEN snap[i].data[n]
                            ELSE log[i][n - Len(snap[i].data)]
  BY <1>1, ConcatProperties DEF FullLog
<1>4. /\ Len(FullLog(i)) = LastIndex(i) /\ snap[i].index \in 0..LastIndex(i)
      /\ LastIndex(i) = snap[i].index + Len(log[i])
  BY <1>1, <1>2, <1>3 DEF LastIndex
<1>5. ASSUME NEW n \in 1..snap[i].index PROVE snap[i].data[n] = FullLog(i)[n]
  BY <1>1, <1>2, <1>3
<1>6. ASSUME NEW n \in 1..Len(log[i])
      PROVE  log[i][n] = FullLog(i)[snap[i].index + n]
  <2>1. /\ snap[i].index + n \in 1..Len(snap[i].data) + Len(log[i])
        /\ ~(snap[i].index + n <= Len(snap[i].data))
        /\ snap[i].index + n - Len(snap[i].data) = n
    <3>1. PICK a \in Nat, b \in Nat : a = snap[i].index /\ b = Len(log[i])
      BY <1>1, <1>2
    <3>2. n \in 1..b
      BY <3>1
    <3>3. a + n \in 1..a + b /\ ~(a + n <= a) /\ a + n - a = n
      BY <3>2
    <3> QED BY <1>1, <3>1, <3>3, Zenon
  <2>2. PICK x : x = snap[i].index + n
    OBVIOUS
  <2>3. FullLog(i)[x] = log[i][x - Len(snap[i].data)]
    BY <1>3, <2>1, <2>2
  <2>4. x - Len(snap[i].data) = n
    BY <1>1, <1>2, <2>2
  <2> QED BY <2>2, <2>3, <2>4
<1>7. snap[i].data = Pre(FullLog(i), snap[i].index)
  <2>1. Below(snap[i].data, FullLog(i))
    BY <1>1, <1>2, <1>3, <1>5 DEF Below
  <2> QED BY <1>1, <2>1, BelowFacts
<1> QED BY <1>1, <1>2, <1>4, <1>5, <1>6, <1>7

\* Log.At and Log.TermAt read the whole log; a term of zero says that there is
\* no entry.
LEMMA TermAtFacts ==
    ASSUME TypeInv, VoteInv, NodeInv, NEW i \in Server
    PROVE  /\ \A n \in Nat : HasEntry(i, n) =>
                 n \in 1..Len(FullLog(i)) /\ At(i, n) = FullLog(i)[n]
           /\ \A n \in Nat : n >= 1 /\ snap[i].index <= n /\ n <= LastIndex(i)
                 => TermAt(i, n) = FullLog(i)[n].term
           /\ \A n \in Nat : n > LastIndex(i) => TermAt(i, n) = 0
           /\ LastLogTerm(i) = LastTerm(FullLog(i))
<1>0. /\ Len(FullLog(i)) = LastIndex(i) /\ snap[i].index \in 0..LastIndex(i)
      /\ LastIndex(i) = snap[i].index + Len(log[i]) /\ Len(log[i]) \in Nat
      /\ \A n \in 1..snap[i].index : snap[i].data[n] = FullLog(i)[n]
      /\ \A n \in 1..Len(log[i]) : log[i][n] = FullLog(i)[snap[i].index + n]
      /\ snap[i].index \in Nat /\ LastIndex(i) \in Nat
      /\ FullLog(i) \in Seq(Entry) /\ snap[i].data \in Seq(Entry)
      /\ Len(snap[i].data) = snap[i].index
      /\ snap[i].term = LastTerm(snap[i].data)
  BY FullLogFacts, Facts DEF NodeInv
<1>1. ASSUME NEW n \in Nat, HasEntry(i, n)
      PROVE  n \in 1..Len(FullLog(i)) /\ At(i, n) = FullLog(i)[n]
  <2>1. n - snap[i].index \in 1..Len(log[i]) /\ n \in 1..LastIndex(i)
    BY <1>0, <1>1 DEF HasEntry
  <2>2. log[i][n - snap[i].index] = FullLog(i)[snap[i].index + (n - snap[i].index)]
    BY <1>0, <2>1
  <2>3. snap[i].index + (n - snap[i].index) = n
    BY <1>0
  <2> QED BY <1>0, <2>1, <2>2, <2>3 DEF At
<1>2. ASSUME NEW n \in Nat, n >= 1, snap[i].index <= n, n <= LastIndex(i)
      PROVE  TermAt(i, n) = FullLog(i)[n].term
  <2>1. CASE n = snap[i].index
    <3>1. TermAt(i, n) = LastTerm(snap[i].data)
      BY <1>0, <2>1 DEF TermAt
    <3>2. snap[i].data # <<>> /\ snap[i].data[n] = FullLog(i)[n]
      BY <1>0, <1>2, <2>1, EmptySeq
    <3> QED BY <1>0, <2>1, <3>1, <3>2 DEF LastTerm
  <2>2. CASE n # snap[i].index
    <3>1. HasEntry(i, n)
      BY <1>0, <1>2, <2>2 DEF HasEntry
    <3> QED BY <1>1, <2>2, <3>1 DEF TermAt
  <2> QED BY <2>1, <2>2
<1>3. ASSUME NEW n \in Nat, n > LastIndex(i) PROVE TermAt(i, n) = 0
  BY <1>0, <1>3 DEF TermAt, HasEntry
<1>4. LastLogTerm(i) = LastTerm(FullLog(i))
  <2>1. CASE LastIndex(i) = 0
    <3>1. FullLog(i) = <<>> /\ snap[i].data = <<>> /\ snap[i].index = 0
      BY <1>0, <2>1, EmptySeq
    <3> QED BY <1>0, <2>1, <3>1 DEF LastLogTerm, TermAt, LastTerm
  <2>2. CASE LastIndex(i) >= 1
    <3>1. FullLog(i) # <<>> /\ snap[i].index <= LastIndex(i)
          /\ LastIndex(i) <= LastIndex(i)
      BY <1>0, <2>2, EmptySeq
    <3>2. TermAt(i, LastIndex(i)) = FullLog(i)[LastIndex(i)].term
      BY <1>0, <1>2, <2>2, <3>1
    <3> QED BY <1>0, <3>1, <3>2 DEF LastLogTerm, LastTerm
  <2> QED BY <1>0, <2>1, <2>2
<1> QED BY <1>1, <1>2, <1>3, <1>4

\* Log.From returns the entries of the whole log from n on.
LEMMA FromFacts ==
    ASSUME TypeInv, VoteInv, NodeInv, NEW i \in Server, NEW n \in Nat,
           n > snap[i].index, n <= LastIndex(i) + 1
    PROVE  /\ From(i, n) \in Seq(Entry) /\ Len(From(i, n)) = LastIndex(i) + 1 - n
           /\ \A k \in 1..Len(From(i, n)) : From(i, n)[k] = FullLog(i)[n - 1 + k]
<1>0. /\ LastIndex(i) = snap[i].index + Len(log[i]) /\ Len(log[i]) \in Nat
      /\ \A k \in 1..Len(log[i]) : log[i][k] = FullLog(i)[snap[i].index + k]
      /\ snap[i].index \in Nat /\ LastIndex(i) \in Nat /\ log[i] \in Seq(Entry)
  BY FullLogFacts, Facts
<1>1. PICK a : a = n - snap[i].index
  OBVIOUS
<1>2. /\ a \in Nat /\ a >= 1 /\ a <= Len(log[i]) + 1
      /\ Len(log[i]) - a + 1 = LastIndex(i) + 1 - n
      /\ LastIndex(i) + 1 - n \in Nat
  <2>1. /\ LastIndex(i) = snap[i].index + Len(log[i]) /\ Len(log[i]) \in Nat
        /\ snap[i].index \in Nat
    BY <1>0
  <2>2. PICK s \in Nat, m \in Nat : s = snap[i].index /\ m = Len(log[i])
    BY <2>1
  <2>3. n > s /\ n <= s + m + 1 /\ a = n - s
    BY <1>1, <2>1, <2>2
  <2>4. /\ a \in Nat /\ a >= 1 /\ a <= m + 1
        /\ m - a + 1 = s + m + 1 - n /\ s + m + 1 - n \in Nat
    BY <2>3
  <2> QED BY <2>1, <2>2, <2>4, Zenon
<1>3. \A k \in a..Len(log[i]) : log[i][k] \in Entry
  BY <1>0, <1>2, ElementOfSeq
<1>4. /\ From(i, n) \in Seq(Entry)
      /\ Len(From(i, n)) = IF a <= Len(log[i]) THEN Len(log[i]) - a + 1 ELSE 0
      /\ \A k \in 1..Len(log[i]) - a + 1 : From(i, n)[k] = log[i][a + k - 1]
  <2>1. a \in Int /\ Len(log[i]) \in Int
    BY <1>0, <1>2
  <2>2. From(i, n) = SubSeq(log[i], a, Len(log[i]))
    BY <1>1 DEF From
  <2> QED BY <1>3, <2>1, <2>2, SubSeqProperties
<1>5. Len(From(i, n)) = Len(log[i]) - a + 1
  BY <1>0, <1>2, <1>4
<1>6. ASSUME NEW k \in 1..Len(From(i, n))
      PROVE  From(i, n)[k] = FullLog(i)[n - 1 + k]
  <2>1. /\ k \in 1..Len(log[i]) - a + 1 /\ a + k - 1 \in 1..Len(log[i])
    <3>1. Len(log[i]) \in Nat /\ a \in Nat /\ a >= 1 /\ a <= Len(log[i]) + 1
      BY <1>0, <1>2
    <3> QED BY <1>5, <3>1
  <2>2. snap[i].index + (a + k - 1) = n - 1 + k
    <3>1. PICK s \in Nat : s = snap[i].index
      BY <1>0
    <3>2. a = n - s /\ a \in Nat /\ k \in Nat
      BY <1>1, <1>2, <3>1
    <3>3. s + (a + k - 1) = n - 1 + k
      BY <3>2
    <3> QED BY <3>1, <3>3, Zenon
  <2> QED BY <1>0, <1>4, <2>1, <2>2
<1> QED BY <1>2, <1>4, <1>5, <1>6

\* Gluing pieces of a log h together gives a prefix of h.
LEMMA Glue ==
    ASSUME NEW h \in Seq(Entry), NEW a \in 0..Len(h), NEW r \in Seq(Entry),
           a + Len(r) <= Len(h), \A x \in 1..Len(r) : r[x] = h[a + x]
    PROVE  Pre(h, a) \o r = Pre(h, a + Len(r))
<1>0. Len(h) \in Nat /\ Len(r) \in Nat /\ a \in Nat
  BY LenProperties
<1>1. PICK b : b = a + Len(r)
  OBVIOUS
<1>2. b \in 0..Len(h) /\ b \in Nat
  BY <1>0, <1>1
<1>3. /\ Pre(h, a) \in Seq(Entry) /\ Len(Pre(h, a)) = a
      /\ \A k \in 1..a : Pre(h, a)[k] = h[k]
  BY PreFacts
<1>4. /\ Pre(h, b) \in Seq(Entry) /\ Len(Pre(h, b)) = b
      /\ \A k \in 1..b : Pre(h, b)[k] = h[k]
  BY <1>2, PreFacts
<1>5. /\ Pre(h, a) \o r \in Seq(Entry) /\ Len(Pre(h, a) \o r) = b
      /\ \A k \in 1..b : (Pre(h, a) \o r)[k] =
                            IF k <= a THEN Pre(h, a)[k] ELSE r[k - a]
  <2>1. /\ Pre(h, a) \o r \in Seq(Entry)
        /\ Len(Pre(h, a) \o r) = Len(Pre(h, a)) + Len(r)
        /\ \A k \in 1..Len(Pre(h, a)) + Len(r) : (Pre(h, a) \o r)[k] =
              IF k <= Len(Pre(h, a)) THEN Pre(h, a)[k]
              ELSE r[k - Len(Pre(h, a))]
    BY <1>3, ConcatProperties
  <2> QED BY <1>1, <1>3, <2>1
<1>6. ASSUME NEW k \in 1..b PROVE (Pre(h, a) \o r)[k] = Pre(h, b)[k]
  <2>1. CASE k <= a
    <3>1. k \in 1..a
      BY <1>0, <2>1
    <3> QED BY <1>3, <1>4, <1>5, <2>1, <3>1
  <2>2. CASE k > a
    <3>1. PICK x : x = k - a
      OBVIOUS
    <3>2. x \in 1..Len(r) /\ a + x = k /\ ~(k <= a)
      BY <1>0, <1>1, <1>2, <2>2, <3>1
    <3>3. (Pre(h, a) \o r)[k] = r[x]
      BY <1>5, <3>1, <3>2
    <3> QED BY <1>4, <3>2, <3>3
  <2>3. k <= a \/ k > a
    BY <1>0, <1>2
  <2> QED BY <2>1, <2>2, <2>3
<1>7. Pre(h, a) \o r = Pre(h, b)
  BY <1>4, <1>5, <1>6, SeqEqual
<1> QED BY <1>1, <1>7

\* A log is all of its entries, and one more entry makes a longer prefix.
LEMMA PreSteps ==
    ASSUME NEW h \in Seq(Entry)
    PROVE  /\ Pre(h, Len(h)) = h /\ Pre(h, 0) = <<>>
           /\ \A n \in 1..Len(h) : Append(Pre(h, n - 1), h[n]) = Pre(h, n)
<1>1. Pre(h, Len(h)) = h
  BY BelowFacts
<1>2. Pre(h, 0) = <<>>
  <2>1. 0 \in 0..Len(h)
    BY LenProperties
  <2> QED BY <2>1, PreFacts
<1>3. ASSUME NEW n \in 1..Len(h) PROVE Append(Pre(h, n - 1), h[n]) = Pre(h, n)
  <2>1. PICK a : a = n - 1
    OBVIOUS
  <2>2. a \in 0..Len(h) /\ a + 1 = n /\ n \in 0..Len(h) /\ a \in Nat
        /\ h[n] \in Entry
    BY <2>1, LenProperties, ElementOfSeq
  <2>3. /\ Pre(h, a) \in Seq(Entry) /\ Len(Pre(h, a)) = a
        /\ \A k \in 1..a : Pre(h, a)[k] = h[k]
    BY <2>2, PreFacts
  <2>4. /\ Pre(h, n) \in Seq(Entry) /\ Len(Pre(h, n)) = n
        /\ \A k \in 1..n : Pre(h, n)[k] = h[k]
    BY <2>2, PreFacts
  <2>5. PICK f : f = Append(Pre(h, a), h[n])
    OBVIOUS
  <2>6. /\ f \in Seq(Entry) /\ Len(f) = n /\ f[n] = h[n]
        /\ \A k \in 1..a : f[k] = Pre(h, a)[k]
    BY <2>2, <2>3, <2>5, AppendProperties
  <2>7. ASSUME NEW k \in 1..n PROVE f[k] = Pre(h, n)[k]
    <3>1. k = n \/ k \in 1..a
      BY <2>2
    <3> QED BY <2>3, <2>4, <2>6, <3>1
  <2>8. f = Pre(h, n)
    BY <2>4, <2>6, <2>7, SeqEqual
  <2> QED BY <2>1, <2>5, <2>8
<1> QED BY <1>1, <1>2, <1>3

\* The consistency check of HandleAppendEntries and the terms of the entries
\* make the log agree with the leader's up to the first missing entry.
LEMMA AgreeUpTo ==
    ASSUME TypeInv, VoteInv, NodeInv, NEW H, NEW A, HistoryInv(H),
           NEW i \in Server, FullLog(i) \in H,
           NEW m \in AppendEntriesArgs, Consistent(i, m),
           NEW h \in H, SliceOf(H, A, h, m),
           NEW k \in 0..Len(m.entries), k = 0 \/ k \notin Missing(i, m)
    PROVE  /\ m.prevLogIndex + k <= Len(FullLog(i))
           /\ Pre(FullLog(i), m.prevLogIndex + k) = Pre(h, m.prevLogIndex + k)
<1>0. /\ m.prevLogIndex \in Nat /\ m.entries \in Seq(Entry)
      /\ Len(m.entries) \in Nat /\ k \in Nat
      /\ h \in Seq(Entry) /\ Len(h) \in Nat
      /\ Len(h) = m.prevLogIndex + Len(m.entries)
      /\ FullLog(i) \in Seq(Entry) /\ Len(FullLog(i)) = LastIndex(i)
      /\ LastIndex(i) \in Nat /\ snap[i].index \in Nat
  BY TermFacts, FullLogFacts, Facts DEF AppendEntriesArgs, SliceOf
<1>1. /\ m.prevLogIndex >= snap[i].index /\ m.prevLogIndex <= LastIndex(i)
      /\ m.prevLogIndex >= 1 => TermAt(i, m.prevLogIndex) = m.prevLogTerm
  BY DEF Consistent
<1>2. PICK n : n = m.prevLogIndex + k
  OBVIOUS
<1>3. n \in Nat /\ n >= snap[i].index /\ n <= Len(h)
  <2>1. PICK p \in Nat, e \in Nat, s \in Nat :
           p = m.prevLogIndex /\ e = Len(m.entries) /\ s = snap[i].index
    BY <1>0
  <2>2. k <= e /\ k >= 0 /\ k \in Nat
    BY <1>0, <2>1
  <2>3. Len(h) = p + e /\ p >= s /\ n = p + k
    BY <1>0, <1>1, <1>2, <2>1, Zenon
  <2>4. n \in Nat /\ n >= s /\ n <= p + e
    BY <2>2, <2>3
  <2> QED BY <2>1, <2>3, <2>4, Zenon
<1>4. n <= LastIndex(i) /\ (n >= 1 => TermAt(i, n) = h[n].term)
  <2>1. CASE k = 0
    <3>1. n = m.prevLogIndex
      BY <1>0, <1>2, <2>1
    <3>2. m.prevLogIndex >= 1 => h[m.prevLogIndex].term = m.prevLogTerm
      BY DEF SliceOf
    <3> QED BY <1>1, <3>1, <3>2
  <2>2. CASE k # 0
    <3>1. k \in 1..Len(m.entries) /\ k \notin Missing(i, m)
      BY <1>0, <2>2
    <3>2. ~(n > LastIndex(i)) /\ TermAt(i, n) = m.entries[k].term
      BY <1>2, <3>1 DEF Missing
    <3>3. m.entries[k] = h[n]
      BY <1>2, <3>1 DEF SliceOf
    <3> QED BY <1>0, <1>3, <3>2, <3>3
  <2> QED BY <2>1, <2>2
<1>5. CASE n = 0
  BY <1>0, <1>2, <1>5, PreSteps
<1>6. CASE n >= 1
  <2>1. TermAt(i, n) = FullLog(i)[n].term
    BY <1>3, <1>4, <1>6, TermAtFacts
  <2>2. n \in 1..Len(FullLog(i)) /\ FullLog(i)[n].term = h[n].term
    BY <1>0, <1>3, <1>4, <1>6, <2>1
  <2>3. Pre(FullLog(i), n) = Pre(h, n)
    BY <1>3, <2>2, Matching
  <2> QED BY <1>0, <1>2, <1>4, <2>3
<1> QED BY <1>3, <1>5, <1>6

\* Concatenation of logs is associative.
LEMMA Associative ==
    ASSUME NEW f \in Seq(Entry), NEW g \in Seq(Entry), NEW h \in Seq(Entry)
    PROVE  (f \o g) \o h = f \o (g \o h)
OBVIOUS

\* d is a snapshot at s and l the log f behind it; f agrees with h up to c,
\* and e are the entries of h behind p, the k-th of them the first above c.
Splice(h, d, l, e, f, p, s, k, n, c) ==
    /\ h \in Seq(Entry) /\ d \in Seq(Entry) /\ l \in Seq(Entry)
    /\ e \in Seq(Entry) /\ p \in Nat /\ s \in Nat
    /\ k \in 1..Len(e) /\ n \in (k - 1)..Len(e)
    /\ c = p + k - 1 /\ s <= p /\ Len(d) = s /\ Len(h) = p + Len(e)
    /\ c <= s + Len(l)
    /\ \A x \in 1..s : d[x] = f[x]
    /\ \A x \in 1..Len(l) : l[x] = f[s + x]
    /\ \A x \in 1..c : f[x] = h[x]
    /\ \A x \in 1..Len(e) : e[x] = h[p + x]

\* The snapshot, the log up to c and the entries up to the n-th are a prefix
\* of h.
Joined(h, d, l, e, p, s, k, n) ==
    d \o (SubSeq(l, 1, p + k - 1 - s) \o SubSeq(e, k, n)) = Pre(h, p + n)

\* The entries appended behind what was kept give a prefix of h.
LEMMA Spliced ==
    ASSUME NEW h, NEW d, NEW l, NEW e, NEW f, NEW p, NEW s, NEW k, NEW n, NEW c,
           Splice(h, d, l, e, f, p, s, k, n, c)
    PROVE  Joined(h, d, l, e, p, s, k, n)
<1>a. /\ h \in Seq(Entry) /\ d \in Seq(Entry) /\ l \in Seq(Entry)
      /\ e \in Seq(Entry) /\ p \in Nat /\ s \in Nat
      /\ k \in 1..Len(e) /\ n \in (k - 1)..Len(e)
      /\ c = p + k - 1 /\ s <= p /\ Len(d) = s /\ Len(h) = p + Len(e)
      /\ c <= s + Len(l)
  BY DEF Splice
<1>b. /\ \A x \in 1..s : d[x] = f[x]
      /\ \A x \in 1..Len(l) : l[x] = f[s + x]
      /\ \A x \in 1..c : f[x] = h[x]
      /\ \A x \in 1..Len(e) : e[x] = h[p + x]
  BY DEF Splice
<1>0. /\ Len(e) \in Nat /\ Len(h) \in Nat /\ Len(l) \in Nat
      /\ k \in Nat /\ n \in Nat /\ k >= 1 /\ k - 1 <= n /\ n <= Len(e)
  <2>1. Len(e) \in Nat /\ Len(h) \in Nat /\ Len(l) \in Nat
    BY <1>a, LenProperties
  <2> QED BY <1>a, <2>1
<1>1. c \in Nat /\ s <= c /\ c <= Len(h)
  BY <1>a, <1>0
<1>2. PICK b : b = c - s
  OBVIOUS
<1>3. b \in 0..Len(l) /\ b \in Nat /\ s + b = c /\ p + k - 1 - s = b
  BY <1>a, <1>0, <1>1, <1>2
<1>4. PICK kept : kept = Pre(l, b)
  OBVIOUS
<1>5. /\ kept \in Seq(Entry) /\ Len(kept) = b
      /\ \A x \in 1..b : kept[x] = l[x]
  BY <1>a, <1>3, <1>4, PreFacts
<1>6. \A x \in 1..b : kept[x] = h[s + x]
  <2>1. \A x \in 1..b : x \in 1..Len(l) /\ s + x \in 1..c
    BY <1>a, <1>0, <1>1, <1>3
  <2> QED BY <1>b, <1>5, <2>1
<1>7. PICK r : r = SubSeq(e, k, n)
  OBVIOUS
<1>8. /\ r \in Seq(Entry) /\ Len(r) = n - k + 1 /\ Len(r) \in Nat
      /\ \A x \in 1..Len(r) : r[x] = h[c + x]
  <2>1. \A x \in k..n : e[x] \in Entry
    <3>1. \A x \in k..n : x \in 1..Len(e)
      BY <1>a, <1>0
    <3> QED BY <1>a, <3>1, ElementOfSeq
  <2>2. k \in Int /\ n \in Int
    BY <1>a, <1>0
  <2>3. /\ r \in Seq(Entry) /\ Len(r) = IF k <= n THEN n - k + 1 ELSE 0
        /\ \A x \in 1..n - k + 1 : r[x] = e[k + x - 1]
    BY <1>a, <1>7, <2>1, <2>2, SubSeqProperties
  <2>4. Len(r) = n - k + 1 /\ n - k + 1 \in Nat
    BY <1>a, <1>0, <2>3
  <2>5. ASSUME NEW x \in 1..(n - k + 1) PROVE r[x] = h[c + x]
    <3>1. k + x - 1 \in 1..Len(e) /\ p + (k + x - 1) = c + x
      BY <1>a, <1>0
    <3> QED BY <1>b, <2>3, <3>1
  <2> QED BY <1>a, <2>3, <2>4, <2>5
<1>9. d = Pre(h, s)
  <2>1. \A x \in 1..s : x \in 1..c
    BY <1>a, <1>1
  <2>2. Below(d, h)
    <3>1. \A x \in 1..Len(d) : d[x] = h[x]
      BY <1>a, <1>b, <2>1
    <3>2. Len(d) <= Len(h)
      BY <1>a, <1>0, <1>1
    <3> QED BY <1>a, <3>1, <3>2 DEF Below
  <2>3. d = Pre(h, Len(d))
    BY <1>a, <2>2, BelowFacts
  <2> QED BY <1>a, <2>3
<1>10. s \in 0..Len(h) /\ s + Len(kept) <= Len(h) /\ c \in 0..Len(h)
       /\ c + Len(r) <= Len(h) /\ c + Len(r) = p + n
  <2>1. Len(kept) = b /\ Len(r) = n - k + 1
    BY <1>5, <1>8
  <2>2. /\ p \in Nat /\ s \in Nat /\ c = p + k - 1 /\ s <= p
        /\ Len(h) = p + Len(e)
    BY <1>a
  <2> QED BY <1>0, <1>1, <1>3, <2>1, <2>2
<1>11. d \o kept = Pre(h, c)
  <2>1. Pre(h, s) \o kept = Pre(h, s + Len(kept))
    BY <1>a, <1>5, <1>6, <1>10, Glue
  <2> QED BY <1>a, <1>3, <1>5, <1>9, <2>1
<1>12. Pre(h, c) \o r = Pre(h, p + n)
  <2>1. Pre(h, c) \o r = Pre(h, c + Len(r))
    BY <1>a, <1>8, <1>10, Glue
  <2> QED BY <1>a, <1>10, <2>1
<1>13. (d \o kept) \o r = d \o (kept \o r)
  <2>1. d \in Seq(Entry) /\ kept \in Seq(Entry) /\ r \in Seq(Entry)
    BY <1>a, <1>5, <1>8
  <2> QED BY <2>1, Associative, Zenon
<1> QED BY <1>a, <1>3, <1>4, <1>7, <1>11, <1>12, <1>13 DEF Pre, Joined

\* The k-th entry of m is the first one missing: the logs have nothing in
\* common beyond it, and the entries from it up to any later one make the log
\* of i a prefix of h.
Replaces(H, h, i, m, k) ==
    /\ k \in 1..Len(m.entries) /\ ~Below(h, FullLog(i))
    /\ \A p \in H : Below(p, h) /\ Below(p, FullLog(i))
                       => Len(p) <= m.prevLogIndex + k - 1
    /\ \A n \in (k - 1)..Len(m.entries) :
          snap[i].data \o (Kept(i, m, k) \o SubSeq(m.entries, k, n))
             = Pre(h, m.prevLogIndex + n)

\* What HandleAppendEntries leaves of a log, at its end and at every point at
\* which it may be interrupted, when some entry is missing: a prefix of the
\* leader's log that has all that the two logs had in common.
LEMMA AppendEffect ==
    ASSUME TypeInv, VoteInv, NodeInv, NEW H, NEW A, HistoryInv(H),
           NEW i \in Server, FullLog(i) \in H,
           NEW m \in AppendEntriesArgs, Consistent(i, m),
           NEW h \in H, SliceOf(H, A, h, m), Missing(i, m) # {},
           NEW k, k = Min(Missing(i, m))
    PROVE  Replaces(H, h, i, m, k)
<1>0. /\ m.prevLogIndex \in Nat /\ m.entries \in Seq(Entry)
      /\ Len(m.entries) \in Nat /\ h \in Seq(Entry) /\ Len(h) \in Nat
      /\ Len(h) = m.prevLogIndex + Len(m.entries)
      /\ FullLog(i) \in Seq(Entry) /\ Len(FullLog(i)) = LastIndex(i)
      /\ LastIndex(i) \in Nat /\ snap[i].index \in Nat
      /\ m.prevLogIndex >= snap[i].index
  BY TermFacts, FullLogFacts, Facts DEF AppendEntriesArgs, SliceOf, Consistent
<1>1. /\ k \in 1..Len(m.entries) /\ k \in Nat /\ k >= 1 /\ k \in Missing(i, m)
      /\ \A y \in Missing(i, m) : k <= y
  <2>1. Missing(i, m) \in SUBSET Nat
    BY <1>0 DEF Missing
  <2>2. k \in Missing(i, m) /\ \A y \in Missing(i, m) : k <= y
    BY <2>1, MinNat
  <2>3. k \in 1..Len(m.entries)
    BY <2>2 DEF Missing
  <2> QED BY <1>0, <2>2, <2>3
<1>a. /\ m.prevLogIndex \in Nat /\ Len(m.entries) \in Nat /\ Len(h) \in Nat
      /\ Len(h) = m.prevLogIndex + Len(m.entries) /\ snap[i].index \in Nat
      /\ m.prevLogIndex >= snap[i].index
      /\ k \in Nat /\ k >= 1 /\ k <= Len(m.entries)
  BY <1>0, <1>1
<1>2. PICK c : c = m.prevLogIndex + k - 1
  OBVIOUS
<1>3. /\ c \in Nat /\ c >= snap[i].index /\ c <= Len(h) /\ c + 1 <= Len(h)
      /\ c + 1 = m.prevLogIndex + k
  BY <1>a, <1>2
<1>4. c <= Len(FullLog(i)) /\ Pre(FullLog(i), c) = Pre(h, c)
  <2>1. PICK j : j = k - 1
    OBVIOUS
  <2>2. j \in 0..Len(m.entries) /\ m.prevLogIndex + j = c /\ j < k /\ j \in Nat
    BY <1>a, <1>2, <2>1
  <2>3. j \notin Missing(i, m)
    BY <1>1, <2>2
  <2> QED BY <2>2, <2>3, AgreeUpTo
<1>5. ASSUME NEW p \in H, Below(p, h), Below(p, FullLog(i)) PROVE Len(p) <= c
  <2>1. Len(p) \in Nat /\ p \in Seq(Entry)
    BY TermFacts
  <2>2. SUFFICES ASSUME c + 1 <= Len(p) PROVE FALSE
    BY <1>3, <2>1
  <2>3. c + 1 \in 1..Len(p) /\ c + 1 <= Len(FullLog(i)) /\ c + 1 \in Nat
    BY <1>0, <1>3, <1>5, <2>1, <2>2 DEF Below
  <2>4. h[c + 1] = FullLog(i)[c + 1]
    BY <1>5, <2>3 DEF Below
  <2>5. m.entries[k] = h[c + 1]
    BY <1>1, <1>3 DEF SliceOf
  <2>6. TermAt(i, c + 1) = FullLog(i)[c + 1].term
    <3>1. c + 1 >= 1 /\ snap[i].index <= c + 1 /\ c + 1 <= LastIndex(i)
      BY <1>0, <1>3, <2>3
    <3> QED BY <2>3, <3>1, TermAtFacts
  <2>7. c + 1 > LastIndex(i) \/ TermAt(i, c + 1) # m.entries[k].term
    BY <1>1, <1>3 DEF Missing
  <2> QED BY <1>0, <2>3, <2>4, <2>5, <2>6, <2>7
<1>6. ~Below(h, FullLog(i))
  <2>1. Below(h, h)
    BY <1>0, BelowFacts
  <2> QED BY <1>0, <1>3, <1>5, <2>1
<1>7. ASSUME NEW n \in (k - 1)..Len(m.entries)
      PROVE  snap[i].data \o (Kept(i, m, k) \o SubSeq(m.entries, k, n))
                = Pre(h, m.prevLogIndex + n)
  <2>1. /\ snap[i].data \in Seq(Entry) /\ Len(snap[i].data) = snap[i].index
        /\ log[i] \in Seq(Entry) /\ Len(log[i]) \in Nat
        /\ Len(FullLog(i)) = snap[i].index + Len(log[i])
        /\ \A x \in 1..snap[i].index : snap[i].data[x] = FullLog(i)[x]
        /\ \A x \in 1..Len(log[i]) : log[i][x] = FullLog(i)[snap[i].index + x]
    BY FullLogFacts, Facts
  <2>2. \A x \in 1..c : FullLog(i)[x] = h[x]
    <3>1. c \in 0..Len(h) /\ c \in 0..Len(FullLog(i))
      BY <1>0, <1>3, <1>4
    <3>2. /\ \A x \in 1..c : Pre(h, c)[x] = h[x]
          /\ \A x \in 1..c : Pre(FullLog(i), c)[x] = FullLog(i)[x]
      BY <1>0, <3>1, PreFacts
    <3> QED BY <1>4, <3>2
  <2>3. c <= snap[i].index + Len(log[i])
    BY <1>4, <2>1
  <2>4. \A x \in 1..Len(m.entries) : m.entries[x] = h[m.prevLogIndex + x]
    BY DEF SliceOf
  <2>5. snap[i].data \o (SubSeq(log[i], 1, m.prevLogIndex + k - 1 - snap[i].index)
                            \o SubSeq(m.entries, k, n))
           = SubSeq(h, 1, m.prevLogIndex + n)
    <3>1. PICK f : f = FullLog(i)
      OBVIOUS
    <3>2. /\ \A x \in 1..snap[i].index : snap[i].data[x] = f[x]
          /\ \A x \in 1..Len(log[i]) : log[i][x] = f[snap[i].index + x]
          /\ \A x \in 1..c : f[x] = h[x]
      BY <2>1, <2>2, <3>1
    <3>3. /\ m.prevLogIndex \in Nat /\ snap[i].index \in Nat
          /\ h \in Seq(Entry) /\ m.entries \in Seq(Entry)
          /\ Len(h) = m.prevLogIndex + Len(m.entries)
          /\ snap[i].index <= m.prevLogIndex
          /\ snap[i].data \in Seq(Entry) /\ Len(snap[i].data) = snap[i].index
          /\ log[i] \in Seq(Entry)
      BY <1>0, <1>a, <2>1
    <3>4. PICK d : d = snap[i].data
      OBVIOUS
    <3>5. PICK l : l = log[i]
      OBVIOUS
    <3>6. PICK e : e = m.entries
      OBVIOUS
    <3>7. PICK p : p = m.prevLogIndex
      OBVIOUS
    <3>8. PICK s : s = snap[i].index
      OBVIOUS
    <3>9. /\ h \in Seq(Entry) /\ d \in Seq(Entry) /\ l \in Seq(Entry)
          /\ e \in Seq(Entry) /\ p \in Nat /\ s \in Nat
          /\ k \in 1..Len(e) /\ n \in (k - 1)..Len(e)
      BY <1>1, <3>3, <3>4, <3>5, <3>6, <3>7, <3>8
    <3>10. /\ c = p + k - 1 /\ s <= p /\ Len(d) = s /\ Len(h) = p + Len(e)
           /\ c <= s + Len(l)
      BY <1>2, <2>3, <3>3, <3>4, <3>5, <3>6, <3>7, <3>8
    <3>11. /\ \A x \in 1..s : d[x] = f[x]
           /\ \A x \in 1..Len(l) : l[x] = f[s + x]
           /\ \A x \in 1..c : f[x] = h[x]
           /\ \A x \in 1..Len(e) : e[x] = h[p + x]
      BY <2>4, <3>2, <3>4, <3>5, <3>6, <3>7, <3>8
    <3>12. Splice(h, d, l, e, f, p, s, k, n, c)
      BY <3>9, <3>10, <3>11 DEF Splice
    <3>13. Joined(h, d, l, e, p, s, k, n)
      BY <3>12, Spliced, Zenon
    <3> QED BY <3>4, <3>5, <3>6, <3>7, <3>8, <3>13 DEF Joined, Pre
  <2> QED BY <2>5 DEF Kept, Pre
<1>8. \A p \in H : Below(p, h) /\ Below(p, FullLog(i))
                      => Len(p) <= m.prevLogIndex + k - 1
  BY <1>2, <1>5
<1> QED BY <1>1, <1>6, <1>7, <1>8 DEF Replaces

\* A log is below every log that goes on from it.
LEMMA ConcatBelow ==
    ASSUME NEW f \in Seq(Entry), NEW r \in Seq(Entry)
    PROVE  Below(f, f \o r)
<1>1. Len(f) \in Nat /\ Len(r) \in Nat
  BY LenProperties
<1>2. /\ Len(f \o r) = Len(f) + Len(r)
      /\ \A n \in 1..Len(f) + Len(r) :
            (f \o r)[n] = IF n <= Len(f) THEN f[n] ELSE r[n - Len(f)]
  BY ConcatProperties
<1>3. PICK g : g = f \o r
  OBVIOUS
<1>4. Len(f) <= Len(g)
  BY <1>1, <1>2, <1>3
<1>5. \A n \in 1..Len(f) : n \in 1..Len(f) + Len(r) /\ n <= Len(f)
  BY <1>1
<1>6. \A n \in 1..Len(f) : g[n] = f[n]
  BY <1>2, <1>3, <1>5
<1> QED BY <1>3, <1>4, <1>6 DEF Below

\* Appending to the log is appending to the whole log.
LEMMA AppendTail ==
    ASSUME NEW d \in Seq(Entry), NEW l \in Seq(Entry), NEW e \in Entry
    PROVE  d \o Append(l, e) = Append(d \o l, e)
OBVIOUS

\* Cutting the log at n and keeping what is below elsewhere loses nothing.
LEMMA TailFacts ==
    ASSUME TypeInv, VoteInv, NodeInv, NEW i \in Server, NEW n \in Nat,
           snap[i].index <= n, n <= LastIndex(i)
    PROVE  Pre(FullLog(i), n) \o From(i, n + 1) = FullLog(i)
<1>1. PICK a : a = n + 1
  OBVIOUS
<1>2. /\ FullLog(i) \in Seq(Entry) /\ Len(FullLog(i)) = LastIndex(i)
      /\ LastIndex(i) \in Nat /\ snap[i].index \in Nat
  BY FullLogFacts, Facts
<1>3. a \in Nat /\ a > snap[i].index /\ a <= LastIndex(i) + 1 /\ a - 1 = n
  BY <1>1, <1>2
<1>4. /\ From(i, a) \in Seq(Entry) /\ Len(From(i, a)) = LastIndex(i) + 1 - a
      /\ \A k \in 1..Len(From(i, a)) : From(i, a)[k] = FullLog(i)[a - 1 + k]
  BY <1>3, FromFacts
<1>5. PICK r : r = From(i, a)
  OBVIOUS
<1>6. /\ r \in Seq(Entry) /\ n + Len(r) = Len(FullLog(i))
      /\ \A k \in 1..Len(r) : r[k] = FullLog(i)[n + k]
  <2>1. r \in Seq(Entry) /\ \A k \in 1..Len(r) : r[k] = FullLog(i)[n + k]
    BY <1>3, <1>4, <1>5
  <2>2. Len(r) = LastIndex(i) + 1 - a
    BY <1>4, <1>5
  <2>3. n + Len(r) = LastIndex(i)
    BY <1>1, <1>2, <2>2
  <2> QED BY <1>2, <2>1, <2>3
<1>7. n \in 0..Len(FullLog(i)) /\ n + Len(r) <= Len(FullLog(i))
  BY <1>2, <1>6
<1>8. Pre(FullLog(i), n) \o r = Pre(FullLog(i), n + Len(r))
  BY <1>2, <1>6, <1>7, Glue
<1>9. Pre(FullLog(i), Len(FullLog(i))) = FullLog(i)
  BY <1>2, PreSteps
<1> QED BY <1>1, <1>5, <1>6, <1>8, <1>9

\* The terms of a prefix are at most the term of the log.
LEMMA BelowTerm ==
    ASSUME NEW H, HistoryInv(H), NEW f \in H, NEW h \in H, Below(f, h)
    PROVE  LastTerm(f) <= LastTerm(h)
<1>1. /\ f \in Seq(Entry) /\ Len(f) \in Nat /\ Len(h) \in Nat
      /\ LastTerm(f) \in Nat /\ LastTerm(h) \in Nat
      /\ \A n \in 1..Len(h) : h[n].term <= LastTerm(h)
  BY TermFacts
<1>2. CASE f = <<>>
  BY <1>1, <1>2 DEF LastTerm
<1>3. CASE f # <<>>
  <2>1. Len(f) \in 1..Len(h) /\ Len(f) \in 1..Len(f)
    <3>1. Len(f) # 0
      BY <1>1, <1>3, EmptySeq
    <3> QED BY <1>1, <3>1 DEF Below
  <2>2. f[Len(f)] = h[Len(f)]
    BY <2>1 DEF Below
  <2> QED BY <1>1, <1>3, <2>1, <2>2 DEF LastTerm
<1> QED BY <1>2, <1>3

\* raftlog.InstallSnapshot either finds the snapshot in the log, and changes
\* nothing but where the log is cut, or leaves the snapshot alone.
LEMMA InstallEffect ==
    ASSUME TypeInv, VoteInv, NodeInv, NEW H, HistoryInv(H),
           NEW i \in Server, FullLog(i) \in H,
           NEW s \in Snapshot, s.data \in H,
           Len(s.data) = s.index, s.term = LastTerm(s.data),
           s.index > snap[i].index
    PROVE  \/ s.data \o LogAfterInstall(i, s) = FullLog(i)
           \/ /\ s.data \o LogAfterInstall(i, s) = s.data
              /\ ~Below(s.data, FullLog(i))
<1>0. /\ s.index \in Nat /\ s.data \in Seq(Entry) /\ snap[i].index \in Nat
      /\ FullLog(i) \in Seq(Entry) /\ Len(FullLog(i)) = LastIndex(i)
      /\ LastIndex(i) \in Nat
  BY FullLogFacts, Facts DEF Snapshot
<1>1. s.index >= 1 /\ s.index \in 1..Len(s.data) /\ s.data # <<>>
  <2>1. s.index >= 1
    BY <1>0
  <2> QED BY <1>0, <2>1, EmptySeq
<1>2. s.term = s.data[s.index].term
  BY <1>1 DEF LastTerm
<1>3. HasEntry(i, s.index) => /\ s.index \in 1..Len(FullLog(i))
                              /\ At(i, s.index) = FullLog(i)[s.index]
  BY <1>0, TermAtFacts
<1>4. CASE HasEntry(i, s.index) /\ At(i, s.index).term = s.term
  <2>1. s.data[s.index].term = FullLog(i)[s.index].term
    BY <1>2, <1>3, <1>4
  <2>2. s.index <= Len(FullLog(i))
    BY <1>0, <1>3, <1>4
  <2>3. Pre(s.data, s.index) = Pre(FullLog(i), s.index)
    BY <1>1, <2>1, <2>2, Matching
  <2>4. Pre(s.data, s.index) = s.data
    BY <1>0, PreSteps
  <2>5. Pre(FullLog(i), s.index) \o From(i, s.index + 1) = FullLog(i)
    <3>1. snap[i].index <= s.index /\ s.index <= LastIndex(i)
      BY <1>0, <2>2
    <3> QED BY <1>0, <3>1, TailFacts
  <2>6. LogAfterInstall(i, s) = From(i, s.index + 1)
    BY <1>4 DEF LogAfterInstall
  <2> QED BY <2>3, <2>4, <2>5, <2>6
<1>5. CASE ~(HasEntry(i, s.index) /\ At(i, s.index).term = s.term)
  <2>1. LogAfterInstall(i, s) = <<>>
    BY <1>5 DEF LogAfterInstall
  <2>2. s.data \o <<>> = s.data
    BY <1>0, ConcatEmptySeq
  <2>3. ASSUME Below(s.data, FullLog(i)) PROVE FALSE
    <3>1. s.index <= LastIndex(i) /\ s.data[s.index] = FullLog(i)[s.index]
      BY <1>0, <1>1, <2>3 DEF Below
    <3>2. HasEntry(i, s.index)
      BY <3>1 DEF HasEntry
    <3>3. At(i, s.index).term = s.term
      BY <1>2, <1>3, <3>1, <3>2
    <3> QED BY <1>5, <3>2, <3>3
  <2> QED BY <2>1, <2>2, <2>3
<1> QED BY <1>4, <1>5

\* The apply loop finds the entry it looks for, the next of the whole log.
LEMMA ApplyEffect ==
    ASSUME TypeInv, VoteInv, NodeInv, NEW i \in Server,
           sm[i] = Pre(FullLog(i), lastApplied[i]),
           commitIndex[i] <= Len(FullLog(i)), lastApplied[i] < commitIndex[i],
           NEW n, n = lastApplied[i] + 1
    PROVE  /\ HasEntry(i, n) /\ n \in 1..Len(FullLog(i))
           /\ Append(sm[i], At(i, n)) = Pre(FullLog(i), n)
           /\ TermAt(i, n) = LastTerm(Pre(FullLog(i), n))
           /\ Pre(FullLog(i), n) \o From(i, n + 1) = FullLog(i)
<1>0. /\ FullLog(i) \in Seq(Entry) /\ Len(FullLog(i)) = LastIndex(i)
      /\ LastIndex(i) \in Nat /\ snap[i].index \in Nat /\ lastApplied[i] \in Nat
      /\ commitIndex[i] \in Nat /\ snap[i].index <= lastApplied[i]
  BY FullLogFacts, Facts
<1>1. /\ n \in Nat /\ n > snap[i].index /\ n <= LastIndex(i) /\ n >= 1
      /\ n - 1 = lastApplied[i]
  BY <1>0
<1>2. HasEntry(i, n)
  BY <1>1 DEF HasEntry
<1>3. n \in 1..Len(FullLog(i)) /\ At(i, n) = FullLog(i)[n]
  BY <1>1, <1>2, TermAtFacts
<1>4. Append(Pre(FullLog(i), n - 1), FullLog(i)[n]) = Pre(FullLog(i), n)
  BY <1>0, <1>3, PreSteps
<1>5. TermAt(i, n) = FullLog(i)[n].term
  <2>1. snap[i].index <= n
    BY <1>0, <1>1
  <2> QED BY <1>1, <2>1, TermAtFacts
<1>6. LastTerm(Pre(FullLog(i), n)) = FullLog(i)[n].term
  <2>1. n \in 0..Len(FullLog(i))
    BY <1>0, <1>1
  <2> QED BY <1>0, <1>1, <2>1, PreFacts
<1>7. Pre(FullLog(i), n) \o From(i, n + 1) = FullLog(i)
  <2>1. snap[i].index <= n
    BY <1>0, <1>1
  <2> QED BY <1>1, <2>1, TailFacts
<1> QED BY <1>1, <1>2, <1>3, <1>4, <1>5, <1>6, <1>7

-----------------------------------------------------------------------------
(* Steps that leave every log as it is *)

\* Logs that only change as Moves allows keep their terms known on disk.
LEMMA NodesStay ==
    ASSUME TypeInv, TypeInv', VoteInv, VoteInv', NEW H, NEW A,
           NEW q \in Server, NEW K, SafetyInv(H, A),
           Moves(Logs, Terms, H, Logs', Terms', q, K),
           \A j \in Server : /\ Len(snap'[j].data) = snap'[j].index
                             /\ snap'[j].term = LastTerm(snap'[j].data)
    PROVE  NodeInv'
<1>0. /\ HistoryInv(H) /\ NodeInv /\ Logs \in [Server -> H]
      /\ Logs' \in [Server -> H]
  BY DEF SafetyInv, LogsInv, Moves
<1>1. ASSUME NEW j \in Server PROVE LastTerm(FullLog(j)') <= hard'[j].term
  <2>1. /\ Logs[j] = FullLog(j) /\ Logs'[j] = FullLog(j)'
        /\ Terms[j] = hard[j].term /\ Terms'[j] = hard'[j].term
        /\ hard[j].term \in Nat /\ hard'[j].term \in Nat
    BY Facts, FactsAfter
  <2>2. FullLog(j)' \in H /\ FullLog(j) \in H /\ LastTerm(FullLog(j)') \in Nat
        /\ LastTerm(FullLog(j)) \in Nat
    <3>1. FullLog(j)' \in H /\ FullLog(j) \in H
      BY <1>0, <2>1
    <3> QED BY <1>0, <3>1, TermFacts
  <2>3. CASE FullLog(j)' = FullLog(j)
    <3>1. LastTerm(FullLog(j)) <= hard[j].term /\ hard[j].term <= hard'[j].term
      BY <1>0, <2>1 DEF NodeInv, Moves
    <3> QED BY <2>1, <2>2, <2>3, <3>1
  <2>4. CASE FullLog(j)' # FullLog(j)
    <3>1. j = q
      BY <2>1, <2>4 DEF Moves
    <3>2. PICK l \in H : Adopted(H, Logs[q], Logs'[q], l, Terms'[q])
      BY <2>1, <2>4, <3>1 DEF Moves
    <3>3. LastTerm(l) = hard'[j].term /\ Below(FullLog(j)', l)
      BY <2>1, <3>1, <3>2 DEF Adopted
    <3> QED BY <1>0, <2>2, <3>3, BelowTerm
  <2> QED BY <2>3, <2>4
<1> QED BY <1>1 DEF NodeInv

\* A step that leaves logs and snapshots alone.
LEMMA SameLogs ==
    ASSUME TypeInv, TypeInv', VoteInv, VoteInv', NEW H, NEW A,
           SafetyInv(H, A), NEW q \in Server, UNCHANGED logVars, SteadyRoles,
           NewVotesOk(H, A), NewMatchesOk(H, A), CommitInv(H, A)',
           \A m \in msgs' \ msgs : MessageOk(H, A, m)'
    PROVE  SafetyInv(H, A)'
<1>1. Moves(Logs, Terms, H, Logs', Terms', q, {})
  <2>1. \A j \in Server : FullLog(j)' = FullLog(j)
    BY DEF logVars, FullLog
  <2> QED BY <2>1, LogsStay DEF SteadyRoles
<1>2. NodeInv'
  <2>1. \A j \in Server : /\ Len(snap'[j].data) = snap'[j].index
                          /\ snap'[j].term = LastTerm(snap'[j].data)
    BY DEF logVars, SafetyInv, NodeInv
  <2> QED BY <1>1, <2>1, NodesStay
<1>3. A \cup {} = A
  OBVIOUS
<1>4. SafetyInv(H, A \cup {})'
  BY <1>1, <1>2, <1>3, SteadyStep
<1> QED BY <1>3, <1>4

\* A step that, moreover, neither commits nor applies anything.
LEMMA Quiet ==
    ASSUME TypeInv, TypeInv', VoteInv, VoteInv', NEW H, NEW A,
           SafetyInv(H, A), NEW q \in Server, UNCHANGED logVars, SteadyRoles,
           UNCHANGED <<commitIndex, lastApplied, sm, committed>>,
           NewVotesOk(H, A), NewMatchesOk(H, A),
           \A m \in msgs' \ msgs : MessageOk(H, A, m)'
    PROVE  SafetyInv(H, A)'
<1>1. Moves(Logs, Terms, H, Logs', Terms', q, {})
  <2>1. \A j \in Server : FullLog(j)' = FullLog(j)
    BY DEF logVars, FullLog
  <2> QED BY <2>1, LogsStay DEF SteadyRoles
<1>2. A \cup {} = A
  OBVIOUS
<1>3. CommitInv(H, A \cup {})'
  BY <1>1, CommitQuiet
<1>4. CommitInv(H, A)'
  BY <1>2, <1>3
<1> QED BY <1>4, SameLogs

\* Votes and matches that did not change.
LEMMA NothingNew ==
    ASSUME NEW H, NEW A
    PROVE  /\ votes' = votes => NewVotesOk(H, A)
           /\ matchIndex' = matchIndex => NewMatchesOk(H, A)
BY DEF NewVotesOk, NewMatchesOk

\* Becoming a follower is steady, and moves the term on disk up to t unless
\* the node is closed.
LEMMA FollowRoles ==
    ASSUME TypeInv, TypeInv', VoteInv, NEW i \in Server, NEW t \in Nat,
           BecomeFollower(i, t), UNCHANGED <<votes, elections>>,
           \A j \in Server : snap[j].index <= snap'[j].index,
           \A j \in Server \ {i} : FullLog(j)' = FullLog(j)
    PROVE  /\ SteadyRoles
           /\ ~closed[i] /\ currentTerm[i] <= t => hard'[i].term = t
           /\ state'[i] = Follower
<1>0. /\ currentTerm \in [Server -> Nat] /\ state \in [Server -> {Follower, Candidate, Leader}]
      /\ hard \in [Server -> [term : Nat, votedFor : Server \cup {Nil}]]
  BY DEF TypeInv, TypeOK
<1>1. /\ hard[i].term <= currentTerm[i] /\ currentTerm[i] \in Nat
      /\ hard[i].term \in Nat
      /\ closed[i] \/ hard[i].term = currentTerm[i]
  BY Facts DEF VoteInv, HardInv, TypeInv, TypeOK
<1>2. state'[i] = Follower /\ \A j \in Server \ {i} : state'[j] = state[j]
  BY <1>0 DEF BecomeFollower
<1>3. /\ \A j \in Server \ {i} : /\ currentTerm'[j] = currentTerm[j]
                                 /\ hard'[j] = hard[j]
      /\ hard[i].term <= hard'[i].term
      /\ ~closed[i] /\ currentTerm[i] <= t => hard'[i].term = t
  <2>1. CASE t > currentTerm[i]
    <3>1. currentTerm' = [currentTerm EXCEPT ![i] = t] /\ Persist(i, t, Nil)
      BY <2>1 DEF BecomeFollower
    <3>2. CASE closed[i]
      <4>1. hard' = hard
        BY <3>1, <3>2 DEF Persist
      <4> QED BY <1>0, <1>1, <3>1, <3>2, <4>1
    <3>3. CASE ~closed[i]
      <4>1. hard' = [hard EXCEPT ![i] = [term |-> t, votedFor |-> Nil]]
        BY <3>1, <3>3 DEF Persist
      <4>2. hard'[i].term = t
        BY <1>0, <4>1
      <4> QED BY <1>0, <1>1, <2>1, <3>1, <4>1, <4>2
    <3> QED BY <3>2, <3>3
  <2>2. CASE ~(t > currentTerm[i])
    <3>1. currentTerm' = currentTerm /\ hard' = hard
      BY <2>2 DEF BecomeFollower, hardVars
    <3> QED BY <1>1, <2>2, <3>1
  <2> QED BY <2>1, <2>2
<1>4. \A j \in Server : hard[j].term <= hard'[j].term
  <2>1. \A j \in Server : hard[j].term \in Nat
    BY <1>0
  <2> QED BY <1>3, <2>1
<1> QED BY <1>2, <1>3, <1>4 DEF SteadyRoles

\* A step that keeps terms, votes, logs and roles is steady.
LEMMA SameRoles ==
    ASSUME TypeInv, UNCHANGED <<hardVars, logVars, state, votes, elections>>
    PROVE  SteadyRoles
<1>1. \A j \in Server : hard[j].term \in Nat /\ snap[j].index \in Nat
  BY DEF TypeInv, TypeOK, Snapshot
<1> QED BY <1>1 DEF SteadyRoles, hardVars, logVars, FullLog

\* A step that changes nothing but messages, nextIndex, a tally or closed.
LEMMA SafeIdle ==
    ASSUME TypeInv, TypeInv', VoteInv, VoteInv', NEW H, NEW A,
           SafetyInv(H, A), NEW i \in Server,
           UNCHANGED <<hardVars, logVars, state, matchIndex, commitIndex,
                       applyVars, ghostVars>>,
           \A m \in msgs' \ msgs : MessageOk(H, A, m)'
    PROVE  SafetyInv(H, A)'
<1>1. UNCHANGED <<hardVars, logVars, state, votes, elections>>
  BY DEF ghostVars
<1>2. SteadyRoles
  BY <1>1, SameRoles
<1>3. /\ UNCHANGED <<commitIndex, lastApplied, sm, committed>>
      /\ UNCHANGED logVars /\ votes' = votes /\ matchIndex' = matchIndex
  BY DEF ghostVars, applyVars
<1>4. NewVotesOk(H, A) /\ NewMatchesOk(H, A)
  BY <1>3, NothingNew
<1> QED BY <1>2, <1>3, <1>4, Quiet

\* A node that steps down, or hears from a leader, and leaves its log alone.
LEMMA SafeFollow ==
    ASSUME TypeInv, TypeInv', VoteInv, VoteInv', NEW H, NEW A,
           SafetyInv(H, A), NEW i \in Server, NEW t \in Nat,
           BecomeFollower(i, t),
           UNCHANGED <<logVars, matchIndex, commitIndex, applyVars, ghostVars>>,
           \A m \in msgs' \ msgs : MessageOk(H, A, m)'
    PROVE  SafetyInv(H, A)'
<1>1. SteadyRoles
  <2>1. UNCHANGED <<votes, elections>> /\ UNCHANGED <<log, snap>>
    BY DEF ghostVars, logVars
  <2>2. \A j \in Server : snap[j].index \in Nat
    BY DEF TypeInv, TypeOK, Snapshot
  <2>3. /\ \A j \in Server : snap[j].index <= snap'[j].index
        /\ \A j \in Server \ {i} : FullLog(j)' = FullLog(j)
    BY <2>1, <2>2 DEF FullLog
  <2> QED BY <2>1, <2>3, FollowRoles
<1>2. /\ UNCHANGED <<commitIndex, lastApplied, sm, committed>>
      /\ UNCHANGED logVars /\ votes' = votes /\ matchIndex' = matchIndex
  BY DEF ghostVars, applyVars
<1>3. NewVotesOk(H, A) /\ NewMatchesOk(H, A)
  BY <1>2, NothingNew
<1> QED BY <1>1, <1>2, <1>3, Quiet

\* Negative answers carry no obligation.
LEMMA PlainReplies ==
    ASSUME NEW H, NEW A, NEW m, NEW i, NEW t, NEW ci, NEW ct, NEW g
    PROVE  /\ MessageOk(H, A, VoteReply(m, i, t, g))'
           /\ MessageOk(H, A, AppendReply(m, i, t, FALSE, ci, ct))'
<1>1. MessageOk(H, A, VoteReply(m, i, t, g))'
  <2>1. VoteReply(m, i, t, g).type = "RequestVoteReply"
    BY DEF VoteReply
  <2> QED BY <2>1 DEF MessageOk
<1>2. MessageOk(H, A, AppendReply(m, i, t, FALSE, ci, ct))'
  <2>1. /\ AppendReply(m, i, t, FALSE, ci, ct).type = "AppendEntriesReply"
        /\ AppendReply(m, i, t, FALSE, ci, ct).success = FALSE
    BY DEF AppendReply
  <2> QED BY <2>1 DEF MessageOk
<1> QED BY <1>1, <1>2

\* The answer to a snapshot is for a snapshot its leader still has.
LEMMA SnapshotReplies ==
    ASSUME TypeInv, NEW H, NEW A, NEW A2, SteadyRoles, TypeInv',
           NEW m \in msgs, m.type = "InstallSnapshot", MessageOk(H, A, m),
           NEW i, NEW t
    PROVE  MessageOk(H, A2, SnapshotReply(m, i, t))'
<1>1. InstallOk(H, A, m) /\ m \in InstallSnapshotArgs
  BY MessageTypes DEF MessageOk, TypeInv
<1>2. /\ m.src \in Server /\ m.term \in Nat
      /\ m.snapshot.index \in Nat /\ snap[m.src].index \in Nat
      /\ snap'[m.src].index \in Nat
  <2>1. m.src \in Server /\ m.term \in Nat /\ m.snapshot \in Snapshot
    BY <1>1 DEF InstallSnapshotArgs
  <2> QED BY <2>1 DEF TypeInv, TypeOK, Snapshot
<1>3. Won(m.term, m.src)'
  BY <1>1 DEF InstallOk, Won, SteadyRoles
<1>4. state'[m.src] = Leader /\ currentTerm'[m.src] = m.term
         => m.snapshot.index <= snap'[m.src].index
  <2>1. state'[m.src] = Leader => state[m.src] = Leader
                               /\ currentTerm'[m.src] = currentTerm[m.src]
    BY <1>2 DEF SteadyRoles, Leader, Follower, Candidate
  <2>2. snap[m.src].index <= snap'[m.src].index
    BY <1>2 DEF SteadyRoles
  <2> QED BY <1>1, <1>2, <2>1, <2>2 DEF InstallOk
<1>5. PICK r : r = SnapshotReply(m, i, t)
  OBVIOUS
<1>6. /\ r.type = "InstallSnapshotReply" /\ r.dst = m.src /\ r.sentIn = m.term
      /\ r.match = m.snapshot.index
  BY <1>5 DEF SnapshotReply
<1>7. InstallReplyOk(r)'
  BY <1>3, <1>4, <1>6 DEF InstallReplyOk
<1>8. MessageOk(H, A2, r)'
  BY <1>6, <1>7 DEF MessageOk
<1> QED BY <1>5, <1>8

-----------------------------------------------------------------------------
(* Elections *)

\* startElection: the candidate has all it held itself.
LEMMA SafeStart ==
    ASSUME TypeInv, TypeInv', VoteInv, VoteInv', NEW H, NEW A,
           SafetyInv(H, A), NEW i \in Server, NEW Q \in SUBSET (Server \ {i}),
           StartElection(i, Q)
    PROVE  SafetyInv(H, A)'
<1> DEFINE t == currentTerm[i] + 1
<1>0. /\ currentTerm \in [Server -> Nat]
      /\ state \in [Server -> {Follower, Candidate, Leader}]
      /\ hard \in [Server -> [term : Nat, votedFor : Server \cup {Nil}]]
      /\ \A j \in Server : hard[j].term \in Nat /\ snap[j].index \in Nat
      /\ hard[i].term <= currentTerm[i]
  BY DEF TypeInv, TypeOK, Snapshot, VoteInv, HardInv
<1>1. /\ state' = [state EXCEPT ![i] = Candidate]
      /\ currentTerm' = [currentTerm EXCEPT ![i] = t]
      /\ hard' = [hard EXCEPT ![i] = [term |-> t, votedFor |-> i]]
      /\ votes' = votes \cup {[term |-> t, voter |-> i, candidate |-> i]}
      /\ UNCHANGED <<log, snap, matchIndex, commitIndex, lastApplied, sm,
                     elections, committed>>
  BY DEF StartElection, Persist, logVars, applyVars
<1>2. msgs' = msgs \cup
         {[type |-> "RequestVote", src |-> i, dst |-> p, term |-> t,
           lastLogIndex |-> LastIndex(i), lastLogTerm |-> LastLogTerm(i)]
              : p \in Q}
  BY DEF StartElection, Send
<1>3. /\ t \in Nat /\ hard[i].term < t /\ hard'[i].term = t
      /\ currentTerm'[i] = t /\ state'[i] = Candidate
      /\ \A j \in Server \ {i} : /\ hard'[j] = hard[j] /\ state'[j] = state[j]
                                 /\ currentTerm'[j] = currentTerm[j]
      /\ \A j \in Server : FullLog(j)' = FullLog(j)
  BY <1>0, <1>1 DEF FullLog
<1> HIDE DEF t
<1>4. SteadyRoles
  <2>1. \A j \in Server : hard[j].term <= hard'[j].term
    BY <1>0, <1>3
  <2>2. \A j \in Server : snap[j].index <= snap'[j].index
    BY <1>0, <1>1
  <2>3. elections' = elections /\ votes \subseteq votes'
    BY <1>1
  <2>4. ASSUME NEW j \in Server
        PROVE  \/ state'[j] = state[j] /\ currentTerm'[j] = currentTerm[j]
               \/ /\ state'[j] = Candidate
                  /\ hard[j].term < currentTerm'[j]
                  /\ hard'[j].term = currentTerm'[j]
    BY <1>3
  <2> QED BY <1>3, <2>1, <2>2, <2>3, <2>4 DEF SteadyRoles
<1>5. NewVotesOk(H, A)
  <2>1. SUFFICES ASSUME NEW v \in votes' \ votes
                 PROVE  /\ v.term <= hard'[v.candidate].term
                        /\ \A p \in H : <<v.voter, p>> \in A =>
                              Below(p, FullLog(v.candidate)) \/ Doomed(Terms, A, p)
    BY DEF NewVotesOk
  <2>2. v.term = t /\ v.voter = i /\ v.candidate = i
    BY <1>1, <2>1
  <2>3. AckInv(Logs, Terms, H, A) /\ Logs[i] = FullLog(i)
    BY DEF SafetyInv, LogsInv, Logs
  <2>4. \A p \in H : <<i, p>> \in A => Below(p, FullLog(i)) \/ Doomed(Terms, A, p)
    BY <2>3 DEF AckInv
  <2> QED BY <1>3, <2>2, <2>4
<1>6. ASSUME NEW m \in msgs' \ msgs PROVE MessageOk(H, A, m)'
  <2>1. /\ m.type = "RequestVote" /\ m.src = i /\ m.term = t
        /\ m.lastLogIndex = LastIndex(i) /\ m.lastLogTerm = LastLogTerm(i)
    BY <1>2, <1>6
  <2>2. /\ LastIndex(i) = Len(FullLog(i)) /\ LastLogTerm(i) = LastTerm(FullLog(i))
    BY FullLogFacts, TermAtFacts DEF SafetyInv
  <2>3. RequestOk(m)'
    BY <1>3, <2>1, <2>2 DEF RequestOk
  <2> QED BY <2>1, <2>3 DEF MessageOk
<1>7. NewMatchesOk(H, A) /\ UNCHANGED logVars
      /\ UNCHANGED <<commitIndex, lastApplied, sm, committed>>
  BY <1>1, NothingNew DEF logVars
<1> QED BY <1>4, <1>5, <1>6, <1>7, Quiet

\* A voter only grants its vote to a candidate that has what it held itself.
LEMMA GrantSafe ==
    ASSUME TypeInv, VoteInv, NEW H, NEW A, SafetyInv(H, A),
           NEW i \in Server, NEW j \in Server,
           \/ LastTerm(FullLog(j)) > LastTerm(FullLog(i))
           \/ /\ LastTerm(FullLog(j)) = LastTerm(FullLog(i))
              /\ Len(FullLog(j)) >= Len(FullLog(i)),
           NEW p \in H, <<i, p>> \in A
    PROVE  Below(p, FullLog(j)) \/ Doomed(Terms, A, p)
<1>0. /\ AckInv(Logs, Terms, H, A) /\ HistoryInv(H) /\ OrderInv(Terms, H, A)
      /\ Logs[i] = FullLog(i) /\ FullLog(i) \in H /\ FullLog(j) \in H
  BY DEF SafetyInv, LogsInv, Logs
<1>1. /\ p \in Seq(Entry) /\ FullLog(i) \in Seq(Entry) /\ FullLog(j) \in Seq(Entry)
      /\ LastTerm(p) \in Nat /\ LastTerm(FullLog(i)) \in Nat
      /\ LastTerm(FullLog(j)) \in Nat
      /\ Len(FullLog(i)) \in Nat /\ Len(FullLog(j)) \in Nat
  BY <1>0, TermFacts
<1>2. SUFFICES ASSUME Below(p, FullLog(i))
               PROVE  Below(p, FullLog(j)) \/ Doomed(Terms, A, p)
  BY <1>0 DEF AckInv
<1>3. CASE LastTerm(FullLog(j)) > LastTerm(FullLog(i))
  <2>1. LastTerm(p) <= LastTerm(FullLog(i))
    BY <1>0, <1>2, BelowTerm
  <2>2. LastTerm(FullLog(j)) > LastTerm(p)
    BY <1>1, <1>3, <2>1
  <2> QED BY <1>0, <2>2 DEF OrderInv
<1>4. CASE /\ LastTerm(FullLog(j)) = LastTerm(FullLog(i))
           /\ Len(FullLog(j)) >= Len(FullLog(i))
  <2>1. Below(FullLog(i), FullLog(j)) \/ Below(FullLog(j), FullLog(i))
    BY <1>0, <1>4 DEF HistoryInv
  <2>2. Below(FullLog(i), FullLog(j))
    <3>1. CASE Below(FullLog(j), FullLog(i))
      <4>1. FullLog(j) = FullLog(i)
        BY <1>1, <1>4, <3>1, BelowFacts
      <4> QED BY <3>1, <4>1
    <3> QED BY <2>1, <3>1
  <2> QED BY <1>1, <1>2, <2>2, BelowFacts
<1> QED BY <1>3, <1>4

\* HandleRequestVote.
LEMMA SafeRequestVote ==
    ASSUME TypeInv, TypeInv', VoteInv, VoteInv', NEW H, NEW A,
           SafetyInv(H, A), NEW i \in Server, NEW m \in msgs,
           HandleRequestVote(i, m)
    PROVE  SafetyInv(H, A)'
<1>0. /\ currentTerm \in [Server -> Nat]
      /\ state \in [Server -> {Follower, Candidate, Leader}]
      /\ hard \in [Server -> [term : Nat, votedFor : Server \cup {Nil}]]
      /\ \A j \in Server : hard[j].term \in Nat /\ snap[j].index \in Nat
      /\ hard[i].term <= currentTerm[i]
      /\ closed[i] \/ hard[i].term = currentTerm[i]
  BY DEF TypeInv, TypeOK, Snapshot, VoteInv, HardInv
<1>1. /\ m.type = "RequestVote" /\ m.term \in Nat /\ m.src \in Server
  BY MessageTypes DEF TypeInv, RequestVoteArgs, HandleRequestVote
<1>2. /\ UNCHANGED <<log, snap, matchIndex, commitIndex, lastApplied, sm,
                     elections, committed>>
      /\ UNCHANGED logVars
  BY DEF HandleRequestVote, logVars, applyVars, leaderVars
<1>3. CASE Refuses(i, m)
  <2>1. /\ UNCHANGED <<hardVars, state, votes>>
        /\ msgs' = (msgs \ {m}) \cup {VoteReply(m, i, currentTerm[i], FALSE)}
    BY <1>3 DEF HandleRequestVote, Reply
  <2>2. \A r \in msgs' \ msgs : MessageOk(H, A, r)'
    BY <2>1, PlainReplies
  <2>3. UNCHANGED <<hardVars, logVars, state, matchIndex, commitIndex,
                    applyVars, ghostVars>>
    BY <1>2, <2>1 DEF applyVars, ghostVars
  <2> QED BY <2>2, <2>3, SafeIdle
<1>4. CASE ~Refuses(i, m)
  <2>1. ~closed[i] /\ m.term >= currentTerm[i]
    BY <1>0, <1>1, <1>4 DEF Refuses
  <2>a. m.term > currentTerm[i] \/ m.term = currentTerm[i]
    <3>1. currentTerm[i] \in Nat /\ m.term \in Nat /\ m.term >= currentTerm[i]
      BY <1>0, <1>1, <2>1
    <3> QED BY <3>1
  <2>2. PICK v : /\ currentTerm' = [currentTerm EXCEPT ![i] = m.term]
                 /\ IF m.term > currentTerm[i] \/ Grants(i, m)
                    THEN Persist(i, m.term, v) ELSE UNCHANGED hard
                 /\ state' = [state EXCEPT ![i] =
                       IF m.term > currentTerm[i] THEN Follower ELSE @]
                 /\ votes' = IF Grants(i, m)
                             THEN votes \cup {[term |-> m.term, voter |-> i,
                                               candidate |-> m.src]}
                             ELSE votes
                 /\ Reply(m, VoteReply(m, i, m.term, Grants(i, m)))
    BY <1>4 DEF HandleRequestVote
  <2>3. /\ currentTerm'[i] = m.term
        /\ \A j \in Server \ {i} : /\ hard'[j] = hard[j] /\ state'[j] = state[j]
                                   /\ currentTerm'[j] = currentTerm[j]
        /\ hard'[i].term = m.term
        /\ state'[i] # Follower => /\ state'[i] = state[i]
                                   /\ currentTerm'[i] = currentTerm[i]
    <3>1. currentTerm'[i] = m.term
      BY <1>0, <2>2
    <3>2. \A j \in Server \ {i} : /\ state'[j] = state[j]
                                  /\ currentTerm'[j] = currentTerm[j]
      BY <1>0, <2>2
    <3>3. /\ hard'[i].term = m.term
          /\ \A j \in Server \ {i} : hard'[j] = hard[j]
      <4>1. CASE m.term > currentTerm[i] \/ Grants(i, m)
        <5>1. hard' = [hard EXCEPT ![i] = [term |-> m.term, votedFor |-> v]]
          BY <2>1, <2>2, <4>1 DEF Persist
        <5> QED BY <1>0, <5>1
      <4>2. CASE ~(m.term > currentTerm[i] \/ Grants(i, m))
        <5>1. hard' = hard
          BY <2>2, <4>2
        <5> QED BY <1>0, <2>1, <2>a, <4>2, <5>1
      <4> QED BY <4>1, <4>2
    <3>4. state'[i] # Follower => /\ state'[i] = state[i]
                                  /\ currentTerm'[i] = currentTerm[i]
      <4>1. CASE m.term > currentTerm[i]
        BY <1>0, <2>2, <4>1
      <4>2. CASE ~(m.term > currentTerm[i])
        <5>1. m.term = currentTerm[i]
          BY <2>a, <4>2
        <5> QED BY <1>0, <2>2, <3>1, <4>2, <5>1
      <4> QED BY <4>1, <4>2
    <3> QED BY <3>1, <3>2, <3>3, <3>4
  <2>4. \A j \in Server : FullLog(j)' = FullLog(j)
    BY <1>2 DEF FullLog
  <2>5. SteadyRoles
    <3>1. \A j \in Server : hard[j].term <= hard'[j].term
      BY <1>0, <1>1, <2>1, <2>3
    <3>2. \A j \in Server : snap[j].index <= snap'[j].index
      BY <1>0, <1>2
    <3>3. elections' = elections /\ votes \subseteq votes'
      BY <1>2, <2>2
    <3>4. ASSUME NEW j \in Server, state'[j] # Follower
          PROVE  state'[j] = state[j] /\ currentTerm'[j] = currentTerm[j]
      BY <2>3, <3>4
    <3> QED BY <2>4, <3>1, <3>2, <3>3, <3>4 DEF SteadyRoles
  <2>6. NewVotesOk(H, A)
    <3>1. SUFFICES ASSUME NEW w \in votes' \ votes
                   PROVE  /\ w.term <= hard'[w.candidate].term
                          /\ state'[w.candidate] = Candidate
                             /\ currentTerm'[w.candidate] = w.term
                             => \A p \in H : <<w.voter, p>> \in A =>
                                   Below(p, FullLog(w.candidate))
                                      \/ Doomed(Terms, A, p)
      BY DEF NewVotesOk
    <3>2. Grants(i, m) /\ w.term = m.term /\ w.voter = i /\ w.candidate = m.src
      BY <2>2, <3>1
    <3>3. RequestOk(m)
      BY <1>1 DEF SafetyInv, MessageInv, MessageOk
    <3>4. m.term <= hard[m.src].term /\ hard[m.src].term <= hard'[m.src].term
          /\ hard[m.src].term \in Nat /\ hard'[m.src].term \in Nat
      BY <1>0, <1>1, <2>3, <2>5, <3>3 DEF RequestOk, SteadyRoles
    <3>5. ASSUME state'[m.src] = Candidate, currentTerm'[m.src] = m.term,
                 NEW p \in H, <<i, p>> \in A
          PROVE  Below(p, FullLog(m.src)) \/ Doomed(Terms, A, p)
      <4>1. state[m.src] = Candidate /\ currentTerm[m.src] = m.term
        BY <1>1, <3>4, <3>5, <2>5 DEF SteadyRoles, Candidate, Follower
      <4>2. /\ m.lastLogIndex = Len(FullLog(m.src))
            /\ m.lastLogTerm = LastTerm(FullLog(m.src))
        BY <3>3, <4>1 DEF RequestOk
      <4>3. /\ LastIndex(i) = Len(FullLog(i))
            /\ LastLogTerm(i) = LastTerm(FullLog(i))
        BY FullLogFacts, TermAtFacts DEF SafetyInv
      <4>4. \/ LastTerm(FullLog(m.src)) > LastTerm(FullLog(i))
            \/ /\ LastTerm(FullLog(m.src)) = LastTerm(FullLog(i))
               /\ Len(FullLog(m.src)) >= Len(FullLog(i))
        BY <3>2, <4>2, <4>3 DEF Grants, UpToDate
      <4> QED BY <1>1, <3>5, <4>4, GrantSafe
    <3>6. w.term <= hard'[w.candidate].term
      BY <1>1, <3>2, <3>4
    <3> QED BY <3>2, <3>5, <3>6
  <2>7. \A r \in msgs' \ msgs : MessageOk(H, A, r)'
    BY <2>2, PlainReplies DEF Reply
  <2>8. NewMatchesOk(H, A)
    BY <1>2, NothingNew
  <2> QED BY <1>2, <2>5, <2>6, <2>7, <2>8, Quiet
<1> QED BY <1>3, <1>4

\* The goroutine of startElection, when the reply does not win the election.
LEMMA SafeVoteReply ==
    ASSUME TypeInv, TypeInv', VoteInv, VoteInv', NEW H, NEW A,
           SafetyInv(H, A), NEW i \in Server, NEW m \in msgs,
           HandleVoteReply(i, m), elections' = elections, log' = log
    PROVE  SafetyInv(H, A)'
<1>1. /\ m.type = "RequestVoteReply" /\ m.term \in Nat
  BY MessageTypes DEF TypeInv, RequestVoteReply, HandleVoteReply
<1>2. /\ UNCHANGED <<logVars, commitIndex, applyVars, ghostVars>>
      /\ \A r \in msgs' \ msgs : MessageOk(H, A, r)'
  BY DEF HandleVoteReply, Consume, logVars, ghostVars, applyVars
<1>3. CASE BecomeFollower(i, m.term) /\ matchIndex' = matchIndex
  BY <1>1, <1>2, <1>3, SafeFollow
<1>4. CASE UNCHANGED <<hardVars, state, matchIndex>>
  <2>1. UNCHANGED <<hardVars, logVars, state, matchIndex, commitIndex,
                    applyVars, ghostVars>>
    BY <1>2, <1>4
  <2> QED BY <1>2, <2>1, SafeIdle
<1>5. CASE BecomeLeader(i)
  <2>1. log'[i] # log[i]
    <3>1. log \in [Server -> Seq(Entry)]
      BY DEF TypeInv, TypeOK
    <3>2. log'[i] = Append(log[i], [term |-> currentTerm[i], value |-> Noop])
      BY <1>5, <3>1 DEF BecomeLeader
    <3>3. Len(log'[i]) = Len(log[i]) + 1 /\ Len(log[i]) \in Nat
      BY <3>1, <3>2
    <3> QED BY <3>3
  <2> QED BY <2>1
<1>6. \/ BecomeFollower(i, m.term) /\ matchIndex' = matchIndex
      \/ UNCHANGED <<hardVars, state, matchIndex>>
      \/ BecomeLeader(i)
  BY DEF HandleVoteReply, leaderVars
<1> QED BY <1>3, <1>4, <1>5, <1>6

-----------------------------------------------------------------------------
(* Replication *)

\* A leader's log is its term's, and what it committed is settled in its term.
LEMMA LeaderFacts ==
    ASSUME TypeInv, VoteInv, NEW H, NEW A, SafetyInv(H, A),
           NEW i \in Server, state[i] = Leader
    PROVE  /\ FullLog(i) \in H /\ LastTerm(FullLog(i)) = currentTerm[i]
           /\ hard[i].term = currentTerm[i] /\ Won(currentTerm[i], i)
           /\ Settled(H, A, Pre(FullLog(i), commitIndex[i]), currentTerm[i])
           /\ commitIndex[i] <= Len(FullLog(i))
           /\ Settled(H, A, snap[i].data, currentTerm[i])
           /\ Below(snap[i].data, FullLog(i))
<1>0. /\ HistoryInv(H) /\ FullLog(i) \in H /\ NodeInv /\ RoleInv
      /\ LeaderInv(H, A) /\ NodeCommit(H, A, i)
  BY DEF SafetyInv, LogsInv, Logs, CommitInv
<1>1. /\ LastTerm(FullLog(i)) = currentTerm[i]
      /\ hard[i].term = currentTerm[i] /\ Won(currentTerm[i], i)
  BY <1>0 DEF LeaderInv, RoleInv, Leader, Follower
<1>2. /\ Settled(H, A, Pre(FullLog(i), commitIndex[i]), currentTerm[i])
      /\ commitIndex[i] <= Len(FullLog(i))
  BY <1>0, <1>1 DEF NodeCommit
<1>3. /\ snap[i].data = Pre(FullLog(i), snap[i].index)
      /\ snap[i].index \in Nat /\ commitIndex[i] \in Nat
      /\ snap[i].index <= commitIndex[i] /\ FullLog(i) \in Seq(Entry)
      /\ snap[i].data \in Seq(Entry) /\ Len(FullLog(i)) \in Nat
      /\ lastApplied[i] \in Nat /\ Len(snap[i].data) = snap[i].index
  <2>1. /\ snap[i].index <= lastApplied[i] /\ lastApplied[i] <= commitIndex[i]
        /\ snap[i].index \in Nat /\ commitIndex[i] \in Nat
        /\ lastApplied[i] \in Nat
    BY Facts
  <2>2. snap[i].index <= commitIndex[i]
    BY <2>1
  <2> QED BY <1>0, <2>1, <2>2, Facts, FullLogFacts
<1>4. commitIndex[i] \in 0..Len(FullLog(i)) /\ snap[i].index \in 0..Len(FullLog(i))
  BY <1>2, <1>3
<1>5. PICK g : g = Pre(FullLog(i), commitIndex[i])
  OBVIOUS
<1>6. g \in H /\ g \in Seq(Entry) /\ Len(g) = commitIndex[i]
      /\ Below(g, FullLog(i)) /\ Below(snap[i].data, FullLog(i))
  <2>1. g \in H
    BY <1>0, <1>4, <1>5 DEF HistoryInv
  <2> QED BY <1>3, <1>4, <1>5, <2>1, PreFacts
<1>7. Below(snap[i].data, g)
  BY <1>3, <1>6, BelowFacts
<1>8. Settled(H, A, snap[i].data, currentTerm[i])
  <2>1. Settled(H, A, g, currentTerm[i])
    BY <1>2, <1>5
  <2> QED BY <1>0, <1>3, <1>6, <1>7, <2>1, SettledPrefix
<1> QED BY <1>0, <1>1, <1>2, <1>6, <1>8

\* The AppendEntries request of replicateTo is a slice of the leader's log.
LEMMA AppendRequest ==
    ASSUME TypeInv, VoteInv, NEW H, NEW A, SafetyInv(H, A),
           NEW i \in Server, state[i] = Leader, NEW n \in Nat, n >= 1,
           n > snap[i].index, NEW m, m.type = "AppendEntries",
           m.term = currentTerm[i], m.prevLogIndex = n - 1,
           m.prevLogTerm = TermAt(i, n - 1), m.entries = From(i, n),
           m.leaderCommit = commitIndex[i]
    PROVE  AppendOk(H, A, m)
<1>0. /\ NodeInv /\ FullLog(i) \in H /\ LastTerm(FullLog(i)) = currentTerm[i]
      /\ Settled(H, A, Pre(FullLog(i), commitIndex[i]), currentTerm[i])
      /\ commitIndex[i] <= Len(FullLog(i))
  BY LeaderFacts DEF SafetyInv
<1>1. /\ Len(FullLog(i)) = LastIndex(i) /\ LastIndex(i) \in Nat
      /\ snap[i].index \in Nat /\ commitIndex[i] \in Nat
  BY <1>0, FullLogFacts, Facts
<1>2. PICK k : k = n - 1
  OBVIOUS
<1>3. k \in Nat /\ k >= snap[i].index /\ n = k + 1
  BY <1>1, <1>2
<1>4. CASE k > LastIndex(i)
  <2>1. TermAt(i, k) = 0
    BY <1>0, <1>3, <1>4, TermAtFacts
  <2>2. k >= 1
    BY <1>1, <1>3, <1>4
  <2> QED BY <1>2, <2>1, <2>2 DEF AppendOk
<1>5. CASE k <= LastIndex(i)
  <2>1. n <= LastIndex(i) + 1
    BY <1>1, <1>3, <1>5
  <2>2. /\ From(i, n) \in Seq(Entry) /\ Len(From(i, n)) = LastIndex(i) + 1 - n
        /\ \A x \in 1..Len(From(i, n)) : From(i, n)[x] = FullLog(i)[n - 1 + x]
    BY <1>0, <2>1, FromFacts
  <2>3. Len(FullLog(i)) = m.prevLogIndex + Len(m.entries)
    <3>1. Len(m.entries) = LastIndex(i) + 1 - n /\ m.prevLogIndex = n - 1
      BY <2>2
    <3> QED BY <1>1, <3>1
  <2>4. \A x \in 1..Len(m.entries) : m.entries[x] = FullLog(i)[m.prevLogIndex + x]
    BY <2>2
  <2>5. m.prevLogIndex >= 1 => FullLog(i)[m.prevLogIndex].term = m.prevLogTerm
    <3>1. snap[i].index <= k
      BY <1>1, <1>3
    <3>2. k >= 1 => TermAt(i, k) = FullLog(i)[k].term
      BY <1>0, <1>3, <1>5, <3>1, TermAtFacts
    <3> QED BY <1>2, <3>2
  <2>6. MinU(m.leaderCommit, Len(FullLog(i))) = commitIndex[i]
    BY <1>0, <1>1 DEF MinU
  <2>7. SliceOf(H, A, FullLog(i), m)
    BY <1>0, <2>3, <2>4, <2>5, <2>6 DEF SliceOf
  <2> QED BY <1>0, <2>7 DEF AppendOk
<1> QED BY <1>1, <1>3, <1>4, <1>5

\* replicateTo.
LEMMA SafeReplicate ==
    ASSUME TypeInv, TypeInv', VoteInv, VoteInv', NEW H, NEW A,
           SafetyInv(H, A), NEW i \in Server, NEW p \in Server,
           ReplicateTo(i, p)
    PROVE  SafetyInv(H, A)'
<1>0. /\ state[i] = Leader
      /\ UNCHANGED <<hardVars, logVars, state, matchIndex, commitIndex,
                     applyVars, ghostVars>>
      /\ UNCHANGED <<state, currentTerm, snap, elections>>
  BY DEF ReplicateTo, leaderVars, hardVars, logVars, ghostVars
<1>1. PICK n : n = MaxU(1, nextIndex[i][p])
  OBVIOUS
<1>2. n \in Nat /\ n >= 1
  <2>1. nextIndex[i][p] \in Nat
    BY DEF TypeInv, TypeOK
  <2> QED BY <1>1, <2>1 DEF MaxU
<1>3. ASSUME NEW m \in msgs' \ msgs PROVE MessageOk(H, A, m)'
  <2>1. CASE n <= snap[i].index
    <3>1. m = [type |-> "InstallSnapshot", src |-> i, dst |-> p,
               term |-> currentTerm[i], snapshot |-> snap[i]]
      BY <1>1, <1>3, <2>1 DEF ReplicateTo, Send
    <3>2. /\ m.type = "InstallSnapshot" /\ m.src = i /\ m.term = currentTerm[i]
          /\ m.snapshot = snap[i]
      BY <3>1
    <3>3. /\ Len(snap[i].data) = snap[i].index
          /\ snap[i].term = LastTerm(snap[i].data) /\ snap[i].index \in Nat
      BY Facts DEF SafetyInv, NodeInv
    <3>4. InstallOk(H, A, m)'
      <4>1. Won(currentTerm[i], i)' /\ snap'[i].index = snap[i].index
        BY <1>0, LeaderFacts DEF Won
      <4>2. /\ \E l \in H : LastTerm(l) = currentTerm[i] /\ Below(snap[i].data, l)
            /\ Settled(H, A, snap[i].data, currentTerm[i])
        BY <1>0, LeaderFacts
      <4>3. /\ Len(m.snapshot.data) = m.snapshot.index
            /\ m.snapshot.term = LastTerm(m.snapshot.data)
        BY <3>2, <3>3
      <4>4. /\ \E l \in H : LastTerm(l) = m.term /\ Below(m.snapshot.data, l)
            /\ Settled(H, A, m.snapshot.data, m.term)
        BY <3>2, <4>2
      <4>5. Won(m.term, m.src)' /\ m.snapshot.index <= snap'[m.src].index
        <5>1. Won(m.term, m.src)'
          BY <1>0, <3>2, <4>1 DEF Won
        <5>2. m.snapshot.index <= snap'[m.src].index
          BY <3>2, <3>3, <4>1
        <5> QED BY <5>1, <5>2
      <4> QED BY <4>3, <4>4, <4>5 DEF InstallOk
    <3> QED BY <3>2, <3>4 DEF MessageOk
  <2>2. CASE ~(n <= snap[i].index)
    <3>1. m = [type |-> "AppendEntries", src |-> i, dst |-> p,
               term |-> currentTerm[i], prevLogIndex |-> n - 1,
               prevLogTerm |-> TermAt(i, n - 1), entries |-> From(i, n),
               leaderCommit |-> commitIndex[i]]
      BY <1>1, <1>3, <2>2 DEF ReplicateTo, Send
    <3>2. /\ m.type = "AppendEntries" /\ m.term = currentTerm[i]
          /\ m.prevLogIndex = n - 1 /\ m.prevLogTerm = TermAt(i, n - 1)
          /\ m.entries = From(i, n) /\ m.leaderCommit = commitIndex[i]
      BY <3>1
    <3>3. n > snap[i].index
      <4>1. snap[i].index \in Nat
        BY Facts
      <4> QED BY <1>2, <2>2, <4>1
    <3>4. AppendOk(H, A, m)
      BY <1>0, <1>2, <3>2, <3>3, AppendRequest
    <3>5. AppendOk(H, A, m)'
      BY <3>4
    <3> QED BY <3>2, <3>5 DEF MessageOk
  <2> QED BY <2>1, <2>2
<1> QED BY <1>0, <1>3, SafeIdle

\* A follower that accepts the entries of m moves towards its leader's log: all
\* the way in the end, and to a part of it when it is interrupted.
LEMMA AppendMoves ==
    ASSUME TypeInv, TypeInv', VoteInv, VoteInv', NEW H, NEW A,
           SafetyInv(H, A), NEW i \in Server, NEW m \in AppendEntriesArgs,
           Consistent(i, m), NEW h \in H, SliceOf(H, A, h, m),
           \A j \in Server : hard[j].term <= hard'[j].term,
           \A j \in Server \ {i} : FullLog(j)' = FullLog(j),
           hard'[i].term = m.term,
           \/ FullLog(i)' = FullLog(i)
           \/ /\ Missing(i, m) # {}
              /\ \E n \in (Min(Missing(i, m)) - 1)..Len(m.entries) :
                    FullLog(i)' = snap[i].data \o
                       (Kept(i, m, Min(Missing(i, m)))
                          \o SubSeq(m.entries, Min(Missing(i, m)), n)),
           NEW K, K \subseteq {i} \X H,
           \A p \in H : <<i, p>> \in K =>
              p # <<>> /\ LastTerm(p) = m.term /\ Below(p, FullLog(i)')
    PROVE  Moves(Logs, Terms, H, Logs', Terms', i, K)
<1>0. /\ HistoryInv(H) /\ FullLog(i) \in H /\ NodeInv /\ Logs \in [Server -> H]
  BY DEF SafetyInv, LogsInv, Logs
<1>1. /\ \A j \in Server : Logs[j] = FullLog(j) /\ Logs'[j] = FullLog(j)'
      /\ Terms' \in [Server -> Nat] /\ \A j \in Server : Terms[j] <= Terms'[j]
      /\ Terms'[i] = m.term
  <2>1. \A j \in Server : hard'[j].term \in Nat
    BY FactsAfter
  <2> QED BY <2>1 DEF Terms, Logs
<1>2. CASE FullLog(i)' = FullLog(i)
  <2>1. \A j \in Server : Logs'[j] = Logs[j]
    BY <1>1, <1>2
  <2>2. Logs' \in [Server -> H]
    BY <1>0, <2>1 DEF Logs
  <2> QED BY <1>1, <2>1, <2>2 DEF Moves
<1>3. CASE FullLog(i)' # FullLog(i)
  <2>1. PICK k : k = Min(Missing(i, m))
    OBVIOUS
  <2>2. Missing(i, m) # {}
    BY <1>3
  <2>3. PICK n \in (k - 1)..Len(m.entries) :
           FullLog(i)' = snap[i].data \o
                            (Kept(i, m, k) \o SubSeq(m.entries, k, n))
    BY <1>3, <2>1
  <2>4. /\ k \in 1..Len(m.entries) /\ ~Below(h, FullLog(i))
        /\ \A p \in H : Below(p, h) /\ Below(p, FullLog(i))
                           => Len(p) <= m.prevLogIndex + k - 1
        /\ FullLog(i)' = Pre(h, m.prevLogIndex + n)
    <3>1. Replaces(H, h, i, m, k)
      BY <1>0, <2>1, <2>2, AppendEffect, Zenon
    <3> QED BY <2>3, <3>1 DEF Replaces
  <2>5. PICK g : g = FullLog(i)'
    OBVIOUS
  <2>6. PICK c : c = m.prevLogIndex + n
    OBVIOUS
  <2>7. c \in 0..Len(h) /\ h \in Seq(Entry) /\ m.prevLogIndex + k - 1 <= c /\ c \in Nat
        /\ m.prevLogIndex + k - 1 \in Nat
    <3>1. /\ Len(h) = m.prevLogIndex + Len(m.entries) /\ m.prevLogIndex \in Nat
          /\ Len(m.entries) \in Nat
      BY DEF SliceOf, AppendEntriesArgs
    <3>2. k \in Nat /\ n \in Nat /\ k >= 1 /\ k - 1 <= n /\ n <= Len(m.entries)
      BY <2>4, <3>1
    <3>3. h \in Seq(Entry)
      BY <1>0, TermFacts
    <3> QED BY <2>6, <3>1, <3>2, <3>3
  <2>8. g \in H /\ Below(g, h) /\ Len(g) = c /\ g \in Seq(Entry)
    <3>1. g = Pre(h, c)
      BY <2>4, <2>5, <2>6
    <3>2. g \in H
      BY <1>0, <2>7, <3>1 DEF HistoryInv
    <3> QED BY <2>7, <3>1, <3>2, PreFacts
  <2>9. ASSUME NEW p \in H, Below(p, h), Below(p, FullLog(i)) PROVE Below(p, g)
    <3>1. Len(p) <= m.prevLogIndex + k - 1 /\ Len(p) \in Nat /\ p \in Seq(Entry)
      BY <1>0, <2>4, <2>9, TermFacts
    <3>2. Len(p) <= Len(g)
      BY <2>7, <2>8, <3>1
    <3> QED BY <2>7, <2>8, <2>9, <3>1, <3>2, BelowFacts
  <2>10. Adopted(H, FullLog(i), g, h, m.term)
    BY <2>4, <2>8, <2>9 DEF Adopted, SliceOf
  <2>11. Adopted(H, Logs[i], Logs'[i], h, Terms'[i])
    BY <1>1, <2>5, <2>10
  <2>12. Logs' \in [Server -> H]
    BY <1>0, <1>1, <2>5, <2>8 DEF Logs
  <2> QED BY <1>1, <2>11, <2>12 DEF Moves
<1> QED BY <1>2, <1>3

\* After all entries of m are in place the follower has its leader's log.
LEMMA AppendAll ==
    ASSUME TypeInv, VoteInv, NodeInv, NEW H, NEW A, HistoryInv(H),
           NEW i \in Server, FullLog(i) \in H,
           NEW m \in AppendEntriesArgs, Consistent(i, m),
           NEW h \in H, SliceOf(H, A, h, m)
    PROVE  Below(h, snap[i].data \o AppendedLog(i, m))
<1>0. /\ h \in Seq(Entry) /\ Len(h) = m.prevLogIndex + Len(m.entries)
      /\ Len(m.entries) \in Nat /\ FullLog(i) \in Seq(Entry)
      /\ Len(h) \in Nat /\ Len(FullLog(i)) \in Nat
  BY TermFacts, Facts DEF SliceOf, AppendEntriesArgs
<1>1. CASE Missing(i, m) = {}
  <2>1. /\ Len(m.entries) \in 0..Len(m.entries)
        /\ Len(m.entries) \notin Missing(i, m)
    BY <1>0, <1>1
  <2>2. /\ Len(h) <= Len(FullLog(i)) /\ Pre(FullLog(i), Len(h)) = Pre(h, Len(h))
    BY <1>0, <2>1, AgreeUpTo
  <2>3. Pre(h, Len(h)) = h
    BY <1>0, PreSteps
  <2>4. Below(h, FullLog(i))
    <3>1. Len(h) \in 0..Len(FullLog(i))
      BY <1>0, <2>2
    <3> QED BY <1>0, <2>2, <2>3, <3>1, PreFacts
  <2> QED BY <1>1, <2>4 DEF AppendedLog, FullLog
<1>2. CASE Missing(i, m) # {}
  <2>1. PICK k : k = Min(Missing(i, m))
    OBVIOUS
  <2>2. /\ k \in 1..Len(m.entries)
        /\ \A n \in (k - 1)..Len(m.entries) :
              snap[i].data \o (Kept(i, m, k) \o SubSeq(m.entries, k, n))
                 = Pre(h, m.prevLogIndex + n)
    <3>1. Replaces(H, h, i, m, k)
      BY <1>2, <2>1, AppendEffect, Zenon
    <3> QED BY <3>1 DEF Replaces
  <2>3. Len(m.entries) \in (k - 1)..Len(m.entries)
    BY <1>0, <2>2
  <2>4. snap[i].data \o AppendedLog(i, m) = Pre(h, Len(h))
    BY <1>0, <1>2, <2>1, <2>2, <2>3 DEF AppendedLog
  <2> QED BY <1>0, <2>4, PreSteps, BelowFacts
<1> QED BY <1>1, <1>2

\* Any prefix of a settled prefix is settled.
LEMMA CommitLower ==
    ASSUME NEW H, NEW A, HistoryInv(H), NEW g \in H, NEW t,
           NEW c \in 0..Len(g), NEW n \in 0..c, Settled(H, A, Pre(g, c), t)
    PROVE  Settled(H, A, Pre(g, n), t)
<1>1. g \in Seq(Entry) /\ Len(g) \in Nat
  BY TermFacts
<1>2. n \in 0..Len(g) /\ n <= c
  BY <1>1
<1>3. Pre(g, c) \in H
  BY DEF HistoryInv
<1>4. /\ Pre(g, n) \in Seq(Entry) /\ Len(Pre(g, n)) = n /\ Below(Pre(g, n), g)
      /\ Pre(g, c) \in Seq(Entry) /\ Len(Pre(g, c)) = c /\ Below(Pre(g, c), g)
  BY <1>1, <1>2, PreFacts
<1>5. Below(Pre(g, n), Pre(g, c))
  BY <1>1, <1>2, <1>4, BelowFacts
<1> QED BY <1>3, <1>4, <1>5, SettledPrefix

\* A step in which one node raises its commit index to a settled prefix.
LEMMA CommitRaised ==
    ASSUME TypeInv, TypeInv', VoteInv, VoteInv', NEW H, NEW A,
           NEW q \in Server, NEW K, SafetyInv(H, A),
           Moves(Logs, Terms, H, Logs', Terms', q, K),
           UNCHANGED <<lastApplied, sm>>, NEW i \in Server,
           \A j \in Server \ {i} : commitIndex'[j] = commitIndex[j],
           commitIndex'[i] <= Len(FullLog(i)'),
           Settled(H, A \cup K, Pre(FullLog(i)', commitIndex'[i]), hard'[i].term),
           \A c \in committed' \ committed : CommitOk(H, A \cup K, c)
    PROVE  CommitInv(H, A \cup K)'
<1>1. ASSUME NEW j \in Server PROVE NodeCommit(H, A \cup K, j)'
  <2>1. CASE j = i
    <3>1. sm[i] = Pre(FullLog(i)', lastApplied[i])
      BY CommitStays
    <3> QED BY <2>1, <3>1 DEF NodeCommit
  <2>2. CASE j # i
    <3>1. commitIndex'[j] = commitIndex[j]
      BY <2>2
    <3> QED BY <3>1, CommitStays DEF NodeCommit
  <2> QED BY <2>1, <2>2
<1>2. ASSUME NEW c \in committed' PROVE CommitOk(H, A \cup K, c)'
  <2>1. CommitInv(H, A) /\ H \subseteq H /\ A \subseteq A \cup K
    BY DEF SafetyInv
  <2>2. CommitOk(H, A \cup K, c)
    BY <2>1, CommittedStays
  <2> QED BY <2>2
<1> QED BY <1>1, <1>2 DEF CommitInv

\* The prefixes of h that a follower now holds in the term t of their end.
Held(i, h, t) == {<<i, Pre(h, n)>> : n \in {k \in 1..Len(h) : h[k].term = t}}

\* They are logs of term t below its log, and confirm all of h.
LEMMA HeldFacts ==
    ASSUME NEW H, NEW A, HistoryInv(H), NEW i \in Server, NEW h \in H,
           NEW t \in Nat, LastTerm(h) = t, NEW g \in Seq(Entry), Below(h, g)
    PROVE  /\ Held(i, h, t) \subseteq {i} \X H
           /\ \A p \in H : <<i, p>> \in Held(i, h, t) =>
                 p # <<>> /\ LastTerm(p) = t /\ Below(p, g)
           /\ Confirmed(H, A \cup Held(i, h, t), i, t, Len(h))
<1>1. h \in Seq(Entry) /\ Len(h) \in Nat
  BY TermFacts
<1>2. ASSUME NEW n \in 1..Len(h)
      PROVE  /\ Pre(h, n) \in H /\ Pre(h, n) # <<>>
             /\ LastTerm(Pre(h, n)) = h[n].term /\ Below(Pre(h, n), g)
  <2>1. n \in 0..Len(h) /\ n >= 1 /\ n # 0
    BY <1>1
  <2>2. Pre(h, n) \in H
    BY <2>1 DEF HistoryInv
  <2>3. /\ Pre(h, n) # <<>> /\ LastTerm(Pre(h, n)) = h[n].term
        /\ Below(Pre(h, n), h) /\ Pre(h, n) \in Seq(Entry)
    BY <1>1, <2>1, PreFacts
  <2> QED BY <1>1, <2>2, <2>3, BelowFacts
<1>3. Held(i, h, t) \subseteq {i} \X H
  BY <1>2 DEF Held
<1>4. ASSUME NEW p \in H, <<i, p>> \in Held(i, h, t)
      PROVE  p # <<>> /\ LastTerm(p) = t /\ Below(p, g)
  <2>1. PICK n \in 1..Len(h) : h[n].term = t /\ <<i, p>> = <<i, Pre(h, n)>>
    BY <1>4 DEF Held
  <2> QED BY <1>2, <2>1
<1>5. Acked(A \cup Held(i, h, t), i, h, t)
  BY DEF Acked, Held
<1> QED BY <1>3, <1>4, <1>5 DEF Confirmed

\* A consistent request is a slice of a log of its term.
LEMMA ConsistentSlice ==
    ASSUME TypeInv, VoteInv, NEW H, NEW A, SafetyInv(H, A),
           NEW i \in Server, NEW m \in msgs, m.type = "AppendEntries",
           Consistent(i, m)
    PROVE  m \in AppendEntriesArgs /\ \E h \in H : SliceOf(H, A, h, m)
<1>1. m \in AppendEntriesArgs /\ AppendOk(H, A, m)
  BY MessageTypes DEF TypeInv, SafetyInv, MessageInv, MessageOk
<1>2. ASSUME m.prevLogIndex >= 1, m.prevLogTerm = 0 PROVE FALSE
  <2>0. HistoryInv(H) /\ FullLog(i) \in H /\ NodeInv
    BY DEF SafetyInv, LogsInv, Logs
  <2>1. /\ m.prevLogIndex \in Nat /\ snap[i].index <= m.prevLogIndex
        /\ m.prevLogIndex <= LastIndex(i) /\ TermAt(i, m.prevLogIndex) = 0
        /\ LastIndex(i) = Len(FullLog(i))
    <3>1. /\ m.prevLogIndex \in Nat /\ snap[i].index \in Nat
      BY <1>1, Facts DEF AppendEntriesArgs
    <3> QED BY <1>2, <2>0, <3>1, FullLogFacts DEF Consistent
  <2>2. FullLog(i)[m.prevLogIndex].term = 0
    BY <1>2, <2>0, <2>1, TermAtFacts
  <2>3. m.prevLogIndex \in 1..Len(FullLog(i))
    <3>1. Len(FullLog(i)) \in Nat
      BY Facts
    <3> QED BY <1>2, <2>1, <3>1
  <2>4. FullLog(i)[m.prevLogIndex].term >= 1
    BY <2>0, <2>3, TermFacts
  <2> QED BY <2>2, <2>4
<1> QED BY <1>1, <1>2 DEF AppendOk

\* HandleAppendEntries that finds the request consistent.
LEMMA SafeAccept ==
    ASSUME TypeInv, TypeInv', VoteInv, VoteInv', NEW H, NEW A,
           SafetyInv(H, A), NEW i \in Server, NEW m \in msgs,
           m.type = "AppendEntries", ~Refuses(i, m), Consistent(i, m),
           FollowLeader(i, m),
           log' = [log EXCEPT ![i] = AppendedLog(i, m)],
           commitIndex' = [commitIndex EXCEPT ![i] = FollowerCommit(i, m)],
           Reply(m, AppendReply(m, i, m.term, TRUE, 0, 0)),
           UNCHANGED <<snap, matchIndex, applyVars, ghostVars>>
    PROVE  CommitKept /\ \E K : SafetyInv(H, A \cup K)'
<1>0. /\ HistoryInv(H) /\ FullLog(i) \in H /\ NodeInv /\ NodeCommit(H, A, i)
      /\ log \in [Server -> Seq(Entry)] /\ commitIndex \in [Server -> Nat]
      /\ \A j \in Server : snap[j].index \in Nat
  BY DEF SafetyInv, LogsInv, Logs, CommitInv, TypeInv, TypeOK, Snapshot
<1>1. m \in AppendEntriesArgs /\ \E h \in H : SliceOf(H, A, h, m)
  BY ConsistentSlice
<1>2. PICK h \in H : SliceOf(H, A, h, m)
  BY <1>1
<1>3. /\ m.term \in Nat /\ m.src \in Server /\ m.leaderCommit \in Nat
      /\ Len(h) = m.prevLogIndex + Len(m.entries)
      /\ LastTerm(h) = m.term /\ h \in Seq(Entry) /\ Len(h) \in Nat
  BY <1>0, <1>1, <1>2, TermFacts DEF AppendEntriesArgs, SliceOf
<1>4. FullLog(i)' = snap[i].data \o AppendedLog(i, m)
  BY <1>0 DEF FullLog
<1>5. \A j \in Server \ {i} : FullLog(j)' = FullLog(j)
  BY <1>0 DEF FullLog
<1>6. Below(h, FullLog(i)') /\ FullLog(i)' \in Seq(Entry) /\ Len(FullLog(i)') \in Nat
  <2>1. Below(h, FullLog(i)')
    BY <1>0, <1>1, <1>2, <1>4, AppendAll
  <2> QED BY <2>1, FactsAfter
<1>7. SteadyRoles /\ hard'[i].term = m.term
  <2>1. \A j \in Server : snap[j].index <= snap'[j].index
    BY <1>0
  <2>2. BecomeFollower(i, m.term) /\ UNCHANGED <<votes, elections>>
    BY DEF FollowLeader, ghostVars
  <2>3. ~closed[i] /\ currentTerm[i] <= m.term
    <3>1. currentTerm[i] \in Nat
      BY Facts
    <3> QED BY <1>3, <3>1 DEF Refuses
  <2> QED BY <1>3, <1>5, <2>1, <2>2, <2>3, FollowRoles
<1>8. PICK K : K = Held(i, h, m.term)
  OBVIOUS
<1>9. /\ K \subseteq {i} \X H
      /\ \A p \in H : <<i, p>> \in K =>
            p # <<>> /\ LastTerm(p) = m.term /\ Below(p, FullLog(i)')
      /\ Confirmed(H, A \cup K, i, m.term, Len(h))
  <2>1. PICK g : g = FullLog(i)'
    OBVIOUS
  <2>2. g \in Seq(Entry) /\ Below(h, g)
    BY <1>6, <2>1
  <2>3. /\ K \subseteq {i} \X H
        /\ \A p \in H : <<i, p>> \in K =>
              p # <<>> /\ LastTerm(p) = m.term /\ Below(p, g)
        /\ Confirmed(H, A \cup K, i, m.term, Len(h))
    BY <1>0, <1>3, <1>8, <2>2, HeldFacts
  <2> QED BY <2>1, <2>3
<1>10. Moves(Logs, Terms, H, Logs', Terms', i, K)
  <2>1. \/ FullLog(i)' = FullLog(i)
        \/ /\ Missing(i, m) # {}
           /\ \E n \in (Min(Missing(i, m)) - 1)..Len(m.entries) :
                 FullLog(i)' = snap[i].data \o
                    (Kept(i, m, Min(Missing(i, m)))
                       \o SubSeq(m.entries, Min(Missing(i, m)), n))
    <3>1. CASE Missing(i, m) = {}
      BY <1>4, <3>1 DEF AppendedLog, FullLog
    <3>2. CASE Missing(i, m) # {}
      <4>1. PICK k : k = Min(Missing(i, m))
        OBVIOUS
      <4>2. Replaces(H, h, i, m, k)
        BY <1>0, <1>1, <1>2, <3>2, <4>1, AppendEffect, Zenon
      <4>3. k \in 1..Len(m.entries) /\ Len(m.entries) \in Nat
        BY <1>1, <4>2 DEF Replaces, AppendEntriesArgs
      <4>4. Len(m.entries) \in (k - 1)..Len(m.entries)
        BY <4>3
      <4>5. FullLog(i)' = snap[i].data \o
               (Kept(i, m, k) \o SubSeq(m.entries, k, Len(m.entries)))
        BY <1>4, <3>2, <4>1 DEF AppendedLog
      <4> QED BY <3>2, <4>1, <4>4, <4>5
    <3> QED BY <3>1, <3>2
  <2>2. \A j \in Server : hard[j].term <= hard'[j].term
    BY <1>7 DEF SteadyRoles
  <2> QED BY <1>1, <1>2, <1>5, <1>7, <1>9, <2>1, <2>2, AppendMoves
<1>11. NodeInv'
  <2>1. \A j \in Server : /\ Len(snap'[j].data) = snap'[j].index
                          /\ snap'[j].term = LastTerm(snap'[j].data)
    BY <1>0 DEF NodeInv
  <2> QED BY <1>10, <2>1, NodesStay
<1>12. CommitInv(H, A \cup K)'
  <2>1. /\ commitIndex[i] <= Len(FullLog(i)') /\ commitIndex[i] \in Nat
        /\ Settled(H, A \cup K, Pre(FullLog(i)', commitIndex[i]), hard'[i].term)
    BY <1>0, <1>10, CommitStays
  <2>2. PICK c : c = MinU(m.leaderCommit, Len(h))
    OBVIOUS
  <2>3. c \in 0..Len(h) /\ c \in Nat
    BY <1>3, <2>2 DEF MinU
  <2>4. c <= Len(FullLog(i)')
    BY <1>3, <1>6, <2>3 DEF Below
  <2>5. Pre(FullLog(i)', c) = Pre(h, c)
    <3>1. PICK g : g = FullLog(i)'
      OBVIOUS
    <3>2. g \in Seq(Entry) /\ Below(h, g) /\ c \in 0..Len(g)
      BY <1>6, <2>3, <2>4, <3>1
    <3>3. /\ Pre(h, c) \in Seq(Entry) /\ Below(Pre(h, c), h) /\ Len(Pre(h, c)) = c
      BY <1>3, <2>3, PreFacts
    <3>4. Below(Pre(h, c), g)
      BY <1>3, <3>2, <3>3, BelowFacts
    <3>5. Pre(h, c) = Pre(g, c)
      BY <3>2, <3>3, <3>4, BelowFacts
    <3> QED BY <3>1, <3>5
  <2>6. Settled(H, A \cup K, Pre(FullLog(i)', c), hard'[i].term)
    <3>1. Settled(H, A, Pre(h, c), m.term)
      BY <1>2, <2>2 DEF SliceOf
    <3>2. H \subseteq H /\ A \subseteq A \cup K /\ m.term <= m.term
      BY <1>3
    <3>3. Settled(H, A \cup K, Pre(h, c), m.term)
      BY <1>0, <1>3, <3>1, <3>2, Monotone
    <3> QED BY <1>7, <2>5, <3>3
  <2>7. commitIndex'[i] = commitIndex[i] \/ commitIndex'[i] = c
    <3>1. commitIndex'[i] = MaxU(commitIndex[i], c)
      BY <1>0, <1>3, <2>2 DEF FollowerCommit
    <3> QED BY <3>1 DEF MaxU
  <2>8. /\ commitIndex'[i] <= Len(FullLog(i)')
        /\ Settled(H, A \cup K, Pre(FullLog(i)', commitIndex'[i]), hard'[i].term)
    BY <2>1, <2>4, <2>6, <2>7
  <2>9. \A j \in Server \ {i} : commitIndex'[j] = commitIndex[j]
    BY <1>0
  <2>10. UNCHANGED <<lastApplied, sm>> /\ committed' = committed
    BY DEF applyVars, ghostVars
  <2>11. \A x \in committed' \ committed : CommitOk(H, A \cup K, x)
    BY <2>10
  <2> QED BY <1>10, <2>8, <2>9, <2>10, <2>11, CommitRaised
<1>13. ASSUME NEW r \in msgs' \ msgs PROVE MessageOk(H, A \cup K, r)'
  <2>1. r = AppendReply(m, i, m.term, TRUE, 0, 0)
    BY <1>13 DEF Reply
  <2>2. /\ r.type = "AppendEntriesReply" /\ r.src = i /\ r.sentIn = m.term
        /\ r.match = m.prevLogIndex + Len(m.entries)
    BY <2>1 DEF AppendReply
  <2>3. Confirmed(H, A \cup K, r.src, r.sentIn, r.match)
    BY <1>3, <1>9, <2>2
  <2> QED BY <2>2, <2>3 DEF MessageOk
<1>14. NewVotesOk(H, A) /\ NewMatchesOk(H, A) /\ votes' = votes
  BY NothingNew DEF ghostVars
<1>15. CommitKept
  BY <1>10, MovesKept
<1>16. SafetyInv(H, A \cup K)'
  BY <1>7, <1>10, <1>11, <1>12, <1>13, <1>14, SteadyStep
<1> QED BY <1>15, <1>16

\* HandleAppendEntries.
LEMMA SafeAppend ==
    ASSUME TypeInv, TypeInv', VoteInv, VoteInv', NEW H, NEW A,
           SafetyInv(H, A), NEW i \in Server, NEW m \in msgs,
           HandleAppendEntries(i, m)
    PROVE  CommitKept /\ \E K : SafetyInv(H, A \cup K)'
<1>0. /\ m.type = "AppendEntries" /\ m.term \in Nat
      /\ UNCHANGED <<snap, matchIndex, applyVars, ghostVars>>
  BY MessageTypes
     DEF TypeInv, HandleAppendEntries, AppendEntriesArgs, leaderVars
<1>1. A \cup {} = A
  OBVIOUS
<1>2. CASE Refuses(i, m)
  <2>1. /\ UNCHANGED <<hardVars, logVars, state, matchIndex, commitIndex,
                       applyVars, ghostVars>>
        /\ Reply(m, AppendReply(m, i, currentTerm[i], FALSE, 0, 0))
    BY <1>0, <1>2 DEF HandleAppendEntries, logVars
  <2>2. \A r \in msgs' \ msgs : MessageOk(H, A, r)'
    BY <2>1, PlainReplies DEF Reply
  <2>3. SafetyInv(H, A)'
    BY <2>1, <2>2, SafeIdle
  <2> QED BY <1>1, <2>1, <2>3 DEF CommitKept
<1>3. CASE ~Refuses(i, m) /\ ~Consistent(i, m)
  <2>1. /\ BecomeFollower(i, m.term)
        /\ UNCHANGED <<logVars, matchIndex, commitIndex, applyVars, ghostVars>>
        /\ Reply(m, InconsistentReply(i, m))
    BY <1>0, <1>3 DEF HandleAppendEntries, FollowLeader, logVars
  <2>3. ASSUME NEW r \in msgs' \ msgs PROVE MessageOk(H, A, r)'
    <3>1. r = InconsistentReply(i, m)
      BY <2>1, <2>3 DEF Reply
    <3>2. PICK ci, ct : r = AppendReply(m, i, m.term, FALSE, ci, ct)
      BY <3>1 DEF InconsistentReply
    <3>3. r.type = "AppendEntriesReply" /\ r.success = FALSE
      BY <3>2 DEF AppendReply
    <3> QED BY <3>3 DEF MessageOk
  <2>4. SafetyInv(H, A)'
    BY <1>0, <2>1, <2>3, SafeFollow
  <2> QED BY <1>1, <2>1, <2>4 DEF CommitKept
<1>4. CASE ~Refuses(i, m) /\ Consistent(i, m)
  <2>1. /\ FollowLeader(i, m)
        /\ log' = [log EXCEPT ![i] = AppendedLog(i, m)]
        /\ commitIndex' = [commitIndex EXCEPT ![i] = FollowerCommit(i, m)]
        /\ Reply(m, AppendReply(m, i, m.term, TRUE, 0, 0))
    BY <1>4 DEF HandleAppendEntries
  <2> QED BY <1>0, <1>4, <2>1, SafeAccept
<1> QED BY <1>2, <1>3, <1>4

\* Snapshots: HandleInstallSnapshot that takes the snapshot.
LEMMA SafeTake ==
    ASSUME TypeInv, TypeInv', VoteInv, VoteInv', NEW H, NEW A,
           SafetyInv(H, A), NEW i \in Server, NEW m \in msgs,
           m.type = "InstallSnapshot", ~Refuses(i, m),
           NEW s, s = m.snapshot, ~Covered(i, s), FollowLeader(i, m),
           Reply(m, SnapshotReply(m, i, m.term)),
           log' = [log EXCEPT ![i] = LogAfterInstall(i, s)],
           snap' = [snap EXCEPT ![i] = s],
           sm' = [sm EXCEPT ![i] = s.data],
           lastApplied' = [lastApplied EXCEPT ![i] = s.index],
           commitIndex' = [commitIndex EXCEPT ![i] = s.index],
           UNCHANGED <<matchIndex, ghostVars>>
    PROVE  CommitKept /\ SafetyInv(H, A)'
<1>0. /\ HistoryInv(H) /\ FullLog(i) \in H /\ NodeInv
      /\ Logs \in [Server -> H]
      /\ log \in [Server -> Seq(Entry)] /\ commitIndex \in [Server -> Nat]
      /\ sm \in [Server -> Seq(Entry)] /\ lastApplied \in [Server -> Nat]
      /\ snap \in [Server -> Snapshot]
      /\ \A j \in Server : snap[j].index \in Nat
  BY DEF SafetyInv, LogsInv, Logs, TypeInv, TypeOK, Snapshot
<1>1. m \in InstallSnapshotArgs /\ InstallOk(H, A, m) /\ MessageOk(H, A, m)
  BY MessageTypes DEF TypeInv, SafetyInv, MessageInv, MessageOk
<1>2. /\ m.term \in Nat /\ s \in Snapshot /\ s.index \in Nat
      /\ s.data \in Seq(Entry) /\ Len(s.data) = s.index
      /\ s.term = LastTerm(s.data) /\ Settled(H, A, s.data, m.term)
  BY <1>1 DEF InstallSnapshotArgs, InstallOk, Snapshot
<1>3. PICK l \in H : LastTerm(l) = m.term /\ Below(s.data, l)
  BY <1>1 DEF InstallOk
<1>4. l \in Seq(Entry) /\ s.data \in H
  <2>1. l \in Seq(Entry)
    BY <1>0, TermFacts
  <2>2. s.data = Pre(l, Len(s.data)) /\ Len(s.data) \in 0..Len(l)
    BY <1>2, <1>3, <2>1, BelowFacts
  <2> QED BY <1>0, <2>1, <2>2 DEF HistoryInv
<1>5. s.index > snap[i].index
  BY <1>0, <1>2 DEF Covered
<1>6. \A j \in Server \ {i} : FullLog(j)' = FullLog(j)
  BY <1>0 DEF FullLog
<1>7. PICK g : g = FullLog(i)'
  OBVIOUS
<1>8. g = s.data \o LogAfterInstall(i, s)
  BY <1>0, <1>7 DEF FullLog
<1>9. g = FullLog(i) \/ (g = s.data /\ ~Below(s.data, FullLog(i)))
  BY <1>0, <1>2, <1>4, <1>5, <1>8, InstallEffect
<1>10. SteadyRoles /\ hard'[i].term = m.term
  <2>1. \A j \in Server : snap[j].index <= snap'[j].index
    BY <1>0, <1>2, <1>5
  <2>2. BecomeFollower(i, m.term) /\ UNCHANGED <<votes, elections>>
    BY DEF FollowLeader, ghostVars
  <2>3. ~closed[i] /\ currentTerm[i] <= m.term
    <3>1. currentTerm[i] \in Nat
      BY Facts
    <3> QED BY <1>2, <3>1 DEF Refuses
  <2> QED BY <1>2, <1>6, <2>1, <2>2, <2>3, FollowRoles
<1>11. Moves(Logs, Terms, H, Logs', Terms', i, {})
  <2>1. /\ \A j \in Server : Logs[j] = FullLog(j) /\ Logs'[j] = FullLog(j)'
        /\ Terms' \in [Server -> Nat] /\ \A j \in Server : Terms[j] <= Terms'[j]
        /\ Terms'[i] = m.term
    <3>1. \A j \in Server : hard'[j].term \in Nat
      BY FactsAfter
    <3> QED BY <1>10, <3>1 DEF Terms, Logs, SteadyRoles
  <2>2. g \in H
    BY <1>0, <1>4, <1>9
  <2>3. Logs' \in [Server -> H]
    BY <1>0, <1>6, <1>7, <2>1, <2>2 DEF Logs
  <2>4. g # FullLog(i) => Adopted(H, FullLog(i), g, l, m.term)
    <3>1. SUFFICES ASSUME g = s.data, ~Below(s.data, FullLog(i))
                   PROVE  Adopted(H, FullLog(i), g, l, m.term)
      BY <1>9
    <3>2. FullLog(i) \in Seq(Entry)
      BY Facts
    <3>3. ~Below(l, FullLog(i))
      BY <1>2, <1>3, <1>4, <3>1, <3>2, BelowFacts
    <3>4. ASSUME NEW p \in H, Below(p, l), Below(p, FullLog(i))
          PROVE  Below(p, s.data)
      <4>1. p \in Seq(Entry)
        BY <1>0, TermFacts
      <4>2. Below(p, s.data) \/ Below(s.data, p)
        BY <1>2, <1>3, <1>4, <3>4, <4>1, BelowFacts
      <4>3. ~Below(s.data, p)
        BY <1>2, <3>1, <3>2, <3>4, <4>1, BelowFacts
      <4> QED BY <4>2, <4>3
    <3> QED BY <1>3, <2>2, <3>1, <3>3, <3>4 DEF Adopted
  <2>5. Logs'[i] = Logs[i] \/ Adopted(H, Logs[i], Logs'[i], l, Terms'[i])
    BY <1>7, <2>1, <2>4
  <2>6. \A j \in Server \ {i} : Logs'[j] = Logs[j]
    BY <1>6, <2>1
  <2> QED BY <2>1, <2>3, <2>5, <2>6 DEF Moves
<1>12. NodeInv'
  <2>1. \A j \in Server : /\ Len(snap'[j].data) = snap'[j].index
                          /\ snap'[j].term = LastTerm(snap'[j].data)
    BY <1>0, <1>2 DEF NodeInv
  <2> QED BY <1>11, <2>1, NodesStay
<1>13. A \cup {} = A
  OBVIOUS
<1>14. CommitInv(H, A)'
  <2>1. Below(s.data, g) /\ g \in Seq(Entry)
    <3>1. g \in Seq(Entry) /\ snap'[i] = s /\ snap'[i].data \in Seq(Entry)
          /\ log'[i] \in Seq(Entry)
      BY <1>0, <1>7, FactsAfter
    <3>2. LogAfterInstall(i, s) \in Seq(Entry)
      BY <1>0, <3>1
    <3> QED BY <1>2, <1>8, <3>1, <3>2, ConcatBelow
  <2>2. s.data = Pre(g, s.index) /\ s.index <= Len(g)
    <3>1. s.data = Pre(g, Len(s.data)) /\ Len(s.data) \in 0..Len(g)
      BY <1>2, <2>1, BelowFacts
    <3> QED BY <1>2, <3>1
  <2>3. ASSUME NEW j \in Server PROVE NodeCommit(H, A, j)'
    <3>1. CASE j = i
      <4>1. /\ commitIndex'[i] = s.index /\ lastApplied'[i] = s.index
            /\ sm'[i] = s.data
        BY <1>0
      <4> QED BY <1>2, <1>7, <1>10, <2>2, <3>1, <4>1 DEF NodeCommit
    <3>2. CASE j # i
      <4>1. /\ commitIndex'[j] = commitIndex[j] /\ sm'[j] = sm[j]
            /\ lastApplied'[j] = lastApplied[j]
        BY <1>0, <3>2
      <4>2. /\ commitIndex[j] <= Len(FullLog(j)')
            /\ Settled(H, A \cup {}, Pre(FullLog(j)', commitIndex[j]), hard'[j].term)
            /\ sm[j] = Pre(FullLog(j)', lastApplied[j])
        BY <1>11, CommitStays
      <4> QED BY <1>13, <4>1, <4>2 DEF NodeCommit
    <3> QED BY <3>1, <3>2
  <2>4. ASSUME NEW c \in committed' PROVE CommitOk(H, A, c)'
    <3>1. CommitInv(H, A) /\ committed' = committed
      BY DEF SafetyInv, ghostVars
    <3> QED BY <3>1 DEF CommitInv, CommitOk
  <2> QED BY <2>3, <2>4 DEF CommitInv
<1>15. ASSUME NEW r \in msgs' \ msgs PROVE MessageOk(H, A, r)'
  <2>1. r = SnapshotReply(m, i, m.term)
    BY <1>15 DEF Reply
  <2>2. MessageOk(H, A, SnapshotReply(m, i, m.term))'
    BY <1>1, <1>10, SnapshotReplies
  <2> QED BY <2>1, <2>2
<1>16. NewVotesOk(H, A) /\ NewMatchesOk(H, A) /\ votes' = votes
  BY NothingNew DEF ghostVars
<1>17. SafetyInv(H, A \cup {})'
  BY <1>10, <1>11, <1>12, <1>13, <1>14, <1>15, <1>16, SteadyStep
<1>18. CommitKept
  BY <1>11, MovesKept
<1> QED BY <1>13, <1>17, <1>18

\* HandleInstallSnapshot.
LEMMA SafeInstall ==
    ASSUME TypeInv, TypeInv', VoteInv, VoteInv', NEW H, NEW A,
           SafetyInv(H, A), NEW i \in Server, NEW m \in msgs,
           HandleInstallSnapshot(i, m)
    PROVE  CommitKept /\ SafetyInv(H, A)'
<1>0. /\ m.type = "InstallSnapshot" /\ m.term \in Nat /\ MessageOk(H, A, m)
      /\ UNCHANGED <<matchIndex, ghostVars>>
  BY MessageTypes DEF TypeInv, HandleInstallSnapshot, InstallSnapshotArgs,
                      leaderVars, SafetyInv, MessageInv
<1>1. CASE Refuses(i, m)
  <2>1. /\ UNCHANGED <<hardVars, logVars, state, matchIndex, commitIndex,
                       applyVars, ghostVars>>
        /\ Reply(m, SnapshotReply(m, i, currentTerm[i]))
    BY <1>0, <1>1 DEF HandleInstallSnapshot
  <2>2. SteadyRoles
    BY <2>1, SameRoles DEF ghostVars
  <2>3. PICK t : t = currentTerm[i]
    OBVIOUS
  <2>4. MessageOk(H, A, SnapshotReply(m, i, t))'
    BY <1>0, <2>2, SnapshotReplies
  <2>5. \A r \in msgs' \ msgs : MessageOk(H, A, r)'
    BY <2>1, <2>3, <2>4 DEF Reply
  <2>6. SafetyInv(H, A)'
    BY <2>1, <2>5, SafeIdle
  <2> QED BY <2>1, <2>6 DEF CommitKept
<1>2. CASE ~Refuses(i, m) /\ Covered(i, m.snapshot)
  <2>1. /\ BecomeFollower(i, m.term)
        /\ UNCHANGED <<logVars, matchIndex, commitIndex, applyVars, ghostVars>>
        /\ Reply(m, SnapshotReply(m, i, m.term))
    BY <1>0, <1>2 DEF HandleInstallSnapshot, FollowLeader
  <2>2. SteadyRoles
    <3>1. UNCHANGED <<votes, elections>> /\ UNCHANGED <<log, snap>>
      BY <2>1 DEF ghostVars, logVars
    <3>2. \A j \in Server : snap[j].index \in Nat
      BY DEF TypeInv, TypeOK, Snapshot
    <3>3. /\ \A j \in Server : snap[j].index <= snap'[j].index
          /\ \A j \in Server \ {i} : FullLog(j)' = FullLog(j)
      BY <3>1, <3>2 DEF FullLog
    <3> QED BY <1>0, <2>1, <3>1, <3>3, FollowRoles
  <2>3. MessageOk(H, A, SnapshotReply(m, i, m.term))'
    BY <1>0, <2>2, SnapshotReplies
  <2>4. \A r \in msgs' \ msgs : MessageOk(H, A, r)'
    BY <2>1, <2>3 DEF Reply
  <2>5. SafetyInv(H, A)'
    BY <1>0, <2>1, <2>4, SafeFollow
  <2> QED BY <2>1, <2>5 DEF CommitKept
<1>3. CASE ~Refuses(i, m) /\ ~Covered(i, m.snapshot)
  <2>1. PICK s : s = m.snapshot
    OBVIOUS
  <2>2. /\ FollowLeader(i, m) /\ Reply(m, SnapshotReply(m, i, m.term))
        /\ log' = [log EXCEPT ![i] = LogAfterInstall(i, s)]
        /\ snap' = [snap EXCEPT ![i] = s]
        /\ sm' = [sm EXCEPT ![i] = s.data]
        /\ lastApplied' = [lastApplied EXCEPT ![i] = s.index]
        /\ commitIndex' = [commitIndex EXCEPT ![i] = s.index]
    BY <1>3, <2>1 DEF HandleInstallSnapshot
  <2> QED BY <1>0, <1>3, <2>1, <2>2, SafeTake
<1> QED BY <1>1, <1>2, <1>3

\* One round of the apply loop.
LEMMA SafeApply ==
    ASSUME TypeInv, TypeInv', VoteInv, VoteInv', NEW H, NEW A,
           SafetyInv(H, A), NEW i \in Server, Apply(i)
    PROVE  CommitKept /\ SafetyInv(H, A)'
<1>0. /\ HistoryInv(H) /\ FullLog(i) \in H /\ NodeInv /\ NodeCommit(H, A, i)
      /\ log \in [Server -> Seq(Entry)] /\ snap \in [Server -> Snapshot]
      /\ sm \in [Server -> Seq(Entry)] /\ lastApplied \in [Server -> Nat]
      /\ \A j \in Server : snap[j].index \in Nat /\ hard[j].term \in Nat
      /\ lastApplied[i] < commitIndex[i]
  BY DEF SafetyInv, LogsInv, Logs, TypeInv, TypeOK, Snapshot, CommitInv, Apply
<1>1. PICK n : n = lastApplied[i] + 1
  OBVIOUS
<1>2. /\ HasEntry(i, n) /\ n \in 1..Len(FullLog(i))
      /\ Append(sm[i], At(i, n)) = Pre(FullLog(i), n)
      /\ TermAt(i, n) = LastTerm(Pre(FullLog(i), n))
      /\ Pre(FullLog(i), n) \o From(i, n + 1) = FullLog(i)
  <2>1. /\ sm[i] = Pre(FullLog(i), lastApplied[i])
        /\ commitIndex[i] <= Len(FullLog(i))
    BY <1>0 DEF NodeCommit
  <2> QED BY <1>0, <1>1, <2>1, ApplyEffect
<1>3. PICK d : d = Pre(FullLog(i), n)
  OBVIOUS
<1>4. Len(d) = n /\ d \in Seq(Entry)
  <2>1. FullLog(i) \in Seq(Entry) /\ Len(FullLog(i)) \in Nat
    BY Facts
  <2>2. n \in 0..Len(FullLog(i))
    BY <1>2, <2>1
  <2> QED BY <1>3, <2>1, <2>2, PreFacts
<1>5. /\ lastApplied' = [lastApplied EXCEPT ![i] = n]
      /\ sm' = [sm EXCEPT ![i] = d]
      /\ \/ /\ snap' = [snap EXCEPT ![i] =
                  [index |-> n, term |-> LastTerm(d), data |-> d]]
            /\ log' = [log EXCEPT ![i] = From(i, n + 1)]
         \/ UNCHANGED logVars
      /\ UNCHANGED <<hardVars, state, matchIndex, commitIndex, msgs, ghostVars>>
  BY <1>1, <1>2, <1>3 DEF Apply, leaderVars
<1>6. snap[i].index <= n
  BY <1>0, <1>1 DEF TypeInv, IndexOrder
<1>7. /\ \A j \in Server : FullLog(j)' = FullLog(j)
      /\ \A j \in Server : snap[j].index <= snap'[j].index
      /\ \A j \in Server : /\ Len(snap'[j].data) = snap'[j].index
                           /\ snap'[j].term = LastTerm(snap'[j].data)
  <2>1. CASE UNCHANGED logVars
    BY <1>0, <2>1 DEF logVars, FullLog, NodeInv
  <2>2. CASE /\ snap' = [snap EXCEPT ![i] =
                   [index |-> n, term |-> LastTerm(d), data |-> d]]
             /\ log' = [log EXCEPT ![i] = From(i, n + 1)]
    <3>1. \A j \in Server \ {i} : /\ snap'[j] = snap[j] /\ log'[j] = log[j]
      BY <1>0, <2>2
    <3>2. /\ snap'[i].index = n /\ snap'[i].term = LastTerm(d)
          /\ snap'[i].data = d /\ log'[i] = From(i, n + 1)
      BY <1>0, <2>2
    <3>3. FullLog(i)' = FullLog(i)
      BY <1>2, <1>3, <3>2 DEF FullLog
    <3>4. \A j \in Server : FullLog(j)' = FullLog(j)
      BY <3>1, <3>3 DEF FullLog
    <3>5. \A j \in Server : snap[j].index <= snap'[j].index
      <4>1. TAKE j \in Server
      <4>2. CASE j = i
        BY <1>6, <3>2, <4>2
      <4>3. CASE j # i
        BY <1>0, <3>1, <4>3
      <4> QED BY <4>2, <4>3
    <3>6. \A j \in Server : /\ Len(snap'[j].data) = snap'[j].index
                            /\ snap'[j].term = LastTerm(snap'[j].data)
      BY <1>0, <1>4, <3>1, <3>2 DEF NodeInv
    <3> QED BY <3>4, <3>5, <3>6
  <2> QED BY <1>5, <2>1, <2>2
<1>8. SteadyRoles
  BY <1>0, <1>5, <1>7 DEF SteadyRoles, hardVars, ghostVars
<1>9. Moves(Logs, Terms, H, Logs', Terms', i, {})
  BY <1>7, <1>8, LogsStay DEF SteadyRoles
<1>10. NodeInv'
  BY <1>7, <1>9, NodesStay
<1>11. A \cup {} = A
  OBVIOUS
<1>12. CommitInv(H, A)'
  <2>1. ASSUME NEW j \in Server PROVE NodeCommit(H, A, j)'
    <3>1. /\ commitIndex[j] <= Len(FullLog(j))
          /\ Settled(H, A, Pre(FullLog(j), commitIndex[j]), hard[j].term)
          /\ sm[j] = Pre(FullLog(j), lastApplied[j])
      BY DEF SafetyInv, CommitInv, NodeCommit
    <3>2. sm'[j] = Pre(FullLog(j), lastApplied'[j])
      <4>1. CASE j = i
        BY <1>0, <1>3, <1>5, <4>1
      <4>2. CASE j # i
        BY <1>0, <1>5, <3>1, <4>2
      <4> QED BY <4>1, <4>2
    <3>3. commitIndex'[j] = commitIndex[j] /\ hard'[j] = hard[j]
      BY <1>5 DEF hardVars
    <3> QED BY <1>7, <3>1, <3>2, <3>3 DEF NodeCommit
  <2>2. ASSUME NEW c \in committed' PROVE CommitOk(H, A, c)'
    <3>1. CommitInv(H, A) /\ committed' = committed
      BY <1>5 DEF SafetyInv, ghostVars
    <3> QED BY <3>1 DEF CommitInv, CommitOk
  <2> QED BY <2>1, <2>2 DEF CommitInv
<1>13. /\ NewVotesOk(H, A) /\ NewMatchesOk(H, A) /\ votes' = votes
       /\ \A m \in msgs' \ msgs : MessageOk(H, A, m)'
  BY <1>5, NothingNew DEF ghostVars
<1>14. SafetyInv(H, A \cup {})'
  BY <1>8, <1>9, <1>10, <1>11, <1>12, <1>13, SteadyStep
<1>15. CommitKept
  BY <1>9, MovesKept
<1> QED BY <1>11, <1>14, <1>15

-----------------------------------------------------------------------------
(* Crashes *)

\* New and Start on what the disk of i holds: the snapshot is where the node
\* resumes, and the log behind it is what the crash left.
LEMMA SafeRestart ==
    ASSUME TypeInv, TypeInv', VoteInv, VoteInv', NEW H, NEW A,
           SafetyInv(H, A), NEW i \in Server, NEW h, NEW l,
           RestartWith(i, h, l, snap[i]), hard[i].term <= h.term,
           Moves(Logs, Terms, H, Logs', Terms', i, {}), msgs' \subseteq msgs
    PROVE  SafetyInv(H, A)'
<1>0. /\ HistoryInv(H) /\ NodeInv /\ snap \in [Server -> Snapshot]
      /\ log \in [Server -> Seq(Entry)] /\ commitIndex \in [Server -> Nat]
      /\ sm \in [Server -> Seq(Entry)] /\ lastApplied \in [Server -> Nat]
      /\ state \in [Server -> {Follower, Candidate, Leader}]
      /\ currentTerm \in [Server -> Nat]
      /\ matchIndex \in [Server -> [Server -> Nat]]
      /\ hard \in [Server -> [term : Nat, votedFor : Server \cup {Nil}]]
      /\ \A j \in Server : snap[j].index \in Nat /\ hard[j].term \in Nat
  BY DEF SafetyInv, LogsInv, TypeInv, TypeOK, Snapshot
<1>1. /\ hard' = [hard EXCEPT ![i] = h] /\ snap' = snap
      /\ currentTerm' = [currentTerm EXCEPT ![i] = h.term]
      /\ log' = [log EXCEPT ![i] = l]
      /\ state' = [state EXCEPT ![i] = Follower]
      /\ matchIndex' = [matchIndex EXCEPT ![i] = [p \in Server |-> 0]]
      /\ commitIndex' = [commitIndex EXCEPT ![i] = snap[i].index]
      /\ lastApplied' = [lastApplied EXCEPT ![i] = snap[i].index]
      /\ sm' = [sm EXCEPT ![i] = snap[i].data]
      /\ UNCHANGED <<votes, elections, committed>>
  BY <1>0 DEF RestartWith, ghostVars
<1>2. /\ hard'[i] = h /\ state'[i] = Follower
      /\ \A j \in Server \ {i} :
            /\ hard'[j] = hard[j] /\ state'[j] = state[j]
            /\ currentTerm'[j] = currentTerm[j] /\ matchIndex'[j] = matchIndex[j]
            /\ FullLog(j)' = FullLog(j)
            /\ commitIndex'[j] = commitIndex[j] /\ sm'[j] = sm[j]
            /\ lastApplied'[j] = lastApplied[j]
  BY <1>0, <1>1 DEF FullLog
<1>3. SteadyRoles
  <2>1. \A j \in Server : hard[j].term <= hard'[j].term
    <3>1. TAKE j \in Server
    <3>2. CASE j = i
      BY <1>2, <3>2
    <3>3. CASE j # i
      <4>1. hard[j].term \in Nat /\ hard'[j] = hard[j]
        BY <1>0, <1>2, <3>3, Zenon
      <4> QED BY <4>1
    <3> QED BY <3>2, <3>3
  <2>2. \A j \in Server : snap[j].index <= snap'[j].index
    <3>1. TAKE j \in Server
    <3>2. snap[j].index \in Nat /\ snap' = snap
      BY <1>0, <1>1, Zenon
    <3> QED BY <3>2
  <2> QED BY <1>1, <1>2, <2>1, <2>2 DEF SteadyRoles
<1>4. NodeInv'
  <2>1. \A j \in Server : /\ Len(snap'[j].data) = snap'[j].index
                          /\ snap'[j].term = LastTerm(snap'[j].data)
    BY <1>0, <1>1 DEF NodeInv
  <2> QED BY <2>1, NodesStay
<1>5. NewVotesOk(H, A) /\ NewMatchesOk(H, A)
  <2>1. NewVotesOk(H, A)
    BY <1>1, NothingNew
  <2>2. NewMatchesOk(H, A)
    <3>1. \A j \in Server : state'[j] = Leader => matchIndex'[j] = matchIndex[j]
      BY <1>2 DEF Leader, Follower
    <3> QED BY <3>1 DEF NewMatchesOk
  <2> QED BY <2>1, <2>2
<1>6. A \cup {} = A
  OBVIOUS
<1>7. CommitInv(H, A)'
  <2>1. ASSUME NEW j \in Server
        PROVE  /\ commitIndex[j] <= Len(FullLog(j)')
               /\ \A n \in 0..commitIndex[j] :
                     Pre(FullLog(j)', n) = Pre(FullLog(j), n)
               /\ Settled(H, A, Pre(FullLog(j)', commitIndex[j]), hard'[j].term)
               /\ sm[j] = Pre(FullLog(j)', lastApplied[j])
    <3>1. /\ commitIndex[j] <= Len(FullLog(j)')
          /\ \A n \in 0..commitIndex[j] :
                Pre(FullLog(j)', n) = Pre(FullLog(j), n)
          /\ Settled(H, A \cup {}, Pre(FullLog(j)', commitIndex[j]), hard'[j].term)
          /\ sm[j] = Pre(FullLog(j)', lastApplied[j])
      BY CommitStays
    <3> QED BY <1>6, <3>1
  <2>2. ASSUME NEW j \in Server PROVE NodeCommit(H, A, j)'
    <3>1. CASE j # i
      BY <1>2, <2>1, <3>1 DEF NodeCommit
    <3>2. CASE j = i
      <4>1. /\ commitIndex'[i] = snap[i].index /\ sm'[i] = snap[i].data
            /\ lastApplied'[i] = snap[i].index
        BY <1>0, <1>1
      <4>2. PICK g : g = FullLog(i)'
        OBVIOUS
      <4>3. g \in H /\ g \in Seq(Entry) /\ Len(g) \in Nat
        <5>1. g \in H
          BY <4>2 DEF Moves, Logs
        <5> QED BY <1>0, <5>1, TermFacts
      <4>4. /\ commitIndex[i] \in Nat /\ lastApplied[i] \in Nat
            /\ snap[i].index <= lastApplied[i] /\ lastApplied[i] <= commitIndex[i]
        BY Facts
      <4>5. /\ commitIndex[i] \in 0..Len(g) /\ snap[i].index \in 0..commitIndex[i]
            /\ snap[i].index <= Len(g)
        <5>1. i \in Server /\ snap[i].index \in Nat
          BY <1>0, Facts
        <5>2. commitIndex[i] <= Len(FullLog(i)')
          BY <2>1, <5>1, Zenon
        <5>3. commitIndex[i] <= Len(g)
          BY <4>2, <5>2, Zenon
        <5>4. Len(g) \in Nat
          BY <4>3
        <5> QED BY <4>4, <5>1, <5>3, <5>4
      <4>6. snap[i].data = Pre(g, snap[i].index)
        <5>1. snap[i].data = Pre(FullLog(i), snap[i].index)
          BY <1>0, FullLogFacts
        <5> QED BY <2>1, <4>2, <4>5, <5>1
      <4>7. Settled(H, A, Pre(g, snap[i].index), hard'[i].term)
        <5>1. PICK t : t = hard'[i].term
          OBVIOUS
        <5>2. Settled(H, A, Pre(g, commitIndex[i]), t)
          BY <2>1, <4>2, <5>1
        <5>3. Settled(H, A, Pre(g, snap[i].index), t)
          BY <1>0, <4>3, <4>5, <5>2, CommitLower
        <5> QED BY <5>1, <5>3
      <4> QED BY <3>2, <4>1, <4>2, <4>5, <4>6, <4>7 DEF NodeCommit
    <3> QED BY <3>1, <3>2
  <2>3. ASSUME NEW c \in committed' PROVE CommitOk(H, A, c)'
    <3>1. CommitInv(H, A) /\ committed' = committed
      BY <1>1 DEF SafetyInv
    <3> QED BY <3>1 DEF CommitInv, CommitOk
  <2> QED BY <2>2, <2>3 DEF CommitInv
<1>8. SafetyInv(H, A \cup {})'
  <2>1. \A m \in msgs' \ msgs : MessageOk(H, A \cup {}, m)'
    OBVIOUS
  <2> QED BY <1>1, <1>3, <1>4, <1>5, <1>6, <1>7, <2>1, SteadyStep
<1> QED BY <1>6, <1>8

\* A crash outside the handlers, and one between the two writes of
\* HandleRequestVote: no log changes.
LEMMA SafeCrash ==
    ASSUME TypeInv, TypeInv', VoteInv, VoteInv', NEW H, NEW A,
           SafetyInv(H, A), NEW i \in Server, NEW h,
           RestartWith(i, h, log[i], snap[i]), hard[i].term <= h.term,
           msgs' \subseteq msgs
    PROVE  CommitKept /\ SafetyInv(H, A)'
<1>0. /\ snap \in [Server -> Snapshot] /\ log \in [Server -> Seq(Entry)]
      /\ hard \in [Server -> [term : Nat, votedFor : Server \cup {Nil}]]
      /\ \A j \in Server : hard[j].term \in Nat
  BY DEF TypeInv, TypeOK
<1>1. snap' = snap /\ log' = log /\ hard' = [hard EXCEPT ![i] = h]
  BY <1>0 DEF RestartWith
<1>2. \A j \in Server : FullLog(j)' = FullLog(j)
  BY <1>1 DEF FullLog
<1>3. ASSUME NEW j \in Server PROVE hard[j].term <= hard'[j].term
  <2>1. CASE j = i
    BY <1>0, <1>1, <2>1
  <2>2. CASE j # i
    BY <1>0, <1>1, <2>2
  <2> QED BY <2>1, <2>2
<1>4. Moves(Logs, Terms, H, Logs', Terms', i, {})
  BY <1>2, <1>3, LogsStay
<1>5. PICK l : l = log[i]
  OBVIOUS
<1>6. RestartWith(i, h, l, snap[i])
  BY <1>5
<1>7. SafetyInv(H, A)'
  BY <1>4, <1>6, SafeRestart
<1> QED BY <1>4, <1>7, MovesKept

\* A crash between two log writes of HandleAppendEntries.
LEMMA SafeCrashInAppend ==
    ASSUME TypeInv, TypeInv', VoteInv, VoteInv', NEW H, NEW A,
           SafetyInv(H, A), NEW i \in Server, NEW m \in msgs,
           CrashInAppend(i, m)
    PROVE  CommitKept /\ SafetyInv(H, A)'
<1>0. /\ snap \in [Server -> Snapshot] /\ log \in [Server -> Seq(Entry)]
      /\ hard \in [Server -> [term : Nat, votedFor : Server \cup {Nil}]]
      /\ \A j \in Server : hard[j].term \in Nat
      /\ m.type = "AppendEntries" /\ ~Refuses(i, m) /\ Consistent(i, m)
      /\ msgs' \subseteq msgs
  BY DEF TypeInv, TypeOK, CrashInAppend, Consume
<1>1. m \in AppendEntriesArgs /\ \E h \in H : SliceOf(H, A, h, m)
  BY <1>0, ConsistentSlice
<1>2. PICK h \in H : SliceOf(H, A, h, m)
  BY <1>1
<1>3. PICK l \in PartialLogs(i, m) : RestartWith(i, HardAfterTerm(i, m), l, snap[i])
  BY DEF CrashInAppend
<1>4. PICK u : u = HardAfterTerm(i, m)
  OBVIOUS
<1>5. u.term = m.term /\ hard[i].term <= m.term
  <2>1. /\ ~closed[i] /\ hard[i].term = currentTerm[i]
        /\ currentTerm[i] \in Nat /\ m.term \in Nat
    BY <1>0, <1>1, Facts DEF Refuses, AppendEntriesArgs
  <2>2. m.term > currentTerm[i] \/ m.term = currentTerm[i]
    BY <1>0, <2>1 DEF Refuses
  <2>3. CASE m.term > currentTerm[i]
    BY <1>4, <2>1, <2>3 DEF HardAfterTerm
  <2>4. CASE m.term = currentTerm[i]
    <3>1. u = hard[i]
      BY <1>4, <2>1, <2>4 DEF HardAfterTerm
    <3> QED BY <2>1, <2>4, <3>1
  <2> QED BY <2>2, <2>3, <2>4
<1>6. /\ snap' = snap /\ log' = [log EXCEPT ![i] = l]
      /\ hard' = [hard EXCEPT ![i] = u]
  BY <1>0, <1>3, <1>4 DEF RestartWith
<1>7. ASSUME NEW j \in Server PROVE hard[j].term <= hard'[j].term
  <2>1. CASE j = i
    BY <1>0, <1>5, <1>6, <2>1
  <2>2. CASE j # i
    BY <1>0, <1>6, <2>2
  <2> QED BY <2>1, <2>2
<1>8. /\ hard'[i].term = m.term /\ FullLog(i)' = snap[i].data \o l
      /\ \A j \in Server \ {i} : FullLog(j)' = FullLog(j)
  BY <1>0, <1>5, <1>6 DEF FullLog
<1>9. /\ Missing(i, m) # {}
      /\ \E n \in (Min(Missing(i, m)) - 1)..Len(m.entries) :
            FullLog(i)' = snap[i].data \o
               (Kept(i, m, Min(Missing(i, m)))
                  \o SubSeq(m.entries, Min(Missing(i, m)), n))
  <2>1. Missing(i, m) # {}
    BY <1>3 DEF PartialLogs
  <2>2. PICK k : k = Min(Missing(i, m))
    OBVIOUS
  <2>3. PICK n \in (k - 1)..(Len(m.entries) - 1) :
           l = Kept(i, m, k) \o SubSeq(m.entries, k, n)
    BY <1>3, <2>1, <2>2 DEF PartialLogs
  <2>4. k \in 1..Len(m.entries) /\ Len(m.entries) \in Nat
    <3>1. Replaces(H, h, i, m, k)
      <4>1. HistoryInv(H) /\ FullLog(i) \in H /\ NodeInv
        BY DEF SafetyInv, LogsInv, Logs
      <4> QED BY <1>0, <1>1, <1>2, <2>1, <2>2, <4>1, AppendEffect, Zenon
    <3> QED BY <1>1, <3>1 DEF Replaces, AppendEntriesArgs
  <2>5. n \in (k - 1)..Len(m.entries)
    BY <2>4
  <2> QED BY <1>8, <2>1, <2>2, <2>3, <2>5
<1>10. Moves(Logs, Terms, H, Logs', Terms', i, {})
  <2>1. /\ {} \subseteq {i} \X H
        /\ \A p \in H : <<i, p>> \in {} =>
              p # <<>> /\ LastTerm(p) = m.term /\ Below(p, FullLog(i)')
    OBVIOUS
  <2> QED BY <1>0, <1>1, <1>2, <1>7, <1>8, <1>9, <2>1, AppendMoves
<1>11. RestartWith(i, u, l, snap[i]) /\ hard[i].term <= u.term
  BY <1>3, <1>4, <1>5
<1>12. SafetyInv(H, A)'
  BY <1>0, <1>10, <1>11, SafeRestart
<1> QED BY <1>10, <1>12, MovesKept

-----------------------------------------------------------------------------
(* Commitment by counting *)

\* What maybeAdvanceCommitLocked may advance to is held by a majority in the
\* leader's term.
LEMMA CommittableChosen ==
    ASSUME TypeInv, VoteInv, NEW H, NEW A, SafetyInv(H, A), NEW i \in Server,
           state[i] = Leader, NEW match \in [Server -> Nat],
           \A q \in Server \ {i} :
              \/ match[q] <= snap[i].index
              \/ Confirmed(H, A, q, currentTerm[i], match[q]),
           NEW n \in Committable(i, match)
    PROVE  /\ n \in 1..Len(FullLog(i)) /\ Pre(FullLog(i), n) \in H
           /\ LastTerm(Pre(FullLog(i), n)) = currentTerm[i]
           /\ Chosen(A, Pre(FullLog(i), n))
<1>0. /\ HistoryInv(H) /\ FullLog(i) \in H /\ NodeInv /\ LeaderInv(H, A)
  BY DEF SafetyInv, LogsInv, Logs
<1>1. /\ n \in (commitIndex[i] + 1)..LastIndex(i)
      /\ TermAt(i, n) = currentTerm[i]
      /\ Majority({i} \cup {q \in Server \ {i} : match[q] >= n})
  BY DEF Committable
<1>2. /\ FullLog(i) \in Seq(Entry) /\ Len(FullLog(i)) = LastIndex(i)
      /\ LastIndex(i) \in Nat /\ commitIndex[i] \in Nat /\ snap[i].index \in Nat
      /\ lastApplied[i] \in Nat
      /\ snap[i].index <= lastApplied[i] /\ lastApplied[i] <= commitIndex[i]
  BY <1>0, FullLogFacts, Facts
<1>3. /\ n \in Nat /\ n >= 1 /\ n > snap[i].index /\ n <= LastIndex(i)
      /\ snap[i].index <= n
  BY <1>1, <1>2
<1>4. n \in 1..Len(FullLog(i)) /\ n \in 0..Len(FullLog(i))
  BY <1>2, <1>3
<1>5. FullLog(i)[n].term = currentTerm[i]
  BY <1>0, <1>1, <1>3, TermAtFacts
<1>6. /\ Pre(FullLog(i), n) \in H
      /\ LastTerm(Pre(FullLog(i), n)) = currentTerm[i]
  <2>1. Pre(FullLog(i), n) \in H
    BY <1>0, <1>4 DEF HistoryInv
  <2>2. LastTerm(Pre(FullLog(i), n)) = FullLog(i)[n].term
    BY <1>2, <1>3, <1>4, PreFacts
  <2> QED BY <1>5, <2>1, <2>2
<1>7. ASSUME NEW q \in Server \ {i}, match[q] >= n
      PROVE  <<q, Pre(FullLog(i), n)>> \in A
  <2>1. Confirmed(H, A, q, currentTerm[i], match[q])
    <3>1. ~(match[q] <= snap[i].index)
      <4>1. match[q] \in Nat
        OBVIOUS
      <4> QED BY <1>2, <1>3, <1>7, <4>1
    <3> QED BY <3>1
  <2>2. PICK h \in H : /\ Len(h) = match[q] /\ LastTerm(h) = currentTerm[i]
                       /\ Acked(A, q, h, currentTerm[i])
    BY <2>1 DEF Confirmed
  <2>3. Below(h, FullLog(i)) /\ h \in Seq(Entry) /\ Len(h) \in Nat
    BY <1>0, <2>2, TermFacts DEF LeaderInv
  <2>4. n \in 1..Len(h) /\ n \in 0..Len(h)
    BY <1>3, <1>7, <2>2, <2>3
  <2>5. h[n].term = currentTerm[i]
    BY <1>5, <2>3, <2>4 DEF Below
  <2>6. <<q, Pre(h, n)>> \in A
    BY <2>2, <2>4, <2>5 DEF Acked
  <2>7. Pre(h, n) = Pre(FullLog(i), n)
    <3>1. n <= Len(FullLog(i))
      BY <1>2, <1>3
    <3> QED BY <1>0, <1>5, <2>4, <2>5, <3>1, Matching
  <2> QED BY <2>6, <2>7
<1>8. <<i, Pre(FullLog(i), n)>> \in A
  BY <1>0, <1>4, <1>5 DEF LeaderInv, Acked
<1>9. Chosen(A, Pre(FullLog(i), n))
  BY <1>1, <1>7, <1>8 DEF Chosen
<1> QED BY <1>4, <1>6, <1>9

\* A leader that records a follower's progress.
LEMMA SafeRecord ==
    ASSUME TypeInv, TypeInv', VoteInv, VoteInv', NEW H, NEW A,
           SafetyInv(H, A), NEW i \in Server, state[i] = Leader,
           NEW p \in Server, NEW n \in Nat, RecordMatch(i, p, n),
           n <= snap[i].index \/ Confirmed(H, A, p, currentTerm[i], n),
           UNCHANGED <<hardVars, logVars, state, applyVars, votes, elections>>,
           msgs' \subseteq msgs
    PROVE  SafetyInv(H, A)'
<1>0. /\ HistoryInv(H) /\ FullLog(i) \in H /\ NodeInv /\ LeaderInv(H, A)
      /\ NodeCommit(H, A, i)
      /\ matchIndex \in [Server -> [Server -> Nat]]
      /\ commitIndex \in [Server -> Nat]
  BY DEF SafetyInv, LogsInv, Logs, TypeInv, TypeOK, CommitInv
<1>1. PICK best : best = MaxU(n, matchIndex[i][p])
  OBVIOUS
<1>2. best \in Nat /\ (best = n \/ best = matchIndex[i][p])
  BY <1>0, <1>1 DEF MaxU
<1>3. PICK match : match = [matchIndex[i] EXCEPT ![p] = best]
  OBVIOUS
<1>4. /\ match \in [Server -> Nat] /\ match[p] = best
      /\ \A q \in Server \ {p} : match[q] = matchIndex[i][q]
  BY <1>0, <1>2, <1>3
<1>5. \A q \in Server \ {i} :
         \/ match[q] = matchIndex[i][q]
         \/ match[q] <= snap[i].index
         \/ Confirmed(H, A, q, currentTerm[i], match[q])
  BY <1>2, <1>4
<1>6. \A q \in Server \ {i} :
         \/ match[q] <= snap[i].index
         \/ Confirmed(H, A, q, currentTerm[i], match[q])
  BY <1>0, <1>5 DEF LeaderInv
<1>7. matchIndex' = [matchIndex EXCEPT ![i][p] = best] /\ AdvanceCommit(i, match)
  BY <1>1, <1>3 DEF RecordMatch
<1>8. matchIndex'[i] = match /\ \A j \in Server \ {i} : matchIndex'[j] = matchIndex[j]
  BY <1>0, <1>3, <1>7
<1>9. NewMatchesOk(H, A)
  <2>1. SUFFICES ASSUME NEW j \in Server, NEW q \in Server \ {j}
                 PROVE  \/ matchIndex'[j][q] = matchIndex[j][q]
                        \/ matchIndex'[j][q] <= snap[j].index
                        \/ Confirmed(H, A, q, currentTerm[j], matchIndex'[j][q])
    BY DEF NewMatchesOk
  <2>2. CASE j = i
    BY <1>5, <1>8, <2>2
  <2>3. CASE j # i
    BY <1>8, <2>3
  <2> QED BY <2>2, <2>3
<1>10. PICK S : S = {commitIndex[i]} \cup Committable(i, match)
  OBVIOUS
<1>11. PICK c : c = Max(S)
  OBVIOUS
<1>12. /\ commitIndex' = [commitIndex EXCEPT ![i] = c]
       /\ committed' = committed \cup
            {[index |-> k, entry |-> At(i, k), by |-> currentTerm[i]] :
               k \in (commitIndex[i] + 1)..c}
  BY <1>7, <1>10, <1>11 DEF AdvanceCommit
<1>13. c \in S
  <2>1. LastIndex(i) \in Nat /\ commitIndex[i] \in Nat
    BY <1>0, LogTypes DEF TypeInv
  <2>2. commitIndex[i] + LastIndex(i) \in Nat
    BY <2>1
  <2>3. \A x \in Committable(i, match) :
           x \in (commitIndex[i] + 1)..LastIndex(i)
    BY DEF Committable
  <2>4. S \in SUBSET Nat /\ S # {}
        /\ \A x \in S : x <= commitIndex[i] + LastIndex(i)
    BY <1>10, <2>1, <2>3
  <2> QED BY <1>11, <2>2, <2>4, MaxNat
<1>14. SteadyRoles
  BY SameRoles
<1>15. /\ UNCHANGED logVars /\ votes' = votes /\ UNCHANGED <<lastApplied, sm>>
       /\ currentTerm' = currentTerm /\ hard' = hard
       /\ \A j \in Server : FullLog(j)' = FullLog(j)
  BY DEF applyVars, hardVars, logVars, FullLog
<1>16. Moves(Logs, Terms, H, Logs', Terms', i, {})
  BY <1>14, <1>15, LogsStay DEF SteadyRoles
<1>17. A \cup {} = A
  OBVIOUS
<1>18. /\ c <= Len(FullLog(i)) /\ Settled(H, A, Pre(FullLog(i), c), hard[i].term)
       /\ \A x \in committed' \ committed : CommitOk(H, A, x)
  <2>1. CASE c = commitIndex[i]
    <3>1. (commitIndex[i] + 1)..c = {}
      <4>1. commitIndex[i] \in Nat
        BY <1>0
      <4> QED BY <2>1, <4>1
    <3>2. committed' = committed
      BY <1>12, <3>1
    <3> QED BY <1>0, <2>1, <3>2 DEF NodeCommit
  <2>2. CASE c \in Committable(i, match)
    <3>1. /\ c \in 1..Len(FullLog(i)) /\ Pre(FullLog(i), c) \in H
          /\ LastTerm(Pre(FullLog(i), c)) = currentTerm[i]
          /\ Chosen(A, Pre(FullLog(i), c))
      BY <1>4, <1>6, <2>2, CommittableChosen
    <3>2. /\ FullLog(i) \in Seq(Entry) /\ Len(FullLog(i)) = LastIndex(i)
          /\ LastIndex(i) \in Nat /\ commitIndex[i] \in Nat
          /\ snap[i].index \in Nat /\ snap[i].index <= commitIndex[i]
          /\ hard[i].term = currentTerm[i] /\ currentTerm[i] \in Nat
      <4>1. /\ snap[i].index <= lastApplied[i] /\ lastApplied[i] <= commitIndex[i]
            /\ snap[i].index \in Nat /\ lastApplied[i] \in Nat
            /\ commitIndex[i] \in Nat
        BY Facts
      <4>2. snap[i].index <= commitIndex[i]
        BY <4>1
      <4> QED BY <1>0, <4>1, <4>2, FullLogFacts, Facts, LeaderFacts
    <3>3. c \in 0..Len(FullLog(i)) /\ c <= Len(FullLog(i))
      BY <3>1, <3>2
    <3>4. PICK g : g = Pre(FullLog(i), c)
      OBVIOUS
    <3>5. /\ Len(g) = c /\ g \in Seq(Entry) /\ \A k \in 1..c : g[k] = FullLog(i)[k]
          /\ g \in H /\ Chosen(A, g) /\ LastTerm(g) = currentTerm[i]
      BY <3>1, <3>2, <3>3, <3>4, PreFacts
    <3>6. Settled(H, A, g, hard[i].term)
      <4>1. Below(g, g) /\ LastTerm(g) <= hard[i].term
        BY <3>2, <3>5, BelowFacts
      <4> QED BY <3>5, <4>1 DEF Settled
    <3>7. ASSUME NEW x \in committed' \ committed PROVE CommitOk(H, A, x)
      <4>1. PICK k \in (commitIndex[i] + 1)..c :
               x = [index |-> k, entry |-> At(i, k), by |-> currentTerm[i]]
        BY <1>12, <3>7
      <4>2. k \in Nat /\ k > snap[i].index /\ k <= LastIndex(i) /\ k \in 1..c
        BY <3>2, <3>3
      <4>3. At(i, k) = FullLog(i)[k]
        <5>1. HasEntry(i, k)
          BY <4>2 DEF HasEntry
        <5> QED BY <1>0, <4>2, <5>1, TermAtFacts
      <4>4. x.index = k /\ x.entry = At(i, k) /\ x.by = currentTerm[i]
        BY <4>1
      <4> QED BY <3>5, <4>2, <4>3, <4>4 DEF CommitOk
    <3> QED BY <3>3, <3>4, <3>6, <3>7
  <2> QED BY <1>10, <1>13, <2>1, <2>2
<1>19. CommitInv(H, A \cup {})'
  <2>1. commitIndex'[i] = c /\ \A j \in Server \ {i} : commitIndex'[j] = commitIndex[j]
    BY <1>0, <1>12
  <2>2. /\ commitIndex'[i] <= Len(FullLog(i)')
        /\ Settled(H, A \cup {}, Pre(FullLog(i)', commitIndex'[i]), hard'[i].term)
    BY <1>15, <1>17, <1>18, <2>1
  <2>3. \A x \in committed' \ committed : CommitOk(H, A \cup {}, x)
    BY <1>17, <1>18
  <2> QED BY <1>15, <1>16, <2>1, <2>2, <2>3, CommitRaised
<1>20. NewVotesOk(H, A)
  BY <1>15, NothingNew
<1>21. CommitInv(H, A)'
  BY <1>17, <1>19
<1>22. \A m \in msgs' \ msgs : MessageOk(H, A, m)'
  OBVIOUS
<1> QED BY <1>9, <1>14, <1>15, <1>20, <1>21, <1>22, SameLogs

\* The two replies a leader handles.
LEMMA SafeReplies ==
    ASSUME TypeInv, TypeInv', VoteInv, VoteInv', NEW H, NEW A,
           SafetyInv(H, A), NEW i \in Server, NEW m \in msgs,
           HandleAppendReply(i, m) \/ HandleSnapshotReply(i, m)
    PROVE  SafetyInv(H, A)'
<1>1. /\ m.term \in Nat /\ m.src \in Server /\ m.match \in Nat
      /\ MessageOk(H, A, m)
  BY MessageTypes DEF TypeInv, HandleAppendReply, HandleSnapshotReply,
        AppendEntriesReply, InstallSnapshotReply, SafetyInv, MessageInv
<1>2. /\ UNCHANGED <<logVars, applyVars, votes, elections>>
      /\ msgs' \subseteq msgs
  BY DEF HandleAppendReply, HandleSnapshotReply, Consume
<1>3. CASE UNCHANGED <<hardVars, state, matchIndex, commitIndex, committed>>
  <2>1. UNCHANGED <<hardVars, logVars, state, matchIndex, commitIndex,
                    applyVars, ghostVars>>
    BY <1>2, <1>3 DEF ghostVars
  <2> QED BY <1>2, <2>1, SafeIdle
<1>4. CASE /\ BecomeFollower(i, m.term)
           /\ UNCHANGED <<matchIndex, commitIndex, committed>>
  <2>1. UNCHANGED <<logVars, matchIndex, commitIndex, applyVars, ghostVars>>
    BY <1>2, <1>4 DEF ghostVars
  <2> QED BY <1>1, <1>2, <1>4, <2>1, SafeFollow
<1>5. CASE /\ state[i] = Leader /\ RecordMatch(i, m.src, m.match)
           /\ UNCHANGED <<hardVars, state>>
           /\ m.match <= snap[i].index
                 \/ Confirmed(H, A, m.src, currentTerm[i], m.match)
  <2>1. UNCHANGED <<hardVars, logVars, state, applyVars, votes, elections>>
    BY <1>2, <1>5
  <2> QED BY <1>1, <1>2, <1>5, <2>1, SafeRecord
<1>6. CASE HandleAppendReply(i, m)
  <2>1. CASE IsStale(i, m) \/ m.term > currentTerm[i] \/ ~m.success
    BY <1>3, <1>4, <1>6, <2>1 DEF HandleAppendReply
  <2>2. CASE ~IsStale(i, m) /\ ~(m.term > currentTerm[i]) /\ m.success
    <3>1. /\ m.type = "AppendEntriesReply" /\ state[i] = Leader
          /\ m.sentIn = currentTerm[i]
          /\ RecordMatch(i, m.src, m.match) /\ UNCHANGED <<hardVars, state>>
      BY <1>6, <2>2 DEF HandleAppendReply, IsStale
    <3>2. m.success = TRUE
      <4>1. m.success \in BOOLEAN
        BY <3>1, MessageTypes DEF TypeInv, AppendEntriesReply
      <4> QED BY <2>2, <4>1
    <3>3. Confirmed(H, A, m.src, currentTerm[i], m.match)
      BY <1>1, <3>1, <3>2 DEF MessageOk
    <3> QED BY <1>5, <3>1, <3>3
  <2> QED BY <2>1, <2>2
<1>7. CASE HandleSnapshotReply(i, m)
  <2>1. CASE IsStale(i, m) \/ m.term > currentTerm[i]
    BY <1>3, <1>4, <1>7, <2>1 DEF HandleSnapshotReply
  <2>2. CASE ~IsStale(i, m) /\ ~(m.term > currentTerm[i])
    <3>1. /\ m.type = "InstallSnapshotReply" /\ state[i] = Leader
          /\ m.sentIn = currentTerm[i] /\ m.dst = i
          /\ RecordMatch(i, m.src, m.match) /\ UNCHANGED <<hardVars, state>>
      BY <1>7, <2>2 DEF HandleSnapshotReply, IsStale
    <3>2. m.match <= snap[i].index
      BY <1>1, <3>1 DEF MessageOk, InstallReplyOk
    <3> QED BY <1>5, <3>1, <3>2
  <2> QED BY <2>1, <2>2
<1> QED BY <1>6, <1>7

-----------------------------------------------------------------------------
(* A leader appends an entry *)

\* Who won a term was elected by a majority that still knows the term.
LEMMA ElectedBacked ==
    ASSUME TypeInv, VoteInv, NEW H, HistoryInv(H), Elected(H)
    PROVE  Backed(Terms, H)
<1>1. SUFFICES ASSUME NEW h \in H, h # <<>>
               PROVE  \E Q \in SUBSET Server :
                         Majority(Q) /\ \A q \in Q : Terms[q] >= LastTerm(h)
  BY DEF Backed
<1>2. PICK e \in elections : e.term = LastTerm(h)
  BY <1>1 DEF Elected
<1>3. PICK Q \in SUBSET Server : Q = Supporters(e.term, e.leader)
  BY DEF Supporters
<1>4. Majority(Q)
  BY <1>3 DEF VoteInv, ElectionsWon
<1>5. ASSUME NEW q \in Q PROVE Terms[q] >= LastTerm(h)
  <2>1. PICK v \in votes : v = Vote(e.term, q, e.leader)
    BY <1>3 DEF Supporters
  <2>2. v.term = e.term /\ v.voter = q
    BY <2>1 DEF Vote
  <2>3. e.term <= hard[q].term
    BY <2>2 DEF VoteInv, VotesDurable
  <2>4. Terms[q] = hard[q].term /\ hard[q].term \in Nat /\ LastTerm(h) \in Nat
    BY Facts, TermFacts
  <2> QED BY <1>2, <2>3, <2>4
<1> QED BY <1>4, <1>5

\* A leader, or a candidate that has just won, appends an entry of its term to
\* its log, and nothing else changes but what it believes of its peers.
Extends(i, e) ==
    /\ e \in Entry /\ e.term = currentTerm[i] /\ state[i] # Follower
    /\ log' = [log EXCEPT ![i] = Append(@, e)]
    /\ state' = [state EXCEPT ![i] = Leader]
    /\ elections' = elections \cup {[term |-> currentTerm[i], leader |-> i]}
    /\ UNCHANGED <<currentTerm, hard, snap, commitIndex, lastApplied, sm,
                   votes, committed>>
    /\ msgs' \subseteq msgs
    /\ \A j \in Server \ {i} : matchIndex'[j] = matchIndex[j]
    /\ \A q \in Server : \/ matchIndex'[i][q] <= snap[i].index
                         \/ state[i] = Leader /\ matchIndex'[i][q] = matchIndex[i][q]

\* The logs after such a step.
LEMMA ExtendLogs ==
    ASSUME TypeInv, VoteInv, NEW i \in Server, NEW e, Extends(i, e)
    PROVE  /\ FullLog(i)' = Append(FullLog(i), e)
           /\ OneMore(FullLog(i), FullLog(i)', currentTerm[i])
           /\ \A j \in Server \ {i} : FullLog(j)' = FullLog(j)
           /\ Logs' = [Logs EXCEPT ![i] = FullLog(i)'] /\ Terms' = Terms
           /\ state'[i] = Leader
           /\ \A j \in Server \ {i} : state'[j] = state[j]
<1>0. /\ log \in [Server -> Seq(Entry)] /\ snap[i].data \in Seq(Entry)
      /\ state \in [Server -> {Follower, Candidate, Leader}]
      /\ FullLog(i) \in Seq(Entry) /\ e \in Entry
  BY Facts DEF TypeInv, TypeOK, Extends
<1>1. /\ log'[i] = Append(log[i], e) /\ snap' = snap
      /\ \A j \in Server \ {i} : log'[j] = log[j]
  BY <1>0 DEF Extends
<1>2. FullLog(i)' = Append(FullLog(i), e)
  <2>1. log[i] \in Seq(Entry)
    BY <1>0
  <2>2. snap[i].data \o Append(log[i], e) = Append(snap[i].data \o log[i], e)
    BY <1>0, <2>1, AppendTail
  <2> QED BY <1>1, <2>2 DEF FullLog
<1>3. OneMore(FullLog(i), FullLog(i)', currentTerm[i])
  BY <1>0, <1>2, Appended DEF Extends
<1>4. \A j \in Server \ {i} : FullLog(j)' = FullLog(j)
  BY <1>1 DEF FullLog
<1>5. Logs' = [Logs EXCEPT ![i] = FullLog(i)']
  BY <1>4 DEF Logs
<1>6. Terms' = Terms
  BY DEF Terms, Extends
<1>7. state'[i] = Leader /\ \A j \in Server \ {i} : state'[j] = state[j]
  BY <1>0 DEF Extends
<1> QED BY <1>2, <1>3, <1>4, <1>5, <1>6, <1>7

\* What a leader needs to append safely, and what holds after it did.
Ready(H, A, i) ==
    /\ Leads(Logs, Terms, H, A, i, currentTerm[i])
    /\ Acked(A, i, FullLog(i), currentTerm[i])

\* Roles, elections and nodes after an append.
LEMMA ExtendRoles ==
    ASSUME TypeInv, TypeInv', VoteInv, VoteInv', NEW H, NEW A,
           SafetyInv(H, A), NEW i \in Server, NEW e, Extends(i, e),
           NEW h, h = FullLog(i)'
    PROVE  Elected(H \cup {h})' /\ NodeInv' /\ RoleInv'
<1>0. /\ Elected(H) /\ NodeInv /\ RoleInv
  BY DEF SafetyInv
<1>1. /\ elections' = elections \cup {[term |-> currentTerm[i], leader |-> i]}
      /\ UNCHANGED <<currentTerm, hard, snap, votes>> /\ state[i] # Follower
  BY DEF Extends
<1>2. /\ OneMore(FullLog(i), FullLog(i)', currentTerm[i])
      /\ \A j \in Server \ {i} : FullLog(j)' = FullLog(j)
      /\ state'[i] = Leader
      /\ \A j \in Server \ {i} : state'[j] = state[j]
  BY ExtendLogs
<1>3. LastTerm(FullLog(i)') = currentTerm[i]
  BY <1>2 DEF OneMore
<1>4. hard[i].term = currentTerm[i] /\ currentTerm[i] >= 1
      /\ currentTerm[i] \in Nat
  <2>1. hard[i].term = currentTerm[i] /\ currentTerm[i] >= 1
    BY <1>0, <1>1 DEF RoleInv
  <2>2. currentTerm[i] \in Nat
    BY Facts
  <2> QED BY <2>1, <2>2
<1>5. Elected(H \cup {h})'
  <2>2. SUFFICES ASSUME NEW g \in H \cup {h}, g # <<>>
                 PROVE  \E f \in elections' : f.term = LastTerm(g)
    BY DEF Elected
  <2>3. CASE g \in H
    BY <1>0, <1>1, <2>2, <2>3 DEF Elected
  <2>4. CASE g = h
    <3>1. [term |-> currentTerm[i], leader |-> i] \in elections'
      BY <1>1
    <3> QED BY <1>3, <2>4, <3>1
  <2> QED BY <2>2, <2>3, <2>4
<1>6. NodeInv'
  <2>1. SUFFICES ASSUME NEW j \in Server
                 PROVE  /\ LastTerm(FullLog(j)') <= hard'[j].term
                        /\ Len(snap'[j].data) = snap'[j].index
                        /\ snap'[j].term = LastTerm(snap'[j].data)
    BY DEF NodeInv
  <2>2. LastTerm(FullLog(j)') <= hard'[j].term
    <3>1. CASE j = i
      BY <1>1, <1>3, <1>4, <3>1
    <3>2. CASE j # i
      BY <1>0, <1>1, <1>2, <3>2 DEF NodeInv
    <3> QED BY <3>1, <3>2
  <2> QED BY <1>0, <1>1, <2>2 DEF NodeInv
<1>7. RoleInv'
  <2>1. ASSUME NEW f \in elections' PROVE f.term <= hard'[f.leader].term
    <3>1. CASE f \in elections
      BY <1>0, <1>1, <3>1 DEF RoleInv
    <3>2. CASE f = [term |-> currentTerm[i], leader |-> i]
      BY <1>1, <1>4, <3>2
    <3> QED BY <1>1, <3>1, <3>2
  <2>2. \A v \in votes' : v.term <= hard'[v.candidate].term
    BY <1>0, <1>1 DEF RoleInv
  <2>3. ASSUME NEW j \in Server
        PROVE  /\ state'[j] # Follower
                     => hard'[j].term = currentTerm'[j] /\ currentTerm'[j] >= 1
               /\ state'[j] = Candidate => ~Won(currentTerm[j], j)'
               /\ state'[j] = Leader => Won(currentTerm[j], j)'
    <3>1. CASE j = i
      <4>1. Won(currentTerm[i], i)'
        BY <1>1 DEF Won
      <4> QED BY <1>1, <1>2, <1>4, <3>1, <4>1 DEF Follower, Candidate, Leader
    <3>2. CASE j # i
      <4>1. Won(currentTerm[j], j)' <=> Won(currentTerm[j], j)
        BY <1>1, <3>2 DEF Won
      <4>2. /\ state[j] # Follower
                  => hard[j].term = currentTerm[j] /\ currentTerm[j] >= 1
            /\ state[j] = Candidate => ~Won(currentTerm[j], j)
            /\ state[j] = Leader => Won(currentTerm[j], j)
        BY <1>0 DEF RoleInv
      <4>3. state'[j] = state[j]
        BY <1>2, <3>2
      <4> QED BY <1>1, <4>1, <4>2, <4>3
    <3> QED BY <3>1, <3>2
  <2> QED BY <2>1, <2>2, <2>3 DEF RoleInv
<1> QED BY <1>5, <1>6, <1>7

\* Leaders after an append: the new entry is acknowledged by the leader that
\* appended it, and no other leader has its term.
LEMMA ExtendLeaders ==
    ASSUME TypeInv, TypeInv', VoteInv, VoteInv', NEW H, NEW A,
           SafetyInv(H, A), NEW i \in Server, NEW e, Extends(i, e),
           Ready(H, A, i), NEW h, h = FullLog(i)'
    PROVE  LeaderInv(H \cup {h}, A \cup {<<i, h>>})'
<1> DEFINE H2 == H \cup {h}
           A2 == A \cup {<<i, h>>}
<1>0. LeaderInv(H, A) /\ LogsInv(Logs, Terms, H, A) /\ HistoryInv(H)
  BY DEF SafetyInv, LogsInv
<1>1. /\ UNCHANGED <<currentTerm, hard, snap, votes>> /\ state[i] # Follower
      /\ \A j \in Server \ {i} : matchIndex'[j] = matchIndex[j]
      /\ \A q \in Server :
            \/ matchIndex'[i][q] <= snap[i].index
            \/ state[i] = Leader /\ matchIndex'[i][q] = matchIndex[i][q]
  BY DEF Extends
<1>2. /\ OneMore(FullLog(i), h, currentTerm[i])
      /\ \A j \in Server \ {i} : FullLog(j)' = FullLog(j)
      /\ state'[i] = Leader
      /\ \A j \in Server \ {i} : state'[j] = state[j]
  BY ExtendLogs
<1>3. Elected(H2)' /\ RoleInv'
  BY ExtendRoles
<1>4. ElectionSafety'
  BY OneWinner, PTL
<1>5. H \subseteq H2 /\ A \subseteq A2
  OBVIOUS
<1> HIDE DEF H2, A2
<1>6. SUFFICES ASSUME NEW j \in Server, state'[j] = Leader
               PROVE  /\ LastTerm(FullLog(j)') = currentTerm[j]
                      /\ \A g \in H2 : LastTerm(g) = currentTerm[j]
                                       => Below(g, FullLog(j)')
                      /\ Acked(A2, j, FullLog(j)', currentTerm[j])
                      /\ \A q \in Server \ {j} :
                            \/ matchIndex'[j][q] <= snap[j].index
                            \/ Confirmed(H2, A2, q, currentTerm[j],
                                         matchIndex'[j][q])
  BY <1>1 DEF LeaderInv, H2, A2
<1>7. CASE j = i
  <2>1. /\ FullLog(i) \in H /\ FullLog(i) \in Seq(Entry) /\ h \in Seq(Entry)
        /\ Below(FullLog(i), h) /\ LastTerm(h) = currentTerm[i]
        /\ Len(h) = Len(FullLog(i)) + 1 /\ Len(FullLog(i)) \in Nat
    <3>1. Logs[i] = FullLog(i)
      BY Facts
    <3>2. FullLog(i) \in H
      BY <1>0, <3>1 DEF LogsInv
    <3> QED BY <1>0, <1>2, <3>2, TermFacts DEF OneMore
  <2>2. ASSUME NEW g \in H2, LastTerm(g) = currentTerm[i] PROVE Below(g, h)
    <3>1. CASE g = h
      BY <2>1, <3>1, BelowFacts
    <3>2. CASE g \in H
      <4>1. Below(g, FullLog(i)) /\ g \in Seq(Entry)
        BY <1>0, <2>2, <3>2, TermFacts, Facts DEF Ready, Leads
      <4> QED BY <2>1, <4>1, BelowFacts
    <3> QED BY <3>1, <3>2 DEF H2
  <2>3. Acked(A2, i, h, currentTerm[i])
    <3>1. SUFFICES ASSUME NEW n \in 1..Len(h), h[n].term = currentTerm[i]
                   PROVE  <<i, Pre(h, n)>> \in A2
      BY DEF Acked
    <3>2. CASE n = Len(h)
      BY <1>2, <3>2 DEF OneMore, A2
    <3>3. CASE n # Len(h)
      <4>1. n \in 1..Len(FullLog(i)) /\ n \in 0..Len(FullLog(i))
        BY <2>1, <3>3
      <4>2. Pre(h, n) = Pre(FullLog(i), n) /\ h[n] = FullLog(i)[n]
        BY <1>2, <4>1 DEF OneMore
      <4>3. <<i, Pre(FullLog(i), n)>> \in A
        BY <3>1, <4>1, <4>2 DEF Ready, Acked
      <4> QED BY <4>2, <4>3 DEF A2
    <3> QED BY <3>2, <3>3
  <2>4. ASSUME NEW q \in Server \ {i}
        PROVE  \/ matchIndex'[i][q] <= snap[i].index
               \/ Confirmed(H2, A2, q, currentTerm[i], matchIndex'[i][q])
    <3>1. CASE matchIndex'[i][q] <= snap[i].index
      BY <3>1
    <3>2. CASE state[i] = Leader /\ matchIndex'[i][q] = matchIndex[i][q]
      <4>1. \/ matchIndex[i][q] <= snap[i].index
            \/ Confirmed(H, A, q, currentTerm[i], matchIndex[i][q])
        BY <1>0, <3>2 DEF LeaderInv
      <4>2. Confirmed(H, A, q, currentTerm[i], matchIndex[i][q])
               => Confirmed(H2, A2, q, currentTerm[i], matchIndex[i][q])
        BY <1>5, Monotone
      <4> QED BY <3>2, <4>1, <4>2
    <3> QED BY <1>1, <3>1, <3>2
  <2> QED BY <1>7, <2>1, <2>2, <2>3, <2>4
<1>8. CASE j # i
  <2>1. /\ LastTerm(FullLog(j)) = currentTerm[j]
        /\ \A g \in H : LastTerm(g) = currentTerm[j] => Below(g, FullLog(j))
        /\ Acked(A, j, FullLog(j), currentTerm[j])
        /\ \A q \in Server \ {j} :
              \/ matchIndex[j][q] <= snap[j].index
              \/ Confirmed(H, A, q, currentTerm[j], matchIndex[j][q])
        /\ FullLog(j)' = FullLog(j) /\ matchIndex'[j] = matchIndex[j]
    BY <1>0, <1>1, <1>2, <1>6, <1>8 DEF LeaderInv
  <2>2. currentTerm[j] # currentTerm[i]
    <3>1. Won(currentTerm[j], j)' /\ Won(currentTerm[i], i)'
      BY <1>2, <1>3, <1>6 DEF RoleInv
    <3>2. /\ [term |-> currentTerm[j], leader |-> j] \in elections'
          /\ [term |-> currentTerm[i], leader |-> i] \in elections'
      BY <1>1, <3>1 DEF Won
    <3> QED BY <1>4, <1>8, <3>2 DEF ElectionSafety
  <2>3. \A g \in H2 : LastTerm(g) = currentTerm[j] => Below(g, FullLog(j)')
    BY <1>2, <2>1, <2>2 DEF OneMore, H2
  <2>4. Acked(A2, j, FullLog(j), currentTerm[j])
    BY <1>5, <2>1, Monotone
  <2>5. ASSUME NEW q \in Server \ {j}
        PROVE  \/ matchIndex'[j][q] <= snap[j].index
               \/ Confirmed(H2, A2, q, currentTerm[j], matchIndex'[j][q])
    <3>1. Confirmed(H, A, q, currentTerm[j], matchIndex[j][q])
             => Confirmed(H2, A2, q, currentTerm[j], matchIndex[j][q])
      BY <1>5, Monotone
    <3> QED BY <2>1, <3>1
  <2> QED BY <2>1, <2>3, <2>4, <2>5
<1> QED BY <1>7, <1>8

\* Candidates after an append: none of their voters is the leader, which knows
\* no later term.
LEMMA ExtendVotes ==
    ASSUME TypeInv, TypeInv', VoteInv, VoteInv', NEW H, NEW A,
           SafetyInv(H, A), NEW i \in Server, NEW e, Extends(i, e),
           NEW h, h = FullLog(i)',
           \A p \in H : Doomed(Terms, A, p) => Doomed(Terms, A \cup {<<i, h>>}, p)
    PROVE  VoteSafe(H \cup {h}, A \cup {<<i, h>>})'
<1>0. VoteSafe(H, A) /\ RoleInv /\ A \subseteq Server \X H
  BY DEF SafetyInv, LogsInv, AckInv
<1>1. /\ UNCHANGED <<currentTerm, hard, votes>> /\ state[i] # Follower
  BY DEF Extends
<1>2. /\ LastTerm(h) = currentTerm[i] /\ Terms' = Terms
      /\ \A j \in Server \ {i} : FullLog(j)' = FullLog(j)
      /\ state'[i] = Leader
      /\ \A j \in Server \ {i} : state'[j] = state[j]
  BY ExtendLogs DEF OneMore
<1>3. SUFFICES ASSUME NEW v \in votes, state'[v.candidate] = Candidate,
                      currentTerm[v.candidate] = v.term,
                      NEW p \in H \cup {h}, <<v.voter, p>> \in A \cup {<<i, h>>},
                      LastTerm(p) < v.term
               PROVE  \/ Below(p, FullLog(v.candidate)')
                      \/ Doomed(Terms, A \cup {<<i, h>>}, p)
  BY <1>1, <1>2 DEF VoteSafe
<1>4. v \in [term : Nat, voter : Server, candidate : Server]
  BY DEF TypeInv, TypeOK
<1>5. v.candidate \in Server \ {i}
  BY <1>2, <1>3, <1>4 DEF Leader, Candidate
<1>6. <<v.voter, p>> \in A /\ p \in H
  <2>1. CASE <<v.voter, p>> \in A
    BY <1>0, <2>1
  <2>2. CASE v.voter = i /\ p = h
    <3>1. v.term <= hard[i].term
      BY <2>2 DEF VoteInv, VotesDurable
    <3>2. hard[i].term = currentTerm[i]
      BY <1>0, <1>1 DEF RoleInv
    <3>3. v.term \in Nat /\ currentTerm[i] \in Nat
      BY <1>4, Facts
    <3> QED BY <1>2, <1>3, <2>2, <3>1, <3>2, <3>3
  <2> QED BY <1>3, <2>1, <2>2
<1>7. Below(p, FullLog(v.candidate)) \/ Doomed(Terms, A, p)
  BY <1>0, <1>2, <1>3, <1>5, <1>6 DEF VoteSafe
<1> QED BY <1>2, <1>5, <1>6, <1>7

\* Commitment after an append.
LEMMA ExtendCommit ==
    ASSUME TypeInv, TypeInv', VoteInv, VoteInv', NEW H, NEW A,
           SafetyInv(H, A), NEW i \in Server, NEW e, Extends(i, e),
           NEW H2, NEW A2, H \subseteq H2, A \subseteq A2
    PROVE  /\ CommitInv(H2, A2)'
           /\ \A j \in Server :
                 /\ commitIndex[j] <= Len(FullLog(j)')
                 /\ Pre(FullLog(j)', commitIndex[j]) = Pre(FullLog(j), commitIndex[j])
<1>0. CommitInv(H, A) /\ HistoryInv(H)
  BY DEF SafetyInv, LogsInv
<1>1. UNCHANGED <<hard, commitIndex, lastApplied, sm, committed>>
  BY DEF Extends
<1>2. /\ OneMore(FullLog(i), FullLog(i)', currentTerm[i])
      /\ \A j \in Server \ {i} : FullLog(j)' = FullLog(j)
  BY ExtendLogs
<1>3. ASSUME NEW j \in Server
      PROVE  /\ commitIndex[j] <= Len(FullLog(j)')
             /\ Pre(FullLog(j)', commitIndex[j]) = Pre(FullLog(j), commitIndex[j])
             /\ Pre(FullLog(j)', lastApplied[j]) = Pre(FullLog(j), lastApplied[j])
  <2>1. /\ commitIndex[j] \in Nat /\ lastApplied[j] \in Nat
        /\ lastApplied[j] <= commitIndex[j] /\ Len(FullLog(j)) \in Nat
    BY Facts
  <2>2. commitIndex[j] <= Len(FullLog(j))
    BY <1>0 DEF CommitInv, NodeCommit
  <2>3. CASE j # i
    BY <1>2, <2>2, <2>3
  <2>4. CASE j = i
    <3>1. /\ commitIndex[j] \in 0..Len(FullLog(j))
          /\ lastApplied[j] \in 0..Len(FullLog(j))
      BY <2>1, <2>2
    <3>2. Len(FullLog(j)') = Len(FullLog(j)) + 1
      BY <1>2, <2>4 DEF OneMore
    <3>3. commitIndex[j] <= Len(FullLog(j)')
      BY <2>1, <2>2, <3>2
    <3> QED BY <1>2, <2>4, <3>1, <3>3 DEF OneMore
  <2> QED BY <2>3, <2>4
<1>4. ASSUME NEW j \in Server PROVE NodeCommit(H2, A2, j)'
  <2>1. NodeCommit(H, A, j) /\ hard[j].term \in Nat
    BY <1>0, Facts DEF CommitInv
  <2>2. Settled(H2, A2, Pre(FullLog(j), commitIndex[j]), hard[j].term)
    <3>1. hard[j].term <= hard[j].term
      BY <2>1
    <3>2. Settled(H, A, Pre(FullLog(j), commitIndex[j]), hard[j].term)
      BY <2>1 DEF NodeCommit
    <3> QED BY <1>0, <2>1, <3>1, <3>2, Monotone
  <2> QED BY <1>1, <1>3, <2>1, <2>2 DEF NodeCommit
<1>5. ASSUME NEW c \in committed' PROVE CommitOk(H2, A2, c)'
  <2>1. CommitOk(H2, A2, c)
    BY <1>0, <1>1, CommittedStays
  <2> QED BY <2>1
<1> QED BY <1>3, <1>4, <1>5 DEF CommitInv

\* The messages in the network after an append.
LEMMA ExtendMessages ==
    ASSUME TypeInv, TypeInv', VoteInv, VoteInv', NEW H, NEW A,
           SafetyInv(H, A), NEW i \in Server, NEW e, Extends(i, e),
           NEW H2, NEW A2, H \subseteq H2, A \subseteq A2
    PROVE  MessageInv(H2, A2)'
<1>0. MessageInv(H, A) /\ HistoryInv(H) /\ RoleInv
  BY DEF SafetyInv, LogsInv
<1>1. /\ UNCHANGED <<currentTerm, hard, snap>> /\ state[i] # Follower
      /\ elections \subseteq elections' /\ msgs' \subseteq msgs
  BY DEF Extends
<1>2. /\ \A j \in Server \ {i} : FullLog(j)' = FullLog(j)
      /\ state'[i] = Leader
      /\ \A j \in Server \ {i} : state'[j] = state[j]
  BY ExtendLogs
<1>3. \A j \in Server : /\ hard[j].term <= hard'[j].term
                        /\ snap[j].index <= snap'[j].index
  <2>1. \A j \in Server : hard[j].term \in Nat /\ snap[j].index \in Nat
    BY Facts
  <2> QED BY <1>1, <2>1
<1>4. \A j \in Server : \A t \in Nat :
         /\ state'[j] = Leader /\ currentTerm'[j] = t /\ Won(t, j)
         => state[j] = Leader /\ currentTerm[j] = t
  <2>1. SUFFICES ASSUME NEW j \in Server, state'[j] = Leader,
                        Won(currentTerm[j], j)
                 PROVE  state[j] = Leader
    BY <1>1
  <2>2. CASE j = i
    <3>1. state[i] # Candidate
      BY <1>0, <2>1, <2>2 DEF RoleInv
    <3>2. state[i] \in {Follower, Candidate, Leader}
      BY Facts
    <3> QED BY <1>1, <2>2, <3>1, <3>2
  <2>3. CASE j # i
    BY <1>2, <2>1, <2>3
  <2> QED BY <2>2, <2>3
<1>5. SUFFICES ASSUME NEW m \in msgs PROVE MessageOk(H2, A2, m)'
  BY <1>1 DEF MessageInv
<1>6. m.type = "RequestVote" /\ state'[m.src] = Candidate
         /\ currentTerm'[m.src] = m.term
         => /\ FullLog(m.src)' = FullLog(m.src) /\ state[m.src] = Candidate
            /\ currentTerm[m.src] = m.term
  <2>1. SUFFICES ASSUME m.type = "RequestVote", state'[m.src] = Candidate
                 PROVE  /\ FullLog(m.src)' = FullLog(m.src)
                        /\ state[m.src] = Candidate
    BY <1>1
  <2>2. m.src \in Server
    BY <2>1, MessageTypes DEF TypeInv, RequestVoteArgs
  <2>3. m.src # i
    BY <1>2, <2>1 DEF Leader, Candidate
  <2> QED BY <1>2, <2>1, <2>2, <2>3
<1>7. MessageOk(H, A, m)
  BY <1>0 DEF MessageInv
<1> QED BY <1>0, <1>1, <1>3, <1>4, <1>6, <1>7, MessageStays

\* A leader that appends an entry preserves the invariant.
LEMMA SafeExtend ==
    ASSUME TypeInv, TypeInv', VoteInv, VoteInv', NEW H, NEW A,
           SafetyInv(H, A), NEW i \in Server, NEW e, Extends(i, e),
           Ready(H, A, i)
    PROVE  /\ \E h : SafetyInv(H \cup {h}, A \cup {<<i, h>>})'
           /\ CommitKept
<1>0. LogsInv(Logs, Terms, H, A) /\ HistoryInv(H) /\ Elected(H)
  BY DEF SafetyInv, LogsInv
<1>1. PICK h : h = FullLog(i)'
  OBVIOUS
<1> DEFINE H2 == H \cup {h}
           A2 == A \cup {<<i, h>>}
<1>2. H \subseteq H2 /\ A \subseteq A2
  OBVIOUS
<1>3. /\ OneMore(Logs[i], h, currentTerm[i])
      /\ Logs' = [Logs EXCEPT ![i] = h] /\ Terms' = Terms
  BY <1>1, ExtendLogs, Facts
<1>4. Backed(Terms, H)
  BY <1>0, ElectedBacked
<1>5. Leads(Logs, Terms, H, A, i, currentTerm[i])
  BY DEF Ready
<1>6. /\ LogsInv([Logs EXCEPT ![i] = h], Terms, H2, A2)
      /\ \A p \in H : Doomed(Terms, A, p) => Doomed(Terms, A2, p)
  BY <1>0, <1>3, <1>4, <1>5, ExtendKeeps
<1>7. LogsInv(Logs, Terms, H2, A2)'
  BY <1>3, <1>6
<1>8. Elected(H2)' /\ NodeInv' /\ RoleInv'
  BY <1>1, ExtendRoles
<1>9. LeaderInv(H2, A2)'
  BY <1>1, ExtendLeaders
<1>10. VoteSafe(H2, A2)'
  BY <1>1, <1>6, ExtendVotes
<1>11. CommitInv(H2, A2)' /\ MessageInv(H2, A2)'
  BY <1>2, ExtendCommit, ExtendMessages
<1>12. CommitKept
  BY ExtendCommit, <1>2 DEF CommitKept
<1>13. SafetyInv(H2, A2)'
  BY <1>7, <1>8, <1>9, <1>10, <1>11 DEF SafetyInv
<1> QED BY <1>12, <1>13

\* Propose: a leader may append.
LEMMA SafePropose ==
    ASSUME TypeInv, TypeInv', VoteInv, VoteInv', NEW H, NEW A,
           SafetyInv(H, A), NEW i \in Server, NEW c \in Command, Propose(i, c)
    PROVE  CommitKept /\ \E h : SafetyInv(H \cup {h}, A \cup {<<i, h>>})'
<1>0. /\ LeaderInv(H, A) /\ RoleInv /\ HistoryInv(H) /\ OrderInv(Terms, H, A)
      /\ FullLog(i) \in H /\ Logs[i] = FullLog(i)
  BY DEF SafetyInv, LogsInv, Logs
<1>1. PICK e : e = [term |-> currentTerm[i], value |-> c]
  OBVIOUS
<1>2. /\ state[i] = Leader /\ log' = [log EXCEPT ![i] = Append(@, e)]
      /\ UNCHANGED <<state, currentTerm, hard, snap, commitIndex, lastApplied,
                     sm, votes, elections, committed, matchIndex, msgs>>
  BY <1>1 DEF Propose, hardVars, applyVars, leaderVars, ghostVars
<1>3. /\ currentTerm[i] \in Nat /\ currentTerm[i] >= 1
      /\ hard[i].term = currentTerm[i] /\ Won(currentTerm[i], i)
      /\ Terms[i] = hard[i].term
  <2>1. currentTerm[i] \in Nat /\ Terms[i] = hard[i].term
    BY Facts
  <2>2. hard[i].term = currentTerm[i] /\ currentTerm[i] >= 1
    BY <1>0, <1>2 DEF RoleInv, Leader, Follower
  <2>3. Won(currentTerm[i], i)
    BY <1>0, <1>2 DEF RoleInv
  <2> QED BY <2>1, <2>2, <2>3
<1>4. Extends(i, e)
  <2>1. e \in Entry /\ e.term = currentTerm[i]
    BY <1>1, <1>3 DEF Entry
  <2>2. state[i] # Follower
    BY <1>2 DEF Leader, Follower
  <2>3. state' = [state EXCEPT ![i] = Leader]
    <3>1. state \in [Server -> {Follower, Candidate, Leader}]
      BY DEF TypeInv, TypeOK
    <3> QED BY <1>2, <3>1
  <2>4. elections' = elections \cup {[term |-> currentTerm[i], leader |-> i]}
    BY <1>2, <1>3 DEF Won
  <2> QED BY <1>2, <2>1, <2>2, <2>3, <2>4 DEF Extends
<1>5. Ready(H, A, i)
  <2>1. /\ LastTerm(FullLog(i)) = currentTerm[i]
        /\ \A g \in H : LastTerm(g) = currentTerm[i] => Below(g, FullLog(i))
        /\ Acked(A, i, FullLog(i), currentTerm[i])
    BY <1>0, <1>2 DEF LeaderInv
  <2>2. \A p \in H : LastTerm(p) < currentTerm[i]
                     => Below(p, FullLog(i)) \/ Doomed(Terms, A, p)
    <3>1. TAKE p \in H
    <3>2. LastTerm(p) \in Nat
      BY <1>0, TermFacts
    <3>3. LastTerm(p) < currentTerm[i] => LastTerm(FullLog(i)) > LastTerm(p)
      BY <1>3, <2>1, <3>2
    <3> QED BY <1>0, <3>3 DEF OrderInv
  <2>3. LastTerm(FullLog(i)) <= currentTerm[i]
    BY <1>3, <2>1
  <2>4. Leads(Logs, Terms, H, A, i, currentTerm[i])
    BY <1>0, <1>3, <2>1, <2>2, <2>3 DEF Leads
  <2> QED BY <2>1, <2>4 DEF Ready
<1> QED BY <1>4, <1>5, SafeExtend

\* A candidate with a majority of votes has every log that is not doomed: a
\* log none of its voters held cannot be chosen any more.
LEMMA CandidateReady ==
    ASSUME TypeInv, TypeInv', VoteInv, VoteInv', NEW H, NEW A,
           SafetyInv(H, A), NEW i \in Server, state[i] = Candidate,
           NEW R \in SUBSET Server, Majority(R),
           \A v \in R : Vote(currentTerm[i], v, i) \in votes,
           elections' = elections \cup {[term |-> currentTerm[i], leader |-> i]}
    PROVE  Ready(H, A, i)
<1>0. /\ VoteSafe(H, A) /\ RoleInv /\ HistoryInv(H) /\ Elected(H) /\ NodeInv
      /\ FullLog(i) \in H /\ Logs[i] = FullLog(i)
  BY DEF SafetyInv, LogsInv, Logs
<1>1. /\ currentTerm[i] \in Nat /\ currentTerm[i] >= 1
      /\ hard[i].term = currentTerm[i] /\ ~Won(currentTerm[i], i)
      /\ Terms[i] = hard[i].term /\ LastTerm(FullLog(i)) \in Nat
      /\ LastTerm(FullLog(i)) <= currentTerm[i]
  <2>1. currentTerm[i] \in Nat /\ Terms[i] = hard[i].term
    BY Facts
  <2>2. hard[i].term = currentTerm[i] /\ currentTerm[i] >= 1
    BY <1>0 DEF RoleInv, Candidate, Follower
  <2>3. ~Won(currentTerm[i], i)
    BY <1>0 DEF RoleInv
  <2>4. LastTerm(FullLog(i)) <= hard[i].term /\ LastTerm(FullLog(i)) \in Nat
    BY <1>0, TermFacts DEF NodeInv
  <2> QED BY <2>1, <2>2, <2>3, <2>4
<1>2. ElectionSafety'
  BY OneWinner, PTL
<1>3. \A g \in H : LastTerm(g) # currentTerm[i]
  <2>1. SUFFICES ASSUME NEW g \in H, LastTerm(g) = currentTerm[i] PROVE FALSE
    OBVIOUS
  <2>2. g # <<>>
    BY <1>0, <1>1, <2>1, TermFacts
  <2>3. PICK e \in elections : e.term = currentTerm[i]
    BY <1>0, <2>1, <2>2 DEF Elected
  <2>4. [term |-> currentTerm[i], leader |-> i] \in elections' /\ e \in elections'
    OBVIOUS
  <2>5. e.leader = i
    BY <1>2, <2>3, <2>4 DEF ElectionSafety
  <2>6. e = [term |-> currentTerm[i], leader |-> i]
    BY <2>3, <2>5 DEF TypeInv, TypeOK
  <2> QED BY <1>1, <2>6 DEF Won
<1>4. Acked(A, i, FullLog(i), currentTerm[i])
  <2>1. SUFFICES ASSUME NEW n \in 1..Len(FullLog(i)),
                        FullLog(i)[n].term = currentTerm[i]
                 PROVE  FALSE
    BY DEF Acked
  <2>2. FullLog(i) \in Seq(Entry) /\ n \in 0..Len(FullLog(i)) /\ n >= 1
    BY Facts
  <2>3. Pre(FullLog(i), n) \in H
    BY <1>0, <2>2 DEF HistoryInv
  <2>4. LastTerm(Pre(FullLog(i), n)) = currentTerm[i]
    BY <2>1, <2>2, PreFacts
  <2> QED BY <1>3, <2>3, <2>4
<1>5. ASSUME NEW p \in H, LastTerm(p) < currentTerm[i]
      PROVE  Below(p, FullLog(i)) \/ Doomed(Terms, A, p)
  <2>1. CASE \E v \in R : <<v, p>> \in A
    <3>1. PICK v \in R : <<v, p>> \in A
      BY <2>1
    <3>2. PICK w \in votes : w = Vote(currentTerm[i], v, i)
      OBVIOUS
    <3>3. w.term = currentTerm[i] /\ w.voter = v /\ w.candidate = i
      BY <3>2 DEF Vote
    <3> QED BY <1>0, <1>5, <3>1, <3>3 DEF VoteSafe
  <2>2. CASE \A v \in R : <<v, p>> \notin A
    <3>1. ASSUME NEW v \in R PROVE Terms[v] > LastTerm(p)
      <4>1. PICK w \in votes : w = Vote(currentTerm[i], v, i)
        OBVIOUS
      <4>2. w.term = currentTerm[i] /\ w.voter = v
        BY <4>1 DEF Vote
      <4>3. currentTerm[i] <= hard[v].term
        BY <4>2 DEF VoteInv, VotesDurable
      <4>4. Terms[v] = hard[v].term /\ hard[v].term \in Nat /\ LastTerm(p) \in Nat
        BY <1>0, Facts, TermFacts
      <4> QED BY <1>1, <1>5, <4>3, <4>4
    <3> QED BY <2>2, <3>1 DEF Doomed
  <2> QED BY <2>1, <2>2
<1>6. Leads(Logs, Terms, H, A, i, currentTerm[i])
  BY <1>0, <1>1, <1>3, <1>5 DEF Leads
<1> QED BY <1>4, <1>6 DEF Ready

\* becomeLeaderLocked: the reply that completes the majority wins.
LEMMA SafeWin ==
    ASSUME TypeInv, TypeInv', VoteInv, VoteInv', NEW H, NEW A,
           SafetyInv(H, A), NEW i \in Server, NEW m \in msgs,
           m.type = "RequestVoteReply", m.dst = i,
           currentTerm[i] = m.sentIn, state[i] = Candidate, m.voteGranted = TRUE,
           Majority(votesGranted[i] \cup {m.src}), BecomeLeader(i),
           UNCHANGED <<hardVars, snap, commitIndex, applyVars, votes, committed>>,
           msgs' \subseteq msgs
    PROVE  CommitKept /\ \E h : SafetyInv(H \cup {h}, A \cup {<<i, h>>})'
<1>1. PICK e : e = [term |-> currentTerm[i], value |-> Noop]
  OBVIOUS
<1>2. /\ state' = [state EXCEPT ![i] = Leader]
      /\ matchIndex' = [matchIndex EXCEPT ![i] = [p \in Server |-> 0]]
      /\ log' = [log EXCEPT ![i] = Append(@, e)]
      /\ elections' = elections \cup {[term |-> currentTerm[i], leader |-> i]}
  BY <1>1 DEF BecomeLeader
<1>3. Extends(i, e)
  <2>1. e \in Entry /\ e.term = currentTerm[i]
    <3>1. currentTerm[i] \in Nat
      BY Facts
    <3> QED BY <1>1, <3>1 DEF Entry
  <2>2. state[i] # Follower
    BY DEF Candidate, Follower
  <2>3. /\ \A j \in Server \ {i} : matchIndex'[j] = matchIndex[j]
        /\ \A q \in Server : matchIndex'[i][q] <= snap[i].index
    <3>1. matchIndex \in [Server -> [Server -> Nat]] /\ snap[i].index \in Nat
      BY Facts DEF TypeInv, TypeOK
    <3> QED BY <1>2, <3>1
  <2>4. UNCHANGED <<currentTerm, hard, snap, commitIndex, lastApplied, sm,
                    votes, committed>>
    BY DEF hardVars, applyVars
  <2> QED BY <1>2, <2>1, <2>2, <2>3, <2>4 DEF Extends
<1>4. PICK R \in SUBSET Server : R = votesGranted[i] \cup {m.src}
  <2>1. m.src \in Server
    BY MessageTypes DEF TypeInv, RequestVoteReply
  <2>2. votesGranted[i] \in SUBSET Server
    BY NodeTypes, Zenon
  <2> QED BY <2>1, <2>2
<1>5. ASSUME NEW v \in R PROVE Vote(currentTerm[i], v, i) \in votes
  <2>1. CASE v = m.src
    BY <2>1 DEF VoteInv, RepliesCast, Grant
  <2>2. CASE v \in votesGranted[i]
    BY <2>2 DEF VoteInv, TallyCast
  <2> QED BY <1>4, <2>1, <2>2
<1>6. Ready(H, A, i)
  BY <1>2, <1>4, <1>5, CandidateReady
<1> QED BY <1>3, <1>6, SafeExtend

-----------------------------------------------------------------------------
(* Every step *)

\* The goroutine of startElection.
LEMMA SafeVote ==
    ASSUME TypeInv, TypeInv', VoteInv, VoteInv', NEW H, NEW A,
           SafetyInv(H, A), NEW i \in Server, NEW m \in msgs,
           HandleVoteReply(i, m)
    PROVE  CommitKept /\ \E H2, A2 : SafetyInv(H2, A2)'
<1>1. m.type = "RequestVoteReply" /\ m.dst = i /\ msgs' \subseteq msgs
      /\ UNCHANGED <<snap, commitIndex, applyVars, votes, committed>>
  BY DEF HandleVoteReply, Consume
<1>2. CASE /\ currentTerm[i] = m.sentIn /\ state[i] = Candidate
           /\ ~(m.term > currentTerm[i]) /\ m.voteGranted
           /\ Majority(votesGranted[i] \cup {m.src})
  <2>1. BecomeLeader(i) /\ UNCHANGED hardVars
    BY <1>2 DEF HandleVoteReply
  <2>2. m.voteGranted = TRUE
    <3>1. m.voteGranted \in BOOLEAN
      BY <1>1, MessageTypes DEF TypeInv, RequestVoteReply
    <3> QED BY <1>2, <3>1
  <2>3. /\ currentTerm[i] = m.sentIn /\ state[i] = Candidate
        /\ Majority(votesGranted[i] \cup {m.src})
    BY <1>2
  <2>4. UNCHANGED <<hardVars, snap, commitIndex, applyVars, votes, committed>>
    BY <1>1, <2>1
  <2>5. CommitKept /\ \E h : SafetyInv(H \cup {h}, A \cup {<<i, h>>})'
    BY <1>1, <2>1, <2>2, <2>3, <2>4, SafeWin
  <2> QED BY <2>5
<1>3. CASE ~ /\ currentTerm[i] = m.sentIn /\ state[i] = Candidate
             /\ ~(m.term > currentTerm[i]) /\ m.voteGranted
             /\ Majority(votesGranted[i] \cup {m.src})
  <2>1. elections' = elections /\ log' = log
    BY <1>3 DEF HandleVoteReply
  <2>2. SafetyInv(H, A)'
    BY <2>1, SafeVoteReply
  <2>3. CommitKept
    BY <1>1, <2>1 DEF CommitKept, logVars
  <2> QED BY <2>2, <2>3
<1> QED BY <1>2, <1>3

\* The messages that reach a node.
LEMMA SafeReceive ==
    ASSUME TypeInv, TypeInv', VoteInv, VoteInv', NEW H, NEW A,
           SafetyInv(H, A), NEW i \in Server, NEW m \in msgs, Receive(i, m)
    PROVE  CommitKept /\ \E H2, A2 : SafetyInv(H2, A2)'
<1>1. CASE HandleRequestVote(i, m)
  <2>1. SafetyInv(H, A)'
    BY <1>1, SafeRequestVote
  <2>2. CommitKept
    BY <1>1 DEF HandleRequestVote, CommitKept
  <2> QED BY <2>1, <2>2
<1>2. CASE HandleVoteReply(i, m)
  BY <1>2, SafeVote
<1>3. CASE HandleAppendEntries(i, m)
  BY <1>3, SafeAppend
<1>4. CASE HandleAppendReply(i, m) \/ HandleSnapshotReply(i, m)
  <2>1. SafetyInv(H, A)'
    BY <1>4, SafeReplies
  <2>2. CommitKept
    BY <1>4 DEF HandleAppendReply, HandleSnapshotReply, CommitKept
  <2> QED BY <2>1, <2>2
<1>5. CASE HandleInstallSnapshot(i, m)
  BY <1>5, SafeInstall
<1>6. CASE CrashInVote(i, m)
  <2>1. PICK h : h = HardAfterTerm(i, m)
    OBVIOUS
  <2>2. /\ RestartWith(i, h, log[i], snap[i]) /\ msgs' \subseteq msgs
        /\ m.term > currentTerm[i] /\ m.type = "RequestVote"
    BY <1>6, <2>1 DEF CrashInVote, Consume
  <2>3. hard[i].term <= h.term
    <3>1. h.term = m.term
      BY <2>1, <2>2 DEF HardAfterTerm
    <3>2. /\ m.term \in Nat /\ currentTerm[i] \in Nat /\ hard[i].term \in Nat
          /\ hard[i].term <= currentTerm[i]
      BY <2>2, MessageTypes, Facts DEF TypeInv, RequestVoteArgs
    <3> QED BY <2>2, <3>1, <3>2
  <2> QED BY <2>2, <2>3, SafeCrash
<1>7. CASE CrashInAppend(i, m)
  BY <1>7, SafeCrashInAppend
<1> QED BY <1>1, <1>2, <1>3, <1>4, <1>5, <1>6, <1>7 DEF Receive

\* What a node does on its own.
LEMMA SafeStep ==
    ASSUME TypeInv, TypeInv', VoteInv, VoteInv', NEW H, NEW A,
           SafetyInv(H, A), NEW i \in Server, Step(i)
    PROVE  CommitKept /\ \E H2, A2 : SafetyInv(H2, A2)'
<1>1. ASSUME NEW Q \in SUBSET (Server \ {i}), StartElection(i, Q)
      PROVE  CommitKept /\ \E H2, A2 : SafetyInv(H2, A2)'
  <2>1. SafetyInv(H, A)'
    BY <1>1, SafeStart
  <2>2. CommitKept
    BY <1>1 DEF StartElection, CommitKept
  <2> QED BY <2>1, <2>2
<1>2. ASSUME NEW c \in Command, Propose(i, c)
      PROVE  CommitKept /\ \E H2, A2 : SafetyInv(H2, A2)'
  <2>1. CommitKept /\ \E h : SafetyInv(H \cup {h}, A \cup {<<i, h>>})'
    BY <1>2, SafePropose
  <2> QED BY <2>1
<1>3. ASSUME NEW p \in Server, ReplicateTo(i, p)
      PROVE  CommitKept /\ \E H2, A2 : SafetyInv(H2, A2)'
  <2>1. SafetyInv(H, A)'
    BY <1>3, SafeReplicate
  <2>2. CommitKept
    BY <1>3 DEF ReplicateTo, CommitKept
  <2> QED BY <2>1, <2>2
<1>4. CASE Apply(i)
  BY <1>4, SafeApply
<1>5. CASE Stop(i)
  <2>1. /\ UNCHANGED <<hardVars, logVars, state, matchIndex, commitIndex,
                       applyVars, ghostVars>>
        /\ \A m \in msgs' \ msgs : MessageOk(H, A, m)'
    BY <1>5 DEF Stop, leaderVars
  <2>2. SafetyInv(H, A)'
    BY <2>1, SafeIdle
  <2> QED BY <2>1, <2>2 DEF CommitKept
<1>6. CASE Restart(i)
  <2>1. PICK h : h = hard[i]
    OBVIOUS
  <2>2. RestartWith(i, h, log[i], snap[i]) /\ msgs' \subseteq msgs
    BY <1>6, <2>1 DEF Restart
  <2>3. hard[i].term <= h.term
    <3>1. hard[i].term \in Nat
      BY Facts
    <3> QED BY <2>1, <3>1
  <2> QED BY <2>2, <2>3, SafeCrash
<1> QED BY <1>1, <1>2, <1>3, <1>4, <1>5, <1>6 DEF Step

\* The invariant is inductive, and no step loses what was committed.
LEMMA SafetyNext == RaftInv /\ [Next]_vars => RaftInv' /\ CommitKept
<1>1. SUFFICES ASSUME RaftInv, [Next]_vars PROVE RaftInv' /\ CommitKept
  OBVIOUS
<1>2. TypeInv /\ VoteInv /\ TypeInv' /\ VoteInv'
  BY <1>1, TypeNext, VoteNext DEF RaftInv
<1>3. PICK H, A : SafetyInv(H, A)
  BY <1>1 DEF RaftInv
<1>4. SUFFICES CommitKept /\ \E H2, A2 : SafetyInv(H2, A2)'
  BY <1>2 DEF RaftInv
<1>5. ASSUME NEW i \in Server, Step(i)
      PROVE  CommitKept /\ \E H2, A2 : SafetyInv(H2, A2)'
  BY <1>2, <1>3, <1>5, SafeStep
<1>6. ASSUME NEW m \in msgs, Lose(m)
      PROVE  CommitKept /\ \E H2, A2 : SafetyInv(H2, A2)'
  <2>1. PICK i \in Server : m.src = i
    BY <1>2 DEF TypeInv, TypeOK, Message, RequestVoteArgs, RequestVoteReply,
                AppendEntriesArgs, AppendEntriesReply, InstallSnapshotArgs,
                InstallSnapshotReply
  <2>2. /\ UNCHANGED <<hardVars, logVars, state, matchIndex, commitIndex,
                       applyVars, ghostVars>>
        /\ \A r \in msgs' \ msgs : MessageOk(H, A, r)'
    BY <1>6 DEF Lose, Consume, leaderVars
  <2>3. SafetyInv(H, A)'
    BY <1>2, <1>3, <2>2, SafeIdle
  <2> QED BY <2>2, <2>3 DEF CommitKept
<1>7. ASSUME NEW i \in Server, NEW m \in msgs, Receive(i, m)
      PROVE  CommitKept /\ \E H2, A2 : SafetyInv(H2, A2)'
  BY <1>2, <1>3, <1>7, SafeReceive
<1>8. CASE UNCHANGED vars
  <2>1. /\ UNCHANGED <<hardVars, logVars, state, matchIndex, commitIndex,
                       applyVars, ghostVars>>
        /\ UNCHANGED msgs
    BY <1>8 DEF vars, leaderVars
  <2>2. /\ UNCHANGED <<log, snap, hard, currentTerm, state, matchIndex>>
        /\ UNCHANGED <<commitIndex, lastApplied, sm, msgs>>
        /\ UNCHANGED <<votes, elections, committed>>
    BY <2>1 DEF hardVars, logVars, applyVars, ghostVars
  <2>3. Logs' = Logs /\ Terms' = Terms
    BY <2>2 DEF Logs, Terms, FullLog
  <2>4. LogsInv(Logs, Terms, H, A)'
    BY <1>3, <2>3 DEF SafetyInv
  <2>5. Elected(H)' /\ NodeInv' /\ RoleInv'
    BY <1>3, <2>2 DEF SafetyInv, Elected, NodeInv, RoleInv, FullLog, Won
  <2>6. LeaderInv(H, A)'
    BY <1>3, <2>2 DEF SafetyInv, LeaderInv, FullLog
  <2>7. VoteSafe(H, A)'
    BY <1>3, <2>2, <2>3 DEF SafetyInv, VoteSafe, FullLog
  <2>8. CommitInv(H, A)'
    BY <1>3, <2>2 DEF SafetyInv, CommitInv, NodeCommit, FullLog
  <2>9. MessageInv(H, A)'
    BY <1>3, <2>2
       DEF SafetyInv, MessageInv, MessageOk, RequestOk, InstallOk,
           InstallReplyOk, FullLog, Won
  <2>10. SafetyInv(H, A)'
    BY <2>4, <2>5, <2>6, <2>7, <2>8, <2>9 DEF SafetyInv
  <2> QED BY <2>1, <2>10 DEF CommitKept
<1> QED BY <1>1, <1>5, <1>6, <1>7, <1>8 DEF Next

\* At first nobody ever held an entry.
LEMMA SafetyInit == Init => RaftInv
<1>1. SUFFICES ASSUME Init PROVE RaftInv
  OBVIOUS
<1>2. TypeInv
  BY <1>1, TypeInit
<1>3. VoteInv
  BY <1>1 DEF Init, VoteInv, HardInv, VotesDurable, OneVote, RepliesCast,
              TallyCast, ElectionsWon, Follower, Candidate
<1> DEFINE H == {<<>>}
           A == {}
<1>4. \A i \in Server : /\ FullLog(i) = <<>> /\ hard[i].term = 0
                        /\ state[i] = Follower /\ snap[i].data = <<>>
                        /\ snap[i].index = 0 /\ snap[i].term = 0
                        /\ commitIndex[i] = 0 /\ lastApplied[i] = 0
                        /\ sm[i] = <<>>
  <2>1. \A i \in Server : snap[i].data = <<>> /\ log[i] = <<>>
    BY <1>1 DEF Init
  <2>2. <<>> \o <<>> = <<>>
    OBVIOUS
  <2> QED BY <1>1, <2>1, <2>2 DEF Init, FullLog
<1>5. /\ <<>> \in Seq(Entry) /\ Len(<<>>) = 0 /\ LastTerm(<<>>) = 0
      /\ Pre(<<>>, 0) = <<>> /\ Below(<<>>, <<>>)
  <2>1. <<>> \in Seq(Entry) /\ Len(<<>>) = 0
    OBVIOUS
  <2>2. Pre(<<>>, 0) = <<>>
    BY <2>1 DEF Pre
  <2> QED BY <2>1, <2>2 DEF LastTerm, Below
<1>6. HistoryInv(H)
  BY <1>5 DEF HistoryInv
<1>7. LogsInv(Logs, Terms, H, A)
  <2>1. Logs \in [Server -> H] /\ Terms \in [Server -> Nat]
    BY <1>4 DEF Logs, Terms
  <2>2. AckInv(Logs, Terms, H, A) /\ OrderInv(Terms, H, A)
    BY <1>5 DEF AckInv, OrderInv
  <2> QED BY <1>6, <2>1, <2>2 DEF LogsInv
<1>8. Elected(H) /\ NodeInv /\ RoleInv
  BY <1>1, <1>4, <1>5
     DEF Elected, NodeInv, RoleInv, Init, Follower, Candidate, Leader
<1>9. LeaderInv(H, A) /\ VoteSafe(H, A) /\ MessageInv(H, A)
  BY <1>1, <1>4 DEF LeaderInv, VoteSafe, MessageInv, Init, Follower, Leader
<1>10. CommitInv(H, A)
  <2>1. committed = {}
    BY <1>1 DEF Init
  <2>2. \A i \in Server : NodeCommit(H, A, i)
    BY <1>4, <1>5 DEF NodeCommit, Settled
  <2> QED BY <2>1, <2>2 DEF CommitInv
<1>11. SafetyInv(H, A)
  BY <1>7, <1>8, <1>9, <1>10 DEF SafetyInv
<1> QED BY <1>2, <1>3, <1>11 DEF RaftInv

-----------------------------------------------------------------------------
(* The properties *)

\* The invariant implies every safety property the model checker was asked.
LEMMA InvMatching == RaftInv => LogMatching
<1>1. SUFFICES ASSUME TypeInv, VoteInv, NEW H, NEW A, SafetyInv(H, A),
                      NEW i \in Server, NEW j \in Server,
                      NEW n \in 1..MinU(Len(FullLog(i)), Len(FullLog(j))),
                      FullLog(i)[n].term = FullLog(j)[n].term
               PROVE  SubSeq(FullLog(i), 1, n) = SubSeq(FullLog(j), 1, n)
  BY DEF RaftInv, LogMatching
<1>2. HistoryInv(H) /\ FullLog(i) \in H /\ FullLog(j) \in H
  BY <1>1 DEF SafetyInv, LogsInv, Logs
<1>3. n \in 1..Len(FullLog(i)) /\ n <= Len(FullLog(j))
  <2>1. Len(FullLog(i)) \in Nat /\ Len(FullLog(j)) \in Nat
    BY <1>1, Facts
  <2> QED BY <2>1 DEF MinU
<1>4. Pre(FullLog(i), n) = Pre(FullLog(j), n)
  BY <1>1, <1>2, <1>3, Matching
<1> QED BY <1>4 DEF Pre

\* The log a committed entry was counted in, in terms of Holds.
LEMMA HoldsBelow ==
    ASSUME TypeInv, VoteInv, NEW H, HistoryInv(H), NEW p \in H,
           NEW i \in Server, NEW c, c.index \in 1..Len(p),
           p[c.index] = c.entry, Below(p, FullLog(i))
    PROVE  Holds(i, c)
<1>1. Len(p) \in Nat /\ Len(FullLog(i)) \in Nat
  BY TermFacts, Facts
<1>2. c.index <= Len(FullLog(i)) /\ FullLog(i)[c.index] = p[c.index]
  BY <1>1 DEF Below
<1> QED BY <1>2 DEF Holds

\* A committed entry is where it was counted.
LEMMA InvOnMajority == RaftInv => CommittedOnMajority
<1>1. SUFFICES ASSUME TypeInv, VoteInv, NEW H, NEW A, SafetyInv(H, A),
                      NEW c \in committed
               PROVE  Majority({i \in Server : Holds(i, c)})
  BY DEF RaftInv, CommittedOnMajority
<1>2. HistoryInv(H) /\ AckInv(Logs, Terms, H, A) /\ CommitOk(H, A, c)
  BY <1>1 DEF SafetyInv, LogsInv, CommitInv
<1>3. PICK p \in H : /\ Chosen(A, p) /\ c.index \in 1..Len(p)
                     /\ p[c.index] = c.entry
  BY <1>2 DEF CommitOk
<1>4. PICK Q \in SUBSET Server : Majority(Q) /\ \A q \in Q : <<q, p>> \in A
  BY <1>3 DEF Chosen
<1>5. ASSUME NEW q \in Q PROVE Holds(q, c)
  <2>1. Below(p, Logs[q])
    BY <1>2, <1>3, <1>4, ChosenNotDoomed DEF AckInv
  <2>2. Below(p, FullLog(q))
    BY <2>1 DEF Logs
  <2> QED BY <1>1, <1>2, <1>3, <2>2, HoldsBelow
<1>6. Q \subseteq {i \in Server : Holds(i, c)}
  BY <1>5
<1> QED BY <1>4, <1>6, MajorityGrows

\* A later leader has what was counted.
LEMMA InvComplete == RaftInv => LeaderCompleteness
<1>1. SUFFICES ASSUME TypeInv, VoteInv, NEW H, NEW A, SafetyInv(H, A),
                      NEW i \in Server, NEW c \in committed,
                      state[i] = Leader, currentTerm[i] > c.by
               PROVE  Holds(i, c)
  BY DEF RaftInv, LeaderCompleteness
<1>2. /\ HistoryInv(H) /\ OrderInv(Terms, H, A) /\ CommitOk(H, A, c)
      /\ FullLog(i) \in H /\ LastTerm(FullLog(i)) = currentTerm[i]
  BY <1>1 DEF SafetyInv, LogsInv, CommitInv, LeaderInv, Logs
<1>3. PICK p \in H : /\ Chosen(A, p) /\ LastTerm(p) = c.by
                     /\ c.index \in 1..Len(p) /\ p[c.index] = c.entry
  BY <1>2 DEF CommitOk
<1>4. Below(p, FullLog(i))
  BY <1>1, <1>2, <1>3, ChosenNotDoomed DEF OrderInv
<1> QED BY <1>1, <1>2, <1>3, <1>4, HoldsBelow

\* State machines are settled prefixes.
LEMMA InvMachines == RaftInv => StateMachineSafety
<1>1. SUFFICES ASSUME TypeInv, VoteInv, NEW H, NEW A, SafetyInv(H, A),
                      NEW i \in Server, NEW j \in Server,
                      NEW n \in 1..Len(sm[i]), n <= Len(sm[j])
               PROVE  sm[i][n] = sm[j][n]
  BY DEF RaftInv, StateMachineSafety
<1>2. HistoryInv(H) /\ OrderInv(Terms, H, A)
  BY <1>1 DEF SafetyInv, LogsInv
<1>3. ASSUME NEW k \in Server
      PROVE  sm[k] \in H /\ \E t : Settled(H, A, sm[k], t)
  <2>1. /\ NodeCommit(H, A, k) /\ FullLog(k) \in H
    BY <1>1 DEF SafetyInv, CommitInv, LogsInv, Logs
  <2>2. /\ lastApplied[k] \in Nat /\ commitIndex[k] \in Nat
        /\ lastApplied[k] <= commitIndex[k] /\ Len(FullLog(k)) \in Nat
    BY <1>1, Facts
  <2>3. /\ commitIndex[k] <= Len(FullLog(k))
        /\ Settled(H, A, Pre(FullLog(k), commitIndex[k]), hard[k].term)
        /\ sm[k] = Pre(FullLog(k), lastApplied[k])
    BY <2>1 DEF NodeCommit
  <2>4. /\ commitIndex[k] \in 0..Len(FullLog(k))
        /\ lastApplied[k] \in 0..commitIndex[k]
        /\ lastApplied[k] \in 0..Len(FullLog(k))
    BY <2>2, <2>3
  <2>5. Settled(H, A, sm[k], hard[k].term)
    BY <1>2, <2>1, <2>3, <2>4, CommitLower
  <2>6. sm[k] \in H
    BY <1>2, <2>1, <2>3, <2>4 DEF HistoryInv
  <2> QED BY <2>5, <2>6
<1>4. Below(sm[i], sm[j]) \/ Below(sm[j], sm[i])
  <2>1. PICK t : Settled(H, A, sm[i], t)
    BY <1>3
  <2>2. PICK u : Settled(H, A, sm[j], u)
    BY <1>3
  <2> QED BY <1>2, <1>3, <2>1, <2>2, SettledAgree
<1>5. Len(sm[i]) \in Nat /\ Len(sm[j]) \in Nat
  BY <1>2, <1>3, TermFacts
<1>6. n \in 1..Len(sm[i]) /\ n \in 1..Len(sm[j])
  BY <1>1, <1>5
<1> QED BY <1>4, <1>6 DEF Below

\* The state machine holds what was applied, out of the log that is there.
LEMMA InvSkipped == RaftInv => NothingSkipped
<1>1. SUFFICES ASSUME TypeInv, VoteInv, NEW H, NEW A, SafetyInv(H, A),
                      NEW i \in Server
               PROVE  /\ Len(sm[i]) = lastApplied[i]
                      /\ lastApplied[i] <= commitIndex[i]
                      /\ commitIndex[i] <= LastIndex(i)
  BY DEF RaftInv, NothingSkipped
<1>2. /\ commitIndex[i] <= Len(FullLog(i)) /\ sm[i] = Pre(FullLog(i), lastApplied[i])
      /\ NodeInv
  BY <1>1 DEF SafetyInv, CommitInv, NodeCommit
<1>3. /\ lastApplied[i] \in Nat /\ commitIndex[i] \in Nat
      /\ lastApplied[i] <= commitIndex[i] /\ Len(FullLog(i)) \in Nat
      /\ FullLog(i) \in Seq(Entry)
  BY <1>1, Facts
<1>4. Len(FullLog(i)) = LastIndex(i)
  BY <1>1, <1>2, FullLogFacts
<1>5. lastApplied[i] \in 0..Len(FullLog(i))
  BY <1>2, <1>3
<1>6. Len(sm[i]) = lastApplied[i]
  BY <1>2, <1>3, <1>5, PreFacts
<1> QED BY <1>2, <1>3, <1>4, <1>6

\* What a leader counts a peer for is below both logs.
LEMMA InvMatch == RaftInv => MatchIndexSound
<1>1. SUFFICES ASSUME TypeInv, VoteInv, NEW H, NEW A, SafetyInv(H, A),
                      NEW i \in Server, NEW p \in Server, i # p,
                      state[i] = Leader, currentTerm[p] = currentTerm[i],
                      NEW n \in (snap[i].index + 1)..matchIndex[i][p]
               PROVE  n <= LastIndex(p) /\ FullLog(p)[n] = FullLog(i)[n]
  BY DEF RaftInv, MatchIndexSound
<1>2. /\ HistoryInv(H) /\ AckInv(Logs, Terms, H, A) /\ NodeInv
      /\ Logs[p] = FullLog(p) /\ Terms[p] = hard[p].term
      /\ \A h \in H : LastTerm(h) = currentTerm[i] => Below(h, FullLog(i))
      /\ \/ matchIndex[i][p] <= snap[i].index
         \/ Confirmed(H, A, p, currentTerm[i], matchIndex[i][p])
  BY <1>1 DEF SafetyInv, LogsInv, LeaderInv, Logs, Terms
<1>3. /\ snap[i].index \in Nat /\ matchIndex[i][p] \in Nat
      /\ currentTerm[i] \in Nat /\ hard[p].term \in Nat
      /\ hard[p].term <= currentTerm[i]
      /\ Len(FullLog(p)) \in Nat /\ Len(FullLog(i)) \in Nat
  BY <1>1, Facts
<1>4. PICK h \in H : /\ Len(h) = matchIndex[i][p] /\ LastTerm(h) = currentTerm[i]
                     /\ Acked(A, p, h, currentTerm[i])
  <2>1. ~(matchIndex[i][p] <= snap[i].index)
    BY <1>3
  <2> QED BY <1>2, <2>1 DEF Confirmed
<1>5. h \in Seq(Entry) /\ n \in 1..Len(h) /\ Len(h) \in 1..Len(h) /\ h # <<>>
  <2>1. h \in Seq(Entry) /\ Len(h) \in Nat
    BY <1>2, TermFacts
  <2>2. n \in 1..Len(h) /\ Len(h) \in 1..Len(h)
    <3>1. /\ Len(h) \in Nat /\ snap[i].index \in Nat
          /\ n \in snap[i].index + 1..Len(h)
      BY <1>3, <1>4, <2>1, Zenon
    <3>2. PICK x \in Nat, s \in Nat : x = Len(h) /\ s = snap[i].index
      BY <3>1, Zenon
    <3>3. n \in s + 1..x
      BY <3>1, <3>2, Zenon
    <3>4. n \in 1..x /\ x \in 1..x
      BY <3>3
    <3> QED BY <3>2, <3>4, Zenon
  <2> QED BY <2>1, <2>2, EmptySeq
<1>6. <<p, h>> \in A
  <2>1. h[Len(h)].term = currentTerm[i]
    BY <1>4, <1>5 DEF LastTerm
  <2>2. Pre(h, Len(h)) = h
    BY <1>5, BelowFacts
  <2>3. <<p, Pre(h, Len(h))>> \in A
    BY <1>4, <1>5, <2>1 DEF Acked
  <2> QED BY <2>2, <2>3
<1>7. Below(h, FullLog(p))
  <2>1. LastTerm(h) <= Terms[p] /\ (LastTerm(h) = Terms[p] => Below(h, Logs[p]))
    BY <1>2, <1>6 DEF AckInv
  <2>2. LastTerm(h) = Terms[p]
    BY <1>2, <1>3, <1>4, <2>1
  <2> QED BY <1>2, <2>1, <2>2
<1>8. Below(h, FullLog(i))
  BY <1>2, <1>4
<1>9. /\ Len(h) <= Len(FullLog(p)) /\ h[n] = FullLog(p)[n]
      /\ h[n] = FullLog(i)[n] /\ Len(h) \in Nat
  BY <1>5, <1>7, <1>8 DEF Below
<1>10. Len(FullLog(p)) = LastIndex(p)
  BY <1>1, <1>2, FullLogFacts
<1>11. n <= LastIndex(p)
  BY <1>3, <1>5, <1>9, <1>10
<1> QED BY <1>9, <1>11

\* The same, of single entries.
LEMMA KeptEntries ==
    ASSUME RaftInv, RaftInv', CommitKept, logVars' # logVars,
           NEW i \in Server, NEW n \in 1..commitIndex[i]
    PROVE  n <= Len(FullLog(i)') /\ FullLog(i)'[n] = FullLog(i)[n]
<1> DEFINE f == FullLog(i)
           g == FullLog(i)'
           c == commitIndex[i]
<1>1. c <= Len(g) /\ Pre(g, c) = Pre(f, c)
  BY DEF CommitKept
<1>2. /\ f \in Seq(Entry) /\ Len(f) \in Nat /\ c \in Nat
  BY Facts DEF RaftInv
<1>3. g \in Seq(Entry) /\ Len(g) \in Nat
  BY FactsAfter DEF RaftInv
<1>4. c <= Len(f)
  BY DEF RaftInv, SafetyInv, CommitInv, NodeCommit
<1> HIDE DEF f, g
<1>5. c \in 0..Len(f) /\ c \in 0..Len(g) /\ n <= Len(g)
  BY <1>1, <1>2, <1>3, <1>4
<1>6. Pre(f, c)[n] = f[n] /\ Pre(g, c)[n] = g[n]
  BY <1>2, <1>3, <1>5, PreFacts
<1> QED BY <1>1, <1>5, <1>6 DEF f, g

\* The logs of two nodes that have the same term at an index are the same up
\* to it, whatever was truncated, compacted, lost and sent again.
THEOREM LogsMatch == Spec => []LogMatching
BY SafetyInit, SafetyNext, InvMatching, PTL DEF Spec

\* An entry maybeAdvanceCommitLocked counted stays on a majority of disks.
THEOREM CommittedStaysPut == Spec => []CommittedOnMajority
BY SafetyInit, SafetyNext, InvOnMajority, PTL DEF Spec

\* Who wins a later election has every entry that was committed: the
\* comparison of logs in HandleRequestVote is enough.
THEOREM LeadersComplete == Spec => []LeaderCompleteness
BY SafetyInit, SafetyNext, InvComplete, PTL DEF Spec

\* No two nodes ever apply different entries at an index, by applyLoop, by a
\* snapshot installed or by a restart.
THEOREM MachinesAgree == Spec => []StateMachineSafety
BY SafetyInit, SafetyNext, InvMachines, PTL DEF Spec

\* The branch of applyLoop for an entry the log does not hold is never taken.
THEOREM AppliesAll == Spec => []NothingSkipped
BY SafetyInit, SafetyNext, InvSkipped, PTL DEF Spec

\* Above its snapshot, matchIndex of a leader is what its peer holds as long
\* as both stay in the term, late replies to earlier requests included.
THEOREM MatchesSound == Spec => []MatchIndexSound
BY SafetyInit, SafetyNext, InvMatch, PTL DEF Spec

\* Neither HandleAppendEntries, nor HandleInstallSnapshot, nor a crash inside
\* HandleAppendEntries takes away or changes an entry up to commitIndex.
THEOREM CommittedStable == Spec => CommittedPrefixStable
<1>1. RaftInv /\ RaftInv' /\ CommitKept
      => [\A i \in Server : \A n \in 1..commitIndex[i] :
             /\ n <= Len(FullLog(i)')
             /\ FullLog(i)'[n] = FullLog(i)[n]]_logVars
  BY KeptEntries
<1> QED BY SafetyInit, SafetyNext, <1>1, PTL DEF Spec, CommittedPrefixStable
=============================================================================
