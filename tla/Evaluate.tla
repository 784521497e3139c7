------------------------------ MODULE Evaluate ------------------------------
(***************************************************************************)
(* internal/evaluate: the pure per-monitor engine that votes over the      *)
(* regions and suppresses flapping.                                        *)
(*                                                                         *)
(* The code stores instants and subtracts them from the `now` it is given. *)
(* Only those differences matter, so a sample and a candidate carry their  *)
(* age instead.  Ages stop growing once no comparison can tell them apart, *)
(* which keeps an unbounded run finite.  An evaluation's `now` may lie in  *)
(* the past: the tick loop evaluates with the instant its ticker fired,    *)
(* which is `lag` ago by the time it holds the lock.                       *)
(***************************************************************************)
EXTENDS Integers, FiniteSets

CONSTANTS
    Region,     \* the regions checkers report from
    Freshness,  \* cfg.Freshness: an older sample does not vote
    Stability,  \* cfg.Stability: how long a candidate must hold
    MaxSkew,    \* bound: how far a checker's clock may run ahead
    MaxLag      \* bound: how far an evaluation's now may lie in the past

ASSUME RegionAssumption == IsFiniteSet(Region)
ASSUME WindowAssumption ==
    /\ Freshness \in Nat /\ Stability \in Nat
    /\ MaxSkew \in Nat /\ MaxLag \in Nat

\* No evaluation counts a sample of this age, and every one commits a
\* candidate of that age.
Expired == Freshness + MaxLag + 1
Ripe == Stability + MaxLag

Older(age, cap) == IF age < cap THEN age + 1 ELSE age

Sample == [up : BOOLEAN, age : (-MaxSkew)..Expired]

Monitor ==
    [samples : [Region -> Sample], confirmedUp : BOOLEAN, pending : BOOLEAN,
     pendingUp : BOOLEAN, pendingAge : 0..Ripe]

\* A region that never reported votes like one whose sample expired: not.
NewMonitor(initialUp) ==
    [samples |-> [r \in Region |-> [up |-> TRUE, age |-> Expired]],
     confirmedUp |-> initialUp, pending |-> FALSE, pendingUp |-> FALSE,
     pendingAge |-> 0]

\* The sample replaces the region's previous one, also when it is older.
Observe(m, r, s) == [m EXCEPT !.samples[r] = s]

FreshRegions(m, lag) == {r \in Region : m.samples[r].age - lag <= Freshness}

DownRegions(m, lag) == {r \in FreshRegions(m, lag) : ~m.samples[r].up}

\* consensus: its ok, and its up when ok.
ConsensusOk(m, lag) == FreshRegions(m, lag) # {}
ConsensusUp(m, lag) ==
    2 * Cardinality(DownRegions(m, lag)) <= Cardinality(FreshRegions(m, lag))

\* Mutant of Candidate: a new candidate inherits the start of an old one.
CandidateKeepsStart(m, up, lag) ==
    [m EXCEPT !.pending = TRUE, !.pendingUp = up]

\* Mutant of Candidate: a new candidate starts one unit in the future.
CandidateAhead(m, up, lag) ==
    IF m.pending /\ m.pendingUp = up THEN m
    ELSE [m EXCEPT !.pending = TRUE, !.pendingUp = up, !.pendingAge = lag - 1]

\* Mutant of Candidate: every evaluation restarts the candidate.
CandidateRestarts(m, up, lag) ==
    [m EXCEPT !.pending = TRUE, !.pendingUp = up, !.pendingAge = lag]

\* The candidate change to `up`: the running one, or a new one.
Candidate(m, up, lag) ==
    IF m.pending /\ m.pendingUp = up THEN m
    ELSE [m EXCEPT !.pending = TRUE, !.pendingUp = up, !.pendingAge = lag]

\* Mutant of Evaluated: agreement with the committed state does not cancel a
\* running candidate.
EvaluatedNoCancel(m, lag) ==
    IF ~ConsensusOk(m, lag) \/ ConsensusUp(m, lag) = m.confirmedUp
    THEN m
    ELSE LET up == ConsensusUp(m, lag)
             c == Candidate(m, up, lag)
         IN  IF c.pendingAge - lag >= Stability
             THEN [c EXCEPT !.confirmedUp = up, !.pending = FALSE]
             ELSE c

\* Evaluate: what it leaves of the monitor, and the event it returns.
Evaluated(m, lag) ==
    IF ~ConsensusOk(m, lag)
    THEN m
    ELSE IF ConsensusUp(m, lag) = m.confirmedUp
    THEN [m EXCEPT !.pending = FALSE]
    ELSE LET up == ConsensusUp(m, lag)
             c == Candidate(m, up, lag)
         IN  IF c.pendingAge - lag >= Stability
             THEN [c EXCEPT !.confirmedUp = up, !.pending = FALSE]
             ELSE c

\* Transition, of the committed states before and after.
Transition(prevUp, nowUp) ==
    IF prevUp = nowUp THEN "None" ELSE IF nowUp THEN "Recovered" ELSE "Down"

EvaluateEvent(m, lag) == Transition(m.confirmedUp, Evaluated(m, lag).confirmedUp)

\* One unit of time passes.
Aged(m) ==
    [m EXCEPT !.samples = [r \in Region |->
                  [m.samples[r] EXCEPT !.age = Older(@, Expired)]],
              !.pendingAge = Older(@, Ripe)]
=============================================================================
