--------------------------- MODULE EvaluateProofs ---------------------------
(***************************************************************************)
(* Lemmas about the operators of internal/evaluate, shared by the proofs   *)
(* about the engine alone and about the evaluator service around it.       *)
(***************************************************************************)
EXTENDS Evaluate, TLAPS

\* Ages keep their bounds when time passes.
LEMMA OlderBounds ==
    ASSUME NEW lo \in Int, NEW cap \in Int, NEW age \in lo..cap
    PROVE  /\ Older(age, cap) \in lo..cap
           /\ age <= Older(age, cap)
           /\ Older(age, cap) <= age + 1
           /\ age < cap => Older(age, cap) = age + 1
BY DEF Older

\* The caps on the ages are integers with the expected order.
LEMMA Caps == /\ Expired \in Nat /\ Ripe \in Nat /\ 0 \in 0..Ripe
              /\ Expired \in (-MaxSkew)..Expired
              /\ \A lag \in 0..MaxLag : lag \in 0..Ripe
              /\ Ripe = Stability + MaxLag
BY WindowAssumption DEF Expired, Ripe

\* A fresh engine is a monitor.
LEMMA NewMonitorType == \A up \in BOOLEAN : NewMonitor(up) \in Monitor
BY Caps DEF NewMonitor, Monitor, Sample

\* Observe and the passing of time keep the engine a monitor.
LEMMA StepTypes ==
    ASSUME NEW m \in Monitor
    PROVE  /\ \A r \in Region, s \in Sample : Observe(m, r, s) \in Monitor
           /\ Aged(m) \in Monitor
<1>1. ASSUME NEW r \in Region, NEW s \in Sample
      PROVE  Observe(m, r, s) \in Monitor
  BY DEF Observe, Monitor
<1>2. Aged(m) \in Monitor
  <2>1. ASSUME NEW r \in Region
        PROVE  [m.samples[r] EXCEPT !.age = Older(@, Expired)] \in Sample
    BY OlderBounds, Caps, WindowAssumption DEF Monitor, Sample
  <2>2. Older(m.pendingAge, Ripe) \in 0..Ripe
    BY OlderBounds, Caps DEF Monitor
  <2> QED BY <2>1, <2>2 DEF Aged, Monitor
<1> QED BY <1>1, <1>2

\* What Evaluate may leave of a monitor: it is untouched, its candidate is
\* cancelled, a candidate runs on, or a candidate that held is committed.
LEMMA EvaluatedCases ==
    ASSUME NEW m \in Monitor, NEW lag \in 0..MaxLag
    PROVE  LET e == Evaluated(m, lag)
               up == ConsensusUp(m, lag)
               c == Candidate(m, up, lag)
           IN  /\ e \in Monitor /\ c \in Monitor
               /\ \/ ~ConsensusOk(m, lag) /\ e = m
                  \/ /\ ConsensusOk(m, lag) /\ up = m.confirmedUp
                     /\ e = [m EXCEPT !.pending = FALSE]
                  \/ /\ ConsensusOk(m, lag) /\ up # m.confirmedUp
                     /\ c.pendingAge - lag < Stability /\ e = c
                  \/ /\ ConsensusOk(m, lag) /\ up # m.confirmedUp
                     /\ c.pendingAge - lag >= Stability
                     /\ e = [c EXCEPT !.confirmedUp = up, !.pending = FALSE]
<1> DEFINE up == ConsensusUp(m, lag)
           c == Candidate(m, up, lag)
<1>1. up \in BOOLEAN
  BY DEF ConsensusUp
<1>2. c \in Monitor
  BY <1>1, Caps DEF Candidate, Monitor
<1>3. c.pendingAge \in Int /\ lag \in Int /\ Stability \in Int
  BY <1>2, WindowAssumption DEF Monitor
<1>4. [m EXCEPT !.pending = FALSE] \in Monitor
  BY DEF Monitor
<1>5. [c EXCEPT !.confirmedUp = up, !.pending = FALSE] \in Monitor
  BY <1>1, <1>2 DEF Monitor
<1>6. Evaluated(m, lag) =
        IF ~ConsensusOk(m, lag) THEN m
        ELSE IF up = m.confirmedUp THEN [m EXCEPT !.pending = FALSE]
        ELSE IF c.pendingAge - lag >= Stability
             THEN [c EXCEPT !.confirmedUp = up, !.pending = FALSE] ELSE c
  BY DEF Evaluated
<1> HIDE DEF up, c
<1> QED BY <1>1, <1>2, <1>3, <1>4, <1>5, <1>6 DEF up, c

\* What the callers of Evaluate rely on: the monitor stays a monitor, and the
\* event says how the committed state changed.
LEMMA EventCases ==
    ASSUME NEW m \in Monitor, NEW lag \in 0..MaxLag
    PROVE  LET e == Evaluated(m, lag)
               event == EvaluateEvent(m, lag)
           IN  /\ e \in Monitor
               /\ \/ event = "None" /\ e.confirmedUp = m.confirmedUp
                  \/ event = "Down" /\ m.confirmedUp /\ ~e.confirmedUp
                  \/ event = "Recovered" /\ ~m.confirmedUp /\ e.confirmedUp
<1>1. Evaluated(m, lag) \in Monitor
  BY EvaluatedCases
<1>2. Evaluated(m, lag).confirmedUp \in BOOLEAN /\ m.confirmedUp \in BOOLEAN
  BY <1>1 DEF Monitor
<1> QED BY <1>1, <1>2 DEF EvaluateEvent, Transition
=============================================================================
