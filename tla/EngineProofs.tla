---------------------------- MODULE EngineProofs ----------------------------
(***************************************************************************)
(* Theorems about the engine of internal/evaluate, for every set of        *)
(* regions, every freshness and stability window, every clock skew and     *)
(* every lag of the tick loop.                                             *)
(***************************************************************************)
EXTENDS Engine, EvaluateProofs

\* The inductive invariant: types, and what is known of a running candidate.
EngineInv == TypeOK /\ CandidateDisagrees

\* One evaluation, of the monitor m with the history so far: it keeps the
\* invariant, and it commits only after the window less the lag.
LEMMA EvaluationStep ==
    ASSUME NEW m \in Monitor, NEW lag \in 0..MaxLag, TypeOK,
           m.pending => /\ m.pendingUp # m.confirmedUp
                        /\ m.pendingAge <= sinceAgreed + MaxLag,
           engine' = Evaluated(m, lag), Noted(m, lag)
    PROVE  /\ TypeOK' /\ CandidateDisagrees'
           /\ engine'.confirmedUp # m.confirmedUp
                 => sinceAgreed + MaxLag >= Stability
<1> DEFINE up == ConsensusUp(m, lag)
           c == Candidate(m, up, lag)
           agrees == ConsensusOk(m, lag) /\ up = m.confirmedUp
<1>1. /\ up \in BOOLEAN /\ m.confirmedUp \in BOOLEAN /\ m.pending \in BOOLEAN
      /\ m.pendingUp \in BOOLEAN /\ m.pendingAge \in Int
  BY DEF Monitor, ConsensusUp
<1>2. /\ sinceAgreed \in 0..Ripe /\ 0 \in 0..Ripe
      /\ Stability \in Int /\ MaxLag \in Nat /\ Ripe \in Int
      /\ lag \in Int /\ 0 <= lag /\ lag <= MaxLag
  BY Caps, WindowAssumption DEF TypeOK
<1>3. engine' \in Monitor /\ c \in Monitor
  BY EvaluatedCases
<1>4. TypeOK'
  BY <1>2, <1>3 DEF TypeOK, Noted
<1>5. c.pending /\ c.pendingUp = up /\ c.confirmedUp = m.confirmedUp
  BY <1>1 DEF Candidate, Monitor
<1>6. ~agrees /\ ConsensusOk(m, lag) => c.pendingAge <= sinceAgreed + MaxLag
  <2>1. (c.pendingAge = m.pendingAge /\ m.pending) \/ c.pendingAge = lag
    BY DEF Candidate, Monitor
  <2> QED BY <2>1, <1>1, <1>2
<1>7. c.pendingAge \in Int
  BY <1>3 DEF Monitor
<1>8. CASE ~ConsensusOk(m, lag) /\ engine' = m
  <2>1. EvaluateEvent(m, lag) = "None"
    BY <1>8, <1>1 DEF EvaluateEvent, Transition
  <2>2. sinceAgreed' = sinceAgreed
    BY <1>8, <2>1 DEF Noted
  <2> QED BY <1>4, <1>8, <2>2 DEF CandidateDisagrees
<1>9. CASE agrees /\ engine' = [m EXCEPT !.pending = FALSE]
  <2>1. engine'.pending = FALSE /\ engine'.confirmedUp = m.confirmedUp
    BY <1>9 DEF Monitor
  <2> QED BY <1>4, <2>1 DEF CandidateDisagrees
<1>10. CASE ConsensusOk(m, lag) /\ up # m.confirmedUp /\ engine' = c
  <2>1. EvaluateEvent(m, lag) = "None"
    BY <1>10, <1>5 DEF EvaluateEvent, Transition
  <2>2. sinceAgreed' = sinceAgreed
    BY <1>10, <2>1 DEF Noted
  <2>3. engine'.pendingUp # engine'.confirmedUp
    BY <1>10, <1>5
  <2>4. engine'.pendingAge <= sinceAgreed' + MaxLag
    BY <1>10, <1>6, <2>2
  <2> QED BY <1>4, <1>10, <1>5, <2>3, <2>4 DEF CandidateDisagrees
<1>11. CASE /\ ConsensusOk(m, lag) /\ up # m.confirmedUp
            /\ c.pendingAge - lag >= Stability
            /\ engine' = [c EXCEPT !.confirmedUp = up, !.pending = FALSE]
  <2>1. engine'.pending = FALSE
    BY <1>11, <1>3 DEF Monitor
  <2>2. sinceAgreed + MaxLag >= Stability
    BY <1>11, <1>6, <1>7, <1>2
  <2> QED BY <1>4, <2>1, <2>2 DEF CandidateDisagrees
<1> HIDE DEF up, c, agrees
<1>12. \/ ~ConsensusOk(m, lag) /\ engine' = m
       \/ agrees /\ engine' = [m EXCEPT !.pending = FALSE]
       \/ ConsensusOk(m, lag) /\ up # m.confirmedUp /\ engine' = c
       \/ /\ ConsensusOk(m, lag) /\ up # m.confirmedUp
          /\ c.pendingAge - lag >= Stability
          /\ engine' = [c EXCEPT !.confirmedUp = up, !.pending = FALSE]
  BY EvaluatedCases DEF up, c, agrees
<1> QED BY <1>8, <1>9, <1>10, <1>11, <1>12

\* Every step of the engine keeps the invariant and respects the window.
LEMMA EngineStep ==
    ASSUME EngineInv, [Next]_vars
    PROVE  /\ EngineInv'
           /\ engine'.confirmedUp # engine.confirmedUp
                 => sinceAgreed + MaxLag >= Stability
<1> USE DEF EngineInv
<1>1. ASSUME NEW r \in Region, NEW up \in BOOLEAN,
             NEW age \in (-MaxSkew)..Expired, Result(r, up, age)
      PROVE  /\ EngineInv'
             /\ engine'.confirmedUp # engine.confirmedUp
                   => sinceAgreed + MaxLag >= Stability
  <2> DEFINE m == Observe(engine, r, [up |-> up, age |-> age])
  <2>1. [up |-> up, age |-> age] \in Sample
    BY <1>1 DEF Sample
  <2>2. m \in Monitor
    BY <2>1, StepTypes DEF TypeOK
  <2>3. /\ m.pending = engine.pending /\ m.pendingUp = engine.pendingUp
        /\ m.confirmedUp = engine.confirmedUp
        /\ m.pendingAge = engine.pendingAge
    BY DEF Observe, TypeOK, Monitor
  <2>4. 0 \in 0..MaxLag /\ engine' = Evaluated(m, 0) /\ Noted(m, 0)
    BY <1>1, WindowAssumption DEF Result
  <2> HIDE DEF m
  <2>5. m.pending => /\ m.pendingUp # m.confirmedUp
                     /\ m.pendingAge <= sinceAgreed + MaxLag
    BY <2>3 DEF CandidateDisagrees
  <2> QED BY <2>2, <2>3, <2>4, <2>5, EvaluationStep
<1>2. ASSUME NEW lag \in 0..MaxLag, Tick(lag)
      PROVE  /\ EngineInv'
             /\ engine'.confirmedUp # engine.confirmedUp
                   => sinceAgreed + MaxLag >= Stability
  BY <1>2, EvaluationStep DEF Tick, TypeOK, CandidateDisagrees
<1>3. CASE Elapse
  <2>1. engine' = Aged(engine) /\ engine' \in Monitor
    BY <1>3, StepTypes DEF Elapse, TypeOK
  <2>2. /\ engine'.pending = engine.pending
        /\ engine'.pendingUp = engine.pendingUp
        /\ engine'.confirmedUp = engine.confirmedUp
        /\ engine'.pendingAge = Older(engine.pendingAge, Ripe)
    BY <2>1 DEF Aged, TypeOK, Monitor
  <2>3. sinceAgreed' = Older(sinceAgreed, Ripe)
    BY <1>3 DEF Elapse
  <2>4. /\ sinceAgreed \in 0..Ripe
        /\ engine.pendingAge \in 0..Ripe /\ Ripe \in Nat /\ MaxLag \in Nat
    BY Caps, WindowAssumption DEF TypeOK, Monitor
  <2>5. TypeOK'
    <3>1. Ripe' = Ripe
      BY DEF Ripe
    <3>2. sinceAgreed' \in 0..Ripe
      BY <2>3, <2>4 DEF Older
    <3>3. Monitor' = Monitor
      BY DEF Monitor, Sample, Expired, Ripe
    <3> QED BY <2>1, <3>1, <3>2, <3>3 DEF TypeOK
  <2>6. engine.pendingAge <= sinceAgreed + MaxLag
           => engine'.pendingAge <= sinceAgreed' + MaxLag
    BY <2>2, <2>3, <2>4 DEF Older
  <2> QED BY <2>2, <2>5, <2>6 DEF CandidateDisagrees
<1>4. CASE UNCHANGED vars
  BY <1>4 DEF vars, TypeOK, CandidateDisagrees
<1> QED BY <1>1, <1>2, <1>3, <1>4 DEF Next

\* The initial states satisfy the invariant.
LEMMA EngineStart == Init => EngineInv
<1> SUFFICES ASSUME Init PROVE EngineInv
  OBVIOUS
<1>1. engine \in Monitor
  BY NewMonitorType DEF Init
<1>2. engine.pending = FALSE
  BY DEF Init, NewMonitor
<1> QED BY <1>1, <1>2, Caps DEF Init, EngineInv, TypeOK, CandidateDisagrees

\* Evaluate keeps the engine well typed, with every age inside its bounds,
\* and a candidate is always a real disagreement with the committed state.
THEOREM CandidateSound == Spec => [](TypeOK /\ CandidateDisagrees)
<1>1. EngineInv /\ [Next]_vars => EngineInv'
  BY EngineStep
<1> QED BY EngineStart, <1>1, PTL DEF Spec, EngineInv

\* The engine is well typed in every reachable state, whatever results and
\* ticks Observe and Evaluate are given.
THEOREM EngineTypes == Spec => []TypeOK
BY CandidateSound, PTL

\* Flap suppression: Evaluate never commits a state change before the
\* stability window, less the lag of a tick, has passed without agreement.
THEOREM FlapSuppressed == Spec => CommitsOnlyAfterStability
<1>1. EngineInv /\ [Next]_vars => EngineInv'
  BY EngineStep
<1>2. EngineInv /\ [Next]_vars
         => [engine'.confirmedUp # engine.confirmedUp
                => sinceAgreed + MaxLag >= Stability]_vars
  BY EngineStep
<1> QED BY EngineStart, <1>1, <1>2, PTL DEF Spec, CommitsOnlyAfterStability
=============================================================================
