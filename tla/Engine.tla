------------------------------- MODULE Engine -------------------------------
(***************************************************************************)
(* The engine of internal/evaluate under every sequence of calls its       *)
(* callers may make: results of any region, fresh or delayed, in any       *)
(* order, and ticks, while time passes.                                    *)
(***************************************************************************)
EXTENDS Evaluate

VARIABLES
    engine,     \* the Monitor of internal/evaluate
    sinceAgreed \* history: time since an evaluation last found the
                \* consensus agreeing with the committed state

vars == <<engine, sinceAgreed>>

\* The history an evaluation leaves: a commit starts a new state to agree with.
Noted(m, lag) ==
    sinceAgreed' =
       IF \/ ConsensusOk(m, lag) /\ ConsensusUp(m, lag) = m.confirmedUp
          \/ EvaluateEvent(m, lag) # "None"
       THEN 0 ELSE sinceAgreed

\* A result arrives, `age` after its check ran, and is evaluated at once.
Result(r, up, age) ==
    LET m == Observe(engine, r, [up |-> up, age |-> age]) IN
    /\ engine' = Evaluated(m, 0)
    /\ Noted(m, 0)

Tick(lag) ==
    /\ engine' = Evaluated(engine, lag)
    /\ Noted(engine, lag)

Elapse ==
    /\ engine' = Aged(engine)
    /\ sinceAgreed' = Older(sinceAgreed, Ripe)

Init ==
    /\ \E up \in BOOLEAN : engine = NewMonitor(up)
    /\ sinceAgreed = 0

Next ==
    \/ \E r \in Region, up \in BOOLEAN, age \in (-MaxSkew)..Expired :
          Result(r, up, age)
    \/ \E lag \in 0..MaxLag : Tick(lag)
    \/ Elapse

Spec == Init /\ [][Next]_vars

-----------------------------------------------------------------------------
\* Type correctness of the engine, with the bounds of every age.
TypeOK ==
    /\ engine \in Monitor
    /\ sinceAgreed \in 0..Ripe

\* A candidate is always the opposite of the committed state, and, but for a
\* lagging tick, not older than the disagreement: no evaluation since it
\* appeared agreed with the committed state.
CandidateDisagrees ==
    engine.pending => /\ engine.pendingUp # engine.confirmedUp
                      /\ engine.pendingAge <= sinceAgreed + MaxLag

\* Flap suppression: a step changes the committed state only when, for the
\* stability window less the lag of a tick, no evaluation agreed with the
\* state it leaves.
CommitsOnlyAfterStability ==
    [][engine'.confirmedUp # engine.confirmedUp
          => sinceAgreed + MaxLag >= Stability]_vars
=============================================================================
