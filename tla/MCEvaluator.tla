---------------------------- MODULE MCEvaluator -----------------------------
(***************************************************************************)
(* Model-checking instances of Evaluator.                                  *)
(***************************************************************************)
EXTENDS Evaluator, TLC

\* The state without what no later step and no property reads: the checks and
\* the certificate expiry in the database, the start of a candidate that is
\* not running, and what an expired sample said.
View ==
    <<row, muted, incVars, running, known,
      engine.confirmedUp, engine.pending,
      IF engine.pending THEN <<engine.pendingUp, engine.pendingAge>> ELSE <<>>,
      [r \in Region |-> IF engine.samples[r].age = Expired THEN <<>>
                        ELSE engine.samples[r]],
      warnVars, current, todo, inflight, site, alerts, mailVars,
      boundVars, dbErrors>>
=============================================================================
