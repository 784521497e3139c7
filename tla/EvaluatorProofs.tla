-------------------------- MODULE EvaluatorProofs ---------------------------
(***************************************************************************)
(* Theorems about cmd/evaluator around one monitor: every set of regions,  *)
(* every window, every number of results in flight, crashes, database      *)
(* errors and administrative changes.                                      *)
(***************************************************************************)
EXTENDS Evaluator, EvaluateProofs

\* What the holder of e.mu may still have to do.
Todos == {<<>>, <<"checkCert", "checkSlow", "observe">>,
          <<"cert", "checkSlow", "observe">>, <<"checkSlow", "observe">>,
          <<"slow", "observe">>, <<"observe">>, <<"down">>, <<"recovered">>}

\* A result is being handled under the lock.
Handling == todo \notin {<<>>, <<"down">>, <<"recovered">>}

\* Where the process stands: its steps come in the order of the code, a dead
\* process holds nothing, and nothing is known of a monitor without a row.
StepsInv ==
    /\ todo \in Todos
    /\ Handling => current # NoResult
    /\ todo # <<>> => running /\ known
    /\ ~running => ~known /\ current = NoResult /\ inflight = {}
    /\ known => row # "none"
    /\ row = "none" => inflight = {} /\ current = NoResult /\ open = 0

-----------------------------------------------------------------------------
(* The steps of the holder of e.mu *)

\* A step in front of two others.
LEMMA Prepended ==
    ASSUME NEW a, NEW b, NEW c
    PROVE  <<a>> \o <<b, c>> = <<a, b, c>>
<1> DEFINE S == {a, b, c}
           s == <<a>> \o <<b, c>>
           t == <<a, b, c>>
<1>1. <<a>> \in Seq(S) /\ <<b, c>> \in Seq(S) /\ t \in Seq(S)
  OBVIOUS
<1>2. s \in Seq(S) /\ Len(s) = 3 /\ Len(t) = 3
  BY <1>1
<1>3. \A i \in 1..3 : s[i] = t[i]
  <2>1. s[1] = a /\ s[2] = b /\ s[3] = c
    BY <1>1
  <2> QED BY <2>1
<1> HIDE DEF s, t
<1>4. s = t
  BY <1>1, <1>2, <1>3
<1> QED BY <1>4 DEF s, t

\* Heads, tails and extensions of short tuples.
LEMMA Tuples ==
    ASSUME NEW a, NEW b, NEW c
    PROVE  /\ Head(<<a, b, c>>) = a /\ Tail(<<a, b, c>>) = <<b, c>>
           /\ Head(<<a, b>>) = a /\ Tail(<<a, b>>) = <<b>>
           /\ Head(<<a>>) = a /\ Tail(<<a>>) = <<>>
           /\ <<a>> \o <<b>> = <<a, b>>
<1>1. Head(<<a, b, c>>) = a /\ Head(<<a, b>>) = a /\ Head(<<a>>) = a
  OBVIOUS
<1>2. Tail(<<a, b, c>>) = <<b, c>>
  OBVIOUS
<1>3. Tail(<<a, b>>) = <<b>>
  OBVIOUS
<1>4. Tail(<<a>>) = <<>>
  OBVIOUS
<1>6. <<a>> \o <<b>> = <<a, b>>
  <2> DEFINE S == {a, b}
             s == <<a>> \o <<b>>
             t == <<a, b>>
  <2>1. <<a>> \in Seq(S) /\ <<b>> \in Seq(S) /\ t \in Seq(S)
    OBVIOUS
  <2>2. s \in Seq(S) /\ Len(s) = 2 /\ Len(t) = 2
    BY <2>1
  <2>3. \A i \in 1..2 : s[i] = t[i]
    <3>1. s[1] = a /\ s[2] = b
      BY <2>1
    <3> QED BY <3>1
  <2> HIDE DEF s, t
  <2>4. s = t
    BY <2>1, <2>2, <2>3
  <2> QED BY <2>4 DEF s, t
<1> QED BY <1>1, <1>2, <1>3, <1>4, <1>6

\* The head and the rest of what is still to do.
LEMMA TodoCases ==
    ASSUME NEW t \in Todos, t # <<>>
    PROVE  \/ /\ t = <<"checkCert", "checkSlow", "observe">>
              /\ Head(t) = "checkCert" /\ Tail(t) = <<"checkSlow", "observe">>
              /\ <<"cert">> \o Tail(t) = <<"cert", "checkSlow", "observe">>
           \/ /\ t = <<"cert", "checkSlow", "observe">>
              /\ Head(t) = "cert" /\ Tail(t) = <<"checkSlow", "observe">>
           \/ /\ t = <<"checkSlow", "observe">>
              /\ Head(t) = "checkSlow" /\ Tail(t) = <<"observe">>
              /\ <<"slow">> \o Tail(t) = <<"slow", "observe">>
           \/ /\ t = <<"slow", "observe">>
              /\ Head(t) = "slow" /\ Tail(t) = <<"observe">>
           \/ /\ t = <<"observe">>
              /\ Head(t) = "observe" /\ Tail(t) = <<>>
           \/ /\ t = <<"down">> /\ Head(t) = "down" /\ Tail(t) = <<>>
           \/ /\ t = <<"recovered">> /\ Head(t) = "recovered" /\ Tail(t) = <<>>
<1>1. \/ t = <<"checkCert", "checkSlow", "observe">>
      \/ t = <<"cert", "checkSlow", "observe">>
      \/ t = <<"checkSlow", "observe">>
      \/ t = <<"slow", "observe">>
      \/ t = <<"observe">> \/ t = <<"down">> \/ t = <<"recovered">>
  BY DEF Todos
<1>2. /\ Head(<<"checkCert", "checkSlow", "observe">>) = "checkCert"
      /\ Tail(<<"checkCert", "checkSlow", "observe">>)
            = <<"checkSlow", "observe">>
  BY Tuples
<1>7. <<"cert">> \o <<"checkSlow", "observe">>
         = <<"cert", "checkSlow", "observe">>
  BY Prepended
<1>3. /\ Head(<<"cert", "checkSlow", "observe">>) = "cert"
      /\ Tail(<<"cert", "checkSlow", "observe">>) = <<"checkSlow", "observe">>
  BY Tuples
<1>4. /\ Head(<<"checkSlow", "observe">>) = "checkSlow"
      /\ Tail(<<"checkSlow", "observe">>) = <<"observe">>
      /\ <<"slow">> \o <<"observe">> = <<"slow", "observe">>
  BY Tuples
<1>5. /\ Head(<<"slow", "observe">>) = "slow"
      /\ Tail(<<"slow", "observe">>) = <<"observe">>
  BY Tuples
<1>6. \A a : Head(<<a>>) = a /\ Tail(<<a>>) = <<>>
  BY Tuples
<1> QED BY <1>1, <1>2, <1>3, <1>4, <1>5, <1>6, <1>7, Zenon

\* The plans differ from one another.
LEMMA TodosDiffer ==
    /\ <<"checkCert", "checkSlow", "observe">> \notin
          {<<>>, <<"cert", "checkSlow", "observe">>, <<"slow", "observe">>,
           <<"down">>, <<"recovered">>}
    /\ <<"cert", "checkSlow", "observe">> \notin
          {<<>>, <<"slow", "observe">>, <<"down">>, <<"recovered">>}
    /\ <<"checkSlow", "observe">> \notin
          {<<>>, <<"cert", "checkSlow", "observe">>, <<"slow", "observe">>,
           <<"down">>, <<"recovered">>}
    /\ <<"slow", "observe">> \notin {<<>>, <<"down">>, <<"recovered">>}
    /\ <<"observe">> \notin
          {<<>>, <<"cert", "checkSlow", "observe">>, <<"slow", "observe">>,
           <<"down">>, <<"recovered">>}
    /\ <<"down">> \notin {<<>>, <<"recovered">>}
    /\ <<"recovered">> # <<>>
OBVIOUS

\* Every plan is a sequence of step names.
LEMMA TodosType == Todos \subseteq Seq(StepName)
BY DEF Todos, StepName, Kind

\* What a commit appends to an empty plan.
LEMMA Appended == /\ <<>> \o <<"down">> = <<"down">>
                  /\ <<>> \o <<"recovered">> = <<"recovered">>
OBVIOUS

-----------------------------------------------------------------------------
(* What the steps under the lock do *)

\* The record constructors of the results.
LEMMA ResultTypes ==
    /\ 0 \in 0..Expired
    /\ \A m \in Result : /\ OlderResult(m) \in Result
                        /\ m.region \in Region
                        /\ [up |-> m.up, age |-> m.age] \in Sample
<1>1. 0 \in 0..Expired
  BY Caps
<1>2. ASSUME NEW m \in Result
      PROVE  /\ OlderResult(m) \in Result
             /\ m.region \in Region
             /\ [up |-> m.up, age |-> m.age] \in Sample
  <2>1. m.age \in 0..Expired /\ m.age \in (-MaxSkew)..Expired
    BY Caps, WindowAssumption DEF Result
  <2>2. Older(m.age, Expired) \in 0..Expired
    BY <2>1, Caps DEF Older
  <2> QED BY <2>1, <2>2 DEF Result, Sample, OlderResult
<1> QED BY <1>1, <1>2

\* A commit at the end of a plan: nothing, an incident opened, or one resolved,
\* the write of which may fail.
LEMMA CommitCases ==
    ASSUME NEW m \in Monitor, NEW lag \in 0..MaxLag, Commit(m, lag, <<>>)
    PROVE  /\ engine' \in Monitor
           /\ \/ /\ todo' = <<>> /\ engine'.confirmedUp = m.confirmedUp
                 /\ UNCHANGED <<incVars, alerts, dbErrors>>
              \/ /\ todo' = <<"down">> /\ m.confirmedUp
                 /\ ~engine'.confirmedUp
                 /\ \/ OpenIncident /\ UNCHANGED dbErrors
                    \/ /\ dbErrors < MaxDbErrors /\ dbErrors' = dbErrors + 1
                       /\ UNCHANGED <<incVars, alerts>>
              \/ /\ todo' = <<"recovered">> /\ ~m.confirmedUp
                 /\ engine'.confirmedUp
                 /\ \/ ResolveIncident /\ UNCHANGED dbErrors
                    \/ /\ dbErrors < MaxDbErrors /\ dbErrors' = dbErrors + 1
                       /\ UNCHANGED <<incVars, alerts>>
<1> DEFINE event == EvaluateEvent(m, lag)
<1>1. engine' = Evaluated(m, lag) /\ engine' \in Monitor
  BY EventCases DEF Commit
<1>2. CASE event = "None" /\ engine'.confirmedUp = m.confirmedUp
  BY <1>1, <1>2 DEF Commit
<1>3. CASE event = "Down" /\ m.confirmedUp /\ ~engine'.confirmedUp
  <2>1. todo' = <<>> \o <<"down">>
    BY <1>3 DEF Commit
  <2>2. todo' = <<"down">>
    BY <2>1, Appended
  <2> QED BY <1>1, <1>3, <2>2 DEF Commit
<1>4. CASE event = "Recovered" /\ ~m.confirmedUp /\ engine'.confirmedUp
  <2>1. todo' = <<>> \o <<"recovered">>
    BY <1>4 DEF Commit
  <2>2. todo' = <<"recovered">>
    BY <2>1, Appended
  <2> QED BY <1>1, <1>4, <2>2 DEF Commit
<1> QED BY <1>1, <1>2, <1>3, <1>4, EventCases

\* The end of handleResult is such a commit, of the engine with the sample.
LEMMA ObserveCases ==
    ASSUME TypeOK, StepsInv, ObserveResult
    PROVE  \E m \in Monitor :
             /\ m.confirmedUp = engine.confirmedUp
             /\ Commit(m, 0, <<>>)
             /\ todo = <<"observe">> /\ 0 \in 0..MaxLag
<1>1. todo = <<"observe">> /\ Tail(todo) = <<>> /\ Handling
  BY TodoCases, TodosDiffer DEF ObserveResult, StepsInv, Handling
<1>2. current \in Result
  BY <1>1 DEF StepsInv, TypeOK
<1> DEFINE s == [up |-> current.up, age |-> current.age]
           m == Observe(engine, current.region, s)
<1>3. s \in Sample /\ current.region \in Region
  BY <1>2, ResultTypes
<1>4. m \in Monitor
  BY <1>3, StepTypes DEF TypeOK
<1>5. m.confirmedUp = engine.confirmedUp
  BY DEF Observe, TypeOK, Monitor
<1>6. Commit(m, 0, <<>>)
  BY <1>1 DEF ObserveResult
<1> QED BY <1>1, <1>4, <1>5, <1>6, WindowAssumption

\* One round of the tick loop is such a commit, of the engine as it is.
LEMMA TickCases ==
    ASSUME TypeOK, NEW lag \in 0..MaxLag, TickLoop(lag)
    PROVE  engine \in Monitor /\ Commit(engine, lag, <<>>)
BY DEF TickLoop, TypeOK

-----------------------------------------------------------------------------
(* Types and the order of the steps *)

\* The initial states are typed and have nothing to do.
LEMMA TypesStart == Init => TypeOK /\ StepsInv
<1> SUFFICES ASSUME Init PROVE TypeOK /\ StepsInv
  OBVIOUS
<1>1. engine \in Monitor
  BY NewMonitorType DEF Init
<1>2. alerts \in [down : 0..2, recovered : 0..2]
  BY DEF Init, NoAlerts
<1>3. /\ <<>> \in Seq(StepName) /\ site \in [Region -> BOOLEAN]
      /\ slowStreak \in 0..SlowStreakToAlert
  BY DEF Init, SlowStreakToAlert
<1>5. known \in BOOLEAN
  BY Zenon DEF Init
<1>4. TypeOK
  <2>1. /\ row \in {"none", "enabled", "disabled", "gone"} /\ open \in Nat
        /\ certExpiry \in {"none", "ok", "near"} /\ inflight \subseteq Result
        /\ certMails \in 0..2 /\ slowMails \in 0..2
        /\ flips \in Nat /\ admin \in Nat /\ crashes \in Nat
        /\ dbErrors \in Nat /\ todo \in Seq(StepName)
    BY <1>3 DEF Init
  <2>2. /\ muted \in BOOLEAN /\ resolved \in BOOLEAN /\ checks \in BOOLEAN
        /\ running \in BOOLEAN /\ certAlerted \in BOOLEAN
        /\ slowAlerted \in BOOLEAN /\ current \in Result \cup {NoResult}
    BY Zenon DEF Init
  <2> QED BY <2>1, <2>2, <1>1, <1>2, <1>3, <1>5, Zenon DEF TypeOK
<1> QED BY <1>4, <1>5 DEF Init, StepsInv, Todos, Handling

\* Steps of the world around the process.
LEMMA EnvironmentTypes ==
    ASSUME TypeOK, StepsInv, Environment
    PROVE  TypeOK' /\ StepsInv'
<1>1. ASSUME NEW r \in Region, Flip(r) PROVE TypeOK' /\ StepsInv'
  <2>1. site' \in [Region -> BOOLEAN] /\ flips' \in Nat
    BY <1>1 DEF Flip, TypeOK
  <2> QED BY <1>1, <2>1 DEF Flip, TypeOK, StepsInv, Handling, dbVars, incVars,
             warnVars, mailVars
<1>2. ASSUME NEW r \in Region, Publish(r) PROVE TypeOK' /\ StepsInv'
  <2>1. inflight' \subseteq Result
    <3>1. PICK slow \in SlowValues, cert \in CertValues :
             inflight' = inflight \cup
                {[region |-> r, up |-> site[r], slow |-> slow /\ site[r],
                  cert |-> cert, age |-> 0]}
      BY <1>2 DEF Publish
    <3>2. /\ site[r] \in BOOLEAN /\ (slow /\ site[r]) \in BOOLEAN
          /\ cert \in {"none", "ok", "near"}
      BY EvaluatorAssumption DEF TypeOK
    <3>3. [region |-> r, up |-> site[r], slow |-> slow /\ site[r],
           cert |-> cert, age |-> 0] \in Result
      BY <3>2, ResultTypes DEF Result
    <3> QED BY <3>1, <3>3 DEF TypeOK
  <2> QED BY <1>2, <2>1 DEF Publish, TypeOK, StepsInv, Handling, dbVars,
             incVars, warnVars, mailVars, boundVars
<1>3. ASSUME NEW m \in inflight, Lose(m) PROVE TypeOK' /\ StepsInv'
  BY <1>3 DEF Lose, TypeOK, StepsInv, Handling, dbVars, incVars, warnVars,
     mailVars, boundVars
<1>4. CASE Elapse
  <2>1. engine' \in Monitor
    BY <1>4, StepTypes DEF Elapse, TypeOK
  <2>2. inflight' \subseteq Result /\ current' \in Result \cup {NoResult}
    BY <1>4, ResultTypes DEF Elapse, TypeOK
  <2>3. /\ inflight = {} => inflight' = {}
        /\ current = NoResult => current' = NoResult
    BY <1>4 DEF Elapse
  <2>4. Handling => current' # NoResult
    BY <1>4, ResultTypes, NoResultAssumption DEF Elapse, StepsInv, TypeOK
  <2>5. TypeOK'
    BY <1>4, <2>1, <2>2 DEF Elapse, TypeOK, dbVars, incVars, warnVars,
       mailVars, boundVars
  <2> QED BY <1>4, <2>3, <2>4, <2>5 DEF Elapse, StepsInv, Handling, dbVars,
             incVars, warnVars, mailVars, boundVars
<1> QED BY <1>1, <1>2, <1>3, <1>4 DEF Environment

\* Steps that neither hold the lock nor commit.
LEMMA ProcessTypes ==
    ASSUME TypeOK, StepsInv,
           \/ \E m \in inflight : Receive(m)
           \/ Lock \/ Crash \/ Start
    PROVE  TypeOK' /\ StepsInv'
<1>1. ASSUME NEW m \in inflight, Receive(m) PROVE TypeOK' /\ StepsInv'
  <2>1. checks' \in BOOLEAN /\ dbErrors' \in Nat
    <3>1. /\ checks' = TRUE \/ checks' = checks
          /\ dbErrors' = dbErrors \/ dbErrors' = dbErrors + 1
      BY <1>1, Zenon DEF Receive
    <3>2. checks \in BOOLEAN /\ dbErrors \in Nat
      BY DEF TypeOK
    <3>3. checks' \in BOOLEAN
      BY <3>1, <3>2, Zenon
    <3> QED BY <3>1, <3>2, <3>3
  <2>2. current' \in Result \cup {NoResult} /\ inflight' \subseteq Result
    BY <1>1 DEF Receive, TypeOK
  <2>3. TypeOK'
    BY <1>1, <2>1, <2>2 DEF Receive, TypeOK, dbVars, incVars, warnVars,
       mailVars, boundVars
  <2> QED BY <1>1, <2>3 DEF Receive, StepsInv, Handling, dbVars, incVars
<1>2. CASE Lock
  <2>1. engine' \in Monitor
    BY <1>2, NewMonitorType DEF Lock, TypeOK
  <2>2. todo' \in Todos /\ todo' \in Seq(StepName)
    BY <1>2, TodosType DEF Lock, Todos
  <2>3. TypeOK'
    BY <1>2, <2>1, <2>2 DEF Lock, TypeOK, dbVars, incVars, warnVars,
       mailVars, boundVars
  <2> QED BY <1>2, <2>2, <2>3 DEF Lock, StepsInv, dbVars, incVars
<1>3. CASE Crash
  <2>1. engine' \in Monitor
    BY <1>3, NewMonitorType DEF Crash
  <2>2. /\ todo' \in Todos /\ todo' \in Seq(StepName)
        /\ slowStreak' \in 0..SlowStreakToAlert /\ crashes' \in Nat
        /\ certMails' \in 0..2 /\ slowMails' \in 0..2
    BY <1>3, TodosType DEF Crash, Todos, SlowStreakToAlert, TypeOK
  <2>3. UNCHANGED <<dbVars, incVars, checks, site, alerts, flips, admin,
                    dbErrors>>
    BY <1>3 DEF Crash
  <2>4. /\ running' \in BOOLEAN /\ known' \in BOOLEAN
        /\ certAlerted' \in BOOLEAN /\ slowAlerted' \in BOOLEAN
        /\ current' \in Result \cup {NoResult} /\ inflight' \subseteq Result
    BY <1>3, Zenon DEF Crash
  <2>5. TypeOK'
    BY <2>1, <2>2, <2>3, <2>4 DEF TypeOK, dbVars, incVars
  <2> QED BY <1>3, <2>2, <2>5 DEF Crash, StepsInv, Handling, dbVars, incVars
<1>4. CASE Start
  <2>1. (row = "enabled" => open = 0) \in BOOLEAN
    BY Zenon
  <2>2. engine' \in Monitor
    BY <1>4, <2>1, NewMonitorType DEF Start
  <2>3. known' \in BOOLEAN
    BY <1>4, Zenon DEF Start
  <2>4. dbErrors' \in Nat
    <3>1. dbErrors' = dbErrors \/ dbErrors' = dbErrors + 1
      BY <1>4, Zenon DEF Start
    <3> QED BY <3>1 DEF TypeOK
  <2>5. TypeOK'
    BY <1>4, <2>2, <2>3, <2>4 DEF Start, TypeOK, dbVars, incVars, warnVars,
       mailVars, boundVars
  <2> QED BY <1>4, <2>5 DEF Start, StepsInv, Handling, dbVars, incVars
<1> QED BY <1>1, <1>2, <1>3, <1>4

\* The certificate check and the slow check.
LEMMA CheckTypes ==
    ASSUME TypeOK, StepsInv, CheckCert \/ CheckSlow
    PROVE  TypeOK' /\ StepsInv'
<1>1. CASE CheckCert
  <2>1. /\ todo = <<"checkCert", "checkSlow", "observe">> /\ Handling
        /\ todo' \in {<<"cert", "checkSlow", "observe">>,
                      <<"checkSlow", "observe">>}
    BY <1>1, TodoCases, TodosDiffer DEF CheckCert, StepsInv, Handling
  <2>2. current \in Result
    BY <2>1 DEF StepsInv, TypeOK
  <2>3. todo' \in Todos /\ todo' \in Seq(StepName)
    BY <2>1, TodosType DEF Todos
  <2>4. current.cert \in {"none", "ok", "near"}
    BY <2>2 DEF Result
  <2>5. certExpiry' \in {"none", "ok", "near"}
    BY <1>1, <2>4 DEF CheckCert, TypeOK
  <2>6. certAlerted' \in BOOLEAN /\ certMails' \in 0..2
    <3>1. /\ certAlerted' = certAlerted
             \/ certAlerted' = (current.cert = "near")
          /\ certMails' = certMails \/ certMails' = 0
      BY <1>1 DEF CheckCert
    <3>2. certAlerted \in BOOLEAN /\ certMails \in 0..2 /\ 0 \in 0..2
      BY DEF TypeOK
    <3> QED BY <3>1, <3>2, Zenon
  <2>7. TypeOK'
    BY <1>1, <2>3, <2>5, <2>6 DEF CheckCert, TypeOK, incVars, boundVars
  <2> QED BY <1>1, <2>1, <2>3, <2>7, TodosDiffer DEF CheckCert, StepsInv,
             Handling, incVars
<1>2. CASE CheckSlow
  <2>1. /\ todo = <<"checkSlow", "observe">> /\ Handling
        /\ todo' \in {<<"slow", "observe">>, <<"observe">>}
    BY <1>2, TodoCases, TodosDiffer DEF CheckSlow, StepsInv, Handling
  <2>2. current \in Result
    BY <2>1 DEF StepsInv, TypeOK
  <2>3. todo' \in Todos /\ todo' \in Seq(StepName)
    BY <2>1, TodosType DEF Todos
  <2>4. slowStreak' \in 0..SlowStreakToAlert
    BY <1>2 DEF CheckSlow, TypeOK, SlowStreakToAlert
  <2>5. slowAlerted' \in BOOLEAN /\ slowMails' \in 0..2
    <3>1. slowMails' = slowMails \/ slowMails' = 0
      BY <1>2 DEF CheckSlow
    <3>2. slowAlerted' \in BOOLEAN
      BY <1>2, Zenon DEF CheckSlow
    <3> QED BY <3>1, <3>2 DEF TypeOK
  <2>6. TypeOK'
    BY <1>2, <2>3, <2>4, <2>5 DEF CheckSlow, TypeOK, dbVars, incVars, boundVars
  <2> QED BY <1>2, <2>1, <2>3, <2>6, TodosDiffer DEF CheckSlow, StepsInv,
             Handling, dbVars, incVars
<1> QED BY <1>1, <1>2

\* A commit, wherever it is called from.
LEMMA CommitTypes ==
    ASSUME TypeOK, NEW m \in Monitor, NEW lag \in 0..MaxLag,
           Commit(m, lag, <<>>)
    PROVE  /\ engine' \in Monitor /\ open' \in Nat /\ resolved' \in BOOLEAN
           /\ alerts' \in [down : 0..2, recovered : 0..2]
           /\ dbErrors' \in Nat
           /\ todo' \in {<<>>, <<"down">>, <<"recovered">>}
           /\ todo' \in Todos /\ todo' \in Seq(StepName)
<1>1. /\ engine' \in Monitor
      /\ todo' \in {<<>>, <<"down">>, <<"recovered">>}
      /\ dbErrors' = dbErrors \/ dbErrors' = dbErrors + 1
      /\ UNCHANGED <<incVars, alerts>> \/ OpenIncident \/ ResolveIncident
  BY CommitCases, Zenon
<1>2. todo' \in Todos /\ todo' \in Seq(StepName)
  BY <1>1, TodosType DEF Todos
<1>3. NoAlerts \in [down : 0..2, recovered : 0..2]
  BY DEF NoAlerts
<1>4. (resolved \/ open > 0) \in BOOLEAN
  BY Zenon
<1>5. CASE UNCHANGED <<incVars, alerts>>
  BY <1>1, <1>2, <1>5 DEF TypeOK, incVars
<1>6. CASE OpenIncident
  BY <1>1, <1>2, <1>3, <1>6 DEF TypeOK, OpenIncident, incVars
<1>7. CASE ResolveIncident
  <2>1. open' = 0 /\ resolved' \in BOOLEAN /\ alerts' = alerts
    BY <1>7, <1>4 DEF ResolveIncident
  <2> QED BY <1>1, <1>2, <2>1 DEF TypeOK
<1> QED BY <1>1, <1>5, <1>6, <1>7

\* The end of handleResult and the tick loop.
LEMMA EvaluateTypes ==
    ASSUME TypeOK, StepsInv,
           ObserveResult \/ \E lag \in 0..MaxLag : TickLoop(lag)
    PROVE  TypeOK' /\ StepsInv' /\ row # "none"
<1>1. CASE ObserveResult
  <2>1. PICK m \in Monitor : Commit(m, 0, <<>>) /\ 0 \in 0..MaxLag
                             /\ todo = <<"observe">>
    BY <1>1, ObserveCases
  <2>2. running /\ known /\ row # "none"
    BY <2>1 DEF StepsInv
  <2>3. TypeOK'
    BY <1>1, <2>1, CommitTypes DEF ObserveResult, TypeOK, dbVars, warnVars,
       mailVars, boundVars
  <2>4. StepsInv'
    BY <1>1, <2>1, <2>2, CommitTypes DEF ObserveResult, StepsInv, Handling,
       dbVars
  <2> QED BY <2>2, <2>3, <2>4
<1>2. ASSUME NEW lag \in 0..MaxLag, TickLoop(lag)
      PROVE  TypeOK' /\ StepsInv' /\ row # "none"
  <2>1. engine \in Monitor /\ Commit(engine, lag, <<>>)
    BY <1>2, TickCases
  <2>2. running /\ known /\ row # "none"
    BY <1>2 DEF StepsInv, TickLoop
  <2>3. TypeOK'
    BY <1>2, <2>1, CommitTypes DEF TickLoop, TypeOK, dbVars, warnVars,
       mailVars, boundVars
  <2>4. StepsInv'
    BY <1>2, <2>1, <2>2, CommitTypes DEF TickLoop, StepsInv, Handling, dbVars
  <2> QED BY <2>2, <2>3, <2>4
<1> QED BY <1>1, <1>2

\* An alert or its suppression.
LEMMA NotifyTypes ==
    ASSUME TypeOK, StepsInv, Notify
    PROVE  TypeOK' /\ StepsInv'
<1>1. /\ todo # <<>> /\ todo' \in Todos /\ todo' \in Seq(StepName)
      /\ todo' = Tail(todo)
      /\ todo \in {<<"down">>, <<"recovered">>} => todo' = <<>>
      /\ Handling' => Handling
  <2>1. todo # <<>> /\ todo' = Tail(todo)
    BY DEF Notify
  <2>2. \/ todo \in {<<"down">>, <<"recovered">>} /\ todo' = <<>>
        \/ /\ todo \notin {<<>>, <<"down">>, <<"recovered">>}
           /\ todo' \in {<<"checkSlow", "observe">>, <<"observe">>}
    BY <2>1, TodoCases, TodosDiffer DEF StepsInv, Notify, Kind
  <2>3. todo' \in Todos
    BY <2>2 DEF Todos
  <2> QED BY <2>1, <2>2, <2>3, TodosType DEF Handling
<1>2. /\ alerts' \in [down : 0..2, recovered : 0..2]
      /\ certMails' \in 0..2 /\ slowMails' \in 0..2
  <2>1. /\ alerts \in [down : 0..2, recovered : 0..2]
        /\ certMails \in 0..2 /\ slowMails \in 0..2
    BY DEF TypeOK
  <2>2. \A n \in 0..2 : Count(n) \in 0..2
    BY DEF Count
  <2>3. /\ [alerts EXCEPT !["down"] = Count(@)]
              \in [down : 0..2, recovered : 0..2]
        /\ [alerts EXCEPT !["recovered"] = Count(@)]
              \in [down : 0..2, recovered : 0..2]
    BY <2>1, <2>2
  <2>4. CASE UNCHANGED <<alerts, mailVars>>
    BY <2>1, <2>4 DEF mailVars
  <2>5. CASE SendAlert(Head(todo))
    BY <2>1, <2>2, <2>3, <2>5 DEF SendAlert
  <2> QED BY <2>4, <2>5 DEF Notify
<1>3. dbErrors' \in Nat
  <2>1. dbErrors' = dbErrors \/ dbErrors' = dbErrors + 1
    BY Zenon DEF Notify
  <2> QED BY <2>1 DEF TypeOK
<1>4. TypeOK'
  BY <1>1, <1>2, <1>3 DEF Notify, TypeOK, dbVars, incVars, warnVars, boundVars
<1> QED BY <1>1, <1>4 DEF Notify, StepsInv, Handling, dbVars, incVars

\* The other writers of the database.
LEMMA AdminTypes ==
    ASSUME TypeOK, StepsInv, Admin \/ DeleteMonitor
    PROVE  TypeOK' /\ StepsInv'
<1>1. CASE CreateMonitor
  BY <1>1 DEF CreateMonitor, Administers, TypeOK, StepsInv, Handling, incVars,
     warnVars, mailVars
<1>2. CASE UpsertMonitor
  BY <1>2 DEF UpsertMonitor, RowExists, Administers, TypeOK, StepsInv,
     Handling, incVars, warnVars, mailVars
<1>3. CASE SetMuted
  <2>1. muted' \in BOOLEAN
    BY <1>3, Zenon DEF SetMuted
  <2> QED BY <1>3, <2>1 DEF SetMuted, Administers, TypeOK, StepsInv, Handling,
             incVars, warnVars, mailVars
<1>4. CASE DeleteMonitor
  <2>1. /\ row' = "gone" /\ certExpiry' = "none" /\ open' = 0
        /\ muted' \in BOOLEAN /\ resolved' \in BOOLEAN /\ checks' \in BOOLEAN
        /\ admin' = admin + 1
    BY <1>4, Zenon DEF DeleteMonitor, Administers
  <2>2. TypeOK'
    BY <1>4, <2>1 DEF DeleteMonitor, TypeOK, warnVars, mailVars
  <2> QED BY <1>4, <2>1, <2>2 DEF DeleteMonitor, StepsInv, Handling
<1> QED BY <1>1, <1>2, <1>3, <1>4 DEF Admin

\* Every step keeps the types and the order of the steps.
LEMMA TypesStep ==
    ASSUME TypeOK, StepsInv, [DeleteNext]_vars
    PROVE  TypeOK' /\ StepsInv'
<1>1. CASE UNCHANGED vars
  BY <1>1 DEF vars, TypeOK, StepsInv, Handling, dbVars, incVars, warnVars,
     mailVars, boundVars
<1>2. CASE DeleteNext
  BY <1>2, EnvironmentTypes, ProcessTypes, CheckTypes, EvaluateTypes,
     NotifyTypes, AdminTypes, Zenon
     DEF DeleteNext, Next, Process, Proceed
<1> QED BY <1>1, <1>2

\* Every step of a behaviour without deletions is one with them.
LEMMA NextIsDeleteNext == Spec => DeleteSpec
<1>1. [Next]_vars => [DeleteNext]_vars
  BY DEF DeleteNext
<1> QED BY <1>1, PTL DEF Spec, DeleteSpec

\* The evaluator's state is well typed, and the steps under the lock come in
\* the order handleResult and notify take them, also while monitors are
\* deleted under its feet.
THEOREM EvaluatorTypes == DeleteSpec => []TypeOK
<1>1. TypeOK /\ StepsInv /\ [DeleteNext]_vars => (TypeOK /\ StepsInv)'
  BY TypesStep
<1> QED BY TypesStart, <1>1, PTL DEF DeleteSpec

-----------------------------------------------------------------------------
(* Warnings and deletions *)

\* Both commits, in one form.
LEMMA EvaluateCases ==
    ASSUME TypeOK, StepsInv,
           ObserveResult \/ \E lag \in 0..MaxLag : TickLoop(lag)
    PROVE  /\ \E m \in Monitor, lag \in 0..MaxLag :
                /\ m.confirmedUp = engine.confirmedUp
                /\ Commit(m, lag, <<>>)
           /\ todo \in {<<>>, <<"observe">>} /\ running /\ known
           /\ UNCHANGED <<dbVars, running, known, warnVars, mailVars, inflight,
                          crashes>>
<1>1. CASE ObserveResult
  <2>1. PICK m \in Monitor : /\ m.confirmedUp = engine.confirmedUp
                             /\ Commit(m, 0, <<>>)
                             /\ todo = <<"observe">> /\ 0 \in 0..MaxLag
    BY <1>1, ObserveCases
  <2>2. running /\ known
    BY <2>1 DEF StepsInv
  <2> QED BY <1>1, <2>1, <2>2 DEF ObserveResult, boundVars
<1>2. ASSUME NEW lag \in 0..MaxLag, TickLoop(lag)
      PROVE  /\ \E m \in Monitor :
                  /\ m.confirmedUp = engine.confirmedUp
                  /\ Commit(m, lag, <<>>)
             /\ todo \in {<<>>, <<"observe">>} /\ running /\ known
             /\ UNCHANGED <<dbVars, running, known, warnVars, mailVars,
                            inflight, crashes>>
  BY <1>2, TickCases DEF TickLoop, boundVars
<1> QED BY <1>1, <1>2

\* What a commit may do to the incidents, as the engine's state changes.
LEMMA IncidentCases ==
    ASSUME TypeOK, StepsInv,
           ObserveResult \/ \E lag \in 0..MaxLag : TickLoop(lag)
    PROVE  \/ /\ todo' = <<>> /\ engine'.confirmedUp = engine.confirmedUp
              /\ UNCHANGED <<incVars, alerts, dbErrors>>
           \/ /\ todo' = <<"down">>
              /\ engine.confirmedUp /\ ~engine'.confirmedUp
              /\ \/ OpenIncident /\ UNCHANGED dbErrors
                 \/ /\ dbErrors < MaxDbErrors /\ dbErrors' = dbErrors + 1
                    /\ UNCHANGED <<incVars, alerts>>
           \/ /\ todo' = <<"recovered">>
              /\ ~engine.confirmedUp /\ engine'.confirmedUp
              /\ \/ ResolveIncident /\ UNCHANGED dbErrors
                 \/ /\ dbErrors < MaxDbErrors /\ dbErrors' = dbErrors + 1
                    /\ UNCHANGED <<incVars, alerts>>
<1>1. PICK m \in Monitor, lag \in 0..MaxLag :
         m.confirmedUp = engine.confirmedUp /\ Commit(m, lag, <<>>)
  BY EvaluateCases
<1>2. m.confirmedUp = engine.confirmedUp
  BY <1>1
<1> QED BY <1>1, <1>2, CommitCases, Zenon

\* A deletion takes the incidents along, and none comes back.
LEMMA DeletedStep ==
    ASSUME TypeOK, StepsInv, DeletedHasNoIncident, [DeleteNext]_vars
    PROVE  DeletedHasNoIncident'
<1>1. CASE ObserveResult \/ \E lag \in 0..MaxLag : TickLoop(lag)
  <2>1. row' = row
    BY <1>1, EvaluateCases DEF dbVars
  <2>2. ~RowExists /\ OpenIncident => UNCHANGED <<incVars, alerts>>
    BY DEF OpenIncident
  <2>3. UNCHANGED <<incVars, alerts>> \/ OpenIncident \/ ResolveIncident
    BY <1>1, IncidentCases, Zenon
  <2>4. open = 0 /\ ~resolved /\ ResolveIncident => open' = 0 /\ ~resolved'
    <3>1. open = 0 => ~(open > 0)
      OBVIOUS
    <3> QED BY <3>1, Zenon DEF ResolveIncident
  <2> QED BY <2>1, <2>2, <2>3, <2>4 DEF RowExists, DeletedHasNoIncident,
             incVars
<1>2. CASE DeleteMonitor
  BY <1>2 DEF DeleteMonitor, DeletedHasNoIncident
<1>3. CASE UNCHANGED <<row, incVars>>
  BY <1>3 DEF DeletedHasNoIncident, incVars
<1>4. CASE Admin
  BY <1>4 DEF Admin, CreateMonitor, UpsertMonitor, SetMuted, RowExists, incVars,
     DeletedHasNoIncident
<1>5. CASE Environment
  BY <1>3, <1>5 DEF Environment, Flip, Publish, Lose, Elapse, dbVars
<1>6. CASE \/ \E m \in inflight : Receive(m)
           \/ Lock \/ Crash \/ Start
  BY <1>3, <1>6 DEF Receive, Lock, Crash, Start, dbVars
<1>7. CASE CheckCert \/ CheckSlow \/ Notify
  BY <1>3, <1>7 DEF CheckCert, CheckSlow, Notify, dbVars
<1>8. CASE UNCHANGED vars
  BY <1>3, <1>8 DEF vars, dbVars
<1> QED BY <1>1, <1>2, <1>4, <1>5, <1>6, <1>7, <1>8
        DEF DeleteNext, Next, Process, Proceed

\* DeleteMonitor removes the incidents with the row, and an evaluator that
\* still knows the monitor cannot bring one back: the foreign key of
\* incidents refuses it.
THEOREM DeletedForGood == DeleteSpec => []DeletedHasNoIncident
<1>1. Init => DeletedHasNoIncident
  BY DEF Init, DeletedHasNoIncident
<1>2. /\ TypeOK /\ StepsInv /\ DeletedHasNoIncident /\ [DeleteNext]_vars
      => (TypeOK /\ StepsInv /\ DeletedHasNoIncident)'
  BY TypesStep, DeletedStep
<1> QED BY TypesStart, <1>1, <1>2, PTL DEF DeleteSpec

\* The history of the warnings while the process lives: a warning was sent at
\* most once since its flag was set, and not yet when it is still to be sent.
SlowInv ==
    /\ slowAlerted => slowStreak = SlowStreakToAlert
    /\ slowMails <= 1 /\ (slowMails = 1 => slowAlerted)
    /\ todo = <<"slow", "observe">> => slowAlerted /\ slowMails = 0
CertInv ==
    /\ certMails <= 1 /\ (certMails = 1 => certAlerted)
    /\ todo = <<"cert", "checkSlow", "observe">>
          => certAlerted /\ certMails = 0

\* The slow check and the slow alert keep their history, and so does what
\* leaves both alone.
LEMMA SlowStep ==
    ASSUME TypeOK, StepsInv, SlowInv, [DeleteNext]_vars
    PROVE  SlowInv'
<1> DEFINE quiet == UNCHANGED <<slowAlerted, slowStreak, slowMails>>
<1>1. ASSUME quiet, todo' = <<"slow", "observe">> => todo' = todo
      PROVE  SlowInv'
  BY <1>1 DEF SlowInv
<1> HIDE DEF quiet
<1>2. CASE CheckSlow
  <2>1. /\ todo = <<"checkSlow", "observe">>
        /\ Tail(todo) = <<"observe">>
    BY <1>2, TodoCases, TodosDiffer DEF CheckSlow, StepsInv
  <2>2. /\ slowStreak \in 0..3 /\ slowAlerted \in BOOLEAN
        /\ slowMails \in 0..2
    BY DEF TypeOK, SlowStreakToAlert
  <2>3. CASE ~current.slow
    <3>1. slowAlerted' = FALSE /\ slowMails' = 0 /\ todo' = <<"observe">>
      BY <1>2, <2>1, <2>3 DEF CheckSlow
    <3> QED BY <3>1, TodosDiffer DEF SlowInv
  <2> DEFINE streak == IF slowStreak < 3 THEN slowStreak + 1 ELSE slowStreak
             enough == streak >= 3
  <2>6. current.slow =>
           /\ slowStreak' = streak /\ slowMails' = slowMails
           /\ slowAlerted' <=> slowAlerted \/ enough
           /\ slowAlerted \/ ~enough => todo' = <<"observe">>
    BY <1>2, <2>1, Zenon DEF CheckSlow, SlowStreakToAlert
  <2>7. (slowStreak = 3 => streak = 3) /\ (enough => streak = 3)
    BY <2>2
  <2> HIDE DEF streak, enough
  <2>4. CASE current.slow /\ slowAlerted
    <3>1. /\ slowAlerted' /\ slowMails' = slowMails /\ todo' = <<"observe">>
          /\ slowStreak' = slowStreak
      BY <2>4, <2>6, <2>7 DEF SlowInv, SlowStreakToAlert
    <3> QED BY <2>4, <3>1, TodosDiffer DEF SlowInv
  <2>5. CASE current.slow /\ ~slowAlerted
    <3>1. /\ slowMails' = 0
          /\ \/ slowAlerted' /\ slowStreak' = 3
             \/ ~slowAlerted' /\ todo' = <<"observe">>
      BY <2>2, <2>5, <2>6, <2>7 DEF SlowInv
    <3> QED BY <3>1, TodosDiffer DEF SlowInv, SlowStreakToAlert
  <2> QED BY <2>3, <2>4, <2>5
<1>3. CASE Notify
  <2>1. quiet \/ (todo = <<"slow", "observe">> /\ UNCHANGED warnVars)
    BY <1>3, TodoCases, TodosDiffer
       DEF Notify, SendAlert, StepsInv, quiet, warnVars, mailVars
  <2>2. todo' = Tail(todo) /\ todo # <<>> /\ Head(todo) \in Kind
    BY <1>3 DEF Notify
  <2>3. todo' # <<"slow", "observe">>
    BY <2>2, TodoCases, TodosDiffer DEF StepsInv, Kind
  <2>4. CASE todo = <<"slow", "observe">>
    <3>1. slowMails' = 0 \/ slowMails' = 1
      BY <1>3, <2>4 DEF Notify, SendAlert, SlowInv, Count, mailVars
    <3> QED BY <1>3, <2>3, <2>4, <3>1 DEF Notify, SlowInv, warnVars
  <2> QED BY <1>1, <2>1, <2>3, <2>4
<1>4. CASE ObserveResult \/ \E lag \in 0..MaxLag : TickLoop(lag)
  <2>1. todo' \in {<<>>, <<"down">>, <<"recovered">>}
    BY <1>4, IncidentCases
  <2> QED BY <1>1, <1>4, <2>1, EvaluateCases, TodosDiffer
          DEF quiet, warnVars, mailVars
<1>5. CASE CheckCert
  <2>1. todo' \in {<<"cert", "checkSlow", "observe">>,
                  <<"checkSlow", "observe">>}
    BY <1>5, TodoCases, TodosDiffer DEF CheckCert, StepsInv
  <2> QED BY <1>1, <1>5, <2>1, TodosDiffer DEF CheckCert, quiet
<1>6. CASE Lock
  BY <1>1, <1>6, TodosDiffer DEF Lock, quiet, warnVars, mailVars
<1>7. CASE Start \/ \E m \in inflight : Receive(m)
  BY <1>1, <1>7 DEF Start, Receive, quiet, warnVars, mailVars
<1>8. CASE Environment
  BY <1>1, <1>8 DEF Environment, Flip, Publish, Lose, Elapse, quiet, warnVars,
     mailVars
<1>9. CASE Admin \/ DeleteMonitor \/ UNCHANGED vars
  BY <1>1, <1>9 DEF Admin, CreateMonitor, UpsertMonitor, SetMuted,
     DeleteMonitor, vars, quiet, warnVars, mailVars
<1>10. CASE Crash
  BY <1>10, TodosDiffer DEF Crash, SlowInv
<1> QED BY <1>2, <1>3, <1>4, <1>5, <1>6, <1>7, <1>8, <1>9, <1>10
        DEF DeleteNext, Next, Process, Proceed

\* The same of the certificate check.
LEMMA CertStep ==
    ASSUME TypeOK, StepsInv, CertInv, [DeleteNext]_vars
    PROVE  CertInv'
<1> DEFINE quiet == UNCHANGED <<certAlerted, certMails>>
           warn == <<"cert", "checkSlow", "observe">>
<1>1. ASSUME quiet, todo' = warn => todo' = todo
      PROVE  CertInv'
  BY <1>1 DEF CertInv
<1> HIDE DEF quiet
<1>2. CASE CheckCert
  <2>1. /\ todo # <<>> /\ Tail(todo) = <<"checkSlow", "observe">>
        /\ todo # warn
    BY <1>2, TodoCases, TodosDiffer DEF CheckCert, StepsInv
  <2>2. certAlerted \in BOOLEAN /\ certMails \in 0..2
    BY DEF TypeOK
  <2>3. CASE current.cert = "none"
    <3>1. quiet /\ todo' = <<"checkSlow", "observe">>
      BY <1>2, <2>1, <2>3 DEF CheckCert, quiet
    <3> QED BY <1>1, <3>1, TodosDiffer
  <2>4. CASE current.cert = "near"
    <3>1. /\ certAlerted' /\ certMails' = certMails
          /\ certAlerted => todo' = <<"checkSlow", "observe">>
      BY <1>2, <2>1, <2>4 DEF CheckCert
    <3> QED BY <2>2, <3>1, TodosDiffer DEF CertInv
  <2>5. CASE current.cert \notin {"none", "near"}
    <3>1. certMails' = 0 /\ todo' = <<"checkSlow", "observe">>
      BY <1>2, <2>1, <2>5 DEF CheckCert
    <3> QED BY <3>1, TodosDiffer DEF CertInv
  <2> QED BY <2>3, <2>4, <2>5
<1>3. CASE Notify
  <2>1. quiet \/ (todo = warn /\ UNCHANGED warnVars)
    BY <1>3, TodoCases, TodosDiffer
       DEF Notify, SendAlert, StepsInv, quiet, warnVars, mailVars
  <2>2. todo' = Tail(todo) /\ todo # <<>> /\ Head(todo) \in Kind
    BY <1>3 DEF Notify
  <2>3. todo' # warn
    BY <2>2, TodoCases, TodosDiffer DEF StepsInv, Kind
  <2>4. CASE todo = warn
    <3>1. certMails' = 0 \/ certMails' = 1
      BY <1>3, <2>4 DEF Notify, SendAlert, CertInv, Count, mailVars
    <3> QED BY <1>3, <2>3, <2>4, <3>1 DEF Notify, CertInv, warnVars
  <2> QED BY <1>1, <2>1, <2>3, <2>4
<1>4. CASE ObserveResult \/ \E lag \in 0..MaxLag : TickLoop(lag)
  <2>1. todo' \in {<<>>, <<"down">>, <<"recovered">>}
    BY <1>4, IncidentCases
  <2> QED BY <1>1, <1>4, <2>1, EvaluateCases, TodosDiffer
          DEF quiet, warnVars, mailVars
<1>5. CASE CheckSlow
  <2>1. todo' \in {<<"slow", "observe">>, <<"observe">>}
    BY <1>5, TodoCases, TodosDiffer DEF CheckSlow, StepsInv
  <2> QED BY <1>1, <1>5, <2>1, TodosDiffer DEF CheckSlow, quiet
<1>6. CASE Lock
  BY <1>1, <1>6, TodosDiffer DEF Lock, quiet, warnVars, mailVars
<1>7. CASE Start \/ \E m \in inflight : Receive(m)
  BY <1>1, <1>7 DEF Start, Receive, quiet, warnVars, mailVars
<1>8. CASE Environment
  BY <1>1, <1>8 DEF Environment, Flip, Publish, Lose, Elapse, quiet, warnVars,
     mailVars
<1>9. CASE Admin \/ DeleteMonitor \/ UNCHANGED vars
  BY <1>1, <1>9 DEF Admin, CreateMonitor, UpsertMonitor, SetMuted,
     DeleteMonitor, vars, quiet, warnVars, mailVars
<1>10. CASE Crash
  BY <1>10, TodosDiffer DEF Crash, CertInv
<1> QED BY <1>2, <1>3, <1>4, <1>5, <1>6, <1>7, <1>8, <1>9, <1>10
        DEF DeleteNext, Next, Process, Proceed

\* The warnings keep to their history in every behaviour: it begins anew with
\* the process.
LEMMA WarnInvariant == DeleteSpec => [](TypeOK /\ SlowInv /\ CertInv)
<1>1. Init => SlowInv /\ CertInv
  BY TodosDiffer DEF Init, SlowInv, CertInv
<1>2. /\ TypeOK /\ StepsInv /\ SlowInv /\ CertInv /\ [DeleteNext]_vars
      => (TypeOK /\ StepsInv /\ SlowInv /\ CertInv)'
  BY TypesStep, SlowStep, CertStep
<1> QED BY TypesStart, <1>1, <1>2, PTL DEF DeleteSpec

\* checkSlow: a process sends one warning per slow spell and only after three
\* slow results in a row.  Its flags are in memory, so the next process may
\* send it again.
THEOREM SlowWarnedOnce == DeleteSpec => []OneSlowWarning
<1>1. TypeOK /\ SlowInv => OneSlowWarning
  BY DEF SlowInv, OneSlowWarning, TypeOK, SlowStreakToAlert
<1> QED BY WarnInvariant, <1>1, PTL

\* checkCert: a process sends one warning until the certificate is renewed.
THEOREM CertWarnedOnce == DeleteSpec => []OneCertWarning
<1>1. CertInv => OneCertWarning
  BY DEF CertInv, OneCertWarning
<1> QED BY WarnInvariant, <1>1, PTL

-----------------------------------------------------------------------------
(* Incidents *)

\* The engine and the database of a user's monitor, as long as the database
\* never failed: they agree, and an alert still to be sent is true.
IncidentInv ==
    Owned =>
       /\ row # "disabled"
       /\ dbErrors = 0 /\ row # "gone" =>
             /\ open <= 1
             /\ running /\ known => (engine.confirmedUp <=> open = 0)
             /\ running /\ ~known => open = 0
             /\ open = 1 => alerts.recovered = 0
             /\ todo = <<"down">> => open = 1 /\ alerts = NoAlerts
             /\ todo = <<"recovered">>
                   => open = 0 /\ resolved /\ alerts.recovered = 0

\* A step that commits nothing, with the incidents and the engine's state as
\* they were, and no new alert planned.
LEMMA IncidentQuiet ==
    ASSUME IncidentInv,
           UNCHANGED <<row, open, resolved, alerts, running, known>>,
           engine'.confirmedUp = engine.confirmedUp,
           dbErrors' = 0 => dbErrors = 0,
           todo' \in {<<"down">>, <<"recovered">>} => todo' = todo
    PROVE  IncidentInv'
BY DEF IncidentInv

\* A failing database call is counted.
LEMMA ErrorsCounted ==
    ASSUME TypeOK, StepsInv, [DeleteNext]_vars
    PROVE  dbErrors' = 0 => dbErrors = 0
<1>1. dbErrors \in Nat
  BY DEF TypeOK
<1>2. dbErrors' = dbErrors \/ dbErrors' = dbErrors + 1
  <2>1. CASE Environment
    BY <2>1 DEF Environment, Flip, Publish, Lose, Elapse
  <2>2. CASE ObserveResult \/ \E lag \in 0..MaxLag : TickLoop(lag)
    BY <2>2, IncidentCases, Zenon
  <2>3. CASE CheckCert \/ CheckSlow \/ Lock \/ Crash
    BY <2>3 DEF CheckCert, CheckSlow, Lock, Crash
  <2>4. CASE Notify \/ Start \/ \E m \in inflight : Receive(m)
    BY <2>4, Zenon DEF Notify, Start, Receive
  <2>5. CASE Admin \/ DeleteMonitor \/ UNCHANGED vars
    BY <2>5 DEF Admin, CreateMonitor, UpsertMonitor, SetMuted, DeleteMonitor,
       vars
  <2> QED BY <2>1, <2>2, <2>3, <2>4, <2>5 DEF DeleteNext, Next, Process, Proceed
<1> QED BY <1>1, <1>2

\* Time passing and restarting leave or set the engine's committed state.
LEMMA ConfirmedUp ==
    /\ \A up \in BOOLEAN : NewMonitor(up).confirmedUp = up
    /\ \A m \in Monitor : Aged(m).confirmedUp = m.confirmedUp
BY DEF NewMonitor, Aged, Monitor

\* An alert goes out: the plan is done, and the history of the incidents'
\* alerts changes only when the alert is about one.
LEMMA NotifyCases ==
    ASSUME TypeOK, StepsInv, Notify
    PROVE  /\ todo' \notin {<<"down">>, <<"recovered">>}
           /\ \/ alerts' = alerts
              \/ todo = <<"down">> /\ alerts' = [alerts EXCEPT !.down = Count(@)]
              \/ /\ todo = <<"recovered">>
                 /\ alerts' = [alerts EXCEPT !.recovered = Count(@)]
<1>1. todo # <<>> /\ todo' = Tail(todo) /\ Head(todo) \in Kind
  BY DEF Notify
<1>2. todo' \notin {<<"down">>, <<"recovered">>}
  BY <1>1, TodoCases, TodosDiffer DEF StepsInv, Kind
<1>3. alerts' = alerts \/ SendAlert(Head(todo))
  BY DEF Notify
<1>4. \/ Head(todo) \in {"cert", "slow"}
      \/ Head(todo) = "down" /\ todo = <<"down">>
      \/ Head(todo) = "recovered" /\ todo = <<"recovered">>
  BY <1>1, TodoCases DEF StepsInv, Kind
<1>5. alerts \in [down : 0..2, recovered : 0..2]
  BY DEF TypeOK
<1> QED BY <1>2, <1>3, <1>4, <1>5 DEF SendAlert

\* A commit opens an incident only when none is open and resolves the one
\* that is, and then plans the alert about it.
LEMMA IncidentEvaluate ==
    ASSUME TypeOK, StepsInv, IncidentInv, [DeleteNext]_vars, Owned,
           dbErrors' = 0, row' # "gone",
           ObserveResult \/ \E lag \in 0..MaxLag : TickLoop(lag)
    PROVE  /\ IncidentInv'
           /\ \/ UNCHANGED <<open, resolved, alerts>>
              \/ /\ open = 0 /\ open' = 1 /\ alerts' = NoAlerts
                 /\ resolved' = resolved
              \/ /\ open = 1 /\ open' = 0 /\ alerts' = alerts
                 /\ resolved' = TRUE
<1>1. /\ row' = row /\ running /\ known /\ running' /\ known'
      /\ todo \in {<<>>, <<"observe">>}
  BY EvaluateCases DEF dbVars
<1>2. dbErrors = 0
  BY ErrorsCounted
<1>3. /\ row # "disabled" /\ open <= 1 /\ open \in Nat
      /\ engine.confirmedUp <=> open = 0
      /\ open = 1 => alerts.recovered = 0
  BY <1>1, <1>2 DEF IncidentInv, TypeOK
<1>4. RowExists
  BY <1>1, <1>3 DEF RowExists, StepsInv, TypeOK
<1>5. CASE /\ todo' = <<>> /\ engine'.confirmedUp = engine.confirmedUp
           /\ UNCHANGED <<incVars, alerts, dbErrors>>
  BY <1>1, <1>3, <1>5, TodosDiffer DEF IncidentInv, incVars
<1>6. CASE /\ todo' = <<"down">> /\ engine.confirmedUp /\ ~engine'.confirmedUp
           /\ OpenIncident /\ UNCHANGED dbErrors
  <2>1. open = 0 /\ open' = 1 /\ alerts' = NoAlerts /\ resolved' = resolved
    BY <1>3, <1>4, <1>6 DEF OpenIncident
  <2>2. alerts'.recovered = 0
    BY <2>1 DEF NoAlerts
  <2>3. IncidentInv'
    BY <1>1, <1>3, <1>6, <2>1, <2>2, TodosDiffer DEF IncidentInv
  <2> QED BY <2>1, <2>3
<1>7. CASE /\ todo' = <<"recovered">>
           /\ ~engine.confirmedUp /\ engine'.confirmedUp
           /\ ResolveIncident /\ UNCHANGED dbErrors
  <2>1. open = 1 /\ open > 0
    BY <1>3, <1>7
  <2>2. open' = 0 /\ alerts' = alerts /\ resolved' = TRUE
    BY <1>7, <2>1, Zenon DEF ResolveIncident
  <2>3. IncidentInv'
    BY <1>1, <1>3, <1>7, <2>1, <2>2, TodosDiffer DEF IncidentInv
  <2> QED BY <2>1, <2>2, <2>3
<1>8. ~(dbErrors' = dbErrors + 1)
  BY <1>2
<1> QED BY <1>5, <1>6, <1>7, <1>8, IncidentCases, Zenon

\* Every step keeps the engine and the incidents in agreement.
LEMMA IncidentStep ==
    ASSUME TypeOK, StepsInv, IncidentInv, [DeleteNext]_vars
    PROVE  IncidentInv'
<1>0. /\ dbErrors' = 0 => dbErrors = 0
      /\ row \in {"none", "enabled", "disabled", "gone"} /\ open \in Nat
      /\ running \in BOOLEAN /\ known \in BOOLEAN
  BY ErrorsCounted DEF TypeOK
<1>1. CASE Environment
  <2>1. engine'.confirmedUp = engine.confirmedUp
    BY <1>1, ConfirmedUp DEF Environment, Flip, Publish, Lose, Elapse, TypeOK
  <2>2. UNCHANGED <<row, open, resolved, alerts, running, known, todo>>
    BY <1>1 DEF Environment, Flip, Publish, Lose, Elapse, dbVars, incVars
  <2> QED BY <1>0, <2>1, <2>2, IncidentQuiet
<1>2. CASE CheckCert \/ CheckSlow \/ \E m \in inflight : Receive(m)
  <2>1. UNCHANGED <<row, open, resolved, alerts, running, known, engine>>
    BY <1>2 DEF CheckCert, CheckSlow, Receive, dbVars, incVars
  <2>2. CASE CheckCert
    <3>1. todo' \in {<<"cert", "checkSlow", "observe">>,
                    <<"checkSlow", "observe">>}
      BY <2>2, TodoCases, TodosDiffer DEF CheckCert, StepsInv
    <3> QED BY <1>0, <2>1, <3>1, TodosDiffer, IncidentQuiet
  <2>3. CASE CheckSlow
    <3>1. todo' \in {<<"slow", "observe">>, <<"observe">>}
      BY <2>3, TodoCases, TodosDiffer DEF CheckSlow, StepsInv
    <3> QED BY <1>0, <2>1, <3>1, TodosDiffer, IncidentQuiet
  <2>4. CASE \E m \in inflight : Receive(m)
    <3>1. todo' = todo
      BY <2>4 DEF Receive
    <3> QED BY <1>0, <2>1, <3>1, IncidentQuiet
  <2> QED BY <1>2, <2>2, <2>3, <2>4
<1>3. CASE Lock
  <2>1. UNCHANGED <<row, open, resolved, alerts, running, dbErrors>>
    BY <1>3 DEF Lock, dbVars, incVars
  <2>2. running /\ known' /\ todo' \notin {<<"down">>, <<"recovered">>}
    BY <1>3, TodosDiffer DEF Lock
  <2>3. engine'.confirmedUp = IF known THEN engine.confirmedUp ELSE TRUE
    BY <1>3, ConfirmedUp DEF Lock
  <2> QED BY <2>1, <2>2, <2>3 DEF IncidentInv
<1>4. CASE Crash
  BY <1>0, <1>4, TodosDiffer DEF Crash, IncidentInv, dbVars, incVars
<1>5. CASE Start
  <2>1. /\ UNCHANGED <<row, open, resolved, alerts, todo>>
        /\ ~running /\ (known' <=> row = "enabled")
    BY <1>5, Zenon DEF Start, dbVars, incVars
  <2>2. todo' = <<>> /\ (row = "none" => open = 0)
    BY <2>1 DEF StepsInv
  <2>3. dbErrors' = 0 => (engine'.confirmedUp <=> (row = "enabled" => open = 0))
    <3>1. (row = "enabled" => open = 0) \in BOOLEAN
      OBVIOUS
    <3>2. CASE engine' = NewMonitor(row = "enabled" => open = 0)
      BY <3>1, <3>2, ConfirmedUp, Zenon
    <3>3. CASE dbErrors' = dbErrors + 1
      BY <1>0, <3>3 DEF TypeOK
    <3> QED BY <1>5, <3>2, <3>3, Zenon DEF Start
  <2> QED BY <1>0, <2>1, <2>2, <2>3, TodosDiffer DEF IncidentInv
<1>6. CASE ObserveResult \/ \E lag \in 0..MaxLag : TickLoop(lag)
  <2>1. row' = row
    BY <1>6, EvaluateCases DEF dbVars
  <2> QED BY <1>0, <1>6, <2>1, IncidentEvaluate DEF IncidentInv
<1>7. CASE Notify
  <2>1. UNCHANGED <<row, open, resolved, running, known, engine>>
    BY <1>7 DEF Notify, dbVars, incVars
  <2>2. /\ todo' \notin {<<"down">>, <<"recovered">>}
        /\ \/ alerts' = alerts
           \/ todo = <<"down">> /\ alerts' = [alerts EXCEPT !.down = Count(@)]
           \/ /\ todo = <<"recovered">>
              /\ alerts' = [alerts EXCEPT !.recovered = Count(@)]
    BY <1>7, NotifyCases
  <2>3. alerts \in [down : 0..2, recovered : 0..2]
    BY DEF TypeOK
  <2>4. CASE alerts' = alerts
    BY <1>0, <2>1, <2>2, <2>4, IncidentQuiet
  <2>5. CASE todo = <<"down">> /\ alerts' = [alerts EXCEPT !.down = Count(@)]
    <3>1. alerts'.recovered = alerts.recovered
      BY <2>3, <2>5
    <3> QED BY <1>0, <2>1, <2>2, <3>1 DEF IncidentInv
  <2>6. CASE todo = <<"recovered">>
    BY <1>0, <2>1, <2>2, <2>6, TodosDiffer DEF IncidentInv
  <2> QED BY <2>2, <2>4, <2>5, <2>6
<1>8. CASE CreateMonitor
  <2>1. ~known /\ open = 0 /\ todo = <<>>
    BY <1>8 DEF CreateMonitor, StepsInv
  <2>2. /\ UNCHANGED <<open, known, todo, alerts>> /\ row' = "enabled"
    BY <1>8 DEF CreateMonitor, incVars
  <2> QED BY <2>1, <2>2, TodosDiffer DEF IncidentInv
<1>9. CASE UpsertMonitor
  BY <1>9 DEF UpsertMonitor, IncidentInv
<1>10. CASE SetMuted
  BY <1>0, <1>10, IncidentQuiet DEF SetMuted, incVars
<1>11. CASE DeleteMonitor
  BY <1>11 DEF DeleteMonitor, IncidentInv
<1>12. CASE UNCHANGED vars
  BY <1>0, <1>12, IncidentQuiet DEF vars, dbVars, incVars
<1> QED BY <1>1, <1>2, <1>3, <1>4, <1>5, <1>6, <1>7, <1>8, <1>9, <1>10, <1>11,
           <1>12 DEF DeleteNext, Next, Process, Proceed, Admin

\* The invariant behind the theorems about incidents.
LEMMA IncidentInvariant ==
    DeleteSpec => [](TypeOK /\ StepsInv /\ IncidentInv)
<1>1. Init => IncidentInv
  <2> SUFFICES ASSUME Init PROVE IncidentInv
    OBVIOUS
  <2>1. /\ engine.confirmedUp = TRUE /\ alerts.recovered = 0 /\ todo = <<>>
        /\ open = 0 /\ row \in {"none", "enabled"}
    BY ConfirmedUp DEF Init, NoAlerts
  <2> QED BY <2>1, TodosDiffer DEF IncidentInv
<1>2. /\ TypeOK /\ StepsInv /\ IncidentInv /\ [DeleteNext]_vars
      => (TypeOK /\ StepsInv /\ IncidentInv)'
  BY TypesStep, IncidentStep
<1> QED BY TypesStart, <1>1, <1>2, PTL DEF DeleteSpec

\* "A restart mid-outage doesn't open a duplicate incident": a user's monitor
\* never has two unresolved incidents, whenever it is deleted and the process
\* dies, as long as no database call failed.
THEOREM NoDuplicateIncident ==
    DeleteSpec => [](Owned /\ dbErrors = 0 => OneOpenIncident)
<1>1. TypeOK /\ StepsInv /\ IncidentInv /\ DeletedHasNoIncident
      => (Owned /\ dbErrors = 0 => OneOpenIncident)
  BY DEF IncidentInv, DeletedHasNoIncident, OneOpenIncident
<1> QED BY IncidentInvariant, DeletedForGood, <1>1, PTL

\* The engine's committed state and the incidents of a user's monitor agree
\* whenever e.mu is free: what was committed in memory is in the database,
\* and a restart reads it back.
THEOREM EngineMatches ==
    DeleteSpec => [](Owned /\ dbErrors = 0 => EngineMatchesIncident)
<1>1. IncidentInv => (Owned /\ dbErrors = 0 => EngineMatchesIncident)
  BY DEF IncidentInv, EngineMatchesIncident
<1> QED BY IncidentInvariant, <1>1, PTL

-----------------------------------------------------------------------------
(* The evaluator implements the life cycle of module Incidents *)

\* Without a budget for errors no database call fails.
LEMMA NoErrors ==
    ASSUME MaxDbErrors = 0, dbErrors = 0, TypeOK, StepsInv, [DeleteNext]_vars
    PROVE  dbErrors' = 0
<1>1. ~(dbErrors < MaxDbErrors)
  OBVIOUS
<1>2. CASE Environment
  BY <1>2 DEF Environment, Flip, Publish, Lose, Elapse
<1>3. CASE ObserveResult \/ \E lag \in 0..MaxLag : TickLoop(lag)
  BY <1>1, <1>3, IncidentCases, Zenon
<1>4. CASE CheckCert \/ CheckSlow \/ Lock \/ Crash
  BY <1>4 DEF CheckCert, CheckSlow, Lock, Crash
<1>5. CASE Notify \/ Start \/ \E m \in inflight : Receive(m)
  BY <1>1, <1>5, Zenon DEF Notify, Start, Receive
<1>6. CASE Admin \/ DeleteMonitor \/ UNCHANGED vars
  BY <1>6 DEF Admin, CreateMonitor, UpsertMonitor, SetMuted, DeleteMonitor,
     vars
<1> QED BY <1>2, <1>3, <1>4, <1>5, <1>6 DEF DeleteNext, Next, Process, Proceed

\* Nothing but its deletion makes a row go, and it does not come back.
LEMMA GoneByDeletion ==
    ASSUME StepsInv, TypeOK, [DeleteNext]_vars
    PROVE  DeleteMonitor \/ (row' = "gone" <=> row = "gone")
<1>1. CASE Environment
  BY <1>1 DEF Environment, Flip, Publish, Lose, Elapse, dbVars
<1>2. CASE ObserveResult \/ \E lag \in 0..MaxLag : TickLoop(lag)
  BY <1>2, EvaluateCases DEF dbVars
<1>3. CASE CheckCert \/ CheckSlow \/ Lock \/ Crash \/ Notify \/ Start
           \/ \E m \in inflight : Receive(m)
  BY <1>3 DEF CheckCert, CheckSlow, Lock, Crash, Notify, Start, Receive, dbVars
<1>4. CASE Admin \/ UNCHANGED vars
  BY <1>4 DEF Admin, CreateMonitor, UpsertMonitor, SetMuted, RowExists, vars,
     dbVars
<1> QED BY <1>1, <1>2, <1>3, <1>4 DEF DeleteNext, Next, Process, Proceed

\* As long as the row is there, every step maps to a step of the life cycle
\* or to none.
LEMMA LifecycleStep ==
    ASSUME Owned, MaxDbErrors = 0, TypeOK, StepsInv, IncidentInv,
           dbErrors = 0, row # "gone", row' # "gone", [DeleteNext]_vars
    PROVE  [Lifecycle!Next]_(Lifecycle!vars)
<1>1. dbErrors' = 0
  BY NoErrors
<1> DEFINE before == IF row = "gone" THEN NoAlerts ELSE alerts
           after == IF row' = "gone" THEN NoAlerts ELSE alerts'
<1>0. before = alerts /\ after = alerts'
  OBVIOUS
<1>2. CASE UNCHANGED <<open, resolved, alerts>>
  BY <1>0, <1>2 DEF Lifecycle!vars
<1>3. CASE ObserveResult \/ \E lag \in 0..MaxLag : TickLoop(lag)
  <2>1. NoAlerts = Lifecycle!NoAlerts
    BY DEF NoAlerts, Lifecycle!NoAlerts
  <2>2. \/ UNCHANGED <<open, resolved, alerts>>
        \/ /\ open = 0 /\ open' = 1 /\ alerts' = NoAlerts
           /\ resolved' = resolved
        \/ open = 1 /\ open' = 0 /\ alerts' = alerts /\ resolved' = TRUE
    BY <1>1, <1>3, IncidentEvaluate
  <2> QED BY <1>0, <1>2, <2>1, <2>2
          DEF Lifecycle!Next, Lifecycle!Open, Lifecycle!Resolve
<1>4. CASE Notify
  <2>1. open' = open /\ resolved' = resolved
    BY <1>4 DEF Notify, incVars
  <2>2. CASE todo = <<"down">> /\ alerts' = [alerts EXCEPT !.down = Count(@)]
    <3>1. open = 1 /\ alerts = NoAlerts
      BY <2>2 DEF IncidentInv
    <3>2. alerts.down = 0 /\ Count(alerts.down) = 1
      BY <3>1 DEF NoAlerts, Count
    <3>3. alerts' = [alerts EXCEPT !.down = 1]
      BY <2>2, <3>2
    <3> QED BY <1>0, <2>1, <3>1, <3>3
            DEF Lifecycle!Next, Lifecycle!AlertDown, NoAlerts,
                Lifecycle!NoAlerts
  <2>3. CASE /\ todo = <<"recovered">>
             /\ alerts' = [alerts EXCEPT !.recovered = Count(@)]
    <3>1. open = 0 /\ resolved /\ alerts.recovered = 0
      BY <2>3 DEF IncidentInv
    <3>2. Count(alerts.recovered) = 1
      BY <3>1 DEF Count
    <3>3. alerts' = [alerts EXCEPT !.recovered = 1]
      BY <2>3, <3>2
    <3> QED BY <1>0, <2>1, <3>1, <3>3
            DEF Lifecycle!Next, Lifecycle!AlertRecovered
  <2> QED BY <1>2, <1>4, <2>1, <2>2, <2>3, NotifyCases
<1>5. CASE Environment \/ UNCHANGED vars
  BY <1>2, <1>5 DEF Environment, Flip, Publish, Lose, Elapse, vars, incVars
<1>6. CASE CheckCert \/ CheckSlow \/ Lock \/ Crash \/ Start
           \/ \E m \in inflight : Receive(m)
  BY <1>2, <1>6 DEF CheckCert, CheckSlow, Lock, Crash, Start, Receive, incVars
<1>7. CASE Admin
  BY <1>2, <1>7 DEF Admin, CreateMonitor, UpsertMonitor, SetMuted, incVars
<1>8. ~DeleteMonitor
  BY DEF DeleteMonitor
<1> QED BY <1>3, <1>4, <1>5, <1>6, <1>7, <1>8
        DEF DeleteNext, Next, Process, Proceed

\* The deletion maps to the life cycle's own, and nothing after it shows.
LEMMA DeletedLifecycleStep ==
    ASSUME TypeOK, StepsInv, DeletedHasNoIncident, DeletedHasNoIncident',
           row' = "gone", [DeleteNext]_vars
    PROVE  [Lifecycle!Next]_(Lifecycle!vars)
<1>1. open' = 0 /\ resolved' = FALSE
  BY TypesStep DEF DeletedHasNoIncident, TypeOK
<1> DEFINE after == IF row' = "gone" THEN NoAlerts ELSE alerts'
<1>2. after = NoAlerts /\ NoAlerts = Lifecycle!NoAlerts
  BY DEF NoAlerts, Lifecycle!NoAlerts
<1> QED BY <1>1, <1>2 DEF Lifecycle!Next, Lifecycle!Delete

\* The evaluator of a user's monitor implements the incident life cycle
\* through crashes, restarts, mutes, lagging ticks and the deletion of the
\* monitor, if the database answers: no incident overlaps another and no
\* alert is sent twice or before its row is written.
THEOREM ImplementsLifecycle ==
    ASSUME Owned, MaxDbErrors = 0
    PROVE  DeleteSpec => IncidentLifecycle
<1>1. Init => Lifecycle!Init /\ dbErrors = 0
  BY DEF Init, Lifecycle!Init, NoAlerts, Lifecycle!NoAlerts
<1>2. /\ TypeOK /\ StepsInv /\ dbErrors = 0 /\ [DeleteNext]_vars
      => (dbErrors = 0)'
  BY NoErrors
<1>3. /\ TypeOK /\ StepsInv /\ IncidentInv /\ dbErrors = 0
      /\ DeletedHasNoIncident /\ DeletedHasNoIncident' /\ [DeleteNext]_vars
      => [Lifecycle!Next]_(Lifecycle!vars)
  <2>1. row = "gone" /\ TypeOK /\ StepsInv /\ [DeleteNext]_vars => row' = "gone"
    BY GoneByDeletion DEF DeleteMonitor
  <2> QED BY <2>1, LifecycleStep, DeletedLifecycleStep
<1>4. DeleteSpec => [](TypeOK /\ StepsInv /\ IncidentInv)
  BY IncidentInvariant
<1>5. DeleteSpec => Lifecycle!Spec
  BY <1>1, <1>2, <1>3, <1>4, DeletedForGood, PTL
     DEF DeleteSpec, Lifecycle!Spec
<1> QED BY <1>5 DEF IncidentLifecycle
=============================================================================
