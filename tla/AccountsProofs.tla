--------------------------- MODULE AccountsProofs ---------------------------
(***************************************************************************)
(* Theorems about accounts, sessions, resets and ownership, for any        *)
(* number of users, tokens, monitors and concurrent requests.              *)
(***************************************************************************)
EXTENDS Accounts, SequenceTheorems, TLAPS

\* What a request carries at each of its steps.
LEMMA StepFields ==
    ASSUME NEW q \in Steps
    PROVE  /\ q.step \in {"idle", "startSession", "createReset", "update",
                          "consume", "purge", "handler", "delete"}
           /\ q.step = "startSession" =>
                 q.user \in User /\ q.typed \in Password /\ q.version \in Nat
           /\ q.step = "createReset" => q.user \in User
           /\ q.step = "update" => /\ q.user \in User
                                   /\ q.token \in ResetToken
                                   /\ q.new \in Password
           /\ q.step \in {"consume", "purge"} =>
                 /\ q.user \in User /\ q.token \in ResetToken
                 /\ [q EXCEPT !.step = "purge"] \in Steps
                 /\ [q EXCEPT !.step = "purge"] =
                       [step |-> "purge", user |-> q.user, token |-> q.token]
           /\ q.step \in {"handler", "delete"} => q.session \in Session
           /\ q.step = "delete" => q.monitor \in Monitor \cup {SystemMonitor}
BY DEF Steps, Idle

\* A request only reads: the tables and the history stay as they are.
ReadStep(r) ==
    /\ UNCHANGED <<dbVars, history>>
    /\ \/ \E e \in Email, p \in Password : Login(r, e, p)
       \/ \E e \in Email : Forgot(r, e)
       \/ \E t \in ResetToken, p \in Password : Reset(r, t, p)
       \/ \E t \in SessionToken : Gate(r, t)
       \/ \E m \in Monitor \cup {SystemMonitor} : ReadOwner(r, m)

\* The disjuncts of Next by what they change.
LEMMA StepCases ==
    ASSUME Next
    PROVE  \/ \E r \in Request :
                \/ ReadStep(r)
                \/ \E e \in Email, p \in Password : Signup(r, e, p)
                \/ CreateSession(r) \/ CreatePasswordReset(r)
                \/ UpdatePassword(r) \/ DeletePasswordReset(r)
                \/ DeleteUserSessions(r)
                \/ CreateMonitor(r) \/ DeleteMonitor(r)
                \/ \E m \in Monitor \cup {SystemMonitor} : SetMuted(r, m)
                \/ Abandon(r) \/ ConsumeFails(r)
           \/ \E t \in SessionToken : Logout(t)
           \/ \E t \in ResetToken : ResetExpires(t)
BY DEF Next, ReadStep, Login, Forgot, Reset, Gate, ReadOwner

\* A request that only reads goes on with what it has just read.
Learns(r, what) ==
    /\ what.step \in {"startSession", "createReset", "update", "handler",
                      "delete"}
    /\ what.step = "startSession" =>
          /\ email[what.user] # None
          /\ what.version = Len(hashes[what.user])
          /\ what.typed = hashes[what.user][what.version]
    /\ what.step = "createReset" => email[what.user] # None
    /\ what.step = "update" =>
          resets[what.token] # None /\ what.user = resets[what.token]
    /\ what.step = "handler" =>
          \E t \in SessionToken : sessions[t] # None /\ what.session = sessions[t]
    /\ what.step = "delete" =>
          /\ request[r].step = "handler" /\ what.session = request[r].session
          /\ owner[what.monitor] = what.session.user

\* A step that only reads moves the request on with what it found.
LEMMA ReadLearns ==
    ASSUME TypeOK, NEW r \in Request, ReadStep(r)
    PROVE  \E what \in Steps : Becomes(r, what) /\ Learns(r, what)
<1> USE DEF TypeOK
<1>1. ASSUME NEW e \in Email, NEW p \in Password, Login(r, e, p)
      PROVE  \E what \in Steps : Becomes(r, what) /\ Learns(r, what)
  <2>1. PICK u \in User : /\ email[u] = e
                          /\ hashes[u][Len(hashes[u])] = p
                          /\ Becomes(r, StartSession(u, p, Len(hashes[u])))
    BY <1>1 DEF Login, Registered
  <2>2. StartSession(u, p, Len(hashes[u])) \in Steps
    BY DEF StartSession, Steps
  <2>3. Learns(r, StartSession(u, p, Len(hashes[u])))
    BY <2>1, AccountsAssumption DEF Learns, StartSession
  <2> QED BY <2>1, <2>2, <2>3
<1>2. ASSUME NEW e \in Email, Forgot(r, e)
      PROVE  \E what \in Steps : Becomes(r, what) /\ Learns(r, what)
  <2>1. PICK u \in User : /\ email[u] = e
                          /\ Becomes(r, [step |-> "createReset", user |-> u])
    BY <1>2 DEF Forgot, Registered
  <2>2. [step |-> "createReset", user |-> u] \in Steps
    BY DEF Steps
  <2>3. Learns(r, [step |-> "createReset", user |-> u])
    BY <2>1, AccountsAssumption DEF Learns
  <2> QED BY <2>1, <2>2, <2>3
<1>3. ASSUME NEW t \in ResetToken, NEW p \in Password, Reset(r, t, p)
      PROVE  \E what \in Steps : Becomes(r, what) /\ Learns(r, what)
  <2> DEFINE what == [step |-> "update", user |-> resets[t], token |-> t,
                      new |-> p]
  <2>1. what \in Steps
    BY <1>3 DEF Reset, Steps
  <2>2. Learns(r, what)
    BY <1>3 DEF Learns, Reset
  <2> QED BY <1>3, <2>1, <2>2 DEF Reset
<1>4. ASSUME NEW t \in SessionToken, Gate(r, t)
      PROVE  \E what \in Steps : Becomes(r, what) /\ Learns(r, what)
  <2> DEFINE what == [step |-> "handler", session |-> sessions[t]]
  <2>1. what \in Steps
    BY <1>4 DEF Gate, Steps
  <2>2. Learns(r, what)
    BY <1>4 DEF Learns, Gate
  <2> QED BY <1>4, <2>1, <2>2 DEF Gate
<1>5. ASSUME NEW m \in Monitor \cup {SystemMonitor}, ReadOwner(r, m)
      PROVE  \E what \in Steps : Becomes(r, what) /\ Learns(r, what)
  <2> DEFINE what == [step |-> "delete", session |-> request[r].session,
                      monitor |-> m]
  <2>1. request[r].session \in Session
    BY <1>5, StepFields DEF ReadOwner
  <2>2. what \in Steps
    BY <2>1 DEF Steps
  <2>3. Learns(r, what)
    BY <1>5 DEF Learns, ReadOwner
  <2> QED BY <1>5, <2>2, <2>3 DEF ReadOwner
<1> QED BY <1>1, <1>2, <1>3, <1>4, <1>5 DEF ReadStep

\* DeletePasswordReset goes on to DeleteUserSessions, whether it fails or not.
LEMMA Purges ==
    ASSUME TypeOK, NEW r \in Request, DeletePasswordReset(r) \/ ConsumeFails(r)
    PROVE  /\ request[r].step = "consume"
           /\ request[r].user \in User /\ request[r].token \in ResetToken
           /\ request' = [request EXCEPT ![r] =
                            [step |-> "purge", user |-> request[r].user,
                             token |-> request[r].token]]
<1>1. /\ request[r].step = "consume"
      /\ Becomes(r, [request[r] EXCEPT !.step = "purge"])
  BY DEF DeletePasswordReset, ConsumeFails
<1>2. request[r] \in Steps
  BY DEF TypeOK
<1>3. /\ request[r].user \in User /\ request[r].token \in ResetToken
      /\ [request[r] EXCEPT !.step = "purge"] =
            [step |-> "purge", user |-> request[r].user,
             token |-> request[r].token]
  BY <1>1, <1>2, StepFields
<1> QED BY <1>1, <1>3, Zenon DEF Becomes

\* Type correctness of one step.
LEMMA TypeStep == ASSUME TypeOK, Next PROVE TypeOK'
<1> USE DEF TypeOK
<1>1. ASSUME NEW r \in Request, ReadStep(r) PROVE TypeOK'
  BY <1>1, ReadLearns DEF ReadStep, Becomes, dbVars, history
<1>2. ASSUME NEW r \in Request, NEW e \in Email, NEW p \in Password,
             Signup(r, e, p)
      PROVE  TypeOK'
  <2>1. PICK u \in User : /\ email' = [email EXCEPT ![u] = e]
                          /\ hashes' = [hashes EXCEPT ![u] = <<p>>]
                          /\ Becomes(r, StartSession(u, p, 1))
    BY <1>2 DEF Signup
  <2>2. StartSession(u, p, 1) \in Steps
    BY DEF StartSession, Steps
  <2>3. <<p>> \in Seq(Password)
    OBVIOUS
  <2> QED BY <1>2, <2>1, <2>2, <2>3 DEF Signup, Becomes, history
<1>3. Idle \in Steps
  BY DEF Steps
<1>4. ASSUME NEW r \in Request, CreateSession(r) PROVE TypeOK'
  <2>1. PICK t \in SessionToken :
           /\ tokens' = tokens \cup {t}
           /\ sessions' = [sessions EXCEPT ![t] =
                [user |-> request[r].user, typed |-> request[r].typed,
                 version |-> request[r].version,
                 purge |-> purged[request[r].user]]]
    BY <1>4 DEF CreateSession
  <2>2. [user |-> request[r].user, typed |-> request[r].typed,
         version |-> request[r].version, purge |-> purged[request[r].user]]
           \in Session
    BY <1>4, StepFields DEF CreateSession, Session
  <2> QED BY <1>3, <1>4, <2>1, <2>2 DEF CreateSession, Becomes
<1>5. ASSUME NEW r \in Request, CreatePasswordReset(r) PROVE TypeOK'
  <2>1. request[r].user \in User
    BY <1>5, StepFields DEF CreatePasswordReset
  <2> QED BY <1>3, <1>5, <2>1 DEF CreatePasswordReset, Becomes
<1>6. ASSUME NEW r \in Request, UpdatePassword(r) PROVE TypeOK'
  <2>1. /\ request[r].user \in User /\ request[r].token \in ResetToken
        /\ request[r].new \in Password
    BY <1>6, StepFields DEF UpdatePassword
  <2>2. [step |-> "consume", user |-> request[r].user,
         token |-> request[r].token] \in Steps
    BY <2>1 DEF Steps
  <2>3. Append(hashes[request[r].user], request[r].new) \in Seq(Password)
    BY <2>1
  <2> QED BY <1>6, <2>1, <2>2, <2>3 DEF UpdatePassword, Becomes
<1>7. ASSUME NEW r \in Request, DeletePasswordReset(r) PROVE TypeOK'
  <2>1. [request[r] EXCEPT !.step = "purge"] \in Steps
        /\ request[r].token \in ResetToken
    BY <1>7, StepFields DEF DeletePasswordReset
  <2> QED BY <1>7, <2>1 DEF DeletePasswordReset, Becomes, history
<1>8. ASSUME NEW r \in Request, DeleteUserSessions(r) PROVE TypeOK'
  <2>1. request[r].user \in User
    BY <1>8, StepFields DEF DeleteUserSessions
  <2>2. Len(hashes[request[r].user]) \in Nat
    BY <2>1
  <2> QED BY <1>3, <1>8, <2>1, <2>2 DEF DeleteUserSessions, Becomes
<1>9. ASSUME NEW r \in Request, CreateMonitor(r) PROVE TypeOK'
  <2>1. request[r].session \in Session
    BY <1>9, StepFields DEF CreateMonitor
  <2>2. request[r].session.user \in User
    BY <2>1 DEF Session
  <2> QED BY <1>3, <1>9, <2>2 DEF CreateMonitor, Becomes
<1>10. ASSUME NEW r \in Request, DeleteMonitor(r) PROVE TypeOK'
  <2>1. request[r].monitor \in Monitor \cup {SystemMonitor}
    BY <1>10, StepFields DEF DeleteMonitor
  <2> QED BY <1>3, <1>10, <2>1 DEF DeleteMonitor, Becomes, history
<1>11. ASSUME NEW r \in Request, NEW m \in Monitor \cup {SystemMonitor},
              SetMuted(r, m)
       PROVE  TypeOK'
  BY <1>3, <1>11 DEF SetMuted, Becomes, history
<1>12. ASSUME NEW r \in Request, Abandon(r) PROVE TypeOK'
  <2>1. failed' \subseteq User
    <3>1. request[r].step \in {"consume", "purge"} => request[r].user \in User
      BY StepFields
    <3> QED BY <1>12, <3>1 DEF Abandon
  <2> QED BY <1>3, <1>12, <2>1 DEF Abandon, Becomes, dbVars
<1>13. ASSUME NEW r \in Request, ConsumeFails(r) PROVE TypeOK'
  <2>1. [request[r] EXCEPT !.step = "purge"] \in Steps
    BY <1>13, StepFields DEF ConsumeFails
  <2> QED BY <1>13, <2>1 DEF ConsumeFails, Becomes, dbVars
<1>14. ASSUME NEW t \in SessionToken, Logout(t) PROVE TypeOK'
  BY <1>14 DEF Logout, history
<1>15. ASSUME NEW t \in ResetToken, ResetExpires(t) PROVE TypeOK'
  BY <1>15 DEF ResetExpires, history
<1> QED
  BY StepCases, <1>1, <1>2, <1>4, <1>5, <1>6, <1>7, <1>8, <1>9, <1>10, <1>11,
     <1>12, <1>13, <1>14, <1>15

\* Every reachable state is well-typed: a session, a reset token and a
\* half-done request always stand for a user whose row exists or existed.
THEOREM AccountsTypes == Spec => []TypeOK
<1>1. Init => TypeOK
  BY AccountsAssumption DEF Init, TypeOK, Steps
<1>2. TypeOK /\ [Next]_vars => TypeOK'
  <2>1. CASE Next
    BY <2>1, TypeStep
  <2>2. CASE UNCHANGED vars
    BY <2>2 DEF TypeOK, vars, dbVars
  <2> QED BY <2>1, <2>2
<1> QED BY <1>1, <1>2, PTL DEF Spec

-----------------------------------------------------------------------------
(***************************************************************************)
(* The inductive invariant                                                 *)
(***************************************************************************)

\* A user has a password exactly when its row exists, and resets under way
\* are for users whose row exists.
UsersExist ==
    /\ \A u \in User : email[u] = None <=> hashes[u] = <<>>
    /\ \A t \in ResetToken : resets[t] # None => email[resets[t]] # None
    /\ \A r \in Request : request[r].step \in {"createReset", "update"}
                          => email[request[r].user] # None

\* A request about to insert a session has proved a password too.
RequestProves ==
    \A r \in Request : request[r].step = "startSession" => Proven(request[r])

\* What excuses a session of user u earned with password number v when u
\* had been logged out everywhere for the last time with p passwords.
Excused(u, v, p) ==
    v < Len(hashes[u])
    => \/ p > v
       \/ u \in failed
       \/ \E r \in Request : request[r].step \in {"consume", "purge"}
                             /\ request[r].user = u

\* The same of a session that is about to be inserted.
RequestStraddles ==
    \A r \in Request :
       request[r].step = "startSession"
       => Excused(request[r].user, request[r].version, purged[request[r].user])

\* A row that is gone is not muted, a row that exists was created by a user,
\* and a deletion that has read its owner meets that owner or no row at all:
\* ids are never given out again.
OwnerKept ==
    \A m \in Monitor \cup {SystemMonitor} :
       /\ owner[m] = None => ~muted[m]
       /\ owner[m] # None => m \in monitorIds
       /\ \A r \in Request :
             request[r].step = "delete" /\ request[r].monitor = m
             => m \in monitorIds /\ owner[m] \in {request[r].session.user, None}

Inv ==
    /\ TypeOK /\ UsersExist
    /\ SessionProvesPassword /\ RequestProves
    /\ StaleSessionStraddles /\ RequestStraddles
    /\ OwnerKept

\* An account with a new password has one.
LEMMA AppendIsNotEmpty ==
    ASSUME NEW S, NEW s \in Seq(S), NEW x \in S PROVE Append(s, x) # <<>>
BY AppendProperties

\* Users stay, and with them what their rows stand for.
LEMMA UsersStep == ASSUME TypeOK, UsersExist, Next PROVE UsersExist'
<1>0. ASSUME NEW r \in Request, DeletePasswordReset(r) \/ ConsumeFails(r)
      PROVE  request' = [request EXCEPT ![r] =
                           [step |-> "purge", user |-> request[r].user,
                            token |-> request[r].token]]
  BY <1>0, Purges
<1> USE DEF TypeOK, UsersExist
<1>1. ASSUME NEW r \in Request, ReadStep(r) PROVE UsersExist'
  <2>1. PICK what \in Steps : Becomes(r, what) /\ Learns(r, what)
    BY <1>1, ReadLearns
  <2>2. what.step = "update" => what.token \in ResetToken
    BY StepFields
  <2> QED BY <1>1, <2>1, <2>2 DEF ReadStep, Becomes, Learns, dbVars
<1>2. ASSUME NEW r \in Request, NEW e \in Email, NEW p \in Password,
             Signup(r, e, p)
      PROVE  UsersExist'
  <2>1. PICK u \in User : /\ email[u] = None
                          /\ email' = [email EXCEPT ![u] = e]
                          /\ hashes' = [hashes EXCEPT ![u] = <<p>>]
                          /\ Becomes(r, StartSession(u, p, 1))
    BY <1>2 DEF Signup
  <2>2. <<p>> # <<>> /\ e # None
    BY AccountsAssumption
  <2>3. StartSession(u, p, 1).step = "startSession"
    BY DEF StartSession
  <2>4. \A q \in Steps : q.step \in {"createReset", "update"} => q.user \in User
    BY StepFields
  <2> QED BY <1>2, <2>1, <2>2, <2>3, <2>4 DEF Signup, Becomes
<1>3. Idle.step = "idle"
  BY DEF Idle
<1>4. ASSUME NEW r \in Request, CreateSession(r) PROVE UsersExist'
  BY <1>3, <1>4 DEF CreateSession, Becomes
<1>5. ASSUME NEW r \in Request, CreatePasswordReset(r) PROVE UsersExist'
  BY <1>3, <1>5 DEF CreatePasswordReset, Becomes
<1>6. ASSUME NEW r \in Request, UpdatePassword(r) PROVE UsersExist'
  <2>1. request[r].user \in User /\ request[r].new \in Password
    BY <1>6, StepFields DEF UpdatePassword
  <2>2. hashes[request[r].user] \in Seq(Password)
    BY <2>1
  <2>3. Append(hashes[request[r].user], request[r].new) # <<>>
    BY <2>1, <2>2, AppendIsNotEmpty
  <2> QED BY <1>6, <2>1, <2>3 DEF UpdatePassword, Becomes
<1>7. ASSUME NEW r \in Request, DeletePasswordReset(r) \/ ConsumeFails(r)
      PROVE  UsersExist'
  <2>1. request' = [request EXCEPT ![r] =
                      [step |-> "purge", user |-> request[r].user,
                       token |-> request[r].token]]
    BY <1>0, <1>7
  <2>2. email' = email /\ hashes' = hashes
        /\ \A t \in ResetToken : resets'[t] \in {resets[t], None}
    BY <1>7 DEF DeletePasswordReset, ConsumeFails, dbVars
  <2> QED BY <2>1, <2>2
<1>8. ASSUME NEW r \in Request,
             \/ DeleteUserSessions(r) \/ CreateMonitor(r) \/ DeleteMonitor(r)
             \/ Abandon(r)
             \/ \E m \in Monitor \cup {SystemMonitor} : SetMuted(r, m)
      PROVE  UsersExist'
  BY <1>3, <1>8 DEF DeleteUserSessions, CreateMonitor, DeleteMonitor, Abandon,
                    SetMuted, Becomes, dbVars
<1>9. ASSUME NEW t \in SessionToken, Logout(t) PROVE UsersExist'
  BY <1>9 DEF Logout
<1>10. ASSUME NEW t \in ResetToken, ResetExpires(t) PROVE UsersExist'
  BY <1>10 DEF ResetExpires
<1> QED
  BY StepCases, <1>1, <1>2, <1>4, <1>5, <1>6, <1>7, <1>8, <1>9, <1>10

\* Passwords are only ever added behind the ones an account has had.
LEMMA HashesGrow ==
    ASSUME TypeOK, UsersExist, Next, NEW u \in User
    PROVE  /\ Len(hashes[u]) \in Nat /\ Len(hashes'[u]) \in Nat
           /\ Len(hashes[u]) =< Len(hashes'[u])
           /\ \A i \in 1..Len(hashes[u]) : hashes'[u][i] = hashes[u][i]
<1> USE DEF TypeOK, UsersExist
<1>1. ASSUME NEW r \in Request, NEW e \in Email, NEW p \in Password,
             Signup(r, e, p), hashes' # hashes
      PROVE  hashes'[u] = hashes[u] \/ (hashes[u] = <<>> /\ hashes'[u] = <<p>>)
  BY <1>1 DEF Signup
<1>2. ASSUME NEW r \in Request, UpdatePassword(r)
      PROVE  \/ hashes'[u] = hashes[u]
             \/ /\ request[r].new \in Password
                /\ hashes'[u] = Append(hashes[u], request[r].new)
  BY <1>2, StepFields DEF UpdatePassword
<1>3. \/ hashes' = hashes
      \/ \E r \in Request : UpdatePassword(r)
      \/ \E r \in Request, e \in Email, p \in Password :
            Signup(r, e, p) /\ hashes' # hashes
  BY StepCases DEF ReadStep, CreateSession, CreatePasswordReset,
     DeletePasswordReset, DeleteUserSessions, CreateMonitor, DeleteMonitor,
     SetMuted, Abandon, ConsumeFails, Logout, ResetExpires, dbVars
<1>4. \/ hashes'[u] = hashes[u]
      \/ \E p \in Password : hashes[u] = <<>> /\ hashes'[u] = <<p>>
      \/ \E p \in Password : hashes'[u] = Append(hashes[u], p)
  BY <1>1, <1>2, <1>3
<1>5. hashes[u] \in Seq(Password)
  OBVIOUS
<1>6. CASE hashes'[u] = hashes[u]
  BY <1>5, <1>6
<1>7. CASE \E p \in Password : hashes[u] = <<>> /\ hashes'[u] = <<p>>
  BY <1>7
<1>8. CASE \E p \in Password : hashes'[u] = Append(hashes[u], p)
  BY <1>5, <1>8
<1> QED BY <1>4, <1>6, <1>7, <1>8

\* So what has been proved stays proved.
LEMMA ProofStays ==
    ASSUME TypeOK, UsersExist, Next,
           NEW s, s.user \in User, s.version \in Nat, Proven(s)
    PROVE  Proven(s)'
<1>1. /\ Len(hashes[s.user]) \in Nat /\ Len(hashes'[s.user]) \in Nat
      /\ Len(hashes[s.user]) =< Len(hashes'[s.user])
      /\ \A i \in 1..Len(hashes[s.user]) :
            hashes'[s.user][i] = hashes[s.user][i]
  BY HashesGrow
<1> QED BY <1>1 DEF Proven

\* Proven, as a predicate on the passwords h that accounts have had.
Had(h, s) == s.version \in 1..Len(h[s.user]) /\ h[s.user][s.version] = s.typed

\* What a request has proved.
Backed(h, q) ==
    /\ q.step \in {"handler", "delete"} => Had(h, q.session)
    /\ q.step = "startSession" => Had(h, q)

\* Sessions and the requests behind the gate keep their proof.
LEMMA ProvesStep ==
    ASSUME TypeOK, UsersExist, SessionProvesPassword, RequestProves, Next
    PROVE  SessionProvesPassword' /\ RequestProves'
<1>1. /\ \A r \in Request : Backed(hashes, request[r])
      /\ \A t \in SessionToken : sessions[t] # None => Had(hashes, sessions[t])
  BY DEF SessionProvesPassword, RequestProves, Proven, Had, Backed
<1>2. ASSUME NEW s, s.user \in User, s.version \in Nat, Had(hashes, s)
      PROVE  Had(hashes', s)
  BY <1>2, ProofStays DEF Proven, Had
<1>3. ASSUME NEW q \in Steps, Backed(hashes, q) PROVE Backed(hashes', q)
  <2>1. q.step = "startSession" => q.user \in User /\ q.version \in Nat
    BY StepFields
  <2>2. q.step \in {"handler", "delete"} =>
           q.session.user \in User /\ q.session.version \in Nat
    BY StepFields DEF Session
  <2> QED BY <1>2, <1>3, <2>1, <2>2 DEF Backed
<1>4. ASSUME NEW r \in Request, NEW what,
             request' = [request EXCEPT ![r] = what], Backed(hashes', what)
      PROVE  \A q \in Request : Backed(hashes', request'[q])
  BY <1>1, <1>3, <1>4 DEF TypeOK
<1>5. ASSUME sessions' = sessions
      PROVE  \A t \in SessionToken :
                sessions'[t] # None => Had(hashes', sessions'[t])
  BY <1>1, <1>2, <1>5 DEF TypeOK, Session
<1> DEFINE Goal ==
      /\ \A q \in Request : Backed(hashes', request'[q])
      /\ \A t \in SessionToken :
            sessions'[t] # None => Had(hashes', sessions'[t])
<1>6. Backed(hashes', Idle)
  BY DEF Backed, Idle
<1>7. ASSUME NEW r \in Request, ReadStep(r) PROVE Goal
  <2>1. PICK what \in Steps : Becomes(r, what) /\ Learns(r, what)
    BY <1>7, ReadLearns
  <2>2. what.step = "startSession" => Had(hashes, what)
    <3>1. ASSUME what.step = "startSession"
          PROVE  /\ what.version = Len(hashes[what.user])
                 /\ hashes[what.user] \in Seq(Password)
                 /\ hashes[what.user] # <<>>
                 /\ what.typed = hashes[what.user][what.version]
      BY <2>1, <3>1, StepFields DEF Learns, TypeOK, UsersExist
    <3>2. ASSUME what.step = "startSession" PROVE what.version \in Nat \ {0}
      BY <3>1, <3>2, EmptySeq
    <3> QED BY <3>1, <3>2 DEF Had
  <2>3. what.step \in {"handler", "delete"} => Had(hashes, what.session)
    BY <1>1, <2>1 DEF Learns, Backed
  <2>4. Backed(hashes', what)
    BY <1>3, <2>2, <2>3 DEF Backed
  <2>5. sessions' = sessions
    BY <1>7 DEF ReadStep, dbVars
  <2> QED BY <1>4, <1>5, <2>1, <2>4, <2>5 DEF Becomes
<1>8. ASSUME NEW r \in Request, NEW e \in Email, NEW p \in Password,
             Signup(r, e, p)
      PROVE  Goal
  <2>1. PICK u \in User : /\ hashes' = [hashes EXCEPT ![u] = <<p>>]
                          /\ request' = [request EXCEPT ![r] =
                                           StartSession(u, p, 1)]
    BY <1>8 DEF Signup, Becomes
  <2>2. hashes'[u] = <<p>>
    BY <2>1 DEF TypeOK
  <2>3. Backed(hashes', StartSession(u, p, 1))
    <3>1. Len(<<p>>) = 1 /\ <<p>>[1] = p /\ 1 \in 1..1
      OBVIOUS
    <3> QED BY <2>2, <3>1 DEF Backed, Had, StartSession
  <2>4. sessions' = sessions
    BY <1>8 DEF Signup
  <2> QED BY <1>4, <1>5, <2>1, <2>3, <2>4
<1>9. ASSUME NEW r \in Request, CreateSession(r) PROVE Goal
  <2>1. PICK t \in SessionToken :
           sessions' = [sessions EXCEPT ![t] =
                [user |-> request[r].user, typed |-> request[r].typed,
                 version |-> request[r].version,
                 purge |-> purged[request[r].user]]]
    BY <1>9 DEF CreateSession
  <2>2. hashes' = hashes /\ request' = [request EXCEPT ![r] = Idle]
    BY <1>9 DEF CreateSession, Becomes
  <2>3. Had(hashes, request[r])
    BY <1>1, <1>9 DEF CreateSession, Backed
  <2>4. Had(hashes', sessions'[t])
    BY <2>1, <2>2, <2>3 DEF Had, TypeOK
  <2>5. \A k \in SessionToken :
           sessions'[k] # None => Had(hashes', sessions'[k])
    BY <1>1, <2>1, <2>2, <2>4 DEF TypeOK
  <2> QED BY <1>4, <1>6, <2>2, <2>5
<1>10. ASSUME NEW r \in Request, UpdatePassword(r) PROVE Goal
  <2>1. /\ request' = [request EXCEPT ![r] =
              [step |-> "consume", user |-> request[r].user,
               token |-> request[r].token]]
        /\ sessions' = sessions
    BY <1>10 DEF UpdatePassword, Becomes
  <2>2. Backed(hashes', [step |-> "consume", user |-> request[r].user,
                         token |-> request[r].token])
    BY DEF Backed
  <2> QED BY <1>4, <1>5, <2>1, <2>2
<1>11. ASSUME NEW r \in Request, DeletePasswordReset(r) \/ ConsumeFails(r)
       PROVE  Goal
  <2>1. request' = [request EXCEPT ![r] =
                      [step |-> "purge", user |-> request[r].user,
                       token |-> request[r].token]]
    BY <1>11, Purges
  <2>2. Backed(hashes', [step |-> "purge", user |-> request[r].user,
                         token |-> request[r].token])
    BY DEF Backed
  <2>3. sessions' = sessions
    BY <1>11 DEF DeletePasswordReset, ConsumeFails, dbVars
  <2> QED BY <1>4, <1>5, <2>1, <2>2, <2>3
<1>12. ASSUME NEW r \in Request,
              \/ CreatePasswordReset(r) \/ DeleteUserSessions(r)
              \/ CreateMonitor(r) \/ DeleteMonitor(r) \/ Abandon(r)
              \/ \E m \in Monitor \cup {SystemMonitor} : SetMuted(r, m)
       PROVE  Goal
  <2>1. hashes' = hashes /\ request' = [request EXCEPT ![r] = Idle]
    BY <1>12 DEF CreatePasswordReset, DeleteUserSessions, CreateMonitor,
                 DeleteMonitor, Abandon, SetMuted, Becomes, dbVars
  <2>2. \A t \in SessionToken : sessions'[t] \in {sessions[t], None}
    BY <1>12 DEF CreatePasswordReset, DeleteUserSessions, CreateMonitor,
                 DeleteMonitor, Abandon, SetMuted, dbVars
  <2> QED BY <1>1, <1>4, <1>6, <2>1, <2>2
<1>13. ASSUME \/ \E t \in SessionToken : Logout(t)
              \/ \E t \in ResetToken : ResetExpires(t)
       PROVE  Goal
  <2>1. /\ hashes' = hashes /\ request' = request
        /\ \A t \in SessionToken : sessions'[t] \in {sessions[t], None}
    BY <1>13 DEF Logout, ResetExpires, TypeOK
  <2> QED BY <1>1, <2>1
<1>14. Goal
  BY StepCases, <1>7, <1>8, <1>9, <1>10, <1>11, <1>12, <1>13
<1> QED
  BY <1>14 DEF SessionProvesPassword, RequestProves, Proven, Had, Backed

\* A reset of u has changed the password and not yet logged u out.
Resetting(u) == \E r \in Request : /\ request[r].step \in {"consume", "purge"}
                                   /\ request[r].user = u

\* A reset of u goes on, breaks off or logs u out everywhere.
LEMMA ResetGoesOn ==
    ASSUME TypeOK, Next, NEW u \in User, Resetting(u)
    PROVE  \/ Resetting(u)' \/ u \in failed'
           \/ \E r \in Request : DeleteUserSessions(r) /\ request[r].user = u
<1>1. PICK q \in Request : /\ request[q].step \in {"consume", "purge"}
                           /\ request[q].user = u
  BY DEF Resetting
<1>2. ASSUME NEW r \in Request, NEW what,
             request' = [request EXCEPT ![r] = what], r # q
      PROVE  Resetting(u)'
  BY <1>1, <1>2 DEF Resetting, TypeOK
<1>3. request[q] # Idle
  BY <1>1 DEF Idle
<1>4. ASSUME NEW r \in Request, Abandon(r) PROVE Resetting(u)' \/ u \in failed'
  BY <1>1, <1>2, <1>4 DEF Abandon, Becomes
<1>5. ASSUME NEW r \in Request, DeletePasswordReset(r) \/ ConsumeFails(r)
      PROVE  Resetting(u)'
  <2>1. request' = [request EXCEPT ![r] =
                      [step |-> "purge", user |-> request[r].user,
                       token |-> request[r].token]]
    BY <1>5, Purges
  <2>2. CASE r = q
    BY <1>1, <2>1, <2>2 DEF Resetting, TypeOK
  <2> QED BY <1>2, <2>1, <2>2
<1>6. ASSUME NEW r \in Request, ReadStep(r) PROVE Resetting(u)'
  BY <1>1, <1>2, <1>3, <1>6 DEF ReadStep, Login, Forgot, Reset, Gate, ReadOwner,
                                Becomes
<1>7. ASSUME NEW r \in Request,
             \/ \E e \in Email, p \in Password : Signup(r, e, p)
             \/ CreateSession(r) \/ CreatePasswordReset(r)
             \/ UpdatePassword(r) \/ CreateMonitor(r) \/ DeleteMonitor(r)
             \/ \E m \in Monitor \cup {SystemMonitor} : SetMuted(r, m)
      PROVE  Resetting(u)'
  BY <1>1, <1>2, <1>3, <1>7
     DEF Signup, CreateSession, CreatePasswordReset, UpdatePassword,
         CreateMonitor, DeleteMonitor, SetMuted, Becomes
<1>8. ASSUME NEW r \in Request, DeleteUserSessions(r)
      PROVE  Resetting(u)' \/ (DeleteUserSessions(r) /\ request[r].user = u)
  BY <1>1, <1>2, <1>8 DEF DeleteUserSessions, Becomes
<1>9. ASSUME \/ \E t \in SessionToken : Logout(t)
             \/ \E t \in ResetToken : ResetExpires(t)
      PROVE  Resetting(u)'
  BY <1>1, <1>9 DEF Logout, ResetExpires, Resetting
<1> QED
  BY StepCases, <1>4, <1>5, <1>6, <1>7, <1>8, <1>9

\* A password changes only by a sign-up or by a reset that then goes on.
LEMMA PasswordChanges ==
    ASSUME TypeOK, UsersExist, Next, NEW u \in User
    PROVE  \/ hashes'[u] = hashes[u]
           \/ hashes[u] = <<>> /\ Len(hashes'[u]) = 1
           \/ Resetting(u)'
<1>1. ASSUME NEW r \in Request, NEW e \in Email, NEW p \in Password,
             Signup(r, e, p)
      PROVE  hashes'[u] = hashes[u] \/ (hashes[u] = <<>> /\ hashes'[u] = <<p>>)
  BY <1>1 DEF Signup, TypeOK, UsersExist
<1>2. ASSUME NEW p, hashes'[u] = <<p>> PROVE Len(hashes'[u]) = 1
  BY <1>2
<1>3. ASSUME NEW r \in Request, UpdatePassword(r)
      PROVE  hashes'[u] = hashes[u] \/ Resetting(u)'
  <2>1. request' = [request EXCEPT ![r] =
            [step |-> "consume", user |-> request[r].user,
             token |-> request[r].token]]
    BY <1>3 DEF UpdatePassword, Becomes
  <2>2. CASE request[r].user = u
    BY <2>1, <2>2 DEF Resetting, TypeOK
  <2>3. CASE request[r].user # u
    BY <1>3, <2>3 DEF UpdatePassword, TypeOK
  <2> QED BY <2>2, <2>3
<1>4. \/ hashes' = hashes
      \/ \E r \in Request : UpdatePassword(r)
      \/ \E r \in Request, e \in Email, p \in Password : Signup(r, e, p)
  BY StepCases DEF ReadStep, CreateSession, CreatePasswordReset,
     DeletePasswordReset, DeleteUserSessions, CreateMonitor, DeleteMonitor,
     SetMuted, Abandon, ConsumeFails, Logout, ResetExpires, dbVars
<1> QED BY <1>1, <1>2, <1>3, <1>4

\* An excuse holds until its user is logged out everywhere.
LEMMA ExcuseHolds ==
    ASSUME TypeOK, UsersExist, Next, NEW u \in User, NEW p \in Nat,
           NEW v \in 1..Len(hashes[u]), Excused(u, v, p),
           \A r \in Request : DeleteUserSessions(r) => request[r].user # u
    PROVE  Excused(u, v, p)'
<1>1. failed \subseteq failed'
  BY StepCases DEF ReadStep, Signup, CreateSession, CreatePasswordReset,
     UpdatePassword, DeletePasswordReset, DeleteUserSessions, CreateMonitor,
     DeleteMonitor, SetMuted, Abandon, ConsumeFails, Logout, ResetExpires,
     history
<1>2. Resetting(u) => Resetting(u)' \/ u \in failed'
  BY ResetGoesOn
<1>3. Excused(u, v, p) <=>
         (v < Len(hashes[u]) => p > v \/ u \in failed \/ Resetting(u))
  BY DEF Excused, Resetting
<1>4. Excused(u, v, p)' <=>
         (v < Len(hashes'[u]) => p > v \/ u \in failed' \/ Resetting(u)')
  BY DEF Excused, Resetting
<1>5. hashes'[u] = hashes[u] \/ Resetting(u)'
  <2>1. hashes[u] # <<>>
    BY DEF TypeOK
  <2> QED BY <2>1, PasswordChanges
<1> QED BY <1>1, <1>2, <1>3, <1>4, <1>5

\* Where a session comes from, and which ones a logout everywhere leaves.
LEMMA SessionSource ==
    ASSUME TypeOK, Next, NEW t \in SessionToken, sessions'[t] # None
    PROVE  \/ /\ sessions'[t] = sessions[t]
              /\ \A r \in Request : DeleteUserSessions(r) =>
                    request[r].user # sessions[t].user
           \/ \E r \in Request :
                 /\ CreateSession(r)
                 /\ sessions'[t] =
                      [user |-> request[r].user, typed |-> request[r].typed,
                       version |-> request[r].version,
                       purge |-> purged[request[r].user]]
<1>1. ASSUME NEW r \in Request, DeleteUserSessions(r)
      PROVE  sessions'[t] = sessions[t] /\ request[r].user # sessions[t].user
  BY <1>1 DEF DeleteUserSessions
<1>2. \/ sessions'[t] = sessions[t]
      \/ \E r \in Request : CreateSession(r)
  BY <1>1, StepCases DEF ReadStep, Signup, CreatePasswordReset, UpdatePassword,
     DeletePasswordReset, CreateMonitor, DeleteMonitor, SetMuted, Abandon,
     ConsumeFails, Logout, ResetExpires, dbVars, TypeOK
<1>3. ASSUME NEW r \in Request, CreateSession(r)
      PROVE  \/ sessions'[t] = sessions[t]
             \/ sessions'[t] =
                   [user |-> request[r].user, typed |-> request[r].typed,
                    version |-> request[r].version,
                    purge |-> purged[request[r].user]]
  BY <1>3 DEF CreateSession, TypeOK
<1> QED BY <1>1, <1>2, <1>3

\* A request that is about to insert a session has just compared a password,
\* or was about to before.
LEMMA StartSource ==
    ASSUME TypeOK, UsersExist, Next, NEW q \in Request,
           request'[q].step = "startSession"
    PROVE  \/ request'[q] = request[q]
           \/ /\ purged' = purged
              /\ request'[q].version = Len(hashes'[request'[q].user])
<1>1. ASSUME NEW r \in Request, NEW what,
             request' = [request EXCEPT ![r] = what],
             what.step # "startSession"
      PROVE  request'[q] = request[q]
  BY <1>1 DEF TypeOK
<1>2. ASSUME NEW r \in Request, ReadStep(r)
      PROVE  \/ request'[q] = request[q]
             \/ /\ purged' = purged
                /\ request'[q].version = Len(hashes'[request'[q].user])
  <2>1. PICK what \in Steps : Becomes(r, what) /\ Learns(r, what)
    BY <1>2, ReadLearns
  <2> QED BY <1>2, <2>1 DEF Learns, ReadStep, Becomes, dbVars, history, TypeOK
<1>3. ASSUME NEW r \in Request, NEW e \in Email, NEW p \in Password,
             Signup(r, e, p)
      PROVE  \/ request'[q] = request[q]
             \/ /\ purged' = purged
                /\ request'[q].version = Len(hashes'[request'[q].user])
  <2>1. PICK u \in User : /\ hashes' = [hashes EXCEPT ![u] = <<p>>]
                          /\ request' = [request EXCEPT ![r] =
                                           StartSession(u, p, 1)]
    BY <1>3 DEF Signup, Becomes
  <2>2. hashes'[u] = <<p>> /\ Len(<<p>>) = 1
    BY <2>1 DEF TypeOK
  <2>3. CASE q = r
    <3>1. request'[q] = StartSession(u, p, 1)
      BY <2>1, <2>3 DEF TypeOK
    <3> QED BY <1>3, <2>2, <3>1 DEF StartSession, Signup, history
  <2> QED BY <2>1, <2>3 DEF TypeOK
<1>4. Idle.step # "startSession"
  BY DEF Idle
<1>5. ASSUME NEW r \in Request,
             \/ CreateSession(r) \/ CreatePasswordReset(r)
             \/ DeleteUserSessions(r) \/ CreateMonitor(r)
             \/ DeleteMonitor(r) \/ Abandon(r)
             \/ \E m \in Monitor \cup {SystemMonitor} : SetMuted(r, m)
      PROVE  request'[q] = request[q]
  BY <1>1, <1>4, <1>5
     DEF CreateSession, CreatePasswordReset, DeleteUserSessions,
         CreateMonitor, DeleteMonitor, Abandon, SetMuted, Becomes
<1>6. ASSUME NEW r \in Request, UpdatePassword(r)
      PROVE  request'[q] = request[q]
  BY <1>1, <1>6 DEF UpdatePassword, Becomes
<1>7. ASSUME NEW r \in Request, DeletePasswordReset(r) \/ ConsumeFails(r)
      PROVE  request'[q] = request[q]
  <2>1. request' = [request EXCEPT ![r] =
                      [step |-> "purge", user |-> request[r].user,
                       token |-> request[r].token]]
    BY <1>7, Purges
  <2> QED BY <1>1, <2>1
<1>8. ASSUME \/ \E t \in SessionToken : Logout(t)
             \/ \E t \in ResetToken : ResetExpires(t)
      PROVE  request'[q] = request[q]
  BY <1>8 DEF Logout, ResetExpires
<1> QED BY StepCases, <1>2, <1>3, <1>5, <1>6, <1>7, <1>8

\* Sessions of older passwords, and sessions about to be, keep their excuse.
LEMMA StraddlesStep ==
    ASSUME TypeOK, UsersExist, SessionProvesPassword, RequestProves,
           StaleSessionStraddles, RequestStraddles, Next
    PROVE  StaleSessionStraddles' /\ RequestStraddles'
<1>0. TypeOK'
  BY TypeStep
<1>1. ASSUME NEW t \in SessionToken, sessions'[t] # None
      PROVE  Excused(sessions[t].user, sessions[t].version, sessions[t].purge)'
  <2>1. CASE /\ sessions'[t] = sessions[t]
             /\ \A r \in Request : DeleteUserSessions(r) =>
                   request[r].user # sessions[t].user
    <3> DEFINE s == sessions[t]
    <3>1. /\ s.user \in User /\ s.purge \in Nat
          /\ s.version \in 1..Len(hashes[s.user])
      BY <1>1, <2>1 DEF TypeOK, Session, SessionProvesPassword, Proven
    <3>2. Excused(s.user, s.version, s.purge)
      BY <1>1, <2>1 DEF StaleSessionStraddles, Excused
    <3>3. ASSUME NEW u, NEW v, NEW k, u = s.user, v = s.version, k = s.purge
          PROVE  Excused(u, v, k)'
      BY <2>1, <3>1, <3>2, <3>3, ExcuseHolds
    <3>4. ASSUME NEW u, NEW v, NEW k, u = s.user, v = s.version, k = s.purge
          PROVE  Excused(sessions[t].user, sessions[t].version,
                         sessions[t].purge)'
      BY <2>1, <3>3, <3>4 DEF Excused
    <3> QED BY <3>4
  <2>2. ASSUME NEW r \in Request, CreateSession(r),
               sessions'[t] =
                  [user |-> request[r].user, typed |-> request[r].typed,
                   version |-> request[r].version,
                   purge |-> purged[request[r].user]]
        PROVE  Excused(sessions[t].user, sessions[t].version,
                       sessions[t].purge)'
    <3> DEFINE q == request[r]
    <3>1. q.step = "startSession"
      BY <2>2 DEF CreateSession
    <3>2. q.user \in User /\ purged[q.user] \in Nat
      BY <3>1, StepFields DEF TypeOK
    <3>3. q.version \in 1..Len(hashes[q.user])
      BY <3>1 DEF RequestProves, Proven
    <3>4. Excused(q.user, q.version, purged[q.user])
      BY <3>1 DEF RequestStraddles
    <3>5. \A x \in Request : ~DeleteUserSessions(x)
      BY <2>2, <3>1 DEF CreateSession, DeleteUserSessions, Becomes, TypeOK,
                        Idle
    <3>6. ASSUME NEW u, NEW v, NEW k, u = q.user, v = q.version,
                 k = purged[q.user]
          PROVE  Excused(u, v, k)'
      BY <3>2, <3>3, <3>4, <3>5, <3>6, ExcuseHolds
    <3>7. ASSUME NEW u, NEW v, NEW k, u = q.user, v = q.version,
                 k = purged[q.user]
          PROVE  Excused(sessions[t].user, sessions[t].version,
                         sessions[t].purge)'
      BY <2>2, <3>6, <3>7 DEF Excused
    <3> QED BY <3>7
  <2> QED BY <1>1, <2>1, <2>2, SessionSource
<1>2. ASSUME NEW q \in Request, request'[q].step = "startSession"
      PROVE  Excused(request[q].user, request[q].version,
                     purged[request[q].user])'
  <2>1. CASE /\ purged' = purged
             /\ request'[q].version = Len(hashes'[request'[q].user])
    <3>1. request'[q].user \in User
      BY <1>0, <1>2, StepFields DEF TypeOK
    <3>2. Len(hashes'[request'[q].user]) \in Nat
      BY <1>0, <3>1 DEF TypeOK
    <3> QED BY <2>1, <3>2 DEF Excused
  <2>2. CASE request'[q] = request[q]
    <3>1. request[q].step = "startSession"
      BY <1>2, <2>2
    <3>2. /\ request[q].user \in User /\ request[q].version \in Nat
          /\ purged[request[q].user] \in Nat
      BY <3>1, StepFields DEF TypeOK
    <3>3. request[q].version \in 1..Len(hashes[request[q].user])
      BY <3>1 DEF RequestProves, Proven
    <3>4. Excused(request[q].user, request[q].version,
                  purged[request[q].user])
      BY <3>1 DEF RequestStraddles
    <3>5. ASSUME NEW r \in Request, DeleteUserSessions(r),
                 request[r].user = request[q].user
          PROVE  Excused(request[q].user, request[q].version,
                         purged[request[q].user])'
      <4>1. /\ hashes' = hashes
            /\ purged'[request[q].user] = Len(hashes[request[q].user])
        BY <3>2, <3>5 DEF DeleteUserSessions, TypeOK
      <4>2. Len(hashes[request[q].user]) \in Nat
        BY <3>2 DEF TypeOK
      <4> QED BY <2>2, <3>2, <4>1, <4>2 DEF Excused
    <3>6. ASSUME \A r \in Request :
                    DeleteUserSessions(r) => request[r].user # request[q].user
          PROVE  Excused(request[q].user, request[q].version,
                         purged[request[q].user])'
      <4>1. purged'[request[q].user] = purged[request[q].user]
        BY <3>2, <3>6, StepCases
           DEF ReadStep, Signup, CreateSession, CreatePasswordReset,
               UpdatePassword, DeletePasswordReset, DeleteUserSessions,
               CreateMonitor, DeleteMonitor, SetMuted, Abandon, ConsumeFails,
               Logout, ResetExpires, history, TypeOK
      <4>2. ASSUME NEW u, NEW v, NEW k, u = request[q].user,
                   v = request[q].version, k = purged[request[q].user]
            PROVE  Excused(u, v, k)'
        BY <3>2, <3>3, <3>4, <3>6, <4>2, ExcuseHolds
      <4>3. ASSUME NEW u, NEW v, NEW k, u = request[q].user,
                   v = request[q].version, k = purged[request[q].user]
            PROVE  Excused(request[q].user, request[q].version,
                           purged[request[q].user])'
        BY <2>2, <4>1, <4>2, <4>3 DEF Excused
      <4> QED BY <4>3
    <3> QED BY <3>5, <3>6
  <2> QED BY <1>2, <2>1, <2>2, StartSource
<1>3. StaleSessionStraddles'
  BY <1>1 DEF StaleSessionStraddles, Excused
<1>4. RequestStraddles'
  BY <1>2 DEF RequestStraddles
<1> QED BY <1>3, <1>4

\* Ids of monitors are given out once, so the row a deletion has read is the
\* row it deletes, or is gone already.
LEMMA OwnerStep == ASSUME TypeOK, OwnerKept, Next PROVE OwnerKept'
<1> DEFINE Monitors == Monitor \cup {SystemMonitor}
<1>1. ASSUME NEW r \in Request, NEW what,
             request' = [request EXCEPT ![r] = what],
             what.step = "delete" =>
                /\ what.monitor \in monitorIds
                /\ owner[what.monitor] = what.session.user,
             owner' = owner, monitorIds' = monitorIds, muted' = muted
      PROVE  OwnerKept'
  BY <1>1 DEF TypeOK, OwnerKept
<1>2. Idle.step = "idle"
  BY DEF Idle
<1>3. ASSUME NEW r \in Request, ReadStep(r) PROVE OwnerKept'
  <2>1. PICK what \in Steps : Becomes(r, what) /\ Learns(r, what)
    BY <1>3, ReadLearns
  <2>2. ASSUME what.step = "delete"
        PROVE  /\ what.monitor \in Monitors
               /\ owner[what.monitor] = what.session.user
               /\ what.session.user \in User
    BY <2>1, <2>2, StepFields DEF Learns, Session
  <2>3. what.step = "delete" => what.monitor \in monitorIds
    BY <2>2, AccountsAssumption DEF OwnerKept
  <2>4. owner' = owner /\ monitorIds' = monitorIds /\ muted' = muted
    BY <1>3 DEF ReadStep, dbVars, history
  <2> QED BY <1>1, <2>1, <2>2, <2>3, <2>4 DEF Becomes
<1>4. ASSUME NEW r \in Request, NEW e \in Email, NEW p \in Password,
             Signup(r, e, p)
      PROVE  OwnerKept'
  <2>1. PICK u \in User :
           request' = [request EXCEPT ![r] = StartSession(u, p, 1)]
    BY <1>4 DEF Signup, Becomes
  <2>2. StartSession(u, p, 1).step = "startSession"
    BY DEF StartSession
  <2>3. owner' = owner /\ monitorIds' = monitorIds /\ muted' = muted
    BY <1>4 DEF Signup, history
  <2> QED BY <1>1, <2>1, <2>2, <2>3
<1>5. ASSUME NEW r \in Request,
             \/ CreateSession(r) \/ CreatePasswordReset(r)
             \/ DeleteUserSessions(r) \/ Abandon(r)
      PROVE  OwnerKept'
  <2>1. request' = [request EXCEPT ![r] = Idle]
    BY <1>5 DEF CreateSession, CreatePasswordReset, DeleteUserSessions,
                Abandon, Becomes
  <2>2. owner' = owner /\ monitorIds' = monitorIds /\ muted' = muted
    BY <1>5 DEF CreateSession, CreatePasswordReset, DeleteUserSessions,
                Abandon, dbVars
  <2> QED BY <1>1, <1>2, <2>1, <2>2
<1>6. ASSUME NEW r \in Request, UpdatePassword(r) PROVE OwnerKept'
  BY <1>1, <1>6 DEF UpdatePassword, Becomes
<1>7. ASSUME NEW r \in Request, DeletePasswordReset(r) \/ ConsumeFails(r)
      PROVE  OwnerKept'
  <2>1. request' = [request EXCEPT ![r] =
                      [step |-> "purge", user |-> request[r].user,
                       token |-> request[r].token]]
    BY <1>7, Purges
  <2>2. owner' = owner /\ monitorIds' = monitorIds /\ muted' = muted
    BY <1>7 DEF DeletePasswordReset, ConsumeFails, dbVars, history
  <2> QED BY <1>1, <2>1, <2>2
<1>8. ASSUME NEW r \in Request, CreateMonitor(r) PROVE OwnerKept'
  <2>1. PICK m \in Monitor :
           /\ m \notin monitorIds /\ monitorIds' = monitorIds \cup {m}
           /\ owner' = [owner EXCEPT ![m] = request[r].session.user]
    BY <1>8 DEF CreateMonitor
  <2>2. request' = [request EXCEPT ![r] = Idle] /\ muted' = muted
    BY <1>8 DEF CreateMonitor, Becomes
  <2>3. ~muted[m]
    BY <2>1 DEF OwnerKept
  <2> QED BY <1>2, <2>1, <2>2, <2>3 DEF TypeOK, OwnerKept
<1>9. ASSUME NEW r \in Request, DeleteMonitor(r) PROVE OwnerKept'
  <2>1. /\ owner' = [owner EXCEPT ![request[r].monitor] = None]
        /\ muted' = [muted EXCEPT ![request[r].monitor] = FALSE]
        /\ request' = [request EXCEPT ![r] = Idle]
        /\ monitorIds' = monitorIds
    BY <1>9 DEF DeleteMonitor, Becomes, history
  <2> QED BY <1>2, <2>1 DEF TypeOK, OwnerKept
<1>10. ASSUME NEW r \in Request, NEW m \in Monitors, SetMuted(r, m)
       PROVE  OwnerKept'
  <2>1. /\ request' = [request EXCEPT ![r] = Idle]
        /\ owner' = owner /\ monitorIds' = monitorIds
    BY <1>10 DEF SetMuted, Becomes, history
  <2>3. \A k \in Monitors : k # m => muted'[k] = muted[k]
    <3>1. PICK b \in BOOLEAN : muted' = [muted EXCEPT ![m] = b]
      BY <1>10 DEF SetMuted
    <3> QED BY <3>1 DEF TypeOK
  <2>2. owner[m] # None
    <3>1. request[r].session \in Session
      BY <1>10, StepFields DEF SetMuted, TypeOK
    <3> QED BY <1>10, <3>1, AccountsAssumption DEF SetMuted, Session
  <2> QED BY <1>2, <2>1, <2>2, <2>3 DEF TypeOK, OwnerKept
<1>11. ASSUME \/ \E t \in SessionToken : Logout(t)
              \/ \E t \in ResetToken : ResetExpires(t)
       PROVE  OwnerKept'
  BY <1>11 DEF Logout, ResetExpires, history, OwnerKept
<1> QED
  BY StepCases, <1>3, <1>4, <1>5, <1>6, <1>7, <1>8, <1>9, <1>10, <1>11

\* Nothing but the owner's requests changes the row of a monitor.
OwnerActs ==
    \A m \in Monitor \cup {SystemMonitor} :
       owner[m]' # owner[m] \/ muted[m]' # muted[m]
       => \E r \in Request :
             /\ request[r] # request[r]'
             /\ request[r].step \in {"handler", "delete"}
             /\ Proven(request[r].session)
             /\ request[r].session.user \in {owner[m], owner[m]'}

\* A monitor changes hands, or its muting, only at the hands of its owner.
LEMMA OwnerActsStep ==
    ASSUME TypeOK, SessionProvesPassword, OwnerKept, Next PROVE OwnerActs
<1> SUFFICES ASSUME NEW m \in Monitor \cup {SystemMonitor},
                    owner[m]' # owner[m] \/ muted[m]' # muted[m]
             PROVE  \E r \in Request :
                       /\ request[r] # request[r]'
                       /\ request[r].step \in {"handler", "delete"}
                       /\ Proven(request[r].session)
                       /\ request[r].session.user \in {owner[m], owner[m]'}
  BY DEF OwnerActs
<1>1. ASSUME NEW r \in Request, request' = [request EXCEPT ![r] = Idle],
             request[r].step \in {"handler", "delete"}
      PROVE  request[r] # request[r]' /\ Proven(request[r].session)
  BY <1>1 DEF TypeOK, Idle, SessionProvesPassword
<1>2. ASSUME NEW r \in Request, CreateMonitor(r)
      PROVE  /\ request[r] # request[r]' /\ request[r].step = "handler"
             /\ Proven(request[r].session)
             /\ request[r].session.user = owner[m]'
  BY <1>1, <1>2 DEF CreateMonitor, Becomes, TypeOK
<1>3. ASSUME NEW r \in Request, NEW k \in Monitor \cup {SystemMonitor},
             SetMuted(r, k)
      PROVE  /\ request[r] # request[r]' /\ request[r].step = "handler"
             /\ Proven(request[r].session)
             /\ request[r].session.user = owner[m]
  <2>1. PICK b \in BOOLEAN : muted' = [muted EXCEPT ![k] = b]
    BY <1>3 DEF SetMuted
  <2>2. k = m
    BY <1>3, <2>1 DEF SetMuted, TypeOK
  <2> QED BY <1>1, <1>3, <2>2 DEF SetMuted, Becomes
<1>4. ASSUME NEW r \in Request, DeleteMonitor(r)
      PROVE  /\ request[r] # request[r]' /\ request[r].step = "delete"
             /\ Proven(request[r].session)
             /\ request[r].session.user = owner[m]
  <2>1. request[r].monitor = m
    BY <1>4 DEF DeleteMonitor, TypeOK
  <2>2. owner[m] # None
    <3>1. owner'[m] = None /\ muted'[m] = FALSE
      BY <1>4, <2>1 DEF DeleteMonitor, TypeOK
    <3> QED BY <3>1 DEF OwnerKept, TypeOK
  <2>3. owner[m] = request[r].session.user
    BY <1>4, <2>1, <2>2 DEF OwnerKept, DeleteMonitor
  <2> QED BY <1>1, <1>4, <2>3 DEF DeleteMonitor, Becomes
<1>5. \E r \in Request :
         \/ CreateMonitor(r) \/ DeleteMonitor(r)
         \/ \E k \in Monitor \cup {SystemMonitor} : SetMuted(r, k)
  BY StepCases DEF ReadStep, Signup, CreateSession, CreatePasswordReset,
     UpdatePassword, DeletePasswordReset, DeleteUserSessions, Abandon,
     ConsumeFails, Logout, ResetExpires, dbVars
<1> QED BY <1>2, <1>3, <1>4, <1>5

-----------------------------------------------------------------------------
\* An empty database satisfies the invariant.
LEMMA InvInit == Init => Inv
<1> SUFFICES ASSUME Init PROVE Inv
  OBVIOUS
<1>1. TypeOK
  BY AccountsAssumption DEF Init, TypeOK, Steps
<1>2. \A r \in Request : request[r].step = "idle"
  BY DEF Init, Idle
<1>3. /\ SessionProvesPassword /\ RequestProves /\ StaleSessionStraddles
      /\ RequestStraddles
  BY <1>2 DEF Init, SessionProvesPassword, RequestProves,
              StaleSessionStraddles, RequestStraddles
<1>4. UsersExist /\ OwnerKept
  BY <1>2 DEF Init, UsersExist, OwnerKept
<1> QED BY <1>1, <1>3, <1>4 DEF Inv

\* Every step preserves the invariant.
LEMMA InvStep == Inv /\ [Next]_vars => Inv'
<1>1. ASSUME Inv, Next PROVE Inv'
  BY <1>1, TypeStep, UsersStep, ProvesStep, StraddlesStep, OwnerStep DEF Inv
<1>2. ASSUME Inv, UNCHANGED vars PROVE Inv'
  <2>1. TypeOK' /\ UsersExist' /\ OwnerKept'
    BY <1>2 DEF Inv, vars, dbVars, TypeOK, UsersExist, OwnerKept
  <2>2. SessionProvesPassword' /\ RequestProves'
    BY <1>2 DEF Inv, vars, dbVars, SessionProvesPassword, RequestProves, Proven
  <2>3. StaleSessionStraddles' /\ RequestStraddles'
    BY <1>2 DEF Inv, vars, dbVars, StaleSessionStraddles, RequestStraddles,
                Excused
  <2> QED BY <2>1, <2>2, <2>3 DEF Inv
<1> QED BY <1>1, <1>2

\* The invariant holds in every reachable state.
LEMMA Invariance == Spec => []Inv
BY InvInit, InvStep, PTL DEF Spec

\* Whoever holds a session or is past the gate typed a password the account
\* had at that moment, for any number of concurrent sign-ups, logins and
\* resets (cmd/web signup, login, gate).
THEOREM PasswordProven == Spec => []SessionProvesPassword
BY Invariance, PTL DEF Inv

\* A reset logs out every session of an older password, except the one whose
\* login straddled it, unless it broke off (cmd/web reset, startSession).
THEOREM LoggedOutEverywhere == Spec => []StaleSessionStraddles
BY Invariance, PTL DEF Inv

\* The row of a monitor changes only by a request that proved a password of
\* its owner (cmd/web add, mute, unmute, delete; store DeleteMonitor).
THEOREM OnlyTheOwner == Spec => OwnerOnly
<1>1. Inv /\ [Next]_vars => [OwnerActs]_vars
  BY OwnerActsStep DEF Inv
<1>2. OwnerOnly <=> [][OwnerActs]_vars
  BY PTL DEF OwnerOnly, OwnerActs
<1> QED BY <1>1, <1>2, Invariance, PTL DEF Spec
=============================================================================
