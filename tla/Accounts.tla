------------------------------ MODULE Accounts ------------------------------
(***************************************************************************)
(* cmd/web's accounts: sign-up, login, logout and password reset, and the  *)
(* handlers behind the gate that change monitors, as concurrent requests   *)
(* on the tables users, sessions, password_resets and monitors.            *)
(*                                                                         *)
(* Every statement is a step of its own, because another request may run   *)
(* between two.  A request whose client goes away or whose statement fails *)
(* is abandoned where it stands.  randomToken never repeats, bcrypt tells  *)
(* passwords apart, and an expired row is one that is gone.                *)
(***************************************************************************)
EXTENDS Naturals, Sequences, FiniteSets

CONSTANTS
    Email, Password,
    User,          \* ids of users, used once
    SessionToken,  \* tokens of sessions, used once
    ResetToken,    \* tokens of password_resets, used once
    Monitor,       \* ids of users' monitors, used once
    SystemMonitor, \* the monitor of the configuration file
    Request,       \* requests under way at once
    None,
    MaxPasswords,  \* bound: passwords an account has had
    MaxFaults      \* bound: abandoned requests and failing statements

ASSUME AccountsAssumption ==
    /\ None \notin Email \cup User \cup SessionToken \cup ResetToken
    /\ SystemMonitor \notin Monitor
    /\ MaxPasswords \in Nat /\ MaxFaults \in Nat

VARIABLES
    email,      \* users.email by id, None for an id not given out
    hashes,     \* users.password_hash: what it has been, the last one is now
    sessions,   \* session tokens and what they stand for
    resets,     \* reset tokens and the user they are for
    owner,      \* monitors.user_id; None for no row
    muted,      \* monitors.muted_until
    request,    \* what each request has left to do
    \* history
    tokens,     \* session and reset tokens handed out
    monitorIds, \* ids of monitors handed out
    purged,     \* passwords the user had had when last logged out everywhere
    failed,     \* users whose sessions a broken reset left as they were
    faults

dbVars == <<email, hashes, sessions, resets, owner, muted>>
vars   == <<dbVars, request, tokens, monitorIds, purged, failed, faults>>

\* A session, with what earned it: the password typed, how many passwords the
\* account had had when it was compared, and `purged` when the row came.
Session == [user : User, typed : Password, version : Nat, purge : Nat]

Idle == [step |-> "idle"]
Steps ==
    {Idle}
    \cup [step : {"startSession"}, user : User, typed : Password, version : Nat]
    \cup [step : {"createReset"}, user : User]
    \cup [step : {"update"}, user : User, token : ResetToken, new : Password]
    \cup [step : {"consume", "purge"}, user : User, token : ResetToken]
    \cup [step : {"handler"}, session : Session]
    \cup [step : {"delete"}, session : Session,
          monitor : Monitor \cup {SystemMonitor}]

TypeOK ==
    /\ email \in [User -> Email \cup {None}]
    /\ hashes \in [User -> Seq(Password)]
    /\ sessions \in [SessionToken -> Session \cup {None}]
    /\ resets \in [ResetToken -> User \cup {None}]
    /\ owner \in [Monitor \cup {SystemMonitor} -> User \cup {None}]
    /\ muted \in [Monitor \cup {SystemMonitor} -> BOOLEAN]
    /\ request \in [Request -> Steps]
    /\ tokens \subseteq SessionToken \cup ResetToken
    /\ monitorIds \subseteq Monitor
    /\ purged \in [User -> Nat]
    /\ failed \subseteq User
    /\ faults \in Nat

Init ==
    /\ email = [u \in User |-> None]
    /\ hashes = [u \in User |-> <<>>]
    /\ sessions = [t \in SessionToken |-> None]
    /\ resets = [t \in ResetToken |-> None]
    /\ owner = [m \in Monitor \cup {SystemMonitor} |-> None]
    /\ muted = [m \in Monitor \cup {SystemMonitor} |-> FALSE]
    /\ request = [r \in Request |-> Idle]
    /\ tokens = {} /\ monitorIds = {}
    /\ purged = [u \in User |-> 0]
    /\ failed = {} /\ faults = 0

Becomes(r, what) == request' = [request EXCEPT ![r] = what]
history == <<tokens, monitorIds, purged, failed, faults>>

-----------------------------------------------------------------------------
(***************************************************************************)
(* Sign-up, login, logout                                                  *)
(***************************************************************************)

Registered(e) == {u \in User : email[u] = e}

\* startSession's arguments: the user, and what the request has shown
StartSession(u, p, n) ==
    [step |-> "startSession", user |-> u, typed |-> p, version |-> n]

\* Mutant of Signup: the row is upserted, as UpsertMonitor does it.
SignupUpsert(r, e, p) ==
    /\ request[r] = Idle
    /\ \E u \in User :
          /\ IF Registered(e) = {} THEN email[u] = None ELSE u \in Registered(e)
          /\ email' = [email EXCEPT ![u] = e]
          /\ hashes' = [hashes EXCEPT ![u] = IF @ = <<>> THEN <<p>> ELSE @]
          /\ Becomes(r, StartSession(u, p, 1))
    /\ UNCHANGED <<sessions, resets, owner, muted, history>>

\* CreateUser: the unique index on users.email decides between two sign-ups.
Signup(r, e, p) ==
    /\ request[r] = Idle
    /\ Registered(e) = {}
    /\ \E u \in User :
          /\ email[u] = None
          /\ email' = [email EXCEPT ![u] = e]
          /\ hashes' = [hashes EXCEPT ![u] = <<p>>]
          /\ Becomes(r, StartSession(u, p, 1))
    /\ UNCHANGED <<sessions, resets, owner, muted, history>>

\* UserByEmail, then the comparison with the hash that was read
Login(r, e, p) ==
    /\ request[r] = Idle
    /\ \E u \in Registered(e) :
          /\ hashes[u][Len(hashes[u])] = p
          /\ Becomes(r, StartSession(u, p, Len(hashes[u])))
    /\ UNCHANGED <<dbVars, history>>

CreateSession(r) ==
    /\ request[r].step = "startSession"
    /\ \E t \in SessionToken \ tokens :
          /\ tokens' = tokens \cup {t}
          /\ sessions' = [sessions EXCEPT ![t] =
                [user |-> request[r].user, typed |-> request[r].typed,
                 version |-> request[r].version,
                 purge |-> purged[request[r].user]]]
    /\ Becomes(r, Idle)
    /\ UNCHANGED <<email, hashes, resets, owner, muted, monitorIds, purged,
                   failed, faults>>

\* DeleteSession, or the session runs out
Logout(t) ==
    /\ sessions[t] # None
    /\ sessions' = [sessions EXCEPT ![t] = None]
    /\ UNCHANGED <<email, hashes, resets, owner, muted, request, history>>

-----------------------------------------------------------------------------
(***************************************************************************)
(* Password reset                                                          *)
(***************************************************************************)

\* Mutant of Forgot: ok is not looked at.
ForgotUnchecked(r, e) ==
    /\ request[r] = Idle
    /\ \E u \in Registered(e) \cup {None} :
          Becomes(r, [step |-> "createReset", user |-> u])
    /\ UNCHANGED <<dbVars, history>>

Forgot(r, e) ==
    /\ request[r] = Idle
    /\ \E u \in Registered(e) :
          Becomes(r, [step |-> "createReset", user |-> u])
    /\ UNCHANGED <<dbVars, history>>

CreatePasswordReset(r) ==
    /\ request[r].step = "createReset"
    /\ \E t \in ResetToken \ tokens :
          /\ tokens' = tokens \cup {t}
          /\ resets' = [resets EXCEPT ![t] = request[r].user]
    /\ Becomes(r, Idle)
    /\ UNCHANGED <<email, hashes, sessions, owner, muted, monitorIds, purged,
                   failed, faults>>

ResetExpires(t) ==
    /\ resets[t] # None
    /\ resets' = [resets EXCEPT ![t] = None]
    /\ UNCHANGED <<email, hashes, sessions, owner, muted, request, history>>

\* reset, up to the hash: UserByResetToken
Reset(r, t, p) ==
    /\ request[r] = Idle
    /\ resets[t] # None
    /\ Becomes(r, [step |-> "update", user |-> resets[t], token |-> t,
                   new |-> p])
    /\ UNCHANGED <<dbVars, history>>

UpdatePassword(r) ==
    LET u == request[r].user IN
    /\ request[r].step = "update"
    /\ Len(hashes[u]) < MaxPasswords
    /\ hashes' = [hashes EXCEPT ![u] = Append(@, request[r].new)]
    /\ Becomes(r, [step |-> "consume", user |-> u, token |-> request[r].token])
    /\ UNCHANGED <<email, sessions, resets, owner, muted, tokens, monitorIds,
                   purged, failed, faults>>

DeletePasswordReset(r) ==
    /\ request[r].step = "consume"
    /\ resets' = [resets EXCEPT ![request[r].token] = None]
    /\ Becomes(r, [request[r] EXCEPT !.step = "purge"])
    /\ UNCHANGED <<email, hashes, sessions, owner, muted, history>>

\* Mutant of DeleteUserSessions: DeleteSession with the token of the reset.
DeleteUserSessionsByToken(r) ==
    /\ request[r].step = "purge"
    /\ Becomes(r, Idle)
    /\ UNCHANGED <<dbVars, history>>

DeleteUserSessions(r) ==
    LET u == request[r].user IN
    /\ request[r].step = "purge"
    /\ sessions' = [t \in SessionToken |->
                      IF sessions[t] # None /\ sessions[t].user = u THEN None
                      ELSE sessions[t]]
    /\ purged' = [purged EXCEPT ![u] = Len(hashes[u])]
    /\ Becomes(r, Idle)
    /\ UNCHANGED <<email, hashes, resets, owner, muted, tokens, monitorIds,
                   failed, faults>>

-----------------------------------------------------------------------------
(***************************************************************************)
(* Behind the gate                                                         *)
(***************************************************************************)

\* gate: UserBySession; the handler keeps the user it found
Gate(r, t) ==
    /\ request[r] = Idle
    /\ sessions[t] # None
    /\ Becomes(r, [step |-> "handler", session |-> sessions[t]])
    /\ UNCHANGED <<dbVars, history>>

CreateMonitor(r) ==
    /\ request[r].step = "handler"
    /\ \E m \in Monitor \ monitorIds :
          /\ monitorIds' = monitorIds \cup {m}
          /\ owner' = [owner EXCEPT ![m] = request[r].session.user]
    /\ Becomes(r, Idle)
    /\ UNCHANGED <<email, hashes, sessions, resets, muted, tokens, purged,
                   failed, faults>>

\* one statement, WHERE id = $1 AND user_id = $2
SetMuted(r, m) ==
    /\ request[r].step = "handler"
    /\ owner[m] = request[r].session.user
    /\ \E b \in BOOLEAN : muted' = [muted EXCEPT ![m] = b]
    /\ Becomes(r, Idle)
    /\ UNCHANGED <<email, hashes, sessions, resets, owner, history>>

\* Mutant of ReadOwner: only whether the row is there.
ReadOwnerExists(r, m) ==
    /\ request[r].step = "handler"
    /\ owner[m] # None
    /\ Becomes(r, [step |-> "delete", session |-> request[r].session,
                   monitor |-> m])
    /\ UNCHANGED <<dbVars, history>>

\* DeleteMonitor reads the owner first; a missing row and a monitor of
\* somebody else end the request ...
ReadOwner(r, m) ==
    /\ request[r].step = "handler"
    /\ owner[m] = request[r].session.user
    /\ Becomes(r, [step |-> "delete", session |-> request[r].session,
                   monitor |-> m])
    /\ UNCHANGED <<dbVars, history>>

\* ... and the transaction deletes by id alone.
DeleteMonitor(r) ==
    /\ request[r].step = "delete"
    /\ owner' = [owner EXCEPT ![request[r].monitor] = None]
    /\ muted' = [muted EXCEPT ![request[r].monitor] = FALSE]
    /\ Becomes(r, Idle)
    /\ UNCHANGED <<email, hashes, sessions, resets, history>>

-----------------------------------------------------------------------------
\* A request ends early: a statement fails and the handler answers with an
\* error, the client is gone and its context with it, or the process dies.
Abandon(r) ==
    /\ request[r] # Idle
    /\ faults < MaxFaults /\ faults' = faults + 1
    /\ failed' = IF request[r].step \in {"consume", "purge"}
                 THEN failed \cup {request[r].user} ELSE failed
    /\ Becomes(r, Idle)
    /\ UNCHANGED <<dbVars, tokens, monitorIds, purged>>

\* The errors of reset's last two statements are ignored.
ConsumeFails(r) ==
    /\ request[r].step = "consume"
    /\ faults < MaxFaults /\ faults' = faults + 1
    /\ Becomes(r, [request[r] EXCEPT !.step = "purge"])
    /\ UNCHANGED <<dbVars, tokens, monitorIds, purged, failed>>

Next ==
    \/ \E r \in Request :
          \/ \E e \in Email, p \in Password : Signup(r, e, p) \/ Login(r, e, p)
          \/ \E e \in Email : Forgot(r, e)
          \/ \E t \in ResetToken, p \in Password : Reset(r, t, p)
          \/ \E t \in SessionToken : Gate(r, t)
          \/ CreateSession(r) \/ CreatePasswordReset(r)
          \/ UpdatePassword(r) \/ DeletePasswordReset(r)
          \/ DeleteUserSessions(r)
          \/ CreateMonitor(r) \/ DeleteMonitor(r)
          \/ \E m \in Monitor \cup {SystemMonitor} :
                SetMuted(r, m) \/ ReadOwner(r, m)
          \/ Abandon(r) \/ ConsumeFails(r)
    \/ \E t \in SessionToken : Logout(t)
    \/ \E t \in ResetToken : ResetExpires(t)

Spec == Init /\ [][Next]_vars

-----------------------------------------------------------------------------
(***************************************************************************)
(* Properties                                                              *)
(***************************************************************************)

Proven(s) == s.version \in 1..Len(hashes[s.user])
             /\ hashes[s.user][s.version] = s.typed

\* Whoever holds a session, or is past the gate with one, typed a password the
\* account really had at the time - also when two sign-ups for one address, or
\* a login and a reset, run at once (signup, login, gate).
SessionProvesPassword ==
    /\ \A t \in SessionToken : sessions[t] # None => Proven(sessions[t])
    /\ \A r \in Request :
          request[r].step \in {"handler", "delete"} => Proven(request[r].session)

\* "Log out everywhere": a session earned with an older password is left only
\* while a reset is still on its way to DeleteUserSessions, after one that
\* broke off, or when its login had compared the old password before the
\* reset and inserted the row after the deletion.
StaleSessionStraddles ==
    \A t \in SessionToken :
       LET s == sessions[t] IN
       s # None /\ s.version < Len(hashes[s.user])
       => \/ s.purge > s.version
          \/ s.user \in failed
          \/ \E r \in Request : request[r].step \in {"consume", "purge"}
                                /\ request[r].user = s.user

\* A monitor is muted, unmuted or deleted only by a request that proved a
\* password of its owner, although DeleteMonitor checks the owner outside its
\* transaction; a system monitor by none.
OwnerOnly ==
    [][\A m \in Monitor \cup {SystemMonitor} :
          owner[m]' # owner[m] \/ muted[m]' # muted[m]
          => \E r \in Request :
                /\ request[r] # request[r]'
                /\ request[r].step \in {"handler", "delete"}
                /\ Proven(request[r].session)
                /\ request[r].session.user \in {owner[m], owner[m]'}]_vars
=============================================================================
