----------------------------- MODULE Authentication -----------------------------
(***************************************************************************)
(* The administrator's account (auth.py): setup tokens, the password and   *)
(* the sessions, with the routes that use them (api.py) and the command    *)
(* that issues a new token (cli.py).                                       *)
(*                                                                         *)
(* A transaction of SQLite begins with its first write.  What a session    *)
(* has read before that may have changed when it writes; what begins with  *)
(* an UPDATE is one step.                                                  *)
(***************************************************************************)
EXTENDS Integers, Sequences, FiniteSets, AccountTables

CONSTANTS
  Threads,      \* threads that serve requests, and the reset command
  Passwords,
  SetupTTL,     \* setup_token_ttl
  SessionTTL,   \* session_ttl
  MaxTime,      \* bound: the clock
  MaxTokens,    \* bound: setup tokens issued
  MaxSessions,  \* bound: sessions opened
  MaxVersion    \* bound: passwords set

TTLAssumption == {SetupTTL, SessionTTL} \subseteq Nat \ {0}
BoundsAssumption == {MaxTime, MaxTokens, MaxSessions, MaxVersion} \subseteq Nat

VARIABLES
  now,
  users,     \* the rows of users
  tokens,    \* the rows of setup_tokens, by number
  thread     \* where each thread stands

vars == <<now, users, tokens, sessions, thread, sets, uses>>

Users == [password : Passwords, session_version : 1..(MaxVersion + 1)]
Tokens == [used : BOOLEAN, expires : 0..(MaxTime + SetupTTL)]
\* since: sets when the row was inserted (history).
Sessions == [revoked : BOOLEAN, expires : 0..(MaxTime + SessionTTL), since : 0..MaxVersion]

Idle == [pc |-> "idle"]
Become(t, state) == thread' = [thread EXCEPT ![t] = state]

Initialized == Len(users) > 0
ActiveTokens(time) == {k \in DOMAIN tokens : ~tokens[k].used /\ tokens[k].expires > time}

\* Mutant: a session that has expired is left as it is.
RevokeLive == [s \in DOMAIN sessions |->
  [sessions[s] EXCEPT !.revoked = @ \/ sessions[s].expires > now]]
RevokeAll == [s \in DOMAIN sessions |-> [sessions[s] EXCEPT !.revoked = TRUE]]

------------------------------------------------------------------------------
(***************************************************************************)
(* Setup tokens.                                                           *)
(***************************************************************************)

\* bootstrap_status, when the application starts.
BootstrapStatus(t) ==
  /\ thread[t] = Idle
  /\ ~Initialized /\ ActiveTokens(now) = {}
  /\ Become(t, [pc |-> "rotate"])
  /\ UNCHANGED <<now, users, tokens, sessions, sets, uses>>

\* cli.main, reset-setup-token.
ResetSetupToken(t) ==
  /\ thread[t] = Idle
  /\ Become(t, [pc |-> "rotate"])
  /\ UNCHANGED <<now, users, tokens, sessions, sets, uses>>

RotateSetupToken(t) ==
  /\ thread[t].pc = "rotate"
  /\ Len(tokens) < MaxTokens
  /\ tokens' = Append([k \in DOMAIN tokens |-> [tokens[k] EXCEPT !.used = TRUE]],
                      [used |-> FALSE, expires |-> now + SetupTTL])
  /\ Become(t, Idle)
  /\ UNCHANGED <<now, users, sessions, sets, uses>>

\* setup: the time is taken, and the password hashed, before the session.
Setup(t, k, p) ==
  /\ thread[t] = Idle
  /\ Become(t, [pc |-> "consume", token |-> k, password |-> p, time |-> now])
  /\ UNCHANGED <<now, users, tokens, sessions, sets, uses>>

\* Mutant: the claim does not look whether the token has been used.
ClaimableUsed(k, time) == tokens[k].expires > time
Claimable(k, time) == k \in ActiveTokens(time)

\* A token that cannot be claimed, or the name of another user: nothing stays.
ConsumeRefused(t) ==
  /\ thread[t].pc = "consume"
  /\ ~Claimable(thread[t].token, thread[t].time) \/ Initialized
  /\ Become(t, Idle)
  /\ UNCHANGED <<now, users, tokens, sessions, sets, uses>>

ConsumeSetupToken(t) ==
  LET k == thread[t].token
      p == thread[t].password
  IN
  /\ thread[t].pc = "consume" /\ Claimable(k, thread[t].time)
  /\ sets < MaxVersion
  /\ tokens' = [tokens EXCEPT ![k].used = TRUE]
  /\ \/ /\ Initialized
        /\ users' = [users EXCEPT ![1].password = p, ![1].session_version = @ + 1]
        /\ sessions' = RevokeAll
     \/ /\ ~Initialized
        /\ users' = Append(users, [password |-> p, session_version |-> 1])
        /\ UNCHANGED sessions
  /\ sets' = sets + 1
  /\ uses' = Append(uses, k)
  /\ Become(t, [pc |-> "login", password |-> p])
  /\ UNCHANGED now

------------------------------------------------------------------------------
(***************************************************************************)
(* Sessions.                                                               *)
(***************************************************************************)

Login(t, p) ==
  /\ thread[t] = Idle
  /\ Become(t, [pc |-> "login", password |-> p])
  /\ UNCHANGED <<now, users, tokens, sessions, sets, uses>>

LoginVerifies(t) ==
  /\ thread[t].pc = "login"
  /\ LET verified == Initialized /\ users[1].password = thread[t].password
     IN  Become(t, IF verified THEN [pc |-> "open", expires |-> now + SessionTTL] ELSE Idle)
  /\ UNCHANGED <<now, users, tokens, sessions, sets, uses>>

LoginOpens(t) ==
  /\ thread[t].pc = "open"
  /\ Len(sessions) < MaxSessions
  /\ sessions' = Append(sessions,
                   [revoked |-> FALSE, expires |-> thread[t].expires, since |-> sets])
  /\ Become(t, Idle)
  /\ UNCHANGED <<now, users, tokens, sets, uses>>

\* authenticate, first for a request as such, then in change_password.  The
\* revocation of an expired session is rolled back by the exception after it.
AuthenticateReads(t, s) ==
  /\ thread[t] = Idle
  /\ ~sessions[s].revoked /\ sessions[s].expires > now
  /\ \E change \in BOOLEAN :
       Become(t, [pc |-> "extend", session |-> s, time |-> now, change |-> change])
  /\ UNCHANGED <<now, users, tokens, sessions, sets, uses>>

\* Only expires_at differs from what was loaded, so only it is written.
AuthenticateExtends(t) ==
  /\ thread[t].pc = "extend"
  /\ sessions' = [sessions EXCEPT
       ![thread[t].session].expires = thread[t].time + SessionTTL]
  /\ Become(t, IF thread[t].change THEN [pc |-> "verify"] ELSE Idle)
  /\ UNCHANGED <<now, users, tokens, sets, uses>>

Logout(t, s) ==
  /\ thread[t] = Idle
  /\ ~sessions[s].revoked
  /\ sessions' = [sessions EXCEPT ![s].revoked = TRUE]
  /\ UNCHANGED <<now, users, tokens, thread, sets, uses>>

\* change_password after authenticate: the row is read, the password verified.
ChangeVerifies(t) ==
  /\ thread[t].pc = "verify"
  /\ \E current, new \in Passwords :
       Become(t, IF users[1].password = current
                 THEN [pc |-> "change", password |-> new,
                       version |-> users[1].session_version]
                 ELSE Idle)
  /\ UNCHANGED <<now, users, tokens, sessions, sets, uses>>

\* The user's new version is counted from the row that was read.
ChangePassword(t) ==
  /\ thread[t].pc = "change"
  /\ sets < MaxVersion
  /\ users' = [users EXCEPT ![1].password = thread[t].password,
                            ![1].session_version = thread[t].version + 1]
  /\ sessions' = RevokeAll
  /\ sets' = sets + 1
  /\ Become(t, Idle)
  /\ UNCHANGED <<now, tokens, uses>>

------------------------------------------------------------------------------

Tick == now < MaxTime /\ now' = now + 1 /\ UNCHANGED <<users, tokens, sessions, thread, sets, uses>>

Init ==
  /\ now = 0 /\ users = <<>> /\ tokens = <<>> /\ sessions = <<>>
  /\ thread = [t \in Threads |-> Idle]
  /\ sets = 0 /\ uses = <<>>

Next ==
  \/ \E t \in Threads :
       \/ BootstrapStatus(t) \/ ResetSetupToken(t) \/ RotateSetupToken(t)
       \/ \E k \in DOMAIN tokens, p \in Passwords : Setup(t, k, p)
       \/ ConsumeRefused(t) \/ ConsumeSetupToken(t)
       \/ \E p \in Passwords : Login(t, p)
       \/ LoginVerifies(t) \/ LoginOpens(t)
       \/ \E s \in DOMAIN sessions : AuthenticateReads(t, s) \/ Logout(t, s)
       \/ AuthenticateExtends(t) \/ ChangeVerifies(t) \/ ChangePassword(t)
  \/ Tick

Spec == Init /\ [][Next]_vars

------------------------------------------------------------------------------
(***************************************************************************)
(* Properties.                                                             *)
(***************************************************************************)

\* A thread waits in a state of its operation.
ThreadStates ==
  {Idle, [pc |-> "rotate"], [pc |-> "verify"]}
  \union [pc : {"consume"}, token : 1..MaxTokens, password : Passwords, time : 0..MaxTime]
  \union [pc : {"login"}, password : Passwords]
  \union [pc : {"open"}, expires : 0..(MaxTime + SessionTTL)]
  \union [pc : {"extend"}, session : 1..MaxSessions, time : 0..MaxTime, change : BOOLEAN]
  \union [pc : {"change"}, password : Passwords, version : 1..(MaxVersion + 1)]

\* Rows and threads are of the kinds auth.py makes; there is at most one
\* administrator, and one token that can still be used, however many threads
\* rotate tokens and set one up at once.
TypeOK ==
  /\ now \in 0..MaxTime
  /\ Len(users) <= 1 /\ \A i \in DOMAIN users : users[i] \in Users
  /\ \A k \in DOMAIN tokens : tokens[k] \in Tokens
  /\ Cardinality({k \in DOMAIN tokens : ~tokens[k].used}) <= 1
  /\ \A s \in DOMAIN sessions : sessions[s] \in Sessions
  /\ thread \in [Threads -> ThreadStates]
  /\ sets \in 0..MaxVersion
==============================================================================
