------------------------- MODULE Authentication_proofs -------------------------
(***************************************************************************)
(* Proofs of the safety properties of Authentication, for every set of     *)
(* threads and passwords, all lifetimes of tokens and sessions and every   *)
(* bound.                                                                  *)
(***************************************************************************)
EXTENDS Authentication, FiniteSetTheorems, TLAPS

------------------------------------------------------------------------------
(***************************************************************************)
(* The invariant.                                                          *)
(***************************************************************************)

\* The tables and what the threads hold.
Typed ==
  /\ now \in 0..MaxTime
  /\ users \in Seq(Users) /\ Len(users) <= 1
  /\ tokens \in Seq(Tokens) /\ Len(tokens) <= MaxTokens
  /\ sessions \in Seq(Sessions) /\ Len(sessions) <= MaxSessions
  /\ thread \in [Threads -> ThreadStates]
  /\ sets \in 0..MaxVersion
  /\ uses \in Seq(Nat)

\* What a thread has read is still there: rows are never deleted.  The version
\* of the password that it has seen is not ahead of the changes made.
ReadsStand ==
  /\ sessions # <<>> => Initialized
  /\ Initialized => users[1].session_version <= sets
  /\ \A t \in Threads :
       /\ thread[t].pc = "consume" => thread[t].token \in DOMAIN tokens
       /\ thread[t].pc = "extend" => thread[t].session \in DOMAIN sessions
       /\ thread[t].pc \in {"open", "verify", "change"} => Initialized
       /\ thread[t].pc = "change" => thread[t].version <= sets

\* Only the token issued last can be used.
LastTokenOnly == \A k \in DOMAIN tokens : k < Len(tokens) => tokens[k].used

\* A token that has set a password is used.
UsesSpend == \A i \in DOMAIN uses : uses[i] \in DOMAIN tokens /\ tokens[uses[i]].used

AccountsInv ==
  Typed /\ ReadsStand /\ LastTokenOnly /\ UsesSpend /\ TokensAreUsedInTurn
    /\ ChangesEndSessions

------------------------------------------------------------------------------
(***************************************************************************)
(* The thread that takes a step.                                           *)
(***************************************************************************)

\* What the record of a thread holds at each of its stations.
LEMMA ThreadFields ==
  ASSUME thread \in [Threads -> ThreadStates], NEW t \in Threads
  PROVE  /\ thread[t].pc \in {"idle", "rotate", "verify", "consume", "login", "open",
                              "extend", "change"}
         /\ thread[t].pc = "idle" <=> thread[t] = Idle
         /\ thread[t].pc = "consume" => /\ thread[t].token \in 1..MaxTokens
                                        /\ thread[t].password \in Passwords
                                        /\ thread[t].time \in 0..MaxTime
         /\ thread[t].pc = "login" => thread[t].password \in Passwords
         /\ thread[t].pc = "open" => thread[t].expires \in 0..(MaxTime + SessionTTL)
         /\ thread[t].pc = "extend" => /\ thread[t].session \in 1..MaxSessions
                                       /\ thread[t].time \in 0..MaxTime
                                       /\ thread[t].change \in BOOLEAN
         /\ thread[t].pc = "change" => /\ thread[t].password \in Passwords
                                       /\ thread[t].version \in 1..(MaxVersion + 1)
BY DEF ThreadStates, Idle

\* A thread is in one of its states after a step, and the others are as before.
LEMMA Becoming ==
  ASSUME thread \in [Threads -> ThreadStates], NEW t \in Threads,
         NEW state \in ThreadStates, Become(t, state)
  PROVE  /\ thread' \in [Threads -> ThreadStates]
         /\ thread'[t] = state
         /\ \A u \in Threads \ {t} : thread'[u] = thread[u]
BY DEF Become

\* The states that a step may give to a thread.
LEMMA StatesOfThreads ==
  /\ Idle \in ThreadStates
  /\ [pc |-> "rotate"] \in ThreadStates
  /\ [pc |-> "verify"] \in ThreadStates
  /\ \A k \in 1..MaxTokens, p \in Passwords, time \in 0..MaxTime :
       [pc |-> "consume", token |-> k, password |-> p, time |-> time] \in ThreadStates
  /\ \A p \in Passwords : [pc |-> "login", password |-> p] \in ThreadStates
  /\ \A expires \in 0..(MaxTime + SessionTTL) :
       [pc |-> "open", expires |-> expires] \in ThreadStates
  /\ \A s \in 1..MaxSessions, time \in 0..MaxTime, change \in BOOLEAN :
       [pc |-> "extend", session |-> s, time |-> time, change |-> change] \in ThreadStates
  /\ \A p \in Passwords, version \in 1..(MaxVersion + 1) :
       [pc |-> "change", password |-> p, version |-> version] \in ThreadStates
BY DEF ThreadStates

\* Steps that only move a thread, to where what it holds is there.
LEMMA ThreadMoves ==
  ASSUME AccountsInv, NEW t \in Threads, NEW state \in ThreadStates, Become(t, state),
         UNCHANGED <<now, users, tokens, sessions, sets, uses>>,
         state.pc = "consume" => state.token \in DOMAIN tokens,
         state.pc = "extend" => state.session \in DOMAIN sessions,
         state.pc \in {"open", "verify", "change"} => Initialized,
         state.pc = "change" => state.version <= sets
  PROVE  AccountsInv'
<1>1. /\ thread' \in [Threads -> ThreadStates]
      /\ thread'[t] = state
      /\ \A u \in Threads \ {t} : thread'[u] = thread[u]
  BY Becoming DEF AccountsInv, Typed
<1>2. Typed'
  BY <1>1 DEF AccountsInv, Typed
<1>3. ReadsStand'
  BY <1>1 DEF AccountsInv, ReadsStand, Initialized
<1>4. LastTokenOnly' /\ UsesSpend' /\ TokensAreUsedInTurn' /\ ChangesEndSessions'
  BY DEF AccountsInv, LastTokenOnly, UsesSpend, TokensAreUsedInTurn, ChangesEndSessions, Open
<1> QED BY <1>2, <1>3, <1>4 DEF AccountsInv

LEMMA NextMoves ==
  ASSUME TTLAssumption, BoundsAssumption, AccountsInv, NEW t \in Threads,
         \/ BootstrapStatus(t) \/ ResetSetupToken(t)
         \/ \E k \in DOMAIN tokens, p \in Passwords : Setup(t, k, p)
         \/ ConsumeRefused(t) \/ \E p \in Passwords : Login(t, p)
         \/ LoginVerifies(t) \/ ChangeVerifies(t)
         \/ \E s \in DOMAIN sessions : AuthenticateReads(t, s)
  PROVE  AccountsInv'
<1>1. CASE BootstrapStatus(t) \/ ResetSetupToken(t)
  BY <1>1, ThreadMoves, StatesOfThreads DEF BootstrapStatus, ResetSetupToken
<1>2. CASE \E k \in DOMAIN tokens, p \in Passwords : Setup(t, k, p)
  <2>1. PICK k \in DOMAIN tokens, p \in Passwords : Setup(t, k, p)
    BY <1>2
  <2>2. k \in 1..MaxTokens /\ now \in 0..MaxTime
    BY DEF AccountsInv, Typed, BoundsAssumption
  <2>3. [pc |-> "consume", token |-> k, password |-> p, time |-> now] \in ThreadStates
    BY <2>2, StatesOfThreads
  <2> QED BY <2>1, <2>3, ThreadMoves DEF Setup
<1>3. CASE ConsumeRefused(t)
  BY <1>3, ThreadMoves, StatesOfThreads DEF ConsumeRefused, Idle
<1>4. CASE \E p \in Passwords : Login(t, p)
  BY <1>4, ThreadMoves, StatesOfThreads DEF Login
<1>5. CASE LoginVerifies(t)
  <2>1. now + SessionTTL \in 0..(MaxTime + SessionTTL)
    BY DEF AccountsInv, Typed, BoundsAssumption, TTLAssumption
  <2>2. [pc |-> "open", expires |-> now + SessionTTL] \in ThreadStates
    BY <2>1, StatesOfThreads
  <2>3. CASE Initialized /\ users[1].password = thread[t].password
    BY <1>5, <2>2, <2>3, ThreadMoves DEF LoginVerifies
  <2>4. CASE ~(Initialized /\ users[1].password = thread[t].password)
    BY <1>5, <2>4, ThreadMoves, StatesOfThreads DEF LoginVerifies, Idle
  <2> QED BY <2>3, <2>4
<1>6. CASE ChangeVerifies(t)
  <2>1. PICK current \in Passwords, new \in Passwords :
          Become(t, IF users[1].password = current
                    THEN [pc |-> "change", password |-> new,
                          version |-> users[1].session_version]
                    ELSE Idle)
    BY <1>6 DEF ChangeVerifies
  <2>2. /\ Initialized /\ users[1].session_version <= sets
        /\ users[1].session_version \in 1..(MaxVersion + 1)
    <3>1. Initialized /\ users[1].session_version <= sets
      BY <1>6 DEF ChangeVerifies, AccountsInv, ReadsStand
    <3>2. users[1] \in Users
      BY <3>1 DEF AccountsInv, Typed, Initialized
    <3> QED BY <3>1, <3>2 DEF Users
  <2>3. [pc |-> "change", password |-> new, version |-> users[1].session_version]
          \in ThreadStates
    BY <2>2, StatesOfThreads
  <2>4. CASE users[1].password = current
    BY <1>6, <2>1, <2>2, <2>3, <2>4, ThreadMoves DEF ChangeVerifies
  <2>5. CASE users[1].password # current
    BY <1>6, <2>1, <2>5, ThreadMoves, StatesOfThreads DEF ChangeVerifies, Idle
  <2> QED BY <2>4, <2>5
<1>7. CASE \E s \in DOMAIN sessions : AuthenticateReads(t, s)
  <2>1. PICK s \in DOMAIN sessions, change \in BOOLEAN :
          /\ Become(t, [pc |-> "extend", session |-> s, time |-> now, change |-> change])
          /\ UNCHANGED <<now, users, tokens, sessions, sets, uses>>
    BY <1>7 DEF AuthenticateReads
  <2>2. s \in 1..MaxSessions /\ now \in 0..MaxTime
    BY DEF AccountsInv, Typed, BoundsAssumption
  <2>3. [pc |-> "extend", session |-> s, time |-> now, change |-> change] \in ThreadStates
    BY <2>2, StatesOfThreads
  <2> QED BY <2>1, <2>3, ThreadMoves
<1> QED BY <1>1, <1>2, <1>3, <1>4, <1>5, <1>6, <1>7

------------------------------------------------------------------------------
(***************************************************************************)
(* Setup tokens.                                                           *)
(***************************************************************************)

LEMMA RotateKeeps ==
  ASSUME TTLAssumption, BoundsAssumption, AccountsInv, NEW t \in Threads,
         RotateSetupToken(t)
  PROVE  AccountsInv'
<1> DEFINE token == [used |-> FALSE, expires |-> now + SetupTTL]
           spent == [k \in DOMAIN tokens |-> [tokens[k] EXCEPT !.used = TRUE]]
<1>1. /\ tokens' = Append(spent, token) /\ Become(t, Idle) /\ Len(tokens) < MaxTokens
      /\ UNCHANGED <<now, users, sessions, sets, uses>>
  BY DEF RotateSetupToken
<1>2. token \in Tokens /\ token.used = FALSE
  BY DEF Tokens, AccountsInv, Typed, TTLAssumption, BoundsAssumption
<1>3. /\ spent \in Seq(Tokens) /\ Len(spent) = Len(tokens)
      /\ \A k \in 1..Len(tokens) : spent[k].used = TRUE
  <2>1. DOMAIN tokens = 1..Len(tokens) /\ Len(tokens) \in Nat
    BY DEF AccountsInv, Typed
  <2>2. \A k \in DOMAIN tokens : /\ [tokens[k] EXCEPT !.used = TRUE] \in Tokens
                                 /\ [tokens[k] EXCEPT !.used = TRUE].used = TRUE
    <3>1. \A k \in DOMAIN tokens : tokens[k] \in Tokens
      BY DEF AccountsInv, Typed
    <3> QED BY <3>1 DEF Tokens
  <2>3. /\ spent \in [1..Len(tokens) -> Tokens]
        /\ \A k \in 1..Len(tokens) : spent[k].used = TRUE
    BY <2>1, <2>2
  <2> HIDE DEF spent
  <2> QED BY <2>1, <2>3
<1> HIDE DEF token, spent
<1>4. /\ tokens' \in Seq(Tokens) /\ Len(tokens') = Len(tokens) + 1
      /\ \A k \in 1..Len(tokens) : tokens'[k].used = TRUE
  BY <1>1, <1>2, <1>3
<1>5. /\ thread' \in [Threads -> ThreadStates]
      /\ thread'[t] = Idle
      /\ \A u \in Threads \ {t} : thread'[u] = thread[u]
  BY <1>1, Becoming, StatesOfThreads DEF AccountsInv, Typed
<1>6. Typed'
  BY <1>1, <1>4, <1>5 DEF AccountsInv, Typed, BoundsAssumption
<1>7. ReadsStand'
  <2>1. DOMAIN tokens \subseteq DOMAIN tokens'
    BY <1>4 DEF AccountsInv, Typed
  <2> QED BY <1>1, <1>5, <2>1 DEF AccountsInv, ReadsStand, Initialized, Idle
<1>8. LastTokenOnly' /\ UsesSpend'
  BY <1>1, <1>4 DEF AccountsInv, Typed, LastTokenOnly, UsesSpend
<1>9. TokensAreUsedInTurn' /\ ChangesEndSessions'
  BY <1>1 DEF AccountsInv, TokensAreUsedInTurn, ChangesEndSessions, Open
<1> QED BY <1>6, <1>7, <1>8, <1>9 DEF AccountsInv

\* Every session is revoked, and none is lost.
LEMMA AllRevoked ==
  ASSUME Typed
  PROVE  /\ RevokeAll \in Seq(Sessions)
         /\ Len(RevokeAll) = Len(sessions)
         /\ DOMAIN RevokeAll = DOMAIN sessions
         /\ \A s \in DOMAIN RevokeAll : RevokeAll[s].revoked = TRUE
<1>1. DOMAIN sessions = 1..Len(sessions) /\ Len(sessions) \in Nat
  BY DEF Typed
<1>2. \A s \in DOMAIN sessions : sessions[s] \in Sessions
  BY DEF Typed
<1>3. \A s \in DOMAIN sessions : /\ [sessions[s] EXCEPT !.revoked = TRUE] \in Sessions
                                 /\ [sessions[s] EXCEPT !.revoked = TRUE].revoked = TRUE
  BY <1>2 DEF Sessions
<1>4. /\ RevokeAll \in [1..Len(sessions) -> Sessions]
      /\ \A s \in 1..Len(sessions) : RevokeAll[s].revoked = TRUE
  BY <1>1, <1>3 DEF RevokeAll
<1> QED BY <1>1, <1>4

\* The row of the administrator.
LEMMA Administrator ==
  ASSUME AccountsInv, Initialized
  PROVE  /\ users \in Seq(Users) /\ Len(users) = 1
         /\ users[1] \in Users /\ users[1].session_version <= sets
<1>1. users \in Seq(Users)
  BY DEF AccountsInv, Typed
<1>2. Len(users) <= 1
  BY DEF AccountsInv, Typed
<1>3. Len(users) > 0
  BY DEF Initialized
<1>4. Len(users) = 1
  <2>1. \A n \in Nat : n <= 1 /\ n > 0 => n = 1
    OBVIOUS
  <2>2. Len(users) \in Nat
    BY <1>1
  <2> QED BY <1>2, <1>3, <2>1, <2>2
<1>5. users[1] \in Users
  BY <1>1, <1>4
<1>6. users[1].session_version <= sets
  BY DEF AccountsInv, ReadsStand
<1> QED BY <1>1, <1>4, <1>5, <1>6

\* A new password for the administrator counts the version on.
LEMMA PasswordSet ==
  ASSUME BoundsAssumption, AccountsInv, Initialized, NEW p \in Passwords,
         NEW version \in Nat, version <= sets, sets < MaxVersion,
         users' = [users EXCEPT ![1] =
                     [users[1] EXCEPT !.password = p, !.session_version = version + 1]]
  PROVE  /\ users' \in Seq(Users) /\ Len(users') = 1
         /\ users'[1].session_version <= sets + 1
<1> DEFINE user == [users[1] EXCEPT !.password = p, !.session_version = version + 1]
<1>1. sets \in Nat /\ MaxVersion \in Nat
  BY DEF AccountsInv, Typed, BoundsAssumption
<1>2. version + 1 \in 1..(MaxVersion + 1) /\ version + 1 <= sets + 1
  BY <1>1
<1>3. user \in Users /\ user.session_version = version + 1
  BY <1>2, Administrator DEF Users
<1> HIDE DEF user
<1>4. users \in Seq(Users) /\ Len(users) = 1
  BY Administrator
<1>5. users' \in Seq(Users) /\ Len(users') = 1 /\ users'[1] = user
  <2>1. users' = [users EXCEPT ![1] = user]
    BY DEF user
  <2> QED BY <1>3, <1>4, <2>1
<1> QED BY <1>2, <1>3, <1>5

LEMMA ConsumeKeeps ==
  ASSUME BoundsAssumption, AccountsInv, NEW t \in Threads, ConsumeSetupToken(t)
  PROVE  AccountsInv'
<1> DEFINE k == thread[t].token
           p == thread[t].password
           login == [pc |-> "login", password |-> p]
<1>1. /\ thread[t].pc = "consume" /\ Claimable(k, thread[t].time)
      /\ sets < MaxVersion
      /\ tokens' = [tokens EXCEPT ![k].used = TRUE]
      /\ sets' = sets + 1 /\ uses' = Append(uses, k) /\ Become(t, login) /\ now' = now
  BY DEF ConsumeSetupToken
<1>2. p \in Passwords /\ k \in DOMAIN tokens /\ ~tokens[k].used
  BY <1>1, ThreadFields DEF AccountsInv, Typed, Claimable, ActiveTokens
<1>3. k = Len(tokens) /\ k \in Nat /\ DOMAIN tokens = 1..Len(tokens)
  BY <1>2 DEF AccountsInv, Typed, LastTokenOnly
<1>4. login \in ThreadStates /\ login.pc = "login"
  BY <1>2, StatesOfThreads
<1> HIDE DEF k, p, login
<1>5. /\ thread' \in [Threads -> ThreadStates]
      /\ thread'[t] = login
      /\ \A u \in Threads \ {t} : thread'[u] = thread[u]
  BY <1>1, <1>4, Becoming DEF AccountsInv, Typed
<1>6. /\ tokens' \in Seq(Tokens) /\ Len(tokens') = Len(tokens)
      /\ DOMAIN tokens' = DOMAIN tokens
      /\ \A j \in DOMAIN tokens : tokens[j].used => tokens'[j].used
      /\ tokens'[k].used
  <2>1. \A j \in DOMAIN tokens : tokens[j] \in Tokens
    BY DEF AccountsInv, Typed
  <2>2. /\ [tokens[k] EXCEPT !.used = TRUE] \in Tokens
        /\ [tokens[k] EXCEPT !.used = TRUE].used = TRUE
    BY <1>2, <2>1 DEF Tokens
  <2>3. /\ tokens'[k] = [tokens[k] EXCEPT !.used = TRUE]
        /\ \A j \in DOMAIN tokens \ {k} : tokens'[j] = tokens[j]
        /\ DOMAIN tokens' = DOMAIN tokens
    BY <1>1, <1>2
  <2>4. tokens' \in [1..Len(tokens) -> Tokens]
    BY <1>1, <1>3, <2>1, <2>2, <2>3
  <2>5. Len(tokens) \in Nat
    BY DEF AccountsInv, Typed
  <2>6. tokens' \in Seq(Tokens) /\ Len(tokens') = Len(tokens)
    BY <2>4, <2>5
  <2> QED BY <2>2, <2>3, <2>6
<1>7. /\ users' \in Seq(Users) /\ Len(users') = 1 /\ users'[1].session_version <= sets'
      /\ sessions' \in Seq(Sessions) /\ Len(sessions') = Len(sessions)
      /\ DOMAIN sessions' = DOMAIN sessions
      /\ \A s \in DOMAIN sessions' : sessions'[s].revoked = TRUE
  <2>1. CASE Initialized
    <3> DEFINE user == [users[1] EXCEPT !.password = p, !.session_version = @ + 1]
    <3>1. users' = [users EXCEPT ![1] = user] /\ sessions' = RevokeAll
      BY <2>1 DEF ConsumeSetupToken, p
    <3>2. users[1].session_version \in Nat /\ users[1].session_version <= sets
      BY <2>1, Administrator DEF Users
    <3> HIDE DEF user
    <3>3. /\ users' \in Seq(Users) /\ Len(users') = 1
          /\ users'[1].session_version <= sets + 1
      BY <1>1, <1>2, <2>1, <3>1, <3>2, PasswordSet DEF user
    <3> QED BY <1>1, <3>1, <3>3, AllRevoked DEF AccountsInv
  <2>2. CASE ~Initialized
    <3> DEFINE user == [password |-> p, session_version |-> 1]
    <3>1. users' = Append(users, user) /\ sessions' = sessions
      BY <2>2 DEF ConsumeSetupToken, p
    <3>2. users \in Seq(Users) /\ Len(users) = 0 /\ sessions = <<>>
      BY <2>2 DEF AccountsInv, Typed, Initialized, ReadsStand
    <3>3. user \in Users /\ user.session_version = 1
      BY <1>2 DEF Users, AccountsInv, Typed, BoundsAssumption
    <3> HIDE DEF user
    <3>4. users' \in Seq(Users) /\ Len(users') = 1 /\ users'[1] = user
      BY <3>1, <3>2, <3>3
    <3>5. sets' >= 1
      BY <1>1 DEF AccountsInv, Typed
    <3> QED BY <3>1, <3>2, <3>3, <3>4, <3>5 DEF AccountsInv, Typed
  <2> QED BY <2>1, <2>2
<1>8. Typed'
  <2>1. sets' \in 0..MaxVersion /\ uses' \in Seq(Nat)
    BY <1>1, <1>3 DEF AccountsInv, Typed, BoundsAssumption
  <2> QED BY <1>1, <1>5, <1>6, <1>7, <2>1 DEF AccountsInv, Typed
<1>9. ReadsStand'
  <2>1. Initialized' /\ users'[1].session_version <= sets' /\ sets <= sets'
    BY <1>1, <1>7 DEF Initialized, AccountsInv, Typed
  <2>2. \A u \in Threads : thread[u].pc = "change" => thread[u].version <= sets'
    BY <1>1, ThreadFields DEF AccountsInv, Typed, ReadsStand
  <2> QED BY <1>4, <1>5, <1>6, <1>7, <2>1, <2>2 DEF AccountsInv, ReadsStand
<1>10. LastTokenOnly'
  BY <1>6 DEF AccountsInv, LastTokenOnly
<1>11. /\ DOMAIN uses' = 1..(Len(uses) + 1) /\ uses'[Len(uses) + 1] = k
       /\ DOMAIN uses = 1..Len(uses) /\ \A i \in DOMAIN uses : uses'[i] = uses[i]
       /\ Len(uses) \in Nat
  BY <1>1, <1>3 DEF AccountsInv, Typed
<1>12. UsesSpend'
  BY <1>2, <1>6, <1>11 DEF AccountsInv, UsesSpend
<1>13. TokensAreUsedInTurn'
  <2>1. \A i \in DOMAIN uses : uses[i] < k
    BY <1>2, <1>3 DEF AccountsInv, UsesSpend
  <2> QED BY <1>11, <2>1 DEF AccountsInv, TokensAreUsedInTurn
<1>14. ChangesEndSessions'
  BY <1>7 DEF ChangesEndSessions, Open
<1> QED BY <1>8, <1>9, <1>10, <1>12, <1>13, <1>14 DEF AccountsInv

------------------------------------------------------------------------------
(***************************************************************************)
(* Sessions and passwords.                                                 *)
(***************************************************************************)

\* Steps that leave users, tokens and the history of passwords alone.
LEMMA SessionsMove ==
  ASSUME AccountsInv, NEW t \in Threads, NEW state \in ThreadStates,
         thread' = thread \/ Become(t, state),
         state.pc \in {"idle", "verify"}, state.pc = "verify" => Initialized,
         UNCHANGED <<now, users, tokens, sets, uses>>, Initialized,
         sessions' \in Seq(Sessions), Len(sessions') \in Len(sessions)..MaxSessions,
         ChangesEndSessions'
  PROVE  AccountsInv'
<1>1. /\ thread' \in [Threads -> ThreadStates]
      /\ thread'[t] \in {thread[t], state}
      /\ \A u \in Threads \ {t} : thread'[u] = thread[u]
  BY Becoming DEF AccountsInv, Typed
<1>2. Typed'
  BY <1>1 DEF AccountsInv, Typed
<1>3. DOMAIN sessions \subseteq DOMAIN sessions'
  BY DEF AccountsInv, Typed
<1>4. ReadsStand'
  BY <1>1, <1>3 DEF AccountsInv, ReadsStand, Initialized
<1>5. LastTokenOnly' /\ UsesSpend' /\ TokensAreUsedInTurn'
  BY DEF AccountsInv, LastTokenOnly, UsesSpend, TokensAreUsedInTurn
<1> QED BY <1>2, <1>4, <1>5 DEF AccountsInv

LEMMA OpensKeeps ==
  ASSUME BoundsAssumption, AccountsInv, NEW t \in Threads, LoginOpens(t)
  PROVE  AccountsInv'
<1> DEFINE session == [revoked |-> FALSE, expires |-> thread[t].expires, since |-> sets]
<1>1. /\ Len(sessions) < MaxSessions /\ sessions' = Append(sessions, session)
      /\ Become(t, Idle) /\ UNCHANGED <<now, users, tokens, sets, uses>>
      /\ thread[t].pc = "open"
  BY DEF LoginOpens
<1>2. session \in Sessions /\ session.since = sets
  BY <1>1, ThreadFields DEF Sessions, AccountsInv, Typed
<1> HIDE DEF session
<1>3. /\ sessions' \in Seq(Sessions) /\ Len(sessions') = Len(sessions) + 1
      /\ DOMAIN sessions' = DOMAIN sessions \union {Len(sessions) + 1}
      /\ sessions'[Len(sessions) + 1] = session
      /\ \A s \in DOMAIN sessions : sessions'[s] = sessions[s]
  BY <1>1, <1>2 DEF AccountsInv, Typed
<1>4. ChangesEndSessions'
  BY <1>1, <1>2, <1>3 DEF AccountsInv, ChangesEndSessions, Open
<1>5. Len(sessions') \in Len(sessions)..MaxSessions
  <2>1. Len(sessions) \in Nat /\ MaxSessions \in Nat
    BY DEF AccountsInv, Typed, BoundsAssumption
  <2> QED BY <1>1, <1>3, <2>1
<1> QED
  BY <1>1, <1>3, <1>4, <1>5, SessionsMove, StatesOfThreads
  DEF AccountsInv, ReadsStand, Idle

\* A row of sessions is rewritten, and stays revoked if it was.
LEMMA RowRewritten ==
  ASSUME AccountsInv, NEW s \in DOMAIN sessions, NEW session \in Sessions,
         sessions[s].revoked => session.revoked, session.since = sessions[s].since,
         sessions' = [sessions EXCEPT ![s] = session], sets' = sets
  PROVE  /\ sessions' \in Seq(Sessions) /\ Len(sessions') = Len(sessions)
         /\ Len(sessions') \in Len(sessions)..MaxSessions
         /\ Initialized
         /\ ChangesEndSessions'
<1>1. /\ sessions' \in Seq(Sessions) /\ Len(sessions') = Len(sessions)
      /\ DOMAIN sessions' = DOMAIN sessions /\ sessions'[s] = session
      /\ \A u \in DOMAIN sessions \ {s} : sessions'[u] = sessions[u]
  BY DEF AccountsInv, Typed
<1>2. Len(sessions') \in Len(sessions)..MaxSessions
  BY <1>1 DEF AccountsInv, Typed
<1>3. Initialized
  BY DEF AccountsInv, ReadsStand
<1>4. ChangesEndSessions'
  BY <1>1 DEF AccountsInv, ChangesEndSessions, Open
<1> QED BY <1>1, <1>2, <1>3, <1>4

LEMMA ExtendsKeeps ==
  ASSUME TTLAssumption, BoundsAssumption, AccountsInv, NEW t \in Threads,
         AuthenticateExtends(t)
  PROVE  AccountsInv'
<1> DEFINE s == thread[t].session
           session == [sessions[s] EXCEPT !.expires = thread[t].time + SessionTTL]
           state == IF thread[t].change THEN [pc |-> "verify"] ELSE Idle
<1>1. /\ sessions' = [sessions EXCEPT ![s] = session] /\ Become(t, state)
      /\ thread[t].pc = "extend"
      /\ UNCHANGED <<now, users, tokens, sets, uses>>
  BY DEF AuthenticateExtends
<1>2. s \in DOMAIN sessions /\ thread[t].time \in 0..MaxTime
  BY <1>1, ThreadFields DEF AccountsInv, Typed, ReadsStand
<1>3. sessions[s] \in Sessions
  BY <1>2 DEF AccountsInv, Typed
<1>4. /\ session \in Sessions /\ session.since = sessions[s].since
      /\ session.revoked = sessions[s].revoked
  BY <1>2, <1>3 DEF Sessions, TTLAssumption, BoundsAssumption
<1>5. state \in ThreadStates /\ state.pc \in {"idle", "verify"}
  BY StatesOfThreads DEF Idle
<1> HIDE DEF s, session, state
<1> QED BY <1>1, <1>2, <1>4, <1>5, RowRewritten, SessionsMove

LEMMA LogoutKeeps ==
  ASSUME AccountsInv, NEW t \in Threads, NEW s \in DOMAIN sessions, Logout(t, s)
  PROVE  AccountsInv'
<1> DEFINE session == [sessions[s] EXCEPT !.revoked = TRUE]
<1>1. /\ sessions' = [sessions EXCEPT ![s] = session] /\ thread' = thread
      /\ UNCHANGED <<now, users, tokens, sets, uses>>
  BY DEF Logout
<1>2. sessions[s] \in Sessions
  BY DEF AccountsInv, Typed
<1>3. /\ session \in Sessions /\ session.since = sessions[s].since /\ session.revoked
  BY <1>2 DEF Sessions
<1> HIDE DEF session
<1>4. Idle \in ThreadStates /\ Idle.pc = "idle"
  BY StatesOfThreads DEF Idle
<1> QED BY <1>1, <1>3, <1>4, RowRewritten, SessionsMove

LEMMA ChangeKeeps ==
  ASSUME BoundsAssumption, AccountsInv, NEW t \in Threads, ChangePassword(t)
  PROVE  AccountsInv'
<1> DEFINE user == [users[1] EXCEPT !.password = thread[t].password,
                                    !.session_version = thread[t].version + 1]
<1>1. /\ users' = [users EXCEPT ![1] = user] /\ sessions' = RevokeAll
      /\ sets < MaxVersion /\ sets' = sets + 1 /\ Become(t, Idle)
      /\ UNCHANGED <<now, tokens, uses>> /\ thread[t].pc = "change"
  BY DEF ChangePassword
<1>2. /\ thread[t].password \in Passwords /\ thread[t].version \in 1..(MaxVersion + 1)
      /\ thread[t].version <= sets /\ Initialized
  BY <1>1, ThreadFields DEF AccountsInv, Typed, ReadsStand
<1> HIDE DEF user
<1>3. /\ users' \in Seq(Users) /\ Len(users') = 1
      /\ users'[1].session_version <= sets + 1
  <2>1. thread[t].version \in Nat
    BY <1>2
  <2> QED BY <1>1, <1>2, <2>1, PasswordSet DEF user
<1>7. /\ thread' \in [Threads -> ThreadStates]
      /\ thread'[t] = Idle
      /\ \A u \in Threads \ {t} : thread'[u] = thread[u]
  BY <1>1, Becoming, StatesOfThreads DEF AccountsInv, Typed
<1>8. /\ sessions' \in Seq(Sessions) /\ Len(sessions') = Len(sessions)
      /\ DOMAIN sessions' = DOMAIN sessions
      /\ \A s \in DOMAIN sessions' : sessions'[s].revoked = TRUE
  BY <1>1, AllRevoked DEF AccountsInv
<1>9. Typed'
  BY <1>1, <1>3, <1>7, <1>8 DEF AccountsInv, Typed, BoundsAssumption
<1>10. ReadsStand'
  <2>1. Initialized' /\ users'[1].session_version <= sets' /\ sets <= sets'
    BY <1>1, <1>3 DEF Initialized, AccountsInv, Typed
  <2>2. \A u \in Threads : thread[u].pc = "change" => thread[u].version <= sets'
    BY <1>1, ThreadFields DEF AccountsInv, Typed, ReadsStand
  <2> QED BY <1>1, <1>7, <1>8, <2>1, <2>2 DEF AccountsInv, ReadsStand, Idle
<1>11. LastTokenOnly' /\ UsesSpend' /\ TokensAreUsedInTurn'
  BY <1>1 DEF AccountsInv, LastTokenOnly, UsesSpend, TokensAreUsedInTurn
<1>12. ChangesEndSessions'
  BY <1>8 DEF ChangesEndSessions, Open
<1> QED BY <1>9, <1>10, <1>11, <1>12 DEF AccountsInv

------------------------------------------------------------------------------
(***************************************************************************)
(* The theorems.                                                           *)
(***************************************************************************)

LEMMA InitAccounts == ASSUME BoundsAssumption, Init PROVE AccountsInv
<1>1. Typed
  BY StatesOfThreads DEF Init, Typed, BoundsAssumption
<1>2. ReadsStand
  BY DEF Init, ReadsStand, Initialized, Idle
<1> QED
  BY <1>1, <1>2 DEF Init, AccountsInv, LastTokenOnly, UsesSpend, TokensAreUsedInTurn,
                    ChangesEndSessions, Open

LEMMA NextAccounts ==
  ASSUME TTLAssumption, BoundsAssumption, AccountsInv, [Next]_vars
  PROVE  AccountsInv'
<1>1. CASE \E t \in Threads :
             \/ BootstrapStatus(t) \/ ResetSetupToken(t)
             \/ \E k \in DOMAIN tokens, p \in Passwords : Setup(t, k, p)
             \/ ConsumeRefused(t) \/ \E p \in Passwords : Login(t, p)
             \/ LoginVerifies(t) \/ ChangeVerifies(t)
             \/ \E s \in DOMAIN sessions : AuthenticateReads(t, s)
  BY <1>1, NextMoves
<1>2. CASE \E t \in Threads : RotateSetupToken(t)
  BY <1>2, RotateKeeps
<1>3. CASE \E t \in Threads : ConsumeSetupToken(t)
  BY <1>3, ConsumeKeeps
<1>4. CASE \E t \in Threads : LoginOpens(t)
  BY <1>4, OpensKeeps
<1>5. CASE \E t \in Threads : AuthenticateExtends(t)
  BY <1>5, ExtendsKeeps
<1>6. CASE \E t \in Threads : \E s \in DOMAIN sessions : Logout(t, s)
  BY <1>6, LogoutKeeps
<1>7. CASE \E t \in Threads : ChangePassword(t)
  BY <1>7, ChangeKeeps
<1>8. CASE Tick \/ UNCHANGED vars
  <2>1. now' \in 0..MaxTime /\ UNCHANGED <<users, tokens, sessions, thread, sets, uses>>
    BY <1>8 DEF Tick, vars, AccountsInv, Typed, BoundsAssumption
  <2>2. Typed'
    BY <2>1 DEF AccountsInv, Typed
  <2>3. ReadsStand'
    BY <2>1 DEF AccountsInv, ReadsStand, Initialized
  <2> QED
    BY <2>1, <2>2, <2>3 DEF AccountsInv, LastTokenOnly, UsesSpend, TokensAreUsedInTurn,
                            ChangesEndSessions, Open
<1> QED BY <1>1, <1>2, <1>3, <1>4, <1>5, <1>6, <1>7, <1>8 DEF Next

\* One token at most can be used.
LEMMA OneTokenLeft ==
  ASSUME AccountsInv
  PROVE  Cardinality({k \in DOMAIN tokens : ~tokens[k].used}) <= 1
<1> DEFINE left == {k \in DOMAIN tokens : ~tokens[k].used}
<1>1. left \subseteq {Len(tokens)}
  BY DEF AccountsInv, Typed, LastTokenOnly
<1>2. IsFiniteSet({Len(tokens)}) /\ Cardinality({Len(tokens)}) = 1
  BY FS_Singleton
<1> HIDE DEF left
<1>3. Cardinality(left) <= 1
  BY <1>1, <1>2, FS_Subset, FS_CardinalityType
<1> QED BY <1>3 DEF left

\* Rows and threads are of the kinds auth.py makes, with one administrator and
\* one token that can be used at most, whatever rotates and sets up tokens at once.
THEOREM AccountsTyped ==
  ASSUME TTLAssumption, BoundsAssumption
  PROVE  Spec => []TypeOK
<1>1. AccountsInv => TypeOK
  BY OneTokenLeft DEF AccountsInv, Typed, TypeOK
<1> QED BY <1>1, InitAccounts, NextAccounts, PTL DEF Spec

\* A token sets a password once, and tokens are used in the order of their issue.
THEOREM TokensInTurn ==
  ASSUME TTLAssumption, BoundsAssumption
  PROVE  Spec => []TokensAreUsedInTurn
<1>1. AccountsInv => TokensAreUsedInTurn
  BY DEF AccountsInv
<1> QED BY <1>1, InitAccounts, NextAccounts, PTL DEF Spec

\* A session that is open was opened after the last change of the password.
THEOREM PasswordChangesEndSessions ==
  ASSUME TTLAssumption, BoundsAssumption
  PROVE  Spec => []ChangesEndSessions
<1>1. AccountsInv => ChangesEndSessions
  BY DEF AccountsInv
<1> QED BY <1>1, InitAccounts, NextAccounts, PTL DEF Spec
==============================================================================
