------------------------------ MODULE Parts_proofs ------------------------------
(***************************************************************************)
(* Proofs of the safety properties of modules that MCRequests, MCSources   *)
(* and MCProgress put together, for every value of their constants.  Each  *)
(* module is an instance of its own, and each theorem is about one of      *)
(* them: they use the same names of constants and variables, and nothing   *)
(* is said of two of them at once.                                         *)
(***************************************************************************)
EXTENDS Integers, Sequences, FiniteSets, ServedAnswers, PlanTable, SelectionTable, TreeTable,
        WatchTable, DatabaseFile, Ordering, FiniteSetTheorems, FunctionTheorems,
        SequenceTheorems, WellFoundedInduction, TLAPS

CONSTANTS
  Threads, MaxFaults,
  NoThread, Runs, Sources, Keys, Interval, Retries, Backoff, MaxTime, MaxAnswers,
  MaxClients,
  Times, SourceSets, Callers, Reloader, MaxChanges, MaxReloads,
  Rankings, Evidence, RuleSets,
  Names, Paths, MaxDepth, MaxSize,
  Scheduler, Users, NumKeys, Coded, Namespaces, Decisions, Offered, MaxTasks, MaxMagnets,
  MaxRuns,
  Processes, Keep, MaxWrites

VARIABLES
  now, client, holder, last, ttlCache, health,
  tracked, built,
  items, merged,
  tree,
  automation, tasks, runs, decided,
  work, process

Http == INSTANCE ProviderHttp
Plan == INSTANCE ProfileScheduling
Chosen == INSTANCE Selection
Remote == INSTANCE RemoteTree
List == INSTANCE Watchlist
Database == INSTANCE Migration

------------------------------------------------------------------------------
(***************************************************************************)
(* The HTTP client.  The invariant.                                        *)
(***************************************************************************)

HttpAssumptions ==
  Http!HolderAssumption /\ Http!TimesAssumption /\ Http!BoundsAssumption

\* Where a thread stands, and the run, the client and the source that it knows.
AskingStates ==
  [pc : {"call", "attempt", "answer"}, run : Runs, client : Http!Clients,
   source : Sources, key : Keys, attempt : Nat, from : Int]
HttpStates ==
  {Http!Idle} \union AskingStates
  \union [pc : {"run"}, run : Runs, client : Http!Clients]
  \union [pc : {"source", "failed"}, run : Runs, client : Http!Clients, source : Sources]
  \union [pc : {"report"}, run : Runs, client : Http!Clients, source : Sources,
          checked : 0..MaxTime, ok : BOOLEAN]

Cached(c) ==
  /\ DOMAIN runCache[c] \subseteq Runs \X Keys
  /\ \A k \in DOMAIN runCache[c] : runCache[c][k] \in Http!Answers
  /\ DOMAIN ttlCache[c] \subseteq Keys
  /\ \A k \in DOMAIN ttlCache[c] : ttlCache[c][k] \in [until : Nat, answer : Http!Answers]

HttpTyped ==
  /\ now \in 0..MaxTime /\ client \in Http!Clients
  /\ holder \in [Http!Clients -> Threads \union {NoThread}]
  /\ last \in [Http!Clients -> 0..MaxTime \union {Http!Never}]
  /\ DOMAIN runCache = Http!Clients /\ DOMAIN ttlCache = Http!Clients
  /\ \A c \in Http!Clients : Cached(c)
  /\ thread \in [Threads -> HttpStates]
  /\ ended \subseteq Runs /\ unfinished \subseteq ended
  /\ health \in [Sources -> [checked : 0..MaxTime \union {Http!Never}, failing : BOOLEAN]]
  /\ answers \in 0..MaxAnswers

\* The lock of a client is with the thread that asks over it.
Networking(t) == thread[t].pc \in {"attempt", "answer"}
LockIsHeld ==
  /\ \A t \in Threads : Networking(t) => holder[thread[t].client] = t
  /\ \A c \in Http!Clients :
       holder[c] # NoThread => Networking(holder[c]) /\ thread[holder[c]].client = c

\* A run is with one thread, until it ends.
Busy(t) == thread[t].pc # "idle"
RunsAreOwn ==
  \A t \in Threads : Busy(t) =>
    /\ thread[t].run \notin ended
    /\ \A u \in Threads \ {t} : Busy(u) => thread[u].run # thread[t].run

\* What a run has been given, the client of its thread keeps for it until it ends,
Kept(c, x) ==
  <<x.run, x.key>> \in DOMAIN runCache[c] /\ runCache[c][<<x.run, x.key>>] = x.answer
ServedIsKept ==
  \A x \in served :
    \/ x.run \in ended
    \/ \E t \in Threads : Busy(t) /\ thread[t].run = x.run /\ Kept(thread[t].client, x)

\* ...and nothing is kept that has not been given.
KeptIsServed ==
  \A c \in Http!Clients : \A k \in DOMAIN runCache[c] :
    \E x \in served : x.run = k[1] /\ x.key = k[2] /\ x.answer = runCache[c][k]

\* What was missing when a request took the lock is missing until it is answered.
MissLasts ==
  \A t \in Threads : Networking(t) =>
    <<thread[t].run, thread[t].key>> \notin DOMAIN runCache[thread[t].client]

\* Answers stay alive for the time to live, from when they were received.
AnswersExpire ==
  \A c \in Http!Clients : \A k \in DOMAIN ttlCache[c] :
    ttlCache[c][k].until = ttlCache[c][k].answer.received + TTL

HttpInv ==
  /\ HttpTyped /\ LockIsHeld /\ RunsAreOwn /\ ServedIsKept /\ KeptIsServed /\ MissLasts
  /\ AnswersExpire /\ RunSeesOneAnswer

------------------------------------------------------------------------------
(***************************************************************************)
(* The HTTP client.  Threads.                                              *)
(***************************************************************************)

LEMMA HttpFields ==
  ASSUME thread \in [Threads -> HttpStates], NEW t \in Threads
  PROVE  /\ thread[t].pc \in {"idle", "run", "source", "failed", "report", "call", "attempt",
                              "answer"}
         /\ thread[t].pc = "idle" <=> thread[t] = Http!Idle
         /\ Busy(t) => thread[t].run \in Runs /\ thread[t].client \in Http!Clients
         /\ thread[t].pc \in {"source", "failed", "report", "call", "attempt", "answer"} =>
              thread[t].source \in Sources
         /\ thread[t].pc \in {"call", "attempt", "answer"} => thread[t] \in AskingStates
         /\ thread[t].pc = "report" =>
              thread[t].checked \in 0..MaxTime /\ thread[t].ok \in BOOLEAN
BY DEF HttpStates, AskingStates, Http!Idle, Busy

LEMMA AskingFields ==
  ASSUME NEW state \in AskingStates
  PROVE  /\ state.pc \in {"call", "attempt", "answer"} /\ state.run \in Runs
         /\ state.client \in Http!Clients /\ state.source \in Sources
         /\ state.key \in Keys /\ state.attempt \in Nat /\ state.from \in Int
         /\ \A pc \in {"call", "attempt", "answer"} :
              /\ [state EXCEPT !.pc = pc] \in AskingStates
              /\ [state EXCEPT !.pc = pc].pc = pc
              /\ [state EXCEPT !.pc = pc].run = state.run
              /\ [state EXCEPT !.pc = pc].client = state.client
              /\ [state EXCEPT !.pc = pc].key = state.key
BY DEF AskingStates

LEMMA HttpBecomes ==
  ASSUME thread \in [Threads -> HttpStates], NEW t \in Threads,
         NEW state \in HttpStates, Http!Become(t, state)
  PROVE  /\ thread' \in [Threads -> HttpStates]
         /\ thread'[t] = state
         /\ \A u \in Threads \ {t} : thread'[u] = thread[u]
BY DEF Http!Become

\* A thread that goes on with its run, and gives it nothing, disturbs no cache.
LEMMA HttpGoesOn ==
  ASSUME HttpInv, NEW t \in Threads, Busy(t), NEW state \in HttpStates,
         Http!Become(t, state), state.pc # "idle",
         state.run = thread[t].run, state.client = thread[t].client,
         state.pc \in {"attempt", "answer"} =>
           \/ Networking(t) /\ state.key = thread[t].key
           \/ <<state.run, state.key>> \notin DOMAIN runCache[state.client],
         UNCHANGED <<runCache, served, ended>>
  PROVE  RunsAreOwn' /\ ServedIsKept' /\ KeptIsServed' /\ MissLasts' /\ RunSeesOneAnswer'
<1>1. /\ thread'[t] = state
      /\ \A u \in Threads \ {t} : thread'[u] = thread[u]
  BY HttpBecomes DEF HttpInv, HttpTyped
<1>2. \A u \in Threads : /\ Busy(u)' <=> Busy(u)
                         /\ Busy(u) => /\ thread'[u].run = thread[u].run
                                       /\ thread'[u].client = thread[u].client
  BY <1>1 DEF Busy
<1>3. RunsAreOwn'
  BY <1>2 DEF HttpInv, RunsAreOwn
<1>4. ServedIsKept'
  <2>1. \A c, x : Kept(c, x)' <=> Kept(c, x)
    BY DEF Kept
  <2> QED BY <1>2, <2>1 DEF HttpInv, ServedIsKept
<1>5. KeptIsServed'
  BY DEF HttpInv, KeptIsServed
<1>6. MissLasts'
  BY <1>1 DEF HttpInv, MissLasts, Networking
<1>7. RunSeesOneAnswer'
  BY DEF HttpInv, RunSeesOneAnswer, InTime
<1> QED BY <1>3, <1>4, <1>5, <1>6, <1>7

\* A thread that neither takes nor gives a lock leaves the locks as they are.
LEMMA LocksStay ==
  ASSUME HttpInv, NEW t \in Threads, NEW state \in HttpStates, Http!Become(t, state),
         state.pc \in {"attempt", "answer"} <=> Networking(t),
         Networking(t) => state.client = thread[t].client,
         holder' = holder
  PROVE  LockIsHeld'
<1>1. /\ thread'[t] = state
      /\ \A u \in Threads \ {t} : thread'[u] = thread[u]
  BY HttpBecomes DEF HttpInv, HttpTyped
<1>2. \A u \in Threads : /\ Networking(u)' <=> Networking(u)
                         /\ Networking(u) => thread'[u].client = thread[u].client
  BY <1>1 DEF Networking
<1>3. \A c \in Http!Clients : holder[c] # NoThread => holder[c] \in Threads
  BY DEF HttpInv, HttpTyped
<1> QED BY <1>2, <1>3 DEF HttpInv, LockIsHeld

\* A thread that gives its lock back.
LEMMA LockIsReleased ==
  ASSUME HttpAssumptions, HttpInv, NEW t \in Threads, Networking(t), NEW state \in HttpStates,
         Http!Become(t, state), state.pc \notin {"attempt", "answer"}, Http!Release(t)
  PROVE  LockIsHeld' /\ holder' \in [Http!Clients -> Threads \union {NoThread}]
<1>1. /\ thread'[t] = state
      /\ \A u \in Threads \ {t} : thread'[u] = thread[u]
  BY HttpBecomes DEF HttpInv, HttpTyped
<1>2. thread[t].client \in Http!Clients /\ holder[thread[t].client] = t
  BY HttpFields DEF HttpInv, HttpTyped, LockIsHeld, Busy, Networking
<1>3. /\ holder' \in [Http!Clients -> Threads \union {NoThread}]
      /\ holder'[thread[t].client] = NoThread
      /\ \A c \in Http!Clients \ {thread[t].client} : holder'[c] = holder[c]
  BY <1>2 DEF HttpInv, HttpTyped, Http!Release
<1>4. \A u \in Threads \ {t} : Networking(u) => thread[u].client # thread[t].client
  BY <1>2 DEF HttpInv, LockIsHeld
<1>5. ~Networking(t)' /\ \A u \in Threads \ {t} : Networking(u)' <=> Networking(u)
  BY <1>1 DEF Networking
<1>6. NoThread \notin Threads
  BY DEF HttpAssumptions, Http!HolderAssumption
<1>7. ASSUME NEW u \in Threads, Networking(u)' PROVE holder'[thread'[u].client] = u
  <2>1. u # t /\ Networking(u) /\ thread'[u] = thread[u] /\ thread[u].client \in Http!Clients
    BY <1>1, <1>5, <1>7, HttpFields DEF HttpInv, HttpTyped, Busy, Networking
  <2> QED BY <1>3, <1>4, <2>1 DEF HttpInv, LockIsHeld
<1>8. ASSUME NEW c \in Http!Clients, holder'[c] # NoThread
      PROVE  Networking(holder[c])' /\ thread'[holder'[c]].client = c /\ holder'[c] = holder[c]
  <2>1. c # thread[t].client /\ holder'[c] = holder[c] /\ holder[c] \in Threads
    BY <1>3, <1>8 DEF HttpInv, HttpTyped
  <2>2. Networking(holder[c]) /\ thread[holder[c]].client = c
    BY <1>8, <2>1 DEF HttpInv, LockIsHeld
  <2>3. holder[c] # t
    BY <2>1, <2>2
  <2> QED BY <1>1, <1>5, <2>1, <2>2, <2>3 DEF Networking
<1>9. \A c \in Http!Clients : holder'[c] # NoThread =>
        thread'[holder'[c]].pc \in {"attempt", "answer"} /\ thread'[holder'[c]].client = c
  BY <1>8 DEF Networking
<1> QED BY <1>3, <1>7, <1>9 DEF LockIsHeld, Networking

------------------------------------------------------------------------------
(***************************************************************************)
(* The HTTP client.  Runs.                                                 *)
(***************************************************************************)

LEMMA StartsRun ==
  ASSUME HttpInv, NEW t \in Threads, NEW r \in Runs, Http!StartRun(t, r)
  PROVE  HttpInv'
<1> DEFINE state == [pc |-> "run", run |-> r, client |-> client]
<1>1. state \in HttpStates /\ state.pc = "run" /\ state.run = r
  BY DEF HttpInv, HttpTyped, HttpStates
<1> HIDE DEF state
<1>2. /\ thread' \in [Threads -> HttpStates] /\ thread'[t] = state
      /\ \A u \in Threads \ {t} : thread'[u] = thread[u]
      /\ Http!Become(t, state)
  BY <1>1, HttpBecomes DEF HttpInv, HttpTyped, Http!StartRun, state
<1>3. thread[t].pc = "idle" /\ thread[t] = Http!Idle
  BY DEF Http!StartRun, Http!Idle
<1>4. UNCHANGED <<now, client, holder, last, runCache, ttlCache, ended, health, answers,
                  unfinished, served>>
  BY DEF Http!StartRun, Http!client_
<1>5. HttpTyped'
  BY <1>2, <1>4 DEF HttpInv, HttpTyped, Cached
<1>6. LockIsHeld'
  BY <1>1, <1>2, <1>3, <1>4, LocksStay DEF Networking
<1>7. r \notin ended /\ \A u \in Threads \ {t} : Busy(u) => thread[u].run # r
  <2>1. \A u \in Threads : thread[u] # Http!Idle => thread[u].run # r
    BY DEF Http!StartRun
  <2>2. \A u \in Threads : Busy(u) => thread[u] # Http!Idle
    BY DEF Busy, Http!Idle
  <2> QED BY <2>1, <2>2 DEF Http!StartRun
<1>8. RunsAreOwn'
  BY <1>1, <1>2, <1>4, <1>7 DEF HttpInv, RunsAreOwn, Busy
<1>9. ServedIsKept'
  <2>1. \A c, x : Kept(c, x)' <=> Kept(c, x)
    BY <1>4 DEF Kept
  <2>2. \A u \in Threads : Busy(u) => Busy(u)' /\ thread'[u] = thread[u]
    BY <1>2, <1>3 DEF Busy
  <2> QED BY <1>4, <2>1, <2>2 DEF HttpInv, ServedIsKept
<1>10. MissLasts'
  BY <1>1, <1>2, <1>4 DEF HttpInv, MissLasts, Networking
<1>11. KeptIsServed' /\ AnswersExpire' /\ RunSeesOneAnswer'
  BY <1>4 DEF HttpInv, KeptIsServed, AnswersExpire, RunSeesOneAnswer, InTime
<1> QED BY <1>5, <1>6, <1>8, <1>9, <1>10, <1>11 DEF HttpInv

\* A run ends, and what its client has kept for it goes, or stays for no one.
LEMMA EndsRun ==
  ASSUME HttpInv, NEW t \in Threads, thread[t].pc = "run", Http!Become(t, Http!Idle),
         ended' = ended \union {thread[t].run},
         DOMAIN runCache' = Http!Clients,
         \A c \in Http!Clients :
           /\ DOMAIN runCache'[c] \subseteq DOMAIN runCache[c]
           /\ \A k \in DOMAIN runCache[c] :
                k[1] # thread[t].run => k \in DOMAIN runCache'[c]
           /\ \A k \in DOMAIN runCache'[c] : runCache'[c][k] = runCache[c][k],
         unfinished' \subseteq ended',
         UNCHANGED <<now, client, holder, last, ttlCache, health, answers, served>>
  PROVE  HttpInv'
<1>1. Http!Idle \in HttpStates /\ Http!Idle.pc = "idle"
  BY DEF HttpStates, Http!Idle
<1>2. /\ thread' \in [Threads -> HttpStates] /\ thread'[t] = Http!Idle
      /\ \A u \in Threads \ {t} : thread'[u] = thread[u]
  BY <1>1, HttpBecomes DEF HttpInv, HttpTyped
<1>3. thread[t].run \in Runs /\ Busy(t)
  BY HttpFields DEF HttpInv, HttpTyped, Busy
<1>4. \A c \in Http!Clients : Cached(c)'
  BY DEF HttpInv, HttpTyped, Cached
<1>5. HttpTyped'
  BY <1>2, <1>3, <1>4 DEF HttpInv, HttpTyped
<1>6. LockIsHeld'
  BY <1>1, LocksStay DEF Networking
<1>7. ~Busy(t)' /\ \A u \in Threads \ {t} : /\ Busy(u)' <=> Busy(u)
                                            /\ Busy(u) => thread[u].run # thread[t].run
  BY <1>1, <1>2, <1>3 DEF Busy, HttpInv, RunsAreOwn
<1>8. RunsAreOwn'
  BY <1>2, <1>7 DEF HttpInv, RunsAreOwn
<1>9. ServedIsKept'
  <2>1. SUFFICES ASSUME NEW x \in served, x.run \notin ended'
        PROVE  \E u \in Threads : Busy(u)' /\ thread'[u].run = x.run
                                  /\ Kept(thread[u].client, x)'
                                  /\ thread'[u].client = thread[u].client
    BY DEF ServedIsKept, Kept
  <2>2. PICK u \in Threads : Busy(u) /\ thread[u].run = x.run /\ Kept(thread[u].client, x)
    BY <2>1 DEF HttpInv, ServedIsKept
  <2>3. u # t /\ thread[u].client \in Http!Clients
    BY <2>1, <2>2, HttpFields DEF HttpInv, HttpTyped
  <2>4. <<x.run, x.key>>[1] # thread[t].run
    BY <2>1
  <2>5. Kept(thread[u].client, x)'
    <3> DEFINE c == thread[u].client
               k == <<x.run, x.key>>
    <3>1. c \in Http!Clients /\ k \in DOMAIN runCache[c] /\ k[1] # thread[t].run
      BY <2>2, <2>3, <2>4 DEF Kept
    <3> HIDE DEF c, k
    <3>2. k \in DOMAIN runCache'[c] /\ runCache'[c][k] = runCache[c][k]
      BY <3>1
    <3>3. thread'[u] = thread[u]
      BY <1>2, <2>3
    <3> QED BY <2>2, <3>2, <3>3 DEF Kept, c, k
  <2> QED BY <1>2, <1>7, <2>2, <2>3, <2>5
<1>10. KeptIsServed'
  BY DEF HttpInv, KeptIsServed
<1>11. MissLasts'
  <2>1. SUFFICES ASSUME NEW u \in Threads, Networking(u)'
        PROVE  <<thread'[u].run, thread'[u].key>> \notin DOMAIN runCache'[thread'[u].client]
    BY DEF MissLasts
  <2>2. u # t /\ thread'[u] = thread[u] /\ Networking(u)
    BY <1>1, <1>2, <2>1 DEF Networking
  <2>3. thread[u].client \in Http!Clients
    BY <2>2, HttpFields DEF HttpInv, HttpTyped, Busy, Networking
  <2> QED BY <2>2, <2>3 DEF HttpInv, MissLasts
<1>12. AnswersExpire' /\ RunSeesOneAnswer'
  BY DEF HttpInv, AnswersExpire, RunSeesOneAnswer, InTime
<1> QED BY <1>5, <1>6, <1>8, <1>9, <1>10, <1>11, <1>12 DEF HttpInv

LEMMA FinishesRun ==
  ASSUME HttpAssumptions, HttpInv, NEW t \in Threads, Http!FinishRun(t) \/ Http!FinishFails(t)
  PROVE  HttpInv'
<1>1. /\ thread[t].pc = "run" /\ Http!Become(t, Http!Idle)
      /\ ended' = ended \union {thread[t].run}
      /\ UNCHANGED <<now, client, holder, last, ttlCache, health, answers, served>>
  BY DEF Http!FinishRun, Http!FinishFails, Http!client_
<1>2. unfinished' \subseteq ended'
  BY DEF HttpInv, HttpTyped, Http!FinishRun, Http!FinishFails
<1>3. thread[t].client \in Http!Clients /\ DOMAIN runCache = Http!Clients
  BY <1>1, HttpFields DEF HttpInv, HttpTyped, Busy
<1>4. CASE Http!FinishRun(t)
  <2> DEFINE c == thread[t].client
             left == {k \in DOMAIN runCache[c] : k[1] # thread[t].run}
  <2>1. runCache' = [runCache EXCEPT ![c] = [k \in left |-> runCache[c][k]]]
    BY <1>4 DEF Http!FinishRun
  <2>2. /\ DOMAIN runCache' = Http!Clients
        /\ runCache'[c] = [k \in left |-> runCache[c][k]]
        /\ \A d \in Http!Clients \ {c} : runCache'[d] = runCache[d]
    BY <1>3, <2>1
  <2>3. \A d \in Http!Clients :
          /\ DOMAIN runCache'[d] \subseteq DOMAIN runCache[d]
          /\ \A k \in DOMAIN runCache[d] : k[1] # thread[t].run => k \in DOMAIN runCache'[d]
          /\ \A k \in DOMAIN runCache'[d] : runCache'[d][k] = runCache[d][k]
    <3>1. ASSUME NEW d \in Http!Clients, d # c
          PROVE  runCache'[d] = runCache[d]
      BY <2>2, <3>1
    <3>2. DOMAIN runCache'[c] = left /\ \A k \in left : runCache'[c][k] = runCache[c][k]
      BY <2>2
    <3> QED BY <3>1, <3>2
  <2> QED BY <1>1, <1>2, <2>2, <2>3, EndsRun
<1>5. CASE Http!FinishFails(t)
  <2>1. runCache' = runCache
    BY <1>5 DEF Http!FinishFails, Http!client_
  <2> QED BY <1>1, <1>2, <1>3, <2>1, EndsRun
<1> QED BY <1>4, <1>5

\* Steps of a run that leave the client alone.
LEMMA RunGoesOn ==
  ASSUME HttpAssumptions, HttpInv, NEW t \in Threads, NEW state \in HttpStates,
         Http!Become(t, state), Busy(t), state.pc # "idle",
         state.run = thread[t].run, state.client = thread[t].client,
         state.pc \notin {"attempt", "answer"}, ~Networking(t),
         health' \in [Sources -> [checked : 0..MaxTime \union {Http!Never}, failing : BOOLEAN]],
         UNCHANGED <<now, Http!client_, ended, answers, unfinished, served>>
  PROVE  HttpInv'
<1>1. UNCHANGED <<now, client, holder, last, runCache, ttlCache, ended, answers, unfinished, served>>
  BY DEF Http!client_
<1>2. thread' \in [Threads -> HttpStates]
  BY HttpBecomes DEF HttpInv, HttpTyped
<1>3. HttpTyped'
  BY <1>1, <1>2 DEF HttpInv, HttpTyped, Cached
<1>4. LockIsHeld'
  BY <1>1, LocksStay
<1>5. RunsAreOwn' /\ ServedIsKept' /\ KeptIsServed' /\ MissLasts' /\ RunSeesOneAnswer'
  BY <1>1, HttpGoesOn
<1>6. AnswersExpire'
  BY <1>1 DEF HttpInv, AnswersExpire
<1> QED BY <1>3, <1>4, <1>5, <1>6 DEF HttpInv

LEMMA RunSteps ==
  ASSUME HttpAssumptions, HttpInv, NEW t \in Threads,
         \/ \E s \in Sources : Http!Operation(t, s)
         \/ \E k \in Keys : Http!Request(t, k)
         \/ Http!OperationEnds(t) \/ Http!SourceFails(t) \/ Http!Report(t)
  PROVE  HttpInv'
<1> USE DEF Busy, Networking
<1>1. /\ thread \in [Threads -> HttpStates]
      /\ now \in 0..MaxTime /\ MaxTime \in Nat
      /\ health \in [Sources -> [checked : 0..MaxTime \union {Http!Never}, failing : BOOLEAN]]
  BY DEF HttpInv, HttpTyped, HttpAssumptions, Http!BoundsAssumption
<1>2. CASE \E s \in Sources : Http!Operation(t, s)
  <2>1. PICK s \in Sources : Http!Operation(t, s)
    BY <1>2
  <2> DEFINE state == [pc |-> "source", run |-> thread[t].run, client |-> thread[t].client,
                       source |-> s]
  <2>2. thread[t].pc = "run" /\ Http!Become(t, state)
        /\ UNCHANGED <<now, Http!client_, ended, health, answers, unfinished, served>>
    BY <2>1 DEF Http!Operation
  <2>3. state \in HttpStates
    BY <1>1, <2>2, HttpFields DEF HttpStates
  <2> QED BY <1>1, <2>2, <2>3, RunGoesOn
<1>3. CASE \E k \in Keys : Http!Request(t, k)
  <2>1. PICK k \in Keys : Http!Request(t, k)
    BY <1>3
  <2> DEFINE state == Http!Asking(t, "call", k, 0, now)
  <2>2. thread[t].pc = "source" /\ Http!Become(t, state)
        /\ UNCHANGED <<now, Http!client_, ended, health, answers, unfinished, served>>
    BY <2>1 DEF Http!Request
  <2>3. state \in HttpStates /\ state.pc = "call" /\ state.run = thread[t].run
        /\ state.client = thread[t].client
    BY <1>1, <2>2, HttpFields DEF HttpStates, AskingStates, Http!Asking
  <2> HIDE DEF state
  <2> QED BY <1>1, <2>2, <2>3, RunGoesOn
<1>4. CASE Http!OperationEnds(t)
  <2>1. PICK ok \in BOOLEAN :
          Http!Become(t, [pc |-> "report", run |-> thread[t].run, client |-> thread[t].client,
                          source |-> thread[t].source, checked |-> now, ok |-> ok])
    BY <1>4 DEF Http!OperationEnds
  <2> DEFINE state == [pc |-> "report", run |-> thread[t].run, client |-> thread[t].client,
                       source |-> thread[t].source, checked |-> now, ok |-> ok]
  <2>2. thread[t].pc = "source"
        /\ UNCHANGED <<now, Http!client_, ended, health, answers, unfinished, served>>
    BY <1>4 DEF Http!OperationEnds
  <2>3. state \in HttpStates
    BY <1>1, <2>2, HttpFields DEF HttpStates
  <2> QED BY <1>1, <2>1, <2>2, <2>3, RunGoesOn
<1>5. CASE Http!SourceFails(t)
  <2> DEFINE state == [pc |-> "report", run |-> thread[t].run, client |-> thread[t].client,
                       source |-> thread[t].source, checked |-> now, ok |-> FALSE]
  <2>1. thread[t].pc = "failed" /\ Http!Become(t, state)
        /\ UNCHANGED <<now, Http!client_, ended, health, answers, unfinished, served>>
    BY <1>5 DEF Http!SourceFails
  <2>2. state \in HttpStates
    BY <1>1, <2>1, HttpFields DEF HttpStates
  <2> QED BY <1>1, <2>1, <2>2, RunGoesOn
<1>6. CASE Http!Report(t)
  <2> DEFINE state == [pc |-> "run", run |-> thread[t].run, client |-> thread[t].client]
  <2>1. thread[t].pc = "report" /\ Http!Become(t, state)
        /\ UNCHANGED <<now, Http!client_, ended, answers, unfinished, served>>
    BY <1>6 DEF Http!Report
  <2>2. state \in HttpStates
    BY <1>1, <2>1, HttpFields DEF HttpStates
  <2>3. /\ thread[t].source \in Sources /\ thread[t].checked \in 0..MaxTime
        /\ (~thread[t].ok) \in BOOLEAN
    BY <1>1, <2>1, HttpFields
  <2>4. health' \in [Sources -> [checked : 0..MaxTime \union {Http!Never}, failing : BOOLEAN]]
    BY <1>1, <1>6, <2>3 DEF Http!Report
  <2> QED BY <1>1, <2>1, <2>2, <2>4, RunGoesOn
<1> QED BY <1>2, <1>3, <1>4, <1>5, <1>6

------------------------------------------------------------------------------
(***************************************************************************)
(* The HTTP client.  Requests.                                             *)
(***************************************************************************)

\* What one entry more does to a cache.
LEMMA Updated ==
  ASSUME NEW f, NEW x, NEW y
  PROVE  /\ DOMAIN Http!Update(f, x, y) = DOMAIN f \union {x}
         /\ Http!Update(f, x, y)[x] = y
         /\ \A z \in DOMAIN f \ {x} : Http!Update(f, x, y)[z] = f[z]
BY DEF Http!Update

\* The answer a run gets is the one it has had, or the first, and then in time.
LEMMA GivesAnswer ==
  ASSUME HttpInv, NEW t \in Threads, thread[t] \in AskingStates, NEW answer \in Http!Answers,
         NEW state \in HttpStates, Http!Become(t, state), state.pc = "source",
         state.run = thread[t].run, state.client = thread[t].client,
         Http!Serve(t, thread[t].key, answer), ended' = ended,
         LET c == thread[t].client
             k == <<thread[t].run, thread[t].key>>
         IN  \/ /\ k \in DOMAIN runCache[c] /\ runCache[c][k] = answer
                /\ runCache' = runCache
             \/ /\ k \notin DOMAIN runCache[c]
                /\ runCache' = [runCache EXCEPT ![c] = Http!Update(@, k, answer)]
                /\ now = answer.received \/ now < answer.received + TTL
  PROVE  /\ RunsAreOwn' /\ ServedIsKept' /\ KeptIsServed' /\ MissLasts' /\ RunSeesOneAnswer'
         /\ DOMAIN runCache' = Http!Clients
         /\ \A c \in Http!Clients :
              /\ DOMAIN runCache'[c] \subseteq Runs \X Keys
              /\ \A k \in DOMAIN runCache'[c] : runCache'[c][k] \in Http!Answers
<1> DEFINE c == thread[t].client
           k == <<thread[t].run, thread[t].key>>
           new == [run |-> thread[t].run, key |-> thread[t].key, answer |-> answer, at |-> now]
<1>1. /\ thread'[t] = state
      /\ \A u \in Threads \ {t} : thread'[u] = thread[u]
  BY HttpBecomes DEF HttpInv, HttpTyped
<1>2. /\ c \in Http!Clients /\ Busy(t) /\ DOMAIN runCache = Http!Clients
      /\ k \in Runs \X Keys
  BY AskingFields DEF HttpInv, HttpTyped, Busy
<1>3. /\ served' = served \union {new}
      /\ new.run = thread[t].run /\ new.key = thread[t].key /\ new.answer = answer
      /\ new.at = now
  BY DEF Http!Serve
<1> HIDE DEF new
\* The cache of the client holds the answer, and all that it held before.
<1>4. /\ DOMAIN runCache' = Http!Clients
      /\ k \in DOMAIN runCache'[c] /\ runCache'[c][k] = answer
      /\ \A d \in Http!Clients : \A l \in DOMAIN runCache[d] :
           l \in DOMAIN runCache'[d] /\ runCache'[d][l] = runCache[d][l]
      /\ \A d \in Http!Clients : \A l \in DOMAIN runCache'[d] :
           l \in DOMAIN runCache[d] \/ (d = c /\ l = k)
  <2>1. CASE k \in DOMAIN runCache[c]
    BY <1>2, <2>1
  <2>2. CASE k \notin DOMAIN runCache[c]
    <3>1. runCache' = [runCache EXCEPT ![c] = Http!Update(runCache[c], k, answer)]
      BY <2>2
    <3>2. /\ DOMAIN runCache' = Http!Clients
          /\ runCache'[c] = Http!Update(runCache[c], k, answer)
          /\ \A d \in Http!Clients \ {c} : runCache'[d] = runCache[d]
      BY <1>2, <3>1
    <3> HIDE DEF c, k
    <3>3. /\ DOMAIN runCache'[c] = DOMAIN runCache[c] \union {k} /\ runCache'[c][k] = answer
          /\ \A l \in DOMAIN runCache[c] : runCache'[c][l] = runCache[c][l]
      BY ONLY <2>2, <3>2, SMTT(20) DEF Http!Update
    <3> QED BY <3>2, <3>3
  <2> QED BY <2>1, <2>2
<1>5. \A u \in Threads : /\ Busy(u)' <=> Busy(u)
                         /\ Busy(u) => /\ thread'[u].run = thread[u].run
                                       /\ thread'[u].client = thread[u].client
                                       /\ thread[u].client \in Http!Clients
  BY <1>1, <1>2, HttpFields DEF Busy, HttpInv, HttpTyped
<1>6. RunsAreOwn'
  BY <1>5 DEF HttpInv, RunsAreOwn
<1>7. \A x \in served : x.run = new.run =>
        <<x.run, x.key>> \in DOMAIN runCache[c] /\ runCache[c][<<x.run, x.key>>] = x.answer
  <2>1. SUFFICES ASSUME NEW x \in served, x.run = new.run
        PROVE  Kept(c, x)
    BY DEF Kept
  <2>2. x.run \notin ended
    BY <1>2, <1>3, <2>1 DEF HttpInv, RunsAreOwn
  <2>3. PICK u \in Threads : Busy(u) /\ thread[u].run = x.run /\ Kept(thread[u].client, x)
    BY <2>1, <2>2 DEF HttpInv, ServedIsKept
  <2>4. u = t
    BY <1>2, <1>3, <2>1, <2>3 DEF HttpInv, RunsAreOwn
  <2> QED BY <2>3, <2>4
<1>8. ServedIsKept'
  <2>1. \A d \in Http!Clients, x \in served : Kept(d, x) =>
          /\ <<x.run, x.key>> \in DOMAIN runCache'[d]
          /\ runCache'[d][<<x.run, x.key>>] = x.answer
    BY <1>4 DEF Kept
  <2>2. /\ <<new.run, new.key>> \in DOMAIN runCache'[c]
        /\ runCache'[c][<<new.run, new.key>>] = new.answer
    BY <1>3, <1>4
  <2>3. ASSUME NEW x \in served, x.run \notin ended
        PROVE  \E u \in Threads : Busy(u)' /\ thread'[u].run = x.run
                 /\ <<x.run, x.key>> \in DOMAIN runCache'[thread'[u].client]
                 /\ runCache'[thread'[u].client][<<x.run, x.key>>] = x.answer
    BY <1>5, <2>1, <2>3 DEF HttpInv, ServedIsKept
  <2>4. Busy(t)' /\ thread'[t].run = new.run /\ thread'[t].client = c
    BY <1>2, <1>3, <1>5
  <2> QED BY <1>3, <2>2, <2>3, <2>4 DEF ServedIsKept, Kept
<1>9. KeptIsServed'
  <2>1. SUFFICES ASSUME NEW d \in Http!Clients, NEW l \in DOMAIN runCache'[d]
        PROVE  \E x \in served' : x.run = l[1] /\ x.key = l[2] /\ x.answer = runCache'[d][l]
    BY DEF KeptIsServed
  <2>2. CASE l \in DOMAIN runCache[d]
    BY <1>3, <1>4, <2>2 DEF HttpInv, KeptIsServed
  <2>3. CASE d = c /\ l = k
    BY <1>3, <1>4, <2>3
  <2> QED BY <1>4, <2>2, <2>3
<1>10. MissLasts'
  <2>1. SUFFICES ASSUME NEW u \in Threads, Networking(u)'
        PROVE  <<thread'[u].run, thread'[u].key>> \notin DOMAIN runCache'[thread'[u].client]
    BY DEF MissLasts
  <2>2. u # t /\ thread'[u] = thread[u] /\ Networking(u) /\ Busy(u)
    BY <1>1, <2>1 DEF Networking, Busy
  <2>3. thread[u].run # thread[t].run
    BY <1>2, <2>2 DEF HttpInv, RunsAreOwn
  <2>4. <<thread[u].run, thread[u].key>> # k
    BY <2>3
  <2>5. <<thread[u].run, thread[u].key>> \notin DOMAIN runCache[thread[u].client]
    BY <2>2 DEF HttpInv, MissLasts
  <2> QED BY <1>4, <1>5, <2>2, <2>4, <2>5
<1>11. RunSeesOneAnswer'
  <2>1. \A x \in served : x.run = new.run /\ x.key = new.key => x.answer = new.answer
    <3>1. SUFFICES ASSUME NEW x \in served, x.run = new.run, x.key = new.key
          PROVE  x.answer = answer
      BY <1>3
    <3>2. k \in DOMAIN runCache[c] /\ runCache[c][k] = x.answer
      BY <1>3, <1>7, <3>1
    <3> QED BY <1>4, <3>2
  <2>2. InTime(new) \/ \E y \in served : y.run = new.run /\ y.key = new.key /\ InTime(y)
    <3>1. CASE k \in DOMAIN runCache[c]
      <4>1. PICK y \in served : y.run = k[1] /\ y.key = k[2]
        BY <1>2, <3>1 DEF HttpInv, KeptIsServed
      <4>2. \E z \in {z \in served : z.run = y.run /\ z.key = y.key} : InTime(z)
        BY DEF HttpInv, RunSeesOneAnswer
      <4> QED BY <1>3, <4>1, <4>2
    <3>2. CASE k \notin DOMAIN runCache[c]
      BY <1>3, <3>2 DEF InTime
    <3> QED BY <3>1, <3>2
  <2>3. \A x \in served : \E y \in served : y.run = x.run /\ y.key = x.key /\ InTime(y)
    BY DEF HttpInv, RunSeesOneAnswer
  <2>4. \A x, y \in served : y.run = x.run /\ y.key = x.key => y.answer = x.answer
    BY DEF HttpInv, RunSeesOneAnswer
  <2>5. \A x \in served' : /\ \A y \in served' : y.run = x.run /\ y.key = x.key =>
                                                   y.answer = x.answer
                           /\ \E y \in served' : y.run = x.run /\ y.key = x.key /\ InTime(y)
    BY <1>3, <2>1, <2>2, <2>3, <2>4
  <2> QED BY <2>5 DEF RunSeesOneAnswer, InTime
<1>12. \A d \in Http!Clients :
         /\ DOMAIN runCache'[d] \subseteq Runs \X Keys
         /\ \A l \in DOMAIN runCache'[d] : runCache'[d][l] \in Http!Answers
  <2>1. \A d \in Http!Clients : Cached(d)
    BY DEF HttpInv, HttpTyped
  <2> QED BY <1>2, <1>4, <2>1 DEF Cached
<1> QED BY <1>4, <1>6, <1>8, <1>9, <1>10, <1>11, <1>12

\* Where a thread stands when it is back in its source.
LEMMA Returning ==
  ASSUME HttpInv, NEW t \in Threads, thread[t] \in AskingStates,
         NEW pc \in {"source", "failed"}
  PROVE  LET state == Http!At(t, pc)
         IN  /\ state \in HttpStates /\ state.pc = pc
             /\ state.run = thread[t].run /\ state.client = thread[t].client
<1>1. thread[t].run \in Runs /\ thread[t].client \in Http!Clients /\ thread[t].source \in Sources
  BY AskingFields
<1> QED BY <1>1 DEF HttpStates, Http!At

\* What keeps the time to live.
LEMMA Expiring ==
  ASSUME HttpInv, NEW c \in Http!Clients
  PROVE  /\ Http!Alive(ttlCache[c]) \subseteq DOMAIN ttlCache[c]
         /\ \A k \in DOMAIN ttlCache[c] :
              /\ ttlCache[c][k] \in [until : Nat, answer : Http!Answers]
              /\ ttlCache[c][k].answer \in Http!Answers
              /\ ttlCache[c][k].until = ttlCache[c][k].answer.received + TTL
         /\ \A k \in Http!Alive(ttlCache[c]) : now < ttlCache[c][k].answer.received + TTL
<1>1. \A k \in DOMAIN ttlCache[c] :
        /\ ttlCache[c][k] \in [until : Nat, answer : Http!Answers]
        /\ ttlCache[c][k].until = ttlCache[c][k].answer.received + TTL
  BY DEF HttpInv, HttpTyped, Cached, AnswersExpire
<1>2. \A k \in Http!Alive(ttlCache[c]) : k \in DOMAIN ttlCache[c] /\ ttlCache[c][k].until > now
  BY DEF Http!Alive
<1>3. now \in Int /\ \A k \in DOMAIN ttlCache[c] : ttlCache[c][k].until \in Int
  BY <1>1 DEF HttpInv, HttpTyped
<1> QED BY <1>1, <1>2, <1>3

\* Entries that have expired go, the others stay as they are.
LEMMA Expires ==
  ASSUME HttpInv, NEW c \in Http!Clients,
         ttlCache' = [ttlCache EXCEPT ![c] = [u \in Http!Alive(@) |-> @[u]]]
  PROVE  /\ DOMAIN ttlCache' = Http!Clients
         /\ \A d \in Http!Clients :
              /\ DOMAIN ttlCache'[d] \subseteq Keys
              /\ \A k \in DOMAIN ttlCache'[d] :
                   ttlCache'[d][k] \in [until : Nat, answer : Http!Answers]
         /\ AnswersExpire'
<1>1. /\ DOMAIN ttlCache = Http!Clients
      /\ \A d \in Http!Clients :
           /\ DOMAIN ttlCache[d] \subseteq Keys
           /\ \A k \in DOMAIN ttlCache[d] :
                /\ ttlCache[d][k] \in [until : Nat, answer : Http!Answers]
                /\ ttlCache[d][k].until = ttlCache[d][k].answer.received + TTL
  BY DEF HttpInv, HttpTyped, Cached, AnswersExpire
<1> DEFINE alive == Http!Alive(ttlCache[c])
<1>2. alive \subseteq DOMAIN ttlCache[c]
  BY DEF Http!Alive
<1>3. ttlCache' = [ttlCache EXCEPT ![c] = [u \in alive |-> ttlCache[c][u]]]
  OBVIOUS
<1> HIDE DEF alive
<1>4. /\ DOMAIN ttlCache' = Http!Clients
      /\ DOMAIN ttlCache'[c] = alive
      /\ \A k \in alive : ttlCache'[c][k] = ttlCache[c][k]
      /\ \A d \in Http!Clients \ {c} : ttlCache'[d] = ttlCache[d]
  BY <1>1, <1>3
<1>5. \A d \in Http!Clients :
        /\ DOMAIN ttlCache'[d] \subseteq DOMAIN ttlCache[d]
        /\ \A k \in DOMAIN ttlCache'[d] : ttlCache'[d][k] = ttlCache[d][k]
  BY <1>2, <1>4
<1>6. AnswersExpire'
  BY <1>1, <1>5 DEF AnswersExpire
<1> QED BY <1>1, <1>4, <1>5, <1>6

LEMMA FindsInRun ==
  ASSUME HttpInv, NEW t \in Threads, Http!FindInRun(t)
  PROVE  HttpInv'
<1> DEFINE c == thread[t].client
           k == <<thread[t].run, thread[t].key>>
           answer == runCache[c][k]
           state == Http!At(t, "source")
<1>1. thread[t].pc = "call" /\ thread[t] \in AskingStates
  BY HttpFields DEF HttpInv, HttpTyped, Http!FindInRun
<1>2. /\ state \in HttpStates /\ state.pc = "source"
      /\ state.run = thread[t].run /\ state.client = thread[t].client
  BY <1>1, Returning
<1>3. /\ k \in DOMAIN runCache[c] /\ Http!Serve(t, thread[t].key, answer)
      /\ Http!Become(t, state)
      /\ UNCHANGED <<now, client, holder, last, runCache, ttlCache, ended, health, answers,
                     unfinished>>
  BY DEF Http!FindInRun, Http!client_
<1>4. answer \in Http!Answers
  BY <1>1, <1>3, AskingFields DEF HttpInv, HttpTyped, Cached
<1> HIDE DEF state
<1>5. RunsAreOwn' /\ ServedIsKept' /\ KeptIsServed' /\ MissLasts' /\ RunSeesOneAnswer'
  BY <1>1, <1>2, <1>3, <1>4, GivesAnswer
<1>6. HttpTyped'
  BY <1>2, <1>3, HttpBecomes DEF HttpInv, HttpTyped, Cached
<1>7. LockIsHeld'
  BY <1>1, <1>2, <1>3, LocksStay DEF Networking
<1>8. AnswersExpire'
  BY <1>3 DEF HttpInv, AnswersExpire
<1> QED BY <1>5, <1>6, <1>7, <1>8 DEF HttpInv

LEMMA FindsInTTL ==
  ASSUME HttpInv, NEW t \in Threads, Http!FindInTTL(t)
  PROVE  HttpInv'
<1> DEFINE c == thread[t].client
           k == <<thread[t].run, thread[t].key>>
           answer == ttlCache[c][thread[t].key].answer
           state == Http!At(t, "source")
<1>1. thread[t].pc = "call" /\ thread[t] \in AskingStates
  BY HttpFields DEF HttpInv, HttpTyped, Http!FindInTTL
<1>2. /\ state \in HttpStates /\ state.pc = "source"
      /\ state.run = thread[t].run /\ state.client = thread[t].client
  BY <1>1, Returning
<1>3. /\ k \notin DOMAIN runCache[c] /\ thread[t].key \in Http!Alive(ttlCache[c])
      /\ ttlCache' = [ttlCache EXCEPT ![c] = [u \in Http!Alive(@) |-> @[u]]]
      /\ runCache' = [runCache EXCEPT ![c] = Http!Update(@, k, answer)]
      /\ Http!Serve(t, thread[t].key, answer)
      /\ Http!Become(t, state)
      /\ UNCHANGED <<now, client, holder, last, ended, health, answers, unfinished>>
  BY SMTT(30) DEF Http!FindInTTL
<1>4. c \in Http!Clients /\ answer \in Http!Answers /\ now < answer.received + TTL
  BY <1>1, <1>3, AskingFields, Expiring
<1> HIDE DEF state, answer
<1>5. /\ RunsAreOwn' /\ ServedIsKept' /\ KeptIsServed' /\ MissLasts' /\ RunSeesOneAnswer'
      /\ DOMAIN runCache' = Http!Clients
      /\ \A d \in Http!Clients :
           /\ DOMAIN runCache'[d] \subseteq Runs \X Keys
           /\ \A l \in DOMAIN runCache'[d] : runCache'[d][l] \in Http!Answers
  BY <1>1, <1>2, <1>3, <1>4, GivesAnswer
<1>6. /\ DOMAIN ttlCache' = Http!Clients
      /\ \A d \in Http!Clients :
           /\ DOMAIN ttlCache'[d] \subseteq Keys
           /\ \A l \in DOMAIN ttlCache'[d] :
                ttlCache'[d][l] \in [until : Nat, answer : Http!Answers]
      /\ AnswersExpire'
  BY <1>3, <1>4, Expires
<1>7. thread' \in [Threads -> HttpStates]
  BY <1>2, <1>3, HttpBecomes DEF HttpInv, HttpTyped
<1>8. HttpTyped'
  BY <1>3, <1>5, <1>6, <1>7 DEF HttpInv, HttpTyped, Cached
<1>9. LockIsHeld'
  BY <1>1, <1>2, <1>3, LocksStay DEF Networking
<1> QED BY <1>5, <1>6, <1>8, <1>9 DEF HttpInv

LEMMA Misses ==
  ASSUME HttpAssumptions, HttpInv, NEW t \in Threads, Http!Miss(t)
  PROVE  HttpInv'
<1> DEFINE c == thread[t].client
           state == [thread[t] EXCEPT !.pc = "attempt"]
<1>1. thread[t].pc = "call" /\ thread[t] \in AskingStates
  BY HttpFields DEF HttpInv, HttpTyped, Http!Miss
<1>2. /\ state \in AskingStates /\ state.pc = "attempt" /\ state.run = thread[t].run
      /\ state.client = c /\ state.key = thread[t].key
  BY <1>1, AskingFields
<1>3. /\ holder[c] = NoThread /\ holder' = [holder EXCEPT ![c] = t]
      /\ <<thread[t].run, thread[t].key>> \notin DOMAIN runCache[c]
      /\ ttlCache' = [ttlCache EXCEPT ![c] = [u \in Http!Alive(@) |-> @[u]]]
      /\ Http!Become(t, state)
      /\ UNCHANGED <<now, client, last, runCache, ended, health, answers, unfinished, served>>
  BY DEF Http!Miss
<1>4. c \in Http!Clients
  BY <1>1, AskingFields
<1> HIDE DEF state
<1>5. state \in HttpStates
  BY <1>2 DEF HttpStates
<1>6. /\ thread' \in [Threads -> HttpStates] /\ thread'[t] = state
      /\ \A u \in Threads \ {t} : thread'[u] = thread[u]
  BY <1>3, <1>5, HttpBecomes DEF HttpInv, HttpTyped
<1>7. /\ holder' \in [Http!Clients -> Threads \union {NoThread}] /\ holder'[c] = t
      /\ \A d \in Http!Clients \ {c} : holder'[d] = holder[d]
  BY <1>3, <1>4 DEF HttpInv, HttpTyped
<1>8. /\ DOMAIN ttlCache' = Http!Clients
      /\ \A d \in Http!Clients :
           /\ DOMAIN ttlCache'[d] \subseteq Keys
           /\ \A l \in DOMAIN ttlCache'[d] :
                ttlCache'[d][l] \in [until : Nat, answer : Http!Answers]
      /\ AnswersExpire'
  BY <1>3, <1>4, Expires
<1>9. HttpTyped'
  BY <1>3, <1>6, <1>7, <1>8 DEF HttpInv, HttpTyped, Cached
<1>10. LockIsHeld'
  <2>1. t # NoThread /\ \A u \in Threads : u # NoThread
    BY DEF HttpAssumptions, Http!HolderAssumption
  <2>2. \A u \in Threads : Networking(u) => /\ u # t /\ thread[u].client # c
                                            /\ thread[u].client \in Http!Clients
    BY <1>1, <1>3, <2>1, HttpFields DEF Networking, Busy, HttpInv, HttpTyped, LockIsHeld
  <2>3. Networking(t)' /\ \A u \in Threads \ {t} : Networking(u)' <=> Networking(u)
    BY <1>2, <1>6 DEF Networking
  <2>4. ASSUME NEW u \in Threads, Networking(u)' PROVE holder'[thread'[u].client] = u
    <3>1. CASE u = t
      BY <1>2, <1>6, <1>7, <3>1
    <3>2. CASE u # t
      BY <1>6, <1>7, <2>2, <2>3, <2>4, <3>2 DEF HttpInv, LockIsHeld
    <3> QED BY <3>1, <3>2
  <2>5. ASSUME NEW d \in Http!Clients, holder'[d] # NoThread
        PROVE  /\ thread'[holder'[d]].pc \in {"attempt", "answer"}
               /\ thread'[holder'[d]].client = d
    <3>1. CASE d = c
      BY <1>2, <1>6, <1>7, <3>1
    <3>2. CASE d # c
      <4>1. holder'[d] = holder[d] /\ holder[d] \in Threads
        BY <1>7, <2>5, <3>2 DEF HttpInv, HttpTyped
      <4>2. Networking(holder[d]) /\ thread[holder[d]].client = d
        BY <2>5, <4>1 DEF HttpInv, LockIsHeld
      <4> QED BY <1>6, <2>2, <4>1, <4>2 DEF Networking
    <3> QED BY <3>1, <3>2
  <2> QED BY <2>4, <2>5 DEF LockIsHeld, Networking
<1>11. RunsAreOwn' /\ ServedIsKept' /\ KeptIsServed' /\ MissLasts' /\ RunSeesOneAnswer'
  BY <1>1, <1>2, <1>3, <1>5, HttpGoesOn DEF Busy
<1> QED BY <1>8, <1>9, <1>10, <1>11 DEF HttpInv

LEMMA Doubles == \A n \in Nat : 2 ^ n \in Int
OBVIOUS

\* The request goes out, or waits for its next attempt.
LEMMA Attempts ==
  ASSUME HttpAssumptions, HttpInv, NEW t \in Threads, Http!Send(t) \/ Http!Retry(t)
  PROVE  HttpInv'
<1>1. Networking(t) /\ thread[t] \in AskingStates
  BY HttpFields DEF HttpInv, HttpTyped, Http!Send, Http!Retry, Networking
<1>2. PICK state \in AskingStates :
        /\ state.pc \in {"attempt", "answer"} /\ state.run = thread[t].run
        /\ state.client = thread[t].client /\ state.key = thread[t].key
        /\ Http!Become(t, state)
  <2>1. CASE Http!Send(t)
    <3> DEFINE state == [thread[t] EXCEPT !.pc = "answer"]
    <3>1. /\ state \in AskingStates /\ state.pc = "answer" /\ state.run = thread[t].run
          /\ state.client = thread[t].client /\ state.key = thread[t].key
      BY <1>1, AskingFields
    <3>2. Http!Become(t, state)
      BY <2>1 DEF Http!Send
    <3> QED BY <3>1, <3>2
  <2>2. CASE Http!Retry(t)
    <3> DEFINE from == now + Backoff * 2 ^ thread[t].attempt
               state == Http!Asking(t, "attempt", thread[t].key, thread[t].attempt + 1, from)
    <3>1. Http!Become(t, state)
      BY <2>2 DEF Http!Retry
    <3>2. from \in Int
      <4> DEFINE power == 2 ^ thread[t].attempt
      <4>1. thread[t].attempt \in Nat
        BY <1>1 DEF AskingStates
      <4>2. power \in Int
        BY <4>1, Doubles
      <4>4. now \in Int /\ Backoff \in Int
        BY DEF HttpInv, HttpTyped, HttpAssumptions, Http!TimesAssumption
      <4> HIDE DEF power
      <4>3. now + Backoff * power \in Int
        BY <4>4, <4>2
      <4> QED BY <4>3 DEF power
    <3> HIDE DEF from
    <3>5. thread[t].attempt + 1 \in Nat
      <4>1. thread[t].attempt \in Nat
        BY <1>1 DEF AskingStates
      <4> QED BY <4>1
    <3>3. /\ thread[t].run \in Runs /\ thread[t].client \in Http!Clients
          /\ thread[t].source \in Sources /\ thread[t].key \in Keys
      BY <1>1, AskingFields
    <3>4. /\ state \in AskingStates /\ state.pc = "attempt" /\ state.run = thread[t].run
          /\ state.client = thread[t].client /\ state.key = thread[t].key
      BY <3>2, <3>3, <3>5 DEF AskingStates, Http!Asking
    <3> QED BY <3>1, <3>4
  <2> QED BY <2>1, <2>2
<1>3. /\ UNCHANGED <<now, client, holder, runCache, ttlCache, ended, health, answers, unfinished,
                     served>>
      /\ last' \in [Http!Clients -> 0..MaxTime \union {Http!Never}]
  BY DEF HttpInv, HttpTyped, Http!Send, Http!Retry, Http!client_
<1>4. state \in HttpStates
  BY DEF HttpStates
<1>5. HttpTyped'
  BY <1>2, <1>3, <1>4, HttpBecomes DEF HttpInv, HttpTyped, Cached
<1>6. LockIsHeld'
  BY <1>1, <1>2, <1>3, <1>4, LocksStay
<1>7. RunsAreOwn' /\ ServedIsKept' /\ KeptIsServed' /\ MissLasts' /\ RunSeesOneAnswer'
  BY <1>1, <1>2, <1>3, <1>4, HttpGoesOn DEF Networking, Busy
<1>8. AnswersExpire'
  BY <1>3 DEF HttpInv, AnswersExpire
<1> QED BY <1>5, <1>6, <1>7, <1>8 DEF HttpInv

\* No answer: the source fails.
LEMMA NoAnswer ==
  ASSUME HttpAssumptions, HttpInv, NEW t \in Threads, Http!Closed(t) \/ Http!Fails(t)
  PROVE  HttpInv'
<1> DEFINE state == Http!At(t, "failed")
<1>1. Networking(t) /\ thread[t] \in AskingStates
  BY HttpFields DEF HttpInv, HttpTyped, Http!Closed, Http!Fails, Networking
<1>2. /\ state \in HttpStates /\ state.pc = "failed"
      /\ state.run = thread[t].run /\ state.client = thread[t].client
  BY <1>1, Returning
<1>3. /\ Http!Become(t, state) /\ Http!Release(t)
      /\ UNCHANGED <<now, client, last, runCache, ttlCache, ended, health, answers, unfinished,
                     served>>
  BY DEF Http!Closed, Http!Fails
<1> HIDE DEF state
<1>4. LockIsHeld' /\ holder' \in [Http!Clients -> Threads \union {NoThread}]
  BY <1>1, <1>2, <1>3, LockIsReleased
<1>5. HttpTyped'
  BY <1>2, <1>3, <1>4, HttpBecomes DEF HttpInv, HttpTyped, Cached
<1>6. RunsAreOwn' /\ ServedIsKept' /\ KeptIsServed' /\ MissLasts' /\ RunSeesOneAnswer'
  BY <1>1, <1>2, <1>3, HttpGoesOn DEF Networking, Busy
<1>7. AnswersExpire'
  BY <1>3 DEF HttpInv, AnswersExpire
<1> QED BY <1>4, <1>5, <1>6, <1>7 DEF HttpInv

\* An answer arrives, and is kept for the run and, for a while, for others.
LEMMA Receives ==
  ASSUME HttpAssumptions, HttpInv, NEW t \in Threads, Http!Received(t)
  PROVE  HttpInv'
<1> DEFINE c == thread[t].client
           k == <<thread[t].run, thread[t].key>>
           answer == [number |-> answers + 1, received |-> now]
           entry == [until |-> now + TTL, answer |-> answer]
           state == Http!At(t, "source")
<1>1. Networking(t) /\ thread[t] \in AskingStates
  BY HttpFields DEF HttpInv, HttpTyped, Http!Received, Networking
<1>2. /\ state \in HttpStates /\ state.pc = "source"
      /\ state.run = thread[t].run /\ state.client = thread[t].client
  BY <1>1, Returning
<1>3. /\ answers < MaxAnswers /\ answers' = answers + 1
      /\ runCache' = [runCache EXCEPT ![c] = Http!Update(@, k, answer)]
      /\ ttlCache' = [ttlCache EXCEPT ![c] =
           IF TTL > 0 THEN Http!Update(@, thread[t].key, entry) ELSE @]
      /\ Http!Serve(t, thread[t].key, answer)
      /\ Http!Become(t, state) /\ Http!Release(t)
      /\ UNCHANGED <<now, client, last, ended, health, unfinished>>
  BY DEF Http!Received
<1>4. c \in Http!Clients /\ thread[t].key \in Keys
  BY <1>1, AskingFields
<1>5. /\ answer \in Http!Answers /\ answer.received = now /\ answers' \in 0..MaxAnswers
      /\ entry \in [until : Nat, answer : Http!Answers]
      /\ entry.until = entry.answer.received + TTL
  <2>1. /\ answers \in 0..MaxAnswers /\ MaxAnswers \in Nat /\ now \in 0..MaxTime
        /\ MaxTime \in Nat /\ TTL \in Nat
    BY DEF HttpInv, HttpTyped, HttpAssumptions, Http!BoundsAssumption, Http!TimesAssumption
  <2> QED BY <1>3, <2>1 DEF Http!Answers
<1>6. k \notin DOMAIN runCache[c]
  BY SMTT(30), <1>1 DEF HttpInv, MissLasts
<1> HIDE DEF state, answer, entry
<1>7. /\ RunsAreOwn' /\ ServedIsKept' /\ KeptIsServed' /\ MissLasts' /\ RunSeesOneAnswer'
      /\ DOMAIN runCache' = Http!Clients
      /\ \A d \in Http!Clients :
           /\ DOMAIN runCache'[d] \subseteq Runs \X Keys
           /\ \A l \in DOMAIN runCache'[d] : runCache'[d][l] \in Http!Answers
  BY <1>1, <1>2, <1>3, <1>5, <1>6, GivesAnswer
<1>8. LockIsHeld' /\ holder' \in [Http!Clients -> Threads \union {NoThread}]
  BY <1>1, <1>2, <1>3, LockIsReleased
<1>9. /\ DOMAIN ttlCache' = Http!Clients
      /\ \A d \in Http!Clients : DOMAIN ttlCache'[d] \subseteq Keys
      /\ \A d \in Http!Clients : \A l \in DOMAIN ttlCache'[d] :
           /\ ttlCache'[d][l] \in [until : Nat, answer : Http!Answers]
           /\ ttlCache'[d][l].until = ttlCache'[d][l].answer.received + TTL
  <2>1. /\ DOMAIN ttlCache = Http!Clients
        /\ \A d \in Http!Clients :
             /\ DOMAIN ttlCache[d] \subseteq Keys
             /\ \A l \in DOMAIN ttlCache[d] :
                  /\ ttlCache[d][l] \in [until : Nat, answer : Http!Answers]
                  /\ ttlCache[d][l].until = ttlCache[d][l].answer.received + TTL
    BY DEF HttpInv, HttpTyped, Cached, AnswersExpire
  <2>2. /\ DOMAIN ttlCache' = Http!Clients
        /\ \A d \in Http!Clients \ {c} : ttlCache'[d] = ttlCache[d]
        /\ ttlCache'[c] = ttlCache[c] \/ ttlCache'[c] = Http!Update(ttlCache[c], thread[t].key, entry)
    BY <1>3, <1>4, <2>1
  <2>3. CASE ttlCache'[c] = ttlCache[c]
    BY <2>1, <2>2, <2>3
  <2>4. CASE ttlCache'[c] = Http!Update(ttlCache[c], thread[t].key, entry)
    <3> HIDE DEF c, k
    <3>1. /\ DOMAIN ttlCache'[c] = DOMAIN ttlCache[c] \union {thread[t].key}
          /\ ttlCache'[c][thread[t].key] = entry
          /\ \A l \in DOMAIN ttlCache[c] \ {thread[t].key} : ttlCache'[c][l] = ttlCache[c][l]
      BY ONLY <2>4, SMTT(20) DEF Http!Update
    <3>2. /\ DOMAIN ttlCache'[c] \subseteq Keys
          /\ \A l \in DOMAIN ttlCache'[c] :
               /\ ttlCache'[c][l] \in [until : Nat, answer : Http!Answers]
               /\ ttlCache'[c][l].until = ttlCache'[c][l].answer.received + TTL
      BY <1>4, <1>5, <2>1, <3>1
    <3> QED BY <2>1, <2>2, <3>2
  <2> QED BY <2>2, <2>3, <2>4
<1>10. thread' \in [Threads -> HttpStates]
  BY <1>2, <1>3, HttpBecomes DEF HttpInv, HttpTyped
<1>11. HttpTyped'
  BY ZenonT(60), <1>3, <1>5, <1>7, <1>8, <1>9, <1>10 DEF HttpInv, HttpTyped, Cached
<1>12. AnswersExpire'
  BY <1>9 DEF AnswersExpire
<1> QED BY <1>7, <1>8, <1>11, <1>12 DEF HttpInv

------------------------------------------------------------------------------
(***************************************************************************)
(* The HTTP client.  The theorems.                                         *)
(***************************************************************************)

\* The clock and a reload: requests go on with the client they have.
LEMMA TicksOrReloads ==
  ASSUME HttpAssumptions, HttpInv, Http!Tick \/ Http!Reload \/ UNCHANGED Http!vars
  PROVE  HttpInv'
<1>1. UNCHANGED <<holder, last, runCache, ttlCache, thread, ended, health, answers, unfinished,
                  served>>
  BY DEF Http!Tick, Http!Reload, Http!vars, Http!client_
<1>2. now' \in 0..MaxTime /\ client' \in Http!Clients
  <2>1. /\ now \in 0..MaxTime /\ client \in 1..MaxClients
        /\ MaxTime \in Nat /\ MaxClients \in Nat
    BY DEF HttpInv, HttpTyped, Http!Clients, HttpAssumptions, Http!BoundsAssumption
  <2>2. /\ \/ now' = now
           \/ now < MaxTime /\ now' = now + 1
        /\ \/ client' = client
           \/ client < MaxClients /\ client' = client + 1
    BY DEF Http!Tick, Http!Reload, Http!vars, Http!client_
  <2> QED BY <2>1, <2>2 DEF Http!Clients
<1>3. HttpTyped'
  BY <1>1, <1>2 DEF HttpInv, HttpTyped, Cached
<1>4. LockIsHeld' /\ RunsAreOwn' /\ ServedIsKept'
  BY <1>1 DEF HttpInv, LockIsHeld, RunsAreOwn, ServedIsKept, Networking, Busy, Kept
<1>5. KeptIsServed' /\ MissLasts' /\ AnswersExpire'
  BY <1>1 DEF HttpInv, KeptIsServed, MissLasts, AnswersExpire, Networking
<1>6. RunSeesOneAnswer'
  BY <1>1 DEF HttpInv, RunSeesOneAnswer, InTime
<1> QED BY <1>3, <1>4, <1>5, <1>6 DEF HttpInv

LEMMA HttpInit ==
  ASSUME HttpAssumptions, Http!Init
  PROVE  HttpInv
<1>1. /\ now = 0 /\ client = 1 /\ ended = {} /\ answers = 0 /\ unfinished = {} /\ served = {}
      /\ holder = [c \in Http!Clients |-> NoThread]
      /\ last = [c \in Http!Clients |-> Http!Never]
      /\ runCache = [c \in Http!Clients |-> [k \in {} |-> Http!Never]]
      /\ ttlCache = [c \in Http!Clients |-> [k \in {} |-> Http!Never]]
      /\ thread = [t \in Threads |-> Http!Idle]
      /\ health = [s \in Sources |-> Http!Fresh]
  BY DEF Http!Init
<1>2. \A t \in Threads : thread[t].pc = "idle"
  BY <1>1 DEF Http!Idle
<1>3. \A c \in Http!Clients : DOMAIN runCache[c] = {} /\ DOMAIN ttlCache[c] = {}
  BY <1>1
<1>4. HttpTyped
  <2>1. now \in 0..MaxTime /\ client \in Http!Clients /\ answers \in 0..MaxAnswers
        /\ ended \subseteq Runs /\ unfinished \subseteq ended
    BY <1>1 DEF HttpAssumptions, Http!BoundsAssumption, Http!Clients
  <2>2. holder \in [Http!Clients -> Threads \union {NoThread}]
        /\ last \in [Http!Clients -> 0..MaxTime \union {Http!Never}]
    BY <1>1
  <2>3. thread \in [Threads -> HttpStates]
    BY <1>1 DEF HttpStates
  <2>4. health \in [Sources -> [checked : 0..MaxTime \union {Http!Never}, failing : BOOLEAN]]
    BY <1>1 DEF Http!Fresh
  <2>5. DOMAIN runCache = Http!Clients /\ DOMAIN ttlCache = Http!Clients
    BY <1>1
  <2> QED BY <1>3, <2>1, <2>2, <2>3, <2>4, <2>5 DEF HttpTyped, Cached
<1>5. LockIsHeld
  BY <1>1, <1>2 DEF LockIsHeld, Networking
<1>6. RunsAreOwn /\ MissLasts
  BY <1>2 DEF RunsAreOwn, MissLasts, Busy, Networking
<1>7. KeptIsServed /\ AnswersExpire
  BY <1>3 DEF KeptIsServed, AnswersExpire
<1>8. ServedIsKept /\ RunSeesOneAnswer
  BY <1>1 DEF ServedIsKept, RunSeesOneAnswer
<1> QED BY <1>4, <1>5, <1>6, <1>7, <1>8 DEF HttpInv

LEMMA HttpNext ==
  ASSUME HttpAssumptions, HttpInv, [Http!Next]_(Http!vars)
  PROVE  HttpInv'
<1>1. CASE \E t \in Threads : Http!Runner(t)
  <2>1. PICK t \in Threads : Http!Runner(t)
    BY <1>1
  <2>2. CASE \E r \in Runs : Http!StartRun(t, r)
    BY <2>2, StartsRun
  <2>3. CASE Http!FinishRun(t) \/ Http!FinishFails(t)
    BY <2>3, FinishesRun
  <2>4. CASE \/ \E s \in Sources : Http!Operation(t, s)
             \/ \E k \in Keys : Http!Request(t, k)
             \/ Http!OperationEnds(t) \/ Http!SourceFails(t) \/ Http!Report(t)
    BY <2>4, RunSteps
  <2> QED BY <2>1, <2>2, <2>3, <2>4 DEF Http!Runner
<1>2. CASE \E t \in Threads : Http!Call(t)
  BY <1>2, FindsInRun, FindsInTTL, Misses, Attempts, NoAnswer, Receives
     DEF Http!Call, Http!Look
<1>3. CASE Http!Tick \/ Http!Reload \/ UNCHANGED Http!vars
  BY <1>3, TicksOrReloads
<1> QED BY <1>1, <1>2, <1>3 DEF Http!Next

\* What a client keeps is for the run of a thread that uses it, or for one whose
\* end was not recorded.
KeptForRuns ==
  \A c \in Http!Clients : \A k \in DOMAIN runCache[c] :
    \/ k[1] \in unfinished
    \/ \E t \in Threads : Busy(t) /\ thread[t].run = k[1] /\ thread[t].client = c

\* A thread that stays with its run keeps to its client.
LEMMA BusyStays ==
  ASSUME HttpInv, NEW t \in Threads,
         \/ \E r \in Runs : Http!StartRun(t, r)
         \/ \E s \in Sources : Http!Operation(t, s)
         \/ \E k \in Keys : Http!Request(t, k)
         \/ Http!OperationEnds(t) \/ Http!SourceFails(t) \/ Http!Report(t) \/ Http!Call(t),
         NEW u \in Threads, Busy(u)
  PROVE  Busy(u)' /\ thread'[u].run = thread[u].run /\ thread'[u].client = thread[u].client
<1>1. thread \in [Threads -> HttpStates]
  BY DEF HttpInv, HttpTyped
<1>2. CASE u # t
  BY <1>1, <1>2
  DEF Busy, Http!Become, Http!StartRun, Http!Operation, Http!Request, Http!OperationEnds,
      Http!SourceFails, Http!Report, Http!Call, Http!Look, Http!FindInRun, Http!FindInTTL,
      Http!Miss, Http!Send, Http!Closed, Http!Received, Http!Retry, Http!Fails
<1>3. CASE u = t
  <2>1. ~\E r \in Runs : Http!StartRun(t, r)
    BY <1>1, <1>3, HttpFields DEF Busy, Http!StartRun
  <2>2. CASE \E s \in Sources : Http!Operation(t, s)
    BY <1>1, <1>3, <2>2 DEF Busy, Http!Become, Http!Operation
  <2>3. CASE \E k \in Keys : Http!Request(t, k)
    BY <1>1, <1>3, <2>3 DEF Busy, Http!Become, Http!Request, Http!Asking
  <2>4. CASE Http!OperationEnds(t)
    BY <1>1, <1>3, <2>4 DEF Busy, Http!Become, Http!OperationEnds
  <2>5. CASE Http!SourceFails(t) \/ Http!Report(t)
    BY <1>1, <1>3, <2>5 DEF Busy, Http!Become, Http!SourceFails, Http!Report
  <2>6. CASE Http!FindInRun(t) \/ Http!FindInTTL(t) \/ Http!Received(t)
    BY <1>1, <1>3, <2>6 DEF Busy, Http!Become, Http!At, Http!FindInRun, Http!FindInTTL, Http!Received
  <2>7. CASE Http!Closed(t) \/ Http!Fails(t)
    BY <1>1, <1>3, <2>7 DEF Busy, Http!Become, Http!At, Http!Closed, Http!Fails
  <2>8. CASE Http!Miss(t) \/ Http!Send(t)
    <3>1. thread[t] \in AskingStates
      BY <1>1, <2>8, HttpFields DEF Http!Miss, Http!Send
    <3>2. PICK pc \in {"attempt", "answer"} : thread'[t] = [thread[t] EXCEPT !.pc = pc]
      BY <1>1, <2>8 DEF Http!Become, Http!Miss, Http!Send
    <3> QED BY <1>3, <3>1, <3>2, AskingFields DEF Busy
  <2>9. CASE Http!Retry(t)
    BY <1>1, <1>3, <2>9 DEF Busy, Http!Become, Http!Asking, Http!Retry
  <2> QED
    BY <2>1, <2>2, <2>3, <2>4, <2>5, <2>6, <2>7, <2>8, <2>9 DEF Http!Call, Http!Look
<1> QED BY <1>2, <1>3

\* What a step adds to what a client keeps is for the run of its thread.
LEMMA KeepsForRun ==
  ASSUME HttpInv, NEW t \in Threads,
         \/ \E r \in Runs : Http!StartRun(t, r)
         \/ \E s \in Sources : Http!Operation(t, s)
         \/ \E k \in Keys : Http!Request(t, k)
         \/ Http!OperationEnds(t) \/ Http!SourceFails(t) \/ Http!Report(t) \/ Http!Call(t),
         NEW c \in Http!Clients, NEW k \in DOMAIN runCache'[c]
  PROVE  /\ unfinished' = unfinished
         /\ \/ k \in DOMAIN runCache[c]
            \/ Busy(t) /\ k[1] = thread[t].run /\ c = thread[t].client
<1>0. DOMAIN runCache = Http!Clients /\ thread \in [Threads -> HttpStates]
  BY DEF HttpInv, HttpTyped
<1>1. CASE ~(Http!FindInTTL(t) \/ Http!Received(t))
  BY <1>1
  DEF Http!client_, Http!StartRun, Http!Operation, Http!Request, Http!OperationEnds,
      Http!SourceFails, Http!Report, Http!Call, Http!Look, Http!FindInRun, Http!Miss,
      Http!Send, Http!Closed, Http!Retry, Http!Fails
<1>2. CASE Http!FindInTTL(t) \/ Http!Received(t)
  <2> DEFINE d == thread[t].client
             l == <<thread[t].run, thread[t].key>>
  <2>1. Busy(t) /\ unfinished' = unfinished
    BY <1>2 DEF Busy, Http!FindInTTL, Http!Received
  <2>2. PICK answer : runCache' = [runCache EXCEPT ![d] = Http!Update(@, l, answer)]
    <3>1. CASE Http!FindInTTL(t)
      <4> DEFINE answer == ttlCache[d][thread[t].key].answer
      <4>1. runCache' = [runCache EXCEPT ![d] = Http!Update(@, l, answer)]
        BY <3>1 DEF Http!FindInTTL
      <4> QED BY <4>1
    <3>2. CASE Http!Received(t)
      <4> DEFINE answer == [number |-> answers', received |-> now]
      <4>1. runCache' = [runCache EXCEPT ![d] = Http!Update(@, l, answer)]
        BY <3>2 DEF Http!Received
      <4> QED BY <4>1
    <3> QED BY <1>2, <3>1, <3>2
  <2>3. l[1] = thread[t].run
    OBVIOUS
  <2> HIDE DEF d, l
  <2>4. c # d => runCache'[c] = runCache[c]
    BY <1>0, <2>2
  <2>5. ASSUME c = d PROVE DOMAIN runCache'[c] = DOMAIN runCache[c] \union {l}
    <3>1. runCache' = [runCache EXCEPT ![c] = Http!Update(runCache[c], l, answer)]
      BY <2>2, <2>5
    <3>2. runCache'[c] = Http!Update(runCache[c], l, answer)
      BY <1>0, <3>1
    <3>3. DOMAIN runCache'[c] = DOMAIN runCache[c] \union {l}
      BY ONLY <3>2, SMTT(20) DEF Http!Update
    <3> QED BY <3>3
  <2> QED BY <2>1, <2>3, <2>4, <2>5 DEF d
<1> QED BY <1>1, <1>2

LEMMA KeptForRunsNext ==
  ASSUME HttpInv, KeptForRuns, [Http!Next]_(Http!vars)
  PROVE  KeptForRuns'
<1>1. ASSUME NEW t \in Threads,
             \/ \E r \in Runs : Http!StartRun(t, r)
             \/ \E s \in Sources : Http!Operation(t, s)
             \/ \E k \in Keys : Http!Request(t, k)
             \/ Http!OperationEnds(t) \/ Http!SourceFails(t) \/ Http!Report(t)
             \/ Http!Call(t)
      PROVE  KeptForRuns'
  <2> SUFFICES ASSUME NEW c \in Http!Clients, NEW k \in DOMAIN runCache'[c]
               PROVE  \/ k[1] \in unfinished'
                      \/ \E u \in Threads : Busy(u)' /\ thread'[u].run = k[1]
                                             /\ thread'[u].client = c
    BY DEF KeptForRuns
  <2>1. \/ k[1] \in unfinished'
        \/ \E u \in Threads : Busy(u) /\ thread[u].run = k[1] /\ thread[u].client = c
    BY <1>1, KeepsForRun DEF KeptForRuns
  <2> QED BY <1>1, <2>1, BusyStays
<1>2. ASSUME NEW t \in Threads, Http!FinishRun(t)
      PROVE  KeptForRuns'
  <2> DEFINE d == thread[t].client
             left == {k \in DOMAIN runCache[d] : k[1] # thread[t].run}
  <2>1. /\ runCache' = [runCache EXCEPT ![d] = [k \in left |-> runCache[d][k]]]
        /\ thread[t].pc = "run" /\ thread' = [thread EXCEPT ![t] = Http!Idle]
        /\ unfinished' = unfinished
    BY <1>2 DEF Http!FinishRun, Http!Become
  <2>2. DOMAIN runCache = Http!Clients /\ thread \in [Threads -> HttpStates] /\ RunsAreOwn
    BY DEF HttpInv, HttpTyped
  <2>3. DOMAIN runCache'[d] = left \/ d \notin Http!Clients
    BY <2>1, <2>2
  <2>4. \A c \in Http!Clients \ {d} : runCache'[c] = runCache[c]
    BY <2>1, <2>2
  <2> SUFFICES ASSUME NEW c \in Http!Clients, NEW k \in DOMAIN runCache'[c],
                      k[1] \notin unfinished
               PROVE  \E u \in Threads : Busy(u)' /\ thread'[u].run = k[1]
                                          /\ thread'[u].client = c
    BY <2>1 DEF KeptForRuns
  <2>5. k \in DOMAIN runCache[c] /\ (c = d => k[1] # thread[t].run)
    BY <2>3, <2>4
  <2>6. PICK u \in Threads : Busy(u) /\ thread[u].run = k[1] /\ thread[u].client = c
    BY <2>5 DEF KeptForRuns
  <2>7. u # t /\ thread'[u] = thread[u]
    BY <2>1, <2>2, <2>5, <2>6
  <2> QED BY <2>6, <2>7 DEF Busy
<1>3. ASSUME NEW t \in Threads, Http!FinishFails(t)
      PROVE  KeptForRuns'
  <2>1. /\ runCache' = runCache /\ unfinished' = unfinished \union {thread[t].run}
        /\ thread' = [thread EXCEPT ![t] = Http!Idle]
    BY <1>3 DEF Http!FinishFails, Http!Become, Http!client_
  <2>2. thread \in [Threads -> HttpStates]
    BY DEF HttpInv, HttpTyped
  <2>3. \A u \in Threads \ {t} : thread'[u] = thread[u]
    BY <2>1, <2>2
  <2> QED BY <2>1, <2>3 DEF KeptForRuns, Busy
<1>4. CASE Http!Tick \/ Http!Reload \/ UNCHANGED Http!vars
  <2>1. UNCHANGED <<runCache, thread, unfinished>>
    BY <1>4 DEF Http!Tick, Http!Reload, Http!vars, Http!client_
  <2> QED BY <2>1 DEF KeptForRuns, Busy
<1> QED BY <1>1, <1>2, <1>3, <1>4 DEF Http!Next, Http!Runner

LEMMA HttpInvariant == HttpAssumptions /\ Http!Spec => []HttpInv
<1> SUFFICES ASSUME HttpAssumptions PROVE Http!Spec => []HttpInv
  OBVIOUS
<1>1. Http!Init => HttpInv
  BY HttpInit
<1>2. HttpInv /\ [Http!Next]_(Http!vars) => HttpInv'
  BY HttpNext
<1> QED BY <1>1, <1>2, PTL DEF Http!Spec

\* Types and locks of the HTTP client (ProviderHttpClient.request): over the network
\* asks only who holds the lock of its client, and no one else holds one.
THEOREM HttpTypes == HttpAssumptions /\ Http!Spec => []Http!TypeOK
<1>1. HttpInv => Http!TypeOK
  BY DEF HttpInv, HttpTyped, Cached, LockIsHeld, Networking, Http!TypeOK, Http!RunKeys
<1> QED BY <1>1, HttpInvariant, PTL

\* runs/service.py, _finish_provider_run: through reloads and the requests of other
\* runs, no client keeps an answer for a run that has ended, unless its end was not
\* recorded.
THEOREM EndedRunsLeaveNothing == HttpAssumptions /\ Http!Spec => []EndedRunsAreForgotten
<1>1. HttpInv /\ KeptForRuns => EndedRunsAreForgotten
  BY DEF HttpInv, HttpTyped, RunsAreOwn, KeptForRuns, EndedRunsAreForgotten
<1>2. Http!Init => KeptForRuns
  BY DEF Http!Init, KeptForRuns
<1> QED BY <1>1, <1>2, HttpInvariant, KeptForRunsNext, PTL DEF Http!Spec

\* A run never gets two answers to one query, and first gets one that is not older
\* than the time to live (ProviderHttpClient.request, _run_cache and _ttl_cache).
THEOREM OneAnswerForARun == HttpAssumptions /\ Http!Spec => []RunSeesOneAnswer
<1>1. HttpInv => RunSeesOneAnswer
  BY DEF HttpInv
<1> QED BY <1>1, HttpInvariant, PTL

------------------------------------------------------------------------------
(***************************************************************************)
(* The plan of daily jobs.  The invariant.                                 *)
(***************************************************************************)

PlanAssumptions ==
  /\ Plan!OwnersAssumption /\ Plan!TimeAssumption /\ Plan!SourcesAssumption
  /\ Plan!ReloaderAssumption /\ Plan!LimitsAssumption

RowsOf(o) == IF o \in Profiles THEN Plan!ProfileRows ELSE Plan!Automations

\* Where a thread may stand, and what it knows there.
PlanState(s) ==
  /\ s.pc \in {"idle", "drain", "load", "write", "audit", "list", "add", "remove"}
  /\ s.pc = "idle" <=> s = Idle
  /\ s.pc \in {"load", "write", "audit"} => s.owner \in Owners
  /\ s.pc \in {"load", "write"} => s.new \in RowsOf(s.owner)
  /\ s.pc = "write" => s.seen \in RowsOf(s.owner)
  /\ s.pc \in {"list", "add", "remove"} => s.kind \in {"profile", "watchlist"}
  /\ s.pc \in {"add", "remove"} => s.desired \subseteq Plan!OfKind[s.kind]
  /\ s.pc = "add" =>
       /\ s = [pc |-> "add", scheduler |-> s.scheduler, kind |-> s.kind, todo |-> s.todo,
               desired |-> s.desired]
       /\ DOMAIN s.todo \subseteq s.desired
       /\ \A o \in DOMAIN s.todo : s.todo[o] \in Plan!OptionalTimes
  /\ s.pc = "remove" =>
       /\ s = [pc |-> "remove", scheduler |-> s.scheduler, kind |-> s.kind, stale |-> s.stale,
               desired |-> s.desired]
       /\ s.stale \subseteq Plan!OfKind[s.kind] /\ s.stale \intersect s.desired = {}

ThreadsTyped ==
  /\ DOMAIN thread = Plan!Threads
  /\ \A t \in Plan!Threads :
       PlanState(thread[t]) /\ (Plan!InSync(t) => thread[t].scheduler \in 1..built)
TablesTyped ==
  /\ DOMAIN rows \subseteq Owners
  /\ \A o \in DOMAIN rows : rows[o] \in RowsOf(o)
  /\ changes \in 0..MaxChanges /\ faults \in 0..MaxFaults
  /\ clashed \in BOOLEAN /\ missed \subseteq Owners
\* Rows are never deleted under the request that has read them.
OwnersAreThere ==
  \A t \in Plan!Threads :
    thread[t].pc \in {"load", "write"} => thread[t].owner \in DOMAIN rows
PlanTyped ==
  /\ built \in 0..MaxReloads /\ scheduler \in {0, built}
  /\ jobs \in [Owners -> Plan!OptionalTimes] /\ tracked \subseteq Owners

\* Without a scheduler there is no plan, and the thread that reloads builds none
\* while there is one.
NoPlanWithout ==
  /\ scheduler = 0 => tracked = {} /\ \A o \in Owners : jobs[o] = NoTime
  /\ thread[Reloader].pc = "drain" => scheduler = 0 /\ built < MaxReloads

\* A thread in sync of the runtime's scheduler: what it has listed, and what it
\* has still to list.
Syncing(t) == Plan!InSync(t) /\ Plan!Current(t)
Handles(t, o) == thread[t].pc \in {"add", "remove"} /\ o \in Plan!OfKind[thread[t].kind]
Ahead(t, o) ==
  \/ thread[t].pc = "list" /\ (thread[t].kind = "profile" \/ o \in Watchlists)
  \/ thread[t].pc \in {"add", "remove"} /\ thread[t].kind = "profile" /\ o \in Watchlists

OneSyncs ==
  ~clashed => \A t, u \in Plan!Threads : Syncing(t) /\ Syncing(u) => t = u

\* Jobs are those of ids that sync keeps, or adds now; what it is not to keep it
\* finds.
JobsAreKnown ==
  ~clashed =>
    /\ \A o \in Owners : jobs[o] # NoTime =>
         \/ o \in tracked
         \/ \E t \in Plan!Threads : Syncing(t) /\ Handles(t, o) /\ o \in thread[t].desired
    /\ \A t \in Plan!Threads : Syncing(t) /\ thread[t].pc = "remove" =>
         \A o \in Plan!OfKind[thread[t].kind] :
           jobs[o] # NoTime => o \in thread[t].desired \union thread[t].stale

\* The table as sync has listed it is the table as it is.
Listed(t, o) ==
  /\ Handles(t, o)
  /\ o \in thread[t].desired <=> Schedulable(o)
  /\ o \in thread[t].desired =>
       IF thread[t].pc = "add" /\ o \in DOMAIN thread[t].todo
       THEN thread[t].todo[o] = Planned(o)
       ELSE jobs[o] = Planned(o)

\* A row that has changed is one of which a thread will call sync, or of which sync
\* does not know yet; else its job is what it asks for, or sync makes it so.
Announced(o) == \E t \in Plan!Threads : thread[t].pc = "audit" /\ thread[t].owner = o
Follows(o) ==
  \/ Announced(o)
  \/ \E t \in Plan!Threads : Syncing(t) /\ (Ahead(t, o) \/ Listed(t, o))
  \/ /\ \A t \in Plan!Threads : Syncing(t) => ~Handles(t, o)
     /\ jobs[o] = Planned(o)
PlanIsMade ==
  ~clashed /\ scheduler # 0 => \A o \in Owners \ missed : Follows(o)

PlanInv ==
  /\ ThreadsTyped /\ TablesTyped /\ OwnersAreThere /\ PlanTyped /\ NoPlanWithout
  /\ OneSyncs /\ JobsAreKnown /\ PlanIsMade

------------------------------------------------------------------------------
(***************************************************************************)
(* The plan of daily jobs.  Threads.                                       *)
(***************************************************************************)

\* What the instance takes from PlanTable is what this module takes from it.
LEMMA SameTable ==
  /\ Plan!Idle = Idle /\ Plan!Owners = Owners
  /\ \A o : (Plan!Schedulable(o) <=> Schedulable(o)) /\ Plan!Planned(o) = Planned(o)
BY DEF Plan!Idle, Idle, Plan!Owners, Owners, Plan!Schedulable, Schedulable, Plan!Planned, Planned

LEMMA Kinds ==
  /\ Plan!OfKind["profile"] = Profiles /\ Plan!OfKind["watchlist"] = Watchlists
  /\ \A kind \in {"profile", "watchlist"} : Plan!OfKind[kind] \subseteq Owners
BY DEF Plan!OfKind, Owners

LEMMA PlanBecomes ==
  ASSUME ThreadsTyped, NEW t \in Plan!Threads, NEW state, Plan!Become(t, state)
  PROVE  /\ DOMAIN thread' = Plan!Threads /\ thread'[t] = state
         /\ \A u \in Plan!Threads \ {t} : thread'[u] = thread[u]
BY DEF ThreadsTyped, Plan!Become

LEMMA ThreadsStayTyped ==
  ASSUME ThreadsTyped, NEW t \in Plan!Threads, NEW state, Plan!Become(t, state),
         PlanState(state),
         built \in Nat, built' = built \/ built' = built + 1,
         state.pc \in {"list", "add", "remove"} => state.scheduler \in 1..built'
  PROVE  ThreadsTyped'
<1>1. /\ DOMAIN thread' = Plan!Threads /\ thread'[t] = state
      /\ \A u \in Plan!Threads \ {t} : thread'[u] = thread[u]
  BY PlanBecomes
<1>2. ASSUME NEW u \in Plan!Threads
      PROVE  /\ PlanState(thread'[u])
             /\ thread'[u].pc \in {"list", "add", "remove"} => thread'[u].scheduler \in 1..built'
  <2>1. CASE u = t
    BY <1>1, <2>1
  <2>2. CASE u # t
    <3>1. thread'[u] = thread[u]
      BY <1>1, <2>2
    <3>2. PlanState(thread[u])
      BY DEF ThreadsTyped
    <3>3. thread[u].pc \in {"list", "add", "remove"} => thread[u].scheduler \in 1..built
      BY DEF ThreadsTyped, Plan!InSync
    <3> HIDE DEF PlanState
    <3>4. thread[u].pc \in {"list", "add", "remove"} => thread[u].scheduler \in 1..built'
      BY <3>3
    <3> QED BY <3>1, <3>2, <3>4
  <2> QED BY <2>1, <2>2
<1>3. \A u \in Plan!Threads : PlanState(thread'[u])
  BY <1>2
<1>4. \A u \in Plan!Threads : Plan!InSync(u)' => thread'[u].scheduler \in 1..built'
  BY <1>2 DEF Plan!InSync
<1> QED BY <1>1, <1>3, <1>4 DEF ThreadsTyped, PlanState

\* States without anything to know.
LEMMA PlainStates ==
  /\ PlanState(Idle) /\ Idle.pc = "idle"
  /\ PlanState([pc |-> "drain"])
  /\ \A o \in Owners : PlanState([pc |-> "audit", owner |-> o])
  /\ \A n \in Nat, kind \in {"profile", "watchlist"} :
       PlanState([pc |-> "list", scheduler |-> n, kind |-> kind])
<1>1. PlanState(Idle) /\ Idle.pc = "idle"
  BY DEF PlanState, Idle
<1>2. PlanState([pc |-> "drain"])
  BY DEF PlanState, Idle
<1>3. \A o \in Owners : PlanState([pc |-> "audit", owner |-> o])
  BY DEF PlanState, Idle
<1>4. \A n \in Nat, kind \in {"profile", "watchlist"} :
       PlanState([pc |-> "list", scheduler |-> n, kind |-> kind])
  BY DEF PlanState, Idle
<1> QED BY <1>1, <1>2, <1>3, <1>4

\* Of two threads that do not become another, one knows what it knew.
LEMMA SameThread ==
  ASSUME NEW u, thread'[u] = thread[u]
  PROVE  /\ scheduler' = scheduler => (Syncing(u)' <=> Syncing(u))
         /\ \A o : (Handles(u, o)' <=> Handles(u, o)) /\ (Ahead(u, o)' <=> Ahead(u, o))
BY DEF Syncing, Handles, Ahead, Plan!InSync, Plan!Current

\* What a row asks for.
LEMMA SameRow ==
  ASSUME NEW o, o \in DOMAIN rows' <=> o \in DOMAIN rows,
         o \in DOMAIN rows => rows'[o] = rows[o]
  PROVE  (Schedulable(o)' <=> Schedulable(o)) /\ Planned(o)' = Planned(o)
BY DEF Schedulable, Planned

LEMMA SameListing ==
  ASSUME NEW u, NEW o, thread'[u] = thread[u], Listed(u, o),
         jobs'[o] = jobs[o], (Schedulable(o)' <=> Schedulable(o)) /\ Planned(o)' = Planned(o)
  PROVE  Listed(u, o)'
BY DEF Listed, Handles

\* A thread that is in sync of no scheduler of the runtime, before as after.  Rows
\* that ask for something else from now on it announces, and those it does not
\* announce any more are missed.
LEMMA Aside ==
  ASSUME PlanInv, NEW t \in Plan!Threads, NEW state, Plan!Become(t, state),
         ~Syncing(t),
         ~(state.pc \in {"list", "add", "remove"} /\ state.scheduler = scheduler),
         UNCHANGED <<scheduler, jobs, tracked, clashed>>,
         missed \subseteq missed',
         \A o \in Owners : \/ /\ o \in DOMAIN rows' <=> o \in DOMAIN rows
                              /\ o \in DOMAIN rows => rows'[o] = rows[o]
                           \/ Planned(o)' = Planned(o) /\ (Schedulable(o)' <=> Schedulable(o))
                           \/ state.pc = "audit" /\ state.owner = o,
         thread[t].pc = "audit" => \/ thread[t].owner \in missed'
                                   \/ state.pc = "audit" /\ state.owner = thread[t].owner
                                   \/ scheduler = 0
  PROVE  OneSyncs' /\ JobsAreKnown' /\ PlanIsMade'
<1>1. /\ thread'[t] = state
      /\ \A u \in Plan!Threads \ {t} : thread'[u] = thread[u]
  BY PlanBecomes DEF PlanInv
<1>2. /\ ~Syncing(t)'
      /\ \A u \in Plan!Threads \ {t} : Syncing(u)' <=> Syncing(u)
  <2>1. ~Syncing(t)'
    BY <1>1 DEF Syncing, Plan!InSync, Plan!Current
  <2> QED BY <1>1, <2>1, SameThread
<1>3. \A u \in Plan!Threads : Syncing(u)' => Syncing(u) /\ thread'[u] = thread[u]
  BY <1>1, <1>2
<1>4. \A u \in Plan!Threads : Syncing(u) => Syncing(u)' /\ thread'[u] = thread[u] /\ u # t
  BY <1>1, <1>2
<1>5. OneSyncs'
  BY <1>3 DEF PlanInv, OneSyncs
<1>6. JobsAreKnown'
  <2>1. SUFFICES ASSUME ~clashed
        PROVE  /\ \A o \in Owners : jobs'[o] # NoTime =>
                    \/ o \in tracked'
                    \/ \E u \in Plan!Threads :
                         Syncing(u)' /\ Handles(u, o)' /\ o \in thread'[u].desired
               /\ \A u \in Plan!Threads : Syncing(u)' /\ thread'[u].pc = "remove" =>
                    \A o \in Plan!OfKind[thread'[u].kind] :
                      jobs'[o] # NoTime => o \in thread'[u].desired \union thread'[u].stale
    BY DEF JobsAreKnown
  <2>2. ASSUME NEW o \in Owners, jobs'[o] # NoTime
        PROVE  \/ o \in tracked'
               \/ \E u \in Plan!Threads :
                    Syncing(u)' /\ Handles(u, o)' /\ o \in thread'[u].desired
    <3>1. \/ o \in tracked
          \/ \E u \in Plan!Threads : Syncing(u) /\ Handles(u, o) /\ o \in thread[u].desired
      BY <2>1, <2>2 DEF PlanInv, JobsAreKnown
    <3> QED BY <1>4, <3>1, SameThread
  <2>3. ASSUME NEW u \in Plan!Threads, Syncing(u)', thread'[u].pc = "remove"
        PROVE  \A o \in Plan!OfKind[thread'[u].kind] :
                 jobs'[o] # NoTime => o \in thread'[u].desired \union thread'[u].stale
    BY <1>3, <2>1, <2>3 DEF PlanInv, JobsAreKnown
  <2> QED BY <2>2, <2>3
<1>7. PlanIsMade'
  <2>1. SUFFICES ASSUME ~clashed, scheduler # 0, NEW o \in Owners \ missed' PROVE Follows(o)'
    BY DEF PlanIsMade
  <2>2. Follows(o)
    BY <2>1 DEF PlanInv, PlanIsMade
  <2>3. CASE state.pc = "audit" /\ state.owner = o
    BY <1>1, <2>3 DEF Follows, Announced
  <2>4. CASE ~(state.pc = "audit" /\ state.owner = o)
    <3>1. (Schedulable(o)' <=> Schedulable(o)) /\ Planned(o)' = Planned(o)
      BY <2>4, SameRow
    <3>2. CASE Announced(o)
      <4>1. PICK u \in Plan!Threads : thread[u].pc = "audit" /\ thread[u].owner = o
        BY <3>2 DEF Announced
      <4>2. u # t
        BY <2>1, <2>4, <4>1
      <4> QED BY <1>1, <4>1, <4>2 DEF Follows, Announced
    <3>3. ASSUME NEW u \in Plan!Threads, Syncing(u), Ahead(u, o) \/ Listed(u, o)
          PROVE  Follows(o)'
      <4>1. Syncing(u)' /\ thread'[u] = thread[u]
        BY <1>4, <3>3
      <4>2. Ahead(u, o)' \/ Listed(u, o)'
        BY <3>1, <3>3, <4>1, SameThread, SameListing
      <4> QED BY <4>1, <4>2 DEF Follows
    <3>4. CASE /\ \A u \in Plan!Threads : Syncing(u) => ~Handles(u, o)
               /\ jobs[o] = Planned(o)
      <4>1. \A u \in Plan!Threads : Syncing(u)' => ~Handles(u, o)'
        BY <1>3, <3>4, SameThread
      <4>2. jobs'[o] = Planned(o)'
        BY <3>1, <3>4
      <4> QED BY <4>1, <4>2 DEF Follows
    <3> QED BY <2>2, <3>2, <3>3, <3>4 DEF Follows
  <2> QED BY <2>3, <2>4
<1> QED BY <1>5, <1>6, <1>7

------------------------------------------------------------------------------
(***************************************************************************)
(* The plan of daily jobs.  Requests.                                      *)
(***************************************************************************)

LEMMA ThreadsDiffer ==
  ASSUME PlanAssumptions, NEW t \in Callers
  PROVE  t \in Plan!Threads /\ t # Reloader /\ Reloader \in Plan!Threads
BY DEF PlanAssumptions, Plan!ReloaderAssumption, Plan!Threads

\* A thread aside leaves the plan as it is.
LEMMA AsideOfPlan ==
  ASSUME PlanAssumptions, PlanInv, NEW t \in Plan!Threads, NEW state, Plan!Become(t, state),
         PlanState(state), state.pc \notin {"drain", "list", "add", "remove"},
         DOMAIN rows \subseteq DOMAIN rows',
         state.pc \in {"load", "write"} => state.owner \in DOMAIN rows,
         UNCHANGED <<scheduler, jobs, tracked, built>>
  PROVE  ThreadsTyped' /\ OwnersAreThere' /\ PlanTyped' /\ NoPlanWithout'
<1>1. built \in Nat /\ MaxReloads \in Nat
  BY DEF PlanInv, PlanTyped, PlanAssumptions, Plan!LimitsAssumption
<1>2. ThreadsTyped'
  BY <1>1, ThreadsStayTyped DEF PlanInv
<1>3. PlanTyped'
  BY DEF PlanInv, PlanTyped
<1>4. /\ thread'[t] = state
      /\ \A u \in Plan!Threads \ {t} : thread'[u] = thread[u]
  BY PlanBecomes DEF PlanInv
<1>5. Reloader \in Plan!Threads
  BY DEF Plan!Threads
<1>6. NoPlanWithout'
  BY <1>4, <1>5 DEF PlanInv, NoPlanWithout
<1>7. OwnersAreThere'
  BY <1>4 DEF PlanInv, OwnersAreThere
<1> QED BY <1>2, <1>3, <1>6, <1>7

\* Who is idle, or works on a row, is in sync of nothing.
LEMMA NotSyncing ==
  ASSUME NEW t, thread[t].pc \in {"idle", "drain", "load", "write", "audit"} \/ thread[t] = Idle
  PROVE  ~Syncing(t)
BY DEF Syncing, Plan!InSync, Idle

LEMMA Creates ==
  ASSUME PlanAssumptions, PlanInv, NEW t \in Plan!Threads, NEW o \in Owners, Plan!Create(t, o)
  PROVE  PlanInv'
<1> DEFINE state == IF o \in Profiles THEN [pc |-> "audit", owner |-> o] ELSE Idle
<1>1. PICK row \in Plan!ValidRows(o) :
        /\ IF o \in Profiles THEN ~row.archived
           ELSE row = [enabled |-> FALSE, time |-> NoTime]
        /\ rows' = [u \in DOMAIN rows \union {o} |-> IF u = o THEN row ELSE rows[u]]
  BY DEF Plan!Create
<1>2. /\ thread[t] = Idle /\ o \notin DOMAIN rows
      /\ changes < MaxChanges /\ changes' = changes + 1
      /\ Plan!Become(t, state)
      /\ UNCHANGED <<scheduler, jobs, tracked, built, faults, clashed, missed>>
  BY SameTable DEF Plan!Create, Plan!plan, Plan!history
<1>3. PlanState(state) /\ state.pc \in {"audit", "idle"} /\ (o \in Profiles => state.pc = "audit")
      /\ (state.pc = "audit" => state.owner = o)
  BY PlainStates
<1> HIDE DEF state
<1>4. /\ DOMAIN rows' = DOMAIN rows \union {o} /\ rows'[o] = row
      /\ \A u \in DOMAIN rows : rows'[u] = rows[u]
  BY <1>1, <1>2
<1>5. row \in RowsOf(o)
  BY <1>1 DEF Plan!ValidRows, RowsOf
<1>6. TablesTyped'
  <2>1. changes' \in 0..MaxChanges
    BY <1>2 DEF PlanInv, TablesTyped, PlanAssumptions, Plan!LimitsAssumption
  <2> QED BY <1>2, <1>4, <1>5, <2>1 DEF PlanInv, TablesTyped
<1>7. ~Schedulable(o) /\ (o \notin Profiles => ~Schedulable(o)')
  BY <1>1, <1>2, <1>4 DEF Schedulable
<1>8. ThreadsTyped' /\ OwnersAreThere' /\ PlanTyped' /\ NoPlanWithout'
  BY <1>2, <1>3, <1>4, AsideOfPlan
<1>9. OneSyncs' /\ JobsAreKnown' /\ PlanIsMade'
  <2>1. \A u \in Owners : \/ /\ u \in DOMAIN rows' <=> u \in DOMAIN rows
                             /\ u \in DOMAIN rows => rows'[u] = rows[u]
                          \/ Planned(u)' = Planned(u) /\ (Schedulable(u)' <=> Schedulable(u))
                          \/ state.pc = "audit" /\ state.owner = u
    <3>1. o \notin Profiles => Planned(o)' = Planned(o) /\ (Schedulable(o)' <=> Schedulable(o))
      BY <1>7 DEF Planned
    <3> QED BY <1>3, <1>4, <3>1
  <2>2. ~Syncing(t) /\ thread[t].pc # "audit"
    BY <1>2, NotSyncing DEF Idle
  <2> QED BY <1>2, <1>3, <2>1, <2>2, Aside
<1> QED BY <1>6, <1>8, <1>9 DEF PlanInv

\* A request that has read a row goes on: nothing changes yet.
LEMMA Updates ==
  ASSUME PlanAssumptions, PlanInv, NEW t \in Plan!Threads,
         (\E o \in Owners : Plan!Update(t, o)) \/ Plan!UpdateLoads(t)
  PROVE  PlanInv'
<1>1. PICK state : /\ Plan!Become(t, state) /\ PlanState(state)
                   /\ state.pc \in {"load", "write"} /\ state.owner \in DOMAIN rows
  <2>1. CASE \E o \in Owners : Plan!Update(t, o)
    <3>1. PICK o \in Owners : Plan!Update(t, o)
      BY <2>1
    <3>2. PICK new \in Plan!ValidRows(o) :
            Plan!Become(t, [pc |-> "load", owner |-> o, new |-> new])
      BY <3>1 DEF Plan!Update
    <3>3. new \in RowsOf(o)
      BY DEF Plan!ValidRows, RowsOf
    <3>4. PlanState([pc |-> "load", owner |-> o, new |-> new])
      BY <3>3 DEF PlanState, Idle
    <3>5. o \in DOMAIN rows
      BY <3>1 DEF Plan!Update
    <3> QED BY <3>2, <3>4, <3>5
  <2>2. CASE Plan!UpdateLoads(t)
    <3> DEFINE state == [pc |-> "write", owner |-> thread[t].owner, new |-> thread[t].new,
                         seen |-> rows[thread[t].owner]]
    <3>1. thread[t].pc = "load" /\ Plan!Become(t, state)
      BY <2>2 DEF Plan!UpdateLoads
    <3>2. thread[t].owner \in Owners /\ thread[t].new \in RowsOf(thread[t].owner)
      BY <3>1 DEF PlanInv, ThreadsTyped, PlanState
    <3>3. /\ thread[t].owner \in DOMAIN rows
          /\ rows[thread[t].owner] \in RowsOf(thread[t].owner)
      BY <3>1 DEF PlanInv, TablesTyped, OwnersAreThere
    <3>4. PlanState(state)
      BY <3>2, <3>3 DEF PlanState, Idle
    <3> QED BY <3>1, <3>3, <3>4
  <2> QED BY <2>1, <2>2
<1>2. /\ thread[t].pc \in {"load"} \/ thread[t] = Idle
      /\ \/ changes' = changes
         \/ changes < MaxChanges /\ changes' = changes + 1
      /\ UNCHANGED <<rows, scheduler, jobs, tracked, built, faults, clashed, missed>>
  BY SameTable DEF Plan!Update, Plan!UpdateLoads, Plan!tables, Plan!plan, Plan!history
<1>3. changes' \in 0..MaxChanges
  BY <1>2 DEF PlanInv, TablesTyped, PlanAssumptions, Plan!LimitsAssumption
<1>4. TablesTyped'
  BY <1>2, <1>3 DEF PlanInv, TablesTyped
<1>5. ThreadsTyped' /\ OwnersAreThere' /\ PlanTyped' /\ NoPlanWithout'
  BY <1>1, <1>2, AsideOfPlan
<1>6. ~Syncing(t) /\ thread[t].pc # "audit"
  BY <1>2, NotSyncing DEF Idle
<1>7. OneSyncs' /\ JobsAreKnown' /\ PlanIsMade'
  BY <1>1, <1>2, <1>6, Aside
<1> QED BY <1>4, <1>5, <1>7 DEF PlanInv

LEMMA MergedIsRow ==
  ASSUME NEW o, NEW row \in RowsOf(o), NEW new \in RowsOf(o), NEW old \in RowsOf(o)
  PROVE  Plan!Merged(row, new, old) \in RowsOf(o)
<1>1. CASE o \in Profiles
  <2>1. /\ row \in Plan!ProfileRows /\ new \in Plan!ProfileRows /\ old \in Plan!ProfileRows
    BY <1>1 DEF RowsOf
  <2>2. row \notin Plan!Automations
    <3>1. "sources" \in DOMAIN row
      BY <2>1 DEF Plan!ProfileRows
    <3>2. row \in Plan!Automations => "sources" \notin DOMAIN row
      BY DEF Plan!Automations
    <3> QED BY <3>1, <3>2
  <2> DEFINE enabled == IF new.enabled = old.enabled THEN row.enabled ELSE new.enabled
             time == IF new.time = old.time THEN row.time ELSE new.time
             sources == IF new.sources = old.sources THEN row.sources ELSE new.sources
  <2>3. /\ enabled \in BOOLEAN /\ time \in Plan!OptionalTimes /\ sources \in SourceSets
    BY <2>1 DEF Plan!ProfileRows
  <2>4. Plan!Merged(row, new, old) =
          [row EXCEPT !.enabled = enabled, !.time = time, !.sources = sources]
    BY <2>2 DEF Plan!Merged
  <2> HIDE DEF enabled, time, sources
  <2>5. [row EXCEPT !.enabled = enabled, !.time = time, !.sources = sources] \in Plan!ProfileRows
    BY <2>1, <2>3 DEF Plan!ProfileRows
  <2> QED BY <1>1, <2>4, <2>5 DEF RowsOf
<1>2. CASE o \notin Profiles
  BY <1>2 DEF RowsOf, Plan!Merged
<1> QED BY <1>1, <1>2

\* A request changes a row, and goes on to its audit event.
LEMMA Changes ==
  ASSUME PlanAssumptions, PlanInv, NEW t \in Plan!Threads,
         Plan!UpdateWrites(t) \/ \E p \in Owners : Plan!Archive(t, p)
  PROVE  PlanInv'
<1>1. PICK o \in DOMAIN rows :
        /\ Plan!Become(t, [pc |-> "audit", owner |-> o])
        /\ \A u \in DOMAIN rows : u # o => rows'[u] = rows[u]
        /\ DOMAIN rows' = DOMAIN rows /\ rows'[o] \in RowsOf(o)
  <2>1. CASE Plan!UpdateWrites(t)
    <3> DEFINE o == thread[t].owner
               mixed == Plan!Merged(rows[o], thread[t].new, thread[t].seen)
    <3>1. /\ thread[t].pc = "write" /\ rows' = [rows EXCEPT ![o] = mixed]
          /\ Plan!Become(t, [pc |-> "audit", owner |-> o])
      BY <2>1 DEF Plan!UpdateWrites
    <3>2. /\ o \in DOMAIN rows /\ thread[t].new \in RowsOf(o) /\ thread[t].seen \in RowsOf(o)
      BY <3>1 DEF PlanInv, ThreadsTyped, OwnersAreThere, PlanState
    <3>3. mixed \in RowsOf(o)
      BY <3>2, MergedIsRow DEF PlanInv, TablesTyped
    <3> HIDE DEF mixed
    <3>4. /\ DOMAIN rows' = DOMAIN rows /\ rows'[o] = mixed
          /\ \A u \in DOMAIN rows : u # o => rows'[u] = rows[u]
      BY <3>1, <3>2
    <3> QED BY <3>1, <3>2, <3>3, <3>4
  <2>2. CASE \E p \in Owners : Plan!Archive(t, p)
    <3>1. PICK p \in Owners : Plan!Archive(t, p)
      BY <2>2
    <3>2. PICK archived \in BOOLEAN : rows' = [rows EXCEPT ![p].archived = archived]
      BY <3>1 DEF Plan!Archive
    <3>3. /\ p \in Profiles /\ p \in DOMAIN rows
          /\ Plan!Become(t, [pc |-> "audit", owner |-> p])
      BY <3>1 DEF Plan!Archive
    <3>4. rows[p] \in Plan!ProfileRows
      BY <3>3 DEF PlanInv, TablesTyped, RowsOf
    <3>5. [rows[p] EXCEPT !.archived = archived] \in RowsOf(p)
      BY <3>3, <3>4 DEF Plan!ProfileRows, RowsOf
    <3>6. /\ DOMAIN rows' = DOMAIN rows /\ rows'[p] = [rows[p] EXCEPT !.archived = archived]
          /\ \A u \in DOMAIN rows : u # p => rows'[u] = rows[u]
      BY <3>2, <3>3
    <3> QED BY <3>3, <3>5, <3>6
  <2> QED BY <2>1, <2>2
<1>2. /\ thread[t].pc = "write" \/ thread[t] = Idle
      /\ \/ changes' = changes
         \/ changes < MaxChanges /\ changes' = changes + 1
      /\ UNCHANGED <<scheduler, jobs, tracked, built, faults, clashed, missed>>
  BY SameTable DEF Plan!UpdateWrites, Plan!Archive, Plan!plan, Plan!history
<1> DEFINE state == [pc |-> "audit", owner |-> o]
<1>3. o \in Owners
  BY DEF PlanInv, TablesTyped
<1>4. PlanState(state) /\ state.pc = "audit" /\ state.owner = o
  BY <1>3, PlainStates
<1> HIDE DEF state
<1>5. TablesTyped'
  <2>1. changes' \in 0..MaxChanges
    BY <1>2 DEF PlanInv, TablesTyped, PlanAssumptions, Plan!LimitsAssumption
  <2>2. \A u \in DOMAIN rows' : rows'[u] \in RowsOf(u)
    BY <1>1 DEF PlanInv, TablesTyped
  <2> QED BY <1>1, <1>2, <2>1, <2>2 DEF PlanInv, TablesTyped
<1>6. Plan!Become(t, state)
  BY <1>1 DEF state
<1>7. ThreadsTyped' /\ OwnersAreThere' /\ PlanTyped' /\ NoPlanWithout'
  BY <1>1, <1>2, <1>4, <1>6, AsideOfPlan
<1>8. ~Syncing(t) /\ thread[t].pc # "audit"
  BY <1>2, NotSyncing DEF Idle
<1>9. OneSyncs' /\ JobsAreKnown' /\ PlanIsMade'
  BY <1>1, <1>2, <1>4, <1>6, <1>8, Aside
<1> QED BY <1>5, <1>7, <1>9 DEF PlanInv

\* A request that ends without a sync, by a failure or because there is no
\* scheduler; and sync of a scheduler that is no more.
LEMMA EndsWithoutSync ==
  ASSUME PlanAssumptions, PlanInv, NEW t \in Plan!Threads,
         \/ Plan!AuditFails(t) \/ Plan!Abandon(t)
         \/ Plan!CallSync(t) /\ scheduler = 0
  PROVE  PlanInv'
<1>1. /\ Plan!Become(t, Idle) /\ ~Syncing(t)
      /\ UNCHANGED <<rows, changes, scheduler, jobs, tracked, built, clashed>>
      /\ missed \subseteq missed'
      /\ thread[t].pc = "audit" => thread[t].owner \in missed' \/ scheduler = 0
  <2>1. CASE Plan!AuditFails(t)
    BY <2>1, SameTable, NotSyncing DEF Plan!AuditFails, Plan!tables, Plan!plan
  <2>2. CASE Plan!Abandon(t)
    BY <2>2, SameTable DEF Plan!Abandon, Plan!tables, Plan!plan, Plan!history, Syncing,
       Plan!InSync
  <2>3. CASE Plan!CallSync(t) /\ scheduler = 0
    <3>1. clashed' = clashed
      BY <2>3 DEF Plan!CallSync, PlanInv, TablesTyped
    <3> QED BY <2>3, <3>1, SameTable, NotSyncing DEF Plan!CallSync, Plan!tables, Plan!plan
  <2> QED BY <2>1, <2>2, <2>3
<1>2. TablesTyped'
  <2>1. faults' \in 0..MaxFaults
    <3>1. faults \in 0..MaxFaults /\ MaxFaults \in Nat
      BY DEF PlanInv, TablesTyped, PlanAssumptions, Plan!LimitsAssumption
    <3>2. \/ faults' = faults
          \/ faults < MaxFaults /\ faults' = faults + 1
      BY DEF Plan!AuditFails, Plan!Abandon, Plan!CallSync
    <3> QED BY <3>1, <3>2
  <2>2. missed' \subseteq Owners
    <3>1. thread[t].pc = "audit" => thread[t].owner \in Owners
      BY DEF PlanInv, ThreadsTyped, PlanState
    <3>2. \/ missed' = missed
          \/ thread[t].pc = "audit" /\ missed' = missed \union {thread[t].owner}
      BY DEF Plan!AuditFails, Plan!Abandon, Plan!CallSync, Plan!history
    <3> QED BY <3>1, <3>2 DEF PlanInv, TablesTyped
  <2> QED BY <1>1, <2>1, <2>2 DEF PlanInv, TablesTyped
<1>3. ThreadsTyped' /\ OwnersAreThere' /\ PlanTyped' /\ NoPlanWithout'
  BY <1>1, PlainStates, AsideOfPlan
<1>4. OneSyncs' /\ JobsAreKnown' /\ PlanIsMade'
  BY <1>1, PlainStates, Aside
<1> QED BY <1>2, <1>3, <1>4 DEF PlanInv

------------------------------------------------------------------------------
(***************************************************************************)
(* The plan of daily jobs.  Sync.                                          *)
(***************************************************************************)

\* What a thread in sync knows.
LEMMA SyncFields ==
  ASSUME PlanInv, NEW t \in Plan!Threads, Syncing(t)
  PROVE  /\ thread[t].kind \in {"profile", "watchlist"} /\ thread[t].scheduler = scheduler
         /\ scheduler \in 1..built /\ scheduler # 0
         /\ thread[t].pc \in {"list", "add", "remove"}
         /\ thread[t].pc \in {"add", "remove"} =>
              thread[t].desired \subseteq Plan!OfKind[thread[t].kind]
<1>1. /\ thread[t].pc \in {"list", "add", "remove"} /\ thread[t].scheduler = scheduler
  BY DEF Syncing, Plan!InSync, Plan!Current
<1>2. PlanState(thread[t]) /\ thread[t].scheduler \in 1..built
  BY DEF PlanInv, ThreadsTyped, Syncing
<1>3. scheduler # 0
  BY <1>1, <1>2
<1> QED BY <1>1, <1>2, <1>3 DEF PlanState

\* It goes on, or ends, and is the only one.
LEMMA SyncGoesOn ==
  ASSUME PlanInv, NEW t \in Plan!Threads, Syncing(t), NEW state, Plan!Become(t, state),
         PlanState(state), state.pc \in {"idle", "list", "add", "remove"},
         state.pc # "idle" => state.scheduler = scheduler,
         DOMAIN rows' = DOMAIN rows,
         UNCHANGED <<scheduler, built, clashed>>
  PROVE  /\ ThreadsTyped' /\ OwnersAreThere' /\ NoPlanWithout' /\ OneSyncs'
         /\ thread'[t] = state
         /\ Syncing(t)' <=> state.pc # "idle"
         /\ ~clashed => \A u \in Plan!Threads : (Syncing(u) => u = t) /\ (Syncing(u)' => u = t)
         /\ \A o : Announced(o)' <=> Announced(o)
<1>1. /\ thread'[t] = state
      /\ \A u \in Plan!Threads \ {t} : thread'[u] = thread[u]
  BY PlanBecomes DEF PlanInv
<1>2. scheduler \in 1..built /\ scheduler # 0 /\ thread[t].pc \in {"list", "add", "remove"}
  BY SyncFields
<1>3. ThreadsTyped'
  <2>1. built \in Nat
    BY DEF PlanInv, PlanTyped
  <2> QED BY <1>2, <2>1, ThreadsStayTyped DEF PlanInv
<1>4. OwnersAreThere'
  BY <1>1 DEF PlanInv, OwnersAreThere
<1>5. NoPlanWithout'
  <2>1. thread'[Reloader].pc # "drain"
    <3>1. Reloader \in Plan!Threads /\ thread[Reloader].pc # "drain"
      BY <1>2 DEF PlanInv, NoPlanWithout, Plan!Threads
    <3> QED BY <1>1, <3>1
  <2> QED BY <1>2, <2>1 DEF NoPlanWithout
<1>6. \A u \in Plan!Threads \ {t} : Syncing(u)' <=> Syncing(u)
  BY <1>1, SameThread
<1>7. Syncing(t)' <=> state.pc # "idle"
  BY <1>1 DEF Syncing, Plan!InSync, Plan!Current
<1>8. ~clashed => \A u \in Plan!Threads : (Syncing(u) => u = t) /\ (Syncing(u)' => u = t)
  BY <1>6 DEF PlanInv, OneSyncs
<1>9. OneSyncs'
  BY <1>8 DEF OneSyncs
<1>10. \A o : Announced(o)' <=> Announced(o)
  BY <1>1, <1>2 DEF Announced
<1> QED BY <1>1, <1>3, <1>4, <1>5, <1>7, <1>8, <1>9, <1>10

\* sync begins: it has all to list.
LEMMA CallsSync ==
  ASSUME PlanAssumptions, PlanInv, NEW t \in Plan!Threads, Plan!CallSync(t), scheduler # 0
  PROVE  PlanInv'
<1> DEFINE state == [pc |-> "list", scheduler |-> scheduler, kind |-> "profile"]
<1>1. /\ thread[t].pc = "audit" /\ Plan!Become(t, state)
      /\ clashed' = (clashed \/ \E u \in Plan!Threads : Plan!InSync(u))
      /\ UNCHANGED <<rows, changes, scheduler, jobs, tracked, built, faults, missed>>
  BY DEF Plan!CallSync, Plan!tables, Plan!plan
<1>2. built \in Nat /\ scheduler \in 1..built
  <2>1. built \in Nat /\ scheduler = built /\ built # 0
    BY DEF PlanInv, PlanTyped
  <2> QED BY <2>1
<1>3. /\ PlanState(state) /\ state.pc = "list" /\ state.scheduler = scheduler
      /\ state.kind = "profile"
  <2>1. scheduler \in Nat
    BY <1>2
  <2>2. PlanState(state)
    BY <2>1, PlainStates
  <2> QED BY <2>2
<1> HIDE DEF state
<1>4. /\ thread'[t] = state
      /\ \A u \in Plan!Threads \ {t} : thread'[u] = thread[u]
  BY <1>1, PlanBecomes DEF PlanInv
<1>5. ThreadsTyped'
  BY <1>1, <1>2, <1>3, ThreadsStayTyped DEF PlanInv
<1>6. TablesTyped' /\ PlanTyped'
  <2>1. clashed' \in BOOLEAN
    BY <1>1 DEF PlanInv, TablesTyped
  <2> QED BY <1>1, <2>1 DEF PlanInv, TablesTyped, PlanTyped
<1>7. OwnersAreThere' /\ NoPlanWithout'
  <2>1. Reloader \in Plan!Threads
    BY DEF Plan!Threads
  <2> QED BY <1>1, <1>3, <1>4, <2>1 DEF PlanInv, OwnersAreThere, NoPlanWithout
<1>8. Syncing(t)' /\ \A o : Ahead(t, o)'
  BY <1>1, <1>3, <1>4 DEF Syncing, Ahead, Plan!InSync, Plan!Current
<1>9. PlanIsMade'
  BY <1>8 DEF PlanIsMade, Follows
<1>10. ~clashed' => \A u \in Plan!Threads : ~Syncing(u) /\ (Syncing(u)' => u = t)
  BY <1>1, <1>4, SameThread DEF Syncing
<1>11. OneSyncs'
  BY <1>10 DEF OneSyncs
<1>12. JobsAreKnown'
  <2>1. SUFFICES ASSUME ~clashed'
        PROVE  /\ \A o \in Owners : jobs[o] # NoTime => o \in tracked
               /\ \A u \in Plan!Threads : Syncing(u)' => thread'[u].pc # "remove"
    BY <1>1 DEF JobsAreKnown
  <2>2. ~clashed
    BY <1>1, <2>1
  <2>3. \A o \in Owners : jobs[o] # NoTime => o \in tracked
    BY <1>10, <2>1, <2>2 DEF PlanInv, JobsAreKnown
  <2> QED BY <1>3, <1>4, <1>10, <2>1, <2>3
<1> QED BY <1>5, <1>6, <1>7, <1>9, <1>11, <1>12 DEF PlanInv

\* sync lists the rows of a kind.
LEMMA Lists ==
  ASSUME PlanAssumptions, PlanInv, NEW t \in Plan!Threads, Plan!List(t)
  PROVE  PlanInv'
<1> DEFINE mine == Plan!OfKind[thread[t].kind]
           wanted == {o \in mine : Schedulable(o)}
           todo == [o \in wanted |-> rows[o].time]
           state == [pc |-> "add", scheduler |-> scheduler, kind |-> thread[t].kind,
                     todo |-> todo, desired |-> wanted]
<1>1. /\ thread[t].pc = "list" /\ Syncing(t) /\ Plan!Become(t, state)
      /\ missed' = missed \ mine
      /\ UNCHANGED <<rows, changes, scheduler, jobs, tracked, built, faults, clashed>>
  <2>1. wanted = {o \in mine : Plan!Schedulable(o)}
    BY SameTable
  <2> QED BY <2>1 DEF Plan!List, Syncing, Plan!InSync, Plan!Current, Plan!tables, Plan!plan
<1>2. /\ thread[t].kind \in {"profile", "watchlist"} /\ mine \subseteq Owners
      /\ Profiles \intersect Watchlists = {}
  BY <1>1, SyncFields, Kinds DEF PlanAssumptions, Plan!OwnersAssumption
<1>3. /\ state.pc = "add" /\ state.scheduler = scheduler /\ state.kind = thread[t].kind
      /\ state.todo = todo /\ state.desired = wanted
  OBVIOUS
<1>4. \A o \in wanted : rows[o].time \in Plan!OptionalTimes /\ rows[o].time = Planned(o)
  BY <1>2 DEF PlanInv, TablesTyped, RowsOf, Plan!ProfileRows, Plan!Automations, Schedulable,
     Planned
<1>5. DOMAIN todo = wanted /\ \A o \in wanted : todo[o] = rows[o].time
  OBVIOUS
<1>6. PlanState(state)
  <2>1. state = [pc |-> "add", scheduler |-> state.scheduler, kind |-> state.kind,
                 todo |-> state.todo, desired |-> state.desired]
    OBVIOUS
  <2>2. state # Idle
    BY <1>3 DEF Idle
  <2>3. wanted \subseteq mine
    OBVIOUS
  <2> HIDE DEF state, todo, wanted, mine
  <2> QED BY <1>2, <1>3, <1>4, <1>5, <2>1, <2>2, <2>3 DEF PlanState, mine
<1>7. \A o : /\ o \in wanted <=> o \in mine /\ Schedulable(o)
             /\ o \in mine /\ ~Schedulable(o) => Planned(o) = NoTime
  BY DEF Planned
<1> HIDE DEF state, todo, wanted
<1>8. /\ ThreadsTyped' /\ OwnersAreThere' /\ NoPlanWithout' /\ OneSyncs'
      /\ thread'[t] = state /\ Syncing(t)'
      /\ ~clashed => \A u \in Plan!Threads : (Syncing(u) => u = t) /\ (Syncing(u)' => u = t)
      /\ \A o : Announced(o)' <=> Announced(o)
  BY <1>1, <1>3, <1>6, SyncGoesOn
<1>9. TablesTyped' /\ PlanTyped'
  BY <1>1 DEF PlanInv, TablesTyped, PlanTyped
<1>10. JobsAreKnown'
  <2>1. SUFFICES ASSUME ~clashed
        PROVE  /\ \A o \in Owners : jobs[o] # NoTime => o \in tracked
               /\ \A u \in Plan!Threads : Syncing(u)' => thread'[u].pc # "remove"
    BY <1>1 DEF JobsAreKnown
  <2>2. \A u \in Plan!Threads, o \in Owners : Syncing(u) => ~Handles(u, o)
    BY <1>1, <1>8, <2>1 DEF Handles
  <2>3. \A o \in Owners : jobs[o] # NoTime => o \in tracked
    BY <2>1, <2>2 DEF PlanInv, JobsAreKnown
  <2> QED BY <1>3, <1>8, <2>1, <2>3
<1>11. PlanIsMade'
  <2>1. SUFFICES ASSUME ~clashed, NEW o \in Owners \ missed' PROVE Follows(o)'
    BY <1>1 DEF PlanIsMade
  <2>2. Schedulable(o)' = Schedulable(o) /\ Planned(o)' = Planned(o)
    BY <1>1 DEF Schedulable, Planned
  <2>3. CASE o \in mine
    <3>1. Listed(t, o)'
      BY <1>3, <1>4, <1>5, <1>7, <1>8, <2>2, <2>3 DEF Listed, Handles
    <3> QED BY <1>8, <3>1 DEF Follows
  <2>4. CASE o \notin mine
    <3>1. o \notin missed /\ scheduler # 0
      BY <1>1, <2>1, <2>4, SyncFields
    <3>2. Follows(o)
      BY <2>1, <3>1 DEF PlanInv, PlanIsMade
    <3>3. CASE Announced(o)
      BY <1>8, <3>3 DEF Follows
    <3>4. CASE \E u \in Plan!Threads : Syncing(u) /\ (Ahead(u, o) \/ Listed(u, o))
      <4>1. Ahead(t, o) \/ Listed(t, o)
        BY <1>8, <2>1, <3>4
      <4>2. Ahead(t, o)
        BY <1>1, <4>1 DEF Listed, Handles
      <4>3. thread[t].kind = "profile" /\ o \in Watchlists
        BY <1>1, <1>2, <2>4, <4>2, Kinds DEF Ahead, Owners
      <4>4. Ahead(t, o)'
        BY <1>3, <1>8, <4>3 DEF Ahead
      <4> QED BY <1>8, <4>4 DEF Follows
    <3>5. CASE jobs[o] = Planned(o)
      <4>1. \A u \in Plan!Threads : Syncing(u)' => ~Handles(u, o)'
        BY <1>3, <1>8, <2>1, <2>4 DEF Handles
      <4> QED BY <1>1, <2>2, <3>5, <4>1 DEF Follows
    <3> QED BY <3>2, <3>3, <3>4, <3>5 DEF Follows
  <2> QED BY <2>3, <2>4
<1> QED BY <1>8, <1>9, <1>10, <1>11 DEF PlanInv

\* What sync disturbs of the plan, it handles: the rest of the plan follows the table
\* as before.
LEMMA OthersFollow ==
  ASSUME PlanInv, ~clashed, NEW t \in Plan!Threads, Syncing(t), thread[t].pc \in {"add", "remove"},
         Syncing(t)',
         \A u \in Plan!Threads : (Syncing(u) => u = t) /\ (Syncing(u)' => u = t),
         thread'[t].pc \in {"add", "remove"}, thread'[t].kind = thread[t].kind,
         \A o : Announced(o)' <=> Announced(o),
         UNCHANGED <<rows, missed>>,
         \A o \in Owners \ Plan!OfKind[thread[t].kind] : jobs'[o] = jobs[o],
         \A o \in Plan!OfKind[thread[t].kind] : Listed(t, o) => Listed(t, o)'
  PROVE  PlanIsMade'
<1>1. SUFFICES ASSUME NEW o \in Owners \ missed PROVE Follows(o)'
  BY DEF PlanIsMade
<1>2. Follows(o)
  BY SyncFields DEF PlanInv, PlanIsMade
<1>3. Planned(o)' = Planned(o)
  BY DEF Schedulable, Planned
<1>4. (Handles(t, o)' <=> Handles(t, o)) /\ (Ahead(t, o) => Ahead(t, o)')
  BY DEF Handles, Ahead
<1>5. CASE Announced(o)
  BY <1>5 DEF Follows
<1>6. CASE \E u \in Plan!Threads : Syncing(u) /\ (Ahead(u, o) \/ Listed(u, o))
  <2>1. Ahead(t, o) \/ Listed(t, o)
    BY <1>6
  <2>2. Listed(t, o) => o \in Plan!OfKind[thread[t].kind]
    BY DEF Listed, Handles
  <2>3. Ahead(t, o)' \/ Listed(t, o)'
    BY <1>4, <2>1, <2>2
  <2> QED BY <2>3 DEF Follows
<1>7. CASE /\ \A u \in Plan!Threads : Syncing(u) => ~Handles(u, o)
           /\ jobs[o] = Planned(o)
  <2>1. o \notin Plan!OfKind[thread[t].kind]
    BY <1>7 DEF Handles
  <2>2. jobs'[o] = Planned(o)'
    BY <1>3, <1>7, <2>1
  <2>3. \A u \in Plan!Threads : Syncing(u)' => ~Handles(u, o)'
    BY <1>4, <1>7
  <2> QED BY <2>2, <2>3 DEF Follows
<1> QED BY <1>2, <1>5, <1>6, <1>7 DEF Follows

LEMMA AddsJob ==
  ASSUME PlanAssumptions, PlanInv, NEW t \in Plan!Threads, Plan!AddJob(t)
  PROVE  PlanInv'
<1>1. PICK o \in DOMAIN thread[t].todo :
        /\ jobs' = [jobs EXCEPT ![o] = thread[t].todo[o]]
        /\ Plan!Become(t, [thread[t] EXCEPT !.todo = [u \in DOMAIN @ \ {o} |-> @[u]]])
  BY DEF Plan!AddJob
<1>2. /\ thread[t].pc = "add" /\ Syncing(t)
      /\ UNCHANGED <<rows, changes, scheduler, tracked, built, faults, clashed, missed>>
  BY DEF Plan!AddJob, Syncing, Plan!InSync, Plan!Current, Plan!tables, Plan!history
<1>3. PlanState(thread[t])
  BY DEF PlanInv, ThreadsTyped
<1> DEFINE kind == thread[t].kind
           desired == thread[t].desired
           todo == thread[t].todo
           rest == [u \in DOMAIN todo \ {o} |-> todo[u]]
           state == [pc |-> "add", scheduler |-> thread[t].scheduler, kind |-> kind,
                     todo |-> rest, desired |-> desired]
<1>4. /\ thread[t] = [pc |-> "add", scheduler |-> thread[t].scheduler, kind |-> kind,
                      todo |-> todo, desired |-> desired]
      /\ DOMAIN todo \subseteq desired /\ desired \subseteq Plan!OfKind[kind]
      /\ \A u \in DOMAIN todo : todo[u] \in Plan!OptionalTimes
      /\ kind \in {"profile", "watchlist"} /\ Plan!OfKind[kind] \subseteq Owners
  BY <1>2, <1>3, Kinds DEF PlanState
<1>5. Plan!Become(t, state)
  BY <1>1, <1>4
<1>6. /\ state.pc = "add" /\ state.scheduler = scheduler /\ state.kind = kind
      /\ state.todo = rest /\ state.desired = desired
      /\ state = [pc |-> "add", scheduler |-> state.scheduler, kind |-> state.kind,
                  todo |-> state.todo, desired |-> state.desired]
  BY <1>2, SyncFields
<1>7. DOMAIN rest = DOMAIN todo \ {o} /\ \A u \in DOMAIN todo \ {o} : rest[u] = todo[u]
  OBVIOUS
<1> HIDE DEF state, rest
<1>8. PlanState(state)
  BY <1>4, <1>6, <1>7 DEF PlanState, Idle
<1>9. /\ ThreadsTyped' /\ OwnersAreThere' /\ NoPlanWithout' /\ OneSyncs'
      /\ thread'[t] = state /\ Syncing(t)'
      /\ ~clashed => \A u \in Plan!Threads : (Syncing(u) => u = t) /\ (Syncing(u)' => u = t)
      /\ \A u : Announced(u)' <=> Announced(u)
  BY <1>2, <1>5, <1>6, <1>8, SyncGoesOn
<1>10. /\ jobs' \in [Owners -> Plan!OptionalTimes] /\ jobs'[o] = todo[o]
       /\ \A u \in Owners : u # o => jobs'[u] = jobs[u]
  BY <1>1, <1>4 DEF PlanInv, PlanTyped
<1>11. TablesTyped' /\ PlanTyped'
  BY <1>2, <1>10 DEF PlanInv, TablesTyped, PlanTyped
<1>12. JobsAreKnown'
  <2>1. SUFFICES ASSUME ~clashed
        PROVE  /\ \A u \in Owners : jobs'[u] # NoTime =>
                    u \in tracked \/ (Syncing(t)' /\ Handles(t, u)' /\ u \in thread'[t].desired)
               /\ \A u \in Plan!Threads : Syncing(u)' => thread'[u].pc # "remove"
    BY <1>2 DEF JobsAreKnown
  <2>2. \A u \in Owners : jobs[u] # NoTime =>
          u \in tracked \/ (Handles(t, u) /\ u \in desired)
    BY <1>9, <2>1 DEF PlanInv, JobsAreKnown
  <2>3. \A u \in Owners : Handles(t, u) => Handles(t, u)'
    BY <1>6, <1>9 DEF Handles
  <2>4. Handles(t, o)' /\ o \in thread'[t].desired
    BY <1>4, <1>6, <1>9 DEF Handles
  <2> QED BY <1>6, <1>9, <1>10, <2>1, <2>2, <2>3, <2>4
<1>13. PlanIsMade'
  <2>1. SUFFICES ASSUME ~clashed PROVE PlanIsMade'
    BY <1>2 DEF PlanIsMade
  <2>2. ASSUME NEW u \in Plan!OfKind[kind], Listed(t, u) PROVE Listed(t, u)'
    <3>1. (Schedulable(u)' <=> Schedulable(u)) /\ Planned(u)' = Planned(u)
      BY <1>2 DEF Schedulable, Planned
    <3>2. Handles(t, u)'
      BY <1>6, <1>9 DEF Handles
    <3>3. (u \in desired <=> Schedulable(u))
      BY <2>2 DEF Listed
    <3>4. u \in desired => IF u \in DOMAIN rest THEN rest[u] = Planned(u)
                           ELSE jobs'[u] = Planned(u)
      BY <1>2, <1>4, <1>7, <1>10, <2>2 DEF Listed
    <3> QED BY <1>6, <1>9, <3>1, <3>2, <3>3, <3>4 DEF Listed
  <2>3. \A u \in Owners \ Plan!OfKind[kind] : jobs'[u] = jobs[u]
    BY <1>4, <1>10
  <2> QED BY <1>2, <1>6, <1>9, <2>1, <2>2, <2>3, OthersFollow
<1> QED BY <1>9, <1>11, <1>12, <1>13 DEF PlanInv

LEMMA FindsStale ==
  ASSUME PlanAssumptions, PlanInv, NEW t \in Plan!Threads, Plan!FindStale(t)
  PROVE  PlanInv'
<1> DEFINE kind == thread[t].kind
           desired == thread[t].desired
           stale == (tracked \intersect Plan!OfKind[kind]) \ desired
           state == [pc |-> "remove", scheduler |-> scheduler, kind |-> kind, stale |-> stale,
                     desired |-> desired]
<1>1. /\ thread[t].pc = "add" /\ Syncing(t) /\ thread[t].todo = Plan!Empty
      /\ Plan!Become(t, state)
      /\ UNCHANGED <<rows, changes, scheduler, jobs, tracked, built, faults, clashed, missed>>
  BY DEF Plan!FindStale, Syncing, Plan!InSync, Plan!Current, Plan!tables, Plan!plan, Plan!history
<1>2. /\ kind \in {"profile", "watchlist"} /\ desired \subseteq Plan!OfKind[kind]
      /\ DOMAIN thread[t].todo = {}
  BY <1>1, SyncFields DEF Plan!Empty
<1>3. /\ state.pc = "remove" /\ state.scheduler = scheduler /\ state.kind = kind
      /\ state.stale = stale /\ state.desired = desired
      /\ state = [pc |-> "remove", scheduler |-> state.scheduler, kind |-> state.kind,
                  stale |-> state.stale, desired |-> state.desired]
  OBVIOUS
<1>4. stale \subseteq Plan!OfKind[kind] /\ stale \intersect desired = {}
      /\ \A o \in tracked \intersect Plan!OfKind[kind] : o \in desired \union stale
  OBVIOUS
<1> HIDE DEF state, stale
<1>5. PlanState(state)
  BY <1>2, <1>3, <1>4 DEF PlanState, Idle
<1>6. /\ ThreadsTyped' /\ OwnersAreThere' /\ NoPlanWithout' /\ OneSyncs'
      /\ thread'[t] = state /\ Syncing(t)'
      /\ ~clashed => \A u \in Plan!Threads : (Syncing(u) => u = t) /\ (Syncing(u)' => u = t)
      /\ \A u : Announced(u)' <=> Announced(u)
  BY <1>1, <1>3, <1>5, SyncGoesOn
<1>7. TablesTyped' /\ PlanTyped'
  BY <1>1 DEF PlanInv, TablesTyped, PlanTyped
<1>8. JobsAreKnown'
  <2>1. SUFFICES ASSUME ~clashed
        PROVE  /\ \A o \in Owners : jobs[o] # NoTime =>
                    o \in tracked \/ (Syncing(t)' /\ Handles(t, o)' /\ o \in thread'[t].desired)
               /\ \A o \in Plan!OfKind[kind] : jobs[o] # NoTime => o \in desired \union stale
    BY <1>1, <1>3, <1>6 DEF JobsAreKnown
  <2>2. \A o \in Owners : jobs[o] # NoTime => o \in tracked \/ (Handles(t, o) /\ o \in desired)
    BY <1>6, <2>1 DEF PlanInv, JobsAreKnown
  <2>3. \A o \in Owners : Handles(t, o) => Handles(t, o)'
    BY <1>3, <1>6 DEF Handles
  <2>4. Plan!OfKind[kind] \subseteq Owners
    BY <1>2, Kinds
  <2> QED BY <1>3, <1>4, <1>6, <2>2, <2>3, <2>4
<1>9. PlanIsMade'
  <2>1. SUFFICES ASSUME ~clashed PROVE PlanIsMade'
    BY <1>1 DEF PlanIsMade
  <2>2. ASSUME NEW o \in Plan!OfKind[kind], Listed(t, o) PROVE Listed(t, o)'
    <3>1. (Schedulable(o)' <=> Schedulable(o)) /\ Planned(o)' = Planned(o)
      BY <1>1 DEF Schedulable, Planned
    <3>2. Handles(t, o)'
      BY <1>3, <1>6 DEF Handles
    <3> QED BY <1>1, <1>2, <1>3, <1>6, <2>2, <3>1, <3>2 DEF Listed
  <2> QED BY <1>1, <1>3, <1>6, <2>1, <2>2, OthersFollow
<1> QED BY <1>6, <1>7, <1>8, <1>9 DEF PlanInv

LEMMA RemovesJob ==
  ASSUME PlanAssumptions, PlanInv, NEW t \in Plan!Threads, Plan!RemoveJob(t)
  PROVE  PlanInv'
<1>1. PICK o \in thread[t].stale :
        /\ jobs' = [jobs EXCEPT ![o] = NoTime]
        /\ Plan!Become(t, [thread[t] EXCEPT !.stale = @ \ {o}])
  BY DEF Plan!RemoveJob
<1>2. /\ thread[t].pc = "remove" /\ Syncing(t)
      /\ UNCHANGED <<rows, changes, scheduler, tracked, built, faults, clashed, missed>>
  BY DEF Plan!RemoveJob, Syncing, Plan!InSync, Plan!Current, Plan!tables, Plan!history
<1>3. PlanState(thread[t])
  BY DEF PlanInv, ThreadsTyped
<1> DEFINE kind == thread[t].kind
           desired == thread[t].desired
           stale == thread[t].stale
           left == stale \ {o}
           state == [pc |-> "remove", scheduler |-> thread[t].scheduler, kind |-> kind,
                     stale |-> left, desired |-> desired]
<1>4. /\ thread[t] = [pc |-> "remove", scheduler |-> thread[t].scheduler, kind |-> kind,
                      stale |-> stale, desired |-> desired]
      /\ stale \subseteq Plan!OfKind[kind] /\ stale \intersect desired = {}
      /\ desired \subseteq Plan!OfKind[kind]
      /\ kind \in {"profile", "watchlist"} /\ Plan!OfKind[kind] \subseteq Owners
  BY <1>2, <1>3, Kinds DEF PlanState
<1>5. Plan!Become(t, state)
  BY <1>1, <1>4
<1>6. /\ state.pc = "remove" /\ state.scheduler = scheduler /\ state.kind = kind
      /\ state.stale = left /\ state.desired = desired
      /\ state = [pc |-> "remove", scheduler |-> state.scheduler, kind |-> state.kind,
                  stale |-> state.stale, desired |-> state.desired]
  BY <1>2, SyncFields
<1> HIDE DEF state
<1>7. PlanState(state)
  BY <1>4, <1>6 DEF PlanState, Idle
<1>8. /\ ThreadsTyped' /\ OwnersAreThere' /\ NoPlanWithout' /\ OneSyncs'
      /\ thread'[t] = state /\ Syncing(t)'
      /\ ~clashed => \A u \in Plan!Threads : (Syncing(u) => u = t) /\ (Syncing(u)' => u = t)
      /\ \A u : Announced(u)' <=> Announced(u)
  BY <1>2, <1>5, <1>6, <1>7, SyncGoesOn
<1>9. /\ jobs' \in [Owners -> Plan!OptionalTimes] /\ jobs'[o] = NoTime
      /\ \A u \in Owners : u # o => jobs'[u] = jobs[u]
  BY <1>1, <1>4 DEF PlanInv, PlanTyped, Plan!OptionalTimes
<1>10. TablesTyped' /\ PlanTyped'
  BY <1>2, <1>9 DEF PlanInv, TablesTyped, PlanTyped
<1>11. JobsAreKnown'
  <2>1. SUFFICES ASSUME ~clashed
        PROVE  /\ \A u \in Owners : jobs'[u] # NoTime =>
                    u \in tracked \/ (Syncing(t)' /\ Handles(t, u)' /\ u \in thread'[t].desired)
               /\ \A u \in Plan!OfKind[kind] : jobs'[u] # NoTime => u \in desired \union left
    BY <1>2, <1>6, <1>8 DEF JobsAreKnown
  <2>2. \A u \in Owners : jobs[u] # NoTime => u \in tracked \/ (Handles(t, u) /\ u \in desired)
    BY <1>8, <2>1 DEF PlanInv, JobsAreKnown
  <2>3. \A u \in Owners : Handles(t, u) => Handles(t, u)'
    BY <1>6, <1>8 DEF Handles
  <2>4. \A u \in Plan!OfKind[kind] : jobs[u] # NoTime => u \in desired \union stale
    BY <1>2, <2>1 DEF PlanInv, JobsAreKnown
  <2> QED BY <1>4, <1>6, <1>8, <1>9, <2>2, <2>3, <2>4
<1>12. PlanIsMade'
  <2>1. SUFFICES ASSUME ~clashed PROVE PlanIsMade'
    BY <1>2 DEF PlanIsMade
  <2>2. ASSUME NEW u \in Plan!OfKind[kind], Listed(t, u) PROVE Listed(t, u)'
    <3>1. (Schedulable(u)' <=> Schedulable(u)) /\ Planned(u)' = Planned(u)
      BY <1>2 DEF Schedulable, Planned
    <3>2. Handles(t, u)'
      BY <1>6, <1>8 DEF Handles
    <3>3. u \in desired => u # o /\ jobs'[u] = jobs[u]
      BY <1>4, <1>9
    <3> QED BY <1>2, <1>6, <1>8, <2>2, <3>1, <3>2, <3>3 DEF Listed
  <2>3. \A u \in Owners \ Plan!OfKind[kind] : jobs'[u] = jobs[u]
    BY <1>4, <1>9
  <2> QED BY <1>2, <1>6, <1>8, <2>1, <2>2, <2>3, OthersFollow
<1> QED BY <1>8, <1>10, <1>11, <1>12 DEF PlanInv

\* The jobs of a kind are made; the other kind is next, or sync is over.
LEMMA Tracks ==
  ASSUME PlanAssumptions, PlanInv, NEW t \in Plan!Threads, Plan!Track(t)
  PROVE  PlanInv'
<1> DEFINE kind == thread[t].kind
           desired == thread[t].desired
           state == IF kind = "watchlist" THEN Idle
                    ELSE [pc |-> "list", scheduler |-> scheduler, kind |-> "watchlist"]
<1>1. /\ thread[t].pc = "remove" /\ Syncing(t) /\ thread[t].stale = {}
      /\ tracked' = (tracked \ Plan!OfKind[kind]) \union desired
      /\ Plan!Become(t, state)
      /\ UNCHANGED <<rows, changes, scheduler, jobs, built, faults, clashed, missed>>
  BY SameTable
     DEF Plan!Track, Syncing, Plan!InSync, Plan!Current, Plan!tables, Plan!history
<1>2. /\ kind \in {"profile", "watchlist"} /\ desired \subseteq Plan!OfKind[kind]
      /\ Plan!OfKind[kind] \subseteq Owners /\ scheduler \in 1..built /\ scheduler # 0
      /\ Profiles \intersect Watchlists = {}
  BY <1>1, SyncFields, Kinds DEF PlanAssumptions, Plan!OwnersAssumption
<1>3. /\ PlanState(state) /\ state.pc \in {"idle", "list"}
      /\ state.pc # "idle" => state.scheduler = scheduler
      /\ kind = "profile" => state.pc = "list" /\ state.kind = "watchlist"
  <2>1. scheduler \in Nat
    BY <1>2
  <2>2. PlanState([pc |-> "list", scheduler |-> scheduler, kind |-> "watchlist"])
    BY <2>1, PlainStates
  <2> QED BY <1>2, <2>2, PlainStates
<1> HIDE DEF state
<1>4. /\ ThreadsTyped' /\ OwnersAreThere' /\ NoPlanWithout' /\ OneSyncs'
      /\ thread'[t] = state /\ (Syncing(t)' <=> state.pc # "idle")
      /\ ~clashed => \A u \in Plan!Threads : (Syncing(u) => u = t) /\ (Syncing(u)' => u = t)
      /\ \A u : Announced(u)' <=> Announced(u)
  BY <1>1, <1>3, SyncGoesOn
<1>5. TablesTyped' /\ PlanTyped'
  BY <1>1, <1>2 DEF PlanInv, TablesTyped, PlanTyped
<1>6. ~clashed => \A o \in Plan!OfKind[kind] : jobs[o] # NoTime => o \in desired
  BY <1>1 DEF PlanInv, JobsAreKnown
<1>7. \A u \in Plan!Threads, o \in Owners : ~clashed /\ Syncing(u)' => ~Handles(u, o)'
  BY <1>3, <1>4 DEF Handles
<1>8. JobsAreKnown'
  <2>1. SUFFICES ASSUME ~clashed
        PROVE  /\ \A o \in Owners : jobs[o] # NoTime => o \in tracked'
               /\ \A u \in Plan!Threads : Syncing(u)' => thread'[u].pc # "remove"
    BY <1>1 DEF JobsAreKnown
  <2>2. \A o \in Owners : jobs[o] # NoTime => o \in tracked \/ (Handles(t, o) /\ o \in desired)
    BY <1>4, <2>1 DEF PlanInv, JobsAreKnown
  <2> QED BY <1>1, <1>3, <1>4, <1>6, <2>1, <2>2
<1>9. PlanIsMade'
  <2>1. SUFFICES ASSUME ~clashed, NEW o \in Owners \ missed PROVE Follows(o)'
    BY <1>1 DEF PlanIsMade
  <2>2. Follows(o)
    BY <1>2, <2>1 DEF PlanInv, PlanIsMade
  <2>3. Planned(o)' = Planned(o)
    BY <1>1 DEF Schedulable, Planned
  <2>4. \A u \in Plan!Threads : Syncing(u)' => ~Handles(u, o)'
    BY <1>7, <2>1
  <2>5. CASE Announced(o)
    BY <1>4, <2>5 DEF Follows
  <2>6. CASE \E u \in Plan!Threads : Syncing(u) /\ (Ahead(u, o) \/ Listed(u, o))
    <3>1. Ahead(t, o) \/ Listed(t, o)
      BY <1>4, <2>1, <2>6
    <3>2. CASE Ahead(t, o)
      <4>1. kind = "profile" /\ o \in Watchlists
        BY <1>1, <3>2 DEF Ahead
      <4>2. Syncing(t)' /\ Ahead(t, o)'
        BY <1>3, <1>4, <4>1 DEF Ahead
      <4> QED BY <4>2 DEF Follows
    <3>3. CASE Listed(t, o)
      <4>1. o \in Plan!OfKind[kind]
        BY <3>3 DEF Listed, Handles
      <4>2. jobs[o] = Planned(o)
        <5>1. CASE o \in desired
          BY <1>1, <3>3, <5>1 DEF Listed
        <5>2. CASE o \notin desired
          <6>1. jobs[o] = NoTime
            BY <1>6, <2>1, <4>1, <5>2
          <6>2. ~Schedulable(o)
            BY <3>3, <5>2 DEF Listed
          <6> QED BY <6>1, <6>2 DEF Planned
        <5> QED BY <5>1, <5>2
      <4> QED BY <1>1, <2>3, <2>4, <4>2 DEF Follows
    <3> QED BY <3>1, <3>2, <3>3
  <2>7. CASE jobs[o] = Planned(o)
    BY <1>1, <2>3, <2>4, <2>7 DEF Follows
  <2> QED BY <2>2, <2>5, <2>6, <2>7 DEF Follows
<1> QED BY <1>4, <1>5, <1>8, <1>9 DEF PlanInv

------------------------------------------------------------------------------
(***************************************************************************)
(* The plan of daily jobs.  Reloads and the theorems.                      *)
(***************************************************************************)

\* No thread is in sync of a scheduler that is not there.
LEMMA Closes ==
  ASSUME PlanAssumptions, PlanInv, Plan!CloseScheduler
  PROVE  PlanInv'
<1> DEFINE state == [pc |-> "drain"]
<1>1. /\ Plan!Become(Reloader, state) /\ scheduler' = 0
      /\ thread[Reloader] = Idle /\ built < MaxReloads
      /\ jobs' = [o \in Owners |-> NoTime] /\ tracked' = {}
      /\ UNCHANGED <<rows, changes, built, faults, clashed, missed>>
  BY SameTable DEF Plan!CloseScheduler, Plan!tables, Plan!history
<1>2. PlanState(state) /\ state.pc = "drain"
  BY PlainStates
<1> HIDE DEF state
<1>3. Reloader \in Plan!Threads /\ built \in Nat
  BY DEF Plan!Threads, PlanInv, PlanTyped
<1>4. ThreadsTyped'
  BY <1>1, <1>2, <1>3, ThreadsStayTyped DEF PlanInv
<1>5. /\ thread'[Reloader] = state
      /\ \A u \in Plan!Threads \ {Reloader} : thread'[u] = thread[u]
  BY <1>1, <1>3, PlanBecomes DEF PlanInv
<1>6. \A u \in Plan!Threads : ~Syncing(u)'
  <2>1. \A u \in Plan!Threads : Plan!InSync(u)' => thread'[u].scheduler \in 1..built'
    BY <1>4 DEF ThreadsTyped
  <2> QED BY <1>1, <2>1 DEF Syncing, Plan!Current
<1>7. TablesTyped'
  BY <1>1 DEF PlanInv, TablesTyped
<1>8. PlanTyped'
  BY <1>1 DEF PlanInv, PlanTyped, Plan!OptionalTimes
<1>9. OwnersAreThere'
  BY <1>1, <1>2, <1>5 DEF PlanInv, OwnersAreThere
<1>10. NoPlanWithout'
  BY <1>1 DEF NoPlanWithout
<1>11. OneSyncs' /\ JobsAreKnown' /\ PlanIsMade'
  BY <1>1, <1>6 DEF OneSyncs, JobsAreKnown, PlanIsMade
<1> QED BY <1>4, <1>7, <1>8, <1>9, <1>10, <1>11 DEF PlanInv

\* A scheduler is new for all threads, and its first sync lists all.
LEMMA Publishes ==
  ASSUME PlanAssumptions, PlanInv, Plan!PublishScheduler
  PROVE  PlanInv'
<1> DEFINE state == [pc |-> "list", scheduler |-> built', kind |-> "profile"]
<1>1. /\ thread[Reloader].pc = "drain" /\ built' = built + 1 /\ scheduler' = built'
      /\ clashed' = FALSE /\ Plan!Become(Reloader, state)
      /\ UNCHANGED <<rows, changes, jobs, tracked, faults, missed>>
  BY DEF Plan!PublishScheduler, Plan!tables, Plan!plan
<1>2. Reloader \in Plan!Threads /\ built \in Nat /\ built' \in Nat /\ built' \in 0..MaxReloads
  <2>1. built \in 0..MaxReloads /\ MaxReloads \in Nat
    BY DEF PlanInv, PlanTyped, PlanAssumptions, Plan!LimitsAssumption
  <2>2. built < MaxReloads
    BY <1>1 DEF PlanInv, NoPlanWithout
  <2> QED BY <1>1, <2>1, <2>2 DEF Plan!Threads
<1>3. /\ PlanState(state) /\ state.pc = "list" /\ state.kind = "profile"
      /\ state.scheduler = built'
  BY <1>2, PlainStates
<1> HIDE DEF state
<1>4. ThreadsTyped'
  <2>1. state.scheduler \in 1..built'
    BY <1>1, <1>2, <1>3
  <2> QED BY <1>1, <1>2, <1>3, <2>1, ThreadsStayTyped DEF PlanInv
<1>5. /\ thread'[Reloader] = state
      /\ \A u \in Plan!Threads \ {Reloader} : thread'[u] = thread[u]
  BY <1>1, <1>2, PlanBecomes DEF PlanInv
<1>6. \A o \in Owners : jobs[o] = NoTime
  BY <1>1 DEF PlanInv, NoPlanWithout
<1>7. Syncing(Reloader)' /\ \A o : Ahead(Reloader, o)'
  BY <1>1, <1>3, <1>5 DEF Syncing, Ahead, Plan!InSync, Plan!Current
<1>8. \A u \in Plan!Threads : Syncing(u)' => u = Reloader
  <2>1. ASSUME NEW u \in Plan!Threads \ {Reloader} PROVE ~Syncing(u)'
    <3>1. Plan!InSync(u) => thread[u].scheduler \in 1..built
      BY DEF PlanInv, ThreadsTyped
    <3>2. Plan!InSync(u)' => thread'[u].scheduler # scheduler'
      BY <1>1, <1>2, <1>5, <3>1 DEF Plan!InSync
    <3> QED BY <3>2 DEF Syncing, Plan!Current
  <2> QED BY <2>1
<1>9. TablesTyped'
  BY <1>1 DEF PlanInv, TablesTyped
<1>10. PlanTyped'
  BY <1>1, <1>2 DEF PlanInv, PlanTyped
<1>11. OwnersAreThere'
  BY <1>1, <1>3, <1>5 DEF PlanInv, OwnersAreThere
<1>12. NoPlanWithout'
  BY <1>1, <1>2, <1>3, <1>5 DEF NoPlanWithout
<1>13. OneSyncs'
  BY <1>8 DEF OneSyncs
<1>14. JobsAreKnown'
  BY <1>1, <1>3, <1>5, <1>6, <1>8 DEF JobsAreKnown
<1>15. PlanIsMade'
  BY <1>2, <1>7 DEF PlanIsMade, Follows
<1> QED BY <1>4, <1>9, <1>10, <1>11, <1>12, <1>13, <1>14, <1>15 DEF PlanInv

LEMMA PlanInit ==
  ASSUME PlanAssumptions, Plan!Init
  PROVE  PlanInv
<1>1. /\ scheduler = 0 /\ built = 0 /\ changes = 0 /\ faults = 0 /\ tracked = {}
      /\ clashed = FALSE /\ missed = {}
      /\ jobs = [o \in Owners |-> NoTime]
      /\ thread = [t \in Plan!Threads |-> Idle]
      /\ \A o \in DOMAIN rows : rows[o] \in Plan!ValidRows(o)
  BY SameTable DEF Plan!Init
<1>2. DOMAIN rows \subseteq Owners
  BY SameTable DEF Plan!Init
<1>3. \A t \in Plan!Threads : thread[t] = Idle /\ thread[t].pc = "idle"
  BY <1>1 DEF Idle
<1>4. ThreadsTyped
  <2>1. \A t \in Plan!Threads : PlanState(thread[t]) /\ ~Plan!InSync(t)
    BY <1>3, PlainStates DEF Plan!InSync
  <2> QED BY <1>1, <2>1 DEF ThreadsTyped
<1>5. TablesTyped
  <2>1. \A o \in DOMAIN rows : rows[o] \in RowsOf(o)
    BY <1>1 DEF Plan!ValidRows, RowsOf
  <2>2. 0 \in 0..MaxChanges /\ 0 \in 0..MaxFaults
    BY DEF PlanAssumptions, Plan!LimitsAssumption
  <2> QED BY <1>1, <1>2, <2>1, <2>2 DEF TablesTyped
<1>6. PlanTyped
  <2>1. 0 \in 0..MaxReloads
    BY DEF PlanAssumptions, Plan!LimitsAssumption
  <2>2. jobs \in [Owners -> Plan!OptionalTimes]
    BY <1>1 DEF Plan!OptionalTimes
  <2> QED BY <1>1, <2>1, <2>2 DEF PlanTyped
<1>7. OwnersAreThere
  BY <1>3 DEF OwnersAreThere
<1>8. NoPlanWithout /\ PlanIsMade
  <2>1. Reloader \in Plan!Threads
    BY DEF Plan!Threads
  <2> QED BY <1>1, <1>3, <2>1 DEF NoPlanWithout, PlanIsMade
<1>9. OneSyncs /\ JobsAreKnown
  <2>1. \A t \in Plan!Threads : ~Syncing(t)
    BY <1>3, NotSyncing
  <2> QED BY <1>1, <2>1 DEF OneSyncs, JobsAreKnown
<1> QED BY <1>4, <1>5, <1>6, <1>7, <1>8, <1>9 DEF PlanInv

LEMMA PlanNext ==
  ASSUME PlanAssumptions, PlanInv, [Plan!Next]_(Plan!vars)
  PROVE  PlanInv'
<1>1. CASE \E t \in Callers : Plan!Request(t)
  <2>1. PICK t \in Callers : Plan!Request(t)
    BY <1>1
  <2>2. t \in Plan!Threads
    BY ThreadsDiffer
  <2>3. CASE \E o \in Owners : Plan!Create(t, o)
    BY <2>2, <2>3, Creates
  <2>4. CASE (\E o \in Owners : Plan!Update(t, o)) \/ Plan!UpdateLoads(t)
    BY <2>2, <2>4, Updates
  <2>5. CASE Plan!UpdateWrites(t) \/ \E o \in Owners : Plan!Archive(t, o)
    BY <2>2, <2>5, Changes
  <2>6. CASE Plan!AuditFails(t)
    BY <2>2, <2>6, EndsWithoutSync
  <2>7. CASE Plan!CallSync(t)
    BY <2>2, <2>7, EndsWithoutSync, CallsSync
  <2> QED BY <2>1, <2>3, <2>4, <2>5, <2>6, <2>7, SameTable DEF Plan!Request, Plan!GoesOn
<1>2. CASE \E t \in Plan!Threads : Plan!Sync(t) \/ Plan!Abandon(t)
  BY <1>2, Lists, AddsJob, FindsStale, RemovesJob, Tracks, EndsWithoutSync DEF Plan!Sync
<1>3. CASE Plan!CloseScheduler \/ Plan!PublishScheduler
  BY <1>3, Closes, Publishes
<1>4. CASE UNCHANGED Plan!vars
  <2>1. UNCHANGED <<rows, scheduler, jobs, tracked, thread, built, changes, faults, clashed,
                    missed>>
    BY <1>4 DEF Plan!vars
  <2>2. ThreadsTyped' /\ TablesTyped' /\ OwnersAreThere' /\ PlanTyped' /\ NoPlanWithout'
    BY <2>1 DEF PlanInv, ThreadsTyped, TablesTyped, OwnersAreThere, PlanTyped, NoPlanWithout,
       Plan!InSync
  <2>3. \A t \in Plan!Threads : /\ Syncing(t)' <=> Syncing(t)
                                /\ \A o : /\ Handles(t, o)' <=> Handles(t, o)
                                          /\ Ahead(t, o)' <=> Ahead(t, o)
    BY <2>1, SameThread
  <2>4. OneSyncs'
    BY <2>1, <2>3 DEF PlanInv, OneSyncs
  <2>5. JobsAreKnown'
    BY <2>1, <2>3 DEF PlanInv, JobsAreKnown
  <2>6. \A o : Planned(o)' = Planned(o) /\ (Schedulable(o)' <=> Schedulable(o))
    BY <2>1, SameRow
  <2>7. \A t, o : Listed(t, o) => Listed(t, o)'
    BY <2>1, <2>6, SameListing
  <2>8. \A o : Announced(o) => Announced(o)'
    BY <2>1 DEF Announced
  <2>9. \A o : Follows(o) => Follows(o)'
    BY <2>1, <2>3, <2>6, <2>7, <2>8 DEF Follows
  <2>10. PlanIsMade'
    BY <2>1, <2>9 DEF PlanInv, PlanIsMade
  <2> QED BY <2>2, <2>4, <2>5, <2>10 DEF PlanInv
<1> QED BY <1>1, <1>2, <1>3, <1>4 DEF Plan!Next

LEMMA PlanInvariant == PlanAssumptions /\ Plan!Spec => []PlanInv
<1> SUFFICES ASSUME PlanAssumptions PROVE Plan!Spec => []PlanInv
  OBVIOUS
<1>1. Plan!Init => PlanInv
  BY PlanInit
<1>2. PlanInv /\ [Plan!Next]_(Plan!vars) => PlanInv'
  BY PlanNext
<1> QED BY <1>1, <1>2, PTL DEF Plan!Spec

\* When no request is under way the jobs of the scheduler are those that the table
\* asks for (TuntuScheduler.sync), for any number of threads, rows and reloads: unless
\* two threads were in sync at once, or the last change of the row got no sync.
THEOREM PlanIsTheTables == PlanAssumptions /\ Plan!Spec => []PlanFollowsTable
<1>1. PlanInv => PlanFollowsTable
  <2>1. SUFFICES ASSUME PlanInv, Quiet, ~clashed, NEW o \in Owners \ missed
        PROVE  jobs[o] = Planned(o)
    BY DEF PlanFollowsTable
  <2>2. \A t \in Plan!Threads : thread[t] = Idle /\ thread[t].pc = "idle"
    BY <2>1 DEF Quiet, PlanInv, ThreadsTyped, Idle
  <2>3. Follows(o)
    BY <2>1 DEF PlanInv, PlanIsMade, Quiet
  <2>4. \A t \in Plan!Threads : ~Syncing(t)
    BY <2>2, NotSyncing
  <2> QED BY <2>2, <2>3, <2>4 DEF Follows, Announced
<1> QED BY <1>1, PlanInvariant, PTL

\* The rows, the plan and what threads know of them have their types: a caller in the
\* middle of an update knows a row of the kind it changes, and sync never removes what
\* it has added.
THEOREM PlanTypes == PlanAssumptions /\ Plan!Spec => []Plan!TypeOK
<1>1. PlanInv => Plan!TypeOK
  <2>1. SUFFICES ASSUME PlanInv PROVE Plan!TypeOK
    OBVIOUS
  <2>2. ASSUME NEW t \in Plan!Threads PROVE Plan!KnowsRow(t) /\ Plan!KnowsPlan(t)
    <3>1. PlanState(thread[t]) /\ (Plan!InSync(t) => thread[t].scheduler \in 1..built)
      BY <2>1, <2>2 DEF PlanInv, ThreadsTyped
    <3>2. Plan!KnowsRow(t)
      BY <3>1, SameTable DEF Plan!KnowsRow, PlanState, RowsOf, Plan!Rows
    <3>3. DOMAIN Plan!OfKind = {"profile", "watchlist"}
      BY DEF Plan!OfKind
    <3>4. Plan!KnowsPlan(t)
      BY <3>1, <3>3 DEF Plan!KnowsPlan, PlanState, Plan!InSync
    <3> QED BY <3>2, <3>4
  <2>3. \A o \in DOMAIN rows :
          rows[o] \in IF o \in Profiles THEN Plan!ProfileRows ELSE Plan!Automations
    BY <2>1 DEF PlanInv, TablesTyped, RowsOf
  <2> QED BY <2>1, <2>2, <2>3, SameTable DEF PlanInv, TablesTyped, PlanTyped, Plan!TypeOK
<1> QED BY <1>1, PlanInvariant, PTL

------------------------------------------------------------------------------
(***************************************************************************)
(* Numbers and order.                                                      *)
(***************************************************************************)

SmallerThan == {p \in Nat \X Nat : p[1] < p[2]}

LEMMA LeastNumber ==
  ASSUME NEW S \in SUBSET Nat, S # {}
  PROVE  /\ \E x \in S : \A y \in S : x <= y
         /\ Min(S) \in S /\ \A y \in S : Min(S) <= y
<1>1. PICK x \in S : \A y \in S : ~(<<y, x>> \in SmallerThan)
  <2>1. IsWellFoundedOn(SmallerThan, Nat)
    BY NatLessThanWellFounded DEF OpToRel, SmallerThan
  <2> QED BY <2>1, WFMin
<1>2. \A y \in S : x <= y
  <2>1. TAKE y \in S
  <2>2. x \in Nat /\ y \in Nat /\ ~(<<y, x>> \in SmallerThan)
    BY <1>1
  <2>3. <<y, x>> \in Nat \X Nat /\ <<y, x>>[1] = y /\ <<y, x>>[2] = x
    BY <2>2
  <2>4. ~(y < x)
    BY <2>2, <2>3 DEF SmallerThan
  <2> QED BY <2>2, <2>4
<1> QED BY <1>2 DEF Min

LEMMA GreatestNumber ==
  ASSUME NEW S \in SUBSET Nat, S # {}, NEW b \in Nat, \A x \in S : x <= b
  PROVE  \E x \in S : \A y \in S : y <= x
<1> DEFINE Gaps == {n \in Nat : \A x \in S : x <= n}
<1>1. Gaps \in SUBSET Nat /\ Gaps # {}
  OBVIOUS
<1>2. PICK m \in Gaps : \A n \in Gaps : m <= n
  BY <1>1, LeastNumber
<1>3. m \in S
  <2>1. SUFFICES ASSUME m \notin S PROVE FALSE
    OBVIOUS
  <2>2. PICK x \in S : TRUE
    OBVIOUS
  <2>3. m \in Nat /\ m - 1 \in Nat /\ \A y \in S : y <= m - 1
    BY <2>1, <2>2
  <2>4. m <= m - 1
    BY <1>2, <2>3
  <2> QED BY <2>3, <2>4
<1> QED BY <1>3

LEMMA FiniteIsBounded ==
  ASSUME NEW S \in SUBSET Nat, IsFiniteSet(S)
  PROVE  \E b \in Nat : \A x \in S : x <= b
<1> DEFINE Bounded(T) == \E b \in Nat : \A x \in T : x <= b
           Bad == {T \in SUBSET S : ~Bounded(T)}
<1>1. SUFFICES ASSUME ~Bounded(S) PROVE FALSE
  OBVIOUS
<1>2. PICK T \in Bad : \A U \in Bad : ~(<<U, T>> \in StrictSubsetOrdering(S))
  <2>1. IsWellFoundedOn(StrictSubsetOrdering(S), SUBSET S)
    BY FS_StrictSubsetOrderingWellFounded, FS_FiniteSubsetsOfFinite
  <2>2. Bad \subseteq SUBSET S /\ Bad # {}
    BY <1>1
  <2> HIDE DEF Bad
  <2> QED BY <2>1, <2>2, WFMin
<1>3. PICK x \in T : TRUE
  BY <1>2
<1>4. T \ {x} \notin Bad
  BY <1>2, <1>3 DEF StrictSubsetOrdering
<1>5. PICK b \in Nat : \A y \in T \ {x} : y <= b
  BY <1>4
<1>6. x \in Nat /\ \A y \in T : y <= b \/ y <= x
  BY <1>3, <1>5
<1>7. b + x \in Nat /\ \A y \in T : y <= b + x
  BY <1>5, <1>6
<1> QED BY <1>2, <1>7

LEMMA GreatestOfFinite ==
  ASSUME NEW S \in SUBSET Nat, IsFiniteSet(S), S # {}
  PROVE  Max(S) \in S /\ \A y \in S : y <= Max(S)
<1>1. \E x \in S : \A y \in S : y <= x
  BY FiniteIsBounded, GreatestNumber
<1>2. \E x \in S : \A y \in S : x >= y
  BY <1>1
<1> QED BY <1>2 DEF Max

\* A finite set whose keys are in a strict order has one sorted sequence, and sorted
\* finds it: a largest sequence that is sorted has room for one more.
LEMMA InsertInto ==
  ASSUME NEW U, IsFiniteSet(U), NEW x, x \notin U, NEW key, NEW s \in SetToSeqs(U),
         IsAscending(s, key),
         \A y, z \in U : Less(key[y], key[z]) /\ Less(key[z], key[x])
                           => Less(key[y], key[x]),
         \A y \in U : Less(key[y], key[x]) \/ Less(key[x], key[y])
  PROVE  \E q \in SetToSeqs(U \union {x}) : IsAscending(q, key)
<1> DEFINE n == Cardinality(U)
           Before(i) == Less(key[s[i]], key[x])
           K == {k \in 0..n : \A i \in 1..k : Before(i)}
<1>1. n \in Nat /\ Cardinality(U \union {x}) = n + 1
  BY FS_CardinalityType, FS_AddElement
<1>2. s \in [1..n -> U] /\ \A i, j \in 1..n : i # j => s[i] # s[j]
  BY DEF SetToSeqs
<1>3. DOMAIN s = 1..n
  BY <1>2
<1>4. \A i, j \in 1..n : i < j => Less(key[s[i]], key[s[j]])
  BY <1>3 DEF IsAscending
<1> HIDE DEF n
<1>5. PICK k \in K : \A j \in K : j <= k
  <2>1. 0 \in K
    BY <1>1
  <2>2. K \in SUBSET Nat /\ \A j \in K : j <= n
    BY <1>1
  <2> HIDE DEF K
  <2> QED BY <1>1, <2>1, <2>2, GreatestNumber
<1>6. k \in 0..n /\ \A i \in 1..k : Before(i)
  BY <1>5
<1>7. \A i \in 1..n : i > k => Less(key[x], key[s[i]])
  <2>1. TAKE i \in 1..n
  <2>2. HAVE i > k
  <2>3. k + 1 \in 1..n /\ ~Before(k + 1)
    <3>1. k + 1 \in 1..n /\ k + 1 \in 0..n
      BY <1>1, <1>6, <2>2
    <3>2. k + 1 \notin K
      BY <1>1, <1>5, <1>6
    <3>3. PICK j \in 1..(k + 1) : ~Before(j)
      BY <3>1, <3>2
    <3>4. j = k + 1
      BY <1>1, <1>6, <3>3
    <3> QED BY <3>1, <3>3, <3>4
  <2>4. ~Before(i)
    <3>1. CASE i = k + 1
      BY <2>3, <3>1
    <3>2. CASE i # k + 1
      <4>1. k + 1 < i
        BY <1>1, <1>6, <2>2, <3>2
      <4>2. Less(key[s[k + 1]], key[s[i]])
        BY <1>4, <2>3, <4>1
      <4>3. s[k + 1] \in U /\ s[i] \in U
        BY <1>2, <2>3
      <4> QED BY <2>3, <4>2, <4>3
    <3> QED BY <3>1, <3>2
  <2>5. s[i] \in U
    BY <1>2
  <2> QED BY <2>4, <2>5
<1> DEFINE q == [i \in 1..(n + 1) |-> IF i <= k THEN s[i] ELSE IF i = k + 1 THEN x ELSE s[i - 1]]
<1>8. \A i \in 1..(n + 1) :
        \/ i <= k /\ i \in 1..n /\ q[i] = s[i]
        \/ i = k + 1 /\ q[i] = x
        \/ i > k + 1 /\ i - 1 \in 1..n /\ i - 1 > k /\ q[i] = s[i - 1]
  BY <1>1, <1>6
<1>9. DOMAIN q = 1..(n + 1)
  OBVIOUS
<1> HIDE DEF q
<1>10. \A i \in 1..(n + 1) : q[i] \in U \union {x}
  BY <1>2, <1>8
<1>11. \A i, j \in 1..(n + 1) : i # j => q[i] # q[j]
  <2>1. TAKE i, j \in 1..(n + 1)
  <2>2. HAVE i # j
  <2>3. \A a \in 1..n : s[a] # x
    BY <1>2
  <2>4. i \in Int /\ j \in Int /\ k \in Int
    BY <1>1, <1>6
  <2> QED BY <1>2, <1>8, <2>2, <2>3, <2>4
<1>12. \A i, j \in 1..(n + 1) : i < j => Less(key[q[i]], key[q[j]])
  <2>1. TAKE i, j \in 1..(n + 1)
  <2>2. HAVE i < j
  <2>4. i \in Int /\ j \in Int /\ k \in Int
    BY <1>1, <1>6
  <2>5. CASE i <= k
    <3>1. i \in 1..k /\ i \in 1..n /\ q[i] = s[i] /\ Before(i)
      BY <1>6, <1>8, <2>4, <2>5
    <3>2. CASE j <= k
      BY <1>4, <1>8, <2>2, <2>4, <3>1, <3>2
    <3>3. CASE j = k + 1
      BY <1>8, <2>4, <3>1, <3>3
    <3>4. CASE j > k + 1
      BY <1>4, <1>8, <2>2, <2>4, <2>5, <3>1, <3>4
    <3> QED BY <2>4, <3>2, <3>3, <3>4
  <2>6. CASE i = k + 1
    BY <1>7, <1>8, <2>2, <2>4, <2>6
  <2>7. CASE i > k + 1
    BY <1>4, <1>8, <2>2, <2>4, <2>7
  <2> QED BY <2>4, <2>5, <2>6, <2>7
<1>13. q = [i \in 1..(n + 1) |-> q[i]]
  BY DEF q
<1>14. q \in SetToSeqs(U \union {x})
  BY <1>1, <1>10, <1>11, <1>13 DEF SetToSeqs
<1>15. IsAscending(q, key)
  BY <1>9, <1>12 DEF IsAscending
<1> QED BY <1>14, <1>15

LEMMA SortedIsThere ==
  ASSUME NEW S, IsFiniteSet(S), NEW key,
         \A x, y \in S : x # y => Less(key[x], key[y]) \/ Less(key[y], key[x]),
         \A x, y, z \in S : Less(key[x], key[y]) /\ Less(key[y], key[z])
                              => Less(key[x], key[z])
  PROVE  Sorted(S, key) \in SetToSeqs(S) /\ IsAscending(Sorted(S, key), key)
<1> DEFINE CanBe(T) == \E s \in SetToSeqs(T) : IsAscending(s, key)
           Bad == {T \in SUBSET S : ~CanBe(T)}
<1>1. SUFFICES ASSUME ~CanBe(S) PROVE FALSE
  BY DEF Sorted
<1>2. PICK T \in Bad : \A U \in Bad : ~(<<U, T>> \in StrictSubsetOrdering(S))
  <2>1. IsWellFoundedOn(StrictSubsetOrdering(S), SUBSET S)
    BY FS_StrictSubsetOrderingWellFounded, FS_FiniteSubsetsOfFinite
  <2>2. Bad \subseteq SUBSET S /\ Bad # {}
    BY <1>1
  <2> HIDE DEF Bad
  <2> QED BY <2>1, <2>2, WFMin
<1>3. T \in SUBSET S /\ ~CanBe(T) /\ IsFiniteSet(T)
  BY <1>2, FS_Subset
<1>4. T # {}
  <2>1. SUFFICES ASSUME T = {} PROVE FALSE
    OBVIOUS
  <2> DEFINE none == [i \in 1..0 |-> i]
  <2>2. none \in SetToSeqs({})
    BY FS_EmptySet DEF SetToSeqs
  <2>3. IsAscending(none, key)
    BY DEF IsAscending
  <2> QED BY <1>3, <2>1, <2>2, <2>3
<1>5. PICK x \in T : TRUE
  BY <1>4
<1>6. T \ {x} \notin Bad
  BY <1>3, <1>5, <1>2 DEF StrictSubsetOrdering
<1>7. PICK s \in SetToSeqs(T \ {x}) : IsAscending(s, key)
  BY <1>3, <1>6
<1> DEFINE U == T \ {x}
<1>8. IsFiniteSet(U) /\ x \notin U /\ U \union {x} = T /\ U \subseteq S /\ x \in S
  BY <1>3, <1>5, FS_Subset
<1> HIDE DEF U
<1>9. \E q \in SetToSeqs(U \union {x}) : IsAscending(q, key)
  <2>1. s \in SetToSeqs(U) /\ IsAscending(s, key)
    BY <1>7 DEF U
  <2>2. \A y, z \in U : Less(key[y], key[z]) /\ Less(key[z], key[x]) => Less(key[y], key[x])
    BY <1>8
  <2>3. \A y \in U : Less(key[y], key[x]) \/ Less(key[x], key[y])
    BY <1>8
  <2> QED BY <1>8, <2>1, <2>2, <2>3, InsertInto
<1> QED BY <1>3, <1>8, <1>9

\* Keys of two and of six numbers, place by place.
LEMMA LessTwo ==
  ASSUME NEW k, NEW l, DOMAIN k = 1..2
  PROVE  Less(k, l) <=> k[1] < l[1] \/ (k[1] = l[1] /\ k[2] < l[2])
<1>1. /\ \A i : i \in 1..2 <=> i = 1 \/ i = 2
      /\ \A j \in 1..(1 - 1) : FALSE
      /\ \A j : j \in 1..(2 - 1) <=> j = 1
  OBVIOUS
<1> QED BY <1>1 DEF Less

LEMMA LessSix ==
  ASSUME NEW k, NEW l, DOMAIN k = 1..6
  PROVE  Less(k, l)
           <=> \/ k[1] < l[1]
               \/ k[1] = l[1] /\ k[2] < l[2]
               \/ k[1] = l[1] /\ k[2] = l[2] /\ k[3] < l[3]
               \/ k[1] = l[1] /\ k[2] = l[2] /\ k[3] = l[3] /\ k[4] < l[4]
               \/ /\ k[1] = l[1] /\ k[2] = l[2] /\ k[3] = l[3] /\ k[4] = l[4]
                  /\ k[5] < l[5]
               \/ /\ k[1] = l[1] /\ k[2] = l[2] /\ k[3] = l[3] /\ k[4] = l[4]
                  /\ k[5] = l[5] /\ k[6] < l[6]
<1> DEFINE Same(i) == \A j \in 1..(i - 1) : k[j] = l[j]
<1>1. /\ Same(1)
      /\ Same(2) <=> k[1] = l[1]
      /\ Same(3) <=> k[1] = l[1] /\ k[2] = l[2]
      /\ Same(4) <=> k[1] = l[1] /\ k[2] = l[2] /\ k[3] = l[3]
      /\ Same(5) <=> k[1] = l[1] /\ k[2] = l[2] /\ k[3] = l[3] /\ k[4] = l[4]
      /\ Same(6) <=> k[1] = l[1] /\ k[2] = l[2] /\ k[3] = l[3] /\ k[4] = l[4] /\ k[5] = l[5]
  <2>1. /\ \A j \in 1..(1 - 1) : FALSE
        /\ \A j : j \in 1..(2 - 1) <=> j = 1
        /\ \A j : j \in 1..(3 - 1) <=> j = 1 \/ j = 2
        /\ \A j : j \in 1..(4 - 1) <=> j = 1 \/ j = 2 \/ j = 3
        /\ \A j : j \in 1..(5 - 1) <=> j = 1 \/ j = 2 \/ j = 3 \/ j = 4
        /\ \A j : j \in 1..(6 - 1) <=> j = 1 \/ j = 2 \/ j = 3 \/ j = 4 \/ j = 5
    OBVIOUS
  <2> QED BY <2>1
<1>2. Less(k, l) <=> \E i \in 1..6 : k[i] < l[i] /\ Same(i)
  BY DEF Less
<1> HIDE DEF Same
<1>3. \A i : i \in 1..6 <=> i = 1 \/ i = 2 \/ i = 3 \/ i = 4 \/ i = 5 \/ i = 6
  OBVIOUS
<1> QED BY <1>1, <1>2, <1>3

LEMMA ImageIsFinite ==
  ASSUME NEW f, IsFiniteSet(DOMAIN f), f = [x \in DOMAIN f |-> f[x]]
  PROVE  IsFiniteSet(Range(f))
<1>1. f \in Surjection(DOMAIN f, Range(f))
  BY DEF Surjection, Range
<1> QED BY <1>1, FS_Surjection

\* What a sorted sequence holds.
LEMMA SequenceOfSet ==
  ASSUME NEW S, IsFiniteSet(S), NEW s \in SetToSeqs(S)
  PROVE  /\ Cardinality(S) \in Nat /\ DOMAIN s = 1..Cardinality(S) /\ Len(s) = Cardinality(S)
         /\ s \in Seq(S) /\ Range(s) = S
         /\ \A i, j \in DOMAIN s : s[i] = s[j] => i = j
<1> DEFINE n == Cardinality(S)
<1>1. n \in Nat
  BY FS_CardinalityType
<1>2. s \in [1..n -> S] /\ \A i, j \in 1..n : i # j => s[i] # s[j]
  BY DEF SetToSeqs
<1>3. s \in Seq(S) /\ Len(s) = n
  BY <1>1, <1>2
<1>4. s \in Injection(1..n, S)
  BY <1>2 DEF Injection, IsInjective
<1>5. Cardinality(1..n) = n
  BY <1>1, FS_Interval
<1>6. s \in Surjection(1..n, S)
  BY <1>4, <1>5, FS_Injection
<1>7. Range(s) = S
  BY <1>2, <1>6 DEF Surjection, Range
<1> QED BY <1>1, <1>2, <1>3, <1>7

------------------------------------------------------------------------------
(***************************************************************************)
(* The selection.  The invariant: what is merged is what was answered, in  *)
(* some order, and the result was made of it.                              *)
(***************************************************************************)

SelectionAssumptions ==
  /\ Chosen!EvidenceAssumption /\ Chosen!RankingsAssumption
  /\ Chosen!RulesAssumption /\ Chosen!BoundsAssumption

AnswersTyped ==
  /\ answers \in [rankings : SUBSET Rankings, evidence : SUBSET Evidence]
  /\ IsFiniteSet(answers.rankings) /\ IsFiniteSet(answers.evidence)
  /\ rules \in RuleSets

Ranked(k) == {r \in answers.rankings : r.key = k}

MergedIsAnswered ==
  /\ DOMAIN merged = {e.btih : e \in answers.evidence}
  /\ \A b \in DOMAIN merged : merged[b] \in Seq(Evidence) /\ Range(merged[b]) = About(b)
ItemsAreAnswered ==
  /\ DOMAIN items = {r.key : r \in answers.rankings}
  /\ \A k \in DOMAIN items : items[k] \in Seq(Rankings) /\ Range(items[k]) = Ranked(k)

ResultIsOfMerged ==
  /\ result.made => /\ result.contents = Chosen!Contents(items)
                    /\ result.evaluations = Chosen!Evaluations(rules, merged)
                    /\ result.status = Chosen!Status(result.evaluations)
  /\ ~result.made => result.evaluations = <<>>

SelectionInv ==
  AnswersTyped /\ MergedIsAnswered /\ ItemsAreAnswered /\ ResultIsOfMerged

------------------------------------------------------------------------------
(***************************************************************************)
(* What evaluation makes of merged evidence.                               *)
(***************************************************************************)

LEMMA SameOrdering ==
  /\ Chosen!Unknown = Unknown
  /\ \A f : Chosen!Range(f) = Range(f)
  /\ \A S : Chosen!Max(S) = Max(S) /\ Chosen!Min(S) = Min(S)
  /\ \A S, key : Chosen!Sorted(S, key) = Sorted(S, key)
  /\ \A k, l : Chosen!Less(k, l) <=> Less(k, l)
  /\ \A S : Chosen!Cardinality(S) = Cardinality(S)
<1>0. \A S : Chosen!Cardinality(S) = Cardinality(S)
  BY DEF Chosen!Cardinality, Cardinality
<1>1. \A k, l : Chosen!Less(k, l) <=> Less(k, l)
  BY DEF Chosen!Less, Less
<1>2. \A s, key : Chosen!IsAscending(s, key) <=> IsAscending(s, key)
  BY <1>1 DEF Chosen!IsAscending, IsAscending
<1>3. \A S : Chosen!SetToSeqs(S) = SetToSeqs(S)
  BY <1>0 DEF Chosen!SetToSeqs, SetToSeqs
<1>4. \A S, key : Chosen!Sorted(S, key) = Sorted(S, key)
  BY <1>2, <1>3 DEF Chosen!Sorted, Sorted
<1> QED
  BY <1>0, <1>1, <1>4 DEF Chosen!Unknown, Unknown, Chosen!Range, Range, Chosen!Max, Max, Chosen!Min, Min

LEMMA KnowledgeTyped ==
  ASSUME SelectionAssumptions, AnswersTyped, NEW b
  PROVE  /\ IsFiniteSet(KnownSeeders(b)) /\ KnownSeeders(b) \in SUBSET Nat
         /\ IsFiniteSet(KnownSizes(b)) /\ KnownSizes(b) \in SUBSET Nat
         /\ KnownSeeders(b) # {} => Most(b) \in KnownSeeders(b) /\ Most(b) \in Nat
                                    /\ \A n \in KnownSeeders(b) : n <= Most(b)
         /\ OneSize(b) => SizeOf(b) \in Nat /\ KnownSizes(b) = {SizeOf(b)}
         /\ About(b) \subseteq Evidence
<1>1. IsFiniteSet(About(b)) /\ About(b) \subseteq Evidence
  BY FS_Subset DEF AnswersTyped, About
<1>2. \A e \in About(b) :
        /\ e.seeders \in Nat \/ e.seeders = Unknown
        /\ e.size \in Nat \/ e.size = Unknown
  BY <1>1, SameOrdering DEF SelectionAssumptions, Chosen!EvidenceAssumption, Chosen!Numbers
<1> DEFINE seeders == [e \in About(b) |-> e.seeders]
           sizes == [e \in About(b) |-> e.size]
<1>3. IsFiniteSet(Range(seeders)) /\ IsFiniteSet(Range(sizes))
  BY <1>1, ImageIsFinite
<1>4. Range(seeders) = {e.seeders : e \in About(b)} /\ Range(sizes) = {e.size : e \in About(b)}
  BY DEF Range
<1>5. KnownSeeders(b) \in SUBSET Range(seeders) /\ KnownSizes(b) \in SUBSET Range(sizes)
  BY <1>4 DEF KnownSeeders, KnownSizes
<1>6. IsFiniteSet(KnownSeeders(b)) /\ IsFiniteSet(KnownSizes(b))
  BY <1>3, <1>5, FS_Subset
<1>7. KnownSeeders(b) \in SUBSET Nat /\ KnownSizes(b) \in SUBSET Nat
  BY <1>2 DEF KnownSeeders, KnownSizes
<1>8. ASSUME KnownSeeders(b) # {}
      PROVE  Most(b) \in KnownSeeders(b) /\ Most(b) \in Nat
             /\ \A n \in KnownSeeders(b) : n <= Most(b)
  BY <1>6, <1>7, <1>8, GreatestOfFinite DEF Most
<1>9. ASSUME OneSize(b) PROVE SizeOf(b) \in Nat /\ KnownSizes(b) = {SizeOf(b)}
  <2>1. PICK n : KnownSizes(b) = {n}
    BY <1>6, <1>9, FS_Singleton DEF OneSize
  <2>2. SizeOf(b) = n
    BY <2>1 DEF SizeOf
  <2> QED BY <1>7, <2>1, <2>2
<1> QED BY <1>1, <1>6, <1>7, <1>8, <1>9

LEMMA TruthIsSaid ==
  ASSUME SelectionAssumptions, AnswersTyped, NEW b, NEW ev, Range(ev) = About(b)
  PROVE  /\ Chosen!Truth(ev) = "yes" <=> Says(b, "yes") /\ ~Says(b, "no")
<1> DEFINE known == {e.truth : e \in About(b)} \ {"unknown"}
<1>1. \A e \in About(b) : e.truth \in {"yes", "no", "unknown"}
  BY KnowledgeTyped DEF SelectionAssumptions, Chosen!EvidenceAssumption
<1>2. known \subseteq {"yes", "no"}
  BY <1>1
<1>3. /\ "yes" \in known <=> Says(b, "yes")
      /\ "no" \in known <=> Says(b, "no")
  BY DEF Says
<1>4. Chosen!Truth(ev) = IF Cardinality(known) = 1 THEN CHOOSE v \in known : TRUE ELSE "unknown"
  <2>1. Chosen!Range(ev) = About(b)
    BY SameOrdering
  <2> QED BY <2>1, SameOrdering DEF Chosen!Truth
<1> HIDE DEF known
<1>5. IsFiniteSet(known)
  <2>1. IsFiniteSet({"yes", "no"})
    <3>1. IsFiniteSet({"yes"})
      BY FS_Singleton
    <3>2. IsFiniteSet({"yes"} \union {"no"})
      BY <3>1, FS_AddElement
    <3>3. {"yes"} \union {"no"} = {"yes", "no"}
      OBVIOUS
    <3> QED BY <3>2, <3>3
  <2> QED BY <1>2, <2>1, FS_Subset
<1>6. Cardinality(known) = 1 <=> \E v : known = {v}
  BY <1>5, FS_Singleton
<1>7. CASE known = {"yes"}
  BY <1>3, <1>4, <1>6, <1>7
<1>8. CASE known = {"no"}
  BY <1>3, <1>4, <1>6, <1>8
<1>9. CASE known = {}
  BY <1>3, <1>4, <1>6, <1>9
<1>10. CASE known = {"yes", "no"}
  BY <1>3, <1>4, <1>6, <1>10
<1> QED BY <1>2, <1>7, <1>8, <1>9, <1>10

\* The evaluation of a candidate says what its evidence proves, and carries the
\* numbers that the order goes by.
LEMMA Evaluated ==
  ASSUME SelectionAssumptions, SelectionInv, NEW b \in DOMAIN merged
  PROVE  LET x == Chosen!Evaluate(rules, b, merged[b]) IN
         /\ x.btih = b /\ b \in Nat
         /\ x.accepted \in BOOLEAN /\ (x.accepted <=> Proven(b))
         /\ x.seeders = IF KnownSeeders(b) = {} THEN Unknown ELSE Most(b)
         /\ x.size = IF OneSize(b) THEN SizeOf(b) ELSE Unknown
<1> DEFINE ev == merged[b]
           truth == Chosen!TruthReasons(rules.mode, Chosen!Truth(ev))
           sizes == Chosen!SizeReasons(rules, Chosen!Size(ev))
           seeders == Chosen!SeedersReasons(rules, Chosen!Seeders(ev))
           words == Chosen!KeywordReasons(rules, Chosen!Text(ev))
           x == Chosen!Evaluate(rules, b, ev)
<1>1. Range(ev) = About(b) /\ Chosen!Range(ev) = About(b)
  BY SameOrdering DEF SelectionInv, MergedIsAnswered
<1>2. Chosen!Seeders(ev) = IF KnownSeeders(b) = {} THEN Unknown ELSE Most(b)
  BY <1>1, SameOrdering DEF Chosen!Seeders, KnownSeeders, Most
<1>3. Chosen!Size(ev) = IF OneSize(b) THEN SizeOf(b) ELSE Unknown
  BY <1>1, SameOrdering DEF Chosen!Size, KnownSizes, OneSize, SizeOf
<1>4. Chosen!Text(ev) = UNION {e.title : e \in About(b)}
  BY <1>1 DEF Chosen!Text
<1>5. /\ rules.mode \in {"any", "only", "exclude"}
      /\ rules.min_size \in Nat \/ rules.min_size = Unknown
      /\ rules.max_size \in Nat \/ rules.max_size = Unknown
      /\ rules.min_seeders \in Nat \/ rules.min_seeders = Unknown
  BY SameOrdering DEF SelectionInv, AnswersTyped, SelectionAssumptions, Chosen!RulesAssumption,
     Chosen!Numbers
<1>6. AnswersTyped
  BY DEF SelectionInv
<1>7. truth = {} <=> /\ rules.mode = "only" => Says(b, "yes") /\ ~Says(b, "no")
                     /\ rules.mode = "exclude" => ~Says(b, "yes") \/ Says(b, "no")
  <2>1. Chosen!Truth(ev) = "yes" <=> Says(b, "yes") /\ ~Says(b, "no")
    BY <1>1, <1>6, TruthIsSaid
  <2> QED BY <1>5, <2>1 DEF Chosen!TruthReasons
<1>8. sizes = {} <=> /\ rules.min_size # Unknown => OneSize(b) /\ SizeOf(b) >= rules.min_size
                     /\ rules.max_size # Unknown => OneSize(b) /\ SizeOf(b) <= rules.max_size
  <2>1. OneSize(b) => SizeOf(b) \in Nat
    BY <1>6, KnowledgeTyped
  <2>2. Unknown = -1 /\ Unknown \notin Nat
    BY DEF Unknown
  <2>3. CASE OneSize(b)
    BY <1>3, <1>5, <2>1, <2>2, <2>3, SameOrdering DEF Chosen!SizeReasons
  <2>4. CASE ~OneSize(b)
    BY <1>3, <1>5, <2>2, <2>4, SameOrdering DEF Chosen!SizeReasons
  <2> QED BY <2>3, <2>4
<1>9. seeders = {} <=>
        (rules.min_seeders # Unknown => \E n \in KnownSeeders(b) : n >= rules.min_seeders)
  <2>1. Unknown = -1 /\ Unknown \notin Nat
    BY DEF Unknown
  <2>2. CASE KnownSeeders(b) = {}
    BY <1>2, <1>5, <2>1, <2>2, SameOrdering DEF Chosen!SeedersReasons
  <2>3. CASE KnownSeeders(b) # {}
    <3>1. /\ Most(b) \in KnownSeeders(b) /\ Most(b) \in Nat
          /\ \A n \in KnownSeeders(b) : n <= Most(b) /\ n \in Nat
      BY <1>6, <2>3, KnowledgeTyped
    <3>2. seeders = IF rules.min_seeders = Unknown THEN {}
                    ELSE IF Most(b) < rules.min_seeders THEN {"seeders_below_min"} ELSE {}
      BY <1>2, <2>1, <2>3, <3>1, SameOrdering DEF Chosen!SeedersReasons
    <3>3. rules.min_seeders # Unknown =>
            ((\E n \in KnownSeeders(b) : n >= rules.min_seeders)
               <=> ~(Most(b) < rules.min_seeders))
      BY <1>5, <3>1
    <3> QED BY <3>2, <3>3
  <2> QED BY <2>2, <2>3
<1>10. words = {} <=>
         /\ rules.include # {} => \E e \in About(b) : e.title \intersect rules.include # {}
         /\ \A e \in About(b) : e.title \intersect rules.exclude = {}
  <2> DEFINE text == UNION {e.title : e \in About(b)}
  <2>1. rules.include \intersect text = {}
          <=> \A e \in About(b) : e.title \intersect rules.include = {}
    OBVIOUS
  <2>2. rules.exclude \intersect text # {}
          <=> \E e \in About(b) : e.title \intersect rules.exclude # {}
    OBVIOUS
  <2> HIDE DEF text
  <2>3. words = (IF rules.include # {} /\ rules.include \intersect text = {}
                 THEN {"keyword_required"} ELSE {})
                \union (IF rules.exclude \intersect text # {} THEN {"keyword_excluded"} ELSE {})
    BY <1>4 DEF Chosen!KeywordReasons, text
  <2>4. words = {} <=> /\ ~(rules.include # {} /\ rules.include \intersect text = {})
                       /\ ~(rules.exclude \intersect text # {})
    BY <2>3
  <2> QED BY <2>1, <2>2, <2>4
<1>11. x.accepted <=> truth \union sizes \union seeders \union words = {}
  BY DEF Chosen!Evaluate
<1>12. x.accepted <=> Proven(b)
  <2>1. truth \union sizes \union seeders \union words = {}
          <=> truth = {} /\ sizes = {} /\ seeders = {} /\ words = {}
    OBVIOUS
  <2> HIDE DEF truth, sizes, seeders, words
  <2> QED BY <1>7, <1>8, <1>9, <1>10, <1>11, <2>1 DEF Proven
<1>13. b \in Nat
  BY DEF SelectionInv, MergedIsAnswered, AnswersTyped, SelectionAssumptions,
     Chosen!EvidenceAssumption
<1>14. x.btih = b /\ x.accepted \in BOOLEAN /\ x.seeders = Chosen!Seeders(ev)
       /\ x.size = Chosen!Size(ev)
  BY DEF Chosen!Evaluate
<1> QED BY <1>2, <1>3, <1>12, <1>13, <1>14

------------------------------------------------------------------------------
(***************************************************************************)
(* The merge, step by step.                                                *)
(***************************************************************************)

LEMMA RangeOfAppend ==
  ASSUME NEW E, NEW s \in Seq(E), NEW e \in E
  PROVE  Append(s, e) \in Seq(E) /\ Range(Append(s, e)) = Range(s) \union {e}
<1>1. /\ Append(s, e) \in Seq(E) /\ Len(s) \in Nat
      /\ DOMAIN Append(s, e) = 1..(Len(s) + 1) /\ DOMAIN s = 1..Len(s)
      /\ \A i \in 1..Len(s) : Append(s, e)[i] = s[i]
      /\ Append(s, e)[Len(s) + 1] = e
  OBVIOUS
<1> DEFINE q == Append(s, e)
<1> HIDE DEF q
<1>2. /\ Len(s) \in Nat /\ DOMAIN q = 1..(Len(s) + 1) /\ DOMAIN s = 1..Len(s)
      /\ \A i \in 1..Len(s) : q[i] = s[i]
      /\ q[Len(s) + 1] = e
  BY <1>1 DEF q
<1>3. ASSUME NEW y \in Range(q) PROVE y \in Range(s) \union {e}
  <2>1. PICK i \in 1..(Len(s) + 1) : q[i] = y
    BY <1>2, <1>3 DEF Range
  <2>2. i \in 1..Len(s) \/ i = Len(s) + 1
    BY <1>2
  <2> QED BY <1>2, <2>1, <2>2 DEF Range
<1>4. ASSUME NEW y \in Range(s) \union {e} PROVE y \in Range(q)
  <2>1. CASE y = e
    <3>1. Len(s) + 1 \in DOMAIN q
      BY <1>2
    <3> QED BY <1>2, <2>1, <3>1 DEF Range
  <2>2. CASE y \in Range(s)
    <3>1. PICK i \in 1..Len(s) : s[i] = y
      BY <1>2, <2>2 DEF Range
    <3>2. i \in DOMAIN q /\ q[i] = y
      BY <1>2, <3>1
    <3> QED BY <3>2 DEF Range
  <2> QED BY <1>4, <2>1, <2>2
<1>5. Range(q) = Range(s) \union {e}
  BY <1>3, <1>4
<1> QED BY <1>1, <1>5 DEF q

HasSequencesOf(f, E) == \A y \in DOMAIN f : f[y] \in Seq(E)

\* What merge_from adds.
LEMMA MergeAdds ==
  ASSUME NEW E, NEW f, NEW x, NEW entry \in E, HasSequencesOf(f, E),
         NEW g, g = Chosen!Added(f, x, entry)
  PROVE  /\ \A y : y \in DOMAIN g <=> y \in DOMAIN f \/ y = x
         /\ HasSequencesOf(g, E)
         /\ \A y \in DOMAIN f : y # x => g[y] = f[y]
         /\ \A y : y \in Range(g[x]) <=> y = entry \/ (x \in DOMAIN f /\ y \in Range(f[x]))
<1>1. /\ DOMAIN g = DOMAIN f \union {x}
      /\ \A y \in DOMAIN f : y # x => g[y] = f[y]
      /\ x \notin DOMAIN f => g[x] = <<entry>>
      /\ x \in DOMAIN f /\ entry \in Range(f[x]) => g[x] = f[x]
      /\ x \in DOMAIN f /\ entry \notin Range(f[x]) => g[x] = Append(f[x], entry)
  BY SameOrdering DEF Chosen!Added
<1>2. CASE x \notin DOMAIN f
  <2>1. <<entry>> \in Seq(E) /\ Range(<<entry>>) = {entry}
    BY DEF Range
  <2> QED BY <1>1, <1>2, <2>1 DEF HasSequencesOf
<1>3. CASE x \in DOMAIN f /\ entry \in Range(f[x])
  BY <1>1, <1>3 DEF HasSequencesOf
<1>4. CASE x \in DOMAIN f /\ entry \notin Range(f[x])
  <2>1. Append(f[x], entry) \in Seq(E)
        /\ Range(Append(f[x], entry)) = Range(f[x]) \union {entry}
    BY <1>4, RangeOfAppend DEF HasSequencesOf
  <2> QED BY <1>1, <1>4, <2>1 DEF HasSequencesOf
<1> QED BY <1>2, <1>3, <1>4

LEMMA SelectionInitially ==
  ASSUME Chosen!Init PROVE SelectionInv
<1>1. AnswersTyped
  BY FS_EmptySet DEF Chosen!Init, AnswersTyped
<1> QED BY <1>1 DEF Chosen!Init, Chosen!Nothing, SelectionInv, MergedIsAnswered,
   ItemsAreAnswered, ResultIsOfMerged

LEMMA SelectionTakesRanking ==
  ASSUME SelectionInv, NEW r \in Rankings, Chosen!TakeRanking(r)
  PROVE  SelectionInv'
<1>1. /\ ~result.made /\ answers' = [answers EXCEPT !.rankings = @ \union {r}]
      /\ items' = Chosen!Added(items, r.key, r)
      /\ rules' = rules /\ merged' = merged /\ result' = result
  BY DEF Chosen!TakeRanking
<1>2. /\ answers'.rankings = answers.rankings \union {r} /\ answers'.evidence = answers.evidence
      /\ answers' \in [rankings : SUBSET Rankings, evidence : SUBSET Evidence]
  BY <1>1 DEF SelectionInv, AnswersTyped
<1>3. AnswersTyped'
  BY <1>1, <1>2, FS_AddElement DEF SelectionInv, AnswersTyped
<1>4. MergedIsAnswered'
  BY <1>1, <1>2 DEF SelectionInv, MergedIsAnswered, About
<1>5. ItemsAreAnswered'
  <2> DEFINE x == r.key
  <2>1. /\ \A y : y \in DOMAIN items' <=> y \in DOMAIN items \/ y = x
        /\ HasSequencesOf(items, Rankings)'
        /\ \A y \in DOMAIN items : y # x => items'[y] = items[y]
        /\ \A y : y \in Range(items'[x]) <=> y = r \/ (x \in DOMAIN items /\ y \in Range(items[x]))
    <3>1. HasSequencesOf(items, Rankings)
      BY DEF SelectionInv, ItemsAreAnswered, HasSequencesOf
    <3>2. items' = Chosen!Added(items, x, r)
      BY <1>1
    <3> HIDE DEF x
    <3> QED BY <3>1, <3>2, MergeAdds
  <2>2. ASSUME NEW y \in DOMAIN items' PROVE Range(items'[y]) = Ranked(y)'
    <3>1. CASE y # x
      BY <1>2, <2>1, <2>2, <3>1 DEF SelectionInv, ItemsAreAnswered, Ranked
    <3>2. CASE y = x /\ x \in DOMAIN items
      BY <1>2, <2>1, <3>2 DEF SelectionInv, ItemsAreAnswered, Ranked
    <3>3. CASE y = x /\ x \notin DOMAIN items
      <4>1. Ranked(x) = {}
        BY <3>3 DEF SelectionInv, ItemsAreAnswered, Ranked
      <4> QED BY <1>2, <2>1, <3>3, <4>1 DEF Ranked
    <3> QED BY <3>1, <3>2, <3>3
  <2>3. DOMAIN items' = {s.key : s \in answers'.rankings}
    <3>1. {s.key : s \in answers'.rankings} = {s.key : s \in answers.rankings} \union {r.key}
      BY <1>2
    <3>2. DOMAIN items' = DOMAIN items \union {x}
      BY <2>1
    <3> QED BY <3>1, <3>2 DEF SelectionInv, ItemsAreAnswered
  <2> QED BY <2>1, <2>2, <2>3 DEF ItemsAreAnswered, HasSequencesOf
<1>6. ResultIsOfMerged'
  BY <1>1 DEF SelectionInv, ResultIsOfMerged
<1> QED BY <1>3, <1>4, <1>5, <1>6 DEF SelectionInv

LEMMA SelectionTakesEvidence ==
  ASSUME SelectionInv, NEW e \in Evidence, Chosen!TakeEvidence(e)
  PROVE  SelectionInv'
<1>1. /\ ~result.made /\ answers' = [answers EXCEPT !.evidence = @ \union {e}]
      /\ merged' = Chosen!Added(merged, e.btih, e)
      /\ rules' = rules /\ items' = items /\ result' = result
  BY DEF Chosen!TakeEvidence
<1>2. /\ answers'.evidence = answers.evidence \union {e} /\ answers'.rankings = answers.rankings
      /\ answers' \in [rankings : SUBSET Rankings, evidence : SUBSET Evidence]
  BY <1>1 DEF SelectionInv, AnswersTyped
<1>3. AnswersTyped'
  BY <1>1, <1>2, FS_AddElement DEF SelectionInv, AnswersTyped
<1>4. ItemsAreAnswered'
  BY <1>1, <1>2 DEF SelectionInv, ItemsAreAnswered, Ranked
<1>5. MergedIsAnswered'
  <2> DEFINE x == e.btih
  <2>1. /\ \A y : y \in DOMAIN merged' <=> y \in DOMAIN merged \/ y = x
        /\ HasSequencesOf(merged, Evidence)'
        /\ \A y \in DOMAIN merged : y # x => merged'[y] = merged[y]
        /\ \A y : y \in Range(merged'[x]) <=> y = e \/ (x \in DOMAIN merged /\ y \in Range(merged[x]))
    <3>1. HasSequencesOf(merged, Evidence)
      BY DEF SelectionInv, MergedIsAnswered, HasSequencesOf
    <3>2. merged' = Chosen!Added(merged, x, e)
      BY <1>1
    <3> HIDE DEF x
    <3> QED BY <3>1, <3>2, MergeAdds
  <2>2. ASSUME NEW y \in DOMAIN merged' PROVE Range(merged'[y]) = About(y)'
    <3>1. CASE y # x
      BY <1>2, <2>1, <2>2, <3>1 DEF SelectionInv, MergedIsAnswered, About
    <3>2. CASE y = x /\ x \in DOMAIN merged
      BY <1>2, <2>1, <3>2 DEF SelectionInv, MergedIsAnswered, About
    <3>3. CASE y = x /\ x \notin DOMAIN merged
      <4>1. About(x) = {}
        BY <3>3 DEF SelectionInv, MergedIsAnswered, About
      <4> QED BY <1>2, <2>1, <3>3, <4>1 DEF About
    <3> QED BY <3>1, <3>2, <3>3
  <2>3. DOMAIN merged' = {s.btih : s \in answers'.evidence}
    <3>1. {s.btih : s \in answers'.evidence} = {s.btih : s \in answers.evidence} \union {e.btih}
      BY <1>2
    <3>2. DOMAIN merged' = DOMAIN merged \union {x}
      BY <2>1
    <3> QED BY <3>1, <3>2 DEF SelectionInv, MergedIsAnswered
  <2> QED BY <2>1, <2>2, <2>3 DEF MergedIsAnswered, HasSequencesOf
<1>6. ResultIsOfMerged'
  BY <1>1 DEF SelectionInv, ResultIsOfMerged
<1> QED BY <1>3, <1>4, <1>5, <1>6 DEF SelectionInv

LEMMA SelectionInductive ==
  ASSUME SelectionInv, [Chosen!Next]_(Chosen!vars)
  PROVE  SelectionInv'
<1>1. CASE UNCHANGED Chosen!vars
  BY <1>1 DEF Chosen!vars, SelectionInv, AnswersTyped, MergedIsAnswered, ItemsAreAnswered,
     ResultIsOfMerged, About, Ranked
<1>2. CASE Chosen!Conclude
  <2>1. /\ answers' = answers /\ rules' = rules /\ items' = items /\ merged' = merged
        /\ result' = [made |-> TRUE, contents |-> Chosen!Contents(items),
                      evaluations |-> Chosen!Evaluations(rules, merged),
                      status |-> Chosen!Status(Chosen!Evaluations(rules, merged))]
    BY <1>2 DEF Chosen!Conclude
  <2>2. ResultIsOfMerged'
    BY <2>1 DEF ResultIsOfMerged
  <2> QED BY <2>1, <2>2 DEF SelectionInv, AnswersTyped, MergedIsAnswered, ItemsAreAnswered,
     About, Ranked
<1> QED BY <1>1, <1>2, SelectionTakesRanking, SelectionTakesEvidence DEF Chosen!Next

LEMMA SelectionInvariant == Chosen!Spec => []SelectionInv
BY SelectionInitially, SelectionInductive, PTL DEF Chosen!Spec

------------------------------------------------------------------------------
(***************************************************************************)
(* The order of the candidates: their keys are tuples of numbers that      *)
(* differ, since their BTIHs do, so sorting places each of them.           *)
(***************************************************************************)

Found == {Chosen!Evaluate(rules, b, merged[b]) : b \in DOMAIN merged}
KeyOf(e) == Chosen!SortKey(e)

\* What the order of two candidates goes by.
LEMMA FoundTyped ==
  ASSUME SelectionAssumptions, SelectionInv
  PROVE  /\ IsFiniteSet(Found)
         /\ \A e \in Found :
              /\ e.btih \in DOMAIN merged /\ e.btih \in Nat
              /\ e = Chosen!Evaluate(rules, e.btih, merged[e.btih])
              /\ e.accepted \in BOOLEAN /\ (e.accepted <=> Proven(e.btih))
              /\ e.seeders = IF KnownSeeders(e.btih) = {} THEN Unknown ELSE Most(e.btih)
              /\ e.size = IF OneSize(e.btih) THEN SizeOf(e.btih) ELSE Unknown
              /\ KnownSeeders(e.btih) # {} => Most(e.btih) \in Nat
              /\ OneSize(e.btih) => SizeOf(e.btih) \in Nat
              /\ e.seeders \in Nat \/ e.seeders = Unknown
              /\ e.size \in Nat \/ e.size = Unknown
<1>1. IsFiniteSet(DOMAIN merged)
  <2> DEFINE btihs == [e \in answers.evidence |-> e.btih]
  <2>1. IsFiniteSet(Range(btihs))
    BY ImageIsFinite DEF SelectionInv, AnswersTyped
  <2>2. Range(btihs) = DOMAIN merged
    BY DEF Range, SelectionInv, MergedIsAnswered
  <2> QED BY <2>1, <2>2
<1>2. IsFiniteSet(Found)
  <2> DEFINE made == [b \in DOMAIN merged |-> Chosen!Evaluate(rules, b, merged[b])]
  <2>1. IsFiniteSet(Range(made))
    BY <1>1, ImageIsFinite
  <2>2. Range(made) = Found
    BY DEF Range, Found
  <2> QED BY <2>1, <2>2
<1>3. ASSUME NEW e \in Found
      PROVE  /\ e.btih \in DOMAIN merged /\ e.btih \in Nat
             /\ e = Chosen!Evaluate(rules, e.btih, merged[e.btih])
             /\ e.accepted \in BOOLEAN /\ (e.accepted <=> Proven(e.btih))
             /\ e.seeders = IF KnownSeeders(e.btih) = {} THEN Unknown ELSE Most(e.btih)
             /\ e.size = IF OneSize(e.btih) THEN SizeOf(e.btih) ELSE Unknown
             /\ KnownSeeders(e.btih) # {} => Most(e.btih) \in Nat
             /\ OneSize(e.btih) => SizeOf(e.btih) \in Nat
  <2>1. PICK b \in DOMAIN merged : e = Chosen!Evaluate(rules, b, merged[b])
    BY <1>3 DEF Found
  <2>2. /\ e.btih = b /\ b \in Nat
        /\ e.accepted \in BOOLEAN /\ (e.accepted <=> Proven(b))
        /\ e.seeders = IF KnownSeeders(b) = {} THEN Unknown ELSE Most(b)
        /\ e.size = IF OneSize(b) THEN SizeOf(b) ELSE Unknown
    BY <2>1, Evaluated
  <2>3. /\ KnownSeeders(b) # {} => Most(b) \in Nat
        /\ OneSize(b) => SizeOf(b) \in Nat
    BY KnowledgeTyped DEF SelectionInv
  <2> QED BY <2>1, <2>2, <2>3
<1> QED BY <1>2, <1>3

LEMMA KeysCompare ==
  ASSUME SelectionAssumptions, SelectionInv, NEW e \in Found, NEW f \in Found
  PROVE  Less(KeyOf(e), KeyOf(f))
           <=> \/ e.accepted /\ ~f.accepted
               \/ /\ e.accepted = f.accepted
                  /\ \/ e.seeders # Unknown /\ f.seeders = Unknown
                     \/ /\ (e.seeders = Unknown) = (f.seeders = Unknown)
                        /\ \/ Chosen!OrZero(e.seeders) > Chosen!OrZero(f.seeders)
                           \/ /\ Chosen!OrZero(e.seeders) = Chosen!OrZero(f.seeders)
                              /\ \/ e.size # Unknown /\ f.size = Unknown
                                 \/ /\ (e.size = Unknown) = (f.size = Unknown)
                                    /\ \/ Chosen!OrZero(e.size) < Chosen!OrZero(f.size)
                                       \/ Chosen!OrZero(e.size) = Chosen!OrZero(f.size) /\ e.btih < f.btih
<1> DEFINE key(x) == <<Chosen!Flag(x.accepted), Chosen!Flag(x.seeders # Unknown), -Chosen!OrZero(x.seeders),
                       Chosen!Flag(x.size # Unknown), Chosen!OrZero(x.size), x.btih>>
<1>1. \A x \in Found : KeyOf(x) = key(x)
  BY SameOrdering DEF KeyOf, Chosen!SortKey
<1>2. \A x \in Found :
        /\ Chosen!Flag(x.accepted) \in Int /\ Chosen!Flag(x.seeders # Unknown) \in Int
        /\ Chosen!OrZero(x.seeders) \in Int /\ -Chosen!OrZero(x.seeders) \in Int
        /\ Chosen!Flag(x.size # Unknown) \in Int /\ Chosen!OrZero(x.size) \in Int /\ x.btih \in Int
        /\ x.accepted \in BOOLEAN
  BY FoundTyped, SameOrdering DEF Chosen!Flag, Chosen!OrZero
<1>3. /\ Chosen!Flag(e.accepted) < Chosen!Flag(f.accepted) <=> e.accepted /\ ~f.accepted
      /\ Chosen!Flag(e.accepted) = Chosen!Flag(f.accepted) <=> e.accepted = f.accepted
      /\ Chosen!Flag(e.seeders # Unknown) < Chosen!Flag(f.seeders # Unknown)
           <=> e.seeders # Unknown /\ f.seeders = Unknown
      /\ Chosen!Flag(e.seeders # Unknown) = Chosen!Flag(f.seeders # Unknown)
           <=> (e.seeders = Unknown) = (f.seeders = Unknown)
      /\ Chosen!Flag(e.size # Unknown) < Chosen!Flag(f.size # Unknown)
           <=> e.size # Unknown /\ f.size = Unknown
      /\ Chosen!Flag(e.size # Unknown) = Chosen!Flag(f.size # Unknown)
           <=> (e.size = Unknown) = (f.size = Unknown)
  BY <1>2 DEF Chosen!Flag
<1>4. /\ -Chosen!OrZero(e.seeders) < -Chosen!OrZero(f.seeders) <=> Chosen!OrZero(e.seeders) > Chosen!OrZero(f.seeders)
      /\ -Chosen!OrZero(e.seeders) = -Chosen!OrZero(f.seeders) <=> Chosen!OrZero(e.seeders) = Chosen!OrZero(f.seeders)
  <2>1. Chosen!OrZero(e.seeders) \in Int /\ Chosen!OrZero(f.seeders) \in Int
    BY <1>2
  <2> QED BY <2>1
<1>5. Less(key(e), key(f))
        <=> \/ Chosen!Flag(e.accepted) < Chosen!Flag(f.accepted)
            \/ /\ Chosen!Flag(e.accepted) = Chosen!Flag(f.accepted)
               /\ Chosen!Flag(e.seeders # Unknown) < Chosen!Flag(f.seeders # Unknown)
            \/ /\ Chosen!Flag(e.accepted) = Chosen!Flag(f.accepted)
               /\ Chosen!Flag(e.seeders # Unknown) = Chosen!Flag(f.seeders # Unknown)
               /\ -Chosen!OrZero(e.seeders) < -Chosen!OrZero(f.seeders)
            \/ /\ Chosen!Flag(e.accepted) = Chosen!Flag(f.accepted)
               /\ Chosen!Flag(e.seeders # Unknown) = Chosen!Flag(f.seeders # Unknown)
               /\ -Chosen!OrZero(e.seeders) = -Chosen!OrZero(f.seeders)
               /\ Chosen!Flag(e.size # Unknown) < Chosen!Flag(f.size # Unknown)
            \/ /\ Chosen!Flag(e.accepted) = Chosen!Flag(f.accepted)
               /\ Chosen!Flag(e.seeders # Unknown) = Chosen!Flag(f.seeders # Unknown)
               /\ -Chosen!OrZero(e.seeders) = -Chosen!OrZero(f.seeders)
               /\ Chosen!Flag(e.size # Unknown) = Chosen!Flag(f.size # Unknown)
               /\ Chosen!OrZero(e.size) < Chosen!OrZero(f.size)
            \/ /\ Chosen!Flag(e.accepted) = Chosen!Flag(f.accepted)
               /\ Chosen!Flag(e.seeders # Unknown) = Chosen!Flag(f.seeders # Unknown)
               /\ -Chosen!OrZero(e.seeders) = -Chosen!OrZero(f.seeders)
               /\ Chosen!Flag(e.size # Unknown) = Chosen!Flag(f.size # Unknown)
               /\ Chosen!OrZero(e.size) = Chosen!OrZero(f.size)
               /\ e.btih < f.btih
  <2> DEFINE k == key(e)
             l == key(f)
  <2>1. /\ DOMAIN k = 1..6
        /\ k[1] = Chosen!Flag(e.accepted) /\ k[2] = Chosen!Flag(e.seeders # Unknown)
        /\ k[3] = -Chosen!OrZero(e.seeders) /\ k[4] = Chosen!Flag(e.size # Unknown)
        /\ k[5] = Chosen!OrZero(e.size) /\ k[6] = e.btih
        /\ l[1] = Chosen!Flag(f.accepted) /\ l[2] = Chosen!Flag(f.seeders # Unknown)
        /\ l[3] = -Chosen!OrZero(f.seeders) /\ l[4] = Chosen!Flag(f.size # Unknown)
        /\ l[5] = Chosen!OrZero(f.size) /\ l[6] = f.btih
    OBVIOUS
  <2> HIDE DEF k, l
  <2>2. Less(k, l)
          <=> \/ k[1] < l[1]
              \/ k[1] = l[1] /\ k[2] < l[2]
              \/ k[1] = l[1] /\ k[2] = l[2] /\ k[3] < l[3]
              \/ k[1] = l[1] /\ k[2] = l[2] /\ k[3] = l[3] /\ k[4] < l[4]
              \/ /\ k[1] = l[1] /\ k[2] = l[2] /\ k[3] = l[3] /\ k[4] = l[4]
                 /\ k[5] < l[5]
              \/ /\ k[1] = l[1] /\ k[2] = l[2] /\ k[3] = l[3] /\ k[4] = l[4]
                 /\ k[5] = l[5] /\ k[6] < l[6]
    BY <2>1, LessSix
  <2>3. Less(key(e), key(f)) <=> Less(k, l)
    BY DEF k, l
  <2> HIDE DEF key
  <2> QED BY <2>1, <2>2, <2>3
<1>6. Less(KeyOf(e), KeyOf(f)) <=> Less(key(e), key(f))
  BY <1>1
<1> HIDE DEF key
<1> QED BY <1>3, <1>4, <1>5, <1>6

LEMMA FoundAreSorted ==
  ASSUME SelectionAssumptions, SelectionInv
  PROVE  LET s == Chosen!Evaluations(rules, merged) IN
         /\ DOMAIN s = 1..Cardinality(Found) /\ Cardinality(Found) \in Nat
         /\ s \in Seq(Found) /\ \A e \in Found : \E i \in DOMAIN s : s[i] = e
         /\ \A i \in DOMAIN s : s[i] \in Found
         /\ \A i, j \in DOMAIN s : i < j => Less(KeyOf(s[i]), KeyOf(s[j]))
<1> DEFINE key == [e \in Found |-> KeyOf(e)]
           s == Chosen!Evaluations(rules, merged)
<1>1. s = Sorted(Found, key)
  BY SameOrdering DEF Chosen!Evaluations, Found, KeyOf
<1>2. ASSUME NEW x \in Found, NEW y \in Found, x # y
      PROVE  Less(key[x], key[y]) \/ Less(key[y], key[x])
  <2>1. x.btih # y.btih
    BY <1>2, FoundTyped
  <2>2. /\ x.accepted \in BOOLEAN /\ y.accepted \in BOOLEAN
        /\ x.btih \in Nat /\ y.btih \in Nat
        /\ x.seeders \in Nat \/ x.seeders = Unknown
        /\ y.seeders \in Nat \/ y.seeders = Unknown
        /\ x.size \in Nat \/ x.size = Unknown
        /\ y.size \in Nat \/ y.size = Unknown
    BY FoundTyped
  <2> QED BY <2>1, <2>2, KeysCompare, SameOrdering DEF Chosen!OrZero
<1>3. ASSUME NEW x \in Found, NEW y \in Found, NEW z \in Found,
             Less(key[x], key[y]), Less(key[y], key[z])
      PROVE  Less(key[x], key[z])
  <2>1. /\ x.accepted \in BOOLEAN /\ y.accepted \in BOOLEAN /\ z.accepted \in BOOLEAN
        /\ x.btih \in Nat /\ y.btih \in Nat /\ z.btih \in Nat
        /\ x.seeders \in Nat \/ x.seeders = Unknown
        /\ y.seeders \in Nat \/ y.seeders = Unknown
        /\ z.seeders \in Nat \/ z.seeders = Unknown
        /\ x.size \in Nat \/ x.size = Unknown
        /\ y.size \in Nat \/ y.size = Unknown
        /\ z.size \in Nat \/ z.size = Unknown
    BY FoundTyped
  <2>2. Less(KeyOf(x), KeyOf(y)) /\ Less(KeyOf(y), KeyOf(z))
    BY <1>3
  <2> QED BY <2>1, <2>2, KeysCompare, SameOrdering DEF Chosen!OrZero
<1>4. s \in SetToSeqs(Found) /\ IsAscending(s, key)
  <2>1. IsFiniteSet(Found)
    BY FoundTyped
  <2> HIDE DEF key
  <2> QED BY <1>1, <1>2, <1>3, <2>1, SortedIsThere
<1> HIDE DEF s
<1>5. /\ DOMAIN s = 1..Cardinality(Found) /\ Cardinality(Found) \in Nat
      /\ s \in Seq(Found) /\ \A e \in Found : \E i \in DOMAIN s : s[i] = e
      /\ \A i \in DOMAIN s : s[i] \in Found
  <2>1. /\ Cardinality(Found) \in Nat /\ DOMAIN s = 1..Cardinality(Found) /\ Range(s) = Found
        /\ s \in Seq(Found)
    BY <1>4, FoundTyped, SequenceOfSet
  <2> QED BY <2>1 DEF Range
<1>6. \A i, j \in DOMAIN s : i < j => Less(KeyOf(s[i]), KeyOf(s[j]))
  BY <1>4, <1>5 DEF IsAscending
<1> QED BY <1>5, <1>6 DEF s

LEMMA ResultIsProven ==
  ASSUME SelectionAssumptions, SelectionInv PROVE AcceptedIsProven
<1>1. CASE ~result.made
  BY <1>1 DEF SelectionInv, ResultIsOfMerged, AcceptedIsProven
<1>2. CASE result.made
  <2>1. \A i \in DOMAIN result.evaluations : result.evaluations[i] \in Found
    BY <1>2, FoundAreSorted DEF SelectionInv, ResultIsOfMerged
  <2> QED BY <2>1, FoundTyped DEF AcceptedIsProven
<1> QED BY <1>1, <1>2

LEMMA ResultIsInOrder ==
  ASSUME SelectionAssumptions, SelectionInv PROVE BestComesFirst
<1>1. CASE ~result.made
  BY <1>1 DEF SelectionInv, ResultIsOfMerged, BestComesFirst
<1>2. CASE result.made
  <2>1. SUFFICES ASSUME NEW i \in DOMAIN result.evaluations, NEW j \in DOMAIN result.evaluations,
                        i < j
                 PROVE  LET e == result.evaluations[i]
                            f == result.evaluations[j]
                        IN  /\ e.accepted \/ ~f.accepted
                            /\ e.accepted = f.accepted => Better(e.btih, f.btih)
    BY DEF BestComesFirst
  <2> DEFINE e == result.evaluations[i]
             f == result.evaluations[j]
  <2>2. e \in Found /\ f \in Found /\ Less(KeyOf(e), KeyOf(f))
    BY <1>2, <2>1, FoundAreSorted DEF SelectionInv, ResultIsOfMerged
  <2> HIDE DEF e, f
  <2> DEFINE a == e.btih
             b == f.btih
  <2>3. /\ e.accepted \in BOOLEAN /\ f.accepted \in BOOLEAN
        /\ a \in Nat /\ b \in Nat
        /\ e.seeders = IF KnownSeeders(a) = {} THEN Unknown ELSE Most(a)
        /\ f.seeders = IF KnownSeeders(b) = {} THEN Unknown ELSE Most(b)
        /\ e.size = IF OneSize(a) THEN SizeOf(a) ELSE Unknown
        /\ f.size = IF OneSize(b) THEN SizeOf(b) ELSE Unknown
        /\ KnownSeeders(a) # {} => Most(a) \in Nat
        /\ KnownSeeders(b) # {} => Most(b) \in Nat
        /\ OneSize(a) => SizeOf(a) \in Nat
        /\ OneSize(b) => SizeOf(b) \in Nat
    BY <2>2, FoundTyped
  <2>4. Unknown = -1
    BY DEF Unknown
  <2>5. \/ e.accepted /\ ~f.accepted
        \/ /\ e.accepted = f.accepted
           /\ \/ e.seeders # Unknown /\ f.seeders = Unknown
              \/ /\ (e.seeders = Unknown) = (f.seeders = Unknown)
                 /\ \/ Chosen!OrZero(e.seeders) > Chosen!OrZero(f.seeders)
                    \/ /\ Chosen!OrZero(e.seeders) = Chosen!OrZero(f.seeders)
                       /\ \/ e.size # Unknown /\ f.size = Unknown
                          \/ /\ (e.size = Unknown) = (f.size = Unknown)
                             /\ \/ Chosen!OrZero(e.size) < Chosen!OrZero(f.size)
                                \/ Chosen!OrZero(e.size) = Chosen!OrZero(f.size) /\ a < b
    BY <2>2, KeysCompare
  <2>6. ASSUME e.accepted = f.accepted PROVE Better(a, b)
    <3> HIDE DEF a, b
    <3>1. /\ (e.seeders # Unknown) = (KnownSeeders(a) # {})
          /\ (f.seeders # Unknown) = (KnownSeeders(b) # {})
          /\ (e.size # Unknown) = OneSize(a)
          /\ (f.size # Unknown) = OneSize(b)
      BY <2>3, <2>4 DEF OneSize
    <3> QED BY <2>3, <2>4, <2>5, <2>6, <3>1, SameOrdering DEF Better, OneSize, Chosen!OrZero
  <2>7. e.accepted \/ ~f.accepted
    BY <2>3, <2>5
  <2> QED BY <2>6, <2>7 DEF e, f
<1> QED BY <1>1, <1>2

\* Each candidate found is evaluated, with the reasons of the rules, and a content
\* is selected if the first candidate is accepted.
LEMMA ResultIsTyped ==
  ASSUME SelectionAssumptions, SelectionInv PROVE Chosen!TypeOK
<1>1. answers.rankings \subseteq Rankings /\ answers.evidence \subseteq Evidence
  BY DEF SelectionInv, AnswersTyped
<1>2. CASE ~result.made
  <2>1. result.evaluations = <<>>
    BY <1>2 DEF SelectionInv, ResultIsOfMerged
  <2>2. \A i \in DOMAIN result.evaluations : FALSE
    BY <2>1
  <2> QED BY <1>1, <1>2, <2>2 DEF Chosen!TypeOK
<1>3. CASE result.made
  <2> DEFINE s == result.evaluations
  <2>1. s = Chosen!Evaluations(rules, merged) /\ result.status = Chosen!Status(s)
    BY <1>3 DEF SelectionInv, ResultIsOfMerged
  <2>2. /\ s \in Seq(Found) /\ \A e \in Found : \E i \in DOMAIN s : s[i] = e
        /\ \A i \in DOMAIN s : s[i] \in Found
    BY <2>1, FoundAreSorted
  <2>3. \A i, j \in DOMAIN s : i < j => s[i].accepted \/ ~s[j].accepted
    BY ResultIsInOrder DEF BestComesFirst
  <2>4. ASSUME NEW e \in Found PROVE e.reasons \subseteq Chosen!ReasonCodes
    <3>1. PICK b \in DOMAIN merged : e = Chosen!Evaluate(rules, b, merged[b])
      BY DEF Found
    <3> DEFINE ev == merged[b]
               truth == Chosen!TruthReasons(rules.mode, Chosen!Truth(ev))
               sizes == Chosen!SizeReasons(rules, Chosen!Size(ev))
               seeders == Chosen!SeedersReasons(rules, Chosen!Seeders(ev))
               words == Chosen!KeywordReasons(rules, Chosen!Text(ev))
    <3>2. e.reasons = truth \union sizes \union seeders \union words
      BY <3>1 DEF Chosen!Evaluate
    <3>3. truth \subseteq Chosen!ReasonCodes
      BY DEF Chosen!TruthReasons, Chosen!ReasonCodes
    <3>4. sizes \subseteq Chosen!ReasonCodes
      BY DEF Chosen!SizeReasons, Chosen!ReasonCodes
    <3>5. seeders \subseteq Chosen!ReasonCodes
      BY DEF Chosen!SeedersReasons, Chosen!ReasonCodes
    <3>6. words \subseteq Chosen!ReasonCodes
      BY DEF Chosen!KeywordReasons, Chosen!ReasonCodes
    <3> HIDE DEF truth, sizes, seeders, words
    <3> QED BY <3>2, <3>3, <3>4, <3>5, <3>6
  <2>5. {s[i].btih : i \in DOMAIN s} = {e.btih : e \in answers.evidence}
    <3>1. {e.btih : e \in Found} = DOMAIN merged
      <4>1. \A b \in DOMAIN merged : Chosen!Evaluate(rules, b, merged[b]).btih = b
        BY DEF Chosen!Evaluate
      <4> QED BY <4>1 DEF Found
    <3>2. {s[i].btih : i \in DOMAIN s} = {e.btih : e \in Found}
      BY <2>2
    <3> QED BY <3>1, <3>2 DEF SelectionInv, MergedIsAnswered
  <2>6. result.status = "selected" <=> s # <<>> /\ s[1].accepted
    <3> HIDE DEF s
    <3>1. CASE s = <<>>
      BY <2>1, <3>1 DEF Chosen!Status
    <3>2. CASE s # <<>>
      <4>1. 1 \in DOMAIN s /\ \A i \in DOMAIN s : i = 1 \/ 1 < i
        <5>1. Len(s) \in Nat /\ DOMAIN s = 1..Len(s) /\ Len(s) # 0
          BY <2>2, <3>2, EmptySeq
        <5> QED BY <5>1
      <4>2. s[1].accepted \/ \A i \in DOMAIN s : ~s[i].accepted
        BY <2>3, <4>1
      <4> QED BY <2>1, <3>2, <4>1, <4>2 DEF Chosen!Status
    <3> QED BY <3>1, <3>2
  <2> QED BY <1>1, <2>2, <2>4, <2>5, <2>6 DEF Chosen!TypeOK
<1> QED BY <1>2, <1>3

------------------------------------------------------------------------------
(***************************************************************************)
(* The cut at top_n.                                                       *)
(***************************************************************************)

RanksOf(k) == {r.rank : r \in Ranked(k)}

\* A content's best rank is the least that any source gives it.
LEMMA BestRankIsLeast ==
  ASSUME SelectionAssumptions, SelectionInv, NEW k \in DOMAIN items
  PROVE  /\ k \in Nat /\ Chosen!BestRank(items[k]) = Min(RanksOf(k))
         /\ Min(RanksOf(k)) \in Nat
<1>1. Chosen!Range(items[k]) = Ranked(k)
  BY SameOrdering DEF SelectionInv, ItemsAreAnswered
<1>2. Chosen!BestRank(items[k]) = Min(RanksOf(k))
  BY <1>1, SameOrdering DEF Chosen!BestRank, RanksOf
<1>3. Ranked(k) # {} /\ Ranked(k) \subseteq Rankings
  BY DEF SelectionInv, ItemsAreAnswered, Ranked, AnswersTyped
<1>4. RanksOf(k) \in SUBSET Nat /\ RanksOf(k) # {}
  BY <1>3 DEF RanksOf, SelectionAssumptions, Chosen!RankingsAssumption
<1>5. k \in Nat
  BY <1>3 DEF Ranked, SelectionAssumptions, Chosen!RankingsAssumption
<1> QED BY <1>2, <1>4, <1>5, LeastNumber

LEMMA SmallerOfTwo ==
  ASSUME NEW a \in Nat, NEW b \in Nat
  PROVE  Min({a, b}) = IF b < a THEN b ELSE a
<1>1. {a, b} \in SUBSET Nat /\ {a, b} # {}
  OBVIOUS
<1>2. Min({a, b}) \in {a, b} /\ \A y \in {a, b} : Min({a, b}) <= y
  BY <1>1, LeastNumber
<1> QED BY <1>2

LEMMA TopOfResult ==
  ASSUME SelectionAssumptions, SelectionInv PROVE TopIsTaken
<1> DEFINE keys == {r.key : r \in answers.rankings}
           key == [k \in keys |-> <<Min(RanksOf(k)), k>>]
           s == Sorted(keys, key)
           n == Cardinality(keys)
           m == IF n < TopN THEN n ELSE TopN
           contents == result.contents
<1>1. SUFFICES ASSUME result.made
               PROVE  /\ Range(contents) \subseteq keys
                      /\ Cardinality(Range(contents)) = Len(contents)
                      /\ Len(contents) = Min({TopN, n})
                      /\ \A k \in Range(contents), l \in keys \ Range(contents) :
                           Min(RanksOf(k)) <= Min(RanksOf(l))
  BY DEF TopIsTaken, RanksOf, Ranked
<1>2. DOMAIN items = keys /\ IsFiniteSet(keys)
  <2> DEFINE named == [r \in answers.rankings |-> r.key]
  <2>1. IsFiniteSet(Range(named))
    BY ImageIsFinite DEF SelectionInv, AnswersTyped
  <2>2. Range(named) = keys
    BY DEF Range
  <2> QED BY <2>1, <2>2 DEF SelectionInv, ItemsAreAnswered
<1>3. \A k \in keys :
        /\ k \in Nat /\ Min(RanksOf(k)) \in Nat
        /\ Chosen!BestRank(items[k]) = Min(RanksOf(k))
  BY <1>2, BestRankIsLeast
<1>4. contents = SubSeq(s, 1, IF Len(s) < TopN THEN Len(s) ELSE TopN)
  <2>1. [k \in DOMAIN items |-> <<Chosen!BestRank(items[k]), k>>] = key
    BY <1>2, <1>3
  <2>2. contents = Chosen!FirstOf(s, TopN)
    <3>1. contents = Chosen!Contents(items)
      BY <1>1 DEF SelectionInv, ResultIsOfMerged
    <3>2. Chosen!Contents(items)
            = Chosen!FirstOf(Chosen!Sorted(DOMAIN items,
                [k \in DOMAIN items |-> <<Chosen!BestRank(items[k]), k>>]), TopN)
      BY DEF Chosen!Contents
    <3>3. Chosen!Sorted(keys, key) = Sorted(keys, key)
      BY SameOrdering
    <3> QED BY <1>2, <2>1, <3>1, <3>2, <3>3
  <2> QED BY <2>2 DEF Chosen!FirstOf
<1>5. \A x, y \in keys :
        Less(key[x], key[y])
          <=> \/ Min(RanksOf(x)) < Min(RanksOf(y))
              \/ Min(RanksOf(x)) = Min(RanksOf(y)) /\ x < y
  <2>1. TAKE x, y \in keys
  <2>2. /\ DOMAIN key[x] = 1..2
        /\ key[x][1] = Min(RanksOf(x)) /\ key[x][2] = x
        /\ key[y][1] = Min(RanksOf(y)) /\ key[y][2] = y
    OBVIOUS
  <2> HIDE DEF key
  <2> QED BY <2>2, LessTwo
<1>6. s \in SetToSeqs(keys) /\ IsAscending(s, key)
  <2> HIDE DEF keys, key
  <2>1. \A x, y \in keys : x # y => Less(key[x], key[y]) \/ Less(key[y], key[x])
    BY <1>3, <1>5
  <2>2. \A x, y, z \in keys : Less(key[x], key[y]) /\ Less(key[y], key[z])
                                => Less(key[x], key[z])
    <3>1. TAKE x, y, z \in keys
    <3>2. /\ x \in Nat /\ y \in Nat /\ z \in Nat
          /\ Min(RanksOf(x)) \in Nat /\ Min(RanksOf(y)) \in Nat /\ Min(RanksOf(z)) \in Nat
      BY <1>3
    <3> QED BY <1>5, <3>2
  <2> QED BY <1>2, <2>1, <2>2, SortedIsThere
<1> HIDE DEF keys, key, s, contents
<1>7. /\ n \in Nat /\ DOMAIN s = 1..n /\ Len(s) = n /\ s \in Seq(keys) /\ Range(s) = keys
      /\ \A i, j \in DOMAIN s : s[i] = s[j] => i = j
  BY <1>2, <1>6, SequenceOfSet
<1> HIDE DEF n
<1>8. TopN \in Nat
  BY DEF SelectionAssumptions, Chosen!BoundsAssumption
<1>9. m \in 0..n /\ (m = n \/ m = TopN) /\ m <= TopN
  BY <1>7, <1>8
<1>10. contents = SubSeq(s, 1, m)
  BY <1>4, <1>7
<1> HIDE DEF m
<1>11. /\ contents \in Seq(keys) /\ Len(contents) = m /\ DOMAIN contents = 1..m
       /\ \A i \in 1..m : contents[i] = s[i] /\ i \in DOMAIN s
  BY <1>7, <1>9, <1>10
<1>12. Range(contents) \subseteq keys
  BY <1>11, <1>7 DEF Range
<1>13. Cardinality(Range(contents)) = m
  <2>1. contents \in Bijection(1..m, Range(contents))
    <3>1. contents \in [1..m -> Range(contents)]
      BY <1>11 DEF Range
    <3>2. contents \in Surjection(1..m, Range(contents))
      BY <1>11, <3>1 DEF Surjection, Range
    <3>3. contents \in Injection(1..m, Range(contents))
      BY <1>7, <1>11, <3>1 DEF Injection, IsInjective
    <3> QED BY <3>2, <3>3 DEF Bijection
  <2>2. IsFiniteSet(1..m) /\ Cardinality(1..m) = m
    BY <1>7, <1>9, FS_Interval
  <2>3. ExistsBijection(1..m, Range(contents))
    BY <2>1 DEF ExistsBijection
  <2> QED BY <2>2, <2>3, FS_Bijection
<1>14. m = Min({TopN, n})
  BY <1>7, <1>8, <1>9, SmallerOfTwo DEF m
<1>15. ASSUME NEW k \in Range(contents), NEW l \in keys \ Range(contents)
       PROVE  Min(RanksOf(k)) <= Min(RanksOf(l))
  <2>1. PICK i \in 1..m : s[i] = k /\ i \in DOMAIN s
    BY <1>11 DEF Range
  <2>2. PICK j \in DOMAIN s : s[j] = l
    BY <1>7, <1>15 DEF Range
  <2>3. j \notin 1..m
    BY <1>11, <1>15, <2>2 DEF Range
  <2>4. i < j
    BY <1>7, <1>9, <2>1, <2>2, <2>3
  <2>5. Less(key[k], key[l])
    BY <1>6, <2>1, <2>2, <2>4 DEF IsAscending
  <2>6. k \in keys /\ l \in keys
    BY <1>12
  <2> QED BY <1>3, <1>5, <2>5, <2>6
<1> QED BY <1>11, <1>12, <1>13, <1>14, <1>15

------------------------------------------------------------------------------

\* rules.py, models.py: a candidate is accepted exactly if the evidence of all sources
\* proves it to meet the rules, in whatever order the sources have answered.
THEOREM AcceptedAreProven == SelectionAssumptions /\ Chosen!Spec => []AcceptedIsProven
<1>1. SelectionAssumptions /\ SelectionInv => AcceptedIsProven
  BY ResultIsProven
<1>2. SelectionAssumptions => []SelectionAssumptions
  OBVIOUS
<1> QED BY <1>1, <1>2, SelectionInvariant, PTL

\* service.py, selector.py: the contents that are taken are the best ranked, and of the
\* candidates of a content the best comes first, in whatever order the sources answered.
THEOREM BestAreTaken == SelectionAssumptions /\ Chosen!Spec => []BestIsTaken
<1>1. SelectionAssumptions /\ SelectionInv => BestIsTaken
  BY ResultIsInOrder, TopOfResult DEF BestIsTaken
<1>2. SelectionAssumptions => []SelectionAssumptions
  OBVIOUS
<1> QED BY <1>1, <1>2, SelectionInvariant, PTL

\* rules.py, pipeline.py: each candidate that a source has named is evaluated, none
\* besides, and a content is selected exactly if the first of them is accepted.
THEOREM SelectionTypes == SelectionAssumptions /\ Chosen!Spec => []Chosen!TypeOK
<1>1. SelectionAssumptions /\ SelectionInv => Chosen!TypeOK
  BY ResultIsTyped
<1>2. SelectionAssumptions => []SelectionAssumptions
  OBVIOUS
<1> QED BY <1>1, <1>2, SelectionInvariant, PTL

------------------------------------------------------------------------------
(***************************************************************************)
(* Paths.  One is a prefix of another place by place.                      *)
(***************************************************************************)

PathSet == Seq(Names)

LEMMA PartOfPath ==
  ASSUME NEW p \in PathSet, NEW n \in 0..Len(p)
  PROVE  /\ SubSeq(p, 1, n) \in PathSet /\ Len(SubSeq(p, 1, n)) = n
         /\ \A i \in 1..n : SubSeq(p, 1, n)[i] = p[i]
<1>1. /\ 1 \in Int /\ n \in Int /\ Len(p) \in Nat
      /\ \A i \in 1..n : p[i] \in Names
  BY DEF PathSet
<1>2. /\ SubSeq(p, 1, n) \in Seq(Names)
      /\ Len(SubSeq(p, 1, n)) = IF 1 <= n THEN n - 1 + 1 ELSE 0
      /\ \A i \in 1..(n - 1 + 1) : SubSeq(p, 1, n)[i] = p[1 + i - 1]
  BY <1>1, SubSeqProperties
<1> QED BY <1>1, <1>2 DEF PathSet

LEMMA SamePath ==
  ASSUME NEW p \in PathSet, NEW q \in PathSet, Len(p) = Len(q),
         \A i \in 1..Len(p) : p[i] = q[i]
  PROVE  p = q
BY SeqEqual DEF PathSet

LEMMA PrefixByPlace ==
  ASSUME NEW p \in PathSet, NEW q \in PathSet
  PROVE  IsPrefix(p, q) <=> Len(p) <= Len(q) /\ \A i \in 1..Len(p) : p[i] = q[i]
<1>1. Len(p) \in Nat /\ Len(q) \in Nat
  BY DEF PathSet
<1>2. ASSUME Len(p) <= Len(q), SubSeq(p, 1, Len(p)) = SubSeq(q, 1, Len(p))
      PROVE  \A i \in 1..Len(p) : p[i] = q[i]
  BY <1>1, <1>2, PartOfPath
<1>3. ASSUME Len(p) <= Len(q), \A i \in 1..Len(p) : p[i] = q[i]
      PROVE  SubSeq(p, 1, Len(p)) = SubSeq(q, 1, Len(p))
  <2> DEFINE a == SubSeq(p, 1, Len(p))
             b == SubSeq(q, 1, Len(p))
  <2>1. /\ a \in PathSet /\ b \in PathSet /\ Len(a) = Len(p) /\ Len(b) = Len(p)
        /\ \A i \in 1..Len(p) : a[i] = b[i]
    BY <1>1, <1>3, PartOfPath
  <2> HIDE DEF a, b
  <2>2. a = b
    BY <2>1, SamePath
  <2> QED BY <2>2 DEF a, b
<1> QED BY <1>2, <1>3 DEF IsPrefix

LEMMA ParentOfPath ==
  ASSUME NEW p \in PathSet, p # <<>>
  PROVE  /\ Len(p) \in Nat \ {0}
         /\ Front(p) \in PathSet /\ Len(Front(p)) = Len(p) - 1
         /\ \A i \in 1..(Len(p) - 1) : Front(p)[i] = p[i]
<1>1. Len(p) \in Nat \ {0}
  <2>1. Len(p) \in Nat
    BY DEF PathSet
  <2>2. Len(p) # 0
    <3>1. SUFFICES ASSUME Len(p) = 0 PROVE FALSE
      OBVIOUS
    <3>2. p = <<>>
      BY <3>1, EmptySeq DEF PathSet
    <3> QED BY <3>2
  <2> QED BY <2>1, <2>2
<1>2. Len(p) - 1 \in 0..Len(p)
  BY <1>1
<1> QED BY <1>1, <1>2, PartOfPath DEF Front

------------------------------------------------------------------------------
(***************************************************************************)
(* ensure_destination.  The invariant: the folders before the one at hand  *)
(* have been seen, and are there as long as nobody else changes the tree.  *)
(***************************************************************************)

RemoteAssumptions == Remote!PathsAssumption /\ Remote!BoundsAssumption

IsFolder(path) == path \in DOMAIN tree /\ tree[path] = Dir
Seen(t) == seen[t].ever
Current == {<<p, tree[p]>> : p \in DOMAIN tree}

Steps == Len(Destination) - Len(Root)
Behind(t, k) ==
  \A i \in 1..(k - 1) :
    <<Components[i], Dir>> \in Seen(t) /\ (changes = 0 => IsFolder(Components[i]))
At(t, k) ==
  call[t].todo = SubSeq(Components, k, Steps) /\ Behind(t, k)

\* A folder on the way has held more entries than the limit.
Overfull(t) ==
  \E i \in 1..Steps :
    \E S \in SUBSET Beside(Seen(t), Components[i]) : Cardinality(S) > MaxEntries

\* The causes for which a thread may fail.
HasCause(t) ==
  \/ changes > 0 \/ faults > 0 \/ Overfull(t)
  \/ \E i \in 1..Steps : \E f \in Seen(t) : f[1] = Components[i] /\ f[2] # Dir

Ensuring(t) ==
  /\ call[t].pc # "idle" => Current \subseteq Seen(t)
  /\ call[t].pc \in {"list", "create", "check"} => \E k \in 1..Steps : At(t, k)
  /\ call[t].pc = "check" =>
       changes > 0 \/ faults > 0 \/ Head(call[t].todo) \in DOMAIN tree
  /\ call[t].pc = "ensured" => \A i \in 1..Steps : <<Components[i], Dir>> \in Seen(t)
  /\ call[t].pc = "unensured" => HasCause(t)

EnsureInv ==
  /\ DOMAIN call = Threads /\ DOMAIN seen = Threads
  /\ changes \in Nat /\ faults \in Nat
  /\ changes = 0 => Root = <<>> \/ IsFolder(Root)
  /\ \A t \in Threads : Ensuring(t)

LEMMA SameTree ==
  /\ Remote!Dir = Dir /\ Remote!Components = Components
  /\ Remote!Facts = Current
  /\ \A p : Remote!Front(p) = Front(p)
  /\ \A p : Remote!Last(p) = Last(p)
  /\ \A p, q : Remote!IsPrefix(p, q) <=> IsPrefix(p, q)
  /\ \A p, q : Remote!IsStrictPrefix(p, q) <=> IsStrictPrefix(p, q)
  /\ \A p : Remote!IsDir(p) <=> p = <<>> \/ IsFolder(p)
  /\ \A S : Remote!SetToSeqs(S) = SetToSeqs(S)
  /\ \A S : Remote!Cardinality(S) = Cardinality(S)
<1>1. \A S : Remote!Cardinality(S) = Cardinality(S)
  BY DEF Remote!Cardinality, Cardinality
<1>2. Remote!Dir = Dir
  BY DEF Remote!Dir, Dir
<1>3. \A p, q : Remote!IsPrefix(p, q) <=> IsPrefix(p, q)
  BY DEF Remote!IsPrefix, IsPrefix
<1>4. Remote!Components = Components
  BY DEF Remote!Components, Components
<1>5. \A S : Remote!SetToSeqs(S) = SetToSeqs(S)
  BY <1>1 DEF Remote!SetToSeqs, SetToSeqs
<1> QED BY <1>1, <1>2, <1>3, <1>4, <1>5 DEF Remote!Facts, Current, Remote!Front, Front,
  Remote!Last, Last, Remote!IsStrictPrefix, IsStrictPrefix, Remote!IsDir, IsFolder

\* The folders on the way: each is in the one before, the first in the root.
LEMMA FoldersOnTheWay ==
  ASSUME RemoteAssumptions
  PROVE  /\ Steps \in Nat /\ DOMAIN Components = 1..Steps
         /\ Components \in Seq(PathSet) /\ Len(Components) = Steps
         /\ \A i \in 1..Steps :
              /\ Components[i] \in PathSet /\ Components[i] # <<>>
              /\ Components[i] \in Paths
              /\ Front(Components[i]) = IF i = 1 THEN Root ELSE Components[i - 1]
<1>1. /\ Destination \in PathSet /\ Root \in PathSet /\ IsPrefix(Root, Destination)
      /\ \A n \in 1..Len(Destination) : SubSeq(Destination, 1, n) \in Paths
  BY SameTree DEF RemoteAssumptions, Remote!PathsAssumption, PathSet
<1>2. /\ Len(Root) \in Nat /\ Len(Destination) \in Nat /\ Len(Root) <= Len(Destination)
      /\ \A i \in 1..Len(Root) : Root[i] = Destination[i]
  BY <1>1, PrefixByPlace DEF PathSet
<1>3. Steps \in Nat /\ DOMAIN Components = 1..Steps
  BY <1>2 DEF Steps, Components
<1>4. ASSUME NEW i \in 1..Steps
      PROVE  /\ Components[i] \in PathSet /\ Len(Components[i]) = Len(Root) + i
             /\ Components[i] \in Paths
             /\ \A j \in 1..(Len(Root) + i) : Components[i][j] = Destination[j]
  <2>1. /\ Len(Root) + i \in 1..Len(Destination) /\ Len(Root) + i \in 0..Len(Destination)
        /\ Components[i] = SubSeq(Destination, 1, Len(Root) + i)
    BY <1>2, <1>3 DEF Steps, Components
  <2> QED BY <1>1, <2>1, PartOfPath
<1>5. ASSUME NEW i \in 1..Steps
      PROVE  /\ Components[i] # <<>>
             /\ Front(Components[i]) = IF i = 1 THEN Root ELSE Components[i - 1]
  <2>1. Components[i] # <<>>
    BY <1>2, <1>3, <1>4
  <2>2. /\ Front(Components[i]) \in PathSet /\ Len(Front(Components[i])) = Len(Root) + i - 1
        /\ \A j \in 1..(Len(Root) + i - 1) : Front(Components[i])[j] = Components[i][j]
    <3> DEFINE c == Components[i]
    <3>1. c \in PathSet /\ c # <<>> /\ Len(c) = Len(Root) + i
      BY <1>4, <2>1
    <3> HIDE DEF c
    <3>2. /\ Front(c) \in PathSet /\ Len(Front(c)) = Len(c) - 1
          /\ \A j \in 1..(Len(c) - 1) : Front(c)[j] = c[j]
      BY <3>1, ParentOfPath
    <3>3. /\ Front(c) \in PathSet /\ Len(Front(c)) = Len(Root) + i - 1
          /\ \A j \in 1..(Len(Root) + i - 1) : Front(c)[j] = c[j]
      BY <1>2, <3>1, <3>2
    <3> QED BY <3>3 DEF c
  <2>3. \A j \in 1..(Len(Root) + i - 1) : j \in 1..(Len(Root) + i)
    BY <1>2, <1>3
  <2>4. CASE i = 1
    <3>1. ASSUME NEW j \in 1..Len(Root) PROVE Front(Components[i])[j] = Root[j]
      <4>1. j \in 1..(Len(Root) + i - 1) /\ j \in 1..(Len(Root) + i)
        BY <1>2, <2>4
      <4>2. Front(Components[i])[j] = Components[i][j]
        BY <2>2, <4>1
      <4>3. Components[i][j] = Destination[j]
        BY <1>4, <4>1
      <4> QED BY <1>2, <4>2, <4>3
    <3>2. Len(Front(Components[i])) = Len(Root)
      BY <1>2, <2>2, <2>4
    <3> QED BY <1>1, <2>1, <2>2, <2>4, <3>1, <3>2, SamePath
  <2>5. CASE i # 1
    <3>1. i - 1 \in 1..Steps /\ Len(Root) + (i - 1) = Len(Root) + i - 1
      BY <1>2, <1>3, <2>5
    <3>2. /\ Components[i - 1] \in PathSet /\ Len(Components[i - 1]) = Len(Root) + i - 1
          /\ \A j \in 1..(Len(Root) + i - 1) : Components[i - 1][j] = Destination[j]
      BY <1>4, <3>1
    <3>3. \A j \in 1..(Len(Root) + i - 1) : Front(Components[i])[j] = Components[i - 1][j]
      BY <1>4, <2>2, <2>3, <3>2
    <3> QED BY <2>1, <2>2, <2>5, <3>2, <3>3, SamePath
  <2> QED BY <2>4, <2>5
<1>6. Components \in Seq(PathSet) /\ Len(Components) = Steps
  <2>1. Components = [i \in 1..Steps |-> Components[i]]
    BY DEF Components, Steps
  <2>2. Components \in [1..Steps -> PathSet]
    BY <1>4, <2>1
  <2> QED BY <1>3, <2>2
<1> QED BY <1>3, <1>4, <1>5, <1>6

------------------------------------------------------------------------------

\* What a step of another thread leaves of the tree.
Onward ==
  /\ changes' \in Nat /\ faults' \in Nat /\ faults' >= faults
  /\ \/ changes' > 0
     \/ changes' = changes /\ \A p : (p \in DOMAIN tree => p \in DOMAIN tree')
                                     /\ (IsFolder(p) => IsFolder(p)')
SeesOn(t) == Seen(t) \subseteq Seen(t)' /\ Current' \subseteq Seen(t)'

\* What has been seen stays seen.
LEMMA StaysOverfull ==
  ASSUME NEW t, Seen(t) \subseteq Seen(t)', Overfull(t)
  PROVE  Overfull(t)'
<1>1. PICK i \in 1..Steps :
        \E S \in SUBSET Beside(Seen(t), Components[i]) : Cardinality(S) > MaxEntries
  BY DEF Overfull
<1>2. PICK S \in SUBSET Beside(Seen(t), Components[i]) : Cardinality(S) > MaxEntries
  BY <1>1
<1>3. Beside(Seen(t), Components[i]) \subseteq Beside(Seen(t)', Components[i])
  BY DEF Beside
<1>4. S \in SUBSET Beside(Seen(t)', Components[i])
  BY <1>2, <1>3
<1> QED BY <1>2, <1>4 DEF Overfull

\* _list_direct refuses a folder that holds too much now.
LEMMA FolderIsOverfull ==
  ASSUME NEW t, NEW k \in 1..Steps, tree' = tree, Current' \subseteq Seen(t)',
         Remote!TooMany(Front(Components[k]))
  PROVE  Overfull(t)'
<1> DEFINE S == {p \in DOMAIN tree : Front(p) = Front(Components[k])}
<1>1. Cardinality(S) > MaxEntries
  BY SameTree DEF Remote!TooMany, Remote!Children
<1>2. S \subseteq Beside(Seen(t)', Components[k])
  <2>1. ASSUME NEW p \in S PROVE p \in Beside(Seen(t)', Components[k])
    <3> DEFINE f == <<p, tree[p]>>
    <3>1. f \in Seen(t)'
      BY <2>1 DEF Current
    <3>2. f[1] = p /\ Front(p) = Front(Components[k])
      BY <2>1
    <3> HIDE DEF f
    <3> QED BY <3>1, <3>2 DEF Beside
  <2> QED BY <2>1
<1> QED BY <1>1, <1>2 DEF Overfull

LEMMA EnsureGoesOn ==
  ASSUME EnsureInv, NEW t \in Threads, call'[t] = call[t], Onward,
         Seen(t) \subseteq Seen(t)', call[t].pc # "idle" => Current' \subseteq Seen(t)'
  PROVE  Ensuring(t)'
<1>1. Ensuring(t) /\ changes \in Nat /\ faults \in Nat
  BY DEF EnsureInv
<1>2. ASSUME NEW k \in 1..Steps, At(t, k) PROVE At(t, k)'
  BY <1>1, <1>2 DEF At, Behind, Onward
<1>3. call[t].pc \in {"list", "create", "check"} => \E k \in 1..Steps : At(t, k)'
  BY <1>1, <1>2 DEF Ensuring
<1>4. call[t].pc = "check" =>
        changes' > 0 \/ faults' > 0 \/ Head(call[t].todo) \in DOMAIN tree'
  BY <1>1 DEF Ensuring, Onward
<1>5. call[t].pc = "ensured" => \A i \in 1..Steps : <<Components[i], Dir>> \in Seen(t)'
  BY <1>1 DEF Ensuring
<1>6. call[t].pc = "unensured" => HasCause(t)'
  BY <1>1, StaysOverfull DEF Ensuring, Onward, HasCause
<1> QED BY <1>3, <1>4, <1>5, <1>6 DEF Ensuring

LEMMA AtHand ==
  ASSUME RemoteAssumptions, NEW t, NEW k \in 1..Steps, At(t, k)
  PROVE  /\ Head(call[t].todo) = Components[k]
         /\ Tail(call[t].todo) = SubSeq(Components, k + 1, Steps)
         /\ Tail(call[t].todo) = <<>> <=> k = Steps
         /\ Components[k] # <<>>
<1>1. /\ Steps \in Nat /\ Components \in Seq(PathSet) /\ Len(Components) = Steps
      /\ Components[k] # <<>>
  BY FoldersOnTheWay
<1>2. k \in 1..Len(Components) /\ Steps \in k..Len(Components)
  BY <1>1
<1>3. /\ Head(SubSeq(Components, k, Steps)) = Components[k]
      /\ Tail(SubSeq(Components, k, Steps)) = SubSeq(Components, k + 1, Steps)
  BY <1>1, <1>2, HeadTailOfSubSeq
<1>4. SubSeq(Components, k + 1, Steps) = <<>> <=> k = Steps
  <2>1. Len(SubSeq(Components, k + 1, Steps)) = IF k + 1 <= Steps THEN Steps - (k + 1) + 1 ELSE 0
    <3>1. k + 1 \in Int /\ Steps \in Int /\ \A i \in (k + 1)..Steps : Components[i] \in PathSet
      BY <1>1
    <3> QED BY <3>1, SubSeqProperties
  <2>2. CASE k = Steps
    BY <1>1, <2>2, SubSeqEmpty
  <2>3. CASE k # Steps
    <3>1. Len(SubSeq(Components, k + 1, Steps)) > 0
      BY <1>1, <2>1, <2>3
    <3>2. SubSeq(Components, k + 1, Steps) # <<>>
      <4> DEFINE rest == SubSeq(Components, k + 1, Steps)
      <4>1. Len(<<>>) = 0 /\ Len(rest) > 0
        BY <3>1
      <4> HIDE DEF rest
      <4>2. rest # <<>>
        BY <4>1
      <4> QED BY <4>2 DEF rest
    <3> QED BY <2>3, <3>2
  <2> QED BY <2>2, <2>3
<1> QED BY <1>1, <1>3, <1>4 DEF At

LEMMA FolderIsMade ==
  ASSUME RemoteAssumptions, EnsureInv, NEW t \in Threads,
         NEW k \in 1..Steps, At(t, k), Remote!Advance(t), Onward, SeesOn(t),
         <<Components[k], Dir>> \in Seen(t)', changes' = 0 => IsFolder(Components[k])'
  PROVE  Ensuring(t)'
<1>1. /\ Head(call[t].todo) = Components[k]
      /\ Tail(call[t].todo) = SubSeq(Components, k + 1, Steps)
      /\ Tail(call[t].todo) = <<>> <=> k = Steps
  BY AtHand
<1>2. call'[t] = IF Tail(call[t].todo) = <<>> THEN [pc |-> "ensured"]
                 ELSE [pc |-> "list", todo |-> Tail(call[t].todo)]
  BY DEF Remote!Advance, Remote!Become, EnsureInv
<1>3. Steps \in Nat
  BY FoldersOnTheWay
<1>4. \A i \in 1..k :
        <<Components[i], Dir>> \in Seen(t)' /\ (changes' = 0 => IsFolder(Components[i])')
  <2>1. TAKE i \in 1..k
  <2>2. CASE i = k
    BY <2>2
  <2>3. CASE i # k
    <3>1. i \in 1..(k - 1)
      BY <1>3, <2>3
    <3>2. <<Components[i], Dir>> \in Seen(t) /\ (changes = 0 => IsFolder(Components[i]))
      BY <3>1 DEF At, Behind
    <3> QED BY <3>2 DEF SeesOn, Onward, EnsureInv
  <2> QED BY <2>2, <2>3
<1>5. CASE k = Steps
  <2>1. call'[t] = [pc |-> "ensured"]
    BY <1>1, <1>2, <1>5
  <2> QED BY <1>4, <1>5, <2>1 DEF Ensuring, SeesOn
<1>6. CASE k # Steps
  <2> DEFINE rest == SubSeq(Components, k + 1, Steps)
  <2>1. call'[t] = [pc |-> "list", todo |-> rest]
    BY <1>1, <1>2, <1>6
  <2>2. k + 1 \in 1..Steps /\ (k + 1) - 1 = k
    BY <1>3, <1>6
  <2>3. At(t, k + 1)'
    <3>1. Behind(t, k + 1)'
      BY <1>4, <2>2 DEF Behind
    <3>2. call'[t].todo = SubSeq(Components, k + 1, Steps)
      <4> HIDE DEF rest
      <4>1. call'[t].todo = rest
        BY <2>1
      <4> QED BY <4>1 DEF rest
    <3> QED BY <3>1, <3>2 DEF At
  <2> QED BY <2>1, <2>2, <2>3 DEF Ensuring, SeesOn
<1> QED BY <1>5, <1>6

LEMMA EnsureStops ==
  ASSUME NEW t, call'[t].pc \in {"unensured", "untaken"}, Current' \subseteq Seen(t)',
         call'[t].pc = "unensured" => HasCause(t)'
  PROVE  Ensuring(t)'
BY DEF Ensuring

\* A folder that is listed as one has been seen, and one in its way is not a folder.
LEMMA ParentIsThere ==
  ASSUME RemoteAssumptions, EnsureInv, changes = 0, NEW t, NEW k \in 1..Steps, At(t, k)
  PROVE  Remote!IsDir(Front(Components[k]))
<1>1. Steps \in Nat /\ Front(Components[k]) = IF k = 1 THEN Root ELSE Components[k - 1]
  BY FoldersOnTheWay
<1>2. CASE k = 1
  BY <1>1, <1>2, SameTree DEF EnsureInv
<1>3. CASE k # 1
  <2>1. k - 1 \in 1..(k - 1)
    BY <1>1, <1>3
  <2>2. IsFolder(Components[k - 1])
    BY <2>1 DEF At, Behind
  <2> QED BY <1>1, <1>3, <2>2, SameTree
<1> QED BY <1>2, <1>3

------------------------------------------------------------------------------

LEMMA TreeBecomes ==
  ASSUME DOMAIN seen = Threads, NEW new, Remote!Becomes(new)
  PROVE  /\ tree' = new /\ DOMAIN seen' = Threads
         /\ \A t \in Threads :
              /\ seen'[t].ever = seen[t].ever \union Current'
              /\ seen'[t].always = seen[t].always \intersect Current'
              /\ SeesOn(t)
<1> DEFINE facts == {<<p, new[p]>> : p \in DOMAIN new}
<1>1. /\ tree' = new
      /\ seen' = [t \in Threads |-> [always |-> seen[t].always \intersect facts,
                                     ever   |-> seen[t].ever \union facts]]
  BY DEF Remote!Becomes
<1>2. Current' = facts
  BY <1>1 DEF Current
<1> HIDE DEF facts
<1>3. \A t \in Threads : seen'[t] = [always |-> seen[t].always \intersect facts,
                                     ever   |-> seen[t].ever \union facts]
  BY <1>1
<1>4. \A t \in Threads : seen'[t].ever = seen[t].ever \union facts
                         /\ seen'[t].always = seen[t].always \intersect facts
  <2>1. TAKE t \in Threads
  <2> DEFINE a == seen[t].always \intersect facts
             e == seen[t].ever \union facts
  <2>2. seen'[t] = [always |-> a, ever |-> e]
    BY <1>3
  <2> HIDE DEF a, e
  <2>3. seen'[t].ever = e /\ seen'[t].always = a
    BY <2>2
  <2> QED BY <2>3 DEF a, e
<1> QED BY <1>1, <1>2, <1>4 DEF SeesOn, Seen

\* What another thread creates leaves what is there.
LEMMA FolderIsCreated ==
  ASSUME EnsureInv, NEW target, target \notin DOMAIN tree, NEW new, Remote!Becomes(new),
         new = [p \in DOMAIN tree \union {target} |-> IF p = target THEN Dir ELSE tree[p]],
         changes' = changes, faults' \in Nat, faults' >= faults
  PROVE  /\ Onward /\ DOMAIN seen' = Threads /\ \A t \in Threads : SeesOn(t)
         /\ IsFolder(target)' /\ <<target, Dir>> \in Current'
<1>1. /\ tree' = new /\ DOMAIN seen' = Threads /\ \A t \in Threads : SeesOn(t)
  BY TreeBecomes DEF EnsureInv
<1>2. /\ \A p \in DOMAIN tree : p \in DOMAIN tree' /\ tree'[p] = tree[p]
      /\ target \in DOMAIN tree' /\ tree'[target] = Dir
  BY <1>1
<1>3. /\ IsFolder(target)' /\ <<target, Dir>> \in Current'
      /\ \A p : IsFolder(p) => IsFolder(p)'
  BY <1>2 DEF IsFolder, Current
<1>4. Onward
  BY <1>2, <1>3 DEF Onward, EnsureInv
<1> QED BY <1>1, <1>3, <1>4

\* Steps that leave the tree and what is seen of it.
LEMMA TreeRests ==
  ASSUME EnsureInv, UNCHANGED <<tree, changes, seen>>, faults' \in Nat, faults' >= faults
  PROVE  /\ Onward /\ DOMAIN seen' = Threads
         /\ \A t \in Threads : Seen(t)' = Seen(t) /\ (call[t].pc # "idle" => SeesOn(t))
<1>1. Onward
  BY DEF Onward, EnsureInv, IsFolder
<1>2. Current' = Current
  BY DEF Current
<1> QED BY <1>1, <1>2 DEF EnsureInv, Ensuring, SeesOn, Seen

LEMMA EnsureInitially ==
  ASSUME RemoteAssumptions, Remote!Init PROVE EnsureInv
<1>1. /\ call = [t \in Threads |-> [pc |-> "idle"]] /\ changes = 0 /\ faults = 0
      /\ DOMAIN seen = Threads
      /\ Root = <<>> \/ (Root \in DOMAIN tree /\ tree[Root] = Dir)
  BY SameTree DEF Remote!Init, Remote!Idle
<1> QED BY <1>1 DEF EnsureInv, Ensuring, IsFolder

\* Whoever's step it is: the others go on, the thread itself is where it should be.
LEMMA EnsureAll ==
  ASSUME EnsureInv, NEW t \in Threads, NEW state, Remote!Become(t, state), Onward,
         changes' = changes, DOMAIN seen' = Threads,
         \A u \in Threads \ {t} : Seen(u) \subseteq Seen(u)'
                                  /\ (call[u].pc # "idle" => Current' \subseteq Seen(u)'),
         Ensuring(t)'
  PROVE  EnsureInv'
<1>1. call' = [call EXCEPT ![t] = state]
  BY DEF Remote!Become
<1>2. DOMAIN call' = Threads /\ \A u \in Threads \ {t} : call'[u] = call[u]
  BY <1>1 DEF EnsureInv
<1>3. \A u \in Threads \ {t} : Ensuring(u)'
  BY <1>2, EnsureGoesOn
<1>4. changes' = 0 => Root = <<>> \/ IsFolder(Root)'
  BY DEF EnsureInv, Onward
<1> QED BY <1>2, <1>3, <1>4 DEF EnsureInv, Onward

LEMMA EnsureKeepsBeginning ==
  ASSUME RemoteAssumptions, EnsureInv, NEW t \in Threads,
         Remote!EnsureBegins(t) \/ Remote!SnapshotBegins(t)
  PROVE  EnsureInv'
<1>1. PICK state :
        /\ call[t] = Remote!Idle /\ Remote!Become(t, state)
        /\ UNCHANGED <<tree, changes, faults>> /\ Remote!Begin(t)
        /\ \/ state = [pc |-> "ensured"] /\ Components = <<>>
           \/ state = [pc |-> "list", todo |-> Components] /\ Components # <<>>
           \/ state.pc = "snapshot"
  BY SameTree DEF Remote!EnsureBegins, Remote!SnapshotBegins
<1>2. seen' = [seen EXCEPT ![t] = [always |-> Current, ever |-> Current]] /\ Current' = Current
  BY <1>1, SameTree DEF Remote!Begin, Remote!Look, Current
<1>3. /\ DOMAIN seen' = Threads /\ Seen(t)' = Current'
      /\ \A u \in Threads \ {t} : Seen(u)' = Seen(u)
  BY <1>2 DEF EnsureInv, Seen
<1>4. Onward
  BY <1>1 DEF Onward, EnsureInv, IsFolder
<1>5. call'[t] = state
  BY <1>1 DEF Remote!Become, EnsureInv
<1>6. Ensuring(t)'
  <2>1. CASE state = [pc |-> "ensured"] /\ Components = <<>>
    <3>1. 1..Steps = {}
      <4>1. Steps = Len(Components) /\ Len(<<>>) = 0
        BY FoldersOnTheWay
      <4>2. Steps = 0
        BY <2>1, <4>1
      <4> QED BY <4>2
    <3> QED BY <1>3, <1>5, <2>1, <3>1 DEF Ensuring
  <2>2. CASE state = [pc |-> "list", todo |-> Components] /\ Components # <<>>
    <3>1. Steps \in Nat /\ Components \in Seq(PathSet) /\ Len(Components) = Steps
      BY FoldersOnTheWay
    <3>2. 1 \in 1..Steps
      <4>1. Steps # 0
        BY <2>2, <3>1, EmptySeq
      <4> QED BY <3>1, <4>1
    <3>3. SubSeq(Components, 1, Steps) = Components
      BY <3>1, SubSeqFull
    <3>4. call'[t].todo = Components /\ call'[t].pc = "list"
      <4> DEFINE all == Components
      <4>1. call'[t] = [pc |-> "list", todo |-> all]
        BY <1>5, <2>2
      <4> HIDE DEF all
      <4>2. call'[t].todo = all /\ call'[t].pc = "list"
        BY <4>1
      <4> QED BY <4>2 DEF all
    <3>5. At(t, 1)'
      BY <3>3, <3>4 DEF At, Behind
    <3> QED BY <1>3, <3>2, <3>4, <3>5 DEF Ensuring
  <2>3. CASE state.pc = "snapshot"
    BY <1>3, <1>5, <2>3 DEF Ensuring
  <2> QED BY <1>1, <2>1, <2>2, <2>3
<1>7. \A u \in Threads \ {t} : call[u].pc # "idle" => Current' \subseteq Seen(u)'
  BY <1>2, <1>3 DEF EnsureInv, Ensuring
<1> QED BY <1>1, <1>3, <1>4, <1>6, <1>7, EnsureAll


LEMMA EnsureKeepsListing ==
  ASSUME RemoteAssumptions, EnsureInv, NEW t \in Threads, Remote!EnsureLists(t)
  PROVE  EnsureInv'
<1> DEFINE target == Head(call[t].todo)
<1>1. /\ call[t].pc = "list" /\ UNCHANGED <<tree, changes, seen>> /\ faults' = faults
      /\ \/ (target = <<>> \/ IsFolder(target)) /\ Remote!Advance(t)
         \/ /\ \/ target \in DOMAIN tree /\ ~IsFolder(target)
               \/ ~Remote!IsDir(Front(target)) \/ Remote!TooMany(Front(target))
            /\ Remote!Become(t, [pc |-> "unensured"])
         \/ /\ ~IsFolder(target)
            /\ Remote!Become(t, [call[t] EXCEPT !.pc = "create"])
  BY SameTree DEF Remote!EnsureLists, Remote!Listed, IsFolder
<1>2. PICK k \in 1..Steps : At(t, k)
  BY <1>1 DEF EnsureInv, Ensuring
<1>3. target = Components[k] /\ Components[k] # <<>>
  BY <1>2, AtHand
<1> HIDE DEF target
<1>4. /\ Onward /\ DOMAIN seen' = Threads
      /\ \A u \in Threads : Seen(u)' = Seen(u) /\ (call[u].pc # "idle" => SeesOn(u))
  BY <1>1, TreeRests DEF EnsureInv
<1>5. /\ SeesOn(t) /\ Current \subseteq Seen(t) /\ Current' \subseteq Seen(t)'
      /\ changes \in Nat /\ DOMAIN call = Threads
  BY <1>1, <1>4 DEF EnsureInv, Ensuring, SeesOn
<1>6. \A u \in Threads \ {t} : Seen(u) \subseteq Seen(u)'
                                /\ (call[u].pc # "idle" => Current' \subseteq Seen(u)')
  BY <1>4 DEF SeesOn
<1>7. CASE IsFolder(target) /\ Remote!Advance(t)
  <2>1. <<Components[k], Dir>> \in Seen(t)' /\ IsFolder(Components[k])'
    <3>1. <<target, Dir>> \in Current
      BY <1>7 DEF IsFolder, Current
    <3> QED BY <1>1, <1>3, <1>4, <1>5, <1>7, <3>1 DEF IsFolder
  <2>2. Ensuring(t)'
    BY <1>2, <1>4, <1>5, <1>7, <2>1, FolderIsMade
  <2>3. PICK state : Remote!Become(t, state)
    BY <1>7 DEF Remote!Advance
  <2> QED BY <1>1, <1>4, <1>6, <2>2, <2>3, EnsureAll
<1>8. CASE /\ \/ target \in DOMAIN tree /\ ~IsFolder(target)
              \/ ~Remote!IsDir(Front(target)) \/ Remote!TooMany(Front(target))
           /\ Remote!Become(t, [pc |-> "unensured"])
  <2>1. call'[t] = [pc |-> "unensured"]
    BY <1>5, <1>8 DEF Remote!Become
  <2>2. HasCause(t)'
    <3>1. CASE target \in DOMAIN tree /\ ~IsFolder(target)
      <4>1. <<target, tree[target]>> \in Seen(t)' /\ tree[target] # Dir
        BY <1>4, <1>5, <3>1 DEF Current, IsFolder
      <4>2. <<target, tree[target]>>[1] = Components[k]
            /\ <<target, tree[target]>>[2] = tree[target]
        BY <1>3
      <4> QED BY <4>1, <4>2 DEF HasCause
    <3>2. CASE ~Remote!IsDir(Front(target))
      <4>1. changes # 0
        BY <1>2, <1>3, <3>2, ParentIsThere
      <4> QED BY <1>1, <1>5, <4>1 DEF HasCause
    <3>3. CASE Remote!TooMany(Front(target))
      BY <1>1, <1>3, <1>5, <3>3, FolderIsOverfull DEF HasCause
    <3> QED BY <1>8, <3>1, <3>2, <3>3
  <2>3. Ensuring(t)'
    BY <1>5, <2>1, <2>2, EnsureStops
  <2> QED BY <1>1, <1>4, <1>6, <1>8, <2>3, EnsureAll
<1>9. CASE ~IsFolder(target) /\ Remote!Become(t, [call[t] EXCEPT !.pc = "create"])
  <2>1. call'[t] = [call[t] EXCEPT !.pc = "create"]
    BY <1>5, <1>9 DEF Remote!Become
  <2>2. call'[t].todo = call[t].todo /\ call'[t].pc = "create"
    BY <1>1, <2>1
  <2>3. At(t, k)'
    BY <1>1, <1>2, <1>4, <2>2 DEF At, Behind, IsFolder
  <2>4. Ensuring(t)'
    BY <1>5, <2>2, <2>3 DEF Ensuring
  <2> QED BY <1>1, <1>4, <1>6, <1>9, <2>4, EnsureAll
<1> QED BY <1>1, <1>3, <1>7, <1>8, <1>9

LEMMA EnsureKeepsCreating ==
  ASSUME RemoteAssumptions, EnsureInv, NEW t \in Threads, Remote!EnsureCreates(t)
  PROVE  EnsureInv'
<1> DEFINE target == Head(call[t].todo)
           possible == Remote!IsDir(Front(target)) /\ target \notin DOMAIN tree
           created == [p \in DOMAIN tree \union {target} |->
                         IF p = target THEN Dir ELSE tree[p]]
<1>1. /\ call[t].pc = "create" /\ changes' = changes
      /\ \/ possible /\ Remote!Becomes(created) /\ Remote!Advance(t) /\ faults' = faults
         \/ /\ ~possible /\ Remote!Become(t, [call[t] EXCEPT !.pc = "check"])
            /\ UNCHANGED <<tree, seen, faults>>
         \/ /\ faults' = faults + 1
            /\ (possible /\ Remote!Becomes(created)) \/ UNCHANGED <<tree, seen>>
            /\ Remote!Become(t, [call[t] EXCEPT !.pc = "check"])
  BY SameTree DEF Remote!EnsureCreates
<1>2. PICK k \in 1..Steps : At(t, k)
  BY <1>1 DEF EnsureInv, Ensuring
<1>3. target = Components[k] /\ Components[k] # <<>>
  BY <1>2, AtHand
<1>4. /\ changes \in Nat /\ faults \in Nat /\ DOMAIN call = Threads
      /\ Current \subseteq Seen(t)
  BY <1>1 DEF EnsureInv, Ensuring
<1>5. ~possible => changes > 0 \/ target \in DOMAIN tree
  BY <1>2, <1>3, <1>4, ParentIsThere
<1> HIDE DEF target
<1>6. CASE possible /\ Remote!Becomes(created) /\ Remote!Advance(t) /\ faults' = faults
  <2>1. /\ Onward /\ DOMAIN seen' = Threads /\ \A u \in Threads : SeesOn(u)
        /\ IsFolder(Components[k])' /\ <<Components[k], Dir>> \in Current'
    <3> DEFINE path == Components[k]
    <3>1. /\ path \notin DOMAIN tree /\ Remote!Becomes(created)
          /\ created = [p \in DOMAIN tree \union {path} |-> IF p = path THEN Dir ELSE tree[p]]
      BY <1>3, <1>6
    <3> HIDE DEF path, created
    <3>2. /\ Onward /\ DOMAIN seen' = Threads /\ \A u \in Threads : SeesOn(u)
          /\ IsFolder(path)' /\ <<path, Dir>> \in Current'
      BY <1>1, <1>4, <1>6, <3>1, FolderIsCreated
    <3> QED BY <3>2 DEF path
  <2>2. <<Components[k], Dir>> \in Seen(t)' /\ IsFolder(Components[k])'
    BY <1>3, <2>1 DEF SeesOn, IsFolder
  <2>3. Ensuring(t)'
    BY <1>2, <1>6, <2>1, <2>2, FolderIsMade
  <2>4. PICK state : Remote!Become(t, state)
    BY <1>6 DEF Remote!Advance
  <2>5. \A u \in Threads \ {t} : Seen(u) \subseteq Seen(u)'
                                  /\ (call[u].pc # "idle" => Current' \subseteq Seen(u)')
    BY <2>1 DEF SeesOn
  <2> QED BY <1>1, <2>1, <2>3, <2>4, <2>5, EnsureAll
<1>7. ASSUME Remote!Become(t, [call[t] EXCEPT !.pc = "check"]), faults' \in Nat, faults' >= faults,
             \/ possible /\ Remote!Becomes(created)
             \/ UNCHANGED <<tree, seen>>,
             changes' > 0 \/ faults' > 0 \/ (target \in DOMAIN tree /\ tree' = tree)
      PROVE  EnsureInv'
  <2>1. /\ Onward /\ DOMAIN seen' = Threads
        /\ \A u \in Threads : /\ Seen(u) \subseteq Seen(u)'
                              /\ call[u].pc # "idle" => Current' \subseteq Seen(u)'
    <3>1. CASE possible /\ Remote!Becomes(created)
      <4> DEFINE path == Components[k]
      <4>1. /\ path \notin DOMAIN tree /\ Remote!Becomes(created)
            /\ created = [p \in DOMAIN tree \union {path} |-> IF p = path THEN Dir ELSE tree[p]]
        BY <1>3, <3>1
      <4> HIDE DEF path, created
      <4>2. /\ Onward /\ DOMAIN seen' = Threads /\ \A u \in Threads : SeesOn(u)
        BY <1>1, <1>7, <4>1, FolderIsCreated
      <4> QED BY <4>2 DEF SeesOn
    <3>2. CASE UNCHANGED <<tree, seen>>
      BY <1>1, <1>7, <3>2, TreeRests DEF SeesOn
    <3> QED BY <1>7, <3>1, <3>2
  <2>2. call'[t] = [call[t] EXCEPT !.pc = "check"]
    BY <1>4, <1>7 DEF Remote!Become
  <2>3. call'[t].todo = call[t].todo /\ call'[t].pc = "check"
    BY <1>1, <2>2
  <2>4. At(t, k)'
    <3>1. Seen(t) \subseteq Seen(t)' /\ (changes' = 0 => \A p : IsFolder(p) => IsFolder(p)')
      BY <2>1 DEF Onward
    <3> QED BY <1>1, <1>2, <2>3, <3>1 DEF At, Behind
  <2>5. changes' > 0 \/ faults' > 0 \/ Head(call'[t].todo) \in DOMAIN tree'
    BY <1>7, <2>3 DEF target
  <2>6. Ensuring(t)'
    BY <1>1, <2>1, <2>3, <2>4, <2>5 DEF Ensuring
  <2> QED BY <1>1, <1>7, <2>1, <2>6, EnsureAll
<1>8. CASE /\ ~possible /\ Remote!Become(t, [call[t] EXCEPT !.pc = "check"])
           /\ UNCHANGED <<tree, seen, faults>>
  BY <1>1, <1>4, <1>5, <1>7, <1>8
<1>9. CASE /\ faults' = faults + 1
           /\ (possible /\ Remote!Becomes(created)) \/ UNCHANGED <<tree, seen>>
           /\ Remote!Become(t, [call[t] EXCEPT !.pc = "check"])
  <2>1. faults' \in Nat /\ faults' >= faults /\ faults' > 0
    BY <1>4, <1>9
  <2> HIDE DEF possible, created
  <2> QED BY <1>7, <1>9, <2>1
<1> QED BY <1>1, <1>6, <1>8, <1>9


LEMMA EnsureKeepsChecking ==
  ASSUME RemoteAssumptions, EnsureInv, NEW t \in Threads, Remote!EnsureChecks(t)
  PROVE  EnsureInv'
<1> DEFINE target == Head(call[t].todo)
<1>1. /\ call[t].pc = "check" /\ UNCHANGED <<tree, changes, faults, seen>>
      /\ \/ (target = <<>> \/ IsFolder(target)) /\ Remote!Advance(t)
         \/ /\ \/ ~IsFolder(target) \/ ~Remote!IsDir(Front(target))
               \/ Remote!TooMany(Front(target))
            /\ Remote!Become(t, [pc |-> "unensured"])
  BY SameTree DEF Remote!EnsureChecks, Remote!Listed
<1>2. PICK k \in 1..Steps : At(t, k)
  BY <1>1 DEF EnsureInv, Ensuring
<1>3. target = Components[k] /\ Components[k] # <<>>
  BY <1>2, AtHand
<1>4. target \in DOMAIN tree \/ changes > 0 \/ faults > 0
  BY <1>1 DEF EnsureInv, Ensuring
<1> HIDE DEF target
<1>5. /\ Onward /\ DOMAIN seen' = Threads
      /\ \A u \in Threads : Seen(u)' = Seen(u) /\ (call[u].pc # "idle" => SeesOn(u))
  BY <1>1, TreeRests DEF EnsureInv
<1>6. /\ SeesOn(t) /\ Current \subseteq Seen(t) /\ Current' \subseteq Seen(t)'
      /\ DOMAIN call = Threads
  BY <1>1, <1>5 DEF EnsureInv, Ensuring, SeesOn
<1>7. \A u \in Threads \ {t} : Seen(u) \subseteq Seen(u)'
                                /\ (call[u].pc # "idle" => Current' \subseteq Seen(u)')
  BY <1>5 DEF SeesOn
<1>8. CASE IsFolder(target) /\ Remote!Advance(t)
  <2>1. <<Components[k], Dir>> \in Seen(t)' /\ IsFolder(Components[k])'
    <3>1. <<target, Dir>> \in Current
      BY <1>8 DEF IsFolder, Current
    <3> QED BY <1>1, <1>3, <1>5, <1>6, <1>8, <3>1 DEF IsFolder
  <2>2. Ensuring(t)'
    BY <1>2, <1>5, <1>6, <1>8, <2>1, FolderIsMade
  <2>3. PICK state : Remote!Become(t, state)
    BY <1>8 DEF Remote!Advance
  <2> QED BY <1>1, <1>5, <1>7, <2>2, <2>3, EnsureAll
<1>9. CASE /\ \/ ~IsFolder(target) \/ ~Remote!IsDir(Front(target))
              \/ Remote!TooMany(Front(target))
           /\ Remote!Become(t, [pc |-> "unensured"])
  <2>1. call'[t] = [pc |-> "unensured"]
    BY <1>6, <1>9 DEF Remote!Become
  <2>2. HasCause(t)'
    <3>1. CASE target \in DOMAIN tree /\ ~IsFolder(target)
      <4>1. <<target, tree[target]>> \in Seen(t)' /\ tree[target] # Dir
        BY <1>5, <1>6, <3>1 DEF Current, IsFolder
      <4>2. <<target, tree[target]>>[1] = Components[k]
            /\ <<target, tree[target]>>[2] = tree[target]
        BY <1>3
      <4> QED BY <4>1, <4>2 DEF HasCause
    <3>2. CASE ~Remote!IsDir(Front(target))
      <4>1. changes # 0 /\ changes \in Nat
        BY <1>2, <1>3, <3>2, ParentIsThere DEF EnsureInv
      <4> QED BY <1>1, <4>1 DEF HasCause
    <3>3. CASE Remote!TooMany(Front(target))
      BY <1>1, <1>3, <1>6, <3>3, FolderIsOverfull DEF HasCause
    <3> QED BY <1>1, <1>4, <1>9, <3>1, <3>2, <3>3 DEF HasCause
  <2>3. Ensuring(t)'
    BY <1>6, <2>1, <2>2, EnsureStops
  <2> QED BY <1>1, <1>5, <1>7, <1>9, <2>3, EnsureAll
<1> QED BY <1>1, <1>3, <1>8, <1>9

\* What a snapshot does, and a call that fails.
LEMMA EnsureKeepsLooking ==
  ASSUME RemoteAssumptions, EnsureInv, NEW t \in Threads,
         Remote!SnapshotLists(t) \/ Remote!SnapshotEnds(t) \/ Remote!CallFails(t)
  PROVE  EnsureInv'
<1>1. /\ call[t].pc # "idle" /\ UNCHANGED <<tree, changes, seen>>
      /\ faults' = faults \/ faults' = faults + 1
  BY DEF Remote!SnapshotLists, Remote!SnapshotEnds, Remote!CallFails
<1>2. PICK state : /\ Remote!Become(t, state)
                   /\ state.pc \in {"snapshot", "full", "untaken", "taken", "unensured"}
                   /\ state.pc = "unensured" => faults' = faults + 1
  <2>1. CASE Remote!SnapshotLists(t)
    <3>1. \/ \E pending, files : Remote!Become(t, [pc |-> "snapshot", pending |-> pending,
                                                   files |-> files])
          \/ Remote!Become(t, [pc |-> "full"])
          \/ Remote!Become(t, [pc |-> "untaken"])
      BY <2>1 DEF Remote!SnapshotLists
    <3>2. CASE \E pending, files : Remote!Become(t, [pc |-> "snapshot", pending |-> pending,
                                                     files |-> files])
      BY <3>2
    <3>3. CASE Remote!Become(t, [pc |-> "full"])
      BY <3>3
    <3>4. CASE Remote!Become(t, [pc |-> "untaken"])
      BY <3>4
    <3> QED BY <3>1, <3>2, <3>3, <3>4
  <2>2. CASE Remote!SnapshotEnds(t)
    BY <2>2 DEF Remote!SnapshotEnds
  <2>3. CASE Remote!CallFails(t)
    <3>1. /\ faults' = faults + 1
          /\ \/ Remote!Become(t, [pc |-> "untaken"])
             \/ Remote!Become(t, [pc |-> "unensured"])
      BY <2>3 DEF Remote!CallFails
    <3> QED BY <3>1
  <2> QED BY <2>1, <2>2, <2>3
<1>3. faults \in Nat /\ faults' \in Nat /\ faults' >= faults
  BY <1>1 DEF EnsureInv
<1>4. /\ Onward /\ DOMAIN seen' = Threads
      /\ \A u \in Threads : Seen(u)' = Seen(u) /\ (call[u].pc # "idle" => SeesOn(u))
  BY <1>1, <1>3, TreeRests
<1>5. call'[t] = state
  BY <1>2 DEF Remote!Become, EnsureInv
<1>6. Ensuring(t)'
  BY <1>1, <1>2, <1>3, <1>4, <1>5 DEF Ensuring, SeesOn, HasCause
<1>7. \A u \in Threads \ {t} : Seen(u) \subseteq Seen(u)'
                                /\ (call[u].pc # "idle" => Current' \subseteq Seen(u)')
  BY <1>4 DEF SeesOn
<1> QED BY <1>1, <1>2, <1>4, <1>6, <1>7, EnsureAll

LEMMA EnsureKeepsChange ==
  ASSUME RemoteAssumptions, EnsureInv, Remote!Change PROVE EnsureInv'
<1>1. changes' = changes + 1 /\ UNCHANGED <<call, faults>>
  BY DEF Remote!Change
<1>2. PICK new : Remote!Becomes(new)
  BY DEF Remote!Change, Remote!Adds, Remote!Grows, Remote!Removes, Remote!Moves
<1>3. DOMAIN seen' = Threads /\ \A t \in Threads : SeesOn(t)
  BY <1>2, TreeBecomes DEF EnsureInv
<1>4. Onward /\ changes' > 0
  BY <1>1 DEF Onward, EnsureInv
<1>5. \A t \in Threads : Ensuring(t)'
  BY <1>1, <1>3, <1>4, EnsureGoesOn DEF SeesOn
<1> QED BY <1>1, <1>3, <1>4, <1>5 DEF EnsureInv, Onward

LEMMA EnsureInductive ==
  ASSUME RemoteAssumptions, EnsureInv, [Remote!Next]_(Remote!vars)
  PROVE  EnsureInv'
<1>1. CASE UNCHANGED Remote!vars
  <2>1. UNCHANGED <<tree, call, changes, faults, seen>>
    BY <1>1 DEF Remote!vars
  <2>2. /\ Onward /\ DOMAIN seen' = Threads
        /\ \A t \in Threads : Seen(t)' = Seen(t) /\ (call[t].pc # "idle" => SeesOn(t))
    BY <2>1, TreeRests DEF EnsureInv
  <2>3. \A t \in Threads : Ensuring(t)'
    BY <2>1, <2>2, EnsureGoesOn DEF SeesOn
  <2> QED BY <2>1, <2>3 DEF EnsureInv, IsFolder
<1>2. CASE Remote!Next
  <2>1. CASE Remote!Change
    BY <2>1, EnsureKeepsChange
  <2>2. ASSUME NEW t \in Threads,
               \/ Remote!EnsureBegins(t) \/ Remote!EnsureLists(t) \/ Remote!EnsureCreates(t)
               \/ Remote!EnsureChecks(t) \/ Remote!SnapshotBegins(t)
               \/ Remote!SnapshotLists(t) \/ Remote!SnapshotEnds(t) \/ Remote!CallFails(t)
        PROVE  EnsureInv'
    <3>1. CASE Remote!EnsureBegins(t) \/ Remote!SnapshotBegins(t)
      BY <3>1, EnsureKeepsBeginning
    <3>2. CASE Remote!EnsureLists(t)
      BY <3>2, EnsureKeepsListing
    <3>3. CASE Remote!EnsureCreates(t)
      BY <3>3, EnsureKeepsCreating
    <3>4. CASE Remote!EnsureChecks(t)
      BY <3>4, EnsureKeepsChecking
    <3>5. CASE Remote!SnapshotLists(t) \/ Remote!SnapshotEnds(t) \/ Remote!CallFails(t)
      BY <3>5, EnsureKeepsLooking
    <3> QED BY <2>2, <3>1, <3>2, <3>3, <3>4, <3>5
  <2> QED BY <1>2, <2>1, <2>2 DEF Remote!Next
<1> QED BY <1>1, <1>2

------------------------------------------------------------------------------
(***************************************************************************)
(* Snapshots.  Trees, and what is above and below a path.                  *)
(***************************************************************************)

LEMMA PrefixRules ==
  ASSUME NEW p \in PathSet, NEW q \in PathSet
  PROVE  /\ IsPrefix(p, p)
         /\ IsPrefix(p, q) => Len(p) <= Len(q) /\ (p # q => Len(p) < Len(q))
         /\ q # <<>> => IsPrefix(Front(q), q) /\ Front(q) # q /\ Front(q) \in PathSet
                        /\ Len(Front(q)) = Len(q) - 1
         /\ q # <<>> /\ IsPrefix(p, q) /\ p # q => IsPrefix(p, Front(q))
         /\ Len(p) \in Nat /\ (p # <<>> => Len(p) > 0)
<1>1. Len(p) \in Nat /\ Len(q) \in Nat
  BY DEF PathSet
<1>2. IsPrefix(p, p)
  BY <1>1, PrefixByPlace
<1>3. IsPrefix(p, q) => Len(p) <= Len(q) /\ (p # q => Len(p) < Len(q))
  BY <1>1, PrefixByPlace, SamePath
<1>4. ASSUME q # <<>>
      PROVE  /\ IsPrefix(Front(q), q) /\ Front(q) # q /\ Front(q) \in PathSet
             /\ Len(Front(q)) = Len(q) - 1
             /\ IsPrefix(p, q) /\ p # q => IsPrefix(p, Front(q))
  <2>1. /\ Len(q) \in Nat \ {0}
        /\ Front(q) \in PathSet /\ Len(Front(q)) = Len(q) - 1
        /\ \A i \in 1..(Len(q) - 1) : Front(q)[i] = q[i]
    BY <1>4, ParentOfPath
  <2>2. IsPrefix(Front(q), q) /\ Front(q) # q
    BY SMTT(30), <2>1, PrefixByPlace
  <2>3. ASSUME IsPrefix(p, q), p # q PROVE IsPrefix(p, Front(q))
    <3>1. Len(p) <= Len(q) - 1 /\ \A i \in 1..Len(p) : p[i] = q[i]
      BY <1>1, <1>3, <2>3, PrefixByPlace
    <3>2. \A i \in 1..Len(p) : p[i] = Front(q)[i]
      BY <1>1, <2>1, <3>1
    <3> QED BY <2>1, <3>1, <3>2, PrefixByPlace
  <2> QED BY <2>1, <2>2, <2>3
<1>5. p # <<>> => Len(p) > 0
  BY ParentOfPath
<1> QED BY <1>1, <1>2, <1>3, <1>4, <1>5

LEMMA PrefixTransitive ==
  ASSUME NEW p \in PathSet, NEW q \in PathSet, NEW r \in PathSet,
         IsPrefix(p, q), IsPrefix(q, r)
  PROVE  IsPrefix(p, r)
<1>1. /\ Len(p) \in Nat /\ Len(q) \in Nat /\ Len(r) \in Nat
      /\ Len(p) <= Len(q) /\ \A i \in 1..Len(p) : p[i] = q[i]
      /\ Len(q) <= Len(r) /\ \A i \in 1..Len(q) : q[i] = r[i]
  BY PrefixByPlace DEF PathSet
<1>2. Len(p) <= Len(r) /\ \A i \in 1..Len(p) : p[i] = r[i]
  BY <1>1
<1> QED BY <1>2, PrefixByPlace

\* The child of p on the way to q.
LEMMA StepDown ==
  ASSUME NEW p \in PathSet, NEW q \in PathSet, IsStrictPrefix(p, q)
  PROVE  \E e \in PathSet : /\ e # <<>> /\ Front(e) = p /\ IsPrefix(e, q)
                            /\ Len(e) = Len(p) + 1
<1>1. /\ Len(p) \in Nat /\ Len(q) \in Nat /\ Len(p) < Len(q)
      /\ \A i \in 1..Len(p) : p[i] = q[i]
  BY PrefixRules, PrefixByPlace DEF IsStrictPrefix, PathSet
<1> DEFINE e == SubSeq(q, 1, Len(p) + 1)
<1>2. Len(p) + 1 \in 0..Len(q)
  BY <1>1
<1>3. e \in PathSet /\ Len(e) = Len(p) + 1 /\ \A i \in 1..(Len(p) + 1) : e[i] = q[i]
  BY <1>2, PartOfPath
<1> HIDE DEF e
<1>4. e # <<>>
  <2>1. Len(<<>>) = 0
    OBVIOUS
  <2> QED BY <1>1, <1>3, <2>1
<1>5. IsPrefix(e, q)
  BY <1>1, <1>3, PrefixByPlace
<1>6. Front(e) = p
  <2>1. Front(e) \in PathSet /\ Len(Front(e)) = Len(p) /\ \A i \in 1..Len(p) : Front(e)[i] = e[i]
    <3>1. /\ Front(e) \in PathSet /\ Len(Front(e)) = Len(e) - 1
          /\ \A i \in 1..(Len(e) - 1) : Front(e)[i] = e[i]
      BY <1>3, <1>4, ParentOfPath
    <3>2. Len(e) - 1 = Len(p)
      BY <1>1, <1>3
    <3> QED BY <3>1, <3>2
  <2>2. \A i \in 1..Len(p) : Front(e)[i] = p[i]
    BY <1>1, <1>3, <2>1
  <2> QED BY <2>1, <2>2, SamePath
<1> QED BY <1>3, <1>4, <1>5, <1>6

Entries == Remote!Sizes \union {Dir}

\* What is somewhere is in a directory.
IsTreeOf(new) ==
  /\ DOMAIN new \subseteq Paths
  /\ \A p \in DOMAIN new :
       /\ new[p] \in Entries
       /\ Len(p) > 1 => Front(p) \in DOMAIN new /\ new[Front(p)] = Dir

LEMMA PathsArePaths ==
  ASSUME RemoteAssumptions
  PROVE  /\ Paths \subseteq PathSet /\ <<>> \notin Paths /\ <<>> \in PathSet
         /\ Destination \in Paths /\ IsFiniteSet(Paths)
<1>1. /\ Paths \subseteq Seq(Names) \ {<<>>} /\ Remote!IsFiniteSet(Paths)
      /\ Destination \in Paths
  BY DEF RemoteAssumptions, Remote!PathsAssumption
<1>2. <<>> \in PathSet
  BY EmptySeq DEF PathSet
<1>3. IsFiniteSet(Paths)
  BY <1>1 DEF Remote!IsFiniteSet, IsFiniteSet
<1> QED BY <1>1, <1>2, <1>3 DEF PathSet

LEMMA AboveIsFolder ==
  ASSUME RemoteAssumptions, NEW new, IsTreeOf(new), NEW p \in DOMAIN new,
         NEW q \in PathSet, q # <<>>, IsStrictPrefix(q, p)
  PROVE  q \in DOMAIN new /\ new[q] = Dir
<1> DEFINE Folder(r) == r \in DOMAIN new /\ new[r] = Dir
           Bad == {r \in PathSet : r # <<>> /\ IsStrictPrefix(r, p) /\ ~Folder(r)}
           Lengths == {Len(r) : r \in Bad}
<1>1. SUFFICES ASSUME ~Folder(q) PROVE FALSE
  OBVIOUS
<1>2. p \in PathSet /\ Len(p) \in Nat
  BY PathsArePaths DEF IsTreeOf, PathSet
<1>3. Lengths \in SUBSET Nat /\ Lengths # {} /\ \A n \in Lengths : n <= Len(p)
  BY <1>1, <1>2, PrefixRules DEF IsStrictPrefix
<1>4. PICK n \in Lengths : \A m \in Lengths : m <= n
  <2> HIDE DEF Lengths
  <2> QED BY <1>2, <1>3, GreatestNumber
<1>5. PICK r \in Bad : Len(r) = n
  BY <1>4
<1>6. PICK e \in PathSet : e # <<>> /\ Front(e) = r /\ IsPrefix(e, p) /\ Len(e) = Len(r) + 1
  BY <1>2, <1>5, StepDown
<1>7. Len(e) > 1 /\ Len(e) > n /\ n \in Nat
  BY <1>5, <1>6, <1>3, PrefixRules
<1>8. e \in DOMAIN new
  <2>1. CASE e = p
    BY <2>1
  <2>2. CASE e # p
    <3>1. Len(e) \notin Lengths
      <4>1. Len(e) \in Nat /\ \A m \in Lengths : m <= n
        BY <1>4, <1>6, PrefixRules
      <4> HIDE DEF Lengths
      <4> QED BY <1>7, <4>1
    <3>2. e \notin Bad
      BY <3>1
    <3> QED BY <1>6, <2>2, <3>2 DEF IsStrictPrefix
  <2> QED BY <2>1, <2>2
<1>9. Folder(r)
  BY <1>6, <1>7, <1>8 DEF IsTreeOf
<1> QED BY <1>5, <1>9

LEMMA SameIsTree == \A new : Remote!IsTree(new) <=> IsTreeOf(new)
BY SameTree DEF Remote!IsTree, IsTreeOf, Entries


------------------------------------------------------------------------------
(***************************************************************************)
(* What users do to a tree leaves a tree.                                  *)
(***************************************************************************)

InPlace(path) == path \in Paths /\ (Front(path) = <<>> \/ IsFolder(Front(path)))

LEMMA FrontIsShorter ==
  ASSUME RemoteAssumptions, NEW p \in Paths
  PROVE  /\ p \in PathSet /\ p # <<>> /\ Len(p) \in Nat \ {0}
         /\ Front(p) \in PathSet /\ Len(Front(p)) = Len(p) - 1
         /\ Len(p) > 1 => Front(p) # <<>>
         /\ Len(p) <= 1 => Front(p) = <<>>
<1>1. p \in PathSet /\ p # <<>>
  BY PathsArePaths
<1>2. /\ Len(p) \in Nat \ {0} /\ Front(p) \in PathSet /\ Len(Front(p)) = Len(p) - 1
  BY <1>1, ParentOfPath
<1>3. Len(<<>>) = 0
  OBVIOUS
<1>4. Len(p) <= 1 => Front(p) = <<>>
  BY <1>2, EmptySeq DEF PathSet
<1> QED BY <1>1, <1>2, <1>3, <1>4

LEMMA AddingKeepsTree ==
  ASSUME RemoteAssumptions, IsTreeOf(tree), NEW path, path \notin DOMAIN tree, InPlace(path),
         NEW entry \in Entries, NEW new,
         new = [p \in DOMAIN tree \union {path} |-> IF p = path THEN entry ELSE tree[p]]
  PROVE  IsTreeOf(new)
<1>1. /\ \A p : p \in DOMAIN new <=> p \in DOMAIN tree \/ p = path
      /\ \A p \in DOMAIN tree : new[p] = tree[p] /\ p # path
      /\ new[path] = entry
  OBVIOUS
<1>2. DOMAIN new \subseteq Paths
  BY <1>1 DEF IsTreeOf, InPlace
<1>3. \A p \in DOMAIN new : new[p] \in Entries
  BY <1>1 DEF IsTreeOf
<1>4. ASSUME NEW p \in DOMAIN new, Len(p) > 1
      PROVE  Front(p) \in DOMAIN new /\ new[Front(p)] = Dir
  <2>1. CASE p = path
    <3>1. IsFolder(Front(path))
      BY <1>4, <2>1, FrontIsShorter DEF InPlace
    <3> QED BY <1>1, <2>1, <3>1 DEF IsFolder
  <2>2. CASE p \in DOMAIN tree
    <3>1. Front(p) \in DOMAIN tree /\ tree[Front(p)] = Dir
      BY <1>4, <2>2 DEF IsTreeOf
    <3> QED BY <1>1, <3>1
  <2> QED BY <1>1, <2>1, <2>2
<1> QED BY <1>2, <1>3, <1>4 DEF IsTreeOf

LEMMA GrowingKeepsTree ==
  ASSUME IsTreeOf(tree), NEW path \in DOMAIN tree, tree[path] # Dir, NEW size \in Entries
  PROVE  IsTreeOf([tree EXCEPT ![path] = size])
<1> DEFINE new == [tree EXCEPT ![path] = size]
<1>1. /\ DOMAIN new = DOMAIN tree /\ new[path] = size
      /\ \A p \in DOMAIN tree : p # path => new[p] = tree[p]
  OBVIOUS
<1> HIDE DEF new
<1>2. \A p \in DOMAIN new : new[p] \in Entries
  BY <1>1 DEF IsTreeOf
<1>3. ASSUME NEW p \in DOMAIN new, Len(p) > 1
      PROVE  Front(p) \in DOMAIN new /\ new[Front(p)] = Dir
  BY <1>1, <1>3 DEF IsTreeOf
<1>4. IsTreeOf(new)
  BY <1>1, <1>2, <1>3 DEF IsTreeOf
<1> QED BY <1>4 DEF new

LEMMA RemovingKeepsTree ==
  ASSUME RemoteAssumptions, IsTreeOf(tree), NEW path \in Paths,
         NEW new, new = [p \in DOMAIN tree \ Remote!Within(path) |-> tree[p]]
  PROVE  IsTreeOf(new)
<1>1. /\ \A p : p \in DOMAIN new <=> p \in DOMAIN tree /\ ~IsPrefix(path, p)
      /\ \A p \in DOMAIN new : new[p] = tree[p]
  BY SameTree DEF Remote!Within
<1>2. ASSUME NEW p \in DOMAIN new, Len(p) > 1
      PROVE  Front(p) \in DOMAIN new /\ new[Front(p)] = Dir
  <2>1. p \in DOMAIN tree /\ Front(p) \in DOMAIN tree /\ tree[Front(p)] = Dir /\ p \in Paths
    BY <1>1, <1>2 DEF IsTreeOf
  <2>2. ~IsPrefix(path, Front(p))
    <3>1. /\ path \in PathSet /\ p \in PathSet /\ Front(p) \in PathSet /\ p # <<>>
      BY <2>1, FrontIsShorter
    <3>2. IsPrefix(Front(p), p)
      BY <3>1, PrefixRules
    <3> QED BY <1>1, <3>1, <3>2, PrefixTransitive
  <2> QED BY <1>1, <2>1, <2>2
<1> QED BY <1>1, <1>2 DEF IsTreeOf

\* A path whose prefix a becomes b.
Put(a, b, p) == b \o SubSeq(p, Len(a) + 1, Len(p))

LEMMA PutByPlace ==
  ASSUME NEW a \in PathSet, NEW b \in PathSet, NEW p \in PathSet, IsPrefix(a, p)
  PROVE  /\ Put(a, b, p) \in PathSet /\ Len(a) \in Nat /\ Len(b) \in Nat /\ Len(p) \in Nat
         /\ Len(a) <= Len(p)
         /\ Len(Put(a, b, p)) = Len(b) + (Len(p) - Len(a))
         /\ \A i \in 1..Len(b) : Put(a, b, p)[i] = b[i]
         /\ \A i \in 1..(Len(p) - Len(a)) : Put(a, b, p)[Len(b) + i] = p[Len(a) + i]
<1>1. /\ Len(a) \in Nat /\ Len(b) \in Nat /\ Len(p) \in Nat /\ Len(a) <= Len(p)
  BY PrefixByPlace DEF PathSet
<1> DEFINE rest == SubSeq(p, Len(a) + 1, Len(p))
<1>2. /\ rest \in Seq(Names)
      /\ Len(rest) = Len(p) - Len(a)
      /\ \A i \in 1..(Len(p) - Len(a)) : rest[i] = p[Len(a) + i]
  <2>1. Len(a) + 1 \in Int /\ Len(p) \in Int /\ \A i \in (Len(a) + 1)..Len(p) : p[i] \in Names
    BY <1>1 DEF PathSet
  <2>2. /\ rest \in Seq(Names)
        /\ Len(rest) = IF Len(a) + 1 <= Len(p) THEN Len(p) - (Len(a) + 1) + 1 ELSE 0
        /\ \A i \in 1..(Len(p) - (Len(a) + 1) + 1) : rest[i] = p[Len(a) + 1 + i - 1]
    BY <2>1, SubSeqProperties
  <2> HIDE DEF rest
  <2> QED BY <1>1, <2>2
<1> HIDE DEF rest
<1>3. /\ b \o rest \in Seq(Names) /\ Len(b \o rest) = Len(b) + Len(rest)
      /\ \A i \in 1..(Len(b) + Len(rest)) :
           (b \o rest)[i] = IF i <= Len(b) THEN b[i] ELSE rest[i - Len(b)]
  BY <1>2, ConcatProperties DEF PathSet
<1> DEFINE q == b \o rest
<1> HIDE DEF q
<1>4. /\ q \in PathSet /\ Len(q) = Len(b) + (Len(p) - Len(a))
      /\ \A i \in 1..Len(b) : q[i] = b[i]
      /\ \A i \in 1..(Len(p) - Len(a)) : q[Len(b) + i] = p[Len(a) + i]
  BY <1>1, <1>2, <1>3 DEF q, PathSet
<1> QED BY <1>1, <1>4 DEF Put, q, rest

LEMMA PutRules ==
  ASSUME NEW a \in PathSet, NEW b \in PathSet, NEW p \in PathSet, IsPrefix(a, p)
  PROVE  /\ IsPrefix(b, Put(a, b, p)) /\ Put(b, a, Put(a, b, p)) = p
         /\ p = a => Put(a, b, p) = b
         /\ p # a => IsPrefix(a, Front(p)) /\ Front(Put(a, b, p)) = Put(a, b, Front(p))
                     /\ Put(a, b, p) # b
<1> DEFINE q == Put(a, b, p)
<1>1. /\ q \in PathSet /\ Len(a) \in Nat /\ Len(b) \in Nat /\ Len(p) \in Nat
      /\ Len(a) <= Len(p) /\ Len(q) = Len(b) + (Len(p) - Len(a))
      /\ \A i \in 1..Len(b) : q[i] = b[i]
      /\ \A i \in 1..(Len(p) - Len(a)) : q[Len(b) + i] = p[Len(a) + i]
      /\ \A i \in 1..Len(a) : a[i] = p[i]
  BY ZenonT(60), PutByPlace, PrefixByPlace
<1> HIDE DEF q
<1>2. IsPrefix(b, q)
  <2>1. Len(b) <= Len(q)
    BY <1>1
  <2>2. \A i \in 1..Len(b) : b[i] = q[i]
    BY <1>1
  <2>3. q \in PathSet
    BY <1>1
  <2> QED BY <2>1, <2>2, <2>3, PrefixByPlace
<1>3. Put(b, a, q) = p
  <2> DEFINE r == Put(b, a, q)
  <2>1. /\ r \in PathSet /\ Len(r) = Len(a) + (Len(q) - Len(b))
        /\ \A i \in 1..Len(a) : r[i] = a[i]
        /\ \A i \in 1..(Len(q) - Len(b)) : r[Len(a) + i] = q[Len(b) + i]
    BY ZenonT(60), <1>1, <1>2, PutByPlace
  <2> HIDE DEF r
  <2>2. Len(r) = Len(p)
    BY <1>1, <2>1
  <2>3. ASSUME NEW i \in 1..Len(p) PROVE r[i] = p[i]
    <3>1. CASE i <= Len(a)
      BY <1>1, <2>1, <3>1
    <3>2. CASE i > Len(a)
      <4>1. i - Len(a) \in 1..(Len(p) - Len(a)) /\ Len(a) + (i - Len(a)) = i
            /\ Len(q) - Len(b) = Len(p) - Len(a)
        BY <1>1, <3>2
      <4>2. r[Len(a) + (i - Len(a))] = q[Len(b) + (i - Len(a))]
        BY <2>1, <4>1
      <4>3. q[Len(b) + (i - Len(a))] = p[Len(a) + (i - Len(a))]
        BY <1>1, <4>1
      <4> QED BY <4>1, <4>2, <4>3
    <3> QED BY <1>1, <3>1, <3>2
  <2>4. r = p
    BY <2>1, <2>2, <2>3, SamePath
  <2> QED BY <2>4 DEF r
<1>4. ASSUME p = a PROVE q = b
  <2>1. Len(q) = Len(b)
    BY <1>1, <1>4
  <2> QED BY <1>1, <2>1, SamePath
<1>5. ASSUME p # a
      PROVE  IsPrefix(a, Front(p)) /\ Front(q) = Put(a, b, Front(p)) /\ q # b
  <2>1. Len(a) < Len(p) /\ p # <<>>
    <3>1. Len(a) < Len(p)
      BY <1>5, PrefixRules
    <3>2. Len(<<>>) = 0
      OBVIOUS
    <3> QED BY <1>1, <3>1, <3>2
  <2>2. /\ IsPrefix(a, Front(p)) /\ Front(p) \in PathSet /\ Len(Front(p)) = Len(p) - 1
        /\ \A i \in 1..(Len(p) - 1) : Front(p)[i] = p[i]
    BY <1>5, <2>1, PrefixRules, ParentOfPath
  <2>3. Len(q) > Len(b) /\ q # <<>>
    <3>1. Len(q) > Len(b) /\ Len(<<>>) = 0
      BY <1>1, <2>1
    <3> QED BY <1>1, <3>1
  <2>4. /\ Front(q) \in PathSet /\ Len(Front(q)) = Len(q) - 1
        /\ \A i \in 1..(Len(q) - 1) : Front(q)[i] = q[i]
    BY <1>1, <2>3, ParentOfPath
  <2> DEFINE r == Put(a, b, Front(p))
             f == Front(p)
             g == Front(q)
  <2>5. /\ r \in PathSet /\ Len(r) = Len(b) + (Len(f) - Len(a))
        /\ \A i \in 1..Len(b) : r[i] = b[i]
        /\ \A i \in 1..(Len(f) - Len(a)) : r[Len(b) + i] = f[Len(a) + i]
    BY ZenonT(60), <2>2, PutByPlace
  <2>6. /\ f \in PathSet /\ Len(f) = Len(p) - 1 /\ \A i \in 1..(Len(p) - 1) : f[i] = p[i]
        /\ g \in PathSet /\ Len(g) = Len(q) - 1 /\ \A i \in 1..(Len(q) - 1) : g[i] = q[i]
    BY <2>2, <2>4
  <2> HIDE DEF r, f, g
  <2>7. Len(r) = Len(g)
    BY <1>1, <2>5, <2>6
  <2>8. ASSUME NEW i \in 1..Len(g) PROVE r[i] = g[i]
    <3>1. i \in 1..(Len(q) - 1) /\ i \in 1..Len(q) /\ g[i] = q[i]
      BY <1>1, <2>6
    <3>2. CASE i <= Len(b)
      BY <1>1, <2>5, <3>1, <3>2
    <3>3. CASE i > Len(b)
      <4>1. i - Len(b) \in 1..(Len(f) - Len(a)) /\ Len(b) + (i - Len(b)) = i
            /\ i - Len(b) \in 1..(Len(p) - Len(a)) /\ Len(a) + (i - Len(b)) \in 1..(Len(p) - 1)
        BY <1>1, <2>1, <2>6, <3>1, <3>3
      <4>2. r[Len(b) + (i - Len(b))] = f[Len(a) + (i - Len(b))]
        BY <2>5, <4>1
      <4>3. f[Len(a) + (i - Len(b))] = p[Len(a) + (i - Len(b))]
        BY <2>6, <4>1
      <4>4. q[Len(b) + (i - Len(b))] = p[Len(a) + (i - Len(b))]
        BY <1>1, <4>1
      <4> QED BY <3>1, <4>1, <4>2, <4>3, <4>4
    <3> QED BY <1>1, <3>1, <3>2, <3>3
  <2>9. r = g
    BY <2>5, <2>6, <2>7, <2>8, SamePath
  <2>10. q # b
    BY <1>1, <2>3
  <2> QED BY <2>2, <2>9, <2>10 DEF r, g
<1> QED BY <1>2, <1>3, <1>4, <1>5 DEF q

LEMMA MovingKeepsTree ==
  ASSUME RemoteAssumptions, IsTreeOf(tree), NEW path \in DOMAIN tree,
         NEW target, target \notin DOMAIN tree, InPlace(target), ~IsPrefix(path, target),
         NEW moved, moved = {Put(path, target, p) : p \in Remote!Within(path)},
         moved \subseteq Paths, NEW new,
         new = [p \in (DOMAIN tree \ Remote!Within(path)) \union moved |->
                  IF p \in moved THEN tree[Put(target, path, p)] ELSE tree[p]]
  PROVE  IsTreeOf(new)
<1>1. /\ path \in PathSet /\ path # <<>> /\ target \in PathSet /\ target # <<>>
      /\ DOMAIN tree \subseteq PathSet /\ DOMAIN tree \subseteq Paths
  BY PathsArePaths DEF IsTreeOf, InPlace
<1>2. /\ \A p : p \in Remote!Within(path) <=> p \in DOMAIN tree /\ IsPrefix(path, p)
      /\ \A p : p \in DOMAIN new <=> (p \in DOMAIN tree /\ ~IsPrefix(path, p)) \/ p \in moved
  BY SameTree DEF Remote!Within
<1>3. \A p \in DOMAIN tree : IsPrefix(path, p) =>
        Put(path, target, p) \in moved /\ new[Put(path, target, p)] = tree[p]
  <2>1. SUFFICES ASSUME NEW p \in DOMAIN tree, IsPrefix(path, p)
                 PROVE  Put(path, target, p) \in moved /\ new[Put(path, target, p)] = tree[p]
    OBVIOUS
  <2>2. Put(path, target, p) \in moved
    BY <1>2, <2>1
  <2>3. Put(target, path, Put(path, target, p)) = p
    BY <1>1, <2>1, PutRules
  <2> QED BY <2>2, <2>3
<1>4. \A p \in moved : p \in PathSet /\ IsPrefix(target, p)
  BY <1>1, <1>2, PutRules, PutByPlace
<1>5. \A p \in DOMAIN tree : ~IsPrefix(target, p)
  BY <1>1, AboveIsFolder DEF IsStrictPrefix
<1>6. \A p \in DOMAIN tree : ~IsPrefix(path, p) => p \in DOMAIN new /\ new[p] = tree[p]
  BY <1>2, <1>4, <1>5
<1>7. ASSUME NEW p \in DOMAIN new
      PROVE  /\ p \in Paths /\ new[p] \in Entries
             /\ Len(p) > 1 => Front(p) \in DOMAIN new /\ new[Front(p)] = Dir
  <2>1. CASE p \in moved
    <3>1. PICK x \in DOMAIN tree : IsPrefix(path, x) /\ p = Put(path, target, x)
      BY <1>2, <2>1
    <3>2. p \in Paths /\ new[p] = tree[x] /\ tree[x] \in Entries
      BY <1>3, <2>1, <3>1 DEF IsTreeOf
    <3>3. CASE x = path
      <4>1. p = target
        BY <1>1, <3>1, <3>3, PutRules
      <4>2. ASSUME Len(p) > 1 PROVE Front(p) \in DOMAIN new /\ new[Front(p)] = Dir
        <5>1. Front(target) \in DOMAIN tree /\ tree[Front(target)] = Dir
          BY <4>1, <4>2, FrontIsShorter DEF InPlace, IsFolder
        <5>2. ~IsPrefix(path, Front(target))
          BY <1>1, PrefixRules, PrefixTransitive
        <5> QED BY <1>6, <4>1, <5>1, <5>2
      <4> QED BY <3>2, <4>2
    <3>4. CASE x # path
      <4>1. IsPrefix(path, Front(x)) /\ Front(p) = Put(path, target, Front(x))
        BY <1>1, <3>1, <3>4, PutRules
      <4>2. Front(x) \in DOMAIN tree /\ tree[Front(x)] = Dir
        <5>1. Len(path) > 0 /\ Len(x) > Len(path) /\ Len(path) \in Nat /\ Len(x) \in Nat
          BY <1>1, <3>1, <3>4, PrefixRules
        <5>2. Len(x) > 1
          BY <5>1
        <5> QED BY <5>2 DEF IsTreeOf
      <4>3. Front(p) \in DOMAIN new /\ new[Front(p)] = tree[Front(x)]
        BY <1>2, <1>3, <4>1, <4>2
      <4> QED BY <3>2, <4>2, <4>3
    <3> QED BY <3>3, <3>4
  <2>2. CASE p \in DOMAIN tree /\ ~IsPrefix(path, p)
    <3>1. new[p] = tree[p] /\ tree[p] \in Entries /\ p \in Paths
      BY <1>6, <2>2 DEF IsTreeOf
    <3>2. ASSUME Len(p) > 1 PROVE Front(p) \in DOMAIN new /\ new[Front(p)] = Dir
      <4>1. Front(p) \in DOMAIN tree /\ tree[Front(p)] = Dir
        BY <2>2, <3>2 DEF IsTreeOf
      <4>2. ~IsPrefix(path, Front(p))
        <5>1. p \in PathSet /\ p # <<>> /\ Front(p) \in PathSet /\ IsPrefix(Front(p), p)
          BY <3>1, FrontIsShorter, PrefixRules
        <5> QED BY <1>1, <2>2, <5>1, PrefixTransitive
      <4> QED BY <1>6, <4>1, <4>2
    <3> QED BY <3>1, <3>2
  <2> QED BY <1>2, <2>1, <2>2
<1> QED BY <1>7 DEF IsTreeOf

------------------------------------------------------------------------------
(***************************************************************************)
(* Snapshots.  The invariant: every file that stays is in the snapshot or  *)
(* below a directory that waits; what waits and what is in the snapshot    *)
(* has been seen, and none of it is at or below a directory that waits.    *)
(***************************************************************************)

Always(t) == seen[t].always
PossibleFacts == Paths \X Entries

Covers(t, waiting, files) ==
  \A f \in Files(Always(t)) :
    f \in files \/ \E i \in DOMAIN waiting : IsStrictPrefix(waiting[i], f[1])

Apart(waiting, files) ==
  /\ \A i, j \in DOMAIN waiting : i # j => ~IsPrefix(waiting[i], waiting[j])
  /\ \A f \in files : \A i \in DOMAIN waiting : ~IsPrefix(waiting[i], f[1])
  /\ \A f, g \in files : f[1] = g[1] => f = g

Waiting(t, waiting) ==
  /\ waiting \in Seq(PathSet)
  /\ \/ waiting = <<Destination>>
     \/ \A i \in DOMAIN waiting : waiting[i] \in Below(Seen(t))

Snapping(t) ==
  /\ Always(t) \subseteq Seen(t) /\ Seen(t) \subseteq PossibleFacts
  /\ Always(t) \subseteq Current
  /\ call[t].pc = "snapshot" =>
       /\ Waiting(t, call[t].pending) /\ call[t].files \subseteq Files(Seen(t))
       /\ Covers(t, call[t].pending, call[t].files) /\ Apart(call[t].pending, call[t].files)
  /\ call[t].pc = "taken" =>
       Files(Always(t)) \subseteq call[t].files /\ call[t].files \subseteq Files(Seen(t))
  /\ call[t].pc = "full" => Cardinality(Below(Seen(t))) > MaxEntries

SnapshotInv ==
  /\ IsTreeOf(tree) /\ changes \in 0..MaxChanges /\ faults \in 0..MaxFaults
  /\ \A t \in Threads : Snapping(t)

\* What is seen grows, and so does what has been below the destination.
LEMMA SeeingMore ==
  ASSUME NEW a, NEW b, a \subseteq b
  PROVE  Files(a) \subseteq Files(b) /\ Below(a) \subseteq Below(b)
BY DEF Files, Below

LEMMA BelowIsFinite ==
  ASSUME RemoteAssumptions, NEW a, a \subseteq PossibleFacts
  PROVE  IsFiniteSet(Below(a)) /\ Below(a) \subseteq Paths
<1>1. Below(a) \subseteq Paths
  BY DEF Below, PossibleFacts
<1> QED BY <1>1, PathsArePaths, FS_Subset

LEMMA SnapshotGoesOn ==
  ASSUME RemoteAssumptions, NEW t \in Threads, Snapping(t), call'[t] = call[t],
         Seen(t) \subseteq Seen(t)', Seen(t)' \subseteq PossibleFacts,
         Always(t)' \subseteq Always(t), Always(t)' \subseteq Current'
  PROVE  Snapping(t)'
<1> DEFINE P == call[t].pending
           F == call[t].files
<1>1. /\ Files(Seen(t)) \subseteq Files(Seen(t)') /\ Below(Seen(t)) \subseteq Below(Seen(t)')
      /\ Files(Always(t)') \subseteq Files(Always(t))
  BY SeeingMore
<1>2. Files(Always(t))' = Files(Always(t)') /\ Files(Seen(t))' = Files(Seen(t)')
      /\ Below(Seen(t))' = Below(Seen(t)')
  BY DEF Files, Below
<1>3. ASSUME call[t].pc = "snapshot"
      PROVE  /\ Waiting(t, P)' /\ F \subseteq Files(Seen(t)')
             /\ Covers(t, P, F)' /\ Apart(P, F)
  BY <1>1, <1>2, <1>3 DEF Snapping, Waiting, Covers
<1>4. ASSUME call[t].pc = "full" PROVE Cardinality(Below(Seen(t)')) > MaxEntries
  <2>1. /\ IsFiniteSet(Below(Seen(t)'))
        /\ IsFiniteSet(Below(Seen(t)))
    BY BelowIsFinite DEF Snapping
  <2>2. Cardinality(Below(Seen(t))) <= Cardinality(Below(Seen(t)'))
    BY <1>1, <2>1, FS_Subset
  <2>3. MaxEntries \in Nat
    BY DEF RemoteAssumptions, Remote!BoundsAssumption
  <2>4. Cardinality(Below(Seen(t)')) \in Nat /\ Cardinality(Below(Seen(t))) \in Nat
    BY <2>1, FS_CardinalityType
  <2> QED BY <1>4, <2>2, <2>3, <2>4 DEF Snapping
<1> QED BY <1>1, <1>2, <1>3, <1>4 DEF Snapping

\* How a step changes the tree, if it does, and what is seen of it.
TreeIsNew == \E new : Remote!Becomes(new) /\ IsTreeOf(new)

LEMMA UsersKeepTree ==
  ASSUME RemoteAssumptions, IsTreeOf(tree), Remote!Change PROVE TreeIsNew
<1>1. \A p : Remote!IsDir(p) <=> p = <<>> \/ IsFolder(p)
  BY SameTree
<1>2. \A p : Remote!Free(p) => p \notin DOMAIN tree /\ InPlace(p)
  BY <1>1, SameTree DEF Remote!Free, InPlace
<1>3. PICK p \in Paths : \/ Remote!Adds(p) \/ Remote!Grows(p) \/ Remote!Removes(p)
                         \/ \E q \in Paths : Remote!Moves(p, q)
  BY DEF Remote!Change
<1>4. CASE Remote!Adds(p)
  <2>1. PICK entry \in Entries :
          Remote!Becomes([x \in DOMAIN tree \union {p} |-> IF x = p THEN entry ELSE tree[x]])
    BY <1>4, SameTree DEF Remote!Adds, Entries
  <2> DEFINE new == [x \in DOMAIN tree \union {p} |-> IF x = p THEN entry ELSE tree[x]]
  <2>2. p \notin DOMAIN tree /\ InPlace(p)
    BY <1>2, <1>4 DEF Remote!Adds
  <2>3. IsTreeOf(new)
    BY <2>2, AddingKeepsTree
  <2> HIDE DEF new
  <2> QED BY <2>1, <2>3 DEF TreeIsNew, new
<1>5. CASE Remote!Grows(p)
  <2>1. PICK size \in Entries : Remote!Becomes([tree EXCEPT ![p] = size])
    BY <1>5 DEF Remote!Grows, Entries
  <2>2. p \in DOMAIN tree /\ tree[p] # Dir
    BY <1>5, SameTree DEF Remote!Grows
  <2>3. IsTreeOf([tree EXCEPT ![p] = size])
    BY <2>2, GrowingKeepsTree
  <2> QED BY <2>1, <2>3 DEF TreeIsNew
<1>6. CASE Remote!Removes(p)
  <2> DEFINE new == [x \in DOMAIN tree \ Remote!Within(p) |-> tree[x]]
  <2>1. Remote!Becomes(new)
    BY <1>6 DEF Remote!Removes
  <2>2. IsTreeOf(new)
    BY RemovingKeepsTree
  <2> HIDE DEF new
  <2> QED BY <2>1, <2>2 DEF TreeIsNew
<1>7. ASSUME NEW q \in Paths, Remote!Moves(p, q) PROVE TreeIsNew
  <2> DEFINE moved == {Put(p, q, x) : x \in Remote!Within(p)}
             new == [x \in (DOMAIN tree \ Remote!Within(p)) \union moved |->
                       IF x \in moved THEN tree[Put(q, p, x)] ELSE tree[x]]
  <2>1. /\ p \in DOMAIN tree /\ Remote!Free(q) /\ moved \subseteq Paths
        /\ ~IsPrefix(p, q) /\ Remote!Becomes(new)
    BY <1>7, SameTree DEF Remote!Moves, Put
  <2>2. q \notin DOMAIN tree /\ InPlace(q)
    BY <1>2, <2>1
  <2>3. IsTreeOf(new)
    BY <2>1, <2>2, MovingKeepsTree
  <2> HIDE DEF new
  <2> QED BY <2>1, <2>3 DEF TreeIsNew
<1> QED BY <1>3, <1>4, <1>5, <1>6, <1>7

LEMMA CreatingKeepsTree ==
  ASSUME RemoteAssumptions, EnsureInv, IsTreeOf(tree), NEW t \in Threads, Remote!EnsureCreates(t)
  PROVE  TreeIsNew \/ UNCHANGED <<tree, seen>>
<1> DEFINE target == Head(call[t].todo)
           possible == Remote!IsDir(Front(target)) /\ target \notin DOMAIN tree
           created == [p \in DOMAIN tree \union {target} |->
                         IF p = target THEN Dir ELSE tree[p]]
<1>1. /\ call[t].pc = "create"
      /\ (tree' = tree /\ seen' = seen) \/ (possible /\ Remote!Becomes(created))
  <2>1. /\ call[t].pc = "create" /\ changes' = changes
        /\ \/ possible /\ Remote!Becomes(created) /\ Remote!Advance(t) /\ faults' = faults
           \/ /\ ~possible /\ Remote!Become(t, [call[t] EXCEPT !.pc = "check"])
              /\ UNCHANGED <<tree, seen, faults>>
           \/ /\ faults' = faults + 1
              /\ (possible /\ Remote!Becomes(created)) \/ UNCHANGED <<tree, seen>>
              /\ Remote!Become(t, [call[t] EXCEPT !.pc = "check"])
    BY SameTree DEF Remote!EnsureCreates
  <2> HIDE DEF created, possible
  <2> QED BY <2>1
<1>2. PICK k \in 1..Steps : At(t, k)
  BY <1>1 DEF EnsureInv, Ensuring
<1>3. target \in Paths
  BY <1>2, AtHand, FoldersOnTheWay
<1>4. ASSUME possible PROVE IsTreeOf(created)
  <2>1. target \notin DOMAIN tree /\ InPlace(target)
    BY <1>3, <1>4, SameTree DEF InPlace
  <2> HIDE DEF target
  <2>2. Dir \in Entries
    BY DEF Entries
  <2> QED BY <2>1, <2>2, AddingKeepsTree
<1>5. ASSUME possible, Remote!Becomes(created) PROVE TreeIsNew
  <2>1. Remote!Becomes(created) /\ IsTreeOf(created)
    BY <1>4, <1>5
  <2> HIDE DEF created
  <2> QED BY <2>1 DEF TreeIsNew
<1> QED BY <1>1, <1>5

LEMMA TreeGoesOn ==
  ASSUME RemoteAssumptions, EnsureInv, IsTreeOf(tree), Remote!Next
  PROVE  \/ TreeIsNew
         \/ UNCHANGED <<tree, seen>>
         \/ \E t \in Threads : UNCHANGED tree /\ Remote!Begin(t)
<1>1. CASE Remote!Change
  BY <1>1, UsersKeepTree
<1>2. ASSUME NEW t \in Threads,
             \/ Remote!EnsureBegins(t) \/ Remote!EnsureLists(t) \/ Remote!EnsureCreates(t)
             \/ Remote!EnsureChecks(t) \/ Remote!SnapshotBegins(t)
             \/ Remote!SnapshotLists(t) \/ Remote!SnapshotEnds(t) \/ Remote!CallFails(t)
      PROVE  \/ TreeIsNew
             \/ UNCHANGED <<tree, seen>>
             \/ UNCHANGED tree /\ Remote!Begin(t)
  <2>1. CASE Remote!EnsureCreates(t)
    BY <2>1, CreatingKeepsTree
  <2>2. CASE Remote!EnsureBegins(t) \/ Remote!SnapshotBegins(t)
    BY <2>2 DEF Remote!EnsureBegins, Remote!SnapshotBegins
  <2>3. CASE \/ Remote!EnsureLists(t) \/ Remote!EnsureChecks(t) \/ Remote!SnapshotLists(t)
             \/ Remote!SnapshotEnds(t) \/ Remote!CallFails(t)
    BY <2>3 DEF Remote!EnsureLists, Remote!EnsureChecks, Remote!SnapshotLists,
      Remote!SnapshotEnds, Remote!CallFails
  <2> QED BY <1>2, <2>1, <2>2, <2>3
<1> QED BY <1>1, <1>2 DEF Remote!Next

------------------------------------------------------------------------------

\* What a thread has seen goes on as the tree does.
ViewGoesOn(t) ==
  /\ Seen(t) \subseteq Seen(t)' /\ Seen(t)' \subseteq PossibleFacts
  /\ Always(t)' \subseteq Always(t) /\ Always(t)' \subseteq Current'

LEMMA CurrentIsPossible ==
  ASSUME IsTreeOf(tree) PROVE Current \subseteq PossibleFacts
BY DEF IsTreeOf, Current, PossibleFacts

LEMMA ViewsGoOn ==
  ASSUME RemoteAssumptions, EnsureInv, SnapshotInv, NEW t \in Threads,
         TreeIsNew \/ UNCHANGED <<tree, seen>>
  PROVE  ViewGoesOn(t) /\ IsTreeOf(tree)'
<1>1. Snapping(t) /\ IsTreeOf(tree) /\ DOMAIN seen = Threads
  BY DEF SnapshotInv, EnsureInv
<1>2. ASSUME NEW new, Remote!Becomes(new), IsTreeOf(new) PROVE ViewGoesOn(t) /\ IsTreeOf(tree)'
  <2>1. tree' = new /\ Seen(t)' = Seen(t) \union Current' /\ Always(t)' = Always(t) \intersect Current'
    BY <1>1, <1>2, TreeBecomes DEF Seen, Always
  <2>2. IsTreeOf(tree') /\ IsTreeOf(tree)'
    BY <1>2, <2>1 DEF IsTreeOf
  <2>3. Current' \subseteq PossibleFacts
    BY <2>2 DEF IsTreeOf, Current, PossibleFacts
  <2> QED BY <1>1, <2>1, <2>2, <2>3 DEF ViewGoesOn, Snapping
<1>3. CASE UNCHANGED <<tree, seen>>
  BY <1>1, <1>3 DEF ViewGoesOn, Snapping, IsTreeOf, Seen, Always, Current
<1> QED BY <1>2, <1>3 DEF TreeIsNew

\* Whoever's step it is: the others go on, the thread itself is as it should be.
LEMMA SnapshotAll ==
  ASSUME RemoteAssumptions, EnsureInv, SnapshotInv, NEW t \in Threads,
         \A u \in Threads \ {t} : call'[u] = call[u] /\ ViewGoesOn(u),
         IsTreeOf(tree)', changes' = changes, faults' \in 0..MaxFaults, Snapping(t)'
  PROVE  SnapshotInv'
<1>1. \A u \in Threads \ {t} : Snapping(u)'
  BY SnapshotGoesOn DEF SnapshotInv, ViewGoesOn
<1> QED BY <1>1 DEF SnapshotInv

\* Steps after which the thread has no snapshot.
LEMMA NoSnapshot ==
  ASSUME NEW t \in Threads, Snapping(t), ViewGoesOn(t),
         call'[t].pc \notin {"snapshot", "taken", "full"}
  PROVE  Snapping(t)'
BY DEF Snapping, ViewGoesOn

LEMMA SnapshotInitially ==
  ASSUME RemoteAssumptions, Remote!Init PROVE SnapshotInv
<1>1. /\ call = [t \in Threads |-> [pc |-> "idle"]] /\ changes = 0 /\ faults = 0
      /\ seen = [t \in Threads |-> [always |-> {}, ever |-> {}]]
      /\ tree \in Remote!Trees
  BY DEF Remote!Init, Remote!Idle
<1>2. IsTreeOf(tree)
  BY <1>1, SameIsTree DEF Remote!Trees
<1>3. changes \in 0..MaxChanges /\ faults \in 0..MaxFaults
  BY <1>1 DEF RemoteAssumptions, Remote!BoundsAssumption
<1>4. \A t \in Threads : call[t].pc = "idle" /\ Always(t) = {} /\ Seen(t) = {}
  BY <1>1 DEF Always, Seen
<1> QED BY <1>2, <1>3, <1>4 DEF SnapshotInv, Snapping

LEMMA SnapshotKeepsBeginning ==
  ASSUME RemoteAssumptions, EnsureInv, SnapshotInv, NEW t \in Threads,
         Remote!EnsureBegins(t) \/ Remote!SnapshotBegins(t)
  PROVE  SnapshotInv'
<1>1. PICK state :
        /\ Remote!Become(t, state)
        /\ UNCHANGED <<tree, changes, faults>> /\ Remote!Begin(t)
        /\ \/ state.pc \notin {"snapshot", "taken", "full"}
           \/ state = [pc |-> "snapshot", pending |-> <<Destination>>, files |-> {}]
  BY SameTree DEF Remote!EnsureBegins, Remote!SnapshotBegins
<1>2. seen' = [seen EXCEPT ![t] = [always |-> Current, ever |-> Current]] /\ Current' = Current
  BY <1>1, SameTree DEF Remote!Begin, Remote!Look, Current
<1>3. /\ IsTreeOf(tree) /\ IsTreeOf(tree)' /\ DOMAIN seen = Threads /\ DOMAIN call = Threads
      /\ \A u \in Threads : Snapping(u)
  BY <1>1 DEF SnapshotInv, EnsureInv, IsTreeOf
<1>4. \A u \in Threads \ {t} : call'[u] = call[u] /\ ViewGoesOn(u)
  <2>1. TAKE u \in Threads \ {t}
  <2>2. call'[u] = call[u] /\ seen'[u] = seen[u]
    BY <1>1, <1>2, <1>3 DEF Remote!Become
  <2> QED BY <1>2, <1>3, <2>2 DEF ViewGoesOn, Snapping, Seen, Always
<1>5. call'[t] = state /\ Seen(t)' = Current' /\ Always(t)' = Current'
  <2> DEFINE c == Current
  <2>1. seen'[t] = [always |-> c, ever |-> c]
    BY <1>2, <1>3
  <2> HIDE DEF c
  <2>2. seen'[t].always = c /\ seen'[t].ever = c
    BY <2>1
  <2> QED BY <1>1, <1>2, <1>3, <2>2 DEF Remote!Become, Seen, Always, c
<1>6. Current' \subseteq PossibleFacts
  BY <1>2, <1>3, CurrentIsPossible
<1>7. CASE state.pc \notin {"snapshot", "taken", "full"}
  <2>1. Snapping(t)'
    BY <1>5, <1>6, <1>7 DEF Snapping
  <2> QED BY <1>1, <1>3, <1>4, <2>1, SnapshotAll DEF SnapshotInv
<1>8. CASE state = [pc |-> "snapshot", pending |-> <<Destination>>, files |-> {}]
  <2>1. call'[t].pc = "snapshot" /\ call'[t].pending = <<Destination>> /\ call'[t].files = {}
    BY <1>5, <1>8
  <2>2. /\ <<Destination>> \in Seq(PathSet) /\ DOMAIN <<Destination>> = {1}
        /\ <<Destination>>[1] = Destination
    BY PathsArePaths
  <2>3. Waiting(t, <<Destination>>)'
    BY <2>2 DEF Waiting
  <2>4. Covers(t, <<Destination>>, {})'
    BY <2>2 DEF Covers, Files
  <2>5. Apart(<<Destination>>, {})
    BY <2>2 DEF Apart
  <2>6. Waiting(t, call[t].pending)' /\ Covers(t, call[t].pending, call[t].files)'
    BY <2>1, <2>3, <2>4 DEF Waiting, Covers
  <2>7. Apart(call'[t].pending, call'[t].files)
    BY <2>1, <2>5
  <2>8. Snapping(t)'
    BY <1>5, <1>6, <2>1, <2>6, <2>7 DEF Snapping
  <2> QED BY <1>1, <1>3, <1>4, <2>8, SnapshotAll DEF SnapshotInv
<1> QED BY <1>1, <1>7, <1>8

LEMMA SnapshotKeepsOthers ==
  ASSUME RemoteAssumptions, EnsureInv, SnapshotInv, NEW t \in Threads,
         \/ Remote!EnsureLists(t) \/ Remote!EnsureCreates(t) \/ Remote!EnsureChecks(t)
         \/ Remote!CallFails(t)
  PROVE  SnapshotInv'
<1>1. /\ changes' = changes
      /\ faults' = faults \/ (faults < MaxFaults /\ faults' = faults + 1)
  BY DEF Remote!EnsureLists, Remote!EnsureCreates, Remote!EnsureChecks, Remote!CallFails
<1>2. TreeIsNew \/ UNCHANGED <<tree, seen>>
  BY CreatingKeepsTree DEF SnapshotInv, Remote!EnsureLists, Remote!EnsureChecks, Remote!CallFails
<1>3. PICK state : Remote!Become(t, state) /\ state.pc \notin {"snapshot", "taken", "full"}
  <2>1. \/ Remote!Advance(t)
        \/ Remote!Become(t, [pc |-> "unensured"])
        \/ Remote!Become(t, [pc |-> "untaken"])
        \/ call[t].pc = "list" /\ Remote!Become(t, [call[t] EXCEPT !.pc = "create"])
        \/ call[t].pc = "create" /\ Remote!Become(t, [call[t] EXCEPT !.pc = "check"])
    BY DEF Remote!EnsureLists, Remote!EnsureCreates, Remote!EnsureChecks, Remote!CallFails
  <2>2. CASE Remote!Advance(t)
    BY SMTT(30), <2>2 DEF Remote!Advance
  <2>3. CASE Remote!Become(t, [pc |-> "unensured"])
    BY <2>3
  <2>4. CASE Remote!Become(t, [pc |-> "untaken"])
    BY <2>4
  <2>5. CASE call[t].pc = "list" /\ Remote!Become(t, [call[t] EXCEPT !.pc = "create"])
    <3> DEFINE next == [call[t] EXCEPT !.pc = "create"]
    <3>1. next.pc = "create" /\ Remote!Become(t, next)
      BY <2>5
    <3> HIDE DEF next
    <3> QED BY <3>1
  <2>6. CASE call[t].pc = "create" /\ Remote!Become(t, [call[t] EXCEPT !.pc = "check"])
    <3> DEFINE next == [call[t] EXCEPT !.pc = "check"]
    <3>1. next.pc = "check" /\ Remote!Become(t, next)
      BY <2>6
    <3> HIDE DEF next
    <3> QED BY <3>1
  <2> QED BY <2>1, <2>2, <2>3, <2>4, <2>5, <2>6
<1>4. /\ IsTreeOf(tree)' /\ \A u \in Threads : ViewGoesOn(u)
  BY <1>2, ViewsGoOn
<1>5. call'[t] = state /\ \A u \in Threads \ {t} : call'[u] = call[u]
  BY <1>3 DEF Remote!Become, EnsureInv
<1>6. Snapping(t)'
  BY <1>3, <1>4, <1>5, NoSnapshot DEF SnapshotInv
<1>7. faults' \in 0..MaxFaults
  BY <1>1 DEF SnapshotInv, RemoteAssumptions, Remote!BoundsAssumption
<1> QED BY <1>1, <1>4, <1>5, <1>6, <1>7, SnapshotAll

------------------------------------------------------------------------------
(***************************************************************************)
(* One listing: the path that came last gives way to its directories.      *)
(***************************************************************************)

LEMMA LastAndRest ==
  ASSUME NEW S, NEW s \in Seq(S), s # <<>>
  PROVE  /\ Len(s) \in Nat \ {0} /\ DOMAIN s = 1..Len(s) /\ Last(s) = s[Len(s)] /\ Last(s) \in S
         /\ Front(s) \in Seq(S) /\ Len(Front(s)) = Len(s) - 1
         /\ DOMAIN Front(s) = 1..(Len(s) - 1)
         /\ \A i \in 1..(Len(s) - 1) : Front(s)[i] = s[i]
<1>1. Len(s) \in Nat \ {0}
  BY EmptySeq
<1>2. /\ 1 \in Int /\ Len(s) - 1 \in Int /\ \A i \in 1..(Len(s) - 1) : s[i] \in S
  BY <1>1
<1>3. /\ SubSeq(s, 1, Len(s) - 1) \in Seq(S)
      /\ Len(SubSeq(s, 1, Len(s) - 1)) =
           IF 1 <= Len(s) - 1 THEN (Len(s) - 1) - 1 + 1 ELSE 0
      /\ \A i \in 1..((Len(s) - 1) - 1 + 1) : SubSeq(s, 1, Len(s) - 1)[i] = s[1 + i - 1]
  BY <1>2, SubSeqProperties
<1> DEFINE r == SubSeq(s, 1, Len(s) - 1)
<1>4. r \in Seq(S) /\ Len(r) = Len(s) - 1 /\ \A i \in 1..(Len(s) - 1) : r[i] = s[i]
  <2> DEFINE n == Len(s) - 1
  <2>1. /\ r \in Seq(S) /\ Len(r) = IF 1 <= n THEN n - 1 + 1 ELSE 0
        /\ \A i \in 1..(n - 1 + 1) : r[i] = s[1 + i - 1]
    BY <1>3
  <2>2. n \in Nat
    BY <1>1
  <2> HIDE DEF r, n
  <2>3. Len(r) = n
    BY <2>1, <2>2
  <2>4. ASSUME NEW i \in 1..n PROVE r[i] = s[i]
    <3>1. i \in 1..(n - 1 + 1) /\ 1 + i - 1 = i
      BY <2>2
    <3>2. r[i] = s[1 + i - 1]
      BY <2>1, <3>1
    <3> QED BY <3>1, <3>2
  <2> QED BY <2>1, <2>3, <2>4 DEF n
<1> HIDE DEF r
<1>5. DOMAIN r = 1..(Len(s) - 1)
  BY <1>4
<1> QED BY <1>1, <1>4, <1>5 DEF Front, Last, r

LEMMA EntriesAreBelow ==
  ASSUME RemoteAssumptions, IsTreeOf(tree), NEW path \in PathSet,
         NEW p, p \in Remote!Children(path)
  PROVE  /\ p \in DOMAIN tree /\ p \in PathSet /\ p # <<>> /\ p # path /\ IsPrefix(path, p)
         /\ Len(p) = Len(path) + 1
         /\ \A q \in PathSet : IsPrefix(q, p) => q = p \/ IsPrefix(q, path)
<1>1. p \in DOMAIN tree /\ Front(p) = path /\ p \in Paths
  BY SameTree DEF Remote!Children, IsTreeOf
<1>2. p \in PathSet /\ p # <<>> /\ Len(p) \in Nat \ {0} /\ Len(path) = Len(p) - 1
  BY <1>1, FrontIsShorter
<1> QED BY <1>1, <1>2, PrefixRules

LEMMA EntriesDiffer ==
  ASSUME RemoteAssumptions, IsTreeOf(tree), NEW path \in PathSet,
         NEW p, p \in Remote!Children(path), NEW q, q \in Remote!Children(path), IsPrefix(p, q)
  PROVE  p = q
<1>1. /\ p \in PathSet /\ q \in PathSet /\ Len(p) = Len(path) + 1 /\ Len(q) = Len(path) + 1
      /\ Len(path) \in Nat
  BY EntriesAreBelow DEF PathSet
<1> QED BY <1>1, PrefixRules

LEMMA EntryOnTheWay ==
  ASSUME RemoteAssumptions, IsTreeOf(tree), NEW path \in PathSet,
         NEW q \in DOMAIN tree, IsStrictPrefix(path, q)
  PROVE  \E e \in Remote!Children(path) : e = q \/ (tree[e] = Dir /\ IsStrictPrefix(e, q))
<1>1. q \in PathSet
  BY PathsArePaths DEF IsTreeOf
<1>2. PICK e \in PathSet : e # <<>> /\ Front(e) = path /\ IsPrefix(e, q)
  BY <1>1, StepDown
<1>3. CASE e = q
  BY <1>2, <1>3, SameTree DEF Remote!Children
<1>4. CASE e # q
  <2>1. IsStrictPrefix(e, q)
    BY <1>2, <1>4 DEF IsStrictPrefix
  <2>2. e \in DOMAIN tree /\ tree[e] = Dir
    BY <1>2, <2>1, AboveIsFolder
  <2> QED BY <1>2, <2>1, <2>2, SameTree DEF Remote!Children
<1> QED BY <1>3, <1>4

\* What waits after a listing: what waited before, and the directories listed.
LEMMA WaitingAfter ==
  ASSUME NEW a \in Seq(PathSet), NEW b \in Seq(PathSet)
  PROVE  /\ a \o b \in Seq(PathSet)
         /\ DOMAIN (a \o b) = 1..(Len(a) + Len(b)) /\ DOMAIN a = 1..Len(a) /\ DOMAIN b = 1..Len(b)
         /\ Len(a) \in Nat /\ Len(b) \in Nat
         /\ \A i \in DOMAIN a : i \in DOMAIN (a \o b) /\ (a \o b)[i] = a[i]
         /\ \A i \in DOMAIN b : Len(a) + i \in DOMAIN (a \o b) /\ (a \o b)[Len(a) + i] = b[i]
         /\ \A i \in DOMAIN (a \o b) :
              \/ i \in DOMAIN a /\ (a \o b)[i] = a[i]
              \/ i - Len(a) \in DOMAIN b /\ (a \o b)[i] = b[i - Len(a)]
<1>1. /\ a \o b \in Seq(PathSet) /\ Len(a \o b) = Len(a) + Len(b)
      /\ \A i \in 1..(Len(a) + Len(b)) :
           (a \o b)[i] = IF i <= Len(a) THEN a[i] ELSE b[i - Len(a)]
  BY ConcatProperties
<1> DEFINE c == a \o b
<1> HIDE DEF c
<1>2. /\ c \in Seq(PathSet) /\ DOMAIN c = 1..(Len(a) + Len(b))
      /\ DOMAIN a = 1..Len(a) /\ DOMAIN b = 1..Len(b) /\ Len(a) \in Nat /\ Len(b) \in Nat
      /\ \A i \in 1..(Len(a) + Len(b)) : c[i] = IF i <= Len(a) THEN a[i] ELSE b[i - Len(a)]
  BY <1>1 DEF c
<1>3. /\ \A i \in DOMAIN a : i \in DOMAIN c /\ c[i] = a[i]
      /\ \A i \in DOMAIN b : Len(a) + i \in DOMAIN c /\ c[Len(a) + i] = b[i]
      /\ \A i \in DOMAIN c : \/ i \in DOMAIN a /\ c[i] = a[i]
                             \/ i - Len(a) \in DOMAIN b /\ c[i] = b[i - Len(a)]
  BY <1>2
<1> QED BY <1>2, <1>3 DEF c

\* What a listing of path finds, and what waited.
ListsFolder(P, path, waiting, dirs, new) ==
  /\ P \in Seq(PathSet) /\ P # <<>> /\ path = Last(P) /\ waiting = Front(P)
  /\ dirs = {p \in Remote!Children(path) : tree[p] = Dir} /\ new \in SetToSeqs(dirs)

LEMMA ListingParts ==
  ASSUME RemoteAssumptions, IsTreeOf(tree),
         NEW P, NEW path, NEW waiting, NEW dirs, NEW new, ListsFolder(P, path, waiting, dirs, new)
  PROVE  /\ path \in PathSet /\ \E k \in DOMAIN P : path = P[k] /\ k \notin DOMAIN waiting
         /\ waiting \in Seq(PathSet) /\ new \in Seq(PathSet)
         /\ \A i \in DOMAIN waiting : i \in DOMAIN P /\ waiting[i] = P[i]
         /\ \A i \in DOMAIN P : i \in DOMAIN waiting \/ P[i] = path
         /\ \A d : d \in dirs <=> \E i \in DOMAIN new : new[i] = d
         /\ \A i, j \in DOMAIN new : new[i] = new[j] => i = j
<1>1. /\ P \in Seq(PathSet) /\ P # <<>> /\ path = Last(P) /\ waiting = Front(P)
      /\ dirs = {p \in Remote!Children(path) : tree[p] = Dir} /\ new \in SetToSeqs(dirs)
  BY DEF ListsFolder
<1>2. /\ Len(P) \in Nat \ {0} /\ DOMAIN P = 1..Len(P) /\ path = P[Len(P)] /\ path \in PathSet
      /\ waiting \in Seq(PathSet) /\ DOMAIN waiting = 1..(Len(P) - 1)
      /\ \A i \in 1..(Len(P) - 1) : waiting[i] = P[i]
  BY <1>1, LastAndRest
<1>3. dirs \subseteq PathSet /\ IsFiniteSet(dirs)
  <2>1. dirs \subseteq Paths
    BY <1>1 DEF Remote!Children, IsTreeOf
  <2> QED BY <2>1, PathsArePaths, FS_Subset
<1>4. /\ new \in Seq(dirs) /\ Range(new) = dirs
      /\ \A i, j \in DOMAIN new : new[i] = new[j] => i = j
  BY <1>1, <1>3, SequenceOfSet
<1>5. \A d : d \in dirs <=> \E i \in DOMAIN new : new[i] = d
  BY <1>4 DEF Range
<1>6. new \in Seq(PathSet)
  BY <1>3, <1>4
<1> QED BY <1>2, <1>4, <1>5, <1>6

LEMMA ListingWaits ==
  ASSUME RemoteAssumptions, IsTreeOf(tree), NEW t \in Threads, Current \subseteq Seen(t),
         NEW P, NEW path, NEW waiting, NEW dirs, NEW new, ListsFolder(P, path, waiting, dirs, new),
         Waiting(t, P)
  PROVE  /\ \A p \in Remote!Children(path) : p \in Below(Seen(t)) /\ IsStrictPrefix(Destination, p)
         /\ \A i \in DOMAIN waiting : waiting[i] \in Below(Seen(t))
         /\ Waiting(t, waiting \o new)
<1>1. /\ path \in PathSet /\ waiting \in Seq(PathSet) /\ new \in Seq(PathSet)
      /\ \A i \in DOMAIN waiting : i \in DOMAIN P /\ waiting[i] = P[i]
      /\ \A d : d \in dirs <=> \E i \in DOMAIN new : new[i] = d
  BY ListingParts
<1>2. PICK k \in DOMAIN P : path = P[k] /\ k \notin DOMAIN waiting
  BY ListingParts
<1>3. Destination \in PathSet
  BY PathsArePaths
<1>4. IsPrefix(Destination, path) /\ \A i \in DOMAIN waiting : waiting[i] \in Below(Seen(t))
  <2>1. CASE P = <<Destination>>
    <3>1. DOMAIN P = {1} /\ P[1] = Destination
      BY <2>1
    <3>2. path = Destination /\ DOMAIN waiting = {}
      BY <1>1, <1>2, <3>1
    <3> QED BY <1>3, <3>2, PrefixRules
  <2>2. CASE \A i \in DOMAIN P : P[i] \in Below(Seen(t))
    <3>1. IsStrictPrefix(Destination, path)
      BY <1>2, <2>2 DEF Below
    <3> QED BY <1>1, <2>2, <3>1 DEF IsStrictPrefix
  <2> QED BY <2>1, <2>2 DEF Waiting
<1>5. ASSUME NEW p \in Remote!Children(path)
      PROVE  p \in Below(Seen(t)) /\ IsStrictPrefix(Destination, p)
  <2>1. p \in DOMAIN tree /\ p \in PathSet /\ p # path /\ IsPrefix(path, p) /\ Len(p) = Len(path) + 1
    BY <1>1, EntriesAreBelow
  <2>2. IsPrefix(Destination, p)
    BY <1>1, <1>3, <1>4, <2>1, PrefixTransitive
  <2>3. Destination # p
    <3>1. Len(Destination) <= Len(path) /\ Len(path) \in Nat /\ Len(Destination) \in Nat
      BY <1>1, <1>3, <1>4, PrefixRules
    <3> QED BY <2>1, <3>1
  <2>4. <<p, tree[p]>> \in Seen(t)
    BY <2>1 DEF Current
  <2> QED BY <2>2, <2>3, <2>4 DEF Below, IsStrictPrefix
<1>6. \A i \in DOMAIN (waiting \o new) : (waiting \o new)[i] \in Below(Seen(t))
  <2>1. \A i \in DOMAIN new : new[i] \in Below(Seen(t))
    BY <1>1, <1>5 DEF ListsFolder
  <2> QED BY <1>1, <1>4, <2>1, WaitingAfter
<1>7. waiting \o new \in Seq(PathSet)
  BY <1>1, WaitingAfter
<1> QED BY <1>4, <1>5, <1>6, <1>7 DEF Waiting

LEMMA ListingApart ==
  ASSUME RemoteAssumptions, IsTreeOf(tree), NEW F,
         NEW P, NEW path, NEW waiting, NEW dirs, NEW new, ListsFolder(P, path, waiting, dirs, new),
         Apart(P, F), \A f \in F : f[1] \in PathSet
  PROVE  /\ Apart(waiting \o new, F \union {<<p, tree[p]>> : p \in Remote!Children(path) \ dirs})
         /\ \A p \in Remote!Children(path) :
              /\ \A f \in F : f[1] # p
              /\ \A i \in DOMAIN waiting : waiting[i] # p
<1> DEFINE entries == Remote!Children(path)
           found == {<<p, tree[p]>> : p \in entries \ dirs}
           all == waiting \o new
<1>1. /\ path \in PathSet /\ waiting \in Seq(PathSet) /\ new \in Seq(PathSet)
      /\ \A i \in DOMAIN waiting : i \in DOMAIN P /\ waiting[i] = P[i] /\ waiting[i] \in PathSet
      /\ \A d : d \in dirs <=> \E i \in DOMAIN new : new[i] = d
      /\ \A i, j \in DOMAIN new : new[i] = new[j] => i = j
      /\ dirs \subseteq entries
  <2>1. dirs \subseteq entries
    BY DEF ListsFolder
  <2>2. waiting \in Seq(PathSet) => \A i \in DOMAIN waiting : waiting[i] \in PathSet
    OBVIOUS
  <2> HIDE DEF entries
  <2> QED BY <2>1, <2>2, ListingParts
<1>2. PICK k \in DOMAIN P : path = P[k] /\ k \notin DOMAIN waiting
  BY ListingParts
<1>3. /\ \A i \in DOMAIN waiting : ~IsPrefix(waiting[i], path) /\ ~IsPrefix(path, waiting[i])
      /\ \A f \in F : ~IsPrefix(path, f[1])
  BY <1>1, <1>2 DEF Apart
<1>4. ASSUME NEW p \in entries
      PROVE  /\ p \in PathSet /\ IsPrefix(path, p)
             /\ \A q \in PathSet : IsPrefix(q, p) => q = p \/ IsPrefix(q, path)
             /\ \A q \in PathSet : IsPrefix(p, q) => IsPrefix(path, q)
  <2>1. /\ p \in PathSet /\ IsPrefix(path, p)
        /\ \A q \in PathSet : IsPrefix(q, p) => q = p \/ IsPrefix(q, path)
    BY <1>1, EntriesAreBelow
  <2> QED BY <1>1, <2>1, PrefixTransitive
<1>5. \A p, q \in entries : IsPrefix(p, q) => p = q
  BY <1>1, EntriesDiffer
<1> HIDE DEF entries
<1>6. \A p \in entries : /\ \A f \in F : f[1] # p /\ ~IsPrefix(p, f[1])
                         /\ \A i \in DOMAIN waiting :
                              /\ waiting[i] # p /\ ~IsPrefix(p, waiting[i])
                              /\ ~IsPrefix(waiting[i], p)
  BY <1>1, <1>3, <1>4
<1>7. /\ \A i \in DOMAIN all :
           \/ i \in DOMAIN waiting /\ all[i] = waiting[i]
           \/ i - Len(waiting) \in DOMAIN new /\ all[i] = new[i - Len(waiting)]
      /\ Len(waiting) \in Nat /\ DOMAIN all \subseteq Nat
  <2>1. DOMAIN all = 1..(Len(waiting) + Len(new)) /\ Len(waiting) \in Nat
    BY <1>1, WaitingAfter
  <2>2. DOMAIN all \subseteq Nat
    BY <2>1
  <2> QED BY <1>1, <2>1, <2>2, WaitingAfter
<1>8. \A i \in DOMAIN new : new[i] \in dirs /\ new[i] \in entries
  BY <1>1
<1> HIDE DEF all
<1>9. \A i, j \in DOMAIN all : i # j => ~IsPrefix(all[i], all[j])
  <2>1. SUFFICES ASSUME NEW i \in DOMAIN all, NEW j \in DOMAIN all, i # j
                 PROVE  ~IsPrefix(all[i], all[j])
    OBVIOUS
  <2>2. CASE i \in DOMAIN waiting /\ all[i] = waiting[i]
    <3>1. CASE j \in DOMAIN waiting /\ all[j] = waiting[j]
      BY <1>1, <2>1, <2>2, <3>1 DEF Apart
    <3>2. CASE j - Len(waiting) \in DOMAIN new /\ all[j] = new[j - Len(waiting)]
      BY <1>6, <1>8, <2>2, <3>2
    <3> QED BY <1>7, <3>1, <3>2
  <2>3. CASE i - Len(waiting) \in DOMAIN new /\ all[i] = new[i - Len(waiting)]
    <3>1. CASE j \in DOMAIN waiting /\ all[j] = waiting[j]
      BY <1>6, <1>8, <2>3, <3>1
    <3>2. CASE j - Len(waiting) \in DOMAIN new /\ all[j] = new[j - Len(waiting)]
      <4>1. i - Len(waiting) # j - Len(waiting)
        BY <1>7, <2>1
      <4> QED BY <1>1, <1>5, <1>8, <2>3, <3>2, <4>1
    <3> QED BY <1>7, <3>1, <3>2
  <2> QED BY <1>7, <2>2, <2>3
<1>10. \A f \in found : f[1] \in entries /\ f[1] \notin dirs /\ f = <<f[1], tree[f[1]]>>
  OBVIOUS
<1> HIDE DEF found
<1>11. ASSUME NEW f \in F \union found, NEW i \in DOMAIN all
       PROVE  ~IsPrefix(all[i], f[1])
  <2>1. CASE i \in DOMAIN waiting /\ all[i] = waiting[i]
    BY <1>1, <1>6, <1>10, <2>1 DEF Apart
  <2>2. CASE i - Len(waiting) \in DOMAIN new /\ all[i] = new[i - Len(waiting)]
    BY <1>5, <1>6, <1>8, <1>10, <2>2
  <2> QED BY <1>7, <2>1, <2>2
<1>12. \A f, g \in F \union found : f[1] = g[1] => f = g
  BY <1>6, <1>10 DEF Apart
<1>13. Apart(all, F \union found)
  BY <1>9, <1>11, <1>12 DEF Apart
<1> QED BY <1>6, <1>13 DEF all, found, entries

LEMMA ListingCovers ==
  ASSUME RemoteAssumptions, IsTreeOf(tree), NEW t \in Threads, Always(t) \subseteq Current, NEW F,
         NEW P, NEW path, NEW waiting, NEW dirs, NEW new, ListsFolder(P, path, waiting, dirs, new),
         Covers(t, P, F)
  PROVE  Covers(t, waiting \o new,
                F \union {<<p, tree[p]>> : p \in Remote!Children(path) \ dirs})
<1> DEFINE all == waiting \o new
           found == {<<p, tree[p]>> : p \in Remote!Children(path) \ dirs}
<1>1. /\ path \in PathSet /\ waiting \in Seq(PathSet) /\ new \in Seq(PathSet)
      /\ \A i \in DOMAIN P : i \in DOMAIN waiting \/ P[i] = path
      /\ \A i \in DOMAIN waiting : waiting[i] = P[i]
      /\ \A d : d \in dirs <=> \E i \in DOMAIN new : new[i] = d
  BY ListingParts
<1>2. /\ \A i \in DOMAIN waiting : i \in DOMAIN all /\ all[i] = waiting[i]
      /\ \A i \in DOMAIN new : Len(waiting) + i \in DOMAIN all /\ all[Len(waiting) + i] = new[i]
  BY <1>1, WaitingAfter
<1> HIDE DEF all
<1>3. SUFFICES ASSUME NEW f \in Files(Always(t)), f \notin F
               PROVE  f \in found \/ \E i \in DOMAIN all : IsStrictPrefix(all[i], f[1])
  BY DEF Covers, all
<1>4. PICK i \in DOMAIN P : IsStrictPrefix(P[i], f[1])
  BY <1>3 DEF Covers
<1>5. f \in Current /\ f[2] # Dir
  BY <1>3 DEF Files
<1>6. f[1] \in DOMAIN tree /\ f = <<f[1], tree[f[1]]>>
  BY <1>5 DEF Current
<1>7. CASE i \in DOMAIN waiting
  BY <1>1, <1>2, <1>4, <1>7
<1>8. CASE P[i] = path
  <2>1. PICK e \in Remote!Children(path) : e = f[1] \/ (tree[e] = Dir /\ IsStrictPrefix(e, f[1]))
    BY <1>1, <1>4, <1>6, <1>8, EntryOnTheWay
  <2>2. dirs = {p \in Remote!Children(path) : tree[p] = Dir}
    BY DEF ListsFolder
  <2>3. CASE e = f[1]
    <3>1. f[1] \notin dirs
      BY <1>5, <1>6, <2>2
    <3> QED BY <1>6, <2>1, <2>3, <3>1
  <2>4. CASE tree[e] = Dir /\ IsStrictPrefix(e, f[1])
    <3>1. PICK j \in DOMAIN new : new[j] = e
      BY <1>1, <2>1, <2>2, <2>4
    <3> QED BY <1>2, <2>4, <3>1
  <2> QED BY <2>1, <2>3, <2>4
<1> QED BY <1>1, <1>7, <1>8

------------------------------------------------------------------------------

LEMMA SomeSequence ==
  ASSUME NEW S, IsFiniteSet(S) PROVE \E s : s \in SetToSeqs(S)
<1>1. Cardinality(S) \in Nat /\ ExistsBijection(1..Cardinality(S), S)
  BY FS_CardinalityType
<1>2. PICK s : s \in Bijection(1..Cardinality(S), S)
  BY <1>1 DEF ExistsBijection
<1>3. s \in [1..Cardinality(S) -> S] /\ \A i, j \in 1..Cardinality(S) : s[i] = s[j] => i = j
  BY <1>2 DEF Bijection, Injection, IsInjective
<1> QED BY <1>3 DEF SetToSeqs

LEMMA DisjointUnion ==
  ASSUME NEW A, NEW B, IsFiniteSet(A), IsFiniteSet(B), A \cap B = {}
  PROVE  /\ IsFiniteSet(A \cup B) /\ Cardinality(A \cup B) = Cardinality(A) + Cardinality(B)
         /\ Cardinality(A) \in Nat /\ Cardinality(B) \in Nat
<1>1. /\ IsFiniteSet(A \cup B)
      /\ Cardinality(A \cup B) = Cardinality(A) + Cardinality(B) - Cardinality(A \cap B)
  BY FS_Union
<1>2. Cardinality(A \cap B) = 0 /\ Cardinality(A) \in Nat /\ Cardinality(B) \in Nat
  BY FS_EmptySet, FS_CardinalityType
<1> QED BY <1>1, <1>2

\* As many files as there are paths of files, if each has one.
LEMMA PathsOfFiles ==
  ASSUME NEW F, IsFiniteSet({f[1] : f \in F}), \A f, g \in F : f[1] = g[1] => f = g
  PROVE  Cardinality({f[1] : f \in F}) = Cardinality(F)
<1> DEFINE A == {f[1] : f \in F}
           path == [f \in F |-> f[1]]
<1>1. path \in Injection(F, A) /\ path \in Surjection(F, A)
  BY DEF Injection, IsInjective, Surjection
<1> HIDE DEF path
<1> QED BY <1>1, FS_Injection

\* As many paths as a sequence that has none twice is long.
LEMMA PathsOfSequence ==
  ASSUME NEW S, NEW s \in Seq(S), IsFiniteSet(Range(s)),
         \A i, j \in DOMAIN s : s[i] = s[j] => i = j
  PROVE  Cardinality(Range(s)) = Len(s)
<1>1. Len(s) \in Nat /\ DOMAIN s = 1..Len(s) /\ s = [i \in 1..Len(s) |-> s[i]]
  OBVIOUS
<1>2. s \in Injection(1..Len(s), Range(s)) /\ s \in Surjection(1..Len(s), Range(s))
  BY <1>1 DEF Injection, IsInjective, Surjection, Range
<1>3. Cardinality(1..Len(s)) = Len(s)
  <2> DEFINE n == Len(s)
  <2>1. n \in Nat
    BY <1>1
  <2> HIDE DEF n
  <2>2. Cardinality(1..n) = IF 1 > n THEN 0 ELSE n - 1 + 1
    BY <2>1, FS_Interval
  <2>3. Cardinality(1..n) = n
    BY <2>1, <2>2
  <2> QED BY <2>3 DEF n
<1> QED BY <1>2, <1>3, FS_Injection

\* What is refused as too large: all that was counted has been below the destination.
LEMMA ListingCounts ==
  ASSUME RemoteAssumptions, IsTreeOf(tree), NEW t \in Threads, Current \subseteq Seen(t),
         Seen(t) \subseteq PossibleFacts, NEW F, F \subseteq Files(Seen(t)),
         NEW P, NEW path, NEW waiting, NEW dirs, NEW new, ListsFolder(P, path, waiting, dirs, new),
         Waiting(t, P), Apart(P, F), NEW entries, entries = Remote!Children(path)
  PROVE  Cardinality(F) + Len(waiting) + Cardinality(entries) <= Cardinality(Below(Seen(t)))
<1> DEFINE A == {f[1] : f \in F}
           B == Range(waiting)
           D == Below(Seen(t))
<1>1. IsFiniteSet(D) /\ D \subseteq Paths
  BY BelowIsFinite
<1>2. waiting \in Seq(PathSet) /\ \A i \in DOMAIN waiting : i \in DOMAIN P /\ waiting[i] = P[i]
  BY ListingParts
<1>3. A \subseteq D
  BY DEF Files, Below
<1>4. /\ \A p \in entries : p \in Below(Seen(t))
      /\ \A i \in DOMAIN waiting : waiting[i] \in Below(Seen(t))
  BY ListingWaits
<1>5. B \subseteq D /\ entries \subseteq D
  BY <1>4 DEF Range
<1>6. \A f \in F : f[1] \in PathSet
  BY <1>1, <1>3, PathsArePaths
<1>7. \A p \in entries : /\ \A f \in F : f[1] # p
                         /\ \A i \in DOMAIN waiting : waiting[i] # p
  BY <1>6, ListingApart
<1>8. \A f \in F : \A i \in DOMAIN waiting : f[1] # waiting[i]
  BY <1>2, <1>6, PrefixRules DEF Apart
<1>9. \A i, j \in DOMAIN waiting : waiting[i] = waiting[j] => i = j
  <2>1. SUFFICES ASSUME NEW i \in DOMAIN waiting, NEW j \in DOMAIN waiting, i # j
                 PROVE  waiting[i] # waiting[j]
    OBVIOUS
  <2>2. waiting[i] \in PathSet
    BY <1>2
  <2> QED BY <1>2, <2>1, <2>2, PrefixRules DEF Apart
<1>10. /\ IsFiniteSet(A) /\ IsFiniteSet(B) /\ IsFiniteSet(entries)
  BY <1>1, <1>3, <1>5, FS_Subset
<1>11. Cardinality(A) = Cardinality(F)
  BY <1>10, PathsOfFiles DEF Apart
<1>12. Cardinality(B) = Len(waiting)
  BY <1>2, <1>9, <1>10, PathsOfSequence
<1>13. A \cap B = {} /\ (A \cup B) \cap entries = {}
  BY <1>7, <1>8 DEF Range
<1> HIDE DEF A, B, D
<1>14. /\ IsFiniteSet(A \cup B) /\ Cardinality(A \cup B) = Cardinality(A) + Cardinality(B)
  BY <1>10, <1>13, DisjointUnion
<1>15. Cardinality((A \cup B) \cup entries) = Cardinality(A) + Cardinality(B) + Cardinality(entries)
  BY <1>10, <1>13, <1>14, DisjointUnion
<1>16. Cardinality((A \cup B) \cup entries) <= Cardinality(D)
  BY <1>1, <1>3, <1>5, FS_Subset
<1> QED BY <1>11, <1>12, <1>15, <1>16 DEF D

LEMMA SnapshotKeepsEnding ==
  ASSUME RemoteAssumptions, EnsureInv, SnapshotInv, NEW t \in Threads, Remote!SnapshotEnds(t)
  PROVE  SnapshotInv'
<1> DEFINE F == call[t].files
<1>1. /\ call[t].pc = "snapshot" /\ call[t].pending = <<>>
      /\ Remote!Become(t, [pc |-> "taken", files |-> F])
      /\ UNCHANGED <<tree, changes, faults, seen>>
  BY DEF Remote!SnapshotEnds
<1>2. /\ IsTreeOf(tree)' /\ \A u \in Threads : ViewGoesOn(u)
  BY <1>1, ViewsGoOn
<1>3. DOMAIN call = Threads /\ Snapping(t) /\ faults \in 0..MaxFaults
  BY DEF EnsureInv, SnapshotInv
<1>4. call'[t] = [pc |-> "taken", files |-> F] /\ \A u \in Threads \ {t} : call'[u] = call[u]
  BY <1>1, <1>3 DEF Remote!Become
<1>5. F \subseteq Files(Seen(t)) /\ Files(Always(t)) \subseteq F
  <2>1. F \subseteq Files(Seen(t)) /\ Covers(t, <<>>, F)
    BY <1>1, <1>3 DEF Snapping
  <2> QED BY <2>1 DEF Covers
<1> HIDE DEF F
<1>6. call'[t].pc = "taken" /\ call'[t].files = F
  BY <1>4
<1>7. Files(Always(t))' = Files(Always(t)) /\ Files(Seen(t))' = Files(Seen(t))
  BY <1>1 DEF Files, Always, Seen
<1>8. Snapping(t)'
  BY <1>2, <1>3, <1>5, <1>6, <1>7 DEF Snapping, ViewGoesOn
<1> QED BY <1>1, <1>2, <1>3, <1>4, <1>8, SnapshotAll

LEMMA SnapshotKeepsListing ==
  ASSUME RemoteAssumptions, EnsureInv, SnapshotInv, NEW t \in Threads, Remote!SnapshotLists(t)
  PROVE  SnapshotInv'
<1> DEFINE P == call[t].pending
           F == call[t].files
           path == Last(P)
           waiting == Front(P)
           entries == Remote!Children(path)
           dirs == {p \in entries : tree[p] = Dir}
           found == {<<p, tree[p]>> : p \in entries \ dirs}
           full == Remote!Full(Cardinality(F), Len(waiting), entries)
           ListsOn == \E new \in SetToSeqs(dirs) :
                       Remote!Become(t, [pc |-> "snapshot", pending |-> waiting \o new,
                                         files |-> F \union found])
           Stops == full /\ Remote!Become(t, [pc |-> "full"])
<1>1. /\ call[t].pc = "snapshot" /\ P # <<>>
      /\ ListsOn \/ Stops \/ Remote!Become(t, [pc |-> "untaken"])
      /\ UNCHANGED <<tree, changes, faults, seen>>
  BY SameTree DEF Remote!SnapshotLists, Remote!Pending
<1>2. /\ IsTreeOf(tree)' /\ \A u \in Threads : ViewGoesOn(u)
  BY <1>1, ViewsGoOn
<1>3. /\ DOMAIN call = Threads /\ Snapping(t) /\ faults \in 0..MaxFaults /\ IsTreeOf(tree)
      /\ Current \subseteq Seen(t)
  BY <1>1 DEF EnsureInv, SnapshotInv, Ensuring
<1>4. /\ Waiting(t, P) /\ P \in Seq(PathSet) /\ F \subseteq Files(Seen(t))
      /\ Covers(t, P, F) /\ Apart(P, F)
      /\ Always(t) \subseteq Current /\ Seen(t) \subseteq PossibleFacts
  BY <1>1, <1>3 DEF Snapping, Waiting
<1>5. \A f \in F : f[1] \in PathSet
  BY <1>4, PathsArePaths DEF PossibleFacts, Files
<1>6. \A new \in SetToSeqs(dirs) : ListsFolder(P, path, waiting, dirs, new)
  BY <1>1, <1>4 DEF ListsFolder
<1>7. ASSUME NEW state, Remote!Become(t, state),
             (state.pc = "full" /\ Cardinality(Below(Seen(t))) > MaxEntries) \/ state.pc = "untaken"
      PROVE  SnapshotInv'
  <2>1. call'[t] = state /\ \A u \in Threads \ {t} : call'[u] = call[u]
    BY <1>3, <1>7 DEF Remote!Become
  <2>2. Below(Seen(t))' = Below(Seen(t))
    BY <1>1 DEF Below, Seen
  <2>3. Snapping(t)'
    BY <1>2, <1>3, <1>7, <2>1, <2>2 DEF Snapping, ViewGoesOn
  <2> QED BY <1>1, <1>2, <1>3, <2>1, <2>3, SnapshotAll
<1>8. CASE ListsOn
  <2>1. PICK new \in SetToSeqs(dirs) :
          Remote!Become(t, [pc |-> "snapshot", pending |-> waiting \o new,
                            files |-> F \union found])
    BY <1>8
  <2>2. ListsFolder(P, path, waiting, dirs, new)
    BY <1>6
  <2> HIDE DEF P, F, path, waiting, dirs
  <2>3. Waiting(t, waiting \o new)
    BY <1>3, <1>4, <2>2, ListingWaits
  <2>4. Apart(waiting \o new, F \union found)
    BY <1>3, <1>4, <1>5, <2>2, ListingApart
  <2>5. Covers(t, waiting \o new, F \union found)
    BY <1>3, <1>4, <2>2, ListingCovers
  <2>6. F \union found \subseteq Files(Seen(t))
    <3>1. \A p \in entries : p \in DOMAIN tree /\ IsStrictPrefix(Destination, p)
      BY <1>3, <1>4, <2>2, ListingWaits DEF Remote!Children
    <3>2. \A p \in entries \ dirs : <<p, tree[p]>> \in Seen(t) /\ tree[p] # Dir
      BY <1>3, <3>1 DEF Current, dirs
    <3>3. found \subseteq Files(Seen(t))
      BY <3>1, <3>2 DEF Files
    <3> QED BY <1>4, <3>3
  <2> DEFINE all == waiting \o new
             taken == F \union found
  <2>7. Remote!Become(t, [pc |-> "snapshot", pending |-> all, files |-> taken])
    BY <2>1
  <2> HIDE DEF all, taken, found, entries
  <2>8. /\ call'[t] = [pc |-> "snapshot", pending |-> all, files |-> taken]
        /\ \A u \in Threads \ {t} : call'[u] = call[u]
    BY <1>3, <2>7 DEF Remote!Become
  <2>9. call'[t].pc = "snapshot" /\ call'[t].pending = all /\ call'[t].files = taken
    BY <2>8
  <2>10. /\ Waiting(t, all) /\ Apart(all, taken) /\ Covers(t, all, taken)
         /\ taken \subseteq Files(Seen(t))
    BY <2>3, <2>4, <2>5, <2>6 DEF all, taken
  <2>11. /\ Waiting(t, call[t].pending)' /\ Covers(t, call[t].pending, call[t].files)'
         /\ Apart(call[t].pending, call[t].files)' /\ (call[t].files \subseteq Files(Seen(t)))'
    <3>1. seen' = seen
      BY <1>1
    <3>2. Waiting(t, call[t].pending)' /\ (call[t].files \subseteq Files(Seen(t)))'
      BY <2>9, <2>10, <3>1 DEF Waiting, Below, Files, Seen
    <3>3. Covers(t, call[t].pending, call[t].files)'
      BY <2>9, <2>10, <3>1 DEF Covers, Files, Always
    <3>4. Apart(call[t].pending, call[t].files)'
      BY <2>9, <2>10
    <3> QED BY <3>2, <3>3, <3>4
  <2>12. Snapping(t)'
    BY <1>2, <2>9, <2>11, <1>3 DEF Snapping, ViewGoesOn
  <2> QED BY <1>1, <1>2, <1>3, <2>8, <2>12, SnapshotAll
<1>9. CASE Stops
  <2>1. Cardinality(F) + Len(waiting) + Cardinality(entries) > MaxEntries
    BY <1>9, SameTree DEF Remote!Full
  <2>2. IsFiniteSet(dirs)
    <3>1. dirs \subseteq Paths
      BY <1>3 DEF Remote!Children, IsTreeOf
    <3> QED BY <3>1, PathsArePaths, FS_Subset
  <2>3. PICK new : new \in SetToSeqs(dirs)
    BY <2>2, SomeSequence
  <2>4. ListsFolder(P, path, waiting, dirs, new)
    BY <1>6, <2>3
  <2>5. Cardinality(F) + Len(waiting) + Cardinality(entries) <= Cardinality(Below(Seen(t)))
    <3> HIDE DEF P, F, waiting, dirs, path
    <3> QED BY <1>3, <1>4, <2>4, ListingCounts
  <2>6. Cardinality(Below(Seen(t))) > MaxEntries
    <3>1. /\ MaxEntries \in Nat /\ Cardinality(Below(Seen(t))) \in Nat
      BY <1>4, BelowIsFinite, FS_CardinalityType DEF RemoteAssumptions, Remote!BoundsAssumption
    <3>2. Cardinality(F) \in Nat /\ Len(waiting) \in Nat /\ Cardinality(entries) \in Nat
      <4>1. entries \subseteq Paths
        BY <1>3 DEF Remote!Children, IsTreeOf
      <4>2. IsFiniteSet(entries)
        BY <4>1, PathsArePaths, FS_Subset
      <4>3. {f[1] : f \in F} \subseteq Below(Seen(t))
        BY <1>4 DEF Files, Below
      <4>4. Cardinality(F) = Cardinality({f[1] : f \in F}) /\ IsFiniteSet({f[1] : f \in F})
        BY <1>4, <4>3, BelowIsFinite, FS_Subset, PathsOfFiles DEF Apart
      <4>5. Len(waiting) \in Nat
        BY <1>1, <1>4, LastAndRest
      <4> QED BY <4>2, <4>4, <4>5, FS_CardinalityType
    <3> QED BY <2>1, <2>5, <3>1, <3>2
  <2> QED BY <1>7, <1>9, <2>6
<1>10. CASE Remote!Become(t, [pc |-> "untaken"])
  BY <1>7, <1>10
<1> QED BY <1>1, <1>8, <1>9, <1>10

LEMMA SnapshotInductive ==
  ASSUME RemoteAssumptions, EnsureInv, SnapshotInv, [Remote!Next]_(Remote!vars)
  PROVE  SnapshotInv'
<1>1. CASE UNCHANGED Remote!vars
  <2>1. UNCHANGED <<tree, call, changes, faults, seen>>
    BY <1>1 DEF Remote!vars
  <2>2. IsTreeOf(tree)' /\ \A t \in Threads : ViewGoesOn(t)
    BY <2>1, ViewsGoOn DEF IsTreeOf, SnapshotInv
  <2>3. \A t \in Threads : Snapping(t)'
    BY <2>1, <2>2, SnapshotGoesOn DEF SnapshotInv, ViewGoesOn
  <2> QED BY <2>1, <2>2, <2>3 DEF SnapshotInv
<1>2. CASE Remote!Next
  <2>1. CASE Remote!Change
    <3>1. changes < MaxChanges /\ changes' = changes + 1 /\ UNCHANGED <<call, faults>>
      BY <2>1 DEF Remote!Change
    <3>2. IsTreeOf(tree)' /\ \A t \in Threads : ViewGoesOn(t)
      <4>1. PICK new : Remote!Becomes(new) /\ IsTreeOf(new)
        BY <2>1, UsersKeepTree DEF SnapshotInv, TreeIsNew
      <4>2. IsTreeOf(tree)'
        BY <4>1 DEF Remote!Becomes, IsTreeOf
      <4>3. TreeIsNew
        BY <4>1 DEF TreeIsNew
      <4> QED BY <4>2, <4>3, ViewsGoOn
    <3>3. \A t \in Threads : Snapping(t)'
      BY <3>1, <3>2, SnapshotGoesOn DEF SnapshotInv, ViewGoesOn
    <3>4. changes' \in 0..MaxChanges
      BY <3>1 DEF SnapshotInv, RemoteAssumptions, Remote!BoundsAssumption
    <3> QED BY <3>1, <3>2, <3>3, <3>4 DEF SnapshotInv
  <2>2. ASSUME NEW t \in Threads,
               \/ Remote!EnsureBegins(t) \/ Remote!EnsureLists(t) \/ Remote!EnsureCreates(t)
               \/ Remote!EnsureChecks(t) \/ Remote!SnapshotBegins(t)
               \/ Remote!SnapshotLists(t) \/ Remote!SnapshotEnds(t) \/ Remote!CallFails(t)
        PROVE  SnapshotInv'
    <3>1. CASE Remote!EnsureBegins(t) \/ Remote!SnapshotBegins(t)
      BY <3>1, SnapshotKeepsBeginning
    <3>2. CASE \/ Remote!EnsureLists(t) \/ Remote!EnsureCreates(t) \/ Remote!EnsureChecks(t)
               \/ Remote!CallFails(t)
      BY <3>2, SnapshotKeepsOthers
    <3>3. CASE Remote!SnapshotLists(t)
      BY <3>3, SnapshotKeepsListing
    <3>4. CASE Remote!SnapshotEnds(t)
      BY <3>4, SnapshotKeepsEnding
    <3> QED BY <2>2, <3>1, <3>2, <3>3, <3>4
  <2> QED BY <1>2, <2>1, <2>2 DEF Remote!Next
<1> QED BY <1>1, <1>2

LEMMA SnapshotInvariant == RemoteAssumptions /\ Remote!Spec => [](EnsureInv /\ SnapshotInv)
<1>1. RemoteAssumptions => []RemoteAssumptions
  OBVIOUS
<1>2. RemoteAssumptions /\ EnsureInv /\ SnapshotInv /\ [Remote!Next]_(Remote!vars)
        => EnsureInv' /\ SnapshotInv'
  BY EnsureInductive, SnapshotInductive
<1> QED BY <1>1, <1>2, EnsureInitially, SnapshotInitially, PTL DEF Remote!Spec

\* clouddrive.py, ensure_destination: when it returns, every folder on the way has been
\* there; when it fails, for a cause outside or because a folder on the way has held more
\* entries than the limit, not for another thread that makes the same folders below it.
THEOREM EnsureIsHonestAlways == RemoteAssumptions /\ Remote!Spec => []EnsureIsHonest
<1>1. ASSUME RemoteAssumptions, EnsureInv, SnapshotInv PROVE EnsureIsHonest
  <2>1. DOMAIN Components = 1..Steps
    BY <1>1, FoldersOnTheWay
  <2>2. ASSUME NEW t \in Threads, Overfull(t)
        PROVE  \E i \in 1..Steps : Cardinality(Beside(Seen(t), Components[i])) > MaxEntries
    <3>1. PICK i \in 1..Steps :
            \E S \in SUBSET Beside(Seen(t), Components[i]) : Cardinality(S) > MaxEntries
      BY <2>2 DEF Overfull
    <3> DEFINE all == Beside(Seen(t), Components[i])
    <3>2. PICK S \in SUBSET all : Cardinality(S) > MaxEntries
      BY <3>1
    <3>3. all \subseteq Paths
      BY <1>1 DEF Beside, SnapshotInv, Snapping, PossibleFacts
    <3> HIDE DEF all
    <3>4. IsFiniteSet(all)
      BY <1>1, <3>3, PathsArePaths, FS_Subset
    <3>5. /\ IsFiniteSet(S) /\ Cardinality(S) <= Cardinality(all)
          /\ Cardinality(S) \in Nat /\ Cardinality(all) \in Nat
      BY <3>4, FS_Subset, FS_CardinalityType
    <3>6. Cardinality(all) > MaxEntries
      BY <1>1, <3>2, <3>5 DEF RemoteAssumptions, Remote!BoundsAssumption
    <3> QED BY <3>6 DEF all
  <2>3. ASSUME NEW t \in Threads
        PROVE  /\ call[t].pc = "ensured" => \A i \in 1..Steps : <<Components[i], Dir>> \in Seen(t)
               /\ call[t].pc = "unensured" =>
                    \/ changes > 0 \/ faults > 0
                    \/ \E i \in 1..Steps :
                         \/ \E f \in Seen(t) : f[1] = Components[i] /\ f[2] # Dir
                         \/ Cardinality(Beside(Seen(t), Components[i])) > MaxEntries
    BY <1>1, <2>2 DEF EnsureInv, Ensuring, HasCause
  <2> QED BY <1>1, <2>1, <2>3 DEF EnsureInv, EnsureIsHonest, Seen
<1>2. RemoteAssumptions => []RemoteAssumptions
  OBVIOUS
<1> QED BY <1>1, <1>2, SnapshotInvariant, PTL

\* clouddrive.py, snapshot: a file that stays is in the snapshot, and nothing is that was
\* not there, whatever else happens while the directories are listed; a destination is
\* refused as too large only if more than the limit has been below it.
THEOREM SnapshotsAreSoundAlways == RemoteAssumptions /\ Remote!Spec => []SnapshotsAreSound
<1>1. ASSUME EnsureInv, SnapshotInv PROVE SnapshotsAreSound
  BY <1>1 DEF EnsureInv, SnapshotInv, Snapping, SnapshotsAreSound, Seen, Always
<1> QED BY <1>1, SnapshotInvariant, PTL

\* The tree is one, its history is of entries a tree may have, and a call has folders to make.
THEOREM RemoteTypes == RemoteAssumptions /\ Remote!Spec => []Remote!TypeOK
<1>1. ASSUME RemoteAssumptions, EnsureInv, SnapshotInv PROVE Remote!TypeOK
  <2>1. Remote!IsTree(tree) /\ changes \in 0..MaxChanges /\ faults \in 0..MaxFaults
    BY <1>1, SameIsTree DEF SnapshotInv
  <2>2. Remote!FactSet = PossibleFacts
    BY SameTree DEF Remote!FactSet, PossibleFacts, Entries
  <2>3. ASSUME NEW t \in Threads
        PROVE  /\ seen[t].always \subseteq seen[t].ever /\ seen[t].ever \subseteq PossibleFacts
               /\ call[t].pc \in {"snapshot", "taken"} => call[t].files \subseteq PossibleFacts
               /\ call[t].pc \in {"list", "create", "check"} => call[t].todo # <<>>
    <3>1. Snapping(t) /\ Ensuring(t)
      BY <1>1 DEF SnapshotInv, EnsureInv
    <3>2. ASSUME call[t].pc \in {"list", "create", "check"} PROVE call[t].todo # <<>>
      <4>1. PICK k \in 1..Steps : At(t, k)
        BY <3>1, <3>2 DEF Ensuring
      <4>2. call[t].todo = SubSeq(Components, k, Steps)
        BY <4>1 DEF At
      <4>3. /\ Steps \in Nat /\ Components \in Seq(PathSet) /\ Len(Components) = Steps
        BY <1>1, FoldersOnTheWay
      <4>4. Len(SubSeq(Components, k, Steps)) = Steps - k + 1
        <5>1. k \in Int /\ Steps \in Int /\ \A i \in k..Steps : Components[i] \in PathSet
          BY <4>3
        <5>2. Len(SubSeq(Components, k, Steps)) = IF k <= Steps THEN Steps - k + 1 ELSE 0
          BY <5>1, SubSeqProperties
        <5> QED BY <5>2, <4>3
      <4> DEFINE s == SubSeq(Components, k, Steps)
      <4>5. Len(s) > 0 /\ Len(<<>>) = 0
        BY <4>3, <4>4
      <4> HIDE DEF s
      <4>6. s # <<>>
        BY <4>5
      <4> QED BY <4>2, <4>6 DEF s
    <3>3. \A a : Files(a) \subseteq a
      BY DEF Files
    <3> QED BY <3>1, <3>2, <3>3 DEF Snapping, Seen, Always
  <2> QED BY <2>1, <2>2, <2>3 DEF Remote!TypeOK
<1>2. RemoteAssumptions => []RemoteAssumptions
  OBVIOUS
<1> QED BY <1>1, <1>2, SnapshotInvariant, PTL

------------------------------------------------------------------------------
(***************************************************************************)
(* The migration of the database, when no two processes migrate it at      *)
(* once.  The invariant: what a migration has left behind it of its steps. *)
(***************************************************************************)

DatabaseAssumptions == Database!KeepAssumption /\ Database!BoundsAssumption

\* migrate_database excludes nobody: that one process migrates at a time is up to
\* those who start them.
OneMigrates ==
  \A p, q \in Processes : Database!Migrating(p) /\ Database!Migrating(q) => p = q

ProcessKinds ==
  [pc : {"off", "refused", "open", "backup", "fill", "prune", "copy", "upgrade", "finish",
         "replace"},
   name : 0..MaxTime]
FileKinds == [rev : {"none", "old", "new", "future"}, data : 0..MaxWrites, whole : BOOLEAN]

BackedUp == \E s \in DOMAIN backups : backups[s] = file
IsNewest(s) == s \in DOMAIN backups /\ \A r \in DOMAIN backups : r <= s
Few == Cardinality(DOMAIN backups) <= Keep

Migration(p) ==
  /\ process[p].pc \in {"fill", "prune"} => IsNewest(process[p].name)
  /\ process[p].pc = "prune" => backups[process[p].name] = file
  /\ process[p].pc \in {"backup", "fill", "prune"} => file.rev = "old"
  /\ process[p].pc \in {"copy", "upgrade", "finish", "replace"} =>
       file.rev \in {"none", "old"} /\ Few /\ (file.rev = "old" => BackedUp)
  /\ process[p].pc = "upgrade" => work[p] = file
  /\ process[p].pc = "finish" => work[p].data = file.data
  /\ process[p].pc = "replace" => work[p].data = file.data /\ work[p].rev = "new" /\ work[p].whole
  /\ process[p].pc = "open" => file.rev = "new"

DatabaseInv ==
  /\ now \in 0..MaxTime /\ faults \in 0..MaxFaults
  /\ file \in FileKinds /\ file.whole
  /\ DOMAIN backups \subseteq 0..now /\ \A s \in DOMAIN backups : backups[s] \in FileKinds
  /\ work \in [Processes -> FileKinds]
  /\ process \in [Processes -> ProcessKinds]
  /\ file.rev = "none" => DOMAIN backups = {}
  /\ file.rev = "new" => Few
  /\ \A p \in Processes : Migration(p)

LEMMA DatabaseBounds ==
  ASSUME DatabaseAssumptions
  PROVE  /\ Keep \in Nat \ {0} /\ MaxTime \in Nat /\ MaxWrites \in Nat \ {0} /\ MaxFaults \in Nat
         /\ Database!Latest = "new"
         /\ \A S : Database!Cardinality(S) = Cardinality(S)
<1>1. Keep \in Nat \ {0} /\ MaxTime \in Nat /\ MaxFaults \in Nat
  BY DEF DatabaseAssumptions, Database!KeepAssumption, Database!BoundsAssumption
<1>2. MaxWrites \in Nat \ {0}
  BY DEF DatabaseAssumptions, Database!BoundsAssumption
<1>3. \A S : Database!Cardinality(S) = Cardinality(S)
  BY DEF Database!Cardinality, Cardinality
<1> QED BY <1>1, <1>2, <1>3 DEF Database!Latest

\* Of the newest n there are no more than n.
LEMMA NewestAreFew ==
  ASSUME NEW D, D \subseteq Nat, IsFiniteSet(D), NEW n \in Nat \ {0}, NEW N,
         N = {s \in D : Cardinality({r \in D : r > s}) < n}
  PROVE  Cardinality(N) <= n /\ IsFiniteSet(N)
<1>1. N \subseteq D /\ IsFiniteSet(N) /\ Cardinality(N) \in Nat
  <2>1. N \in SUBSET D
    OBVIOUS
  <2>2. IsFiniteSet(N)
    BY <2>1, FS_Subset
  <2> QED BY <2>1, <2>2, FS_CardinalityType
<1>2. CASE N = {}
  <2>1. Cardinality(N) = 0
    BY <1>1, <1>2, FS_EmptySet
  <2> QED BY <1>1, <2>1
<1>3. CASE N # {}
  <2>1. PICK m \in N : \A s \in N : m <= s
    BY <1>1, <1>3, LeastNumber
  <2> DEFINE above == {r \in D : r > m}
  <2>2. Cardinality(above) < n /\ IsFiniteSet(above) /\ Cardinality(above) \in Nat
    <3>1. above \in SUBSET D /\ Cardinality(above) < n
      BY <2>1
    <3>2. IsFiniteSet(above)
      BY <3>1, FS_Subset
    <3> QED BY <3>1, <3>2, FS_CardinalityType
  <2>3. ASSUME NEW s \in N \ {m} PROVE s \in above
    <3>1. s \in D /\ s \in Nat /\ m \in Nat /\ m <= s /\ s # m
      BY <1>1, <2>1
    <3> QED BY <3>1
  <2>4. Cardinality(N \ {m}) = Cardinality(N) - 1
    BY <1>1, <2>1, FS_RemoveElement
  <2>5. Cardinality(N \ {m}) <= Cardinality(above)
    <3>1. N \ {m} \in SUBSET above
      BY <2>3
    <3> QED BY <2>2, <3>1, FS_Subset
  <2> HIDE DEF above
  <2> QED BY <1>1, <2>2, <2>4, <2>5
<1> QED BY <1>2, <1>3

\* What a step of the process leaves: its place, what it knows, and the files.
LEMMA ProcessGoes ==
  ASSUME DatabaseInv, NEW p \in Processes, NEW pc, Database!Go(p, pc),
         pc \in {"off", "refused", "open", "backup", "fill", "prune", "copy", "upgrade",
                 "finish", "replace"}
  PROVE  /\ process' \in [Processes -> ProcessKinds]
         /\ process'[p].pc = pc /\ process'[p].name = process[p].name
<1>1. process' = [process EXCEPT ![p].pc = pc] /\ process \in [Processes -> ProcessKinds]
  BY DEF Database!Go, DatabaseInv
<1>2. process'[p] = [process[p] EXCEPT !.pc = pc] /\ process[p] \in ProcessKinds
  BY <1>1
<1>3. process'[p] \in ProcessKinds /\ process'[p].pc = pc /\ process'[p].name = process[p].name
  BY <1>2 DEF ProcessKinds
<1>4. \A q \in Processes : q # p => process'[q] = process[q]
  BY <1>1
<1>5. process' \in [Processes -> ProcessKinds]
  BY <1>1, <1>3, <1>4
<1> QED BY <1>3, <1>5

LEMMA DatabaseInitially ==
  ASSUME DatabaseAssumptions, Database!Init PROVE DatabaseInv
<1>1. Keep \in Nat \ {0} /\ MaxTime \in Nat /\ MaxWrites \in Nat \ {0} /\ MaxFaults \in Nat
  BY DatabaseBounds
<1>2. /\ now = 0 /\ faults = 0 /\ DOMAIN backups = {}
      /\ work = [p \in Processes |-> [rev |-> "none", data |-> 0, whole |-> FALSE]]
      /\ process = [p \in Processes |-> [pc |-> "off", name |-> 0]]
  BY DEF Database!Init, Database!NoWork, Database!Off
<1>3. file \in FileKinds /\ file.whole /\ file.rev # "new"
  <2>1. file \in {[rev |-> "none", data |-> 0, whole |-> TRUE]}
                 \union {[rev |-> r, data |-> 1, whole |-> TRUE] : r \in {"old", "future"}}
    BY DEF Database!Init, Database!NoFile
  <2>2. PICK r \in {"none", "old", "future"}, d \in {0, 1} :
          file = [rev |-> r, data |-> d, whole |-> TRUE]
    BY <2>1
  <2>3. d \in 0..MaxWrites
    BY <1>1
  <2>4. file \in FileKinds
    BY <2>2, <2>3 DEF FileKinds
  <2> QED BY <2>2, <2>4
<1>4. work \in [Processes -> FileKinds] /\ process \in [Processes -> ProcessKinds]
  BY <1>1, <1>2 DEF FileKinds, ProcessKinds
<1>5. \A p \in Processes : process[p].pc = "off"
  BY <1>2
<1> QED BY <1>1, <1>2, <1>3, <1>4, <1>5 DEF DatabaseInv, Migration

\* A process that is away from the migration needs the file of the revision it opened.
LEMMA AwayStays ==
  ASSUME DatabaseInv, OneMigrates, NEW p \in Processes, Database!Migrating(p),
         NEW q \in Processes, q # p, process'[q] = process[q],
         file'.rev = file.rev \/ file'.rev = "new"
  PROVE  Migration(q)'
<1>1. process[q].pc \in {"off", "refused", "open"}
  BY DEF OneMigrates, Database!Migrating
<1>2. process[q].pc = "open" => file.rev = "new"
  BY DEF DatabaseInv, Migration
<1> QED BY <1>1, <1>2 DEF Migration

\* A process keeps what it knows while others touch no file that matters to it.
LEMMA UntouchedStays ==
  ASSUME DatabaseInv, NEW q \in Processes, process'[q] = process[q],
         UNCHANGED <<file, backups>>, work'[q] = work[q]
  PROVE  Migration(q)'
BY DEF DatabaseInv, Migration, IsNewest, BackedUp, Few

\* The processes that do not move stay where they are.
LEMMA OthersStay ==
  ASSUME DatabaseInv, NEW p \in Processes, NEW q \in Processes, q # p
  PROVE  /\ \A pc : Database!Go(p, pc) => process'[q] = process[q]
         /\ \A r : process' = [process EXCEPT ![p] = r] => process'[q] = process[q]
         /\ \A w : work' = [work EXCEPT ![p] = w] => work'[q] = work[q]
BY DEF DatabaseInv, Database!Go

\* The file stays, or takes what may replace it.
FileIsSafe ==
  /\ file'.data >= file.data
  /\ file.rev = "old" /\ file'.rev = "new" => BackedUp

\* What AtomicUpgrade sees of the file.
Revision == IF file.whole THEN file.rev ELSE "half"

LEMMA FileStays ==
  ASSUME DatabaseInv, file' = file
  PROVE  FileIsSafe /\ [Atomic!Next]_<<Revision, file.data>>
<1>1. file.data \in Nat
  BY DEF DatabaseInv, FileKinds
<1> QED BY <1>1 DEF FileIsSafe, Revision

\* Steps of the process that touch no file.
LEMMA DatabaseKeepsStart ==
  ASSUME DatabaseAssumptions, DatabaseInv, NEW p \in Processes, Database!Start(p)
  PROVE  DatabaseInv'
<1>1. /\ Database!Go(p, Database!StepFor(file.rev))
      /\ UNCHANGED <<now, file, backups, work, faults>>
  BY DEF Database!Start
<1>2. file.rev \in {"none", "old", "new", "future"} /\ Database!Latest = "new" /\ Keep \in Nat
  BY DatabaseBounds DEF DatabaseInv, FileKinds
<1>3. Database!StepFor(file.rev) =
        IF file.rev = "future" THEN "refused" ELSE IF file.rev = "new" THEN "open"
        ELSE IF file.rev = "old" THEN "backup" ELSE "copy"
  BY <1>2 DEF Database!StepFor
<1> DEFINE pc == Database!StepFor(file.rev)
<1>4. /\ pc \in {"refused", "open", "backup", "copy"}
      /\ pc = "open" => file.rev = "new"
      /\ pc = "backup" => file.rev = "old"
      /\ pc = "copy" => file.rev = "none"
  BY <1>2, <1>3
<1> HIDE DEF pc
<1>5. process' \in [Processes -> ProcessKinds] /\ process'[p].pc = pc
  BY <1>1, <1>4, ProcessGoes DEF pc
<1>6. file.rev = "none" => Few
  BY <1>2, FS_EmptySet DEF DatabaseInv, Few
<1>7. Migration(p)'
  BY <1>1, <1>4, <1>5, <1>6 DEF Migration, Few
<1>8. \A q \in Processes : Migration(q)'
  BY <1>1, <1>7, OthersStay, UntouchedStays
<1> QED BY <1>1, <1>5, <1>8 DEF DatabaseInv, Few

LEMMA DatabaseKeepsBackup ==
  ASSUME DatabaseAssumptions, DatabaseInv, OneMigrates, NEW p \in Processes,
         Database!BackupBegins(p) \/ Database!BackupEnds(p)
  PROVE  DatabaseInv'
<1>1. UNCHANGED <<now, file, work, faults>>
  BY DEF Database!BackupBegins, Database!BackupEnds
<1>2. /\ now \in 0..MaxTime /\ DOMAIN backups \subseteq 0..now /\ file \in FileKinds
      /\ \A s \in DOMAIN backups : backups[s] \in FileKinds
      /\ process \in [Processes -> ProcessKinds] /\ Migration(p) /\ MaxTime \in Nat
      /\ MaxWrites \in Nat
  BY DatabaseBounds DEF DatabaseInv
<1>3. CASE Database!BackupBegins(p)
  <2> DEFINE none == Database!NoWork
             b == [s \in DOMAIN backups \union {now} |-> IF s = now THEN none ELSE backups[s]]
             here == [pc |-> "fill", name |-> now]
  <2>1. /\ process[p].pc = "backup" /\ backups' = b /\ process' = [process EXCEPT ![p] = here]
    BY <1>3 DEF Database!BackupBegins
  <2>2. none \in FileKinds
    BY <1>2 DEF Database!NoWork, FileKinds
  <2>3. here \in ProcessKinds /\ here.pc = "fill" /\ here.name = now
    BY <1>2 DEF ProcessKinds
  <2> HIDE DEF none, here
  <2>4. /\ \A s : s \in DOMAIN backups' <=> s \in DOMAIN backups \/ s = now
        /\ \A s \in DOMAIN backups' : backups'[s] \in FileKinds
    BY <1>2, <2>1, <2>2
  <2>5. process' \in [Processes -> ProcessKinds] /\ process'[p] = here
    BY <1>2, <2>1, <2>3
  <2>6. IsNewest(now)' /\ DOMAIN backups' \subseteq 0..now
    BY <1>1, <1>2, <2>4 DEF IsNewest
  <2>7. file.rev = "old"
    BY <1>2, <2>1 DEF Migration
  <2>8. Migration(p)'
    BY <1>1, <2>3, <2>5, <2>6, <2>7 DEF Migration, IsNewest
  <2>9. \A q \in Processes : Migration(q)'
    <3>1. Database!Migrating(p)
      BY <2>1 DEF Database!Migrating
    <3> QED BY <1>1, <2>1, <2>8, <3>1, OthersStay, AwayStays
  <2> QED BY <1>1, <2>4, <2>5, <2>6, <2>7, <2>9 DEF DatabaseInv
<1>4. CASE Database!BackupEnds(p)
  <2> DEFINE name == process[p].name
             b == [s \in DOMAIN backups |-> IF s = name THEN file ELSE backups[s]]
  <2>1. process[p].pc = "fill" /\ backups' = b /\ Database!Go(p, "prune")
    BY <1>4 DEF Database!BackupEnds
  <2>2. IsNewest(name) /\ file.rev = "old"
    BY <1>2, <2>1 DEF Migration
  <2>3. /\ DOMAIN backups' = DOMAIN backups /\ backups'[name] = file
        /\ \A s \in DOMAIN backups' : backups'[s] \in FileKinds
    BY <1>2, <2>1, <2>2 DEF IsNewest
  <2>4. /\ process' \in [Processes -> ProcessKinds]
        /\ process'[p].pc = "prune" /\ process'[p].name = name
    BY <2>1, ProcessGoes
  <2> HIDE DEF name
  <2>5. Migration(p)'
    BY <1>1, <2>2, <2>3, <2>4 DEF Migration, IsNewest
  <2>6. \A q \in Processes : Migration(q)'
    <3>1. Database!Migrating(p)
      BY <2>1 DEF Database!Migrating
    <3> QED BY <1>1, <2>1, <2>5, <3>1, OthersStay, AwayStays
  <2> QED BY <1>1, <2>2, <2>3, <2>4, <2>6 DEF DatabaseInv
<1> QED BY <1>3, <1>4

LEMMA DatabaseKeepsPrune ==
  ASSUME DatabaseAssumptions, DatabaseInv, OneMigrates, NEW p \in Processes, Database!Prune(p)
  PROVE  DatabaseInv'
<1> DEFINE D == DOMAIN backups
           N == Database!Newest(Keep)
           name == process[p].name
<1>1. /\ process[p].pc = "prune" /\ backups' = [s \in N |-> backups[s]] /\ Database!Go(p, "copy")
      /\ UNCHANGED <<now, file, work, faults>>
  BY DEF Database!Prune
<1>2. /\ Keep \in Nat \ {0} /\ N = {s \in D : Cardinality({r \in D : r > s}) < Keep}
  BY DatabaseBounds DEF Database!Newest
<1>3. /\ now \in Nat /\ D \subseteq 0..now /\ \A s \in D : backups[s] \in FileKinds
      /\ Migration(p) /\ process \in [Processes -> ProcessKinds]
  BY DatabaseBounds DEF DatabaseInv
<1>4. D \subseteq Nat /\ IsFiniteSet(D)
  <2>1. IsFiniteSet(0..now)
    BY <1>3, FS_Interval
  <2>2. D \in SUBSET (0..now)
    BY <1>3
  <2> QED BY <1>3, <2>1, <2>2, FS_Subset
<1>5. name \in D /\ (\A r \in D : r <= name) /\ backups[name] = file /\ file.rev = "old"
  BY SMTT(30), <1>1, <1>3 DEF Migration, IsNewest
<1> HIDE DEF D, N, name
<1>6. Cardinality(N) <= Keep /\ N \subseteq D
  BY <1>2, <1>4, NewestAreFew
<1>7. name \in N
  <2>1. \A r \in D : ~(r > name)
    BY <1>4, <1>5
  <2>2. Cardinality({r \in D : r > name}) = 0
    BY <2>1, FS_EmptySet
  <2> QED BY <1>2, <1>5, <2>2
<1>8. DOMAIN backups' = N /\ \A s \in N : backups'[s] = backups[s]
  BY <1>1
<1>9. /\ process' \in [Processes -> ProcessKinds] /\ process'[p].pc = "copy"
  BY <1>1, ProcessGoes
<1>10. Few' /\ BackedUp'
  BY <1>1, <1>5, <1>6, <1>7, <1>8 DEF Few, BackedUp
<1>11. Migration(p)'
  BY <1>1, <1>5, <1>9, <1>10 DEF Migration
<1>12. \A q \in Processes : Migration(q)'
  <2>1. Database!Migrating(p)
    BY <1>1 DEF Database!Migrating
  <2> QED BY <1>1, <1>11, <2>1, OthersStay, AwayStays
<1>13. DOMAIN backups' \subseteq 0..now /\ \A s \in DOMAIN backups' : backups'[s] \in FileKinds
  BY <1>3, <1>6, <1>8 DEF D
<1> QED BY <1>1, <1>5, <1>9, <1>10, <1>12, <1>13 DEF DatabaseInv

\* What changes is the working copy and the place of the process.
LEMMA DatabaseKeepsWorking ==
  ASSUME DatabaseAssumptions, DatabaseInv, OneMigrates, NEW p \in Processes,
         \/ Database!Copy(p) \/ Database!UpgradeBegins(p) \/ Database!UpgradeEnds(p)
  PROVE  DatabaseInv'
<1>1. UNCHANGED <<now, file, backups, faults>>
  BY DEF Database!Copy, Database!UpgradeBegins, Database!UpgradeEnds
<1>2. PICK copy \in FileKinds, pc \in {"upgrade", "finish", "replace"} :
        /\ work' = [work EXCEPT ![p] = copy] /\ Database!Go(p, pc)
        /\ process[p].pc \in {"copy", "upgrade", "finish"}
        /\ pc = "upgrade" => copy = file
        /\ pc = "finish" => copy.data = file.data
        /\ pc = "replace" => copy.data = file.data /\ copy.rev = "new" /\ copy.whole
  <2>1. file \in FileKinds /\ work[p] \in FileKinds /\ work \in [Processes -> FileKinds] /\ Migration(p)
    BY DEF DatabaseInv
  <2>2. CASE Database!Copy(p)
    BY <2>1, <2>2 DEF Database!Copy
  <2>3. CASE Database!UpgradeBegins(p)
    <3> DEFINE copy == [work[p] EXCEPT !.whole = FALSE]
    <3>1. /\ work' = [work EXCEPT ![p] = copy] /\ Database!Go(p, "finish")
          /\ process[p].pc = "upgrade"
      BY <2>3 DEF Database!UpgradeBegins
    <3>2. copy \in FileKinds /\ copy.data = file.data
      BY <2>1, <3>1 DEF FileKinds, Migration
    <3> HIDE DEF copy
    <3> QED BY <3>1, <3>2
  <2>4. CASE Database!UpgradeEnds(p)
    <3> DEFINE copy == [work[p] EXCEPT !.whole = TRUE, !.rev = "new"]
    <3>1. /\ work' = [work EXCEPT ![p] = copy] /\ Database!Go(p, "replace")
          /\ process[p].pc = "finish"
      BY <2>1, <2>4, DatabaseBounds DEF Database!UpgradeEnds
    <3>2. copy \in FileKinds /\ copy.data = file.data /\ copy.rev = "new" /\ copy.whole
      BY <2>1, <3>1 DEF FileKinds, Migration
    <3> HIDE DEF copy
    <3> QED BY <3>1, <3>2
  <2> QED BY <2>2, <2>3, <2>4
<1>3. /\ work' \in [Processes -> FileKinds] /\ work'[p] = copy
  BY <1>2 DEF DatabaseInv
<1>4. process' \in [Processes -> ProcessKinds] /\ process'[p].pc = pc
  BY <1>2, ProcessGoes
<1>5. file.rev \in {"none", "old"} /\ Few /\ (file.rev = "old" => BackedUp)
  BY <1>2 DEF DatabaseInv, Migration
<1>6. Migration(p)'
  BY <1>1, <1>2, <1>3, <1>4, <1>5 DEF Migration, Few, BackedUp
<1>7. \A q \in Processes : Migration(q)'
  <2>1. Database!Migrating(p)
    BY <1>2 DEF Database!Migrating
  <2> QED BY <1>1, <1>2, <1>6, <2>1, OthersStay, AwayStays
<1> QED BY <1>1, <1>3, <1>4, <1>7 DEF DatabaseInv, Few

LEMMA DatabaseKeepsReplace ==
  ASSUME DatabaseAssumptions, DatabaseInv, OneMigrates, NEW p \in Processes,
         Database!Replace(p)
  PROVE  DatabaseInv' /\ FileIsSafe /\ [Atomic!Next]_<<Revision, file.data>>
<1>1. /\ process[p].pc = "replace" /\ file' = work[p]
      /\ work' = [work EXCEPT ![p] = Database!NoWork] /\ Database!Go(p, "open")
      /\ UNCHANGED <<now, backups, faults>>
  BY DEF Database!Replace
<1>2. /\ work \in [Processes -> FileKinds] /\ file \in FileKinds
      /\ work[p].data = file.data /\ work[p].rev = "new" /\ work[p].whole
      /\ file.rev \in {"none", "old"} /\ Few /\ (file.rev = "old" => BackedUp)
  BY <1>1 DEF DatabaseInv, Migration
<1>3. Database!NoWork \in FileKinds
  BY DatabaseBounds DEF Database!NoWork, FileKinds
<1>4. work' \in [Processes -> FileKinds]
  BY <1>1, <1>2, <1>3
<1>5. process' \in [Processes -> ProcessKinds] /\ process'[p].pc = "open"
  BY <1>1, ProcessGoes
<1>6. Migration(p)'
  BY <1>1, <1>2, <1>5 DEF Migration
<1>7. \A q \in Processes : Migration(q)'
  <2>1. Database!Migrating(p)
    BY <1>1 DEF Database!Migrating
  <2> QED BY <1>1, <1>2, <1>6, <2>1, OthersStay, AwayStays
<1>8. FileIsSafe
  BY <1>1, <1>2 DEF FileIsSafe, FileKinds
<1>9. Atomic!Upgrade
  BY <1>1, <1>2 DEF Atomic!Upgrade, DatabaseInv
<1> QED BY <1>1, <1>2, <1>4, <1>5, <1>7, <1>8, <1>9 DEF DatabaseInv, Few, Atomic!Next

LEMMA DatabaseKeepsStopping ==
  ASSUME DatabaseAssumptions, DatabaseInv, NEW p \in Processes,
         Database!Fail(p) \/ Database!Exit(p)
  PROVE  DatabaseInv'
<1>1. /\ faults < MaxFaults /\ faults' = faults + 1
      /\ process' = [process EXCEPT ![p] = Database!Off]
      /\ UNCHANGED <<now, file, backups>>
      /\ work' = work \/ work' = [work EXCEPT ![p] = Database!NoWork]
  BY DEF Database!Fail, Database!Exit
<1>2. /\ Database!NoWork \in FileKinds /\ Database!Off \in ProcessKinds /\ Database!Off.pc = "off"
      /\ MaxFaults \in Nat
  BY DatabaseBounds DEF Database!NoWork, FileKinds, Database!Off, ProcessKinds
<1>3. /\ work' \in [Processes -> FileKinds] /\ process' \in [Processes -> ProcessKinds]
      /\ process'[p].pc = "off"
  BY <1>1, <1>2 DEF DatabaseInv
<1>4. Migration(p)'
  BY <1>3 DEF Migration
<1>5. \A q \in Processes : Migration(q)'
  BY <1>1, <1>4, OthersStay, UntouchedStays
<1> QED BY <1>1, <1>2, <1>3, <1>5 DEF DatabaseInv, Few

LEMMA DatabaseKeepsWrite ==
  ASSUME DatabaseAssumptions, DatabaseInv, NEW p \in Processes, Database!Write(p)
  PROVE  DatabaseInv' /\ FileIsSafe /\ [Atomic!Next]_<<Revision, file.data>>
<1>1. /\ process[p].pc = "open" /\ file.data < MaxWrites
      /\ file' = [file EXCEPT !.data = @ + 1]
      /\ UNCHANGED <<now, backups, work, process, faults>>
  BY DEF Database!Write
<1>2. file \in FileKinds /\ file.whole /\ file.rev = "new" /\ MaxWrites \in Nat
  BY <1>1, DatabaseBounds DEF DatabaseInv, Migration
<1>3. file' \in FileKinds /\ file'.whole /\ file'.rev = "new" /\ file'.data >= file.data
  BY <1>1, <1>2 DEF FileKinds
<1>4. Migration(p)'
  BY <1>1, <1>3 DEF Migration
<1>5. \A q \in Processes : Migration(q)'
  <2>1. \A q \in Processes : process[q].pc \in {"off", "refused", "open"}
    BY <1>2 DEF DatabaseInv, Migration, ProcessKinds
  <2> QED BY <1>1, <1>3, <2>1 DEF Migration
<1>6. Few'
  BY <1>1, <1>2 DEF DatabaseInv, Few
<1>7. Atomic!Write
  BY <1>1, <1>2, <1>3 DEF Atomic!Write, FileKinds
<1> QED BY <1>1, <1>2, <1>3, <1>5, <1>6, <1>7 DEF DatabaseInv, FileIsSafe, Atomic!Next

LEMMA DatabaseInductive ==
  ASSUME DatabaseAssumptions, DatabaseInv, OneMigrates, [Database!Next]_(Database!vars)
  PROVE  DatabaseInv' /\ FileIsSafe /\ [Atomic!Next]_<<Revision, file.data>>
<1>1. CASE UNCHANGED Database!vars
  BY <1>1, FileStays DEF Database!vars, DatabaseInv, Migration, Few, BackedUp, IsNewest
<1>2. CASE Database!Tick
  <2>1. /\ now < MaxTime /\ now' = now + 1 /\ UNCHANGED <<file, backups, work, process, faults>>
    BY <1>2 DEF Database!Tick
  <2>2. /\ now' \in 0..MaxTime /\ DOMAIN backups' \subseteq 0..now'
    BY <2>1, DatabaseBounds DEF DatabaseInv
  <2> QED BY <2>1, <2>2, FileStays DEF DatabaseInv, Migration, Few, BackedUp, IsNewest
<1>3. ASSUME NEW p \in Processes,
             \/ Database!Step(p) \/ Database!Fail(p) \/ Database!Exit(p) \/ Database!Write(p)
      PROVE  DatabaseInv' /\ FileIsSafe /\ [Atomic!Next]_<<Revision, file.data>>
  <2>1. CASE Database!Start(p)
    BY <2>1, DatabaseKeepsStart, FileStays DEF Database!Start
  <2>2. CASE Database!BackupBegins(p) \/ Database!BackupEnds(p)
    BY <2>2, DatabaseKeepsBackup, FileStays DEF Database!BackupBegins, Database!BackupEnds
  <2>3. CASE Database!Prune(p)
    BY <2>3, DatabaseKeepsPrune, FileStays DEF Database!Prune
  <2>4. CASE Database!Copy(p) \/ Database!UpgradeBegins(p) \/ Database!UpgradeEnds(p)
    BY <2>4, DatabaseKeepsWorking, FileStays
      DEF Database!Copy, Database!UpgradeBegins, Database!UpgradeEnds
  <2>5. CASE Database!Replace(p)
    BY <2>5, DatabaseKeepsReplace
  <2>6. CASE Database!Fail(p) \/ Database!Exit(p)
    BY <2>6, DatabaseKeepsStopping, FileStays DEF Database!Fail, Database!Exit
  <2>7. CASE Database!Write(p)
    BY <2>7, DatabaseKeepsWrite
  <2> QED BY <1>3, <2>1, <2>2, <2>3, <2>4, <2>5, <2>6, <2>7 DEF Database!Step
<1> QED BY <1>1, <1>2, <1>3 DEF Database!Next

LEMMA DatabaseInvariant == DatabaseAssumptions /\ Database!Spec /\ []OneMigrates => []DatabaseInv
<1>1. DatabaseAssumptions => []DatabaseAssumptions
  OBVIOUS
<1>2. DatabaseAssumptions /\ DatabaseInv /\ OneMigrates /\ [Database!Next]_(Database!vars)
        => DatabaseInv'
  BY DatabaseInductive
<1> QED BY <1>1, <1>2, DatabaseInitially, PTL DEF Database!Spec

\* migration.py, migrate_database, while no two processes are in it: an old database
\* is replaced only by one that has all it holds, and while a whole backup of it is kept.
THEOREM MigrationLosesNothingEver ==
  DatabaseAssumptions /\ Database!Spec /\ []OneMigrates => MigrationLosesNothing
<1>1. DatabaseAssumptions => []DatabaseAssumptions
  OBVIOUS
<1> DEFINE Safe == /\ file'.data >= file.data
                   /\ file.rev = "old" /\ file'.rev = Latest =>
                        \E s \in DOMAIN backups : backups[s] = file
<1>2. ASSUME DatabaseAssumptions, DatabaseInv, OneMigrates, [Database!Next]_(Database!vars)
      PROVE  [Safe]_<<file, backups>>
  BY <1>2, DatabaseInductive DEF FileIsSafe, BackedUp, Latest
<1>3. DatabaseAssumptions /\ DatabaseInv /\ OneMigrates /\ [Database!Next]_(Database!vars)
        => [Safe]_<<file, backups>>
  BY <1>2
<1> QED BY <1>1, <1>3, DatabaseInvariant, PTL DEF Database!Spec, MigrationLosesNothing

\* docs/architecture.md, section 6: a database is upgraded in one step, or left as it
\* was, wherever the processes that migrate it one after the other fail or die; no
\* write comes before that step, and none is lost by it.
THEOREM MigrationIsAtomic ==
  DatabaseAssumptions /\ Database!Spec /\ []OneMigrates => UpgradesAtOnce
<1>1. DatabaseAssumptions => []DatabaseAssumptions
  OBVIOUS
<1>2. Database!Init => Atomic!Init
  BY DEF Database!Init, Database!NoFile, Atomic!Init
<1>3. DatabaseAssumptions /\ DatabaseInv /\ OneMigrates /\ [Database!Next]_(Database!vars)
        => [Atomic!Next]_<<Revision, file.data>>
  BY DatabaseInductive
<1> QED
  BY <1>1, <1>2, <1>3, DatabaseInvariant, PTL
  DEF Database!Spec, UpgradesAtOnce, Atomic!Spec, Revision

\* Wherever a migration stops, the file is a whole database, and when the application runs,
\* no more than keep backups are left of all the attempts before.
THEOREM DatabaseTypes ==
  DatabaseAssumptions /\ Database!Spec /\ []OneMigrates => []Database!TypeOK
<1>1. ASSUME DatabaseAssumptions, DatabaseInv PROVE Database!TypeOK
  <2>1. /\ now \in 0..MaxTime /\ faults \in 0..MaxFaults /\ file \in FileKinds /\ file.whole
        /\ DOMAIN backups \subseteq 0..now /\ \A s \in DOMAIN backups : backups[s] \in FileKinds
        /\ work \in [Processes -> FileKinds] /\ process \in [Processes -> ProcessKinds]
        /\ MaxTime \in Nat
    BY <1>1, DatabaseBounds DEF DatabaseInv
  <2>2. DOMAIN backups \subseteq 0..MaxTime
    BY <2>1
  <2>3. \A p \in Processes : process[p].name \in 0..MaxTime
    BY <2>1 DEF ProcessKinds
  <2>4. ASSUME NEW p \in Processes, process[p].pc = "open"
        PROVE  Database!Cardinality(DOMAIN backups) <= Keep
    <3>1. Few
      BY <1>1, <2>4 DEF DatabaseInv, Migration
    <3> QED BY <1>1, <3>1, DatabaseBounds DEF Few
  <2> QED BY <2>1, <2>2, <2>3, <2>4 DEF Database!TypeOK, Database!Files, FileKinds
<1>2. DatabaseAssumptions => []DatabaseAssumptions
  OBVIOUS
<1> QED BY <1>1, <1>2, DatabaseInvariant, PTL

------------------------------------------------------------------------------
(***************************************************************************)
(* The runs of a watchlist.  The invariant: what is decided is neither     *)
(* absent nor pending, and a run has only keys that were not settled when  *)
(* it read the list.                                                       *)
(***************************************************************************)

ListAssumptions ==
  /\ List!ThreadAssumption /\ List!DecisionsAssumption
  /\ List!KeysAssumption /\ List!BoundsAssumption

Works == {"jav", "general", "manual"} \X (1..NumKeys)
TaskStatus == {"completed", "failed", "submitting", "submitted", "downloading",
               "attention_required"}
Rows == [content : Works, status : TaskStatus, run : BOOLEAN]

RunTyped(t) ==
  /\ worker[t].pc \in {"idle", "execute", "items"}
  /\ worker[t].pc = "execute" =>
       /\ worker[t].keys \in Seq(1..NumKeys)
       /\ \A i \in DOMAIN worker[t].keys : worker[t].keys[i] \notin worker[t].settled
  /\ worker[t].pc = "items" =>
       /\ worker[t].todo \in Seq(Nat \X Works)
       /\ \A i \in DOMAIN worker[t].todo : worker[t].todo[i][2][2] \notin worker[t].settled
       /\ worker[t].cut \in BOOLEAN

\* The runs whose row is running: no reload has cut them off.
Rowed == {t \in Running : ~worker[t].cut}

ListInv ==
  /\ items \in [Works -> Decisions \union {"absent"}]
  /\ \A c \in Works : items[c] # "absent" => c[1] \in Namespaces
  /\ decided \subseteq Works /\ \A c \in decided : items[c] \notin {"absent", "pending"}
  /\ automation \in [enabled : BOOLEAN, auto_submit : BOOLEAN]
  /\ tasks \in Seq(Rows) /\ runs \in 0..MaxRuns
  /\ DOMAIN worker = Users \union {Scheduler}
  /\ \A t \in DOMAIN worker : RunTyped(t)
  /\ \A t, u \in Rowed : t = u

LEMMA SameList ==
  /\ List!Contents = Works /\ List!Threads = Users \union {Scheduler}
  /\ List!Running = Running /\ List!TaskRows = Rows /\ List!Status = TaskStatus
  /\ \A S, key : List!Sorted(S, key) = Sorted(S, key)
  /\ \A s, n : List!FirstOf(s, n) = FirstOf(s, n)
  /\ \A s, i : List!RemoveAt(s, i) = SubSeq(s, 1, i - 1) \o SubSeq(s, i + 1, Len(s))
  /\ \A S : List!Cardinality(S) = Cardinality(S)
<1>0. \A S : List!Cardinality(S) = Cardinality(S)
  BY DEF List!Cardinality, Cardinality
<1>1. \A k, l : List!Less(k, l) <=> Less(k, l)
  BY DEF List!Less, Less
<1>2. \A s, key : List!IsAscending(s, key) <=> IsAscending(s, key)
  BY <1>1 DEF List!IsAscending, IsAscending
<1>3. \A S : List!SetToSeqs(S) = SetToSeqs(S)
  BY <1>0 DEF List!SetToSeqs, SetToSeqs
<1>4. \A S, key : List!Sorted(S, key) = Sorted(S, key)
  BY <1>2, <1>3 DEF List!Sorted, Sorted
<1>5. List!Contents = Works /\ List!Running = Running
  BY DEF List!Contents, List!Keys, Works, List!Running, Running
<1>6. List!Status = TaskStatus
  BY DEF List!Status, List!Terminal, List!Unfinished, TaskStatus
<1>7. List!TaskRows = Rows
  BY <1>5, <1>6 DEF List!TaskRows, Rows
<1>8. \A s, n : List!FirstOf(s, n) = FirstOf(s, n)
  BY DEF List!FirstOf, FirstOf
<1> QED BY <1>0, <1>4, <1>5, <1>6, <1>7, <1>8 DEF List!Threads, List!RemoveAt

LEMMA ListBounds ==
  ASSUME ListAssumptions
  PROVE  /\ NumKeys \in Nat /\ Namespaces \subseteq {"jav", "general"} /\ TopN \in Nat \ {0}
         /\ Decisions \subseteq {"pending", "owned", "ignored"} /\ "pending" \in Decisions
         /\ MaxTasks \in Nat /\ MaxMagnets \in Nat /\ MaxRuns \in Nat
         /\ Namespaces \X (1..NumKeys) \subseteq Works
         /\ \A k \in 1..NumKeys : List!RunIdentity(k) \in Works /\ List!RunIdentity(k)[2] = k
<1>1. /\ NumKeys \in Nat /\ Namespaces \subseteq {"jav", "general"} /\ TopN \in Nat \ {0}
      /\ MaxTasks \in Nat /\ MaxMagnets \in Nat /\ MaxRuns \in Nat
      /\ Decisions \subseteq {"pending", "owned", "ignored"} /\ "pending" \in Decisions
  BY DEF ListAssumptions, List!KeysAssumption, List!BoundsAssumption, List!DecisionsAssumption
<1> QED BY <1>1 DEF Works, List!RunIdentity

\* A content with tasks shows the state of one of them.
LEMMA LatestIsOne ==
  ASSUME ListInv, NEW c, List!TasksOf(c) # {}
  PROVE  List!Latest(c).status \in TaskStatus
<1> DEFINE T == List!TasksOf(c)
<1>1. T = {i \in 1..Len(tasks) : tasks[i].content = c} /\ Len(tasks) \in Nat
  BY DEF List!TasksOf, ListInv
<1>2. \E i \in T : \A j \in T : j <= i
  <2>1. T \in SUBSET Nat /\ T # {} /\ \A j \in T : j <= Len(tasks)
    BY <1>1
  <2> HIDE DEF T
  <2> QED BY <1>1, <2>1, GreatestNumber
<1> DEFINE i == CHOOSE k \in T : \A j \in T : j <= k
<1>3. i \in T
  <2> HIDE DEF T
  <2> QED BY <1>2
<1>4. List!Latest(c) = tasks[i]
  BY DEF List!Latest
<1> HIDE DEF i
<1>5. tasks \in Seq(Rows) /\ i \in 1..Len(tasks)
  BY <1>1, <1>3 DEF ListInv
<1>6. tasks[i] \in Rows
  BY <1>5
<1> QED BY <1>4, <1>6 DEF Rows

\* What is shown as pending is an item that is: its key is not settled.
LEMMA PendingIsUnsettled ==
  ASSUME ListAssumptions, ListInv, NEW c, c \in List!Showing("pending")
  PROVE  c \in Namespaces \X (1..NumKeys) /\ c[2] \notin List!Settled
<1>1. c \in Works /\ items[c] # "absent" /\ List!ItemState(c) = "pending"
  BY SameList DEF List!Showing
<1>2. items[c] = "pending"
  BY <1>1, LatestIsOne DEF List!ItemState, TaskStatus
<1>3. c[1] \in Namespaces /\ c[2] \in 1..NumKeys /\ c = <<c[1], c[2]>>
  BY <1>1 DEF ListInv, Works
<1>4. c \notin decided
  BY <1>1, <1>2 DEF ListInv
<1> QED BY <1>1, <1>3, <1>4, SameList DEF List!Settled

LEMMA LessOne ==
  ASSUME NEW k, NEW l, DOMAIN k = 1..1
  PROVE  Less(k, l) <=> k[1] < l[1]
<1>1. (\A i : i \in 1..1 <=> i = 1) /\ \A j \in 1..(1 - 1) : FALSE
  OBVIOUS
<1> QED BY <1>1 DEF Less

\* The items of one state in the order of their keys: a sequence of them.
LEMMA ByKeyIsSequence ==
  ASSUME ListAssumptions, NEW S, S \subseteq Namespaces \X (1..NumKeys)
  PROVE  List!ByKey(S) \in Seq(S)
<1> DEFINE key == [c \in S |-> <<c[2], IF c[1] = "jav" THEN 0 ELSE 1>>]
<1>1. NumKeys \in Nat /\ Namespaces \subseteq {"jav", "general"}
  BY ListBounds
<1>2. IsFiniteSet(S)
  <2>1. IsFiniteSet({"jav", "general"})
    <3>1. IsFiniteSet({"jav"})
      BY FS_Singleton
    <3>2. {"jav"} \union {"general"} = {"jav", "general"}
      OBVIOUS
    <3> QED BY <3>1, <3>2, FS_AddElement
  <2>2. IsFiniteSet(1..NumKeys)
    BY <1>1, FS_Interval
  <2>3. IsFiniteSet({"jav", "general"} \X (1..NumKeys))
    BY <2>1, <2>2, FS_Product
  <2>4. S \in SUBSET ({"jav", "general"} \X (1..NumKeys))
    BY <1>1
  <2> QED BY <2>3, <2>4, FS_Subset
<1>3. ASSUME NEW x \in S
      PROVE  /\ key[x] = <<x[2], IF x[1] = "jav" THEN 0 ELSE 1>> /\ DOMAIN key[x] = 1..2
             /\ x[1] \in {"jav", "general"} /\ x[2] \in Nat /\ x = <<x[1], x[2]>>
  <2>1. PICK a \in Namespaces, b \in 1..NumKeys : x = <<a, b>>
    BY <1>3
  <2>2. x[1] \in {"jav", "general"} /\ x[2] \in Nat /\ x = <<x[1], x[2]>>
    BY <1>1, <2>1
  <2>3. key[x] = <<x[2], IF x[1] = "jav" THEN 0 ELSE 1>>
    BY <1>3
  <2>4. DOMAIN <<x[2], IF x[1] = "jav" THEN 0 ELSE 1>> = 1..2
    OBVIOUS
  <2> QED BY <2>2, <2>3, <2>4
<1>4. \A x, y \in S : Less(key[x], key[y]) <=>
        \/ x[2] < y[2]
        \/ x[2] = y[2] /\ x[1] = "jav" /\ y[1] # "jav"
  <2>1. TAKE x, y \in S
  <2>2. Less(key[x], key[y]) <=>
          key[x][1] < key[y][1] \/ (key[x][1] = key[y][1] /\ key[x][2] < key[y][2])
    BY <1>3, LessTwo
  <2>3. /\ key[x][1] = x[2] /\ key[x][2] = IF x[1] = "jav" THEN 0 ELSE 1
        /\ key[y][1] = y[2] /\ key[y][2] = IF y[1] = "jav" THEN 0 ELSE 1
    BY <1>3
  <2> HIDE DEF key
  <2> QED BY <2>2, <2>3
<1> HIDE DEF key
<1>5. \A x, y \in S : x # y => Less(key[x], key[y]) \/ Less(key[y], key[x])
  <2>1. TAKE x, y \in S
  <2>2. HAVE x # y
  <2>3. x[1] # y[1] \/ x[2] # y[2]
    BY <1>3, <2>2
  <2> QED BY <1>3, <1>4, <2>3
<1>6. \A x, y, z \in S : Less(key[x], key[y]) /\ Less(key[y], key[z]) => Less(key[x], key[z])
  BY <1>3, <1>4
<1>7. Sorted(S, key) \in SetToSeqs(S)
  BY <1>2, <1>5, <1>6, SortedIsThere
<1>8. List!ByKey(S) = Sorted(S, key)
  BY SameList DEF List!ByKey, key
<1> QED BY <1>2, <1>7, <1>8, SequenceOfSet

LEMMA FirstOfIsSequence ==
  ASSUME NEW S, NEW s \in Seq(S), NEW n \in Nat
  PROVE  FirstOf(s, n) \in Seq(S)
<1> DEFINE m == IF Len(s) < n THEN Len(s) ELSE n
<1>1. m \in Nat /\ m <= Len(s) /\ 1 \in Int /\ Len(s) \in Nat
  OBVIOUS
<1> HIDE DEF m
<1>2. \A i \in 1..m : s[i] \in S
  BY <1>1
<1>3. SubSeq(s, 1, m) \in Seq(S)
  BY <1>1, <1>2, SubSeqProperties
<1> QED BY <1>3 DEF FirstOf, m

\* The works of a run, in the order of the keys, under the identity it looks for.
LEMMA DiscoveredAreUnsettled ==
  ASSUME ListAssumptions, NEW keys \in Seq(1..NumKeys), NEW w,
         \A i \in DOMAIN keys : keys[i] \notin w
  PROVE  /\ List!Discovered(keys) \in Seq(Nat \X Works)
         /\ \A i \in DOMAIN List!Discovered(keys) : List!Discovered(keys)[i][2][2] \notin w
<1> DEFINE contents == [i \in DOMAIN keys |-> List!RunIdentity(keys[i])]
           first == {i \in DOMAIN keys : \A j \in 1..(i - 1) : contents[j] # contents[i]}
           key == [i \in first |-> <<i>>]
           order == Sorted(first, key)
           todo == [n \in DOMAIN order |-> <<order[n], contents[order[n]]>>]
<1>1. List!Discovered(keys) = todo
  BY SameList DEF List!Discovered
<1>2. /\ Len(keys) \in Nat /\ DOMAIN keys = 1..Len(keys)
      /\ \A i \in DOMAIN keys : keys[i] \in 1..NumKeys
  <2> DEFINE K == 1..NumKeys
  <2>1. keys \in Seq(K)
    OBVIOUS
  <2> HIDE DEF K
  <2>2. Len(keys) \in Nat /\ DOMAIN keys = 1..Len(keys) /\ \A i \in DOMAIN keys : keys[i] \in K
    BY <2>1
  <2> QED BY <2>2 DEF K
<1>3. first \subseteq Nat /\ first \subseteq DOMAIN keys /\ IsFiniteSet(first)
  <2>1. first \in SUBSET (1..Len(keys))
    BY <1>2
  <2>2. IsFiniteSet(1..Len(keys))
    <3> DEFINE n == Len(keys)
    <3>1. n \in Nat
      BY <1>2
    <3> HIDE DEF n
    <3>2. IsFiniteSet(1..n)
      BY <3>1, FS_Interval
    <3> QED BY <3>2 DEF n
  <2> QED BY <1>2, <2>1, <2>2, FS_Subset
<1>4. \A i \in DOMAIN keys :
        /\ contents[i] \in Works
        /\ contents[i][2] \notin w
  BY <1>2, ListBounds
<1> HIDE DEF first, contents
<1>5. \A i, j \in first : Less(key[i], key[j]) <=> i < j
  <2>1. TAKE i, j \in first
  <2>2. key[i] = <<i>> /\ key[j] = <<j>>
    OBVIOUS
  <2>3. DOMAIN <<i>> = 1..1 /\ <<i>>[1] = i /\ <<j>>[1] = j
    OBVIOUS
  <2> HIDE DEF key
  <2> QED BY <2>2, <2>3, LessOne
<1> HIDE DEF key
<1>6. order \in SetToSeqs(first)
  <2>1. \A i, j \in first : i # j => Less(key[i], key[j]) \/ Less(key[j], key[i])
    BY <1>3, <1>5
  <2>2. \A i, j, k \in first : Less(key[i], key[j]) /\ Less(key[j], key[k]) => Less(key[i], key[k])
    BY <1>3, <1>5
  <2> QED BY <1>3, <2>1, <2>2, SortedIsThere
<1> HIDE DEF order
<1>7. order \in Seq(first)
  BY <1>3, <1>6, SequenceOfSet
<1>8. \A n \in DOMAIN order : order[n] \in first
  BY <1>7
<1>9. /\ \A n \in DOMAIN order : todo[n] = <<order[n], contents[order[n]]>>
      /\ DOMAIN todo = 1..Len(order) /\ Len(order) \in Nat
  BY <1>7
<1>10. \A n \in 1..Len(order) : todo[n] \in Nat \X Works
  BY <1>3, <1>4, <1>7, <1>8, <1>9
<1>11. todo \in Seq(Nat \X Works)
  <2>1. todo = [n \in 1..Len(order) |-> todo[n]]
    BY <1>7
  <2>2. [n \in 1..Len(order) |-> todo[n]] \in Seq(Nat \X Works)
    <3> HIDE DEF todo
    <3> QED BY <1>9, <1>10, IsASeq
  <2> HIDE DEF todo
  <2> QED BY <2>1, <2>2
<1>12. \A n \in DOMAIN todo : todo[n][2][2] \notin w
  <2>1. TAKE n \in DOMAIN todo
  <2>2. n \in DOMAIN order /\ order[n] \in first /\ todo[n] = <<order[n], contents[order[n]]>>
    BY <1>8, <1>9
  <2>3. todo[n][2] = contents[order[n]]
    BY <2>2
  <2> QED BY <1>3, <1>4, <2>2, <2>3
<1> QED BY <1>1, <1>11, <1>12

------------------------------------------------------------------------------

\* A step of one run: the others stay, and so does all that is not of runs.
LEMMA OneRunGoes ==
  ASSUME ListInv, NEW t \in Users \union {Scheduler}, NEW state, List!Become(t, state)
  PROVE  /\ DOMAIN worker' = DOMAIN worker /\ worker'[t] = state
         /\ \A u \in DOMAIN worker \ {t} : worker'[u] = worker[u]
BY DEF ListInv, List!Become

LEMMA RunsGoOn ==
  ASSUME ListInv, NEW t \in Users \union {Scheduler}, NEW state, List!Become(t, state),
         RunTyped(t)', state.pc = "items" /\ ~state.cut => Rowed \subseteq {t}
  PROVE  /\ DOMAIN worker' = Users \union {Scheduler}
         /\ \A u \in DOMAIN worker' : RunTyped(u)'
         /\ \A u, v \in Rowed' : u = v
<1>1. /\ DOMAIN worker = Users \union {Scheduler}
      /\ \A u \in DOMAIN worker : RunTyped(u)
      /\ \A u, v \in Rowed : u = v
  BY DEF ListInv
<1>2. /\ DOMAIN worker' = DOMAIN worker /\ worker'[t] = state
      /\ \A u \in DOMAIN worker \ {t} : worker'[u] = worker[u]
  BY OneRunGoes
<1>3. \A u \in DOMAIN worker' : RunTyped(u)'
  <2>1. TAKE u \in DOMAIN worker'
  <2>2. CASE u = t
    BY <2>2
  <2>3. CASE u # t
    BY <1>1, <1>2, <2>1, <2>3 DEF RunTyped
  <2> QED BY <2>2, <2>3
<1>4. \A u, v \in Rowed' : u = v
  BY <1>1, <1>2 DEF Rowed, Running
<1> QED BY <1>1, <1>2, <1>3, <1>4

LEMMA ListKeepsReading ==
  ASSUME ListAssumptions, ListInv, NEW t \in Users \union {Scheduler}, List!RunReads(t)
  PROVE  ListInv'
<1> DEFINE pending == List!Pending
           keys == [i \in DOMAIN pending |-> pending[i][2]]
<1>1. PICK submit \in BOOLEAN :
        /\ List!Become(t, [pc |-> "execute", keys |-> keys, submit |-> submit,
                           settled |-> List!Settled])
        /\ runs' = (IF t \in Users THEN runs + 1 ELSE runs) /\ (t \in Users => runs < MaxRuns)
        /\ UNCHANGED <<items, automation, tasks, decided>>
  BY DEF List!RunReads, ListInv
<1> DEFINE settled == List!Settled
           state == [pc |-> "execute", keys |-> keys, submit |-> submit, settled |-> settled]
<1>2. pending \in Seq(List!Showing("pending"))
  <2> DEFINE S == List!Showing("pending")
  <2>1. S \subseteq Namespaces \X (1..NumKeys)
    BY PendingIsUnsettled
  <2> HIDE DEF S
  <2>2. List!ByKey(S) \in Seq(S) /\ TopN \in Nat
    BY <2>1, ByKeyIsSequence, ListBounds
  <2>3. FirstOf(List!ByKey(S), TopN) \in Seq(S)
    BY <2>2, FirstOfIsSequence
  <2> QED BY <2>3, SameList DEF List!Pending, S
<1> HIDE DEF pending
<1>3. \A i \in DOMAIN pending :
        /\ pending[i][2] \in 1..NumKeys
        /\ pending[i][2] \notin List!Settled
  <2>1. TAKE i \in DOMAIN pending
  <2>2. pending[i] \in List!Showing("pending")
    BY <1>2
  <2>3. pending[i] \in Namespaces \X (1..NumKeys)
    BY <2>2, PendingIsUnsettled
  <2> QED BY <2>2, <2>3, PendingIsUnsettled
<1>4. keys \in Seq(1..NumKeys) /\ DOMAIN keys = DOMAIN pending
  <2>1. Len(pending) \in Nat /\ DOMAIN pending = 1..Len(pending)
    BY <1>2
  <2>2. [i \in 1..Len(pending) |-> pending[i][2]] \in Seq(1..NumKeys)
    BY <1>3, <2>1, IsASeq
  <2> QED BY <2>1, <2>2
<1>5. \A i \in DOMAIN keys : keys[i] \notin settled
  BY <1>3, <1>4
<1> HIDE DEF keys
<1>6. List!Become(t, state)
  BY <1>1
<1> HIDE DEF settled
<1>7. state.pc = "execute" /\ state.keys = keys /\ state.settled = settled
  OBVIOUS
<1> HIDE DEF state
<1>8. worker'[t] = state
  BY <1>6, OneRunGoes
<1>9. RunTyped(t)'
  <2>1. worker'[t].pc = "execute" /\ worker'[t].keys = keys /\ worker'[t].settled = settled
    BY <1>7, <1>8
  <2> QED BY <1>4, <1>5, <2>1 DEF RunTyped
<1>10. /\ DOMAIN worker' = Users \union {Scheduler} /\ (\A u \in DOMAIN worker' : RunTyped(u)')
       /\ \A u, v \in Rowed' : u = v
  BY <1>6, <1>7, <1>9, RunsGoOn
<1>11. runs' \in 0..MaxRuns
  BY <1>1, ListBounds DEF ListInv
<1> QED BY <1>1, <1>10, <1>11 DEF ListInv

LEMMA ListKeepsExecuting ==
  ASSUME ListAssumptions, ListInv, NEW t \in Users \union {Scheduler},
         List!Execute(t) \/ List!FinishRun(t)
  PROVE  ListInv'
<1>1. UNCHANGED <<items, automation, tasks, runs, decided>>
  BY DEF List!Execute, List!FinishRun
<1>2. RunTyped(t)
  BY DEF ListInv
<1>3. PICK state : /\ List!Become(t, state)
                   /\ \/ state.pc = "idle"
                      \/ /\ state.pc = "items" /\ Rowed = {} /\ state.cut = FALSE
                         /\ worker[t].pc = "execute"
                         /\ state.todo = List!Discovered(worker[t].keys)
                         /\ state.settled = worker[t].settled
  <2>1. CASE List!Become(t, List!Idle)
    BY <2>1 DEF List!Idle
  <2>2. CASE worker[t].pc = "execute" /\ Rowed = {} /\ List!Begins(t)
    <3> DEFINE state == [pc |-> "items", todo |-> List!Discovered(worker[t].keys),
                         submit |-> worker[t].submit, settled |-> worker[t].settled,
                         cut |-> FALSE]
    <3>1. List!Become(t, state)
      BY <2>2 DEF List!Begins
    <3>2. /\ state.pc = "items" /\ state.todo = List!Discovered(worker[t].keys)
          /\ state.settled = worker[t].settled /\ state.cut = FALSE
      OBVIOUS
    <3> HIDE DEF state
    <3> QED BY <2>2, <3>1, <3>2
  <2>3. (\A u \in List!Running : worker[u].cut) => Rowed = {}
    BY SameList DEF Rowed
  <2> QED BY <2>1, <2>2, <2>3 DEF List!Execute, List!FinishRun
<1>4. worker'[t] = state
  BY <1>3, OneRunGoes
<1>5. CASE state.pc = "idle"
  <2>1. RunTyped(t)'
    BY <1>4, <1>5 DEF RunTyped
  <2>2. /\ DOMAIN worker' = Users \union {Scheduler} /\ (\A u \in DOMAIN worker' : RunTyped(u)')
        /\ \A u, v \in Rowed' : u = v
    BY <1>3, <1>5, <2>1, RunsGoOn
  <2> QED BY <1>1, <2>2 DEF ListInv
<1>6. CASE /\ state.pc = "items" /\ Rowed = {} /\ worker[t].pc = "execute"
           /\ state.cut = FALSE
           /\ state.todo = List!Discovered(worker[t].keys)
           /\ state.settled = worker[t].settled
  <2> DEFINE keys == worker[t].keys
             w == worker[t].settled
  <2>1. /\ keys \in Seq(1..NumKeys)
        /\ \A i \in DOMAIN keys : keys[i] \notin w
    BY <1>2, <1>6 DEF RunTyped
  <2> HIDE DEF keys, w
  <2> DEFINE todo == List!Discovered(keys)
  <2>2. /\ todo \in Seq(Nat \X Works)
        /\ \A i \in DOMAIN todo : todo[i][2][2] \notin w
    BY <2>1, DiscoveredAreUnsettled
  <2>3. /\ worker'[t].pc = "items" /\ worker'[t].todo = todo /\ worker'[t].settled = w
        /\ worker'[t].cut = FALSE
    BY <1>4, <1>6 DEF keys, w
  <2> HIDE DEF todo
  <2>4. RunTyped(t)'
    BY <2>2, <2>3 DEF RunTyped
  <2>5. /\ DOMAIN worker' = Users \union {Scheduler} /\ (\A u \in DOMAIN worker' : RunTyped(u)')
        /\ \A u, v \in Rowed' : u = v
    BY <1>3, <1>6, <2>4, RunsGoOn
  <2> QED BY <1>1, <2>5 DEF ListInv
<1> QED BY <1>3, <1>5, <1>6

\* A row more at the end.
LEMMA RowIsAdded ==
  ASSUME tasks \in Seq(Rows), NEW row \in Rows, tasks' = Append(tasks, row)
  PROVE  tasks' \in Seq(Rows)
BY AppendProperties

LEMMA ListKeepsProcessing ==
  ASSUME ListAssumptions, ListInv, NEW t \in Users \union {Scheduler}, List!ProcessItem(t)
  PROVE  ListInv'
<1> DEFINE todo == worker[t].todo
           content == Head(todo)[2]
           state == [worker[t] EXCEPT !.todo = Tail(todo)]
<1>1. /\ worker[t].pc = "items" /\ todo # <<>> /\ List!Become(t, state)
      /\ \/ tasks' = Append(tasks, [content |-> content, status |-> "submitting", run |-> TRUE])
         \/ tasks' = tasks
      /\ UNCHANGED <<items, automation, runs, decided>>
  BY DEF List!ProcessItem
<1>2. /\ RunTyped(t) /\ tasks \in Seq(Rows)
      /\ ~worker[t].cut => Rowed \subseteq {t}
  BY <1>1 DEF ListInv, Rowed, Running
<1>3. /\ todo \in Seq(Nat \X Works)
      /\ \A i \in DOMAIN todo : todo[i][2][2] \notin worker[t].settled
  BY <1>1, <1>2 DEF RunTyped
<1>4. /\ Head(todo) \in Nat \X Works /\ Tail(todo) \in Seq(Nat \X Works)
      /\ Len(Tail(todo)) = Len(todo) - 1 /\ Len(todo) \in Nat
      /\ \A i \in 1..Len(Tail(todo)) : Tail(todo)[i] = todo[i + 1]
  BY <1>1, <1>3, HeadTailProperties
<1>5. \A i \in DOMAIN Tail(todo) : Tail(todo)[i][2][2] \notin worker[t].settled
  <2> DEFINE rest == Tail(todo)
  <2>1. rest \in Seq(Nat \X Works) /\ \A i \in 1..Len(rest) : rest[i] = todo[i + 1]
    BY <1>4
  <2>2. Len(rest) = Len(todo) - 1 /\ Len(todo) \in Nat
    BY <1>4
  <2> HIDE DEF rest
  <2>3. ASSUME NEW i \in DOMAIN rest PROVE rest[i][2][2] \notin worker[t].settled
    <3>1. i \in 1..Len(rest) /\ i + 1 \in DOMAIN todo
      <4>1. DOMAIN rest = 1..Len(rest) /\ DOMAIN todo = 1..Len(todo)
        BY <1>3, <2>1
      <4> QED BY <2>2, <4>1
    <3> QED BY <1>3, <2>1, <3>1
  <2> QED BY <2>3 DEF rest
<1>6. /\ state.pc = "items" /\ state.todo = Tail(todo) /\ state.settled = worker[t].settled
      /\ state.cut = worker[t].cut
  BY <1>1
<1>7. worker'[t] = state
  BY <1>1, OneRunGoes
<1>8. RunTyped(t)'
  <2> DEFINE rest == Tail(todo)
             w == worker[t].settled
  <2>1. /\ worker'[t].pc = "items" /\ worker'[t].todo = rest /\ worker'[t].settled = w
        /\ worker'[t].cut \in BOOLEAN
    <3>1. worker[t].cut \in BOOLEAN
      BY <1>1, <1>2 DEF RunTyped
    <3> QED BY <1>6, <1>7, <3>1
  <2>2. rest \in Seq(Nat \X Works) /\ \A i \in DOMAIN rest : rest[i][2][2] \notin w
    BY <1>4, <1>5
  <2> HIDE DEF rest, w
  <2> QED BY <2>1, <2>2 DEF RunTyped
<1>9. tasks' \in Seq(Rows)
  <2> DEFINE row == [content |-> content, status |-> "submitting", run |-> TRUE]
  <2>1. row \in Rows
    BY <1>4 DEF Rows, TaskStatus
  <2> HIDE DEF row
  <2>2. tasks' = Append(tasks, row) \/ tasks' = tasks
    BY <1>1 DEF row
  <2> QED BY <1>2, <2>1, <2>2, RowIsAdded
<1> HIDE DEF state
<1>10. /\ DOMAIN worker' = Users \union {Scheduler} /\ (\A u \in DOMAIN worker' : RunTyped(u)')
       /\ \A u, v \in Rowed' : u = v
  BY <1>1, <1>2, <1>6, <1>8, RunsGoOn
<1> QED BY <1>1, <1>9, <1>10 DEF ListInv

\* A reload cuts off every run that is at its items.
LEMMA ListKeepsReloading ==
  ASSUME ListAssumptions, ListInv, List!Reload
  PROVE  ListInv'
<1>1. /\ worker' = [t \in Users \union {Scheduler} |->
                      IF t \in Running THEN [worker[t] EXCEPT !.cut = TRUE] ELSE worker[t]]
      /\ UNCHANGED <<items, automation, tasks, runs, decided>>
  BY SameList DEF List!Reload
<1>2. DOMAIN worker = Users \union {Scheduler} /\ \A t \in DOMAIN worker : RunTyped(t)
  BY DEF ListInv
<1>3. ASSUME NEW t \in Users \union {Scheduler}
      PROVE  /\ RunTyped(t)'
             /\ worker'[t].pc = "items" => worker'[t].cut
  <2>1. CASE worker[t].pc = "items"
    <3> DEFINE state == [worker[t] EXCEPT !.cut = TRUE]
    <3>1. worker'[t] = state
      BY <1>1, <1>2, <2>1 DEF Running
    <3>2. /\ state.pc = "items" /\ state.todo = worker[t].todo
          /\ state.settled = worker[t].settled /\ state.cut = TRUE
      BY <2>1
    <3> HIDE DEF state
    <3>3. RunTyped(t)
      BY <1>2
    <3> QED BY <2>1, <3>1, <3>2, <3>3 DEF RunTyped
  <2>2. CASE worker[t].pc # "items"
    <3>1. worker'[t] = worker[t]
      BY <1>1, <2>2 DEF Running
    <3> QED BY <1>2, <2>2, <3>1 DEF RunTyped
  <2> QED BY <2>1, <2>2
<1>4. DOMAIN worker' = Users \union {Scheduler}
  BY <1>1
<1>5. \A u, v \in Rowed' : u = v
  BY <1>3, <1>4 DEF Rowed, Running
<1> QED BY <1>1, <1>3, <1>4, <1>5 DEF ListInv

LEMMA RunsStay ==
  ASSUME ListInv, UNCHANGED worker
  PROVE  /\ DOMAIN worker' = Users \union {Scheduler}
         /\ \A u \in DOMAIN worker' : RunTyped(u)'
         /\ \A u, v \in Rowed' : u = v
BY DEF ListInv, RunTyped, Rowed, Running

\* What users do with the items: no run sees it.
LEMMA ListKeepsItems ==
  ASSUME ListAssumptions, ListInv,
         \/ \E n \in Namespaces, k \in 1..NumKeys : List!Import(n, k)
         \/ \E c \in Works, s \in Decisions : List!SetItemState(c, s)
         \/ List!ConfigureAutomation
  PROVE  ListInv'
<1>1. UNCHANGED <<tasks, worker, runs>>
  BY DEF List!Import, List!SetItemState, List!ConfigureAutomation
<1>2. /\ DOMAIN worker' = Users \union {Scheduler} /\ (\A u \in DOMAIN worker' : RunTyped(u)')
      /\ \A u, v \in Rowed' : u = v
  BY <1>1, RunsStay
<1>3. tasks' \in Seq(Rows) /\ runs' \in 0..MaxRuns
  BY <1>1 DEF ListInv
<1>4. automation' \in [enabled : BOOLEAN, auto_submit : BOOLEAN]
  BY DEF ListInv, List!Import, List!SetItemState, List!ConfigureAutomation
<1>5. /\ items' \in [Works -> Decisions \union {"absent"}]
      /\ \A c \in Works : items'[c] # "absent" => c[1] \in Namespaces
      /\ decided' \subseteq Works /\ \A c \in decided' : items'[c] \notin {"absent", "pending"}
  <2>1. /\ items \in [Works -> Decisions \union {"absent"}]
        /\ \A c \in Works : items[c] # "absent" => c[1] \in Namespaces
        /\ decided \subseteq Works /\ \A c \in decided : items[c] \notin {"absent", "pending"}
    BY DEF ListInv
  <2>2. ASSUME NEW n \in Namespaces, NEW k \in 1..NumKeys, List!Import(n, k)
        PROVE  <1>5!:
    <3> DEFINE new == <<n, k>>
    <3>1. /\ items[new] = "absent" /\ items' = [items EXCEPT ![new] = "pending"]
          /\ decided' = decided
      BY <2>2 DEF List!Import, List!Identity
    <3>2. new \in Works /\ new[1] \in Namespaces /\ new \notin decided
      BY <2>1, <3>1, ListBounds
    <3> HIDE DEF new
    <3> QED BY <2>1, <3>1, <3>2, ListBounds
  <2>3. ASSUME NEW c \in Works, NEW s \in Decisions, List!SetItemState(c, s)
        PROVE  <1>5!:
    <3>1. /\ items[c] # "absent" /\ items' = [items EXCEPT ![c] = s]
          /\ decided' = IF s = "pending" THEN decided \ {c} ELSE decided \union {c}
          /\ s # "absent"
      BY <2>3, ListBounds DEF List!SetItemState
    <3> QED BY <2>1, <3>1
  <2>4. ASSUME List!ConfigureAutomation PROVE <1>5!:
    BY <2>1, <2>4 DEF List!ConfigureAutomation
  <2> QED BY <2>2, <2>3, <2>4
<1> QED BY <1>2, <1>3, <1>4, <1>5 DEF ListInv

\* A magnet the user gives, a task that moves, a task that follows: the rows are
\* of the kinds the code writes.
LEMMA ListKeepsTasks ==
  ASSUME ListAssumptions, ListInv,
         \/ \E c \in Works : List!SubmitAuthorizedMagnet(c)
         \/ \E i \in DOMAIN tasks : List!TaskMoves(i) \/ List!TaskFollows(i)
  PROVE  ListInv'
<1>1. UNCHANGED <<items, automation, worker, runs, decided>>
  BY DEF List!SubmitAuthorizedMagnet, List!TaskMoves, List!TaskFollows
<1>2. /\ DOMAIN worker' = Users \union {Scheduler} /\ (\A u \in DOMAIN worker' : RunTyped(u)')
      /\ \A u, v \in Rowed' : u = v
  BY <1>1, RunsStay
<1>3. tasks \in Seq(Rows)
  BY DEF ListInv
<1>4. \A i \in DOMAIN tasks, status \in TaskStatus :
        [tasks[i] EXCEPT !.status = status] \in Rows
  <2>1. \A i \in DOMAIN tasks : tasks[i] \in Rows
    BY <1>3
  <2> QED BY <2>1 DEF Rows
<1>5. ASSUME NEW c \in Works, List!SubmitAuthorizedMagnet(c) PROVE tasks' \in Seq(Rows)
  <2> DEFINE row == [content |-> c, status |-> "submitting", run |-> FALSE]
  <2>1. row \in Rows
    BY DEF Rows, TaskStatus
  <2>2. tasks' = Append(tasks, row)
    BY <1>5 DEF List!SubmitAuthorizedMagnet
  <2> HIDE DEF row
  <2> QED BY <1>3, <2>1, <2>2, RowIsAdded
<1>6. ASSUME NEW i \in DOMAIN tasks, List!TaskFollows(i) PROVE tasks' \in Seq(Rows)
  <2> DEFINE row == [tasks[i] EXCEPT !.status = "submitting"]
  <2>1. row \in Rows
    BY <1>4 DEF TaskStatus
  <2>2. tasks' = Append(tasks, row)
    BY <1>6 DEF List!TaskFollows
  <2> HIDE DEF row
  <2> QED BY <1>3, <2>1, <2>2, RowIsAdded
<1>7. ASSUME NEW i \in DOMAIN tasks, List!TaskMoves(i) PROVE tasks' \in Seq(Rows)
  <2>1. PICK status \in List!Allowed[tasks[i].status] :
          tasks' = Append(List!RemoveAt(tasks, i), [tasks[i] EXCEPT !.status = status])
    BY <1>7 DEF List!TaskMoves
  <2>2. status \in TaskStatus
    <3>1. tasks[i].status \in TaskStatus
      <4>1. tasks[i] \in Rows
        BY <1>3
      <4> QED BY <4>1 DEF Rows
    <3>2. \A s \in TaskStatus : List!Allowed[s] \subseteq TaskStatus
      BY DEF List!Allowed, List!Status, List!Terminal, List!Unfinished, TaskStatus
    <3> QED BY <2>1, <3>1, <3>2
  <2> DEFINE row == [tasks[i] EXCEPT !.status = status]
             before == SubSeq(tasks, 1, i - 1)
             after == SubSeq(tasks, i + 1, Len(tasks))
  <2>3. row \in Rows
    BY <1>4, <2>2
  <2>4. tasks' = Append(before \o after, row)
    BY <2>1, SameList
  <2>5. before \in Seq(Rows) /\ after \in Seq(Rows)
    <3>1. i \in 1..Len(tasks) /\ Len(tasks) \in Nat /\ \A j \in 1..Len(tasks) : tasks[j] \in Rows
      BY <1>3
    <3>2. i - 1 \in Int /\ i + 1 \in Int /\ 1 \in Int /\ Len(tasks) \in Int
      BY <3>1
    <3>3. \A j \in 1..(i - 1) : tasks[j] \in Rows
      BY <3>1
    <3>4. \A j \in (i + 1)..Len(tasks) : tasks[j] \in Rows
      BY <3>1
    <3>5. before \in Seq(Rows)
      BY <3>2, <3>3, SubSeqProperties
    <3>6. after \in Seq(Rows)
      BY <3>2, <3>4, SubSeqProperties
    <3> QED BY <3>5, <3>6
  <2> HIDE DEF row, before, after
  <2>6. before \o after \in Seq(Rows)
    BY <2>5, ConcatProperties
  <2> QED BY <2>3, <2>4, <2>6, AppendProperties
<1> QED BY <1>1, <1>2, <1>5, <1>6, <1>7 DEF ListInv

LEMMA ListInitially == ListAssumptions /\ List!Init => ListInv
<1> SUFFICES ASSUME ListAssumptions, List!Init PROVE ListInv
  OBVIOUS
<1>1. /\ items = [c \in Works |-> "absent"] /\ tasks = <<>> /\ runs = 0 /\ decided = {}
      /\ automation = [enabled |-> FALSE, auto_submit |-> FALSE]
      /\ worker = [t \in Users \union {Scheduler} |-> [pc |-> "idle"]]
  BY SameList DEF List!Init, List!Idle
<1>2. \A t \in DOMAIN worker : worker[t].pc = "idle"
  BY <1>1
<1>3. (\A t \in DOMAIN worker : RunTyped(t)) /\ \A t, u \in Rowed : t = u
  BY <1>2 DEF RunTyped, Rowed, Running
<1>4. tasks \in Seq(Rows)
  BY <1>1
<1> QED BY <1>1, <1>3, <1>4, ListBounds DEF ListInv

LEMMA ListInductive ==
  ASSUME ListAssumptions, ListInv, [List!Next]_(List!vars)
  PROVE  ListInv'
<1>1. CASE UNCHANGED List!vars
  <2>1. UNCHANGED <<items, automation, tasks, worker, runs, decided>>
    BY <1>1 DEF List!vars
  <2>2. /\ DOMAIN worker' = Users \union {Scheduler} /\ (\A u \in DOMAIN worker' : RunTyped(u)')
        /\ \A u, v \in Rowed' : u = v
    BY <2>1, RunsStay
  <2> QED BY <2>1, <2>2 DEF ListInv
<1>2. ASSUME NEW t \in Users \union {Scheduler}, List!RunStep(t) PROVE ListInv'
  BY <1>2, ListKeepsReading, ListKeepsExecuting, ListKeepsProcessing DEF List!RunStep
<1>3. CASE \/ \E n \in Namespaces, k \in 1..NumKeys : List!Import(n, k)
           \/ \E c \in Works, s \in Decisions : List!SetItemState(c, s)
           \/ List!ConfigureAutomation
  BY <1>3, ListKeepsItems
<1>4. CASE \/ \E c \in Works : List!SubmitAuthorizedMagnet(c)
           \/ \E i \in DOMAIN tasks : List!TaskMoves(i) \/ List!TaskFollows(i)
  BY <1>4, ListKeepsTasks
<1>5. CASE List!Reload
  BY <1>5, ListKeepsReloading
<1> QED BY <1>1, <1>2, <1>3, <1>4, <1>5, SameList DEF List!Next, List!Keys

LEMMA ListInvariant == ListAssumptions /\ List!Spec => []ListInv
<1>1. ListAssumptions /\ ListInv /\ [List!Next]_(List!vars) => ListInv'
  BY ListInductive
<1>2. ListAssumptions => []ListAssumptions
  OBVIOUS
<1> QED BY <1>1, <1>2, ListInitially, PTL DEF List!Spec

\* A run hands no key to the sources of which the user had called every item owned
\* or ignored when it read the list, whatever identities the imports gave the key
\* and whichever one the run looks for.
THEOREM DecidedAreLeftAlone == ListAssumptions /\ List!Spec => []DecidedAreLeft
<1>1. ListInv => DecidedAreLeft
  BY DEF ListInv, RunTyped, DecidedAreLeft, Running
<1> QED BY <1>1, ListInvariant, PTL

\* The rows are of the kinds the code writes, and of the runs of the profile that
\* work at the same time, which a reload allows, at most one has a running row.
THEOREM ListTypes == ListAssumptions /\ List!Spec => []List!TypeOK
<1>1. ASSUME ListAssumptions, ListInv PROVE List!TypeOK
  <2>1. Cardinality(Rowed) <= 1
    <3>1. \A t, u \in Rowed : t = u
      BY <1>1 DEF ListInv
    <3>2. CASE Rowed = {}
      BY <3>2, FS_EmptySet
    <3>3. CASE Rowed # {}
      <4>1. PICK t \in Rowed : TRUE
        BY <3>3
      <4>2. Rowed = {t}
        BY <3>1, <4>1
      <4>3. Cardinality({t}) = 1
        BY FS_Singleton
      <4> QED BY <4>2, <4>3
    <3> QED BY <3>2, <3>3
  <2>2. \A i \in DOMAIN tasks : tasks[i] \in Rows
    BY <1>1 DEF ListInv
  <2>3. \A t \in Users \union {Scheduler} : worker[t].pc \in {"idle", "execute", "items"}
    BY <1>1 DEF ListInv, RunTyped
  <2>4. /\ items \in [Works -> Decisions \union {"absent"}]
        /\ automation \in [enabled : BOOLEAN, auto_submit : BOOLEAN]
        /\ runs \in 0..MaxRuns /\ decided \subseteq Works
    BY <1>1 DEF ListInv
  <2> QED BY <2>1, <2>2, <2>3, <2>4, SameList DEF List!TypeOK, Rowed
<1>2. ListAssumptions => []ListAssumptions
  OBVIOUS
<1> QED BY <1>1, <1>2, ListInvariant, PTL
==============================================================================
