------------------------------ MODULE ProviderHttp ------------------------------
(***************************************************************************)
(* The HTTP client that all sources share (providers/http.py), the runner  *)
(* that isolates their failures (providers/runner.py), the rows of         *)
(* source_health (db/repository.py), and the end of a run or of the client *)
(* (runs/service.py, runtime.py).                                          *)
(*                                                                         *)
(* Threads execute runs, one run each at a time.  A request holds the      *)
(* client's lock from the look into the caches to the answer, its waits    *)
(* and retries included.  A reload makes a new client and closes the old   *)
(* one under the requests that still wait in it.                           *)
(***************************************************************************)
EXTENDS Integers, FiniteSets, ServedAnswers

CONSTANTS
  Threads,     \* threads that execute runs
  NoThread,    \* no holder of a lock
  Runs,        \* run_id
  Sources,     \* provider.name
  Keys,        \* _cache_key of a request
  Interval,    \* min_interval_seconds
  Retries,     \* retries
  Backoff,     \* backoff_seconds
  MaxTime,     \* bound: the clock
  MaxAnswers,  \* bound: answers received
  MaxClients,  \* bound: clients built
  MaxFaults    \* bound: runs whose end is not recorded

HolderAssumption == NoThread \notin Threads
TimesAssumption == {Interval, TTL, Retries, Backoff} \subseteq Nat
BoundsAssumption ==
  {MaxTime, MaxAnswers, MaxFaults} \subseteq Nat /\ MaxClients \in Nat \ {0}

VARIABLES
  now,
  client,      \* the runtime's client: the number of clients built
  holder,      \* the thread that holds each client's lock
  last,        \* _last_request_at of each client
  ttlCache,    \* _ttl_cache: key -> expiry and answer, of each client
  thread,      \* where each thread stands
  health,      \* source_health
  answers      \* answers received so far, by which they are known

client_ == <<client, holder, last, runCache, ttlCache>>
vars == <<now, client, holder, last, runCache, ttlCache, thread, ended, health,
          answers, unfinished, served>>

Clients == 1..MaxClients
Never == -1
Answers == [number : 1..MaxAnswers, received : 0..MaxTime]
\* consecutive_failures matters by whether it is 0.
Fresh == [checked |-> Never, failing |-> FALSE]

Idle == [pc |-> "idle"]
Waiting(t) == thread[t].pc \in {"call", "attempt", "answer"}

Become(t, state) == thread' = [thread EXCEPT ![t] = state]
Update(f, x, y) == [z \in DOMAIN f \union {x} |-> IF z = x THEN y ELSE f[z]]

\* What a thread in a provider knows.
At(t, pc) ==
  [pc |-> pc, run |-> thread[t].run, client |-> thread[t].client,
   source |-> thread[t].source]
Asking(t, pc, key, attempt, from) ==
  [pc |-> pc, run |-> thread[t].run, client |-> thread[t].client,
   source |-> thread[t].source, key |-> key, attempt |-> attempt, from |-> from]

Serve(t, key, answer) ==
  served' = served \union {[run |-> thread[t].run, key |-> key, answer |-> answer, at |-> now]}

------------------------------------------------------------------------------
(***************************************************************************)
(* ProviderRunner._run: one source after the other.                        *)
(***************************************************************************)

StartRun(t, r) ==
  /\ thread[t] = Idle
  /\ r \notin ended /\ {u \in Threads : thread[u] # Idle /\ thread[u].run = r} = {}
  /\ Become(t, [pc |-> "run", run |-> r, client |-> client])
  /\ UNCHANGED <<now, client_, ended, health, answers, unfinished, served>>

Operation(t, s) ==
  /\ thread[t].pc = "run"
  /\ Become(t, [pc |-> "source", run |-> thread[t].run, client |-> thread[t].client,
                source |-> s])
  /\ UNCHANGED <<now, client_, ended, health, answers, unfinished, served>>

\* The operation ends, with values or with an error of its own (a page that it
\* cannot parse): the time is taken...
OperationEnds(t) ==
  /\ thread[t].pc = "source"
  /\ \E ok \in BOOLEAN :
       Become(t, [pc |-> "report", run |-> thread[t].run, client |-> thread[t].client,
                  source |-> thread[t].source, checked |-> now, ok |-> ok])
  /\ UNCHANGED <<now, client_, ended, health, answers, unfinished, served>>

\* ...and record_source_success or record_source_failure writes it later.
Report(t) ==
  /\ thread[t].pc = "report"
  /\ health' = [health EXCEPT ![thread[t].source] =
       [checked |-> thread[t].checked,
        failing |-> ~thread[t].ok]]
  /\ Become(t, [pc |-> "run", run |-> thread[t].run, client |-> thread[t].client])
  /\ UNCHANGED <<now, client_, ended, answers, unfinished, served>>

\* Mutant: the cache of the current client is cleared, not that of the run's.
FinishRunElsewhere(t) ==
  /\ thread[t].pc = "run"
  /\ holder[client] = NoThread
  /\ runCache' = [runCache EXCEPT ![client] =
       [k \in {k \in DOMAIN @ : k[1] # thread[t].run} |-> @[k]]]
  /\ ended' = ended \union {thread[t].run}
  /\ Become(t, Idle)
  /\ UNCHANGED <<now, client, holder, last, ttlCache, health, answers, unfinished, served>>

\* RunService._finish_provider_run, at the end of a run
FinishRun(t) ==
  /\ thread[t].pc = "run"
  /\ LET c == thread[t].client IN
       /\ holder[c] = NoThread
       /\ runCache' = [runCache EXCEPT ![c] =
            [k \in {k \in DOMAIN @ : k[1] # thread[t].run} |-> @[k]]]
  /\ ended' = ended \union {thread[t].run}
  /\ Become(t, Idle)
  /\ UNCHANGED <<now, client, holder, last, ttlCache, health, answers, unfinished, served>>

\* Repository.finish_run raises before it.
FinishFails(t) ==
  /\ thread[t].pc = "run" /\ Cardinality(unfinished) < MaxFaults
  /\ unfinished' = unfinished \union {thread[t].run}
  /\ ended' = ended \union {thread[t].run}
  /\ Become(t, Idle)
  /\ UNCHANGED <<now, client_, health, answers, served>>

------------------------------------------------------------------------------
(***************************************************************************)
(* ProviderHttpClient.request.                                             *)
(***************************************************************************)

Request(t, k) ==
  /\ thread[t].pc = "source"
  /\ Become(t, Asking(t, "call", k, 0, now))
  /\ UNCHANGED <<now, client_, ended, health, answers, unfinished, served>>

Alive(cache) == {k \in DOMAIN cache : cache[k].until > now}

\* The lock, then the caches.  What is found in the second is kept in the first.
FindInRun(t) ==
  /\ thread[t].pc = "call"
  /\ LET c == thread[t].client  k == <<thread[t].run, thread[t].key>> IN
       /\ holder[c] = NoThread /\ k \in DOMAIN runCache[c]
       /\ Serve(t, thread[t].key, runCache[c][k])
  /\ Become(t, At(t, "source"))
  /\ UNCHANGED <<now, client_, ended, health, answers, unfinished>>

FindInTTL(t) ==
  /\ thread[t].pc = "call"
  /\ LET c == thread[t].client  k == thread[t].key IN
       /\ holder[c] = NoThread
       /\ <<thread[t].run, k>> \notin DOMAIN runCache[c]
       /\ k \in Alive(ttlCache[c])
       /\ ttlCache' = [ttlCache EXCEPT ![c] = [u \in Alive(@) |-> @[u]]]
       /\ runCache' = [runCache EXCEPT ![c] =
                         Update(@, <<thread[t].run, k>>, ttlCache[c][k].answer)]
       /\ Serve(t, k, ttlCache[c][k].answer)
  /\ Become(t, At(t, "source"))
  /\ UNCHANGED <<now, client, holder, last, ended, health, answers, unfinished>>

Miss(t) ==
  /\ thread[t].pc = "call"
  /\ LET c == thread[t].client  k == thread[t].key IN
       /\ holder[c] = NoThread
       /\ <<thread[t].run, k>> \notin DOMAIN runCache[c]
       /\ k \notin Alive(ttlCache[c])
       /\ ttlCache' = [ttlCache EXCEPT ![c] = [u \in Alive(@) |-> @[u]]]
       /\ holder' = [holder EXCEPT ![c] = t]
  /\ Become(t, [thread[t] EXCEPT !.pc = "attempt"])
  /\ UNCHANGED <<now, client, last, runCache, ended, health, answers, unfinished, served>>

\* _rate_limit: the sleep is over.
RateLimit(t) ==
  \/ last[thread[t].client] = Never
  \/ now >= last[thread[t].client] + Interval

\* The request goes out, after the wait of a retry and that of the interval.
Send(t) ==
  /\ thread[t].pc = "attempt" /\ now >= thread[t].from
  /\ thread[t].client = client
  /\ RateLimit(t)
  /\ last' = [last EXCEPT ![thread[t].client] = now]
  /\ Become(t, [thread[t] EXCEPT !.pc = "answer"])
  /\ UNCHANGED <<now, client, holder, runCache, ttlCache, ended, health, answers,
                 unfinished, served>>

\* The lock is free again, whatever the outcome.
Release(t) == holder' = [holder EXCEPT ![thread[t].client] = NoThread]

\* A client that is closed raises: no retry.
Closed(t) ==
  /\ thread[t].pc = "attempt" /\ thread[t].client # client
  /\ Release(t)
  /\ Become(t, At(t, "failed"))
  /\ UNCHANGED <<now, client, last, runCache, ttlCache, ended, health, answers,
                 unfinished, served>>

\* Mutant: what was received is kept for the time to live only.
ReceivedForOthers(t) ==
  /\ thread[t].pc = "answer" /\ answers < MaxAnswers
  /\ answers' = answers + 1
  /\ LET c == thread[t].client  k == thread[t].key
         answer == [number |-> answers', received |-> now] IN
       /\ ttlCache' = [ttlCache EXCEPT ![c] =
            IF TTL > 0 THEN Update(@, k, [until |-> now + TTL, answer |-> answer]) ELSE @]
       /\ Serve(t, k, answer)
  /\ Release(t)
  /\ Become(t, At(t, "source"))
  /\ UNCHANGED <<now, client, last, ended, health, unfinished, runCache>>

Received(t) ==
  /\ thread[t].pc = "answer" /\ answers < MaxAnswers
  /\ answers' = answers + 1
  /\ LET c == thread[t].client  k == thread[t].key
         answer == [number |-> answers', received |-> now] IN
       /\ runCache' = [runCache EXCEPT ![c] = Update(@, <<thread[t].run, k>>, answer)]
       /\ ttlCache' = [ttlCache EXCEPT ![c] =
            IF TTL > 0 THEN Update(@, k, [until |-> now + TTL, answer |-> answer]) ELSE @]
       /\ Serve(t, k, answer)
  /\ Release(t)
  /\ Become(t, At(t, "source"))
  /\ UNCHANGED <<now, client, last, ended, health, unfinished>>

\* A transient status or an error of the network: another attempt, later.
Retry(t) ==
  /\ thread[t].pc = "answer" /\ thread[t].attempt < Retries
  /\ Become(t, Asking(t, "attempt", thread[t].key, thread[t].attempt + 1,
                      now + Backoff * 2 ^ thread[t].attempt))
  /\ UNCHANGED <<now, client_, ended, health, answers, unfinished, served>>

\* Mutant: the last error leaves the lock taken.
FailsLocked(t) ==
  /\ thread[t].pc = "answer"
  /\ Become(t, At(t, "failed"))
  /\ UNCHANGED <<now, client_, ended, health, answers, unfinished, served>>

\* The last attempt fails, or an answer that no retry would change.
Fails(t) ==
  /\ thread[t].pc = "answer"
  /\ Release(t)
  /\ Become(t, At(t, "failed"))
  /\ UNCHANGED <<now, client, last, runCache, ttlCache, ended, health, answers,
                 unfinished, served>>

\* ProviderError ends the operation of the source.
SourceFails(t) ==
  /\ thread[t].pc = "failed"
  /\ Become(t, [pc |-> "report", run |-> thread[t].run, client |-> thread[t].client,
                source |-> thread[t].source, checked |-> now, ok |-> FALSE])
  /\ UNCHANGED <<now, client_, ended, health, answers, unfinished, served>>

------------------------------------------------------------------------------
\* RuntimeManager.reload: a new client, and close of the old one
Reload ==
  /\ client < MaxClients /\ client' = client + 1
  /\ UNCHANGED <<now, holder, last, runCache, ttlCache, thread, ended, health,
                 answers, unfinished, served>>

Tick ==
  /\ now < MaxTime /\ now' = now + 1
  /\ UNCHANGED <<client_, thread, ended, health, answers, unfinished, served>>

Init ==
  /\ now = 0 /\ client = 1
  /\ holder = [c \in Clients |-> NoThread]
  /\ last = [c \in Clients |-> Never]
  /\ runCache = [c \in Clients |-> [k \in {} |-> Never]]
  /\ ttlCache = [c \in Clients |-> [k \in {} |-> Never]]
  /\ thread = [t \in Threads |-> Idle]
  /\ ended = {} /\ health = [s \in Sources |-> Fresh]
  /\ answers = 0 /\ unfinished = {} /\ served = {}

Look(t) == FindInRun(t) \/ FindInTTL(t) \/ Miss(t)
Call(t) ==
  \/ Look(t) \/ Send(t) \/ Closed(t) \/ Received(t)
  \/ Retry(t) \/ Fails(t)

Runner(t) ==
  \/ \E r \in Runs : StartRun(t, r)
  \/ \E s \in Sources : Operation(t, s)
  \/ \E k \in Keys : Request(t, k)
  \/ OperationEnds(t) \/ SourceFails(t) \/ Report(t) \/ FinishRun(t) \/ FinishFails(t)

Next == (\E t \in Threads : Runner(t) \/ Call(t)) \/ Reload \/ Tick

Spec == Init /\ [][Next]_vars

------------------------------------------------------------------------------
(***************************************************************************)
(* Properties.                                                             *)
(***************************************************************************)

RunKeys == Runs \X Keys

\* Every variable has its type; a thread that asks over the network holds the
\* lock of its client.
TypeOK ==
  /\ now \in 0..MaxTime /\ client \in Clients
  /\ holder \in [Clients -> Threads \union {NoThread}]
  /\ last \in [Clients -> 0..MaxTime \union {Never}]
  /\ \A c \in Clients :
       /\ DOMAIN runCache[c] \subseteq RunKeys
       /\ \A k \in DOMAIN runCache[c] : runCache[c][k] \in Answers
       /\ DOMAIN ttlCache[c] \subseteq Keys
       /\ \A k \in DOMAIN ttlCache[c] :
            ttlCache[c][k] \in [until : Nat, answer : Answers]
  /\ \A t \in Threads :
       thread[t].pc \in {"attempt", "answer"} => holder[thread[t].client] = t
  /\ \A c \in Clients :
       holder[c] # NoThread =>
         /\ thread[holder[c]].pc \in {"attempt", "answer"}
         /\ thread[holder[c]].client = c
  /\ ended \subseteq Runs /\ unfinished \subseteq ended
  /\ health \in [Sources -> [checked : 0..MaxTime \union {Never}, failing : BOOLEAN]]
  /\ answers \in 0..MaxAnswers

\* A request comes back, with an answer or an error, also when the client is
\* closed under it.
CallsReturn ==
  \A t \in Threads :
    Waiting(t) ~> \/ ~Waiting(t)
                  \/ now = MaxTime /\ \E u \in Threads : thread[u].pc = "attempt"
==============================================================================
