------------------------ MODULE ManualSubmission_proofs ------------------------
(***************************************************************************)
(* Proofs of the safety properties of ManualSubmission, for every set of   *)
(* threads, contents, candidates and profiles and every bound.             *)
(***************************************************************************)
EXTENDS ManualSubmission, FiniteSetTheorems, WellFoundedInduction, TLAPS

------------------------------------------------------------------------------
(***************************************************************************)
(* The invariant.                                                          *)
(***************************************************************************)

Requests == {"ordinary", "forced", "authorized", "number"}

\* A request waits in a state of its operation.
Asking ==
  [pc : {"check", "generation", "claim"}, kind : Requests, content : Contents,
   btih : Btihs, profile : Profiles, generation : Nat, supersedes : Nat]
ThreadStates == {Idle} \union Asking \union [pc : {"submit"}, kind : Requests, task : Nat]

Typed ==
  /\ tasks \in Seq(TaskRows) /\ audits \subseteq DOMAIN tasks
  /\ second \in 0..MaxSeconds
  /\ thread \in [Threads -> ThreadStates]

\* A task comes after the one that it replaces, and generations do not outrun
\* the tasks: there is a largest one to count on from.
TasksFollow ==
  \A i \in DOMAIN tasks : tasks[i].supersedes < i /\ tasks[i].generation < i

\* Task i is one that the request may replace.
Replaces(r, i, rows) == i \in DOMAIN rows /\ i # 0 /\ rows[i].btih = r.btih

\* What a request is about to claim.  Only force replaces a task, and then by one
\* of a later generation.
Sound(r, rows) ==
  /\ r.pc \in {"check", "generation", "claim"} =>
       r.generation <= Len(rows) /\ r.supersedes <= Len(rows)
  /\ r.pc = "generation" => r.kind = "forced" /\ Replaces(r, r.supersedes, rows)
  /\ r.pc = "claim" /\ r.kind = "forced" =>
       Replaces(r, r.supersedes, rows) /\ rows[r.supersedes].generation < r.generation
  /\ r.pc = "claim" /\ r.kind # "forced" => r.generation = 0
  /\ r.pc = "check" => r.generation = 0
  /\ r.pc = "submit" => r.task \in DOMAIN rows

RequestsAreSound == \A t \in Threads : Sound(thread[t], tasks)

\* What OrdinaryComesFirst says of the tasks as long as no run has fallen back.
UnforcedAreFirst ==
  \A i \in DOMAIN tasks : tasks[i].by \in {"ordinary", "authorized", "number"} =>
    ~ \E j \in 1..i - 1 : tasks[j].btih = tasks[i].btih

\* The first task of a candidate is of generation 0, unless a run fell back to it.
CandidatesBeginAtZero ==
  \A i \in DOMAIN tasks : \E j \in 1..i :
    tasks[j].btih = tasks[i].btih /\ tasks[j].generation = 0

ManualInv ==
  /\ Typed /\ TasksFollow /\ RequestsAreSound /\ ForcedAreLinked
  /\ NoFallbacks => CandidatesBeginAtZero /\ UnforcedAreFirst

------------------------------------------------------------------------------
(***************************************************************************)
(* The next generation.                                                    *)
(***************************************************************************)

Less == {ss \in Nat \X Nat : ss[1] < ss[2]}

\* A bounded set of numbers has a largest one: the least of its bounds.
LEMMA MaxOfBounded ==
  ASSUME NEW S \in SUBSET Nat, S # {}, NEW b \in Nat, \A x \in S : x <= b
  PROVE  Max(S) \in S /\ \A x \in S : x <= Max(S)
<1> DEFINE Bounds == {n \in Nat : \A x \in S : x <= n}
<1>1. PICK m \in Bounds : \A n \in Bounds : ~(<<n, m>> \in Less)
  <2>1. Bounds \subseteq Nat /\ Bounds # {}
    OBVIOUS
  <2>2. IsWellFoundedOn(Less, Nat)
    BY NatLessThanWellFounded DEF OpToRel, Less
  <2> HIDE DEF Bounds
  <2> QED BY <2>1, <2>2, WFMin
<1>2. m \in S
  <2>1. SUFFICES ASSUME m \notin S PROVE FALSE
    OBVIOUS
  <2>2. PICK x \in S : TRUE
    OBVIOUS
  <2>3. m \in Nat /\ m - 1 \in Nat /\ \A y \in S : y <= m - 1
    BY <2>1, <2>2
  <2>4. m - 1 \in Bounds
    BY <2>3
  <2>5. <<m - 1, m>> \in Less
    BY <2>3 DEF Less
  <2> QED BY <1>1, <2>4, <2>5
<1>3. \E x \in S : \A y \in S : x >= y
  BY <1>2
<1> QED BY <1>3 DEF Max

LEMMA TasksTyped ==
  ASSUME Typed
  PROVE  /\ Len(tasks) \in Nat /\ DOMAIN tasks = 1..Len(tasks)
         /\ \A i \in DOMAIN tasks :
              /\ tasks[i] \in TaskRows
              /\ tasks[i].content \in Contents /\ tasks[i].btih \in Btihs
              /\ tasks[i].profile \in Profiles /\ tasks[i].generation \in Nat
              /\ tasks[i].supersedes \in Nat
<1>1. Len(tasks) \in Nat /\ DOMAIN tasks = 1..Len(tasks)
  BY DEF Typed
<1>2. \A i \in DOMAIN tasks : tasks[i] \in TaskRows
  BY DEF Typed
<1> QED BY <1>1, <1>2 DEF TaskRows

\* The next generation is later than those of the candidate's tasks, and not
\* beyond the number of tasks.
LEMMA NextIsLater ==
  ASSUME Typed, TasksFollow, NEW content, NEW btih, tasks # <<>>
  PROVE  /\ NextGeneration(content, btih) \in 1..Len(tasks)
         /\ \A i \in DOMAIN tasks :
              tasks[i].btih = btih => tasks[i].generation < NextGeneration(content, btih)
<1> DEFINE Same == {j \in DOMAIN tasks : tasks[j].content = content \/ tasks[j].btih = btih}
           Generations == {0} \union {tasks[i].generation : i \in Same}
<1>1. Len(tasks) - 1 \in Nat
  BY TasksTyped DEF Typed
<1>2. Generations \in SUBSET Nat /\ Generations # {} /\ \A x \in Generations : x <= Len(tasks) - 1
  BY <1>1, TasksTyped DEF TasksFollow
<1>3. \A i \in DOMAIN tasks : tasks[i].btih = btih => tasks[i].generation \in Generations
  OBVIOUS
<1>4. NextGeneration(content, btih) = Max(Generations) + 1
  BY DEF NextGeneration
<1> HIDE DEF Generations
<1>5. Max(Generations) \in Generations /\ \A x \in Generations : x <= Max(Generations)
  BY <1>1, <1>2, MaxOfBounded
<1>6. Max(Generations) \in Nat /\ Max(Generations) <= Len(tasks) - 1
  BY <1>2, <1>5
<1>7. Max(Generations) + 1 \in 1..Len(tasks)
  BY <1>1, <1>6, TasksTyped
<1>8. \A i \in DOMAIN tasks : tasks[i].btih = btih => tasks[i].generation < Max(Generations) + 1
  <2>1. \A x \in Generations : x < Max(Generations) + 1
    BY <1>2, <1>5, <1>6
  <2> QED BY <1>3, <2>1
<1> QED BY <1>4, <1>7, <1>8

------------------------------------------------------------------------------
(***************************************************************************)
(* Requests.                                                               *)
(***************************************************************************)

LEMMA ThreadFields ==
  ASSUME thread \in [Threads -> ThreadStates], NEW t \in Threads
  PROVE  /\ thread[t].pc \in {"idle", "check", "generation", "claim", "submit"}
         /\ thread[t].pc \in {"check", "generation", "claim"} => thread[t] \in Asking
         /\ thread[t].pc = "submit" => thread[t].kind \in Requests /\ thread[t].task \in Nat
BY DEF ThreadStates, Asking, Idle

LEMMA Becoming ==
  ASSUME thread \in [Threads -> ThreadStates], NEW t \in Threads,
         NEW state \in ThreadStates, Become(t, state)
  PROVE  /\ thread' \in [Threads -> ThreadStates]
         /\ thread'[t] = state
         /\ \A u \in Threads \ {t} : thread'[u] = thread[u]
BY DEF Become

LEMMA IdleIsState == Idle \in ThreadStates /\ Idle.pc = "idle"
BY DEF ThreadStates, Idle

LEMMA IdleIsSound == \A rows : Sound(Idle, rows)
BY DEF Sound, Idle

\* Steps that only move a request.
LEMMA ThreadMoves ==
  ASSUME ManualInv, NEW t \in Threads, NEW state \in ThreadStates, Become(t, state),
         Sound(state, tasks), UNCHANGED <<tasks, second>>, audits' \subseteq DOMAIN tasks
  PROVE  ManualInv'
<1>1. /\ thread' \in [Threads -> ThreadStates]
      /\ thread'[t] = state
      /\ \A u \in Threads \ {t} : thread'[u] = thread[u]
  BY Becoming DEF ManualInv, Typed
<1>2. Typed'
  BY <1>1 DEF ManualInv, Typed
<1>3. RequestsAreSound'
  BY <1>1 DEF ManualInv, RequestsAreSound, Sound, Replaces
<1>4. /\ TasksFollow' /\ ForcedAreLinked'
      /\ NoFallbacks' => CandidatesBeginAtZero' /\ UnforcedAreFirst'
  BY DEF ManualInv, TasksFollow, ForcedAreLinked, NoFallbacks, CandidatesBeginAtZero,
         UnforcedAreFirst
<1> QED BY <1>2, <1>3, <1>4 DEF ManualInv

LEMMA BeginKeeps ==
  ASSUME ManualInv, NEW t \in Threads, Begin(t)
  PROVE  ManualInv'
<1>1. PICK kind \in Requests, content \in Contents, btih \in Btihs, profile \in Profiles :
        Become(t, Request(kind, content, btih, profile))
  BY DEF Begin, Requests, Contents
<1> DEFINE r == Request(kind, content, btih, profile)
<1>2. /\ r \in Asking /\ r.pc \in {"check", "claim"}
      /\ r.pc = "claim" => r.kind # "forced"
      /\ r.generation = 0 /\ r.supersedes = 0
  BY DEF Request, Asking, Requests
<1> HIDE DEF r
<1>3. r \in ThreadStates /\ Sound(r, tasks)
  BY <1>2, TasksTyped DEF ThreadStates, Sound, ManualInv
<1>4. UNCHANGED <<tasks, audits, second>>
  BY DEF Begin
<1> QED BY <1>1, <1>3, <1>4, ThreadMoves DEF r, ManualInv, Typed

LEMMA ChecksKeeps ==
  ASSUME ManualInv, NEW t \in Threads, Checks(t)
  PROVE  ManualInv'
<1> DEFINE r == thread[t]
           Forced(i) == [r EXCEPT !.pc = "generation", !.supersedes = i]
           Plain == [r EXCEPT !.pc = "claim"]
<1>1. /\ r.pc = "check" /\ UNCHANGED <<tasks, audits, second>>
      /\ \/ r.kind = "forced" /\ \E i \in Duplicates(r.btih) : Become(t, Forced(i))
         \/ Become(t, Idle)
         \/ r.kind # "forced" /\ Become(t, Plain)
  BY DEF Checks, Refuse
<1>2. r \in Asking /\ r.generation = 0 /\ r.supersedes <= Len(tasks)
  BY <1>1, ThreadFields DEF ManualInv, Typed, RequestsAreSound, Sound
<1>3. CASE r.kind = "forced" /\ \E i \in Duplicates(r.btih) : Become(t, Forced(i))
  <2>1. PICK i \in Duplicates(r.btih) : Become(t, Forced(i))
    BY <1>3
  <2>2. i \in DOMAIN tasks /\ tasks[i].btih = r.btih
    BY DEF Duplicates, TasksOf
  <2>3. i \in Nat /\ i # 0 /\ i <= Len(tasks) /\ Len(tasks) \in Nat
    BY <2>2, TasksTyped DEF ManualInv
  <2>4. /\ Forced(i) \in Asking /\ Forced(i).pc = "generation" /\ Forced(i).kind = "forced"
        /\ Forced(i).generation = 0 /\ Forced(i).supersedes = i /\ Forced(i).btih = r.btih
    BY <1>2, <1>3, <2>3 DEF Asking
  <2> HIDE DEF Forced, r
  <2>5. Forced(i) \in ThreadStates /\ Sound(Forced(i), tasks)
    BY <2>2, <2>3, <2>4 DEF ThreadStates, Sound, Replaces
  <2> QED BY <1>1, <2>1, <2>5, ThreadMoves DEF ManualInv, Typed
<1>4. CASE Become(t, Idle)
  BY <1>1, <1>4, IdleIsState, IdleIsSound, ThreadMoves DEF ManualInv, Typed
<1>5. CASE r.kind # "forced" /\ Become(t, Plain)
  <2>1. /\ Plain \in Asking /\ Plain.pc = "claim" /\ Plain.kind # "forced"
        /\ Plain.generation = 0 /\ Plain.supersedes = r.supersedes
    BY <1>2, <1>5 DEF Asking
  <2> HIDE DEF Plain, r
  <2>2. Plain \in ThreadStates /\ Sound(Plain, tasks)
    BY <1>2, <2>1, TasksTyped DEF ThreadStates, Sound, ManualInv
  <2> QED BY <1>1, <1>5, <2>2, ThreadMoves DEF ManualInv, Typed
<1> QED BY <1>1, <1>3, <1>4, <1>5

LEMMA GenerationKeeps ==
  ASSUME ManualInv, NEW t \in Threads, ReadsGeneration(t)
  PROVE  ManualInv'
<1> DEFINE r == thread[t]
           g == NextGeneration(r.content, r.btih)
           new == [r EXCEPT !.pc = "claim", !.generation = g]
<1>1. r.pc = "generation" /\ Become(t, new) /\ UNCHANGED <<tasks, audits, second>>
  BY DEF ReadsGeneration
<1>2. /\ r \in Asking /\ r.kind = "forced" /\ Replaces(r, r.supersedes, tasks)
      /\ r.supersedes <= Len(tasks)
  BY <1>1, ThreadFields DEF ManualInv, Typed, RequestsAreSound, Sound
<1>3. tasks # <<>>
  BY <1>2, TasksTyped DEF Replaces, ManualInv
<1>4. g \in 1..Len(tasks) /\ tasks[r.supersedes].generation < g
  BY <1>2, <1>3, NextIsLater DEF ManualInv, Replaces
<1> HIDE DEF g
<1>5. g \in Nat /\ g <= Len(tasks)
  BY <1>4, TasksTyped DEF ManualInv
<1>6. /\ new \in Asking /\ new.pc = "claim" /\ new.kind = "forced" /\ new.generation = g
      /\ new.supersedes = r.supersedes /\ new.btih = r.btih
  BY <1>2, <1>5 DEF Asking
<1> HIDE DEF new, r
<1>7. new \in ThreadStates /\ Sound(new, tasks)
  BY <1>2, <1>4, <1>5, <1>6 DEF ThreadStates, Sound, Replaces
<1> QED BY <1>1, <1>7, ThreadMoves DEF ManualInv, Typed

LEMMA SubmittedKeeps ==
  ASSUME ManualInv, NEW t \in Threads, Audits(t) \/ SubmitFails(t)
  PROVE  ManualInv'
<1>1. /\ thread[t].pc = "submit" /\ Become(t, Idle) /\ UNCHANGED <<tasks, second>>
      /\ audits' \subseteq audits \union {thread[t].task}
  BY DEF Audits, SubmitFails
<1>2. thread[t].task \in DOMAIN tasks
  BY <1>1 DEF ManualInv, RequestsAreSound, Sound
<1> QED BY <1>1, <1>2, IdleIsState, IdleIsSound, ThreadMoves DEF ManualInv, Typed

------------------------------------------------------------------------------
(***************************************************************************)
(* Claims.                                                                 *)
(***************************************************************************)

\* A task that may be added: what it replaces is there, and only force, retries
\* and fallbacks begin above generation 0.
Addable(row) ==
  /\ row \in TaskRows /\ row.supersedes <= Len(tasks) /\ row.generation <= Len(tasks)
  /\ ~Conflict(row.content, row.btih, row.generation)
  /\ row.by = "forced" => /\ row.supersedes \in DOMAIN tasks
                          /\ tasks[row.supersedes].btih = row.btih
                          /\ tasks[row.supersedes].generation < row.generation
  /\ row.by = "retry" => \E i \in DOMAIN tasks : tasks[i].btih = row.btih
  /\ row.by \notin {"forced", "retry", "fallback"} => row.generation = 0

LEMMA TaskAdded ==
  ASSUME ManualInv, NEW row, Addable(row), tasks' = Append(tasks, row)
  PROVE  /\ tasks' \in Seq(TaskRows) /\ Len(tasks') = Len(tasks) + 1
         /\ TasksFollow' /\ ForcedAreLinked'
         /\ NoFallbacks' => CandidatesBeginAtZero' /\ UnforcedAreFirst'
         /\ \A r \in ThreadStates : Sound(r, tasks) => Sound(r, tasks')
<1> DEFINE n == Len(tasks) + 1
<1>1. row \in TaskRows /\ row.supersedes \in Nat /\ row.generation \in Nat
  BY DEF Addable, TaskRows
<1>2. /\ Len(tasks) \in Nat /\ DOMAIN tasks = 1..Len(tasks)
      /\ \A i \in DOMAIN tasks : /\ tasks[i].generation \in Nat
                                 /\ tasks[i].supersedes \in Nat
  BY TasksTyped DEF ManualInv
<1>3. /\ tasks' \in Seq(TaskRows) /\ Len(tasks') = n
      /\ \A i \in DOMAIN tasks : tasks'[i] = tasks[i]
      /\ tasks'[n] = row
  BY <1>1, <1>2 DEF ManualInv, Typed
<1>4. /\ DOMAIN tasks' = DOMAIN tasks \union {n} /\ n \notin DOMAIN tasks /\ n \in Nat
      /\ DOMAIN tasks' = 1..n
  BY <1>2, <1>3
<1>5. TasksFollow'
  BY <1>1, <1>2, <1>3, <1>4 DEF ManualInv, TasksFollow, Addable
<1>6. ForcedAreLinked'
  <2>1. SUFFICES ASSUME NEW i \in DOMAIN tasks', tasks'[i].by = "forced"
                 PROVE  /\ tasks'[i].supersedes # 0
                        /\ tasks'[tasks'[i].supersedes].btih = tasks'[i].btih
                        /\ tasks'[tasks'[i].supersedes].generation < tasks'[i].generation
    BY DEF ForcedAreLinked
  <2>2. CASE i = n
    BY <1>2, <1>3, <2>1, <2>2 DEF Addable
  <2>3. CASE i \in DOMAIN tasks
    <3>1. /\ tasks[i].supersedes # 0
          /\ tasks[tasks[i].supersedes].btih = tasks[i].btih
          /\ tasks[tasks[i].supersedes].generation < tasks[i].generation
      BY <1>3, <2>1, <2>3 DEF ManualInv, ForcedAreLinked
    <3>2. tasks[i].supersedes \in DOMAIN tasks
      BY <1>2, <2>3, <3>1 DEF ManualInv, TasksFollow
    <3> QED BY <1>3, <2>3, <3>1, <3>2
  <2> QED BY <1>4, <2>2, <2>3
<1>7. ASSUME NoFallbacks' PROVE CandidatesBeginAtZero' /\ UnforcedAreFirst'
  <2>1. NoFallbacks /\ row.by # "fallback"
    BY <1>3, <1>4, <1>7 DEF NoFallbacks
  <2>2. /\ \A i \in DOMAIN tasks : \E j \in 1..i :
             tasks[j].btih = tasks[i].btih /\ tasks[j].generation = 0
        /\ UnforcedAreFirst
    BY <2>1 DEF ManualInv, CandidatesBeginAtZero
  <2>3. \A i \in DOMAIN tasks : 1..i \subseteq DOMAIN tasks
    BY <1>2
  <2>4. (\E i \in DOMAIN tasks : tasks[i].btih = row.btih) \/ row.generation = 0
    BY <2>1 DEF Addable
  <2>5. \E j \in 1..n : tasks'[j].btih = row.btih /\ tasks'[j].generation = 0
    <3>1. CASE \E i \in DOMAIN tasks : tasks[i].btih = row.btih
      <4>1. PICK i \in DOMAIN tasks : tasks[i].btih = row.btih
        BY <3>1
      <4>2. PICK j \in 1..i : tasks[j].btih = tasks[i].btih /\ tasks[j].generation = 0
        BY <2>2
      <4>3. j \in DOMAIN tasks /\ j \in 1..n
        BY <1>4, <2>3, <4>2
      <4> QED BY <1>3, <4>1, <4>2, <4>3
    <3>2. CASE row.generation = 0
      BY <1>3, <1>4, <3>2
    <3> QED BY <2>4, <3>1, <3>2
  <2>6. CandidatesBeginAtZero'
    BY <1>3, <1>4, <2>2, <2>3, <2>5 DEF CandidatesBeginAtZero
  <2>7. ASSUME row.by \in {"ordinary", "authorized", "number"}, NEW i \in DOMAIN tasks,
               tasks[i].btih = row.btih
        PROVE  FALSE
    <3>1. row.generation = 0
      BY <2>7 DEF Addable
    <3>2. PICK j \in 1..i : tasks[j].btih = tasks[i].btih /\ tasks[j].generation = 0
      BY <2>2, <2>7
    <3>3. j \in DOMAIN tasks
      BY <2>3, <2>7, <3>2
    <3> QED BY <2>7, <3>1, <3>2, <3>3 DEF Addable, Conflict
  <2>8. UnforcedAreFirst'
    <3>1. SUFFICES ASSUME NEW i \in DOMAIN tasks',
                          tasks'[i].by \in {"ordinary", "authorized", "number"},
                          NEW j \in 1..i - 1, tasks'[j].btih = tasks'[i].btih
                   PROVE  FALSE
      BY DEF UnforcedAreFirst
    <3>2. j \in DOMAIN tasks
      BY <1>2, <1>4, <3>1
    <3>3. CASE i = n
      BY <1>3, <2>7, <3>1, <3>2, <3>3
    <3>4. CASE i \in DOMAIN tasks
      BY <1>3, <2>2, <3>1, <3>2, <3>4 DEF UnforcedAreFirst
    <3> QED BY <1>4, <3>3, <3>4
  <2> QED BY <2>6, <2>8
<1>8. ASSUME NEW r \in ThreadStates, Sound(r, tasks) PROVE Sound(r, tasks')
  <2>1. r.pc \in {"check", "generation", "claim"} => r.generation \in Nat /\ r.supersedes \in Nat
    BY <1>8 DEF ThreadStates, Asking, Idle
  <2>2. r.pc \in {"check", "generation", "claim"} =>
          r.generation <= Len(tasks') /\ r.supersedes <= Len(tasks')
    BY <1>2, <1>3, <1>8, <2>1 DEF Sound
  <2>3. \A i : Replaces(r, i, tasks) => Replaces(r, i, tasks') /\ tasks'[i] = tasks[i]
    BY <1>3, <1>4 DEF Replaces
  <2> QED BY <1>4, <1>8, <2>2, <2>3 DEF Sound
<1> QED BY <1>3, <1>5, <1>6, <1>7, <1>8

\* A task is added by a request, which then submits it, or by another.
LEMMA AddingKeeps ==
  ASSUME ManualInv, NEW row, Addable(row), tasks' = Append(tasks, row),
         UNCHANGED <<audits, second>>,
         \/ thread' = thread
         \/ \E t \in Threads, kind \in Requests :
              Become(t, [pc |-> "submit", kind |-> kind, task |-> NewTask])
  PROVE  ManualInv'
<1>1. /\ tasks' \in Seq(TaskRows) /\ Len(tasks') = Len(tasks) + 1
      /\ TasksFollow' /\ ForcedAreLinked'
      /\ NoFallbacks' => CandidatesBeginAtZero' /\ UnforcedAreFirst'
      /\ \A r \in ThreadStates : Sound(r, tasks) => Sound(r, tasks')
  BY TaskAdded
<1>2. Len(tasks) \in Nat /\ DOMAIN tasks = 1..Len(tasks)
  BY TasksTyped DEF ManualInv
<1>3. NewTask \in Nat /\ NewTask \in DOMAIN tasks' /\ DOMAIN tasks \subseteq DOMAIN tasks'
  BY <1>1, <1>2 DEF NewTask
<1>4. \A t \in Threads : thread[t] \in ThreadStates /\ Sound(thread[t], tasks)
  BY DEF ManualInv, Typed, RequestsAreSound
<1>5. thread' \in [Threads -> ThreadStates] /\ \A u \in Threads : Sound(thread'[u], tasks')
  <2>1. CASE thread' = thread
    BY <1>1, <1>4, <2>1 DEF ManualInv, Typed
  <2>2. CASE \E t \in Threads, kind \in Requests :
               Become(t, [pc |-> "submit", kind |-> kind, task |-> NewTask])
    <3>1. PICK t \in Threads, kind \in Requests :
            Become(t, [pc |-> "submit", kind |-> kind, task |-> NewTask])
      BY <2>2
    <3> DEFINE state == [pc |-> "submit", kind |-> kind, task |-> NewTask]
    <3>2. state \in ThreadStates /\ state.pc = "submit" /\ state.task = NewTask
      BY <1>3 DEF ThreadStates
    <3> HIDE DEF state
    <3>3. /\ thread' \in [Threads -> ThreadStates]
          /\ thread'[t] = state
          /\ \A u \in Threads \ {t} : thread'[u] = thread[u]
      BY <3>1, <3>2, Becoming DEF ManualInv, Typed, state
    <3>4. state.task \in DOMAIN tasks'
      BY <1>3, <3>2
    <3>5. Sound(thread'[t], tasks')
      BY <3>2, <3>3, <3>4 DEF Sound
    <3> QED BY <1>1, <1>4, <3>3, <3>5
  <2> QED BY <2>1, <2>2
<1>6. RequestsAreSound'
  BY <1>5 DEF RequestsAreSound
<1>7. Typed'
  BY <1>1, <1>3, <1>5 DEF ManualInv, Typed
<1> QED BY <1>1, <1>6, <1>7 DEF ManualInv

\* The row of a claim.
LEMMA ClaimedRow ==
  ASSUME ManualInv, NEW content \in Contents, NEW btih \in Btihs, NEW profile \in Profiles,
         NEW generation \in Nat, NEW supersedes \in Nat, NEW by \in Makers
  PROVE  LET row == Task(content, btih, profile, generation, supersedes, by)
         IN  /\ row \in TaskRows
             /\ row.content = content /\ row.btih = btih /\ row.generation = generation
             /\ row.supersedes = supersedes /\ row.by = by
BY DEF Task, TaskRows, ManualInv, Typed

LEMMA ClaimsKeeps ==
  ASSUME ManualInv, NEW t \in Threads, Claims(t)
  PROVE  ManualInv'
<1> DEFINE r == thread[t]
           row == Task(r.content, r.btih, r.profile, r.generation, r.supersedes, r.kind)
<1>1. CASE Conflict(r.content, r.btih, r.generation) \/ Busy(r.profile, r.btih)
  <2>1. Become(t, Idle) /\ UNCHANGED <<tasks, audits, second>>
    BY <1>1 DEF Claims, Refuse
  <2> QED BY <2>1, IdleIsState, IdleIsSound, ThreadMoves DEF ManualInv, Typed
<1>2. CASE ~(Conflict(r.content, r.btih, r.generation) \/ Busy(r.profile, r.btih))
  <2>1. /\ tasks' = Append(tasks, row) /\ UNCHANGED <<audits, second>> /\ r.pc = "claim"
        /\ Become(t, [pc |-> "submit", kind |-> r.kind, task |-> NewTask])
    BY <1>2 DEF Claims
  <2>2. r \in Asking /\ Sound(r, tasks)
    BY <2>1, ThreadFields DEF ManualInv, Typed, RequestsAreSound
  <2>3. /\ r.content \in Contents /\ r.btih \in Btihs /\ r.profile \in Profiles
        /\ r.generation \in Nat /\ r.supersedes \in Nat /\ r.kind \in Requests
    BY <2>2 DEF Asking
  <2>4. r.kind \in Makers
    BY <2>3 DEF Requests, Makers
  <2>5. /\ row \in TaskRows
        /\ row.content = r.content /\ row.btih = r.btih /\ row.generation = r.generation
        /\ row.supersedes = r.supersedes /\ row.by = r.kind
    BY <2>3, <2>4, ClaimedRow
  <2> HIDE DEF row
  <2>6. Addable(row)
    BY <1>2, <2>1, <2>2, <2>3, <2>5 DEF Addable, Sound, Replaces, Requests
  <2> QED BY <2>1, <2>3, <2>6, AddingKeeps
<1> QED BY <1>1, <1>2

\* What others claim.
LEMMA OthersClaim ==
  ASSUME ManualInv, NEW content \in Contents, NEW btih \in Btihs, NEW profile \in Profiles,
         NEW generation \in Nat, NEW supersedes \in Nat, NEW by \in {"run", "fallback", "retry"},
         ClaimOf(content, btih, profile, generation, supersedes, by),
         supersedes <= Len(tasks), generation <= Len(tasks),
         by = "retry" => \E i \in DOMAIN tasks : tasks[i].btih = btih,
         by = "run" => generation = 0
  PROVE  ManualInv'
<1> DEFINE row == Task(content, btih, profile, generation, supersedes, by)
<1>1. /\ ~Conflict(content, btih, generation) /\ tasks' = Append(tasks, row)
      /\ UNCHANGED <<audits, thread, second>>
  BY DEF ClaimOf
<1>2. by \in Makers
  BY DEF Makers
<1>3. /\ row \in TaskRows
      /\ row.content = content /\ row.btih = btih /\ row.generation = generation
      /\ row.supersedes = supersedes /\ row.by = by
  BY <1>2, ClaimedRow
<1> HIDE DEF row
<1>4. Addable(row)
  BY <1>1, <1>3 DEF Addable
<1> QED BY <1>1, <1>4, AddingKeeps

LEMMA OthersKeep ==
  ASSUME KeysAssumption, ManualInv, RunClaims \/ Fallback \/ Retry
  PROVE  ManualInv'
<1>1. \A c \in Accepted : c[1] \in Contents /\ c[2] \in Btihs
  BY DEF KeysAssumption, Contents
<1>2. Len(tasks) \in Nat
  BY TasksTyped DEF ManualInv
<1>3. CASE RunClaims
  <2>1. PICK c \in Accepted, p \in Profiles : ClaimOf(c[1], c[2], p, 0, 0, "run")
    BY <1>3 DEF RunClaims
  <2> QED BY <1>1, <1>2, <2>1, OthersClaim
<1>4. ASSUME NEW i \in DOMAIN tasks, NEW content, NEW btih
      PROVE  /\ NextGeneration(content, btih) \in Nat
             /\ NextGeneration(content, btih) <= Len(tasks)
             /\ i \in Nat /\ i <= Len(tasks)
  <2>1. tasks # <<>>
    BY <1>2, <1>4, TasksTyped DEF ManualInv
  <2>2. NextGeneration(content, btih) \in 1..Len(tasks)
    BY <2>1, NextIsLater DEF ManualInv
  <2>3. i \in 1..Len(tasks)
    BY TasksTyped DEF ManualInv
  <2> QED BY <1>2, <2>2, <2>3
<1>5. CASE Fallback
  <2>1. PICK i \in DOMAIN tasks, c \in Accepted :
          ClaimOf(c[1], c[2], tasks[i].profile, NextGeneration(c[1], c[2]), i, "fallback")
    BY <1>5 DEF Fallback
  <2>2. tasks[i].profile \in Profiles
    BY TasksTyped DEF ManualInv
  <2> QED BY <1>1, <1>4, <2>1, <2>2, OthersClaim
<1>6. CASE Retry
  <2>1. PICK i \in DOMAIN tasks :
          ClaimOf(tasks[i].content, tasks[i].btih, tasks[i].profile,
                  NextGeneration(tasks[i].content, tasks[i].btih), i, "retry")
    BY <1>6 DEF Retry
  <2>2. /\ tasks[i].content \in Contents /\ tasks[i].btih \in Btihs
        /\ tasks[i].profile \in Profiles
    BY TasksTyped DEF ManualInv
  <2> QED BY <1>4, <2>1, <2>2, OthersClaim
<1> QED BY <1>3, <1>5, <1>6

------------------------------------------------------------------------------
(***************************************************************************)
(* The rest.                                                               *)
(***************************************************************************)

LEMMA StopsKeeps ==
  ASSUME ManualInv, StopsWaiting
  PROVE  ManualInv'
<1>1. PICK i \in DOMAIN tasks : tasks' = [tasks EXCEPT ![i].waiting = FALSE]
  BY DEF StopsWaiting
<1> DEFINE row == [tasks[i] EXCEPT !.waiting = FALSE]
<1>2. tasks[i] \in TaskRows
  BY TasksTyped DEF ManualInv
<1>3. /\ row \in TaskRows /\ row.btih = tasks[i].btih /\ row.by = tasks[i].by
      /\ row.generation = tasks[i].generation /\ row.supersedes = tasks[i].supersedes
  BY <1>2 DEF TaskRows
<1>4. tasks' = [tasks EXCEPT ![i] = row]
  BY <1>1
<1> HIDE DEF row
<1>5. /\ tasks' \in Seq(TaskRows) /\ Len(tasks') = Len(tasks) /\ DOMAIN tasks' = DOMAIN tasks
      /\ tasks'[i] = row /\ \A j \in DOMAIN tasks \ {i} : tasks'[j] = tasks[j]
  BY <1>3, <1>4 DEF ManualInv, Typed
<1>6. \A j \in DOMAIN tasks : /\ tasks'[j].btih = tasks[j].btih /\ tasks'[j].by = tasks[j].by
                              /\ tasks'[j].generation = tasks[j].generation
                              /\ tasks'[j].supersedes = tasks[j].supersedes
  BY <1>3, <1>5
<1>7. UNCHANGED <<audits, thread, second>>
  BY DEF StopsWaiting
<1>8. Typed' /\ TasksFollow'
  BY <1>5, <1>6, <1>7 DEF ManualInv, Typed, TasksFollow
<1>9. RequestsAreSound'
  BY <1>5, <1>6, <1>7 DEF ManualInv, RequestsAreSound, Sound, Replaces
<1>10. \A j \in DOMAIN tasks : 1..j \subseteq DOMAIN tasks
  BY TasksTyped DEF ManualInv
<1>11. ForcedAreLinked'
  <2>1. SUFFICES ASSUME NEW j \in DOMAIN tasks, tasks[j].by = "forced"
                 PROVE  /\ tasks'[j].supersedes # 0
                        /\ tasks'[tasks'[j].supersedes].btih = tasks'[j].btih
                        /\ tasks'[tasks'[j].supersedes].generation < tasks'[j].generation
    BY <1>5, <1>6 DEF ForcedAreLinked
  <2>2. tasks[j].supersedes # 0 /\ tasks[j].supersedes \in DOMAIN tasks
    BY <2>1, TasksTyped DEF ManualInv, ForcedAreLinked, TasksFollow
  <2> QED BY <1>6, <2>1, <2>2 DEF ManualInv, ForcedAreLinked
<1>12. NoFallbacks' => CandidatesBeginAtZero' /\ UnforcedAreFirst'
  <2>1. ASSUME NoFallbacks' PROVE CandidatesBeginAtZero /\ UnforcedAreFirst
    BY <1>5, <1>6, <2>1 DEF ManualInv, NoFallbacks
  <2>2. CandidatesBeginAtZero => CandidatesBeginAtZero'
    BY <1>5, <1>6, <1>10 DEF CandidatesBeginAtZero
  <2>3. UnforcedAreFirst => UnforcedAreFirst'
    <3>1. \A j \in DOMAIN tasks : 1..j - 1 \subseteq DOMAIN tasks
      BY <1>10, TasksTyped DEF ManualInv
    <3> QED BY <1>5, <1>6, <3>1 DEF UnforcedAreFirst
  <2> QED BY <2>1, <2>2, <2>3
<1> QED BY <1>8, <1>9, <1>11, <1>12 DEF ManualInv

LEMMA NextManual ==
  ASSUME KeysAssumption, BoundsAssumption, ManualInv, [Next]_vars
  PROVE  ManualInv'
<1>1. CASE \E t \in Threads : Step(t)
  BY <1>1, BeginKeeps, ChecksKeeps, GenerationKeeps, ClaimsKeeps, SubmittedKeeps DEF Step
<1>2. CASE RunClaims \/ Fallback \/ Retry
  BY <1>2, OthersKeep
<1>3. CASE StopsWaiting
  BY <1>3, StopsKeeps
<1>4. CASE SecondPasses \/ Crash \/ UNCHANGED vars
  <2>1. UNCHANGED <<tasks, audits>>
    BY <1>4 DEF SecondPasses, Crash, vars
  <2>2. second' \in 0..MaxSeconds
    BY <1>4 DEF SecondPasses, Crash, vars, ManualInv, Typed, BoundsAssumption
  <2>3. thread' \in [Threads -> ThreadStates] /\ \A t \in Threads : thread'[t] \in {Idle, thread[t]}
    BY <1>4, IdleIsState DEF SecondPasses, Crash, vars, ManualInv, Typed
  <2>4. Typed'
    BY <2>1, <2>2, <2>3 DEF ManualInv, Typed
  <2>5. RequestsAreSound'
    BY <2>1, <2>3, IdleIsSound DEF ManualInv, RequestsAreSound
  <2> QED
    BY <2>1, <2>4, <2>5 DEF ManualInv, TasksFollow, ForcedAreLinked, NoFallbacks,
                            CandidatesBeginAtZero, UnforcedAreFirst
<1> QED BY <1>1, <1>2, <1>3, <1>4 DEF Next

LEMMA InitManual == ASSUME BoundsAssumption, Init PROVE ManualInv
<1>1. tasks \in Seq(TaskRows) /\ DOMAIN tasks = {} /\ audits = {}
  BY DEF Init
<1>2. second \in 0..MaxSeconds
  BY DEF Init, BoundsAssumption
<1>3. thread \in [Threads -> ThreadStates] /\ \A t \in Threads : thread[t] = Idle
  BY IdleIsState DEF Init
<1>4. Typed
  BY <1>1, <1>2, <1>3 DEF Typed
<1>5. RequestsAreSound
  BY <1>3, IdleIsSound DEF RequestsAreSound
<1> QED
  BY <1>1, <1>4, <1>5 DEF ManualInv, TasksFollow, ForcedAreLinked, CandidatesBeginAtZero,
                          UnforcedAreFirst

------------------------------------------------------------------------------
(***************************************************************************)
(* The theorems.                                                           *)
(***************************************************************************)

\* Every variable has its type, and a task comes after what it replaces.
THEOREM ManualTyped ==
  ASSUME KeysAssumption, BoundsAssumption
  PROVE  Spec => []TypeOK
<1>1. ManualInv => TypeOK
  BY ThreadFields DEF ManualInv, Typed, TasksFollow, RequestsAreSound, Sound, TypeOK
<1> QED BY <1>1, InitManual, NextManual, PTL DEF Spec

\* A forced task replaces a task of its BTIH and is of a later generation,
\* whatever has been claimed since the request looked.
THEOREM ForceLinks ==
  ASSUME KeysAssumption, BoundsAssumption
  PROVE  Spec => []ForcedAreLinked
<1>1. ManualInv => ForcedAreLinked
  BY DEF ManualInv
<1> QED BY <1>1, InitManual, NextManual, PTL DEF Spec

\* While no run has fallen back to another candidate, a task that was submitted by
\* hand without force is the first of its BTIH.
THEOREM OrdinaryIsFirst ==
  ASSUME KeysAssumption, BoundsAssumption
  PROVE  Spec => []OrdinaryComesFirst
<1>1. ManualInv => OrdinaryComesFirst
  BY DEF ManualInv, OrdinaryComesFirst, UnforcedAreFirst
<1> QED BY <1>1, InitManual, NextManual, PTL DEF Spec
==============================================================================
