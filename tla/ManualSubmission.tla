--------------------------- MODULE ManualSubmission ---------------------------
(***************************************************************************)
(* Submissions by hand (manual.py): a magnet, with or without force, a     *)
(* magnet for an item of a watchlist, and a candidate of a preview.  Each  *)
(* looks for duplicates, chooses a generation, claims and audits in        *)
(* sessions of its own, beside the claims of runs and retries.             *)
(*                                                                         *)
(* What happens to a task after its claim is DownloadService's.            *)
(* The rows of contents and candidates that a request creates before its   *)
(* claim are keys here: nothing reads them before a task or an item        *)
(* refers to them.                                                         *)
(***************************************************************************)
EXTENDS Integers, Sequences, FiniteSets, FiniteSetsExt, TaskTable

CONSTANTS
  Threads,        \* threads of requests
  Numbers,        \* contents that runs and watchlists know
  Btihs,          \* candidates; a magnet is also a content of its own
  Profiles,
  Accepted,       \* <<content, btih>>: accepted by a run or a preview
  Forces,         \* whether a magnet is submitted with force: BOOLEAN
  MaxTasks,       \* bound: tasks when a request begins
  MaxFallbacks,   \* bound: tasks made by fallbacks
  MaxSeconds      \* bound: seconds that pass

KeysAssumption == Numbers \intersect Btihs = {} /\ Accepted \subseteq Numbers \X Btihs
BoundsAssumption ==
  Forces \subseteq BOOLEAN /\ {MaxTasks, MaxFallbacks, MaxSeconds} \subseteq Nat

VARIABLES
  audits,     \* the forced tasks that audit_events names
  thread,     \* where each request stands
  second      \* CURRENT_TIMESTAMP, which created_at is taken from

vars == <<tasks, audits, thread, second>>

Contents == Numbers \union Btihs
Idle == [pc |-> "idle"]
Become(t, state) == thread' = [thread EXCEPT ![t] = state]

TasksOf(btih) == {i \in DOMAIN tasks : tasks[i].btih = btih}

\* find_download_by_btih: the latest by created_at, which has whole seconds.
Duplicates(btih) ==
  {i \in TasksOf(btih) : \A j \in TasksOf(btih) : tasks[j].second <= tasks[i].second}

\* next_download_generation.
NextGeneration(content, btih) ==
  Max({0} \union {tasks[i].generation : i \in
        {j \in DOMAIN tasks : tasks[j].content = content \/ tasks[j].btih = btih}}) + 1

\* Mutant: the unique constraint on candidates is missing.
ContentConflict(content, btih, generation) ==
  \E i \in DOMAIN tasks : tasks[i].generation = generation /\ tasks[i].content = content

\* claim_download raises IdempotencyConflict.
Conflict(content, btih, generation) ==
  \E i \in DOMAIN tasks : /\ tasks[i].generation = generation
                          /\ tasks[i].content = content \/ tasks[i].btih = btih

\* resolve_task_destination.
TaskDestination(profile, btih) == <<profile, btih>>

\* claim_download raises DestinationBusy.
Busy(profile, btih) ==
  \E i \in DOMAIN tasks : /\ tasks[i].waiting
                          /\ TaskDestination(tasks[i].profile, tasks[i].btih) =
                               TaskDestination(profile, btih)

Task(content, btih, profile, generation, supersedes, by) ==
  [content |-> content, btih |-> btih, profile |-> profile, generation |-> generation,
   supersedes |-> supersedes, by |-> by, waiting |-> TRUE, second |-> second]

\* The identifier that claim_download returns.
NewTask == Len(tasks) + 1

------------------------------------------------------------------------------
(***************************************************************************)
(* A request.  "ordinary": submit_magnet without force, "forced": with it, *)
(* "authorized": submit_authorized_magnet, "number":                       *)
(* submit_number_candidate.                                                *)
(***************************************************************************)

Request(kind, content, btih, profile) ==
  [pc |-> IF kind = "number" THEN "claim" ELSE "check", kind |-> kind, content |-> content,
   btih |-> btih, profile |-> profile, generation |-> 0, supersedes |-> 0]

Begin(t) ==
  /\ thread[t] = Idle /\ Len(tasks) < MaxTasks
  /\ \E btih \in Btihs, profile \in Profiles :
       \/ Become(t, Request("ordinary", btih, btih, profile))
       \/ TRUE \in Forces /\ Become(t, Request("forced", btih, btih, profile))
       \/ \E n \in Numbers : Become(t, Request("authorized", n, btih, profile))
       \/ \E n \in Numbers : /\ <<n, btih>> \in Accepted
                             /\ Become(t, Request("number", n, btih, profile))
  /\ UNCHANGED <<tasks, audits, second>>

Refuse(t) == Become(t, Idle)

\* Mutant: force needs no task to replace.
ChecksNoForce(t) ==
  /\ thread[t].pc = "check"
  /\ IF thread[t].kind = "forced"
       THEN /\ Become(t, [thread[t] EXCEPT !.pc = "generation"])
     ELSE IF Duplicates(thread[t].btih) # {} THEN Refuse(t)
     ELSE Become(t, [thread[t] EXCEPT !.pc = "claim"])
  /\ UNCHANGED <<tasks, audits, second>>

\* find_download_by_btih and the two errors about force.
Checks(t) ==
  /\ thread[t].pc = "check"
  /\ LET found == Duplicates(thread[t].btih)
     IN  \/ /\ found # {} /\ thread[t].kind = "forced"
            /\ \E i \in found :
                 Become(t, [thread[t] EXCEPT !.pc = "generation", !.supersedes = i])
         \/ found # {} /\ thread[t].kind # "forced" /\ Refuse(t)
         \/ /\ found = {}
            /\ Become(t, IF thread[t].kind = "forced" THEN Idle
                         ELSE [thread[t] EXCEPT !.pc = "claim"])
  /\ UNCHANGED <<tasks, audits, second>>

ReadsGeneration(t) ==
  /\ thread[t].pc = "generation"
  /\ Become(t, [thread[t] EXCEPT !.pc = "claim",
                  !.generation = NextGeneration(thread[t].content, thread[t].btih)])
  /\ UNCHANGED <<tasks, audits, second>>

Claims(t) ==
  /\ thread[t].pc = "claim"
  /\ LET r == thread[t]
     IN  IF Conflict(r.content, r.btih, r.generation) \/ Busy(r.profile, r.btih)
           THEN Refuse(t) /\ UNCHANGED tasks
           ELSE /\ tasks' = Append(tasks, Task(r.content, r.btih, r.profile, r.generation,
                                               r.supersedes, r.kind))
                /\ Become(t, [pc |-> "submit", kind |-> r.kind, task |-> NewTask])
  /\ UNCHANGED <<audits, second>>

\* submit_candidate has returned; or it, or the audit, has raised.
Audits(t) ==
  /\ thread[t].pc = "submit"
  /\ audits' = audits \union (IF thread[t].kind = "forced" THEN {thread[t].task} ELSE {})
  /\ Become(t, Idle)
  /\ UNCHANGED <<tasks, second>>

SubmitFails(t) ==
  /\ thread[t].pc = "submit"
  /\ Become(t, Idle)
  /\ UNCHANGED <<tasks, audits, second>>

------------------------------------------------------------------------------
(***************************************************************************)
(* The others that claim, each at once, and what ends a task's wait.       *)
(***************************************************************************)

ClaimOf(content, btih, profile, generation, supersedes, by) ==
  /\ ~Conflict(content, btih, generation) /\ ~Busy(profile, btih)
  /\ tasks' = Append(tasks, Task(content, btih, profile, generation, supersedes, by))
  /\ UNCHANGED <<audits, thread, second>>

RunClaims ==
  /\ Len(tasks) < MaxTasks
  /\ \E c \in Accepted, p \in Profiles : ClaimOf(c[1], c[2], p, 0, 0, "run")

\* The refused task of a run is followed by the next accepted candidate.
Fallback ==
  /\ Len(tasks) < MaxTasks
  /\ Cardinality({i \in DOMAIN tasks : tasks[i].by = "fallback"}) < MaxFallbacks
  /\ \E i \in DOMAIN tasks, c \in Accepted :
       /\ tasks[i].by \in {"run", "fallback"} /\ ~tasks[i].waiting
       /\ c[1] = tasks[i].content /\ c[2] # tasks[i].btih
       /\ ClaimOf(c[1], c[2], tasks[i].profile, NextGeneration(c[1], c[2]), i, "fallback")

Retry ==
  /\ Len(tasks) < MaxTasks
  /\ \E i \in DOMAIN tasks :
       LET t == tasks[i]
       IN  ClaimOf(t.content, t.btih, t.profile, NextGeneration(t.content, t.btih), i, "retry")

\* The task owns files, or has ended.
StopsWaiting ==
  /\ \E i \in DOMAIN tasks :
       tasks[i].waiting /\ tasks' = [tasks EXCEPT ![i].waiting = FALSE]
  /\ UNCHANGED <<audits, thread, second>>

SecondPasses ==
  /\ second < MaxSeconds /\ second' = second + 1
  /\ UNCHANGED <<tasks, audits, thread>>

Crash ==
  /\ thread' = [t \in Threads |-> Idle]
  /\ UNCHANGED <<tasks, audits, second>>

------------------------------------------------------------------------------
Init ==
  /\ tasks = <<>> /\ audits = {} /\ second = 0
  /\ thread = [t \in Threads |-> Idle]

Step(t) ==
  \/ Begin(t) \/ Checks(t) \/ ReadsGeneration(t) \/ Claims(t) \/ Audits(t) \/ SubmitFails(t)

Next ==
  \/ \E t \in Threads : Step(t)
  \/ RunClaims \/ Fallback \/ Retry \/ StopsWaiting \/ SecondPasses \/ Crash

Spec == Init /\ [][Next]_vars

------------------------------------------------------------------------------
(* Properties.                                                             *)

Makers == {"ordinary", "forced", "authorized", "number", "run", "fallback", "retry"}
TaskRows ==
  [content : Contents, btih : Btihs, profile : Profiles, generation : Nat,
   supersedes : Nat, by : Makers, waiting : BOOLEAN, second : 0..MaxSeconds]

\* Every variable has its type; what is replaced or audited is there, and a
\* task comes after what it replaces.
TypeOK ==
  /\ tasks \in Seq(TaskRows) /\ audits \subseteq DOMAIN tasks
  /\ \A i \in DOMAIN tasks : tasks[i].supersedes < i
  /\ second \in 0..MaxSeconds
  /\ \A t \in Threads :
       /\ thread[t].pc \in {"idle", "check", "generation", "claim", "submit"}
       /\ thread[t].pc = "claim" => thread[t].supersedes <= Len(tasks)
       /\ thread[t].pc = "submit" => thread[t].task \in DOMAIN tasks
==============================================================================
