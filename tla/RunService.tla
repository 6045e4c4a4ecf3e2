------------------------------ MODULE RunService ------------------------------
(***************************************************************************)
(* Runs of profiles (runs/service.py, the run half of db/repository.py)    *)
(* and the life of the services that execute them (runtime.py,             *)
(* scheduler.py): reloads after a change of the settings, crashes and      *)
(* restarts.                                                               *)
(*                                                                         *)
(* A reload builds a new RunService, with locks and slots of its own.  It  *)
(* waits for the jobs of the old scheduler, but not for the threads of the *)
(* API, which go on in the service they have read.  A service is numbered  *)
(* by the order in which its process built it.                             *)
(***************************************************************************)
EXTENDS Integers, FiniteSets

CONSTANTS
  Profiles,     \* profile_id
  Callers,      \* threads of the API
  Workers,      \* threads of the scheduler's executor
  Slots,        \* max_concurrent_runs
  MaxRuns,      \* bound: rows of the table
  MaxServices,  \* bound: services built by one process
  MaxCrashes,   \* bound: crashes of the process
  MaxFaults     \* bound: failed database calls

ASSUME ThreadsAssumption == Callers \intersect Workers = {} /\ IsFiniteSet(Callers \union Workers)
ASSUME SlotsAssumption == Slots \in Nat /\ Slots > 0
ASSUME BoundsAssumption == {MaxRuns, MaxServices, MaxCrashes, MaxFaults} \subseteq Nat

VARIABLES
  table,       \* runs: run id -> profile and status
  current,     \* RuntimeManager.run_service, 0 for None
  scheduling,  \* the service the running scheduler gives jobs to, 0 for none
  built,       \* the services built by this process
  locked,      \* the profile locks that are held: <<service, profile>>
  slots,       \* the free slots of each service
  thread,      \* where each thread stands
  reload,      \* where the holder of the runtime's lock stands
  serving,     \* the application has started
  crashes, faults

runtime == <<current, scheduling, built, reload, serving>>
limits == <<locked, slots>>
vars == <<table, runtime, limits, thread, crashes, faults>>

Threads == Callers \union Workers
Services == 1..MaxServices

\* finished: success, partial or failed, by finish_run; interrupted: failed, by
\* fail_interrupted_runs.
Ended == {"finished", "interrupted"}

Idle == [pc |-> "idle"]
ThreadStates ==
  {Idle}
  \union [pc : {"lock", "slot", "create", "leave", "unlock"},
          service : Services, profile : Profiles]
  \union [pc : {"work", "finish", "write"}, service : Services, profile : Profiles,
          run : 1..MaxRuns]

Goto(t, pc) == thread' = [thread EXCEPT ![t].pc = pc]
Become(t, state) == thread' = [thread EXCEPT ![t] = state]
At(t, pc) ==
  [pc |-> pc, service |-> thread[t].service, profile |-> thread[t].profile]

Running(r) == r \in DOMAIN table /\ table[r].status = "running"
\* The threads between create_run and the end of finish_run.
Working(t) == thread[t].pc \in {"work", "finish", "write"}

------------------------------------------------------------------------------
(***************************************************************************)
(* RunService.execute.                                                     *)
(***************************************************************************)

\* A request uses the service it finds in the runtime, a job the service its
\* scheduler was built with.
Call(t, p) ==
  /\ thread[t] = Idle
  /\ LET s == IF t \in Workers THEN scheduling ELSE current IN
       /\ s # 0 /\ (t \in Callers => serving)
       /\ Become(t, [pc |-> "lock", service |-> s, profile |-> p])
  /\ UNCHANGED <<table, runtime, limits, crashes, faults>>

\* The lock of the profile, or a skip ("profile_overlap").
LockProfile(t) ==
  /\ thread[t].pc = "lock"
  /\ LET lock == <<thread[t].service, thread[t].profile>> IN
       IF lock \in locked THEN Become(t, Idle) /\ UNCHANGED locked
       ELSE Goto(t, "slot") /\ locked' = locked \union {lock}
  /\ UNCHANGED <<table, runtime, slots, crashes, faults>>

\* Mutant: the skip for want of a slot keeps the lock of the profile.
TakeSlotLeaks(t) ==
  /\ thread[t].pc = "slot"
  /\ LET s == thread[t].service IN
       IF slots[s] = 0
       THEN /\ Become(t, Idle)
            /\ UNCHANGED limits
       ELSE /\ Goto(t, "create")
            /\ slots' = [slots EXCEPT ![s] = @ - 1] /\ UNCHANGED locked
  /\ UNCHANGED <<table, runtime, crashes, faults>>

\* A slot, or a skip ("global_concurrency_limit") that frees the lock.
TakeSlot(t) ==
  /\ thread[t].pc = "slot"
  /\ LET s == thread[t].service IN
       IF slots[s] = 0
       THEN /\ Become(t, Idle)
            /\ locked' = locked \ {<<s, thread[t].profile>>} /\ UNCHANGED slots
       ELSE /\ Goto(t, "create")
            /\ slots' = [slots EXCEPT ![s] = @ - 1] /\ UNCHANGED locked
  /\ UNCHANGED <<table, runtime, crashes, faults>>

\* Mutant: nothing but the lock of the service keeps a profile to one run.
NeverActive(p) == FALSE

\* uq_runs_running_profile: one running row per profile.
Active(p) == \E r \in DOMAIN table : Running(r) /\ table[r].profile = p

\* The profile is gone, archived or disabled, or has a running row.
RunRefused(t) ==
  /\ thread[t].pc = "create"
  /\ Goto(t, "leave")
  /\ UNCHANGED <<table, runtime, limits, crashes, faults>>

CreateRun(t) ==
  /\ thread[t].pc = "create"
  /\ LET p == thread[t].profile IN
       /\ ~Active(p)
       /\ \E r \in 1..MaxRuns :
            /\ {u \in 1..MaxRuns : u < r} = DOMAIN table
            /\ table' = [u \in DOMAIN table \union {r} |->
                           IF u = r THEN [profile |-> p, status |-> "running"]
                           ELSE table[u]]
            /\ Become(t, [pc |-> "work", service |-> thread[t].service,
                          profile |-> p, run |-> r])
  /\ UNCHANGED <<runtime, limits, crashes, faults>>

\* Discovery, search and submission: whatever fails there, the run has a
\* status in the end.
Work(t) ==
  /\ thread[t].pc = "work"
  /\ Goto(t, "finish")
  /\ UNCHANGED <<table, runtime, limits, crashes, faults>>

\* finish_run reads the row, and raises when the run has ended already...
FinishCheck(t) ==
  /\ thread[t].pc = "finish"
  /\ IF Running(thread[t].run) THEN Goto(t, "write") ELSE Become(t, At(t, "leave"))
  /\ UNCHANGED <<table, runtime, limits, crashes, faults>>

\* ...then updates it by its key: SQLite's transaction begins with the update.
FinishWrite(t) ==
  /\ thread[t].pc = "write"
  /\ table' = [table EXCEPT ![thread[t].run].status = "finished"]
  /\ Become(t, At(t, "leave"))
  /\ UNCHANGED <<runtime, limits, crashes, faults>>

\* The database is locked when the thread records the results of its sources,
\* or finishes the run: the row stays running.
FinishFails(t) ==
  /\ thread[t].pc \in {"finish", "write"}
  /\ faults < MaxFaults /\ faults' = faults + 1
  /\ Become(t, At(t, "leave"))
  /\ UNCHANGED <<table, runtime, limits, crashes>>

\* The outer finally.
FreeSlot(t) ==
  /\ thread[t].pc = "leave"
  /\ slots' = [slots EXCEPT ![thread[t].service] = @ + 1]
  /\ Goto(t, "unlock")
  /\ UNCHANGED <<table, runtime, locked, crashes, faults>>

\* Mutant: the slot is given back twice.
UnlockAndFree(t) ==
  /\ thread[t].pc = "unlock"
  /\ slots' = [slots EXCEPT ![thread[t].service] = @ + 1]
  /\ locked' = locked \ {<<thread[t].service, thread[t].profile>>}
  /\ Become(t, Idle)
  /\ UNCHANGED <<table, runtime, crashes, faults>>

Unlock(t) ==
  /\ thread[t].pc = "unlock"
  /\ locked' = locked \ {<<thread[t].service, thread[t].profile>>}
  /\ Become(t, Idle)
  /\ UNCHANGED <<table, runtime, slots, crashes, faults>>

------------------------------------------------------------------------------
(***************************************************************************)
(* RuntimeManager.reload, under the runtime's lock.                        *)
(***************************************************************************)

\* close: the runtime forgets its services, and the scheduler takes no job.
ReloadBegins ==
  /\ reload = Idle /\ built < MaxServices
  /\ current' = 0 /\ scheduling' = 0
  /\ reload' = [pc |-> "drain"]
  /\ UNCHANGED <<table, built, serving, limits, thread, crashes, faults>>

\* Mutant: shutdown(wait=False).
DrainedAtOnce ==
  /\ reload.pc = "drain"
  /\ reload' = [pc |-> "build"]
  /\ UNCHANGED <<table, current, scheduling, built, serving, limits, thread,
                 crashes, faults>>

\* shutdown(wait=True) returns when the executor's threads are through.
Drained ==
  /\ reload.pc = "drain"
  /\ \A w \in Workers : thread[w] = Idle
  /\ reload' = [pc |-> "build"]
  /\ UNCHANGED <<table, current, scheduling, built, serving, limits, thread,
                 crashes, faults>>

\* SettingsError
ReloadRefused ==
  /\ reload.pc = "build"
  /\ reload' = Idle /\ serving' = TRUE
  /\ UNCHANGED <<table, current, scheduling, built, limits, thread, crashes, faults>>

\* The new services are there for requests before the scheduler starts.
Publish ==
  /\ reload.pc = "build"
  /\ built' = built + 1 /\ current' = built'
  /\ reload' = [pc |-> "recover"]
  /\ UNCHANGED <<table, scheduling, serving, limits, thread, crashes, faults>>

\* fail_interrupted_runs reads the running rows...
Recover ==
  /\ reload.pc = "recover"
  /\ reload' = [pc |-> "fail", runs |-> {r \in DOMAIN table : Running(r)}]
  /\ UNCHANGED <<table, current, scheduling, built, serving, limits, thread,
                 crashes, faults>>

\* Mutant: the scheduler starts over the rows as they are.
StartUnrecovered ==
  /\ reload.pc = "fail"
  /\ scheduling' = current
  /\ reload' = Idle /\ serving' = TRUE
  /\ UNCHANGED <<table, current, built, limits, thread, crashes, faults>>

\* ...and updates each by its key.
Recovered ==
  [r \in DOMAIN table |->
     IF r \in reload.runs THEN [table[r] EXCEPT !.status = "interrupted"] ELSE table[r]]

\* Then the scheduler starts.
StartScheduler ==
  /\ reload.pc = "fail"
  /\ table' = Recovered
  /\ scheduling' = current
  /\ reload' = Idle /\ serving' = TRUE
  /\ UNCHANGED <<current, built, limits, thread, crashes, faults>>

\* The database is locked, for the recovery or for sync after it: the services
\* stay, without a scheduler.  (While the application starts, this ends the
\* process.)
StartFails ==
  /\ reload.pc \in {"recover", "fail"} /\ serving
  /\ faults < MaxFaults /\ faults' = faults + 1
  /\ \/ UNCHANGED table
     \/ reload.pc = "fail" /\ table' = Recovered
  /\ reload' = Idle
  /\ UNCHANGED <<current, scheduling, built, serving, limits, thread, crashes>>

\* The process dies; the next one begins with a reload.
Crash ==
  /\ crashes < MaxCrashes /\ crashes' = crashes + 1
  /\ current' = 0 /\ scheduling' = 0 /\ built' = 0 /\ serving' = FALSE
  /\ reload' = Idle
  /\ locked' = {} /\ slots' = [s \in Services |-> Slots]
  /\ thread' = [t \in Threads |-> Idle]
  /\ UNCHANGED <<table, faults>>

------------------------------------------------------------------------------
Init ==
  /\ table = [r \in {} |-> Idle]
  /\ current = 0 /\ scheduling = 0 /\ built = 0 /\ serving = FALSE
  /\ reload = Idle
  /\ locked = {} /\ slots = [s \in Services |-> Slots]
  /\ thread = [t \in Threads |-> Idle]
  /\ crashes = 0 /\ faults = 0

Execute(t) ==
  \/ LockProfile(t) \/ TakeSlot(t) \/ RunRefused(t) \/ CreateRun(t)
  \/ Work(t) \/ FinishCheck(t) \/ FinishWrite(t) \/ FreeSlot(t) \/ Unlock(t)

Reload == Drained \/ ReloadRefused \/ Publish \/ Recover \/ StartScheduler

Next ==
  \/ \E t \in Threads : (\E p \in Profiles : Call(t, p)) \/ Execute(t) \/ FinishFails(t)
  \/ ReloadBegins \/ Reload \/ StartFails \/ Crash

Spec == Init /\ [][Next]_vars

\* Threads go on, a reload goes on once begun, and a new process begins one.
FairSpec ==
  /\ Spec
  /\ \A t \in Threads : WF_vars(Execute(t))
  /\ WF_vars(Reload)
  /\ WF_vars(~serving /\ ReloadBegins)

------------------------------------------------------------------------------
(***************************************************************************)
(* Properties.                                                             *)
(***************************************************************************)

TableOK ==
  /\ DOMAIN table \subseteq 1..MaxRuns
  /\ table \in [DOMAIN table -> [profile : Profiles, status : Ended \union {"running"}]]

RuntimeOK ==
  /\ built \in 0..MaxServices /\ {current, scheduling} \subseteq 0..built
  /\ reload \in {Idle} \union [pc : {"drain", "build", "recover"}]
                \union [pc : {"fail"}, runs : SUBSET DOMAIN table]
  /\ reload.pc \in {"drain", "build"} => built < MaxServices
  /\ serving \in BOOLEAN

ThreadsOK ==
  /\ thread \in [Threads -> ThreadStates]
  /\ \A t \in Threads : Working(t) => thread[t].run \in DOMAIN table

\* Every variable has its type; no service has more slots free than it began with.
TypeOK ==
  /\ TableOK /\ RuntimeOK /\ ThreadsOK
  /\ locked \subseteq Services \X Profiles /\ slots \in [Services -> 0..Slots]
  /\ crashes \in 0..MaxCrashes /\ faults \in 0..MaxFaults

HoldsLock(t) == thread[t].pc \notin {"idle", "lock"}
HoldsSlot(t) == thread[t].pc \notin {"idle", "lock", "slot", "unlock"}
LockOf(t) == <<thread[t].service, thread[t].profile>>
SlotHolders(s) == {t \in Threads : HoldsSlot(t) /\ thread[t].service = s}

LocksAreHeld ==
  /\ locked = {LockOf(t) : t \in {u \in Threads : HoldsLock(u)}}
  /\ \A t, u \in Threads :
       HoldsLock(t) /\ HoldsLock(u) /\ LockOf(t) = LockOf(u) => t = u

SlotsAreHeld ==
  \A s \in Services : slots[s] + Cardinality(SlotHolders(s)) = Slots

\* Every way out of execute gives back what it took: the locks and slots that
\* are gone are those that threads hold, one thread for each lock.
LimitsAreAccounted == LocksAreHeld /\ SlotsAreHeld

\* A reload never fails a run of the scheduler that is still working.
ScheduledRunsSurviveReload ==
  \A w \in Workers : Working(w) => Running(thread[w].run)

\* Once the scheduler runs, a row that says running belongs to a live thread: no
\* leftover of another process or service keeps a profile from running.
RunningRunsAreLive ==
  scheduling # 0 /\ faults = 0 =>
    \A r \in DOMAIN table :
      Running(r) => \E t \in Threads : Working(t) /\ thread[t].run = r

\* Two threads work for one profile at once only if the run of one of them has
\* been ended under its feet by a reload.
OverlapsAreCutShort ==
  \A t, u \in Threads :
    /\ t # u /\ Working(t) /\ Working(u)
    /\ thread[t].profile = thread[u].profile
    => ~Running(thread[t].run) \/ ~Running(thread[u].run)

\* A reload that comes to its end without a failed call leaves requests and jobs
\* with the same services, or with none at all; and a job is executed by the
\* services built last, never by those a reload has replaced.
JobsUseCurrentServices ==
  /\ reload = Idle /\ faults = 0 => scheduling = current
  /\ \A w \in Workers : thread[w] # Idle => thread[w].service = built

\* Each run ends, through crashes and reloads, unless the settings leave the
\* process without a runtime or the database refuses to record the end.
RunsEnd ==
  \A r \in 1..MaxRuns :
    Running(r) ~> (~Running(r) \/ (serving /\ current = 0) \/ faults > 0)

\* ADR-002: one run at a time per profile.
OneRunPerProfile ==
  \A t, u \in Threads :
    /\ Working(t) /\ Working(u) /\ thread[t].profile = thread[u].profile
    => t = u
==============================================================================
