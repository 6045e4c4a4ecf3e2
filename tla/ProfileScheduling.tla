--------------------------- MODULE ProfileScheduling ---------------------------
(***************************************************************************)
(* Profiles and the automation of watchlists (profiles.py, watchlists.py   *)
(* and their rows in db/repository.py), and the plan of daily jobs that    *)
(* the scheduler makes of them (TuntuScheduler.sync, scheduler.py).        *)
(*                                                                         *)
(* Each request that changes a row makes the scheduler read the tables     *)
(* again.  Nothing keeps two such threads apart: neither in the table,     *)
(* where a session writes the columns in which the wanted row differs from *)
(* the one it has loaded, nor in sync.                                     *)
(***************************************************************************)
EXTENDS Integers, FiniteSets, PlanTable

CONSTANTS
  Times,                 \* daily_time
  SourceSets,            \* the kinds of sources a profile may name
  Callers,               \* threads of the API
  Reloader,              \* the thread that holds the runtime's lock
  MaxChanges,            \* bound: requests that change a row
  MaxReloads,            \* bound: schedulers built
  MaxFaults              \* bound: failed audit events

OwnersAssumption == Profiles \intersect Watchlists = {}
TimeAssumption == NoTime \notin Times
SourcesAssumption == SourceSets \subseteq SUBSET {"discovery", "candidate"}
ReloaderAssumption == Reloader \notin Callers
LimitsAssumption == {MaxChanges, MaxReloads, MaxFaults} \subseteq Nat

VARIABLES
  tracked,    \* _profile_job_ids and _watchlist_job_ids
  built,      \* schedulers built so far
  changes, faults

tables == <<rows, changes>>
plan == <<jobs, tracked>>
history == <<clashed, missed>>
vars == <<rows, scheduler, jobs, tracked, thread, built, changes, faults,
          clashed, missed>>

Threads == Callers \union {Reloader}
OfKind == [profile |-> Profiles, watchlist |-> Watchlists]
OptionalTimes == Times \union {NoTime}
Empty == [o \in {} |-> NoTime]

ProfileRows == [enabled : BOOLEAN, archived : BOOLEAN, time : OptionalTimes,
                sources : SourceSets]
Automations == [enabled : BOOLEAN, time : OptionalTimes]
Rows == ProfileRows \union Automations

Complete(row) == {"discovery", "candidate"} \subseteq row.sources

\* ProfileService._validate
ValidProfile(row) == row.enabled => Complete(row)

\* WatchlistService.configure_automation
ValidAutomation(row) == row.enabled => row.time # NoTime

ValidRows(o) ==
  IF o \in Profiles THEN {row \in ProfileRows : ValidProfile(row)}
  ELSE {row \in Automations : ValidAutomation(row)}

Become(t, state) == thread' = [thread EXCEPT ![t] = state]
InSync(t) == thread[t].pc \in {"list", "add", "remove"}

------------------------------------------------------------------------------
(***************************************************************************)
(* Requests that change a row.                                             *)
(***************************************************************************)

\* ProfileService.create; the new row of a watchlist has no automation.
Create(t, o) ==
  /\ thread[t] = Idle /\ o \notin DOMAIN rows
  /\ changes < MaxChanges /\ changes' = changes + 1
  /\ \E row \in ValidRows(o) :
       /\ IF o \in Profiles THEN ~row.archived
          ELSE row = [enabled |-> FALSE, time |-> NoTime]
       /\ rows' = [u \in DOMAIN rows \union {o} |-> IF u = o THEN row ELSE rows[u]]
  /\ Become(t, IF o \in Profiles THEN [pc |-> "audit", owner |-> o] ELSE Idle)
  /\ UNCHANGED <<scheduler, plan, built, faults, history>>

\* ProfileService.update: any valid row, with the archived_at it had; or
\* configure_automation, which looks for a profile in use that can search.
Update(t, o) ==
  /\ thread[t] = Idle /\ o \in DOMAIN rows
  /\ changes < MaxChanges /\ changes' = changes + 1
  /\ \E new \in ValidRows(o) :
       /\ IF o \in Profiles THEN new.archived = rows[o].archived
          ELSE new.enabled => \E p \in Profiles \intersect DOMAIN rows :
                                ~rows[p].archived /\ "candidate" \in rows[p].sources
       /\ Become(t, [pc |-> "load", owner |-> o, new |-> new])
  /\ UNCHANGED <<rows, scheduler, plan, built, faults, history>>

\* update_profile and update_watchlist_automation: the session loads the row...
UpdateLoads(t) ==
  /\ thread[t].pc = "load"
  /\ Become(t, [pc |-> "write", owner |-> thread[t].owner, new |-> thread[t].new,
                seen |-> rows[thread[t].owner]])
  /\ UNCHANGED <<tables, scheduler, plan, built, faults, history>>

\* ...and writes the columns that it changes.  The automation is one column;
\* archived_at is none of those that update sets.
Merged(now, new, seen) ==
  IF now \in Automations THEN (IF new = seen THEN now ELSE new)
  ELSE [now EXCEPT
          !.enabled = IF new.enabled = seen.enabled THEN @ ELSE new.enabled,
          !.time = IF new.time = seen.time THEN @ ELSE new.time,
          !.sources = IF new.sources = seen.sources THEN @ ELSE new.sources]

UpdateWrites(t) ==
  /\ thread[t].pc = "write"
  /\ LET o == thread[t].owner IN
       /\ rows' = [rows EXCEPT ![o] = Merged(@, thread[t].new, thread[t].seen)]
       /\ Become(t, [pc |-> "audit", owner |-> o])
  /\ UNCHANGED <<changes, scheduler, plan, built, faults, history>>

\* archive and restore
Archive(t, p) ==
  /\ thread[t] = Idle /\ p \in Profiles \intersect DOMAIN rows
  /\ changes < MaxChanges /\ changes' = changes + 1
  /\ \E archived \in BOOLEAN : rows' = [rows EXCEPT ![p].archived = archived]
  /\ Become(t, [pc |-> "audit", owner |-> p])
  /\ UNCHANGED <<scheduler, plan, built, faults, history>>

\* The audit event is not written: the request ends with an error, before sync.
AuditFails(t) ==
  /\ thread[t].pc = "audit"
  /\ faults < MaxFaults /\ faults' = faults + 1
  /\ missed' = missed \union {thread[t].owner}
  /\ Become(t, Idle)
  /\ UNCHANGED <<tables, scheduler, plan, built, clashed>>

\* RuntimeManager.sync_scheduler
CallSync(t) ==
  /\ thread[t].pc = "audit"
  /\ Become(t, IF scheduler = 0 THEN Idle
               ELSE [pc |-> "list", scheduler |-> scheduler, kind |-> "profile"])
  /\ clashed' = (clashed \/ (scheduler # 0 /\ \E u \in Threads : InSync(u)))
  /\ UNCHANGED <<tables, scheduler, plan, built, faults, missed>>

------------------------------------------------------------------------------
(***************************************************************************)
(* TuntuScheduler.sync: first the profiles, then the watchlists.           *)
(***************************************************************************)

\* A thread may go on in a scheduler that is no longer the runtime's: its jobs
\* never fire.
Current(t) == thread[t].scheduler = scheduler

Abandon(t) ==
  /\ InSync(t) /\ ~Current(t)
  /\ Become(t, Idle)
  /\ UNCHANGED <<tables, scheduler, plan, built, faults, history>>

List(t) ==
  /\ thread[t].pc = "list" /\ Current(t)
  /\ LET mine == OfKind[thread[t].kind]
         wanted == {o \in mine : Schedulable(o)} IN
       /\ Become(t, [pc |-> "add", scheduler |-> scheduler, kind |-> thread[t].kind,
                     todo |-> [o \in wanted |-> rows[o].time], desired |-> wanted])
       /\ missed' = missed \ mine
  /\ UNCHANGED <<tables, scheduler, plan, built, faults, clashed>>

\* add_job(replace_existing=True), one id after the other
AddJob(t) ==
  /\ thread[t].pc = "add" /\ Current(t)
  /\ \E o \in DOMAIN thread[t].todo :
       /\ jobs' = [jobs EXCEPT ![o] = thread[t].todo[o]]
       /\ Become(t, [thread[t] EXCEPT
                       !.todo = [u \in DOMAIN @ \ {o} |-> @[u]]])
  /\ UNCHANGED <<tables, scheduler, tracked, built, faults, history>>

\* Mutant: jobs whose owner is no longer wanted stay.
FindStaleNone(t) ==
  /\ thread[t].pc = "add" /\ Current(t) /\ thread[t].todo = Empty
  /\ Become(t, [pc |-> "remove", scheduler |-> scheduler, kind |-> thread[t].kind,
                stale |-> {}, desired |-> thread[t].desired])
  /\ UNCHANGED <<tables, scheduler, plan, built, faults, history>>

FindStale(t) ==
  /\ thread[t].pc = "add" /\ Current(t) /\ thread[t].todo = Empty
  /\ Become(t, [pc |-> "remove", scheduler |-> scheduler, kind |-> thread[t].kind,
                stale |-> (tracked \intersect OfKind[thread[t].kind]) \ thread[t].desired,
                desired |-> thread[t].desired])
  /\ UNCHANGED <<tables, scheduler, plan, built, faults, history>>

\* remove_job, or KeyError for a job that is gone
RemoveJob(t) ==
  /\ thread[t].pc = "remove" /\ Current(t)
  /\ \E o \in thread[t].stale :
       /\ jobs' = [jobs EXCEPT ![o] = NoTime]
       /\ Become(t, [thread[t] EXCEPT !.stale = @ \ {o}])
  /\ UNCHANGED <<tables, scheduler, tracked, built, faults, history>>

\* The ids are kept for the next sync.
Track(t) ==
  /\ thread[t].pc = "remove" /\ Current(t) /\ thread[t].stale = {}
  /\ tracked' = (tracked \ OfKind[thread[t].kind]) \union thread[t].desired
  /\ Become(t, IF thread[t].kind = "watchlist" THEN Idle
               ELSE [pc |-> "list", scheduler |-> scheduler, kind |-> "watchlist"])
  /\ UNCHANGED <<tables, scheduler, jobs, built, faults, history>>

Sync(t) == List(t) \/ AddJob(t) \/ FindStale(t) \/ RemoveJob(t) \/ Track(t)

------------------------------------------------------------------------------
(***************************************************************************)
(* RuntimeManager.reload.                                                  *)
(***************************************************************************)

\* close: requests find no scheduler
CloseScheduler ==
  /\ thread[Reloader] = Idle /\ built < MaxReloads
  /\ scheduler' = 0
  /\ jobs' = [o \in Owners |-> NoTime] /\ tracked' = {}
  /\ Become(Reloader, [pc |-> "drain"])
  /\ UNCHANGED <<tables, built, faults, history>>

\* The new scheduler is there for requests before start calls sync.
PublishScheduler ==
  /\ thread[Reloader].pc = "drain"
  /\ built' = built + 1 /\ scheduler' = built'
  /\ clashed' = FALSE
  /\ Become(Reloader, [pc |-> "list", scheduler |-> built', kind |-> "profile"])
  /\ UNCHANGED <<tables, plan, faults, missed>>

------------------------------------------------------------------------------
Init ==
  /\ \E S \in SUBSET Owners : rows \in [S -> Rows]
  /\ \A o \in DOMAIN rows : rows[o] \in ValidRows(o)
  /\ scheduler = 0 /\ built = 0
  /\ jobs = [o \in Owners |-> NoTime] /\ tracked = {}
  /\ thread = [t \in Threads |-> Idle]
  /\ changes = 0 /\ faults = 0
  /\ clashed = FALSE /\ missed = {}

GoesOn(t) == UpdateLoads(t) \/ UpdateWrites(t) \/ CallSync(t)

Request(t) ==
  \/ \E o \in Owners : Create(t, o) \/ Update(t, o) \/ Archive(t, o)
  \/ GoesOn(t) \/ AuditFails(t)

Next ==
  \/ \E t \in Callers : Request(t)
  \/ \E t \in Threads : Sync(t) \/ Abandon(t)
  \/ CloseScheduler \/ PublishScheduler

Spec == Init /\ [][Next]_vars

------------------------------------------------------------------------------
(***************************************************************************)
(* Properties.                                                             *)
(***************************************************************************)

\* What a thread knows of rows, and in which half of sync it is.
KnowsRow(t) ==
  LET state == thread[t] IN
  /\ state.pc \in {"load", "write", "audit"} => state.owner \in Owners
  /\ state.pc \in {"load", "write"} => state.new \in Rows
  /\ state.pc = "write" => state.seen \in Rows
KnowsPlan(t) ==
  LET state == thread[t] IN
  /\ InSync(t) => state.scheduler \in 1..built /\ state.kind \in DOMAIN OfKind
  /\ state.pc = "add" => DOMAIN state.todo \subseteq state.desired
  /\ state.pc \in {"add", "remove"} => state.desired \subseteq OfKind[state.kind]
  /\ state.pc = "remove" => state.stale \intersect state.desired = {}

\* Every variable has its type.
TypeOK ==
  /\ DOMAIN rows \subseteq Owners
  /\ \A o \in DOMAIN rows : rows[o] \in IF o \in Profiles THEN ProfileRows ELSE Automations
  /\ built \in 0..MaxReloads /\ scheduler \in {0, built}
  /\ jobs \in [Owners -> OptionalTimes] /\ tracked \subseteq Owners
  /\ \A t \in Threads : KnowsRow(t) /\ KnowsPlan(t)
  /\ changes \in 0..MaxChanges /\ faults \in 0..MaxFaults
  /\ clashed \in BOOLEAN /\ missed \subseteq Owners
==============================================================================
