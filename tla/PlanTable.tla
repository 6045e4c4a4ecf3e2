------------------------------- MODULE PlanTable -------------------------------
(***************************************************************************)
(* The rows of profiles and watchlists, the plan of daily jobs that the    *)
(* scheduler keeps of them, and where the threads stand that change the    *)
(* one and the other: the state of ProfileScheduling that its main         *)
(* property is about.                                                      *)
(***************************************************************************)
CONSTANTS
  Profiles, Watchlists,  \* profile.id, watchlist.id
  NoTime                 \* None

VARIABLES
  rows,       \* profiles and watchlists: id -> row
  scheduler,  \* RuntimeManager.scheduler: its number, 0 for None
  jobs,       \* the scheduler's backend: the time at which the job of an id fires
  thread,     \* where each thread stands
  clashed,    \* history: two threads have been in sync of this scheduler at once
  missed      \* history: ids changed without a sync after it

Owners == Profiles \union Watchlists
Idle == [pc |-> "idle"]

\* list_schedulable_profiles, list_schedulable_watchlists
Schedulable(o) ==
  /\ o \in DOMAIN rows /\ rows[o].enabled /\ rows[o].time # NoTime
  /\ o \in Profiles => ~rows[o].archived

\* The plan that the table asks for.
Planned(o) == IF Schedulable(o) THEN rows[o].time ELSE NoTime

Quiet == scheduler # 0 /\ \A t \in DOMAIN thread : thread[t] = Idle

\* When no request is under way the plan is the one the table asks for, however
\* changes, reloads and failed requests came before: unless two threads were in
\* sync at once, or the last change of the row got no sync.
PlanFollowsTable ==
  Quiet /\ ~clashed => \A o \in Owners \ missed : jobs[o] = Planned(o)
==============================================================================
