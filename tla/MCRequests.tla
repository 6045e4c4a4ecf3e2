------------------------------ MODULE MCRequests ------------------------------
(***************************************************************************)
(* What the requests of users, the poller and reloads do to the tables at  *)
(* once.  The parts share no state, so a behaviour is one of one part, and *)
(* the others stay in an initial state.                                    *)
(***************************************************************************)
EXTENDS Integers, Sequences, TLC, AccountTables, PlanTable, TaskTable, EventTables

CONSTANTS t1, t2, a, b, n1, n2, b1, b2, main, submitter, poller, user

VARIABLES
  part,
  now, users, tokens, accountsThread,
  tracked, built, changes, faults,
  audits, manualThread, second,
  clock, eventsThread

Accounts == INSTANCE Authentication WITH
  Threads <- {t1, t2}, Passwords <- {a, b}, SetupTTL <- 1, SessionTTL <- 1,
  MaxTime <- 2, MaxTokens <- 2, MaxSessions <- 2, MaxVersion <- 3, thread <- accountsThread

Scheduling == INSTANCE ProfileScheduling WITH
  Times <- {"8:00"}, SourceSets <- {{"discovery", "candidate"}},
  Callers <- {t1, t2}, Reloader <- main,
  MaxChanges <- 2, MaxReloads <- 2, MaxFaults <- 1

\* Two works share a candidate, and no run falls back.
Manual == INSTANCE ManualSubmission WITH
  Threads <- {t1, t2}, Numbers <- {n1, n2}, Btihs <- {b1, b2},
  Accepted <- {<<n1, b1>>, <<n1, b2>>, <<n2, b2>>}, Forces <- BOOLEAN,
  MaxTasks <- 2, MaxFallbacks <- 0, MaxSeconds <- 0, thread <- manualThread

\* One work, of which a run falls back to the second candidate; clocks that do
\* and do not tell two tasks apart.
Fallbacks == INSTANCE ManualSubmission WITH
  Threads <- {t1, t2}, Numbers <- {n1}, Btihs <- {b1, b2},
  Accepted <- {<<n1, b1>>, <<n1, b2>>}, Forces <- BOOLEAN,
  MaxTasks <- 2, MaxFallbacks <- 1, MaxSeconds <- 1, thread <- manualThread

\* A deadline that passes between the polls.
Events == INSTANCE EventLog WITH
  Submitter <- submitter, Poller <- poller, User <- user, Deadline <- 1,
  MaxClock <- 1, MaxEvents <- 3, thread <- eventsThread

\* A longer log, at one instant before the deadline.
LongLog == INSTANCE EventLog WITH
  Submitter <- submitter, Poller <- poller, User <- user, Deadline <- 1,
  MaxClock <- 0, MaxEvents <- 4, thread <- eventsThread

ASSUME ConstantsAssumption ==
  /\ Accounts!TTLAssumption /\ Accounts!BoundsAssumption
  /\ Scheduling!OwnersAssumption /\ Scheduling!TimeAssumption
  /\ Scheduling!SourcesAssumption /\ Scheduling!ReloaderAssumption
  /\ Scheduling!LimitsAssumption
  /\ Manual!KeysAssumption /\ Manual!BoundsAssumption
  /\ Fallbacks!KeysAssumption /\ Fallbacks!BoundsAssumption
  /\ Events!ThreadsAssumption /\ Events!BoundsAssumption /\ LongLog!BoundsAssumption

accountsVars == <<now, users, tokens, sessions, accountsThread, sets, uses>>
schedulingVars == <<rows, scheduler, jobs, tracked, thread, built, changes,
                    faults, clashed, missed>>
manualVars == <<tasks, audits, manualThread, second>>
eventsVars == <<row, log, clock, eventsThread, crossed>>

\* Profiles and watchlists have many initial states, the other parts one.
Init ==
  /\ part \in {"accounts", "scheduling", "manual", "fallbacks", "events", "long_log"}
  /\ Accounts!Init /\ Scheduling!Init /\ Manual!Init /\ Events!Init
  /\ part # "scheduling" => rows = Scheduling!Empty

Next ==
  \/ /\ part = "accounts" /\ Accounts!Next
     /\ UNCHANGED <<part, schedulingVars, manualVars, eventsVars>>
  \/ /\ part = "scheduling" /\ Scheduling!Next
     /\ UNCHANGED <<part, accountsVars, manualVars, eventsVars>>
  \/ /\ part = "manual" /\ Manual!Next
     /\ UNCHANGED <<part, accountsVars, schedulingVars, eventsVars>>
  \/ /\ part = "fallbacks" /\ Fallbacks!Next
     /\ UNCHANGED <<part, accountsVars, schedulingVars, eventsVars>>
  \/ /\ part = "events" /\ Events!Next
     /\ UNCHANGED <<part, accountsVars, schedulingVars, manualVars>>
  \/ /\ part = "long_log" /\ LongLog!Next
     /\ UNCHANGED <<part, accountsVars, schedulingVars, manualVars>>

Spec == Init /\ [][Next]_<<part, accountsVars, schedulingVars, manualVars, eventsVars>>

\* Threads and passwords are interchangeable.
Symmetry == Permutations({t1, t2}) \union Permutations({a, b})
==============================================================================
