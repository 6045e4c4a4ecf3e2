------------------------------ MODULE MCProgress ------------------------------
(***************************************************************************)
(* What must happen in the end, in instances of the modules that state     *)
(* fairness.  The parts share no state, so a behaviour is one of one part, *)
(* and the others stay in an initial state.                                *)
(***************************************************************************)
EXTENDS Integers, Sequences, SettingsTable, DatabaseFile

CONSTANTS a, c1, c2, main, t1, t2, r1, r2, s1, k1, s, u, server

VARIABLES
  part,
  environment, runtime, lock, settingsThread, updates, settingsFaults, unapplied,
  time, client, holder, last, runCache, ttlCache, httpThread, ended, health, answers,
  unfinished, served,
  items, automation, tasks, worker, runs, decided,
  now, work, process, faults

Settings == INSTANCE RuntimeSettings WITH
  Sources <- {a}, Callers <- {c1, c2}, Main <- main, MaxUpdates <- 2, MaxFaults <- 1,
  Requests <- {[endpoint |-> TRUE, password |-> TRUE], [endpoint |-> FALSE],
               [endpoint |-> TRUE], [password |-> FALSE]},
  Environments <- {[f \in {} |-> TRUE], [endpoint |-> TRUE]},
  thread <- settingsThread, faults <- settingsFaults

\* No answer comes: requests are refused, or time out, or their client is closed.
Http == INSTANCE ProviderHttp WITH
  Threads <- {t1, t2}, NoThread <- "none", Runs <- {r1, r2}, Sources <- {s1}, Keys <- {k1},
  Interval <- 1, TTL <- 0, Retries <- 1, Backoff <- 1,
  MaxTime <- 1, MaxAnswers <- 0, MaxClients <- 2, MaxFaults <- 0,
  now <- time, thread <- httpThread

\* The sources have no candidate, and the list may be longer than top_n.
List == INSTANCE Watchlist WITH
  Scheduler <- s, Users <- {u}, NumKeys <- 2, Coded <- {1, 2}, Namespaces <- {"jav"},
  Decisions <- {"pending", "owned"}, Offered <- {}, TopN <- 1,
  MaxTasks <- 0, MaxMagnets <- 0, MaxRuns <- 1

Database == INSTANCE Migration WITH
  Processes <- {server}, Keep <- 3, MaxTime <- 4, MaxWrites <- 3, MaxFaults <- 5

ASSUME ConstantsAssumption ==
  /\ Settings!RequestsAssumption /\ Settings!EnvironmentsAssumption
  /\ Settings!MainAssumption /\ Settings!UpdatesAssumption
  /\ Http!HolderAssumption /\ Http!TimesAssumption /\ Http!BoundsAssumption
  /\ List!ThreadAssumption /\ List!DecisionsAssumption
  /\ List!KeysAssumption /\ List!BoundsAssumption
  /\ Database!KeepAssumption /\ Database!BoundsAssumption

settingsVars == <<stored, environment, runtime, lock, settingsThread, updates,
                  settingsFaults, unapplied>>
httpVars == <<time, client, holder, last, runCache, ttlCache, httpThread, ended, health,
              answers, unfinished, served>>
listVars == <<items, automation, tasks, worker, runs, decided>>
databaseVars == <<now, file, backups, work, process, faults>>

\* The parts that do not move have one initial state.
Init ==
  /\ part \in {"settings", "http", "list", "database"}
  /\ Settings!Init /\ Http!Init /\ List!Init /\ Database!Init
  /\ part # "settings" => stored = Settings!Defaults /\ environment = [f \in {} |-> TRUE]
  /\ part # "database" => file = Database!NoFile

Next ==
  \/ /\ part = "settings" /\ Settings!Next
     /\ UNCHANGED <<part, httpVars, listVars, databaseVars>>
  \/ /\ part = "http" /\ Http!Next
     /\ UNCHANGED <<part, settingsVars, listVars, databaseVars>>
  \/ /\ part = "list" /\ List!Next
     /\ UNCHANGED <<part, settingsVars, httpVars, databaseVars>>
  \/ /\ part = "database" /\ Database!Next
     /\ UNCHANGED <<part, settingsVars, httpVars, listVars>>

\* A request goes on, and gets the lock of the runtime in the end.
SettingsFairness ==
  \A t \in {c1, c2, main} :
    /\ WF_settingsVars(part = "settings" /\ Settings!Step(t))
    /\ SF_settingsVars(part = "settings" /\ Settings!CloseRuntime(t))

\* Time passes, httpx's timeout ends every attempt, and a waiting thread gets
\* the client's lock in the end.
HttpFairness ==
  /\ WF_httpVars(part = "http" /\ Http!Tick)
  /\ \A t \in {t1, t2} :
       /\ WF_httpVars(part = "http" /\ Http!Call(t))
       /\ SF_httpVars(part = "http" /\ Http!Look(t))

\* The daily job comes again, and a run goes on; it may be skipped every day.
ListFairness == \A t \in {s, u} : WF_listVars(part = "list" /\ List!RunStep(t))

\* Docker starts the application again (compose.yaml), and its steps end.
DatabaseFairness == WF_databaseVars(part = "database" /\ Database!Step(server))

Spec ==
  /\ Init
  /\ [][Next]_<<part, settingsVars, httpVars, listVars, databaseVars>>
  /\ SettingsFairness /\ HttpFairness /\ ListFairness
  /\ DatabaseFairness

\* The properties of the modules that this run is about.
SettingsTakeEffect == part = "settings" => Settings!SettingsTakeEffect
CallsReturn == Http!CallsReturn
PendingAreAsked == List!PendingAreAsked
ApplicationStarts == part = "database" => Database!ApplicationStarts
==============================================================================
