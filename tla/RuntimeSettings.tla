---------------------------- MODULE RuntimeSettings ----------------------------
(***************************************************************************)
(* The settings (settings.py) and the runtime that is built from them      *)
(* (RuntimeManager.reload and set_source_enabled, runtime.py; PUT          *)
(* /settings, api.py).                                                     *)
(*                                                                         *)
(* An update reads the stored settings, merges and validates them, and     *)
(* writes all of them back in another session; the runtime is then built   *)
(* again by the thread that made the update.  Three settings stand for     *)
(* all: the disabled sources, which requests read before they change them, *)
(* and the endpoint and password of CloudDrive2, which are valid together  *)
(* only.                                                                   *)
(***************************************************************************)
EXTENDS Integers, FiniteSets, SettingsTable

CONSTANTS
  Sources,       \* SOURCE_NAMES
  Requests,      \* the changes that PUT /settings may ask for
  Environments,  \* environment_overrides a process may be started with
  Callers,       \* threads of the API
  Main,          \* the thread that starts the application
  MaxUpdates,    \* bound: updates
  MaxFaults      \* bound: failed audit events

VARIABLES
  environment,  \* environment_overrides
  runtime,      \* what the services were built from, NoRuntime for none
  lock,         \* the holder of RuntimeManager._lock, 0 for none
  thread,       \* where each thread stands
  updates, faults,
  unapplied     \* history: a request has ended between its write and its reload

vars == <<stored, environment, runtime, lock, thread, updates, faults, unapplied>>

Settings == [disabled : SUBSET Sources, endpoint : BOOLEAN, password : BOOLEAN]
Fields == {"disabled", "endpoint", "password"}

\* DEFAULTS
Defaults == [disabled |-> {}, endpoint |-> FALSE, password |-> FALSE]

MainAssumption == Main \notin Callers /\ 0 \notin Callers \union {Main}
UpdatesAssumption == {MaxUpdates, MaxFaults} \subseteq Nat

Threads == Callers \union {Main}
NoRuntime == [values |-> Defaults, config |-> Defaults]

\* settings with some fields replaced
With(settings, changes) ==
  [f \in Fields |-> IF f \in DOMAIN changes THEN changes[f] ELSE settings[f]]

\* Requests and environments name settings and give them values of their types.
RequestsAssumption ==
  \A r \in Requests : DOMAIN r \subseteq Fields /\ With(Defaults, r) \in Settings
EnvironmentsAssumption ==
  \A e \in Environments :
    DOMAIN e \subseteq Fields \ {"disabled"} /\ With(Defaults, e) \in Settings

Effective == With(stored, environment)

\* get_effective and build_clouddrive_config succeed
Buildable(s) == s.endpoint /\ Valid(s)

\* What reload is to make of the settings as they are.
Target ==
  IF Buildable(Effective) THEN [values |-> Effective, config |-> Effective]
  ELSE NoRuntime

Idle == [pc |-> "idle"]
Become(t, state) == thread' = [thread EXCEPT ![t] = state]
Goto(t, pc) == thread' = [thread EXCEPT ![t].pc = pc]

------------------------------------------------------------------------------
(***************************************************************************)
(* SettingsService.update, called by PUT /settings and set_source_enabled. *)
(***************************************************************************)

Put(t) ==
  /\ thread[t] = Idle /\ updates < MaxUpdates /\ updates' = updates + 1
  /\ \E changes \in Requests :
       Become(t, [pc |-> "merge", changes |-> changes, audited |-> TRUE])
  /\ UNCHANGED <<stored, environment, runtime, lock, faults, unapplied>>

\* set_source_enabled reads the disabled sources, from effective settings that
\* are valid or it raises.
Switch(t, s) ==
  /\ thread[t] = Idle /\ updates < MaxUpdates /\ updates' = updates + 1
  /\ Valid(Effective)
  /\ \E disabled \in {Effective.disabled \union {s}, Effective.disabled \ {s}} :
       Become(t, [pc |-> "merge", changes |-> [disabled |-> disabled],
                  audited |-> FALSE])
  /\ UNCHANGED <<stored, environment, runtime, lock, faults, unapplied>>

\* get_stored, then _validate of the result without the environment: an invalid
\* one raises.
Merge(t) ==
  /\ thread[t].pc = "merge"
  /\ LET new == With(stored, thread[t].changes) IN
       Become(t, IF Valid(new)
                 THEN [pc |-> "write", new |-> new, changes |-> thread[t].changes,
                       audited |-> thread[t].audited]
                 ELSE Idle)
  /\ UNCHANGED <<stored, environment, runtime, lock, updates, faults, unapplied>>

\* Mutant: only the changed fields are written, over the row as it is now.
WriteChanges(t) ==
  /\ thread[t].pc = "write"
  /\ stored' = With(stored, thread[t].changes)
  /\ Goto(t, "public")
  /\ UNCHANGED <<environment, runtime, lock, updates, faults, unapplied>>

\* set_setting: an upsert of all that was stored
Write(t) ==
  /\ thread[t].pc = "write"
  /\ stored' = thread[t].new
  /\ Goto(t, "public")
  /\ UNCHANGED <<environment, runtime, lock, updates, faults, unapplied>>

\* get_public reads the effective settings, and raises when they are not valid
\* with the environment: what was written stays.
Public(t) ==
  /\ thread[t].pc = "public"
  /\ IF Valid(Effective)
     THEN Goto(t, IF thread[t].audited THEN "audit" ELSE "reload") /\ UNCHANGED unapplied
     ELSE Become(t, Idle) /\ unapplied' = TRUE
  /\ UNCHANGED <<stored, environment, runtime, lock, updates, faults>>

\* The audit event settings_updated
Audit(t) ==
  /\ thread[t].pc = "audit"
  /\ Goto(t, "reload")
  /\ UNCHANGED <<stored, environment, runtime, lock, updates, faults, unapplied>>

AuditFails(t) ==
  /\ thread[t].pc = "audit" /\ faults < MaxFaults
  /\ faults' = faults + 1
  /\ Become(t, Idle) /\ unapplied' = TRUE
  /\ UNCHANGED <<stored, environment, runtime, lock, updates>>

------------------------------------------------------------------------------
(***************************************************************************)
(* RuntimeManager.reload, under its lock.                                  *)
(***************************************************************************)

\* close: requests find no runtime until it is built
CloseRuntime(t) ==
  /\ thread[t].pc = "reload" /\ lock = 0
  /\ lock' = t /\ runtime' = NoRuntime
  /\ Become(t, [pc |-> "values"])
  /\ UNCHANGED <<stored, environment, updates, faults, unapplied>>

EndReload(t, result) ==
  /\ runtime' = result
  /\ lock' = 0
  /\ Become(t, Idle)

\* Mutant: the lock is taken and given back by hand, and the early return for
\* SettingsError forgets it.
ReadValuesKeepsLock(t) ==
  /\ thread[t].pc = "values"
  /\ unapplied' = FALSE
  /\ IF Valid(Effective)
     THEN Become(t, [pc |-> "config", values |-> Effective]) /\ UNCHANGED <<runtime, lock>>
     ELSE Become(t, Idle) /\ UNCHANGED <<runtime, lock>>
  /\ UNCHANGED <<stored, environment, updates, faults>>

\* get_effective, or SettingsError: no runtime
ReadValues(t) ==
  /\ thread[t].pc = "values"
  /\ unapplied' = FALSE
  /\ IF Valid(Effective)
     THEN Become(t, [pc |-> "config", values |-> Effective]) /\ UNCHANGED <<runtime, lock>>
     ELSE EndReload(t, NoRuntime)
  /\ UNCHANGED <<stored, environment, updates, faults>>

\* build_clouddrive_config reads the settings a second time.
ReadConfig(t) ==
  /\ thread[t].pc = "config"
  /\ EndReload(t, IF Buildable(Effective)
                  THEN [values |-> thread[t].values, config |-> Effective]
                  ELSE NoRuntime)
  /\ UNCHANGED <<stored, environment, updates, faults, unapplied>>

------------------------------------------------------------------------------
Init ==
  /\ stored \in {s \in Settings : Valid(s)}
  /\ environment \in Environments
  /\ runtime = NoRuntime /\ lock = 0
  /\ thread = [t \in Threads |-> IF t = Main THEN [pc |-> "reload"] ELSE Idle]
  /\ updates = 0 /\ faults = 0 /\ unapplied = FALSE

Step(t) ==
  Merge(t) \/ Write(t) \/ Public(t) \/ Audit(t) \/ CloseRuntime(t) \/ ReadValues(t)
    \/ ReadConfig(t)

\* Requests are served once the application has started.
Next ==
  \/ \E t \in Threads : Step(t) \/ AuditFails(t)
  \/ \E t \in Callers :
       /\ thread[Main] = Idle
       /\ Put(t) \/ \E s \in Sources : Switch(t, s)

Spec == Init /\ [][Next]_vars

------------------------------------------------------------------------------
(***************************************************************************)
(* Properties.                                                             *)
(***************************************************************************)

ThreadStates ==
  {Idle} \union [pc : {"reload", "values"}] \union [pc : {"config"}, values : Settings]
  \union [pc : {"merge"}, changes : Requests \union [{"disabled"} -> SUBSET Sources],
          audited : BOOLEAN]
  \union [pc : {"write", "public", "audit", "reload"}, new : Settings,
          changes : Requests \union [{"disabled"} -> SUBSET Sources],
          audited : BOOLEAN]

\* Every variable has its type, and one thread builds a runtime at a time.
TypeOK ==
  /\ stored \in Settings /\ environment \in Environments
  /\ runtime \in [values : Settings, config : Settings]
  /\ lock \in Threads \union {0}
  /\ thread \in [Threads -> ThreadStates]
  /\ \A t, u \in Threads :
       {thread[t].pc, thread[u].pc} \subseteq {"values", "config"} => t = u
  /\ updates \in 0..MaxUpdates /\ faults \in 0..MaxFaults /\ unapplied \in BOOLEAN

\* Settings take effect: the runtime becomes and stays the one that they ask for.
SettingsTakeEffect == <>[](runtime = Target \/ unapplied)
==============================================================================
