------------------------ MODULE RuntimeSettings_proofs ------------------------
(***************************************************************************)
(* Proofs of the safety properties of RuntimeSettings, for every set of    *)
(* sources, requests, environments and threads and every bound.            *)
(***************************************************************************)
EXTENDS RuntimeSettings, TLAPS

Assumptions ==
  RequestsAssumption /\ EnvironmentsAssumption /\ MainAssumption /\ UpdatesAssumption

------------------------------------------------------------------------------
(***************************************************************************)
(* The invariant.                                                          *)
(***************************************************************************)

\* The changes that a thread may merge.
Changes == Requests \union [{"disabled"} -> SUBSET Sources]

\* The variables, and what the threads hold.
Typed ==
  /\ stored \in Settings /\ environment \in Environments
  /\ runtime \in [values : Settings, config : Settings]
  /\ lock \in Threads \union {0}
  /\ thread \in [Threads -> ThreadStates]
  /\ updates \in 0..MaxUpdates /\ faults \in 0..MaxFaults /\ unapplied \in BOOLEAN

Building(t) == thread[t].pc \in {"values", "config"}

\* The lock is held by the thread that builds a runtime.
LockIsHeld == \A t \in Threads : Building(t) <=> lock = t

\* What is about to be written has been validated as a whole.
WritesAreValid == \A t \in Threads : thread[t].pc = "write" => Valid(thread[t].new)

SettingsInv == Typed /\ LockIsHeld /\ WritesAreValid /\ StoredIsValid

------------------------------------------------------------------------------
(***************************************************************************)
(* Settings and threads.                                                   *)
(***************************************************************************)

\* Settings with changes are settings.
LEMMA WithIsTyped ==
  ASSUME NEW settings \in Settings, NEW changes, DOMAIN changes \subseteq Fields,
         With(Defaults, changes) \in Settings
  PROVE  With(settings, changes) \in Settings
<1> DEFINE result == With(settings, changes)
<1>1. /\ "disabled" \in DOMAIN changes => changes["disabled"] \in SUBSET Sources
      /\ "endpoint" \in DOMAIN changes => changes["endpoint"] \in BOOLEAN
      /\ "password" \in DOMAIN changes => changes["password"] \in BOOLEAN
  BY DEF With, Defaults, Settings, Fields
<1>2. /\ result["disabled"] \in SUBSET Sources
      /\ result["endpoint"] \in BOOLEAN
      /\ result["password"] \in BOOLEAN
  BY <1>1 DEF With, Settings, Fields
<1>3. result = [disabled |-> result["disabled"], endpoint |-> result["endpoint"],
                password |-> result["password"]]
  BY DEF With, Fields
<1> HIDE DEF result
<1>4. result \in Settings
  BY <1>2, <1>3 DEF Settings
<1> QED BY <1>4 DEF result

\* Every change gives settings when it is merged.
LEMMA MergedIsTyped ==
  ASSUME Assumptions, NEW settings \in Settings, NEW changes \in Changes
  PROVE  With(settings, changes) \in Settings
<1>1. CASE changes \in Requests
  BY <1>1, WithIsTyped DEF Assumptions, RequestsAssumption
<1>2. CASE changes \in [{"disabled"} -> SUBSET Sources]
  <2>1. DOMAIN changes \subseteq Fields
    BY <1>2 DEF Fields
  <2> DEFINE result == With(Defaults, changes)
  <2>2. /\ result["disabled"] \in SUBSET Sources
        /\ result["endpoint"] \in BOOLEAN
        /\ result["password"] \in BOOLEAN
    BY <1>2 DEF With, Defaults, Fields
  <2>3. result = [disabled |-> result["disabled"], endpoint |-> result["endpoint"],
                  password |-> result["password"]]
    BY DEF With, Fields
  <2> HIDE DEF result
  <2>4. result \in Settings
    BY <2>2, <2>3 DEF Settings
  <2>5. With(Defaults, changes) \in Settings
    BY <2>4 DEF result
  <2> QED BY <2>1, <2>5, WithIsTyped
<1> QED BY <1>1, <1>2 DEF Changes

LEMMA EffectiveIsTyped ==
  ASSUME Assumptions, Typed
  PROVE  Effective \in Settings
BY WithIsTyped DEF Typed, Effective, Assumptions, EnvironmentsAssumption

\* What the record of a thread holds at each of its stations.
LEMMA ThreadFields ==
  ASSUME thread \in [Threads -> ThreadStates], NEW t \in Threads
  PROVE  /\ thread[t].pc \in {"idle", "reload", "values", "config", "merge", "write",
                              "public", "audit"}
         /\ thread[t].pc = "config" => thread[t].values \in Settings
         /\ thread[t].pc \in {"merge", "write"} => /\ thread[t].changes \in Changes
                                                   /\ thread[t].audited \in BOOLEAN
         /\ thread[t].pc \in {"write", "public", "audit"} =>
              thread[t] \in [pc : {"write", "public", "audit", "reload"}, new : Settings,
                             changes : Changes, audited : BOOLEAN]
BY DEF ThreadStates, Idle, Changes

\* A thread is in one of its states after a step, and the others are as before.
LEMMA Becoming ==
  ASSUME thread \in [Threads -> ThreadStates], NEW t \in Threads,
         NEW state \in ThreadStates, Become(t, state)
  PROVE  /\ thread' \in [Threads -> ThreadStates]
         /\ thread'[t] = state
         /\ \A u \in Threads \ {t} : thread'[u] = thread[u]
BY DEF Become

LEMMA StatesOfThreads ==
  /\ Idle \in ThreadStates /\ Idle.pc = "idle"
  /\ [pc |-> "reload"] \in ThreadStates
  /\ [pc |-> "values"] \in ThreadStates
  /\ \A settings \in Settings : [pc |-> "config", values |-> settings] \in ThreadStates
  /\ \A changes \in Changes, audited \in BOOLEAN :
       [pc |-> "merge", changes |-> changes, audited |-> audited] \in ThreadStates
  /\ \A settings \in Settings, changes \in Changes, audited \in BOOLEAN :
       [pc |-> "write", new |-> settings, changes |-> changes, audited |-> audited]
         \in ThreadStates
BY DEF ThreadStates, Idle, Changes

\* Goto moves a thread between the stations that hold the same.
LEMMA Going ==
  ASSUME thread \in [Threads -> ThreadStates], NEW t \in Threads,
         thread[t].pc \in {"write", "public", "audit"},
         NEW pc \in {"public", "audit", "reload"}, Goto(t, pc)
  PROVE  \E state \in ThreadStates : state.pc = pc /\ Become(t, state)
<1> DEFINE state == [thread[t] EXCEPT !.pc = pc]
<1>1. Become(t, state)
  BY DEF Goto, Become
<1>2. thread[t] \in [pc : {"write", "public", "audit", "reload"}, new : Settings,
                     changes : Changes, audited : BOOLEAN]
  BY ThreadFields
<1>3. state \in [pc : {"write", "public", "audit", "reload"}, new : Settings,
                 changes : Changes, audited : BOOLEAN] /\ state.pc = pc
  BY <1>2
<1> HIDE DEF state
<1>4. state \in ThreadStates
  BY <1>3 DEF ThreadStates, Changes
<1> QED BY <1>1, <1>3, <1>4

------------------------------------------------------------------------------
(***************************************************************************)
(* The steps.                                                              *)
(***************************************************************************)

\* Steps that leave the lock, the stored settings and the environment alone.
LEMMA ThreadMoves ==
  ASSUME SettingsInv, NEW t \in Threads, NEW state \in ThreadStates, Become(t, state),
         UNCHANGED <<stored, environment, runtime, lock>>,
         updates' \in 0..MaxUpdates, faults' \in 0..MaxFaults, unapplied' \in BOOLEAN,
         thread[t].pc \notin {"values", "config"}, state.pc \notin {"values", "config"},
         state.pc = "write" => Valid(state.new)
  PROVE  SettingsInv'
<1>1. /\ thread' \in [Threads -> ThreadStates]
      /\ thread'[t] = state
      /\ \A u \in Threads \ {t} : thread'[u] = thread[u]
  BY Becoming DEF SettingsInv, Typed
<1>2. Typed'
  BY <1>1 DEF SettingsInv, Typed
<1>3. LockIsHeld'
  BY <1>1 DEF SettingsInv, LockIsHeld, Building
<1>4. WritesAreValid' /\ StoredIsValid'
  BY <1>1 DEF SettingsInv, WritesAreValid, StoredIsValid
<1> QED BY <1>2, <1>3, <1>4 DEF SettingsInv

\* The bounds are numbers, and the counters are in them.
LEMMA Counted ==
  ASSUME Assumptions, Typed
  PROVE  /\ updates \in 0..MaxUpdates /\ faults \in 0..MaxFaults /\ unapplied \in BOOLEAN
         /\ updates < MaxUpdates => updates + 1 \in 0..MaxUpdates
         /\ faults < MaxFaults => faults + 1 \in 0..MaxFaults
BY DEF Assumptions, UpdatesAssumption, Typed

LEMMA UpdateBegins ==
  ASSUME Assumptions, SettingsInv, NEW t \in Threads,
         Put(t) \/ \E s \in Sources : Switch(t, s)
  PROVE  SettingsInv'
<1>1. /\ thread[t] = Idle /\ updates < MaxUpdates /\ updates' = updates + 1
      /\ UNCHANGED <<stored, environment, runtime, lock, faults, unapplied>>
  BY DEF Put, Switch
<1>2. \E changes \in Changes, audited \in BOOLEAN :
        Become(t, [pc |-> "merge", changes |-> changes, audited |-> audited])
  <2>1. CASE Put(t)
    BY <2>1 DEF Put, Changes
  <2>2. CASE \E s \in Sources : Switch(t, s)
    <3>1. PICK s \in Sources : Switch(t, s)
      BY <2>2
    <3>2. PICK disabled \in {Effective.disabled \union {s}, Effective.disabled \ {s}} :
            Become(t, [pc |-> "merge", changes |-> [disabled |-> disabled],
                       audited |-> FALSE])
      BY <3>1 DEF Switch
    <3>3. Effective.disabled \subseteq Sources
      BY EffectiveIsTyped DEF SettingsInv, Settings
    <3>4. disabled \in SUBSET Sources
      BY <3>2, <3>3
    <3>5. [disabled |-> disabled] \in [{"disabled"} -> SUBSET Sources]
      BY <3>4
    <3> QED BY <3>2, <3>5 DEF Changes
  <2> QED BY <2>1, <2>2
<1>3. PICK changes \in Changes, audited \in BOOLEAN :
        Become(t, [pc |-> "merge", changes |-> changes, audited |-> audited])
  BY <1>2
<1>4. [pc |-> "merge", changes |-> changes, audited |-> audited] \in ThreadStates
  BY StatesOfThreads
<1>5. updates' \in 0..MaxUpdates /\ faults' \in 0..MaxFaults /\ unapplied' \in BOOLEAN
  BY <1>1, Counted DEF SettingsInv
<1> QED BY <1>1, <1>3, <1>4, <1>5, ThreadMoves DEF Idle

\* What is merged is validated as a whole.
LEMMA MergeKeeps ==
  ASSUME Assumptions, SettingsInv, NEW t \in Threads, Merge(t)
  PROVE  SettingsInv'
<1> DEFINE new == With(stored, thread[t].changes)
           write == [pc |-> "write", new |-> new, changes |-> thread[t].changes,
                     audited |-> thread[t].audited]
<1>1. /\ thread[t].pc = "merge" /\ Become(t, IF Valid(new) THEN write ELSE Idle)
      /\ UNCHANGED <<stored, environment, runtime, lock, updates, faults, unapplied>>
  BY DEF Merge
<1>2. thread[t].changes \in Changes /\ thread[t].audited \in BOOLEAN
  BY <1>1, ThreadFields DEF SettingsInv, Typed
<1>3. new \in Settings
  BY <1>2, MergedIsTyped DEF SettingsInv, Typed
<1> HIDE DEF new
<1>4. write \in ThreadStates /\ write.pc = "write" /\ write.new = new
  BY <1>2, <1>3, StatesOfThreads
<1> HIDE DEF write
<1>5. CASE Valid(new)
  BY <1>1, <1>4, <1>5, Counted, ThreadMoves DEF SettingsInv
<1>6. CASE ~Valid(new)
  BY <1>1, <1>6, Counted, StatesOfThreads, ThreadMoves DEF SettingsInv
<1> QED BY <1>5, <1>6

LEMMA WriteKeeps ==
  ASSUME Assumptions, SettingsInv, NEW t \in Threads, Write(t)
  PROVE  SettingsInv'
<1>1. /\ thread[t].pc = "write" /\ stored' = thread[t].new /\ Goto(t, "public")
      /\ UNCHANGED <<environment, runtime, lock, updates, faults, unapplied>>
  BY DEF Write
<1>2. PICK state \in ThreadStates : state.pc = "public" /\ Become(t, state)
  BY <1>1, Going DEF SettingsInv, Typed
<1>3. /\ thread' \in [Threads -> ThreadStates]
      /\ thread'[t] = state
      /\ \A u \in Threads \ {t} : thread'[u] = thread[u]
  BY <1>2, Becoming DEF SettingsInv, Typed
<1>4. stored' \in Settings /\ Valid(stored')
  BY <1>1, ThreadFields DEF SettingsInv, Typed, WritesAreValid
<1>5. Typed'
  BY <1>1, <1>3, <1>4 DEF SettingsInv, Typed
<1>6. LockIsHeld'
  BY <1>1, <1>2, <1>3 DEF SettingsInv, LockIsHeld, Building
<1>7. WritesAreValid' /\ StoredIsValid'
  BY <1>2, <1>3, <1>4 DEF SettingsInv, WritesAreValid, StoredIsValid
<1> QED BY <1>5, <1>6, <1>7 DEF SettingsInv

\* get_public and the audit event.
LEMMA ReportKeeps ==
  ASSUME Assumptions, SettingsInv, NEW t \in Threads, Public(t) \/ Audit(t) \/ AuditFails(t)
  PROVE  SettingsInv'
<1>1. /\ thread[t].pc \in {"public", "audit"}
      /\ UNCHANGED <<stored, environment, runtime, lock, updates>>
      /\ faults' \in 0..MaxFaults /\ unapplied' \in BOOLEAN
      /\ Become(t, Idle) \/ \E pc \in {"audit", "reload"} : Goto(t, pc)
  BY Counted DEF SettingsInv, Public, Audit, AuditFails
<1>2. \E state \in ThreadStates : state.pc \in {"idle", "audit", "reload"} /\ Become(t, state)
  BY <1>1, Going, StatesOfThreads DEF SettingsInv, Typed
<1> QED BY <1>1, <1>2, Counted, ThreadMoves DEF SettingsInv

\* The steps under the lock.
LEMMA ReloadKeeps ==
  ASSUME Assumptions, SettingsInv, NEW t \in Threads,
         CloseRuntime(t) \/ ReadValues(t) \/ ReadConfig(t)
  PROVE  SettingsInv'
<1>1. NoRuntime \in [values : Settings, config : Settings]
  BY DEF NoRuntime, Defaults, Settings
<1>2. /\ UNCHANGED <<stored, environment, updates, faults>> /\ unapplied' \in BOOLEAN
  BY DEF CloseRuntime, ReadValues, ReadConfig, SettingsInv, Typed
<1>3. \E state \in ThreadStates :
        /\ Become(t, state)
        /\ \/ lock = 0 /\ lock' = t /\ state.pc = "values" /\ ~Building(t)
           \/ lock = t /\ lock' = t /\ state.pc = "config" /\ Building(t)
           \/ lock = t /\ lock' = 0 /\ state.pc = "idle" /\ Building(t)
  <2>1. CASE CloseRuntime(t)
    BY <2>1, StatesOfThreads DEF CloseRuntime, Building
  <2>2. CASE ReadValues(t)
    <3>1. lock = t /\ Building(t)
      BY <2>2 DEF ReadValues, SettingsInv, LockIsHeld, Building
    <3> DEFINE config == [pc |-> "config", values |-> Effective]
    <3>2. config \in ThreadStates /\ config.pc = "config"
      BY EffectiveIsTyped, StatesOfThreads DEF SettingsInv
    <3>3. IF Valid(Effective) THEN Become(t, config) /\ UNCHANGED <<runtime, lock>>
          ELSE EndReload(t, NoRuntime)
      BY <2>2 DEF ReadValues
    <3> HIDE DEF config
    <3>4. \/ Become(t, config) /\ lock' = lock
          \/ Become(t, Idle) /\ lock' = 0
      BY <3>3 DEF EndReload
    <3> QED BY <3>1, <3>2, <3>4, StatesOfThreads
  <2>3. CASE ReadConfig(t)
    BY <2>3, StatesOfThreads DEF ReadConfig, EndReload, SettingsInv, LockIsHeld, Building
  <2> QED BY <2>1, <2>2, <2>3
<1>4. runtime' \in [values : Settings, config : Settings]
  <2>1. CASE CloseRuntime(t)
    BY <1>1, <2>1 DEF CloseRuntime
  <2>2. CASE ReadValues(t)
    BY <1>1, <2>2 DEF ReadValues, EndReload, SettingsInv, Typed
  <2>3. CASE ReadConfig(t)
    <3>1. thread[t].values \in Settings
      BY <2>3, ThreadFields DEF ReadConfig, SettingsInv, Typed
    <3> QED BY <1>1, <2>3, <3>1, EffectiveIsTyped DEF ReadConfig, EndReload, SettingsInv
  <2> QED BY <2>1, <2>2, <2>3
<1>5. PICK state \in ThreadStates :
        /\ Become(t, state)
        /\ \/ lock = 0 /\ lock' = t /\ state.pc = "values" /\ ~Building(t)
           \/ lock = t /\ lock' = t /\ state.pc = "config" /\ Building(t)
           \/ lock = t /\ lock' = 0 /\ state.pc = "idle" /\ Building(t)
  BY <1>3
<1>6. /\ thread' \in [Threads -> ThreadStates]
      /\ thread'[t] = state
      /\ \A u \in Threads \ {t} : thread'[u] = thread[u]
  BY <1>5, Becoming DEF SettingsInv, Typed
<1>7. Typed'
  BY <1>2, <1>4, <1>5, <1>6 DEF SettingsInv, Typed
<1>8. LockIsHeld'
  <2>1. 0 \notin Threads
    BY DEF Assumptions, MainAssumption, Threads
  <2> QED BY <1>5, <1>6, <2>1 DEF SettingsInv, LockIsHeld, Building
<1>9. WritesAreValid' /\ StoredIsValid'
  BY <1>2, <1>5, <1>6 DEF SettingsInv, WritesAreValid, StoredIsValid
<1> QED BY <1>7, <1>8, <1>9 DEF SettingsInv

------------------------------------------------------------------------------
(***************************************************************************)
(* The theorems.                                                           *)
(***************************************************************************)

LEMMA InitSettings == ASSUME Assumptions, Init PROVE SettingsInv
<1>1. NoRuntime \in [values : Settings, config : Settings]
  BY DEF NoRuntime, Defaults, Settings
<1>2. thread \in [Threads -> ThreadStates]
  BY StatesOfThreads DEF Init
<1>3. \A t \in Threads : thread[t].pc \in {"idle", "reload"}
  <2>1. \A t \in Threads : thread[t] = [pc |-> "reload"] \/ thread[t] = Idle
    BY DEF Init
  <2> QED BY <2>1, StatesOfThreads
<1>4. Typed
  <2>1. MaxUpdates \in Nat /\ MaxFaults \in Nat
    BY DEF Assumptions, UpdatesAssumption
  <2>2. stored \in Settings /\ environment \in Environments /\ runtime = NoRuntime
    BY DEF Init
  <2>3. lock \in Threads \union {0} /\ unapplied \in BOOLEAN
    BY DEF Init
  <2>4. updates \in 0..MaxUpdates /\ faults \in 0..MaxFaults
    BY <2>1 DEF Init
  <2> QED BY <1>1, <1>2, <2>2, <2>3, <2>4 DEF Typed
<1>5. LockIsHeld
  BY <1>3 DEF Init, LockIsHeld, Building, Assumptions, MainAssumption, Threads
<1> QED BY <1>3, <1>4, <1>5 DEF SettingsInv, WritesAreValid, StoredIsValid, Init

LEMMA NextSettings ==
  ASSUME Assumptions, SettingsInv, [Next]_vars
  PROVE  SettingsInv'
<1>1. CASE \E t \in Threads : Step(t) \/ AuditFails(t)
  BY <1>1, MergeKeeps, WriteKeeps, ReportKeeps, ReloadKeeps DEF Step
<1>2. CASE \E t \in Callers : Put(t) \/ \E s \in Sources : Switch(t, s)
  BY <1>2, UpdateBegins DEF Threads
<1>3. CASE UNCHANGED vars
  BY <1>3 DEF vars, SettingsInv, Typed, LockIsHeld, Building, WritesAreValid, StoredIsValid
<1> QED BY <1>1, <1>2, <1>3 DEF Next

\* Every variable has its type, and one thread builds a runtime at a time,
\* however many updates and reloads run at once.
THEOREM OneReloadAtATime == ASSUME Assumptions PROVE Spec => []TypeOK
<1>1. SettingsInv => TypeOK
  <2>1. SettingsInv => \A t, u \in Threads :
          {thread[t].pc, thread[u].pc} \subseteq {"values", "config"} => t = u
    BY DEF SettingsInv, LockIsHeld, Building
  <2> QED BY <2>1 DEF SettingsInv, Typed, TypeOK
<1> QED BY <1>1, InitSettings, NextSettings, PTL DEF Spec

\* Updates that were validated against settings that are gone never store
\* settings that do not go together.
THEOREM StoredSettingsAreValid == ASSUME Assumptions PROVE Spec => []StoredIsValid
<1>1. SettingsInv => StoredIsValid
  BY DEF SettingsInv
<1> QED BY <1>1, InitSettings, NextSettings, PTL DEF Spec
==============================================================================
