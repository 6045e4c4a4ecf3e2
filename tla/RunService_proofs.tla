--------------------------- MODULE RunService_proofs ---------------------------
(***************************************************************************)
(* Proofs of the safety properties of RunService, for every set of         *)
(* profiles and threads, every number of slots and every bound.            *)
(***************************************************************************)
EXTENDS RunService, FiniteSetTheorems, TLAPS

------------------------------------------------------------------------------
(***************************************************************************)
(* Threads, and what one of them moving does to locks and slots.           *)
(***************************************************************************)

\* What the record of a thread holds at each of its stations.
LEMMA ThreadFields ==
  ASSUME thread \in [Threads -> ThreadStates], NEW t \in Threads
  PROVE  /\ thread[t].pc \in {"idle", "lock", "slot", "create", "leave", "unlock",
                              "work", "finish", "write"}
         /\ thread[t].pc = "idle" <=> thread[t] = Idle
         /\ thread[t].pc # "idle" => /\ thread[t].service \in Services
                                     /\ thread[t].profile \in Profiles
         /\ Working(t) => thread[t].run \in 1..MaxRuns
BY DEF ThreadStates, Idle, Working

\* The thread that takes a step is the only one whose record changes.
Moves(t) ==
  /\ thread \in [Threads -> ThreadStates] /\ thread' \in [Threads -> ThreadStates]
  /\ \A u \in Threads \ {t} : thread'[u] = thread[u]

\* A thread that keeps its lock, or has none before and after.
LEMMA LockKept ==
  ASSUME NEW t \in Threads, Moves(t), LocksAreHeld, locked' = locked,
         HoldsLock(t)' <=> HoldsLock(t), HoldsLock(t) => LockOf(t)' = LockOf(t)
  PROVE  LocksAreHeld'
<1>1. \A u \in Threads : /\ HoldsLock(u)' <=> HoldsLock(u)
                         /\ HoldsLock(u) => LockOf(u)' = LockOf(u)
  BY DEF Moves, HoldsLock, LockOf
<1> QED BY <1>1 DEF LocksAreHeld

\* A thread that takes a free lock.
LEMMA LockTaken ==
  ASSUME NEW t \in Threads, Moves(t), LocksAreHeld, ~HoldsLock(t), HoldsLock(t)',
         LockOf(t)' \notin locked, locked' = locked \union {LockOf(t)'}
  PROVE  LocksAreHeld'
<1>1. \A u \in Threads \ {t} : /\ HoldsLock(u)' <=> HoldsLock(u)
                               /\ LockOf(u)' = LockOf(u)
  BY DEF Moves, HoldsLock, LockOf
<1>2. \A u \in Threads : HoldsLock(u) => LockOf(u) \in locked
  BY DEF LocksAreHeld
<1> QED BY <1>1, <1>2 DEF LocksAreHeld

\* A thread that gives its lock back.
LEMMA LockFreed ==
  ASSUME NEW t \in Threads, Moves(t), LocksAreHeld, HoldsLock(t), ~HoldsLock(t)',
         locked' = locked \ {LockOf(t)}
  PROVE  LocksAreHeld'
<1>1. \A u \in Threads \ {t} : /\ HoldsLock(u)' <=> HoldsLock(u)
                               /\ LockOf(u)' = LockOf(u)
  BY DEF Moves, HoldsLock, LockOf
<1> QED BY <1>1 DEF LocksAreHeld

\* The holders of slots are finite in number.
LEMMA HoldersFinite ==
  ASSUME NEW s
  PROVE  IsFiniteSet(SlotHolders(s)) /\ Cardinality(SlotHolders(s)) \in Nat
<1>1. IsFiniteSet(Threads)
  BY ThreadsAssumption DEF Threads
<1>2. SlotHolders(s) \in SUBSET Threads
  BY DEF SlotHolders
<1>3. IsFiniteSet(SlotHolders(s))
  BY <1>1, <1>2, FS_Subset
<1> QED BY <1>3, FS_CardinalityType

\* A thread that keeps its slot, or has none before and after.
LEMMA SlotKept ==
  ASSUME NEW t \in Threads, Moves(t), SlotsAreHeld, slots' = slots,
         HoldsSlot(t)' <=> HoldsSlot(t),
         HoldsSlot(t) => thread'[t].service = thread[t].service
  PROVE  SlotsAreHeld'
<1>1. \A s \in Services : SlotHolders(s)' = SlotHolders(s)
  BY DEF Moves, HoldsSlot, SlotHolders
<1> QED BY <1>1 DEF SlotsAreHeld

\* A thread that takes a slot.
LEMMA SlotTaken ==
  ASSUME NEW t \in Threads, Moves(t), SlotsAreHeld, slots \in [Services -> 0..Slots],
         ~HoldsSlot(t), HoldsSlot(t)', NEW s \in Services, thread'[t].service = s,
         slots[s] # 0, slots' = [slots EXCEPT ![s] = @ - 1]
  PROVE  SlotsAreHeld' /\ slots' \in [Services -> 0..Slots]
<1>1. SlotHolders(s)' = SlotHolders(s) \union {t}
  BY DEF Moves, HoldsSlot, SlotHolders
<1>2. t \notin SlotHolders(s)
  BY DEF SlotHolders
<1>3. Cardinality(SlotHolders(s))' = Cardinality(SlotHolders(s)) + 1
  BY <1>1, <1>2, HoldersFinite, FS_AddElement
<1>4. \A r \in Services \ {s} : SlotHolders(r)' = SlotHolders(r) /\ slots'[r] = slots[r]
  BY DEF Moves, HoldsSlot, SlotHolders
<1>5. slots'[s] = slots[s] - 1 /\ slots[s] \in 1..Slots
  BY SlotsAssumption
<1>6. slots' \in [Services -> 0..Slots]
  BY <1>5, SlotsAssumption
<1>7. SlotsAreHeld'
  <2> SUFFICES ASSUME NEW r \in Services
               PROVE  slots'[r] + Cardinality(SlotHolders(r))' = Slots
    BY DEF SlotsAreHeld
  <2>1. slots[r] + Cardinality(SlotHolders(r)) = Slots
    BY DEF SlotsAreHeld
  <2>2. CASE r = s
    BY <1>3, <1>5, <2>1, <2>2, HoldersFinite
  <2>3. CASE r # s
    BY <1>4, <2>1, <2>3
  <2> QED BY <2>2, <2>3
<1> QED BY <1>6, <1>7

\* A thread that gives its slot back.
LEMMA SlotFreed ==
  ASSUME NEW t \in Threads, Moves(t), SlotsAreHeld, slots \in [Services -> 0..Slots],
         HoldsSlot(t), ~HoldsSlot(t)', NEW s \in Services, thread[t].service = s,
         slots' = [slots EXCEPT ![s] = @ + 1]
  PROVE  SlotsAreHeld' /\ slots' \in [Services -> 0..Slots]
<1>1. SlotHolders(s)' = SlotHolders(s) \ {t}
  BY DEF Moves, HoldsSlot, SlotHolders
<1>2. t \in SlotHolders(s)
  BY DEF SlotHolders
<1>3. Cardinality(SlotHolders(s))' = Cardinality(SlotHolders(s)) - 1
  BY <1>1, <1>2, HoldersFinite, FS_RemoveElement
<1>4. Cardinality(SlotHolders(s))' \in Nat
  BY <1>1, HoldersFinite, FS_RemoveElement, FS_CardinalityType
<1>5. \A r \in Services \ {s} : SlotHolders(r)' = SlotHolders(r) /\ slots'[r] = slots[r]
  BY DEF Moves, HoldsSlot, SlotHolders
<1>6. slots'[s] = slots[s] + 1 /\ slots[s] \in 0..Slots
  OBVIOUS
<1>7. slots[s] + Cardinality(SlotHolders(s)) = Slots
  BY DEF SlotsAreHeld
<1>8. slots'[s] + Cardinality(SlotHolders(s))' = Slots
  BY <1>3, <1>6, <1>7, HoldersFinite
<1>9. slots' \in [Services -> 0..Slots]
  BY <1>4, <1>6, <1>8, SlotsAssumption
<1>10. SlotsAreHeld'
  BY <1>5, <1>8 DEF SlotsAreHeld
<1> QED BY <1>9, <1>10

------------------------------------------------------------------------------
(***************************************************************************)
(* Types, locks and slots.                                                 *)
(***************************************************************************)

Limited == TypeOK /\ LimitsAreAccounted

\* The steps of execute that leave locks and slots alone.
LEMMA StaysLimited ==
  ASSUME Limited, NEW t \in Threads, ThreadsOK', Moves(t), UNCHANGED limits,
         HoldsLock(t)' <=> HoldsLock(t), HoldsSlot(t)' <=> HoldsSlot(t),
         HoldsLock(t) => LockOf(t)' = LockOf(t),
         TableOK', RuntimeOK', crashes' \in 0..MaxCrashes, faults' \in 0..MaxFaults
  PROVE  Limited'
<1>1. HoldsSlot(t) => thread'[t].service = thread[t].service
  BY DEF HoldsSlot, HoldsLock, LockOf
<1>2. LocksAreHeld' /\ SlotsAreHeld'
  BY <1>1, LockKept, SlotKept DEF Limited, LimitsAreAccounted, limits
<1> QED BY <1>2 DEF Limited, TypeOK, LimitsAreAccounted, limits

\* The steps that no thread of execute takes.
LEMMA AsideLimited ==
  ASSUME Limited, UNCHANGED <<limits, thread>>,
         TableOK', RuntimeOK', ThreadsOK', crashes' \in 0..MaxCrashes,
         faults' \in 0..MaxFaults
  PROVE  Limited'
<1>1. LocksAreHeld'
  BY DEF Limited, LimitsAreAccounted, LocksAreHeld, HoldsLock, LockOf, limits
<1>2. SlotsAreHeld'
  BY DEF Limited, LimitsAreAccounted, SlotsAreHeld, SlotHolders, HoldsSlot, limits
<1> QED BY <1>1, <1>2 DEF Limited, TypeOK, LimitsAreAccounted, limits

\* Execute keeps types, locks and slots.
LEMMA ExecuteLimited ==
  ASSUME Limited, NEW t \in Threads, Execute(t)
  PROVE  Limited'
<1> USE DEF Goto, Become, Threads
<1>0. /\ thread \in [Threads -> ThreadStates]
      /\ TableOK /\ RuntimeOK /\ ThreadsOK /\ locked \subseteq Services \X Profiles
      /\ slots \in [Services -> 0..Slots]
      /\ LocksAreHeld /\ SlotsAreHeld
      /\ crashes \in 0..MaxCrashes /\ faults \in 0..MaxFaults
  BY DEF Limited, TypeOK, ThreadsOK, LimitsAreAccounted
<1>F. /\ thread[t].pc = "idle" <=> thread[t] = Idle
      /\ thread[t].pc # "idle" => /\ thread[t].service \in Services
                                  /\ thread[t].profile \in Profiles
      /\ Working(t) => thread[t].run \in 1..MaxRuns
  BY <1>0, ThreadFields
<1>1. CASE LockProfile(t)
  <2> DEFINE lock == <<thread[t].service, thread[t].profile>>
  <2>1. CASE lock \in locked
    <3>1. Moves(t) /\ thread'[t] = Idle
      BY <1>0, <1>1, <2>1 DEF LockProfile, Moves, ThreadStates
    <3>2. ~HoldsLock(t) /\ ~HoldsLock(t)' /\ ~HoldsSlot(t) /\ ~HoldsSlot(t)'
      BY <1>1, <3>1 DEF LockProfile, HoldsLock, HoldsSlot, Idle
    <3>3. ThreadsOK'
      BY <1>0, <1>1, <3>1 DEF LockProfile, Moves, ThreadsOK, Working, Idle
    <3> QED
      BY <1>0, <1>1, <2>1, <3>1, <3>2, <3>3, StaysLimited
      DEF LockProfile, runtime, limits, TableOK, RuntimeOK
  <2>2. CASE lock \notin locked
    <3>1. Moves(t) /\ thread'[t] = At(t, "slot")
      BY <1>0, <1>1, <1>F, <2>2 DEF LockProfile, Moves, ThreadStates, At
    <3>2. /\ ~HoldsLock(t) /\ HoldsLock(t)' /\ ~HoldsSlot(t) /\ ~HoldsSlot(t)'
          /\ LockOf(t)' = lock
      BY <1>1, <3>1 DEF LockProfile, HoldsLock, HoldsSlot, At, LockOf
    <3>3. ThreadsOK'
      BY <1>0, <1>1, <3>1 DEF LockProfile, Moves, ThreadsOK, Working, At
    <3>4. LocksAreHeld'
      BY <1>0, <1>1, <2>2, <3>1, <3>2, LockTaken DEF LockProfile
    <3>5. SlotsAreHeld'
      BY <1>0, <1>1, <3>1, <3>2, SlotKept DEF LockProfile
    <3> QED
      BY <1>0, <1>1, <1>F, <2>2, <3>3, <3>4, <3>5
      DEF LockProfile, runtime, Limited, TypeOK, LimitsAreAccounted, TableOK, RuntimeOK
  <2> QED BY <2>1, <2>2
<1>2. CASE TakeSlot(t)
  <2> DEFINE s == thread[t].service
  <2>1. CASE slots[s] = 0
    <3>1. Moves(t) /\ thread'[t] = Idle
      BY <1>0, <1>2, <2>1 DEF TakeSlot, Moves, ThreadStates
    <3>2. HoldsLock(t) /\ ~HoldsLock(t)' /\ ~HoldsSlot(t) /\ ~HoldsSlot(t)'
      BY <1>2, <3>1 DEF TakeSlot, HoldsLock, HoldsSlot, Idle
    <3>3. ThreadsOK'
      BY <1>0, <1>2, <3>1 DEF TakeSlot, Moves, ThreadsOK, Working, Idle
    <3>4. LocksAreHeld'
      BY <1>0, <1>2, <2>1, <3>1, <3>2, LockFreed DEF TakeSlot, LockOf
    <3>5. SlotsAreHeld'
      BY <1>0, <1>2, <2>1, <3>1, <3>2, SlotKept DEF TakeSlot
    <3> QED
      BY <1>0, <1>2, <2>1, <3>3, <3>4, <3>5
      DEF TakeSlot, runtime, Limited, TypeOK, LimitsAreAccounted, TableOK, RuntimeOK
  <2>2. CASE slots[s] # 0
    <3>1. Moves(t) /\ thread'[t] = At(t, "create")
      BY <1>0, <1>2, <1>F, <2>2 DEF TakeSlot, Moves, ThreadStates, At
    <3>2. /\ HoldsLock(t) /\ HoldsLock(t)' /\ ~HoldsSlot(t) /\ HoldsSlot(t)'
          /\ LockOf(t)' = LockOf(t)
      BY <1>2, <3>1 DEF TakeSlot, HoldsLock, HoldsSlot, At, LockOf
    <3>3. ThreadsOK'
      BY <1>0, <1>2, <3>1 DEF TakeSlot, Moves, ThreadsOK, Working, At
    <3>4. LocksAreHeld'
      BY <1>0, <1>2, <2>2, <3>1, <3>2, LockKept DEF TakeSlot
    <3>5. /\ s \in Services /\ thread'[t].service = s
          /\ slots' = [slots EXCEPT ![s] = @ - 1]
      BY <1>2, <1>F, <2>2, <3>1 DEF TakeSlot, At
    <3>6. SlotsAreHeld' /\ slots' \in [Services -> 0..Slots]
      <4> HIDE DEF s
      <4> QED BY <1>0, <2>2, <3>1, <3>2, <3>5, SlotTaken
    <3> QED
      BY <1>0, <1>2, <2>2, <3>3, <3>4, <3>6
      DEF TakeSlot, runtime, Limited, TypeOK, LimitsAreAccounted, TableOK, RuntimeOK
  <2> QED BY <2>1, <2>2
<1>3. CASE RunRefused(t)
  <2>1. Moves(t) /\ thread'[t] = At(t, "leave")
    BY <1>0, <1>3, <1>F DEF RunRefused, Moves, ThreadStates, At
  <2>2. /\ HoldsLock(t) /\ HoldsLock(t)' /\ HoldsSlot(t) /\ HoldsSlot(t)'
        /\ LockOf(t)' = LockOf(t)
    BY <1>3, <2>1 DEF RunRefused, HoldsLock, HoldsSlot, At, LockOf
  <2>3. ThreadsOK'
    BY <1>0, <1>3, <2>1 DEF RunRefused, Moves, ThreadsOK, Working, At
  <2> QED
    BY <1>0, <1>3, <2>1, <2>2, <2>3, StaysLimited
    DEF RunRefused, runtime, limits, TableOK, RuntimeOK
<1>4. CASE CreateRun(t)
  <2> DEFINE p == thread[t].profile
  <2>1. PICK r \in 1..MaxRuns :
          /\ {u \in 1..MaxRuns : u < r} = DOMAIN table
          /\ table' = [u \in DOMAIN table \union {r} |->
                         IF u = r THEN [profile |-> p, status |-> "running"]
                         ELSE table[u]]
          /\ Become(t, [pc |-> "work", service |-> thread[t].service,
                        profile |-> p, run |-> r])
    BY <1>4 DEF CreateRun
  <2>2. thread[t].pc = "create" /\ UNCHANGED <<runtime, limits, crashes, faults>>
    BY <1>4 DEF CreateRun
  <2>3. /\ Moves(t)
        /\ thread'[t] = [pc |-> "work", service |-> thread[t].service,
                         profile |-> p, run |-> r]
    BY <1>0, <1>F, <2>1, <2>2 DEF Moves, ThreadStates
  <2>4. /\ HoldsLock(t) /\ HoldsLock(t)' /\ HoldsSlot(t) /\ HoldsSlot(t)'
        /\ LockOf(t)' = LockOf(t)
    BY <2>2, <2>3 DEF HoldsLock, HoldsSlot, LockOf
  <2>5. TableOK' /\ DOMAIN table \subseteq DOMAIN table' /\ r \in DOMAIN table'
    BY <1>0, <1>F, <2>1, <2>2 DEF TableOK
  <2>6. ThreadsOK'
    BY <1>0, <2>2, <2>3, <2>5 DEF Moves, ThreadsOK, Working
  <2>7. RuntimeOK'
    BY <1>0, <2>2, <2>5 DEF RuntimeOK, runtime
  <2> QED
    BY <1>0, <2>2, <2>3, <2>4, <2>5, <2>6, <2>7, StaysLimited DEF runtime, limits
<1>5. CASE Work(t) \/ FinishCheck(t) \/ FinishWrite(t)
  <2>1. /\ Working(t) /\ UNCHANGED <<runtime, limits, crashes, faults>>
        /\ Moves(t)
        /\ \/ thread'[t] = At(t, "leave")
           \/ thread'[t].pc \in {"finish", "write"} /\ thread'[t] = [thread[t] EXCEPT !.pc = thread'[t].pc]
    BY <1>0, <1>5, <1>F
    DEF Work, FinishCheck, FinishWrite, Moves, ThreadStates, At, Working
  <2>2. /\ HoldsLock(t) /\ HoldsLock(t)' /\ HoldsSlot(t) /\ HoldsSlot(t)'
        /\ LockOf(t)' = LockOf(t)
    BY <1>0, <2>1 DEF HoldsLock, HoldsSlot, At, LockOf, Working, ThreadStates, Idle
  <2>3. TableOK' /\ DOMAIN table' = DOMAIN table
    BY <1>0, <1>5 DEF Work, FinishCheck, FinishWrite, TableOK, Ended
  <2>4. ThreadsOK'
    BY <1>0, <2>1, <2>3 DEF Moves, ThreadsOK, Working, At, ThreadStates, Idle
  <2>5. RuntimeOK'
    BY <1>0, <2>1, <2>3 DEF RuntimeOK, runtime
  <2> QED
    BY <1>0, <2>1, <2>2, <2>3, <2>4, <2>5, StaysLimited DEF runtime
<1>6. CASE FreeSlot(t)
  <2> DEFINE s == thread[t].service
  <2>1. Moves(t) /\ thread'[t] = At(t, "unlock")
    BY <1>0, <1>6, <1>F DEF FreeSlot, Moves, ThreadStates, At
  <2>2. /\ HoldsLock(t) /\ HoldsLock(t)' /\ HoldsSlot(t) /\ ~HoldsSlot(t)'
        /\ LockOf(t)' = LockOf(t)
    BY <1>6, <2>1 DEF FreeSlot, HoldsLock, HoldsSlot, At, LockOf
  <2>3. ThreadsOK'
    BY <1>0, <1>6, <2>1 DEF FreeSlot, Moves, ThreadsOK, Working, At
  <2>4. LocksAreHeld'
    BY <1>0, <1>6, <2>1, <2>2, LockKept DEF FreeSlot
  <2>5. s \in Services /\ slots' = [slots EXCEPT ![s] = @ + 1]
    BY <1>6, <1>F DEF FreeSlot
  <2>6. SlotsAreHeld' /\ slots' \in [Services -> 0..Slots]
    <3>1. thread[t].service = s
      OBVIOUS
    <3> HIDE DEF s
    <3> QED BY <1>0, <2>1, <2>2, <2>5, <3>1, SlotFreed
  <2> QED
    BY <1>0, <1>6, <2>3, <2>4, <2>6
    DEF FreeSlot, runtime, Limited, TypeOK, LimitsAreAccounted, TableOK, RuntimeOK
<1>7. CASE Unlock(t)
  <2>1. Moves(t) /\ thread'[t] = Idle
    BY <1>0, <1>7 DEF Unlock, Moves, ThreadStates
  <2>2. HoldsLock(t) /\ ~HoldsLock(t)' /\ ~HoldsSlot(t) /\ ~HoldsSlot(t)'
    BY <1>7, <2>1 DEF Unlock, HoldsLock, HoldsSlot, Idle
  <2>3. ThreadsOK'
    BY <1>0, <1>7, <2>1 DEF Unlock, Moves, ThreadsOK, Working, Idle
  <2>4. LocksAreHeld'
    BY <1>0, <1>7, <2>1, <2>2, LockFreed DEF Unlock, LockOf
  <2>5. SlotsAreHeld'
    BY <1>0, <1>7, <2>1, <2>2, SlotKept DEF Unlock
  <2> QED
    BY <1>0, <1>7, <2>3, <2>4, <2>5
    DEF Unlock, runtime, Limited, TypeOK, LimitsAreAccounted, TableOK, RuntimeOK
<1> QED BY <1>1, <1>2, <1>3, <1>4, <1>5, <1>6, <1>7 DEF Execute

\* The other steps of the specification keep types, locks and slots, too.
LEMMA NextLimited ==
  ASSUME Limited, [Next]_vars
  PROVE  Limited'
<1>0. /\ thread \in [Threads -> ThreadStates]
      /\ TableOK /\ RuntimeOK /\ ThreadsOK /\ locked \subseteq Services \X Profiles
      /\ slots \in [Services -> 0..Slots]
      /\ LocksAreHeld /\ SlotsAreHeld
      /\ crashes \in 0..MaxCrashes /\ faults \in 0..MaxFaults
  BY DEF Limited, TypeOK, ThreadsOK, LimitsAreAccounted
<1>1. CASE UNCHANGED vars
  BY <1>0, <1>1, AsideLimited DEF vars, runtime, limits, TableOK, RuntimeOK, ThreadsOK, Working
<1>2. ASSUME NEW t \in Threads, NEW p \in Profiles, Call(t, p)
      PROVE  Limited'
  <2> DEFINE s == IF t \in Workers THEN scheduling ELSE current
  <2>1. /\ thread[t] = Idle /\ s # 0
        /\ Become(t, [pc |-> "lock", service |-> s, profile |-> p])
        /\ UNCHANGED <<table, runtime, limits, crashes, faults>>
    BY <1>2 DEF Call
  <2>2. s \in Services
    BY <1>0, <2>1, BoundsAssumption DEF RuntimeOK, Services
  <2> HIDE DEF s
  <2>3. Moves(t) /\ thread'[t] = [pc |-> "lock", service |-> s, profile |-> p]
    BY <1>0, <2>1, <2>2 DEF Become, Moves, ThreadStates
  <2>4. ~HoldsLock(t) /\ ~HoldsLock(t)' /\ ~HoldsSlot(t) /\ ~HoldsSlot(t)'
    BY <2>1, <2>3 DEF HoldsLock, HoldsSlot, Idle
  <2>5. ThreadsOK'
    BY <1>0, <2>1, <2>3 DEF Moves, ThreadsOK, Working
  <2> QED
    BY <1>0, <2>1, <2>3, <2>4, <2>5, StaysLimited DEF runtime, limits, TableOK, RuntimeOK
<1>3. ASSUME NEW t \in Threads, Execute(t)
      PROVE  Limited'
  BY <1>3, ExecuteLimited
<1>4. ASSUME NEW t \in Threads, FinishFails(t)
      PROVE  Limited'
  <2>F. Working(t) /\ thread[t].service \in Services /\ thread[t].profile \in Profiles
    BY <1>0, <1>4, ThreadFields DEF FinishFails, Working
  <2>1. Moves(t) /\ thread'[t] = At(t, "leave")
    BY <1>0, <1>4, <2>F DEF FinishFails, Become, Moves, ThreadStates, At
  <2>2. /\ HoldsLock(t) /\ HoldsLock(t)' /\ HoldsSlot(t) /\ HoldsSlot(t)'
        /\ LockOf(t)' = LockOf(t)
    BY <2>F, <2>1 DEF Working, HoldsLock, HoldsSlot, At, LockOf
  <2>3. ThreadsOK'
    BY <1>0, <1>4, <2>1 DEF FinishFails, Moves, ThreadsOK, Working, At
  <2>4. faults' \in 0..MaxFaults
    BY <1>0, <1>4, BoundsAssumption DEF FinishFails
  <2> QED
    BY <1>0, <1>4, <2>1, <2>2, <2>3, <2>4, StaysLimited
    DEF FinishFails, runtime, limits, TableOK, RuntimeOK
<1>5. CASE ReloadBegins \/ Drained \/ ReloadRefused
  <2>1. ThreadsOK' /\ TableOK'
    BY <1>0, <1>5 DEF ReloadBegins, Drained, ReloadRefused, ThreadsOK, TableOK, Working
  <2>2. /\ built' = built /\ current' \in {current, 0} /\ scheduling' \in {scheduling, 0}
        /\ serving' \in {serving, TRUE} /\ DOMAIN table' = DOMAIN table
        /\ reload' \in {Idle, [pc |-> "drain"], [pc |-> "build"]}
        /\ built < MaxServices
    BY <1>0, <1>5 DEF ReloadBegins, Drained, ReloadRefused, RuntimeOK
  <2>3. built \in Nat /\ 0 \in 0..built
    BY <1>0, BoundsAssumption DEF RuntimeOK
  <2>4. RuntimeOK'
    <3>1. /\ built' \in 0..MaxServices /\ {current', scheduling'} \subseteq 0..built'
          /\ serving' \in BOOLEAN
      BY <1>0, <2>2, <2>3 DEF RuntimeOK
    <3>2. reload' \in {Idle} \union [pc : {"drain", "build", "recover"}]
      BY <2>2
    <3> QED BY <2>2, <3>1, <3>2 DEF RuntimeOK
  <2> QED
    BY <1>0, <1>5, <2>1, <2>4, AsideLimited DEF ReloadBegins, Drained, ReloadRefused
<1>6. CASE Publish
  <2>1. ThreadsOK' /\ TableOK'
    BY <1>0, <1>6 DEF Publish, ThreadsOK, TableOK, Working
  <2>2. RuntimeOK'
    BY <1>0, <1>6, BoundsAssumption DEF Publish, RuntimeOK, Idle
  <2> QED
    BY <1>0, <1>6, <2>1, <2>2, AsideLimited DEF Publish
<1>7. CASE Recover
  <2>1. ThreadsOK' /\ TableOK'
    BY <1>0, <1>7 DEF Recover, ThreadsOK, TableOK, Working
  <2>2. RuntimeOK'
    BY <1>0, <1>7 DEF Recover, RuntimeOK, Idle
  <2> QED
    BY <1>0, <1>7, <2>1, <2>2, AsideLimited DEF Recover
<1>8. CASE StartScheduler
  <2>1. TableOK' /\ DOMAIN table' = DOMAIN table
    BY <1>0, <1>8 DEF StartScheduler, Recovered, TableOK, Ended
  <2>2. ThreadsOK'
    BY <1>0, <1>8, <2>1 DEF StartScheduler, ThreadsOK, Working
  <2>3. RuntimeOK'
    BY <1>0, <1>8 DEF StartScheduler, RuntimeOK, Idle
  <2> QED
    BY <1>0, <1>8, <2>1, <2>2, <2>3, AsideLimited DEF StartScheduler
<1>9. CASE StartFails
  <2>1. table' = table \/ (reload.pc = "fail" /\ table' = Recovered)
    BY <1>9 DEF StartFails
  <2>2. TableOK' /\ DOMAIN table' = DOMAIN table
    BY <1>0, <2>1 DEF Recovered, TableOK, Ended
  <2>3. ThreadsOK'
    BY <1>0, <1>9, <2>2 DEF StartFails, ThreadsOK, Working
  <2>4. RuntimeOK' /\ faults' \in 0..MaxFaults
    BY <1>0, <1>9, <2>2, BoundsAssumption DEF StartFails, RuntimeOK, Idle
  <2> QED
    BY <1>0, <1>9, <2>2, <2>3, <2>4, AsideLimited DEF StartFails
<1>10. CASE Crash
  <2>1. ThreadsOK' /\ TableOK' /\ \A t \in Threads : ~HoldsLock(t)' /\ ~HoldsSlot(t)'
    BY <1>0, <1>10
    DEF Crash, ThreadsOK, TableOK, Working, ThreadStates, Idle, HoldsLock, HoldsSlot
  <2>2. RuntimeOK'
    <3>1. /\ current' = 0 /\ scheduling' = 0 /\ built' = 0 /\ serving' = FALSE
          /\ reload' = Idle
      BY <1>10 DEF Crash
    <3>2. built' \in 0..MaxServices /\ {current', scheduling'} \subseteq 0..built'
      BY <3>1, BoundsAssumption
    <3>3. /\ reload' \in {Idle} /\ serving' \in BOOLEAN
          /\ reload'.pc \notin {"drain", "build"}
      BY <3>1 DEF Idle
    <3> QED BY <3>2, <3>3 DEF RuntimeOK
  <2>C. crashes' \in 0..MaxCrashes
    BY <1>0, <1>10, BoundsAssumption DEF Crash
  <2>3. LocksAreHeld'
    BY <1>10, <2>1 DEF Crash, LocksAreHeld
  <2>4. \A s \in Services : SlotHolders(s)' = {} /\ slots'[s] = Slots
    BY <1>10, <2>1 DEF Crash, SlotHolders
  <2>5. SlotsAreHeld'
    BY <2>4, FS_EmptySet, SlotsAssumption DEF SlotsAreHeld
  <2> QED
    BY <1>0, <1>10, <2>1, <2>2, <2>C, <2>3, <2>5, SlotsAssumption
    DEF Crash, Limited, TypeOK, LimitsAreAccounted
<1>11. CASE Reload
  BY <1>5, <1>6, <1>7, <1>8, <1>11 DEF Reload
<1>12. CASE \E t \in Threads : (\E p \in Profiles : Call(t, p)) \/ Execute(t) \/ FinishFails(t)
  BY <1>2, <1>3, <1>4, <1>12
<1>13. CASE ReloadBegins
  BY <1>5, <1>13
<1> QED
  BY <1>1, <1>9, <1>10, <1>11, <1>12, <1>13 DEF Next

\* The initial state.
LEMMA InitLimited == Init => Limited
<1> SUFFICES ASSUME Init PROVE Limited
  OBVIOUS
<1>1. TableOK /\ ThreadsOK /\ \A t \in Threads : ~HoldsLock(t) /\ ~HoldsSlot(t)
  BY DEF Init, TableOK, ThreadsOK, Working, ThreadStates, Idle, HoldsLock, HoldsSlot
<1>2. RuntimeOK
  <2>1. /\ current = 0 /\ scheduling = 0 /\ built = 0 /\ serving = FALSE
        /\ reload = Idle
    BY DEF Init
  <2>2. built \in 0..MaxServices /\ {current, scheduling} \subseteq 0..built
    BY <2>1, BoundsAssumption
  <2>3. reload \in {Idle} /\ serving \in BOOLEAN /\ reload.pc \notin {"drain", "build"}
    BY <2>1 DEF Idle
  <2> QED BY <2>2, <2>3 DEF RuntimeOK
<1>3. LocksAreHeld
  BY <1>1 DEF Init, LocksAreHeld
<1>4. \A s \in Services : SlotHolders(s) = {} /\ slots[s] = Slots
  BY <1>1 DEF Init, SlotHolders
<1>5. SlotsAreHeld
  BY <1>4, FS_EmptySet, SlotsAssumption DEF SlotsAreHeld
<1> QED
  BY <1>1, <1>2, <1>3, <1>5, SlotsAssumption, BoundsAssumption
  DEF Init, Limited, TypeOK, LimitsAreAccounted

\* Type correctness.
THEOREM TypeCorrect == Spec => []TypeOK
<1>1. Limited => TypeOK
  BY DEF Limited
<1> QED BY <1>1, InitLimited, NextLimited, PTL DEF Spec

\* Whatever way a thread leaves execute, and whatever services a reload has
\* built meanwhile, locks and slots are the ones that threads hold.
THEOREM LimitsHold == Spec => []LimitsAreAccounted
<1>1. Limited => LimitsAreAccounted
  BY DEF Limited
<1> QED BY <1>1, InitLimited, NextLimited, PTL DEF Spec
------------------------------------------------------------------------------
(***************************************************************************)
(* Threads and the rows of their runs.                                     *)
(***************************************************************************)

\* A thread works for a run of its own, of the profile it was called for.
RunsAreOwn ==
  /\ \A t \in Threads : Working(t) => table[thread[t].run].profile = thread[t].profile
  /\ \A t, u \in Threads :
       Working(t) /\ Working(u) /\ thread[t].run = thread[u].run => t = u

\* uq_runs_running_profile
IndexHolds ==
  \A r, s \in DOMAIN table :
    Running(r) /\ Running(s) /\ table[r].profile = table[s].profile => r = s

\* While a reload builds the new services, the scheduler's threads do nothing.
Quiet ==
  /\ reload # Idle => scheduling = 0
  /\ reload.pc \in {"build", "recover", "fail"} => \A w \in Workers : thread[w] = Idle

RowsInv == RunsAreOwn /\ IndexHolds /\ Quiet /\ ScheduledRunsSurviveReload

\* A thread that stays with its run, gives it up, or has none.
LEMMA RowsKept ==
  ASSUME RowsInv, NEW t \in Threads, Moves(t), table' = table,
         Working(t)' => /\ Working(t)
                        /\ thread'[t].run = thread[t].run
                        /\ thread'[t].profile = thread[t].profile
  PROVE  RunsAreOwn' /\ IndexHolds' /\ ScheduledRunsSurviveReload'
<1>1. \A u \in Threads : Working(u)' => /\ Working(u)
                                        /\ thread'[u].run = thread[u].run
                                        /\ thread'[u].profile = thread[u].profile
  BY DEF Moves, Working
<1>2. RunsAreOwn'
  BY <1>1 DEF RowsInv, RunsAreOwn
<1>3. IndexHolds'
  BY DEF RowsInv, IndexHolds, Running
<1>4. ScheduledRunsSurviveReload'
  BY <1>1 DEF RowsInv, ScheduledRunsSurviveReload, Running, Threads
<1> QED BY <1>2, <1>3, <1>4

\* A thread that is inside execute, or begins a job of a running scheduler.
LEMMA QuietKept ==
  ASSUME Quiet, NEW t \in Threads, Moves(t), UNCHANGED runtime,
         thread[t] # Idle \/ (t \in Workers => scheduling # 0)
  PROVE  Quiet'
BY DEF Quiet, Moves, runtime, Idle, Threads

\* What a thread does outside create_run and finish_run's update leaves the
\* rows alone.
LEMMA AsideRows ==
  ASSUME Limited, RowsInv, NEW t \in Threads,
         \/ \E p \in Profiles : Call(t, p)
         \/ LockProfile(t) \/ TakeSlot(t) \/ RunRefused(t)
         \/ Work(t) \/ FinishCheck(t) \/ FinishFails(t) \/ FreeSlot(t) \/ Unlock(t)
  PROVE  RowsInv'
<1>0. thread \in [Threads -> ThreadStates] /\ Limited'
  BY NextLimited DEF Limited, TypeOK, ThreadsOK, Next, Execute
<1>1. thread' \in [Threads -> ThreadStates]
  BY <1>0 DEF Limited, TypeOK, ThreadsOK
<1>2. Moves(t)
  BY <1>0, <1>1
  DEF Moves, Call, LockProfile, TakeSlot, RunRefused, Work, FinishCheck, FinishFails,
      FreeSlot, Unlock, Goto, Become
<1>3. table' = table /\ UNCHANGED runtime
  BY DEF Call, LockProfile, TakeSlot, RunRefused, Work, FinishCheck, FinishFails,
         FreeSlot, Unlock
<1>4. Working(t)' => /\ Working(t)
                     /\ thread'[t].run = thread[t].run
                     /\ thread'[t].profile = thread[t].profile
  <2>1. CASE Work(t) \/ FinishCheck(t)
    BY <1>0, <2>1, ThreadFields
    DEF Work, FinishCheck, Goto, Become, Working, At, ThreadStates, Idle
  <2>2. CASE ~(Work(t) \/ FinishCheck(t))
    <3>1. ~Working(t)'
      BY <1>0, <2>2
      DEF Call, LockProfile, TakeSlot, RunRefused, FinishFails, FreeSlot, Unlock,
          Goto, Become, Working, At, ThreadStates, Idle
    <3> QED BY <3>1
  <2> QED BY <2>1, <2>2
<1>5. thread[t] # Idle \/ (t \in Workers => scheduling # 0)
  <2>1. CASE \E p \in Profiles : Call(t, p)
    BY <2>1 DEF Call
  <2>2. CASE ~\E p \in Profiles : Call(t, p)
    <3>1. thread[t].pc # "idle"
      BY <2>2
      DEF LockProfile, TakeSlot, RunRefused, Work, FinishCheck, FinishFails, FreeSlot,
          Unlock
    <3> QED BY <3>1 DEF Idle
  <2> QED BY <2>1, <2>2
<1>6. Quiet'
  BY <1>2, <1>3, <1>5, QuietKept DEF RowsInv
<1> QED BY <1>2, <1>3, <1>4, <1>6, RowsKept DEF RowsInv

\* create_run: the row is a new one, and the profile has no other that runs.
LEMMA CreateRows ==
  ASSUME Limited, RowsInv, NEW t \in Threads, CreateRun(t)
  PROVE  RowsInv'
<1> DEFINE p == thread[t].profile
<1>0. /\ thread \in [Threads -> ThreadStates] /\ thread' \in [Threads -> ThreadStates]
      /\ DOMAIN table \subseteq 1..MaxRuns
      /\ \A u \in Threads : Working(u) => thread[u].run \in DOMAIN table
  BY NextLimited DEF Limited, TypeOK, ThreadsOK, TableOK, Next, Execute
<1>1. PICK r \in 1..MaxRuns :
        /\ {u \in 1..MaxRuns : u < r} = DOMAIN table
        /\ table' = [u \in DOMAIN table \union {r} |->
                       IF u = r THEN [profile |-> p, status |-> "running"]
                       ELSE table[u]]
        /\ Become(t, [pc |-> "work", service |-> thread[t].service,
                      profile |-> p, run |-> r])
  BY DEF CreateRun
<1>2. /\ r \notin DOMAIN table /\ DOMAIN table' = DOMAIN table \union {r}
      /\ table'[r] = [profile |-> p, status |-> "running"]
      /\ \A u \in DOMAIN table : table'[u] = table[u]
  BY <1>1
<1>3. /\ thread'[t] = [pc |-> "work", service |-> thread[t].service,
                       profile |-> p, run |-> r]
      /\ \A u \in Threads \ {t} : thread'[u] = thread[u]
      /\ thread[t].pc = "create" /\ ~Active(p) /\ UNCHANGED runtime
  BY <1>0, <1>1 DEF CreateRun, Become
<1> HIDE DEF p
<1>4. RunsAreOwn'
  <2>1. \A u \in Threads \ {t} : Working(u)' => Working(u) /\ thread'[u].run # r
    BY <1>0, <1>2, <1>3 DEF Working
  <2>2. \A u \in Threads \ {t} :
          Working(u)' => table'[thread'[u].run].profile = thread'[u].profile
    BY <1>0, <1>2, <1>3, <2>1 DEF RowsInv, RunsAreOwn
  <2>3. table'[thread'[t].run].profile = thread'[t].profile
    BY <1>2, <1>3
  <2>4. \A u, v \in Threads :
          Working(u)' /\ Working(v)' /\ thread'[u].run = thread'[v].run => u = v
    BY <1>3, <2>1 DEF RowsInv, RunsAreOwn
  <2> QED BY <2>2, <2>3, <2>4 DEF RunsAreOwn
<1>5. IndexHolds'
  <2>1. \A s \in DOMAIN table : Running(s)' <=> Running(s)
    BY <1>2 DEF Running
  <2>2. \A s \in DOMAIN table : Running(s) => table[s].profile # p
    BY <1>3 DEF Active
  <2>3. table'[r].profile = p /\ \A s \in DOMAIN table : table'[s].profile = table[s].profile
    BY <1>2
  <2> QED BY <1>2, <2>1, <2>2, <2>3 DEF RowsInv, IndexHolds
<1>6. ScheduledRunsSurviveReload'
  BY <1>0, <1>2, <1>3 DEF RowsInv, ScheduledRunsSurviveReload, Running, Working, Threads
<1>7. Quiet'
  BY <1>0, <1>3, QuietKept DEF RowsInv, Moves, Idle
<1> QED BY <1>4, <1>5, <1>6, <1>7 DEF RowsInv

\* finish_run's update: the row is the thread's own.
LEMMA FinishRows ==
  ASSUME Limited, RowsInv, NEW t \in Threads, FinishWrite(t)
  PROVE  RowsInv'
<1>0. /\ thread \in [Threads -> ThreadStates] /\ thread' \in [Threads -> ThreadStates]
      /\ TableOK
      /\ \A u \in Threads : Working(u) => thread[u].run \in DOMAIN table
  BY NextLimited DEF Limited, TypeOK, ThreadsOK, Next, Execute
<1>1. /\ Working(t) /\ ~Working(t)' /\ UNCHANGED runtime /\ thread[t] # Idle
      /\ \A u \in Threads \ {t} : thread'[u] = thread[u]
  BY <1>0 DEF FinishWrite, Become, At, Working, Idle
<1>2. /\ DOMAIN table' = DOMAIN table
      /\ \A r \in DOMAIN table : table'[r].profile = table[r].profile
      /\ \A r \in DOMAIN table \ {thread[t].run} : table'[r] = table[r]
      /\ table'[thread[t].run].status = "finished"
  BY <1>0, <1>1 DEF FinishWrite, TableOK
<1>3. RunsAreOwn'
  BY <1>0, <1>1, <1>2 DEF RowsInv, RunsAreOwn, Working
<1>4. \A r \in DOMAIN table : Running(r)' => Running(r)
  BY <1>2 DEF Running
<1>5. IndexHolds'
  BY <1>2, <1>4 DEF RowsInv, IndexHolds
<1>6. ScheduledRunsSurviveReload'
  <2> SUFFICES ASSUME NEW w \in Workers, Working(w)'
               PROVE  Running(thread[w].run)'
    BY <1>1 DEF ScheduledRunsSurviveReload, Threads
  <2>1. w \in Threads \ {t} /\ Working(w) /\ thread'[w] = thread[w]
    BY <1>1 DEF Working, Threads
  <2>2. thread[w].run # thread[t].run /\ Running(thread[w].run)
    BY <1>1, <2>1 DEF RowsInv, RunsAreOwn, ScheduledRunsSurviveReload
  <2> QED BY <1>2, <2>1, <2>2 DEF Running
<1>7. Quiet'
  BY <1>0, <1>1, QuietKept DEF RowsInv, Moves
<1> QED BY <1>3, <1>5, <1>6, <1>7 DEF RowsInv

\* fail_interrupted_runs ends the runs of the threads of the API alone.
LEMMA RecoveryRows ==
  ASSUME Limited, RowsInv, StartScheduler \/ (StartFails /\ table' = Recovered)
  PROVE  RowsInv'
<1>0. TableOK /\ \A u \in Threads : Working(u) => thread[u].run \in DOMAIN table
  BY DEF Limited, TypeOK, ThreadsOK
<1>T. table' = Recovered
  BY DEF StartScheduler
<1>1. /\ DOMAIN table' = DOMAIN table
      /\ \A r \in DOMAIN table : table'[r].profile = table[r].profile
      /\ \A r \in DOMAIN table : Running(r)' => Running(r)
  BY <1>0, <1>T DEF Recovered, TableOK, Running
<1>2. thread' = thread /\ reload' = Idle /\ \A w \in Workers : thread[w] = Idle
  BY DEF StartScheduler, StartFails, RowsInv, Quiet
<1>3. RunsAreOwn'
  BY <1>0, <1>1, <1>2 DEF RowsInv, RunsAreOwn, Working
<1>4. IndexHolds'
  BY <1>1 DEF RowsInv, IndexHolds
<1>5. ScheduledRunsSurviveReload'
  BY <1>2 DEF ScheduledRunsSurviveReload, Working, Idle
<1>6. Quiet'
  BY <1>2 DEF Quiet, Idle
<1> QED BY <1>3, <1>4, <1>5, <1>6 DEF RowsInv

\* Each step of the specification keeps the rows.
LEMMA NextRows ==
  ASSUME Limited, RowsInv, [Next]_vars
  PROVE  RowsInv'
<1>1. CASE UNCHANGED vars
  BY <1>1
  DEF vars, runtime, Quiet, RowsInv, RunsAreOwn, IndexHolds,
      ScheduledRunsSurviveReload, Working, Running
<1>2. ASSUME NEW t \in Threads, (\E p \in Profiles : Call(t, p)) \/ Execute(t) \/ FinishFails(t)
      PROVE  RowsInv'
  BY <1>2, AsideRows, CreateRows, FinishRows DEF Execute
<1>3. ASSUME table' = table,
             ReloadBegins \/ Drained \/ ReloadRefused \/ Publish \/ Recover \/ StartFails
      PROVE  RowsInv'
  <2>1. table' = table /\ thread' = thread
    BY <1>3 DEF ReloadBegins, Drained, ReloadRefused, Publish, Recover, StartFails
  <2>2. Quiet'
    BY <1>3
    DEF ReloadBegins, Drained, ReloadRefused, Publish, Recover, StartFails, Quiet, Idle,
        RowsInv
  <2> QED
    BY <2>1, <2>2
    DEF RowsInv, RunsAreOwn, IndexHolds, ScheduledRunsSurviveReload, Working, Running
<1>4. ASSUME StartScheduler \/ (StartFails /\ table' = Recovered)
      PROVE  RowsInv'
  BY <1>4, RecoveryRows
<1>5. CASE Crash
  <2>1. table' = table /\ reload' = Idle /\ \A t \in Threads : thread'[t].pc = "idle"
    BY <1>5 DEF Crash, Idle
  <2>2. Quiet'
    BY <2>1 DEF Quiet, Idle
  <2> QED
    BY <2>1, <2>2
    DEF Threads, RowsInv, RunsAreOwn, IndexHolds, ScheduledRunsSurviveReload, Working,
        Running
<1>6. CASE Reload
  BY <1>3, <1>4, <1>6 DEF Reload, Drained, ReloadRefused, Publish, Recover
<1>7. CASE \E t \in Threads : (\E p \in Profiles : Call(t, p)) \/ Execute(t) \/ FinishFails(t)
  BY <1>2, <1>7
<1>8. CASE ReloadBegins \/ StartFails
  <2>1. CASE ReloadBegins
    BY <1>3, <2>1 DEF ReloadBegins
  <2>2. CASE StartFails
    BY <1>3, <1>4, <2>2 DEF StartFails
  <2> QED BY <1>8, <2>1, <2>2
<1> QED BY <1>1, <1>5, <1>6, <1>7, <1>8 DEF Next

\* The initial state.
LEMMA InitRows == Init => RowsInv
BY DEF Init, RowsInv, RunsAreOwn, IndexHolds, Quiet, ScheduledRunsSurviveReload,
       Working, Running, Idle, Threads

\* A reload waits for the jobs of the scheduler: it does not fail their runs.
THEOREM ScheduledRunsAreSafe == Spec => []ScheduledRunsSurviveReload
<1>1. RowsInv => ScheduledRunsSurviveReload
  BY DEF RowsInv
<1> QED BY <1>1, InitLimited, NextLimited, InitRows, NextRows, PTL DEF Spec

\* Of two threads that work for one profile, one at most has a row that runs.
THEOREM OverlapsAreBounded == Spec => []OverlapsAreCutShort
<1>1. RowsInv => OverlapsAreCutShort
  BY DEF RowsInv, RunsAreOwn, IndexHolds, OverlapsAreCutShort, Running
<1> QED BY <1>1, InitLimited, NextLimited, InitRows, NextRows, PTL DEF Spec
------------------------------------------------------------------------------
(***************************************************************************)
(* Rows that say running.                                                  *)
(***************************************************************************)

\* A thread works for the row.
Alive(r) == \E t \in Threads : Working(t) /\ thread[t].run = r

\* Without failed database calls, each running row is alive when the scheduler
\* runs, and has been read by the recovery when it is about to start.
LiveInv ==
  faults = 0 =>
    \A r \in DOMAIN table :
      Running(r) => /\ scheduling # 0 => Alive(r)
                    /\ reload.pc = "fail" => r \in reload.runs \/ Alive(r)

\* The thread of a running row stays with it, unless a call to the database fails.
LEMMA AliveStays ==
  ASSUME Limited, RowsInv, NEW t \in Threads, Execute(t) \/ \E p \in Profiles : Call(t, p),
         NEW r \in DOMAIN table, Running(r)', Alive(r)
  PROVE  Alive(r)'
<1>0. /\ thread \in [Threads -> ThreadStates] /\ TableOK
      /\ \A v \in Threads : Working(v) => thread[v].run \in DOMAIN table
  BY DEF Limited, TypeOK, ThreadsOK
<1>1. PICK u \in Threads : Working(u) /\ thread[u].run = r
  BY DEF Alive
<1>2. \A v \in Threads \ {t} : thread'[v] = thread[v]
  BY <1>0
  DEF Execute, Call, LockProfile, TakeSlot, RunRefused, CreateRun, Work, FinishCheck,
      FinishWrite, FreeSlot, Unlock, Goto, Become
<1>3. CASE u # t
  BY <1>1, <1>2, <1>3 DEF Alive, Working
<1>4. CASE u = t
  <2>1. Work(t) \/ FinishCheck(t) \/ FinishWrite(t)
    <3>1. thread[t].pc \in {"work", "finish", "write"} /\ thread[t] # Idle
      BY <1>1, <1>4 DEF Working, Idle
    <3>2. ~\E p \in Profiles : Call(t, p)
      BY <3>1 DEF Call
    <3>3. ~(LockProfile(t) \/ TakeSlot(t) \/ RunRefused(t) \/ CreateRun(t))
      BY <3>1 DEF LockProfile, TakeSlot, RunRefused, CreateRun
    <3>4. ~(FreeSlot(t) \/ Unlock(t))
      BY <3>1 DEF FreeSlot, Unlock
    <3> QED BY <3>2, <3>3, <3>4 DEF Execute
  <2>2. ~FinishWrite(t)
    <3> SUFFICES ASSUME FinishWrite(t) PROVE FALSE
      OBVIOUS
    <3>1. table' = [table EXCEPT ![r].status = "finished"]
      BY <1>1, <1>4 DEF FinishWrite
    <3>2. table'[r].status = "finished"
      BY <1>0, <3>1 DEF TableOK
    <3> QED BY <3>2 DEF Running
  <2>3. thread'[t].pc \in {"finish", "write"} /\ thread'[t].run = r
    <3>1. thread[t] \in [pc : {"work", "finish", "write"}, service : Services,
                         profile : Profiles, run : 1..MaxRuns]
      BY <1>0, <1>1, <1>4 DEF ThreadStates, Working, Idle
    <3>2. FinishCheck(t) => Running(r)
      BY DEF Running, FinishCheck
    <3> QED BY <1>0, <1>1, <1>4, <2>1, <2>2, <3>1, <3>2 DEF Work, FinishCheck, Goto
  <2> QED BY <2>3, <1>4 DEF Alive, Working
<1> QED BY <1>3, <1>4

\* Each step of the specification keeps running rows alive.
LEMMA NextLive ==
  ASSUME Limited, RowsInv, LiveInv, [Next]_vars
  PROVE  LiveInv'
<1> SUFFICES ASSUME faults' = 0, NEW r \in DOMAIN table', Running(r)'
             PROVE  /\ scheduling' # 0 => Alive(r)'
                    /\ reload'.pc = "fail" => r \in reload'.runs \/ Alive(r)'
  BY DEF LiveInv
<1>0. TableOK /\ faults \in Nat /\ thread \in [Threads -> ThreadStates]
  BY DEF Limited, TypeOK, ThreadsOK
<1>1. CASE UNCHANGED vars
  BY <1>1 DEF vars, runtime, LiveInv, Running, Alive, Working
<1>2. ASSUME NEW t \in Threads, Execute(t) \/ \E p \in Profiles : Call(t, p)
      PROVE  /\ scheduling' # 0 => Alive(r)'
             /\ reload'.pc = "fail" => r \in reload'.runs \/ Alive(r)'
  <2>1. UNCHANGED <<runtime, faults>>
    BY <1>2
    DEF Execute, Call, LockProfile, TakeSlot, RunRefused, CreateRun, Work, FinishCheck,
        FinishWrite, FreeSlot, Unlock
  <2>2. CASE r \in DOMAIN table
    <3>1. Running(r)
      <4>1. CASE CreateRun(t)
        BY <2>2, <4>1 DEF CreateRun, Running
      <4>2. CASE FinishWrite(t)
        BY <1>0, <2>2, <4>2 DEF FinishWrite, Running, TableOK
      <4>3. CASE UNCHANGED table
        BY <4>3 DEF Running
      <4> QED
        BY <1>2, <4>1, <4>2, <4>3
        DEF Execute, Call, LockProfile, TakeSlot, RunRefused, Work, FinishCheck, FreeSlot,
            Unlock
    <3>2. /\ scheduling # 0 => Alive(r)
          /\ reload.pc = "fail" => r \in reload.runs \/ Alive(r)
      BY <2>1, <2>2, <3>1 DEF LiveInv
    <3> QED BY <1>2, <2>1, <2>2, <3>2, AliveStays DEF runtime
  <2>3. CASE r \notin DOMAIN table
    <3>1. CreateRun(t)
      BY <1>0, <1>2, <2>3
      DEF Execute, Call, LockProfile, TakeSlot, RunRefused, Work, FinishCheck,
          FinishWrite, FreeSlot, Unlock, TableOK
    <3>2. thread'[t].pc = "work" /\ thread'[t].run = r
      BY <1>0, <2>3, <3>1 DEF CreateRun, Become
    <3> QED BY <3>2 DEF Alive, Working
  <2> QED BY <2>2, <2>3
<1>3. CASE \E t \in Threads : FinishFails(t)
  BY <1>0, <1>3 DEF FinishFails
<1>4. CASE StartFails
  BY <1>0, <1>4 DEF StartFails
<1>5. CASE ReloadBegins \/ Drained \/ ReloadRefused \/ Publish
  <2>1. /\ table' = table /\ thread' = thread /\ faults' = faults
        /\ scheduling' \in {0, scheduling} /\ reload'.pc # "fail"
    BY <1>5 DEF ReloadBegins, Drained, ReloadRefused, Publish, Idle
  <2> QED BY <2>1 DEF LiveInv, Running, Alive, Working
<1>6. CASE Recover
  <2>1. /\ table' = table /\ thread' = thread /\ faults' = faults
        /\ scheduling' = scheduling /\ reload'.runs = {u \in DOMAIN table : Running(u)}
    BY <1>6 DEF Recover
  <2> QED BY <2>1 DEF LiveInv, Running, Alive, Working
<1>7. CASE StartScheduler
  <2>1. /\ reload.pc = "fail" /\ table' = Recovered /\ reload'.pc = "idle"
        /\ thread' = thread /\ faults' = faults
    BY <1>7 DEF StartScheduler, Idle
  <2>2. DOMAIN table' = DOMAIN table /\ r \notin reload.runs /\ Running(r)
    BY <1>0, <2>1 DEF Recovered, Running, TableOK
  <2>3. Alive(r)
    BY <2>1, <2>2 DEF LiveInv
  <2> QED BY <2>1, <2>3 DEF Alive, Working
<1>8. CASE Crash
  BY <1>8 DEF Crash, Idle
<1> QED
  BY <1>1, <1>2, <1>3, <1>4, <1>5, <1>6, <1>7, <1>8 DEF Next, Reload

\* Once the scheduler runs, a row that says running belongs to a thread, through
\* reloads and crashes, if no call to the database fails.
THEOREM RunningRowsAreLive == Spec => []RunningRunsAreLive
<1>1. LiveInv => RunningRunsAreLive
  BY DEF LiveInv, RunningRunsAreLive, Alive
<1>2. Init => LiveInv
  BY DEF Init, LiveInv
<1> QED
  BY <1>1, <1>2, InitLimited, NextLimited, InitRows, NextRows, NextLive, PTL DEF Spec
------------------------------------------------------------------------------
(***************************************************************************)
(* Requests, jobs and the services they use.                               *)
(***************************************************************************)

\* What the scheduler runs with is what requests use, and both are what was
\* built last, at each station of a reload.
ServicesInv ==
  /\ scheduling # 0 => scheduling = built /\ current = built
  /\ reload.pc \in {"drain", "build"} => current = 0
  /\ reload.pc \in {"recover", "fail"} => current = built
  /\ JobsUseCurrentServices

\* A thread of the scheduler keeps its service, or begins in the scheduler's.
LEMMA WorkerStays ==
  ASSUME Limited, NEW t \in Threads,
         (\E p \in Profiles : Call(t, p)) \/ Execute(t) \/ FinishFails(t),
         NEW w \in Workers, thread'[w] # Idle
  PROVE  \/ thread[w] # Idle /\ thread'[w].service = thread[w].service
         \/ scheduling # 0 /\ thread'[w].service = scheduling
<1>0. thread \in [Threads -> ThreadStates] /\ w \in Threads
  BY DEF Limited, TypeOK, ThreadsOK, Threads
<1>1. CASE w # t
  BY <1>0, <1>1
  DEF Call, FinishFails, Execute, LockProfile, TakeSlot, RunRefused, CreateRun, Work,
      FinishCheck, FinishWrite, FreeSlot, Unlock, Goto, Become
<1>2. CASE w = t /\ \E p \in Profiles : Call(t, p)
  BY <1>0, <1>2 DEF Call, Become
<1>3. CASE w = t /\ (Execute(t) \/ FinishFails(t))
  <2>1. thread[t].pc # "idle" /\ thread[t] # Idle
    BY <1>3
    DEF FinishFails, Execute, LockProfile, TakeSlot, RunRefused, CreateRun, Work,
        FinishCheck, FinishWrite, FreeSlot, Unlock, Idle
  <2>2. CASE LockProfile(t) \/ TakeSlot(t)
    BY <1>0, <1>3, <2>1, <2>2 DEF LockProfile, TakeSlot, Goto, Become, ThreadStates
  <2>3. CASE RunRefused(t) \/ Work(t) \/ FreeSlot(t)
    BY <1>0, <1>3, <2>1, <2>3 DEF RunRefused, Work, FreeSlot, Goto, ThreadStates
  <2>4. CASE CreateRun(t)
    BY <1>0, <1>3, <2>1, <2>4 DEF CreateRun, Become
  <2>5. CASE FinishCheck(t) \/ FinishWrite(t) \/ FinishFails(t)
    BY <1>0, <1>3, <2>1, <2>5
    DEF FinishCheck, FinishWrite, FinishFails, Goto, Become, At, ThreadStates
  <2>6. CASE Unlock(t)
    BY <1>0, <1>3, <2>6 DEF Unlock, Become
  <2> QED BY <1>3, <2>2, <2>3, <2>4, <2>5, <2>6 DEF Execute
<1> QED BY <1>1, <1>2, <1>3

\* Each step of the specification keeps requests and jobs with their services.
LEMMA NextServices ==
  ASSUME Limited, RowsInv, ServicesInv, [Next]_vars
  PROVE  ServicesInv'
<1>0. built \in Nat /\ Quiet /\ faults \in Nat
  BY DEF Limited, TypeOK, RuntimeOK, RowsInv
<1>1. CASE UNCHANGED vars
  BY <1>1 DEF vars, runtime, ServicesInv, JobsUseCurrentServices
<1>2. CASE \E t \in Threads : (\E p \in Profiles : Call(t, p)) \/ Execute(t) \/ FinishFails(t)
  <2>1. PICK t \in Threads : (\E p \in Profiles : Call(t, p)) \/ Execute(t) \/ FinishFails(t)
    BY <1>2
  <2>2. UNCHANGED runtime /\ (faults' = 0 => faults = 0)
    <3>1. CASE FinishFails(t)
      BY <1>0, <3>1 DEF FinishFails
    <3>2. CASE (\E p \in Profiles : Call(t, p)) \/ Execute(t)
      BY <3>2
      DEF Call, Execute, LockProfile, TakeSlot, RunRefused, CreateRun, Work, FinishCheck,
          FinishWrite, FreeSlot, Unlock
    <3> QED BY <2>1, <3>1, <3>2
  <2>3. \A w \in Workers : thread'[w] # Idle => thread'[w].service = built'
    <3> SUFFICES ASSUME NEW w \in Workers, thread'[w] # Idle
                 PROVE  thread'[w].service = built
      BY <2>2 DEF runtime
    <3> QED BY <2>1, WorkerStays DEF ServicesInv, JobsUseCurrentServices
  <2> QED BY <2>2, <2>3 DEF ServicesInv, JobsUseCurrentServices, runtime
<1>3. CASE ReloadBegins \/ Drained \/ Recover
  BY <1>3
  DEF ReloadBegins, Drained, Recover, ServicesInv, JobsUseCurrentServices, Idle
<1>4. CASE ReloadRefused
  BY <1>0, <1>4 DEF ReloadRefused, ServicesInv, JobsUseCurrentServices, Idle, Quiet
<1>5. CASE Publish
  BY <1>0, <1>5 DEF Publish, ServicesInv, JobsUseCurrentServices, Idle, Quiet
<1>6. CASE StartScheduler
  BY <1>6 DEF StartScheduler, ServicesInv, JobsUseCurrentServices, Idle
<1>7. CASE StartFails
  BY <1>0, <1>7 DEF StartFails, ServicesInv, JobsUseCurrentServices, Idle, Quiet
<1>8. CASE Crash
  BY <1>8 DEF Crash, ServicesInv, JobsUseCurrentServices, Idle, Threads
<1> QED
  BY <1>1, <1>2, <1>3, <1>4, <1>5, <1>6, <1>7, <1>8 DEF Next, Reload

\* A reload leaves requests and jobs with the same services unless a call fails,
\* and no job is ever executed by services that a reload has replaced.
THEOREM JobsAreCurrent == Spec => []JobsUseCurrentServices
<1>1. ServicesInv => JobsUseCurrentServices
  BY DEF ServicesInv
<1>2. Init => ServicesInv
  BY DEF Init, ServicesInv, JobsUseCurrentServices, Idle, Threads
<1> QED
  BY <1>1, <1>2, InitLimited, NextLimited, InitRows, NextRows, NextServices, PTL DEF Spec
==============================================================================
