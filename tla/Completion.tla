------------------------------ MODULE Completion ------------------------------
(***************************************************************************)
(* Completion by file stability (downloads/completion.py): a task is done  *)
(* when the files that changed since the snapshot taken before submission  *)
(* look the same in Required observations in a row.                        *)
(*                                                                         *)
(* A file stands for its full path; Owner gives the top-level entry of the *)
(* destination it lies under (_top_level_owner).  A snapshot maps the      *)
(* files it lists to their sizes.                                          *)
(***************************************************************************)
EXTENDS Integers

CONSTANTS Files, Owner, Sizes, Required

ASSUME OwnerAssumption == Files = DOMAIN Owner
ASSUME SizesAssumption == Sizes \subseteq Nat
\* CompletionState.__post_init__ refuses fewer than two observations.
ASSUME RequiredAssumption == Required \in Nat /\ Required >= 2

Owners == {Owner[f] : f \in Files}
Snapshots == UNION {[S -> Sizes] : S \in SUBSET Files}
NoFiles == [f \in {} |-> 0]

CompletionState ==
  [baseline : Snapshots, owned : SUBSET Owners,
   fingerprint : Snapshots, stable : Nat]

NewCompletion(baseline) ==
  [baseline |-> baseline, owned |-> {}, fingerprint |-> NoFiles, stable |-> 0]

\* The listed files that are new or have another size than in the baseline,
\* under the owned entries once there are any.
Changed(state, snapshot) ==
  {f \in DOMAIN snapshot :
     /\ f \notin DOMAIN state.baseline \/ snapshot[f] # state.baseline[f]
     /\ state.owned = {} \/ Owner[f] \in state.owned}

\* changed_file_count > 0 and changed_total_size > 0
HasProgress(state, snapshot) ==
  \E f \in Changed(state, snapshot) : snapshot[f] > 0

\* Mutant: the changed paths themselves, not the entries they lie under.
OwnedPaths(state, snapshot) ==
  IF state.owned # {} THEN state.owned ELSE Changed(state, snapshot)

\* The first change fixes the owned entries for good.
NextOwned(state, snapshot) ==
  IF state.owned # {} THEN state.owned
  ELSE {Owner[f] : f \in Changed(state, snapshot)}

Fingerprint(state, snapshot) ==
  [f \in Changed(state, snapshot) |-> snapshot[f]]

\* observe_completion: the state it returns.
Observe(state, snapshot) ==
  LET print == Fingerprint(state, snapshot)
      owned == NextOwned(state, snapshot)
  IN  IF HasProgress(state, snapshot)
      THEN [state EXCEPT !.owned = owned, !.fingerprint = print,
              !.stable = IF print = state.fingerprint THEN @ + 1 ELSE 1]
      ELSE [state EXCEPT !.owned = owned, !.fingerprint = NoFiles, !.stable = 0]

\* Mutant: the observation at hand is counted twice.
CompletedEarly(state, snapshot) ==
  /\ HasProgress(state, snapshot)
  /\ Observe(state, snapshot).stable + 1 >= Required

\* observe_completion: the completed flag.
Completed(state, snapshot) ==
  /\ HasProgress(state, snapshot)
  /\ Observe(state, snapshot).stable >= Required
==============================================================================
