----------------------------- MODULE AtomicUpgrade -----------------------------
(***************************************************************************)
(* What migrate_database promises the application (db/migration.py,        *)
(* docs/architecture.md, section 6): a database is of the revision it was  *)
(* or of the latest one, changes from the one to the other in one step     *)
(* that keeps all it holds, and is written to after that step only; a      *)
(* database of a future version is left alone.  Migration implements it.   *)
(***************************************************************************)
EXTENDS Integers

VARIABLES
  revision,
  data        \* what it holds, counted in writes

Upgrade ==
  /\ revision \in {"none", "old"}
  /\ revision' = "new"
  /\ UNCHANGED data

Write ==
  /\ revision = "new"
  /\ data' = data + 1
  /\ UNCHANGED revision

Init == revision \in {"none", "old", "future"} /\ data \in Nat

Next == Upgrade \/ Write

Spec == Init /\ [][Next]_<<revision, data>>
==============================================================================
