-------------------------------- MODULE TreeTable --------------------------------
(***************************************************************************)
(* The calls of ensure_destination and snapshot and what they may have     *)
(* seen in the tree: the state of RemoteTree that its properties are about.*)
(***************************************************************************)
EXTENDS Integers, Sequences, FiniteSets, SequencesExt

CONSTANTS
  Destination,  \* of the tasks
  Root,         \* config.root_path, a prefix of Destination
  MaxEntries    \* max_tree_entries

VARIABLES
  call,     \* where the call of each thread stands
  changes,  \* changes of the tree by others, counted
  faults,   \* calls without an answer, counted
  seen      \* history: what has been in the tree since a thread began

Dir == -1

\* The folders to make, from the root on, each a path.
Components ==
  [i \in 1..(Len(Destination) - Len(Root)) |-> SubSeq(Destination, 1, Len(Root) + i)]

Files(facts) == {f \in facts : f[2] # Dir /\ IsStrictPrefix(Destination, f[1])}
Below(facts) == {f[1] : f \in {g \in facts : IsStrictPrefix(Destination, g[1])}}

\* snapshot: a file that stays where it is, as it is, while the directories are
\* listed is in the snapshot, and the snapshot holds nothing that was not there,
\* whatever else appears, grows, moves and goes meanwhile.  A destination is
\* refused as too large only if more entries have been below it.
SnapshotsAreSound ==
  \A t \in DOMAIN call :
    /\ call[t].pc = "taken" =>
         /\ Files(seen[t].always) \subseteq call[t].files
         /\ call[t].files \subseteq Files(seen[t].ever)
    /\ call[t].pc = "full" => Cardinality(Below(seen[t].ever)) > MaxEntries

\* What has been in the folder of a path.
Beside(facts, path) == {f[1] : f \in {g \in facts : Front(g[1]) = Front(path)}}

\* ensure_destination: when it returns, every folder on the way has been there
\* while it ran; and it fails for a cause outside, or because a folder on the way
\* has held more entries than the limit.  Two threads that make the same folders
\* at once do not fail for each other, but for the entry that the folder of one
\* adds to a parent that is at the limit.
EnsureIsHonest ==
  \A t \in DOMAIN call :
    /\ call[t].pc = "ensured" =>
         \A i \in DOMAIN Components : <<Components[i], Dir>> \in seen[t].ever
    /\ call[t].pc = "unensured" =>
         \/ changes > 0 \/ faults > 0
         \/ \E i \in DOMAIN Components :
              \/ \E f \in seen[t].ever : f[1] = Components[i] /\ f[2] # Dir
              \/ Cardinality(Beside(seen[t].ever, Components[i])) > MaxEntries
==============================================================================
