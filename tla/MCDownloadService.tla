--------------------------- MODULE MCDownloadService ---------------------------
(***************************************************************************)
(* Small instances of DownloadService for TLC.                             *)
(***************************************************************************)
EXTENDS DownloadService, TLC

CONSTANTS t1, t2, t3, t4, x, y, k, l, p, q, j1, j2, f, e

\* One file, in the top-level folder e of its destination.
MCOwner == (f :> e)

\* Bound: tasks of two candidates are claimed, and refused, before the poller
\* comes round.
Claimed ==
  {rows[t].claim.candidate : t \in DOMAIN rows}
  \union {job[j].claim.candidate : j \in {i \in Jobs : job[i].pc = "claim"}}
TwoBeforePolls ==
  Cardinality(Claimed) > 1 => queue = {} /\ \A d \in Destinations : offline[d] = "none"

\* Task ids, contents, candidates, profiles and threads are interchangeable.
Symmetry ==
  Permutations(Tasks) \union Permutations({x, y})
  \union Permutations({k, l}) \union Permutations({p, q})
  \union Permutations({j1, j2})
==============================================================================
