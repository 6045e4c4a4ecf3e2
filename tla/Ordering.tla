-------------------------------- MODULE Ordering --------------------------------
(***************************************************************************)
(* Python's sorted(S, key=...): a key is a tuple of numbers, and no two    *)
(* elements have the same one, so no element's place depends on where it   *)
(* was before.                                                             *)
(***************************************************************************)
EXTENDS Integers, Sequences, SequencesExt

\* Tuples compare by the first place in which they differ.
Less(k, l) ==
  \E i \in DOMAIN k : k[i] < l[i] /\ \A j \in 1..(i - 1) : k[j] = l[j]

IsAscending(s, key) ==
  \A i, j \in DOMAIN s : i < j => Less(key[s[i]], key[s[j]])

Sorted(S, key) == CHOOSE s \in SetToSeqs(S) : IsAscending(s, key)

\* s[:n]
FirstOf(s, n) == SubSeq(s, 1, IF Len(s) < n THEN Len(s) ELSE n)
==============================================================================
