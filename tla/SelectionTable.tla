----------------------------- MODULE SelectionTable -----------------------------
(***************************************************************************)
(* What the sources of a run have answered and what the run makes of it,   *)
(* and what the one must have to do with the other: the state of Selection *)
(* that its properties are about.                                          *)
(***************************************************************************)
EXTENDS Integers, Sequences, FiniteSetsExt, Functions

CONSTANT TopN   \* profile.top_n

VARIABLES
  answers,  \* what the sources have answered, as sets: rankings and evidence
  rules,
  result    \* the contents to process, and the evaluations, when they are made

Unknown == -1

About(btih) == {e \in answers.evidence : e.btih = btih}
KnownSeeders(btih) == {e.seeders : e \in About(btih)} \ {Unknown}
KnownSizes(btih) == {e.size : e \in About(btih)} \ {Unknown}
OneSize(btih) == Cardinality(KnownSizes(btih)) = 1
SizeOf(btih) == CHOOSE s \in KnownSizes(btih) : TRUE
Says(btih, truth) == \E e \in About(btih) : e.truth = truth

\* The rules, said of what all sources know: an accepted candidate is proven to
\* meet each of them.
Proven(btih) ==
  /\ rules.mode = "only" => Says(btih, "yes") /\ ~Says(btih, "no")
  /\ rules.mode = "exclude" => ~Says(btih, "yes") \/ Says(btih, "no")
  /\ rules.min_size # Unknown => OneSize(btih) /\ SizeOf(btih) >= rules.min_size
  /\ rules.max_size # Unknown => OneSize(btih) /\ SizeOf(btih) <= rules.max_size
  /\ rules.min_seeders # Unknown => \E n \in KnownSeeders(btih) : n >= rules.min_seeders
  /\ rules.include # {} => \E e \in About(btih) : e.title \intersect rules.include # {}
  /\ \A e \in About(btih) : e.title \intersect rules.exclude = {}

\* RuleSet.evaluate over merged evidence: a candidate is accepted exactly if the
\* evidence of all sources proves it to meet the rules, in whatever order the
\* sources have answered; sources that disagree prove nothing.
AcceptedIsProven ==
  \A i \in DOMAIN result.evaluations :
    LET e == result.evaluations[i] IN e.accepted <=> Proven(e.btih)

Most(btih) == Max(KnownSeeders(btih))

\* The order of the product description (PRD, FR-07), said of what the sources know.
Better(a, b) ==
  LET seeded(x) == KnownSeeders(x) # {}
      seeds == IF seeded(a) /\ seeded(b) THEN Most(a) - Most(b)
               ELSE IF seeded(a) THEN 1 ELSE IF seeded(b) THEN -1 ELSE 0
      sizes == IF OneSize(a) /\ OneSize(b) THEN SizeOf(b) - SizeOf(a)
               ELSE IF OneSize(a) THEN 1 ELSE IF OneSize(b) THEN -1 ELSE 0
  IN  seeds > 0 \/ (seeds = 0 /\ (sizes > 0 \/ (sizes = 0 /\ a < b)))

\* selector.py: of two candidates that are both accepted, or both not, the better
\* comes first, whoever answered first; so the one selected is the best accepted.
BestComesFirst ==
  \A i, j \in DOMAIN result.evaluations : i < j =>
    LET e == result.evaluations[i]
        f == result.evaluations[j]
    IN  (e.accepted \/ ~f.accepted) /\ (e.accepted = f.accepted => Better(e.btih, f.btih))

\* _merge_items: the contents that top_n leaves are not ranked better by any
\* source than those it takes, whoever answered first.
TopIsTaken ==
  result.made =>
    LET taken == Range(result.contents)
        keys == {r.key : r \in answers.rankings}
        best(k) == Min({r.rank : r \in {s \in answers.rankings : s.key = k}})
    IN  /\ taken \subseteq keys
        /\ Cardinality(taken) = Len(result.contents)
        /\ Len(result.contents) = Min({TopN, Cardinality(keys)})
        /\ \A k \in taken, l \in keys \ taken : best(k) <= best(l)

\* The best works are taken, and the best candidate of a work comes first.
BestIsTaken == TopIsTaken /\ BestComesFirst
==============================================================================
