------------------------------- MODULE Selection -------------------------------
(***************************************************************************)
(* What a run makes of the answers of its sources: the merge of rankings   *)
(* and the cut at top_n (models.py, runs/service.py), the merge of the     *)
(* evidence for a magnet (models.py), the rules (rules.py), the order of   *)
(* candidates and the selection (selector.py, pipeline.py).                *)
(*                                                                         *)
(* Answers are taken one by one, in any order.  BTIHs, keys and sources    *)
(* are numbers in their alphabetical order, a title is the set of the      *)
(* keywords in it, and one attribute stands for the three of its kind.     *)
(***************************************************************************)
EXTENDS Integers, Sequences, FiniteSets, SelectionTable, Ordering

CONSTANTS
  Rankings,    \* RankingEvidence: [source, key, rank]
  Evidence,    \* CandidateEvidence: [source, btih, seeders, size, truth, title]
  RuleSets,    \* [mode, min_size, max_size, min_seeders, include, exclude]
  MaxAnswers   \* bound: answers of each kind in a run

Numbers == Nat \union {Unknown}
EvidenceAssumption ==
  \A e \in Evidence :
    /\ e.btih \in Nat /\ e.seeders \in Numbers /\ e.size \in Numbers
    /\ e.truth \in {"yes", "no", "unknown"}
RankingsAssumption == \A r \in Rankings : r.key \in Nat /\ r.rank \in Nat
RulesAssumption ==
  \A r \in RuleSets :
    /\ r.mode \in {"any", "only", "exclude"}
    /\ r.min_size \in Numbers /\ r.max_size \in Numbers /\ r.min_seeders \in Numbers
BoundsAssumption == TopN \in Nat \ {0} /\ MaxAnswers \in Nat

VARIABLES
  items,    \* merged contents: key -> rankings, in the order they came
  merged    \* merged candidates: btih -> evidence, in the order it came

vars == <<answers, rules, items, merged, result>>

\* merge_from: what is there already is not added.
Added(f, x, entry) ==
  [y \in DOMAIN f \union {x} |->
     IF y # x THEN f[y]
     ELSE IF x \notin DOMAIN f THEN <<entry>>
     ELSE IF entry \in Range(f[x]) THEN f[x] ELSE Append(f[x], entry)]

------------------------------------------------------------------------------
(***************************************************************************)
(* A content of several rankings.                                          *)
(***************************************************************************)

BestRank(rankings) == Min({r.rank : r \in Range(rankings)})

\* _merge_items, and top_n.
Contents(merge) ==
  FirstOf(Sorted(DOMAIN merge, [k \in DOMAIN merge |-> <<BestRank(merge[k]), k>>]), TopN)

------------------------------------------------------------------------------
(***************************************************************************)
(* A candidate of several sources.                                         *)
(***************************************************************************)

Seeders(evidence) ==
  LET known == {e.seeders : e \in Range(evidence)} \ {Unknown}
  IN  IF known = {} THEN Unknown ELSE Max(known)

Size(evidence) ==
  LET known == {e.size : e \in Range(evidence)} \ {Unknown}
  IN  IF Cardinality(known) = 1 THEN CHOOSE s \in known : TRUE ELSE Unknown

\* _truth_value.
Truth(evidence) ==
  LET known == {e.truth : e \in Range(evidence)} \ {"unknown"}
  IN  IF Cardinality(known) = 1 THEN CHOOSE v \in known : TRUE ELSE "unknown"

\* search_text.
Text(evidence) == UNION {e.title : e \in Range(evidence)}

------------------------------------------------------------------------------
(***************************************************************************)
(* RuleSet.evaluate.                                                       *)
(***************************************************************************)

TruthReasons(mode, truth) ==
  {r \in {"required", "excluded"} :
     \/ r = "required" /\ mode = "only" /\ truth # "yes"
     \/ r = "excluded" /\ mode = "exclude" /\ truth = "yes"}

\* Mutant: the bounds are strict.
StrictSizeReasons(r, size) ==
  IF r.min_size = Unknown /\ r.max_size = Unknown THEN {}
  ELSE IF size = Unknown THEN {"size_unknown"}
  ELSE (IF r.min_size # Unknown /\ size <= r.min_size THEN {"size_below_min"} ELSE {})
       \union (IF r.max_size # Unknown /\ size > r.max_size THEN {"size_above_max"} ELSE {})

SizeReasons(r, size) ==
  IF r.min_size = Unknown /\ r.max_size = Unknown THEN {}
  ELSE IF size = Unknown THEN {"size_unknown"}
  ELSE (IF r.min_size # Unknown /\ size < r.min_size THEN {"size_below_min"} ELSE {})
       \union (IF r.max_size # Unknown /\ size > r.max_size THEN {"size_above_max"} ELSE {})

SeedersReasons(r, seeders) ==
  IF r.min_seeders = Unknown THEN {}
  ELSE IF seeders = Unknown THEN {"seeders_unknown"}
  ELSE IF seeders < r.min_seeders THEN {"seeders_below_min"} ELSE {}

KeywordReasons(r, text) ==
  (IF r.include # {} /\ r.include \intersect text = {} THEN {"keyword_required"} ELSE {})
  \union (IF r.exclude \intersect text # {} THEN {"keyword_excluded"} ELSE {})

Evaluate(r, btih, evidence) ==
  LET reasons == TruthReasons(r.mode, Truth(evidence))
                 \union SizeReasons(r, Size(evidence))
                 \union SeedersReasons(r, Seeders(evidence))
                 \union KeywordReasons(r, Text(evidence))
  IN  [btih |-> btih, accepted |-> reasons = {}, reasons |-> reasons,
       seeders |-> Seeders(evidence), size |-> Size(evidence)]

------------------------------------------------------------------------------
(***************************************************************************)
(* The order of candidates.                                                *)
(***************************************************************************)

Flag(condition) == IF condition THEN 0 ELSE 1
OrZero(value) == IF value = Unknown THEN 0 ELSE value

\* Mutant: candidates of unknown size are taken for empty ones.
KeyWithoutSize(e) ==
  <<Flag(e.accepted), Flag(e.seeders # Unknown), -OrZero(e.seeders), 0, OrZero(e.size), e.btih>>

\* evaluation_sort_key; the sources never decide, since the BTIH is unique.
SortKey(e) ==
  <<Flag(e.accepted), Flag(e.seeders # Unknown), -OrZero(e.seeders),
    Flag(e.size # Unknown), OrZero(e.size), e.btih>>

Evaluations(r, merge) ==
  LET found == {Evaluate(r, b, merge[b]) : b \in DOMAIN merge}
  IN  Sorted(found, [e \in found |-> SortKey(e)])

\* select_candidate, and the status of the content.
Status(evaluations) ==
  IF evaluations = <<>> THEN "no_candidate"
  ELSE IF \A i \in DOMAIN evaluations : ~evaluations[i].accepted THEN "filtered"
  ELSE "selected"

------------------------------------------------------------------------------

\* The next answer of a source; candidates are searched when the contents are known.
TakeRanking(r) ==
  /\ ~result.made /\ answers.evidence = {}
  /\ r \notin answers.rankings /\ Cardinality(answers.rankings) < MaxAnswers
  /\ answers' = [answers EXCEPT !.rankings = @ \union {r}]
  /\ items' = Added(items, r.key, r)
  /\ UNCHANGED <<rules, merged, result>>

TakeEvidence(e) ==
  /\ ~result.made
  /\ e \notin answers.evidence /\ Cardinality(answers.evidence) < MaxAnswers
  /\ answers' = [answers EXCEPT !.evidence = @ \union {e}]
  /\ merged' = Added(merged, e.btih, e)
  /\ UNCHANGED <<rules, items, result>>

Conclude ==
  /\ ~result.made
  /\ LET evaluations == Evaluations(rules, merged)
     IN  result' = [made |-> TRUE, contents |-> Contents(items),
                    evaluations |-> evaluations, status |-> Status(evaluations)]
  /\ UNCHANGED <<answers, rules, items, merged>>

Nothing == [x \in {} |-> <<>>]

Init ==
  /\ answers = [rankings |-> {}, evidence |-> {}]
  /\ rules \in RuleSets
  /\ items = Nothing /\ merged = Nothing
  /\ result = [made |-> FALSE, contents |-> <<>>, evaluations |-> <<>>, status |-> "none"]

Next ==
  \/ \E r \in Rankings : TakeRanking(r)
  \/ \E e \in Evidence : TakeEvidence(e)
  \/ Conclude

Spec == Init /\ [][Next]_vars

------------------------------------------------------------------------------
(***************************************************************************)
(* Properties: what the answers, as a set, promise.                        *)
(***************************************************************************)

ReasonCodes ==
  {"required", "excluded", "size_unknown", "size_below_min", "size_above_max",
   "seeders_unknown", "seeders_below_min", "keyword_required", "keyword_excluded"}

\* The evaluations are of the candidates found, and a content that has an
\* accepted candidate, and no other, is selected.
TypeOK ==
  /\ answers.rankings \subseteq Rankings /\ answers.evidence \subseteq Evidence
  /\ \A i \in DOMAIN result.evaluations : result.evaluations[i].reasons \subseteq ReasonCodes
  /\ result.made =>
       /\ {result.evaluations[i].btih : i \in DOMAIN result.evaluations}
            = {e.btih : e \in answers.evidence}
       /\ result.status = "selected" <=> result.evaluations # <<>> /\ result.evaluations[1].accepted
==============================================================================
