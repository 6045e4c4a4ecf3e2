------------------------------- MODULE MCSources -------------------------------
(***************************************************************************)
(* What runs ask of the world outside, and what they make of the answers:  *)
(* the HTTP client, the selection, the runs of a list, and the tree of     *)
(* CloudDrive2.  The parts share no state, so a behaviour is one of one    *)
(* part, and the others stay in an initial state.                          *)
(***************************************************************************)
EXTENDS Integers, Sequences, TLC, ServedAnswers, SelectionTable, WatchTable, TreeTable

CONSTANTS t1, t2, r1, r2, s1, k1, s, u

VARIABLES
  part,
  now, client, holder, last, ttlCache, httpThread, health, received,
  contents, merged,
  items, automation, tasks, runs, decided,
  tree

Http == INSTANCE ProviderHttp WITH
  Threads <- {t1, t2}, NoThread <- "none", Runs <- {r1, r2}, Sources <- {s1}, Keys <- {k1},
  Interval <- 2, Retries <- 1, Backoff <- 1,
  MaxTime <- 3, MaxAnswers <- 2, MaxClients <- 2, MaxFaults <- 1,
  thread <- httpThread, answers <- received

\* Two sources answer about two candidates.
Saying(seeders, sizes, truths, titles) ==
  [source : {1, 2}, btih : {1, 2}, seeders : seeders, size : sizes, truth : truths,
   title : titles]
AnyRule == [mode |-> "any", min_size |-> Unknown, max_size |-> Unknown,
            min_seeders |-> Unknown, include |-> {}, exclude |-> {}]

\* ...with numbers that are known or not;
NumbersEvidence == Saying({Unknown, 0, 1}, {Unknown, 0, 1}, {"unknown"}, {{}})
NumbersRules ==
  {AnyRule, [AnyRule EXCEPT !.min_size = 1], [AnyRule EXCEPT !.max_size = 0],
   [AnyRule EXCEPT !.min_size = 1, !.max_size = 1, !.min_seeders = 1]}
Numbers == INSTANCE Selection WITH
  Rankings <- {}, MaxAnswers <- 3, items <- contents,
  Evidence <- NumbersEvidence, RuleSets <- NumbersRules

\* ...with an attribute of three values, and keywords.
AttributesEvidence ==
  Saying({Unknown}, {Unknown}, {"yes", "no", "unknown"}, {{}, {"w"}, {"w", "x"}})
AttributesRules ==
  {[AnyRule EXCEPT !.mode = "only"],
   [AnyRule EXCEPT !.mode = "exclude", !.include = {"w", "x"}],
   [AnyRule EXCEPT !.include = {"w"}, !.exclude = {"x"}]}
Attributes == INSTANCE Selection WITH
  Rankings <- {}, MaxAnswers <- 3, items <- contents,
  Evidence <- AttributesEvidence, RuleSets <- AttributesRules

\* Two sources rank three contents, of which two are taken.
TopRankings == [source : {1, 2}, key : 1..3, rank : {1, 2}]
Top == INSTANCE Selection WITH
  Rankings <- TopRankings, MaxAnswers <- 4,
  Evidence <- {}, RuleSets <- {AnyRule}, items <- contents

\* The second of two works has a candidate; one task may follow a failed one.
\* What is ignored is treated as what is owned.
List == INSTANCE Watchlist WITH
  Scheduler <- s, Users <- {u}, NumKeys <- 2, Coded <- {1, 2}, Namespaces <- {"jav"},
  Decisions <- {"pending", "owned"}, Offered <- {2},
  MaxTasks <- 2, MaxMagnets <- 0, MaxRuns <- 1

\* One work, which is imported under two identities and for which the user may
\* give a magnet.
Single == INSTANCE Watchlist WITH
  Scheduler <- s, Users <- {u}, NumKeys <- 1, Coded <- {1}, Namespaces <- {"jav", "general"},
  Decisions <- {"pending", "owned", "ignored"}, Offered <- {1},
  MaxTasks <- 1, MaxMagnets <- 1, MaxRuns <- 1

\* The destination is below the root, with three entries on two levels.
DestinationPath == <<"r", "p", "h">>
RootPath == <<"r">>
Names == {"r", "p", "h", "d", "e", "f", "g", "x", "y"}
Way == {<<"r">>, <<"r", "p">>, Destination}
Tree == INSTANCE RemoteTree WITH
  Threads <- {t1, t2},
  Paths <- Way \union {Destination \o x : x \in {<<"d">>, <<"d", "f">>, <<"e">>}},
  MaxDepth <- 1, MaxSize <- 1, MaxChanges <- 2, MaxFaults <- 0

\* Three entries side by side are one more than the limit.
Crowded == INSTANCE RemoteTree WITH
  Threads <- {t1, t2},
  Paths <- Way \union {Destination \o x : x \in {<<"d">>, <<"e">>, <<"g">>}},
  MaxDepth <- 1, MaxSize <- 0, MaxChanges <- 2, MaxFaults <- 0

\* The root may hold two entries beside the first folder on the way.
AtLimit == INSTANCE RemoteTree WITH
  Threads <- {t1, t2},
  Paths <- Way \union {<<"r", "x">>, <<"r", "y">>},
  MaxDepth <- 1, MaxSize <- 0, MaxChanges <- 1, MaxFaults <- 1

ASSUME ConstantsAssumption ==
  /\ Http!HolderAssumption /\ Http!TimesAssumption /\ Http!BoundsAssumption
  /\ Numbers!EvidenceAssumption /\ Numbers!RulesAssumption /\ Numbers!BoundsAssumption
  /\ Attributes!EvidenceAssumption /\ Attributes!RulesAssumption
  /\ Attributes!BoundsAssumption
  /\ Top!RankingsAssumption /\ Top!RulesAssumption /\ Top!BoundsAssumption
  /\ List!ThreadAssumption /\ List!DecisionsAssumption
  /\ List!KeysAssumption /\ List!BoundsAssumption
  /\ Single!ThreadAssumption /\ Single!DecisionsAssumption
  /\ Single!KeysAssumption /\ Single!BoundsAssumption
  /\ Tree!PathsAssumption /\ Tree!BoundsAssumption
  /\ Crowded!PathsAssumption /\ Crowded!BoundsAssumption
  /\ AtLimit!PathsAssumption /\ AtLimit!BoundsAssumption

httpVars == <<now, client, holder, last, runCache, ttlCache, httpThread, ended, health,
              received, unfinished, served>>
selectionVars == <<answers, rules, contents, merged, result>>
listVars == <<items, automation, tasks, worker, runs, decided>>
treeVars == <<tree, call, changes, faults, seen>>

\* The parts that do not move have one initial state.
Init ==
  /\ part \in {"http", "numbers", "attributes", "top", "list", "single", "tree", "crowded",
              "at_limit"}
  /\ Http!Init
  /\ IF part = "single" THEN Single!Init ELSE List!Init
  /\ CASE part = "tree"     -> Tree!Init
       [] part = "crowded"  -> Crowded!Init
       [] part = "at_limit" -> AtLimit!Init
       [] OTHER             -> Tree!Init /\ tree = (<<"r">> :> Tree!Dir)
  /\ CASE part = "numbers"    -> Numbers!Init
       [] part = "attributes" -> Attributes!Init
       [] OTHER               -> Top!Init

Next ==
  \/ /\ part = "http" /\ Http!Next
     /\ UNCHANGED <<part, selectionVars, listVars, treeVars>>
  \/ /\ part = "numbers" /\ Numbers!Next
     /\ UNCHANGED <<part, httpVars, listVars, treeVars>>
  \/ /\ part = "attributes" /\ Attributes!Next
     /\ UNCHANGED <<part, httpVars, listVars, treeVars>>
  \/ /\ part = "top" /\ Top!Next
     /\ UNCHANGED <<part, httpVars, listVars, treeVars>>
  \/ /\ part = "list" /\ List!Next
     /\ UNCHANGED <<part, httpVars, selectionVars, treeVars>>
  \/ /\ part = "single" /\ Single!Next
     /\ UNCHANGED <<part, httpVars, selectionVars, treeVars>>
  \/ /\ part = "tree" /\ Tree!Next
     /\ UNCHANGED <<part, httpVars, selectionVars, listVars>>
  \/ /\ part = "crowded" /\ Crowded!Next
     /\ UNCHANGED <<part, httpVars, selectionVars, listVars>>
  \/ /\ part = "at_limit" /\ AtLimit!Next
     /\ UNCHANGED <<part, httpVars, selectionVars, listVars>>

Spec == Init /\ [][Next]_<<part, httpVars, selectionVars, listVars, treeVars>>

\* Threads and runs are interchangeable.
Symmetry == Permutations({t1, t2}) \union Permutations({r1, r2})
==============================================================================
