------------------------------- MODULE Watchlist -------------------------------
(***************************************************************************)
(* A watchlist (watchlists.py): its items, the decisions of its user, the  *)
(* runs that hand its pending items to the sources of a profile            *)
(* (runs/service.py), and the states its items show, which are those of    *)
(* the latest download tasks of their contents (db/repository.py).         *)
(*                                                                         *)
(* A key is known by its place in the order of keys.  A content is a       *)
(* namespace and a key.  Download tasks follow DownloadState here;         *)
(* DownloadService is the detailed model of what moves them.               *)
(***************************************************************************)
EXTENDS Integers, Sequences, FiniteSets, Ordering, WatchTable, DownloadState

CONSTANTS
  Scheduler,    \* the thread of the daily job
  Users,        \* threads of requests that run the list
  NumKeys,      \* keys of works, in the order of normalized_key
  Coded,        \* the keys that normalize_jav_identity knows as codes
  Namespaces,   \* namespaces that imports use: "jav", "general"
  Decisions,    \* the states a user gives to items
  Offered,      \* the keys for which the sources have an accepted candidate
  TopN,         \* profile.top_n
  MaxTasks,     \* bound: download tasks when another follows a failed one
  MaxMagnets,   \* bound: download tasks when a user gives a magnet
  MaxRuns       \* bound: runs that users start

Keys == 1..NumKeys
ThreadAssumption == Scheduler \notin Users
DecisionsAssumption ==
  "pending" \in Decisions /\ Decisions \subseteq {"pending", "owned", "ignored"}
KeysAssumption ==
  /\ NumKeys \in Nat /\ Coded \subseteq Keys /\ Offered \subseteq Keys
  /\ Namespaces \subseteq {"jav", "general"}
BoundsAssumption == TopN \in Nat \ {0} /\ {MaxTasks, MaxMagnets, MaxRuns} \subseteq Nat

VARIABLES
  items,       \* watchlist_items.state of each content
  automation,  \* automation_json, with a profile and a time
  tasks,       \* the rows of download_tasks, the last updated last
  runs,        \* runs that users have started
  decided      \* history: the works the user has called owned or ignored

vars == <<items, automation, tasks, worker, runs, decided>>

Threads == Users \union {Scheduler}
Contents == {"jav", "general", "manual"} \X Keys

\* _identity of an import.  In the namespace jav a key that is not a code stays
\* there (fallback_namespace).
Identity(namespace, key) == <<namespace, key>>

\* normalize_jav_identity as ManualDiscoveryProvider calls it.
RunIdentity(key) == IF key \in Coded THEN <<"jav", key>> ELSE <<"manual", key>>

TasksOf(content) == {i \in DOMAIN tasks : tasks[i].content = content}
Latest(content) == tasks[CHOOSE i \in TasksOf(content) : \A j \in TasksOf(content) : j <= i]

\* WatchlistService._item.
ItemState(content) ==
  IF TasksOf(content) = {} THEN items[content]
  ELSE IF Latest(content).status = "completed" THEN "downloaded"
  ELSE Latest(content).status

\* get_watchlist_detail orders the items by their key.
Showing(state) == {c \in Contents : items[c] # "absent" /\ ItemState(c) = state}
ByKey(found) == Sorted(found, [c \in found |-> <<c[2], IF c[1] = "jav" THEN 0 ELSE 1>>])

\* Mutant: items the user owns are handed over with the pending ones.
PendingOrOwned == FirstOf(ByKey(Showing("pending") \union Showing("owned")), TopN)

\* Mutant: the last keys come first.
PendingFromTheEnd ==
  LET pending == ByKey(Showing("pending"))
  IN  FirstOf([i \in DOMAIN pending |-> pending[Len(pending) + 1 - i]], TopN)

Pending == FirstOf(ByKey(Showing("pending")), TopN)

\* The keys of which the user has called every item owned or ignored.
Settled ==
  {k \in Keys : \A c \in Contents : c[2] = k /\ items[c] # "absent" => c \in decided}

Idle == [pc |-> "idle"]
Become(t, state) == worker' = [worker EXCEPT ![t] = state]

------------------------------------------------------------------------------
(***************************************************************************)
(* Requests about items and automation.                                    *)
(***************************************************************************)

\* import_items: add_watchlist_item does nothing when the item is there.
Import(namespace, key) ==
  /\ items[Identity(namespace, key)] = "absent"
  /\ items' = [items EXCEPT ![Identity(namespace, key)] = "pending"]
  /\ UNCHANGED <<automation, tasks, worker, runs, decided>>

SetItemState(content, state) ==
  /\ items[content] # "absent"
  /\ items' = [items EXCEPT ![content] = state]
  /\ decided' = IF state = "pending" THEN decided \ {content} ELSE decided \union {content}
  /\ UNCHANGED <<automation, tasks, worker, runs>>

ConfigureAutomation ==
  /\ \E enabled, auto_submit \in BOOLEAN :
       automation' = [enabled |-> enabled, auto_submit |-> auto_submit]
  /\ UNCHANGED <<items, tasks, worker, runs, decided>>

\* submit_authorized_magnet: the claim refuses a content that has a task.
SubmitAuthorizedMagnet(content) ==
  /\ items[content] # "absent" /\ TasksOf(content) = {}
  /\ Len(tasks) < MaxMagnets
  /\ tasks' = Append(tasks, [content |-> content, status |-> "submitting", run |-> FALSE])
  /\ UNCHANGED <<items, automation, worker, runs, decided>>

------------------------------------------------------------------------------
(***************************************************************************)
(* WatchlistService.run and the run it executes.                           *)
(***************************************************************************)

\* The list as it is, once: what is decided later does not change the run.
RunReads(t) ==
  /\ worker[t] = Idle
  /\ t = Scheduler => automation.enabled
  /\ t \in Users => runs < MaxRuns
  /\ runs' = IF t \in Users THEN runs + 1 ELSE runs
  /\ Pending # <<>>
  /\ \E force_dry_run \in BOOLEAN :
       /\ t = Scheduler => ~force_dry_run
       /\ Become(t, [pc |-> "execute",
                     keys |-> [i \in DOMAIN Pending |-> Pending[i][2]],
                     submit |-> automation.auto_submit /\ ~force_dry_run,
                     settled |-> Settled])
  /\ UNCHANGED <<items, automation, tasks, decided>>

\* ManualDiscoveryProvider.collect and _merge_items: each content once, by rank.
Discovered(keys) ==
  LET contents == [i \in DOMAIN keys |-> RunIdentity(keys[i])]
      first == {i \in DOMAIN keys : \A j \in 1..(i - 1) : contents[j] # contents[i]}
      order == Sorted(first, [i \in first |-> <<i>>])
  IN  [n \in DOMAIN order |-> <<order[n], contents[order[n]]>>]

Begins(t) ==
  Become(t, [pc |-> "items", todo |-> Discovered(worker[t].keys),
             submit |-> worker[t].submit, settled |-> worker[t].settled, cut |-> FALSE])

\* RunService.execute.  The profile's running row refuses another run.  Any run
\* may be skipped: for want of a slot, for another run of the profile that holds
\* its lock, for a runtime that is not configured, or it fails before its items.
Execute(t) ==
  /\ worker[t].pc = "execute"
  /\ \/ Begins(t) /\ \A u \in Running : worker[u].cut
     \/ Become(t, Idle)
  /\ UNCHANGED <<items, automation, tasks, runs, decided>>

\* RuntimeManager.reload: the jobs of the old scheduler are drained, and the start
\* of the new one fails the rows of the runs that requests carry out.  They go on
\* with the old RunService, and no lock of the new one is held.
Reload ==
  /\ worker[Scheduler] = Idle
  /\ \E t \in Running : ~worker[t].cut
  /\ worker' = [t \in Threads |->
                  IF t \in Running THEN [worker[t] EXCEPT !.cut = TRUE] ELSE worker[t]]
  /\ UNCHANGED <<items, automation, tasks, runs, decided>>

\* _process_item: without a candidate, or with a task for the content, the run
\* goes on; else it claims the content.
ProcessItem(t) ==
  /\ worker[t].pc = "items" /\ worker[t].todo # <<>>
  /\ LET content == Head(worker[t].todo)[2]
         claims == worker[t].submit /\ content[2] \in Offered /\ TasksOf(content) = {}
     IN  IF claims
         THEN tasks' = Append(tasks, [content |-> content, status |-> "submitting", run |-> TRUE])
         ELSE UNCHANGED tasks
  /\ Become(t, [worker[t] EXCEPT !.todo = Tail(@)])
  /\ UNCHANGED <<items, automation, runs, decided>>

\* Every run ends, with or without an error.
FinishRun(t) ==
  /\ worker[t].pc = "items" /\ worker[t].todo = <<>>
  /\ Become(t, Idle)
  /\ UNCHANGED <<items, automation, tasks, runs, decided>>

\* A submission, a poll or a user moves a task, which is then the last updated.
TaskMoves(i) ==
  /\ \E status \in Allowed[tasks[i].status] :
       tasks' = Append(RemoveAt(tasks, i), [tasks[i] EXCEPT !.status = status])
  /\ UNCHANGED <<items, automation, worker, runs, decided>>

\* The next candidate of a rejected content, or a retry.
TaskFollows(i) ==
  /\ tasks[i].status = "failed" /\ Len(tasks) < MaxTasks
  /\ tasks' = Append(tasks, [tasks[i] EXCEPT !.status = "submitting"])
  /\ UNCHANGED <<items, automation, worker, runs, decided>>

------------------------------------------------------------------------------

Init ==
  /\ items = [c \in Contents |-> "absent"]
  /\ automation = [enabled |-> FALSE, auto_submit |-> FALSE]
  /\ tasks = <<>>
  /\ worker = [t \in Threads |-> Idle]
  /\ runs = 0
  /\ decided = {}

RunStep(t) == RunReads(t) \/ Execute(t) \/ ProcessItem(t) \/ FinishRun(t)

Next ==
  \/ \E n \in Namespaces, k \in Keys : Import(n, k)
  \/ \E c \in Contents, s \in Decisions : SetItemState(c, s)
  \/ ConfigureAutomation
  \/ \E c \in Contents : SubmitAuthorizedMagnet(c)
  \/ \E t \in Threads : RunStep(t)
  \/ Reload
  \/ \E i \in DOMAIN tasks : TaskMoves(i) \/ TaskFollows(i)

Spec == Init /\ [][Next]_vars

------------------------------------------------------------------------------
(***************************************************************************)
(* Properties.                                                             *)
(***************************************************************************)

TaskRows == [content : Contents, status : Status, run : BOOLEAN]

\* The rows are of the kinds the code writes, and of the runs of the profile at
\* most one has a running row: those a reload has cut off have none.
TypeOK ==
  /\ items \in [Contents -> Decisions \union {"absent"}]
  /\ automation \in [enabled : BOOLEAN, auto_submit : BOOLEAN]
  /\ \A i \in DOMAIN tasks : tasks[i] \in TaskRows
  /\ \A t \in Threads : worker[t].pc \in {"idle", "execute", "items"}
  /\ Cardinality({t \in Running : ~worker[t].cut}) <= 1
  /\ runs \in 0..MaxRuns /\ decided \subseteq Contents

\* A pending item with fewer than top_n pending ones before it.
Precedes(c, d) == c[2] < d[2] \/ (c[2] = d[2] /\ c[1] = "jav" /\ d[1] # "jav")
Waiting(content) ==
  /\ automation.enabled /\ content \in Showing("pending")
  /\ Cardinality({c \in Showing("pending") : Precedes(c, content)}) < TopN

\* A run is at a content of the item's key, under whatever identity.
Asked(content) ==
  \E t \in Running : worker[t].todo # <<>> /\ Head(worker[t].todo)[2][2] = content[2]

\* While the daily run is not skipped for ever, it hands every work that is among
\* the first top_n pending ones to the sources.  The code does not promise the
\* premise, nor anything to a work that stays behind the first top_n.
PendingAreAsked ==
  []<><<Execute(Scheduler) /\ Begins(Scheduler)>>_vars =>
    \A c \in Namespaces \X Keys : Waiting(c) ~> Asked(c) \/ ~Waiting(c)
==============================================================================
