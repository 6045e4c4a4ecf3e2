---------------------------- MODULE AutoSubmission ----------------------------
(***************************************************************************)
(* Automatic submission: the end of RunService._process_item, which goes   *)
(* over the accepted candidates of a content and submits them one by one   *)
(* through DownloadService, until one is not rejected.                     *)
(*                                                                         *)
(* The threads are the jobs of DownloadService.  Those that execute runs   *)
(* work on items and submit their candidates; the others serve users, who  *)
(* submit, retry, force and complete as they like.                         *)
(***************************************************************************)
EXTENDS DownloadService

CONSTANTS
  Runners, \* the jobs that execute runs
  Items,   \* ids of run_items; their number bounds the items
  Ranked   \* content -> its accepted candidates, as evaluation_sort_key orders them

ASSUME RunnersAssumption == Runners \subseteq Jobs
ASSUME RankedAssumption ==
  /\ DOMAIN Ranked = Contents
  /\ \A c \in Contents :
       /\ 1 \in DOMAIN Ranked[c] /\ DOMAIN Ranked[c] \subseteq Nat
       /\ Ranked[c] \in [DOMAIN Ranked[c] -> Candidates]
       /\ \A m, n \in DOMAIN Ranked[c] : Ranked[c][m] = Ranked[c][n] => m = n

VARIABLES
  items,   \* table run_items: id -> row
  work     \* what each runner does for its item between two sessions

autoVars == <<rows, overdue, job, poll, queue, offline, disk, faults, items, work>>

Outcomes ==
  {"submitted", "submit_failed", "submit_unknown", "attention_required", "deduplicated"}

ItemRows ==
  [content : Contents, profile : Profiles,
   status : Outcomes \union {"selected"},
   duplicate : Tasks \union {NoTask}]

Resting == [pc |-> "resting"]
Works ==
  {Resting}
  \union [pc : {"claim", "read", "next"}, item : Items, index : Nat,
          task : Tasks \union {NoTask}]
  \union [pc : {"conflict"}, item : Items, candidate : Candidates]
  \union [pc : {"report"}, item : Items, status : Outcomes,
          duplicate : Tasks \union {NoTask}]

Turns(j, state) == work' = [work EXCEPT ![j] = state]
Reports(j, status, duplicate) ==
  Turns(j, [pc |-> "report", item |-> work[j].item, status |-> status,
             duplicate |-> duplicate])

GoesOn(j, pc, index, task) ==
  Turns(j, [pc |-> pc, item |-> work[j].item, index |-> index, task |-> task])

ItemOf(j) == items[work[j].item]
Order(j) == Ranked[ItemOf(j).content]
FirstClaim(j) ==
  [content |-> ItemOf(j).content, candidate |-> Order(j)[1],
   profile |-> ItemOf(j).profile, generation |-> 0, supersedes |-> NoTask]

------------------------------------------------------------------------------
(***************************************************************************)
(* An item of a run.                                                       *)
(***************************************************************************)

\* add_run_item, for a content with accepted candidates in a run that submits.
ItemBegins(j) ==
  /\ job[j] = Idle /\ work[j] = Resting
  /\ \E i \in Items \ DOMAIN items, c \in Contents, p \in Profiles :
       /\ items' = [h \in DOMAIN items \union {i} |->
                      IF h = i THEN [content |-> c, profile |-> p, status |-> "selected",
                                     duplicate |-> NoTask]
                      ELSE items[h]]
       /\ Turns(j, [pc |-> "claim", item |-> i, index |-> 1, task |-> NoTask])
  /\ UNCHANGED vars

\* What a refused claim leads to: claim_download looks for conflicts before
\* the insert meets the index of the destinations.
Refused(j, claim) ==
  \/ /\ Conflict(claim)
     /\ Turns(j, [pc |-> "conflict", item |-> work[j].item,
                   candidate |-> claim.candidate])
  \/ /\ ~Conflict(claim) /\ Busy(claim)
     /\ Reports(j, "submit_failed", NoTask)

\* submit_candidate for the first candidate, at generation 0.
ClaimsFirst(j) ==
  /\ work[j].pc = "claim" /\ job[j] = Idle
  /\ \E t \in Tasks :
       /\ Insert(t, FirstClaim(j))
       /\ Goto(j, [pc |-> "ensure", task |-> t])
       /\ GoesOn(j, "read", work[j].index, t)
  /\ UNCHANGED <<overdue, poll, queue, external, faults, items>>

FirstRefused(j) ==
  /\ work[j].pc = "claim" /\ job[j] = Idle
  /\ Refused(j, FirstClaim(j))
  /\ UNCHANGED <<vars, items>>

\* submit_candidate for a later one, with the generation that was read.
ClaimsNext(j) ==
  /\ work[j].pc = "claim"
  /\ ClaimRetry(j)
  /\ GoesOn(j, "read", work[j].index, job'[j].task)
  /\ UNCHANGED items

NextRefused(j) ==
  /\ work[j].pc = "claim"
  /\ RetryRefused(j)
  /\ Refused(j, job[j].claim)
  /\ UNCHANGED items

\* Mutant: a fallback after any failure.
Failed(row) == row.status = "failed"

\* CloudDrive2 has refused the submission itself.
Rejected(row) == row.status = "failed" /\ row.rejected

\* Mutant: a submission without an answer counts as submitted.
OutcomeIsOptimistic(row) ==
  CASE row.status = "failed"             -> "submit_failed"
    [] row.status = "attention_required" -> "attention_required"
    [] OTHER                             -> "submitted"

\* What the item is told about its task.
Outcome(row) ==
  CASE row.status = "failed"             -> "submit_failed"
    [] row.status = "submitting"         -> "submit_unknown"
    [] row.status = "attention_required" -> "attention_required"
    [] OTHER                             -> "submitted"

\* get_download_task, once submit_candidate has returned.
ReadsTask(j) ==
  /\ work[j].pc = "read" /\ job[j] = Idle
  /\ LET row == rows[work[j].task] IN
       IF Rejected(row) /\ work[j].index + 1 \in DOMAIN Order(j)
       THEN GoesOn(j, "next", work[j].index + 1, work[j].task)
       ELSE Reports(j, Outcome(row), NoTask)
  /\ UNCHANGED <<vars, items>>

\* next_download_generation, for the next candidate.
FallsBack(j) ==
  /\ work[j].pc = "next"
  /\ Fallback(j)
  /\ job'[j].claim.supersedes = work[j].task
  /\ job'[j].claim.candidate = Order(j)[work[j].index]
  /\ GoesOn(j, "claim", work[j].index, work[j].task)
  /\ UNCHANGED items

\* find_download_conflict: a task of generation 0, whatever the generation of
\* the refused claim, the oldest of them; which one that is stays open here.
FindsConflict(j) ==
  /\ work[j].pc = "conflict"
  /\ LET related == {t \in DOMAIN rows :
                       SameClaim(rows[t].claim,
                                 [content |-> ItemOf(j).content, generation |-> 0,
                                  candidate |-> work[j].candidate])}
     IN  \E d \in IF related = {} THEN {NoTask} ELSE related :
           Reports(j, "deduplicated", d)
  /\ UNCHANGED <<vars, items>>

\* update_run_item_status; the thread turns to other work.
ReportsStatus(j) ==
  /\ work[j].pc = "report"
  /\ items' = [items EXCEPT ![work[j].item].status = work[j].status,
                            ![work[j].item].duplicate =
                                IF work[j].duplicate = NoTask THEN @ ELSE work[j].duplicate]
  /\ Turns(j, Resting)
  /\ UNCHANGED vars

------------------------------------------------------------------------------
(***************************************************************************)
(* The steps of DownloadService, in threads that work on an item and in    *)
(* threads that do not.                                                    *)
(***************************************************************************)

\* submit_candidate after its claim.
SubmitGoesOn(j) ==
  /\ EnsureDestination(j) \/ AddOffline(j)
  /\ UNCHANGED <<items, work>>

\* The IntegrityError of a refused event leaves submit_candidate and the item.
SubmitEnds(j) ==
  /\ RecordResult(j)
  /\ IF j \in Runners /\ AppendRefused(job[j].task, job[j].write)
     THEN Turns(j, Resting)
     ELSE UNCHANGED work
  /\ UNCHANGED items

UserActs(j) ==
  /\ \/ SubmitNew(j) \/ Retry(j) \/ ForceMagnet(j)
     \/ ClaimRetry(j) \/ RetryRefused(j) \/ ManualComplete(j)
  /\ UNCHANGED <<items, work>>

\* An exception ends the item, whose status stays as it is; the run goes on with
\* the next one.
ServiceFails(j) ==
  /\ JobFails(j)
  /\ IF j \in Runners THEN Turns(j, Resting) ELSE UNCHANGED work
  /\ UNCHANGED items

ItemFails(j) ==
  /\ job[j] = Idle /\ work[j] # Resting
  /\ Turns(j, Resting)
  /\ UNCHANGED <<vars, items>>

Restart == Crash /\ work' = [r \in Runners |-> Resting] /\ UNCHANGED items

\* The poller, time and CloudDrive2.
Elsewhere ==
  /\ \/ PollStep \/ PollFails
     \/ \E t \in Tasks : DeadlinePasses(t)
     \/ \E d \in Destinations : OfflineProgress(d) \/ FileGrows(d)
  /\ UNCHANGED <<items, work>>

AutoInit ==
  /\ Init
  /\ items = [i \in {} |-> Resting]
  /\ work = [r \in Runners |-> Resting]

ItemStep(j) ==
  \/ ItemBegins(j) \/ ClaimsFirst(j) \/ FirstRefused(j) \/ ClaimsNext(j)
  \/ NextRefused(j) \/ ReadsTask(j) \/ FallsBack(j) \/ FindsConflict(j)
  \/ ReportsStatus(j) \/ ItemFails(j)

ServiceStep(j) == SubmitGoesOn(j) \/ SubmitEnds(j) \/ ServiceFails(j)

AutoNext ==
  \/ \E r \in Runners : ItemStep(r)
  \/ \E j \in Jobs : ServiceStep(j)
  \/ \E j \in Jobs \ Runners : UserActs(j)
  \/ Restart \/ Elsewhere

AutoSpec == AutoInit /\ [][AutoNext]_autoVars

------------------------------------------------------------------------------
(***************************************************************************)
(* Properties.                                                             *)
(***************************************************************************)

ItemsOK ==
  /\ DOMAIN items \subseteq Items /\ items \in [DOMAIN items -> ItemRows]
  /\ work \in [Runners -> Works]
  /\ \A r \in Runners :
       /\ work[r] # Resting => work[r].item \in DOMAIN items
       /\ work[r].pc \in {"claim", "read", "next"} => work[r].index \in DOMAIN Order(r)
       /\ work[r].pc \in {"read", "next"} => work[r].task \in DOMAIN rows

\* Every variable has its type, threads know only rows of the tables, and the
\* loop stays within the accepted candidates.
AutoTypeOK == TypeOK /\ ItemsOK

Held(t) == offline[Dest(rows[t].claim)] # "none"

\* A claim of a user: with a generation of its own, for the same BTIH.
ByUser(t) ==
  LET older == rows[t].claim.supersedes IN
    older # NoTask /\ rows[older].claim.candidate = rows[t].claim.candidate

\* CloudDrive2 holds two candidates of one content only if a user has claimed
\* the content again, or another content brings one of the two: a fallback
\* never follows an acceptance, a lost answer or a failed download.
SwitchNeedsUser ==
  \A t, u \in DOMAIN rows :
    /\ rows[t].claim.content = rows[u].claim.content
    /\ rows[t].claim.candidate # rows[u].claim.candidate
    /\ Held(t) /\ Held(u)
    => \E v \in DOMAIN rows :
         \/ ByUser(v) /\ rows[v].claim.content = rows[t].claim.content
         \/ /\ rows[v].claim.content # rows[t].claim.content
            /\ rows[v].claim.candidate \in {rows[t].claim.candidate, rows[u].claim.candidate}

\* An item that reports its submission has a task that CloudDrive2 has taken or
\* a person has completed, whatever other threads wrote to its row in between.
SubmittedItemsAreHeld ==
  \A i \in DOMAIN items :
    items[i].status = "submitted" =>
      \E t \in DOMAIN rows :
        /\ rows[t].claim.content = items[i].content
        /\ rows[t].claim.profile = items[i].profile
        /\ Held(t) \/ rows[t].manual

\* One BTIH has two tasks only if a user asked for the second one.
OneTaskPerBtih ==
  \A t, u \in DOMAIN rows :
    t # u /\ rows[t].claim.candidate = rows[u].claim.candidate =>
      \E v \in DOMAIN rows : ByUser(v)
==============================================================================
