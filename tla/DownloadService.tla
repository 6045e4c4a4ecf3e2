---------------------------- MODULE DownloadService ----------------------------
(***************************************************************************)
(* Download tasks: claimed in SQLite, submitted to CloudDrive2, polled     *)
(* until they end (downloads/service.py, downloads/poller.py and the       *)
(* download half of db/repository.py), with the part of CloudDrive2 that   *)
(* the service can observe.                                                *)
(*                                                                         *)
(* A `with database.session()` block is one step; between two blocks, and  *)
(* around every remote call, any other thread may run.  Threads are the    *)
(* jobs (API requests and runs, which submit, retry and complete by hand)  *)
(* and the one poller of the scheduler.                                    *)
(***************************************************************************)
EXTENDS Completion, DownloadState, FiniteSets

CONSTANTS
  Tasks,          \* the task ids uuid4 may return
  Contents,       \* content_item_id
  Candidates,     \* candidate_id, one per BTIH
  Profiles,       \* profile_id, each with a destination of its own
  Jobs,           \* threads of the API and of the scheduler
  NoTask,         \* supersedes_task_id IS NULL
  NoBaseline,     \* completion_state_json IS NULL
  MaxGeneration,  \* bound: retries of one claim
  MaxManual,      \* bound: tasks that have been completed by hand
  MaxFaults       \* bound: crashes and failed database calls

ASSUME NoTaskAssumption == NoTask \notin Tasks
ASSUME NoBaselineAssumption == NoBaseline \notin CompletionState
ASSUME BoundsAssumption == {MaxGeneration, MaxManual, MaxFaults} \subseteq Nat

VARIABLES
  rows,      \* table download_tasks: task id -> row
  overdue,   \* tasks whose attention_after_at has passed
  job,       \* where each job stands
  poll,      \* where the poller stands
  queue,     \* the task ids poll_once has still to visit
  offline,   \* CloudDrive2: the offline task of a destination
  disk,      \* CloudDrive2: the files under a destination
  faults     \* crashes and failed calls so far

database == <<rows, overdue>>
external == <<offline, disk>>
vars == <<rows, overdue, job, poll, queue, offline, disk, faults>>

\* resolve_task_destination: one directory per profile and BTIH.
Destinations == Profiles \X Candidates
Dest(claim) == <<claim.profile, claim.candidate>>

Claims ==
  [content : Contents, candidate : Candidates, profile : Profiles,
   generation : 0..MaxGeneration, supersedes : Tasks \union {NoTask}]

Baselines == CompletionState \union {NoBaseline}
\* rejected: last_error_code is "explicit_rejection".
Rows ==
  [claim : Claims, status : Status, completion : Baselines, owned : BOOLEAN,
   manual : BOOLEAN, rejected : BOOLEAN]

\* The arguments of append_download_event.
Writes ==
  [status : Status, completion : Baselines, owned : {"keep", "yes", "no"},
   manual : BOOLEAN, rejected : BOOLEAN]

Write(status) ==
  [status |-> status, completion |-> NoBaseline, owned |-> "keep",
   manual |-> FALSE, rejected |-> FALSE]

------------------------------------------------------------------------------
(***************************************************************************)
(* The table: its unique indexes and the statements that write it.         *)
(***************************************************************************)

SameClaim(c, d) ==
  /\ c.generation = d.generation
  /\ c.content = d.content \/ c.candidate = d.candidate

\* The rows of the partial index uq_download_tasks_destination_ownership.
Waiting(row) == ~row.owned /\ row.status \in Unfinished

Conflict(claim) == \E t \in DOMAIN rows : SameClaim(rows[t].claim, claim)
\* Mutant: a task that asks for attention no longer keeps its destination busy.
BusyUnlessAttention(claim) ==
  \E t \in DOMAIN rows : /\ Waiting(rows[t]) /\ rows[t].status # "attention_required"
                         /\ Dest(rows[t].claim) = Dest(claim)

Busy(claim) ==
  \E t \in DOMAIN rows : Waiting(rows[t]) /\ Dest(rows[t].claim) = Dest(claim)

\* next_download_generation: one more than the greatest of the related rows.
IsNextGeneration(g, content, candidate) ==
  LET related == {t \in DOMAIN rows : \/ rows[t].claim.content = content
                                      \/ rows[t].claim.candidate = candidate}
      used == {0} \union {rows[t].claim.generation : t \in related}
  IN  g - 1 \in used /\ \A h \in used : h < g

\* claim_download, when neither the check nor an index refuses it.
Insert(t, claim) ==
  /\ t \notin DOMAIN rows
  /\ ~Conflict(claim) /\ ~Busy(claim)
  /\ rows' = [u \in DOMAIN rows \union {t} |->
                IF u = t
                THEN [claim |-> claim, status |-> "submitting",
                      completion |-> NoBaseline, owned |-> FALSE,
                      manual |-> FALSE, rejected |-> FALSE]
                ELSE rows[u]]

\* Mutant: each event sets the completion state, like the error.
AppendedAll(row, w) ==
  [claim |-> row.claim, status |-> w.status, completion |-> w.completion,
   owned |-> IF w.owned = "keep" THEN row.owned ELSE w.owned = "yes",
   manual |-> row.manual \/ w.manual, rejected |-> w.rejected]

\* append_download_event, on one row: an argument left out keeps the column,
\* except for the error, which each event sets.
Appended(row, w) ==
  [claim |-> row.claim, status |-> w.status,
   completion |-> IF w.completion = NoBaseline THEN row.completion ELSE w.completion,
   owned |-> IF w.owned = "keep" THEN row.owned ELSE w.owned = "yes",
   manual |-> row.manual \/ w.manual, rejected |-> w.rejected]

\* The destination index refuses the row the event would leave.
AppendRefused(t, w) ==
  /\ Waiting(Appended(rows[t], w))
  /\ \E u \in DOMAIN rows \ {t} :
       Waiting(rows[u]) /\ Dest(rows[u].claim) = Dest(rows[t].claim)

\* Mutant: only claims are checked for a free destination, not events.
AppendUnchecked(t, w) == rows' = [rows EXCEPT ![t] = Appended(@, w)]

\* The statement takes effect, or raises IntegrityError and changes nothing.
Append(t, w) ==
  rows' = IF AppendRefused(t, w) THEN rows
          ELSE [rows EXCEPT ![t] = Appended(@, w)]

------------------------------------------------------------------------------
(***************************************************************************)
(* DownloadService.submit_candidate, retry and manual_complete.            *)
(***************************************************************************)

Idle == [pc |-> "idle"]
JobStates ==
  {Idle}
  \union [pc : {"claim"}, claim : Claims]
  \union [pc : {"ensure"}, task : Tasks]
  \union [pc : {"add"}, task : Tasks, baseline : Snapshots]
  \union [pc : {"record"}, task : Tasks, write : Writes]

Goto(j, state) == job' = [job EXCEPT ![j] = state]
Record(j, t, w) == Goto(j, [pc |-> "record", task |-> t, write |-> w])

\* A run, or a user for a new magnet, submits at generation 0.
SubmitNew(j) ==
  /\ job[j] = Idle
  /\ \E t \in Tasks, c \in Contents, k \in Candidates, p \in Profiles :
       /\ Insert(t, [content |-> c, candidate |-> k, profile |-> p,
                     generation |-> 0, supersedes |-> NoTask])
       /\ Goto(j, [pc |-> "ensure", task |-> t])
  /\ UNCHANGED <<overdue, poll, queue, external, faults>>

\* The next generation of a claim is read...
ClaimNext(j, t, content, candidate, profile) ==
  /\ job[j] = Idle
  /\ \E g \in 1..MaxGeneration :
       /\ IsNextGeneration(g, content, candidate)
       /\ Goto(j, [pc |-> "claim",
                   claim |-> [content |-> content, candidate |-> candidate,
                              profile |-> profile, generation |-> g,
                              supersedes |-> t]])
  /\ UNCHANGED <<database, poll, queue, external, faults>>

\* ...by retry, for a task the user has chosen (and confirmed, unless it failed),
Retry(j) ==
  \E t \in DOMAIN rows :
    LET c == rows[t].claim IN ClaimNext(j, t, c.content, c.candidate, c.profile)

\* by submit_magnet, when the user forces a BTIH that has tasks, over the
\* latest of them; which one that is stays open here,
ForceMagnet(j) ==
  \E t \in DOMAIN rows, content \in Contents, profile \in Profiles :
    ClaimNext(j, t, content, rows[t].claim.candidate, profile)

\* or by a run that goes over to another candidate of the content: which, and
\* after which answers, is the subject of AutoSubmission.
Fallback(j) ==
  \E t \in DOMAIN rows : \E k \in Candidates \ {rows[t].claim.candidate} :
    ClaimNext(j, t, rows[t].claim.content, k, rows[t].claim.profile)

Resubmit(j) == Retry(j) \/ ForceMagnet(j) \/ Fallback(j)

\* ...and claims it in another transaction, or finds it claimed or its
\* destination busy by then.
ClaimRetry(j) ==
  /\ job[j].pc = "claim"
  /\ \E t \in Tasks :
       Insert(t, job[j].claim) /\ Goto(j, [pc |-> "ensure", task |-> t])
  /\ UNCHANGED <<overdue, poll, queue, external, faults>>

RetryRefused(j) ==
  /\ job[j].pc = "claim"
  /\ Conflict(job[j].claim) \/ Busy(job[j].claim)
  /\ Goto(j, Idle)
  /\ UNCHANGED <<database, poll, queue, external, faults>>

\* ensure_destination and the snapshot that submit takes first: they succeed,
\* or CloudDrive2 answers with an error.
EnsureDestination(j) ==
  /\ job[j].pc = "ensure"
  /\ LET t == job[j].task IN
       \/ Goto(j, [pc |-> "add", task |-> t, baseline |-> disk[Dest(rows[t].claim)]])
       \/ Record(j, t, Write("failed"))
  /\ UNCHANGED <<database, poll, queue, external, faults>>

OfflineStatus ==
  {"none", "inflight", "init", "downloading", "finished", "error", "again"}

\* What AddOfflineFiles starts at a destination: a task it already holds stays
\* as it is, unless it failed.
Started(d) ==
  [offline EXCEPT ![d] = IF @ \in {"none", "inflight", "error", "again"} THEN "init" ELSE @]

\* The request is on its way, to an empty destination or to a failed task.
Requested(d) ==
  [offline EXCEPT ![d] = IF @ = "none" THEN "inflight"
                         ELSE IF @ = "error" THEN "again" ELSE @]

Accepted(baseline) ==
  [Write("submitted") EXCEPT !.completion = NewCompletion(baseline)]
ResultUnknown(baseline) ==
  [Write("submitting") EXCEPT !.completion = NewCompletion(baseline)]

\* AddOfflineFiles and the branch its outcome takes in submit_candidate.
AddOffline(j) ==
  /\ job[j].pc = "add"
  /\ LET t == job[j].task
         d == Dest(rows[t].claim)
     IN  \/ /\ offline' = Started(d)
            /\ Record(j, t, Accepted(job[j].baseline))
         \/ \* no answer in time: the request is lost, or still on its way
            /\ offline' \in {offline, Requested(d)}
            /\ Record(j, t, ResultUnknown(job[j].baseline))
         \/ /\ UNCHANGED offline
            /\ \E w \in {[Write("failed") EXCEPT !.rejected = TRUE],
                         Write("failed"), Write("attention_required")} : Record(j, t, w)
  /\ UNCHANGED <<database, poll, queue, disk, faults>>

\* The append that ends submit_candidate, or manual_complete.
RecordResult(j) ==
  /\ job[j].pc = "record"
  /\ Append(job[j].task, job[j].write)
  /\ Goto(j, Idle)
  /\ UNCHANGED <<overdue, poll, queue, external, faults>>

\* manual_complete reads the status and computes the transition; the append
\* comes in a transaction of its own.
ManualComplete(j) ==
  /\ job[j] = Idle
  /\ Cardinality({t \in DOMAIN rows : rows[t].manual}) < MaxManual
  /\ \E t \in DOMAIN rows :
       /\ Legal(rows[t].status, "completed")
       /\ Record(j, t, [Write("completed") EXCEPT !.manual = TRUE])
  /\ UNCHANGED <<database, poll, queue, external, faults>>

\* A locked database, a lost race for the event's sequence number or a closed
\* channel raises through the job, which records nothing.
JobFails(j) ==
  /\ job[j] # Idle
  /\ faults < MaxFaults
  /\ faults' = faults + 1
  /\ Goto(j, Idle)
  /\ UNCHANGED <<database, poll, queue, external>>

------------------------------------------------------------------------------
(***************************************************************************)
(* DownloadPoller.poll_once and DownloadService.poll.                      *)
(***************************************************************************)

\* What poll keeps of the task it has read.
Reads == [status : Status, completion : Baselines]
PollStates ==
  {Idle}
  \union [pc : {"signal", "snapshot"}, task : Tasks, read : Reads, late : BOOLEAN]
  \union [pc : {"write"}, task : Tasks, write : Writes, repeats : BOOLEAN]

PollEnds == poll' = Idle
PollWrites(w, repeats) ==
  poll' = [pc |-> "write", task |-> poll.task, write |-> w, repeats |-> repeats]

\* list_unfinished_download_task_ids
PollCycle ==
  /\ poll = Idle /\ queue = {}
  /\ queue' = {t \in DOMAIN rows : rows[t].status \in Unfinished}
  /\ UNCHANGED <<database, job, poll, external, faults>>

PollRead(t) ==
  /\ poll = Idle /\ t \in queue
  /\ queue' = queue \ {t}
  /\ IF rows[t].status \in Terminal THEN UNCHANGED poll
     ELSE poll' = [pc |-> "signal", task |-> t, late |-> t \in overdue,
                   read |-> [status |-> rows[t].status,
                             completion |-> rows[t].completion]]
  /\ UNCHANGED <<database, job, external, faults>>

\* get_task_signal: the offline task of this BTIH and destination, or UNKNOWN
\* when the list times out or does not hold it.
Signals(d) ==
  {"unknown"}
  \union ({offline[d]} \intersect {"init", "downloading", "finished", "error"})
  \union {s \in {"error"} : offline[d] = "again"}

\* Mutant: INIT always means that the submission was accepted.
InitMeansSubmitted(signal, current) ==
  CASE signal = "finished" -> [Write("completed") EXCEPT !.owned = "yes"]
    [] signal = "error" -> Write("failed")
    [] signal = "downloading" -> [Write("downloading") EXCEPT !.owned = "yes"]
    [] signal = "init" -> [Write("submitted") EXCEPT !.owned = "yes"]

\* The event of a signal that is evidence by itself.
SignalWrite(signal, current) ==
  CASE signal = "finished" -> [Write("completed") EXCEPT !.owned = "yes"]
    [] signal = "error" -> Write("failed")
    [] signal = "downloading" -> [Write("downloading") EXCEPT !.owned = "yes"]
    [] signal = "init" ->
         [Write(IF current = "submitting" THEN "submitted" ELSE current)
            EXCEPT !.owned = "yes"]

\* The event when there is none: an error, or no baseline to compare with.
SilentWrite == Write(WithoutEvidence(poll.read.status, poll.late))

PollSignal ==
  /\ poll.pc = "signal"
  /\ \/ \* CloudDriveError
        PollWrites(SilentWrite, FALSE)
     \/ \E s \in Signals(Dest(rows[poll.task].claim)) \ {"unknown"} :
          PollWrites(SignalWrite(s, poll.read.status), FALSE)
     \/ IF poll.read.completion = NoBaseline THEN PollWrites(SilentWrite, FALSE)
        ELSE poll' = [poll EXCEPT !.pc = "snapshot"]
  /\ UNCHANGED <<database, job, queue, external, faults>>

\* The event of an observation (observe_completion).
ObservationWrite(read, snapshot, late) ==
  LET after == Observe(read.completion, snapshot)
      status == IF Completed(read.completion, snapshot) THEN "completed"
                ELSE IF HasProgress(read.completion, snapshot) THEN "downloading"
                ELSE WithoutEvidence(read.status, late)
  IN  [Write(status) EXCEPT !.completion = after,
                            !.owned = IF after.owned # {} THEN "yes" ELSE "no"]

PollSnapshot ==
  /\ poll.pc = "snapshot"
  /\ LET snapshot == disk[Dest(rows[poll.task].claim)]
         w == ObservationWrite(poll.read, snapshot, poll.late)
     IN  \/ PollWrites(SilentWrite, FALSE)
         \/ PollWrites(w, /\ ~HasProgress(poll.read.completion, snapshot)
                          /\ w.completion = poll.read.completion)
  /\ UNCHANGED <<database, job, queue, external, faults>>

\* An observation without progress is not recorded when the latest event of
\* the task says the same; that event has the status of the row.
PollSkips ==
  /\ poll.pc = "write" /\ poll.repeats
  /\ rows[poll.task].status = poll.write.status
  /\ PollEnds
  /\ UNCHANGED <<database, job, queue, external, faults>>

PollWrite ==
  /\ poll.pc = "write"
  /\ Append(poll.task, poll.write)
  /\ PollEnds
  /\ UNCHANGED <<overdue, job, queue, external, faults>>

\* poll_once isolates any other exception: the task waits for the next cycle.
PollFails ==
  /\ poll # Idle
  /\ faults < MaxFaults
  /\ faults' = faults + 1
  /\ PollEnds
  /\ UNCHANGED <<database, job, queue, external>>

------------------------------------------------------------------------------
(***************************************************************************)
(* The environment: time, crashes and CloudDrive2.                         *)
(***************************************************************************)

DeadlinePasses(t) ==
  /\ t \in DOMAIN rows \ overdue
  /\ overdue' = overdue \union {t}
  /\ UNCHANGED <<rows, job, poll, queue, external, faults>>

\* Mutant: the restart cleans up submissions that recorded no baseline.
CrashForgets ==
  /\ faults < MaxFaults
  /\ faults' = faults + 1
  /\ rows' = [t \in {u \in DOMAIN rows : rows[u].completion # NoBaseline} |-> rows[t]]
  /\ overdue' = overdue \intersect DOMAIN rows'
  /\ job' = [j \in Jobs |-> Idle]
  /\ poll' = Idle /\ queue' = {}
  /\ UNCHANGED external

\* The process dies and starts again: only the tables and CloudDrive2 stay.
Crash ==
  /\ faults < MaxFaults
  /\ faults' = faults + 1
  /\ job' = [j \in Jobs |-> Idle]
  /\ poll' = Idle /\ queue' = {}
  /\ UNCHANGED <<database, external>>

OfflineNext ==
  [ none        |-> {},
    inflight    |-> {"none", "init"},
    init        |-> {"downloading", "error"},
    downloading |-> {"finished", "error"},
    finished    |-> {},
    error       |-> {},
    again       |-> {"error", "init"} ]

OfflineProgress(d) ==
  /\ \E s \in OfflineNext[offline[d]] : offline' = [offline EXCEPT ![d] = s]
  /\ UNCHANGED <<database, job, poll, queue, disk, faults>>

\* A download creates its files and lets them grow.
FileGrows(d) ==
  /\ offline[d] = "downloading"
  /\ \E f \in Files, size \in Sizes :
       /\ f \in DOMAIN disk[d] => size > disk[d][f]
       /\ disk' = [disk EXCEPT ![d] = [g \in DOMAIN @ \union {f} |->
                                         IF g = f THEN size ELSE @[g]]]
  /\ UNCHANGED <<database, job, poll, queue, offline, faults>>

------------------------------------------------------------------------------
Init ==
  /\ rows = [t \in {} |-> Idle] /\ overdue = {}
  /\ job = [j \in Jobs |-> Idle]
  /\ poll = Idle /\ queue = {}
  /\ offline = [d \in Destinations |-> "none"]
  /\ disk = [d \in Destinations |-> NoFiles]
  /\ faults = 0

JobStep(j) ==
  \/ SubmitNew(j) \/ Resubmit(j) \/ ClaimRetry(j) \/ RetryRefused(j)
  \/ EnsureDestination(j) \/ AddOffline(j) \/ RecordResult(j)
  \/ ManualComplete(j) \/ JobFails(j)

PollStep ==
  \/ PollCycle \/ (\E t \in Tasks : PollRead(t))
  \/ PollSignal \/ PollSnapshot \/ PollSkips \/ PollWrite

Environment ==
  \/ Crash
  \/ \E t \in Tasks : DeadlinePasses(t)
  \/ \E d \in Destinations : OfflineProgress(d) \/ FileGrows(d)

Next == (\E j \in Jobs : JobStep(j)) \/ PollStep \/ PollFails \/ Environment

Spec == Init /\ [][Next]_vars

\* The scheduler keeps polling (sync) and the clock keeps running.
FairSpec ==
  /\ Spec
  /\ WF_vars(PollStep)
  /\ \A t \in Tasks : WF_vars(DeadlinePasses(t))

------------------------------------------------------------------------------
(***************************************************************************)
(* Properties.                                                             *)
(***************************************************************************)

Ledger == INSTANCE DownloadLedger WITH
  Task <- Tasks, Claim <- Claims, Same <- SameClaim, Destination <- Dest,
  claims <- [t \in DOMAIN rows |-> rows[t].claim],
  waiting <- {t \in DOMAIN rows : Waiting(rows[t])}

\* The table implements the ledger, whatever threads, crashes and late events do
\* to its rows.
ImplementsLedger == Ledger!Spec

RowsOK ==
  /\ DOMAIN rows \subseteq Tasks /\ rows \in [DOMAIN rows -> Rows]
  /\ overdue \subseteq DOMAIN rows

JobsOK ==
  /\ job \in [Jobs -> JobStates]
  /\ \A j \in Jobs : job[j].pc \in {"ensure", "add", "record"} =>
                       job[j].task \in DOMAIN rows

PollOK ==
  /\ poll \in PollStates /\ (poll # Idle => poll.task \in DOMAIN rows)
  /\ queue \subseteq DOMAIN rows

ExternalOK ==
  /\ offline \in [Destinations -> OfflineStatus]
  /\ disk \in [Destinations -> Snapshots]

\* Every variable has its type, and the threads only hold tasks of the table.
TypeOK == RowsOK /\ JobsOK /\ PollOK /\ ExternalOK /\ faults \in 0..MaxFaults

\* At most one task per content, and one per BTIH, at each generation: what
\* claim_download's check and unique constraints make of concurrent claims.
UniqueClaims ==
  \A t, u \in DOMAIN rows : t # u => ~SameClaim(rows[t].claim, rows[u].claim)

\* Two tasks whose files cannot be told apart never wait for one destination:
\* the partial index holds through claims, events and lost ownership.
OneWaitingTaskPerDestination ==
  \A t, u \in DOMAIN rows :
    /\ Waiting(rows[t]) /\ Waiting(rows[u])
    /\ Dest(rows[t].claim) = Dest(rows[u].claim)
    => t = u

\* CloudDrive2 never holds a task that the database does not know, whenever
\* the process dies and whatever answer is lost.
ClaimPrecedesSubmission ==
  \A d \in Destinations :
    offline[d] # "none" => \E t \in DOMAIN rows : Dest(rows[t].claim) = d

\* A task is completed by a person, by a task API that says finished, or by
\* enough equal observations, also when threads overwrite each other's status.
CompletionHasEvidence ==
  \A t \in DOMAIN rows :
    rows[t].status = "completed" =>
      \/ rows[t].manual
      \/ offline[Dest(rows[t].claim)] = "finished"
      \/ /\ rows[t].completion # NoBaseline
         /\ rows[t].completion.stable >= Required

\* The poller's own computations never raise InvalidStatusTransition.
PollTargetsAreLegal ==
  poll.pc \in {"signal", "snapshot"} =>
    /\ \A s \in Signals(Dest(rows[poll.task].claim)) \ {"unknown"} :
         Legal(poll.read.status, SignalWrite(s, poll.read.status).status)
    /\ Legal(poll.read.status, SilentWrite.status)
    /\ poll.pc = "snapshot" =>
         Legal(poll.read.status,
               ObservationWrite(poll.read, disk[Dest(rows[poll.task].claim)],
                                poll.late).status)

\* A task that replaces another has a later generation: the last task of a BTIH
\* or a content is the one with the greatest, also when other threads claimed
\* between the reading of the generation and its claim.
LineageGrows ==
  \A t \in DOMAIN rows :
    rows[t].claim.supersedes # NoTask =>
      /\ rows[t].claim.supersedes \in DOMAIN rows
      /\ rows[rows[t].claim.supersedes].claim.generation < rows[t].claim.generation

\* Once a task has a baseline, no event of another thread removes it, replaces
\* it or gives the task other owned entries: file evidence is never restarted.
BaselineIsPermanent ==
  [][\A t \in DOMAIN rows :
       rows[t].completion # NoBaseline =>
         /\ rows'[t].completion # NoBaseline
         /\ rows'[t].completion.baseline = rows[t].completion.baseline
         /\ rows[t].completion.owned # {} =>
              rows'[t].completion.owned = rows[t].completion.owned]_vars

\* An ended task stays as it ended (_ALLOWED has no way out of it).
TerminalIsFinal ==
  [][\A t \in DOMAIN rows :
       rows[t].status \in Terminal => rows'[t].status = rows[t].status]_vars

\* The task has ended or asks for attention, or CloudDrive2 itself reports its
\* download in progress.
Settled(t) ==
  t \in DOMAIN rows =>
    \/ rows[t].status \in Terminal \union {"attention_required"}
    \/ offline[Dest(rows[t].claim)] \in {"init", "downloading"}

\* Every task settles, whatever signals, snapshots and answers are lost.
Settles == \A t \in Tasks : t \in DOMAIN rows ~> Settled(t)
==============================================================================
