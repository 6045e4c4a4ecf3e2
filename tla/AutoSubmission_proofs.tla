------------------------- MODULE AutoSubmission_proofs -------------------------
(***************************************************************************)
(* Proofs about AutoSubmission: it keeps to the specification of the       *)
(* service that it uses, so that what DownloadService_proofs shows of the  *)
(* service holds for runs; and its loop stays in bounds.                   *)
(***************************************************************************)
EXTENDS AutoSubmission, DownloadService_proofs

------------------------------------------------------------------------------
(***************************************************************************)
(* Refinement.                                                             *)
(***************************************************************************)

\* The first claim of an item is a first claim of DownloadService.
LEMMA FirstClaimIsNew ==
  ASSUME ItemsOK, NEW r \in Runners, ClaimsFirst(r)
  PROVE  SubmitNew(r)
<1>1. ItemOf(r) \in ItemRows
  BY DEF ItemsOK, ItemOf, ClaimsFirst, Resting
<1>2. Order(r)[1] \in Candidates
  BY <1>1, RankedAssumption DEF Order, ItemRows
<1> QED BY <1>1, <1>2 DEF ClaimsFirst, FirstClaim, SubmitNew, ItemRows, external

\* Each step of a thread, or of anything else, is a step of DownloadService or
\* leaves its variables alone.
LEMMA AutoStepRefines ==
  ASSUME ItemsOK, [AutoNext]_autoVars
  PROVE  [Next]_vars
<1>1. ASSUME NEW r \in Runners, ItemStep(r)
      PROVE  [Next]_vars
  <2> r \in Jobs
    BY RunnersAssumption
  <2>1. CASE ClaimsFirst(r)
    BY <2>1, FirstClaimIsNew DEF Next, JobStep
  <2>2. CASE ClaimsNext(r) \/ NextRefused(r) \/ FallsBack(r)
    BY <2>2 DEF ClaimsNext, NextRefused, FallsBack, Next, JobStep, Resubmit
  <2>3. CASE \/ ItemBegins(r) \/ FirstRefused(r) \/ ReadsTask(r) \/ FindsConflict(r)
             \/ ReportsStatus(r) \/ ItemFails(r)
    BY <2>3 DEF ItemBegins, FirstRefused, ReadsTask, FindsConflict, ReportsStatus,
                ItemFails
  <2> QED BY <1>1, <2>1, <2>2, <2>3 DEF ItemStep
<1>2. ASSUME NEW j \in Jobs, ServiceStep(j)
      PROVE  [Next]_vars
  <2>1. EnsureDestination(j) \/ AddOffline(j) \/ RecordResult(j) \/ JobFails(j)
    BY <1>2 DEF ServiceStep, SubmitGoesOn, SubmitEnds, ServiceFails
  <2> QED BY <2>1 DEF Next, JobStep
<1>3. ASSUME NEW j \in Jobs \ Runners, UserActs(j)
      PROVE  [Next]_vars
  BY <1>3 DEF UserActs, Next, JobStep, Resubmit
<1>4. CASE Restart \/ Elsewhere
  BY <1>4 DEF Restart, Elsewhere, Next, Environment
<1>5. CASE UNCHANGED autoVars
  BY <1>5 DEF autoVars, vars
<1> QED BY <1>1, <1>2, <1>3, <1>4, <1>5 DEF AutoNext

------------------------------------------------------------------------------
(***************************************************************************)
(* Types.  Those of the service come with its steps; the items need that   *)
(* its rows are never deleted.                                             *)
(***************************************************************************)

\* Before the first item there is nothing a runner could hold wrongly.
LEMMA AutoInitTyped == AutoInit => ItemsOK
BY DEF AutoInit, ItemsOK, Works, Resting

\* No step of the service takes a row away.
LEMMA RowsStay ==
  ASSUME Typed, [Next]_vars
  PROVE  DOMAIN rows \subseteq DOMAIN rows'
<1>1. ASSUME NEW t \in Tasks, NEW c, Insert(t, c)
      PROVE  DOMAIN rows \subseteq DOMAIN rows'
  BY <1>1 DEF Insert
<1>2. ASSUME NEW t, NEW w, Append(t, w)
      PROVE  DOMAIN rows \subseteq DOMAIN rows'
  BY <1>2 DEF Append
<1>3. ASSUME NEW j \in Jobs, JobStep(j)
      PROVE  DOMAIN rows \subseteq DOMAIN rows'
  <2>1. CASE SubmitNew(j) \/ ClaimRetry(j)
    BY <1>1, <2>1 DEF SubmitNew, ClaimRetry
  <2>2. CASE RecordResult(j)
    BY <1>2, <2>2 DEF RecordResult
  <2>3. CASE \/ Resubmit(j) \/ RetryRefused(j) \/ EnsureDestination(j)
             \/ AddOffline(j) \/ ManualComplete(j) \/ JobFails(j)
    BY <2>3, ResubmitReads DEF RetryRefused, EnsureDestination, AddOffline,
                               ManualComplete, JobFails, database
  <2> QED BY <1>3, <2>1, <2>2, <2>3 DEF JobStep
<1>4. CASE PollStep \/ PollFails
  BY <1>2, <1>4 DEF PollStep, PollCycle, PollRead, PollSignal, PollSnapshot, PollSkips,
                    PollWrite, PollFails, database
<1>5. CASE Environment \/ UNCHANGED vars
  BY <1>5 DEF Environment, Crash, DeadlinePasses, OfflineProgress, FileGrows, database, vars
<1> QED BY <1>3, <1>4, <1>5 DEF Next

\* A runner turns to a station of its own; the rows it knows are still there.
LEMMA TurnTyped ==
  ASSUME ItemsOK, NEW r \in Runners, NEW state \in Works, Turns(r, state),
         items' \in [DOMAIN items' -> ItemRows], DOMAIN items' \subseteq Items,
         DOMAIN items \subseteq DOMAIN items', DOMAIN rows \subseteq DOMAIN rows',
         \A i \in DOMAIN items : items'[i].content = items[i].content,
         state # Resting => state.item \in DOMAIN items',
         state.pc \in {"claim", "read", "next"} =>
           state.index \in DOMAIN Ranked[items'[state.item].content],
         state.pc \in {"read", "next"} => state.task \in DOMAIN rows'
  PROVE  ItemsOK'
<1>1. work' \in [Runners -> Works]
  BY DEF ItemsOK, Turns
<1>2. ASSUME NEW q \in Runners
      PROVE  /\ work'[q] # Resting => work'[q].item \in DOMAIN items'
             /\ work'[q].pc \in {"claim", "read", "next"} =>
                  work'[q].index \in DOMAIN Ranked[items'[work'[q].item].content]
             /\ work'[q].pc \in {"read", "next"} => work'[q].task \in DOMAIN rows'
  <2>1. CASE q = r
    BY <2>1 DEF ItemsOK, Turns
  <2>2. CASE q # r
    <3>1. work'[q] = work[q]
      BY <2>2 DEF ItemsOK, Turns
    <3> QED BY <3>1 DEF ItemsOK, Order, ItemOf, Resting
  <2> QED BY <2>1, <2>2
<1> QED BY <1>1, <1>2 DEF ItemsOK, Order, ItemOf

\* Where the thread stands and what it holds there.
LEMMA WorkFields ==
  ASSUME ItemsOK, NEW r \in Runners
  PROVE  /\ work[r].pc = "resting" <=> work[r] = Resting
         /\ work[r] # Resting => /\ work[r].item \in DOMAIN items
                                /\ work[r].item \in Items
                                /\ ItemOf(r) \in ItemRows
         /\ work[r].pc \in {"claim", "read", "next"} =>
              /\ work[r] \in [pc : {"claim", "read", "next"}, item : Items, index : Nat,
                              task : Tasks \union {NoTask}]
              /\ work[r].index \in DOMAIN Order(r) /\ Order(r)[work[r].index] \in Candidates
         /\ work[r].pc \in {"read", "next"} => work[r].task \in DOMAIN rows
         /\ work[r].pc = "report" => /\ work[r].status \in Outcomes
                                    /\ work[r].duplicate \in Tasks \union {NoTask}
<1>1. work[r] \in Works /\ (work[r] # Resting => work[r].item \in DOMAIN items)
  BY DEF ItemsOK
<1>2. work[r] # Resting => ItemOf(r) \in ItemRows /\ work[r].item \in Items
  BY <1>1 DEF ItemsOK, ItemOf
<1>3. work[r].pc = "resting" <=> work[r] = Resting
  BY <1>1 DEF Works, Resting
<1>4. work[r].pc \in {"claim", "read", "next"} =>
        work[r] \in [pc : {"claim", "read", "next"}, item : Items, index : Nat,
                    task : Tasks \union {NoTask}]
  BY <1>1 DEF Works, Resting
<1>5. work[r].pc \in {"claim", "read", "next"} =>
        work[r].index \in DOMAIN Order(r) /\ Order(r)[work[r].index] \in Candidates
  BY <1>2, <1>3, RankedAssumption DEF ItemsOK, Order, ItemRows
<1>6. work[r].pc = "report" => /\ work[r].status \in Outcomes
                              /\ work[r].duplicate \in Tasks \union {NoTask}
  BY <1>1 DEF Works, Resting
<1> QED BY <1>1, <1>2, <1>3, <1>4, <1>5, <1>6 DEF ItemsOK

\* A runner that turns to its report keeps the types.
LEMMA ReportTyped ==
  ASSUME ItemsOK, NEW r \in Runners, work[r] # Resting, UNCHANGED items,
         DOMAIN rows \subseteq DOMAIN rows',
         NEW status \in Outcomes, NEW d \in Tasks \union {NoTask}, Reports(r, status, d)
  PROVE  ItemsOK'
<1> DEFINE state == [pc |-> "report", item |-> work[r].item, status |-> status,
                     duplicate |-> d]
<1>1. state \in Works /\ state # Resting
  BY WorkFields DEF Works, Resting
<1>2. Turns(r, state) /\ state.item \in DOMAIN items /\ state.pc = "report"
  BY WorkFields DEF Reports
<1> HIDE DEF state
<1> QED BY <1>1, <1>2, TurnTyped DEF ItemsOK

\* So does one whose claim was refused,
LEMMA RefusedTyped ==
  ASSUME ItemsOK, NEW r \in Runners, work[r] # Resting, UNCHANGED items,
         DOMAIN rows \subseteq DOMAIN rows', NEW claim \in Claims, Refused(r, claim)
  PROVE  ItemsOK'
<1>1. CASE Reports(r, "submit_failed", NoTask)
  BY <1>1, ReportTyped DEF Outcomes
<1>2. CASE Turns(r, [pc |-> "conflict", item |-> work[r].item,
                     candidate |-> claim.candidate])
  <2> DEFINE state == [pc |-> "conflict", item |-> work[r].item,
                       candidate |-> claim.candidate]
  <2>1. state \in Works /\ state # Resting /\ state.pc = "conflict"
    BY WorkFields DEF Works, Resting, Claims
  <2>2. state.item \in DOMAIN items
    BY WorkFields
  <2> HIDE DEF state
  <2> QED BY <1>2, <2>1, <2>2, TurnTyped DEF ItemsOK, state
<1> QED BY <1>1, <1>2 DEF Refused

\* and one that gives up its item.
LEMMA RestTyped ==
  ASSUME ItemsOK, NEW r \in Runners, UNCHANGED items, DOMAIN rows \subseteq DOMAIN rows',
         Turns(r, Resting)
  PROVE  ItemsOK'
<1>1. Resting \in Works /\ Resting.pc = "resting"
  BY DEF Works, Resting
<1> QED BY <1>1, TurnTyped DEF ItemsOK

\* A runner that goes on with its item, at the same or the next candidate.
LEMMA GoesOnTyped ==
  ASSUME ItemsOK, NEW r \in Runners, UNCHANGED items, DOMAIN rows \subseteq DOMAIN rows',
         work[r].pc \in {"claim", "read", "next"},
         NEW pc \in {"claim", "read", "next"}, NEW index \in DOMAIN Order(r),
         NEW t \in Tasks \union {NoTask}, pc \in {"read", "next"} => t \in DOMAIN rows',
         GoesOn(r, pc, index, t)
  PROVE  ItemsOK'
<1> DEFINE state == [pc |-> pc, item |-> work[r].item, index |-> index, task |-> t]
<1>1. work[r] # Resting
  BY DEF Resting
<1>2. index \in Nat
  BY <1>1, WorkFields, RankedAssumption DEF Order, ItemRows
<1>3. state \in Works /\ state # Resting
  BY <1>1, <1>2, WorkFields DEF Works, Resting
<1>4. /\ state.item \in DOMAIN items /\ state.pc = pc /\ state.task = t
      /\ state.index \in DOMAIN Ranked[items[state.item].content]
  BY <1>1, WorkFields DEF Order, ItemOf
<1> HIDE DEF state
<1>5. Turns(r, state)
  BY DEF state, GoesOn
<1> QED BY <1>3, <1>4, <1>5, TurnTyped DEF ItemsOK

\* The first claim of an item is a claim.
LEMMA FirstClaimType ==
  ASSUME ItemsOK, NEW r \in Runners, work[r] # Resting
  PROVE  FirstClaim(r) \in Claims
<1>1. ItemOf(r) \in ItemRows
  BY WorkFields
<1>2. Order(r)[1] \in Candidates
  BY <1>1, RankedAssumption DEF Order, ItemRows
<1> QED BY <1>1, <1>2, BoundsAssumption DEF FirstClaim, Claims, ItemRows

\* Each step of an item keeps the types, the bounds of the loop included.
LEMMA ItemStepTyped ==
  ASSUME Typed, ItemsOK, NEW r \in Runners, ItemStep(r)
  PROVE  ItemsOK'
<1> r \in Jobs
  BY RunnersAssumption
<1>0. DOMAIN rows \subseteq DOMAIN rows'
  <2>1. [AutoNext]_autoVars
    BY DEF AutoNext
  <2> QED BY <2>1, AutoStepRefines, RowsStay
<1>1. CASE ItemBegins(r)
  <2>1. PICK i \in Items \ DOMAIN items, c \in Contents, p \in Profiles :
          /\ items' = [h \in DOMAIN items \union {i} |->
                         IF h = i THEN [content |-> c, profile |-> p, status |-> "selected",
                                        duplicate |-> NoTask]
                         ELSE items[h]]
          /\ Turns(r, [pc |-> "claim", item |-> i, index |-> 1, task |-> NoTask])
    BY <1>1 DEF ItemBegins
  <2> DEFINE state == [pc |-> "claim", item |-> i, index |-> 1, task |-> NoTask]
  <2>2. state \in Works
    BY DEF Works
  <2>3. DOMAIN items' = DOMAIN items \union {i} /\ items'[i].content = c
    BY <2>1
  <2>4. items' \in [DOMAIN items' -> ItemRows] /\ DOMAIN items' \subseteq Items
    BY <2>1 DEF ItemsOK, ItemRows
  <2>5. \A h \in DOMAIN items : items'[h].content = items[h].content
    BY <2>1
  <2>6. 1 \in DOMAIN Ranked[c]
    BY RankedAssumption
  <2>7. state.item = i /\ state.pc = "claim" /\ state.index = 1
    OBVIOUS
  <2>8. Turns(r, state)
    BY <2>1
  <2> HIDE DEF state
  <2> QED BY <1>0, <2>2, <2>3, <2>4, <2>5, <2>6, <2>7, <2>8, TurnTyped
<1>2. CASE ClaimsFirst(r)
  <2>1. PICK t \in Tasks : Insert(t, FirstClaim(r)) /\ GoesOn(r, "read", work[r].index, t)
    BY <1>2 DEF ClaimsFirst
  <2>2. t \in DOMAIN rows'
    BY <2>1 DEF Insert
  <2>3. work[r].pc = "claim" /\ work[r].index \in DOMAIN Order(r) /\ UNCHANGED items
    BY <1>2, WorkFields DEF ClaimsFirst
  <2> QED BY <1>0, <2>1, <2>2, <2>3, GoesOnTyped
<1>3. CASE FirstRefused(r)
  <2>1. work[r] # Resting
    BY <1>3 DEF FirstRefused, Resting
  <2> QED BY <1>0, <1>3, <2>1, FirstClaimType, RefusedTyped DEF FirstRefused
<1>4. CASE ClaimsNext(r)
  <2>1. PICK t \in Tasks : /\ Insert(t, job[r].claim)
                           /\ Goto(r, [pc |-> "ensure", task |-> t])
    BY <1>4 DEF ClaimsNext, ClaimRetry
  <2>2. t \in DOMAIN rows' /\ job'[r].task = t
    BY <2>1 DEF Insert, Goto, Typed, TypeOK, JobsOK
  <2>3. work[r].pc = "claim" /\ work[r].index \in DOMAIN Order(r) /\ UNCHANGED items
    BY <1>4, WorkFields DEF ClaimsNext
  <2>4. GoesOn(r, "read", work[r].index, t)
    BY <1>4, <2>2 DEF ClaimsNext
  <2> QED BY <1>0, <2>2, <2>3, <2>4, GoesOnTyped
<1>5. CASE NextRefused(r)
  <2>1. work[r] # Resting
    BY <1>5 DEF NextRefused, Resting
  <2>2. job[r].claim \in Claims
    BY <1>5, JobFields DEF NextRefused, RetryRefused, Typed, TypeOK
  <2> QED BY <1>0, <1>5, <2>1, <2>2, RefusedTyped DEF NextRefused
<1>6. CASE ReadsTask(r)
  <2>1. work[r].pc = "read" /\ work[r].task \in DOMAIN rows /\ work[r] # Resting
    BY <1>6, WorkFields DEF ReadsTask, Resting
  <2>2. CASE Reports(r, Outcome(rows[work[r].task]), NoTask)
    <3>1. Outcome(rows[work[r].task]) \in Outcomes
      BY DEF Outcome, Outcomes
    <3> QED BY <1>0, <1>6, <2>1, <2>2, <3>1, ReportTyped DEF ReadsTask
  <2>3. CASE /\ work[r].index + 1 \in DOMAIN Order(r)
             /\ GoesOn(r, "next", work[r].index + 1, work[r].task)
    <3>1. work[r].task \in Tasks \union {NoTask} /\ work[r].task \in DOMAIN rows'
      BY <1>0, <2>1, WorkFields
    <3> QED BY <1>0, <1>6, <2>1, <2>3, <3>1, GoesOnTyped DEF ReadsTask
  <2> QED BY <1>6, <2>2, <2>3 DEF ReadsTask
<1>7. CASE FallsBack(r)
  <2>1. /\ work[r].pc = "next" /\ work[r].index \in DOMAIN Order(r)
        /\ work[r].task \in Tasks \union {NoTask} /\ UNCHANGED items
    BY <1>7, WorkFields DEF FallsBack
  <2>2. GoesOn(r, "claim", work[r].index, work[r].task)
    BY <1>7 DEF FallsBack
  <2> QED BY <1>0, <2>1, <2>2, GoesOnTyped
<1>8. CASE FindsConflict(r)
  <2>1. PICK d \in DOMAIN rows \union {NoTask} : Reports(r, "deduplicated", d)
    BY <1>8 DEF FindsConflict
  <2>2. d \in Tasks \union {NoTask} /\ work[r] # Resting
    BY <1>8 DEF FindsConflict, Resting, Typed, TypeOK, RowsOK
  <2>3. "deduplicated" \in Outcomes
    BY DEF Outcomes
  <2> QED BY <1>0, <1>8, <2>1, <2>2, <2>3, ReportTyped DEF FindsConflict
<1>9. CASE ReportsStatus(r)
  <2> DEFINE i == work[r].item
             duplicate == IF work[r].duplicate = NoTask THEN items[i].duplicate
                          ELSE work[r].duplicate
  <2>1. /\ work[r] # Resting /\ i \in DOMAIN items
        /\ work[r].status \in Outcomes /\ work[r].duplicate \in Tasks \union {NoTask}
    BY <1>9, WorkFields DEF ReportsStatus, Resting
  <2>2. items[i] \in ItemRows /\ items \in [DOMAIN items -> ItemRows]
    BY <2>1 DEF ItemsOK
  <2>3. items' = [items EXCEPT ![i] = [@ EXCEPT !.status = work[r].status,
                                                !.duplicate = duplicate]]
    BY <1>9, <2>1, <2>2 DEF ReportsStatus, ItemRows
  <2>5. [items[i] EXCEPT !.status = work[r].status, !.duplicate = duplicate] \in ItemRows
    BY <2>1, <2>2 DEF ItemRows
  <2> HIDE DEF i, duplicate
  <2>6. /\ DOMAIN items' = DOMAIN items /\ items' \in [DOMAIN items' -> ItemRows]
        /\ \A h \in DOMAIN items : items'[h].content = items[h].content
    BY <2>1, <2>2, <2>3, <2>5 DEF ItemRows
  <2>4. Resting \in Works /\ Resting.pc = "resting"
    BY DEF Works, Resting
  <2> QED BY <1>0, <1>9, <2>4, <2>6, TurnTyped DEF ReportsStatus, ItemsOK
<1>10. CASE ItemFails(r)
  BY <1>0, <1>10, RestTyped DEF ItemFails
<1> QED BY <1>1, <1>2, <1>3, <1>4, <1>5, <1>6, <1>7, <1>8, <1>9, <1>10 DEF ItemStep

\* So does every other step.
LEMMA AutoNextTyped == Typed /\ ItemsOK /\ [AutoNext]_autoVars => ItemsOK'
<1> SUFFICES ASSUME Typed, ItemsOK, [AutoNext]_autoVars PROVE ItemsOK'
  OBVIOUS
<1>0. DOMAIN rows \subseteq DOMAIN rows'
  BY AutoStepRefines, RowsStay
<1>1. CASE UNCHANGED <<items, work>>
  BY <1>0, <1>1 DEF ItemsOK, Order, ItemOf
<1>2. ASSUME NEW j \in Jobs, ServiceStep(j)
      PROVE  ItemsOK'
  BY <1>0, <1>1, <1>2, RestTyped DEF ServiceStep, SubmitGoesOn, SubmitEnds, ServiceFails
<1>3. CASE Restart
  BY <1>3 DEF Restart, ItemsOK, Works, Resting, Order, ItemOf
<1> QED BY <1>1, <1>2, <1>3, ItemStepTyped DEF AutoNext, UserActs, Elsewhere, autoVars

\* A run uses the service as the service is specified: AutoSubmission implements
\* DownloadService.
THEOREM ServiceImplemented == AutoSpec => Spec
<1>1. AutoInit => Init /\ ItemsOK
  BY AutoInitTyped DEF AutoInit
<1>2. Typed /\ ItemsOK /\ [AutoNext]_autoVars => Typed' /\ ItemsOK' /\ [Next]_vars
  BY AutoStepRefines, AutoNextTyped, NextTyped
<1> QED BY <1>1, <1>2, InitTyped, PTL DEF AutoSpec, Spec

\* Whatever runs and users do at once, claims stay permanent and exclusive, and a
\* task waits for a destination only if it is free: AutoSubmission implements
\* DownloadLedger too.
COROLLARY LedgerImplementedByRuns == AutoSpec => ImplementsLedger
BY ServiceImplemented, LedgerImplemented

\* Both invariants hold together: each needs the other.
LEMMA AlwaysItems == AutoSpec => [](Typed /\ ItemsOK)
<1>1. AutoInit => Init /\ ItemsOK
  BY AutoInitTyped DEF AutoInit
<1>2. Typed /\ ItemsOK /\ [AutoNext]_autoVars => Typed' /\ ItemsOK'
  BY AutoStepRefines, AutoNextTyped, NextTyped
<1> QED BY <1>1, <1>2, InitTyped, PTL DEF AutoSpec

\* Every variable of a run has its type, for any ranking of candidates, and the
\* loop never leaves the ranking.
THEOREM AutoTypeCorrect == AutoSpec => []AutoTypeOK
<1>1. Typed /\ ItemsOK => AutoTypeOK
  BY DEF Typed, AutoTypeOK
<1> QED BY <1>1, AlwaysItems, PTL

------------------------------------------------------------------------------
(***************************************************************************)
(* What an item reports.  A status that speaks of progress is backed by    *)
(* CloudDrive2 or by a person, in the rows and in all that threads are     *)
(* about to write.                                                         *)
(***************************************************************************)

Progressed == {"submitted", "downloading", "completed"}
Taken(d) == offline[d] \notin {"none", "inflight"}
Backed(t) == Taken(Dest(rows[t].claim)) \/ rows[t].manual

FilesNeedDownload == \A d \in Destinations : DOMAIN disk[d] # {} => Taken(d)
RowsBacked == \A t \in DOMAIN rows : rows[t].status \in Progressed => Backed(t)
JobsBacked ==
  \A j \in Jobs, t \in Tasks :
    job[j].pc = "record" /\ job[j].task = t /\ job[j].write.status \in Progressed =>
      Backed(t) \/ job[j].write.manual
PollBacked ==
  \A t \in Tasks :
    /\ poll.pc \in {"signal", "snapshot"} /\ poll.task = t =>
         (poll.read.status \in Progressed => Backed(t))
    /\ poll.pc = "write" /\ poll.task = t =>
         (poll.write.status \in Progressed => Backed(t))

BackedInv == FilesNeedDownload /\ RowsBacked /\ JobsBacked /\ PollBacked

\* In the beginning no status speaks of progress.
LEMMA InitBacked == Init => BackedInv
BY DEF Init, BackedInv, FilesNeedDownload, RowsBacked, JobsBacked, PollBacked, NoFiles, Idle

\* CloudDrive2 may lose a request, never a task.
LEMMA TakenStays ==
  ASSUME Typed, [Next]_vars, NEW d \in Destinations, Taken(d)
  PROVE  Taken(d)'
<1> USE DEF Typed, TypeOK, Taken
<1>1. CASE UNCHANGED offline
  BY <1>1
<1>2. ASSUME NEW j \in Jobs, AddOffline(j)
      PROVE  Taken(d)'
  <2>1. PICK e : offline' \in {offline, Started(e), Requested(e)}
    BY <1>2 DEF AddOffline
  <2> QED BY <2>1 DEF Started, Requested, ExternalOK
<1>3. CASE \E e \in Destinations : OfflineProgress(e)
  BY <1>3 DEF OfflineProgress, OfflineNext, ExternalOK, OfflineStatus
<1>4. CASE \E j \in Jobs : \/ SubmitNew(j) \/ Resubmit(j) \/ ClaimRetry(j) \/ RetryRefused(j)
                           \/ EnsureDestination(j) \/ RecordResult(j)
                           \/ ManualComplete(j) \/ JobFails(j)
  BY <1>1, <1>4, ResubmitReads DEF SubmitNew, ClaimRetry, RetryRefused, EnsureDestination,
                    RecordResult, ManualComplete, JobFails, external
<1>5. CASE PollStep \/ PollFails
  BY <1>1, <1>5 DEF PollStep, PollCycle, PollRead, PollSignal, PollSnapshot, PollSkips,
                    PollWrite, PollFails, external
<1>6. CASE \/ Crash \/ (\E t \in Tasks : DeadlinePasses(t))
           \/ \E e \in Destinations : FileGrows(e)
  BY <1>1, <1>6 DEF Crash, DeadlinePasses, FileGrows, external
<1>7. CASE UNCHANGED vars
  BY <1>1, <1>7 DEF vars
<1> QED
  BY <1>2, <1>3, <1>4, <1>5, <1>6, <1>7 DEF Next, JobStep, Environment

\* How a step changes the table: by a claim, an event, or not at all.
LEMMA TableStep ==
  ASSUME Typed, [Next]_vars
  PROVE  \/ UNCHANGED rows
         \/ UNCHANGED offline /\ \E t \in Tasks, c \in Claims : Insert(t, c)
         \/ /\ UNCHANGED offline
            /\ \E j \in Jobs : /\ job[j].pc = "record"
                              /\ Append(job[j].task, job[j].write)
         \/ /\ UNCHANGED offline
            /\ poll.pc = "write" /\ Append(poll.task, poll.write)
<1> USE DEF Typed, TypeOK
<1>1. CASE \E j \in Jobs : SubmitNew(j)
  <2>1. PICK t \in Tasks, c \in Contents, k \in Candidates, p \in Profiles :
          Insert(t, [content |-> c, candidate |-> k, profile |-> p,
                     generation |-> 0, supersedes |-> NoTask])
    BY <1>1 DEF SubmitNew
  <2>2. [content |-> c, candidate |-> k, profile |-> p,
         generation |-> 0, supersedes |-> NoTask] \in Claims
    BY BoundsAssumption DEF Claims
  <2> QED BY <1>1, <2>1, <2>2 DEF SubmitNew, external
<1>2. CASE \E j \in Jobs : ClaimRetry(j)
  BY <1>2, JobFields DEF ClaimRetry, external
<1>3. CASE \E j \in Jobs : RecordResult(j)
  BY <1>3 DEF RecordResult, external
<1>4. CASE PollWrite
  BY <1>4 DEF PollWrite, external
<1>5. CASE \E j \in Jobs : \/ Resubmit(j) \/ RetryRefused(j) \/ EnsureDestination(j)
                           \/ AddOffline(j) \/ ManualComplete(j) \/ JobFails(j)
  BY <1>5, ResubmitReads DEF RetryRefused, EnsureDestination, AddOffline, ManualComplete,
                             JobFails, database
<1>6. CASE \/ PollCycle \/ (\E t \in Tasks : PollRead(t)) \/ PollSignal
           \/ PollSnapshot \/ PollSkips \/ PollFails
  BY <1>6 DEF PollCycle, PollRead, PollSignal, PollSnapshot, PollSkips, PollFails, database
<1>7. CASE Environment
  BY <1>7 DEF Environment, Crash, DeadlinePasses, OfflineProgress, FileGrows, database
<1>8. CASE UNCHANGED vars
  BY <1>8 DEF vars
<1> QED BY <1>1, <1>2, <1>3, <1>4, <1>5, <1>6, <1>7, <1>8 DEF Next, JobStep, PollStep

\* What backs a task stays with it.
LEMMA BackedStays ==
  ASSUME Typed, [Next]_vars, NEW t \in DOMAIN rows, Backed(t)
  PROVE  t \in DOMAIN rows' /\ Backed(t)'
<1>1. t \in DOMAIN rows' /\ rows'[t].claim = rows[t].claim
  BY ClaimsKept
<1>2. Dest(rows[t].claim) \in Destinations
  BY RowFields DEF Typed, TypeOK
<1>3. rows[t].manual => rows'[t].manual
  <2>1. ASSUME NEW u, NEW w, Append(u, w)
        PROVE  rows[t].manual => rows'[t].manual
    BY <2>1 DEF Append, Appended
  <2>2. ASSUME NEW u, NEW c, Insert(u, c)
        PROVE  rows[t].manual => rows'[t].manual
    BY <2>2 DEF Insert
  <2> QED BY <2>1, <2>2, TableStep
<1> QED BY <1>1, <1>2, <1>3, TakenStays DEF Backed

\* Files appear only where CloudDrive2 downloads.
LEMMA NextFilesNeedDownload ==
  ASSUME Typed, FilesNeedDownload, [Next]_vars
  PROVE  FilesNeedDownload'
<1> SUFFICES ASSUME NEW d \in Destinations, DOMAIN disk'[d] # {} PROVE Taken(d)'
  BY DEF FilesNeedDownload
<1>1. CASE disk'[d] = disk[d]
  BY <1>1, TakenStays DEF FilesNeedDownload
<1>2. CASE \E e \in Destinations : FileGrows(e)
  <2>1. PICK e \in Destinations : FileGrows(e)
    BY <1>2
  <2>2. CASE d = e
    BY <2>1, <2>2 DEF FileGrows, Taken
  <2>3. CASE d # e
    <3>1. disk'[d] = disk[d]
      BY <2>1, <2>3 DEF FileGrows, Typed, TypeOK, ExternalOK
    <3> QED BY <3>1, <1>1
  <2> QED BY <2>2, <2>3
<1>3. CASE ~\E e \in Destinations : FileGrows(e)
  <2>1. disk' = disk
    BY <1>3, ResubmitReads DEF Next, JobStep, SubmitNew, ClaimRetry, RetryRefused,
       EnsureDestination, AddOffline, RecordResult, ManualComplete, JobFails, PollStep,
       PollCycle, PollRead, PollSignal, PollSnapshot, PollSkips, PollWrite, PollFails,
       Environment, Crash, DeadlinePasses, OfflineProgress, external, vars
  <2> QED BY <1>1, <2>1
<1> QED BY <1>2, <1>3

\* An event by hand marks its row.
LEMMA AppendedManual ==
  ASSUME Typed, NEW t \in DOMAIN rows, NEW w \in Writes,
         rows'[t] = Appended(rows[t], w)
  PROVE  w.manual => rows'[t].manual
<1>1. rows[t].manual \in BOOLEAN /\ w.manual \in BOOLEAN
  BY RowFields DEF Typed, TypeOK, Rows, Writes
<1>2. rows'[t].manual = (rows[t].manual \/ w.manual)
  BY DEF Appended
<1> QED BY <1>1, <1>2

\* A row gets a status that speaks of progress from an event that is backed.
LEMMA NextRowsBacked ==
  ASSUME Typed, RowsBacked, JobsBacked, PollBacked, [Next]_vars
  PROVE  RowsBacked'
<1> USE DEF RowsBacked
<1>1. ASSUME NEW u \in DOMAIN rows, NEW w \in Writes, Append(u, w),
             w.status \in Progressed => Backed(u) \/ w.manual
      PROVE  RowsBacked'
  <2> SUFFICES ASSUME NEW t \in DOMAIN rows', rows'[t].status \in Progressed
               PROVE  Backed(t)'
    OBVIOUS
  <2>1. t \in DOMAIN rows
    BY <1>1 DEF Append
  <2>2. CASE rows'[t] = rows[t]
    BY <2>1, <2>2, BackedStays
  <2>3. CASE t = u /\ rows'[t] = Appended(rows[t], w)
    <3>1. CASE Backed(t)
      BY <2>1, <3>1, BackedStays
    <3>2. CASE w.manual
      <4>1. rows'[t].manual
        BY <2>1, <2>3, <3>2, AppendedManual
      <4> QED BY <4>1 DEF Backed
    <3>3. w.status \in Progressed
      BY <2>3 DEF Appended
    <3> QED BY <1>1, <2>3, <3>1, <3>2, <3>3
  <2> QED BY <1>1, <2>1, <2>2, <2>3 DEF Append
<1>2. ASSUME NEW u \in Tasks, NEW c \in Claims, Insert(u, c)
      PROVE  RowsBacked'
  <2> SUFFICES ASSUME NEW t \in DOMAIN rows', rows'[t].status \in Progressed
               PROVE  Backed(t)'
    OBVIOUS
  <2>1. t \in DOMAIN rows /\ rows'[t] = rows[t]
    BY <1>2 DEF Insert, Progressed
  <2> QED BY <2>1, BackedStays
<1>3. CASE UNCHANGED rows
  BY <1>3, BackedStays
<1>4. CASE \E j \in Jobs : job[j].pc = "record" /\ Append(job[j].task, job[j].write)
  <2>1. PICK j \in Jobs : job[j].pc = "record" /\ Append(job[j].task, job[j].write)
    BY <1>4
  <2>2. job[j].task \in DOMAIN rows /\ job[j].task \in Tasks /\ job[j].write \in Writes
    BY <2>1, JobFields, RowFields DEF Typed, TypeOK
  <2>3. job[j].write.status \in Progressed => Backed(job[j].task) \/ job[j].write.manual
    BY <2>1, <2>2 DEF JobsBacked
  <2> QED BY <1>1, <2>1, <2>2, <2>3
<1>5. CASE poll.pc = "write" /\ Append(poll.task, poll.write)
  <2>1. poll.task \in DOMAIN rows /\ poll.task \in Tasks /\ poll.write \in Writes
    BY <1>5, PollFields, RowFields DEF Typed, TypeOK, Idle
  <2>2. poll.write.status \in Progressed => Backed(poll.task)
    BY <1>5, <2>1 DEF PollBacked
  <2> QED BY <1>1, <1>5, <2>1, <2>2
<1> QED BY <1>2, <1>3, <1>4, <1>5, TableStep

\* A job writes of progress once CloudDrive2 has accepted, or by hand.
LEMMA NextJobsBacked ==
  ASSUME Typed, JobsBacked, [Next]_vars
  PROVE  JobsBacked'
<1> USE DEF Typed, TypeOK
<1>0. ASSUME NEW j \in Jobs, NEW t \in Tasks, job[j].pc = "record", job[j].task = t,
             job[j].write.status \in Progressed
      PROVE  Backed(t)' \/ job[j].write.manual
  <2>1. t \in DOMAIN rows
    BY <1>0, JobFields
  <2>2. Backed(t) \/ job[j].write.manual
    BY <1>0 DEF JobsBacked
  <2> QED BY <2>1, <2>2, BackedStays
<1>1. CASE UNCHANGED job
  BY <1>0, <1>1 DEF JobsBacked
<1>2. ASSUME NEW j \in Jobs, NEW state, Goto(j, state),
             \A t \in Tasks :
               state.pc = "record" /\ state.task = t /\ state.write.status \in Progressed =>
                 Backed(t)' \/ state.write.manual
      PROVE  JobsBacked'
  <2> SUFFICES ASSUME NEW k \in Jobs, NEW t \in Tasks, job'[k].pc = "record",
                      job'[k].task = t, job'[k].write.status \in Progressed
               PROVE  Backed(t)' \/ job'[k].write.manual
    BY DEF JobsBacked
  <2>1. CASE k = j
    <3>1. job'[k] = state
      BY <1>2, <2>1 DEF Goto, JobsOK
    <3> QED BY <1>2, <3>1
  <2>2. CASE k # j
    <3>1. job'[k] = job[k]
      BY <1>2, <2>2 DEF Goto, JobsOK
    <3> QED BY <1>0, <3>1
  <2> QED BY <2>1, <2>2
<1>3. ASSUME NEW j \in Jobs, JobStep(j)
      PROVE  JobsBacked'
  <2>1. CASE SubmitNew(j) \/ ClaimRetry(j)
    <3>1. PICK t : Goto(j, [pc |-> "ensure", task |-> t])
      BY <2>1 DEF SubmitNew, ClaimRetry
    <3> QED BY <1>2, <3>1
  <2>2. CASE Resubmit(j)
    <3>1. PICK c : Goto(j, [pc |-> "claim", claim |-> c])
      BY <2>2, ResubmitReads
    <3> QED BY <1>2, <3>1
  <2>3. CASE RetryRefused(j) \/ RecordResult(j) \/ JobFails(j)
    BY <1>2, <2>3 DEF RetryRefused, RecordResult, JobFails, Idle
  <2>4. CASE EnsureDestination(j)
    <3>1. PICK state : Goto(j, state) /\ (state.pc = "record" => state.write = Write("failed"))
      BY <2>4 DEF EnsureDestination, Record
    <3> QED BY <1>2, <3>1 DEF Write, Progressed
  <2>5. CASE AddOffline(j)
    <3>1. PICK w : /\ Record(j, job[j].task, w)
                   /\ w.status \in Progressed =>
                        offline' = Started(Dest(rows[job[j].task].claim))
      BY <2>5 DEF AddOffline, Accepted, ResultUnknown, Write, Progressed
    <3>2. UNCHANGED rows
      BY <2>5 DEF AddOffline, database
    <3>3. ASSUME NEW t \in Tasks, job[j].task = t, w.status \in Progressed
          PROVE  Backed(t)'
      <4>1. Dest(rows[t].claim) \in Destinations
        BY <2>5, <3>3, JobFields, RowFields DEF AddOffline
      <4>2. offline'[Dest(rows[t].claim)] \notin {"none", "inflight"}
        BY <3>1, <3>3, <4>1 DEF Started, ExternalOK
      <4> QED BY <3>2, <4>2 DEF Backed, Taken
    <3>4. Goto(j, [pc |-> "record", task |-> job[j].task, write |-> w])
      BY <3>1 DEF Record
    <3> QED BY <1>2, <3>3, <3>4
  <2>6. CASE ManualComplete(j)
    <3>1. PICK t, w : Record(j, t, w) /\ w.manual
      BY <2>6 DEF ManualComplete, Write
    <3>2. Goto(j, [pc |-> "record", task |-> t, write |-> w])
      BY <3>1 DEF Record
    <3> QED BY <1>2, <3>1, <3>2
  <2> QED BY <1>3, <2>1, <2>2, <2>3, <2>4, <2>5, <2>6 DEF JobStep
<1>4. CASE PollStep \/ PollFails
  BY <1>1, <1>4 DEF PollStep, PollCycle, PollRead, PollSignal, PollSnapshot, PollSkips,
                    PollWrite, PollFails
<1>5. CASE Crash
  BY <1>5 DEF Crash, Idle, JobsBacked
<1>6. CASE Environment /\ ~Crash
  BY <1>1, <1>6 DEF Environment, DeadlinePasses, OfflineProgress, FileGrows
<1>7. CASE UNCHANGED vars
  BY <1>1, <1>7 DEF vars
<1> QED BY <1>3, <1>4, <1>5, <1>6, <1>7 DEF Next

\* An event of the poller speaks of progress that the task has made already, that
\* CloudDrive2 reports, or that its files show.
LEMMA SignalIsTaken ==
  ASSUME NEW s \in Signals(Dest(rows[poll.task].claim)) \ {"unknown"}, NEW current,
         SignalWrite(s, current).status \in Progressed
  PROVE  Taken(Dest(rows[poll.task].claim))
<1>1. s \in {"init", "downloading", "finished", "error"}
  BY DEF Signals
<1>2. s # "error" => s = offline[Dest(rows[poll.task].claim)]
  BY DEF Signals
<1>3. s = "error" => SignalWrite(s, current).status = "failed"
  BY DEF SignalWrite, Write
<1> QED BY <1>1, <1>2, <1>3 DEF Progressed, Taken

\* Without evidence a status stays or asks for attention.
LEMMA SilenceSaysNothingNew ==
  ASSUME NEW current, NEW late, WithoutEvidence(current, late) \in Progressed
  PROVE  current \in Progressed
BY DEF WithoutEvidence, Progressed

\* An observation that speaks of progress has seen files.
LEMMA ObservationNeedsFiles ==
  ASSUME NEW read, NEW snapshot, NEW late,
         ObservationWrite(read, snapshot, late).status \in Progressed
  PROVE  DOMAIN snapshot # {} \/ read.status \in Progressed
<1> DEFINE after == Observe(read.completion, snapshot)
           status == IF Completed(read.completion, snapshot) THEN "completed"
                     ELSE IF HasProgress(read.completion, snapshot) THEN "downloading"
                     ELSE WithoutEvidence(read.status, late)
<1>1. status \in Progressed =>
        HasProgress(read.completion, snapshot) \/ read.status \in Progressed
  BY SilenceSaysNothingNew DEF Completed
<1>2. HasProgress(read.completion, snapshot) => DOMAIN snapshot # {}
  BY DEF HasProgress, Changed
<1> HIDE DEF after, status
<1>3. ObservationWrite(read, snapshot, late)
        = [Write(status) EXCEPT !.completion = after,
                                !.owned = IF after.owned # {} THEN "yes" ELSE "no"]
  BY DEF ObservationWrite, after, status
<1> QED BY <1>1, <1>2, <1>3 DEF Write

\* So the poller, too, only writes of progress that is backed.
LEMMA NextPollBacked ==
  ASSUME Typed, FilesNeedDownload, RowsBacked, PollBacked, [Next]_vars
  PROVE  PollBacked'
<1> USE DEF Typed, TypeOK
<1>1. CASE UNCHANGED poll
  <2>1. ASSUME NEW t \in Tasks, poll # Idle, poll.task = t, Backed(t)
        PROVE  Backed(t)'
    BY <2>1, PollFields, BackedStays
  <2> QED BY <1>1, <2>1 DEF PollBacked, Idle
<1>2. ASSUME NEW w, NEW repeats, PollWrites(w, repeats), UNCHANGED <<rows, offline>>,
             w.status \in Progressed => Backed(poll.task)
      PROVE  PollBacked'
  <2>1. poll'.pc = "write" /\ poll'.task = poll.task /\ poll'.write = w
    BY <1>2 DEF PollWrites
  <2> QED BY <1>2, <2>1 DEF PollBacked, Backed, Taken
<1>3. ASSUME poll.pc \in {"signal", "snapshot"}, PollWrites(SilentWrite, FALSE),
             UNCHANGED <<rows, offline>>
      PROVE  PollBacked'
  <2>1. SilentWrite.status \in Progressed => poll.read.status \in Progressed
    BY SilenceSaysNothingNew DEF SilentWrite, Write
  <2>2. poll.task \in Tasks
    BY <1>3, PollFields, RowFields DEF Idle
  <2>3. SilentWrite.status \in Progressed => Backed(poll.task)
    BY <1>3, <2>1, <2>2 DEF PollBacked
  <2> QED BY <1>2, <1>3, <2>3
<1>4. CASE PollSignal
  <2>1. UNCHANGED <<rows, offline>> /\ poll.pc = "signal"
    BY <1>4 DEF PollSignal, database, external
  <2>2. ASSUME NEW s \in Signals(Dest(rows[poll.task].claim)) \ {"unknown"},
               PollWrites(SignalWrite(s, poll.read.status), FALSE)
        PROVE  PollBacked'
    BY <1>2, <2>1, <2>2, SignalIsTaken DEF Backed
  <2>3. CASE poll' = [poll EXCEPT !.pc = "snapshot"]
    <3>1. poll \in [pc : {"signal", "snapshot"}, task : Tasks, read : Reads, late : BOOLEAN]
      BY <2>1 DEF PollOK, PollStates, Idle
    <3>2. poll'.pc = "snapshot" /\ poll'.task = poll.task /\ poll'.read = poll.read
      BY <2>3, <3>1
    <3> QED BY <2>1, <3>2 DEF PollBacked, Backed, Taken
  <2> QED BY <1>3, <1>4, <2>1, <2>2, <2>3 DEF PollSignal
<1>5. CASE PollSnapshot
  <2> DEFINE d == Dest(rows[poll.task].claim)
             w == ObservationWrite(poll.read, disk[d], poll.late)
  <2>1. UNCHANGED <<rows, offline>> /\ poll.pc = "snapshot"
    BY <1>5 DEF PollSnapshot, database, external
  <2>2. d \in Destinations /\ poll.task \in Tasks
    BY <2>1, PollFields, RowFields DEF Idle
  <2>3. w.status \in Progressed => Backed(poll.task)
    <3>1. DOMAIN disk[d] # {} => Backed(poll.task)
      BY <2>2 DEF FilesNeedDownload, Backed
    <3>2. poll.read.status \in Progressed => Backed(poll.task)
      BY <2>1, <2>2 DEF PollBacked
    <3> QED BY <3>1, <3>2, ObservationNeedsFiles
  <2>4. CASE PollWrites(SilentWrite, FALSE)
    BY <1>3, <2>1, <2>4
  <2>5. CASE \E repeats : PollWrites(w, repeats)
    BY <1>2, <2>1, <2>3, <2>5
  <2> QED BY <1>5, <2>4, <2>5 DEF PollSnapshot
<1>6. ASSUME NEW t \in Tasks, PollRead(t)
      PROVE  PollBacked'
  <2>1. CASE UNCHANGED poll
    BY <1>1, <2>1
  <2>2. CASE poll' = [pc |-> "signal", task |-> t, late |-> t \in overdue,
                      read |-> [status |-> rows[t].status,
                                completion |-> rows[t].completion]]
    <3>1. poll'.pc = "signal" /\ poll'.task = t /\ poll'.read.status = rows[t].status
      BY <2>2
    <3>2. t \in DOMAIN rows /\ UNCHANGED <<rows, offline>>
      BY <1>6 DEF PollRead, PollOK, database, external
    <3> QED BY <3>1, <3>2 DEF PollBacked, RowsBacked, Backed, Taken
  <2> QED BY <1>6, <2>1, <2>2 DEF PollRead
<1>7. CASE PollCycle
  BY <1>1, <1>7 DEF PollCycle
<1>8. CASE PollSkips \/ PollWrite \/ PollFails \/ Crash
  BY <1>8 DEF PollSkips, PollWrite, PollFails, PollEnds, Crash, Idle, PollBacked
<1>9. CASE \E j \in Jobs : JobStep(j)
  BY <1>1, <1>9, ResubmitReads DEF JobStep, SubmitNew, ClaimRetry, RetryRefused,
     EnsureDestination, AddOffline, RecordResult, ManualComplete, JobFails
<1>10. CASE Environment
  BY <1>1, <1>8, <1>10 DEF Environment, DeadlinePasses, OfflineProgress, FileGrows
<1>11. CASE UNCHANGED vars
  BY <1>1, <1>11 DEF vars
<1> QED BY <1>4, <1>5, <1>6, <1>7, <1>8, <1>9, <1>10, <1>11 DEF Next, PollStep

\* A status that speaks of progress is backed, always.
LEMMA AlwaysBacked == Spec => []BackedInv
<1>1. Typed /\ BackedInv /\ [Next]_vars => BackedInv'
  BY NextFilesNeedDownload, NextRowsBacked, NextJobsBacked, NextPollBacked DEF BackedInv
<1> QED BY <1>1, InitBacked, AlwaysTyped, PTL DEF Spec

------------------------------------------------------------------------------
(***************************************************************************)
(* What an item reports of itself: the task it has read is one of its own, *)
(* and the status of that task was backed when it was read.                *)
(***************************************************************************)

OfItem(claim, i) ==
  claim.content = items[i].content /\ claim.profile = items[i].profile
HasTask(i) == \E t \in DOMAIN rows : OfItem(rows[t].claim, i) /\ Backed(t)

RunnerKnows(r, i) ==
  work[r] # Resting /\ work[r].item = i =>
    /\ \A t \in DOMAIN rows :
         work[r].pc \in {"read", "next"} /\ work[r].task = t => OfItem(rows[t].claim, i)
    /\ \A c \in Claims :
         work[r].pc = "claim" /\ job[r].pc = "claim" /\ job[r].claim = c => OfItem(c, i)
    /\ work[r].pc = "report" /\ work[r].status = "submitted" => HasTask(i)

ItemsBacked ==
  /\ \A r \in Runners, i \in DOMAIN items : RunnerKnows(r, i)
  /\ \A i \in DOMAIN items : items[i].status = "submitted" => HasTask(i)

\* A step of one thread leaves the others where they are.
LEMMA OtherJobsStay ==
  ASSUME Typed, NEW j \in Jobs, NEW k \in Jobs, j # k, JobStep(j)
  PROVE  job'[k] = job[k]
<1>1. ASSUME NEW state, Goto(j, state) PROVE job'[k] = job[k]
  BY <1>1 DEF Goto, Typed, TypeOK, JobsOK
<1>2. CASE Resubmit(j)
  BY <1>1, <1>2, ResubmitReads
<1>3. CASE SubmitNew(j) \/ ClaimRetry(j) \/ RetryRefused(j) \/ RecordResult(j) \/ JobFails(j)
  BY <1>1, <1>3 DEF SubmitNew, ClaimRetry, RetryRefused, RecordResult, JobFails
<1>4. CASE EnsureDestination(j) \/ AddOffline(j) \/ ManualComplete(j)
  BY <1>1, <1>4 DEF EnsureDestination, AddOffline, ManualComplete, Record
<1> QED BY <1>2, <1>3, <1>4 DEF JobStep

\* The same for what runners do for their items.
LEMMA OtherWorkStays ==
  ASSUME ItemsOK, NEW r \in Runners, NEW q \in Runners, q # r, ItemStep(r)
  PROVE  work'[q] = work[q]
<1>1. ASSUME NEW state, Turns(r, state) PROVE work'[q] = work[q]
  BY <1>1 DEF Turns, ItemsOK
<1> QED
  BY <1>1 DEF ItemStep, ItemBegins, ClaimsFirst, FirstRefused, Refused, ClaimsNext,
              NextRefused, ReadsTask, FallsBack, FindsConflict, ReportsStatus, ItemFails,
              Reports, GoesOn

\* An item keeps its content and its profile.
LEMMA ItemsStay ==
  ASSUME ItemsOK, [AutoNext]_autoVars, NEW i \in DOMAIN items
  PROVE  /\ i \in DOMAIN items'
         /\ items'[i].content = items[i].content /\ items'[i].profile = items[i].profile
<1>1. CASE UNCHANGED items
  BY <1>1
<1>2. ASSUME NEW r \in Runners, ItemBegins(r)
      PROVE  i \in DOMAIN items' /\ items'[i] = items[i]
  BY <1>2 DEF ItemBegins
<1>3. ASSUME NEW r \in Runners, ReportsStatus(r)
      PROVE  /\ i \in DOMAIN items'
             /\ items'[i].content = items[i].content /\ items'[i].profile = items[i].profile
  BY <1>3 DEF ReportsStatus, ItemsOK, ItemRows
<1>4. ASSUME NEW r \in Runners, ItemStep(r), ~ItemBegins(r), ~ReportsStatus(r)
      PROVE  UNCHANGED items
  BY <1>4 DEF ItemStep, ClaimsFirst, FirstRefused, ClaimsNext, NextRefused, ReadsTask,
              FallsBack, FindsConflict, ItemFails
<1>5. CASE (\E j \in Jobs : ServiceStep(j)) \/ (\E j \in Jobs : UserActs(j)) \/ Restart \/ Elsewhere
  BY <1>1, <1>5 DEF ServiceStep, SubmitGoesOn, SubmitEnds, ServiceFails, UserActs, Restart,
                    Elsewhere
<1> QED BY <1>1, <1>2, <1>3, <1>4, <1>5 DEF AutoNext, autoVars

\* A backed task of an item stays one.
LEMMA HasTaskStays ==
  ASSUME Typed, ItemsOK, [AutoNext]_autoVars, NEW i \in DOMAIN items, HasTask(i)
  PROVE  HasTask(i)'
<1>1. [Next]_vars
  BY AutoStepRefines
<1>2. PICK t \in DOMAIN rows : OfItem(rows[t].claim, i) /\ Backed(t)
  BY DEF HasTask
<1>3. t \in DOMAIN rows' /\ rows'[t].claim = rows[t].claim /\ Backed(t)'
  BY <1>1, <1>2, ClaimsKept, BackedStays
<1>4. OfItem(rows[t].claim, i)'
  BY <1>2, <1>3, ItemsStay DEF OfItem
<1> QED BY <1>3, <1>4 DEF HasTask

\* What a runner knows of its item stays true while it rests in its place.
LEMMA KnowsStays ==
  ASSUME Typed, ItemsOK, [AutoNext]_autoVars, NEW r \in Runners, NEW i \in DOMAIN items',
         i \in DOMAIN items => RunnerKnows(r, i),
         work'[r] = work[r], job'[r] = job[r] \/ job'[r].pc # "claim"
  PROVE  RunnerKnows(r, i)'
<1>1. CASE work[r] = Resting \/ work[r].item # i
  BY <1>1 DEF RunnerKnows
<1>2. CASE work[r] # Resting /\ work[r].item = i
  <2>1. i \in DOMAIN items /\ RunnerKnows(r, i)
    BY <1>2, WorkFields
  <2>2. [Next]_vars
    BY AutoStepRefines
  <2>3. ASSUME NEW c, OfItem(c, i)
        PROVE  OfItem(c, i)'
    BY <2>1, <2>3, ItemsStay DEF OfItem
  <2>4. ASSUME NEW t \in DOMAIN rows', work[r].pc \in {"read", "next"}, work[r].task = t
        PROVE  OfItem(rows[t].claim, i)'
    <3>1. t \in DOMAIN rows
      BY <2>4, WorkFields
    <3>2. rows'[t].claim = rows[t].claim
      BY <2>2, <3>1, ClaimsKept
    <3>3. OfItem(rows[t].claim, i)
      BY <1>2, <2>1, <2>4, <3>1 DEF RunnerKnows
    <3> QED BY <2>1, <3>2, <3>3, ItemsStay DEF OfItem
  <2>5. ASSUME NEW c \in Claims, work[r].pc = "claim", job'[r].pc = "claim",
               job'[r].claim = c
        PROVE  OfItem(c, i)'
    BY <1>2, <2>1, <2>3, <2>5 DEF RunnerKnows
  <2>6. work[r].pc = "report" /\ work[r].status = "submitted" => HasTask(i)'
    BY <1>2, <2>1, HasTaskStays DEF RunnerKnows
  <2> QED BY <2>4, <2>5, <2>6 DEF RunnerKnows
<1> QED BY <1>1, <1>2

\* The steps of the item itself.
LEMMA ItemStepKnows ==
  ASSUME Typed, RowsBacked, ItemsOK, NEW r \in Runners, ItemStep(r),
         NEW i \in DOMAIN items', i \in DOMAIN items => RunnerKnows(r, i)
  PROVE  RunnerKnows(r, i)'
<1> r \in Jobs
  BY RunnersAssumption
<1>0. [AutoNext]_autoVars
  BY DEF AutoNext
<1>1. ASSUME work'[r].pc \in {"resting", "conflict"}
      PROVE  RunnerKnows(r, i)'
  BY <1>1 DEF RunnerKnows
<1>2. ASSUME NEW status, NEW d, Reports(r, status, d), status # "submitted"
      PROVE  RunnerKnows(r, i)'
  <2>1. work'[r].pc = "report" /\ work'[r].status = status
    BY <1>2 DEF Reports, Turns, ItemsOK
  <2> QED BY <1>2, <2>1 DEF RunnerKnows
<1>3. ASSUME NEW claim, Refused(r, claim)
      PROVE  RunnerKnows(r, i)'
  <2>1. CASE Reports(r, "submit_failed", NoTask)
    BY <1>2, <2>1
  <2>2. CASE Turns(r, [pc |-> "conflict", item |-> work[r].item,
                       candidate |-> claim.candidate])
    BY <1>1, <2>2 DEF Turns, ItemsOK
  <2> QED BY <1>3, <2>1, <2>2 DEF Refused
<1>4. ASSUME NEW t \in Tasks, NEW claim, Insert(t, claim), GoesOn(r, "read", work[r].index, t),
             UNCHANGED items, work[r].item = i => OfItem(claim, i)
      PROVE  RunnerKnows(r, i)'
  <2>1. work'[r].pc = "read" /\ work'[r].item = work[r].item /\ work'[r].task = t
    BY <1>4 DEF GoesOn, Turns, ItemsOK
  <2>2. rows'[t].claim = claim
    BY <1>4 DEF Insert
  <2> QED BY <1>4, <2>1, <2>2 DEF RunnerKnows, OfItem
<1>5. CASE ItemBegins(r)
  <2>1. work'[r].pc = "claim" /\ job'[r].pc = "idle"
    BY <1>5 DEF ItemBegins, Turns, ItemsOK, vars, Idle
  <2> QED BY <2>1 DEF RunnerKnows
<1>6. CASE ClaimsFirst(r)
  <2>1. PICK t \in Tasks : Insert(t, FirstClaim(r)) /\ GoesOn(r, "read", work[r].index, t)
    BY <1>6 DEF ClaimsFirst
  <2>2. work[r].item = i => OfItem(FirstClaim(r), i)
    BY DEF FirstClaim, OfItem, ItemOf
  <2> QED BY <1>4, <1>6, <2>1, <2>2 DEF ClaimsFirst
<1>7. CASE FirstRefused(r) \/ NextRefused(r)
  BY <1>3, <1>7 DEF FirstRefused, NextRefused
<1>8. CASE ClaimsNext(r)
  <2>1. PICK t \in Tasks : /\ Insert(t, job[r].claim)
                           /\ Goto(r, [pc |-> "ensure", task |-> t])
    BY <1>8 DEF ClaimsNext, ClaimRetry
  <2>2. job'[r].task = t
    BY <2>1 DEF Goto, Typed, TypeOK, JobsOK
  <2>3. job[r].pc = "claim" /\ job[r].claim \in Claims
    BY <1>8, JobFields DEF ClaimsNext, ClaimRetry, Typed, TypeOK
  <2>4. work[r].pc = "claim" /\ work[r] # Resting /\ UNCHANGED items
    BY <1>8 DEF ClaimsNext, Resting
  <2>5. work[r].item = i => OfItem(job[r].claim, i)
    BY <2>3, <2>4, WorkFields DEF RunnerKnows
  <2> QED BY <1>4, <1>8, <2>1, <2>2, <2>4, <2>5 DEF ClaimsNext
<1>9. CASE ReadsTask(r)
  <2>1. /\ work[r].pc = "read" /\ work[r] # Resting /\ work[r].task \in DOMAIN rows
        /\ UNCHANGED <<rows, items, offline>>
    BY <1>9, WorkFields DEF ReadsTask, Resting, vars
  <2>2. work[r].item = i => i \in DOMAIN items /\ OfItem(rows[work[r].task].claim, i)
    BY <2>1, WorkFields DEF RunnerKnows
  <2>3. CASE GoesOn(r, "next", work[r].index + 1, work[r].task)
    <3>1. work'[r].pc = "next" /\ work'[r].item = work[r].item /\ work'[r].task = work[r].task
      BY <2>3 DEF GoesOn, Turns, ItemsOK
    <3> QED BY <2>1, <2>2, <3>1 DEF RunnerKnows, OfItem
  <2>4. CASE Reports(r, Outcome(rows[work[r].task]), NoTask)
    <3>1. /\ work'[r].pc = "report" /\ work'[r].item = work[r].item
          /\ work'[r].status = Outcome(rows[work[r].task])
      BY <2>4 DEF Reports, Turns, ItemsOK
    <3>2. Outcome(rows[work[r].task]) = "submitted" => rows[work[r].task].status \in Progressed
      <4>1. rows[work[r].task].status \in Status
        BY <2>1, RowFields DEF Typed, TypeOK
      <4> QED BY <4>1 DEF Outcome, Progressed, Status, Terminal, Unfinished
    <3>3. work[r].item = i /\ Outcome(rows[work[r].task]) = "submitted" => HasTask(i)
      BY <2>1, <2>2, <3>2 DEF HasTask, RowsBacked
    <3> QED BY <2>1, <3>1, <3>3 DEF RunnerKnows, HasTask, OfItem, Backed, Taken
  <2> QED BY <1>9, <2>3, <2>4 DEF ReadsTask
<1>10. CASE FallsBack(r)
  <2>1. PICK t \in DOMAIN rows, k \in Candidates :
          ClaimNext(r, t, rows[t].claim.content, k, rows[t].claim.profile)
    BY <1>10 DEF FallsBack, Fallback
  <2>2. /\ job'[r].claim.content = rows[t].claim.content
        /\ job'[r].claim.profile = rows[t].claim.profile
        /\ job'[r].claim.supersedes = t
    <3>1. PICK g : Goto(r, [pc |-> "claim",
                            claim |-> [content |-> rows[t].claim.content, candidate |-> k,
                                       profile |-> rows[t].claim.profile, generation |-> g,
                                       supersedes |-> t]])
      BY <2>1 DEF ClaimNext
    <3> QED BY <3>1 DEF Goto, Typed, TypeOK, JobsOK
  <2>3. /\ work[r].pc = "next" /\ work[r] # Resting /\ work[r].task = t
        /\ UNCHANGED <<rows, items>>
    BY <1>10, <2>1, <2>2 DEF FallsBack, ClaimNext, Resting, database
  <2>4. work[r].item = i => OfItem(rows[t].claim, i)
    BY <2>3, WorkFields DEF RunnerKnows
  <2>5. work'[r].pc = "claim" /\ work'[r].item = work[r].item
    BY <1>10 DEF FallsBack, GoesOn, Turns, ItemsOK
  <2> QED BY <2>2, <2>3, <2>4, <2>5 DEF RunnerKnows, OfItem
<1>11. CASE FindsConflict(r)
  BY <1>2, <1>11 DEF FindsConflict
<1>12. CASE ReportsStatus(r) \/ ItemFails(r)
  BY <1>1, <1>12 DEF ReportsStatus, ItemFails, Turns, ItemsOK, Resting
<1> QED
  BY <1>5, <1>6, <1>7, <1>8, <1>9, <1>10, <1>11, <1>12 DEF ItemStep

\* Each step leaves each runner with tasks of its own item.
LEMMA NextRunnersKnow ==
  ASSUME Typed, RowsBacked, ItemsOK, ItemsBacked, [AutoNext]_autoVars,
         NEW r \in Runners, NEW i \in DOMAIN items'
  PROVE  RunnerKnows(r, i)'
<1> r \in Jobs
  BY RunnersAssumption
<1>0. i \in DOMAIN items => RunnerKnows(r, i)
  BY DEF ItemsBacked
<1>1. ASSUME work'[r] = work[r], job'[r] = job[r] \/ job'[r].pc # "claim"
      PROVE  RunnerKnows(r, i)'
  BY <1>0, <1>1, KnowsStays
<1>2. ASSUME work'[r] = Resting
      PROVE  RunnerKnows(r, i)'
  BY <1>2 DEF RunnerKnows
<1>3. ASSUME NEW q \in Runners, ItemStep(q)
      PROVE  RunnerKnows(r, i)'
  <2>1. CASE q = r
    BY <1>0, <1>3, <2>1, ItemStepKnows
  <2>2. CASE q # r
    <3>1. q \in Jobs
      BY RunnersAssumption
    <3>2. JobStep(q) \/ UNCHANGED job
      BY <1>3, FirstClaimIsNew
         DEF ItemStep, ItemBegins, FirstRefused, ClaimsNext, NextRefused, ReadsTask,
             FallsBack, FindsConflict, ReportsStatus, ItemFails, JobStep, Resubmit, vars
    <3>3. job'[r] = job[r]
      BY <2>2, <3>1, <3>2, OtherJobsStay
    <3>4. work'[r] = work[r]
      BY <1>3, <2>2, OtherWorkStays
    <3> QED BY <1>1, <3>3, <3>4
  <2> QED BY <2>1, <2>2
<1>4. ASSUME NEW j \in Jobs, ServiceStep(j)
      PROVE  RunnerKnows(r, i)'
  <2>1. JobStep(j)
    BY <1>4 DEF ServiceStep, SubmitGoesOn, SubmitEnds, ServiceFails, JobStep
  <2>2. j # r => job'[r] = job[r]
    BY <2>1, OtherJobsStay
  <2>3. job'[j].pc # "claim"
    <3>1. ASSUME NEW state, Goto(j, state), state.pc # "claim" PROVE job'[j].pc # "claim"
      BY <3>1 DEF Goto, Typed, TypeOK, JobsOK
    <3> QED
      BY <1>4, <3>1 DEF ServiceStep, SubmitGoesOn, SubmitEnds, ServiceFails, EnsureDestination,
                        AddOffline, RecordResult, JobFails, Record, Idle
  <2>4. work'[r] = work[r] \/ work'[r] = Resting
    BY <1>4 DEF ServiceStep, SubmitGoesOn, SubmitEnds, ServiceFails, Turns, ItemsOK
  <2> QED BY <1>1, <1>2, <2>2, <2>3, <2>4
<1>5. ASSUME NEW j \in Jobs \ Runners, UserActs(j)
      PROVE  RunnerKnows(r, i)'
  <2>1. JobStep(j) /\ UNCHANGED work
    BY <1>5 DEF UserActs, JobStep, Resubmit
  <2> QED BY <1>1, <1>5, <2>1, OtherJobsStay
<1>6. CASE Restart
  BY <1>2, <1>6 DEF Restart
<1>7. CASE Elsewhere
  <2>1. UNCHANGED <<job, work>>
    BY <1>7 DEF Elsewhere, PollStep, PollCycle, PollRead, PollSignal, PollSnapshot,
                PollSkips, PollWrite, PollFails, DeadlinePasses, OfflineProgress, FileGrows
  <2> QED BY <1>1, <2>1
<1>8. CASE UNCHANGED autoVars
  BY <1>1, <1>8 DEF autoVars
<1> QED BY <1>3, <1>4, <1>5, <1>6, <1>7, <1>8 DEF AutoNext

\* An item is submitted only if its runner knew of a backed task.
LEMMA NextItemsBacked ==
  ASSUME Typed, RowsBacked, ItemsOK, ItemsBacked, [AutoNext]_autoVars
  PROVE  ItemsBacked'
<1>1. \A r \in Runners, i \in DOMAIN items' : RunnerKnows(r, i)'
  BY NextRunnersKnow
<1>2. ASSUME NEW i \in DOMAIN items', items'[i].status = "submitted"
      PROVE  HasTask(i)'
  <2>1. CASE i \in DOMAIN items /\ items'[i].status = items[i].status
    BY <1>2, <2>1, HasTaskStays DEF ItemsBacked
  <2>2. CASE \E r \in Runners : ReportsStatus(r) /\ work[r].item = i
    <3>1. PICK r \in Runners : ReportsStatus(r) /\ work[r].item = i
      BY <2>2
    <3>2. work[r] # Resting /\ i \in DOMAIN items /\ work[r].pc = "report"
      BY <3>1, WorkFields DEF ReportsStatus, Resting
    <3>3. work[r].status = "submitted"
      BY <1>2, <3>1, <3>2 DEF ReportsStatus, ItemsOK, ItemRows
    <3>4. HasTask(i)
      BY <3>1, <3>2, <3>3 DEF ItemsBacked, RunnerKnows
    <3> QED BY <3>2, <3>4, HasTaskStays
  <2>3. CASE ~\E r \in Runners : ReportsStatus(r) /\ work[r].item = i
    <3>1. ASSUME NEW r \in Runners, ItemBegins(r)
          PROVE  i \in DOMAIN items /\ items'[i].status = items[i].status
      BY <1>2, <3>1 DEF ItemBegins
    <3>2. ASSUME NEW r \in Runners, ReportsStatus(r)
          PROVE  i \in DOMAIN items /\ items'[i].status = items[i].status
      BY <1>2, <2>3, <3>2 DEF ReportsStatus, ItemsOK, ItemRows
    <3>3. UNCHANGED items => i \in DOMAIN items /\ items'[i].status = items[i].status
      BY <1>2
    <3>4. ASSUME NEW r \in Runners, ItemStep(r), ~ItemBegins(r), ~ReportsStatus(r)
          PROVE  UNCHANGED items
      BY <3>4 DEF ItemStep, ClaimsFirst, FirstRefused, ClaimsNext, NextRefused, ReadsTask,
                  FallsBack, FindsConflict, ItemFails
    <3>5. (\E j \in Jobs : ServiceStep(j) \/ UserActs(j)) \/ Restart \/ Elsewhere
            => UNCHANGED items
      BY DEF ServiceStep, SubmitGoesOn, SubmitEnds, ServiceFails, UserActs,
                        Restart, Elsewhere
    <3> QED BY <2>1, <3>1, <3>2, <3>3, <3>4, <3>5 DEF AutoNext, autoVars
  <2> QED BY <2>2, <2>3
<1> QED BY <1>1, <1>2 DEF ItemsBacked

\* An item that reports its submission has a task of its content and profile that
\* CloudDrive2 has taken or a person has completed: between the event that says
\* so and the item's own update, no other thread can take that away.
THEOREM SubmittedItemsAreBacked == AutoSpec => []SubmittedItemsAreHeld
<1>1. AutoInit => ItemsBacked
  BY DEF AutoInit, ItemsBacked, RunnerKnows, Resting
<1>2. Typed /\ BackedInv /\ ItemsOK /\ ItemsBacked /\ [AutoNext]_autoVars => ItemsBacked'
  BY NextItemsBacked DEF BackedInv
<1>3. ItemsBacked => SubmittedItemsAreHeld
  BY DEF ItemsBacked, HasTask, OfItem, Backed, Taken, SubmittedItemsAreHeld, Held
<1> QED BY <1>1, <1>2, <1>3, ServiceImplemented, AlwaysBacked, AlwaysItems, PTL DEF AutoSpec

------------------------------------------------------------------------------
(***************************************************************************)
(* Switches.  SwitchNeedsUser is not inductive: it needs that the tasks of *)
(* a content follow each other, each left only once CloudDrive2 is known   *)
(* to be without it, and that runners keep to that between their sessions. *)
(***************************************************************************)

\* What excuses a second task at CloudDrive2: a user has claimed the content, or
\* another content brings the same candidate.
UserContents == {rows[v].claim.content : v \in {u \in DOMAIN rows : ByUser(u)}}
ExcusedTasks ==
  {t \in DOMAIN rows :
     \/ rows[t].claim.content \in UserContents
     \/ \E v \in DOMAIN rows : /\ rows[v].claim.content # rows[t].claim.content
                               /\ rows[v].claim.candidate = rows[t].claim.candidate}

HeldTasks == {t \in DOMAIN rows : Held(t)}
SubmittingTasks ==
  {t \in DOMAIN rows : \E j \in Jobs : job[j].pc \in {"ensure", "add"} /\ job[j].task = t}

\* A run has given a task up when CloudDrive2 has refused it, as its row says or
\* is about to say, and when it is going over, or has gone over, to another one.
RefusedTasks ==
  {t \in DOMAIN rows :
     \/ rows[t].rejected
     \/ \E j \in Jobs : job[j].pc = "record" /\ job[j].task = t /\ job[j].write.rejected}
Leaves(r, t) == work[r].pc \in {"next", "claim"} /\ work[r].task = t
LeftTasks ==
  {t \in DOMAIN rows :
     \E u \in DOMAIN rows : /\ rows[u].claim.supersedes = t
                            /\ rows[u].claim.candidate # rows[t].claim.candidate}
GivenUp == RefusedTasks \union LeftTasks \union {t \in DOMAIN rows : \E r \in Runners : Leaves(r, t)}

\* The tasks of a content follow each other, from one of generation 0, each for
\* a candidate of its own.
ChainInv ==
  /\ \A t \in DOMAIN rows :
       \/ rows[t].claim.content \in UserContents
       \/ \E v \in DOMAIN rows : /\ rows[v].claim.content = rows[t].claim.content
                                 /\ rows[v].claim.generation = 0
  /\ \A t, u \in DOMAIN rows :
       t # u /\ rows[t].claim.content = rows[u].claim.content =>
         \/ rows[t].claim.content \in UserContents
         \/ /\ rows[t].claim.candidate # rows[u].claim.candidate
            /\ t \in LeftTasks \/ u \in LeftTasks

\* What is given up is not with CloudDrive2 and does not get there, and what is
\* on its way was not there before.
SparedInv ==
  /\ GivenUp \intersect SubmittingTasks = {}
  /\ (GivenUp \union SubmittingTasks) \intersect HeldTasks \subseteq ExcusedTasks
  /\ poll.pc = "write" => ~poll.write.rejected

\* A runner is the only one that goes on from its task, which is the last of
\* its content, and has tried the candidates before.
Awaits(r, t) == work[r].pc \in {"read", "next", "claim"} /\ work[r].task = t
Tried(r, t) ==
  \A u \in DOMAIN rows :
    rows[u].claim.content = rows[t].claim.content =>
      \E m \in DOMAIN Order(r) : /\ rows[u].claim.candidate = Order(r)[m]
                                 /\ m <= work[r].index
                                 /\ Leaves(r, t) => m < work[r].index
RunnerOwns(r, t) ==
  Awaits(r, t) =>
    /\ rows[t].claim.content = ItemOf(r).content
    /\ t \notin LeftTasks
    /\ \A s \in Runners : Awaits(s, t) => s = r
    /\ rows[t].claim.content \in UserContents \/ Tried(r, t)
RunnerPlaced(r) ==
  /\ work[r].pc \in {"read", "next", "claim"} => work[r].index >= 1
  /\ work[r].pc = "claim" => work[r].task \in DOMAIN rows \union {NoTask}
RunnersInv == \A r \in Runners : RunnerPlaced(r) /\ \A t \in DOMAIN rows : RunnerOwns(r, t)

\* A claim to come: of a run for its next candidate, or of a user for the same.
ClaimGrounded(j, c) ==
  /\ c.supersedes \in DOMAIN rows
  /\ j \in Runners =>
       /\ work[j].pc = "claim" /\ work[j].task = c.supersedes
       /\ c.content = ItemOf(j).content
       /\ c.candidate = Order(j)[work[j].index]
  /\ j \notin Runners => rows[c.supersedes].claim.candidate = c.candidate
GroundsInv ==
  \A j \in Jobs : job[j].pc = "claim" => ClaimGrounded(j, job[j].claim)

SwitchInv == ChainInv /\ SparedInv /\ RunnersInv /\ GroundsInv

\* A first claim; one of a user, who asks for the same candidate again; and one of
\* a run that goes over to its next candidate.
FirstOfAll(c) == c.generation = 0 /\ c.supersedes = NoTask
OfUser(c) ==
  c.supersedes \in DOMAIN rows /\ rows[c.supersedes].claim.candidate = c.candidate
OfRunner(c, r) ==
  /\ work[r].pc = "claim" /\ work[r].task = c.supersedes /\ c.supersedes \in DOMAIN rows
  /\ c.content = ItemOf(r).content /\ c.candidate = Order(r)[work[r].index]

\* In the beginning there is nothing to switch from.
LEMMA InitSwitch == AutoInit => SwitchInv
<1> SUFFICES ASSUME AutoInit PROVE SwitchInv
  OBVIOUS
<1> USE DEF AutoInit, Init
<1>1. ChainInv
  BY DEF ChainInv
<1>2. SparedInv
  BY DEF SparedInv, GivenUp, RefusedTasks, LeftTasks, SubmittingTasks, Idle
<1>3. RunnersInv
  BY DEF RunnersInv, RunnerPlaced, RunnerOwns, Resting
<1>4. GroundsInv
  BY DEF GroundsInv, Idle
<1> QED BY <1>1, <1>2, <1>3, <1>4 DEF SwitchInv

\* Excuses stay, and so does having been left.
LEMMA ExcusesStay ==
  ASSUME Typed, LineageGrows, [Next]_vars
  PROVE  /\ UserContents \subseteq UserContents'
         /\ ExcusedTasks \subseteq ExcusedTasks'
         /\ LeftTasks \subseteq LeftTasks'
<1>1. \A t \in DOMAIN rows : t \in DOMAIN rows' /\ rows'[t].claim = rows[t].claim
  BY ClaimsKept
<1>2. UserContents \subseteq UserContents'
  BY <1>1 DEF UserContents, ByUser, LineageGrows
<1>3. ExcusedTasks \subseteq ExcusedTasks'
  BY <1>1, <1>2 DEF ExcusedTasks
<1>4. LeftTasks \subseteq LeftTasks'
  BY <1>1 DEF LeftTasks
<1> QED BY <1>2, <1>3, <1>4

\* The claims that join the table, and what else their steps leave alone.
LEMMA AutoTableStep ==
  ASSUME Typed, ItemsOK, GroundsInv, [AutoNext]_autoVars
  PROVE  \/ DOMAIN rows' = DOMAIN rows
         \/ /\ UNCHANGED <<offline, items>>
            /\ \E t \in Tasks, c \in Claims :
                 /\ Insert(t, c)
                 /\ \/ FirstOfAll(c) \/ OfUser(c)
                    \/ \E r \in Runners : ClaimsNext(r) /\ OfRunner(c, r)
<1>1. ASSUME NEW t, NEW w, Append(t, w)
      PROVE  DOMAIN rows' = DOMAIN rows
  BY <1>1 DEF Append
<1>2. ASSUME NEW j \in Jobs, SubmitNew(j), UNCHANGED items
      PROVE  /\ UNCHANGED <<offline, items>>
             /\ \E t \in Tasks, c \in Claims : Insert(t, c) /\ FirstOfAll(c)
  <2>1. PICK t \in Tasks, c \in Contents, k \in Candidates, p \in Profiles :
          Insert(t, [content |-> c, candidate |-> k, profile |-> p,
                     generation |-> 0, supersedes |-> NoTask])
    BY <1>2 DEF SubmitNew
  <2>2. [content |-> c, candidate |-> k, profile |-> p,
         generation |-> 0, supersedes |-> NoTask] \in Claims
    BY BoundsAssumption DEF Claims
  <2> QED BY <1>2, <2>1, <2>2 DEF SubmitNew, external, FirstOfAll
<1>3. ASSUME NEW j \in Jobs, ClaimRetry(j)
      PROVE  /\ UNCHANGED offline /\ job[j].claim \in Claims
             /\ \E t \in Tasks : Insert(t, job[j].claim)
             /\ ClaimGrounded(j, job[j].claim)
  BY <1>3, JobFields DEF ClaimRetry, external, Typed, TypeOK, GroundsInv
<1>4. ASSUME NEW r \in Runners, ItemStep(r), ~ClaimsFirst(r), ~ClaimsNext(r)
      PROVE  DOMAIN rows' = DOMAIN rows
  BY <1>4 DEF ItemStep, ItemBegins, FirstRefused, NextRefused, RetryRefused, ReadsTask,
              FallsBack, Fallback, ClaimNext, FindsConflict, ReportsStatus, ItemFails,
              vars, database
<1>5. ASSUME NEW r \in Runners, ClaimsFirst(r)
      PROVE  /\ UNCHANGED <<offline, items>>
             /\ \E t \in Tasks, c \in Claims : Insert(t, c) /\ FirstOfAll(c)
  <2>1. r \in Jobs /\ SubmitNew(r) /\ UNCHANGED items
    BY <1>5, FirstClaimIsNew, RunnersAssumption DEF ClaimsFirst
  <2> QED BY <1>2, <2>1
<1>6. ASSUME NEW r \in Runners, ClaimsNext(r)
      PROVE  /\ UNCHANGED <<offline, items>>
             /\ \E t \in Tasks, c \in Claims :
                  Insert(t, c) /\ OfRunner(c, r)
  BY <1>3, <1>6, RunnersAssumption DEF ClaimsNext, ClaimGrounded, OfRunner
<1>7. ASSUME NEW j \in Jobs, ServiceStep(j)
      PROVE  DOMAIN rows' = DOMAIN rows
  BY <1>1, <1>7 DEF ServiceStep, SubmitGoesOn, SubmitEnds, ServiceFails, EnsureDestination,
                    AddOffline, RecordResult, JobFails, database
<1>8. ASSUME NEW j \in Jobs \ Runners, UserActs(j)
      PROVE  \/ DOMAIN rows' = DOMAIN rows
             \/ /\ UNCHANGED <<offline, items>>
                /\ \E t \in Tasks, c \in Claims :
                     Insert(t, c) /\ (FirstOfAll(c) \/ OfUser(c))
  <2>1. CASE SubmitNew(j)
    BY <1>2, <1>8, <2>1 DEF UserActs
  <2>2. CASE ClaimRetry(j)
    BY <1>3, <1>8, <2>2 DEF UserActs, ClaimGrounded, OfUser
  <2>3. CASE Retry(j) \/ ForceMagnet(j) \/ RetryRefused(j) \/ ManualComplete(j)
    BY <2>3 DEF Retry, ForceMagnet, ClaimNext, RetryRefused, ManualComplete, database
  <2> QED BY <1>8, <2>1, <2>2, <2>3 DEF UserActs
<1>9. CASE Restart \/ Elsewhere
  BY <1>1, <1>9 DEF Restart, Crash, Elsewhere, PollStep, PollCycle, PollRead, PollSignal,
                    PollSnapshot, PollSkips, PollWrite, PollFails, DeadlinePasses,
                    OfflineProgress, FileGrows, database
<1>10. CASE UNCHANGED autoVars
  BY <1>10 DEF autoVars
<1>11. CASE \E r \in Runners : ItemStep(r)
  BY <1>4, <1>5, <1>6, <1>11
<1> QED BY <1>7, <1>8, <1>9, <1>10, <1>11 DEF AutoNext

\* A first claim for a content that has tasks, and a claim of a user, are excused.
LEMMA ClaimIsExcused ==
  ASSUME Typed, LineageGrows, ChainInv, [Next]_vars,
         NEW t \in Tasks, NEW c \in Claims, Insert(t, c), FirstOfAll(c) \/ OfUser(c)
  PROVE  /\ \A u \in DOMAIN rows :
              rows[u].claim.content = c.content => c.content \in UserContents'
         /\ c.content \in UserContents' \/ c.generation = 0
<1>1. t \in DOMAIN rows' /\ rows'[t].claim = c /\ ~Conflict(c)
  BY DEF Insert
<1>2. CASE FirstOfAll(c)
  <2>1. ASSUME NEW u \in DOMAIN rows, rows[u].claim.content = c.content
        PROVE  c.content \in UserContents
    <3>1. ~\E v \in DOMAIN rows : /\ rows[v].claim.content = c.content
                                 /\ rows[v].claim.generation = 0
      BY <1>1, <1>2 DEF Conflict, SameClaim, FirstOfAll
    <3> QED BY <2>1, <3>1 DEF ChainInv
  <2> QED BY <1>2, <2>1, ExcusesStay DEF FirstOfAll
<1>3. CASE OfUser(c)
  <2>1. /\ c.supersedes \in DOMAIN rows' /\ c.supersedes # NoTask
        /\ rows'[c.supersedes].claim.candidate = c.candidate
    BY <1>3, ClaimsKept, RowFields, NoTaskAssumption DEF OfUser, Typed, TypeOK
  <2>2. ByUser(t)'
    BY <1>1, <2>1 DEF ByUser
  <2> QED BY <1>1, <2>2 DEF UserContents
<1> QED BY <1>2, <1>3

\* A run goes over to a candidate that no task of the content is for, and leaves
\* its task behind as the others have been left.
LEMMA FallbackFollows ==
  ASSUME Typed, ItemsOK, LineageGrows, ChainInv, RunnersInv, [Next]_vars,
         NEW t \in Tasks, NEW c \in Claims, NEW r \in Runners, Insert(t, c), OfRunner(c, r),
         NEW u \in DOMAIN rows, rows[u].claim.content = c.content
  PROVE  \/ c.content \in UserContents'
         \/ rows[u].claim.candidate # c.candidate /\ u \in LeftTasks'
<1> DEFINE w == c.supersedes
<1>1. w \in DOMAIN rows /\ Awaits(r, w) /\ Leaves(r, w)
  BY DEF OfRunner, Awaits, Leaves
<1>2. /\ rows[w].claim.content = c.content /\ w \notin LeftTasks
      /\ rows[w].claim.content \in UserContents \/ Tried(r, w)
  BY <1>1 DEF RunnersInv, RunnerOwns, OfRunner
<1>3. CASE c.content \in UserContents
  BY <1>3, ExcusesStay
<1>4. CASE c.content \notin UserContents
  <2>1. \A v \in DOMAIN rows :
          rows[v].claim.content = c.content => rows[v].claim.candidate # c.candidate
    <3> SUFFICES ASSUME NEW v \in DOMAIN rows, rows[v].claim.content = c.content
                 PROVE  rows[v].claim.candidate # c.candidate
      OBVIOUS
    <3>1. PICK m \in DOMAIN Order(r) :
            rows[v].claim.candidate = Order(r)[m] /\ m < work[r].index
      BY <1>1, <1>2, <1>4 DEF Tried
    <3>2. work[r].index \in DOMAIN Order(r) /\ work[r].index \in Nat /\ ItemOf(r) \in ItemRows
      BY WorkFields DEF OfRunner, Resting
    <3>3. Order(r)[m] # Order(r)[work[r].index]
      BY <3>1, <3>2, RankedAssumption DEF Order, ItemRows
    <3> QED BY <3>1, <3>3 DEF OfRunner
  <2>2. CASE u = w
    <3>1. /\ t \in DOMAIN rows' /\ rows'[t].claim = c
          /\ u \in DOMAIN rows' /\ rows'[u].claim = rows[u].claim
      BY ClaimsKept DEF Insert
    <3>2. rows'[t].claim.supersedes = u /\ rows'[t].claim.candidate # rows'[u].claim.candidate
      BY <2>1, <2>2, <3>1
    <3>3. u \in LeftTasks'
      BY <3>1, <3>2 DEF LeftTasks
    <3> QED BY <2>1, <3>3
  <2>3. CASE u # w
    <3>1. u \in LeftTasks
      BY <1>1, <1>2, <1>4, <2>3 DEF ChainInv
    <3> QED BY <2>1, <3>1, ExcusesStay
  <2> QED BY <2>2, <2>3
<1> QED BY <1>3, <1>4

\* So the tasks of a content keep following each other.
LEMMA NextChain ==
  ASSUME Typed, ItemsOK, LineageGrows, ChainInv, RunnersInv, GroundsInv,
         [AutoNext]_autoVars
  PROVE  ChainInv'
<1>0. [Next]_vars
  BY AutoStepRefines
<1>1. \A t \in DOMAIN rows : t \in DOMAIN rows' /\ rows'[t].claim = rows[t].claim
  BY <1>0, ClaimsKept
<1>2. UserContents \subseteq UserContents' /\ LeftTasks \subseteq LeftTasks'
  BY <1>0, ExcusesStay
<1>3. CASE DOMAIN rows' = DOMAIN rows
  BY <1>1, <1>2, <1>3 DEF ChainInv
<1>4. ASSUME NEW t \in Tasks, NEW c \in Claims, Insert(t, c),
             c.content \in UserContents' \/ c.generation = 0
               \/ \E v \in DOMAIN rows : rows[v].claim.content = c.content,
             \A u \in DOMAIN rows :
               rows[u].claim.content = c.content =>
                 \/ c.content \in UserContents'
                 \/ rows[u].claim.candidate # c.candidate /\ u \in LeftTasks'
      PROVE  ChainInv'
  <2>1. DOMAIN rows' = DOMAIN rows \union {t} /\ rows'[t].claim = c
    BY <1>4 DEF Insert
  <2>2. ASSUME NEW u \in DOMAIN rows'
        PROVE  \/ rows'[u].claim.content \in UserContents'
               \/ \E v \in DOMAIN rows' : /\ rows'[v].claim.content = rows'[u].claim.content
                                         /\ rows'[v].claim.generation = 0
    BY <1>1, <1>2, <1>4, <2>1 DEF ChainInv
  <2>3. ASSUME NEW u \in DOMAIN rows', NEW v \in DOMAIN rows', u # v,
               rows'[u].claim.content = rows'[v].claim.content
        PROVE  \/ rows'[u].claim.content \in UserContents'
               \/ /\ rows'[u].claim.candidate # rows'[v].claim.candidate
                  /\ u \in LeftTasks' \/ v \in LeftTasks'
    BY <1>1, <1>2, <1>4, <2>1, <2>3 DEF ChainInv
  <2> QED BY <2>2, <2>3 DEF ChainInv
<1>5. ASSUME NEW t \in Tasks, NEW c \in Claims, Insert(t, c), FirstOfAll(c) \/ OfUser(c)
      PROVE  ChainInv'
  BY <1>0, <1>4, <1>5, ClaimIsExcused
<1>6. ASSUME NEW t \in Tasks, NEW c \in Claims, Insert(t, c),
             NEW r \in Runners, OfRunner(c, r)
      PROVE  ChainInv'
  <2>1. \E v \in DOMAIN rows : rows[v].claim.content = c.content
    BY <1>6 DEF RunnersInv, RunnerOwns, OfRunner, Awaits
  <2> QED BY <1>0, <1>4, <1>6, <2>1, FallbackFollows
<1> QED BY <1>3, <1>5, <1>6, AutoTableStep

\* A task is left only by the claim of the run that goes over to the next one.
LEMMA LeftStep ==
  ASSUME Typed, ItemsOK, LineageGrows, GroundsInv, [AutoNext]_autoVars,
         NEW t \in LeftTasks'
  PROVE  \/ t \in LeftTasks
         \/ t \in DOMAIN rows /\ \E r \in Runners : ClaimsNext(r) /\ Leaves(r, t)
<1>0. [Next]_vars
  BY AutoStepRefines
<1>1. \A u \in DOMAIN rows : u \in DOMAIN rows' /\ rows'[u].claim = rows[u].claim
  BY <1>0, ClaimsKept
<1>2. PICK u \in DOMAIN rows' : /\ rows'[u].claim.supersedes = t
                               /\ rows'[u].claim.candidate # rows'[t].claim.candidate
  BY DEF LeftTasks
<1>3. t \in DOMAIN rows' /\ t \in Tasks /\ t # NoTask
  BY <1>0, NextTyped, NoTaskAssumption DEF Typed, TypeOK, RowsOK, LeftTasks
<1>4. CASE u \in DOMAIN rows
  <2>1. rows[u].claim.supersedes = t /\ t \in DOMAIN rows
    BY <1>1, <1>2, <1>3, <1>4 DEF LineageGrows
  <2> QED BY <1>1, <1>2, <1>4, <2>1 DEF LeftTasks
<1>5. ASSUME NEW s \in Tasks, NEW c \in Claims, Insert(s, c), u \notin DOMAIN rows,
             \/ FirstOfAll(c) \/ OfUser(c)
             \/ \E r \in Runners : ClaimsNext(r) /\ OfRunner(c, r)
      PROVE  t \in DOMAIN rows /\ \E r \in Runners : ClaimsNext(r) /\ Leaves(r, t)
  <2>1. rows'[u].claim = c
    BY <1>5 DEF Insert
  <2>2. c.supersedes = t /\ c.candidate # rows'[t].claim.candidate
    BY <1>2, <2>1
  <2>3. ~FirstOfAll(c)
    BY <1>3, <2>2 DEF FirstOfAll
  <2>4. ~OfUser(c)
    BY <1>1, <2>2 DEF OfUser
  <2> QED BY <1>5, <2>2, <2>3, <2>4 DEF OfRunner, Leaves
<1> QED BY <1>2, <1>4, <1>5, AutoTableStep

\* Where a step takes a thread.
LEMMA JobMoves ==
  ASSUME Typed, [Next]_vars, NEW j \in Jobs
  PROVE  \/ job'[j] = job[j] \/ job'[j] = Idle
         \/ Resubmit(j) /\ job'[j].pc = "claim"
         \/ job'[j].pc = "ensure" /\ job'[j].task \notin DOMAIN rows
         \/ job[j].pc = "ensure" /\ job'[j].pc = "add" /\ job'[j].task = job[j].task
         \/ job'[j].pc = "record" /\ ~job'[j].write.rejected
         \/ /\ job[j].pc = "add" /\ job'[j].pc = "record" /\ job'[j].task = job[j].task
            /\ UNCHANGED offline
<1> USE DEF Typed, TypeOK
<1>1. ASSUME NEW state, Goto(j, state) PROVE job'[j] = state
  BY <1>1 DEF Goto, JobsOK
<1>2. ASSUME NEW t, NEW w, Record(j, t, w)
      PROVE  job'[j].pc = "record" /\ job'[j].task = t /\ job'[j].write = w
  <2> DEFINE state == [pc |-> "record", task |-> t, write |-> w]
  <2>1. state.pc = "record" /\ state.task = t /\ state.write = w
    OBVIOUS
  <2>2. Goto(j, state)
    BY <1>2 DEF Record
  <2> HIDE DEF state
  <2> QED BY <1>1, <2>1, <2>2
<1>3. CASE JobStep(j)
  <2>1. CASE Resubmit(j)
    <3>1. PICK c \in Claims : Goto(j, [pc |-> "claim", claim |-> c])
      BY <2>1, ResubmitReads
    <3>2. job'[j] = [pc |-> "claim", claim |-> c]
      BY <1>1, <3>1
    <3> QED BY <2>1, <3>2
  <2>2. CASE RetryRefused(j) \/ RecordResult(j) \/ JobFails(j)
    BY <1>1, <2>2 DEF RetryRefused, RecordResult, JobFails
  <2>3. CASE SubmitNew(j) \/ ClaimRetry(j)
    <3>1. PICK t, c : Insert(t, c) /\ Goto(j, [pc |-> "ensure", task |-> t])
      BY <2>3 DEF SubmitNew, ClaimRetry
    <3>2. job'[j] = [pc |-> "ensure", task |-> t] /\ t \notin DOMAIN rows
      BY <1>1, <3>1 DEF Insert
    <3> QED BY <3>2
  <2>4. CASE EnsureDestination(j)
    <3>1. CASE Record(j, job[j].task, Write("failed"))
      BY <1>2, <3>1 DEF Write
    <3>2. CASE Goto(j, [pc |-> "add", task |-> job[j].task,
                        baseline |-> disk[Dest(rows[job[j].task].claim)]])
      <4>1. job'[j] = [pc |-> "add", task |-> job[j].task,
                       baseline |-> disk[Dest(rows[job[j].task].claim)]]
        BY <1>1, <3>2
      <4> QED BY <2>4, <4>1 DEF EnsureDestination
    <3> QED BY <2>4, <3>1, <3>2 DEF EnsureDestination
  <2>5. CASE AddOffline(j)
    <3>1. PICK w : /\ Record(j, job[j].task, w)
                   /\ w.rejected => UNCHANGED offline
      BY <2>5 DEF AddOffline, Accepted, ResultUnknown, Write
    <3> QED BY <1>2, <2>5, <3>1 DEF AddOffline
  <2>6. CASE ManualComplete(j)
    <3>1. PICK t, w : Record(j, t, w) /\ ~w.rejected
      BY <2>6 DEF ManualComplete, Write
    <3> QED BY <1>2, <3>1
  <2> QED BY <1>3, <2>1, <2>2, <2>3, <2>4, <2>5, <2>6 DEF JobStep
<1>4. CASE \E i \in Jobs \ {j} : JobStep(i)
  BY <1>4, OtherJobsStay
<1>5. CASE PollStep \/ PollFails
  BY <1>5 DEF PollStep, PollCycle, PollRead, PollSignal, PollSnapshot, PollSkips, PollWrite,
              PollFails
<1>6. CASE Environment
  BY <1>6 DEF Environment, Crash, DeadlinePasses, OfflineProgress, FileGrows
<1>7. CASE UNCHANGED vars
  BY <1>7 DEF vars
<1> QED BY <1>3, <1>4, <1>5, <1>6, <1>7 DEF Next

\* No row but a new one gets a submission.
LEMMA SubmittingStep ==
  ASSUME Typed, [Next]_vars, NEW j \in Jobs, job'[j].pc \in {"ensure", "add"},
         job'[j].task \in DOMAIN rows
  PROVE  job[j].pc \in {"ensure", "add"} /\ job'[j].task = job[j].task
BY JobMoves DEF Idle

\* CloudDrive2 comes to hold a task at a destination by a request for it.
LEMMA HeldStep ==
  ASSUME Typed, [Next]_vars, NEW d \in Destinations, offline[d] = "none",
         offline'[d] # "none"
  PROVE  \E j \in Jobs : /\ job[j].pc = "add" /\ Dest(rows[job[j].task].claim) = d
                         /\ job'[j].pc = "record" /\ ~job'[j].write.rejected
<1> USE DEF Typed, TypeOK
<1>1. ASSUME NEW j \in Jobs, AddOffline(j)
      PROVE  /\ job[j].pc = "add" /\ Dest(rows[job[j].task].claim) = d
             /\ job'[j].pc = "record" /\ ~job'[j].write.rejected
  <2> DEFINE e == Dest(rows[job[j].task].claim)
  <2>1. PICK w : /\ Record(j, job[j].task, w) /\ ~w.rejected
                 /\ offline' \in {offline, Started(e), Requested(e)}
    BY <1>1 DEF AddOffline, Accepted, ResultUnknown, Write
  <2>2. job'[j] = [pc |-> "record", task |-> job[j].task, write |-> w]
    BY <2>1 DEF Record, Goto, JobsOK
  <2>3. e = d
    BY <2>1 DEF Started, Requested, ExternalOK
  <2> QED BY <1>1, <2>1, <2>2, <2>3 DEF AddOffline
<1>2. CASE \E e \in Destinations : OfflineProgress(e)
  BY <1>2 DEF OfflineProgress, OfflineNext, ExternalOK, OfflineStatus
<1>3. CASE \E j \in Jobs : \/ SubmitNew(j) \/ Resubmit(j) \/ ClaimRetry(j) \/ RetryRefused(j)
                           \/ EnsureDestination(j) \/ RecordResult(j)
                           \/ ManualComplete(j) \/ JobFails(j)
  BY <1>3, ResubmitReads DEF SubmitNew, ClaimRetry, RetryRefused, EnsureDestination,
                    RecordResult, ManualComplete, JobFails, external
<1>4. CASE PollStep \/ PollFails
  BY <1>4 DEF PollStep, PollCycle, PollRead, PollSignal, PollSnapshot, PollSkips,
                    PollWrite, PollFails, external
<1>5. CASE \/ Crash \/ (\E t \in Tasks : DeadlinePasses(t))
           \/ \E e \in Destinations : FileGrows(e)
  BY <1>5 DEF Crash, DeadlinePasses, FileGrows, external
<1>6. CASE UNCHANGED vars
  BY <1>6 DEF vars
<1> QED BY <1>1, <1>2, <1>3, <1>4, <1>5, <1>6 DEF Next, JobStep, Environment

\* A signal speaks of the download, not of its submission.
LEMMA SignalsNeverReject ==
  ASSUME NEW signal \in {"init", "downloading", "finished", "error"}, NEW current
  PROVE  ~SignalWrite(signal, current).rejected
BY DEF SignalWrite, Write

\* The poller never writes that a submission was rejected.
LEMMA PollNeverRejects ==
  ASSUME Typed, poll.pc = "write" => ~poll.write.rejected, [Next]_vars, poll'.pc = "write"
  PROVE  ~poll'.write.rejected
<1> USE DEF Typed, TypeOK
<1>1. CASE UNCHANGED poll
  BY <1>1
<1>2. ASSUME NEW w, NEW repeats, PollWrites(w, repeats), ~w.rejected
      PROVE  ~poll'.write.rejected
  BY <1>2 DEF PollWrites
<1>0. ~SilentWrite.rejected
  BY DEF SilentWrite, Write
<1>3. CASE PollSignal
  <2>1. \A s \in Signals(Dest(rows[poll.task].claim)) \ {"unknown"} :
          ~SignalWrite(s, poll.read.status).rejected
    BY SignalsNeverReject DEF Signals
  <2>2. CASE poll' = [poll EXCEPT !.pc = "snapshot"]
    <3>1. poll \in [pc : {"signal", "snapshot"}, task : Tasks, read : Reads, late : BOOLEAN]
      BY <1>3 DEF PollSignal, PollOK, PollStates, Idle
    <3>2. poll'.pc = "snapshot"
      BY <2>2, <3>1
    <3> QED BY <3>2
  <2>3. CASE PollWrites(SilentWrite, FALSE)
    BY <1>2, <1>0, <2>3
  <2>4. CASE \E s \in Signals(Dest(rows[poll.task].claim)) \ {"unknown"} :
               PollWrites(SignalWrite(s, poll.read.status), FALSE)
    BY <1>2, <2>1, <2>4
  <2> QED BY <1>3, <2>2, <2>3, <2>4 DEF PollSignal
<1>4. CASE PollSnapshot
  <2> DEFINE w == ObservationWrite(poll.read, disk[Dest(rows[poll.task].claim)], poll.late)
  <2>1. ~w.rejected
    BY DEF ObservationWrite, Write
  <2> HIDE DEF w
  <2>2. \E repeats : PollWrites(SilentWrite, repeats) \/ PollWrites(w, repeats)
    BY <1>4 DEF PollSnapshot, w
  <2> QED BY <1>0, <1>2, <2>1, <2>2
<1>5. CASE PollCycle \/ \E t \in Tasks : PollRead(t)
  BY <1>1, <1>5 DEF PollCycle, PollRead
<1>6. CASE PollSkips \/ PollWrite \/ PollFails \/ Crash
  BY <1>6 DEF PollSkips, PollWrite, PollFails, PollEnds, Crash, Idle
<1>7. CASE \E j \in Jobs : JobStep(j)
  BY <1>1, <1>7, ResubmitReads DEF JobStep, SubmitNew, ClaimRetry, RetryRefused,
     EnsureDestination, AddOffline, RecordResult, ManualComplete, JobFails
<1>8. CASE Environment
  BY <1>1, <1>6, <1>8 DEF Environment, DeadlinePasses, OfflineProgress, FileGrows
<1>9. CASE UNCHANGED vars
  BY <1>1, <1>9 DEF vars
<1> QED BY <1>3, <1>4, <1>5, <1>6, <1>7, <1>8, <1>9 DEF Next, PollStep

\* A refusal starts with the answer of CloudDrive2 to the job that submits.
LEMMA RefusedStep ==
  ASSUME Typed, SparedInv, [Next]_vars, NEW t \in RefusedTasks'
  PROVE  \/ t \in RefusedTasks
         \/ \E j \in Jobs : /\ job[j].pc = "add" /\ job[j].task = t /\ t \in DOMAIN rows
                            /\ job'[j].pc = "record" /\ UNCHANGED offline
<1> USE DEF Typed, TypeOK
<1>1. CASE \E j \in Jobs : /\ job'[j].pc = "record" /\ job'[j].task = t
                           /\ job'[j].write.rejected
  <2>1. PICK j \in Jobs : /\ job'[j].pc = "record" /\ job'[j].task = t
                          /\ job'[j].write.rejected
    BY <1>1
  <2>2. CASE job'[j] = job[j]
    BY <2>1, <2>2, JobFields DEF RefusedTasks
  <2>3. CASE job[j].pc = "add" /\ job'[j].task = job[j].task /\ UNCHANGED offline
    BY <2>1, <2>3, JobFields
  <2> QED BY <2>1, <2>2, <2>3, JobMoves DEF Idle
<1>2. CASE t \in DOMAIN rows' /\ rows'[t].rejected
  <2>1. CASE UNCHANGED rows
    BY <1>2, <2>1 DEF RefusedTasks
  <2>2. ASSUME NEW s, NEW c, Insert(s, c)
        PROVE  t \in RefusedTasks
    BY <1>2, <2>2 DEF Insert, RefusedTasks
  <2>3. ASSUME NEW s, NEW w, Append(s, w), ~rows[t].rejected
        PROVE  t \in DOMAIN rows /\ t = s /\ w.rejected
    BY <1>2, <2>3 DEF Append, Appended
  <2>4. CASE \E j \in Jobs : job[j].pc = "record" /\ Append(job[j].task, job[j].write)
    <3>1. PICK j \in Jobs : job[j].pc = "record" /\ Append(job[j].task, job[j].write)
      BY <2>4
    <3>2. t \in DOMAIN rows
      BY <1>2, <3>1 DEF Append
    <3> QED BY <2>3, <3>1, <3>2 DEF RefusedTasks
  <2>5. CASE poll.pc = "write" /\ Append(poll.task, poll.write)
    <3>1. t \in DOMAIN rows
      BY <1>2, <2>5 DEF Append
    <3> QED BY <2>3, <2>5, <3>1 DEF RefusedTasks, SparedInv
  <2> QED BY <2>1, <2>2, <2>4, <2>5, TableStep
<1> QED BY <1>1, <1>2 DEF RefusedTasks

\* Where a step takes a runner: with the same item, unless it begins a new one.
SameItem(r, pc, index) ==
  work'[r].pc = pc /\ work'[r].item = work[r].item /\ work'[r].index = index
LEMMA WorkMoves ==
  ASSUME Typed, ItemsOK, [AutoNext]_autoVars, NEW r \in Runners
  PROVE  \/ work'[r] = work[r] \/ work'[r].pc \in {"resting", "conflict", "report"}
         \/ /\ ItemBegins(r)
            /\ work'[r].pc = "claim" /\ work'[r].task = NoTask /\ work'[r].index = 1
         \/ /\ SameItem(r, "read", work[r].index) /\ UNCHANGED items
            /\ \/ ClaimsFirst(r) /\ Insert(work'[r].task, FirstClaim(r))
               \/ ClaimsNext(r) /\ Insert(work'[r].task, job[r].claim)
         \/ /\ ReadsTask(r) /\ Rejected(rows[work[r].task]) /\ work'[r].task = work[r].task
            /\ SameItem(r, "next", work[r].index + 1)
         \/ /\ FallsBack(r) /\ work'[r].task = work[r].task
            /\ SameItem(r, "claim", work[r].index)
<1>1. ASSUME NEW state, Turns(r, state) PROVE work'[r] = state
  BY <1>1 DEF Turns, ItemsOK
<1>2. ASSUME NEW pc, NEW index, NEW t, GoesOn(r, pc, index, t)
      PROVE  SameItem(r, pc, index) /\ work'[r].task = t
  <2> DEFINE state == [pc |-> pc, item |-> work[r].item, index |-> index, task |-> t]
  <2>1. /\ state.pc = pc /\ state.item = work[r].item /\ state.index = index
        /\ state.task = t
    OBVIOUS
  <2>2. Turns(r, state)
    BY <1>2 DEF GoesOn
  <2> HIDE DEF state
  <2> QED BY <1>1, <2>1, <2>2 DEF SameItem
<1>3. ASSUME NEW status, NEW d, Reports(r, status, d)
      PROVE  work'[r].pc = "report"
  BY <1>1, <1>3 DEF Reports
<1>4. ASSUME NEW claim, Refused(r, claim)
      PROVE  work'[r].pc \in {"conflict", "report"}
  BY <1>1, <1>3, <1>4 DEF Refused
<1>5. CASE ItemStep(r)
  <2>1. CASE ItemBegins(r)
    <3>1. PICK i \in Items :
            Turns(r, [pc |-> "claim", item |-> i, index |-> 1, task |-> NoTask])
      BY <2>1 DEF ItemBegins
    <3>2. work'[r] = [pc |-> "claim", item |-> i, index |-> 1, task |-> NoTask]
      BY <1>1, <3>1
    <3> QED BY <2>1, <3>2
  <2>2. CASE ClaimsFirst(r)
    <3>1. PICK t \in Tasks : Insert(t, FirstClaim(r)) /\ GoesOn(r, "read", work[r].index, t)
      BY <2>2 DEF ClaimsFirst
    <3> QED BY <1>2, <2>2, <3>1 DEF ClaimsFirst
  <2>3. CASE FirstRefused(r) \/ NextRefused(r)
    BY <1>4, <2>3 DEF FirstRefused, NextRefused
  <2>4. CASE ClaimsNext(r)
    <3>1. PICK t \in Tasks : /\ Insert(t, job[r].claim)
                             /\ Goto(r, [pc |-> "ensure", task |-> t])
      BY <2>4 DEF ClaimsNext, ClaimRetry
    <3>2. job'[r].task = t
      BY <3>1, RunnersAssumption DEF Goto, Typed, TypeOK, JobsOK
    <3>3. GoesOn(r, "read", work[r].index, t)
      BY <2>4, <3>2 DEF ClaimsNext
    <3> QED BY <1>2, <2>4, <3>1, <3>3 DEF ClaimsNext
  <2>5. CASE ReadsTask(r)
    <3>1. CASE Reports(r, Outcome(rows[work[r].task]), NoTask)
      BY <1>3, <3>1
    <3>2. CASE /\ Rejected(rows[work[r].task])
               /\ GoesOn(r, "next", work[r].index + 1, work[r].task)
      BY <1>2, <2>5, <3>2
    <3> QED BY <2>5, <3>1, <3>2 DEF ReadsTask
  <2>6. CASE FallsBack(r)
    <3>1. GoesOn(r, "claim", work[r].index, work[r].task)
      BY <2>6 DEF FallsBack
    <3> QED BY <1>2, <2>6, <3>1
  <2>7. CASE FindsConflict(r)
    BY <1>3, <2>7 DEF FindsConflict
  <2>8. CASE ReportsStatus(r) \/ ItemFails(r)
    BY <1>1, <2>8 DEF ReportsStatus, ItemFails, Resting
  <2> QED
    BY <1>5, <2>1, <2>2, <2>3, <2>4, <2>5, <2>6, <2>7, <2>8 DEF ItemStep
<1>6. CASE \E q \in Runners \ {r} : ItemStep(q)
  BY <1>6, OtherWorkStays
<1>7. ASSUME NEW j \in Jobs, ServiceStep(j)
      PROVE  work'[r] = work[r] \/ work'[r].pc = "resting"
  BY <1>7 DEF ServiceStep, SubmitGoesOn, SubmitEnds, ServiceFails, Turns, ItemsOK, Resting
<1>8. CASE (\E j \in Jobs : UserActs(j)) \/ Restart \/ Elsewhere \/ UNCHANGED autoVars
  BY <1>8 DEF UserActs, Restart, Elsewhere, autoVars, Resting
<1> QED BY <1>5, <1>6, <1>7, <1>8 DEF AutoNext

\* A run leaves a task once its row says that it was rejected.
LEMMA LeavesStep ==
  ASSUME Typed, ItemsOK, SparedInv, RunnersInv, [AutoNext]_autoVars,
         NEW r \in Runners, NEW t \in DOMAIN rows', Leaves(r, t)'
  PROVE  t \in GivenUp
<1>0. t # NoTask
  BY AutoStepRefines, NextTyped, NoTaskAssumption DEF Typed, TypeOK, RowsOK
<1>1. CASE work'[r] = work[r]
  <2>1. Leaves(r, t) /\ t \in DOMAIN rows
    BY <1>0, <1>1, WorkFields DEF Leaves, RunnersInv, RunnerPlaced
  <2> QED BY <2>1 DEF GivenUp
<1>2. CASE ReadsTask(r) /\ Rejected(rows[work[r].task]) /\ work'[r].task = work[r].task
  <2>1. t \in DOMAIN rows /\ rows[t].rejected
    BY <1>2, WorkFields DEF ReadsTask, Rejected, Leaves
  <2> QED BY <2>1 DEF GivenUp, RefusedTasks
<1>3. CASE FallsBack(r) /\ work'[r].task = work[r].task
  <2>1. t \in DOMAIN rows /\ Leaves(r, t)
    BY <1>3, WorkFields DEF FallsBack, Leaves
  <2> QED BY <2>1 DEF GivenUp
<1> QED BY <1>0, <1>1, <1>2, <1>3, WorkMoves DEF Leaves, SameItem

\* So a task is given up when CloudDrive2 refuses it.
LEMMA GivenUpStep ==
  ASSUME Typed, ItemsOK, LineageGrows, SparedInv, RunnersInv, GroundsInv,
         [AutoNext]_autoVars, NEW t \in GivenUp'
  PROVE  \/ t \in GivenUp
         \/ \E j \in Jobs : /\ job[j].pc = "add" /\ job[j].task = t /\ t \in DOMAIN rows
                            /\ job'[j].pc = "record" /\ UNCHANGED offline
<1>0. [Next]_vars
  BY AutoStepRefines
<1>1. CASE t \in RefusedTasks'
  BY <1>0, <1>1, RefusedStep DEF GivenUp
<1>2. CASE t \in LeftTasks'
  BY <1>2, LeftStep DEF GivenUp
<1>3. CASE t \in DOMAIN rows' /\ \E r \in Runners : Leaves(r, t)'
  BY <1>3, LeavesStep
<1> QED BY <1>1, <1>2, <1>3 DEF GivenUp

\* What is given up stays out of CloudDrive2: its request was refused, no other
\* request is on its way, and one for the same destination is for another content.
LEMMA NextSpared ==
  ASSUME Typed, ItemsOK, LineageGrows, ClaimPrecedesSubmission, SubmissionOwnsTask,
         SwitchInv, [AutoNext]_autoVars
  PROVE  SparedInv'
<1> USE DEF SwitchInv
<1>0. [Next]_vars
  BY AutoStepRefines
<1>1. \A t \in DOMAIN rows : t \in DOMAIN rows' /\ rows'[t].claim = rows[t].claim
  BY <1>0, ClaimsKept
<1>2. ExcusedTasks \subseteq ExcusedTasks' /\ UserContents \subseteq UserContents'
  BY <1>0, ExcusesStay
<1>3. ChainInv'
  BY NextChain
<1>4. GivenUp \subseteq DOMAIN rows
  BY DEF GivenUp, RefusedTasks, LeftTasks
<1>5. ASSUME NEW j \in Jobs, job[j].pc = "add", job'[j].pc = "record",
             job[j].task \in SubmittingTasks'
      PROVE  FALSE
  <2>1. PICK i \in Jobs : job'[i].pc \in {"ensure", "add"} /\ job'[i].task = job[j].task
    BY <1>5 DEF SubmittingTasks
  <2>2. job[j].task \in DOMAIN rows
    BY <1>5, JobFields DEF Typed, TypeOK
  <2>3. job[i].pc \in {"ensure", "add"} /\ job[i].task = job[j].task
    BY <1>0, <2>1, <2>2, SubmittingStep
  <2>4. i = j
    BY <1>5, <2>3 DEF SubmissionOwnsTask, Submits
  <2> QED BY <1>5, <2>1, <2>4
<1>6. SubmittingTasks' \intersect DOMAIN rows \subseteq SubmittingTasks
  BY <1>0, SubmittingStep DEF SubmittingTasks
<1>7. GivenUp' \intersect SubmittingTasks' = {}
  <2> SUFFICES ASSUME NEW t \in GivenUp', t \in SubmittingTasks' PROVE FALSE
    OBVIOUS
  <2>1. t \in GivenUp
    BY <1>5, GivenUpStep
  <2> QED BY <1>4, <1>6, <2>1 DEF SparedInv
<1>8. ASSUME NEW t \in DOMAIN rows, t \in HeldTasks', t \in GivenUp' \union SubmittingTasks'
      PROVE  t \in ExcusedTasks
  <2>1. CASE t \in HeldTasks
    <3>1. t \in GivenUp \union SubmittingTasks
      BY <1>6, <1>8, GivenUpStep DEF SubmittingTasks
    <3> QED BY <2>1, <3>1 DEF SparedInv
  <2>2. CASE t \notin HeldTasks
    <3> DEFINE d == Dest(rows[t].claim)
    <3>1. d \in Destinations /\ offline[d] = "none" /\ offline'[d] # "none"
      BY <1>1, <1>8, <2>2, RowFields DEF HeldTasks, Held, Typed, TypeOK
    <3>2. PICK j \in Jobs : /\ job[j].pc = "add" /\ Dest(rows[job[j].task].claim) = d
                            /\ job'[j].pc = "record"
      BY <1>0, <3>1, HeldStep
    <3> DEFINE s == job[j].task
    <3>3. s \in DOMAIN rows /\ s \in SubmittingTasks
      BY <3>2, JobFields DEF Typed, TypeOK, SubmittingTasks
    <3>4. CASE s = t
      <4>1. t \in GivenUp'
        BY <1>5, <1>8, <3>2, <3>4
      <4>2. t \in GivenUp
        BY <3>1, <4>1, GivenUpStep
      <4> QED BY <3>3, <3>4, <4>2 DEF SparedInv
    <3>5. CASE s # t
      <4>1. rows[s].claim.candidate = rows[t].claim.candidate
        BY <3>2 DEF Dest
      <4>2. CASE rows[s].claim.content # rows[t].claim.content
        BY <3>3, <4>1, <4>2 DEF ExcusedTasks
      <4>3. CASE rows[s].claim.content = rows[t].claim.content
        BY <3>3, <3>5, <4>1, <4>3 DEF ExcusedTasks, ChainInv
      <4> QED BY <4>2, <4>3
    <3> QED BY <3>4, <3>5
  <2> QED BY <2>1, <2>2
<1>9. ASSUME NEW t \in DOMAIN rows', t \notin DOMAIN rows, t \in HeldTasks'
      PROVE  t \in ExcusedTasks'
  <2>1. UNCHANGED offline
    BY <1>9, AutoTableStep
  <2>2. t \in Tasks /\ Dest(rows'[t].claim) \in Destinations /\ offline[Dest(rows'[t].claim)] # "none"
    <3>1. Typed'
      BY <1>0, NextTyped
    <3>2. t \in Tasks /\ Dest(rows'[t].claim) \in Destinations
      BY <1>9, <3>1 DEF Typed, TypeOK, RowsOK, Rows, Claims, Dest, Destinations
    <3> QED BY <1>9, <2>1, <3>2 DEF HeldTasks, Held
  <2>3. PICK u \in DOMAIN rows : Dest(rows[u].claim) = Dest(rows'[t].claim)
    BY <2>2 DEF ClaimPrecedesSubmission
  <2>4. /\ u \in DOMAIN rows' /\ u # t
        /\ rows'[u].claim.candidate = rows'[t].claim.candidate
    BY <1>1, <1>9, <2>3 DEF Dest
  <2> QED BY <1>3, <1>9, <2>4 DEF ChainInv, ExcusedTasks
<1>10. (GivenUp' \union SubmittingTasks') \intersect HeldTasks' \subseteq ExcusedTasks'
  BY <1>2, <1>8, <1>9 DEF HeldTasks
<1>11. poll'.pc = "write" => ~poll'.write.rejected
  BY <1>0, PollNeverRejects DEF SparedInv
<1> QED BY <1>7, <1>10, <1>11 DEF SparedInv

\* A runner that awaits a row of the table has awaited it before, at the same
\* place of its order or at the one before.
LEMMA AwaitsStep ==
  ASSUME Typed, ItemsOK, [AutoNext]_autoVars, NEW r \in Runners,
         NEW t \in DOMAIN rows, Awaits(r, t)'
  PROVE  /\ Awaits(r, t) /\ ~ClaimsNext(r)
         /\ work'[r].item = work[r].item /\ work[r].item \in DOMAIN items
         /\ \A m \in Nat :
              m <= work[r].index /\ (Leaves(r, t) => m < work[r].index) =>
                m <= work'[r].index /\ (Leaves(r, t)' => m < work'[r].index)
<1>1. t # NoTask
  BY NoTaskAssumption DEF Typed, TypeOK, RowsOK
<1>2. ~ClaimsNext(r)
  <2> SUFFICES ASSUME ClaimsNext(r) PROVE FALSE
    OBVIOUS
  <2>1. PICK s \in Tasks : /\ Insert(s, job[r].claim)
                           /\ Goto(r, [pc |-> "ensure", task |-> s])
    BY DEF ClaimsNext, ClaimRetry
  <2>2. job'[r].task = s
    BY <2>1, RunnersAssumption DEF Goto, Typed, TypeOK, JobsOK
  <2>3. work'[r].task = s
    BY <2>2 DEF ClaimsNext, GoesOn, Turns, ItemsOK
  <2> QED BY <2>1, <2>3 DEF Insert, Awaits
<1>3. work[r].pc \in {"read", "next", "claim"} =>
        work[r].item \in DOMAIN items /\ work[r].index \in Nat
  BY WorkFields DEF Resting
<1>4. CASE work'[r] = work[r]
  BY <1>2, <1>3, <1>4 DEF Awaits, Leaves
<1>5. CASE /\ ReadsTask(r) /\ work'[r].task = work[r].task
           /\ SameItem(r, "next", work[r].index + 1)
  BY <1>2, <1>3, <1>5 DEF Awaits, Leaves, ReadsTask, SameItem
<1>6. CASE /\ FallsBack(r) /\ work'[r].task = work[r].task
           /\ SameItem(r, "claim", work[r].index)
  BY <1>2, <1>3, <1>6 DEF Awaits, Leaves, FallsBack, SameItem
<1>7. \A s, c : Insert(s, c) => s # t
  BY DEF Insert
<1> QED BY <1>1, <1>2, <1>4, <1>5, <1>6, <1>7, WorkMoves DEF Awaits

\* A claim of another thread for the content of an awaited task is excused: no two
\* runs go on from tasks of one content that no user has claimed.
LEMMA OthersAreExcused ==
  ASSUME Typed, ItemsOK, LineageGrows, SwitchInv, [AutoNext]_autoVars,
         NEW r \in Runners, NEW t \in DOMAIN rows, Awaits(r, t), ~ClaimsNext(r),
         NEW u \in DOMAIN rows', u \notin DOMAIN rows,
         rows'[u].claim.content = rows[t].claim.content
  PROVE  rows[t].claim.content \in UserContents'
<1> USE DEF SwitchInv
<1>0. [Next]_vars
  BY AutoStepRefines
<1>1. PICK s \in Tasks, c \in Claims :
        /\ Insert(s, c)
        /\ \/ FirstOfAll(c) \/ OfUser(c)
           \/ \E q \in Runners : ClaimsNext(q) /\ OfRunner(c, q)
  BY AutoTableStep
<1>2. rows[t].claim.content = c.content
  BY <1>1 DEF Insert
<1>3. CASE FirstOfAll(c) \/ OfUser(c)
  BY <1>0, <1>1, <1>2, <1>3, ClaimIsExcused
<1>4. CASE \E q \in Runners : ClaimsNext(q) /\ OfRunner(c, q)
  <2>1. PICK q \in Runners : ClaimsNext(q) /\ OfRunner(c, q)
    BY <1>4
  <2> DEFINE w == c.supersedes
  <2>2. w \in DOMAIN rows /\ Awaits(q, w) /\ q # r
    BY <2>1 DEF OfRunner, Awaits
  <2>3. rows[w].claim.content = c.content /\ w \notin LeftTasks
    BY <2>1, <2>2 DEF RunnersInv, RunnerOwns, OfRunner
  <2>4. t \notin LeftTasks /\ w # t
    BY <2>2 DEF RunnersInv, RunnerOwns
  <2>5. c.content \in UserContents
    BY <1>2, <2>2, <2>3, <2>4 DEF ChainInv
  <2> QED BY <1>0, <1>2, <2>5, ExcusesStay
<1> QED BY <1>1, <1>3, <1>4

\* What a runner knows of a task stays true while it awaits it.
LEMMA OwnsStays ==
  ASSUME Typed, ItemsOK, LineageGrows, SwitchInv, [AutoNext]_autoVars,
         NEW r \in Runners, NEW t \in DOMAIN rows
  PROVE  RunnerOwns(r, t)'
<1> USE DEF SwitchInv
<1> SUFFICES ASSUME Awaits(r, t)'
             PROVE  /\ rows'[t].claim.content = ItemOf(r)'.content
                    /\ t \notin LeftTasks'
                    /\ \A s \in Runners : Awaits(s, t)' => s = r
                    /\ rows'[t].claim.content \in UserContents' \/ Tried(r, t)'
  BY DEF RunnerOwns
<1>0. [Next]_vars
  BY AutoStepRefines
<1>1. \A u \in DOMAIN rows : u \in DOMAIN rows' /\ rows'[u].claim = rows[u].claim
  BY <1>0, ClaimsKept
<1>2. /\ Awaits(r, t) /\ ~ClaimsNext(r)
      /\ work'[r].item = work[r].item /\ work[r].item \in DOMAIN items
  BY AwaitsStep
<1>3. /\ rows[t].claim.content = ItemOf(r).content
      /\ t \notin LeftTasks
      /\ \A s \in Runners : Awaits(s, t) => s = r
      /\ rows[t].claim.content \in UserContents \/ Tried(r, t)
  BY <1>2 DEF RunnersInv, RunnerOwns
<1>4. ItemOf(r)'.content = ItemOf(r).content
  BY <1>2, ItemsStay DEF ItemOf
<1>5. t \notin LeftTasks'
  <2>1. ASSUME NEW q \in Runners, ClaimsNext(q), Leaves(q, t)
        PROVE  FALSE
    BY <1>2, <1>3, <2>1 DEF Awaits, Leaves
  <2> QED BY <1>3, <2>1, LeftStep
<1>6. \A s \in Runners : Awaits(s, t)' => s = r
  BY <1>3, AwaitsStep
<1>7. rows'[t].claim.content \in UserContents' \/ Tried(r, t)'
  <2> SUFFICES ASSUME rows[t].claim.content \notin UserContents' PROVE Tried(r, t)'
    BY <1>1
  <2> SUFFICES ASSUME NEW u \in DOMAIN rows',
                      rows'[u].claim.content = rows[t].claim.content
               PROVE  \E m \in DOMAIN Order(r)' :
                        /\ rows'[u].claim.candidate = Order(r)'[m]
                        /\ m <= work'[r].index
                        /\ Leaves(r, t)' => m < work'[r].index
    BY <1>1 DEF Tried
  <2>1. u \in DOMAIN rows
    BY <1>2, OthersAreExcused
  <2>2. Tried(r, t)
    BY <1>0, <1>3, ExcusesStay
  <2>3. PICK m \in DOMAIN Order(r) : /\ rows[u].claim.candidate = Order(r)[m]
                                     /\ m <= work[r].index
                                     /\ Leaves(r, t) => m < work[r].index
    BY <1>1, <2>1, <2>2 DEF Tried
  <2>4. Order(r)' = Order(r)
    BY <1>4 DEF Order
  <2>5. m \in Nat
    BY <1>2, WorkFields, RankedAssumption DEF Order, ItemRows, Awaits, Resting
  <2>6. m <= work'[r].index /\ (Leaves(r, t)' => m < work'[r].index)
    BY <2>3, <2>5, AwaitsStep
  <2> QED BY <1>1, <2>1, <2>3, <2>4, <2>6
<1> QED BY <1>1, <1>3, <1>4, <1>5, <1>6, <1>7

\* The claim of a runner makes a task of its own.
LEMMA OwnsNew ==
  ASSUME Typed, ItemsOK, LineageGrows, SwitchInv, [AutoNext]_autoVars,
         NEW r \in Runners, NEW t \in DOMAIN rows', t \notin DOMAIN rows
  PROVE  RunnerOwns(r, t)'
<1> USE DEF SwitchInv
<1> SUFFICES ASSUME Awaits(r, t)'
             PROVE  /\ rows'[t].claim.content = ItemOf(r)'.content
                    /\ t \notin LeftTasks'
                    /\ \A s \in Runners : Awaits(s, t)' => s = r
                    /\ rows'[t].claim.content \in UserContents' \/ Tried(r, t)'
  BY DEF RunnerOwns
<1>0. [Next]_vars /\ t \in Tasks /\ t # NoTask
  BY AutoStepRefines, NextTyped, NoTaskAssumption DEF Typed, TypeOK, RowsOK
<1>1. \A u \in DOMAIN rows : u \in DOMAIN rows' /\ rows'[u].claim = rows[u].claim
  BY <1>0, ClaimsKept
<1>2. ASSUME NEW s \in Runners, Awaits(s, t)'
      PROVE  /\ SameItem(s, "read", work[s].index) /\ UNCHANGED items
             /\ \/ ClaimsFirst(s) /\ Insert(t, FirstClaim(s))
                \/ ClaimsNext(s) /\ Insert(t, job[s].claim)
  <2>1. CASE work'[s] = work[s]
    BY <1>0, <1>2, <2>1, WorkFields DEF Awaits, RunnersInv, RunnerPlaced
  <2>2. CASE ReadsTask(s) \/ FallsBack(s)
    <3>1. work[s].task # t
      BY <2>2, WorkFields DEF ReadsTask, FallsBack
    <3>2. UNCHANGED rows
      BY <2>2 DEF ReadsTask, FallsBack, Fallback, ClaimNext, vars, database
    <3> QED BY <3>2
  <2> QED BY <1>0, <1>2, <2>1, <2>2, WorkMoves DEF Awaits, SameItem
<1>3. t \notin LeftTasks'
  BY LeftStep DEF LeftTasks
<1>4. \A s \in Runners : Awaits(s, t)' => s = r
  <2> SUFFICES ASSUME NEW s \in Runners, Awaits(s, t)', s # r PROVE FALSE
    OBVIOUS
  <2>1. work'[s] = work[s]
    BY <1>2, OtherWorkStays DEF ItemStep
  <2>2. work'[s].pc = "read" /\ work[s].pc = "claim"
    BY <1>2 DEF SameItem, ClaimsFirst, ClaimsNext
  <2> QED BY <2>1, <2>2
<1>5. /\ work[r].pc = "claim" /\ work'[r].index = work[r].index /\ work'[r].pc = "read"
      /\ work'[r].item = work[r].item /\ UNCHANGED items
      /\ work[r].index \in DOMAIN Order(r) /\ work[r].index \in Nat
      /\ work[r].index >= 1 /\ ItemOf(r) \in ItemRows
  BY <1>2, WorkFields DEF SameItem, ClaimsFirst, ClaimsNext, RunnersInv, RunnerPlaced, Resting
<1>6. ItemOf(r)' = ItemOf(r) /\ Order(r)' = Order(r) /\ ~Leaves(r, t)'
  BY <1>5 DEF ItemOf, Order, Leaves
<1>7. ASSUME NEW c \in Claims, Insert(t, c), c.content = ItemOf(r).content,
             NEW k \in DOMAIN Order(r), c.candidate = Order(r)[k], k <= work[r].index,
             c.content \in UserContents'
               \/ \A u \in DOMAIN rows : rows[u].claim.content = c.content =>
                    \E m \in DOMAIN Order(r) : /\ rows[u].claim.candidate = Order(r)[m]
                                               /\ m <= work[r].index
      PROVE  /\ rows'[t].claim.content = ItemOf(r)'.content
             /\ rows'[t].claim.content \in UserContents' \/ Tried(r, t)'
  <2>1. DOMAIN rows' = DOMAIN rows \union {t} /\ rows'[t].claim = c
    BY <1>7 DEF Insert
  <2>2. CASE c.content \in UserContents'
    BY <1>6, <1>7, <2>1, <2>2
  <2>3. CASE c.content \notin UserContents'
    <3>1. ASSUME NEW u \in DOMAIN rows', rows'[u].claim.content = c.content
          PROVE  \E m \in DOMAIN Order(r)' : /\ rows'[u].claim.candidate = Order(r)'[m]
                                             /\ m <= work'[r].index
                                             /\ Leaves(r, t)' => m < work'[r].index
      BY <1>1, <1>5, <1>6, <1>7, <2>1, <2>3, <3>1
    <3> QED BY <1>6, <1>7, <2>1, <3>1 DEF Tried
  <2> QED BY <2>2, <2>3
<1>8. CASE ClaimsFirst(r) /\ Insert(t, FirstClaim(r))
  <2>1. FirstClaim(r) \in Claims /\ FirstOfAll(FirstClaim(r))
    BY <1>5, FirstClaimType DEF FirstOfAll, FirstClaim, Resting
  <2>2. /\ FirstClaim(r).content = ItemOf(r).content
        /\ FirstClaim(r).candidate = Order(r)[1] /\ 1 \in DOMAIN Order(r)
    BY <1>5, RankedAssumption DEF FirstClaim, Order, ItemRows
  <2>3. \A u \in DOMAIN rows :
          rows[u].claim.content = FirstClaim(r).content =>
            FirstClaim(r).content \in UserContents'
    BY <1>0, <1>8, <2>1, ClaimIsExcused
  <2> QED BY <1>3, <1>4, <1>5, <1>7, <1>8, <2>1, <2>2, <2>3
<1>9. CASE ClaimsNext(r) /\ Insert(t, job[r].claim)
  <2> DEFINE c == job[r].claim
             w == c.supersedes
  <2>1. job[r].pc = "claim" /\ r \in Jobs /\ c \in Claims
    BY <1>9, RunnersAssumption, JobFields DEF ClaimsNext, ClaimRetry, Typed, TypeOK
  <2>2. /\ w \in DOMAIN rows /\ work[r].task = w /\ c.content = ItemOf(r).content
        /\ c.candidate = Order(r)[work[r].index]
    BY <2>1 DEF GroundsInv, ClaimGrounded
  <2>3. Awaits(r, w) /\ Leaves(r, w)
    BY <1>5, <2>2 DEF Awaits, Leaves
  <2>4. /\ rows[w].claim.content = c.content
        /\ c.content \in UserContents \/ Tried(r, w)
    BY <2>2, <2>3 DEF RunnersInv, RunnerOwns
  <2>5. ASSUME NEW u \in DOMAIN rows, rows[u].claim.content = c.content, Tried(r, w)
        PROVE  \E m \in DOMAIN Order(r) : /\ rows[u].claim.candidate = Order(r)[m]
                                          /\ m <= work[r].index
    BY <2>4, <2>5 DEF Tried
  <2>6. c.content \in UserContents => c.content \in UserContents'
    BY <1>0, ExcusesStay
  <2> QED BY <1>3, <1>4, <1>5, <1>7, <1>9, <2>1, <2>2, <2>4, <2>5, <2>6
<1> QED BY <1>2, <1>8, <1>9

\* So each runner keeps its task to itself.
LEMMA NextRunners ==
  ASSUME Typed, ItemsOK, LineageGrows, SwitchInv, [AutoNext]_autoVars
  PROVE  RunnersInv'
<1>1. ASSUME NEW r \in Runners
      PROVE  RunnerPlaced(r)'
  <2>1. DOMAIN rows \subseteq DOMAIN rows'
    BY AutoStepRefines, RowsStay
  <2>2. RunnerPlaced(r)
    BY DEF SwitchInv, RunnersInv
  <2>3. work[r].pc \in {"read", "next"} => work[r].task \in DOMAIN rows
    BY WorkFields
  <2>4. work[r].pc \in {"read", "next", "claim"} => work[r].index \in Nat
    BY WorkFields
  <2> QED
    BY <2>1, <2>2, <2>3, <2>4, WorkMoves
       DEF RunnerPlaced, SameItem, ClaimsFirst, ClaimsNext, ReadsTask, FallsBack
<1> QED BY <1>1, OwnsStays, OwnsNew DEF RunnersInv

\* While a claim waits in its thread, so does the runner.
LEMMA ClaimWaits ==
  ASSUME Typed, ItemsOK, [AutoNext]_autoVars, NEW r \in Runners,
         work[r].pc = "claim", job[r].pc = "claim", job'[r].pc = "claim"
  PROVE  work'[r] = work[r]
<1> r \in Jobs
  BY RunnersAssumption
<1>1. ASSUME NEW state, Goto(r, state), state.pc # "claim"
      PROVE  FALSE
  BY <1>1 DEF Goto, Typed, TypeOK, JobsOK
<1>2. ~ItemStep(r)
  <2>1. ~ClaimsNext(r)
    BY <1>1 DEF ClaimsNext, ClaimRetry
  <2>2. ~NextRefused(r)
    BY <1>1 DEF NextRefused, RetryRefused, Idle
  <2> QED
    BY <2>1, <2>2 DEF ItemStep, ItemBegins, ClaimsFirst, FirstRefused, ReadsTask, FallsBack,
                      FindsConflict, ReportsStatus, ItemFails, Idle, Resting
<1>3. CASE \E q \in Runners \ {r} : ItemStep(q)
  BY <1>3, OtherWorkStays
<1>4. ASSUME NEW j \in Jobs, ServiceStep(j)
      PROVE  work'[r] = work[r]
  <2>1. CASE j = r
    BY <1>1, <1>4, <2>1 DEF ServiceStep, SubmitGoesOn, SubmitEnds, ServiceFails, JobFails,
                            EnsureDestination, AddOffline, RecordResult, Idle
  <2>2. CASE j # r
    BY <1>4, <2>2 DEF ServiceStep, SubmitGoesOn, SubmitEnds, ServiceFails, Turns, ItemsOK
  <2> QED BY <2>1, <2>2
<1>5. CASE Restart
  BY <1>5 DEF Restart, Crash, Idle
<1>6. CASE (\E j \in Jobs : UserActs(j)) \/ Elsewhere \/ UNCHANGED autoVars
  BY <1>6 DEF UserActs, Elsewhere, autoVars
<1> QED BY <1>2, <1>3, <1>4, <1>5, <1>6 DEF AutoNext

\* A claim comes into a thread by the fallback of a run, or by a user.
LEMMA ClaimComes ==
  ASSUME Typed, ItemsOK, [AutoNext]_autoVars, NEW j \in Jobs,
         job'[j].pc = "claim", job'[j] # job[j]
  PROVE  \/ j \in Runners /\ FallsBack(j)
         \/ j \notin Runners /\ (Retry(j) \/ ForceMagnet(j))
<1>1. ASSUME NEW state, Goto(j, state), state.pc # "claim"
      PROVE  FALSE
  BY <1>1 DEF Goto, Typed, TypeOK, JobsOK
<1>2. ASSUME NEW r \in Runners, ItemStep(r)
      PROVE  r = j /\ FallsBack(j)
  <2>1. r \in Jobs
    BY RunnersAssumption
  <2>2. JobStep(r) \/ UNCHANGED job
    BY <1>2, FirstClaimIsNew
       DEF ItemStep, ItemBegins, FirstRefused, ClaimsNext, NextRefused, ReadsTask,
           FallsBack, FindsConflict, ReportsStatus, ItemFails, JobStep, Resubmit, vars
  <2>3. r = j
    BY <2>1, <2>2, OtherJobsStay
  <2>4. ~ClaimsFirst(r) /\ ~ClaimsNext(r) /\ ~NextRefused(r)
    BY <1>1, <2>3 DEF ClaimsFirst, ClaimsNext, ClaimRetry, NextRefused, RetryRefused, Idle
  <2> QED
    BY <1>2, <2>3, <2>4 DEF ItemStep, ItemBegins, FirstRefused, ReadsTask, FindsConflict,
                            ReportsStatus, ItemFails, vars
<1>3. ASSUME NEW i \in Jobs, ServiceStep(i)
      PROVE  FALSE
  <2>1. i = j
    BY <1>3, OtherJobsStay DEF ServiceStep, SubmitGoesOn, SubmitEnds, ServiceFails, JobStep
  <2> QED
    BY <1>1, <1>3, <2>1 DEF ServiceStep, SubmitGoesOn, SubmitEnds, ServiceFails,
                            EnsureDestination, AddOffline, RecordResult, JobFails, Record, Idle
<1>4. ASSUME NEW i \in Jobs \ Runners, UserActs(i)
      PROVE  j \notin Runners /\ (Retry(j) \/ ForceMagnet(j))
  <2>1. i = j
    BY <1>4, OtherJobsStay DEF UserActs, JobStep, Resubmit
  <2>2. ~(SubmitNew(i) \/ ClaimRetry(i) \/ RetryRefused(i) \/ ManualComplete(i))
    BY <1>1, <2>1 DEF SubmitNew, ClaimRetry, RetryRefused, ManualComplete, Record, Idle
  <2> QED BY <1>4, <2>1, <2>2 DEF UserActs
<1>5. CASE Restart
  BY <1>5 DEF Restart, Crash, Idle
<1>6. CASE Elsewhere \/ UNCHANGED autoVars
  BY <1>6 DEF Elsewhere, PollStep, PollCycle, PollRead, PollSignal, PollSnapshot, PollSkips,
              PollWrite, PollFails, DeadlinePasses, OfflineProgress, FileGrows, autoVars
<1> QED BY <1>2, <1>3, <1>4, <1>5, <1>6 DEF AutoNext

\* A claim to come is that of its runner, or of a user for the same candidate.
LEMMA NextGrounds ==
  ASSUME Typed, ItemsOK, SwitchInv, [AutoNext]_autoVars
  PROVE  GroundsInv'
<1> USE DEF SwitchInv
<1> SUFFICES ASSUME NEW j \in Jobs, job'[j].pc = "claim"
             PROVE  ClaimGrounded(j, job[j].claim)'
  BY DEF GroundsInv
<1>0. [Next]_vars
  BY AutoStepRefines
<1>1. \A u \in DOMAIN rows : u \in DOMAIN rows' /\ rows'[u].claim = rows[u].claim
  BY <1>0, ClaimsKept
<1>2. ASSUME j \in Runners, work[j].pc # "resting", work'[j].item = work[j].item
      PROVE  ItemOf(j)'.content = ItemOf(j).content /\ Order(j)' = Order(j)
  BY <1>2, WorkFields, ItemsStay DEF ItemOf, Order
<1>3. CASE job'[j] = job[j]
  <2>1. ClaimGrounded(j, job[j].claim)
    BY <1>3 DEF GroundsInv
  <2>2. CASE j \in Runners
    <3>1. work'[j] = work[j]
      BY <1>3, <2>1, <2>2, ClaimWaits DEF ClaimGrounded
    <3>2. ItemOf(j)'.content = ItemOf(j).content /\ Order(j)' = Order(j)
      BY <1>2, <2>1, <2>2, <3>1 DEF ClaimGrounded
    <3> QED BY <1>1, <1>3, <2>1, <2>2, <3>1, <3>2 DEF ClaimGrounded
  <2>3. CASE j \notin Runners
    BY <1>1, <1>3, <2>1, <2>3 DEF ClaimGrounded
  <2> QED BY <2>2, <2>3
<1>4. CASE j \in Runners /\ FallsBack(j)
  <2>1. PICK t \in DOMAIN rows, k \in Candidates :
          ClaimNext(j, t, rows[t].claim.content, k, rows[t].claim.profile)
    BY <1>4 DEF FallsBack, Fallback
  <2>2. PICK g : Goto(j, [pc |-> "claim",
                          claim |-> [content |-> rows[t].claim.content, candidate |-> k,
                                     profile |-> rows[t].claim.profile, generation |-> g,
                                     supersedes |-> t]])
    BY <2>1 DEF ClaimNext
  <2>3. job'[j].claim.content = rows[t].claim.content /\ job'[j].claim.supersedes = t
    BY <2>2 DEF Goto, Typed, TypeOK, JobsOK
  <2>4. /\ work[j].pc = "next" /\ work[j].task = t
        /\ job'[j].claim.candidate = Order(j)[work[j].index]
        /\ GoesOn(j, "claim", work[j].index, t)
    BY <1>4, <2>3 DEF FallsBack
  <2>5. /\ work'[j].pc = "claim" /\ work'[j].task = t /\ work'[j].index = work[j].index
        /\ work'[j].item = work[j].item
    BY <1>4, <2>4 DEF GoesOn, Turns, ItemsOK
  <2>6. rows[t].claim.content = ItemOf(j).content
    BY <1>4, <2>4 DEF RunnersInv, RunnerOwns, Awaits
  <2>7. ItemOf(j)'.content = ItemOf(j).content /\ Order(j)' = Order(j)
    BY <1>2, <1>4, <2>4, <2>5
  <2> QED BY <1>1, <1>4, <2>3, <2>4, <2>5, <2>6, <2>7 DEF ClaimGrounded
<1>5. CASE j \notin Runners /\ (Retry(j) \/ ForceMagnet(j))
  <2>0. PICK t \in DOMAIN rows :
          \E content, profile : ClaimNext(j, t, content, rows[t].claim.candidate, profile)
    BY <1>5 DEF Retry, ForceMagnet
  <2>1. PICK content, profile : ClaimNext(j, t, content, rows[t].claim.candidate, profile)
    BY <2>0
  <2>2. PICK g : Goto(j, [pc |-> "claim",
                          claim |-> [content |-> content, candidate |-> rows[t].claim.candidate,
                                     profile |-> profile, generation |-> g,
                                     supersedes |-> t]])
    BY <2>1 DEF ClaimNext
  <2>3. /\ job'[j].claim.candidate = rows[t].claim.candidate
        /\ job'[j].claim.supersedes = t
    BY <2>2 DEF Goto, Typed, TypeOK, JobsOK
  <2> QED BY <1>1, <1>5, <2>3 DEF ClaimGrounded
<1> QED BY <1>3, <1>4, <1>5, ClaimComes

\* CloudDrive2 holds two candidates of one content only if a user has claimed the
\* content again or another content shares one of them: however sessions of runs,
\* answers of CloudDrive2 and crashes interleave, no run goes over to the next
\* candidate while CloudDrive2 has, or may still get, the last one.
THEOREM SwitchesNeedUsers == AutoSpec => []SwitchNeedsUser
<1>1. /\ Typed /\ ItemsOK /\ LineageGrows /\ ClaimPrecedesSubmission /\ BaselineInv
      /\ SwitchInv /\ [AutoNext]_autoVars
      => SwitchInv'
  <2> SUFFICES ASSUME Typed, ItemsOK, LineageGrows, ClaimPrecedesSubmission,
                      SubmissionOwnsTask, SwitchInv, [AutoNext]_autoVars
               PROVE  SwitchInv'
    BY DEF BaselineInv
  <2>1. ChainInv'
    BY NextChain DEF SwitchInv
  <2>2. SparedInv'
    BY NextSpared
  <2>3. RunnersInv'
    BY NextRunners
  <2>4. GroundsInv'
    BY NextGrounds
  <2> QED BY <2>1, <2>2, <2>3, <2>4 DEF SwitchInv
<1>2. SwitchInv => SwitchNeedsUser
  <2> SUFFICES ASSUME ChainInv, SparedInv, NEW t \in DOMAIN rows, NEW u \in DOMAIN rows,
                      rows[t].claim.content = rows[u].claim.content,
                      rows[t].claim.candidate # rows[u].claim.candidate, Held(t), Held(u)
               PROVE  \E v \in DOMAIN rows :
                        \/ ByUser(v) /\ rows[v].claim.content = rows[t].claim.content
                        \/ /\ rows[v].claim.content # rows[t].claim.content
                           /\ rows[v].claim.candidate
                                \in {rows[t].claim.candidate, rows[u].claim.candidate}
    BY DEF SwitchInv, SwitchNeedsUser
  <2>1. rows[t].claim.content \in UserContents \/ t \in LeftTasks \/ u \in LeftTasks
    BY DEF ChainInv
  <2>2. rows[t].claim.content \in UserContents \/ t \in ExcusedTasks \/ u \in ExcusedTasks
    BY <2>1 DEF SparedInv, GivenUp, HeldTasks
  <2> QED BY <2>2 DEF ExcusedTasks, UserContents
<1> QED
  BY <1>1, <1>2, InitSwitch, ServiceImplemented, AlwaysItems, LineagesGrow,
     ClaimsPrecedeSubmissions, AlwaysBaseline, PTL DEF AutoSpec
==============================================================================
