------------------------------- MODULE EventLog -------------------------------
(***************************************************************************)
(* The events of one download task and the row they leave behind           *)
(* (append_download_event in db/repository.py, its callers in              *)
(* downloads/service.py).                                                  *)
(*                                                                         *)
(* DownloadService takes append_download_event for one step.  Here it is   *)
(* the three that SQLite sees: the session loads the row, reads the last   *)
(* number, and its flush writes the event with the columns that differ     *)
(* from the row it loaded.                                                 *)
(***************************************************************************)
EXTENDS Integers, Sequences, SequencesExt, DownloadState, EventTables

CONSTANTS
  Submitter, Poller, User,    \* the threads that append events
  Deadline,                   \* attention_after_at
  MaxClock,                   \* bound: the last instant
  MaxEvents                   \* bound: events of the task

ThreadsAssumption ==
  Submitter # Poller /\ Poller # User /\ Submitter # User
BoundsAssumption == {Deadline, MaxClock, MaxEvents} \subseteq Nat

VARIABLES
  clock,      \* datetime.now
  thread      \* where each thread stands

vars == <<row, log, clock, thread, crossed>>

Threads == {Submitter, Poller, User}
Sources == {"system", "manual"}
Errors == {"submission_result_unknown", "external_task_already_exists", "explicit_rejection",
           "client_error", "poll_error"}
FileKinds == {"no_reliable_progress", "file_changes_observed", "stable_files_completed"}
Kinds == Errors \union FileKinds \union
         {"claim_created", "accepted", "task_api", "completion_baseline_unavailable",
          "manual_confirmation"}

\* "changed": the observation differs from the stored one; "error": the event
\* comes with an error code.
Event(kind, status, source, at) ==
  [kind |-> kind, status |-> status, source |-> source, at |-> at,
   error |-> kind \in Errors, changed |-> FALSE]
Changed(event) == [event EXCEPT !.changed = TRUE]

Idle == [pc |-> "idle"]
Become(t, state) == thread' = [thread EXCEPT ![t] = state]

------------------------------------------------------------------------------
(***************************************************************************)
(* append_download_event.                                                  *)
(***************************************************************************)

Begin(t, event) == Become(t, [pc |-> "load", event |-> event])

\* session.get.
Load(t) ==
  /\ thread[t].pc = "load"
  /\ Become(t, [pc |-> "number", event |-> thread[t].event, seen |-> row, events |-> Len(log)])
  /\ UNCHANGED <<row, log, clock, crossed>>

\* max(sequence) + 1, in a read of its own.
ReadNumber(t) ==
  /\ thread[t].pc = "number"
  /\ LET r == thread[t]
     IN  Become(t, [pc |-> "flush", event |-> r.event, seen |-> r.seen, events |-> r.events,
                    number |-> Len(log) + 1])
  /\ UNCHANGED <<row, log, clock, crossed>>

\* The events that come with a completion_state: an answer after which there is
\* a baseline (a lost answer has the one taken before the call), and what a poll
\* sees of the files.
Carries(event) == event.kind \in {"accepted", "submission_result_unknown"} \union FileKinds

\* Mutant: the mark of a completion by hand stands whoever comes next.
WrittenUnmarked(seen, event) ==
  [status  |-> IF event.status # seen.status THEN event.status ELSE row.status,
   updated |-> event.at,
   error   |-> event.error,
   manual  |-> event.status = "completed" /\ event.source = "manual",
   completion |-> row.completion \/ Carries(event)]

\* The row after the update of the columns that the session takes for changed.
Written(seen, event) ==
  LET Column(loaded, new, now) == IF new # loaded THEN new ELSE now
  IN  [status  |-> Column(seen.status, event.status, row.status),
       updated |-> Column(seen.updated, event.at, row.updated),
       error   |-> Column(seen.error, event.error, row.error),
       manual  |-> row.manual \/ (event.source = "manual" /\ event.status = "completed"),
       completion |-> row.completion \/ Carries(event)]

\* Mutant: no constraint on the number.
FreeAlways(number) == TRUE

\* UniqueConstraint(download_task_id, sequence).
FreeNumber(number) == number = Len(log) + 1

Flush(t) ==
  /\ thread[t].pc = "flush" /\ FreeNumber(thread[t].number)
  /\ row' = Written(thread[t].seen, thread[t].event)
  /\ log' = Append(log, thread[t].event)
  /\ crossed' = (thread[t].events # thread[t].number - 1)
  /\ Become(t, Idle)
  /\ UNCHANGED clock

\* The IntegrityError takes the update of the row with it.
FlushRefused(t) ==
  /\ thread[t].pc = "flush" /\ ~FreeNumber(thread[t].number)
  /\ Become(t, Idle)
  /\ UNCHANGED <<row, log, clock, crossed>>

------------------------------------------------------------------------------
(***************************************************************************)
(* submit_candidate.                                                       *)
(***************************************************************************)

SubmitBegins ==
  /\ ~Claimed /\ thread[Submitter] = Idle
  /\ Become(Submitter, [pc |-> "claim", now |-> clock])
  /\ UNCHANGED <<row, log, clock, crossed>>

\* claim_download has an instant of its own.
Claim ==
  /\ thread[Submitter].pc = "claim"
  /\ row' = [status |-> "submitting", updated |-> clock, error |-> FALSE, manual |-> FALSE,
             completion |-> FALSE]
  /\ log' = <<Event("claim_created", "submitting", "system", clock)>>
  /\ Become(Submitter, [thread[Submitter] EXCEPT !.pc = "submit"])
  /\ UNCHANGED <<clock, crossed>>

\* The answers of ensure_destination and submit, with the status each leaves.
Answers == {<<"accepted", "submitted">>, <<"submission_result_unknown", "submitting">>,
            <<"external_task_already_exists", "attention_required">>,
            <<"explicit_rejection", "failed">>, <<"client_error", "failed">>}

SubmitAnswers ==
  /\ thread[Submitter].pc = "submit"
  /\ \E answer \in Answers :
       Begin(Submitter, Event(answer[1], answer[2], "system", thread[Submitter].now))
  /\ UNCHANGED <<row, log, clock, crossed>>

------------------------------------------------------------------------------
(***************************************************************************)
(* poll and manual_complete.                                               *)
(***************************************************************************)

\* get_download_task.
ReadsTask(t) ==
  /\ Claimed /\ thread[t] = Idle /\ Len(log) < MaxEvents
  /\ \/ t = User
     \/ t = Poller /\ row.status \in Unfinished
  /\ Become(t, [pc |-> "time", current |-> row.status, completion |-> row.completion])
  /\ UNCHANGED <<row, log, clock, crossed>>

\* transition_status refuses to complete a failed task by hand.
ManualComplete ==
  /\ thread[User].pc = "time"
  /\ IF Legal(thread[User].current, "completed")
       THEN Begin(User, Event("manual_confirmation", "completed", "manual", clock))
       ELSE Become(User, Idle)
  /\ UNCHANGED <<row, log, clock, crossed>>

\* The instant of the poll is taken before the remote calls.
PollAsks ==
  /\ thread[Poller].pc = "time"
  /\ LET r == thread[Poller]
     IN  Become(Poller, [pc |-> "ask", current |-> r.current, completion |-> r.completion,
                         now |-> clock])
  /\ UNCHANGED <<row, log, clock, crossed>>

\* An event of a poll that is not compared with the last one; an illegal
\* transition raises.
Appends(kind, target) ==
  IF Legal(thread[Poller].current, target)
    THEN Begin(Poller, Event(kind, target, "system", thread[Poller].now))
    ELSE Become(Poller, Idle)

\* A signal of the task interface.
PollGetsSignal ==
  /\ thread[Poller].pc = "ask"
  /\ LET current == thread[Poller].current
         inits == IF current = "submitting" THEN "submitted" ELSE current
     IN  \E target \in {"completed", "failed", "downloading", inits} : Appends("task_api", target)
  /\ UNCHANGED <<row, log, clock, crossed>>

Target == WithoutEvidence(thread[Poller].current, thread[Poller].now >= Deadline)

\* get_task_signal or snapshot raises.
PollFails ==
  /\ thread[Poller].pc = "ask"
  /\ Appends("poll_error", Target)
  /\ UNCHANGED <<row, log, clock, crossed>>

\* No signal, and no completion_state in the row that the poll has read: the
\* event is appended each time.
PollWithoutBaseline ==
  /\ thread[Poller].pc = "ask" /\ ~thread[Poller].completion
  /\ Appends("completion_baseline_unavailable", Target)
  /\ UNCHANGED <<row, log, clock, crossed>>

\* No signal, but files: they are complete or have grown, or there is no
\* progress, though the observation may differ from the stored one all the same
\* (files that are not larger than the baseline).
PollObserves ==
  /\ thread[Poller].pc = "ask" /\ thread[Poller].completion
  /\ \/ Appends("stable_files_completed", "completed")
     \/ Appends("file_changes_observed", "downloading")
     \/ LET event == Event("no_reliable_progress", Target, "system", thread[Poller].now)
        IN  \E observed \in {event, Changed(event)} :
              Become(Poller, [pc |-> "compare", event |-> observed])
  /\ UNCHANGED <<row, log, clock, crossed>>

\* Whether the observation says what the latest event has said.
Repeats(event) ==
  LET last == Last(log)
  IN  ~event.changed /\ last.kind = event.kind /\ last.status = event.status
      /\ last.source = "system"

\* Mutant: every observation is an event.
PollAppends ==
  /\ thread[Poller].pc = "compare"
  /\ Begin(Poller, thread[Poller].event)
  /\ UNCHANGED <<row, log, clock, crossed>>

PollCompares ==
  /\ thread[Poller].pc = "compare"
  /\ IF Repeats(thread[Poller].event) THEN Become(Poller, Idle)
     ELSE Begin(Poller, thread[Poller].event)
  /\ UNCHANGED <<row, log, clock, crossed>>

Tick ==
  /\ clock < MaxClock /\ clock' = clock + 1
  /\ UNCHANGED <<row, log, thread, crossed>>

------------------------------------------------------------------------------
Init ==
  /\ row = [status |-> "submitting", updated |-> 0, error |-> FALSE, manual |-> FALSE,
            completion |-> FALSE]
  /\ log = <<>> /\ clock = 0 /\ crossed = FALSE
  /\ thread = [t \in Threads |-> Idle]

Submit == SubmitBegins \/ Claim \/ SubmitAnswers
Poll ==
  \/ PollAsks \/ PollGetsSignal \/ PollFails \/ PollWithoutBaseline \/ PollObserves
  \/ PollCompares

AppendEvent(t) == Load(t) \/ ReadNumber(t) \/ Flush(t) \/ FlushRefused(t)

Next ==
  \/ Submit \/ Poll \/ ManualComplete \/ Tick
  \/ \E t \in Threads : AppendEvent(t) \/ ReadsTask(t)

Spec == Init /\ [][Next]_vars

------------------------------------------------------------------------------
(* Properties.                                                             *)

Events == [kind : Kinds, status : Status, source : Sources, at : 0..MaxClock,
           error : BOOLEAN, changed : BOOLEAN]

\* Every variable has its type: a number is never beyond the next one.
TypeOK ==
  /\ row \in [status : Status, updated : 0..MaxClock, error : BOOLEAN, manual : BOOLEAN,
             completion : BOOLEAN]
  /\ log \in Seq(Events) /\ clock \in 0..MaxClock /\ crossed \in BOOLEAN
  /\ \A t \in Threads :
       /\ thread[t].pc \in {"idle", "claim", "submit", "time", "ask", "compare",
                            "load", "number", "flush"}
       /\ thread[t].pc \in {"number", "flush"} => thread[t].events <= Len(log)
       /\ thread[t].pc = "flush" => thread[t].number \in thread[t].events + 1 .. Len(log) + 1
==============================================================================
