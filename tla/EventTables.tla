------------------------------ MODULE EventTables ------------------------------
(***************************************************************************)
(* The row of a download task and its events, as EventLog leaves them.     *)
(***************************************************************************)
EXTENDS Integers, Sequences, SequencesExt

VARIABLES
  row,        \* status, updated_at, last_error_code, manual_completed, and
              \* whether completion_state_json is there
  log,        \* the events in the order of their sequence numbers
  crossed     \* history: the thread of the last event had loaded the row
              \* before the event that precedes it

Claimed == log # <<>>

\* append_download_event: the row shows the status, the time and the error of
\* the last event, unless the thread of that event had loaded the row before
\* the event that precedes it was there.
RowFollowsLog ==
  Claimed /\ ~crossed =>
    /\ row.status = Last(log).status
    /\ row.updated = Last(log).at
    /\ row.error = Last(log).error

\* manual_complete: a task is marked as completed by hand exactly when one of
\* its events says so, whoever has written its row since, and whatever was
\* refused.
ManualCompletionIsMarked ==
  row.manual <=> \E i \in DOMAIN log : log[i].source = "manual" /\ log[i].status = "completed"

\* poll: an observation of the files without progress that says what the event
\* before it has said is no event, whoever appended in between; and a task whose
\* files have been compared once never falls back to the polls without a
\* baseline.  (Those, errors and signals are an event each time.)
StandstillIsLoggedOnce ==
  /\ \A i \in 2..Len(log) :
       log[i].kind = "no_reliable_progress" /\ log[i - 1].kind = "no_reliable_progress" =>
         log[i].changed \/ log[i].status # log[i - 1].status
  /\ \A i, j \in 1..Len(log) :
       i < j /\ log[i].kind = "no_reliable_progress" =>
         log[j].kind # "completion_baseline_unavailable"
==============================================================================
