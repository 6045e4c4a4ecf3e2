---------------------------- MODULE DownloadState ----------------------------
(***************************************************************************)
(* The status of a download task and the table of legal transitions        *)
(* (downloads/state.py).                                                   *)
(***************************************************************************)

\* The statuses of DownloadStatus, and the two that end a task.
Terminal == {"completed", "failed"}
Unfinished == {"submitting", "submitted", "downloading", "attention_required"}
Status == Terminal \union Unfinished

Allowed ==
  [ submitting         |-> Status \ {"submitting"},
    submitted          |-> Status \ {"submitting", "submitted"},
    downloading        |-> Terminal \union {"attention_required"},
    attention_required |-> Status \ {"submitting", "attention_required"},
    completed          |-> {},
    failed             |-> {} ]

\* Whether transition_status(current, target) returns target: it raises
\* InvalidStatusTransition otherwise.
Legal(current, target) == target = current \/ target \in Allowed[current]

\* Mutant: the deadline of a task whose submission never got an answer is
\* ignored.
WaitsForAnswer(current, late) ==
  IF late /\ current \in {"submitted", "downloading"} THEN "attention_required"
  ELSE current

\* transition_status with no target or with unreliable evidence: the status
\* stays as it is until the deadline, and asks for attention after it.
WithoutEvidence(current, late) ==
  IF late /\ current \notin Terminal THEN "attention_required" ELSE current
==============================================================================
