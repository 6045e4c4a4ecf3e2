------------------------------- MODULE TaskTable -------------------------------
(***************************************************************************)
(* The download tasks that requests, runs and retries claim, as            *)
(* ManualSubmission leaves them.                                           *)
(***************************************************************************)
EXTENDS Integers, Sequences

VARIABLE tasks  \* the rows of download_tasks, in the order of their claims

\* No task has been made by the fallback of a run.
NoFallbacks == \A i \in DOMAIN tasks : tasks[i].by # "fallback"

\* submit_magnet: a forced task replaces a task of the same BTIH and is of a
\* later generation, whatever has been claimed since the check.
ForcedAreLinked ==
  \A i \in DOMAIN tasks : tasks[i].by = "forced" =>
    /\ tasks[i].supersedes # 0
    /\ tasks[tasks[i].supersedes].btih = tasks[i].btih
    /\ tasks[tasks[i].supersedes].generation < tasks[i].generation

\* docs/PRD-v0.1.md: a duplicate takes force, which is confirmed twice.  A task
\* that was submitted by hand without force is the first of its BTIH, as long as
\* no run has fallen back: nothing keeps a magnet and a fallback apart.
OrdinaryComesFirst ==
  NoFallbacks =>
    \A i \in DOMAIN tasks : tasks[i].by \in {"ordinary", "authorized", "number"} =>
      ~ \E j \in 1..i - 1 : tasks[j].btih = tasks[i].btih
==============================================================================
