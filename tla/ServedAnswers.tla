----------------------------- MODULE ServedAnswers -----------------------------
(***************************************************************************)
(* The answers that the HTTP client of ProviderHttp has given to runs, and *)
(* those that it keeps for them.                                           *)
(***************************************************************************)
EXTENDS Integers

CONSTANT TTL     \* cache_ttl_seconds
VARIABLES
  runCache,    \* _run_cache: <<run, key>> -> answer, of each client
  ended,       \* the runs that have ended
  unfinished,  \* history: those whose end was not recorded
  served       \* history: what runs have been given, and when

InTime(x) == x.at = x.answer.received \/ x.at < x.answer.received + TTL

\* PRD, sources: a run never gets two answers to one query, though it goes on
\* longer than the cache lives and other runs ask the same at the same time; and
\* the answer was not older than the time to live when it was first given,
\* however long the run had waited for the client.
RunSeesOneAnswer ==
  \A x \in served :
    LET same == {y \in served : y.run = x.run /\ y.key = x.key}
    IN  (\A y \in same : y.answer = x.answer) /\ (\E y \in same : InTime(y))

\* RunService._finish_provider_run: no client keeps anything for a run that has
\* ended, whichever client it had asked and whoever asks there still, unless
\* its end was not recorded.
EndedRunsAreForgotten ==
  \A c \in DOMAIN runCache : \A k \in DOMAIN runCache[c] :
    k[1] \in ended => k[1] \in unfinished
==============================================================================
