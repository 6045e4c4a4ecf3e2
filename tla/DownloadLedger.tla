---------------------------- MODULE DownloadLedger ----------------------------
(***************************************************************************)
(* What the download table promises (docs/adr/001, 002 and 003): a claim,  *)
(* once made, is there for good and excludes every claim of the same       *)
(* content or BTIH at its generation, whatever becomes of its task; and    *)
(* of the tasks of one destination at most one waits to be told apart by   *)
(* its files.  DownloadService implements it.                              *)
(***************************************************************************)
CONSTANTS Task, Claim, Same(_, _), Destination(_)

VARIABLES
  claims,    \* task -> the claim it was created for
  waiting    \* the tasks whose files are not theirs yet

Free(d) == \A t \in waiting : Destination(claims[t]) # d

ClaimTask(t, c) ==
  /\ t \notin DOMAIN claims
  /\ \A u \in DOMAIN claims : ~Same(claims[u], c)
  /\ Free(Destination(c))
  /\ claims' = [u \in DOMAIN claims \union {t} |-> IF u = t THEN c ELSE claims[u]]
  /\ waiting' = waiting \union {t}

\* The task owns files, or has ended.
Release(t) ==
  /\ t \in waiting
  /\ waiting' = waiting \ {t}
  /\ UNCHANGED claims

\* It has lost them again, or was revived by a late event.
Rejoin(t) ==
  /\ t \in DOMAIN claims \ waiting
  /\ Free(Destination(claims[t]))
  /\ waiting' = waiting \union {t}
  /\ UNCHANGED claims

Init == claims = [t \in {} |-> {}] /\ waiting = {}

Next == \E t \in Task : (\E c \in Claim : ClaimTask(t, c)) \/ Release(t) \/ Rejoin(t)

Spec == Init /\ [][Next]_<<claims, waiting>>
==============================================================================
