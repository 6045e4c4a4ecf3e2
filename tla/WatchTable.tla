------------------------------- MODULE WatchTable -------------------------------
(***************************************************************************)
(* The runs of a watchlist: the state of Watchlist that its main property  *)
(* is about.                                                               *)
(***************************************************************************)
VARIABLE worker   \* where each run stands

Running == {t \in DOMAIN worker : worker[t].pc = "items"}

\* WatchlistService.run: a run never takes up a key of which the user had called
\* every item owned or ignored when it read the list, under whatever identity
\* it was imported and is looked for, and whatever is imported, decided or
\* downloaded while the run works.
DecidedAreLeft ==
  \A t \in Running : \A i \in DOMAIN worker[t].todo :
    worker[t].todo[i][2][2] \notin worker[t].settled
==============================================================================
