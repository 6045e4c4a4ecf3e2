----------------------------- MODULE AccountTables -----------------------------
(***************************************************************************)
(* The tables of Authentication that its properties are about: the         *)
(* sessions, and how passwords have been set.                              *)
(***************************************************************************)
EXTENDS Integers, Sequences

VARIABLES
  sessions,  \* the rows of sessions, by number
  sets,      \* history: how often a password has been set
  uses       \* history: the token of each password set by a token

Open == {s \in DOMAIN sessions : ~sessions[s].revoked}

\* rotate_setup_token and consume_setup_token: a token sets a password once, and
\* of two tokens the one issued first is never used after the other, whichever
\* requests and commands run at once.
TokensAreUsedInTurn ==
  \A i, j \in DOMAIN uses : i < j => uses[i] < uses[j]

\* change_password and consume_setup_token: a session that is open was opened
\* after the last change of the password.  (A login that had verified the
\* password before the change may open it after.)
ChangesEndSessions == \A s \in Open : sessions[s].since = sets
==============================================================================
