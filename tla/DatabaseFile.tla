------------------------------ MODULE DatabaseFile ------------------------------
(***************************************************************************)
(* The database file and its backups: the state of Migration that its      *)
(* main properties are about.                                              *)
(***************************************************************************)
EXTENDS Integers

VARIABLES
  file,      \* the database: its revision, its data, whether it is whole
  backups    \* the files of backup_dir, by the second of their names

Latest == "new"

\* migrate_database: an old database is replaced only by one that has what it
\* holds, and while a whole backup of it is kept, however many backups earlier
\* attempts have left; nothing else takes away what was written.
MigrationLosesNothing ==
  [][/\ file'.data >= file.data
     /\ file.rev = "old" /\ file'.rev = Latest =>
          \E s \in DOMAIN backups : backups[s] = file]_<<file, backups>>

Atomic == INSTANCE AtomicUpgrade WITH
  revision <- IF file.whole THEN file.rev ELSE "half", data <- file.data

\* docs/architecture.md, section 6: wherever a migration fails or dies, those who
\* open the database see it unchanged, or upgraded at once with all it holds; a
\* copy that is older than the last write never replaces it.
UpgradesAtOnce == Atomic!Spec
==============================================================================
