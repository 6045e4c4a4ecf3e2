------------------------------- MODULE Migration -------------------------------
(***************************************************************************)
(* The migration of the database file when a process starts                *)
(* (db/migration.py, called by build_services in api.py): the check of its *)
(* revision, the backup and the removal of old backups, the upgrade of a   *)
(* working copy, and the replacement of the file by it.  A process may     *)
(* fail or die at every step and start again; serve and reset-setup-token  *)
(* (cli.py) are two processes on one file.                                 *)
(***************************************************************************)
EXTENDS Integers, FiniteSets, DatabaseFile

CONSTANTS
  Processes,   \* processes that open the database
  Keep,        \* keep of create_backup
  MaxTime,     \* bound: the clock, by the seconds that name backups
  MaxWrites,   \* bound: what processes write
  MaxFaults    \* bound: processes that fail, die or are stopped

KeepAssumption == Keep \in Nat \ {0}
BoundsAssumption == {MaxTime, MaxFaults} \subseteq Nat /\ MaxWrites \in Nat \ {0}

VARIABLES
  now,
  work,      \* the last .migrating file of each process
  process,   \* where each process stands
  faults

vars == <<now, file, backups, work, process, faults>>

\* The writes that a file holds are counted.
NoFile == [rev |-> "none", data |-> 0, whole |-> TRUE]
NoWork == [rev |-> "none", data |-> 0, whole |-> FALSE]

Off == [pc |-> "off", name |-> 0]
Go(p, pc) == process' = [process EXCEPT ![p].pc = pc]

------------------------------------------------------------------------------
(***************************************************************************)
(* migrate_database.                                                       *)
(***************************************************************************)

\* What a process does about a file of a revision.
StepFor(revision) ==
  CASE revision = "future" -> "refused"   \* UnsupportedSchemaVersion
    [] revision = Latest   -> "open"
    [] revision = "old"    -> "backup"
    [] revision = "none"   -> "copy"

\* Mutant: a working copy that is still there is taken for that of another.
StartExclusive(p) ==
  /\ process[p] = Off /\ work[p] = NoWork
  /\ Go(p, StepFor(file.rev))
  /\ UNCHANGED <<now, file, backups, work, faults>>

Start(p) ==
  /\ process[p] = Off
  /\ Go(p, StepFor(file.rev))
  /\ UNCHANGED <<now, file, backups, work, faults>>

\* create_backup: the file has its name before it has its content, and replaces
\* one of the same second.
BackupBegins(p) ==
  /\ process[p].pc = "backup"
  /\ backups' = [s \in DOMAIN backups \union {now} |-> IF s = now THEN NoWork ELSE backups[s]]
  /\ process' = [process EXCEPT ![p] = [pc |-> "fill", name |-> now]]
  /\ UNCHANGED <<now, file, work, faults>>

\* SQLite's backup is of the file as it is when it ends.
BackupEnds(p) ==
  /\ process[p].pc = "fill"
  /\ backups' = [s \in DOMAIN backups |-> IF s = process[p].name THEN file ELSE backups[s]]
  /\ Go(p, "prune")
  /\ UNCHANGED <<now, file, work, faults>>

\* Mutant: the oldest are kept.
Oldest(n) == {s \in DOMAIN backups : Cardinality({r \in DOMAIN backups : r < s}) < n}

\* backups[-keep:] by name.
Newest(n) == {s \in DOMAIN backups : Cardinality({r \in DOMAIN backups : r > s}) < n}

Prune(p) ==
  /\ process[p].pc = "prune"
  /\ backups' = [s \in Newest(Keep) |-> backups[s]]
  /\ Go(p, "copy")
  /\ UNCHANGED <<now, file, work, faults>>

\* mkstemp, and the copy of what there is.
Copy(p) ==
  /\ process[p].pc = "copy"
  /\ work' = [work EXCEPT ![p] = file]
  /\ Go(p, "upgrade")
  /\ UNCHANGED <<now, file, backups, faults>>

\* Mutant: the upgrade is of the database itself.
UpgradeInPlace(p) ==
  /\ process[p].pc = "upgrade"
  /\ file' = [file EXCEPT !.whole = FALSE]
  /\ Go(p, "finish")
  /\ UNCHANGED <<now, work, backups, faults>>

\* The upgrade writes to the copy as it goes.
UpgradeBegins(p) ==
  /\ process[p].pc = "upgrade"
  /\ work' = [work EXCEPT ![p].whole = FALSE]
  /\ Go(p, "finish")
  /\ UNCHANGED <<now, file, backups, faults>>

UpgradeEnds(p) ==
  /\ process[p].pc = "finish"
  /\ work' = [work EXCEPT ![p].whole = TRUE, ![p].rev = Latest]
  /\ Go(p, "replace")
  /\ UNCHANGED <<now, file, backups, faults>>

\* The copy has the latest revision: os.replace.
Replace(p) ==
  /\ process[p].pc = "replace"
  /\ file' = work[p]
  /\ work' = [work EXCEPT ![p] = NoWork]
  /\ Go(p, "open")
  /\ UNCHANGED <<now, backups, faults>>

\* A step raises; from the copy on, it is removed (MigrationFailed).  The
\* process ends.
Fail(p) ==
  /\ faults < MaxFaults /\ process[p].pc \notin {"off", "refused", "open"}
  /\ work' = [work EXCEPT ![p] = NoWork]
  /\ process' = [process EXCEPT ![p] = Off]
  /\ faults' = faults + 1
  /\ UNCHANGED <<now, file, backups>>

------------------------------------------------------------------------------
(***************************************************************************)
(* The processes around it.                                                *)
(***************************************************************************)

\* The process dies, and leaves its working copy; or the command ends, or the
\* application is stopped.
Exit(p) ==
  /\ faults < MaxFaults /\ process[p].pc \notin {"off", "refused"}
  /\ process' = [process EXCEPT ![p] = Off]
  /\ faults' = faults + 1
  /\ UNCHANGED <<now, file, backups, work>>

\* What the application and the command are for: settings, runs, setup tokens.
Write(p) ==
  /\ process[p].pc = "open" /\ file.data < MaxWrites
  /\ file' = [file EXCEPT !.data = @ + 1]
  /\ UNCHANGED <<now, backups, work, process, faults>>

Tick == now < MaxTime /\ now' = now + 1 /\ UNCHANGED <<file, backups, work, process, faults>>

Init ==
  /\ now = 0
  /\ file \in {NoFile} \union {[rev |-> r, data |-> 1, whole |-> TRUE] : r \in {"old", "future"}}
  /\ backups = [s \in {} |-> NoWork]
  /\ work = [p \in Processes |-> NoWork]
  /\ process = [p \in Processes |-> Off]
  /\ faults = 0

Step(p) ==
  \/ Start(p) \/ BackupBegins(p) \/ BackupEnds(p) \/ Prune(p) \/ Copy(p)
  \/ UpgradeBegins(p) \/ UpgradeEnds(p) \/ Replace(p)

Next == Tick \/ \E p \in Processes : Step(p) \/ Fail(p) \/ Exit(p) \/ Write(p)

Spec == Init /\ [][Next]_vars

------------------------------------------------------------------------------
(***************************************************************************)
(* Properties.                                                             *)
(***************************************************************************)

Files == [rev : {"none", "old", "new", "future"}, data : 0..MaxWrites, whole : BOOLEAN]
Migrating(p) == process[p].pc \notin {"off", "refused", "open"}

\* Files and processes are of the kinds described, and os.replace alone changes
\* the database: wherever a migration stops, the file is a whole database; and
\* when the application runs, no more than keep backups are left of all the
\* attempts before.
TypeOK ==
  /\ now \in 0..MaxTime
  /\ file \in Files /\ file.whole
  /\ DOMAIN backups \subseteq 0..MaxTime /\ \A s \in DOMAIN backups : backups[s] \in Files
  /\ work \in [Processes -> Files]
  /\ \A p \in Processes : process[p].name \in 0..MaxTime
  /\ faults \in 0..MaxFaults
  /\ (\E p \in Processes : process[p].pc = "open") /\ (\A p \in Processes : ~Migrating(p))
       => Cardinality(DOMAIN backups) <= Keep

\* Whatever a process that failed or died has left, the application starts in
\* the end, or refuses the database for its revision.
ApplicationStarts == \A p \in Processes : []<>(process[p].pc \in {"open", "refused"})
==============================================================================
