------------------------- MODULE DownloadService_proofs -------------------------
(***************************************************************************)
(* Proofs of the safety properties of DownloadService, for every set of    *)
(* tasks, contents, candidates, profiles, threads and files and for every  *)
(* value of the bounds.                                                    *)
(***************************************************************************)
EXTENDS DownloadService, TLAPS

------------------------------------------------------------------------------
(***************************************************************************)
(* Types.                                                                  *)
(***************************************************************************)

\* An observation is again a completion state; it keeps the baseline, and the
\* owned entries once there are any.
LEMMA ObserveKeeps ==
  ASSUME NEW state \in CompletionState, NEW snapshot \in Snapshots
  PROVE  /\ Observe(state, snapshot) \in CompletionState
         /\ Observe(state, snapshot).baseline = state.baseline
         /\ state.owned # {} => Observe(state, snapshot).owned = state.owned
<1> DEFINE C == Changed(state, snapshot)
           print == Fingerprint(state, snapshot)
           owned == NextOwned(state, snapshot)
<1>1. PICK S \in SUBSET Files : snapshot \in [S -> Sizes]
  BY DEF Snapshots
<1>2. C \subseteq S
  BY <1>1 DEF Changed
<1>3. print \in [C -> Sizes]
  BY <1>1, <1>2 DEF Fingerprint
<1>4. print \in Snapshots
  BY <1>1, <1>2, <1>3 DEF Snapshots
<1>5. NoFiles \in Snapshots
  <2>1. NoFiles \in [{} -> Sizes]
    BY DEF NoFiles
  <2> QED BY <2>1 DEF Snapshots
<1>6. owned \subseteq Owners
  BY <1>1, <1>2 DEF NextOwned, Owners, CompletionState
<1>7. state.owned # {} => owned = state.owned
  BY DEF NextOwned
<1> HIDE DEF C, print, owned
<1>8. Observe(state, snapshot)
        = IF HasProgress(state, snapshot)
          THEN [state EXCEPT !.owned = owned, !.fingerprint = print,
                  !.stable = IF print = state.fingerprint THEN @ + 1 ELSE 1]
          ELSE [state EXCEPT !.owned = owned, !.fingerprint = NoFiles, !.stable = 0]
  BY DEF Observe, print, owned
<1> DEFINE progress == HasProgress(state, snapshot)
           last == IF progress THEN print ELSE NoFiles
           stable == IF ~progress THEN 0
                     ELSE IF print = state.fingerprint THEN state.stable + 1 ELSE 1
<1>9. stable \in Nat /\ last \in Snapshots
  BY <1>4, <1>5 DEF CompletionState
<1>10. Observe(state, snapshot)
         = [state EXCEPT !.owned = owned, !.fingerprint = last, !.stable = stable]
  BY <1>8
<1> HIDE DEF stable, last
<1> QED
  BY <1>6, <1>7, <1>9, <1>10 DEF CompletionState

\* A fresh completion state has its type.
LEMMA NewCompletionType ==
  ASSUME NEW baseline \in Snapshots
  PROVE  NewCompletion(baseline) \in CompletionState
<1>1. NoFiles \in [{} -> Sizes]
  BY DEF NoFiles
<1>2. NoFiles \in Snapshots
  BY <1>1 DEF Snapshots
<1> QED BY <1>2 DEF NewCompletion, CompletionState

\* The arguments of an event have their type,
LEMMA WriteType ==
  ASSUME NEW status \in Status
  PROVE  Write(status) \in Writes
BY DEF Write, Writes, Baselines

\* and so has the row it leaves.
LEMMA AppendedType ==
  ASSUME NEW row \in Rows, NEW w \in Writes
  PROVE  Appended(row, w) \in Rows
BY DEF Appended, Rows, Writes

\* The events of the poller have their type: after a signal,
LEMMA SignalWriteType ==
  ASSUME NEW signal \in {"init", "downloading", "finished", "error"},
         NEW current \in Status
  PROVE  SignalWrite(signal, current) \in Writes
BY WriteType DEF SignalWrite, Write, Writes, Baselines, Status, Terminal, Unfinished

\* without evidence,
LEMMA SilentStatusType ==
  ASSUME NEW current \in Status, NEW late \in BOOLEAN
  PROVE  WithoutEvidence(current, late) \in Status
BY DEF WithoutEvidence, Status, Terminal, Unfinished

\* and after an observation.
LEMMA ObservationWriteType ==
  ASSUME NEW read \in Reads, read.completion # NoBaseline,
         NEW snapshot \in Snapshots, NEW late \in BOOLEAN
  PROVE  ObservationWrite(read, snapshot, late) \in Writes
<1> DEFINE after == Observe(read.completion, snapshot)
           status == IF Completed(read.completion, snapshot) THEN "completed"
                     ELSE IF HasProgress(read.completion, snapshot) THEN "downloading"
                     ELSE WithoutEvidence(read.status, late)
<1>1. read.status \in Status /\ read.completion \in CompletionState
  BY DEF Reads, Baselines
<1>2. after \in CompletionState
  BY <1>1, ObserveKeeps
<1>3. status \in Status
  BY <1>1, SilentStatusType DEF Status, Terminal, Unfinished
<1> HIDE DEF after, status
<1>4. ObservationWrite(read, snapshot, late)
        = [Write(status) EXCEPT !.completion = after,
                                !.owned = IF after.owned # {} THEN "yes" ELSE "no"]
  BY DEF ObservationWrite, after, status
<1> QED BY <1>2, <1>3, <1>4 DEF Write, Writes, Baselines

------------------------------------------------------------------------------
\* What the record of a thread holds at each of its stations.
LEMMA JobFields ==
  ASSUME JobsOK, NEW j \in Jobs
  PROVE  /\ job[j].pc \in {"idle", "claim", "ensure", "add", "record"}
         /\ job[j].pc = "idle" <=> job[j] = Idle
         /\ job[j].pc = "claim" => job[j].claim \in Claims
         /\ job[j].pc \in {"ensure", "add", "record"} => job[j].task \in DOMAIN rows
         /\ job[j].pc = "add" => job[j].baseline \in Snapshots
         /\ job[j].pc = "record" => job[j].write \in Writes
<1>1. job[j] \in JobStates
  BY DEF JobsOK
<1> QED BY <1>1 DEF JobsOK, JobStates, Idle

\* What the poller holds at each station.
LEMMA PollFields ==
  ASSUME PollOK
  PROVE  /\ poll.pc \in {"idle", "signal", "snapshot", "write"}
         /\ poll.pc = "idle" <=> poll = Idle
         /\ poll # Idle => poll.task \in DOMAIN rows
         /\ poll.pc \in {"signal", "snapshot"} => poll.read \in Reads /\ poll.late \in BOOLEAN
         /\ poll.pc = "write" => poll.write \in Writes /\ poll.repeats \in BOOLEAN
<1>1. CASE poll = Idle
  BY <1>1 DEF Idle
<1>2. CASE poll \in [pc : {"signal", "snapshot"}, task : Tasks, read : Reads, late : BOOLEAN]
  BY <1>2 DEF PollOK, Idle
<1>3. CASE poll \in [pc : {"write"}, task : Tasks, write : Writes, repeats : BOOLEAN]
  BY <1>3 DEF PollOK, Idle
<1> QED BY <1>1, <1>2, <1>3 DEF PollOK, PollStates

\* The columns of a row.
LEMMA RowFields ==
  ASSUME RowsOK, NEW t \in DOMAIN rows
  PROVE  /\ t \in Tasks /\ rows[t] \in Rows
         /\ rows[t].claim \in Claims /\ rows[t].status \in Status
         /\ rows[t].completion \in Baselines
         /\ Dest(rows[t].claim) \in Destinations
BY DEF RowsOK, Rows, Claims, Dest, Destinations

\* A thread that takes a station of its own leaves the others where they are.
LEMMA GotoType ==
  ASSUME JobsOK, NEW j \in Jobs, NEW state \in JobStates, Goto(j, state),
         DOMAIN rows \subseteq DOMAIN rows',
         state.pc \in {"ensure", "add", "record"} => state.task \in DOMAIN rows'
  PROVE  JobsOK'
<1>1. job' \in [Jobs -> JobStates]
  BY DEF JobsOK, Goto
<1>2. ASSUME NEW i \in Jobs, job'[i].pc \in {"ensure", "add", "record"}
      PROVE  job'[i].task \in DOMAIN rows'
  BY <1>2 DEF JobsOK, Goto
<1> QED BY <1>1, <1>2 DEF JobsOK

\* A thread that is about to record keeps the types.
LEMMA RecordType ==
  ASSUME JobsOK, RowsOK, NEW j \in Jobs, NEW t \in DOMAIN rows, NEW w \in Writes,
         Record(j, t, w), DOMAIN rows \subseteq DOMAIN rows'
  PROVE  JobsOK'
<1>1. [pc |-> "record", task |-> t, write |-> w] \in JobStates
  BY DEF JobStates, RowsOK
<1> QED BY <1>1, GotoType DEF Record

\* So does the poller.
LEMMA PollWritesType ==
  ASSUME PollOK, RowsOK, poll # Idle, NEW w \in Writes, NEW repeats \in BOOLEAN,
         PollWrites(w, repeats), DOMAIN rows' = DOMAIN rows, queue' = queue
  PROVE  PollOK'
<1>1. poll' \in PollStates
  BY PollFields DEF PollWrites, PollStates, RowsOK
<1> QED BY <1>1, PollFields DEF PollOK, PollWrites

\* A claim keeps the types of the table.
LEMMA InsertType ==
  ASSUME RowsOK, NEW t \in Tasks, NEW claim \in Claims, Insert(t, claim)
  PROVE  /\ DOMAIN rows' = DOMAIN rows \union {t}
         /\ DOMAIN rows' \subseteq Tasks /\ rows' \in [DOMAIN rows' -> Rows]
<1>1. DOMAIN rows' = DOMAIN rows \union {t}
  BY DEF Insert
<1>2. [claim |-> claim, status |-> "submitting", completion |-> NoBaseline,
       owned |-> FALSE, manual |-> FALSE, rejected |-> FALSE] \in Rows
  BY DEF Rows, Baselines, Status, Unfinished
<1> QED BY <1>1, <1>2 DEF Insert, RowsOK

\* So does an event.
LEMMA AppendType ==
  ASSUME RowsOK, NEW t \in DOMAIN rows, NEW w \in Writes, Append(t, w)
  PROVE  DOMAIN rows' = DOMAIN rows /\ rows' \in [DOMAIN rows' -> Rows]
<1>1. Appended(rows[t], w) \in Rows
  BY AppendedType, RowFields
<1> QED BY <1>1 DEF Append, RowsOK

------------------------------------------------------------------------------
(***************************************************************************)
(* Type correctness.  PollSnapshot observes the baseline it has read, so   *)
(* the types need the fact that it has read one.                           *)
(***************************************************************************)

PollHasBaseline == poll.pc = "snapshot" => poll.read.completion # NoBaseline
Typed == TypeOK /\ PollHasBaseline

\* The empty system is typed.
LEMMA InitTyped == Init => Typed
<1> SUFFICES ASSUME Init PROVE Typed
  OBVIOUS
<1>1. RowsOK
  BY DEF Init, RowsOK
<1>2. JobsOK
  BY DEF Init, JobsOK, JobStates, Idle
<1>3. PollOK /\ PollHasBaseline
  BY DEF Init, PollOK, PollStates, PollHasBaseline, Idle
<1>4. NoFiles \in Snapshots
  <2>1. NoFiles \in [{} -> Sizes]
    BY DEF NoFiles
  <2> QED BY <2>1 DEF Snapshots
<1>5. ExternalOK
  BY <1>4 DEF Init, ExternalOK, OfflineStatus
<1>6. faults \in 0..MaxFaults
  BY BoundsAssumption DEF Init
<1> QED BY <1>1, <1>2, <1>3, <1>5, <1>6 DEF Typed, TypeOK

\* A step that leaves the poller alone and forgets no row leaves its types alone.
LEMMA PollUnchanged ==
  ASSUME Typed, UNCHANGED <<poll, queue>>, DOMAIN rows \subseteq DOMAIN rows'
  PROVE  PollOK' /\ PollHasBaseline'
BY DEF Typed, TypeOK, PollOK, PollHasBaseline

\* A resubmission reads the table, and leaves with a claim for its thread.
LEMMA ResubmitReads ==
  ASSUME Typed, NEW j \in Jobs, Resubmit(j)
  PROVE  /\ job[j] = Idle
         /\ \E c \in Claims : Goto(j, [pc |-> "claim", claim |-> c])
         /\ UNCHANGED <<database, poll, queue, external, faults>>
<1>1. PICK t \in DOMAIN rows, content \in Contents, candidate \in Candidates,
           profile \in Profiles : ClaimNext(j, t, content, candidate, profile)
  <2>1. \A t \in DOMAIN rows : rows[t].claim \in Claims
    BY RowFields DEF Typed, TypeOK
  <2> QED BY <2>1 DEF Resubmit, Retry, ForceMagnet, Fallback, Claims
<1>2. PICK g \in 1..MaxGeneration :
        Goto(j, [pc |-> "claim",
                 claim |-> [content |-> content, candidate |-> candidate,
                            profile |-> profile, generation |-> g,
                            supersedes |-> t]])
  BY <1>1 DEF ClaimNext
<1>3. [content |-> content, candidate |-> candidate, profile |-> profile,
       generation |-> g, supersedes |-> t] \in Claims
  BY RowFields, BoundsAssumption DEF Claims, Typed, TypeOK
<1> QED BY <1>1, <1>2, <1>3 DEF ClaimNext

\* Each step of a thread keeps the types,
LEMMA JobStepTyped ==
  ASSUME Typed, NEW j \in Jobs, JobStep(j)
  PROVE  Typed'
<1> USE DEF Typed, TypeOK
<1>1. CASE SubmitNew(j)
  <2>1. PICK t \in Tasks, c \in Contents, k \in Candidates, p \in Profiles :
          /\ Insert(t, [content |-> c, candidate |-> k, profile |-> p,
                        generation |-> 0, supersedes |-> NoTask])
          /\ Goto(j, [pc |-> "ensure", task |-> t])
    BY <1>1 DEF SubmitNew
  <2>2. [content |-> c, candidate |-> k, profile |-> p,
         generation |-> 0, supersedes |-> NoTask] \in Claims
    BY BoundsAssumption DEF Claims
  <2>3. /\ DOMAIN rows' = DOMAIN rows \union {t}
        /\ DOMAIN rows' \subseteq Tasks /\ rows' \in [DOMAIN rows' -> Rows]
    BY <2>1, <2>2, InsertType
  <2>4. [pc |-> "ensure", task |-> t] \in JobStates
    BY DEF JobStates
  <2>5. JobsOK'
    BY <2>1, <2>3, <2>4, GotoType
  <2> QED BY <1>1, <2>3, <2>5, PollUnchanged
          DEF SubmitNew, RowsOK, ExternalOK, external
<1>2. CASE Resubmit(j)
  <2>1. PICK c \in Claims : Goto(j, [pc |-> "claim", claim |-> c])
    BY <1>2, ResubmitReads
  <2>2. [pc |-> "claim", claim |-> c] \in JobStates
    BY DEF JobStates
  <2>3. JobsOK'
    BY <1>2, <2>1, <2>2, ResubmitReads, GotoType DEF database
  <2> QED BY <1>2, <2>3, ResubmitReads, PollUnchanged
          DEF RowsOK, ExternalOK, external, database
<1>3. CASE ClaimRetry(j)
  <2>1. PICK t \in Tasks : /\ Insert(t, job[j].claim)
                           /\ Goto(j, [pc |-> "ensure", task |-> t])
    BY <1>3 DEF ClaimRetry
  <2>2. /\ DOMAIN rows' = DOMAIN rows \union {t}
        /\ DOMAIN rows' \subseteq Tasks /\ rows' \in [DOMAIN rows' -> Rows]
    BY <1>3, <2>1, JobFields, InsertType DEF ClaimRetry
  <2>3. [pc |-> "ensure", task |-> t] \in JobStates
    BY DEF JobStates
  <2>4. JobsOK'
    BY <2>1, <2>2, <2>3, GotoType
  <2> QED BY <1>3, <2>2, <2>4, PollUnchanged
          DEF ClaimRetry, RowsOK, ExternalOK, external
<1>4. CASE RetryRefused(j) \/ JobFails(j)
  <2>1. Goto(j, Idle) /\ UNCHANGED <<database, poll, queue, external>>
    BY <1>4 DEF RetryRefused, JobFails
  <2>2. JobsOK'
    BY <2>1, GotoType DEF JobStates, Idle, database
  <2>3. faults' \in 0..MaxFaults
    BY <1>4, BoundsAssumption DEF RetryRefused, JobFails
  <2> QED BY <2>1, <2>2, <2>3, PollUnchanged DEF RowsOK, ExternalOK, external, database
<1>5. CASE EnsureDestination(j)
  <2> DEFINE t == job[j].task
  <2>1. t \in DOMAIN rows /\ disk[Dest(rows[t].claim)] \in Snapshots
    BY <1>5, JobFields, RowFields DEF EnsureDestination, ExternalOK
  <2>2. JobsOK'
    <3>1. CASE Goto(j, [pc |-> "add", task |-> t, baseline |-> disk[Dest(rows[t].claim)]])
      <4> DEFINE add == [pc |-> "add", task |-> t, baseline |-> disk[Dest(rows[t].claim)]]
      <4>1. add \in JobStates /\ add.task \in DOMAIN rows
        BY <2>1, RowFields DEF JobStates
      <4>2. Goto(j, add) /\ UNCHANGED rows
        BY <1>5, <3>1 DEF EnsureDestination, database
      <4> HIDE DEF add
      <4> QED BY <4>1, <4>2, GotoType
    <3>2. CASE Record(j, t, Write("failed"))
      <4>1. Write("failed") \in Writes
        BY WriteType DEF Status, Terminal
      <4>2. UNCHANGED rows
        BY <1>5 DEF EnsureDestination, database
      <4> QED BY <2>1, <3>2, <4>1, <4>2, RecordType
    <3> QED BY <1>5, <3>1, <3>2 DEF EnsureDestination
  <2> QED BY <1>5, <2>2, PollUnchanged
          DEF EnsureDestination, RowsOK, ExternalOK, external, database
<1>6. CASE AddOffline(j)
  <2> DEFINE t == job[j].task
             d == Dest(rows[t].claim)
             base == job[j].baseline
  <2>1. t \in DOMAIN rows /\ d \in Destinations /\ base \in Snapshots
    BY <1>6, JobFields, RowFields DEF AddOffline
  <2>2. {Started(d), Requested(d), offline}
          \subseteq [Destinations -> OfflineStatus]
    BY DEF Started, Requested, ExternalOK, OfflineStatus
  <2>3. NewCompletion(base) \in CompletionState
    BY <2>1, NewCompletionType
  <2>4. {Accepted(base), ResultUnknown(base)} \subseteq Writes
    BY <2>3 DEF Accepted, ResultUnknown, Write, Writes, Baselines, Status, Unfinished
  <2>5. {[Write("failed") EXCEPT !.rejected = TRUE],
         Write("failed"), Write("attention_required")} \subseteq Writes
    <3>1. Write("failed") \in Writes /\ Write("attention_required") \in Writes
      BY WriteType DEF Status, Terminal, Unfinished
    <3>2. [Write("failed") EXCEPT !.rejected = TRUE] \in Writes
      BY <3>1 DEF Writes
    <3> QED BY <3>1, <3>2
  <2>6. offline' \in [Destinations -> OfflineStatus]
    BY <1>6, <2>2 DEF AddOffline
  <2>7. \E w \in Writes : Record(j, t, w)
    BY <1>6, <2>4, <2>5 DEF AddOffline
  <2>8. JobsOK'
    BY <1>6, <2>1, <2>7, RecordType DEF AddOffline, database
  <2> QED BY <1>6, <2>6, <2>8, PollUnchanged
          DEF AddOffline, RowsOK, ExternalOK, database
<1>7. CASE RecordResult(j)
  <2>1. DOMAIN rows' = DOMAIN rows /\ rows' \in [DOMAIN rows' -> Rows]
    BY <1>7, JobFields, AppendType DEF RecordResult
  <2>2. JobsOK'
    BY <1>7, <2>1, GotoType DEF RecordResult, JobStates, Idle
  <2> QED BY <1>7, <2>1, <2>2, PollUnchanged
          DEF RecordResult, RowsOK, ExternalOK, external
<1>8. CASE ManualComplete(j)
  <2>1. PICK t \in DOMAIN rows :
          Record(j, t, [Write("completed") EXCEPT !.manual = TRUE])
    BY <1>8 DEF ManualComplete
  <2>2. [Write("completed") EXCEPT !.manual = TRUE] \in Writes
    BY DEF Write, Writes, Baselines, Status, Terminal
  <2>3. JobsOK'
    BY <1>8, <2>1, <2>2, RecordType DEF ManualComplete, database
  <2> QED BY <1>8, <2>3, PollUnchanged
          DEF ManualComplete, RowsOK, ExternalOK, external, database
<1> QED
  BY <1>1, <1>2, <1>3, <1>4, <1>5, <1>6, <1>7, <1>8 DEF JobStep

\* each step of the poller,
LEMMA PollStepTyped ==
  ASSUME Typed, PollStep \/ PollFails
  PROVE  Typed'
<1> USE DEF Typed, TypeOK
<1>1. CASE PollCycle
  BY <1>1 DEF PollCycle, RowsOK, JobsOK, PollOK, PollHasBaseline, ExternalOK,
              database, external
<1>2. CASE \E t \in Tasks : PollRead(t)
  <2>1. PICK t \in Tasks : PollRead(t)
    BY <1>2
  <2>2. t \in DOMAIN rows
    BY <2>1 DEF PollRead, PollOK
  <2> DEFINE read == [status |-> rows[t].status, completion |-> rows[t].completion]
  <2>3. read \in Reads
    BY <2>2, RowFields DEF Reads
  <2>4. poll' \in PollStates /\ (poll' # Idle => poll'.task \in DOMAIN rows) /\ PollHasBaseline'
    <3>1. CASE UNCHANGED poll
      BY <3>1 DEF PollOK, PollHasBaseline
    <3>2. CASE poll' = [pc |-> "signal", task |-> t, late |-> t \in overdue, read |-> read]
      BY <2>2, <2>3, <3>2 DEF PollStates, PollHasBaseline
    <3> QED BY <2>1, <3>1, <3>2 DEF PollRead
  <2> QED BY <2>1, <2>4 DEF PollRead, RowsOK, JobsOK, PollOK, ExternalOK, database, external
<1>3. CASE PollSignal
  <2>1. poll # Idle /\ poll.task \in DOMAIN rows /\ poll.read \in Reads /\ poll.late \in BOOLEAN
    BY <1>3, PollFields DEF PollSignal, Idle
  <2>2. SilentWrite \in Writes
    BY <2>1, SilentStatusType, WriteType DEF SilentWrite, Reads
  <2>3. ASSUME NEW s \in Signals(Dest(rows[poll.task].claim)) \ {"unknown"}
        PROVE  SignalWrite(s, poll.read.status) \in Writes
    BY <2>1, SignalWriteType DEF Signals, Reads
  <2>4. PollOK' /\ PollHasBaseline'
    <3>1. CASE \E w \in Writes : PollWrites(w, FALSE)
      <4>1. DOMAIN rows' = DOMAIN rows /\ queue' = queue
        BY <1>3 DEF PollSignal, database
      <4>2. PollOK'
        BY <2>1, <3>1, <4>1, PollWritesType
      <4> QED BY <3>1, <4>2 DEF PollWrites, PollHasBaseline
    <3>2. CASE /\ poll.read.completion # NoBaseline
               /\ poll' = [poll EXCEPT !.pc = "snapshot"]
      <4>1. poll \in [pc : {"signal", "snapshot"}, task : Tasks, read : Reads, late : BOOLEAN]
        BY <1>3 DEF PollSignal, PollOK, PollStates, Idle
      <4>2. poll' \in [pc : {"signal", "snapshot"}, task : Tasks, read : Reads, late : BOOLEAN]
        BY <3>2, <4>1
      <4>3. poll'.task = poll.task /\ poll'.read = poll.read
        BY <3>2, <4>1
      <4>4. UNCHANGED <<rows, queue>>
        BY <1>3 DEF PollSignal, database
      <4>5. PollOK'
        BY <2>1, <4>2, <4>3, <4>4 DEF PollOK, PollStates
      <4> QED BY <3>2, <4>3, <4>5 DEF PollHasBaseline
    <3> QED BY <1>3, <2>2, <2>3, <3>1, <3>2 DEF PollSignal
  <2> QED BY <1>3, <2>4 DEF PollSignal, RowsOK, JobsOK, ExternalOK, database, external
<1>4. CASE PollSnapshot
  <2>1. poll # Idle /\ poll.task \in DOMAIN rows /\ poll.read \in Reads /\ poll.late \in BOOLEAN
    BY <1>4, PollFields DEF PollSnapshot, Idle
  <2> DEFINE snapshot == disk[Dest(rows[poll.task].claim)]
             w == ObservationWrite(poll.read, snapshot, poll.late)
             repeats == /\ ~HasProgress(poll.read.completion, snapshot)
                        /\ w.completion = poll.read.completion
  <2>2. SilentWrite \in Writes
    BY <2>1, SilentStatusType, WriteType DEF SilentWrite, Reads
  <2>3. snapshot \in Snapshots
    BY <2>1, RowFields DEF ExternalOK
  <2>4. w \in Writes
    BY <1>4, <2>1, <2>3, ObservationWriteType DEF PollSnapshot, PollHasBaseline
  <2>5. repeats \in BOOLEAN
    OBVIOUS
  <2>6. \/ PollWrites(SilentWrite, FALSE)
        \/ PollWrites(w, repeats)
    BY <1>4 DEF PollSnapshot
  <2> HIDE DEF w, repeats
  <2>7. PollOK' /\ PollHasBaseline'
    <3>1. DOMAIN rows' = DOMAIN rows /\ queue' = queue
      BY <1>4 DEF PollSnapshot, database
    <3>2. PollOK'
      BY <2>1, <2>2, <2>4, <2>5, <2>6, <3>1, PollWritesType
    <3> QED BY <2>6, <3>2 DEF PollWrites, PollHasBaseline
  <2> QED BY <1>4, <2>7 DEF PollSnapshot, RowsOK, JobsOK, ExternalOK, database, external
<1>5. CASE PollSkips
  BY <1>5 DEF PollSkips, PollEnds, PollStates, RowsOK, JobsOK, PollOK,
              PollHasBaseline, ExternalOK, Idle, database, external
<1>6. CASE PollWrite
  <2>1. poll.task \in DOMAIN rows /\ poll.write \in Writes
    BY <1>6, PollFields DEF PollWrite, Idle
  <2>2. DOMAIN rows' = DOMAIN rows /\ rows' \in [DOMAIN rows' -> Rows]
    BY <1>6, <2>1, AppendType DEF PollWrite
  <2> QED BY <1>6, <2>2 DEF PollWrite, PollEnds, PollStates, RowsOK, JobsOK, PollOK,
                            PollHasBaseline, ExternalOK, Idle, external
<1>7. CASE PollFails
  BY <1>7, BoundsAssumption
     DEF PollFails, PollEnds, PollStates, RowsOK, JobsOK, PollOK,
         PollHasBaseline, ExternalOK, Idle, database, external
<1> QED
  BY <1>1, <1>2, <1>3, <1>4, <1>5, <1>6, <1>7 DEF PollStep

\* and each step of the environment;
LEMMA EnvironmentTyped ==
  ASSUME Typed, Environment
  PROVE  Typed'
<1> USE DEF Typed, TypeOK
<1>1. CASE Crash
  BY <1>1, BoundsAssumption
     DEF Crash, RowsOK, JobsOK, JobStates, PollOK, PollStates, PollHasBaseline,
         ExternalOK, Idle, database, external
<1>2. CASE \E t \in Tasks : DeadlinePasses(t)
  BY <1>2 DEF DeadlinePasses, RowsOK, JobsOK, PollOK, PollHasBaseline, ExternalOK, external
<1>3. CASE \E d \in Destinations : OfflineProgress(d)
  <2>1. offline' \in [Destinations -> OfflineStatus]
    BY <1>3 DEF OfflineProgress, ExternalOK, OfflineNext, OfflineStatus
  <2> QED BY <1>3, <2>1 DEF OfflineProgress, RowsOK, JobsOK, PollOK, PollHasBaseline,
                            ExternalOK, database
<1>4. CASE \E d \in Destinations : FileGrows(d)
  <2>1. PICK d \in Destinations, f \in Files, size \in Sizes :
          /\ FileGrows(d)
          /\ disk' = [disk EXCEPT ![d] = [g \in DOMAIN @ \union {f} |->
                                            IF g = f THEN size ELSE @[g]]]
    BY <1>4 DEF FileGrows
  <2>2. PICK S \in SUBSET Files : disk[d] \in [S -> Sizes]
    BY DEF ExternalOK, Snapshots
  <2>3. [g \in DOMAIN disk[d] \union {f} |-> IF g = f THEN size ELSE disk[d][g]]
          \in [S \union {f} -> Sizes]
    BY <2>2
  <2>4. [g \in DOMAIN disk[d] \union {f} |-> IF g = f THEN size ELSE disk[d][g]]
          \in Snapshots
    BY <2>3 DEF Snapshots
  <2>5. disk' \in [Destinations -> Snapshots]
    BY <2>1, <2>4 DEF ExternalOK
  <2> QED BY <2>1, <2>5 DEF FileGrows, RowsOK, JobsOK, PollOK, PollHasBaseline,
                            ExternalOK, database
<1> QED BY <1>1, <1>2, <1>3, <1>4 DEF Environment

\* so every step does,
LEMMA NextTyped == Typed /\ [Next]_vars => Typed'
<1> SUFFICES ASSUME Typed, [Next]_vars PROVE Typed'
  OBVIOUS
<1>1. CASE Next
  BY <1>1, JobStepTyped, PollStepTyped, EnvironmentTyped DEF Next
<1>2. CASE UNCHANGED vars
  BY <1>2 DEF vars, Typed, TypeOK, RowsOK, JobsOK, PollOK, PollHasBaseline, ExternalOK
<1> QED BY <1>1, <1>2

\* and the types always hold.
LEMMA AlwaysTyped == Spec => []Typed
BY InitTyped, NextTyped, PTL DEF Spec

\* In every reachable state the variables have their types, and no thread, not
\* even after a crash, holds a task that the table does not.
THEOREM TypeCorrect == Spec => []TypeOK
<1>1. Typed => TypeOK
  BY DEF Typed
<1> QED BY <1>1, AlwaysTyped, PTL

------------------------------------------------------------------------------
(***************************************************************************)
(* The table: claims and waiting destinations.                             *)
(***************************************************************************)

\* The only steps that write the table are claims and events.
LEMMA RowsStep ==
  ASSUME Typed, [Next]_vars
  PROVE  \/ UNCHANGED rows
         \/ \E t \in Tasks, c \in Claims : Insert(t, c)
         \/ \E t \in DOMAIN rows, w \in Writes : Append(t, w)
<1> USE DEF Typed, TypeOK
<1>1. CASE \E j \in Jobs : SubmitNew(j)
  <2>1. PICK t \in Tasks, c \in Contents, k \in Candidates, p \in Profiles :
          Insert(t, [content |-> c, candidate |-> k, profile |-> p,
                     generation |-> 0, supersedes |-> NoTask])
    BY <1>1 DEF SubmitNew
  <2>2. [content |-> c, candidate |-> k, profile |-> p,
         generation |-> 0, supersedes |-> NoTask] \in Claims
    BY BoundsAssumption DEF Claims
  <2> QED BY <2>1, <2>2
<1>2. CASE \E j \in Jobs : ClaimRetry(j)
  BY <1>2, JobFields DEF ClaimRetry
<1>3. CASE \E j \in Jobs : RecordResult(j)
  BY <1>3, JobFields DEF RecordResult
<1>4. CASE PollWrite
  BY <1>4, PollFields DEF PollWrite, Idle
<1>5. CASE \E j \in Jobs : \/ Resubmit(j) \/ RetryRefused(j) \/ EnsureDestination(j)
                           \/ AddOffline(j) \/ ManualComplete(j) \/ JobFails(j)
  BY <1>5, ResubmitReads DEF RetryRefused, EnsureDestination, AddOffline, ManualComplete,
              JobFails, database
<1>6. CASE \/ PollCycle \/ (\E t \in Tasks : PollRead(t)) \/ PollSignal
           \/ PollSnapshot \/ PollSkips \/ PollFails
  BY <1>6 DEF PollCycle, PollRead, PollSignal, PollSnapshot, PollSkips, PollFails, database
<1>7. CASE Environment
  BY <1>7 DEF Environment, Crash, DeadlinePasses, OfflineProgress, FileGrows, database
<1>8. CASE UNCHANGED vars
  BY <1>8 DEF vars
<1> QED
  BY <1>1, <1>2, <1>3, <1>4, <1>5, <1>6, <1>7, <1>8 DEF Next, JobStep, PollStep

\* A task keeps the claim it was created for.
LEMMA ClaimsKept ==
  ASSUME Typed, [Next]_vars, NEW t \in DOMAIN rows
  PROVE  t \in DOMAIN rows' /\ rows'[t].claim = rows[t].claim
<1>1. CASE \E u \in DOMAIN rows, w \in Writes : Append(u, w)
  BY <1>1 DEF Append, Appended, Typed, TypeOK, RowsOK
<1>2. CASE \E u \in Tasks, c \in Claims : Insert(u, c)
  BY <1>2 DEF Insert
<1> QED BY <1>1, <1>2, RowsStep

\* A claim is inserted only beside others; events keep claims.
LEMMA NextUniqueClaims ==
  ASSUME Typed, UniqueClaims, [Next]_vars
  PROVE  UniqueClaims'
<1>1. CASE UNCHANGED rows
  BY <1>1 DEF UniqueClaims
<1>2. ASSUME NEW t \in Tasks, NEW c \in Claims, Insert(t, c)
      PROVE  UniqueClaims'
  BY <1>2 DEF UniqueClaims, Insert, Conflict, SameClaim
<1>3. ASSUME NEW t \in DOMAIN rows, NEW w \in Writes, Append(t, w)
      PROVE  UniqueClaims'
  <2>1. DOMAIN rows' = DOMAIN rows
    BY <1>3 DEF Append, Typed, TypeOK, RowsOK
  <2> QED BY <2>1, ClaimsKept DEF UniqueClaims
<1> QED BY <1>1, <1>2, <1>3, RowsStep

\* No two tasks of one generation share their content or their BTIH, however many
\* runs and users claim them at once.
THEOREM ClaimsAreUnique == Spec => []UniqueClaims
<1>1. Init => UniqueClaims
  BY DEF Init, UniqueClaims
<1>2. Typed /\ UniqueClaims /\ [Next]_vars => UniqueClaims'
  BY NextUniqueClaims
<1> QED BY <1>1, <1>2, AlwaysTyped, PTL DEF Spec

\* Claims and events alike look for a free destination.
LEMMA NextOneWaiting ==
  ASSUME Typed, OneWaitingTaskPerDestination, [Next]_vars
  PROVE  OneWaitingTaskPerDestination'
<1>1. CASE UNCHANGED rows
  BY <1>1 DEF OneWaitingTaskPerDestination
<1>2. ASSUME NEW t \in Tasks, NEW c \in Claims, Insert(t, c)
      PROVE  OneWaitingTaskPerDestination'
  BY <1>2 DEF OneWaitingTaskPerDestination, Insert, Busy
<1>3. ASSUME NEW t \in DOMAIN rows, NEW w \in Writes, Append(t, w)
      PROVE  OneWaitingTaskPerDestination'
  <2>1. CASE AppendRefused(t, w)
    BY <1>3, <1>1, <2>1 DEF Append
  <2>2. CASE ~AppendRefused(t, w)
    <3>1. rows' = [rows EXCEPT ![t] = Appended(rows[t], w)]
      BY <1>3, <2>2 DEF Append
    <3>2. Appended(rows[t], w).claim = rows[t].claim
      BY DEF Appended
    <3> QED BY <2>2, <3>1, <3>2
            DEF OneWaitingTaskPerDestination, AppendRefused, Typed, TypeOK, RowsOK
  <2> QED BY <2>1, <2>2
<1> QED BY <1>1, <1>2, <1>3, RowsStep

\* Whatever is claimed, retried, polled or lost, two tasks never wait for the
\* files of one destination.
THEOREM DestinationsAreExclusive == Spec => []OneWaitingTaskPerDestination
<1>1. Init => OneWaitingTaskPerDestination
  BY DEF Init, OneWaitingTaskPerDestination
<1>2. Typed /\ OneWaitingTaskPerDestination /\ [Next]_vars
        => OneWaitingTaskPerDestination'
  BY NextOneWaiting
<1> QED BY <1>1, <1>2, AlwaysTyped, PTL DEF Spec

\* The empty table is the empty ledger.
LEMMA LedgerInit == Init => Ledger!Init
<1> SUFFICES ASSUME Init PROVE Ledger!Init
  OBVIOUS
<1>1. rows = [t \in {} |-> Idle] /\ DOMAIN rows = {}
  BY DEF Init
<1> QED BY <1>1 DEF Ledger!Init

\* What a step of the table is in the ledger.
LEMMA LedgerStep ==
  ASSUME Typed, [Next]_vars
  PROVE  [Ledger!Next]_<<[t \in DOMAIN rows |-> rows[t].claim],
                         {t \in DOMAIN rows : Waiting(rows[t])}>>
<1> DEFINE claims == [t \in DOMAIN rows |-> rows[t].claim]
           waiting == {t \in DOMAIN rows : Waiting(rows[t])}
<1> SUFFICES Ledger!Next \/ (claims' = claims /\ waiting' = waiting)
  OBVIOUS
<1>1. CASE UNCHANGED rows
  BY <1>1
<1>2. ASSUME NEW t \in Tasks, NEW c \in Claims, Insert(t, c)
      PROVE  Ledger!Next
  <2>1. t \notin DOMAIN claims
    BY <1>2 DEF Insert
  <2>2. \A u \in DOMAIN claims : ~SameClaim(claims[u], c)
    BY <1>2 DEF Insert, Conflict
  <2>3. \A u \in waiting : Dest(claims[u]) # Dest(c)
    BY <1>2 DEF Insert, Busy
  <2>4. claims' = [u \in DOMAIN claims \union {t} |-> IF u = t THEN c ELSE claims[u]]
    BY <1>2 DEF Insert
  <2>5. waiting' = waiting \union {t}
    BY <1>2 DEF Insert, Waiting, Unfinished
  <2> QED BY <2>1, <2>2, <2>3, <2>4, <2>5 DEF Ledger!Next, Ledger!ClaimTask, Ledger!Free
<1>3. ASSUME NEW t \in DOMAIN rows, NEW w \in Writes,
             Append(t, w), ~AppendRefused(t, w)
      PROVE  Ledger!Next \/ (claims' = claims /\ waiting' = waiting)
  <2>1. rows' = [rows EXCEPT ![t] = Appended(rows[t], w)]
    BY <1>3 DEF Append
  <2>2. DOMAIN rows' = DOMAIN rows /\ t \in Tasks
    BY <2>1, RowFields DEF Typed, TypeOK
  <2>3. \A u \in DOMAIN rows : rows'[u].claim = rows[u].claim
    BY <2>1, <2>2 DEF Appended
  <2>4. claims' = claims
    BY <2>2, <2>3
  <2>5. \A u \in DOMAIN rows \ {t} : rows'[u] = rows[u]
    BY <2>1
  <2>6. CASE Waiting(rows'[t]) <=> Waiting(rows[t])
    BY <2>2, <2>4, <2>5, <2>6
  <2>7. CASE ~Waiting(rows'[t]) /\ Waiting(rows[t])
    <3>1. t \in waiting /\ waiting' = waiting \ {t}
      BY <2>2, <2>5, <2>7
    <3> QED BY <2>2, <2>4, <3>1 DEF Ledger!Next, Ledger!Release
  <2>8. CASE Waiting(rows'[t]) /\ ~Waiting(rows[t])
    <3>1. t \in DOMAIN claims \ waiting /\ waiting' = waiting \union {t}
      BY <2>2, <2>5, <2>8
    <3>2. Waiting(Appended(rows[t], w))
      BY <2>1, <2>8
    <3>3. \A u \in waiting : Dest(claims[u]) # Dest(claims[t])
      BY <1>3, <3>1, <3>2 DEF AppendRefused
    <3> QED BY <2>2, <2>4, <3>1, <3>3 DEF Ledger!Next, Ledger!Rejoin, Ledger!Free
  <2> QED BY <2>6, <2>7, <2>8
<1>4. ASSUME NEW t \in DOMAIN rows, NEW w \in Writes, Append(t, w), AppendRefused(t, w)
      PROVE  UNCHANGED rows
  BY <1>4 DEF Append
<1> HIDE DEF claims, waiting
<1> QED BY <1>1, <1>2, <1>3, <1>4, RowsStep

\* The table implements the ledger: claims are permanent and exclusive, and a
\* task can only wait, or wait again, for a destination that is free.
THEOREM LedgerImplemented == Spec => ImplementsLedger
<1>1. Init => Ledger!Init
  BY LedgerInit
<1>2. Typed /\ [Next]_vars
        => [Ledger!Next]_<<[t \in DOMAIN rows |-> rows[t].claim],
                           {t \in DOMAIN rows : Waiting(rows[t])}>>
  BY LedgerStep
<1> QED BY <1>1, <1>2, AlwaysTyped, PTL DEF Spec, ImplementsLedger, Ledger!Spec

------------------------------------------------------------------------------
(***************************************************************************)
(* CloudDrive2 and the evidence it gives.                                  *)
(***************************************************************************)

\* CloudDrive2 holds a task at a destination only once a job has submitted it,
\* and a finished task stays finished.
LEMMA OfflineStep ==
  ASSUME Typed, [Next]_vars, NEW d \in Destinations
  PROVE  /\ offline'[d] # "none" =>
              offline[d] # "none" \/ \E t \in DOMAIN rows : Dest(rows[t].claim) = d
         /\ offline[d] = "finished" => offline'[d] = "finished"
<1> USE DEF Typed, TypeOK
<1>1. CASE UNCHANGED offline
  BY <1>1
<1>2. ASSUME NEW j \in Jobs, AddOffline(j)
      PROVE  /\ offline'[d] # "none" =>
                  offline[d] # "none" \/ \E t \in DOMAIN rows : Dest(rows[t].claim) = d
             /\ offline[d] = "finished" => offline'[d] = "finished"
  <2> DEFINE t == job[j].task
  <2>1. t \in DOMAIN rows
    BY <1>2, JobFields DEF AddOffline
  <2>2. offline' \in {offline, Started(Dest(rows[t].claim)),
                      Requested(Dest(rows[t].claim))}
    BY <1>2 DEF AddOffline
  <2> HIDE DEF t
  <2> QED BY <2>1, <2>2 DEF Started, Requested, ExternalOK
<1>3. CASE \E e \in Destinations : OfflineProgress(e)
  BY <1>3 DEF OfflineProgress, OfflineNext, ExternalOK, OfflineStatus
<1>4. CASE \E j \in Jobs : \/ SubmitNew(j) \/ Resubmit(j) \/ ClaimRetry(j) \/ RetryRefused(j)
                           \/ EnsureDestination(j) \/ RecordResult(j)
                           \/ ManualComplete(j) \/ JobFails(j)
  BY <1>1, <1>4, ResubmitReads DEF SubmitNew, ClaimRetry, RetryRefused, EnsureDestination,
                    RecordResult, ManualComplete, JobFails, external
<1>5. CASE PollStep \/ PollFails
  BY <1>1, <1>5 DEF PollStep, PollCycle, PollRead, PollSignal, PollSnapshot, PollSkips,
                    PollWrite, PollFails, external
<1>6. CASE \/ Crash \/ (\E t \in Tasks : DeadlinePasses(t))
           \/ \E e \in Destinations : FileGrows(e)
  BY <1>1, <1>6 DEF Crash, DeadlinePasses, FileGrows, external
<1>7. CASE UNCHANGED vars
  BY <1>1, <1>7 DEF vars
<1> QED
  BY <1>2, <1>3, <1>4, <1>5, <1>6, <1>7 DEF Next, JobStep, Environment

\* A job submits only for the row it has claimed.
LEMMA NextClaimPrecedes ==
  ASSUME Typed, ClaimPrecedesSubmission, [Next]_vars
  PROVE  ClaimPrecedesSubmission'
<1> SUFFICES ASSUME NEW d \in Destinations, offline'[d] # "none"
             PROVE  \E t \in DOMAIN rows' : Dest(rows'[t].claim) = d
  BY DEF ClaimPrecedesSubmission
<1>1. PICK t \in DOMAIN rows : Dest(rows[t].claim) = d
  BY OfflineStep DEF ClaimPrecedesSubmission
<1> QED BY <1>1, ClaimsKept

\* CloudDrive2 never works on a destination that no row of the table names.
THEOREM ClaimsPrecedeSubmissions == Spec => []ClaimPrecedesSubmission
<1>1. Init => ClaimPrecedesSubmission
  BY DEF Init, ClaimPrecedesSubmission
<1>2. Typed /\ ClaimPrecedesSubmission /\ [Next]_vars => ClaimPrecedesSubmission'
  BY NextClaimPrecedes
<1> QED BY <1>1, <1>2, AlwaysTyped, PTL DEF Spec

\* CompletionHasEvidence is not inductive: it needs that the poller only works on
\* unfinished tasks, and that a completion still to be written has its evidence.
ReadsUnfinished == poll.pc \in {"signal", "snapshot"} => poll.read.status \in Unfinished

JobsCompleteByHand ==
  \A j \in Jobs : job[j].pc = "record" /\ job[j].write.status = "completed"
                    => job[j].write.manual

PollHasEvidence ==
  poll.pc = "write" /\ poll.write.status = "completed" =>
    \/ offline[Dest(rows[poll.task].claim)] = "finished"
    \/ /\ poll.write.completion # NoBaseline
       /\ poll.write.completion.stable >= Required

EvidenceInv ==
  ReadsUnfinished /\ JobsCompleteByHand /\ PollHasEvidence /\ CompletionHasEvidence

\* In the beginning nothing is completed.
LEMMA InitEvidence == Init => EvidenceInv
BY DEF Init, EvidenceInv, ReadsUnfinished, JobsCompleteByHand, PollHasEvidence,
       CompletionHasEvidence, Idle

\* The poller goes on only with a task it has read as unfinished.
LEMMA NextReadsUnfinished ==
  ASSUME Typed, ReadsUnfinished, [Next]_vars
  PROVE  ReadsUnfinished'
<1>1. CASE UNCHANGED poll \/ poll' = Idle
  BY <1>1 DEF ReadsUnfinished, Idle
<1>2. ASSUME NEW t \in Tasks, PollRead(t)
      PROVE  ReadsUnfinished'
  <2>1. t \in DOMAIN rows /\ rows[t].status \in Status
    BY <1>2, RowFields DEF PollRead, Typed, TypeOK, PollOK
  <2> QED BY <1>1, <1>2, <2>1 DEF PollRead, ReadsUnfinished, Status
<1>3. CASE PollSignal
  <2>1. CASE poll' = [poll EXCEPT !.pc = "snapshot"]
    <3>1. poll \in [pc : {"signal", "snapshot"}, task : Tasks, read : Reads, late : BOOLEAN]
      BY <1>3 DEF PollSignal, Typed, TypeOK, PollOK, PollStates, Idle
    <3>2. poll'.read = poll.read
      BY <2>1, <3>1
    <3> QED BY <1>3, <3>2 DEF PollSignal, ReadsUnfinished
  <2>2. CASE \E w, repeats : PollWrites(w, repeats)
    BY <2>2 DEF PollWrites, ReadsUnfinished
  <2> QED BY <1>3, <2>1, <2>2 DEF PollSignal
<1>4. CASE PollSnapshot
  BY <1>4 DEF PollSnapshot, PollWrites, ReadsUnfinished
<1>5. CASE PollCycle \/ PollSkips \/ PollWrite \/ PollFails
  BY <1>1, <1>5 DEF PollCycle, PollSkips, PollWrite, PollFails, PollEnds
<1>6. CASE \E j \in Jobs : JobStep(j)
  BY <1>1, <1>6, ResubmitReads DEF JobStep, SubmitNew, ClaimRetry, RetryRefused,
     EnsureDestination, AddOffline, RecordResult, ManualComplete, JobFails
<1>7. CASE Environment
  BY <1>1, <1>7 DEF Environment, Crash, DeadlinePasses, OfflineProgress, FileGrows
<1>8. CASE UNCHANGED vars
  BY <1>1, <1>8 DEF vars
<1> QED BY <1>2, <1>3, <1>4, <1>5, <1>6, <1>7, <1>8 DEF Next, PollStep

\* Of the jobs only manual_complete completes.
LEMMA NextJobsCompleteByHand ==
  ASSUME Typed, JobsCompleteByHand, [Next]_vars
  PROVE  JobsCompleteByHand'
<1> USE DEF JobsCompleteByHand
<1>1. CASE UNCHANGED job
  BY <1>1
<1>2. ASSUME NEW j \in Jobs, JobStep(j)
      PROVE  JobsCompleteByHand'
  <2>1. ASSUME NEW state, Goto(j, state),
               state.pc = "record" /\ state.write.status = "completed" => state.write.manual
        PROVE  JobsCompleteByHand'
    BY <2>1 DEF Goto, Typed, TypeOK, JobsOK
  <2>2. CASE \/ SubmitNew(j) \/ Resubmit(j) \/ ClaimRetry(j) \/ RetryRefused(j)
             \/ RecordResult(j) \/ JobFails(j)
    <3>1. CASE SubmitNew(j) \/ ClaimRetry(j)
      <4>1. PICK t : Goto(j, [pc |-> "ensure", task |-> t])
        BY <3>1 DEF SubmitNew, ClaimRetry
      <4> QED BY <2>1, <4>1
    <3>2. CASE Resubmit(j)
      <4>1. PICK c : Goto(j, [pc |-> "claim", claim |-> c])
        BY <3>2, ResubmitReads
      <4> QED BY <2>1, <4>1
    <3>3. CASE RetryRefused(j) \/ RecordResult(j) \/ JobFails(j)
      BY <2>1, <3>3 DEF RetryRefused, RecordResult, JobFails, Idle
    <3> QED BY <2>2, <3>1, <3>2, <3>3
  <2>3. CASE EnsureDestination(j)
    <3>1. PICK state : Goto(j, state) /\ (state.pc = "record" => state.write = Write("failed"))
      BY <2>3 DEF EnsureDestination, Record
    <3> QED BY <2>1, <3>1 DEF Write
  <2>4. CASE AddOffline(j)
    <3>1. PICK w : Record(j, job[j].task, w) /\ w.status # "completed"
      BY <2>4 DEF AddOffline, Accepted, ResultUnknown, Write
    <3> QED BY <2>1, <3>1 DEF Record
  <2>5. CASE ManualComplete(j)
    <3>1. PICK t, w : Record(j, t, w) /\ w.manual
      BY <2>5 DEF ManualComplete, Write
    <3>2. Goto(j, [pc |-> "record", task |-> t, write |-> w])
      BY <3>1 DEF Record
    <3> QED BY <2>1, <3>1, <3>2
  <2> QED BY <1>2, <2>2, <2>3, <2>4, <2>5 DEF JobStep
<1>3. CASE PollStep \/ PollFails
  BY <1>1, <1>3 DEF PollStep, PollCycle, PollRead, PollSignal, PollSnapshot, PollSkips,
                    PollWrite, PollFails
<1>4. CASE Crash
  BY <1>4 DEF Crash, Idle
<1>5. CASE Environment /\ ~Crash
  BY <1>1, <1>5 DEF Environment, DeadlinePasses, OfflineProgress, FileGrows
<1>6. CASE UNCHANGED vars
  BY <1>1, <1>6 DEF vars
<1> QED BY <1>2, <1>3, <1>4, <1>5, <1>6 DEF Next

\* The events that complete a task: the finished signal and the last observation.
LEMMA SilentNeverCompletes ==
  ASSUME Typed, ReadsUnfinished, poll.pc \in {"signal", "snapshot"}
  PROVE  SilentWrite.status # "completed"
BY DEF SilentWrite, Write, WithoutEvidence, ReadsUnfinished, Unfinished, Terminal

\* A signal completes when CloudDrive2 says finished.
LEMMA SignalCompletes ==
  ASSUME Typed, ReadsUnfinished, poll.pc = "signal",
         NEW s \in Signals(Dest(rows[poll.task].claim)) \ {"unknown"},
         SignalWrite(s, poll.read.status).status = "completed"
  PROVE  offline[Dest(rows[poll.task].claim)] = "finished"
<1>1. s \in {"init", "downloading", "finished", "error"}
  BY DEF Signals
<1>2. s # "error" => s = offline[Dest(rows[poll.task].claim)]
  BY DEF Signals
<1>3. s # "finished" => SignalWrite(s, poll.read.status).status # "completed"
  BY <1>1 DEF SignalWrite, Write, ReadsUnfinished, Unfinished
<1> QED BY <1>2, <1>3

\* An observation completes when it is stable often enough.
LEMMA ObservationCompletes ==
  ASSUME NEW read \in Reads, read.status \in Unfinished, read.completion # NoBaseline,
         NEW snapshot \in Snapshots, NEW late \in BOOLEAN,
         ObservationWrite(read, snapshot, late).status = "completed"
  PROVE  /\ ObservationWrite(read, snapshot, late).completion \in CompletionState
         /\ ObservationWrite(read, snapshot, late).completion.stable >= Required
<1> DEFINE after == Observe(read.completion, snapshot)
           status == IF Completed(read.completion, snapshot) THEN "completed"
                     ELSE IF HasProgress(read.completion, snapshot) THEN "downloading"
                     ELSE WithoutEvidence(read.status, late)
<1>1. after \in CompletionState
  BY ObserveKeeps DEF Reads, Baselines
<1>2. status = "completed" => Completed(read.completion, snapshot)
  BY DEF WithoutEvidence, Unfinished, Terminal
<1>3. Completed(read.completion, snapshot) => after.stable >= Required
  BY DEF Completed
<1> HIDE DEF after, status
<1>4. ObservationWrite(read, snapshot, late)
        = [Write(status) EXCEPT !.completion = after,
                                !.owned = IF after.owned # {} THEN "yes" ELSE "no"]
  BY DEF ObservationWrite, after, status
<1> QED BY <1>1, <1>2, <1>3, <1>4 DEF Write

\* So a completion the poller is about to write has its evidence.
LEMMA NextPollHasEvidence ==
  ASSUME Typed, ReadsUnfinished, PollHasEvidence, [Next]_vars
  PROVE  PollHasEvidence'
<1> USE DEF Typed, TypeOK
<1>1. CASE UNCHANGED poll
  <2> SUFFICES ASSUME poll.pc = "write", poll.write.status = "completed"
               PROVE  PollHasEvidence'
    BY <1>1 DEF PollHasEvidence
  <2> DEFINE t == poll.task
  <2>1. t \in DOMAIN rows /\ Dest(rows[t].claim) \in Destinations
    BY PollFields, RowFields DEF Idle
  <2>2. t \in DOMAIN rows' /\ rows'[t].claim = rows[t].claim
    BY <2>1, ClaimsKept
  <2>3. offline[Dest(rows[t].claim)] = "finished" => offline'[Dest(rows[t].claim)] = "finished"
    BY <2>1, OfflineStep
  <2> QED BY <1>1, <2>2, <2>3 DEF PollHasEvidence
<1>2. CASE poll'.pc # "write"
  BY <1>2 DEF PollHasEvidence
<1>3. CASE PollSignal
  <2>1. UNCHANGED <<rows, offline>>
    BY <1>3 DEF PollSignal, database, external
  <2>2. CASE PollWrites(SilentWrite, FALSE)
    BY <1>3, <2>2, SilentNeverCompletes DEF PollSignal, PollWrites, PollHasEvidence
  <2>3. ASSUME NEW s \in Signals(Dest(rows[poll.task].claim)) \ {"unknown"},
               PollWrites(SignalWrite(s, poll.read.status), FALSE)
        PROVE  PollHasEvidence'
    <3>1. /\ poll'.pc = "write" /\ poll'.task = poll.task
          /\ poll'.write = SignalWrite(s, poll.read.status)
      BY <2>3 DEF PollWrites
    <3> QED BY <1>3, <2>1, <2>3, <3>1, SignalCompletes DEF PollSignal, PollHasEvidence
  <2>4. CASE poll' = [poll EXCEPT !.pc = "snapshot"]
    <3>1. poll \in [pc : {"signal", "snapshot"}, task : Tasks, read : Reads, late : BOOLEAN]
      BY <1>3 DEF PollSignal, PollOK, PollStates, Idle
    <3> QED BY <1>2, <2>4, <3>1
  <2> QED BY <1>3, <2>2, <2>3, <2>4 DEF PollSignal
<1>4. CASE PollSnapshot
  <2> DEFINE snapshot == disk[Dest(rows[poll.task].claim)]
             w == ObservationWrite(poll.read, snapshot, poll.late)
  <2>1. /\ poll.task \in DOMAIN rows /\ poll.read \in Reads /\ poll.late \in BOOLEAN
        /\ poll.read.status \in Unfinished /\ poll.read.completion # NoBaseline
    BY <1>4, PollFields DEF PollSnapshot, PollHasBaseline, ReadsUnfinished, Idle
  <2>2. snapshot \in Snapshots
    BY <2>1, RowFields DEF ExternalOK
  <2>3. w.status = "completed" =>
          w.completion # NoBaseline /\ w.completion.stable >= Required
    BY <2>1, <2>2, ObservationCompletes, NoBaselineAssumption
  <2>4. CASE PollWrites(SilentWrite, FALSE)
    BY <1>4, <2>4, SilentNeverCompletes DEF PollSnapshot, PollWrites, PollHasEvidence
  <2>5. CASE \E repeats : PollWrites(w, repeats)
    <3>1. poll'.write = w
      BY <2>5 DEF PollWrites
    <3> QED BY <2>3, <3>1 DEF PollHasEvidence
  <2> QED BY <1>4, <2>4, <2>5 DEF PollSnapshot
<1>5. CASE \E t \in Tasks : PollRead(t)
  BY <1>1, <1>2, <1>5 DEF PollRead
<1>6. CASE PollCycle
  BY <1>1, <1>6 DEF PollCycle
<1>7. CASE PollSkips \/ PollWrite \/ PollFails
  BY <1>2, <1>7 DEF PollSkips, PollWrite, PollFails, PollEnds, Idle
<1>8. CASE \E j \in Jobs : JobStep(j)
  BY <1>1, <1>8, ResubmitReads DEF JobStep, SubmitNew, ClaimRetry, RetryRefused,
     EnsureDestination, AddOffline, RecordResult, ManualComplete, JobFails
<1>9. CASE Environment
  BY <1>1, <1>2, <1>9 DEF Environment, Crash, DeadlinePasses, OfflineProgress, FileGrows, Idle
<1>10. CASE UNCHANGED vars
  BY <1>1, <1>10 DEF vars
<1> QED BY <1>3, <1>4, <1>5, <1>6, <1>7, <1>8, <1>9, <1>10 DEF Next, PollStep

\* What completes a row: a claim never does, and an event brings its evidence.
LEMMA AppendedEvidence ==
  ASSUME Typed, NEW t \in DOMAIN rows, NEW w \in Writes, Append(t, w),
         CompletionHasEvidence, offline' = offline,
         w.status = "completed" =>
           \/ w.manual
           \/ offline[Dest(rows[t].claim)] = "finished"
           \/ w.completion # NoBaseline /\ w.completion.stable >= Required
  PROVE  CompletionHasEvidence'
<1>1. CASE AppendRefused(t, w)
  BY <1>1 DEF Append, CompletionHasEvidence
<1>2. CASE ~AppendRefused(t, w)
  <2>1. rows' = [rows EXCEPT ![t] = Appended(rows[t], w)]
    BY <1>2 DEF Append
  <2>2. DOMAIN rows' = DOMAIN rows /\ rows'[t] = Appended(rows[t], w)
    BY <2>1
  <2>3. \A u \in DOMAIN rows \ {t} : rows'[u] = rows[u]
    BY <2>1
  <2>4. rows'[t].status = "completed" =>
          \/ rows'[t].manual
          \/ offline[Dest(rows'[t].claim)] = "finished"
          \/ rows'[t].completion # NoBaseline /\ rows'[t].completion.stable >= Required
    <3>1. rows[t].manual \in BOOLEAN /\ w.manual \in BOOLEAN
      BY RowFields DEF Typed, TypeOK, Rows, Writes
    <3>2. /\ rows'[t].status = w.status /\ rows'[t].claim = rows[t].claim
          /\ w.manual => rows'[t].manual
          /\ w.completion # NoBaseline => rows'[t].completion = w.completion
      BY <2>2, <3>1 DEF Appended
    <3> QED BY <3>2
  <2>5. ASSUME NEW u \in DOMAIN rows', rows'[u].status = "completed"
        PROVE  \/ rows'[u].manual
               \/ offline'[Dest(rows'[u].claim)] = "finished"
               \/ rows'[u].completion # NoBaseline /\ rows'[u].completion.stable >= Required
    <3>1. CASE u = t
      BY <2>4, <2>5, <3>1
    <3>2. CASE u # t
      BY <2>2, <2>3, <2>5, <3>2 DEF CompletionHasEvidence
    <3> QED BY <3>1, <3>2
  <2> QED BY <2>5 DEF CompletionHasEvidence
<1> QED BY <1>1, <1>2

\* Rows are completed by such events, and evidence stays.
LEMMA NextCompletionHasEvidence ==
  ASSUME Typed, EvidenceInv, [Next]_vars
  PROVE  CompletionHasEvidence'
<1> USE DEF Typed, TypeOK
<1>1. CASE UNCHANGED rows
  <2> SUFFICES ASSUME NEW t \in DOMAIN rows, rows[t].status = "completed",
                      offline[Dest(rows[t].claim)] = "finished"
               PROVE  offline'[Dest(rows[t].claim)] = "finished"
    BY <1>1 DEF EvidenceInv, CompletionHasEvidence
  <2> QED BY OfflineStep, RowFields
<1>2. ASSUME NEW j \in Jobs, RecordResult(j)
      PROVE  CompletionHasEvidence'
  <2>1. job[j].task \in DOMAIN rows /\ job[j].write \in Writes
    BY <1>2, JobFields DEF RecordResult
  <2>2. job[j].write.status = "completed" => job[j].write.manual
    BY <1>2 DEF RecordResult, EvidenceInv, JobsCompleteByHand
  <2> QED BY <1>2, <2>1, <2>2, AppendedEvidence DEF RecordResult, EvidenceInv, external
<1>3. CASE PollWrite
  <2>1. poll.task \in DOMAIN rows /\ poll.write \in Writes
    BY <1>3, PollFields DEF PollWrite, Idle
  <2>2. Append(poll.task, poll.write) /\ offline' = offline
    BY <1>3 DEF PollWrite, external
  <2>3. poll.write.status = "completed" =>
          \/ offline[Dest(rows[poll.task].claim)] = "finished"
          \/ poll.write.completion # NoBaseline /\ poll.write.completion.stable >= Required
    BY <1>3 DEF PollWrite, EvidenceInv, PollHasEvidence
  <2> QED BY <2>1, <2>2, <2>3, AppendedEvidence DEF EvidenceInv
<1>4. ASSUME NEW t \in Tasks, NEW c, Insert(t, c), offline' = offline
      PROVE  CompletionHasEvidence'
  BY <1>4 DEF Insert, EvidenceInv, CompletionHasEvidence
<1>5. CASE \E j \in Jobs : SubmitNew(j) \/ ClaimRetry(j)
  BY <1>4, <1>5 DEF SubmitNew, ClaimRetry, external
<1>6. CASE \E j \in Jobs : \/ Resubmit(j) \/ RetryRefused(j) \/ EnsureDestination(j)
                           \/ AddOffline(j) \/ ManualComplete(j) \/ JobFails(j)
  BY <1>1, <1>6, ResubmitReads DEF RetryRefused, EnsureDestination, AddOffline, ManualComplete,
                    JobFails, database
<1>7. CASE \/ PollCycle \/ (\E t \in Tasks : PollRead(t)) \/ PollSignal
           \/ PollSnapshot \/ PollSkips \/ PollFails
  BY <1>1, <1>7 DEF PollCycle, PollRead, PollSignal, PollSnapshot, PollSkips, PollFails, database
<1>8. CASE Environment
  BY <1>1, <1>8 DEF Environment, Crash, DeadlinePasses, OfflineProgress, FileGrows, database
<1>9. CASE UNCHANGED vars
  BY <1>1, <1>9 DEF vars
<1> QED
  BY <1>2, <1>3, <1>5, <1>6, <1>7, <1>8, <1>9 DEF Next, JobStep, PollStep

\* The four parts keep each other.
LEMMA NextEvidence == Typed /\ EvidenceInv /\ [Next]_vars => EvidenceInv'
BY NextReadsUnfinished, NextJobsCompleteByHand, NextPollHasEvidence,
   NextCompletionHasEvidence DEF EvidenceInv

\* They always hold.
LEMMA AlwaysEvidence == Spec => []EvidenceInv
BY InitEvidence, NextEvidence, AlwaysTyped, PTL DEF Spec

\* Only a person, the task API or enough equal observations complete a task, also
\* when stale results of other threads overwrite its status.
THEOREM CompletionsHaveEvidence == Spec => []CompletionHasEvidence
<1>1. EvidenceInv => CompletionHasEvidence
  BY DEF EvidenceInv
<1> QED BY <1>1, AlwaysEvidence, PTL

\* From an unfinished status each computed status is legal.
LEMMA TargetsAreLegal == Typed /\ ReadsUnfinished => PollTargetsAreLegal
<1> SUFFICES ASSUME Typed, ReadsUnfinished, poll.pc \in {"signal", "snapshot"}
             PROVE  PollTargetsAreLegal
  BY DEF PollTargetsAreLegal
<1> DEFINE current == poll.read.status
<1>1. current \in Unfinished
  BY DEF ReadsUnfinished
<1>2. \A late : Legal(current, WithoutEvidence(current, late))
  BY <1>1 DEF Legal, WithoutEvidence, Allowed, Unfinished, Terminal, Status
<1>3. Legal(current, "completed") /\ Legal(current, "failed") /\ Legal(current, "downloading")
  BY <1>1 DEF Legal, Allowed, Unfinished, Terminal, Status
<1>4. ASSUME NEW s \in Signals(Dest(rows[poll.task].claim)) \ {"unknown"}
      PROVE  Legal(current, SignalWrite(s, current).status)
  <2>1. s \in {"init", "downloading", "finished", "error"}
    BY DEF Signals
  <2>2. current = "submitting" => Legal(current, "submitted")
    BY DEF Legal, Allowed, Status, Unfinished, Terminal
  <2>3. Legal(current, current)
    BY DEF Legal
  <2>4. SignalWrite(s, current).status
          \in {"completed", "failed", "downloading",
               IF current = "submitting" THEN "submitted" ELSE current}
    BY <2>1 DEF SignalWrite, Write
  <2> QED BY <1>3, <2>2, <2>3, <2>4
<1>5. Legal(current, SilentWrite.status)
  BY <1>2 DEF SilentWrite, Write
<1>6. Legal(current, ObservationWrite(poll.read, disk[Dest(rows[poll.task].claim)],
                                      poll.late).status)
  BY <1>2, <1>3 DEF ObservationWrite, Write
<1> QED BY <1>4, <1>5, <1>6 DEF PollTargetsAreLegal

\* poll never raises InvalidStatusTransition.
THEOREM PollerStaysLegal == Spec => []PollTargetsAreLegal
<1>1. EvidenceInv => ReadsUnfinished
  BY DEF EvidenceInv
<1> QED BY <1>1, TargetsAreLegal, AlwaysTyped, AlwaysEvidence, PTL

------------------------------------------------------------------------------
(***************************************************************************)
(* Baselines.  Two facts keep a stale thread from restarting the evidence  *)
(* of a task: the one job that submits it is alone in bringing its first   *)
(* completion state, and the poller, alone in bringing the later ones,     *)
(* always holds the latest.                                                *)
(***************************************************************************)

Submits(j) ==
  \/ job[j].pc \in {"ensure", "add"}
  \/ job[j].pc = "record" /\ job[j].write.completion # NoBaseline

SubmissionOwnsTask ==
  \A j \in Jobs : Submits(j) =>
    /\ rows[job[j].task].completion = NoBaseline
    /\ \A i \in Jobs : Submits(i) /\ job[i].task = job[j].task => i = j

\* What a completion state may become.
Continues(old, new) ==
  /\ new # NoBaseline
  /\ new.baseline = old.baseline
  /\ old.owned # {} => new.owned = old.owned

PollAgrees ==
  /\ poll.pc \in {"signal", "snapshot"} /\ poll.read.completion # NoBaseline
       => rows[poll.task].completion = poll.read.completion
  /\ poll.pc = "write" /\ poll.write.completion # NoBaseline
       => /\ rows[poll.task].completion # NoBaseline
          /\ Continues(rows[poll.task].completion, poll.write.completion)

BaselineInv == SubmissionOwnsTask /\ PollAgrees

\* In the beginning there are no baselines.
LEMMA InitBaseline == Init => BaselineInv
BY DEF Init, BaselineInv, SubmissionOwnsTask, Submits, PollAgrees, Idle

\* An event replaces the completion state of its task, or no completion state.
LEMMA AppendCompletion ==
  ASSUME RowsOK, NEW t \in DOMAIN rows, NEW w \in Writes, Append(t, w),
         NEW u \in DOMAIN rows
  PROVE  \/ rows'[u].completion = rows[u].completion
         \/ /\ u = t /\ w.completion # NoBaseline
            /\ rows'[u].completion = w.completion
BY DEF Append, Appended, RowsOK

\* A claim changes no completion state.
LEMMA InsertCompletion ==
  ASSUME RowsOK, NEW t, NEW c, Insert(t, c)
  PROVE  /\ DOMAIN rows' = DOMAIN rows \union {t} /\ t \notin DOMAIN rows
         /\ rows'[t].completion = NoBaseline
         /\ \A u \in DOMAIN rows : rows'[u] = rows[u]
BY DEF Insert

\* No step but a claim starts a submission.
LEMMA NoNewSubmission ==
  ASSUME Typed, [Next]_vars, ~\E i \in Jobs : SubmitNew(i) \/ ClaimRetry(i),
         NEW j \in Jobs, Submits(j)'
  PROVE  Submits(j) /\ job'[j].task = job[j].task
<1> USE DEF Typed, TypeOK
<1>1. CASE UNCHANGED job
  BY <1>1 DEF Submits
<1>2. ASSUME NEW i \in Jobs, JobStep(i)
      PROVE  Submits(j) /\ job'[j].task = job[j].task
  <2>1. CASE job'[j] = job[j]
    BY <2>1 DEF Submits
  <2>2. CASE Resubmit(i)
    <3>1. PICK c : Goto(i, [pc |-> "claim", claim |-> c])
      BY <2>2, ResubmitReads
    <3> QED BY <2>1, <3>1 DEF Goto, JobsOK, Submits
  <2>3. CASE RetryRefused(i) \/ RecordResult(i) \/ JobFails(i)
    BY <2>1, <2>3 DEF RetryRefused, RecordResult, JobFails, Idle, Goto, JobsOK, Submits
  <2>4. CASE ManualComplete(i)
    <3>1. PICK t, w : Record(i, t, w) /\ w.completion = NoBaseline
      BY <2>4 DEF ManualComplete, Write
    <3> QED BY <2>1, <3>1 DEF Record, Goto, JobsOK, Submits
  <2>5. CASE EnsureDestination(i) \/ AddOffline(i)
    <3>1. PICK state : Goto(i, state) /\ state.task = job[i].task
      <4>1. CASE EnsureDestination(i)
        BY <4>1 DEF EnsureDestination, Record
      <4>2. CASE AddOffline(i)
        <5>1. PICK w : Record(i, job[i].task, w)
          BY <4>2 DEF AddOffline
        <5>2. [pc |-> "record", task |-> job[i].task, write |-> w].task = job[i].task
          OBVIOUS
        <5> QED BY <5>1, <5>2 DEF Record
      <4> QED BY <2>5, <4>1, <4>2
    <3> QED BY <2>1, <2>5, <3>1 DEF Goto, JobsOK, Submits, EnsureDestination, AddOffline
  <2> QED BY <1>2, <2>2, <2>3, <2>4, <2>5 DEF JobStep
<1>3. CASE PollStep \/ PollFails
  BY <1>1, <1>3 DEF PollStep, PollCycle, PollRead, PollSignal, PollSnapshot, PollSkips,
                    PollWrite, PollFails
<1>4. CASE Crash
  BY <1>4 DEF Crash, Idle, Submits
<1>5. CASE Environment /\ ~Crash
  BY <1>1, <1>5 DEF Environment, DeadlinePasses, OfflineProgress, FileGrows
<1>6. CASE UNCHANGED vars
  BY <1>1, <1>6 DEF vars
<1> QED BY <1>2, <1>3, <1>4, <1>5, <1>6 DEF Next

\* While a job submits a task, the task gets no baseline from anyone else.
LEMMA SubmittedStaysBare ==
  ASSUME Typed, BaselineInv, [Next]_vars, NEW j \in Jobs, Submits(j), Submits(j)',
         job'[j].task = job[j].task
  PROVE  rows'[job[j].task].completion = NoBaseline
<1> USE DEF Typed, TypeOK
<1> DEFINE t == job[j].task
<1>1. t \in DOMAIN rows /\ rows[t].completion = NoBaseline
  BY JobFields DEF Submits, BaselineInv, SubmissionOwnsTask
<1>2. CASE UNCHANGED rows
  BY <1>1, <1>2
<1>3. CASE \E u, c : Insert(u, c)
  BY <1>1, <1>3, InsertCompletion
<1>4. ASSUME NEW i \in Jobs, RecordResult(i)
      PROVE  rows'[t].completion = NoBaseline
  <2>1. job[i].task \in DOMAIN rows /\ job[i].write \in Writes
    BY <1>4, JobFields DEF RecordResult
  <2>2. i # j
    BY <1>4 DEF RecordResult, Goto, JobsOK, Submits, Idle
  <2>3. job[i].write.completion # NoBaseline => job[i].task # t
    BY <1>4, <2>2 DEF RecordResult, Submits, BaselineInv, SubmissionOwnsTask
  <2>4. Append(job[i].task, job[i].write)
    BY <1>4 DEF RecordResult
  <2> QED BY <1>1, <2>1, <2>3, <2>4, AppendCompletion
<1>5. CASE PollWrite
  <2>1. poll.task \in DOMAIN rows /\ poll.write \in Writes
    BY <1>5, PollFields DEF PollWrite, Idle
  <2>2. poll.write.completion # NoBaseline => poll.task # t
    BY <1>1, <1>5 DEF PollWrite, BaselineInv, PollAgrees
  <2>3. Append(poll.task, poll.write)
    BY <1>5 DEF PollWrite
  <2> QED BY <1>1, <2>1, <2>2, <2>3, AppendCompletion
<1> QED
  <2>1. CASE \E i \in Jobs : SubmitNew(i) \/ ClaimRetry(i)
    BY <1>3, <2>1 DEF SubmitNew, ClaimRetry
  <2>2. CASE \E i \in Jobs : \/ Resubmit(i) \/ RetryRefused(i) \/ EnsureDestination(i)
                             \/ AddOffline(i) \/ ManualComplete(i) \/ JobFails(i)
    BY <1>2, <2>2, ResubmitReads DEF RetryRefused, EnsureDestination, AddOffline, ManualComplete,
                      JobFails, database
  <2>3. CASE \/ PollCycle \/ (\E u \in Tasks : PollRead(u)) \/ PollSignal
             \/ PollSnapshot \/ PollSkips \/ PollFails
    BY <1>2, <2>3 DEF PollCycle, PollRead, PollSignal, PollSnapshot, PollSkips, PollFails,
                      database
  <2>4. CASE Environment
    BY <1>2, <2>4 DEF Environment, Crash, DeadlinePasses, OfflineProgress, FileGrows, database
  <2>5. CASE UNCHANGED vars
    BY <1>2, <2>5 DEF vars
  <2> QED BY <1>4, <1>5, <2>1, <2>2, <2>3, <2>4, <2>5 DEF Next, JobStep, PollStep

\* A task without a baseline stays with its one submission.
LEMMA NextSubmissionOwnsTask ==
  ASSUME Typed, BaselineInv, [Next]_vars
  PROVE  SubmissionOwnsTask'
<1> USE DEF Typed, TypeOK
<1>1. ASSUME NEW i \in Jobs, NEW t, NEW c, Insert(t, c), Goto(i, [pc |-> "ensure", task |-> t])
      PROVE  SubmissionOwnsTask'
  <2>0. /\ t \notin DOMAIN rows /\ rows'[t].completion = NoBaseline
        /\ \A u \in DOMAIN rows : rows'[u] = rows[u]
    BY <1>1, InsertCompletion
  <2>1. job'[i] = [pc |-> "ensure", task |-> t] /\ \A j \in Jobs \ {i} : job'[j] = job[j]
    BY <1>1 DEF Goto, JobsOK
  <2>2. \A j \in Jobs \ {i} : Submits(j)' => Submits(j) /\ job[j].task \in DOMAIN rows
    BY <2>1, JobFields DEF Submits
  <2>3. \A j \in Jobs \ {i} : Submits(j)' => rows'[job'[j].task].completion = NoBaseline
    BY <2>0, <2>1, <2>2 DEF BaselineInv, SubmissionOwnsTask
  <2>4. \A j \in Jobs \ {i} : Submits(j)' => job'[j].task # t
    BY <2>0, <2>1, <2>2
  <2>5. rows'[job'[i].task].completion = NoBaseline /\ job'[i].task = t
    BY <2>0, <2>1
  <2>6. \A j, k \in Jobs : Submits(j)' /\ Submits(k)' /\ job'[j].task = job'[k].task => j = k
    BY <2>1, <2>2, <2>4, <2>5 DEF BaselineInv, SubmissionOwnsTask
  <2> QED BY <2>3, <2>5, <2>6 DEF SubmissionOwnsTask
<1>2. CASE \E i \in Jobs : SubmitNew(i) \/ ClaimRetry(i)
  BY <1>1, <1>2 DEF SubmitNew, ClaimRetry
<1>3. CASE ~\E i \in Jobs : SubmitNew(i) \/ ClaimRetry(i)
  BY <1>3, NoNewSubmission, SubmittedStaysBare DEF BaselineInv, SubmissionOwnsTask
<1> QED BY <1>2, <1>3

\* A completion state continues itself.
LEMMA ContinuesSelf ==
  ASSUME NEW c, c # NoBaseline
  PROVE  Continues(c, c)
BY DEF Continues

\* What a step makes of the completion state of a task that has one.
LEMMA CompletionContinues ==
  ASSUME Typed, BaselineInv, [Next]_vars,
         NEW t \in DOMAIN rows, rows[t].completion # NoBaseline
  PROVE  /\ Continues(rows[t].completion, rows'[t].completion)
         /\ ~PollWrite \/ poll.task # t => rows'[t].completion = rows[t].completion
<1> USE DEF Typed, TypeOK
<1>1. CASE UNCHANGED rows
  BY <1>1, ContinuesSelf
<1>2. CASE \E u, c : Insert(u, c)
  <2>1. rows'[t] = rows[t]
    BY <1>2, InsertCompletion
  <2> QED BY <2>1, ContinuesSelf
<1>3. ASSUME NEW i \in Jobs, RecordResult(i)
      PROVE  rows'[t].completion = rows[t].completion
  <2>1. job[i].task \in DOMAIN rows /\ job[i].write \in Writes
    BY <1>3, JobFields DEF RecordResult
  <2>2. job[i].write.completion # NoBaseline => job[i].task # t
    BY <1>3 DEF RecordResult, Submits, BaselineInv, SubmissionOwnsTask
  <2>3. Append(job[i].task, job[i].write)
    BY <1>3 DEF RecordResult
  <2> QED BY <2>1, <2>2, <2>3, AppendCompletion
<1>4. CASE PollWrite
  <2>1. poll.task \in DOMAIN rows /\ poll.write \in Writes
    BY <1>4, PollFields DEF PollWrite, Idle
  <2>2. poll.write.completion # NoBaseline
          => Continues(rows[poll.task].completion, poll.write.completion)
    BY <1>4 DEF PollWrite, BaselineInv, PollAgrees
  <2>3. Append(poll.task, poll.write)
    BY <1>4 DEF PollWrite
  <2>4. \/ rows'[t].completion = rows[t].completion
        \/ /\ t = poll.task /\ poll.write.completion # NoBaseline
           /\ rows'[t].completion = poll.write.completion
    BY <2>1, <2>3, AppendCompletion
  <2>5. CASE rows'[t].completion = rows[t].completion
    BY <2>5, ContinuesSelf
  <2>6. CASE /\ t = poll.task /\ poll.write.completion # NoBaseline
             /\ rows'[t].completion = poll.write.completion
    BY <1>4, <2>2, <2>6
  <2> QED BY <2>4, <2>5, <2>6
<1>5. CASE \E i \in Jobs : RecordResult(i)
  BY <1>3, <1>5, ContinuesSelf
<1> QED
  <2>1. CASE \E i \in Jobs : SubmitNew(i) \/ ClaimRetry(i)
    BY <1>2, <2>1 DEF SubmitNew, ClaimRetry
  <2>2. CASE \E i \in Jobs : \/ Resubmit(i) \/ RetryRefused(i) \/ EnsureDestination(i)
                             \/ AddOffline(i) \/ ManualComplete(i) \/ JobFails(i)
    BY <1>1, <2>2, ResubmitReads DEF RetryRefused, EnsureDestination, AddOffline, ManualComplete,
                      JobFails, database
  <2>3. CASE \/ PollCycle \/ (\E u \in Tasks : PollRead(u)) \/ PollSignal
             \/ PollSnapshot \/ PollSkips \/ PollFails
    BY <1>1, <2>3 DEF PollCycle, PollRead, PollSignal, PollSnapshot, PollSkips, PollFails,
                      database
  <2>4. CASE Environment
    BY <1>1, <2>4 DEF Environment, Crash, DeadlinePasses, OfflineProgress, FileGrows, database
  <2>5. CASE UNCHANGED vars
    BY <1>1, <2>5 DEF vars
  <2> QED BY <1>4, <1>5, <2>1, <2>2, <2>3, <2>4, <2>5 DEF Next, JobStep, PollStep

\* An event after a signal leaves the completion state alone.
LEMMA SignalsCarryNoCompletion ==
  ASSUME NEW signal \in {"init", "downloading", "finished", "error"}, NEW current
  PROVE  SignalWrite(signal, current).completion = NoBaseline
BY DEF SignalWrite, Write

\* Between its read and its write the poller's copy stays in agreement.
LEMMA NextPollAgrees ==
  ASSUME Typed, BaselineInv, [Next]_vars
  PROVE  PollAgrees'
<1> USE DEF Typed, TypeOK
<1>1. ASSUME UNCHANGED poll
      PROVE  PollAgrees'
  <2>1. CASE poll = Idle
    BY <1>1, <2>1 DEF PollAgrees, Idle
  <2>2. CASE poll # Idle
    <3>1. ~PollWrite
      BY <1>1, <2>2 DEF PollWrite, PollEnds
    <3>2. poll.task \in DOMAIN rows
      BY <2>2, PollFields
    <3>3. rows[poll.task].completion # NoBaseline
            => rows'[poll.task].completion = rows[poll.task].completion
      BY <3>1, <3>2, CompletionContinues
    <3> QED BY <1>1, <3>3 DEF BaselineInv, PollAgrees
  <2> QED BY <2>1, <2>2
<1>2. CASE poll' = Idle
  BY <1>2 DEF PollAgrees, Idle
<1>3. ASSUME NEW t \in Tasks, PollRead(t)
      PROVE  PollAgrees'
  BY <1>1, <1>3 DEF PollRead, PollAgrees, database
<1>4. CASE PollSignal
  <2>1. UNCHANGED rows
    BY <1>4 DEF PollSignal, database
  <2>2. ASSUME NEW w, NEW repeats, PollWrites(w, repeats), w.completion = NoBaseline
        PROVE  PollAgrees'
    BY <2>2 DEF PollWrites, PollAgrees
  <2>3. CASE PollWrites(SilentWrite, FALSE)
    BY <2>2, <2>3 DEF SilentWrite, Write
  <2>4. ASSUME NEW s \in Signals(Dest(rows[poll.task].claim)) \ {"unknown"},
               PollWrites(SignalWrite(s, poll.read.status), FALSE)
        PROVE  PollAgrees'
    BY <2>2, <2>4, SignalsCarryNoCompletion DEF Signals
  <2>5. CASE poll' = [poll EXCEPT !.pc = "snapshot"]
    <3>1. poll \in [pc : {"signal", "snapshot"}, task : Tasks, read : Reads, late : BOOLEAN]
      BY <1>4 DEF PollSignal, PollOK, PollStates, Idle
    <3>2. poll'.pc = "snapshot" /\ poll'.task = poll.task /\ poll'.read = poll.read
      BY <2>5, <3>1
    <3> QED BY <1>4, <2>1, <3>2 DEF PollSignal, BaselineInv, PollAgrees
  <2> QED BY <1>4, <2>3, <2>4, <2>5 DEF PollSignal
<1>5. CASE PollSnapshot
  <2> DEFINE snapshot == disk[Dest(rows[poll.task].claim)]
             w == ObservationWrite(poll.read, snapshot, poll.late)
             after == Observe(poll.read.completion, snapshot)
  <2>1. /\ poll.task \in DOMAIN rows /\ poll.read \in Reads
        /\ poll.read.completion # NoBaseline
    BY <1>5, PollFields DEF PollSnapshot, PollHasBaseline, Idle
  <2>2. snapshot \in Snapshots
    BY <2>1, RowFields DEF ExternalOK
  <2>3. after \in CompletionState /\ Continues(poll.read.completion, after)
    BY <2>1, <2>2, ObserveKeeps, NoBaselineAssumption DEF Continues, Reads, Baselines
  <2>4. rows[poll.task].completion = poll.read.completion
    BY <1>5, <2>1 DEF PollSnapshot, BaselineInv, PollAgrees
  <2>5. UNCHANGED rows
    BY <1>5 DEF PollSnapshot, database
  <2> HIDE DEF after
  <2>6. w.completion = after
    BY DEF ObservationWrite, Write, after
  <2> HIDE DEF w
  <2>7. CASE PollWrites(SilentWrite, FALSE)
    BY <2>7 DEF PollWrites, PollAgrees, SilentWrite, Write
  <2>8. CASE \E repeats : PollWrites(w, repeats)
    <3>1. poll'.pc = "write" /\ poll'.task = poll.task /\ poll'.write = w
      BY <2>8 DEF PollWrites
    <3> QED BY <2>1, <2>3, <2>4, <2>5, <2>6, <3>1 DEF PollAgrees
  <2> QED BY <1>5, <2>7, <2>8 DEF PollSnapshot, w
<1>6. CASE PollCycle
  BY <1>1, <1>6 DEF PollCycle
<1>7. CASE PollSkips \/ PollWrite \/ PollFails
  BY <1>2, <1>7 DEF PollSkips, PollWrite, PollFails, PollEnds
<1>8. CASE \E j \in Jobs : JobStep(j)
  BY <1>1, <1>8, ResubmitReads DEF JobStep, SubmitNew, ClaimRetry, RetryRefused,
     EnsureDestination, AddOffline, RecordResult, ManualComplete, JobFails
<1>9. CASE Environment
  BY <1>1, <1>2, <1>9 DEF Environment, Crash, DeadlinePasses, OfflineProgress, FileGrows
<1>10. CASE UNCHANGED vars
  BY <1>1, <1>10 DEF vars
<1> QED BY <1>3, <1>4, <1>5, <1>6, <1>7, <1>8, <1>9, <1>10 DEF Next, PollStep

\* Both parts always hold.
LEMMA AlwaysBaseline == Spec => []BaselineInv
<1>1. Typed /\ BaselineInv /\ [Next]_vars => BaselineInv'
  BY NextSubmissionOwnsTask, NextPollAgrees DEF BaselineInv
<1> QED BY <1>1, InitBaseline, AlwaysTyped, PTL DEF Spec

\* No interleaving of submissions, retries, polls and crashes takes a recorded
\* baseline from a task, exchanges it, or moves its ownership to other entries.
THEOREM BaselinesArePermanent == Spec => BaselineIsPermanent
<1> DEFINE Permanent ==
      \A t \in DOMAIN rows :
        rows[t].completion # NoBaseline =>
          /\ rows'[t].completion # NoBaseline
          /\ rows'[t].completion.baseline = rows[t].completion.baseline
          /\ rows[t].completion.owned # {} =>
               rows'[t].completion.owned = rows[t].completion.owned
<1>1. Typed /\ BaselineInv /\ [Next]_vars => Permanent
  BY CompletionContinues DEF Continues
<1>2. Typed /\ BaselineInv /\ [Next]_vars => [Permanent]_vars
  BY <1>1
<1> QED BY <1>2, AlwaysTyped, AlwaysBaseline, PTL DEF Spec, BaselineIsPermanent

------------------------------------------------------------------------------
(***************************************************************************)
(* Lineage.  A generation is read in one session and claimed in another;   *)
(* what counts is that it was above the superseded task when it was read,  *)
(* and that a task never changes its claim.                                *)
(***************************************************************************)

Supersedes(c, older) ==
  older \in DOMAIN rows /\ rows[older].claim.generation < c.generation

ClaimsToCome ==
  \A j \in Jobs, c \in Claims :
    job[j].pc = "claim" /\ job[j].claim = c => Supersedes(c, c.supersedes)

LineageInv == ClaimsToCome /\ LineageGrows

\* In the beginning nothing is superseded.
LEMMA InitLineage == Init => LineageInv
BY DEF Init, LineageInv, ClaimsToCome, LineageGrows, Idle

\* What a claim supersedes, it supersedes for good.
LEMMA SupersedesStays ==
  ASSUME Typed, [Next]_vars, NEW c, NEW older, Supersedes(c, older)
  PROVE  Supersedes(c, older)'
BY ClaimsKept DEF Supersedes

\* The next generation is above that of the task whose content or BTIH it is for.
LEMMA ResubmitClaims ==
  ASSUME Typed, NEW j \in Jobs, Resubmit(j)
  PROVE  \E c \in Claims : /\ Goto(j, [pc |-> "claim", claim |-> c])
                           /\ Supersedes(c, c.supersedes)
<1>1. PICK t \in DOMAIN rows, content \in Contents, candidate \in Candidates,
           profile \in Profiles :
        /\ ClaimNext(j, t, content, candidate, profile)
        /\ rows[t].claim.content = content \/ rows[t].claim.candidate = candidate
  <2>1. \A t \in DOMAIN rows : rows[t].claim \in Claims
    BY RowFields DEF Typed, TypeOK
  <2> QED BY <2>1 DEF Resubmit, Retry, ForceMagnet, Fallback, Claims
<1> DEFINE claim(g) == [content |-> content, candidate |-> candidate, profile |-> profile,
                        generation |-> g, supersedes |-> t]
<1>2. PICK g \in 1..MaxGeneration :
        IsNextGeneration(g, content, candidate) /\ Goto(j, [pc |-> "claim", claim |-> claim(g)])
  BY <1>1 DEF ClaimNext
<1>3. rows[t].claim.generation < g
  BY <1>1, <1>2 DEF IsNextGeneration
<1>4. claim(g) \in Claims
  BY <1>1, BoundsAssumption, RowFields DEF Claims, Typed, TypeOK
<1>5. Supersedes(claim(g), claim(g).supersedes)
  BY <1>3 DEF Supersedes
<1> QED BY <1>2, <1>4, <1>5

\* A thread keeps the bound it has read until it claims.
LEMMA NextClaimsToCome ==
  ASSUME Typed, ClaimsToCome, [Next]_vars
  PROVE  ClaimsToCome'
<1>1. ASSUME NEW j \in Jobs, NEW c \in Claims, job[j].pc = "claim", job[j].claim = c
      PROVE  Supersedes(c, c.supersedes)'
  BY <1>1, SupersedesStays DEF ClaimsToCome
<1>2. CASE UNCHANGED job
  BY <1>1, <1>2 DEF ClaimsToCome
<1>3. ASSUME NEW j \in Jobs, NEW state, Goto(j, state),
             \A c \in Claims : state.pc = "claim" /\ state.claim = c =>
                                 Supersedes(c, c.supersedes)'
      PROVE  ClaimsToCome'
  <2> SUFFICES ASSUME NEW k \in Jobs, NEW c \in Claims, job'[k].pc = "claim", job'[k].claim = c
               PROVE  Supersedes(c, c.supersedes)'
    BY DEF ClaimsToCome
  <2>1. CASE k = j
    BY <1>3, <2>1 DEF Goto, Typed, TypeOK, JobsOK
  <2>2. CASE k # j
    BY <1>1, <1>3, <2>2 DEF Goto, Typed, TypeOK, JobsOK
  <2> QED BY <2>1, <2>2
<1>4. ASSUME NEW j \in Jobs, JobStep(j)
      PROVE  ClaimsToCome'
  <2>1. CASE Resubmit(j)
    <3>1. PICK c \in Claims : /\ Goto(j, [pc |-> "claim", claim |-> c])
                              /\ Supersedes(c, c.supersedes)
      BY <2>1, ResubmitClaims
    <3>2. Supersedes(c, c.supersedes)'
      BY <3>1, SupersedesStays
    <3> QED BY <1>3, <3>1, <3>2
  <2>2. CASE ~Resubmit(j)
    <3>1. ASSUME NEW state, Goto(j, state), state.pc # "claim"
          PROVE  ClaimsToCome'
      BY <1>3, <3>1
    <3>2. CASE \/ SubmitNew(j) \/ ClaimRetry(j) \/ RetryRefused(j) \/ RecordResult(j)
               \/ JobFails(j)
      BY <3>1, <3>2 DEF SubmitNew, ClaimRetry, RetryRefused, RecordResult, JobFails, Idle
    <3>3. CASE EnsureDestination(j) \/ AddOffline(j) \/ ManualComplete(j)
      BY <3>1, <3>3 DEF EnsureDestination, AddOffline, ManualComplete, Record
    <3> QED BY <1>4, <2>2, <3>2, <3>3 DEF JobStep
  <2> QED BY <2>1, <2>2
<1>5. CASE PollStep \/ PollFails
  BY <1>2, <1>5 DEF PollStep, PollCycle, PollRead, PollSignal, PollSnapshot, PollSkips,
                    PollWrite, PollFails
<1>6. CASE Crash
  BY <1>6 DEF Crash, Idle, ClaimsToCome
<1>7. CASE Environment /\ ~Crash
  BY <1>2, <1>7 DEF Environment, DeadlinePasses, OfflineProgress, FileGrows
<1>8. CASE UNCHANGED vars
  BY <1>2, <1>8 DEF vars
<1> QED BY <1>4, <1>5, <1>6, <1>7, <1>8 DEF Next

\* A row gets its lineage from its claim.
LEMMA NextLineageGrows ==
  ASSUME Typed, LineageInv, [Next]_vars
  PROVE  LineageGrows'
<1> SUFFICES ASSUME NEW t \in DOMAIN rows', NEW c, rows'[t].claim = c,
                    c.supersedes # NoTask
             PROVE  Supersedes(c, c.supersedes)'
  BY DEF LineageGrows, Supersedes
<1>1. CASE t \in DOMAIN rows
  <2>1. rows[t].claim = c
    BY <1>1, ClaimsKept
  <2>2. Supersedes(c, c.supersedes)
    BY <1>1, <2>1 DEF LineageInv, LineageGrows, Supersedes
  <2> QED BY <2>2, SupersedesStays
<1>2. CASE t \notin DOMAIN rows
  <2>1. ASSUME NEW u \in Tasks, NEW d, Insert(u, d)
        PROVE  c = d
    BY <1>2, <2>1 DEF Insert
  <2>2. ASSUME NEW j \in Jobs, SubmitNew(j)
        PROVE  FALSE
    <3>1. PICK u \in Tasks, d \in Claims : Insert(u, d) /\ d.supersedes = NoTask
      BY <2>2, BoundsAssumption DEF SubmitNew, Claims
    <3> QED BY <2>1, <3>1
  <2>3. ASSUME NEW j \in Jobs, ClaimRetry(j)
        PROVE  Supersedes(c, c.supersedes)
    <3>1. job[j].pc = "claim" /\ job[j].claim \in Claims /\ c = job[j].claim
      BY <2>1, <2>3, JobFields DEF ClaimRetry, Typed, TypeOK
    <3> QED BY <3>1 DEF LineageInv, ClaimsToCome
  <2>4. \E j \in Jobs : SubmitNew(j) \/ ClaimRetry(j)
    <3>1. ~UNCHANGED rows /\ ~\E u \in DOMAIN rows, w \in Writes : Append(u, w)
      BY <1>2 DEF Append
    <3>2. ASSUME NEW j \in Jobs, JobStep(j)
          PROVE  SubmitNew(j) \/ ClaimRetry(j)
      <4>1. ~RecordResult(j)
        BY <3>1, JobFields DEF RecordResult, Typed, TypeOK
      <4> QED BY <3>1, <3>2, <4>1, ResubmitReads
              DEF JobStep, RetryRefused, EnsureDestination, AddOffline, ManualComplete,
                  JobFails, database
    <3>3. ~PollWrite
      BY <3>1, PollFields DEF PollWrite, Typed, TypeOK, Idle
    <3>4. ~(PollStep \/ PollFails)
      BY <3>1, <3>3 DEF PollStep, PollCycle, PollRead, PollSignal, PollSnapshot, PollSkips,
                        PollFails, database
    <3>5. ~(Environment \/ UNCHANGED vars)
      BY <3>1 DEF Environment, Crash, DeadlinePasses, OfflineProgress, FileGrows, database,
                  vars
    <3> QED BY <3>2, <3>4, <3>5 DEF Next
  <2> QED BY <2>2, <2>3, <2>4, SupersedesStays
<1> QED BY <1>1, <1>2

\* A task that replaces another is of a later generation, however stale the
\* generation was that its thread had read.
THEOREM LineagesGrow == Spec => []LineageGrows
<1>1. Typed /\ LineageInv /\ [Next]_vars => LineageInv'
  BY NextClaimsToCome, NextLineageGrows DEF LineageInv
<1>2. LineageInv => LineageGrows
  BY DEF LineageInv
<1> QED BY <1>1, <1>2, InitLineage, AlwaysTyped, PTL DEF Spec
==============================================================================
