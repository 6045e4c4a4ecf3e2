------------------------------- MODULE RemoteTree -------------------------------
(***************************************************************************)
(* How the CloudDrive2 client looks at a directory tree that changes       *)
(* (downloaders/clouddrive.py): ensure_destination lists and creates one   *)
(* folder after another, snapshot lists one directory after another, and   *)
(* downloads, users and the other threads change the tree in between.      *)
(*                                                                         *)
(* A path is the sequence of the names below the root.  DownloadService    *)
(* takes a snapshot in one step; this module is about the steps it has.    *)
(***************************************************************************)
EXTENDS Integers, Sequences, FiniteSets, TreeTable

CONSTANTS
  Threads,
  Names,        \* of folders and files
  Paths,        \* the paths there may be, without the root
  MaxDepth,     \* max_tree_depth
  MaxSize,      \* bound: the sizes of files
  MaxChanges,   \* bound: changes of the tree by others
  MaxFaults     \* bound: calls without an answer

PathsAssumption ==
  /\ Paths \subseteq Seq(Names) \ {<<>>} /\ IsFiniteSet(Paths)
  /\ \A p \in Paths : \A n \in 1..Len(p) : SubSeq(p, 1, n) \in Paths
  /\ Destination \in Paths /\ Root \in Seq(Names) /\ IsPrefix(Root, Destination)
BoundsAssumption ==
  {MaxDepth, MaxEntries, MaxSize, MaxChanges, MaxFaults} \subseteq Nat

VARIABLES
  tree      \* path -> Dir or the size of a file

vars == <<tree, call, changes, faults, seen>>

Sizes == 0..MaxSize
IsDir(path) == path = <<>> \/ (path \in DOMAIN tree /\ tree[path] = Dir)
Children(path) == {p \in DOMAIN tree : Front(p) = path}
Facts == {<<p, tree[p]>> : p \in DOMAIN tree}

Idle == [pc |-> "idle"]
Become(t, state) == call' = [call EXCEPT ![t] = state]

\* seen[t].always: entries there all the time; seen[t].ever: entries there at a time.
Look == [always |-> Facts, ever |-> Facts]
Begin(t) == seen' = [seen EXCEPT ![t] = Look]

\* The tree changes, and with it what every thread may have seen.
Becomes(new) ==
  /\ tree' = new
  /\ LET facts == {<<p, new[p]>> : p \in DOMAIN new}
     IN  seen' = [t \in Threads |-> [always |-> seen[t].always \intersect facts,
                                     ever   |-> seen[t].ever \union facts]]

------------------------------------------------------------------------------
(***************************************************************************)
(* ensure_destination.                                                     *)
(***************************************************************************)

EnsureBegins(t) ==
  /\ call[t] = Idle
  /\ Begin(t)
  /\ Become(t, IF Components = <<>> THEN [pc |-> "ensured"]
               ELSE [pc |-> "list", todo |-> Components])
  /\ UNCHANGED <<tree, changes, faults>>

Advance(t) ==
  LET rest == Tail(call[t].todo)
  IN  Become(t, IF rest = <<>> THEN [pc |-> "ensured"] ELSE [pc |-> "list", todo |-> rest])

\* _list_direct names what is in a folder, unless it is more than the limit.
TooMany(folder) == Cardinality(Children(folder)) > MaxEntries
Listed(folder) == IsDir(folder) /\ ~TooMany(folder)

\* The folder is there, is missing, or cannot be found or made.
EnsureLists(t) ==
  /\ call[t].pc = "list"
  /\ LET target == Head(call[t].todo)
         listed == Listed(Front(target))
     IN  \/ /\ listed /\ IsDir(target)
            /\ Advance(t)
         \/ /\ listed /\ target \notin DOMAIN tree
            /\ Become(t, [call[t] EXCEPT !.pc = "create"])
         \/ /\ ~listed \/ (target \in DOMAIN tree /\ ~IsDir(target))
            /\ Become(t, [pc |-> "unensured"])
  /\ UNCHANGED <<tree, changes, faults, seen>>

\* CreateFolder: it creates, is refused because there is something or nothing
\* to create it in, or has no answer whether it was carried out or not.
EnsureCreates(t) ==
  /\ call[t].pc = "create"
  /\ LET target == Head(call[t].todo)
         possible == IsDir(Front(target)) /\ target \notin DOMAIN tree
         created == [p \in DOMAIN tree \union {target} |-> IF p = target THEN Dir ELSE tree[p]]
     IN  \/ /\ possible /\ Becomes(created)
            /\ Advance(t)
            /\ UNCHANGED faults
         \/ /\ ~possible
            /\ Become(t, [call[t] EXCEPT !.pc = "check"])
            /\ UNCHANGED <<tree, seen, faults>>
         \/ /\ faults < MaxFaults /\ faults' = faults + 1
            /\ (possible /\ Becomes(created)) \/ UNCHANGED <<tree, seen>>
            /\ Become(t, [call[t] EXCEPT !.pc = "check"])
  /\ UNCHANGED changes

\* Mutant: a refusal is final.
CheckNothing(t) ==
  /\ call[t].pc = "check"
  /\ Become(t, [pc |-> "unensured"])
  /\ UNCHANGED <<tree, changes, faults, seen>>

\* _directory_exists after a refusal or an error: it lists the parent again, which
\* what others have created meanwhile may have made too large.
EnsureChecks(t) ==
  /\ call[t].pc = "check"
  /\ LET target == Head(call[t].todo)
     IN  IF Listed(Front(target)) /\ IsDir(target) THEN Advance(t)
         ELSE Become(t, [pc |-> "unensured"])
  /\ UNCHANGED <<tree, changes, faults, seen>>

------------------------------------------------------------------------------
(***************************************************************************)
(* snapshot.                                                               *)
(***************************************************************************)

SnapshotBegins(t) ==
  /\ call[t] = Idle
  /\ Begin(t)
  /\ Become(t, [pc |-> "snapshot", pending |-> <<Destination>>, files |-> {}])
  /\ UNCHANGED <<tree, changes, faults>>

Depth(path) == Len(path) - Len(Destination)

\* Mutant: what has waited so far is forgotten.
OnlyNew(waiting, new) == new

\* Each entry of a listing is counted before it is taken.
Full(files, waiting, entries) == entries # {} /\ files + waiting + Cardinality(entries) > MaxEntries
Pending(waiting, new) == waiting \o new

\* One GetSubFiles, of the path that came last.  A tree has no cycles, so no
\* path is met twice (visited).
SnapshotLists(t) ==
  /\ call[t].pc = "snapshot" /\ call[t].pending # <<>>
  /\ LET path == Last(call[t].pending)
         waiting == Front(call[t].pending)
         files == call[t].files
         entries == Children(path)
         dirs == {p \in entries : tree[p] = Dir}
         full == Full(Cardinality(files), Len(waiting), entries)
     IN  \/ /\ Depth(path) <= MaxDepth /\ IsDir(path) /\ ~full
            /\ \E new \in SetToSeqs(dirs) :
                 Become(t, [pc |-> "snapshot", pending |-> Pending(waiting, new),
                            files |-> files \union {<<p, tree[p]>> : p \in entries \ dirs}])
         \/ /\ Depth(path) <= MaxDepth /\ IsDir(path) /\ full
            /\ Become(t, [pc |-> "full"])
         \/ /\ Depth(path) > MaxDepth \/ ~IsDir(path)
            /\ Become(t, [pc |-> "untaken"])
  /\ UNCHANGED <<tree, changes, faults, seen>>

SnapshotEnds(t) ==
  /\ call[t].pc = "snapshot" /\ call[t].pending = <<>>
  /\ Become(t, [pc |-> "taken", files |-> call[t].files])
  /\ UNCHANGED <<tree, changes, faults, seen>>

\* A listing without an answer.
CallFails(t) ==
  /\ call[t].pc \in {"list", "check", "snapshot"} /\ faults < MaxFaults
  /\ faults' = faults + 1
  /\ Become(t, [pc |-> IF call[t].pc = "snapshot" THEN "untaken" ELSE "unensured"])
  /\ UNCHANGED <<tree, changes, seen>>

------------------------------------------------------------------------------
(***************************************************************************)
(* Downloads, and whoever else uses the drive.                             *)
(***************************************************************************)

Free(path) == path \in Paths \ DOMAIN tree /\ IsDir(Front(path))

Adds(path) ==
  /\ Free(path)
  /\ \E entry \in Sizes \union {Dir} :
       Becomes([p \in DOMAIN tree \union {path} |-> IF p = path THEN entry ELSE tree[p]])

Grows(path) ==
  /\ path \in DOMAIN tree /\ tree[path] # Dir
  /\ \E size \in Sizes : size > tree[path] /\ Becomes([tree EXCEPT ![path] = size])

Within(path) == {p \in DOMAIN tree : IsPrefix(path, p)}

Removes(path) ==
  /\ path \in DOMAIN tree
  /\ Becomes([p \in DOMAIN tree \ Within(path) |-> tree[p]])

\* A directory or a file moves, with all it holds.
Moves(path, target) ==
  LET moved(p) == target \o SubSeq(p, Len(path) + 1, Len(p))
      new == {moved(p) : p \in Within(path)}
      old(q) == path \o SubSeq(q, Len(target) + 1, Len(q))
  IN
  /\ path \in DOMAIN tree /\ Free(target) /\ new \subseteq Paths
  /\ ~IsPrefix(path, target)
  /\ Becomes([p \in (DOMAIN tree \ Within(path)) \union new |->
                IF p \in new THEN tree[old(p)] ELSE tree[p]])

Change ==
  /\ changes < MaxChanges /\ changes' = changes + 1
  /\ \E p \in Paths : Adds(p) \/ Grows(p) \/ Removes(p) \/ \E q \in Paths : Moves(p, q)
  /\ UNCHANGED <<call, faults>>

------------------------------------------------------------------------------

\* What is somewhere is in a directory.
IsTree(new) ==
  /\ DOMAIN new \subseteq Paths
  /\ \A p \in DOMAIN new :
       /\ new[p] \in Sizes \union {Dir}
       /\ Len(p) > 1 => Front(p) \in DOMAIN new /\ new[Front(p)] = Dir
Trees == {new \in UNION {[S -> Sizes \union {Dir}] : S \in SUBSET Paths} : IsTree(new)}

Init ==
  /\ tree \in {new \in Trees : Root = <<>> \/ (Root \in DOMAIN new /\ new[Root] = Dir)}
  /\ call = [t \in Threads |-> Idle]
  /\ changes = 0 /\ faults = 0
  /\ seen = [t \in Threads |-> [always |-> {}, ever |-> {}]]

Next ==
  \/ \E t \in Threads :
       \/ EnsureBegins(t) \/ EnsureLists(t) \/ EnsureCreates(t) \/ EnsureChecks(t)
       \/ SnapshotBegins(t) \/ SnapshotLists(t) \/ SnapshotEnds(t) \/ CallFails(t)
  \/ Change

Spec == Init /\ [][Next]_vars

------------------------------------------------------------------------------
(***************************************************************************)
(* Properties.                                                             *)
(***************************************************************************)

FactSet == Paths \X (Sizes \union {Dir})

\* The tree is one, and threads know entries that a tree may have.
TypeOK ==
  /\ IsTree(tree)
  /\ changes \in 0..MaxChanges /\ faults \in 0..MaxFaults
  /\ \A t \in Threads :
       /\ seen[t].always \subseteq seen[t].ever /\ seen[t].ever \subseteq FactSet
       /\ call[t].pc \in {"snapshot", "taken"} => call[t].files \subseteq FactSet
       /\ call[t].pc \in {"list", "create", "check"} => call[t].todo # <<>>
==============================================================================
