---------------------------- MODULE OverlaySync ----------------------------
(***************************************************************************)
(* pkg/client/irods/overlay.go: after an overlay volume is released, its   *)
(* upper layer is walked and every entry becomes a task that changes the   *)
(* collection in iRODS.  The tasks run in the job manager, which this      *)
(* module takes for a BarrierQueue that has not miscounted: tasks start in *)
(* the order of the walk, and a barrier waits until nothing runs.  What    *)
(* happens after a release has overwritten a start is not in this module.  *)
(*                                                                         *)
(* A task stops between two requests to iRODS.  A request may do a part of *)
(* its work before it succeeds or fails.  Errors of a task are logged and  *)
(* nothing else: Sync answers as if there were none.                       *)
(***************************************************************************)
EXTENDS Integers, Sequences, FiniteSets

CONSTANTS
  Walk,        \* the paths of the volume, in the order WalkDir visits them
  Above,       \* the directories above each path
  MaxThreads,  \* how many tasks run at a time (4 in the code)
  MaxFaults    \* bound: requests that fail

Paths == {Walk[i] : i \in DOMAIN Walk}

ASSUME WalkAssumption ==
  /\ Walk \in Seq(Paths)
  /\ \A i, j \in DOMAIN Walk : Walk[i] = Walk[j] => i = j
\* a directory is visited before what is in it, and paths form a forest
ASSUME AboveAssumption ==
  /\ Above \in [Paths -> SUBSET Paths]
  /\ \A i, j \in DOMAIN Walk : Walk[i] \in Above[Walk[j]] => i < j
  /\ \A p \in Paths : \A q, r \in Above[p] : q = r \/ q \in Above[r] \/ r \in Above[q]
  /\ \A p \in Paths : \A q \in Above[p] : Above[q] \subseteq Above[p]
ASSUME BoundsAssumption == MaxThreads \in Nat \ {0} /\ MaxFaults \in Nat

\* An upper layer holds files, directories that are merged with the lower ones,
\* opaque directories that hide them, whiteouts, and the markers fuse-overlayfs
\* leaves in opaque directories.
UpperKinds == {"none", "file", "dir", "opaque", "whiteout", "marker"}
\* The collection holds files as they were, uploaded or half uploaded ones, and
\* collections.
IrodsKinds == {"none", "old", "new", "torn", "dir"}

VARIABLES
  upper,    \* the upper layer
  lower,    \* the collection before the first sync
  irods,    \* the collection
  pc,       \* where the task of each path is
  phase,    \* where Sync is, and whether the upper layer is deleted after it
  faulted,  \* the paths whose task had a request fail, in this sync
  nfaults   \* what went wrong so far

vars == <<upper, lower, irods, pc, phase, faulted, nfaults>>
trees == <<upper, lower>>

Below(p) == {q \in Paths : p \in Above[q]}

\* a forest: what exists is in a directory
IsTree(tree, dirs) ==
  \A p \in Paths : tree[p] # "none" => \A q \in Above[p] : tree[q] \in dirs

Init ==
  /\ upper \in {u \in [Paths -> UpperKinds] : IsTree(u, {"dir", "opaque"})}
  /\ lower \in {l \in [Paths -> {"none", "old", "dir"}] : IsTree(l, {"dir"})}
  /\ \A p \in Paths : upper[p] = "marker" => lower[p] = "none"
  /\ irods = lower
  /\ pc = [p \in Paths |-> "wait"]
  /\ phase = "syncing"
  /\ faulted = {}
  /\ nfaults = 0
----------------------------------------------------------------------------
(* The walk. *)

Entries == {i \in DOMAIN Walk : upper[Walk[i]] # "none"}
Unvisited == {i \in Entries : pc[Walk[i]] = "wait"}

\* (mutant: the threads of ended tasks are not given back)
RunningForever == {p \in Paths : pc[p] # "wait"}
Running == {p \in Paths : pc[p] \notin {"wait", "done"}}

\* is the entry visited last in another directory?  Then a barrier comes first
\* (mutant: there are no barriers)
NewDirNever(i) == FALSE
Before(i) == {j \in Entries : j < i}
NewDir(i) ==
  \A j \in Before(i) : (\A k \in Before(i) : k <= j) => Above[Walk[j]] # Above[Walk[i]]

Ignored(p) == upper[p] = "marker"

\* after the walk has failed the jobs it has scheduled still run
Begin ==
  /\ phase # "returned"
  /\ \E i \in Unvisited :
       /\ \A j \in Unvisited : i <= j
       /\ Cardinality(Running) < MaxThreads
       /\ NewDir(i) => Running = {}
       /\ pc' = [pc EXCEPT ![Walk[i]] = IF Ignored(Walk[i]) THEN "done" ELSE "stat"]
  /\ UNCHANGED <<trees, irods, phase, faulted, nfaults>>

\* the errors of tasks are not among Sync's
Return ==
  /\ phase = "syncing" /\ Unvisited = {} /\ Running = {}
  /\ phase' = "returned"
  /\ UNCHANGED <<trees, irods, pc, faulted, nfaults>>

\* the upper layer or the log cannot be opened, or a directory cannot be read:
\* Sync returns at once, and its caller releases the iRODS client ...
WalkFails ==
  /\ phase = "syncing" /\ nfaults < MaxFaults
  /\ nfaults' = nfaults + 1
  /\ phase' = "error"
  /\ UNCHANGED <<trees, irods, pc, faulted>>

\* ... and deletes the upper layer
DeleteUpper ==
  /\ phase = "error"
  /\ phase' = "deleted"
  /\ UNCHANGED <<trees, irods, pc, faulted, nfaults>>

\* The driver restarts; the volume is mounted and released once more, and synced
\* from the start.  (What pods write in between is not modelled.)
Restart ==
  /\ phase = "syncing"
  /\ pc' = [p \in Paths |-> "wait"]
  /\ faulted' = {}
  /\ UNCHANGED <<trees, irods, phase, nfaults>>
----------------------------------------------------------------------------
(* The tasks: syncDir, syncFile and syncWhiteout. *)

At(p, label) == pc[p] = label
Goto(p, label) == pc' = [pc EXCEPT ![p] = label]
Unblamed == UNCHANGED <<trees, phase, faulted, nfaults>>

\* an extended attribute of a directory that is gone reads as not set
Opaque(p) == upper[p] = "opaque" /\ phase # "deleted"

\* (mutant: a directory that exists is cleared, opaque or not)
AfterStatClears(p) ==
  CASE upper[p] = "whiteout" -> IF irods[p] = "none" THEN "done" ELSE "remove"
    [] upper[p] = "file" -> IF irods[p] = "dir" THEN "remove" ELSE "upload"
    [] OTHER -> IF irods[p] = "none" THEN "make"
                ELSE IF irods[p] = "dir" THEN "clear" ELSE "remove"
AfterStat(p) ==
  CASE upper[p] = "whiteout" -> IF irods[p] = "none" THEN "done" ELSE "remove"
    [] upper[p] = "file"     -> IF irods[p] = "dir" THEN "remove" ELSE "upload"
    [] upper[p] \in {"dir", "opaque"} ->
         CASE irods[p] = "none" -> "make"
           [] irods[p] = "dir"  -> IF Opaque(p) THEN "clear" ELSE "done"
           [] irods[p] \in {"old", "new", "torn"} -> "remove"

Stat(p) ==
  /\ At(p, "stat")
  /\ Goto(p, AfterStat(p))
  /\ Unblamed /\ UNCHANGED irods

\* a file, or a directory with all that is in it
\* (mutant: the directory alone)
WithoutAlone(p) == [irods EXCEPT ![p] = "none"]
Without(p) == [q \in Paths |-> IF q = p \/ q \in Below(p) THEN "none" ELSE irods[q]]

AfterRemove(p) ==
  CASE upper[p] = "whiteout" -> "done"
    [] upper[p] = "file" -> "upload"
    [] upper[p] \in {"dir", "opaque"} -> "make"

Remove(p) ==
  /\ At(p, "remove")
  /\ irods' = Without(p)
  /\ Goto(p, AfterRemove(p))
  /\ Unblamed

\* clearDirEntries removes the entries of the directory one after the other
Clear(p) ==
  /\ At(p, "clear") /\ \A q \in Below(p) : irods[q] = "none"
  /\ Goto(p, "done")
  /\ Unblamed /\ UNCHANGED irods

\* a removal is under way
RemovePart(p) ==
  /\ pc[p] \in {"remove", "clear"}
  /\ \E q \in Below(p) : irods[q] # "none" /\ irods' = Without(q)
  /\ Unblamed /\ UNCHANGED pc

\* MakeDir makes the directories above as well, unless a file is in the way
Make(p) ==
  /\ At(p, "make")
  /\ irods' = IF \A q \in Above[p] : irods[q] \in {"none", "dir"}
                THEN [q \in Paths |-> IF q = p \/ q \in Above[p] THEN "dir" ELSE irods[q]]
                ELSE irods
  /\ Goto(p, "done")
  /\ Unblamed

Uploads(p) ==
  At(p, "upload") /\ phase # "deleted" /\ \A q \in Above[p] : irods[q] = "dir"

UploadPart(p) ==
  /\ Uploads(p) /\ irods[p] # "torn"
  /\ irods' = [irods EXCEPT ![p] = "torn"]
  /\ Unblamed /\ UNCHANGED pc

\* without its directory or its source an upload fails
Upload(p) ==
  /\ At(p, "upload")
  /\ irods' = IF Uploads(p) THEN [irods EXCEPT ![p] = "new"] ELSE irods
  /\ Goto(p, "done")
  /\ Unblamed

\* a request fails, as all do when the client is released: the task gives up
Fail(p) ==
  /\ p \in Running
  /\ \/ phase # "syncing" /\ UNCHANGED nfaults
     \/ phase = "syncing" /\ nfaults < MaxFaults /\ nfaults' = nfaults + 1
  /\ faulted' = faulted \cup {p}
  /\ Goto(p, "done")
  /\ UNCHANGED <<trees, irods, phase>>

Task(p) ==
  Stat(p) \/ Remove(p) \/ Clear(p) \/ RemovePart(p) \/ Make(p)
  \/ UploadPart(p) \/ Upload(p)
----------------------------------------------------------------------------
Next ==
  \/ Begin \/ Return \/ WalkFails \/ DeleteUpper \/ Restart
  \/ \E p \in Paths : Task(p) \/ Fail(p)

Spec == Init /\ [][Next]_vars

\* the walk and the tasks run in goroutines, and every request has an answer
Fairness ==
  /\ WF_vars(Begin) /\ WF_vars(Return)
  /\ \A p \in Paths : WF_vars(Task(p))
FairSpec == Spec /\ Fairness
----------------------------------------------------------------------------
(* Properties. *)

\* The type of every variable; the collection stays a tree.
TypeOK ==
  /\ upper \in [Paths -> UpperKinds]
  /\ lower \in [Paths -> {"none", "old", "dir"}]
  /\ irods \in [Paths -> IrodsKinds] /\ IsTree(irods, {"dir"})
  /\ pc \in [Paths -> {"wait", "stat", "remove", "make", "clear", "upload", "done"}]
  /\ phase \in {"syncing", "returned", "error", "deleted"}
  /\ faulted \subseteq Paths
  /\ nfaults \in 0 .. MaxFaults

\* What an overlay of the upper layer over a collection shows at a path.
Hidden(p) == \E q \in Above[p] : upper[q] \in {"file", "opaque", "whiteout"}
Shown(collection, p) ==
  CASE upper[p] = "file" -> "new"
    [] upper[p] \in {"dir", "opaque"} -> "dir"
    [] upper[p] \in {"whiteout", "marker"} -> "none"
    [] upper[p] = "none" -> IF Hidden(p) THEN "none" ELSE collection[p]

\* When Sync returns, a path shows in iRODS what the pods saw in their volume,
\* unless a request failed for it or for a directory above: tasks that run at
\* the same time, barriers and an earlier sync that was cut short do no harm.
DoneIsMerged ==
  phase = "returned" =>
    \A p \in Paths :
      p \in faulted \/ Above[p] \cap faulted # {} \/ irods[p] = Shown(lower, p)

\* At every moment, whatever failed or was cut short, the upper layer over the
\* collection shows what it showed before the sync: mounted again, the volume is
\* what the pods left.  Above all, nothing the upper layer does not hide is lost.
ViewIsStable == \A p \in Paths : Shown(irods, p) = Shown(lower, p)

\* Unless the driver restarts again and again, Sync returns.
SyncEnds == <>[][~Restart]_vars => (phase = "syncing" ~> phase # "syncing")
=============================================================================
