---------------------------- MODULE NodeService ----------------------------
(***************************************************************************)
(* The CSI node service of one node: the four RPC handlers of              *)
(* pkg/driver/node.go, the file system clients they call (pkg/client), the *)
(* node volume records (pkg/volumeinfo) and the goroutine that copies an   *)
(* overlay's upper layer to iRODS after the volume is released.            *)
(*                                                                         *)
(* A handler is a sequence of steps: it stops at every point where another *)
(* handler may run, that is between two accesses to the record manager     *)
(* (each one holds its mutex) and between two mount or umount commands.    *)
(* The container orchestrator (kubelet) issues the calls; its rules are    *)
(* in the actions Issue*.  What the environment may do wrong is named by   *)
(* the constant Hazards, and MaxFaults bounds how often.                   *)
(***************************************************************************)
EXTENDS Integers, Sequences, FiniteSets

CONSTANTS
  Volumes,      \* the volumes this node may be asked for
  Pods,         \* the pods that use them: one publish target per volume and pod
  Calls,        \* slots for the RPCs in flight
  Dynamic,      \* the volumes provisioned dynamically: staged, then bind mounted
  Client,       \* what mounts each volume
  Hazards,      \* what may go wrong
  MaxFaults,    \* bound: how many times something goes wrong
  MaxSync,      \* bound: pending upper-layer syncs of a volume with which it is
                \* mounted again; 1 means every sync ends before the next mount
  MaxStack      \* bound: mounts on one path with which its volume is mounted again

\* "irodsfs" is the irodsfuse client; "overlay" and "fuseoverlay" are the same
\* client with overlayfs set, through the kernel's driver or fuse-overlayfs.
Clients == {"irodsfs", "overlay", "fuseoverlay", "webdav", "nfs"}

AllHazards == {"mount",    \* a mount command fails, or making a directory for it
               "umount",   \* an umount command fails
               "save",     \* the record file cannot be written
               "sync",     \* copying the upper layer to iRODS fails
               "crash",    \* the driver's container restarts
               "tear",     \* a restart in the middle of a save truncates the file
               "fresh",    \* a restart loses the directories of the clients
               "timeout",  \* kubelet stops waiting for an answer
               "repeat"}   \* kubelet restarts and mounts once more

ASSUME VolumesAssumption == Volumes # {}
ASSUME ClientAssumption == Client \in [Volumes -> Clients]
\* controller.go provisions volumes for the irodsfuse client only
ASSUME DynamicAssumption ==
  /\ Dynamic \subseteq Volumes
  /\ \A v \in Dynamic : Client[v] \notin {"webdav", "nfs"}
ASSUME PodsAssumption == "staging" \notin Pods /\ "lower" \notin Pods
ASSUME BoundsAssumption ==
  /\ Hazards \subseteq AllHazards
  /\ MaxFaults \in Nat
  /\ MaxSync \in Nat
  /\ MaxStack \in Nat

VARIABLES
  calls,      \* the RPCs in flight: request, program counter, record held
  view,       \* what kubelet knows of each target: "no", "maybe" or "yes" (mounted)
  mnt,        \* the mounts stacked on each path, the oldest first
  mem,        \* NodeVolumeManager.volumes
  disk,       \* node_volumes.json
  root,       \* the volumes whose data root directory exists
  upper,      \* the overlay upper layer of each volume
  irods,      \* the collection each volume mounts
  toSync,     \* sync goroutines of each volume that have not walked upper yet
  toDelete,   \* sync goroutines that have, and will delete upper
  gauge,      \* irods_csi_driver_volume_mount
  nfaults     \* what went wrong so far

vars == <<calls, view, mnt, mem, disk, root, upper, irods, toSync, toDelete,
          gauge, nfaults>>
records == <<mem, disk>>
layers  == <<upper, irods, toSync, toDelete>>
----------------------------------------------------------------------------
Paths   == Volumes \X (Pods \cup {"staging", "lower"})
Targets == Volumes \X (Pods \cup {"staging"})
HasOverlay(v) == Client[v] \in {"overlay", "fuseoverlay"}

\* A mount gives the volume ("live"), nothing because its FUSE process died with
\* the container ("dead"), an empty lower layer ("hollow"), or is a bind of a
\* directory of the node's own file system ("plain").
MountKinds == {"live", "dead", "hollow", "plain"}

Top(path) == IF mnt[path] = <<>> THEN "none" ELSE mnt[path][Len(mnt[path])]
Pushed(path, kind) == [mnt EXCEPT ![path] = Append(@, kind)]
Pop(stack) == IF stack = <<>> THEN <<>> ELSE SubSeq(stack, 1, Len(stack) - 1)
Popped(path) == [mnt EXCEPT ![path] = Pop(@)]

\* A NodeVolume: is there one, DynamicVolumeProvisioning, StageVolume, and
\* whether ClientType and ClientConfig are filled in.
Record == [known : BOOLEAN, dyn : BOOLEAN, stage : BOOLEAN, cfg : BOOLEAN]
Nil == [known |-> FALSE, dyn |-> FALSE, stage |-> FALSE, cfg |-> FALSE]

Operations == {"none", "stage", "publish", "unpublish", "unstage"}
PCs == {"idle", "check", "mount", "overlay", "bind", "pop", "fill", "put",
        "get", "drop", "unmount", "lower"}
Call == [op : Operations, vol : Volumes, place : Pods \cup {"staging"},
         pc : PCs, rec : Record, waited : BOOLEAN]
Idle == [op |-> "none", vol |-> CHOOSE v \in Volumes : TRUE, place |-> "staging",
         pc |-> "idle", rec |-> Nil, waited |-> FALSE]

Target(c) == <<calls[c].vol, calls[c].place>>
Lower(v) == <<v, "lower">>
Staging(v) == <<v, "staging">>

Init ==
  /\ calls = [c \in Calls |-> Idle]
  /\ view = [t \in Targets |-> "no"]
  /\ mnt = [p \in Paths |-> <<>>]
  /\ mem = [v \in Volumes |-> Nil]
  /\ disk = [v \in Volumes |-> Nil]
  /\ root = {}
  /\ upper = [v \in Volumes |-> "none"]
  /\ irods = [v \in Volumes |-> "intact"]
  /\ toSync = [v \in Volumes |-> 0]
  /\ toDelete = [v \in Volumes |-> 0]
  /\ gauge = 0
  /\ nfaults = 0
----------------------------------------------------------------------------
(* What may go wrong, and how a handler goes on or answers. *)

Ok == nfaults' = nfaults
Fault(h) == h \in Hazards /\ nfaults < MaxFaults /\ nfaults' = nfaults + 1

At(c, pc) == calls[c].pc = pc
Goto(c, pc) == calls' = [calls EXCEPT ![c].pc = pc] /\ UNCHANGED view

\* kubelet learns the answer of a call it still waits for; after an error it
\* cannot tell what was done
AfterAnswer(c, ok) ==
  CASE ~calls[c].waited -> view
    [] calls[c].waited /\ ~ok -> [view EXCEPT ![Target(c)] = "maybe"]
    [] calls[c].waited /\ ok ->
         [view EXCEPT ![Target(c)] =
            IF calls[c].op \in {"stage", "publish"} THEN "yes" ELSE "no"]
Answer(c, ok) == calls' = [calls EXCEPT ![c] = Idle] /\ view' = AfterAnswer(c, ok)

\* mutants: the error of a mount or an umount command is not looked at
MountErrorIgnored(c)  == Fault("mount") /\ Answer(c, TRUE)
UmountErrorIgnored(c) == Fault("umount") /\ Answer(c, TRUE)
MountError(c)  == Fault("mount") /\ Answer(c, FALSE)
UmountError(c) == Fault("umount") /\ Answer(c, FALSE)

\* NodeVolumeManager.save, under the manager's mutex: os.WriteFile truncates
\* the file first, and a failed save is not undone in memory
NoVolume == [v \in Volumes |-> Nil]
Saved(m)    == Ok /\ mem' = m /\ disk' = m
NotSaved(m) == Fault("save") /\ mem' = m /\ disk' \in {disk, NoVolume}
----------------------------------------------------------------------------
(* The calls kubelet makes.  Operations on one volume exclude each other,  *)
(* but for the unpublishing of different pods.                             *)

Awaited(v) == {c \in Calls : calls[c].waited /\ calls[c].vol = v}
Undisturbed(v) == Awaited(v) = {}
MayMount(v) ==
  /\ toSync[v] + toDelete[v] < MaxSync
  /\ \A path \in Paths : path[1] = v => Len(mnt[path]) < MaxStack

Issue(c, op, v, place, pc) ==
  /\ At(c, "idle")
  /\ calls' = [calls EXCEPT ![c] =
       [op |-> op, vol |-> v, place |-> place, pc |-> pc, rec |-> Nil, waited |-> TRUE]]
  /\ view' = [view EXCEPT ![<<v, place>>] = "maybe"]
  /\ UNCHANGED <<mnt, records, root, layers, gauge, nfaults>>

IssueStage(c, v) ==
  /\ Undisturbed(v) /\ MayMount(v)
  /\ view[Staging(v)] # "yes" \/ "repeat" \in Hazards
  /\ Issue(c, "stage", v, "staging", IF v \in Dynamic THEN "check" ELSE "put")

IssuePublish(c, v, p) ==
  /\ Undisturbed(v) /\ MayMount(v)
  /\ view[Staging(v)] = "yes"
  /\ view[<<v, p>>] # "yes" \/ "repeat" \in Hazards
  /\ Issue(c, "publish", v, p, "check")

IssueUnpublish(c, v, p) ==
  /\ \A d \in Awaited(v) : calls[d].op = "unpublish" /\ calls[d].place # p
  /\ view[<<v, p>>] # "no"
  /\ Issue(c, "unpublish", v, p, "get")

IssueUnstage(c, v) ==
  /\ Undisturbed(v)
  /\ view[Staging(v)] # "no"
  /\ \A p \in Pods : view[<<v, p>>] = "no"
  /\ Issue(c, "unstage", v, "staging", "get")

\* the handlers do not look at their context: the call goes on, unheard
Timeout(c) ==
  /\ ~At(c, "idle") /\ calls[c].waited
  /\ Fault("timeout")
  /\ calls' = [calls EXCEPT ![c].waited = FALSE]
  /\ UNCHANGED <<view, mnt, records, root, layers, gauge>>
----------------------------------------------------------------------------
(* NodeStageVolume and NodePublishVolume. *)

\* PathExists fails on a dead mount; IsLikelyNotMountPoint compares devices,
\* so it does not see the bind of a plain directory
CheckTarget(c) ==
  /\ At(c, "check")
  /\ IF Top(Target(c)) \in {"none", "plain"}
       THEN Goto(c, IF calls[c].op = "publish" /\ calls[c].vol \in Dynamic
                      THEN "bind" ELSE "mount")
       ELSE Answer(c, FALSE)
  /\ UNCHANGED <<mnt, records, root, layers, gauge, nfaults>>

\* the data root directory, which the NFS client does not have
WithDataRoot(v) == IF Client[v] = "nfs" THEN root ELSE root \cup {v}
WithoutDataRoot(v) == IF Client[v] = "nfs" THEN root ELSE root \ {v}

AfterMount(c) == IF calls[c].op = "stage" THEN "put" ELSE "pop"

\* MountClient without overlayfs.  A failure may come before or after the data
\* root is made; the irodsfuse client then detaches whatever is on the target.
MountTarget(c) ==
  LET v == calls[c].vol
      made == WithDataRoot(v)
  IN
  /\ At(c, "mount") /\ ~HasOverlay(v)
  /\ \/ /\ Ok
        /\ mnt' = Pushed(Target(c), "live")
        /\ root' = made
        /\ gauge' = gauge + 1
        /\ Goto(c, AfterMount(c))
     \/ /\ MountError(c)
        /\ \/ mnt' = mnt /\ root' \in {root, made}
           \/ mnt' = Popped(Target(c)) /\ root' = made /\ Client[v] = "irodsfs"
        /\ UNCHANGED gauge
  /\ UNCHANGED <<records, layers>>

\* MountClient with overlayfs, first half: irodsfs on the lower directory, which
\* is stat'ed first, and detached when the mount fails
MountLower(c) ==
  LET v == calls[c].vol IN
  /\ At(c, "mount") /\ HasOverlay(v)
  /\ \/ /\ Ok /\ Top(Lower(v)) # "dead"
        /\ mnt' = Pushed(Lower(v), "live")
        /\ root' = WithDataRoot(v)
        /\ Goto(c, "overlay")
     \/ /\ Ok /\ Top(Lower(v)) = "dead"
        /\ root' = WithDataRoot(v)
        /\ UNCHANGED mnt
        /\ Answer(c, FALSE)
     \/ /\ MountError(c)
        /\ \/ mnt' = mnt /\ root' \in {root, WithDataRoot(v)}
           \/ /\ Top(Lower(v)) # "dead"
              /\ mnt' = Popped(Lower(v)) /\ root' = WithDataRoot(v)
  /\ UNCHANGED <<records, layers, gauge>>

\* second half: the upper and the work directory, then the overlay; the target is
\* unmounted if that mount fails, and the lower mount stays in any case
MountOverlay(c) ==
  LET v == calls[c].vol
      made == [upper EXCEPT ![v] = IF @ = "none" THEN "clean" ELSE @]
  IN
  /\ At(c, "overlay")
  /\ \/ /\ Ok
        /\ mnt' = Pushed(Target(c), IF Top(Lower(v)) = "live" THEN "live" ELSE "hollow")
        /\ upper' = made
        /\ gauge' = gauge + 1
        /\ Goto(c, AfterMount(c))
     \/ /\ MountError(c)
        /\ \/ mnt' = mnt /\ upper' \in {upper, made}
           \/ mnt' = Popped(Target(c)) /\ upper' = made
        /\ UNCHANGED gauge
  /\ UNCHANGED <<records, root, irods, toSync, toDelete>>

\* MountBind runs mount twice, bind and then remount; when the second fails the
\* first stays.  A bind of a dead mount may fail by itself.
BindTarget(c) ==
  LET source == Top(Staging(calls[c].vol))
      bound == Pushed(Target(c), IF source = "none" THEN "plain" ELSE source)
  IN
  /\ At(c, "bind")
  /\ \/ Ok /\ mnt' = bound /\ Goto(c, "pop")
     \/ Ok /\ source = "dead" /\ mnt' = mnt /\ Answer(c, FALSE)
     \/ MountError(c) /\ mnt' \in {mnt, bound}
  /\ UNCHANGED <<records, root, layers, gauge>>

\* NodePublishVolume takes the record out of the manager, fills in that of a static
\* volume, and puts it back
PopRecord(c) ==
  LET v == calls[c].vol
      without == [mem EXCEPT ![v] = Nil]
      pc == IF mem[v].known /\ v \notin Dynamic THEN "fill" ELSE "put"
      held == [calls EXCEPT ![c].pc = pc, ![c].rec = mem[v]]
  IN
  /\ At(c, "pop")
  /\ \/ mem[v].known /\ Saved(without) /\ calls' = held /\ UNCHANGED view
     \/ mem[v].known /\ NotSaved(without) /\ Answer(c, FALSE)
     \/ /\ ~mem[v].known /\ Ok /\ UNCHANGED records
        /\ IF v \in Dynamic THEN Answer(c, FALSE) ELSE calls' = held /\ UNCHANGED view
  /\ UNCHANGED <<mnt, root, layers, gauge>>

\* Get and Pop hand out a pointer: a publish that fills in the record of a
\* static volume fills it in for every call that holds the same record
Sharing(c) == {d \in Calls : calls[d].vol = calls[c].vol /\ calls[d].rec = calls[c].rec}

FillRecord(c) ==
  /\ At(c, "fill")
  /\ calls' = [d \in Calls |->
       [calls[d] EXCEPT !.rec.cfg = @ \/ d \in Sharing(c),
                        !.pc = IF d = c THEN "put" ELSE @]]
  /\ UNCHANGED <<view, mnt, records, root, layers, gauge, nfaults>>

\* what is put back, or new: by NodeStageVolume, and if there was no record
\* mutant: a publish puts a new record, without configuration, for the one it took
NewRecordUnfilled(c) ==
  [known |-> TRUE, dyn |-> calls[c].vol \in Dynamic, stage |-> calls[c].op = "stage",
   cfg |-> calls[c].op = "stage" /\ calls[c].vol \in Dynamic]
NewRecord(c) ==
  LET v == calls[c].vol IN
  CASE calls[c].op = "stage" /\ v \in Dynamic ->
         [known |-> TRUE, dyn |-> TRUE, stage |-> TRUE, cfg |-> TRUE]
    [] calls[c].op = "stage" /\ v \notin Dynamic ->
         [known |-> TRUE, dyn |-> FALSE, stage |-> TRUE, cfg |-> FALSE]
    [] calls[c].op # "stage" /\ (v \in Dynamic \/ calls[c].rec.known) -> calls[c].rec
    [] calls[c].op # "stage" /\ v \notin Dynamic /\ ~calls[c].rec.known ->
         [known |-> TRUE, dyn |-> FALSE, stage |-> FALSE, cfg |-> TRUE]

\* MountClient has counted a static volume already
\* (mutant: every publish counts)
CountedTwice(c) == IF calls[c].op = "publish" THEN gauge + 1 ELSE gauge
CountedAtPut(c) ==
  IF calls[c].op = "publish" /\ calls[c].vol \in Dynamic THEN gauge + 1 ELSE gauge

PutRecord(c) ==
  LET v == calls[c].vol
      with == [mem EXCEPT ![v] = NewRecord(c)]
  IN
  /\ At(c, "put")
  /\ \/ Saved(with) /\ Answer(c, TRUE) /\ gauge' = CountedAtPut(c)
     \/ NotSaved(with) /\ Answer(c, FALSE) /\ UNCHANGED gauge
  /\ UNCHANGED <<mnt, root, layers>>
----------------------------------------------------------------------------
(* NodeUnpublishVolume and NodeUnstageVolume. *)

\* NodeUnpublishVolume drops the record only of a volume that was never staged
\* (mutant: every release drops it)
DropsAlways(c, rec) == rec.known
Drops(c, rec) == rec.known /\ (calls[c].op = "unstage" \/ ~rec.stage)

GetRecord(c) ==
  LET rec == mem[calls[c].vol] IN
  /\ At(c, "get")
  /\ calls' = [calls EXCEPT ![c].rec = rec, ![c].pc = IF Drops(c, rec) THEN "drop" ELSE "unmount"]
  /\ UNCHANGED <<view, mnt, records, root, layers, gauge, nfaults>>

\* there is nothing to unmount when a static volume is unstaged
AfterDrop(c) == IF calls[c].op = "unstage" /\ ~calls[c].rec.dyn
                  THEN Answer(c, TRUE) ELSE Goto(c, "unmount")

DropRecord(c) ==
  LET v == calls[c].vol
      without == [mem EXCEPT ![v] = Nil]
  IN
  /\ At(c, "drop")
  /\ \/ mem[v].known /\ Saved(without) /\ AfterDrop(c)
     \/ mem[v].known /\ NotSaved(without) /\ Answer(c, FALSE)
     \/ ~mem[v].known /\ Ok /\ UNCHANGED records /\ AfterDrop(c)
  /\ UNCHANGED <<mnt, root, layers, gauge>>

\* what is left to do once the target is unmounted: NodeUnpublishVolume removes
\* the directory, which fails while something is still mounted there
Removable(c, stack) == calls[c].op = "unstage" \/ stack = <<>>

UnmountNothing(c) ==
  /\ At(c, "unmount")
  /\ mnt[Target(c)] = <<>>
  /\ Answer(c, TRUE)
  /\ UNCHANGED <<mnt, records, root, layers, gauge, nfaults>>

\* a plain umount: the record is lost, or the target is a bind mount
PlainUnmount(c) == ~calls[c].rec.known \/ (calls[c].op = "unpublish" /\ calls[c].rec.dyn)

\* mutant: releasing a bind mount removes the data root
DataRootsAfterPlainRemoved(c) == root \ {calls[c].vol}
DataRootsAfterPlain(c) == root

UnmountPlain(c) ==
  /\ At(c, "unmount") /\ PlainUnmount(c)
  /\ mnt[Target(c)] # <<>>
  /\ \/ /\ Ok /\ mnt' = Popped(Target(c)) /\ gauge' = gauge - 1
        /\ Answer(c, Removable(c, mnt'[Target(c)]))
     \/ UmountError(c) /\ UNCHANGED <<mnt, gauge>>
  /\ root' = DataRootsAfterPlain(c)
  /\ UNCHANGED <<records, layers>>

\* UnmountClient with an empty configuration: the client type defaults to
\* irodsfuse, whose connection information does not validate
\* (mutant: it is taken for a volume that is not mounted)
UnconfiguredSkipped(c) ==
  /\ At(c, "unmount") /\ ~PlainUnmount(c) /\ ~calls[c].rec.cfg
  /\ Answer(c, TRUE)
  /\ UNCHANGED <<mnt, records, root, layers, gauge, nfaults>>
UnmountUnconfigured(c) ==
  /\ At(c, "unmount") /\ ~PlainUnmount(c) /\ ~calls[c].rec.cfg
  /\ mnt[Target(c)] # <<>>
  /\ Answer(c, FALSE)
  /\ UNCHANGED <<mnt, records, root, layers, gauge, nfaults>>

\* UnmountClient; with overlayfs the target is its first half
UnmountTarget(c) ==
  LET v == calls[c].vol IN
  /\ At(c, "unmount") /\ ~PlainUnmount(c) /\ calls[c].rec.cfg
  /\ mnt[Target(c)] # <<>>
  /\ \/ /\ Ok /\ mnt' = Popped(Target(c))
        /\ IF HasOverlay(v)
             THEN Goto(c, "lower") /\ UNCHANGED <<root, gauge>>
             ELSE /\ root' = WithoutDataRoot(v)
                  /\ gauge' = gauge - 1
                  /\ Answer(c, Removable(c, mnt'[Target(c)]))
     \/ UmountError(c) /\ UNCHANGED <<mnt, root, gauge>>
  /\ UNCHANGED <<records, layers>>

\* the second half: irodsfs is detached from the lower directory, the data root
\* and the lower directory are removed with all they hold, and a goroutine is
\* started to sync the upper layer.  RemoveAll goes through a mount that is
\* still on the lower directory.
\*
\* mutant: the lower directory is removed before it is unmounted
RemoveAllFirst(v, left) == [irods EXCEPT ![v] = IF Top(Lower(v)) = "live" THEN "wiped" ELSE @]
AfterRemoveAll(v, left) ==
  [irods EXCEPT ![v] = IF left # <<>> /\ left[Len(left)] = "live" THEN "wiped" ELSE @]

\* mutants: no goroutine is started; it deletes the upper layer before the sync
StartNothing(v) == UNCHANGED <<toSync, toDelete>>
StartDeleting(v) == toDelete' = [toDelete EXCEPT ![v] = @ + 1] /\ UNCHANGED toSync
StartSync(v) == toSync' = [toSync EXCEPT ![v] = @ + 1] /\ UNCHANGED toDelete

UnmountLower(c) ==
  LET v == calls[c].vol
      left == Pop(mnt[Lower(v)])
  IN
  /\ At(c, "lower")
  /\ \/ /\ Ok /\ mnt[Lower(v)] # <<>>
        /\ mnt' = [mnt EXCEPT ![Lower(v)] = left]
        /\ root' = WithoutDataRoot(v)
        /\ irods' = AfterRemoveAll(v, left)
        /\ StartSync(v)
        /\ gauge' = gauge - 1
        /\ Answer(c, Removable(c, mnt[Target(c)]))
     \/ /\ \/ Ok /\ mnt[Lower(v)] = <<>> /\ Answer(c, FALSE)
           \/ UmountError(c)
        /\ UNCHANGED <<mnt, root, irods, toSync, toDelete, gauge>>
  /\ UNCHANGED <<records, upper>>
----------------------------------------------------------------------------
(* The sync goroutine, the pods, and the driver's restart. *)

\* syncOverlayFS; its error is logged and ignored
SyncUpper(v) ==
  /\ toSync[v] > 0
  /\ \/ Ok /\ upper' = [upper EXCEPT ![v] = IF @ = "dirty" THEN "clean" ELSE @]
     \/ Fault("sync") /\ UNCHANGED upper
  /\ toSync' = [toSync EXCEPT ![v] = @ - 1]
  /\ toDelete' = [toDelete EXCEPT ![v] = @ + 1]
  /\ UNCHANGED <<calls, view, mnt, records, root, irods, gauge>>

\* mutant: the upper layer is deleted by whoever finds it
DeleteUpperAnyTime(v) ==
  /\ upper[v] # "none"
  /\ upper' = [upper EXCEPT ![v] = "none"]
  /\ toDelete' = [toDelete EXCEPT ![v] = @ - 1]
  /\ UNCHANGED <<calls, view, mnt, records, root, irods, toSync, gauge, nfaults>>
DeleteUpper(v) ==
  /\ toDelete[v] > 0
  /\ upper' = [upper EXCEPT ![v] = "none"]
  /\ toDelete' = [toDelete EXCEPT ![v] = @ - 1]
  /\ UNCHANGED <<calls, view, mnt, records, root, irods, toSync, gauge, nfaults>>

\* a running pod writes a file of an overlay volume: it goes to the upper layer
PodWrite(v) ==
  /\ HasOverlay(v) /\ upper[v] = "clean"
  /\ \E p \in Pods : view[<<v, p>>] = "yes" /\ Top(<<v, p>>) \in {"live", "hollow"}
  /\ upper' = [upper EXCEPT ![v] = "dirty"]
  /\ UNCHANGED <<calls, view, mnt, records, root, irods, toSync, toDelete, gauge, nfaults>>

\* The container restarts: handlers and goroutines are gone, so is every process
\* that serves a FUSE mount, and the records are loaded again.
ServedByProcess(path) ==
  CASE Client[path[1]] \in {"irodsfs", "webdav", "fuseoverlay"} -> TRUE
    [] Client[path[1]] = "overlay" -> path[2] = "lower"
    [] Client[path[1]] = "nfs" -> FALSE
Killed(path) ==
  [i \in DOMAIN mnt[path] |->
     IF ServedByProcess(path) /\ mnt[path][i] # "plain" THEN "dead" ELSE mnt[path][i]]
Saving == \E c \in Calls :
  calls[c].pc \in {"put", "pop", "drop"} /\ (calls[c].pc = "put" \/ mem[calls[c].vol].known)

\* GetConfigDataRootPath and its siblings look up "storage_path", a key that
\* MergeConfig does not write: what they return is relative to the working
\* directory, on a file system that goes with the container, as do its mounts.
LocalDirectoriesLost ==
  /\ mnt' = [p \in Paths |-> IF p[2] = "lower" THEN <<>> ELSE Killed(p)]
  /\ root' = {}
  /\ upper' = [v \in Volumes |-> "none"]

Crash ==
  /\ Fault("crash")
  /\ calls' = [c \in Calls |-> Idle]
  /\ \/ mnt' = [p \in Paths |-> Killed(p)] /\ UNCHANGED <<root, upper>>
     \/ "fresh" \in Hazards /\ LocalDirectoriesLost
  /\ disk' \in {disk} \cup (IF "tear" \in Hazards /\ Saving THEN {NoVolume} ELSE {})
  /\ mem' = disk'
  /\ toSync' = [v \in Volumes |-> 0]
  /\ toDelete' = [v \in Volumes |-> 0]
  /\ gauge' = 0
  /\ UNCHANGED <<view, irods>>
----------------------------------------------------------------------------
Kubelet ==
  \E c \in Calls, v \in Volumes :
    \/ IssueStage(c, v)
    \/ IssueUnstage(c, v)
    \/ \E p \in Pods : IssuePublish(c, v, p) \/ IssueUnpublish(c, v, p)

Handler(c) ==
  \/ CheckTarget(c) \/ MountTarget(c) \/ MountLower(c) \/ MountOverlay(c)
  \/ BindTarget(c) \/ PopRecord(c) \/ FillRecord(c) \/ PutRecord(c)
  \/ GetRecord(c) \/ DropRecord(c)
  \/ UnmountNothing(c) \/ UnmountPlain(c) \/ UnmountUnconfigured(c)
  \/ UnmountTarget(c) \/ UnmountLower(c)

Syncher(v) == SyncUpper(v) \/ DeleteUpper(v)

Next ==
  \/ Kubelet
  \/ \E c \in Calls : Handler(c) \/ Timeout(c)
  \/ \E v \in Volumes : Syncher(v) \/ PodWrite(v)
  \/ Crash

Spec == Init /\ [][Next]_vars

\* handlers and sync goroutines are goroutines the Go scheduler runs; kubelet,
\* the pods and the faults are not made to act
FairSpec ==
  /\ Spec
  /\ \A c \in Calls : WF_vars(Handler(c))
  /\ \A v \in Volumes : WF_vars(Syncher(v))
----------------------------------------------------------------------------
(* Properties.  Most of them hold only while some hazards are excluded;    *)
(* the configuration of a run says which.                                  *)

\* The type of every variable; counters of goroutines are never negative.
TypeOK ==
  /\ calls \in [Calls -> Call]
  /\ view \in [Targets -> {"no", "maybe", "yes"}]
  /\ mnt \in [Paths -> Seq(MountKinds)]
  /\ mem \in [Volumes -> Record]
  /\ disk \in [Volumes -> Record]
  /\ root \subseteq Volumes
  /\ upper \in [Volumes -> {"none", "clean", "dirty"}]
  /\ irods \in [Volumes -> {"intact", "wiped"}]
  /\ toSync \in [Volumes -> Nat]
  /\ toDelete \in [Volumes -> Nat]
  /\ gauge \in Int
  /\ nfaults \in 0 .. MaxFaults

\* A stage or publish that was answered with success left the volume mounted on
\* its target, and nothing but the matching release takes it away: the target
\* shows the volume (or its dead mount after a restart), not a local directory.
AckedIsMounted ==
  \A t \in Targets :
    view[t] = "yes" /\ (t[2] # "staging" \/ t[1] \in Dynamic) => Top(t) \in {"live", "dead"}

\* An unpublish or unstage that was answered with success left nothing mounted
\* on its target, whatever failed before it and however often it was retried.
ReleasedIsUnmounted == \A t \in Targets : view[t] = "no" => mnt[t] = <<>>

Released(v) == IF v \in Dynamic THEN view[Staging(v)] = "no"
               ELSE \A p \in Pods : view[<<v, p>>] = "no"

\* Once a volume is released its irodsfs is gone from the lower directory too.
LowerIsReleased == \A v \in Volumes : Released(v) => mnt[Lower(v)] = <<>>

\* The data root (caches, configuration) of a volume exists as long as a client
\* process that uses it is mounted anywhere on the node.
DataRootAlive ==
  \A path \in Paths : ServedByProcess(path) /\ Top(path) = "live" => path[1] \in root

\* What the manager holds is a whole record: the one of a dynamic volume comes
\* from its staging and has the configuration, and a record that was created by
\* a publish (and that an unpublish will drop) has one too.  It holds whatever
\* the environment does, in memory, on disk and in the hands of a call.
WholeRecord(v, rec) ==
  rec.known => /\ rec.dyn <=> v \in Dynamic
               /\ rec.dyn => rec.stage
               /\ rec.dyn \/ ~rec.stage => rec.cfg
RecordsAreWhole ==
  /\ \A v \in Volumes : WholeRecord(v, mem[v]) /\ WholeRecord(v, disk[v])
  /\ \A c \in Calls : WholeRecord(calls[c].vol, calls[c].rec)

\* Releasing a volume never removes what the collection in iRODS holds.
IrodsIntact == \A v \in Volumes : irods[v] = "intact"

\* No step of a handler or a goroutine deletes an upper layer that holds writes
\* iRODS has not received.
KeepsWrites == \A v \in Volumes : upper[v] = "dirty" => upper'[v] # "none"
NoWriteLost == [][Crash \/ KeepsWrites]_vars

\* Nor does a restart: the driver's storage path is there to outlive it.
RestartKeepsWrites == [][Crash => KeepsWrites]_vars

\* Between calls, the record of a volume some pod uses is there, in memory and
\* on disk, with the configuration the release of the volume will need.  This is
\* asked of dynamic volumes, whose record a second staging cannot replace.
Quiet(v) == \A c \in Calls : calls[c].vol = v => At(c, "idle")
Usable(v) ==
  \A p \in Pods :
    Quiet(v) /\ view[<<v, p>>] = "yes" => mem[v].known /\ mem[v].cfg /\ disk[v] = mem[v]
DynamicRecordUsable == \A v \in Dynamic : Usable(v)

\* With no call in flight the gauge is the number of targets mounted.
GaugeIsCurrent ==
  (\A c \in Calls : At(c, "idle")) => gauge = Cardinality({t \in Targets : mnt[t] # <<>>})

\* Seen from kubelet, a target changes only while it has a request outstanding.
MountTargets == {t \in Targets : t[2] # "staging" \/ t[1] \in Dynamic}
Lifecycle == INSTANCE TargetLifecycle WITH
  Targets <- MountTargets,
  view <- [t \in MountTargets |-> view[t]],
  mounted <- [t \in MountTargets |-> mnt[t] # <<>>]
ImplementsLifecycle == Lifecycle!Spec

\* After a volume is released its upper layer does not stay dirty: together with
\* NoWriteLost, what pods wrote reaches iRODS.
ReleasedIsSynced ==
  \A v \in Volumes : (Released(v) /\ upper[v] = "dirty") ~> (upper[v] # "dirty")
=============================================================================
