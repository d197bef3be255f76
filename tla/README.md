# A verification model of the iRODS CSI driver

This directory holds TLA+ models of the driver in `src/`, TLC configurations
that check them on small instances, and proofs checked by TLAPS. It covers the
driver's own logic: what its RPC handlers, volume records, overlay goroutines
and job manager do to the node and to the collection in iRODS, in every order
the code allows. Line numbers below are those of the sources.

## 1. The system

The binary is one gRPC server with three CSI services. On a node, kubelet calls
the node service to stage, publish, unpublish and unstage volumes; a controller
pod runs the controller service, which makes and deletes directories in iRODS.
The driver mounts through external programs (irodsfs, davfs, mount.nfs, the
kernel's overlay or fuse-overlayfs) that run inside its container.

| component | state it keeps | operations | talks to |
|---|---|---|---|
| node service, `pkg/driver/node.go` | none of its own | the four handlers, each called by kubelet at any time, several at once | clients, node records, mounter, metrics |
| clients, `pkg/client/...` | directories: data root, lower, upper, work; mounts | Mount, Unmount for irodsfuse (with and without overlayfs), webdav, nfs | mounter, overlay syncher (a goroutine) |
| node records, `pkg/volumeinfo/node_volume.go` | a map under a mutex, an encrypted JSON file | Get, Put, Pop, load, save | the file system |
| overlay syncher, `pkg/client/irods/overlay.go` | none; reads the upper layer, changes iRODS | Sync with syncDir, syncFile, syncWhiteout | job manager, iRODS |
| job manager, `pkg/client/irods/parallel.go` | a channel, a mutex, a condition variable, two wait groups, counters | Schedule, ScheduleBarrier, DoneScheduling, Wait, the goroutine of Start and one per job | the tasks |
| mounter, `pkg/mounter` | the kernel's mount table | mount, bind and remount, umount, lazy umount, tests of mount points | commands |
| metrics, `pkg/metrics` | counters and one gauge | increase, decrease | everyone |
| controller service, `pkg/driver/controller.go` | controller records, as the node's | CreateVolume, DeleteVolume, each called by the csi-provisioner at any time | iRODS (`operations.go`), configuration, controller records |
| configuration, `pkg/common`, `connection_info.go`, `whitelist.go` | none | merge of parameters, defaults, refusals | - |
| kernel version, mount helpers, identity service, deployment | none | pure functions, static answers, manifests | - |

What is hard here:

* Handlers lock only the record map, for single accesses. Everything between
  two accesses, and all mounting, interleaves with other handlers.
* Mounts stack. A second mount on a path hides the first, and one umount takes
  off only the last; tests of mount points follow what is on top.
* A publish takes its record out of the map and puts it back later.
* A release with overlayfs is finished by a goroutine nobody waits for.
* The records are rewritten in place, so a restart can leave a short file; a
  restart also kills the processes behind the FUSE mounts but not the mounts.
* kubelet repeats calls that failed, that it stopped waiting for, or that it has
  forgotten about.
* The job manager mixes a channel, a condition variable, wait groups and a
  counter that is written with and without its mutex.
* The syncher changes a collection request by request, in parallel, and may be
  cut short anywhere.
* The controller keeps a directory in iRODS and a record beside it, in two steps
  that may each fail; every try of a creation makes a new volume id, and the
  replicas of the deployment each have records of their own, or one file.
* A configuration comes from three sources of which the strongest wins, and the
  node merges it again with other secrets than the controller did.

`PROJECT.json` lists every such hazard at its line with the properties for it.

What makes the components correct:

* node service: an acknowledged target is mounted and stays so; a released one
  is not mounted; nothing is left below; releases never reach into iRODS;
* records: whole whenever somebody can see them, and there when a release needs
  them;
* overlay release: what pods wrote reaches iRODS and is not deleted before;
* syncher: the collection becomes the merged view and never loses what the
  upper layer does not hide;
* job manager: jobs start in order, barriers separate, the limit holds, Wait
  returns, and only when all is done;
* controller: a bound claim has its directory, which stays whole until the claim
  is deleted; nothing else is ever removed; directories are made where the driver
  allows, and the node mounts what was created.

## 2. Modules

| module | models | state and actions |
|---|---|---|
| `NodeService` | node service, clients, node records, mount commands, gauge, the release goroutine, restarts, kubelet | `calls` holds the RPCs in flight with a program counter; one action per stretch of a handler between two accesses to the record map or two mount commands (`CheckTarget`, `MountTarget`, `MountLower`, `MountOverlay`, `BindTarget`, `PopRecord`, `FillRecord`, `PutRecord`, `GetRecord`, `DropRecord`, `Unmount...`); `SyncUpper` and `DeleteUpper` are the goroutine of `mount.go:245`; `Issue...` and `Timeout` are kubelet; `Crash` is a restart of the container |
| `TargetLifecycle` | what kubelet may rely on for one target | a target is mounted or unmounted only while a request for it is outstanding; an answer tells the truth |
| `ParallelJobManager` | `parallel.go` | one action per access to shared state of the three kinds of goroutines; every update of `currentThreads` is two, a load and a store |
| `BarrierQueue` | what the syncher needs of the job manager | in-order start, thread limit, barriers, drop after failure; once it has lost count (`Miscount`) only the order and the drop |
| `OverlaySync` | `overlay.go` | `upper`, `lower`, `irods` give each path its kind; one action per request to iRODS (`Stat`, `Remove`, `Make`, `Upload`, `Clear`), with partial effects (`RemovePart`, `UploadPart`), and the walk (`Begin`, `Return`, `WalkFails`) |
| `Configuration` | `MergeConfig`, the client type, the controller's settings, the whitelist, user and path of a connection and its refusals | operators on maps; where Go iterates over a map they return every outcome |
| `ControllerService` | CreateVolume, DeleteVolume, controller records, `Mkdir` and `Rmdir`, replicas, the csi-provisioner | `calls` holds the RPCs in flight; one action per stretch between requests to iRODS and accesses to the records (`Configure`, `MakeDir`, `PutRecord`, `PopRecord`, `RemoveDir`); `Ask`, `Release` are users; `Request...`, `Timeout`, `Failover` the provisioner; `Crash` a restart of a replica |
| `VolumeLifecycle` | what users may rely on for a claim and its directory | a claim is bound to a whole directory; a directory is damaged only when its claim was deleted; roots never are |
| `MC...` | - | small instances for TLC |
| `...Proofs` | - | theorems and their proofs |

How they meet. `NodeService` has a whole sync as one step that succeeds, fails,
or never ends because of a restart; `OverlaySync` is what happens inside that
step. `ParallelJobManager` implements `BarrierQueue`, a queue that may lose count
of what runs: it does when a release overwrites a start. `OverlaySync` schedules
its tasks as a queue that has not lost count. `NodeService` implements
`TargetLifecycle`, and `ControllerService` `VolumeLifecycle`. These three
implementations are proved. `ControllerService` decides with `Configuration`, and
its property `StagedAsCreated` asks the same operators what a node will make of
the volume's context.

Correspondence, where it is not one to one:

* A mount is a kind on a stack: `live`; `dead`, when its FUSE process went with
  the container; `hollow`, an overlay whose lower layer is not a live mount;
  `plain`, a bind of a directory of the node because nothing was staged. This is
  all that later tests (`PathExists`, `IsLikelyNotMountPoint`, `GetDeviceName`)
  can tell apart.
* A record keeps the fields the handlers branch on: dynamic, staged, and
  whether client type and configuration are filled in. `Get` and `Pop` return
  pointers; calls that hold equal records of one volume share it (`Sharing`). A
  publish of a static volume fills in the record it shares between its `Pop` and
  its `Put` (`FillRecord`).
* The data root stands for cache and configuration directories. The NFS client
  has none. The overlay's work directory is not modelled; nothing reads it.
* Argument checks that answer before anything is touched are left out.
* `save` happens under the mutex of the map, so it is part of the step that
  changes the map; a failing one leaves the map changed, as the code does, and
  the file as it was or empty.
* A torn file loads as no records. A file shorter than the cipher's block makes
  `load` panic instead, so that the driver never comes up: in the model that
  is `Crash` followed by nothing, which every safety property already covers.
* In `ParallelJobManager` code between `Lock` and `Unlock` is one step, except
  that `currentThreads += n` and `-= n` are a load and a store, between which other
  goroutines run: the subtraction at `parallel.go:200` is not under the mutex.
  `lost` is a history variable: it tells whether a store has overwritten a
  start or a release, and only the properties read it (`CountKept`: no start).
  A start is overwritten only by a release, since the dispatcher alone starts jobs;
  it makes `currentThreads` too low. Overwritten releases make it too high. Each
  caller asks for one thread. The syncher's own tasks always return nil; errors
  of tasks are modelled because the manager handles them.
* A restart of the driver's container (`Crash`) either keeps the directories of
  the clients and the dead mounts below them, as the code means it, or loses them
  (hazard `"fresh"`). They are lost where the driver runs as it is deployed:
  `MergeConfig` writes the key `storagepath`, `client/common/common.go` reads
  `storage_path`, and so these directories are relative to the working directory
  of the container. Every run with restarts has both.
* In `ControllerService` a volume is a claim's name and the number of the try that
  made it, which is what the random part of its id distinguishes. A directory in
  iRODS is absent, whole, or a part of what it held, after a recursive removal
  that failed. `heard` says whether the provisioner still waits for a call. A late
  answer, a lost record and a removal that failed, because iRODS did or because the
  directory is not there, put the claim in `lost`, a
  history variable that only `DeletedIsRemoved` reads.
* `File` maps a replica to the file that holds its records: one for all where
  replicas share a node (`helm/templates/controller.yaml` mounts a host path), one
  for each where it is an emptyDir. A save writes the whole map of its replica.
* A configuration is a record from keys, as users spell them, to values. Of the
  spellings of a key that differ in case and underscores two or three are listed.
  What `Configure` can decide (`Decides`), and what `MadeInWhitelist` and
  `StagedAsCreated` ask of an installation, a class and a path, are finite relations
  that TLC computes once.
* In `OverlaySync` the driver's status log is not modelled. A volume with one
  path mapping is; virtual directories, which the syncher skips, are not.

## 3. Runs

Constants of `NodeService`: `Volumes` with their `Client`, `Pods`, `Calls` (RPCs
in flight), `Dynamic` (provisioned by the controller), `Hazards` (what may go
wrong), and the bounds `MaxFaults`, `MaxSync` (pending syncs of a volume with
which it is mounted again), `MaxStack` (mounts on one path with which it is
mounted again).

| run | shows |
|---|---|
| `NodeTargets` | `AckedIsMounted`, `ReleasedIsUnmounted`, `ImplementsLifecycle`, `TypeOK` for a dynamic overlay volume with two pods and two calls in flight, every hazard but timeouts, three faults |
| `NodeStatic` | `ReleasedIsUnmounted` for a static irodsfuse volume that two pods mount each for itself: it is staged again while in use, a publish makes its record, and the first release drops it; every hazard but timeouts |
| `NodeRecords` | `RecordsAreWhole` with every hazard, timeouts included, for an irodsfuse and a webdav volume |
| `NodeQuiet` | `GaugeIsCurrent`, `LowerIsReleased`, `DynamicRecordUsable`, `ReleasedIsSynced` when commands and syncs succeed and nothing restarts; requests are repeated; a dynamic overlay and a static NFS volume with two pods |
| `NodeCrash` | `DataRootAlive`, `IrodsIntact`, `NoWriteLost` with restarts, torn saves and repeated requests, for the volumes of `NodeQuiet` |
| `Jobs` | with racing updates of `currentThreads`, tasks that fail and a full channel: `WaitMeansAllDone`, whatever update is overwritten; `BarrierOrder`, `ThreadLimit` and `ImplementsQueue` until a start is; `WaitReturns` unless a release is; `TypeOK` |
| `OverlaySync` | `ViewIsStable`, `DoneIsMerged`, `SyncEnds`, `TypeOK` for each of the pairs of an upper layer and a collection on the tree a, a/x, a/x/u, a/y with no directory at a/y |
| `Provisioning` | `MadeInWhitelist`, `StagedAsCreated`, `DeletedIsRemoved`, `NothingElseDeleted`, `ImplementsLifecycle`, `ClaimsAreServed`, `TypeOK` of the controller: two claims, two roots, two replicas with one record file, two calls in flight, every hazard, two faults; two installations of the driver and four storage classes |
| `SharedOverlayWipes` | finding: a release wipes the collection through a sibling's mount |
| `RemountRacesSync` | finding: the goroutine of the last release deletes new writes |
| `WaitGroupPanic` | finding: a job that ends before it is counted panics the process |
| `RestartLosesWrites` | finding: the upper layer goes with the container, for the storage path is looked up under a key nobody writes |

### Which hazard breaks which property

The hazards a run leaves out are not there because nothing happens with them.
TLC finds each of these in the model, and each can be followed in the code:

| property | is violated with | because |
|---|---|---|
| `AckedIsMounted`, `ReleasedIsUnmounted` | timeout | two handlers work on one target, and the slower one undoes the answer of the other |
| `LowerIsReleased` | mount, umount | `mount.go:105`: the lower mount stays when the overlay fails; `node.go:440`: the retry skips it |
| `LowerIsReleased` | save, crash | the record is lost between the `Pop` and the `Put` of a publish, and the release without it is a plain umount of the target |
| `IrodsIntact` | mount, umount, save; two pods of a static overlay | `mount.go:237` removes a directory on which another mount still is: a second one stacked by a retry, or a sibling's |
| `DataRootAlive` | mount, umount, save; two pods of a static volume | the data root goes with the first of several stacked or sibling mounts that is released |
| `DynamicRecordUsable` | crash, save (two pods) | the record was lost between the `Pop` and the `Put` of the second publish |
| `Usable` of a static volume | repeat | `node.go:64` puts an empty record in the place of the one in use |
| `GaugeIsCurrent` | crash, mount, umount, save | the gauge starts from zero, or the call ends in between: a bind mount is counted when its record is saved, and an overlay leaves the count with its lower directory |
| `ReleasedIsSynced` | umount | an unstage fails between the overlay and the lower directory; its retry finds the target unmounted (`node.go:440`), answers OK, and no goroutine is ever started |
| `ReleasedIsSynced` | crash | the goroutine is gone and nothing remembers it |
| `NoWriteLost` | sync, `MaxSync` above 1 | the goroutine ignores the error of the sync, and deletes what was written meanwhile |
| `DeletedIsRemoved` without `lost` | rmdir | `controller.go:167` takes the record out before the directory is removed; the retry finds none and answers OK |
| `DeletedIsRemoved` without `lost` | crash, save, tear, failover | the record is not where the deletion looks for it, and it answers OK |
| `DeletedIsRemoved` without `lost` | timeout | a late `Mkdir` makes the directory again |
| `StagedAsCreated` without `PathDecided` | a `path` among the driver's secrets | they go before the context in `MergeConfig`: the node mounts that path for every volume |
| `MadeInWhitelist` without `NoMappings` | `path_mappings` in a class | the whitelist is asked for the mappings, and the directory is made elsewhere |
| `MadeInWhitelist` with a root `/..data` (theorem assumes `Undotted`) | a class with that root and a whitelist of its own, a driver without one | the driver's default `/` does not allow a path whose next name begins with two dots (`whitelist.go`), the class's whitelist does |
| no directory for a refused claim | an anonymous user | `controller.go:119` refuses after `Mkdir` |
| `BarrierOrder`, `ThreadLimit` without `CountKept` | a start that a release overwrites | the unlocked subtraction at `parallel.go:200`: the dispatcher takes fewer jobs to run than do |
| `WaitReturns` without its excuse | a release that another store overwrites | the same line: `currentThreads` stays too high, and the dispatcher sleeps for ever |

Four are kept as runs that must find the violation, as findings with the text
they contradict. The others follow from decisions the code states (an error it
logs as ignored), or need an interpretation of what was meant.

### Bounds

* Two pods and two calls are what races between handlers of one volume need;
  operations on different volumes share only the map, the file and the gauge.
* `MaxFaults` 2 or 3: a fault, a second one in its repair, a restart after both.
* `MaxStack` 2 or 3: retries after failures stack mounts on a path without
  end; two show what is hidden and uncovered. When a path is full kubelet
  issues no further mounts for the volume in the model.
* `MaxSync` 1: a volume is mounted again once its last sync has ended; 2 lets the
  sync of a release meet the next use, and `RemountRacesSync` shows what happens.
  In `NodeTargets` 2 is allowed.
* The runs of targets have one volume, `NodeTargets` a dynamic overlay that is
  staged once for both pods, `NodeStatic` a static irodsfuse volume that each pod
  mounts for itself; that the same holds for other clients and more pods is
  proved (section 4).
* `Provisioning`: two claims share a root, a record file and, where the class
  spells a key twice, a configuration; `SmallSpec` gives the second claim the
  plain class, since all that it is there for is to be damaged by the first. Two
  calls: a late one beside the one that is heard. Two tries: a late or failed one, and
  one that is bound. Two faults: a late call and what it meets, or a restart and a
  change of leader. When both tries fail `ClaimsAreServed` asks no more: it is the
  bound that leaves the provisioner without another. The theorems need none of these
  bounds.
* Four jobs, two threads and two places in the channel: a barrier with jobs on
  both sides, a full channel, a full pool, and two releases that race with each
  other and with a start.
* Four paths: directories in a directory, siblings, and a return of the walk to a
  directory it has left, which is where the second barrier is. One failed
  request per run of Sync and any number of restarts: after a restart the next
  sync starts from whatever the last one left. The last entry, a/y, is
  there to come after a directory: it is a file, a whiteout or nothing, and the kinds
  of directories are left to the others.

`VIEW AllButGauge` identifies states that differ in the gauge alone, which
would otherwise count up and down without end after lost records. No action
reads the gauge, and no run with the view checks it. `SYMMETRY` (of pods, and
of the slots for calls) is used only in runs without liveness properties; the
action property `NoWriteLost` of `NodeCrash` does not tell pods or slots apart.

`CHECK_DEADLOCK FALSE`: in the runs of `NodeService`, kubelet may stop when the
stack bound is reached; the job manager and the syncher end, or the process
panics.

### Fairness

`FairSpec` gives weak fairness to goroutines: handlers, the release goroutine,
the walk, the dispatcher, workers, tasks. The Go scheduler runs them, mount
commands and requests have answers (or the answer is the failure), the walk
is finite. There is no fairness for kubelet, pods, faults, timeouts or restarts.
In `OverlaySync` the claim that Sync returns excludes behaviours that restart
for ever. In `ControllerService` there is fairness for handlers, and for the
provisioner, which repeats a call that failed for every claim it has: its work
queue gives each claim its turn. `ClaimsAreServed` holds because faults are
bounded, and says that the code needs no more than repeated calls.

## 4. Proofs

TLAPS proves, for all values of the constants that satisfy the assumptions
named in the modules:

| theorem | says |
|---|---|
| `NodeTypeCorrect`, `NodeRecordsAreWhole` | types of `NodeService`; no record is half filled in memory, on disk or in a handler, whatever the hazards |
| `NodeAckedIsMounted`, `NodeReleasedIsUnmounted`, `NodeImplementsLifecycle` | what kubelet was answered is so, and `NodeService` implements `TargetLifecycle`, when `"timeout"` is not among the hazards (assumption `Patient` of the theorems) |
| `NodeLosesNoWrite` | `NoWriteLost`, if overlays are staged (`StagedOverlays`) and no sync fails or is pending when its volume is mounted again (`SyncsFirst`); commands and saves may fail, the driver may restart |
| `NodeRecordUsable` | `DynamicRecordUsable`, if no save fails and nothing restarts (`RecordsKept`); commands may fail |
| `NodeKeepsIrods` | `IrodsIntact`, with `StagedOverlays`, if no command or save fails (`CommandsSucceed`); the driver may restart |
| `NodeKeepsDataRoots` | `DataRootAlive`, with `CommandsSucceed`, if the volumes that are not staged have no data root (`StagedRoots`) |
| `NodeReleasesLower`, `NodeGaugeIsCurrent` | `LowerIsReleased` and `GaugeIsCurrent`, with `StagedOverlays`, `CommandsSucceed` and `NoRestart` |
| `ControllerTypeCorrect`, `ControllerDeletesNothingElse`, `ControllerImplementsLifecycle` | types of `ControllerService`; nothing is damaged but the directory of a deleted claim; it implements `VolumeLifecycle`; whatever the hazards, for every configuration |
| `ControllerRemovesDeleted` | the directory of a claim that is gone is removed, unless the volume is retained or its record was lost on the way; whatever the hazards |
| `ControllerMakesInWhitelist` | `MadeInWhitelist`, if no root and no volume has a name that begins with two dots (`Undotted`); whatever the hazards |
| `ControllerStagesAsCreated` | `StagedAsCreated`, whatever the hazards |
| `TypeCorrect`, `WaitMeansAllDoneHolds` | types of the job manager, and that Wait returns only when all is done, whatever updates of `currentThreads` are lost |
| `BarrierOrderHolds`, `ThreadLimitHolds`, `ImplementsQueueHolds` | barriers and the limit until a release has overwritten a start, and the refinement of `BarrierQueue`, which loses count at that store; no assumption on the updates |
| `SyncTypeCorrect`, `ViewStaysStable` | the collection stays a tree; the merged view never changes during a sync, for every tree |
| `DoneIsMergedHolds` | when Sync returns, iRODS shows what the pods saw, but for requests that failed and what is below them |

How the arguments go:

* `NodeServiceProofs`: `RecordsAreWhole` speaks of the map, the file and the
  calls in flight. It is inductive together with the types, since a record is
  in the hands of a publish between `Pop` and `Put`, and a publish of a static
  volume fills in, before its `Put`, the record of every call that shares it
  (`FillRecord`, `Sharing`). The
  invariant is cut along the variables that change together, with one lemma per
  action.
* `NodeTargetsProofs`: with patience a target has at most one call in flight, and
  kubelet waits for it, so that call alone decides what the target shows
  (`Exclusive`). The invariant says what each stretch of a handler has already
  done to its target (`CallOK`), and, between calls, that a target kubelet does
  not doubt shows what it believes (`ViewOK`). A target holds at most one mount
  (`OneMount`), for `CheckTarget` looks before a repeated call mounts again, and
  this is why one umount suffices for a release. A frame lemma carries the
  invariant over every step that
  works on another target, and a restart leaves mounts where they are, dead.
  Without patience the theorems are false: see the table above.
* `NodeLayersProofs`: what lies under the targets, again with patience. Each
  theorem names the hazards it excludes, and the table above shows that each of
  them breaks its property; the instances the runs check and the theorems'
  assumptions agree. `Settled` says what a call may count on until it is answered:
  an unstage finds all pods gone, a publish finds the volume staged, and a call on
  its way to the lower directory is an unstage that has taken the record out.
  While a sync of a volume is pending nobody uses the volume (`Unused`), so nobody
  writes between the walk and the deletion. The record of a volume in use is in
  the manager or in the hands of the publish that puts it back (`InHand`). A live
  mount on a lower directory is `Held`: by the staging that made it, by the
  record that will let the release find it, or by the release on its way there.
  So no second mount is stacked on it, and the umount before the removal of the
  directory takes the only one away (`LowerOK`); without restarts it is there as
  long as the staging target is (`Nested`). The data root follows: the release
  that removes it leaves nothing of its volume mounted. The gauge is the
  cardinality of a set (`Counted`): the mounted targets, less those whose publish
  has not put the record back, and those whose lower directory is still to come;
  every step of a handler adds or takes the target of its own call, or neither
  (`Balanced`).
* `ControllerServiceProofs`: a removal needs a record, and a record comes from a
  `Decision`: not retained means a directory of the claim's own name
  (`PlacedInv`), which no root and no other claim's directory is, because names are
  new. The harder half is that its claim has been deleted: only the volume the
  claim is bound to can be named by a deletion, and it has the number of the try
  that was bound (`BoundInv`, `DeletesInv`), which no call still on its way shares
  (`FreshInv`), although the records of abandoned tries name the same directory.
  The refinement adds that the directory a heard call is about to record is whole,
  and that no directory of a claim that is not deleted is a remnant (`LifeInv`).
* `ControllerRemovalProofs`: `lost` holds the claims whose record went astray. For
  the others the invariant follows the record from `CreateVolume` to the removal of
  the directory: the replica that leads has it (`KeptInv`), or the deletion the
  provisioner waits for holds it, since a call that is waited for runs at the leader
  (`LeaderInv`) and one that is not has put its claim among the lost (`UnheardInv`).
  So a deletion that finds no record, and answers that all is well, cannot be for
  such a claim; and the one that finds it removes the directory before it answers.
  Where directories are made needs less: a call on its way to a directory keeps the
  path of a decision that did not refuse it (`MakesInv`), and a decision that does
  not compares the directory with the merged whitelist, in which the driver's
  secrets go before the class. Where they name none the class's counts, and the
  driver's own is then the root, above every path (`RootAllows`).
  `StagedAsCreated` needs the types only: that what `PathDecided` asks is enough is
  a fact about the configuration (`PathDecides`).
* `ParallelJobManagerProofs`: `currentThreads` is not the number of the jobs
  between start and release, since updates race. But while no start has been
  overwritten it is no less (`Counted`): a store that overwrites a release leaves it
  too high. So is what the dispatcher has loaded and is about to store, for while
  it holds that value jobs can only be released, and the job it has let in fits
  beside those that are left. So a barrier that starts at zero finds nothing
  running, and since jobs start in the order they are received (`InOrder`), nothing
  before a started barrier runs later (`Separated`). The bounds are about the
  cardinality of the set of busy jobs; each step adds or takes one job. The step
  that breaks them is the store of a release that loaded before a start and stores
  after it; it is the `Miscount` of `BarrierQueue`. Whatever is lost, the wait group
  counts the jobs that are sent and neither ended nor
  skipped, less the one that is sent and not yet added: so it is zero at Wait only
  when there is none. It may go below zero before (`WaitGroupPanic`), never after.
* `OverlaySyncProofs`: a task fits its entry's kind, and one that removes
  something finds it hidden by the upper layer: a file or whiteout hides what
  it replaces, an opaque directory hides what it clears, and what is in the
  way of a merged directory is a file, with nothing below it, or the directory
  is itself hidden. Neither barriers nor the order of the walk are needed, so
  the view is stable even for tasks left over after a failed walk.
* `OverlayMergeProofs`: here order and barriers are needed. The visited entries
  are the first of the walk, and all tasks that run have the directory of the
  entry visited last (`OrderInv`), so what is above a visited entry is done and
  nothing below a running task's entry is visited. Then an entry that is done stays
  merged (`MergeInv`): a task that removes or makes something below or above its
  own entry meets no other entry that is done or under way but directories the
  upper layer wants anyway. One lemma (`TaskMoves`) says so for any task, the
  others say what each request does to its own entry. A `MakeDir` or an upload
  that finds no directory above it does nothing and reports no error to Sync: it can
  only happen below an entry that failed.

Only model-checked: everything under fairness (`WaitReturns`, `SyncEnds`,
`ReleasedIsSynced`, `ClaimsAreServed`), which is out of the prover's reach. Every invariant and every action property of a passing run is a theorem.

## 5. Not modelled

* The gRPC server, its flags and sockets; the identity service and the calls that
  only answer; deployment files. They keep no state the properties could read.
* The encryption and the format of the record files: a torn or unreadable file is
  "no records". (`load` of a file without encryption reports an error although it
  has read it; the callers log it and go on.)
* The kernel version, option lists, the parsing of the mount table and the scripts
  in `mount_exec`: conversions of strings whose results are constants of the
  models (`Client`) or the success of a mount.
* The connection infos of webdav and nfs, and most fields of the one of irodsfuse.
* `syscall.Umask` (`mount.go:291`, `mount.go:311`), which two handlers at once can
  leave at zero: no model has the modes of files.
* Volumes of several path mappings in the syncher, and its status log.
* What pods write between a restart and the next release, beyond the layer being
  dirty; counters that only grow; texts of logs and errors.
