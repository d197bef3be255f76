------------------------- MODULE ControllerService -------------------------
(***************************************************************************)
(* The CSI controller service: CreateVolume and DeleteVolume of            *)
(* pkg/driver/controller.go with the controller records of pkg/volumeinfo, *)
(* in the replicas of the deployment.  A handler stops wherever another    *)
(* one may run: before each request to iRODS and each access to the        *)
(* records.  The csi-provisioner beside each replica (external) issues the *)
(* calls, and only the one of the leader does.                             *)
(***************************************************************************)
EXTENDS Configuration, FiniteSets

CONSTANTS
  Names,          \* the volume names the orchestrator chooses, one per claim
  Roots,          \* the collections that configurations name as volume roots
  DriverSecrets,  \* the secrets a driver may be installed with
  Classes,        \* storage classes: parameters, secrets, secrets of the node
  Replicas,       \* the controller pods
  File,           \* the file in which each keeps its records
  Calls,          \* slots for the RPCs in flight
  Hazards,        \* what may go wrong
  MaxFaults,      \* bound: how many times something goes wrong
  MaxTries        \* bound: how often the creation of a volume is tried

AllHazards == {"mkdir",     \* the directory cannot be made, or no answer comes
               "rmdir",     \* the directory cannot be removed, or only a part of it
               "save",      \* the record file cannot be written
               "crash",     \* a replica restarts
               "tear",      \* a restart in the middle of a save truncates the file
               "timeout",   \* the provisioner stops waiting for an answer
               "failover"}  \* another replica becomes the leader

Sources(d, s) ==
  [driver |-> DriverSecrets[d], params |-> Classes[s].params, secrets |-> Classes[s].secrets]
AllSources == {Sources(d, s) : d \in DOMAIN DriverSecrets, s \in DOMAIN Classes}

ASSUME RootsAssumption ==
  /\ Roots # {} /\ Roots \subseteq Seq(STRING)
  /\ \A sources \in AllSources : \A configs \in MergeConfig(sources) :
       configs.volumerootpath \in Roots \cup {<<>>}
\* names are new ("pvc-" and a uid): no volume root lies in a volume's directory
ASSUME NamesAssumption ==
  /\ Names # {} /\ Names \subseteq STRING
  /\ \A root \in Roots : \A i \in DOMAIN root : root[i] \notin Names
ASSUME ReplicasAssumption == Replicas # {} /\ DOMAIN File = Replicas
ASSUME BoundsAssumption ==
  /\ Hazards \subseteq AllHazards
  /\ MaxFaults \in Nat /\ MaxTries \in Nat

VARIABLES
  site,     \* the secrets the driver is installed with
  class,    \* the storage class of each claim
  claim,    \* what the provisioner knows of each claim
  pv,       \* the volume each claim was bound to
  tries,    \* how often its creation was tried; every try makes a new volume id
  leader,   \* the replica whose provisioner is active
  calls,    \* the RPCs in flight
  mem,      \* ControllerVolumeManager.volumes of each replica
  disk,     \* controller_volumes.json
  dirs,     \* the collections in iRODS
  lost,     \* claims whose record was lost on the way to the removal
  nfaults   \* what went wrong so far

settings == <<site, class>>
provisioner == <<claim, pv, tries, leader>>
records == <<mem, disk>>
vars == <<settings, provisioner, calls, records, dirs, lost, nfaults>>
----------------------------------------------------------------------------
VolumeDirs == {Append(root, n) : root \in Roots, n \in Names}
Paths == Roots \cup VolumeDirs
Setup(n) == Sources(site, class[n])

\* A ControllerVolume; its id is made of the name and the number of the try.
Volume == [name : Names, try : Nat, path : Paths, retain : BOOLEAN]
NoVolume == [name |-> CHOOSE n \in Names : TRUE, try |-> 0,
             path |-> CHOOSE root \in Roots : TRUE, retain |-> TRUE]

PCs == {"idle", "configure", "mkdir", "put", "pop", "rmdir"}
Call == [pc : PCs, vol : Volume, anonymous : BOOLEAN, at : Replicas, heard : BOOLEAN]
Idle == [pc |-> "idle", vol |-> NoVolume, anonymous |-> FALSE,
         at |-> CHOOSE r \in Replicas : TRUE, heard |-> FALSE]

Init ==
  /\ site \in DOMAIN DriverSecrets
  /\ class \in [Names -> DOMAIN Classes]
  /\ claim = [n \in Names |-> "none"]
  /\ pv = [n \in Names |-> NoVolume]
  /\ tries = [n \in Names |-> 0]
  /\ leader \in Replicas
  /\ calls = [c \in Calls |-> Idle]
  /\ mem = [r \in Replicas |-> {}]
  /\ disk = [f \in {File[r] : r \in Replicas} |-> {}]
  /\ dirs = [p \in Paths |-> IF p \in Roots THEN "whole" ELSE "absent"]
  /\ lost = {}
  /\ nfaults = 0

Ok == nfaults' = nfaults
Fault(h) == h \in Hazards /\ nfaults < MaxFaults /\ nfaults' = nfaults + 1

At(c, pc) == calls[c].pc = pc
Name(c) == calls[c].vol.name
Heard(n) == {c \in Calls : calls[c].heard /\ Name(c) = n}

\* the provisioner learns the answer of a call it still waits for
Reply(c, state) ==
  /\ calls' = [calls EXCEPT ![c] = Idle]
  /\ claim' = IF calls[c].heard /\ state # "error" THEN [claim EXCEPT ![Name(c)] = state]
              ELSE claim
  /\ pv' = IF calls[c].heard /\ state = "bound" THEN [pv EXCEPT ![Name(c)] = calls[c].vol]
           ELSE pv
  /\ UNCHANGED <<tries, leader>>
Goto(c, pc) == calls' = [calls EXCEPT ![c].pc = pc] /\ UNCHANGED provisioner

\* ControllerVolumeManager.save; as in NodeService
Saved(r, volumes) ==
  Ok /\ mem' = [mem EXCEPT ![r] = volumes] /\ disk' = [disk EXCEPT ![File[r]] = volumes]
NotSaved(r, volumes) ==
  /\ Fault("save") /\ mem' = [mem EXCEPT ![r] = volumes]
  /\ disk' \in {disk, [disk EXCEPT ![File[r]] = {}]}
----------------------------------------------------------------------------
(* The user and the provisioner. *)

Ask(n) ==
  /\ claim[n] = "none"
  /\ claim' = [claim EXCEPT ![n] = "creating"]
  /\ UNCHANGED <<settings, pv, tries, leader, calls, records, dirs, lost, nfaults>>

Release(n) ==
  /\ claim[n] = "bound"
  /\ claim' = [claim EXCEPT ![n] = "deleting"]
  /\ UNCHANGED <<settings, pv, tries, leader, calls, records, dirs, lost, nfaults>>

\* slots are alike: it does not matter which free one a call takes
Request(c, n, pc, vol) ==
  /\ Heard(n) = {} /\ At(c, "idle")
  /\ c = CHOOSE d \in Calls : At(d, "idle")
  /\ calls' = [calls EXCEPT ![c] = [pc |-> pc, vol |-> vol, anonymous |-> FALSE,
                                    at |-> leader, heard |-> TRUE]]
  /\ UNCHANGED <<settings, claim, pv, leader, records, dirs, lost, nfaults>>

\* a refused creation is tried again too; generateVolumeID makes a new id
RequestCreate(c, n) ==
  /\ claim[n] \in {"creating", "refused"} /\ tries[n] < MaxTries
  /\ tries' = [tries EXCEPT ![n] = @ + 1]
  /\ Request(c, n, "configure", [NoVolume EXCEPT !.name = n, !.try = tries[n] + 1])

RequestDelete(c, n) ==
  /\ claim[n] = "deleting" /\ UNCHANGED tries
  /\ Request(c, n, "pop", [NoVolume EXCEPT !.name = n, !.try = pv[n].try])

\* the handlers do not look at their context: the call goes on, unheard
Timeout(c) ==
  /\ calls[c].heard /\ Fault("timeout")
  /\ calls' = [calls EXCEPT ![c].heard = FALSE]
  /\ lost' = lost \cup {Name(c)}
  /\ UNCHANGED <<settings, provisioner, records, dirs>>
----------------------------------------------------------------------------
(* CreateVolume. *)

\* what is decided from the configuration alone: to refuse the volume, or its path,
\* whether it is retained and has a directory to be made, and as which user
Refusal == [refused |-> TRUE, path |-> NoVolume.path, retain |-> TRUE, mkdir |-> FALSE,
            anonymous |-> FALSE]
Decision(n, configs, info) ==
  LET config == ControllerConfig(n, configs) IN
  IF Refused([configs EXCEPT !.path = config.path], info) THEN Refusal
  ELSE [refused |-> FALSE, path |-> config.path, retain |-> config.retain,
        mkdir |-> config.mkdir, anonymous |-> info.user = Anonymous]
Decisions(sources, n) ==
  UNION {IF GetClientType(configs) # "irodsfuse" \/ InvalidControllerConfig(configs)
         THEN {Refusal}
         ELSE {Decision(n, configs, info) : info \in
                 ConnectionInfos([configs EXCEPT !.path = ControllerConfig(n, configs).path])} :
           configs \in MergeConfig(sources)}
\* as a relation, which TLC computes once
Decides ==
  UNION {{<<d, s, n>>} \X Decisions(Sources(d, s), n) :
           d \in DOMAIN DriverSecrets, s \in DOMAIN Classes, n \in Names}

Decided(call, decision) ==
  [call EXCEPT !.pc = IF decision.mkdir THEN "mkdir" ELSE "put",
               !.vol = [call.vol EXCEPT !.path = decision.path, !.retain = decision.retain],
               !.anonymous = decision.anonymous]
Configure(c) ==
  /\ At(c, "configure")
  /\ \E entry \in Decides :
       LET decision == entry[2] IN
       /\ entry[1] = <<site, class[Name(c)], Name(c)>>
       /\ \/ decision.refused /\ Reply(c, "refused")
          \/ /\ ~decision.refused
             /\ calls' = [calls EXCEPT ![c] = Decided(calls[c], decision)]
             /\ UNCHANGED provisioner
  /\ UNCHANGED <<settings, records, dirs, lost, nfaults>>

\* irods.Mkdir is content with a collection that is there
Made(path) == [dirs EXCEPT ![path] = IF @ = "absent" THEN "whole" ELSE @]
MakeDir(c) ==
  LET path == calls[c].vol.path IN
  /\ At(c, "mkdir")
  /\ \/ Ok /\ dirs' = Made(path) /\ Goto(c, "put")
     \/ Fault("mkdir") /\ dirs' \in {dirs, Made(path)} /\ Reply(c, "error")
  /\ UNCHANGED <<settings, records, lost>>

\* the anonymous user is refused only now, with the directory made
PutRecord(c) ==
  LET r == calls[c].at
      with == mem[r] \cup {calls[c].vol}
  IN
  /\ At(c, "put")
  /\ \/ calls[c].anonymous /\ Ok /\ UNCHANGED records /\ Reply(c, "refused")
     \/ ~calls[c].anonymous /\ Saved(r, with) /\ Reply(c, "bound")
     \/ ~calls[c].anonymous /\ NotSaved(r, with) /\ Reply(c, "error")
  /\ UNCHANGED <<settings, dirs, lost>>
----------------------------------------------------------------------------
(* DeleteVolume. *)

\* mutant: any try of the same claim is taken for the volume
SameName(v, w) == v.name = w.name
SameId(v, w) == v.name = w.name /\ v.try = w.try
Found(c) == {v \in mem[calls[c].at] : SameId(v, calls[c].vol)}

\* mutant: a retained volume is removed too
RetainsNothing(v) == FALSE
Retains(v) == v.retain

\* mutant: a volume that is not there any more cannot be deleted
NothingToDeleteFails(c) == Reply(c, "error")
NothingToDelete(c) == Reply(c, "gone")

\* the record is taken out first, and without one there is nothing to do
PopRecord(c) ==
  LET r == calls[c].at IN
  /\ At(c, "pop")
  /\ \/ /\ Found(c) = {} /\ Ok /\ UNCHANGED <<records, lost>>
        /\ NothingToDelete(c)
     \/ \E v \in Found(c) :
          /\ Saved(r, mem[r] \ {v}) /\ UNCHANGED lost
          /\ IF Retains(v) THEN Reply(c, "gone")
             ELSE /\ calls' = [calls EXCEPT ![c].pc = "rmdir", ![c].vol = v]
                  /\ UNCHANGED provisioner
     \/ \E v \in Found(c) :
          /\ NotSaved(r, mem[r] \ {v}) /\ lost' = lost \cup {Name(c)}
          /\ Reply(c, "error")
  /\ UNCHANGED <<settings, dirs>>

\* a failed removal took the record along, also where no directory was left
RemoveDir(c) ==
  LET path == calls[c].vol.path
      left(what) == [dirs EXCEPT ![path] = IF @ = "absent" THEN @ ELSE what]
  IN
  /\ At(c, "rmdir")
  /\ \/ /\ Ok /\ dirs[path] # "absent"
        /\ dirs' = left("absent") /\ UNCHANGED lost /\ Reply(c, "gone")
     \/ /\ \/ Ok /\ dirs[path] = "absent" /\ UNCHANGED dirs
           \/ Fault("rmdir") /\ dirs' \in {dirs, left("part"), left("absent")}
        /\ lost' = lost \cup {Name(c)}
        /\ Reply(c, "error")
  /\ UNCHANGED <<settings, records>>
----------------------------------------------------------------------------
(* Restarts and leaders. *)

\* the claims whose record the leader no longer has, or that were being removed
Forgotten(stopped) ==
  {n \in Names : /\ claim[n] \in {"bound", "deleting"}
                 /\ \/ pv[n] \in mem[leader] \ mem'[leader']
                    \/ \E c \in stopped : At(c, "rmdir") /\ Name(c) = n}

Crash(r) ==
  LET stopped == {c \in Calls : calls[c].at = r /\ ~At(c, "idle")}
      torn == "tear" \in Hazards /\ \E c \in stopped : At(c, "put") \/ At(c, "pop")
  IN
  /\ Fault("crash")
  /\ calls' = [c \in Calls |-> IF c \in stopped THEN Idle ELSE calls[c]]
  /\ disk' \in {disk} \cup (IF torn THEN {[disk EXCEPT ![File[r]] = {}]} ELSE {})
  /\ mem' = [mem EXCEPT ![r] = disk'[File[r]]]
  /\ UNCHANGED <<settings, provisioner, dirs>>
  /\ lost' = lost \cup Forgotten(stopped)

\* the provisioner that lost the lease no longer listens
Failover(r) ==
  /\ r # leader /\ Fault("failover")
  /\ leader' = r
  /\ calls' = [c \in Calls |-> [calls[c] EXCEPT !.heard = FALSE]]
  /\ UNCHANGED <<settings, claim, pv, tries, records, dirs>>
  /\ lost' = lost \cup Forgotten({}) \cup {Name(c) : c \in {d \in Calls : calls[d].heard}}
----------------------------------------------------------------------------
Provisioner == \E c \in Calls, n \in Names : RequestCreate(c, n) \/ RequestDelete(c, n)
Handler(c) ==
  Configure(c) \/ MakeDir(c) \/ PutRecord(c) \/ PopRecord(c) \/ RemoveDir(c)

Next ==
  \/ \E n \in Names : Ask(n) \/ Release(n)
  \/ Provisioner
  \/ \E c \in Calls : Handler(c) \/ Timeout(c)
  \/ \E r \in Replicas : Crash(r) \/ Failover(r)

Spec == Init /\ [][Next]_vars

\* handlers are goroutines; the provisioner retries what failed, for every claim
Fairness ==
  /\ \A c \in Calls : WF_vars(Handler(c))
  /\ \A n \in Names : WF_vars(\E c \in Calls : RequestCreate(c, n) \/ RequestDelete(c, n))
FairSpec == Spec /\ Fairness
----------------------------------------------------------------------------
(* Properties. *)

\* The type of every variable.
TypeOK ==
  /\ site \in DOMAIN DriverSecrets
  /\ class \in [Names -> DOMAIN Classes]
  /\ claim \in [Names -> {"none", "creating", "refused", "bound", "deleting", "gone"}]
  /\ pv \in [Names -> Volume]
  /\ tries \in [Names -> 0 .. MaxTries]
  /\ leader \in Replicas
  /\ calls \in [Calls -> Call]
  /\ mem \in [Replicas -> SUBSET Volume]
  /\ disk \in [{File[r] : r \in Replicas} -> SUBSET Volume]
  /\ dirs \in [Paths -> {"absent", "whole", "part"}]
  /\ lost \subseteq Names
  /\ nfaults \in 0 .. MaxFaults

\* A collection loses nothing unless it is the directory of a volume whose claim
\* was deleted and that is not to be retained: whatever fails, restarts or comes
\* late, and whatever roots the storage classes share.
MayGo(path) ==
  \E n \in Names : /\ pv[n].path = path /\ ~pv[n].retain
                   /\ claim[n] \in {"deleting", "gone"}
                   /\ \E root \in Roots : path = Append(root, n)
NothingElseDeleted ==
  [][\A p \in Paths : dirs[p] = "whole" /\ dirs'[p] # "whole" => MayGo(p)]_vars

\* The controller makes directories in the collections the driver's own whitelist
\* allows, whatever whitelist a storage class brings.  (Path mappings in a
\* configuration are checked in the place of the directory that is made.)
OwnWhitelist(d) == UNION {Whitelist(configs) : configs \in MergeConfig(
  [driver |-> DriverSecrets[d], params |-> <<>>, secrets |-> <<>>])}
\* as relations, which TLC computes once
NoMappings ==
  {i \in (DOMAIN DriverSecrets) \X (DOMAIN Classes) :
     \A configs \in MergeConfig(Sources(i[1], i[2])) : configs.pathmappings = <<>>}
Allowed ==
  {i \in (DOMAIN DriverSecrets) \X Paths : IsMountPathAllowed(OwnWhitelist(i[1]), i[2])}
MadeInWhitelist ==
  \A n \in Names, root \in Roots :
    dirs[Append(root, n)] # "absent" /\ <<site, class[n]>> \in NoMappings
      => <<site, Append(root, n)>> \in Allowed

\* The node that stages a volume reads its context, with the path that
\* CreateVolume put there, and secrets of its own: it mounts the volume's
\* directory and no other.  The driver's secrets go before the context, a second
\* spelling of the path or path mappings beside it; then it may be another.
Context(s, path) ==
  [k \in DOMAIN Classes[s].params \cup {"path"} |->
     IF k = "path" THEN path ELSE Classes[s].params[k]]
NodeSources(d, s, path) ==
  [driver |-> DriverSecrets[d], params |-> Context(s, path), secrets |-> Classes[s].node]
PathDecided(d, s, path) ==
  /\ Given(DriverSecrets[d], "path") = {}
  /\ Given(Context(s, path), "path") = {path}
  /\ \A configs \in MergeConfig(NodeSources(d, s, path)) : configs.pathmappings = <<>>
Staged ==
  {i \in (DOMAIN DriverSecrets) \X (DOMAIN Classes) \X Paths :
     \A configs \in MergeConfig(NodeSources(i[1], i[2], i[3])) :
       \A info \in ConnectionInfos(configs) : info.path = i[3]}
StagedAsCreated ==
  \A n \in Names : claim[n] = "bound" /\ PathDecided(site, class[n], pv[n].path)
    => <<site, class[n], pv[n].path>> \in Staged

\* When a claim is gone its directory is, unless it is retained or its record
\* was lost before the directory was removed: by a failed removal, a restart or
\* a failed save in between, a torn file, a late answer or a change of leader.
DeletedIsRemoved ==
  \A n \in Names :
    claim[n] = "gone" /\ n \notin lost /\ ~pv[n].retain => dirs[pv[n].path] = "absent"

\* The directories and the claims follow the life cycle the users are promised.
Lifecycle == INSTANCE VolumeLifecycle WITH
  path <- [n \in Names |-> pv[n].path]
ImplementsLifecycle == Lifecycle!Spec

\* A claim that is asked for is bound or refused, unless every try failed, and one
\* that is released goes away, however often the provisioner has to try.
ClaimsAreServed ==
  \A n \in Names :
    claim[n] \in {"creating", "deleting"} ~>
      \/ claim[n] \in {"bound", "refused", "gone"}
      \/ claim[n] = "creating" /\ tries[n] = MaxTries /\ Heard(n) = {}
=============================================================================
