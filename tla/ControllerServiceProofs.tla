---------------------- MODULE ControllerServiceProofs ----------------------
(***************************************************************************)
(* The controller service is type correct, and it deletes no collection    *)
(* but the directory of a volume that was released and is not retained:    *)
(* for any configurations, claims, replicas, failures and bounds.          *)
(***************************************************************************)
EXTENDS ControllerService, SequenceTheorems, TLAPS

Files == {File[r] : r \in Replicas}

\* Volumes are kept at a root, which is retained, or in a directory of their own.
Placed(v) ==
  \/ v.path \in Roots /\ v.retain
  \/ \E root \in Roots : v.path = Append(root, v.name)

Recorded(v) == (\E r \in Replicas : v \in mem[r]) \/ (\E f \in Files : v \in disk[f])
Creates(c) == calls[c].pc \in {"configure", "mkdir", "put"}
Deletes(c) == calls[c].pc \in {"pop", "rmdir"}
Settled(n) == claim[n] \in {"bound", "deleting", "gone"}

\* The provisioner waits for one call of a claim at most, and for the one the
\* state of the claim calls for.
HeardInv ==
  /\ \A c, d \in Calls : calls[c].heard /\ calls[d].heard /\ Name(c) = Name(d) => c = d
  /\ \A c \in Calls : calls[c].heard =>
       \/ Creates(c) /\ claim[Name(c)] \in {"creating", "refused"}
       \/ Deletes(c) /\ claim[Name(c)] = "deleting"

\* A volume that is being created has an id of its own.
FreshInv ==
  /\ \A v \in Volume : Recorded(v) => v.try <= tries[v.name]
  /\ \A c \in Calls : Creates(c) =>
       /\ calls[c].vol.try <= tries[Name(c)]
       /\ \A v \in Volume : Recorded(v) => ~SameId(v, calls[c].vol)
       /\ \A d \in Calls : Creates(d) /\ SameId(calls[c].vol, calls[d].vol) => c = d
       /\ Settled(Name(c)) => ~SameId(calls[c].vol, pv[Name(c)])

\* A record with the id of a claim's volume is the record of that volume.
BoundInv ==
  \A n \in Names : Settled(n) =>
    /\ pv[n].name = n /\ pv[n].try <= tries[n]
    /\ \A v \in Volume : Recorded(v) /\ SameId(v, pv[n]) => v = pv[n]

\* Deletions are of volumes that were released.
DeletesInv ==
  \A c \in Calls : Deletes(c) =>
    /\ claim[Name(c)] \in {"deleting", "gone"}
    /\ calls[c].vol.try = pv[Name(c)].try
    /\ At(c, "rmdir") => calls[c].vol = pv[Name(c)] /\ ~calls[c].vol.retain

PlacedInv ==
  /\ \A v \in Volume : Recorded(v) => Placed(v)
  /\ \A c \in Calls : At(c, "put") \/ At(c, "rmdir") => Placed(calls[c].vol)
  /\ \A c \in Calls : At(c, "mkdir") => \E root \in Roots : calls[c].vol.path = Append(root, Name(c))

StepInv == HeardInv /\ FreshInv /\ BoundInv /\ DeletesInv /\ PlacedInv

\* The inductive invariant.
CInv == TypeOK /\ StepInv
----------------------------------------------------------------------------
(* Configurations and names. *)

\* Whatever the sources say, a creation that is not refused has a directory of
\* its own under a root, or none, and then the root is retained.
LEMMA DecisionPlaces ==
  ASSUME NEW entry \in Decides, ~entry[2].refused
  PROVE  /\ entry[2].retain \in BOOLEAN /\ entry[2].anonymous \in BOOLEAN
         /\ \/ /\ entry[2].mkdir
               /\ \E root \in Roots : entry[2].path = Append(root, entry[1][3])
            \/ ~entry[2].mkdir /\ entry[2].path \in Roots /\ entry[2].retain
<1>1. PICK d \in DOMAIN DriverSecrets, s \in DOMAIN Classes, n \in Names :
        entry \in {<<d, s, n>>} \X Decisions(Sources(d, s), n)
  BY DEF Decides
<1>2. entry[1][3] = n /\ entry[2] \in Decisions(Sources(d, s), n)
  BY <1>1
<1>3. PICK configs \in MergeConfig(Sources(d, s)) :
        entry[2] \in IF GetClientType(configs) # "irodsfuse" \/ InvalidControllerConfig(configs)
         THEN {Refusal}
         ELSE {Decision(n, configs, info) : info \in
                 ConnectionInfos([configs EXCEPT !.path = ControllerConfig(n, configs).path])}
  BY <1>2 DEF Decisions
<1>4. entry[2] # Refusal
  BY DEF Refusal
<1>5. ~InvalidControllerConfig(configs)
  BY <1>3, <1>4
<1>6. configs.volumerootpath \in Roots
  <2>1. Sources(d, s) \in AllSources
    BY DEF AllSources
  <2>2. configs.volumerootpath \in Roots \cup {<<>>}
    BY <1>3, <2>1, RootsAssumption
  <2>3. configs.volumerootpath # <<>>
    <3>1. IsAbs(configs.volumerootpath)
      BY <1>5 DEF InvalidControllerConfig
    <3>2. ~IsAbs(<<>>)
      BY DEF IsAbs
    <3> QED BY <3>1, <3>2
  <2> QED BY <2>2, <2>3
<1>7. PICK info : entry[2] = Decision(n, configs, info)
  BY <1>3, <1>4
<1>8. entry[2] = [refused |-> FALSE, path |-> ControllerConfig(n, configs).path,
                  retain |-> ControllerConfig(n, configs).retain,
                  mkdir |-> ControllerConfig(n, configs).mkdir,
                  anonymous |-> info.user = Anonymous]
  BY <1>4, <1>7 DEF Decision
<1>10. entry[2].anonymous \in BOOLEAN
  <2>1. CASE info.user = Anonymous
    BY <1>8, <2>1
  <2>2. CASE info.user # Anonymous
    BY <1>8, <2>2
  <2> QED BY <2>1, <2>2
<1>11. CASE configs.novolumedir \in True
  BY <1>2, <1>6, <1>8, <1>10, <1>11 DEF ControllerConfig
<1>12. CASE configs.novolumedir \notin True
  <2>1. ControllerConfig(n, configs)
          = [path |-> Append(configs.volumerootpath, n),
             retain |-> configs.retaindata \in True, mkdir |-> TRUE]
    BY <1>12 DEF ControllerConfig
  <2>2. entry[2].retain \in BOOLEAN
    <3>1. CASE configs.retaindata \in True
      BY <1>8, <2>1, <3>1
    <3>2. CASE configs.retaindata \notin True
      BY <1>8, <2>1, <3>2
    <3> QED BY <3>1, <3>2
  <2>3. entry[2].mkdir /\ entry[2].path = Append(configs.volumerootpath, n)
    BY <1>8, <2>1
  <2> QED BY <1>2, <1>6, <1>10, <2>2, <2>3
<1> QED BY <1>11, <1>12

\* Directories of different claims are different, and none is a root.
LEMMA OwnDirectory ==
  ASSUME NEW root \in Roots, NEW other \in Roots, NEW m \in Names, NEW n \in Names
  PROVE  /\ Append(root, n) \in Paths
         /\ Append(root, n) = Append(other, m) => m = n
         /\ Append(root, n) \notin Roots
<1>1. root \in Seq(STRING) /\ other \in Seq(STRING) /\ n \in STRING /\ m \in STRING
  BY RootsAssumption, NamesAssumption
<1>2. Append(root, n) \in Paths
  BY DEF Paths, VolumeDirs
<1>3. Len(Append(root, n)) = Len(root) + 1 /\ Append(root, n)[Len(root) + 1] = n
  BY <1>1, AppendProperties
<1>4. Len(Append(other, m)) = Len(other) + 1 /\ Append(other, m)[Len(other) + 1] = m
  BY <1>1, AppendProperties
<1>5. ASSUME Append(root, n) \in Roots PROVE FALSE
  <2>1. Len(root) + 1 \in DOMAIN Append(root, n)
    BY <1>1, <1>3
  <2> QED BY <1>3, <1>5, <2>1, NamesAssumption
<1> QED BY <1>1, <1>2, <1>3, <1>4, <1>5
----------------------------------------------------------------------------
(* What the building blocks of the steps keep. *)

LEMMA IdleFields ==
  /\ NoVolume \in Volume /\ Idle \in Call
  /\ Idle.pc = "idle" /\ ~Idle.heard
<1>1. (CHOOSE n \in Names : TRUE) \in Names /\ (CHOOSE root \in Roots : TRUE) \in Roots
  BY NamesAssumption, RootsAssumption
<1>2. NoVolume \in Volume
  BY <1>1 DEF NoVolume, Volume, Paths
<1>3. (CHOOSE r \in Replicas : TRUE) \in Replicas
  BY ReplicasAssumption
<1> QED BY <1>2, <1>3 DEF Idle, Call, PCs

LEMMA CallFields ==
  ASSUME TypeOK, NEW c \in Calls
  PROVE  /\ calls[c] \in Call /\ calls[c].vol \in Volume /\ Name(c) \in Names
         /\ calls[c].at \in Replicas /\ calls[c].heard \in BOOLEAN
         /\ calls[c].vol.try \in Nat /\ calls[c].vol.path \in Paths
         /\ File[calls[c].at] \in Files
BY DEF TypeOK, Call, Volume, Name, Files

\* Calls end or are no longer listened to, and nothing is recorded.
Fades(c) ==
  \/ calls'[c].pc = "idle" /\ ~calls'[c].heard
  \/ /\ calls'[c].pc = calls[c].pc /\ calls'[c].vol = calls[c].vol
     /\ calls'[c].heard => calls[c].heard
FewerRecords == \A v \in Volume : Recorded(v)' => Recorded(v)
Answers(c, n) ==
  /\ calls[c].heard /\ Name(c) = n /\ calls'[c].pc = "idle" /\ ~calls'[c].heard
  /\ \/ Creates(c) /\ claim'[n] = "refused"
     \/ Deletes(c) /\ claim'[n] = "gone"

LEMMA FadingKeeps ==
  ASSUME TypeOK, StepInv, TypeOK', FewerRecords, pv' = pv, tries' = tries,
         \A c \in Calls : Fades(c),
         \A n \in Names : claim'[n] = claim[n] \/ \E c \in Calls : Answers(c, n)
  PROVE  StepInv'
<1> USE DEF StepInv
<1>1. \A c \in Calls : /\ Name(c) \in Names /\ calls[c].vol \in Volume
                       /\ Name(c)' \in Names /\ calls'[c].vol \in Volume
  BY DEF TypeOK, Call, Volume, Name
<1>2. \A n \in Names : Settled(n)' => Settled(n)
  BY DEF HeardInv, Settled, Answers, Creates, Deletes
<1>3. \A c \in Calls : /\ Creates(c)' => Creates(c) /\ calls'[c].vol = calls[c].vol
                       /\ Deletes(c)' => Deletes(c) /\ calls'[c].vol = calls[c].vol
  BY DEF Fades, Creates, Deletes
<1>4. HeardInv'
  <2>1. ASSUME NEW c \in Calls, calls'[c].heard
        PROVE  calls[c].heard /\ calls'[c].pc = calls[c].pc /\ Name(c)' = Name(c)
               /\ claim'[Name(c)] = claim[Name(c)]
    <3>1. calls[c].heard /\ calls'[c].pc = calls[c].pc /\ Name(c)' = Name(c)
      BY <2>1 DEF Fades, Name
    <3>2. ~\E d \in Calls : Answers(d, Name(c))
      BY <2>1, <3>1 DEF Answers, HeardInv
    <3> QED BY <1>1, <3>1, <3>2
  <2> QED BY <2>1 DEF HeardInv, Creates, Deletes
<1>5. FreshInv'
  <2>1. \A v \in Volume : Recorded(v)' => v.try <= tries'[v.name]
    BY DEF FreshInv, FewerRecords
  <2>2. ASSUME NEW c \in Calls, Creates(c)'
        PROVE  /\ calls'[c].vol.try <= tries'[Name(c)']
               /\ \A v \in Volume : Recorded(v)' => ~SameId(v, calls'[c].vol)
               /\ \A d \in Calls : Creates(d)' /\ SameId(calls'[c].vol, calls'[d].vol) => c = d
               /\ Settled(Name(c))' => ~SameId(calls'[c].vol, pv'[Name(c)'])
    <3>1. Creates(c) /\ calls'[c].vol = calls[c].vol /\ Name(c)' = Name(c) /\ Name(c) \in Names
      BY <1>1, <1>3, <2>2 DEF Name, Creates, Deletes
    <3>2. \A d \in Calls : Creates(d)' => Creates(d) /\ calls'[d].vol = calls[d].vol
      BY <1>3 DEF Creates, Deletes
    <3>3. Settled(Name(c))' => Settled(Name(c))
      BY <1>2, <3>1 DEF Settled
    <3> QED BY <3>1, <3>2, <3>3 DEF FreshInv, FewerRecords
  <2> QED BY <2>1, <2>2 DEF FreshInv, SameId
<1>6. BoundInv'
  BY <1>2 DEF BoundInv, FewerRecords, SameId
<1>7. DeletesInv'
  <2>1. ASSUME NEW c \in Calls, Deletes(c)'
        PROVE  claim'[Name(c)'] \in {"deleting", "gone"}
    <3>0. Deletes(c) /\ calls'[c].vol = calls[c].vol
      BY <1>3, <2>1 DEF Creates, Deletes
    <3>1. claim[Name(c)] \in {"deleting", "gone"} /\ Name(c)' = Name(c)
      BY <3>0 DEF DeletesInv, Name
    <3>2. ASSUME NEW d \in Calls, Answers(d, Name(c)) PROVE claim'[Name(c)] = "gone"
      BY <3>1, <3>2 DEF Answers, HeardInv, Creates, Deletes
    <3> QED BY <1>1, <3>1, <3>2
  <2>2. ASSUME NEW c \in Calls, Deletes(c)'
        PROVE  At(c, "rmdir")' => At(c, "rmdir")
    BY <2>2 DEF Fades, At, Deletes
  <2> QED BY <1>3, <2>1, <2>2 DEF DeletesInv, Name, Deletes, At
<1>8. PlacedInv'
  <2>1. \A v \in Volume : Recorded(v)' => Placed(v)'
    BY DEF PlacedInv, FewerRecords, Placed
  <2>2. \A c \in Calls : At(c, "put")' \/ At(c, "rmdir")' => Placed(calls[c].vol)'
    BY DEF PlacedInv, Fades, At, Placed
  <2>4. \A c \in Calls : At(c, "mkdir")' =>
          \E root \in Roots : calls'[c].vol.path = Append(root, Name(c)')
    BY DEF PlacedInv, Fades, At, Name
  <2> QED BY <2>1, <2>2, <2>4 DEF PlacedInv, Placed
<1> QED BY <1>4, <1>5, <1>6, <1>7, <1>8
----------------------------------------------------------------------------
(* Types. *)

Claims == {"none", "creating", "refused", "bound", "deleting", "gone"}

LEMMA ReplyTypes ==
  ASSUME TypeOK, NEW c \in Calls, NEW state \in Claims \cup {"error"}, Reply(c, state)
  PROVE  /\ calls' \in [Calls -> Call] /\ claim' \in [Names -> Claims]
         /\ pv' \in [Names -> Volume] /\ tries' = tries /\ leader' = leader
<1>1. calls' \in [Calls -> Call]
  BY IdleFields DEF TypeOK, Reply
<1>2. claim' \in [Names -> Claims]
  BY CallFields DEF TypeOK, Reply, Claims
<1>3. pv' \in [Names -> Volume]
  BY CallFields DEF TypeOK, Reply
<1> QED BY <1>1, <1>2, <1>3 DEF Reply

LEMMA GotoTypes ==
  ASSUME TypeOK, NEW c \in Calls, NEW pc \in PCs, NEW vol \in Volume,
         calls' = [calls EXCEPT ![c].pc = pc, ![c].vol = vol]
  PROVE  calls' \in [Calls -> Call]
<1>1. [calls[c] EXCEPT !.pc = pc, !.vol = vol] \in Call
  BY CallFields DEF Call
<1> QED BY <1>1 DEF TypeOK

LEMMA FaultTypes ==
  ASSUME TypeOK, Ok \/ (\E h : Fault(h))
  PROVE  nfaults' \in 0 .. MaxFaults
BY BoundsAssumption DEF TypeOK, Ok, Fault

LEMMA SaveTypes ==
  ASSUME TypeOK, NEW r \in Replicas, NEW volumes \in SUBSET Volume,
         Saved(r, volumes) \/ NotSaved(r, volumes)
  PROVE  /\ mem' \in [Replicas -> SUBSET Volume] /\ disk' \in [Files -> SUBSET Volume]
         /\ nfaults' \in 0 .. MaxFaults
<1>1. mem' \in [Replicas -> SUBSET Volume]
  BY DEF TypeOK, Saved, NotSaved
<1>2. disk \in [Files -> SUBSET Volume]
  BY DEF TypeOK, Files
<1>3. disk' \in [Files -> SUBSET Volume]
  BY <1>2 DEF Saved, NotSaved
<1>4. nfaults' \in 0 .. MaxFaults
  BY FaultTypes DEF Saved, NotSaved
<1> QED BY <1>1, <1>3, <1>4

LEMMA InitTypes == Init => TypeOK
<1> SUFFICES ASSUME Init PROVE TypeOK
  OBVIOUS
<1>1. pv \in [Names -> Volume] /\ calls \in [Calls -> Call]
  BY IdleFields DEF Init
<1>2. tries \in [Names -> 0 .. MaxTries] /\ nfaults \in 0 .. MaxFaults
  BY BoundsAssumption DEF Init
<1>3. claim \in [Names -> Claims] /\ dirs \in [Paths -> {"absent", "whole", "part"}]
  BY DEF Init, Claims
<1>4. mem \in [Replicas -> SUBSET Volume] /\ disk \in [{File[r] : r \in Replicas} -> SUBSET Volume]
  BY DEF Init
<1> QED BY <1>1, <1>2, <1>3, <1>4 DEF TypeOK, Init, Claims

LEMMA ProvisionerTypes ==
  ASSUME TypeOK, NEW n \in Names, NEW c \in Calls,
         RequestCreate(c, n) \/ RequestDelete(c, n)
  PROVE  TypeOK'
<1>2. CASE RequestCreate(c, n)
  <2>1. [NoVolume EXCEPT !.name = n, !.try = tries[n] + 1] \in Volume
    <3>1. tries[n] + 1 \in Nat
      BY DEF TypeOK
    <3> QED BY <3>1, IdleFields DEF Volume
  <2>2. calls' \in [Calls -> Call]
    BY <1>2, <2>1 DEF TypeOK, RequestCreate, Request, Call, PCs, Heard
  <2>3. tries' \in [Names -> 0 .. MaxTries]
    BY <1>2, BoundsAssumption DEF TypeOK, RequestCreate
  <2> QED BY <1>2, <2>2, <2>3 DEF TypeOK, RequestCreate, Request, settings, records
<1>3. CASE RequestDelete(c, n)
  <2>1. [NoVolume EXCEPT !.name = n, !.try = pv[n].try] \in Volume
    BY IdleFields DEF Volume, TypeOK
  <2>2. calls' \in [Calls -> Call]
    BY <1>3, <2>1 DEF TypeOK, RequestDelete, Request, Call, PCs
  <2> QED BY <1>3, <2>2 DEF TypeOK, RequestDelete, Request, settings, records
<1> QED BY <1>2, <1>3

LEMMA ConfigureTypes ==
  ASSUME TypeOK, NEW c \in Calls, Configure(c)
  PROVE  TypeOK'
<1>1. PICK entry \in Decides :
        LET decision == entry[2] IN
        /\ entry[1] = <<site, class[Name(c)], Name(c)>>
        /\ \/ decision.refused /\ Reply(c, "refused")
           \/ /\ ~decision.refused
              /\ calls' = [calls EXCEPT ![c] = Decided(calls[c], decision)]
              /\ UNCHANGED provisioner
  BY DEF Configure
<1>2. UNCHANGED <<site, class, mem, disk, dirs, lost, nfaults>>
  BY DEF Configure, settings, records
<1>3. CASE entry[2].refused
  BY <1>1, <1>2, <1>3, ReplyTypes DEF TypeOK, Claims
<1>4. CASE ~entry[2].refused
  <2>1. entry[2].path \in Paths /\ entry[2].retain \in BOOLEAN /\ entry[2].anonymous \in BOOLEAN
    <3>1. entry[1][3] \in Names
      BY <1>1, CallFields
    <3>2. \A root \in Roots : Append(root, entry[1][3]) \in Paths
      BY <3>1, OwnDirectory
    <3> QED BY <1>4, <3>2, DecisionPlaces DEF Paths
  <2>2. [calls[c].vol EXCEPT !.path = entry[2].path, !.retain = entry[2].retain] \in Volume
    BY <2>1, CallFields DEF Volume
  <2>3. calls' \in [Calls -> Call]
    <3>1. Decided(calls[c], entry[2]) \in Call
      BY <2>1, <2>2, CallFields DEF Decided, Call, PCs
    <3> QED BY <1>1, <1>4, <3>1 DEF TypeOK
  <2> QED BY <1>1, <1>2, <1>4, <2>3 DEF TypeOK, provisioner
<1> QED BY <1>3, <1>4

LEMMA HandlerTypes ==
  ASSUME TypeOK, NEW c \in Calls, MakeDir(c) \/ PutRecord(c) \/ PopRecord(c) \/ RemoveDir(c)
  PROVE  TypeOK'
<1> USE DEF settings, provisioner, records
<1>1. calls[c].at \in Replicas /\ calls[c].vol \in Volume /\ calls[c].vol.path \in Paths
  BY CallFields
<1>2. CASE MakeDir(c)
  <2>1. Made(calls[c].vol.path) \in [Paths -> {"absent", "whole", "part"}]
    BY <1>1 DEF TypeOK, Made
  <2>2. dirs' \in [Paths -> {"absent", "whole", "part"}] /\ nfaults' \in 0 .. MaxFaults
    BY <1>2, <2>1, FaultTypes DEF TypeOK, MakeDir
  <2>3. CASE Goto(c, "put")
    <3>1. calls' \in [Calls -> Call]
      BY <2>3, CallFields DEF Goto, TypeOK, Call, PCs
    <3> QED BY <1>2, <2>2, <2>3, <3>1 DEF TypeOK, MakeDir, Goto
  <2>4. CASE Reply(c, "error")
    BY <1>2, <2>2, <2>4, ReplyTypes DEF TypeOK, MakeDir, Claims
  <2> QED BY <1>2, <2>3, <2>4 DEF MakeDir
<1>3. CASE PutRecord(c)
  <2>1. mem[calls[c].at] \cup {calls[c].vol} \in SUBSET Volume
    BY <1>1 DEF TypeOK
  <2>2. /\ mem' \in [Replicas -> SUBSET Volume] /\ disk' \in [Files -> SUBSET Volume]
        /\ nfaults' \in 0 .. MaxFaults
    BY <1>1, <1>3, <2>1, SaveTypes, FaultTypes DEF TypeOK, PutRecord, Files
  <2>3. \E state \in {"refused", "bound", "error"} : Reply(c, state)
    BY <1>3 DEF PutRecord
  <2> QED BY <1>3, <2>2, <2>3, ReplyTypes DEF TypeOK, PutRecord, Claims, Files
<1>4. CASE PopRecord(c)
  <2>1. \A v \in Found(c) : v \in Volume /\ mem[calls[c].at] \ {v} \in SUBSET Volume
    BY <1>1 DEF TypeOK, Found
  <2>2. /\ mem' \in [Replicas -> SUBSET Volume] /\ disk' \in [Files -> SUBSET Volume]
        /\ nfaults' \in 0 .. MaxFaults
    <3>1. CASE Ok /\ UNCHANGED records
      BY <3>1, FaultTypes DEF TypeOK, records, Files
    <3>2. ASSUME NEW v \in Found(c),
                 Saved(calls[c].at, mem[calls[c].at] \ {v}) \/ NotSaved(calls[c].at, mem[calls[c].at] \ {v})
          PROVE  /\ mem' \in [Replicas -> SUBSET Volume] /\ disk' \in [Files -> SUBSET Volume]
                 /\ nfaults' \in 0 .. MaxFaults
      BY <1>1, <2>1, <3>2, SaveTypes
    <3> QED BY <1>4, <3>1, <3>2 DEF PopRecord
  <2>3. lost' \subseteq Names
    BY <1>4, CallFields DEF TypeOK, PopRecord
  <2>4. CASE \E state \in {"gone", "error"} : Reply(c, state)
    BY <1>4, <2>2, <2>3, <2>4, ReplyTypes DEF TypeOK, PopRecord, Claims, Files
  <2>5. CASE \E v \in Found(c) :
               calls' = [calls EXCEPT ![c].pc = "rmdir", ![c].vol = v] /\ UNCHANGED provisioner
    <3>1. calls' \in [Calls -> Call]
      BY <2>1, <2>5, GotoTypes DEF PCs
    <3> QED BY <1>4, <2>2, <2>3, <2>5, <3>1 DEF TypeOK, PopRecord, Files
  <2> QED BY <1>4, <2>4, <2>5 DEF PopRecord, NothingToDelete
<1>5. CASE RemoveDir(c)
  <2>1. dirs' \in [Paths -> {"absent", "whole", "part"}] /\ nfaults' \in 0 .. MaxFaults
    BY <1>1, <1>5, FaultTypes DEF TypeOK, RemoveDir
  <2>2. lost' \subseteq Names
    BY <1>5, CallFields DEF TypeOK, RemoveDir
  <2>3. \E state \in {"gone", "error"} : Reply(c, state)
    BY <1>5 DEF RemoveDir
  <2> QED BY <1>5, <2>1, <2>2, <2>3, ReplyTypes DEF TypeOK, RemoveDir, Claims
<1> QED BY <1>2, <1>3, <1>4, <1>5

LEMMA FaultStepTypes ==
  ASSUME TypeOK, (\E c \in Calls : Timeout(c)) \/ (\E r \in Replicas : Crash(r) \/ Failover(r))
  PROVE  TypeOK'
<1> USE DEF settings, provisioner, records
<1>1. \A c \in Calls : [calls[c] EXCEPT !.heard = FALSE] \in Call
  BY DEF TypeOK, Call
<1>2. CASE \E c \in Calls : Timeout(c)
  <2>1. PICK c \in Calls : Timeout(c)
    BY <1>2
  <2>2. calls' \in [Calls -> Call]
    BY <1>1, <2>1 DEF Timeout, TypeOK
  <2>3. lost' \subseteq Names /\ nfaults' \in 0 .. MaxFaults
    BY <2>1, CallFields, FaultTypes DEF TypeOK, Timeout
  <2> QED BY <2>1, <2>2, <2>3 DEF TypeOK, Timeout
<1>3. CASE \E r \in Replicas : Crash(r)
  <2>1. PICK r \in Replicas : Crash(r)
    BY <1>3
  <2>2. calls' \in [Calls -> Call]
    BY <2>1, IdleFields DEF Crash, TypeOK
  <2>3. disk' \in [Files -> SUBSET Volume]
    BY <2>1 DEF Crash, TypeOK, Files
  <2>4. mem' \in [Replicas -> SUBSET Volume]
    BY <2>1, <2>3 DEF Crash, TypeOK, Files
  <2>5. lost' \subseteq Names /\ nfaults' \in 0 .. MaxFaults
    BY <2>1, FaultTypes DEF TypeOK, Crash, Forgotten
  <2> QED BY <2>1, <2>2, <2>3, <2>4, <2>5 DEF TypeOK, Crash, Files
<1>4. CASE \E r \in Replicas : Failover(r)
  <2>1. PICK r \in Replicas : Failover(r)
    BY <1>4
  <2>2. calls' \in [Calls -> Call]
    BY <1>1, <2>1 DEF Failover
  <2>3. lost' \subseteq Names /\ nfaults' \in 0 .. MaxFaults
    BY <2>1, CallFields, FaultTypes DEF TypeOK, Failover, Forgotten
  <2> QED BY <2>1, <2>2, <2>3 DEF TypeOK, Failover
<1> QED BY <1>2, <1>3, <1>4

LEMMA NextTypes == TypeOK /\ [Next]_vars => TypeOK'
<1> SUFFICES ASSUME TypeOK, [Next]_vars PROVE TypeOK'
  OBVIOUS
<1>1. CASE UNCHANGED vars
  BY <1>1 DEF TypeOK, vars, settings, provisioner, records
<1>2. ASSUME NEW n \in Names, Ask(n) \/ Release(n) PROVE TypeOK'
  BY <1>2 DEF TypeOK, Ask, Release, settings, records
<1>3. CASE Provisioner
  BY <1>3, ProvisionerTypes DEF Provisioner
<1>4. ASSUME NEW c \in Calls, Handler(c) PROVE TypeOK'
  BY <1>4, ConfigureTypes, HandlerTypes DEF Handler
<1>5. CASE (\E c \in Calls : Timeout(c)) \/ (\E r \in Replicas : Crash(r) \/ Failover(r))
  BY <1>5, FaultStepTypes
<1> QED BY <1>1, <1>2, <1>3, <1>4, <1>5 DEF Next

\* Every variable of the controller keeps its type, for any constants.
THEOREM ControllerTypeCorrect == Spec => []TypeOK
BY InitTypes, NextTypes, PTL DEF Spec
----------------------------------------------------------------------------
(* The invariant. *)

LEMMA InitSteps == Init => StepInv
<1> SUFFICES ASSUME Init PROVE StepInv
  OBVIOUS
<1>1. \A c \in Calls : calls[c].pc = "idle" /\ ~calls[c].heard
  BY IdleFields DEF Init
<1>2. \A v : ~Recorded(v)
  BY DEF Init, Recorded, Files
<1>3. \A n \in Names : ~Settled(n)
  BY DEF Init, Settled
<1> QED BY <1>1, <1>2, <1>3 DEF StepInv, HeardInv, FreshInv, BoundInv, DeletesInv, PlacedInv,
                                Creates, Deletes, At

\* An answer other than that the volume is bound only ends the call.
LEMMA ReplyFades ==
  ASSUME TypeOK, NEW c \in Calls, NEW state \in {"refused", "gone", "error"}, Reply(c, state),
         state = "refused" => Creates(c), state = "gone" => Deletes(c)
  PROVE  /\ \A d \in Calls : Fades(d)
         /\ \A n \in Names : claim'[n] = claim[n] \/ \E d \in Calls : Answers(d, n)
         /\ pv' = pv /\ tries' = tries
<1>1. calls' = [calls EXCEPT ![c] = Idle] /\ calls'[c] = Idle
  BY DEF Reply, TypeOK
<1>2. \A d \in Calls : Fades(d)
  BY <1>1, IdleFields DEF Fades, TypeOK
<1>3. ASSUME NEW n \in Names, claim'[n] # claim[n] PROVE Answers(c, n)
  BY <1>1, <1>3, IdleFields DEF Reply, Answers, TypeOK
<1> QED BY <1>2, <1>3 DEF Reply

\* A creation goes on: its volume keeps the id.
LEMMA CreationMoves ==
  ASSUME TypeOK, StepInv, TypeOK', NEW c \in Calls, Creates(c), Creates(c)',
         \A d \in Calls \ {c} : calls'[d] = calls[d],
         SameId(calls[c].vol, calls'[c].vol), calls'[c].heard = calls[c].heard,
         At(c, "put")' => Placed(calls[c].vol)',
         At(c, "mkdir")' => \E root \in Roots : calls'[c].vol.path = Append(root, Name(c)'),
         UNCHANGED <<provisioner, records>>
  PROVE  StepInv'
<1> USE DEF StepInv, provisioner, records, Name
<1>1. \A v : Recorded(v)' <=> Recorded(v)
  BY DEF Recorded
<1>2. \A n : Settled(n)' <=> Settled(n)
  BY DEF Settled
<1>3. \A d \in Calls : Creates(d)' <=> Creates(d)
  BY DEF Creates
<1>4. ~Deletes(c) /\ ~Deletes(c)' /\ \A d \in Calls \ {c} : Deletes(d)' <=> Deletes(d)
  BY DEF Creates, Deletes
<1>5. \A d \in Calls : SameId(calls[d].vol, calls'[d].vol) /\ calls'[d].heard = calls[d].heard
  BY DEF SameId
<1>6. HeardInv'
  BY <1>3, <1>4, <1>5 DEF HeardInv, SameId, Creates, Deletes
<1>7. FreshInv'
  BY <1>1, <1>2, <1>3, <1>5 DEF FreshInv, SameId, Creates
<1>8. BoundInv'
  BY <1>1, <1>2 DEF BoundInv, SameId
<1>9. DeletesInv'
  BY <1>4 DEF DeletesInv, Deletes, At
<1>10. PlacedInv'
  <2>1. \A v \in Volume : Recorded(v)' => Placed(v)'
    BY <1>1 DEF PlacedInv, Placed
  <2>2. ASSUME NEW d \in Calls, At(d, "put")' \/ At(d, "rmdir")' PROVE Placed(calls[d].vol)'
    <3>1. CASE d = c
      BY <2>2, <3>1 DEF At, Creates
    <3>2. CASE d # c
      BY <2>2, <3>2 DEF PlacedInv, Placed, At
    <3> QED BY <3>1, <3>2
  <2>3. ASSUME NEW d \in Calls, At(d, "mkdir")'
        PROVE  \E root \in Roots : calls'[d].vol.path = Append(root, Name(d)')
    <3>1. CASE d = c
      BY <2>3, <3>1
    <3>2. CASE d # c
      BY <2>3, <3>2 DEF PlacedInv, At
    <3> QED BY <3>1, <3>2
  <2> QED BY <2>1, <2>2, <2>3 DEF PlacedInv, Placed, At
<1> QED BY <1>6, <1>7, <1>8, <1>9, <1>10

LEMMA AskReleaseSteps ==
  ASSUME TypeOK, StepInv, NEW n \in Names, Ask(n) \/ Release(n)
  PROVE  StepInv'
<1> USE DEF StepInv, provisioner, records
<1>1. UNCHANGED <<calls, pv, tries, mem, disk>>
  BY DEF Ask, Release
<1>2. \A v : Recorded(v)' <=> Recorded(v)
  BY <1>1 DEF Recorded
<1>3. \A m \in Names : Settled(m)' <=> Settled(m)
  BY DEF Settled, Ask, Release, TypeOK
<1>4. \A c \in Calls : calls[c].heard => Name(c) # n
  BY DEF HeardInv, Ask, Release
<1>5. \A c \in Calls : Name(c) \in Names
  BY CallFields
<1>6. \A m \in Names \ {n} : claim'[m] = claim[m]
  BY DEF Ask, Release, TypeOK
<1>7. HeardInv'
  BY <1>1, <1>4, <1>5, <1>6 DEF HeardInv, Name, Creates, Deletes
<1>8. FreshInv' /\ BoundInv' /\ PlacedInv'
  <2>1. FreshInv'
    BY <1>1, <1>2, <1>3, <1>5 DEF FreshInv, Name, Creates
  <2>2. BoundInv'
    BY <1>1, <1>2, <1>3 DEF BoundInv
  <2>3. PlacedInv'
    BY <1>1, <1>2 DEF PlacedInv, Placed, At, Name
  <2> QED BY <2>1, <2>2, <2>3
<1>9. DeletesInv'
  <2>1. claim[n] \notin {"deleting", "gone"}
    BY DEF Ask, Release
  <2> QED BY <1>1, <1>5, <1>6, <2>1 DEF DeletesInv, Name, Deletes, At
<1> QED BY <1>7, <1>8, <1>9

\* The call of a claim that waits for none gets a new id, or the one of its volume.
LEMMA RequestSteps ==
  ASSUME TypeOK, StepInv, NEW c \in Calls, NEW n \in Names,
         RequestCreate(c, n) \/ RequestDelete(c, n)
  PROVE  StepInv'
<1> USE DEF StepInv, records
<1>1. UNCHANGED <<claim, pv, mem, disk>> /\ At(c, "idle")
  BY DEF RequestCreate, RequestDelete, Request
<1>2. /\ \A v : Recorded(v)' <=> Recorded(v)
      /\ \A m : Settled(m)' <=> Settled(m)
  BY <1>1 DEF Recorded, Settled
<1>3. \A d \in Calls \ {c} : calls'[d] = calls[d]
  BY DEF RequestCreate, RequestDelete, Request, TypeOK
<1>4. \A d \in Calls : Name(d) = n => ~calls[d].heard
  BY DEF RequestCreate, RequestDelete, Request, Heard
<1>5. calls'[c].vol.name = n /\ calls'[c].heard
  <2>1. \A try : [NoVolume EXCEPT !.name = n, !.try = try].name = n
    BY DEF NoVolume
  <2>2. PICK pc, try : Request(c, n, pc, [NoVolume EXCEPT !.name = n, !.try = try])
    BY DEF RequestCreate, RequestDelete
  <2> QED BY <2>1, <2>2 DEF Request, TypeOK
<1>6. \A d \in Calls : Name(d) \in Names
  BY CallFields
<1>7. CASE RequestCreate(c, n)
  <2>1. calls'[c].vol.try = tries[n] + 1 /\ calls'[c].pc = "configure"
    BY <1>7, IdleFields DEF RequestCreate, Request, TypeOK, Volume
  <2>2. claim[n] \in {"creating", "refused"} /\ ~Settled(n)
    BY <1>7 DEF RequestCreate, Settled
  <2>3. tries'[n] = tries[n] + 1 /\ (\A m \in Names \ {n} : tries'[m] = tries[m])
    BY <1>7 DEF RequestCreate, TypeOK
  <2>4. \A m \in Names : tries[m] \in Nat /\ tries'[m] \in Nat /\ tries[m] <= tries'[m]
    BY <2>3 DEF TypeOK
  <2>5. \A v \in Volume : v.name \in Names /\ v.try \in Nat
    BY DEF Volume
  <2>6. \A d \in Calls : calls[d].vol \in Volume
    BY CallFields
  <2>7. HeardInv'
    BY <1>1, <1>3, <1>4, <1>5, <2>1, <2>2 DEF HeardInv, Name, Creates, Deletes
  <2>8. FreshInv'
    <3>1. \A v \in Volume : Recorded(v)' => v.try <= tries'[v.name]
      BY <1>2, <2>4, <2>5 DEF FreshInv
    <3>2. ASSUME NEW d \in Calls \ {c}, Creates(d)'
          PROVE  /\ Creates(d) /\ Name(d)' = Name(d) /\ calls'[d].vol = calls[d].vol
                 /\ calls'[d].vol.try <= tries'[Name(d)]
                 /\ ~SameId(calls'[d].vol, calls'[c].vol)
      <4>1. Creates(d) /\ calls'[d].vol = calls[d].vol /\ Name(d)' = Name(d)
        BY <1>3, <3>2 DEF Creates, Name
      <4>2. calls[d].vol.try <= tries[Name(d)]
        BY <4>1 DEF FreshInv
      <4>3. calls[d].vol.try \in Nat /\ tries[Name(d)] \in Nat /\ tries[Name(d)] <= tries'[Name(d)]
            /\ tries'[Name(d)] \in Int
        BY <1>6, <2>3, <2>4, <2>5, <2>6
      <4>4. calls'[d].vol.try <= tries'[Name(d)]
        BY <4>1, <4>2, <4>3
      <4>5. ~SameId(calls'[d].vol, calls'[c].vol)
        BY <1>5, <2>1, <4>1, <4>2, <4>3 DEF SameId, Name
      <4> QED BY <4>1, <4>4, <4>5
    <3>3. /\ calls'[c].vol.try <= tries'[n]
          /\ \A v \in Volume : Recorded(v) => ~SameId(v, calls'[c].vol)
      <4>1. tries[n] \in Nat
        BY <2>4
      <4>2. \A v \in Volume : Recorded(v) /\ v.name = n => v.try <= tries[n]
        BY DEF FreshInv
      <4> QED BY <1>5, <2>1, <2>3, <2>5, <4>1, <4>2 DEF SameId
    <3>4. \A d \in Calls \ {c} : ~SameId(calls'[c].vol, calls'[d].vol) \/ ~Creates(d)'
      BY <3>2 DEF SameId
    <3>5. Creates(c)' /\ Name(c)' = n /\ ~Settled(n)'
      BY <1>2, <1>5, <2>1, <2>2 DEF Creates, Name
    <3>6. ASSUME NEW d \in Calls, Creates(d)'
          PROVE  /\ calls'[d].vol.try <= tries'[Name(d)']
                 /\ \A v \in Volume : Recorded(v)' => ~SameId(v, calls'[d].vol)
                 /\ \A e \in Calls : Creates(e)' /\ SameId(calls'[d].vol, calls'[e].vol) => d = e
                 /\ Settled(Name(d))' => ~SameId(calls'[d].vol, pv'[Name(d)'])
      <4>1. CASE d = c
        BY <1>2, <3>3, <3>4, <3>5, <4>1
      <4>2. CASE d # c
        <5>1. Creates(d) /\ calls'[d].vol = calls[d].vol /\ Name(d)' = Name(d)
          BY <3>2, <3>6, <4>2
        <5>2. \A e \in Calls \ {c} : Creates(e)' => Creates(e) /\ calls'[e].vol = calls[e].vol
          BY <3>2
        <5>3. Settled(Name(d))' => Settled(Name(d)) /\ pv'[Name(d)'] = pv[Name(d)]
          BY <1>1, <5>1 DEF Settled
        <5>4. \A e \in Calls : Creates(e)' /\ SameId(calls'[d].vol, calls'[e].vol) => d = e
          BY <3>2, <3>6, <4>2, <5>1, <5>2 DEF FreshInv
        <5> QED BY <1>2, <3>2, <3>6, <4>2, <5>1, <5>3, <5>4 DEF FreshInv
      <4> QED BY <4>1, <4>2
    <3> QED BY <3>1, <3>6 DEF FreshInv, SameId, Creates
  <2>9. BoundInv'
    <3>1. \A m \in Names : Settled(m) => pv[m].try <= tries'[m]
      <4>1. \A m \in Names : pv[m].try \in Nat /\ tries'[m] \in Int
        BY <2>3, <2>4 DEF TypeOK, Volume
      <4> QED BY <2>4, <4>1 DEF BoundInv
    <3> QED BY <1>1, <1>2, <3>1 DEF BoundInv, SameId
  <2>10. DeletesInv'
    BY <1>1, <1>3, <2>1 DEF DeletesInv, Deletes, At, Name
  <2>11. PlacedInv'
    BY <1>2, <1>3, <2>1 DEF PlacedInv, Placed, At, Name
  <2> QED BY <2>7, <2>8, <2>9, <2>10, <2>11
<1>8. CASE RequestDelete(c, n)
  <2>1. calls'[c].vol.try = pv[n].try /\ calls'[c].pc = "pop"
    BY <1>8, IdleFields DEF RequestDelete, Request, TypeOK, Volume
  <2>2. claim[n] = "deleting" /\ tries' = tries
    BY <1>8 DEF RequestDelete
  <2>3. HeardInv'
    BY <1>1, <1>3, <1>4, <1>5, <2>1, <2>2 DEF HeardInv, Name, Creates, Deletes
  <2>4. FreshInv'
    BY <1>1, <1>2, <1>3, <1>6, <2>1, <2>2 DEF FreshInv, SameId, Creates, Name
  <2>5. BoundInv'
    BY <1>1, <1>2, <2>2 DEF BoundInv, SameId
  <2>6. DeletesInv'
    BY <1>1, <1>3, <1>5, <2>1, <2>2 DEF DeletesInv, Deletes, At, Name
  <2>7. PlacedInv'
    BY <1>2, <1>3, <2>1 DEF PlacedInv, Placed, At, Name
  <2> QED BY <2>3, <2>4, <2>5, <2>6, <2>7
<1> QED BY <1>7, <1>8

LEMMA ConfigureSteps ==
  ASSUME TypeOK, StepInv, TypeOK', NEW c \in Calls, Configure(c)
  PROVE  StepInv'
<1>1. PICK entry \in Decides :
        /\ entry[1] = <<site, class[Name(c)], Name(c)>>
        /\ \/ entry[2].refused /\ Reply(c, "refused")
           \/ /\ ~entry[2].refused
              /\ calls' = [calls EXCEPT ![c] = Decided(calls[c], entry[2])]
              /\ UNCHANGED provisioner
  BY DEF Configure
<1>2. UNCHANGED records /\ At(c, "configure") /\ Creates(c)
  BY DEF Configure, At, Creates
<1>3. CASE Reply(c, "refused")
  <2>1. FewerRecords
    BY <1>2 DEF FewerRecords, Recorded, records
  <2> QED BY <1>2, <1>3, <2>1, ReplyFades, FadingKeeps
<1>4. CASE ~entry[2].refused /\ calls' = [calls EXCEPT ![c] = Decided(calls[c], entry[2])]
           /\ UNCHANGED provisioner
  <2>1. calls'[c] = Decided(calls[c], entry[2]) /\ \A d \in Calls \ {c} : calls'[d] = calls[d]
    BY <1>4 DEF TypeOK
  <2>2. /\ calls'[c].vol.name = calls[c].vol.name /\ calls'[c].vol.try = calls[c].vol.try
        /\ calls'[c].vol.path = entry[2].path /\ calls'[c].vol.retain = entry[2].retain
        /\ calls'[c].heard = calls[c].heard
        /\ calls'[c].pc = IF entry[2].mkdir THEN "mkdir" ELSE "put"
    <3>1. calls[c] \in Call /\ calls[c].vol \in Volume
      BY CallFields
    <3> DEFINE vol == [calls[c].vol EXCEPT !.path = entry[2].path, !.retain = entry[2].retain]
    <3>2. /\ vol.name = calls[c].vol.name /\ vol.try = calls[c].vol.try
          /\ vol.path = entry[2].path /\ vol.retain = entry[2].retain
      BY <3>1 DEF Volume
    <3> HIDE DEF vol
    <3>3. calls'[c] = [calls[c] EXCEPT !.pc = IF entry[2].mkdir THEN "mkdir" ELSE "put",
                                       !.vol = vol, !.anonymous = entry[2].anonymous]
      BY <2>1 DEF Decided, vol
    <3>4. /\ calls'[c].vol = vol /\ calls'[c].heard = calls[c].heard
          /\ calls'[c].pc = IF entry[2].mkdir THEN "mkdir" ELSE "put"
      BY <3>1, <3>3 DEF Call
    <3> QED BY <3>2, <3>4
  <2>3. entry[1][3] = Name(c)
    BY <1>1
  <2>4. Creates(c)' /\ SameId(calls[c].vol, calls'[c].vol)
    BY <2>2 DEF Creates, SameId
  <2>5. CASE entry[2].mkdir
    <3>1. \E root \in Roots : calls'[c].vol.path = Append(root, Name(c)')
      BY <1>4, <2>2, <2>3, <2>5, DecisionPlaces DEF Name
    <3>2. ~At(c, "put")'
      BY <2>2, <2>5 DEF At
    <3> QED BY <1>2, <1>4, <2>1, <2>2, <2>4, <3>1, <3>2, CreationMoves
  <2>6. CASE ~entry[2].mkdir
    <3>1. Placed(calls[c].vol)'
      BY <1>4, <2>2, <2>6, DecisionPlaces DEF Placed
    <3>2. ~At(c, "mkdir")'
      BY <2>2, <2>6 DEF At
    <3> QED BY <1>2, <1>4, <2>1, <2>2, <2>4, <3>1, <3>2, CreationMoves
  <2> QED BY <2>5, <2>6
<1> QED BY <1>1, <1>3, <1>4

LEMMA MakeDirSteps ==
  ASSUME TypeOK, StepInv, TypeOK', NEW c \in Calls, MakeDir(c)
  PROVE  StepInv'
<1>1. UNCHANGED records /\ At(c, "mkdir") /\ Creates(c)
  BY DEF MakeDir, At, Creates
<1>2. CASE Reply(c, "error")
  <2>1. FewerRecords
    BY <1>1 DEF FewerRecords, Recorded, records
  <2> QED BY <1>2, <2>1, ReplyFades, FadingKeeps
<1>3. CASE Goto(c, "put")
  <2>1. /\ calls'[c].vol = calls[c].vol /\ calls'[c].heard = calls[c].heard
        /\ calls'[c].pc = "put" /\ \A d \in Calls \ {c} : calls'[d] = calls[d]
    BY <1>3, CallFields DEF Goto, TypeOK, Call
  <2>2. Placed(calls[c].vol)' /\ Creates(c)' /\ ~At(c, "mkdir")'
    <3>1. \E root \in Roots : calls[c].vol.path = Append(root, calls[c].vol.name)
      BY <1>1 DEF StepInv, PlacedInv, Name
    <3>2. Placed(calls[c].vol)'
      BY <2>1, <3>1 DEF Placed
    <3> QED BY <2>1, <3>2 DEF Creates, At
  <2>3. SameId(calls[c].vol, calls'[c].vol)
    BY <2>1 DEF SameId
  <2> QED BY <1>1, <1>3, <2>1, <2>2, <2>3, CreationMoves DEF Goto
<1> QED BY <1>2, <1>3 DEF MakeDir

\* The new record, with an id of its own, is the record of the volume it may bind.
LEMMA PutRecordSteps ==
  ASSUME TypeOK, StepInv, TypeOK', NEW c \in Calls, PutRecord(c)
  PROVE  StepInv'
<1> USE DEF StepInv
<1>1. At(c, "put") /\ Creates(c) /\ ~Deletes(c)
  BY DEF PutRecord, At, Creates, Deletes
<1>2. CASE Reply(c, "refused") /\ UNCHANGED records
  <2>1. FewerRecords
    BY <1>2 DEF FewerRecords, Recorded, records
  <2> QED BY <1>1, <1>2, <2>1, ReplyFades, FadingKeeps
<1>3. ASSUME NEW state \in {"bound", "error"}, Reply(c, state),
             LET with == mem[calls[c].at] \cup {calls[c].vol} IN
             Saved(calls[c].at, with) \/ NotSaved(calls[c].at, with)
      PROVE  StepInv'
  <2>1. \A v : Recorded(v)' => Recorded(v) \/ v = calls[c].vol
    <3>1. calls[c].at \in Replicas /\ mem \in [Replicas -> SUBSET Volume]
          /\ disk \in [Files -> SUBSET Volume]
      BY CallFields DEF TypeOK, Files
    <3> QED BY <1>3, <3>1 DEF Recorded, Saved, NotSaved
  <2>2. /\ calls'[c].pc = "idle" /\ ~calls'[c].heard /\ tries' = tries
        /\ \A d \in Calls \ {c} : calls'[d] = calls[d]
    BY <1>3, IdleFields DEF Reply, TypeOK
  <2>3. \A d \in Calls : calls[d].vol \in Volume /\ Name(d) \in Names
    BY CallFields
  <2>4. \A n \in Names : \/ claim'[n] = claim[n] /\ pv'[n] = pv[n]
                         \/ /\ calls[c].heard /\ n = Name(c)
                            /\ claim'[n] = "bound" /\ pv'[n] = calls[c].vol
    BY <1>3 DEF Reply, TypeOK
  <2>5. \A d \in Calls : (Creates(d)' => Creates(d) /\ d # c) /\ (Deletes(d)' => Deletes(d) /\ d # c)
    BY <2>2 DEF Creates, Deletes
  <2>6. \A d \in Calls \ {c} : calls[c].heard /\ calls[d].heard => Name(d) # Name(c)
    BY DEF HeardInv
  <2>7. HeardInv'
    BY <2>2, <2>3, <2>4, <2>6 DEF HeardInv, Name, Creates, Deletes
  <2>8. FreshInv'
    <3>1. \A v \in Volume : Recorded(v)' => v.try <= tries'[v.name]
      BY <1>1, <2>1, <2>2 DEF FreshInv, Name
    <3>2. ASSUME NEW d \in Calls, Creates(d)'
          PROVE  /\ calls'[d].vol.try <= tries'[Name(d)']
                 /\ \A v \in Volume : Recorded(v)' => ~SameId(v, calls'[d].vol)
                 /\ \A e \in Calls : Creates(e)' /\ SameId(calls'[d].vol, calls'[e].vol) => d = e
                 /\ Settled(Name(d))' => ~SameId(calls'[d].vol, pv'[Name(d)'])
      <4>1. Creates(d) /\ d # c /\ calls'[d] = calls[d] /\ Name(d)' = Name(d)
        BY <2>2, <2>5, <3>2 DEF Name
      <4>2. ~SameId(calls[c].vol, calls[d].vol) /\ ~SameId(calls[d].vol, calls[c].vol)
        BY <1>1, <4>1 DEF FreshInv
      <4>3. \A v \in Volume : Recorded(v)' => ~SameId(v, calls'[d].vol)
        BY <2>1, <4>1, <4>2 DEF FreshInv
      <4>4. \A e \in Calls : Creates(e)' /\ SameId(calls'[d].vol, calls'[e].vol) => d = e
        BY <2>2, <2>5, <4>1 DEF FreshInv
      <4>5. Settled(Name(d))' => ~SameId(calls'[d].vol, pv'[Name(d)'])
        BY <2>3, <2>4, <4>1, <4>2 DEF FreshInv, Settled
      <4> QED BY <2>2, <4>1, <4>3, <4>4, <4>5 DEF FreshInv
    <3> QED BY <3>1, <3>2 DEF FreshInv, SameId, Creates
  <2>9. BoundInv'
    <3>1. ASSUME NEW n \in Names, Settled(n)'
          PROVE  /\ pv'[n].name = n /\ pv'[n].try <= tries'[n]
                 /\ \A v \in Volume : Recorded(v)' /\ SameId(v, pv'[n]) => v = pv'[n]
      <4>1. CASE claim'[n] = claim[n] /\ pv'[n] = pv[n]
        <5>1. Settled(n)
          BY <3>1, <4>1 DEF Settled
        <5>2. ~SameId(calls[c].vol, pv[n])
          BY <1>1, <5>1 DEF FreshInv, BoundInv, SameId, Name
        <5> QED BY <2>1, <2>2, <4>1, <5>1, <5>2 DEF BoundInv
      <4>2. CASE n = Name(c) /\ pv'[n] = calls[c].vol
        <5>1. calls[c].vol.name = n /\ calls[c].vol.try <= tries[n]
          BY <1>1, <4>2 DEF FreshInv, Name
        <5>2. \A v \in Volume : Recorded(v) => ~SameId(v, calls[c].vol)
          BY <1>1 DEF FreshInv
        <5> QED BY <2>1, <2>2, <4>2, <5>1, <5>2
      <4> QED BY <2>4, <4>1, <4>2
    <3> QED BY <3>1 DEF BoundInv, SameId, Settled
  <2>10. DeletesInv'
    <3>1. ASSUME NEW d \in Calls, Deletes(d)'
          PROVE  /\ Deletes(d) /\ calls'[d] = calls[d] /\ Name(d)' = Name(d)
                 /\ claim'[Name(d)] = claim[Name(d)] /\ pv'[Name(d)] = pv[Name(d)]
      <4>1. Deletes(d) /\ d # c /\ calls'[d] = calls[d] /\ Name(d)' = Name(d)
        BY <2>2, <2>5, <3>1 DEF Name
      <4>2. claim[Name(d)] \in {"deleting", "gone"}
        BY <4>1 DEF DeletesInv
      <4>3. ~(calls[c].heard /\ Name(d) = Name(c))
        BY <1>1, <4>2 DEF HeardInv
      <4> QED BY <2>3, <2>4, <4>1, <4>3
    <3> QED BY <3>1 DEF DeletesInv, Deletes, At, Name
  <2>11. PlacedInv'
    <3>1. Placed(calls[c].vol)
      BY <1>1 DEF PlacedInv
    <3>2. \A v \in Volume : Recorded(v)' => Placed(v)'
      BY <2>1, <3>1 DEF PlacedInv, Placed
    <3> QED BY <2>2, <3>2 DEF PlacedInv, Placed, At, Name
  <2> QED BY <2>7, <2>8, <2>9, <2>10, <2>11
<1> QED BY <1>2, <1>3 DEF PutRecord

\* What a deletion finds is the volume of the claim, and it leaves the records.
LEMMA PopRecordSteps ==
  ASSUME TypeOK, StepInv, TypeOK', NEW c \in Calls, PopRecord(c)
  PROVE  StepInv'
<1> USE DEF StepInv
<1>1. At(c, "pop") /\ Deletes(c) /\ ~Creates(c)
  BY DEF PopRecord, At, Creates, Deletes
<1>2. calls[c].at \in Replicas /\ calls[c].vol \in Volume /\ Name(c) \in Names
  BY CallFields
<1>3. FewerRecords
  <2>1. CASE UNCHANGED records
    BY <2>1 DEF FewerRecords, Recorded, records
  <2>2. CASE \E v \in Found(c) : \/ Saved(calls[c].at, mem[calls[c].at] \ {v})
                                 \/ NotSaved(calls[c].at, mem[calls[c].at] \ {v})
    <3>1. mem \in [Replicas -> SUBSET Volume] /\ disk \in [Files -> SUBSET Volume]
      BY DEF TypeOK, Files
    <3> QED BY <1>2, <2>2, <3>1 DEF FewerRecords, Recorded, Saved, NotSaved
  <2> QED BY <2>1, <2>2 DEF PopRecord
<1>4. CASE \E state \in {"gone", "error"} : Reply(c, state)
  BY <1>1, <1>3, <1>4, ReplyFades, FadingKeeps
<1>5. ASSUME NEW v \in Found(c), ~Retains(v),
             calls' = [calls EXCEPT ![c].pc = "rmdir", ![c].vol = v], UNCHANGED provisioner
      PROVE  StepInv'
  <2>1. v \in Volume /\ Recorded(v) /\ SameId(v, calls[c].vol)
    BY <1>2 DEF Found, Recorded, TypeOK
  <2>2. claim[Name(c)] \in {"deleting", "gone"} /\ calls[c].vol.try = pv[Name(c)].try
    BY <1>1 DEF DeletesInv
  <2>3. v = pv[Name(c)]
    <3>1. Settled(Name(c)) /\ pv[Name(c)].name = Name(c)
      BY <1>2, <2>2 DEF Settled, BoundInv
    <3>2. SameId(v, pv[Name(c)])
      BY <2>1, <2>2, <3>1 DEF SameId, Name
    <3> QED BY <1>2, <2>1, <3>1, <3>2 DEF BoundInv
  <2>4. Placed(v) /\ ~v.retain
    BY <1>5, <2>1 DEF PlacedInv, Retains
  <2>5. /\ calls'[c].pc = "rmdir" /\ calls'[c].vol = v /\ calls'[c].heard = calls[c].heard
        /\ \A d \in Calls \ {c} : calls'[d] = calls[d]
    BY <1>5, CallFields DEF TypeOK, Call
  <2>6. UNCHANGED <<claim, pv, tries>>
    BY <1>5 DEF provisioner
  <2>7. Name(c)' = Name(c)
    BY <2>1, <2>5 DEF Name, SameId
  <2>8. \A d \in Calls : /\ Creates(d)' => Creates(d) /\ d # c
                         /\ Name(d)' = Name(d) /\ calls'[d].heard = calls[d].heard
    BY <2>5, <2>7 DEF Creates, Name
  <2>9. HeardInv'
    <3>1. Deletes(c)' /\ \A d \in Calls \ {c} : Deletes(d) => Deletes(d)'
      BY <2>5 DEF Deletes
    <3>2. \A d \in Calls \ {c} : Creates(d) => Creates(d)'
      BY <2>5 DEF Creates
    <3> QED BY <1>1, <2>6, <2>8, <3>1, <3>2 DEF HeardInv, Name, Creates, Deletes
  <2>10. FreshInv'
    <3>1. \A w \in Volume : Recorded(w)' => w.try <= tries'[w.name]
      BY <1>3, <2>6 DEF FreshInv, FewerRecords
    <3>2. ASSUME NEW d \in Calls, Creates(d)'
          PROVE  /\ calls'[d].vol.try <= tries'[Name(d)']
                 /\ \A w \in Volume : Recorded(w)' => ~SameId(w, calls'[d].vol)
                 /\ \A e \in Calls : Creates(e)' /\ SameId(calls'[d].vol, calls'[e].vol) => d = e
                 /\ Settled(Name(d))' => ~SameId(calls'[d].vol, pv'[Name(d)'])
      <4>1. Creates(d) /\ calls'[d] = calls[d] /\ Name(d)' = Name(d)
        BY <2>5, <2>8, <3>2
      <4>2. \A e \in Calls : Creates(e)' => Creates(e) /\ calls'[e] = calls[e]
        BY <2>5, <2>8
      <4>3. Settled(Name(d))' <=> Settled(Name(d))
        BY <2>6, <4>1 DEF Settled
      <4> QED BY <1>3, <2>6, <4>1, <4>2, <4>3 DEF FreshInv, FewerRecords
    <3> QED BY <3>1, <3>2 DEF FreshInv, SameId, Creates
  <2>11. BoundInv'
    BY <1>3, <2>6 DEF BoundInv, FewerRecords, SameId, Settled
  <2>12. DeletesInv'
    <3>1. ASSUME NEW d \in Calls, Deletes(d)'
          PROVE  /\ claim'[Name(d)'] \in {"deleting", "gone"}
                 /\ calls'[d].vol.try = pv'[Name(d)'].try
                 /\ At(d, "rmdir")' => calls'[d].vol = pv'[Name(d)'] /\ ~calls'[d].vol.retain
      <4>1. CASE d = c
        BY <2>2, <2>3, <2>4, <2>5, <2>6, <2>7, <4>1
      <4>2. CASE d # c
        BY <2>5, <2>6, <2>8, <3>1, <4>2 DEF DeletesInv, Deletes, At
      <4> QED BY <4>1, <4>2
    <3> QED BY <3>1 DEF DeletesInv, Deletes, At, Name
  <2>13. PlacedInv'
    <3>1. \A w \in Volume : Recorded(w)' => Placed(w)'
      BY <1>3 DEF PlacedInv, FewerRecords, Placed
    <3>2. ASSUME NEW d \in Calls, At(d, "put")' \/ At(d, "rmdir")' PROVE Placed(calls'[d].vol)
      <4>1. CASE d = c
        BY <2>4, <2>5, <4>1
      <4>2. CASE d # c
        BY <2>5, <3>2, <4>2 DEF PlacedInv, At
      <4> QED BY <4>1, <4>2
    <3>3. \A d \in Calls : At(d, "mkdir")' =>
            \E root \in Roots : calls'[d].vol.path = Append(root, Name(d)')
      BY <2>5, <2>8 DEF PlacedInv, At
    <3> QED BY <3>1, <3>2, <3>3 DEF PlacedInv, Placed, At, Name
  <2> QED BY <2>9, <2>10, <2>11, <2>12, <2>13
<1> QED BY <1>4, <1>5 DEF PopRecord, NothingToDelete

LEMMA RemoveDirSteps ==
  ASSUME TypeOK, StepInv, TypeOK', NEW c \in Calls, RemoveDir(c)
  PROVE  StepInv'
<1>1. Deletes(c)
  BY DEF RemoveDir, At, Deletes
<1>2. FewerRecords
  BY DEF RemoveDir, FewerRecords, Recorded, records
<1>3. \E state \in {"gone", "error"} : Reply(c, state)
  BY DEF RemoveDir
<1> QED BY <1>1, <1>2, <1>3, ReplyFades, FadingKeeps

\* What a restart finds was recorded before.
LEMMA FaultSteps ==
  ASSUME TypeOK, StepInv, TypeOK',
         (\E c \in Calls : Timeout(c)) \/ (\E r \in Replicas : Crash(r) \/ Failover(r))
  PROVE  StepInv'
<1> USE DEF provisioner, records
<1>1. claim' = claim /\ pv' = pv /\ tries' = tries
  BY DEF Timeout, Crash, Failover
<1>2. \A d \in Calls : Fades(d)
  <2>1. \A d \in Calls : calls'[d] \in {calls[d], Idle, [calls[d] EXCEPT !.heard = FALSE]}
    BY DEF Timeout, Crash, Failover, TypeOK
  <2>2. \A d \in Calls : LET quiet == [calls[d] EXCEPT !.heard = FALSE]
                         IN quiet.pc = calls[d].pc /\ quiet.vol = calls[d].vol /\ ~quiet.heard
    BY DEF TypeOK, Call
  <2> QED BY <2>1, <2>2, IdleFields DEF Fades
<1>3. FewerRecords
  <2>1. CASE UNCHANGED records
    BY <2>1 DEF FewerRecords, Recorded
  <2>2. CASE \E r \in Replicas : Crash(r)
    <3>1. PICK r \in Replicas : Crash(r)
      BY <2>2
    <3>2. disk \in [Files -> SUBSET Volume] /\ mem \in [Replicas -> SUBSET Volume]
          /\ File[r] \in Files
      BY DEF TypeOK, Files
    <3>3. \A f \in Files : disk'[f] \subseteq disk[f]
      BY <3>1, <3>2 DEF Crash
    <3>4. mem' = [mem EXCEPT ![r] = disk'[File[r]]]
      BY <3>1 DEF Crash
    <3> QED BY <3>2, <3>3, <3>4 DEF FewerRecords, Recorded
  <2> QED BY <2>1, <2>2 DEF Timeout, Failover
<1> QED BY <1>1, <1>2, <1>3, FadingKeeps

LEMMA NextSteps == TypeOK /\ StepInv /\ [Next]_vars => StepInv'
<1> SUFFICES ASSUME TypeOK, StepInv, [Next]_vars PROVE StepInv'
  OBVIOUS
<1>1. TypeOK'
  BY NextTypes
<1>2. CASE UNCHANGED vars
  <2>1. pv' = pv /\ tries' = tries /\ claim' = claim /\ FewerRecords
    BY <1>2 DEF vars, provisioner, records, FewerRecords, Recorded
  <2>2. \A d \in Calls : Fades(d)
    BY <1>2 DEF vars, Fades
  <2> QED BY <1>1, <2>1, <2>2, FadingKeeps
<1>3. ASSUME NEW n \in Names, Ask(n) \/ Release(n) PROVE StepInv'
  BY <1>3, AskReleaseSteps
<1>4. CASE Provisioner
  BY <1>4, RequestSteps DEF Provisioner
<1>5. ASSUME NEW c \in Calls, Handler(c) PROVE StepInv'
  BY <1>1, <1>5, ConfigureSteps, MakeDirSteps, PutRecordSteps, PopRecordSteps, RemoveDirSteps
     DEF Handler
<1>6. CASE (\E c \in Calls : Timeout(c)) \/ (\E r \in Replicas : Crash(r) \/ Failover(r))
  BY <1>1, <1>6, FaultSteps
<1> QED BY <1>2, <1>3, <1>4, <1>5, <1>6 DEF Next

LEMMA ControllerInvariant == Spec => []CInv
<1>1. Init => CInv
  BY InitTypes, InitSteps DEF CInv
<1>2. CInv /\ [Next]_vars => CInv'
  BY NextTypes, NextSteps DEF CInv
<1> QED BY <1>1, <1>2, PTL DEF Spec

\* How a step changes the collections.
LEMMA DirsStep ==
  ASSUME CInv, [Next]_vars, NEW p \in Paths
  PROVE  \/ dirs'[p] = dirs[p]
         \/ dirs[p] = "absent" /\ dirs'[p] = "whole"
         \/ MayGo(p)
<1> USE DEF CInv, StepInv
<1> SUFFICES ASSUME dirs'[p] # dirs[p]
             PROVE  (dirs[p] = "absent" /\ dirs'[p] = "whole") \/ MayGo(p)
  OBVIOUS
<1>1. PICK c \in Calls : MakeDir(c) \/ RemoveDir(c)
  BY DEF Next, vars, Ask, Release, Provisioner, RequestCreate, RequestDelete,
         Request, Handler, Configure, PutRecord, PopRecord, Timeout, Crash, Failover
<1>2. CASE MakeDir(c)
  BY <1>2 DEF MakeDir, Made, TypeOK
<1>3. CASE RemoveDir(c)
  <2>1. p = calls[c].vol.path
    BY <1>3 DEF RemoveDir, TypeOK
  <2>2. At(c, "rmdir") /\ Deletes(c)
    BY <1>3 DEF RemoveDir, At, Deletes
  <2>3. /\ Name(c) \in Names /\ claim[Name(c)] \in {"deleting", "gone"}
        /\ calls[c].vol = pv[Name(c)] /\ ~calls[c].vol.retain
    BY <2>2, CallFields DEF DeletesInv
  <2>4. \E root \in Roots : p = Append(root, Name(c))
    BY <2>1, <2>2, <2>3 DEF PlacedInv, Placed, Name
  <2> QED BY <2>1, <2>3, <2>4 DEF MayGo
<1> QED BY <1>1, <1>2, <1>3

\* Whatever fails, restarts or comes late, no collection loses anything but the
\* directory of a released volume that is not retained.
THEOREM ControllerDeletesNothingElse == Spec => NothingElseDeleted
<1>1. CInv /\ [Next]_vars => [\A p \in Paths : dirs[p] = "whole" /\ dirs'[p] # "whole" => MayGo(p)]_vars
  BY DirsStep
<1> QED BY <1>1, ControllerInvariant, PTL DEF Spec, NothingElseDeleted
----------------------------------------------------------------------------
(* The life cycle. *)

\* Roots are never touched, a directory is complete until its claim is released,
\* and so is the one a call is about to bind.
LifeInv ==
  /\ \A root \in Roots : dirs[root] = "whole"
  /\ \A n \in Names, root \in Roots :
       claim[n] \notin {"deleting", "gone"} => dirs[Append(root, n)] # "part"
  /\ \A c \in Calls : ~At(c, "idle") => claim[Name(c)] # "none"
  /\ \A c \in Calls : At(c, "put") /\ calls[c].heard => dirs[calls[c].vol.path] = "whole"

LEMMA InitLife == Init => LifeInv
<1> SUFFICES ASSUME Init PROVE LifeInv
  OBVIOUS
<1>1. \A n \in Names, root \in Roots : Append(root, n) \in Paths
  BY OwnDirectory
<1>2. \A c \in Calls : At(c, "idle")
  BY IdleFields DEF Init, At
<1>3. \A p \in Paths : dirs[p] # "part"
  BY DEF Init
<1>4. \A root \in Roots : dirs[root] = "whole"
  BY DEF Init, Paths
<1> QED BY <1>1, <1>2, <1>3, <1>4 DEF LifeInv, At

\* A claim only goes forward.
LEMMA ClaimsGoForward ==
  ASSUME CInv, [Next]_vars, NEW n \in Names
  PROVE  /\ claim[n] # "none" => claim'[n] # "none"
         /\ claim[n] \in {"deleting", "gone"} => claim'[n] \in {"deleting", "gone"}
<1> USE DEF CInv, StepInv, provisioner
<1>1. ASSUME NEW c \in Calls, NEW state \in {"error", "gone", "refused", "bound"}, Reply(c, state),
             state \in {"refused", "bound"} => Creates(c)
      PROVE  \/ claim'[n] \in {claim[n], "gone"}
             \/ claim'[n] # "none" /\ claim[n] \in {"creating", "refused"}
  <2>1. CASE Name(c) = n /\ calls[c].heard /\ state \in {"refused", "bound"}
    <3>1. claim[n] \in {"creating", "refused"}
      BY <1>1, <2>1 DEF HeardInv, Creates, Deletes
    <3>2. claim'[n] = state
      BY <1>1, <2>1 DEF Reply, TypeOK
    <3> QED BY <2>1, <3>1, <3>2
  <2>2. CASE ~(Name(c) = n /\ calls[c].heard /\ state \in {"refused", "bound"})
    BY <1>1, <2>2 DEF Reply, TypeOK
  <2> QED BY <2>1, <2>2
<1>2. ASSUME NEW m \in Names, Ask(m) \/ Release(m)
      PROVE  \/ claim'[n] \in {claim[n], "deleting"}
             \/ claim[n] = "none" /\ claim'[n] = "creating"
  BY <1>2 DEF Ask, Release, TypeOK
<1>3. ASSUME NEW c \in Calls, Handler(c)
      PROVE  claim' = claim \/ \E state \in {"error", "gone", "refused", "bound"} :
                Reply(c, state) /\ (state \in {"refused", "bound"} => Creates(c))
  BY <1>3 DEF Handler, Configure, MakeDir, PutRecord, PopRecord, RemoveDir, NothingToDelete, Goto,
              Creates, At
<1>4. CASE claim' = claim
  BY <1>4
<1>5. claim' = claim \/ (\E m \in Names : Ask(m) \/ Release(m)) \/ (\E c \in Calls : Handler(c))
  BY DEF Next, vars, Provisioner, RequestCreate, RequestDelete, Request, Timeout, Crash, Failover
<1> QED BY <1>1, <1>2, <1>3, <1>4, <1>5

\* A fault stops a call, or leaves it as it is with nobody to hear its answer.
LEMMA FaultCalls ==
  ASSUME TypeOK, NEW c \in Calls,
         (\E d \in Calls : Timeout(d)) \/ (\E r \in Replicas : Crash(r) \/ Failover(r))
  PROVE  calls'[c] \in {calls[c], Idle, [calls[c] EXCEPT !.heard = FALSE]}
<1>1. ASSUME NEW d \in Calls, Timeout(d)
      PROVE  calls'[c] \in {calls[c], [calls[c] EXCEPT !.heard = FALSE]}
  <2>1. calls \in [Calls -> Call] /\ calls' = [calls EXCEPT ![d].heard = FALSE]
    BY <1>1 DEF Timeout, TypeOK
  <2>2. CASE d = c
    BY <2>1, <2>2
  <2>3. CASE d # c
    BY <2>1, <2>3
  <2> QED BY <2>2, <2>3
<1>2. ASSUME NEW r \in Replicas, Crash(r)
      PROVE  calls'[c] \in {calls[c], Idle}
  BY <1>2 DEF Crash
<1>3. ASSUME NEW r \in Replicas, Failover(r)
      PROVE  calls'[c] = [calls[c] EXCEPT !.heard = FALSE]
  BY <1>3 DEF Failover
<1> QED BY <1>1, <1>2, <1>3

\* A call that is about to bind a volume was so before, or has just had its
\* directory made, or has the root.
LEMMA AboutToBind ==
  ASSUME CInv, [Next]_vars, NEW c \in Calls, At(c, "put")', calls'[c].heard
  PROVE  /\ calls[c].heard
         /\ \/ At(c, "put") /\ calls'[c].vol = calls[c].vol
            \/ calls'[c].vol.path \in Roots
            \/ dirs' = Made(calls[c].vol.path) /\ calls'[c].vol = calls[c].vol
<1> USE DEF CInv, StepInv
<1>1. CASE calls'[c] = calls[c]
  BY <1>1 DEF At
<1>2. ASSUME NEW d \in Calls, NEW n \in Names, RequestCreate(d, n) \/ RequestDelete(d, n)
      PROVE  calls'[c] = calls[c]
  <2>1. PICK pc, vol : pc # "put" /\ Request(d, n, pc, vol)
    BY <1>2 DEF RequestCreate, RequestDelete
  <2>2. d # c
    BY <2>1 DEF Request, At, TypeOK
  <2> QED BY <2>1, <2>2 DEF Request, TypeOK
<1>3. ASSUME NEW d \in Calls, Handler(d), calls'[c] # calls[c]
      PROVE  /\ d = c /\ calls[c].heard
             /\ \/ calls'[c].vol.path \in Roots
                \/ dirs' = Made(calls[c].vol.path) /\ calls'[c].vol = calls[c].vol
  <2>1. ASSUME NEW state, Reply(d, state) PROVE FALSE
    <3>1. calls'[c] = Idle
      BY <1>3, <2>1 DEF Reply, TypeOK
    <3> QED BY <3>1, IdleFields DEF At
  <2>2. ~PutRecord(d)
    BY <2>1 DEF PutRecord
  <2>3. ~RemoveDir(d)
    BY <2>1 DEF RemoveDir
  <2>4. ~PopRecord(d)
    <3>1. ASSUME NEW v, calls' = [calls EXCEPT ![d].pc = "rmdir", ![d].vol = v] PROVE FALSE
      BY <1>3, <3>1 DEF At, TypeOK, Call
    <3> QED BY <2>1, <3>1 DEF PopRecord, NothingToDelete
  <2>5. CASE MakeDir(d)
    <3>1. Goto(d, "put") /\ dirs' = Made(calls[d].vol.path)
      BY <2>1, <2>5 DEF MakeDir
    <3>2. d = c /\ calls'[c].vol = calls[c].vol /\ calls'[c].heard = calls[c].heard
      BY <1>3, <3>1, CallFields DEF Goto, TypeOK, Call
    <3> QED BY <3>1, <3>2
  <2>6. CASE Configure(d)
    <3>1. PICK entry \in Decides :
            /\ ~entry[2].refused
            /\ calls' = [calls EXCEPT ![d] = Decided(calls[d], entry[2])]
      BY <2>1, <2>6 DEF Configure
    <3>2. d = c /\ calls'[c] = Decided(calls[c], entry[2])
      BY <1>3, <3>1 DEF TypeOK
    <3>3. calls'[c].pc = (IF entry[2].mkdir THEN "mkdir" ELSE "put")
          /\ calls'[c].heard = calls[c].heard
      BY <3>2, CallFields DEF Decided, Call
    <3>4. calls'[c].vol = [calls[c].vol EXCEPT !.path = entry[2].path, !.retain = entry[2].retain]
      BY <3>2, CallFields DEF Decided, Call
    <3>5. calls'[c].vol.path = entry[2].path
      BY <3>4, CallFields DEF Volume
    <3>6. ~entry[2].mkdir
      BY <3>3 DEF At
    <3>7. entry[2].path \in Roots
      BY <3>1, <3>6, DecisionPlaces
    <3> QED BY <3>2, <3>3, <3>5, <3>7
  <2> QED BY <1>3, <2>2, <2>3, <2>4, <2>5, <2>6 DEF Handler
<1>4. ASSUME (\E d \in Calls : Timeout(d)) \/ (\E r \in Replicas : Crash(r) \/ Failover(r))
      PROVE  calls'[c] = calls[c]
  <2>1. calls'[c] \in {calls[c], Idle, [calls[c] EXCEPT !.heard = FALSE]}
    BY <1>4, FaultCalls
  <2>2. [calls[c] EXCEPT !.heard = FALSE].heard = FALSE
    BY CallFields DEF Call
  <2> QED BY <2>1, <2>2, IdleFields
<1>5. CASE UNCHANGED calls
  BY <1>1, <1>5
<1>6. CASE Provisioner
  BY <1>1, <1>2, <1>6 DEF Provisioner
<1>7. CASE \E d \in Calls : Handler(d)
  BY <1>1, <1>3, <1>7
<1>8. CASE (\E d \in Calls : Timeout(d)) \/ (\E r \in Replicas : Crash(r) \/ Failover(r))
  BY <1>1, <1>4, <1>8
<1> QED BY <1>5, <1>6, <1>7, <1>8 DEF Next, vars, Ask, Release

LEMMA StillAsked ==
  ASSUME CInv, LifeInv, [Next]_vars, NEW c \in Calls, ~At(c, "idle")'
  PROVE  claim'[Name(c)'] # "none"
<1> USE DEF CInv, StepInv
<1>1. CASE ~At(c, "idle") /\ Name(c)' = Name(c)
  BY <1>1, CallFields, ClaimsGoForward DEF LifeInv
<1>2. ASSUME NEW d \in Calls, NEW n \in Names, RequestCreate(d, n) \/ RequestDelete(d, n)
      PROVE  \/ ~At(c, "idle") /\ Name(c)' = Name(c)
             \/ claim'[Name(c)'] # "none"
  <2>1. PICK pc, try : Request(d, n, pc, [NoVolume EXCEPT !.name = n, !.try = try])
    BY <1>2 DEF RequestCreate, RequestDelete
  <2>2. claim'[n] # "none"
    BY <1>2 DEF RequestCreate, RequestDelete, Request
  <2>3. [NoVolume EXCEPT !.name = n, !.try = try].name = n
    BY DEF NoVolume
  <2>4. CASE d = c
    BY <2>1, <2>2, <2>3, <2>4 DEF Request, TypeOK, Name
  <2>5. CASE d # c
    BY <2>1, <2>5 DEF Request, TypeOK, Name, At
  <2> QED BY <2>4, <2>5
<1>3. ASSUME NEW d \in Calls, Handler(d)
      PROVE  ~At(c, "idle") /\ Name(c)' = Name(c)
  <2>1. CASE d # c
    <3>1. calls'[c] = calls[c]
      BY <1>3, <2>1 DEF Handler, Configure, MakeDir, PutRecord, PopRecord, RemoveDir,
                        NothingToDelete, Goto, Reply, TypeOK
    <3> QED BY <3>1 DEF At, Name
  <2>2. CASE d = c
    <3>1. ~At(c, "idle")
      BY <1>3, <2>2 DEF Handler, Configure, MakeDir, PutRecord, PopRecord, RemoveDir, At
    <3>2. ASSUME NEW state, Reply(d, state) PROVE FALSE
      <4>1. calls'[c] = Idle
        BY <2>2, <3>2 DEF Reply, TypeOK
      <4> QED BY <4>1, IdleFields DEF At
    <3>3. CASE MakeDir(d)
      BY <2>2, <3>1, <3>2, <3>3, CallFields DEF MakeDir, Goto, TypeOK, Call, Name
    <3>4. CASE PopRecord(d)
      <4>1. PICK v \in Found(d) : calls' = [calls EXCEPT ![d].pc = "rmdir", ![d].vol = v]
        BY <3>2, <3>4 DEF PopRecord, NothingToDelete
      <4>2. calls'[c].vol = v /\ v.name = calls[c].vol.name
        BY <2>2, <4>1, CallFields DEF TypeOK, Call, Found, SameId
      <4> QED BY <3>1, <4>2 DEF Name
    <3>5. CASE Configure(d)
      <4>1. PICK entry \in Decides : calls' = [calls EXCEPT ![d] = Decided(calls[d], entry[2])]
        BY <3>2, <3>5 DEF Configure
      <4>2. calls'[c] = Decided(calls[c], entry[2])
        BY <2>2, <4>1 DEF TypeOK
      <4>3. calls'[c].vol = [calls[c].vol EXCEPT !.path = entry[2].path, !.retain = entry[2].retain]
        BY <4>2, CallFields DEF Decided, Call
      <4> QED BY <3>1, <4>3, CallFields DEF Volume, Name
    <3>6. ~PutRecord(d) /\ ~RemoveDir(d)
      BY <3>2 DEF PutRecord, RemoveDir
    <3> QED BY <1>3, <3>1, <3>3, <3>4, <3>5, <3>6 DEF Handler
  <2> QED BY <2>1, <2>2
<1>4. ASSUME (\E d \in Calls : Timeout(d)) \/ (\E r \in Replicas : Crash(r) \/ Failover(r))
      PROVE  ~At(c, "idle") /\ Name(c)' = Name(c)
  <2>1. calls'[c] \in {calls[c], Idle, [calls[c] EXCEPT !.heard = FALSE]}
    BY <1>4, FaultCalls
  <2>2. LET quiet == [calls[c] EXCEPT !.heard = FALSE]
        IN quiet.pc = calls[c].pc /\ quiet.vol = calls[c].vol
    BY CallFields DEF Call
  <2> QED BY <2>1, <2>2, IdleFields DEF At, Name
<1>5. CASE UNCHANGED calls
  BY <1>1, <1>5 DEF At, Name
<1>6. CASE Provisioner
  BY <1>1, <1>2, <1>6 DEF Provisioner
<1>7. CASE \E d \in Calls : Handler(d)
  BY <1>1, <1>3, <1>7
<1>8. CASE (\E d \in Calls : Timeout(d)) \/ (\E r \in Replicas : Crash(r) \/ Failover(r))
  BY <1>1, <1>4, <1>8
<1> QED BY <1>5, <1>6, <1>7, <1>8 DEF Next, vars, Ask, Release

LEMMA NextLife == CInv /\ LifeInv /\ [Next]_vars => LifeInv'
<1> SUFFICES ASSUME CInv, LifeInv, [Next]_vars PROVE LifeInv'
  OBVIOUS
<1> USE DEF CInv, StepInv
<1>1. ASSUME NEW root \in Roots PROVE dirs'[root] = "whole"
  <2>1. root \in Paths /\ dirs[root] = "whole"
    BY DEF Paths, LifeInv
  <2>2. ~MayGo(root)
    BY OwnDirectory DEF MayGo
  <2> QED BY <2>1, <2>2, DirsStep
<1>2. ASSUME NEW n \in Names, NEW root \in Roots, claim'[n] \notin {"deleting", "gone"}
      PROVE  dirs'[Append(root, n)] # "part"
  <2>1. claim[n] \notin {"deleting", "gone"}
    BY <1>2, ClaimsGoForward
  <2>2. dirs[Append(root, n)] # "part" /\ Append(root, n) \in Paths
    BY <2>1, OwnDirectory DEF LifeInv
  <2>3. ~MayGo(Append(root, n))
    BY <2>1, OwnDirectory DEF MayGo
  <2> QED BY <2>2, <2>3, DirsStep
<1>3. ASSUME NEW c \in Calls, At(c, "put")', calls'[c].heard
      PROVE  dirs'[calls'[c].vol.path] = "whole"
  <2>1. CASE calls'[c].vol.path \in Roots
    BY <1>1, <2>1
  <2>2. CASE At(c, "put") /\ calls'[c].vol = calls[c].vol /\ calls[c].vol.path \notin Roots
    <3>1. Creates(c) /\ calls[c].heard
      BY <1>3, <2>2, AboutToBind DEF At, Creates
    <3>2. claim[Name(c)] \in {"creating", "refused"}
      BY <3>1 DEF HeardInv, Creates, Deletes
    <3>3. PICK root \in Roots : calls[c].vol.path = Append(root, Name(c))
      BY <2>2 DEF PlacedInv, Placed, Name
    <3>4. ~MayGo(calls[c].vol.path)
      BY <3>2, <3>3, CallFields, OwnDirectory DEF MayGo
    <3>5. dirs[calls[c].vol.path] = "whole" /\ calls[c].vol.path \in Paths
      BY <2>2, <3>1, CallFields DEF LifeInv
    <3> QED BY <2>2, <3>4, <3>5, DirsStep
  <2>3. CASE dirs' = Made(calls[c].vol.path) /\ calls'[c].vol = calls[c].vol
             /\ calls[c].vol.path \notin Roots /\ ~At(c, "put")
    <3>1. PICK root \in Roots : calls'[c].vol.path = Append(root, Name(c)')
      BY <1>3, <2>3, NextSteps DEF PlacedInv, Placed, Name
    <3>2. claim'[Name(c)'] \in {"creating", "refused"}
      BY <1>3, NextSteps DEF HeardInv, Creates, Deletes, At
    <3>3. dirs'[calls'[c].vol.path] # "part"
      BY <1>2, <2>3, <3>1, <3>2, CallFields DEF Name
    <3>4. dirs'[calls'[c].vol.path] # "absent"
      BY <2>3, CallFields DEF Made, TypeOK
    <3>5. dirs'[calls'[c].vol.path] \in {"absent", "whole", "part"}
      BY <2>3, CallFields, NextTypes DEF TypeOK
    <3> QED BY <3>3, <3>4, <3>5
  <2> QED BY <1>3, <2>1, <2>2, <2>3, AboutToBind
<1>4. \A c \in Calls : ~At(c, "idle")' => claim'[Name(c)'] # "none"
  BY StillAsked
<1> QED BY <1>1, <1>2, <1>3, <1>4 DEF LifeInv, At, Name

\* What a step of the code has to do to be a step of the life cycle.
LEMMA LifecycleSteps ==
  ASSUME NEW n \in Names
  PROVE  /\ claim[n] \in {"creating", "refused"} /\ claim' = [claim EXCEPT ![n] = "refused"]
              /\ pv' = pv /\ dirs' = dirs
              => Lifecycle!Next
         /\ claim[n] = "deleting" /\ claim' = [claim EXCEPT ![n] = "gone"] /\ pv' = pv
              /\ (dirs' = dirs \/ (/\ pv[n].path \in VolumeDirs
                                   /\ dirs' = [dirs EXCEPT ![pv[n].path] = "absent"]))
              => Lifecycle!Next
         /\ claim[n] \in {"deleting", "gone"} /\ claim' = claim /\ pv' = pv
              /\ pv[n].path \in VolumeDirs
              /\ (\E what \in {"absent", "part"} : dirs' = [dirs EXCEPT ![pv[n].path] = what])
              => Lifecycle!Next
         /\ claim[n] # "none" /\ claim' = claim /\ pv' = pv
              /\ (\E root \in Roots : /\ dirs[Append(root, n)] = "absent"
                                      /\ dirs' = [dirs EXCEPT ![Append(root, n)] = "whole"])
              => Lifecycle!Next
<1>1. pv' = pv => [m \in Names |-> pv[m].path]' = [m \in Names |-> pv[m].path]
  OBVIOUS
<1>2. [m \in Names |-> pv[m].path][n] = pv[n].path
  OBVIOUS
<1>3. Lifecycle!VolumeDirs = VolumeDirs
  BY DEF Lifecycle!VolumeDirs, VolumeDirs
<1> QED BY <1>1, <1>2, <1>3 DEF Lifecycle!Next, Lifecycle!Refuse, Lifecycle!RemoveLast,
                  Lifecycle!Remove, Lifecycle!Make, Lifecycle!Enter, Lifecycle!Finish,
                  Lifecycle!Removed

LEMMA LifecycleBinds ==
  ASSUME NEW c \in Calls, Name(c) \in Names, claim[Name(c)] \in {"creating", "refused"},
         pv \in [Names -> Volume], pv' = [pv EXCEPT ![Name(c)] = calls[c].vol],
         dirs[calls[c].vol.path] = "whole",
         claim' = [claim EXCEPT ![Name(c)] = "bound"], dirs' = dirs
  PROVE  Lifecycle!Next
<1> DEFINE n == Name(c)
           v == calls[c].vol
           path == [m \in Names |-> pv[m].path]
<1>1. pv' = [m \in Names |-> IF m = n THEN v ELSE pv[m]]
  OBVIOUS
<1>2. path' = [m \in Names |-> IF m = n THEN v.path ELSE pv[m].path]
  BY <1>1
<1>3. path' = [path EXCEPT ![n] = path'[n]] /\ path'[n] = v.path
  BY <1>2
<1> QED BY <1>3 DEF Lifecycle!Next, Lifecycle!Bind, Lifecycle!Enter

LEMMA LifecycleStep ==
  ASSUME CInv, LifeInv, [Next]_vars
  PROVE  [Lifecycle!Next]_(Lifecycle!vars)
<1> USE DEF CInv, StepInv
<1>1. UNCHANGED <<claim, pv, dirs>> => UNCHANGED Lifecycle!vars
  BY DEF Lifecycle!vars
<1>2. ASSUME NEW n \in Names, Ask(n) \/ Release(n) PROVE Lifecycle!Next
  <2>1. pv' = pv => [m \in Names |-> pv[m].path]' = [m \in Names |-> pv[m].path]
    OBVIOUS
  <2> QED BY <1>2, <2>1 DEF Ask, Release, Lifecycle!Next, Lifecycle!Ask, Lifecycle!Release,
                            Lifecycle!Enter
<1>3. ASSUME NEW c \in Calls, Reply(c, "refused"), Creates(c), UNCHANGED dirs
      PROVE  Lifecycle!Next \/ UNCHANGED <<claim, pv, dirs>>
  <2>1. CASE calls[c].heard
    <3>1. Name(c) \in Names /\ claim[Name(c)] \in {"creating", "refused"}
      BY <1>3, <2>1, CallFields DEF HeardInv, Creates, Deletes
    <3>2. claim' = [claim EXCEPT ![Name(c)] = "refused"] /\ pv' = pv
      BY <1>3, <2>1 DEF Reply
    <3> QED BY <1>3, <3>1, <3>2, LifecycleSteps
  <2>2. CASE ~calls[c].heard
    BY <1>3, <2>2 DEF Reply
  <2> QED BY <2>1, <2>2
<1>4. ASSUME NEW c \in Calls, Configure(c)
      PROVE  Lifecycle!Next \/ UNCHANGED <<claim, pv, dirs>>
  <2>1. Creates(c) /\ UNCHANGED dirs
    BY <1>4 DEF Configure, Creates, At
  <2> QED BY <1>3, <1>4, <2>1 DEF Configure, provisioner
<1>5. ASSUME NEW c \in Calls, MakeDir(c)
      PROVE  Lifecycle!Next \/ UNCHANGED <<claim, pv, dirs>>
  <2>1. UNCHANGED <<claim, pv>> /\ dirs' \in {dirs, Made(calls[c].vol.path)}
    BY <1>5 DEF MakeDir, Goto, Reply, provisioner
  <2>2. PICK root \in Roots : calls[c].vol.path = Append(root, Name(c))
    BY <1>5 DEF MakeDir, PlacedInv
  <2>3. Name(c) \in Names /\ claim[Name(c)] # "none" /\ calls[c].vol.path \in Paths
    BY <1>5, CallFields DEF MakeDir, LifeInv, At
  <2>4. CASE dirs[calls[c].vol.path] # "absent"
    BY <2>1, <2>3, <2>4 DEF Made, TypeOK
  <2>5. CASE dirs[calls[c].vol.path] = "absent"
    <3>1. Made(calls[c].vol.path) = [dirs EXCEPT ![Append(root, Name(c))] = "whole"]
      BY <2>2, <2>3, <2>5 DEF Made, TypeOK
    <3> QED BY <2>1, <2>2, <2>3, <2>5, <3>1, LifecycleSteps
  <2> QED BY <2>4, <2>5
<1>6. ASSUME NEW c \in Calls, PutRecord(c)
      PROVE  Lifecycle!Next \/ UNCHANGED <<claim, pv, dirs>>
  <2>1. At(c, "put") /\ Creates(c) /\ UNCHANGED dirs
    BY <1>6 DEF PutRecord, At, Creates
  <2>2. CASE Reply(c, "bound") /\ calls[c].heard
    <3>1. Name(c) \in Names /\ claim[Name(c)] \in {"creating", "refused"}
      BY <2>1, <2>2, CallFields DEF HeardInv, Creates, Deletes
    <3>2. dirs[calls[c].vol.path] = "whole"
      BY <2>1, <2>2 DEF LifeInv
    <3>3. claim' = [claim EXCEPT ![Name(c)] = "bound"]
          /\ pv' = [pv EXCEPT ![Name(c)] = calls[c].vol]
      BY <2>2 DEF Reply
    <3>4. pv \in [Names -> Volume]
      BY DEF TypeOK
    <3> QED BY <2>1, <3>1, <3>2, <3>3, <3>4, LifecycleBinds
  <2>3. CASE Reply(c, "bound") /\ ~calls[c].heard
    BY <2>1, <2>3 DEF Reply
  <2>4. CASE Reply(c, "error")
    BY <2>1, <2>4 DEF Reply
  <2>5. CASE Reply(c, "refused")
    BY <1>3, <2>1, <2>5
  <2> QED BY <1>6, <2>2, <2>3, <2>4, <2>5 DEF PutRecord
<1>7. ASSUME NEW c \in Calls, Reply(c, "gone"), Deletes(c)
      PROVE  /\ pv' = pv
             /\ \/ claim' = claim
                \/ claim[Name(c)] = "deleting" /\ claim' = [claim EXCEPT ![Name(c)] = "gone"]
  BY <1>7 DEF Reply, HeardInv, Creates, Deletes
<1>8. ASSUME NEW c \in Calls, PopRecord(c)
      PROVE  Lifecycle!Next \/ UNCHANGED <<claim, pv, dirs>>
  <2>1. Deletes(c) /\ UNCHANGED dirs /\ Name(c) \in Names
    BY <1>8, CallFields DEF PopRecord, At, Deletes
  <2>2. CASE Reply(c, "gone")
    BY <1>7, <2>1, <2>2, LifecycleSteps
  <2>3. CASE ~Reply(c, "gone")
    BY <1>8, <2>1, <2>3 DEF PopRecord, NothingToDelete, Reply, provisioner
  <2> QED BY <2>2, <2>3
<1>9. ASSUME NEW c \in Calls, RemoveDir(c)
      PROVE  Lifecycle!Next \/ UNCHANGED <<claim, pv, dirs>>
  <2>1. At(c, "rmdir") /\ Deletes(c) /\ Name(c) \in Names
    BY <1>9, CallFields DEF RemoveDir, At, Deletes
  <2>2. /\ claim[Name(c)] \in {"deleting", "gone"} /\ calls[c].vol = pv[Name(c)]
        /\ ~calls[c].vol.retain
    BY <2>1 DEF DeletesInv
  <2>3. pv[Name(c)].path \in VolumeDirs
    <3>1. PICK root \in Roots : calls[c].vol.path = Append(root, Name(c))
      BY <2>1, <2>2 DEF PlacedInv, Placed, Name
    <3> QED BY <2>1, <2>2, <3>1 DEF VolumeDirs
  <2>4. \/ dirs' = dirs
        \/ \E what \in {"absent", "part"} : dirs' = [dirs EXCEPT ![pv[Name(c)].path] = what]
    BY <1>9, <2>2, CallFields DEF RemoveDir, TypeOK
  <2>5. CASE Reply(c, "gone") /\ dirs' = [dirs EXCEPT ![calls[c].vol.path] =
                                            IF @ = "absent" THEN @ ELSE "absent"]
    <3>1. dirs' = [dirs EXCEPT ![pv[Name(c)].path] = "absent"]
      BY <2>2, <2>5, CallFields DEF TypeOK
    <3> QED BY <1>7, <2>1, <2>2, <2>3, <2>5, <3>1, LifecycleSteps
  <2>6. CASE Reply(c, "error")
    <3>1. claim' = claim /\ pv' = pv
      BY <2>6 DEF Reply
    <3> QED BY <2>1, <2>2, <2>3, <2>4, <3>1, LifecycleSteps
  <2> QED BY <1>9, <2>5, <2>6 DEF RemoveDir
<1>10. UNCHANGED <<claim, pv, dirs>> \/ (\E n \in Names : Ask(n) \/ Release(n))
         \/ (\E c \in Calls : Handler(c))
  BY DEF Next, vars, Provisioner, RequestCreate, RequestDelete, Request, Timeout, Crash,
              Failover, provisioner
<1> QED BY <1>1, <1>2, <1>4, <1>5, <1>6, <1>8, <1>9, <1>10 DEF Handler

\* The directories and the claims follow the life cycle the users are promised,
\* whatever fails, restarts or comes late.
THEOREM ControllerImplementsLifecycle == Spec => ImplementsLifecycle
<1>1. Init => Lifecycle!Init
  <2>1. Init => \A n \in Names : pv[n].path \in Roots
    BY RootsAssumption DEF Init, NoVolume
  <2> QED BY <2>1 DEF Init, Lifecycle!Init, Paths, VolumeDirs, Lifecycle!VolumeDirs
<1>2. Init => LifeInv
  BY InitLife
<1>3. Spec => []LifeInv
  BY <1>2, NextLife, ControllerInvariant, PTL DEF Spec
<1>4. CInv /\ LifeInv /\ [Next]_vars => [Lifecycle!Next]_(Lifecycle!vars)
  BY LifecycleStep
<1> QED BY <1>1, <1>3, <1>4, ControllerInvariant, PTL DEF Spec, ImplementsLifecycle, Lifecycle!Spec
=============================================================================
