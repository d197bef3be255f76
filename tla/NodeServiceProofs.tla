------------------------- MODULE NodeServiceProofs -------------------------
(***************************************************************************)
(* NodeService is type correct, and what the volume manager holds is a     *)
(* whole record, for any volumes, pods, calls and hazards.  The second is  *)
(* inductive only together with what the calls in flight hold: a record    *)
(* spends the time between Pop and Put in the hands of a publish.          *)
(***************************************************************************)
EXTENDS NodeService, SequenceTheorems, TLAPS

CallsInv ==
  /\ calls \in [Calls -> Call]
  /\ view \in [Targets -> {"no", "maybe", "yes"}]
  /\ \A c \in Calls : WholeRecord(calls[c].vol, calls[c].rec)

RecordsInv ==
  /\ mem \in [Volumes -> Record]
  /\ disk \in [Volumes -> Record]
  /\ \A v \in Volumes : WholeRecord(v, mem[v]) /\ WholeRecord(v, disk[v])

MountsInv == mnt \in [Paths -> Seq(MountKinds)]

FilesInv ==
  /\ root \subseteq Volumes
  /\ upper \in [Volumes -> {"none", "clean", "dirty"}]
  /\ irods \in [Volumes -> {"intact", "wiped"}]
  /\ toSync \in [Volumes -> Nat]
  /\ toDelete \in [Volumes -> Nat]
  /\ gauge \in Int

FaultsInv == nfaults \in 0 .. MaxFaults

\* The inductive invariant, cut along the variables the steps change together.
IInv == CallsInv /\ RecordsInv /\ MountsInv /\ FilesInv /\ FaultsInv

\* It is the type invariant and the wholeness of all records.
LEMMA IInvSuffices == IInv => TypeOK /\ RecordsAreWhole
BY DEF IInv, CallsInv, RecordsInv, MountsInv, FilesInv, FaultsInv, TypeOK, RecordsAreWhole
----------------------------------------------------------------------------
(* What the building blocks of the steps keep. *)

\* No record is a whole record.
LEMMA NilRecord == Nil \in Record /\ \A v : WholeRecord(v, Nil)
BY DEF Nil, Record, WholeRecord

\* A free slot is a call, which holds no record.
LEMMA IdleCall == Idle \in Call /\ Idle.rec = Nil
<1>1. (CHOOSE v \in Volumes : TRUE) \in Volumes
  BY VolumesAssumption
<1> QED
  BY <1>1, NilRecord DEF Idle, Call, Operations, PCs

\* A call works on a target of the node.
LEMMA CallFields ==
  ASSUME CallsInv, NEW c \in Calls
  PROVE  /\ calls[c] \in Call
         /\ calls[c].vol \in Volumes
         /\ Target(c) \in Targets /\ Target(c) \in Paths
         /\ Lower(calls[c].vol) \in Paths /\ Staging(calls[c].vol) \in Paths
         /\ calls[c].rec \in Record
         /\ WholeRecord(calls[c].vol, calls[c].rec)
<1>1. calls[c] \in Call
  BY DEF CallsInv
<1>2. calls[c].vol \in Volumes /\ calls[c].place \in Pods \cup {"staging"} /\ calls[c].rec \in Record
  BY <1>1 DEF Call
<1>3. Target(c) \in Targets /\ Target(c) \in Paths
  BY <1>2 DEF Target, Targets, Paths
<1>4. Lower(calls[c].vol) \in Paths /\ Staging(calls[c].vol) \in Paths
  BY <1>2 DEF Lower, Staging, Paths
<1> QED
  BY <1>1, <1>2, <1>3, <1>4 DEF CallsInv

\* Answering a call frees its slot.
LEMMA AnswerKeeps ==
  ASSUME CallsInv, NEW c \in Calls, NEW ok \in BOOLEAN, Answer(c, ok)
  PROVE  CallsInv'
<1>1. view' \in [Targets -> {"no", "maybe", "yes"}]
  BY DEF CallsInv, Answer, AfterAnswer
<1>2. calls' \in [Calls -> Call]
  BY IdleCall DEF CallsInv, Answer
<1>3. ASSUME NEW d \in Calls PROVE WholeRecord(calls'[d].vol, calls'[d].rec)
  <2>1. CASE d = c
    BY <2>1, IdleCall, NilRecord DEF CallsInv, Answer
  <2>2. CASE d # c
    BY <2>2 DEF CallsInv, Answer
  <2> QED BY <2>1, <2>2
<1> QED BY <1>1, <1>2, <1>3 DEF CallsInv

\* So does a call that moves on with the record it has, or with another one.
LEMMA CallMoves ==
  ASSUME CallsInv, NEW c \in Calls, NEW pc \in PCs, NEW rec \in Record,
         WholeRecord(calls[c].vol, rec),
         calls' = [calls EXCEPT ![c] = [@ EXCEPT !.pc = pc, !.rec = rec]],
         UNCHANGED view
  PROVE  CallsInv'
<1>1. [calls[c] EXCEPT !.pc = pc, !.rec = rec] \in Call
  BY CallFields DEF Call
<1>2. calls' \in [Calls -> Call]
  BY <1>1 DEF CallsInv
<1>3. ASSUME NEW d \in Calls PROVE WholeRecord(calls'[d].vol, calls'[d].rec)
  <2>1. CASE d = c
    BY <2>1, <1>1, CallFields DEF CallsInv, Call
  <2>2. CASE d # c
    BY <2>2 DEF CallsInv
  <2> QED BY <2>1, <2>2
<1> QED BY <1>2, <1>3 DEF CallsInv

LEMMA GotoKeeps ==
  ASSUME CallsInv, NEW c \in Calls, NEW pc \in PCs, Goto(c, pc)
  PROVE  CallsInv'
<1>1. calls' = [calls EXCEPT ![c] = [@ EXCEPT !.pc = pc, !.rec = calls[c].rec]]
  BY CallFields DEF Goto, CallsInv, Call
<1> QED
  BY <1>1, CallFields, CallMoves DEF Goto

\* Mounting and unmounting keep the stacks of mounts.
LEMMA PushKeeps ==
  ASSUME MountsInv, NEW path \in Paths, NEW kind \in MountKinds
  PROVE  Pushed(path, kind) \in [Paths -> Seq(MountKinds)]
BY DEF MountsInv, Pushed

LEMMA PopType ==
  ASSUME NEW stack \in Seq(MountKinds)
  PROVE  Pop(stack) \in Seq(MountKinds)
<1>1. CASE stack = <<>>
  BY <1>1 DEF Pop
<1>2. CASE stack # <<>>
  <2>1. Len(stack) \in Nat /\ Len(stack) - 1 <= Len(stack)
    OBVIOUS
  <2>2. SubSeq(stack, 1, Len(stack) - 1) \in Seq(MountKinds)
    BY <2>1
  <2> QED BY <1>2, <2>2 DEF Pop
<1> QED BY <1>1, <1>2

LEMMA PopKeeps ==
  ASSUME MountsInv, NEW path \in Paths
  PROVE  Popped(path) \in [Paths -> Seq(MountKinds)]
BY PopType DEF MountsInv, Popped

LEMMA TopType ==
  ASSUME MountsInv, NEW path \in Paths
  PROVE  Top(path) \in MountKinds \cup {"none"}
<1>1. mnt[path] \in Seq(MountKinds)
  BY DEF MountsInv
<1> QED
  BY <1>1 DEF Top

\* Counting a fault or none.
LEMMA FaultKeeps ==
  ASSUME FaultsInv, Ok \/ \E h \in AllHazards : Fault(h)
  PROVE  FaultsInv'
BY BoundsAssumption DEF FaultsInv, Ok, Fault

\* A save, whether it succeeds or not, keeps whole records whole.
LEMMA SaveKeeps ==
  ASSUME RecordsInv, NEW m \in [Volumes -> Record],
         \A v \in Volumes : WholeRecord(v, m[v]),
         Saved(m) \/ NotSaved(m)
  PROVE  RecordsInv'
<1>1. NoVolume \in [Volumes -> Record] /\ \A v \in Volumes : WholeRecord(v, NoVolume[v])
  BY NilRecord DEF NoVolume
<1> QED
  BY <1>1 DEF RecordsInv, Saved, NotSaved

\* Taking a record out of the manager, and what a call puts back.
LEMMA WithoutKeeps ==
  ASSUME RecordsInv, NEW v \in Volumes
  PROVE  /\ [mem EXCEPT ![v] = Nil] \in [Volumes -> Record]
         /\ \A w \in Volumes : WholeRecord(w, [mem EXCEPT ![v] = Nil][w])
BY NilRecord DEF RecordsInv

LEMMA NewRecordWhole ==
  ASSUME CallsInv, NEW c \in Calls
  PROVE  NewRecord(c) \in Record /\ WholeRecord(calls[c].vol, NewRecord(c))
<1> DEFINE v == calls[c].vol
<1>1. calls[c].rec \in Record /\ WholeRecord(v, calls[c].rec)
  BY CallFields
<1>2. CASE calls[c].op = "stage" /\ v \in Dynamic
  <2>1. NewRecord(c) = [known |-> TRUE, dyn |-> TRUE, stage |-> TRUE, cfg |-> TRUE]
    BY <1>2 DEF NewRecord
  <2>2. NewRecord(c) \in Record /\ NewRecord(c).dyn /\ NewRecord(c).stage /\ NewRecord(c).cfg
    BY <2>1 DEF Record
  <2> QED BY <1>2, <2>2 DEF WholeRecord
<1>3. CASE calls[c].op = "stage" /\ v \notin Dynamic
  <2>1. NewRecord(c) = [known |-> TRUE, dyn |-> FALSE, stage |-> TRUE, cfg |-> FALSE]
    BY <1>3 DEF NewRecord
  <2>2. NewRecord(c) \in Record /\ NewRecord(c).dyn = FALSE /\ NewRecord(c).stage
    BY <2>1 DEF Record
  <2> QED BY <1>3, <2>2 DEF WholeRecord
<1>4. CASE calls[c].op # "stage" /\ (v \in Dynamic \/ calls[c].rec.known)
  BY <1>1, <1>4 DEF NewRecord
<1>5. CASE calls[c].op # "stage" /\ v \notin Dynamic /\ ~calls[c].rec.known
  <2>1. NewRecord(c) = [known |-> TRUE, dyn |-> FALSE, stage |-> FALSE, cfg |-> TRUE]
    BY <1>5 DEF NewRecord
  <2>2. NewRecord(c) \in Record
    BY <2>1 DEF Record
  <2>3. NewRecord(c).dyn = FALSE /\ NewRecord(c).cfg
    BY <2>1
  <2>4. WholeRecord(v, NewRecord(c))
    BY <1>5, <2>3 DEF WholeRecord
  <2> QED BY <2>2, <2>4
<1>6. calls[c].rec.known \in BOOLEAN
  BY <1>1 DEF Record
<1> QED BY <1>2, <1>3, <1>4, <1>5, <1>6
----------------------------------------------------------------------------
(* The initial state and the steps, one by one. *)

LEMMA InitHolds == Init => IInv
<1> SUFFICES ASSUME Init PROVE IInv
  OBVIOUS
<1>1. CallsInv
  BY IdleCall, NilRecord DEF Init, CallsInv
<1>2. RecordsInv
  BY NilRecord DEF Init, RecordsInv
<1>3. MountsInv
  <2>1. <<>> \in Seq(MountKinds)
    OBVIOUS
  <2> QED BY <2>1 DEF Init, MountsInv
<1>4. FilesInv
  BY DEF Init, FilesInv
<1>5. FaultsInv
  BY BoundsAssumption DEF Init, FaultsInv
<1> QED BY <1>1, <1>2, <1>3, <1>4, <1>5 DEF IInv

\* kubelet's requests
LEMMA IssueKeeps ==
  ASSUME IInv, NEW c \in Calls, NEW op \in Operations, NEW v \in Volumes,
         NEW place \in Pods \cup {"staging"}, NEW pc \in PCs, Issue(c, op, v, place, pc)
  PROVE  IInv'
<1> DEFINE call == [op |-> op, vol |-> v, place |-> place, pc |-> pc,
                    rec |-> Nil, waited |-> TRUE]
<1>1. call \in Call
  BY NilRecord DEF Call
<1>2. calls' = [calls EXCEPT ![c] = call]
  BY DEF Issue
<1>3. calls' \in [Calls -> Call]
  BY <1>1, <1>2 DEF IInv, CallsInv
<1>4. view' \in [Targets -> {"no", "maybe", "yes"}]
  BY DEF IInv, CallsInv, Issue
<1>5. \A d \in Calls : WholeRecord(calls'[d].vol, calls'[d].rec)
  BY <1>2, NilRecord DEF IInv, CallsInv
<1>6. CallsInv'
  BY <1>3, <1>4, <1>5 DEF CallsInv
<1> QED
  BY <1>6 DEF IInv, Issue, RecordsInv, MountsInv, FilesInv, FaultsInv, records, layers

LEMMA KubeletKeeps == IInv /\ Kubelet => IInv'
<1> SUFFICES ASSUME IInv, NEW c \in Calls, NEW v \in Volumes,
                    \/ IssueStage(c, v)
                    \/ IssueUnstage(c, v)
                    \/ \E p \in Pods : IssuePublish(c, v, p) \/ IssueUnpublish(c, v, p)
             PROVE  IInv'
  BY DEF Kubelet
<1>1. {"stage", "publish", "unpublish", "unstage"} \subseteq Operations
      /\ {"check", "put", "get"} \subseteq PCs
  BY DEF Operations, PCs
<1>2. CASE IssueStage(c, v)
  <2>1. CASE v \in Dynamic
    BY <1>1, <1>2, <2>1, IssueKeeps DEF IssueStage
  <2>2. CASE v \notin Dynamic
    BY <1>1, <1>2, <2>2, IssueKeeps DEF IssueStage
  <2> QED BY <2>1, <2>2
<1>3. CASE IssueUnstage(c, v)
  BY <1>1, <1>3, IssueKeeps DEF IssueUnstage
<1>4. ASSUME NEW p \in Pods, IssuePublish(c, v, p) PROVE IInv'
  BY <1>1, <1>4, IssueKeeps DEF IssuePublish
<1>5. ASSUME NEW p \in Pods, IssueUnpublish(c, v, p) PROVE IInv'
  BY <1>1, <1>5, IssueKeeps DEF IssueUnpublish
<1> QED BY <1>2, <1>3, <1>4, <1>5

LEMMA TimeoutKeeps ==
  ASSUME IInv, NEW c \in Calls, Timeout(c)
  PROVE  IInv'
<1>1. [calls[c] EXCEPT !.waited = FALSE] \in Call
  BY CallFields DEF IInv, Call
<1>2. calls' = [calls EXCEPT ![c] = [@ EXCEPT !.waited = FALSE]]
  BY DEF Timeout
<1>3. calls' \in [Calls -> Call]
  BY <1>1, <1>2 DEF IInv, CallsInv
<1>4. ASSUME NEW d \in Calls
      PROVE  calls'[d].vol = calls[d].vol /\ calls'[d].rec = calls[d].rec
  BY <1>2, CallFields DEF IInv, CallsInv, Call
<1>5. CallsInv'
  BY <1>3, <1>4 DEF Timeout, IInv, CallsInv
<1>6. FaultsInv'
  BY FaultKeeps DEF Timeout, IInv, AllHazards
<1> QED
  BY <1>5, <1>6 DEF IInv, Timeout, RecordsInv, MountsInv, FilesInv, records, layers

\* mounting
LEMMA CheckTargetKeeps ==
  ASSUME IInv, NEW c \in Calls, CheckTarget(c)
  PROVE  IInv'
<1>1. CallsInv'
  <2>1. CASE Goto(c, "bind")
    BY <2>1, GotoKeeps DEF IInv, PCs
  <2>2. CASE Goto(c, "mount")
    BY <2>2, GotoKeeps DEF IInv, PCs
  <2>3. CASE Answer(c, FALSE)
    BY <2>3, AnswerKeeps DEF IInv
  <2> QED BY <2>1, <2>2, <2>3 DEF CheckTarget
<1> QED
  BY <1>1 DEF IInv, CheckTarget, RecordsInv, MountsInv, FilesInv, FaultsInv, records, layers

LEMMA AfterMountPC ==
  ASSUME NEW c \in Calls
  PROVE  AfterMount(c) \in PCs
BY DEF AfterMount, PCs

LEMMA MountErrorKeeps ==
  ASSUME CallsInv, FaultsInv, NEW c \in Calls, MountError(c) \/ UmountError(c)
  PROVE  CallsInv' /\ FaultsInv'
<1>1. Answer(c, FALSE) /\ \E h \in AllHazards : Fault(h)
  BY DEF MountError, UmountError, AllHazards
<1> QED BY <1>1, AnswerKeeps, FaultKeeps

LEMMA MountTargetKeeps ==
  ASSUME IInv, NEW c \in Calls, MountTarget(c)
  PROVE  IInv'
<1> DEFINE v == calls[c].vol
<1> USE DEF IInv
<1>1. v \in Volumes /\ Target(c) \in Paths
  BY CallFields
<1>2. RecordsInv'
  BY DEF MountTarget, RecordsInv, records
<1>3. FilesInv'
  BY <1>1 DEF MountTarget, FilesInv, layers, WithDataRoot
<1>4. MountsInv'
  BY <1>1, PushKeeps, PopKeeps DEF MountTarget, MountsInv, MountKinds
<1>5. CallsInv' /\ FaultsInv'
  <2>1. CASE Ok /\ Goto(c, AfterMount(c))
    BY <2>1, GotoKeeps, AfterMountPC, FaultKeeps
  <2>2. CASE MountError(c)
    BY <2>2, MountErrorKeeps
  <2> QED BY <2>1, <2>2 DEF MountTarget
<1> QED BY <1>2, <1>3, <1>4, <1>5

LEMMA MountLowerKeeps ==
  ASSUME IInv, NEW c \in Calls, MountLower(c)
  PROVE  IInv'
<1> DEFINE v == calls[c].vol
<1> USE DEF IInv
<1>1. v \in Volumes /\ Lower(v) \in Paths
  BY CallFields
<1>2. RecordsInv'
  BY DEF MountLower, RecordsInv, records
<1>3. FilesInv'
  BY <1>1 DEF MountLower, FilesInv, layers, WithDataRoot
<1>4. MountsInv'
  BY <1>1, PushKeeps, PopKeeps DEF MountLower, MountsInv, MountKinds
<1>5. CallsInv' /\ FaultsInv'
  <2>1. CASE Ok /\ Goto(c, "overlay")
    BY <2>1, GotoKeeps, FaultKeeps DEF PCs
  <2>2. CASE Ok /\ Answer(c, FALSE)
    BY <2>2, AnswerKeeps, FaultKeeps
  <2>3. CASE MountError(c)
    BY <2>3, MountErrorKeeps
  <2> QED BY <2>1, <2>2, <2>3 DEF MountLower
<1> QED BY <1>2, <1>3, <1>4, <1>5

LEMMA MountOverlayKeeps ==
  ASSUME IInv, NEW c \in Calls, MountOverlay(c)
  PROVE  IInv'
<1> DEFINE v == calls[c].vol
<1> USE DEF IInv
<1>1. v \in Volumes /\ Target(c) \in Paths
  BY CallFields
<1>2. RecordsInv'
  BY DEF MountOverlay, RecordsInv, records
<1>3. FilesInv'
  BY <1>1 DEF MountOverlay, FilesInv
<1>4. MountsInv'
  BY <1>1, PushKeeps, PopKeeps DEF MountOverlay, MountsInv, MountKinds
<1>5. CallsInv' /\ FaultsInv'
  <2>1. CASE Ok /\ Goto(c, AfterMount(c))
    BY <2>1, GotoKeeps, AfterMountPC, FaultKeeps
  <2>2. CASE MountError(c)
    BY <2>2, MountErrorKeeps
  <2> QED BY <2>1, <2>2 DEF MountOverlay
<1> QED BY <1>2, <1>3, <1>4, <1>5

LEMMA BindTargetKeeps ==
  ASSUME IInv, NEW c \in Calls, BindTarget(c)
  PROVE  IInv'
<1> DEFINE source == Top(Staging(calls[c].vol))
           bound == Pushed(Target(c), IF source = "none" THEN "plain" ELSE source)
<1> USE DEF IInv
<1>1. bound \in [Paths -> Seq(MountKinds)]
  <2>1. (IF source = "none" THEN "plain" ELSE source) \in MountKinds
    BY CallFields, TopType DEF MountKinds
  <2> QED BY <2>1, CallFields, PushKeeps
<1>2. MountsInv'
  BY <1>1 DEF BindTarget, MountsInv
<1>3. CallsInv' /\ FaultsInv'
  <2>1. CASE Ok /\ Goto(c, "pop")
    BY <2>1, GotoKeeps, FaultKeeps DEF PCs
  <2>2. CASE Ok /\ Answer(c, FALSE)
    BY <2>2, AnswerKeeps, FaultKeeps
  <2>3. CASE MountError(c)
    BY <2>3, MountErrorKeeps
  <2> QED BY <2>1, <2>2, <2>3 DEF BindTarget
<1> QED
  BY <1>2, <1>3 DEF BindTarget, RecordsInv, FilesInv, records, layers

\* the record between Pop and Put
LEMMA PopRecordKeeps ==
  ASSUME IInv, NEW c \in Calls, PopRecord(c)
  PROVE  IInv'
<1> DEFINE v == calls[c].vol
           without == [mem EXCEPT ![v] = Nil]
           pc == IF mem[v].known /\ v \notin Dynamic THEN "fill" ELSE "put"
           held == [calls EXCEPT ![c].pc = pc, ![c].rec = mem[v]]
<1> USE DEF IInv
<1>1. v \in Volumes /\ mem[v] \in Record /\ WholeRecord(v, mem[v]) /\ pc \in PCs
  BY CallFields DEF RecordsInv, PCs
<1>2. ASSUME calls' = held, UNCHANGED view PROVE CallsInv'
  <2>1. held = [calls EXCEPT ![c] = [@ EXCEPT !.pc = pc, !.rec = mem[v]]]
    BY CallFields DEF CallsInv, Call
  <2> QED BY <1>1, <1>2, <2>1, CallMoves
<1>3. ASSUME Answer(c, FALSE) PROVE CallsInv'
  BY <1>3, AnswerKeeps
<1>4. CallsInv'
  BY <1>2, <1>3 DEF PopRecord
<1>5. CASE Saved(without) \/ NotSaved(without)
  <2>1. RecordsInv'
    BY <1>1, <1>5, WithoutKeeps, SaveKeeps
  <2>2. FaultsInv'
    BY <1>5, FaultKeeps DEF Saved, NotSaved, AllHazards
  <2> QED
    BY <1>4, <2>1, <2>2 DEF PopRecord, MountsInv, FilesInv, layers
<1>6. CASE Ok /\ UNCHANGED records
  BY <1>4, <1>6, FaultKeeps DEF PopRecord, RecordsInv, MountsInv, FilesInv, records, layers
<1> QED BY <1>5, <1>6 DEF PopRecord

\* What a call is after a record it may share has been filled in.
LEMMA FillFields ==
  ASSUME CallsInv, NEW c \in Calls, FillRecord(c), NEW d \in Calls
  PROVE  /\ calls'[d] \in Call
         /\ calls'[d].op = calls[d].op /\ calls'[d].vol = calls[d].vol
         /\ calls'[d].place = calls[d].place /\ calls'[d].waited = calls[d].waited
         /\ calls'[d].pc = IF d = c THEN "put" ELSE calls[d].pc
         /\ calls'[d].rec \in {calls[d].rec, [calls[d].rec EXCEPT !.cfg = TRUE]}
<1> DEFINE cfg == calls[d].rec.cfg \/ d \in Sharing(c)
           pc == IF d = c THEN "put" ELSE calls[d].pc
<1>1. calls'[d] = [calls[d] EXCEPT !.rec.cfg = cfg, !.pc = pc]
  BY DEF FillRecord
<1>2. calls[d] \in Call /\ calls[d].rec \in Record
  BY CallFields
<1>3. calls[d].rec.cfg \in BOOLEAN /\ pc \in PCs
  BY <1>2 DEF Call, PCs, Record
<1>4. calls'[d].rec = [calls[d].rec EXCEPT !.cfg = cfg]
  BY <1>1, <1>2 DEF Call
<1>5. calls'[d].rec \in {calls[d].rec, [calls[d].rec EXCEPT !.cfg = TRUE]}
  <2>1. CASE d \in Sharing(c)
    BY <1>4, <2>1
  <2>2. CASE d \notin Sharing(c)
    BY <1>2, <1>3, <1>4, <2>2 DEF Record
  <2> QED BY <2>1, <2>2
<1>6. calls'[d].rec \in Record
  BY <1>2, <1>5 DEF Record
<1> QED
  BY <1>1, <1>2, <1>3, <1>5, <1>6 DEF Call

LEMMA FillRecordKeeps ==
  ASSUME IInv, NEW c \in Calls, FillRecord(c)
  PROVE  IInv'
<1> USE DEF IInv
<1>1. ASSUME NEW d \in Calls
      PROVE  calls'[d] \in Call /\ WholeRecord(calls'[d].vol, calls'[d].rec)
  BY CallFields, FillFields DEF WholeRecord, Record
<1>2. calls' \in [Calls -> Call]
  <2>1. calls' = [d \in Calls |-> calls'[d]]
    BY DEF FillRecord
  <2> QED BY <1>1, <2>1
<1>3. CallsInv'
  BY <1>1, <1>2 DEF FillRecord, CallsInv
<1> QED
  BY <1>3 DEF FillRecord, RecordsInv, MountsInv, FilesInv, FaultsInv, records, layers

LEMMA PutRecordKeeps ==
  ASSUME IInv, NEW c \in Calls, PutRecord(c)
  PROVE  IInv'
<1> DEFINE v == calls[c].vol
           with == [mem EXCEPT ![v] = NewRecord(c)]
<1> USE DEF IInv
<1>1. v \in Volumes /\ NewRecord(c) \in Record /\ WholeRecord(v, NewRecord(c))
  BY CallFields, NewRecordWhole
<1>2. with \in [Volumes -> Record] /\ \A w \in Volumes : WholeRecord(w, with[w])
  BY <1>1 DEF RecordsInv
<1>3. CallsInv'
  BY AnswerKeeps DEF PutRecord
<1>4. RecordsInv'
  BY <1>2, SaveKeeps DEF PutRecord
<1>5. FaultsInv'
  BY FaultKeeps DEF PutRecord, Saved, NotSaved, AllHazards
<1>6. gauge' \in Int
  <2>1. gauge \in Int /\ CountedAtPut(c) \in Int
    BY DEF FilesInv, CountedAtPut
  <2>2. gauge' = gauge \/ gauge' = CountedAtPut(c)
    BY DEF PutRecord
  <2> QED BY <2>1, <2>2
<1> QED
  BY <1>3, <1>4, <1>5, <1>6 DEF PutRecord, MountsInv, FilesInv, layers

LEMMA GetRecordKeeps ==
  ASSUME IInv, NEW c \in Calls, GetRecord(c)
  PROVE  IInv'
<1> DEFINE rec == mem[calls[c].vol]
           pc == IF Drops(c, rec) THEN "drop" ELSE "unmount"
<1> USE DEF IInv
<1>1. rec \in Record /\ WholeRecord(calls[c].vol, rec) /\ pc \in PCs
  BY CallFields DEF RecordsInv, PCs
<1>2. calls' = [calls EXCEPT ![c] = [@ EXCEPT !.pc = pc, !.rec = rec]]
  BY CallFields DEF GetRecord, CallsInv, Call
<1>3. CallsInv'
  BY <1>1, <1>2, CallMoves DEF GetRecord
<1> QED
  BY <1>3 DEF GetRecord, RecordsInv, MountsInv, FilesInv, FaultsInv, records, layers

LEMMA DropRecordKeeps ==
  ASSUME IInv, NEW c \in Calls, DropRecord(c)
  PROVE  IInv'
<1> DEFINE v == calls[c].vol
           without == [mem EXCEPT ![v] = Nil]
<1> USE DEF IInv
<1>1. CallsInv'
  <2>1. ASSUME NEW ok \in BOOLEAN, Answer(c, ok) PROVE CallsInv'
    BY <2>1, AnswerKeeps
  <2>2. ASSUME Goto(c, "unmount") PROVE CallsInv'
    BY <2>2, GotoKeeps DEF PCs
  <2> QED BY <2>1, <2>2 DEF DropRecord, AfterDrop
<1>2. CASE Saved(without) \/ NotSaved(without)
  <2>1. RecordsInv'
    BY <1>2, CallFields, WithoutKeeps, SaveKeeps
  <2>2. FaultsInv'
    BY <1>2, FaultKeeps DEF Saved, NotSaved, AllHazards
  <2> QED
    BY <1>1, <2>1, <2>2 DEF DropRecord, MountsInv, FilesInv, layers
<1>3. CASE Ok /\ UNCHANGED records
  BY <1>1, <1>3, FaultKeeps DEF DropRecord, RecordsInv, MountsInv, FilesInv, records, layers
<1> QED BY <1>2, <1>3 DEF DropRecord

\* unmounting
LEMMA UnmountNothingKeeps ==
  ASSUME IInv, NEW c \in Calls, UnmountNothing(c) \/ UnmountUnconfigured(c)
  PROVE  IInv'
<1>1. CallsInv'
  BY AnswerKeeps DEF UnmountNothing, UnmountUnconfigured, IInv
<1> QED
  BY <1>1 DEF IInv, UnmountNothing, UnmountUnconfigured, RecordsInv, MountsInv, FilesInv,
              FaultsInv, records, layers

LEMMA RemovableType == \A c, stack : Removable(c, stack) \in BOOLEAN
BY DEF Removable

LEMMA UnmountPlainKeeps ==
  ASSUME IInv, NEW c \in Calls, UnmountPlain(c)
  PROVE  IInv'
<1> USE DEF IInv
<1>1. MountsInv'
  BY CallFields, PopKeeps DEF UnmountPlain, MountsInv
<1>2. CallsInv' /\ FaultsInv'
  <2>1. CASE Ok /\ Answer(c, Removable(c, mnt'[Target(c)]))
    BY <2>1, AnswerKeeps, FaultKeeps, RemovableType
  <2>2. CASE UmountError(c)
    BY <2>2, MountErrorKeeps
  <2> QED BY <2>1, <2>2 DEF UnmountPlain
<1> QED
  BY <1>1, <1>2 DEF UnmountPlain, RecordsInv, FilesInv, DataRootsAfterPlain, records, layers

LEMMA UnmountTargetKeeps ==
  ASSUME IInv, NEW c \in Calls, UnmountTarget(c)
  PROVE  IInv'
<1> USE DEF IInv
<1>1. MountsInv'
  BY CallFields, PopKeeps DEF UnmountTarget, MountsInv
<1>2. CallsInv' /\ FaultsInv'
  <2>1. CASE Ok /\ Goto(c, "lower")
    BY <2>1, GotoKeeps, FaultKeeps DEF PCs
  <2>2. CASE Ok /\ Answer(c, Removable(c, mnt'[Target(c)]))
    BY <2>2, AnswerKeeps, FaultKeeps, RemovableType
  <2>3. CASE UmountError(c)
    BY <2>3, MountErrorKeeps
  <2> QED BY <2>1, <2>2, <2>3 DEF UnmountTarget
<1>3. FilesInv'
  BY DEF UnmountTarget, FilesInv, layers, WithoutDataRoot
<1> QED
  BY <1>1, <1>2, <1>3 DEF UnmountTarget, RecordsInv, records

LEMMA UnmountLowerKeeps ==
  ASSUME IInv, NEW c \in Calls, UnmountLower(c)
  PROVE  IInv'
<1> DEFINE v == calls[c].vol
           left == Pop(mnt[Lower(v)])
<1> USE DEF IInv
<1>1. left \in Seq(MountKinds)
  BY CallFields, PopType DEF MountsInv
<1>2. MountsInv'
  BY <1>1 DEF UnmountLower, MountsInv
<1>3. CallsInv' /\ FaultsInv'
  <2>1. CASE Ok /\ \E ok \in BOOLEAN : Answer(c, ok)
    BY <2>1, AnswerKeeps, FaultKeeps
  <2>2. CASE UmountError(c)
    BY <2>2, MountErrorKeeps
  <2>3. Removable(c, mnt[Target(c)]) \in BOOLEAN
    BY RemovableType
  <2> QED BY <2>1, <2>2, <2>3 DEF UnmountLower
<1>4. irods' \in [Volumes -> {"intact", "wiped"}]
  BY DEF UnmountLower, AfterRemoveAll, FilesInv
<1>5. toSync' \in [Volumes -> Nat] /\ toDelete' \in [Volumes -> Nat]
  <2>1. CASE StartSync(v)
    BY <2>1, CallFields DEF StartSync, FilesInv
  <2>2. CASE UNCHANGED <<toSync, toDelete>>
    BY <2>2 DEF FilesInv
  <2> QED BY <2>1, <2>2 DEF UnmountLower
<1>6. root' \in {root, root \ {v}} /\ gauge' \in {gauge, gauge - 1} /\ upper' = upper
  BY DEF UnmountLower, WithoutDataRoot
<1>7. FilesInv'
  BY <1>4, <1>5, <1>6 DEF FilesInv
<1> QED
  BY <1>2, <1>3, <1>7 DEF UnmountLower, RecordsInv, records

\* the sync goroutines, the pods and the restart
LEMMA SyncherKeeps ==
  ASSUME IInv, NEW v \in Volumes, Syncher(v)
  PROVE  IInv'
<1> USE DEF IInv
<1>1. CASE SyncUpper(v)
  <2>1. FaultsInv'
    BY <1>1, FaultKeeps DEF SyncUpper, AllHazards
  <2>2. upper' \in [Volumes -> {"none", "clean", "dirty"}]
    BY <1>1 DEF SyncUpper, FilesInv
  <2>3. toSync' \in [Volumes -> Nat] /\ toDelete' \in [Volumes -> Nat]
    BY <1>1 DEF SyncUpper, FilesInv
  <2> QED
    BY <1>1, <2>1, <2>2, <2>3 DEF SyncUpper, CallsInv, RecordsInv, MountsInv, FilesInv, records
<1>2. CASE DeleteUpper(v)
  <2>1. toDelete' \in [Volumes -> Nat] /\ upper' \in [Volumes -> {"none", "clean", "dirty"}]
    BY <1>2 DEF DeleteUpper, FilesInv
  <2> QED
    BY <1>2, <2>1 DEF DeleteUpper, CallsInv, RecordsInv, MountsInv, FilesInv, FaultsInv, records
<1> QED BY <1>1, <1>2 DEF Syncher

LEMMA PodWriteKeeps ==
  ASSUME IInv, NEW v \in Volumes, PodWrite(v)
  PROVE  IInv'
BY DEF IInv, PodWrite, CallsInv, RecordsInv, MountsInv, FilesInv, FaultsInv, records

LEMMA CrashKeeps == IInv /\ Crash => IInv'
<1> SUFFICES ASSUME IInv, Crash PROVE IInv'
  OBVIOUS
<1> USE DEF IInv
<1>1. CallsInv'
  BY IdleCall, NilRecord DEF Crash, CallsInv
<1>2. RecordsInv'
  <2>1. disk' \in {disk, NoVolume} /\ mem' = disk'
    BY DEF Crash
  <2> QED BY <2>1, NilRecord DEF NoVolume, RecordsInv
<1>3. ASSUME NEW path \in Paths PROVE Killed(path) \in Seq(MountKinds)
  <2>1. mnt[path] \in Seq(MountKinds)
    BY <1>3 DEF MountsInv
  <2>2. DOMAIN mnt[path] = 1 .. Len(mnt[path]) /\ Len(mnt[path]) \in Nat
    BY <2>1
  <2>3. \A i \in 1 .. Len(mnt[path]) : mnt[path][i] \in MountKinds
    BY <2>1
  <2>4. Killed(path) \in [1 .. Len(mnt[path]) -> MountKinds]
    BY <2>2, <2>3 DEF Killed, MountKinds
  <2> QED BY <2>2, <2>4, SeqDef
<1>4. MountsInv'
  <2>1. CASE mnt' = [p \in Paths |-> Killed(p)]
    BY <2>1, <1>3 DEF MountsInv
  <2>2. CASE mnt' = [p \in Paths |-> IF p[2] = "lower" THEN <<>> ELSE Killed(p)]
    <3>1. <<>> \in Seq(MountKinds)
      OBVIOUS
    <3> QED BY <2>2, <1>3, <3>1 DEF MountsInv
  <2> QED BY <2>1, <2>2 DEF Crash, LocalDirectoriesLost
<1>5. FilesInv'
  BY DEF Crash, LocalDirectoriesLost, FilesInv
<1>6. FaultsInv'
  BY FaultKeeps DEF Crash, AllHazards
<1> QED BY <1>1, <1>2, <1>4, <1>5, <1>6
----------------------------------------------------------------------------
LEMMA HandlerKeeps ==
  ASSUME IInv, NEW c \in Calls, Handler(c)
  PROVE  IInv'
BY CheckTargetKeeps, MountTargetKeeps, MountLowerKeeps, MountOverlayKeeps, BindTargetKeeps,
   PopRecordKeeps, FillRecordKeeps, PutRecordKeeps, GetRecordKeeps, DropRecordKeeps,
   UnmountNothingKeeps, UnmountPlainKeeps, UnmountTargetKeeps, UnmountLowerKeeps
   DEF Handler

LEMMA NextKeeps == IInv /\ [Next]_vars => IInv'
<1> SUFFICES ASSUME IInv, [Next]_vars PROVE IInv'
  OBVIOUS
<1>1. CASE Kubelet
  BY <1>1, KubeletKeeps
<1>2. ASSUME NEW c \in Calls, Handler(c) \/ Timeout(c) PROVE IInv'
  BY <1>2, HandlerKeeps, TimeoutKeeps
<1>3. ASSUME NEW v \in Volumes, Syncher(v) \/ PodWrite(v) PROVE IInv'
  BY <1>3, SyncherKeeps, PodWriteKeeps
<1>4. CASE Crash
  BY <1>4, CrashKeeps
<1>5. CASE UNCHANGED vars
  BY <1>5 DEF vars, IInv, CallsInv, RecordsInv, MountsInv, FilesInv, FaultsInv
<1> QED BY <1>1, <1>2, <1>3, <1>4, <1>5 DEF Next

LEMMA Invariant == Spec => []IInv
BY InitHolds, NextKeeps, PTL DEF Spec

\* Every variable keeps its type, whatever the environment does.
THEOREM NodeTypeCorrect == Spec => []TypeOK
BY Invariant, IInvSuffices, PTL

\* No interleaving of handlers, failure, restart or retry leaves the manager,
\* its file or a handler with half a record: the unpublish that drops a record
\* of a static volume always has the configuration with which to unmount it.
THEOREM NodeRecordsAreWhole == Spec => []RecordsAreWhole
BY Invariant, IInvSuffices, PTL
=============================================================================
