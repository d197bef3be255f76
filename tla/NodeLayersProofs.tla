-------------------------- MODULE NodeLayersProofs --------------------------
(***************************************************************************)
(* What lies under the targets of the node service: the lower and upper    *)
(* layers of overlays, the data roots, the records and the gauge.  Each    *)
(* theorem names the hazards it excludes.                                  *)
(***************************************************************************)
EXTENDS NodeTargetsProofs, FiniteSetTheorems

\* Overlays are staged: no two pods mount one lower directory each for itself.
StagedOverlays == \A v \in Volumes : HasOverlay(v) => v \in Dynamic

----------------------------------------------------------------------------
(* What a call in flight may count on until it is answered: nobody else    *)
(* stages, publishes or unstages its volume.                               *)

Dyn(c) == calls[c].vol \in Dynamic

Settled(c) ==
  LET call == calls[c] IN
  /\ call.op = "unstage" /\ Busy(c) => \A p \in Pods : view[<<call.vol, p>>] = "no"
  /\ call.op = "publish" /\ Busy(c) => view[Staging(call.vol)] = "yes"
  /\ call.op = "unstage" /\ call.pc \in {"unmount", "lower"} => ~mem[call.vol].known
  /\ call.pc = "lower" => HasOverlay(call.vol) /\ (Dyn(c) => call.op = "unstage")
  /\ call.pc = "drop" /\ Dyn(c) => call.op = "unstage"
  /\ call.pc = "pop" => call.op = "publish"
  /\ call.pc \in {"mount", "overlay"} /\ Dyn(c) => call.op = "stage"
  /\ call.pc = "put" /\ call.op = "publish" /\ Dyn(c) => call.rec.known

\* Only an overlay has a lower directory.
NoLower == \A v \in Volumes : ~HasOverlay(v) => mnt[Lower(v)] = <<>>

SInv == (\A c \in Calls : Settled(c)) /\ NoLower

\* The calls kubelet makes.
Asks(op, v, place, pc) ==
  /\ \A d \in Calls : Busy(d) /\ calls[d].vol = v =>
       op = "unpublish" /\ calls[d].op = "unpublish" /\ calls[d].place # place
  /\ pc = "get" <=> op \in {"unpublish", "unstage"}
  /\ place = "staging" <=> op \in {"stage", "unstage"}
  /\ op = "publish" => pc = "check" /\ view[Staging(v)] = "yes"
  /\ op = "unstage" => \A p \in Pods : view[<<v, p>>] = "no"
  /\ op = "unpublish" => view[<<v, place>>] # "no"
  /\ op \in {"stage", "publish"} => MayMount(v)

Requests == {"stage", "publish", "unpublish", "unstage"}

\* A new call, as the other calls and targets see it.
Opens(c, op, v, place, pc) ==
  /\ ~Busy(c)
  /\ calls'[c].op = op /\ calls'[c].vol = v /\ calls'[c].place = place
  /\ calls'[c].pc = pc /\ calls'[c].rec = Nil
  /\ \A d \in Calls \ {c} : calls'[d] = calls[d]
  /\ view'[<<v, place>>] = "maybe"
  /\ \A t \in Targets \ {<<v, place>>} : view'[t] = view[t]
  /\ UNCHANGED <<mnt, mem, disk, root, upper, irods, toSync, toDelete, gauge>>

LEMMA IssueOpens ==
  ASSUME IInv, NEW c \in Calls, NEW op, NEW v \in Volumes, NEW place \in Pods \cup {"staging"},
         NEW pc, Issue(c, op, v, place, pc)
  PROVE  Opens(c, op, v, place, pc)
<1>1. <<v, place>> \in Targets
  BY DEF Targets
<1> QED BY <1>1 DEF Opens, Issue, IInv, CallsInv, Busy, records, layers

LEMMA KubeletAsks ==
  ASSUME IInv, TInv, Kubelet
  PROVE  \E c \in Calls, op \in Requests, v \in Volumes, place \in Pods \cup {"staging"},
            pc \in {"check", "put", "get"} :
           Opens(c, op, v, place, pc) /\ Asks(op, v, place, pc)
<1> PICK c \in Calls, v \in Volumes :
      \/ IssueStage(c, v)
      \/ IssueUnstage(c, v)
      \/ \E p \in Pods : IssuePublish(c, v, p) \/ IssueUnpublish(c, v, p)
  BY DEF Kubelet
<1>1. \A d \in Calls : Busy(d) /\ calls[d].vol = v => d \in Awaited(v)
  BY DEF TInv, Answered, Awaited
<1>2. CASE IssueStage(c, v)
  <2> DEFINE pc == IF v \in Dynamic THEN "check" ELSE "put"
  <2>1. Issue(c, "stage", v, "staging", pc) /\ Asks("stage", v, "staging", pc)
    BY <1>1, <1>2 DEF IssueStage, Undisturbed, Asks
  <2>2. pc \in {"check", "put", "get"}
    OBVIOUS
  <2> HIDE DEF pc
  <2> QED BY <2>1, <2>2, IssueOpens DEF Requests
<1>3. CASE IssueUnstage(c, v)
  <2>1. Issue(c, "unstage", v, "staging", "get") /\ Asks("unstage", v, "staging", "get")
    BY <1>1, <1>3 DEF IssueUnstage, Undisturbed, Asks
  <2> QED BY <2>1, IssueOpens DEF Requests
<1>4. ASSUME NEW p \in Pods, IssuePublish(c, v, p)
      PROVE  Issue(c, "publish", v, p, "check") /\ Asks("publish", v, p, "check")
  BY <1>1, <1>4, PodsAssumption DEF IssuePublish, Undisturbed, Asks
<1>5. ASSUME NEW p \in Pods, IssueUnpublish(c, v, p)
      PROVE  Issue(c, "unpublish", v, p, "get") /\ Asks("unpublish", v, p, "get")
  <2>1. \A d \in Calls : Busy(d) /\ calls[d].vol = v =>
          calls[d].op = "unpublish" /\ calls[d].place # p
    BY <1>1, <1>5 DEF IssueUnpublish
  <2> QED BY <1>5, <2>1, PodsAssumption DEF IssueUnpublish, Asks
<1> QED BY <1>2, <1>3, <1>4, <1>5, IssueOpens DEF Requests

\* A step of a handler, as the other calls and volumes see it.
Stays(c) ==
  /\ view' = view
  /\ calls'[c].op = calls[c].op /\ calls'[c].vol = calls[c].vol
  /\ calls'[c].place = calls[c].place

LEMMA HandlerFrame ==
  ASSUME IInv, TInv, NEW c \in Calls, Handler(c)
  PROVE  /\ Busy(c)
         /\ \A d \in Calls \ {c} : Same(d)
         /\ calls'[c] = Idle \/ Stays(c)
<1>0. Busy(c)
  BY DEF Handler, CheckTarget, MountTarget, MountLower, MountOverlay, BindTarget,
       PopRecord, FillRecord, PutRecord, GetRecord, DropRecord, UnmountNothing, UnmountPlain,
       UnmountUnconfigured, UnmountTarget, UnmountLower, At, Busy
<1>1. ASSUME NEW ok, Answer(c, ok)
      PROVE  calls'[c] = Idle /\ \A d \in Calls \ {c} : Same(d)
  BY <1>1, AnswerFrees DEF Frees
<1>2. ASSUME NEW pc, NEW rec, Moves(c, pc, rec)
      PROVE  Stays(c) /\ \A d \in Calls \ {c} : Same(d)
  BY <1>2, CallFields DEF IInv, CallsInv, Call, Moves, Stays, Same
<1>3. ASSUME NEW pc, Goto(c, pc) PROVE Stays(c) /\ \A d \in Calls \ {c} : Same(d)
  BY <1>2, <1>3, GotoMoves
<1>4. CASE PopRecord(c)
  <2> DEFINE rec == mem[calls[c].vol]
             pc == IF rec.known /\ calls[c].vol \notin Dynamic THEN "fill" ELSE "put"
  <2>1. CASE calls' = [calls EXCEPT ![c].pc = pc, ![c].rec = rec] /\ UNCHANGED view
    <3>1. Moves(c, pc, rec)
      BY <2>1, CallFields DEF Moves, Call, IInv, CallsInv
    <3> HIDE DEF pc, rec
    <3> QED BY <1>0, <1>2, <3>1
  <2>2. CASE Answer(c, FALSE)
    BY <1>0, <1>1, <2>2
  <2> QED BY <1>0, <1>4, <2>1, <2>2 DEF PopRecord
<1>5. CASE FillRecord(c)
  <2>1. \A d \in Calls \ {c} : Same(d)
    BY <1>5, FillFields, CallFields DEF IInv, Same, Record
  <2>2. Stays(c)
    BY <1>5, FillFields DEF IInv, Stays, FillRecord
  <2> QED BY <1>0, <2>1, <2>2
<1>6. CASE GetRecord(c)
  <2> DEFINE rec == mem[calls[c].vol]
             pc == IF Drops(c, rec) THEN "drop" ELSE "unmount"
  <2>1. Moves(c, pc, rec)
    BY <1>6, CallFields DEF GetRecord, Moves, Call, IInv, CallsInv
  <2> HIDE DEF pc, rec
  <2> QED BY <1>0, <1>2, <2>1
<1>7. (\E ok : Answer(c, ok)) \/ (\E pc : Goto(c, pc)) \/ PopRecord(c)
      \/ FillRecord(c) \/ GetRecord(c)
  BY DEF Handler, CheckTarget, MountTarget, MountLower, MountOverlay, BindTarget, AfterDrop,
         PutRecord, DropRecord, UnmountNothing, UnmountPlain, UnmountUnconfigured, UnmountTarget,
         UnmountLower, MountError, UmountError
<1> QED BY <1>0, <1>1, <1>3, <1>4, <1>5, <1>6, <1>7

\* What a handler does to other volumes: nothing.
LEMMA OtherVolumes ==
  ASSUME IInv, TInv, NEW c \in Calls, Handler(c), NEW w \in Volumes \ {calls[c].vol}
  PROVE  /\ \A place \in Pods \cup {"staging"} :
              mnt'[<<w, place>>] = mnt[<<w, place>>] /\ view'[<<w, place>>] = view[<<w, place>>]
         /\ mnt'[Lower(w)] = mnt[Lower(w)]
         /\ mem'[w] = mem[w] /\ irods'[w] = irods[w] /\ upper'[w] = upper[w]
         /\ toSync'[w] = toSync[w] /\ toDelete'[w] = toDelete[w]
         /\ w \in root' <=> w \in root
<1> DEFINE v == calls[c].vol
<1>1. \A place \in Pods \cup {"staging"} : <<w, place>> \in Targets \ {Target(c)}
  BY DEF Targets, Target
<1>2. /\ v \in Volumes /\ mnt \in [Paths -> Seq(MountKinds)] /\ Lower(w) \in Paths
      /\ Target(c) # Lower(w) /\ Lower(v) # Lower(w)
  BY CallFields, Places DEF IInv, MountsInv
<1>3. mnt'[Lower(w)] = mnt[Lower(w)]
  <2>1. CASE MountTarget(c) \/ MountLower(c) \/ MountOverlay(c) \/ BindTarget(c)
    BY <1>2, <2>1 DEF MountTarget, MountLower, MountOverlay, BindTarget, Pushed, Popped
  <2>2. CASE UnmountPlain(c) \/ UnmountTarget(c) \/ UnmountLower(c)
    BY <1>2, <2>2 DEF UnmountPlain, UnmountTarget, UnmountLower, Popped
  <2>3. CASE mnt' = mnt
    BY <2>3
  <2> QED BY <2>1, <2>2, <2>3 DEF Handler, CheckTarget, PopRecord, FillRecord, PutRecord, GetRecord,
        DropRecord, UnmountNothing, UnmountUnconfigured
<1>4. mem'[w] = mem[w]
  <2>1. mem \in [Volumes -> Record]
    BY DEF IInv, RecordsInv
  <2>2. mem' = mem \/ \E rec : mem' = [mem EXCEPT ![v] = rec]
    BY DEF Handler, CheckTarget, MountTarget, MountLower, MountOverlay, BindTarget,
       PopRecord, FillRecord, PutRecord, GetRecord, DropRecord, UnmountNothing, UnmountPlain,
       UnmountUnconfigured, UnmountTarget, UnmountLower, records, Saved, NotSaved
  <2> QED BY <2>1, <2>2
<1>5. irods'[w] = irods[w] /\ upper'[w] = upper[w] /\ toSync'[w] = toSync[w]
      /\ toDelete'[w] = toDelete[w]
  <2>1. /\ irods \in [Volumes -> {"intact", "wiped"}] /\ toSync \in [Volumes -> Nat]
        /\ upper \in [Volumes -> {"none", "clean", "dirty"}]
    BY DEF IInv, FilesInv
  <2>2. CASE MountOverlay(c)
    BY <2>1, <2>2 DEF MountOverlay
  <2>3. CASE UnmountLower(c)
    BY <2>1, <2>3 DEF UnmountLower, AfterRemoveAll, StartSync
  <2>4. CASE UNCHANGED layers
    BY <2>4 DEF layers
  <2> QED BY <2>2, <2>3, <2>4 DEF Handler, CheckTarget, MountTarget, MountLower, BindTarget,
       PopRecord, FillRecord, PutRecord, GetRecord, DropRecord, UnmountNothing, UnmountPlain,
       UnmountUnconfigured, UnmountTarget
<1>6. root' \in {root, root \cup {v}, root \ {v}}
  BY DEF Handler, CheckTarget, MountTarget, MountLower, MountOverlay, BindTarget,
       PopRecord, FillRecord, PutRecord, GetRecord, DropRecord, UnmountNothing, UnmountPlain,
       UnmountUnconfigured, UnmountTarget, UnmountLower, WithDataRoot, WithoutDataRoot,
       DataRootsAfterPlain
<1> QED BY <1>1, <1>3, <1>4, <1>5, <1>6, HandlerElsewhere

\* The other calls for a volume are unpublishings of other pods.
LEMMA Siblings ==
  ASSUME TInv, NEW c \in Calls, NEW d \in Calls \ {c}, Busy(c), Busy(d),
         calls[d].vol = calls[c].vol
  PROVE  calls[d].op = "unpublish" /\ calls[c].op = "unpublish"
BY DEF TInv, Exclusive

LEMMA SettledOthers ==
  ASSUME IInv, TInv, SInv, NEW c \in Calls, Handler(c), NEW d \in Calls \ {c}
  PROVE  Settled(d)'
<1> DEFINE w == calls[d].vol
<1>1. /\ Busy(c) /\ Same(d) /\ Settled(d) /\ w \in Volumes
      /\ Busy(d)' <=> Busy(d)
      /\ calls[d].pc # "idle" <=> Busy(d)
  BY HandlerFrame, CallFields DEF IInv, SInv, Same, Busy, At
<1>2. CASE Busy(d) /\ w = calls[c].vol
  <2>1. calls[d].op = "unpublish"
    BY <1>1, <1>2, Siblings
  <2> QED BY <1>1, <2>1 DEF Settled, Same, Dyn
<1>3. CASE Busy(d) /\ w # calls[c].vol
  <2>1. /\ \A p \in Pods : view'[<<w, p>>] = view[<<w, p>>]
        /\ view'[Staging(w)] = view[Staging(w)] /\ mem'[w] = mem[w]
    BY <1>1, <1>3, OtherVolumes DEF Staging
  <2> QED BY <1>1, <1>3, <2>1 DEF Settled, Same, Dyn, Staging
<1>4. CASE ~Busy(d)
  BY <1>1, <1>4 DEF Settled, Same, Busy, At
<1> QED BY <1>2, <1>3, <1>4

\* Where a handler goes next, and what it has done by then.
Arrives(c) ==
  LET call == calls'[c]
      v == calls[c].vol
  IN
  /\ call.pc = "unmount" /\ call.op = "unstage" => ~mem'[v].known
  /\ call.pc = "lower" => /\ HasOverlay(v) /\ At(c, "unmount") /\ mem' = mem
                          /\ Dyn(c) => call.op = "unstage"
  /\ call.pc = "drop" /\ Dyn(c) => call.op = "unstage"
  /\ call.pc = "pop" => call.op = "publish"
  /\ call.pc \in {"mount", "overlay"} /\ Dyn(c) => call.op = "stage"
  /\ call.pc = "put" /\ call.op = "publish" /\ Dyn(c) => call.rec.known

LEMMA HandlerArrives ==
  ASSUME IInv, TInv, SInv, NEW c \in Calls, Handler(c), Stays(c)
  PROVE  Arrives(c)
<1> DEFINE v == calls[c].vol
           rec == mem[v]
<1>1. /\ calls[c] \in Call /\ v \in Volumes /\ CallOK(c) /\ Busy(c)
      /\ calls[c].rec \in Record /\ WholeRecord(v, calls[c].rec)
      /\ rec \in Record /\ WholeRecord(v, rec) /\ mem \in [Volumes -> Record]
  BY CallFields, HandlerFrame DEF IInv, RecordsInv, TInv
<1>2. ASSUME NEW pc, Goto(c, pc) PROVE calls'[c].pc = pc
  BY <1>1, <1>2 DEF Goto, IInv, CallsInv, Call
<1>3. ASSUME NEW ok, Answer(c, ok) PROVE calls'[c].pc = "idle"
  BY <1>3 DEF Answer, Idle, IInv, CallsInv
<1>4. CASE CheckTarget(c) \/ MountLower(c) \/ BindTarget(c)
  <2>1. calls'[c].pc \in {"idle", "bind", "overlay", "mount"} \/ (calls'[c].pc = "pop" /\ At(c, "bind"))
    BY <1>2, <1>3, <1>4 DEF CheckTarget, MountLower, BindTarget, MountError
  <2>2. calls'[c].pc = "mount" /\ Dyn(c) => calls[c].op = "stage"
    BY <1>1, <1>2, <1>3, <1>4 DEF CheckTarget, MountLower, BindTarget, MountError, CallOK,
       At, Mounting, Dyn
  <2>3. calls'[c].pc = "overlay" => At(c, "mount")
    BY <1>2, <1>3, <1>4 DEF CheckTarget, MountLower, BindTarget, MountError
  <2>4. Settled(c)
    BY DEF SInv
  <2> QED BY <1>1, <2>1, <2>2, <2>3, <2>4 DEF Arrives, CallOK, At, Stays, Settled, Dyn
<1>5. CASE MountTarget(c) \/ MountOverlay(c)
  <2>1. calls'[c].pc \in {"idle", AfterMount(c)}
    BY <1>2, <1>3, <1>5 DEF MountTarget, MountOverlay, MountError
  <2>2. calls[c].op \in {"stage", "publish"}
    BY <1>1, <1>5 DEF MountTarget, MountOverlay, CallOK, At, Mounting
  <2> QED BY <2>1, <2>2 DEF Arrives, AfterMount, Stays
<1>6. CASE PopRecord(c)
  <2> DEFINE pc == IF rec.known /\ v \notin Dynamic THEN "fill" ELSE "put"
  <2>1. calls' = [calls EXCEPT ![c].pc = pc, ![c].rec = rec] => calls'[c].pc = pc /\ calls'[c].rec = rec
    BY <1>1 DEF IInv, CallsInv, Call
  <2>2. calls'[c].pc = "idle" \/ (calls'[c].pc = pc /\ calls'[c].rec = rec /\ (Dyn(c) => rec.known))
    BY <1>3, <1>6, <2>1 DEF PopRecord, Dyn
  <2> QED BY <2>2 DEF Arrives
<1>7. CASE FillRecord(c) \/ PutRecord(c)
  <2>1. calls'[c].pc \in {"idle", "put"} /\ ~(calls'[c].pc = "put" /\ Dyn(c))
    BY <1>1, <1>3, <1>7, FillFields DEF FillRecord, PutRecord, CallOK, At, Dyn, IInv
  <2> QED BY <2>1 DEF Arrives
<1>8. CASE GetRecord(c)
  <2>1. calls'[c].pc = IF Drops(c, rec) THEN "drop" ELSE "unmount"
    BY <1>1, <1>8 DEF GetRecord, IInv, CallsInv, Call
  <2>2. mem' = mem /\ calls'[c].op = calls[c].op /\ calls[c].op \in {"unpublish", "unstage"}
    BY <1>1, <1>8 DEF GetRecord, records, Stays, CallOK, At, Releasing
  <2> QED BY <1>1, <2>1, <2>2 DEF Arrives, Drops, WholeRecord, Dyn
<1>9. CASE DropRecord(c)
  <2>1. calls'[c].pc \in {"idle", "unmount"}
    BY <1>2, <1>3, <1>9 DEF DropRecord, AfterDrop
  <2>2. ~mem'[v].known
    <3>1. mem' = [mem EXCEPT ![v] = Nil] \/ (mem' = mem /\ ~mem[v].known)
      BY <1>9 DEF DropRecord, Saved, NotSaved, records
    <3>2. mem' = [mem EXCEPT ![v] = Nil] => mem'[v] = Nil
      BY <1>1
    <3> QED BY <3>1, <3>2 DEF Nil
  <2> QED BY <2>1, <2>2 DEF Arrives
<1>10. CASE UnmountNothing(c) \/ UnmountPlain(c) \/ UnmountUnconfigured(c) \/ UnmountLower(c)
  <2>1. calls'[c].pc = "idle"
    BY <1>3, <1>10 DEF UnmountNothing, UnmountPlain, UnmountUnconfigured, UnmountLower, UmountError
  <2> QED BY <2>1 DEF Arrives
<1>11. CASE UnmountTarget(c)
  <2>1. calls'[c].pc = "idle" \/ (calls'[c].pc = "lower" /\ HasOverlay(v))
    BY <1>2, <1>3, <1>11 DEF UnmountTarget, UmountError
  <2>2. At(c, "unmount") /\ ~PlainUnmount(c) /\ mem' = mem
    BY <1>11 DEF UnmountTarget, records
  <2>3. Dyn(c) => calls[c].op = "unstage"
    BY <1>1, <2>2 DEF PlainUnmount, WholeRecord, Dyn, CallOK, At, Releasing
  <2> QED BY <2>1, <2>2, <2>3 DEF Arrives, Stays
<1> QED BY <1>4, <1>5, <1>6, <1>7, <1>8, <1>9, <1>10, <1>11 DEF Handler

LEMMA SettledOwn ==
  ASSUME IInv, TInv, SInv, NEW c \in Calls, Handler(c)
  PROVE  Settled(c)'
<1>1. CASE calls'[c] = Idle
  BY <1>1 DEF Settled, Idle, Busy, At
<1>2. CASE Stays(c)
  <2>1. Arrives(c) /\ Busy(c) /\ Settled(c)
    BY <1>2, HandlerArrives, HandlerFrame DEF SInv
  <2> QED BY <1>2, <2>1 DEF Settled, Arrives, Stays, Dyn, Staging, At
<1> QED BY <1>1, <1>2, HandlerFrame

\* Only the overlay client mounts or unmounts a lower directory.
LEMMA LowerSteps ==
  ASSUME IInv, TInv, NEW c \in Calls, Handler(c), NEW w \in Volumes,
         mnt'[Lower(w)] # mnt[Lower(w)]
  PROVE  w = calls[c].vol /\ (MountLower(c) \/ UnmountLower(c))
<1>1. w = calls[c].vol
  BY OtherVolumes
<1>2. mnt \in [Paths -> Seq(MountKinds)] /\ Lower(w) \in Paths /\ Target(c) # Lower(w)
  BY CallFields, Places DEF IInv, MountsInv
<1>3. ~MountTarget(c) /\ ~MountOverlay(c) /\ ~BindTarget(c)
  BY <1>2 DEF MountTarget, MountOverlay, BindTarget, Pushed, Popped
<1>4. ~UnmountPlain(c) /\ ~UnmountTarget(c)
  BY <1>2 DEF UnmountPlain, UnmountTarget, Popped
<1>5. mnt' # mnt
  OBVIOUS
<1> QED BY <1>1, <1>3, <1>4, <1>5 DEF Handler, CheckTarget, PopRecord, FillRecord, PutRecord,
        GetRecord, DropRecord, UnmountNothing, UnmountUnconfigured

LEMMA HandlerSettled ==
  ASSUME IInv, TInv, SInv, NEW c \in Calls, Handler(c)
  PROVE  SInv'
<1>1. \A d \in Calls : Settled(d)'
  BY SettledOthers, SettledOwn
<1>2. ASSUME NEW w \in Volumes, ~HasOverlay(w) PROVE mnt'[Lower(w)] = mnt[Lower(w)]
  BY <1>2, LowerSteps DEF MountLower, UnmountLower, SInv, Settled, At
<1> QED BY <1>1, <1>2 DEF SInv, NoLower, HasOverlay, Lower

LEMMA KubeletSettled ==
  ASSUME IInv, TInv, SInv, Kubelet
  PROVE  SInv'
<1>1. PICK c \in Calls, op \in Requests, v \in Volumes, place \in Pods \cup {"staging"},
           pc \in {"check", "put", "get"} :
        Opens(c, op, v, place, pc) /\ Asks(op, v, place, pc)
  BY KubeletAsks
<1>0. \A t \in Targets \ {<<v, place>>} : view'[t] = view[t]
  BY <1>1 DEF Opens
<1>2. Settled(c)'
  <2>1. ASSUME NEW p \in Pods, p # place PROVE view'[<<v, p>>] = view[<<v, p>>]
    BY <1>0, <2>1 DEF Targets
  <2>2. op = "publish" => view'[Staging(v)] = view[Staging(v)]
    BY <1>0, <1>1 DEF Targets, Staging, Asks
  <2> QED BY <1>1, <2>1, <2>2, PodsAssumption DEF Opens, Settled, Asks, Staging
<1>3. ASSUME NEW d \in Calls \ {c} PROVE Settled(d)'
  <2> DEFINE w == calls[d].vol
  <2>1. calls'[d] = calls[d] /\ Settled(d) /\ w \in Volumes /\ mem' = mem
    BY <1>1, <1>3, CallFields DEF Opens, SInv, IInv
  <2>2. CASE Busy(d) /\ w = v
    <3>1. calls[d].op = "unpublish"
      BY <1>1, <2>2 DEF Asks
    <3> QED BY <2>1, <3>1 DEF Settled, Dyn
  <2>3. CASE w # v
    <3>1. /\ \A p \in Pods : view'[<<w, p>>] = view[<<w, p>>]
          /\ view'[Staging(w)] = view[Staging(w)]
      BY <1>0, <2>1, <2>3 DEF Targets, Staging
    <3> QED BY <2>1, <3>1 DEF Settled, Dyn, Staging, Busy, At
  <2>4. CASE ~Busy(d)
    BY <2>1, <2>4 DEF Settled, Busy, At
  <2> QED BY <2>2, <2>3, <2>4
<1> QED BY <1>1, <1>2, <1>3 DEF Opens, SInv, NoLower, HasOverlay, Lower

LEMMA CrashSettled ==
  ASSUME IInv, TInv, SInv, Crash
  PROVE  SInv'
<1>1. \A c \in Calls : calls'[c].op = "none" /\ calls'[c].pc = "idle"
  BY DEF Crash, Idle
<1>2. ASSUME NEW w \in Volumes, mnt[Lower(w)] = <<>> PROVE mnt'[Lower(w)] = <<>>
  <2>1. Lower(w) \in Paths
    BY Places
  <2>2. Killed(Lower(w)) = <<>>
    BY <1>2 DEF Killed
  <2> QED BY <2>1, <2>2 DEF Crash, LocalDirectoriesLost
<1>3. ASSUME NEW c \in Calls PROVE Settled(c)'
  BY <1>1 DEF Settled, Busy, At
<1> QED BY <1>2, <1>3 DEF SInv, NoLower, HasOverlay, Lower

LEMMA NextSettled ==
  ASSUME Patient, IInv, TInv, SInv, [Next]_vars
  PROVE  SInv'
<1>1. CASE UNCHANGED <<calls, view, mnt, mem>>
  BY <1>1 DEF SInv, Settled, NoLower, Busy, At, Dyn, Staging, Lower, HasOverlay
<1>2. \A c \in Calls : ~Timeout(c)
  BY DEF Patient, Timeout, Fault
<1>3. \A v \in Volumes : Syncher(v) \/ PodWrite(v) => UNCHANGED <<calls, view, mnt, mem>>
  BY DEF Syncher, SyncUpper, DeleteUpper, PodWrite, records
<1>4. UNCHANGED vars => UNCHANGED <<calls, view, mnt, mem>>
  BY DEF vars
<1> QED BY <1>1, <1>2, <1>3, <1>4, KubeletSettled, HandlerSettled, CrashSettled DEF Next

LEMMA InitSettled == Init => SInv
<1> SUFFICES ASSUME Init PROVE SInv
  OBVIOUS
<1>1. \A v \in Volumes : mnt[Lower(v)] = <<>>
  BY Places DEF Init
<1> QED BY <1>1 DEF Init, SInv, Settled, NoLower, Idle, Busy, At

\* The three together, which every theorem below starts from.
Base == IInv /\ TInv /\ SInv

LEMMA BaseInvariant ==
  ASSUME Patient
  PROVE  Spec => []Base
<1>1. Init => Base
  BY InitHolds, InitTargets, InitSettled DEF Base
<1>2. Base /\ [Next]_vars => Base'
  BY NextKeeps, NextTargets, NextSettled DEF Base
<1> QED BY <1>1, <1>2, PTL DEF Spec
----------------------------------------------------------------------------
(* Writes: while a sync is pending nobody writes to the upper layer.       *)

\* A sync never fails, and has ended before its volume is mounted again.
SyncsFirst == "sync" \notin Hazards /\ MaxSync <= 1

Mounts(c) == Busy(c) /\ calls[c].op \in {"stage", "publish"}
Unused(v) ==
  /\ \A p \in Pods : view[<<v, p>>] = "no"
  /\ \A c \in Calls : Mounts(c) => calls[c].vol # v
WInv ==
  \A v \in Volumes : /\ toSync[v] + toDelete[v] > 0 => Unused(v)
                     /\ toDelete[v] > 0 => upper[v] # "dirty"

\* A step of a handler leaves a volume unused, and a release finds it so.
LEMMA HandlerUnused ==
  ASSUME Base, NEW c \in Calls, Handler(c), NEW v \in Volumes, Unused(v)
  PROVE  Unused(v)'
<1>1. /\ Busy(c) /\ \A d \in Calls \ {c} : Same(d)
      /\ calls'[c] = Idle \/ Stays(c)
  BY HandlerFrame DEF Base
<1>2. ASSUME NEW d \in Calls, Mounts(d)' PROVE calls'[d].vol # v
  BY <1>1, <1>2 DEF Unused, Mounts, Busy, At, Same, Stays, Idle
<1>3. ASSUME NEW p \in Pods PROVE view'[<<v, p>>] = "no"
  <2>1. <<v, p>> \in Targets /\ Target(c) \in Targets
    BY CallFields DEF Targets, Base, IInv
  <2>2. view[Target(c)] = "maybe" /\ view[<<v, p>>] = "no"
    BY <1>1 DEF Base, TInv, Answered, Unused
  <2> QED BY <2>1, <2>2, HandlerElsewhere DEF Base
<1> QED BY <1>2, <1>3 DEF Unused

LEMMA ReleaseUnused ==
  ASSUME StagedOverlays, Base, NEW c \in Calls, At(c, "lower")
  PROVE  Unused(calls[c].vol)
<1>1. calls[c].op = "unstage" /\ Busy(c) /\ calls[c].vol \in Volumes
  BY CallFields DEF Base, SInv, Settled, StagedOverlays, Dyn, At, Busy, IInv
<1>2. \A p \in Pods : view[<<calls[c].vol, p>>] = "no"
  BY <1>1 DEF Base, SInv, Settled
<1>3. \A d \in Calls : Mounts(d) => calls[d].vol # calls[c].vol
  BY <1>1, Siblings DEF Base, Mounts
<1> QED BY <1>2, <1>3 DEF Unused

LEMMA HandlerWrites ==
  ASSUME StagedOverlays, Base, WInv, NEW c \in Calls, Handler(c)
  PROVE  WInv' /\ KeepsWrites
<1>1. /\ upper \in [Volumes -> {"none", "clean", "dirty"}]
      /\ toSync \in [Volumes -> Nat] /\ toDelete \in [Volumes -> Nat]
      /\ calls[c].vol \in Volumes
  BY CallFields DEF Base, IInv, FilesInv
<1>2. ASSUME NEW v \in Volumes
      PROVE  /\ upper'[v] = upper[v] \/ (upper[v] = "none" /\ upper'[v] = "clean")
             /\ toDelete'[v] = toDelete[v]
             /\ toSync'[v] = toSync[v] \/ (toSync'[v] = toSync[v] + 1 /\ Unused(v))
  <2>1. CASE MountOverlay(c)
    BY <1>1, <2>1 DEF MountOverlay
  <2>2. CASE UnmountLower(c)
    <3>1. Unused(calls[c].vol)
      BY <2>2, ReleaseUnused DEF UnmountLower
    <3> QED BY <1>1, <2>2, <3>1 DEF UnmountLower, StartSync
  <2>3. CASE UNCHANGED layers
    BY <2>3 DEF layers
  <2> QED BY <2>1, <2>2, <2>3 DEF Handler, CheckTarget, MountTarget, MountLower, BindTarget,
       PopRecord, FillRecord, PutRecord, GetRecord, DropRecord, UnmountNothing, UnmountPlain,
       UnmountUnconfigured, UnmountTarget
<1>3. ASSUME NEW v \in Volumes, toSync'[v] + toDelete'[v] > 0 PROVE Unused(v)'
  BY <1>1, <1>2, <1>3, HandlerUnused DEF WInv
<1>4. ASSUME NEW v \in Volumes, toDelete'[v] > 0 PROVE upper'[v] # "dirty"
  BY <1>1, <1>2, <1>4 DEF WInv
<1>5. KeepsWrites
  BY <1>2 DEF KeepsWrites
<1> QED BY <1>3, <1>4, <1>5 DEF WInv

LEMMA KubeletWrites ==
  ASSUME SyncsFirst, Base, WInv, Kubelet
  PROVE  WInv' /\ KeepsWrites
<1>1. PICK c \in Calls, op \in Requests, v \in Volumes, place \in Pods \cup {"staging"},
           pc \in {"check", "put", "get"} :
        Opens(c, op, v, place, pc) /\ Asks(op, v, place, pc)
  BY KubeletAsks DEF Base
<1>2. UNCHANGED <<upper, toSync, toDelete>>
  BY <1>1 DEF Opens
<1>3. toSync[v] + toDelete[v] > 0 => op \notin {"stage", "publish"}
  BY <1>1, BoundsAssumption DEF SyncsFirst, Asks, MayMount, Base, IInv, FilesInv
<1>4. ASSUME NEW w \in Volumes, Unused(w), w = v => op \notin {"stage", "publish"}
      PROVE  Unused(w)'
  <2>1. ASSUME NEW p \in Pods PROVE view'[<<w, p>>] = "no"
    <3>1. <<w, p>> \in Targets /\ <<w, p>> # <<v, place>>
      BY <1>1, <1>4, PodsAssumption DEF Asks, Targets, Unused, Requests
    <3> QED BY <1>1, <1>4, <3>1 DEF Opens, Unused
  <2>2. ASSUME NEW d \in Calls, Mounts(d)' PROVE calls'[d].vol # w
    BY <1>1, <1>4, <2>2 DEF Opens, Unused, Mounts, Busy, At
  <2> QED BY <2>1, <2>2 DEF Unused
<1>5. WInv'
  BY <1>2, <1>3, <1>4 DEF WInv
<1> QED BY <1>2, <1>5 DEF KeepsWrites

LEMMA SyncerWrites ==
  ASSUME SyncsFirst, Base, WInv, NEW v \in Volumes, Syncher(v)
  PROVE  WInv' /\ KeepsWrites
<1>1. /\ upper \in [Volumes -> {"none", "clean", "dirty"}]
      /\ toSync \in [Volumes -> Nat] /\ toDelete \in [Volumes -> Nat]
  BY DEF Base, IInv, FilesInv
<1>2. calls' = calls /\ view' = view
  BY DEF Syncher, SyncUpper, DeleteUpper
<1>3. \A w \in Volumes : Unused(w)' <=> Unused(w)
  BY <1>2 DEF Unused, Mounts, Busy, At
<1>4. CASE SyncUpper(v)
  <2>1. upper' = [upper EXCEPT ![v] = IF @ = "dirty" THEN "clean" ELSE @]
    BY <1>4 DEF SyncUpper, SyncsFirst, Fault
  <2> QED BY <1>1, <1>3, <1>4, <2>1 DEF SyncUpper, WInv, KeepsWrites
<1>5. CASE DeleteUpper(v)
  BY <1>1, <1>3, <1>5 DEF DeleteUpper, WInv, KeepsWrites
<1> QED BY <1>4, <1>5 DEF Syncher

LEMMA PodWrites ==
  ASSUME Base, WInv, NEW v \in Volumes, PodWrite(v)
  PROVE  WInv' /\ KeepsWrites
<1>1. /\ upper \in [Volumes -> {"none", "clean", "dirty"}]
      /\ toSync[v] \in Nat /\ toDelete[v] \in Nat
  BY DEF Base, IInv, FilesInv
<1>2. UNCHANGED <<calls, view, toSync, toDelete>> /\ upper' = [upper EXCEPT ![v] = "dirty"]
  BY DEF PodWrite
<1>3. \A w \in Volumes : Unused(w)' <=> Unused(w)
  BY <1>2 DEF Unused, Mounts, Busy, At
<1>4. ~Unused(v)
  BY DEF PodWrite, Unused
<1> QED BY <1>1, <1>2, <1>3, <1>4 DEF WInv, KeepsWrites

LEMMA NextWrites ==
  ASSUME Patient, StagedOverlays, SyncsFirst, Base, WInv, [Next]_vars
  PROVE  WInv' /\ (Crash \/ KeepsWrites)
<1>1. CASE UNCHANGED vars
  BY <1>1 DEF vars, WInv, Unused, Mounts, Busy, At, KeepsWrites
<1>2. CASE Crash
  BY <1>2 DEF Crash, WInv
<1>3. \A c \in Calls : ~Timeout(c)
  BY DEF Patient, Timeout, Fault
<1> QED BY <1>1, <1>2, <1>3, HandlerWrites, KubeletWrites, SyncerWrites, PodWrites DEF Next

\* No step but a restart deletes an upper layer that holds writes iRODS has not
\* received, when a sync that is started succeeds before the volume is mounted again.
\* Commands and saves may fail, and the driver may restart.
THEOREM NodeLosesNoWrite ==
  ASSUME Patient, StagedOverlays, SyncsFirst
  PROVE  Spec => NoWriteLost
<1>1. Init => WInv
  BY DEF Init, WInv
<1>2. Base /\ WInv /\ [Next]_vars => WInv' /\ [Crash \/ KeepsWrites]_vars
  BY NextWrites
<1> QED BY <1>1, <1>2, BaseInvariant, PTL DEF Spec, NoWriteLost
----------------------------------------------------------------------------
(* Records: the one of a dynamic volume in use is in the manager, or in    *)
(* the hands of the publish that puts it back.                             *)

\* The manager neither restarts nor fails to save.
RecordsKept == "crash" \notin Hazards /\ "save" \notin Hazards

InHand(v) ==
  \/ mem[v].known
  \/ \E c \in Calls : calls[c].vol = v /\ calls[c].op = "publish" /\ At(c, "put")
InUse(v) == view[Staging(v)] = "yes" \/ \E p \in Pods : view[<<v, p>>] = "yes"
RInv == disk = mem /\ \A v \in Dynamic : InUse(v) => InHand(v)

LEMMA BusyOp ==
  ASSUME Base, NEW c \in Calls, Busy(c)
  PROVE  /\ calls[c].op \in Requests
         /\ calls[c].pc \in Mounting <=> calls[c].op \in {"stage", "publish"}
         /\ calls[c].pc \in Releasing <=> calls[c].op \in {"unpublish", "unstage"}
<1>1. calls[c].pc \in PCs /\ CallOK(c)
  BY CallFields DEF Base, IInv, TInv, Call
<1> QED BY <1>1 DEF PCs, CallOK, Mounting, Releasing, Requests, Busy, At

\* A mount is confirmed by putting its record, and by nothing else.
LEMMA ConfirmedByPut ==
  ASSUME Base, NEW c \in Calls, Handler(c), view'[Target(c)] = "yes"
  PROVE  PutRecord(c)
<1>1. /\ Busy(c) /\ view[Target(c)] = "maybe" /\ Target(c) \in Targets
      /\ view \in [Targets -> {"no", "maybe", "yes"}]
  BY HandlerFrame, CallFields DEF Base, TInv, Answered, IInv, CallsInv
<1>2. view' # view
  BY <1>1
<1>3. ~Answer(c, FALSE)
  BY <1>1 DEF Answer, AfterAnswer
<1>4. CASE calls[c].pc \in Mounting
  BY <1>2, <1>3, <1>4 DEF Handler, CheckTarget, MountTarget, MountLower, MountOverlay, BindTarget,
       PopRecord, FillRecord, GetRecord, DropRecord, UnmountNothing, UnmountPlain,
       UnmountUnconfigured, UnmountTarget, UnmountLower, At, Mounting, Goto, MountError
<1>5. CASE calls[c].pc \in Releasing
  <2>1. calls[c].op \in {"unpublish", "unstage"}
    BY <1>1, <1>5, BusyOp
  <2>2. \A ok \in BOOLEAN : view' # AfterAnswer(c, ok)
    BY <1>1, <2>1 DEF AfterAnswer
  <2>3. PICK ok \in BOOLEAN : Answer(c, ok)
    BY <1>2, <1>5, RemovableType DEF Handler, CheckTarget, MountTarget, MountLower, MountOverlay,
       BindTarget, PopRecord, FillRecord, PutRecord, GetRecord, DropRecord, AfterDrop,
       UnmountNothing, UnmountPlain, UnmountUnconfigured, UnmountTarget, UnmountLower, At,
       Releasing, Goto, UmountError
  <2> QED BY <2>2, <2>3 DEF Answer
<1> QED BY <1>1, <1>4, <1>5, BusyOp DEF Requests

\* What the steps do to the record of their volume.
LEMMA RecordSteps ==
  ASSUME Base, NEW c \in Calls, Handler(c), NEW v, v = calls[c].vol
  PROVE  \/ mem' = mem
         \/ PopRecord(c) /\ mem'[v] = Nil /\ calls'[c].pc \in {"idle", "fill", "put"}
         \/ PutRecord(c) /\ mem'[v] = NewRecord(c)
         \/ DropRecord(c) /\ mem'[v] = Nil
<1>1. mem \in [Volumes -> Record] /\ v \in Volumes
  BY CallFields DEF Base, IInv, RecordsInv
<1>2. CASE PopRecord(c)
  <2>1. mem' = mem \/ mem' = [mem EXCEPT ![v] = Nil]
    BY <1>2 DEF PopRecord, Saved, NotSaved, records
  <2>2. calls'[c].pc \in {"idle", "fill", "put"}
    <3> DEFINE pc == IF mem[v].known /\ v \notin Dynamic THEN "fill" ELSE "put"
    <3>1. calls' = [calls EXCEPT ![c].pc = pc, ![c].rec = mem[v]] => calls'[c].pc = pc
      BY CallFields DEF Base, IInv, CallsInv, Call
    <3>2. Answer(c, FALSE) => calls'[c].pc = "idle"
      BY DEF Answer, Base, IInv, CallsInv, Idle
    <3> QED BY <1>2, <3>1, <3>2 DEF PopRecord
  <2> QED BY <1>1, <1>2, <2>1, <2>2
<1>3. CASE PutRecord(c)
  BY <1>1, <1>3 DEF PutRecord, Saved, NotSaved
<1>4. CASE DropRecord(c)
  BY <1>1, <1>4 DEF DropRecord, Saved, NotSaved, records
<1> QED BY <1>2, <1>3, <1>4 DEF Handler, CheckTarget, MountTarget, MountLower, MountOverlay,
       BindTarget, FillRecord, GetRecord, UnmountNothing, UnmountPlain, UnmountUnconfigured,
       UnmountTarget, UnmountLower, records

LEMMA PutKnown ==
  ASSUME Base, NEW c \in Calls, PutRecord(c), Dyn(c)
  PROVE  NewRecord(c).known
<1>1. CASE calls[c].op = "stage"
  BY <1>1 DEF NewRecord, Dyn
<1>2. CASE calls[c].op # "stage"
  <2>1. calls[c].op = "publish" /\ At(c, "put")
    BY <1>2, BusyOp DEF PutRecord, Busy, At, Mounting
  <2>2. calls[c].rec.known
    BY <2>1 DEF Base, SInv, Settled, At
  <2> QED BY <1>2, <2>2 DEF NewRecord, Dyn
<1> QED BY <1>1, <1>2

\* A volume in use after a step of one of its calls was in use before, unless
\* the step put a record.
LEMMA UsedBefore ==
  ASSUME Base, NEW c \in Calls, Handler(c), NEW v \in Volumes, InUse(v)', ~PutRecord(c)
  PROVE  InUse(v) /\ ~(calls[c].op = "unstage" /\ calls[c].vol = v)
<1>1. Target(c) \in Targets /\ view'[Target(c)] # "yes"
  BY ConfirmedByPut, CallFields DEF Base, IInv
<1>2. ASSUME NEW t \in Targets, view'[t] = "yes" PROVE view[t] = "yes" /\ t # Target(c)
  BY <1>1, <1>2, HandlerElsewhere DEF Base
<1>3. Staging(v) \in Targets /\ \A p \in Pods : <<v, p>> \in Targets
  BY DEF Targets, Staging
<1>4. InUse(v)
  BY <1>2, <1>3 DEF InUse, Staging
<1>5. ASSUME calls[c].op = "unstage", calls[c].vol = v PROVE FALSE
  <2>1. Busy(c) /\ \A p \in Pods : view[<<v, p>>] = "no"
    BY <1>5, HandlerFrame DEF Base, SInv, Settled
  <2>2. Target(c) = Staging(v)
    BY <1>5, <2>1 DEF Base, TInv, CallOK, Target, Staging
  <2> QED BY <1>2, <1>3, <2>1, <2>2 DEF InUse, Staging
<1> QED BY <1>4, <1>5

LEMMA HandlerInHand ==
  ASSUME RecordsKept, Base, RInv, NEW c \in Calls, Handler(c), NEW v \in Dynamic, InUse(v)'
  PROVE  InHand(v)'
<1>1. /\ Busy(c) /\ v \in Volumes
      /\ \A d \in Calls \ {c} : Same(d)
      /\ calls'[c] = Idle \/ Stays(c)
  BY HandlerFrame, DynamicAssumption DEF Base
<1>2. CASE calls[c].vol # v
  <2>1. mem'[v] = mem[v]
    BY <1>1, <1>2, OtherVolumes DEF Base
  <2>2. InUse(v) => InHand(v)
    BY DEF RInv
  <2>3. InUse(v)
    <3>1. ASSUME NEW place \in Pods \cup {"staging"}
          PROVE view'[<<v, place>>] = view[<<v, place>>]
      BY <1>1, <1>2, OtherVolumes DEF Base
    <3> QED BY <3>1 DEF InUse, Staging
  <2> QED BY <1>1, <1>2, <2>1, <2>2, <2>3 DEF InHand, Same, At
<1>3. CASE calls[c].vol = v /\ PutRecord(c)
  BY <1>1, <1>3, PutKnown, RecordSteps, CallFields DEF InHand, Dyn, PutRecord, Saved, NotSaved,
     Base, IInv, RecordsInv
<1>4. CASE calls[c].vol = v /\ ~PutRecord(c)
  <2>1. InUse(v) /\ calls[c].op # "unstage"
    BY <1>1, <1>4, UsedBefore
  <2>2. InHand(v)
    BY <2>1 DEF RInv
  <2>3. ~DropRecord(c)
    BY <1>4, <2>1 DEF DropRecord, Base, SInv, Settled, Dyn, At
  <2>4. ~At(c, "put")
    BY <1>4 DEF Handler, CheckTarget, MountTarget, MountLower, MountOverlay, BindTarget,
       PopRecord, FillRecord, GetRecord, DropRecord, UnmountNothing, UnmountPlain,
       UnmountUnconfigured, UnmountTarget, UnmountLower, At
  <2>5. CASE PopRecord(c)
    <3>1. At(c, "pop") /\ calls[c].op \in {"stage", "publish"}
      BY <1>1, <2>5, BusyOp DEF PopRecord, At, Mounting
    <3>2. \A d \in Calls \ {c} : Busy(d) => calls[d].vol # v
      BY <1>1, <1>4, <3>1, Siblings DEF Base
    <3>3. mem[v].known
      BY <2>2, <2>4, <3>2 DEF InHand, Busy, At
    <3>4. calls' = [calls EXCEPT ![c].pc = "put", ![c].rec = mem[v]]
      BY <1>4, <2>5, <3>3 DEF PopRecord, NotSaved, Fault, RecordsKept
    <3>5. At(c, "put")' /\ calls'[c].vol = v /\ calls'[c].op = calls[c].op
      BY <1>4, <3>4, CallFields DEF At, Base, IInv, CallsInv, Call
    <3>6. calls[c].op = "publish"
      BY <3>1 DEF Base, SInv, Settled, At
    <3> QED BY <3>5, <3>6 DEF InHand
  <2>6. CASE mem' = mem
    BY <1>1, <2>2, <2>4, <2>6 DEF InHand, Same, At
  <2> QED BY <1>4, <2>3, <2>5, <2>6, RecordSteps
<1> QED BY <1>2, <1>3, <1>4

LEMMA NextRecords ==
  ASSUME Patient, RecordsKept, Base, RInv, [Next]_vars
  PROVE  RInv'
<1>1. CASE UNCHANGED <<calls, view, mem, disk>>
  BY <1>1 DEF RInv, InUse, InHand, At, Staging
<1>2. CASE Kubelet
  <2>1. PICK c \in Calls, op \in Requests, v \in Volumes, place \in Pods \cup {"staging"},
             pc \in {"check", "put", "get"} :
          Opens(c, op, v, place, pc) /\ Asks(op, v, place, pc)
    BY <1>2, KubeletAsks DEF Base
  <2>2. ASSUME NEW t \in Targets, view'[t] = "yes" PROVE view[t] = "yes"
    BY <2>1, <2>2 DEF Opens
  <2>3. ASSUME NEW w \in Dynamic, InUse(w)' PROVE InUse(w)
    BY <2>2, <2>3, DynamicAssumption DEF InUse, Targets, Staging
  <2>4. ASSUME NEW w \in Dynamic, InHand(w) PROVE InHand(w)'
    BY <2>1, <2>4 DEF InHand, Opens, Busy, At
  <2> QED BY <2>1, <2>3, <2>4 DEF RInv, Opens
<1>3. ASSUME NEW c \in Calls, Handler(c) PROVE RInv'
  <2>1. disk' = mem'
    <3>1. disk = mem /\ \A m : Saved(m) \/ NotSaved(m) => disk' = mem'
      BY DEF RInv, RecordsKept, Saved, NotSaved, Fault
    <3>2. CASE PopRecord(c)
      BY <3>1, <3>2 DEF PopRecord, records
    <3>4. CASE PutRecord(c)
      BY <3>1, <3>4 DEF PutRecord
    <3>5. CASE DropRecord(c)
      BY <3>1, <3>5 DEF DropRecord, records
    <3>3. CASE UNCHANGED records
      BY <3>1, <3>3 DEF records
    <3> QED BY <1>3, <3>2, <3>3, <3>4, <3>5 DEF Handler, CheckTarget, MountTarget, MountLower, MountOverlay,
         BindTarget, FillRecord, GetRecord, UnmountNothing, UnmountPlain, UnmountUnconfigured,
         UnmountTarget, UnmountLower
  <2> QED BY <1>3, <2>1, HandlerInHand DEF RInv
<1>4. \A v \in Volumes : Syncher(v) \/ PodWrite(v) => UNCHANGED <<calls, view, mem, disk>>
  BY DEF Syncher, SyncUpper, DeleteUpper, PodWrite, records
<1>5. UNCHANGED vars => UNCHANGED <<calls, view, mem, disk>>
  BY DEF vars
<1>6. ~Crash /\ \A c \in Calls : ~Timeout(c)
  BY DEF Patient, RecordsKept, Crash, Timeout, Fault
<1> QED BY <1>1, <1>2, <1>3, <1>4, <1>5, <1>6 DEF Next

LEMMA InitRecords == Init => RInv
BY Places, DynamicAssumption DEF Init, RInv, InUse, Staging, Targets

LEMMA RecordsInvariant ==
  ASSUME Patient, RecordsKept
  PROVE  Spec => [](Base /\ RInv)
<1>1. Base /\ RInv /\ [Next]_vars => RInv'
  BY NextRecords
<1> QED BY <1>1, InitRecords, BaseInvariant, PTL DEF Spec

\* Between calls the record of a dynamic volume some pod uses is there with its
\* configuration, in memory and on disk, unless a restart or a failing save loses
\* it: mounts and umounts may fail, and calls may be repeated.
THEOREM NodeRecordUsable ==
  ASSUME Patient, RecordsKept
  PROVE  Spec => []DynamicRecordUsable
<1>1. ASSUME Base, RInv, NEW v \in Dynamic, NEW p \in Pods, Quiet(v), view[<<v, p>>] = "yes"
      PROVE  mem[v].known /\ mem[v].cfg /\ disk[v] = mem[v]
  <2>1. InHand(v)
    BY <1>1 DEF RInv, InUse
  <2>2. mem[v].known
    BY <1>1, <2>1 DEF InHand, Quiet, At
  <2>3. mem[v] \in Record /\ WholeRecord(v, mem[v])
    BY <1>1, DynamicAssumption DEF Base, IInv, RecordsInv
  <2> QED BY <1>1, <2>2, <2>3 DEF WholeRecord, RInv
<1>2. Base /\ RInv => DynamicRecordUsable
  BY <1>1 DEF DynamicRecordUsable, Usable
<1> QED BY <1>2, RecordsInvariant, PTL
----------------------------------------------------------------------------
(* Lower layers: irodsfs is on the lower directory of an overlay only      *)
(* while its volume is staged and its record is in somebody's hands, so    *)
(* that the release finds it.                                              *)

\* Commands and saves succeed; the driver may restart.
CommandsSucceed == {"mount", "umount", "save"} \cap Hazards = {}

OnLower(v) == mnt[Lower(v)] = <<"live">>
Held(v) ==
  \/ \E c \in Calls : /\ calls[c].vol = v /\ calls[c].op = "stage"
                      /\ calls[c].pc \in {"overlay", "put"}
  \/ /\ mnt[Staging(v)] # <<>>
     /\ \/ mem[v].known
        \/ \E c \in Calls : calls[c].vol = v /\ calls[c].op = "publish" /\ At(c, "put")
        \/ \E c \in Calls : /\ calls[c].vol = v /\ calls[c].op = "unstage"
                            /\ calls[c].pc \in {"drop", "unmount"} /\ calls[c].rec.known
  \/ \E c \in Calls : calls[c].vol = v /\ At(c, "lower")

LowerOK(v) ==
  /\ mnt[Lower(v)] \in Stacks
  /\ OnLower(v) => Held(v)
  /\ irods[v] = "intact"
LInv == \A v \in Volumes : LowerOK(v)

LEMMA NoFailure ==
  ASSUME CommandsSucceed
  PROVE  /\ \A c \in Calls : ~MountError(c) /\ ~UmountError(c)
         /\ \A m : ~NotSaved(m)
BY DEF CommandsSucceed, MountError, UmountError, NotSaved, Fault

\* A call that is alone with its volume is itself what holds the lower layer, or
\* the record in the manager is.
LEMMA HeldAlone ==
  ASSUME Base, NEW c \in Calls, Busy(c), calls[c].op # "unpublish", Held(calls[c].vol)
  PROVE  \/ calls[c].op = "stage" /\ calls[c].pc \in {"overlay", "put"}
         \/ /\ mnt[Staging(calls[c].vol)] # <<>>
            /\ \/ mem[calls[c].vol].known
               \/ At(c, "put")
               \/ calls[c].pc \in {"drop", "unmount"} /\ calls[c].rec.known
         \/ At(c, "lower")
<1>1. \A d \in Calls \ {c} : Busy(d) => calls[d].vol # calls[c].vol
  BY Siblings DEF Base
<1>2. \A d \in Calls : d # c /\ calls[d].vol = calls[c].vol => calls[d].pc = "idle"
  BY <1>1 DEF Busy, At
<1> QED BY <1>2 DEF Held, At

\* Nothing changes for a volume the step does not work on, ...
LEMMA LowerOther ==
  ASSUME Base, LInv, NEW c \in Calls, Handler(c), NEW w \in Volumes, w # calls[c].vol
  PROVE  LowerOK(w)'
<1>1. w \in Volumes \ {calls[c].vol} /\ "staging" \in Pods \cup {"staging"}
  OBVIOUS
<1>2. /\ mnt'[Staging(w)] = mnt[Staging(w)] /\ mnt'[Lower(w)] = mnt[Lower(w)]
      /\ mem'[w] = mem[w] /\ irods'[w] = irods[w]
  BY <1>1, OtherVolumes DEF Base, Staging
<1>3. \A d \in Calls \ {c} : Same(d)
  BY HandlerFrame DEF Base
<1>4. Held(w) => Held(w)'
  BY <1>2, <1>3 DEF Held, Same, At, Staging
<1> QED BY <1>2, <1>4 DEF LInv, LowerOK, OnLower, Lower

\* ... nor for one that keeps what holds its lower layer.
LEMMA LowerKept ==
  ASSUME LInv, NEW v \in Volumes, mnt'[Lower(v)] = mnt[Lower(v)], irods'[v] = irods[v],
         OnLower(v) => Held(v)'
  PROVE  LowerOK(v)'
BY DEF LInv, LowerOK, OnLower, Lower

\* An unpublish leaves the staging target and the record alone.
LEMMA LowerSibling ==
  ASSUME StagedOverlays, Base, LInv, NEW c \in Calls, Handler(c), calls[c].op = "unpublish",
         NEW v \in Volumes, v = calls[c].vol, HasOverlay(v)
  PROVE  LowerOK(v)'
<1>1. /\ Busy(c) /\ Dyn(c) /\ calls[c].pc \in Releasing /\ CallOK(c)
      /\ \A d \in Calls \ {c} : Same(d)
  BY HandlerFrame, BusyOp, CallFields DEF Base, IInv, TInv, StagedOverlays, Dyn
<1>2. ~At(c, "lower") /\ ~At(c, "drop") /\ ~At(c, "pop") /\ ~At(c, "put") /\ ~At(c, "mount")
      /\ ~At(c, "overlay")
  BY <1>1 DEF Base, SInv, Settled, At, Releasing
<1>3. mem' = mem /\ irods' = irods
  BY <1>1, <1>2 DEF Handler, CheckTarget, MountTarget, MountLower, MountOverlay, BindTarget,
       PopRecord, FillRecord, PutRecord, GetRecord, DropRecord, UnmountNothing, UnmountPlain,
       UnmountUnconfigured, UnmountTarget, UnmountLower, records, layers
<1>4. mnt'[Lower(v)] = mnt[Lower(v)]
  BY <1>1, <1>2, LowerSteps DEF Base, MountLower, UnmountLower
<1>5. mnt'[Staging(v)] = mnt[Staging(v)]
  <2>1. Staging(v) \in Targets \ {Target(c)}
    BY <1>1 DEF CallOK, Staging, Target, Targets, At
  <2> QED BY <2>1, HandlerElsewhere DEF Base
<1>6. Held(v) => Held(v)'
  BY <1>1, <1>2, <1>3, <1>5 DEF Held, Same, At, Staging
<1> QED BY <1>3, <1>4, <1>6, LowerKept DEF LInv, LowerOK

\* A call that has its overlay volume for itself.
Works(c, v) == Busy(c) /\ v = calls[c].vol /\ HasOverlay(v) /\ calls[c].op # "unpublish"
Resident(v) == mnt[Staging(v)] # <<>> /\ mem[v].known

LEMMA WorksFacts ==
  ASSUME StagedOverlays, Base, NEW c \in Calls, NEW v \in Volumes, Works(c, v)
  PROVE  /\ v \in Dynamic /\ Dyn(c) /\ CallOK(c) /\ MountOK(c) /\ Settled(c)
         /\ calls[c].rec \in Record /\ WholeRecord(v, calls[c].rec)
         /\ mem[v] \in Record /\ WholeRecord(v, mem[v])
         /\ calls[c].op \in {"stage", "publish", "unstage"}
         /\ calls[c].op \in {"stage", "unstage"} => Target(c) = Staging(v)
         /\ Target(c) \in Targets /\ Lower(v) \in Paths /\ Staging(v) \in Targets \cap Paths
<1>1. /\ v \in Dynamic /\ CallOK(c) /\ MountOK(c) /\ Settled(c)
  BY DEF StagedOverlays, Works, Base, TInv, SInv
<1>2. /\ calls[c].rec \in Record /\ WholeRecord(v, calls[c].rec)
      /\ mem[v] \in Record /\ WholeRecord(v, mem[v]) /\ Target(c) \in Targets
  BY CallFields DEF Works, Base, IInv, RecordsInv
<1>3. calls[c].op \in {"stage", "publish", "unstage"}
  BY BusyOp DEF Works, Requests
<1>4. calls[c].op \in {"stage", "unstage"} => Target(c) = Staging(v)
  BY <1>1 DEF Works, CallOK, Target, Staging
<1> QED BY <1>1, <1>2, <1>3, <1>4, Places DEF Works, Dyn

LEMMA LowerByRecord ==
  ASSUME LInv, NEW v \in Volumes, mnt'[Lower(v)] = mnt[Lower(v)], irods'[v] = irods[v],
         mnt'[Staging(v)] = mnt[Staging(v)], OnLower(v) => mnt[Staging(v)] # <<>> /\ mem'[v].known
  PROVE  LowerOK(v)'
<1>1. OnLower(v) => Held(v)'
  BY DEF Held, Staging
<1> QED BY <1>1, LowerKept

LEMMA LowerMounting ==
  ASSUME StagedOverlays, CommandsSucceed, Base, LInv, NEW c \in Calls, NEW v \in Volumes,
         Works(c, v),
         CheckTarget(c) \/ MountTarget(c) \/ MountLower(c) \/ MountOverlay(c) \/ BindTarget(c)
  PROVE  LowerOK(v)'
<1> USE WorksFacts
<1>1. CASE CheckTarget(c)
  <2>1. mnt' = mnt /\ mem' = mem /\ irods' = irods /\ (Held(v) => Resident(v))
    BY <1>1, HeldAlone DEF CheckTarget, records, layers, At, Works, Resident
  <2> QED BY <2>1, LowerByRecord DEF Resident, LInv, LowerOK
<1>2. ~MountTarget(c)
  BY DEF MountTarget, Works
<1>3. CASE MountLower(c)
  <2>1. calls[c].op = "stage" /\ At(c, "mount") /\ mnt[Staging(v)] = <<>>
    BY <1>3 DEF MountLower, Settled, MountOK, At
  <2>2. ~Held(v)
    BY <2>1, HeldAlone DEF Works, At
  <2>3. mnt[Lower(v)] \in {<<>>, <<"dead">>} /\ irods[v] = "intact" /\ irods' = irods
    BY <1>3, <2>2 DEF LInv, LowerOK, OnLower, Stacks, MountLower, layers
  <2>4. CASE mnt' = mnt
    BY <2>2, <2>3, <2>4, LowerKept DEF LInv, LowerOK
  <2>5. CASE mnt' = Pushed(Lower(v), "live") /\ Top(Lower(v)) # "dead" /\ Goto(c, "overlay")
    <3>1. mnt[Lower(v)] = <<>>
      BY <2>3, <2>5 DEF Top
    <3>2. mnt'[Lower(v)] = <<"live">>
      BY <2>5, <3>1 DEF Pushed, Base, IInv, MountsInv
    <3>3. calls'[c].pc = "overlay" /\ calls'[c].vol = v /\ calls'[c].op = "stage"
      BY <2>1, <2>5, CallFields DEF Goto, Base, IInv, CallsInv, Call, Works
    <3>4. Held(v)'
      BY <3>3 DEF Held
    <3> QED BY <2>3, <3>2, <3>4 DEF LowerOK, Stacks, Lower
  <2> QED BY <1>3, <2>4, <2>5, NoFailure DEF MountLower, Works
<1>4. CASE MountOverlay(c)
  <2>1. calls[c].op = "stage" /\ Goto(c, "put") /\ irods' = irods
    BY <1>4, NoFailure DEF MountOverlay, AfterMount, Settled, At
  <2>2. calls'[c].pc = "put" /\ calls'[c].vol = v /\ calls'[c].op = "stage"
    BY <2>1, CallFields DEF Goto, Base, IInv, CallsInv, Call, Works
  <2>3. mnt'[Lower(v)] = mnt[Lower(v)]
    BY <1>4, LowerSteps DEF MountOverlay, MountLower, UnmountLower, At, Handler, Base
  <2>4. Held(v)'
    BY <2>2 DEF Held
  <2> QED BY <2>1, <2>3, <2>4, LowerKept DEF LInv, LowerOK
<1>5. CASE BindTarget(c)
  <2>1. mem' = mem /\ irods' = irods /\ (Held(v) => Resident(v)) /\ calls[c].op = "publish"
    BY <1>5, HeldAlone DEF BindTarget, records, layers, At, Works, Resident, CallOK
  <2>2. mnt'[Lower(v)] = mnt[Lower(v)]
    BY <1>5, LowerSteps DEF BindTarget, MountLower, UnmountLower, At, Handler, Base
  <2>3. Staging(v) # Target(c)
    BY <2>1 DEF CallOK, Works, Staging, Target
  <2>4. mnt'[Staging(v)] = mnt[Staging(v)]
    BY <1>5, <2>3, HandlerElsewhere DEF Handler, Base
  <2> QED BY <2>1, <2>2, <2>4, LowerByRecord DEF Resident, LInv, LowerOK
<1> QED BY <1>1, <1>2, <1>3, <1>4, <1>5

LEMMA LowerRecord ==
  ASSUME StagedOverlays, CommandsSucceed, Base, LInv, NEW c \in Calls, NEW v \in Volumes,
         Works(c, v),
         PopRecord(c) \/ FillRecord(c) \/ PutRecord(c) \/ GetRecord(c) \/ DropRecord(c)
  PROVE  LowerOK(v)'
<1> USE WorksFacts
<1>0. mnt' = mnt /\ irods' = irods
  BY DEF PopRecord, FillRecord, PutRecord, GetRecord, DropRecord, layers
<1>1. CASE PopRecord(c)
  <2>1. Held(v) => Resident(v) /\ calls[c].op = "publish"
    BY <1>1, HeldAlone DEF PopRecord, At, Works, Resident, Settled
  <2>2. ASSUME Held(v) PROVE Held(v)'
    <3>1. calls' = [calls EXCEPT ![c].pc = "put", ![c].rec = mem[v]]
      BY <1>1, <2>1, <2>2, NoFailure DEF PopRecord, Resident, Works
    <3>2. At(c, "put")' /\ calls'[c].vol = v /\ calls'[c].op = "publish"
      BY <2>1, <2>2, <3>1, CallFields DEF At, Base, IInv, CallsInv, Call, Works
    <3> QED BY <1>0, <2>1, <2>2, <3>2 DEF Held, Resident, Staging
  <2> QED BY <1>0, <2>2, LowerKept DEF LInv, LowerOK
<1>2. CASE PutRecord(c)
  <2>1. mem'[v].known
    BY <1>2, PutKnown DEF PutRecord, Saved, NotSaved, Base, IInv, RecordsInv, Works
  <2>2. Held(v) => mnt[Staging(v)] # <<>>
    BY <1>2, HeldAlone DEF PutRecord, MountOK, At, Works
  <2> QED BY <1>0, <2>1, <2>2, LowerByRecord DEF LInv, LowerOK
<1>3. CASE GetRecord(c)
  <2>1. Held(v) => Resident(v) /\ calls[c].op = "unstage"
    BY <1>3, HeldAlone DEF GetRecord, At, Works, Resident, CallOK, Releasing
  <2>2. mem' = mem
    BY <1>3 DEF GetRecord, records
  <2> QED BY <1>0, <2>1, <2>2, LowerByRecord DEF Resident, LInv, LowerOK
<1>4. CASE DropRecord(c)
  <2>1. /\ calls[c].op = "unstage" /\ At(c, "drop") /\ calls[c].rec.known
        /\ calls[c].rec.dyn
        /\ Held(v) => mnt[Staging(v)] # <<>>
    BY <1>4, HeldAlone DEF DropRecord, At, Works, Settled, CallOK, WholeRecord
  <2>2. Goto(c, "unmount")
    BY <1>4, <2>1, NoFailure DEF DropRecord, AfterDrop
  <2>3. /\ calls'[c].pc = "unmount" /\ calls'[c].vol = v /\ calls'[c].op = "unstage"
        /\ calls'[c].rec = calls[c].rec
    BY <2>1, <2>2, CallFields DEF Goto, Base, IInv, CallsInv, Call, Works
  <2>4. Held(v) => Held(v)'
    BY <1>0, <2>1, <2>3 DEF Held, Staging
  <2> QED BY <1>0, <2>4, LowerKept DEF LInv, LowerOK
<1>5. ~FillRecord(c)
  BY DEF FillRecord, CallOK, At, Works
<1> QED BY <1>1, <1>2, <1>3, <1>4, <1>5

LEMMA LowerUnmounting ==
  ASSUME StagedOverlays, CommandsSucceed, Base, LInv, NEW c \in Calls, NEW v \in Volumes,
         Works(c, v),
         UnmountNothing(c) \/ UnmountPlain(c) \/ UnmountUnconfigured(c) \/ UnmountTarget(c)
  PROVE  LowerOK(v)'
<1> USE WorksFacts
<1>1. At(c, "unmount") /\ calls[c].op = "unstage" /\ ~mem[v].known /\ Target(c) = Staging(v)
  BY DEF UnmountNothing, UnmountPlain, UnmountUnconfigured, UnmountTarget, At, CallOK, Releasing,
         Settled, Works
<1>2. Held(v) => mnt[Staging(v)] # <<>> /\ calls[c].rec.known
  BY <1>1, HeldAlone DEF Works, At
<1>3. Held(v) => ~PlainUnmount(c) /\ calls[c].rec.cfg
  BY <1>1, <1>2 DEF PlainUnmount, WholeRecord
<1>4. irods' = irods /\ mnt'[Lower(v)] = mnt[Lower(v)]
  <2>1. irods' = irods
    BY DEF UnmountNothing, UnmountPlain, UnmountUnconfigured, UnmountTarget, layers
  <2>2. ~MountLower(c) /\ ~UnmountLower(c)
    BY <1>1 DEF MountLower, UnmountLower, At
  <2> QED BY <2>1, <2>2, LowerSteps DEF Handler, Base
<1>5. ASSUME Held(v) PROVE Held(v)'
  <2>1. Goto(c, "lower")
    BY <1>1, <1>2, <1>3, <1>5, NoFailure DEF UnmountNothing, UnmountPlain, UnmountUnconfigured,
       UnmountTarget, Works
  <2>2. At(c, "lower")' /\ calls'[c].vol = v
    BY <2>1, CallFields DEF Goto, Base, IInv, CallsInv, Call, Works, At
  <2> QED BY <2>2 DEF Held
<1> QED BY <1>4, <1>5, LowerKept DEF LInv, LowerOK

LEMMA LowerReleasing ==
  ASSUME StagedOverlays, CommandsSucceed, Base, LInv, NEW c \in Calls, NEW v \in Volumes,
         Works(c, v), UnmountLower(c)
  PROVE  LowerOK(v)'
<1>1. /\ mnt[Lower(v)] \in Stacks /\ irods[v] = "intact" /\ Lower(v) \in Paths
      /\ mnt \in [Paths -> Seq(MountKinds)] /\ irods \in [Volumes -> {"intact", "wiped"}]
  BY Places DEF LInv, LowerOK, Base, IInv, MountsInv, FilesInv
<1>2. CASE mnt' = mnt /\ irods' = irods /\ mnt[Lower(v)] = <<>>
  BY <1>1, <1>2 DEF LowerOK, OnLower, Lower
<1>3. CASE mnt' = [mnt EXCEPT ![Lower(v)] = Pop(@)] /\ irods' = AfterRemoveAll(v, Pop(mnt[Lower(v)]))
  <2>1. Pop(mnt[Lower(v)]) = <<>>
    BY <1>1, StackFacts
  <2> QED BY <1>1, <1>3, <2>1 DEF AfterRemoveAll, LowerOK, OnLower, Stacks, Lower
<1> QED BY <1>2, <1>3, NoFailure DEF UnmountLower, Works

LEMMA HandlerLower ==
  ASSUME StagedOverlays, CommandsSucceed, Base, Base', LInv, NEW c \in Calls, Handler(c)
  PROVE  LInv'
<1> SUFFICES ASSUME NEW v \in Volumes PROVE LowerOK(v)'
  BY DEF LInv
<1>1. Busy(c)
  BY HandlerFrame DEF Base
<1>2. CASE v # calls[c].vol
  BY <1>2, LowerOther
<1>3. CASE v = calls[c].vol /\ ~HasOverlay(v)
  <2>1. mnt[Lower(v)] = <<>> /\ mnt'[Lower(v)] = <<>>
    BY <1>3 DEF Base, SInv, NoLower, HasOverlay, Lower
  <2>2. irods' = irods
    <3>1. ~UnmountLower(c)
      BY <1>3 DEF UnmountLower, Base, SInv, Settled, At
    <3> QED BY <3>1 DEF Handler, CheckTarget, MountTarget, MountLower, MountOverlay, BindTarget,
       PopRecord, FillRecord, PutRecord, GetRecord, DropRecord, UnmountNothing, UnmountPlain,
       UnmountUnconfigured, UnmountTarget, layers
  <2>3. ~OnLower(v)
    BY <2>1 DEF OnLower
  <2> QED BY <2>1, <2>2, <2>3, LowerKept
<1>4. CASE v = calls[c].vol /\ HasOverlay(v) /\ calls[c].op = "unpublish"
  BY <1>4, LowerSibling
<1>5. CASE Works(c, v)
  BY <1>5, LowerMounting, LowerRecord, LowerUnmounting, LowerReleasing DEF Handler
<1> QED BY <1>1, <1>2, <1>3, <1>4, <1>5 DEF Works

\* A restart leaves no live mount on a lower directory.
LEMMA CrashLower ==
  ASSUME Base, LInv, Crash, NEW v \in Volumes
  PROVE  LowerOK(v)' /\ mnt'[Lower(v)] \in {<<>>, <<"dead">>}
<1>1. mnt[Lower(v)] \in Stacks /\ irods'[v] = "intact" /\ Lower(v) \in Paths
      /\ (mnt[Lower(v)] = <<>> \/ HasOverlay(v))
  BY Places DEF LInv, LowerOK, Crash, Base, SInv, NoLower
<1>2. Killed(Lower(v)) \in {<<>>, <<"dead">>}
  <2>1. CASE mnt[Lower(v)] = <<>>
    BY <2>1 DEF Killed
  <2>2. ASSUME NEW kind \in {"live", "dead"}, mnt[Lower(v)] = <<kind>>, HasOverlay(v)
        PROVE  Killed(Lower(v)) = <<"dead">>
    <3>1. DOMAIN mnt[Lower(v)] = {1} /\ mnt[Lower(v)][1] = kind
      BY <2>2
    <3>2. ServedByProcess(Lower(v))
      BY <2>2 DEF ServedByProcess, Lower, HasOverlay
    <3>3. Killed(Lower(v)) = [i \in {1} |-> "dead"]
      BY <2>2, <3>1, <3>2 DEF Killed
    <3> QED BY <3>3
  <2> QED BY <1>1, <2>1, <2>2 DEF Stacks
<1>3. mnt'[Lower(v)] \in {<<>>, <<"dead">>}
  BY <1>1, <1>2 DEF Crash, LocalDirectoriesLost
<1>4. <<"dead">> # <<"live">> /\ <<>> # <<"live">>
  OBVIOUS
<1>5. ~OnLower(v)'
  BY <1>3, <1>4 DEF OnLower, Lower
<1> QED BY <1>1, <1>3, <1>5 DEF LowerOK, Stacks, Lower

LEMMA NextLower ==
  ASSUME Patient, StagedOverlays, CommandsSucceed, Base, Base', LInv, [Next]_vars
  PROVE  LInv'
<1>1. CASE UNCHANGED <<calls, mnt, mem, irods>>
  BY <1>1 DEF LInv, LowerOK, OnLower, Held, At, Staging, Lower
<1>2. CASE Kubelet
  <2>1. PICK c \in Calls, op \in Requests, v \in Volumes, place \in Pods \cup {"staging"},
             pc \in {"check", "put", "get"} :
          Opens(c, op, v, place, pc) /\ Asks(op, v, place, pc)
    BY <1>2, KubeletAsks DEF Base
  <2>2. ASSUME NEW w \in Volumes, Held(w) PROVE Held(w)'
    BY <2>1, <2>2 DEF Held, Opens, Busy, At, Staging
  <2> QED BY <2>1, <2>2, LowerKept DEF LInv, LowerOK, Opens
<1>3. \A v \in Volumes : Syncher(v) \/ PodWrite(v) => UNCHANGED <<calls, mnt, mem, irods>>
  BY DEF Syncher, SyncUpper, DeleteUpper, PodWrite, records
<1>4. UNCHANGED vars => UNCHANGED <<calls, mnt, mem, irods>>
  BY DEF vars
<1>5. \A c \in Calls : ~Timeout(c)
  BY DEF Patient, Timeout, Fault
<1>6. CASE Crash
  BY <1>6, CrashLower DEF LInv
<1> QED BY <1>1, <1>2, <1>3, <1>4, <1>5, <1>6, HandlerLower DEF Next

LEMMA InitLower == Init => LInv
<1> SUFFICES ASSUME Init, NEW v \in Volumes PROVE LowerOK(v)
  BY DEF LInv
<1>1. mnt[Lower(v)] = <<>> /\ irods[v] = "intact"
  BY Places DEF Init
<1>2. <<>> # <<"live">>
  OBVIOUS
<1> QED BY <1>1, <1>2 DEF LowerOK, OnLower, Stacks

LEMMA LowerInvariant ==
  ASSUME Patient, StagedOverlays, CommandsSucceed
  PROVE  Spec => [](Base /\ LInv)
<1>1. Base /\ Base' /\ LInv /\ [Next]_vars => LInv'
  BY NextLower
<1> QED BY <1>1, InitLower, BaseInvariant, PTL DEF Spec

\* The recursive removal of a released lower directory never goes through a mount
\* of the collection: what was mounted there is one mount, and the umount before
\* takes it away, also after restarts and with torn records.
THEOREM NodeKeepsIrods ==
  ASSUME Patient, StagedOverlays, CommandsSucceed
  PROVE  Spec => []IrodsIntact
<1>1. LInv => IrodsIntact
  BY DEF LInv, LowerOK, IrodsIntact
<1> QED BY <1>1, LowerInvariant, PTL
----------------------------------------------------------------------------
(* Releases: without restarts the lower directory is mounted for as long   *)
(* as the staging target is, so that the release always finds its mount.   *)

NoRestart == "crash" \notin Hazards

Nested(v) ==
  /\ mnt[Lower(v)] # <<"dead">>
  /\ HasOverlay(v) /\ mnt[Staging(v)] # <<>> => mnt[Lower(v)] # <<>>
Detaching(c) == At(c, "lower") => mnt[Lower(calls[c].vol)] # <<>>
NInv == (\A v \in Volumes : Nested(v)) /\ (\A c \in Calls : Detaching(c))

\* Only the overlay client stages an overlay.
LEMMA StagingSteps ==
  ASSUME StagedOverlays, Base, NEW c \in Calls, Handler(c), NEW v \in Volumes, v = calls[c].vol,
         HasOverlay(v), mnt[Staging(v)] = <<>>, mnt'[Staging(v)] # <<>>
  PROVE  MountOverlay(c)
<1>1. Staging(v) = Target(c) /\ Staging(v) \in Targets /\ Lower(v) # Staging(v)
  BY HandlerElsewhere, Places DEF Base
<1>2. mnt \in [Paths -> Seq(MountKinds)] /\ Staging(v) \in Paths
  BY Places DEF Base, IInv, MountsInv
<1>3. ~MountTarget(c)
  BY DEF MountTarget
<1>4. ~BindTarget(c)
  BY <1>1 DEF BindTarget, Base, TInv, CallOK, At, Busy, Target, Staging
<1>5. ~MountLower(c) /\ ~UnmountLower(c)
  BY <1>1, <1>2 DEF MountLower, UnmountLower, Pushed, Popped
<1>6. ~UnmountPlain(c) /\ ~UnmountTarget(c)
  BY <1>1 DEF UnmountPlain, UnmountTarget
<1>7. mnt' # mnt
  OBVIOUS
<1> QED BY <1>3, <1>4, <1>5, <1>6, <1>7 DEF Handler, CheckTarget, PopRecord, FillRecord,
        PutRecord, GetRecord, DropRecord, UnmountNothing, UnmountUnconfigured

LEMMA HandlerNested ==
  ASSUME StagedOverlays, CommandsSucceed, Base, LInv, LInv', NInv, NEW c \in Calls, Handler(c), NEW v \in Volumes
  PROVE  Nested(v)'
<1>1. mnt \in [Paths -> Seq(MountKinds)] /\ Lower(v) \in Paths /\ Lower(v) # Staging(v)
      /\ Staging(v) \in Targets
  BY Places DEF Base, IInv, MountsInv
<1>2. mnt[Lower(v)] \in Stacks /\ mnt'[Lower(v)] \in Stacks /\ Nested(v)
  BY DEF LInv, LowerOK, NInv, Lower
<1>3. CASE v # calls[c].vol
  <2>1. mnt'[Lower(v)] = mnt[Lower(v)] /\ mnt'[Staging(v)] = mnt[Staging(v)]
    BY <1>3, OtherVolumes DEF Base, Staging
  <2> QED BY <1>2, <2>1 DEF Nested, Lower, Staging, HasOverlay
<1>4. CASE MountLower(c) /\ v = calls[c].vol /\ mnt' = Pushed(Lower(v), "live")
  <2>1. mnt'[Lower(v)] = Append(mnt[Lower(v)], "live")
    BY <1>1, <1>4 DEF Pushed
  <2>2. Append(<<>>, "live") # <<>> /\ Append(<<>>, "live") # <<"dead">>
    OBVIOUS
  <2>3. ASSUME NEW kind \in {"live", "dead"}
        PROVE  Append(<<kind>>, "live") # <<>> /\ Append(<<kind>>, "live") # <<"dead">>
    <3>1. Len(Append(<<kind>>, "live")) = 2 /\ Len(<<"dead">>) = 1
      OBVIOUS
    <3> QED BY <3>1
  <2>4. mnt'[Lower(v)] # <<"dead">> /\ mnt'[Lower(v)] # <<>>
    BY <1>2, <2>1, <2>2, <2>3 DEF Stacks
  <2> QED BY <2>4 DEF Nested, Lower
<1>5. CASE UnmountLower(c) /\ v = calls[c].vol /\ mnt' = [mnt EXCEPT ![Lower(v)] = Pop(@)]
  <2>1. mnt'[Lower(v)] = <<>>
    BY <1>1, <1>2, <1>5, StackFacts
  <2>2. HasOverlay(v) => mnt[Staging(v)] = <<>>
    <3>1. HasOverlay(v) => Target(c) = Staging(v)
      BY <1>5 DEF UnmountLower, At, Base, SInv, Settled, Dyn, StagedOverlays, TInv, CallOK, Busy,
         Target, Staging
    <3>2. mnt[Target(c)] = <<>>
      BY <1>5 DEF UnmountLower, At, Base, TInv, MountOK
    <3> QED BY <3>1, <3>2
  <2>3. mnt'[Staging(v)] = mnt[Staging(v)]
    BY <1>1, <1>5, Places
  <2> QED BY <2>1, <2>2, <2>3 DEF Nested, Lower, Staging, HasOverlay
<1>6. CASE v = calls[c].vol /\ mnt'[Lower(v)] = mnt[Lower(v)]
  <2>1. HasOverlay(v) /\ mnt'[Staging(v)] # <<>> => mnt[Lower(v)] # <<>>
    <3>1. MountOverlay(c) => mnt[Lower(v)] # <<>>
      BY <1>6 DEF MountOverlay, Base, TInv, MountOK, Top, At
    <3> QED BY <1>2, <1>6, <3>1, StagingSteps DEF Nested
  <2> QED BY <1>2, <1>6, <2>1 DEF Nested, Lower, Staging, HasOverlay
<1>7. CASE v = calls[c].vol /\ mnt'[Lower(v)] # mnt[Lower(v)]
  <2>1. MountLower(c) \/ UnmountLower(c)
    BY <1>7, LowerSteps DEF Base
  <2>2. MountLower(c) => mnt' = Pushed(Lower(v), "live")
    BY <1>7, NoFailure DEF MountLower
  <2>3. UnmountLower(c) => mnt' = [mnt EXCEPT ![Lower(v)] = Pop(@)]
    BY <1>7 DEF UnmountLower
  <2> QED BY <1>4, <1>5, <1>7, <2>1, <2>2, <2>3
<1> QED BY <1>3, <1>6, <1>7

LEMMA HandlerDetaching ==
  ASSUME StagedOverlays, Base, NInv, NEW c \in Calls, Handler(c), NEW d \in Calls
  PROVE  Detaching(d)'
<1> DEFINE v == calls[c].vol
<1>1. /\ Busy(c) /\ v \in Volumes /\ \A e \in Calls \ {c} : Same(e)
      /\ calls'[c] = Idle \/ Stays(c)
  BY HandlerFrame, CallFields DEF Base, IInv
<1>2. CASE d # c /\ At(d, "lower")
  <2>1. calls[d].op = "unstage" /\ Busy(d) /\ calls[d].vol \in Volumes
    BY <1>2, CallFields DEF Base, SInv, Settled, StagedOverlays, Dyn, At, Busy, IInv
  <2>2. calls[d].vol # v
    BY <1>1, <1>2, <2>1, Siblings DEF Base
  <2>3. mnt'[Lower(calls[d].vol)] = mnt[Lower(calls[d].vol)]
    BY <2>1, <2>2, OtherVolumes DEF Base
  <2>4. mnt[Lower(calls[d].vol)] # <<>>
    BY <1>2 DEF NInv, Detaching
  <2> QED BY <1>1, <1>2, <2>3, <2>4 DEF Detaching, Same, Lower
<1>3. CASE d # c /\ ~At(d, "lower")
  BY <1>1, <1>3 DEF Detaching, Same, At
<1>4. CASE d = c /\ calls'[c].pc = "lower"
  <2>1. Stays(c)
    BY <1>1, <1>4 DEF Idle
  <2>2. /\ HasOverlay(v) /\ At(c, "unmount") /\ calls[c].op = "unstage"
    BY <1>1, <1>4, <2>1, HandlerArrives DEF Arrives, Base, Stays, Dyn, StagedOverlays
  <2>3. ~UnmountNothing(c) /\ ~Answer(c, FALSE)
    <3>1. \A ok : Answer(c, ok) => calls'[c] = Idle
      BY DEF Answer, Base, IInv, CallsInv
    <3>2. calls'[c] # Idle
      BY <1>4 DEF Idle
    <3> QED BY <3>1, <3>2 DEF UnmountNothing
  <2>4. mnt[Target(c)] # <<>>
    BY <2>2, <2>3 DEF Handler, CheckTarget, MountTarget, MountLower, MountOverlay, BindTarget,
       PopRecord, FillRecord, PutRecord, GetRecord, DropRecord, UnmountPlain, UnmountUnconfigured,
       UnmountTarget, UnmountLower, At
  <2>5. Target(c) = Staging(v)
    BY <1>1, <2>2 DEF Base, TInv, CallOK, Target, Staging
  <2>6. mnt[Lower(v)] # <<>>
    BY <1>1, <2>2, <2>4, <2>5 DEF NInv, Nested
  <2>7. mnt'[Lower(v)] = mnt[Lower(v)]
    BY <1>1, <2>2, LowerSteps DEF Base, MountLower, UnmountLower, At
  <2> QED BY <1>4, <2>1, <2>6, <2>7 DEF Detaching, Stays, Lower
<1>5. CASE d = c /\ calls'[c].pc # "lower"
  BY <1>5 DEF Detaching, At
<1> QED BY <1>2, <1>3, <1>4, <1>5

LEMMA NextNested ==
  ASSUME Patient, StagedOverlays, CommandsSucceed, NoRestart, Base, LInv, LInv', NInv, [Next]_vars
  PROVE  NInv'
<1>1. CASE UNCHANGED <<calls, mnt>>
  BY <1>1 DEF NInv, Nested, Detaching, At, Lower, Staging, HasOverlay
<1>2. CASE Kubelet
  <2>1. PICK c \in Calls, op \in Requests, v \in Volumes, place \in Pods \cup {"staging"},
             pc \in {"check", "put", "get"} :
          Opens(c, op, v, place, pc) /\ Asks(op, v, place, pc)
    BY <1>2, KubeletAsks DEF Base
  <2>2. ASSUME NEW d \in Calls PROVE Detaching(d)'
    BY <2>1 DEF Opens, NInv, Detaching, At, Lower
  <2> QED BY <2>1, <2>2 DEF NInv, Nested, Opens, Lower, Staging, HasOverlay
<1>3. \A v \in Volumes : Syncher(v) \/ PodWrite(v) => UNCHANGED <<calls, mnt>>
  BY DEF Syncher, SyncUpper, DeleteUpper, PodWrite
<1>4. UNCHANGED vars => UNCHANGED <<calls, mnt>>
  BY DEF vars
<1>5. ~Crash /\ \A c \in Calls : ~Timeout(c)
  BY DEF Patient, NoRestart, Crash, Timeout, Fault
<1>6. ASSUME NEW c \in Calls, Handler(c) PROVE NInv'
  BY <1>6, HandlerNested, HandlerDetaching DEF NInv
<1> QED BY <1>1, <1>2, <1>3, <1>4, <1>5, <1>6 DEF Next

LEMMA InitNested == Init => NInv
<1> SUFFICES ASSUME Init PROVE NInv
  OBVIOUS
<1>1. ASSUME NEW v \in Volumes PROVE Nested(v)
  <2>1. mnt[Lower(v)] = <<>> /\ mnt[Staging(v)] = <<>>
    BY Places DEF Init
  <2>2. <<>> # <<"dead">>
    OBVIOUS
  <2> QED BY <2>1, <2>2 DEF Nested
<1> QED BY <1>1 DEF Init, NInv, Detaching, At, Idle

LEMMA NestedInvariant ==
  ASSUME Patient, StagedOverlays, CommandsSucceed, NoRestart
  PROVE  Spec => [](Base /\ LInv /\ NInv)
<1>1. Base /\ Base' /\ LInv /\ [Next]_vars => LInv'
  BY NextLower
<1>2. Base /\ LInv /\ LInv' /\ NInv /\ [Next]_vars => NInv'
  BY NextNested
<1> QED BY <1>1, <1>2, InitLower, InitNested, BaseInvariant, PTL DEF Spec

\* Once a volume is released its irodsfs is gone from the lower directory too, when
\* no command fails and the driver does not restart.
THEOREM NodeReleasesLower ==
  ASSUME Patient, StagedOverlays, CommandsSucceed, NoRestart
  PROVE  Spec => []LowerIsReleased
<1>1. ASSUME Base, LInv, NInv, NEW v \in Volumes, Released(v)
      PROVE  mnt[Lower(v)] = <<>>
  <2>1. CASE ~HasOverlay(v)
    BY <1>1, <2>1 DEF Base, SInv, NoLower
  <2>2. CASE HasOverlay(v)
    <3>1. view[Staging(v)] = "no" /\ Staging(v) \in Targets
      BY <1>1, <2>2, Places DEF StagedOverlays, Released
    <3>2. mnt[Staging(v)] = <<>>
      BY <1>1, <3>1 DEF Base, TInv, ViewOK, Truthful
    <3>3. ASSUME NEW c \in Calls, calls[c].vol = v, calls[c].op \in {"stage", "unstage"}, Busy(c)
          PROVE  FALSE
      <4>1. Target(c) = Staging(v) /\ view[Target(c)] = "maybe"
        BY <1>1, <3>3 DEF Base, TInv, CallOK, Answered, Target, Staging
      <4> QED BY <3>1, <4>1
    <3>4. \A c \in Calls : At(c, "lower") /\ calls[c].vol = v => calls[c].op = "unstage"
      BY <1>1, <2>2 DEF Base, SInv, Settled, Dyn, StagedOverlays, At
    <3>5. ~Held(v)
      BY <3>2, <3>3, <3>4 DEF Held, Busy, At
    <3>6. mnt[Lower(v)] \in Stacks /\ ~OnLower(v) /\ mnt[Lower(v)] # <<"dead">>
      BY <1>1, <3>5 DEF LInv, LowerOK, NInv, Nested, Lower
    <3> QED BY <3>6 DEF Stacks, OnLower
  <2> QED BY <2>1, <2>2
<1>2. Base /\ LInv /\ NInv => LowerIsReleased
  BY <1>1 DEF LowerIsReleased
<1> QED BY <1>2, NestedInvariant, PTL
----------------------------------------------------------------------------
(* Data roots: a release removes the one of its volume, and leaves no      *)
(* client process of it.                                                   *)

\* The volumes that are not staged have no data root.
StagedRoots == \A v \in Volumes : v \in Dynamic \/ Client[v] = "nfs"

LEMMA RootsAreOverlays == StagedRoots => StagedOverlays
BY DEF StagedRoots, StagedOverlays, HasOverlay

\* A volume is served through its targets as it is through its staging target.
LEMMA ServedAlike ==
  ASSUME NEW v \in Volumes, NEW place \in Pods \cup {"staging"}
  PROVE  /\ ServedByProcess(<<v, place>>) <=> ServedByProcess(Staging(v))
         /\ ServedByProcess(<<v, place>>) => ServedByProcess(Lower(v))
         /\ ServedByProcess(<<v, place>>) \/ ServedByProcess(Lower(v)) => Client[v] # "nfs"
<1>1. Client[v] \in Clients /\ place # "lower"
  BY ClientAssumption, PodsAssumption
<1>2. CASE Client[v] \in {"irodsfs", "webdav", "fuseoverlay"}
  BY <1>2 DEF ServedByProcess, Staging, Lower
<1>3. CASE Client[v] = "overlay"
  BY <1>1, <1>3 DEF ServedByProcess, Staging, Lower
<1>4. CASE Client[v] = "nfs"
  BY <1>4 DEF ServedByProcess, Staging, Lower
<1> QED BY <1>1, <1>2, <1>3, <1>4 DEF Clients

LEMMA TopOf ==
  ASSUME IInv, NEW path \in Paths, NEW kind \in MountKinds
  PROVE  /\ mnt[path] \in Stacks => (Top(path) = "live" <=> mnt[path] = <<"live">>)
         /\ mnt' = Pushed(path, kind) => Top(path)' = kind
         /\ mnt' = mnt => Top(path)' = Top(path)
         /\ mnt'[path] = <<>> => Top(path)' = "none"
<1>1. mnt[path] \in Stacks => (Top(path) = "live" <=> mnt[path] = <<"live">>)
  BY DEF Stacks, Top
<1>2. ASSUME mnt' = Pushed(path, kind) PROVE Top(path)' = kind
  <2>1. mnt[path] \in Seq(MountKinds) /\ mnt'[path] = Append(mnt[path], kind)
    BY <1>2 DEF Pushed, IInv, MountsInv
  <2> QED BY <2>1 DEF Top
<1> QED BY <1>1, <1>2 DEF Top

\* The last step of a release leaves nothing mounted of its volume.
LEMMA ReleasedEmpty ==
  ASSUME StagedOverlays, Base, Base', LInv, NEW c \in Calls, NEW v \in Volumes, v = calls[c].vol,
         Busy(c), calls[c].op = "unstage", UnmountTarget(c) \/ UnmountLower(c),
         root' # root, NEW path \in Paths, path[1] = v
  PROVE  mnt'[path] = <<>>
<1>1. Handler(c) /\ Target(c) = Staging(v)
  BY DEF Handler, Base, TInv, CallOK, Target, Staging
<1>2. mnt \in [Paths -> Seq(MountKinds)] /\ Lower(v) \in Paths /\ Lower(v) \notin Targets
      /\ Staging(v) \in Targets \cap Paths
  BY Places DEF Base, IInv, MountsInv
<1>3. ASSUME NEW p \in Pods PROVE mnt'[<<v, p>>] = <<>>
  <2>1. <<v, p>> \in Targets \ {Target(c)}
    BY <1>1, PodsAssumption DEF Targets, Staging
  <2>2. view[<<v, p>>] = "no"
    BY DEF Base, SInv, Settled
  <2> QED BY <1>1, <2>1, <2>2, HandlerElsewhere DEF Base, TInv, ViewOK, Truthful
<1>4. CASE UnmountTarget(c)
  <2>1. ~HasOverlay(v) /\ mnt' = Popped(Target(c))
    BY <1>4 DEF UnmountTarget
  <2>2. mnt'[Staging(v)] = <<>>
    BY <1>1, <1>2, <2>1, StackFacts DEF Popped, Base, TInv, OneMount
  <2>3. mnt'[Lower(v)] = <<>>
    BY <2>1 DEF Base, SInv, NoLower, HasOverlay, Lower
  <2> QED BY <1>3, <2>2, <2>3 DEF Paths, Staging, Lower
<1>5. CASE UnmountLower(c)
  <2>1. mnt' = [mnt EXCEPT ![Lower(v)] = Pop(@)]
    BY <1>5 DEF UnmountLower
  <2>2. mnt'[Lower(v)] = <<>>
    BY <1>2, <2>1, StackFacts DEF LInv, LowerOK
  <2>3. mnt'[Staging(v)] = <<>>
    BY <1>1, <1>2, <1>5, <2>1 DEF UnmountLower, Base, TInv, MountOK, At
  <2> QED BY <1>3, <2>2, <2>3 DEF Paths, Staging, Lower
<1> QED BY <1>4, <1>5

LEMMA HandlerRoots ==
  ASSUME StagedRoots, CommandsSucceed, Base, Base', LInv, LInv', DataRootAlive,
         NEW c \in Calls, Handler(c), NEW path \in Paths, ServedByProcess(path), Top(path)' = "live"
  PROVE  path[1] \in root'
<1> DEFINE v == calls[c].vol
<1>1. /\ Busy(c) /\ v \in Volumes /\ calls[c] \in Call /\ WholeRecord(v, calls[c].rec)
      /\ CallOK(c) /\ path[1] \in Volumes /\ path[2] \in Pods \cup {"staging", "lower"}
      /\ path = <<path[1], path[2]>>
  BY HandlerFrame, CallFields DEF Base, IInv, TInv, Paths
<1>2. mnt \in [Paths -> Seq(MountKinds)] /\ Lower(v) \in Paths /\ Target(c) \in Paths
      /\ Staging(v) \in Paths /\ Target(c) \in Targets
  BY <1>1, CallFields, Places DEF Base, IInv, MountsInv
<1>3. Client[path[1]] # "nfs"
  BY DEF ServedByProcess
<1>4. CASE path[1] # v
  <2>1. mnt'[path] = mnt[path]
    <3>1. path[1] \in Volumes \ {v}
      BY <1>1, <1>4
    <3>2. CASE path[2] = "lower"
      BY <1>1, <3>1, <3>2, OtherVolumes DEF Base, Lower
    <3>3. CASE path[2] \in Pods \cup {"staging"}
      BY <1>1, <3>1, <3>3, OtherVolumes DEF Base
    <3> QED BY <1>1, <3>2, <3>3
  <2>2. path[1] \in root' <=> path[1] \in root
    BY <1>1, <1>4, OtherVolumes DEF Base
  <2>3. Top(path) = "live"
    BY <2>1 DEF Top
  <2> QED BY <2>2, <2>3 DEF DataRootAlive
<1>5. CASE path[1] = v /\ (MountTarget(c) \/ MountLower(c))
  <2>1. root' = WithDataRoot(v)
    BY <1>5, NoFailure DEF MountTarget, MountLower
  <2> QED BY <1>3, <1>5, <2>1 DEF WithDataRoot
<1>6. CASE path[1] = v /\ MountOverlay(c)
  <2>1. Top(Lower(v)) = "live" /\ root' = root
    BY <1>6 DEF MountOverlay, Base, TInv, MountOK, At
  <2>2. ServedByProcess(Lower(v))
    BY <1>1, <1>6, ServedAlike DEF Lower
  <2> QED BY <1>2, <1>6, <2>1, <2>2 DEF DataRootAlive, Lower
<1>7. CASE path[1] = v /\ BindTarget(c)
  <2>1. root' = root
    BY <1>7 DEF BindTarget
  <2>2. CASE mnt' = mnt
    BY <1>7, <2>1, <2>2 DEF DataRootAlive, Top
  <2>3. CASE mnt' # mnt
    <3> DEFINE source == Top(Staging(v))
               kind == IF source = "none" THEN "plain" ELSE source
    <3>1. mnt' = Pushed(Target(c), kind)
      BY <1>7, <2>3, NoFailure DEF BindTarget
    <3>2. CASE path # Target(c)
      <4>1. mnt'[path] = mnt[path]
        BY <1>2, <3>1, <3>2 DEF Pushed
      <4> QED BY <1>7, <2>1, <4>1 DEF DataRootAlive, Top
    <3>3. CASE path = Target(c)
      <4>1. kind \in MountKinds
        BY <1>2, TopType DEF Base, IInv, MountKinds
      <4> HIDE DEF kind
      <4>2. kind = "live"
        BY <1>2, <3>1, <3>3, <4>1, TopOf DEF Base
      <4>3. source = "live"
        BY <4>2 DEF kind
      <4>4. path[2] # "lower"
        BY <1>2, <3>3, PodsAssumption DEF Targets
      <4>5. ServedByProcess(Staging(v))
        BY <1>1, <1>7, <4>4, ServedAlike
      <4> QED BY <1>2, <1>7, <2>1, <4>3, <4>5 DEF DataRootAlive, Staging
    <3> QED BY <3>2, <3>3
  <2> QED BY <2>2, <2>3
<1>8. CASE path[1] = v /\ (UnmountPlain(c) \/ UnmountTarget(c) \/ UnmountLower(c))
  <2>1. mnt'[path] # <<>>
    BY DEF Top
  <2>2. Top(path) = "live"
    <3>1. mnt' = mnt \/ mnt' = Popped(Target(c)) \/ mnt' = [mnt EXCEPT ![Lower(v)] = Pop(@)]
      BY <1>8 DEF UnmountPlain, UnmountTarget, UnmountLower
    <3>2. Pop(mnt[Target(c)]) = <<>> /\ Pop(mnt[Lower(v)]) = <<>>
      BY <1>1, <1>2, StackFacts DEF Base, TInv, OneMount, LInv, LowerOK
    <3>3. mnt'[path] = mnt[path]
      BY <1>2, <2>1, <3>1, <3>2 DEF Popped
    <3> QED BY <3>3 DEF Top
  <2>3. root' = root
    <3>1. ASSUME UnmountTarget(c) \/ UnmountLower(c), root' # root PROVE FALSE
      <4>1. calls[c].op = "unstage"
        <5>1. v \in Dynamic
          BY <1>1, <1>3, <1>8 DEF StagedRoots
        <5>2. CASE UnmountLower(c)
          BY <5>1, <5>2 DEF UnmountLower, Base, SInv, Settled, Dyn, At
        <5>3. CASE UnmountTarget(c)
          BY <1>1, <5>1, <5>3 DEF UnmountTarget, PlainUnmount, WholeRecord, CallOK, At, Releasing
        <5> QED BY <3>1, <5>2, <5>3
      <4> QED BY <1>1, <1>8, <2>1, <3>1, <4>1, ReleasedEmpty, RootsAreOverlays
    <3>2. UnmountPlain(c) => root' = root
      BY DEF UnmountPlain, DataRootsAfterPlain
    <3> QED BY <1>8, <3>1, <3>2
  <2> QED BY <1>8, <2>2, <2>3 DEF DataRootAlive
<1>9. CASE path[1] = v /\ mnt' = mnt /\ root' = root
  BY <1>9 DEF DataRootAlive, Top
<1> QED BY <1>4, <1>5, <1>6, <1>7, <1>8, <1>9 DEF Handler, CheckTarget, PopRecord, FillRecord,
      PutRecord, GetRecord, DropRecord, UnmountNothing, UnmountUnconfigured

LEMMA CrashRoots ==
  ASSUME Base, Crash, NEW path \in Paths, ServedByProcess(path)
  PROVE  Top(path)' # "live"
<1>1. mnt'[path] \in {<<>>, Killed(path)}
  BY DEF Crash, LocalDirectoriesLost
<1>2. \A i \in DOMAIN mnt[path] : Killed(path)[i] # "live"
  BY DEF Killed
<1>3. DOMAIN Killed(path) = DOMAIN mnt[path] /\ mnt[path] \in Seq(MountKinds)
  BY DEF Killed, Base, IInv, MountsInv
<1>4. Killed(path) \in Seq(MountKinds)
  BY <1>3 DEF Killed, MountKinds
<1> QED BY <1>1, <1>2, <1>3, <1>4 DEF Top

LEMMA NextRoots ==
  ASSUME Patient, StagedRoots, CommandsSucceed, Base, Base', LInv, LInv', DataRootAlive,
         [Next]_vars
  PROVE  DataRootAlive'
<1> SUFFICES ASSUME NEW path \in Paths, ServedByProcess(path), Top(path)' = "live"
             PROVE  path[1] \in root'
  BY DEF DataRootAlive, ServedByProcess
<1>1. CASE UNCHANGED <<mnt, root>>
  BY <1>1 DEF DataRootAlive, Top
<1>2. Kubelet => UNCHANGED <<mnt, root>>
  BY DEF Kubelet, IssueStage, IssuePublish, IssueUnpublish, IssueUnstage, Issue
<1>3. \A v \in Volumes : Syncher(v) \/ PodWrite(v) => UNCHANGED <<mnt, root>>
  BY DEF Syncher, SyncUpper, DeleteUpper, PodWrite
<1>4. UNCHANGED vars => UNCHANGED <<mnt, root>>
  BY DEF vars
<1>5. \A c \in Calls : ~Timeout(c)
  BY DEF Patient, Timeout, Fault
<1> QED BY <1>1, <1>2, <1>3, <1>4, <1>5, HandlerRoots, CrashRoots DEF Next

\* The data root of a volume exists as long as a client process that uses it is
\* mounted anywhere on the node, also after restarts: nothing but a release removes
\* it, and what a release leaves is no client process.  Of volumes that are not
\* staged only those without a data root are meant: two pods share the others'.
THEOREM NodeKeepsDataRoots ==
  ASSUME Patient, StagedRoots, CommandsSucceed
  PROVE  Spec => []DataRootAlive
<1>1. StagedOverlays
  BY RootsAreOverlays
<1>2. Init => DataRootAlive
  BY DEF Init, DataRootAlive, Top
<1>3. Base /\ Base' /\ LInv /\ [Next]_vars => LInv'
  BY <1>1, NextLower
<1>4. Base /\ Base' /\ LInv /\ LInv' /\ DataRootAlive /\ [Next]_vars => DataRootAlive'
  BY NextRoots
<1> QED BY <1>1, <1>2, <1>3, <1>4, LowerInvariant, BaseInvariant, PTL DEF Spec
----------------------------------------------------------------------------
(* The gauge counts the mounted targets, but for the calls in flight that  *)
(* have mounted one and not counted it, or unmounted one and not yet its   *)
(* lower directory.                                                        *)

\* a bind mount is counted when its record is put back
Uncounted(c) == calls[c].op = "publish" /\ Dyn(c) /\ calls[c].pc \in {"pop", "put"}
InGauge(t) ==
  \/ mnt[t] # <<>> /\ \A c \in Calls : Uncounted(c) => Target(c) # t
  \/ \E c \in Calls : At(c, "lower") /\ Target(c) = t
Counted == {t \in Targets : InGauge(t)}
GInv == IsFiniteSet(Counted) /\ gauge = Cardinality(Counted)

\* Whether the target of a call in flight is counted depends on that call alone.
Weighs(c) == (mnt[Target(c)] # <<>> /\ ~Uncounted(c)) \/ At(c, "lower")
WillWeigh(c) == (mnt'[Target(c)] # <<>> /\ ~Uncounted(c)') \/ At(c, "lower")'

Balanced(c) ==
  \/ gauge' = gauge /\ (WillWeigh(c) <=> Weighs(c))
  \/ gauge' = gauge + 1 /\ ~Weighs(c) /\ WillWeigh(c)
  \/ gauge' = gauge - 1 /\ Weighs(c) /\ ~WillWeigh(c)

LEMMA WeighsAlone ==
  ASSUME Base, NEW c \in Calls, Handler(c), NEW t, t = Target(c)
  PROVE  /\ InGauge(t) <=> Weighs(c)
         /\ InGauge(t)' <=> WillWeigh(c)
<1>1. Busy(c) /\ (\A d \in Calls \ {c} : Same(d)) /\ (calls'[c] = Idle \/ Stays(c))
  BY HandlerFrame DEF Base
<1>2. ASSUME NEW d \in Calls \ {c}, Uncounted(d) \/ At(d, "lower")
      PROVE  Target(d) # t
  <2>1. Busy(d)
    BY <1>2 DEF Uncounted, At, Busy
  <2> QED BY <1>1, <2>1 DEF Base, TInv, Exclusive, Target
<1>3. ASSUME NEW d \in Calls \ {c}
      PROVE  /\ Uncounted(d)' <=> Uncounted(d)
             /\ At(d, "lower")' <=> At(d, "lower")
             /\ Target(d)' = Target(d)
  BY <1>1 DEF Same, Uncounted, At, Target, Dyn
<1>4. Uncounted(c)' \/ At(c, "lower")' => Target(c)' = t
  <2>1. CASE calls'[c] = Idle
    BY <2>1 DEF Idle, Uncounted, At
  <2>2. CASE Stays(c)
    BY <2>2 DEF Stays, Target
  <2> QED BY <1>1, <2>1, <2>2
<1>5. InGauge(t) <=> Weighs(c)
  BY <1>2 DEF InGauge, Weighs
<1>6. InGauge(t)' <=> WillWeigh(c)
  BY <1>2, <1>3, <1>4 DEF InGauge, WillWeigh
<1> QED BY <1>5, <1>6

\* A step leaves the other targets where they are in the count.
LEMMA OthersInGauge ==
  ASSUME Base, NEW c \in Calls, Handler(c), NEW t \in Targets \ {Target(c)}
  PROVE  InGauge(t)' <=> InGauge(t)
<1>1. (\A d \in Calls \ {c} : Same(d)) /\ (calls'[c] = Idle \/ Stays(c)) /\ mnt'[t] = mnt[t]
  BY HandlerFrame, HandlerElsewhere DEF Base
<1>3. ASSUME NEW d \in Calls \ {c}
      PROVE  /\ Uncounted(d)' <=> Uncounted(d)
             /\ At(d, "lower")' <=> At(d, "lower")
             /\ Target(d)' = Target(d)
  BY <1>1 DEF Same, Uncounted, At, Target, Dyn
<1>4. Uncounted(c)' \/ At(c, "lower")' => Target(c)' # t
  <2>1. CASE calls'[c] = Idle
    BY <2>1 DEF Idle, Uncounted, At
  <2>2. CASE Stays(c)
    BY <2>2 DEF Stays, Target
  <2> QED BY <1>1, <2>1, <2>2
<1> QED BY <1>1, <1>3, <1>4 DEF InGauge

LEMMA BalancedCount ==
  ASSUME Base, GInv, NEW c \in Calls, Handler(c), Balanced(c)
  PROVE  GInv'
<1> DEFINE t == Target(c)
<1>1. t \in Targets /\ (InGauge(t) <=> Weighs(c))
  BY WeighsAlone, CallFields DEF Base, IInv
<1>2. t \in Counted' <=> WillWeigh(c)
  <2> HIDE DEF t
  <2> QED BY <1>1, WeighsAlone DEF Counted, t
<1>3. \A u \in Targets \ {t} : u \in Counted' <=> u \in Counted
  BY OthersInGauge DEF Counted
<1>4. Counted \subseteq Targets /\ Counted' \subseteq Targets
  BY DEF Counted
<1>5. t \in Counted <=> Weighs(c)
  BY <1>1 DEF Counted
<1> HIDE DEF t
<1>6. CASE gauge' = gauge /\ (WillWeigh(c) <=> Weighs(c))
  <2>1. Counted' = Counted
    BY <1>2, <1>3, <1>4, <1>5, <1>6
  <2> QED BY <1>6, <2>1 DEF GInv
<1>7. CASE gauge' = gauge + 1 /\ ~Weighs(c) /\ WillWeigh(c)
  <2>1. Counted' = Counted \cup {t} /\ t \notin Counted
    BY <1>1, <1>2, <1>3, <1>4, <1>5, <1>7
  <2> QED BY <1>7, <2>1, FS_AddElement DEF GInv
<1>8. CASE gauge' = gauge - 1 /\ Weighs(c) /\ ~WillWeigh(c)
  <2>1. Counted' = Counted \ {t} /\ t \in Counted
    BY <1>1, <1>2, <1>3, <1>4, <1>5, <1>8
  <2> QED BY <1>8, <2>1, FS_RemoveElement DEF GInv
<1> QED BY <1>6, <1>7, <1>8 DEF Balanced

\* Where a call gets by an answer or by going on, as the gauge sees it.
LEMMA Reaches ==
  ASSUME Base, NEW c \in Calls
  PROVE  /\ \A ok : Answer(c, ok) => ~Uncounted(c)' /\ ~At(c, "lower")'
         /\ \A pc : Goto(c, pc) =>
              /\ Uncounted(c)' <=> calls[c].op = "publish" /\ Dyn(c) /\ pc \in {"pop", "put"}
              /\ At(c, "lower")' <=> pc = "lower"
<1>1. ASSUME NEW ok, Answer(c, ok) PROVE ~Uncounted(c)' /\ ~At(c, "lower")'
  <2>1. calls'[c] = Idle
    BY <1>1, AnswerFrees DEF Frees, Base
  <2> QED BY <2>1 DEF Idle, Uncounted, At
<1>2. ASSUME NEW pc, Goto(c, pc)
      PROVE  /\ Uncounted(c)' <=> calls[c].op = "publish" /\ Dyn(c) /\ pc \in {"pop", "put"}
             /\ At(c, "lower")' <=> pc = "lower"
  <2>1. /\ calls'[c].pc = pc /\ calls'[c].op = calls[c].op /\ calls'[c].vol = calls[c].vol
    BY <1>2, CallFields DEF Goto, Base, IInv, CallsInv, Call
  <2> QED BY <2>1 DEF Uncounted, At, Dyn
<1> QED BY <1>1, <1>2

LEMMA MountsBalanced ==
  ASSUME CommandsSucceed, Base, NEW c \in Calls,
         CheckTarget(c) \/ MountTarget(c) \/ MountLower(c) \/ MountOverlay(c) \/ BindTarget(c)
  PROVE  Balanced(c)
<1>1. /\ Target(c) \in Targets /\ Target(c) \in Paths /\ mnt \in [Paths -> Seq(MountKinds)]
      /\ CallOK(c) /\ MountOK(c) /\ Settled(c)
      /\ Lower(calls[c].vol) \in Paths /\ Lower(calls[c].vol) # Target(c)
  BY CallFields, Places DEF Base, IInv, MountsInv, TInv, SInv
<1>2. ~At(c, "lower") /\ ~Uncounted(c)
  BY DEF CheckTarget, MountTarget, MountLower, MountOverlay, BindTarget, At, Uncounted
<1>3. \A kind \in MountKinds : mnt' = Pushed(Target(c), kind) => mnt'[Target(c)] # <<>>
  <2>1. Target(c) \in Paths /\ mnt \in [Paths -> Seq(MountKinds)]
    BY <1>1
  <2> QED BY <2>1, PushKeeps DEF Pushed
<1>4. CASE CheckTarget(c)
  <2> DEFINE pc == IF calls[c].op = "publish" /\ calls[c].vol \in Dynamic THEN "bind" ELSE "mount"
  <2>1. Goto(c, pc) \/ Answer(c, FALSE)
    BY <1>4 DEF CheckTarget
  <2>2. pc \notin {"pop", "put", "lower"}
    OBVIOUS
  <2> HIDE DEF pc
  <2>3. ~Uncounted(c)' /\ ~At(c, "lower")'
    BY <2>1, <2>2, Reaches
  <2> QED BY <1>2, <1>4, <2>3 DEF CheckTarget, Balanced, Weighs, WillWeigh
<1>5. CASE MountTarget(c) \/ MountOverlay(c)
  <2>1. mnt[Target(c)] = <<>> /\ calls[c].op \in {"stage", "publish"}
        /\ (calls[c].op = "publish" => ~Dyn(c))
    BY <1>1, <1>5 DEF MountTarget, MountOverlay, MountOK, CallOK, Settled, At, Mounting
  <2>2. /\ gauge' = gauge + 1 /\ Goto(c, AfterMount(c))
        /\ mnt' = Pushed(Target(c), "live") \/ mnt' = Pushed(Target(c), "hollow")
    BY <1>5, NoFailure DEF MountTarget, MountOverlay
  <2>3. mnt'[Target(c)] # <<>>
    BY <1>3, <2>2 DEF MountKinds
  <2>4. ~Uncounted(c)'
    BY <2>1, <2>2, Reaches
  <2> QED BY <1>2, <2>1, <2>2, <2>3, <2>4 DEF Balanced, Weighs, WillWeigh
<1>6. CASE MountLower(c)
  <2>1. mnt[Target(c)] = <<>> /\ gauge' = gauge
    BY <1>1, <1>6 DEF MountLower, MountOK, At
  <2>2. mnt'[Target(c)] = <<>>
    BY <1>1, <1>6, <2>1 DEF MountLower, Pushed, Popped
  <2>3. ~At(c, "lower")'
    <3>1. Goto(c, "overlay") \/ Answer(c, FALSE)
      BY <1>6, NoFailure DEF MountLower
    <3>2. Goto(c, "overlay") => (At(c, "lower")' <=> "overlay" = "lower")
      BY Reaches, Zenon
    <3>3. "overlay" # "lower"
      OBVIOUS
    <3> QED BY <3>1, <3>2, <3>3, Reaches
  <2> QED BY <1>2, <2>1, <2>2, <2>3 DEF Balanced, Weighs, WillWeigh
<1>7. CASE BindTarget(c)
  <2>1. mnt[Target(c)] = <<>> /\ gauge' = gauge /\ calls[c].op = "publish" /\ Dyn(c)
    BY <1>1, <1>7 DEF BindTarget, MountOK, CallOK, At, Dyn
  <2>2. Goto(c, "pop") \/ (Answer(c, FALSE) /\ mnt' = mnt)
    BY <1>7, NoFailure DEF BindTarget
  <2>3. ~At(c, "lower")' /\ (Uncounted(c)' \/ mnt' = mnt)
    BY <2>1, <2>2, Reaches
  <2> QED BY <1>2, <2>1, <2>3 DEF Balanced, Weighs, WillWeigh
<1> QED BY <1>4, <1>5, <1>6, <1>7

LEMMA RecordsBalanced ==
  ASSUME CommandsSucceed, NoRestart, Base, RInv, NEW c \in Calls,
         PopRecord(c) \/ FillRecord(c) \/ PutRecord(c) \/ GetRecord(c) \/ DropRecord(c)
  PROVE  Balanced(c)
<1> DEFINE v == calls[c].vol
<1>1. /\ Handler(c) /\ Busy(c) /\ CallOK(c) /\ MountOK(c) /\ Settled(c) /\ v \in Volumes
      /\ calls[c] \in Call /\ mnt' = mnt /\ ~At(c, "lower")
  BY CallFields, HandlerFrame DEF Handler, Base, IInv, TInv, SInv, PopRecord, FillRecord,
     PutRecord, GetRecord, DropRecord, At
<1>2. CASE PopRecord(c)
  <2>1. calls[c].op = "publish" /\ At(c, "pop") /\ gauge' = gauge
    BY <1>1, <1>2 DEF PopRecord, Settled, At
  <2>2. ASSUME Dyn(c) PROVE mem[v].known
    <3>1. InUse(v)
      BY <1>1, <2>1 DEF Settled, InUse
    <3>2. InHand(v)
      BY <2>2, <3>1 DEF RInv, Dyn
    <3>3. \A d \in Calls \ {c} : Busy(d) => calls[d].vol # v
      BY <1>1, <2>1, Siblings DEF Base
    <3> QED BY <2>1, <3>2, <3>3 DEF InHand, Busy, At
  <2> DEFINE pc == IF mem[v].known /\ v \notin Dynamic THEN "fill" ELSE "put"
  <2>3. calls' = [calls EXCEPT ![c].pc = pc, ![c].rec = mem[v]]
    BY <1>2, <2>2, NoFailure DEF PopRecord, Dyn
  <2>4. calls'[c].pc = pc /\ calls'[c].op = "publish" /\ calls'[c].vol = v
    BY <1>1, <2>1, <2>3 DEF Base, IInv, CallsInv, Call
  <2>5. (Uncounted(c)' <=> Uncounted(c)) /\ ~At(c, "lower")'
    BY <2>1, <2>4 DEF Uncounted, At, Dyn
  <2> QED BY <1>1, <2>1, <2>5 DEF Balanced, Weighs, WillWeigh
<1>5. CASE FillRecord(c)
  <2>1. ~Dyn(c) /\ gauge' = gauge
    BY <1>1, <1>5 DEF FillRecord, CallOK, At, Dyn
  <2>2. calls'[c].vol = v /\ calls'[c].pc = "put"
    BY <1>5, FillFields DEF Base, IInv
  <2>3. ~Uncounted(c) /\ ~Uncounted(c)' /\ ~At(c, "lower")'
    BY <2>1, <2>2 DEF Uncounted, At, Dyn
  <2> QED BY <1>1, <2>1, <2>3 DEF Balanced, Weighs, WillWeigh
<1>3. CASE PutRecord(c)
  <2>1. calls'[c] = Idle /\ gauge' = CountedAtPut(c) /\ At(c, "put")
    BY <1>1, <1>3, NoFailure DEF PutRecord, Answer, Base, IInv, CallsInv
  <2>2. ~Uncounted(c)' /\ ~At(c, "lower")'
    BY <2>1 DEF Idle, Uncounted, At
  <2>3. CASE Uncounted(c)
    <3>1. mnt[Target(c)] # <<>> /\ gauge' = gauge + 1
      BY <1>1, <2>1, <2>3 DEF Uncounted, MountOK, At, CountedAtPut, Dyn
    <3> QED BY <1>1, <2>2, <2>3, <3>1 DEF Balanced, Weighs, WillWeigh
  <2>4. CASE ~Uncounted(c)
    <3>1. gauge' = gauge
      BY <2>1, <2>4 DEF Uncounted, At, CountedAtPut, Dyn
    <3> QED BY <1>1, <2>2, <2>4, <3>1 DEF Balanced, Weighs, WillWeigh
  <2> QED BY <2>3, <2>4
<1>4. CASE GetRecord(c) \/ DropRecord(c)
  <2>1. calls[c].op \in {"unpublish", "unstage"} /\ gauge' = gauge
    BY <1>1, <1>4 DEF GetRecord, DropRecord, CallOK, At, Releasing
  <2>2. calls'[c].pc \in {"idle", "drop", "unmount"}
    <3>1. CASE GetRecord(c)
      BY <1>1, <3>1 DEF GetRecord, Base, IInv, CallsInv, Call
    <3>2. CASE DropRecord(c)
      <4>1. \A ok : Answer(c, ok) => calls'[c].pc = "idle"
        BY DEF Answer, Base, IInv, CallsInv, Idle
      <4>2. Goto(c, "unmount") => calls'[c].pc = "unmount"
        BY <1>1 DEF Goto, Base, IInv, CallsInv, Call
      <4> QED BY <3>2, <4>1, <4>2 DEF DropRecord, AfterDrop
    <3> QED BY <1>4, <3>1, <3>2
  <2>3. ~Uncounted(c) /\ ~Uncounted(c)' /\ ~At(c, "lower")'
    BY <2>1, <2>2 DEF Uncounted, At
  <2> QED BY <1>1, <2>1, <2>3 DEF Balanced, Weighs, WillWeigh
<1> QED BY <1>2, <1>3, <1>4, <1>5

LEMMA ReleasesBalanced ==
  ASSUME CommandsSucceed, Base, NInv, NEW c \in Calls,
         \/ UnmountNothing(c) \/ UnmountPlain(c) \/ UnmountUnconfigured(c)
         \/ UnmountTarget(c) \/ UnmountLower(c)
  PROVE  Balanced(c)
<1> DEFINE v == calls[c].vol
<1>1. /\ Target(c) \in Targets /\ Target(c) \in Paths /\ mnt \in [Paths -> Seq(MountKinds)]
      /\ mnt[Target(c)] \in Stacks /\ MountOK(c)
      /\ Lower(v) \in Paths /\ Lower(v) # Target(c)
  BY CallFields, Places DEF Base, IInv, MountsInv, TInv, OneMount
<1>2. ~Uncounted(c)
  BY DEF UnmountNothing, UnmountPlain, UnmountUnconfigured, UnmountTarget, UnmountLower, At, Uncounted
<1>3. CASE UnmountNothing(c) \/ UnmountUnconfigured(c)
  BY <1>2, <1>3, Reaches DEF UnmountNothing, UnmountUnconfigured, At, Balanced, Weighs, WillWeigh
<1>4. CASE UnmountPlain(c) \/ UnmountTarget(c)
  <2>1. mnt[Target(c)] # <<>> /\ mnt' = Popped(Target(c))
    BY <1>4, NoFailure DEF UnmountPlain, UnmountTarget
  <2>2. mnt'[Target(c)] = <<>>
    BY <1>1, <2>1, StackFacts DEF Popped
  <2>3. \/ gauge' = gauge - 1 /\ \E ok : Answer(c, ok)
        \/ gauge' = gauge /\ Goto(c, "lower")
    BY <1>4, NoFailure DEF UnmountPlain, UnmountTarget
  <2>4. (gauge' = gauge - 1 /\ ~At(c, "lower")') \/ (gauge' = gauge /\ At(c, "lower")')
    BY <2>3, Reaches
  <2> QED BY <1>2, <2>1, <2>2, <2>4 DEF Balanced, Weighs, WillWeigh
<1>5. CASE UnmountLower(c)
  <2>1. At(c, "lower") /\ mnt[Target(c)] = <<>> /\ mnt[Lower(v)] # <<>>
    BY <1>1, <1>5 DEF UnmountLower, MountOK, NInv, Detaching, At
  <2>2. /\ mnt' = [mnt EXCEPT ![Lower(v)] = Pop(@)] /\ gauge' = gauge - 1
        /\ \E ok : Answer(c, ok)
    BY <1>5, <2>1, NoFailure DEF UnmountLower
  <2>3. mnt'[Target(c)] = <<>> /\ ~At(c, "lower")'
    BY <1>1, <2>1, <2>2, Reaches
  <2> QED BY <2>1, <2>2, <2>3 DEF Balanced, Weighs, WillWeigh
<1> QED BY <1>3, <1>4, <1>5

LEMMA NextCounted ==
  ASSUME Patient, CommandsSucceed, NoRestart, Base, RInv, NInv, GInv, [Next]_vars
  PROVE  GInv'
<1>1. CASE UNCHANGED <<calls, mnt, gauge>>
  BY <1>1 DEF GInv, Counted, InGauge, Uncounted, Dyn, At, Target
<1>2. CASE Kubelet
  <2>1. PICK c \in Calls, op \in Requests, v \in Volumes, place \in Pods \cup {"staging"},
             pc \in {"check", "put", "get"} :
          Opens(c, op, v, place, pc) /\ Asks(op, v, place, pc)
    BY <1>2, KubeletAsks DEF Base
  <2>2. /\ ~Uncounted(c) /\ ~At(c, "lower") /\ ~Uncounted(c)' /\ ~At(c, "lower")'
    BY <2>1 DEF Opens, Asks, Uncounted, Busy, At
  <2>3. ASSUME NEW t \in Targets PROVE InGauge(t)' <=> InGauge(t)
    <3>1. ASSUME NEW d \in Calls \ {c}
          PROVE  /\ Uncounted(d)' <=> Uncounted(d)
                 /\ At(d, "lower")' <=> At(d, "lower")
                 /\ Target(d)' = Target(d)
      BY <2>1 DEF Opens, Uncounted, At, Target, Dyn
    <3>2. mnt'[t] = mnt[t]
      BY <2>1 DEF Opens
    <3> QED BY <2>2, <3>1, <3>2 DEF InGauge
  <2>4. Counted' = Counted /\ gauge' = gauge
    BY <2>1, <2>3 DEF Counted, Opens
  <2> QED BY <2>4 DEF GInv
<1>3. \A v \in Volumes : Syncher(v) \/ PodWrite(v) => UNCHANGED <<calls, mnt, gauge>>
  BY DEF Syncher, SyncUpper, DeleteUpper, PodWrite
<1>4. UNCHANGED vars => UNCHANGED <<calls, mnt, gauge>>
  BY DEF vars
<1>5. ~Crash /\ \A c \in Calls : ~Timeout(c)
  BY DEF Patient, NoRestart, Crash, Timeout, Fault
<1>6. ASSUME NEW c \in Calls, Handler(c) PROVE GInv'
  <2>1. Balanced(c)
    BY <1>6, MountsBalanced, RecordsBalanced, ReleasesBalanced DEF Handler
  <2> QED BY <1>6, <2>1, BalancedCount
<1> QED BY <1>1, <1>2, <1>3, <1>4, <1>5, <1>6 DEF Next

\* Between calls the gauge is the number of targets mounted, for any number of
\* volumes and pods, when no command or save fails and the driver does not restart.
THEOREM NodeGaugeIsCurrent ==
  ASSUME Patient, StagedOverlays, CommandsSucceed, NoRestart
  PROVE  Spec => []GaugeIsCurrent
<1>1. RecordsKept
  BY DEF CommandsSucceed, NoRestart, RecordsKept
<1>2. Init => GInv
  <2>1. ASSUME Init PROVE Counted = {} /\ gauge = 0
    BY <2>1, Places DEF Init, Counted, InGauge, At, Idle
  <2> QED BY <2>1, FS_EmptySet DEF GInv
<1>3. Base /\ RInv /\ NInv /\ GInv /\ [Next]_vars => GInv'
  BY NextCounted
<1>4. ASSUME GInv, \A c \in Calls : At(c, "idle")
      PROVE  gauge = Cardinality({t \in Targets : mnt[t] # <<>>})
  <2>1. Counted = {t \in Targets : mnt[t] # <<>>}
    BY <1>4 DEF Counted, InGauge, Uncounted, At
  <2> QED BY <1>4, <2>1 DEF GInv
<1>5. GInv => GaugeIsCurrent
  BY <1>4 DEF GaugeIsCurrent
<1> QED BY <1>1, <1>2, <1>3, <1>5, RecordsInvariant, NestedInvariant, PTL DEF Spec
=============================================================================
