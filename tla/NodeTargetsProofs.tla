------------------------- MODULE NodeTargetsProofs -------------------------
(***************************************************************************)
(* What kubelet is told of a target is true, for any volumes, pods, calls  *)
(* and hazards but the one of a kubelet that stops waiting.  The proof     *)
(* rests on the orchestrator's rules: the calls in flight work on targets  *)
(* of their own, so that a step of one changes nothing another relies on.  *)
(***************************************************************************)
EXTENDS NodeServiceProofs

\* Every call is answered to the kubelet that made it.
Patient == "timeout" \notin Hazards

Busy(c) == ~At(c, "idle")
Mounting == {"check", "mount", "overlay", "bind", "pop", "fill", "put"}
Releasing == {"get", "drop", "unmount", "lower"}

\* kubelet waits for every call in flight, and knows its target to be unsettled
Answered == \A c \in Calls : Busy(c) => calls[c].waited /\ view[Target(c)] = "maybe"

\* Two calls for one volume unpublish different pods.
Exclusive ==
  \A c, d \in Calls : c # d /\ Busy(c) /\ Busy(d) /\ calls[c].vol = calls[d].vol =>
    calls[c].op = "unpublish" /\ calls[d].op = "unpublish" /\ calls[c].place # calls[d].place

\* Where a call is in its handler says what it was asked for ...
CallOK(c) ==
  LET call == calls[c] IN
  /\ call.pc \in Mounting => call.op \in {"stage", "publish"}
  /\ call.pc \in Releasing => call.op \in {"unpublish", "unstage"}
  /\ Busy(c) => (call.place = "staging" <=> call.op \in {"stage", "unstage"})
  /\ call.pc \in {"check", "mount", "overlay"} /\ call.op = "stage" => call.vol \in Dynamic
  /\ call.pc \in {"check", "bind"} /\ call.op = "publish" => view[Staging(call.vol)] = "yes"
  /\ call.pc = "bind" => call.vol \in Dynamic /\ call.op = "publish"
  /\ call.pc = "fill" => call.vol \notin Dynamic
  /\ call.pc = "drop" => call.rec.known

\* ... and what is mounted on its target.
MountOK(c) ==
  LET call == calls[c] IN
  /\ call.pc \in {"mount", "overlay", "bind", "lower"} => mnt[Target(c)] = <<>>
  /\ call.pc \in {"pop", "fill", "put"} /\ (call.op = "publish" \/ call.vol \in Dynamic)
       => mnt[Target(c)] # <<>>
  /\ call.pc = "overlay" => Top(Lower(call.vol)) = "live"

\* A target is mounted once at most, and the staging path of a static volume never.
Stacks == {<<>>, <<"live">>, <<"dead">>}
OneMount == \A t \in Targets : mnt[t] \in Stacks
StagedStatic == \A v \in Volumes \ Dynamic : mnt[Staging(v)] = <<>>

\* What kubelet knows of a target is so.
Truthful(t) ==
  /\ view[t] = "yes" /\ t \in MountTargets => mnt[t] # <<>>
  /\ view[t] = "no" => mnt[t] = <<>>
ViewOK == \A t \in Targets : Truthful(t)

TInv == Answered /\ Exclusive /\ (\A c \in Calls : CallOK(c) /\ MountOK(c))
        /\ OneMount /\ StagedStatic /\ ViewOK
----------------------------------------------------------------------------
(* A step of one call as the others see it. *)

Same(d) ==
  /\ calls'[d].op = calls[d].op /\ calls'[d].vol = calls[d].vol
  /\ calls'[d].place = calls[d].place /\ calls'[d].pc = calls[d].pc
  /\ calls'[d].waited = calls[d].waited /\ calls'[d].rec.known = calls[d].rec.known

\* A step of the call c that works on a target, or may use the lower directory,
\* of the volume v changes nothing elsewhere.
Elsewhere(c, v, place) ==
  /\ \A d \in Calls \ {c} : Same(d)
  /\ \A t \in Targets \ {<<v, place>>} : mnt'[t] = mnt[t] /\ view'[t] = view[t]
  /\ \A w \in Volumes \ {v} : mnt'[Lower(w)] = mnt[Lower(w)]

\* the other calls for the volume, if there are any, unpublish other pods
Alone(c, v, place) ==
  \A d \in Calls \ {c} : Busy(d) /\ calls[d].vol = v =>
    calls[d].op = "unpublish" /\ calls[d].place # place

\* What c itself has to see to.
Own(c, v, place) ==
  LET t == <<v, place>> IN
  /\ Busy(c)' => /\ calls'[c].vol = v /\ calls'[c].place = place
                 /\ calls'[c].waited /\ view'[t] = "maybe"
                 /\ \A d \in Calls \ {c} : Busy(d) /\ calls[d].vol = v =>
                      calls'[c].op = "unpublish"
  /\ CallOK(c)' /\ MountOK(c)'
  /\ mnt'[t] \in Stacks
  /\ place = "staging" /\ v \notin Dynamic => mnt'[t] = <<>>
  /\ view'[t] = "yes" /\ t \in MountTargets => mnt'[t] # <<>>
  /\ view'[t] = "no" => mnt'[t] = <<>>

LEMMA Places ==
  /\ \A v \in Volumes : Lower(v) \notin Targets /\ Staging(v) \in Targets /\ Lower(v) \in Paths
  /\ Targets \subseteq Paths
  /\ \A v, w \in Volumes : Lower(v) = Lower(w) => v = w
BY PodsAssumption DEF Lower, Staging, Targets, Paths

LEMMA OthersKeep ==
  ASSUME IInv, TInv, NEW c \in Calls, NEW v \in Volumes, NEW place \in Pods \cup {"staging"},
         Elsewhere(c, v, place), Alone(c, v, place), NEW d \in Calls \ {c}
  PROVE  /\ Busy(d)' => calls'[d].waited /\ view'[Target(d)'] = "maybe"
         /\ CallOK(d)' /\ MountOK(d)'
<1>1. /\ calls[d].vol \in Volumes /\ Target(d) \in Targets /\ Staging(calls[d].vol) \in Targets
  BY CallFields, Places DEF IInv
<1>2. Same(d) /\ Target(d)' = Target(d) /\ (Busy(d)' <=> Busy(d))
  BY DEF Elsewhere, Same, Target, Busy, At
<1>3. Busy(d) => mnt'[Target(d)] = mnt[Target(d)] /\ view'[Target(d)] = view[Target(d)]
  BY <1>1 DEF Elsewhere, Alone, Target
<1>4. Busy(d) /\ calls[d].op = "publish"
        => view'[Staging(calls[d].vol)] = view[Staging(calls[d].vol)]
  BY <1>1 DEF Elsewhere, Alone, Staging
<1>5. calls[d].pc \in Mounting => calls[d].op \in {"stage", "publish"}
  BY DEF TInv, CallOK
<1>6. At(d, "overlay") => mnt'[Lower(calls[d].vol)] = mnt[Lower(calls[d].vol)]
  BY <1>1, <1>5 DEF Elsewhere, Alone, At, Busy, Mounting
<1>7. Busy(d) \/ calls[d].pc = "idle"
  BY DEF Busy, At
<1>8. Busy(d)' => calls'[d].waited /\ view'[Target(d)'] = "maybe"
  BY <1>2, <1>3 DEF TInv, Answered, Same
<1>9. CallOK(d)'
  <2>1. CallOK(d)
    BY DEF TInv
  <2> QED BY <2>1, <1>2, <1>4, <1>7 DEF CallOK, Same, Busy, At, Mounting, Releasing, Staging
<1>10. MountOK(d)'
  <2>1. MountOK(d)
    BY DEF TInv
  <2>2. At(d, "overlay") => Top(Lower(calls[d].vol))' = Top(Lower(calls[d].vol))
    BY <1>2, <1>6 DEF Top, Same, Lower
  <2> QED BY <2>1, <2>2, <1>2, <1>3, <1>7 DEF MountOK, Same, Busy, At
<1> QED BY <1>8, <1>9, <1>10

\* With what c sees to itself this is all that the invariant asks for.
LEMMA StepKeeps ==
  ASSUME IInv, TInv, NEW c \in Calls, NEW v \in Volumes, NEW place \in Pods \cup {"staging"},
         Elsewhere(c, v, place), Alone(c, v, place), Own(c, v, place)
  PROVE  TInv'
<1> DEFINE t == <<v, place>>
<1>1. \A d \in Calls \ {c} : /\ Busy(d)' => calls'[d].waited /\ view'[Target(d)'] = "maybe"
                             /\ CallOK(d)' /\ MountOK(d)'
  BY OthersKeep
<1>2. Answered'
  <2>1. Busy(c)' => calls'[c].waited /\ view'[Target(c)'] = "maybe"
    BY DEF Own, Target
  <2> QED BY <1>1, <2>1 DEF Answered
<1>3. Exclusive'
  <2>1. ASSUME NEW d \in Calls, NEW e \in Calls, d # e, Busy(d)', Busy(e)',
               calls'[d].vol = calls'[e].vol
        PROVE  /\ calls'[d].op = "unpublish" /\ calls'[e].op = "unpublish"
               /\ calls'[d].place # calls'[e].place
    <3>1. CASE d # c /\ e # c
      BY <2>1, <3>1 DEF Elsewhere, Same, TInv, Exclusive, Busy, At
    <3>2. CASE d = c
      BY <2>1, <3>2 DEF Elsewhere, Same, Alone, Own, Busy, At
    <3>3. CASE e = c
      BY <2>1, <3>3 DEF Elsewhere, Same, Alone, Own, Busy, At
    <3> QED BY <3>1, <3>2, <3>3
  <2> QED BY <2>1 DEF Exclusive
<1>4. \A d \in Calls : CallOK(d)' /\ MountOK(d)'
  BY <1>1 DEF Own
<1>5. OneMount'
  BY DEF OneMount, TInv, Elsewhere, Own
<1>6. StagedStatic'
  <2>1. ASSUME NEW w \in Volumes \ Dynamic PROVE mnt'[Staging(w)] = <<>>
    <3>1. Staging(w) \in Targets /\ mnt[Staging(w)] = <<>>
      BY Places DEF StagedStatic, TInv
    <3>2. CASE Staging(w) = t
      BY <3>2 DEF Own, Staging
    <3>3. CASE Staging(w) # t
      BY <3>1, <3>3 DEF Elsewhere
    <3> QED BY <3>2, <3>3
  <2> QED BY <2>1 DEF StagedStatic, Staging
<1>7. ViewOK'
  <2>1. ASSUME NEW u \in Targets, u # t PROVE Truthful(u)'
    BY <2>1 DEF TInv, ViewOK, Truthful, Elsewhere, MountTargets, Targets
  <2>2. Truthful(t)'
    BY DEF Own, Truthful
  <2> QED BY <2>1, <2>2 DEF ViewOK
<1> QED BY <1>2, <1>3, <1>4, <1>5, <1>6, <1>7 DEF TInv
----------------------------------------------------------------------------
(* The steps of a handler. *)

\* What the handlers leave alone.
LEMMA HandlerAlone ==
  ASSUME IInv, TInv, NEW c \in Calls, Busy(c)
  PROVE  Alone(c, calls[c].vol, calls[c].place)
BY DEF TInv, Exclusive, Alone

\* Frees the slot c, or moves its call on, and leaves the other calls as they are.
Frees(c) ==
  /\ calls'[c] = Idle
  /\ \A d \in Calls \ {c} : Same(d)
Moves(c, pc, rec) ==
  /\ calls' = [calls EXCEPT ![c] = [@ EXCEPT !.pc = pc, !.rec = rec]]
  /\ UNCHANGED view

\* Whatever happens on the target and on the lower directory:
Around(c) ==
  /\ \A t \in Targets \ {Target(c)} : mnt'[t] = mnt[t]
  /\ \A w \in Volumes \ {calls[c].vol} : mnt'[Lower(w)] = mnt[Lower(w)]
Sound(c) ==
  /\ mnt'[Target(c)] \in Stacks
  /\ calls[c].place = "staging" /\ calls[c].vol \notin Dynamic => mnt'[Target(c)] = <<>>

LEMMA AnswerStep ==
  ASSUME IInv, TInv, NEW c \in Calls, Busy(c), NEW ok \in BOOLEAN,
         Frees(c), view' = AfterAnswer(c, ok), Around(c), Sound(c),
         ok /\ calls[c].op \in {"stage", "publish"} /\ Target(c) \in MountTargets
           => mnt'[Target(c)] # <<>>,
         ok /\ calls[c].op \notin {"stage", "publish"} => mnt'[Target(c)] = <<>>
  PROVE  TInv'
<1> DEFINE v == calls[c].vol
           place == calls[c].place
<1>1. v \in Volumes /\ place \in Pods \cup {"staging"} /\ Target(c) = <<v, place>>
      /\ Target(c) \in Targets
  BY CallFields DEF IInv, Call, Target
<1>2. calls[c].waited /\ view[Target(c)] = "maybe"
  BY DEF TInv, Answered
<1>3. view \in [Targets -> {"no", "maybe", "yes"}]
  BY DEF IInv, CallsInv
<1>4. /\ ~ok => view' = [view EXCEPT ![Target(c)] = "maybe"]
      /\ ok => view' = [view EXCEPT ![Target(c)] =
                          IF calls[c].op \in {"stage", "publish"} THEN "yes" ELSE "no"]
  BY <1>2 DEF AfterAnswer
<1>5. Elsewhere(c, v, place)
  BY <1>1, <1>3, <1>4 DEF Elsewhere, Frees, Around
<1>6. ~Busy(c)' /\ CallOK(c)' /\ MountOK(c)'
  <2>1. calls'[c].pc = "idle"
    BY DEF Frees, Idle
  <2> QED BY <2>1 DEF Busy, At, CallOK, MountOK, Mounting, Releasing
<1>7. /\ view'[<<v, place>>] = "yes" /\ <<v, place>> \in MountTargets => mnt'[<<v, place>>] # <<>>
      /\ view'[<<v, place>>] = "no" => mnt'[<<v, place>>] = <<>>
  BY <1>1, <1>3, <1>4
<1>8. Own(c, v, place)
  BY <1>1, <1>6, <1>7 DEF Own, Sound
<1> QED BY <1>1, <1>5, <1>8, HandlerAlone, StepKeeps

LEMMA AnswerFrees ==
  ASSUME IInv, NEW c \in Calls, NEW ok, Answer(c, ok)
  PROVE  Frees(c) /\ view' = AfterAnswer(c, ok)
BY DEF IInv, CallsInv, Answer, Frees, Same

\* The targets are as they were.
LEMMA Untouched ==
  ASSUME IInv, TInv, NEW c \in Calls, UNCHANGED mnt
  PROVE  Around(c) /\ Sound(c) /\ mnt'[Target(c)] = mnt[Target(c)]
<1>1. Target(c) \in Targets /\ calls[c].vol \in Volumes
  BY CallFields DEF IInv
<1>2. calls[c].place = "staging" => Target(c) = Staging(calls[c].vol)
  BY DEF Target, Staging
<1> QED BY <1>1, <1>2 DEF Around, Sound, TInv, OneMount, StagedStatic

LEMMA MoveStep ==
  ASSUME IInv, TInv, NEW c \in Calls, Busy(c), NEW pc \in PCs \ {"idle"}, NEW rec \in Record,
         Moves(c, pc, rec), Around(c), Sound(c), CallOK(c)', MountOK(c)'
  PROVE  TInv'
<1> DEFINE v == calls[c].vol
           place == calls[c].place
<1>1. v \in Volumes /\ place \in Pods \cup {"staging"} /\ Target(c) = <<v, place>>
      /\ Target(c) \in Targets /\ calls[c] \in Call
  BY CallFields DEF IInv, Call, Target
<1>2. calls[c].waited /\ view'[Target(c)] = "maybe"
  BY DEF TInv, Answered, Moves
<1>3. \A d \in Calls \ {c} : Same(d)
  BY DEF Moves, IInv, CallsInv, Same
<1>4. /\ calls'[c].vol = v /\ calls'[c].place = place /\ calls'[c].op = calls[c].op
      /\ calls'[c].waited = calls[c].waited
  BY <1>1 DEF Moves, IInv, CallsInv, Call
<1>5. Elsewhere(c, v, place)
  BY <1>1, <1>3 DEF Elsewhere, Moves, Around
<1>7. \A d \in Calls \ {c} : Busy(d) /\ calls[d].vol = v => calls[c].op = "unpublish"
  BY DEF TInv, Exclusive
<1>8. Own(c, v, place)
  BY <1>1, <1>2, <1>4, <1>7 DEF Own, Sound
<1> QED BY <1>1, <1>5, <1>8, HandlerAlone, StepKeeps

LEMMA GotoMoves ==
  ASSUME IInv, NEW c \in Calls, NEW pc, Goto(c, pc)
  PROVE  /\ Moves(c, pc, calls[c].rec)
         /\ calls[c].rec \in Record
         /\ calls'[c] = [calls[c] EXCEPT !.pc = pc]
         /\ Target(c)' = Target(c)
<1>1. calls[c] \in Call /\ calls[c].rec \in Record
  BY CallFields DEF IInv
<1>2. calls'[c] = [calls[c] EXCEPT !.pc = pc] /\ UNCHANGED view
  BY DEF IInv, CallsInv, Goto
<1>3. [calls[c] EXCEPT !.pc = pc] = [calls[c] EXCEPT !.pc = pc, !.rec = calls[c].rec]
  BY <1>1 DEF Call
<1>4. Moves(c, pc, calls[c].rec)
  BY <1>2, <1>3 DEF Moves, Goto
<1>5. Target(c)' = Target(c)
  BY <1>1, <1>2 DEF Call, Target
<1> QED BY <1>1, <1>2, <1>4, <1>5

\* A request of kubelet keeps to its rules.
LEMMA IssueStep ==
  ASSUME IInv, TInv, NEW c \in Calls, NEW v \in Volumes, NEW place \in Pods \cup {"staging"},
         NEW op \in {"stage", "publish", "unpublish", "unstage"}, NEW pc \in {"check", "put", "get"},
         Issue(c, op, v, place, pc),
         \A d \in Calls : Busy(d) /\ calls[d].vol = v =>
           op = "unpublish" /\ calls[d].op = "unpublish" /\ calls[d].place # place,
         pc = "get" <=> op \in {"unpublish", "unstage"},
         place = "staging" <=> op \in {"stage", "unstage"},
         op = "publish" => pc = "check" /\ view[Staging(v)] = "yes",
         op = "stage" => (pc = "check" <=> v \in Dynamic)
  PROVE  TInv'
<1> DEFINE t == <<v, place>>
<1>1. t \in Targets /\ Staging(v) \in Targets /\ (op = "publish" => Staging(v) # t)
  BY DEF Targets, Staging
<1>2. /\ calls'[c].op = op /\ calls'[c].vol = v /\ calls'[c].place = place
      /\ calls'[c].pc = pc /\ calls'[c].waited
      /\ view' = [view EXCEPT ![t] = "maybe"] /\ mnt' = mnt
  BY DEF Issue, IInv, CallsInv
<1>3. \A d \in Calls \ {c} : Same(d)
  BY DEF Issue, IInv, CallsInv, Same
<1>4. view \in [Targets -> {"no", "maybe", "yes"}]
  BY DEF IInv, CallsInv
<1>5. Elsewhere(c, v, place) /\ Alone(c, v, place)
  BY <1>1, <1>2, <1>3, <1>4 DEF Elsewhere, Alone
<1>6. CallOK(c)' /\ MountOK(c)'
  <2>1. op = "publish" => view'[Staging(v)] = "yes"
    BY <1>1, <1>2, <1>4
  <2> QED BY <1>2, <2>1 DEF CallOK, MountOK, Mounting, Releasing, Busy, At, Staging
<1>7. mnt[t] \in Stacks /\ (place = "staging" /\ v \notin Dynamic => mnt[t] = <<>>)
  BY <1>1 DEF TInv, OneMount, StagedStatic, Staging
<1>8. Own(c, v, place)
  BY <1>1, <1>2, <1>4, <1>6, <1>7 DEF Own
<1> QED BY <1>5, <1>8, StepKeeps

LEMMA KubeletTargets ==
  ASSUME IInv, TInv, Kubelet
  PROVE  TInv'
<1> PICK c \in Calls, v \in Volumes :
      \/ IssueStage(c, v)
      \/ IssueUnstage(c, v)
      \/ \E p \in Pods : IssuePublish(c, v, p) \/ IssueUnpublish(c, v, p)
  BY DEF Kubelet
<1>1. \A d \in Calls : Busy(d) /\ calls[d].vol = v => d \in Awaited(v)
  BY DEF TInv, Answered, Awaited
<1>2. CASE IssueStage(c, v)
  <2>1. Undisturbed(v) /\ Issue(c, "stage", v, "staging", IF v \in Dynamic THEN "check" ELSE "put")
    BY <1>2 DEF IssueStage
  <2>2. CASE v \in Dynamic
    BY <1>1, <2>1, <2>2, IssueStep DEF Undisturbed
  <2>3. CASE v \notin Dynamic
    BY <1>1, <2>1, <2>3, IssueStep DEF Undisturbed
  <2> QED BY <2>2, <2>3
<1>3. CASE IssueUnstage(c, v)
  BY <1>1, <1>3, IssueStep DEF IssueUnstage, Undisturbed
<1>4. ASSUME NEW p \in Pods, IssuePublish(c, v, p) PROVE TInv'
  BY <1>1, <1>4, IssueStep, PodsAssumption DEF IssuePublish, Undisturbed
<1>5. ASSUME NEW p \in Pods, IssueUnpublish(c, v, p) PROVE TInv'
  <2>1. \A d \in Calls : Busy(d) /\ calls[d].vol = v =>
          calls[d].op = "unpublish" /\ calls[d].place # p
    BY <1>1, <1>5 DEF IssueUnpublish
  <2>2. Issue(c, "unpublish", v, p, "get") /\ p # "staging"
    BY <1>5, PodsAssumption DEF IssueUnpublish
  <2> QED BY <2>1, <2>2, IssueStep
<1> QED BY <1>2, <1>3, <1>4, <1>5

\* Answering without having touched a mount: an error, or that nothing is there.
LEMMA AnswerUntouched ==
  ASSUME IInv, TInv, NEW c \in Calls, Busy(c), NEW ok \in BOOLEAN, Answer(c, ok), UNCHANGED mnt,
         ok => calls[c].op \notin {"stage", "publish"} /\ mnt[Target(c)] = <<>>
  PROVE  TInv'
BY AnswerFrees, Untouched, AnswerStep

\* What is known of the call at each point of a handler.
LEMMA AtPoint ==
  ASSUME TInv, NEW c \in Calls, ~At(c, "idle")
  PROVE  CallOK(c) /\ MountOK(c) /\ Busy(c)
BY DEF TInv, Busy

LEMMA StackFacts ==
  ASSUME NEW stack \in Stacks
  PROVE  /\ Pop(stack) = <<>>
         /\ stack # <<>> => stack[Len(stack)] \in {"live", "dead"}
<1>1. SubSeq(<<"live">>, 1, 0) = <<>> /\ SubSeq(<<"dead">>, 1, 0) = <<>>
  OBVIOUS
<1> QED BY <1>1 DEF Stacks, Pop

LEMMA TargetTop ==
  ASSUME TInv, NEW t \in Targets
  PROVE  /\ mnt[t] \in Stacks
         /\ Top(t) \in {"none", "plain"} => mnt[t] = <<>>
         /\ mnt[t] # <<>> => Top(t) \in {"live", "dead"}
<1>1. mnt[t] \in Stacks
  BY DEF TInv, OneMount
<1> QED BY <1>1, StackFacts DEF Top

LEMMA CheckTargetTargets ==
  ASSUME IInv, TInv, NEW c \in Calls, CheckTarget(c)
  PROVE  TInv'
<1>1. At(c, "check") /\ CallOK(c) /\ Busy(c) /\ mnt' = mnt /\ Target(c) \in Targets
  BY AtPoint, CallFields DEF CheckTarget, At, IInv
<1>2. CASE Answer(c, FALSE)
  BY <1>1, <1>2, AnswerUntouched
<1>3. ASSUME NEW pc \in {"bind", "mount"}, Goto(c, pc), mnt[Target(c)] = <<>>,
             pc = "bind" => calls[c].op = "publish" /\ calls[c].vol \in Dynamic
      PROVE  TInv'
  <2>1. /\ Moves(c, pc, calls[c].rec) /\ calls[c].rec \in Record
        /\ calls'[c] = [calls[c] EXCEPT !.pc = pc] /\ calls[c] \in Call
        /\ view' = view /\ Target(c)' = Target(c)
    BY <1>3, GotoMoves, CallFields DEF IInv, Goto
  <2>2. CallOK(c)' /\ MountOK(c)'
    BY <1>1, <1>3, <2>1 DEF CallOK, MountOK, Call, At, Busy, Mounting, Releasing, Staging
  <2>3. pc \in PCs \ {"idle"}
    BY <1>3 DEF PCs
  <2> QED BY <1>1, <2>1, <2>2, <2>3, Untouched, MoveStep
<1> QED BY <1>1, <1>2, <1>3, TargetTop DEF CheckTarget

\* A mount on the target or on the lower directory is seen nowhere else.
LEMMA PushedAround ==
  ASSUME IInv, NEW c \in Calls, NEW kind \in MountKinds,
         NEW path \in {Target(c), Lower(calls[c].vol)}, mnt' = Pushed(path, kind)
  PROVE  /\ Around(c)
         /\ mnt'[path] = Append(mnt[path], kind)
         /\ path # Target(c) => mnt'[Target(c)] = mnt[Target(c)]
<1>1. /\ Target(c) \in Targets /\ calls[c].vol \in Volumes /\ path \in Paths
      /\ mnt \in [Paths -> Seq(MountKinds)]
  BY CallFields DEF IInv, MountsInv
<1> QED BY <1>1, Places DEF Pushed, Around

LEMMA PoppedAround ==
  ASSUME IInv, NEW c \in Calls,
         NEW path \in {Target(c), Lower(calls[c].vol)}, mnt' = Popped(path)
  PROVE  /\ Around(c)
         /\ mnt'[path] = Pop(mnt[path])
         /\ path # Target(c) => mnt'[Target(c)] = mnt[Target(c)]
<1>1. /\ Target(c) \in Targets /\ calls[c].vol \in Volumes /\ path \in Paths
      /\ mnt \in [Paths -> Seq(MountKinds)]
  BY CallFields DEF IInv, MountsInv
<1> QED BY <1>1, Places DEF Popped, Around

\* An unsuccessful step that leaves nothing on the target.
LEMMA AnswerEmpty ==
  ASSUME IInv, TInv, NEW c \in Calls, Busy(c), NEW ok \in BOOLEAN, Answer(c, ok),
         Around(c), mnt'[Target(c)] = <<>>,
         ok => calls[c].op \notin {"stage", "publish"}
  PROVE  TInv'
BY AnswerFrees, AnswerStep DEF Sound, Stacks

\* The client's mount succeeds.
LEMMA MountedStep ==
  ASSUME IInv, TInv, NEW c \in Calls, calls[c].pc \in {"mount", "overlay"},
         mnt' = Pushed(Target(c), "live"), Goto(c, AfterMount(c))
  PROVE  TInv'
<1>1. /\ CallOK(c) /\ Busy(c) /\ Target(c) \in Targets /\ mnt[Target(c)] = <<>>
      /\ calls[c].op \in {"stage", "publish"} /\ calls[c] \in Call
      /\ calls[c].op = "stage" => calls[c].vol \in Dynamic
  BY AtPoint, CallFields DEF At, IInv, MountOK, CallOK, Mounting
<1>2. Around(c) /\ mnt'[Target(c)] = <<"live">>
  BY <1>1, PushedAround DEF MountKinds
<1>3. /\ Moves(c, AfterMount(c), calls[c].rec) /\ calls[c].rec \in Record
      /\ calls'[c] = [calls[c] EXCEPT !.pc = AfterMount(c)]
      /\ view' = view /\ Target(c)' = Target(c)
  BY GotoMoves DEF Goto
<1>4. AfterMount(c) \in {"put", "pop"}
  BY DEF AfterMount
<1>5. CallOK(c)' /\ MountOK(c)'
  <2>1. /\ calls'[c].pc \in {"put", "pop"} /\ calls'[c].op = calls[c].op
        /\ calls'[c].vol = calls[c].vol /\ calls'[c].place = calls[c].place
    BY <1>1, <1>3, <1>4 DEF Call
  <2>2. calls[c].place = "staging" <=> calls[c].op = "stage"
    BY <1>1 DEF CallOK
  <2>3. CallOK(c)'
    BY <1>1, <2>1, <2>2 DEF CallOK, Mounting, Releasing
  <2>4. mnt'[Target(c)'] # <<>>
    <3>1. Target(c)' = Target(c) /\ mnt'[Target(c)] = <<"live">>
      BY <1>2, <1>3
    <3>2. <<"live">> # <<>>
      OBVIOUS
    <3> QED BY ONLY <3>1, <3>2
  <2>5. MountOK(c)'
    BY <2>1, <2>4 DEF MountOK
  <2> QED BY <2>3, <2>5
<1>6. Sound(c)
  BY <1>1, <1>2 DEF Sound, Stacks, CallOK, At
<1>7. AfterMount(c) \in PCs \ {"idle"}
  BY <1>4 DEF PCs
<1> QED BY <1>1, <1>2, <1>3, <1>5, <1>6, <1>7, MoveStep

LEMMA MountTargetTargets ==
  ASSUME IInv, TInv, NEW c \in Calls, MountTarget(c)
  PROVE  TInv'
<1>1. At(c, "mount") /\ CallOK(c) /\ Busy(c) /\ Target(c) \in Targets /\ mnt[Target(c)] = <<>>
      /\ calls[c].op \in {"stage", "publish"} /\ calls[c] \in Call
  BY AtPoint, CallFields DEF MountTarget, At, IInv, MountOK, CallOK, Mounting
<1>2. CASE mnt' = Pushed(Target(c), "live") /\ Goto(c, AfterMount(c))
  BY <1>1, <1>2, MountedStep DEF At
<1>3. CASE Answer(c, FALSE) /\ mnt' = mnt
  BY <1>1, <1>3, AnswerUntouched
<1>4. CASE Answer(c, FALSE) /\ mnt' = Popped(Target(c))
  <2>1. Around(c) /\ mnt'[Target(c)] = <<>>
    BY <1>1, <1>4, PoppedAround DEF Pop
  <2> QED BY <1>1, <1>4, <2>1, AnswerEmpty
<1> QED BY <1>2, <1>3, <1>4 DEF MountTarget, MountError

LEMMA MountLowerTargets ==
  ASSUME IInv, TInv, NEW c \in Calls, MountLower(c)
  PROVE  TInv'
<1> DEFINE low == Lower(calls[c].vol)
<1>1. At(c, "mount") /\ CallOK(c) /\ Busy(c) /\ mnt[Target(c)] = <<>>
      /\ calls[c] \in Call /\ low \in Paths /\ Target(c) # low
  BY AtPoint, CallFields, Places DEF MountLower, At, IInv, MountOK
<1>2. CASE mnt' = Pushed(low, "live") /\ Goto(c, "overlay")
  <2>1. Around(c) /\ mnt'[Target(c)] = <<>> /\ mnt'[low] = Append(mnt[low], "live")
    BY <1>1, <1>2, PushedAround DEF MountKinds
  <2>2. /\ Moves(c, "overlay", calls[c].rec) /\ calls[c].rec \in Record
        /\ calls'[c] = [calls[c] EXCEPT !.pc = "overlay"]
        /\ view' = view /\ Target(c)' = Target(c)
    BY <1>2, GotoMoves DEF Goto
  <2>3. Lower(calls[c].vol)' = low
    BY <1>1, <2>2 DEF Call, Lower
  <2>4. Top(Lower(calls[c].vol))' = "live"
    <3>1. mnt[low] \in Seq(MountKinds) /\ "live" \in MountKinds
      BY <1>1 DEF IInv, MountsInv, MountKinds
    <3> QED BY <2>1, <2>3, <3>1 DEF Top
  <2>5. CallOK(c)'
    BY <1>1, <2>2 DEF CallOK, Call, At, Busy, Mounting, Releasing
  <2>6. MountOK(c)'
    BY <1>1, <2>1, <2>2, <2>4 DEF MountOK, Call
  <2>7. Sound(c)
    BY <2>1 DEF Sound, Stacks
  <2> QED BY <1>1, <2>1, <2>2, <2>5, <2>6, <2>7, MoveStep DEF PCs
<1>3. CASE Answer(c, FALSE) /\ mnt' = mnt
  BY <1>1, <1>3, AnswerUntouched
<1>4. CASE Answer(c, FALSE) /\ mnt' = Popped(low)
  <2>1. Around(c) /\ mnt'[Target(c)] = <<>>
    BY <1>1, <1>4, PoppedAround
  <2> QED BY <1>1, <1>4, <2>1, AnswerEmpty
<1> QED BY <1>2, <1>3, <1>4 DEF MountLower, MountError

LEMMA MountOverlayTargets ==
  ASSUME IInv, TInv, NEW c \in Calls, MountOverlay(c)
  PROVE  TInv'
<1>1. At(c, "overlay") /\ CallOK(c) /\ Busy(c) /\ Target(c) \in Targets /\ mnt[Target(c)] = <<>>
      /\ calls[c].op \in {"stage", "publish"} /\ calls[c] \in Call
      /\ Top(Lower(calls[c].vol)) = "live"
  BY AtPoint, CallFields DEF MountOverlay, At, IInv, MountOK, CallOK, Mounting
<1>2. CASE mnt' = Pushed(Target(c), "live") /\ Goto(c, AfterMount(c))
  BY <1>1, <1>2, MountedStep DEF At
<1>3. CASE Answer(c, FALSE) /\ mnt' = Popped(Target(c))
  <2>1. Around(c) /\ mnt'[Target(c)] = <<>>
    BY <1>1, <1>3, PoppedAround DEF Pop
  <2> QED BY <1>1, <1>3, <2>1, AnswerEmpty
<1>4. CASE Answer(c, FALSE) /\ mnt' = mnt
  BY <1>1, <1>4, AnswerUntouched
<1> QED BY <1>1, <1>2, <1>3, <1>4 DEF MountOverlay, MountError

LEMMA BindTargetTargets ==
  ASSUME IInv, TInv, NEW c \in Calls, BindTarget(c)
  PROVE  TInv'
<1> DEFINE source == Top(Staging(calls[c].vol))
<1>1. At(c, "bind") /\ CallOK(c) /\ Busy(c) /\ mnt[Target(c)] = <<>> /\ calls[c] \in Call
      /\ calls[c].op = "publish" /\ calls[c].vol \in Dynamic
      /\ view[Staging(calls[c].vol)] = "yes"
  BY AtPoint, CallFields DEF BindTarget, At, IInv, MountOK, CallOK
<1>2. source \in {"live", "dead"}
  <2>1. Staging(calls[c].vol) \in MountTargets /\ Staging(calls[c].vol) \in Targets
    BY <1>1, CallFields, Places DEF MountTargets, Staging, IInv
  <2>2. mnt[Staging(calls[c].vol)] # <<>>
    BY <1>1, <2>1 DEF TInv, ViewOK, Truthful
  <2> QED BY <2>1, <2>2, TargetTop
<1>3. CASE mnt' = Pushed(Target(c), source)
  <2>1. Around(c) /\ mnt'[Target(c)] = <<source>>
    BY <1>1, <1>2, <1>3, PushedAround DEF MountKinds
  <2>2. Sound(c)
    BY <1>1, <1>2, <2>1 DEF Sound, Stacks
  <2>3. CASE Goto(c, "pop")
    <3>1. /\ Moves(c, "pop", calls[c].rec) /\ calls[c].rec \in Record
          /\ calls'[c] = [calls[c] EXCEPT !.pc = "pop"]
          /\ view' = view /\ Target(c)' = Target(c)
      BY <2>3, GotoMoves DEF Goto
    <3>2. CallOK(c)' /\ MountOK(c)'
      <4>1. /\ calls'[c].pc = "pop" /\ calls'[c].op = "publish"
            /\ calls'[c].vol = calls[c].vol /\ calls'[c].place = calls[c].place
        BY <1>1, <3>1 DEF Call
      <4>2. calls[c].place # "staging"
        BY <1>1 DEF CallOK
      <4>3. CallOK(c)'
        BY <1>1, <4>1, <4>2 DEF CallOK, Mounting, Releasing
      <4>4. mnt'[Target(c)] # <<>> /\ Target(c)' = Target(c)
        BY <1>2, <2>1, <3>1
      <4>5. MountOK(c)'
        BY <4>1, <4>4 DEF MountOK
      <4> QED BY <4>3, <4>5
    <3> QED BY <1>1, <2>1, <2>2, <3>1, <3>2, MoveStep DEF PCs
  <2>4. CASE Answer(c, FALSE)
    BY <1>1, <2>1, <2>2, <2>4, AnswerFrees, AnswerStep
  <2> QED BY <2>3, <2>4, <1>3, <1>1, <1>2 DEF BindTarget, MountError
<1>4. CASE Answer(c, FALSE) /\ mnt' = mnt
  BY <1>1, <1>4, AnswerUntouched
<1> QED BY <1>2, <1>3, <1>4 DEF BindTarget, MountError

\* A handler goes on with its target untouched.
LEMMA MoveUntouched ==
  ASSUME IInv, TInv, NEW c \in Calls, Busy(c), NEW pc \in {"fill", "put", "drop", "unmount"},
         NEW rec \in Record, Moves(c, pc, rec), UNCHANGED mnt,
         IF pc \in {"fill", "put"} THEN calls[c].pc = "pop" ELSE calls[c].pc \in {"get", "drop"},
         pc = "drop" => rec.known, pc = "fill" => calls[c].vol \notin Dynamic
  PROVE  TInv'
<1>1. CallOK(c) /\ MountOK(c) /\ calls[c] \in Call
  BY AtPoint, CallFields DEF IInv, Busy
<1>2. /\ calls'[c].pc = pc /\ calls'[c].op = calls[c].op /\ calls'[c].vol = calls[c].vol
      /\ calls'[c].place = calls[c].place /\ calls'[c].rec = rec
  BY <1>1 DEF Moves, IInv, CallsInv, Call
<1>3. CallOK(c)'
  BY <1>1, <1>2 DEF CallOK, Mounting, Releasing, Busy, At
<1>4. MountOK(c)'
  BY <1>1, <1>2 DEF MountOK, Target
<1> QED BY <1>3, <1>4, Untouched, MoveStep DEF PCs

LEMMA PopRecordTargets ==
  ASSUME IInv, TInv, NEW c \in Calls, PopRecord(c)
  PROVE  TInv'
<1> DEFINE rec == mem[calls[c].vol]
           pc == IF rec.known /\ calls[c].vol \notin Dynamic THEN "fill" ELSE "put"
<1>1. At(c, "pop") /\ Busy(c) /\ mnt' = mnt /\ rec \in Record /\ calls[c] \in Call
  BY AtPoint, CallFields DEF PopRecord, At, IInv, RecordsInv
<1>2. CASE calls' = [calls EXCEPT ![c].pc = pc, ![c].rec = rec] /\ UNCHANGED view
  <2>1. Moves(c, pc, rec)
    BY <1>1, <1>2 DEF Moves, Call, IInv, CallsInv
  <2>2. pc \in {"fill", "put"} /\ (pc = "fill" => calls[c].vol \notin Dynamic)
    OBVIOUS
  <2> HIDE DEF pc, rec
  <2> QED BY <1>1, <2>1, <2>2, MoveUntouched DEF At
<1>3. CASE Answer(c, FALSE)
  BY <1>1, <1>3, AnswerUntouched
<1> QED BY <1>2, <1>3 DEF PopRecord

LEMMA FillRecordTargets ==
  ASSUME IInv, TInv, NEW c \in Calls, FillRecord(c)
  PROVE  TInv'
<1> DEFINE v == calls[c].vol
           place == calls[c].place
<1>1. /\ v \in Volumes /\ place \in Pods \cup {"staging"} /\ Target(c) = <<v, place>>
      /\ Busy(c) /\ At(c, "fill") /\ CallOK(c) /\ MountOK(c)
  BY AtPoint, CallFields DEF FillRecord, At, IInv, Call, Target
<1>2. \A d \in Calls \ {c} : Same(d)
  BY FillFields, CallFields DEF IInv, Same, Record
<1>3. UNCHANGED <<mnt, view>>
  BY DEF FillRecord
<1>4. Elsewhere(c, v, place) /\ Alone(c, v, place)
  BY <1>1, <1>2, <1>3, HandlerAlone DEF Elsewhere
<1>5. /\ calls'[c].op = calls[c].op /\ calls'[c].vol = v /\ calls'[c].place = place
      /\ calls'[c].pc = "put" /\ calls'[c].waited = calls[c].waited
  BY FillFields DEF IInv
<1>6. CallOK(c)' /\ MountOK(c)'
  BY <1>1, <1>3, <1>5 DEF CallOK, MountOK, Mounting, Releasing, Busy, At, Target
<1>7. Sound(c) /\ mnt'[Target(c)] = mnt[Target(c)]
  BY <1>3, Untouched
<1>8. calls[c].waited /\ view'[Target(c)] = "maybe"
  BY <1>1, <1>3 DEF TInv, Answered
<1>9. \A d \in Calls \ {c} : Busy(d) /\ calls[d].vol = v => calls[c].op = "unpublish"
  BY <1>1 DEF TInv, Exclusive
<1>10. Own(c, v, place)
  BY <1>1, <1>5, <1>6, <1>7, <1>8, <1>9 DEF Own, Sound
<1> QED BY <1>1, <1>4, <1>10, StepKeeps

LEMMA PutRecordTargets ==
  ASSUME IInv, TInv, NEW c \in Calls, PutRecord(c)
  PROVE  TInv'
<1>1. At(c, "put") /\ Busy(c) /\ mnt' = mnt /\ CallOK(c) /\ MountOK(c) /\ calls[c] \in Call
      /\ calls[c].op \in {"stage", "publish"} /\ Target(c) \in Targets
  BY AtPoint, CallFields DEF PutRecord, At, IInv, CallOK, Mounting
<1>2. Target(c) \in MountTargets => mnt'[Target(c)] # <<>>
  BY <1>1 DEF MountOK, CallOK, MountTargets, Target, Busy, At
<1>3. ASSUME NEW ok \in BOOLEAN, Answer(c, ok) PROVE TInv'
  BY <1>1, <1>2, <1>3, AnswerFrees, Untouched, AnswerStep
<1> QED BY <1>3 DEF PutRecord

LEMMA GetRecordTargets ==
  ASSUME IInv, TInv, NEW c \in Calls, GetRecord(c)
  PROVE  TInv'
<1> DEFINE rec == mem[calls[c].vol]
           pc == IF Drops(c, rec) THEN "drop" ELSE "unmount"
<1>1. At(c, "get") /\ Busy(c) /\ mnt' = mnt /\ rec \in Record /\ calls[c] \in Call
  BY AtPoint, CallFields DEF GetRecord, At, IInv, RecordsInv
<1>2. Moves(c, pc, rec)
  BY <1>1 DEF GetRecord, Moves, Call, IInv, CallsInv
<1>3. pc \in {"drop", "unmount"} /\ (pc = "drop" => rec.known)
  BY DEF Drops
<1> HIDE DEF pc, rec
<1> QED BY <1>1, <1>2, <1>3, MoveUntouched DEF At

LEMMA DropRecordTargets ==
  ASSUME IInv, TInv, NEW c \in Calls, DropRecord(c)
  PROVE  TInv'
<1>1. /\ At(c, "drop") /\ Busy(c) /\ mnt' = mnt /\ CallOK(c)
      /\ calls[c].op \in {"unpublish", "unstage"} /\ calls[c].rec.known
      /\ calls[c].vol \in Volumes /\ WholeRecord(calls[c].vol, calls[c].rec)
  BY AtPoint, CallFields DEF DropRecord, At, IInv, CallOK, Releasing
<1>2. CASE Answer(c, FALSE)
  BY <1>1, <1>2, AnswerUntouched
<1>3. CASE AfterDrop(c) /\ calls[c].op = "unstage" /\ ~calls[c].rec.dyn
  <2>1. calls[c].vol \notin Dynamic /\ calls[c].place = "staging"
    BY <1>1, <1>3 DEF WholeRecord, CallOK
  <2>2. mnt[Target(c)] = <<>>
    BY <1>1, <2>1 DEF TInv, StagedStatic, Staging, Target
  <2> QED BY <1>1, <1>3, <2>2, AnswerUntouched DEF AfterDrop
<1>4. CASE Goto(c, "unmount")
  BY <1>1, <1>4, GotoMoves, MoveUntouched DEF At
<1> QED BY <1>2, <1>3, <1>4 DEF DropRecord, AfterDrop

\* unmounting
LEMMA UnmountTargets ==
  ASSUME IInv, TInv, NEW c \in Calls,
         UnmountNothing(c) \/ UnmountUnconfigured(c) \/ UnmountPlain(c) \/ UnmountTarget(c)
  PROVE  TInv'
<1>1. /\ At(c, "unmount") /\ Busy(c) /\ CallOK(c) /\ Target(c) \in Targets /\ calls[c] \in Call
      /\ calls[c].op \in {"unpublish", "unstage"}
  BY AtPoint, CallFields DEF UnmountNothing, UnmountUnconfigured, UnmountPlain, UnmountTarget,
                             At, IInv, CallOK, Releasing
<1>2. CASE mnt' = mnt /\ (Answer(c, FALSE) \/ (Answer(c, TRUE) /\ mnt[Target(c)] = <<>>))
  BY <1>1, <1>2, AnswerUntouched
<1>3. CASE mnt' = Popped(Target(c))
  <2>1. Around(c) /\ mnt'[Target(c)] = <<>>
    <3>1. mnt[Target(c)] \in Stacks
      BY <1>1, TargetTop
    <3> QED BY <1>3, <3>1, PoppedAround, StackFacts
  <2>2. ASSUME NEW ok \in BOOLEAN, Answer(c, ok) PROVE TInv'
    BY <1>1, <2>1, <2>2, AnswerEmpty
  <2>3. CASE Goto(c, "lower")
    <3>1. /\ Moves(c, "lower", calls[c].rec) /\ calls[c].rec \in Record
          /\ calls'[c] = [calls[c] EXCEPT !.pc = "lower"]
          /\ view' = view /\ Target(c)' = Target(c)
      BY <2>3, GotoMoves DEF Goto
    <3>2. CallOK(c)'
      BY <1>1, <3>1 DEF CallOK, Call, At, Busy, Mounting, Releasing
    <3>3. MountOK(c)'
      BY <1>1, <2>1, <3>1 DEF MountOK, Call
    <3>4. Sound(c)
      BY <2>1 DEF Sound, Stacks
    <3> QED BY <1>1, <2>1, <3>1, <3>2, <3>3, <3>4, MoveStep DEF PCs
  <2>4. ASSUME Answer(c, Removable(c, mnt'[Target(c)])) PROVE TInv'
    BY <2>2, <2>4, RemovableType
  <2>5. CASE UnmountPlain(c) \/ UnmountTarget(c)
    <3>1. Goto(c, "lower") \/ Answer(c, FALSE) \/ Answer(c, Removable(c, mnt'[Target(c)]))
      BY <2>5 DEF UnmountPlain, UnmountTarget, UmountError
    <3> QED BY <2>2, <2>3, <2>4, <3>1
  <2>6. CASE UnmountNothing(c) \/ UnmountUnconfigured(c)
    BY <2>2, <2>6 DEF UnmountNothing, UnmountUnconfigured
  <2> QED BY <2>5, <2>6
<1> QED BY <1>2, <1>3 DEF UnmountNothing, UnmountUnconfigured, UnmountPlain, UnmountTarget, UmountError

LEMMA UnmountLowerTargets ==
  ASSUME IInv, TInv, NEW c \in Calls, UnmountLower(c)
  PROVE  TInv'
<1> DEFINE low == Lower(calls[c].vol)
<1>1. /\ At(c, "lower") /\ Busy(c) /\ Target(c) \in Targets /\ mnt[Target(c)] = <<>>
      /\ calls[c].op \in {"unpublish", "unstage"}
  BY AtPoint, CallFields DEF UnmountLower, At, IInv, CallOK, MountOK, Releasing
<1>2. Around(c) /\ mnt'[Target(c)] = <<>>
  <2>1. CASE mnt' = Popped(low)
    BY <1>1, <2>1, CallFields, Places, PoppedAround DEF IInv
  <2>2. CASE mnt' = mnt
    BY <1>1, <2>2, Untouched
  <2> QED BY <2>1, <2>2 DEF UnmountLower, Popped
<1>3. ASSUME NEW ok \in BOOLEAN, Answer(c, ok) PROVE TInv'
  BY <1>1, <1>2, <1>3, AnswerEmpty
<1>4. Answer(c, FALSE) \/ Answer(c, Removable(c, mnt[Target(c)]))
  BY DEF UnmountLower, UmountError
<1> QED BY <1>3, <1>4, RemovableType

LEMMA HandlerTargets ==
  ASSUME IInv, TInv, NEW c \in Calls, Handler(c)
  PROVE  TInv'
BY CheckTargetTargets, MountTargetTargets, MountLowerTargets, MountOverlayTargets,
   BindTargetTargets, PopRecordTargets, FillRecordTargets, PutRecordTargets,
   GetRecordTargets, DropRecordTargets, UnmountTargets, UnmountLowerTargets
   DEF Handler

\* A restart frees every slot, and leaves of a mount its dead mount point or itself.
LEMMA CrashMounts ==
  ASSUME IInv, TInv, Crash, NEW t \in Targets
  PROVE  /\ mnt[t] \in Stacks /\ mnt'[t] \in Stacks
         /\ mnt'[t] = <<>> <=> mnt[t] = <<>>
<1>1. mnt[t] \in Stacks
  BY DEF TInv, OneMount
<1>2. mnt'[t] = Killed(t)
  BY PodsAssumption DEF Crash, LocalDirectoriesLost, Targets, Paths
<1>3. CASE mnt[t] = <<>>
  BY <1>2, <1>3 DEF Killed, Stacks
<1>4. ASSUME NEW kind \in {"live", "dead"}, mnt[t] = <<kind>>
      PROVE  Killed(t) = <<"dead">> \/ Killed(t) = <<kind>>
  <2>1. DOMAIN mnt[t] = {1} /\ mnt[t][1] = kind
    BY <1>4
  <2>2. Killed(t) = [i \in {1} |-> "dead"] \/ Killed(t) = [i \in {1} |-> kind]
    BY <1>4, <2>1 DEF Killed
  <2>3. \A k \in {"live", "dead"} : [i \in {1} |-> k] = <<k>>
    OBVIOUS
  <2> QED BY <2>2, <2>3
<1> QED BY <1>1, <1>2, <1>3, <1>4 DEF Stacks

LEMMA CrashTargets ==
  ASSUME IInv, TInv, Crash
  PROVE  TInv'
<1>1. \A c \in Calls : calls'[c].pc = "idle"
  BY DEF Crash, Idle
<1>2. \A t \in Targets : mnt'[t] \in Stacks /\ (mnt'[t] = <<>> <=> mnt[t] = <<>>)
  BY CrashMounts
<1>3. view' = view
  BY DEF Crash
<1>4. Answered' /\ Exclusive' /\ \A c \in Calls : CallOK(c)' /\ MountOK(c)'
  BY <1>1 DEF Answered, Exclusive, CallOK, MountOK, Busy, At, Mounting, Releasing
<1>5. OneMount' /\ StagedStatic'
  BY <1>2, Places DEF TInv, OneMount, StagedStatic, Staging
<1>6. ViewOK'
  BY <1>2, <1>3 DEF TInv, ViewOK, Truthful
<1> QED BY <1>4, <1>5, <1>6 DEF TInv

LEMMA NextTargets ==
  ASSUME Patient, IInv, TInv, [Next]_vars
  PROVE  TInv'
<1>1. CASE UNCHANGED <<calls, view, mnt>>
  BY <1>1 DEF TInv, Answered, Exclusive, CallOK, MountOK, OneMount, StagedStatic, ViewOK,
              Truthful, Busy, At, Target, Top, Lower, Staging
<1>2. \A c \in Calls : ~Timeout(c)
  BY DEF Patient, Timeout, Fault
<1>3. \A v \in Volumes : Syncher(v) \/ PodWrite(v) => UNCHANGED <<calls, view, mnt>>
  BY DEF Syncher, SyncUpper, DeleteUpper, PodWrite
<1>4. UNCHANGED vars => UNCHANGED <<calls, view, mnt>>
  BY DEF vars
<1> QED BY <1>1, <1>2, <1>3, <1>4, KubeletTargets, HandlerTargets, CrashTargets DEF Next

LEMMA InitTargets == Init => TInv
<1> SUFFICES ASSUME Init PROVE TInv
  OBVIOUS
<1>1. \A c \in Calls : calls[c].pc = "idle"
  BY DEF Init, Idle
<1>2. \A t \in Targets : mnt[t] = <<>> /\ view[t] = "no"
  BY Places DEF Init
<1> QED BY <1>1, <1>2, Places DEF TInv, Answered, Exclusive, CallOK, MountOK, OneMount, Stacks,
                  StagedStatic, ViewOK, Truthful, Busy, At, Mounting, Releasing, Staging

LEMMA TargetsInvariant ==
  ASSUME Patient
  PROVE  Spec => [](IInv /\ TInv)
<1>1. Init => IInv /\ TInv
  BY InitHolds, InitTargets
<1>2. IInv /\ TInv /\ [Next]_vars => IInv' /\ TInv'
  BY NextKeeps, NextTargets
<1> QED BY <1>1, <1>2, PTL DEF Spec
----------------------------------------------------------------------------
(* A step as kubelet sees it. *)

LEMMA HandlerElsewhere ==
  ASSUME IInv, NEW c \in Calls, Handler(c), NEW t \in Targets \ {Target(c)}
  PROVE  mnt'[t] = mnt[t] /\ view'[t] = view[t]
<1> DEFINE low == Lower(calls[c].vol)
<1>1. Target(c) \in Paths /\ low \in Paths /\ t \in Paths /\ t # low
      /\ mnt \in [Paths -> Seq(MountKinds)] /\ view \in [Targets -> {"no", "maybe", "yes"}]
  BY CallFields, Places DEF IInv, MountsInv, CallsInv
<1>2. \A kind, path : path \in {Target(c), low} =>
        /\ mnt' = Pushed(path, kind) => mnt'[t] = mnt[t]
        /\ mnt' = Popped(path) => mnt'[t] = mnt[t]
  BY <1>1 DEF Pushed, Popped
<1>3. \A ok : view' = AfterAnswer(c, ok) => view'[t] = view[t]
  BY <1>1 DEF AfterAnswer
<1>4. mnt'[t] = mnt[t]
  <2>1. CASE MountTarget(c) \/ MountLower(c) \/ MountOverlay(c) \/ BindTarget(c)
    BY <1>2, <2>1 DEF MountTarget, MountLower, MountOverlay, BindTarget
  <2>2. CASE UnmountPlain(c) \/ UnmountTarget(c)
    BY <1>2, <2>2 DEF UnmountPlain, UnmountTarget
  <2>3. CASE UnmountLower(c)
    BY <1>1, <2>3 DEF UnmountLower
  <2>4. CASE mnt' = mnt
    BY <2>4
  <2> QED BY <2>1, <2>2, <2>3, <2>4 DEF Handler, CheckTarget, PopRecord, FillRecord, PutRecord,
        GetRecord, DropRecord, UnmountNothing, UnmountUnconfigured
<1>5. view' = view \/ \E ok : view' = AfterAnswer(c, ok)
  BY DEF Handler, CheckTarget, MountTarget, MountLower, MountOverlay, BindTarget,
       PopRecord, FillRecord, PutRecord, GetRecord, DropRecord, AfterDrop, UnmountNothing,
       UnmountPlain, UnmountUnconfigured, UnmountTarget, UnmountLower, Goto, Answer, MountError,
       UmountError
<1> QED BY <1>3, <1>4, <1>5

\* A step that works on one target, whose state kubelet does not know.
LEMMA WorkStep ==
  ASSUME IInv', TInv', NEW u \in Targets, view[u] = "maybe", IInv,
         \A t \in Targets \ {u} : mnt'[t] = mnt[t] /\ view'[t] = view[t]
  PROVE  [Lifecycle!Next]_(Lifecycle!vars)
<1> DEFINE seen == [t \in MountTargets |-> view[t]]
           mounted == [t \in MountTargets |-> mnt[t] # <<>>]
           seenNext == [t \in MountTargets |-> view'[t]]
           mountedNext == [t \in MountTargets |-> mnt'[t] # <<>>]
<1>1. MountTargets \subseteq Targets
  BY DEF MountTargets
<1>2. CASE u \notin MountTargets
  <2>1. seenNext = seen /\ mountedNext = mounted
    BY <1>1, <1>2
  <2> QED BY <2>1 DEF Lifecycle!vars
<1>3. CASE u \in MountTargets
  <2>1. mountedNext = [mounted EXCEPT ![u] = mnt'[u] # <<>>]
    BY <1>1, <1>3
  <2>2. seenNext = [seen EXCEPT ![u] = view'[u]]
    BY <1>1, <1>3
  <2>3. view'[u] \in {"no", "maybe", "yes"}
    BY DEF IInv, CallsInv
  <2>4. view'[u] = "yes" => mnt'[u] # <<>>
    BY <1>3 DEF TInv, ViewOK, Truthful
  <2>5. view'[u] = "no" => mnt'[u] = <<>>
    BY DEF TInv, ViewOK, Truthful
  <2>6. view'[u] = "maybe" => seenNext = seen
    BY <2>2, <1>3
  <2>7. (mnt'[u] # <<>>) \in BOOLEAN /\ mountedNext[u] = (mnt'[u] # <<>>)
    BY <1>3
  <2>8. Lifecycle!Work(u)
    BY <2>1, <2>2, <2>3, <2>4, <2>5, <2>6, <2>7, <1>3
       DEF Lifecycle!Work, Lifecycle!Confirmed
  <2> QED BY <1>3, <2>8 DEF Lifecycle!Next
<1> QED BY <1>2, <1>3

LEMMA RequestStep ==
  ASSUME IInv, NEW u \in Targets, view' = [view EXCEPT ![u] = "maybe"], UNCHANGED mnt
  PROVE  [Lifecycle!Next]_(Lifecycle!vars)
<1> DEFINE seen == [t \in MountTargets |-> view[t]]
           seenNext == [t \in MountTargets |-> view'[t]]
<1>1. MountTargets \subseteq Targets /\ view \in [Targets -> {"no", "maybe", "yes"}]
  BY DEF MountTargets, IInv, CallsInv
<1>2. CASE u \notin MountTargets
  <2>1. seenNext = seen
    BY <1>1, <1>2
  <2> QED BY <2>1 DEF Lifecycle!vars
<1>3. CASE u \in MountTargets
  <2>1. seenNext = [seen EXCEPT ![u] = "maybe"]
    BY <1>1, <1>3
  <2> QED BY <2>1, <1>3 DEF Lifecycle!Next, Lifecycle!Request
<1> QED BY <1>2, <1>3

LEMMA LifecycleStep ==
  ASSUME Patient, IInv, TInv, IInv', TInv', [Next]_vars
  PROVE  [Lifecycle!Next]_(Lifecycle!vars)
<1>1. CASE UNCHANGED <<view, mnt>>
  BY <1>1 DEF Lifecycle!vars
<1>2. CASE Kubelet
  <2>1. PICK c \in Calls, v \in Volumes, place \in Pods \cup {"staging"} :
          \E op, pc : Issue(c, op, v, place, pc)
    BY <1>2 DEF Kubelet, IssueStage, IssuePublish, IssueUnpublish, IssueUnstage
  <2>2. <<v, place>> \in Targets
    BY DEF Targets
  <2> QED BY <2>1, <2>2, RequestStep DEF Issue
<1>3. ASSUME NEW c \in Calls, Handler(c)
      PROVE  [Lifecycle!Next]_(Lifecycle!vars)
  <2>1. Busy(c)
    BY <1>3 DEF Handler, CheckTarget, MountTarget, MountLower, MountOverlay, BindTarget,
         PopRecord, FillRecord, PutRecord, GetRecord, DropRecord, UnmountNothing, UnmountPlain,
         UnmountUnconfigured, UnmountTarget, UnmountLower, At, Busy
  <2>2. Target(c) \in Targets /\ view[Target(c)] = "maybe"
    BY <2>1, CallFields DEF IInv, TInv, Answered
  <2> QED BY <1>3, <2>2, HandlerElsewhere, WorkStep
<1>4. CASE Crash
  <2>1. \A t \in Targets : (mnt'[t] # <<>>) = (mnt[t] # <<>>)
    BY <1>4, CrashMounts
  <2>2. [t \in MountTargets |-> mnt'[t] # <<>>] = [t \in MountTargets |-> mnt[t] # <<>>]
    BY <2>1 DEF MountTargets
  <2> QED BY <1>4, <2>2 DEF Crash, Lifecycle!vars
<1>5. \A v \in Volumes : Syncher(v) \/ PodWrite(v) => UNCHANGED <<view, mnt>>
  BY DEF Syncher, SyncUpper, DeleteUpper, PodWrite
<1>6. \A c \in Calls : ~Timeout(c)
  BY DEF Patient, Timeout, Fault
<1>7. UNCHANGED vars => UNCHANGED <<view, mnt>>
  BY DEF vars
<1> QED BY <1>1, <1>2, <1>3, <1>4, <1>5, <1>6, <1>7 DEF Next

----------------------------------------------------------------------------
(* The theorems. *)

\* A target whose mounting was confirmed shows the volume, or its dead mount after
\* a restart, until its release is asked for: whatever commands and saves fail,
\* whatever restarts, and whatever other calls do meanwhile.
THEOREM NodeAckedIsMounted ==
  ASSUME Patient
  PROVE  Spec => []AckedIsMounted
<1>1. IInv /\ TInv => AckedIsMounted
  BY TargetTop DEF TInv, ViewOK, Truthful, AckedIsMounted, MountTargets
<1> QED BY <1>1, TargetsInvariant, PTL

\* Nothing is left on a target whose release was confirmed.
THEOREM NodeReleasedIsUnmounted ==
  ASSUME Patient
  PROVE  Spec => []ReleasedIsUnmounted
<1>1. IInv /\ TInv => ReleasedIsUnmounted
  BY DEF TInv, ViewOK, Truthful, ReleasedIsUnmounted
<1> QED BY <1>1, TargetsInvariant, PTL

\* As kubelet sees it, every target follows the life cycle it was promised.
THEOREM NodeImplementsLifecycle ==
  ASSUME Patient
  PROVE  Spec => ImplementsLifecycle
<1>1. Init => Lifecycle!Init
  BY Places DEF Init, Lifecycle!Init, MountTargets
<1>2. IInv /\ TInv /\ [Next]_vars => [Lifecycle!Next]_(Lifecycle!vars)
  BY NextKeeps, NextTargets, LifecycleStep
<1> QED BY <1>1, <1>2, TargetsInvariant, PTL DEF Spec, ImplementsLifecycle, Lifecycle!Spec
=============================================================================
