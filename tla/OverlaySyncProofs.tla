------------------------- MODULE OverlaySyncProofs -------------------------
(***************************************************************************)
(* Proofs about OverlaySync for every volume, upper layer and collection,  *)
(* any number of threads and of failures.  The invariant says where the    *)
(* task of each kind of entry can be; that a task which removes something  *)
(* finds it hidden by the upper layer is what keeps the view stable, and   *)
(* neither the order of the tasks nor the barriers are needed for it.      *)
(***************************************************************************)
EXTENDS OverlaySync, TLAPS

UpperInv ==
  /\ upper \in [Paths -> UpperKinds] /\ IsTree(upper, {"dir", "opaque"})
  /\ lower \in [Paths -> {"none", "old", "dir"}]

IrodsInv == irods \in [Paths -> IrodsKinds] /\ IsTree(irods, {"dir"})

WalkInv ==
  /\ pc \in [Paths -> {"wait", "stat", "remove", "make", "clear", "upload", "done"}]
  /\ phase \in {"syncing", "returned", "error", "deleted"}
  /\ faulted \subseteq Paths
  /\ nfaults \in 0 .. MaxFaults

\* A task fits the kind of its entry.  One that removes what is in the way of a
\* directory finds a file there, or is itself hidden by a directory above.
TaskInv ==
  \A p \in Paths :
    /\ pc[p] \notin {"wait", "done"} => upper[p] \in {"file", "dir", "opaque", "whiteout"}
    /\ pc[p] = "upload" => upper[p] = "file" /\ irods[p] # "dir"
    /\ pc[p] = "make" => upper[p] \in {"dir", "opaque"}
    /\ pc[p] = "clear" => upper[p] = "opaque"
    /\ pc[p] = "remove" /\ upper[p] = "dir" => Hidden(p) \/ irods[p] \notin {"none", "dir"}

IInv == UpperInv /\ IrodsInv /\ WalkInv /\ TaskInv /\ ViewIsStable

\* It is the type invariant and the stability of the view.
LEMMA IInvSuffices == IInv => TypeOK /\ ViewIsStable
BY DEF IInv, UpperInv, IrodsInv, WalkInv, TypeOK
----------------------------------------------------------------------------
(* Directories. *)

\* What is below a path below p is below p.
LEMMA BelowBelow ==
  ASSUME NEW p \in Paths, NEW q \in Below(p), NEW r \in Below(q)
  PROVE  r \in Below(p)
BY AboveAssumption DEF Below

\* What is below a hidden path, or below an entry that hides, is hidden.
LEMMA HiddenBelow ==
  ASSUME NEW p \in Paths, NEW r \in Below(p),
         Hidden(p) \/ upper[p] \in {"file", "opaque", "whiteout"}
  PROVE  Hidden(r)
<1>1. r \in Paths /\ p \in Above[r] /\ Above[p] \subseteq Above[r]
  BY AboveAssumption DEF Below
<1>2. CASE upper[p] \in {"file", "opaque", "whiteout"}
  BY <1>1, <1>2 DEF Hidden
<1>3. CASE Hidden(p)
  BY <1>1, <1>3 DEF Hidden
<1> QED
  BY <1>2, <1>3

\* A task that removes or clears a directory finds nothing below it that the
\* upper layer does not hide.
LEMMA RemovalIsHidden ==
  ASSUME UpperInv, IrodsInv, TaskInv,
         NEW p \in Paths, pc[p] \in {"remove", "clear"},
         NEW r \in Below(p)
  PROVE  irods[r] = "none" \/ Hidden(r)
<1>1. upper[p] \in {"file", "dir", "opaque", "whiteout"}
  BY DEF TaskInv
<1>2. CASE upper[p] # "dir"
  BY <1>1, <1>2, HiddenBelow
<1>3. CASE Hidden(p)
  BY <1>3, HiddenBelow
<1>4. CASE upper[p] = "dir" /\ ~Hidden(p)
  <2>1. irods[p] # "dir"
    BY <1>4 DEF TaskInv
  <2> QED
    BY <2>1 DEF IrodsInv, IsTree, Below
<1> QED
  BY <1>2, <1>3, <1>4
----------------------------------------------------------------------------
(* The view, before and after a request. *)

\* The view of a path stays when the collection keeps it, or when the upper
\* layer decides what is seen there.
LEMMA ViewKept ==
  ASSUME UpperInv, ViewIsStable, UNCHANGED trees,
         NEW p \in Paths, irods'[p] = irods[p] \/ Hidden(p) \/ upper[p] # "none"
  PROVE  Shown(irods, p)' = Shown(lower, p)'
<1>1. Shown(irods, p) = Shown(lower, p)
  BY DEF ViewIsStable
<1>2. Hidden(p)' = Hidden(p)
  BY DEF trees, Hidden
<1>3. upper'[p] = upper[p] /\ lower'[p] = lower[p] /\ upper[p] \in UpperKinds
  BY DEF trees, UpperInv
<1>4. CASE upper[p] # "none"
  BY <1>3, <1>4 DEF Shown, UpperKinds
<1>5. CASE upper[p] = "none" /\ Hidden(p)
  BY <1>2, <1>3, <1>5 DEF Shown
<1>6. CASE upper[p] = "none" /\ ~Hidden(p) /\ irods'[p] = irods[p]
  BY <1>1, <1>2, <1>3, <1>6 DEF Shown
<1> QED
  BY <1>4, <1>5, <1>6

\* The removal of q, when nothing below it can be seen, keeps the tree and the
\* view, and what other tasks rely on.
LEMMA RemovalKeeps ==
  ASSUME IInv, UNCHANGED trees,
         NEW q \in Paths, irods' = Without(q),
         \A r \in Below(q) : irods[r] = "none" \/ Hidden(r),
         irods[q] = "none" \/ Hidden(q) \/ upper[q] # "none"
  PROVE  /\ IrodsInv' /\ ViewIsStable'
         /\ \A p \in Paths : irods'[p] \in {irods[p], "none"}
         /\ \A p \in Paths \ {q} : irods'[p] = irods[p] \/ irods[p] = "none" \/ Hidden(p)
<1> USE DEF IInv
<1>1. \A p \in Paths : irods'[p] = IF p = q \/ p \in Below(q) THEN "none" ELSE irods[p]
  BY DEF Without
<1>2. irods' \in [Paths -> IrodsKinds]
  BY DEF Without, IrodsInv, IrodsKinds
<1>3. IsTree(irods, {"dir"})'
  <2> SUFFICES ASSUME NEW p \in Paths, irods'[p] # "none", NEW r \in Above[p]
               PROVE  irods'[r] = "dir"
    BY DEF IsTree
  <2>1. p # q /\ p \notin Below(q) /\ irods'[p] = irods[p]
    BY <1>1
  <2>2. r \in Paths /\ irods[r] = "dir"
    BY <2>1, AboveAssumption DEF IrodsInv, IsTree
  <2>3. r # q
    BY <2>1 DEF Below
  <2>4. r \notin Below(q)
    BY <2>1, <2>2, AboveAssumption DEF Below
  <2> QED
    BY <1>1, <2>2, <2>3, <2>4
<1>4. \A p \in Paths : irods'[p] = irods[p] \/ Hidden(p) \/ upper[p] # "none"
  BY <1>1
<1>5. ViewIsStable'
  BY <1>4, ViewKept DEF ViewIsStable
<1>6. \A p \in Paths \ {q} : irods'[p] = irods[p] \/ irods[p] = "none" \/ Hidden(p)
  BY <1>1
<1> QED
  BY <1>1, <1>2, <1>3, <1>5, <1>6 DEF IrodsInv

\* When the collection does not change, nor does the view.
LEMMA SameView == ASSUME IInv, UNCHANGED <<trees, irods>>
                  PROVE  UpperInv' /\ IrodsInv' /\ ViewIsStable'
<1>1. UpperInv' /\ IrodsInv'
  BY DEF IInv, UpperInv, IrodsInv, IsTree, trees
<1>2. ViewIsStable'
  BY ViewKept DEF IInv, ViewIsStable
<1> QED
  BY <1>1, <1>2
----------------------------------------------------------------------------
(* Every step keeps the invariant. *)

LEMMA BeginKeeps == IInv /\ Begin => IInv'
<1> SUFFICES ASSUME IInv, Begin PROVE IInv'
  OBVIOUS
<1> USE DEF IInv
<1>1. UpperInv' /\ IrodsInv' /\ ViewIsStable'
  BY SameView DEF Begin
<1>2. PICK i \in Unvisited :
        pc' = [pc EXCEPT ![Walk[i]] = IF Ignored(Walk[i]) THEN "done" ELSE "stat"]
  BY DEF Begin
<1>3. Walk[i] \in Paths /\ upper[Walk[i]] # "none"
  BY DEF Unvisited, Entries, Paths
<1>4. WalkInv'
  BY <1>2, <1>3 DEF Begin, WalkInv
<1>5. TaskInv'
  <2> SUFFICES ASSUME NEW p \in Paths
               PROVE  TaskInv!(p)'
    BY DEF TaskInv
  <2>1. upper' = upper /\ irods' = irods /\ Hidden(p)' = Hidden(p)
    BY DEF Begin, trees, Hidden
  <2>2. CASE p # Walk[i]
    BY <1>2, <1>3, <2>1, <2>2 DEF TaskInv, WalkInv
  <2>3. CASE p = Walk[i]
    BY <1>2, <1>3, <2>1, <2>3 DEF WalkInv, UpperInv, UpperKinds, Ignored
  <2> QED
    BY <2>2, <2>3
<1> QED
  BY <1>1, <1>4, <1>5

\* The walk ends, fails or starts again, or the upper layer is deleted.
LEMMA WalkKeeps == IInv /\ (Return \/ WalkFails \/ DeleteUpper \/ Restart) => IInv'
<1> SUFFICES ASSUME IInv, Return \/ WalkFails \/ DeleteUpper \/ Restart PROVE IInv'
  OBVIOUS
<1> USE DEF IInv, Return, WalkFails, DeleteUpper, Restart
<1>1. UpperInv' /\ IrodsInv' /\ ViewIsStable'
  BY SameView
<1>2. WalkInv'
  BY BoundsAssumption DEF WalkInv
<1>3. TaskInv'
  BY DEF TaskInv, Hidden, trees
<1> QED
  BY <1>1, <1>2, <1>3

\* A task goes on, or gives up, without a change to the collection.
LEMMA StayKeeps ==
  ASSUME IInv, NEW p \in Paths, UNCHANGED <<trees, irods, phase>>,
         faulted' \subseteq Paths, nfaults' \in 0 .. MaxFaults,
         NEW label \in {"wait", "stat", "remove", "make", "clear", "upload", "done"},
         Goto(p, label), pc[p] \notin {"wait", "done"},
         label = "upload" => upper[p] = "file" /\ irods[p] # "dir",
         label = "make" => upper[p] \in {"dir", "opaque"},
         label = "clear" => upper[p] = "opaque",
         label = "remove" /\ upper[p] = "dir" => irods[p] \notin {"none", "dir"}
  PROVE  IInv'
<1> USE DEF IInv
<1>1. UpperInv' /\ IrodsInv' /\ ViewIsStable'
  BY SameView
<1>2. WalkInv'
  BY DEF WalkInv, Goto
<1>3. TaskInv'
  <2> SUFFICES ASSUME NEW r \in Paths
               PROVE  TaskInv!(r)'
    BY DEF TaskInv
  <2>1. upper' = upper /\ irods' = irods /\ Hidden(r)' = Hidden(r)
    BY DEF trees, Hidden
  <2>2. pc'[r] = IF r = p THEN label ELSE pc[r]
    BY DEF Goto, WalkInv
  <2> QED
    BY <2>1, <2>2 DEF TaskInv
<1> QED
  BY <1>1, <1>2, <1>3

LEMMA StatKeeps == ASSUME NEW p \in Paths PROVE IInv /\ Stat(p) => IInv'
<1> SUFFICES ASSUME IInv, Stat(p) PROVE IInv'
  OBVIOUS
<1> DEFINE label == AfterStat(p)
<1>1. upper[p] \in {"file", "dir", "opaque", "whiteout"} /\ irods[p] \in IrodsKinds
  BY DEF IInv, TaskInv, Stat, At, IrodsInv
<1>2. /\ label \in {"remove", "make", "clear", "upload", "done"}
      /\ label = "upload" => upper[p] = "file" /\ irods[p] # "dir"
      /\ label = "make" => upper[p] \in {"dir", "opaque"}
      /\ label = "clear" => upper[p] = "opaque"
      /\ label = "remove" /\ upper[p] = "dir" => irods[p] \notin {"none", "dir"}
  <2>1. CASE upper[p] = "whiteout"
    BY <2>1 DEF AfterStat
  <2>2. CASE upper[p] = "file"
    BY <2>2 DEF AfterStat
  <2>3. CASE upper[p] \in {"dir", "opaque"} /\ irods[p] = "none"
    BY <2>3 DEF AfterStat
  <2>4. CASE upper[p] \in {"dir", "opaque"} /\ irods[p] = "dir"
    BY <2>4 DEF AfterStat, Opaque
  <2>5. CASE upper[p] \in {"dir", "opaque"} /\ irods[p] \in {"old", "new", "torn"}
    BY <2>5 DEF AfterStat
  <2> QED
    BY <1>1, <2>1, <2>2, <2>3, <2>4, <2>5 DEF IrodsKinds
<1>3. faulted' \subseteq Paths /\ nfaults' \in 0 .. MaxFaults
  BY DEF Stat, Unblamed, IInv, WalkInv
<1> QED
  BY <1>2, <1>3, StayKeeps DEF Stat, At, Unblamed

LEMMA ClearKeeps == ASSUME NEW p \in Paths PROVE IInv /\ Clear(p) => IInv'
BY StayKeeps DEF Clear, At, Unblamed, IInv, WalkInv

LEMMA FailKeeps == ASSUME NEW p \in Paths PROVE IInv /\ Fail(p) => IInv'
<1> SUFFICES ASSUME IInv, Fail(p) PROVE IInv'
  OBVIOUS
<1>1. faulted' \subseteq Paths /\ nfaults' \in 0 .. MaxFaults
  BY BoundsAssumption DEF Fail, IInv, WalkInv
<1> QED
  BY <1>1, StayKeeps DEF Fail, Running
LEMMA RemoveKeeps == ASSUME NEW p \in Paths PROVE IInv /\ Remove(p) => IInv'
<1> SUFFICES ASSUME IInv, Remove(p) PROVE IInv'
  OBVIOUS
<1> USE DEF IInv
<1>1. pc[p] = "remove" /\ irods' = Without(p) /\ UNCHANGED trees
  BY DEF Remove, At, Unblamed
<1>2. upper[p] \in {"file", "dir", "opaque", "whiteout"}
  BY <1>1 DEF TaskInv
<1>3. \A r \in Below(p) : irods[r] = "none" \/ Hidden(r)
  BY <1>1, RemovalIsHidden
<1>4. /\ IrodsInv' /\ ViewIsStable'
      /\ \A r \in Paths : irods'[r] \in {irods[r], "none"}
      /\ \A r \in Paths \ {p} : irods'[r] = irods[r] \/ irods[r] = "none" \/ Hidden(r)
  BY <1>1, <1>2, <1>3, RemovalKeeps
<1>5. UpperInv'
  BY <1>1 DEF UpperInv, IsTree, trees
<1>6. WalkInv'
  BY <1>2 DEF Remove, Goto, Unblamed, WalkInv, AfterRemove
<1>7. TaskInv'
  <2> SUFFICES ASSUME NEW r \in Paths
               PROVE  TaskInv!(r)'
    BY DEF TaskInv
  <2>1. upper' = upper /\ Hidden(r)' = Hidden(r)
    BY <1>1 DEF trees, Hidden
  <2>2. pc'[r] = IF r = p THEN AfterRemove(p) ELSE pc[r]
    BY DEF Remove, Goto, WalkInv
  <2>3. CASE r # p
    BY <1>4, <2>1, <2>2, <2>3 DEF TaskInv
  <2>4. CASE r = p
    <3>1. irods'[p] = "none"
      BY <1>1 DEF Without
    <3> QED
      BY <1>2, <2>1, <2>2, <2>4, <3>1 DEF AfterRemove
  <2> QED
    BY <2>3, <2>4
<1> QED
  BY <1>4, <1>5, <1>6, <1>7

LEMMA RemovePartKeeps == ASSUME NEW p \in Paths PROVE IInv /\ RemovePart(p) => IInv'
<1> SUFFICES ASSUME IInv, RemovePart(p) PROVE IInv'
  OBVIOUS
<1> USE DEF IInv
<1>1. pc[p] \in {"remove", "clear"} /\ UNCHANGED <<trees, pc, phase, faulted, nfaults>>
  BY DEF RemovePart, Unblamed
<1>2. PICK q \in Below(p) : irods[q] # "none" /\ irods' = Without(q)
  BY DEF RemovePart
<1>3. q \in Paths
  BY DEF Below
<1>4. \A r \in Below(p) : irods[r] = "none" \/ Hidden(r)
  BY <1>1, RemovalIsHidden
<1>5. \A r \in Below(q) : irods[r] = "none" \/ Hidden(r)
  BY <1>4, BelowBelow
<1>6. /\ IrodsInv' /\ ViewIsStable'
      /\ \A r \in Paths : irods'[r] \in {irods[r], "none"}
      /\ \A r \in Paths \ {q} : irods'[r] = irods[r] \/ irods[r] = "none" \/ Hidden(r)
  BY <1>1, <1>2, <1>3, <1>4, <1>5, RemovalKeeps
<1>7. UpperInv' /\ WalkInv'
  BY <1>1 DEF UpperInv, WalkInv, IsTree, trees
<1>8. TaskInv'
  <2> SUFFICES ASSUME NEW r \in Paths
               PROVE  TaskInv!(r)'
    BY DEF TaskInv
  <2>1. upper' = upper /\ pc' = pc /\ Hidden(r)' = Hidden(r)
    BY <1>1 DEF trees, Hidden
  <2>2. irods'[r] = irods[r] \/ irods[r] = "none" \/ Hidden(r)
    BY <1>2, <1>4, <1>6
  <2> QED
    BY <1>6, <2>1, <2>2 DEF TaskInv
<1> QED
  BY <1>6, <1>7, <1>8

LEMMA MakeKeeps == ASSUME NEW p \in Paths PROVE IInv /\ Make(p) => IInv'
<1> SUFFICES ASSUME IInv, Make(p) PROVE IInv'
  OBVIOUS
<1> USE DEF IInv
<1>1. pc[p] = "make" /\ UNCHANGED <<trees, phase, faulted, nfaults>> /\ Goto(p, "done")
  BY DEF Make, At, Unblamed
<1>2. upper[p] \in {"dir", "opaque"}
  BY <1>1 DEF TaskInv
<1>3. CASE ~\A q \in Above[p] : irods[q] \in {"none", "dir"}
  BY <1>1, <1>3, StayKeeps DEF Make, WalkInv
<1>4. CASE \A q \in Above[p] : irods[q] \in {"none", "dir"}
  <2>1. irods' = [q \in Paths |-> IF q = p \/ q \in Above[p] THEN "dir" ELSE irods[q]]
    BY <1>4 DEF Make
  <2>2. \A q \in Above[p] : q \in Paths /\ upper[q] \in {"dir", "opaque"}
    BY <1>2, AboveAssumption DEF UpperInv, IsTree
  <2>3. UpperInv' /\ WalkInv'
    BY <1>1 DEF UpperInv, WalkInv, IsTree, trees, Goto
  <2>4. IrodsInv'
    <3>1. irods' \in [Paths -> IrodsKinds]
      BY <2>1 DEF IrodsInv, IrodsKinds
    <3>2. ASSUME NEW r \in Paths, irods'[r] # "none", NEW q \in Above[r]
          PROVE  irods'[q] = "dir"
      <4>1. q \in Paths
        BY AboveAssumption
      <4>2. CASE r = p \/ r \in Above[p]
        BY <2>1, <4>1, <4>2, AboveAssumption
      <4>3. CASE ~(r = p \/ r \in Above[p])
        BY <2>1, <3>2, <4>1, <4>3 DEF IrodsInv, IsTree
      <4> QED
        BY <4>2, <4>3
    <3> QED
      BY <3>1, <3>2 DEF IrodsInv, IsTree
  <2>5. ViewIsStable'
    <3>1. \A q \in Paths : irods'[q] = irods[q] \/ upper[q] # "none"
      BY <1>2, <2>1, <2>2
    <3> QED
      BY <1>1, <3>1, ViewKept DEF ViewIsStable
  <2>6. TaskInv'
    <3> SUFFICES ASSUME NEW r \in Paths
                 PROVE  TaskInv!(r)'
      BY DEF TaskInv
    <3>1. upper' = upper /\ Hidden(r)' = Hidden(r)
      BY <1>1 DEF trees, Hidden
    <3>2. pc'[r] = IF r = p THEN "done" ELSE pc[r]
      BY <1>1 DEF Goto, WalkInv
    <3>3. \/ r = p
          \/ irods'[r] = irods[r]
          \/ upper[r] \in {"dir", "opaque"} /\ irods[r] \in {"none", "dir"}
      BY <1>4, <2>1, <2>2
    <3> QED
      BY <3>1, <3>2, <3>3 DEF TaskInv
  <2> QED
    BY <2>3, <2>4, <2>5, <2>6
<1> QED
  BY <1>3, <1>4

\* An upload, half done or done, in its directory.
LEMMA UploadedKeeps ==
  ASSUME IInv, NEW p \in Paths, pc[p] = "upload", \A q \in Above[p] : irods[q] = "dir",
         NEW kind \in {"torn", "new"}, irods' = [irods EXCEPT ![p] = kind],
         UNCHANGED <<trees, phase, faulted, nfaults>>,
         pc' = pc \/ Goto(p, "done")
  PROVE  IInv'
<1> USE DEF IInv
<1>1. upper[p] = "file" /\ irods[p] # "dir"
  BY DEF TaskInv
<1>2. UpperInv' /\ WalkInv'
  BY DEF UpperInv, WalkInv, IsTree, trees, Goto
<1>3. IrodsInv'
  <2>1. irods' \in [Paths -> IrodsKinds]
    BY DEF IrodsInv, IrodsKinds
  <2>2. ASSUME NEW r \in Paths, irods'[r] # "none", NEW q \in Above[r]
        PROVE  irods'[q] = "dir"
    <3>1. q \in Paths /\ irods[q] = "dir"
      BY <2>2, AboveAssumption DEF IrodsInv, IsTree
    <3> QED
      BY <1>1, <3>1 DEF IrodsInv
  <2> QED
    BY <2>1, <2>2 DEF IrodsInv, IsTree
<1>4. ViewIsStable'
  <2>1. \A q \in Paths : irods'[q] = irods[q] \/ upper[q] # "none"
    BY <1>1 DEF IrodsInv
  <2> QED
    BY <2>1, ViewKept DEF ViewIsStable
<1>5. TaskInv'
  <2> SUFFICES ASSUME NEW r \in Paths
               PROVE  TaskInv!(r)'
    BY DEF TaskInv
  <2>1. upper' = upper /\ Hidden(r)' = Hidden(r)
    BY DEF trees, Hidden
  <2>2. pc'[r] = pc[r] \/ (r = p /\ pc'[r] = "done")
    BY DEF Goto, WalkInv
  <2>3. irods'[r] = IF r = p THEN kind ELSE irods[r]
    BY DEF IrodsInv
  <2> QED
    BY <1>1, <2>1, <2>2, <2>3 DEF TaskInv
<1> QED
  BY <1>2, <1>3, <1>4, <1>5

LEMMA UploadKeeps ==
  ASSUME NEW p \in Paths PROVE IInv /\ (UploadPart(p) \/ Upload(p)) => IInv'
<1>1. IInv /\ UploadPart(p) => IInv'
  BY UploadedKeeps DEF UploadPart, Uploads, At, Unblamed
<1>2. IInv /\ Upload(p) /\ Uploads(p) => IInv'
  BY UploadedKeeps DEF Upload, Uploads, At, Unblamed
<1>3. IInv /\ Upload(p) /\ ~Uploads(p) => IInv'
  BY StayKeeps DEF Upload, At, Unblamed, IInv, WalkInv
<1> QED
  BY <1>1, <1>2, <1>3
----------------------------------------------------------------------------
LEMMA InitInv == Init => IInv
<1> SUFFICES ASSUME Init PROVE IInv
  OBVIOUS
<1>1. UpperInv
  BY DEF Init, UpperInv
<1>2. IrodsInv
  BY DEF Init, IrodsInv, IrodsKinds
<1>3. WalkInv /\ TaskInv
  BY BoundsAssumption DEF Init, WalkInv, TaskInv
<1>4. ViewIsStable
  BY DEF Init, ViewIsStable
<1> QED
  BY <1>1, <1>2, <1>3, <1>4 DEF IInv

LEMMA NextKeeps == IInv /\ [Next]_vars => IInv'
<1> SUFFICES ASSUME IInv, [Next]_vars PROVE IInv'
  OBVIOUS
<1>1. CASE Begin
  BY <1>1, BeginKeeps
<1>2. CASE Return \/ WalkFails \/ DeleteUpper \/ Restart
  BY <1>2, WalkKeeps
<1>3. ASSUME NEW p \in Paths, Task(p) \/ Fail(p) PROVE IInv'
  BY <1>3, StatKeeps, RemoveKeeps, ClearKeeps, RemovePartKeeps, MakeKeeps, UploadKeeps,
     FailKeeps DEF Task
<1>4. CASE UNCHANGED vars
  <2>1. UpperInv' /\ IrodsInv' /\ ViewIsStable'
    BY <1>4, SameView DEF vars, trees
  <2>2. WalkInv' /\ TaskInv'
    BY <1>4 DEF vars, IInv, WalkInv, TaskInv, Hidden
  <2> QED
    BY <2>1, <2>2 DEF IInv
<1> QED
  BY <1>1, <1>2, <1>3, <1>4 DEF Next

\* Every variable of the syncher keeps its type and the collection stays a tree,
\* for all upper layers, collections, threads, failures and restarts.
THEOREM SyncTypeCorrect == Spec => []TypeOK
<1>1. Spec => []IInv
  BY InitInv, NextKeeps, PTL DEF Spec
<1> QED
  BY <1>1, IInvSuffices, PTL

\* While syncDir, syncFile and syncWhiteout change the collection, in whatever
\* order, and whatever fails or is cut short, the upper layer over the collection
\* shows what it showed before: nothing that the upper layer does not hide is lost.
THEOREM ViewStaysStable == Spec => []ViewIsStable
<1>1. Spec => []IInv
  BY InitInv, NextKeeps, PTL DEF Spec
<1> QED
  BY <1>1, IInvSuffices, PTL
=============================================================================
