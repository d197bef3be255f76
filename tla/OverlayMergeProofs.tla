------------------------- MODULE OverlayMergeProofs -------------------------
(***************************************************************************)
(* The sync of an upper layer is right when it ends: for every volume,     *)
(* upper layer and collection, any number of threads and failures, and     *)
(* any number of syncs that were cut short before.  Here the order of the  *)
(* walk and its barriers are needed: they keep a task away from the        *)
(* entries below it, which would be removed behind it, and from those      *)
(* above it, which have to be there.                                       *)
(***************************************************************************)
EXTENDS OverlaySyncProofs

\* The visited entries are the first of the walk, and the tasks that run are
\* all for entries of the directory of the entry visited last.
OrderInv ==
  /\ \A i, j \in Entries : i < j /\ pc[Walk[j]] # "wait" => pc[Walk[i]] # "wait"
  /\ \A i, j \in Entries :
       i <= j /\ Walk[i] \in Running /\ pc[Walk[j]] # "wait" => Above[Walk[i]] = Above[Walk[j]]

\* fuse-overlayfs's markers are no part of a collection
MarkerInv == \A p \in Paths : upper[p] = "marker" => irods[p] = "none"

\* Sync returns when every entry has been dealt with.
ReturnInv == phase = "returned" => \A p \in Paths : upper[p] # "none" => pc[p] = "done"

Sound(p) == p \notin faulted /\ Above[p] \cap faulted = {}

\* The collection is what the entry asks for.  Below an opaque directory it keeps
\* nothing but what the entries there put in it.
Merged(p) ==
  /\ irods[p] = Shown(lower, p)
  /\ upper[p] = "opaque" =>
       \A q \in Below(p) : irods[q] = "none" \/ upper[q] \in {"file", "dir", "opaque"}

MergeInv ==
  phase \in {"syncing", "returned"} =>
    \A p \in Paths :
      /\ pc[p] = "make" => irods[p] = "none"
      /\ pc[p] = "clear" => irods[p] = "dir"
      /\ upper[p] # "none" /\ pc[p] = "done" /\ Sound(p) => Merged(p)

MInv == OrderInv /\ MarkerInv /\ ReturnInv /\ MergeInv
----------------------------------------------------------------------------
(* What the order gives. *)

LEMMA IndexOf == ASSUME NEW p \in Paths PROVE \E i \in DOMAIN Walk : Walk[i] = p /\ i \in Nat
BY WalkAssumption DEF Paths

\* No path is above or below itself.
LEMMA BelowIsOneWay ==
  ASSUME NEW p \in Paths, NEW q \in Below(p)
  PROVE  q \in Paths /\ q # p /\ q \notin Above[p] /\ p \notin Below(q)
<1>1. \A r \in Paths : r \notin Above[r]
  <2> SUFFICES ASSUME NEW r \in Paths, r \in Above[r] PROVE FALSE
    OBVIOUS
  <2>1. PICK i \in DOMAIN Walk : Walk[i] = r /\ i \in Nat
    BY IndexOf
  <2>2. i < i
    BY <2>1, AboveAssumption
  <2> QED
    BY <2>1, <2>2
<1>2. q \in Paths /\ p \in Above[q]
  BY DEF Below
<1>3. q \notin Above[p]
  BY <1>1, <1>2, AboveAssumption
<1> QED
  BY <1>1, <1>2, <1>3 DEF Below

\* Nothing is visited below an entry whose task runs.
LEMMA Apart ==
  ASSUME OrderInv, NEW r \in Running,
         NEW p \in Paths, upper[r] # "none", upper[p] # "none", pc[p] # "wait"
  PROVE  r \notin Above[p]
<1> SUFFICES ASSUME r \in Above[p] PROVE FALSE
  OBVIOUS
<1>1. PICK i \in DOMAIN Walk : Walk[i] = r /\ i \in Nat
  BY IndexOf DEF Running
<1>2. PICK j \in DOMAIN Walk : Walk[j] = p /\ j \in Nat
  BY IndexOf
<1>3. i < j
  BY <1>1, <1>2, AboveAssumption
<1>4. Above[r] = Above[p]
  BY <1>1, <1>2, <1>3 DEF OrderInv, Entries
<1>5. r \in Above[r]
  BY <1>4
<1> QED
  BY <1>1, <1>5, AboveAssumption

\* What is above a visited entry is a directory of the upper layer, and done.
LEMMA AboveDone ==
  ASSUME IInv, OrderInv, NEW p \in Paths, upper[p] # "none", pc[p] # "wait",
         NEW q \in Above[p]
  PROVE  q \in Paths /\ upper[q] \in {"dir", "opaque"} /\ pc[q] = "done"
<1>1. q \in Paths /\ upper[q] \in {"dir", "opaque"}
  BY AboveAssumption DEF IInv, UpperInv, IsTree
<1>2. PICK i \in DOMAIN Walk : Walk[i] = q /\ i \in Nat
  BY <1>1, IndexOf
<1>3. PICK j \in DOMAIN Walk : Walk[j] = p /\ j \in Nat
  BY IndexOf
<1>4. i < j
  BY <1>2, <1>3, AboveAssumption
<1>5. pc[q] # "wait"
  BY <1>1, <1>2, <1>3, <1>4 DEF OrderInv, Entries
<1>6. q \notin Running
  BY <1>1, Apart
<1> QED
  BY <1>1, <1>5, <1>6 DEF Running

\* What an entry of the upper layer shows, whatever is below it.
LEMMA ShownEntry ==
  ASSUME NEW p \in Paths, NEW tree
  PROVE  /\ upper[p] = "file" => Shown(tree, p) = "new"
         /\ upper[p] \in {"dir", "opaque"} => Shown(tree, p) = "dir"
         /\ upper[p] \in {"whiteout", "marker"} => Shown(tree, p) = "none"
BY DEF Shown

\* Above a visited entry that is sound, the collection has its directories.
LEMMA DirectoriesThere ==
  ASSUME IInv, MInv, phase = "syncing",
         NEW p \in Paths, upper[p] # "none", pc[p] # "wait", Above[p] \cap faulted = {},
         NEW q \in Above[p]
  PROVE  irods[q] = "dir"
<1>1. q \in Paths /\ upper[q] \in {"dir", "opaque"} /\ pc[q] = "done"
  BY AboveDone DEF MInv
<1>2. Sound(q)
  BY <1>1, AboveAssumption DEF Sound
<1>3. Merged(q)
  BY <1>1, <1>2 DEF MInv, MergeInv
<1> QED
  BY <1>1, <1>3, ShownEntry DEF Merged

\* What an entry asks for does not change.
LEMMA ShownStays ==
  ASSUME UNCHANGED trees, NEW p \in Paths
  PROVE  Shown(lower, p)' = Shown(lower, p)
<1>1. upper' = upper /\ lower' = lower /\ Hidden(p)' = Hidden(p)
  BY DEF trees, Hidden
<1> QED
  BY <1>1 DEF Shown
----------------------------------------------------------------------------
(* One task moves.  It may remove what is below it, or make directories above *)
(* it that the upper layer has as well; the other paths stay.                 *)

LEMMA TaskMoves ==
  ASSUME IInv, IInv', MInv, UNCHANGED <<trees, phase>>,
         NEW r \in Running, upper[r] # "none",
         NEW label, label # "wait", pc' = [pc EXCEPT ![r] = label],
         faulted \subseteq faulted',
         \A p \in Paths \ {r} :
           \/ irods'[p] = irods[p]
           \/ p \in Below(r) /\ irods'[p] = "none"
           \/ p \in Above[r] /\ irods'[p] = "dir",
         irods'[r] \in {irods[r], "none"} \/ upper[r] \in {"file", "dir", "opaque"},
         phase = "syncing" =>
           /\ label = "make" => irods'[r] = "none"
           /\ label = "clear" => irods'[r] = "dir"
           /\ label = "done" /\ Sound(r)' => Merged(r)'
  PROVE  MInv'
<1> USE DEF IInv, MInv
<1>1. /\ r \in Paths /\ pc[r] # "wait" /\ pc[r] # "done"
      /\ upper' = upper /\ lower' = lower /\ phase' = phase
  BY DEF Running, trees
<1>2. \A p \in Paths : pc'[p] = IF p = r THEN label ELSE pc[p]
  BY <1>1 DEF WalkInv
<1>3. upper[r] \in {"file", "dir", "opaque", "whiteout"}
  BY <1>1 DEF TaskInv
<1>4. \A p \in Above[r] : p \in Paths /\ upper[p] \in {"dir", "opaque"}
  BY <1>1, AboveDone
<1>5. OrderInv'
  <2>1. Entries' = Entries /\ \A i \in Entries : Walk[i] \in Paths
    BY <1>1 DEF Entries, Paths
  <2>2. \A p \in Paths : (pc'[p] = "wait") <=> (pc[p] = "wait")
    BY <1>1, <1>2
  <2>3. Running' \subseteq Running
    BY <1>1, <1>2 DEF Running
  <2> QED
    BY <2>1, <2>2, <2>3 DEF OrderInv
<1>6. MarkerInv'
  BY <1>1, <1>3, <1>4 DEF MarkerInv
<1>7. ReturnInv'
  BY <1>1 DEF ReturnInv
<1>8. MergeInv'
  <2> SUFFICES ASSUME phase \in {"syncing", "returned"}, NEW p \in Paths
               PROVE  /\ pc'[p] = "make" => irods'[p] = "none"
                      /\ pc'[p] = "clear" => irods'[p] = "dir"
                      /\ upper[p] # "none" /\ pc'[p] = "done" /\ Sound(p)' => Merged(p)'
    BY <1>1 DEF MergeInv
  <2>1. phase = "syncing"
    BY <1>1 DEF ReturnInv
  <2>2. CASE p = r
    BY <1>2, <2>1, <2>2
  <2>3. ASSUME p # r, upper[p] # "none", pc[p] # "wait"
        PROVE  p \notin Below(r)
    BY <1>1, <2>3, Apart DEF Below
  <2>4. CASE p # r /\ pc[p] \in {"make", "clear"}
    <3>1. p \in Running /\ upper[p] # "none" /\ pc'[p] = pc[p]
      BY <1>2, <2>4 DEF Running, TaskInv
    <3>2. p \notin Above[r]
      BY <1>1, <3>1, Apart
    <3>3. irods'[p] = irods[p]
      BY <2>3, <2>4, <3>1, <3>2
    <3> QED
      BY <2>1, <2>4, <3>1, <3>3 DEF MergeInv
  <2>5. CASE p # r /\ pc[p] = "done" /\ upper[p] # "none" /\ Sound(p)'
    <3>1. Sound(p)
      BY <2>5 DEF Sound
    <3>2. Merged(p)
      BY <2>1, <2>5, <3>1 DEF MergeInv
    <3>3. irods'[p] = Shown(lower, p)
      <4>1. CASE irods'[p] = irods[p]
        BY <3>2, <4>1 DEF Merged
      <4>2. CASE p \in Above[r] /\ irods'[p] = "dir"
        BY <1>4, <4>2, ShownEntry
      <4> QED
        BY <2>3, <2>5, <4>1, <4>2
    <3>4. ASSUME upper[p] = "opaque", NEW q \in Below(p)
          PROVE  irods'[q] = "none" \/ upper[q] \in {"file", "dir", "opaque"}
      <4>1. q \in Paths /\ (irods[q] = "none" \/ upper[q] \in {"file", "dir", "opaque"})
        BY <3>2, <3>4 DEF Merged, Below
      <4>2. CASE q = r
        BY <4>1, <4>2
      <4>3. CASE q # r
        BY <1>4, <4>1, <4>3
      <4> QED
        BY <4>2, <4>3
    <3>5. Below(p)' = Below(p)
      BY DEF Below
    <3>6. Merged(p)'
      BY <1>1, <3>3, <3>4, <3>5, ShownStays DEF Merged
    <3> QED
      BY <1>2, <2>5, <3>6
  <2>6. CASE p # r /\ pc[p] \notin {"make", "clear", "done"}
    BY <1>2, <2>6
  <2> QED
    BY <1>2, <2>2, <2>4, <2>5, <2>6
<1> QED
  BY <1>5, <1>6, <1>7, <1>8
----------------------------------------------------------------------------
(* The walk. *)

LEMMA InitMerge == Init => MInv
<1> SUFFICES ASSUME Init PROVE MInv
  OBVIOUS
<1>1. \A p \in Paths : pc[p] = "wait"
  BY DEF Init
<1>2. OrderInv
  BY <1>1 DEF OrderInv, Running, Entries, Paths
<1>3. MarkerInv /\ ReturnInv /\ MergeInv
  BY <1>1 DEF Init, MarkerInv, ReturnInv, MergeInv
<1> QED
  BY <1>2, <1>3 DEF MInv

LEMMA SameMerge ==
  ASSUME MInv, UNCHANGED <<trees, irods, pc, faulted>>,
         phase' = phase \/ phase' \in {"error", "deleted"}
  PROVE  MInv'
<1> USE DEF MInv
<1>1. upper' = upper /\ lower' = lower /\ irods' = irods /\ pc' = pc /\ faulted' = faulted
  BY DEF trees
<1>2. OrderInv'
  BY <1>1 DEF OrderInv, Entries, Running
<1>3. MarkerInv' /\ ReturnInv'
  BY <1>1 DEF MarkerInv, ReturnInv
<1>4. \A p \in Paths : Sound(p)' = Sound(p) /\ Merged(p)' = Merged(p)
  BY <1>1, ShownStays DEF Sound, Merged, Below
<1>5. MergeInv'
  BY <1>1, <1>4 DEF MergeInv
<1> QED
  BY <1>2, <1>3, <1>5

LEMMA ReturnMerges == IInv /\ MInv /\ Return => MInv'
<1> SUFFICES ASSUME IInv, MInv, Return PROVE MInv'
  OBVIOUS
<1> USE DEF MInv
<1>1. /\ upper' = upper /\ lower' = lower /\ irods' = irods /\ pc' = pc /\ faulted' = faulted
      /\ phase = "syncing" /\ UNCHANGED trees
  BY DEF Return, trees
<1>2. OrderInv'
  BY <1>1 DEF OrderInv, Entries, Running
<1>3. MarkerInv'
  BY <1>1 DEF MarkerInv
<1>4. ReturnInv'
  <2> SUFFICES ASSUME NEW p \in Paths, upper[p] # "none" PROVE pc[p] = "done"
    BY <1>1 DEF ReturnInv
  <2>1. PICK i \in DOMAIN Walk : Walk[i] = p
    BY IndexOf
  <2>2. pc[p] # "wait"
    BY <2>1 DEF Return, Unvisited, Entries
  <2> QED
    BY <2>2 DEF Return, Running
<1>5. \A p \in Paths : Sound(p)' = Sound(p) /\ Merged(p)' = Merged(p)
  BY <1>1, ShownStays DEF Sound, Merged, Below
<1>6. MergeInv'
  BY <1>1, <1>5 DEF MergeInv
<1> QED
  BY <1>2, <1>3, <1>4, <1>6

LEMMA RestartMerges == MInv /\ Restart => MInv'
<1> SUFFICES ASSUME MInv, Restart PROVE MInv'
  OBVIOUS
<1>1. /\ upper' = upper /\ irods' = irods /\ phase' = "syncing"
      /\ \A p \in Paths : pc'[p] = "wait"
  BY DEF Restart, trees
<1>2. OrderInv'
  BY <1>1 DEF OrderInv, Running, Entries, Paths
<1>3. MarkerInv' /\ ReturnInv' /\ MergeInv'
  BY <1>1 DEF MInv, MarkerInv, ReturnInv, MergeInv
<1> QED
  BY <1>2, <1>3 DEF MInv

LEMMA BeginMerges == IInv /\ MInv /\ Begin => MInv'
<1> SUFFICES ASSUME IInv, MInv, Begin PROVE MInv'
  OBVIOUS
<1> USE DEF MInv
<1> DEFINE Label(p) == IF Ignored(p) THEN "done" ELSE "stat"
<1>1. /\ upper' = upper /\ lower' = lower /\ irods' = irods /\ faulted' = faulted
      /\ phase' = phase /\ phase # "returned" /\ UNCHANGED trees
  BY DEF Begin, trees
<1>2. PICK i \in Unvisited :
        /\ \A j \in Unvisited : i <= j
        /\ NewDir(i) => Running = {}
        /\ pc' = [pc EXCEPT ![Walk[i]] = Label(Walk[i])]
  BY DEF Begin
<1>3. i \in Entries /\ i \in Nat /\ Walk[i] \in Paths /\ upper[Walk[i]] # "none" /\ pc[Walk[i]] = "wait"
  BY WalkAssumption DEF Unvisited, Entries, Paths
<1>4. \A j \in Entries : j \in Nat /\ Walk[j] \in Paths
  BY WalkAssumption DEF Entries, Paths
<1>5. \A p \in Paths : pc'[p] = IF p = Walk[i] THEN Label(p) ELSE pc[p]
  BY <1>2, <1>3 DEF IInv, WalkInv
<1>6. \A j \in Entries : pc[Walk[j]] # "wait" <=> j < i
  <2>1. ASSUME NEW j \in Entries, pc[Walk[j]] # "wait" PROVE j < i
    <3>1. ~(i < j)
      BY <1>3, <2>1 DEF OrderInv
    <3>2. i # j
      BY <1>3, <2>1
    <3> QED
      BY <1>3, <1>4, <3>1, <3>2
  <2>2. ASSUME NEW j \in Entries, j < i PROVE pc[Walk[j]] # "wait"
    <3>1. j \notin Unvisited
      BY <1>2, <1>3, <1>4, <2>2
    <3> QED
      BY <3>1 DEF Unvisited
  <2> QED
    BY <2>1, <2>2
<1>7. Entries' = Entries
  BY <1>1 DEF Entries
<1>8. \A j \in Entries : Walk[j] = Walk[i] => j = i
  BY <1>3, WalkAssumption DEF Entries
<1>9. \A j \in Entries : pc'[Walk[j]] # "wait" <=> j <= i
  BY <1>3, <1>4, <1>5, <1>6, <1>8
<1>10. Running' \subseteq Running \cup {Walk[i]}
  BY <1>5 DEF Running
<1>11. \A k \in Entries : Walk[k] \in Running => k < i /\ Above[Walk[k]] = Above[Walk[i]]
  <2> SUFFICES ASSUME NEW k \in Entries, Walk[k] \in Running
               PROVE  k < i /\ Above[Walk[k]] = Above[Walk[i]]
    OBVIOUS
  <2>1. pc[Walk[k]] # "wait" /\ k < i
    BY <1>6 DEF Running
  <2>2. PICK j \in Before(i) : /\ \A l \in Before(i) : l <= j
                               /\ Above[Walk[j]] = Above[Walk[i]]
    BY <1>2 DEF NewDir
  <2>3. k <= j /\ j \in Entries /\ pc[Walk[j]] # "wait"
    BY <1>6, <2>1, <2>2 DEF Before
  <2> QED
    BY <2>1, <2>2, <2>3 DEF OrderInv
<1>12. OrderInv'
  <2>1. ASSUME NEW k \in Entries, NEW j \in Entries, k < j, pc'[Walk[j]] # "wait"
        PROVE  pc'[Walk[k]] # "wait"
    BY <1>3, <1>4, <1>9, <2>1
  <2>2. ASSUME NEW k \in Entries, NEW j \in Entries, k <= j,
               Walk[k] \in Running', pc'[Walk[j]] # "wait"
        PROVE  Above[Walk[k]] = Above[Walk[j]]
    <3>1. j <= i
      BY <1>9, <2>2
    <3>2. CASE k = i
      BY <1>3, <1>4, <2>2, <3>1, <3>2
    <3>3. CASE k # i
      <4>1. Walk[k] \in Running
        BY <1>8, <1>10, <2>2, <3>3
      <4>2. CASE j = i
        BY <1>11, <4>1, <4>2
      <4>3. CASE j # i
        <5>1. pc[Walk[j]] # "wait"
          BY <1>3, <1>4, <1>6, <3>1, <4>3
        <5> QED
          BY <2>2, <4>1, <5>1 DEF OrderInv
      <4> QED
        BY <4>2, <4>3
    <3> QED
      BY <3>2, <3>3
  <2> QED
    BY <1>7, <2>1, <2>2 DEF OrderInv
<1>13. MarkerInv' /\ ReturnInv'
  BY <1>1 DEF MarkerInv, ReturnInv
<1>14. \A p \in Paths : Sound(p)' = Sound(p) /\ Merged(p)' = Merged(p)
  BY <1>1, ShownStays DEF Sound, Merged, Below
<1>15. Ignored(Walk[i]) => Merged(Walk[i])
  BY <1>3, ShownEntry DEF Ignored, MarkerInv, Merged
<1>16. MergeInv'
  BY <1>1, <1>5, <1>14, <1>15 DEF MergeInv
<1> QED
  BY <1>12, <1>13, <1>16
----------------------------------------------------------------------------
(* The tasks. *)

LEMMA TaskRuns ==
  ASSUME IInv, NEW p \in Paths, pc[p] \notin {"wait", "done"}
  PROVE  p \in Running /\ upper[p] \in {"file", "dir", "opaque", "whiteout"}
BY DEF IInv, TaskInv, Running

LEMMA StatMerges ==
  ASSUME NEW p \in Paths PROVE IInv /\ IInv' /\ MInv /\ Stat(p) => MInv'
<1> SUFFICES ASSUME IInv, IInv', MInv, Stat(p) PROVE MInv'
  OBVIOUS
<1> DEFINE label == AfterStat(p)
<1>1. /\ pc[p] = "stat" /\ pc' = [pc EXCEPT ![p] = label]
      /\ UNCHANGED <<trees, phase, faulted, irods>>
  BY DEF Stat, At, Goto, Unblamed
<1>2. p \in Running /\ upper[p] \in {"file", "dir", "opaque", "whiteout"} /\ irods[p] \in IrodsKinds
  BY <1>1, TaskRuns DEF IInv, IrodsInv
<1>3. /\ label # "wait"
      /\ label = "make" => irods[p] = "none"
      /\ label = "clear" => irods[p] = "dir"
      /\ label = "done" => \/ upper[p] = "whiteout" /\ irods[p] = "none"
                           \/ upper[p] \in {"dir", "opaque"} /\ irods[p] = "dir" /\ ~Opaque(p)
  <2>1. CASE upper[p] = "whiteout"
    BY <2>1 DEF AfterStat
  <2>2. CASE upper[p] = "file"
    BY <2>2 DEF AfterStat
  <2>3. CASE upper[p] \in {"dir", "opaque"} /\ irods[p] = "none"
    BY <2>3 DEF AfterStat
  <2>4. CASE upper[p] \in {"dir", "opaque"} /\ irods[p] = "dir"
    BY <2>4 DEF AfterStat
  <2>5. CASE upper[p] \in {"dir", "opaque"} /\ irods[p] \in {"old", "new", "torn"}
    BY <2>5 DEF AfterStat
  <2> QED
    BY <1>2, <2>1, <2>2, <2>3, <2>4, <2>5 DEF IrodsKinds
<1>4. phase = "syncing" /\ label = "done" => Merged(p)'
  <2> SUFFICES ASSUME phase = "syncing", label = "done" PROVE Merged(p)'
    OBVIOUS
  <2>1. upper[p] # "opaque"
    BY <1>2, <1>3 DEF Opaque
  <2>2. irods[p] = Shown(lower, p)
    BY <1>3, ShownEntry
  <2> QED
    BY <1>1, <2>1, <2>2, ShownStays DEF Merged, trees
<1> QED
  BY <1>1, <1>2, <1>3, <1>4, TaskMoves

\* After what was removed nothing is in the way.
LEMMA RemoveMerges ==
  ASSUME NEW p \in Paths PROVE IInv /\ IInv' /\ MInv /\ Remove(p) => MInv'
<1> SUFFICES ASSUME IInv, IInv', MInv, Remove(p) PROVE MInv'
  OBVIOUS
<1> DEFINE label == AfterRemove(p)
<1>1. /\ pc[p] = "remove" /\ pc' = [pc EXCEPT ![p] = label] /\ irods' = Without(p)
      /\ UNCHANGED <<trees, phase, faulted>>
  BY DEF Remove, At, Goto, Unblamed
<1>2. p \in Running /\ upper[p] \in {"file", "dir", "opaque", "whiteout"}
  BY <1>1, TaskRuns
<1>3. label \in {"done", "upload", "make"} /\ (label = "done" => upper[p] = "whiteout")
  BY <1>2 DEF AfterRemove
<1>4. /\ irods'[p] = "none"
      /\ \A q \in Paths \ {p} : irods'[q] = irods[q] \/ (q \in Below(p) /\ irods'[q] = "none")
  BY <1>1 DEF Without
<1>5. label = "done" => Merged(p)'
  <2> SUFFICES ASSUME label = "done" PROVE Merged(p)'
    OBVIOUS
  <2>1. upper[p] = "whiteout" /\ upper' = upper
    BY <1>1, <1>3 DEF trees
  <2>2. irods'[p] = Shown(lower, p)
    BY <1>4, <2>1, ShownEntry
  <2> QED
    BY <1>1, <2>1, <2>2, ShownStays DEF Merged
<1> QED
  BY <1>1, <1>2, <1>3, <1>4, <1>5, TaskMoves

LEMMA ClearMerges ==
  ASSUME NEW p \in Paths PROVE IInv /\ IInv' /\ MInv /\ Clear(p) => MInv'
<1> SUFFICES ASSUME IInv, IInv', MInv, Clear(p) PROVE MInv'
  OBVIOUS
<1>1. /\ pc[p] = "clear" /\ pc' = [pc EXCEPT ![p] = "done"]
      /\ UNCHANGED <<trees, phase, faulted, irods>> /\ \A q \in Below(p) : irods[q] = "none"
  BY DEF Clear, At, Goto, Unblamed
<1>2. p \in Running /\ upper[p] = "opaque"
  BY <1>1, TaskRuns DEF IInv, TaskInv
<1>3. phase = "syncing" => irods[p] = Shown(lower, p)
  BY <1>1, <1>2, ShownEntry DEF MInv, MergeInv
<1>4. phase = "syncing" => Merged(p)'
  BY <1>1, <1>3, ShownStays DEF Merged, Below
<1> QED
  BY <1>1, <1>2, <1>4, TaskMoves

LEMMA RemovePartMerges ==
  ASSUME NEW p \in Paths PROVE IInv /\ IInv' /\ MInv /\ RemovePart(p) => MInv'
<1> SUFFICES ASSUME IInv, IInv', MInv, RemovePart(p) PROVE MInv'
  OBVIOUS
<1>1. /\ pc[p] \in {"remove", "clear"} /\ UNCHANGED <<trees, pc, phase, faulted>>
  BY DEF RemovePart, Unblamed
<1>2. p \in Running /\ upper[p] \in {"file", "dir", "opaque", "whiteout"}
  BY <1>1, TaskRuns
<1>3. PICK q \in Below(p) : irods' = Without(q)
  BY DEF RemovePart
<1>4. q \in Paths /\ q # p /\ p \notin Below(q) /\ Below(q) \subseteq Below(p)
  BY BelowIsOneWay, BelowBelow
<1>5. /\ irods'[p] = irods[p]
      /\ \A r \in Paths \ {p} : irods'[r] = irods[r] \/ (r \in Below(p) /\ irods'[r] = "none")
  BY <1>3, <1>4 DEF Without
<1>6. pc' = [pc EXCEPT ![p] = pc[p]]
  BY <1>1 DEF IInv, WalkInv
<1>7. phase = "syncing" /\ pc[p] = "clear" => irods'[p] = "dir"
  BY <1>5 DEF MInv, MergeInv
<1> QED
  BY <1>1, <1>2, <1>5, <1>6, <1>7, TaskMoves

LEMMA MakeMerges ==
  ASSUME NEW p \in Paths PROVE IInv /\ IInv' /\ MInv /\ Make(p) => MInv'
<1> SUFFICES ASSUME IInv, IInv', MInv, Make(p) PROVE MInv'
  OBVIOUS
<1>1. /\ pc[p] = "make" /\ pc' = [pc EXCEPT ![p] = "done"]
      /\ UNCHANGED <<trees, phase, faulted>>
  BY DEF Make, At, Goto, Unblamed
<1>2. p \in Running /\ upper[p] \in {"dir", "opaque"}
  BY <1>1, TaskRuns DEF IInv, TaskInv
<1>3. CASE \A q \in Above[p] : irods[q] \in {"none", "dir"}
  <2>1. irods' = [q \in Paths |-> IF q = p \/ q \in Above[p] THEN "dir" ELSE irods[q]]
    BY <1>3 DEF Make
  <2>2. \A q \in Paths \ {p} : irods'[q] = irods[q] \/ (q \in Above[p] /\ irods'[q] = "dir")
    BY <2>1
  <2>3. phase = "syncing" => Merged(p)'
    <3> SUFFICES ASSUME phase = "syncing" PROVE Merged(p)'
      OBVIOUS
    <3>1. irods[p] = "none"
      BY <1>1, <1>2 DEF MInv, MergeInv
    <3>2. \A q \in Below(p) : irods[q] = "none"
      BY <3>1 DEF IInv, IrodsInv, IsTree, Below
    <3>3. \A q \in Below(p) : irods'[q] = "none"
      BY <2>1, <3>2, BelowIsOneWay
    <3>4. irods'[p] = Shown(lower, p)
      BY <1>2, <2>1, ShownEntry
    <3> QED
      BY <1>1, <3>3, <3>4, ShownStays DEF Merged, Below
  <2> QED
    BY <1>1, <1>2, <2>2, <2>3, TaskMoves
<1>4. CASE ~\A q \in Above[p] : irods[q] \in {"none", "dir"}
  <2>1. irods' = irods
    BY <1>4 DEF Make
  <2>2. phase = "syncing" => ~Sound(p)'
    BY <1>1, <1>2, <1>4, DirectoriesThere DEF Sound
  <2> QED
    BY <1>1, <1>2, <2>1, <2>2, TaskMoves
<1> QED
  BY <1>3, <1>4

LEMMA UploadPartMerges ==
  ASSUME NEW p \in Paths PROVE IInv /\ IInv' /\ MInv /\ UploadPart(p) => MInv'
<1> SUFFICES ASSUME IInv, IInv', MInv, UploadPart(p) PROVE MInv'
  OBVIOUS
<1>1. /\ pc[p] = "upload" /\ irods' = [irods EXCEPT ![p] = "torn"]
      /\ UNCHANGED <<trees, pc, phase, faulted>>
  BY DEF UploadPart, Uploads, At, Unblamed
<1>2. p \in Running /\ upper[p] = "file"
  BY <1>1, TaskRuns DEF IInv, TaskInv
<1>3. \A q \in Paths \ {p} : irods'[q] = irods[q]
  BY <1>1 DEF IInv, IrodsInv
<1>4. pc' = [pc EXCEPT ![p] = pc[p]]
  BY <1>1 DEF IInv, WalkInv
<1> QED
  BY <1>1, <1>2, <1>3, <1>4, TaskMoves

LEMMA UploadMerges ==
  ASSUME NEW p \in Paths PROVE IInv /\ IInv' /\ MInv /\ Upload(p) => MInv'
<1> SUFFICES ASSUME IInv, IInv', MInv, Upload(p) PROVE MInv'
  OBVIOUS
<1>1. /\ pc[p] = "upload" /\ pc' = [pc EXCEPT ![p] = "done"]
      /\ irods' = (IF Uploads(p) THEN [irods EXCEPT ![p] = "new"] ELSE irods)
      /\ UNCHANGED <<trees, phase, faulted>>
  BY DEF Upload, At, Goto, Unblamed
<1>2. p \in Running /\ upper[p] = "file"
  BY <1>1, TaskRuns DEF IInv, TaskInv
<1>3. \A q \in Paths \ {p} : irods'[q] = irods[q]
  BY <1>1 DEF IInv, IrodsInv
<1>4. phase = "syncing" /\ Sound(p)' => Merged(p)'
  <2> SUFFICES ASSUME phase = "syncing", Sound(p)' PROVE Merged(p)'
    OBVIOUS
  <2>1. Above[p] \cap faulted = {}
    BY <1>1 DEF Sound
  <2>2. Uploads(p)
    BY <1>1, <1>2, <2>1, DirectoriesThere DEF Uploads, At
  <2>3. irods'[p] = Shown(lower, p)
    BY <1>1, <1>2, <2>2, ShownEntry DEF IInv, IrodsInv
  <2> QED
    BY <1>1, <1>2, <2>3, ShownStays DEF Merged, trees
<1> QED
  BY <1>1, <1>2, <1>3, <1>4, TaskMoves

\* A task that gives up is not sound.
LEMMA FailMerges ==
  ASSUME NEW p \in Paths PROVE IInv /\ IInv' /\ MInv /\ Fail(p) => MInv'
<1> SUFFICES ASSUME IInv, IInv', MInv, Fail(p) PROVE MInv'
  OBVIOUS
<1>1. /\ p \in Running /\ pc' = [pc EXCEPT ![p] = "done"] /\ faulted' = faulted \cup {p}
      /\ UNCHANGED <<trees, phase, irods>>
  BY DEF Fail, Goto
<1>2. upper[p] # "none"
  BY <1>1, TaskRuns DEF Running
<1>3. ~Sound(p)'
  BY <1>1 DEF Sound
<1> QED
  BY <1>1, <1>2, <1>3, TaskMoves
----------------------------------------------------------------------------
LEMMA NextMerges == IInv /\ IInv' /\ MInv /\ [Next]_vars => MInv'
<1> SUFFICES ASSUME IInv, IInv', MInv, [Next]_vars PROVE MInv'
  OBVIOUS
<1>1. CASE Begin
  BY <1>1, BeginMerges
<1>2. CASE Return
  BY <1>2, ReturnMerges
<1>3. CASE WalkFails \/ DeleteUpper
  BY <1>3, SameMerge DEF WalkFails, DeleteUpper
<1>4. CASE Restart
  BY <1>4, RestartMerges
<1>5. ASSUME NEW p \in Paths, Task(p) \/ Fail(p) PROVE MInv'
  BY <1>5, StatMerges, RemoveMerges, ClearMerges, RemovePartMerges, MakeMerges,
     UploadPartMerges, UploadMerges, FailMerges DEF Task
<1>6. CASE UNCHANGED vars
  BY <1>6, SameMerge DEF vars, trees
<1> QED
  BY <1>1, <1>2, <1>3, <1>4, <1>5, <1>6 DEF Next

LEMMA MInvSuffices == IInv /\ MInv => DoneIsMerged
<1> SUFFICES ASSUME IInv, MInv, phase = "returned",
                    NEW p \in Paths, p \notin faulted, Above[p] \cap faulted = {}
             PROVE  irods[p] = Shown(lower, p)
  BY DEF DoneIsMerged
<1> USE DEF IInv, MInv
<1>1. CASE upper[p] # "none"
  BY <1>1 DEF ReturnInv, MergeInv, Sound, Merged
<1>2. CASE upper[p] = "none" /\ ~Hidden(p)
  BY <1>2 DEF ViewIsStable, Shown
<1>3. CASE upper[p] = "none" /\ Hidden(p)
  <2>1. PICK q \in Above[p] : upper[q] \in {"file", "opaque", "whiteout"}
    BY <1>3 DEF Hidden
  <2>2. q \in Paths /\ p \in Below(q) /\ Sound(q)
    BY AboveAssumption DEF Below, Sound
  <2>3. Merged(q)
    BY <2>1, <2>2 DEF ReturnInv, MergeInv
  <2>4. CASE upper[q] = "opaque"
    BY <1>3, <2>2, <2>3, <2>4 DEF Merged, Shown
  <2>5. CASE upper[q] \in {"file", "whiteout"}
    <3>1. irods[q] # "dir"
      BY <2>2, <2>3, <2>5, ShownEntry DEF Merged
    <3>2. irods[p] = "none"
      BY <2>1, <3>1 DEF IrodsInv, IsTree
    <3> QED
      BY <1>3, <3>2 DEF Shown
  <2> QED
    BY <2>1, <2>4, <2>5
<1> QED
  BY <1>1, <1>2, <1>3

\* When Sync returns, iRODS shows what the pods saw, but for entries whose
\* requests failed and what is below them: barriers are enough to keep the
\* tasks out of each other's way, whatever an earlier sync left behind.
THEOREM DoneIsMergedHolds == Spec => []DoneIsMerged
<1>1. Init => IInv /\ MInv
  BY InitInv, InitMerge
<1>2. IInv /\ MInv /\ [Next]_vars => (IInv /\ MInv)'
  BY NextKeeps, NextMerges
<1>3. IInv /\ MInv => DoneIsMerged
  BY MInvSuffices
<1> QED
  BY <1>1, <1>2, <1>3, PTL DEF Spec
=============================================================================
