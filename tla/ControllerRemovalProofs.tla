---------------------- MODULE ControllerRemovalProofs ----------------------
(***************************************************************************)
(* When a claim is gone its directory is too, unless the volume is         *)
(* retained or its record was lost on the way (DeletedIsRemoved).          *)
(* Directories are made where the driver's own whitelist allows it         *)
(* (MadeInWhitelist), and a node stages them as they were created          *)
(* (StagedAsCreated): for any configurations, claims, replicas, failures   *)
(* and bounds.                                                             *)
(***************************************************************************)
EXTENDS ControllerServiceProofs

\* A call nobody waits for has put its claim among the lost ones.
UnheardInv == \A c \in Calls : ~At(c, "idle") /\ ~calls[c].heard => Name(c) \in lost

\* The call the provisioner waits for is at the replica it runs beside.
LeaderInv == \A c \in Calls : calls[c].heard => calls[c].at = leader

\* Until the claim is gone the leader remembers its volume, or is removing it.
Kept(n) ==
  \/ pv[n] \in mem[leader]
  \/ \E c \in Calls : calls[c].heard /\ At(c, "rmdir") /\ calls[c].vol = pv[n]
KeptInv == \A n \in Names \ lost : claim[n] \in {"bound", "deleting"} => Kept(n)

\* What is not retained has a directory of its own.
OwnInv ==
  \A n \in Names : Settled(n) /\ ~pv[n].retain =>
    \E root \in Roots : pv[n].path = Append(root, n)

RemovalInv == UnheardInv /\ LeaderInv /\ KeptInv /\ OwnInv /\ DeletedIsRemoved
----------------------------------------------------------------------------
(* What a step does to a call, to the volume of a claim and to directories. *)

\* What is left of a handler's call when it has answered.
LEMMA AnsweredIsIdle ==
  ASSUME TypeOK, NEW c \in Calls, NEW d \in Calls, NEW state, Reply(c, state)
  PROVE  /\ d = c => At(d, "idle")' /\ ~calls'[d].heard
         /\ d # c => calls'[d] = calls[d]
BY IdleFields DEF Reply, TypeOK, At

\* A call in flight is new, or it was in flight, for the same claim at the same replica.
Continues(c) ==
  /\ ~At(c, "idle") /\ Name(c)' = Name(c) /\ calls'[c].at = calls[c].at
  /\ calls'[c].heard => calls[c].heard /\ leader' = leader
  /\ calls[c].heard /\ ~calls'[c].heard => Name(c) \in lost'
Starts(c) == calls'[c].heard /\ calls'[c].at = leader /\ leader' = leader

LEMMA CallSteps ==
  ASSUME CInv, [Next]_vars, NEW c \in Calls, ~At(c, "idle")'
  PROVE  Starts(c) \/ Continues(c)
<1> USE DEF CInv, StepInv
<1>1. CASE calls'[c] = calls[c] /\ leader' = leader
  BY <1>1 DEF Continues, At, Name
<1>2. ASSUME NEW d \in Calls, NEW n \in Names, RequestCreate(d, n) \/ RequestDelete(d, n)
      PROVE  Starts(c) \/ (calls'[c] = calls[c] /\ leader' = leader)
  <2>1. PICK pc, vol : Request(d, n, pc, vol)
    BY <1>2 DEF RequestCreate, RequestDelete
  <2>2. CASE d = c
    BY <2>1, <2>2 DEF Request, TypeOK, Starts
  <2>3. CASE d # c
    BY <2>1, <2>3 DEF Request, TypeOK
  <2> QED BY <2>2, <2>3
<1>3. ASSUME NEW d \in Calls, Handler(d)
      PROVE  Continues(c)
  <2>1. leader' = leader
    BY <1>3 DEF Handler, Configure, MakeDir, PutRecord, PopRecord, RemoveDir,
                NothingToDelete, Goto, Reply, provisioner
  <2>2. CASE d # c
    <3>1. calls'[c] = calls[c]
      BY <1>3, <2>2 DEF Handler, Configure, MakeDir, PutRecord, PopRecord, RemoveDir,
                        NothingToDelete, Goto, Reply, TypeOK
    <3> QED BY <2>1, <3>1 DEF Continues, At, Name
  <2>3. CASE d = c
    <3>1. ~At(c, "idle")
      BY <1>3, <2>3 DEF Handler, Configure, MakeDir, PutRecord, PopRecord, RemoveDir, At
    <3>2. ASSUME NEW state, Reply(d, state) PROVE FALSE
      BY <2>3, <3>2, AnsweredIsIdle
    <3>3. CASE MakeDir(d)
      <4>1. calls' = [calls EXCEPT ![c].pc = "put"]
        BY <2>3, <3>2, <3>3 DEF MakeDir, Goto
      <4>2. calls'[c] = [calls[c] EXCEPT !.pc = "put"]
        BY <4>1 DEF TypeOK
      <4> QED BY <2>1, <3>1, <4>2, CallFields DEF Call, Continues, Name
    <3>4. CASE PopRecord(d)
      <4>1. PICK v \in Found(d) : calls' = [calls EXCEPT ![d].pc = "rmdir", ![d].vol = v]
        BY <3>2, <3>4 DEF PopRecord, NothingToDelete
      <4>2. /\ calls'[c].vol = v /\ v.name = calls[c].vol.name
            /\ calls'[c].heard = calls[c].heard /\ calls'[c].at = calls[c].at
        BY <2>3, <4>1, CallFields DEF TypeOK, Call, Found, SameId
      <4> QED BY <2>1, <3>1, <4>2 DEF Continues, Name
    <3>5. CASE Configure(d)
      <4>1. PICK entry \in Decides : calls' = [calls EXCEPT ![d] = Decided(calls[d], entry[2])]
        BY <3>2, <3>5 DEF Configure
      <4>2. calls'[c] = Decided(calls[c], entry[2])
        BY <2>3, <4>1 DEF TypeOK
      <4>3. /\ calls'[c].vol = [calls[c].vol EXCEPT !.path = entry[2].path, !.retain = entry[2].retain]
            /\ calls'[c].heard = calls[c].heard /\ calls'[c].at = calls[c].at
        BY <4>2, CallFields DEF Decided, Call
      <4> QED BY <2>1, <3>1, <4>3, CallFields DEF Volume, Name, Continues
    <3>6. ~PutRecord(d) /\ ~RemoveDir(d)
      BY <3>2 DEF PutRecord, RemoveDir
    <3> QED BY <1>3, <3>3, <3>4, <3>5, <3>6 DEF Handler
  <2> QED BY <2>2, <2>3
<1>4. ASSUME (\E d \in Calls : Timeout(d)) \/ (\E r \in Replicas : Crash(r) \/ Failover(r))
      PROVE  Continues(c)
  <2>1. calls'[c] \in {calls[c], [calls[c] EXCEPT !.heard = FALSE]}
    BY <1>4, FaultCalls, IdleFields DEF At
  <2>2. LET quiet == [calls[c] EXCEPT !.heard = FALSE]
        IN /\ quiet.pc = calls[c].pc /\ quiet.vol = calls[c].vol /\ quiet.at = calls[c].at
           /\ ~quiet.heard
    BY CallFields DEF Call
  <2>3. calls'[c].heard => leader' = leader
    <3>1. ASSUME NEW r \in Replicas, Failover(r) PROVE ~calls'[c].heard
      BY <2>2, <3>1 DEF Failover
    <3> QED BY <1>4, <3>1 DEF Timeout, Crash, provisioner
  <2>4. ASSUME calls[c].heard, ~calls'[c].heard PROVE Name(c) \in lost'
    <3>1. ASSUME NEW d \in Calls, Timeout(d) PROVE Name(c) \in lost'
      BY <2>4, <3>1 DEF Timeout, TypeOK
    <3>2. ASSUME NEW r \in Replicas, Crash(r) PROVE Name(c) \in lost'
      BY <1>4, <2>1, <2>4, <3>2, IdleFields DEF Crash, At
    <3>3. ASSUME NEW r \in Replicas, Failover(r) PROVE Name(c) \in lost'
      BY <2>4, <3>3 DEF Failover
    <3> QED BY <1>4, <3>1, <3>2, <3>3
  <2> QED BY <2>1, <2>2, <2>3, <2>4 DEF Continues, At, Name
<1>5. CASE UNCHANGED <<calls, leader>>
  BY <1>1, <1>5
<1>6. CASE Provisioner
  BY <1>1, <1>2, <1>6 DEF Provisioner
<1> QED BY <1>3, <1>4, <1>5, <1>6 DEF Next, vars, Ask, Release, provisioner

\* What is lost stays lost.
LEMMA LostStays ==
  ASSUME [Next]_vars
  PROVE  lost \subseteq lost'
BY DEF Next, vars, Ask, Release, Provisioner, RequestCreate, RequestDelete, Request, Handler,
       Configure, MakeDir, PutRecord, PopRecord, RemoveDir, Timeout, Crash, Failover

\* A step changes what is known of a claim by asking for it, by its release, or by
\* the answer of the call the provisioner waits for.
LEMMA ClaimSteps ==
  ASSUME CInv, [Next]_vars, NEW n \in Names
  PROVE  \/ claim'[n] = claim[n] /\ pv'[n] = pv[n]
         \/ claim'[n] = "creating" /\ claim[n] = "none" /\ pv'[n] = pv[n]
         \/ claim'[n] = "deleting" /\ claim[n] = "bound" /\ pv'[n] = pv[n]
         \/ /\ claim'[n] = "refused" /\ claim[n] \in {"creating", "refused"} /\ pv'[n] = pv[n]
         \/ \E c \in Calls :
              /\ calls[c].heard /\ Name(c) = n /\ PutRecord(c)
              /\ claim[n] \in {"creating", "refused"} /\ claim'[n] = "bound"
              /\ pv'[n] = calls[c].vol /\ Saved(calls[c].at, mem[calls[c].at] \cup {calls[c].vol})
         \/ \E c \in Calls :
              /\ calls[c].heard /\ Name(c) = n /\ (PopRecord(c) \/ RemoveDir(c)) /\ Reply(c, "gone")
              /\ claim[n] = "deleting" /\ claim'[n] = "gone" /\ pv'[n] = pv[n]
<1> USE DEF CInv, StepInv, provisioner
<1>1. CASE claim' = claim /\ pv' = pv
  BY <1>1
<1>2. ASSUME NEW m \in Names, Ask(m) \/ Release(m)
      PROVE  pv' = pv /\ \/ claim'[n] = claim[n]
                         \/ claim[n] = "none" /\ claim'[n] = "creating"
                         \/ claim[n] = "bound" /\ claim'[n] = "deleting"
  BY <1>2 DEF Ask, Release, TypeOK
<1>3. ASSUME NEW c \in Calls, NEW state \in {"error", "refused", "gone", "bound"}, Reply(c, state)
      PROVE  \/ claim'[n] = claim[n] /\ pv'[n] = pv[n]
             \/ /\ calls[c].heard /\ Name(c) = n /\ claim'[n] = state /\ state # "error"
                /\ pv'[n] = IF state = "bound" THEN calls[c].vol ELSE pv[n]
  BY <1>3 DEF Reply, TypeOK
<1>4. \A c \in Calls : calls[c].heard => /\ Creates(c) => claim[Name(c)] \in {"creating", "refused"}
                                         /\ Deletes(c) => claim[Name(c)] = "deleting"
  BY DEF HeardInv, Creates, Deletes
<1>5. ASSUME NEW c \in Calls, Configure(c) \/ MakeDir(c)
      PROVE  \/ claim'[n] = claim[n] /\ pv'[n] = pv[n]
             \/ claim'[n] = "refused" /\ claim[n] \in {"creating", "refused"} /\ pv'[n] = pv[n]
  <2>1. Creates(c)
    BY <1>5 DEF Configure, MakeDir, At, Creates
  <2>2. (claim' = claim /\ pv' = pv) \/ Reply(c, "refused")
    BY <1>5 DEF Configure, MakeDir, Goto, Reply
  <2> QED BY <1>3, <1>4, <2>1, <2>2
<1>6. ASSUME NEW c \in Calls, PutRecord(c)
      PROVE  \/ claim'[n] = claim[n] /\ pv'[n] = pv[n]
             \/ claim'[n] = "refused" /\ claim[n] \in {"creating", "refused"} /\ pv'[n] = pv[n]
             \/ /\ calls[c].heard /\ Name(c) = n
                /\ claim[n] \in {"creating", "refused"} /\ claim'[n] = "bound"
                /\ pv'[n] = calls[c].vol
                /\ Saved(calls[c].at, mem[calls[c].at] \cup {calls[c].vol})
  <2>1. Creates(c)
    BY <1>6 DEF PutRecord, At, Creates
  <2>2. \/ Reply(c, "refused") \/ Reply(c, "error")
        \/ Reply(c, "bound") /\ Saved(calls[c].at, mem[calls[c].at] \cup {calls[c].vol})
    BY <1>6 DEF PutRecord
  <2> QED BY <1>3, <1>4, <2>1, <2>2
<1>7. ASSUME NEW c \in Calls, PopRecord(c) \/ RemoveDir(c)
      PROVE  \/ claim'[n] = claim[n] /\ pv'[n] = pv[n]
             \/ /\ calls[c].heard /\ Name(c) = n /\ Reply(c, "gone")
                /\ claim[n] = "deleting" /\ claim'[n] = "gone" /\ pv'[n] = pv[n]
  <2>1. Deletes(c)
    BY <1>7 DEF PopRecord, RemoveDir, At, Deletes
  <2>2. (claim' = claim /\ pv' = pv) \/ Reply(c, "gone")
    BY <1>7 DEF PopRecord, RemoveDir, NothingToDelete, Reply
  <2> QED BY <1>3, <1>4, <2>1, <2>2
<1>8. (claim' = claim /\ pv' = pv) \/ (\E m \in Names : Ask(m) \/ Release(m))
        \/ (\E c \in Calls : Handler(c))
  BY DEF Next, vars, Provisioner, RequestCreate, RequestDelete, Request, Timeout, Crash, Failover
<1>9. CASE \E m \in Names : Ask(m) \/ Release(m)
  BY <1>2, <1>9
<1>10. CASE \E c \in Calls : Handler(c)
  BY <1>5, <1>6, <1>7, <1>10 DEF Handler
<1> QED BY <1>1, <1>8, <1>9, <1>10
----------------------------------------------------------------------------
(* The invariant. *)

LEMMA InitRemoval == Init => RemovalInv
<1> SUFFICES ASSUME Init PROVE RemovalInv
  OBVIOUS
<1>1. \A c \in Calls : At(c, "idle") /\ ~calls[c].heard
  BY IdleFields DEF Init, At
<1>2. \A n \in Names : claim[n] = "none"
  BY DEF Init
<1> QED BY <1>1, <1>2 DEF RemovalInv, UnheardInv, LeaderInv, KeptInv, OwnInv, DeletedIsRemoved,
                          Settled

LEMMA NextCalls ==
  ASSUME CInv, UnheardInv, LeaderInv, [Next]_vars
  PROVE  UnheardInv' /\ LeaderInv'
<1>1. UnheardInv'
  BY CallSteps, LostStays DEF UnheardInv, Starts, Continues
<1>2. LeaderInv'
  <2>1. \A c \in Calls : calls'[c].heard => ~At(c, "idle")'
    BY NextSteps DEF CInv, StepInv, HeardInv, Creates, Deletes, At
  <2> QED BY <2>1, CallSteps DEF LeaderInv, Starts, Continues
<1> QED BY <1>1, <1>2

LEMMA NextOwn ==
  ASSUME CInv, OwnInv, [Next]_vars
  PROVE  OwnInv'
<1> USE DEF CInv, StepInv
<1> SUFFICES ASSUME NEW n \in Names, Settled(n)', ~pv'[n].retain
             PROVE  \E root \in Roots : pv'[n].path = Append(root, n)
  BY DEF OwnInv
<1>1. CASE Settled(n) /\ pv'[n] = pv[n]
  BY <1>1 DEF OwnInv
<1>2. ASSUME NEW c \in Calls, PutRecord(c), Name(c) = n, pv'[n] = calls[c].vol
      PROVE  \E root \in Roots : pv'[n].path = Append(root, n)
  <2>1. Placed(calls[c].vol)
    BY <1>2 DEF PutRecord, PlacedInv
  <2> QED BY <1>2, <2>1 DEF Placed, Name
<1> QED BY <1>1, <1>2, ClaimSteps DEF Settled

\* The call that removes the directory of a claim that is not lost goes on doing so.
LEMMA RemovingGoesOn ==
  ASSUME CInv, [Next]_vars, NEW n \in Names \ lost', NEW c \in Calls,
         claim'[n] \in {"bound", "deleting"}, claim[n] \in {"bound", "deleting"},
         pv'[n] = pv[n], calls[c].heard, At(c, "rmdir"), calls[c].vol = pv[n]
  PROVE  calls'[c] = calls[c]
<1> USE DEF CInv, StepInv
<1>1. Name(c) = n
  BY DEF BoundInv, Settled, Name
<1>2. ASSUME NEW d \in Calls, NEW m \in Names, RequestCreate(d, m) \/ RequestDelete(d, m)
      PROVE  calls'[c] = calls[c]
  <2>1. d # c
    BY <1>2 DEF RequestCreate, RequestDelete, Request, At
  <2> QED BY <1>2, <2>1 DEF RequestCreate, RequestDelete, Request, TypeOK
<1>3. ASSUME NEW d \in Calls, Handler(d), d # c
      PROVE  calls'[c] = calls[c]
  BY <1>3 DEF Handler, Configure, MakeDir, PutRecord, PopRecord, RemoveDir,
              NothingToDelete, Goto, Reply, TypeOK
<1>4. ASSUME Handler(c) PROVE FALSE
  <2>1. RemoveDir(c)
    BY <1>4 DEF Handler, Configure, MakeDir, PutRecord, PopRecord, At
  <2>2. Reply(c, "gone")
    BY <1>1, <2>1 DEF RemoveDir
  <2>3. claim'[n] = "gone"
    BY <1>1, <2>2 DEF Reply, TypeOK
  <2> QED BY <2>3
<1>5. ASSUME NEW d \in Calls, Timeout(d) PROVE calls'[c] = calls[c]
  <2>1. d # c
    BY <1>1, <1>5 DEF Timeout
  <2> QED BY <1>5, <2>1 DEF Timeout, TypeOK
<1>6. ASSUME NEW r \in Replicas, Crash(r) PROVE calls'[c] = calls[c]
  <2>1. claim' = claim
    BY <1>6 DEF Crash, provisioner
  <2>2. ~(calls[c].at = r)
    BY <1>1, <1>6 DEF Crash, Forgotten, At
  <2> QED BY <1>6, <2>2 DEF Crash
<1>7. ASSUME NEW r \in Replicas, Failover(r) PROVE FALSE
  BY <1>1, <1>7 DEF Failover
<1>8. CASE UNCHANGED calls
  BY <1>8
<1>9. CASE Provisioner
  BY <1>2, <1>9 DEF Provisioner
<1> QED BY <1>3, <1>4, <1>5, <1>6, <1>7, <1>8, <1>9 DEF Next, vars, Ask, Release

\* The leader's record of a claim that is not lost stays until it is taken out to
\* remove the directory.
LEMMA RecordStays ==
  ASSUME CInv, UnheardInv, LeaderInv, [Next]_vars, NEW n \in Names \ lost',
         claim'[n] \in {"bound", "deleting"}, claim[n] \in {"bound", "deleting"},
         pv'[n] = pv[n], pv[n] \in mem[leader]
  PROVE  Kept(n)'
<1> USE DEF CInv, StepInv
<1>1. pv[n] \in Volume /\ pv[n].name = n /\ Settled(n) /\ leader \in Replicas /\ n \notin lost
  BY LostStays DEF TypeOK, BoundInv, Settled
<1>2. CASE leader' = leader /\ mem' = mem
  BY <1>1, <1>2 DEF Kept
<1>3. ASSUME NEW c \in Calls, PutRecord(c) PROVE Kept(n)'
  <2>1. leader' = leader /\ mem[leader] \subseteq mem'[leader]
    BY <1>1, <1>3 DEF PutRecord, Saved, NotSaved, Reply, records, TypeOK
  <2> QED BY <1>1, <2>1 DEF Kept
<1>4. ASSUME NEW c \in Calls, PopRecord(c) PROVE Kept(n)'
  <2>0. leader' = leader
    BY <1>4 DEF PopRecord, NothingToDelete, Reply, provisioner
  <2>1. CASE pv[n] \in mem'[leader]
    BY <1>1, <2>0, <2>1 DEF Kept
  <2>2. CASE pv[n] \notin mem'[leader]
    <3>1. calls[c].at \in Replicas /\ mem \in [Replicas -> SUBSET Volume]
      BY CallFields DEF TypeOK
    <3>2. \/ mem' = mem
          \/ \E v \in Found(c) : mem' = [mem EXCEPT ![calls[c].at] = mem[calls[c].at] \ {v}]
      BY <1>4 DEF PopRecord, Saved, NotSaved, records
    <3>3. calls[c].at = leader /\ pv[n] \in Found(c)
          /\ mem' = [mem EXCEPT ![leader] = mem[leader] \ {pv[n]}]
      BY <1>1, <2>2, <3>1, <3>2
    <3>4. Name(c) = n
      BY <1>1, <3>3 DEF Found, SameId, Name
    <3>5. calls[c].heard
      BY <1>1, <1>4, <3>4 DEF UnheardInv, PopRecord, At
    <3>6. ~Reply(c, "gone")
      BY <1>1, <3>4, <3>5 DEF Reply, TypeOK
    <3>7. PICK v \in Found(c) :
            /\ Saved(calls[c].at, mem[calls[c].at] \ {v})
            /\ calls' = [calls EXCEPT ![c].pc = "rmdir", ![c].vol = v]
      BY <1>4, <3>4, <3>6 DEF PopRecord, NothingToDelete
    <3>8. v = pv[n]
      BY <1>1, <2>2, <3>1, <3>3, <3>7 DEF Saved, Found
    <3>9. At(c, "rmdir")' /\ calls'[c].vol = pv[n] /\ calls'[c].heard
      BY <3>5, <3>7, <3>8, CallFields DEF TypeOK, Call, At
    <3> QED BY <3>9 DEF Kept
  <2> QED BY <2>1, <2>2
<1>5. ASSUME NEW r \in Replicas, Crash(r) \/ Failover(r) PROVE Kept(n)'
  <2>1. pv[n] \in mem'[leader'] /\ pv' = pv
    BY <1>1, <1>5 DEF Crash, Failover, Forgotten, provisioner
  <2> QED BY <2>1 DEF Kept
<1>6. \/ leader' = leader /\ mem' = mem
      \/ \E c \in Calls : PutRecord(c) \/ PopRecord(c)
      \/ \E r \in Replicas : Crash(r) \/ Failover(r)
  BY DEF Next, vars, Ask, Release, Provisioner, RequestCreate, RequestDelete, Request, Handler,
         Configure, MakeDir, RemoveDir, Goto, Reply, Timeout, provisioner, records
<1> QED BY <1>2, <1>3, <1>4, <1>5, <1>6

LEMMA NextKept ==
  ASSUME CInv, UnheardInv, LeaderInv, KeptInv, [Next]_vars
  PROVE  KeptInv'
<1> USE DEF CInv, StepInv
<1> SUFFICES ASSUME NEW n \in Names \ lost', claim'[n] \in {"bound", "deleting"}
             PROVE  Kept(n)'
  BY DEF KeptInv
<1>1. CASE claim[n] \in {"bound", "deleting"} /\ pv'[n] = pv[n]
  <2>1. Kept(n)
    BY <1>1, LostStays DEF KeptInv
  <2>2. CASE pv[n] \in mem[leader]
    BY <1>1, <2>2, RecordStays
  <2>3. ASSUME NEW c \in Calls, calls[c].heard, At(c, "rmdir"), calls[c].vol = pv[n]
        PROVE  Kept(n)'
    <3>1. calls'[c] = calls[c]
      BY <1>1, <2>3, RemovingGoesOn
    <3> QED BY <1>1, <2>3, <3>1 DEF Kept, At
  <2> QED BY <2>1, <2>2, <2>3 DEF Kept
<1>2. ASSUME NEW c \in Calls, calls[c].heard, PutRecord(c), pv'[n] = calls[c].vol,
             Saved(calls[c].at, mem[calls[c].at] \cup {calls[c].vol})
      PROVE  Kept(n)'
  <2>1. calls[c].at = leader /\ leader \in Replicas /\ leader' = leader
    BY <1>2 DEF LeaderInv, PutRecord, Reply, TypeOK
  <2>2. pv'[n] \in mem'[leader]
    BY <1>2, <2>1 DEF Saved, TypeOK
  <2> QED BY <2>1, <2>2 DEF Kept
<1> QED BY <1>1, <1>2, ClaimSteps

\* A directory that is not there is made by the call of a creation, under way.
LEMMA OnlyCreationsMake ==
  ASSUME CInv, [Next]_vars, NEW p \in Paths, dirs[p] = "absent", dirs'[p] # "absent"
  PROVE  \E c \in Calls : At(c, "mkdir") /\ calls[c].vol.path = p
<1>1. PICK c \in Calls : MakeDir(c) \/ RemoveDir(c)
  BY DEF Next, vars, Ask, Release, Provisioner, RequestCreate, RequestDelete,
         Request, Handler, Configure, PutRecord, PopRecord, Timeout, Crash, Failover
<1>2. MakeDir(c) /\ p = calls[c].vol.path
  BY <1>1 DEF CInv, TypeOK, MakeDir, RemoveDir, Made
<1> QED BY <1>2 DEF MakeDir

LEMMA NextDeleted ==
  ASSUME CInv, RemovalInv, [Next]_vars
  PROVE  DeletedIsRemoved'
<1> USE DEF CInv, StepInv
<1> SUFFICES ASSUME NEW n \in Names, claim'[n] = "gone", n \notin lost', ~pv'[n].retain
             PROVE  dirs'[pv'[n].path] = "absent"
  BY DEF DeletedIsRemoved
<1>1. n \notin lost
  BY LostStays
<1>2. CASE claim[n] = "gone" /\ pv'[n] = pv[n]
  <2>1. dirs[pv[n].path] = "absent" /\ pv[n].path \in Paths
    BY <1>1, <1>2 DEF RemovalInv, DeletedIsRemoved, TypeOK, Volume
  <2>2. PICK root \in Roots : pv[n].path = Append(root, n)
    BY <1>2 DEF RemovalInv, OwnInv, Settled
  <2>3. ASSUME NEW c \in Calls, At(c, "mkdir"), calls[c].vol.path = pv[n].path PROVE FALSE
    <3>1. PICK other \in Roots : calls[c].vol.path = Append(other, Name(c))
      BY <2>3 DEF PlacedInv
    <3>2. Name(c) = n
      BY <2>2, <2>3, <3>1, CallFields, OwnDirectory
    <3>3. ~calls[c].heard
      BY <1>2, <3>2 DEF HeardInv
    <3> QED BY <1>1, <2>3, <3>2, <3>3 DEF RemovalInv, UnheardInv, At
  <2> QED BY <1>2, <2>1, <2>3, OnlyCreationsMake
<1>3. ASSUME NEW c \in Calls, calls[c].heard, Name(c) = n, PopRecord(c), Reply(c, "gone"),
             claim[n] = "deleting", pv'[n] = pv[n]
      PROVE  FALSE
  <2>1. At(c, "pop") /\ Deletes(c)
    BY <1>3 DEF PopRecord, At, Deletes
  <2>2. pv[n] \in mem[leader]
    <3>1. ASSUME NEW d \in Calls, calls[d].heard, At(d, "rmdir"), calls[d].vol = pv[n] PROVE FALSE
      <4>1. Name(d) = n
        BY <1>3, <3>1 DEF BoundInv, Settled, Name
      <4>2. d = c
        BY <1>3, <3>1, <4>1 DEF HeardInv
      <4> QED BY <2>1, <3>1, <4>2 DEF At
    <3> QED BY <1>1, <1>3, <3>1 DEF RemovalInv, KeptInv, Kept
  <2>3. pv[n].name = n /\ pv[n].try = calls[c].vol.try
    BY <1>3, <2>1 DEF BoundInv, Settled, DeletesInv
  <2>4. pv[n] \in Found(c)
    BY <1>3, <2>2, <2>3 DEF RemovalInv, LeaderInv, Found, SameId, Name
  <2>5. PICK v \in Found(c) : Retains(v) \/ calls'[c].pc = "rmdir"
    <3>1. \A v : ~(NotSaved(calls[c].at, mem[calls[c].at] \ {v}) /\ lost' = lost \cup {Name(c)})
      BY <1>3
    <3>2. PICK v \in Found(c) :
            IF Retains(v) THEN Reply(c, "gone")
            ELSE /\ calls' = [calls EXCEPT ![c].pc = "rmdir", ![c].vol = v]
                 /\ UNCHANGED provisioner
      BY <1>3, <2>4, <3>1 DEF PopRecord
    <3> QED BY <3>2, CallFields DEF TypeOK, Call
  <2>6. v = pv[n]
    <3>1. v \in Volume /\ Recorded(v)
      BY CallFields DEF Found, TypeOK, Recorded
    <3>2. SameId(v, pv[n]) /\ Settled(n)
      BY <1>3, <2>3 DEF Found, SameId, Name, Settled
    <3> QED BY <3>1, <3>2 DEF BoundInv
  <2>7. calls'[c].pc = "idle"
    BY <1>3, AnsweredIsIdle DEF At
  <2> QED BY <1>3, <2>5, <2>6, <2>7 DEF Retains
<1>4. ASSUME NEW c \in Calls, calls[c].heard, Name(c) = n, RemoveDir(c), pv'[n] = pv[n]
      PROVE  dirs'[pv'[n].path] = "absent"
  <2>1. calls[c].vol = pv[n]
    BY <1>4 DEF DeletesInv, RemoveDir, At, Deletes
  <2>2. dirs' = [dirs EXCEPT ![calls[c].vol.path] = IF @ = "absent" THEN @ ELSE "absent"]
    BY <1>4 DEF RemoveDir
  <2> QED BY <1>4, <2>1, <2>2, CallFields DEF TypeOK
<1> QED BY <1>2, <1>3, <1>4, ClaimSteps

LEMMA NextRemoval == CInv /\ RemovalInv /\ [Next]_vars => RemovalInv'
BY NextCalls, NextOwn, NextKept, NextDeleted DEF RemovalInv

\* When a claim is gone its directory is, unless it is retained or its record was
\* lost before the directory was removed.
THEOREM ControllerRemovesDeleted == Spec => []DeletedIsRemoved
<1>1. RemovalInv => DeletedIsRemoved
  BY DEF RemovalInv
<1> QED BY <1>1, InitRemoval, NextRemoval, ControllerInvariant, PTL DEF Spec
----------------------------------------------------------------------------
(* Where directories are made.                                             *)

\* The whitelist is compared name by name, and a name that begins with two dots
\* is taken for a way up: no root and no volume has one.
Undotted ==
  /\ \A root \in Roots : \A i \in DOMAIN root : root[i] \notin Dotted
  /\ Names \cap Dotted = {}

\* The creation a decision was made for.
DecidedFor(entry, c) ==
  /\ entry[1] = <<site, class[Name(c)], Name(c)>>
  /\ ~entry[2].refused /\ entry[2].mkdir /\ entry[2].path = calls[c].vol.path
MakesInv == \A c \in Calls : At(c, "mkdir") => \E entry \in Decides : DecidedFor(entry, c)

\* A source that gives a key has a value for it, and there is always one to take.
LEMMA FirstOfTakes ==
  ASSUME NEW sources, NEW key, NEW none
  PROVE  /\ FirstOf(sources, key, none) # {}
         /\ Given(sources.driver, key) # {} => FirstOf(sources, key, none) = Given(sources.driver, key)
BY DEF FirstOf

\* What the driver's secrets say of the whitelist is what counts.
LEMMA DriverWhitelist ==
  ASSUME NEW d \in DOMAIN DriverSecrets, NEW s \in DOMAIN Classes,
         NEW configs \in MergeConfig(Sources(d, s))
  PROVE  \/ Whitelist(configs) \subseteq OwnWhitelist(d)
         \/ <<"/">> \in OwnWhitelist(d)
<1> DEFINE key == "mountpathwhitelist"
           own == [driver |-> DriverSecrets[d], params |-> <<>>, secrets |-> <<>>]
           some(k) == CHOOSE value : value \in FirstOf(own, k, "")
           someNames(k) == CHOOSE value : value \in FirstOf(own, k, <<>>)
           like(whitelist) ==
             [client |-> some("client"), volumerootpath |-> someNames("volumerootpath"),
              retaindata |-> some("retaindata"), novolumedir |-> some("novolumedir"),
              path |-> someNames("path"), pathmappings |-> someNames("pathmappings"),
              user |-> some("user"), username |-> some("username"),
              clientuser |-> some("clientuser"), password |-> some("password"),
              host |-> some("host"), enforceproxyaccess |-> some("enforceproxyaccess"),
              mountpathwhitelist |-> whitelist]
<1>1. ASSUME NEW whitelist \in FirstOf(own, key, <<>>)
      PROVE  like(whitelist) \in MergeConfig(own) /\ like(whitelist).mountpathwhitelist = whitelist
  <2>1. \A k : some(k) \in FirstOf(own, k, "") /\ someNames(k) \in FirstOf(own, k, <<>>)
    BY FirstOfTakes
  <2> HIDE DEF some, someNames, own
  <2> QED BY <1>1, <2>1 DEF MergeConfig
<1> HIDE DEF like
<1>2. ASSUME NEW whitelist \in FirstOf(own, key, <<>>)
      PROVE  Whitelist(like(whitelist)) \subseteq OwnWhitelist(d)
  BY <1>1, <1>2 DEF OwnWhitelist
<1>3. configs.mountpathwhitelist \in FirstOf(Sources(d, s), key, <<>>)
  BY DEF MergeConfig
<1>4. own.driver = DriverSecrets[d] /\ Sources(d, s).driver = DriverSecrets[d]
  BY DEF Sources
<1>5. CASE Given(DriverSecrets[d], key) # {}
  <2>1. configs.mountpathwhitelist \in FirstOf(own, key, <<>>)
    BY <1>3, <1>4, <1>5, FirstOfTakes
  <2>2. Whitelist(like(configs.mountpathwhitelist)) = Whitelist(configs)
    BY <1>1, <2>1 DEF Whitelist
  <2> QED BY <1>2, <2>1, <2>2
<1>6. CASE Given(DriverSecrets[d], key) = {}
  <2>1. <<>> \in FirstOf(own, key, <<>>)
    <3>1. Given(<<>>, key) = {}
      BY DEF Given
    <3> QED BY <1>4, <1>6, <3>1 DEF FirstOf
  <2>2. Whitelist(like(<<>>)) = {<<"/">>}
    BY <1>1, <2>1 DEF Whitelist
  <2> QED BY <1>2, <2>1, <2>2
<1> QED BY <1>5, <1>6

\* The root of the collections is above every directory that is made.
LEMMA RootAllows ==
  ASSUME Undotted, NEW root \in Roots, NEW n \in Names, IsAbs(root)
  PROVE  IsSubDir(<<"/">>, Append(root, n))
<1> DEFINE path == Append(root, n)
<1>1. root \in Seq(STRING) /\ n \in STRING /\ Len(root) >= 1 /\ root[1] = "/" /\ n \notin Dotted
  BY RootsAssumption, NamesAssumption DEF Undotted, IsAbs
<1>2. /\ path \in Seq(STRING) /\ Len(path) = Len(root) + 1 /\ path[Len(root) + 1] = n
      /\ \A i \in 1 .. Len(root) : path[i] = root[i]
  BY <1>1, AppendProperties
<1>3. path[2] \notin Dotted
  <2>1. CASE Len(root) = 1
    BY <1>1, <1>2, <2>1
  <2>2. CASE Len(root) # 1
    BY <1>1, <1>2, <2>2 DEF Undotted
  <2> QED BY <2>1, <2>2
<1> HIDE DEF path
<1>4. SubSeq(path, 1, 1) = <<"/">>
  <2>1. path[1] = "/"
    BY <1>1, <1>2
  <2>2. \A i \in 1 .. 1 : path[i] \in STRING
    BY <1>1, <1>2
  <2> DEFINE first == SubSeq(path, 1, 1)
  <2>3. first \in Seq(STRING) /\ Len(first) = 1 /\ first[1] = path[1]
    <3>1. /\ first \in Seq(STRING)
          /\ Len(first) = IF 1 <= 1 THEN 1 - 1 + 1 ELSE 0
          /\ \A i \in 1 .. 1 - 1 + 1 : first[i] = path[1 + i - 1]
      BY <2>2, SubSeqProperties
    <3> HIDE DEF first
    <3> QED BY <3>1
  <2> HIDE DEF first
  <2>4. <<"/">> \in Seq(STRING) /\ Len(<<"/">>) = 1 /\ <<"/">>[1] = "/"
    <3>1. "/" \in STRING
      BY <1>1, <1>2, <2>1
    <3> QED BY <3>1
  <2>5. first = <<"/">>
    BY <2>1, <2>3, <2>4, SeqEqual
  <2> QED BY <2>5 DEF first
<1> QED BY <1>1, <1>2, <1>3, <1>4 DEF IsSubDir, path

\* A directory that is to be made is where the driver's own whitelist allows it.
LEMMA DecidedAllowed ==
  ASSUME Undotted, NEW entry \in Decides, ~entry[2].refused, entry[2].mkdir,
         <<entry[1][1], entry[1][2]>> \in NoMappings
  PROVE  IsMountPathAllowed(OwnWhitelist(entry[1][1]), entry[2].path)
<1>1. PICK d \in DOMAIN DriverSecrets, s \in DOMAIN Classes, n \in Names :
        entry \in {<<d, s, n>>} \X Decisions(Sources(d, s), n)
  BY DEF Decides
<1>2. entry[1][1] = d /\ entry[1][2] = s /\ entry[2] \in Decisions(Sources(d, s), n)
  BY <1>1
<1>3. PICK configs \in MergeConfig(Sources(d, s)) :
        entry[2] \in IF GetClientType(configs) # "irodsfuse" \/ InvalidControllerConfig(configs)
         THEN {Refusal}
         ELSE {Decision(n, configs, info) : info \in
                 ConnectionInfos([configs EXCEPT !.path = ControllerConfig(n, configs).path])}
  BY <1>2 DEF Decisions
<1>4. entry[2] # Refusal
  BY DEF Refusal
<1> DEFINE path == ControllerConfig(n, configs).path
           placed == [configs EXCEPT !.path = path]
<1>5. PICK info \in ConnectionInfos(placed) : entry[2] = Decision(n, configs, info)
  BY <1>3, <1>4
<1>6. ~Refused(placed, info) /\ entry[2].path = path /\ ControllerConfig(n, configs).mkdir
  BY <1>4, <1>5 DEF Decision
<1>7. configs.pathmappings = <<>>
  BY <1>2, <1>3 DEF NoMappings
<1>8. /\ placed.path = path /\ placed.pathmappings = <<>>
      /\ Whitelist(placed) = Whitelist(configs)
  BY <1>7 DEF MergeConfig, Whitelist
<1>9. info.path \in {path, <<>>}
  BY <1>8 DEF ConnectionInfos
<1>10. info.path = path /\ IsMountPathAllowed(Whitelist(configs), path)
  BY <1>6, <1>8, <1>9 DEF Refused
<1>11. configs.volumerootpath \in Roots /\ IsAbs(configs.volumerootpath)
       /\ path = Append(configs.volumerootpath, n)
  <2>1. IsAbs(configs.volumerootpath)
    BY <1>3, <1>4 DEF InvalidControllerConfig
  <2>2. configs.volumerootpath \in Roots \cup {<<>>}
    BY <1>3, RootsAssumption DEF AllSources
  <2>3. ~IsAbs(<<>>)
    BY DEF IsAbs
  <2>4. path = Append(configs.volumerootpath, n)
    BY <1>6 DEF ControllerConfig
  <2> QED BY <2>1, <2>2, <2>3, <2>4
<1>12. IsSubDir(<<"/">>, path)
  BY <1>11, RootAllows
<1>13. Whitelist(configs) \subseteq OwnWhitelist(d) \/ <<"/">> \in OwnWhitelist(d)
  BY DriverWhitelist
<1> QED BY <1>2, <1>6, <1>10, <1>12, <1>13 DEF IsMountPathAllowed

\* A call that is about to make a directory was, or its handler has just decided to.
LEMMA AboutToMake ==
  ASSUME CInv, [Next]_vars, NEW c \in Calls, At(c, "mkdir")'
  PROVE  \/ At(c, "mkdir") /\ calls'[c].vol = calls[c].vol
         \/ \E entry \in Decides :
              /\ entry[1] = <<site, class[Name(c)], Name(c)>>
              /\ ~entry[2].refused /\ entry[2].mkdir
              /\ calls'[c].vol.path = entry[2].path /\ Name(c)' = Name(c)
<1> USE DEF CInv, StepInv
<1>1. CASE calls'[c] = calls[c]
  BY <1>1 DEF At
<1>2. ASSUME NEW d \in Calls, NEW n \in Names, RequestCreate(d, n) \/ RequestDelete(d, n)
      PROVE  calls'[c] = calls[c]
  <2>1. PICK pc, vol : pc # "mkdir" /\ Request(d, n, pc, vol)
    BY <1>2 DEF RequestCreate, RequestDelete
  <2>2. d # c
    BY <2>1 DEF Request, At, TypeOK
  <2> QED BY <2>1, <2>2 DEF Request, TypeOK
<1>3. ASSUME NEW d \in Calls, Handler(d), calls'[c] # calls[c]
      PROVE  \E entry \in Decides :
               /\ entry[1] = <<site, class[Name(c)], Name(c)>>
               /\ ~entry[2].refused /\ entry[2].mkdir
               /\ calls'[c].vol.path = entry[2].path /\ Name(c)' = Name(c)
  <2>1. ASSUME NEW state, Reply(d, state) PROVE FALSE
    BY <1>3, <2>1, AnsweredIsIdle DEF At
  <2>2. ~PutRecord(d) /\ ~RemoveDir(d)
    BY <2>1 DEF PutRecord, RemoveDir
  <2>3. ~PopRecord(d)
    <3>1. ASSUME NEW v, calls' = [calls EXCEPT ![d].pc = "rmdir", ![d].vol = v] PROVE FALSE
      BY <1>3, <3>1 DEF At, TypeOK, Call
    <3> QED BY <2>1, <3>1 DEF PopRecord, NothingToDelete
  <2>4. ~MakeDir(d)
    <3>1. ~Goto(d, "put")
      BY <1>3, CallFields DEF Goto, TypeOK, Call, At
    <3> QED BY <2>1, <3>1 DEF MakeDir
  <2>5. PICK entry \in Decides :
          /\ entry[1] = <<site, class[Name(d)], Name(d)>> /\ ~entry[2].refused
          /\ calls' = [calls EXCEPT ![d] = Decided(calls[d], entry[2])]
    BY <1>3, <2>1, <2>2, <2>3, <2>4 DEF Handler, Configure
  <2>6. d = c /\ calls'[c] = Decided(calls[c], entry[2])
    BY <1>3, <2>5 DEF TypeOK
  <2>7. /\ calls'[c].pc = (IF entry[2].mkdir THEN "mkdir" ELSE "put")
        /\ calls'[c].vol = [calls[c].vol EXCEPT !.path = entry[2].path, !.retain = entry[2].retain]
    BY <2>6, CallFields DEF Decided, Call
  <2>8. calls'[c].vol.path = entry[2].path /\ Name(c)' = Name(c)
    BY <2>7, CallFields DEF Volume, Name
  <2>9. entry[2].mkdir
    BY <2>7 DEF At
  <2> QED BY <2>5, <2>6, <2>8, <2>9
<1>4. ASSUME (\E d \in Calls : Timeout(d)) \/ (\E r \in Replicas : Crash(r) \/ Failover(r))
      PROVE  At(c, "mkdir") /\ calls'[c].vol = calls[c].vol
  <2>1. calls'[c] \in {calls[c], [calls[c] EXCEPT !.heard = FALSE]}
    BY <1>4, FaultCalls, IdleFields DEF At
  <2>2. LET quiet == [calls[c] EXCEPT !.heard = FALSE]
        IN quiet.pc = calls[c].pc /\ quiet.vol = calls[c].vol
    BY CallFields DEF Call
  <2> QED BY <2>1, <2>2 DEF At
<1>5. CASE UNCHANGED calls
  BY <1>1, <1>5
<1>6. CASE Provisioner
  BY <1>1, <1>2, <1>6 DEF Provisioner
<1>7. CASE \E d \in Calls : Handler(d)
  BY <1>1, <1>3, <1>7
<1> QED BY <1>4, <1>5, <1>6, <1>7 DEF Next, vars, Ask, Release

\* The installation and the classes of the claims do not change.
LEMMA SettingsStay ==
  ASSUME [Next]_vars
  PROVE  site' = site /\ class' = class
BY DEF Next, vars, settings, Ask, Release, Provisioner, RequestCreate, RequestDelete, Request,
       Handler, Configure, MakeDir, PutRecord, PopRecord, RemoveDir, Timeout, Crash, Failover

LEMMA NextMakes ==
  ASSUME CInv, MakesInv, [Next]_vars
  PROVE  MakesInv'
<1> SUFFICES ASSUME NEW c \in Calls, At(c, "mkdir")'
             PROVE  \E entry \in Decides : DecidedFor(entry, c)'
  BY DEF MakesInv
<1>1. CASE At(c, "mkdir") /\ calls'[c].vol = calls[c].vol
  <2>1. PICK entry \in Decides : DecidedFor(entry, c)
    BY <1>1 DEF MakesInv
  <2>2. DecidedFor(entry, c)'
    BY <1>1, <2>1, SettingsStay DEF DecidedFor, Name
  <2> QED BY <2>2
<1>2. ASSUME NEW entry \in Decides, entry[1] = <<site, class[Name(c)], Name(c)>>,
             ~entry[2].refused, entry[2].mkdir,
             calls'[c].vol.path = entry[2].path, Name(c)' = Name(c)
      PROVE  DecidedFor(entry, c)'
  BY <1>2, SettingsStay DEF DecidedFor
<1> QED BY <1>1, <1>2, AboutToMake

LEMMA NextMade ==
  ASSUME Undotted, CInv, MakesInv, MadeInWhitelist, [Next]_vars
  PROVE  MadeInWhitelist'
<1> USE DEF CInv, StepInv
<1> SUFFICES ASSUME NEW n \in Names, NEW root \in Roots, dirs'[Append(root, n)] # "absent",
                    <<site, class[n]>> \in NoMappings
             PROVE  <<site, Append(root, n)>> \in Allowed
  BY SettingsStay DEF MadeInWhitelist
<1>1. Append(root, n) \in Paths
  BY OwnDirectory
<1>2. CASE dirs[Append(root, n)] # "absent"
  BY <1>2 DEF MadeInWhitelist
<1>3. CASE dirs[Append(root, n)] = "absent"
  <2>1. PICK c \in Calls : At(c, "mkdir") /\ calls[c].vol.path = Append(root, n)
    BY <1>1, <1>3, OnlyCreationsMake
  <2>2. PICK entry \in Decides : DecidedFor(entry, c)
    BY <2>1 DEF MakesInv
  <2>3. PICK other \in Roots : calls[c].vol.path = Append(other, Name(c))
    BY <2>1 DEF PlacedInv
  <2>4. Name(c) = n
    BY <2>1, <2>3, CallFields, OwnDirectory
  <2>5. entry[1][1] = site /\ entry[1][2] = class[n] /\ entry[2].path = Append(root, n)
    BY <2>1, <2>2, <2>4 DEF DecidedFor
  <2>6. IsMountPathAllowed(OwnWhitelist(site), Append(root, n))
    BY <2>2, <2>5, DecidedAllowed DEF DecidedFor
  <2> QED BY <1>1, <2>6 DEF Allowed, TypeOK
<1> QED BY <1>2, <1>3

\* The directories of volumes are made in the collections the whitelist in the
\* driver's secrets allows, whatever whitelist, root or client user a storage
\* class brings, and however many calls, restarts and failures there are.
THEOREM ControllerMakesInWhitelist ==
  ASSUME Undotted
  PROVE  Spec => []MadeInWhitelist
<1>1. Init => MakesInv /\ MadeInWhitelist
  <2>1. Init => MakesInv
    BY IdleFields DEF Init, MakesInv, At
  <2>2. Init => MadeInWhitelist
    BY OwnDirectory DEF Init, MadeInWhitelist
  <2> QED BY <2>1, <2>2
<1>2. CInv /\ MakesInv /\ MadeInWhitelist /\ [Next]_vars => MakesInv' /\ MadeInWhitelist'
  BY NextMakes, NextMade
<1> QED BY <1>1, <1>2, ControllerInvariant, PTL DEF Spec
----------------------------------------------------------------------------
(* What a node stages. *)

\* The path in the context of a volume decides what a node mounts, wherever
\* PathDecided says that nothing goes before it or beside it.
LEMMA PathDecides ==
  ASSUME NEW d \in DOMAIN DriverSecrets, NEW s \in DOMAIN Classes, NEW path \in Paths,
         PathDecided(d, s, path)
  PROVE  <<d, s, path>> \in Staged
<1> SUFFICES ASSUME NEW configs \in MergeConfig(NodeSources(d, s, path)),
                    NEW info \in ConnectionInfos(configs)
             PROVE  info.path = path
  BY DEF Staged
<1>1. /\ NodeSources(d, s, path).driver = DriverSecrets[d]
      /\ NodeSources(d, s, path).params = Context(s, path)
  BY DEF NodeSources
<1>2. FirstOf(NodeSources(d, s, path), "path", <<>>) = {path}
  BY <1>1 DEF FirstOf, PathDecided
<1>3. configs.path = path /\ configs.pathmappings = <<>>
  BY <1>2 DEF MergeConfig, PathDecided
<1>4. path # <<>>
  BY DEF PathDecided, Given
<1> QED BY <1>3, <1>4 DEF ConnectionInfos

\* The node that stages a bound volume mounts the directory CreateVolume gave it,
\* unless the driver's secrets or another key of the context decide the path.
THEOREM ControllerStagesAsCreated == Spec => []StagedAsCreated
<1>1. TypeOK => StagedAsCreated
  BY PathDecides DEF TypeOK, StagedAsCreated, Volume
<1> QED BY <1>1, ControllerTypeCorrect, PTL
=============================================================================
