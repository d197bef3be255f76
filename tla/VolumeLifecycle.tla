-------------------------- MODULE VolumeLifecycle --------------------------
(***************************************************************************)
(* What the users of the controller rely on: a claim is bound to a         *)
(* directory that is there, keeps it with all that it holds until the      *)
(* claim is deleted, and the collections that are nobody's volume stay.    *)
(***************************************************************************)
EXTENDS Sequences

CONSTANTS Names, Roots

VolumeDirs == {Append(root, n) : root \in Roots, n \in Names}

VARIABLES
  claim,   \* the state of each claim
  path,    \* the collection it is bound to
  dirs     \* the collections: "absent", "whole", or "part" of what it held

vars == <<claim, path, dirs>>

Init ==
  /\ claim = [n \in Names |-> "none"]
  /\ path \in [Names -> Roots]
  /\ dirs = [p \in Roots \cup VolumeDirs |-> IF p \in Roots THEN "whole" ELSE "absent"]

Enter(n, from, to) == claim[n] \in from /\ claim' = [claim EXCEPT ![n] = to]

Ask(n) == Enter(n, {"none"}, "creating") /\ UNCHANGED <<path, dirs>>
Refuse(n) == Enter(n, {"creating", "refused"}, "refused") /\ UNCHANGED <<path, dirs>>
Bind(n) ==
  /\ Enter(n, {"creating", "refused"}, "bound")
  /\ path' = [path EXCEPT ![n] = path'[n]]
  /\ dirs[path'[n]] = "whole"
  /\ UNCHANGED dirs
Release(n) == Enter(n, {"bound"}, "deleting") /\ UNCHANGED <<path, dirs>>
Finish(n) == Enter(n, {"deleting"}, "gone") /\ UNCHANGED path

\* A directory is made for a claim, perhaps by a call that comes late; the
\* directory of a deleted claim is removed, at once or piece by piece.
Make(n) ==
  /\ claim[n] # "none"
  /\ \E root \in Roots :
       /\ dirs[Append(root, n)] = "absent"
       /\ dirs' = [dirs EXCEPT ![Append(root, n)] = "whole"]
  /\ UNCHANGED <<claim, path>>
Removed(n, what) == path[n] \in VolumeDirs /\ dirs' = [dirs EXCEPT ![path[n]] = what]
Remove(n) ==
  \E what \in {"absent", "part"} :
    /\ claim[n] \in {"deleting", "gone"} /\ Removed(n, what)
    /\ UNCHANGED <<claim, path>>
RemoveLast(n) == Finish(n) /\ (Removed(n, "absent") \/ UNCHANGED dirs)

Next == \E n \in Names :
  Ask(n) \/ Refuse(n) \/ Bind(n) \/ Release(n) \/ Make(n) \/ Remove(n) \/ RemoveLast(n)

Spec == Init /\ [][Next]_vars
=============================================================================
