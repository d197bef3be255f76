--------------------------- MODULE MCNodeService ---------------------------
(* Small instances of NodeService for TLC: which volumes there are and what *)
(* mounts them.  The configurations choose the pods, calls and hazards.     *)
EXTENDS NodeService, TLC

CONSTANTS dyn, stat    \* a dynamic and a static volume

JustDynamic == {dyn}
JustStatic == {stat}
BothVolumes == {dyn, stat}

DynamicOverlay == dyn :> "overlay"
StaticIrodsfs == stat :> "irodsfs"
StaticOverlay == stat :> "overlay"
OverlayAndNfs == dyn :> "overlay" @@ stat :> "nfs"
IrodsfsAndWebdav == dyn :> "irodsfs" @@ stat :> "webdav"

\* The gauge drifts without bound once a record is lost, and nothing reads it:
\* runs that do not check it identify states that differ only in it.
AllButGauge == <<calls, view, mnt, mem, disk, root, upper, irods, toSync, toDelete, nfaults>>

Interchangeable == Permutations(Pods) \cup Permutations(Calls)
=============================================================================
