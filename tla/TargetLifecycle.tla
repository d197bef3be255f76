-------------------------- MODULE TargetLifecycle --------------------------
(***************************************************************************)
(* What the node service promises kubelet of each target path: a target is *)
(* mounted or unmounted only while a request for it is outstanding, and a  *)
(* request is confirmed only when the target is in the state asked for.    *)
(* NodeService implements this when no call outlives kubelet's patience.   *)
(***************************************************************************)
CONSTANT Targets

VARIABLES
  view,     \* what kubelet knows of a target: "no", "maybe" or "yes"
  mounted   \* is something mounted on it?

vars == <<view, mounted>>

Init ==
  /\ view = [t \in Targets |-> "no"]
  /\ mounted = [t \in Targets |-> FALSE]

\* kubelet asks for a change of a target
Request(t) ==
  /\ view' = [view EXCEPT ![t] = "maybe"]
  /\ UNCHANGED mounted

\* the service changes it or not, and confirms or not
Confirmed(t) == IF mounted'[t] THEN "yes" ELSE "no"
Work(t) ==
  /\ view[t] = "maybe"
  /\ \E b \in BOOLEAN : mounted' = [mounted EXCEPT ![t] = b]
  /\ view' \in {view, [view EXCEPT ![t] = Confirmed(t)]}

Next == \E t \in Targets : Request(t) \/ Work(t)

Spec == Init /\ [][Next]_vars
=============================================================================
