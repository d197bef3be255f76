---------------------------- MODULE BarrierQueue ----------------------------
(***************************************************************************)
(* What the overlay syncher needs of its job manager: tasks start in the   *)
(* order they were posted, at most MaxThreads of them at a time, a barrier *)
(* starts only when nothing runs, and after a failure the rest is dropped. *)
(* When it has lost count of what runs, the order and the failure are all  *)
(* that it still heeds.                                                    *)
(***************************************************************************)
EXTENDS Naturals, Sequences, FiniteSets

CONSTANTS MaxJobs, MaxThreads

VARIABLES
  posted,      \* the kinds of the jobs, in the order they were posted
  state,       \* what became of each job
  failed,      \* did a task fail?
  miscounted  \* does the queue take fewer jobs to run than do?

vars == <<posted, state, failed, miscounted>>

Running == {j \in 1 .. MaxJobs : state[j] = "running"}
Next1 == {j \in 1 .. Len(posted) :
            state[j] = "waiting" /\ \A i \in 1 .. j - 1 : state[i] # "waiting"}

Init ==
  /\ posted = <<>>
  /\ state = [j \in 1 .. MaxJobs |-> "waiting"]
  /\ failed = FALSE
  /\ miscounted = FALSE

Post == \E kind \in {"task", "barrier"} :
  /\ Len(posted) < MaxJobs /\ posted' = Append(posted, kind)
  /\ UNCHANGED <<state, failed, miscounted>>

Fits(j) ==
  /\ Cardinality(Running) < MaxThreads
  /\ posted[j] = "barrier" => Running = {}

Begin(j) ==
  /\ j \in Next1
  /\ miscounted \/ Fits(j)
  /\ state' = [state EXCEPT ![j] = "running"]
  /\ UNCHANGED <<posted, failed, miscounted>>

Finish(j) ==
  /\ state[j] = "running"
  /\ state' = [state EXCEPT ![j] = "finished"]
  /\ UNCHANGED <<posted, failed, miscounted>>

Fail == ~failed /\ failed' = TRUE /\ UNCHANGED <<posted, state, miscounted>>

Miscount == miscounted' = TRUE /\ UNCHANGED <<posted, state, failed>>

Drop(j) ==
  /\ failed /\ j \in Next1
  /\ state' = [state EXCEPT ![j] = "dropped"]
  /\ UNCHANGED <<posted, failed, miscounted>>

Next == Post \/ Fail \/ Miscount \/ \E j \in 1 .. MaxJobs : Begin(j) \/ Finish(j) \/ Drop(j)

Spec == Init /\ [][Next]_vars
=============================================================================
