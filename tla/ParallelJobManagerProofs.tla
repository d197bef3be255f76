---------------------- MODULE ParallelJobManagerProofs ----------------------
(***************************************************************************)
(* Theorems about ParallelJobManager for every number of jobs and threads  *)
(* and every capacity of the channel.  What Wait promises rests on the     *)
(* wait group alone.  The order of barriers, the limit on threads and the  *)
(* refinement of BarrierQueue rest on currentThreads being no less than    *)
(* the number of jobs between their start and their release: every step    *)
(* keeps it so but the store of a release that overwrites a start.         *)
(***************************************************************************)
EXTENDS ParallelJobManager, FiniteSetTheorems, TLAPS

\* A store leaves the counter, what is loaded and what is lost well typed.
LEMMA StoreType ==
  ASSUME TypeOK, NEW t \in Jobs \cup {Dispatcher}, NEW n \in Int, Store(t, n)
  PROVE  /\ currentThreads' \in Int /\ loaded' \in [Jobs \cup {Dispatcher} -> Int]
         /\ lost' \subseteq {"start", "release"}
<1>1. loaded[t] \in Int
  BY DEF TypeOK
<1>2. Overwritten(t) \subseteq {"start", "release"}
  BY DEF Overwritten
<1>3. currentThreads' \in Int
  BY <1>1 DEF Store
<1>4. loaded' \in [Jobs \cup {Dispatcher} -> Int]
  BY DEF Store, TypeOK
<1>5. lost' \subseteq {"start", "release"}
  BY <1>2 DEF Store, TypeOK
<1> QED
  BY <1>3, <1>4, <1>5

\* Every reachable state of the job manager is well typed.
THEOREM TypeCorrect == Spec => []TypeOK
<1> USE ConstantsAssumption DEF ConstantsAssumption
<1>1. Init => TypeOK
  <2> SUFFICES ASSUME Init PROVE TypeOK
    OBVIOUS
  <2>1. jobs \in Seq({"task", "barrier"}) /\ Len(jobs) = 0
    BY DEF Init
  <2>2. loaded \in [Jobs \cup {Dispatcher} -> Int]
    BY DEF Init
  <2>3. worker \in [Jobs -> WorkerPCs]
    BY DEF Init, WorkerPCs
  <2>4. sent \in Nat /\ received \in 0 .. sent /\ jobWait \in Int /\ currentThreads \in Int
    BY DEF Init
  <2>5. scheduler = "walk" /\ dispatcher = "receive" /\ sent = 0
    BY DEF Init
  <2>6. closed \in BOOLEAN /\ lastError \in BOOLEAN /\ panicked \in BOOLEAN /\ lost = {}
    BY DEF Init
  <2> QED
    BY <2>1, <2>2, <2>3, <2>4, <2>5, <2>6 DEF TypeOK
<1>2. TypeOK /\ [Next]_vars => TypeOK'
  <2> SUFFICES ASSUME TypeOK, [Next]_vars PROVE TypeOK'
    OBVIOUS
  <2> USE DEF TypeOK, counter
  <2>1. ASSUME NEW kind \in {"task", "barrier"}, Schedule(kind) PROVE TypeOK'
    BY <2>1 DEF Schedule
  <2>2. CASE Send
    BY <2>2 DEF Send
  <2>3. CASE AddJob
    BY <2>3 DEF AddJob
  <2>4. CASE DoneScheduling
    BY <2>4 DEF DoneScheduling
  <2>5. CASE Wait
    BY <2>5 DEF Wait
  <2>6. CASE Receive
    BY <2>6 DEF Receive
  <2>7. CASE Check
    BY <2>7 DEF Check
  <2>8. CASE Skip
    BY <2>8 DEF Skip, Done
  <2>9. CASE Sleep
    BY <2>9 DEF Sleep
  <2>10. CASE Admit
    BY <2>10 DEF Admit
  <2>11. CASE LoadStart
    <3>1. loaded' \in [Jobs \cup {Dispatcher} -> Int]
      BY <2>11 DEF LoadStart, Load
    <3>2. UNCHANGED <<jobs, sent, received, closed, jobWait, lastError, currentThreads, lost,
                      scheduler, worker, panicked>> /\ dispatcher' = "store"
      BY <2>11 DEF LoadStart, Load
    <3> QED
      BY <3>1, <3>2
  <2>12. CASE StartJob
    <3>1. worker' \in [Jobs -> WorkerPCs]
      BY <2>12 DEF StartJob, Run, WorkerPCs
    <3>2. currentThreads' \in Int /\ loaded' \in [Jobs \cup {Dispatcher} -> Int]
          /\ lost' \subseteq {"start", "release"}
      <4>1. Store(Dispatcher, 1) /\ Dispatcher \in Jobs \cup {Dispatcher} /\ 1 \in Int
        BY <2>12 DEF StartJob
      <4> QED
        BY <4>1, StoreType
    <3>3. UNCHANGED <<jobs, sent, received, closed, jobWait, lastError, scheduler, panicked>>
          /\ dispatcher' = "receive"
      BY <2>12 DEF StartJob
    <3> QED
      BY <3>1, <3>2, <3>3
  <2>13. CASE Exit
    BY <2>13 DEF Exit
  <2>14. ASSUME NEW j \in Jobs, Worker(j) PROVE TypeOK'
    <3>1. CASE EndTask(j)
      BY <3>1 DEF EndTask, WorkerPCs
    <3>2. CASE MarkError(j)
      BY <3>2 DEF MarkError, WorkerPCs
    <3>3. CASE LoadRelease(j)
      <4>1. worker' \in [Jobs -> WorkerPCs]
        BY <3>3 DEF LoadRelease, WorkerPCs
      <4>2. loaded' \in [Jobs \cup {Dispatcher} -> Int]
        BY <3>3 DEF LoadRelease, Load
      <4>3. UNCHANGED <<jobs, sent, received, closed, jobWait, lastError, currentThreads,
                        lost, scheduler, dispatcher, panicked>>
        BY <3>3 DEF LoadRelease, Load
      <4> QED
        BY <4>1, <4>2, <4>3
    <3>4. CASE Release(j)
      <4>1. worker' \in [Jobs -> WorkerPCs]
        BY <3>4 DEF Release, WorkerPCs
      <4>2. currentThreads' \in Int /\ loaded' \in [Jobs \cup {Dispatcher} -> Int]
            /\ lost' \subseteq {"start", "release"}
        BY <3>4, StoreType DEF Release
      <4>3. UNCHANGED <<jobs, sent, received, closed, jobWait, lastError, scheduler,
                        dispatcher, panicked>>
        BY <3>4 DEF Release
      <4> QED
        BY <4>1, <4>2, <4>3
    <3>5. CASE JobDone(j)
      BY <3>5 DEF JobDone, Done, WorkerPCs
    <3>6. CASE Broadcast(j)
      BY <3>6 DEF Broadcast, Woken, WorkerPCs
    <3> QED
      BY <2>14, <3>1, <3>2, <3>3, <3>4, <3>5, <3>6 DEF Worker
  <2>15. CASE UNCHANGED vars
    BY <2>15 DEF vars
  <2> QED
    BY <2>1, <2>2, <2>3, <2>4, <2>5, <2>6, <2>7, <2>8, <2>9, <2>10, <2>11, <2>12,
       <2>13, <2>14, <2>15 DEF Next, Scheduler, Dispatch
<1> QED
  BY <1>1, <1>2, PTL DEF Spec
----------------------------------------------------------------------------
(* The inductive invariant: what currentThreads is worth. *)

\* the jobs that run or have not stored their release yet
Busy == {j \in Jobs : worker[j] \in {"run", "error", "release", "store"}}

\* where the dispatcher is while it has a job in hand
AtWork == {"check", "skip", "admit", "asleep", "load", "store"}

\* No start lost, the counter is at least the number of busy jobs, and so is what
\* the dispatcher has loaded of it; the job it has let in fits.
Counted ==
  CountKept =>
    /\ Cardinality(Busy) <= currentThreads
    /\ Cardinality(Busy) <= MaxThreads
    /\ dispatcher = "store" => Cardinality(Busy) <= loaded[Dispatcher]
    /\ Locked =>
         /\ Cardinality(Busy) < MaxThreads
         /\ jobs[received] = "barrier" => Busy = {}
InOrder ==
  /\ dispatcher \in AtWork => received >= 1
  /\ \A j \in Jobs : Started(j) =>
       /\ j <= received
       /\ j = received => dispatcher \notin AtWork
       /\ \A i \in Jobs : i < j => Started(i)
Skipped ==
  /\ dispatcher = "skip" => lastError
  /\ \A i \in Jobs : ~Started(i) =>
       /\ i < received => lastError /\ dispatcher \notin {"admit", "asleep", "load", "store"}
       /\ i = received /\ dispatcher \notin AtWork => lastError
Separated ==
  CountKept =>
    \A i, b \in Jobs : i < b /\ Started(b) /\ jobs[b] = "barrier" => i \notin Busy

OrderInv == Counted /\ InOrder /\ Skipped /\ Separated

\* Jobs is finite, and so is every set of them.
LEMMA BusyFinite == IsFiniteSet(Busy) /\ Cardinality(Busy) \in Nat
<1>1. IsFiniteSet(Jobs)
  BY FS_Interval, ConstantsAssumption DEF Jobs, ConstantsAssumption
<1>2. Busy \subseteq Jobs
  BY DEF Busy
<1>3. IsFiniteSet(Busy)
  BY <1>1, <1>2, FS_Subset
<1> QED
  BY <1>3, FS_CardinalityType

\* A release takes one job out of Busy, and no more than one off the counter
\* unless it overwrites a start.
LEMMA ReleaseCounted ==
  ASSUME TypeOK, Counted, NEW j \in Jobs, Release(j)
  PROVE  Counted'
<1> SUFFICES ASSUME CountKept' PROVE Counted'
  BY DEF Counted
<1>1. Busy' = Busy \ {j} /\ j \in Busy
  BY DEF Release, Busy, TypeOK
<1>2. Cardinality(Busy') = Cardinality(Busy) - 1
  BY <1>1, BusyFinite, FS_RemoveElement
<1>3. j # Dispatcher /\ loaded[j] \in Int /\ currentThreads \in Int /\ loaded[Dispatcher] \in Int
  BY DEF TypeOK, Jobs, Dispatcher
<1>4. currentThreads <= loaded[j]
  <2> SUFFICES ASSUME currentThreads > loaded[j] PROVE "start" \in Overwritten(j)
    BY <1>3 DEF CountKept, Release, Store
  <2> QED
    BY <1>3 DEF Overwritten
<1>5. CountKept
  BY DEF CountKept, Release, Store
<1>6. currentThreads' = loaded[j] - 1 /\ loaded'[Dispatcher] = loaded[Dispatcher]
  BY <1>3 DEF Release, Store, TypeOK
<1>7. UNCHANGED <<jobs, received, dispatcher>>
  BY DEF Release
<1>8. Cardinality(Busy) <= MaxThreads /\ MaxThreads \in Nat
  BY <1>5, ConstantsAssumption DEF Counted, ConstantsAssumption
<1> QED
  BY <1>1, <1>2, <1>3, <1>4, <1>5, <1>6, <1>7, <1>8, BusyFinite DEF Counted, Locked

\* A start adds one to both.
LEMMA StartCounted ==
  ASSUME TypeOK, Counted, received \in Jobs, ~Started(received), StartJob
  PROVE  Counted'
<1>1. Busy' = Busy \cup {received} /\ received \notin Busy
  BY DEF StartJob, Run, Busy, TypeOK, Started
<1>2. Cardinality(Busy') = Cardinality(Busy) + 1
  BY <1>1, BusyFinite, FS_AddElement
<1>3. currentThreads' = loaded[Dispatcher] + 1 /\ loaded[Dispatcher] \in Int
  BY DEF StartJob, Store, TypeOK
<1>4. CountKept' => CountKept
  BY DEF CountKept, StartJob, Store
<1>5. dispatcher = "store" /\ dispatcher' = "receive"
  BY DEF StartJob
<1> QED
  BY <1>2, <1>3, <1>4, <1>5, BusyFinite, ConstantsAssumption
     DEF Counted, Locked, ConstantsAssumption

\* A job is let in when it fits the counter, and so it fits the jobs there are.
LEMMA AdmitCounted ==
  ASSUME TypeOK, Counted, Admit
  PROVE  Counted'
<1>1. Busy' = Busy /\ UNCHANGED <<jobs, received, counter>>
  BY DEF Admit, Busy
<1>2. currentThreads + 1 <= MaxThreads /\ (jobs[received] = "barrier" => currentThreads <= 0)
  BY ConstantsAssumption DEF Admit, Blocked, TypeOK, ConstantsAssumption
<1>3. Cardinality(Busy) = 0 => Busy = {}
  BY BusyFinite, FS_EmptySet
<1>4. dispatcher' = "load"
  BY DEF Admit
<1> QED
  BY <1>1, <1>2, <1>3, <1>4, BusyFinite, ConstantsAssumption
     DEF Counted, CountKept, counter, TypeOK, ConstantsAssumption

\* The dispatcher loads the counter as it is.
LEMMA LoadCounted ==
  ASSUME TypeOK, Counted, LoadStart
  PROVE  Counted'
<1>1. Busy' = Busy /\ UNCHANGED <<jobs, received, currentThreads, lost>>
  BY DEF LoadStart, Load, Busy
<1>2. loaded'[Dispatcher] = currentThreads
  BY DEF LoadStart, Load, TypeOK
<1>3. dispatcher = "load" /\ dispatcher' = "store"
  BY DEF LoadStart
<1> QED
  BY <1>1, <1>2, <1>3 DEF Counted, CountKept, Locked

\* The job the dispatcher holds is a job, and has not been started.
LEMMA HeldJob ==
  ASSUME TypeOK, OrderInv, dispatcher \in AtWork
  PROVE  received \in Jobs /\ ~Started(received)
<1>1. received \in 1 .. MaxJobs
  BY ConstantsAssumption DEF OrderInv, InOrder, TypeOK, ConstantsAssumption
<1> QED
  BY <1>1 DEF OrderInv, InOrder, Jobs

\* A job that has been started is in the sequence of jobs.
LEMMA StartedIsJob ==
  ASSUME TypeOK, OrderInv, NEW j \in Jobs, Started(j)
  PROVE  j \in 1 .. Len(jobs)
  BY DEF OrderInv, InOrder, TypeOK, Jobs

\* The first state satisfies the invariant.
LEMMA OrderInit == Init => OrderInv
<1> SUFFICES ASSUME Init PROVE OrderInv
  OBVIOUS
<1>1. Busy = {}
  BY DEF Init, Busy
<1>2. Counted
  BY <1>1, FS_EmptySet, ConstantsAssumption DEF Counted, Locked, Init, ConstantsAssumption
<1> QED
  BY <1>1, <1>2 DEF Init, OrderInv, InOrder, Skipped, Separated, Started, AtWork, Jobs

\* Every step preserves it.
LEMMA OrderStep ==
  ASSUME TypeOK, OrderInv, [Next]_vars
  PROVE  OrderInv'
<1> USE DEF OrderInv
<1> DEFINE Same == UNCHANGED <<worker, counter>>
<1> DEFINE Open == ~Locked /\ ~Locked'
<1>0. Same => Busy' = Busy /\ CountKept' = CountKept /\ (Open /\ Counted => Counted')
  BY DEF Busy, Counted, CountKept, counter, Locked
<1>1. ASSUME NEW kind \in {"task", "barrier"}, Schedule(kind) PROVE OrderInv'
  <2>1. Same /\ Open
    BY <1>1 DEF Schedule, Locked
  <2>2. Counted' /\ InOrder' /\ Skipped'
    BY <1>1, <1>0, <2>1 DEF Schedule, InOrder, Skipped, Started
  <2>3. \A b \in Jobs : Started(b) => jobs'[b] = jobs[b]
    BY <1>1, StartedIsJob DEF Schedule, TypeOK
  <2>4. Separated'
    BY <2>1, <2>3, <1>1, <1>0 DEF Schedule, Separated, Started
  <2> QED
    BY <2>2, <2>4
<1>2. ASSUME Send \/ AddJob \/ DoneScheduling \/ Wait PROVE OrderInv'
  <2>1. UNCHANGED <<jobs, received, lastError, counter, dispatcher, worker>>
    BY <1>2 DEF Send, AddJob, DoneScheduling, Wait
  <2>2. Counted'
    BY <2>1, <1>0 DEF Counted, CountKept, counter, Locked
  <2> QED
    BY <2>1, <2>2, <1>0 DEF InOrder, Skipped, Separated, Started
<1>3. CASE Receive
  <2>1. Counted' /\ Separated'
    BY <1>3, <1>0 DEF Receive, Separated, Started, Locked
  <2>2. CASE received < sent
    BY <1>3, <2>1, <2>2 DEF Receive, InOrder, Skipped, Started, AtWork, TypeOK, Jobs
  <2>3. CASE ~(received < sent)
    BY <1>3, <2>1, <2>3 DEF Receive, InOrder, Skipped, Started, AtWork, TypeOK, Jobs
  <2> QED
    BY <2>2, <2>3
<1>4. CASE Check \/ Sleep
  <2>1. Counted' /\ Separated'
    BY <1>4, <1>0 DEF Check, Sleep, Separated, Started, Locked
  <2>2. InOrder' /\ Skipped'
    BY <1>4 DEF Check, Sleep, InOrder, Skipped, Started, AtWork
  <2> QED
    BY <2>1, <2>2
<1>5. CASE Skip
  <2>1. Counted' /\ Separated'
    BY <1>5, <1>0 DEF Skip, Separated, Started, Locked
  <2>2. InOrder' /\ Skipped'
    BY <1>5 DEF Skip, InOrder, Skipped, Started, AtWork
  <2> QED
    BY <2>1, <2>2
<1>6. CASE Admit \/ LoadStart
  <2>1. Counted'
    BY <1>6, AdmitCounted, LoadCounted
  <2>2. /\ UNCHANGED <<jobs, received, lastError, worker, lost>>
        /\ dispatcher \in {"admit", "load"} /\ dispatcher' \in {"load", "store"}
    BY <1>6 DEF Admit, LoadStart, Load, counter
  <2>3. InOrder' /\ Skipped'
    BY <2>2 DEF InOrder, Skipped, Started, AtWork
  <2>4. Separated'
    BY <2>2 DEF Separated, Started, Busy, CountKept
  <2> QED
    BY <2>1, <2>3, <2>4
<1>7. CASE StartJob
  <2>1. dispatcher = "store" /\ received \in Jobs /\ ~Started(received)
    BY <1>7, HeldJob DEF StartJob, AtWork
  <2>2. worker' = [worker EXCEPT ![received] = "run"]
    BY <1>7 DEF StartJob, Run
  <2>3. dispatcher' = "receive" /\ UNCHANGED <<jobs, received, lastError>>
    BY <1>7 DEF StartJob
  <2>4. Counted'
    BY <1>7, <2>1, StartCounted
  <2>5. \A j \in Jobs : Started(j)' <=> (Started(j) \/ j = received)
    BY <2>1, <2>2 DEF Started, TypeOK
  <2>6. \A i \in Jobs : i < received => Started(i)
    BY <2>1 DEF Skipped
  <2>7. InOrder'
    BY <2>1, <2>3, <2>5, <2>6 DEF InOrder, AtWork, TypeOK, Jobs
  <2>8. Skipped'
    BY <2>1, <2>3, <2>5, <2>6 DEF Skipped, AtWork
  <2>9. Separated'
    <3> SUFFICES ASSUME CountKept', NEW i \in Jobs, NEW b \in Jobs,
                        i < b, Started(b)', jobs[b] = "barrier"
                 PROVE  i \notin Busy'
      BY <2>3 DEF Separated
    <3>1. CountKept
      BY <1>7 DEF CountKept, StartJob, Store
    <3>2. b <= received /\ i # received
      BY <2>1, <2>5 DEF InOrder, TypeOK, Jobs
    <3>3. worker'[i] = worker[i]
      BY <2>2, <3>2 DEF TypeOK
    <3>4. CASE b = received
      <4>1. Busy = {}
        BY <2>1, <3>1, <3>4 DEF Counted, Locked
      <4> QED
        BY <4>1, <3>3 DEF Busy
    <3>5. CASE b # received
      BY <3>1, <3>3, <3>5, <2>5 DEF Separated, Busy
    <3> QED
      BY <3>4, <3>5
  <2> QED
    BY <2>4, <2>7, <2>8, <2>9
<1>8. CASE Exit
  <2>1. Counted' /\ Separated'
    BY <1>8, <1>0 DEF Exit, Separated, Started, Locked
  <2>2. InOrder' /\ Skipped'
    BY <1>8 DEF Exit, InOrder, Skipped, Started, AtWork
  <2> QED
    BY <2>1, <2>2
<1>9. ASSUME NEW j \in Jobs, Worker(j) PROVE OrderInv'
  <2>1. worker[j] # "none" /\ worker'[j] # "none"
    BY <1>9 DEF Worker, EndTask, MarkError, LoadRelease, Release, JobDone, Broadcast, TypeOK
  <2>2. \A i \in Jobs : i # j => worker'[i] = worker[i]
    BY <1>9 DEF Worker, EndTask, MarkError, LoadRelease, Release, JobDone, Broadcast, TypeOK
  <2>3. \A i \in Jobs : Started(i)' <=> Started(i)
    BY <2>1, <2>2 DEF Started
  <2>4. /\ UNCHANGED <<jobs, received>>
        /\ lastError => lastError'
        /\ dispatcher' = dispatcher \/ (dispatcher = "asleep" /\ dispatcher' = "admit")
    BY <1>9 DEF Worker, EndTask, MarkError, LoadRelease, Release, JobDone, Broadcast, Woken
  <2>5. Busy' \subseteq Busy
    BY <1>9, <2>2 DEF Busy, Worker, EndTask, MarkError, LoadRelease, Release, JobDone,
                      Broadcast, TypeOK
  <2>6. CountKept' => CountKept
    BY <1>9 DEF Worker, EndTask, MarkError, LoadRelease, Release, JobDone, Broadcast,
                Load, Store, counter, CountKept
  <2>7. Counted'
    <3>1. CASE Release(j)
      BY <3>1, ReleaseCounted
    <3>2. CASE ~Release(j)
      <4>1. Busy' = Busy
        BY <1>9, <3>2 DEF Busy, Worker, EndTask, MarkError, LoadRelease, JobDone,
                          Broadcast, TypeOK
      <4>2. /\ UNCHANGED currentThreads
            /\ loaded'[Dispatcher] = loaded[Dispatcher]
        <5>1. CASE LoadRelease(j)
          BY <5>1 DEF LoadRelease, Load, TypeOK, Jobs, Dispatcher
        <5>2. CASE ~LoadRelease(j)
          BY <1>9, <3>2, <5>2 DEF Worker, EndTask, MarkError, JobDone, Broadcast, counter
        <5> QED
          BY <5>1, <5>2
      <4> QED
        BY <4>1, <4>2, <2>4, <2>6 DEF Counted, Locked
    <3> QED
      BY <3>1, <3>2
  <2>8. InOrder' /\ Skipped'
    BY <2>3, <2>4 DEF InOrder, Skipped, AtWork
  <2>9. Separated'
    BY <2>3, <2>4, <2>5, <2>6 DEF Separated
  <2> QED
    BY <2>7, <2>8, <2>9
<1>10. CASE UNCHANGED vars
  <2>1. UNCHANGED <<jobs, received, lastError, counter, dispatcher, worker>>
    BY <1>10 DEF vars, counter
  <2>2. Counted'
    BY <2>1, <1>0 DEF Counted, CountKept, counter, Locked
  <2> QED
    BY <2>1, <2>2, <1>0 DEF InOrder, Skipped, Separated, Started
<1> QED
  BY <1>1, <1>2, <1>3, <1>4, <1>5, <1>6, <1>7, <1>8, <1>9, <1>10 DEF Next, Scheduler, Dispatch

\* Both hold in every reachable state.
LEMMA OrderInvariant == Spec => [](TypeOK /\ OrderInv)
<1>1. TypeOK /\ OrderInv /\ [Next]_vars => OrderInv'
  BY OrderStep
<1> QED
  BY <1>1, OrderInit, TypeCorrect, PTL DEF Spec

\* No task posted before a barrier is running once a job posted after it has
\* started, whatever order the loads and stores of currentThreads come in and
\* however many releases they lose, as long as no release has overwritten a start.
THEOREM BarrierOrderHolds == Spec => []BarrierOrder
<1>1. TypeOK /\ OrderInv => BarrierOrder
  BY DEF OrderInv, InOrder, Separated, BarrierOrder, Busy
<1> QED
  BY <1>1, OrderInvariant, PTL

\* Nor do more than MaxThreads tasks run before a release has overwritten a start.
THEOREM ThreadLimitHolds == Spec => []ThreadLimit
<1>1. TypeOK /\ OrderInv => ThreadLimit
  <2> SUFFICES ASSUME TypeOK, OrderInv, CountKept
               PROVE  Cardinality({j \in Jobs : worker[j] = "run"}) <= MaxThreads
    BY DEF ThreadLimit
  <2>1. {j \in Jobs : worker[j] = "run"} \subseteq Busy
    BY DEF Busy
  <2>2. Cardinality({j \in Jobs : worker[j] = "run"}) \in Nat
        /\ Cardinality({j \in Jobs : worker[j] = "run"}) <= Cardinality(Busy)
    BY <2>1, BusyFinite, FS_Subset, FS_CardinalityType
  <2> QED
    BY <2>2, BusyFinite, ConstantsAssumption
       DEF OrderInv, Counted, ConstantsAssumption
<1> QED
  BY <1>1, OrderInvariant, PTL
----------------------------------------------------------------------------
(* The wait group. *)

\* the jobs sent that neither ran to their end nor were skipped
Pending(j) ==
  /\ j <= sent
  /\ worker[j] \notin {"broadcast", "ended"}
  /\ worker[j] = "none" => j > received \/ (j = received /\ dispatcher \in AtWork)
Outstanding == {j \in Jobs : Pending(j)}

\* Only a job the dispatcher has let go of has a goroutine.
Received ==
  /\ dispatcher \in AtWork => received >= 1
  /\ \A j \in Jobs : Started(j) => j <= received /\ (j = received => dispatcher \notin AtWork)

\* The wait group counts the outstanding jobs, but for the one that is sent and
\* not added yet.
Waited == jobWait = Cardinality(Outstanding) - IF scheduler = "add" THEN 1 ELSE 0
WaitInv == Received /\ Waited /\ (scheduler = "returned" => Outstanding = {})

LEMMA OutstandingFinite == IsFiniteSet(Outstanding) /\ Cardinality(Outstanding) \in Nat
<1>1. IsFiniteSet(Jobs)
  BY FS_Interval, ConstantsAssumption DEF Jobs, ConstantsAssumption
<1>2. Outstanding \subseteq Jobs
  BY DEF Outstanding
<1>3. IsFiniteSet(Outstanding)
  BY <1>1, <1>2, FS_Subset
<1> QED
  BY <1>3, FS_CardinalityType

LEMMA WaitInit == Init => WaitInv
<1> SUFFICES ASSUME Init PROVE WaitInv
  OBVIOUS
<1>1. Outstanding = {}
  BY DEF Init, Outstanding, Pending, Jobs
<1>2. Received
  BY DEF Init, Received, AtWork, Started
<1> QED
  BY <1>1, <1>2, FS_EmptySet DEF Init, WaitInv, Waited

\* A step that leaves the outstanding jobs, the counter and the scheduler alone.
LEMMA WaitSame ==
  ASSUME WaitInv, Received', Outstanding' = Outstanding, UNCHANGED <<jobWait, scheduler>>
  PROVE  WaitInv'
BY DEF WaitInv, Waited

\* A step that ends an outstanding job, and counts it off.
LEMMA WaitDone ==
  ASSUME TypeOK, WaitInv, Received', NEW j \in Outstanding, Outstanding' = Outstanding \ {j},
         Done, UNCHANGED scheduler
  PROVE  WaitInv'
<1>1. Cardinality(Outstanding') = Cardinality(Outstanding) - 1
  BY OutstandingFinite, FS_RemoveElement
<1>2. scheduler # "returned"
  BY DEF WaitInv
<1> QED
  BY <1>1, <1>2, OutstandingFinite DEF WaitInv, Waited, Done, TypeOK

\* Every step preserves the invariant, whatever becomes of currentThreads.
LEMMA WaitStep == ASSUME TypeOK, WaitInv, [Next]_vars PROVE WaitInv'
<1> DEFINE Aside == UNCHANGED <<sent, received, worker, jobWait, scheduler>>
<1>1. ASSUME NEW kind \in {"task", "barrier"}, Schedule(kind) PROVE WaitInv'
  <2>1. Outstanding' = Outstanding
    BY <1>1 DEF Schedule, Outstanding, Pending
  <2>2. Received'
    BY <1>1 DEF Schedule, WaitInv, Received, Started
  <2> QED
    BY <1>1, <2>1, <2>2 DEF Schedule, WaitInv, Waited
<1>2. CASE Send
  <2>1. sent + 1 \in Jobs /\ sent + 1 > received /\ ~Started(sent + 1)
    BY <1>2, ConstantsAssumption
       DEF Send, TypeOK, WaitInv, Received, Started, Jobs, ConstantsAssumption
  <2>2. Outstanding' = Outstanding \cup {sent + 1} /\ sent + 1 \notin Outstanding
    BY <1>2, <2>1 DEF Send, Outstanding, Pending, Started, TypeOK, Jobs
  <2>3. Cardinality(Outstanding') = Cardinality(Outstanding) + 1
    BY <2>2, OutstandingFinite, FS_AddElement
  <2>4. Received'
    BY <1>2 DEF Send, WaitInv, Received, Started
  <2> QED
    BY <1>2, <2>3, <2>4, OutstandingFinite DEF Send, WaitInv, Waited, TypeOK
<1>3. CASE AddJob
  <2>1. Outstanding' = Outstanding
    BY <1>3 DEF AddJob, Outstanding, Pending
  <2>2. Received'
    BY <1>3 DEF AddJob, WaitInv, Received, Started
  <2> QED
    BY <1>3, <2>1, <2>2, OutstandingFinite DEF AddJob, WaitInv, Waited, TypeOK
<1>4. CASE DoneScheduling
  <2>1. Outstanding' = Outstanding
    BY <1>4 DEF DoneScheduling, Outstanding, Pending
  <2>2. Received'
    BY <1>4 DEF DoneScheduling, WaitInv, Received, Started
  <2> QED
    BY <1>4, <2>1, <2>2 DEF DoneScheduling, WaitInv, Waited
<1>5. CASE Wait
  <2>1. Outstanding' = Outstanding
    BY <1>5 DEF Wait, Outstanding, Pending
  <2>2. Received'
    BY <1>5 DEF Wait, WaitInv, Received, Started
  <2>3. Outstanding = {}
    BY <1>5, OutstandingFinite, FS_EmptySet DEF Wait, WaitInv, Waited
  <2> QED
    BY <1>5, <2>1, <2>2, <2>3 DEF Wait, WaitInv, Waited
<1>6. CASE Receive
  <2>1. UNCHANGED <<sent, worker, jobWait, scheduler>>
    BY <1>6 DEF Receive
  <2>2. CASE received < sent
    <3>1. received' = received + 1 /\ dispatcher = "receive" /\ dispatcher' = "check"
      BY <1>6, <2>2 DEF Receive, TypeOK
    <3>2. Outstanding' = Outstanding
      BY <2>1, <3>1 DEF Outstanding, Pending, AtWork, TypeOK, Jobs
    <3>3. Received'
      BY <2>1, <3>1 DEF WaitInv, Received, AtWork, Started, TypeOK, Jobs
    <3> QED
      BY <2>1, <3>2, <3>3, WaitSame
  <2>3. CASE ~(received < sent)
    <3>1. received' = received /\ dispatcher = "receive" /\ dispatcher' = "final"
      BY <1>6, <2>3 DEF Receive
    <3>2. Outstanding' = Outstanding
      BY <2>1, <3>1 DEF Outstanding, Pending, AtWork
    <3>3. Received'
      BY <2>1, <3>1 DEF WaitInv, Received, AtWork, Started
    <3> QED
      BY <2>1, <3>2, <3>3, WaitSame
  <2> QED
    BY <2>2, <2>3
<1>7. CASE Check \/ Sleep \/ Admit \/ LoadStart \/ Exit
  <2>1. Aside /\ (dispatcher \in AtWork <=> dispatcher' \in AtWork)
    BY <1>7 DEF Check, Sleep, Admit, LoadStart, Exit, AtWork
  <2>2. Outstanding' = Outstanding /\ Received'
    BY <2>1 DEF Outstanding, Pending, WaitInv, Received, Started
  <2> QED
    BY <2>1, <2>2, WaitSame
<1>8. CASE Skip
  <2>1. UNCHANGED <<sent, received, worker, scheduler>> /\ Done
        /\ dispatcher = "skip" /\ dispatcher' = "receive"
    BY <1>8 DEF Skip
  <2>2. received \in Jobs /\ ~Started(received)
    BY <2>1, ConstantsAssumption
       DEF WaitInv, Received, AtWork, TypeOK, Jobs, ConstantsAssumption
  <2>3. received \in Outstanding /\ Outstanding' = Outstanding \ {received}
    BY <2>1, <2>2 DEF Outstanding, Pending, AtWork, Started, TypeOK, Jobs
  <2>4. Received'
    BY <2>1 DEF WaitInv, Received, AtWork, Started
  <2> QED
    BY <2>1, <2>3, <2>4, WaitDone
<1>9. CASE StartJob
  <2>1. UNCHANGED <<sent, received, jobWait, scheduler>> /\ dispatcher \in AtWork
    BY <1>9 DEF StartJob, AtWork
  <2>2. received \in Jobs /\ ~Started(received)
    BY <2>1, ConstantsAssumption
       DEF WaitInv, Received, TypeOK, Jobs, ConstantsAssumption
  <2>3. worker' = [worker EXCEPT ![received] = "run"] /\ dispatcher' = "receive"
    BY <1>9 DEF StartJob, Run
  <2>4. \A j \in Jobs : worker'[j] = IF j = received THEN "run" ELSE worker[j]
    BY <2>2, <2>3 DEF TypeOK
  <2>5. Outstanding' = Outstanding
    BY <2>1, <2>2, <2>3, <2>4 DEF Outstanding, Pending, AtWork, Started, TypeOK
  <2>6. Received'
    BY <2>1, <2>3, <2>4 DEF WaitInv, Received, AtWork, Started, TypeOK, Jobs
  <2> QED
    BY <2>1, <2>5, <2>6, WaitSame
<1>10. ASSUME NEW j \in Jobs, Worker(j) PROVE WaitInv'
  <2>1. /\ UNCHANGED <<sent, received, scheduler>> /\ Started(j) /\ worker'[j] # "none"
        /\ dispatcher \in AtWork <=> dispatcher' \in AtWork
    BY <1>10 DEF Worker, EndTask, MarkError, LoadRelease, Release, JobDone, Broadcast, Woken,
                 AtWork, Started, TypeOK
  <2>2. \A i \in Jobs \ {j} : worker'[i] = worker[i]
    BY <1>10 DEF Worker, EndTask, MarkError, LoadRelease, Release, JobDone, Broadcast, TypeOK
  <2>3. Received'
    BY <2>1, <2>2 DEF WaitInv, Received, Started
  <2>4. j <= sent
    BY <2>1 DEF WaitInv, Received, TypeOK, Jobs
  <2>5. CASE JobDone(j)
    <3>1. Done /\ worker[j] = "done" /\ worker'[j] = "broadcast"
      BY <2>5 DEF JobDone, TypeOK
    <3>2. j \in Outstanding /\ Outstanding' = Outstanding \ {j}
      BY <2>1, <2>2, <2>4, <3>1 DEF Outstanding, Pending
    <3> QED
      BY <2>1, <2>3, <3>1, <3>2, WaitDone
  <2>6. CASE ~JobDone(j)
    <3>1. UNCHANGED jobWait /\ (worker[j] \in {"broadcast", "ended"}
                                 <=> worker'[j] \in {"broadcast", "ended"})
      BY <1>10, <2>6 DEF Worker, EndTask, MarkError, LoadRelease, Release, Broadcast, TypeOK
    <3>2. Outstanding' = Outstanding
      BY <2>1, <2>2, <3>1 DEF Outstanding, Pending, Started
    <3> QED
      BY <2>1, <2>3, <3>1, <3>2, WaitSame
  <2> QED
    BY <2>5, <2>6
<1>11. CASE UNCHANGED vars
  BY <1>11 DEF vars, WaitInv, Waited, Received, Outstanding, Pending, Started
<1> QED
  BY <1>1, <1>2, <1>3, <1>4, <1>5, <1>6, <1>7, <1>8, <1>9, <1>10, <1>11
     DEF Next, Scheduler, Dispatch

\* When Wait returns all jobs are done, even if updates of currentThreads get
\* lost: the wait group alone decides.
THEOREM WaitMeansAllDoneHolds == Spec => []WaitMeansAllDone
<1>1. TypeOK /\ WaitInv => WaitMeansAllDone
  <2> SUFFICES ASSUME TypeOK, WaitInv, scheduler = "returned"
               PROVE  /\ received = Len(jobs)
                      /\ dispatcher \notin {"check", "admit", "asleep", "load", "store"}
                      /\ \A j \in Jobs : worker[j] \notin {"run", "error"}
    BY DEF WaitMeansAllDone
  <2>1. Outstanding = {} /\ Len(jobs) = sent
    BY DEF WaitInv, TypeOK
  <2>2. \A j \in Jobs : ~Pending(j)
    BY <2>1 DEF Outstanding
  <2>3. received = Len(jobs)
    <3> SUFFICES ASSUME received < sent PROVE FALSE
      BY <2>1 DEF TypeOK
    <3>1. sent \in Jobs /\ sent > received
      BY <2>1, ConstantsAssumption DEF TypeOK, Jobs, ConstantsAssumption
    <3>2. ~Started(sent)
      BY <3>1 DEF WaitInv, Received, TypeOK
    <3> QED
      BY <2>2, <3>1, <3>2 DEF Pending, Started, TypeOK
  <2>4. dispatcher \notin AtWork
    <3> SUFFICES ASSUME dispatcher \in AtWork PROVE FALSE
      OBVIOUS
    <3>1. received \in Jobs /\ ~Started(received)
      BY ConstantsAssumption DEF WaitInv, Received, TypeOK, Jobs, ConstantsAssumption
    <3> QED
      BY <2>2, <3>1 DEF Pending, Started, TypeOK
  <2>5. \A j \in Jobs : worker[j] \notin {"run", "error"}
    BY <2>2 DEF WaitInv, Received, Pending, Started, TypeOK, Jobs
  <2> QED
    BY <2>3, <2>4, <2>5 DEF AtWork
<1>2. TypeOK /\ WaitInv /\ [Next]_vars => WaitInv'
  BY WaitStep
<1> QED
  BY <1>1, <1>2, WaitInit, TypeCorrect, PTL DEF Spec
----------------------------------------------------------------------------
(* The job manager implements the queue. *)

\* Every job stays what it is for the queue.
Unseen == \A j \in Jobs : StateOf(j)' = StateOf(j)
Stutters ==
  /\ SubSeq(jobs, 1, sent)' = SubSeq(jobs, 1, sent)
  /\ [j \in Jobs |-> StateOf(j)]' = [j \in Jobs |-> StateOf(j)]
  /\ lastError' = lastError
  /\ CountKept' = CountKept

\* One job j goes from what it is to what.
Becomes(j, what) == \A i \in Jobs : StateOf(i)' = IF i = j THEN what ELSE StateOf(i)

LEMMA UnseenStutters ==
  ASSUME UNCHANGED <<jobs, sent, lastError, lost>>, Unseen PROVE Stutters
BY DEF Stutters, Unseen, CountKept

LEMMA BecomesState ==
  ASSUME NEW j \in Jobs, NEW what, Becomes(j, what)
  PROVE  [i \in Jobs |-> StateOf(i)]' = [[i \in Jobs |-> StateOf(i)] EXCEPT ![j] = what]
BY DEF Becomes

LEMMA QueueStutters == ASSUME Stutters PROVE UNCHANGED Queue!vars
BY DEF Stutters, Queue!vars, CountKept

\* The dispatcher's job is the first that waits, when it is ready to start or skip it.
LEMMA HeldIsNext ==
  ASSUME TypeOK, OrderInv, dispatcher \in {"skip", "admit", "load", "store"}
  PROVE  received \in Jobs /\ ~Started(received) /\ received \in Queue!Next1
<1>1. received \in Jobs /\ ~Started(received)
  BY HeldJob DEF AtWork
<1>2. received <= sent /\ sent <= Len(jobs) /\ sent \in Nat /\ Len(jobs) \in Nat
  BY DEF TypeOK
<1>3. Len(SubSeq(jobs, 1, sent)) = sent
  BY <1>2 DEF TypeOK
<1>4. StateOf(received) = "waiting"
  <2>1. worker[received] = "none" /\ ~(received < received)
    BY <1>1, <1>2 DEF Started, TypeOK
  <2> QED
    BY <2>1 DEF StateOf
<1>5. \A i \in Jobs : i < received => StateOf(i) # "waiting"
  BY <1>1 DEF StateOf, TypeOK
<1>6. \A i \in 1 .. received - 1 : i \in Jobs /\ i < received
  BY <1>1, ConstantsAssumption DEF Jobs, ConstantsAssumption
<1>7. received \in 1 .. sent
  BY <1>1, <1>2 DEF Jobs, TypeOK
<1> QED
  BY <1>1, <1>3, <1>4, <1>5, <1>6, <1>7 DEF Queue!Next1

LEMMA QueueInit == Init => Queue!Init
<1> SUFFICES ASSUME Init PROVE Queue!Init
  OBVIOUS
<1>1. SubSeq(jobs, 1, sent) = <<>>
  BY DEF Init
<1>2. \A j \in Jobs : StateOf(j) = "waiting"
  BY DEF Init, StateOf, Jobs
<1> QED
  BY <1>1, <1>2 DEF Init, Queue!Init, Jobs, CountKept

LEMMA QueueSend ==
  ASSUME TypeOK, OrderInv, Send PROVE Queue!Post
<1>1. Len(jobs) = sent + 1 /\ sent + 1 <= MaxJobs /\ sent \in Nat
  BY ConstantsAssumption DEF Send, TypeOK, ConstantsAssumption
<1>2. jobs[sent + 1] \in {"task", "barrier"}
  BY <1>1 DEF TypeOK
<1>3. SubSeq(jobs, 1, sent + 1) = Append(SubSeq(jobs, 1, sent), jobs[sent + 1])
  BY <1>1 DEF TypeOK
<1>4. Len(SubSeq(jobs, 1, sent)) = sent
  BY <1>1 DEF TypeOK
<1>5. UNCHANGED <<jobs, lastError, received, worker, dispatcher, lost>> /\ sent' = sent + 1
  BY DEF Send, counter
<1>6. \A j \in Jobs : StateOf(j)' = StateOf(j)
  BY <1>5 DEF StateOf
<1>7. Len(SubSeq(jobs, 1, sent)) < MaxJobs
  BY <1>1, <1>4, ConstantsAssumption DEF ConstantsAssumption
<1> QED
  BY <1>2, <1>3, <1>5, <1>6, <1>7 DEF Queue!Post, CountKept

LEMMA QueueStart ==
  ASSUME TypeOK, OrderInv, StartJob
  PROVE  Queue!Next
<1>1. received \in Jobs /\ ~Started(received) /\ received \in Queue!Next1
  BY HeldIsNext DEF StartJob
<1>2. /\ worker' = [worker EXCEPT ![received] = "run"] /\ dispatcher = "store"
      /\ dispatcher' = "receive" /\ UNCHANGED <<jobs, sent, received, lastError>>
  BY DEF StartJob, Run
<1>3. \A i \in Jobs : worker'[i] = IF i = received THEN "run" ELSE worker[i]
  BY <1>2 DEF TypeOK
<1>4. Becomes(received, "running")
  BY <1>2, <1>3 DEF Becomes, StateOf, TypeOK
<1>5. Queue!Running = {j \in Jobs : worker[j] = "run"}
  BY DEF Queue!Running, Jobs, StateOf
<1>6. Queue!Running \subseteq Busy
  BY <1>5 DEF Busy
<1>7. CountKept => Cardinality(Queue!Running) < MaxThreads
  <2>1. Cardinality(Queue!Running) \in Nat /\ Cardinality(Queue!Running) <= Cardinality(Busy)
    BY <1>6, BusyFinite, FS_Subset, FS_CardinalityType
  <2> QED
    BY <1>2, <2>1, BusyFinite, ConstantsAssumption
       DEF OrderInv, Counted, Locked, ConstantsAssumption
<1>8. SubSeq(jobs, 1, sent)[received] = jobs[received]
  BY <1>1 DEF TypeOK, Jobs
<1>9. CountKept => (jobs[received] = "barrier" => Queue!Running = {})
  BY <1>2, <1>6 DEF OrderInv, Counted, Locked
<1>10. [i \in Jobs |-> StateOf(i)]'
         = [[i \in Jobs |-> StateOf(i)] EXCEPT ![received] = "running"]
  BY <1>1, <1>4, BecomesState
<1>11. Queue!Cardinality(Queue!Running) = Cardinality(Queue!Running)
  BY DEF Queue!Cardinality, Cardinality
<1>12. UNCHANGED <<SubSeq(jobs, 1, sent), lastError>>
  BY <1>2
<1>13. CountKept' = CountKept
  BY DEF StartJob, Store, Overwritten, CountKept
<1>14. ~CountKept \/ Queue!Fits(received)
  BY <1>7, <1>8, <1>9, <1>11 DEF Queue!Fits
<1>15. Queue!Begin(received)
  BY <1>1, <1>10, <1>12, <1>13, <1>14 DEF Queue!Begin
<1> QED
  BY <1>1, <1>15 DEF Queue!Next, Jobs

LEMMA QueueSkip ==
  ASSUME TypeOK, OrderInv, Skip
  PROVE  Queue!Next
<1>1. received \in Jobs /\ ~Started(received) /\ received \in Queue!Next1
  BY HeldIsNext DEF Skip
<1>2. /\ dispatcher = "skip" /\ dispatcher' = "receive"
      /\ UNCHANGED <<jobs, sent, received, lastError, worker, lost>>
  BY DEF Skip, counter
<1>3. Becomes(received, "dropped")
  BY <1>1, <1>2 DEF Becomes, StateOf, Started
<1>4. [i \in Jobs |-> StateOf(i)]'
        = [[i \in Jobs |-> StateOf(i)] EXCEPT ![received] = "dropped"]
  BY <1>1, <1>3, BecomesState
<1>5. lastError
  BY <1>2 DEF OrderInv, Skipped
<1>6. Queue!Drop(received)
  BY <1>1, <1>2, <1>4, <1>5 DEF Queue!Drop, CountKept
<1> QED
  BY <1>1, <1>6 DEF Queue!Next, Jobs

LEMMA QueueEndTask ==
  ASSUME TypeOK, OrderInv, NEW j \in Jobs, EndTask(j)
  PROVE  Queue!Next
<1>1. /\ UNCHANGED <<jobs, sent, received, lastError, dispatcher, lost>>
      /\ worker[j] = "run" /\ worker'[j] \in {"release", "error"}
      /\ \A i \in Jobs \ {j} : worker'[i] = worker[i]
  BY DEF EndTask, TypeOK, counter
<1>2. Becomes(j, "finished")
  BY <1>1 DEF Becomes, StateOf
<1>3. [i \in Jobs |-> StateOf(i)]' = [[i \in Jobs |-> StateOf(i)] EXCEPT ![j] = "finished"]
  BY <1>2, BecomesState
<1>4. StateOf(j) = "running"
  BY <1>1 DEF StateOf
<1>5. Queue!Finish(j)
  BY <1>1, <1>3, <1>4 DEF Queue!Finish, CountKept
<1> QED
  BY <1>5 DEF Queue!Next, Jobs

\* The store of a release tells the queue nothing, or that a start is lost.
LEMMA QueueRelease ==
  ASSUME TypeOK, NEW j \in Jobs, Release(j), Unseen
  PROVE  [Queue!Next]_(Queue!vars)
<1>1. UNCHANGED <<jobs, sent, lastError>>
  BY DEF Release
<1>2. CASE CountKept' = CountKept
  <2>1. Stutters
    BY <1>1, <1>2 DEF Stutters, Unseen
  <2> QED
    BY <2>1, QueueStutters
<1>3. CASE ~CountKept'
  <2>1. Queue!Miscount
    BY <1>1, <1>3 DEF Queue!Miscount, Unseen
  <2> QED
    BY <2>1 DEF Queue!Next
<1>4. CountKept' => CountKept
  BY DEF CountKept, Release, Store
<1> QED
  BY <1>2, <1>3, <1>4 DEF CountKept

LEMMA QueueStep ==
  ASSUME TypeOK, OrderInv, [Next]_vars
  PROVE  [Queue!Next]_(Queue!vars)
<1>1. ASSUME NEW kind \in {"task", "barrier"}, Schedule(kind) PROVE Stutters
  <2>1. Unseen /\ UNCHANGED <<sent, lastError, lost>>
    BY <1>1 DEF Schedule, Unseen, StateOf, counter
  <2>2. SubSeq(Append(jobs, kind), 1, sent) = SubSeq(jobs, 1, sent)
    BY <1>1 DEF Schedule, TypeOK
  <2> QED
    BY <1>1, <2>1, <2>2 DEF Schedule, Stutters, Unseen, CountKept
<1>2. CASE Send
  BY <1>2, QueueSend DEF Queue!Next
<1>3. CASE AddJob \/ DoneScheduling \/ Wait
  BY <1>3, UnseenStutters, QueueStutters
     DEF AddJob, DoneScheduling, Wait, Unseen, StateOf, counter
<1>4. CASE Receive
  <2>1. UNCHANGED <<jobs, sent, lastError, worker, lost>> /\ dispatcher = "receive"
    BY <1>4 DEF Receive, counter
  <2>2. Unseen
    <3>1. CASE received < sent
      <4>1. received' = received + 1 /\ dispatcher' = "check"
        BY <1>4, <3>1 DEF Receive, TypeOK
      <4> QED
        BY <2>1, <4>1 DEF Unseen, StateOf, TypeOK, Jobs
    <3>2. CASE ~(received < sent)
      <4>1. received' = received /\ dispatcher' = "final"
        BY <1>4, <3>2 DEF Receive
      <4> QED
        BY <2>1, <4>1 DEF Unseen, StateOf
    <3> QED
      BY <3>1, <3>2
  <2> QED
    BY <2>1, <2>2, UnseenStutters, QueueStutters
<1>5. CASE Check \/ Sleep \/ Admit \/ LoadStart \/ Exit
  <2>1. UNCHANGED <<jobs, sent, received, lastError, worker, lost>>
        /\ (dispatcher \in {"receive", "final", "exit"}
              <=> dispatcher' \in {"receive", "final", "exit"})
    BY <1>5 DEF Check, Sleep, Admit, LoadStart, Load, Exit, counter
  <2>2. Unseen
    BY <2>1 DEF Unseen, StateOf
  <2> QED
    BY <2>1, <2>2, UnseenStutters, QueueStutters
<1>6. CASE Skip
  BY <1>6, QueueSkip
<1>7. CASE StartJob
  BY <1>7, QueueStart
<1>8. ASSUME NEW j \in Jobs, Worker(j) PROVE [Queue!Next]_(Queue!vars)
  <2>1. CASE EndTask(j)
    BY <2>1, QueueEndTask
  <2>2. ASSUME ~EndTask(j) PROVE Unseen /\ UNCHANGED <<jobs, sent>>
    <3>1. /\ worker[j] \notin {"none", "run"} /\ worker'[j] \notin {"none", "run"}
          /\ \A i \in Jobs \ {j} : worker'[i] = worker[i]
      BY <1>8, <2>2 DEF Worker, MarkError, LoadRelease, Release, JobDone, Broadcast, TypeOK
    <3>2. /\ UNCHANGED <<jobs, sent, received>>
          /\ dispatcher \in {"receive", "final", "exit"}
               <=> dispatcher' \in {"receive", "final", "exit"}
      BY <1>8, <2>2 DEF Worker, MarkError, LoadRelease, Release, JobDone, Broadcast, Woken
    <3> QED
      BY <3>1, <3>2 DEF Unseen, StateOf
  <2>3. CASE Release(j)
    <3>1. ~EndTask(j)
      BY <2>3 DEF Release, EndTask
    <3> QED
      BY <2>2, <2>3, <3>1, QueueRelease
  <2>4. CASE MarkError(j)
    <3>1. ~EndTask(j)
      BY <2>4 DEF MarkError, EndTask
    <3>2. lastError' = TRUE /\ UNCHANGED lost
      BY <2>4 DEF MarkError, counter
    <3>3. CASE lastError
      BY <2>2, <3>1, <3>2, <3>3, UnseenStutters, QueueStutters
    <3>4. CASE ~lastError
      <4>1. Queue!Fail
        BY <2>2, <3>1, <3>2, <3>4 DEF Queue!Fail, Unseen, CountKept
      <4> QED
        BY <4>1 DEF Queue!Next
    <3> QED
      BY <3>3, <3>4
  <2>5. CASE LoadRelease(j) \/ JobDone(j) \/ Broadcast(j)
    <3>1. ~EndTask(j) /\ UNCHANGED <<lastError, lost>>
      BY <2>5 DEF LoadRelease, Load, JobDone, Broadcast, EndTask, counter
    <3> QED
      BY <2>2, <3>1, UnseenStutters, QueueStutters
  <2> QED
    BY <1>8, <2>1, <2>3, <2>4, <2>5 DEF Worker
<1>9. CASE UNCHANGED vars
  BY <1>9, UnseenStutters, QueueStutters DEF vars, Unseen, StateOf
<1> QED
  BY <1>1, <1>2, <1>3, <1>4, <1>5, <1>6, <1>7, <1>8, <1>9, QueueStutters
     DEF Next, Scheduler, Dispatch

\* The job manager is a queue with barriers, for every schedule: jobs start in
\* order and none after a failure is seen, and until a release has overwritten a
\* start they start only where they fit.  This is what the syncher relies on.
THEOREM ImplementsQueueHolds == Spec => ImplementsQueue
<1>1. TypeOK /\ OrderInv /\ [Next]_vars => [Queue!Next]_(Queue!vars)
  BY QueueStep
<1> QED
  BY <1>1, QueueInit, OrderInvariant, PTL DEF Spec, ImplementsQueue, Queue!Spec
=============================================================================
