------------------------- MODULE ParallelJobManager -------------------------
(***************************************************************************)
(* pkg/client/irods/parallel.go: the goroutine that walks the upper layer  *)
(* schedules jobs, a dispatcher goroutine takes them from a channel and    *)
(* starts a goroutine for each.  Every Schedule call asks for one thread.  *)
(*                                                                         *)
(* Code between Lock and Unlock is one step, but for the accesses to       *)
(* currentThreads: a worker subtracts from it without the mutex, so that   *)
(* an update is a load and a store that other threads may run between.     *)
(***************************************************************************)
EXTENDS Integers, Sequences, FiniteSets

CONSTANTS
  MaxThreads,    \* maxThreads of NewParallelJobManager (the syncher asks for 4)
  ChanCap,       \* capacity of pendingJobs (100 in the code)
  MaxJobs,       \* bound: how many jobs are scheduled
  TasksMayFail   \* may a task return an error?

ASSUME ConstantsAssumption ==
  /\ MaxThreads \in Nat \ {0}
  /\ ChanCap \in Nat \ {0}
  /\ MaxJobs \in Nat
  /\ TasksMayFail \in BOOLEAN

Jobs == 1 .. MaxJobs
Dispatcher == 0

VARIABLES
  jobs,            \* the jobs made so far: "task" or "barrier"
  sent, received,  \* pendingJobs holds the jobs received+1 .. sent
  closed,          \* is pendingJobs closed (and scheduleWait done)?
  jobWait,         \* the counter of the WaitGroup
  lastError,       \* is it set?
  currentThreads,
  loaded,          \* what a thread loaded from currentThreads and will store
  lost,            \* history: which updates of currentThreads, "start" or
                   \* "release", another thread has overwritten
  scheduler,       \* where the walking goroutine is
  dispatcher,      \* where the goroutine of Start is, with job "received"
  worker,          \* where the goroutine of each job is
  panicked         \* a WaitGroup counter went below zero: the process is gone

threads == <<scheduler, dispatcher, worker>>
vars == <<jobs, sent, received, closed, jobWait, lastError, currentThreads,
          loaded, lost, scheduler, dispatcher, worker, panicked>>
counter == <<currentThreads, loaded, lost>>

Init ==
  /\ jobs = <<>>
  /\ sent = 0 /\ received = 0
  /\ closed = FALSE
  /\ jobWait = 0
  /\ lastError = FALSE
  /\ currentThreads = 0
  /\ loaded = [t \in Jobs \cup {Dispatcher} |-> 0]
  /\ lost = {}
  /\ scheduler = "walk"
  /\ dispatcher = "receive"
  /\ worker = [j \in Jobs |-> "none"]
  /\ panicked = FALSE

\* the dispatcher holds the mutex while it updates currentThreads
Locked == dispatcher \in {"load", "store"}

\* WaitGroup.Done
Done == jobWait' = jobWait - 1 /\ panicked' = (jobWait' < 0)
----------------------------------------------------------------------------
(* The walking goroutine: Schedule, ScheduleBarrier, DoneScheduling, Wait. *)

\* under the mutex: refused after an error, else the job gets its index
Schedule(kind) ==
  /\ ~panicked /\ scheduler = "walk" /\ ~Locked
  /\ ~lastError
  /\ Len(jobs) < MaxJobs
  /\ jobs' = Append(jobs, kind)
  /\ scheduler' = "send"
  /\ UNCHANGED <<sent, received, closed, jobWait, lastError, counter,
                 dispatcher, worker, panicked>>

Send ==
  /\ ~panicked /\ scheduler = "send"
  /\ sent - received < ChanCap
  /\ sent' = sent + 1
  /\ scheduler' = "add"
  /\ UNCHANGED <<jobs, received, closed, jobWait, lastError, counter,
                 dispatcher, worker, panicked>>

\* jobWait.Add(1) follows the send
AddJob ==
  /\ ~panicked /\ scheduler = "add"
  /\ jobWait' = jobWait + 1
  /\ scheduler' = "walk"
  /\ UNCHANGED <<jobs, sent, received, closed, lastError, counter,
                 dispatcher, worker, panicked>>

DoneScheduling ==
  /\ ~panicked /\ scheduler = "walk"
  /\ closed' = TRUE
  /\ scheduler' = "wait"
  /\ UNCHANGED <<jobs, sent, received, jobWait, lastError, counter,
                 dispatcher, worker, panicked>>

\* mutant: Wait looks at the channel only
WaitForChannel ==
  /\ ~panicked /\ scheduler = "wait" /\ sent = received
  /\ scheduler' = "returned"
  /\ UNCHANGED <<jobs, sent, received, closed, jobWait, lastError, counter,
                 dispatcher, worker, panicked>>
Wait ==
  /\ ~panicked /\ scheduler = "wait" /\ jobWait = 0 /\ ~Locked
  /\ scheduler' = "returned"
  /\ UNCHANGED <<jobs, sent, received, closed, jobWait, lastError, counter,
                 dispatcher, worker, panicked>>
----------------------------------------------------------------------------
(* The goroutine of Start. *)

\* (mutant: what is received from the closed channel is taken for a job)
ReceiveUnchecked ==
  /\ ~panicked /\ dispatcher = "receive"
  /\ received < sent \/ closed
  /\ received' = received + 1 /\ dispatcher' = "check"
  /\ UNCHANGED <<jobs, sent, closed, jobWait, lastError, counter,
                 scheduler, worker, panicked>>
Receive ==
  /\ ~panicked /\ dispatcher = "receive"
  /\ \/ /\ received < sent
        /\ received' = received + 1 /\ dispatcher' = "check"
     \/ /\ received = sent /\ closed
        /\ dispatcher' = "final" /\ UNCHANGED received
  /\ UNCHANGED <<jobs, sent, closed, jobWait, lastError, counter,
                 scheduler, worker, panicked>>

Check ==
  /\ ~panicked /\ dispatcher = "check"
  /\ dispatcher' = IF lastError THEN "skip" ELSE "admit"
  /\ UNCHANGED <<jobs, sent, received, closed, jobWait, lastError, counter,
                 scheduler, worker, panicked>>

Skip ==
  /\ ~panicked /\ dispatcher = "skip"
  /\ Done
  /\ dispatcher' = "receive"
  /\ UNCHANGED <<jobs, sent, received, closed, lastError, counter,
                 scheduler, worker>>

\* must the job wait for the condition variable?
\* (mutants: a barrier waits only for a free thread; the limit is off by one)
BlockedNoBarrier == currentThreads + 1 > MaxThreads
BlockedOffByOne ==
  \/ currentThreads > MaxThreads
  \/ jobs[received] = "barrier" /\ currentThreads > 0
Blocked ==
  \/ currentThreads + 1 > MaxThreads
  \/ jobs[received] = "barrier" /\ currentThreads > 0

Sleep ==
  /\ ~panicked /\ dispatcher = "admit" /\ Blocked
  /\ dispatcher' = "asleep"
  /\ UNCHANGED <<jobs, sent, received, closed, jobWait, lastError, counter,
                 scheduler, worker, panicked>>

Run == worker' = [worker EXCEPT ![received] = "run"]

Admit ==
  /\ ~panicked /\ dispatcher = "admit" /\ ~Blocked
  /\ dispatcher' = "load"
  /\ UNCHANGED <<jobs, sent, received, closed, jobWait, lastError, counter, scheduler,
                 worker, panicked>>

\* a thread that stores one more or less than it loaded undoes what others
\* stored since.  As a sum these are releases when the number is lower now, and
\* starts when it is higher; only the dispatcher starts jobs.
Overwritten(t) ==
  {update \in {"start", "release"} :
     IF update = "release" THEN currentThreads < loaded[t]
     ELSE t # Dispatcher /\ currentThreads > loaded[t]}
Load(t) ==
  /\ loaded' = [loaded EXCEPT ![t] = currentThreads]
  /\ UNCHANGED <<currentThreads, lost>>
Store(t, n) ==
  /\ currentThreads' = loaded[t] + n
  /\ lost' = lost \cup Overwritten(t)
  /\ loaded' = [loaded EXCEPT ![t] = 0]

LoadStart ==
  /\ ~panicked /\ dispatcher = "load"
  /\ Load(Dispatcher)
  /\ dispatcher' = "store"
  /\ UNCHANGED <<jobs, sent, received, closed, jobWait, lastError, scheduler, worker,
                 panicked>>

StartJob ==
  /\ ~panicked /\ dispatcher = "store"
  /\ Store(Dispatcher, 1)
  /\ Run
  /\ dispatcher' = "receive"
  /\ UNCHANGED <<jobs, sent, received, closed, jobWait, lastError, scheduler, panicked>>

Exit ==
  /\ ~panicked /\ dispatcher = "final" /\ jobWait = 0
  /\ dispatcher' = "exit"
  /\ UNCHANGED <<jobs, sent, received, closed, jobWait, lastError, counter,
                 scheduler, worker, panicked>>
----------------------------------------------------------------------------
(* The goroutine of job j. *)

EndTask(j) ==
  /\ ~panicked /\ worker[j] = "run"
  /\ \E pc \in {"release"} \cup (IF TasksMayFail THEN {"error"} ELSE {}) :
       worker' = [worker EXCEPT ![j] = pc]
  /\ UNCHANGED <<jobs, sent, received, closed, jobWait, lastError, counter,
                 scheduler, dispatcher, panicked>>

MarkError(j) ==
  /\ ~panicked /\ worker[j] = "error" /\ ~Locked
  /\ lastError' = TRUE
  /\ worker' = [worker EXCEPT ![j] = "release"]
  /\ UNCHANGED <<jobs, sent, received, closed, jobWait, counter,
                 scheduler, dispatcher, panicked>>

\* currentThreads -= threadsRequired, without the mutex
LoadRelease(j) ==
  /\ ~panicked /\ worker[j] = "release"
  /\ Load(j)
  /\ worker' = [worker EXCEPT ![j] = "store"]
  /\ UNCHANGED <<jobs, sent, received, closed, jobWait, lastError, scheduler,
                 dispatcher, panicked>>

Release(j) ==
  /\ ~panicked /\ worker[j] = "store"
  /\ Store(j, -1)
  /\ worker' = [worker EXCEPT ![j] = "done"]
  /\ UNCHANGED <<jobs, sent, received, closed, jobWait, lastError, scheduler,
                 dispatcher, panicked>>

JobDone(j) ==
  /\ ~panicked /\ worker[j] = "done"
  /\ Done
  /\ worker' = [worker EXCEPT ![j] = "broadcast"]
  /\ UNCHANGED <<jobs, sent, received, closed, lastError, counter,
                 scheduler, dispatcher>>

\* (mutant: nobody is woken)
WakeNobody == dispatcher
Woken == IF dispatcher = "asleep" THEN "admit" ELSE dispatcher

Broadcast(j) ==
  /\ ~panicked /\ worker[j] = "broadcast" /\ ~Locked
  /\ dispatcher' = Woken
  /\ worker' = [worker EXCEPT ![j] = "ended"]
  /\ UNCHANGED <<jobs, sent, received, closed, jobWait, lastError, counter,
                 scheduler, panicked>>
----------------------------------------------------------------------------
Scheduler ==
  \/ \E kind \in {"task", "barrier"} : Schedule(kind)
  \/ Send \/ AddJob \/ DoneScheduling \/ Wait

Dispatch == Receive \/ Check \/ Skip \/ Sleep \/ Admit \/ LoadStart \/ StartJob \/ Exit

Worker(j) == EndTask(j) \/ MarkError(j) \/ LoadRelease(j) \/ Release(j)
             \/ JobDone(j) \/ Broadcast(j)

Next == Scheduler \/ Dispatch \/ \E j \in Jobs : Worker(j)

Spec == Init /\ [][Next]_vars

\* all three are goroutines the Go scheduler runs, the walk ends (DoneScheduling),
\* and a task ends
FairSpec ==
  /\ Spec
  /\ WF_vars(Scheduler)
  /\ WF_vars(Dispatch)
  /\ \A j \in Jobs : WF_vars(Worker(j))
----------------------------------------------------------------------------
(* Properties. *)

WorkerPCs == {"none", "run", "error", "release", "store", "done", "broadcast", "ended"}

\* The type of every variable.
TypeOK ==
  /\ jobs \in Seq({"task", "barrier"}) /\ Len(jobs) <= MaxJobs
  /\ sent \in Nat /\ received \in 0 .. sent
  /\ Len(jobs) = IF scheduler = "send" THEN sent + 1 ELSE sent
  /\ closed \in BOOLEAN /\ lastError \in BOOLEAN /\ panicked \in BOOLEAN
  /\ jobWait \in Int
  /\ currentThreads \in Int
  /\ loaded \in [Jobs \cup {Dispatcher} -> Int]
  /\ lost \subseteq {"start", "release"}
  /\ scheduler \in {"walk", "send", "add", "wait", "returned"}
  /\ dispatcher \in {"receive", "check", "skip", "admit", "asleep", "load", "store",
                    "final", "exit"}
  /\ worker \in [Jobs -> WorkerPCs]

Started(j) == worker[j] # "none"

\* The dispatcher believes currentThreads.  It may be too high, when releases were
\* overwritten, but it is too low only after a start was.
CountKept == "start" \notin lost

\* A barrier separates the jobs posted before it from those posted after it: the
\* files of a directory are synced only when the directory above is done.  Lost
\* releases do no harm; only a lost start, of the unlocked subtraction, breaks it.
BarrierOrder ==
  CountKept =>
    \A i, b, j \in Jobs :
      i < b /\ b < j /\ Started(j) /\ jobs[b] = "barrier" => worker[i] # "run"

\* No more tasks run than the manager was made for, unless a start was lost.
ThreadLimit == CountKept => Cardinality({j \in Jobs : worker[j] = "run"}) <= MaxThreads

\* When Wait returns every job that was scheduled has been run or skipped, and
\* no goroutine still has an error to report.
WaitMeansAllDone ==
  scheduler = "returned" =>
    /\ received = Len(jobs) /\ dispatcher \notin {"check", "admit", "asleep", "load", "store"}
    /\ \A j \in Jobs : worker[j] \notin {"run", "error"}

\* The walk is over and Wait returns, or the process panicked, or the dispatcher
\* sleeps for ever because a release was lost; lost starts do no harm here.
WaitReturns == closed ~> (scheduler = "returned" \/ panicked \/ "release" \in lost)

StateOf(j) ==
  CASE worker[j] = "run" -> "running"
    [] worker[j] \notin {"none", "run"} -> "finished"
    [] worker[j] = "none" ->
         IF j < received \/ (j = received /\ dispatcher \in {"receive", "final", "exit"})
           THEN "dropped" ELSE "waiting"

\* Every job that is made ends: its goroutine does, or it is skipped.
JobsEnd ==
  \A j \in Jobs : (Len(jobs) >= j) ~> (worker[j] = "ended" \/ StateOf(j) = "dropped")

\* The manager is a queue with barriers: a job goes in when it is sent.  The
\* queue loses count when a start is lost; jobs are in order even then.
Queue == INSTANCE BarrierQueue WITH
  posted <- SubSeq(jobs, 1, sent),
  state <- [j \in Jobs |-> StateOf(j)],
  failed <- lastError,
  miscounted <- ~CountKept
ImplementsQueue == Queue!Spec
=============================================================================
