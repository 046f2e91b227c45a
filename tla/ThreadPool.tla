----------------------------- MODULE ThreadPool -----------------------------
(***************************************************************************)
(* petsys ThreadPool: a bounded queue of jobs that worker threads take     *)
(* under the pool's lock and run with no lock held, two condition          *)
(* variables (condJobQueued for the workers, condJobStarted for the        *)
(* producer), and a Job object whose own lock and condition variable tell  *)
(* the producer that it has finished.                                      *)
(*                                                                         *)
(* A critical section is one action; so is the store to die that the code  *)
(* makes outside of the lock. A thread blocked in pthread_cond_wait stays  *)
(* in a wait set until it is signalled, or wakes for no reason.            *)
(***************************************************************************)
EXTENDS Integers, Sequences, FiniteSets

CONSTANTS
  Pools,        \* the thread pools of the program
  Crew,         \* Crew[p]: the worker threads pool p may have (maxWorkers)
  Jobs,         \* the Job objects that may exist
  NoJob         \* none of them

ASSUME CrewAssumption ==
  /\ Crew \in [Pools -> SUBSET UNION {Crew[p] : p \in Pools}]
  /\ \A p \in Pools : IsFiniteSet(Crew[p]) /\ Crew[p] # {}
  /\ \A p, q \in Pools : p # q => Crew[p] \cap Crew[q] = {}
  /\ NoJob \notin Jobs

VARIABLES
  nClients,     \* how many pipeline stages use the pool
  die,
  queue,
  wpc,          \* the worker's place in ThreadPool::Worker::run
  job,          \* the job it has taken
  live,         \* the Job objects constructed and not yet deleted
  finished,     \* those of them whose flag finished is set
  starved,      \* the pools whose producer waits on condJobStarted
  awaited       \* the jobs whose condJobFinished the producer waits on

poolVars == <<nClients, die, queue, wpc, job, live, finished, starved, awaited>>

Threads == UNION {Crew[p] : p \in Pools}

MaxQueueSize(p) == IF Cardinality(Crew[p]) \div 4 > 0
                   THEN Cardinality(Crew[p]) \div 4 ELSE 1

PoolInit ==
  /\ nClients = [p \in Pools |-> 0]
  /\ die = [p \in Pools |-> TRUE]
  /\ queue = [p \in Pools |-> << >>]
  /\ wpc = [w \in Threads |-> "none"]
  /\ job = [w \in Threads |-> NoJob]
  /\ live = {} /\ finished = {} /\ starved = {} /\ awaited = {}

----------------------------------------------------------------------------
(* Condition variables *)

Waiting(p) == {w \in Crew[p] : wpc[w] = "waiting"}

\* Mutant of SignalQueued: queueJob does not signal.
NoSignal(p) == UNCHANGED wpc

\* pthread_cond_signal(&condJobQueued): wakes one of the waiting workers.
SignalQueued(p) ==
  \/ Waiting(p) = {} /\ UNCHANGED wpc
  \/ \E w \in Waiting(p) : wpc' = [wpc EXCEPT ![w] = "loop"]

\* Any wait may also end with no signal.
SpuriousWakeup ==
  /\ \/ /\ \E p \in Pools : \E w \in Waiting(p) : wpc' = [wpc EXCEPT ![w] = "loop"]
        /\ UNCHANGED <<starved, awaited>>
     \/ starved # {} /\ starved' = {} /\ UNCHANGED <<wpc, awaited>>
     \/ awaited # {} /\ awaited' = {} /\ UNCHANGED <<wpc, starved>>
  /\ UNCHANGED <<nClients, die, queue, job, live, finished>>

----------------------------------------------------------------------------
(* The producer *)

\* The first client creates the worker threads.
ClientIncrease(p) ==
  /\ nClients' = [nClients EXCEPT ![p] = @ + 1]
  /\ IF nClients[p] = 0
     THEN /\ die' = [die EXCEPT ![p] = FALSE]
          /\ wpc' = [w \in Threads |-> IF w \in Crew[p] THEN "loop" ELSE wpc[w]]
     ELSE UNCHANGED <<die, wpc>>
  /\ UNCHANGED <<queue, job, live, finished, starved, awaited>>

\* Mutant of HasRoom: > for >= in queueJob's loop.
HasRoomOrFull(p) == Len(queue[p]) <= MaxQueueSize(p)

HasRoom(p) == Len(queue[p]) < MaxQueueSize(p)

\* queueJob, once the queue has room.
QueueJob(p, j) ==
  /\ p \notin starved /\ HasRoom(p)
  /\ queue' = [queue EXCEPT ![p] = Append(@, j)]
  /\ live' = live \cup {j}
  /\ SignalQueued(p)
  /\ UNCHANGED <<nClients, die, job, finished, starved, awaited>>

\* queueJob finds the queue full and waits for a worker to take a job.
WaitForRoom(p) ==
  /\ p \notin starved /\ ~HasRoom(p)
  /\ starved' = starved \cup {p}
  /\ UNCHANGED <<nClients, die, queue, wpc, job, live, finished, awaited>>

\* Job::wait returns, or goes to sleep.
JobDone(j) ==
  /\ j \notin awaited /\ j \in finished
  /\ UNCHANGED poolVars

WaitForJob(j) ==
  /\ j \notin awaited /\ j \notin finished
  /\ awaited' = awaited \cup {j}
  /\ UNCHANGED <<nClients, die, queue, wpc, job, live, finished, starved>>

DeleteJob(j) ==
  /\ live' = live \ {j}
  /\ finished' = finished \ {j}
  /\ UNCHANGED <<nClients, die, queue, wpc, job, starved, awaited>>

\* clientDecrease: the last client stores die with no lock held, ...
ClientDecrease(p) ==
  /\ nClients' = [nClients EXCEPT ![p] = IF @ > 1 THEN @ - 1 ELSE 0]
  /\ die' = [die EXCEPT ![p] = nClients[p] <= 1]
  /\ UNCHANGED <<queue, wpc, job, live, finished, starved, awaited>>

\* Mutant of BroadcastDie: pthread_cond_signal for pthread_cond_broadcast.
SignalDie(p) ==
  /\ SignalQueued(p)
  /\ UNCHANGED <<nClients, die, queue, job, live, finished, starved, awaited>>

\* ... wakes every worker that waits, ...
BroadcastDie(p) ==
  /\ wpc' = [w \in Threads |-> IF w \in Waiting(p) THEN "loop" ELSE wpc[w]]
  /\ UNCHANGED <<nClients, die, queue, job, live, finished, starved, awaited>>

\* ... and joins them all.
JoinWorkers(p) ==
  /\ \A w \in Crew[p] : wpc[w] = "exited"
  /\ wpc' = [w \in Threads |-> IF w \in Crew[p] THEN "none" ELSE wpc[w]]
  /\ UNCHANGED <<nClients, die, queue, job, live, finished, starved, awaited>>

----------------------------------------------------------------------------
(* A worker *)

\* Worker::run's loop, under the pool's lock: leave, wait for a job, or take
\* the oldest one and signal condJobStarted.
WorkerTake(p, w) ==
  /\ wpc[w] = "loop"
  /\ \/ /\ die[p]
        /\ wpc' = [wpc EXCEPT ![w] = "exited"]
        /\ UNCHANGED <<queue, job, starved>>
     \/ /\ ~die[p] /\ queue[p] = << >>
        /\ wpc' = [wpc EXCEPT ![w] = "waiting"]
        /\ UNCHANGED <<queue, job, starved>>
     \/ /\ ~die[p] /\ queue[p] # << >>
        /\ queue' = [queue EXCEPT ![p] = Tail(@)]
        /\ job' = [job EXCEPT ![w] = Head(queue[p])]
        /\ wpc' = [wpc EXCEPT ![w] = "run"]
        /\ starved' = starved \ {p}
  /\ UNCHANGED <<nClients, die, live, finished, awaited>>

\* start_routine returns.
WorkerRun(w) ==
  /\ wpc[w] = "run"
  /\ wpc' = [wpc EXCEPT ![w] = "finish"]
  /\ UNCHANGED <<nClients, die, queue, job, live, finished, starved, awaited>>

\* The flag and the signal, under the job's lock.
WorkerFinish(w) ==
  /\ wpc[w] = "finish"
  /\ finished' = finished \cup {job[w]}
  /\ awaited' = awaited \ {job[w]}
  /\ job' = [job EXCEPT ![w] = NoJob]
  /\ wpc' = [wpc EXCEPT ![w] = "loop"]
  /\ UNCHANGED <<nClients, die, queue, live, starved>>

----------------------------------------------------------------------------
(* What the pool relies on and promises *)

Busy(w) == wpc[w] \in {"run", "finish"}

\* No wakeup is lost: while a job is queued some worker of its pool is up,
\* and while the producer sleeps for room or for a job, that is still to come.
NoLostWakeup ==
  /\ \A p \in Pools : queue[p] # << >> => Waiting(p) # Crew[p]
  /\ \A p \in starved : ~HasRoom(p)
  /\ awaited \cap finished = {}

\* A job a worker holds is its alone and has neither been deleted nor
\* finished: Worker::run still locks the Job object after start_routine.
NoJobTouchedAfterDelete ==
  \A w \in Threads : Busy(w) =>
    /\ job[w] \in live \ finished
    /\ \A v \in Threads : Busy(v) /\ job[v] = job[w] => v = w

============================================================================
