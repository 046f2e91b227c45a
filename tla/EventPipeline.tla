--------------------------- MODULE EventPipeline ---------------------------
(***************************************************************************)
(* The conversion programs (convert_raw_to_singles, ..._coincidence, ...): *)
(* RawReader::processStep reads the blocks of a step and pushes them down  *)
(* a chain of OverlappedEventHandlers that ends in a NullSink. All stages  *)
(* but the last share GlobalThreadPool; the last, WriteHelper, is a        *)
(* singleWorker stage with a pool of one thread of its own, so that the    *)
(* blocks reach the output file one at a time.                             *)
(*                                                                         *)
(* There is one main thread. Its call stack is what the recursion          *)
(* pushEvents -> extractWorker -> sink->pushEvents -> ... leaves on it:    *)
(* stage `at' is the innermost call, held[s] the block of the Worker that  *)
(* extractWorker of stage s has taken off the deque, and `draining' the    *)
(* stage whose finish() is under way (0 while RawReader still reads).      *)
(***************************************************************************)
EXTENDS ThreadPool

CONSTANTS
  NStages,       \* the OverlappedEventHandlers of the chain
  MaxBlocks,     \* bound: blocks of one step
  MaxSteps       \* bound: steps of the file

Stage == 1 .. NStages
Block == 1 .. MaxBlocks
NoBlock == 0

ASSUME PipelineAssumption ==
  /\ NStages \in Nat \ {0} /\ MaxBlocks \in Nat /\ MaxSteps \in Nat \ {0}
  /\ Pools = {"global", "single"}
  /\ Jobs = Stage \X Block
  /\ \A v, w \in Crew["single"] : v = w

VARIABLES
  step,          \* the step being processed
  nBlocks,       \* how many blocks of events it has
  nRead,         \* how many of them RawReader has read
  mpc,           \* the main thread's place in the call `at'
  at, draining, held,
  workers,       \* workers[s]: the blocks stage s has not extracted, oldest first
  outBuffer,     \* the <<stage, block>> whose Worker has its outBuffer
  written        \* the blocks WriteHelper has written in this step, in order

stackVars == <<mpc, at, draining, held>>
bufferVars == <<outBuffer, written>>
vars == <<poolVars, step, nBlocks, nRead, stackVars, workers, bufferVars>>

\* Mutant of PoolOf: WriteHelper built without singleWorker = true.
SharedPool(s) == "global"

PoolOf(s) == IF s = NStages THEN "single" ELSE "global"

Init ==
  /\ PoolInit
  /\ step = 1 /\ nBlocks \in 0 .. MaxBlocks /\ nRead = 0
  /\ mpc = "build" /\ at = NStages /\ draining = 0
  /\ held = [s \in Stage |-> NoBlock]
  /\ workers = [s \in Stage |-> << >>]
  /\ outBuffer = {} /\ written = << >>

----------------------------------------------------------------------------
(* The main thread: building the chain and reading the step *)

\* The constructors, innermost sink first.
BuildStage ==
  /\ mpc = "build"
  /\ ClientIncrease(PoolOf(at))
  /\ IF at > 1 THEN at' = at - 1 /\ UNCHANGED mpc
               ELSE mpc' = "read" /\ UNCHANGED at
  /\ UNCHANGED <<step, nBlocks, nRead, draining, held, workers, bufferVars>>

\* The next block is complete: sink->pushEvents(outBuffer).
ReadBlock ==
  /\ mpc = "read" /\ nRead < nBlocks
  /\ nRead' = nRead + 1
  /\ mpc' = "push" /\ at' = 1
  /\ UNCHANGED <<poolVars, step, nBlocks, draining, held, workers, bufferVars>>

\* The step is read: sink->finish().
ReadEnd ==
  /\ mpc = "read" /\ nRead = nBlocks
  /\ mpc' = "drain" /\ at' = 1 /\ draining' = 1
  /\ UNCHANGED <<poolVars, step, nBlocks, nRead, held, workers, bufferVars>>

----------------------------------------------------------------------------
(* The main thread: OverlappedEventHandler *)

\* The block pushEvents is called with at stage s.
InBuffer(s) == IF s = 1 THEN nRead ELSE held[s - 1]

\* pushEvents of stage s returns to its caller.
Return(s) == IF s = 1 THEN mpc' = "read" /\ at' = 1
                      ELSE mpc' = "delete" /\ at' = s - 1

\* new Worker, whose constructor queues the job.
PushEvents ==
  /\ mpc = "push" /\ at \in Stage
  /\ \/ /\ QueueJob(PoolOf(at), <<at, InBuffer(at)>>)
        /\ workers' = [workers EXCEPT ![at] = Append(@, InBuffer(at))]
        /\ mpc' = "check"
     \/ /\ WaitForRoom(PoolOf(at))
        /\ UNCHANGED <<workers, mpc>>
  /\ UNCHANGED <<step, nBlocks, nRead, at, draining, held, bufferVars>>

\* NullSink::pushEvents drops the buffer (it deletes the one before it).
PushNullSink ==
  /\ mpc = "push" /\ at = NStages + 1
  /\ Return(at)
  /\ UNCHANGED <<poolVars, step, nBlocks, nRead, draining, held, workers, bufferVars>>

\* extractWorker takes the front Worker off the deque.
Extract(s) == /\ held' = [held EXCEPT ![s] = Head(workers[s])]
              /\ workers' = [workers EXCEPT ![s] = Tail(@)]
              /\ mpc' = "wait"

FrontIsFinished(s) ==
  workers[s] # << >> /\ <<s, Head(workers[s])>> \in finished

\* pushEvents' loop: while the front Worker has finished, extract it.
CheckFront ==
  /\ mpc = "check"
  /\ \/ FrontIsFinished(at) /\ Extract(at) /\ UNCHANGED at
     \/ ~FrontIsFinished(at) /\ Return(at) /\ UNCHANGED <<held, workers>>
  /\ UNCHANGED <<poolVars, step, nBlocks, nRead, draining, bufferVars>>

\* sink->pushEvents(worker->outBuffer), which returns at once from NULL.
PushOn(s) == IF <<s, held[s]>> \in outBuffer
             THEN mpc' = "push" /\ at' = s + 1
             ELSE mpc' = "delete" /\ UNCHANGED at

\* Mutant of WaitForWorker: extractWorker without worker->wait().
NoWait ==
  /\ mpc = "wait"
  /\ PushOn(at)
  /\ UNCHANGED <<poolVars, step, nBlocks, nRead, draining, held, workers, bufferVars>>

\* worker->wait(); then the push.
WaitForWorker ==
  /\ mpc = "wait"
  /\ \/ JobDone(<<at, held[at]>>) /\ PushOn(at)
     \/ WaitForJob(<<at, held[at]>>) /\ UNCHANGED <<mpc, at>>
  /\ UNCHANGED <<step, nBlocks, nRead, draining, held, workers, bufferVars>>

\* delete worker, back in the loop extractWorker was called from.
DeleteWorker ==
  /\ mpc = "delete"
  /\ DeleteJob(<<at, held[at]>>)
  /\ outBuffer' = outBuffer \ {<<at, held[at]>>}
  /\ held' = [held EXCEPT ![at] = NoBlock]
  /\ mpc' = IF draining = at THEN "drain" ELSE "check"
  /\ UNCHANGED <<step, nBlocks, nRead, at, draining, workers, written>>

\* Mutant of Drain: finish() of a stage does not finish its sink.
DrainFirstStage ==
  /\ mpc = "drain"
  /\ \/ workers[at] # << >> /\ Extract(at) /\ UNCHANGED <<at, draining>>
     \/ /\ workers[at] = << >>
        /\ mpc' = "destroy" /\ at' = 1 /\ draining' = 0
        /\ UNCHANGED <<held, workers>>
  /\ UNCHANGED <<poolVars, step, nBlocks, nRead, bufferVars>>

\* finish(): extract every Worker, then finish the sink.
Drain ==
  /\ mpc = "drain"
  /\ \/ workers[at] # << >> /\ Extract(at) /\ UNCHANGED <<at, draining>>
     \/ /\ workers[at] = << >> /\ at < NStages
        /\ at' = at + 1 /\ draining' = at + 1
        /\ UNCHANGED <<mpc, held, workers>>
     \/ /\ workers[at] = << >> /\ at = NStages
        /\ mpc' = "destroy" /\ at' = 1 /\ draining' = 0
        /\ UNCHANGED <<held, workers>>
  /\ UNCHANGED <<poolVars, step, nBlocks, nRead, bufferVars>>

----------------------------------------------------------------------------
(* The main thread: delete sink *)

\* The destructor of the next stage; past the last one NullSink's, which
\* ends processStep.
NextStage ==
  IF at < NStages
  THEN /\ mpc' = "destroy" /\ at' = at + 1
       /\ UNCHANGED <<step, nBlocks, nRead, written>>
  ELSE /\ nRead' = 0 /\ written' = << >>
       /\ at' = NStages
       /\ IF step < MaxSteps
          THEN mpc' = "build" /\ step' = step + 1 /\ nBlocks' \in 0 .. MaxBlocks
          ELSE mpc' = "done" /\ UNCHANGED <<step, nBlocks>>

DestroyStage ==
  /\ mpc = "destroy"
  /\ ClientDecrease(PoolOf(at))
  /\ IF nClients[PoolOf(at)] > 1
     THEN NextStage
     ELSE /\ mpc' = "broadcast"
          /\ UNCHANGED <<step, nBlocks, nRead, at, written>>
  /\ UNCHANGED <<draining, held, workers, outBuffer>>

WakeWorkers ==
  /\ mpc = "broadcast"
  /\ BroadcastDie(PoolOf(at))
  /\ mpc' = "join"
  /\ UNCHANGED <<step, nBlocks, nRead, at, draining, held, workers, bufferVars>>

JoinAndGoOn ==
  /\ mpc = "join"
  /\ JoinWorkers(PoolOf(at))
  /\ NextStage
  /\ UNCHANGED <<draining, held, workers, outBuffer>>

Main == \/ BuildStage \/ ReadBlock \/ ReadEnd
        \/ PushEvents \/ PushNullSink
        \/ CheckFront \/ WaitForWorker \/ DeleteWorker \/ Drain
        \/ DestroyStage \/ WakeWorkers \/ JoinAndGoOn

----------------------------------------------------------------------------
(* The workers *)

\* OverlappedEventHandler::Worker::run: handleEvents leaves the outBuffer;
\* that of WriteHelper also writes the block to the file.
HandleEvents(w) ==
  /\ WorkerRun(w)
  /\ outBuffer' = outBuffer \cup {job[w]}
  /\ written' = IF job[w][1] = NStages THEN Append(written, job[w][2]) ELSE written
  /\ UNCHANGED <<step, nBlocks, nRead, stackVars, workers>>

Worker(w) ==
  \/ /\ (\E p \in Pools : w \in Crew[p] /\ WorkerTake(p, w)) \/ WorkerFinish(w)
     /\ UNCHANGED <<step, nBlocks, nRead, stackVars, workers, bufferVars>>
  \/ HandleEvents(w)

Wakeup ==
  /\ SpuriousWakeup
  /\ UNCHANGED <<step, nBlocks, nRead, stackVars, workers, bufferVars>>

Done == mpc = "done" /\ UNCHANGED vars

Next == Main \/ (\E w \in Threads : Worker(w)) \/ Wakeup \/ Done

Spec == Init /\ [][Next]_vars

\* Every thread is scheduled, every handleEvents returns; nobody counts on a
\* spurious wakeup.
FairSpec == /\ Spec
            /\ WF_vars(Main)
            /\ \A w \in Threads : WF_vars(Worker(w))

----------------------------------------------------------------------------
(* Properties *)

TypeOK ==
  /\ nClients \in [Pools -> 0 .. NStages]
  /\ die \in [Pools -> BOOLEAN]
  /\ queue \in [Pools -> Seq(Jobs)]
  /\ \A p \in Pools : Len(queue[p]) <= MaxQueueSize(p)
  /\ wpc \in [Threads -> {"none", "loop", "waiting", "run", "finish", "exited"}]
  /\ job \in [Threads -> Jobs \cup {NoJob}]
  /\ live \subseteq Jobs /\ finished \subseteq Jobs /\ awaited \subseteq Jobs
  /\ starved \subseteq Pools
  /\ step \in 1 .. MaxSteps /\ nBlocks \in 0 .. MaxBlocks /\ nRead \in 0 .. nBlocks
  /\ mpc \in {"build", "read", "push", "check", "wait", "delete", "drain",
              "destroy", "broadcast", "join", "done"}
  /\ at \in 1 .. NStages + 1 /\ draining \in 0 .. NStages
  /\ held \in [Stage -> 0 .. MaxBlocks]
  /\ workers \in [Stage -> Seq(Block)]
  /\ outBuffer \subseteq Jobs
  /\ written \in Seq(Block)

\* When the destructors run nothing of the step is left behind: a worker
\* that sees die leaves, whatever is still queued.
NothingLeftAtDestroy ==
  mpc \in {"destroy", "broadcast", "join"} =>
    /\ live = {}
    /\ \A p \in Pools : queue[p] = << >>
    /\ \A w \in Threads : ~Busy(w)

\* The state of the pipeline fits together: the types, the sleepers and what is
\* left at the end.
PipelineInv == TypeOK /\ NoLostWakeup /\ NothingLeftAtDestroy

\* Whatever the workers' speed, the file gets the blocks of a step once each
\* and in order, and the step ends only when it has them all.
Abstract == INSTANCE EventStream

WritesEventStream == Abstract!Spec

\* Every step is read to its end and every worker thread is joined.
ConversionEnds == <>(mpc = "done" /\ \A w \in Threads : wpc[w] = "none")

============================================================================
