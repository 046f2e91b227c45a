------------------------ MODULE EventPipeline_proofs ------------------------
(***************************************************************************)
(* EventPipeline and the ThreadPool under it: the inductive invariant, and *)
(* what follows from it for chains of any length, any number of blocks and *)
(* steps, and pools of any number of threads.                              *)
(***************************************************************************)
EXTENDS EventPipeline, FiniteSetTheorems, SequenceTheorems, WellFoundedInduction, TLAPS

Outside == {"build", "read", "destroy", "broadcast", "join", "done"}
InStage == {"build", "check", "wait", "delete", "drain", "destroy", "broadcast", "join", "done"}
Within == {"push", "check", "wait", "delete"}
NoStep == {"build", "destroy", "broadcast", "join", "done"}

\* The call stack: the stages from the one draining to the call under way hold
\* a block each.
Stack ==
  /\ mpc \in Outside => draining = 0 /\ \A s \in Stage : held[s] = NoBlock
  /\ mpc \in InStage => at \in Stage
  /\ mpc = "read" => at = 1
  /\ mpc = "drain" => draining = at /\ \A s \in Stage : held[s] = NoBlock
  /\ mpc \in {"push", "check"} => draining < at
  /\ mpc \in {"wait", "delete"} => draining <= at
  /\ mpc \in Within =>
       \A s \in Stage : held[s] # NoBlock <=>
         draining <= s /\ (s < at \/ (s = at /\ mpc \in {"wait", "delete"}))

\* What has been read when, and which deques are empty.
Phases ==
  /\ draining > 0 \/ mpc \in {"destroy", "broadcast", "join"} => nRead = nBlocks
  /\ mpc \in {"build", "done"} => nRead = 0
  /\ \A s \in Stage : s < draining \/ mpc \in NoStep => workers[s] = << >>

\* Which stages are clients of the pools.
Clients ==
  /\ nClients["single"] =
       CASE mpc = "build" -> IF at = NStages THEN 0 ELSE 1
         [] mpc \in {"broadcast", "join"} -> IF at = NStages THEN 0 ELSE 1
         [] mpc = "done" -> 0
         [] OTHER -> 1
  /\ nClients["global"] =
       CASE mpc = "build" -> IF at = NStages THEN 0 ELSE NStages - 1 - at
         [] mpc = "destroy" -> NStages - at
         [] mpc \in {"broadcast", "join"} -> IF at = NStages THEN 0 ELSE NStages - 1 - at
         [] mpc = "done" -> 0
         [] OTHER -> NStages - 1

\* The block of stage s is on its way to the next one.
Pending(s) == held[s] # NoBlock /\ ((mpc = "wait" /\ at = s) \/ (mpc = "push" /\ at = s + 1))

\* Every stage has been given the first blocks of the step, in order: got[s] of
\* them, of which it has passed on all that are not in its deque.
Got == [1 .. NStages + 1 -> 0 .. MaxBlocks]
Flow(got) ==
  /\ got[1] = IF mpc = "push" /\ at = 1 THEN nRead - 1 ELSE nRead
  /\ \A s \in Stage :
       /\ Len(workers[s]) <= got[s]
       /\ \A i \in 1 .. Len(workers[s]) : workers[s][i] = got[s] - Len(workers[s]) + i
       /\ held[s] # NoBlock => held[s] = got[s] - Len(workers[s])
       /\ got[s + 1] = got[s] - Len(workers[s]) - (IF Pending(s) THEN 1 ELSE 0)

\* The pool of the last stage has one thread: it writes what it takes, in order.
WrittenInOrder(got) ==
  /\ \A i \in 1 .. Len(queue["single"]) :
       queue["single"][i] = <<NStages, got[NStages] - Len(queue["single"]) + i>>
  /\ \A w \in Crew["single"] :
       /\ wpc[w] = "run" => /\ job[w] = <<NStages, Len(written) + 1>>
                            /\ Len(written) + 1 = got[NStages] - Len(queue["single"])
       /\ wpc[w] # "run" => Len(written) = got[NStages] - Len(queue["single"])
  /\ \A i \in 1 .. Len(written) : written[i] = i

InOrder == \E got \in Got : Flow(got) /\ WrittenInOrder(got)

\* A Job object lives while its Worker is in a deque or held, and is in one place
\* of the pool until it has finished.
HasWorker(s, b) == b = held[s] \/ \E i \in 1 .. Len(workers[s]) : workers[s][i] = b
Alive == \A s \in Stage, b \in Block : <<s, b>> \in live <=> HasWorker(s, b)
Unfinished(p, j) == j \in live \ finished /\ PoolOf(j[1]) = p
Queued ==
  /\ \A p \in Pools : \A i \in 1 .. Len(queue[p]) : Unfinished(p, queue[p][i])
  /\ \A p \in Pools : \A i, k \in 1 .. Len(queue[p]) : queue[p][i] = queue[p][k] => i = k
Taken ==
  /\ \A p \in Pools : \A w \in Crew[p] : Busy(w) =>
       /\ Unfinished(p, job[w])
       /\ \A i \in 1 .. Len(queue[p]) : queue[p][i] # job[w]
  /\ \A v, w \in Threads : Busy(v) /\ Busy(w) /\ job[v] = job[w] => v = w
  /\ \A w \in Threads : wpc[w] = "finish" => job[w] \in outBuffer

\* A block that has gone on is one whose job has finished, and that has a buffer.
Finished ==
  /\ finished \subseteq live /\ finished \subseteq outBuffer
  /\ \A s \in Stage : held[s] # NoBlock /\ ~(mpc = "wait" /\ at = s) => <<s, held[s]>> \in finished

Inv ==
  /\ TypeOK /\ NoLostWakeup /\ Stack /\ Phases /\ Clients /\ InOrder
  /\ Alive /\ Queued /\ Taken /\ Finished

----------------------------------------------------------------------------
(* What holds of the constants and of the types. *)

LEMMA PoolFacts ==
  /\ Pools = {"global", "single"} /\ "single" \in Pools /\ "global" \in Pools
  /\ \A s : PoolOf(s) \in Pools /\ (PoolOf(s) = "single" <=> s = NStages)
  /\ NStages \in Nat /\ NStages >= 1 /\ NStages \in Stage /\ 1 \in Stage /\ MaxBlocks \in Nat /\ MaxSteps \in Nat
  /\ Jobs = Stage \X Block /\ NoJob \notin Jobs
BY CrewAssumption, PipelineAssumption DEF PoolOf, Stage

LEMMA CrewFacts ==
  /\ \A w : w \in Threads <=> \E p \in Pools : w \in Crew[p]
  /\ \A p \in Pools : Crew[p] # {} /\ Crew[p] \subseteq Threads
  /\ \A p, q \in Pools : \A w : w \in Crew[p] /\ w \in Crew[q] => p = q
  /\ \A v, w \in Crew["single"] : v = w
<1>1. \A w : w \in Threads <=> \E p \in Pools : w \in Crew[p]
  BY DEF Threads
<1>2. \A p \in Pools : Crew[p] # {} /\ \A q \in Pools : p # q => Crew[p] \cap Crew[q] = {}
  BY CrewAssumption
<1>3. QED
  BY <1>1, <1>2, PipelineAssumption

LEMMA RoomFacts == \A p \in Pools : MaxQueueSize(p) \in Nat /\ MaxQueueSize(p) >= 1
<1>1. SUFFICES ASSUME NEW p \in Pools PROVE MaxQueueSize(p) \in Nat /\ MaxQueueSize(p) >= 1
  OBVIOUS
<1>2. Cardinality(Crew[p]) \in Nat
  BY CrewAssumption, FS_CardinalityType
<1>3. QED
  BY <1>2 DEF MaxQueueSize

LEMMA TypeFacts ==
  ASSUME Inv
  PROVE  /\ queue \in [Pools -> Seq(Jobs)] /\ workers \in [Stage -> Seq(Block)]
         /\ held \in [Stage -> 0 .. MaxBlocks] /\ written \in Seq(Block)
         /\ nClients \in [Pools -> 0 .. NStages] /\ die \in [Pools -> BOOLEAN]
         /\ wpc \in [Threads -> {"none", "loop", "waiting", "run", "finish", "exited"}]
         /\ job \in [Threads -> Jobs \cup {NoJob}]
         /\ live \subseteq Jobs /\ finished \subseteq Jobs /\ awaited \subseteq Jobs
         /\ outBuffer \subseteq Jobs /\ starved \subseteq Pools
         /\ nRead \in Nat /\ nBlocks \in Nat /\ nRead <= nBlocks /\ nBlocks <= MaxBlocks
         /\ at \in Nat /\ at >= 1 /\ at <= NStages + 1 /\ draining \in Nat /\ draining <= NStages
         /\ \A s \in Stage : s \in Nat /\ s >= 1 /\ s <= NStages /\ Len(workers[s]) \in Nat
                             /\ \A i \in 1 .. Len(workers[s]) : workers[s][i] \in Block
         /\ \A b \in Block : b \in Nat /\ b # NoBlock
         /\ MaxBlocks \in Nat /\ NStages \in Nat
<1>1. TypeOK
  BY DEF Inv
<1>2. /\ MaxBlocks \in Nat /\ NStages \in Nat /\ nBlocks \in 0 .. MaxBlocks /\ nRead \in 0 .. nBlocks
      /\ at \in 1 .. NStages + 1 /\ draining \in 0 .. NStages /\ workers \in [Stage -> Seq(Block)]
  BY <1>1, PoolFacts DEF TypeOK
<1>3. \A s \in Stage : /\ s \in Nat /\ s >= 1 /\ s <= NStages /\ Len(workers[s]) \in Nat
                       /\ \A i \in 1 .. Len(workers[s]) : workers[s][i] \in Block
  BY <1>2 DEF Stage
<1>4. \A b \in Block : b \in Nat /\ b # NoBlock
  BY <1>2 DEF Block, NoBlock
<1>5. QED
  BY <1>1, <1>2, <1>3, <1>4 DEF TypeOK

----------------------------------------------------------------------------
(* The main thread's stack, the phases of a step and the clients of the pools. *)

LEMMA StackStays ==
  ASSUME Stack, Phases, Clients, UNCHANGED <<mpc, at, draining, held, nRead, nBlocks, workers, nClients>>
  PROVE  (Stack /\ Phases /\ Clients)'
BY DEF Stack, Phases, Clients

LEMMA BuildStack ==
  ASSUME Inv, BuildStage
  PROVE  (Stack /\ Phases /\ Clients)'
<1>1. /\ mpc = "build" /\ UNCHANGED <<nBlocks, nRead, draining, held, workers>>
      /\ nClients' = [nClients EXCEPT ![PoolOf(at)] = @ + 1]
      /\ IF at > 1 THEN at' = at - 1 /\ mpc' = mpc ELSE mpc' = "read" /\ at' = at
  BY DEF BuildStage, ClientIncrease
<1>2. at \in Stage /\ at \in Nat /\ at >= 1 /\ at <= NStages /\ NStages \in Nat /\ draining = 0 /\ nRead = 0
  BY <1>1, TypeFacts DEF Inv, Stack, InStage, Outside, Phases
<1>3. Stack'
  <2>1. CASE at > 1
    BY <1>1, <1>2, <2>1 DEF Inv, Stack, Outside, InStage, Within, Stage
  <2>2. CASE at = 1
    BY <1>1, <1>2, <2>2 DEF Inv, Stack, Outside, InStage, Within, Stage
  <2>3. QED
    BY <1>2, <2>1, <2>2
<1>4. Phases'
  BY <1>1, <1>2, TypeFacts DEF Inv, Phases, NoStep
<1>5. Clients'
  <2>1. nClients \in [Pools -> 0 .. NStages]
    BY TypeFacts
  <2>2. /\ nClients["single"] = IF at = NStages THEN 0 ELSE 1
        /\ nClients["global"] = IF at = NStages THEN 0 ELSE NStages - 1 - at
    BY <1>1 DEF Inv, Clients
  <2>3. CASE at = NStages
    <3>1. nClients'["single"] = 1 /\ nClients'["global"] = 0
      BY <1>1, <2>1, <2>2, <2>3, PoolFacts
    <3>2. QED
      BY <1>1, <1>2, <2>3, <3>1 DEF Clients
  <2>4. CASE at # NStages
    <3>1. nClients'["single"] = 1 /\ nClients'["global"] = NStages - 1 - at + 1
      BY <1>1, <1>2, <2>1, <2>2, <2>4, PoolFacts
    <3>2. QED
      BY <1>1, <1>2, <2>4, <3>1 DEF Clients
  <2>5. QED
    BY <2>3, <2>4
<1>6. QED
  BY <1>3, <1>4, <1>5

LEMMA ReadStack ==
  ASSUME Inv, ReadBlock \/ ReadEnd
  PROVE  (Stack /\ Phases /\ Clients)'
<1>1. /\ mpc = "read" /\ UNCHANGED <<nBlocks, held, workers, nClients>> /\ at' = 1
      /\ \/ nRead < nBlocks /\ nRead' = nRead + 1 /\ mpc' = "push" /\ draining' = draining
         \/ nRead = nBlocks /\ nRead' = nRead /\ mpc' = "drain" /\ draining' = 1
  BY DEF ReadBlock, ReadEnd, poolVars
<1>2. at = 1 /\ draining = 0 /\ \A s \in Stage : held[s] = NoBlock
  BY <1>1 DEF Inv, Stack, Outside
<1>3. Stack'
  BY <1>1, <1>2, TypeFacts, PoolFacts DEF Stack, Outside, InStage, Within
<1>4. Phases'
  BY <1>1, <1>2, TypeFacts DEF Inv, Phases, NoStep
<1>5. Clients'
  BY <1>1 DEF Inv, Clients
<1>6. QED
  BY <1>3, <1>4, <1>5

LEMMA PushStack ==
  ASSUME Inv, PushEvents \/ PushNullSink
  PROVE  (Stack /\ Phases /\ Clients)'
<1>1. /\ mpc = "push" /\ UNCHANGED <<nBlocks, nRead, held, draining, nClients>>
      /\ \/ at \in Stage /\ mpc' = "check" /\ at' = at
            /\ workers' = [workers EXCEPT ![at] = Append(@, InBuffer(at))]
         \/ mpc' = mpc /\ at' = at /\ workers' = workers
         \/ at = NStages + 1 /\ mpc' = "delete" /\ at' = at - 1 /\ workers' = workers
  <2>1. CASE PushEvents
    BY <2>1 DEF PushEvents, QueueJob, WaitForRoom
  <2>2. CASE PushNullSink
    <3>1. at = NStages + 1 /\ at # 1
      <4>1. at = NStages + 1
        BY <2>2 DEF PushNullSink
      <4>2. QED
        BY <4>1, PoolFacts
    <3>2. QED
      BY <2>2, <3>1 DEF PushNullSink, Return, poolVars
  <2>3. QED
    BY <2>1, <2>2
<1>2. /\ draining < at
      /\ \A s \in Stage : held[s] # NoBlock <=> draining <= s /\ s < at
  BY <1>1 DEF Inv, Stack, Within
<1>3. Stack'
  <2>1. CASE mpc' = "check" /\ at' = at /\ at \in Stage
    BY <1>1, <1>2, <2>1 DEF Stack, Outside, InStage, Within
  <2>2. CASE mpc' = mpc /\ at' = at
    BY <1>1, <2>2 DEF Inv, Stack
  <2>3. CASE mpc' = "delete" /\ at' = at - 1 /\ at = NStages + 1
    <3>1. at' \in Stage /\ draining <= at' /\ \A s \in Stage : s < at <=> s < at' \/ s = at'
      BY <1>2, <2>3, TypeFacts, PoolFacts DEF Stage
    <3>2. QED
      BY <1>1, <1>2, <2>3, <3>1 DEF Stack, Outside, InStage, Within
  <2>4. QED
    BY <1>1, <2>1, <2>2, <2>3
<1>4. Phases'
  <2>1. \A s \in Stage : s < draining => workers'[s] = << >>
    BY <1>1, <1>2, TypeFacts DEF Inv, Phases
  <2>2. QED
    BY <1>1, <2>1 DEF Inv, Phases, NoStep
<1>5. Clients'
  BY <1>1 DEF Inv, Clients
<1>6. QED
  BY <1>3, <1>4, <1>5

\* A Worker taken off the front of a deque.
LEMMA Extracted ==
  ASSUME NEW s, Inv, s \in Stage, Extract(s), workers[s] # << >>
  PROVE  /\ held' = [held EXCEPT ![s] = workers[s][1]] /\ workers[s][1] \in Block
         /\ workers'[s] = Tail(workers[s]) /\ Len(workers'[s]) = Len(workers[s]) - 1
         /\ \A i \in 1 .. Len(workers[s]) - 1 : workers'[s][i] = workers[s][i + 1]
         /\ \A t \in Stage : t # s => workers'[t] = workers[t] /\ held'[t] = held[t]
         /\ held'[s] = workers[s][1] /\ mpc' = "wait" /\ workers' \in [Stage -> Seq(Block)]
         /\ Len(workers[s]) > 0
<1>1. workers \in [Stage -> Seq(Block)] /\ held \in [Stage -> 0 .. MaxBlocks]
  BY TypeFacts
<1>2. PICK l \in Seq(Block) : l = workers[s]
  BY <1>1
<1>3. l # << >> /\ Len(l) \in Nat /\ Len(l) > 0 /\ Head(l) = l[1] /\ l[1] \in Block
  BY <1>2
<1>4. PICK t \in Seq(Block) : t = Tail(l)
  BY <1>2, <1>3, HeadTailProperties
<1>5. Len(t) = Len(l) - 1 /\ \A i \in 1 .. Len(l) - 1 : t[i] = l[i + 1]
  BY <1>3, <1>4
<1>6. /\ held' = [held EXCEPT ![s] = l[1]] /\ workers' = [workers EXCEPT ![s] = t] /\ mpc' = "wait"
  BY <1>2, <1>3, <1>4 DEF Extract
<1>7. workers'[s] = t /\ held'[s] = l[1] /\ workers' \in [Stage -> Seq(Block)]
      /\ \A u \in Stage : u # s => workers'[u] = workers[u] /\ held'[u] = held[u]
  BY <1>1, <1>6
<1>8. QED
  BY <1>2, <1>3, <1>4, <1>5, <1>6, <1>7

LEMMA CheckStack ==
  ASSUME Inv, CheckFront
  PROVE  (Stack /\ Phases /\ Clients)'
<1>1. /\ mpc = "check" /\ UNCHANGED <<nBlocks, nRead, draining, nClients>>
      /\ \/ FrontIsFinished(at) /\ Extract(at) /\ at' = at
         \/ Return(at) /\ held' = held /\ workers' = workers
  BY DEF CheckFront, poolVars
<1>2. /\ draining < at /\ at \in Stage
      /\ \A s \in Stage : held[s] # NoBlock <=> draining <= s /\ s < at
  BY <1>1 DEF Inv, Stack, Within, InStage
<1>3. CASE FrontIsFinished(at) /\ Extract(at) /\ at' = at
  <2>1. /\ workers[at] # << >> /\ mpc' = "wait" /\ held'[at] \in Block
        /\ \A t \in Stage : t # at => workers'[t] = workers[t] /\ held'[t] = held[t]
    <3>1. workers[at] # << >> /\ Extract(at)
      BY <1>3 DEF FrontIsFinished
    <3>2. QED
      BY <1>2, <3>1, Extracted
  <2>2. \A s \in Stage : held'[s] # NoBlock <=> draining <= s /\ (s < at \/ s = at)
    <3>1. held'[at] # NoBlock /\ draining \in Nat /\ at \in Nat /\ ~(at < at)
      BY <2>1, TypeFacts
    <3>2. ASSUME NEW s \in Stage PROVE held'[s] # NoBlock <=> draining <= s /\ (s < at \/ s = at)
      <4>1. CASE s = at
        BY <1>2, <3>1, <4>1
      <4>2. CASE s # at
        BY <1>2, <2>1, <4>2
      <4>3. QED
        BY <4>1, <4>2
    <3>3. QED
      BY <3>2
  <2>3. Stack'
    BY <1>1, <1>2, <1>3, <2>1, <2>2, TypeFacts DEF Stack, Outside, InStage, Within
  <2>4. \A s \in Stage : s < draining => workers'[s] = << >>
    BY <1>2, <2>1, TypeFacts DEF Inv, Phases
  <2>5. Phases'
    BY <1>1, <2>1, <2>4 DEF Inv, Phases, NoStep
  <2>6. Clients'
    BY <1>1, <2>1 DEF Inv, Clients
  <2>7. QED
    BY <2>3, <2>5, <2>6
<1>4. CASE Return(at) /\ held' = held /\ workers' = workers
  <2>1. CASE at = 1
    <3>1. mpc' = "read" /\ at' = 1 /\ draining = 0 /\ \A s \in Stage : held[s] = NoBlock
      BY <1>2, <1>4, <2>1, TypeFacts DEF Return
    <3>2. Stack'
      BY <1>1, <1>4, <3>1 DEF Stack, Outside, InStage, Within
    <3>3. Phases' /\ Clients'
      BY <1>1, <1>4, <3>1 DEF Inv, Phases, Clients, NoStep
    <3>4. QED
      BY <3>2, <3>3
  <2>2. CASE at # 1
    <3>1. /\ mpc' = "delete" /\ at' = at - 1 /\ at' \in Stage /\ draining <= at'
          /\ \A s \in Stage : s < at <=> s < at' \/ s = at'
      BY <1>2, <1>4, <2>2, TypeFacts DEF Return, Stage
    <3>2. Stack'
      BY <1>1, <1>2, <1>4, <3>1 DEF Stack, Outside, InStage, Within
    <3>3. Phases' /\ Clients'
      BY <1>1, <1>4, <3>1 DEF Inv, Phases, Clients, NoStep
    <3>4. QED
      BY <3>2, <3>3
  <2>3. QED
    BY <2>1, <2>2
<1>5. QED
  BY <1>1, <1>3, <1>4

LEMMA WaitStack ==
  ASSUME Inv, WaitForWorker
  PROVE  (Stack /\ Phases /\ Clients)'
<1>1. /\ mpc = "wait" /\ UNCHANGED <<nBlocks, nRead, draining, nClients, held, workers>>
      /\ \/ JobDone(<<at, held[at]>>) /\ PushOn(at)
         \/ mpc' = mpc /\ at' = at
  BY DEF WaitForWorker, JobDone, WaitForJob, poolVars
<1>2. /\ draining <= at /\ at \in Stage /\ held[at] # NoBlock
      /\ \A s \in Stage : held[s] # NoBlock <=> draining <= s /\ (s < at \/ s = at)
  BY <1>1 DEF Inv, Stack, Within, InStage
<1>3. CASE JobDone(<<at, held[at]>>) /\ PushOn(at)
  <2>1. CASE <<at, held[at]>> \in outBuffer
    <3>1. /\ mpc' = "push" /\ at' = at + 1 /\ draining < at'
          /\ \A s \in Stage : s < at' <=> s < at \/ s = at
      <4>1. mpc' = "push" /\ at' = at + 1
        BY <1>3, <2>1 DEF PushOn
      <4>2. at \in Nat /\ draining \in Nat /\ \A s \in Stage : s \in Nat
        BY TypeFacts
      <4>3. draining <= at
        BY <1>2
      <4>4. QED
        BY <4>1, <4>2, <4>3
    <3>2. Stack'
      BY <1>1, <1>2, <3>1 DEF Stack, Outside, InStage, Within
    <3>3. Phases' /\ Clients'
      BY <1>1, <3>1 DEF Inv, Phases, Clients, NoStep
    <3>4. QED
      BY <3>2, <3>3
  <2>2. CASE <<at, held[at]>> \notin outBuffer
    <3>1. mpc' = "delete" /\ at' = at
      BY <1>3, <2>2 DEF PushOn
    <3>2. Stack'
      BY <1>1, <1>2, <3>1 DEF Stack, Outside, InStage, Within
    <3>3. Phases' /\ Clients'
      BY <1>1, <3>1 DEF Inv, Phases, Clients, NoStep
    <3>4. QED
      BY <3>2, <3>3
  <2>3. QED
    BY <2>1, <2>2
<1>4. CASE mpc' = mpc /\ at' = at
  BY <1>1, <1>4, StackStays DEF Inv
<1>5. QED
  BY <1>1, <1>3, <1>4

LEMMA DeleteStack ==
  ASSUME Inv, DeleteWorker
  PROVE  (Stack /\ Phases /\ Clients)'
<1>1. /\ mpc = "delete" /\ UNCHANGED <<nBlocks, nRead, at, draining, nClients, workers>>
      /\ held' = [held EXCEPT ![at] = NoBlock]
      /\ mpc' = IF draining = at THEN "drain" ELSE "check"
  BY DEF DeleteWorker, DeleteJob
<1>2. /\ draining <= at /\ at \in Stage
      /\ \A s \in Stage : held[s] # NoBlock <=> draining <= s /\ (s < at \/ s = at)
  BY <1>1 DEF Inv, Stack, Within, InStage
<1>3. \A s \in Stage : held'[s] # NoBlock <=> draining <= s /\ s < at
  BY <1>1, <1>2, TypeFacts
<1>4. CASE draining = at
  <2>1. mpc' = "drain" /\ \A s \in Stage : held'[s] = NoBlock
    BY <1>1, <1>2, <1>3, <1>4, TypeFacts
  <2>2. Stack'
    BY <1>1, <1>2, <1>4, <2>1 DEF Stack, Outside, InStage, Within
  <2>3. Phases' /\ Clients'
    BY <1>1, <2>1 DEF Inv, Phases, Clients, NoStep
  <2>4. QED
    BY <2>2, <2>3
<1>5. CASE draining # at
  <2>1. mpc' = "check" /\ draining < at
    BY <1>1, <1>2, <1>5, TypeFacts
  <2>2. Stack'
    BY <1>1, <1>2, <1>3, <2>1 DEF Stack, Outside, InStage, Within
  <2>3. Phases' /\ Clients'
    BY <1>1, <2>1 DEF Inv, Phases, Clients, NoStep
  <2>4. QED
    BY <2>2, <2>3
<1>6. QED
  BY <1>4, <1>5

LEMMA DrainStack ==
  ASSUME Inv, Drain
  PROVE  (Stack /\ Phases /\ Clients)'
<1>1. /\ mpc = "drain" /\ UNCHANGED <<nBlocks, nRead, nClients>>
      /\ \/ workers[at] # << >> /\ Extract(at) /\ at' = at /\ draining' = draining
         \/ /\ workers[at] = << >> /\ at < NStages /\ at' = at + 1 /\ draining' = at + 1
            /\ mpc' = mpc /\ held' = held /\ workers' = workers
         \/ /\ workers[at] = << >> /\ at = NStages /\ mpc' = "destroy" /\ at' = 1 /\ draining' = 0
            /\ held' = held /\ workers' = workers
  BY DEF Drain, poolVars
<1>2. draining = at /\ at \in Stage /\ \A s \in Stage : held[s] = NoBlock
  BY <1>1 DEF Inv, Stack, InStage
<1>3. nRead = nBlocks /\ \A s \in Stage : s < draining => workers[s] = << >>
  BY <1>2, TypeFacts DEF Inv, Phases
<1>4. at \in Nat /\ at >= 1 /\ NStages \in Nat /\ \A s \in Stage : s \in Nat /\ s >= 1 /\ s <= NStages
  BY <1>2, TypeFacts
<1>5. CASE workers[at] # << >> /\ Extract(at) /\ at' = at /\ draining' = draining
  <2>1. /\ mpc' = "wait" /\ held'[at] \in Block
        /\ \A t \in Stage : t # at => workers'[t] = workers[t] /\ held'[t] = held[t]
    BY <1>2, <1>5, Extracted
  <2>2. \A s \in Stage : held'[s] # NoBlock <=> draining <= s /\ (s < at \/ s = at)
    <3>1. \A s \in Stage : held'[s] # NoBlock <=> s = at
      BY <1>2, <2>1, TypeFacts
    <3>2. \A s \in Stage : s = at <=> draining <= s /\ (s < at \/ s = at)
      BY <1>2, <1>4
    <3>3. QED
      BY <3>1, <3>2
  <2>3. Stack'
    BY <1>2, <1>4, <1>5, <2>1, <2>2 DEF Stack, Outside, InStage, Within
  <2>4. \A s \in Stage : s < draining => workers'[s] = << >>
    BY <1>2, <1>3, <1>4, <2>1
  <2>5. Phases'
    BY <1>1, <1>3, <1>5, <2>1, <2>4 DEF Phases, NoStep
  <2>6. Clients'
    BY <1>1, <2>1 DEF Inv, Clients
  <2>7. QED
    BY <2>3, <2>5, <2>6
<1>6. CASE /\ workers[at] = << >> /\ at < NStages /\ at' = at + 1 /\ draining' = at + 1
           /\ mpc' = mpc /\ held' = held /\ workers' = workers
  <2>1. at' \in Stage
    BY <1>4, <1>6 DEF Stage
  <2>2. Stack'
    BY <1>1, <1>2, <1>6, <2>1 DEF Stack, Outside, InStage, Within
  <2>3. \A s \in Stage : s < draining' => workers'[s] = << >>
    BY <1>2, <1>3, <1>4, <1>6
  <2>4. Phases'
    BY <1>1, <1>3, <1>6, <2>3 DEF Phases, NoStep
  <2>5. Clients'
    BY <1>1, <1>6 DEF Inv, Clients
  <2>6. QED
    BY <2>2, <2>4, <2>5
<1>7. CASE /\ workers[at] = << >> /\ at = NStages /\ mpc' = "destroy" /\ at' = 1 /\ draining' = 0
           /\ held' = held /\ workers' = workers
  <2>1. Stack'
    BY <1>2, <1>7, PoolFacts DEF Stack, Outside, InStage, Within
  <2>2. \A s \in Stage : workers'[s] = << >>
    BY <1>2, <1>3, <1>4, <1>7
  <2>3. Phases'
    BY <1>1, <1>3, <1>7, <2>2 DEF Phases, NoStep
  <2>4. Clients'
    <3>1. nClients["single"] = 1 /\ nClients["global"] = NStages - 1
      BY <1>1 DEF Inv, Clients
    <3>2. QED
      BY <1>1, <1>7, <3>1 DEF Clients
  <2>5. QED
    BY <2>1, <2>3, <2>4
<1>8. QED
  BY <1>1, <1>5, <1>6, <1>7

\* Past the last stage, a new step or the end.
LEMMA NextStageIs ==
  ASSUME NextStage, at \in Stage
  PROVE  \/ /\ at < NStages /\ mpc' = "destroy" /\ at' = at + 1
            /\ UNCHANGED <<step, nBlocks, nRead, written>>
         \/ /\ at = NStages /\ nRead' = 0 /\ written' = << >> /\ at' = NStages
            /\ \/ step < MaxSteps /\ mpc' = "build" /\ step' = step + 1 /\ nBlocks' \in 0 .. MaxBlocks
               \/ mpc' = "done" /\ step' = step /\ nBlocks' = nBlocks
<1>1. CASE at < NStages
  BY <1>1 DEF NextStage
<1>2. CASE ~(at < NStages)
  <2>1. at = NStages
    BY <1>2, PoolFacts DEF Stage
  <2>2. QED
    BY <1>2, <2>1 DEF NextStage
<1>3. QED
  BY <1>1, <1>2

LEMMA EndsStack ==
  ASSUME Inv, DestroyStage \/ WakeWorkers \/ JoinAndGoOn
  PROVE  (Stack /\ Phases /\ Clients)'
<1>1. /\ mpc \in {"destroy", "broadcast", "join"} /\ UNCHANGED <<draining, held, workers>>
  BY DEF DestroyStage, WakeWorkers, JoinAndGoOn
<1>2. /\ at \in Stage /\ draining = 0 /\ nRead = nBlocks
      /\ \A s \in Stage : held[s] = NoBlock /\ workers[s] = << >>
  BY <1>1 DEF Inv, Stack, Outside, InStage, Phases, NoStep
<1>3. /\ at \in Nat /\ at >= 1 /\ at <= NStages /\ NStages \in Nat /\ nClients \in [Pools -> 0 .. NStages]
  BY <1>2, TypeFacts
<1>4. ASSUME mpc' \in {"build", "done", "destroy", "broadcast", "join"}, at' \in Stage
      PROVE  Stack'
  BY <1>1, <1>2, <1>4 DEF Stack, Outside, InStage, Within
<1>5. ASSUME mpc' \in {"destroy", "broadcast", "join"}, nRead' = nRead, nBlocks' = nBlocks
      PROVE  Phases'
  BY <1>1, <1>2, <1>5 DEF Phases, NoStep
<1>10. ASSUME mpc' \in {"build", "done"}, nRead' = 0
       PROVE  Phases'
  BY <1>1, <1>2, <1>10 DEF Phases, NoStep
<1>6. CASE DestroyStage
  <2>1. /\ mpc = "destroy" /\ IF nClients[PoolOf(at)] > 1 THEN NextStage
                              ELSE mpc' = "broadcast" /\ at' = at /\ nRead' = nRead /\ nBlocks' = nBlocks
        /\ nClients' = [nClients EXCEPT ![PoolOf(at)] = IF @ > 1 THEN @ - 1 ELSE 0]
    BY <1>6 DEF DestroyStage, ClientDecrease
  <2>2. nClients["single"] = 1 /\ nClients["global"] = NStages - at
    BY <2>1 DEF Inv, Clients
  <2>3. CASE at = NStages
    <3>1. PoolOf(at) = "single"
      BY <2>3, PoolFacts
    <3>2. nClients'["single"] = 0 /\ nClients'["global"] = 0
      BY <1>3, <2>1, <2>2, <2>3, <3>1, PoolFacts
    <3>3. mpc' = "broadcast" /\ at' = at /\ nRead' = nRead /\ nBlocks' = nBlocks
      BY <2>1, <2>2, <3>1
    <3>4. Clients'
      BY <2>3, <3>2, <3>3 DEF Clients
    <3>5. QED
      BY <1>2, <1>4, <1>5, <3>3, <3>4
  <2>4. CASE at # NStages
    <3>1. PoolOf(at) = "global" /\ at < NStages
      BY <1>3, <2>4, PoolFacts
    <3>2. CASE nClients["global"] > 1
      <4>1. mpc' = "destroy" /\ at' = at + 1 /\ nRead' = nRead /\ nBlocks' = nBlocks
        BY <2>1, <3>1, <3>2 DEF NextStage
      <4>2. nClients'["single"] = 1 /\ nClients'["global"] = NStages - at'
        BY <1>3, <2>1, <2>2, <3>1, <3>2, <4>1, PoolFacts
      <4>3. Clients'
        BY <4>1, <4>2 DEF Clients
      <4>4. at' \in Stage
        BY <1>3, <3>1, <4>1 DEF Stage
      <4>5. QED
        BY <1>4, <1>5, <4>1, <4>3, <4>4
    <3>3. CASE ~(nClients["global"] > 1)
      <4>1. mpc' = "broadcast" /\ at' = at /\ nRead' = nRead /\ nBlocks' = nBlocks
        BY <2>1, <3>1, <3>3
      <4>2. NStages - 1 - at = 0
        BY <1>3, <2>2, <3>1, <3>3
      <4>3. nClients'["single"] = 1 /\ nClients'["global"] = 0
        BY <1>3, <2>1, <2>2, <3>1, <3>3, PoolFacts
      <4>4. Clients'
        BY <2>4, <4>1, <4>2, <4>3 DEF Clients
      <4>5. QED
        BY <1>2, <1>4, <1>5, <4>1, <4>4
    <3>4. QED
      BY <3>2, <3>3
  <2>5. QED
    BY <2>3, <2>4
<1>7. CASE WakeWorkers
  <2>1. mpc = "broadcast" /\ mpc' = "join" /\ UNCHANGED <<nBlocks, nRead, at, nClients>>
    BY <1>7 DEF WakeWorkers, BroadcastDie
  <2>2. Clients'
    BY <2>1 DEF Inv, Clients
  <2>3. QED
    BY <1>2, <1>4, <1>5, <2>1, <2>2
<1>8. CASE JoinAndGoOn
  <2>1. mpc = "join" /\ NextStage /\ nClients' = nClients
    BY <1>8 DEF JoinAndGoOn, JoinWorkers
  <2>2. /\ nClients["single"] = IF at = NStages THEN 0 ELSE 1
        /\ nClients["global"] = IF at = NStages THEN 0 ELSE NStages - 1 - at
    BY <2>1 DEF Inv, Clients
  <2>3. CASE at < NStages
    <3>1. mpc' = "destroy" /\ at' = at + 1 /\ nRead' = nRead /\ nBlocks' = nBlocks
      BY <2>1, <2>3 DEF NextStage
    <3>2. nClients'["single"] = 1 /\ nClients'["global"] = NStages - at'
      BY <1>3, <2>1, <2>2, <2>3, <3>1
    <3>3. Clients'
      BY <3>1, <3>2 DEF Clients
    <3>4. at' \in Stage
      BY <1>3, <2>3, <3>1 DEF Stage
    <3>5. QED
      BY <1>4, <1>5, <3>1, <3>3, <3>4
  <2>4. CASE ~(at < NStages)
    <3>1. at = NStages
      BY <1>3, <2>4
    <3>2. nRead' = 0 /\ at' = NStages /\ mpc' \in {"build", "done"}
      BY <2>1, <2>4 DEF NextStage
    <3>3. Clients'
      BY <2>1, <2>2, <3>1, <3>2 DEF Clients
    <3>4. QED
      BY <1>2, <1>4, <1>10, <3>1, <3>2, <3>3
  <2>5. QED
    BY <2>3, <2>4
<1>9. QED
  BY <1>6, <1>7, <1>8

----------------------------------------------------------------------------
(* The blocks on their way down the chain. *)

LEMMA FlowFacts ==
  ASSUME NEW got, Inv, got \in Got, Flow(got)
  PROVE  /\ \A s \in 1 .. NStages + 1 : got[s] \in Nat /\ got[s] <= MaxBlocks
         /\ \A s \in Stage : s \in 1 .. NStages + 1 /\ s + 1 \in 1 .. NStages + 1
         /\ \A s \in Stage : workers[s] = << >> <=> Len(workers[s]) = 0
<1>1. MaxBlocks \in Nat /\ NStages \in Nat
  BY PoolFacts
<1>2. \A s \in Stage : s \in 1 .. NStages + 1 /\ s + 1 \in 1 .. NStages + 1
  BY <1>1 DEF Stage
<1>3. \A s \in 1 .. NStages + 1 : got[s] \in Nat /\ got[s] <= MaxBlocks
  BY <1>1 DEF Got
<1>4. workers \in [Stage -> Seq(Block)]
  BY TypeFacts
<1>5. \A s \in Stage : workers[s] = << >> <=> Len(workers[s]) = 0
  BY <1>4, EmptySeq
<1>6. QED
  BY <1>2, <1>3, <1>5

LEMMA FlowStays ==
  ASSUME NEW got, Flow(got), UNCHANGED <<nRead, held, workers>>,
         (mpc' = "push" /\ at' = 1) <=> (mpc = "push" /\ at = 1),
         \A s \in Stage : Pending(s)' <=> Pending(s)
  PROVE  Flow(got)'
BY DEF Flow

LEMMA WrittenStays ==
  ASSUME NEW got, NEW new, WrittenInOrder(got), new[NStages] = got[NStages],
         UNCHANGED <<queue, wpc, job, written>>
  PROVE  WrittenInOrder(new)'
BY DEF WrittenInOrder

\* Workers that were waiting may have woken up, nothing else.
Wakes == \A w \in Threads : wpc'[w] = wpc[w] \/ (wpc[w] = "waiting" /\ wpc'[w] = "loop")

LEMMA WrittenWakes ==
  ASSUME NEW got, NEW new, WrittenInOrder(got), new[NStages] = got[NStages], Wakes,
         UNCHANGED <<queue, job, written>>
  PROVE  WrittenInOrder(new)'
<1>1. \A w \in Crew["single"] : wpc'[w] = "run" <=> wpc[w] = "run"
  BY CrewFacts, PoolFacts DEF Wakes
<1>2. QED
  BY <1>1 DEF WrittenInOrder

LEMMA SignalWakes ==
  ASSUME NEW p, Inv, p \in Pools, SignalQueued(p)
  PROVE  Wakes /\ wpc' \in [Threads -> {"none", "loop", "waiting", "run", "finish", "exited"}]
<1>1. wpc \in [Threads -> {"none", "loop", "waiting", "run", "finish", "exited"}]
  BY TypeFacts
<1>2. CASE UNCHANGED wpc
  BY <1>1, <1>2 DEF Wakes
<1>3. CASE \E w \in Waiting(p) : wpc' = [wpc EXCEPT ![w] = "loop"]
  <2>1. PICK w \in Waiting(p) : wpc' = [wpc EXCEPT ![w] = "loop"]
    BY <1>3
  <2>2. wpc[w] = "waiting" /\ w \in Threads
    BY <2>1, CrewFacts DEF Waiting
  <2>3. QED
    BY <1>1, <2>1, <2>2 DEF Wakes
<1>4. QED
  BY <1>2, <1>3 DEF SignalQueued

\* Nothing of a step is left before it and after it.
LEMMA Quiet ==
  ASSUME Inv, mpc \in NoStep
  PROVE  /\ live = {} /\ finished = {} /\ \A p \in Pools : queue[p] = << >> /\ Len(queue[p]) = 0
         /\ \A w \in Threads : ~Busy(w)
<1>1. \A s \in Stage : workers[s] = << >> /\ held[s] = NoBlock
  BY DEF Inv, Phases, Stack, NoStep, Outside
<1>2. live = {}
  <2>1. ASSUME NEW s \in Stage, NEW b \in Block PROVE <<s, b>> \notin live
    <3>1. Len(workers[s]) = 0 /\ b # NoBlock
      BY <1>1, TypeFacts
    <3>2. ~HasWorker(s, b)
      BY <1>1, <3>1 DEF HasWorker
    <3>3. QED
      BY <3>2 DEF Inv, Alive
  <2>2. live \subseteq Stage \X Block
    BY TypeFacts, PoolFacts
  <2>3. QED
    BY <2>1, <2>2
<1>3. finished = {}
  BY <1>2 DEF Inv, Finished
<1>4. ASSUME NEW p \in Pools PROVE queue[p] = << >> /\ Len(queue[p]) = 0
  <2>1. queue[p] \in Seq(Jobs)
    BY TypeFacts
  <2>2. ~(1 \in 1 .. Len(queue[p]))
    BY <1>2 DEF Inv, Queued, Unfinished
  <2>3. QED
    BY <2>1, <2>2, EmptySeq
<1>5. ASSUME NEW w \in Threads PROVE ~Busy(w)
  <2>1. PICK p \in Pools : w \in Crew[p]
    BY CrewFacts
  <2>2. Busy(w) => job[w] \in live
    BY <2>1 DEF Inv, Taken, Unfinished
  <2>3. QED
    BY <1>2, <2>2
<1>6. QED
  BY <1>2, <1>3, <1>4, <1>5

\* The block that pushEvents is called with is the next one of its stage.
LEMMA NextBlock ==
  ASSUME NEW got, Inv, got \in Got, Flow(got), mpc = "push"
  PROVE  /\ at \in 1 .. NStages + 1 /\ InBuffer(at) = got[at] + 1 /\ InBuffer(at) \in Block
         /\ at # 1 => at - 1 \in Stage /\ Pending(at - 1)
<1>1. at \in 1 .. NStages + 1
  BY TypeFacts
<1>2. draining < at /\ \A s \in Stage : held[s] # NoBlock <=> draining <= s /\ s < at
  BY DEF Inv, Stack, Within
<1>3. CASE at = 1
  <2>1. got[1] = nRead - 1 /\ InBuffer(at) = nRead
    BY <1>3 DEF Flow, InBuffer
  <2>2. nRead \in Nat /\ nRead <= MaxBlocks /\ MaxBlocks \in Nat /\ got[1] \in Nat
    BY <1>1, <1>3, TypeFacts, FlowFacts
  <2>3. QED
    BY <1>1, <1>3, <2>1, <2>2 DEF Block
<1>4. CASE at # 1
  <2>1. PICK s \in Stage : s = at - 1 /\ at = s + 1 /\ s \in Nat
    BY <1>1, <1>4, PoolFacts DEF Stage
  <2>2. draining \in Nat /\ draining <= s /\ s < at
    BY <1>2, <2>1, TypeFacts
  <2>3. held[s] # NoBlock
    BY <1>2, <2>2
  <2>4. Pending(s)
    BY <2>1, <2>3 DEF Pending
  <2>5. held[s] = got[s] - Len(workers[s]) /\ got[s + 1] = got[s] - Len(workers[s]) - 1
    BY <2>3, <2>4 DEF Flow
  <2>6. got[s] \in Nat /\ Len(workers[s]) \in Nat /\ held[s] \in 0 .. MaxBlocks
    BY FlowFacts, TypeFacts
  <2>7. InBuffer(at) = held[s] /\ held[s] = got[at] + 1
    BY <1>4, <2>1, <2>5, <2>6 DEF InBuffer
  <2>8. InBuffer(at) \in Block
    BY <2>3, <2>6, <2>7, PoolFacts DEF Block, NoBlock
  <2>9. QED
    BY <1>1, <2>1, <2>4, <2>7, <2>8
<1>5. QED
  BY <1>3, <1>4

\* Every set of subsets of a finite set has a smallest one.
LEMMA SmallestOf ==
  ASSUME NEW S, IsFiniteSet(S), NEW T \in SUBSET (SUBSET S), T # {}
  PROVE  \E x \in T : \A y \in T : y \subseteq x => y = x
<1>1. IsWellFoundedOn(StrictSubsetOrdering(S), FiniteSubsetsOf(S))
  BY FS_StrictSubsetOrderingWellFounded
<1>2. T \subseteq FiniteSubsetsOf(S)
  BY FS_Subset DEF FiniteSubsetsOf
<1>3. \E x \in T : \A y \in T : ~(<<y, x>> \in StrictSubsetOrdering(S))
  BY <1>1, <1>2, WFMin
<1>4. QED
  BY <1>2, <1>3 DEF StrictSubsetOrdering, FiniteSubsetsOf

\* A set of numbers up to N has one that does not follow another of the set.
LEMMA LeastOf ==
  ASSUME NEW N \in Nat, NEW P \in SUBSET (0 .. N), P # {}
  PROVE  \E k \in P : k = 0 \/ k - 1 \notin P
<1> DEFINE T == {x \in SUBSET (0 .. N) : \E k \in P : x = 0 .. k}
<1>0. ASSUME NEW k \in P PROVE 0 .. k \in T
  OBVIOUS
<1>1. T # {} /\ T \in SUBSET (SUBSET (0 .. N))
  BY <1>0
<1>2. IsFiniteSet(0 .. N)
  BY FS_Interval
<1>3. \E x \in T : \A y \in T : y \subseteq x => y = x
  <2>1. PICK S : S = 0 .. N
    OBVIOUS
  <2> HIDE DEF T
  <2>2. IsFiniteSet(S) /\ T # {} /\ T \in SUBSET (SUBSET S)
    BY <1>1, <1>2, <2>1
  <2>3. QED
    BY <2>2, SmallestOf
<1>4. PICK k \in P : \A j \in P : 0 .. j \subseteq 0 .. k => 0 .. j = 0 .. k
  BY <1>0, <1>3
<1>5. ASSUME k # 0, k - 1 \in P PROVE FALSE
  <2>1. k \in 1 .. N
    BY <1>5
  <2>2. 0 .. (k - 1) \subseteq 0 .. k /\ 0 .. (k - 1) # 0 .. k
    BY <2>1
  <2>3. QED
    BY <1>4, <1>5, <2>2
<1>6. QED
  BY <1>5

LEMMA SomeGot ==
  ASSUME NEW got, got \in Got, Flow(got)', WrittenInOrder(got)'
  PROVE  InOrder'
BY DEF InOrder, Got

\* Steps of the main thread that move no block.
LEMMA QuietFlow ==
  ASSUME Inv, BuildStage \/ ReadBlock \/ ReadEnd
  PROVE  InOrder'
<1>1. PICK got \in Got : Flow(got) /\ WrittenInOrder(got)
  BY DEF Inv, InOrder
<1>2. UNCHANGED <<held, workers, queue, job, written>>
  BY DEF BuildStage, ReadBlock, ReadEnd, ClientIncrease, poolVars, bufferVars
<1>3. \A s \in Stage : s \in Nat /\ s >= 1
  BY TypeFacts
<1>4. CASE BuildStage
  <2>1. mpc = "build" /\ mpc' \in {"build", "read"} /\ nRead' = nRead
    BY <1>4 DEF BuildStage
  <2>2. Flow(got)'
    <3>1. \A s \in Stage : ~Pending(s) /\ ~Pending(s)'
      BY <2>1 DEF Pending
    <3>2. QED
      BY <1>1, <1>2, <2>1, <3>1, FlowStays
  <2>3. WrittenInOrder(got)'
    <3>1. \A w \in Crew["single"] : wpc[w] # "run" /\ wpc'[w] # "run"
      <4>1. \A w \in Threads : wpc[w] # "run"
        BY <2>1, Quiet DEF NoStep, Busy
      <4>2. wpc' = wpc \/ \E p \in Pools : wpc' = [w \in Threads |-> IF w \in Crew[p] THEN "loop" ELSE wpc[w]]
        BY <1>4, PoolFacts DEF BuildStage, ClientIncrease
      <4>3. QED
        BY <4>1, <4>2, CrewFacts, PoolFacts
    <3>2. QED
      BY <1>1, <1>2, <3>1 DEF WrittenInOrder
  <2>4. QED
    BY <1>1, <2>2, <2>3, SomeGot
<1>5. CASE ReadBlock
  <2>1. mpc = "read" /\ mpc' = "push" /\ at' = 1 /\ nRead' = nRead + 1 /\ wpc' = wpc
    BY <1>5 DEF ReadBlock, poolVars
  <2>2. \A s \in Stage : ~Pending(s) /\ ~Pending(s)'
    BY <1>3, <2>1 DEF Pending
  <2>3. got[1] = nRead /\ nRead' - 1 = nRead
    BY <1>1, <2>1, TypeFacts DEF Flow
  <2>4. Flow(got)'
    BY <1>1, <1>2, <2>1, <2>2, <2>3 DEF Flow
  <2>5. WrittenInOrder(got)'
    BY <1>1, <1>2, <2>1, WrittenStays
  <2>6. QED
    BY <1>1, <2>4, <2>5, SomeGot
<1>6. CASE ReadEnd
  <2>1. mpc = "read" /\ mpc' = "drain" /\ nRead' = nRead /\ wpc' = wpc
    BY <1>6 DEF ReadEnd, poolVars
  <2>2. \A s \in Stage : ~Pending(s) /\ ~Pending(s)'
    BY <2>1 DEF Pending
  <2>3. Flow(got)'
    BY <1>1, <1>2, <2>1, <2>2, FlowStays
  <2>4. WrittenInOrder(got)'
    BY <1>1, <1>2, <2>1, WrittenStays
  <2>5. QED
    BY <1>1, <2>3, <2>4, SomeGot
<1>7. QED
  BY <1>4, <1>5, <1>6

\* A block given to a stage.
LEMMA PushFlow ==
  ASSUME Inv, PushEvents \/ PushNullSink
  PROVE  InOrder'
<1>1. PICK got \in Got : Flow(got) /\ WrittenInOrder(got)
  BY DEF Inv, InOrder
<1>2. mpc = "push" /\ UNCHANGED <<nRead, held, job, written>>
  BY DEF PushEvents, PushNullSink, QueueJob, WaitForRoom, poolVars, bufferVars
<1>3. /\ at \in 1 .. NStages + 1 /\ InBuffer(at) = got[at] + 1 /\ InBuffer(at) \in Block
      /\ at # 1 => at - 1 \in Stage /\ Pending(at - 1)
  BY <1>1, <1>2, NextBlock
<1>4. /\ \A s \in 1 .. NStages + 1 : got[s] \in Nat /\ got[s] <= MaxBlocks
      /\ \A s \in Stage : s \in 1 .. NStages + 1 /\ s + 1 \in 1 .. NStages + 1
  BY <1>1, FlowFacts
<1>5. PICK new : new = [got EXCEPT ![at] = got[at] + 1]
  OBVIOUS
<1>6. new \in Got /\ new[at] = got[at] + 1 /\ \A s \in 1 .. NStages + 1 : s # at => new[s] = got[s]
  <2>1. got[at] + 1 \in 0 .. MaxBlocks
    BY <1>3, <1>4, PoolFacts DEF Block
  <2>2. QED
    BY <1>3, <1>5, <2>1 DEF Got
<1>7. ASSUME mpc' \in {"check", "read", "delete"},
             \A s \in Stage : s # at => workers'[s] = workers[s],
             at \in Stage => workers'[at] = Append(workers[at], got[at] + 1)
      PROVE  Flow(new)'
  <2>1. \A s \in Stage : ~Pending(s)'
    BY <1>7 DEF Pending
  <2>2. \A s \in Stage : Pending(s) <=> s + 1 = at
    <3>1. \A s \in Stage : Pending(s) => s + 1 = at
      BY <1>2, TypeFacts DEF Pending
    <3>2. \A s \in Stage : s + 1 = at => s = at - 1 /\ at # 1
      BY TypeFacts
    <3>3. QED
      BY <1>3, <3>1, <3>2
  <2>3. new[1] = nRead'
    <3>1. CASE at = 1
      BY <1>1, <1>2, <1>3, <1>6, <3>1, TypeFacts DEF Flow
    <3>2. CASE at # 1
      <4>1. got[1] = nRead /\ nRead' = nRead
        BY <1>1, <1>2, <3>2 DEF Flow
      <4>2. 1 \in 1 .. NStages + 1
        BY PoolFacts
      <4>3. QED
        BY <1>6, <3>2, <4>1, <4>2
    <3>3. QED
      BY <3>1, <3>2
  <2>4. ASSUME NEW s \in Stage
        PROVE  /\ Len(workers'[s]) <= new[s]
               /\ \A i \in 1 .. Len(workers'[s]) : workers'[s][i] = new[s] - Len(workers'[s]) + i
               /\ held[s] # NoBlock => held[s] = new[s] - Len(workers'[s])
               /\ new[s + 1] = new[s] - Len(workers'[s])
    <3>1. PICK l \in Seq(Block), n \in Nat, g \in Nat, h \in Nat :
            l = workers[s] /\ n = Len(l) /\ g = got[s] /\ h = got[s + 1]
      BY <1>4, TypeFacts
    <3>2. /\ n <= g /\ (\A i \in 1 .. n : l[i] = g - n + i)
          /\ (held[s] # NoBlock => held[s] = g - n)
          /\ h = g - n - (IF Pending(s) THEN 1 ELSE 0)
      BY <1>1, <3>1 DEF Flow
    <3>3. s \in Nat /\ s + 1 # s /\ n \in Nat /\ g \in Nat /\ h \in Nat
      BY <3>1, TypeFacts
    <3>7. h = IF Pending(s) THEN g - n - 1 ELSE g - n
      BY <3>2, <3>3
    <3>8. s \in 1 .. NStages + 1 /\ s + 1 \in 1 .. NStages + 1
      BY <1>4
    <3>4. CASE s = at
      <4>1. ~Pending(s) /\ h = g - n
        BY <2>2, <3>3, <3>4, <3>7
      <4>2. new[s] = g + 1 /\ new[s + 1] = h
        BY <1>6, <3>1, <3>3, <3>4, <3>8
      <4>3. PICK k : k = workers'[s] /\ k = Append(l, g + 1)
        BY <1>7, <3>1, <3>4
      <4>4. Len(k) = n + 1 /\ (\A i \in 1 .. n : k[i] = l[i]) /\ k[n + 1] = g + 1
        BY <3>1, <4>3
      <4>5. ASSUME NEW i \in 1 .. n + 1 PROVE k[i] = (g + 1) - (n + 1) + i
        <5>1. CASE i = n + 1
          BY <3>3, <4>4, <5>1
        <5>2. CASE i # n + 1
          <6>1. i \in 1 .. n
            BY <3>3, <5>2
          <6>2. k[i] = g - n + i
            BY <3>2, <4>4, <6>1
          <6>3. QED
            BY <3>3, <6>1, <6>2
        <5>3. QED
          BY <5>1, <5>2
      <4>6. held[s] = NoBlock
        <5>1. held[s] # NoBlock => s < at
          BY <1>2 DEF Inv, Stack, Within
        <5>2. QED
          BY <3>3, <3>4, <5>1
      <4>7. n + 1 <= g + 1 /\ h = (g + 1) - (n + 1)
        BY <3>2, <3>3, <4>1
      <4>8. QED
        BY <4>2, <4>3, <4>4, <4>5, <4>6, <4>7
    <3>5. CASE s # at
      <4>1. workers'[s] = l /\ new[s] = g
        BY <1>6, <1>7, <3>1, <3>5, <3>8
      <4>2. new[s + 1] = g - n
        <5>1. CASE s + 1 = at
          <6>1. Pending(s)
            BY <2>2, <5>1
          <6>2. new[s + 1] = h + 1
            BY <1>6, <3>1, <5>1
          <6>3. QED
            BY <3>3, <3>7, <6>1, <6>2
        <5>2. CASE s + 1 # at
          <6>1. ~Pending(s)
            BY <2>2, <5>2
          <6>2. new[s + 1] = h
            BY <1>6, <3>1, <3>8, <5>2
          <6>3. QED
            BY <3>7, <6>1, <6>2
        <5>3. QED
          BY <5>1, <5>2
      <4>3. n <= g /\ (\A i \in 1 .. n : l[i] = g - n + i) /\ (held[s] # NoBlock => held[s] = g - n)
            /\ Len(l) = n
        BY <3>1, <3>2
      <4>4. QED
        BY <4>1, <4>2, <4>3
    <3>6. QED
      BY <3>4, <3>5
  <2>5. ~(mpc' = "push")
    BY <1>7
  <2>6. ASSUME NEW s \in Stage PROVE new[s + 1] = new[s] - Len(workers'[s]) - 0
    <3>1. new[s] \in Nat /\ Len(workers'[s]) \in Nat
      <4>1. CASE s = at
        <5>1. PICK l \in Seq(Block), k \in {workers'[s]} : l = workers[s] /\ k = Append(l, got[at] + 1)
          BY <1>7, <4>1, TypeFacts
        <5>2. Len(k) = Len(l) + 1 /\ Len(l) \in Nat
          BY <5>1
        <5>3. QED
          BY <1>3, <1>4, <1>6, <4>1, <5>1, <5>2
      <4>2. CASE s # at
        BY <1>4, <1>6, <1>7, <4>2, TypeFacts
      <4>3. QED
        BY <4>1, <4>2
    <3>2. QED
      BY <2>4, <3>1
  <2>7. QED
    BY <1>2, <2>1, <2>3, <2>4, <2>5, <2>6 DEF Flow
<1>8. CASE PushNullSink
  <2>1. /\ at = NStages + 1 /\ at # 1 /\ NStages # at /\ NStages \in 1 .. NStages + 1 /\ at \notin Stage
    <3>1. at = NStages + 1
      BY <1>8 DEF PushNullSink
    <3>2. QED
      BY <3>1, PoolFacts DEF Stage
  <2>2. mpc' = "delete" /\ UNCHANGED <<workers, queue, wpc>>
    BY <1>8, <2>1 DEF PushNullSink, Return, poolVars
  <2>3. Flow(new)'
    BY <1>7, <2>1, <2>2
  <2>4. WrittenInOrder(new)'
    BY <1>1, <1>2, <1>6, <2>1, <2>2, WrittenStays
  <2>5. QED
    BY <1>6, <2>3, <2>4, SomeGot
<1>9. CASE PushEvents /\ WaitForRoom(PoolOf(at))
  <2>1. UNCHANGED <<mpc, at, workers, queue, wpc>>
    BY <1>9 DEF PushEvents, WaitForRoom, QueueJob
  <2>2. Flow(got)'
    BY <1>1, <1>2, <2>1, FlowStays DEF Pending
  <2>3. WrittenInOrder(got)'
    BY <1>1, <1>2, <2>1, WrittenStays
  <2>4. QED
    BY <1>1, <2>2, <2>3, SomeGot
<1>10. CASE PushEvents /\ ~WaitForRoom(PoolOf(at))
  <2>1. /\ at \in Stage /\ QueueJob(PoolOf(at), <<at, InBuffer(at)>>) /\ mpc' = "check"
        /\ workers' = [workers EXCEPT ![at] = Append(@, InBuffer(at))]
    BY <1>10 DEF PushEvents
  <2>2. Flow(new)'
    <3>1. workers \in [Stage -> Seq(Block)]
      BY TypeFacts
    <3>2. /\ workers'[at] = Append(workers[at], got[at] + 1)
          /\ \A s \in Stage : s # at => workers'[s] = workers[s]
      BY <1>3, <2>1, <3>1
    <3>3. QED
      BY <1>7, <2>1, <3>2
  <2>3. Wakes /\ queue' = [queue EXCEPT ![PoolOf(at)] = Append(@, <<at, InBuffer(at)>>)]
    BY <2>1, SignalWakes, PoolFacts DEF QueueJob
  <2>4. queue \in [Pools -> Seq(Jobs)] /\ NStages \in 1 .. NStages + 1
    BY TypeFacts, PoolFacts
  <2>5. CASE at # NStages
    <3>1. queue'["single"] = queue["single"] /\ new[NStages] = got[NStages]
      BY <1>6, <2>3, <2>4, <2>5, PoolFacts
    <3>2. \A w \in Crew["single"] : wpc'[w] = "run" <=> wpc[w] = "run"
      BY <2>3, CrewFacts, PoolFacts DEF Wakes
    <3>3. WrittenInOrder(new)'
      BY <1>1, <1>2, <3>1, <3>2 DEF WrittenInOrder
    <3>4. QED
      BY <1>6, <2>2, <3>3, SomeGot
  <2>6. CASE at = NStages
    <3>1. PICK q \in Seq(Jobs), n \in Nat, g \in Nat, x \in Jobs :
            q = queue["single"] /\ n = Len(q) /\ g = got[NStages] /\ x = <<NStages, g + 1>>
      <4>1. <<NStages, got[NStages] + 1>> \in Jobs
        BY <1>3, <2>6, PoolFacts
      <4>2. QED
        BY <1>4, <2>4, <4>1, PoolFacts
    <3>2. PICK k : k = queue'["single"] /\ k = Append(q, x)
      BY <1>3, <2>3, <2>4, <2>6, <3>1, PoolFacts
    <3>3. Len(k) = n + 1 /\ (\A i \in 1 .. n : k[i] = q[i]) /\ k[n + 1] = x
      BY <3>1, <3>2
    <3>4. new[NStages] = g + 1
      BY <1>6, <2>6, <3>1
    <3>5. \A i \in 1 .. n : q[i] = <<NStages, g - n + i>>
      BY <1>1, <3>1 DEF WrittenInOrder
    <3>6. \A i \in 1 .. n + 1 : k[i] = <<NStages, (g + 1) - (n + 1) + i>>
      <4>1. n \in Nat /\ g \in Nat
        BY <3>1
      <4>2. SUFFICES ASSUME NEW i \in 1 .. n + 1 PROVE k[i] = <<NStages, (g + 1) - (n + 1) + i>>
        OBVIOUS
      <4>3. (g + 1) - (n + 1) + i = g - n + i
        BY <4>1
      <4>4. CASE i = n + 1
        <5>1. g - n + i = g + 1
          BY <4>1, <4>4
        <5>2. QED
          BY <3>1, <3>3, <4>3, <4>4, <5>1
      <4>5. CASE i # n + 1
        <5>1. i \in 1 .. n
          BY <4>1, <4>5
        <5>2. QED
          BY <3>3, <3>5, <4>3, <5>1
      <4>6. QED
        BY <4>4, <4>5
    <3>7. \A w \in Crew["single"] : wpc'[w] = "run" <=> wpc[w] = "run"
      BY <2>3, CrewFacts, PoolFacts DEF Wakes
    <3>8. (g + 1) - (n + 1) = g - n
      BY <3>1
    <3>9. WrittenInOrder(new)'
      BY <1>1, <1>2, <3>1, <3>2, <3>3, <3>4, <3>6, <3>7, <3>8 DEF WrittenInOrder
    <3>10. QED
      BY <1>6, <2>2, <3>9, SomeGot
  <2>7. QED
    BY <2>5, <2>6
<1>11. QED
  BY <1>8, <1>9, <1>10

\* A block that a stage has held back until now is on its way to the next.
LEMMA ExtractFlow ==
  ASSUME NEW got, NEW s, Inv, got \in Got, Flow(got), s \in Stage, s = at, at' = at, nRead' = nRead,
         mpc \in {"check", "drain"}, held[s] = NoBlock, Extract(s), workers[s] # << >>
  PROVE  Flow(got)'
<1>1. /\ held'[s] = workers[s][1] /\ workers[s][1] \in Block /\ mpc' = "wait"
      /\ Len(workers'[s]) = Len(workers[s]) - 1
      /\ \A i \in 1 .. Len(workers[s]) - 1 : workers'[s][i] = workers[s][i + 1]
      /\ \A t \in Stage : t # s => workers'[t] = workers[t] /\ held'[t] = held[t]
      /\ Len(workers[s]) > 0
  BY Extracted
<1>2. \A t \in Stage : ~Pending(t)
  BY DEF Pending
<1>3. \A t \in Stage : Pending(t)' <=> t = s
  <2>1. \A t \in Stage : Pending(t)' <=> held'[t] # NoBlock /\ at = t
    BY <1>1 DEF Pending
  <2>2. held'[s] # NoBlock
    BY <1>1, TypeFacts
  <2>3. QED
    BY <2>1, <2>2
<1>4. ASSUME NEW t \in Stage
      PROVE  (/\ Len(workers[t]) <= got[t]
              /\ \A i \in 1 .. Len(workers[t]) : workers[t][i] = got[t] - Len(workers[t]) + i
              /\ held[t] # NoBlock => held[t] = got[t] - Len(workers[t])
              /\ got[t + 1] = got[t] - Len(workers[t]) - (IF Pending(t) THEN 1 ELSE 0))'
  <2>1. /\ Len(workers[t]) <= got[t]
        /\ \A i \in 1 .. Len(workers[t]) : workers[t][i] = got[t] - Len(workers[t]) + i
        /\ held[t] # NoBlock => held[t] = got[t] - Len(workers[t])
        /\ got[t + 1] = got[t] - Len(workers[t]) - 0
    BY <1>2 DEF Flow
  <2>2. CASE t # s
    BY <1>1, <1>3, <2>1, <2>2
  <2>3. CASE t = s
    <3>1. PICK n \in Nat, g \in Nat, h \in Nat : n = Len(workers[s]) /\ g = got[s] /\ h = got[s + 1]
      BY FlowFacts, TypeFacts
    <3>2. n \in Nat /\ g \in Nat /\ h \in Nat /\ n > 0
      BY <1>1, <3>1
    <3>3. n <= g /\ h = g - n /\ workers[s][1] = g - n + 1
      BY <2>1, <2>3, <3>1, <3>2
    <3>4. Len(workers'[s]) = n - 1
      BY <1>1, <3>1
    <3>5. ASSUME NEW i \in 1 .. n - 1 PROVE workers'[s][i] = g - (n - 1) + i
      <4>1. workers'[s][i] = workers[s][i + 1] /\ i + 1 \in 1 .. n
        BY <1>1, <3>1, <3>2
      <4>2. workers[s][i + 1] = g - n + (i + 1)
        BY <2>1, <2>3, <3>1, <4>1
      <4>3. QED
        BY <3>2, <4>1, <4>2
    <3>6. n - 1 <= g /\ g - n + 1 = g - (n - 1) /\ h = g - (n - 1) - 1
      BY <3>2, <3>3
    <3>7. Pending(t)'
      BY <1>3, <2>3
    <3>8. held'[s] = g - (n - 1)
      BY <1>1, <3>3, <3>6
    <3>9. got[t + 1] = h /\ got[t] = g
      BY <2>3, <3>1
    <3>10. QED
      BY <2>3, <3>4, <3>5, <3>6, <3>7, <3>8, <3>9
  <2>4. QED
    BY <2>2, <2>3
<1>5. got[1] = nRead
  BY DEF Flow
<1>6. QED
  BY <1>1, <1>4, <1>5 DEF Flow

LEMMA CheckFlow ==
  ASSUME Inv, CheckFront \/ Drain
  PROVE  InOrder'
<1>1. PICK got \in Got : Flow(got) /\ WrittenInOrder(got)
  BY DEF Inv, InOrder
<1>2. mpc \in {"check", "drain"} /\ UNCHANGED <<nRead, queue, wpc, job, written>> /\ at \in Stage
  BY DEF CheckFront, Drain, poolVars, bufferVars, Inv, Stack, InStage
<1>3. WrittenInOrder(got)'
  BY <1>1, <1>2, WrittenStays
<1>4. held[at] = NoBlock
  <2>1. CASE mpc = "drain"
    BY <1>2, <2>1 DEF Inv, Stack
  <2>2. CASE mpc = "check"
    <3>1. held[at] # NoBlock => at < at
      BY <1>2, <2>2 DEF Inv, Stack, Within
    <3>2. QED
      BY <3>1, TypeFacts
  <2>3. QED
    BY <1>2, <2>1, <2>2
<1>5. CASE workers[at] # << >> /\ Extract(at) /\ at' = at
  <2>1. PICK s : s = at
    OBVIOUS
  <2>2. Flow(got)'
    BY <1>1, <1>2, <1>4, <1>5, <2>1, ExtractFlow
  <2>3. QED
    BY <1>1, <1>3, <2>2, SomeGot
<1>6. CASE UNCHANGED <<held, workers>> /\ mpc' \in {"read", "delete", "drain", "destroy"}
  <2>1. \A s \in Stage : ~Pending(s) /\ ~Pending(s)'
    BY <1>2, <1>6 DEF Pending
  <2>2. Flow(got)'
    BY <1>1, <1>2, <1>6, <2>1, FlowStays
  <2>3. QED
    BY <1>1, <1>3, <2>2, SomeGot
<1>7. \/ workers[at] # << >> /\ Extract(at) /\ at' = at
      \/ UNCHANGED <<held, workers>> /\ mpc' \in {"read", "delete", "drain", "destroy"}
  <2>1. CASE CheckFront
    BY <2>1 DEF CheckFront, FrontIsFinished, Return
  <2>2. CASE Drain
    BY <1>2, <2>2 DEF Drain
  <2>3. QED
    BY <2>1, <2>2
<1>8. QED
  BY <1>5, <1>6, <1>7

LEMMA WaitFlow ==
  ASSUME Inv, WaitForWorker
  PROVE  InOrder'
<1>1. PICK got \in Got : Flow(got) /\ WrittenInOrder(got)
  BY DEF Inv, InOrder
<1>2. /\ mpc = "wait" /\ UNCHANGED <<nRead, held, workers, queue, wpc, job, written>>
      /\ \/ JobDone(<<at, held[at]>>) /\ PushOn(at)
         \/ mpc' = mpc /\ at' = at
  BY DEF WaitForWorker, JobDone, WaitForJob, poolVars, bufferVars
<1>3. WrittenInOrder(got)'
  BY <1>1, <1>2, WrittenStays
<1>4. at \in Stage /\ held[at] # NoBlock
  BY <1>2, TypeFacts DEF Inv, Stack, InStage, Within
<1>5. CASE JobDone(<<at, held[at]>>) /\ PushOn(at)
  <2>1. mpc' = "push" /\ at' = at + 1
    <3>1. <<at, held[at]>> \in outBuffer
      BY <1>5 DEF JobDone, Inv, Finished
    <3>2. QED
      BY <1>5, <3>1 DEF PushOn
  <2>2. \A s \in Stage : Pending(s)' <=> Pending(s)
    <3>1. \A s \in Stage : Pending(s) <=> held[s] # NoBlock /\ at = s
      BY <1>2 DEF Pending
    <3>2. \A s \in Stage : Pending(s)' <=> held[s] # NoBlock /\ at + 1 = s + 1
      BY <1>2, <2>1 DEF Pending
    <3>3. \A s \in Stage : at + 1 = s + 1 <=> at = s
      BY <1>4, TypeFacts
    <3>4. QED
      BY <3>1, <3>2, <3>3
  <2>3. at' # 1
    BY <1>4, <2>1, TypeFacts
  <2>4. Flow(got)'
    BY <1>1, <1>2, <2>1, <2>2, <2>3, FlowStays
  <2>5. QED
    BY <1>1, <1>3, <2>4, SomeGot
<1>6. CASE mpc' = mpc /\ at' = at
  <2>1. Flow(got)'
    BY <1>1, <1>2, <1>6, FlowStays DEF Pending
  <2>2. QED
    BY <1>1, <1>3, <2>1, SomeGot
<1>7. QED
  BY <1>2, <1>5, <1>6

LEMMA DeleteFlow ==
  ASSUME Inv, DeleteWorker
  PROVE  InOrder'
<1>1. PICK got \in Got : Flow(got) /\ WrittenInOrder(got)
  BY DEF Inv, InOrder
<1>2. /\ mpc = "delete" /\ UNCHANGED <<nRead, workers, queue, wpc, job, written>>
      /\ held' = [held EXCEPT ![at] = NoBlock] /\ mpc' \in {"drain", "check"}
  BY DEF DeleteWorker, DeleteJob
<1>3. WrittenInOrder(got)'
  BY <1>1, <1>2, WrittenStays
<1>4. \A s \in Stage : ~Pending(s) /\ ~Pending(s)' /\ (held'[s] = held[s] \/ held'[s] = NoBlock)
  <2>1. \A s \in Stage : held'[s] = held[s] \/ held'[s] = NoBlock
    BY <1>2, TypeFacts
  <2>2. QED
    BY <1>2, <2>1 DEF Pending
<1>5. Flow(got)'
  BY <1>1, <1>2, <1>4 DEF Flow
<1>6. QED
  BY <1>1, <1>3, <1>5, SomeGot

\* Every block of the step has been written when the destructors run.
LEMMA AllWritten ==
  ASSUME NEW got, Inv, got \in Got, Flow(got), WrittenInOrder(got), mpc \in NoStep
  PROVE  /\ \A s \in 1 .. NStages + 1 : got[s] = nRead
         /\ Len(written) = nRead /\ Len(queue["single"]) = 0
         /\ \A w \in Crew["single"] : wpc[w] # "run"
<1>1. \A s \in Stage : held[s] = NoBlock /\ workers[s] = << >> /\ Len(workers[s]) = 0 /\ ~Pending(s)
  BY TypeFacts DEF Inv, Phases, Stack, NoStep, Outside, Pending
<1>2. got[1] = nRead /\ \A s \in Stage : got[s + 1] = got[s]
  <2>1. got[1] = nRead
    BY DEF Flow, NoStep
  <2>2. ASSUME NEW s \in Stage PROVE got[s + 1] = got[s]
    <3>1. got[s + 1] = got[s] - 0 - 0 /\ got[s] \in Nat
      BY <1>1, FlowFacts DEF Flow
    <3>2. QED
      BY <3>1
  <2>3. QED
    BY <2>1, <2>2
<1>3. ASSUME NEW s \in 1 .. NStages + 1, got[s] # nRead PROVE FALSE
  <2>1. PICK N \in Nat : N = NStages + 1
    BY PoolFacts
  <2>2. PICK P \in SUBSET (0 .. N) : P = {k \in 0 .. N : k # 0 /\ got[k] # nRead}
    OBVIOUS
  <2>3. s \in P /\ N \in Nat
    BY <1>3, <2>1, <2>2
  <2>4. PICK k \in P : k = 0 \/ k - 1 \notin P
    BY <2>2, <2>3, LeastOf
  <2>5. k \in 1 .. N /\ got[k] # nRead /\ (k - 1 = 0 \/ got[k - 1] = nRead)
    BY <2>2, <2>3, <2>4
  <2>6. k # 1
    BY <1>2, <2>5
  <2>7. k - 1 \in Stage /\ (k - 1) + 1 = k /\ k - 1 # 0
    BY <2>1, <2>5, <2>6, PoolFacts DEF Stage
  <2>8. QED
    BY <1>2, <2>5, <2>7
<1>4. \A s \in 1 .. NStages + 1 : got[s] = nRead
  BY <1>3
<1>5. Len(queue["single"]) = 0 /\ \A w \in Crew["single"] : wpc[w] # "run"
  BY Quiet, CrewFacts, PoolFacts DEF Busy
<1>6. Len(written) = got[NStages] - 0
  <2>1. PICK w \in Crew["single"] : TRUE
    BY CrewFacts, PoolFacts
  <2>2. QED
    BY <1>5, <2>1 DEF WrittenInOrder
<1>7. QED
  BY <1>4, <1>5, <1>6, FlowFacts, TypeFacts, PoolFacts

LEMMA EndsFlow ==
  ASSUME Inv, DestroyStage \/ WakeWorkers \/ JoinAndGoOn
  PROVE  InOrder'
<1>1. PICK got \in Got : Flow(got) /\ WrittenInOrder(got)
  BY DEF Inv, InOrder
<1>2. mpc \in {"destroy", "broadcast", "join"} /\ UNCHANGED <<held, workers, queue, job>>
  BY DEF DestroyStage, WakeWorkers, JoinAndGoOn, ClientDecrease, BroadcastDie, JoinWorkers
<1>3. /\ at \in Stage /\ Len(queue["single"]) = 0 /\ \A w \in Crew["single"] : wpc[w] # "run"
      /\ \A s \in Stage : held[s] = NoBlock /\ workers[s] = << >> /\ ~Pending(s)
  BY <1>1, <1>2, AllWritten DEF NoStep, Inv, Phases, Stack, Outside, InStage, Pending
<1>4. \A w \in Crew["single"] : wpc'[w] # "run"
  <2>1. CASE DestroyStage
    BY <1>3, <2>1 DEF DestroyStage, ClientDecrease
  <2>2. CASE WakeWorkers
    <3>1. wpc' = [w \in Threads |-> IF w \in Waiting(PoolOf(at)) THEN "loop" ELSE wpc[w]]
      BY <2>2 DEF WakeWorkers, BroadcastDie
    <3>2. QED
      BY <1>3, <3>1, CrewFacts, PoolFacts
  <2>3. CASE JoinAndGoOn
    <3>1. wpc' = [w \in Threads |-> IF w \in Crew[PoolOf(at)] THEN "none" ELSE wpc[w]]
      BY <2>3 DEF JoinAndGoOn, JoinWorkers
    <3>2. QED
      BY <1>3, <3>1, CrewFacts, PoolFacts
  <2>4. QED
    BY <2>1, <2>2, <2>3
<1>5. CASE mpc' # "push" /\ UNCHANGED <<nRead, written>>
  <2>1. \A s \in Stage : ~Pending(s)'
    BY <1>2, <1>3 DEF Pending
  <2>2. Flow(got)'
    BY <1>1, <1>2, <1>3, <1>5, <2>1, FlowStays
  <2>3. WrittenInOrder(got)'
    BY <1>1, <1>2, <1>3, <1>4, <1>5 DEF WrittenInOrder
  <2>4. QED
    BY <1>1, <2>2, <2>3, SomeGot
<1>6. CASE mpc' # "push" /\ nRead' = 0 /\ written' = << >>
  <2>1. PICK new : new = [s \in 1 .. NStages + 1 |-> 0]
    OBVIOUS
  <2>2. new \in Got /\ (\A s \in 1 .. NStages + 1 : new[s] = 0) /\ new[NStages] = 0 /\ new[1] = 0
        /\ \A s \in Stage : new[s] = 0 /\ new[s + 1] = 0
    BY <2>1, PoolFacts DEF Got, Stage
  <2>3. \A s \in Stage : ~Pending(s)' /\ Len(workers'[s]) = 0 /\ held'[s] = NoBlock
    BY <1>2, <1>3 DEF Pending
  <2>4. Flow(new)'
    BY <1>6, <2>2, <2>3 DEF Flow
  <2>5. WrittenInOrder(new)'
    <3>1. Len(written') = 0 /\ Len(queue'["single"]) = 0
      BY <1>2, <1>3, <1>6
    <3>2. QED
      BY <1>4, <2>2, <3>1 DEF WrittenInOrder
  <2>6. QED
    BY <2>2, <2>4, <2>5, SomeGot
<1>7. \/ mpc' # "push" /\ UNCHANGED <<nRead, written>>
      \/ mpc' # "push" /\ nRead' = 0 /\ written' = << >>
  <2>1. NextStage => \/ mpc' # "push" /\ UNCHANGED <<nRead, written>>
                     \/ mpc' # "push" /\ nRead' = 0 /\ written' = << >>
    BY <1>3, NextStageIs
  <2>2. CASE DestroyStage
    BY <2>1, <2>2 DEF DestroyStage
  <2>3. CASE WakeWorkers
    BY <2>3 DEF WakeWorkers, bufferVars
  <2>4. CASE JoinAndGoOn
    BY <2>1, <2>4 DEF JoinAndGoOn
  <2>5. QED
    BY <2>2, <2>3, <2>4
<1>8. QED
  BY <1>5, <1>6, <1>7

\* What a worker does leaves the deques alone; the last stage's worker takes and
\* writes the blocks in order.
LEMMA WorkerFlow ==
  ASSUME NEW w, Inv, w \in Threads, Worker(w)
  PROVE  InOrder'
<1>1. PICK got \in Got : Flow(got) /\ WrittenInOrder(got)
  BY DEF Inv, InOrder
<1>2. UNCHANGED <<mpc, at, nRead, held, workers>>
  BY DEF Worker, HandleEvents, stackVars
<1>3. Flow(got)'
  BY <1>1, <1>2, FlowStays DEF Pending
<1>4. /\ wpc \in [Threads -> {"none", "loop", "waiting", "run", "finish", "exited"}]
      /\ job \in [Threads -> Jobs \cup {NoJob}] /\ queue \in [Pools -> Seq(Jobs)] /\ written \in Seq(Block)
  BY TypeFacts
<1>5. PICK g \in Nat, m \in Nat : g = got[NStages] /\ m = Len(written)
  <2>1. NStages \in 1 .. NStages + 1
    BY PoolFacts
  <2>2. got[NStages] \in Nat
    BY <1>1, <2>1, FlowFacts
  <2>3. Len(written) \in Nat
    BY <1>4
  <2>4. QED
    BY <2>2, <2>3
<1>6. PICK q \in Seq(Jobs), n \in Nat : q = queue["single"] /\ n = Len(q)
  BY <1>4, PoolFacts
<1>7. /\ \A i \in 1 .. n : q[i] = <<NStages, g - n + i>>
      /\ \A v \in Crew["single"] :
           /\ wpc[v] = "run" => job[v] = <<NStages, m + 1>> /\ m + 1 = g - n
           /\ wpc[v] # "run" => m = g - n
      /\ \A i \in 1 .. m : written[i] = i
  BY <1>1, <1>5, <1>6 DEF WrittenInOrder
<1>8. \A v \in Crew["single"] : v \in Threads /\ (w \in Crew["single"] => v = w)
  BY CrewFacts, PoolFacts
<1>9. CASE HandleEvents(w)
  <2>1. /\ wpc[w] = "run" /\ wpc' = [wpc EXCEPT ![w] = "finish"] /\ job' = job /\ queue' = queue
        /\ written' = IF job[w][1] = NStages THEN Append(written, job[w][2]) ELSE written
    BY <1>9 DEF HandleEvents, WorkerRun
  <2>2. CASE w \in Crew["single"]
    <3>1. job[w] = <<NStages, m + 1>> /\ m + 1 = g - n
      BY <1>7, <2>1, <2>2
    <3>2. job[w] \in Jobs
      <4>1. job[w] \in live
        BY <2>1, <2>2, PoolFacts DEF Inv, Taken, Unfinished, Busy
      <4>2. QED
        BY <4>1, TypeFacts
    <3>3. PICK l : l = written' /\ l = Append(written, m + 1)
      BY <2>1, <3>1
    <3>4. Len(l) = m + 1 /\ (\A i \in 1 .. m : l[i] = written[i]) /\ l[m + 1] = m + 1
      BY <1>4, <1>5, <3>3
    <3>5. ASSUME NEW i \in 1 .. m + 1 PROVE l[i] = i
      <4>1. i = m + 1 \/ i \in 1 .. m
        BY <1>5
      <4>2. QED
        BY <1>7, <3>4, <4>1
    <3>6. \A v \in Crew["single"] : wpc'[v] # "run"
      BY <1>4, <1>8, <2>1, <2>2
    <3>7. WrittenInOrder(got)'
      BY <1>5, <1>6, <1>7, <2>1, <3>1, <3>3, <3>4, <3>5, <3>6 DEF WrittenInOrder
    <3>8. QED
      BY <1>1, <1>3, <3>7, SomeGot
  <2>3. CASE w \notin Crew["single"]
    <3>1. written' = written
      <4>1. PICK p \in Pools : w \in Crew[p] /\ p # "single"
        BY <2>3, CrewFacts
      <4>2. PoolOf(job[w][1]) = p
        BY <2>1, <4>1 DEF Inv, Taken, Unfinished, Busy
      <4>3. job[w][1] # NStages
        BY <4>1, <4>2, PoolFacts
      <4>4. QED
        BY <2>1, <4>3
    <3>2. \A v \in Crew["single"] : wpc'[v] = wpc[v]
      BY <1>4, <1>8, <2>1, <2>3
    <3>3. WrittenInOrder(got)'
      BY <1>1, <2>1, <3>1, <3>2 DEF WrittenInOrder
    <3>4. QED
      BY <1>1, <1>3, <3>3, SomeGot
  <2>4. QED
    BY <2>2, <2>3
<1>10. CASE WorkerFinish(w)
  <2>1. /\ wpc[w] = "finish" /\ wpc' = [wpc EXCEPT ![w] = "loop"] /\ queue' = queue
        /\ job' = [job EXCEPT ![w] = NoJob]
    BY <1>10 DEF WorkerFinish
  <2>2. \A v \in Crew["single"] : (wpc'[v] = "run" <=> wpc[v] = "run") /\ (wpc[v] = "run" => job'[v] = job[v])
    BY <1>4, <1>8, <2>1
  <2>3. written' = written
    BY <1>10, <2>1 DEF Worker, HandleEvents, WorkerRun, bufferVars
  <2>4. WrittenInOrder(got)'
    BY <1>1, <2>1, <2>2, <2>3 DEF WrittenInOrder
  <2>5. QED
    BY <1>1, <1>3, <2>4, SomeGot
<1>11. CASE \E p \in Pools : w \in Crew[p] /\ WorkerTake(p, w)
  <2>1. PICK p \in Pools : w \in Crew[p] /\ WorkerTake(p, w)
    BY <1>11
  <2>2. wpc[w] = "loop"
    BY <2>1 DEF WorkerTake
  <2>3. written' = written
    BY <2>2 DEF Worker, HandleEvents, WorkerRun, WorkerFinish, bufferVars
  <2>4. CASE /\ queue' = queue /\ job' = job
             /\ wpc' = [wpc EXCEPT ![w] = "exited"] \/ wpc' = [wpc EXCEPT ![w] = "waiting"]
    <3>1. \A v \in Crew["single"] : wpc'[v] = "run" <=> wpc[v] = "run"
      BY <1>4, <1>8, <2>2, <2>4
    <3>2. WrittenInOrder(got)'
      BY <1>1, <2>3, <2>4, <3>1 DEF WrittenInOrder
    <3>3. QED
      BY <1>1, <1>3, <3>2, SomeGot
  <2>5. CASE /\ queue[p] # << >> /\ queue' = [queue EXCEPT ![p] = Tail(@)]
             /\ job' = [job EXCEPT ![w] = Head(queue[p])] /\ wpc' = [wpc EXCEPT ![w] = "run"]
    <3>1. CASE p = "single"
      <4>1. w \in Crew["single"] /\ m = g - n
        BY <1>7, <2>1, <2>2, <3>1
      <4>2. q # << >> /\ n > 0
        BY <1>6, <2>5, <3>1, EmptySeq
      <4>3. PICK t : t = Tail(q)
        OBVIOUS
      <4>4. Len(t) = n - 1 /\ (\A i \in 1 .. n - 1 : t[i] = q[i + 1]) /\ Head(q) = q[1]
        BY <1>6, <4>2, <4>3, HeadTailProperties
      <4>5. queue'["single"] = t /\ job'[w] = q[1] /\ wpc'[w] = "run"
        BY <1>4, <1>6, <2>5, <3>1, <4>3, <4>4
      <4>6. q[1] = <<NStages, m + 1>>
        BY <1>5, <1>6, <1>7, <4>1, <4>2
      <4>7. ASSUME NEW i \in 1 .. n - 1 PROVE t[i] = <<NStages, g - (n - 1) + i>>
        <5>1. g \in Nat /\ n \in Nat
          BY <1>5, <1>6
        <5>2. i + 1 \in 1 .. n /\ g - n + (i + 1) = g - (n - 1) + i
          BY <5>1
        <5>3. QED
          BY <1>7, <4>4, <5>2
      <4>8. m + 1 = g - (n - 1)
        BY <1>5, <1>6, <4>1
      <4>9. \A v \in Crew["single"] : v = w
        BY <1>8, <4>1
      <4>10. WrittenInOrder(got)'
        BY <1>5, <1>7, <2>3, <4>4, <4>5, <4>6, <4>7, <4>8, <4>9 DEF WrittenInOrder
      <4>11. QED
        BY <1>1, <1>3, <4>10, SomeGot
    <3>2. CASE p # "single"
      <4>1. w \notin Crew["single"]
        BY <2>1, <3>2, CrewFacts, PoolFacts
      <4>2. queue'["single"] = queue["single"]
        BY <1>4, <2>5, <3>2, PoolFacts
      <4>3. \A v \in Crew["single"] : wpc'[v] = wpc[v] /\ job'[v] = job[v]
        BY <1>4, <1>8, <2>5, <4>1
      <4>4. WrittenInOrder(got)'
        BY <1>1, <2>3, <4>2, <4>3 DEF WrittenInOrder
      <4>5. QED
        BY <1>1, <1>3, <4>4, SomeGot
    <3>3. QED
      BY <3>1, <3>2
  <2>6. QED
    BY <2>1, <2>4, <2>5 DEF WorkerTake
<1>12. QED
  BY <1>9, <1>10, <1>11 DEF Worker

----------------------------------------------------------------------------
(* The sleepers. *)

LEMMA SleepersStay ==
  ASSUME Inv, queue' = queue, \A w \in Threads : wpc'[w] = "waiting" => wpc[w] = "waiting",
         starved' \subseteq starved, awaited' \cap finished' = {}
  PROVE  NoLostWakeup'
<1>1. ASSUME NEW p \in Pools, queue'[p] # << >> PROVE Waiting(p)' # Crew[p]
  <2>1. queue[p] # << >>
    BY <1>1
  <2>2. PICK w \in Crew[p] : wpc[w] # "waiting"
    BY <2>1 DEF Inv, NoLostWakeup, Waiting
  <2>3. wpc'[w] # "waiting"
    BY <2>2, CrewFacts
  <2>4. QED
    BY <2>3 DEF Waiting
<1>2. ASSUME NEW p \in starved' PROVE ~HasRoom(p)'
  BY DEF Inv, NoLostWakeup, HasRoom, MaxQueueSize
<1>3. QED
  BY <1>1, <1>2 DEF NoLostWakeup

LEMMA MainSleepers ==
  ASSUME Inv, Main
  PROVE  NoLostWakeup'
<1>1. awaited \cap finished = {}
  BY DEF Inv, NoLostWakeup
<1>2. wpc \in [Threads -> {"none", "loop", "waiting", "run", "finish", "exited"}] /\ queue \in [Pools -> Seq(Jobs)]
  BY TypeFacts
<1>3. CASE UNCHANGED poolVars
  BY <1>1, <1>3, SleepersStay DEF poolVars
<1>4. CASE BuildStage \/ WakeWorkers \/ JoinAndGoOn
  <2>1. UNCHANGED <<queue, starved, awaited, finished>>
    BY <1>4 DEF BuildStage, WakeWorkers, JoinAndGoOn, ClientIncrease, BroadcastDie, JoinWorkers
  <2>2. \A w \in Threads : wpc'[w] = "waiting" => wpc[w] = "waiting"
    <3>1. CASE BuildStage
      BY <1>2, <3>1 DEF BuildStage, ClientIncrease
    <3>2. CASE WakeWorkers
      BY <1>2, <3>2 DEF WakeWorkers, BroadcastDie
    <3>3. CASE JoinAndGoOn
      BY <1>2, <3>3 DEF JoinAndGoOn, JoinWorkers
    <3>4. QED
      BY <1>4, <3>1, <3>2, <3>3
  <2>3. QED
    BY <1>1, <2>1, <2>2, SleepersStay
<1>5. CASE DestroyStage \/ DeleteWorker
  <2>1. UNCHANGED <<queue, wpc, starved, awaited>> /\ finished' \subseteq finished
    BY <1>5 DEF DestroyStage, DeleteWorker, ClientDecrease, DeleteJob
  <2>2. QED
    BY <1>1, <2>1, SleepersStay
<1>6. CASE WaitForWorker
  <2>1. UNCHANGED <<queue, wpc, starved, finished>> /\ awaited' \cap finished' = {}
    BY <1>1, <1>6 DEF WaitForWorker, JobDone, WaitForJob, poolVars
  <2>2. QED
    BY <2>1, SleepersStay
<1>7. CASE PushEvents /\ WaitForRoom(PoolOf(at))
  <2>1. PICK p \in Pools : ~HasRoom(p) /\ starved' = starved \cup {p} /\ UNCHANGED <<queue, wpc, awaited, finished>>
    BY <1>7, PoolFacts DEF WaitForRoom
  <2>2. \A r \in starved' : ~HasRoom(r)
    BY <2>1 DEF Inv, NoLostWakeup
  <2>3. \A r : HasRoom(r)' <=> HasRoom(r)
    BY <2>1 DEF HasRoom, MaxQueueSize
  <2>4. \A r : Waiting(r)' = Waiting(r)
    BY <2>1 DEF Waiting
  <2>5. QED
    BY <1>1, <2>1, <2>2, <2>3, <2>4 DEF Inv, NoLostWakeup
<1>8. CASE PushEvents /\ ~WaitForRoom(PoolOf(at))
  <2>1. PICK p, j : p \in Pools /\ QueueJob(p, j)
    BY <1>8, PoolFacts DEF PushEvents
  <2>2. /\ p \notin starved /\ queue' = [queue EXCEPT ![p] = Append(@, j)] /\ SignalQueued(p)
        /\ UNCHANGED <<finished, starved, awaited>>
    BY <2>1 DEF QueueJob
  <2>3. Wakes
    BY <2>1, <2>2, SignalWakes
  <2>4. ASSUME NEW r \in Pools, queue'[r] # << >> PROVE Waiting(r)' # Crew[r]
    <3>1. CASE r = p
      <4>1. \E w \in Crew[p] : wpc'[w] # "waiting"
        <5>1. CASE Waiting(p) = {} /\ UNCHANGED wpc
          BY <5>1, <2>1, CrewFacts DEF Waiting
        <5>2. CASE \E w \in Waiting(p) : wpc' = [wpc EXCEPT ![w] = "loop"]
          BY <1>2, <5>2, <2>1, CrewFacts DEF Waiting
        <5>3. QED
          BY <2>2, <5>1, <5>2 DEF SignalQueued
      <4>2. QED
        BY <3>1, <4>1 DEF Waiting
    <3>2. CASE r # p
      <4>1. queue[r] # << >>
        BY <1>2, <2>2, <2>4, <3>2
      <4>2. PICK w \in Crew[r] : wpc[w] # "waiting"
        BY <4>1 DEF Inv, NoLostWakeup, Waiting
      <4>3. wpc'[w] # "waiting"
        BY <2>3, <4>2, CrewFacts DEF Wakes
      <4>4. QED
        BY <4>3 DEF Waiting
    <3>3. QED
      BY <3>1, <3>2
  <2>5. ASSUME NEW r \in starved' PROVE ~HasRoom(r)'
    <3>1. r \in starved /\ r \in Pools /\ r # p
      BY <2>2, TypeFacts
    <3>2. queue'[r] = queue[r]
      BY <1>2, <2>2, <3>1
    <3>3. ~HasRoom(r)
      BY <3>1 DEF Inv, NoLostWakeup
    <3>4. QED
      BY <3>2, <3>3 DEF HasRoom, MaxQueueSize
  <2>6. QED
    BY <1>1, <2>2, <2>4, <2>5 DEF NoLostWakeup
<1>9. QED
  BY <1>3, <1>4, <1>5, <1>6, <1>7, <1>8
     DEF Main, ReadBlock, ReadEnd, PushNullSink, CheckFront, Drain

LEMMA WorkerSleepers ==
  ASSUME NEW w, Inv, w \in Threads, Worker(w)
  PROVE  NoLostWakeup'
<1>1. awaited \cap finished = {}
  BY DEF Inv, NoLostWakeup
<1>2. wpc \in [Threads -> {"none", "loop", "waiting", "run", "finish", "exited"}] /\ queue \in [Pools -> Seq(Jobs)]
  BY TypeFacts
<1>3. CASE HandleEvents(w)
  <2>1. wpc' = [wpc EXCEPT ![w] = "finish"] /\ UNCHANGED <<queue, finished, starved, awaited>>
    BY <1>3 DEF HandleEvents, WorkerRun
  <2>2. QED
    BY <1>1, <1>2, <2>1, SleepersStay
<1>4. CASE WorkerFinish(w)
  <2>1. /\ wpc' = [wpc EXCEPT ![w] = "loop"] /\ UNCHANGED <<queue, starved>>
        /\ finished' = finished \cup {job[w]} /\ awaited' = awaited \ {job[w]}
    BY <1>4 DEF WorkerFinish
  <2>2. awaited' \cap finished' = {}
    BY <1>1, <2>1
  <2>3. QED
    BY <1>2, <2>1, <2>2, SleepersStay
<1>5. CASE \E p \in Pools : w \in Crew[p] /\ WorkerTake(p, w)
  <2>1. PICK p \in Pools : w \in Crew[p] /\ WorkerTake(p, w)
    BY <1>5
  <2>2. wpc[w] = "loop" /\ UNCHANGED <<finished, awaited>>
    BY <2>1 DEF WorkerTake
  <2>3. CASE wpc' = [wpc EXCEPT ![w] = "exited"] /\ UNCHANGED <<queue, starved>>
    BY <1>1, <1>2, <2>2, <2>3, SleepersStay
  <2>4. CASE queue[p] = << >> /\ wpc' = [wpc EXCEPT ![w] = "waiting"] /\ UNCHANGED <<queue, starved>>
    <3>1. ASSUME NEW r \in Pools, queue'[r] # << >> PROVE Waiting(r)' # Crew[r]
      <4>1. r # p /\ queue[r] # << >>
        BY <2>4, <3>1
      <4>2. PICK v \in Crew[r] : wpc[v] # "waiting"
        BY <4>1 DEF Inv, NoLostWakeup, Waiting
      <4>3. v # w
        BY <2>1, <4>1, <4>2, CrewFacts
      <4>4. wpc'[v] # "waiting"
        BY <1>2, <2>4, <4>2, <4>3, CrewFacts
      <4>5. QED
        BY <4>4 DEF Waiting
    <3>2. ASSUME NEW r \in starved' PROVE ~HasRoom(r)'
      BY <2>4 DEF Inv, NoLostWakeup, HasRoom, MaxQueueSize
    <3>3. QED
      BY <1>1, <2>2, <3>1, <3>2 DEF NoLostWakeup
  <2>5. CASE /\ queue' = [queue EXCEPT ![p] = Tail(@)] /\ wpc' = [wpc EXCEPT ![w] = "run"]
             /\ starved' = starved \ {p}
    <3>1. ASSUME NEW r \in Pools, queue'[r] # << >> PROVE Waiting(r)' # Crew[r]
      <4>1. CASE r = p
        BY <1>2, <2>1, <2>5, <4>1 DEF Waiting
      <4>2. CASE r # p
        <5>1. queue[r] # << >>
          BY <1>2, <2>5, <3>1, <4>2
        <5>2. PICK v \in Crew[r] : wpc[v] # "waiting"
          BY <5>1 DEF Inv, NoLostWakeup, Waiting
        <5>3. wpc'[v] # "waiting"
          BY <1>2, <2>5, <5>2, CrewFacts
        <5>4. QED
          BY <5>3 DEF Waiting
      <4>3. QED
        BY <4>1, <4>2
    <3>2. ASSUME NEW r \in starved' PROVE ~HasRoom(r)'
      <4>1. r \in starved /\ r \in Pools /\ r # p
        BY <2>5, TypeFacts
      <4>2. queue'[r] = queue[r]
        BY <1>2, <2>5, <4>1
      <4>3. ~HasRoom(r)
        BY <4>1 DEF Inv, NoLostWakeup
      <4>4. QED
        BY <4>2, <4>3 DEF HasRoom, MaxQueueSize
    <3>3. QED
      BY <1>1, <2>2, <3>1, <3>2 DEF NoLostWakeup
  <2>6. QED
    BY <2>1, <2>3, <2>4, <2>5 DEF WorkerTake
<1>6. QED
  BY <1>3, <1>4, <1>5 DEF Worker

----------------------------------------------------------------------------
(* The Job objects. *)

LEMMA JobsStay ==
  ASSUME Inv, UNCHANGED <<queue, live, finished, outBuffer, job>>,
         \A w \in Threads : (Busy(w)' => Busy(w)) /\ (wpc'[w] = "finish" => wpc[w] = "finish")
  PROVE  (Queued /\ Taken)'
<1>1. Queued'
  BY DEF Inv, Queued, Unfinished
<1>2. ASSUME NEW p \in Pools, NEW w \in Crew[p], Busy(w)'
      PROVE  Unfinished(p, job[w])' /\ \A i \in 1 .. Len(queue'[p]) : queue'[p][i] # job'[w]
  <2>1. Busy(w)
    BY <1>2, CrewFacts
  <2>2. QED
    BY <2>1 DEF Inv, Taken, Unfinished
<1>3. ASSUME NEW v \in Threads, NEW w \in Threads, Busy(v)', Busy(w)', job'[v] = job'[w]
      PROVE  v = w
  BY <1>3 DEF Inv, Taken
<1>4. \A w \in Threads : wpc'[w] = "finish" => job'[w] \in outBuffer'
  BY DEF Inv, Taken
<1>5. QED
  BY <1>1, <1>2, <1>3, <1>4 DEF Taken

LEMMA SameJobs ==
  ASSUME Inv, UNCHANGED <<queue, live, finished, outBuffer, job, held, workers>>,
         \A w \in Threads : (Busy(w)' => Busy(w)) /\ (wpc'[w] = "finish" => wpc[w] = "finish"),
         \A s \in Stage : mpc = "wait" /\ at = s =>
           <<s, held[s]>> \in finished \/ (mpc' = "wait" /\ at' = s)
  PROVE  (Alive /\ Queued /\ Taken /\ Finished)'
<1>1. (Queued /\ Taken)'
  BY JobsStay
<1>2. Alive'
  BY DEF Inv, Alive, HasWorker
<1>3. Finished'
  BY DEF Inv, Finished
<1>4. QED
  BY <1>1, <1>2, <1>3

LEMMA ExtractJobs ==
  ASSUME NEW s, Inv, s \in Stage, s = at, at' = at, mpc # "wait", held[s] = NoBlock, Extract(s),
         workers[s] # << >>, UNCHANGED poolVars, outBuffer' = outBuffer
  PROVE  (Alive /\ Queued /\ Taken /\ Finished)'
<1>1. /\ held'[s] = workers[s][1] /\ workers[s][1] \in Block /\ mpc' = "wait"
      /\ Len(workers'[s]) = Len(workers[s]) - 1
      /\ \A i \in 1 .. Len(workers[s]) - 1 : workers'[s][i] = workers[s][i + 1]
      /\ \A t \in Stage : t # s => workers'[t] = workers[t] /\ held'[t] = held[t]
      /\ Len(workers[s]) > 0
  BY Extracted
<1>2. /\ UNCHANGED <<queue, live, finished, job, wpc>>
  BY DEF poolVars
<1>3. (Queued /\ Taken)'
  BY <1>2, JobsStay DEF Busy
<1>4. ASSUME NEW t \in Stage, NEW b \in Block PROVE <<t, b>> \in live' <=> HasWorker(t, b)'
  <2>1. <<t, b>> \in live <=> HasWorker(t, b)
    BY DEF Inv, Alive
  <2>2. CASE t # s
    BY <1>1, <1>2, <2>1, <2>2 DEF HasWorker
  <2>3. CASE t = s
    <3>1. PICK n \in Nat : n = Len(workers[s]) /\ n > 0
      BY <1>1, TypeFacts
    <3>2. HasWorker(t, b) <=> \E i \in 1 .. n : workers[s][i] = b
      BY <2>3, <3>1, TypeFacts DEF HasWorker
    <3>3. HasWorker(t, b)' <=> b = workers[s][1] \/ \E i \in 1 .. n - 1 : workers[s][i + 1] = b
      <4>1. HasWorker(t, b)' <=> b = held'[s] \/ \E i \in 1 .. Len(workers'[s]) : workers'[s][i] = b
        BY <2>3 DEF HasWorker
      <4>2. Len(workers'[s]) = n - 1 /\ (\A i \in 1 .. n - 1 : workers'[s][i] = workers[s][i + 1])
            /\ held'[s] = workers[s][1]
        BY <1>1, <3>1
      <4>3. QED
        BY ONLY <4>1, <4>2
    <3>4. ASSUME NEW i \in 1 .. n, workers[s][i] = b PROVE HasWorker(t, b)'
      <4>1. CASE i = 1
        BY <3>3, <3>4, <4>1
      <4>2. CASE i # 1
        <5>1. i - 1 \in 1 .. n - 1 /\ (i - 1) + 1 = i
          BY <3>1, <4>2
        <5>2. QED
          BY <3>3, <3>4, <5>1
      <4>3. QED
        BY <4>1, <4>2
    <3>5. ASSUME HasWorker(t, b)' PROVE \E i \in 1 .. n : workers[s][i] = b
      <4>1. CASE b = workers[s][1]
        <5>1. 1 \in 1 .. n
          BY <3>1
        <5>2. QED
          BY <4>1, <5>1
      <4>2. CASE \E i \in 1 .. n - 1 : workers[s][i + 1] = b
        <5>1. PICK i \in 1 .. n - 1 : workers[s][i + 1] = b
          BY <4>2
        <5>2. i + 1 \in 1 .. n
          BY <3>1
        <5>3. QED
          BY <5>1, <5>2
      <4>3. QED
        BY <3>3, <3>5, <4>1, <4>2
    <3>6. QED
      BY <1>2, <2>1, <2>3, <3>2, <3>4, <3>5
  <2>4. QED
    BY <2>2, <2>3
<1>5. Alive'
  BY <1>4 DEF Alive
<1>6. Finished'
  BY <1>1, <1>2 DEF Inv, Finished
<1>7. QED
  BY <1>3, <1>5, <1>6

\* Steps of the main thread but those that make or delete a Job.
LEMMA MainJobs ==
  ASSUME Inv, Main, ~DeleteWorker, ~(PushEvents /\ ~WaitForRoom(PoolOf(at)))
  PROVE  (Alive /\ Queued /\ Taken /\ Finished)'
<1>1. wpc \in [Threads -> {"none", "loop", "waiting", "run", "finish", "exited"}]
  BY TypeFacts
<1>2. CASE BuildStage \/ DestroyStage \/ WakeWorkers \/ JoinAndGoOn
  <2>1. UNCHANGED <<queue, live, finished, outBuffer, job, held, workers>> /\ mpc # "wait"
    BY <1>2 DEF BuildStage, DestroyStage, WakeWorkers, JoinAndGoOn, ClientIncrease, ClientDecrease,
                BroadcastDie, JoinWorkers, bufferVars
  <2>2. \A w \in Threads : (Busy(w)' => Busy(w)) /\ (wpc'[w] = "finish" => wpc[w] = "finish")
    <3>1. CASE BuildStage
      BY <1>1, <3>1 DEF BuildStage, ClientIncrease, Busy
    <3>2. CASE DestroyStage
      BY <3>2 DEF DestroyStage, ClientDecrease, Busy
    <3>3. CASE WakeWorkers
      BY <1>1, <3>3 DEF WakeWorkers, BroadcastDie, Busy
    <3>4. CASE JoinAndGoOn
      BY <1>1, <3>4 DEF JoinAndGoOn, JoinWorkers, Busy
    <3>5. QED
      BY <1>2, <3>1, <3>2, <3>3, <3>4
  <2>3. QED
    BY <2>1, <2>2, SameJobs
<1>3. CASE ReadBlock \/ ReadEnd \/ PushNullSink
  <2>1. UNCHANGED <<queue, live, finished, outBuffer, job, held, workers, wpc>> /\ mpc # "wait"
    BY <1>3 DEF ReadBlock, ReadEnd, PushNullSink, poolVars, bufferVars
  <2>2. QED
    BY <2>1, SameJobs DEF Busy
<1>4. CASE PushEvents
  <2>1. UNCHANGED <<queue, live, finished, outBuffer, job, held, workers, wpc, mpc, at>> /\ mpc # "wait"
    BY <1>4 DEF PushEvents, WaitForRoom, QueueJob, bufferVars
  <2>2. QED
    BY <2>1, SameJobs DEF Busy
<1>5. CASE WaitForWorker
  <2>1. /\ UNCHANGED <<queue, live, finished, outBuffer, job, held, workers, wpc>>
        /\ JobDone(<<at, held[at]>>) \/ (mpc' = mpc /\ at' = at)
    BY <1>5 DEF WaitForWorker, WaitForJob, JobDone, poolVars, bufferVars
  <2>2. \A s \in Stage : mpc = "wait" /\ at = s =>
          <<s, held[s]>> \in finished \/ (mpc' = "wait" /\ at' = s)
    BY <2>1 DEF JobDone
  <2>3. QED
    BY <2>1, <2>2, SameJobs DEF Busy
<1>6. CASE CheckFront \/ Drain
  <2>1. mpc \in {"check", "drain"} /\ UNCHANGED poolVars /\ outBuffer' = outBuffer /\ at \in Stage
    BY <1>6 DEF CheckFront, Drain, bufferVars, Inv, Stack, InStage
  <2>2. CASE workers[at] # << >> /\ Extract(at) /\ at' = at
    <3>1. held[at] = NoBlock
      <4>1. CASE mpc = "drain"
        BY <2>1, <4>1 DEF Inv, Stack
      <4>2. CASE mpc = "check"
        <5>1. held[at] # NoBlock => at < at
          BY <2>1, <4>2 DEF Inv, Stack, Within
        <5>2. QED
          BY <5>1, TypeFacts
      <4>3. QED
        BY <2>1, <4>1, <4>2
    <3>2. PICK s : s = at
      OBVIOUS
    <3>3. QED
      BY <2>1, <2>2, <3>1, <3>2, ExtractJobs
  <2>3. CASE UNCHANGED <<held, workers>>
    <3>1. UNCHANGED <<queue, live, finished, outBuffer, job, held, workers, wpc>> /\ mpc # "wait"
      BY <2>1, <2>3 DEF poolVars
    <3>2. QED
      BY <3>1, SameJobs DEF Busy
  <2>4. (workers[at] # << >> /\ Extract(at) /\ at' = at) \/ UNCHANGED <<held, workers>>
    <3>1. CASE CheckFront
      BY <3>1 DEF CheckFront, FrontIsFinished
    <3>2. CASE Drain
      BY <3>2 DEF Drain
    <3>3. QED
      BY <1>6, <3>1, <3>2
  <2>5. QED
    BY <2>2, <2>3, <2>4
<1>7. QED
  BY <1>2, <1>3, <1>4, <1>5, <1>6 DEF Main

\* The block a stage is given has no Worker there yet.
LEMMA NewJob ==
  ASSUME Inv, mpc = "push", at \in Stage
  PROVE  /\ InBuffer(at) \in Block /\ <<at, InBuffer(at)>> \in Jobs
         /\ <<at, InBuffer(at)>> \notin live /\ held[at] = NoBlock
<1>1. PICK got \in Got : Flow(got)
  BY DEF Inv, InOrder
<1>2. InBuffer(at) = got[at] + 1 /\ InBuffer(at) \in Block
  BY <1>1, NextBlock
<1>3. PICK n \in Nat, g \in Nat : n = Len(workers[at]) /\ g = got[at]
  BY <1>1, FlowFacts, TypeFacts
<1>4. n <= g /\ \A i \in 1 .. n : workers[at][i] = g - n + i
  BY <1>1, <1>3 DEF Flow
<1>5. \A i \in 1 .. n : workers[at][i] # g + 1
  BY <1>3, <1>4
<1>6. held[at] = NoBlock
  <2>1. held[at] # NoBlock => at < at
    BY DEF Inv, Stack, Within
  <2>2. QED
    BY <2>1, TypeFacts
<1>7. ~HasWorker(at, InBuffer(at))
  BY <1>2, <1>3, <1>5, <1>6, TypeFacts DEF HasWorker
<1>8. QED
  BY <1>2, <1>6, <1>7, PoolFacts DEF Inv, Alive

LEMMA PushJobs ==
  ASSUME Inv, PushEvents, ~WaitForRoom(PoolOf(at))
  PROVE  (Alive /\ Queued /\ Taken /\ Finished)'
<1>1. PICK b, p, j : b = InBuffer(at) /\ p = PoolOf(at) /\ j = <<at, b>>
  OBVIOUS
<1>2. /\ mpc = "push" /\ at \in Stage /\ mpc' = "check" /\ at' = at
      /\ QueueJob(p, j) /\ workers' = [workers EXCEPT ![at] = Append(@, b)]
      /\ UNCHANGED <<held, outBuffer>>
  BY <1>1 DEF PushEvents, bufferVars
<1>3. /\ queue' = [queue EXCEPT ![p] = Append(@, j)] /\ live' = live \cup {j} /\ SignalQueued(p)
      /\ UNCHANGED <<finished, job>>
  BY <1>2 DEF QueueJob
<1>4. b \in Block /\ j \in Jobs /\ j \notin live /\ p \in Pools /\ PoolOf(j[1]) = p /\ held[at] = NoBlock
  BY <1>1, <1>2, NewJob, PoolFacts
<1>5. Wakes
  BY <1>3, <1>4, SignalWakes
<1>6. \A w \in Threads : (Busy(w)' <=> Busy(w)) /\ (wpc'[w] = "finish" <=> wpc[w] = "finish")
  BY <1>5 DEF Wakes, Busy
<1>7. finished \subseteq live /\ j \notin finished
  BY <1>4 DEF Inv, Finished
<1>8. \A k : k \in live \ finished => k \in live' \ finished' /\ k # j
  BY <1>3, <1>4
<1>9. j \in live' \ finished'
  BY <1>3, <1>7
<1>10. workers \in [Stage -> Seq(Block)] /\ queue \in [Pools -> Seq(Jobs)]
  BY TypeFacts
<1>11. Alive'
  <2>1. ASSUME NEW t \in Stage, NEW c \in Block PROVE <<t, c>> \in live' <=> HasWorker(t, c)'
    <3>1. <<t, c>> \in live <=> HasWorker(t, c)
      BY DEF Inv, Alive
    <3>2. CASE t # at
      <4>1. workers'[t] = workers[t] /\ <<t, c>> # j
        BY <1>1, <1>2, <1>10, <3>2
      <4>2. QED
        BY <1>2, <1>3, <3>1, <4>1 DEF HasWorker
    <3>3. CASE t = at
      <4>1. PICK l \in Seq(Block), n \in Nat, k \in {workers'[at]} : l = workers[at] /\ n = Len(l) /\ k = Append(l, b)
        BY <1>2, <1>10
      <4>2. Len(k) = n + 1 /\ (\A i \in 1 .. n : k[i] = l[i]) /\ k[n + 1] = b
        BY <4>1
      <4>3. HasWorker(t, c)' <=> c = held[at] \/ \E i \in 1 .. n + 1 : k[i] = c
        BY <1>2, <3>3, <4>1, <4>2 DEF HasWorker
      <4>4. HasWorker(t, c) <=> c = held[at] \/ \E i \in 1 .. n : l[i] = c
        BY <3>3, <4>1 DEF HasWorker
      <4>5. (\E i \in 1 .. n + 1 : k[i] = c) <=> c = b \/ \E i \in 1 .. n : l[i] = c
        <5>1. \A i : i \in 1 .. n + 1 <=> i \in 1 .. n \/ i = n + 1
          BY <4>1
        <5>2. QED
          BY <4>2, <5>1
      <4>6. <<t, c>> = j <=> c = b
        BY <1>1, <3>3
      <4>7. QED
        BY <1>3, <3>1, <4>3, <4>4, <4>5, <4>6
    <3>4. QED
      BY <3>2, <3>3
  <2>2. QED
    BY <2>1 DEF Alive
<1>12. PICK q \in Seq(Jobs), n \in Nat, k \in {queue'[p]} : q = queue[p] /\ n = Len(q) /\ k = Append(q, j)
  BY <1>3, <1>4, <1>10
<1>13. Len(k) = n + 1 /\ (\A i \in 1 .. n : k[i] = q[i]) /\ k[n + 1] = j /\ \A i : i \in 1 .. n + 1 <=> i \in 1 .. n \/ i = n + 1
  BY <1>12
<1>14. \A r \in Pools : r # p => queue'[r] = queue[r]
  BY <1>3, <1>10
<1>15. \A i \in 1 .. n : q[i] \in live' \ finished' /\ PoolOf(q[i][1]) = p /\ q[i] # j
  BY <1>4, <1>8, <1>12 DEF Inv, Queued, Unfinished
<1>16. Queued'
  <2>1. ASSUME NEW r \in Pools, NEW i \in 1 .. Len(queue'[r]) 
        PROVE queue'[r][i] \in live' \ finished' /\ PoolOf(queue'[r][i][1]) = r
    <3>1. CASE r = p
      <4>1. i \in 1 .. n \/ i = n + 1
        BY <1>12, <1>13, <3>1
      <4>2. queue'[r][i] = k[i]
        BY <1>12, <3>1
      <4>3. CASE i = n + 1
        BY <1>4, <1>9, <1>13, <3>1, <4>2, <4>3
      <4>4. CASE i \in 1 .. n
        BY <1>13, <1>15, <3>1, <4>2, <4>4
      <4>5. QED
        BY <4>1, <4>3, <4>4
    <3>2. CASE r # p
      BY <1>8, <1>14, <3>2 DEF Inv, Queued, Unfinished
    <3>3. QED
      BY <3>1, <3>2
  <2>2. ASSUME NEW r \in Pools, NEW i \in 1 .. Len(queue'[r]), NEW h \in 1 .. Len(queue'[r]),
               queue'[r][i] = queue'[r][h]
        PROVE  i = h
    <3>1. CASE r = p
      <4>1. /\ i \in 1 .. n \/ i = n + 1
            /\ h \in 1 .. n \/ h = n + 1
        BY <1>12, <1>13, <3>1
      <4>2. \A x, y \in 1 .. n : q[x] = q[y] => x = y
        BY <1>4, <1>12 DEF Inv, Queued
      <4>3. k[i] = k[h]
        BY <1>12, <2>2, <3>1
      <4>4. QED
        BY <1>13, <1>15, <4>1, <4>2, <4>3
    <3>2. CASE r # p
      BY <1>14, <2>2, <3>2 DEF Inv, Queued
    <3>3. QED
      BY <3>1, <3>2
  <2>3. QED
    BY <2>1, <2>2 DEF Queued, Unfinished
<1>17. Taken'
  <2>1. ASSUME NEW r \in Pools, NEW w \in Crew[r], Busy(w)'
        PROVE  /\ job'[w] \in live' \ finished' /\ PoolOf(job'[w][1]) = r
               /\ \A i \in 1 .. Len(queue'[r]) : queue'[r][i] # job'[w]
    <3>1. /\ job[w] \in live \ finished /\ PoolOf(job[w][1]) = r
          /\ \A i \in 1 .. Len(queue[r]) : queue[r][i] # job[w]
      BY <1>6, <2>1, CrewFacts DEF Inv, Taken, Unfinished
    <3>2. job' = job /\ job[w] # j /\ job'[w] \in live' \ finished' /\ PoolOf(job'[w][1]) = r
      BY <1>3, <1>8, <3>1
    <3>3. CASE r = p
      <4>1. \A i \in 1 .. n + 1 : k[i] # job[w]
        BY <1>12, <1>13, <3>1, <3>2, <3>3
      <4>2. QED
        BY <1>12, <1>13, <3>2, <3>3, <4>1
    <3>4. CASE r # p
      BY <1>14, <3>1, <3>2, <3>4
    <3>5. QED
      BY <3>3, <3>4
  <2>2. ASSUME NEW v \in Threads, NEW w \in Threads, Busy(v)', Busy(w)', job'[v] = job'[w] PROVE v = w
    BY <1>3, <1>6, <2>2 DEF Inv, Taken
  <2>3. \A w \in Threads : wpc'[w] = "finish" => job'[w] \in outBuffer'
    BY <1>2, <1>3, <1>6 DEF Inv, Taken
  <2>4. QED
    BY <2>1, <2>2, <2>3 DEF Taken, Unfinished
<1>18. Finished'
  BY <1>2, <1>3 DEF Inv, Finished
<1>19. QED
  BY <1>11, <1>16, <1>17, <1>18

LEMMA DeleteJobs ==
  ASSUME Inv, DeleteWorker
  PROVE  (Alive /\ Queued /\ Taken /\ Finished)'
<1>1. PICK b, j : b = held[at] /\ j = <<at, b>>
  OBVIOUS
<1>2. /\ mpc = "delete" /\ at \in Stage /\ at' = at /\ mpc' \in {"drain", "check"}
      /\ live' = live \ {j} /\ finished' = finished \ {j} /\ outBuffer' = outBuffer \ {j}
      /\ held' = [held EXCEPT ![at] = NoBlock] /\ UNCHANGED <<queue, wpc, job, workers>>
  BY <1>1 DEF DeleteWorker, DeleteJob, Inv, Stack, InStage
<1>3. b # NoBlock /\ j \in finished
  <2>1. held[at] # NoBlock
    BY <1>2, TypeFacts DEF Inv, Stack, Within
  <2>2. QED
    BY <1>1, <1>2, <2>1 DEF Inv, Finished
<1>4. \A i \in 1 .. Len(workers[at]) : workers[at][i] # b
  <2>1. PICK got \in Got : Flow(got)
    BY DEF Inv, InOrder
  <2>2. PICK n \in Nat, g \in Nat : n = Len(workers[at]) /\ g = got[at]
    BY <1>2, <2>1, FlowFacts, TypeFacts
  <2>3. b = g - n /\ \A i \in 1 .. n : workers[at][i] = g - n + i
    BY <1>1, <1>2, <1>3, <2>1, <2>2 DEF Flow
  <2>4. n \in Nat /\ g \in Nat
    BY <2>2
  <2>5. QED
    BY <2>2, <2>3, <2>4
<1>5. held \in [Stage -> 0 .. MaxBlocks] /\ held'[at] = NoBlock /\ \A s \in Stage : s # at => held'[s] = held[s]
  BY <1>2, TypeFacts
<1>6. Alive'
  <2>1. ASSUME NEW t \in Stage, NEW c \in Block PROVE <<t, c>> \in live' <=> HasWorker(t, c)'
    <3>1. (<<t, c>> \in live <=> HasWorker(t, c)) /\ c # NoBlock
      BY TypeFacts DEF Inv, Alive
    <3>2. CASE t # at
      BY <1>1, <1>2, <1>5, <3>1, <3>2 DEF HasWorker
    <3>3. CASE t = at
      BY <1>1, <1>2, <1>4, <1>5, <3>1, <3>3 DEF HasWorker
    <3>4. QED
      BY <3>2, <3>3
  <2>2. QED
    BY <2>1 DEF Alive
<1>7. \A k : k \in live \ finished => k \in live' \ finished' /\ k # j
  BY <1>2, <1>3
<1>8. Queued'
  BY <1>2, <1>7 DEF Inv, Queued, Unfinished
<1>9. \A w : Busy(w)' <=> Busy(w)
  BY <1>2 DEF Busy
<1>10. Taken'
  <2>1. ASSUME NEW r \in Pools, NEW w \in Crew[r], Busy(w)'
        PROVE  /\ job'[w] \in live' \ finished' /\ PoolOf(job'[w][1]) = r /\ job'[w] # j
               /\ \A i \in 1 .. Len(queue'[r]) : queue'[r][i] # job'[w]
    BY <1>2, <1>7, <1>9, <2>1 DEF Inv, Taken, Unfinished
  <2>2. ASSUME NEW w \in Threads, wpc'[w] = "finish" PROVE job'[w] \in outBuffer'
    <3>1. job'[w] # j
      BY <2>1, <2>2, CrewFacts DEF Busy
    <3>2. QED
      BY <1>2, <2>2, <3>1 DEF Inv, Taken
  <2>3. ASSUME NEW v \in Threads, NEW w \in Threads, Busy(v)', Busy(w)', job'[v] = job'[w] PROVE v = w
    BY <1>2, <1>9, <2>3 DEF Inv, Taken
  <2>4. QED
    BY <2>1, <2>2, <2>3 DEF Taken, Unfinished
<1>11. Finished'
  <2>1. ASSUME NEW s \in Stage, held'[s] # NoBlock PROVE <<s, held'[s]>> \in finished'
    <3>1. s # at /\ held'[s] = held[s] /\ <<s, held[s]>> # j
      BY <1>1, <1>5, <2>1
    <3>2. QED
      BY <1>2, <2>1, <3>1 DEF Inv, Finished
  <2>2. QED
    BY <1>2, <2>1 DEF Inv, Finished
<1>12. QED
  BY <1>6, <1>8, <1>10, <1>11

LEMMA WorkerJobs ==
  ASSUME NEW w, Inv, w \in Threads, Worker(w)
  PROVE  (Alive /\ Queued /\ Taken /\ Finished)'
<1>1. /\ wpc \in [Threads -> {"none", "loop", "waiting", "run", "finish", "exited"}]
      /\ queue \in [Pools -> Seq(Jobs)] /\ job \in [Threads -> Jobs \cup {NoJob}]
  BY TypeFacts
<1>2. UNCHANGED <<live, held, workers, mpc, at>>
  BY DEF Worker, WorkerTake, WorkerFinish, HandleEvents, WorkerRun, stackVars
<1>3. Alive'
  BY <1>2 DEF Inv, Alive, HasWorker
<1>4. PICK p \in Pools : w \in Crew[p]
  BY CrewFacts
<1>5. \A r \in Pools : \A v \in Crew[r] : v \in Threads /\ (v = w => r = p)
  BY <1>4, CrewFacts
<1>6. CASE HandleEvents(w)
  <2>1. /\ wpc[w] = "run" /\ wpc' = [wpc EXCEPT ![w] = "finish"] /\ outBuffer' = outBuffer \cup {job[w]}
        /\ UNCHANGED <<queue, job, finished>>
    BY <1>6 DEF HandleEvents, WorkerRun
  <2>2. \A v \in Threads : (Busy(v)' <=> Busy(v)) /\ (v # w => wpc'[v] = wpc[v])
    BY <1>1, <2>1 DEF Busy
  <2>3. Queued'
    BY <1>2, <2>1 DEF Inv, Queued, Unfinished
  <2>4. Taken'
    <3>1. ASSUME NEW r \in Pools, NEW v \in Crew[r], Busy(v)'
          PROVE  Unfinished(r, job[v])' /\ \A i \in 1 .. Len(queue'[r]) : queue'[r][i] # job'[v]
      BY <1>2, <2>1, <2>2, <3>1, <1>5 DEF Inv, Taken, Unfinished
    <3>2. ASSUME NEW v \in Threads, NEW u \in Threads, Busy(v)', Busy(u)', job'[v] = job'[u] PROVE v = u
      BY <2>1, <2>2, <3>2 DEF Inv, Taken
    <3>3. \A v \in Threads : wpc'[v] = "finish" => job'[v] \in outBuffer'
      BY <2>1, <2>2 DEF Inv, Taken
    <3>4. QED
      BY <3>1, <3>2, <3>3 DEF Taken
  <2>5. Finished'
    BY <1>2, <2>1 DEF Inv, Finished
  <2>6. QED
    BY <1>3, <2>3, <2>4, <2>5
<1>7. CASE WorkerFinish(w)
  <2>1. PICK j : j = job[w]
    OBVIOUS
  <2>2. /\ wpc[w] = "finish" /\ wpc' = [wpc EXCEPT ![w] = "loop"] /\ finished' = finished \cup {j}
        /\ job' = [job EXCEPT ![w] = NoJob] /\ queue' = queue
    BY <1>7, <2>1 DEF WorkerFinish
  <2>3. outBuffer' = outBuffer
    BY <2>2 DEF Worker, HandleEvents, WorkerRun, bufferVars
  <2>4. /\ j \in live /\ j \notin finished /\ PoolOf(j[1]) = p /\ j \in outBuffer
        /\ \A i \in 1 .. Len(queue[p]) : queue[p][i] # j
    BY <1>4, <2>1, <2>2 DEF Inv, Taken, Unfinished, Busy
  <2>5. \A r \in Pools : \A i \in 1 .. Len(queue[r]) :
          queue[r][i] \in live \ finished /\ PoolOf(queue[r][i][1]) = r /\ queue[r][i] # j
    BY <2>4 DEF Inv, Queued, Unfinished
  <2>6. \A v \in Threads : Busy(v)' => Busy(v) /\ v # w /\ job'[v] = job[v] /\ wpc'[v] = wpc[v]
    BY <1>1, <2>2 DEF Busy
  <2>7. Queued'
    BY <1>2, <2>2, <2>5 DEF Inv, Queued, Unfinished
  <2>8. Taken'
    <3>1. ASSUME NEW r \in Pools, NEW v \in Crew[r], Busy(v)'
          PROVE  /\ job'[v] \in live' \ finished' /\ PoolOf(job'[v][1]) = r
                 /\ \A i \in 1 .. Len(queue'[r]) : queue'[r][i] # job'[v]
      <4>1. v \in Threads /\ Busy(v) /\ v # w /\ job'[v] = job[v]
        BY <1>5, <2>6, <3>1
      <4>2. job[v] # j
        BY <2>1, <2>2, <4>1 DEF Inv, Taken, Busy
      <4>3. QED
        BY <1>2, <2>2, <4>1, <4>2 DEF Inv, Taken, Unfinished
    <3>2. ASSUME NEW v \in Threads, NEW u \in Threads, Busy(v)', Busy(u)', job'[v] = job'[u] PROVE v = u
      BY <2>6, <3>2 DEF Inv, Taken
    <3>3. \A v \in Threads : wpc'[v] = "finish" => job'[v] \in outBuffer'
      BY <2>3, <2>6 DEF Inv, Taken, Busy
    <3>4. QED
      BY <3>1, <3>2, <3>3 DEF Taken, Unfinished
  <2>9. Finished'
    BY <1>2, <2>2, <2>3, <2>4 DEF Inv, Finished
  <2>10. QED
    BY <1>3, <2>7, <2>8, <2>9
<1>8. CASE \E r \in Pools : w \in Crew[r] /\ WorkerTake(r, w)
  <2>1. WorkerTake(p, w)
    BY <1>5, <1>8
  <2>2. wpc[w] = "loop" /\ UNCHANGED <<live, finished>>
    BY <2>1 DEF WorkerTake
  <2>3. outBuffer' = outBuffer
    BY <2>2 DEF Worker, HandleEvents, WorkerRun, WorkerFinish, bufferVars
  <2>4. Finished'
    BY <1>2, <2>2, <2>3 DEF Inv, Finished
  <2>5. CASE /\ queue' = queue /\ job' = job
             /\ wpc' = [wpc EXCEPT ![w] = "exited"] \/ wpc' = [wpc EXCEPT ![w] = "waiting"]
    <3>1. \A v \in Threads : (Busy(v)' => Busy(v)) /\ (wpc'[v] = "finish" => wpc[v] = "finish")
      BY <1>1, <2>2, <2>5 DEF Busy
    <3>2. (Queued /\ Taken)'
      BY <1>2, <2>2, <2>3, <2>5, <3>1, JobsStay
    <3>3. QED
      BY <1>3, <2>4, <3>2
  <2>6. CASE /\ queue[p] # << >> /\ queue' = [queue EXCEPT ![p] = Tail(@)]
             /\ job' = [job EXCEPT ![w] = Head(queue[p])] /\ wpc' = [wpc EXCEPT ![w] = "run"]
    <3>1. PICK q \in Seq(Jobs), n \in Nat : q = queue[p] /\ n = Len(q)
      BY <1>1
    <3>2. q # << >> /\ n > 0
      BY <2>6, <3>1, EmptySeq
    <3>3. PICK t : t = Tail(q)
      OBVIOUS
    <3>4. Len(t) = n - 1 /\ (\A i \in 1 .. n - 1 : t[i] = q[i + 1]) /\ Head(q) = q[1]
      BY <3>1, <3>2, <3>3, HeadTailProperties
    <3>5. /\ queue'[p] = t /\ \A r \in Pools : r # p => queue'[r] = queue[r]
      BY <1>1, <2>6, <3>1, <3>3
    <3>6. job'[w] = q[1] /\ wpc'[w] = "run" /\ \A v \in Threads : v # w => job'[v] = job[v] /\ wpc'[v] = wpc[v]
      BY <1>1, <2>6, <3>1, <3>4
    <3>7. n \in Nat /\ 1 \in 1 .. n /\ \A i \in 1 .. n - 1 : i + 1 \in 1 .. n /\ i + 1 # 1
      BY <3>1, <3>2
    <3>8. /\ \A i \in 1 .. n : q[i] \in live \ finished /\ PoolOf(q[i][1]) = p
          /\ \A i, k \in 1 .. n : q[i] = q[k] => i = k
      BY <3>1 DEF Inv, Queued, Unfinished
    <3>9. Queued'
      <4>1. ASSUME NEW r \in Pools, NEW i \in 1 .. Len(queue'[r])
            PROVE  queue'[r][i] \in live' \ finished' /\ PoolOf(queue'[r][i][1]) = r
        <5>1. CASE r = p
          <6>1. i \in 1 .. n - 1 /\ queue'[r][i] = q[i + 1]
            BY <3>4, <3>5, <5>1
          <6>2. QED
            BY <2>2, <3>7, <3>8, <5>1, <6>1
        <5>2. CASE r # p
          BY <2>2, <3>5, <5>2 DEF Inv, Queued, Unfinished
        <5>3. QED
          BY <5>1, <5>2
      <4>2. ASSUME NEW r \in Pools, NEW i \in 1 .. Len(queue'[r]), NEW k \in 1 .. Len(queue'[r]),
                   queue'[r][i] = queue'[r][k]
            PROVE  i = k
        <5>1. CASE r = p
          <6>1. /\ i \in 1 .. n - 1 /\ queue'[r][i] = q[i + 1]
                /\ k \in 1 .. n - 1 /\ queue'[r][k] = q[k + 1]
            BY <3>4, <3>5, <5>1
          <6>2. i + 1 = k + 1
            BY <3>7, <3>8, <4>2, <6>1
          <6>3. QED
            BY <3>1, <6>1, <6>2
        <5>2. CASE r # p
          BY <3>5, <4>2, <5>2 DEF Inv, Queued
        <5>3. QED
          BY <5>1, <5>2
      <4>3. QED
        BY <4>1, <4>2 DEF Queued, Unfinished
    <3>10. \A v \in Threads : v # w => (Busy(v)' <=> Busy(v))
      BY <3>6 DEF Busy
    <3>11. ASSUME NEW r \in Pools, NEW v \in Crew[r], v # w, Busy(v)'
           PROVE  /\ v \in Threads /\ Busy(v) /\ job'[v] = job[v]
                  /\ job[v] \in live \ finished /\ PoolOf(job[v][1]) = r
                  /\ \A i \in 1 .. Len(queue[r]) : queue[r][i] # job[v]
      BY <1>5, <3>6, <3>10, <3>11 DEF Inv, Taken, Unfinished
    <3>12. Taken'
      <4>1. ASSUME NEW r \in Pools, NEW v \in Crew[r], Busy(v)'
            PROVE  /\ job'[v] \in live' \ finished' /\ PoolOf(job'[v][1]) = r
                   /\ \A i \in 1 .. Len(queue'[r]) : queue'[r][i] # job'[v]
        <5>1. CASE v = w
          <6>1. r = p /\ job'[v] = q[1] /\ q[1] \in live' \ finished' /\ PoolOf(q[1][1]) = r
            BY <1>5, <2>2, <3>6, <3>7, <3>8, <5>1
          <6>2. \A i \in 1 .. n - 1 : t[i] # q[1]
            BY <3>4, <3>7, <3>8
          <6>3. QED
            BY <3>4, <3>5, <6>1, <6>2
        <5>2. CASE v # w
          <6>1. \A i \in 1 .. Len(queue'[r]) : queue'[r][i] # job[v]
            <7>1. CASE r = p
              <8>1. \A i \in 1 .. n : q[i] # job[v]
                BY <3>1, <3>11, <4>1, <5>2, <7>1
              <8>2. QED
                BY <3>4, <3>5, <3>7, <7>1, <8>1
            <7>2. CASE r # p
              BY <3>5, <3>11, <4>1, <5>2, <7>2
            <7>3. QED
              BY <7>1, <7>2
          <6>2. QED
            BY <2>2, <3>11, <4>1, <5>2, <6>1
        <5>3. QED
          BY <5>1, <5>2
      <4>2. ASSUME NEW v \in Threads, v # w, Busy(v)' PROVE job'[v] # q[1]
        <5>1. PICK r \in Pools : v \in Crew[r]
          BY CrewFacts
        <5>2. CASE r = p
          BY <3>1, <3>7, <3>11, <4>2, <5>1, <5>2
        <5>3. CASE r # p
          BY <3>7, <3>8, <3>11, <4>2, <5>1, <5>3
        <5>4. QED
          BY <5>2, <5>3
      <4>3. ASSUME NEW v \in Threads, NEW u \in Threads, Busy(v)', Busy(u)', job'[v] = job'[u] PROVE v = u
        <5>1. CASE v # w /\ u # w
          BY <3>6, <3>10, <4>3, <5>1 DEF Inv, Taken
        <5>2. CASE v = w \/ u = w
          BY <3>6, <4>2, <4>3, <5>2
        <5>3. QED
          BY <5>1, <5>2
      <4>4. \A v \in Threads : wpc'[v] = "finish" => job'[v] \in outBuffer'
        BY <2>3, <3>6 DEF Inv, Taken
      <4>5. QED
        BY <4>1, <4>3, <4>4 DEF Taken, Unfinished
    <3>13. QED
      BY <1>3, <2>4, <3>9, <3>12
  <2>7. QED
    BY <2>1, <2>5, <2>6 DEF WorkerTake
<1>9. QED
  BY <1>6, <1>7, <1>8 DEF Worker

----------------------------------------------------------------------------
(* The types. *)

PoolTypes ==
  /\ nClients \in [Pools -> 0 .. NStages]
  /\ die \in [Pools -> BOOLEAN]
  /\ queue \in [Pools -> Seq(Jobs)]
  /\ \A p \in Pools : Len(queue[p]) <= MaxQueueSize(p)
  /\ wpc \in [Threads -> {"none", "loop", "waiting", "run", "finish", "exited"}]
  /\ job \in [Threads -> Jobs \cup {NoJob}]
  /\ live \subseteq Jobs /\ finished \subseteq Jobs /\ awaited \subseteq Jobs
  /\ starved \subseteq Pools

MainTypes ==
  /\ step \in 1 .. MaxSteps /\ nBlocks \in 0 .. MaxBlocks /\ nRead \in 0 .. nBlocks
  /\ mpc \in {"build", "read", "push", "check", "wait", "delete", "drain",
              "destroy", "broadcast", "join", "done"}
  /\ at \in 1 .. NStages + 1 /\ draining \in 0 .. NStages
  /\ held \in [Stage -> 0 .. MaxBlocks]
  /\ workers \in [Stage -> Seq(Block)]
  /\ outBuffer \subseteq Jobs
  /\ written \in Seq(Block)

LEMMA TypeParts == TypeOK <=> PoolTypes /\ MainTypes
BY DEF TypeOK, PoolTypes, MainTypes

LEMMA TypePartsNext == TypeOK' <=> PoolTypes' /\ MainTypes'
BY DEF TypeOK, PoolTypes, MainTypes

LEMMA ClientTypes ==
  ASSUME NEW p, NEW x, p \in Pools, nClients \in [Pools -> 0 .. NStages],
         nClients' = [nClients EXCEPT ![p] = x], Stack', Clients', at' \in 1 .. NStages + 1,
         mpc' \in {"build", "read", "destroy", "broadcast", "join", "done"}
  PROVE  nClients' \in [Pools -> 0 .. NStages]
<1>1. nClients' = [q \in Pools |-> nClients'[q]]
  <2>1. nClients' \in [Pools -> (0 .. NStages) \cup {x}]
    OBVIOUS
  <2>2. QED
    BY <2>1
<1>2. at' \in Nat /\ NStages \in Nat /\ NStages >= 1 /\ at' >= 1
  BY PoolFacts
<1>3. mpc' # "read" => at' <= NStages
  BY <1>2 DEF Stack, InStage, Stage
<1>4. nClients'["single"] = 0 \/ nClients'["single"] = 1
  BY DEF Clients
<1>5. \/ nClients'["global"] = 0
      \/ nClients'["global"] = NStages - at' /\ mpc' # "read"
      \/ nClients'["global"] = NStages - 1
      \/ nClients'["global"] = NStages - 1 - at' /\ mpc' # "read" /\ at' # NStages
  BY DEF Clients
<1>6. nClients'["single"] \in 0 .. NStages /\ nClients'["global"] \in 0 .. NStages
  BY <1>2, <1>3, <1>4, <1>5
<1>7. QED
  BY <1>1, <1>6, PoolFacts

LEMMA QueueTypes ==
  ASSUME NEW p, NEW j, Inv, p \in Pools, j \in Jobs, QueueJob(p, j)
  PROVE  PoolTypes'
<1>1. PoolTypes
  BY TypeParts DEF Inv
<1>2. /\ queue' = [queue EXCEPT ![p] = Append(@, j)] /\ live' = live \cup {j} /\ SignalQueued(p)
      /\ UNCHANGED <<nClients, die, job, finished, starved, awaited>> /\ Len(queue[p]) < MaxQueueSize(p)
  BY DEF QueueJob, HasRoom
<1>3. PICK q \in Seq(Jobs), k \in Seq(Jobs) : q = queue[p] /\ k = Append(q, j)
  <2>1. PICK q \in Seq(Jobs) : q = queue[p]
    BY <1>1 DEF PoolTypes
  <2>2. Append(q, j) \in Seq(Jobs)
    BY <2>1
  <2>3. QED
    BY <2>1, <2>2
<1>4. Len(k) = Len(q) + 1 /\ Len(q) \in Nat
  BY <1>3
<1>5. queue' = [queue EXCEPT ![p] = k]
  BY <1>2, <1>3
<1>6. queue' \in [Pools -> Seq(Jobs)]
  BY <1>1, <1>3, <1>5 DEF PoolTypes
<1>7. \A r \in Pools : Len(queue'[r]) <= MaxQueueSize(r)
  <2>1. Len(k) <= MaxQueueSize(p)
    BY <1>2, <1>3, <1>4, RoomFacts
  <2>2. QED
    BY <1>1, <1>5, <2>1 DEF PoolTypes
<1>8. wpc' \in [Threads -> {"none", "loop", "waiting", "run", "finish", "exited"}]
  BY <1>2, SignalWakes
<1>9. QED
  BY <1>1, <1>2, <1>6, <1>7, <1>8 DEF PoolTypes, MaxQueueSize

LEMMA PoolTypesStay ==
  ASSUME Inv, UNCHANGED poolVars
  PROVE  PoolTypes'
BY TypeParts DEF Inv, PoolTypes, poolVars, MaxQueueSize

\* What the main thread does to the pools.
LEMMA MainPoolTypes ==
  ASSUME Inv, Main, (Stack /\ Clients)', MainTypes'
  PROVE  PoolTypes'
<1>1. PoolTypes
  BY TypeParts DEF Inv
<1>2. \A s : PoolOf(s) \in Pools
  BY PoolFacts
<1>3. CASE UNCHANGED poolVars
  BY <1>3, PoolTypesStay
<1>4. CASE BuildStage
  <2>1. PICK p \in Pools : ClientIncrease(p)
    BY <1>2, <1>4 DEF BuildStage
  <2>2. /\ nClients' = [nClients EXCEPT ![p] = @ + 1]
        /\ UNCHANGED <<queue, job, live, finished, starved, awaited>>
    BY <2>1 DEF ClientIncrease
  <2>3. /\ die' \in [Pools -> BOOLEAN]
        /\ wpc' \in [Threads -> {"none", "loop", "waiting", "run", "finish", "exited"}]
    <3>1. CASE nClients[p] = 0
      BY <1>1, <2>1, <3>1 DEF ClientIncrease, PoolTypes
    <3>2. CASE nClients[p] # 0
      BY <1>1, <2>1, <3>2 DEF ClientIncrease, PoolTypes
    <3>3. QED
      BY <3>1, <3>2
  <2>4. mpc' \in {"build", "read"}
    BY <1>4 DEF BuildStage
  <2>5. nClients' \in [Pools -> 0 .. NStages]
    BY <1>1, <2>2, <2>4, ClientTypes DEF MainTypes, PoolTypes
  <2>6. QED
    BY <1>1, <2>2, <2>3, <2>5 DEF PoolTypes, MaxQueueSize
<1>5. CASE DestroyStage
  <2>1. PICK p \in Pools : ClientDecrease(p)
    BY <1>2, <1>5 DEF DestroyStage
  <2>2. /\ nClients' = [nClients EXCEPT ![p] = IF @ > 1 THEN @ - 1 ELSE 0]
        /\ die' = [die EXCEPT ![p] = nClients[p] <= 1]
        /\ UNCHANGED <<queue, wpc, job, live, finished, starved, awaited>>
    BY <2>1 DEF ClientDecrease
  <2>3. die' \in [Pools -> BOOLEAN]
    BY <1>1, <2>2 DEF PoolTypes
  <2>4. mpc' \in {"build", "destroy", "broadcast", "done"}
    BY <1>5 DEF DestroyStage, NextStage
  <2>5. nClients' \in [Pools -> 0 .. NStages]
    BY <1>1, <2>2, <2>4, ClientTypes DEF MainTypes, PoolTypes
  <2>6. QED
    BY <1>1, <2>2, <2>3, <2>5 DEF PoolTypes, MaxQueueSize
<1>6. CASE WakeWorkers \/ JoinAndGoOn
  <2>1. UNCHANGED <<nClients, die, queue, job, live, finished, starved, awaited>>
    BY <1>6 DEF WakeWorkers, JoinAndGoOn, BroadcastDie, JoinWorkers
  <2>2. wpc' \in [Threads -> {"none", "loop", "waiting", "run", "finish", "exited"}]
    <3>1. CASE WakeWorkers
      BY <1>1, <3>1 DEF WakeWorkers, BroadcastDie, PoolTypes
    <3>2. CASE JoinAndGoOn
      BY <1>1, <3>2 DEF JoinAndGoOn, JoinWorkers, PoolTypes
    <3>3. QED
      BY <1>6, <3>1, <3>2
  <2>3. QED
    BY <1>1, <2>1, <2>2 DEF PoolTypes, MaxQueueSize
<1>7. CASE PushEvents
  <2>1. mpc = "push" /\ at \in Stage
    BY <1>7 DEF PushEvents
  <2>2. CASE QueueJob(PoolOf(at), <<at, InBuffer(at)>>)
    BY <1>2, <2>1, <2>2, NewJob, QueueTypes
  <2>3. CASE WaitForRoom(PoolOf(at))
    BY <1>1, <1>2, <2>3 DEF WaitForRoom, PoolTypes, MaxQueueSize
  <2>4. QED
    BY <1>7, <2>2, <2>3 DEF PushEvents
<1>8. CASE WaitForWorker
  <2>1. mpc = "wait"
    BY <1>8 DEF WaitForWorker
  <2>2. at \in Stage /\ held[at] # NoBlock
    <3>1. at \in Stage
      BY <2>1 DEF Inv, Stack, InStage
    <3>2. QED
      BY <2>1, <3>1, TypeFacts DEF Inv, Stack, Within
  <2>3. <<at, held[at]>> \in Jobs
    BY <2>2, TypeFacts, PoolFacts DEF Block, NoBlock
  <2>4. CASE WaitForJob(<<at, held[at]>>)
    BY <1>1, <2>3, <2>4 DEF WaitForJob, PoolTypes, MaxQueueSize
  <2>5. QED
    BY <1>3, <1>8, <2>4 DEF WaitForWorker, JobDone
<1>9. CASE DeleteWorker
  <2>1. /\ UNCHANGED <<nClients, die, queue, wpc, job, starved, awaited>>
        /\ live' \subseteq live /\ finished' \subseteq finished
    BY <1>9 DEF DeleteWorker, DeleteJob
  <2>2. QED
    BY <1>1, <2>1 DEF PoolTypes, MaxQueueSize
<1>10. QED
  BY <1>3, <1>4, <1>5, <1>6, <1>7, <1>8, <1>9
     DEF Main, ReadBlock, ReadEnd, PushNullSink, CheckFront, Drain

\* The main thread's own variables.
LEMMA MainOwnTypes ==
  ASSUME Inv, Main
  PROVE  MainTypes'
<1>1. MainTypes
  BY TypeParts DEF Inv
<1>2. /\ step \in Nat /\ step >= 1 /\ step <= MaxSteps /\ MaxSteps \in Nat
      /\ nRead \in Nat /\ nBlocks \in Nat /\ nRead <= nBlocks /\ nBlocks <= MaxBlocks
      /\ at \in Nat /\ at >= 1 /\ at <= NStages + 1 /\ NStages \in Nat /\ NStages >= 1 /\ MaxBlocks \in Nat
  BY <1>1, PoolFacts DEF MainTypes
<1>3. CASE BuildStage
  <2>1. /\ (at' = at - 1 /\ at > 1 /\ mpc' = mpc) \/ (at' = at /\ mpc' = "read")
        /\ UNCHANGED <<step, nBlocks, nRead, draining, held, workers, outBuffer, written>>
    BY <1>3 DEF BuildStage, bufferVars
  <2>2. QED
    BY <1>1, <1>2, <2>1 DEF MainTypes
<1>4. CASE ReadBlock \/ ReadEnd
  BY <1>1, <1>2, <1>4 DEF ReadBlock, ReadEnd, MainTypes, bufferVars
<1>5. CASE PushEvents
  <2>1. /\ mpc = "push" /\ at \in Stage
        /\ UNCHANGED <<step, nBlocks, nRead, at, draining, held, outBuffer, written>>
        /\ \/ workers' = [workers EXCEPT ![at] = Append(@, InBuffer(at))] /\ mpc' = "check"
           \/ workers' = workers /\ mpc' = mpc
    BY <1>5 DEF PushEvents, bufferVars
  <2>2. PICK l \in Seq(Block) : l = workers[at]
    BY <1>1, <2>1 DEF MainTypes
  <2>3. InBuffer(at) \in Block
    BY <2>1, NewJob
  <2>4. PICK k \in Seq(Block) : k = Append(l, InBuffer(at))
    <3>1. Append(l, InBuffer(at)) \in Seq(Block)
      BY <2>2, <2>3
    <3>2. QED
      BY <3>1
  <2>5. workers' = [workers EXCEPT ![at] = k] \/ workers' = workers
    BY <2>1, <2>2, <2>4
  <2>6. workers' \in [Stage -> Seq(Block)]
    BY <1>1, <2>5 DEF MainTypes
  <2>7. QED
    BY <1>1, <2>1, <2>6 DEF MainTypes
<1>6. CASE PushNullSink
  <2>1. at = NStages + 1 /\ at # 1
    <3>1. at = NStages + 1
      BY <1>6 DEF PushNullSink
    <3>2. QED
      BY <1>2, <3>1
  <2>2. /\ mpc' = "delete" /\ at' = at - 1
        /\ UNCHANGED <<step, nBlocks, nRead, draining, held, workers, outBuffer, written>>
    BY <1>6, <2>1 DEF PushNullSink, Return, bufferVars
  <2>3. QED
    BY <1>1, <1>2, <2>1, <2>2 DEF MainTypes
<1>7. CASE CheckFront \/ Drain
  <2>1. /\ mpc \in {"check", "drain"} /\ at \in Stage
        /\ UNCHANGED <<step, nBlocks, nRead, outBuffer, written>>
    BY <1>7 DEF CheckFront, Drain, bufferVars, Inv, Stack, InStage
  <2>2. at <= NStages
    BY <2>1, TypeFacts
  <2>3. CASE workers[at] # << >> /\ Extract(at) /\ UNCHANGED <<at, draining>>
    <3>1. PICK s \in Stage : s = at
      BY <2>1
    <3>2. /\ held' = [held EXCEPT ![s] = workers[s][1]] /\ workers[s][1] \in Block
          /\ workers' \in [Stage -> Seq(Block)] /\ mpc' = "wait"
      BY <2>3, <3>1, Extracted
    <3>3. held' \in [Stage -> 0 .. MaxBlocks]
      BY <1>1, <1>2, <3>2 DEF MainTypes, Block
    <3>4. QED
      BY <1>1, <2>1, <2>3, <3>2, <3>3 DEF MainTypes
  <2>4. CASE /\ UNCHANGED <<held, workers>> /\ mpc' \in {"read", "delete", "drain", "destroy"}
             /\ at' \in 1 .. NStages + 1 /\ draining' \in 0 .. NStages
    BY <1>1, <2>1, <2>4 DEF MainTypes
  <2>5. CASE CheckFront
    <3>1. CASE FrontIsFinished(at)
      BY <1>7, <2>3, <2>5, <3>1 DEF CheckFront, FrontIsFinished
    <3>2. CASE ~FrontIsFinished(at)
      <4>1. Return(at) /\ UNCHANGED <<held, workers, draining>>
        BY <2>5, <3>2 DEF CheckFront
      <4>2. /\ mpc' \in {"read", "delete"} /\ at' \in 1 .. NStages + 1
        BY <1>2, <4>1 DEF Return
      <4>3. QED
        BY <1>1, <2>4, <4>1, <4>2 DEF MainTypes
    <3>3. QED
      BY <3>1, <3>2
  <2>6. CASE Drain
    <3>1. \/ workers[at] # << >> /\ Extract(at) /\ UNCHANGED <<at, draining>>
          \/ at < NStages /\ at' = at + 1 /\ draining' = at + 1 /\ mpc' = mpc /\ UNCHANGED <<held, workers>>
          \/ mpc' = "destroy" /\ at' = 1 /\ draining' = 0 /\ UNCHANGED <<held, workers>>
      BY <2>6 DEF Drain
    <3>2. mpc = "drain"
      BY <2>6 DEF Drain
    <3>3. QED
      BY <1>2, <2>3, <2>4, <3>1, <3>2
  <2>7. QED
    BY <1>7, <2>5, <2>6
<1>8. CASE WaitForWorker
  <2>1. mpc = "wait" /\ UNCHANGED <<step, nBlocks, nRead, draining, held, workers, outBuffer, written>>
    BY <1>8 DEF WaitForWorker, bufferVars
  <2>2. at <= NStages
    <3>1. at \in Stage
      BY <2>1 DEF Inv, Stack, InStage
    <3>2. QED
      BY <3>1, TypeFacts
  <2>3. at' \in 1 .. NStages + 1 /\ mpc' \in {"push", "delete", "wait"}
    BY <1>2, <1>8, <2>1, <2>2 DEF WaitForWorker, PushOn
  <2>4. QED
    BY <1>1, <2>1, <2>3 DEF MainTypes
<1>9. CASE DeleteWorker
  <2>1. /\ mpc' \in {"drain", "check"} /\ held' = [held EXCEPT ![at] = NoBlock] /\ outBuffer' \subseteq outBuffer
        /\ UNCHANGED <<step, nBlocks, nRead, at, draining, workers, written>>
    BY <1>9 DEF DeleteWorker
  <2>2. held' \in [Stage -> 0 .. MaxBlocks]
    <3>1. NoBlock \in 0 .. MaxBlocks /\ held \in [Stage -> 0 .. MaxBlocks]
      BY <1>1, <1>2 DEF MainTypes, NoBlock
    <3>2. QED
      BY <2>1, <3>1
  <2>3. QED
    BY <1>1, <2>1, <2>2 DEF MainTypes
<1>10. CASE DestroyStage \/ WakeWorkers \/ JoinAndGoOn
  <2>1. /\ mpc \in {"destroy", "broadcast", "join"} /\ UNCHANGED <<draining, held, workers, outBuffer>>
        /\ NextStage \/ (mpc' \in {"broadcast", "join"} /\ UNCHANGED <<step, nBlocks, nRead, at, written>>)
    BY <1>10 DEF DestroyStage, WakeWorkers, JoinAndGoOn, bufferVars
  <2>2. at \in Stage
    BY <2>1 DEF Inv, Stack, InStage
  <2>3. CASE NextStage
    <3>1. \/ /\ at < NStages /\ mpc' = "destroy" /\ at' = at + 1
             /\ UNCHANGED <<step, nBlocks, nRead, written>>
          \/ /\ at = NStages /\ nRead' = 0 /\ written' = << >> /\ at' = NStages
             /\ \/ step < MaxSteps /\ mpc' = "build" /\ step' = step + 1 /\ nBlocks' \in 0 .. MaxBlocks
                \/ mpc' = "done" /\ step' = step /\ nBlocks' = nBlocks
      BY <2>2, <2>3, NextStageIs
    <3>2. /\ step' \in 1 .. MaxSteps /\ nBlocks' \in 0 .. MaxBlocks /\ at' \in 1 .. NStages + 1
          /\ mpc' \in {"destroy", "build", "done"} /\ nRead' \in 0 .. nBlocks'
      BY <1>2, <3>1
    <3>3. written' \in Seq(Block)
      <4>1. written \in Seq(Block) /\ << >> \in Seq(Block)
        BY <1>1 DEF MainTypes
      <4>2. written' = << >> \/ written' = written
        BY <3>1
      <4>3. QED
        BY <4>1, <4>2
    <3>4. QED
      BY <1>1, <2>1, <3>2, <3>3 DEF MainTypes
  <2>4. QED
    BY <1>1, <2>1, <2>3 DEF MainTypes
<1>11. QED
  BY <1>3, <1>4, <1>5, <1>6, <1>7, <1>8, <1>9, <1>10 DEF Main

LEMMA WorkerTypes ==
  ASSUME NEW w, Inv, w \in Threads, Worker(w)
  PROVE  TypeOK'
<1>1. PoolTypes /\ MainTypes
  BY TypeParts DEF Inv
<1>2. CASE HandleEvents(w)
  <2>1. /\ wpc[w] = "run" /\ wpc' = [wpc EXCEPT ![w] = "finish"] /\ outBuffer' = outBuffer \cup {job[w]}
        /\ written' = (IF job[w][1] = NStages THEN Append(written, job[w][2]) ELSE written)
        /\ UNCHANGED <<nClients, die, queue, job, live, finished, starved, awaited>>
        /\ UNCHANGED <<step, nBlocks, nRead, stackVars, workers>>
    BY <1>2 DEF HandleEvents, WorkerRun
  <2>2. job[w] \in Jobs /\ job[w][2] \in Block
    <3>1. job[w] \in live
      BY <2>1, CrewFacts DEF Inv, Taken, Unfinished, Busy
    <3>2. QED
      BY <3>1, TypeFacts, PoolFacts
  <2>3. written' \in Seq(Block)
    BY <1>1, <2>1, <2>2 DEF MainTypes
  <2>4. PoolTypes'
    BY <1>1, <2>1 DEF PoolTypes, MaxQueueSize
  <2>5. MainTypes'
    BY <1>1, <2>1, <2>2, <2>3 DEF MainTypes, stackVars
  <2>6. QED
    BY <2>4, <2>5, TypePartsNext
<1>3. CASE WorkerFinish(w)
  <2>1. /\ wpc[w] = "finish" /\ wpc' = [wpc EXCEPT ![w] = "loop"] /\ finished' = finished \cup {job[w]}
        /\ awaited' = awaited \ {job[w]} /\ job' = [job EXCEPT ![w] = NoJob]
        /\ UNCHANGED <<nClients, die, queue, live, starved>>
    BY <1>3 DEF WorkerFinish
  <2>2. job[w] \in Jobs
    <3>1. job[w] \in live
      BY <2>1, CrewFacts DEF Inv, Taken, Unfinished, Busy
    <3>2. QED
      BY <3>1, TypeFacts
  <2>3. PoolTypes'
    BY <1>1, <2>1, <2>2 DEF PoolTypes, MaxQueueSize
  <2>4. UNCHANGED <<step, nBlocks, nRead, stackVars, workers, bufferVars>>
    BY <2>1 DEF Worker, HandleEvents, WorkerRun
  <2>5. MainTypes'
    BY <1>1, <2>4 DEF MainTypes, stackVars, bufferVars
  <2>6. QED
    BY <2>3, <2>5, TypePartsNext
<1>4. CASE \E p \in Pools : w \in Crew[p] /\ WorkerTake(p, w)
  <2>1. PICK p \in Pools : w \in Crew[p] /\ WorkerTake(p, w)
    BY <1>4
  <2>2. wpc[w] = "loop" /\ UNCHANGED <<nClients, die, live, finished, awaited>> /\ starved' \subseteq starved
    BY <2>1 DEF WorkerTake
  <2>3. UNCHANGED <<step, nBlocks, nRead, stackVars, workers, bufferVars>>
    BY <2>2 DEF Worker, HandleEvents, WorkerRun, WorkerFinish
  <2>4. MainTypes'
    BY <1>1, <2>3 DEF MainTypes, stackVars, bufferVars
  <2>5. CASE /\ queue' = queue /\ job' = job
             /\ wpc' = [wpc EXCEPT ![w] = "exited"] \/ wpc' = [wpc EXCEPT ![w] = "waiting"]
    <3>1. PoolTypes'
      BY <1>1, <2>2, <2>5 DEF PoolTypes, MaxQueueSize
    <3>2. QED
      BY <2>4, <3>1, TypePartsNext
  <2>6. CASE /\ queue[p] # << >> /\ queue' = [queue EXCEPT ![p] = Tail(@)]
             /\ job' = [job EXCEPT ![w] = Head(queue[p])] /\ wpc' = [wpc EXCEPT ![w] = "run"]
    <3>1. PICK q \in Seq(Jobs) : q = queue[p]
      BY <1>1 DEF PoolTypes
    <3>2. q # << >> /\ Len(q) \in Nat /\ Len(q) > 0 /\ Head(q) = q[1] /\ q[1] \in Jobs
      BY <2>6, <3>1
    <3>3. PICK t \in Seq(Jobs) : t = Tail(q) /\ Len(t) = Len(q) - 1
      BY <3>1, <3>2, HeadTailProperties
    <3>4. queue' = [queue EXCEPT ![p] = t] /\ job' = [job EXCEPT ![w] = q[1]]
      BY <2>6, <3>1, <3>2, <3>3
    <3>5. \A r \in Pools : Len(queue'[r]) <= MaxQueueSize(r)
      <4>1. Len(q) <= MaxQueueSize(p)
        BY <1>1, <3>1 DEF PoolTypes
      <4>2. Len(t) <= MaxQueueSize(p)
        BY <3>2, <3>3, <4>1, RoomFacts
      <4>3. QED
        BY <1>1, <3>4, <4>2 DEF PoolTypes
    <3>6. PoolTypes'
      BY <1>1, <2>2, <2>6, <3>2, <3>3, <3>4, <3>5 DEF PoolTypes, MaxQueueSize
    <3>7. QED
      BY <2>4, <3>6, TypePartsNext
  <2>7. QED
    BY <2>1, <2>5, <2>6 DEF WorkerTake
<1>5. QED
  BY <1>2, <1>3, <1>4 DEF Worker

----------------------------------------------------------------------------
(* The invariant. *)

LEMMA InitInv == Init => Inv
<1> SUFFICES ASSUME Init PROVE Inv
  OBVIOUS
<1>1. /\ nClients = [p \in Pools |-> 0] /\ die = [p \in Pools |-> TRUE] /\ queue = [p \in Pools |-> << >>]
      /\ wpc = [w \in Threads |-> "none"] /\ job = [w \in Threads |-> NoJob]
      /\ live = {} /\ finished = {} /\ starved = {} /\ awaited = {}
      /\ step = 1 /\ nBlocks \in 0 .. MaxBlocks /\ nRead = 0 /\ mpc = "build" /\ at = NStages /\ draining = 0
      /\ held = [s \in Stage |-> NoBlock] /\ workers = [s \in Stage |-> << >>]
      /\ outBuffer = {} /\ written = << >>
  BY DEF Init, PoolInit
<1>2. \A w \in Threads : ~Busy(w) /\ wpc[w] = "none"
  BY <1>1 DEF Busy
<1>3. PoolTypes
  <2>1. \A p \in Pools : Len(queue[p]) <= MaxQueueSize(p)
    <3>1. \A p \in Pools : queue[p] = << >> /\ Len(<< >>) = 0
      BY <1>1
    <3>2. QED
      BY <3>1, RoomFacts
  <2>2. nClients \in [Pools -> 0 .. NStages]
    BY <1>1, PoolFacts
  <2>3. queue \in [Pools -> Seq(Jobs)]
    BY <1>1
  <2>4. QED
    BY <1>1, <2>1, <2>2, <2>3 DEF PoolTypes
<1>4. MainTypes
  <2>1. NoBlock \in 0 .. MaxBlocks /\ << >> \in Seq(Block)
    BY PoolFacts DEF NoBlock
  <2>2. held \in [Stage -> 0 .. MaxBlocks] /\ workers \in [Stage -> Seq(Block)]
    BY <1>1, <2>1
  <2>3. QED
    BY <1>1, <2>1, <2>2, PoolFacts, PipelineAssumption DEF MainTypes
<1>5. NoLostWakeup
  BY <1>1 DEF NoLostWakeup
<1>6. Stack /\ Phases
  BY <1>1, PoolFacts DEF Stack, Phases, Outside, InStage, Within, NoStep
<1>7. Clients
  BY <1>1, PoolFacts DEF Clients
<1>8. InOrder
  <2>1. PICK got : got = [s \in 1 .. NStages + 1 |-> 0]
    OBVIOUS
  <2>2. got \in Got /\ \A s \in Stage : got[s] = 0 /\ got[s + 1] = 0
    BY <2>1, PoolFacts DEF Got, Stage
  <2>3. \A s \in Stage : held[s] = NoBlock /\ Len(workers[s]) = 0 /\ ~Pending(s)
    BY <1>1 DEF Pending
  <2>4. Flow(got)
    <3>1. got[1] = 0
      BY <2>1, PoolFacts
    <3>2. QED
      BY <1>1, <2>2, <2>3, <3>1 DEF Flow
  <2>5. WrittenInOrder(got)
    <3>1. Len(queue["single"]) = 0 /\ Len(written) = 0 /\ got[NStages] = 0
      BY <1>1, <2>2, PoolFacts
    <3>2. \A w \in Crew["single"] : wpc[w] = "none"
      BY <1>2, CrewFacts, PoolFacts
    <3>3. QED
      BY <3>1, <3>2 DEF WrittenInOrder
  <2>6. QED
    BY <2>2, <2>4, <2>5 DEF InOrder
<1>9. Alive
  <2>1. \A b \in Block : b # NoBlock
    BY PoolFacts DEF Block, NoBlock
  <2>2. \A s \in Stage : held[s] = NoBlock /\ Len(workers[s]) = 0
    BY <1>1
  <2>3. QED
    BY <1>1, <2>1, <2>2 DEF Alive, HasWorker
<1>10. Queued /\ Taken
  <2>1. \A p \in Pools : Len(queue[p]) = 0
    BY <1>1
  <2>2. QED
    BY <1>2, <2>1, CrewFacts DEF Queued, Taken
<1>11. Finished
  BY <1>1 DEF Finished
<1>12. QED
  BY <1>3, <1>4, <1>5, <1>6, <1>7, <1>8, <1>9, <1>10, <1>11, TypeParts DEF Inv

LEMMA MainStep ==
  ASSUME Inv, Main
  PROVE  Inv'
<1>1. (Stack /\ Phases /\ Clients)'
  BY BuildStack, ReadStack, PushStack, CheckStack, WaitStack, DeleteStack, DrainStack, EndsStack DEF Main
<1>2. InOrder'
  BY QuietFlow, PushFlow, CheckFlow, WaitFlow, DeleteFlow, EndsFlow DEF Main
<1>3. NoLostWakeup'
  BY MainSleepers
<1>4. (Alive /\ Queued /\ Taken /\ Finished)'
  BY MainJobs, PushJobs, DeleteJobs
<1>5. TypeOK'
  BY <1>1, MainOwnTypes, MainPoolTypes, TypePartsNext
<1>6. QED
  BY <1>1, <1>2, <1>3, <1>4, <1>5 DEF Inv

LEMMA WorkerStep ==
  ASSUME NEW w, Inv, w \in Threads, Worker(w)
  PROVE  Inv'
<1>1. UNCHANGED <<mpc, at, draining, held, nRead, nBlocks, workers, nClients>>
  BY DEF Worker, WorkerTake, WorkerFinish, HandleEvents, WorkerRun, stackVars
<1>2. (Stack /\ Phases /\ Clients)'
  BY <1>1, StackStays DEF Inv
<1>3. QED
  BY <1>2, WorkerFlow, WorkerSleepers, WorkerJobs, WorkerTypes DEF Inv

LEMMA WakeupStep ==
  ASSUME Inv, Wakeup
  PROVE  Inv'
<1>1. /\ UNCHANGED <<nClients, die, queue, job, live, finished>>
      /\ UNCHANGED <<step, nBlocks, nRead, stackVars, workers, bufferVars>>
      /\ starved' \subseteq starved /\ awaited' \subseteq awaited
  BY DEF Wakeup, SpuriousWakeup
<1>2. wpc \in [Threads -> {"none", "loop", "waiting", "run", "finish", "exited"}]
  BY TypeFacts
<1>3. Wakes /\ wpc' \in [Threads -> {"none", "loop", "waiting", "run", "finish", "exited"}]
  <2>1. CASE UNCHANGED wpc
    BY <1>2, <2>1 DEF Wakes
  <2>2. CASE \E p \in Pools : \E w \in Waiting(p) : wpc' = [wpc EXCEPT ![w] = "loop"]
    BY <1>2, <2>2, CrewFacts DEF Wakes, Waiting
  <2>3. QED
    BY <2>1, <2>2 DEF Wakeup, SpuriousWakeup
<1>4. (Stack /\ Phases /\ Clients)'
  BY <1>1, StackStays DEF Inv, stackVars
<1>5. InOrder'
  <2>1. PICK got \in Got : Flow(got) /\ WrittenInOrder(got)
    BY DEF Inv, InOrder
  <2>2. Flow(got)'
    BY <1>1, <2>1, FlowStays DEF Pending, stackVars
  <2>3. WrittenInOrder(got)'
    BY <1>1, <1>3, <2>1, WrittenWakes DEF bufferVars
  <2>4. QED
    BY <2>1, <2>2, <2>3, SomeGot
<1>6. NoLostWakeup'
  <2>1. \A w \in Threads : wpc'[w] = "waiting" => wpc[w] = "waiting"
    BY <1>3 DEF Wakes
  <2>2. awaited' \cap finished' = {}
    BY <1>1 DEF Inv, NoLostWakeup
  <2>3. QED
    BY <1>1, <2>1, <2>2, SleepersStay
<1>7. (Alive /\ Queued /\ Taken /\ Finished)'
  <2>1. \A w \in Threads : (Busy(w)' => Busy(w)) /\ (wpc'[w] = "finish" => wpc[w] = "finish")
    BY <1>3 DEF Wakes, Busy
  <2>2. QED
    BY <1>1, <2>1, SameJobs DEF stackVars, bufferVars
<1>8. TypeOK'
  <2>1. PoolTypes /\ MainTypes
    BY TypeParts DEF Inv
  <2>2. PoolTypes'
    BY <1>1, <1>3, <2>1 DEF PoolTypes, MaxQueueSize
  <2>3. MainTypes'
    BY <1>1, <2>1 DEF MainTypes, stackVars, bufferVars
  <2>4. QED
    BY <2>2, <2>3, TypePartsNext
<1>9. QED
  BY <1>4, <1>5, <1>6, <1>7, <1>8 DEF Inv

LEMMA StutterStep ==
  ASSUME Inv, UNCHANGED vars
  PROVE  Inv'
<1>1. /\ UNCHANGED poolVars /\ UNCHANGED <<nClients, die, queue, wpc, job, live, finished, starved, awaited>>
      /\ UNCHANGED <<step, nBlocks, nRead, mpc, at, draining, held, workers, outBuffer, written>>
  BY DEF vars, poolVars, stackVars, bufferVars
<1>2. (Stack /\ Phases /\ Clients)'
  BY <1>1, StackStays DEF Inv
<1>3. InOrder'
  <2>1. PICK got \in Got : Flow(got) /\ WrittenInOrder(got)
    BY DEF Inv, InOrder
  <2>2. Flow(got)' /\ WrittenInOrder(got)'
    BY <1>1, <2>1, FlowStays, WrittenStays DEF Pending
  <2>3. QED
    BY <2>1, <2>2, SomeGot
<1>4. NoLostWakeup'
  BY <1>1 DEF Inv, NoLostWakeup, Waiting, HasRoom, MaxQueueSize
<1>5. (Alive /\ Queued /\ Taken /\ Finished)'
  BY <1>1, SameJobs DEF Busy
<1>6. TypeOK'
  <2>1. PoolTypes'
    BY <1>1, PoolTypesStay
  <2>2. MainTypes'
    BY <1>1, TypeParts DEF Inv, MainTypes
  <2>3. QED
    BY <2>1, <2>2, TypePartsNext
<1>7. QED
  BY <1>2, <1>3, <1>4, <1>5, <1>6 DEF Inv

\* The chain, the pools and the main thread's stack fit together (Inv) in every
\* state of a conversion: pushEvents, extractWorker, finish and ~AbstractEventHandler
\* on one side, ThreadPool::Worker::run and Job::wait on the other.
THEOREM PipelineInvariant == Spec => []Inv
<1>1. Init => Inv
  BY InitInv
<1>2. Inv /\ [Next]_vars => Inv'
  BY MainStep, WorkerStep, WakeupStep, StutterStep DEF Next, Done
<1>3. QED
  BY <1>1, <1>2, PTL DEF Spec

\* No wakeup of the thread pool is lost, and when the chain is destroyed nothing
\* of the step is left queued, running or undeleted: clientDecrease stores die
\* without the lock, and Worker::run then leaves whatever is queued.
THEOREM NothingLost == Spec => []PipelineInv
<1>1. Inv => PipelineInv
  <2>1. SUFFICES ASSUME Inv PROVE PipelineInv
    OBVIOUS
  <2>2. NothingLeftAtDestroy
    BY <2>1, Quiet DEF NothingLeftAtDestroy, NoStep
  <2>3. QED
    BY <2>1, <2>2 DEF Inv, PipelineInv
<1>2. QED
  BY <1>1, PipelineInvariant, PTL

\* extractWorker deletes a Worker only after Job::wait has seen it finished: no
\* thread holds a Job that is deleted or finished, and no two hold the same.
THEOREM NoUseAfterDelete == Spec => []NoJobTouchedAfterDelete
<1>1. Inv => NoJobTouchedAfterDelete
  <2>1. SUFFICES ASSUME Inv, NEW w \in Threads, Busy(w)
                 PROVE  /\ job[w] \in live \ finished
                        /\ \A v \in Threads : Busy(v) /\ job[v] = job[w] => v = w
    BY DEF NoJobTouchedAfterDelete
  <2>2. job[w] \in live \ finished
    BY <2>1, CrewFacts DEF Inv, Taken, Unfinished
  <2>3. QED
    BY <2>1, <2>2 DEF Inv, Taken
<1>2. QED
  BY <1>1, PipelineInvariant, PTL

----------------------------------------------------------------------------
(* The chain implements EventStream. *)

\* No stage has been given more blocks than were read.
LEMMA GotRead ==
  ASSUME NEW got, Inv, got \in Got, Flow(got)
  PROVE  \A s \in 1 .. NStages + 1 : got[s] <= nRead
<1>1. /\ \A s \in 1 .. NStages + 1 : got[s] \in Nat
      /\ nRead \in Nat
  BY FlowFacts, TypeFacts
<1>2. got[1] <= nRead
  <2>1. got[1] = nRead \/ got[1] = nRead - 1
    BY DEF Flow
  <2>2. QED
    BY <1>1, <2>1
<1>3. ASSUME NEW s \in Stage PROVE got[s + 1] <= got[s]
  <2>1. PICK g \in Nat, n \in Nat, h \in Nat : g = got[s] /\ n = Len(workers[s]) /\ h = got[s + 1]
    BY FlowFacts, TypeFacts
  <2>2. h = g - n - (IF Pending(s) THEN 1 ELSE 0)
    BY <2>1 DEF Flow
  <2>3. g \in Nat /\ n \in Nat /\ h \in Nat
    BY <2>1
  <2>4. h = g - n \/ h = g - n - 1
    BY <2>2, <2>3
  <2>5. h <= g
    BY <2>3, <2>4
  <2>6. QED
    BY <2>1, <2>5
<1>4. ASSUME NEW s \in 1 .. NStages + 1, ~(got[s] <= nRead) PROVE FALSE
  <2>1. PICK N \in Nat : N = NStages + 1
    BY PoolFacts
  <2>2. PICK P \in SUBSET (0 .. N) : P = {k \in 0 .. N : k # 0 /\ ~(got[k] <= nRead)}
    OBVIOUS
  <2>3. s \in P /\ N \in Nat
    BY <1>4, <2>1, <2>2
  <2>4. PICK k \in P : k = 0 \/ k - 1 \notin P
    BY <2>2, <2>3, LeastOf
  <2>5. k \in 1 .. N /\ ~(got[k] <= nRead) /\ (k - 1 = 0 \/ got[k - 1] <= nRead)
    BY <2>2, <2>3, <2>4
  <2>6. k # 1
    BY <1>2, <2>5
  <2>7. k - 1 \in Stage /\ (k - 1) + 1 = k /\ k - 1 # 0 /\ k \in 1 .. NStages + 1 /\ k - 1 \in 1 .. NStages + 1
    BY <2>1, <2>5, <2>6, PoolFacts DEF Stage
  <2>8. got[k] <= got[k - 1] /\ got[k - 1] <= nRead
    BY <1>3, <2>5, <2>7
  <2>9. QED
    BY <1>1, <2>5, <2>7, <2>8
<1>5. QED
  BY <1>4

LEMMA MainImplements ==
  ASSUME Inv, Main
  PROVE  [Abstract!Next]_<<nRead, written>>
<1>1. CASE ReadBlock
  <2>1. nRead' = nRead + 1 /\ UNCHANGED written
    BY <1>1 DEF ReadBlock, bufferVars
  <2>2. QED
    BY <2>1 DEF Abstract!Next, Abstract!Read
<1>2. CASE DestroyStage \/ WakeWorkers \/ JoinAndGoOn
  <2>1. mpc \in {"destroy", "broadcast", "join"} /\ (NextStage \/ UNCHANGED <<nRead, written>>)
    BY <1>2 DEF DestroyStage, WakeWorkers, JoinAndGoOn, bufferVars
  <2>2. at \in Stage
    BY <2>1 DEF Inv, Stack, InStage
  <2>3. CASE NextStage
    <3>1. UNCHANGED <<nRead, written>> \/ (nRead' = 0 /\ written' = << >>)
      BY <2>2, <2>3, NextStageIs
    <3>2. Len(written) = nRead
      BY <2>1, AllWritten DEF Inv, InOrder, NoStep
    <3>3. QED
      BY <3>1, <3>2 DEF Abstract!Next, Abstract!CloseStep
  <2>4. QED
    BY <2>1, <2>3
<1>3. CASE ~ReadBlock /\ ~(DestroyStage \/ WakeWorkers \/ JoinAndGoOn)
  BY <1>3 DEF Main, BuildStage, ReadEnd, PushEvents, PushNullSink, CheckFront, WaitForWorker, DeleteWorker,
              Drain, bufferVars
<1>4. QED
  BY <1>1, <1>2, <1>3

LEMMA WorkerImplements ==
  ASSUME NEW w, Inv, w \in Threads, Worker(w)
  PROVE  [Abstract!Next]_<<nRead, written>>
<1>1. CASE HandleEvents(w)
  <2>1. /\ wpc[w] = "run" /\ nRead' = nRead
        /\ written' = (IF job[w][1] = NStages THEN Append(written, job[w][2]) ELSE written)
    BY <1>1 DEF HandleEvents, WorkerRun
  <2>2. CASE job[w][1] = NStages
    <3>1. PICK got \in Got : Flow(got) /\ WrittenInOrder(got)
      BY DEF Inv, InOrder
    <3>2. w \in Crew["single"]
      <4>1. PICK p \in Pools : w \in Crew[p]
        BY CrewFacts
      <4>2. PoolOf(job[w][1]) = p
        BY <2>1, <4>1 DEF Inv, Taken, Unfinished, Busy
      <4>3. QED
        BY <2>2, <4>1, <4>2, PoolFacts
    <3>3. /\ job[w] = <<NStages, Len(written) + 1>>
          /\ Len(written) + 1 = got[NStages] - Len(queue["single"])
      BY <2>1, <3>1, <3>2 DEF WrittenInOrder
    <3>4. PICK m \in Nat, n \in Nat, g \in Nat :
            m = Len(written) /\ n = Len(queue["single"]) /\ g = got[NStages] /\ g <= nRead
      <4>1. NStages \in 1 .. NStages + 1
        BY PoolFacts
      <4>2. got[NStages] \in Nat /\ got[NStages] <= nRead
        BY <3>1, <4>1, FlowFacts, GotRead
      <4>3. Len(written) \in Nat /\ Len(queue["single"]) \in Nat
        BY TypeFacts, PoolFacts
      <4>4. QED
        BY <4>2, <4>3
    <3>5. m < nRead
      <4>1. m \in Nat /\ n \in Nat /\ g \in Nat /\ nRead \in Nat /\ g <= nRead /\ m + 1 = g - n
        BY <3>3, <3>4, TypeFacts
      <4>2. QED
        BY <4>1
    <3>6. written' = Append(written, Len(written) + 1) /\ Len(written) < nRead
      BY <2>1, <2>2, <3>3, <3>4, <3>5
    <3>7. QED
      BY <2>1, <3>6 DEF Abstract!Next, Abstract!Write
  <2>3. CASE job[w][1] # NStages
    BY <2>1, <2>3
  <2>4. QED
    BY <2>2, <2>3
<1>2. CASE ~HandleEvents(w)
  BY <1>2 DEF Worker, bufferVars
<1>3. QED
  BY <1>1, <1>2

\* The file gets every block of a step once and in the order RawReader read
\* them, and the step ends only when it has them all, whatever the number of
\* stages, threads and blocks: the chain of OverlappedEventHandlers implements
\* the sequential stream.
THEOREM PipelineImplements == Spec => WritesEventStream
<1>1. Init => Abstract!Init
  BY DEF Init, Abstract!Init
<1>2. Inv /\ [Next]_vars => [Abstract!Next]_<<nRead, written>>
  <2>1. SUFFICES ASSUME Inv, [Next]_vars PROVE [Abstract!Next]_<<nRead, written>>
    OBVIOUS
  <2>2. CASE Wakeup \/ UNCHANGED vars
    BY <2>2 DEF Wakeup, vars, bufferVars
  <2>3. QED
    BY <2>1, <2>2, MainImplements, WorkerImplements DEF Next, Done
<1>3. QED
  BY <1>1, <1>2, PipelineInvariant, PTL DEF Spec, WritesEventStream, Abstract!Spec

===============================================================================
