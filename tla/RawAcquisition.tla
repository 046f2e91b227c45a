--------------------------- MODULE RawAcquisition ---------------------------
(***************************************************************************)
(* One acquisition chain, end to end: the DAQ card's word stream, daqd's   *)
(* worker thread (DAQFrameServer::doWork) that cuts it into frames and     *)
(* fills the shared memory ring, daqd's event loop that starts, stops and  *)
(* shuts the acquisition down, and the one Python client that polls the    *)
(* pointers, lets write_raw read a block of frames straight from shared    *)
(* memory and then frees it.                                               *)
(*                                                                         *)
(* The interleaving is the code's: the worker claims its slot in one       *)
(* critical section, fills it with no lock held while the card trickles    *)
(* words in, and publishes it in a second critical section; the event loop *)
(* may wipe the ring in between; the readers take no lock at all.          *)
(***************************************************************************)
EXTENDS FrameServer

CONSTANTS
  MaxRun,            \* bound: number of acquisitions started
  MaxFrame,          \* bound: frame IDs of one run are 0 .. MaxFrame-1
  DropPeriod,        \* 128 in the code: one in so many lost frames is kept
  MaxSpill,          \* 7 in the code: the size of a frame is checked against
                     \* the 16384 slots of the ring, not the 2048 words of a
                     \* slot, so that it may fill up to seven slots more
  SleepCoversFrame   \* TRUE: the 220 ms sleep of startAcquisition outlasts
                     \* the frame in flight and the words of the old run

ASSUME BoundAssumption == /\ MaxRun \in Nat
                          /\ MaxFrame \in Nat
                          /\ DropPeriod \in Nat \ {0}
                          /\ MaxSpill \in Nat
                          /\ SleepCoversFrame \in BOOLEAN

VARIABLES
  ring,            \* shared memory: what each slot holds
  \* the card
  acqRun,          \* how often the card has been told to start
  stream,          \* the next word the card delivers: run, frame, position
  \* the worker
  wpc,             \* its place in doWork
  lastFrameWasBad,
  frameCount,      \* modulo DropPeriod: nothing else of it is used
  cur,             \* the frame whose first two words it has read
  dataFrame,       \* the slot it fills, or DevNull
  \* the event loop and its client
  control,         \* "stopped", "cardOn", "sleeping", "running", "dying",
                   \* "dead" or "crashed"
  die,
  cpc,             \* the client: "ready", "reading" or "free"
  block,           \* the pointers it still has to read: rd up to wr
  last             \* the last frame it has read in this run

cardVars == <<acqRun, stream>>
workerVars == <<wpc, lastFrameWasBad, frameCount, cur, dataFrame>>
clientVars == <<cpc, block, last>>
vars == <<ringVars, ring, cardVars, workerVars, control, die, clientVars>>

----------------------------------------------------------------------------
(* Frames and the card's words *)

DevNull == -1                              \* the frame nobody reads

\* A slot holds part of a frame, a whole one, or words of a frame too long for
\* one slot, its own or another's: run and id are then those of the frame that
\* was stored there, which the words themselves need not show any more.
Frame == [run : 0 .. MaxRun, id : -1 .. MaxFrame, state : {"part", "whole", "over"}]
NoFrame == [run |-> 0, id |-> -1, state |-> "part"]

\* span: the slots behind its own that a frame of that size fills, in part or whole.
Header == [run : 0 .. MaxRun, id : -1 .. MaxFrame, ok : BOOLEAN, drop : BOOLEAN,
           span : 0 .. MaxSpill]
NoHead == [run |-> 0, id |-> -1, ok |-> FALSE, drop |-> FALSE, span |-> 0]

\* "gap" is before an idle or a header word, "head" before a frame's first
\* two words, "body" before its events, "inside" within either, "trailer"
\* before the trailer word.
Position == {"gap", "head", "body", "inside", "trailer"}
Stream == {s \in [run : 0 .. MaxRun, id : 0 .. MaxFrame, at : Position] :
             s.at # "gap" => s.id < MaxFrame}

\* The stream at another position of the same frame.
At(position) == [run |-> stream.run, id |-> stream.id, at |-> position]

\* What getWords(_, 1) can return, and where it leaves the stream. A failed
\* call (a DMA time-out or error buffer) consumes nothing.
GetWord(word) ==
  \/ /\ word = "error"
     /\ stream' = stream
  \/ /\ word = "idle" /\ stream.at = "gap"
     /\ stream' = stream
  \/ /\ word = "header" /\ stream.at = "gap" /\ stream.id < MaxFrame
     /\ stream' = At("head")
  \/ /\ word = "other" /\ stream.at = "head"
     /\ stream' = At("inside")
  \/ /\ word = "other" /\ stream.at \in {"body", "inside"}
     /\ stream' \in {At("inside"), At("trailer")}
  \/ /\ word = "trailer" /\ stream.at = "trailer"
     /\ stream' = [run |-> stream.run, id |-> stream.id + 1, at |-> "gap"]

Word == {"error", "idle", "header", "other", "trailer"}

\* Where a read of several words that is not cut to the frame's own length
\* can leave the stream: later in this frame, or within the next one.
Overrun ==
  {t \in Stream : /\ t.run = stream.run
                  /\ t.id \in stream.id .. stream.id + 1
                  /\ t.at \in {"gap", "inside", "trailer"}
                  /\ t.id = stream.id /\ t.at = "gap" => stream.at = "gap"}


----------------------------------------------------------------------------
(* Initial state: constructed, worker started, no acquisition yet. *)

Init ==
  /\ InitRing
  /\ ring = [s \in SlotIndex |-> NoFrame]
  /\ acqRun = 0
  /\ stream = [run |-> 0, id |-> 0, at |-> "gap"]
  /\ wpc = "loop"
  /\ lastFrameWasBad = TRUE
  /\ frameCount = 0
  /\ cur = NoHead
  /\ dataFrame = DevNull
  /\ control = "stopped"
  /\ die = FALSE
  /\ cpc = "ready"
  /\ block = [rd |-> 0, wr |-> 0]
  /\ last = NoFrame

----------------------------------------------------------------------------
(* The card. After it has been restarted, the words of the previous run    *)
(* still in its DMA buffers are delivered first; the switch to the new     *)
(* run may come in the middle of a frame.                                  *)

StreamRestart ==
  /\ stream.run # acqRun
  /\ stream' = [run |-> acqRun, id |-> 0, at |-> "gap"]
  /\ UNCHANGED <<ringVars, ring, acqRun, workerVars, control, die, clientVars>>

----------------------------------------------------------------------------
(* The worker: doWork, from the top of its loop. *)

workerFrame == <<frameCount, cur, dataFrame>>
workerElse == <<ringVars, acqRun, control, die, clientVars>>

\* Mutant of WorkerLoop: die is not looked at here.
WorkerLoopForever ==
  /\ wpc = "loop"
  /\ wpc' = IF lastFrameWasBad THEN "resync" ELSE "sync"
  /\ UNCHANGED <<ring, stream, lastFrameWasBad, workerFrame, workerElse>>

\* The frame and its slot are local to an iteration.
Continue ==
  /\ wpc' = "loop" /\ cur' = NoHead /\ dataFrame' = DevNull
  /\ UNCHANGED frameCount

\* while(!die), and the choice made by lastFrameWasBad.
WorkerLoop ==
  /\ wpc = "loop"
  /\ wpc' = IF die THEN "exited" ELSE IF lastFrameWasBad THEN "resync" ELSE "sync"
  /\ UNCHANGED <<ring, stream, lastFrameWasBad, workerFrame, workerElse>>

\* After a bad frame, dump words until an idle one.
WorkerResync ==
  /\ wpc = "resync"
  /\ \E word \in Word :
       /\ GetWord(word)
       /\ IF word = "idle"
          THEN wpc' = "sync" /\ lastFrameWasBad' = FALSE
          ELSE wpc' = "loop" /\ UNCHANGED lastFrameWasBad
  /\ UNCHANGED <<ring, workerFrame, workerElse>>

\* Skip filler until a header word; anything else is a bad frame.
WorkerSync ==
  /\ wpc = "sync"
  /\ \E word \in Word :
       /\ GetWord(word)
       /\ wpc' = IF word = "header" THEN "head" ELSE "loop"
       /\ lastFrameWasBad' = (word \notin {"error", "idle", "header"})
  /\ UNCHANGED <<ring, workerFrame, workerElse>>

\* The frame's first two words: is its size that of its events (ok), does it
\* fit a slot (span), and is it a lost frame without events, to be dropped but
\* for one in DropPeriod? A short read is not a bad frame; a size over the
\* number of slots is, and so is whatever stands where a restart has cut the
\* stream.
WorkerHead ==
  /\ wpc = "head"
  /\ \/ /\ stream' \in {stream} \cup
                 (IF stream.at = "head" THEN {At("inside")} ELSE {})
        /\ wpc' = "loop"
        /\ UNCHANGED <<lastFrameWasBad, frameCount, cur>>
     \/ /\ stream' \in IF stream.at = "head"
                       THEN {At("inside"), At("trailer")}
                       ELSE Overrun
        /\ wpc' = "loop"
        /\ lastFrameWasBad' = TRUE
        /\ UNCHANGED <<frameCount, cur>>
     \/ /\ stream.at = "head"
        /\ stream' = At("body")
        /\ \E ok, lost \in BOOLEAN, span \in 0 .. MaxSpill :
             /\ ok /\ lost => span = 0
             /\ cur' = [run |-> stream.run, id |-> stream.id, ok |-> ok,
                        drop |-> lost /\ frameCount # 0, span |-> span]
        /\ frameCount' = (frameCount + 1) % DropPeriod
        /\ wpc' = "mode"
        /\ UNCHANGED lastFrameWasBad
  /\ UNCHANGED <<ring, dataFrame, workerElse>>

\* acquisitionMode is read with no lock held.
WorkerMode ==
  /\ wpc = "mode"
  /\ dataFrame' = DevNull
  /\ wpc' = IF acquisitionMode # 0 /\ ~cur.drop THEN "claim" ELSE "fill"
  /\ cur' = [cur EXCEPT !.drop = FALSE]
  /\ UNCHANGED <<ring, stream, lastFrameWasBad, frameCount, workerElse>>

\* Mutant of WorkerClaim: no test for a full ring.
WorkerClaimWhenFull ==
  /\ wpc = "claim"
  /\ dataFrame' = Slot(dataFrameWritePointer)
  /\ wpc' = "fill"
  /\ UNCHANGED <<ring, stream, lastFrameWasBad, frameCount, cur, workerElse>>

\* Critical section: the slot of the write pointer, unless the ring is full.
WorkerClaim ==
  /\ wpc = "claim"
  /\ dataFrame' = IF IsFull(dataFrameWritePointer, dataFrameReadPointer)
                  THEN DevNull ELSE Slot(dataFrameWritePointer)
  /\ wpc' = "fill"
  /\ UNCHANGED <<ring, stream, lastFrameWasBad, frameCount, cur, workerElse>>

\* The frame the worker has read, or a part of it.
CurFrame(state) == [run |-> cur.run, id |-> cur.id, state |-> state]

\* ring with frame f in the slot the worker fills.
Filled(f) == IF dataFrame = DevNull THEN ring ELSE [ring EXCEPT ![dataFrame] = f]

\* Check die, then put the two words into the slot.
WorkerFill ==
  /\ wpc = "fill"
  /\ IF die
     THEN wpc' = "exited" /\ UNCHANGED ring
     ELSE wpc' = "body" /\ ring' = Filled(CurFrame("part"))
  /\ UNCHANGED <<stream, lastFrameWasBad, workerFrame, workerElse>>

\* The stream is where the words of cur's events are.
AtBody == stream = [run |-> cur.run, id |-> cur.id, at |-> "body"]

\* The slots a frame over n slots reaches behind its own. (There is nothing
\* around the end of the shared memory, see WorkerCrash.)
Behind(n) == {s \in SlotIndex : dataFrame # DevNull /\ dataFrame < s /\ s <= dataFrame + n}

\* The slots r with words of that frame written over those.
Overwritten(r, n) ==
  [s \in SlotIndex |-> IF s \in Behind(n) THEN [r[s] EXCEPT !.state = "over"] ELSE r[s]]

\* A frame longer than a slot is being read into the slots behind its own.
WorkerSpill ==
  /\ wpc = "body"
  /\ \E n \in 1 .. cur.span : ring' = Overwritten(ring, n)
  /\ UNCHANGED <<wpc, stream, lastFrameWasBad, workerFrame, workerElse>>

\* Part of it goes past the shared memory, or past devNull on the heap. That is
\* undefined: as long as nothing of the state is hit it goes on, or daqd crashes.
WorkerCrash ==
  /\ wpc = "body" /\ cur.span > 0
  /\ dataFrame = DevNull \/ dataFrame + cur.span >= QueueSize
  /\ wpc' = "exited" /\ control' = "crashed"
  /\ UNCHANGED <<ringVars, ring, cardVars, lastFrameWasBad, workerFrame, die, clientVars>>

\* getWords(dataFrame->data+2, frameSize-2): a failure part-way is a bad
\* frame; a frameSize that is not the frame's own takes too few or too many
\* words, as does a restart of the stream underneath.
WorkerBody ==
  /\ wpc = "body"
  /\ \/ /\ stream' \in {stream} \cup (IF AtBody /\ cur.ok
                                      THEN {At("inside")}
                                      ELSE Overrun)
        /\ Continue
        /\ lastFrameWasBad' = TRUE
        /\ UNCHANGED ring
     \/ /\ AtBody /\ cur.ok
        /\ stream' = At("trailer")
        /\ ring' = Overwritten(Filled(CurFrame(IF cur.span = 0 THEN "whole" ELSE "over")), cur.span)
        /\ wpc' = "trailer"
        /\ UNCHANGED <<lastFrameWasBad, workerFrame>>
     \/ /\ ~(AtBody /\ cur.ok)
        /\ stream' \in Overrun
        /\ ring' = Overwritten(ring, cur.span)
        /\ wpc' = "trailer"
        /\ UNCHANGED <<lastFrameWasBad, workerFrame>>
  /\ UNCHANGED workerElse

\* Mutant of WorkerTrailer: parseDataFrame is not called.
WorkerTrailerWithoutParse ==
  /\ wpc = "trailer"
  /\ \E word \in Word :
       /\ GetWord(word)
       /\ lastFrameWasBad' = (word # "trailer")
       /\ IF word = "trailer" /\ dataFrame # DevNull
          THEN wpc' = "publish" /\ UNCHANGED workerFrame
          ELSE Continue
  /\ UNCHANGED <<ring, workerElse>>

\* A frame is followed by a trailer word, or it is bad. Then
\* parseDataFrame: a size that is not that of the events is not published.
WorkerTrailer ==
  /\ wpc = "trailer"
  /\ \E word \in Word :
       /\ GetWord(word)
       /\ lastFrameWasBad' = (word # "trailer")
       /\ IF word = "trailer" /\ cur.ok /\ dataFrame # DevNull
          THEN wpc' = "publish" /\ UNCHANGED workerFrame
          ELSE Continue
  /\ UNCHANGED <<ring, workerElse>>

\* Critical section.
WorkerPublish ==
  /\ wpc = "publish"
  /\ PublishFrame
  /\ Continue
  /\ UNCHANGED <<ring, cardVars, lastFrameWasBad, control, die, clientVars>>

Worker == \/ WorkerLoop \/ WorkerResync \/ WorkerSync \/ WorkerHead
          \/ WorkerMode \/ WorkerClaim \/ WorkerFill \/ WorkerSpill
          \/ WorkerCrash \/ WorkerBody \/ WorkerTrailer \/ WorkerPublish

----------------------------------------------------------------------------
(* The event loop. The client waits for each reply, so it asks for a start *)
(* or a stop only between two reads of its own.                            *)

ClientForgets == /\ block' = [rd |-> 0, wr |-> 0]
                 /\ last' = NoFrame
                 /\ UNCHANGED cpc

\* DP->setAcquistionOnOff(false), then (true).
StartCard ==
  /\ control \in {"stopped", "running"} /\ cpc = "ready"
  /\ acqRun < MaxRun
  /\ acqRun' = acqRun + 1
  /\ control' = "cardOn"
  /\ UNCHANGED <<ringVars, ring, stream, workerVars, die, clientVars>>

FirstWipe ==
  /\ control = "cardOn"
  /\ WipeBuffers(0)
  /\ control' = "sleeping"
  /\ UNCHANGED <<ring, cardVars, workerVars, die, clientVars>>

\* The worker may still publish a frame whose slot it claimed earlier.
InFlight == wpc = "claim" \/ (wpc \in {"fill", "body", "trailer", "publish"} /\ dataFrame # DevNull)

\* The words the worker has read and has yet to read are of this run.
Drained == stream.run = acqRun /\ (wpc \in {"mode", "claim", "fill", "body", "trailer", "publish"} => cur.run = acqRun)

\* Mutant of SecondWipe: the ring is wiped once only.
SecondWipeSetsModeOnly ==
  /\ control = "sleeping"
  /\ SleepCoversFrame => ~InFlight /\ Drained
  /\ acquisitionMode' = 1
  /\ control' = "running"
  /\ ClientForgets
  /\ UNCHANGED <<dataFrameWritePointer, dataFrameReadPointer>>
  /\ UNCHANGED <<ring, cardVars, workerVars, die>>

SecondWipe ==
  /\ control = "sleeping"
  /\ SleepCoversFrame => ~InFlight /\ Drained
  /\ WipeBuffers(1)
  /\ control' = "running"
  /\ ClientForgets
  /\ UNCHANGED <<ring, cardVars, workerVars, die>>

StopAcquisition ==
  /\ control = "running" /\ cpc = "ready"
  /\ WipeBuffers(0)
  /\ control' = "stopped"
  /\ UNCHANGED <<ring, cardVars, workerVars, die, clientVars>>

\* SIGTERM between two requests: the destructor calls stopWorker ...
Shutdown ==
  /\ control \in {"stopped", "running"}
  /\ die' = TRUE
  /\ control' = "dying"
  /\ UNCHANGED <<ringVars, ring, cardVars, workerVars, clientVars>>

\* ... which joins the worker.
JoinWorker ==
  /\ control = "dying" /\ wpc = "exited"
  /\ control' = "dead"
  /\ UNCHANGED <<ringVars, ring, cardVars, workerVars, die, clientVars>>

EventLoop == \/ StartCard \/ FirstWipe \/ SecondWipe \/ StopAcquisition
             \/ Shutdown \/ JoinWorker

----------------------------------------------------------------------------
(* The client and write_raw *)

clientElse == <<ring, cardVars, workerVars, control, die>>

Abs(n) == IF n < 0 THEN -n ELSE n

\* nFramesInBlock as acquire() computes it from the two pointers.
FramesInBlock(r, w) ==
  IF Abs(w - r) > QueueSize THEN 2 * QueueSize - Abs(w - r) ELSE Abs(w - r)

\* Mutant of HalfBlock: half the ring less one.
HalfBlockOffByOne(r, w) ==
  IF FramesInBlock(r, w) > QueueSize \div 2 THEN Wrap(r + QueueSize \div 2 - 1) ELSE w

\* Of a block of more than half the ring, acquire() hands on half.
HalfBlock(r, w) ==
  IF FramesInBlock(r, w) > QueueSize \div 2 THEN Wrap(r + QueueSize \div 2) ELSE w

\* Mutant of PollPointers: the block is freed before it is read.
PollAndFree ==
  /\ control = "running" /\ cpc = "ready"
  /\ dataFrameWritePointer # dataFrameReadPointer
  /\ block' = [rd |-> dataFrameReadPointer, wr |-> dataFrameWritePointer]
  /\ SetDataFrameReadPointer(dataFrameWritePointer)
  /\ cpc' = "reading"
  /\ UNCHANGED <<last, clientElse>>

\* acquire() and __getDecodedDataFrame() poll the two pointers until they
\* differ. They are read in two critical sections, the write pointer first;
\* only the client's own requests move the read pointer.
PollPointers ==
  /\ control = "running" /\ cpc = "ready"
  /\ dataFrameWritePointer # dataFrameReadPointer
  /\ \E wr \in {dataFrameWritePointer, HalfBlock(dataFrameReadPointer, dataFrameWritePointer)} :
       block' = [rd |-> dataFrameReadPointer, wr |-> wr]
  /\ cpc' = "reading"
  /\ UNCHANGED <<ringVars, last, clientElse>>

\* write_raw (or __getDecodedDataFrame) reads the next slot of the block.
ReadFrame ==
  /\ cpc = "reading" /\ block.rd # block.wr
  /\ last' = ring[Slot(block.rd)]
  /\ block' = [block EXCEPT !.rd = Wrap(@ + 1)]
  /\ UNCHANGED <<ringVars, cpc, clientElse>>

\* write_raw answers when it has read the whole block;
\* __getDecodedDataFrame stops after the first frame it likes.
EndOfBlock ==
  /\ cpc = "reading" /\ block.rd # dataFrameReadPointer
  /\ cpc' = "free"
  /\ UNCHANGED <<ringVars, block, last, clientElse>>

\* Mutant of FreeBlock: one frame more than has been read.
FreeBlockOffByOne ==
  /\ control = "running" /\ cpc = "free"
  /\ SetDataFrameReadPointer(block.rd + 1)
  /\ cpc' = "ready" /\ block' = [rd |-> 0, wr |-> 0]
  /\ UNCHANGED <<last, clientElse>>

\* setDataFrameReadPointer with what has been read.
FreeBlock ==
  /\ control = "running" /\ cpc = "free"
  /\ SetDataFrameReadPointer(block.rd)
  /\ cpc' = "ready" /\ block' = [rd |-> 0, wr |-> 0]
  /\ UNCHANGED <<last, clientElse>>

\* __synchronizeDataToConfig drops all there is: it sets the read pointer
\* to a write pointer it has just polled.
DiscardFrames ==
  /\ control = "running" /\ cpc = "ready"
  /\ block' = [rd |-> dataFrameWritePointer, wr |-> dataFrameWritePointer]
  /\ cpc' = "free"
  /\ UNCHANGED <<ringVars, last, clientElse>>

Client == PollPointers \/ ReadFrame \/ EndOfBlock \/ FreeBlock \/ DiscardFrames

----------------------------------------------------------------------------
\* The daemon is gone: the client's next request fails.
Terminated == control \in {"dead", "crashed"} /\ UNCHANGED vars

Next == StreamRestart \/ Worker \/ EventLoop \/ Client \/ Terminated

Spec == Init /\ [][Next]_vars

----------------------------------------------------------------------------
(* Properties *)

\* Type invariant.
TypeOK ==
  /\ dataFrameWritePointer \in Pointer
  /\ dataFrameReadPointer \in Pointer
  /\ acquisitionMode \in {0, 1}
  /\ ring \in [SlotIndex -> Frame]
  /\ acqRun \in 0 .. MaxRun
  /\ stream \in Stream
  /\ wpc \in {"loop", "resync", "sync", "head", "mode", "claim", "fill",
              "body", "trailer", "publish", "exited"}
  /\ lastFrameWasBad \in BOOLEAN
  /\ frameCount \in 0 .. DropPeriod - 1
  /\ cur \in Header
  /\ dataFrame \in SlotIndex \cup {DevNull}
  /\ control \in {"stopped", "cardOn", "sleeping", "running", "dying", "dead", "crashed"}
  /\ die \in BOOLEAN
  /\ cpc \in {"ready", "reading", "free"}
  /\ block \in [rd : Pointer, wr : Pointer]
  /\ last \in Frame

\* The frames the client has been promised: those from the read pointer up
\* to the write pointer.
Available == {p \in Pointer : InWindow(p, dataFrameReadPointer, dataFrameWritePointer)}

\* An acquisition is on, or was when the daemon was told to exit.
Acquiring == control \in {"running", "dying", "dead"} /\ acquisitionMode = 1

\* The pointers never get further apart than the ring is long, whatever the
\* worker was doing when the ring was wiped under it: more would make a ring
\* that has overflowed look like one with room.
RingNeverOverflows ==
  Distance(dataFrameReadPointer, dataFrameWritePointer) <= QueueSize

\* The slots the worker may write to while it has the frame of cur.
Written == {dataFrame} \cup Behind(cur.span)

\* No slot the worker writes to without the lock is one of those the client
\* may be reading without the lock, for a frame that fits its slot; and one
\* that does not, which the check of doWork lets through, does no harm as long
\* as there are as many free slots as it fills.
NoWriteUnderRead ==
  /\ Acquiring /\ InFlight /\ wpc # "claim"
  /\ \/ cur.span = 0
     \/ Distance(dataFrameReadPointer, dataFrameWritePointer) + cur.span < QueueSize
  => \A p \in Available : Slot(p) \notin Written

\* What the client has taken for reading is still its own: no wipe, publish
\* or free moves the window away from under write_raw.
BlockStaysAvailable ==
  Acquiring /\ cpc = "reading" =>
    /\ Distance(dataFrameReadPointer, block.rd) + Distance(block.rd, block.wr)
         <= Distance(dataFrameReadPointer, dataFrameWritePointer)

WholeUnlessSpilled(f) == f.state = "whole" \/ (MaxSpill > 0 /\ f.state = "over")

\* Every frame the client may read is a complete frame of this run: none
\* mixes the words of two frames, is cut short, or was taken before the
\* acquisition was started. Only a frame too long for a slot can spoil one,
\* itself or those in the slots it reaches; with MaxSpill = 0, none is.
OnlyWholeFrames ==
  Acquiring => \A p \in Available : /\ WholeUnlessSpilled(ring[Slot(p)])
                                   /\ ring[Slot(p)].run = acqRun

\* What the acquisition promises, whatever the threads do: the frames stored
\* in a run are handed over once each, in the order of their IDs, a stored
\* frame is skipped only when the client says so, and if no frame is too long
\* for a slot none is spoiled on its way (FrameStream). The abstract queue is
\* what lies between the client's place in the ring and the write pointer; a
\* part of a frame has no abstract counterpart.
Cursor == IF cpc = "ready" THEN dataFrameReadPointer ELSE block.rd

Seen(f) == [id |-> f.id, whole |-> f.state = "whole"]

FrameAt(p) == IF ring[Slot(p)].state # "part" /\ ring[Slot(p)].run = acqRun
              THEN Seen(ring[Slot(p)]) ELSE Seen(NoFrame)

Queued == IF Acquiring
          THEN [i \in 1 .. Distance(Cursor, dataFrameWritePointer) |->
                  FrameAt(Wrap(Cursor + i - 1))]
          ELSE << >>

Abstract == INSTANCE FrameStream WITH Capacity <- QueueSize,
                                     MaySpoil <- MaxSpill > 0,
                                     queue <- Queued,
                                     taken <- IF Acquiring THEN Seen(last) ELSE Seen(NoFrame)

DeliversFrameStream == Abstract!Spec

\* A frame that has filled the ring does not stay there while the
\* acquisition goes on: the client, which never stops polling, makes room.
FullRingDrains ==
  (control = "running" /\ IsFull(dataFrameWritePointer, dataFrameReadPointer))
    ~> (control # "running" \/ ~IsFull(dataFrameWritePointer, dataFrameReadPointer))

\* SIGTERM ends the daemon, wherever the worker is in a frame.
ShutdownCompletes == (control = "dying") ~> (control \in {"dead", "crashed"})

\* Every call the worker makes returns (getWords gives up when the card has
\* no words); the event loop wakes from its sleep and from pthread_join; the
\* client keeps polling, reading and freeing. Nobody has to start or stop.
FairSpec == /\ Spec
            /\ WF_vars(Worker)
            /\ WF_vars(FirstWipe \/ SecondWipe \/ JoinWorker)
            /\ WF_vars(StreamRestart)
            /\ WF_vars(Client)

----------------------------------------------------------------------------
(* Inductive invariants: what has to be known besides TypeOK for the       *)
(* safety properties above to carry over from a state to the next.         *)

\* The worker holds a slot.
Claimed == /\ wpc \in {"fill", "body", "trailer", "publish"}
           /\ dataFrame # DevNull

\* The worker is in a frame whose first two words it has read.
InFrame == wpc \in {"mode", "claim", "fill", "body", "trailer", "publish"}

\* Nothing here depends on how long the event loop sleeps: a slot claimed
\* before a wipe is not that of the write pointer any more, but then the
\* ring stays empty until that very frame is published.
RingInv ==
  LET D == Distance(dataFrameReadPointer, dataFrameWritePointer)
  IN /\ D <= QueueSize
     /\ Claimed => D < QueueSize /\ (D = 0 \/ dataFrame = Slot(dataFrameWritePointer))
     /\ wpc = "publish" => dataFrame # DevNull
     /\ cpc = "reading" =>
          Distance(dataFrameReadPointer, block.rd) + Distance(block.rd, block.wr) <= D
     /\ cpc = "free" => Distance(dataFrameReadPointer, block.rd) <= D
     /\ cpc # "ready" => control \in {"running", "dying", "dead", "crashed"}

\* With the sleep long enough, once an acquisition is on, all the worker
\* holds belongs to it.
WholeInv ==
  /\ stream.run <= acqRun
  /\ InFrame => cur.run <= stream.run
  /\ control \notin {"cardOn", "sleeping", "crashed"} =>
       stream.run = acqRun /\ (InFrame => cur.run = acqRun)
  /\ control = "stopped" => acquisitionMode = 0
  /\ Acquiring /\ Claimed => dataFrame = Slot(dataFrameWritePointer)
  /\ wpc \in {"mode", "claim", "fill", "body"} /\ stream.run = cur.run => AtBody
  /\ wpc \in {"trailer", "publish"} /\ stream.run = cur.run /\ cur.ok /\ Claimed =>
       ring[dataFrame] = CurFrame(IF cur.span = 0 THEN "whole" ELSE "over")
  /\ wpc = "publish" => cur.ok
  /\ OnlyWholeFrames

============================================================================
