----------------------- MODULE RawAcquisition_proofs -----------------------
(***************************************************************************)
(* Proofs about RawAcquisition, for every queue size, number of runs and   *)
(* number of frames. The first part is arithmetic: the pointers of the     *)
(* ring behave as the code's modulo arithmetic says.                       *)
(***************************************************************************)
EXTENDS RawAcquisition, Sequences, TLAPS

----------------------------------------------------------------------------
(* The ring's pointers *)

\* A pointer that has been wrapped is a pointer again.
LEMMA WrapType ==
  ASSUME NEW p \in Nat, p < 4 * QueueSize
  PROVE  Wrap(p) \in Pointer
BY QueueSizeAssumption DEF Wrap, Pointer

\* Slot is the code's ptr % MaxRawDataFrameQueueSize.
LEMMA SlotIsMod == ASSUME NEW p \in Pointer PROVE Slot(p) = p % QueueSize
BY QueueSizeAssumption DEF Slot, Pointer

LEMMA SlotType == ASSUME NEW p \in Pointer PROVE Slot(p) \in SlotIndex
BY QueueSizeAssumption DEF Slot, Pointer, SlotIndex

\* As long as there is room, the slot of the write pointer is that of no
\* frame the client may read.
LEMMA SlotsDistinct ==
  ASSUME NEW r \in Pointer, NEW w \in Pointer, NEW p \in Pointer,
         Distance(r, w) < QueueSize, InWindow(p, r, w)
  PROVE  Slot(p) # Slot(w)
BY QueueSizeAssumption DEF Slot, Pointer, Distance, InWindow

\* isFull() is false exactly when there is room.
LEMMA FullAtQueueSize ==
  ASSUME NEW r \in Pointer, NEW w \in Pointer, Distance(r, w) <= QueueSize
  PROVE  IsFull(w, r) <=> Distance(r, w) = QueueSize
BY QueueSizeAssumption DEF IsFull, Slot, Pointer, Distance

\* The block size acquire() works out from the two pointers is the number of
\* frames between them, wherever the pointers have wrapped.
THEOREM FramesInBlockIsDistance ==
  ASSUME NEW r \in Pointer, NEW w \in Pointer, Distance(r, w) <= QueueSize
  PROVE  FramesInBlock(r, w) = Distance(r, w)
BY QueueSizeAssumption DEF FramesInBlock, Abs, Pointer, Distance

----------------------------------------------------------------------------
(* Type correctness *)

LEMMA GetWordType ==
  ASSUME TypeOK, NEW word \in Word, GetWord(word)
  PROVE  stream' \in Stream /\ stream'.run = stream.run
BY BoundAssumption DEF TypeOK, GetWord, At, Stream, Position

LEMMA OverrunType ==
  ASSUME NEW t \in Overrun
  PROVE  t \in Stream /\ t.run = stream.run
BY DEF Overrun

LEMMA FilledType ==
  ASSUME ring \in [SlotIndex -> Frame], dataFrame \in SlotIndex \cup {DevNull},
         NEW f \in Frame
  PROVE  Filled(f) \in [SlotIndex -> Frame]
BY DEF Filled

LEMMA CurFrameType ==
  ASSUME TypeOK, NEW state \in {"part", "whole", "over"}
  PROVE  CurFrame(state) \in Frame
BY DEF CurFrame, TypeOK, Header, Frame

\* Whatever is written over a slot, it is known what was stored there.
LEMMA OverwrittenType ==
  ASSUME NEW r \in [SlotIndex -> Frame], NEW n
  PROVE  Overwritten(r, n) \in [SlotIndex -> Frame]
<1>1. \A f \in Frame : [f EXCEPT !.state = "over"] \in Frame
  BY DEF Frame
<1>2. QED
  BY <1>1 DEF Overwritten

\* What the worker leaves behind when it goes back to the top of its loop.
LEMMA ContinueType ==
  ASSUME TypeOK, Continue
  PROVE  /\ cur' \in Header /\ dataFrame' \in SlotIndex \cup {DevNull}
         /\ wpc' = "loop" /\ frameCount' \in 0 .. DropPeriod - 1
<1>1. NoHead \in Header
  BY BoundAssumption DEF NoHead, Header
<1>2. QED
  BY <1>1 DEF Continue, TypeOK

LEMMA InitType == Init => TypeOK
<1> SUFFICES ASSUME Init PROVE TypeOK
  OBVIOUS
<1> USE QueueSizeAssumption, BoundAssumption
<1>1. 0 \in Pointer
  BY DEF Pointer
<1>2. NoFrame \in Frame
  BY DEF NoFrame, Frame
<1>3. stream \in Stream
  BY DEF Init, Stream, Position
<1>4. cur \in Header
  BY DEF Init, Header, NoHead
<1>5. ring \in [SlotIndex -> Frame]
  BY <1>2 DEF Init
<1>6. last \in Frame
  BY <1>2 DEF Init
<1>7. block \in [rd : Pointer, wr : Pointer]
  BY <1>1 DEF Init
<1>8. /\ dataFrameWritePointer \in Pointer /\ dataFrameReadPointer \in Pointer
      /\ acquisitionMode \in {0, 1} /\ acqRun \in 0 .. MaxRun
      /\ frameCount \in 0 .. DropPeriod - 1
  BY <1>1 DEF Init, InitRing
<1>9. lastFrameWasBad \in BOOLEAN /\ die \in BOOLEAN
  BY DEF Init
<1>10. QED
  BY <1>3, <1>4, <1>5, <1>6, <1>7, <1>8, <1>9 DEF Init, TypeOK

LEMMA NextType == TypeOK /\ [Next]_vars => TypeOK'
<1> SUFFICES ASSUME TypeOK, [Next]_vars PROVE TypeOK'
  OBVIOUS
<1> USE QueueSizeAssumption, BoundAssumption
<1>1. CASE UNCHANGED vars
  BY <1>1 DEF TypeOK, vars, ringVars, cardVars, workerVars, clientVars
<1>2. CASE StreamRestart
  BY <1>2 DEF StreamRestart, TypeOK, ringVars, workerVars, clientVars, Stream, Position
<1>3. CASE Worker
  <2> USE DEF workerElse, workerFrame, ringVars, clientVars
  <2>1. CASE WorkerLoop
    BY <2>1 DEF WorkerLoop, TypeOK
  <2>2. CASE WorkerResync
    BY <2>2, GetWordType DEF WorkerResync, TypeOK
  <2>3. CASE WorkerSync
    BY <2>3, GetWordType DEF WorkerSync, TypeOK
  <2>4. CASE WorkerHead
    <3>1. stream' \in Stream
      BY <2>4, OverrunType DEF WorkerHead, TypeOK, Stream, Position, At
    <3>2. cur' \in Header
      <4>1. CASE cur' = cur
        BY <4>1 DEF TypeOK
      <4>2. CASE \E ok, lost \in BOOLEAN, span \in 0 .. MaxSpill :
                   cur' = [run |-> stream.run, id |-> stream.id, ok |-> ok,
                           drop |-> lost /\ frameCount # 0, span |-> span]
        <5>1. PICK ok \in BOOLEAN, lost \in BOOLEAN, span \in 0 .. MaxSpill :
                     cur' = [run |-> stream.run, id |-> stream.id, ok |-> ok,
                             drop |-> lost /\ frameCount # 0, span |-> span]
          BY <4>2
        <5>2. (lost /\ frameCount # 0) \in BOOLEAN
          OBVIOUS
        <5>3. stream.run \in 0 .. MaxRun /\ stream.id \in -1 .. MaxFrame
          BY DEF TypeOK, Stream
        <5>4. QED
          BY <5>1, <5>2, <5>3 DEF Header
      <4>3. cur' = cur \/ \E ok, lost \in BOOLEAN, span \in 0 .. MaxSpill :
                   cur' = [run |-> stream.run, id |-> stream.id, ok |-> ok,
                           drop |-> lost /\ frameCount # 0, span |-> span]
        BY <2>4 DEF WorkerHead
      <4>4. QED
        BY <4>1, <4>2, <4>3
    <3>3. frameCount' \in 0 .. DropPeriod - 1
      BY <2>4 DEF WorkerHead, TypeOK
    <3>4. QED
      BY <2>4, <3>1, <3>2, <3>3 DEF WorkerHead, TypeOK
  <2>5. CASE WorkerMode
    <3>1. [cur EXCEPT !.drop = FALSE] \in Header
      BY DEF TypeOK, Header
    <3>2. QED
      BY <2>5, <3>1 DEF WorkerMode, TypeOK
  <2>6. CASE WorkerClaim
    BY <2>6, SlotType DEF WorkerClaim, TypeOK
  <2>7. CASE WorkerFill
    <3>1. CurFrame("part") \in Frame
      BY CurFrameType
    <3>2. ring' \in [SlotIndex -> Frame]
      BY <2>7, <3>1, FilledType DEF WorkerFill, TypeOK
    <3>3. QED
      BY <2>7, <3>2 DEF WorkerFill, TypeOK
  <2>8. CASE WorkerBody
    <3>1. stream' \in Stream
      BY <2>8, OverrunType DEF WorkerBody, TypeOK, Stream, Position, At, AtBody
    <3>2. CurFrame(IF cur.span = 0 THEN "whole" ELSE "over") \in Frame
      BY CurFrameType
    <3>3. Filled(CurFrame(IF cur.span = 0 THEN "whole" ELSE "over")) \in [SlotIndex -> Frame]
      BY <3>2, FilledType DEF TypeOK
    <3>4. ring' \in [SlotIndex -> Frame]
      BY <2>8, <3>3, OverwrittenType DEF WorkerBody, TypeOK
    <3>5. /\ cur' \in Header /\ dataFrame' \in SlotIndex \cup {DevNull}
          /\ wpc' \in {"loop", "trailer"} /\ frameCount' \in 0 .. DropPeriod - 1
      BY <2>8, ContinueType DEF WorkerBody, TypeOK
    <3>6. lastFrameWasBad' \in BOOLEAN
      BY <2>8 DEF WorkerBody, TypeOK
    <3>7. QED
      BY <2>8, <3>1, <3>4, <3>5, <3>6 DEF WorkerBody, TypeOK
  <2>9. CASE WorkerTrailer
    <3>1. PICK word \in Word :
            /\ GetWord(word) /\ lastFrameWasBad' = (word # "trailer")
            /\ IF word = "trailer" /\ cur.ok /\ dataFrame # DevNull
               THEN wpc' = "publish" /\ UNCHANGED workerFrame
               ELSE Continue
      BY <2>9 DEF WorkerTrailer
    <3>2. stream' \in Stream
      BY <3>1, GetWordType
    <3>3. /\ cur' \in Header /\ dataFrame' \in SlotIndex \cup {DevNull}
          /\ wpc' \in {"loop", "publish"} /\ frameCount' \in 0 .. DropPeriod - 1
      BY <3>1, ContinueType DEF TypeOK
    <3>4. QED
      BY <2>9, <3>1, <3>2, <3>3 DEF WorkerTrailer, TypeOK
  <2>10. CASE WorkerPublish
    <3>1. dataFrameWritePointer' \in Pointer
      BY <2>10, WrapType DEF WorkerPublish, PublishFrame, TypeOK, Pointer
    <3>2. /\ cur' \in Header /\ dataFrame' \in SlotIndex \cup {DevNull}
          /\ wpc' = "loop" /\ frameCount' \in 0 .. DropPeriod - 1
      BY <2>10, ContinueType DEF WorkerPublish
    <3>3. QED
      BY <2>10, <3>1, <3>2 DEF WorkerPublish, PublishFrame, TypeOK, cardVars
  <2>11. CASE WorkerSpill
    BY <2>11, OverwrittenType DEF WorkerSpill, TypeOK
  <2>12. CASE WorkerCrash
    BY <2>12 DEF WorkerCrash, TypeOK, cardVars
  <2>13. QED
    BY <1>3, <2>1, <2>2, <2>3, <2>4, <2>5, <2>6, <2>7, <2>8, <2>9, <2>10, <2>11, <2>12 DEF Worker
<1>4. CASE EventLoop
  <2> USE DEF ringVars, cardVars, workerVars, clientVars
  <2>1. CASE StartCard
    BY <2>1 DEF StartCard, TypeOK
  <2>2. CASE FirstWipe
    BY <2>2 DEF FirstWipe, WipeBuffers, TypeOK, Pointer
  <2>3. CASE SecondWipe
    <3>1. NoFrame \in Frame
      BY DEF NoFrame, Frame
    <3>2. QED
      BY <2>3, <3>1 DEF SecondWipe, ClientForgets, WipeBuffers, TypeOK, Pointer
  <2>4. CASE StopAcquisition
    BY <2>4 DEF StopAcquisition, WipeBuffers, TypeOK, Pointer
  <2>5. CASE Shutdown
    BY <2>5 DEF Shutdown, TypeOK
  <2>6. CASE JoinWorker
    BY <2>6 DEF JoinWorker, TypeOK
  <2>7. QED
    BY <1>4, <2>1, <2>2, <2>3, <2>4, <2>5, <2>6 DEF EventLoop
<1>5. CASE Client
  <2> USE DEF clientElse, ringVars, cardVars, workerVars
  <2>1. CASE PollPointers
    <3>1. HalfBlock(dataFrameReadPointer, dataFrameWritePointer) \in Pointer
      BY WrapType DEF HalfBlock, TypeOK, Pointer
    <3>2. QED
      BY <2>1, <3>1 DEF PollPointers, TypeOK
  <2>2. CASE ReadFrame
    <3>1. Wrap(block.rd + 1) \in Pointer
      BY WrapType DEF TypeOK, Pointer
    <3>2. ring[Slot(block.rd)] \in Frame
      BY SlotType DEF TypeOK
    <3>3. QED
      BY <2>2, <3>1, <3>2 DEF ReadFrame, TypeOK
  <2>3. CASE EndOfBlock
    BY <2>3 DEF EndOfBlock, TypeOK
  <2>4. CASE FreeBlock
    <3>1. Wrap(block.rd) \in Pointer
      BY WrapType DEF TypeOK, Pointer
    <3>2. QED
      BY <2>4, <3>1, QueueSizeAssumption DEF FreeBlock, SetDataFrameReadPointer, TypeOK, Pointer
  <2>5. CASE DiscardFrames
    BY <2>5 DEF DiscardFrames, TypeOK
  <2>6. QED
    BY <1>5, <2>1, <2>2, <2>3, <2>4, <2>5 DEF Client
<1>6. CASE Terminated
  BY <1>6 DEF Terminated, TypeOK, vars, ringVars, cardVars, workerVars, clientVars
<1>7. QED
  BY <1>1, <1>2, <1>3, <1>4, <1>5, <1>6 DEF Next

\* The types of the state are kept by every step of the daemon and its client.
THEOREM TypeCorrect == Spec => []TypeOK
BY InitType, NextType, PTL DEF Spec

----------------------------------------------------------------------------
(* The ring, however long the event loop sleeps *)

\* A pointer reached from r within a window is reached from any point of
\* the window before it.
LEMMA WindowSplit ==
  ASSUME NEW r \in Pointer, NEW m \in Pointer, NEW w \in Pointer,
         Distance(r, m) <= Distance(r, w)
  PROVE  Distance(m, w) = Distance(r, w) - Distance(r, m)
BY QueueSizeAssumption DEF Distance, Pointer

LEMMA DistanceType ==
  ASSUME NEW r \in Pointer, NEW w \in Pointer
  PROVE  /\ Distance(r, w) \in Pointer
         /\ Distance(r, r) = 0
         /\ r # w => Distance(r, w) > 0
BY QueueSizeAssumption DEF Distance, Pointer

\* A pointer that advances by one within a window gets one further.
LEMMA Advance ==
  ASSUME NEW r \in Pointer, NEW p \in Pointer, Distance(r, p) < 2 * QueueSize - 1
  PROVE  Distance(r, Wrap(p + 1)) = Distance(r, p) + 1
BY QueueSizeAssumption DEF Distance, Pointer, Wrap

\* acquire() hands on a part of what lies between the pointers.
LEMMA HalfBlockInWindow ==
  ASSUME NEW r \in Pointer, NEW w \in Pointer, Distance(r, w) <= QueueSize
  PROVE  Distance(r, HalfBlock(r, w)) <= Distance(r, w)
BY QueueSizeAssumption DEF HalfBlock, FramesInBlock, Abs, Distance, Pointer, Wrap

LEMMA InitRingInv == Init => RingInv
BY QueueSizeAssumption DEF Init, InitRing, RingInv, Claimed, Distance

LEMMA NextRingInv == TypeOK /\ RingInv /\ [Next]_vars => RingInv'
<1> SUFFICES ASSUME TypeOK, RingInv, [Next]_vars PROVE RingInv'
  OBVIOUS
<1> USE QueueSizeAssumption DEF RingInv, Claimed
<1>0. /\ dataFrameReadPointer \in Pointer /\ dataFrameWritePointer \in Pointer
      /\ block.rd \in Pointer /\ block.wr \in Pointer
      /\ Distance(dataFrameReadPointer, dataFrameWritePointer) \in Pointer
      /\ Distance(dataFrameReadPointer, block.rd) \in Pointer
      /\ Distance(block.rd, block.wr) \in Pointer
      /\ Distance(0, 0) = 0
  BY DistanceType DEF TypeOK, Pointer
<1>1. CASE UNCHANGED vars
  BY <1>1 DEF vars, ringVars, cardVars, workerVars, clientVars
<1>2. CASE StreamRestart
  BY <1>2 DEF StreamRestart, ringVars, workerVars, clientVars
<1>3. CASE Worker
  <2> USE DEF workerElse, workerFrame, ringVars, clientVars
  <2>1. CASE WorkerLoop \/ WorkerResync \/ WorkerSync \/ WorkerHead \/ WorkerMode
    BY <2>1 DEF WorkerLoop, WorkerResync, WorkerSync, WorkerHead, WorkerMode
  <2>2. CASE WorkerClaim
    <3>1. IsFull(dataFrameWritePointer, dataFrameReadPointer) <=>
            Distance(dataFrameReadPointer, dataFrameWritePointer) = QueueSize
      BY <1>0, FullAtQueueSize
    <3>2. Distance(dataFrameReadPointer, dataFrameWritePointer) \in Nat
      BY <1>0 DEF Pointer
    <3>3. QED
      BY <2>2, <3>1, <3>2 DEF WorkerClaim
  <2>3. CASE WorkerFill \/ WorkerSpill \/ WorkerCrash \/ WorkerBody \/ WorkerTrailer
    BY <2>3 DEF WorkerFill, WorkerSpill, WorkerCrash, WorkerBody, WorkerTrailer, Continue, cardVars
  <2>4. CASE WorkerPublish
    <3>1. Distance(dataFrameReadPointer, dataFrameWritePointer) < QueueSize
      BY <2>4 DEF WorkerPublish
    <3>2. Distance(dataFrameReadPointer, dataFrameWritePointer)' =
            Distance(dataFrameReadPointer, dataFrameWritePointer) + 1
      BY <1>0, <2>4, <3>1, Advance DEF WorkerPublish, PublishFrame, Pointer
    <3>3. QED
      BY <1>0, <2>4, <3>1, <3>2 DEF WorkerPublish, PublishFrame, Continue, Pointer
  <2>5. QED
    BY <1>3, <2>1, <2>2, <2>3, <2>4 DEF Worker
<1>4. CASE EventLoop
  <2> USE DEF ringVars, cardVars, workerVars, clientVars
  <2>1. CASE StartCard
    BY <2>1 DEF StartCard
  <2>2. CASE FirstWipe \/ SecondWipe \/ StopAcquisition
    BY <1>0, <2>2 DEF FirstWipe, SecondWipe, StopAcquisition, ClientForgets, WipeBuffers
  <2>3. CASE Shutdown \/ JoinWorker
    BY <2>3 DEF Shutdown, JoinWorker
  <2>4. QED
    BY <1>4, <2>1, <2>2, <2>3 DEF EventLoop
<1>5. CASE Client
  <2> USE DEF clientElse, ringVars, cardVars, workerVars
  <2>1. CASE PollPointers
    <3>1. Distance(dataFrameReadPointer, block'.wr) <=
            Distance(dataFrameReadPointer, dataFrameWritePointer)
      BY <1>0, <2>1, HalfBlockInWindow DEF PollPointers, Pointer
    <3>2. block'.rd = dataFrameReadPointer
      BY <2>1 DEF PollPointers
    <3>3. Distance(dataFrameReadPointer, dataFrameReadPointer) = 0
      BY <1>0, DistanceType
    <3>4. Distance(dataFrameReadPointer, block'.wr) \in Nat
      <4>1. TypeOK'
        BY NextType
      <4>2. block'.wr \in Pointer
        BY <4>1 DEF TypeOK
      <4>3. Distance(dataFrameReadPointer, block'.wr) \in Pointer
        BY <1>0, <4>2, DistanceType
      <4>4. QED
        BY <4>3 DEF Pointer
    <3>5. Distance(dataFrameReadPointer, block.rd)' + Distance(block.rd, block.wr)' <=
            Distance(dataFrameReadPointer, dataFrameWritePointer)'
      BY <2>1, <3>1, <3>2, <3>3, <3>4 DEF PollPointers
    <3>6. QED
      BY <2>1, <3>5 DEF PollPointers
  <2>2. CASE ReadFrame
    <3>1. block'.rd = Wrap(block.rd + 1) /\ block'.wr = block.wr
      BY <2>2 DEF ReadFrame, TypeOK
    <3>2. block'.rd \in Pointer
      BY <1>0, <3>1, WrapType DEF Pointer
    <3>3. Distance(block.rd, block.wr) > 0
      <4>1. block.rd # block.wr
        BY <2>2 DEF ReadFrame
      <4>2. QED
        BY <1>0, <4>1, DistanceType
    <3>4. Distance(dataFrameReadPointer, block'.rd) = Distance(dataFrameReadPointer, block.rd) + 1
      BY <1>0, <2>2, <3>1, <3>3, Advance DEF ReadFrame, Pointer
    <3>5. Distance(block'.rd, block.wr) = Distance(block.rd, block.wr) - 1
      BY <1>0, <3>1, <3>2, <3>3 DEF Distance, Pointer, Wrap
    <3>6. QED
      BY <1>0, <2>2, <3>1, <3>4, <3>5 DEF ReadFrame, Pointer
  <2>3. CASE EndOfBlock
    BY <1>0, <2>3 DEF EndOfBlock, Pointer
  <2>4. CASE FreeBlock
    <3>1. dataFrameReadPointer' = block.rd /\ dataFrameWritePointer' = dataFrameWritePointer
      BY <1>0, <2>4 DEF FreeBlock, SetDataFrameReadPointer, Wrap, Pointer
    <3>2. Distance(dataFrameReadPointer, block.rd) <=
            Distance(dataFrameReadPointer, dataFrameWritePointer)
      BY <2>4 DEF FreeBlock
    <3>3. Distance(dataFrameReadPointer, dataFrameWritePointer)' =
            Distance(dataFrameReadPointer, dataFrameWritePointer)
              - Distance(dataFrameReadPointer, block.rd)
      BY <1>0, <3>1, <3>2, WindowSplit
    <3>4. QED
      BY <1>0, <2>4, <3>1, <3>2, <3>3 DEF FreeBlock, SetDataFrameReadPointer, Pointer
  <2>5. CASE DiscardFrames
    <3>1. block'.rd = dataFrameWritePointer
      BY <2>5 DEF DiscardFrames
    <3>2. Distance(dataFrameReadPointer, block.rd)' <=
            Distance(dataFrameReadPointer, dataFrameWritePointer)'
      BY <1>0, <2>5, <3>1 DEF DiscardFrames, Pointer
    <3>3. QED
      BY <2>5, <3>2 DEF DiscardFrames
  <2>6. QED
    BY <1>5, <2>1, <2>2, <2>3, <2>4, <2>5 DEF Client
<1>6. CASE Terminated
  BY <1>6 DEF Terminated, vars, ringVars, cardVars, workerVars, clientVars
<1>7. QED
  BY <1>1, <1>2, <1>3, <1>4, <1>5, <1>6 DEF Next

THEOREM RingInvariant == Spec => [](TypeOK /\ RingInv)
<1>1. Init => TypeOK /\ RingInv
  BY InitType, InitRingInv
<1>2. TypeOK /\ RingInv /\ [Next]_vars => (TypeOK /\ RingInv)'
  BY NextType, NextRingInv
<1>3. QED
  BY <1>1, <1>2, PTL DEF Spec

\* However long the event loop sleeps, the pointers never get further apart
\* than the ring is long.
THEOREM NeverOverflows == Spec => []RingNeverOverflows
<1>1. TypeOK /\ RingInv => RingNeverOverflows
  BY DEF RingInv, RingNeverOverflows
<1>2. QED
  BY <1>1, RingInvariant, PTL

\* The slots behind that of the write pointer are those of no frame the client may
\* read either, as far as there is room.
LEMMA BehindDistinct ==
  ASSUME NEW r \in Pointer, NEW w \in Pointer, NEW p \in Pointer, NEW n \in Nat, NEW s \in SlotIndex,
         Distance(r, w) + n < QueueSize, InWindow(p, r, w), Slot(w) < s, s <= Slot(w) + n
  PROVE  Slot(p) # s
BY QueueSizeAssumption DEF Slot, SlotIndex, Pointer, Distance, InWindow

\* The worker never writes to a slot the client may be reading, as long as a frame fits
\* its slot, or there is room for all it fills.
THEOREM NeverWritesUnderRead == Spec => []NoWriteUnderRead
<1>1. ASSUME TypeOK, RingInv PROVE NoWriteUnderRead
  <2>1. SUFFICES ASSUME Claimed, NEW p \in Available, NEW s \in Written,
                        \/ cur.span = 0
                        \/ Distance(dataFrameReadPointer, dataFrameWritePointer) + cur.span < QueueSize
                 PROVE  Slot(p) # s
    BY DEF NoWriteUnderRead, InFlight, Claimed
  <2>2. /\ dataFrameReadPointer \in Pointer /\ dataFrameWritePointer \in Pointer
        /\ p \in Pointer /\ InWindow(p, dataFrameReadPointer, dataFrameWritePointer)
    BY <1>1 DEF TypeOK, Available
  <2>3. Distance(dataFrameReadPointer, dataFrameWritePointer) # 0
    BY <2>2, QueueSizeAssumption DEF InWindow, Distance, Pointer
  <2>4. /\ Distance(dataFrameReadPointer, dataFrameWritePointer) < QueueSize
        /\ dataFrame = Slot(dataFrameWritePointer) /\ dataFrame # DevNull
    BY <1>1, <2>1, <2>3 DEF RingInv, Claimed
  <2>5. cur.span \in Nat
    BY <1>1, BoundAssumption DEF TypeOK, Header
  <2>6. CASE s = dataFrame
    BY <2>2, <2>4, <2>6, SlotsDistinct
  <2>7. CASE s \in Behind(cur.span)
    <3>1. s \in SlotIndex /\ Slot(dataFrameWritePointer) < s /\ s <= Slot(dataFrameWritePointer) + cur.span
      BY <2>4, <2>7 DEF Behind
    <3>2. Slot(dataFrameWritePointer) \in SlotIndex
      BY <2>2, SlotType
    <3>3. cur.span # 0
      BY <3>1, <3>2, QueueSizeAssumption DEF SlotIndex
    <3>4. Distance(dataFrameReadPointer, dataFrameWritePointer) + cur.span < QueueSize
      BY <2>1, <3>3
    <3>5. QED
      BY <2>2, <2>5, <3>1, <3>4, BehindDistinct
  <2>8. QED
    BY <2>1, <2>6, <2>7 DEF Written
<1>2. QED
  BY <1>1, RingInvariant, PTL

\* No step takes a frame away from under write_raw.
THEOREM BlockStays == Spec => []BlockStaysAvailable
<1>1. TypeOK /\ RingInv => BlockStaysAvailable
  BY DEF RingInv, BlockStaysAvailable
<1>2. QED
  BY <1>1, RingInvariant, PTL

----------------------------------------------------------------------------
(* With a sleep that outlasts the frame in flight, what the client reads   *)
(* is whole and of the run that is on.                                     *)

\* A frame further on in the window is one of the window still.
LEMMA InWindowShrinks ==
  ASSUME NEW r \in Pointer, NEW m \in Pointer, NEW w \in Pointer, NEW p \in Pointer,
         Distance(r, m) <= Distance(r, w), InWindow(p, m, w)
  PROVE  InWindow(p, r, w)
BY QueueSizeAssumption DEF InWindow, Distance, Pointer

\* Publishing adds the slot of the write pointer to the window.
LEMMA InWindowGrows ==
  ASSUME NEW r \in Pointer, NEW w \in Pointer, NEW p \in Pointer,
         Distance(r, w) < QueueSize, InWindow(p, r, Wrap(w + 1))
  PROVE  p = w \/ InWindow(p, r, w)
BY QueueSizeAssumption DEF InWindow, Distance, Pointer, Wrap

LEMMA EmptyWindow == ASSUME NEW p \in Pointer PROVE ~InWindow(p, 0, 0)
BY QueueSizeAssumption DEF InWindow, Distance, Pointer

\* Filling the worker's slot leaves every other slot alone.
LEMMA FilledElsewhere ==
  ASSUME TypeOK, NEW f \in Frame, NEW s \in SlotIndex
  PROVE  /\ s # dataFrame => Filled(f)[s] = ring[s]
         /\ dataFrame # DevNull => Filled(f)[dataFrame] = f
BY DEF Filled, TypeOK

\* A stored frame is as it was, or words of one too long for a slot are over it.
Kept(f, g) == g = f \/ (MaxSpill > 0 /\ g = [f EXCEPT !.state = "over"])

\* A frame over no slot but its own reaches none behind it.
LEMMA OverwrittenKeeps ==
  ASSUME NEW r \in [SlotIndex -> Frame], NEW n \in 0 .. MaxSpill, NEW s \in SlotIndex,
         dataFrame \in SlotIndex \cup {DevNull}
  PROVE  /\ Kept(r[s], Overwritten(r, n)[s])
         /\ s = dataFrame => Overwritten(r, n)[s] = r[s]
         /\ n = 0 => Overwritten(r, n)[s] = r[s]
<1>1. CASE s \in Behind(n)
  <2>1. s > dataFrame /\ s <= dataFrame + n /\ dataFrame \in SlotIndex
    BY <1>1 DEF Behind
  <2>2. n > 0 /\ MaxSpill > 0
    BY <2>1, QueueSizeAssumption, BoundAssumption DEF SlotIndex
  <2>3. QED
    BY <1>1, <2>1, <2>2, QueueSizeAssumption DEF Overwritten, Kept, SlotIndex
<1>2. CASE s \notin Behind(n)
  BY <1>2 DEF Overwritten, Kept
<1>3. QED
  BY <1>1, <1>2

\* The worker puts its frame into none of the slots between the pointers, and spoils
\* what is there only with one that is too long.
LEMMA WorkerKeepsFrames ==
  ASSUME TypeOK, RingInv, WholeInv, Worker, Acquiring, NEW p \in Available
  PROVE  Kept(ring[Slot(p)], ring'[Slot(p)])
<1>1. Slot(p) \in SlotIndex /\ cur.span \in 0 .. MaxSpill /\ dataFrame \in SlotIndex \cup {DevNull}
  BY SlotType DEF Available, TypeOK, Header
<1>2. ASSUME NEW f \in Frame, wpc \in {"fill", "body"}
      PROVE  Filled(f)[Slot(p)] = ring[Slot(p)] /\ Filled(f) \in [SlotIndex -> Frame]
  <2>1. CASE dataFrame = DevNull
    BY <2>1 DEF Filled, TypeOK
  <2>2. CASE dataFrame # DevNull
    <3>1. Claimed
      BY <1>2, <2>2 DEF Claimed
    <3>2. Slot(p) # dataFrame
      BY <3>1, SlotsDistinct DEF WholeInv, Available, TypeOK, RingInv
    <3>3. QED
      BY <1>1, <1>2, <3>2, FilledElsewhere, FilledType DEF TypeOK
  <2>3. QED
    BY <2>1, <2>2
<1>3. CASE ring' = ring
  BY <1>3 DEF Kept
<1>4. CASE WorkerFill /\ ring' # ring
  <2>1. ring' = Filled(CurFrame("part")) /\ wpc = "fill"
    BY <1>4 DEF WorkerFill
  <2>2. QED
    BY <1>2, <2>1, CurFrameType DEF Kept
<1>5. ASSUME NEW n \in 0 .. MaxSpill, ring' = Overwritten(ring, n)
      PROVE  Kept(ring[Slot(p)], ring'[Slot(p)])
  BY <1>1, <1>5, OverwrittenKeeps DEF TypeOK
<1>6. CASE WorkerSpill
  <2>1. PICK n \in 1 .. cur.span : ring' = Overwritten(ring, n)
    BY <1>6 DEF WorkerSpill
  <2>2. n \in 0 .. MaxSpill
    BY <1>1, BoundAssumption
  <2>3. QED
    BY <1>5, <2>1, <2>2
<1>7. CASE WorkerBody
  <2>1. CASE ring' = Overwritten(ring, cur.span)
    BY <1>1, <1>5, <2>1
  <2>2. CASE ring' = Overwritten(Filled(CurFrame(IF cur.span = 0 THEN "whole" ELSE "over")), cur.span)
    <3>1. PICK f \in Frame : ring' = Overwritten(Filled(f), cur.span)
      BY <2>2, CurFrameType
    <3>2. Filled(f)[Slot(p)] = ring[Slot(p)] /\ Filled(f) \in [SlotIndex -> Frame]
      BY <1>2, <1>7 DEF WorkerBody
    <3>3. Kept(Filled(f)[Slot(p)], ring'[Slot(p)])
      BY <1>1, <3>1, <3>2, OverwrittenKeeps
    <3>4. QED
      BY <3>2, <3>3
  <2>3. QED
    BY <1>3, <1>7, <2>1, <2>2 DEF WorkerBody
<1>8. QED
  <2>1. CASE WorkerLoop \/ WorkerResync \/ WorkerSync \/ WorkerHead \/ WorkerMode
    BY <1>3, <2>1 DEF WorkerLoop, WorkerResync, WorkerSync, WorkerHead, WorkerMode
  <2>2. CASE WorkerClaim \/ WorkerTrailer \/ WorkerPublish \/ WorkerCrash
    BY <1>3, <2>2 DEF WorkerClaim, WorkerTrailer, WorkerPublish, WorkerCrash
  <2>3. QED
    BY <1>3, <1>4, <1>6, <1>7, <2>1, <2>2 DEF Worker

\* What the worker has stored in its slot when it has read a frame of a fitting size,
\* or one that is too long, to the end.
Stored == CurFrame(IF cur.span = 0 THEN "whole" ELSE "over")

LEMMA InitWholeInv == Init => WholeInv
BY QueueSizeAssumption DEF Init, InitRing, WholeInv, InFrame, Claimed, OnlyWholeFrames, Acquiring

LEMMA NextWholeInv ==
  SleepCoversFrame /\ TypeOK /\ RingInv /\ WholeInv /\ [Next]_vars => WholeInv'
<1> SUFFICES ASSUME SleepCoversFrame, TypeOK, RingInv, WholeInv, [Next]_vars PROVE WholeInv'
  OBVIOUS
<1>a. Worker /\ Acquiring => \A p \in Available : Kept(ring[Slot(p)], ring'[Slot(p)])
  BY WorkerKeepsFrames
<1>b. Worker /\ Acquiring => \A p \in Available :
         /\ WholeUnlessSpilled(ring'[Slot(p)])
         /\ ring'[Slot(p)].run = acqRun
  <2> SUFFICES ASSUME Worker, Acquiring, NEW p \in Available
               PROVE  /\ WholeUnlessSpilled(ring'[Slot(p)])
                      /\ ring'[Slot(p)].run = acqRun
    OBVIOUS
  <2>1. ring[Slot(p)] \in Frame
    BY SlotType DEF TypeOK, Available
  <2>2. /\ WholeUnlessSpilled(ring[Slot(p)])
        /\ ring[Slot(p)].run = acqRun
    BY DEF WholeInv, OnlyWholeFrames
  <2>3. QED
    BY <1>a, <2>1, <2>2 DEF Kept, Frame, WholeUnlessSpilled
<1>c. ASSUME dataFrame # DevNull, ring' = Overwritten(Filled(Stored), cur.span)
      PROVE  ring'[dataFrame] = Stored
  <2>1. dataFrame \in SlotIndex /\ cur.span \in 0 .. MaxSpill
    BY <1>c DEF TypeOK, Header
  <2>2. Stored \in Frame
    BY CurFrameType DEF Stored
  <2>3. Filled(Stored) \in [SlotIndex -> Frame] /\ Filled(Stored)[dataFrame] = Stored
    BY <1>c, <2>1, <2>2, FilledType, FilledElsewhere DEF TypeOK
  <2>4. QED
    BY <1>c, <2>1, <2>3, OverwrittenKeeps
<1> USE QueueSizeAssumption DEF WholeInv, InFrame, Claimed, OnlyWholeFrames, Acquiring,
                               Available, AtBody, CurFrame
<1>1. CASE UNCHANGED vars
  BY <1>1 DEF vars, ringVars, cardVars, workerVars, clientVars
<1>2. CASE StreamRestart
  BY <1>2 DEF StreamRestart, ringVars, workerVars, clientVars, TypeOK, Header, Stream
<1>3. CASE Worker
  <2> USE DEF workerElse, workerFrame, ringVars, clientVars
  <2>1. CASE WorkerLoop
    BY <2>1 DEF WorkerLoop
  <2>2. CASE WorkerResync
    BY <2>2, GetWordType DEF WorkerResync
  <2>3. CASE WorkerSync
    BY <2>3, GetWordType DEF WorkerSync
  <2>4. CASE WorkerHead
    <3>1. stream'.run = stream.run
      BY <2>4, OverrunType DEF WorkerHead, At
    <3>2. /\ UNCHANGED <<ring, control, acqRun, dataFrame, acquisitionMode>>
          /\ UNCHANGED <<dataFrameWritePointer, dataFrameReadPointer>>
      BY <2>4 DEF WorkerHead
    <3>3. CASE wpc' = "loop"
      BY <3>1, <3>2, <3>3
    <3>4. CASE wpc' = "mode" /\ stream' = At("body") /\ cur'.run = stream.run
                              /\ cur'.id = stream.id
      BY <3>1, <3>2, <3>4 DEF At, TypeOK, Stream
    <3>5. QED
      BY <2>4, <3>3, <3>4 DEF WorkerHead
  <2>5. CASE WorkerMode
    <3>1. cur'.run = cur.run /\ cur'.id = cur.id
      BY <2>5 DEF WorkerMode, TypeOK, Header
    <3>2. QED
      BY <2>5, <3>1 DEF WorkerMode
  <2>6. CASE WorkerClaim
    BY <2>6 DEF WorkerClaim
  <2>7. CASE WorkerFill
    BY <1>b, <1>3, <2>7 DEF WorkerFill
  <2>8. CASE WorkerBody
    <3>1. CASE Continue
      <4>1. stream'.run = stream.run /\ wpc' = "loop"
        BY <2>8, <3>1, OverrunType DEF WorkerBody, At, Continue
      <4>2. QED
        BY <1>b, <1>3, <2>8, <4>1 DEF WorkerBody
    <3>2. CASE ~Continue
      <4>1. stream'.run = stream.run /\ wpc' = "trailer" /\ UNCHANGED <<cur, dataFrame>>
        BY <2>8, <3>2, OverrunType DEF WorkerBody, At
      <4>2. AtBody /\ cur.ok /\ dataFrame # DevNull => ring'[dataFrame] = Stored
        BY <1>c, <2>8, <3>2 DEF WorkerBody, Stored
      <4>3. wpc = "body"
        BY <2>8 DEF WorkerBody
      <4>4. (dataFrame # DevNull /\ cur.ok /\ stream.run = cur.run => ring'[dataFrame] = Stored)
        BY <4>2, <4>3
      <4>5. Stored' = Stored
        BY <4>1 DEF Stored, CurFrame
      <4>6. QED
        BY <1>b, <1>3, <2>8, <4>1, <4>3, <4>4, <4>5 DEF WorkerBody, Stored
    <3>3. QED
      BY <3>1, <3>2
  <2>9. CASE WorkerTrailer
    <3>1. PICK word \in Word : /\ GetWord(word)
                              /\ IF word = "trailer" /\ cur.ok /\ dataFrame # DevNull
                                 THEN wpc' = "publish" /\ UNCHANGED workerFrame
                                 ELSE Continue
      BY <2>9 DEF WorkerTrailer
    <3>2. stream'.run = stream.run
      BY <3>1, GetWordType
    <3>3. CASE Continue
      BY <2>9, <3>2, <3>3 DEF WorkerTrailer, Continue
    <3>4. CASE cur.ok /\ wpc' = "publish" /\ UNCHANGED workerFrame
      BY <2>9, <3>2, <3>4 DEF WorkerTrailer, CurFrame
    <3>5. QED
      BY <3>1, <3>3, <3>4
  <2>10. CASE WorkerPublish
    <3>1. Acquiring => ring[Slot(dataFrameWritePointer)] = Stored /\ cur.run = acqRun
      BY <2>10 DEF WorkerPublish, RingInv, Stored
    <3>2. cur.span = 0 \/ MaxSpill > 0
      BY BoundAssumption DEF TypeOK, Header
    <3>3. Acquiring => /\ WholeUnlessSpilled(ring[Slot(dataFrameWritePointer)])
                       /\ ring[Slot(dataFrameWritePointer)].run = acqRun
      BY <3>1, <3>2 DEF Stored, CurFrame, WholeUnlessSpilled
    <3>4. \A p \in Available' : p \in Available \/ p = dataFrameWritePointer
      BY <2>10, InWindowGrows DEF WorkerPublish, PublishFrame, TypeOK, RingInv
    <3>5. QED
      BY <2>10, <3>3, <3>4 DEF WorkerPublish, PublishFrame, Continue, cardVars
  <2>11. CASE WorkerSpill
    <3>1. PICK n \in 1 .. cur.span : ring' = Overwritten(ring, n)
      BY <2>11 DEF WorkerSpill
    <3>2. QED
      BY <1>b, <1>3, <2>11 DEF WorkerSpill
  <2>12. CASE WorkerCrash
    BY <2>12 DEF WorkerCrash, cardVars
  <2>13. QED
    BY <1>3, <2>1, <2>2, <2>3, <2>4, <2>5, <2>6, <2>7, <2>8, <2>9, <2>10, <2>11, <2>12 DEF Worker
<1>4. CASE EventLoop
  <2> USE DEF ringVars, cardVars, workerVars, clientVars
  <2>1. CASE StartCard
    BY <2>1 DEF StartCard, TypeOK
  <2>2. CASE FirstWipe
    BY <2>2 DEF FirstWipe, WipeBuffers
  <2>3. CASE SecondWipe
    BY <2>3, EmptyWindow DEF SecondWipe, WipeBuffers, InFlight, Drained
  <2>4. CASE StopAcquisition
    BY <2>4 DEF StopAcquisition, WipeBuffers
  <2>5. CASE Shutdown
    BY <2>5 DEF Shutdown
  <2>6. CASE JoinWorker
    BY <2>6 DEF JoinWorker
  <2>7. QED
    BY <1>4, <2>1, <2>2, <2>3, <2>4, <2>5, <2>6 DEF EventLoop
<1>5. CASE Client
  <2> USE DEF clientElse, ringVars, cardVars, workerVars
  <2>1. CASE PollPointers
    BY <2>1 DEF PollPointers
  <2>2. CASE ReadFrame
    BY <2>2 DEF ReadFrame
  <2>3. CASE EndOfBlock
    BY <2>3 DEF EndOfBlock
  <2>4. CASE FreeBlock
    <3>1. dataFrameReadPointer' = block.rd /\ dataFrameWritePointer' = dataFrameWritePointer
      BY <2>4 DEF FreeBlock, SetDataFrameReadPointer, Wrap, Pointer, TypeOK
    <3>2. \A p \in Available' : p \in Available
      BY <2>4, <3>1, InWindowShrinks DEF FreeBlock, TypeOK, RingInv
    <3>3. QED
      BY <2>4, <3>1, <3>2 DEF FreeBlock, SetDataFrameReadPointer
  <2>5. CASE DiscardFrames
    BY <2>5 DEF DiscardFrames
  <2>6. QED
    BY <1>5, <2>1, <2>2, <2>3, <2>4, <2>5 DEF Client
<1>6. CASE Terminated
  BY <1>6 DEF Terminated, vars, ringVars, cardVars, workerVars, clientVars
<1>7. QED
  BY <1>1, <1>2, <1>3, <1>4, <1>5, <1>6 DEF Next

\* If the sleep between the two wipes outlasts the frame in flight, the
\* client is only ever offered complete frames of the current run.
THEOREM OffersWholeFrames == ASSUME SleepCoversFrame PROVE Spec => []OnlyWholeFrames
<1>1. Init => TypeOK /\ RingInv /\ WholeInv
  BY InitType, InitRingInv, InitWholeInv
<1>2. TypeOK /\ RingInv /\ WholeInv /\ [Next]_vars => (TypeOK /\ RingInv /\ WholeInv)'
  BY SleepCoversFrame, NextType, NextRingInv, NextWholeInv
<1>3. WholeInv => OnlyWholeFrames
  BY DEF WholeInv
<1>4. QED
  BY <1>1, <1>2, <1>3, PTL DEF Spec

----------------------------------------------------------------------------
(* The ring implements FrameStream. *)

\* The ID of the next frame the worker can store.
NextID == IF InFrame THEN cur.id ELSE stream.id

\* p is one of the frames the client has not read.
Unread(p) == InWindow(p, Cursor, dataFrameWritePointer)

\* The stream is at the frame of the worker or past it; past it once the worker has
\* its trailer.
FrameAhead ==
  /\ InFrame => cur.id >= 0
  /\ InFrame /\ stream.run = cur.run => cur.id <= stream.id
  /\ wpc = "trailer" /\ cur.ok /\ stream.run = cur.run =>
       stream = [run |-> cur.run, id |-> cur.id, at |-> "trailer"]
  /\ wpc = "publish" /\ stream.run = cur.run => cur.id < stream.id

\* The frame the client read last, those it has not read, in their order, and the next
\* the worker can store have ascending IDs.
InOrder ==
  /\ last.id < NextID
  /\ \A p \in Pointer : Unread(p) =>
       /\ last.id < ring[Slot(p)].id
       /\ ring[Slot(p)].id < NextID
       /\ \A q \in Pointer : Unread(q) /\ Distance(Cursor, p) < Distance(Cursor, q) =>
            ring[Slot(p)].id < ring[Slot(q)].id

OrderInv == FrameAhead /\ (Acquiring => InOrder)

\* What follows is with all that is known of a state.
Known == TypeOK /\ RingInv /\ WholeInv

\* The client's place is within the window, and what is after it too.
LEMMA CursorInWindow ==
  ASSUME TypeOK, RingInv
  PROVE  /\ Cursor \in Pointer /\ dataFrameWritePointer \in Pointer /\ dataFrameReadPointer \in Pointer
         /\ Distance(Cursor, dataFrameWritePointer) <=
              Distance(dataFrameReadPointer, dataFrameWritePointer)
         /\ Distance(Cursor, dataFrameWritePointer) \in Nat
         /\ \A p \in Pointer : Unread(p) => p \in Available
<1>1. /\ dataFrameReadPointer \in Pointer /\ dataFrameWritePointer \in Pointer
      /\ block.rd \in Pointer /\ block.wr \in Pointer
  BY DEF TypeOK
<1>2. Distance(dataFrameReadPointer, Cursor) <= Distance(dataFrameReadPointer, dataFrameWritePointer)
  <2>1. CASE cpc = "ready"
    BY <1>1, <2>1, QueueSizeAssumption DEF Cursor, Distance, Pointer
  <2>2. CASE cpc = "reading"
    <3>1. /\ Distance(dataFrameReadPointer, block.rd) \in Pointer
          /\ Distance(dataFrameReadPointer, dataFrameWritePointer) \in Pointer
          /\ Distance(block.rd, block.wr) \in Pointer
      BY <1>1, DistanceType
    <3>2. /\ Distance(dataFrameReadPointer, block.rd) \in Int
          /\ Distance(dataFrameReadPointer, dataFrameWritePointer) \in Int
          /\ Distance(block.rd, block.wr) \in Int /\ Distance(block.rd, block.wr) >= 0
      BY <3>1, QueueSizeAssumption DEF Pointer
    <3>3. Distance(dataFrameReadPointer, block.rd) + Distance(block.rd, block.wr)
            <= Distance(dataFrameReadPointer, dataFrameWritePointer)
      BY <2>2 DEF RingInv
    <3>4. Cursor = block.rd
      BY <2>2 DEF Cursor
    <3> HIDE DEF Distance
    <3>5. QED
      BY <3>2, <3>3, <3>4
  <2>3. CASE cpc = "free"
    BY <2>3 DEF RingInv, Cursor
  <2>4. QED
    BY <2>1, <2>2, <2>3 DEF TypeOK
<1>3. Cursor \in Pointer
  BY <1>1 DEF Cursor
<1>4. Distance(Cursor, dataFrameWritePointer) \in Pointer
  BY <1>1, <1>3, DistanceType
<1>5. Distance(Cursor, dataFrameWritePointer) <= Distance(dataFrameReadPointer, dataFrameWritePointer)
  BY <1>1, <1>2, <1>3, QueueSizeAssumption DEF Distance, Pointer
<1>6. \A p \in Pointer : Unread(p) => p \in Available
  BY <1>1, <1>2, <1>3, InWindowShrinks DEF Unread, Available
<1>7. QED
  BY <1>1, <1>3, <1>4, <1>5, <1>6, QueueSizeAssumption DEF Pointer

LEMMA KnownTypes ==
  ASSUME TypeOK
  PROVE  /\ last.id \in Int /\ cur.id \in Int /\ stream.id \in Nat /\ NextID \in Int
         /\ \A p \in Pointer : ring[Slot(p)] \in Frame /\ ring[Slot(p)].id \in Int
<1>1. \A f \in Frame : f.id \in Int
  BY DEF Frame
<1>2. last.id \in Int /\ cur.id \in Int /\ stream.id \in Nat
  BY <1>1 DEF TypeOK, Header, Stream
<1>3. QED
  BY <1>1, <1>2, SlotType DEF TypeOK, NextID

\* The card goes on within its run.
LEMMA StreamAdvances ==
  ASSUME TypeOK, Worker
  PROVE  stream'.run = stream.run /\ stream'.id \in Nat /\ stream'.id >= stream.id
<1>1. stream \in Stream /\ stream.id \in Nat
  BY DEF TypeOK, Stream
<1>2. ASSUME NEW word \in Word, GetWord(word)
      PROVE  stream'.run = stream.run /\ stream'.id \in {stream.id, stream.id + 1}
  BY <1>1, <1>2 DEF GetWord, At
<1>3. ASSUME NEW t \in Overrun PROVE t.run = stream.run /\ t.id \in {stream.id, stream.id + 1}
  BY <1>1, <1>3 DEF Overrun
<1>4. CASE WorkerResync \/ WorkerSync \/ WorkerTrailer
  BY <1>1, <1>2, <1>4 DEF WorkerResync, WorkerSync, WorkerTrailer
<1>5. CASE WorkerHead
  <2>1. stream' = stream \/ (\E a \in Position : stream' = At(a)) \/ stream' \in Overrun
    BY <1>5 DEF WorkerHead, Position
  <2>2. QED
    BY <1>1, <1>3, <2>1 DEF At
<1>6. CASE WorkerBody
  <2>1. stream' = stream \/ (\E a \in Position : stream' = At(a)) \/ stream' \in Overrun
    BY <1>6 DEF WorkerBody, Position
  <2>2. QED
    BY <1>1, <1>3, <2>1 DEF At
<1>7. CASE WorkerLoop \/ WorkerMode \/ WorkerClaim \/ WorkerFill \/ WorkerPublish
  BY <1>1, <1>7 DEF WorkerLoop, WorkerMode, WorkerClaim, WorkerFill, WorkerPublish, cardVars
<1>8. CASE WorkerSpill \/ WorkerCrash
  BY <1>1, <1>8 DEF WorkerSpill, WorkerCrash, cardVars
<1>9. QED
  BY <1>4, <1>5, <1>6, <1>7, <1>8 DEF Worker

LEMMA WorkerFrameAhead == Known /\ FrameAhead /\ Worker => FrameAhead'
<1> SUFFICES ASSUME Known, FrameAhead, Worker PROVE FrameAhead'
  OBVIOUS
<1>1. /\ stream'.run = stream.run /\ stream'.id >= stream.id /\ stream'.id \in Nat
      /\ stream.id \in Nat /\ cur.id \in Int
  BY StreamAdvances, KnownTypes DEF Known
<1> USE DEF FrameAhead, InFrame, workerFrame, workerElse, cardVars
<1>2. CASE WorkerLoop \/ WorkerResync \/ WorkerSync
  BY <1>1, <1>2 DEF WorkerLoop, WorkerResync, WorkerSync
<1>3. CASE WorkerHead
  <2>1. wpc' = "loop" \/ (wpc' = "mode" /\ cur'.id = stream.id)
    BY <1>3 DEF WorkerHead
  <2>2. QED
    BY <1>1, <2>1
<1>4. CASE WorkerMode \/ WorkerClaim \/ WorkerFill \/ WorkerSpill \/ WorkerCrash
  <2>1. cur'.run = cur.run /\ cur'.id = cur.id /\ stream' = stream /\ wpc' # "trailer" /\ wpc' # "publish"
    BY <1>4 DEF WorkerMode, WorkerClaim, WorkerFill, WorkerSpill, WorkerCrash, Known, TypeOK, Header
  <2>2. InFrame' => InFrame
    BY <1>4 DEF WorkerMode, WorkerClaim, WorkerFill, WorkerSpill, WorkerCrash
  <2>3. QED
    BY <2>1, <2>2
<1>5. CASE WorkerBody
  <2>1. wpc = "body" /\ (wpc' = "loop" \/ (wpc' = "trailer" /\ cur' = cur))
    BY <1>5 DEF WorkerBody, Continue
  <2>2. wpc' = "trailer" /\ cur.ok /\ stream.run = cur.run => AtBody /\ stream' = At("trailer")
    BY <1>5, <2>1 DEF WorkerBody, Continue, Known, WholeInv
  <2>3. QED
    BY <1>1, <2>1, <2>2 DEF AtBody, At
<1>6. CASE WorkerTrailer
  <2>1. PICK word \in Word : /\ GetWord(word) /\ wpc = "trailer"
                            /\ \/ wpc' = "loop"
                               \/ word = "trailer" /\ cur.ok /\ wpc' = "publish" /\ cur' = cur
    BY <1>6 DEF WorkerTrailer, Continue
  <2>2. CASE wpc' = "publish" /\ stream.run = cur.run
    <3>1. stream'.id = stream.id + 1 /\ stream.id = cur.id
      BY <2>1, <2>2 DEF GetWord
    <3>2. QED
      BY <1>1, <2>1, <2>2, <3>1
  <2>3. QED
    BY <1>1, <2>1, <2>2
<1>7. CASE WorkerPublish
  BY <1>7 DEF WorkerPublish, Continue
<1>8. QED
  BY <1>2, <1>3, <1>4, <1>5, <1>6, <1>7 DEF Worker

\* In an acquisition the worker goes on to later frames.
LEMMA NextIDAscends ==
  ASSUME Known, FrameAhead, Acquiring, Worker
  PROVE  NextID' \in Int /\ NextID' >= NextID
<1>1. /\ stream'.run = stream.run /\ stream'.id >= stream.id /\ stream'.id \in Nat
      /\ stream.id \in Nat /\ cur.id \in Int
  BY StreamAdvances, KnownTypes DEF Known
<1>2. InFrame => stream.run = cur.run /\ cur.id <= stream.id
  BY DEF FrameAhead, Known, WholeInv, Acquiring
<1>3. CASE InFrame' /\ cur'.id = cur.id /\ InFrame
  BY <1>1, <1>3 DEF NextID
<1>4. CASE ~InFrame'
  BY <1>1, <1>2, <1>4 DEF NextID
<1>5. CASE WorkerHead /\ wpc' = "mode"
  <2>1. ~InFrame /\ InFrame' /\ cur'.id = stream.id
    BY <1>5 DEF WorkerHead, InFrame
  <2>2. QED
    BY <1>1, <2>1 DEF NextID
<1>6. QED
  <2>1. CASE WorkerLoop \/ WorkerResync \/ WorkerSync \/ WorkerPublish \/ WorkerCrash
    BY <1>4, <2>1 DEF WorkerLoop, WorkerResync, WorkerSync, WorkerPublish, WorkerCrash, Continue, InFrame
  <2>2. CASE WorkerHead
    BY <1>4, <1>5, <2>2 DEF WorkerHead, InFrame
  <2>3. CASE WorkerMode
    <3>1. cur'.id = cur.id
      BY <2>3 DEF WorkerMode, Known, TypeOK, Header
    <3>2. QED
      BY <1>3, <1>4, <2>3, <3>1 DEF WorkerMode, InFrame
  <2>4. CASE WorkerClaim \/ WorkerFill \/ WorkerSpill \/ WorkerBody \/ WorkerTrailer
    BY <1>3, <1>4, <2>4 DEF WorkerClaim, WorkerFill, WorkerSpill, WorkerBody, WorkerTrailer,
                            Continue, workerFrame, InFrame
  <2>5. QED
    BY <2>1, <2>2, <2>3, <2>4 DEF Worker

\* What is in order stays so while the client stays where it is.
LEMMA OrderStays ==
  ASSUME Known, InOrder, UNCHANGED <<Cursor, dataFrameWritePointer, last>>,
         \A p \in Available : ring'[Slot(p)].id = ring[Slot(p)].id,
         NextID' \in Int, NextID' >= NextID
  PROVE  InOrder'
<1>1. /\ last.id \in Int /\ NextID \in Int
      /\ \A p \in Pointer : ring[Slot(p)].id \in Int
      /\ \A p \in Pointer : Unread(p) => p \in Available
  BY CursorInWindow, KnownTypes DEF Known
<1>2. \A p : Unread(p)' <=> Unread(p)
  BY DEF Unread
<1>3. last'.id < NextID'
  BY <1>1 DEF InOrder
<1>4. ASSUME NEW p \in Pointer, Unread(p)'
      PROVE  /\ ring'[Slot(p)].id = ring[Slot(p)].id /\ last'.id < ring'[Slot(p)].id
             /\ ring'[Slot(p)].id < NextID'
  BY <1>1, <1>2, <1>4 DEF InOrder
<1>5. ASSUME NEW p \in Pointer, Unread(p)', NEW q \in Pointer, Unread(q)',
             Distance(Cursor', p) < Distance(Cursor', q)
      PROVE  ring'[Slot(p)].id < ring'[Slot(q)].id
  BY <1>2, <1>4, <1>5 DEF InOrder
<1>6. QED
  BY <1>3, <1>4, <1>5 DEF InOrder

\* With the slot of the write pointer the window grows by the frame of the worker.
LEMMA PublishStores ==
  ASSUME Known, OrderInv, Acquiring, WorkerPublish
  PROVE  /\ UNCHANGED <<Cursor, ring, last, acqRun, Acquiring>>
         /\ dataFrameWritePointer' = Wrap(dataFrameWritePointer + 1)
         /\ Distance(Cursor, dataFrameWritePointer) < QueueSize
         /\ Distance(Cursor, dataFrameWritePointer') = Distance(Cursor, dataFrameWritePointer) + 1
         /\ ring[Slot(dataFrameWritePointer)].run = acqRun
         /\ ring[Slot(dataFrameWritePointer)].id = NextID
         /\ WholeUnlessSpilled(ring[Slot(dataFrameWritePointer)])
         /\ NextID < NextID'
<1>1. UNCHANGED <<Cursor, ring, last, acqRun, Acquiring>>
  BY DEF WorkerPublish, PublishFrame, cardVars, clientVars, Cursor, Acquiring
<1>2. dataFrameWritePointer' = Wrap(dataFrameWritePointer + 1)
  BY DEF WorkerPublish, PublishFrame
<1>3. Distance(Cursor, dataFrameWritePointer) < QueueSize
  <2>1. Distance(dataFrameReadPointer, dataFrameWritePointer) < QueueSize
    BY DEF WorkerPublish, Known, RingInv, Claimed
  <2>2. Distance(dataFrameReadPointer, dataFrameWritePointer) \in Nat
    <3>1. Distance(dataFrameReadPointer, dataFrameWritePointer) \in Pointer
      BY DistanceType DEF Known, TypeOK
    <3>2. QED
      BY <3>1, QueueSizeAssumption DEF Pointer
  <2>3. QED
    <3>1. /\ Distance(Cursor, dataFrameWritePointer) \in Nat
          /\ Distance(Cursor, dataFrameWritePointer) <=
               Distance(dataFrameReadPointer, dataFrameWritePointer)
      BY CursorInWindow DEF Known
    <3>2. QED
      BY <2>1, <2>2, <3>1, QueueSizeAssumption
<1>4. Distance(Cursor, dataFrameWritePointer') = Distance(Cursor, dataFrameWritePointer) + 1
  BY <1>2, <1>3, Advance, CursorInWindow, QueueSizeAssumption DEF Known
<1>5. wpc = "publish" /\ InFrame /\ stream.run = acqRun /\ cur.run = acqRun /\ cur.ok /\ Claimed
  BY DEF WorkerPublish, InFrame, Known, WholeInv, RingInv, Claimed, Acquiring
<1>6. /\ ring[Slot(dataFrameWritePointer)].run = acqRun
      /\ ring[Slot(dataFrameWritePointer)].id = NextID
      /\ WholeUnlessSpilled(ring[Slot(dataFrameWritePointer)])
  <2>1. ring[Slot(dataFrameWritePointer)] = CurFrame(IF cur.span = 0 THEN "whole" ELSE "over")
    BY <1>5 DEF Known, WholeInv
  <2>2. cur.span = 0 \/ MaxSpill > 0
    BY BoundAssumption DEF Known, TypeOK, Header
  <2>3. QED
    BY <1>5, <2>1, <2>2 DEF CurFrame, NextID, WholeUnlessSpilled
<1>7. ~InFrame' /\ stream' = stream
  BY DEF WorkerPublish, Continue, InFrame, cardVars
<1>8. NextID < NextID'
  BY <1>5, <1>7 DEF NextID, OrderInv, FrameAhead
<1>9. QED
  BY <1>1, <1>2, <1>3, <1>4, <1>6, <1>8

LEMMA PublishInOrder == Known /\ OrderInv /\ Acquiring /\ WorkerPublish => InOrder'
<1> SUFFICES ASSUME Known, OrderInv, Acquiring, WorkerPublish PROVE InOrder'
  OBVIOUS
<1> DEFINE w == dataFrameWritePointer
<1>1. /\ last.id \in Int /\ NextID \in Int /\ NextID' \in Int /\ NextID < NextID'
      /\ \A p \in Pointer : ring[Slot(p)].id \in Int
  BY PublishStores, KnownTypes, NextIDAscends DEF Known, OrderInv, Worker
<1>2. Cursor' = Cursor /\ ring' = ring /\ last' = last /\ Cursor \in Pointer /\ w \in Pointer
  BY PublishStores, CursorInWindow DEF Known
<1>3. ASSUME NEW p \in Pointer, Unread(p)' PROVE p = w \/ Unread(p)
  BY <1>2, <1>3, PublishStores, InWindowGrows DEF Unread
<1>4. ring[Slot(w)].id = NextID
  BY PublishStores
<1>5. InOrder
  BY DEF OrderInv
<1>6. ASSUME NEW p \in Pointer, Unread(p)'
      PROVE  last.id < ring[Slot(p)].id /\ ring[Slot(p)].id < NextID'
  <2>1. CASE p = w
    BY <1>1, <1>4, <1>5, <2>1 DEF InOrder
  <2>2. CASE Unread(p)
    BY <1>1, <1>5, <2>2 DEF InOrder
  <2>3. QED
    BY <1>3, <1>6, <2>1, <2>2
<1>7. ASSUME NEW p \in Pointer, Unread(p)', NEW q \in Pointer, Unread(q)',
             Distance(Cursor, p) < Distance(Cursor, q)
      PROVE  ring[Slot(p)].id < ring[Slot(q)].id
  <2>1. \A r \in Pointer : Unread(r) => Distance(Cursor, r) < Distance(Cursor, w)
    BY DEF Unread, InWindow
  <2>2. /\ Distance(Cursor, p) \in Int /\ Distance(Cursor, q) \in Int
        /\ Distance(Cursor, w) \in Int
    <3>1. /\ Distance(Cursor, p) \in Pointer /\ Distance(Cursor, q) \in Pointer
          /\ Distance(Cursor, w) \in Pointer
      BY <1>2, <1>7, DistanceType
    <3>2. QED
      BY <3>1, QueueSizeAssumption DEF Pointer
  <2>3. Unread(p)
    BY <1>3, <1>7, <2>1, <2>2
  <2>4. CASE q = w
    BY <1>4, <1>5, <2>3, <2>4 DEF InOrder
  <2>5. CASE Unread(q)
    BY <1>5, <1>7, <2>3, <2>5 DEF InOrder
  <2>6. QED
    BY <1>3, <1>7, <2>4, <2>5
<1>8. QED
  BY <1>1, <1>2, <1>5, <1>6, <1>7 DEF InOrder

\* A window without its first frame.
LEMMA WindowRest ==
  ASSUME NEW c \in Pointer, NEW w \in Pointer, c # w
  PROVE  /\ InWindow(c, c, w) /\ Distance(c, c) = 0 /\ Wrap(c + 1) \in Pointer
         /\ Distance(Wrap(c + 1), w) = Distance(c, w) - 1
         /\ \A p \in Pointer : InWindow(p, Wrap(c + 1), w) =>
              InWindow(p, c, w) /\ Distance(c, p) = Distance(Wrap(c + 1), p) + 1
BY QueueSizeAssumption DEF InWindow, Distance, Pointer, Wrap

\* The client reads the first frame of those it has not read.
LEMMA ReadTakes ==
  ASSUME Known, ReadFrame
  PROVE  /\ UNCHANGED <<dataFrameWritePointer, ring, acqRun, Acquiring, NextID>>
         /\ Cursor # dataFrameWritePointer /\ Cursor' = Wrap(Cursor + 1)
         /\ last' = ring[Slot(Cursor)]
<1>1. UNCHANGED <<dataFrameWritePointer, ring, acqRun, Acquiring, NextID>>
  BY DEF ReadFrame, clientElse, ringVars, cardVars, workerVars, Acquiring, NextID, InFrame
<1>2. cpc = "reading" /\ Cursor = block.rd /\ Cursor' = Wrap(Cursor + 1)
  BY DEF ReadFrame, Cursor, Known, TypeOK
<1>3. last' = ring[Slot(Cursor)]
  BY <1>2 DEF ReadFrame
<1>4. Distance(block.rd, block.wr) > 0
  BY DistanceType DEF ReadFrame, Known, TypeOK
<1>5. /\ Distance(dataFrameReadPointer, block.rd) \in Int /\ Distance(block.rd, block.wr) \in Int
      /\ Distance(dataFrameReadPointer, block.rd) + Distance(block.rd, block.wr) <=
           Distance(dataFrameReadPointer, dataFrameWritePointer)
  BY <1>2, DistanceType, QueueSizeAssumption DEF Known, TypeOK, RingInv, Pointer
<1>6. block.rd # dataFrameWritePointer
  BY <1>4, <1>5
<1>7. QED
  BY <1>1, <1>2, <1>3, <1>6

LEMMA ReadInOrder == Known /\ OrderInv /\ Acquiring /\ ReadFrame => InOrder'
<1> SUFFICES ASSUME Known, InOrder, ReadFrame PROVE InOrder'
  BY DEF OrderInv
<1> DEFINE w == dataFrameWritePointer
           c == Cursor
<1>1. /\ c \in Pointer /\ w \in Pointer /\ c # w /\ Cursor' = Wrap(c + 1) /\ w' = w
      /\ ring' = ring /\ NextID' = NextID /\ last' = ring[Slot(c)]
  BY ReadTakes, CursorInWindow DEF Known
<1>2. Unread(c) /\ Distance(c, c) = 0
  BY <1>1, WindowRest DEF Unread
<1>3. \A p \in Pointer : Unread(p)' => Unread(p) /\ Distance(c, p) = Distance(Cursor', p) + 1
  BY <1>1, WindowRest DEF Unread
<1>4. \A p \in Pointer : Distance(Cursor', p) \in Nat
  <2>1. Cursor' \in Pointer
    BY <1>1, QueueSizeAssumption DEF Wrap, Pointer
  <2>2. \A p \in Pointer : Distance(Cursor', p) \in Pointer
    BY <2>1, DistanceType
  <2>3. QED
    BY <2>2, QueueSizeAssumption DEF Pointer
<1>5. last'.id < NextID'
  BY <1>1, <1>2 DEF InOrder
<1>6. ASSUME NEW p \in Pointer, Unread(p)'
      PROVE  last'.id < ring'[Slot(p)].id /\ ring'[Slot(p)].id < NextID'
  <2>1. Unread(p) /\ Distance(c, c) < Distance(c, p)
    BY <1>2, <1>3, <1>4, <1>6
  <2>2. QED
    BY <1>1, <1>2, <2>1 DEF InOrder
<1>7. ASSUME NEW p \in Pointer, Unread(p)', NEW q \in Pointer, Unread(q)',
             Distance(Cursor', p) < Distance(Cursor', q)
      PROVE  ring'[Slot(p)].id < ring'[Slot(q)].id
  <2>1. Unread(p) /\ Unread(q) /\ Distance(c, p) < Distance(c, q)
    BY <1>3, <1>4, <1>7
  <2>2. QED
    BY <1>1, <2>1 DEF InOrder
<1>8. QED
  BY <1>5, <1>6, <1>7 DEF InOrder

LEMMA InitOrder == Init => OrderInv
BY DEF Init, InitRing, OrderInv, FrameAhead, InFrame, Acquiring

\* The worker does nothing to the client.
LEMMA WorkerKeepsClient ==
  ASSUME Worker
  PROVE  /\ UNCHANGED <<last, Cursor, acqRun, dataFrameReadPointer>>
         /\ (WorkerCrash /\ ~Acquiring') \/ UNCHANGED Acquiring
         /\ WorkerPublish \/ UNCHANGED dataFrameWritePointer
<1> USE DEF workerElse, workerFrame, clientVars, ringVars, cardVars, Acquiring, Cursor
<1>1. CASE WorkerLoop \/ WorkerResync \/ WorkerSync \/ WorkerHead \/ WorkerMode
  BY <1>1 DEF WorkerLoop, WorkerResync, WorkerSync, WorkerHead, WorkerMode
<1>2. CASE WorkerClaim \/ WorkerFill \/ WorkerSpill \/ WorkerBody \/ WorkerTrailer
  BY <1>2 DEF WorkerClaim, WorkerFill, WorkerSpill, WorkerBody, WorkerTrailer
<1>3. CASE WorkerPublish
  BY <1>3 DEF WorkerPublish, PublishFrame
<1>4. CASE WorkerCrash
  BY <1>4 DEF WorkerCrash
<1>5. QED
  BY <1>1, <1>2, <1>3, <1>4 DEF Worker

LEMMA WorkerOrder == Known /\ OrderInv /\ Worker => OrderInv'
<1> SUFFICES ASSUME Known, OrderInv, Worker PROVE OrderInv'
  OBVIOUS
<1>1. FrameAhead'
  BY WorkerFrameAhead DEF OrderInv
<1>2. UNCHANGED <<last, Cursor>> /\ (WorkerCrash \/ UNCHANGED Acquiring)
  BY WorkerKeepsClient
<1>3. CASE Acquiring /\ WorkerPublish
  BY <1>1, <1>3, PublishInOrder DEF OrderInv
<1>4. CASE Acquiring /\ ~WorkerPublish
  <2>1. dataFrameWritePointer' = dataFrameWritePointer
    BY <1>4, WorkerKeepsClient
  <2>2. \A p \in Available : ring'[Slot(p)].id = ring[Slot(p)].id
    <3>1. \A f \in Frame : [f EXCEPT !.state = "over"].id = f.id
      BY DEF Frame
    <3>2. \A p \in Available : ring[Slot(p)] \in Frame
      BY SlotType DEF Known, TypeOK, Available
    <3>3. QED
      BY <1>4, <3>1, <3>2, WorkerKeepsFrames DEF Known, Kept
  <2>3. NextID' \in Int /\ NextID' >= NextID
    BY <1>4, NextIDAscends DEF OrderInv
  <2>4. InOrder'
    BY <1>2, <1>4, <2>1, <2>2, <2>3, OrderStays DEF OrderInv
  <2>5. QED
    BY <1>1, <2>4 DEF OrderInv
<1>5. CASE ~Acquiring
  BY <1>1, <1>2, <1>5 DEF OrderInv, WorkerCrash, Acquiring
<1>6. QED
  BY <1>3, <1>4, <1>5

LEMMA NextOrder == SleepCoversFrame /\ Known /\ OrderInv /\ [Next]_vars => OrderInv'
<1> SUFFICES ASSUME SleepCoversFrame, Known, OrderInv, [Next]_vars PROVE OrderInv'
  OBVIOUS
<1>1. ASSUME UNCHANGED <<Cursor, dataFrameWritePointer, last, ring, stream, cur, wpc>>,
             Acquiring' => Acquiring
      PROVE  OrderInv'
  <2>1. FrameAhead'
    BY <1>1 DEF OrderInv, FrameAhead, InFrame
  <2>2. NextID' = NextID
    BY <1>1 DEF NextID, InFrame
  <2>3. NextID' \in Int /\ NextID' >= NextID
    BY <2>2, KnownTypes DEF Known
  <2>4. Acquiring => InOrder'
    BY <1>1, <2>3, OrderStays DEF OrderInv
  <2>5. QED
    BY <1>1, <2>1, <2>4 DEF OrderInv
<1>2. CASE UNCHANGED vars
  BY <1>1, <1>2 DEF vars, ringVars, cardVars, workerVars, clientVars, Cursor, Acquiring
<1>3. CASE StreamRestart
  <2>1. ~Acquiring'
    BY <1>3 DEF StreamRestart, ringVars, Known, WholeInv, Acquiring
  <2>2. stream.run \in Int /\ cur.run \in Int /\ acqRun \in Int
    BY DEF Known, TypeOK, Stream, Header
  <2>3. InFrame' => stream'.run # cur'.run
    BY <1>3, <2>2 DEF StreamRestart, workerVars, Known, WholeInv, InFrame
  <2>4. FrameAhead'
    BY <1>3, <2>3 DEF StreamRestart, workerVars, OrderInv, FrameAhead, InFrame
  <2>5. QED
    BY <2>1, <2>4 DEF OrderInv
<1>4. CASE Worker
  BY <1>4, WorkerOrder
<1>5. CASE EventLoop
  <2> USE DEF ringVars, cardVars, workerVars, clientVars
  <2>1. CASE StartCard \/ FirstWipe \/ StopAcquisition
    BY <2>1 DEF StartCard, FirstWipe, StopAcquisition, OrderInv, FrameAhead, InFrame, Acquiring
  <2>2. CASE SecondWipe
    <3>1. UNCHANGED <<ring, stream, cur, wpc>> /\ last' = NoFrame
      BY <2>2 DEF SecondWipe, ClientForgets
    <3>2. FrameAhead'
      BY <3>1 DEF OrderInv, FrameAhead, InFrame
    <3>3. Cursor' = 0 /\ dataFrameWritePointer' = 0
      BY <2>2 DEF SecondWipe, ClientForgets, WipeBuffers, Cursor
    <3>4. \A p \in Pointer : ~Unread(p)'
      BY <3>3, EmptyWindow DEF Unread
    <3>5. NextID' >= 0
      BY <3>1, <3>2, KnownTypes DEF FrameAhead, NextID, InFrame, Known
    <3>6. last'.id < NextID'
      BY <3>1, <3>5, KnownTypes DEF NoFrame, NextID, InFrame, Known
    <3>7. QED
      BY <3>2, <3>4, <3>6 DEF OrderInv, InOrder
  <2>3. CASE Shutdown \/ JoinWorker
    BY <1>1, <2>3 DEF Shutdown, JoinWorker, Acquiring, Cursor, Known, WholeInv
  <2>4. QED
    BY <1>5, <2>1, <2>2, <2>3 DEF EventLoop
<1>6. CASE Client
  <2> USE DEF clientElse, ringVars, cardVars, workerVars
  <2>1. CASE PollPointers \/ EndOfBlock
    BY <1>1, <2>1 DEF PollPointers, EndOfBlock, Acquiring, Cursor
  <2>2. CASE ReadFrame
    <3>1. FrameAhead' /\ Acquiring' = Acquiring
      BY <2>2 DEF ReadFrame, OrderInv, FrameAhead, InFrame, Acquiring
    <3>2. QED
      BY <2>2, <3>1, ReadInOrder DEF OrderInv
  <2>3. CASE FreeBlock
    <3>1. Cursor' = Cursor
      BY <2>3, QueueSizeAssumption DEF FreeBlock, SetDataFrameReadPointer, Cursor, Wrap, Known, TypeOK, Pointer
    <3>2. QED
      BY <1>1, <2>3, <3>1 DEF FreeBlock, SetDataFrameReadPointer, Acquiring
  <2>4. CASE DiscardFrames
    <3>1. UNCHANGED <<stream, cur, wpc, last, Acquiring>>
      BY <2>4 DEF DiscardFrames, Acquiring
    <3>2. Cursor' = dataFrameWritePointer /\ dataFrameWritePointer' = dataFrameWritePointer
      BY <2>4 DEF DiscardFrames, Cursor
    <3>3. \A p \in Pointer : ~Unread(p)'
      BY <3>2, DistanceType, CursorInWindow, QueueSizeAssumption DEF Unread, InWindow, Known, Pointer
    <3>4. FrameAhead' /\ (Acquiring => last'.id < NextID')
      BY <3>1 DEF OrderInv, FrameAhead, InOrder, InFrame, NextID
    <3>5. QED
      BY <3>1, <3>3, <3>4 DEF OrderInv, InOrder
  <2>5. QED
    BY <1>6, <2>1, <2>2, <2>3, <2>4 DEF Client
<1>7. CASE Terminated
  BY <1>2, <1>7 DEF Terminated
<1>8. QED
  BY <1>2, <1>3, <1>4, <1>5, <1>6, <1>7 DEF Next

----------------------------------------------------------------------------
(* The steps of the abstract queue *)

Taken == IF Acquiring THEN Seen(last) ELSE Seen(NoFrame)

\* What the abstract queue holds of a frame.
Element == [id : Int, whole : BOOLEAN]

LEMMA LongerIsAppend ==
  ASSUME NEW T, NEW n \in Nat, NEW g \in [1 .. n + 1 -> T], NEW s, s = [i \in 1 .. n |-> g[i]]
  PROVE  s \in Seq(T) /\ Len(s) = n /\ g \in Seq(T) /\ Len(g) = n + 1 /\ g = Append(s, g[n + 1])
<1>1. s \in Seq(T) /\ Len(s) = n /\ g \in Seq(T) /\ Len(g) = n + 1
  OBVIOUS
<1>2. /\ Append(s, g[n + 1]) \in Seq(T) /\ Len(Append(s, g[n + 1])) = n + 1
      /\ \A i \in 1 .. n + 1 : Append(s, g[n + 1])[i] = g[i]
  BY <1>1
<1>3. QED
  BY <1>1, <1>2

\* A sequence is a function of its places.
LEMMA SeqIsFunction ==
  ASSUME NEW T, NEW s \in Seq(T)
  PROVE  s \in [1 .. Len(s) -> T]
OBVIOUS

\* What is left of a sequence moves up by one.
LEMMA TailPlaces ==
  ASSUME NEW T, NEW s \in Seq(T), s # << >>
  PROVE  /\ Tail(s) \in Seq(T) /\ Len(Tail(s)) = Len(s) - 1 /\ Head(s) = s[1]
         /\ \A i \in 1 .. Len(s) - 1 : Tail(s)[i] = s[i + 1]
OBVIOUS

LEMMA ShorterIsTail ==
  ASSUME NEW T, NEW n \in Nat, NEW g \in [1 .. n + 1 -> T], NEW t, t = [i \in 1 .. n |-> g[i + 1]]
  PROVE  g # << >> /\ Head(g) = g[1] /\ t = Tail(g)
<1>1. t \in Seq(T) /\ Len(t) = n /\ g \in Seq(T) /\ Len(g) = n + 1
  OBVIOUS
<1>2. g # << >> /\ Head(g) = g[1] /\ Tail(g) \in Seq(T) /\ Len(Tail(g)) = n
  BY <1>1
<1>3. \A i \in 1 .. n : Tail(g)[i] = g[i + 1]
  BY <1>1, <1>2, TailPlaces
<1>4. Tail(g) \in [1 .. n -> T]
  BY <1>2, SeqIsFunction
<1>5. \A i \in 1 .. n : t[i] = Tail(g)[i]
  BY <1>3
<1>6. t = Tail(g)
  BY <1>4, <1>5
<1>7. QED
  BY <1>2, <1>6

\* The places of a window.
LEMMA Places ==
  ASSUME NEW c \in Pointer, NEW w \in Pointer, NEW i \in 1 .. Distance(c, w)
  PROVE  /\ Wrap(c + i - 1) \in Pointer /\ InWindow(Wrap(c + i - 1), c, w)
         /\ i < Distance(c, w) => Wrap(c + (i + 1) - 1) = Wrap(Wrap(c + 1) + i - 1)
BY QueueSizeAssumption DEF InWindow, Distance, Pointer, Wrap

\* The abstract queue has the frames in the slots.
LEMMA QueuedFrames ==
  ASSUME Known, Acquiring
  PROVE  /\ Queued \in [1 .. Distance(Cursor, dataFrameWritePointer) -> Element]
         /\ \A i \in 1 .. Distance(Cursor, dataFrameWritePointer) :
              LET p == Wrap(Cursor + i - 1)
              IN  Unread(p) /\ p \in Pointer /\ Queued[i] = FrameAt(p) /\ FrameAt(p) = Seen(ring[Slot(p)])
<1> DEFINE n == Distance(Cursor, dataFrameWritePointer)
<1>1. ASSUME NEW i \in 1 .. n
      PROVE  LET p == Wrap(Cursor + i - 1)
             IN  Unread(p) /\ p \in Pointer /\ FrameAt(p) = Seen(ring[Slot(p)]) /\ FrameAt(p) \in Element
  <2> DEFINE p == Wrap(Cursor + i - 1)
  <2>1. Unread(p) /\ p \in Pointer
    BY <1>1, Places, CursorInWindow DEF Unread, Known
  <2>2. ring[Slot(p)].state \in {"whole", "over"} /\ ring[Slot(p)].run = acqRun
    BY <2>1, CursorInWindow DEF Known, WholeInv, OnlyWholeFrames, WholeUnlessSpilled
  <2>3. ring[Slot(p)].id \in Int
    BY <2>1, KnownTypes DEF Known
  <2>4. Seen(ring[Slot(p)]) \in Element
    BY <2>3 DEF Seen, Element
  <2>5. QED
    BY <2>1, <2>2, <2>4 DEF FrameAt
<1>2. Queued = [i \in 1 .. n |-> FrameAt(Wrap(Cursor + i - 1))]
  BY DEF Queued
<1>3. QED
  BY <1>1, <1>2

\* As long as the client reads nothing and the worker publishes nothing.
LEMMA SameQueue ==
  ASSUME Known, UNCHANGED <<Cursor, dataFrameWritePointer, last, acqRun, Acquiring>>,
         Acquiring => \A p \in Available : ring'[Slot(p)] = ring[Slot(p)]
  PROVE  UNCHANGED <<Queued, Taken>>
<1>1. CASE ~Acquiring
  BY <1>1 DEF Queued, Taken
<1>2. CASE Acquiring
  <2> DEFINE n == Distance(Cursor, dataFrameWritePointer)
  <2>1. ASSUME NEW i \in 1 .. n
        PROVE  FrameAt(Wrap(Cursor + i - 1))' = FrameAt(Wrap(Cursor + i - 1))
    <3> DEFINE p == Wrap(Cursor + i - 1)
    <3>1. p \in Available
      BY <1>2, QueuedFrames, CursorInWindow DEF Known
    <3>2. QED
      BY <1>2, <3>1 DEF FrameAt
  <2>2. Queued' = [i \in 1 .. n |-> FrameAt(Wrap(Cursor + i - 1))']
    BY <1>2 DEF Queued
  <2>3. Queued = [i \in 1 .. n |-> FrameAt(Wrap(Cursor + i - 1))]
    BY <1>2 DEF Queued
  <2>4. Queued' = Queued
    BY <2>1, <2>2, <2>3
  <2>5. QED
    BY <2>4 DEF Taken
<1>3. QED
  BY <1>1, <1>2

\* Nothing that is left goes over from one run to the next.
LEMMA EmptyQueue ==
  ASSUME ~Acquiring' \/ (Cursor' = 0 /\ dataFrameWritePointer' = 0 /\ last' = NoFrame)
  PROVE  Queued' = << >> /\ Taken' = [id |-> -1, whole |-> FALSE]
<1>1. CASE ~Acquiring'
  <2>1. Seen(NoFrame) = [id |-> -1, whole |-> FALSE] /\ Seen(NoFrame)' = Seen(NoFrame)
    BY DEF Seen, NoFrame
  <2>2. QED
    BY <1>1, <2>1 DEF Queued, Taken
<1>2. CASE Cursor' = 0 /\ dataFrameWritePointer' = 0 /\ last' = NoFrame
  <2>1. Queued' = IF Acquiring' THEN [i \in 1 .. 0 |-> FrameAt(Wrap(Cursor + i - 1))'] ELSE << >>
    BY <1>2 DEF Queued, Distance
  <2>2. Queued' = << >>
    BY <2>1
  <2>3. Taken' = (IF Acquiring' THEN Seen(last') ELSE Seen(NoFrame))
    BY DEF Taken, Seen, NoFrame
  <2>4. Seen(last') = Seen(NoFrame)
    BY <1>2
  <2>5. Seen(NoFrame) = [id |-> -1, whole |-> FALSE]
    BY DEF Seen, NoFrame
  <2>6. QED
    BY <2>2, <2>3, <2>4, <2>5
<1>3. QED
  BY <1>1, <1>2

LEMMA SpoiltElement ==
  ASSUME NEW id \in Int, NEW whole \in BOOLEAN
  PROVE  [[id |-> id, whole |-> whole] EXCEPT !.whole = FALSE] = [id |-> id, whole |-> FALSE]
<1>1. PICK g : g = [[id |-> id, whole |-> whole] EXCEPT !.whole = FALSE]
  OBVIOUS
<1>2. g \in [id : Int, whole : BOOLEAN] /\ g.id = id /\ g.whole = FALSE
  BY <1>1
<1>3. QED
  BY <1>1, <1>2

\* Without a frame that is too long the worker changes nothing of the queue until it
\* publishes; with one, it may spoil frames that wait.
LEMMA WorkerSpoils ==
  ASSUME Known, Acquiring, Worker, UNCHANGED <<Cursor, dataFrameWritePointer, last, acqRun, Acquiring>>
  PROVE  Abstract!Spoil \/ UNCHANGED <<Queued, Taken>>
<1>1. CASE ~(MaxSpill > 0)
  <2>1. \A p \in Available : ring'[Slot(p)] = ring[Slot(p)]
    BY <1>1, WorkerKeepsFrames DEF Known, Kept
  <2>2. QED
    BY <2>1, SameQueue
<1>2. CASE MaxSpill > 0
  <2> DEFINE n == Distance(Cursor, dataFrameWritePointer)
  <2>1. ASSUME NEW i \in 1 .. n
        PROVE  FrameAt(Wrap(Cursor + i - 1))' \in {Queued[i], [Queued[i] EXCEPT !.whole = FALSE]}
    <3>1. PICK p \in Pointer : /\ p = Wrap(Cursor + i - 1) /\ Unread(p) /\ Queued[i] = Seen(ring[Slot(p)])
                               /\ FrameAt(p) = Queued[i]
      BY QueuedFrames
    <3>2. p \in Available
      BY <3>1, CursorInWindow DEF Known
    <3>3. Kept(ring[Slot(p)], ring'[Slot(p)]) /\ ring[Slot(p)] \in Frame
      BY <3>2, WorkerKeepsFrames, KnownTypes DEF Known
    <3>4. CASE ring'[Slot(p)] = ring[Slot(p)]
      BY <3>1, <3>4 DEF FrameAt
    <3>5. CASE ring'[Slot(p)] = [ring[Slot(p)] EXCEPT !.state = "over"]
      <4>1. /\ ring'[Slot(p)].state = "over" /\ ring'[Slot(p)].run = ring[Slot(p)].run
            /\ ring'[Slot(p)].id = ring[Slot(p)].id
        BY <3>3, <3>5 DEF Frame
      <4>2. ring[Slot(p)].run = acqRun
        BY <3>2 DEF Known, WholeInv, OnlyWholeFrames
      <4>3. FrameAt(p)' = [id |-> ring[Slot(p)].id, whole |-> FALSE]
        <5>1. FrameAt(p)' = IF ring'[Slot(p)].state # "part" /\ ring'[Slot(p)].run = acqRun'
                            THEN [id |-> ring'[Slot(p)].id, whole |-> ring'[Slot(p)].state = "whole"]
                            ELSE [id |-> NoFrame.id, whole |-> NoFrame.state = "whole"]
          BY DEF FrameAt, Seen
        <5>2. (ring'[Slot(p)].state = "whole") = FALSE /\ ring'[Slot(p)].state # "part"
          BY <4>1
        <5>3. QED
          BY <4>1, <4>2, <5>1, <5>2
      <4>4. [Queued[i] EXCEPT !.whole = FALSE] = [id |-> ring[Slot(p)].id, whole |-> FALSE]
        <5>1. ring[Slot(p)].id \in Int
          BY <3>3, BoundAssumption DEF Frame
        <5>2. PICK w \in BOOLEAN : w = (ring[Slot(p)].state = "whole")
          OBVIOUS
        <5>3. Queued[i] = [id |-> ring[Slot(p)].id, whole |-> w]
          BY <3>1, <5>2 DEF Seen
        <5>4. QED
          BY <5>1, <5>3, SpoiltElement
      <4>5. FrameAt(p)' = [Queued[i] EXCEPT !.whole = FALSE]
        BY <4>3, <4>4
      <4>6. QED
        BY <3>1, <4>5
    <3>6. QED
      BY <3>3, <3>4, <3>5 DEF Kept
  <2>2. Queued' = [i \in 1 .. n |-> FrameAt(Wrap(Cursor + i - 1))']
    BY DEF Queued
  <2>3. DOMAIN Queued = 1 .. n
    BY QueuedFrames
  <2> HIDE DEF n
  <2>4. DOMAIN Queued' = DOMAIN Queued
    BY <2>2, <2>3
  <2>5. \A i \in DOMAIN Queued : Queued'[i] \in {Queued[i], [Queued[i] EXCEPT !.whole = FALSE]}
    BY <2>1, <2>2, <2>3
  <2>6. UNCHANGED (IF Acquiring THEN Seen(last) ELSE Seen(NoFrame))
    OBVIOUS
  <2>7. QED
    BY <1>2, <2>4, <2>5, <2>6 DEF Abstract!Spoil
<1>3. QED
  BY <1>1, <1>2

\* Publishing is Store.
LEMMA PublishIsStore == Known /\ OrderInv /\ Acquiring /\ WorkerPublish => Abstract!Store
<1> SUFFICES ASSUME Known, OrderInv, Acquiring, WorkerPublish PROVE Abstract!Store
  OBVIOUS
<1> DEFINE n == Distance(Cursor, dataFrameWritePointer)
           g == [i \in 1 .. n + 1 |-> FrameAt(Wrap(Cursor + i - 1))]
<1>1. n \in Nat /\ n < QueueSize /\ Cursor \in Pointer /\ dataFrameWritePointer \in Pointer
  BY CursorInWindow, PublishStores DEF Known
<1>2. Wrap(Cursor + (n + 1) - 1) = dataFrameWritePointer
  BY <1>1, QueueSizeAssumption DEF Distance, Pointer, Wrap
<1>3. PICK e \in Element : /\ FrameAt(dataFrameWritePointer) = e /\ e.id = NextID
                            /\ (e.whole \/ MaxSpill > 0)
  <2>1. NextID \in Int
    BY KnownTypes DEF Known
  <2>2. FrameAt(dataFrameWritePointer) = Seen(ring[Slot(dataFrameWritePointer)])
    BY PublishStores DEF FrameAt, WholeUnlessSpilled
  <2>3. /\ Seen(ring[Slot(dataFrameWritePointer)]).id = NextID
        /\ Seen(ring[Slot(dataFrameWritePointer)]) \in Element
        /\ (Seen(ring[Slot(dataFrameWritePointer)]).whole \/ MaxSpill > 0)
    BY <2>1, PublishStores DEF Seen, Element, WholeUnlessSpilled
  <2>4. QED
    BY <2>2, <2>3
<1>4. \A i \in 1 .. n : FrameAt(Wrap(Cursor + i - 1)) \in Element
  BY QueuedFrames
<1>5. g \in [1 .. n + 1 -> Element] /\ g[n + 1] = e
  <2>1. \A i \in 1 .. n + 1 : i \in 1 .. n \/ i = n + 1
    BY <1>1
  <2>2. \A i \in 1 .. n + 1 : FrameAt(Wrap(Cursor + i - 1)) \in Element
    BY <1>2, <1>3, <1>4, <2>1
  <2>3. n + 1 \in 1 .. n + 1
    BY <1>1
  <2>4. QED
    BY <1>2, <1>3, <2>2, <2>3
<1>6. Queued = [i \in 1 .. n |-> g[i]]
  <2>1. Queued = [i \in 1 .. n |-> FrameAt(Wrap(Cursor + i - 1))]
    BY DEF Queued
  <2>2. \A i \in 1 .. n : g[i] = FrameAt(Wrap(Cursor + i - 1))
    BY <1>1
  <2>3. QED
    BY <2>1, <2>2
<1>7. Queued' = g
  <2>1. \A x : FrameAt(x)' = FrameAt(x)
    BY PublishStores DEF FrameAt, Seen
  <2>2. QED
    BY <2>1, PublishStores DEF Queued
<1> HIDE DEF g, n
<1>8. /\ Queued \in Seq(Element) /\ Len(Queued) = n /\ Len(Queued') = n + 1
      /\ Queued' = Append(Queued, g[n + 1])
  BY <1>1, <1>5, <1>6, <1>7, LongerIsAppend
<1>9. Abstract!Newest.id < NextID
  <2>1. CASE Queued = << >>
    BY <2>1 DEF Abstract!Newest, OrderInv, InOrder, Seen
  <2>2. CASE Queued # << >>
    <3>1. n \in 1 .. n
      BY <1>1, <1>8, <2>2
    <3>2. PICK p \in Pointer : Unread(p) /\ Queued[n] = Seen(ring[Slot(p)])
      BY <3>1, QueuedFrames DEF n
    <3>3. Queued[n].id < NextID
      BY <3>2 DEF OrderInv, InOrder, Seen
    <3>4. QED
      BY <1>8, <2>2, <3>3 DEF Abstract!Newest
  <2>3. QED
    BY <2>1, <2>2
<1>10. UNCHANGED (IF Acquiring THEN Seen(last) ELSE Seen(NoFrame))
  BY PublishStores
<1>11. Queued'[Len(Queued')] = e
  BY <1>5, <1>7, <1>8
<1>12. QED
  BY <1>1, <1>3, <1>5, <1>8, <1>9, <1>10, <1>11 DEF Abstract!Store

\* Reading a slot is Take.
LEMMA ReadIsTake == Known /\ Acquiring /\ ReadFrame => Abstract!Take
<1> SUFFICES ASSUME Known, Acquiring, ReadFrame PROVE Abstract!Take
  OBVIOUS
<1> DEFINE c == Cursor
           w == dataFrameWritePointer
           m == Distance(Wrap(c + 1), w)
<1>1. /\ c \in Pointer /\ w \in Pointer /\ c # w /\ Wrap(c + 1) \in Pointer
      /\ m \in Nat /\ Distance(c, w) = m + 1
  <2>1. c \in Pointer /\ w \in Pointer /\ c # w
    BY ReadTakes, CursorInWindow DEF Known
  <2>2. Wrap(c + 1) \in Pointer /\ m = Distance(c, w) - 1 /\ Distance(c, w) \in Nat
    BY <2>1, WindowRest, CursorInWindow DEF Known
  <2>3. m \in Nat
    BY <2>1, <2>2, DistanceType, QueueSizeAssumption DEF Pointer
  <2>4. QED
    BY <2>1, <2>2, <2>3
<1>2. Queued \in [1 .. m + 1 -> Element]
  BY <1>1, QueuedFrames
<1>3. \A i \in 1 .. m : FrameAt(Wrap(Wrap(c + 1) + i - 1)) = Queued[i + 1]
  <2> SUFFICES ASSUME NEW i \in 1 .. m PROVE FrameAt(Wrap(Wrap(c + 1) + i - 1)) = Queued[i + 1]
    OBVIOUS
  <2>1. i + 1 \in 1 .. Distance(c, w) /\ i \in 1 .. Distance(c, w) /\ i < Distance(c, w)
    BY <1>1
  <2>2. Wrap(c + (i + 1) - 1) = Wrap(Wrap(c + 1) + i - 1)
    BY <1>1, <2>1, Places
  <2>3. Queued[i + 1] = FrameAt(Wrap(c + (i + 1) - 1))
    BY <2>1, QueuedFrames
  <2>4. QED
    BY <2>2, <2>3
<1>4. Queued' = [i \in 1 .. m |-> Queued[i + 1]]
  <2>1. \A x : FrameAt(x)' = FrameAt(x)
    BY ReadTakes DEF FrameAt
  <2>2. Queued' = [i \in 1 .. m |-> FrameAt(Wrap(Wrap(c + 1) + i - 1))]
    BY <2>1, ReadTakes DEF Queued
  <2>3. QED
    BY <1>3, <2>2
<1>5. Queued[1] = Seen(last')
  <2>1. 1 \in 1 .. Distance(c, w) /\ Wrap(c + 1 - 1) = c
    BY <1>1, QueueSizeAssumption DEF Pointer, Wrap
  <2>2. Queued[1] = Seen(ring[Slot(c)])
    BY <2>1, QueuedFrames
  <2>3. QED
    BY <2>2, ReadTakes
<1> HIDE DEF m
<1>6. Queued # << >> /\ Head(Queued) = Queued[1] /\ Queued' = Tail(Queued)
  BY <1>1, <1>2, <1>4, ShorterIsTail
<1>7. (IF Acquiring THEN Seen(last) ELSE Seen(NoFrame))' = Seen(last')
  BY ReadTakes DEF Seen
<1>8. QED
  BY <1>5, <1>6, <1>7 DEF Abstract!Take

\* Every step is one of the abstract queue, or changes nothing of it.
LEMMA NextImplements ==
  SleepCoversFrame /\ Known /\ OrderInv /\ [Next]_vars => [Abstract!Next]_<<Queued, Taken>>
<1> SUFFICES ASSUME SleepCoversFrame, Known, OrderInv, [Next]_vars
             PROVE  [Abstract!Next]_<<Queued, Taken>>
  OBVIOUS
<1>1. ASSUME UNCHANGED <<Cursor, dataFrameWritePointer, last, acqRun, Acquiring, ring>>
      PROVE  UNCHANGED <<Queued, Taken>>
  BY <1>1, SameQueue
<1>2. ASSUME ~Acquiring' \/ (Cursor' = 0 /\ dataFrameWritePointer' = 0 /\ last' = NoFrame)
      PROVE  Abstract!Reset
  BY <1>2, EmptyQueue DEF Abstract!Reset, Abstract!Nothing, Taken
<1>3. CASE UNCHANGED vars
  BY <1>1, <1>3 DEF vars, ringVars, cardVars, workerVars, clientVars, Cursor, Acquiring
<1>4. CASE StreamRestart
  BY <1>1, <1>4 DEF StreamRestart, ringVars, workerVars, clientVars, Cursor, Acquiring
<1>5. CASE Worker
  <2>1. UNCHANGED <<last, Cursor, acqRun>> /\ (~Acquiring' \/ UNCHANGED Acquiring)
    BY <1>5, WorkerKeepsClient
  <2>2. CASE Acquiring' /\ WorkerPublish
    <3>1. Acquiring
      BY <2>1, <2>2 DEF Acquiring
    <3>2. Abstract!Store
      BY <2>2, <3>1, PublishIsStore
    <3>3. QED
      BY <3>2 DEF Abstract!Next
  <2>3. CASE Acquiring' /\ ~WorkerPublish
    <3>1. Acquiring /\ UNCHANGED Acquiring
      BY <2>1, <2>3 DEF Acquiring
    <3>2. UNCHANGED dataFrameWritePointer
      BY <1>5, <2>3, WorkerKeepsClient
    <3>3. Abstract!Spoil \/ UNCHANGED <<Queued, Taken>>
      BY <1>5, <2>1, <3>1, <3>2, WorkerSpoils
    <3>4. QED
      BY <3>3 DEF Abstract!Next, Taken
  <2>4. CASE ~Acquiring'
    BY <1>2, <2>4 DEF Abstract!Next
  <2>5. QED
    BY <2>2, <2>3, <2>4
<1>6. CASE EventLoop
  <2> USE DEF ringVars, cardVars, workerVars, clientVars
  <2>1. CASE StartCard \/ FirstWipe \/ StopAcquisition
    <3>1. ~Acquiring'
      BY <2>1 DEF StartCard, FirstWipe, StopAcquisition, Acquiring
    <3>2. QED
      BY <1>2, <3>1 DEF Abstract!Next
  <2>2. CASE SecondWipe
    <3>1. Cursor' = 0 /\ dataFrameWritePointer' = 0 /\ last' = NoFrame
      BY <2>2 DEF SecondWipe, ClientForgets, WipeBuffers, Cursor
    <3>2. QED
      BY <1>2, <3>1 DEF Abstract!Next
  <2>3. CASE Shutdown \/ JoinWorker
    BY <1>1, <2>3 DEF Shutdown, JoinWorker, Acquiring, Cursor, Known, WholeInv
  <2>4. QED
    BY <1>6, <2>1, <2>2, <2>3 DEF EventLoop
<1>7. CASE Client
  <2> USE DEF clientElse, ringVars, cardVars, workerVars
  <2>1. CASE PollPointers \/ EndOfBlock
    BY <1>1, <2>1 DEF PollPointers, EndOfBlock, Acquiring, Cursor
  <2>2. CASE ReadFrame
    <3>1. CASE Acquiring
      BY <2>2, <3>1, ReadIsTake DEF Abstract!Next
    <3>2. CASE ~Acquiring
      <4>1. ~Acquiring'
        BY <2>2, <3>2 DEF ReadFrame, Acquiring
      <4>2. QED
        BY <1>2, <4>1 DEF Abstract!Next
    <3>3. QED
      BY <3>1, <3>2
  <2>3. CASE FreeBlock
    <3>1. Cursor' = Cursor
      BY <2>3, QueueSizeAssumption DEF FreeBlock, SetDataFrameReadPointer, Cursor, Wrap, Known, TypeOK, Pointer
    <3>2. QED
      BY <1>1, <2>3, <3>1 DEF FreeBlock, SetDataFrameReadPointer, Acquiring
  <2>4. CASE DiscardFrames
    <3>1. UNCHANGED <<last, Acquiring>>
      BY <2>4 DEF DiscardFrames, Acquiring
    <3>2. Cursor' = dataFrameWritePointer /\ dataFrameWritePointer' = dataFrameWritePointer
      BY <2>4 DEF DiscardFrames, Cursor
    <3>3. Distance(Cursor', dataFrameWritePointer') = 0
      BY <3>2, DistanceType DEF Known, TypeOK
    <3>4. Queued' = << >>
      BY <3>3 DEF Queued
    <3>5. QED
      BY <3>1, <3>4 DEF Abstract!Next, Abstract!DiscardAll
  <2>5. QED
    BY <1>7, <2>1, <2>2, <2>3, <2>4 DEF Client
<1>8. CASE Terminated
  BY <1>3, <1>8 DEF Terminated
<1>9. QED
  BY <1>3, <1>4, <1>5, <1>6, <1>7, <1>8 DEF Next

\* The frames stored in a run are handed to the client once each and in the order of
\* their IDs, and it skips one only when it says so: the ring, with its pointers, the
\* worker, the wipes and the client, implements FrameStream (doWork, parseDataFrame and
\* the requests of daqd.py), if the sleep outlasts the frame in flight.
THEOREM ImplementsFrameStream == ASSUME SleepCoversFrame PROVE Spec => DeliversFrameStream
<1>1. Init => Known /\ OrderInv
  BY InitType, InitRingInv, InitWholeInv, InitOrder DEF Known
<1>2. Known /\ OrderInv /\ [Next]_vars => (Known /\ OrderInv)'
  BY SleepCoversFrame, NextType, NextRingInv, NextWholeInv, NextOrder DEF Known
<1>3. Init => Abstract!Init
  BY DEF Init, Abstract!Init, Abstract!Nothing, Queued, Acquiring, Seen, NoFrame
<1>4. Known /\ OrderInv /\ [Next]_vars
        => [Abstract!Next]_<<Queued, IF Acquiring THEN Seen(last) ELSE Seen(NoFrame)>>
  BY SleepCoversFrame, NextImplements DEF Taken
<1>5. QED
  BY <1>1, <1>2, <1>3, <1>4, PTL DEF Spec, DeliversFrameStream, Abstract!Spec

============================================================================
