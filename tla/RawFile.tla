------------------------------ MODULE RawFile ------------------------------
(***************************************************************************)
(* The raw data file: write_raw writes the frames it finds in the ring,    *)
(* step by step, and leaves out most of the empty ones; RawReader reads a  *)
(* step back and cuts its events into buffers for the processing pipeline. *)
(*                                                                         *)
(* A frame that daqd had no slot for is not in the ring: write_raw sees    *)
(* the gap in the frame IDs and writes a marker for it. A frame is its ID, *)
(* whether the hardware lost events of it, how many events it has, and the *)
(* step it is from, which stands for what its events are. Offsets in the   *)
(* data file count frames.                                                 *)
(***************************************************************************)
EXTENDS Integers, Sequences, SequencesExt

CONSTANTS
  BlockSize,    \* 4096 in the code: outBlockSize of RawReader
  MaxEvents,    \* 2046 in the code: what fits a slot behind two words of header
  MaxFrameID,   \* bound: frame IDs of a step
  MaxFrames,    \* bound: frames in the ring, of all steps
  MaxSteps      \* bound: calls of acquire

ASSUME FileAssumption ==
  /\ MaxEvents \in Nat /\ BlockSize \in Nat /\ MaxEvents <= BlockSize
  /\ MaxFrameID \in Nat /\ MaxFrames \in Nat /\ MaxSteps \in Nat

VARIABLES
  given,            \* the frames given to write_raw, a sequence for each step
  closing,          \* endOfStep of the blocks of this step that hold frames
  dataFile, indexFile,
  lastFrameID, stepFirstFrameID, lastFrameType, stepAllFrames,
  stepStartOffset,
  aborted,          \* RawReader has failed its assertion
  step,             \* the step RawReader is at; 0 while there is none
  position,         \* currentPosition, in the data file
  outBuffer,        \* the buffer being filled
  pushed,           \* the buffers pushed to the sink, a sequence for each step
  nFrameLost0, lastFrameWasLost0, lastReadID

writerVars == <<given, closing, dataFile, indexFile, lastFrameID, stepFirstFrameID,
                lastFrameType, stepAllFrames, stepStartOffset>>
countVars == <<nFrameLost0, lastFrameWasLost0, lastReadID>>
readerVars == <<aborted, step, position, outBuffer, pushed, countVars>>
vars == <<writerVars, readerVars>>

Frame == [id : 0 .. MaxFrameID, lost : BOOLEAN, n : 0 .. MaxEvents, step : 1 .. MaxSteps]
NoBuffer == [first |-> -1, events |-> << >>]

Init ==
  /\ given = << << >> >> /\ closing \in BOOLEAN
  /\ dataFile = << >> /\ indexFile = << >>
  /\ lastFrameID = -1 /\ stepFirstFrameID = -1 /\ lastFrameType = "UNKNOWN"
  /\ stepAllFrames = 0 /\ stepStartOffset = 0
  /\ aborted = FALSE /\ step = 0 /\ position = 0 /\ outBuffer = NoBuffer /\ pushed = << >>
  /\ nFrameLost0 = 0 /\ lastFrameWasLost0 = FALSE /\ lastReadID = -1

----------------------------------------------------------------------------
(* write_raw *)

\* The types have the names the code gives them, which suit frames whose lost
\* flag is set when nothing was lost.
FrameType(frame) ==
  IF frame.lost THEN IF frame.n = 0 THEN "ZERO_DATA" ELSE "SOME_DATA"
                ELSE IF frame.n = 0 THEN "ALL_LOST" ELSE "SOME_LOST"

\* The frame IDs between the last frame and this one.
Skipped(frame) ==
  IF lastFrameID >= 0 /\ frame.id > lastFrameID + 1 THEN frame.id - lastFrameID - 1 ELSE 0

LostMarker == [id |-> lastFrameID + 1, lost |-> TRUE, n |-> 0, step |-> Len(given)]

\* Mutant of LeftOut: frames with some events lost are left out as well.
LeftOutWithData(frame) ==
  ~closing /\ lastFrameType = FrameType(frame) /\ FrameType(frame) # "SOME_LOST"

LeftOut(frame) ==
  /\ ~closing
  /\ FrameType(frame) \in {"ZERO_DATA", "ALL_LOST"}
  /\ FrameType(frame) = IF Skipped(frame) > 0 THEN "ALL_LOST" ELSE lastFrameType

\* Mutant of Count: the skipped frames are not counted.
CountGiven(frame) == stepAllFrames + 1

Count(frame) == stepAllFrames + Skipped(frame) + 1

\* One frame of a block, in the loop over the ring. An ID that is not above the
\* last one gets a warning, and the frame is dealt with as any other.
WriteFrame ==
  /\ step = 0 /\ \E frame \in Frame :
       /\ frame.step = Len(given)
       /\ FoldLeft(LAMBDA total, frames : total + Len(frames), 0, given) < MaxFrames
       /\ given' = [given EXCEPT ![Len(given)] = Append(@, frame)]
       /\ stepFirstFrameID' = IF stepFirstFrameID = -1 THEN frame.id ELSE stepFirstFrameID
       /\ dataFile' = dataFile \o (IF Skipped(frame) > 0 THEN <<LostMarker>> ELSE << >>)
                               \o (IF LeftOut(frame) THEN << >> ELSE <<frame>>)
       /\ lastFrameID' = frame.id
       /\ lastFrameType' = FrameType(frame)
       /\ stepAllFrames' = Count(frame)
  /\ UNCHANGED <<closing, indexFile, stepStartOffset, readerVars>>

\* Mutant of EndOfStep: the step after it starts where this one did.
EndOfStepKeepingOffset ==
  /\ step = 0 /\ Last(given) # << >>
  /\ indexFile' = Append(indexFile,
       [begin |-> stepStartOffset, end |-> Len(dataFile),
        first |-> stepFirstFrameID, last |-> lastFrameID])
  /\ stepAllFrames' = 0 /\ lastFrameID' = -1 /\ stepFirstFrameID' = -1
  /\ lastFrameType' = "UNKNOWN"
  /\ given' = Append(given, << >>) /\ closing' \in BOOLEAN
  /\ UNCHANGED <<dataFile, stepStartOffset, readerVars>>

\* The block that closes a step: daqd.py's acquire waits for frames before it,
\* so that a step has some. It is empty but when acquire was called for no time
\* at all (closing).
EndOfStep ==
  /\ step = 0 /\ Last(given) # << >> /\ Len(given) <= MaxSteps
  /\ indexFile' = Append(indexFile,
       [begin |-> stepStartOffset, end |-> Len(dataFile),
        first |-> stepFirstFrameID, last |-> lastFrameID])
  /\ stepStartOffset' = Len(dataFile)
  /\ stepAllFrames' = 0 /\ lastFrameID' = -1 /\ stepFirstFrameID' = -1
  /\ lastFrameType' = "UNKNOWN"
  /\ given' = Append(given, << >>) /\ closing' \in BOOLEAN
  /\ UNCHANGED <<dataFile, readerVars>>

----------------------------------------------------------------------------
(* RawReader::processStep, of one step after the other, once the file is closed *)

NextStep(n, pushedSoFar) ==
  /\ step' = n
  /\ position' = IF n <= Len(indexFile) THEN indexFile[n].begin ELSE 0
  /\ outBuffer' = NoBuffer
  /\ pushed' = Append(pushedSoFar, << >>)
  /\ nFrameLost0' = 0 /\ lastFrameWasLost0' = FALSE /\ lastReadID' = -1

OpenFile ==
  /\ step = 0 /\ indexFile # << >> /\ Last(given) = << >>
  /\ NextStep(1, << >>)
  /\ UNCHANGED <<writerVars, aborted>>

Reading == step \in 1 .. Len(indexFile)

PushedWith(buffer) == [pushed EXCEPT ![step] = Append(@, buffer)]

Events(frame) == [i \in 1 .. frame.n |-> [step |-> frame.step, id |-> frame.id, event |-> i]]

\* Mutant of Overflows: the events of this frame are not counted.
OverflowsAfter(frame) == Len(outBuffer.events) > BlockSize

Overflows(frame) == Len(outBuffer.events) + frame.n > BlockSize

\* The assertion, N + 2 < MaxRawDataFrameSize, has no room for a frame that fills
\* its slot, though daqd and write_raw have; one longer than its slot counts as
\* one that fills it.
Full(frame) == frame.n # 0 /\ frame.n + 2 >= MaxEvents + 2

\* A frame without events is passed over before anything is counted.
ReadFrame ==
  /\ Reading /\ ~aborted /\ position < indexFile[step].end /\ ~Full(dataFile[position + 1])
  /\ position' = position + 1
  /\ LET frame == dataFile[position + 1]
         fresh == outBuffer = NoBuffer \/ Overflows(frame)
     IN IF frame.n = 0
        THEN UNCHANGED <<outBuffer, pushed, countVars>>
        ELSE /\ pushed' = IF outBuffer # NoBuffer /\ fresh THEN PushedWith(outBuffer) ELSE pushed
             /\ outBuffer' = IF fresh THEN [first |-> frame.id, events |-> Events(frame)]
                             ELSE [outBuffer EXCEPT !.events = @ \o Events(frame)]
             /\ nFrameLost0' = nFrameLost0
                  + (IF lastFrameWasLost0 /\ frame.id # lastReadID + 1
                     THEN frame.id - lastReadID - 1 ELSE 0)
                  + (IF frame.lost /\ frame.n = 0 THEN 1 ELSE 0)
             /\ lastFrameWasLost0' = (frame.lost /\ frame.n = 0)
             /\ lastReadID' = frame.id
  /\ UNCHANGED <<writerVars, aborted, step>>

\* The program that reads the step ends here, with what it has in its buffer.
FailAssertion ==
  /\ Reading /\ ~aborted /\ position < indexFile[step].end /\ Full(dataFile[position + 1])
  /\ aborted' = TRUE
  /\ UNCHANGED <<writerVars, step, position, outBuffer, pushed, countVars>>

FinishStep ==
  /\ Reading /\ ~aborted /\ position >= indexFile[step].end
  /\ NextStep(step + 1, IF outBuffer = NoBuffer THEN pushed ELSE PushedWith(outBuffer))
  /\ UNCHANGED <<writerVars, aborted>>

----------------------------------------------------------------------------
Next == WriteFrame \/ EndOfStep \/ OpenFile \/ ReadFrame \/ FailAssertion \/ FinishStep

Spec == Init /\ [][Next]_vars

----------------------------------------------------------------------------
(* Properties *)

\* Type correctness; and the index cuts the data file into its steps, with
\* nothing left between them.
TypeOK ==
  /\ Len(given) \in 1 .. MaxSteps + 1 /\ closing \in BOOLEAN
  /\ \A frame \in Range(dataFile) : frame \in Frame
  /\ \A n \in 1 .. Len(indexFile) :
       /\ indexFile[n].begin = IF n = 1 THEN 0 ELSE indexFile[n - 1].end
       /\ indexFile[n].begin < indexFile[n].end
  /\ stepStartOffset \in 0 .. Len(dataFile) /\ position \in 0 .. Len(dataFile)
  /\ lastFrameID \in -1 .. MaxFrameID /\ stepFirstFrameID \in -1 .. MaxFrameID
  /\ lastFrameType \in {"UNKNOWN", "ZERO_DATA", "SOME_DATA", "ALL_LOST", "SOME_LOST"}
  /\ stepAllFrames \in Nat /\ aborted \in BOOLEAN
  /\ step \in 0 .. MaxSteps + 1 /\ Len(pushed) = step

AllEvents(frames) == FlattenSeq([i \in 1 .. Len(frames) |-> Events(frames[i])])
Pushed(s) == FlattenSeq([i \in 1 .. Len(pushed[s]) |-> pushed[s][i].events])

\* What RawReader pushes for a step it finishes is every event of every frame that
\* was in the ring during that step, once, in order, and nothing of another step:
\* whatever frames are left out, marked as lost or daqd had dropped. It finishes
\* a step unless a frame given for it fills its slot.
EventsSurvive ==
  /\ \A s \in 1 .. step - 1 : Pushed(s) = AllEvents(given[s])
  /\ aborted => \E frame \in Range(given[step]) : Full(frame)

\* The frames of a step came in the order of their IDs.
InOrder(frames) == \A i \in 2 .. Len(frames) : frames[i - 1].id < frames[i].id

\* A buffer of RawReader holds whole frames, at least one and no more events
\* than a block, and starts at its first frame, from which its times count:
\* the groupers never see a frame in two pieces, of frames that came in order.
BuffersHoldWholeFrames ==
  \A s \in 1 .. step - 1 : \A i \in 1 .. Len(pushed[s]) :
    LET events == pushed[s][i].events
    IN /\ Len(events) \in 1 .. BlockSize
       /\ Head(events).id = pushed[s][i].first
       /\ i > 1 /\ InOrder(given[s]) =>
            Last(pushed[s][i - 1].events).id < Head(events).id

\* write_raw's report counts every frame ID from the first of the step to the
\* last once, when they came in order: frames that came, and frames that daqd
\* had no slot for.
EveryFrameCounted ==
  InOrder(Last(given)) =>
    stepAllFrames = IF stepFirstFrameID = -1 THEN 0 ELSE lastFrameID - stepFirstFrameID + 1

\* The index, the counts and the data file agree.
FilesAgree == TypeOK /\ EveryFrameCounted

============================================================================
