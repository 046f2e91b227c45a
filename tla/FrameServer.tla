---------------------------- MODULE FrameServer ----------------------------
(***************************************************************************)
(* The part of daqd that every kind of DAQ hardware shares                 *)
(* (TOFPET/src/daqd/FrameServer.cpp): a ring of QueueSize raw data frames  *)
(* in POSIX shared memory, its two pointers and the acquisition mode, all  *)
(* three kept under one mutex.                                             *)
(*                                                                         *)
(* Both pointers run over 0 .. 2*QueueSize-1, so that an empty ring (equal *)
(* pointers) and a full one (pointers QueueSize apart) can be told apart;  *)
(* a pointer's slot is the pointer modulo QueueSize.                       *)
(*                                                                         *)
(* A definition below is one critical section of the mutex, and hence one  *)
(* atomic step; the modules that extend this one say which thread takes it *)
(* and when.                                                               *)
(***************************************************************************)
EXTENDS Integers

CONSTANT QueueSize          \* MaxRawDataFrameQueueSize: 16*1024 in the code

ASSUME QueueSizeAssumption == QueueSize \in Nat /\ QueueSize >= 2

VARIABLES
  dataFrameWritePointer,    \* where the worker publishes next
  dataFrameReadPointer,     \* the oldest frame the client has not freed
  acquisitionMode           \* 0: frames are thrown away; 1: they are queued

ringVars == <<dataFrameWritePointer, dataFrameReadPointer, acquisitionMode>>

Pointer == 0 .. 2 * QueueSize - 1
SlotIndex == 0 .. QueueSize - 1

----------------------------------------------------------------------------
(* Pointer arithmetic. *)

\* ptr % (2*QueueSize) for the ptr < 4*QueueSize that are ever formed.
Wrap(ptr) == IF ptr < 2 * QueueSize THEN ptr ELSE ptr - 2 * QueueSize

\* ptr % QueueSize for a pointer.
Slot(ptr) == IF ptr < QueueSize THEN ptr ELSE ptr - QueueSize

\* Mutant of IsFull: the pointers are compared as if they never wrapped.
IsFullWithoutWrap(w, r) == w - r = QueueSize

\* isFull(): different pointers, same slot.
IsFull(w, r) == w # r /\ Slot(w) = Slot(r)

\* The number of frames from pointer r up to pointer w.
Distance(r, w) == IF r <= w THEN w - r ELSE w - r + 2 * QueueSize

\* p points at one of the frames from pointer r up to, not including, w.
InWindow(p, r, w) == Distance(r, p) < Distance(r, w)

----------------------------------------------------------------------------
(* The critical sections. *)

\* The constructor.
InitRing == /\ dataFrameWritePointer = 0
            /\ dataFrameReadPointer = 0
            /\ acquisitionMode = 0

\* Mutant of WipeBuffers: the read pointer is not reset.
WipeWritePointerOnly(mode) == /\ dataFrameWritePointer' = 0
                              /\ acquisitionMode' = mode
                              /\ UNCHANGED dataFrameReadPointer

\* Empty the ring and set the mode: twice in startAcquisition, once in
\* stopAcquisition.
WipeBuffers(mode) == /\ dataFrameWritePointer' = 0
                     /\ dataFrameReadPointer' = 0
                     /\ acquisitionMode' = mode

SetDataFrameReadPointer(ptr) ==
  /\ dataFrameReadPointer' = Wrap(ptr)
  /\ UNCHANGED <<dataFrameWritePointer, acquisitionMode>>

\* Mutant of PublishFrame: the pointer is not wrapped.
PublishWithoutWrap ==
  /\ dataFrameWritePointer' = dataFrameWritePointer + 1
  /\ UNCHANGED <<dataFrameReadPointer, acquisitionMode>>

\* The worker has a complete frame in the slot of the write pointer.
PublishFrame ==
  /\ dataFrameWritePointer' = Wrap(dataFrameWritePointer + 1)
  /\ UNCHANGED <<dataFrameReadPointer, acquisitionMode>>

============================================================================
