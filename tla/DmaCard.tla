------------------------------ MODULE DmaCard ------------------------------
(***************************************************************************)
(* The DAQ cards DtFlyP and PFP_KX7: a worker thread that lets the card    *)
(* fill NB buffers by DMA, and getWords, with which daqd's frame worker    *)
(* (the reader) takes the words out of them. The two pointers run modulo   *)
(* 2*NB; a transfer and a copy are made with no lock held, and the reader  *)
(* does not take the lock at all unless it finds the queue empty.          *)
(*                                                                         *)
(* The two classes are the same but for what is done with a transfer that  *)
(* ends after die is set, and for getWords_ looking at die first: see the  *)
(* uses of card.                                                           *)
(***************************************************************************)
EXTENDS Integers, Sequences, FiniteSetsExt

CONSTANTS
  NB,            \* the number of DMA buffers, 2 in the code
  BufferWords,   \* the words one transfer holds at most
  MaxCount,      \* bound: the words getWords is asked for
  MaxTransfers   \* bound: transfers that bring words; later ones time out

ASSUME CardAssumption ==
  /\ NB \in Nat \ {0} /\ BufferWords \in Nat \ {0}
  /\ MaxCount \in Nat \ {0} /\ MaxTransfers \in Nat

VARIABLES
  card,          \* which of the two classes this is
  dmaBufferWrPtr, dmaBufferRdPtr, die,
  buffers,       \* per buffer: wordBufferUsed, wordBufferStatus and the
                 \* number of the word before its first
  wpc,           \* the worker's place in runWorker
  rpc,           \* the reader's place in getWords
  want,          \* the words getWords still has to copy
  result,        \* the words getWords_ is copying
  out,           \* what getWords handed over: how many words, the last one,
                 \* and the failures (mod 2)
  control,       \* daqd: "running", "stopping", "dying", "joining", "stopped"
  nWords, nTransfers   \* what the card has transferred

pointers == <<dmaBufferWrPtr, dmaBufferRdPtr>>
readerVars == <<rpc, want, result, out>>
cardVars == <<nWords, nTransfers>>
vars == <<card, pointers, die, buffers, wpc, readerVars, control, cardVars>>

Pointer == 0 .. 2 * NB - 1
ENOWORDS == -2

\* Mutant of Advance: the pointer never wraps.
AdvanceUnwrapped(p) == p + 1

Advance(p) == (p + 1) % (2 * NB)

IsEmpty == dmaBufferWrPtr = dmaBufferRdPtr

\* Mutant of IsFull: no account of pointers that have wrapped.
IsFullUnwrapped == dmaBufferWrPtr = dmaBufferRdPtr + NB

IsFull == ~IsEmpty /\ dmaBufferWrPtr % NB = dmaBufferRdPtr % NB

Init ==
  /\ card \in {"DtFlyP", "PFP_KX7"}
  /\ dmaBufferWrPtr = 0 /\ dmaBufferRdPtr = 0 /\ die = FALSE
  /\ buffers \in [0 .. NB - 1 -> {[used |-> 0, status |-> 0, base |-> 0]}]
  /\ wpc = "loop" /\ rpc = "idle" /\ want = 0 /\ result = 0
  /\ out = [words |-> 0, last |-> 0, failures |-> 0]
  /\ control = "running"
  /\ nWords = 0 /\ nTransfers = 0

----------------------------------------------------------------------------
(* The worker *)

WakeReader == rpc' = IF rpc = "waiting" THEN "lock" ELSE rpc
WakeWorker == wpc' = IF wpc = "waiting" THEN "claim" ELSE wpc

WorkerLoop ==
  /\ wpc = "loop"
  /\ \/ ~die /\ wpc' = "claim" /\ UNCHANGED rpc
     \/ /\ die /\ wpc' = "exited"
        /\ IF card = "PFP_KX7" THEN WakeReader ELSE UNCHANGED rpc
  /\ UNCHANGED <<card, pointers, die, buffers, want, result, out, control, cardVars>>

\* Mutant of WorkerClaim: the wait for a free buffer does not look at die.
ClaimForever ==
  /\ wpc = "claim"
  /\ wpc' = IF IsFull THEN "waiting" ELSE "dma"
  /\ UNCHANGED <<card, pointers, die, buffers, readerVars, control, cardVars>>

\* Under the lock: wait while every buffer holds words.
WorkerClaim ==
  /\ wpc = "claim"
  /\ wpc' = IF ~die /\ IsFull THEN "waiting" ELSE "dma"
  /\ UNCHANGED <<card, pointers, die, buffers, readerVars, control, cardVars>>

Fill(b) == buffers' = [buffers EXCEPT ![dmaBufferWrPtr % NB] = b]

\* A transfer that fails, or brings nothing before the card times out. The
\* used count is one less than the status, so that it looks unread.
Failed == [used |-> ENOWORDS - 1, status |-> ENOWORDS, base |-> nWords]

\* The transfer ends. DtFlyP leaves the buffer as it was once die is set.
WorkerDma ==
  /\ wpc = "dma"
  /\ \/ /\ ~die /\ nTransfers < MaxTransfers
        /\ \E n \in 0 .. BufferWords :
             /\ Fill([used |-> 0, status |-> n, base |-> nWords])
             /\ nWords' = nWords + n
        /\ nTransfers' = nTransfers + 1
     \/ ~die /\ Fill(Failed) /\ UNCHANGED cardVars
     \/ /\ die
        /\ IF card = "PFP_KX7" THEN Fill(Failed) ELSE UNCHANGED buffers
        /\ UNCHANGED cardVars
  /\ wpc' = "publish"
  /\ UNCHANGED <<card, pointers, die, readerVars, control>>

\* Mutant of WorkerPublish: the reader is not signalled.
PublishQuietly ==
  /\ wpc = "publish"
  /\ dmaBufferWrPtr' = Advance(dmaBufferWrPtr)
  /\ wpc' = "loop"
  /\ UNCHANGED <<card, dmaBufferRdPtr, die, buffers, readerVars, control, cardVars>>

WorkerPublish ==
  /\ wpc = "publish"
  /\ dmaBufferWrPtr' = Advance(dmaBufferWrPtr)
  /\ WakeReader
  /\ wpc' = "loop"
  /\ UNCHANGED <<card, dmaBufferRdPtr, die, buffers, want, result, out, control, cardVars>>

Worker == WorkerLoop \/ WorkerClaim \/ WorkerDma \/ WorkerPublish

----------------------------------------------------------------------------
(* The reader *)

Front == buffers[dmaBufferRdPtr % NB]

ReturnError == rpc' = "idle" /\ want' = 0

\* The frame worker asks for some words, unless it has been told to stop.
GetWords ==
  /\ rpc = "idle"
  /\ \/ /\ control = "running" /\ rpc' = "get"
        /\ want' \in 1 .. MaxCount
     \/ control = "stopping" /\ rpc' = "joined" /\ UNCHANGED want
  /\ UNCHANGED <<card, pointers, die, buffers, wpc, result, out, control, cardVars>>

\* getWords_ looks at the pointers without the lock.
LookForWords ==
  /\ rpc = "get"
  /\ IF card = "PFP_KX7" /\ die
     THEN ReturnError
     ELSE rpc' = (IF IsEmpty THEN "lock" ELSE "look") /\ UNCHANGED want
  /\ UNCHANGED <<card, pointers, die, buffers, wpc, result, out, control, cardVars>>

\* Under the lock: wait while there is no buffer.
WaitForBuffer ==
  /\ rpc = "lock"
  /\ IF die THEN ReturnError
            ELSE rpc' = (IF IsEmpty THEN "waiting" ELSE "look") /\ UNCHANGED want
  /\ UNCHANGED <<card, pointers, die, buffers, wpc, result, out, control, cardVars>>

Consumed == Front.used >= Front.status

\* The buffer has been read: give it back and try again.
NextBuffer ==
  /\ rpc = "look" /\ Consumed
  /\ dmaBufferRdPtr' = Advance(dmaBufferRdPtr)
  /\ WakeWorker
  /\ rpc' = "get"
  /\ UNCHANGED <<card, dmaBufferWrPtr, die, buffers, want, result, out, control, cardVars>>

UseBuffer(used) == buffers' = [buffers EXCEPT ![dmaBufferRdPtr % NB].used = used]

HandOverFailure == out' = [out EXCEPT !.failures = 1 - out.failures]

\* Mutant of ReportFailure: the buffer is not marked as read.
ReportFailureAgain ==
  /\ rpc = "look" /\ ~Consumed /\ Front.status < 0
  /\ ReturnError /\ HandOverFailure
  /\ UNCHANGED <<card, pointers, die, buffers, wpc, result, control, cardVars>>

\* getWords drops the words it has already copied.
ReportFailure ==
  /\ rpc = "look" /\ ~Consumed /\ Front.status < 0
  /\ UseBuffer(Front.status)
  /\ ReturnError /\ HandOverFailure
  /\ UNCHANGED <<card, pointers, die, wpc, result, control, cardVars>>

StartCopy ==
  /\ rpc = "look" /\ ~Consumed /\ Front.status >= 0
  /\ result' = Min({want, Front.status - Front.used})
  /\ rpc' = "copy"
  /\ UNCHANGED <<card, pointers, die, buffers, wpc, want, out, control, cardVars>>

HandOver(b, n) ==
  out' = [out EXCEPT !.words = out.words + n,
                     !.last = IF n = 0 THEN out.last ELSE b.base + b.used + n]

EndCopy ==
  /\ rpc = "copy"
  /\ UseBuffer(Front.used + result) /\ HandOver(Front, result)
  /\ want' = want - result /\ result' = 0
  /\ rpc' = IF want = result THEN "idle" ELSE "get"
  /\ UNCHANGED <<card, pointers, die, wpc, control, cardVars>>

Reader == GetWords \/ LookForWords \/ WaitForBuffer \/ NextBuffer
          \/ ReportFailure \/ StartCopy \/ EndCopy

----------------------------------------------------------------------------
(* daqd shuts down: the frame worker is joined, then the card is deleted *)

StopReader ==
  /\ control = "running"
  /\ control' = "stopping"
  /\ UNCHANGED <<card, pointers, die, buffers, wpc, readerVars, cardVars>>

StopWorker ==
  /\ control = "stopping" /\ rpc = "joined"
  /\ die' = TRUE
  /\ control' = "dying"
  /\ UNCHANGED <<card, pointers, buffers, wpc, readerVars, cardVars>>

SignalWorker ==
  /\ control = "dying"
  /\ WakeWorker /\ WakeReader
  /\ control' = "joining"
  /\ UNCHANGED <<card, pointers, die, buffers, want, result, out, cardVars>>

JoinWorker ==
  /\ control = "joining" /\ wpc = "exited"
  /\ control' = "stopped"
  /\ UNCHANGED <<card, pointers, die, buffers, wpc, readerVars, cardVars>>

Main == StopReader \/ StopWorker \/ SignalWorker \/ JoinWorker

\* pthread_cond_wait may return for no reason.
SpuriousWakeup ==
  /\ \/ wpc = "waiting" /\ WakeWorker /\ UNCHANGED rpc
     \/ rpc = "waiting" /\ WakeReader /\ UNCHANGED wpc
  /\ UNCHANGED <<card, pointers, die, buffers, want, result, out, control, cardVars>>

Stopped == control = "stopped" /\ UNCHANGED vars

Next == Worker \/ Reader \/ Main \/ SpuriousWakeup \/ Stopped

Spec == Init /\ [][Next]_vars

\* The threads run, every transfer ends (the card times out), and a daemon
\* that has begun to shut down goes on; nobody has to begin.
FairSpec == /\ Spec
            /\ WF_vars(Worker) /\ WF_vars(Reader)
            /\ WF_vars(StopWorker \/ SignalWorker \/ JoinWorker)

----------------------------------------------------------------------------
(* Properties *)

Buffer == [used : ENOWORDS - 1 .. BufferWords, status : ENOWORDS .. BufferWords,
           base : 0 .. MaxTransfers * BufferWords]

TypeOK ==
  /\ dmaBufferWrPtr \in Pointer /\ dmaBufferRdPtr \in Pointer
  /\ die \in BOOLEAN
  /\ buffers \in [0 .. NB - 1 -> Buffer]
  /\ wpc \in {"loop", "claim", "waiting", "dma", "publish", "exited"}
  /\ rpc \in {"idle", "get", "lock", "waiting", "look", "copy", "joined"}
  /\ want \in 0 .. MaxCount /\ result \in 0 .. BufferWords
  /\ control \in {"running", "stopping", "dying", "joining", "stopped"}
  /\ nTransfers \in 0 .. MaxTransfers
  /\ nWords \in 0 .. nTransfers * BufferWords

\* How many buffers the reader has not given back yet.
Ready == (dmaBufferWrPtr - dmaBufferRdPtr) % (2 * NB)

\* While there is a reader, the card never writes to a buffer that holds
\* words it has not read, least of all the one it is copying from.
NoDmaUnderRead ==
  /\ rpc # "joined" /\ wpc \in {"dma", "publish"} => Ready < NB
  /\ rpc \in {"look", "copy"} => Ready > 0

\* The pointers stay in their range, and no buffer is read and written at once.
BuffersAreSafe == TypeOK /\ NoDmaUnderRead

\* The words come out of getWords once each and in order, and a failed
\* transfer is reported once, where it happened (WordStream).
ItemsOf(b) == IF b.used >= b.status THEN << >>
              ELSE IF b.status < 0 THEN <<ENOWORDS>>
              ELSE [i \in 1 .. b.status - b.used |-> b.base + b.used + i]

QueuedItems[k \in 0 .. 2 * NB] ==
  IF k = 0 THEN << >>
  ELSE QueuedItems[k - 1] \o ItemsOf(buffers[(dmaBufferRdPtr + k - 1) % NB])

\* What is in a buffer counts from the moment it is filled, until die.
Queue == IF die THEN << >>
         ELSE QueuedItems[IF wpc = "publish" THEN Ready + 1 ELSE Ready]

Abstract == INSTANCE WordStream WITH Failure <- ENOWORDS, queue <- Queue

DeliversWordStream == Abstract!Spec

\* getWords returns, with words or with an error, even when the card sends
\* nothing more: the frame worker can look at its own die.
GetWordsReturns == (rpc = "get") ~> (rpc = "idle")

\* Deleting the card joins its worker, wherever it is.
CardStops == (control = "dying") ~> (control = "stopped")

\* Neither of the two threads is left waiting for the other.
NobodyWaitsForever == GetWordsReturns /\ CardStops

============================================================================
