--------------------------- MODULE DmaCard_proofs ---------------------------
(***************************************************************************)
(* Proofs about DmaCard, for every number of buffers, of words in one and  *)
(* of transfers: the pointers and buffers have their types, no buffer is   *)
(* read and written at once, and the card implements WordStream.           *)
(***************************************************************************)
EXTENDS DmaCard, FiniteSetTheorems, SequenceTheorems, WellFoundedInduction, TLAPS

----------------------------------------------------------------------------
(* Arithmetic of the pointers *)

Distance(r, w) == (w - r) % (2 * NB)

\* The remainders the pointers need, without the operator.
LEMMA ModPositive ==
  ASSUME NEW n \in Nat \ {0}, NEW x \in 0 .. 2 * n - 1
  PROVE  x % n = IF x < n THEN x ELSE x - n
OBVIOUS

\* A difference of two pointers wraps at most once.
LEMMA ModNegative ==
  ASSUME NEW n \in Nat \ {0}, NEW x \in -(n - 1) .. n - 1
  PROVE  x % n = IF x < 0 THEN x + n ELSE x
OBVIOUS

\* Advance wraps a pointer that is at its end.
LEMMA AdvanceIs ==
  ASSUME NEW p \in Pointer
  PROVE  Advance(p) = IF p = 2 * NB - 1 THEN 0 ELSE p + 1
BY CardAssumption DEF Advance, Pointer

\* How far the write pointer is ahead of the read pointer.
LEMMA DistanceIs ==
  ASSUME NEW r \in Pointer, NEW w \in Pointer
  PROVE  Distance(r, w) = IF w < r THEN w - r + 2 * NB ELSE w - r
<1>1. 2 * NB \in Nat \ {0} /\ w - r \in -(2 * NB - 1) .. 2 * NB - 1
  BY CardAssumption DEF Pointer
<1>2. QED
  BY <1>1, ModNegative DEF Distance, Pointer

\* The buffer of a pointer is one of the NB buffers.
LEMMA SlotIs ==
  ASSUME NEW p \in Pointer
  PROVE  /\ p % NB = IF p < NB THEN p ELSE p - NB
         /\ p % NB \in 0 .. NB - 1
<1>1. NB \in Nat \ {0} /\ p \in 0 .. 2 * NB - 1
  BY CardAssumption DEF Pointer
<1>2. p % NB = IF p < NB THEN p ELSE p - NB
  BY <1>1, ModPositive
<1>3. QED
  BY <1>1, <1>2

\* The distance goes from 0 to twice the number of buffers, less one.
LEMMA DistanceType ==
  ASSUME NEW r \in Pointer, NEW w \in Pointer
  PROVE  Distance(r, w) \in Pointer /\ (Distance(r, w) = 0 <=> w = r)
BY DistanceIs, CardAssumption DEF Pointer

\* A buffer more when the worker publishes, and one less when the reader is done.
LEMMA AdvanceDistance ==
  ASSUME NEW r \in Pointer, NEW w \in Pointer
  PROVE  /\ Advance(r) \in Pointer
         /\ Distance(r, w) < 2 * NB - 1 => Distance(r, Advance(w)) = Distance(r, w) + 1
         /\ Distance(r, w) > 0 => Distance(Advance(r), w) = Distance(r, w) - 1
<1>1. Advance(r) \in Pointer /\ Advance(w) \in Pointer
  BY AdvanceIs, CardAssumption DEF Pointer
<1>2. Distance(r, w) = IF w < r THEN w - r + 2 * NB ELSE w - r
  BY DistanceIs
<1>3. Distance(r, w) < 2 * NB - 1 => Distance(r, Advance(w)) = Distance(r, w) + 1
  <2>1. Distance(r, Advance(w)) = IF Advance(w) < r THEN Advance(w) - r + 2 * NB ELSE Advance(w) - r
    BY <1>1, DistanceIs
  <2>2. QED
    BY <1>2, <2>1, AdvanceIs, CardAssumption DEF Pointer
<1>4. Distance(r, w) > 0 => Distance(Advance(r), w) = Distance(r, w) - 1
  <2>1. Distance(Advance(r), w) = IF w < Advance(r) THEN w - Advance(r) + 2 * NB ELSE w - Advance(r)
    BY <1>1, DistanceIs
  <2>2. QED
    BY <1>2, <2>1, AdvanceIs, CardAssumption DEF Pointer
<1>5. QED
  BY <1>1, <1>3, <1>4

\* Two pointers have the same buffer when they are the same or NB apart.
LEMMA SlotsApart ==
  ASSUME NEW r \in Pointer, NEW w \in Pointer
  PROVE  w % NB = r % NB <=> Distance(r, w) \in {0, NB}
<1>1. w % NB = IF w < NB THEN w ELSE w - NB
  BY SlotIs
<1>2. r % NB = IF r < NB THEN r ELSE r - NB
  BY SlotIs
<1>3. Distance(r, w) = IF w < r THEN w - r + 2 * NB ELSE w - r
  BY DistanceIs
<1>4. QED
  BY <1>1, <1>2, <1>3, CardAssumption DEF Pointer

----------------------------------------------------------------------------
(* The inductive invariant *)

\* The reader has left before die is set, and stays away.
ReaderGone == die \/ control \in {"dying", "joining", "stopped"} => rpc = "joined"

\* Until die is set, the worker has a buffer of its own to fill, and the reader
\* one of its own to read.
Room ==
  /\ ~die => Ready <= NB /\ (wpc \in {"dma", "publish"} => Ready < NB)
  /\ rpc \in {"look", "copy"} => Ready > 0

\* What is copied is in the buffer, and was asked for.
Copying ==
  /\ \A b \in 0 .. NB - 1 : buffers[b].status >= 0 => buffers[b].used >= 0
  /\ rpc = "copy" => /\ Front.used >= 0 /\ Front.used + result <= Front.status
                     /\ result <= want

\* getWords goes on only while it has words to copy, and copies some each time.
Wanting ==
  /\ rpc \notin {"idle", "joined"} => want >= 1
  /\ rpc = "copy" => result >= 1

CardInv == TypeOK /\ ReaderGone /\ Room /\ Copying /\ Wanting

\* What is ready for the reader is the distance between the pointers.
LEMMA ReadyIs == Ready = Distance(dmaBufferRdPtr, dmaBufferWrPtr)
BY DEF Ready, Distance

\* The Min of the community modules on two integers.
LEMMA MinOfTwo ==
  ASSUME NEW a \in Int, NEW b \in Int
  PROVE  Min({a, b}) = IF a <= b THEN a ELSE b
<1>1. \E x \in {a, b} : \A y \in {a, b} : x <= y
  OBVIOUS
<1>2. QED
  BY <1>1 DEF Min

\* IsFull() is false exactly when there is room.
LEMMA FullIsReady ==
  ASSUME TypeOK, Ready <= NB
  PROVE  IsFull <=> Ready = NB
<1>1. dmaBufferRdPtr \in Pointer /\ dmaBufferWrPtr \in Pointer
  BY DEF TypeOK
<1>2. dmaBufferWrPtr % NB = dmaBufferRdPtr % NB <=> Ready \in {0, NB}
  BY <1>1, SlotsApart, ReadyIs
<1>3. Ready = 0 <=> dmaBufferWrPtr = dmaBufferRdPtr
  BY <1>1, DistanceType, ReadyIs
<1>4. QED
  BY <1>2, <1>3, CardAssumption DEF IsFull, IsEmpty

\* The constructor sets the invariant up.
LEMMA InitCard == Init => CardInv
<1> SUFFICES ASSUME Init PROVE CardInv
  OBVIOUS
<1>1. 0 \in Pointer /\ 0 \in 0 .. MaxTransfers /\ 0 \in 0 .. 0 * BufferWords
  BY CardAssumption DEF Pointer
<1>2. 0 \in 0 .. MaxTransfers * BufferWords
  BY CardAssumption
<1>3. TypeOK
  <2>1. [used |-> 0, status |-> 0, base |-> 0] \in Buffer
    BY <1>2, CardAssumption DEF Buffer, ENOWORDS
  <2>2. buffers \in [0 .. NB - 1 -> Buffer]
    BY <2>1 DEF Init
  <2>3. nWords \in 0 .. nTransfers * BufferWords
    BY <1>1 DEF Init
  <2>4. want \in 0 .. MaxCount /\ result \in 0 .. BufferWords /\ nTransfers \in 0 .. MaxTransfers
    BY CardAssumption DEF Init
  <2>5. dmaBufferWrPtr \in Pointer /\ dmaBufferRdPtr \in Pointer
    BY <1>1 DEF Init
  <2>6. QED
    BY <2>2, <2>3, <2>4, <2>5 DEF Init, TypeOK
<1>4. Ready = 0
  BY <1>1, DistanceType, ReadyIs DEF Init
<1>5. ReaderGone /\ Room
  BY <1>4, CardAssumption DEF Init, ReaderGone, Room
<1>6. Copying /\ Wanting
  BY DEF Init, Copying, Wanting
<1>7. QED
  BY <1>3, <1>5, <1>6 DEF CardInv

----------------------------------------------------------------------------
(* The types *)

\* The product keeps the order.
LEMMA Monotonic ==
  ASSUME NEW a \in Nat, NEW b \in Nat, NEW c \in Nat, a <= b
  PROVE  a * c \in Nat /\ a * c <= b * c
OBVIOUS

\* One more transfer is BufferWords more words.
LEMMA PlusOne ==
  ASSUME NEW a \in Nat, NEW c \in Nat PROVE (a + 1) * c = a * c + c
OBVIOUS

\* The buffers of both threads exist.
LEMMA Slots ==
  ASSUME TypeOK
  PROVE  /\ dmaBufferRdPtr % NB \in 0 .. NB - 1 /\ dmaBufferWrPtr % NB \in 0 .. NB - 1
         /\ Front \in Buffer
BY SlotIs DEF TypeOK, Front

\* Filling a buffer keeps the type of the buffers.
LEMMA FillType ==
  ASSUME TypeOK, NEW b \in Buffer, Fill(b)
  PROVE  buffers' \in [0 .. NB - 1 -> Buffer]
BY DEF Fill, TypeOK

\* Counting words of a buffer as read keeps the type of the buffers.
LEMMA UseType ==
  ASSUME TypeOK, NEW n \in ENOWORDS - 1 .. BufferWords, UseBuffer(n)
  PROVE  buffers' \in [0 .. NB - 1 -> Buffer]
<1>1. [Front EXCEPT !.used = n] \in Buffer
  BY Slots DEF Buffer
<1>2. buffers' = [buffers EXCEPT ![dmaBufferRdPtr % NB] = [Front EXCEPT !.used = n]]
  BY DEF UseBuffer, Front
<1>3. QED
  BY <1>1, <1>2 DEF TypeOK

\* The words transferred are within the bound of the transfers.
LEMMA WordsCount ==
  ASSUME TypeOK PROVE nWords \in 0 .. MaxTransfers * BufferWords
<1>1. nTransfers * BufferWords <= MaxTransfers * BufferWords
  BY Monotonic, CardAssumption DEF TypeOK
<1>2. nTransfers * BufferWords \in Nat /\ MaxTransfers * BufferWords \in Nat
  BY Monotonic, CardAssumption DEF TypeOK
<1>3. QED
  BY <1>1, <1>2 DEF TypeOK

\* A transfer keeps the types, whatever it brings.
LEMMA DmaType ==
  ASSUME TypeOK, WorkerDma PROVE TypeOK'
<1> USE CardAssumption
<1>1. Failed \in Buffer
  BY WordsCount DEF Failed, Buffer, ENOWORDS
<1>2. CASE /\ nTransfers < MaxTransfers /\ nTransfers' = nTransfers + 1
           /\ \E n \in 0 .. BufferWords :
                /\ Fill([used |-> 0, status |-> n, base |-> nWords])
                /\ nWords' = nWords + n
  <2>1. PICK n \in 0 .. BufferWords :
          /\ Fill([used |-> 0, status |-> n, base |-> nWords])
          /\ nWords' = nWords + n
    BY <1>2
  <2>2. [used |-> 0, status |-> n, base |-> nWords] \in Buffer
    BY WordsCount DEF Buffer, ENOWORDS
  <2>3. buffers' \in [0 .. NB - 1 -> Buffer]
    BY <2>1, <2>2, FillType
  <2>4. nTransfers * BufferWords \in Nat /\ nTransfers' * BufferWords = nTransfers * BufferWords + BufferWords
    BY <1>2, PlusOne, Monotonic DEF TypeOK
  <2>5. nWords' \in 0 .. nTransfers' * BufferWords
    BY <2>1, <2>4 DEF TypeOK
  <2>6. QED
    BY <1>2, <2>3, <2>5 DEF TypeOK, WorkerDma, pointers, readerVars
<1>3. CASE Fill(Failed) /\ UNCHANGED cardVars
  BY <1>1, <1>3, FillType DEF TypeOK, WorkerDma, pointers, readerVars, cardVars
<1>4. CASE UNCHANGED buffers /\ UNCHANGED cardVars
  BY <1>4 DEF TypeOK, WorkerDma, pointers, readerVars, cardVars
<1>5. QED
  BY <1>2, <1>3, <1>4 DEF WorkerDma

\* Every step keeps the types.
LEMMA NextType == CardInv /\ [Next]_vars => TypeOK'
<1> SUFFICES ASSUME CardInv, [Next]_vars PROVE TypeOK'
  OBVIOUS
<1>0. /\ TypeOK /\ Front \in Buffer
      /\ Advance(dmaBufferRdPtr) \in Pointer /\ Advance(dmaBufferWrPtr) \in Pointer
  BY Slots, AdvanceDistance DEF CardInv, TypeOK
<1> USE CardAssumption
<1>1. CASE WorkerLoop
  BY <1>0, <1>1 DEF TypeOK, WorkerLoop, WakeReader, pointers, cardVars
<1>2. CASE WorkerClaim
  BY <1>0, <1>2 DEF TypeOK, WorkerClaim, pointers, readerVars, cardVars
<1>3. CASE WorkerDma
  BY <1>0, <1>3, DmaType
<1>4. CASE WorkerPublish
  BY <1>0, <1>4 DEF TypeOK, WorkerPublish, WakeReader, cardVars
<1>5. CASE GetWords \/ LookForWords \/ WaitForBuffer
  BY <1>0, <1>5 DEF TypeOK, GetWords, LookForWords, WaitForBuffer, ReturnError, pointers, cardVars
<1>6. CASE NextBuffer
  BY <1>0, <1>6 DEF TypeOK, NextBuffer, WakeWorker, cardVars
<1>7. CASE ReportFailure
  <2>1. Front.status \in ENOWORDS - 1 .. BufferWords
    BY <1>0 DEF Buffer, ENOWORDS
  <2>2. buffers' \in [0 .. NB - 1 -> Buffer]
    BY <1>0, <1>7, <2>1, UseType DEF ReportFailure
  <2>3. QED
    BY <1>0, <1>7, <2>2 DEF TypeOK, ReportFailure, ReturnError, pointers, cardVars
<1>8. CASE StartCopy
  <2>1. Front.status - Front.used \in Int /\ want \in Int
    BY <1>0 DEF Buffer, TypeOK, ENOWORDS
  <2>2. result' \in 0 .. BufferWords
    <3>1. Front.used >= 0 /\ Front.used < Front.status /\ Front.status <= BufferWords
      BY <1>0, <1>8, Slots DEF CardInv, Copying, StartCopy, Consumed, Front, Buffer, ENOWORDS
    <3>2. result' = IF want <= Front.status - Front.used THEN want ELSE Front.status - Front.used
      BY <1>8, <2>1, MinOfTwo DEF StartCopy
    <3>3. want \in 0 .. MaxCount /\ Front.used \in Int /\ Front.status \in Int
      BY <1>0 DEF TypeOK, Buffer, ENOWORDS
    <3>4. QED
      BY <3>1, <3>2, <3>3
  <2>3. QED
    BY <1>0, <1>8, <2>2 DEF TypeOK, StartCopy, pointers, cardVars
<1>9. CASE EndCopy
  <2>1. Front.used + result \in ENOWORDS - 1 .. BufferWords /\ want - result \in 0 .. MaxCount
    BY <1>0, <1>9 DEF CardInv, Copying, EndCopy, TypeOK, Buffer, ENOWORDS
  <2>2. buffers' \in [0 .. NB - 1 -> Buffer]
    BY <1>0, <1>9, <2>1, UseType DEF EndCopy
  <2>3. QED
    BY <1>0, <1>9, <2>1, <2>2 DEF TypeOK, EndCopy, pointers, cardVars
<1>10. CASE Main
  BY <1>0, <1>10 DEF TypeOK, Main, StopReader, StopWorker, SignalWorker, JoinWorker, WakeWorker, WakeReader,
    pointers, readerVars, cardVars
<1>11. CASE SpuriousWakeup
  BY <1>0, <1>11 DEF TypeOK, SpuriousWakeup, WakeWorker, WakeReader, pointers, cardVars
<1>12. CASE UNCHANGED vars
  BY <1>0, <1>12 DEF TypeOK, vars, pointers, readerVars, cardVars
<1>13. QED
  BY <1>1, <1>2, <1>3, <1>4, <1>5, <1>6, <1>7, <1>8, <1>9, <1>10, <1>11, <1>12
    DEF Next, Worker, Reader, Stopped

----------------------------------------------------------------------------
(* The rest of the invariant *)

\* daqd joins the frame worker before it sets die.
LEMMA NextGone == CardInv /\ [Next]_vars => ReaderGone'
<1> SUFFICES ASSUME CardInv, [Next]_vars PROVE ReaderGone'
  OBVIOUS
<1>0. ReaderGone
  BY DEF CardInv
<1>1. CASE Worker
  BY <1>0, <1>1 DEF ReaderGone, Worker, WorkerLoop, WorkerClaim, WorkerDma, WorkerPublish, WakeReader,
    pointers, readerVars, cardVars
<1>2. CASE Reader
  BY <1>0, <1>2 DEF ReaderGone, Reader, GetWords, LookForWords, WaitForBuffer, NextBuffer, ReportFailure,
    StartCopy, EndCopy, ReturnError
<1>3. CASE Main
  BY <1>0, <1>3 DEF ReaderGone, Main, StopReader, StopWorker, SignalWorker, JoinWorker, WakeReader, readerVars
<1>4. CASE SpuriousWakeup
  BY <1>0, <1>4 DEF ReaderGone, SpuriousWakeup, WakeReader
<1>5. CASE UNCHANGED vars
  BY <1>0, <1>5 DEF ReaderGone, vars, readerVars
<1>6. QED
  BY <1>1, <1>2, <1>3, <1>4, <1>5 DEF Next, Stopped

\* The worker claims a buffer only when the reader has given one back, and the
\* reader looks into one only when the worker has published it.
LEMMA NextRoom == CardInv /\ [Next]_vars => Room'
<1> SUFFICES ASSUME CardInv, [Next]_vars PROVE Room'
  OBVIOUS
<1> USE CardAssumption
<1>0. /\ TypeOK /\ ReaderGone /\ Room
      /\ dmaBufferRdPtr \in Pointer /\ dmaBufferWrPtr \in Pointer
      /\ Ready \in 0 .. 2 * NB - 1 /\ (Ready = 0 <=> IsEmpty)
  BY DistanceType, ReadyIs DEF CardInv, TypeOK, Pointer, IsEmpty
<1>1. ASSUME UNCHANGED pointers PROVE Ready' = Ready
  BY <1>1 DEF pointers, Ready
<1>2. CASE WorkerLoop
  BY <1>0, <1>1, <1>2 DEF Room, WorkerLoop, WakeReader
<1>3. CASE WorkerClaim
  <2>1. ~die /\ wpc' = "dma" => Ready < NB
    BY <1>0, <1>3, FullIsReady DEF Room, WorkerClaim
  <2>2. Ready' = Ready /\ UNCHANGED <<rpc, die>> /\ wpc' # "publish"
    BY <1>1, <1>3 DEF WorkerClaim, readerVars
  <2>3. QED
    BY <1>0, <2>1, <2>2 DEF Room
<1>4. CASE WorkerDma
  BY <1>0, <1>1, <1>4 DEF Room, WorkerDma, readerVars
<1>5. CASE WorkerPublish
  <2>1. Ready' = Distance(dmaBufferRdPtr, Advance(dmaBufferWrPtr))
    BY <1>5 DEF WorkerPublish, Ready, Distance
  <2>2. ~die => Ready' = Ready + 1
    <3>1. ~die => Ready < 2 * NB - 1
      BY <1>0, <1>5 DEF Room, WorkerPublish
    <3>2. Distance(dmaBufferRdPtr, dmaBufferWrPtr) < 2 * NB - 1
            => Ready' = Distance(dmaBufferRdPtr, dmaBufferWrPtr) + 1
      BY <1>0, <2>1, AdvanceDistance
    <3>3. QED
      BY <3>1, <3>2, ReadyIs
  <2>3. QED
    BY <1>0, <1>5, <2>2 DEF Room, ReaderGone, WorkerPublish, WakeReader
<1>6. CASE GetWords \/ LookForWords \/ WaitForBuffer
  BY <1>0, <1>1, <1>6 DEF Room, GetWords, LookForWords, WaitForBuffer, ReturnError
<1>7. CASE NextBuffer
  <2>1. Ready' = Distance(Advance(dmaBufferRdPtr), dmaBufferWrPtr)
    BY <1>7 DEF NextBuffer, Ready, Distance
  <2>2. Ready' = Ready - 1
    BY <1>0, <1>7, <2>1, AdvanceDistance, ReadyIs DEF Room, NextBuffer
  <2>3. QED
    BY <1>0, <1>7, <2>2 DEF Room, NextBuffer, WakeWorker
<1>8. CASE ReportFailure \/ StartCopy \/ EndCopy
  <2>1. Ready' = Ready /\ UNCHANGED <<wpc, die>>
    BY <1>1, <1>8 DEF ReportFailure, StartCopy, EndCopy
  <2>2. rpc \in {"look", "copy"}
    BY <1>8 DEF ReportFailure, StartCopy, EndCopy
  <2>3. QED
    BY <1>0, <2>1, <2>2 DEF Room
<1>9. CASE Main
  BY <1>0, <1>1, <1>9 DEF Room, Main, StopReader, StopWorker, SignalWorker, JoinWorker, WakeWorker, WakeReader,
    readerVars
<1>10. CASE SpuriousWakeup
  BY <1>0, <1>1, <1>10 DEF Room, SpuriousWakeup, WakeWorker, WakeReader
<1>11. CASE UNCHANGED vars
  BY <1>0, <1>1, <1>11 DEF Room, vars, readerVars
<1>12. QED
  BY <1>2, <1>3, <1>4, <1>5, <1>6, <1>7, <1>8, <1>9, <1>10, <1>11 DEF Next, Worker, Reader, Stopped

\* The worker leaves the buffer that is being copied alone.
LEMMA FillElsewhere ==
  ASSUME CardInv, rpc = "copy", wpc = "dma", NEW b, Fill(b), UNCHANGED dmaBufferRdPtr
  PROVE  Front' = Front
<1>1. dmaBufferWrPtr \in Pointer /\ dmaBufferRdPtr \in Pointer
  BY DEF CardInv, TypeOK
<1>2. Ready \notin {0, NB}
  <2>1. Ready \in Int
    BY <1>1, DistanceType, ReadyIs, CardAssumption DEF Pointer
  <2>2. Ready > 0 /\ Ready < NB
    BY DEF CardInv, Room, ReaderGone
  <2>3. QED
    BY <2>1, <2>2, CardAssumption
<1>3. dmaBufferWrPtr % NB # dmaBufferRdPtr % NB
  BY <1>1, <1>2, SlotsApart, ReadyIs
<1>4. QED
  BY <1>3, Slots DEF CardInv, TypeOK, Fill, Front

\* Words are copied out of a buffer whose counts do not change under the copy.
LEMMA NextCopying == CardInv /\ [Next]_vars => Copying'
<1> SUFFICES ASSUME CardInv, [Next]_vars PROVE Copying'
  OBVIOUS
<1>0. TypeOK /\ Copying /\ Front \in Buffer /\ dmaBufferRdPtr % NB \in 0 .. NB - 1
  BY Slots DEF CardInv
<1>1. ASSUME UNCHANGED <<buffers, dmaBufferRdPtr>> PROVE Front' = Front
  BY <1>1 DEF Front
<1>2. CASE WorkerLoop \/ WorkerClaim \/ WorkerPublish
  BY <1>0, <1>1, <1>2 DEF Copying, WorkerLoop, WorkerClaim, WorkerPublish, WakeReader, pointers, readerVars
<1>3. CASE WorkerDma
  <2>1. UNCHANGED <<dmaBufferRdPtr, rpc, want, result>>
    BY <1>3 DEF WorkerDma, pointers, readerVars
  <2>2. CASE UNCHANGED buffers
    BY <1>0, <1>1, <2>1, <2>2 DEF Copying
  <2>3. ASSUME NEW b, Fill(b), b.status >= 0 => b.used >= 0 PROVE Copying'
    <3>1. rpc = "copy" => Front' = Front
      BY <1>3, <2>1, <2>3, FillElsewhere DEF WorkerDma
    <3>2. ASSUME NEW i \in 0 .. NB - 1, buffers'[i].status >= 0 PROVE buffers'[i].used >= 0
      BY <1>0, <2>3, <3>2 DEF Copying, Fill, TypeOK
    <3>3. QED
      BY <1>0, <2>1, <3>1, <3>2 DEF Copying
  <2>4. CASE \E n \in 0 .. BufferWords : Fill([used |-> 0, status |-> n, base |-> nWords])
    BY <2>3, <2>4
  <2>5. CASE Fill(Failed)
    BY <2>3, <2>5 DEF Failed, ENOWORDS
  <2>6. QED
    BY <1>3, <2>2, <2>4, <2>5 DEF WorkerDma
<1>4. CASE GetWords \/ LookForWords \/ WaitForBuffer \/ NextBuffer
  BY <1>0, <1>4 DEF Copying, GetWords, LookForWords, WaitForBuffer, NextBuffer, ReturnError
<1>5. CASE ReportFailure
  <2>1. rpc' = "idle" /\ Front.status < 0 /\ UseBuffer(Front.status)
    BY <1>5 DEF ReportFailure, ReturnError
  <2>2. ASSUME NEW i \in 0 .. NB - 1, buffers'[i].status >= 0 PROVE buffers'[i].used >= 0
    <3>1. CASE i = dmaBufferRdPtr % NB
      <4>1. buffers'[i].status = Front.status
        BY <1>0, <2>1, <3>1 DEF UseBuffer, Front, TypeOK, Buffer
      <4>2. QED
        BY <1>0, <2>1, <2>2, <4>1 DEF Buffer, ENOWORDS
    <3>2. CASE i # dmaBufferRdPtr % NB
      BY <1>0, <2>1, <2>2, <3>2 DEF Copying, UseBuffer, TypeOK
    <3>3. QED
      BY <3>1, <3>2
  <2>3. QED
    BY <2>1, <2>2 DEF Copying
<1>6. CASE StartCopy
  <2>1. Front' = Front /\ UNCHANGED <<buffers, want>>
    BY <1>1, <1>6 DEF StartCopy, pointers
  <2>2. Front.status \in Int /\ Front.used \in Int /\ want \in Int
    BY <1>0 DEF Buffer, TypeOK, ENOWORDS
  <2>3. result' = IF want <= Front.status - Front.used THEN want ELSE Front.status - Front.used
    BY <1>6, <2>2, MinOfTwo DEF StartCopy
  <2>4. Front.used >= 0
    BY <1>0, <1>6 DEF Copying, StartCopy, Front
  <2>5. QED
    BY <1>0, <2>1, <2>2, <2>3, <2>4 DEF Copying
<1>7. CASE EndCopy
  <2>1. rpc' # "copy" /\ UseBuffer(Front.used + result)
    BY <1>7 DEF EndCopy
  <2>2. Front.used + result >= 0
    BY <1>0, <1>7 DEF Copying, EndCopy, TypeOK, Buffer, ENOWORDS
  <2>3. ASSUME NEW i \in 0 .. NB - 1, buffers'[i].status >= 0 PROVE buffers'[i].used >= 0
    BY <1>0, <2>1, <2>2, <2>3 DEF Copying, UseBuffer, TypeOK, Buffer
  <2>4. QED
    BY <2>1, <2>3 DEF Copying
<1>8. CASE Main \/ SpuriousWakeup \/ UNCHANGED vars
  BY <1>0, <1>1, <1>8 DEF Copying, Main, StopReader, StopWorker, SignalWorker, JoinWorker, SpuriousWakeup,
    WakeWorker, WakeReader, pointers, readerVars, vars
<1>9. QED
  BY <1>2, <1>3, <1>4, <1>5, <1>6, <1>7, <1>8 DEF Next, Worker, Reader, Stopped

\* Every call of getWords, and every copy, is for a word at least.
LEMMA NextWanting == CardInv /\ [Next]_vars => Wanting'
<1> SUFFICES ASSUME CardInv, [Next]_vars PROVE Wanting'
  OBVIOUS
<1>0. TypeOK /\ Wanting
  BY DEF CardInv
<1>1. CASE Worker
  BY <1>0, <1>1 DEF Wanting, Worker, WorkerLoop, WorkerClaim, WorkerDma, WorkerPublish, WakeReader, readerVars
<1>2. CASE GetWords \/ LookForWords \/ WaitForBuffer \/ NextBuffer \/ ReportFailure
  BY <1>0, <1>2 DEF Wanting, GetWords, LookForWords, WaitForBuffer, NextBuffer, ReportFailure, ReturnError
<1>3. CASE StartCopy
  <2>1. Front.status \in Int /\ Front.used \in Int /\ want \in Int
    BY <1>0, Slots DEF Buffer, TypeOK, ENOWORDS
  <2>2. result' = IF want <= Front.status - Front.used THEN want ELSE Front.status - Front.used
    BY <1>3, <2>1, MinOfTwo DEF StartCopy
  <2>3. Front.used < Front.status /\ want >= 1
    BY <1>0, <1>3, <2>1 DEF StartCopy, Consumed, Wanting
  <2>4. QED
    BY <1>0, <1>3, <2>1, <2>2, <2>3 DEF StartCopy, Wanting
<1>4. CASE EndCopy
  <2>1. want \in Int /\ result \in Int /\ result <= want
    BY <1>0, <1>4 DEF TypeOK, CardInv, Copying, EndCopy
  <2>2. QED
    BY <1>4, <2>1 DEF EndCopy, Wanting
<1>5. CASE Main \/ SpuriousWakeup \/ UNCHANGED vars
  BY <1>0, <1>5 DEF Wanting, Main, StopReader, StopWorker, SignalWorker, JoinWorker, SpuriousWakeup,
    WakeWorker, WakeReader, readerVars, vars
<1>6. QED
  BY <1>1, <1>2, <1>3, <1>4, <1>5 DEF Next, Reader, Stopped

----------------------------------------------------------------------------
(* The theorems *)

\* With any number of buffers, in every state: the pointers, the buffers and
\* the threads are related the way CardInv says.
THEOREM CardInvariant == Spec => []CardInv
<1>1. CardInv /\ [Next]_vars => CardInv'
  BY NextType, NextGone, NextRoom, NextCopying, NextWanting DEF CardInv
<1>2. QED
  BY InitCard, <1>1, PTL DEF Spec

\* The card never transfers into a buffer that getWords reads or has yet to
\* read, however the two threads interleave around the lock-free look.
THEOREM BuffersSafe == Spec => []BuffersAreSafe
<1>1. CardInv => BuffersAreSafe
  BY DEF CardInv, Room, ReaderGone, BuffersAreSafe, NoDmaUnderRead
<1>2. QED
  BY CardInvariant, <1>1, PTL

----------------------------------------------------------------------------
(* Sequences that are added one after the other *)

\* Every set of subsets of a finite set has a smallest one.
LEMMA SmallestOf ==
  ASSUME NEW S, IsFiniteSet(S), NEW T \in SUBSET (SUBSET S), T # {}
  PROVE  \E x \in T : \A y \in T : y \subseteq x => y = x
<1>1. IsWellFoundedOn(StrictSubsetOrdering(S), FiniteSubsetsOf(S))
  BY FS_StrictSubsetOrderingWellFounded
<1>2. T \subseteq FiniteSubsetsOf(S)
  BY FS_Subset DEF FiniteSubsetsOf
<1>3. \E x \in T : \A y \in T : ~(<<y, x>> \in StrictSubsetOrdering(S))
  BY <1>1, <1>2, WFMin
<1>4. QED
  BY <1>2, <1>3 DEF StrictSubsetOrdering, FiniteSubsetsOf

\* A set of numbers up to N has one that does not follow another of the set.
LEMMA LeastOf ==
  ASSUME NEW N \in Nat, NEW P \in SUBSET (0 .. N), P # {}
  PROVE  \E k \in P : k = 0 \/ k - 1 \notin P
<1> DEFINE T == {x \in SUBSET (0 .. N) : \E k \in P : x = 0 .. k}
<1>0. ASSUME NEW k \in P PROVE 0 .. k \in T
  OBVIOUS
<1>1. T # {} /\ T \in SUBSET (SUBSET (0 .. N))
  BY <1>0
<1>2. IsFiniteSet(0 .. N)
  BY FS_Interval
<1>3. \E x \in T : \A y \in T : y \subseteq x => y = x
  <2>1. PICK S : S = 0 .. N
    OBVIOUS
  <2> HIDE DEF T
  <2>2. IsFiniteSet(S) /\ T # {} /\ T \in SUBSET (SUBSET S)
    BY <1>1, <1>2, <2>1
  <2>3. QED
    BY <2>2, SmallestOf
<1>4. PICK k \in P : \A j \in P : 0 .. j \subseteq 0 .. k => 0 .. j = 0 .. k
  BY <1>0, <1>3
<1>5. ASSUME k # 0, k - 1 \in P PROVE FALSE
  <2>1. k \in 1 .. N
    BY <1>5
  <2>2. 0 .. (k - 1) \subseteq 0 .. k /\ 0 .. (k - 1) # 0 .. k
    BY <2>1
  <2>3. QED
    BY <1>4, <1>5, <2>2
<1>6. QED
  BY <1>5

\* The sums of the first sequences of s, up to the n-th.
Sums(S, s, n) ==
  {g \in [0 .. n -> Seq(S)] : g[0] = << >> /\ \A i \in 1 .. n : g[i] = g[i - 1] \o s[i]}

LEMMA SumsExist ==
  ASSUME NEW S, NEW N \in Nat, NEW s \in [1 .. N -> Seq(S)]
  PROVE  Sums(S, s, N) # {}
<1> DEFINE Bad == {n \in 0 .. N : Sums(S, s, n) = {}}
<1>1. Sums(S, s, 0) # {}
  <2>1. [i \in 0 .. 0 |-> << >>] \in Sums(S, s, 0)
    BY EmptySeq DEF Sums
  <2>2. QED
    BY <2>1
<1>2. ASSUME NEW n \in 1 .. N, NEW g \in Sums(S, s, n - 1) PROVE Sums(S, s, n) # {}
  <2>1. g \in [0 .. n - 1 -> Seq(S)] /\ g[0] = << >> /\ \A i \in 1 .. n - 1 : g[i] = g[i - 1] \o s[i]
    BY DEF Sums
  <2>2. PICK x \in Seq(S) : x = g[n - 1] \o s[n]
    <3>1. g[n - 1] \in Seq(S) /\ s[n] \in Seq(S)
      BY <2>1
    <3>2. QED
      BY <3>1, ConcatProperties
  <2> DEFINE h == [i \in 0 .. n |-> IF i = n THEN x ELSE g[i]]
  <2>3. h \in [0 .. n -> Seq(S)]
    BY <2>1, <2>2
  <2>4. h[0] = << >>
    BY <2>1
  <2>5. ASSUME NEW i \in 1 .. n PROVE h[i] = h[i - 1] \o s[i]
    <3>1. CASE i = n
      <4>1. h[i] = x /\ h[i - 1] = g[n - 1]
        BY <3>1
      <4>2. QED
        BY <2>2, <3>1, <4>1
    <3>2. CASE i # n
      <4>1. i \in 1 .. n - 1 /\ h[i] = g[i] /\ h[i - 1] = g[i - 1]
        BY <3>2
      <4>2. QED
        BY <2>1, <4>1
    <3>3. QED
      BY <3>1, <3>2
  <2>6. h \in Sums(S, s, n)
    <3> HIDE DEF h
    <3> QED BY <2>3, <2>4, <2>5 DEF Sums
  <2>7. QED
    BY <2>6
<1>3. ASSUME Sums(S, s, N) = {} PROVE FALSE
  <2>1. N \in Bad
    BY <1>3
  <2>2. PICK k \in Bad : k = 0 \/ k - 1 \notin Bad
    BY <2>1, LeastOf
  <2>3. k \in 0 .. N /\ Sums(S, s, k) = {}
    BY <2>2
  <2>4. k # 0
    BY <1>1, <2>3
  <2>5. k \in 1 .. N /\ k - 1 \in 0 .. N
    BY <2>3, <2>4
  <2>6. Sums(S, s, k - 1) # {}
    BY <2>2, <2>4, <2>5
  <2>7. QED
    BY <1>2, <2>3, <2>5, <2>6
<1>4. QED
  BY <1>3

\* Sums of the same sequences are the same.
LEMMA SumsAgree ==
  ASSUME NEW S, NEW s, NEW t, NEW n \in Nat, NEW g \in Sums(S, s, n), NEW h \in Sums(S, t, n),
         NEW m \in 0 .. n, \A i \in 1 .. m : s[i] = t[i]
  PROVE  g[m] = h[m]
<1> DEFINE Bad == {i \in 0 .. m : g[i] # h[i]}
<1>1. SUFFICES ASSUME g[m] # h[m] PROVE FALSE
  OBVIOUS
<1>2. PICK k \in Bad : k = 0 \/ k - 1 \notin Bad
  <2>1. m \in Bad /\ m \in Nat
    BY <1>1
  <2>2. QED
    BY <2>1, LeastOf
<1>3. k \in 0 .. m /\ g[k] # h[k]
  BY <1>2
<1>4. k # 0
  BY <1>3 DEF Sums
<1>5. k \in 1 .. m /\ k \in 1 .. n /\ k - 1 \in 0 .. m
  BY <1>3, <1>4
<1>6. g[k - 1] = h[k - 1]
  BY <1>2, <1>4, <1>5
<1>7. g[k] = g[k - 1] \o s[k] /\ h[k] = h[k - 1] \o t[k]
  BY <1>5 DEF Sums
<1>8. QED
  BY <1>3, <1>5, <1>6, <1>7

\* One sequence after the other. The provers treat it as a function of which
\* they know only what the next two lemmas say.
Join(a, b) == a \o b

LEMMA JoinAssociative ==
  ASSUME NEW S, NEW a \in Seq(S), NEW b \in Seq(S), NEW c \in Seq(S)
  PROVE  Join(Join(a, b), c) = Join(a, Join(b, c))
BY ConcatAssociative DEF Join

LEMMA JoinEmpty ==
  ASSUME NEW S, NEW a \in Seq(S)
  PROVE  Join(<< >>, a) = a /\ Join(a, << >>) = a
BY ConcatEmptySeq DEF Join

\* n sequences, and the same but for the first of m of them.
Listings(S, n) == [1 .. n -> Seq(S)]
WithoutFirst(s, t, m) == \A i \in 1 .. m - 1 : t[i] = s[i + 1]

\* A sum is its first sequence and the sum of the others.
LEMMA SumsFront ==
  ASSUME NEW S, NEW n \in Nat, NEW s \in Listings(S, n), NEW t \in Listings(S, n),
         NEW g \in Sums(S, s, n), NEW h \in Sums(S, t, n),
         NEW m \in 1 .. n, WithoutFirst(s, t, m)
  PROVE  g[m] = Join(s[1], h[m - 1])
<1> USE DEF Listings, WithoutFirst
<1> DEFINE Bad == {i \in 0 .. m - 1 : g[i + 1] # Join(s[1], h[i])}
<1>1. SUFFICES ASSUME g[m] # Join(s[1], h[m - 1]) PROVE FALSE
  OBVIOUS
<1>2. PICK k \in Bad : k = 0 \/ k - 1 \notin Bad
  <2>1. m - 1 \in 0 .. m - 1 /\ m - 1 \in Nat /\ (m - 1) + 1 = m
    OBVIOUS
  <2>2. m - 1 \in Bad
    BY <1>1, <2>1
  <2>3. QED
    BY <2>1, <2>2, LeastOf
<1>3. k \in 0 .. m - 1 /\ g[k + 1] # Join(s[1], h[k])
  BY <1>2
<1>4. s[1] \in Seq(S) /\ g[0] = << >> /\ h[0] = << >> /\ g[1] = Join(g[0], s[1])
  <2>1. 1 \in 1 .. n /\ 1 - 1 = 0
    OBVIOUS
  <2>2. g[1] = Join(g[1 - 1], s[1])
    BY <2>1 DEF Sums, Join
  <2>3. QED
    BY <2>1, <2>2 DEF Sums
<1>5. k # 0
  <2>1. Join(<< >>, s[1]) = s[1] /\ Join(s[1], << >>) = s[1]
    BY <1>4, JoinEmpty
  <2>2. g[1] = Join(s[1], h[0])
    BY <1>4, <2>1
  <2>3. 0 + 1 = 1
    OBVIOUS
  <2>4. QED
    BY <1>3, <2>2, <2>3
<1>6. k \in 1 .. m - 1 /\ k \in 1 .. n /\ k + 1 \in 1 .. n /\ k - 1 \in 0 .. m - 1 /\ k - 1 \in 0 .. n
  BY <1>3, <1>5
<1>7. g[k] = Join(s[1], h[k - 1])
  <2>1. k - 1 \notin Bad
    BY <1>2, <1>5
  <2>2. (k - 1) + 1 = k
    BY <1>6
  <2>3. QED
    BY <1>6, <2>1, <2>2
<1>8. g[k + 1] = Join(g[k], s[k + 1]) /\ h[k] = Join(h[k - 1], t[k]) /\ t[k] = s[k + 1]
  <2>1. g[k + 1] = Join(g[(k + 1) - 1], s[k + 1])
    BY <1>6 DEF Sums, Join
  <2>2. (k + 1) - 1 = k
    BY <1>6
  <2>3. h[k] = Join(h[k - 1], t[k])
    BY <1>6 DEF Sums, Join
  <2>4. QED
    BY <1>6, <2>1, <2>2, <2>3
<1>9. h[k - 1] \in Seq(S) /\ t[k] \in Seq(S)
  BY <1>6 DEF Sums
<1>10. Join(Join(s[1], h[k - 1]), t[k]) = Join(s[1], Join(h[k - 1], t[k]))
  BY <1>4, <1>9, JoinAssociative
<1>11. QED
  BY <1>3, <1>7, <1>8, <1>10

----------------------------------------------------------------------------
(* The queue of WordStream is what the buffers hold *)

\* The contents of the buffers bs from the pointer r on.
Contents(bs, r) == [k \in 1 .. 2 * NB |-> ItemsOf(bs[(r + k - 1) % NB])]

\* QueuedItems, for any buffers and any pointer.
QueueOf(bs, r) ==
  CHOOSE f : f = [k \in 0 .. 2 * NB |->
                    IF k = 0 THEN << >> ELSE f[k - 1] \o ItemsOf(bs[(r + k - 1) % NB])]

Buffers == [0 .. NB - 1 -> Buffer]

LEMMA ItemsType ==
  ASSUME NEW b \in Buffer
  PROVE  ItemsOf(b) \in Seq(Int)
<1>1. b.used \in Int /\ b.status \in Int /\ b.base \in Int
  BY CardAssumption DEF Buffer, ENOWORDS
<1>2. CASE b.used >= b.status
  BY <1>2 DEF ItemsOf
<1>3. CASE ~(b.used >= b.status) /\ b.status < 0
  BY <1>3 DEF ItemsOf, ENOWORDS
<1>4. CASE ~(b.used >= b.status) /\ ~(b.status < 0)
  <2>1. b.status - b.used \in Nat
    BY <1>1, <1>4
  <2>2. [i \in 1 .. b.status - b.used |-> b.base + b.used + i] \in Seq(Int)
    BY <1>1, <2>1
  <2>3. QED
    BY <1>4, <2>2 DEF ItemsOf
<1>5. QED
  BY <1>2, <1>3, <1>4

\* A place k after a pointer is in one of the NB buffers.
LEMMA ModRange ==
  ASSUME NEW x \in Int
  PROVE  x % NB \in 0 .. NB - 1
BY CardAssumption

LEMMA ContentsType ==
  ASSUME NEW bs \in Buffers, NEW r \in Pointer
  PROVE  Contents(bs, r) \in [1 .. 2 * NB -> Seq(Int)]
<1>1. ASSUME NEW k \in 1 .. 2 * NB PROVE ItemsOf(bs[(r + k - 1) % NB]) \in Seq(Int)
  <2>1. (r + k - 1) % NB \in 0 .. NB - 1
    BY ModRange, CardAssumption DEF Pointer
  <2>2. bs[(r + k - 1) % NB] \in Buffer
    BY <2>1 DEF Buffers
  <2>3. QED
    BY <2>2, ItemsType
<1>2. QED
  BY <1>1 DEF Contents

\* The queue is the sum of the contents.
LEMMA QueueIsSum ==
  ASSUME NEW bs \in Buffers, NEW r \in Pointer
  PROVE  QueueOf(bs, r) \in Sums(Int, Contents(bs, r), 2 * NB)
<1> DEFINE R(f) == f = [k \in 0 .. 2 * NB |->
                          IF k = 0 THEN << >> ELSE f[k - 1] \o ItemsOf(bs[(r + k - 1) % NB])]
           f == CHOOSE f : R(f)
<1>0. 2 * NB \in Nat
  BY CardAssumption
<1>1. PICK g \in Sums(Int, Contents(bs, r), 2 * NB) : TRUE
  BY <1>0, ContentsType, SumsExist
<1>2. /\ g \in [0 .. 2 * NB -> Seq(Int)] /\ g[0] = << >>
      /\ \A k \in 1 .. 2 * NB : g[k] = g[k - 1] \o Contents(bs, r)[k]
  BY <1>1 DEF Sums
<1>3. \A k \in 1 .. 2 * NB : Contents(bs, r)[k] = ItemsOf(bs[(r + k - 1) % NB])
  BY DEF Contents
<1>4. R(g)
  <2>1. ASSUME NEW k \in 0 .. 2 * NB
        PROVE  g[k] = IF k = 0 THEN << >> ELSE g[k - 1] \o ItemsOf(bs[(r + k - 1) % NB])
    <3>1. CASE k = 0
      BY <1>2, <3>1
    <3>2. CASE k # 0
      <4>1. k \in 1 .. 2 * NB
        BY <1>0, <3>2
      <4>2. QED
        BY <1>2, <1>3, <3>2, <4>1, Zenon
    <3>3. QED
      BY <3>1, <3>2
  <2>2. QED
    BY <1>2, <2>1, Zenon
<1>5. R(f)
  BY <1>4, Zenon
<1>6. QueueOf(bs, r) = f
  BY DEF QueueOf
<1> HIDE DEF f
<1>7. DOMAIN f = 0 .. 2 * NB /\ f[0] = << >>
  BY <1>0, <1>5
<1>8. ASSUME NEW k \in 1 .. 2 * NB PROVE f[k] = f[k - 1] \o Contents(bs, r)[k]
  <2>1. k \in 0 .. 2 * NB /\ k # 0
    BY <1>0
  <2>2. f[k] = f[k - 1] \o ItemsOf(bs[(r + k - 1) % NB])
    BY <1>5, <2>1, Zenon
  <2>3. QED
    BY <1>3, <2>2, Zenon
<1>9. \A k \in 0 .. 2 * NB : f[k] = g[k]
  <2> DEFINE Bad == {k \in 0 .. 2 * NB : f[k] # g[k]}
  <2>1. SUFFICES ASSUME Bad # {} PROVE FALSE
    OBVIOUS
  <2>2. PICK k \in Bad : k = 0 \/ k - 1 \notin Bad
    BY <1>0, <2>1, LeastOf
  <2>3. k \in 0 .. 2 * NB /\ f[k] # g[k]
    BY <2>2
  <2>4. k # 0
    BY <1>2, <1>7, <2>3
  <2>5. k \in 1 .. 2 * NB /\ k - 1 \in 0 .. 2 * NB
    BY <1>0, <2>3, <2>4
  <2>6. f[k - 1] = g[k - 1]
    BY <2>2, <2>4, <2>5
  <2>7. QED
    BY <1>2, <1>8, <2>3, <2>5, <2>6, Zenon
<1>10. f = g
  <2>1. f = [k \in 0 .. 2 * NB |-> f[k]]
    BY <1>5, <1>7, Zenon
  <2>2. QED
    BY <1>2, <1>9, <2>1
<1>11. QED
  BY <1>1, <1>6, <1>10

LEMMA QueueType ==
  ASSUME NEW bs \in Buffers, NEW r \in Pointer, NEW k \in 0 .. 2 * NB
  PROVE  QueueOf(bs, r)[k] \in Seq(Int) /\ QueueOf(bs, r)[0] = << >>
BY QueueIsSum DEF Sums

\* The buffer that is k places after a pointer.
LEMMA PlaceIs ==
  ASSUME NEW r \in Pointer, NEW k \in 0 .. NB
  PROVE  (r + k) % NB = IF r + k < NB THEN r + k ELSE IF r + k < 2 * NB THEN r + k - NB ELSE r + k - 2 * NB
BY CardAssumption DEF Pointer

\* The buffer of a pointer is changed to b.
Changed(bs, cs, p, b) == cs = [bs EXCEPT ![p % NB] = b]

\* A buffer filled at the write pointer is the end of the queue.
LEMMA FilledAtEnd ==
  ASSUME NEW bs \in Buffers, NEW cs \in Buffers, NEW r \in Pointer, NEW w \in Pointer, NEW b \in Buffer,
         NEW d \in 0 .. NB - 1, d = Distance(r, w), Changed(bs, cs, w, b)
  PROVE  QueueOf(cs, r)[d + 1] = Join(QueueOf(bs, r)[d], ItemsOf(b))
<1> USE DEF Changed, Join
<1>0. NB \in Nat \ {0} /\ d \in Nat /\ d < NB /\ d \in 0 .. 2 * NB /\ d + 1 \in 1 .. 2 * NB
  BY CardAssumption
<1>1. w % NB = (r + d) % NB /\ w % NB \in 0 .. NB - 1
  <2>1. d = IF w < r THEN w - r + 2 * NB ELSE w - r
    BY DistanceIs
  <2>2. (r + d) % NB = IF r + d < NB THEN r + d ELSE IF r + d < 2 * NB THEN r + d - NB ELSE r + d - 2 * NB
    BY <1>0, PlaceIs
  <2>3. (w % NB = IF w < NB THEN w ELSE w - NB) /\ w % NB \in 0 .. NB - 1
    BY SlotIs
  <2>4. QED
    BY <1>0, <2>1, <2>2, <2>3 DEF Pointer
<1>2. ASSUME NEW k \in 1 .. d PROVE Contents(cs, r)[k] = Contents(bs, r)[k]
  <2>1. (r + (k - 1)) % NB # (r + d) % NB /\ (r + (k - 1)) % NB \in 0 .. NB - 1
    <3>1. k - 1 \in 0 .. NB /\ d \in 0 .. NB
      BY <1>0
    <3>2. /\ (r + (k - 1)) % NB = IF r + (k - 1) < NB THEN r + (k - 1)
                                  ELSE IF r + (k - 1) < 2 * NB THEN r + (k - 1) - NB ELSE r + (k - 1) - 2 * NB
          /\ (r + d) % NB = IF r + d < NB THEN r + d ELSE IF r + d < 2 * NB THEN r + d - NB ELSE r + d - 2 * NB
      BY <3>1, PlaceIs
    <3>3. QED
      BY <1>0, <3>1, <3>2 DEF Pointer
  <2>2. r + (k - 1) = r + k - 1 /\ k \in 1 .. 2 * NB
    BY <1>0 DEF Pointer
  <2>3. cs[(r + k - 1) % NB] = bs[(r + k - 1) % NB]
    BY <1>1, <2>1, <2>2 DEF Buffers
  <2>4. QED
    BY <2>2, <2>3 DEF Contents
<1>3. Contents(cs, r)[d + 1] = ItemsOf(b)
  <2>1. r + (d + 1) - 1 = r + d
    BY <1>0 DEF Pointer
  <2>2. cs[(r + (d + 1) - 1) % NB] = b
    BY <1>1, <2>1 DEF Buffers
  <2>3. QED
    BY <1>0, <2>2 DEF Contents
<1>4. QueueOf(cs, r)[d + 1] = QueueOf(cs, r)[d] \o Contents(cs, r)[d + 1]
  <2>1. QueueOf(cs, r)[d + 1] = QueueOf(cs, r)[(d + 1) - 1] \o Contents(cs, r)[d + 1]
    BY <1>0, QueueIsSum DEF Sums
  <2>2. (d + 1) - 1 = d
    BY <1>0
  <2>3. QED
    BY <2>1, <2>2
<1>5. QueueOf(cs, r)[d] = QueueOf(bs, r)[d]
  <2>1. 2 * NB \in Nat
    BY <1>0
  <2>2. QueueOf(cs, r) \in Sums(Int, Contents(cs, r), 2 * NB) /\ QueueOf(bs, r) \in Sums(Int, Contents(bs, r), 2 * NB)
    BY QueueIsSum
  <2>3. PICK n, g, h, s, t :
          /\ n = 2 * NB /\ g = QueueOf(cs, r) /\ h = QueueOf(bs, r)
          /\ s = Contents(cs, r) /\ t = Contents(bs, r)
    OBVIOUS
  <2>4. n \in Nat /\ g \in Sums(Int, s, n) /\ h \in Sums(Int, t, n) /\ d \in 0 .. n /\ \A i \in 1 .. d : s[i] = t[i]
    BY <1>0, <1>2, <2>1, <2>2, <2>3
  <2>5. g[d] = h[d]
    BY <2>4, SumsAgree
  <2>6. QED
    BY <2>3, <2>5
<1>6. QED
  BY <1>3, <1>4, <1>5

\* The next buffer: what is left of the queue when its first buffer is empty.
LEMMA EmptyAtFront ==
  ASSUME NEW bs \in Buffers, NEW r \in Pointer, NEW m \in 1 .. NB, ItemsOf(bs[r % NB]) = << >>
  PROVE  QueueOf(bs, Advance(r))[m - 1] = QueueOf(bs, r)[m]
<1>0. NB \in Nat \ {0} /\ 2 * NB \in Nat \ {0} /\ m \in 1 .. 2 * NB /\ m - 1 \in 0 .. 2 * NB /\ Advance(r) \in Pointer
  BY CardAssumption, AdvanceDistance
<1>1. ASSUME NEW i \in 1 .. m - 1 PROVE Contents(bs, Advance(r))[i] = Contents(bs, r)[i + 1]
  <2>1. (Advance(r) + (i - 1)) % NB = (r + i) % NB
    <3>1. i - 1 \in 0 .. NB /\ i \in 0 .. NB
      BY <1>0
    <3>2. /\ (Advance(r) + (i - 1)) % NB =
               IF Advance(r) + (i - 1) < NB THEN Advance(r) + (i - 1)
               ELSE IF Advance(r) + (i - 1) < 2 * NB THEN Advance(r) + (i - 1) - NB
               ELSE Advance(r) + (i - 1) - 2 * NB
          /\ (r + i) % NB = IF r + i < NB THEN r + i ELSE IF r + i < 2 * NB THEN r + i - NB ELSE r + i - 2 * NB
      BY <1>0, <3>1, PlaceIs
    <3>3. Advance(r) = IF r = 2 * NB - 1 THEN 0 ELSE r + 1
      BY AdvanceIs
    <3>4. QED
      BY <1>0, <3>1, <3>2, <3>3 DEF Pointer
  <2>2. /\ Advance(r) + (i - 1) = Advance(r) + i - 1 /\ r + i = r + (i + 1) - 1
        /\ i \in 1 .. 2 * NB /\ i + 1 \in 1 .. 2 * NB
    BY <1>0 DEF Pointer
  <2>3. QED
    BY <2>1, <2>2 DEF Contents
<1>2. QueueOf(bs, r)[m] = Join(Contents(bs, r)[1], QueueOf(bs, Advance(r))[m - 1])
  <2>1. /\ QueueOf(bs, r) \in Sums(Int, Contents(bs, r), 2 * NB)
        /\ QueueOf(bs, Advance(r)) \in Sums(Int, Contents(bs, Advance(r)), 2 * NB)
        /\ Contents(bs, r) \in [1 .. 2 * NB -> Seq(Int)] /\ Contents(bs, Advance(r)) \in [1 .. 2 * NB -> Seq(Int)]
    BY <1>0, QueueIsSum, ContentsType
  <2>2. PICK n, g, h, s, t :
          /\ n = 2 * NB /\ g = QueueOf(bs, r) /\ h = QueueOf(bs, Advance(r))
          /\ s = Contents(bs, r) /\ t = Contents(bs, Advance(r))
    OBVIOUS
  <2>3. /\ n \in Nat /\ s \in Listings(Int, n) /\ t \in Listings(Int, n)
        /\ g \in Sums(Int, s, n) /\ h \in Sums(Int, t, n)
        /\ m \in 1 .. n /\ WithoutFirst(s, t, m)
    BY <1>0, <1>1, <2>1, <2>2 DEF Listings, WithoutFirst
  <2>4. g[m] = Join(s[1], h[m - 1])
    BY <2>3, SumsFront
  <2>5. QED
    BY <2>2, <2>4
<1>3. Contents(bs, r)[1] = << >>
  <2>1. r + 1 - 1 = r /\ 1 \in 1 .. 2 * NB
    BY <1>0 DEF Pointer
  <2>2. QED
    BY <2>1 DEF Contents
<1>4. Join(<< >>, QueueOf(bs, Advance(r))[m - 1]) = QueueOf(bs, Advance(r))[m - 1]
  <2>1. QueueOf(bs, Advance(r))[m - 1] \in Seq(Int)
    BY <1>0, QueueType
  <2>2. QED
    BY <2>1, JoinEmpty
<1>5. QED
  BY <1>2, <1>3, <1>4

\* Of the first buffer, only what is in it counts; the rest of the queue is the same.
LEMMA FrontOfQueue ==
  ASSUME NEW bs \in Buffers, NEW cs \in Buffers, NEW r \in Pointer, NEW m \in 1 .. NB, NEW b \in Buffer,
         Changed(bs, cs, r, b)
  PROVE  \E rest \in Seq(Int) :
           /\ QueueOf(bs, r)[m] = Join(ItemsOf(bs[r % NB]), rest)
           /\ QueueOf(cs, r)[m] = Join(ItemsOf(b), rest)
<1> USE DEF Changed
<1>0. NB \in Nat \ {0} /\ 2 * NB \in Nat \ {0} /\ 2 * NB \in Nat /\ m \in 1 .. 2 * NB /\ m - 1 \in 0 .. 2 * NB
  BY CardAssumption
<1> DEFINE others == [k \in 1 .. 2 * NB |-> IF k < m THEN Contents(bs, r)[k + 1] ELSE << >>]
<1>1. Contents(bs, r) \in [1 .. 2 * NB -> Seq(Int)] /\ Contents(cs, r) \in [1 .. 2 * NB -> Seq(Int)]
  BY ContentsType
<1>2. others \in [1 .. 2 * NB -> Seq(Int)]
  <2>1. ASSUME NEW k \in 1 .. 2 * NB, k < m PROVE Contents(bs, r)[k + 1] \in Seq(Int)
    <3>1. k + 1 \in 1 .. 2 * NB
      BY <1>0, <2>1
    <3>2. QED
      BY <1>1, <3>1
  <2>2. << >> \in Seq(Int)
    BY EmptySeq
  <2>3. QED
    BY <2>1, <2>2
<1>3. \A i \in 1 .. m - 1 : others[i] = Contents(bs, r)[i + 1]
  BY <1>0
<1>4. \A i \in 1 .. m - 1 : others[i] = Contents(cs, r)[i + 1]
  <2>1. ASSUME NEW i \in 1 .. m - 1 PROVE Contents(cs, r)[i + 1] = Contents(bs, r)[i + 1]
    <3>1. (r + i) % NB # r % NB /\ (r + i) % NB \in 0 .. NB - 1 /\ r % NB \in 0 .. NB - 1
      <4>1. i \in 0 .. NB /\ i # 0 /\ i < NB
        BY <1>0
      <4>2. /\ (r + i) % NB = IF r + i < NB THEN r + i ELSE IF r + i < 2 * NB THEN r + i - NB ELSE r + i - 2 * NB
            /\ r % NB = IF r < NB THEN r ELSE r - NB
        BY <4>1, PlaceIs, SlotIs
      <4>3. QED
        BY <1>0, <4>1, <4>2 DEF Pointer
    <3>2. r + i = r + (i + 1) - 1 /\ i + 1 \in 1 .. 2 * NB
      BY <1>0 DEF Pointer
    <3>3. cs[(r + i) % NB] = bs[(r + i) % NB]
      BY <3>1 DEF Buffers
    <3>4. QED
      BY <3>2, <3>3 DEF Contents
  <2>2. QED
    BY <1>3, <2>1
<1>5. PICK h \in Sums(Int, others, 2 * NB) : TRUE
  BY <1>0, <1>2, SumsExist
<1> HIDE DEF others
<1>6. h[m - 1] \in Seq(Int)
  BY <1>0, <1>5 DEF Sums
<1>7. QueueOf(bs, r)[m] = Join(Contents(bs, r)[1], h[m - 1])
  <2>1. QueueOf(bs, r) \in Sums(Int, Contents(bs, r), 2 * NB)
    BY QueueIsSum
  <2>2. PICK n, g, s, t :
          n = 2 * NB /\ g = QueueOf(bs, r) /\ s = Contents(bs, r) /\ t = others
    OBVIOUS
  <2>3. /\ n \in Nat /\ s \in Listings(Int, n) /\ t \in Listings(Int, n)
        /\ g \in Sums(Int, s, n) /\ h \in Sums(Int, t, n)
        /\ m \in 1 .. n /\ WithoutFirst(s, t, m)
    BY <1>0, <1>1, <1>2, <1>3, <1>5, <2>1, <2>2 DEF Listings, WithoutFirst
  <2>4. g[m] = Join(s[1], h[m - 1])
    BY <2>3, SumsFront
  <2>5. QED
    BY <2>2, <2>4
<1>8. QueueOf(cs, r)[m] = Join(Contents(cs, r)[1], h[m - 1])
  <2>1. QueueOf(cs, r) \in Sums(Int, Contents(cs, r), 2 * NB)
    BY QueueIsSum
  <2>2. PICK n, g, s, t :
          n = 2 * NB /\ g = QueueOf(cs, r) /\ s = Contents(cs, r) /\ t = others
    OBVIOUS
  <2>3. /\ n \in Nat /\ s \in Listings(Int, n) /\ t \in Listings(Int, n)
        /\ g \in Sums(Int, s, n) /\ h \in Sums(Int, t, n)
        /\ m \in 1 .. n /\ WithoutFirst(s, t, m)
    BY <1>0, <1>1, <1>2, <1>4, <1>5, <2>1, <2>2 DEF Listings, WithoutFirst
  <2>4. g[m] = Join(s[1], h[m - 1])
    BY <2>3, SumsFront
  <2>5. QED
    BY <2>2, <2>4
<1>9. Contents(bs, r)[1] = ItemsOf(bs[r % NB]) /\ Contents(cs, r)[1] = ItemsOf(b)
  <2>1. r + 1 - 1 = r /\ 1 \in 1 .. 2 * NB /\ r % NB \in 0 .. NB - 1
    BY <1>0, SlotIs DEF Pointer
  <2>2. cs[r % NB] = b
    BY <2>1 DEF Buffers
  <2>3. QED
    BY <2>1, <2>2 DEF Contents
<1>10. QED
  BY <1>6, <1>7, <1>8, <1>9

\* b is what is left of a after its first k elements.
LeftOf(a, b, k) == Len(b) = Len(a) - k /\ \A i \in 1 .. Len(b) : b[i] = a[k + i]

\* q begins with the first k elements of a, and p is what is left of it.
TakenFrom(q, p, a, k) ==
  /\ k \in 1 .. Len(q)
  /\ \A i \in 1 .. k : q[i] = a[i]
  /\ p = SubSeq(q, k + 1, Len(q))

\* What is left of a sequence after its first k elements is left of it with
\* more behind it, too, in front of that.
LEMMA LessOfFirst ==
  ASSUME NEW S, NEW a \in Seq(S), NEW b \in Seq(S), NEW rest \in Seq(S), NEW k \in 1 .. Len(a),
         LeftOf(a, b, k), NEW q, NEW p, q = Join(a, rest), p = Join(b, rest)
  PROVE  TakenFrom(q, p, a, k)
<1> USE DEF LeftOf, TakenFrom
<1>1. /\ a \o rest \in Seq(S) /\ Len(a \o rest) = Len(a) + Len(rest)
      /\ \A i \in 1 .. Len(a) + Len(rest) : (a \o rest)[i] = IF i <= Len(a) THEN a[i] ELSE rest[i - Len(a)]
  BY ConcatProperties
<1>2. /\ b \o rest \in Seq(S) /\ Len(b \o rest) = Len(b) + Len(rest)
      /\ \A i \in 1 .. Len(b) + Len(rest) : (b \o rest)[i] = IF i <= Len(b) THEN b[i] ELSE rest[i - Len(b)]
  BY ConcatProperties
<1>3. q \in Seq(S) /\ q = a \o rest
  BY <1>1 DEF Join
<1>4. p \in Seq(S) /\ p = b \o rest
  BY <1>2 DEF Join
<1>5. /\ Len(a) \in Nat /\ Len(b) \in Nat /\ Len(rest) \in Nat
      /\ Len(q) = Len(a) + Len(rest) /\ Len(p) = Len(q) - k
  <2>1. Len(a) \in Nat /\ Len(b) \in Nat /\ Len(rest) \in Nat
    BY LenProperties
  <2>2. Len(q) = Len(a) + Len(rest) /\ Len(p) = Len(b) + Len(rest)
    BY <1>1, <1>2, <1>3, <1>4
  <2>3. QED
    BY <2>1, <2>2
<1>6. \A i \in 1 .. Len(q) : q[i] \in S
  BY <1>3, ElementOfSeq
<1>7. /\ SubSeq(q, k + 1, Len(q)) \in Seq(S)
      /\ Len(SubSeq(q, k + 1, Len(q))) = IF k + 1 <= Len(q) THEN Len(q) - (k + 1) + 1 ELSE 0
      /\ \A i \in 1 .. Len(q) - (k + 1) + 1 : SubSeq(q, k + 1, Len(q))[i] = q[(k + 1) + i - 1]
  <2>1. k + 1 \in Int /\ Len(q) \in Int /\ \A i \in k + 1 .. Len(q) : q[i] \in S
    BY <1>5, <1>6
  <2>2. QED
    BY <2>1, SubSeqProperties
<1>8. ASSUME NEW i \in 1 .. Len(p) PROVE p[i] = q[k + i]
  <2>1. p[i] = IF i <= Len(b) THEN b[i] ELSE rest[i - Len(b)]
    BY <1>2, <1>4, <1>5
  <2>2. k + i \in 1 .. Len(a) + Len(rest)
    BY <1>5
  <2>3. q[k + i] = IF k + i <= Len(a) THEN a[k + i] ELSE rest[(k + i) - Len(a)]
    BY <1>1, <1>3, <2>2
  <2>4. CASE i <= Len(b)
    <3>1. k + i <= Len(a) /\ i \in 1 .. Len(b)
      BY <1>5, <2>4
    <3>2. QED
      BY <2>1, <2>3, <2>4, <3>1
  <2>5. CASE ~(i <= Len(b))
    <3>1. ~(k + i <= Len(a)) /\ (k + i) - Len(a) = i - Len(b)
      BY <1>5, <2>5
    <3>2. QED
      BY <2>1, <2>3, <2>5, <3>1
  <2>6. QED
    BY <2>4, <2>5
<1>9. p = SubSeq(q, k + 1, Len(q))
  <2>1. PICK r \in Seq(S) : r = SubSeq(q, k + 1, Len(q))
    BY <1>7
  <2>2. Len(r) = Len(p)
    BY <1>5, <1>7, <2>1
  <2>3. ASSUME NEW i \in 1 .. Len(p) PROVE p[i] = r[i]
    <3>1. r[i] = q[(k + 1) + i - 1] /\ (k + 1) + i - 1 = k + i
      BY <1>5, <1>7, <2>1
    <3>2. QED
      BY <1>8, <3>1
  <2>4. QED
    BY <1>4, <2>1, <2>2, <2>3, SeqEqual
<1>10. k \in 1 .. Len(q) /\ \A i \in 1 .. k : q[i] = a[i]
  BY <1>1, <1>3, <1>5
<1>11. QED
  BY <1>9, <1>10

\* The words of a buffer with m words before it, of whose n the first u are used.
WordsFrom(m, u, n) == IF u >= n THEN << >> ELSE [i \in 1 .. n - u |-> m + u + i]

AreWords(w, m, u, n) ==
  w \in Seq(Int) /\ Len(w) = n - u /\ \A i \in 1 .. n - u : w[i] = m + u + i

LEMMA WordsFromAre ==
  ASSUME NEW m \in Nat, NEW u \in Nat, NEW n \in Nat, u <= n
  PROVE  AreWords(WordsFrom(m, u, n), m, u, n)
<1> USE DEF AreWords
<1>1. CASE u >= n
  <2>1. WordsFrom(m, u, n) = << >> /\ n - u = 0
    BY <1>1 DEF WordsFrom
  <2>2. QED
    BY <2>1
<1>2. CASE ~(u >= n)
  <2>1. WordsFrom(m, u, n) = [i \in 1 .. n - u |-> m + u + i] /\ n - u \in Nat
    BY <1>2 DEF WordsFrom
  <2>2. QED
    BY <2>1
<1>3. QED
  BY <1>1, <1>2

\* q begins with k words, and p is what is left of it.
Copied(q, p, m, u, k) ==
  /\ k \in 1 .. Len(q)
  /\ \A i \in 1 .. k : q[i] = m + u + i
  /\ p = SubSeq(q, k + 1, Len(q))

\* k more words are used: they are the first of the queue, and the others stay.
LEMMA WordsCopied ==
  ASSUME NEW m \in Nat, NEW u \in Nat, NEW n \in Nat, NEW k \in Nat \ {0}, u + k <= n, NEW rest \in Seq(Int),
         NEW q, NEW p, q = Join(WordsFrom(m, u, n), rest), p = Join(WordsFrom(m, u + k, n), rest)
  PROVE  Copied(q, p, m, u, k)
<1>1. PICK a, b : a = WordsFrom(m, u, n) /\ b = WordsFrom(m, u + k, n)
  OBVIOUS
<1>2. a \in Seq(Int) /\ Len(a) = n - u /\ \A i \in 1 .. n - u : a[i] = m + u + i
  <2>1. u <= n
    OBVIOUS
  <2>2. AreWords(a, m, u, n)
    BY <1>1, <2>1, WordsFromAre
  <2>3. QED
    BY <2>2 DEF AreWords
<1>3. b \in Seq(Int) /\ Len(b) = n - (u + k) /\ \A i \in 1 .. n - (u + k) : b[i] = m + (u + k) + i
  <2>1. u + k \in Nat
    OBVIOUS
  <2>2. AreWords(b, m, u + k, n)
    BY <1>1, <2>1, WordsFromAre
  <2>3. QED
    BY <2>2 DEF AreWords
<1>4. k \in 1 .. Len(a) /\ LeftOf(a, b, k)
  <2>1. k \in 1 .. Len(a) /\ Len(b) = Len(a) - k
    BY <1>2, <1>3
  <2>2. ASSUME NEW i \in 1 .. Len(b) PROVE b[i] = a[k + i]
    <3>1. i \in 1 .. n - (u + k) /\ k + i \in 1 .. n - u
      BY <1>3
    <3>2. b[i] = m + (u + k) + i /\ a[k + i] = m + u + (k + i)
      BY <1>2, <1>3, <3>1
    <3>3. m + (u + k) + i = m + u + (k + i)
      BY <3>1
    <3>4. QED
      BY <3>2, <3>3
  <2>3. QED
    BY <2>1, <2>2 DEF LeftOf
<1>5. TakenFrom(q, p, a, k)
  BY <1>1, <1>2, <1>3, <1>4, LessOfFirst
<1>6. \A i \in 1 .. k : a[i] = m + u + i
  BY <1>2, <1>4
<1>7. QED
  BY <1>5, <1>6 DEF TakenFrom, Copied

\* What is left of a sequence with an element before it.
LEMMA OneBefore ==
  ASSUME NEW S, NEW rest \in Seq(S), NEW x \in S
  PROVE  /\ <<x>> \o rest # << >> /\ Head(<<x>> \o rest) = x
         /\ Tail(<<x>> \o rest) = rest
<1>1. <<x>> \in Seq(S) /\ Len(<<x>>) = 1
  OBVIOUS
<1>2. PICK q \in Seq(S) : q = <<x>> \o rest
  BY <1>1, ConcatProperties
<1>3. /\ Len(q) = 1 + Len(rest) /\ Len(rest) \in Nat
      /\ \A i \in 1 .. 1 + Len(rest) : q[i] = IF i <= 1 THEN x ELSE rest[i - 1]
  BY <1>1, <1>2, ConcatProperties
<1>4. q # << >> /\ Head(q) = x
  BY <1>3
<1>5. Tail(q) \in Seq(S) /\ Len(Tail(q)) = Len(rest) /\ \A i \in 1 .. Len(rest) : Tail(q)[i] = rest[i]
  <2>1. Tail(q) \in Seq(S) /\ Len(Tail(q)) = Len(q) - 1 /\ \A i \in 1 .. Len(Tail(q)) : Tail(q)[i] = q[i + 1]
    BY <1>4, HeadTailProperties
  <2>2. QED
    BY <1>3, <2>1
<1>6. Tail(q) = rest
  BY <1>5, SeqEqual
<1>7. QED
  BY <1>2, <1>4, <1>6

----------------------------------------------------------------------------
(* Every step is one of WordStream *)

\* How many buffers count for the queue.
Held == IF wpc = "publish" THEN Ready + 1 ELSE Ready

LEMMA QueueIs == Queue = IF die THEN << >> ELSE QueueOf(buffers, dmaBufferRdPtr)[Held]
BY DEF Queue, QueuedItems, QueueOf, Held

LEMMA QueueIsNext == Queue' = IF die' THEN << >> ELSE QueueOf(buffers', dmaBufferRdPtr')[Held']
BY DEF Queue, QueuedItems, QueueOf, Held

\* What the steps need of the invariant.
LEMMA HeldRange ==
  ASSUME CardInv
  PROVE  /\ buffers \in Buffers /\ dmaBufferRdPtr \in Pointer /\ dmaBufferWrPtr \in Pointer
         /\ Ready = Distance(dmaBufferRdPtr, dmaBufferWrPtr) /\ Ready \in 0 .. 2 * NB - 1
         /\ ~die => Held \in 0 .. NB
         /\ rpc \in {"look", "copy"} => ~die /\ Held \in 1 .. NB
<1>1. buffers \in Buffers /\ dmaBufferRdPtr \in Pointer /\ dmaBufferWrPtr \in Pointer
  BY DEF CardInv, TypeOK, Buffers
<1>2. Ready = Distance(dmaBufferRdPtr, dmaBufferWrPtr) /\ Ready \in 0 .. 2 * NB - 1
  BY <1>1, ReadyIs, DistanceType DEF Pointer
<1>3. ~die => Held \in 0 .. NB
  BY <1>2, CardAssumption DEF CardInv, Room, Held
<1>4. rpc \in {"look", "copy"} => ~die /\ Held \in 1 .. NB
  BY <1>2, <1>3, CardAssumption DEF CardInv, Room, ReaderGone, Held
<1>5. QED
  BY <1>1, <1>2, <1>3, <1>4

\* A step that leaves the buffers and the number that count alone is no step.
LEMMA QueueStays ==
  ASSUME UNCHANGED <<die, buffers, dmaBufferRdPtr, nWords, out>>, ~die => Held' = Held
  PROVE  UNCHANGED <<Queue, nWords, out>>
BY QueueIs, QueueIsNext

\* The words of a transfer are what arrives.
LEMMA ItemsOfFilled ==
  ASSUME CardInv, NEW n \in 0 .. BufferWords
  PROVE  ItemsOf([used |-> 0, status |-> n, base |-> nWords]) = [i \in 1 .. n |-> nWords + i]
<1>1. nWords \in Int /\ n \in Int
  BY CardAssumption, WordsCount DEF CardInv
<1>2. CASE n = 0
  <2>1. [i \in 1 .. n |-> nWords + i] \in Seq(Int) /\ Len([i \in 1 .. n |-> nWords + i]) = 0
    BY <1>1, <1>2
  <2>2. [i \in 1 .. n |-> nWords + i] = << >>
    BY <2>1, EmptySeq
  <2>3. QED
    BY <1>2, <2>2 DEF ItemsOf
<1>3. CASE n # 0
  <2>1. ItemsOf([used |-> 0, status |-> n, base |-> nWords]) = [i \in 1 .. n - 0 |-> nWords + 0 + i]
    BY <1>1, <1>3 DEF ItemsOf
  <2>2. n - 0 = n /\ \A i \in 1 .. n : nWords + 0 + i = nWords + i
    BY <1>1
  <2>3. QED
    BY <2>1, <2>2
<1>4. QED
  BY <1>2, <1>3

\* A buffer that is filled adds its contents to the queue.
LEMMA FillAdds ==
  ASSUME CardInv, CardInv', ~die, wpc = "dma", wpc' = "publish", UNCHANGED <<die, pointers>>,
         NEW b \in Buffer, Fill(b)
  PROVE  Queue' = Queue \o ItemsOf(b)
<1>1. Ready \in 0 .. NB - 1 /\ Ready' = Ready
  BY HeldRange, CardAssumption DEF CardInv, Room, Ready, pointers
<1>2. Queue = QueueOf(buffers, dmaBufferRdPtr)[Ready]
  BY QueueIs DEF Held
<1>3. Queue' = QueueOf(buffers', dmaBufferRdPtr)[Ready + 1]
  BY <1>1, QueueIsNext DEF Held, pointers
<1>4. buffers' \in Buffers
  BY DEF CardInv, TypeOK, Buffers
<1>5. QueueOf(buffers', dmaBufferRdPtr)[Ready + 1] = Join(QueueOf(buffers, dmaBufferRdPtr)[Ready], ItemsOf(b))
  <2>1. /\ buffers \in Buffers /\ dmaBufferRdPtr \in Pointer /\ dmaBufferWrPtr \in Pointer
        /\ Ready = Distance(dmaBufferRdPtr, dmaBufferWrPtr)
        /\ Changed(buffers, buffers', dmaBufferWrPtr, b)
    BY HeldRange DEF Fill, Changed
  <2>2. QED
    BY <1>1, <1>4, <2>1, FilledAtEnd
<1>6. QED
  BY <1>2, <1>3, <1>5 DEF Join

\* A transfer makes its words arrive, or its failure.
LEMMA DmaImplements ==
  ASSUME CardInv, CardInv', WorkerDma
  PROVE  [Abstract!Next]_<<Queue, nWords, out>>
<1>0. /\ wpc = "dma" /\ wpc' = "publish" /\ UNCHANGED <<die, pointers, out>>
      /\ nWords \in Nat
  BY CardAssumption, WordsCount DEF WorkerDma, readerVars, CardInv
<1>1. CASE die
  <2>1. Queue = << >> /\ Queue' = << >> /\ UNCHANGED nWords
    BY <1>0, <1>1, QueueIs, QueueIsNext DEF WorkerDma, cardVars
  <2>2. QED
    BY <1>0, <2>1
<1>2. ASSUME ~die, NEW n \in 0 .. BufferWords,
             Fill([used |-> 0, status |-> n, base |-> nWords]), nWords' = nWords + n
      PROVE  Abstract!Arrive
  <2>1. [used |-> 0, status |-> n, base |-> nWords] \in Buffer
    BY WordsCount, CardAssumption DEF CardInv, Buffer, ENOWORDS
  <2>2. Queue' = Queue \o [i \in 1 .. n |-> nWords + i]
    BY <1>0, <1>2, <2>1, FillAdds, ItemsOfFilled
  <2>3. nWords' - nWords = n /\ nWords' >= nWords
    BY <1>0, <1>2, CardAssumption
  <2>4. QED
    BY <1>0, <2>2, <2>3 DEF Abstract!Arrive
<1>3. ASSUME ~die, Fill(Failed), UNCHANGED nWords PROVE Abstract!Fail
  <2>1. Failed \in Buffer
    BY WordsCount, CardAssumption DEF CardInv, Failed, Buffer, ENOWORDS
  <2>2. ItemsOf(Failed) = <<ENOWORDS>>
    BY DEF ItemsOf, Failed, ENOWORDS
  <2>3. Queue' = Queue \o <<ENOWORDS>>
    BY <1>0, <1>3, <2>1, <2>2, FillAdds
  <2>4. Queue \in Seq(Int) /\ ENOWORDS \in Int
    <3>1. Held \in 0 .. 2 * NB
      BY <1>3, HeldRange, CardAssumption
    <3>2. QED
      BY <1>3, <3>1, QueueIs, HeldRange, QueueType DEF ENOWORDS
  <2>5. QED
    BY <1>0, <1>3, <2>3, <2>4, AppendIsConcat DEF Abstract!Fail
<1>4. QED
  BY <1>1, <1>2, <1>3 DEF WorkerDma, Abstract!Next, cardVars

\* A read buffer that is given back had nothing left to count.
LEMMA NextBufferStutters ==
  ASSUME CardInv, CardInv', NextBuffer
  PROVE  UNCHANGED <<Queue, nWords, out>>
<1>1. ~die /\ Held \in 1 .. NB /\ Ready \in 1 .. NB
  BY HeldRange, CardAssumption DEF NextBuffer, CardInv, Room
<1>2. ItemsOf(buffers[dmaBufferRdPtr % NB]) = << >>
  BY DEF NextBuffer, Consumed, Front, ItemsOf
<1>3. QueueOf(buffers, Advance(dmaBufferRdPtr))[Held - 1] = QueueOf(buffers, dmaBufferRdPtr)[Held]
  BY <1>1, <1>2, HeldRange, EmptyAtFront
<1>4. Held' = Held - 1
  <2>1. Ready' = Distance(Advance(dmaBufferRdPtr), dmaBufferWrPtr)
    BY DEF NextBuffer, Ready, Distance
  <2>2. Ready' = Ready - 1
    BY <1>1, <2>1, HeldRange, AdvanceDistance
  <2>3. wpc' = "publish" <=> wpc = "publish"
    BY DEF NextBuffer, WakeWorker
  <2>4. QED
    BY <1>1, <2>2, <2>3 DEF Held
<1>5. Queue' = QueueOf(buffers, Advance(dmaBufferRdPtr))[Held - 1]
  BY <1>1, <1>4, QueueIsNext DEF NextBuffer
<1>6. QED
  BY <1>1, <1>3, <1>5, QueueIs DEF NextBuffer, cardVars

\* Counting words of the first buffer as read changes only its contents.
LEMMA UseChangesFront ==
  ASSUME CardInv, CardInv', rpc \in {"look", "copy"}, NEW n \in ENOWORDS - 1 .. BufferWords, UseBuffer(n),
         UNCHANGED <<die, pointers, wpc>>
  PROVE  \E rest \in Seq(Int) : /\ Queue = Join(ItemsOf(Front), rest)
                                /\ Queue' = Join(ItemsOf([Front EXCEPT !.used = n]), rest)
<1>1. ~die /\ Held \in 1 .. NB /\ Held' = Held
  BY HeldRange DEF Held, Ready, pointers
<1>2. [Front EXCEPT !.used = n] \in Buffer
  BY Slots DEF CardInv, Buffer
<1>3. Changed(buffers, buffers', dmaBufferRdPtr, [Front EXCEPT !.used = n])
  BY DEF UseBuffer, Front, Changed
<1>4. buffers \in Buffers /\ buffers' \in Buffers /\ dmaBufferRdPtr \in Pointer
  BY DEF CardInv, TypeOK, Buffers
<1>5. \E rest \in Seq(Int) :
        /\ QueueOf(buffers, dmaBufferRdPtr)[Held] = Join(ItemsOf(buffers[dmaBufferRdPtr % NB]), rest)
        /\ QueueOf(buffers', dmaBufferRdPtr)[Held] = Join(ItemsOf([Front EXCEPT !.used = n]), rest)
  BY <1>1, <1>2, <1>3, <1>4, FrontOfQueue
<1>6. Queue = QueueOf(buffers, dmaBufferRdPtr)[Held] /\ Queue' = QueueOf(buffers', dmaBufferRdPtr)[Held]
  BY <1>1, QueueIs, QueueIsNext DEF pointers
<1>7. QED
  BY <1>5, <1>6 DEF Front

\* A failed transfer is reported when it is the first of the queue, and gone then.
LEMMA ReportImplements ==
  ASSUME CardInv, CardInv', ReportFailure
  PROVE  Abstract!Report
<1>1. Front \in Buffer /\ Front.status \in ENOWORDS - 1 .. BufferWords
  BY Slots DEF CardInv, Buffer, ENOWORDS
<1>2. ItemsOf(Front) = <<ENOWORDS>>
  BY DEF ReportFailure, Consumed, ItemsOf
<1>3. ItemsOf([Front EXCEPT !.used = Front.status]) = << >>
  BY <1>1 DEF ItemsOf, Buffer, ENOWORDS
<1>4. PICK rest \in Seq(Int) : Queue = Join(<<ENOWORDS>>, rest) /\ Queue' = Join(<< >>, rest)
  BY <1>1, <1>2, <1>3, UseChangesFront DEF ReportFailure
<1>5. Queue' = rest
  BY <1>4, JoinEmpty
<1>6. Queue # << >> /\ Head(Queue) = ENOWORDS /\ Tail(Queue) = rest
  <2>1. ENOWORDS \in Int
    BY DEF ENOWORDS
  <2>2. PICK q : q = Join(<<ENOWORDS>>, rest)
    OBVIOUS
  <2>3. q # << >> /\ Head(q) = ENOWORDS /\ Tail(q) = rest
    BY <1>4, <2>1, <2>2, OneBefore DEF Join
  <2>4. QED
    BY <1>4, <2>2, <2>3
<1>7. QED
  BY <1>5, <1>6 DEF ReportFailure, HandOverFailure, cardVars, Abstract!Report

\* A copy takes words from the front of the queue, and nothing but words.
LEMMA CopyImplements ==
  ASSUME CardInv, CardInv', EndCopy
  PROVE  Abstract!Deliver
<1>1. /\ Front \in Buffer /\ Front.used \in Nat /\ Front.status \in Nat /\ Front.base \in Nat
      /\ result \in Nat \ {0} /\ Front.used + result <= Front.status
      /\ Front.used + result \in ENOWORDS - 1 .. BufferWords
  <2>1. Front \in Buffer
    BY Slots DEF CardInv
  <2>2. /\ Front.used \in Int /\ Front.status \in Int /\ Front.status <= BufferWords
        /\ result \in Int /\ BufferWords \in Nat
    BY <2>1, CardAssumption DEF Buffer, ENOWORDS, CardInv, TypeOK
  <2>3. Front.base \in Nat
    BY <2>1, CardAssumption DEF Buffer
  <2>4. Front.used >= 0 /\ Front.used + result <= Front.status /\ result >= 1
    BY DEF CardInv, Copying, Wanting, EndCopy
  <2>5. QED
    BY <2>1, <2>2, <2>3, <2>4 DEF ENOWORDS
<1> DEFINE left == [Front EXCEPT !.used = Front.used + result]
<1>2. left.used = Front.used + result /\ left.status = Front.status /\ left.base = Front.base
  BY <1>1 DEF Buffer
<1>3. PICK rest \in Seq(Int) : Queue = Join(ItemsOf(Front), rest) /\ Queue' = Join(ItemsOf(left), rest)
  BY <1>1, UseChangesFront DEF EndCopy
<1>4. PICK m, u, n, k : m = Front.base /\ u = Front.used /\ n = Front.status /\ k = result
  OBVIOUS
<1>5. PICK a, b : a = ItemsOf(Front) /\ b = ItemsOf(left)
  OBVIOUS
<1>6. m \in Nat /\ u \in Nat /\ n \in Nat /\ k \in Nat \ {0} /\ u + k <= n
  BY <1>1, <1>4
<1>7. a = WordsFrom(m, u, n)
  <2>1. ~(n < 0)
    BY <1>6
  <2>2. QED
    BY <1>4, <1>5, <2>1 DEF ItemsOf, WordsFrom
<1>8. b = WordsFrom(m, u + k, n)
  <2>1. ~(n < 0)
    BY <1>6
  <2>2. left.used = u + k /\ left.status = n /\ left.base = m
    BY <1>2, <1>4
  <2> HIDE DEF left
  <2>3. QED
    BY <1>5, <2>1, <2>2 DEF ItemsOf, WordsFrom
<1>9. PICK q, p : q = Queue /\ p = Queue'
  OBVIOUS
<1>10. /\ k \in 1 .. Len(q) /\ \A i \in 1 .. k : q[i] = m + u + i
       /\ p = SubSeq(q, k + 1, Len(q))
  <2>1. q = Join(WordsFrom(m, u, n), rest) /\ p = Join(WordsFrom(m, u + k, n), rest)
    BY <1>3, <1>5, <1>7, <1>8, <1>9
  <2>2. Copied(q, p, m, u, k)
    BY <1>6, <2>1, WordsCopied
  <2>3. QED
    BY <2>2 DEF Copied
<1>11. \A i \in 1 .. k : q[i] # ENOWORDS
  BY <1>6, <1>10 DEF ENOWORDS
<1>12. out' = [out EXCEPT !.words = out.words + k, !.last = q[k]]
  <2>1. q[k] = m + u + k
    BY <1>6, <1>10
  <2>2. k # 0
    BY <1>6
  <2>3. HandOver(Front, result)
    BY DEF EndCopy
  <2>4. out' = [out EXCEPT !.words = out.words + k, !.last = IF k = 0 THEN out.last ELSE m + u + k]
    BY <1>4, <2>3, Zenon DEF HandOver
  <2>5. QED
    BY <2>1, <2>2, <2>4, Zenon
<1>13. QED
  BY <1>9, <1>10, <1>11, <1>12 DEF EndCopy, cardVars, Abstract!Deliver

\* Whatever the two threads and daqd do is a step of WordStream, or none.
LEMMA NextImplements ==
  ASSUME CardInv, CardInv', [Next]_vars
  PROVE  [Abstract!Next]_<<Queue, nWords, out>>
<1>1. CASE WorkerLoop \/ WorkerClaim
  BY <1>1, QueueStays DEF WorkerLoop, WorkerClaim, WakeReader, Held, Ready, pointers, readerVars, cardVars
<1>2. CASE WorkerDma
  BY <1>2, DmaImplements
<1>3. CASE WorkerPublish
  <2>1. ~die => Held' = Held
    <3>1. Ready' = Distance(dmaBufferRdPtr, Advance(dmaBufferWrPtr))
      BY <1>3 DEF WorkerPublish, Ready, Distance
    <3>2. ~die => Ready < 2 * NB - 1
      BY <1>3, HeldRange, CardAssumption DEF CardInv, Room, WorkerPublish
    <3>3. QED
      BY <1>3, <3>1, <3>2, HeldRange, AdvanceDistance DEF WorkerPublish, Held
  <2>2. QED
    BY <1>3, <2>1, QueueStays DEF WorkerPublish, cardVars
<1>4. CASE GetWords \/ LookForWords \/ WaitForBuffer \/ StartCopy
  BY <1>4, QueueStays DEF GetWords, LookForWords, WaitForBuffer, StartCopy, Held, Ready, pointers, cardVars
<1>5. CASE NextBuffer
  BY <1>5, NextBufferStutters
<1>6. CASE ReportFailure
  BY <1>6, ReportImplements DEF Abstract!Next
<1>7. CASE EndCopy
  BY <1>7, CopyImplements DEF Abstract!Next
<1>8. CASE StopReader \/ SignalWorker \/ JoinWorker \/ SpuriousWakeup \/ UNCHANGED vars
  BY <1>8, QueueStays DEF StopReader, SignalWorker, JoinWorker, SpuriousWakeup, WakeWorker, WakeReader,
    Held, Ready, pointers, readerVars, cardVars, vars
<1>9. CASE StopWorker
  <2>1. Queue' = << >> /\ UNCHANGED <<nWords, out>>
    BY <1>9, QueueIsNext DEF StopWorker, readerVars, cardVars
  <2>2. QED
    BY <2>1 DEF Abstract!Next, Abstract!Close
<1>10. QED
  BY <1>1, <1>2, <1>3, <1>4, <1>5, <1>6, <1>7, <1>8, <1>9 DEF Next, Worker, Reader, Main, Stopped

\* With any number of buffers, of words in a transfer and asked for: the words
\* of the card come out of getWords once each and in order, and each failed
\* transfer is reported once, at its place between them.
THEOREM ImplementsWordStream == Spec => DeliversWordStream
<1>1. Init => Abstract!Init
  <2>1. ASSUME Init PROVE Queue = << >>
    <3>1. CardInv
      BY <2>1, InitCard
    <3>2. Ready = 0 /\ Held = 0
      <4>1. Ready = 0
        BY <2>1, <3>1, HeldRange, DistanceType DEF Init
      <4>2. QED
        BY <2>1, <4>1 DEF Init, Held
    <3>3. QED
      BY <2>1, <3>1, <3>2, HeldRange, QueueIs, QueueType, CardAssumption DEF Init
  <2>2. QED
    BY <2>1 DEF Init, Abstract!Init
<1>2. QED
  BY <1>1, CardInvariant, NextImplements, PTL DEF Spec, DeliversWordStream, Abstract!Spec

============================================================================
