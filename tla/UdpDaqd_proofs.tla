---------------------------- MODULE UdpDaqd_proofs ----------------------------
(***************************************************************************)
(* Proofs about UdpDaqd, for every queue size, number of serial numbers    *)
(* and bounds.                                                             *)
(***************************************************************************)
EXTENDS UdpDaqd, TLAPS

----------------------------------------------------------------------------
(* The inductive invariant *)

Data == [kind : {"data"}, run : Nat, first : Nat, n : 1 .. 2, bad : 0 .. 2, span : 0 .. MaxSpan]
Reply == [kind : {"reply"}, command : Nat]
Frame == [run : Nat, id : Nat, over : BOOLEAN]
AtFrame == wpc \in {"claim", "copy", "publish"}

\* The types TypeOK leaves out.
Types ==
  /\ bound \in Bounds
  /\ ring \in [SlotIndex -> Frame]
  /\ board \in [run : Nat, sent : Nat, commands : Seq(Nat)]
  /\ socket \in Seq(Data \cup Reply) /\ replyQueue \in Seq(Nat)
  /\ client \in [Client -> {"none", "start", "stop", "pointers", "free", "command"}]
  /\ serving \in Client \cup {"none"}
  /\ block \in [rd : Pointer, wr : Pointer]
  /\ acquiring \in BOOLEAN /\ globalUserStop \in BOOLEAN /\ die \in BOOLEAN
  /\ at \in Nat
  /\ AtFrame => datagram \in Data /\ at <= datagram.n

\* The event loop waits for the answer to the request it is at. A client that has
\* asked for a start or a stop holds no block, and one that frees a block has it; a
\* command that was asked for is within the bound.
Serving ==
  /\ lpc = "sleep" => serving = Acquirer /\ client[Acquirer] = "start"
  /\ lpc = "command" => serving = Commander /\ client[Commander] = "command"
  /\ client[Acquirer] # "command" /\ client[Commander] \in {"none", "command"}
  /\ client[Acquirer] \in {"start", "stop", "pointers"} => block = NoBlock
  /\ client[Acquirer] = "free" => block # NoBlock
  /\ block # NoBlock => acquiring
  /\ client[Acquirer] = "stop" => ~acquiring
  /\ client[Acquirer] \in {"pointers", "free"} => acquiring
  /\ client[Commander] = "command" /\ lpc # "command" => command < bound.commands

\* Each command is answered once, in the order they were given.
RepliesInOrder ==
  /\ command <= bound.commands /\ answer \in 0 .. command
  /\ \A i \in DOMAIN board.commands : board.commands[i] \in 1 .. command
  /\ \A i, j \in DOMAIN board.commands : i < j => board.commands[i] < board.commands[j]
  /\ \A i \in DOMAIN socket : socket[i].kind = "reply" =>
       /\ socket[i].command \in 1 .. command
       /\ \A j \in DOMAIN board.commands : socket[i].command < board.commands[j]
       /\ \A j \in DOMAIN socket : i < j /\ socket[j].kind = "reply" =>
            socket[i].command < socket[j].command
  /\ \A i \in DOMAIN replyQueue :
       /\ replyQueue[i] \in i .. command
       /\ \A j \in DOMAIN board.commands : replyQueue[i] < board.commands[j]
       /\ \A j \in DOMAIN socket : socket[j].kind = "reply" => replyQueue[i] < socket[j].command
       /\ \A j \in DOMAIN replyQueue : i < j => replyQueue[i] < replyQueue[j]

\* A run that was started, and not given up since; a signal or a crash may have ended
\* the wait for the run before, but then no block is given out any more.
Settled == /\ acquiring /\ client[Acquirer] # "start"
           /\ (globalUserStop \/ lpc = "dead") => block # NoBlock

\* The ring is never overfull, a claimed slot stays free, and as long as the run is
\* settled the slot is that of the write pointer, and the block is at the front.
Room ==
  /\ Distance(dataFrameReadPointer, dataFrameWritePointer) <= QueueSize
  /\ wpc \in {"copy", "publish"} /\ dataFrame # DevNull =>
       /\ Distance(dataFrameReadPointer, dataFrameWritePointer) < QueueSize
       /\ Settled => dataFrame = Slot(dataFrameWritePointer)
  /\ block # NoBlock =>
       /\ block.rd = dataFrameReadPointer
       /\ Distance(dataFrameReadPointer, block.wr) <=
            Distance(dataFrameReadPointer, dataFrameWritePointer)

EndOf(d) == d.first + d.n - 1

\* The frames of a run come in the order the board sent them.
DataInOrder ==
  /\ \A i \in DOMAIN socket : socket[i].kind = "data" =>
       /\ socket[i].run <= board.run /\ socket[i].first >= 1
       /\ socket[i].run = board.run =>
            /\ EndOf(socket[i]) <= board.sent
            /\ \A j \in DOMAIN socket :
                 i < j /\ socket[j].kind = "data" /\ socket[j].run = board.run =>
                   EndOf(socket[i]) < socket[j].first
  /\ AtFrame => datagram.run <= board.run /\ datagram.first >= 1

\* In a settled run what is on its way is of that run, and comes after what is in
\* the ring.
Coming ==
  Settled =>
    /\ \A i \in DOMAIN socket : socket[i].kind = "data" => socket[i].run = board.run
    /\ AtFrame =>
         /\ datagram.run = board.run /\ EndOf(datagram) <= board.sent
         /\ \A i \in DOMAIN socket : socket[i].kind = "data" => EndOf(datagram) < socket[i].first

\* p is a pointer to a frame in the ring.
Queued(p) == InWindow(p, dataFrameReadPointer, dataFrameWritePointer)

RingInOrder ==
  Settled =>
    /\ wpc = "publish" /\ dataFrame # DevNull =>
         ring[dataFrame] = CurFrame
    /\ \A p \in Pointer : Queued(p) =>
         LET f == ring[Slot(p)] IN
         /\ f.run = board.run /\ f.id \in 1 .. board.sent /\ (f.over => MaxSpan > 0)
         /\ AtFrame => f.id < datagram.first + at - 1
         /\ \A i \in DOMAIN socket : socket[i].kind = "data" => f.id < socket[i].first
         /\ Queued(Wrap(p + 1)) => f.id < ring[Slot(Wrap(p + 1))].id

UdpInv == /\ TypeOK /\ Types /\ Serving /\ RepliesInOrder
          /\ Room /\ DataInOrder /\ Coming /\ RingInOrder

----------------------------------------------------------------------------
(* Sequences *)

\* Without its first a sequence is one place on.
LEMMA TailFacts ==
  ASSUME NEW S, NEW s \in Seq(S), s # << >>
  PROVE  /\ Tail(s) \in Seq(S) /\ Len(Tail(s)) = Len(s) - 1 /\ Len(s) \in Nat
         /\ Head(s) \in S /\ Head(s) = s[1] /\ 1 \in DOMAIN s
         /\ \A i \in DOMAIN Tail(s) : /\ i \in Nat \ {0} /\ i + 1 \in DOMAIN s
                                       /\ Tail(s)[i] = s[i + 1]
OBVIOUS

\* One more at the end: each of the others keeps its place.
LEMMA AppendFacts ==
  ASSUME NEW S, NEW s \in Seq(S), NEW e \in S
  PROVE  /\ Append(s, e) \in Seq(S) /\ Len(Append(s, e)) = Len(s) + 1 /\ Len(s) \in Nat
         /\ DOMAIN s = 1 .. Len(s)
         /\ \A i \in DOMAIN Append(s, e) :
              /\ i \in Nat /\ i <= Len(s) + 1
              /\ i \in DOMAIN s => Append(s, e)[i] = s[i]
              /\ i \notin DOMAIN s => Append(s, e)[i] = e /\ i = Len(s) + 1
OBVIOUS

\* What the network does with a datagram: the socket has what it had, and perhaps
\* the datagram behind it.
LEMMA Delivered ==
  ASSUME NEW S, socket \in Seq(S), NEW d \in S, bound.socket \in Nat,
         Len(socket) <= bound.socket, Deliver(d)
  PROVE  /\ socket' \in Seq(S) /\ Len(socket') <= bound.socket
         /\ \A i \in DOMAIN socket' :
              /\ i \in Nat
              /\ i \in DOMAIN socket => socket'[i] = socket[i]
              /\ i \notin DOMAIN socket => socket'[i] = d /\ \A j \in DOMAIN socket' : j <= i
<1>1. CASE UNCHANGED socket
  BY <1>1
<1>2. CASE Len(socket) < bound.socket /\ socket' = Append(socket, d)
  BY <1>2, AppendFacts
<1>3. QED
  BY <1>1, <1>2 DEF Deliver

----------------------------------------------------------------------------
(* The ring's pointers *)

LEMMA WrapType == ASSUME NEW p \in Nat, p < 4 * QueueSize PROVE Wrap(p) \in Pointer
BY QueueSizeAssumption DEF Wrap, Pointer

LEMMA SlotType == ASSUME NEW p \in Pointer PROVE Slot(p) \in SlotIndex
BY QueueSizeAssumption DEF Slot, Pointer, SlotIndex

\* As long as there is room, the slot of the write pointer is none of the queued frames'.
LEMMA SlotsDistinct ==
  ASSUME NEW r \in Pointer, NEW w \in Pointer, NEW p \in Pointer,
         Distance(r, w) < QueueSize, InWindow(p, r, w)
  PROVE  Slot(p) # Slot(w)
BY QueueSizeAssumption DEF Slot, Pointer, Distance, InWindow

\* isFull() is false exactly when there is room.
LEMMA FullAtQueueSize ==
  ASSUME NEW r \in Pointer, NEW w \in Pointer, Distance(r, w) <= QueueSize
  PROVE  IsFull(w, r) <=> Distance(r, w) = QueueSize
BY QueueSizeAssumption DEF IsFull, Slot, Pointer, Distance

LEMMA DistanceType ==
  ASSUME NEW r \in Pointer, NEW w \in Pointer
  PROVE  Distance(r, w) \in Nat /\ Distance(r, r) = 0
BY QueueSizeAssumption DEF Distance, Pointer

\* What is left of a window when its first frames are freed.
LEMMA WindowSplit ==
  ASSUME NEW r \in Pointer, NEW m \in Pointer, NEW w \in Pointer,
         Distance(r, m) <= Distance(r, w)
  PROVE  /\ Distance(m, w) <= Distance(r, w)
         /\ \A p \in Pointer : InWindow(p, m, w) => InWindow(p, r, w)
BY QueueSizeAssumption DEF Distance, Pointer, InWindow

\* One frame more in a window that has room: the new one is the last.
LEMMA Advance ==
  ASSUME NEW r \in Pointer, NEW w \in Pointer, Distance(r, w) < QueueSize
  PROVE  /\ Wrap(w + 1) \in Pointer /\ Distance(r, Wrap(w + 1)) = Distance(r, w) + 1
         /\ \A p \in Pointer : InWindow(p, r, Wrap(w + 1)) <=> p = w \/ InWindow(p, r, w)
         /\ ~InWindow(Wrap(w + 1), r, Wrap(w + 1))
BY QueueSizeAssumption DEF Distance, Pointer, Wrap, InWindow

----------------------------------------------------------------------------
(* Types *)

LEMMA InitTypes == Init => TypeOK /\ Types
<1> SUFFICES ASSUME Init PROVE TypeOK /\ Types
  OBVIOUS
<1>1. 0 \in Pointer /\ DevNull \notin SlotIndex
  BY QueueSizeAssumption DEF Pointer, DevNull, SlotIndex
<1>2. bound \in Bounds /\ bound.commands \in Nat /\ bound.socket \in Nat
  BY UdpAssumption DEF Init
<1>3. socket = << >> /\ replyQueue = << >>
  BY DEF Init
<1>4. Len(socket) = 0 /\ Len(replyQueue) = 0 /\ socket \in Seq(Data \cup Reply) /\ replyQueue \in Seq(Nat)
  BY <1>3
<1>5. board \in [run : Nat, sent : Nat, commands : Seq(Nat)]
  BY DEF Init
<1>6. ring \in [SlotIndex -> Frame] /\ block \in [rd : Pointer, wr : Pointer]
  BY <1>1 DEF Init, Frame, NoFrame, NoBlock
<1>7. client \in [Client -> {"none", "start", "stop", "pointers", "free", "command"}]
  BY DEF Init
<1>8. TypeOK
  BY <1>1, <1>2, <1>4 DEF Init, InitRing, TypeOK, Client, Acquirer, Commander
<1>9. Types
  BY <1>2, <1>4, <1>5, <1>6, <1>7 DEF Init, Types, AtFrame
<1>10. QED
  BY <1>8, <1>9

\* What the bounds of a behaviour are.
LEMMA BoundType ==
  ASSUME Types
  PROVE  /\ bound.runs \in Nat /\ bound.frames \in Nat /\ bound.socket \in Nat /\ bound.commands \in Nat
         /\ bound.garbled \in 0 .. 2
BY UdpAssumption DEF Types

LEMMA SendDataDelivers ==
  ASSUME Types, SendData
  PROVE  \E n \in 1 .. 2, bad \in 0 .. 2, span \in 0 .. MaxSpan :
           /\ Deliver([kind |-> "data", run |-> board.run, first |-> board.sent + 1, n |-> n,
                       bad |-> bad, span |-> span])
           /\ board' = [run |-> board.run, sent |-> board.sent + n, commands |-> board.commands]
<1>1. PICK g \in 0 .. 2 : g = bound.garbled
  BY BoundType
<1>2. \E n \in 1 .. 2, bad \in 0 .. g, span \in 0 .. MaxSpan :
        /\ Deliver([kind |-> "data", run |-> board.run, first |-> board.sent + 1, n |-> n,
                    bad |-> bad, span |-> span])
        /\ board' = [board EXCEPT !.sent = @ + n]
  BY <1>1 DEF SendData
<1>3. \A bad \in 0 .. g : bad \in 0 .. 2
  OBVIOUS
<1>4. \A n : [board EXCEPT !.sent = @ + n]
               = [run |-> board.run, sent |-> board.sent + n, commands |-> board.commands]
  <2>1. TAKE n
  <2>2. board \in [run : Nat, sent : Nat, commands : Seq(Nat)]
    BY DEF Types
  <2>3. PICK s : s = board.sent + n
    OBVIOUS
  <2>4. [board EXCEPT !.sent = s] = [run |-> board.run, sent |-> s, commands |-> board.commands]
    BY <2>2
  <2>5. QED
    BY <2>3, <2>4
<1>5. QED
  BY <1>2, <1>3, <1>4

LEMMA BoardTypes ==
  ASSUME TypeOK, Types, UNCHANGED bound, Board
  PROVE  TypeOK' /\ Types'
<1> USE DEF ringVars, workerVars, loopVars, commandVars, acquirer, stopVars
<1>1. /\ socket \in Seq(Data \cup Reply) /\ bound.socket \in Nat /\ Len(socket) <= bound.socket
      /\ board \in [run : Nat, sent : Nat, commands : Seq(Nat)]
  BY BoundType DEF TypeOK, Types
<1>2. /\ socket' \in Seq(Data \cup Reply) /\ Len(socket') <= bound.socket
      /\ board' \in [run : Nat, sent : Nat, commands : Seq(Nat)]
  <2>1. CASE SendData
    <3>1. PICK n \in 1 .. 2, bad \in 0 .. 2, span \in 0 .. MaxSpan :
            /\ Deliver([kind |-> "data", run |-> board.run, first |-> board.sent + 1, n |-> n,
                        bad |-> bad, span |-> span])
            /\ board' = [run |-> board.run, sent |-> board.sent + n, commands |-> board.commands]
      BY <2>1, SendDataDelivers
    <3>2. [kind |-> "data", run |-> board.run, first |-> board.sent + 1, n |-> n, bad |-> bad,
          span |-> span]
            \in Data \cup Reply
      BY <1>1 DEF Data
    <3>3. socket' \in Seq(Data \cup Reply) /\ Len(socket') <= bound.socket
      BY <1>1, <3>1, <3>2, Delivered
    <3>4. board' \in [run : Nat, sent : Nat, commands : Seq(Nat)]
      BY <1>1, <3>1
    <3>5. QED
      BY <3>3, <3>4
  <2>2. CASE SendReply
    <3>1. /\ Deliver([kind |-> "reply", command |-> Head(board.commands)])
          /\ board' = [board EXCEPT !.commands = Tail(@)] /\ board.commands # << >>
      BY <2>2 DEF SendReply
    <3>2. Head(board.commands) \in Nat /\ Tail(board.commands) \in Seq(Nat)
      BY <1>1, <3>1, TailFacts
    <3>3. [kind |-> "reply", command |-> Head(board.commands)] \in Data \cup Reply
      BY <3>2 DEF Reply
    <3>4. QED
      BY <1>1, <3>1, <3>2, <3>3, Delivered
  <2>3. QED
    BY <2>1, <2>2 DEF Board
<1>3. TypeOK'
  BY <1>2 DEF Board, TypeOK
<1>4. Types'
  BY <1>2 DEF Board, Types, AtFrame
<1>5. QED
  BY <1>3, <1>4

\* What is copied over the slots behind its own changes nothing of the others, and of
\* those only that they are whole.
LEMMA OverwrittenIs ==
  ASSUME NEW r \in [SlotIndex -> Frame], NEW n \in 0 .. MaxSpan,
         dataFrame \in SlotIndex \cup {DevNull}
  PROVE  /\ Overwritten(r, n) \in [SlotIndex -> Frame]
         /\ \A s \in SlotIndex : /\ Overwritten(r, n)[s].run = r[s].run
                                 /\ Overwritten(r, n)[s].id = r[s].id
                                 /\ Overwritten(r, n)[s].over => r[s].over \/ MaxSpan > 0
                                 /\ s = dataFrame => Overwritten(r, n)[s] = r[s]
<1> DEFINE o == Overwritten(r, n)
<1>1. ASSUME NEW s \in SlotIndex
      PROVE  /\ o[s] \in Frame /\ o[s].run = r[s].run /\ o[s].id = r[s].id
             /\ o[s].over => r[s].over \/ MaxSpan > 0
             /\ s = dataFrame => o[s] = r[s]
  <2>1. r[s] \in Frame
    OBVIOUS
  <2>2. CASE s \notin Behind(n)
    <3>1. o[s] = r[s]
      BY <2>2 DEF Overwritten
    <3>2. QED
      BY <2>1, <3>1
  <2>3. CASE s \in Behind(n)
    <3>1. o[s] = [r[s] EXCEPT !.over = TRUE]
      BY <2>3 DEF Overwritten
    <3>2. dataFrame # DevNull /\ dataFrame < s /\ s <= dataFrame + n
      BY <2>3 DEF Behind
    <3>3. dataFrame \in Int /\ s \in Int /\ n \in Int /\ MaxSpan \in Int /\ n <= MaxSpan
      BY <3>2, QueueSizeAssumption, UdpAssumption DEF SlotIndex
    <3>4. MaxSpan > 0 /\ s # dataFrame
      BY <3>2, <3>3
    <3>5. o[s] \in Frame /\ o[s].run = r[s].run /\ o[s].id = r[s].id
      BY <2>1, <3>1 DEF Frame
    <3>6. QED
      BY <3>4, <3>5
  <2>4. QED
    BY <2>2, <2>3
<1>2. o = [s \in SlotIndex |-> o[s]]
  BY DEF Overwritten
<1> HIDE DEF o
<1>3. o \in [SlotIndex -> Frame]
  BY <1>1, <1>2
<1>4. QED
  BY <1>1, <1>3 DEF o

\* Whatever is copied, the slots but that of the write pointer keep run and number.
LEMMA CopyKeeps ==
  ASSUME TypeOK, Types, Copy \/ Crash
  PROVE  /\ ring' \in [SlotIndex -> Frame]
         /\ \A s \in SlotIndex :
              s # dataFrame => /\ (ring'[s]).run = ring[s].run /\ (ring'[s]).id = ring[s].id
                               /\ (ring'[s]).over => ring[s].over \/ MaxSpan > 0
         /\ wpc' = "publish" /\ dataFrame # DevNull => ring'[dataFrame] = CurFrame
<1>1. /\ datagram \in Data /\ at \in 1 .. 2 /\ ring \in [SlotIndex -> Frame]
      /\ dataFrame \in SlotIndex \cup {DevNull}
  BY DEF Copy, Crash, Types, TypeOK, AtFrame
<1>2. Reach \in 0 .. MaxSpan /\ (0 .. Reach) \subseteq 0 .. MaxSpan
  BY <1>1, UdpAssumption DEF Reach, Data
<1>3. CASE Copy
  <2> DEFINE f == IF ParseDataFrame THEN CurFrame ELSE NoFrame
             r == IF dataFrame = DevNull THEN ring ELSE [ring EXCEPT ![dataFrame] = f]
  <2>1. CurFrame \in Frame /\ NoFrame \in Frame
    BY <1>1 DEF CurFrame, NoFrame, Data, Frame
  <2>2. r \in [SlotIndex -> Frame] /\ (\A s \in SlotIndex : s # dataFrame => r[s] = ring[s])
    BY <1>1, <2>1
  <2>3. dataFrame # DevNull => dataFrame \in SlotIndex /\ r[dataFrame] = f
    BY <1>1
  <2>4. ring' = Overwritten(r, Reach) /\ (wpc' = "publish" => ParseDataFrame)
    BY <1>3 DEF Copy, EndOfDatagram, Loop
  <2>5. wpc' = "publish" => f = CurFrame
    BY <2>4
  <2> HIDE DEF f, r
  <2>6. QED
    BY <1>1, <1>2, <2>2, <2>3, <2>4, <2>5, OverwrittenIs
<1>4. CASE Crash
  <2>1. PICK n \in 0 .. Reach : ring' = Overwritten(ring, n)
    BY <1>4 DEF Crash
  <2>2. n \in 0 .. MaxSpan
    BY <1>2
  <2>3. wpc' # "publish"
    BY <1>4 DEF Crash
  <2>4. QED
    BY <1>1, <2>1, <2>2, <2>3, OverwrittenIs
<1>5. QED
  BY <1>3, <1>4

LEMMA WorkerTypes ==
  ASSUME TypeOK, Types, RepliesInOrder, RepliesInOrder', UNCHANGED bound, Worker
  PROVE  TypeOK' /\ Types'
<1> USE DEF workerElse, ringVars, workerVars, loopVars, commandVars, acquirer, stopVars
<1>1. CASE Exit
  BY <1>1 DEF Exit, TypeOK, Types, AtFrame
<1>2. CASE Receive
  <2> DEFINE d == Head(socket)
  <2>1. /\ d \in Data \cup Reply /\ Tail(socket) \in Seq(Data \cup Reply)
        /\ Len(Tail(socket)) <= bound.socket
    BY <1>2, TailFacts, BoundType DEF Receive, TypeOK, Types
  <2> HIDE DEF d
  <2>2. /\ socket' = Tail(socket)
        /\ replyQueue' = IF d.kind = "reply" THEN Append(replyQueue, d.command) ELSE replyQueue
        /\ IF Taken(d) THEN wpc' = "claim" /\ datagram' = d /\ at' = 1
                       ELSE wpc' = Loop /\ UNCHANGED <<datagram, at>>
        /\ wpc = "recv"
        /\ UNCHANGED <<ringVars, ring, dataFrame, workerElse>>
    BY <1>2 DEF Receive, d
  <2>3. /\ d.kind = "reply" => d.command \in Nat
        /\ d.kind = "data" => d \in Data /\ d.n \in 1 .. 2
    BY <2>1 DEF Data, Reply
  <2>4. replyQueue' \in Seq(Nat)
    BY <2>2, <2>3 DEF Types
  <2>5. Len(replyQueue') <= bound.commands
    <3> DEFINE q == replyQueue'
    <3>1. q \in Seq(Nat) /\ bound.commands \in Nat /\ command' <= bound.commands /\ command' \in Nat
      BY <2>2, <2>4, BoundType DEF RepliesInOrder, TypeOK
    <3>2. \A i \in DOMAIN q : q[i] \in i .. command'
      BY DEF RepliesInOrder
    <3> HIDE DEF q
    <3>3. Len(q) \in DOMAIN q \/ Len(q) = 0
      BY <3>1
    <3>4. Len(q) <= bound.commands
      BY <3>1, <3>2, <3>3
    <3>5. QED
      BY <3>4 DEF q
  <2>6. TypeOK'
    BY <2>1, <2>2, <2>5 DEF TypeOK, Loop
  <2>7. AtFrame' => datagram' \in Data /\ at' <= (datagram').n
    BY <2>2, <2>3 DEF AtFrame, Loop, Taken
  <2>8. at' \in Nat
    BY <2>2 DEF Types
  <2>9. Types'
    BY <2>1, <2>2, <2>4, <2>7, <2>8 DEF Types
  <2>10. QED
    BY <2>6, <2>9
<1>3. CASE Claim
  <2>1. Slot(dataFrameWritePointer) \in SlotIndex
    BY SlotType DEF TypeOK
  <2>2. QED
    BY <1>3, <2>1 DEF Claim, TypeOK, Types, AtFrame
<1>4. CASE Copy
  <2>1. datagram \in Data /\ at \in 1 .. 2 /\ at <= datagram.n
    BY <1>4 DEF Copy, Types, TypeOK, AtFrame
  <2>2. ring' \in [SlotIndex -> Frame]
    BY <1>4, CopyKeeps
  <2>3. TypeOK'
    BY <1>4 DEF Copy, TypeOK, EndOfDatagram, Loop
  <2>4. /\ UNCHANGED <<socket, replyQueue, workerElse>>
        /\ at' \in Nat /\ (AtFrame' => datagram' = datagram /\ at' = at)
    BY <1>4, <2>1 DEF Copy, EndOfDatagram, Loop, AtFrame
  <2>6. Types'
    BY <2>1, <2>2, <2>4 DEF Types
  <2>5. QED
    BY <2>3, <2>6
<1>5. CASE Publish
  <2>1. datagram \in Data /\ at \in 1 .. 2 /\ datagram.n \in 1 .. 2
    BY <1>5 DEF Publish, Types, TypeOK, AtFrame, Data
  <2>2. /\ dataFrameWritePointer' \in Pointer /\ dataFrameReadPointer' \in Pointer
        /\ acquisitionMode' \in {0, 1}
    <3>1. Wrap(dataFrameWritePointer + 1) \in Pointer
      BY WrapType, QueueSizeAssumption DEF TypeOK, Pointer
    <3>2. QED
      BY <1>5, <3>1 DEF Publish, PublishFrame, TypeOK
  <2>3. TypeOK'
    BY <1>5, <2>1, <2>2 DEF Publish, TypeOK, EndOfDatagram, Loop
  <2>4. Types'
    BY <1>5, <2>1 DEF Publish, Types, EndOfDatagram, Loop, AtFrame
  <2>5. QED
    BY <2>3, <2>4
<1>6. CASE Crash
  <2>1. ring' \in [SlotIndex -> Frame]
    BY <1>6, CopyKeeps
  <2>2. TypeOK'
    BY <1>6 DEF Crash, TypeOK, Client, Acquirer, Commander
  <2>3. Types'
    BY <1>6, <2>1 DEF Crash, Types, AtFrame
  <2>4. QED
    BY <2>2, <2>3
<1>7. QED
  BY <1>1, <1>2, <1>3, <1>4, <1>5, <1>6 DEF Worker

LEMMA ClientTypes ==
  ASSUME TypeOK, Types, Serving, UNCHANGED bound, Clients
  PROVE  TypeOK' /\ Types'
<1> USE DEF clientElse, ringVars, workerVars, loopVars, commandVars, acquirer, stopVars, Client
<1>1. NoBlock \in [rd : Pointer, wr : Pointer]
  BY QueueSizeAssumption DEF NoBlock, Pointer
<1>2. board \in [run : Nat, sent : Nat, commands : Seq(Nat)]
  BY DEF Types
<1> DEFINE Kept ==
      /\ UNCHANGED <<ringVars, ring, socket, workerVars, replyQueue, lpc, serving, commandVars, stopVars>>
      /\ client' \in [Client -> {"none", "start", "stop", "pointers", "free", "command"}]
      /\ \A c \in Client : serving = c => client'[c] # "none"
      /\ board' \in [run : Nat, sent : Nat, commands : Seq(Nat)]
      /\ acquiring' \in BOOLEAN
      /\ block' \in [rd : Pointer, wr : Pointer]
<1>3. Kept
  <2> USE <1>1, <1>2 DEF TypeOK, Types, Ask
  <2>1. ASSUME NEW c \in Client, HangUp(c) PROVE Kept
    BY <2>1 DEF HangUp
  <2>2. CASE AskToStart
    <3>1. board' = [board EXCEPT !.run = @ + 1, !.sent = 0]
      BY <2>2 DEF AskToStart
    <3>2. board' = [run |-> board.run + 1, sent |-> 0, commands |-> board.commands]
      BY <1>2, <3>1
    <3>3. board' \in [run : Nat, sent : Nat, commands : Seq(Nat)]
      BY <1>2, <3>2
    <3>4. QED
      BY <2>2, <3>3 DEF AskToStart
  <2>3. CASE AskToStop
    BY <2>3 DEF AskToStop
  <2>4. CASE AskForPointers \/ AskToFree \/ AskToCommand
    BY <2>4 DEF AskForPointers, AskToFree, AskToCommand
  <2>5. QED
    BY <2>1, <2>2, <2>3, <2>4 DEF Clients
<1>4. TypeOK'
  BY <1>3 DEF TypeOK
<1>5. Types'
  BY <1>3 DEF Types, AtFrame
<1>6. QED
  BY <1>4, <1>5

LEMMA LoopTypes ==
  ASSUME TypeOK, Types, Serving, RepliesInOrder', UNCHANGED bound, EventLoop
  PROVE  TypeOK' /\ Types'
<1> USE DEF loopElse, ringVars, workerVars, loopVars, commandVars, acquirer, stopVars
<1>1. NoBlock \in [rd : Pointer, wr : Pointer] /\ 0 \in Pointer
  BY QueueSizeAssumption DEF NoBlock, Pointer
<1>2. /\ UNCHANGED <<ring, workerVars, stopVars, acquiring, socket>>
      /\ dataFrameWritePointer' \in Pointer /\ dataFrameReadPointer' \in Pointer
      /\ acquisitionMode' \in {0, 1}
      /\ block' \in [rd : Pointer, wr : Pointer]
  <2> USE <1>1 DEF TypeOK, Types
  <2>1. CASE DoStart \/ DoStop
    BY <2>1 DEF DoStart, DoStop, WipeBuffers
  <2>2. CASE SecondWipe
    BY <2>2 DEF SecondWipe, WipeBuffers
  <2>3. CASE DoGetPointers
    BY <2>3 DEF DoGetPointers
  <2>4. CASE DoSetReadPointer
    <3>1. Wrap(block.wr) \in Pointer
      BY WrapType, QueueSizeAssumption DEF Pointer
    <3>2. QED
      BY <2>4, <3>1 DEF DoSetReadPointer, SetDataFrameReadPointer
  <2>5. CASE SendCommand \/ TakeReply \/ GiveUp
    BY <2>5 DEF SendCommand, TakeReply, GiveUp
  <2>6. QED
    BY <2>1, <2>2, <2>3, <2>4, <2>5 DEF EventLoop
<1>3. /\ lpc' \in {"poll", "sleep", "command", "joining", "dead"}
      /\ lpc' \in {"sleep", "command"} <=> serving' \in Client
      /\ serving' \in Client \cup {"none"}
      /\ \A c \in Client : serving' = c => client'[c] # "none"
      /\ client' \in [Client -> {"none", "start", "stop", "pointers", "free", "command"}]
  <2> USE DEF TypeOK, Types, Asked, Answer, Serving, Client, Acquirer, Commander
  <2>1. CASE DoStart \/ SendCommand
    BY <2>1 DEF DoStart, SendCommand
  <2>2. CASE SecondWipe \/ GiveUp
    BY <2>2 DEF SecondWipe, GiveUp
  <2>3. CASE TakeReply
    BY <2>3 DEF TakeReply
  <2>4. CASE DoStop \/ DoGetPointers \/ DoSetReadPointer
    BY <2>4 DEF DoStop, DoGetPointers, DoSetReadPointer
  <2>5. QED
    BY <2>1, <2>2, <2>3, <2>4 DEF EventLoop
<1>4. /\ board' \in [run : Nat, sent : Nat, commands : Seq(Nat)]
      /\ replyQueue' \in Seq(Nat) /\ Len(replyQueue') <= bound.commands
      /\ command' \in 0 .. bound.commands
  <2>1. /\ board \in [run : Nat, sent : Nat, commands : Seq(Nat)]
        /\ replyQueue \in Seq(Nat) /\ Len(replyQueue) <= bound.commands
        /\ command \in 0 .. bound.commands /\ bound.commands \in Nat
    BY BoundType DEF TypeOK, Types
  <2>2. CASE SendCommand
    <3>1. /\ command' = command + 1 /\ replyQueue' = replyQueue
          /\ board' = [board EXCEPT !.commands = Append(@, command')] \/ board' = board
      BY <2>2 DEF SendCommand
    <3>2. command' \in 0 .. bound.commands
      BY <2>1, <3>1 DEF RepliesInOrder
    <3>3. Append(board.commands, command') \in Seq(Nat)
      BY <2>1, <3>2
    <3>4. QED
      BY <2>1, <3>1, <3>2, <3>3
  <2>3. CASE TakeReply
    <3>1. Tail(replyQueue) \in Seq(Nat) /\ Len(Tail(replyQueue)) <= bound.commands
      BY <2>1, <2>3, TailFacts DEF TakeReply
    <3>2. QED
      BY <2>1, <2>3, <3>1 DEF TakeReply
  <2>4. CASE ~SendCommand /\ ~TakeReply
    BY <2>1, <2>4 DEF EventLoop, DoStart, SecondWipe, DoStop, DoGetPointers, DoSetReadPointer, GiveUp
  <2>5. QED
    BY <2>2, <2>3, <2>4
<1>5. TypeOK'
  BY <1>2, <1>3, <1>4 DEF TypeOK
<1>6. Types'
  BY <1>2, <1>3, <1>4 DEF Types, AtFrame
<1>7. QED
  BY <1>5, <1>6

LEMMA EndTypes ==
  ASSUME TypeOK, Types, Serving, UNCHANGED bound, CatchUserStop \/ LeaveLoop \/ UNCHANGED vars
  PROVE  TypeOK' /\ Types'
<1> USE DEF ringVars, workerVars, loopVars, commandVars, acquirer, stopVars
<1>1. TypeOK'
  BY DEF CatchUserStop, LeaveLoop, vars, TypeOK, Client, Acquirer, Commander
<1>2. Types'
  BY DEF CatchUserStop, LeaveLoop, vars, Types, AtFrame
<1>3. QED
  BY <1>1, <1>2

----------------------------------------------------------------------------
(* The event loop and the clients *)

LEMMA NextServing ==
  ASSUME TypeOK, Types, Serving, [Next]_<<bound, vars>>
  PROVE  Serving'
<1> USE DEF ringVars, workerVars, loopVars, commandVars, acquirer, stopVars
<1>0. /\ client \in [Client -> {"none", "start", "stop", "pointers", "free", "command"}]
      /\ Client = {Acquirer, Commander} /\ Acquirer # Commander
      /\ serving \in Client \cup {"none"} /\ acquiring \in BOOLEAN
      /\ lpc \in {"poll", "sleep", "command", "joining", "dead"}
      /\ lpc \in {"sleep", "command"} <=> serving \in Client
      /\ bound' = bound
  BY DEF Next, Types, TypeOK, Client, Acquirer, Commander
<1>1. CASE UNCHANGED vars \/ Board \/ Worker \/ CatchUserStop
  <2>1. CASE Crash
    BY <1>0, <2>1 DEF Crash, Serving
  <2>2. QED
    BY <1>0, <1>1, <2>1 DEF vars, Serving, Board, Worker, Exit, Receive, Claim, Copy, Publish, workerElse,
                            CatchUserStop
<1>2. CASE Clients
  <2> USE <1>0 DEF Serving, clientElse, Ask
  <2>1. ASSUME NEW c \in Client, HangUp(c) PROVE Serving'
    BY <2>1 DEF HangUp
  <2>2. CASE AskToStart
    BY <2>2 DEF AskToStart
  <2>3. CASE AskToStop
    BY <2>3 DEF AskToStop
  <2>4. CASE AskForPointers \/ AskToFree \/ AskToCommand
    BY <2>4 DEF AskForPointers, AskToFree, AskToCommand
  <2>5. QED
    BY <1>2, <2>1, <2>2, <2>3, <2>4 DEF Clients
<1>3. CASE EventLoop
  <2> USE <1>0 DEF Serving, loopElse, Asked, Answer
  <2>1. CASE DoStart \/ DoStop
    BY <2>1 DEF DoStart, DoStop
  <2>2. CASE SecondWipe
    BY <2>2 DEF SecondWipe
  <2>3. CASE DoGetPointers
    BY <2>3 DEF DoGetPointers
  <2>4. CASE DoSetReadPointer
    BY <2>4 DEF DoSetReadPointer
  <2>5. CASE SendCommand
    BY <2>5 DEF SendCommand
  <2>6. CASE TakeReply \/ GiveUp
    BY <2>6 DEF TakeReply, GiveUp
  <2>7. QED
    BY <1>3, <2>1, <2>2, <2>3, <2>4, <2>5, <2>6 DEF EventLoop
<1>4. CASE LeaveLoop
  BY <1>0, <1>4 DEF LeaveLoop, Serving
<1>5. QED
  BY <1>1, <1>2, <1>3, <1>4 DEF Next

----------------------------------------------------------------------------
(* The replies *)

LEMMA BoardReplies ==
  ASSUME TypeOK, Types, RepliesInOrder, UNCHANGED bound, Board
  PROVE  RepliesInOrder'
<1> USE DEF commandVars
<1>1. /\ socket \in Seq(Data \cup Reply) /\ bound.socket \in Nat /\ Len(socket) <= bound.socket
      /\ board \in [run : Nat, sent : Nat, commands : Seq(Nat)] /\ command \in Nat
      /\ replyQueue \in Seq(Nat)
      /\ UNCHANGED <<command, answer, replyQueue>>
  BY BoundType DEF TypeOK, Types, Board
<1>2. CASE SendData
  <2>1. PICK n \in 1 .. 2, bad \in 0 .. 2, span \in 0 .. MaxSpan :
          /\ Deliver([kind |-> "data", run |-> board.run, first |-> board.sent + 1, n |-> n,
                      bad |-> bad, span |-> span])
          /\ board' = [run |-> board.run, sent |-> board.sent + n, commands |-> board.commands]
    BY <1>2, SendDataDelivers
  <2>2. [kind |-> "data", run |-> board.run, first |-> board.sent + 1, n |-> n, bad |-> bad,
          span |-> span]
          \in Data \cup Reply
    BY <1>1 DEF Data
  <2>3. \A i \in DOMAIN socket' :
          (socket'[i]).kind = "reply" => i \in DOMAIN socket /\ socket'[i] = socket[i]
    BY <1>1, <2>1, <2>2, Delivered
  <2>4. (board').commands = board.commands
    BY <1>1, <2>1
  <2>5. QED
    BY <1>1, <2>3, <2>4 DEF RepliesInOrder
<1>3. CASE SendReply
  <2> DEFINE c == Head(board.commands)
             b == Tail(board.commands)
  <2>1. /\ Deliver([kind |-> "reply", command |-> c])
        /\ (board').commands = b /\ board.commands # << >>
    BY <1>1, <1>3 DEF SendReply
  <2>2. /\ c \in Nat /\ b \in Seq(Nat) /\ c = board.commands[1] /\ 1 \in DOMAIN board.commands
        /\ \A i \in DOMAIN b : i \in Nat \ {0} /\ i + 1 \in DOMAIN board.commands
                               /\ b[i] = board.commands[i + 1]
    BY <1>1, <2>1, TailFacts
  <2>3. [kind |-> "reply", command |-> c] \in Data \cup Reply
    BY <2>2 DEF Reply
  <2> HIDE DEF c, b
  <2>4. /\ c \in 1 .. command
        /\ \A i \in DOMAIN b : c < b[i] /\ b[i] \in 1 .. command
        /\ \A i, j \in DOMAIN b : i < j => b[i] < b[j]
    <3>1. c \in 1 .. command
      BY <2>2 DEF RepliesInOrder
    <3>2. \A i \in DOMAIN b : c < b[i] /\ b[i] \in 1 .. command
      BY <2>2 DEF RepliesInOrder
    <3>3. ASSUME NEW i \in DOMAIN b, NEW j \in DOMAIN b, i < j PROVE b[i] < b[j]
      <4>1. /\ i + 1 \in DOMAIN board.commands /\ b[i] = board.commands[i + 1]
            /\ j + 1 \in DOMAIN board.commands /\ b[j] = board.commands[j + 1]
            /\ i + 1 < j + 1
        BY <2>2, <3>3
      <4>2. QED
        BY <4>1 DEF RepliesInOrder
    <3>4. QED
      BY <3>1, <3>2, <3>3
  <2>9. \A i \in DOMAIN socket : socket[i].kind = "reply" =>
          socket[i].command < c /\ \A j \in DOMAIN b : socket[i].command < b[j]
    BY <2>2 DEF RepliesInOrder
  <2>10. \A i \in DOMAIN replyQueue :
           replyQueue[i] < c /\ \A j \in DOMAIN b : replyQueue[i] < b[j]
    BY <2>2 DEF RepliesInOrder
  <2>5. \A i \in DOMAIN socket' :
          /\ i \in Nat
          /\ i \in DOMAIN socket => socket'[i] = socket[i]
          /\ i \notin DOMAIN socket => (socket'[i]).command = c /\ \A j \in DOMAIN socket' : j <= i
    BY <1>1, <2>1, <2>3, Delivered
  <2>6. \A i \in DOMAIN socket' : (socket'[i]).kind = "reply" =>
          /\ (socket'[i]).command \in 1 .. command
          /\ \A j \in DOMAIN b : (socket'[i]).command < b[j]
          /\ \A j \in DOMAIN socket' : i < j /\ (socket'[j]).kind = "reply" =>
               (socket'[i]).command < (socket'[j]).command
    <3>1. TAKE i \in DOMAIN socket'
    <3>2. HAVE (socket'[i]).kind = "reply"
    <3>3. CASE i \in DOMAIN socket
      <4>1. socket'[i] = socket[i]
        BY <2>5, <3>3
      <4>2. /\ socket[i].command \in 1 .. command
            /\ \A j \in DOMAIN b : socket[i].command < b[j]
        BY <2>9, <3>2, <3>3, <4>1 DEF RepliesInOrder
      <4>3. ASSUME NEW j \in DOMAIN socket', i < j, (socket'[j]).kind = "reply"
            PROVE  socket[i].command < (socket'[j]).command
        <5>1. CASE j \in DOMAIN socket
          BY <2>5, <3>2, <3>3, <4>1, <4>3, <5>1 DEF RepliesInOrder
        <5>2. CASE j \notin DOMAIN socket
          BY <2>5, <2>9, <3>2, <3>3, <4>1, <5>2
        <5>3. QED
          BY <5>1, <5>2
      <4>4. QED
        BY <4>1, <4>2, <4>3
    <3>4. CASE i \notin DOMAIN socket
      BY <2>4, <2>5, <3>4
    <3>5. QED
      BY <3>3, <3>4
  <2>7. \A i \in DOMAIN replyQueue : \A j \in DOMAIN socket' :
          (socket'[j]).kind = "reply" => replyQueue[i] < (socket'[j]).command
    BY <2>5, <2>10 DEF RepliesInOrder
  <2>8. QED
    BY <1>1, <2>1, <2>4, <2>6, <2>7, <2>10 DEF RepliesInOrder
<1>4. QED
  BY <1>2, <1>3 DEF Board

LEMMA WorkerReplies ==
  ASSUME TypeOK, Types, RepliesInOrder, UNCHANGED bound, Worker
  PROVE  RepliesInOrder'
<1> USE DEF workerElse, commandVars
<1>1. CASE ~Receive
  BY <1>1 DEF Worker, Exit, Claim, Copy, Crash, Publish, RepliesInOrder
<1>2. CASE Receive
  <2> DEFINE s == Tail(socket)
             q == replyQueue'
             d == Head(socket)
  <2>1. /\ UNCHANGED <<board, command, answer>> /\ socket' = s /\ socket # << >>
        /\ q = IF d.kind = "reply" THEN Append(replyQueue, d.command) ELSE replyQueue
    BY <1>2 DEF Receive
  <2>2. socket \in Seq(Data \cup Reply) /\ replyQueue \in Seq(Nat) /\ command \in Nat
    BY DEF TypeOK, Types
  <2>3. /\ d \in Data \cup Reply /\ d = socket[1] /\ 1 \in DOMAIN socket
        /\ \A i \in DOMAIN s : i \in Nat \ {0} /\ i + 1 \in DOMAIN socket /\ s[i] = socket[i + 1]
    BY <2>1, <2>2, TailFacts
  <2>4. d.kind = "reply" => d.command \in Nat
    BY <2>3 DEF Data, Reply
  <2> HIDE DEF s, q, d
  <2>5. \A i \in DOMAIN s : s[i].kind = "reply" =>
          /\ s[i].command \in 1 .. command
          /\ \A j \in DOMAIN board.commands : s[i].command < board.commands[j]
          /\ \A j \in DOMAIN s : i < j /\ s[j].kind = "reply" => s[i].command < s[j].command
          /\ d.kind = "reply" => d.command < s[i].command
          /\ \A j \in DOMAIN replyQueue : replyQueue[j] < s[i].command
    BY <2>3 DEF RepliesInOrder
  <2>6. d.kind = "reply" =>
          /\ d.command \in 1 .. command
          /\ \A j \in DOMAIN board.commands : d.command < board.commands[j]
          /\ \A j \in DOMAIN replyQueue : replyQueue[j] < d.command
    BY <2>3 DEF RepliesInOrder
  <2>7. CASE d.kind # "reply"
    BY <2>1, <2>5, <2>7 DEF RepliesInOrder, q
  <2>8. CASE d.kind = "reply"
    <3>1. /\ Len(replyQueue) \in Nat /\ DOMAIN replyQueue = 1 .. Len(replyQueue)
          /\ \A i \in DOMAIN q :
               /\ i \in Nat /\ i <= Len(replyQueue) + 1
               /\ i \in DOMAIN replyQueue => q[i] = replyQueue[i]
               /\ i \notin DOMAIN replyQueue => q[i] = d.command /\ i = Len(replyQueue) + 1
      BY <2>1, <2>2, <2>4, <2>8, AppendFacts
    <3>2. d.command >= Len(replyQueue) + 1
      <4>1. CASE Len(replyQueue) = 0
        BY <2>6, <2>8, <4>1
      <4>2. CASE Len(replyQueue) # 0
        <5>1. Len(replyQueue) \in DOMAIN replyQueue
          BY <3>1, <4>2
        <5>2. replyQueue[Len(replyQueue)] \in Len(replyQueue) .. command
          BY <5>1 DEF RepliesInOrder
        <5>3. replyQueue[Len(replyQueue)] < d.command
          BY <2>6, <2>8, <5>1
        <5>4. QED
          BY <2>4, <2>8, <3>1, <5>2, <5>3
      <4>3. QED
        BY <4>1, <4>2
    <3>3. \A i \in DOMAIN q :
            /\ q[i] \in i .. command
            /\ \A j \in DOMAIN board.commands : q[i] < board.commands[j]
            /\ \A j \in DOMAIN s : s[j].kind = "reply" => q[i] < s[j].command
            /\ \A j \in DOMAIN q : i < j => q[i] < q[j]
      <4>1. TAKE i \in DOMAIN q
      <4>2. CASE i \in DOMAIN replyQueue
        BY <2>2, <2>5, <2>6, <2>8, <3>1, <4>2 DEF RepliesInOrder
      <4>3. CASE i \notin DOMAIN replyQueue
        BY <2>2, <2>5, <2>6, <2>8, <3>1, <3>2, <4>3
      <4>4. QED
        BY <4>2, <4>3
    <3>4. QED
      BY <2>1, <2>5, <3>3 DEF RepliesInOrder, q
  <2>9. QED
    BY <2>7, <2>8
<1>3. QED
  BY <1>1, <1>2

LEMMA LoopReplies ==
  ASSUME TypeOK, Types, Serving, RepliesInOrder, UNCHANGED bound, EventLoop
  PROVE  RepliesInOrder'
<1> USE DEF loopElse, commandVars
<1>1. /\ replyQueue \in Seq(Nat) /\ command \in Nat /\ bound.commands \in Nat
      /\ board \in [run : Nat, sent : Nat, commands : Seq(Nat)] /\ answer \in 0 .. command
  BY BoundType DEF TypeOK, Types, RepliesInOrder
<1>2. CASE SendCommand
  <2> DEFINE b == (board').commands
  <2>1. /\ UNCHANGED <<socket, replyQueue>> /\ command' = command + 1 /\ answer' = 0
        /\ board' = [board EXCEPT !.commands = Append(@, command')] \/ board' = board
    BY <1>2 DEF SendCommand
  <2>2. command + 1 <= bound.commands
    BY <1>1, <1>2 DEF SendCommand, Asked, Serving, Client, Commander
  <2>3. /\ b = board.commands \/ b = Append(board.commands, command + 1)
        /\ board.commands \in Seq(Nat)
    BY <1>1, <2>1
  <2>4. /\ Len(board.commands) \in Nat /\ DOMAIN board.commands = 1 .. Len(board.commands)
        /\ \A i \in DOMAIN b :
             /\ i \in Nat
             /\ i \in DOMAIN board.commands => b[i] = board.commands[i]
             /\ i \notin DOMAIN board.commands =>
                  b[i] = command + 1 /\ i = Len(board.commands) + 1
    <3>1. CASE b = board.commands
      BY <2>3, <3>1
    <3>2. CASE b = Append(board.commands, command + 1)
      BY <1>1, <2>3, <3>2, AppendFacts
    <3>3. QED
      BY <2>3, <3>1, <3>2
  <2>5. \A i \in DOMAIN b : i \notin DOMAIN board.commands => \A j \in DOMAIN b : j <= i
    BY <2>3, <2>4
  <2> HIDE DEF b
  <2>6. \A i \in DOMAIN b :
          b[i] = command + 1 \/ (i \in DOMAIN board.commands /\ b[i] = board.commands[i])
    BY <2>4
  <2>11. \A i \in DOMAIN b : b[i] \in 1 .. command + 1
    <3>1. \A i \in DOMAIN board.commands : board.commands[i] \in 1 .. command
      BY DEF RepliesInOrder
    <3>2. \A i \in DOMAIN b : b[i] \in 1 .. command \/ b[i] = command + 1
      BY <2>6, <3>1
    <3>3. QED
      BY <1>1, <3>2
  <2>7. ASSUME NEW i \in DOMAIN b, NEW j \in DOMAIN b, i < j PROVE b[i] < b[j]
    <3>1. i \in DOMAIN board.commands
      BY <2>4, <2>5, <2>7
    <3>2. CASE j \in DOMAIN board.commands
      BY <2>4, <2>7, <3>1, <3>2 DEF RepliesInOrder
    <3>3. CASE j \notin DOMAIN board.commands
      BY <1>1, <2>4, <3>1, <3>3 DEF RepliesInOrder
    <3>4. QED
      BY <3>2, <3>3
  <2>8. \A i \in DOMAIN socket : socket[i].kind = "reply" =>
          /\ socket[i].command \in 1 .. command + 1
          /\ \A j \in DOMAIN b : socket[i].command < b[j]
    <3>1. \A i \in DOMAIN socket : socket[i].kind = "reply" =>
            /\ socket[i].command \in 1 .. command
            /\ \A j \in DOMAIN board.commands : socket[i].command < board.commands[j]
      BY DEF RepliesInOrder
    <3>2. TAKE i \in DOMAIN socket
    <3>3. HAVE socket[i].kind = "reply"
    <3>4. socket[i].command \in 1 .. command
      BY <3>1, <3>3
    <3>5. ASSUME NEW j \in DOMAIN b PROVE socket[i].command < b[j]
      <4>1. CASE b[j] = command + 1
        BY <1>1, <3>4, <4>1
      <4>2. CASE j \in DOMAIN board.commands /\ b[j] = board.commands[j]
        BY <3>1, <3>3, <4>2
      <4>3. QED
        BY <2>6, <4>1, <4>2
    <3>6. QED
      BY <1>1, <3>4, <3>5
  <2>9. \A i \in DOMAIN replyQueue :
          /\ replyQueue[i] \in i .. command + 1
          /\ \A j \in DOMAIN b : replyQueue[i] < b[j]
    <3>1. TAKE i \in DOMAIN replyQueue
    <3>2. i \in Nat \ {0} /\ replyQueue[i] \in i .. command
      BY <1>1 DEF RepliesInOrder
    <3>3. \A j \in DOMAIN board.commands : replyQueue[i] < board.commands[j]
      BY DEF RepliesInOrder
    <3>5. \A j \in DOMAIN b : replyQueue[i] < b[j]
      BY <1>1, <2>6, <3>2, <3>3
    <3>4. QED
      BY <1>1, <3>2, <3>5
  <2>10. QED
    BY <1>1, <2>1, <2>2, <2>11, <2>7, <2>8, <2>9 DEF RepliesInOrder, b
<1>3. CASE TakeReply
  <2> DEFINE q == Tail(replyQueue)
  <2>1. /\ UNCHANGED <<board, socket, command>> /\ replyQueue' = q /\ replyQueue # << >>
        /\ answer' \in {answer, Head(replyQueue)}
    BY <1>3 DEF TakeReply
  <2>2. /\ Head(replyQueue) = replyQueue[1] /\ 1 \in DOMAIN replyQueue
        /\ \A i \in DOMAIN q : i \in Nat \ {0} /\ i + 1 \in DOMAIN replyQueue /\ q[i] = replyQueue[i + 1]
    BY <1>1, <2>1, TailFacts
  <2> HIDE DEF q
  <2>3. answer' \in 0 .. command
    BY <1>1, <2>1, <2>2 DEF RepliesInOrder
  <2>4. \A i \in DOMAIN q :
          /\ q[i] \in i .. command
          /\ \A j \in DOMAIN board.commands : q[i] < board.commands[j]
          /\ \A j \in DOMAIN socket : socket[j].kind = "reply" => q[i] < socket[j].command
    <3>1. TAKE i \in DOMAIN q
    <3>2. i \in Nat /\ q[i] \in i + 1 .. command
      BY <2>2 DEF RepliesInOrder
    <3>3. QED
      BY <1>1, <2>2, <3>2 DEF RepliesInOrder
  <2>5. ASSUME NEW i \in DOMAIN q, NEW j \in DOMAIN q, i < j PROVE q[i] < q[j]
    <3>1. /\ i + 1 \in DOMAIN replyQueue /\ q[i] = replyQueue[i + 1]
          /\ j + 1 \in DOMAIN replyQueue /\ q[j] = replyQueue[j + 1] /\ i + 1 < j + 1
      BY <2>2, <2>5
    <3>2. QED
      BY <3>1 DEF RepliesInOrder
  <2>6. QED
    BY <2>1, <2>3, <2>4, <2>5 DEF RepliesInOrder
<1>4. CASE ~SendCommand /\ ~TakeReply
  BY <1>4 DEF EventLoop, DoStart, SecondWipe, DoStop, DoGetPointers, DoSetReadPointer, GiveUp,
              RepliesInOrder
<1>5. QED
  BY <1>2, <1>3, <1>4

LEMMA NextReplies ==
  ASSUME TypeOK, Types, Serving, RepliesInOrder, [Next]_<<bound, vars>>
  PROVE  RepliesInOrder'
<1>1. UNCHANGED bound
  BY DEF Next
<1>2. CASE Clients
  <2>1. UNCHANGED <<command, answer, socket, replyQueue>>
    BY <1>2 DEF Clients, HangUp, AskToStart, AskToStop, AskForPointers, AskToFree, AskToCommand,
                clientElse, commandVars
  <2>2. (board').commands = board.commands
    BY <1>2 DEF Clients, HangUp, AskToStart, AskToStop, AskForPointers, AskToFree, AskToCommand,
                Types
  <2>3. QED
    BY <1>1, <2>1, <2>2 DEF RepliesInOrder
<1>3. CASE UNCHANGED vars \/ CatchUserStop \/ LeaveLoop
  BY <1>1, <1>3 DEF vars, CatchUserStop, LeaveLoop, commandVars, RepliesInOrder
<1>4. QED
  BY <1>1, <1>2, <1>3, BoardReplies, WorkerReplies, LoopReplies DEF Next

LEMMA NextTypes ==
  ASSUME TypeOK, Types, Serving, RepliesInOrder, [Next]_<<bound, vars>>
  PROVE  TypeOK' /\ Types'
<1>1. UNCHANGED bound
  BY DEF Next
<1>2. RepliesInOrder'
  BY NextReplies
<1>3. QED
  BY <1>1, <1>2, BoardTypes, WorkerTypes, ClientTypes, LoopTypes, EndTypes DEF Next

----------------------------------------------------------------------------
(* The ring *)

\* A run is settled by the second wipe, which has waited for the worker, and by
\* nothing else; no other run is started as long as it is.
LEMMA SettledBySecondWipe ==
  ASSUME TypeOK, Types, Serving, [Next]_<<bound, vars>>, Settled'
  PROVE  /\ Settled \/ (SecondWipe /\ ~globalUserStop)
         /\ (board').run = board.run
<1> USE DEF ringVars, workerVars, loopVars, commandVars, acquirer, stopVars
<1>0. /\ client \in [Client -> {"none", "start", "stop", "pointers", "free", "command"}]
      /\ Client = {Acquirer, Commander} /\ Acquirer # Commander
      /\ board \in [run : Nat, sent : Nat, commands : Seq(Nat)]
      /\ acquiring \in BOOLEAN /\ globalUserStop \in BOOLEAN
  BY DEF Types, Client, Acquirer, Commander
<1>1. CASE UNCHANGED vars \/ Worker \/ LeaveLoop
  <2>1. CASE Crash
    <3>1. UNCHANGED <<acquiring, block, board>> /\ lpc' = "dead"
      BY <2>1 DEF Crash
    <3>2. QED
      BY <3>1 DEF Settled, Serving
  <2>2. CASE ~Crash
    <3>1. UNCHANGED <<acquiring, client, globalUserStop, block, board>> /\ (lpc = "dead" => lpc' = "dead")
      BY <1>1, <2>2 DEF vars, Worker, Exit, Receive, Claim, Copy, Publish, workerElse, LeaveLoop
    <3>2. QED
      BY <3>1 DEF Settled
  <2>3. QED
    BY <2>1, <2>2
<1>2. CASE Board
  <2>1. (board').run = board.run
    BY <1>0, <1>2 DEF Board, SendData, SendReply
  <2>2. QED
    BY <1>2, <2>1 DEF Board, Settled
<1>3. CASE Clients
  <2> USE <1>0 DEF Settled, clientElse, Ask
  <2>1. ASSUME NEW c \in Client, HangUp(c) PROVE Settled /\ (board').run = board.run
    BY <2>1 DEF HangUp
  <2>2. ~AskToStart
    BY DEF AskToStart
  <2>3. ~AskToStop
    BY DEF AskToStop
  <2>4. CASE AskForPointers \/ AskToFree \/ AskToCommand
    BY <2>4 DEF AskForPointers, AskToFree, AskToCommand
  <2>5. QED
    BY <1>3, <2>1, <2>2, <2>3, <2>4 DEF Clients
<1>4. CASE EventLoop
  <2> USE <1>0 DEF Settled, loopElse, Asked, Answer, Serving
  <2>1. CASE DoStart
    BY <2>1 DEF DoStart
  <2>2. CASE DoStop
    BY <2>2 DEF DoStop
  <2>3. CASE SecondWipe
    BY <2>3 DEF SecondWipe
  <2>4. CASE DoGetPointers \/ DoSetReadPointer
    BY <2>4 DEF DoGetPointers, DoSetReadPointer
  <2>5. CASE SendCommand
    <3>1. (board').run = board.run
      BY <2>5 DEF SendCommand
    <3>2. QED
      BY <2>5, <3>1 DEF SendCommand
  <2>6. CASE TakeReply \/ GiveUp
    BY <2>6 DEF TakeReply, GiveUp
  <2>7. QED
    BY <1>4, <2>1, <2>2, <2>3, <2>4, <2>5, <2>6 DEF EventLoop
<1>5. CASE CatchUserStop
  BY <1>0, <1>5 DEF CatchUserStop, Settled
<1>6. QED
  BY <1>1, <1>2, <1>3, <1>4, <1>5 DEF Next

LEMMA NextRoom ==
  ASSUME TypeOK, Types, Serving, Room, [Next]_<<bound, vars>>
  PROVE  Room'
<1> USE DEF ringVars, workerVars, loopVars, commandVars, acquirer, stopVars
<1> DEFINE d == Distance(dataFrameReadPointer, dataFrameWritePointer)
<1>0. /\ dataFrameReadPointer \in Pointer /\ dataFrameWritePointer \in Pointer
      /\ 0 \in Pointer /\ block.rd \in Pointer /\ block.wr \in Pointer
      /\ d \in Nat /\ Distance(0, 0) = 0 /\ QueueSize \in Nat /\ QueueSize > 1
  <2>1. /\ dataFrameReadPointer \in Pointer /\ dataFrameWritePointer \in Pointer
        /\ 0 \in Pointer /\ block.rd \in Pointer /\ block.wr \in Pointer
        /\ QueueSize \in Nat /\ QueueSize > 1
    BY QueueSizeAssumption DEF TypeOK, Types, Pointer
  <2>2. QED
    BY <2>1, DistanceType
<1>1. Settled' => Settled \/ SecondWipe
  BY SettledBySecondWipe
<1>2. CASE UNCHANGED <<ringVars, block, wpc, dataFrame>> /\ ~SecondWipe
  BY <1>1, <1>2 DEF Room
<1>3. CASE Worker
  <2> USE DEF workerElse
  <2>1. CASE Exit \/ Receive
    BY <1>1, <2>1 DEF Exit, Receive, Room, Loop
  <2>2. CASE Claim
    <3>1. IsFull(dataFrameWritePointer, dataFrameReadPointer) <=> d = QueueSize
      BY <1>0, FullAtQueueSize DEF Room
    <3>2. QED
      BY <1>0, <2>2, <3>1 DEF Claim, Room
  <2>3. CASE Copy
    <3>1. /\ UNCHANGED <<ringVars, block>> /\ wpc = "copy"
          /\ wpc' \in {"copy", "publish"} => dataFrame' = dataFrame
      BY <2>3 DEF Copy, EndOfDatagram, Loop
    <3>2. Settled' => Settled
      BY <2>3 DEF Copy, Settled
    <3>3. QED
      BY <3>1, <3>2 DEF Room
  <2>4. CASE Publish
    <3>1. wpc' \notin {"copy", "publish"} /\ UNCHANGED <<block, dataFrameReadPointer>>
      BY <2>4 DEF Publish, PublishFrame, EndOfDatagram, Loop
    <3>2. CASE dataFrame = DevNull
      BY <2>4, <3>1, <3>2 DEF Publish, Room
    <3>3. CASE dataFrame # DevNull
      <4>1. d < QueueSize /\ dataFrameWritePointer' = Wrap(dataFrameWritePointer + 1)
        BY <2>4, <3>3 DEF Publish, PublishFrame, Room
      <4>2. Distance(dataFrameReadPointer, Wrap(dataFrameWritePointer + 1)) = d + 1
        BY <1>0, <4>1, Advance
      <4>3. block # NoBlock => Distance(dataFrameReadPointer, block.wr) \in Nat
        BY <1>0, DistanceType
      <4>4. QED
        BY <1>0, <3>1, <4>1, <4>2, <4>3 DEF Room
    <3>4. QED
      BY <3>2, <3>3
  <2>5. CASE Crash
    <3>1. UNCHANGED <<ringVars, block>> /\ wpc' = "exited"
      BY <2>5 DEF Crash
    <3>2. QED
      BY <3>1 DEF Room
  <2>6. QED
    BY <1>3, <2>1, <2>2, <2>3, <2>4, <2>5 DEF Worker
<1>4. CASE HangUp(Acquirer) \/ AskToStart \/ AskToStop
  <2>1. UNCHANGED <<ringVars, wpc, dataFrame>> /\ block' = NoBlock /\ ~Settled'
    BY <1>4 DEF HangUp, AskToStart, AskToStop, Ask, clientElse, Settled, Types, Client
  <2>2. QED
    BY <2>1 DEF Room
<1>5. CASE DoStart \/ DoStop \/ SecondWipe
  <2>1. /\ dataFrameReadPointer' = 0 /\ dataFrameWritePointer' = 0
        /\ UNCHANGED <<block, wpc, dataFrame>> /\ block = NoBlock
    BY <1>5 DEF DoStart, DoStop, SecondWipe, WipeBuffers, loopElse, Asked, Serving
  <2>2. Settled' => wpc = "recv"
    <3>1. CASE DoStart \/ DoStop
      BY <3>1 DEF DoStart, DoStop, Settled, Serving, Asked, loopElse
    <3>2. CASE SecondWipe
      BY <2>1, <3>2 DEF SecondWipe, Settled, loopElse
    <3>3. QED
      BY <1>5, <3>1, <3>2
  <2>3. QED
    BY <1>0, <2>1, <2>2 DEF Room
<1>6. CASE DoGetPointers
  <2>1. /\ UNCHANGED <<ringVars, wpc, dataFrame>>
        /\ block' = [rd |-> dataFrameReadPointer, wr |-> dataFrameWritePointer]
    BY <1>6 DEF DoGetPointers, loopElse
  <2>2. Settled' => Settled
    BY <1>1, <1>6, <2>1 DEF DoGetPointers, SecondWipe, Asked
  <2>3. QED
    BY <1>0, <2>1, <2>2 DEF Room
<1>7. CASE DoSetReadPointer
  <2>1. /\ UNCHANGED <<dataFrameWritePointer, wpc, dataFrame>> /\ block' = NoBlock /\ block # NoBlock
        /\ dataFrameReadPointer' = Wrap(block.wr)
    BY <1>7 DEF DoSetReadPointer, SetDataFrameReadPointer, loopElse, Asked, Serving
  <2>2. Settled' => Settled
    BY <1>1, <1>7 DEF DoSetReadPointer, SecondWipe, Asked
  <2>3. Wrap(block.wr) = block.wr
    BY <1>0, QueueSizeAssumption DEF Wrap, Pointer
  <2>4. Distance(block.wr, dataFrameWritePointer) <= d
    BY <1>0, <2>1, WindowSplit DEF Room
  <2>5. Distance(block.wr, dataFrameWritePointer) \in Nat
    BY <1>0, DistanceType
  <2>6. QED
    BY <1>0, <2>1, <2>2, <2>3, <2>4, <2>5 DEF Room
<1>8. QED
  <2>1. CASE Clients /\ ~HangUp(Acquirer) /\ ~AskToStart /\ ~AskToStop
    <3>1. UNCHANGED <<ringVars, block, wpc, dataFrame, lpc>>
      BY <2>1 DEF Clients, HangUp, AskForPointers, AskToFree, AskToCommand, clientElse, Client
    <3>2. ~SecondWipe
      BY <3>1 DEF SecondWipe
    <3>3. QED
      BY <1>2, <3>1, <3>2
  <2>2. CASE Board \/ CatchUserStop \/ LeaveLoop \/ SendCommand \/ TakeReply \/ GiveUp
    <3>1. UNCHANGED <<ringVars, block, wpc, dataFrame>>
      BY <2>2 DEF Board, CatchUserStop, LeaveLoop, SendCommand, TakeReply, GiveUp, loopElse
    <3>2. ~SecondWipe
      BY <2>2 DEF Board, CatchUserStop, LeaveLoop, SendCommand, TakeReply, GiveUp, loopElse,
                  SecondWipe, Asked
    <3>3. QED
      BY <1>2, <3>1, <3>2
  <2>3. CASE UNCHANGED vars
    BY <1>2, <2>3 DEF vars, SecondWipe
  <2>4. QED
    BY <1>3, <1>4, <1>5, <1>6, <1>7, <2>1, <2>2, <2>3 DEF Next, EventLoop, Clients

----------------------------------------------------------------------------
(* The frames on their way *)

\* What the board sends comes behind all it has sent in this run.
LEMMA SendDataIs ==
  ASSUME TypeOK, Types, SendData
  PROVE  \E d \in Data :
           /\ d.run = board.run /\ d.first = board.sent + 1 /\ EndOf(d) = (board').sent
           /\ (board').run = board.run /\ (board').sent > board.sent /\ (board').sent \in Nat
           /\ \A i \in DOMAIN socket' :
                /\ i \in Nat
                /\ i \in DOMAIN socket => socket'[i] = socket[i]
                /\ i \notin DOMAIN socket => socket'[i] = d /\ \A j \in DOMAIN socket' : j <= i
<1>1. PICK n \in 1 .. 2, bad \in 0 .. 2, span \in 0 .. MaxSpan :
        /\ Deliver([kind |-> "data", run |-> board.run, first |-> board.sent + 1, n |-> n,
                    bad |-> bad, span |-> span])
        /\ board' = [run |-> board.run, sent |-> board.sent + n, commands |-> board.commands]
  BY SendDataDelivers
<1> DEFINE d == [kind |-> "data", run |-> board.run, first |-> board.sent + 1, n |-> n, bad |-> bad,
          span |-> span]
<1>2. board \in [run : Nat, sent : Nat, commands : Seq(Nat)]
  BY DEF Types
<1>3. d \in Data /\ d \in Data \cup Reply
  BY <1>2 DEF Data
<1>4. EndOf(d) = board.sent + n
  BY <1>2 DEF EndOf
<1>5. d.run = board.run /\ d.first = board.sent + 1
  OBVIOUS
<1>6. (board').run = board.run /\ (board').sent = board.sent + n
  BY <1>1, <1>2
<1>7. Deliver(d)
  BY <1>1
<1> HIDE DEF d
<1>8. \A i \in DOMAIN socket' :
        /\ i \in Nat
        /\ i \in DOMAIN socket => socket'[i] = socket[i]
        /\ i \notin DOMAIN socket => socket'[i] = d /\ \A j \in DOMAIN socket' : j <= i
  BY <1>3, <1>7, Delivered, BoundType DEF TypeOK, Types
<1>9. QED
  BY <1>2, <1>3, <1>4, <1>5, <1>6, <1>8

\* A reply leaves the data as they are.
LEMMA SendReplyIs ==
  ASSUME TypeOK, Types, SendReply
  PROVE  /\ (board').run = board.run /\ (board').sent = board.sent
         /\ \A i \in DOMAIN socket' : (socket'[i]).kind = "data" =>
              i \in DOMAIN socket /\ socket'[i] = socket[i]
<1> DEFINE d == [kind |-> "reply", command |-> Head(board.commands)]
<1>1. board \in [run : Nat, sent : Nat, commands : Seq(Nat)] /\ board.commands # << >> /\ Deliver(d)
  BY DEF Types, SendReply
<1>2. Head(board.commands) \in Nat
  BY <1>1, TailFacts
<1>3. d \in Data \cup Reply /\ d.kind = "reply"
  BY <1>2 DEF Reply
<1> HIDE DEF d
<1>4. \A i \in DOMAIN socket' :
        /\ i \in Nat
        /\ i \in DOMAIN socket => socket'[i] = socket[i]
        /\ i \notin DOMAIN socket => socket'[i] = d /\ \A j \in DOMAIN socket' : j <= i
  BY <1>1, <1>3, Delivered, BoundType DEF TypeOK, Types
<1>5. \A i \in DOMAIN socket' : (socket'[i]).kind = "data" => i \in DOMAIN socket
  BY <1>3, <1>4
<1>6. (board').run = board.run /\ (board').sent = board.sent
  BY <1>1 DEF SendReply
<1>7. QED
  BY <1>4, <1>5, <1>6

\* What the worker does with the datagram it takes off the socket.
LEMMA ReceiveIs ==
  ASSUME TypeOK, Types, Receive
  PROVE  /\ socket[1] \in Data \cup Reply /\ 1 \in DOMAIN socket
         /\ \A i \in DOMAIN socket' : i \in Nat \ {0} /\ i + 1 \in DOMAIN socket
                                      /\ socket'[i] = socket[i + 1]
         /\ AtFrame' => /\ datagram' = socket[1] /\ at' = 1 /\ wpc' = "claim"
                        /\ socket[1] \in Data /\ socket[1].kind = "data"
         /\ UNCHANGED <<ringVars, ring, board, acquirer, client, globalUserStop>>
<1>1. /\ socket # << >> /\ socket' = Tail(socket)
      /\ wpc' \in {"recv", "exited"} \/ (Taken(Head(socket)) /\ wpc' = "claim"
                                         /\ datagram' = Head(socket) /\ at' = 1)
      /\ UNCHANGED <<ringVars, ring, board, acquirer, client, globalUserStop>>
  BY DEF Receive, Loop, workerElse, loopVars, stopVars
<1>2. /\ Head(socket) \in Data \cup Reply /\ Head(socket) = socket[1] /\ 1 \in DOMAIN socket
      /\ \A i \in DOMAIN Tail(socket) : i \in Nat \ {0} /\ i + 1 \in DOMAIN socket
                                        /\ Tail(socket)[i] = socket[i + 1]
  BY <1>1, TailFacts DEF Types
<1>3. Taken(Head(socket)) => Head(socket) \in Data /\ Head(socket).kind = "data"
  BY <1>2 DEF Taken, Data, Reply
<1>4. QED
  BY <1>1, <1>2, <1>3 DEF AtFrame

LEMMA NextDataInOrder ==
  ASSUME TypeOK, Types, DataInOrder, [Next]_<<bound, vars>>
  PROVE  DataInOrder'
<1> USE DEF ringVars, workerVars, loopVars, commandVars, acquirer, stopVars
<1>0. /\ board \in [run : Nat, sent : Nat, commands : Seq(Nat)]
      /\ \A i \in DOMAIN socket : socket[i].kind = "data" => socket[i] \in Data
  <2>1. \A i \in DOMAIN socket : socket[i] \in Data \cup Reply
    BY DEF Types
  <2>2. QED
    BY <2>1 DEF Types, Reply
<1>1. CASE SendData /\ Board
  <2>1. PICK d \in Data :
          /\ d.run = board.run /\ d.first = board.sent + 1 /\ EndOf(d) = (board').sent
          /\ (board').run = board.run /\ (board').sent > board.sent /\ (board').sent \in Nat
          /\ \A i \in DOMAIN socket' :
               /\ i \in Nat
               /\ i \in DOMAIN socket => socket'[i] = socket[i]
               /\ i \notin DOMAIN socket => socket'[i] = d /\ \A j \in DOMAIN socket' : j <= i
    BY <1>1, SendDataIs
  <2>2. \A i \in DOMAIN socket : socket[i].kind = "data" => EndOf(socket[i]) \in Nat
    BY <1>0 DEF Data, EndOf, DataInOrder
  <2>3. ASSUME NEW i \in DOMAIN socket', (socket'[i]).kind = "data"
        PROVE  /\ (socket'[i]).run <= board.run /\ (socket'[i]).first >= 1
               /\ (socket'[i]).run = board.run =>
                    /\ EndOf(socket'[i]) <= (board').sent
                    /\ \A j \in DOMAIN socket' :
                         i < j /\ (socket'[j]).kind = "data" /\ (socket'[j]).run = board.run =>
                           EndOf(socket'[i]) < (socket'[j]).first
    <3>1. CASE i \notin DOMAIN socket
      <4>1. socket'[i] = d /\ i \in Nat /\ \A j \in DOMAIN socket' : j \in Nat /\ j <= i
        BY <2>1, <3>1
      <4>2. QED
        BY <1>0, <2>1, <4>1
    <3>2. CASE i \in DOMAIN socket
      <4>1. socket'[i] = socket[i]
        BY <2>1, <3>2
      <4>2. socket[i].run <= board.run /\ socket[i].first >= 1
        BY <2>3, <3>2, <4>1 DEF DataInOrder
      <4>3. ASSUME socket[i].run = board.run
            PROVE  /\ EndOf(socket[i]) <= board.sent /\ EndOf(socket[i]) \in Nat
                   /\ EndOf(socket[i]) <= (board').sent
        BY <1>0, <2>1, <2>2, <2>3, <3>2, <4>1, <4>3 DEF DataInOrder
      <4>4. ASSUME socket[i].run = board.run, NEW j \in DOMAIN socket', i < j,
                   (socket'[j]).kind = "data", (socket'[j]).run = board.run
            PROVE  EndOf(socket[i]) < (socket'[j]).first
        <5>1. CASE j \in DOMAIN socket
          BY <2>1, <2>3, <3>2, <4>1, <4>4, <5>1 DEF DataInOrder
        <5>2. CASE j \notin DOMAIN socket
          BY <1>0, <2>1, <4>3, <4>4, <5>2
        <5>3. QED
          BY <5>1, <5>2
      <4>5. QED
        BY <4>1, <4>2, <4>3, <4>4
    <3>3. QED
      BY <3>1, <3>2
  <2>4. UNCHANGED workerVars
    BY <1>1 DEF Board
  <2>5. QED
    BY <2>1, <2>3, <2>4 DEF DataInOrder, AtFrame
<1>2. CASE SendReply /\ Board
  <2>1. UNCHANGED workerVars
    BY <1>2 DEF Board
  <2>2. QED
    BY <1>2, <2>1, SendReplyIs DEF DataInOrder, AtFrame
<1>3. CASE Receive
  <2>1. UNCHANGED board
    BY <1>3, ReceiveIs
  <2>2. AtFrame' => (datagram').run <= board.run /\ (datagram').first >= 1
    BY <1>3, ReceiveIs DEF DataInOrder
  <2>3. ASSUME NEW i \in DOMAIN socket', (socket'[i]).kind = "data"
        PROVE  /\ (socket'[i]).run <= board.run /\ (socket'[i]).first >= 1
               /\ (socket'[i]).run = board.run => EndOf(socket'[i]) <= board.sent
    BY <1>3, <2>3, ReceiveIs DEF DataInOrder
  <2>4. ASSUME NEW i \in DOMAIN socket', NEW j \in DOMAIN socket', i < j,
               (socket'[i]).kind = "data", (socket'[i]).run = board.run,
               (socket'[j]).kind = "data", (socket'[j]).run = board.run
        PROVE  EndOf(socket'[i]) < (socket'[j]).first
    <3>1. /\ i + 1 \in DOMAIN socket /\ socket'[i] = socket[i + 1]
          /\ j + 1 \in DOMAIN socket /\ socket'[j] = socket[j + 1] /\ i + 1 < j + 1
      BY <1>3, <2>4, ReceiveIs
    <3>2. QED
      BY <2>4, <3>1 DEF DataInOrder
  <2>5. QED
    BY <2>1, <2>2, <2>3, <2>4 DEF DataInOrder
<1>4. CASE Exit \/ Claim \/ Copy \/ Crash \/ Publish
  <2>1. UNCHANGED <<board, socket>> /\ (AtFrame' => AtFrame /\ datagram' = datagram)
    BY <1>4 DEF Exit, Claim, Copy, Crash, Publish, workerElse, AtFrame, EndOfDatagram, Loop
  <2>2. QED
    BY <2>1 DEF DataInOrder
<1>5. CASE AskToStart
  <2>1. UNCHANGED <<socket, workerVars>> /\ board' = [board EXCEPT !.run = @ + 1, !.sent = 0]
    BY <1>5 DEF AskToStart, clientElse
  <2>2. (board').run = board.run + 1
    BY <1>0, <2>1
  <2>3. \A i \in DOMAIN socket : socket[i].kind = "data" =>
          socket[i].run \in Nat /\ socket[i].run <= board.run /\ socket[i].first >= 1
    BY <1>0 DEF DataInOrder, Data
  <2>4. AtFrame => datagram.run \in Nat /\ datagram.run <= board.run /\ datagram.first >= 1
    BY DEF DataInOrder, Types, Data
  <2>5. \A i \in DOMAIN socket : socket[i].kind = "data" =>
          socket[i].run <= board.run + 1 /\ socket[i].run # board.run + 1
    BY <1>0, <2>3
  <2>6. AtFrame => datagram.run <= board.run + 1
    BY <1>0, <2>4
  <2>7. QED
    BY <2>1, <2>2, <2>3, <2>4, <2>5, <2>6 DEF DataInOrder, AtFrame
<1>6. CASE /\ UNCHANGED <<socket, workerVars>>
           /\ (board').run = board.run /\ (board').sent = board.sent
  BY <1>6 DEF DataInOrder, AtFrame
<1>7. CASE Clients /\ ~AskToStart
  BY <1>6, <1>7 DEF Clients, HangUp, AskToStop, AskForPointers, AskToFree, AskToCommand, clientElse
<1>8. CASE EventLoop
  <2>1. CASE SendCommand
    BY <1>0, <1>6, <2>1 DEF SendCommand, loopElse
  <2>2. CASE ~SendCommand
    BY <1>6, <1>8, <2>2 DEF EventLoop, DoStart, SecondWipe, DoStop, DoGetPointers, DoSetReadPointer,
                            TakeReply, GiveUp, loopElse
  <2>3. QED
    BY <2>1, <2>2
<1>9. CASE UNCHANGED vars \/ CatchUserStop \/ LeaveLoop
  BY <1>6, <1>9 DEF vars, CatchUserStop, LeaveLoop
<1>10. QED
  BY <1>1, <1>2, <1>3, <1>4, <1>5, <1>7, <1>8, <1>9 DEF Next, Board, Worker

\* Steps that leave what is on its way alone, and what is in the ring.
Elsewhere ==
  /\ UNCHANGED <<socket, dataFrameWritePointer, dataFrameReadPointer, ring, workerVars>>
  /\ (board').sent = board.sent

LEMMA ElsewhereIs ==
  ASSUME Types, [Next]_<<bound, vars>>
  PROVE  \/ Elsewhere /\ ~SecondWipe
         \/ Board \/ Worker \/ AskToStart
         \/ DoStart \/ SecondWipe \/ DoStop \/ DoSetReadPointer
<1> USE DEF ringVars, workerVars, Elsewhere
<1>1. CASE UNCHANGED vars \/ CatchUserStop \/ LeaveLoop
  BY <1>1 DEF vars, CatchUserStop, LeaveLoop, SecondWipe, loopVars
<1>2. CASE Clients /\ ~AskToStart
  BY <1>2 DEF Clients, HangUp, AskToStop, AskForPointers, AskToFree, AskToCommand, clientElse, SecondWipe
<1>3. CASE SendCommand
  <2>1. (board').sent = board.sent
    BY <1>3 DEF SendCommand, Types
  <2>2. QED
    BY <1>3, <2>1 DEF SendCommand, loopElse, SecondWipe, Asked
<1>4. CASE DoGetPointers \/ TakeReply \/ GiveUp
  BY <1>4 DEF DoGetPointers, TakeReply, GiveUp, loopElse, SecondWipe, Asked
<1>5. QED
  BY <1>1, <1>2, <1>3, <1>4 DEF Next, EventLoop

LEMMA NextComing ==
  ASSUME TypeOK, Types, Serving, DataInOrder, Coming, [Next]_<<bound, vars>>
  PROVE  Coming'
<1> SUFFICES ASSUME Settled' PROVE Coming'
  BY DEF Coming
<1> USE DEF workerVars
<1>0. /\ Settled \/ (SecondWipe /\ ~globalUserStop)
      /\ (board').run = board.run
      /\ board \in [run : Nat, sent : Nat, commands : Seq(Nat)]
  BY SettledBySecondWipe DEF Types
<1>1. CASE SecondWipe /\ ~globalUserStop
  BY <1>1 DEF SecondWipe, Coming, AtFrame, loopElse
<1>2. CASE Settled /\ (Elsewhere \/ DoStart \/ SecondWipe \/ DoStop \/ DoSetReadPointer)
  <2>1. UNCHANGED <<socket, workerVars>> /\ (board').sent = board.sent
    BY <1>2 DEF Elsewhere, DoStart, SecondWipe, DoStop, DoSetReadPointer, loopElse
  <2>2. QED
    BY <1>0, <1>2, <2>1 DEF Coming, AtFrame
<1>3. CASE Settled /\ Board
  <2>1. UNCHANGED workerVars
    BY <1>3 DEF Board
  <2>2. AtFrame => EndOf(datagram) \in Nat
    BY DEF Types, DataInOrder, EndOf, Data
  <2>3. CASE SendData
    <3>1. PICK d \in Data :
            /\ d.run = board.run /\ d.first = board.sent + 1
            /\ (board').sent > board.sent /\ (board').sent \in Nat
            /\ \A i \in DOMAIN socket' :
                 /\ i \in DOMAIN socket => socket'[i] = socket[i]
                 /\ i \notin DOMAIN socket => socket'[i] = d
      BY <2>3, SendDataIs
    <3>2. AtFrame => EndOf(datagram) <= (board').sent /\ EndOf(datagram) < d.first
      BY <1>0, <1>3, <2>2, <3>1 DEF Coming
    <3>3. QED
      BY <1>0, <1>3, <2>1, <3>1, <3>2 DEF Coming, AtFrame
  <2>4. CASE SendReply
    BY <1>0, <1>3, <2>1, <2>4, SendReplyIs DEF Coming, AtFrame
  <2>5. QED
    BY <1>3, <2>3, <2>4 DEF Board
<1>4. CASE Settled /\ Receive
  <2>1. /\ socket[1] \in Data \cup Reply /\ 1 \in DOMAIN socket
        /\ \A i \in DOMAIN socket' : i \in Nat \ {0} /\ i + 1 \in DOMAIN socket
                                     /\ socket'[i] = socket[i + 1]
        /\ AtFrame' => /\ datagram' = socket[1]
                       /\ socket[1] \in Data /\ socket[1].kind = "data"
        /\ board' = board
    BY <1>4, ReceiveIs
  <2>2. \A i \in DOMAIN socket' : (socket'[i]).kind = "data" => (socket'[i]).run = board.run
    BY <1>4, <2>1 DEF Coming
  <2>3. ASSUME AtFrame'
        PROVE  /\ (datagram').run = board.run /\ EndOf(datagram') <= board.sent
               /\ \A i \in DOMAIN socket' : (socket'[i]).kind = "data" =>
                    EndOf(datagram') < (socket'[i]).first
    <3>1. socket[1].run = board.run /\ EndOf(socket[1]) <= board.sent
      BY <1>4, <2>1, <2>3 DEF Coming, DataInOrder
    <3>2. ASSUME NEW i \in DOMAIN socket', (socket'[i]).kind = "data"
          PROVE  EndOf(socket[1]) < (socket'[i]).first
      <4>1. i + 1 \in DOMAIN socket /\ socket'[i] = socket[i + 1] /\ 1 < i + 1
        BY <2>1
      <4>2. QED
        BY <2>1, <2>2, <2>3, <3>1, <3>2, <4>1 DEF DataInOrder
    <3>3. QED
      BY <2>1, <2>3, <3>1, <3>2
  <2>4. QED
    BY <1>0, <2>1, <2>2, <2>3 DEF Coming
<1>5. CASE Settled /\ (Exit \/ Claim \/ Copy \/ Crash \/ Publish)
  <2>1. UNCHANGED <<board, socket>> /\ (AtFrame' => AtFrame /\ datagram' = datagram)
    BY <1>5 DEF Exit, Claim, Copy, Crash, Publish, workerElse, AtFrame, EndOfDatagram, Loop
  <2>2. QED
    BY <1>0, <1>5, <2>1 DEF Coming
<1>6. ~AskToStart
  BY DEF AskToStart, Ask, Settled, Types, Client
<1>7. QED
  BY <1>0, <1>1, <1>2, <1>3, <1>4, <1>5, <1>6, ElsewhereIs DEF Worker

LEMMA NextRingInOrder ==
  ASSUME TypeOK, Types, Serving, Room, DataInOrder, Coming, RingInOrder, [Next]_<<bound, vars>>
  PROVE  RingInOrder'
<1> SUFFICES ASSUME Settled' PROVE RingInOrder'
  BY DEF RingInOrder
<1> USE DEF ringVars, workerVars
<1>0. /\ dataFrameReadPointer \in Pointer /\ dataFrameWritePointer \in Pointer
      /\ board \in [run : Nat, sent : Nat, commands : Seq(Nat)]
      /\ (board').run = board.run
      /\ Settled \/ (SecondWipe /\ ~globalUserStop)
      /\ \A p \in Pointer : Wrap(p + 1) \in Pointer
  <2>1. \A p \in Pointer : p + 1 \in Nat /\ p + 1 < 4 * QueueSize
    BY QueueSizeAssumption DEF Pointer
  <2>2. QED
    BY <2>1, WrapType, SettledBySecondWipe DEF TypeOK, Types
\* The frames that stay where they are, in a window that is not wider.
<1>1. ASSUME Settled, UNCHANGED ring,
             \A p \in Pointer : Queued(p)' => Queued(p),
             (board').sent \in Nat, (board').sent >= board.sent,
             AtFrame' => \A p \in Pointer : Queued(p) => ring[Slot(p)].id < (datagram').first + at' - 1,
             \A i \in DOMAIN socket' : (socket'[i]).kind = "data" =>
               \A p \in Pointer : Queued(p) => ring[Slot(p)].id < (socket'[i]).first,
             wpc' = "publish" => /\ wpc = "publish"
                                 /\ UNCHANGED <<datagram, at, dataFrame>>
      PROVE  RingInOrder'
  <2>1. ASSUME NEW p \in Pointer, Queued(p)'
        PROVE  /\ ring[Slot(p)].run = board.run /\ ring[Slot(p)].id \in 1 .. (board').sent
               /\ (ring[Slot(p)].over => MaxSpan > 0)
               /\ AtFrame' => ring[Slot(p)].id < (datagram').first + at' - 1
               /\ \A i \in DOMAIN socket' : (socket'[i]).kind = "data" =>
                    ring[Slot(p)].id < (socket'[i]).first
               /\ Queued(Wrap(p + 1))' => ring[Slot(p)].id < ring[Slot(Wrap(p + 1))].id
    <3>1. /\ ring[Slot(p)].run = board.run /\ ring[Slot(p)].id \in 1 .. board.sent
          /\ (ring[Slot(p)].over => MaxSpan > 0)
          /\ Queued(Wrap(p + 1)) => ring[Slot(p)].id < ring[Slot(Wrap(p + 1))].id
      BY <1>1, <2>1 DEF RingInOrder
    <3>2. ring[Slot(p)].id \in 1 .. (board').sent
      BY <1>0, <1>1, <3>1
    <3>3. QED
      BY <1>0, <1>1, <2>1, <3>1, <3>2
  <2>2. wpc' = "publish" /\ dataFrame' # DevNull =>
          ring[dataFrame'] = CurFrame'
    BY <1>1 DEF RingInOrder, CurFrame
  <2>3. QED
    BY <1>0, <1>1, <2>1, <2>2 DEF RingInOrder
<1>2. CASE Settled /\ Elsewhere
  <2>1. \A p \in Pointer : Queued(p)' <=> Queued(p)
    BY <1>2 DEF Elsewhere, Queued
  <2>2. AtFrame' = AtFrame
    BY <1>2 DEF Elsewhere, AtFrame
  <2>3. QED
    BY <1>0, <1>2, <2>1, <2>2 DEF Elsewhere, RingInOrder, CurFrame
<1>3. CASE Settled /\ Board
  <2>1. UNCHANGED <<dataFrameWritePointer, dataFrameReadPointer, ring, workerVars>>
    BY <1>3 DEF Board
  <2>2. \A p \in Pointer : Queued(p)' <=> Queued(p)
    BY <2>1 DEF Queued
  <2>3. /\ (board').sent \in Nat /\ (board').sent >= board.sent
        /\ \A i \in DOMAIN socket' : (socket'[i]).kind = "data" =>
             \/ i \in DOMAIN socket /\ socket'[i] = socket[i]
             \/ (socket'[i]).first = board.sent + 1
    <3>1. CASE SendData
      BY <1>0, <3>1, SendDataIs
    <3>2. CASE SendReply
      BY <1>0, <3>2, SendReplyIs
    <3>3. QED
      BY <1>3, <3>1, <3>2 DEF Board
  <2>4. ASSUME NEW i \in DOMAIN socket', (socket'[i]).kind = "data", NEW p \in Pointer, Queued(p)
        PROVE  ring[Slot(p)].id < (socket'[i]).first
    <3>1. ring[Slot(p)].id \in 1 .. board.sent
      BY <1>3, <2>4 DEF RingInOrder
    <3>2. CASE i \in DOMAIN socket /\ socket'[i] = socket[i]
      BY <1>3, <2>4, <3>2 DEF RingInOrder
    <3>3. CASE (socket'[i]).first = board.sent + 1
      BY <1>0, <3>1, <3>3
    <3>4. QED
      BY <2>3, <2>4, <3>2, <3>3
  <2>5. AtFrame' => \A p \in Pointer : Queued(p) => ring[Slot(p)].id < (datagram').first + at' - 1
    BY <1>3, <2>1 DEF RingInOrder, AtFrame
  <2>6. QED
    BY <1>1, <1>3, <2>1, <2>2, <2>3, <2>4, <2>5
<1>4. CASE Settled /\ Receive
  <2>1. /\ UNCHANGED <<dataFrameWritePointer, dataFrameReadPointer, ring, board>>
        /\ 1 \in DOMAIN socket
        /\ \A i \in DOMAIN socket' : i + 1 \in DOMAIN socket /\ socket'[i] = socket[i + 1]
        /\ AtFrame' => /\ datagram' = socket[1] /\ at' = 1 /\ wpc' = "claim"
                       /\ socket[1] \in Data /\ socket[1].kind = "data"
    BY <1>4, ReceiveIs
  <2>2. \A p \in Pointer : Queued(p)' <=> Queued(p)
    BY <2>1 DEF Queued
  <2>3. \A i \in DOMAIN socket' : (socket'[i]).kind = "data" =>
          \A p \in Pointer : Queued(p) => ring[Slot(p)].id < (socket'[i]).first
    BY <1>4, <2>1 DEF RingInOrder
  <2>4. AtFrame' => \A p \in Pointer : Queued(p) => ring[Slot(p)].id < (datagram').first + at' - 1
    <3>1. AtFrame' => (datagram').first \in Nat /\ (datagram').first + at' - 1 = (datagram').first
      BY <2>1 DEF Data
    <3>2. QED
      BY <1>4, <2>1, <3>1 DEF RingInOrder
  <2>5. wpc' # "publish"
    BY <1>4 DEF Receive, Loop
  <2>6. QED
    BY <1>0, <1>1, <1>4, <2>1, <2>2, <2>3, <2>4, <2>5
<1>5. CASE Settled /\ (Exit \/ Claim)
  <2>1. /\ UNCHANGED <<dataFrameWritePointer, dataFrameReadPointer, ring, board, socket, datagram, at>>
        /\ wpc' # "publish" /\ (AtFrame' => AtFrame)
    BY <1>5 DEF Exit, Claim, workerElse, AtFrame
  <2>2. \A p \in Pointer : Queued(p)' <=> Queued(p)
    BY <2>1 DEF Queued
  <2>3. QED
    BY <1>0, <1>1, <1>5, <2>1, <2>2 DEF RingInOrder
<1>6. CASE Settled /\ (Copy \/ Crash)
  <2>1. /\ UNCHANGED <<dataFrameWritePointer, dataFrameReadPointer, board, socket>>
        /\ wpc = "copy" /\ AtFrame /\ (AtFrame' => datagram' = datagram /\ at' = at)
        /\ wpc' = "publish" => dataFrame' = dataFrame /\ datagram' = datagram /\ at' = at
    BY <1>6 DEF Copy, Crash, workerElse, AtFrame, EndOfDatagram, Loop
  <2>2. \A p \in Pointer : Queued(p)' <=> Queued(p)
    BY <2>1 DEF Queued
  <2>3. ASSUME NEW p \in Pointer, Queued(p)
        PROVE  /\ (ring'[Slot(p)]).run = ring[Slot(p)].run /\ (ring'[Slot(p)]).id = ring[Slot(p)].id
               /\ (ring'[Slot(p)]).over => ring[Slot(p)].over \/ MaxSpan > 0
    <3>1. Slot(p) \in SlotIndex
      BY SlotType
    <3>2. Slot(p) # dataFrame
      <4>1. CASE dataFrame = DevNull
        BY <3>1, <4>1, QueueSizeAssumption DEF DevNull, SlotIndex
      <4>2. CASE dataFrame # DevNull
        <5>1. /\ dataFrame = Slot(dataFrameWritePointer)
              /\ Distance(dataFrameReadPointer, dataFrameWritePointer) < QueueSize
          BY <1>6, <2>1, <4>2 DEF Room
        <5>2. QED
          BY <1>0, <2>3, <5>1, SlotsDistinct DEF Queued
      <4>3. QED
        BY <4>1, <4>2
    <3>3. QED
      BY <1>6, <3>1, <3>2, CopyKeeps
  <2>4. wpc' = "publish" /\ dataFrame' # DevNull => (ring[dataFrame] = CurFrame)'
    <3>1. CurFrame' = [run |-> (datagram').run, id |-> (datagram').first + at' - 1, over |-> FALSE]
      BY DEF CurFrame
    <3>2. wpc' = "publish" => CurFrame' = CurFrame
      BY <2>1, <3>1 DEF CurFrame
    <3>3. wpc' = "publish" /\ dataFrame # DevNull => ring'[dataFrame] = CurFrame
      BY <1>6, CopyKeeps
    <3>4. QED
      BY <2>1, <3>2, <3>3
  <2>5. ASSUME NEW p \in Pointer, Queued(p)'
        PROVE  /\ (ring'[Slot(p)]).run = (board').run /\ (ring'[Slot(p)]).id \in 1 .. (board').sent
               /\ (ring'[Slot(p)]).over => MaxSpan > 0
               /\ AtFrame' => (ring'[Slot(p)]).id < (datagram').first + at' - 1
               /\ \A i \in DOMAIN socket' : (socket'[i]).kind = "data" =>
                    (ring'[Slot(p)]).id < (socket'[i]).first
               /\ Queued(Wrap(p + 1))' => (ring'[Slot(p)]).id < (ring'[Slot(Wrap(p + 1))]).id
    <3>1. /\ Queued(p)
          /\ (ring'[Slot(p)]).run = ring[Slot(p)].run /\ (ring'[Slot(p)]).id = ring[Slot(p)].id
          /\ (ring'[Slot(p)]).over => ring[Slot(p)].over \/ MaxSpan > 0
      BY <2>2, <2>3, <2>5
    <3>2. Queued(Wrap(p + 1))' =>
            Queued(Wrap(p + 1)) /\ (ring'[Slot(Wrap(p + 1))]).id = ring[Slot(Wrap(p + 1))].id
      <4> DEFINE q == Wrap(p + 1)
      <4>1. q \in Pointer
        BY <1>0
      <4>2. Queued(q)' => Queued(q)
        BY <2>1 DEF Queued
      <4> HIDE DEF q
      <4>3. Queued(q) => (ring'[Slot(q)]).id = ring[Slot(q)].id
        BY <2>3, <4>1
      <4>4. QED
        BY <4>2, <4>3 DEF q
    <3>3. QED
      BY <1>0, <1>6, <2>1, <3>1, <3>2 DEF RingInOrder
  <2>6. QED
    BY <2>4, <2>5 DEF RingInOrder

<1>7. CASE Settled /\ Publish
  <2>1. /\ UNCHANGED <<board, socket, ring, dataFrameReadPointer>> /\ wpc = "publish" /\ AtFrame
        /\ AtFrame' => datagram' = datagram /\ at' = at + 1
        /\ wpc' # "publish"
    BY <1>7 DEF Publish, PublishFrame, workerElse, AtFrame, EndOfDatagram, Loop
  <2>2. datagram \in Data /\ at \in 1 .. 2 /\ at <= datagram.n /\ datagram.first >= 1
    BY <2>1 DEF Types, TypeOK, AtFrame, DataInOrder
  <2>3. CASE dataFrame = DevNull
    <3>1. UNCHANGED dataFrameWritePointer
      BY <1>7, <2>3 DEF Publish
    <3>2. \A p \in Pointer : Queued(p)' <=> Queued(p)
      BY <2>1, <3>1 DEF Queued
    <3>3. \A p \in Pointer : Queued(p) => ring[Slot(p)].id < datagram.first + (at + 1) - 1
      <4>1. TAKE p \in Pointer
      <4>2. HAVE Queued(p)
      <4>3. ring[Slot(p)].id \in 1 .. board.sent /\ ring[Slot(p)].id < datagram.first + at - 1
        BY <1>7, <2>1, <4>2 DEF RingInOrder
      <4>4. datagram.first \in Nat
        BY <2>2 DEF Data
      <4>5. QED
        BY <1>0, <2>2, <4>3, <4>4
    <3>4. QED
      BY <1>0, <1>1, <1>7, <2>1, <3>2, <3>3 DEF RingInOrder
  <2>4. CASE dataFrame # DevNull
    <3> DEFINE id == datagram.first + at - 1
    <3>0. PICK w : w = dataFrameWritePointer
      OBVIOUS
    <3>1. /\ dataFrameWritePointer' = Wrap(w + 1) /\ dataFrame = Slot(w)
          /\ Distance(dataFrameReadPointer, w) < QueueSize /\ w \in Pointer
      BY <1>0, <1>7, <2>1, <2>4, <3>0 DEF Publish, PublishFrame, Room
    <3>2. /\ \A p \in Pointer : Queued(p)' <=> p = w \/ Queued(p)
          /\ ~Queued(Wrap(w + 1))'
      <4>1. /\ \A p \in Pointer : InWindow(p, dataFrameReadPointer, Wrap(w + 1)) <=>
                  p = w \/ InWindow(p, dataFrameReadPointer, w)
            /\ ~InWindow(Wrap(w + 1), dataFrameReadPointer, Wrap(w + 1))
        BY <1>0, <3>1, Advance
      <4>2. QED
        BY <2>1, <3>0, <3>1, <4>1 DEF Queued
    <3>3. ring[Slot(w)] = [run |-> datagram.run, id |-> id, over |-> FALSE]
      BY <1>7, <2>1, <2>4, <3>1 DEF RingInOrder, CurFrame
    <3>4. /\ datagram.run = board.run /\ EndOf(datagram) <= board.sent
          /\ \A i \in DOMAIN socket : socket[i].kind = "data" => EndOf(datagram) < socket[i].first
      BY <1>7, <2>1 DEF Coming
    <3>5. /\ id \in Nat /\ id >= 1 /\ id <= EndOf(datagram) /\ EndOf(datagram) \in Nat
          /\ id < datagram.first + (at + 1) - 1
      BY <2>2 DEF Data, EndOf
    <3>6. \A i \in DOMAIN socket : socket[i].kind = "data" => socket[i].first \in Nat
      BY DEF Types, Data, Reply
    <3> HIDE DEF id
    <3>7. /\ ring[Slot(w)].run = board.run /\ ring[Slot(w)].id \in 1 .. board.sent
          /\ (ring[Slot(w)].over => MaxSpan > 0)
          /\ AtFrame' => ring[Slot(w)].id < (datagram').first + at' - 1
          /\ \A i \in DOMAIN socket : socket[i].kind = "data" => ring[Slot(w)].id < socket[i].first
      BY <1>0, <2>1, <3>3, <3>4, <3>5, <3>6
    <3>8. ASSUME NEW p \in Pointer, Queued(p)
          PROVE  /\ ring[Slot(p)].run = board.run /\ ring[Slot(p)].id \in 1 .. board.sent
                 /\ (ring[Slot(p)].over => MaxSpan > 0)
                 /\ AtFrame' => ring[Slot(p)].id < (datagram').first + at' - 1
                 /\ \A i \in DOMAIN socket : socket[i].kind = "data" => ring[Slot(p)].id < socket[i].first
                 /\ ring[Slot(p)].id < ring[Slot(w)].id
                 /\ Queued(Wrap(p + 1)) => ring[Slot(p)].id < ring[Slot(Wrap(p + 1))].id
      <4>1. /\ ring[Slot(p)].run = board.run /\ ring[Slot(p)].id \in 1 .. board.sent
            /\ (ring[Slot(p)].over => MaxSpan > 0)
            /\ ring[Slot(p)].id < id
            /\ \A i \in DOMAIN socket : socket[i].kind = "data" => ring[Slot(p)].id < socket[i].first
            /\ Queued(Wrap(p + 1)) => ring[Slot(p)].id < ring[Slot(Wrap(p + 1))].id
        BY <1>7, <2>1, <3>8 DEF RingInOrder, id
      <4>2. datagram.first + (at + 1) - 1 \in Nat /\ board.sent \in Nat
        BY <1>0, <2>2 DEF Data
      <4>4. ring[Slot(p)].id < datagram.first + (at + 1) - 1
        BY <3>5, <4>1, <4>2
      <4>5. AtFrame' => ring[Slot(p)].id < (datagram').first + at' - 1
        BY <2>1, <4>4
      <4>6. QED
        BY <3>3, <4>1, <4>5
    <3>9. ASSUME NEW p \in Pointer, Queued(p)'
          PROVE  /\ ring[Slot(p)].run = board.run /\ ring[Slot(p)].id \in 1 .. board.sent
                 /\ (ring[Slot(p)].over => MaxSpan > 0)
                 /\ AtFrame' => ring[Slot(p)].id < (datagram').first + at' - 1
                 /\ \A i \in DOMAIN socket : socket[i].kind = "data" => ring[Slot(p)].id < socket[i].first
                 /\ Queued(Wrap(p + 1))' => ring[Slot(p)].id < ring[Slot(Wrap(p + 1))].id
      <4>1. CASE p = w
        <5>1. ~Queued(Wrap(p + 1))'
          BY <3>2, <4>1
        <5>2. QED
          BY <3>7, <4>1, <5>1
      <4>2. CASE Queued(p)
        <5>1. Queued(Wrap(p + 1))' => Wrap(p + 1) = w \/ Queued(Wrap(p + 1))
          BY <1>0, <3>2
        <5>2. QED
          BY <3>8, <4>2, <5>1
      <4>3. QED
        BY <3>2, <3>9, <4>1, <4>2
    <3>10. QED
      BY <1>0, <2>1, <3>9 DEF RingInOrder
  <2>5. QED
    BY <2>3, <2>4
<1>8. CASE Settled /\ DoSetReadPointer
  <2>1. /\ UNCHANGED <<board, socket, ring, workerVars, dataFrameWritePointer>>
        /\ dataFrameReadPointer' = Wrap(block.wr) /\ block # NoBlock
    BY <1>8 DEF DoSetReadPointer, SetDataFrameReadPointer, loopElse, Asked, Serving
  <2>2. block.wr \in Pointer /\ Wrap(block.wr) = block.wr
    BY QueueSizeAssumption DEF Types, Wrap, Pointer
  <2>3. \A p \in Pointer : InWindow(p, block.wr, dataFrameWritePointer) =>
                             InWindow(p, dataFrameReadPointer, dataFrameWritePointer)
    BY <1>0, <2>1, <2>2, WindowSplit DEF Room
  <2>4. \A p \in Pointer : Queued(p)' => Queued(p)
    BY <2>1, <2>2, <2>3 DEF Queued
  <2>5. AtFrame' = AtFrame
    BY <2>1 DEF AtFrame
  <2>6. QED
    BY <1>0, <1>1, <1>8, <2>1, <2>4, <2>5 DEF RingInOrder
<1>9. CASE SecondWipe /\ ~globalUserStop
  <2>1. /\ dataFrameReadPointer' = 0 /\ dataFrameWritePointer' = 0 /\ wpc' = "recv"
    BY <1>9 DEF SecondWipe, WipeBuffers, loopElse
  <2>2. 0 \in Pointer
    BY QueueSizeAssumption DEF Pointer
  <2>3. \A p \in Pointer : ~Queued(p)'
    BY <2>1, <2>2, DistanceType DEF Queued, InWindow
  <2>4. QED
    BY <2>1, <2>3 DEF RingInOrder
<1>10. ~AskToStart /\ ~DoStart /\ ~DoStop
  <2>1. ~AskToStart
    BY DEF AskToStart, Ask, Settled, Types, Client
  <2>2. ~DoStart
    BY DEF DoStart, Asked, Settled
  <2>3. ~DoStop
    BY DEF DoStop, Asked, Settled, Serving, acquirer
  <2>4. QED
    BY <2>1, <2>2, <2>3
<1>11. Settled => ~SecondWipe
  BY DEF SecondWipe, Settled, Serving
<1>12. QED
  BY <1>0, <1>2, <1>3, <1>4, <1>5, <1>6, <1>7, <1>8, <1>9, <1>10, <1>11, ElsewhereIs DEF Worker

----------------------------------------------------------------------------
(* The theorems *)

LEMMA InitInv == Init => UdpInv
<1> SUFFICES ASSUME Init PROVE UdpInv
  OBVIOUS
<1> USE DEF Init, InitRing
<1>1. TypeOK /\ Types
  BY InitTypes
<1>2. Serving
  BY DEF Serving, Client
<1>3. bound.commands \in Nat
  BY <1>1, BoundType
<1>4. RepliesInOrder
  BY <1>3 DEF RepliesInOrder
<1>5. ~Settled /\ ~AtFrame
  BY DEF Settled, AtFrame
<1>6. Room
  <2>1. Distance(0, 0) = 0
    BY QueueSizeAssumption DEF Distance
  <2>2. QED
    BY <2>1, QueueSizeAssumption DEF Room
<1>7. DataInOrder /\ Coming /\ RingInOrder
  BY <1>5 DEF DataInOrder, Coming, RingInOrder
<1>8. QED
  BY <1>1, <1>2, <1>4, <1>6, <1>7 DEF UdpInv

LEMMA NextInv == UdpInv /\ [Next]_<<bound, vars>> => UdpInv'
BY NextTypes, NextServing, NextReplies, NextRoom, NextDataInOrder, NextComing, NextRingInOrder
   DEF UdpInv

\* The inductive invariant.
THEOREM UdpInvariant == Spec => []UdpInv
BY InitInv, NextInv, PTL DEF Spec

\* A block the acquirer holds belongs to a settled run.
LEMMA BlockIsSettled ==
  ASSUME UdpInv, NEW p \in Pointer, InWindow(p, block.rd, block.wr)
  PROVE  block # NoBlock /\ Settled /\ Queued(p) /\ block.rd = dataFrameReadPointer
<1>1. block # NoBlock
  BY DEF InWindow, NoBlock, Distance, Pointer
<1>2. Settled
  BY <1>1 DEF UdpInv, Serving, Settled
<1>3. /\ block.rd = dataFrameReadPointer
      /\ Distance(dataFrameReadPointer, block.wr) <= Distance(dataFrameReadPointer, dataFrameWritePointer)
  BY <1>1 DEF UdpInv, Room
<1>4. /\ Distance(dataFrameReadPointer, block.wr) \in Nat
      /\ Distance(dataFrameReadPointer, dataFrameWritePointer) \in Nat
      /\ Distance(dataFrameReadPointer, p) \in Nat
  BY DistanceType DEF UdpInv, TypeOK, Types
<1>5. Queued(p)
  BY <1>3, <1>4 DEF Queued, InWindow
<1>6. QED
  BY <1>1, <1>2, <1>3, <1>5

\* With room for as many frames more, none of the slots behind that of the write
\* pointer is one of the queued frames'.
LEMMA BehindDistinct ==
  ASSUME NEW r \in Pointer, NEW w \in Pointer, NEW p \in Pointer, NEW n \in Nat, NEW s \in SlotIndex,
         Distance(r, w) + n < QueueSize, InWindow(p, r, w), Slot(w) < s, s <= Slot(w) + n
  PROVE  Slot(p) # s
BY QueueSizeAssumption DEF Slot, SlotIndex, Pointer, Distance, InWindow

\* However the worker's steps fall between those of the event loop and the clients, it
\* never copies a frame that fits its slot into a slot the acquirer was told to read,
\* and none that does not fit, as long as there is room for what it reaches over.
THEOREM NeverUnderRead == Spec => []SlotsAreSafe
<1>1. UdpInv => SlotsAreSafe
  <2> SUFFICES ASSUME UdpInv, wpc = "copy", dataFrame # DevNull,
                      \/ Reach = 0
                      \/ Distance(dataFrameReadPointer, dataFrameWritePointer) + Reach < QueueSize,
                      NEW p \in Pointer, InWindow(p, block.rd, block.wr)
               PROVE  Slot(p) \notin {dataFrame} \cup Behind(Reach)
    BY DEF SlotsAreSafe, NoWriteUnderRead, UdpInv
  <2>1. Settled /\ Queued(p)
    BY BlockIsSettled
  <2>2. /\ dataFrame = Slot(dataFrameWritePointer)
        /\ Distance(dataFrameReadPointer, dataFrameWritePointer) < QueueSize
    BY <2>1 DEF UdpInv, Room
  <2>3. Slot(p) # dataFrame
    BY <2>1, <2>2, SlotsDistinct DEF Queued, UdpInv, TypeOK
  <2>4. ASSUME Slot(p) \in Behind(Reach) PROVE FALSE
    <3>1. Slot(p) \in SlotIndex /\ dataFrame < Slot(p) /\ Slot(p) <= dataFrame + Reach
      BY <2>4 DEF Behind
    <3>2. Reach \in Nat
      BY UdpAssumption DEF Reach, Data, UdpInv, Types, AtFrame
    <3>3. Reach # 0
      BY <3>1, <2>2, QueueSizeAssumption DEF SlotIndex, UdpInv, TypeOK, DevNull
    <3>4. QED
      BY <2>1, <2>2, <3>1, <3>2, <3>3, BehindDistinct DEF Queued, UdpInv, TypeOK
  <2>5. QED
    BY <2>3, <2>4
<1>2. QED
  BY <1>1, UdpInvariant, PTL

\* The blocks the acquirer is offered hold frames of the run it started, in the order
\* of the board; only a garbled frame longer than a slot can have spoiled one.
THEOREM CurrentFrames == Spec => []OffersCurrentFrames
<1>1. UdpInv => OffersCurrentFrames
  <2> SUFFICES ASSUME UdpInv, NEW p \in Pointer, InWindow(p, block.rd, block.wr)
               PROVE  /\ ring[Slot(p)].id # 0 /\ ring[Slot(p)].run = board.run
                      /\ ring[Slot(p)].over => MaxSpan > 0
                      /\ InWindow(Wrap(p + 1), block.rd, block.wr) =>
                           ring[Slot(p)].id < ring[Slot(Wrap(p + 1))].id
    BY DEF OffersCurrentFrames
  <2>1. Settled /\ Queued(p)
    BY BlockIsSettled
  <2>2. /\ ring[Slot(p)].run = board.run /\ ring[Slot(p)].id \in 1 .. board.sent
        /\ ring[Slot(p)].over => MaxSpan > 0
        /\ Queued(Wrap(p + 1)) => ring[Slot(p)].id < ring[Slot(Wrap(p + 1))].id
    BY <2>1 DEF UdpInv, RingInOrder
  <2>3. Wrap(p + 1) \in Pointer
    BY WrapType, QueueSizeAssumption DEF Pointer
  <2>4. InWindow(Wrap(p + 1), block.rd, block.wr) => Queued(Wrap(p + 1))
    BY <2>3, BlockIsSettled
  <2>5. ring[Slot(p)].id # 0
    BY <2>2
  <2>6. QED
    BY <2>2, <2>4, <2>5
<1>2. QED
  BY <1>1, UdpInvariant, PTL

\* Two numbers of one serial number, less than a round of them apart.
LEMMA RoundOfNumbers ==
  ASSUME NEW n \in Int, n > 0, NEW a \in Int, NEW b \in Int, 0 < a, a <= b, b - a < n, a % n = b % n
  PROVE  a = b
<1> DEFINE i == a \div n
           j == b \div n
           r == a % n
<1>1. a = n * i + r /\ i \in Int /\ r \in Int
  BY n \in Int, n > 0, a \in Int
<1>2. b = n * j + r /\ j \in Int
  BY n \in Int, n > 0, b \in Int, a % n = b % n
<1> HIDE DEF i, j, r
<1>3. CASE j = i
  BY <1>1, <1>2, <1>3
<1>4. CASE j >= i + 1
  <2>1. n * j >= n * i + n
    BY <1>1, <1>2, <1>4
  <2>2. QED
    BY <1>1, <1>2, <2>1
<1>5. CASE i >= j + 1
  <2>1. n * i >= n * j + n
    BY <1>1, <1>2, <1>5
  <2>2. QED
    BY <1>1, <1>2, <2>1
<1>6. QED
  BY <1>1, <1>2, <1>3, <1>4, <1>5

LEMMA NSNType == NSN \in Nat /\ NSN > 0
<1>1. NSN \in Nat \ {0, 1}
  BY UdpAssumption
<1>2. QED
  BY <1>1

\* A reply that a client gets is the reply to its command, whatever replies to older
\* commands are still to come, unless it is to one a whole round of serial numbers
\* before. (Such a reply the code itself could not tell from the right one.)
THEOREM ReplyWithinRound == Spec => [](command - answer < NSN => ReplyIsToCommand)
<1> DEFINE Inv == command - answer < NSN => ReplyIsToCommand
<1>1. Init => Inv
  BY DEF Init, ReplyIsToCommand
<1>2. UdpInv /\ Inv /\ [Next]_<<bound, vars>> => Inv'
  <2> SUFFICES ASSUME UdpInv, Inv, [Next]_<<bound, vars>> PROVE Inv'
    OBVIOUS
  <2>1. CASE UNCHANGED commandVars
    BY <2>1 DEF commandVars, ReplyIsToCommand
  <2>2. CASE SendCommand
    BY <2>2 DEF SendCommand, ReplyIsToCommand
  <2>3. CASE TakeReply
    <3>1. /\ command' = command /\ replyQueue # << >>
          /\ answer' = answer \/ (Matches(Head(replyQueue)) /\ answer' = Head(replyQueue))
      BY <2>3 DEF TakeReply
    <3>2. Head(replyQueue) \in 1 .. command /\ command \in Nat
      <4>1. replyQueue \in Seq(Nat) /\ command \in Nat
        BY UdpAssumption DEF UdpInv, TypeOK, Types
      <4>2. Head(replyQueue) = replyQueue[1] /\ 1 \in DOMAIN replyQueue
        BY <3>1, <4>1, TailFacts
      <4>3. QED
        BY <4>1, <4>2 DEF UdpInv, RepliesInOrder
    <3>3. Matches(Head(replyQueue)) /\ command - Head(replyQueue) < NSN => Head(replyQueue) = command
      <4>1. ASSUME NEW h \in 1 .. command, h % NSN = command % NSN, command - h < NSN
            PROVE  h = command
        <5>1. NSN \in Int /\ NSN > 0
          BY NSNType
        <5>2. h \in Int /\ command \in Int /\ 0 < h /\ h <= command
          BY <3>2
        <5>3. QED
          BY <4>1, <5>1, <5>2, RoundOfNumbers
      <4>2. QED
        BY <3>2, <4>1 DEF Matches, SN
    <3>4. QED
      BY <3>1, <3>3 DEF ReplyIsToCommand
  <2>4. QED
    <3>1. Board \/ Worker \/ Clients \/ CatchUserStop \/ LeaveLoop \/ UNCHANGED vars
            => UNCHANGED commandVars
      BY DEF Board, Worker, Exit, Receive, Claim, Copy, Crash, Publish, workerElse, Clients, HangUp,
             AskToStart, AskToStop, AskForPointers, AskToFree, AskToCommand, clientElse,
             CatchUserStop, LeaveLoop, vars
    <3>2. DoStart \/ SecondWipe \/ DoStop \/ DoGetPointers \/ DoSetReadPointer \/ GiveUp
            => UNCHANGED commandVars
      BY DEF DoStart, SecondWipe, DoStop, DoGetPointers, DoSetReadPointer, GiveUp
    <3>3. QED
      BY <2>1, <2>2, <2>3, <3>1, <3>2 DEF Next, EventLoop
<1>3. QED
  BY <1>1, <1>2, UdpInvariant, PTL DEF Spec

===============================================================================
