------------------------------ MODULE UdpDaqd ------------------------------
(***************************************************************************)
(* daqd with a front-end board on Ethernet: the worker that takes datagrams *)
(* from the board (UDPFrameServer::doWork), and the event loop that serves  *)
(* the clients one request at a time (daqd.cpp, Client.cpp), waiting itself *)
(* for the answer to a command (UDPFrameServer::sendCommand).               *)
(*                                                                         *)
(* A datagram brings several frames, each claimed, copied and published on *)
(* its own, or the reply to a command. Datagrams and replies may be lost,  *)
(* and a reply may come after its command was given up.                    *)
(*                                                                         *)
(* One client acquires data, another sends commands to the board; each     *)
(* waits for its answer before it asks again, and may hang up at any time. *)
(***************************************************************************)
EXTENDS FrameServer, Sequences

CONSTANTS
  NSN,      \* serial numbers, 2^15 in daqd.py
  MaxSpan,  \* 15 in the code: how many slots behind its own a frame of the
            \* 15-bit size that stands in a datagram may reach over
  Bounds    \* how far a behaviour goes, one of: runs started, frames in a run,
            \* frames of a datagram that may be the garbled one, datagrams that
            \* wait in the socket, commands, clients that hang up

ASSUME UdpAssumption ==
  /\ NSN \in Nat \ {0, 1} /\ MaxSpan \in Nat
  /\ Bounds \subseteq [runs : Nat, frames : Nat, garbled : 0 .. 2, socket : Nat \ {0},
                       commands : Nat, hangups : Nat]

VARIABLES
  bound,        \* the bounds of this behaviour
  ring,         \* shared memory: the frame stored in each slot, and whether it
                \* has been written over since
  board,        \* the run the board is in, the frames it has sent in it, and
                \* the commands it has not answered
  socket,       \* the datagrams the worker has not received
  wpc,          \* the worker: "recv", "claim", "copy", "publish" or "exited"
  datagram, at, \* the datagram it works on, and the frame in it
  dataFrame,    \* the slot that frame goes to, or DevNull
  replyQueue,
  lpc,          \* the event loop: "poll", "sleep", "command", "joining" or "dead"
  client,       \* the request each client waits for, or "none"
  serving,      \* the client whose request is being handled
  command,      \* how many commands were sent
  answer,       \* the command whose reply the last one was answered with, or 0
  acquiring,    \* the acquirer has started a run
  block,        \* the frames it reads
  nHangUps,
  globalUserStop, die

workerVars == <<wpc, datagram, at, dataFrame>>
commandVars == <<command, answer>>
acquirer == <<acquiring, block>>
stopVars == <<globalUserStop, die>>
loopVars == <<lpc, client, serving, nHangUps>>
vars == <<ringVars, ring, board, socket, workerVars, replyQueue, loopVars, commandVars,
          acquirer, stopVars>>

DevNull == -1
Acquirer == "acquirer"
Commander == "commander"
Client == {Acquirer, Commander}
NoFrame == [run |-> 0, id |-> 0, over |-> FALSE]
NoBlock == [rd |-> 0, wr |-> 0]
NoDatagram == [kind |-> "none"]
SN(k) == k % NSN

\* The board has answered the constructor's handshake.
Init ==
  /\ bound \in Bounds /\ InitRing /\ ring = [s \in SlotIndex |-> NoFrame]
  /\ board = [run |-> 0, sent |-> 0, commands |-> << >>] /\ socket = << >>
  /\ wpc = "recv" /\ datagram = NoDatagram /\ at = 0 /\ dataFrame = DevNull
  /\ replyQueue = << >>
  /\ lpc = "poll" /\ client = [c \in Client |-> "none"] /\ serving = "none"
  /\ nHangUps = 0 /\ command = 0 /\ answer = 0
  /\ acquiring = FALSE /\ block = NoBlock
  /\ globalUserStop = FALSE /\ die = FALSE

----------------------------------------------------------------------------
(* The board and the network. *)

\* daqd is there and takes requests.
Up == ~die /\ lpc # "dead"

Deliver(d) ==
  \/ Len(socket) < bound.socket /\ socket' = Append(socket, d)
  \/ UNCHANGED socket   \* lost

\* Frames as they follow one another; one may be garbled, so that its size does
\* not fit the number of its events. It is then any size but 0, one that spans
\* several slots included.
SendData ==
  \E n \in 1 .. 2, bad \in 0 .. bound.garbled, span \in 0 .. MaxSpan :
    /\ bad <= n /\ (bad = 0 => span = 0) /\ board.sent + n <= bound.frames
    /\ Deliver([kind |-> "data", run |-> board.run, first |-> board.sent + 1, n |-> n,
                bad |-> bad, span |-> span])
    /\ board' = [board EXCEPT !.sent = @ + n]

SendReply ==
  /\ board.commands # << >>
  /\ Deliver([kind |-> "reply", command |-> Head(board.commands)])
  /\ board' = [board EXCEPT !.commands = Tail(@)]

Board ==
  /\ Up
  /\ SendData \/ SendReply
  /\ UNCHANGED <<ringVars, ring, workerVars, replyQueue, loopVars, commandVars, acquirer,
                 stopVars>>

----------------------------------------------------------------------------
(* The worker. *)

workerElse == <<board, loopVars, commandVars, acquirer, stopVars>>

\* The head of the loop.
Loop == IF die THEN "exited" ELSE "recv"

\* recv times out, so that the worker looks at die while the board is silent.
Exit ==
  /\ wpc = "recv" /\ die /\ socket = << >>
  /\ wpc' = "exited"
  /\ UNCHANGED <<ringVars, ring, socket, datagram, at, dataFrame, replyQueue, workerElse>>

\* The mode is looked at once for a datagram, without the lock.
Taken(d) == d.kind = "data" /\ acquisitionMode # 0

Receive ==
  /\ wpc = "recv" /\ socket # << >>
  /\ LET d == Head(socket) IN
     /\ socket' = Tail(socket)
     /\ replyQueue' = IF d.kind = "reply" THEN Append(replyQueue, d.command) ELSE replyQueue
     /\ IF Taken(d) THEN wpc' = "claim" /\ datagram' = d /\ at' = 1
                    ELSE wpc' = Loop /\ UNCHANGED <<datagram, at>>
  /\ UNCHANGED <<ringVars, ring, dataFrame, workerElse>>

\* Mutant of Claim: the slot is taken without a look at the read pointer.
ClaimUnchecked ==
  /\ wpc = "claim"
  /\ dataFrame' = Slot(dataFrameWritePointer)
  /\ wpc' = "copy"
  /\ UNCHANGED <<ringVars, ring, socket, datagram, at, replyQueue, workerElse>>

Claim ==
  /\ wpc = "claim"
  /\ dataFrame' = IF IsFull(dataFrameWritePointer, dataFrameReadPointer)
                  THEN DevNull ELSE Slot(dataFrameWritePointer)
  /\ wpc' = "copy"
  /\ UNCHANGED <<ringVars, ring, socket, datagram, at, replyQueue, workerElse>>

EndOfDatagram == wpc' = Loop /\ datagram' = NoDatagram /\ at' = 0 /\ dataFrame' = DevNull

ParseDataFrame == at # datagram.bad

\* The slots behind its own that the frame at hand is copied over: memcpy is
\* given the size in the frame before anything has checked it.
Reach == IF ParseDataFrame THEN 0 ELSE datagram.span

Behind(n) == {s \in SlotIndex : dataFrame # DevNull /\ dataFrame < s /\ s <= dataFrame + n}

\* The slots r with words of that frame over those.
Overwritten(r, n) ==
  [s \in SlotIndex |-> IF s \in Behind(n) THEN [r[s] EXCEPT !.over = TRUE] ELSE r[s]]

CurFrame == [run |-> datagram.run, id |-> datagram.first + at - 1, over |-> FALSE]

\* A garbled frame ends the datagram: where the next one starts is not known.
Copy ==
  /\ wpc = "copy"
  /\ LET f == IF ParseDataFrame THEN CurFrame ELSE NoFrame
         filled == IF dataFrame = DevNull THEN ring ELSE [ring EXCEPT ![dataFrame] = f]
     IN ring' = Overwritten(filled, Reach)
  /\ IF ParseDataFrame THEN wpc' = "publish" /\ UNCHANGED <<datagram, at, dataFrame>>
                       ELSE EndOfDatagram
  /\ UNCHANGED <<ringVars, socket, replyQueue, workerElse>>

\* A size beyond the words that were received is read from past the buffer on the
\* worker's stack, and may go past the shared memory, or past devNull on the heap.
\* That is undefined: as long as nothing of the state is hit Copy goes on, or daqd
\* crashes, and its clients lose the connection.
Crash ==
  /\ wpc = "copy" /\ ~ParseDataFrame
  /\ \E n \in 0 .. Reach : ring' = Overwritten(ring, n)
  /\ wpc' = "exited" /\ datagram' = NoDatagram /\ at' = 0 /\ dataFrame' = DevNull
  /\ lpc' = "dead" /\ serving' = "none" /\ client' = [c \in Client |-> "none"]
  /\ UNCHANGED <<ringVars, board, socket, replyQueue, nHangUps, commandVars, acquirer, stopVars>>

\* Mutant of Publish: a frame for which there was no slot is published too.
PublishAnyway ==
  /\ wpc = "publish"
  /\ PublishFrame
  /\ IF at < datagram.n THEN wpc' = "claim" /\ at' = at + 1 /\ UNCHANGED <<datagram, dataFrame>>
                        ELSE EndOfDatagram
  /\ UNCHANGED <<ring, socket, replyQueue, workerElse>>

Publish ==
  /\ wpc = "publish"
  /\ IF dataFrame = DevNull THEN UNCHANGED ringVars ELSE PublishFrame
  /\ IF at < datagram.n THEN wpc' = "claim" /\ at' = at + 1 /\ UNCHANGED <<datagram, dataFrame>>
                        ELSE EndOfDatagram
  /\ UNCHANGED <<ring, socket, replyQueue, workerElse>>

Worker == Exit \/ Receive \/ Claim \/ Copy \/ Crash \/ Publish

----------------------------------------------------------------------------
(* The clients. *)

clientElse == <<ringVars, ring, socket, workerVars, replyQueue, lpc, serving, commandVars, stopVars>>

\* epoll reports a client that hung up before it reports what the client had sent.
HangUp(c) ==
  /\ serving # c /\ nHangUps < bound.hangups /\ Up
  /\ \/ client[c] # "none"
     \/ c = Acquirer /\ acquiring
  /\ client' = [client EXCEPT ![c] = "none"]
  /\ nHangUps' = nHangUps + 1
  /\ IF c = Acquirer THEN acquiring' = FALSE /\ block' = NoBlock ELSE UNCHANGED acquirer
  /\ UNCHANGED <<board, clientElse>>

Ask(c, request) ==
  /\ client[c] = "none" /\ Up
  /\ client' = [client EXCEPT ![c] = request]

\* daqd.py synchronizes the board, which starts a new run, before it starts the
\* acquisition.
AskToStart ==
  /\ board.run < bound.runs /\ Ask(Acquirer, "start")
  /\ board' = [board EXCEPT !.run = @ + 1, !.sent = 0]
  /\ acquiring' = TRUE /\ block' = NoBlock
  /\ UNCHANGED <<nHangUps, clientElse>>

AskToStop ==
  /\ acquiring /\ Ask(Acquirer, "stop") /\ acquiring' = FALSE /\ block' = NoBlock
  /\ UNCHANGED <<board, nHangUps, clientElse>>

AskForPointers ==
  /\ acquiring /\ block = NoBlock /\ Ask(Acquirer, "pointers")
  /\ UNCHANGED <<board, nHangUps, acquirer, clientElse>>

AskToFree ==
  /\ block # NoBlock /\ Ask(Acquirer, "free")
  /\ UNCHANGED <<board, nHangUps, acquirer, clientElse>>

AskToCommand ==
  /\ command < bound.commands /\ Ask(Commander, "command")
  /\ UNCHANGED <<board, nHangUps, acquirer, clientElse>>

Clients ==
  \/ \E c \in Client : HangUp(c)
  \/ AskToStart \/ AskToStop \/ AskForPointers \/ AskToFree \/ AskToCommand

----------------------------------------------------------------------------
(* The event loop: one request at a time. *)

Asked(c, request) == lpc = "poll" /\ ~globalUserStop /\ client[c] = request
Answer(c) == client' = [client EXCEPT ![c] = "none"]
loopElse == <<ring, workerVars, nHangUps, stopVars>>

DoStop ==
  /\ Asked(Acquirer, "stop") /\ WipeBuffers(0) /\ Answer(Acquirer)
  /\ UNCHANGED <<board, socket, replyQueue, lpc, serving, commandVars, acquirer, loopElse>>

DoGetPointers ==
  /\ Asked(Acquirer, "pointers") /\ Answer(Acquirer)
  /\ block' = [rd |-> dataFrameReadPointer, wr |-> dataFrameWritePointer] /\ UNCHANGED acquiring
  /\ UNCHANGED <<ringVars, board, socket, replyQueue, lpc, serving, commandVars, loopElse>>

DoSetReadPointer ==
  /\ Asked(Acquirer, "free") /\ SetDataFrameReadPointer(block.wr) /\ Answer(Acquirer)
  /\ block' = NoBlock /\ UNCHANGED acquiring
  /\ UNCHANGED <<board, socket, replyQueue, lpc, serving, commandVars, loopElse>>

DoStart ==
  /\ Asked(Acquirer, "start") /\ WipeBuffers(0)
  /\ lpc' = "sleep" /\ serving' = Acquirer
  /\ UNCHANGED <<client, board, socket, replyQueue, commandVars, acquirer, loopElse>>

\* The 220 ms sleep outlasts the datagrams of the run before, and the one the
\* worker was at (a signal cuts it short, but then daqd ends).
SecondWipe ==
  /\ lpc = "sleep"
  /\ \/ globalUserStop
     \/ wpc = "recv" /\ \A i \in DOMAIN socket : socket[i].kind = "data" => socket[i].run = board.run
  /\ WipeBuffers(1) /\ Answer(Acquirer)
  /\ lpc' = "poll" /\ serving' = "none"
  /\ UNCHANGED <<board, socket, replyQueue, commandVars, acquirer, loopElse>>

\* sendCommand leaves what is in the reply queue there.
SendCommand ==
  /\ Asked(Commander, "command")
  /\ command' = command + 1 /\ answer' = 0
  /\ \/ board' = [board EXCEPT !.commands = Append(@, command')]
     \/ UNCHANGED board    \* lost
  /\ lpc' = "command" /\ serving' = Commander
  /\ UNCHANGED <<ringVars, client, socket, replyQueue, acquirer, loopElse>>

\* Mutant of Matches: the first reply there is will do.
MatchesAny(reply) == TRUE

Matches(reply) == SN(reply) = SN(command)

TakeReply ==
  /\ lpc = "command" /\ replyQueue # << >>
  /\ replyQueue' = Tail(replyQueue)
  /\ IF Matches(Head(replyQueue))
     THEN answer' = Head(replyQueue) /\ Answer(Commander) /\ lpc' = "poll" /\ serving' = "none"
     ELSE UNCHANGED <<answer, client, lpc, serving>>
  /\ UNCHANGED <<ringVars, board, socket, command, acquirer, loopElse>>

\* Mutant of GiveUp: only a reply ends the wait.
WaitForReply == lpc = "command" /\ replyQueue # << >> /\ UNCHANGED vars

\* No reply for 250 ms: the client is answered with none.
GiveUp ==
  /\ lpc = "command" /\ replyQueue = << >>
  /\ Answer(Commander) /\ lpc' = "poll" /\ serving' = "none"
  /\ UNCHANGED <<ringVars, board, socket, replyQueue, commandVars, acquirer, loopElse>>

EventLoop ==
  \/ DoStart \/ SecondWipe \/ DoStop \/ DoGetPointers \/ DoSetReadPointer
  \/ SendCommand \/ TakeReply \/ GiveUp

\* SIGTERM or SIGINT: noticed when the request at hand is done.
CatchUserStop ==
  /\ ~globalUserStop /\ globalUserStop' = TRUE
  /\ UNCHANGED <<ringVars, ring, board, socket, workerVars, replyQueue, loopVars, commandVars,
                 acquirer, die>>

\* Mutant of LeaveLoop: the worker is not told.
LeaveUntold ==
  /\ \/ lpc = "poll" /\ globalUserStop /\ UNCHANGED die /\ lpc' = "joining"
     \/ lpc = "joining" /\ wpc = "exited" /\ lpc' = "dead" /\ UNCHANGED die
  /\ UNCHANGED <<ringVars, ring, board, socket, workerVars, replyQueue, client, serving, nHangUps,
                 commandVars, acquirer, globalUserStop>>

LeaveLoop ==
  /\ \/ lpc = "poll" /\ globalUserStop /\ die' = TRUE /\ lpc' = "joining"
     \/ lpc = "joining" /\ wpc = "exited" /\ lpc' = "dead" /\ UNCHANGED die
  /\ UNCHANGED <<ringVars, ring, board, socket, workerVars, replyQueue, client, serving, nHangUps,
                 commandVars, acquirer, globalUserStop>>

Next ==
  /\ UNCHANGED bound
  /\ Board \/ Worker \/ Clients \/ EventLoop \/ CatchUserStop \/ LeaveLoop

Spec == Init /\ [][Next]_<<bound, vars>>

\* The threads run, and epoll puts a descriptor it has reported behind the others,
\* so that no client is passed over for ever.
FairSpec ==
  /\ Spec /\ WF_vars(Worker) /\ WF_vars(LeaveLoop)
  /\ WF_vars(SecondWipe) /\ WF_vars(TakeReply \/ GiveUp)
  /\ SF_vars(DoStart \/ DoStop \/ DoGetPointers \/ DoSetReadPointer) /\ SF_vars(SendCommand)
----------------------------------------------------------------------------
(* Properties. *)

TypeOK ==
  /\ dataFrameWritePointer \in Pointer /\ dataFrameReadPointer \in Pointer
  /\ acquisitionMode \in {0, 1}
  /\ Len(socket) <= bound.socket /\ Len(replyQueue) <= bound.commands
  /\ wpc \in {"recv", "claim", "copy", "publish", "exited"}
  /\ wpc \in {"claim", "copy", "publish"} <=> at \in 1 .. 2
  /\ dataFrame \in SlotIndex \union {DevNull}
  /\ lpc \in {"poll", "sleep", "command", "joining", "dead"}
  /\ lpc \in {"sleep", "command"} <=> serving \in Client
  /\ \A c \in Client : serving = c => client[c] # "none"
  /\ command \in 0 .. bound.commands

\* The worker claims a slot under the lock, but copies into it without, while the
\* event loop may wipe the ring or move its read pointer, and the acquirer reads
\* the slots it was told of: a frame that fits its slot is never copied into one of
\* those, and one that does not, as its size has not been checked, does no harm as
\* long as there are as many free slots as it reaches over.
NoWriteUnderRead ==
  /\ wpc = "copy" /\ dataFrame # DevNull
  /\ Reach = 0 \/ Distance(dataFrameReadPointer, dataFrameWritePointer) + Reach < QueueSize
  => \A p \in Pointer :
       InWindow(p, block.rd, block.wr) => Slot(p) \notin {dataFrame} \cup Behind(Reach)

\* The pointers stay in their range, and no slot is read and written at once.
SlotsAreSafe == TypeOK /\ NoWriteUnderRead

\* What the acquirer is offered are frames of the run it started, in the order of
\* the board, whatever was lost, garbled, thrown away for want of a slot, or left
\* behind by a run that nobody stopped; and they are whole, unless a garbled frame
\* was long enough to be copied over more than its own slot.
OffersCurrentFrames ==
  \A p \in Pointer : InWindow(p, block.rd, block.wr) =>
    /\ ring[Slot(p)].id # 0 /\ ring[Slot(p)].run = board.run
    /\ ring[Slot(p)].over => MaxSpan > 0
    /\ LET q == Wrap(p + 1) IN
       InWindow(q, block.rd, block.wr) => ring[Slot(p)].id < ring[Slot(q)].id

\* The reply a client gets is the board's reply to its command, even when replies
\* to commands given up before come first. (One a whole round of serial numbers
\* before could not be told from it: a run gives fewer commands than that.)
ReplyIsToCommand == answer \in {0, command}

\* Whatever one client makes the event loop wait for, the other's request is served
\* in the end, unless daqd is stopped, or crashes.
RequestAnswered == \A c \in Client : client[c] # "none" ~> client[c] = "none" \/ globalUserStop

\* A signal ends daqd: the loop is left, and the worker joined.
StopCompletes == globalUserStop ~> lpc = "dead"

\* The event loop serves every client, until it is stopped, and then ends.
ServesUntilStopped == RequestAnswered /\ StopCompletes

=============================================================================
