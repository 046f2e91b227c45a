----------------------------- MODULE CommandLink -----------------------------
(***************************************************************************)
(* Commands to the front end, from daqd.py's sendCommand to the FEB/Ds and *)
(* back. daqd serves one request at a time: it puts the command in the     *)
(* card's transmit slots, then reads the card's reply slots until one has  *)
(* the serial number of the command or CommandTimeout has passed. daqd.py  *)
(* tries again, under a new serial number, when no reply came. Commands    *)
(* and replies may be lost or late; a late reply stays in the slots, to be *)
(* found by a later command.                                               *)
(*                                                                         *)
(* The client waits for daqd's answer and daqd for nothing else, so that   *)
(* the two make one thread, whose place is pc. One client is connected.    *)
(***************************************************************************)
EXTENDS Integers, FiniteSets

CONSTANTS
  Febs,         \* FEB/Ds, by port and slave
  Slots,        \* 16 in the code: transmit slots, and reply slots, of the card
  Byte,         \* 256 in the code: the values of a byte
  SNModulus,    \* 16#8000 in the code: serial numbers of daqd.py
  LinkSlots,    \* how many commands and replies are on the links
  MaxTries,     \* 10 in the code: tries of sendCommand
  MaxRequests   \* bound: calls of sendCommand

ASSUME LinkAssumption ==
  /\ IsFiniteSet(Febs) /\ Febs # {}
  /\ Slots \in Nat \ {0} /\ LinkSlots \in Nat \ {0}
  /\ MaxTries \in Nat \ {0} /\ MaxRequests \in Nat

\* A serial number fits in two bytes.
ASSUME SerialNumberAssumption ==
  /\ Byte \in Nat \ {0}
  /\ SNModulus \in 1 .. Byte * Byte

VARIABLES
  tx, txWr, txRd,    \* transmit slots; daqd's pointer, the card's pointer
  rx, rxWr, rxRd,    \* reply slots; the card's pointer, daqd's pointer
  link,              \* what is on the links to and from the FEB/Ds
  pc, feb, sn,       \* the command under way
  try,               \* how many commands have been made up, tries included
  nTries, lastSN,    \* of daqd.py
  outcome,           \* how the last sendCommand ended, and with which reply
  nRequests

cardVars == <<tx, txWr, txRd, rx, rxWr, rxRd>>
callVars == <<pc, feb, sn, try, nTries, lastSN, outcome, nRequests>>
vars == <<cardVars, link, callVars>>

Pointer == 0 .. 2 * Slots - 1
SerialNumber == 0 .. SNModulus - 1

\* A command, or its reply, which is told by the same serial number.
Message == [feb : Febs, sn : SerialNumber, try : Nat]
Nothing == [feb |-> "none", sn |-> 0, try |-> 0]

\* Mutant of Step: the pointer wraps one late.
StepTooFar(p) == (p + 1) % (2 * Slots + 1)

Step(p) == (p + 1) % (2 * Slots)
Filled(wr, rd) == (wr - rd + 2 * Slots) % (2 * Slots)

\* Mutant of TxFull: there is always a slot.
TxNeverFull == FALSE

TxFull == txWr \div Slots # txRd \div Slots /\ txWr % Slots = txRd % Slots
RxEmpty == rxWr = rxRd

\* The two bytes of the serial number are added up as signed chars, into 16 bits.
SignedByte(b) == IF 2 * b < Byte THEN b ELSE b - Byte
Received(n) == (SignedByte(n \div Byte) * Byte + SignedByte(n % Byte)) % (Byte * Byte)

Init ==
  /\ tx = [s \in 0 .. Slots - 1 |-> Nothing] /\ rx = [s \in 0 .. Slots - 1 |-> Nothing]
  /\ txWr \in Pointer /\ txRd = txWr
  /\ rxWr \in Pointer /\ rxRd = rxWr
  /\ link = {}
  /\ pc = "idle" /\ feb \in Febs /\ sn = 0 /\ try = 0
  /\ nTries = 0 /\ lastSN \in SerialNumber
  /\ outcome = [kind |-> "none", reply |-> Nothing]
  /\ nRequests = 0

----------------------------------------------------------------------------
(* daqd.py and daqd *)

\* Mutant of NextSN: a serial number of too few bits.
NextSNOfTwo == (lastSN + 1) % 2

NextSN == (lastSN + 1) % SNModulus

\* A try: a serial number is drawn and the command goes to daqd.
MakeTry ==
  /\ sn' = lastSN /\ lastSN' = NextSN
  /\ try' = try + 1
  /\ nTries' = nTries + 1
  /\ pc' = "transmit"

SendCommand ==
  /\ pc = "idle" /\ nRequests < MaxRequests
  /\ nRequests' = nRequests + 1
  /\ feb' \in Febs
  /\ sn' = lastSN /\ lastSN' = NextSN /\ try' = try + 1 /\ nTries' = 1
  /\ pc' = "transmit"
  /\ outcome' = [kind |-> "none", reply |-> Nothing]
  /\ UNCHANGED <<cardVars, link>>

\* The card's sendCommand waits 10 ms for a slot. DAQFrameServer does not look
\* at its status: the wait for the reply comes either way.
Transmit ==
  /\ pc = "transmit" /\ pc' = "receive"
  /\ IF TxFull
     THEN UNCHANGED <<tx, txWr>>
     ELSE /\ tx' = [tx EXCEPT ![txWr % Slots] = [feb |-> feb, sn |-> sn, try |-> try]]
          /\ txWr' = Step(txWr)
  /\ UNCHANGED <<txRd, rx, rxWr, rxRd, link, feb, sn, try, nTries, lastSN, outcome, nRequests>>

\* Mutant of Matches: the reply is not told from those of other commands.
AnyMatches(reply) == TRUE

Matches(reply) == Received(reply.sn) = Received(sn)

\* recvReply takes the oldest reply; one of another serial number is dropped.
Receive ==
  /\ pc = "receive" /\ ~RxEmpty
  /\ rxRd' = Step(rxRd)
  /\ LET reply == rx[rxRd % Slots]
     IN IF Matches(reply)
        THEN pc' = "idle" /\ outcome' = [kind |-> "ok", reply |-> reply]
        ELSE UNCHANGED <<pc, outcome>>
  /\ UNCHANGED <<tx, txWr, txRd, rx, rxWr, link, feb, sn, try, nTries, lastSN, nRequests>>

\* Mutant of CommandTimeout: the time is looked at only when a reply came.
TimeoutAfterReply ==
  /\ pc = "receive" /\ ~RxEmpty
  /\ IF nTries < MaxTries
     THEN MakeTry /\ UNCHANGED outcome
     ELSE /\ pc' = "idle"
          /\ outcome' = [kind |-> "timeout", reply |-> Nothing]
          /\ UNCHANGED <<sn, lastSN, try, nTries>>
  /\ UNCHANGED <<cardVars, link, feb, nRequests>>

\* Mutant of CommandTimeout: the next try has the serial number of the last.
RetrySameNumber ==
  /\ pc = "receive"
  /\ IF nTries < MaxTries
     THEN pc' = "transmit" /\ try' = try + 1 /\ nTries' = nTries + 1 /\ UNCHANGED outcome
     ELSE pc' = "idle" /\ outcome' = [kind |-> "timeout", reply |-> Nothing]
          /\ UNCHANGED <<try, nTries>>
  /\ UNCHANGED <<cardVars, link, feb, sn, lastSN, nRequests>>

\* No reply within CommandTimeout, whatever has arrived by now: daqd answers
\* with a length of 0, and sendCommand tries again or raises CommandErrorTimeout.
CommandTimeout ==
  /\ pc = "receive"
  /\ IF nTries < MaxTries
     THEN MakeTry /\ UNCHANGED outcome
     ELSE /\ pc' = "idle"
          /\ outcome' = [kind |-> "timeout", reply |-> Nothing]
          /\ UNCHANGED <<sn, lastSN, try, nTries>>
  /\ UNCHANGED <<cardVars, link, feb, nRequests>>

----------------------------------------------------------------------------
(* The card and the FEB/Ds, of which src/ has only what daqd does with them *)

\* The card takes commands from the slots in order and passes them on.
CardSends ==
  /\ txRd # txWr /\ Cardinality(link) < LinkSlots
  /\ txRd' = Step(txRd)
  /\ link' = link \cup {[message |-> tx[txRd % Slots], executed |-> FALSE]}
  /\ UNCHANGED <<tx, txWr, rx, rxWr, rxRd, callVars>>

\* A FEB/D executes the commands it gets in order.
FebExecutes ==
  /\ \E m \in link :
       /\ ~m.executed
       /\ \A n \in link : n.message.feb = m.message.feb /\ ~n.executed
                            => m.message.try <= n.message.try
       /\ link' = (link \ {m}) \cup {[m EXCEPT !.executed = TRUE]}
  /\ UNCHANGED <<cardVars, callVars>>

\* Replies of different FEB/Ds may overtake each other.
CardReceives ==
  /\ Filled(rxWr, rxRd) < Slots
  /\ \E m \in link :
       /\ m.executed
       /\ \A n \in link : n.message.feb = m.message.feb => m.message.try <= n.message.try
       /\ link' = link \ {m}
       /\ rx' = [rx EXCEPT ![rxWr % Slots] = m.message]
  /\ rxWr' = Step(rxWr)
  /\ UNCHANGED <<tx, txWr, txRd, rxRd, callVars>>

\* A command that never reaches its FEB/D, or a reply that is not delivered.
LinkLoses ==
  /\ \E m \in link : link' = link \ {m}
  /\ UNCHANGED <<cardVars, callVars>>

----------------------------------------------------------------------------
Call == SendCommand \/ Transmit \/ Receive \/ CommandTimeout

Next == Call \/ CardSends \/ FebExecutes \/ CardReceives \/ LinkLoses

Spec == Init /\ [][Next]_vars

\* daqd's loop goes on, and its clock too: Receive competes with the timeout.
FairSpec == Spec /\ WF_vars(Transmit \/ Receive \/ CommandTimeout)

----------------------------------------------------------------------------
(* Properties *)

\* Type correctness: no more is in the slots than there are slots.
TypeOK ==
  /\ txWr \in Pointer /\ txRd \in Pointer /\ Filled(txWr, txRd) <= Slots
  /\ rxWr \in Pointer /\ rxRd \in Pointer /\ Filled(rxWr, rxRd) <= Slots
  /\ \A s \in 0 .. Slots - 1 : {tx[s], rx[s]} \subseteq Message \cup {Nothing}
  /\ \A m \in link : m.message \in Message /\ m.executed \in BOOLEAN
  /\ pc \in {"idle", "transmit", "receive"}
  /\ feb \in Febs /\ sn \in SerialNumber /\ lastSN \in SerialNumber
  /\ nTries \in 0 .. MaxTries /\ try \in 0 .. MaxTries * nRequests

\* The commands a FEB/D has still to execute.
InSlots == {tx[(txRd + i) % Slots] : i \in 0 .. Filled(txWr, txRd) - 1}
Pending == InSlots \cup {m.message : m \in {n \in link : ~n.executed}}

\* sendCommand hands out the reply to this very command, and to its last try,
\* although replies are lost, late and in any order, and serial numbers start
\* over: a reply to an earlier command or try is taken for it only when that
\* was SNModulus tries ago, or more. (The tries count that never got a slot: it
\* takes hours of them, with the card stuck.)
Recent == try - outcome.reply.try < SNModulus

ReplyAnswersCommand ==
  outcome.kind = "ok" /\ Recent => outcome.reply.try = try /\ outcome.reply.feb = feb

\* Once sendCommand has returned a reply, no command or try sent to that FEB/D
\* before is executed any more: what a script does next is not undone by a
\* retry that was late.
NothingExecutesLate ==
  outcome.kind = "ok" /\ Recent => \A m \in Pending : m.feb # feb

\* No command is overwritten in its slot before the card took it: the commands
\* in the slots are in the order of their tries.
SlotsInOrder ==
  \A i, j \in 0 .. Filled(txWr, txRd) - 1 :
    i < j => tx[(txRd + i) % Slots].try < tx[(txRd + j) % Slots].try

\* The slots are a queue, of commands and of replies.
SlotsAreQueues == TypeOK /\ SlotsInOrder

\* sendCommand returns or raises, though the FEB/D never answers and the
\* transmit slots are full.
CommandReturns == pc # "idle" ~> pc = "idle"

=============================================================================
