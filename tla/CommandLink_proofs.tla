-------------------------- MODULE CommandLink_proofs --------------------------
(***************************************************************************)
(* Proofs about CommandLink, for every set of FEB/Ds and every number of   *)
(* slots, serial numbers, tries and requests: the slots of the card are    *)
(* queues, sendCommand returns the reply to its own last try, and no older *)
(* command is executed after that.                                         *)
(***************************************************************************)
EXTENDS CommandLink, TLAPS

----------------------------------------------------------------------------
(* Arithmetic of the slots *)

\* The remainders the slots need, without the operator.
LEMMA ModThrice ==
  ASSUME NEW n \in Nat \ {0}, NEW x \in 0 .. 3 * n - 1
  PROVE  x % n = IF x < n THEN x ELSE IF x < 2 * n THEN x - n ELSE x - 2 * n
OBVIOUS

\* A pointer's remainder.
LEMMA ModTwice ==
  ASSUME NEW n \in Nat \ {0}, NEW x \in 0 .. 2 * n - 1
  PROVE  x % n = IF x < n THEN x ELSE x - n
OBVIOUS

\* The half of the pointer's range a pointer is in.
LEMMA DivIs ==
  ASSUME NEW n \in Nat \ {0}, NEW x \in 0 .. 2 * n - 1
  PROVE  x \div n = IF x < n THEN 0 ELSE 1
OBVIOUS

\* A pointer wraps at the end of its range.
LEMMA StepIs ==
  ASSUME NEW p \in Pointer
  PROVE  Step(p) = (IF p = 2 * Slots - 1 THEN 0 ELSE p + 1) /\ Step(p) \in Pointer
BY LinkAssumption DEF Step, Pointer

\* How many slots are filled.
LEMMA FilledIs ==
  ASSUME NEW w \in Pointer, NEW r \in Pointer
  PROVE  /\ Filled(w, r) = IF w < r THEN w - r + 2 * Slots ELSE w - r
         /\ Filled(w, r) \in Pointer /\ (Filled(w, r) = 0 <=> w = r)
<1> DEFINE n == 2 * Slots
           x == w - r + 2 * Slots
<1>1. n \in Nat \ {0} /\ x \in 0 .. 3 * n - 1 /\ x < 2 * n
  BY LinkAssumption DEF Pointer
<1>2. x % n = IF x < n THEN x ELSE x - n
  <2> HIDE DEF n, x
  <2>1. QED
    BY <1>1, ModThrice
<1>3. Filled(w, r) = IF x < n THEN x ELSE x - n
  BY <1>2 DEF Filled
<1>4. QED
  BY <1>3, LinkAssumption DEF Pointer

\* A slot more when something is put in, and one less when it is taken out.
LEMMA FilledStep ==
  ASSUME NEW w \in Pointer, NEW r \in Pointer
  PROVE  /\ Filled(w, r) < Slots => Filled(Step(w), r) = Filled(w, r) + 1
         /\ w # r => Filled(w, Step(r)) = Filled(w, r) - 1
<1>1. Step(w) \in Pointer /\ Step(r) \in Pointer
  BY StepIs
<1>2. Filled(w, r) = IF w < r THEN w - r + 2 * Slots ELSE w - r
  BY FilledIs
<1>3. Filled(Step(w), r) = IF Step(w) < r THEN Step(w) - r + 2 * Slots ELSE Step(w) - r
  BY <1>1, FilledIs
<1>4. Filled(w, Step(r)) = IF w < Step(r) THEN w - Step(r) + 2 * Slots ELSE w - Step(r)
  BY <1>1, FilledIs
<1>5. /\ Step(w) = IF w = 2 * Slots - 1 THEN 0 ELSE w + 1
      /\ Step(r) = IF r = 2 * Slots - 1 THEN 0 ELSE r + 1
  BY StepIs
<1>6. Slots \in Nat \ {0} /\ w \in 0 .. 2 * Slots - 1 /\ r \in 0 .. 2 * Slots - 1
  BY LinkAssumption DEF Pointer
<1>7. Filled(w, r) < Slots => Filled(Step(w), r) = Filled(w, r) + 1
  BY <1>2, <1>3, <1>5, <1>6
<1>8. w # r => Filled(w, Step(r)) = Filled(w, r) - 1
  BY <1>2, <1>4, <1>5, <1>6
<1>9. QED
  BY <1>7, <1>8

\* The place of the i-th of a queue that begins at r.
Place(r, i) == (r + i) % Slots

\* The place without the operator; there is such a slot.
LEMMA PlaceIs ==
  ASSUME NEW r \in Pointer, NEW i \in 0 .. Slots - 1
  PROVE  /\ Place(r, i) = IF r + i < Slots THEN r + i
                          ELSE IF r + i < 2 * Slots THEN r + i - Slots ELSE r + i - 2 * Slots
         /\ Place(r, i) \in 0 .. Slots - 1
<1> DEFINE x == r + i
<1>1. Slots \in Nat \ {0} /\ x \in 0 .. 3 * Slots - 1
  BY LinkAssumption DEF Pointer
<1>2. x % Slots = IF x < Slots THEN x ELSE IF x < 2 * Slots THEN x - Slots ELSE x - 2 * Slots
  <2> HIDE DEF x
  <2>1. QED
    BY <1>1, ModThrice
<1>3. Place(r, i) = IF x < Slots THEN x ELSE IF x < 2 * Slots THEN x - Slots ELSE x - 2 * Slots
  BY <1>2 DEF Place
<1>4. QED
  BY <1>1, <1>3, LinkAssumption DEF Pointer

\* Two of one queue have places of their own.
LEMMA PlacesDiffer ==
  ASSUME NEW r \in Pointer, NEW i \in 0 .. Slots - 1, NEW j \in 0 .. Slots - 1, i # j
  PROVE  Place(r, i) # Place(r, j)
<1>1. Place(r, i) = IF r + i < Slots THEN r + i
                    ELSE IF r + i < 2 * Slots THEN r + i - Slots ELSE r + i - 2 * Slots
  BY PlaceIs
<1>2. Place(r, j) = IF r + j < Slots THEN r + j
                    ELSE IF r + j < 2 * Slots THEN r + j - Slots ELSE r + j - 2 * Slots
  BY PlaceIs
<1>3. QED
  BY <1>1, <1>2, LinkAssumption DEF Pointer

\* Without its first, which is at the pointer, a queue is one place on.
LEMMA PlaceStep ==
  ASSUME NEW r \in Pointer
  PROVE  /\ Place(r, 0) = r % Slots
         /\ \A i \in 0 .. Slots - 2 : Place(Step(r), i) = Place(r, i + 1)
<1>1. Place(r, 0) = r % Slots
  BY LinkAssumption DEF Place, Pointer
<1>2. ASSUME NEW i \in 0 .. Slots - 2 PROVE Place(Step(r), i) = Place(r, i + 1)
  <2> DEFINE p == Step(r)
             j == i + 1
  <2>1. p = (IF r = 2 * Slots - 1 THEN 0 ELSE r + 1) /\ p \in Pointer
    BY StepIs
  <2>2. j \in 0 .. Slots - 1 /\ i \in 0 .. Slots - 1
    BY LinkAssumption
  <2> HIDE DEF p
  <2>3. Place(p, i) = IF p + i < Slots THEN p + i
                      ELSE IF p + i < 2 * Slots THEN p + i - Slots ELSE p + i - 2 * Slots
    BY <2>1, <2>2, PlaceIs
  <2>4. Place(r, j) = IF r + j < Slots THEN r + j
                      ELSE IF r + j < 2 * Slots THEN r + j - Slots ELSE r + j - 2 * Slots
    <3> HIDE DEF j
    <3>1. QED
      BY <2>2, PlaceIs
  <2>5. Place(p, i) = Place(r, j)
    BY <2>1, <2>3, <2>4, LinkAssumption DEF Pointer
  <2>6. QED
    BY <2>5 DEF p
<1>3. QED
  BY <1>1, <1>2

\* A pointer is at one of the slots.
LEMMA SlotIs == ASSUME NEW p \in Pointer PROVE p % Slots \in 0 .. Slots - 1
<1>1. 0 \in 0 .. Slots - 1
  BY LinkAssumption
<1>2. QED
  BY <1>1, PlaceStep, PlaceIs

\* The next is put behind the last.
LEMMA PlaceOfNext ==
  ASSUME NEW w \in Pointer, NEW r \in Pointer, Filled(w, r) < Slots
  PROVE  w % Slots = Place(r, Filled(w, r))
<1> DEFINE d == Filled(w, r)
<1>1. d \in 0 .. Slots - 1 /\ d = IF w < r THEN w - r + 2 * Slots ELSE w - r
  BY FilledIs, LinkAssumption DEF Pointer
<1>2. w % Slots = Place(w, 0) /\ 0 \in 0 .. Slots - 1
  BY PlaceStep, LinkAssumption
<1> HIDE DEF d
<1>3. Place(w, 0) = IF w + 0 < Slots THEN w + 0
                    ELSE IF w + 0 < 2 * Slots THEN w + 0 - Slots ELSE w + 0 - 2 * Slots
  BY <1>2, PlaceIs
<1>4. Place(r, d) = IF r + d < Slots THEN r + d
                    ELSE IF r + d < 2 * Slots THEN r + d - Slots ELSE r + d - 2 * Slots
  BY <1>1, PlaceIs
<1>5. w % Slots = Place(r, d)
  BY <1>1, <1>2, <1>3, <1>4, LinkAssumption DEF Pointer
<1>6. QED
  BY <1>5 DEF d

\* The card's test of its pointers finds out whether all slots are filled.
LEMMA FullIs ==
  ASSUME TypeOK
  PROVE  TxFull <=> Filled(txWr, txRd) = Slots
<1>1. txWr \in 0 .. 2 * Slots - 1 /\ txRd \in 0 .. 2 * Slots - 1 /\ Slots \in Nat \ {0}
  BY LinkAssumption DEF TypeOK, Pointer
<1>2. /\ txWr % Slots = IF txWr < Slots THEN txWr ELSE txWr - Slots
      /\ txRd % Slots = IF txRd < Slots THEN txRd ELSE txRd - Slots
  BY <1>1, ModTwice
<1>3. /\ txWr \div Slots = IF txWr < Slots THEN 0 ELSE 1
      /\ txRd \div Slots = IF txRd < Slots THEN 0 ELSE 1
  BY <1>1, DivIs
<1>4. Filled(txWr, txRd) = IF txWr < txRd THEN txWr - txRd + 2 * Slots ELSE txWr - txRd
  BY FilledIs DEF TypeOK
<1>5. QED
  BY <1>1, <1>2, <1>3, <1>4 DEF TxFull

----------------------------------------------------------------------------
(* Serial numbers *)

\* A difference of less than the modulus is a multiple of it only when it is 0.
LEMMA SmallMultiple ==
  ASSUME NEW n \in Nat \ {0}, NEW d \in Int, NEW k \in Int, d = k * n, -n < d, d < n
  PROVE  d = 0 /\ k = 0
<1>1. CASE k >= 1
  <2>1. k * n >= n
    BY <1>1
  <2>2. QED
    BY <2>1
<1>2. CASE k <= -1
  <2>1. k * n <= -n
    BY <1>2
  <2>2. QED
    BY <2>1
<1>3. CASE k = 0
  BY <1>3
<1>4. QED
  BY <1>1, <1>2, <1>3

\* Equal remainders: the difference is a multiple.
LEMMA SameRemainder ==
  ASSUME NEW n \in Int, n > 0, NEW x \in Int, NEW y \in Int, x % n = y % n
  PROVE  \E q \in Int : x - y = q * n
BY SMTT(30)

\* A number is made up of its two bytes.
LEMMA TwoBytes ==
  ASSUME NEW n \in SerialNumber
  PROVE  /\ n = Byte * (n \div Byte) + (n % Byte)
         /\ n \div Byte \in 0 .. Byte - 1 /\ n % Byte \in 0 .. Byte - 1
<1> DEFINE h == n \div Byte
           l == n % Byte
<1>1. Byte \in Int /\ Byte > 0 /\ n \in 0 .. Byte * Byte - 1 /\ Byte * Byte \in Nat
  BY SerialNumberAssumption DEF SerialNumber
<1>2. n = Byte * h + l /\ h \in Int /\ l \in 0 .. Byte - 1
  BY <1>1
<1> HIDE DEF h, l
<1>3. h < Byte
  <2>1. h >= Byte => Byte * h >= Byte * Byte
    BY <1>1, <1>2
  <2>2. QED
    BY <1>1, <1>2, <2>1
<1>4. h >= 0
  <2>1. h <= -1 => Byte * h <= -Byte
    BY <1>1, <1>2
  <2>2. QED
    BY <1>1, <1>2, <2>1
<1>5. n = Byte * h + l /\ h \in 0 .. Byte - 1 /\ l \in 0 .. Byte - 1
  BY <1>1, <1>2, <1>3, <1>4
<1>6. QED
  BY <1>5 DEF h, l

\* The values of a signed char differ as those of a byte do, by less than Byte.
LEMMA SignedByteInjective ==
  ASSUME NEW a \in 0 .. Byte - 1, NEW b \in 0 .. Byte - 1
  PROVE  /\ SignedByte(a) \in Int /\ SignedByte(b) \in Int
         /\ -Byte < SignedByte(a) - SignedByte(b) /\ SignedByte(a) - SignedByte(b) < Byte
         /\ SignedByte(a) - SignedByte(b) = 0 => a = b
BY SerialNumberAssumption DEF SignedByte

\* Adding up the bytes as signed chars loses nothing of a serial number: the
\* numbers daqd compares are equal when the serial numbers are.
LEMMA ReceivedInjective ==
  ASSUME NEW a \in SerialNumber, NEW b \in SerialNumber, Received(a) = Received(b)
  PROVE  a = b
<1> DEFINE ha == SignedByte(a \div Byte)
           la == SignedByte(a % Byte)
           hb == SignedByte(b \div Byte)
           lb == SignedByte(b % Byte)
<1>1. /\ ha \in Int /\ hb \in Int /\ -Byte < ha - hb /\ ha - hb < Byte
      /\ ha - hb = 0 => a \div Byte = b \div Byte
  BY TwoBytes, SignedByteInjective
<1>2. /\ la \in Int /\ lb \in Int /\ -Byte < la - lb /\ la - lb < Byte
      /\ la - lb = 0 => a % Byte = b % Byte
  BY TwoBytes, SignedByteInjective
<1>3. Byte \in Nat \ {0} /\ Byte * Byte \in Int /\ Byte * Byte > 0
  BY SerialNumberAssumption
<1>4. (ha * Byte + la) % (Byte * Byte) = (hb * Byte + lb) % (Byte * Byte)
  BY DEF Received
<1> HIDE DEF ha, la, hb, lb
<1> DEFINE m == Byte * Byte
           x == ha * Byte + la
           y == hb * Byte + lb
<1>5. m \in Int /\ m > 0 /\ x \in Int /\ y \in Int /\ x % m = y % m
  BY <1>1, <1>2, <1>3, <1>4
<1>6. PICK q \in Int : x - y = q * m
  <2> HIDE DEF m, x, y
  <2>1. QED
    BY <1>5, SameRemainder
<1>7. la - lb = 0
  <2>1. la - lb = (q * Byte - (ha - hb)) * Byte
    BY <1>1, <1>2, <1>3, <1>6
  <2>2. q * Byte - (ha - hb) \in Int
    BY <1>1, <1>3
  <2>3. QED
    BY <1>2, <1>3, <2>1, <2>2, SmallMultiple
<1>8. ha - hb = 0
  <2>1. (ha - hb) * Byte = (q * Byte) * Byte
    BY <1>1, <1>2, <1>3, <1>6, <1>7
  <2>2. ha - hb = q * Byte
    BY <1>1, <1>3, <2>1
  <2>3. QED
    BY <1>1, <1>3, <2>2, SmallMultiple
<1>9. a \div Byte = b \div Byte /\ a % Byte = b % Byte
  BY <1>1, <1>2, <1>7, <1>8
<1>10. a = Byte * (a \div Byte) + (a % Byte) /\ b = Byte * (b \div Byte) + (b % Byte)
  BY TwoBytes
<1>11. QED
  BY <1>9, <1>10, Zenon

----------------------------------------------------------------------------
(* Slots as a queue *)

\* What is in slots s from place r on, w being the place behind.
Queue(s, w, r) == {s[Place(r, i)] : i \in 0 .. Filled(w, r) - 1}

\* t is s with m put in at pointer w.
Put(s, t, w, m) == t = [s EXCEPT ![w % Slots] = m]

\* No slot but x differs in t from s.
OnlyAt(s, t, x) == \A p \in 0 .. Slots - 1 : p # x => t[p] = s[p]

\* What is put behind the last leaves the others where they are.
LEMMA PutInQueue ==
  ASSUME NEW s, NEW t, NEW w \in Pointer, NEW r \in Pointer, Filled(w, r) < Slots,
         OnlyAt(s, t, w % Slots)
  PROVE  /\ \A i \in 0 .. Filled(w, r) - 1 : t[Place(r, i)] = s[Place(r, i)]
         /\ t[Place(r, Filled(w, r))] = t[w % Slots]
         /\ Queue(t, Step(w), r) = Queue(s, w, r) \cup {t[w % Slots]}
<1> DEFINE d == Filled(w, r)
<1>1. Step(w) \in Pointer /\ Filled(Step(w), r) = d + 1 /\ d \in 0 .. Slots - 1
  <2>1. d \in 0 .. Slots - 1
    <3>1. d \in Pointer
      BY FilledIs
    <3>2. QED
      BY <3>1, LinkAssumption DEF Pointer
  <2>2. QED
    BY <2>1, FilledStep, StepIs
<1>2. w % Slots = Place(r, d)
  BY PlaceOfNext
<1> HIDE DEF d
<1>3. Place(r, d) \in 0 .. Slots - 1
  BY <1>1, PlaceIs
<1>4. t[Place(r, d)] = t[w % Slots]
  BY <1>2, <1>3
<1>5. ASSUME NEW i \in 0 .. d - 1 PROVE t[Place(r, i)] = s[Place(r, i)]
  <2>1. i \in 0 .. Slots - 1 /\ i # d
    BY <1>1, LinkAssumption
  <2>2. Place(r, i) # Place(r, d) /\ Place(r, i) \in 0 .. Slots - 1
    BY <1>1, <2>1, PlacesDiffer, PlaceIs
  <2>3. QED
    BY <1>2, <2>2 DEF OnlyAt
<1>6. Queue(t, Step(w), r) = Queue(s, w, r) \cup {t[w % Slots]}
  <2>1. Queue(t, Step(w), r) = {t[Place(r, i)] : i \in 0 .. d}
    BY <1>1 DEF Queue
  <2>2. Queue(s, w, r) = {s[Place(r, i)] : i \in 0 .. d - 1}
    BY DEF Queue, d
  <2>3. 0 .. d = 0 .. d - 1 \cup {d}
    BY <1>1
  <2>4. QED
    <3>1. {t[Place(r, i)] : i \in 0 .. d} = {t[Place(r, i)] : i \in 0 .. d - 1} \cup {t[Place(r, d)]}
      BY <2>3, Zenon
    <3>2. {t[Place(r, i)] : i \in 0 .. d - 1} = {s[Place(r, i)] : i \in 0 .. d - 1}
      BY <1>5, Zenon
    <3>3. QED
      BY <1>4, <2>1, <2>2, <3>1, <3>2
<1>7. QED
  BY <1>1, <1>4, <1>5, <1>6 DEF d

\* Taking the first moves the others up by one.
LEMMA TakeFromQueue ==
  ASSUME NEW s, NEW w \in Pointer, NEW r \in Pointer, w # r, Filled(w, r) <= Slots
  PROVE  /\ Step(r) \in Pointer /\ Filled(w, Step(r)) = Filled(w, r) - 1
         /\ Filled(w, r) \in 1 .. Slots
         /\ \A i \in 0 .. Filled(w, r) - 2 : s[Place(Step(r), i)] = s[Place(r, i + 1)]
         /\ s[r % Slots] = s[Place(r, 0)] /\ s[r % Slots] \in Queue(s, w, r)
         /\ Queue(s, w, Step(r)) \subseteq Queue(s, w, r)
<1> DEFINE d == Filled(w, r)
<1>1. Step(r) \in Pointer /\ Filled(w, Step(r)) = d - 1 /\ d \in 1 .. Slots
  BY FilledIs, FilledStep, StepIs, LinkAssumption DEF Pointer
<1> HIDE DEF d
<1>2. ASSUME NEW i \in 0 .. d - 2 PROVE s[Place(Step(r), i)] = s[Place(r, i + 1)]
  <2>1. i \in 0 .. Slots - 2
    BY <1>1, LinkAssumption
  <2>2. QED
    BY <2>1, PlaceStep
<1>3. s[r % Slots] = s[Place(r, 0)]
  BY PlaceStep
<1>4. Queue(s, w, r) = {s[Place(r, i)] : i \in 0 .. d - 1}
  BY DEF Queue, d
<1>5. s[r % Slots] \in Queue(s, w, r)
  <2>1. 0 \in 0 .. d - 1
    BY <1>1
  <2>2. QED
    BY <1>3, <1>4, <2>1
<1>6. Queue(s, w, Step(r)) \subseteq Queue(s, w, r)
  <2>1. Queue(s, w, Step(r)) = {s[Place(Step(r), i)] : i \in 0 .. d - 2}
    BY <1>1 DEF Queue
  <2>2. ASSUME NEW i \in 0 .. d - 2 PROVE s[Place(Step(r), i)] \in Queue(s, w, r)
    <3>1. i + 1 \in 0 .. d - 1
      BY <1>1
    <3>2. QED
      BY <1>2, <1>4, <3>1
  <2>3. QED
    BY <2>1, <2>2
<1>7. QED
  BY <1>1, <1>2, <1>3, <1>5, <1>6 DEF d

----------------------------------------------------------------------------
(* The inductive invariant *)

\* The replies for daqd to read.
Replies == Queue(rx, rxWr, rxRd)

\* The commands that were executed, or their replies.
Answered == Replies \cup {m.message : m \in {n \in link : n.executed}}

\* The slots and the links have the type of functions and records, and what was
\* put into the slots are messages.
SlotsTyped ==
  /\ tx \in [0 .. Slots - 1 -> Message \cup {Nothing}] /\ rx \in [0 .. Slots - 1 -> Message \cup {Nothing}]
  /\ link \in SUBSET [message : Message, executed : BOOLEAN]
  /\ InSlots \subseteq Message /\ Replies \subseteq Message

\* Every request makes MaxTries tries at most.
Budget ==
  /\ nRequests \in Nat
  /\ nRequests = 0 => try = 0 /\ pc = "idle"
  /\ nRequests > 0 => try + MaxTries <= MaxTries * nRequests + nTries

\* A serial number is told by the number of the try, counted back from lastSN.
Numbered(n, t) == \E k \in Nat : n + 1 + try - t = lastSN + k * SNModulus

\* What is under way was sent by a try up to this one; by this one when it is to
\* the FEB/D of the command, and only once it was transmitted.
Numbers ==
  /\ \A m \in Pending \cup Answered :
       /\ Numbered(m.sn, m.try) /\ m.try <= try
       /\ m.try = try => m.feb = feb /\ pc # "transmit"
  /\ pc # "idle" => Numbered(sn, try) /\ outcome.kind = "none"

\* Commands reach the links in order, and each FEB/D answers in order.
InOrder ==
  /\ \A r \in Answered, p \in Pending : r.feb = p.feb => r.try < p.try
  /\ \A n \in link, p \in InSlots : n.message.try < p.try
  /\ \A m, n \in link : m.message.try = n.message.try => m = n

CommandInv ==
  /\ TypeOK /\ SlotsTyped /\ Budget /\ Numbers /\ InOrder /\ SlotsInOrder
  /\ ReplyAnswersCommand /\ NothingExecutesLate

----------------------------------------------------------------------------
(* What the steps do to the slots and the links *)

\* The commands in the slots, as a queue.
LEMMA InSlotsIs == InSlots = Queue(tx, txWr, txRd)
BY DEF InSlots, Queue, Place

\* Taking a reply leaves only replies that were there, and the reply was there.
LEMMA ReceiveEffect ==
  ASSUME CommandInv, Receive
  PROVE  /\ rxRd' \in Pointer /\ Filled(rxWr, rxRd') <= Slots
         /\ rx[rxRd % Slots] \in Replies /\ Replies' \subseteq Replies
         /\ UNCHANGED InSlots
<1>1. rxWr \in Pointer /\ rxRd \in Pointer /\ rxWr # rxRd /\ Filled(rxWr, rxRd) <= Slots
  BY DEF CommandInv, TypeOK, Receive, RxEmpty
<1>2. rxRd' = Step(rxRd) /\ UNCHANGED <<rx, rxWr, tx, txWr, txRd>>
  BY DEF Receive
<1>3. rx[rxRd % Slots] \in Replies /\ Queue(rx, rxWr, Step(rxRd)) \subseteq Replies
  BY <1>1, TakeFromQueue DEF Replies
<1>4. Step(rxRd) \in Pointer /\ Filled(rxWr, Step(rxRd)) = Filled(rxWr, rxRd) - 1 /\ Filled(rxWr, rxRd) \in 1 .. Slots
  BY <1>1, TakeFromQueue
<1>5. QED
  BY <1>2, <1>3, <1>4, LinkAssumption DEF Replies, InSlots

\* Transmitting puts the command of this try behind all others, or drops it.
LEMMA TransmitEffect ==
  ASSUME CommandInv, Transmit
  PROVE  LET m == [feb |-> feb, sn |-> sn, try |-> try]
         IN /\ m \in Message
            /\ txWr' \in Pointer /\ Filled(txWr', txRd) <= Slots
            /\ tx' \in [0 .. Slots - 1 -> Message \cup {Nothing}]
            /\ InSlots' \subseteq InSlots \cup {m} /\ SlotsInOrder'
            /\ UNCHANGED Replies
<1> DEFINE m == [feb |-> feb, sn |-> sn, try |-> try]
<1>1. /\ txWr \in Pointer /\ txRd \in Pointer /\ Filled(txWr, txRd) <= Slots
      /\ tx \in [0 .. Slots - 1 -> Message \cup {Nothing}] /\ SlotsInOrder
  BY DEF CommandInv, TypeOK, SlotsTyped
<1>2. Filled(txWr, txRd) \in Pointer /\ Filled(txWr, txRd) \in Int
  BY <1>1, FilledIs, LinkAssumption DEF Pointer
<1>3. UNCHANGED <<txRd, rx, rxWr, rxRd>>
  BY DEF Transmit
<1>4. m \in Message /\ try \in Nat
  <2>1. MaxTries * nRequests \in Nat
    BY LinkAssumption DEF CommandInv, Budget
  <2>2. QED
    BY <2>1 DEF CommandInv, TypeOK, Message
<1>5. CASE TxFull
  <2>1. UNCHANGED <<tx, txWr>>
    BY <1>5 DEF Transmit
  <2>2. QED
    BY <1>1, <1>3, <1>4, <2>1 DEF InSlots, Replies, SlotsInOrder
<1>6. CASE ~TxFull
  <2>1. tx' = [tx EXCEPT ![txWr % Slots] = m] /\ txWr' = Step(txWr)
    BY <1>6 DEF Transmit
  <2>2. Filled(txWr, txRd) < Slots
    BY <1>1, <1>2, <1>6, FullIs, LinkAssumption DEF CommandInv
  <2> DEFINE d == Filled(txWr, txRd)
  <2>3. /\ txWr' \in Pointer /\ Filled(txWr', txRd) = d + 1 /\ d \in 0 .. Slots - 1
        /\ \A i \in 0 .. d - 1 : tx'[Place(txRd, i)] = tx[Place(txRd, i)]
        /\ tx'[Place(txRd, d)] = m
        /\ Queue(tx', txWr', txRd) = Queue(tx, txWr, txRd) \cup {m}
    <3>1. /\ tx'[txWr % Slots] = m
          /\ OnlyAt(tx, tx', txWr % Slots)
      BY <1>1, <2>1, SlotIs DEF OnlyAt
    <3>2. txWr \in Pointer /\ txRd \in Pointer
      BY <1>1
    <3>3. /\ \A i \in 0 .. d - 1 : tx'[Place(txRd, i)] = tx[Place(txRd, i)]
          /\ tx'[Place(txRd, d)] = tx'[txWr % Slots]
          /\ Queue(tx', Step(txWr), txRd) = Queue(tx, txWr, txRd) \cup {tx'[txWr % Slots]}
      BY <2>2, <3>1, <3>2, PutInQueue
    <3>4. Step(txWr) \in Pointer /\ Filled(Step(txWr), txRd) = d + 1 /\ d \in 0 .. Slots - 1
      BY <1>1, <1>2, <2>2, FilledStep, StepIs, LinkAssumption DEF Pointer
    <3>5. QED
      BY <2>1, <3>1, <3>3, <3>4
  <2>4. InSlots' = InSlots \cup {m}
    BY <1>3, <2>3, InSlotsIs DEF InSlots, Queue, Place
  <2>5. SlotsInOrder'
    <3> HIDE DEF d
    <3>1. ASSUME NEW i \in 0 .. d, NEW j \in 0 .. d, i < j
          PROVE  tx'[Place(txRd, i)].try < tx'[Place(txRd, j)].try
      <4>1. i \in 0 .. d - 1 /\ tx'[Place(txRd, i)] = tx[Place(txRd, i)]
        BY <2>3, <3>1
      <4>2. CASE j = d
        <5>1. tx[Place(txRd, i)] \in Pending
          BY <4>1 DEF Pending, InSlots, Place, d
        <5>2. tx[Place(txRd, i)] \in Message /\ tx[Place(txRd, i)].try < try
          <6>1. tx[Place(txRd, i)] \in Message
            BY <4>1 DEF CommandInv, SlotsTyped, InSlots, Place, d
          <6>2. tx[Place(txRd, i)].try <= try /\ tx[Place(txRd, i)].try # try
            BY <5>1 DEF CommandInv, Numbers, Transmit
          <6>3. QED
            BY <1>4, <6>1, <6>2 DEF Message
        <5>3. QED
          BY <2>3, <4>1, <4>2, <5>2
      <4>3. CASE j # d
        <5>1. j \in 0 .. d - 1 /\ tx'[Place(txRd, j)] = tx[Place(txRd, j)]
          BY <2>3, <4>3
        <5>2. QED
          BY <1>1, <3>1, <4>1, <5>1 DEF SlotsInOrder, Place, d
      <4>4. QED
        BY <4>2, <4>3
    <3>2. Filled(txWr', txRd') - 1 = d
      BY <1>3, <2>3
    <3>3. QED
      BY <1>3, <3>1, <3>2 DEF SlotsInOrder, Place
  <2>6. tx' \in [0 .. Slots - 1 -> Message \cup {Nothing}]
    BY <1>1, <1>4, <2>1
  <2>7. QED
    BY <1>3, <1>4, <2>3, <2>4, <2>5, <2>6, LinkAssumption DEF Replies
<1>7. QED
  BY <1>5, <1>6

\* The card takes the oldest command in the slots.
LEMMA CardSendsEffect ==
  ASSUME CommandInv, CardSends
  PROVE  LET m == tx[txRd % Slots]
         IN /\ m \in InSlots /\ InSlots' \subseteq InSlots
            /\ txRd' \in Pointer /\ Filled(txWr, txRd') <= Slots
            /\ \A p \in InSlots' : m.try < p.try
            /\ SlotsInOrder'
            /\ UNCHANGED Replies
<1> DEFINE m == tx[txRd % Slots]
           d == Filled(txWr, txRd)
<1>1. txWr \in Pointer /\ txRd \in Pointer /\ txRd # txWr /\ d <= Slots /\ SlotsInOrder
  BY DEF CommandInv, TypeOK, CardSends
<1>2. txRd' = Step(txRd) /\ UNCHANGED <<tx, txWr, rx, rxWr, rxRd>>
  BY DEF CardSends
<1>3. /\ txRd' \in Pointer /\ Filled(txWr, txRd') = d - 1 /\ d \in 1 .. Slots
      /\ \A i \in 0 .. d - 2 : tx[Place(txRd', i)] = tx[Place(txRd, i + 1)]
      /\ m = tx[Place(txRd, 0)] /\ m \in Queue(tx, txWr, txRd)
      /\ Queue(tx, txWr, txRd') \subseteq Queue(tx, txWr, txRd)
  BY <1>1, <1>2, TakeFromQueue
<1>4. m \in InSlots /\ InSlots' \subseteq InSlots
  BY <1>2, <1>3, InSlotsIs DEF InSlots, Queue, Place
<1> HIDE DEF d, m
<1>5. InSlots' = {tx[Place(txRd', i)] : i \in 0 .. d - 2}
  BY <1>2, <1>3 DEF InSlots, Place
<1>6. ASSUME NEW i \in 0 .. d - 1, NEW j \in 0 .. d - 1, i < j
      PROVE  tx[Place(txRd, i)].try < tx[Place(txRd, j)].try
  BY <1>1, <1>6 DEF SlotsInOrder, Place, d
<1>7. ASSUME NEW p \in InSlots' PROVE m.try < p.try
  <2>1. PICK i \in 0 .. d - 2 : p = tx[Place(txRd, i + 1)]
    BY <1>3, <1>5
  <2>2. 0 \in 0 .. d - 1 /\ i + 1 \in 0 .. d - 1 /\ 0 < i + 1
    BY <1>3
  <2>3. QED
    BY <1>3, <1>6, <2>1, <2>2
<1>8. SlotsInOrder'
  <2>1. ASSUME NEW i \in 0 .. d - 2, NEW j \in 0 .. d - 2, i < j
        PROVE  tx[Place(txRd', i)].try < tx[Place(txRd', j)].try
    <3>1. i + 1 \in 0 .. d - 1 /\ j + 1 \in 0 .. d - 1 /\ i + 1 < j + 1
      BY <1>3, <2>1
    <3>2. QED
      BY <1>3, <1>6, <3>1
  <2>2. Filled(txWr', txRd') - 1 = d - 2
    BY <1>2, <1>3
  <2>3. QED
    BY <1>2, <2>1, <2>2 DEF SlotsInOrder, Place
<1>9. QED
  BY <1>2, <1>3, <1>4, <1>7, <1>8, LinkAssumption DEF m, Replies

\* A reply is put behind the others.
LEMMA CardReceivesEffect ==
  ASSUME CommandInv, NEW m \in Message, Filled(rxWr, rxRd) < Slots,
         Put(rx, rx', rxWr, m), rxWr' = Step(rxWr), rxRd' = rxRd
  PROVE  /\ rxWr' \in Pointer /\ Filled(rxWr', rxRd) <= Slots
         /\ rx' \in [0 .. Slots - 1 -> Message \cup {Nothing}]
         /\ Replies' = Replies \cup {m}
<1>1. rxWr \in Pointer /\ rxRd \in Pointer /\ rx \in [0 .. Slots - 1 -> Message \cup {Nothing}]
  BY DEF CommandInv, TypeOK, SlotsTyped
<1>2. /\ Step(rxWr) \in Pointer /\ Filled(Step(rxWr), rxRd) = Filled(rxWr, rxRd) + 1
      /\ Filled(rxWr, rxRd) \in 0 .. Slots - 1
      /\ Queue(rx', Step(rxWr), rxRd) = Queue(rx, rxWr, rxRd) \cup {m}
  <2>1. /\ rx'[rxWr % Slots] = m
        /\ OnlyAt(rx, rx', rxWr % Slots)
    BY <1>1, SlotIs DEF OnlyAt, Put
  <2>2. Queue(rx', Step(rxWr), rxRd) = Queue(rx, rxWr, rxRd) \cup {rx'[rxWr % Slots]}
    <3>1. rxWr \in Pointer /\ rxRd \in Pointer /\ Filled(rxWr, rxRd) < Slots /\ OnlyAt(rx, rx', rxWr % Slots)
      BY <1>1, <2>1
    <3>2. QED
      BY <3>1, PutInQueue
  <2>3. Filled(rxWr, rxRd) \in 0 .. Slots - 1
    <3>1. Filled(rxWr, rxRd) \in Pointer
      BY <1>1, FilledIs
    <3>2. QED
      BY <3>1, LinkAssumption DEF Pointer
  <2>4. QED
    BY <1>1, <2>1, <2>2, <2>3, FilledStep, StepIs
<1>3. Filled(rxWr', rxRd) <= Slots
  BY <1>1, <1>2, LinkAssumption
<1>4. rx' \in [0 .. Slots - 1 -> Message \cup {Nothing}]
  BY <1>1 DEF Put
<1>5. QED
  BY <1>2, <1>3, <1>4 DEF Replies

----------------------------------------------------------------------------
(* The invariant holds initially *)

\* Nothing is in the slots or on the links yet.
LEMMA InitCommand == Init => CommandInv
<1> SUFFICES ASSUME Init PROVE CommandInv
  OBVIOUS
<1>1. txWr \in Pointer /\ txRd \in Pointer /\ rxWr \in Pointer /\ rxRd \in Pointer
  BY DEF Init
<1>2. Filled(txWr, txRd) = 0 /\ Filled(rxWr, rxRd) = 0
  BY <1>1, FilledIs DEF Init
<1>3. InSlots = {} /\ Replies = {} /\ Pending = {} /\ Answered = {}
  BY <1>2 DEF Init, InSlots, Replies, Queue, Pending, Answered
<1>4. TypeOK
  <2>1. 0 \in SerialNumber
    BY SerialNumberAssumption DEF SerialNumber
  <2>2. try \in 0 .. MaxTries * nRequests /\ nTries \in 0 .. MaxTries
    BY LinkAssumption DEF Init
  <2>3. \A s \in 0 .. Slots - 1 : {tx[s], rx[s]} \subseteq Message \cup {Nothing}
    BY DEF Init
  <2>4. QED
    BY <1>1, <1>2, <2>1, <2>2, <2>3, LinkAssumption DEF Init, TypeOK
<1>5. SlotsTyped /\ Budget /\ Numbers /\ InOrder
  BY <1>3 DEF Init, SlotsTyped, Budget, Numbers, InOrder
<1>6. SlotsInOrder /\ ReplyAnswersCommand /\ NothingExecutesLate
  BY <1>2 DEF Init, SlotsInOrder, ReplyAnswersCommand, NothingExecutesLate
<1>7. QED
  BY <1>4, <1>5, <1>6 DEF CommandInv

----------------------------------------------------------------------------
(* What the steps do to what is under way *)

\* Commands stay in the set of the pending ones, and replies in that of the
\* answered ones, until they are lost or taken; only Transmit adds a command,
\* and a command is answered only by its FEB/D.
Kept == Pending' \subseteq Pending /\ Answered' \subseteq Answered /\ link' \subseteq link /\ InSlots' \subseteq InSlots

\* The steps of daqd.py leave slots and links alone; taking a reply and losing
\* something add nothing.
LEMMA KeptBy ==
  ASSUME CommandInv, SendCommand \/ Receive \/ CommandTimeout \/ LinkLoses \/ UNCHANGED vars
  PROVE  Kept
<1>1. CASE SendCommand \/ CommandTimeout \/ UNCHANGED vars
  <2>1. UNCHANGED <<tx, txWr, txRd, rx, rxWr, rxRd, link>>
    BY <1>1 DEF SendCommand, CommandTimeout, vars, cardVars
  <2>2. InSlots' = InSlots /\ Replies' = Replies
    BY <2>1 DEF InSlots, Replies
  <2>3. QED
    BY <2>1, <2>2 DEF Kept, Pending, Answered
<1>2. CASE Receive
  <2>1. link' = link
    BY <1>2 DEF Receive
  <2>2. QED
    BY <1>2, <2>1, ReceiveEffect DEF Kept, Pending, Answered
<1>3. CASE LinkLoses
  <2>1. UNCHANGED <<tx, txWr, txRd, rx, rxWr, rxRd>> /\ link' \subseteq link
    BY <1>3 DEF LinkLoses, cardVars
  <2>2. InSlots' = InSlots /\ Replies' = Replies
    BY <2>1 DEF InSlots, Replies
  <2>3. QED
    BY <2>1, <2>2 DEF Kept, Pending, Answered
<1>4. QED
  BY <1>1, <1>2, <1>3

\* Passing a command on from the slots to the links.
LEMMA CardSendsKeeps ==
  ASSUME CommandInv, CardSends
  PROVE  LET m == tx[txRd % Slots]
         IN /\ link' = link \cup {[message |-> m, executed |-> FALSE]}
            /\ m \in InSlots /\ m \in Message /\ InSlots' \subseteq InSlots
            /\ \A p \in InSlots' : m.try < p.try
            /\ Pending' \subseteq Pending /\ Answered' = Answered
<1> DEFINE m == tx[txRd % Slots]
           n == [message |-> m, executed |-> FALSE]
<1>1. link' = link \cup {n}
  BY DEF CardSends
<1>2. /\ m \in InSlots /\ InSlots' \subseteq InSlots
      /\ \A p \in InSlots' : m.try < p.try
      /\ Replies' = Replies
  BY CardSendsEffect
<1>3. m \in Message
  BY <1>2 DEF CommandInv, SlotsTyped
<1> HIDE DEF m
<1>4. n.message = m /\ ~n.executed
  OBVIOUS
<1> HIDE DEF n
<1>5. Answered' = Answered
  <2>1. {x \in link' : x.executed} = {x \in link : x.executed}
    BY <1>1, <1>4
  <2>2. QED
    BY <1>2, <2>1 DEF Answered
<1>6. Pending' \subseteq Pending
  <2>1. {x \in link' : ~x.executed} = {x \in link : ~x.executed} \cup {n}
    BY <1>1, <1>4
  <2>2. Pending' \subseteq InSlots' \cup {x.message : x \in {y \in link : ~y.executed}} \cup {m}
    BY <1>4, <2>1 DEF Pending
  <2>3. QED
    BY <1>2, <2>2 DEF Pending
<1>7. QED
  BY <1>1, <1>2, <1>3, <1>5, <1>6 DEF m, n

\* A FEB/D executes the oldest of its commands on the links: it is answered then.
LEMMA FebExecutesKeeps ==
  ASSUME CommandInv, FebExecutes
  PROVE  \E m \in link :
           /\ ~m.executed /\ m.message \in Pending
           /\ \A p \in Pending' : p \in Pending /\ (p.feb = m.message.feb => m.message.try < p.try)
           /\ Answered' = Answered \cup {m.message}
           /\ link' = (link \ {m}) \cup {[m EXCEPT !.executed = TRUE]}
           /\ InSlots' = InSlots
<1>1. PICK m \in link :
        /\ ~m.executed
        /\ \A n \in link : n.message.feb = m.message.feb /\ ~n.executed => m.message.try <= n.message.try
        /\ link' = (link \ {m}) \cup {[m EXCEPT !.executed = TRUE]}
  BY DEF FebExecutes
<1> DEFINE x == [m EXCEPT !.executed = TRUE]
<1>2. m \in [message : Message, executed : BOOLEAN] /\ link \subseteq [message : Message, executed : BOOLEAN]
  BY DEF CommandInv, SlotsTyped
<1>3. x.message = m.message /\ x.executed
  BY <1>2
<1>4. link' = (link \ {m}) \cup {x}
  BY <1>1
<1> HIDE DEF x
<1>5. InSlots' = InSlots /\ Replies' = Replies
  BY DEF FebExecutes, cardVars, InSlots, Replies
<1>6. {n \in link' : n.executed} = {n \in link : n.executed} \cup {x}
  BY <1>1, <1>3, <1>4
<1>7. {n \in link' : ~n.executed} = {n \in link : ~n.executed} \ {m}
  BY <1>3, <1>4
<1>8. Answered' = Answered \cup {m.message}
  BY <1>3, <1>5, <1>6 DEF Answered
<1>9. m.message \in Pending
  BY <1>1 DEF Pending
<1>10. ASSUME NEW p \in Pending' PROVE p \in Pending /\ (p.feb = m.message.feb => m.message.try < p.try)
  <2>1. CASE p \in InSlots
    BY <2>1 DEF Pending, CommandInv, InOrder
  <2>2. CASE \E n \in link \ {m} : ~n.executed /\ p = n.message
    <3>1. PICK n \in link \ {m} : ~n.executed /\ p = n.message
      BY <2>2
    <3>2. n.message.try # m.message.try
      BY <3>1 DEF CommandInv, InOrder
    <3>3. n.message \in Message /\ m.message \in Message
      BY <1>2
    <3>4. n.message.try \in Nat /\ m.message.try \in Nat
      BY <3>3 DEF Message
    <3>5. p.feb = m.message.feb => m.message.try < p.try
      BY <1>1, <3>1, <3>2, <3>4
    <3>6. QED
      BY <3>1, <3>5 DEF Pending
  <2>3. QED
    BY <1>5, <1>7, <2>1, <2>2 DEF Pending
<1>11. QED
  BY <1>1, <1>5, <1>8, <1>9, <1>10

\* A reply goes from the links to the slots: it stays among the answered.
LEMMA CardReceivesKeeps ==
  ASSUME CommandInv, CardReceives
  PROVE  /\ Kept
         /\ rxWr' \in Pointer /\ Filled(rxWr', rxRd) <= Slots
         /\ rx' \in [0 .. Slots - 1 -> Message \cup {Nothing}] /\ Replies' \subseteq Message
<1>1. PICK m \in link :
        m.executed /\ link' = link \ {m} /\ Put(rx, rx', rxWr, m.message)
  BY DEF CardReceives, Put
<1>2. m.message \in Message /\ Filled(rxWr, rxRd) < Slots /\ rxWr' = Step(rxWr) /\ rxRd' = rxRd
  BY DEF CommandInv, SlotsTyped, CardReceives
<1>3. /\ rxWr' \in Pointer /\ Filled(rxWr', rxRd) <= Slots
      /\ rx' \in [0 .. Slots - 1 -> Message \cup {Nothing}]
      /\ Replies' = Replies \cup {m.message}
  BY <1>1, <1>2, CardReceivesEffect
<1>4. InSlots' = InSlots
  BY DEF CardReceives, InSlots
<1>5. Answered' \subseteq Answered
  BY <1>1, <1>3 DEF Answered
<1>6. Kept
  BY <1>1, <1>4, <1>5 DEF Kept, Pending
<1>7. Replies' \subseteq Message
  BY <1>2, <1>3 DEF CommandInv, SlotsTyped
<1>8. QED
  BY <1>3, <1>6, <1>7

\* Transmitting adds the command to the pending ones at most.
LEMMA TransmitKeeps ==
  ASSUME CommandInv, Transmit
  PROVE  LET m == [feb |-> feb, sn |-> sn, try |-> try]
         IN /\ Pending' \subseteq Pending \cup {m} /\ InSlots' \subseteq InSlots \cup {m}
            /\ Answered' = Answered /\ link' = link
<1> DEFINE m == [feb |-> feb, sn |-> sn, try |-> try]
<1>1. link' = link
  BY DEF Transmit
<1>2. InSlots' \subseteq InSlots \cup {m} /\ Replies' = Replies
  BY TransmitEffect
<1>3. QED
  BY <1>1, <1>2 DEF Pending, Answered

----------------------------------------------------------------------------
(* The steps keep the invariant *)

\* A serial number more.
LEMMA NextSNIs ==
  ASSUME lastSN \in SerialNumber
  PROVE  NextSN \in SerialNumber /\ NextSN = IF lastSN = SNModulus - 1 THEN 0 ELSE lastSN + 1
<1>1. SNModulus \in Nat \ {0}
  <2>1. Byte * Byte \in Nat
    BY SerialNumberAssumption
  <2>2. QED
    BY <2>1, SerialNumberAssumption
<1>2. NextSN = IF lastSN = SNModulus - 1 THEN 0 ELSE lastSN + 1
  <2>1. lastSN + 1 \in 0 .. 2 * SNModulus - 1
    BY <1>1 DEF SerialNumber
  <2> DEFINE x == lastSN + 1
  <2>2. x % SNModulus = IF x < SNModulus THEN x ELSE x - SNModulus
    <3> HIDE DEF x
    <3>1. x \in 0 .. 2 * SNModulus - 1
      BY <2>1 DEF x
    <3>2. QED
      BY <1>1, <3>1, ModTwice
  <2>3. QED
    BY <1>1, <2>2 DEF NextSN, SerialNumber
<1>3. QED
  BY <1>1, <1>2 DEF SerialNumber

\* The numbers of the tries.
LEMMA TriesType ==
  ASSUME CommandInv
  PROVE  /\ try \in Nat /\ nTries \in 0 .. MaxTries /\ nRequests \in Nat /\ MaxTries * nRequests \in Nat
         /\ MaxTries * (nRequests + 1) = MaxTries * nRequests + MaxTries
         /\ try <= MaxTries * nRequests
BY LinkAssumption DEF CommandInv, TypeOK, Budget

\* Every step keeps the bound of the tries.
LEMMA NextBudget ==
  CommandInv /\ [Next]_vars => (Budget /\ try \in 0 .. MaxTries * nRequests /\ nTries \in 0 .. MaxTries)'
<1> SUFFICES ASSUME CommandInv, [Next]_vars
             PROVE  (Budget /\ try \in 0 .. MaxTries * nRequests /\ nTries \in 0 .. MaxTries)'
  OBVIOUS
<1>0. /\ Budget /\ try \in Nat /\ nTries \in 0 .. MaxTries /\ nRequests \in Nat /\ MaxTries * nRequests \in Nat
      /\ MaxTries \in Nat \ {0} /\ try <= MaxTries * nRequests
  BY TriesType, LinkAssumption DEF CommandInv
<1>1. CASE SendCommand
  <2>1. MaxTries * nRequests' = MaxTries * nRequests + MaxTries /\ nRequests' = nRequests + 1
    BY <1>1, TriesType DEF SendCommand
  <2>2. try' = try + 1 /\ nTries' = 1 /\ pc' = "transmit"
    BY <1>1 DEF SendCommand
  <2>3. QED
    BY <1>0, <2>1, <2>2 DEF Budget
<1>2. CASE CommandTimeout
  <2>1. nRequests' = nRequests /\ nRequests > 0 /\ try + MaxTries <= MaxTries * nRequests + nTries
    BY <1>0, <1>2 DEF CommandTimeout, Budget
  <2>2. CASE nTries < MaxTries
    <3>1. try' = try + 1 /\ nTries' = nTries + 1 /\ pc' = "transmit"
      BY <1>2, <2>2 DEF CommandTimeout, MakeTry
    <3>2. QED
      BY <1>0, <2>1, <2>2, <3>1 DEF Budget
  <2>3. CASE ~(nTries < MaxTries)
    <3>1. try' = try /\ nTries' = nTries
      BY <1>2, <2>3 DEF CommandTimeout
    <3>2. QED
      BY <1>0, <2>1, <3>1 DEF Budget
  <2>4. QED
    BY <2>2, <2>3
<1>3. CASE Transmit \/ Receive
  BY <1>0, <1>3 DEF Transmit, Receive, Budget
<1>4. CASE CardSends \/ FebExecutes \/ CardReceives \/ LinkLoses \/ UNCHANGED vars
  BY <1>0, <1>4 DEF CardSends, FebExecutes, CardReceives, LinkLoses, vars, callVars, Budget
<1>5. QED
  BY <1>1, <1>2, <1>3, <1>4 DEF Next, Call

\* Every step keeps the types of the slots and the links.
LEMMA NextSlotsTyped == CommandInv /\ [Next]_vars => SlotsTyped'
<1> SUFFICES ASSUME CommandInv, [Next]_vars PROVE SlotsTyped'
  OBVIOUS
<1>0. SlotsTyped
  BY DEF CommandInv
<1>1. CASE SendCommand \/ CommandTimeout \/ LinkLoses \/ Receive \/ UNCHANGED vars
  <2>1. tx' = tx /\ rx' = rx /\ link' \subseteq link
    BY <1>1 DEF SendCommand, CommandTimeout, LinkLoses, Receive, vars, cardVars
  <2>2. InSlots' \subseteq InSlots
    BY <1>1, KeptBy DEF Kept
  <2>3. Replies' \subseteq Replies
    <3>1. CASE Receive
      BY <3>1, ReceiveEffect
    <3>2. CASE ~Receive
      BY <1>1, <3>2 DEF SendCommand, CommandTimeout, LinkLoses, vars, cardVars, Replies
    <3>3. QED
      BY <3>1, <3>2
  <2>4. QED
    BY <1>0, <2>1, <2>2, <2>3 DEF SlotsTyped
<1>2. CASE Transmit
  <2>1. rx' = rx /\ link' = link
    BY <1>2 DEF Transmit
  <2>2. QED
    BY <1>0, <1>2, <2>1, TransmitEffect DEF SlotsTyped
<1>3. CASE CardSends
  <2>1. tx' = tx /\ rx' = rx /\ Replies' = Replies
    BY <1>3, CardSendsEffect DEF CardSends
  <2>2. link' \subseteq [message : Message, executed : BOOLEAN]
    <3>1. link' = link \cup {[message |-> tx[txRd % Slots], executed |-> FALSE]} /\ tx[txRd % Slots] \in Message
      BY <1>3, CardSendsKeeps
    <3>2. [message |-> tx[txRd % Slots], executed |-> FALSE] \in [message : Message, executed : BOOLEAN]
      BY <3>1
    <3>3. QED
      BY <1>0, <3>1, <3>2 DEF SlotsTyped
  <2>3. InSlots' \subseteq InSlots
    BY <1>3, CardSendsKeeps
  <2>4. QED
    BY <1>0, <2>1, <2>2, <2>3 DEF SlotsTyped
<1>4. CASE FebExecutes
  <2>1. tx' = tx /\ rx' = rx /\ Replies' = Replies /\ InSlots' = InSlots
    BY <1>4 DEF FebExecutes, cardVars, Replies, InSlots
  <2>2. PICK m \in link : link' = (link \ {m}) \cup {[m EXCEPT !.executed = TRUE]}
    BY <1>4 DEF FebExecutes
  <2>3. [m EXCEPT !.executed = TRUE] \in [message : Message, executed : BOOLEAN]
    BY <1>0 DEF SlotsTyped
  <2>4. QED
    BY <1>0, <2>1, <2>2, <2>3 DEF SlotsTyped
<1>5. CASE CardReceives
  <2>1. tx' = tx
    BY <1>5 DEF CardReceives
  <2>2. QED
    BY <1>0, <1>5, <2>1, CardReceivesKeeps DEF SlotsTyped, Kept
<1>6. QED
  BY <1>1, <1>2, <1>3, <1>4, <1>5 DEF Next, Call

\* Every step keeps the types, the bound of the tries included.
LEMMA NextType == CommandInv /\ [Next]_vars => TypeOK'
<1> SUFFICES ASSUME CommandInv, [Next]_vars PROVE TypeOK'
  OBVIOUS
<1>0. TypeOK
  BY DEF CommandInv
<1>1. (try \in 0 .. MaxTries * nRequests /\ nTries \in 0 .. MaxTries)'
  BY NextBudget
<1>2. SlotsTyped'
  BY NextSlotsTyped
<1>3. /\ \A s \in 0 .. Slots - 1 : {tx'[s], rx'[s]} \subseteq Message \cup {Nothing}
      /\ \A m \in link' : m.message \in Message /\ m.executed \in BOOLEAN
  BY <1>2 DEF SlotsTyped
<1>4. /\ txWr' \in Pointer /\ txRd' \in Pointer /\ Filled(txWr', txRd') <= Slots
      /\ rxWr' \in Pointer /\ rxRd' \in Pointer /\ Filled(rxWr', rxRd') <= Slots
  <2>1. CASE Transmit
    <3>1. UNCHANGED <<txRd, rxWr, rxRd>>
      BY <2>1 DEF Transmit
    <3>2. QED
      BY <1>0, <2>1, <3>1, TransmitEffect DEF TypeOK
  <2>2. CASE Receive
    <3>1. UNCHANGED <<txWr, txRd, rxWr>>
      BY <2>2 DEF Receive
    <3>2. QED
      BY <1>0, <2>2, <3>1, ReceiveEffect DEF TypeOK
  <2>3. CASE CardSends
    <3>1. UNCHANGED <<txWr, rxWr, rxRd>>
      BY <2>3 DEF CardSends
    <3>2. QED
      BY <1>0, <2>3, <3>1, CardSendsEffect DEF TypeOK
  <2>4. CASE CardReceives
    <3>1. UNCHANGED <<txWr, txRd, rxRd>>
      BY <2>4 DEF CardReceives
    <3>2. QED
      BY <1>0, <2>4, <3>1, CardReceivesKeeps DEF TypeOK
  <2>5. CASE SendCommand \/ CommandTimeout \/ FebExecutes \/ LinkLoses \/ UNCHANGED vars
    <3>1. UNCHANGED <<txWr, txRd, rxWr, rxRd>>
      BY <2>5 DEF SendCommand, CommandTimeout, FebExecutes, LinkLoses, vars, cardVars
    <3>2. QED
      BY <1>0, <3>1 DEF TypeOK
  <2>6. QED
    BY <2>1, <2>2, <2>3, <2>4, <2>5 DEF Next, Call
<1>5. pc' \in {"idle", "transmit", "receive"} /\ feb' \in Febs /\ sn' \in SerialNumber /\ lastSN' \in SerialNumber
  <2>1. lastSN \in SerialNumber /\ NextSN \in SerialNumber /\ sn \in SerialNumber /\ feb \in Febs
    BY <1>0, NextSNIs DEF TypeOK
  <2>2. CASE SendCommand \/ CommandTimeout
    BY <1>0, <2>1, <2>2 DEF TypeOK, SendCommand, CommandTimeout, MakeTry
  <2>3. CASE Transmit \/ Receive
    BY <1>0, <2>1, <2>3 DEF TypeOK, Transmit, Receive
  <2>4. CASE CardSends \/ FebExecutes \/ CardReceives \/ LinkLoses \/ UNCHANGED vars
    BY <1>0, <2>4 DEF TypeOK, CardSends, FebExecutes, CardReceives, LinkLoses, vars, callVars
  <2>5. QED
    BY <2>2, <2>3, <2>4 DEF Next, Call
<1>6. QED
  BY <1>1, <1>3, <1>4, <1>5 DEF TypeOK

\* A step draws a serial number for a try, or changes neither.
LEMMA DrawOrNot ==
  ASSUME [Next]_vars
  PROVE  \/ try' = try + 1 /\ lastSN' = NextSN /\ sn' = lastSN /\ pc' = "transmit"
            /\ (outcome'.kind = "none" \/ (outcome' = outcome /\ pc # "idle"))
            /\ UNCHANGED <<cardVars, link>>
         \/ UNCHANGED <<try, lastSN, sn, feb>>
<1>1. CASE SendCommand
  BY <1>1 DEF SendCommand
<1>2. CASE CommandTimeout
  BY <1>2 DEF CommandTimeout, MakeTry
<1>3. CASE Transmit \/ Receive
  BY <1>3 DEF Transmit, Receive
<1>4. CASE CardSends \/ FebExecutes \/ CardReceives \/ LinkLoses \/ UNCHANGED vars
  BY <1>4 DEF CardSends, FebExecutes, CardReceives, LinkLoses, vars, callVars
<1>5. QED
  BY <1>1, <1>2, <1>3, <1>4 DEF Next, Call

\* The serial number of a try is told by the number of the try, later too; and
\* the one drawn now is.
LEMMA NumberedStays ==
  ASSUME CommandInv, [Next]_vars
  PROVE  /\ \A n, t \in Nat : Numbered(n, t) => Numbered(n, t)'
         /\ try' = try + 1 => Numbered(sn, try)'
<1> DEFINE N == SNModulus
<1>0. /\ N \in Nat \ {0} /\ lastSN \in 0 .. N - 1 /\ try \in Nat
      /\ NextSN = IF lastSN = N - 1 THEN 0 ELSE lastSN + 1
  <2>1. Byte * Byte \in Nat
    BY SerialNumberAssumption
  <2>2. SNModulus \in Nat \ {0}
    BY <2>1, SerialNumberAssumption
  <2>3. lastSN \in SerialNumber /\ try \in Nat
    BY TriesType DEF CommandInv, TypeOK
  <2>4. QED
    BY <2>2, <2>3, NextSNIs DEF SerialNumber
<1> HIDE DEF N
<1>1. ASSUME NEW n \in Nat, NEW t \in Nat, Numbered(n, t) PROVE Numbered(n, t)'
  <2>1. PICK k \in Nat : n + 1 + try - t = lastSN + k * N
    BY <1>1 DEF Numbered, N
  <2>2. (k + 1) * N = k * N + N /\ k + 1 \in Nat /\ k * N \in Nat
    BY <1>0
  <2>3. CASE try' = try + 1 /\ lastSN' = NextSN
    <3>1. CASE lastSN = N - 1
      <4>1. n + 1 + try' - t = lastSN' + (k + 1) * N
        BY <1>0, <2>1, <2>2, <2>3, <3>1
      <4>2. QED
        BY <2>2, <4>1 DEF Numbered, N
    <3>2. CASE lastSN # N - 1
      <4>1. n + 1 + try' - t = lastSN' + k * N
        BY <1>0, <2>1, <2>2, <2>3, <3>2
      <4>2. QED
        BY <4>1 DEF Numbered, N
    <3>3. QED
      BY <3>1, <3>2
  <2>4. CASE UNCHANGED <<try, lastSN>>
    BY <1>1, <2>4 DEF Numbered
  <2>5. QED
    BY <2>3, <2>4, DrawOrNot
<1>2. ASSUME try' = try + 1 PROVE Numbered(sn, try)'
  <2>1. sn' = lastSN /\ lastSN' = NextSN
    BY <1>0, <1>2, DrawOrNot
  <2>2. sn' + 1 + try' - try' = lastSN' + (IF lastSN = N - 1 THEN 1 ELSE 0) * N
    BY <1>0, <1>2, <2>1
  <2>3. QED
    BY <2>2 DEF Numbered, N
<1>3. QED
  BY <1>1, <1>2

\* Two numbered tries less than SNModulus apart with one serial number are the same.
LEMMA SameNumberSameTry ==
  ASSUME CommandInv, NEW n \in Nat, NEW t \in Nat, t <= try, try - t < SNModulus,
         Numbered(n, t), Numbered(n, try)
  PROVE  t = try
<1> DEFINE N == SNModulus
<1>0. N \in Nat \ {0} /\ try \in Nat /\ lastSN \in Int
  <2>1. Byte * Byte \in Nat
    BY SerialNumberAssumption
  <2>2. QED
    BY <2>1, SerialNumberAssumption, TriesType DEF CommandInv, TypeOK, SerialNumber
<1>1. PICK j \in Nat : n + 1 + try - t = lastSN + j * N
  BY DEF Numbered
<1>2. PICK k \in Nat : n + 1 + try - try = lastSN + k * N
  BY DEF Numbered
<1> HIDE DEF N
<1>3. try - t = (j - k) * N /\ j - k \in Int
  BY <1>0, <1>1, <1>2
<1>4. try - t < N /\ -N < try - t
  BY <1>0 DEF N
<1>5. try - t = 0
  BY <1>0, <1>3, <1>4, SmallMultiple
<1>6. QED
  BY <1>0, <1>5

\* What is under way are messages.
LEMMA UnderWayMessages ==
  ASSUME SlotsTyped
  PROVE  \A m \in Pending \cup Answered : m \in Message /\ m.sn \in SerialNumber /\ m.sn \in Nat /\ m.try \in Nat
<1>1. \A m \in Pending \cup Answered : m \in Message
  BY DEF SlotsTyped, Pending, Answered
<1>2. SerialNumber \subseteq Nat
  <2>1. Byte * Byte \in Nat
    BY SerialNumberAssumption
  <2>2. QED
    BY <2>1, SerialNumberAssumption DEF SerialNumber
<1>3. QED
  BY <1>1, <1>2 DEF Message

\* What is under way after a step was before, or is the command transmitted.
LEMMA NothingNew ==
  ASSUME CommandInv, [Next]_vars, ~Transmit
  PROVE  (Pending \cup Answered)' \subseteq Pending \cup Answered
<1>1. CASE SendCommand \/ Receive \/ CommandTimeout \/ LinkLoses \/ UNCHANGED vars
  BY <1>1, KeptBy DEF Kept
<1>2. CASE CardSends
  BY <1>2, CardSendsKeeps
<1>3. CASE FebExecutes
  BY <1>3, FebExecutesKeeps
<1>4. CASE CardReceives
  BY <1>4, CardReceivesKeeps DEF Kept
<1>5. QED
  BY <1>1, <1>2, <1>3, <1>4 DEF Next, Call

\* Every step keeps the numbers of the tries.
LEMMA NextNumbers == CommandInv /\ [Next]_vars => Numbers'
<1> SUFFICES ASSUME CommandInv, [Next]_vars PROVE Numbers'
  OBVIOUS
<1>0. Numbers /\ try \in Nat
  BY TriesType DEF CommandInv
<1>1. ASSUME NEW m \in Pending \cup Answered PROVE Numbered(m.sn, m.try)' /\ m.try \in Nat
  <2>1. m.sn \in Nat /\ m.try \in Nat
    BY UnderWayMessages DEF CommandInv
  <2>2. Numbered(m.sn, m.try)
    BY <1>0 DEF Numbers
  <2>3. QED
    BY <2>1, <2>2, NumberedStays
<1>2. CASE Transmit
  <2> DEFINE c == [feb |-> feb, sn |-> sn, try |-> try]
  <2>1. (Pending \cup Answered)' \subseteq Pending \cup Answered \cup {c}
    BY <1>2, TransmitKeeps
  <2>2. UNCHANGED <<feb, sn, try, lastSN, outcome>> /\ pc = "transmit" /\ pc' = "receive"
    BY <1>2 DEF Transmit
  <2>3. ASSUME NEW m, m = c PROVE Numbered(m.sn, m.try)' /\ m.try = try /\ m.feb = feb
    BY <1>0, <2>2, <2>3 DEF Numbers, Numbered
  <2> HIDE DEF c
  <2>4. ASSUME NEW m \in (Pending \cup Answered)'
        PROVE  Numbered(m.sn, m.try)' /\ m.try <= try' /\ (m.try = try' => m.feb = feb' /\ pc' # "transmit")
    <3>1. CASE m = c
      BY <1>0, <2>2, <2>3, <3>1
    <3>2. CASE m \in Pending \cup Answered
      BY <1>0, <1>1, <2>2, <3>2 DEF Numbers
    <3>3. QED
      BY <2>1, <3>1, <3>2
  <2>5. (pc # "idle" => Numbered(sn, try) /\ outcome.kind = "none")'
    BY <1>0, <2>2 DEF Numbers, Numbered
  <2>6. QED
    BY <2>4, <2>5 DEF Numbers
<1>3. CASE ~Transmit /\ try' = try + 1
  <2>1. (Pending \cup Answered)' \subseteq Pending \cup Answered
    BY <1>3, NothingNew
  <2>2. ASSUME NEW m \in (Pending \cup Answered)'
        PROVE  Numbered(m.sn, m.try)' /\ m.try <= try' /\ (m.try = try' => m.feb = feb' /\ pc' # "transmit")
    <3>1. m.try \in Nat /\ m.try <= try /\ Numbered(m.sn, m.try)'
      BY <1>0, <1>1, <2>1 DEF Numbers
    <3>2. QED
      BY <1>0, <1>3, <3>1
  <2>3. Numbered(sn, try)'
    BY <1>3, NumberedStays
  <2>4. outcome'.kind = "none"
    BY <1>0, <1>3, DrawOrNot DEF Numbers
  <2>5. QED
    BY <2>2, <2>3, <2>4 DEF Numbers
<1>4. CASE ~Transmit /\ try' # try + 1
  <2>1. (Pending \cup Answered)' \subseteq Pending \cup Answered
    BY <1>4, NothingNew
  <2>2. UNCHANGED <<try, lastSN, sn, feb>>
    BY <1>4, DrawOrNot
  <2>3. pc' = "transmit" => pc = "transmit"
    BY <1>4, <1>0, <2>2 DEF Next, Call, SendCommand, Receive, CommandTimeout, MakeTry, CardSends,
      FebExecutes, CardReceives, LinkLoses, vars, callVars
  <2>4. pc' # "idle" => pc # "idle" /\ outcome' = outcome
    BY <1>4, <1>0, <2>2 DEF Next, Call, SendCommand, Receive, CommandTimeout, MakeTry, CardSends,
      FebExecutes, CardReceives, LinkLoses, vars, callVars
  <2>5. ASSUME NEW m \in (Pending \cup Answered)'
        PROVE  Numbered(m.sn, m.try)' /\ m.try <= try' /\ (m.try = try' => m.feb = feb' /\ pc' # "transmit")
    BY <1>0, <1>1, <2>1, <2>2, <2>3 DEF Numbers
  <2>6. (pc # "idle" => Numbered(sn, try) /\ outcome.kind = "none")'
    BY <1>0, <2>2, <2>4 DEF Numbers, Numbered
  <2>7. QED
    BY <2>5, <2>6 DEF Numbers
<1>5. QED
  BY <1>2, <1>3, <1>4

\* Every step keeps the order of the commands and replies.
LEMMA NextInOrder == CommandInv /\ [Next]_vars => InOrder'
<1> SUFFICES ASSUME CommandInv, [Next]_vars PROVE InOrder'
  OBVIOUS
<1>0. InOrder
  BY DEF CommandInv
<1>1. CASE SendCommand \/ Receive \/ CommandTimeout \/ LinkLoses \/ CardReceives \/ UNCHANGED vars
  <2>1. Kept
    BY <1>1, KeptBy, CardReceivesKeeps
  <2>2. QED
    BY <1>0, <2>1 DEF Kept, InOrder
<1>2. CASE Transmit
  <2> DEFINE c == [feb |-> feb, sn |-> sn, try |-> try]
  <2>1. /\ Pending' \subseteq Pending \cup {c} /\ InSlots' \subseteq InSlots \cup {c}
        /\ Answered' = Answered /\ link' = link
    BY <1>2, TransmitKeeps
  <2>2. c.try = try
    OBVIOUS
  <2> HIDE DEF c
  <2>3. ASSUME NEW m \in Pending \cup Answered PROVE m.try < c.try
    <3>1. m.try \in Nat /\ try \in Nat
      BY UnderWayMessages, TriesType DEF CommandInv
    <3>2. m.try <= try /\ m.try # try
      BY <1>2 DEF CommandInv, Numbers, Transmit
    <3>3. QED
      BY <2>2, <3>1, <3>2
  <2>4. \A n \in link : n.message \in Pending \cup Answered
    BY DEF Pending, Answered
  <2>5. QED
    BY <1>0, <2>1, <2>3, <2>4 DEF InOrder
<1>3. CASE CardSends
  <2> DEFINE c == tx[txRd % Slots]
             x == [message |-> c, executed |-> FALSE]
  <2>1. /\ link' = link \cup {x} /\ c \in InSlots /\ InSlots' \subseteq InSlots
        /\ \A p \in InSlots' : c.try < p.try
        /\ Pending' \subseteq Pending /\ Answered' = Answered
    BY <1>3, CardSendsKeeps
  <2>2. x.message = c
    OBVIOUS
  <2> HIDE DEF c, x
  <2>3. \A r \in Answered', p \in Pending' : r.feb = p.feb => r.try < p.try
    BY <1>0, <2>1 DEF InOrder
  <2>4. \A n \in link', p \in InSlots' : n.message.try < p.try
    BY <1>0, <2>1, <2>2 DEF InOrder
  <2>5. ASSUME NEW n \in link PROVE n.message.try # c.try
    <3>1. n.message.try < c.try
      BY <1>0, <2>1 DEF InOrder
    <3>2. n.message \in Pending \cup Answered /\ c \in Pending
      BY <2>1 DEF Pending, Answered
    <3>3. n.message.try \in Nat /\ c.try \in Nat
      BY <3>2, UnderWayMessages DEF CommandInv
    <3>4. QED
      BY <3>1, <3>3
  <2>6. \A m, n \in link' : m.message.try = n.message.try => m = n
    BY <1>0, <2>1, <2>2, <2>5 DEF InOrder
  <2>7. QED
    BY <2>3, <2>4, <2>6 DEF InOrder
<1>4. CASE FebExecutes
  <2>1. PICK m \in link :
          /\ ~m.executed /\ m.message \in Pending
          /\ \A p \in Pending' : p \in Pending /\ (p.feb = m.message.feb => m.message.try < p.try)
          /\ Answered' = Answered \cup {m.message}
          /\ link' = (link \ {m}) \cup {[m EXCEPT !.executed = TRUE]}
          /\ InSlots' = InSlots
    BY <1>4, FebExecutesKeeps
  <2> DEFINE x == [m EXCEPT !.executed = TRUE]
  <2>2. x.message = m.message
    BY DEF CommandInv, SlotsTyped
  <2>3. link' = (link \ {m}) \cup {x}
    BY <2>1
  <2> HIDE DEF x
  <2>4. \A r \in Answered', p \in Pending' : r.feb = p.feb => r.try < p.try
    BY <1>0, <2>1 DEF InOrder
  <2>5. \A n \in link', p \in InSlots' : n.message.try < p.try
    BY <1>0, <2>1, <2>2, <2>3 DEF InOrder
  <2>6. \A k, n \in link' : k.message.try = n.message.try => k = n
    BY <1>0, <2>2, <2>3 DEF InOrder
  <2>7. QED
    BY <2>4, <2>5, <2>6 DEF InOrder
<1>5. QED
  BY <1>1, <1>2, <1>3, <1>4 DEF Next, Call

\* Every step keeps the commands in the slots in order.
LEMMA NextSlotsInOrder == CommandInv /\ [Next]_vars => SlotsInOrder'
<1> SUFFICES ASSUME CommandInv, [Next]_vars PROVE SlotsInOrder'
  OBVIOUS
<1>1. CASE Transmit
  BY <1>1, TransmitEffect
<1>2. CASE CardSends
  BY <1>2, CardSendsEffect
<1>3. CASE ~Transmit /\ ~CardSends
  <2>1. UNCHANGED <<tx, txWr, txRd>>
    BY <1>3 DEF Next, Call, SendCommand, Receive, CommandTimeout, FebExecutes, CardReceives, LinkLoses, vars, cardVars
  <2>2. QED
    BY <2>1 DEF CommandInv, SlotsInOrder
<1>4. QED
  BY <1>1, <1>2, <1>3

\* The reply that is taken for the answer was of this try, and to its FEB/D.
LEMMA ReplyIsOwn ==
  ASSUME CommandInv, Receive, outcome'.kind = "ok", Recent'
  PROVE  /\ outcome'.reply \in Answered
         /\ outcome'.reply.try = try /\ outcome'.reply.feb = feb
<1> DEFINE r == rx[rxRd % Slots]
<1>1. r \in Answered
  BY ReceiveEffect DEF Answered
<1>2. outcome.kind = "none" /\ UNCHANGED <<try, feb, sn>> /\ Numbered(sn, try)
  BY DEF CommandInv, Numbers, Receive
<1>3. Matches(r) /\ outcome'.reply = r
  BY <1>2 DEF Receive
<1> HIDE DEF r
<1>4. r.sn \in SerialNumber /\ r.sn \in Nat /\ r.try \in Nat /\ r.try <= try /\ Numbered(r.sn, r.try)
      /\ (r.try = try => r.feb = feb)
  BY <1>1, UnderWayMessages DEF CommandInv, Numbers
<1>5. r.sn = sn
  BY <1>3, <1>4, ReceivedInjective DEF Matches, CommandInv, TypeOK
<1>6. try - r.try < SNModulus
  BY <1>2, <1>3 DEF Recent
<1>7. r.try = try
  BY <1>2, <1>4, <1>5, <1>6, SameNumberSameTry
<1>8. QED
  BY <1>1, <1>3, <1>4, <1>7

\* Every step but Receive keeps the outcome that is a reply, or resets it.
LEMMA OutcomeStays ==
  ASSUME CommandInv, [Next]_vars, ~Receive, outcome'.kind = "ok"
  PROVE  UNCHANGED <<outcome, try, feb>> /\ ~Transmit
<1>1. CASE SendCommand \/ CommandTimeout
  BY <1>1 DEF SendCommand, CommandTimeout, CommandInv, Numbers, MakeTry
<1>2. CASE Transmit
  BY <1>2 DEF Transmit, CommandInv, Numbers
<1>3. CASE CardSends \/ FebExecutes \/ CardReceives \/ LinkLoses \/ UNCHANGED vars
  <2>1. UNCHANGED <<outcome, try, feb, pc>>
    BY <1>3 DEF CardSends, FebExecutes, CardReceives, LinkLoses, vars, callVars
  <2>2. pc # "transmit"
    BY <2>1 DEF CommandInv, Numbers
  <2>3. QED
    BY <2>1, <2>2 DEF Transmit
<1>4. QED
  BY <1>1, <1>2, <1>3 DEF Next, Call

\* Every step keeps the answer right.
LEMMA NextReply == CommandInv /\ [Next]_vars => (ReplyAnswersCommand /\ NothingExecutesLate)'
<1> SUFFICES ASSUME CommandInv, [Next]_vars, outcome'.kind = "ok", Recent'
             PROVE  outcome'.reply.try = try' /\ outcome'.reply.feb = feb' /\ \A m \in Pending' : m.feb # feb'
  BY DEF ReplyAnswersCommand, NothingExecutesLate
<1>1. CASE Receive
  <2>1. outcome'.reply \in Answered /\ outcome'.reply.try = try /\ outcome'.reply.feb = feb
    BY <1>1, ReplyIsOwn
  <2>2. UNCHANGED <<try, feb>>
    BY <1>1 DEF Receive
  <2>3. ASSUME NEW m \in Pending', m.feb = feb PROVE FALSE
    <3>1. m \in Pending
      BY <1>1, <2>3, KeptBy DEF Kept
    <3>2. outcome'.reply.try < m.try
      BY <2>1, <2>3, <3>1 DEF CommandInv, InOrder
    <3>3. m.try <= try
      BY <3>1 DEF CommandInv, Numbers
    <3>4. m.try \in Nat /\ try \in Nat
      BY <3>1, UnderWayMessages, TriesType DEF CommandInv
    <3>5. QED
      BY <2>1, <3>2, <3>3, <3>4
  <2>4. QED
    BY <2>1, <2>2, <2>3
<1>2. CASE ~Receive
  <2>1. UNCHANGED <<outcome, try, feb>> /\ ~Transmit
    BY <1>2, OutcomeStays
  <2>2. outcome.kind = "ok" /\ Recent
    BY <2>1 DEF Recent
  <2>3. Pending' \subseteq Pending
    <3>1. CASE SendCommand \/ CommandTimeout \/ LinkLoses \/ CardReceives \/ UNCHANGED vars
      BY <3>1, KeptBy, CardReceivesKeeps DEF Kept
    <3>2. CASE CardSends
      BY <3>2, CardSendsKeeps
    <3>3. CASE FebExecutes
      BY <3>3, FebExecutesKeeps
    <3>4. QED
      BY <1>2, <2>1, <3>1, <3>2, <3>3 DEF Next, Call
  <2>4. QED
    BY <2>1, <2>2, <2>3 DEF CommandInv, ReplyAnswersCommand, NothingExecutesLate
<1>3. QED
  BY <1>1, <1>2

----------------------------------------------------------------------------
(* The theorems *)

\* In every state, what is in the slots and on the links is related the way
\* CommandInv says to the command under way.
THEOREM CommandInvariant == Spec => []CommandInv
<1>1. CommandInv /\ [Next]_vars => CommandInv'
  BY NextType, NextSlotsTyped, NextBudget, NextNumbers, NextInOrder, NextSlotsInOrder, NextReply DEF CommandInv
<1>2. QED
  BY InitCommand, <1>1, PTL DEF Spec

\* With any number of slots: the transmit and reply slots of the card are
\* queues, in which no command is overwritten before the card took it.
THEOREM Queues == Spec => []SlotsAreQueues
<1>1. CommandInv => SlotsAreQueues
  BY DEF CommandInv, SlotsAreQueues
<1>2. QED
  BY CommandInvariant, <1>1, PTL

\* With any number of FEB/Ds and of serial numbers: sendCommand returns the
\* reply to the last try of its own command, whatever is lost or late.
THEOREM Answers == Spec => []ReplyAnswersCommand
<1>1. CommandInv => ReplyAnswersCommand
  BY DEF CommandInv
<1>2. QED
  BY CommandInvariant, <1>1, PTL

\* Once sendCommand has returned a reply, no FEB/D executes what was sent to it
\* before, in an earlier try or command.
THEOREM NothingLate == Spec => []NothingExecutesLate
<1>1. CommandInv => NothingExecutesLate
  BY DEF CommandInv
<1>2. QED
  BY CommandInvariant, <1>1, PTL

=============================================================================
