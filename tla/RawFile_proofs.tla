--------------------------- MODULE RawFile_proofs ---------------------------
(***************************************************************************)
(* RawFile: the inductive invariant, and what follows from it for blocks,  *)
(* frames and steps of any number.                                         *)
(***************************************************************************)
EXTENDS RawFile, FiniteSetTheorems, SequenceTheorems, WellFoundedInduction, TLAPS

Event == [step : Int, id : Int, event : Int]
Buffer == [first : Int, events : Seq(Event)]
IndexEntry == [begin : Nat, end : Nat, first : Int, last : Int]

Types ==
  /\ given \in Seq(Seq(Frame)) /\ dataFile \in Seq(Frame) /\ indexFile \in Seq(IndexEntry)
  /\ outBuffer \in Buffer /\ pushed \in Seq(Seq(Buffer))
  /\ Len(given) = Len(indexFile) + 1
  /\ step <= Len(indexFile) + 1

\* What the writer knows of the step: nothing before its first frame, which is
\* never left out.
StepBegun ==
  /\ stepStartOffset = IF indexFile = << >> THEN 0 ELSE indexFile[Len(indexFile)].end
  /\ Last(given) = << >> <=> lastFrameID = -1
  /\ lastFrameID = -1 <=> stepFirstFrameID = -1
  /\ Last(given) # << >> => lastFrameID = Last(Last(given)).id
  /\ lastFrameID = -1 => lastFrameType = "UNKNOWN" /\ stepStartOffset = Len(dataFile)
  /\ lastFrameID # -1 => stepStartOffset < Len(dataFile)

\* The frames of the data file from one offset to another.
Region(from, to) == SubSeq(dataFile, from + 1, to)
Ascending(from, to) ==
  \A i, j \in from + 1 .. to : i < j => dataFile[i].id < dataFile[j].id

\* The frames in the file are in order within their step if those given are, are
\* of those given when they have events, and have all events of those given.
RegionsHold ==
  /\ \A n \in 1 .. Len(indexFile) :
       /\ indexFile[n].end <= Len(dataFile)
       /\ InOrder(given[n]) => Ascending(indexFile[n].begin, indexFile[n].end)
       /\ \A i \in indexFile[n].begin + 1 .. indexFile[n].end :
            dataFile[i].n # 0 => dataFile[i] \in Range(given[n])
       /\ AllEvents(Region(indexFile[n].begin, indexFile[n].end)) = AllEvents(given[n])
  /\ InOrder(given[Len(given)]) =>
       /\ Ascending(stepStartOffset, Len(dataFile))
       /\ \A i \in stepStartOffset + 1 .. Len(dataFile) : dataFile[i].id <= lastFrameID
  /\ \A i \in stepStartOffset + 1 .. Len(dataFile) :
       dataFile[i].n # 0 => dataFile[i] \in Range(given[Len(given)])
  /\ AllEvents(Region(stepStartOffset, Len(dataFile))) = AllEvents(given[Len(given)])

\* The reader is within the frames of its step.
InRegion == Reading => position \in indexFile[step].begin .. indexFile[step].end

GoodBuffer(b) ==
  /\ Len(b.events) \in 1 .. BlockSize
  /\ b.events[1].id = b.first
GoodBuffers(bs, inOrder) ==
  /\ \A i \in 1 .. Len(bs) : GoodBuffer(bs[i])
  /\ inOrder => \A i \in 2 .. Len(bs) : Last(bs[i - 1].events).id < bs[i].first

\* The buffer being filled follows those pushed, and the frames not read follow it.
BuffersInOrder ==
  /\ \A s \in 1 .. step : GoodBuffers(pushed[s], InOrder(given[s]))
  /\ outBuffer = NoBuffer /\ step # 0 => pushed[step] = << >>
  /\ outBuffer # NoBuffer => Reading /\ GoodBuffer(outBuffer)
  /\ outBuffer # NoBuffer /\ InOrder(given[step]) =>
       /\ pushed[step] # << >> => Last(Last(pushed[step]).events).id < outBuffer.first
       /\ \A i \in position + 1 .. indexFile[step].end : Last(outBuffer.events).id < dataFile[i].id

\* What has been read is what has been pushed and what is in the buffer.
StepsSurvive == \A s \in 1 .. step - 1 : Pushed(s) = AllEvents(given[s])
NothingLost ==
  /\ StepsSurvive
  /\ Reading => Pushed(step) \o outBuffer.events = AllEvents(Region(indexFile[step].begin, position))

\* The assertion fails for the frame to be read next.
AbortsAtFull ==
  aborted => Reading /\ position < indexFile[step].end /\ Full(dataFile[position + 1])

FileInv ==
  /\ TypeOK /\ Types /\ EveryFrameCounted /\ StepBegun /\ RegionsHold
  /\ InRegion /\ BuffersInOrder /\ NothingLost /\ AbortsAtFull

----------------------------------------------------------------------------
(* Numbers and sequences. *)

\* Every set of subsets of a finite set has a smallest one.
LEMMA SmallestOf ==
  ASSUME NEW S, IsFiniteSet(S), NEW T \in SUBSET (SUBSET S), T # {}
  PROVE  \E x \in T : \A y \in T : y \subseteq x => y = x
<1>1. IsWellFoundedOn(StrictSubsetOrdering(S), FiniteSubsetsOf(S))
  BY FS_StrictSubsetOrderingWellFounded
<1>2. T \subseteq FiniteSubsetsOf(S)
  BY FS_Subset DEF FiniteSubsetsOf
<1>3. \E x \in T : \A y \in T : ~(<<y, x>> \in StrictSubsetOrdering(S))
  BY <1>1, <1>2, WFMin
<1>4. QED
  BY <1>2, <1>3 DEF StrictSubsetOrdering, FiniteSubsetsOf

\* A set of numbers up to N has one that does not follow another of the set.
LEMMA LeastOf ==
  ASSUME NEW N \in Nat, NEW P \in SUBSET (0 .. N), P # {}
  PROVE  \E k \in P : k = 0 \/ k - 1 \notin P
<1> DEFINE T == {x \in SUBSET (0 .. N) : \E k \in P : x = 0 .. k}
<1>0. ASSUME NEW k \in P PROVE 0 .. k \in T
  OBVIOUS
<1>1. T # {} /\ T \in SUBSET (SUBSET (0 .. N))
  BY <1>0
<1>2. IsFiniteSet(0 .. N)
  BY FS_Interval
<1>3. \E x \in T : \A y \in T : y \subseteq x => y = x
  <2>1. PICK S : S = 0 .. N
    OBVIOUS
  <2> HIDE DEF T
  <2>2. IsFiniteSet(S) /\ T # {} /\ T \in SUBSET (SUBSET S)
    BY <1>1, <1>2, <2>1
  <2>3. QED
    BY <2>2, SmallestOf
<1>4. PICK k \in P : \A j \in P : 0 .. j \subseteq 0 .. k => 0 .. j = 0 .. k
  BY <1>0, <1>3
<1>5. ASSUME k # 0, k - 1 \in P PROVE FALSE
  <2>1. k \in 1 .. N
    BY <1>5
  <2>2. 0 .. (k - 1) \subseteq 0 .. k /\ 0 .. (k - 1) # 0 .. k
    BY <2>1
  <2>3. QED
    BY <1>4, <1>5, <2>2
<1>6. QED
  BY <1>5

\* The library's FlattenSeq adds one sequence after the other. Flats has the ways
\* to do so for the first n of them, and there is one.
Flats(S, s, n) ==
  {g \in [1 .. n -> Seq(S)] :
     \A i \in 1 .. n : g[i] = IF i = 1 THEN s[1] ELSE g[i - 1] \o s[i]}

LEMMA FlatsExist ==
  ASSUME NEW S, NEW s \in Seq(Seq(S)), NEW N \in 0 .. Len(s)
  PROVE  Flats(S, s, N) # {}
<1> DEFINE Bad == {n \in 0 .. N : Flats(S, s, n) = {}}
<1>0. Len(s) \in Nat /\ N \in Nat
  OBVIOUS
<1>1. Flats(S, s, 0) # {}
  <2>1. [i \in 1 .. 0 |-> << >>] \in Flats(S, s, 0)
    BY DEF Flats
  <2>2. QED
    BY <2>1
<1>2. ASSUME NEW n \in 1 .. N, NEW g \in Flats(S, s, n - 1) PROVE Flats(S, s, n) # {}
  <2>1. n \in Nat /\ n - 1 \in Nat /\ s[n] \in Seq(S) /\ s[1] \in Seq(S)
    BY <1>0
  <2>2. g \in [1 .. n - 1 -> Seq(S)] /\ \A i \in 1 .. n - 1 : g[i] = IF i = 1 THEN s[1] ELSE g[i - 1] \o s[i]
    BY DEF Flats
  <2>3. PICK x \in Seq(S) : x = IF n = 1 THEN s[1] ELSE g[n - 1] \o s[n]
    <3>1. CASE n = 1
      BY <2>1, <3>1
    <3>2. CASE n # 1
      <4>1. n - 1 \in 1 .. n - 1
        BY <2>1, <3>2
      <4>2. g[n - 1] \o s[n] \in Seq(S)
        BY <2>1, <2>2, <4>1
      <4>3. QED
        BY <3>2, <4>2
    <3>3. QED
      BY <3>1, <3>2
  <2> DEFINE h == [i \in 1 .. n |-> IF i = n THEN x ELSE g[i]]
  <2>4. h \in [1 .. n -> Seq(S)]
    BY <2>1, <2>2, <2>3
  <2>5. ASSUME NEW i \in 1 .. n PROVE h[i] = IF i = 1 THEN s[1] ELSE h[i - 1] \o s[i]
    <3>1. CASE i = n
      BY <2>1, <2>3, <3>1
    <3>2. CASE i # n
      <4>1. i \in 1 .. n - 1 /\ h[i] = g[i]
        BY <2>1, <3>2
      <4>2. i # 1 => h[i - 1] = g[i - 1]
        BY <2>1, <3>2
      <4>3. QED
        BY <2>2, <4>1, <4>2
    <3>3. QED
      BY <3>1, <3>2
  <2>6. h \in Flats(S, s, n)
    <3> HIDE DEF h
    <3> QED BY <2>4, <2>5 DEF Flats
  <2>7. QED
    BY <2>6
<1>3. ASSUME Flats(S, s, N) = {} PROVE FALSE
  <2>1. N \in Bad
    BY <1>0, <1>3
  <2>2. PICK k \in Bad : k = 0 \/ k - 1 \notin Bad
    BY <1>0, <2>1, LeastOf
  <2>3. k \in 0 .. N /\ Flats(S, s, k) = {}
    BY <2>2
  <2>4. k # 0
    BY <1>1, <2>3
  <2>5. k \in 1 .. N /\ k - 1 \in 0 .. N
    BY <1>0, <2>3, <2>4
  <2>6. Flats(S, s, k - 1) # {}
    BY <2>2, <2>4, <2>5
  <2>7. QED
    BY <1>2, <2>3, <2>5, <2>6
<1>4. QED
  BY <1>3

LEMMA FlatsAgree ==
  ASSUME NEW S, NEW s, NEW t, NEW N, NEW M, NEW g, NEW h,
         s \in Seq(Seq(S)), t \in Seq(Seq(S)), N \in Nat, M \in Nat, N <= M, \A i \in 1 .. N : s[i] = t[i],
         g \in Flats(S, s, N), h \in Flats(S, t, M)
  PROVE  \A n \in 1 .. N : g[n] = h[n]
<1> DEFINE Bad == {i \in 0 .. N : i # 0 /\ g[i] # h[i]}
<1>1. SUFFICES ASSUME NEW n \in 1 .. N, g[n] # h[n] PROVE FALSE
  OBVIOUS
<1>2. PICK k \in Bad : k = 0 \/ k - 1 \notin Bad
  <2>1. n \in Bad
    BY <1>1
  <2>2. QED
    BY <2>1, LeastOf
<1>3. k \in 1 .. N /\ k \in 1 .. M /\ g[k] # h[k]
  BY <1>2
<1>4. /\ g[k] = IF k = 1 THEN s[1] ELSE g[k - 1] \o s[k]
      /\ h[k] = IF k = 1 THEN t[1] ELSE h[k - 1] \o t[k]
  BY <1>3 DEF Flats
<1>5. s[k] = t[k]
  BY <1>3
<1>6. CASE k = 1
  BY <1>3, <1>4, <1>5, <1>6
<1>7. CASE k # 1
  <2>1. g[k - 1] = h[k - 1]
    BY <1>2, <1>3, <1>7
  <2>2. QED
    BY <1>3, <1>4, <1>5, <1>7, <2>1
<1>8. QED
  BY <1>6, <1>7

LEMMA FlattenIs ==
  ASSUME NEW S, NEW s \in Seq(Seq(S)), Len(s) # 0
  PROVE  \E g \in Flats(S, s, Len(s)) : FlattenSeq(s) = g[Len(s)]
<1> DEFINE R(f) == f = [i \in 1 .. Len(s) |-> IF i = 1 THEN s[i] ELSE f[i - 1] \o s[i]]
           f == CHOOSE f : R(f)
<1>0. Len(s) \in Nat
  OBVIOUS
<1>1. FlattenSeq(s) = f[Len(s)]
  BY DEF FlattenSeq
<1>2. PICK g \in Flats(S, s, Len(s)) : TRUE
  BY <1>0, FlatsExist
<1>3. R(g)
  BY <1>2 DEF Flats
<1>4. R(f)
  BY <1>3
<1> HIDE DEF f
<1>5. \A i \in 1 .. Len(s) : f[i] = g[i]
  <2> DEFINE Bad == {i \in 0 .. Len(s) : i # 0 /\ f[i] # g[i]}
  <2>1. SUFFICES ASSUME Bad # {} PROVE FALSE
    OBVIOUS
  <2>2. PICK k \in Bad : k = 0 \/ k - 1 \notin Bad
    BY <1>0, <2>1, LeastOf
  <2>3. k \in 1 .. Len(s) /\ f[k] # g[k]
    BY <2>2
  <2>4. f[k] = (IF k = 1 THEN s[k] ELSE f[k - 1] \o s[k]) /\ g[k] = (IF k = 1 THEN s[k] ELSE g[k - 1] \o s[k])
    BY <1>3, <1>4, <2>3
  <2>5. k # 1 => f[k - 1] = g[k - 1]
    BY <2>2, <2>3
  <2>6. QED
    BY <2>3, <2>4, <2>5
<1>6. QED
  BY <1>0, <1>1, <1>5

LEMMA FlattenEmpty == FlattenSeq(<< >>) = << >>
BY DEF FlattenSeq

LEMMA FlattenType ==
  ASSUME NEW S, NEW s \in Seq(Seq(S))
  PROVE  FlattenSeq(s) \in Seq(S)
<1>1. CASE s = << >>
  <2>1. FlattenSeq(s) = << >>
    BY <1>1, FlattenEmpty
  <2>2. QED
    BY <2>1
<1>2. CASE s # << >>
  <2>1. Len(s) # 0 /\ Len(s) \in 1 .. Len(s)
    BY <1>2
  <2>2. PICK g \in Flats(S, s, Len(s)) : FlattenSeq(s) = g[Len(s)]
    BY <2>1, FlattenIs
  <2>3. QED
    BY <2>1, <2>2 DEF Flats
<1>3. QED
  BY <1>1, <1>2

LEMMA FlattenAppend ==
  ASSUME NEW S, NEW s \in Seq(Seq(S)), NEW x \in Seq(S)
  PROVE  FlattenSeq(Append(s, x)) = FlattenSeq(s) \o x
<1>0. PICK n \in Nat : n = Len(s)
  OBVIOUS
<1>1. PICK t : t = Append(s, x)
  OBVIOUS
<1>2. t \in Seq(Seq(S)) /\ Len(t) = n + 1 /\ (\A i \in 1 .. n : t[i] = s[i]) /\ t[n + 1] = x
  BY <1>0, <1>1, AppendProperties
<1>m. PICK m \in Nat : m = n + 1
  BY <1>0
<1>3. PICK h \in Flats(S, t, m) : FlattenSeq(t) = h[n + 1]
  <2>1. Len(t) # 0 /\ Len(t) = m
    BY <1>0, <1>2, <1>m
  <2>2. \E h \in Flats(S, t, Len(t)) : FlattenSeq(t) = h[Len(t)]
    BY <1>2, <2>1, FlattenIs
  <2>3. QED
    BY <1>m, <2>1, <2>2
<1>4. h[n + 1] = IF n = 0 THEN t[1] ELSE h[n] \o t[n + 1]
  <2>1. n + 1 \in 1 .. m /\ (n + 1) - 1 = n /\ (n + 1 = 1 <=> n = 0)
    BY <1>0, <1>m
  <2>2. h[n + 1] = IF n + 1 = 1 THEN t[1] ELSE h[(n + 1) - 1] \o t[n + 1]
    BY <2>1 DEF Flats
  <2>3. QED
    BY <2>1, <2>2
<1>5. CASE n = 0
  <2>1. s = << >>
    BY <1>0, <1>5, EmptySeq
  <2> FlattenSeq(s) = << >>
    BY <2>1, FlattenEmpty
  <2>2. << >> \o x = x
    BY ConcatEmptySeq
  <2>3. h[n + 1] = x
    BY <1>2, <1>4, <1>5
  <2>4. QED
    BY <1>1, <1>3, <2>1, <2>2, <2>3
<1>6. CASE n # 0
  <2>1. PICK g \in Flats(S, s, n) : FlattenSeq(s) = g[n]
    BY <1>0, <1>6, FlattenIs
  <2>2. g[n] = h[n]
    <3>1. n \in Nat /\ m \in Nat /\ n \in 1 .. n /\ n <= m /\ \A i \in 1 .. n : s[i] = t[i]
      BY <1>0, <1>2, <1>6, <1>m
    <3>2. t \in Seq(Seq(S)) /\ h \in Flats(S, t, m) /\ g \in Flats(S, s, n)
      BY <1>2, <1>3, <2>1
    <3>3. \A i \in 1 .. n : g[i] = h[i]
      BY <3>1, <3>2, FlatsAgree
    <3>4. QED
      BY <3>1, <3>3
  <2>3. h[n + 1] = h[n] \o x
    BY <1>0, <1>2, <1>4, <1>6
  <2>4. QED
    BY <1>1, <1>3, <2>1, <2>2, <2>3
<1>7. QED
  BY <1>5, <1>6

\* The events of frames, one frame more; and those in buffers.
InBuffers(bs) == FlattenSeq([i \in 1 .. Len(bs) |-> bs[i].events])

LEMMA EventsType ==
  ASSUME NEW frame \in Frame
  PROVE  /\ Events(frame) \in Seq(Event) /\ Len(Events(frame)) = frame.n
         /\ \A i \in 1 .. frame.n : Events(frame)[i].id = frame.id
         /\ frame.n = 0 => Events(frame) = << >>
<1>1. frame.n \in Nat /\ frame.id \in Int /\ frame.step \in Int
  BY FileAssumption DEF Frame, FileAssumption
<1>2. \A i \in 1 .. frame.n : [step |-> frame.step, id |-> frame.id, event |-> i] \in Event
  BY <1>1 DEF Event
<1>3. Events(frame) \in [1 .. frame.n -> Event]
  BY <1>2 DEF Events
<1>4. \A i \in 1 .. frame.n : Events(frame)[i].id = frame.id
  BY DEF Events
<1>5. Events(frame) \in Seq(Event) /\ Len(Events(frame)) = frame.n
  BY <1>1, <1>3
<1>6. QED
  BY <1>4, <1>5

LEMMA EventsOf ==
  ASSUME NEW fs \in Seq(Frame)
  PROVE  /\ AllEvents(fs) \in Seq(Event) /\ AllEvents(<< >>) = << >>
         /\ \A x \in Frame : AllEvents(Append(fs, x)) = AllEvents(fs) \o Events(x)
<1> DEFINE E(l) == [i \in 1 .. Len(l) |-> Events(l[i])]
<1>1. ASSUME NEW l \in Seq(Frame) PROVE E(l) \in Seq(Seq(Event)) /\ Len(E(l)) = Len(l)
  <2>1. \A i \in 1 .. Len(l) : Events(l[i]) \in Seq(Event)
    BY EventsType
  <2>2. E(l) \in [1 .. Len(l) -> Seq(Event)] /\ Len(l) \in Nat
    BY <2>1
  <2>3. QED
    BY <2>2
<1>2. AllEvents(fs) \in Seq(Event)
  BY <1>1, FlattenType DEF AllEvents
<1>3. AllEvents(<< >>) = << >>
  <2>1. E(<< >>) = << >>
    OBVIOUS
  <2>2. QED
    BY <2>1, FlattenEmpty DEF AllEvents
<1>4. ASSUME NEW x \in Frame PROVE AllEvents(Append(fs, x)) = AllEvents(fs) \o Events(x)
  <2>1. PICK l \in Seq(Frame) : l = Append(fs, x)
    BY AppendProperties
  <2>2. Len(l) = Len(fs) + 1 /\ (\A i \in 1 .. Len(fs) : l[i] = fs[i]) /\ l[Len(fs) + 1] = x
    BY <2>1, AppendProperties
  <2>3. Events(x) \in Seq(Event)
    BY EventsType
  <2>4. PICK a \in Seq(Seq(Event)) : a = Append(E(fs), Events(x))
    <3>1. E(fs) \in Seq(Seq(Event))
      BY <1>1
    <3> HIDE DEF E
    <3>2. QED
      BY <2>3, <3>1, AppendProperties
  <2>5. Len(a) = Len(fs) + 1 /\ (\A i \in 1 .. Len(fs) : a[i] = Events(fs[i])) /\ a[Len(fs) + 1] = Events(x)
    <3>1. E(fs) \in Seq(Seq(Event)) /\ Len(E(fs)) = Len(fs)
      BY <1>1
    <3>2. \A i \in 1 .. Len(fs) : E(fs)[i] = Events(fs[i])
      OBVIOUS
    <3> HIDE DEF E
    <3>3. QED
      BY <2>3, <2>4, <3>1, <3>2, AppendProperties
  <2>6. \A i \in 1 .. Len(fs) + 1 : E(l)[i] = a[i]
    <3>1. ASSUME NEW i \in 1 .. Len(fs) + 1 PROVE E(l)[i] = a[i]
      <4>1. CASE i \in 1 .. Len(fs)
        BY <2>2, <2>5, <4>1
      <4>2. CASE i = Len(fs) + 1
        BY <2>2, <2>5, <4>2
      <4>3. QED
        BY <4>1, <4>2
    <3>2. QED
      BY <3>1
  <2>7. E(l) = a
    <3>1. E(l) \in Seq(Seq(Event)) /\ Len(E(l)) = Len(fs) + 1
      BY <1>1, <2>2
    <3> HIDE DEF E
    <3>2. QED
      BY <2>5, <2>6, <3>1, SeqEqual
  <2>8. FlattenSeq(a) = FlattenSeq(E(fs)) \o Events(x)
    BY <1>1, <2>3, <2>4, FlattenAppend
  <2>9. QED
    BY <2>1, <2>7, <2>8 DEF AllEvents
<1>5. QED
  BY <1>2, <1>3, <1>4

LEMMA EventsIn ==
  ASSUME NEW bs \in Seq(Buffer)
  PROVE  /\ InBuffers(bs) \in Seq(Event) /\ InBuffers(<< >>) = << >>
         /\ \A x \in Buffer : InBuffers(Append(bs, x)) = InBuffers(bs) \o x.events
<1> DEFINE E(l) == [i \in 1 .. Len(l) |-> l[i].events]
<1>1. ASSUME NEW l \in Seq(Buffer) PROVE E(l) \in Seq(Seq(Event)) /\ Len(E(l)) = Len(l)
  <2>1. ASSUME NEW i \in 1 .. Len(l) PROVE l[i].events \in Seq(Event)
    <3>1. l[i] \in Buffer
      OBVIOUS
    <3>2. QED
      BY <3>1 DEF Buffer
  <2>2. E(l) \in [1 .. Len(l) -> Seq(Event)] /\ Len(l) \in Nat
    BY <2>1
  <2>3. QED
    BY <2>2
<1>2. InBuffers(bs) \in Seq(Event)
  BY <1>1, FlattenType DEF InBuffers
<1>3. InBuffers(<< >>) = << >>
  <2>1. E(<< >>) = << >>
    OBVIOUS
  <2>2. QED
    BY <2>1, FlattenEmpty DEF InBuffers
<1>4. ASSUME NEW x \in Buffer PROVE InBuffers(Append(bs, x)) = InBuffers(bs) \o x.events
  <2>1. PICK l \in Seq(Buffer) : l = Append(bs, x)
    BY AppendProperties
  <2>2. Len(l) = Len(bs) + 1 /\ (\A i \in 1 .. Len(bs) : l[i] = bs[i]) /\ l[Len(bs) + 1] = x
    BY <2>1, AppendProperties
  <2>3. x.events \in Seq(Event)
    BY DEF Buffer
  <2>4. PICK a \in Seq(Seq(Event)) : a = Append(E(bs), x.events)
    <3>1. E(bs) \in Seq(Seq(Event))
      BY <1>1
    <3> HIDE DEF E
    <3>2. QED
      BY <2>3, <3>1, AppendProperties
  <2>5. Len(a) = Len(bs) + 1 /\ (\A i \in 1 .. Len(bs) : a[i] = bs[i].events) /\ a[Len(bs) + 1] = x.events
    <3>1. E(bs) \in Seq(Seq(Event)) /\ Len(E(bs)) = Len(bs)
      BY <1>1
    <3>2. \A i \in 1 .. Len(bs) : E(bs)[i] = bs[i].events
      OBVIOUS
    <3> HIDE DEF E
    <3>3. QED
      BY <2>3, <2>4, <3>1, <3>2, AppendProperties
  <2>6. \A i \in 1 .. Len(bs) + 1 : E(l)[i] = a[i]
    <3>1. ASSUME NEW i \in 1 .. Len(bs) + 1 PROVE E(l)[i] = a[i]
      <4>1. CASE i \in 1 .. Len(bs)
        BY <2>2, <2>5, <4>1
      <4>2. CASE i = Len(bs) + 1
        BY <2>2, <2>5, <4>2
      <4>3. QED
        BY <4>1, <4>2
    <3>2. QED
      BY <3>1
  <2>7. E(l) = a
    <3>1. E(l) \in Seq(Seq(Event)) /\ Len(E(l)) = Len(bs) + 1
      BY <1>1, <2>2
    <3> HIDE DEF E
    <3>2. QED
      BY <2>5, <2>6, <3>1, SeqEqual
  <2>8. FlattenSeq(a) = FlattenSeq(E(bs)) \o x.events
    BY <1>1, <2>3, <2>4, FlattenAppend
  <2>9. QED
    BY <2>1, <2>7, <2>8 DEF InBuffers
<1>5. QED
  BY <1>2, <1>3, <1>4

----------------------------------------------------------------------------
(* Regions of the data file. *)

LEMMA SamePrefix ==
  ASSUME NEW d, NEW e, NEW a, NEW b, d \in Seq(Frame), e \in Seq(Frame), a \in Nat, b \in Nat,
         a <= b, b <= Len(d), b <= Len(e), \A i \in 1 .. b : e[i] = d[i]
  PROVE  SubSeq(e, a + 1, b) = SubSeq(d, a + 1, b)
<1> DEFINE u == SubSeq(e, a + 1, b)
           v == SubSeq(d, a + 1, b)
<1>1. \A i \in a + 1 .. b : d[i] \in Frame /\ e[i] \in Frame
  OBVIOUS
<1>2. a + 1 \in Int /\ b \in Int
  OBVIOUS
<1>3. /\ u \in Seq(Frame) /\ Len(u) = IF a + 1 <= b THEN b - (a + 1) + 1 ELSE 0
      /\ \A i \in 1 .. b - (a + 1) + 1 : u[i] = e[a + 1 + i - 1]
  BY <1>1, <1>2, SubSeqProperties
<1>4. /\ v \in Seq(Frame) /\ Len(v) = IF a + 1 <= b THEN b - (a + 1) + 1 ELSE 0
      /\ \A i \in 1 .. b - (a + 1) + 1 : v[i] = d[a + 1 + i - 1]
  BY <1>1, <1>2, SubSeqProperties
<1> HIDE DEF u, v
<1>5. Len(u) = b - a /\ Len(v) = b - a
  BY <1>3, <1>4
<1>6. \A i \in 1 .. b - a : u[i] = v[i]
  BY <1>3, <1>4
<1>7. u = v
  BY <1>3, <1>4, <1>5, <1>6, SeqEqual
<1>8. QED
  BY <1>7 DEF u, v

LEMMA RegionType ==
  ASSUME NEW d, NEW a, NEW b, d \in Seq(Frame), a \in Nat, b \in Nat, a <= b, b <= Len(d)
  PROVE  SubSeq(d, a + 1, b) \in Seq(Frame) /\ (a = b => SubSeq(d, a + 1, b) = << >>)
<1>1. \A i \in a + 1 .. b : d[i] \in Frame
  OBVIOUS
<1>2. SubSeq(d, a + 1, b) \in Seq(Frame)
  BY <1>1, SubSeqProperties
<1>3. ASSUME a = b PROVE SubSeq(d, a + 1, b) = << >>
  BY <1>3, SubSeqEmpty
<1>4. QED
  BY <1>2, <1>3

LEMMA RegionGrows ==
  ASSUME NEW d, NEW a, NEW b, d \in Seq(Frame), a \in Nat, b \in Nat, a <= b, b < Len(d)
  PROVE  SubSeq(d, a + 1, b + 1) = Append(SubSeq(d, a + 1, b), d[b + 1])
<1> DEFINE u == SubSeq(d, a + 1, b)
<1>1. a + 1 \in 1 .. Len(d) /\ b + 1 \in a + 1 .. Len(d) /\ (b + 1) - 1 = b /\ d[b + 1] \in Frame
  OBVIOUS
<1>2. SubSeq(d, a + 1, b + 1) = SubSeq(d, a + 1, (b + 1) - 1) \o <<d[b + 1]>>
  BY <1>1, SubSeqRecursiveSecond
<1>3. u \in Seq(Frame)
  BY RegionType
<1>4. u \o <<d[b + 1]>> = Append(u, d[b + 1])
  <2> HIDE DEF u
  <2> QED BY <1>1, <1>3, AppendIsConcat
<1>5. QED
  BY <1>1, <1>2, <1>4

\* Frames from offset o to the end of d: of S if they have events, with events ev
\* and, when they come in order, in order up to ID m.
Written(d, o, m, inOrder, S, ev) ==
  /\ d \in Seq(Frame) /\ o \in Nat /\ o <= Len(d)
  /\ inOrder => \A i, j \in o + 1 .. Len(d) : i < j => d[i].id < d[j].id
  /\ inOrder => \A i \in o + 1 .. Len(d) : d[i].id <= m
  /\ \A i \in o + 1 .. Len(d) : d[i].n # 0 => d[i] \in S
  /\ AllEvents(SubSeq(d, o + 1, Len(d))) = ev

LEMMA WrittenAppend ==
  ASSUME NEW d, NEW o, NEW m, NEW q, NEW S, NEW ev, NEW x, Written(d, o, m, q, S, ev), q \in BOOLEAN,
         m \in Int, x \in Frame, q => x.id > m, x.n # 0 => x \in S
  PROVE  /\ Written(Append(d, x), o, x.id, q, S, ev \o Events(x))
         /\ Len(Append(d, x)) = Len(d) + 1 /\ \A i \in 1 .. Len(d) : Append(d, x)[i] = d[i]
<1>1. d \in Seq(Frame) /\ o \in Nat /\ o <= Len(d) /\ Len(d) \in Nat
  BY DEF Written
<1>2. PICK e : e = Append(d, x)
  OBVIOUS
<1>3. e \in Seq(Frame) /\ Len(e) = Len(d) + 1 /\ (\A i \in 1 .. Len(d) : e[i] = d[i]) /\ e[Len(d) + 1] = x
  BY <1>1, <1>2, AppendProperties
<1>4. x.id \in Int /\ \A i \in 1 .. Len(d) : d[i].id \in Int
  <2>1. \A y \in Frame : y.id \in Int
    BY FileAssumption DEF Frame, FileAssumption
  <2>2. \A i \in 1 .. Len(d) : d[i] \in Frame
    BY <1>1
  <2>3. QED
    BY <2>1, <2>2
<1>5. ASSUME q, NEW i \in o + 1 .. Len(e) PROVE e[i].id <= x.id
  <2>1. CASE i = Len(d) + 1
    BY <1>3, <1>4, <2>1
  <2>2. CASE i # Len(d) + 1
    <3>1. i \in o + 1 .. Len(d) /\ e[i] = d[i]
      BY <1>1, <1>3, <2>2
    <3>2. d[i].id <= m /\ d[i].id \in Int
      BY <1>1, <1>4, <1>5, <3>1 DEF Written
    <3>3. QED
      BY <1>4, <1>5, <3>1, <3>2
  <2>3. QED
    BY <2>1, <2>2
<1>6. ASSUME q, NEW i \in o + 1 .. Len(e), NEW j \in o + 1 .. Len(e), i < j PROVE e[i].id < e[j].id
  <2>1. i \in o + 1 .. Len(d) /\ e[i] = d[i]
    BY <1>1, <1>3, <1>6
  <2>2. d[i].id <= m /\ d[i].id \in Int
    BY <1>1, <1>4, <1>6, <2>1 DEF Written
  <2>3. CASE j = Len(d) + 1
    BY <1>3, <1>4, <1>6, <2>1, <2>2, <2>3
  <2>4. CASE j # Len(d) + 1
    <3>1. j \in o + 1 .. Len(d) /\ e[j] = d[j]
      BY <1>1, <1>3, <2>4
    <3>2. QED
      BY <1>6, <2>1, <3>1 DEF Written
  <2>5. QED
    BY <2>3, <2>4
<1>7. AllEvents(SubSeq(e, o + 1, Len(e))) = ev \o Events(x)
  <2>1. SubSeq(e, o + 1, Len(d) + 1) = Append(SubSeq(e, o + 1, Len(d)), x)
    <3>1. PICK b \in Nat : b = Len(d)
      BY <1>1
    <3>2. o <= b /\ b < Len(e) /\ e[b + 1] = x
      BY <1>1, <1>3, <3>1
    <3>3. SubSeq(e, o + 1, b + 1) = Append(SubSeq(e, o + 1, b), e[b + 1])
      BY <1>1, <1>3, <3>2, RegionGrows
    <3>4. QED
      BY <3>1, <3>2, <3>3
  <2>2. SubSeq(e, o + 1, Len(d)) = SubSeq(d, o + 1, Len(d))
    BY <1>1, <1>3, SamePrefix
  <2>3. SubSeq(d, o + 1, Len(d)) \in Seq(Frame)
    BY <1>1, RegionType
  <2>4. AllEvents(SubSeq(d, o + 1, Len(d))) = ev
    BY DEF Written
  <2>5. PICK r \in Seq(Frame) : r = SubSeq(d, o + 1, Len(d))
    BY <2>3
  <2>6. AllEvents(Append(r, x)) = AllEvents(r) \o Events(x)
    BY <2>5, EventsOf
  <2>7. QED
    BY <1>3, <2>1, <2>2, <2>4, <2>5, <2>6
<1>8. ASSUME NEW i \in o + 1 .. Len(e), e[i].n # 0 PROVE e[i] \in S
  <2>1. CASE i = Len(d) + 1
    BY <1>3, <1>8, <2>1
  <2>2. CASE i # Len(d) + 1
    <3>1. i \in o + 1 .. Len(d) /\ e[i] = d[i]
      BY <1>1, <1>3, <2>2
    <3>2. QED
      BY <1>8, <3>1 DEF Written
  <2>3. QED
    BY <2>1, <2>2
<1>9. Written(e, o, x.id, q, S, ev \o Events(x))
  BY <1>1, <1>3, <1>5, <1>6, <1>7, <1>8 DEF Written
<1>10. QED
  BY <1>2, <1>3, <1>9

LEMMA WrittenUpTo ==
  ASSUME NEW d, NEW o, NEW m, NEW k, NEW q, NEW w, NEW S, NEW T, NEW ev, Written(d, o, m, q, S, ev),
         q \in BOOLEAN, w \in BOOLEAN, w => q, S \subseteq T, m \in Int, k \in Int, w => m <= k
  PROVE  Written(d, o, k, w, T, ev)
<1>1. \A y \in Frame : y.id \in Int
  BY FileAssumption DEF Frame, FileAssumption
<1>2. ASSUME w, NEW i \in o + 1 .. Len(d) PROVE d[i].id <= k
  <2>1. d[i] \in Frame
    BY DEF Written
  <2>2. d[i].id \in Int /\ d[i].id <= m
    BY <1>1, <1>2, <2>1 DEF Written
  <2>3. QED
    BY <1>2, <2>2
<1>3. QED
  BY <1>2 DEF Written

----------------------------------------------------------------------------
(* The writer. *)

LEMMA FrameParts ==
  ASSUME NEW x \in Frame
  PROVE  /\ x.id \in 0 .. MaxFrameID /\ x.id \in Int /\ x.n \in 0 .. MaxEvents /\ x.n \in Nat
         /\ x.lost \in BOOLEAN /\ x.step \in 1 .. MaxSteps
BY FileAssumption DEF Frame, FileAssumption

\* While the file is written, there is nothing the reader has done.
LEMMA WriterKeepsReader ==
  ASSUME FileInv, step = 0, UNCHANGED readerVars, Len(indexFile') \in Nat
  PROVE  (InRegion /\ BuffersInOrder /\ NothingLost /\ AbortsAtFull)'
<1>1. step' = 0 /\ ~Reading /\ ~Reading'
  BY DEF readerVars, Reading
<1>2. outBuffer' = NoBuffer
  BY <1>1 DEF FileInv, BuffersInOrder, readerVars
<1>3. InRegion'
  BY <1>1 DEF InRegion
<1>4. BuffersInOrder'
  BY <1>1, <1>2 DEF BuffersInOrder
<1>5. NothingLost'
  BY <1>1 DEF NothingLost, StepsSurvive
<1>6. AbortsAtFull'
  BY <1>1 DEF FileInv, AbortsAtFull, readerVars
<1>7. QED
  BY <1>3, <1>4, <1>5, <1>6

\* What has been written of the step, and the steps before it.
LEMMA WrittenSoFar ==
  ASSUME FileInv
  PROVE  /\ Written(dataFile, stepStartOffset, lastFrameID, InOrder(given[Len(given)]),
                    Range(given[Len(given)]), AllEvents(given[Len(given)]))
         /\ lastFrameID \in Int /\ Len(given) \in 1 .. MaxSteps + 1
         /\ given[Len(given)] \in Seq(Frame) /\ Len(dataFile) \in Nat
<1>1. lastFrameID \in Int /\ Len(given) \in 1 .. MaxSteps + 1
  BY FileAssumption DEF FileInv, TypeOK, FileAssumption
<1>2. given \in Seq(Seq(Frame)) /\ dataFile \in Seq(Frame)
  BY DEF FileInv, Types
<1>3. given[Len(given)] \in Seq(Frame) /\ Len(dataFile) \in Nat
  BY <1>1, <1>2
<1>4. stepStartOffset \in Nat /\ stepStartOffset <= Len(dataFile)
  BY <1>3 DEF FileInv, TypeOK
<1>5. QED
  BY <1>1, <1>2, <1>3, <1>4 DEF FileInv, RegionsHold, Ascending, Region, Written

\* The steps in the index stay what they are when the file grows.
LEMMA ClosedRegions ==
  ASSUME NEW d, FileInv, d \in Seq(Frame), Len(dataFile) <= Len(d),
         \A i \in 1 .. Len(dataFile) : d[i] = dataFile[i]
  PROVE  \A n \in 1 .. Len(indexFile) :
           /\ indexFile[n].begin \in Nat /\ indexFile[n].end \in Nat
           /\ indexFile[n].end <= Len(d)
           /\ InOrder(given[n]) =>
                \A i, j \in indexFile[n].begin + 1 .. indexFile[n].end : i < j => d[i].id < d[j].id
           /\ \A i \in indexFile[n].begin + 1 .. indexFile[n].end : d[i].n # 0 => d[i] \in Range(given[n])
           /\ AllEvents(SubSeq(d, indexFile[n].begin + 1, indexFile[n].end)) = AllEvents(given[n])
<1>1. SUFFICES ASSUME NEW n \in 1 .. Len(indexFile)
               PROVE  /\ indexFile[n].begin \in Nat /\ indexFile[n].end \in Nat
                      /\ indexFile[n].end <= Len(d)
                      /\ InOrder(given[n]) =>
                           \A i, j \in indexFile[n].begin + 1 .. indexFile[n].end : i < j => d[i].id < d[j].id
                      /\ \A i \in indexFile[n].begin + 1 .. indexFile[n].end : d[i].n # 0 => d[i] \in Range(given[n])
                      /\ AllEvents(SubSeq(d, indexFile[n].begin + 1, indexFile[n].end)) = AllEvents(given[n])
  OBVIOUS
<1>2. indexFile[n] \in IndexEntry /\ dataFile \in Seq(Frame)
  BY DEF FileInv, Types
<1>3. PICK a \in Nat, b \in Nat : a = indexFile[n].begin /\ b = indexFile[n].end
  BY <1>2 DEF IndexEntry
<1>4. a < b
  BY <1>3 DEF FileInv, TypeOK
<1>5. b <= Len(dataFile) /\ b <= Len(d)
  BY <1>2, <1>3 DEF FileInv, RegionsHold
<1>6. \A i \in 1 .. b : d[i] = dataFile[i]
  BY <1>2, <1>5
<1>7. /\ InOrder(given[n]) => Ascending(a, b)
      /\ \A i \in a + 1 .. b : dataFile[i].n # 0 => dataFile[i] \in Range(given[n])
  BY <1>3 DEF FileInv, RegionsHold
<1>8. /\ InOrder(given[n]) => \A i, j \in a + 1 .. b : i < j => d[i].id < d[j].id
      /\ \A i \in a + 1 .. b : d[i].n # 0 => d[i] \in Range(given[n])
  BY <1>6, <1>7 DEF Ascending
<1>9. SubSeq(d, a + 1, b) = SubSeq(dataFile, a + 1, b)
  <2>1. PICK c : c = dataFile
    OBVIOUS
  <2>2. c \in Seq(Frame) /\ d \in Seq(Frame) /\ a \in Nat /\ b \in Nat
    BY <1>2, <1>3, <2>1
  <2>3. a <= b /\ b <= Len(c) /\ b <= Len(d)
    BY <1>4, <1>5, <2>1, <2>2
  <2>4. \A i \in 1 .. b : d[i] = c[i]
    BY <1>6, <2>1
  <2>5. SubSeq(d, a + 1, b) = SubSeq(c, a + 1, b)
    BY ONLY <2>2, <2>3, <2>4, SamePrefix
  <2>6. QED
    BY <2>1, <2>5
<1>10. AllEvents(SubSeq(dataFile, a + 1, b)) = AllEvents(given[n])
  BY <1>3 DEF FileInv, RegionsHold, Region
<1>11. QED
  BY <1>3, <1>5, <1>8, <1>9, <1>10 DEF Ascending

\* The file with the frame, as WriteFrame has it.
WithFrame(frame) ==
  dataFile \o (IF Skipped(frame) > 0 THEN <<LostMarker>> ELSE << >>)
           \o (IF LeftOut(frame) THEN << >> ELSE <<frame>>)

\* Frames and one more.
LEMMA OneMore ==
  ASSUME NEW g, NEW x, g \in Seq(Frame), x \in Frame
  PROVE  /\ Append(g, x) \in Seq(Frame) /\ Append(g, x) # << >> /\ Last(Append(g, x)) = x
         /\ InOrder(Append(g, x)) => InOrder(g) /\ (g # << >> => Last(g).id < x.id)
         /\ Range(g) \subseteq Range(Append(g, x)) /\ x \in Range(Append(g, x))
<1>1. PICK h : h = Append(g, x)
  OBVIOUS
<1>2. PICK k \in Nat : k = Len(g)
  OBVIOUS
<1>3. h \in Seq(Frame) /\ Len(h) = k + 1 /\ (\A i \in 1 .. k : h[i] = g[i]) /\ h[k + 1] = x
  BY <1>1, <1>2, AppendProperties
<1>4. h # << >> /\ Last(h) = x
  BY <1>2, <1>3 DEF Last
<1>5. ASSUME InOrder(h) PROVE InOrder(g) /\ (g # << >> => Last(g).id < x.id)
  <2>1. \A i \in 2 .. k + 1 : h[i - 1].id < h[i].id
    BY <1>3, <1>5 DEF InOrder
  <2>2. ASSUME NEW i \in 2 .. k PROVE g[i - 1].id < g[i].id
    <3>1. i \in 2 .. k + 1 /\ i \in 1 .. k /\ i - 1 \in 1 .. k
      BY <1>2
    <3>2. QED
      BY <1>3, <2>1, <3>1
  <2>3. ASSUME g # << >> PROVE Last(g).id < x.id
    <3>1. k + 1 \in 2 .. k + 1 /\ (k + 1) - 1 = k /\ k \in 1 .. k
      BY <1>2, <2>3, EmptySeq
    <3>2. h[k].id < h[k + 1].id
      BY <2>1, <3>1
    <3>3. QED
      BY <1>2, <1>3, <3>1, <3>2 DEF Last
  <2>4. QED
    BY <1>2, <2>2, <2>3 DEF InOrder
<1>6. Range(g) \subseteq Range(h) /\ x \in Range(h)
  <2>1. Range(g) = {g[i] : i \in 1 .. k} /\ Range(h) = {h[i] : i \in 1 .. k + 1}
    BY <1>2, <1>3 DEF Range
  <2>2. k + 1 \in 1 .. k + 1 /\ \A i \in 1 .. k : i \in 1 .. k + 1
    BY <1>2
  <2>3. QED
    BY <1>3, <2>1, <2>2
<1>7. QED
  BY <1>1, <1>3, <1>4, <1>5, <1>6

\* The ID of the last frame is that of the last frame given.
LEMMA LastGiven ==
  ASSUME NEW frame, FileInv, frame \in Frame, InOrder(Append(given[Len(given)], frame))
  PROVE  InOrder(given[Len(given)]) /\ frame.id > lastFrameID
<1>1. PICK g \in Seq(Frame) : g = given[Len(given)] /\ g = Last(given)
  BY WrittenSoFar DEF Last
<1>2. /\ g = << >> => lastFrameID = -1
      /\ g # << >> => lastFrameID = Last(g).id
  BY <1>1 DEF FileInv, StepBegun
<1>3. frame.id \in Nat /\ lastFrameID \in Int
  BY FrameParts, WrittenSoFar
<1>4. InOrder(g) /\ (g # << >> => Last(g).id < frame.id)
  BY <1>1, OneMore
<1>5. QED
  BY <1>1, <1>2, <1>3, <1>4

\* The frame given to write_raw, with the marker before it when some were skipped:
\* the file has the same events as before, and those of the frame.
LEMMA FrameWritten ==
  ASSUME NEW frame, NEW d, FileInv, frame \in Frame, frame.step = Len(given), d = WithFrame(frame)
  PROVE  /\ Written(d, stepStartOffset, frame.id, InOrder(Append(given[Len(given)], frame)),
                    Range(Append(given[Len(given)], frame)), AllEvents(Append(given[Len(given)], frame)))
         /\ Len(dataFile) <= Len(d) /\ (~LeftOut(frame) => Len(dataFile) < Len(d))
         /\ \A i \in 1 .. Len(dataFile) : d[i] = dataFile[i]
<1>1. PICK c : c = dataFile
  OBVIOUS
<1>2. PICK m \in Int : m = lastFrameID
  BY WrittenSoFar
<1>3. PICK o, ev : o = stepStartOffset /\ ev = AllEvents(given[Len(given)])
  OBVIOUS
<1>q. PICK q \in BOOLEAN : q = InOrder(Append(given[Len(given)], frame))
  BY DEF InOrder
<1>s. PICK S : S = Range(Append(given[Len(given)], frame))
  OBVIOUS
<1>4. Written(c, o, m, q, S, ev) /\ (q => frame.id > m) /\ frame \in S
  <2>0. PICK w \in BOOLEAN : w = InOrder(given[Len(given)])
    BY DEF InOrder
  <2>1. PICK T : w = InOrder(given[Len(given)]) /\ T = Range(given[Len(given)])
    BY <2>0
  <2>2. Written(c, o, m, w, T, ev)
    BY <1>1, <1>2, <1>3, <2>1, WrittenSoFar
  <2>3. q => w /\ frame.id > m
    BY <1>2, <1>q, <2>1, LastGiven
  <2>4. T \subseteq S /\ frame \in S
    BY <1>s, <2>1, WrittenSoFar, OneMore
  <2>5. q => m <= m
    BY <1>2
  <2>6. QED
    BY <2>2, <2>3, <2>4, <2>5, WrittenUpTo
<1>5. c \in Seq(Frame) /\ Len(c) \in Nat /\ ev \in Seq(Event)
  <2>1. c \in Seq(Frame)
    BY <1>4 DEF Written
  <2>2. ev \in Seq(Event)
    BY <1>3, WrittenSoFar, EventsOf
  <2>3. QED
    BY <2>1, <2>2
<1>6. frame.id \in Int /\ (q => frame.id > m) /\ frame.n \in Nat /\ frame.step \in 1 .. MaxSteps
  BY <1>4, FrameParts
<1>7. PICK c1 : c1 = c \o (IF Skipped(frame) > 0 THEN <<LostMarker>> ELSE << >>)
  OBVIOUS
<1>8. /\ Written(c1, o, frame.id - 1, q, S, ev) /\ Len(c) <= Len(c1)
      /\ \A i \in 1 .. Len(c) : c1[i] = c[i]
  <2>1. CASE Skipped(frame) > 0
    <3>1. m >= 0 /\ frame.id > m + 1
      BY <1>2, <1>6, <2>1 DEF Skipped
    <3>2. PICK x : x = LostMarker
      OBVIOUS
    <3>3. x \in Frame /\ x.id = m + 1 /\ x.n = 0
      <4>1. m + 1 \in 0 .. MaxFrameID
        BY <1>2, <3>1, FrameParts, FileAssumption DEF FileAssumption
      <4>2. 0 \in 0 .. MaxEvents
        BY FileAssumption DEF FileAssumption
      <4>3. Len(given) \in 1 .. MaxSteps
        BY <1>6
      <4>4. x = [id |-> m + 1, lost |-> TRUE, n |-> 0, step |-> Len(given)]
        BY <1>2, <3>2 DEF LostMarker
      <4>5. QED
        BY <4>1, <4>2, <4>3, <4>4 DEF Frame
    <3>4. Events(x) = << >> /\ ev \o Events(x) = ev
      BY <1>5, <3>3, EventsType, ConcatEmptySeq
    <3>5. c1 = Append(c, x)
      BY <1>5, <1>7, <2>1, <3>2, <3>3, AppendIsConcat
    <3>6. m \in Int /\ x \in Frame /\ x.id > m /\ ~(x.n # 0)
      BY <3>3
    <3>7. /\ Written(Append(c, x), o, x.id, q, S, ev \o Events(x))
          /\ Len(Append(c, x)) = Len(c) + 1 /\ \A i \in 1 .. Len(c) : Append(c, x)[i] = c[i]
      BY <1>4, <3>6, WrittenAppend
    <3>8. Written(c1, o, m + 1, q, S, ev)
      BY <3>3, <3>4, <3>5, <3>7
    <3>9. m + 1 \in Int /\ frame.id - 1 \in Int /\ m + 1 <= frame.id - 1
      BY <1>6, <3>1
    <3>10. Written(c1, o, frame.id - 1, q, S, ev)
      BY <3>8, <3>9, WrittenUpTo
    <3>11. QED
      BY <1>5, <3>5, <3>7, <3>10
  <2>2. CASE ~(Skipped(frame) > 0)
    <3>1. c1 = c
      BY <1>5, <1>7, <2>2, ConcatEmptySeq
    <3>2. m \in Int /\ frame.id - 1 \in Int /\ (q => m <= frame.id - 1)
      BY <1>6
    <3>3. Written(c, o, frame.id - 1, q, S, ev)
      BY <1>4, <3>2, WrittenUpTo
    <3>4. QED
      BY <1>5, <3>1, <3>3
  <2>3. QED
    BY <2>1, <2>2
<1>9. c1 \in Seq(Frame) /\ Len(c1) \in Nat
  <2>1. c1 \in Seq(Frame)
    BY <1>8 DEF Written
  <2>2. QED
    BY <2>1
<1>10. d = c1 \o (IF LeftOut(frame) THEN << >> ELSE <<frame>>)
  BY <1>1, <1>7 DEF WithFrame
<1>11. /\ Written(d, o, frame.id, q, S, ev \o Events(frame)) /\ Len(c1) <= Len(d)
       /\ ~LeftOut(frame) => Len(c1) < Len(d)
       /\ \A i \in 1 .. Len(c1) : d[i] = c1[i]
  <2>1. CASE LeftOut(frame)
    <3>1. d = c1
      BY <1>9, <1>10, <2>1, ConcatEmptySeq
    <3>2. frame.n = 0
      BY <2>1 DEF LeftOut, FrameType
    <3>3. ev \o Events(frame) = ev
      BY <1>5, <3>2, EventsType, ConcatEmptySeq
    <3>4. frame.id - 1 \in Int /\ frame.id \in Int /\ frame.id - 1 <= frame.id
      BY <1>6
    <3>5. Written(c1, o, frame.id, q, S, ev)
      BY <1>8, <3>4, WrittenUpTo
    <3>6. QED
      BY <1>9, <2>1, <3>1, <3>3, <3>5
  <2>2. CASE ~LeftOut(frame)
    <3>1. d = Append(c1, frame)
      BY <1>9, <1>10, <2>2, AppendIsConcat
    <3>2. frame.id - 1 \in Int /\ frame.id > frame.id - 1
      BY <1>6
    <3>3. /\ Written(Append(c1, frame), o, frame.id, q, S, ev \o Events(frame))
          /\ Len(Append(c1, frame)) = Len(c1) + 1
          /\ \A i \in 1 .. Len(c1) : Append(c1, frame)[i] = c1[i]
      BY <1>4, <1>8, <3>2, WrittenAppend
    <3>4. QED
      BY <1>9, <3>1, <3>3
  <2>3. QED
    BY <2>1, <2>2
<1>12. ev \o Events(frame) = AllEvents(Append(given[Len(given)], frame))
  <2>1. PICK g \in Seq(Frame) : g = given[Len(given)]
    BY WrittenSoFar
  <2>2. AllEvents(Append(g, frame)) = AllEvents(g) \o Events(frame)
    BY EventsOf
  <2>3. QED
    BY <1>3, <2>1, <2>2
<1>13. Len(d) \in Nat
  <2>1. d \in Seq(Frame)
    BY <1>11 DEF Written
  <2>2. QED
    BY <2>1
<1>14. Len(c) <= Len(d) /\ (~LeftOut(frame) => Len(c) < Len(d))
  BY <1>5, <1>8, <1>9, <1>11, <1>13
<1>15. \A i \in 1 .. Len(c) : d[i] = c[i]
  BY <1>5, <1>8, <1>9, <1>11
<1>16. QED
  BY <1>1, <1>3, <1>q, <1>s, <1>11, <1>12, <1>14, <1>15

\* What a step knows of the counts when a frame comes.
LEMMA FrameCounts ==
  ASSUME NEW frame, FileInv, frame \in Frame,
         given'[Len(given')] = Append(given[Len(given)], frame),
         stepFirstFrameID' = IF stepFirstFrameID = -1 THEN frame.id ELSE stepFirstFrameID,
         lastFrameID' = frame.id, stepAllFrames' = Count(frame)
  PROVE  /\ EveryFrameCounted' /\ stepFirstFrameID' \in 0 .. MaxFrameID
         /\ lastFrameID' \in 0 .. MaxFrameID /\ stepAllFrames' \in Nat
         /\ lastFrameID = -1 => ~LeftOut(frame)
<1>1. /\ lastFrameID \in -1 .. MaxFrameID /\ stepFirstFrameID \in -1 .. MaxFrameID /\ MaxFrameID \in Nat
      /\ stepAllFrames \in Nat /\ frame.id \in 0 .. MaxFrameID
  BY FrameParts, FileAssumption DEF FileInv, TypeOK, FileAssumption
<1>2. /\ lastFrameID = -1 <=> stepFirstFrameID = -1
      /\ lastFrameID = -1 => lastFrameType = "UNKNOWN"
  BY DEF FileInv, StepBegun
<1>3. Skipped(frame) = IF lastFrameID >= 0 /\ frame.id > lastFrameID + 1 THEN frame.id - lastFrameID - 1 ELSE 0
  BY DEF Skipped
<1>4. stepAllFrames' = stepAllFrames + Skipped(frame) + 1
  BY DEF Count
<1>5. /\ stepFirstFrameID' \in 0 .. MaxFrameID /\ lastFrameID' \in 0 .. MaxFrameID
      /\ stepAllFrames' \in Nat
  <2>1. Skipped(frame) \in Nat
    BY <1>1, <1>3
  <2>2. QED
    BY <1>1, <1>2, <1>4, <2>1
<1>6. ASSUME InOrder(Append(given[Len(given)], frame))
      PROVE  stepAllFrames' = lastFrameID' - stepFirstFrameID' + 1
  <2>0. /\ frame.id > lastFrameID
        /\ stepAllFrames = IF stepFirstFrameID = -1 THEN 0 ELSE lastFrameID - stepFirstFrameID + 1
    <3>1. InOrder(given[Len(given)]) /\ frame.id > lastFrameID
      BY <1>6, LastGiven
    <3>2. QED
      BY <3>1 DEF FileInv, EveryFrameCounted, Last
  <2>1. CASE lastFrameID = -1
    BY <1>1, <1>2, <1>3, <1>4, <2>0, <2>1
  <2>2. CASE lastFrameID # -1
    <3>1. lastFrameID \in 0 .. MaxFrameID /\ stepFirstFrameID' = stepFirstFrameID
      BY <1>1, <1>2, <2>2
    <3>2. stepAllFrames = lastFrameID - stepFirstFrameID + 1
      BY <1>2, <2>0, <2>2
    <3>3. Skipped(frame) = frame.id - lastFrameID - 1
      BY <1>1, <1>3, <2>0, <3>1
    <3>4. QED
      BY <1>1, <1>4, <3>1, <3>2, <3>3
  <2>3. QED
    BY <2>1, <2>2
<1>7. EveryFrameCounted'
  <2>1. (InOrder(Last(given)))' => InOrder(Append(given[Len(given)], frame))
    BY DEF InOrder, Last
  <2>2. QED
    BY <1>5, <1>6, <2>1 DEF EveryFrameCounted
<1>8. ASSUME lastFrameID = -1 PROVE ~LeftOut(frame)
  BY <1>2, <1>3, <1>8 DEF LeftOut
<1>9. QED
  BY <1>5, <1>7, <1>8

LEMMA TypeOfFile ==
  ASSUME NEW d, d \in Seq(Frame)
  PROVE  \A x \in Range(d) : x \in Frame
BY DEF Range

LEMMA FrameType4 ==
  ASSUME NEW frame
  PROVE  FrameType(frame) \in {"UNKNOWN", "ZERO_DATA", "SOME_DATA", "ALL_LOST", "SOME_LOST"}
BY DEF FrameType

LEMMA WriteFrameStep ==
  ASSUME FileInv, WriteFrame
  PROVE  FileInv'
<1>1. PICK frame \in Frame :
       /\ frame.step = Len(given)
       /\ given' = [given EXCEPT ![Len(given)] = Append(@, frame)]
       /\ stepFirstFrameID' = IF stepFirstFrameID = -1 THEN frame.id ELSE stepFirstFrameID
       /\ dataFile' = WithFrame(frame)
       /\ lastFrameID' = frame.id
       /\ lastFrameType' = FrameType(frame)
       /\ stepAllFrames' = Count(frame)
  BY DEF WriteFrame, WithFrame
<1>2. step = 0 /\ UNCHANGED <<closing, indexFile, stepStartOffset>> /\ UNCHANGED readerVars
  BY DEF WriteFrame
<1>3. PICK d : d = dataFile'
  OBVIOUS
<1>4. /\ Written(d, stepStartOffset, frame.id, InOrder(Append(given[Len(given)], frame)),
                 Range(Append(given[Len(given)], frame)), AllEvents(Append(given[Len(given)], frame)))
      /\ Len(dataFile) <= Len(d) /\ (~LeftOut(frame) => Len(dataFile) < Len(d))
      /\ \A i \in 1 .. Len(dataFile) : d[i] = dataFile[i]
  <2>1. frame \in Frame /\ frame.step = Len(given) /\ d = WithFrame(frame)
    BY <1>1, <1>3
  <2>2. QED
    BY <2>1, FrameWritten
<1>5. d \in Seq(Frame) /\ Len(d) \in Nat /\ stepStartOffset \in 0 .. Len(d)
  <2>1. d \in Seq(Frame) /\ stepStartOffset \in Nat /\ stepStartOffset <= Len(d)
    BY <1>4 DEF Written
  <2>2. QED
    BY <2>1
<1>6. /\ given' \in Seq(Seq(Frame)) /\ Len(given') = Len(given) /\ Len(given) \in 1 .. MaxSteps + 1
      /\ given'[Len(given)] = Append(given[Len(given)], frame)
      /\ \A n \in 1 .. Len(given) : n # Len(given) => given'[n] = given[n]
  <2>1. PICK g : g = Append(given[Len(given)], frame)
    OBVIOUS
  <2>2. given \in Seq(Seq(Frame)) /\ Len(given) \in 1 .. MaxSteps + 1
    BY WrittenSoFar DEF FileInv, Types
  <2>3. g \in Seq(Frame)
    <3>1. given[Len(given)] \in Seq(Frame) /\ frame \in Frame
      BY WrittenSoFar
    <3>2. QED
      BY <2>1, <3>1, AppendProperties
  <2>4. given' = [given EXCEPT ![Len(given)] = g]
    BY <1>1, <2>1
  <2>5. QED
    BY <2>1, <2>2, <2>3, <2>4
<1>7. /\ EveryFrameCounted' /\ stepFirstFrameID' \in 0 .. MaxFrameID
      /\ lastFrameID' \in 0 .. MaxFrameID /\ stepAllFrames' \in Nat
      /\ lastFrameID = -1 => ~LeftOut(frame)
  <2>1. /\ frame \in Frame /\ given'[Len(given')] = Append(given[Len(given)], frame)
        /\ stepFirstFrameID' = IF stepFirstFrameID = -1 THEN frame.id ELSE stepFirstFrameID
        /\ lastFrameID' = frame.id /\ stepAllFrames' = Count(frame)
    BY <1>1, <1>6
  <2>2. QED
    BY <2>1, FrameCounts
<1>8. /\ dataFile \in Seq(Frame) /\ indexFile \in Seq(IndexEntry) /\ Len(given) = Len(indexFile) + 1
      /\ outBuffer \in Buffer /\ pushed \in Seq(Seq(Buffer)) /\ step <= Len(indexFile) + 1
      /\ Len(dataFile) \in Nat
  <2>1. dataFile \in Seq(Frame)
    BY DEF FileInv, Types
  <2>2. QED
    BY <2>1 DEF FileInv, Types
<1>9. Types'
  BY <1>2, <1>3, <1>5, <1>6, <1>8 DEF Types, readerVars
<1>10. TypeOK'
  <2>1. \A x \in Range(dataFile') : x \in Frame
    BY <1>3, <1>5, TypeOfFile
  <2>2. position' = position /\ position \in 0 .. Len(d)
    BY <1>2, <1>4, <1>5, <1>8 DEF FileInv, TypeOK, readerVars
  <2>3. lastFrameType' \in {"UNKNOWN", "ZERO_DATA", "SOME_DATA", "ALL_LOST", "SOME_LOST"}
    BY <1>1, FrameType4
  <2>4. stepFirstFrameID' \in -1 .. MaxFrameID /\ lastFrameID' \in -1 .. MaxFrameID
    BY <1>7, FileAssumption DEF FileAssumption
  <2>5. QED
    BY <1>2, <1>3, <1>5, <1>7, <1>6, <2>1, <2>2, <2>3, <2>4 DEF FileInv, TypeOK, readerVars
<1>11. StepBegun'
  <2>1. Last(given') # << >>
    <3>1. Last(given') = Append(given[Len(given)], frame)
      BY <1>6 DEF Last
    <3>2. given[Len(given)] \in Seq(Frame)
      BY WrittenSoFar
    <3>3. QED
      BY <3>1, <3>2, AppendProperties
  <2>2. lastFrameID' # -1 /\ stepFirstFrameID' # -1
    BY <1>7
  <2>3. stepStartOffset' < Len(d)
    <3>1. CASE lastFrameID = -1
      BY <1>2, <1>4, <1>5, <1>7, <1>8, <3>1 DEF FileInv, StepBegun
    <3>2. CASE lastFrameID # -1
      BY <1>2, <1>4, <1>5, <1>8, <3>2 DEF FileInv, StepBegun
    <3>3. QED
      BY <3>1, <3>2
  <2>4. stepStartOffset' = IF indexFile' = << >> THEN 0 ELSE indexFile'[Len(indexFile')].end
    BY <1>2 DEF FileInv, StepBegun
  <2>5. lastFrameID' = Last(Last(given')).id
    <3>1. Last(given') = Append(given[Len(given)], frame)
      BY <1>6 DEF Last
    <3>2. given[Len(given)] \in Seq(Frame) /\ frame \in Frame
      BY WrittenSoFar
    <3>3. QED
      BY <1>1, <3>1, <3>2, OneMore
  <2>6. QED
    BY <1>3, <1>7, <2>1, <2>2, <2>3, <2>4, <2>5 DEF StepBegun
<1>12. RegionsHold'
  <2>1. ASSUME NEW n \in 1 .. Len(indexFile')
        PROVE  (/\ indexFile[n].end <= Len(dataFile)
                /\ InOrder(given[n]) => Ascending(indexFile[n].begin, indexFile[n].end)
                /\ \A i \in indexFile[n].begin + 1 .. indexFile[n].end :
                     dataFile[i].n # 0 => dataFile[i] \in Range(given[n])
                /\ AllEvents(Region(indexFile[n].begin, indexFile[n].end)) = AllEvents(given[n]))'
    <3>1. n \in 1 .. Len(indexFile) /\ indexFile' = indexFile /\ given'[n] = given[n]
      <4>1. n \in 1 .. Len(indexFile) /\ indexFile' = indexFile /\ Len(indexFile) \in Nat
        BY <1>2, <1>8
      <4>2. n \in 1 .. Len(given) /\ n # Len(given)
        BY <1>8, <4>1
      <4>3. QED
        BY <1>6, <4>1, <4>2
    <3>2. /\ indexFile[n].end <= Len(d)
          /\ InOrder(given[n]) =>
               \A i, j \in indexFile[n].begin + 1 .. indexFile[n].end : i < j => d[i].id < d[j].id
          /\ \A i \in indexFile[n].begin + 1 .. indexFile[n].end : d[i].n # 0 => d[i] \in Range(given[n])
          /\ AllEvents(SubSeq(d, indexFile[n].begin + 1, indexFile[n].end)) = AllEvents(given[n])
      <4>1. /\ d \in Seq(Frame) /\ Len(dataFile) <= Len(d)
            /\ \A i \in 1 .. Len(dataFile) : d[i] = dataFile[i]
        BY <1>4, <1>5
      <4>2. QED
        BY <3>1, <4>1, ClosedRegions
    <3>3. QED
      BY <1>3, <3>1, <3>2 DEF Ascending, Region
  <2>2. PICK h : h = given'[Len(given')] /\ h = Append(given[Len(given)], frame)
    BY <1>6
  <2>3. /\ InOrder(h) => \A i, j \in stepStartOffset + 1 .. Len(d) : i < j => d[i].id < d[j].id
        /\ InOrder(h) => \A i \in stepStartOffset + 1 .. Len(d) : d[i].id <= frame.id
        /\ \A i \in stepStartOffset + 1 .. Len(d) : d[i].n # 0 => d[i] \in Range(h)
        /\ AllEvents(SubSeq(d, stepStartOffset + 1, Len(d))) = AllEvents(h)
    BY <1>4, <2>2 DEF Written
  <2>4. (/\ InOrder(given[Len(given)]) =>
              /\ Ascending(stepStartOffset, Len(dataFile))
              /\ \A i \in stepStartOffset + 1 .. Len(dataFile) : dataFile[i].id <= lastFrameID
         /\ \A i \in stepStartOffset + 1 .. Len(dataFile) :
              dataFile[i].n # 0 => dataFile[i] \in Range(given[Len(given)])
         /\ AllEvents(Region(stepStartOffset, Len(dataFile))) = AllEvents(given[Len(given)]))'
    BY <1>1, <1>2, <1>3, <2>2, <2>3 DEF Ascending, Region
  <2>5. QED
    BY <2>1, <2>4 DEF RegionsHold
<1>13. (InRegion /\ BuffersInOrder /\ NothingLost /\ AbortsAtFull)'
  <2>1. Len(indexFile') \in Nat
    BY <1>2, <1>8
  <2>2. QED
    BY <1>2, <2>1, WriterKeepsReader
<1>14. QED
  BY <1>7, <1>9, <1>10, <1>11, <1>12, <1>13 DEF FileInv

LEMMA EndOfStepStep ==
  ASSUME FileInv, EndOfStep
  PROVE  FileInv'
<1>1. PICK x : x = [begin |-> stepStartOffset, end |-> Len(dataFile),
                    first |-> stepFirstFrameID, last |-> lastFrameID]
  OBVIOUS
<1>2. /\ step = 0 /\ Last(given) # << >> /\ Len(given) <= MaxSteps
      /\ indexFile' = Append(indexFile, x) /\ stepStartOffset' = Len(dataFile)
      /\ stepAllFrames' = 0 /\ lastFrameID' = -1 /\ stepFirstFrameID' = -1
      /\ lastFrameType' = "UNKNOWN" /\ given' = Append(given, << >>) /\ closing' \in BOOLEAN
      /\ dataFile' = dataFile /\ UNCHANGED readerVars
  BY <1>1 DEF EndOfStep
<1>3. /\ dataFile \in Seq(Frame) /\ indexFile \in Seq(IndexEntry) /\ Len(given) = Len(indexFile) + 1
      /\ given \in Seq(Seq(Frame))
      /\ outBuffer \in Buffer /\ pushed \in Seq(Seq(Buffer)) /\ step <= Len(indexFile) + 1
  BY DEF FileInv, Types
<1>4. Len(dataFile) \in Nat /\ Len(indexFile) \in Nat /\ Len(given) \in Nat
  BY <1>3
<1>5. stepStartOffset \in Nat /\ stepFirstFrameID \in Int /\ lastFrameID \in Int
  BY FileAssumption, <1>4 DEF FileInv, TypeOK, FileAssumption
<1>6. x \in IndexEntry /\ x.begin = stepStartOffset /\ x.end = Len(dataFile)
  BY <1>1, <1>4, <1>5 DEF IndexEntry
<1>7. stepStartOffset < Len(dataFile)
  BY <1>2 DEF FileInv, StepBegun
<1>8. /\ indexFile' \in Seq(IndexEntry) /\ Len(indexFile') = Len(indexFile) + 1
      /\ (\A n \in 1 .. Len(indexFile) : indexFile'[n] = indexFile[n])
      /\ indexFile'[Len(indexFile) + 1] = x
  BY <1>2, <1>3, <1>6, AppendProperties
<1>9. /\ given' \in Seq(Seq(Frame)) /\ Len(given') = Len(given) + 1
      /\ (\A n \in 1 .. Len(given) : given'[n] = given[n])
      /\ given'[Len(given) + 1] = << >>
  <2>1. << >> \in Seq(Frame)
    OBVIOUS
  <2>2. QED
    BY <1>2, <1>3, <2>1, AppendProperties
<1>10. Types'
  BY <1>2, <1>3, <1>4, <1>8, <1>9 DEF Types, readerVars
<1>11. \A n \in 1 .. Len(indexFile') :
         /\ indexFile'[n].begin = IF n = 1 THEN 0 ELSE indexFile'[n - 1].end
         /\ indexFile'[n].begin < indexFile'[n].end
  <2>1. SUFFICES ASSUME NEW n \in 1 .. Len(indexFile) + 1
                 PROVE  /\ indexFile'[n].begin = IF n = 1 THEN 0 ELSE indexFile'[n - 1].end
                        /\ indexFile'[n].begin < indexFile'[n].end
    BY <1>8
  <2>2. CASE n = Len(indexFile) + 1
    <3>1. stepStartOffset = IF indexFile = << >> THEN 0 ELSE indexFile[Len(indexFile)].end
      BY DEF FileInv, StepBegun
    <3>2. indexFile = << >> <=> n = 1
      BY <1>3, <1>4, <2>2, EmptySeq
    <3>3. n # 1 => n - 1 = Len(indexFile) /\ n - 1 \in 1 .. Len(indexFile)
      BY <1>4, <2>2
    <3>4. QED
      BY <1>6, <1>7, <1>8, <2>2, <3>1, <3>2, <3>3
  <2>3. CASE n # Len(indexFile) + 1
    <3>1. n \in 1 .. Len(indexFile) /\ (n # 1 => n - 1 \in 1 .. Len(indexFile))
      BY <1>4, <2>3
    <3>2. /\ indexFile[n].begin = IF n = 1 THEN 0 ELSE indexFile[n - 1].end
          /\ indexFile[n].begin < indexFile[n].end
      BY <3>1 DEF FileInv, TypeOK
    <3>3. QED
      BY <1>8, <3>1, <3>2
  <2>4. QED
    BY <2>2, <2>3
<1>12. TypeOK'
  <2>1. Len(given') \in 1 .. MaxSteps + 1
    BY <1>2, <1>4, <1>9, FileAssumption DEF FileAssumption
  <2>2. stepStartOffset' \in 0 .. Len(dataFile') /\ stepAllFrames' \in Nat
    BY <1>2, <1>4, FileAssumption DEF FileAssumption
  <2>3. lastFrameID' \in -1 .. MaxFrameID /\ stepFirstFrameID' \in -1 .. MaxFrameID
    BY <1>2, FileAssumption DEF FileAssumption
  <2>4. position' \in 0 .. Len(dataFile') /\ step' \in 0 .. MaxSteps + 1 /\ Len(pushed') = step'
        /\ aborted' \in BOOLEAN /\ \A y \in Range(dataFile') : y \in Frame
    BY <1>2 DEF FileInv, TypeOK, readerVars
  <2>5. QED
    BY <1>2, <1>11, <2>1, <2>2, <2>3, <2>4 DEF TypeOK
<1>13. EveryFrameCounted'
  BY <1>2 DEF EveryFrameCounted
<1>14. StepBegun'
  <2>1. indexFile' # << >>
    BY <1>4, <1>8
  <2>2. stepStartOffset' = indexFile'[Len(indexFile')].end
    BY <1>2, <1>6, <1>8
  <2>3. Last(given') = << >>
    BY <1>9 DEF Last
  <2>4. QED
    BY <1>2, <2>1, <2>2, <2>3 DEF StepBegun
<1>15. RegionsHold'
  <2>1. ASSUME NEW n \in 1 .. Len(indexFile')
        PROVE  (/\ indexFile[n].end <= Len(dataFile)
                /\ InOrder(given[n]) => Ascending(indexFile[n].begin, indexFile[n].end)
                /\ \A i \in indexFile[n].begin + 1 .. indexFile[n].end :
                     dataFile[i].n # 0 => dataFile[i] \in Range(given[n])
                /\ AllEvents(Region(indexFile[n].begin, indexFile[n].end)) = AllEvents(given[n]))'
    <3>1. CASE n \in 1 .. Len(indexFile)
      <4>1. /\ indexFile[n].end <= Len(dataFile)
            /\ InOrder(given[n]) => Ascending(indexFile[n].begin, indexFile[n].end)
            /\ \A i \in indexFile[n].begin + 1 .. indexFile[n].end :
                 dataFile[i].n # 0 => dataFile[i] \in Range(given[n])
            /\ AllEvents(Region(indexFile[n].begin, indexFile[n].end)) = AllEvents(given[n])
        BY <3>1 DEF FileInv, RegionsHold
      <4>2. indexFile'[n] = indexFile[n] /\ given'[n] = given[n] /\ dataFile' = dataFile
        <5>1. n \in 1 .. Len(given)
          BY <1>3, <1>4, <3>1
        <5>2. QED
          BY <1>2, <1>8, <1>9, <3>1, <5>1
      <4>3. QED
        BY <4>1, <4>2 DEF Ascending, Region
    <3>2. CASE n = Len(indexFile) + 1
      <4>1. indexFile'[n] = x /\ given'[n] = given[Len(given)] /\ dataFile' = dataFile
        <5>1. n \in 1 .. Len(given) /\ n = Len(given)
          BY <1>3, <1>4, <3>2
        <5>2. QED
          BY <1>2, <1>8, <1>9, <3>2, <5>1
      <4>2. /\ InOrder(given[Len(given)]) => Ascending(stepStartOffset, Len(dataFile))
            /\ \A i \in stepStartOffset + 1 .. Len(dataFile) :
                 dataFile[i].n # 0 => dataFile[i] \in Range(given[Len(given)])
            /\ AllEvents(Region(stepStartOffset, Len(dataFile))) = AllEvents(given[Len(given)])
        BY DEF FileInv, RegionsHold
      <4>3. QED
        BY <1>4, <1>6, <4>1, <4>2 DEF Ascending, Region
    <3>3. QED
      BY <1>4, <1>8, <3>1, <3>2
  <2>2. PICK k \in Nat : k = Len(dataFile)
    BY <1>4
  <2>3. AllEvents(SubSeq(dataFile, k + 1, k)) = AllEvents(<< >>)
    <3>1. PICK d : d = dataFile
      OBVIOUS
    <3>2. d \in Seq(Frame) /\ k <= Len(d) /\ k <= k
      BY <1>3, <2>2, <3>1
    <3>3. SubSeq(d, k + 1, k) = << >>
      BY <3>2, RegionType
    <3>4. QED
      BY <3>1, <3>3
  <2>4. given'[Len(given')] = << >>
    BY <1>9
  <2>5. \A i \in k + 1 .. k : FALSE
    OBVIOUS
  <2>6. (/\ InOrder(given[Len(given)]) =>
              /\ Ascending(stepStartOffset, Len(dataFile))
              /\ \A i \in stepStartOffset + 1 .. Len(dataFile) : dataFile[i].id <= lastFrameID
         /\ \A i \in stepStartOffset + 1 .. Len(dataFile) :
              dataFile[i].n # 0 => dataFile[i] \in Range(given[Len(given)])
         /\ AllEvents(Region(stepStartOffset, Len(dataFile))) = AllEvents(given[Len(given)]))'
    BY <1>2, <2>2, <2>3, <2>4, <2>5 DEF Ascending, Region
  <2>7. QED
    BY <2>1, <2>6 DEF RegionsHold
<1>16. (InRegion /\ BuffersInOrder /\ NothingLost /\ AbortsAtFull)'
  <2>1. Len(indexFile') \in Nat
    BY <1>4, <1>8
  <2>2. QED
    BY <1>2, <2>1, WriterKeepsReader
<1>17. QED
  BY <1>10, <1>12, <1>13, <1>14, <1>15, <1>16 DEF FileInv

----------------------------------------------------------------------------
(* The reader. *)

LEMMA ReaderKeepsWriter ==
  ASSUME FileInv, UNCHANGED writerVars, position' \in 0 .. Len(dataFile), outBuffer' \in Buffer,
         pushed' \in Seq(Seq(Buffer)), Len(pushed') = step', step' \in 0 .. Len(indexFile) + 1,
         aborted' \in BOOLEAN
  PROVE  (TypeOK /\ Types /\ EveryFrameCounted /\ StepBegun /\ RegionsHold)'
<1>1. UNCHANGED <<given, closing, dataFile, indexFile, lastFrameID, stepFirstFrameID,
                  lastFrameType, stepAllFrames, stepStartOffset>>
  BY DEF writerVars
<1>2. /\ Len(given) = Len(indexFile) + 1 /\ indexFile \in Seq(IndexEntry)
      /\ Len(given) \in 1 .. MaxSteps + 1
  BY DEF FileInv, Types, TypeOK
<1>3. step' \in 0 .. MaxSteps + 1 /\ step' <= Len(indexFile) + 1
  <2>1. Len(indexFile) \in Nat
    BY <1>2
  <2>2. QED
    BY <1>2, <2>1, FileAssumption DEF FileAssumption
<1>4. TypeOK'
  BY <1>1, <1>3 DEF FileInv, TypeOK
<1>5. Types'
  BY <1>1, <1>3 DEF FileInv, Types
<1>6. EveryFrameCounted' /\ StepBegun'
  BY <1>1 DEF FileInv, EveryFrameCounted, StepBegun
<1>7. RegionsHold'
  BY <1>1 DEF FileInv, RegionsHold, Ascending, Region
<1>8. QED
  BY <1>4, <1>5, <1>6, <1>7

\* The region of a step of the index, in the data file.
LEMMA IndexedRegion ==
  ASSUME NEW n, FileInv, n \in 1 .. Len(indexFile)
  PROVE  /\ indexFile[n].begin \in Nat /\ indexFile[n].end \in Nat /\ Len(dataFile) \in Nat
         /\ indexFile[n].begin < indexFile[n].end /\ indexFile[n].end <= Len(dataFile)
         /\ n = 1 => indexFile[n].begin = 0
<1>1. indexFile[n] \in IndexEntry /\ dataFile \in Seq(Frame)
  BY DEF FileInv, Types
<1>2. indexFile[n].begin < indexFile[n].end /\ (n = 1 => indexFile[n].begin = 0)
  BY DEF FileInv, TypeOK
<1>3. indexFile[n].end <= Len(dataFile)
  BY DEF FileInv, RegionsHold
<1>4. QED
  BY <1>1, <1>2, <1>3 DEF IndexEntry

LEMMA NoBufferIs == NoBuffer \in Buffer /\ NoBuffer.events = << >> /\ NoBuffer.first = -1
<1>1. << >> \in Seq(Event)
  OBVIOUS
<1>2. QED
  BY <1>1 DEF NoBuffer, Buffer

\* A step begun, when those before it are done.
LEMMA StepTaken ==
  ASSUME NEW n, NEW p, FileInv, UNCHANGED writerVars, ~aborted, aborted' = aborted, NextStep(n, p),
         n \in 1 .. Len(indexFile) + 1, p \in Seq(Seq(Buffer)), Len(p) = n - 1,
         \A s \in 1 .. n - 1 : GoodBuffers(p[s], InOrder(given[s])) /\ InBuffers(p[s]) = AllEvents(given[s])
  PROVE  FileInv'
<1>1. /\ step' = n /\ outBuffer' = NoBuffer /\ pushed' = Append(p, << >>)
      /\ position' = IF n <= Len(indexFile) THEN indexFile[n].begin ELSE 0
  BY DEF NextStep
<1>2. indexFile' = indexFile /\ given' = given /\ dataFile' = dataFile
  BY DEF writerVars
<1>3. indexFile \in Seq(IndexEntry) /\ Len(indexFile) \in Nat /\ n \in Nat
  <2>1. indexFile \in Seq(IndexEntry)
    BY DEF FileInv, Types
  <2>2. QED
    BY <2>1
<1>4. /\ pushed' \in Seq(Seq(Buffer)) /\ Len(pushed') = n /\ pushed'[n] = << >>
      /\ \A s \in 1 .. n - 1 : pushed'[s] = p[s]
  <2>1. << >> \in Seq(Buffer) /\ (n - 1) + 1 = n
    BY <1>3
  <2>2. /\ Append(p, << >>) \in Seq(Seq(Buffer)) /\ Len(Append(p, << >>)) = Len(p) + 1
        /\ (\A i \in 1 .. Len(p) : Append(p, << >>)[i] = p[i])
        /\ Append(p, << >>)[Len(p) + 1] = << >>
    BY <2>1, AppendProperties
  <2>3. QED
    BY <1>1, <2>1, <2>2
<1>5. position' \in 0 .. Len(dataFile) /\ (n <= Len(indexFile) => position' = indexFile[n].begin)
  <2>1. CASE n <= Len(indexFile)
    <3>1. n \in 1 .. Len(indexFile)
      BY <1>3, <2>1
    <3>2. QED
      BY <1>1, <3>1, IndexedRegion
  <2>2. CASE ~(n <= Len(indexFile))
    <3>1. dataFile \in Seq(Frame)
      BY DEF FileInv, Types
    <3>2. QED
      BY <1>1, <2>2, <3>1
  <2>3. QED
    BY <2>1, <2>2
<1>6. (TypeOK /\ Types /\ EveryFrameCounted /\ StepBegun /\ RegionsHold)'
  <2>1. outBuffer' \in Buffer /\ step' \in 0 .. Len(indexFile) + 1 /\ aborted' \in BOOLEAN
    BY <1>1, <1>3, NoBufferIs DEF FileInv, TypeOK
  <2>2. QED
    BY <1>1, <1>4, <1>5, <2>1, ReaderKeepsWriter
<1>7. Reading' => n \in 1 .. Len(indexFile)
  BY <1>1, <1>2 DEF Reading
<1>8. InRegion'
  <2>1. ASSUME n \in 1 .. Len(indexFile) PROVE position' \in indexFile[n].begin .. indexFile[n].end
    BY <1>3, <1>5, <2>1, IndexedRegion
  <2>2. QED
    BY <1>1, <1>2, <1>7, <2>1 DEF InRegion
<1>9. BuffersInOrder'
  <2>1. \A s \in 1 .. n : GoodBuffers(pushed'[s], InOrder(given[s]))
    <3>1. \A q : GoodBuffers(<< >>, q)
      BY DEF GoodBuffers
    <3>2. \A s \in 1 .. n : s = n \/ s \in 1 .. n - 1
      BY <1>3
    <3>3. QED
      BY <1>4, <3>1, <3>2
  <2>2. QED
    <3>1. \A s \in 1 .. n : (GoodBuffers(pushed[s], InOrder(given[s])))'
      BY <1>2, <2>1 DEF GoodBuffers, GoodBuffer, InOrder
    <3>2. QED
      BY <1>1, <1>4, <3>1 DEF BuffersInOrder
<1>10. NothingLost'
  <2>1. ASSUME NEW s \in 1 .. n - 1 PROVE Pushed(s)' = AllEvents(given'[s])
    <3>1. Pushed(s)' = InBuffers(pushed'[s])
      BY DEF Pushed, InBuffers
    <3>2. QED
      BY <1>2, <1>4, <3>1
  <2>2. ASSUME Reading'
        PROVE (Pushed(step) \o outBuffer.events = AllEvents(Region(indexFile[step].begin, position)))'
    <3>1. Pushed(step)' = InBuffers(pushed'[n])
      BY <1>1 DEF Pushed, InBuffers
    <3>2. InBuffers(<< >>) = << >>
      <4>1. << >> \in Seq(Buffer)
        OBVIOUS
      <4>2. QED
        BY <4>1, EventsIn
    <3>3. n \in 1 .. Len(indexFile)
      BY <1>7, <2>2
    <3>4. PICK d, k : d = dataFile /\ k = indexFile[n].begin
      OBVIOUS
    <3>5. d \in Seq(Frame) /\ k \in Nat /\ k <= k /\ k <= Len(d)
      <4>1. d \in Seq(Frame)
        BY <3>4 DEF FileInv, Types
      <4>2. QED
        BY <3>3, <3>4, <4>1, IndexedRegion
    <3>6. SubSeq(d, k + 1, k) = << >>
      BY <3>5, RegionType
    <3>7. AllEvents(<< >>) = << >>
      <4>1. << >> \in Seq(Frame)
        OBVIOUS
      <4>2. QED
        BY <4>1, EventsOf
    <3>8. (Region(indexFile[step].begin, position))' = SubSeq(d, k + 1, k)
      BY <1>1, <1>2, <1>3, <1>5, <3>3, <3>4 DEF Region
    <3>9. AllEvents(Region(indexFile[step].begin, position))' = << >>
      <4>1. AllEvents(Region(indexFile[step].begin, position))' = AllEvents((Region(indexFile[step].begin, position))')
        BY DEF AllEvents, Events
      <4>2. QED
        BY <3>6, <3>7, <3>8, <4>1
    <3>10. Pushed(step)' = << >> /\ outBuffer'.events = << >>
      BY <1>1, <1>4, <3>1, <3>2, NoBufferIs
    <3>11. << >> \o << >> = << >>
      BY ConcatEmptySeq
    <3>12. QED
      BY <3>9, <3>10, <3>11
  <2>3. QED
    BY <1>1, <2>1, <2>2 DEF NothingLost, StepsSurvive
<1>11. AbortsAtFull'
  BY DEF AbortsAtFull
<1>12. QED
  BY <1>6, <1>8, <1>9, <1>10, <1>11 DEF FileInv

LEMMA OpenFileStep ==
  ASSUME FileInv, OpenFile
  PROVE  FileInv'
<1>1. /\ NextStep(1, << >>) /\ UNCHANGED writerVars /\ indexFile # << >>
      /\ ~aborted /\ aborted' = aborted
  BY DEF OpenFile, FileInv, AbortsAtFull, Reading
<1>2. << >> \in Seq(Seq(Buffer)) /\ Len(<< >>) = 1 - 1
  OBVIOUS
<1>3. 1 \in 1 .. Len(indexFile) + 1
  <2>1. indexFile \in Seq(IndexEntry)
    BY DEF FileInv, Types
  <2>2. Len(indexFile) \in Nat
    BY <2>1
  <2>3. QED
    BY <2>2
<1>4. \A s \in 1 .. 1 - 1 : GoodBuffers((<< >>)[s], InOrder(given[s])) /\ InBuffers((<< >>)[s]) = AllEvents(given[s])
  OBVIOUS
<1>5. QED
  BY <1>1, <1>2, <1>3, <1>4, StepTaken

\* The buffer pushed to the sink of its step.
LEMMA BufferPushed ==
  ASSUME NEW p, FileInv, outBuffer # NoBuffer, p = PushedWith(outBuffer)
  PROVE  /\ Reading /\ p \in Seq(Seq(Buffer)) /\ Len(p) = step
         /\ \A s \in 1 .. step : s # step => p[s] = pushed[s]
         /\ p[step] = Append(pushed[step], outBuffer)
         /\ GoodBuffers(p[step], InOrder(given[step])) /\ p[step] # << >> /\ Last(p[step]) = outBuffer
         /\ InBuffers(p[step]) = Pushed(step) \o outBuffer.events
<1>1. Reading
  BY DEF FileInv, BuffersInOrder
<1>2. pushed \in Seq(Seq(Buffer)) /\ outBuffer \in Buffer /\ Len(pushed) = step /\ step \in 1 .. step /\ step \in Nat
  BY <1>1 DEF FileInv, Types, TypeOK, Reading
<1>3. PICK b \in Buffer, l \in Seq(Buffer) : b = outBuffer /\ l = pushed[step]
  BY <1>2
<1>4. PICK q : q = Append(l, b)
  OBVIOUS
<1>5. /\ q \in Seq(Buffer) /\ Len(q) = Len(l) + 1 /\ (\A i \in 1 .. Len(l) : q[i] = l[i])
      /\ q[Len(l) + 1] = b /\ Len(l) \in Nat
  BY <1>3, <1>4, AppendProperties
<1>6. p = [pushed EXCEPT ![step] = q]
  BY <1>3, <1>4 DEF PushedWith
<1>7. /\ p \in Seq(Seq(Buffer)) /\ Len(p) = step /\ p[step] = q
      /\ \A s \in 1 .. step : s # step => p[s] = pushed[s]
  BY <1>2, <1>5, <1>6
<1>8. GoodBuffers(q, InOrder(given[step]))
  <2>1. GoodBuffers(l, InOrder(given[step])) /\ GoodBuffer(b)
    BY <1>2, <1>3 DEF FileInv, BuffersInOrder
  <2>2. InOrder(given[step]) /\ l # << >> => Last(Last(l).events).id < b.first
    BY <1>3 DEF FileInv, BuffersInOrder
  <2>3. ASSUME NEW i \in 1 .. Len(q) PROVE GoodBuffer(q[i])
    <3>1. CASE i = Len(l) + 1
      BY <1>5, <2>1, <3>1
    <3>2. CASE i # Len(l) + 1
      <4>1. i \in 1 .. Len(l)
        BY <1>5, <3>2
      <4>2. QED
        BY <1>5, <2>1, <4>1 DEF GoodBuffers
    <3>3. QED
      BY <3>1, <3>2
  <2>4. ASSUME InOrder(given[step]), NEW i \in 2 .. Len(q) PROVE Last(q[i - 1].events).id < q[i].first
    <3>1. CASE i = Len(l) + 1
      <4>1. i - 1 \in 1 .. Len(l) /\ i - 1 = Len(l) /\ l # << >>
        BY <1>5, <3>1
      <4>2. q[i - 1] = Last(l) /\ q[i] = b
        BY <1>5, <3>1, <4>1 DEF Last
      <4>3. QED
        BY <2>2, <2>4, <4>1, <4>2
    <3>2. CASE i # Len(l) + 1
      <4>1. i \in 2 .. Len(l) /\ i \in 1 .. Len(l) /\ i - 1 \in 1 .. Len(l)
        BY <1>5, <3>2
      <4>2. q[i] = l[i] /\ q[i - 1] = l[i - 1]
        BY <1>5, <4>1
      <4>3. QED
        BY <2>1, <2>4, <4>1, <4>2 DEF GoodBuffers
    <3>3. QED
      BY <3>1, <3>2
  <2>5. QED
    BY <2>3, <2>4 DEF GoodBuffers
<1>9. q # << >> /\ Last(q) = b
  BY <1>5 DEF Last
<1>10. InBuffers(q) = InBuffers(l) \o b.events
  BY <1>3, <1>4, EventsIn
<1>11. InBuffers(l) = Pushed(step)
  BY <1>3 DEF Pushed, InBuffers
<1>12. QED
  BY <1>1, <1>3, <1>4, <1>7, <1>8, <1>9, <1>10, <1>11

LEMMA FinishStepStep ==
  ASSUME FileInv, FinishStep
  PROVE  FileInv'
<1>1. PICK p : p = IF outBuffer = NoBuffer THEN pushed ELSE PushedWith(outBuffer)
  OBVIOUS
<1>2. Reading /\ ~aborted /\ aborted' = aborted /\ position >= indexFile[step].end /\ NextStep(step + 1, p) /\ UNCHANGED writerVars
  BY <1>1 DEF FinishStep
<1>3. /\ step \in 1 .. Len(indexFile) /\ Len(indexFile) \in Nat
      /\ pushed \in Seq(Seq(Buffer)) /\ Len(pushed) = step
  <2>1. indexFile \in Seq(IndexEntry)
    BY DEF FileInv, Types
  <2>2. QED
    BY <1>2, <2>1 DEF Reading, FileInv, Types, TypeOK
<1>4. AllEvents(Region(indexFile[step].begin, position)) = AllEvents(given[step])
  <2>1. position = indexFile[step].end
    <3>1. position \in indexFile[step].begin .. indexFile[step].end
      BY <1>2 DEF FileInv, InRegion
    <3>2. QED
      BY <1>2, <1>3, <3>1, IndexedRegion
  <2>2. QED
    BY <1>3, <2>1 DEF FileInv, RegionsHold
<1>5. Pushed(step) \o outBuffer.events = AllEvents(given[step])
  BY <1>2, <1>4 DEF FileInv, NothingLost
<1>6. /\ p \in Seq(Seq(Buffer)) /\ Len(p) = step /\ GoodBuffers(p[step], InOrder(given[step]))
      /\ InBuffers(p[step]) = AllEvents(given[step])
      /\ \A s \in 1 .. step : s # step => p[s] = pushed[s]
  <2>1. CASE outBuffer = NoBuffer
    <3>1. p = pushed
      BY <1>1, <2>1
    <3>2. Pushed(step) = InBuffers(pushed[step])
      BY DEF Pushed, InBuffers
    <3>3. Pushed(step) \in Seq(Event)
      <4>1. pushed[step] \in Seq(Buffer)
        BY <1>3
      <4>2. QED
        BY <3>2, <4>1, EventsIn
    <3>4. Pushed(step) \o << >> = Pushed(step)
      BY <3>3, ConcatEmptySeq
    <3>5. GoodBuffers(pushed[step], InOrder(given[step]))
      BY <1>3 DEF FileInv, BuffersInOrder
    <3>6. QED
      BY <1>3, <1>5, <2>1, <3>1, <3>2, <3>4, <3>5, NoBufferIs
  <2>2. CASE outBuffer # NoBuffer
    <3>1. p = PushedWith(outBuffer)
      BY <1>1, <2>2
    <3>2. /\ p \in Seq(Seq(Buffer)) /\ Len(p) = step /\ GoodBuffers(p[step], InOrder(given[step]))
          /\ InBuffers(p[step]) = Pushed(step) \o outBuffer.events
          /\ \A s \in 1 .. step : s # step => p[s] = pushed[s]
      BY <2>2, <3>1, BufferPushed
    <3>3. QED
      BY <1>5, <3>2
  <2>3. QED
    BY <2>1, <2>2
<1>7. PICK n : n = step + 1
  OBVIOUS
<1>8. n \in 1 .. Len(indexFile) + 1 /\ Len(p) = n - 1
  BY <1>3, <1>6, <1>7
<1>9. ASSUME NEW s \in 1 .. n - 1 PROVE GoodBuffers(p[s], InOrder(given[s])) /\ InBuffers(p[s]) = AllEvents(given[s])
  <2>1. s \in 1 .. step
    BY <1>3, <1>7
  <2>2. CASE s = step
    BY <1>6, <2>2
  <2>3. CASE s # step
    <3>1. s \in 1 .. step - 1 /\ p[s] = pushed[s]
      BY <1>3, <1>6, <2>1, <2>3
    <3>2. GoodBuffers(pushed[s], InOrder(given[s]))
      BY <2>1 DEF FileInv, BuffersInOrder
    <3>3. Pushed(s) = AllEvents(given[s])
      BY <3>1 DEF FileInv, NothingLost, StepsSurvive
    <3>4. Pushed(s) = InBuffers(pushed[s])
      BY DEF Pushed, InBuffers
    <3>5. QED
      BY <3>1, <3>2, <3>3, <3>4
  <2>4. QED
    BY <2>2, <2>3
<1>10. NextStep(n, p)
  BY <1>2, <1>7
<1>11. QED
  BY <1>2, <1>6, <1>8, <1>9, <1>10, StepTaken

\* The frame read next is of the step, before those not read yet, and its events
\* are the ones the region read so far gets.
LEMMA FrameRead ==
  ASSUME NEW frame, FileInv, Reading, position < indexFile[step].end, frame = dataFile[position + 1]
  PROVE  /\ frame \in Frame /\ position \in Nat /\ position + 1 \in 0 .. Len(dataFile)
         /\ position + 1 \in indexFile[step].begin .. indexFile[step].end
         /\ InOrder(given[step]) =>
              \A i \in (position + 1) + 1 .. indexFile[step].end : frame.id < dataFile[i].id
         /\ AllEvents(Region(indexFile[step].begin, position + 1))
              = AllEvents(Region(indexFile[step].begin, position)) \o Events(frame)
<1>1. step \in 1 .. Len(indexFile) /\ position \in indexFile[step].begin .. indexFile[step].end
  BY DEF Reading, FileInv, InRegion
<1>2. PICK d, a, e : d = dataFile /\ a = indexFile[step].begin /\ e = indexFile[step].end
  OBVIOUS
<1>3. PICK b : b = position
  OBVIOUS
<1>4. a \in Nat /\ e \in Nat /\ Len(d) \in Nat /\ e <= Len(d)
  BY <1>1, <1>2, IndexedRegion
<1>5. b \in Nat /\ a <= b /\ b < e /\ b < Len(d)
  BY <1>1, <1>2, <1>3, <1>4
<1>6. d \in Seq(Frame) /\ b + 1 \in 1 .. Len(d)
  BY <1>2, <1>4, <1>5 DEF FileInv, Types
<1>7. frame = d[b + 1] /\ frame \in Frame
  BY <1>2, <1>3, <1>6
<1>8. ASSUME InOrder(given[step]), NEW i \in (b + 1) + 1 .. e PROVE frame.id < d[i].id
  <2>1. \A j, k \in a + 1 .. e : j < k => d[j].id < d[k].id
    BY <1>1, <1>2, <1>8 DEF FileInv, RegionsHold, Ascending
  <2>2. b + 1 \in a + 1 .. e /\ i \in a + 1 .. e /\ b + 1 < i
    BY <1>4, <1>5
  <2>3. QED
    BY <1>7, <2>1, <2>2
<1>9. AllEvents(SubSeq(d, a + 1, b + 1)) = AllEvents(SubSeq(d, a + 1, b)) \o Events(frame)
  <2>1. a <= b /\ b < Len(d) /\ b <= Len(d)
    BY <1>4, <1>5
  <2>2. SubSeq(d, a + 1, b + 1) = Append(SubSeq(d, a + 1, b), d[b + 1])
    BY <1>4, <1>5, <1>6, <2>1, RegionGrows
  <2>3. PICK r \in Seq(Frame) : r = SubSeq(d, a + 1, b)
    BY <1>4, <1>5, <1>6, <2>1, RegionType
  <2>4. AllEvents(Append(r, frame)) = AllEvents(r) \o Events(frame)
    BY <1>7, <2>3, EventsOf
  <2>5. QED
    BY <1>7, <2>2, <2>3, <2>4
<1>10. b + 1 \in a .. e /\ b + 1 \in 0 .. Len(d)
  BY <1>4, <1>5
<1>11. QED
  BY <1>2, <1>3, <1>5, <1>7, <1>8, <1>9, <1>10 DEF Region

LEMMA FrameTaken ==
  ASSUME NEW frame, NEW p, NEW b, FileInv, Reading, position < indexFile[step].end,
         frame = dataFile[position + 1], position' = position + 1, UNCHANGED <<writerVars, aborted, step>>,
         ~aborted,
         pushed' = p, outBuffer' = b, p \in Seq(Seq(Buffer)), b \in Buffer, Len(p) = step,
         \A s \in 1 .. step : s # step => p[s] = pushed[s],
         GoodBuffers(p[step], InOrder(given[step])), b = NoBuffer => p[step] = << >>,
         b # NoBuffer => GoodBuffer(b),
         b # NoBuffer /\ InOrder(given[step]) =>
           /\ p[step] # << >> => Last(Last(p[step]).events).id < b.first
           /\ \A i \in (position + 1) + 1 .. indexFile[step].end : Last(b.events).id < dataFile[i].id,
         InBuffers(p[step]) \o b.events = (Pushed(step) \o outBuffer.events) \o Events(frame)
  PROVE  FileInv'
<1>1. /\ indexFile' = indexFile /\ given' = given /\ dataFile' = dataFile /\ step' = step
      /\ UNCHANGED writerVars
  BY DEF writerVars
<1>2. step \in 1 .. Len(indexFile) /\ Len(indexFile) \in Nat
  <2>1. indexFile \in Seq(IndexEntry)
    BY DEF FileInv, Types
  <2>2. QED
    BY <2>1 DEF Reading
<1>3. /\ position + 1 \in 0 .. Len(dataFile)
      /\ position + 1 \in indexFile[step].begin .. indexFile[step].end
      /\ AllEvents(Region(indexFile[step].begin, position + 1))
           = AllEvents(Region(indexFile[step].begin, position)) \o Events(frame)
  BY FrameRead
<1>4. (TypeOK /\ Types /\ EveryFrameCounted /\ StepBegun /\ RegionsHold)'
  <2>1. /\ position' \in 0 .. Len(dataFile) /\ step' \in 0 .. Len(indexFile) + 1
        /\ outBuffer' \in Buffer /\ pushed' \in Seq(Seq(Buffer)) /\ Len(pushed') = step'
        /\ aborted' \in BOOLEAN
    BY <1>1, <1>2, <1>3 DEF FileInv, TypeOK
  <2>2. QED
    BY <1>1, <2>1, ReaderKeepsWriter
<1>5. Reading'
  BY <1>1, <1>2 DEF Reading
<1>6. InRegion'
  BY <1>1, <1>3 DEF InRegion
<1>7. BuffersInOrder'
  <2>1. ASSUME NEW s \in 1 .. step' PROVE GoodBuffers(pushed'[s], InOrder(given[s]))
    <3>1. s \in 1 .. step
      BY <1>1
    <3>2. CASE s = step
      BY <3>2
    <3>3. CASE s # step
      BY <3>1, <3>3 DEF FileInv, BuffersInOrder
    <3>4. QED
      BY <3>2, <3>3
  <2>2. \A s \in 1 .. step' : GoodBuffers(pushed'[s], InOrder(given[s]))
    BY <2>1
  <2>3. outBuffer' = NoBuffer => pushed'[step'] = << >>
    BY <1>1
  <2>4. /\ outBuffer' # NoBuffer => GoodBuffer(outBuffer')
        /\ outBuffer' # NoBuffer /\ InOrder(given[step]) =>
          /\ pushed'[step'] # << >> => Last(Last(pushed'[step']).events).id < outBuffer'.first
          /\ \A i \in position' + 1 .. indexFile'[step'].end : Last(outBuffer'.events).id < dataFile'[i].id
    BY <1>1
  <2>5. QED
    BY <1>1, <1>5, <2>2, <2>3, <2>4 DEF BuffersInOrder, GoodBuffers, GoodBuffer, InOrder
<1>8. NothingLost'
  <2>1. ASSUME NEW s \in 1 .. step' - 1 PROVE Pushed(s)' = AllEvents(given'[s])
    <3>1. s \in 1 .. step - 1 /\ s \in 1 .. step /\ s # step
      BY <1>1, <1>2
    <3>2. pushed'[s] = pushed[s]
      BY <3>1
    <3>3. Pushed(s) = AllEvents(given[s])
      BY <3>1 DEF FileInv, NothingLost, StepsSurvive
    <3>4. QED
      BY <1>1, <3>2, <3>3 DEF Pushed
  <2>2. Pushed(step)' = InBuffers(p[step])
    BY <1>1 DEF Pushed, InBuffers
  <2>3. Pushed(step) \o outBuffer.events = AllEvents(Region(indexFile[step].begin, position))
    BY DEF FileInv, NothingLost
  <2>4. (Region(indexFile[step].begin, position))' = Region(indexFile[step].begin, position + 1)
    BY <1>1 DEF Region
  <2>5. AllEvents(Region(indexFile[step].begin, position))' = AllEvents((Region(indexFile[step].begin, position))')
    BY DEF AllEvents, Events
  <2>6. Pushed(step)' \o outBuffer'.events = AllEvents(Region(indexFile[step].begin, position))'
    BY <1>3, <2>2, <2>3, <2>4, <2>5
  <2>7. QED
    BY <2>1, <2>6 DEF NothingLost, StepsSurvive
<1>9. AbortsAtFull'
  BY DEF AbortsAtFull
<1>10. QED
  BY <1>4, <1>6, <1>7, <1>8, <1>9 DEF FileInv

\* A buffer begun with a frame.
LEMMA FreshBuffer ==
  ASSUME NEW frame, NEW b, frame \in Frame, frame.n # 0, b = [first |-> frame.id, events |-> Events(frame)]
  PROVE  /\ b \in Buffer /\ b # NoBuffer /\ GoodBuffer(b)
         /\ b.first = frame.id /\ b.events = Events(frame) /\ Last(b.events).id = frame.id
<1>1. frame.n \in 1 .. MaxEvents /\ frame.id \in Nat
  BY FrameParts, FileAssumption DEF FileAssumption
<1>2. PICK l \in Seq(Event) : l = Events(frame)
  BY EventsType
<1>3. Len(l) = frame.n /\ \A i \in 1 .. frame.n : l[i].id = frame.id
  BY <1>2, EventsType
<1>4. Len(l) \in 1 .. BlockSize /\ 1 \in 1 .. frame.n /\ frame.n \in 1 .. frame.n
  BY <1>1, <1>3, FileAssumption DEF FileAssumption
<1>5. l[1].id = frame.id /\ Last(l).id = frame.id
  BY <1>3, <1>4 DEF Last
<1>6. b = [first |-> frame.id, events |-> l] /\ b.first = frame.id /\ b.events = l
  BY <1>2
<1>7. b \in Buffer
  BY <1>1, <1>6 DEF Buffer
<1>8. b # NoBuffer
  BY <1>1, <1>6, NoBufferIs
<1>9. QED
  BY <1>2, <1>4, <1>5, <1>6, <1>7, <1>8 DEF GoodBuffer

\* A buffer, and one frame more.
LEMMA FullerBuffer ==
  ASSUME NEW frame, NEW b, NEW c, frame \in Frame, frame.n # 0, c \in Buffer, GoodBuffer(c),
         Len(c.events) + frame.n <= BlockSize, b = [c EXCEPT !.events = @ \o Events(frame)]
  PROVE  /\ b \in Buffer /\ GoodBuffer(b) /\ b.first = c.first
         /\ b.events = c.events \o Events(frame) /\ Last(b.events).id = frame.id
<1>1. frame.n \in 1 .. MaxEvents
  BY FrameParts, FileAssumption DEF FileAssumption
<1>2. PICK l \in Seq(Event) : l = Events(frame)
  BY EventsType
<1>3. Len(l) = frame.n /\ \A i \in 1 .. frame.n : l[i].id = frame.id
  BY <1>2, EventsType
<1>4. PICK k \in Seq(Event) : k = c.events
  BY DEF Buffer
<1>5. Len(k) \in 1 .. BlockSize /\ k[1].id = c.first
  BY <1>4 DEF GoodBuffer
<1>6. PICK q : q = k \o l
  OBVIOUS
<1>7. q \in Seq(Event) /\ Len(q) = Len(k) + Len(l) /\ q[1] = k[1] /\ q[Len(k) + Len(l)] = l[Len(l)]
  <2>1. PICK x \in Nat, y \in Nat : x = Len(k) /\ y = Len(l) /\ x > 0 /\ y > 0
    BY <1>1, <1>3, <1>5
  <2>2. /\ q \in Seq(Event) /\ Len(q) = x + y
        /\ \A i \in 1 .. x + y : q[i] = IF i <= x THEN k[i] ELSE l[i - x]
    BY <1>6, <2>1, ConcatProperties
  <2>3. 1 \in 1 .. x + y /\ 1 <= x /\ x + y \in 1 .. x + y /\ ~(x + y <= x) /\ (x + y) - x = y
    BY <2>1
  <2>4. QED
    BY <2>1, <2>2, <2>3
<1>8. b = [c EXCEPT !.events = q]
  BY <1>2, <1>4, <1>6
<1>9. b \in Buffer /\ b.first = c.first /\ b.events = q
  BY <1>7, <1>8 DEF Buffer
<1>10. Last(q).id = frame.id
  BY <1>1, <1>3, <1>7 DEF Last
<1>11. Len(q) \in 1 .. BlockSize
  BY <1>1, <1>3, <1>4, <1>5, <1>7, FileAssumption DEF FileAssumption
<1>12. QED
  BY <1>2, <1>4, <1>5, <1>6, <1>7, <1>9, <1>10, <1>11 DEF GoodBuffer

LEMMA ReadFrameStep ==
  ASSUME FileInv, ReadFrame
  PROVE  FileInv'
<1>1. PICK frame : frame = dataFile[position + 1]
  OBVIOUS
<1>2. PICK fresh : fresh = (outBuffer = NoBuffer \/ Overflows(frame))
  OBVIOUS
<1>3. /\ Reading /\ position < indexFile[step].end /\ position' = position + 1
      /\ UNCHANGED <<writerVars, aborted, step>> /\ ~aborted
  BY DEF ReadFrame
<1>4. /\ frame \in Frame /\ position \in Nat
      /\ InOrder(given[step]) =>
           \A i \in (position + 1) + 1 .. indexFile[step].end : frame.id < dataFile[i].id
  BY <1>1, <1>3, FrameRead
<1>5. /\ pushed \in Seq(Seq(Buffer)) /\ outBuffer \in Buffer /\ Len(pushed) = step
      /\ step \in 1 .. step /\ step \in Nat
  BY <1>3 DEF FileInv, Types, TypeOK, Reading
<1>6. pushed[step] \in Seq(Buffer) /\ GoodBuffers(pushed[step], InOrder(given[step])) /\ Pushed(step) = InBuffers(pushed[step])
  BY <1>5 DEF FileInv, BuffersInOrder, Pushed, InBuffers
<1>7. PICK P \in Seq(Event), O \in Seq(Event), E \in Seq(Event) :
        P = Pushed(step) /\ O = outBuffer.events /\ E = Events(frame)
  BY <1>4, <1>5, <1>6, EventsIn, EventsType DEF Buffer
<1>8. outBuffer = NoBuffer => pushed[step] = << >> /\ P = << >> /\ O = << >>
  <2>1. outBuffer = NoBuffer => pushed[step] = << >>
    BY <1>5 DEF FileInv, BuffersInOrder
  <2>2. InBuffers(<< >>) = << >>
    BY <1>6, EventsIn
  <2>3. QED
    BY <1>6, <1>7, <2>1, <2>2, NoBufferIs
<1>9. /\ outBuffer # NoBuffer => GoodBuffer(outBuffer)
      /\ outBuffer # NoBuffer /\ InOrder(given[step]) =>
        /\ pushed[step] # << >> => Last(Last(pushed[step]).events).id < outBuffer.first
        /\ \A i \in position + 1 .. indexFile[step].end : Last(outBuffer.events).id < dataFile[i].id
  BY DEF FileInv, BuffersInOrder
<1>10. \A i \in (position + 1) + 1 .. indexFile[step].end : i \in position + 1 .. indexFile[step].end
  BY <1>4
<1>11. CASE frame.n = 0
  <2>1. outBuffer' = outBuffer /\ pushed' = pushed
    BY <1>1, <1>11 DEF ReadFrame
  <2>2. E = << >>
    BY <1>4, <1>7, <1>11, EventsType
  <2>3. (P \o O) \o E = P \o O
    BY <1>7, <2>2, ConcatEmptySeq, ConcatProperties
  <2>4. InBuffers(pushed[step]) \o outBuffer.events = (Pushed(step) \o outBuffer.events) \o Events(frame)
    BY <1>6, <1>7, <2>3
  <2>5. outBuffer = NoBuffer => pushed[step] = << >>
    BY <1>8
  <2>6. /\ outBuffer # NoBuffer => GoodBuffer(outBuffer)
        /\ outBuffer # NoBuffer /\ InOrder(given[step]) =>
          /\ pushed[step] # << >> => Last(Last(pushed[step]).events).id < outBuffer.first
          /\ \A i \in (position + 1) + 1 .. indexFile[step].end : Last(outBuffer.events).id < dataFile[i].id
    BY <1>9, <1>10
  <2>7. \A s \in 1 .. step : s # step => pushed[s] = pushed[s]
    OBVIOUS
  <2>8. QED
    BY <1>1, <1>3, <1>5, <1>6, <2>1, <2>4, <2>5, <2>6, <2>7, FrameTaken
<1>12. CASE frame.n # 0 /\ fresh
  <2>1. PICK b : b = [first |-> frame.id, events |-> Events(frame)]
    OBVIOUS
  <2>2. PICK p : p = IF outBuffer # NoBuffer THEN PushedWith(outBuffer) ELSE pushed
    OBVIOUS
  <2>3. pushed' = p /\ outBuffer' = b
    BY <1>1, <1>2, <1>12, <2>1, <2>2 DEF ReadFrame
  <2>4. /\ b \in Buffer /\ b # NoBuffer /\ GoodBuffer(b)
        /\ b.first = frame.id /\ b.events = Events(frame) /\ Last(b.events).id = frame.id
    BY <1>4, <1>12, <2>1, FreshBuffer
  <2>5. /\ p \in Seq(Seq(Buffer)) /\ Len(p) = step /\ \A s \in 1 .. step : s # step => p[s] = pushed[s]
        /\ GoodBuffers(p[step], InOrder(given[step])) /\ InBuffers(p[step]) = P \o O
        /\ InOrder(given[step]) /\ p[step] # << >> => Last(Last(p[step]).events).id < frame.id
    <3>1. CASE outBuffer = NoBuffer
      <4>1. p = pushed /\ P \o O = P
        BY <1>8, <2>2, <3>1, ConcatEmptySeq
      <4>2. QED
        BY <1>5, <1>6, <1>7, <1>8, <3>1, <4>1
    <3>2. CASE outBuffer # NoBuffer
      <4>1. p = PushedWith(outBuffer)
        BY <2>2, <3>2
      <4>2. /\ p \in Seq(Seq(Buffer)) /\ Len(p) = step
            /\ \A s \in 1 .. step : s # step => p[s] = pushed[s]
            /\ GoodBuffers(p[step], InOrder(given[step])) /\ Last(p[step]) = outBuffer
            /\ InBuffers(p[step]) = Pushed(step) \o outBuffer.events
        BY <3>2, <4>1, BufferPushed
      <4>3. InOrder(given[step]) => Last(outBuffer.events).id < frame.id
        <5>1. position + 1 \in position + 1 .. indexFile[step].end
          <6>1. indexFile[step].end \in Nat
            BY <1>3, IndexedRegion DEF Reading
          <6>2. QED
            BY <1>3, <1>4, <6>1
        <5>2. QED
          BY <1>1, <1>9, <3>2, <5>1
      <4>4. QED
        BY <1>7, <4>2, <4>3
    <3>3. QED
      BY <3>1, <3>2
  <2>6. InBuffers(p[step]) \o b.events = (Pushed(step) \o outBuffer.events) \o Events(frame)
    BY <1>7, <2>4, <2>5
  <2>7. /\ b # NoBuffer => GoodBuffer(b)
        /\ b # NoBuffer /\ InOrder(given[step]) =>
          /\ p[step] # << >> => Last(Last(p[step]).events).id < b.first
          /\ \A i \in (position + 1) + 1 .. indexFile[step].end : Last(b.events).id < dataFile[i].id
    BY <1>4, <2>4, <2>5
  <2>8. QED
    BY <1>1, <1>3, <2>3, <2>4, <2>5, <2>6, <2>7, FrameTaken
<1>13. CASE frame.n # 0 /\ ~fresh
  <2>1. PICK b : b = [outBuffer EXCEPT !.events = @ \o Events(frame)]
    OBVIOUS
  <2>2. pushed' = pushed /\ outBuffer' = b
    BY <1>1, <1>2, <1>13, <2>1 DEF ReadFrame
  <2>3. outBuffer # NoBuffer /\ Len(outBuffer.events) + frame.n <= BlockSize
    <3>1. outBuffer # NoBuffer /\ ~(Len(outBuffer.events) + frame.n > BlockSize)
      BY <1>2, <1>13 DEF Overflows
    <3>2. Len(outBuffer.events) \in Nat /\ frame.n \in Nat
      BY <1>4, <1>7, FrameParts
    <3>3. QED
      BY <3>1, <3>2, FileAssumption DEF FileAssumption
  <2>4. /\ b \in Buffer /\ GoodBuffer(b) /\ b.first = outBuffer.first
        /\ b.events = outBuffer.events \o Events(frame) /\ Last(b.events).id = frame.id
    <3>1. GoodBuffer(outBuffer)
      BY <1>9, <2>3
    <3>2. QED
      BY <1>4, <1>5, <1>13, <2>1, <2>3, <3>1, FullerBuffer
  <2>5. b # NoBuffer
    <3>1. b.events # << >>
      BY <2>4 DEF GoodBuffer
    <3>2. QED
      BY <3>1, NoBufferIs
  <2>6. InBuffers(pushed[step]) \o b.events = (Pushed(step) \o outBuffer.events) \o Events(frame)
    <3>1. P \o (O \o E) = (P \o O) \o E
      BY ConcatAssociative
    <3>2. QED
      BY <1>6, <1>7, <2>4, <3>1
  <2>7. /\ b # NoBuffer => GoodBuffer(b)
        /\ b # NoBuffer /\ InOrder(given[step]) =>
          /\ pushed[step] # << >> => Last(Last(pushed[step]).events).id < b.first
          /\ \A i \in (position + 1) + 1 .. indexFile[step].end : Last(b.events).id < dataFile[i].id
    BY <1>4, <1>9, <2>3, <2>4
  <2>8. b = NoBuffer => pushed[step] = << >>
    BY <2>5
  <2>9. \A s \in 1 .. step : s # step => pushed[s] = pushed[s]
    OBVIOUS
  <2>10. QED
    BY <1>1, <1>3, <1>5, <1>6, <2>2, <2>4, <2>6, <2>7, <2>8, <2>9, FrameTaken
<1>14. QED
  BY <1>2, <1>11, <1>12, <1>13

\* What holds of the files and the buffers does not depend on the assertion.
LEMMA ReaderStays ==
  ASSUME FileInv, UNCHANGED writerVars, step' = step, position' = position, outBuffer' = outBuffer,
         pushed' = pushed, aborted' \in BOOLEAN, AbortsAtFull'
  PROVE  FileInv'
<1>1. given' = given /\ dataFile' = dataFile /\ indexFile' = indexFile
  BY DEF writerVars
<1>2. (TypeOK /\ Types /\ EveryFrameCounted /\ StepBegun /\ RegionsHold)'
  <2>1. /\ position \in 0 .. Len(dataFile) /\ outBuffer \in Buffer /\ pushed \in Seq(Seq(Buffer))
        /\ Len(pushed) = step
    BY DEF FileInv, TypeOK, Types
  <2>2. step \in 0 .. Len(indexFile) + 1
    <3>1. indexFile \in Seq(IndexEntry) /\ step \in Nat /\ step <= Len(indexFile) + 1
      BY FileAssumption DEF FileInv, TypeOK, Types, FileAssumption
    <3>2. QED
      BY <3>1
  <2>3. QED
    BY <1>1, <2>1, <2>2, ReaderKeepsWriter
<1>3. (InRegion /\ BuffersInOrder)'
  BY <1>1 DEF FileInv, InRegion, BuffersInOrder, Reading, GoodBuffers, GoodBuffer, InOrder
<1>4. NothingLost'
  BY <1>1 DEF FileInv, NothingLost, StepsSurvive, Pushed, AllEvents, Events, Region, Reading
<1>5. QED
  BY <1>2, <1>3, <1>4 DEF FileInv

\* The assertion fails, and nothing is read after it.
LEMMA FailAssertionStep ==
  ASSUME FileInv, FailAssertion
  PROVE  FileInv'
<1>1. /\ Reading /\ position < indexFile[step].end /\ Full(dataFile[position + 1]) /\ aborted' = TRUE
      /\ UNCHANGED writerVars /\ step' = step /\ position' = position /\ outBuffer' = outBuffer
      /\ pushed' = pushed
  BY DEF FailAssertion
<1>2. AbortsAtFull'
  BY <1>1 DEF AbortsAtFull, Reading, Full, writerVars
<1>3. QED
  BY <1>1, <1>2, ReaderStays

----------------------------------------------------------------------------
(* The theorems. *)

LEMMA InitInv == Init => FileInv
<1> SUFFICES ASSUME Init PROVE FileInv
  OBVIOUS
<1> USE DEF Init
<1>1. Len(given) = 1 /\ given[1] = << >> /\ Len(indexFile) = 0 /\ Len(dataFile) = 0
  OBVIOUS
<1>2. << >> \in Seq(Frame) /\ given \in Seq(Seq(Frame))
  OBVIOUS
<1>3. TypeOK
  <2>1. \A x \in Range(dataFile) : x \in Frame
    BY <1>1, <1>2, TypeOfFile
  <2>2. \A n \in 1 .. Len(indexFile) : FALSE
    BY <1>1
  <2>3. 1 \in 1 .. MaxSteps + 1 /\ -1 \in -1 .. MaxFrameID /\ 0 \in 0 .. MaxSteps + 1
    BY FileAssumption DEF FileAssumption
  <2>4. aborted \in BOOLEAN /\ closing \in BOOLEAN /\ stepAllFrames \in Nat
    OBVIOUS
  <2> HIDE DEF Init
  <2>5. /\ stepStartOffset = 0 /\ position = 0 /\ step = 0 /\ Len(pushed) = 0
        /\ lastFrameID = -1 /\ stepFirstFrameID = -1 /\ lastFrameType = "UNKNOWN"
    BY DEF Init
  <2>6. QED
    BY <1>1, <2>1, <2>2, <2>3, <2>4, <2>5 DEF TypeOK
<1>4. Types
  BY <1>1, <1>2, NoBufferIs DEF Types
<1>5. EveryFrameCounted
  BY DEF EveryFrameCounted
<1>6. StepBegun
  BY <1>1 DEF StepBegun, Last
<1>7. RegionsHold
  <2>1. Region(0, 0) = << >>
    <3>1. dataFile \in Seq(Frame) /\ 0 <= 0 /\ 0 <= Len(dataFile)
      BY <1>1, <1>2
    <3>2. SubSeq(dataFile, 0 + 1, 0) = << >>
      BY <3>1, RegionType
    <3>3. QED
      BY <3>2 DEF Region
  <2>2. (\A n \in 1 .. Len(indexFile) : FALSE) /\ \A i \in 1 .. 0 : FALSE
    BY <1>1
  <2>3. AllEvents(Region(stepStartOffset, Len(dataFile))) = AllEvents(given[Len(given)])
    BY <1>1, <2>1
  <2>4. QED
    BY <1>1, <2>2, <2>3 DEF RegionsHold, Ascending
<1>8. ~Reading
  BY DEF Reading
<1>9. InRegion
  BY <1>8 DEF InRegion
<1>10. BuffersInOrder
  BY DEF BuffersInOrder
<1>11. NothingLost
  BY <1>8 DEF NothingLost, StepsSurvive
<1>12. AbortsAtFull
  BY DEF AbortsAtFull
<1>13. QED
  BY <1>3, <1>4, <1>5, <1>6, <1>7, <1>9, <1>10, <1>11, <1>12 DEF FileInv

LEMMA Stutters ==
  ASSUME FileInv, UNCHANGED vars
  PROVE  FileInv'
<1>1. /\ UNCHANGED writerVars /\ step' = step /\ position' = position /\ outBuffer' = outBuffer
      /\ pushed' = pushed /\ aborted' = aborted
  BY DEF vars, readerVars
<1>2. AbortsAtFull'
  BY <1>1 DEF FileInv, AbortsAtFull, Reading, Full, writerVars
<1>3. QED
  BY <1>1, <1>2, ReaderStays DEF FileInv, TypeOK

\* The inductive invariant holds however many blocks, frames and steps are written.
THEOREM FileInvariant == Spec => []FileInv
<1>1. Init => FileInv
  BY InitInv
<1>2. FileInv /\ [Next]_vars => FileInv'
  BY WriteFrameStep, EndOfStepStep, OpenFileStep, ReadFrameStep, FailAssertionStep,
     FinishStepStep, Stutters DEF Next
<1>3. QED
  BY <1>1, <1>2, PTL DEF Spec

\* The index cuts the data file into its steps with nothing between them, and
\* write_raw's report counts every frame ID of a step once (the main
\* loop of write_raw).
THEOREM FilesRight == Spec => []FilesAgree
<1>1. FileInv => FilesAgree
  BY DEF FileInv, FilesAgree
<1>2. QED
  BY <1>1, FileInvariant, PTL

\* What RawReader pushes for a step it finishes is every event of every frame
\* write_raw was given for it, once, in order, whatever frames were left out or
\* marked; and it finishes a step unless a frame given for it fills its slot,
\* for which its assertion fails (RawReader::processStep).
THEOREM EventsKept == Spec => []EventsSurvive
<1>1. FileInv => EventsSurvive
  <2> SUFFICES ASSUME FileInv PROVE EventsSurvive
    OBVIOUS
  <2>2. \A s \in 1 .. step - 1 : Pushed(s) = AllEvents(given[s])
    BY DEF FileInv, NothingLost, StepsSurvive
  <2>3. ASSUME aborted PROVE \E frame \in Range(given[step]) : Full(frame)
    <3>1. Reading /\ position < indexFile[step].end /\ Full(dataFile[position + 1])
      BY <2>3 DEF FileInv, AbortsAtFull
    <3>2. step \in 1 .. Len(indexFile)
      BY <3>1 DEF Reading
    <3>3. position + 1 \in indexFile[step].begin + 1 .. indexFile[step].end
      <4>1. position \in indexFile[step].begin .. indexFile[step].end
        BY <3>1 DEF FileInv, InRegion
      <4>2. QED
        BY <3>1, <3>2, <4>1, IndexedRegion
    <3>4. dataFile[position + 1].n # 0
      BY <3>1 DEF Full
    <3>5. dataFile[position + 1] \in Range(given[step])
      BY <3>2, <3>3, <3>4 DEF FileInv, RegionsHold
    <3>6. QED
      BY <3>1, <3>5
  <2>4. QED
    BY <2>2, <2>3 DEF EventsSurvive
<1>2. QED
  BY <1>1, FileInvariant, PTL

\* Buffers hold whole frames, and no more events than a block.
LEMMA GoodBuffersAreWhole ==
  ASSUME FileInv
  PROVE  BuffersHoldWholeFrames
<1>1. SUFFICES ASSUME NEW s \in 1 .. step - 1, NEW i \in 1 .. Len(pushed[s])
               PROVE  /\ Len(pushed[s][i].events) \in 1 .. BlockSize
                      /\ Head(pushed[s][i].events).id = pushed[s][i].first
                      /\ i > 1 /\ InOrder(given[s]) => Last(pushed[s][i - 1].events).id < Head(pushed[s][i].events).id
  BY DEF BuffersHoldWholeFrames
<1>2. pushed \in Seq(Seq(Buffer)) /\ Len(pushed) = step /\ step \in Nat
  BY DEF FileInv, Types, TypeOK
<1>3. s \in 1 .. step /\ pushed[s] \in Seq(Buffer)
  BY <1>2
<1>4. GoodBuffers(pushed[s], InOrder(given[s]))
  BY <1>3 DEF FileInv, BuffersInOrder
<1>5. PICK l \in Seq(Buffer) : l = pushed[s]
  BY <1>3
<1>6. l[i].events \in Seq(Event) /\ i \in Nat /\ Len(l) \in Nat
  <2>1. i \in 1 .. Len(l) /\ Len(l) \in Nat
    BY <1>5
  <2>2. l[i] \in Buffer
    BY <2>1
  <2>3. QED
    BY <2>1, <2>2 DEF Buffer
<1>7. GoodBuffer(l[i]) /\ (i > 1 /\ InOrder(given[s]) => Last(l[i - 1].events).id < l[i].first)
  BY <1>4, <1>5, <1>6 DEF GoodBuffers
<1>8. Head(l[i].events) = l[i].events[1]
  BY <1>6
<1>9. QED
  BY <1>5, <1>7, <1>8 DEF GoodBuffer

\* The groupers never see a frame in two pieces, nor a buffer longer than a block.
THEOREM WholeFrames == Spec => []BuffersHoldWholeFrames
<1>1. FileInv => BuffersHoldWholeFrames
  BY GoodBuffersAreWhole
<1>2. QED
  BY <1>1, FileInvariant, PTL

===============================================================================
