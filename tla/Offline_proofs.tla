--------------------------- MODULE Offline_proofs ---------------------------
(***************************************************************************)
(* Proofs about what is done after the run. Calibration: the inductive     *)
(* invariant, and what follows from it for any numbers of ASICs, channels, *)
(* converters and processes. OfflinePrograms: for any files, the events of *)
(* the chips are what lies between two gaps, each has the reading of its   *)
(* own trigger where the times can be compared, none of those both sides   *)
(* saw is missed and none is given twice; the events of a digitizer file   *)
(* are begun ever further on in it, and its rows are the events that came  *)
(* whole, each with a track, samples and times of its own. The handling of *)
(* a block of hits is in Channels_proofs.                                  *)
(***************************************************************************)
EXTENDS Calibration, OfflinePrograms, FiniteSetTheorems, WellFoundedInduction, TLAPS

----------------------------------------------------------------------------
(* Calibration *)

Busy == {w \in Worker : worker[w] # NoWorker}
RunsOn(w, a) == worker[w].asic = a /\ w \in Running

\* What the table has to hold for ASIC a.
Expected(a) == {x \in fits[a] : tool = "tdc" => {x[1]} \X Tac \subseteq fits[a]}

\* Offsets x moved by y, in either branch.
Moved(x, y) == [b \in Branch |-> x[b] + y[b]]

WorkerRecord ==
  [asic : Asic \cup {-1},
   pc : {"none", "fit", "measure", "correct", "zero", "exit", "zombie"},
   iter : Nat, found : [Branch -> Int], ahead : Seq(Asic)]

Types ==
  /\ tool \in {"tdc", "qdc"} /\ maxWorkers \in Nat /\ forkFailures \in Nat
  /\ events \subseteq Asic /\ fits \in [Asic -> SUBSET Converter]
  /\ list \in Seq(Asic) /\ Len(list) <= Cardinality(Asic) /\ ahead \in Seq(Asic)
  /\ worker \in [Worker -> WorkerRecord]
  /\ pc = "fork" => asic \in ToSet(list)
  /\ \A w \in Worker :
       /\ worker[w].pc = "none" <=> worker[w] = NoWorker
       /\ w \in Running => worker[w].asic \in ToSet(list)
       /\ worker[w].pc \in {"measure", "correct", "zero"} => tool = "tdc"
       /\ worker[w].pc = "fit" => worker[w].iter = 0

\* Before the first line of the list is read.
Unread ==
  /\ pc \in {"sort", "list"} /\ offset = 0 /\ nFiles = 0 /\ ahead = << >> /\ eof = FALSE
  /\ Busy = {} /\ forkFailures = 0 /\ valid = [a \in Asic |-> {}]
  /\ pc = "sort" => list = << >>

SortFirst == pc = "sort" => Unread

\* A place for the next worker is free when its line is read.
PlaceFree == pc \in {"list", "fork"} => nWorkers < Max({maxWorkers, 1})

\* The table is adjusted and written by the parent alone, when it has forked all.
Alone == pc \in {"adjust", "write", "delete", "done"} => Busy = {} /\ forkFailures = 0

\* Until a worker gives lines back, a data file is opened once for each line.
OneFileEach ==
  ~rewound => \/ Unread
              \/ /\ offset = Len(list)
                 /\ nFiles + (IF pc = "fork" THEN 1 ELSE 0) + Len(ahead) <= Len(list)

\* No line is lost: an ASIC of the list is to be read, has a worker, is in the
\* table, or lost its worker, unless one could not be forked.
NoneForgotten ==
  Unread \/ pc = "failed" \/ forkFailures > 0 \/ \A a \in ToSet(list) :
    \/ pc \in {"list", "fork", "wait"} /\ a \in ToSet(ahead)
    \/ pc = "fork" /\ asic = a
    \/ a \in died
    \/ \E w \in Worker : RunsOn(w, a)
    \/ valid[a] = Expected(a)

\* What the workers have put into the table.
TableSoFar ==
  \A a \in Asic :
    /\ a \notin ToSet(list) => valid[a] = {}
    /\ a \notin died =>
         /\ valid[a] \in {{}, fits[a], Expected(a)}
         /\ \A w \in Worker :
              worker[w].asic = a /\ worker[w].pc \in {"measure", "correct", "zero", "exit"}
                => valid[a] \in {fits[a], Expected(a)}
         /\ (\A w \in Worker : worker[w].asic = a =>
               worker[w].pc \notin {"measure", "correct", "zero"})
              => valid[a] \in {{}, Expected(a)}

\* The offset of an ASIC that no two workers had at once, while one measures it and
\* after.
OffsetSoFar ==
  \A a \in Asic \ (died \cup shared) :
    /\ \A v, w \in Worker : RunsOn(v, a) /\ RunsOn(w, a) => v = w
    /\ \A w \in Worker : worker[w].asic = a =>
         /\ worker[w].pc = "measure" /\ worker[w].iter # 0 => t0[a] = TrueT0(a)
         /\ worker[w].pc = "correct" => Moved(t0[a], worker[w].found) = TrueT0(a)
         /\ worker[w].pc = "zero" => t0[a] = TrueT0(a)
         /\ worker[w].pc = "exit" /\ tool = "tdc" => t0[a] = TrueT0(a)
    /\ /\ tool = "tdc" /\ pc \notin {"write", "delete", "done"} /\ valid[a] # {}
       /\ \A w \in Worker : ~RunsOn(w, a)
       => t0[a] = TrueT0(a)

\* The adjustment moves all offsets of a branch by one number.
Shifted(a, s) == [b \in Branch |-> NValid(b) * TrueT0(a)[b] - s[b]]
AdjustedBy(s) == \A a \in Asic \ (died \cup shared) : valid[a] # {} => t0[a] = Shifted(a, s)
Adjusted ==
  tool = "tdc" /\ pc \in {"write", "delete", "done"} => \E s \in [Branch -> Int] : AdjustedBy(s)

Written ==
  output # NoOutput => /\ pc \in {"delete", "done"}
                       /\ output = [valid |-> valid, t0 |-> t0, unit |-> [b \in Branch |-> NValid(b)]]

CalibInv ==
  /\ TypeOK /\ Types /\ SortFirst /\ PlaceFree /\ Alone /\ OneFileEach /\ NoneForgotten
  /\ TableSoFar /\ OffsetSoFar /\ Adjusted /\ Written /\ FailsOnlyAfterRewind

----------------------------------------------------------------------------
(* Sums. The recursion of the library's fold is over sets that get smaller. *)

\* Every set of subsets of a finite set has a smallest one.
LEMMA SmallestOf ==
  ASSUME NEW S, IsFiniteSet(S), NEW T \in SUBSET (SUBSET S), T # {}
  PROVE  \E x \in T : \A y \in T : y \subseteq x => y = x
<1>1. IsWellFoundedOn(StrictSubsetOrdering(S), FiniteSubsetsOf(S))
  BY FS_StrictSubsetOrderingWellFounded
<1>2. T \subseteq FiniteSubsetsOf(S)
  BY FS_Subset DEF FiniteSubsetsOf
<1>3. \E x \in T : \A y \in T : ~(<<y, x>> \in StrictSubsetOrdering(S))
  BY <1>1, <1>2, WFMin
<1>4. QED
  BY <1>2, <1>3, Zenon DEF StrictSubsetOrdering, FiniteSubsetsOf

\* A set of numbers up to N has one that does not follow another of the set.
LEMMA LeastOf ==
  ASSUME NEW N \in Nat, NEW P \in SUBSET (0 .. N), P # {}
  PROVE  \E k \in P : k = 0 \/ k - 1 \notin P
<1> DEFINE T == {x \in SUBSET (0 .. N) : \E k \in P : x = 0 .. k}
<1>0. ASSUME NEW k \in P PROVE 0 .. k \in T
  OBVIOUS
<1>1. T # {} /\ T \in SUBSET (SUBSET (0 .. N))
  BY <1>0, Zenon
<1>2. IsFiniteSet(0 .. N)
  BY FS_Interval
<1>3. \E x \in T : \A y \in T : y \subseteq x => y = x
  <2>1. PICK S : S = 0 .. N
    OBVIOUS
  <2> HIDE DEF T
  <2>2. IsFiniteSet(S) /\ T # {} /\ T \in SUBSET (SUBSET S)
    BY <1>1, <1>2, <2>1
  <2>3. QED
    BY <2>2, SmallestOf
<1>4. PICK k \in P : \A j \in P : 0 .. j \subseteq 0 .. k => 0 .. j = 0 .. k
  BY <1>0, <1>3, Zenon
<1>5. ASSUME k # 0, k - 1 \in P PROVE FALSE
  <2>1. k \in 1 .. N
    BY <1>5
  <2>2. 0 .. (k - 1) \subseteq 0 .. k /\ 0 .. (k - 1) # 0 .. k
    BY <2>1
  <2>3. QED
    BY <1>4, <1>5, <2>2
<1>6. QED
  BY <1>5

\* The sums of f over the subsets of S in D, an element at a time.
One(s) == CHOOSE x \in s : TRUE
Sums(f, D) == {g \in [D -> Int] :
                 \A s \in D : g[s] = IF s = {} THEN 0 ELSE f[One(s)] + g[s \ {One(s)}]}
UpTo(S, n) == {s \in SUBSET S : Cardinality(s) <= n}

LEMMA SumsStep ==
  ASSUME NEW S, IsFiniteSet(S), NEW f \in [S -> Int], NEW n \in Nat,
         NEW g \in Sums(f, UpTo(S, n))
  PROVE  Sums(f, UpTo(S, n + 1)) # {}
<1> DEFINE h == [s \in UpTo(S, n + 1) |-> IF s = {} THEN 0 ELSE f[One(s)] + g[s \ {One(s)}]]
<1>1. ASSUME NEW s \in UpTo(S, n + 1), s # {}
      PROVE  One(s) \in S /\ s \ {One(s)} \in UpTo(S, n)
  <2>1. One(s) \in s /\ s \subseteq S
    BY <1>1 DEF One, UpTo
  <2>2. IsFiniteSet(s) /\ Cardinality(s) \in Nat /\ Cardinality(s) <= n + 1
    BY <2>1, FS_Subset, FS_CardinalityType DEF UpTo
  <2>3. Cardinality(s \ {One(s)}) = Cardinality(s) - 1
    BY <2>1, <2>2, FS_RemoveElement, Zenon
  <2>4. Cardinality(s \ {One(s)}) <= n
    BY <2>2, <2>3
  <2>5. QED
    BY <2>1, <2>4 DEF UpTo
<1>2. h \in [UpTo(S, n + 1) -> Int]
  BY <1>1 DEF Sums
<1>3. ASSUME NEW s \in UpTo(S, n)
      PROVE  s \in UpTo(S, n + 1) /\ h[s] = g[s]
  <2>1. s \subseteq S /\ Cardinality(s) \in Nat /\ Cardinality(s) <= n
    BY FS_Subset, FS_CardinalityType DEF UpTo
  <2>2. s \in UpTo(S, n + 1)
    BY <2>1 DEF UpTo
  <2>3. QED
    BY <2>2 DEF Sums
<1>4. ASSUME NEW s \in UpTo(S, n + 1)
      PROVE  h[s] = IF s = {} THEN 0 ELSE f[One(s)] + h[s \ {One(s)}]
  <2>1. CASE s = {}
    BY <2>1
  <2>2. CASE s # {}
    <3>1. h[s \ {One(s)}] = g[s \ {One(s)}]
      BY <1>1, <1>3, <2>2, Zenon
    <3>2. h[s] = f[One(s)] + g[s \ {One(s)}]
      BY <2>2
    <3>3. QED
      BY <2>2, <3>1, <3>2
  <2>3. QED
    BY <2>1, <2>2
<1>5. h \in Sums(f, UpTo(S, n + 1))
  <2> HIDE DEF h
  <2> QED BY <1>2, <1>4 DEF Sums
<1>6. QED
  BY <1>5

LEMMA SumsExist ==
  ASSUME NEW S, IsFiniteSet(S), NEW f \in [S -> Int]
  PROVE  Sums(f, SUBSET S) # {}
<1> DEFINE N == Cardinality(S)
           Bad == {n \in 0 .. N : Sums(f, UpTo(S, n)) = {}}
<1>0. N \in Nat
  BY FS_CardinalityType
<1>1. UpTo(S, 0) = {{}}
  <2>1. {} \in UpTo(S, 0)
    BY FS_EmptySet DEF UpTo
  <2>2. ASSUME NEW s \in UpTo(S, 0) PROVE s = {}
    BY FS_Subset, FS_CardinalityType, FS_EmptySet DEF UpTo
  <2>3. QED
    BY <2>1, <2>2
<1>2. Sums(f, UpTo(S, 0)) # {}
  <2>1. [s \in {{}} |-> 0] \in Sums(f, {{}})
    BY DEF Sums
  <2>2. QED
    BY <1>1, <2>1
<1>3. ASSUME Sums(f, UpTo(S, N)) = {} PROVE FALSE
  <2>1. N \in Bad
    BY <1>0, <1>3
  <2>2. PICK k \in Bad : k = 0 \/ k - 1 \notin Bad
    BY <1>0, <2>1, LeastOf, Zenon
  <2>3. k \in 0 .. N /\ Sums(f, UpTo(S, k)) = {}
    BY <2>2
  <2>4. k # 0
    BY <1>2, <2>3
  <2>5. k - 1 \in Nat /\ k - 1 \in 0 .. N /\ (k - 1) + 1 = k
    BY <1>0, <2>3, <2>4
  <2>6. Sums(f, UpTo(S, k - 1)) # {}
    BY <2>2, <2>4, <2>5
  <2>7. Sums(f, UpTo(S, (k - 1) + 1)) # {}
    BY <2>5, <2>6, SumsStep
  <2>8. QED
    BY <2>3, <2>5, <2>7
<1>4. UpTo(S, N) = SUBSET S
  BY <1>0, FS_Subset, FS_CardinalityType DEF UpTo
<1>5. QED
  BY <1>3, <1>4, Zenon

\* A sum of integers is an integer.
LEMMA SumType ==
  ASSUME NEW S, IsFiniteSet(S), NEW f \in [S -> Int]
  PROVE  SumFunction(f) \in Int
<1> DEFINE R(iter) == iter = [s \in SUBSET S |-> IF s = {} THEN 0 ELSE f[CHOOSE x \in s : TRUE] + iter[s \ {CHOOSE x \in s : TRUE}]]
           iter == CHOOSE i : R(i)
<1>1. SumFunction(f) = iter[S]
  BY DEF SumFunction, SumFunctionOnSet, FoldFunctionOnSet, MapThenFoldSet
<1>2. PICK g \in Sums(f, SUBSET S) : TRUE
  BY SumsExist
<1>3. R(g)
  BY <1>2 DEF Sums, One
<1>4. R(iter)
  BY <1>3, Zenon
<1> DEFINE Bad == {s \in SUBSET S : iter[s] \notin Int}
<1> HIDE DEF iter
<1>5. Bad = {}
  <2>1. SUFFICES ASSUME Bad # {} PROVE FALSE
    OBVIOUS
  <2> HIDE DEF Bad, R
  <2>2. Bad \in SUBSET (SUBSET S)
    BY DEF Bad
  <2>3. PICK s \in Bad : \A y \in Bad : y \subseteq s => y = s
    BY <2>1, <2>2, SmallestOf
  <2> DEFINE c == CHOOSE x \in s : TRUE
  <2>4. s \in SUBSET S /\ iter[s] \notin Int
    BY DEF Bad
  <2>5. iter[s] = IF s = {} THEN 0 ELSE f[c] + iter[s \ {c}]
    BY <1>4, <2>4 DEF R
  <2>6. s # {}
    BY <2>4, <2>5
  <2>7. c \in s
    BY <2>6
  <2> HIDE DEF c
  <2>8. s \ {c} \notin Bad
    BY <2>3, <2>7
  <2>9. iter[s \ {c}] \in Int
    BY <2>4, <2>8 DEF Bad
  <2>10. f[c] \in Int
    BY <2>4, <2>7
  <2>11. QED
    BY <2>4, <2>5, <2>6, <2>9, <2>10
<1>6. QED
  BY <1>1, <1>5

----------------------------------------------------------------------------
(* The pieces of the state. *)

LEMMA MaxOf ==
  ASSUME NEW n \in Nat
  PROVE  Max({n, 1}) \in Nat /\ Max({n, 1}) >= n /\ Max({n, 1}) >= 1
<1>1. \E x \in {n, 1} : \A y \in {n, 1} : x >= y
  OBVIOUS
<1>2. QED
  BY <1>1 DEF Max

LEMMA BusyCount ==
  ASSUME NEW S \in SUBSET Worker
  PROVE  IsFiniteSet(S) /\ Cardinality(S) \in Nat /\ (Cardinality(S) = 0 <=> S = {})
BY CalibrationAssumption, FS_Subset, FS_CardinalityType, FS_EmptySet DEF CalibrationAssumption

LEMMA ToSetType ==
  ASSUME NEW S, NEW l \in Seq(S) PROVE ToSet(l) \subseteq S
BY DEF ToSet

LEMMA EmptyToSet ==
  ASSUME NEW S, NEW l \in Seq(S), Len(l) = 0 PROVE ToSet(l) = {}
<1>1. DOMAIN l = {}
  OBVIOUS
<1>2. QED
  BY <1>1 DEF ToSet

LEMMA ToSetSplit ==
  ASSUME NEW S, NEW l \in Seq(S), l # << >>
  PROVE  /\ Head(l) \in S /\ Tail(l) \in Seq(S) /\ Len(Tail(l)) = Len(l) - 1
         /\ ToSet(l) = {Head(l)} \cup ToSet(Tail(l))
<1>1. Head(l) = l[1] /\ Tail(l) \in Seq(S) /\ Len(l) \in Nat /\ Len(l) # 0 /\ Len(Tail(l)) = Len(l) - 1
  OBVIOUS
<1>2. \A i \in 1 .. Len(l) - 1 : Tail(l)[i] = l[i + 1]
  OBVIOUS
<1>3. ASSUME NEW i \in 1 .. Len(l) PROVE l[i] \in {Head(l)} \cup ToSet(Tail(l))
  <2>1. CASE i = 1
    BY <1>1, <2>1
  <2>2. CASE i # 1
    <3>1. i - 1 \in 1 .. Len(l) - 1 /\ Tail(l)[i - 1] = l[i]
      BY <1>1, <1>2, <2>2
    <3>2. DOMAIN Tail(l) = 1 .. Len(l) - 1
      BY <1>1
    <3>3. QED
      BY <3>1, <3>2, Zenon DEF ToSet
  <2>3. QED
    BY <2>1, <2>2
<1>4. ASSUME NEW x \in {Head(l)} \cup ToSet(Tail(l)) PROVE x \in ToSet(l)
  <2>1. CASE x = Head(l)
    BY <1>1, <2>1 DEF ToSet
  <2>2. CASE x \in ToSet(Tail(l))
    <3>1. PICK i \in 1 .. Len(l) - 1 : x = Tail(l)[i]
      BY <1>1, <2>2 DEF ToSet
    <3>2. i + 1 \in 1 .. Len(l) /\ x = l[i + 1]
      BY <1>1, <1>2, <3>1
    <3>3. QED
      BY <1>1, <3>2 DEF ToSet
  <2>3. QED
    BY <1>4, <2>1, <2>2
<1>5. Head(l) \in S
  BY <1>1
<1>6. ToSet(l) \subseteq {Head(l)} \cup ToSet(Tail(l))
  BY <1>1, <1>3 DEF ToSet
<1>7. QED
  BY <1>1, <1>4, <1>5, <1>6

LEMMA RestType ==
  ASSUME NEW S, NEW l \in Seq(S), NEW n \in 0 .. Len(l)
  PROVE  /\ SubSeq(l, n + 1, Len(l)) \in Seq(S)
         /\ Len(SubSeq(l, n + 1, Len(l))) = Len(l) - n
         /\ ToSet(SubSeq(l, n + 1, Len(l))) \subseteq ToSet(l)
         /\ n = 0 => SubSeq(l, n + 1, Len(l)) = l
<1> DEFINE r == SubSeq(l, n + 1, Len(l))
<1>1. r \in Seq(S) /\ Len(r) = Len(l) - n
  OBVIOUS
<1>2. \A i \in 1 .. Len(l) - n : r[i] = l[n + i]
  OBVIOUS
<1>3. ToSet(r) \subseteq ToSet(l)
  BY <1>1, <1>2 DEF ToSet
<1>4. ASSUME n = 0 PROVE r = l
  BY <1>4
<1>5. QED
  BY <1>1, <1>3, <1>4

LEMMA ExpectedFacts ==
  ASSUME Types, TypeOK, NEW a \in Asic
  PROVE  /\ Expected(a) \subseteq fits[a] /\ fits[a] \subseteq Converter
         /\ Expected(a) \cup fits[a] = fits[a] /\ {} \cup fits[a] = fits[a]
         /\ fits[a] \cup fits[a] = fits[a]
         /\ tool = "qdc" => Expected(a) = fits[a]
         /\ tool = "tdc" => /\ WholeChannels(fits[a]) = Expected(a)
                            /\ WholeChannels(Expected(a)) = Expected(a)
<1>1. fits[a] \subseteq Converter /\ Expected(a) \subseteq fits[a]
  BY DEF Types, Expected
<1>2. ASSUME tool = "tdc" PROVE WholeChannels(fits[a]) = Expected(a)
  BY <1>2 DEF Expected, WholeChannels
<1>3. ASSUME tool = "tdc" PROVE WholeChannels(Expected(a)) = Expected(a)
  BY <1>1, <1>3 DEF Expected, WholeChannels, Converter
<1>4. ASSUME tool = "qdc" PROVE Expected(a) = fits[a]
  BY <1>4 DEF Expected
<1>5. QED
  BY <1>1, <1>2, <1>3, <1>4

\* What the passes over the data find.
LEMMA TrueT0Type ==
  ASSUME NEW a \in Asic
  PROVE  TrueT0(a) \in [Branch -> Int]
BY CalibrationAssumption DEF CalibrationAssumption, TrueT0, Branch

LEMMA NoT0Type == NoT0 \in [Branch -> Int]
BY DEF NoT0

LEMMA MovedType ==
  ASSUME NEW x \in [Branch -> Int], NEW y \in [Branch -> Int]
  PROVE  Moved(x, y) \in [Branch -> Int]
BY DEF Moved

LEMMA ResidualMoves ==
  ASSUME NEW a \in Asic, t0[a] \in [Branch -> Int]
  PROVE  Residual(a) \in [Branch -> Int] /\ Moved(t0[a], Residual(a)) = TrueT0(a)
<1>1. TrueT0(a) \in [Branch -> Int]
  BY TrueT0Type
<1>2. \A b \in Branch : t0[a][b] + (TrueT0(a)[b] - t0[a][b]) = TrueT0(a)[b]
  BY <1>1
<1>3. QED
  BY <1>1, <1>2 DEF Moved, Residual

----------------------------------------------------------------------------
(* A step of one worker changes the record of that worker and the table's  *)
(* row of its ASIC.                                                        *)

LEMMA WorkerStep ==
  ASSUME CalibInv, NEW w \in Running, NEW r \in WorkerRecord,
         r.asic = worker[w].asic, r.pc \in {"measure", "correct", "zero", "exit"},
         r.pc = "exit" \/ tool = "tdc",
         worker' = [worker EXCEPT ![w] = r],
         UNCHANGED <<inputVars, files, list, parentVars, offset, output, historyVars>>,
         valid' \in [Asic -> SUBSET Converter], t0' \in [Asic -> [Branch -> Int]],
         \A b \in Asic : b # worker[w].asic => valid'[b] = valid[b] /\ t0'[b] = t0[b]
  PROVE  /\ TypeOK' /\ Types' /\ SortFirst' /\ PlaceFree' /\ Alone' /\ OneFileEach' /\ NoneForgotten'
         /\ Adjusted' /\ Written' /\ FailsOnlyAfterRewind'
         /\ worker'[w] = r /\ \A x \in Worker : x # w => worker'[x] = worker[x]
         /\ \A x \in Worker, a \in Asic : RunsOn(x, a)' = RunsOn(x, a)
         /\ worker[w].asic \in Asic
<1> USE DEF CalibInv
<1>1. w \in Worker /\ worker[w].pc \notin {"none", "zombie"} /\ worker[w].asic \in ToSet(list)
  BY DEF Running, Types
<1>2. worker' \in [Worker -> WorkerRecord] /\ worker'[w] = r /\ \A x \in Worker : x # w => worker'[x] = worker[x]
  BY <1>1 DEF Types
<1>3. r # NoWorker /\ worker[w] # NoWorker
  BY <1>1 DEF NoWorker
<1>4. Busy' = Busy /\ Busy # {}
  BY <1>1, <1>2, <1>3 DEF Busy
<1>5. pc \notin {"adjust", "write", "delete", "done"}
  BY <1>4 DEF Alone
<1>6. ~Unread
  BY <1>4 DEF Unread
<1>7. Running' = Running
  BY <1>1, <1>2 DEF Running
<1>8. \A x \in Worker : worker'[x].asic = worker[x].asic
  BY <1>1, <1>2
<1>9. \A x \in Worker, a \in Asic : RunsOn(x, a)' = RunsOn(x, a)
  BY <1>7, <1>8 DEF RunsOn
<1>10. worker[w].asic \in Asic
  BY <1>1 DEF TypeOK
<1>11. TypeOK'
  BY <1>4, Zenon DEF TypeOK, Busy, inputVars, parentVars, historyVars
<1>12. Types'
  <2>1. \A x \in Worker : worker'[x].pc = "none" <=> worker'[x] = NoWorker
    BY <1>1, <1>2, <1>3 DEF Types
  <2>2. \A x \in Worker : x \in Running' => worker'[x].asic \in ToSet(list)
    BY <1>7, <1>8 DEF Types
  <2>3. \A x \in Worker : worker'[x].pc \in {"measure", "correct", "zero"} => tool = "tdc"
    BY <1>1, <1>2 DEF Types
  <2>4. QED
    BY <1>2, <2>1, <2>2, <2>3 DEF Types, inputVars, parentVars, historyVars, WorkerRecord
<1>13. SortFirst' /\ PlaceFree' /\ Alone' /\ Written' /\ FailsOnlyAfterRewind' /\ Adjusted'
  BY <1>5, <1>4, <1>6 DEF SortFirst, PlaceFree, Alone, Written, FailsOnlyAfterRewind, Adjusted, inputVars, parentVars, historyVars
<1>14. OneFileEach'
  BY <1>6 DEF OneFileEach, parentVars, historyVars
<1>15. NoneForgotten'
  <2>1. SUFFICES ASSUME NEW a \in ToSet(list)
        PROVE  \/ pc = "failed" \/ forkFailures > 0
               \/ pc \in {"list", "fork", "wait"} /\ a \in ToSet(ahead)
               \/ pc = "fork" /\ asic = a
               \/ a \in died
               \/ \E x \in Worker : RunsOn(x, a)'
               \/ valid'[a] = Expected(a)'
    BY DEF NoneForgotten, parentVars, historyVars
  <2>2. a \in Asic
    BY DEF TypeOK
  <2>3. CASE a = worker[w].asic
    BY <1>1, <1>9, <2>2, <2>3 DEF RunsOn
  <2>4. CASE a # worker[w].asic
    <3>1. valid'[a] = valid[a] /\ Expected(a)' = Expected(a)
      BY <2>2, <2>4 DEF Expected, inputVars
    <3>2. QED
      BY <1>6, <1>9, <2>2, <3>1 DEF NoneForgotten
  <2>5. QED
    BY <2>3, <2>4
<1>16. QED
  BY <1>2, <1>9, <1>10, <1>11, <1>12, <1>13, <1>14, <1>15

\* What is left to show of a worker's step: the row of its own ASIC.
LEMMA RowStep ==
  ASSUME CalibInv, NEW w \in Running, NEW r \in WorkerRecord,
         r.asic = worker[w].asic, r.pc \in {"measure", "correct", "zero", "exit"},
         r.pc = "exit" \/ tool = "tdc",
         worker' = [worker EXCEPT ![w] = r],
         UNCHANGED <<inputVars, files, list, parentVars, offset, output, historyVars>>,
         valid' \in [Asic -> SUBSET Converter], t0' \in [Asic -> [Branch -> Int]],
         \A b \in Asic : b # worker[w].asic => valid'[b] = valid[b] /\ t0'[b] = t0[b],
         NEW a, a = worker[w].asic,
         a \notin died => /\ valid'[a] \in {fits[a], Expected(a)}
                          /\ r.pc = "exit" => valid'[a] = Expected(a) \/ valid'[a] = valid[a],
         a \notin died \cup shared =>
           /\ r.pc = "measure" /\ r.iter # 0 => t0'[a] = TrueT0(a)
           /\ r.pc = "correct" => Moved(t0'[a], r.found) = TrueT0(a)
           /\ r.pc = "zero" => t0'[a] = TrueT0(a)
           /\ r.pc = "exit" /\ tool = "tdc" => t0'[a] = TrueT0(a),
         worker[w].pc \in {"measure", "correct", "zero"} /\ r.pc = "exit" =>
           a \in died \/ valid'[a] = Expected(a)
  PROVE  CalibInv'
<1> USE DEF CalibInv
<1>1. /\ TypeOK' /\ Types' /\ SortFirst' /\ PlaceFree' /\ Alone' /\ OneFileEach' /\ NoneForgotten'
      /\ Adjusted' /\ Written' /\ FailsOnlyAfterRewind'
      /\ worker'[w] = r /\ \A x \in Worker : x # w => worker'[x] = worker[x]
      /\ \A x \in Worker, b \in Asic : RunsOn(x, b)' = RunsOn(x, b)
      /\ a \in Asic
  BY WorkerStep, Zenon
<1>2. w \in Worker /\ RunsOn(w, a) /\ a \in ToSet(list) /\ RunsOn(w, a)'
  <2>1. w \in Worker /\ RunsOn(w, a) /\ a \in ToSet(list)
    BY DEF Running, RunsOn, Types
  <2>2. QED
    BY <1>1, <2>1
<1>3. \A b \in Asic : Expected(b)' = Expected(b)
  BY DEF Expected, inputVars
<1>4. UNCHANGED <<tool, fits, list, died, shared, pc>>
  BY DEF inputVars, historyVars, parentVars
<1>5. TableSoFar'
  <2>1. SUFFICES ASSUME NEW b \in Asic
        PROVE  /\ b \notin ToSet(list) => valid'[b] = {}
               /\ b \notin died =>
                    /\ valid'[b] \in {{}, fits[b], Expected(b)}
                    /\ \A x \in Worker :
                         worker'[x].asic = b /\ worker'[x].pc \in {"measure", "correct", "zero", "exit"}
                           => valid'[b] \in {fits[b], Expected(b)}
                    /\ (\A x \in Worker : worker'[x].asic = b =>
                          worker'[x].pc \notin {"measure", "correct", "zero"})
                         => valid'[b] \in {{}, Expected(b)}
    BY <1>3, <1>4 DEF TableSoFar
  <2>2. CASE b = a
    <3>1. SUFFICES ASSUME b \notin died, \A x \in Worker : worker'[x].asic = b =>
                            worker'[x].pc \notin {"measure", "correct", "zero"}
                   PROVE  valid'[b] \in {{}, Expected(b)}
      BY <1>2, <2>2
    <3>2. r.pc = "exit"
      BY <1>1, <1>2, <2>2, <3>1
    <3>3. CASE valid'[a] = Expected(a)
      BY <2>2, <3>3
    <3>4. CASE valid'[a] = valid[a] /\ worker[w].pc \notin {"measure", "correct", "zero"}
      <4>1. \A x \in Worker : worker[x].asic = a => worker[x].pc \notin {"measure", "correct", "zero"}
        BY <1>1, <2>2, <3>1, <3>4
      <4>2. QED
        BY <1>1, <2>2, <3>1, <3>4, <4>1 DEF TableSoFar
    <3>5. QED
      BY <2>2, <3>1, <3>2, <3>3, <3>4
  <2>3. CASE b # a
    <3>1. valid'[b] = valid[b]
      BY <2>3
    <3>2. b \notin ToSet(list) => valid'[b] = {}
      BY <3>1 DEF TableSoFar
    <3>3. SUFFICES ASSUME b \notin died
          PROVE  /\ valid'[b] \in {{}, fits[b], Expected(b)}
                 /\ \A x \in Worker :
                      worker'[x].asic = b /\ worker'[x].pc \in {"measure", "correct", "zero", "exit"}
                        => valid'[b] \in {fits[b], Expected(b)}
                 /\ (\A x \in Worker : worker'[x].asic = b =>
                       worker'[x].pc \notin {"measure", "correct", "zero"})
                      => valid'[b] \in {{}, Expected(b)}
      BY <3>2
    <3>4. \A x \in Worker : worker'[x].asic = b => worker'[x] = worker[x]
      BY <1>1, <2>3
    <3>5. \A x \in Worker : worker[x].asic = b => worker'[x] = worker[x]
      BY <1>1, <2>3
    <3>6. QED
      BY <3>1, <3>3, <3>4, <3>5 DEF TableSoFar
  <2>4. QED
    BY <2>2, <2>3
<1>6. OffsetSoFar'
  <2>1. SUFFICES ASSUME NEW b \in Asic \ (died \cup shared)
        PROVE  /\ \A v, x \in Worker : RunsOn(v, b)' /\ RunsOn(x, b)' => v = x
               /\ \A x \in Worker : worker'[x].asic = b =>
                    /\ worker'[x].pc = "measure" /\ worker'[x].iter # 0 => t0'[b] = TrueT0(b)
                    /\ worker'[x].pc = "correct" => Moved(t0'[b], worker'[x].found) = TrueT0(b)
                    /\ worker'[x].pc = "zero" => t0'[b] = TrueT0(b)
                    /\ worker'[x].pc = "exit" /\ tool = "tdc" => t0'[b] = TrueT0(b)
               /\ /\ tool = "tdc" /\ pc \notin {"write", "delete", "done"} /\ valid'[b] # {}
                  /\ \A x \in Worker : ~RunsOn(x, b)'
                  => t0'[b] = TrueT0(b)
    BY <1>4 DEF OffsetSoFar, TrueT0
  <2>2. \A v, x \in Worker : RunsOn(v, b)' /\ RunsOn(x, b)' => v = x
    BY <1>1 DEF OffsetSoFar
  <2>3. CASE b = a
    <3>1. \A x \in Worker : worker'[x].asic = b /\ worker'[x].pc \in {"measure", "correct", "zero", "exit"} => x = w
      BY <1>2, <2>2, <2>3 DEF RunsOn, Running
    <3>2. QED
      BY <1>1, <1>2, <2>2, <2>3, <3>1
  <2>4. CASE b # a
    <3>1. valid'[b] = valid[b] /\ t0'[b] = t0[b]
      BY <2>4
    <3>2. \A x \in Worker : worker'[x].asic = b => worker'[x] = worker[x]
      BY <1>1, <2>4
    <3>3. (\A x \in Worker : ~RunsOn(x, b)') => (\A x \in Worker : ~RunsOn(x, b))
      BY <1>1
    <3>4. QED
      BY <2>2, <3>1, <3>2, <3>3 DEF OffsetSoFar
  <2>5. QED
    BY <2>3, <2>4
<1>7. QED
  BY <1>1, <1>5, <1>6

\* A worker's record after a step.
LEMMA PcStep ==
  ASSUME Types, NEW w \in Worker, NEW p \in {"measure", "correct", "zero", "exit"}
  PROVE  \E r \in WorkerRecord :
           /\ r.asic = worker[w].asic /\ r.pc = p /\ r.iter = worker[w].iter
           /\ [worker EXCEPT ![w].pc = p] = [worker EXCEPT ![w] = r]
<1>1. worker[w] \in WorkerRecord /\ worker \in [Worker -> WorkerRecord]
  BY DEF Types
<1>2. [worker[w] EXCEPT !.pc = p] \in WorkerRecord
  BY <1>1, Zenon DEF WorkerRecord
<1>3. PICK r \in WorkerRecord : r = [worker[w] EXCEPT !.pc = p]
  BY <1>2
<1>4. r.asic = worker[w].asic /\ r.pc = p /\ r.iter = worker[w].iter
  BY <1>1, <1>3 DEF WorkerRecord
<1>5. [worker EXCEPT ![w].pc = p] = [worker EXCEPT ![w] = r]
  BY <1>1, <1>3
<1>6. QED
  BY <1>4, <1>5

LEMMA FoundStep ==
  ASSUME Types, NEW w \in Worker, NEW p \in {"measure", "correct", "zero", "exit"},
         NEW f, f = Residual(worker[w].asic), f \in [Branch -> Int],
         worker' = [worker EXCEPT ![w].found = f, ![w].pc = p]
  PROVE  \E r \in WorkerRecord :
           /\ r.asic = worker[w].asic /\ r.pc = p /\ r.iter = worker[w].iter
           /\ r.found = Residual(worker[w].asic)
           /\ worker' = [worker EXCEPT ![w] = r]
<1>1. worker[w] \in WorkerRecord /\ worker \in [Worker -> WorkerRecord]
  BY DEF Types
<1>2. PICK v : v = worker[w]
  OBVIOUS
<1>3. PICK u : u = [v EXCEPT !.found = f]
  BY Zenon
<1>4. u \in WorkerRecord /\ u.asic = v.asic /\ u.iter = v.iter /\ u.found = f
  BY <1>1, <1>2, <1>3, Zenon DEF WorkerRecord
<1>5. PICK r : r = [u EXCEPT !.pc = p]
  BY Zenon
<1>6. r \in WorkerRecord /\ r.asic = u.asic /\ r.iter = u.iter /\ r.found = u.found /\ r.pc = p
  BY <1>4, <1>5 DEF WorkerRecord
<1>7. worker' = [worker EXCEPT ![w] = r]
  <2>1. worker' = [[worker EXCEPT ![w].found = f] EXCEPT ![w].pc = p]
    OBVIOUS
  <2>2. PICK x : x = [worker EXCEPT ![w].found = f]
    OBVIOUS
  <2>3. x = [worker EXCEPT ![w] = u]
    BY <1>1, <1>2, <1>3, <2>2
  <2>4. x[w] = u /\ x \in [Worker -> WorkerRecord]
    BY <1>1, <1>4, <2>3
  <2>5. [x EXCEPT ![w].pc = p] = [x EXCEPT ![w] = r]
    BY <1>5, <2>4
  <2>6. [x EXCEPT ![w] = r] = [worker EXCEPT ![w] = r]
    BY <1>1, <2>3, Zenon
  <2>7. QED
    BY <2>1, <2>2, <2>5, <2>6
<1>8. QED
  BY <1>2, <1>4, <1>6, <1>7, Zenon

LEMMA NextPass ==
  ASSUME Types, NEW w \in Worker
  PROVE  \E r \in WorkerRecord :
           /\ r.asic = worker[w].asic /\ r.pc = "measure"
           /\ [worker EXCEPT ![w].iter = @ + 1, ![w].pc = "measure", ![w].found = NoT0]
                = [worker EXCEPT ![w] = r]
<1>1. worker[w] \in WorkerRecord /\ worker \in [Worker -> WorkerRecord]
  BY DEF Types
<1>2. PICK v : v = worker[w]
  OBVIOUS
<1>3. PICK u : u = [v EXCEPT !.iter = v.iter + 1]
  BY Zenon
<1>4. u \in WorkerRecord /\ u.asic = v.asic
  <2>1. v \in WorkerRecord /\ v.iter \in Nat /\ v.iter + 1 \in Nat
    BY <1>1, <1>2 DEF WorkerRecord
  <2>2. QED
    BY <1>3, <2>1 DEF WorkerRecord
<1>5. PICK x : x = [worker EXCEPT ![w].iter = @ + 1]
  BY Zenon
<1>6. x = [worker EXCEPT ![w] = u]
  BY <1>1, <1>2, <1>3, <1>5
<1>7. x[w] = u /\ x \in [Worker -> WorkerRecord]
  BY <1>1, <1>4, <1>6
<1>8. PICK t : t = [u EXCEPT !.pc = "measure"]
  BY Zenon
<1>9. t \in WorkerRecord /\ t.asic = v.asic /\ t.pc = "measure"
  BY <1>4, <1>8 DEF WorkerRecord
<1>10. PICK y : y = [x EXCEPT ![w].pc = "measure"]
  BY Zenon
<1>11. y = [x EXCEPT ![w] = t]
  BY <1>7, <1>8, <1>10
<1>12. y[w] = t /\ y \in [Worker -> WorkerRecord]
  BY <1>7, <1>9, <1>11
<1>13. PICK r : r = [t EXCEPT !.found = NoT0]
  BY Zenon
<1>14. r \in WorkerRecord /\ r.asic = v.asic /\ r.pc = "measure"
  BY <1>9, <1>13, NoT0Type DEF WorkerRecord
<1>15. [y EXCEPT ![w].found = NoT0] = [y EXCEPT ![w] = r]
  BY <1>12, <1>13
<1>16. [y EXCEPT ![w] = r] = [worker EXCEPT ![w] = r]
  BY <1>1, <1>6, <1>11, Zenon
<1>17. [worker EXCEPT ![w].iter = @ + 1, ![w].pc = "measure", ![w].found = NoT0] = [y EXCEPT ![w].found = NoT0]
  BY <1>5, <1>10
<1>18. QED
  BY <1>2, <1>14, <1>15, <1>16, <1>17

LEMMA Calibrating ==
  ASSUME CalibInv, NEW w \in Worker, Calibrate(w)
  PROVE  CalibInv'
<1> USE DEF CalibInv
<1>0. PICK a : a = worker[w].asic
  OBVIOUS
<1>1. /\ w \in Running /\ worker[w] \in WorkerRecord /\ a \in Asic /\ TrueT0(a) \in [Branch -> Int] /\ a \in ToSet(list)
      /\ worker[w].pc \in {"measure", "correct", "zero"} => tool = "tdc"
  <2>1. worker[w].pc \in {"fit", "measure", "correct", "zero"}
    BY DEF Calibrate, Measure, Correct, ZeroChannels
  <2>2. w \in Running /\ worker[w] \in WorkerRecord
    BY <2>1 DEF Running, Types
  <2>3. a \in ToSet(list) /\ a \in Asic
    BY <1>0, <2>2 DEF Types, TypeOK
  <2>4. TrueT0(a) \in [Branch -> Int]
    BY <2>3, TrueT0Type
  <2>5. worker[w].pc \in {"measure", "correct", "zero"} => tool = "tdc"
    BY DEF Types
  <2>6. QED
    BY <2>2, <2>3, <2>4, <2>5
<1>2. /\ UNCHANGED <<inputVars, files, list, parentVars, offset, output, historyVars>>
      /\ valid \in [Asic -> SUBSET Converter] /\ t0 \in [Asic -> [Branch -> Int]] /\ t0[a] \in [Branch -> Int]
      /\ worker[w].iter \in Nat /\ worker[w].found \in [Branch -> Int]
  BY <1>1 DEF Calibrate, TypeOK, WorkerRecord
<1>3. fits[a] \subseteq Converter
  BY <1>1 DEF Types
<1>4. /\ Expected(a) \cup fits[a] = fits[a] /\ {} \cup fits[a] = fits[a] /\ fits[a] \cup fits[a] = fits[a]
      /\ tool = "qdc" => Expected(a) = fits[a]
      /\ tool = "tdc" => /\ WholeChannels(fits[a]) = Expected(a)
                         /\ WholeChannels(Expected(a)) = Expected(a)
      /\ WholeChannels(valid[a]) \subseteq Converter
  BY <1>1, <1>2, ExpectedFacts DEF WholeChannels
<1>5. /\ a \notin died => valid[a] \in {{}, fits[a], Expected(a)}
      /\ a \notin died /\ worker[w].pc \in {"measure", "correct", "zero", "exit"}
           => valid[a] \in {fits[a], Expected(a)}
  BY <1>0, <1>1 DEF TableSoFar, Running
<1>6. a \notin died \cup shared =>
        /\ worker[w].pc = "measure" /\ worker[w].iter # 0 => t0[a] = TrueT0(a)
        /\ worker[w].pc = "correct" => Moved(t0[a], worker[w].found) = TrueT0(a)
        /\ worker[w].pc = "zero" => t0[a] = TrueT0(a)
  BY <1>0, <1>1 DEF OffsetSoFar, Running
<1>7. CASE worker[w].pc = "fit" /\ TdcFit(w)
  <2>0. PICK r \in WorkerRecord : /\ r.asic = a /\ r.pc = "measure" /\ r.iter = worker[w].iter
                                   /\ [worker EXCEPT ![w].pc = "measure"] = [worker EXCEPT ![w] = r]
    BY <1>0, <1>2, PcStep, Zenon
  <2>1. /\ worker' = [worker EXCEPT ![w] = r]
        /\ valid' = [valid EXCEPT ![a] = @ \cup fits[a]] /\ t0' = [t0 EXCEPT ![a] = NoT0]
        /\ tool = "tdc"
    BY <1>0, <2>0, <1>1, <1>7 DEF TdcFit, Goto
  <2>2. /\ valid'[a] = valid[a] \cup fits[a] /\ \A b \in Asic : b # a => valid'[b] = valid[b]
        /\ t0'[a] = NoT0 /\ \A b \in Asic : b # a => t0'[b] = t0[b]
        /\ valid' \in [Asic -> SUBSET Converter] /\ t0' \in [Asic -> [Branch -> Int]]
    BY <1>1, <1>2, <1>3, <2>1, NoT0Type
  <2>3. worker[w].iter = 0
    BY <1>7 DEF Types
  <2>4. a \notin died => valid'[a] = fits[a]
    BY <1>4, <1>5, <2>2
  <2>5. r.iter = 0 /\ r.pc = "measure" /\ r.asic = worker[w].asic
    BY <1>0, <2>0, <2>3
  <2>6. QED
    BY <1>0, <1>1, <1>2, <2>1, <2>2, <2>4, <2>5, RowStep, Zenon
<1>8. CASE worker[w].pc = "fit" /\ QdcFit(w)
  <2>0. PICK r \in WorkerRecord : /\ r.asic = a /\ r.pc = "exit"
                                   /\ [worker EXCEPT ![w].pc = "exit"] = [worker EXCEPT ![w] = r]
    BY <1>0, <1>2, PcStep, Zenon
  <2>1. /\ worker' = [worker EXCEPT ![w] = r]
        /\ valid' = [valid EXCEPT ![a] = @ \cup fits[a]] /\ t0' = t0
        /\ tool = "qdc"
    BY <1>0, <2>0, <1>1, <1>8 DEF QdcFit, Goto
  <2>2. /\ valid'[a] = valid[a] \cup fits[a] /\ \A b \in Asic : b # a => valid'[b] = valid[b]
        /\ valid' \in [Asic -> SUBSET Converter]
    BY <1>1, <1>2, <1>3, <2>1
  <2>3. QED
    BY <1>0, <2>0, <1>1, <1>2, <1>3, <1>4, <1>5, <1>8, <2>1, <2>2, RowStep, Zenon
<1>9. CASE Measure(w)
  <2>1. PICK p : p = IF worker[w].iter = 3 THEN "zero" ELSE "correct"
    OBVIOUS
  <2>2. PICK f : f = Residual(worker[w].asic)
    OBVIOUS
  <2>3. f \in [Branch -> Int] /\ Moved(t0[a], f) = TrueT0(a)
    BY <1>0, <1>1, <1>2, <2>2, ResidualMoves
  <2>4. p \in {"measure", "correct", "zero", "exit"} /\ p \in {"correct", "zero"}
        /\ (p = "zero" => worker[w].iter # 0)
    BY <2>1
  <2>5. /\ worker' = [worker EXCEPT ![w].found = f, ![w].pc = p]
        /\ valid' = valid /\ t0' = t0 /\ tool = "tdc" /\ worker[w].pc = "measure"
    BY <1>1, <1>9, <2>1, <2>2 DEF Measure, tableVars
  <2>6. PICK r \in WorkerRecord :
          /\ r.asic = worker[w].asic /\ r.pc = p /\ r.iter = worker[w].iter
          /\ r.found = Residual(worker[w].asic)
          /\ worker' = [worker EXCEPT ![w] = r]
    BY <2>2, <2>3, <2>4, <2>5, FoundStep, ZenonT(30)
  <2>7. a \notin died => valid'[a] \in {fits[a], Expected(a)}
    BY <1>5, <2>5
  <2>8. r.asic = a /\ r.pc # "exit" /\ r.pc # "measure" /\ Moved(t0'[a], r.found) = TrueT0(a)
    BY <1>0, <2>2, <2>3, <2>4, <2>5, <2>6
  <2>9. a \notin died \cup shared /\ r.pc = "zero" => t0'[a] = TrueT0(a)
    BY <1>6, <2>4, <2>5, <2>6
  <2>10. r.pc \in {"correct", "zero"}
    BY <2>4, <2>6
  <2>11. QED
    BY <1>0, <1>1, <1>2, <2>5, <2>6, <2>7, <2>8, <2>9, <2>10, RowStep, Zenon
<1>10. CASE Correct(w)
  <2>0. PICK r \in WorkerRecord :
          /\ r.asic = a /\ r.pc = "measure"
          /\ [worker EXCEPT ![w].iter = @ + 1, ![w].pc = "measure", ![w].found = NoT0]
               = [worker EXCEPT ![w] = r]
    BY <1>0, NextPass, Zenon
  <2>1. /\ worker' = [worker EXCEPT ![w] = r]
        /\ valid' = valid /\ t0' = [t0 EXCEPT ![a] = Moved(@, worker[w].found)]
        /\ tool = "tdc" /\ worker[w].pc = "correct"
    BY <1>0, <2>0, <1>1, <1>10 DEF Correct, Moved
  <2>2. /\ t0'[a] = Moved(t0[a], worker[w].found) /\ \A b \in Asic : b # a => t0'[b] = t0[b]
        /\ t0' \in [Asic -> [Branch -> Int]]
    BY <1>1, <1>2, <2>1, MovedType
  <2>3. QED
    BY <1>0, <2>0, <1>1, <1>2, <1>3, <1>5, <1>6, <2>1, <2>2, RowStep, Zenon
<1>11. CASE ZeroChannels(w)
  <2>0. PICK r \in WorkerRecord : /\ r.asic = a /\ r.pc = "exit"
                                   /\ [worker EXCEPT ![w].pc = "exit"] = [worker EXCEPT ![w] = r]
    BY <1>0, <1>2, PcStep, Zenon
  <2>1. /\ worker' = [worker EXCEPT ![w] = r]
        /\ valid' = [valid EXCEPT ![a] = WholeChannels(@)] /\ t0' = t0
        /\ tool = "tdc" /\ worker[w].pc = "zero"
    BY <1>0, <2>0, <1>1, <1>11 DEF ZeroChannels, Goto
  <2>2. /\ valid'[a] = WholeChannels(valid[a]) /\ \A b \in Asic : b # a => valid'[b] = valid[b]
        /\ valid' \in [Asic -> SUBSET Converter]
    BY <1>1, <1>2, <1>4, <2>1
  <2>3. QED
    BY <1>0, <2>0, <1>1, <1>2, <1>3, <1>4, <1>5, <1>6, <2>1, <2>2, RowStep, ZenonT(30)
<1>12. QED
  BY <1>7, <1>8, <1>9, <1>10, <1>11 DEF Calibrate

\* A worker that ends, whose ASIC is in the table or counts as lost.
LEMMA Ending ==
  ASSUME CalibInv, NEW w \in Running,
         worker' = [worker EXCEPT ![w] = [NoWorker EXCEPT !.pc = "zombie"]],
         UNCHANGED <<inputVars, files, list, parentVars, tableVars, output, shared, forkFailures>>,
         offset' \in 0 .. Len(list), offset' # offset => rewound', rewound => rewound',
         died \subseteq died', worker[w].pc = "exit" \/ worker[w].asic \in died'
  PROVE  CalibInv'
<1> USE DEF CalibInv
<1>1. /\ w \in Worker /\ worker[w] # NoWorker /\ worker[w].asic \in ToSet(list)
      /\ worker[w].asic \in Asic
  BY DEF Running, Types, NoWorker, TypeOK
<1>2. PICK r \in WorkerRecord : r = [NoWorker EXCEPT !.pc = "zombie"]
  <2>1. [NoWorker EXCEPT !.pc = "zombie"] =
          [asic |-> -1, pc |-> "zombie", iter |-> 0, found |-> NoT0, ahead |-> << >>]
    BY DEF NoWorker
  <2>2. [asic |-> -1, pc |-> "zombie", iter |-> 0, found |-> NoT0, ahead |-> << >>] \in WorkerRecord
    BY NoT0Type DEF WorkerRecord
  <2>3. QED
    BY <2>1, <2>2
<1>3. r.pc = "zombie" /\ r.asic = -1 /\ r # NoWorker
  BY <1>2 DEF NoWorker
<1>4. /\ worker' \in [Worker -> WorkerRecord] /\ worker'[w] = r
      /\ \A x \in Worker : x # w => worker'[x] = worker[x]
  BY <1>1, <1>2 DEF Types
<1>5. /\ UNCHANGED <<tool, maxWorkers, events, fits, files, list, pc, ahead, eof, nWorkers, nFiles, asic,
                      valid, t0, output, shared, forkFailures>>
  BY DEF inputVars, parentVars, tableVars
<1>6. Busy' = Busy /\ Busy # {} /\ ~Unread /\ ~Unread'
  BY <1>1, <1>3, <1>4 DEF Busy, Unread
<1>7. pc \notin {"adjust", "write", "delete", "done"}
  BY <1>6 DEF Alone
<1>8. /\ \A x \in Worker, a \in Asic : RunsOn(x, a)' <=> RunsOn(x, a) /\ x # w
      /\ Running' = Running \ {w}
      /\ RunsOn(w, worker[w].asic)
  BY <1>1, <1>3, <1>4 DEF RunsOn, Running
<1>9. \A a \in Asic : Expected(a)' = Expected(a)
  BY <1>5 DEF Expected
<1>10. -1 \notin Asic
  BY CalibrationAssumption DEF CalibrationAssumption
<1>11. TypeOK'
  BY <1>5, <1>6, Zenon DEF TypeOK, Busy
<1>12. Types'
  <2>1. \A x \in Worker : worker'[x].pc = "none" <=> worker'[x] = NoWorker
    BY <1>3, <1>4 DEF Types
  <2>2. \A x \in Worker : x \in Running' => worker'[x].asic \in ToSet(list)
    BY <1>4, <1>8 DEF Types
  <2>3. \A x \in Worker : /\ worker'[x].pc \in {"measure", "correct", "zero"} => tool = "tdc"
                          /\ worker'[x].pc = "fit" => worker'[x].iter = 0
    BY <1>3, <1>4 DEF Types
  <2>4. QED
    BY <1>4, <1>5, <2>1, <2>2, <2>3 DEF Types, WorkerRecord
<1>13. SortFirst' /\ PlaceFree' /\ Alone' /\ Written' /\ FailsOnlyAfterRewind' /\ Adjusted' /\ OneFileEach'
  BY <1>5, <1>6, <1>7 DEF SortFirst, PlaceFree, Alone, Written, FailsOnlyAfterRewind, Adjusted, OneFileEach, NValid, ValidOf
<1>14. ASSUME NEW a \in Asic, a \notin died', a = worker[w].asic,
              \A x \in Worker : RunsOn(x, a) => x = w
       PROVE  worker[w].pc = "exit" /\ a \notin died /\ valid[a] = Expected(a)
  <2>1. worker[w].pc = "exit" /\ a \notin died
    BY <1>14
  <2>2. valid[a] \in {fits[a], Expected(a)}
    BY <1>1, <1>14, <2>1 DEF TableSoFar
  <2>3. \A x \in Worker : worker[x].asic = a => worker[x].pc \notin {"measure", "correct", "zero"}
    BY <1>14, <2>1 DEF RunsOn, Running
  <2>4. valid[a] \in {{}, Expected(a)}
    BY <2>1, <2>3 DEF TableSoFar
  <2>5. Expected(a) \subseteq fits[a]
    BY ExpectedFacts
  <2>6. QED
    BY <2>1, <2>2, <2>4, <2>5, Zenon
<1>15. NoneForgotten'
  <2>1. SUFFICES ASSUME NEW a \in ToSet(list), a \notin died',
                        \A x \in Worker : ~RunsOn(x, a)',
                        pc # "failed", ~(pc \in {"list", "fork", "wait"} /\ a \in ToSet(ahead)),
                        ~(pc = "fork" /\ asic = a), ~(forkFailures > 0)
                 PROVE  valid[a] = Expected(a)
    BY <1>5, <1>9 DEF NoneForgotten, TypeOK
  <2>2. a \in Asic
    BY DEF TypeOK
  <2>3. \A x \in Worker : RunsOn(x, a) => x = w
    BY <1>8, <2>1, <2>2
  <2>4. CASE a = worker[w].asic
    BY <1>14, <2>1, <2>2, <2>3, <2>4
  <2>5. CASE a # worker[w].asic
    <3>1. \A x \in Worker : ~RunsOn(x, a)
      BY <2>3, <2>5 DEF RunsOn
    <3>2. QED
      BY <1>6, <2>1, <3>1 DEF NoneForgotten
  <2>6. QED
    BY <2>4, <2>5
<1>16. TableSoFar'
  <2>1. SUFFICES ASSUME NEW b \in Asic
        PROVE  /\ b \notin ToSet(list) => valid[b] = {}
               /\ b \notin died' =>
                    /\ valid[b] \in {{}, fits[b], Expected(b)}
                    /\ \A x \in Worker :
                         worker'[x].asic = b /\ worker'[x].pc \in {"measure", "correct", "zero", "exit"}
                           => valid[b] \in {fits[b], Expected(b)}
                    /\ (\A x \in Worker : worker'[x].asic = b =>
                          worker'[x].pc \notin {"measure", "correct", "zero"})
                         => valid[b] \in {{}, Expected(b)}
    BY <1>5, <1>9 DEF TableSoFar
  <2>2. b \notin ToSet(list) => valid[b] = {}
    BY DEF TableSoFar
  <2>3. SUFFICES ASSUME b \notin died'
        PROVE  /\ valid[b] \in {{}, fits[b], Expected(b)}
               /\ \A x \in Worker :
                    worker'[x].asic = b /\ worker'[x].pc \in {"measure", "correct", "zero", "exit"}
                      => valid[b] \in {fits[b], Expected(b)}
               /\ (\A x \in Worker : worker'[x].asic = b =>
                     worker'[x].pc \notin {"measure", "correct", "zero"})
                    => valid[b] \in {{}, Expected(b)}
    BY <2>2
  <2>4. \A x \in Worker : worker'[x].asic = b => worker'[x] = worker[x]
    BY <1>3, <1>4, <1>10, Zenon
  <2>5. \A x \in Worker : worker[x].asic = b /\ worker[x].pc \in {"measure", "correct", "zero"}
                            => worker'[x] = worker[x]
    BY <1>4, <2>3
  <2>6. QED
    BY <2>3, <2>4, <2>5 DEF TableSoFar
<1>17. OffsetSoFar'
  <2>1. SUFFICES ASSUME NEW b \in Asic, b \notin died' \cup shared
        PROVE  /\ \A v, x \in Worker : RunsOn(v, b)' /\ RunsOn(x, b)' => v = x
               /\ \A x \in Worker : worker'[x].asic = b =>
                    /\ worker'[x].pc = "measure" /\ worker'[x].iter # 0 => t0[b] = TrueT0(b)
                    /\ worker'[x].pc = "correct" => Moved(t0[b], worker'[x].found) = TrueT0(b)
                    /\ worker'[x].pc = "zero" => t0[b] = TrueT0(b)
                    /\ worker'[x].pc = "exit" /\ tool = "tdc" => t0[b] = TrueT0(b)
               /\ /\ tool = "tdc" /\ pc \notin {"write", "delete", "done"} /\ valid[b] # {}
                  /\ \A x \in Worker : ~RunsOn(x, b)'
                  => t0[b] = TrueT0(b)
    BY <1>5 DEF OffsetSoFar, TrueT0
  <2>2. b \in Asic \ (died \cup shared)
    BY <2>1
  <2>3. \A v, x \in Worker : RunsOn(v, b)' /\ RunsOn(x, b)' => v = x
    BY <1>8, <2>2 DEF OffsetSoFar
  <2>4. \A x \in Worker : worker'[x].asic = b => worker'[x] = worker[x]
    BY <1>3, <1>4, <1>10, Zenon
  <2>5. ASSUME tool = "tdc", pc \notin {"write", "delete", "done"}, valid[b] # {},
               \A x \in Worker : ~RunsOn(x, b)'
        PROVE  t0[b] = TrueT0(b)
    <3>1. CASE b = worker[w].asic
      <4>1. worker[w].pc = "exit"
        BY <2>1, <3>1
      <4>2. QED
        BY <1>1, <2>2, <2>5, <3>1, <4>1 DEF OffsetSoFar
    <3>2. CASE b # worker[w].asic
      <4>1. \A x \in Worker : ~RunsOn(x, b)
        BY <1>8, <2>5, <3>2 DEF RunsOn
      <4>2. QED
        BY <2>2, <2>5, <4>1 DEF OffsetSoFar
    <3>3. QED
      BY <3>1, <3>2
  <2>6. QED
    BY <2>2, <2>3, <2>4, <2>5 DEF OffsetSoFar
<1>18. QED
  BY <1>11, <1>12, <1>13, <1>15, <1>16, <1>17

LEMMA Leaving ==
  ASSUME CalibInv, NEW w \in Worker, Leave(w)
  PROVE  CalibInv'
<1>1. w \in Running /\ worker[w].ahead \in Seq(Asic) /\ offset \in 0 .. Len(list) /\ list \in Seq(Asic)
  BY DEF Leave, Running, CalibInv, Types, TypeOK, WorkerRecord
<1>2. Len(worker[w].ahead) \in Nat /\ Len(list) \in Nat
  BY <1>1
<1>3. offset' \in 0 .. Len(list)
  BY <1>1, <1>2 DEF Leave
<1>4. (offset' # offset => rewound') /\ (rewound => rewound')
  BY Zenon DEF Leave
<1>5. QED
  BY <1>1, <1>3, <1>4, Ending, Zenon DEF Leave

LEMMA Dying ==
  ASSUME CalibInv, NEW w \in Worker, Die(w)
  PROVE  CalibInv'
<1>1. w \in Running /\ offset' \in 0 .. Len(list)
  BY DEF Die, Running, CalibInv, TypeOK
<1>2. QED
  BY <1>1, Ending, Zenon DEF Die

----------------------------------------------------------------------------
(* The steps of the parent. *)

\* It leaves the table and the workers, but for those that are gone.
LEMMA RowsKept ==
  ASSUME CalibInv, UNCHANGED <<tool, fits, list, valid, t0, died, shared>>,
         \A x \in Worker : \/ worker'[x] = worker[x]
                           \/ worker[x].pc = "zombie" /\ worker'[x] = NoWorker,
         pc \notin {"write", "delete", "done"} \/ pc' \in {"write", "delete", "done"}
  PROVE  /\ TableSoFar' /\ OffsetSoFar'
         /\ \A x \in Worker, a \in Asic : RunsOn(x, a)' = RunsOn(x, a)
         /\ \A a \in Asic : Expected(a)' = Expected(a)
<1> USE DEF CalibInv
<1>1. \A a \in Asic : Expected(a)' = Expected(a)
  BY DEF Expected
<1>2. -1 \notin Asic
  BY CalibrationAssumption DEF CalibrationAssumption
<1>3. \A x \in Worker, a \in Asic : RunsOn(x, a)' = RunsOn(x, a)
  BY <1>2 DEF RunsOn, Running, NoWorker
<1>4. ASSUME NEW x \in Worker, NEW a \in Asic, worker'[x].asic = a PROVE worker'[x] = worker[x]
  BY <1>2, <1>4 DEF NoWorker
<1>5. ASSUME NEW x \in Worker, worker[x].pc # "zombie" PROVE worker'[x] = worker[x]
  BY <1>5
<1>6. TableSoFar'
  <2>1. SUFFICES ASSUME NEW b \in Asic
        PROVE  /\ b \notin ToSet(list) => valid[b] = {}
               /\ b \notin died =>
                    /\ valid[b] \in {{}, fits[b], Expected(b)}
                    /\ \A x \in Worker :
                         worker'[x].asic = b /\ worker'[x].pc \in {"measure", "correct", "zero", "exit"}
                           => valid[b] \in {fits[b], Expected(b)}
                    /\ (\A x \in Worker : worker'[x].asic = b =>
                          worker'[x].pc \notin {"measure", "correct", "zero"})
                         => valid[b] \in {{}, Expected(b)}
    BY <1>1 DEF TableSoFar
  <2>2. \A x \in Worker : worker'[x].asic = b => worker'[x] = worker[x]
    BY <1>4
  <2>3. \A x \in Worker : worker[x].asic = b /\ worker[x].pc \in {"measure", "correct", "zero"}
                            => worker'[x] = worker[x]
    BY <1>5
  <2>4. QED
    BY <2>2, <2>3 DEF TableSoFar
<1>7. OffsetSoFar'
  <2>1. SUFFICES ASSUME NEW b \in Asic \ (died \cup shared)
        PROVE  /\ \A v, x \in Worker : RunsOn(v, b)' /\ RunsOn(x, b)' => v = x
               /\ \A x \in Worker : worker'[x].asic = b =>
                    /\ worker'[x].pc = "measure" /\ worker'[x].iter # 0 => t0[b] = TrueT0(b)
                    /\ worker'[x].pc = "correct" => Moved(t0[b], worker'[x].found) = TrueT0(b)
                    /\ worker'[x].pc = "zero" => t0[b] = TrueT0(b)
                    /\ worker'[x].pc = "exit" /\ tool = "tdc" => t0[b] = TrueT0(b)
               /\ /\ tool = "tdc" /\ pc' \notin {"write", "delete", "done"} /\ valid[b] # {}
                  /\ \A x \in Worker : ~RunsOn(x, b)'
                  => t0[b] = TrueT0(b)
    BY DEF OffsetSoFar, TrueT0
  <2>2. \A x \in Worker : worker'[x].asic = b => worker'[x] = worker[x]
    BY <1>4
  <2>3. QED
    BY <1>3, <2>2 DEF OffsetSoFar
<1>8. QED
  BY <1>1, <1>3, <1>6, <1>7

LEMMA Sorting ==
  ASSUME CalibInv, Sort
  PROVE  CalibInv'
<1> USE DEF CalibInv
<1>1. Unread /\ pc' = "list" /\ Unread'
  BY DEF Sort, SortFirst, Unread, Busy, tableVars, historyVars
<1>2. files' \subseteq Asic /\ list' \in ListsOf(files')
  BY DEF Sort, TdcSort, QdcSort, Types
<1>3. IsFiniteSet(files') /\ Cardinality(files') \in Nat /\ Cardinality(files') <= Cardinality(Asic)
  BY <1>2, CalibrationAssumption, FS_Subset, FS_CardinalityType, Zenon DEF CalibrationAssumption
<1>4. list' \in Seq(Asic) /\ Len(list') <= Cardinality(Asic) /\ ToSet(list') \subseteq Asic
  <2>1. PICK n \in Nat : n = Cardinality(files')
    BY <1>3
  <2>2. list' \in [1 .. n -> Asic]
    BY <1>2, <2>1 DEF ListsOf
  <2>3. list' \in Seq(Asic) /\ Len(list') = n
    BY <2>1, <2>2
  <2>4. QED
    BY <1>3, <2>1, <2>3, ToSetType
<1>5. \A w \in Worker : worker'[w] = NoWorker /\ worker[w] = NoWorker
  BY <1>1 DEF Sort, Unread, Busy
<1>6. /\ UNCHANGED <<tool, maxWorkers, events, fits, ahead, eof, nWorkers, nFiles, asic, offset, worker,
                      valid, t0, output, died, shared, rewound, forkFailures>>
  BY DEF Sort, inputVars, tableVars, historyVars
<1>7. nWorkers = 0
  BY <1>1, BusyCount DEF TypeOK, Unread, Busy
<1>8. TypeOK'
  <2>1. ahead = << >> /\ offset = 0
    BY <1>1 DEF Unread
  <2>2. ToSet(ahead) = {}
    BY <2>1 DEF ToSet
  <2>3. Len(list') \in Nat
    BY <1>4
  <2>4. QED
    BY <1>1, <1>2, <1>4, <1>6, <2>1, <2>2, <2>3 DEF TypeOK
<1>9. Types'
  <2>1. \A w \in Worker : w \notin Running'
    BY <1>5 DEF Running, NoWorker
  <2>2. QED
    BY <1>1, <1>4, <1>5, <1>6, <2>1 DEF Types, NoWorker, WorkerRecord
<1>10. PlaceFree'
  <2>1. Max({maxWorkers, 1}) \in Nat /\ Max({maxWorkers, 1}) >= 1
    BY MaxOf DEF Types
  <2>2. QED
    BY <1>6, <1>7, <2>1 DEF PlaceFree
<1>11. SortFirst' /\ Alone' /\ OneFileEach' /\ NoneForgotten' /\ Adjusted' /\ FailsOnlyAfterRewind'
  BY <1>1 DEF SortFirst, Alone, OneFileEach, NoneForgotten, Adjusted, FailsOnlyAfterRewind
<1>12. Written'
  BY <1>6 DEF Written, Sort
<1>13. valid' = [a \in Asic |-> {}]
  BY <1>1 DEF Unread
<1>14. -1 \notin Asic
  BY CalibrationAssumption DEF CalibrationAssumption
<1>15. TableSoFar'
  BY <1>5, <1>13, <1>14 DEF TableSoFar, NoWorker
<1>16. OffsetSoFar'
  BY <1>5, <1>13, <1>14 DEF OffsetSoFar, NoWorker, RunsOn
<1>17. QED
  BY <1>8, <1>9, <1>10, <1>11, <1>12, <1>15, <1>16

LEMMA Reading ==
  ASSUME CalibInv, ReadLine
  PROVE  CalibInv'
<1> USE DEF CalibInv
<1>1. PICK lines : /\ lines = IF ahead # << >> THEN ahead ELSE Rest
                   /\ TakeLine(lines)
  BY DEF ReadLine
<1>2. /\ pc = "list" /\ pc' = "fork"
      /\ UNCHANGED <<tool, maxWorkers, events, fits, files, list, nWorkers, nFiles, worker,
                     valid, t0, output, died, shared, rewound, forkFailures>>
  BY DEF ReadLine, inputVars, tableVars, historyVars
<1>3. list \in Seq(Asic) /\ ahead \in Seq(Asic) /\ offset \in 0 .. Len(list) /\ Len(list) \in Nat
      /\ ToSet(ahead) \subseteq ToSet(list) /\ ToSet(list) \subseteq Asic
  BY DEF Types, TypeOK
<1>4. /\ Rest \in Seq(Asic) /\ Len(Rest) = Len(list) - offset /\ ToSet(Rest) \subseteq ToSet(list)
      /\ offset = 0 => Rest = list
  BY <1>3, RestType DEF Rest
<1>5. /\ lines \in Seq(Asic) /\ ToSet(lines) \subseteq ToSet(list) /\ lines # << >>
      /\ asic' = Head(lines)
      /\ ahead' = IF Len(lines) = 1 /\ ahead # << >> THEN Rest ELSE Tail(lines)
      /\ offset' = IF Len(lines) = 1 \/ ahead = << >> THEN Len(list) ELSE offset
  BY <1>1, <1>3, <1>4 DEF TakeLine
<1>6. /\ Head(lines) \in Asic /\ Tail(lines) \in Seq(Asic) /\ Len(Tail(lines)) = Len(lines) - 1
      /\ ToSet(lines) = {Head(lines)} \cup ToSet(Tail(lines)) /\ Len(lines) \in Nat
  BY <1>5, ToSetSplit
<1>7. ASSUME Len(lines) = 1 PROVE ToSet(Tail(lines)) = {}
  <2>1. PICK t \in Seq(Asic) : t = Tail(lines)
    BY <1>6, Zenon
  <2>2. Len(t) = 0
    BY <1>6, <1>7, <2>1
  <2>3. ToSet(t) = {}
    BY <2>2, EmptyToSet, Zenon
  <2>4. QED
    BY <2>1, <2>3
<1>8. /\ ahead' \in Seq(Asic) /\ ToSet(ahead') \subseteq ToSet(list)
      /\ asic' \in ToSet(list) /\ offset' \in 0 .. Len(list)
      /\ \A a \in ToSet(lines) : a = asic' \/ a \in ToSet(ahead')
  BY <1>3, <1>4, <1>5, <1>6, <1>7
<1>9. Busy' = Busy /\ Running' = Running
  BY <1>2 DEF Busy, Running
<1>10. TypeOK'
  BY <1>2, <1>8, <1>9 DEF TypeOK, Busy
<1>11. Types'
  <2>1. \A w \in Worker : w \in Running' => worker'[w].asic \in ToSet(list)
    BY <1>2, <1>9 DEF Types
  <2>2. QED
    BY <1>2, <1>8, <2>1 DEF Types, WorkerRecord
<1>12. SortFirst' /\ PlaceFree' /\ Alone' /\ Adjusted' /\ FailsOnlyAfterRewind' /\ Written'
  BY <1>2 DEF SortFirst, PlaceFree, Alone, Adjusted, FailsOnlyAfterRewind, Written
<1>13. OneFileEach'
  <2>1. SUFFICES ASSUME ~rewound
                 PROVE  offset' = Len(list) /\ nFiles + 1 + Len(ahead') <= Len(list)
    BY <1>2 DEF OneFileEach
  <2>2. CASE Unread
    <3>1. ahead = << >> /\ offset = 0 /\ nFiles = 0 /\ lines = list
      BY <1>1, <1>4, <2>2 DEF Unread
    <3>2. QED
      BY <1>3, <1>5, <1>6, <3>1
  <2>3. CASE offset = Len(list) /\ nFiles + Len(ahead) <= Len(list)
    <3>1. Rest = << >>
      BY <1>4, <2>3, <1>3
    <3>2. ahead # << >> /\ lines = ahead
      BY <1>1, <1>5, <3>1
    <3>3. Len(ahead') = Len(ahead) - 1
      BY <1>5, <1>6, <3>1, <3>2
    <3>4. nFiles \in Nat /\ Len(ahead) \in Nat
      BY <1>3 DEF TypeOK
    <3>5. offset' = Len(list)
      BY <1>5, <2>3
    <3>6. nFiles + 1 + Len(ahead') = nFiles + Len(ahead)
      BY <3>3, <3>4
    <3>7. QED
      BY <2>3, <3>5, <3>6
  <2>4. Unread \/ (offset = Len(list) /\ nFiles + 0 + Len(ahead) <= Len(list))
    BY <1>2, <2>1 DEF OneFileEach
  <2>5. nFiles \in Nat /\ nFiles + 0 = nFiles
    BY DEF TypeOK
  <2>6. QED
    BY <2>2, <2>3, <2>4, <2>5
<1>14. /\ TableSoFar' /\ OffsetSoFar'
       /\ \A x \in Worker, a \in Asic : RunsOn(x, a)' = RunsOn(x, a)
       /\ \A a \in Asic : Expected(a)' = Expected(a)
  <2>1. \A x \in Worker : worker'[x] = worker[x]
    BY <1>2
  <2>2. QED
    BY <1>2, <2>1, RowsKept
<1>15. NoneForgotten'
  <2>1. SUFFICES ASSUME NEW a \in ToSet(list)
        PROVE  \/ a \in ToSet(ahead') \/ asic' = a \/ a \in died \/ forkFailures > 0
               \/ \E w \in Worker : RunsOn(w, a)'
               \/ valid[a] = Expected(a)'
    BY <1>2 DEF NoneForgotten
  <2>2. CASE Unread
    BY <1>1, <1>4, <1>8, <2>2 DEF Unread
  <2>3. CASE ~Unread
    <3>1. a \in Asic
      BY <1>3
    <3>2. \/ a \in ToSet(ahead) \/ a \in died \/ forkFailures > 0
          \/ \E w \in Worker : RunsOn(w, a)
          \/ valid[a] = Expected(a)
      BY <1>2, <2>3 DEF NoneForgotten
    <3>3. CASE a \in ToSet(ahead)
      <4>1. ahead # << >>
        BY <3>3 DEF ToSet
      <4>2. QED
        BY <1>1, <1>8, <3>3, <4>1
    <3>4. QED
      BY <1>14, <3>1, <3>2, <3>3
  <2>4. QED
    BY <2>2, <2>3
<1>16. QED
  BY <1>10, <1>11, <1>12, <1>13, <1>14, <1>15

LEMMA ReadingEnds ==
  ASSUME CalibInv, EndOfList
  PROVE  CalibInv'
<1> USE DEF CalibInv
<1>1. /\ pc = "list" /\ pc' = "drain" /\ ahead = << >> /\ (eof \/ Rest = << >>)
      /\ UNCHANGED <<tool, maxWorkers, events, fits, files, list, ahead, eof, nWorkers, nFiles, asic,
                     offset, worker, valid, t0, output, died, shared, rewound, forkFailures>>
  BY DEF EndOfList, inputVars, tableVars, historyVars
<1>2. Busy' = Busy /\ Running' = Running
  BY <1>1 DEF Busy, Running
<1>3. ASSUME Unread PROVE list = << >> /\ ToSet(list) = {}
  <2>1. list \in Seq(Asic) /\ offset \in 0 .. Len(list)
    BY DEF Types, TypeOK
  <2>2. Rest = list
    BY <1>3, <2>1, RestType DEF Rest, Unread
  <2>3. list = << >>
    BY <1>1, <1>3, <2>2 DEF Unread
  <2>4. QED
    BY <2>3 DEF ToSet
<1>4. ToSet(ahead) = {}
  BY <1>1 DEF ToSet
<1>5. TypeOK'
  BY <1>1, <1>2 DEF TypeOK, Busy
<1>6. Types'
  BY <1>1, <1>2 DEF Types, WorkerRecord
<1>7. SortFirst' /\ PlaceFree' /\ Alone' /\ Adjusted' /\ FailsOnlyAfterRewind' /\ Written'
  BY <1>1 DEF SortFirst, PlaceFree, Alone, Adjusted, FailsOnlyAfterRewind, Written
<1>8. OneFileEach'
  <2>1. SUFFICES ASSUME ~rewound
                 PROVE  offset = Len(list) /\ nFiles + 0 + Len(ahead) <= Len(list)
    BY <1>1 DEF OneFileEach
  <2>2. CASE Unread
    <3>1. offset = 0 /\ nFiles = 0 /\ ahead = << >> /\ list = << >>
      BY <1>3, <2>2, Zenon DEF Unread
    <3>2. QED
      BY <3>1
  <2>3. CASE ~Unread
    BY <1>1, <2>1, <2>3 DEF OneFileEach
  <2>4. QED
    BY <2>2, <2>3
<1>9. /\ TableSoFar' /\ OffsetSoFar'
      /\ \A x \in Worker, a \in Asic : RunsOn(x, a)' = RunsOn(x, a)
      /\ \A a \in Asic : Expected(a)' = Expected(a)
  <2>1. \A x \in Worker : worker'[x] = worker[x]
    BY <1>1
  <2>2. QED
    BY <1>1, <2>1, RowsKept
<1>10. NoneForgotten'
  BY <1>1, <1>3, <1>4, <1>9 DEF NoneForgotten, TypeOK
<1>11. QED
  BY <1>5, <1>6, <1>7, <1>8, <1>9, <1>10

LEMMA OpenFailing ==
  ASSUME CalibInv, OpenFails
  PROVE  CalibInv'
<1> USE DEF CalibInv
<1>1. /\ pc = "fork" /\ pc' = "failed" /\ nFiles = MaxFiles
      /\ UNCHANGED <<tool, maxWorkers, events, fits, files, list, ahead, eof, nWorkers, nFiles, asic,
                     offset, worker, valid, t0, output, died, shared, rewound, forkFailures>>
  BY DEF OpenFails, inputVars, tableVars, historyVars
<1>2. Busy' = Busy /\ Running' = Running /\ ~Unread
  BY <1>1 DEF Busy, Running, Unread
<1>3. rewound
  <2>1. SUFFICES ASSUME ~rewound PROVE FALSE
    OBVIOUS
  <2>2. nFiles + 1 + Len(ahead) <= Len(list) /\ Len(list) <= Cardinality(Asic)
    BY <1>1, <1>2, <2>1 DEF OneFileEach, Types
  <2>3. MaxFiles \in Nat /\ MaxFiles >= Cardinality(Asic) /\ Cardinality(Asic) \in Nat
    BY CalibrationAssumption, FS_CardinalityType DEF CalibrationAssumption
  <2>4. Len(ahead) \in Nat /\ Len(list) \in Nat
    BY DEF Types
  <2>5. QED
    BY <1>1, <2>2, <2>3, <2>4
<1>4. TypeOK'
  BY <1>1, <1>2 DEF TypeOK, Busy
<1>5. Types'
  BY <1>1, <1>2 DEF Types, WorkerRecord
<1>6. SortFirst' /\ PlaceFree' /\ Alone' /\ Adjusted' /\ FailsOnlyAfterRewind' /\ Written' /\ OneFileEach'
  BY <1>1, <1>3 DEF SortFirst, PlaceFree, Alone, Adjusted, FailsOnlyAfterRewind, Written, OneFileEach
<1>7. /\ TableSoFar' /\ OffsetSoFar'
      /\ \A x \in Worker, a \in Asic : RunsOn(x, a)' = RunsOn(x, a)
      /\ \A a \in Asic : Expected(a)' = Expected(a)
  <2>1. \A x \in Worker : worker'[x] = worker[x]
    BY <1>1
  <2>2. QED
    BY <1>1, <2>1, RowsKept
<1>8. NoneForgotten'
  BY <1>1, <1>2, <1>7 DEF NoneForgotten, TypeOK
<1>9. QED
  BY <1>4, <1>5, <1>6, <1>7, <1>8

LEMMA Forking ==
  ASSUME CalibInv, NEW w \in Worker, Fork(w)
  PROVE  CalibInv'
<1> USE DEF CalibInv
<1>1. /\ pc = "fork" /\ pc' = "wait" /\ nFiles < MaxFiles /\ worker[w] = NoWorker
      /\ nFiles' = nFiles + 1 /\ nWorkers' = nWorkers + 1
      /\ shared' = IF \E x \in Worker : worker[x].asic = asic /\ worker[x].pc # "zombie"
                   THEN shared \cup {asic} ELSE shared
      /\ UNCHANGED <<tool, maxWorkers, events, fits, files, list, ahead, eof, asic,
                     offset, valid, t0, output, died, rewound, forkFailures>>
  BY DEF Fork, inputVars, tableVars
<1>2. PICK r : r = [asic |-> asic, pc |-> "fit", iter |-> 0, found |-> NoT0, ahead |-> ahead]
  BY Zenon
<1>3. asic \in ToSet(list) /\ asic \in Asic
  BY <1>1 DEF Types, TypeOK
<1>4. r \in WorkerRecord /\ r.asic = asic /\ r.pc = "fit" /\ r.iter = 0 /\ r # NoWorker
  <2>1. r.asic = asic /\ r.pc = "fit" /\ r.iter = 0
    BY <1>2
  <2>2. r \in WorkerRecord
    BY <1>2, <1>3, NoT0Type DEF WorkerRecord, Types
  <2>3. r # NoWorker
    BY <2>1 DEF NoWorker
  <2>4. QED
    BY <2>1, <2>2, <2>3
<1>5. /\ worker' \in [Worker -> WorkerRecord] /\ worker'[w] = r
      /\ \A x \in Worker : x # w => worker'[x] = worker[x]
  <2>1. worker' = [worker EXCEPT ![w] = r]
    BY <1>2 DEF Fork
  <2>2. QED
    BY <1>4, <2>1 DEF Types
<1>6. worker[w].asic = -1 /\ worker[w].pc = "none" /\ -1 \notin Asic
  BY <1>1, CalibrationAssumption DEF NoWorker, CalibrationAssumption
<1>7. Busy' = Busy \cup {w} /\ w \notin Busy /\ Running' = Running \cup {w}
  BY <1>1, <1>4, <1>5, <1>6 DEF Busy, Running
<1>8. /\ nWorkers \in Nat /\ nWorkers' \in Nat
      /\ nWorkers' = Cardinality(Busy') + forkFailures
  <2>1. Cardinality(Busy') = Cardinality(Busy) + 1 /\ Cardinality(Busy) \in Nat
    BY <1>7, BusyCount, FS_AddElement, Zenon DEF Busy
  <2>2. nWorkers = Cardinality(Busy) + forkFailures /\ forkFailures \in Nat
    BY DEF TypeOK, Types, Busy
  <2>3. QED
    BY <1>1, <2>1, <2>2
<1>9. ~Unread /\ ~Unread'
  BY <1>1 DEF Unread
<1>10. \A a \in Asic : Expected(a)' = Expected(a)
  BY <1>1 DEF Expected
<1>11. TypeOK'
  <2>1. nWorkers + 1 <= Max({maxWorkers, 1})
    BY <1>1, <1>8, MaxOf DEF PlaceFree, Types
  <2>2. nFiles + 1 \in 0 .. MaxFiles
    BY <1>1, CalibrationAssumption DEF TypeOK, CalibrationAssumption
  <2>3. QED
    BY <1>1, <1>8, <2>1, <2>2 DEF TypeOK, Busy
<1>12. Types'
  <2>1. \A x \in Worker : worker'[x].pc = "none" <=> worker'[x] = NoWorker
    BY <1>4, <1>5 DEF Types
  <2>2. \A x \in Worker : x \in Running' => worker'[x].asic \in ToSet(list)
    BY <1>3, <1>4, <1>5, <1>7 DEF Types
  <2>3. \A x \in Worker : /\ worker'[x].pc \in {"measure", "correct", "zero"} => tool = "tdc"
                          /\ worker'[x].pc = "fit" => worker'[x].iter = 0
    BY <1>4, <1>5 DEF Types
  <2>4. QED
    BY <1>1, <1>5, <2>1, <2>2, <2>3 DEF Types, WorkerRecord
<1>13. SortFirst' /\ PlaceFree' /\ Alone' /\ Adjusted' /\ FailsOnlyAfterRewind'
  BY <1>1 DEF SortFirst, PlaceFree, Alone, Adjusted, FailsOnlyAfterRewind
<1>14. Written'
  BY <1>1 DEF Written
<1>15. OneFileEach'
  <2>1. SUFFICES ASSUME ~rewound
                 PROVE  offset = Len(list) /\ (nFiles + 1) + 0 + Len(ahead) <= Len(list)
    BY <1>1 DEF OneFileEach
  <2>2. offset = Len(list) /\ nFiles + 1 + Len(ahead) <= Len(list)
    BY <1>1, <1>9, <2>1 DEF OneFileEach
  <2>3. nFiles \in Nat /\ Len(ahead) \in Nat /\ Len(list) \in Nat
    BY DEF TypeOK, Types
  <2>4. QED
    BY <2>2, <2>3
<1>16. \A x \in Worker, a \in Asic : RunsOn(x, a)' <=> RunsOn(x, a) \/ (x = w /\ a = asic)
  BY <1>4, <1>5, <1>6, <1>7 DEF RunsOn, Running
<1>17. NoneForgotten'
  <2>1. SUFFICES ASSUME NEW a \in ToSet(list)
        PROVE  \/ a \in ToSet(ahead) \/ a \in died \/ forkFailures > 0
               \/ \E x \in Worker : RunsOn(x, a)'
               \/ valid[a] = Expected(a)'
    BY <1>1 DEF NoneForgotten
  <2>2. a \in Asic
    BY DEF TypeOK
  <2>3. \/ a \in ToSet(ahead) \/ a = asic \/ a \in died \/ forkFailures > 0
        \/ \E x \in Worker : RunsOn(x, a)
        \/ valid[a] = Expected(a)
    BY <1>1, <1>9 DEF NoneForgotten
  <2>4. QED
    BY <1>10, <1>16, <2>2, <2>3
<1>18. TableSoFar'
  <2>1. SUFFICES ASSUME NEW b \in Asic
        PROVE  /\ b \notin ToSet(list) => valid[b] = {}
               /\ b \notin died =>
                    /\ valid[b] \in {{}, fits[b], Expected(b)}
                    /\ \A x \in Worker :
                         worker'[x].asic = b /\ worker'[x].pc \in {"measure", "correct", "zero", "exit"}
                           => valid[b] \in {fits[b], Expected(b)}
                    /\ (\A x \in Worker : worker'[x].asic = b =>
                          worker'[x].pc \notin {"measure", "correct", "zero"})
                         => valid[b] \in {{}, Expected(b)}
    BY <1>1, <1>10 DEF TableSoFar
  <2>2. \A x \in Worker : worker'[x].pc # "fit" => worker'[x] = worker[x]
    BY <1>4, <1>5
  <2>3. \A x \in Worker : worker[x].asic = b => worker'[x] = worker[x]
    BY <1>5, <1>6
  <2>4. QED
    BY <2>2, <2>3 DEF TableSoFar
<1>19. OffsetSoFar'
  <2>1. SUFFICES ASSUME NEW b \in Asic, b \notin died \cup shared'
        PROVE  /\ \A v, x \in Worker : RunsOn(v, b)' /\ RunsOn(x, b)' => v = x
               /\ \A x \in Worker : worker'[x].asic = b =>
                    /\ worker'[x].pc = "measure" /\ worker'[x].iter # 0 => t0[b] = TrueT0(b)
                    /\ worker'[x].pc = "correct" => Moved(t0[b], worker'[x].found) = TrueT0(b)
                    /\ worker'[x].pc = "zero" => t0[b] = TrueT0(b)
                    /\ worker'[x].pc = "exit" /\ tool = "tdc" => t0[b] = TrueT0(b)
               /\ /\ tool = "tdc" /\ pc' \notin {"write", "delete", "done"} /\ valid[b] # {}
                  /\ \A x \in Worker : ~RunsOn(x, b)'
                  => t0[b] = TrueT0(b)
    BY <1>1 DEF OffsetSoFar, TrueT0
  <2>2. b \in Asic \ (died \cup shared)
    BY <1>1, <2>1
  <2>3. ASSUME b = asic, NEW x \in Worker PROVE ~RunsOn(x, b)
    BY <1>1, <2>1, <2>3 DEF RunsOn, Running
  <2>4. \A v, x \in Worker : RunsOn(v, b)' /\ RunsOn(x, b)' => v = x
    BY <1>16, <2>2, <2>3 DEF OffsetSoFar
  <2>5. \A x \in Worker : worker'[x].pc # "fit" => worker'[x] = worker[x]
    BY <1>4, <1>5
  <2>6. (\A x \in Worker : ~RunsOn(x, b)') => (\A x \in Worker : ~RunsOn(x, b))
    BY <1>16, <2>2
  <2>7. QED
    BY <1>1, <2>2, <2>4, <2>5, <2>6 DEF OffsetSoFar
<1>20. QED
  BY <1>11, <1>12, <1>13, <1>14, <1>15, <1>17, <1>18, <1>19

LEMMA Reaping ==
  ASSUME CalibInv, NEW w \in Worker, Reap(w), pc \in {"wait", "drain"},
         UNCHANGED <<inputVars, files, list, pc, ahead, eof, nFiles, asic, offset, tableVars,
                     output, historyVars>>
  PROVE  CalibInv'
<1> USE DEF CalibInv
<1>1. /\ UNCHANGED <<tool, maxWorkers, events, fits, files, list, pc, ahead, eof, nFiles, asic,
                     offset, valid, t0, output, died, shared, rewound, forkFailures>>
      /\ worker[w].pc = "zombie" /\ nWorkers' = nWorkers - 1
      /\ worker' = [worker EXCEPT ![w] = NoWorker]
  BY DEF Reap, inputVars, tableVars, historyVars
<1>2. NoWorker \in WorkerRecord /\ NoWorker.pc = "none"
  BY NoT0Type DEF NoWorker, WorkerRecord
<1>3. /\ worker' \in [Worker -> WorkerRecord] /\ worker'[w] = NoWorker
      /\ \A x \in Worker : x # w => worker'[x] = worker[x]
  BY <1>1, <1>2 DEF Types
<1>4. worker[w] # NoWorker
  BY <1>1, <1>2
<1>5. Busy' = Busy \ {w} /\ w \in Busy /\ Running' = Running /\ ~Unread /\ ~Unread'
  BY <1>1, <1>2, <1>3, <1>4 DEF Busy, Running, Unread
<1>6. nWorkers - 1 = Cardinality(Busy') + forkFailures /\ nWorkers \in Nat
  <2>1. Busy \in SUBSET Worker /\ nWorkers = Cardinality(Busy) + forkFailures /\ forkFailures \in Nat
    BY DEF TypeOK, Types, Busy
  <2>2. PICK B : B = Busy
    OBVIOUS
  <2>3. Cardinality(B \ {w}) = Cardinality(B) - 1
    BY <1>5, <2>1, <2>2, BusyCount, FS_RemoveElement
  <2>4. Cardinality(Busy') = Cardinality(Busy) - 1 /\ Cardinality(Busy) \in Nat
    BY <1>5, <2>1, <2>2, <2>3, BusyCount
  <2>5. QED
    BY <2>1, <2>4
<1>7. TypeOK'
  <2>1. nWorkers - 1 <= Max({maxWorkers, 1})
    <3>1. nWorkers <= Max({maxWorkers, 1}) /\ Max({maxWorkers, 1}) \in Nat
      BY MaxOf DEF TypeOK, Types
    <3>2. QED
      BY <1>6, <3>1
  <2>2. QED
    BY <1>1, <1>6, <2>1 DEF TypeOK, Busy
<1>8. Types'
  <2>1. \A x \in Worker : worker'[x].pc = "none" <=> worker'[x] = NoWorker
    BY <1>2, <1>3 DEF Types
  <2>2. \A x \in Worker : x \in Running' => worker'[x].asic \in ToSet(list)
    BY <1>1, <1>3, <1>5 DEF Types, Running
  <2>3. \A x \in Worker : /\ worker'[x].pc \in {"measure", "correct", "zero"} => tool = "tdc"
                          /\ worker'[x].pc = "fit" => worker'[x].iter = 0
    BY <1>2, <1>3 DEF Types
  <2>4. QED
    BY <1>1, <1>3, <2>1, <2>2, <2>3 DEF Types, WorkerRecord
<1>9. SortFirst' /\ PlaceFree' /\ Alone' /\ Adjusted' /\ FailsOnlyAfterRewind' /\ Written'
  BY <1>1 DEF SortFirst, PlaceFree, Alone, Adjusted, FailsOnlyAfterRewind, Written, NValid, ValidOf
<1>10. OneFileEach'
  BY <1>1, <1>5 DEF OneFileEach
<1>11. /\ TableSoFar' /\ OffsetSoFar'
       /\ \A x \in Worker, a \in Asic : RunsOn(x, a)' = RunsOn(x, a)
       /\ \A a \in Asic : Expected(a)' = Expected(a)
  BY <1>1, <1>3, RowsKept
<1>12. NoneForgotten'
  BY <1>1, <1>5, <1>11 DEF NoneForgotten, TypeOK
<1>13. QED
  BY <1>7, <1>8, <1>9, <1>10, <1>11, <1>12

\* The parent counts its workers and those it could not fork.
LEMMA CountType ==
  ASSUME TypeOK, Types
  PROVE  /\ nWorkers = Cardinality(Busy) + forkFailures
         /\ forkFailures \in Nat /\ Cardinality(Busy) \in Nat
         /\ nWorkers \in Nat /\ maxWorkers \in Nat
<1>1. nWorkers = Cardinality(Busy) + forkFailures /\ forkFailures \in Nat /\ maxWorkers \in Nat
  BY DEF TypeOK, Types, Busy
<1>2. Cardinality(Busy) \in Nat
  BY BusyCount DEF Busy
<1>3. QED
  BY <1>1, <1>2

LEMMA ForkFailing ==
  ASSUME CalibInv, ForkFails
  PROVE  CalibInv'
<1> USE DEF CalibInv
<1>1. /\ pc = "fork" /\ pc' = "wait" /\ nFiles < MaxFiles
      /\ nFiles' = nFiles + 1 /\ nWorkers' = nWorkers + 1 /\ forkFailures' = forkFailures + 1
      /\ UNCHANGED <<tool, maxWorkers, events, fits, files, list, ahead, eof, asic,
                     offset, worker, valid, t0, output, died, shared, rewound>>
  BY DEF ForkFails, inputVars, tableVars
<1>2. Busy' = Busy /\ Running' = Running /\ ~Unread
  BY <1>1 DEF Busy, Running, Unread
<1>3. nWorkers \in Nat /\ forkFailures \in Nat /\ Cardinality(Busy) \in Nat
      /\ nWorkers = Cardinality(Busy) + forkFailures
  BY CountType
<1>4. forkFailures' \in Nat /\ forkFailures' > 0 /\ nWorkers' = Cardinality(Busy') + forkFailures'
  BY <1>1, <1>2, <1>3
<1>5. TypeOK'
  <2>1. nWorkers + 1 <= Max({maxWorkers, 1})
    BY <1>1, <1>3, MaxOf DEF PlaceFree, Types
  <2>2. nFiles + 1 \in 0 .. MaxFiles
    BY <1>1, CalibrationAssumption DEF TypeOK, CalibrationAssumption
  <2>3. QED
    BY <1>1, <1>4, <2>1, <2>2 DEF TypeOK, Busy
<1>6. Types'
  BY <1>1, <1>2, <1>4 DEF Types, WorkerRecord
<1>7. /\ SortFirst' /\ PlaceFree' /\ Alone' /\ Adjusted' /\ Written' /\ FailsOnlyAfterRewind'
      /\ NoneForgotten'
  BY <1>1, <1>4 DEF SortFirst, PlaceFree, Alone, Adjusted, Written, FailsOnlyAfterRewind, NoneForgotten
<1>8. OneFileEach'
  <2>1. SUFFICES ASSUME ~rewound
                 PROVE  offset = Len(list) /\ (nFiles + 1) + 0 + Len(ahead) <= Len(list)
    BY <1>1 DEF OneFileEach
  <2>2. offset = Len(list) /\ nFiles + 1 + Len(ahead) <= Len(list)
    BY <1>1, <1>2, <2>1 DEF OneFileEach
  <2>3. nFiles \in Nat /\ Len(ahead) \in Nat /\ Len(list) \in Nat
    BY DEF TypeOK, Types
  <2>4. QED
    BY <2>2, <2>3
<1>9. TableSoFar' /\ OffsetSoFar'
  <2>1. \A x \in Worker : worker'[x] = worker[x]
    BY <1>1
  <2>2. QED
    BY <1>1, <2>1, RowsKept
<1>10. QED
  BY <1>5, <1>6, <1>7, <1>8, <1>9

LEMMA Waiting ==
  ASSUME CalibInv, Wait
  PROVE  CalibInv'
<1> USE DEF CalibInv
<1>1. UNCHANGED <<tool, maxWorkers, events, fits, files, list, ahead, eof, nFiles, asic,
                  offset, valid, t0, output, died, shared, rewound, forkFailures>>
  BY DEF Wait, inputVars, tableVars, historyVars
<1>2. ASSUME UNCHANGED <<nWorkers, worker>>,
             \/ pc = "wait" /\ pc' = "list" /\ nWorkers < maxWorkers
             \/ pc = "drain" /\ pc' = "adjust" /\ nWorkers = 0
             \/ pc \in {"wait", "drain"} /\ pc' = "failed" /\ (maxWorkers = 0 \/ rewound \/ forkFailures > 0)
      PROVE  CalibInv'
  <2>1. Busy' = Busy /\ Running' = Running /\ ~Unread
    BY <1>2 DEF Busy, Running, Unread
  <2>2. Types' /\ TypeOK'
    BY <1>1, <1>2, <2>1 DEF TypeOK, Types, WorkerRecord, Busy
  <2>3. SortFirst' /\ Adjusted' /\ FailsOnlyAfterRewind' /\ Written'
    BY <1>1, <1>2 DEF SortFirst, Adjusted, FailsOnlyAfterRewind, Written
  <2>4. PlaceFree'
    <3>1. nWorkers \in Nat /\ maxWorkers \in Nat
      BY CountType
    <3>2. QED
      BY <1>1, <1>2, <3>1, MaxOf DEF PlaceFree
  <2>5. Alone'
    <3>1. nWorkers = 0 => Busy = {} /\ forkFailures = 0
      BY CountType, BusyCount DEF Busy
    <3>2. QED
      BY <1>1, <1>2, <2>1, <3>1 DEF Alone
  <2>6. OneFileEach'
    BY <1>1, <1>2, <2>1 DEF OneFileEach
  <2>7. /\ TableSoFar' /\ OffsetSoFar'
        /\ \A x \in Worker, a \in Asic : RunsOn(x, a)' = RunsOn(x, a)
        /\ \A a \in Asic : Expected(a)' = Expected(a)
    <3>1. \A x \in Worker : worker'[x] = worker[x]
      BY <1>2
    <3>2. QED
      BY <1>1, <1>2, <3>1, RowsKept
  <2>8. NoneForgotten'
    BY <1>1, <1>2, <2>1, <2>7 DEF NoneForgotten, TypeOK
  <2>9. QED
    BY <2>2, <2>3, <2>4, <2>5, <2>6, <2>7, <2>8
<1>3. ASSUME NEW w \in Worker, Reap(w), UNCHANGED pc, pc \in {"wait", "drain"}
      PROVE  CalibInv'
  BY <1>3, Reaping DEF Wait
<1>4. ASSUME \A w \in Worker : worker[w] = NoWorker PROVE nWorkers = 0 \/ forkFailures > 0
  <2>1. Busy = {}
    BY <1>4 DEF Busy
  <2>2. QED
    BY <2>1, BusyCount, CountType DEF Busy
<1>5. nWorkers \in Nat /\ maxWorkers \in Nat
  BY CountType
<1>6. CASE pc = "wait" /\ WaitWhile(nWorkers >= maxWorkers, "list")
  <2>1. CASE ~(nWorkers >= maxWorkers) /\ pc' = "list" /\ UNCHANGED <<nWorkers, worker>>
    BY <1>2, <1>5, <1>6, <2>1
  <2>2. CASE UNCHANGED pc /\ \E w \in Worker : Reap(w)
    BY <1>3, <1>6, <2>2
  <2>3. CASE /\ nWorkers >= maxWorkers /\ \A w \in Worker : worker[w] = NoWorker
             /\ pc' = "failed" /\ UNCHANGED <<nWorkers, worker>>
    BY <1>2, <1>4, <1>5, <1>6, <2>3
  <2>4. QED
    BY <1>6, <2>1, <2>2, <2>3 DEF WaitWhile
<1>7. CASE pc = "drain" /\ WaitWhile(~Drained, "adjust")
  <2>1. CASE Drained /\ pc' = "adjust" /\ UNCHANGED <<nWorkers, worker>>
    BY <1>2, <1>7, <2>1 DEF Drained
  <2>2. CASE UNCHANGED pc /\ \E w \in Worker : Reap(w)
    BY <1>3, <1>7, <2>2
  <2>3. CASE /\ ~Drained /\ \A w \in Worker : worker[w] = NoWorker
             /\ pc' = "failed" /\ UNCHANGED <<nWorkers, worker>>
    BY <1>2, <1>4, <1>7, <2>3 DEF Drained
  <2>4. QED
    BY <1>7, <2>1, <2>2, <2>3 DEF WaitWhile
<1>8. QED
  BY <1>6, <1>7 DEF Wait

----------------------------------------------------------------------------
(* The end of the program. *)

LEMMA NValidType ==
  ASSUME TypeOK, NEW b \in Branch
  PROVE  /\ \A a \in Asic : Cardinality(ValidOf(a, b)) \in Nat
         /\ NValid(b) \in Int
<1>1. IsFiniteSet(Converter)
  BY CalibrationAssumption, FS_Product DEF Converter, CalibrationAssumption
<1>2. \A a \in Asic : Cardinality(ValidOf(a, b)) \in Nat
  <2>1. \A a \in Asic : ValidOf(a, b) \subseteq Converter
    BY DEF TypeOK, ValidOf
  <2>2. QED
    BY <1>1, <2>1, FS_Subset, FS_CardinalityType
<1>3. [a \in Asic |-> Cardinality(ValidOf(a, b))] \in [Asic -> Int]
  BY <1>2
<1>4. IsFiniteSet(Asic)
  BY CalibrationAssumption DEF CalibrationAssumption
<1>5. QED
  BY <1>2, <1>3, <1>4, SumType DEF NValid

LEMMA Adjusting ==
  ASSUME CalibInv, AdjustCalibrationTable
  PROVE  CalibInv'
<1> USE DEF CalibInv
<1>1. /\ pc = "adjust" /\ pc' = "write"
      /\ UNCHANGED <<tool, maxWorkers, events, fits, files, list, ahead, eof, nWorkers, nFiles, asic,
                     offset, worker, valid, output, died, shared, rewound, forkFailures>>
  BY DEF AdjustCalibrationTable, inputVars, historyVars
<1> DEFINE Sum(b) == SumFunction([a \in Asic |-> Cardinality(ValidOf(a, b)) * t0[a][b]])
           New(a, s) == [b \in Branch |-> NValid(b) * t0[a][b] - s[b]]
<1>2. PICK s \in [Branch -> Int] :
        t0' = IF tool = "tdc" THEN [a \in Asic |-> New(a, s)] ELSE t0
  <2>1. ASSUME NEW b \in Branch PROVE Sum(b) \in Int
    <3>1. \A a \in Asic : Cardinality(ValidOf(a, b)) \in Nat /\ t0[a][b] \in Int
      BY NValidType DEF TypeOK
    <3>2. [a \in Asic |-> Cardinality(ValidOf(a, b)) * t0[a][b]] \in [Asic -> Int]
      BY <3>1
    <3>3. IsFiniteSet(Asic)
      BY CalibrationAssumption DEF CalibrationAssumption
    <3>4. QED
      BY <3>2, <3>3, SumType
  <2>2. t0' = IF tool = "tdc"
              THEN [a \in Asic |-> [b \in Branch |-> NValid(b) * t0[a][b] - Sum(b)]] ELSE t0
    BY Zenon DEF AdjustCalibrationTable
  <2> HIDE DEF Sum
  <2>3. PICK s \in [Branch -> Int] : s = [b \in Branch |-> Sum(b)]
    BY <2>1
  <2>4. \A a \in Asic : New(a, s) = [b \in Branch |-> NValid(b) * t0[a][b] - Sum(b)]
    BY <2>3
  <2>5. QED
    BY <2>2, <2>4, Zenon
<1>3. \A a \in Asic : New(a, s) \in [Branch -> Int]
  BY NValidType DEF TypeOK
<1> HIDE DEF New
<1>4. Busy = {} /\ Busy' = {} /\ Running' = Running /\ ~Unread
  BY <1>1 DEF Alone, Busy, Running, Unread
<1>5. \A w \in Worker : worker'[w] = NoWorker /\ worker[w] = NoWorker /\ w \notin Running
  BY <1>1, <1>4 DEF Busy, Running, NoWorker
<1>6. t0' \in [Asic -> [Branch -> Int]]
  BY <1>2, <1>3 DEF TypeOK
<1>7. TypeOK'
  BY <1>1, <1>4, <1>6 DEF TypeOK, Busy
<1>8. Types'
  BY <1>1, <1>4 DEF Types, WorkerRecord
<1>9. SortFirst' /\ PlaceFree' /\ Alone' /\ FailsOnlyAfterRewind' /\ Written'
  BY <1>1, <1>4 DEF SortFirst, PlaceFree, Alone, FailsOnlyAfterRewind, Written
<1>10. OneFileEach'
  BY <1>1, <1>4 DEF OneFileEach
<1>11. \A a \in Asic : Expected(a)' = Expected(a)
  BY <1>1 DEF Expected
<1>12. NoneForgotten' /\ TableSoFar'
  <2>1. \A a \in Asic : ~\E w \in Worker : RunsOn(w, a)
    BY <1>5 DEF RunsOn
  <2>2. NoneForgotten'
    BY <1>1, <1>4, <1>11, <2>1 DEF NoneForgotten, TypeOK
  <2>3. TableSoFar'
    BY <1>1, <1>11 DEF TableSoFar
  <2>4. QED
    BY <2>2, <2>3
<1>13. OffsetSoFar'
  <2>1. -1 \notin Asic
    BY CalibrationAssumption DEF CalibrationAssumption
  <2>2. QED
    BY <1>1, <1>5, <2>1 DEF OffsetSoFar, RunsOn, Running, NoWorker
<1>14. Adjusted'
  <2>1. SUFFICES ASSUME tool = "tdc", NEW a \in Asic \ (died \cup shared), valid[a] # {}
                 PROVE  t0'[a] = Shifted(a, s)
    <3>1. \A a \in Asic : Shifted(a, s)' = Shifted(a, s)
      BY <1>1 DEF Shifted, NValid, ValidOf
    <3>2. QED
      BY <1>1, <1>2, <3>1 DEF Adjusted, AdjustedBy
  <2>2. t0[a] = TrueT0(a)
    BY <1>1, <1>5, <2>1 DEF OffsetSoFar, RunsOn
  <2>3. QED
    BY <1>2, <2>1, <2>2 DEF New, Shifted
<1>15. QED
  BY <1>7, <1>8, <1>9, <1>10, <1>12, <1>13, <1>14

LEMMA AdjustedKept ==
  ASSUME Adjusted, UNCHANGED <<tool, valid, t0, died, shared>>,
         pc' \in {"write", "delete", "done"} => pc \in {"write", "delete", "done"}
  PROVE  Adjusted'
<1>1. \A s \in [Branch -> Int], a \in Asic : Shifted(a, s)' = Shifted(a, s)
  BY DEF Shifted, NValid, ValidOf
<1>2. ASSUME NEW s \in [Branch -> Int], AdjustedBy(s) PROVE AdjustedBy(s)'
  BY <1>1, <1>2 DEF AdjustedBy
<1>3. QED
  BY <1>2 DEF Adjusted

LEMMA Ended ==
  ASSUME CalibInv, WriteCalibrationTable \/ DeleteTemporaryFiles
  PROVE  CalibInv'
<1> USE DEF CalibInv
<1>1. /\ pc \in {"write", "delete"} /\ pc' \in {"delete", "done"} /\ files' \subseteq files
      /\ UNCHANGED <<tool, maxWorkers, events, fits, list, ahead, eof, nWorkers, nFiles, asic,
                     offset, worker, valid, t0, died, shared, rewound, forkFailures>>
      /\ output' = output \/ output' = [valid |-> valid, t0 |-> t0, unit |-> [b \in Branch |-> NValid(b)]]
  BY DEF WriteCalibrationTable, DeleteTemporaryFiles, inputVars, tableVars, historyVars
<1>2. Busy' = Busy /\ Busy = {} /\ Running' = Running /\ ~Unread
  BY <1>1 DEF Alone, Busy, Running, Unread
<1>3. TypeOK'
  BY <1>1, <1>2 DEF TypeOK, Busy
<1>4. Types'
  BY <1>1, <1>2 DEF Types, WorkerRecord
<1>5. SortFirst' /\ PlaceFree' /\ Alone' /\ FailsOnlyAfterRewind'
  BY <1>1, <1>2 DEF SortFirst, PlaceFree, Alone, FailsOnlyAfterRewind
<1>6. \A b \in Branch : NValid(b)' = NValid(b)
  BY <1>1 DEF NValid, ValidOf
<1>7. Written'
  <2>1. [b \in Branch |-> NValid(b)]' = [b \in Branch |-> NValid(b)]
    BY <1>6
  <2>2. QED
    BY <1>1, <2>1 DEF Written
<1>8. Adjusted'
  BY <1>1, AdjustedKept
<1>9. OneFileEach'
  BY <1>1, <1>2 DEF OneFileEach
<1>10. /\ TableSoFar' /\ OffsetSoFar'
       /\ \A x \in Worker, a \in Asic : RunsOn(x, a)' = RunsOn(x, a)
       /\ \A a \in Asic : Expected(a)' = Expected(a)
  <2>1. \A x \in Worker : worker'[x] = worker[x]
    BY <1>1
  <2>2. QED
    BY <1>1, <2>1, RowsKept
<1>11. NoneForgotten'
  BY <1>1, <1>2, <1>10 DEF NoneForgotten, TypeOK
<1>12. QED
  BY <1>3, <1>4, <1>5, <1>7, <1>8, <1>9, <1>10, <1>11

----------------------------------------------------------------------------
(* The theorems. *)

LEMMA CalibInit == Init => CalibInv
<1> SUFFICES ASSUME Init PROVE CalibInv
  OBVIOUS
<1>1. /\ tool \in {"tdc", "qdc"} /\ maxWorkers \in Nat /\ events \subseteq Asic
      /\ files = {} /\ list = << >> /\ pc = "sort" /\ ahead = << >> /\ eof = FALSE /\ offset = 0
      /\ nWorkers = 0 /\ nFiles = 0 /\ worker = [w \in Worker |-> NoWorker]
      /\ valid = [a \in Asic |-> {}] /\ t0 = [a \in Asic |-> NoT0]
      /\ output = NoOutput /\ rewound = FALSE /\ forkFailures = 0
  <2>1. Cardinality(Worker) \in Nat
    BY BusyCount
  <2>2. QED
    BY <2>1 DEF Init
<1>2. fits \in [Asic -> SUBSET Converter]
  BY DEF Init
<1>3. Busy = {} /\ \A w \in Worker : worker[w] = NoWorker /\ w \notin Running
  BY <1>1 DEF Busy, Running, NoWorker
<1>4. Unread
  BY <1>1, <1>3 DEF Unread
<1>5. -1 \notin Asic /\ MaxFiles \in Nat /\ Cardinality(Asic) \in Nat
  BY CalibrationAssumption, FS_CardinalityType DEF CalibrationAssumption
<1>6. NoWorker \in WorkerRecord /\ NoWorker.pc = "none" /\ NoWorker.asic = -1
  BY NoT0Type DEF NoWorker, WorkerRecord
<1>7. TypeOK
  <2>1. Max({maxWorkers, 1}) >= 1 /\ Max({maxWorkers, 1}) \in Nat
    BY <1>1, MaxOf
  <2>2. ToSet(list) = {} /\ ToSet(ahead) = {}
    BY <1>1 DEF ToSet
  <2>3. nWorkers = Cardinality(Busy) + forkFailures
    <3>1. Cardinality(Busy) = 0
      BY <1>3, FS_EmptySet
    <3>2. QED
      BY <1>1, <3>1
  <2>4. QED
    <3>1. offset \in 0 .. Len(list) /\ t0 \in [Asic -> [Branch -> Int]]
      BY <1>1, NoT0Type
    <3>2. QED
      BY <1>1, <1>5, <2>1, <2>2, <2>3, <3>1 DEF TypeOK, Busy
<1>8. Types
  <2>1. worker \in [Worker -> WorkerRecord]
    BY <1>1, <1>6
  <2>2. list \in Seq(Asic) /\ ahead \in Seq(Asic) /\ Len(list) <= Cardinality(Asic)
    BY <1>1, <1>5
  <2>3. QED
    BY <1>1, <1>2, <1>3, <1>6, <2>1, <2>2 DEF Types
<1>9. /\ SortFirst /\ PlaceFree /\ Alone /\ OneFileEach /\ NoneForgotten
      /\ Adjusted /\ Written /\ FailsOnlyAfterRewind
  BY <1>1, <1>4 DEF SortFirst, PlaceFree, Alone, OneFileEach, NoneForgotten, Adjusted, Written,
                    FailsOnlyAfterRewind
<1>10. TableSoFar
  BY <1>1, <1>3, <1>5, <1>6 DEF TableSoFar
<1>11. OffsetSoFar
  BY <1>1, <1>3, <1>5, <1>6 DEF OffsetSoFar, RunsOn
<1>12. QED
  BY <1>7, <1>8, <1>9, <1>10, <1>11 DEF CalibInv

LEMMA CalibStep == CalibInv /\ [Next]_vars => CalibInv'
<1> SUFFICES ASSUME CalibInv, [Next]_vars PROVE CalibInv'
  OBVIOUS
<1>1. CASE Sort
  BY <1>1, Sorting
<1>2. CASE ReadLine
  BY <1>2, Reading
<1>3. CASE EndOfList
  BY <1>3, ReadingEnds
<1>4. CASE OpenFails
  BY <1>4, OpenFailing
<1>5. CASE Wait \/ ForkFails
  BY <1>5, Waiting, ForkFailing
<1>6. ASSUME NEW w \in Worker, Fork(w) PROVE CalibInv'
  BY <1>6, Forking
<1>7. CASE AdjustCalibrationTable
  BY <1>7, Adjusting
<1>8. CASE WriteCalibrationTable \/ DeleteTemporaryFiles
  BY <1>8, Ended
<1>9. ASSUME NEW w \in Worker, Calibrate(w) PROVE CalibInv'
  BY <1>9, Calibrating
<1>10. ASSUME NEW w \in Worker, Leave(w) PROVE CalibInv'
  BY <1>10, Leaving
<1>11. ASSUME NEW w \in Worker, Die(w) PROVE CalibInv'
  BY <1>11, Dying
<1>12. CASE UNCHANGED vars
  <2>1. UNCHANGED <<tool, maxWorkers, events, fits, files, list, pc, ahead, eof, nWorkers, nFiles,
                    asic, offset, worker, valid, t0, output, died, shared, rewound, forkFailures>>
    BY <1>12 DEF vars, inputVars, parentVars, tableVars, historyVars
  <2> USE DEF CalibInv
  <2>2. Busy' = Busy /\ Running' = Running /\ Unread' = Unread
        /\ [b \in Branch |-> NValid(b)]' = [b \in Branch |-> NValid(b)]
    BY <2>1 DEF Busy, Running, Unread, NValid, ValidOf
  <2>3. /\ TableSoFar' /\ OffsetSoFar'
        /\ \A x \in Worker, a \in Asic : RunsOn(x, a)' = RunsOn(x, a)
        /\ \A a \in Asic : Expected(a)' = Expected(a)
    <3>1. \A x \in Worker : worker'[x] = worker[x]
      BY <2>1
    <3>2. QED
      BY <2>1, <3>1, RowsKept
  <2>4. TypeOK' /\ Types'
    <3>1. TypeOK'
      BY <2>1, <2>2 DEF TypeOK, Busy
    <3>2. QED
      BY <2>1, <2>2, <3>1 DEF Types, WorkerRecord
  <2>5. /\ SortFirst' /\ PlaceFree' /\ Alone' /\ OneFileEach' /\ Adjusted' /\ Written'
        /\ FailsOnlyAfterRewind'
    <3>1. Adjusted'
      BY <2>1, AdjustedKept
    <3>2. QED
      BY <2>1, <2>2, <3>1 DEF SortFirst, PlaceFree, Alone, OneFileEach, Written, FailsOnlyAfterRewind
  <2>6. NoneForgotten'
    BY <2>1, <2>2, <2>3 DEF NoneForgotten, TypeOK
  <2>7. QED
    BY <2>3, <2>4, <2>5, <2>6
<1>13. QED
  BY <1>1, <1>2, <1>3, <1>4, <1>5, <1>6, <1>7, <1>8, <1>9, <1>10, <1>11, <1>12 DEF Next, Parent

\* The state of the two programs, in every state: what the parent counts, which line
\* of the list has not been lost, what the table holds and what its offsets mean.
THEOREM CalibrationInvariant == Spec => []CalibInv
BY CalibInit, CalibStep, PTL DEF Spec

\* However many ASICs, processes, deaths and failed forks there are, the parent's count
\* is that of its processes, dead ones too, and of the forks that failed; nobody writes
\* to a table that is being adjusted and written; and the programs fail only for want of
\* memory for one process, after a fork that failed, or after a worker has moved the
\* offset they share.
THEOREM KnowsWorkers == Spec => []ParentKnowsWorkers
<1>1. CalibInv => ParentKnowsWorkers
  BY DEF CalibInv, ParentKnowsWorkers, Alone, TableIsFinal, Running, Busy, NoWorker
<1>2. QED
  BY <1>1, CalibrationInvariant, PTL

\* In whatever order workers run on the table they share, and whatever lines of the
\* list are read twice, each ASIC that lost no worker has its row right.
THEOREM RowsRight == Spec => []CalibratedRight
<1>1. ASSUME CalibInv PROVE CalibratedRight
  <2>1. SUFFICES ASSUME output # NoOutput, NEW a \in Asic \ died
                 PROVE  output.valid[a] = IF a \notin ToSet(list) THEN {} ELSE Expected(a)
    BY Zenon DEF CalibratedRight, Expected
  <2>2. pc \in {"delete", "done"} /\ output.valid = valid
    BY <1>1, <2>1 DEF CalibInv, Written
  <2>3. CASE a \notin ToSet(list)
    BY <1>1, <2>1, <2>2, <2>3 DEF CalibInv, TableSoFar
  <2>4. CASE a \in ToSet(list)
    <3>1. ~Unread
      BY <2>2 DEF Unread
    <3>2. forkFailures = 0 /\ \A w \in Worker : ~RunsOn(w, a)
      BY <1>1, <2>2 DEF CalibInv, Alone, Busy, RunsOn, Running, NoWorker
    <3>3. QED
      BY <1>1, <2>1, <2>2, <2>4, <3>1, <3>2 DEF CalibInv, NoneForgotten
  <2>5. QED
    BY <2>3, <2>4
<1>2. QED
  BY <1>1, CalibrationInvariant, PTL

\* The offsets of two ASICs that no two workers had at once, and that lost none,
\* differ in the table as they do in the data: three passes, each from the table's
\* offset, and one number taken off all of them.
THEOREM OffsetsOfTheData == Spec => []OffsetsRight
<1>1. ASSUME CalibInv PROVE OffsetsRight
  <2>1. SUFFICES ASSUME output # NoOutput, tool = "tdc",
                        NEW a \in {x \in Asic \ (died \cup shared) : output.valid[x] # {}},
                        NEW b \in {x \in Asic \ (died \cup shared) : output.valid[x] # {}},
                        NEW d \in Branch
                 PROVE  output.t0[a][d] - output.t0[b][d] = output.unit[d] * (TrueT0(a)[d] - TrueT0(b)[d])
    BY DEF OffsetsRight
  <2>2. pc \in {"delete", "done"} /\ output.valid = valid /\ output.t0 = t0 /\ output.unit[d] = NValid(d)
    BY <1>1, <2>1 DEF CalibInv, Written
  <2>3. PICK s \in [Branch -> Int] : AdjustedBy(s)
    BY <1>1, <2>1, <2>2 DEF CalibInv, Adjusted
  <2>4. t0[a][d] = NValid(d) * TrueT0(a)[d] - s[d] /\ t0[b][d] = NValid(d) * TrueT0(b)[d] - s[d]
    <3>1. t0[a] = Shifted(a, s) /\ t0[b] = Shifted(b, s)
      BY <2>1, <2>2, <2>3 DEF AdjustedBy
    <3>2. QED
      BY <3>1 DEF Shifted
  <2>5. NValid(d) \in Int /\ TrueT0(a)[d] \in Int /\ TrueT0(b)[d] \in Int /\ s[d] \in Int
    BY <1>1, NValidType, TrueT0Type DEF CalibInv
  <2>6. \A n, x, y, z \in Int : (n * x - z) - (n * y - z) = n * (x - y)
    OBVIOUS
  <2>7. QED
    BY <2>2, <2>4, <2>5, <2>6
<1>2. QED
  BY <1>1, CalibrationInvariant, PTL

----------------------------------------------------------------------------
(* The smallest and the largest of a set of numbers *)

\* The smallest and the largest element of a set of numbers.
MinOf(S, m) == m \in S /\ \A x \in S : m <= x
MaxOfSet(S, m) == m \in S /\ \A x \in S : x <= m

\* Min and Max of a set of bounded numbers are what they are named for.
LEMMA NatMin ==
  ASSUME NEW N \in Nat, NEW S \in SUBSET (0 .. N), S # {}
  PROVE  MinOf(S, Min(S))
<1> DEFINE P == {k \in 0 .. N : \E x \in S : x <= k}
<1>1. PICK k \in P : k = 0 \/ k - 1 \notin P
  <2>1. P \in SUBSET (0 .. N) /\ P # {}
    <3>1. PICK x \in S : TRUE
      BY Zenon
    <3>2. x \in P
      BY <3>1
    <3> QED
      BY <3>2
  <2> HIDE DEF P
  <2> QED
    BY <2>1, LeastOf
<1>2. k \in S /\ \A x \in S : k <= x
  BY <1>1
<1> QED
  BY <1>2, Zenon DEF Min, MinOf

LEMMA NatMax ==
  ASSUME NEW N \in Nat, NEW S \in SUBSET (0 .. N), S # {}
  PROVE  MaxOfSet(S, Max(S))
<1> DEFINE P == {k \in 0 .. N : N - k \in S}
<1>1. PICK k : MinOf(P, k)
  <2>1. P \in SUBSET (0 .. N) /\ P # {}
    <3>1. PICK x \in S : TRUE
      BY Zenon
    <3>2. N - x \in P
      BY <3>1
    <3> QED
      BY <3>2, Zenon
  <2> HIDE DEF P
  <2> QED
    BY <2>1, NatMin, Zenon
<1>2. N - k \in S /\ \A x \in S : x <= N - k
  <2>1. k \in P /\ \A y \in P : k <= y
    BY <1>1 DEF MinOf
  <2>2. ASSUME NEW x \in S PROVE x <= N - k
    <3>1. N - x \in P
      OBVIOUS
    <3> QED
      BY <2>1, <3>1
  <2> QED
    BY <2>1, <2>2
<1> QED
  BY <1>2, Zenon DEF Max, MaxOfSet

----------------------------------------------------------------------------
(* DrsConversion: every event is begun further on *)

Lesser(a, b) == IF a <= b THEN a ELSE b

\* What Min is of two numbers, such as what is asked for and what the file has left.
LEMMA MinOfTwo ==
  ASSUME NEW a \in Int, NEW b \in Int
  PROVE  Drs!Min({a, b}) = Lesser(a, b)
<1>1. \E m \in {a, b} : \A x \in {a, b} : m <= x
  OBVIOUS
<1> QED
  BY <1>1 DEF Drs!Min, Lesser

----------------------------------------------------------------------------
\* The places of an event that is being read.
BeingRead == {"group", "samples", "channels", "trailer", "fill"}

\* Where the file is while an event is read, and before the next.
ForwardInv ==
  /\ dInput.file \in Seq((1 .. Len(dInput.groups)) \X (Nat \ {0})) /\ pos \in 0 .. Len(dInput.file) /\ start \in Nat /\ iEvent \in Nat
  /\ dPlace \in BeingRead => start + 4 <= pos
  /\ dPlace = "event" /\ dInput.dat /\ iEvent # 0 => start < pos

\* How many of the words asked for the file still has.
LEMMA AvailableWords ==
  ASSUME ForwardInv, NEW n \in {1, 3}
  PROVE  /\ Drs!Available(n) \in 0 .. n /\ pos + Drs!Available(n) <= Len(dInput.file)
         /\ Drs!Available(n) = 0 => pos = Len(dInput.file)
<1>1. Len(dInput.file) \in Nat /\ pos \in Nat /\ pos <= Len(dInput.file)
  BY DEF ForwardInv
<1>2. PICK a \in Int, b \in Int : a = n /\ b = Len(dInput.file) - pos
  BY <1>1
<1>3. Drs!Available(n) = Drs!Min({a, b})
  BY <1>2 DEF Drs!Available, Drs!file
<1>4. Drs!Available(n) = Lesser(a, b)
  BY <1>3, MinOfTwo
<1> QED
  BY <1>1, <1>2, <1>4 DEF Lesser

\* What found_corruption answers: how far the file was read, or that the event is
\* given up and where the next one is begun.
LEMMA WhereFound ==
  ASSUME ForwardInv, NEW n \in {1, 3}, NEW r \in Drs!FoundCorruption(n), start + 4 <= pos
  PROVE  /\ r[2] \in Int
         /\ ~r[1] => r[2] + n \in pos .. Len(dInput.file)
         /\ r[1] => start < r[2] /\ r[2] <= Len(dInput.file)
<1>1. Len(dInput.file) \in Nat /\ pos \in Nat /\ pos <= Len(dInput.file) /\ start \in Nat
  BY DEF ForwardInv
<1>2. CASE Drs!Zeros(n) # {}
  <2>1. Drs!Zeros(n) \in SUBSET Nat /\ \A z \in Drs!Zeros(n) : pos < z /\ z <= Len(dInput.file)
    BY <1>1, AvailableWords DEF Drs!Zeros
  <2>2. Drs!Min(Drs!Zeros(n)) \in Drs!Zeros(n)
    <3>1. PICK Z : Z = Drs!Zeros(n)
      OBVIOUS
    <3>2. Z \in SUBSET (0 .. Len(dInput.file)) /\ Z # {}
      BY <1>1, <1>2, <2>1, <3>1
    <3>3. Min(Z) \in Z
      BY <1>1, <3>2, NatMin, Zenon DEF MinOf
    <3> QED
      BY <3>1, <3>3 DEF Drs!Min, Min
  <2>3. r = <<TRUE, Drs!Min(Drs!Zeros(n)) - 3>>
    BY <1>2, Zenon DEF Drs!FoundCorruption, Drs!SeekBack
  <2> QED
    BY <1>1, <2>1, <2>2, <2>3
<1>3. CASE Drs!Zeros(n) = {} /\ r = <<FALSE, pos + Drs!Available(n) - n>>
  BY <1>1, <1>3, AvailableWords
<1>4. CASE Drs!Zeros(n) = {} /\ Drs!Available(n) = 0 /\ r = <<TRUE, Len(dInput.file) - 3>>
  BY <1>1, <1>4, AvailableWords
<1> QED
  BY <1>2, <1>3, <1>4, Zenon DEF Drs!FoundCorruption, Drs!SeekBack, Drs!file

\* Reading on, after a look ahead or without, leaves the file no further back.
LEMMA ReadForward ==
  ASSUME ForwardInv, NEW n \in {1, 3}, start + 4 <= pos, Drs!Read(n)
  PROVE  pos' \in pos .. Len(dInput.file)
<1>1. Len(dInput.file) \in Nat /\ pos \in Nat /\ pos <= Len(dInput.file)
  BY DEF ForwardInv
<1>2. CASE Drs!Fread(pos, n)
  <2>1. PICK a \in Int, b \in Int : a = pos + n /\ b = Len(dInput.file)
    BY <1>1
  <2>2. pos' = Drs!Min({a, b})
    BY <1>2, <2>1 DEF Drs!Fread, Drs!file
  <2>3. pos' = Lesser(a, b)
    BY <2>2, MinOfTwo
  <2> QED
    BY <1>1, <2>1, <2>3 DEF Lesser
<1>3. CASE \E r \in Drs!FoundCorruption(n) : ~r[1] /\ Drs!Fread(r[2], n)
  <2>1. PICK r \in Drs!FoundCorruption(n) : ~r[1] /\ Drs!Fread(r[2], n)
    BY <1>3
  <2>2. r[2] \in Int /\ r[2] + n \in pos .. Len(dInput.file)
    BY <2>1, WhereFound
  <2>3. PICK a \in Int, b \in Int : a = r[2] + n /\ b = Len(dInput.file)
    BY <1>1, <2>2
  <2>4. pos' = Drs!Min({a, b})
    BY <2>1, <2>3 DEF Drs!Fread, Drs!file
  <2>5. pos' = Lesser(a, b)
    BY <2>4, MinOfTwo
  <2> QED
    BY <1>1, <2>2, <2>3, <2>5 DEF Lesser
<1> QED
  BY <1>2, <1>3 DEF Drs!Read

\* An event given up leaves the file behind its beginning.
LEMMA GivenUpForward ==
  ASSUME ForwardInv, NEW n \in {1, 3}, start + 4 <= pos, Drs!GivenUp(n)
  PROVE  pos' \in 0 .. Len(dInput.file) /\ start < pos' /\ dPlace' = "event" /\ iEvent' = iEvent + 1
<1>1. PICK r \in Drs!FoundCorruption(n) : r[1] /\ pos' = r[2]
  BY DEF Drs!GivenUp
<1>2. r[2] \in Int /\ start < r[2] /\ r[2] <= Len(dInput.file)
  BY <1>1, WhereFound
<1>3. start \in Nat /\ dPlace' = "event" /\ iEvent' = iEvent + 1
  BY DEF Drs!GivenUp, ForwardInv
<1> QED
  BY <1>1, <1>2, <1>3

\* Every step keeps the invariant, and an event is begun behind the one before.
LEMMA ForwardStep ==
  ASSUME ForwardInv, Drs!Next
  PROVE  ForwardInv' /\ (dPlace = "event" /\ dPlace' = "group" => iEvent = 0 \/ pos > start)
<1>1. dInput' = dInput /\ Len(dInput.file) \in Nat /\ pos \in Nat /\ pos <= Len(dInput.file)
  BY DEF Drs!Next, Drs!Close, Drs!Header, Drs!GroupHeader, Drs!ReadSamples, Drs!Channels, Drs!Trailer,
         Drs!Fill, Drs!RootEvent, Drs!CloseRoot, ForwardInv
<1>2. CASE Drs!Close
  BY <1>1, <1>2 DEF Drs!Close, ForwardInv, BeingRead
<1>3. CASE Drs!Header
  <2>1. Len(dInput.file) - pos >= 4
    BY <1>1, <1>3 DEF Drs!Header, Drs!Done, Drs!file
  <2> QED
    BY <1>1, <1>3, <2>1 DEF Drs!Header, ForwardInv, BeingRead
<1>4. CASE Drs!GroupHeader
  <2>1. CASE Drs!Read(1) /\ dPlace' = "samples" /\ iEvent' = iEvent
    <3>1. start + 4 <= pos /\ start' = start
      BY <1>4 DEF Drs!GroupHeader, ForwardInv, BeingRead
    <3>2. pos' \in pos .. Len(dInput.file)
      BY <2>1, <3>1, ReadForward
    <3> QED
      BY <1>1, <1>4, <2>1, <3>1, <3>2 DEF Drs!GroupHeader, ForwardInv, BeingRead
  <2>2. CASE Drs!GivenUp(1)
    <3>1. start + 4 <= pos /\ start' = start
      BY <1>4 DEF Drs!GroupHeader, ForwardInv, BeingRead
    <3>2. pos' \in 0 .. Len(dInput.file) /\ start < pos' /\ dPlace' = "event" /\ iEvent' = iEvent + 1
      BY <2>2, <3>1, GivenUpForward
    <3> QED
      BY <1>1, <1>4, <3>1, <3>2 DEF Drs!GroupHeader, ForwardInv, BeingRead
  <2> QED
    BY <1>4, <2>1, <2>2 DEF Drs!GroupHeader
<1>5. CASE Drs!ReadSamples
  <2>1. CASE Drs!Read(3) /\ dPlace' \in {"channels", "samples"} /\ iEvent' = iEvent
    <3>1. start + 4 <= pos /\ start' = start
      BY <1>5 DEF Drs!ReadSamples, ForwardInv, BeingRead
    <3>2. pos' \in pos .. Len(dInput.file)
      BY <2>1, <3>1, ReadForward
    <3> QED
      BY <1>1, <1>5, <2>1, <3>1, <3>2 DEF Drs!ReadSamples, ForwardInv, BeingRead
  <2>2. CASE Drs!GivenUp(3)
    <3>1. start + 4 <= pos /\ start' = start
      BY <1>5 DEF Drs!ReadSamples, ForwardInv, BeingRead
    <3>2. pos' \in 0 .. Len(dInput.file) /\ start < pos' /\ dPlace' = "event" /\ iEvent' = iEvent + 1
      BY <2>2, <3>1, GivenUpForward
    <3> QED
      BY <1>1, <1>5, <3>1, <3>2 DEF Drs!ReadSamples, ForwardInv, BeingRead
  <2> QED
    BY <1>5, <2>1, <2>2 DEF Drs!ReadSamples
<1>6. CASE Drs!Channels
  BY <1>1, <1>6 DEF Drs!Channels, ForwardInv, BeingRead
<1>7. CASE Drs!Trailer
  <2>1. CASE Drs!Read(1) /\ dPlace' \in {"fill", "group"} /\ iEvent' = iEvent
    <3>1. start + 4 <= pos /\ start' = start
      BY <1>7 DEF Drs!Trailer, ForwardInv, BeingRead
    <3>2. pos' \in pos .. Len(dInput.file)
      BY <2>1, <3>1, ReadForward
    <3> QED
      BY <1>1, <1>7, <2>1, <3>1, <3>2 DEF Drs!Trailer, ForwardInv, BeingRead
  <2>2. CASE Drs!GivenUp(1)
    <3>1. start + 4 <= pos /\ start' = start
      BY <1>7 DEF Drs!Trailer, ForwardInv, BeingRead
    <3>2. pos' \in 0 .. Len(dInput.file) /\ start < pos' /\ dPlace' = "event" /\ iEvent' = iEvent + 1
      BY <2>2, <3>1, GivenUpForward
    <3> QED
      BY <1>1, <1>7, <3>1, <3>2 DEF Drs!Trailer, ForwardInv, BeingRead
  <2> QED
    BY <1>7, <2>1, <2>2 DEF Drs!Trailer
<1>8. CASE Drs!Fill
  BY <1>1, <1>8 DEF Drs!Fill, ForwardInv, BeingRead
<1>9. CASE Drs!RootEvent
  BY <1>1, <1>9 DEF Drs!RootEvent, ForwardInv, BeingRead
<1>10. CASE Drs!CloseRoot
  BY <1>1, <1>10 DEF Drs!CloseRoot, ForwardInv, BeingRead
<1> QED
  BY <1>2, <1>3, <1>4, <1>5, <1>6, <1>7, <1>8, <1>9, <1>10 DEF Drs!Next

\* However the file is damaged, every event is begun further on in it than the one
\* before (found_corruption, dat2rootPixels.cc:36).
THEOREM GoesForward == OfflineSpec => AlwaysForward
<1>1. OfflineInit => ForwardInv
  <2> SUFFICES ASSUME OfflineInit PROVE ForwardInv
    OBVIOUS
  <2>1. dInput.file \in Seq((1 .. Len(dInput.groups)) \X (Nat \ {0}))
    <3>1. CASE dInput \in DrsInputs
      <4>1. DrsFile(dInput)
        BY <3>1, OfflineAssumption
      <4> QED
        BY <4>1 DEF DrsFile
    <3>2. CASE dInput = NoFile
      BY <3>2 DEF NoFile
    <3> QED
      BY <3>1, <3>2 DEF OfflineInit
  <2> QED
    BY <2>1 DEF OfflineInit, Drs!Begin, ForwardInv, BeingRead, Drs!Opened
<1>2. ForwardInv /\ [OfflineNext]_offlineVars =>
        ForwardInv' /\ [dPlace = "event" /\ dPlace' = "group" => iEvent = 0 \/ pos > start]_(Drs!vars)
  <2> SUFFICES ASSUME ForwardInv, [OfflineNext]_offlineVars
               PROVE  ForwardInv' /\ [dPlace = "event" /\ dPlace' = "group" => iEvent = 0 \/ pos > start]_(Drs!vars)
    OBVIOUS
  <2>1. CASE Drs!Next
    BY <2>1, ForwardStep
  <2>2. CASE UNCHANGED drsVars
    BY <2>2 DEF drsVars, Drs!vars, ForwardInv
  <2> QED
    BY <2>1, <2>2 DEF OfflineNext, Convert, Merge, Group, offlineVars
<1> QED
  BY <1>1, <1>2, PTL DEF OfflineSpec, AlwaysForward, Drs!AlwaysForward

----------------------------------------------------------------------------
(* TrackMerge *)

\* The library functions of TrackMerge are those the lemmas are about.
LEMMA TrkCardinality ==
  ASSUME NEW S
  PROVE  Trk!Cardinality(S) = Cardinality(S)
  BY DEF Trk!Cardinality, Cardinality

LEMMA TrkMax ==
  ASSUME NEW S \in SUBSET Int, NEW m, MaxOfSet(S, m)
  PROVE  Trk!Max(S) = m
<1>1. m \in S /\ \A y \in S : m >= y
  BY DEF MaxOfSet
<1>2. \A x \in S : (\A y \in S : x >= y) => x = m
  BY <1>1
<1> QED
  BY <1>1, <1>2, Zenon DEF Trk!Max

\* Of the hits: how many events the first n begin, those of one channel, and whether
\* a gap lies between two.
Hits == tInput.hits
Rank(n) == Cardinality({s \in Trk!Starts : s <= n})
OfChannel(A, c) == {0} \cup {k \in A : Hits[k][1] = c}
Later(n, j) == \E s \in Trk!Starts : n < s /\ s <= j

\* The events written, and the one being gathered, after j hits.
Gathered(ev, rw, j) ==
  /\ Len(ev) = IF j = 0 THEN 0 ELSE Rank(j) - 1
  /\ \A n \in Trk!Starts : \A c \in TrackChannel : n <= j =>
       IF Later(n, j) THEN MaxOfSet(OfChannel(Trk!HitsFrom(n), c), ev[Rank(n)][c])
                      ELSE MaxOfSet(OfChannel(n .. j, c), rw[c])

\* While the hits are taken, the events are what lies between the gaps so far.
GapsInv ==
  /\ tIndex # 0 => tPrev = Hits[tIndex][2]
  /\ tStage # "build" => tIndex = Len(Hits)
  /\ Gathered(event, row, tIndex)

TrkRow == [match : Nat, track : Nat, ntracks : Int]
\* Of the merged events: matches are given in order and have their own track.
MatchInv ==
  /\ out \in Seq(TrkRow) /\ nTriggers \in Nat /\ nTriggers <= Len(out)
  /\ \A e \in DOMAIN out : out[e].match <= matched
  /\ Trk!EachTriggerOnce /\ Trk!TrackIsOfTheMatch

TrkInv == TrackFile(tInput) /\ Trk!TypeOK /\ GapsInv /\ MatchInv

----------------------------------------------------------------------------
\* Hits are a sequence of triples, with whole times.
LEMMA HitsType ==
  ASSUME TrackFile(tInput)
  PROVE  /\ Len(Hits) \in Nat
         /\ \A n \in 1 .. Len(Hits) : Hits[n][1] \in TrackChannel /\ Hits[n][2] \in Int
  BY DEF TrackFile, Hits

\* Every event begins with a hit, and the first hit begins one.
LEMMA StartsType ==
  ASSUME TrackFile(tInput)
  PROVE  /\ Trk!Starts \in SUBSET (1 .. Len(Hits))
         /\ Len(Hits) # 0 => 1 \in Trk!Starts
         /\ \A n \in 2 .. Len(Hits) : n \in Trk!Starts <=> Trk!Abs(Hits[n][2] - Hits[n - 1][2]) > CoWindow
<1>1. Len(Hits) \in Nat
  BY HitsType
<1>2. Trk!Starts = {n \in 1 .. Len(Hits) : n = 1 \/ Trk!Abs(Hits[n][2] - Hits[n - 1][2]) > CoWindow}
  BY DEF Trk!Starts, Trk!Hit, Hits
<1> QED
  BY <1>1, <1>2

\* How many of a set of numbers there are up to n.
CountUpTo(S, n) == Cardinality({s \in S : s <= n})

\* How the number of starts grows from one hit to the next.
LEMMA CountStep ==
  ASSUME NEW N \in Nat, NEW S \in SUBSET (1 .. N), NEW n \in Nat
  PROVE  /\ CountUpTo(S, n) \in Nat
         /\ n + 1 \in S => CountUpTo(S, n + 1) = CountUpTo(S, n) + 1
         /\ n + 1 \notin S => CountUpTo(S, n + 1) = CountUpTo(S, n)
         /\ CountUpTo(S, 0) = 0
         /\ n >= N => CountUpTo(S, n) = Cardinality(S)
<1> DEFINE A == {s \in S : s <= n}
<1> DEFINE B == {s \in S : s <= n + 1}
<1>0. \A s \in S : s \in Nat /\ 1 <= s /\ s <= N
  OBVIOUS
<1>1. IsFiniteSet(S)
  <2>1. IsFiniteSet(1 .. N)
    BY FS_Interval
  <2> QED
    BY <2>1, FS_Subset, Zenon
<1>2. IsFiniteSet(A) /\ n + 1 \notin A
  BY <1>1, FS_Subset
<1>3. n + 1 \in S => B = A \cup {n + 1}
  <2>1. \A s \in S : s <= n + 1 <=> s <= n \/ s = n + 1
    BY <1>0
  <2> QED
    BY <2>1, Zenon
<1>4. n + 1 \notin S => B = A
  <2>1. n + 1 \notin S => \A s \in S : s <= n + 1 <=> s <= n
    BY <1>0
  <2> QED
    BY <2>1, Zenon
<1>5. {s \in S : s <= 0} = {}
  <2>1. \A s \in S : ~(s <= 0)
    BY <1>0
  <2> QED
    BY <2>1, Zenon
<1>6. n >= N => A = S
  <2>1. n >= N => \A s \in S : s <= n
    BY <1>0
  <2> QED
    BY <2>1, Zenon
<1>7. Cardinality(A) \in Nat
  BY <1>2, FS_CardinalityType
<1>8. Cardinality(A \cup {n + 1}) = Cardinality(A) + 1
  BY <1>2, FS_AddElement, Zenon
<1>9. Cardinality({}) = 0
  BY FS_EmptySet
<1>10. CountUpTo(S, n) = Cardinality(A) /\ CountUpTo(S, n + 1) = Cardinality(B) /\ CountUpTo(S, 0) = Cardinality({})
  BY <1>5 DEF CountUpTo
<1> HIDE DEF A, B
<1> QED
  BY <1>3, <1>4, <1>6, <1>7, <1>8, <1>9, <1>10

\* The number of starts up to n grows with n, at every start.
LEMMA CountGrows ==
  ASSUME NEW N \in Nat, NEW S \in SUBSET (1 .. N), NEW n \in Nat, NEW j \in Nat, n <= j
  PROVE  /\ CountUpTo(S, n) <= CountUpTo(S, j)
         /\ (\E s \in S : n < s /\ s <= j) => CountUpTo(S, n) < CountUpTo(S, j)
         /\ ~(\E s \in S : n < s /\ s <= j) => CountUpTo(S, n) = CountUpTo(S, j)
         /\ n \in S => CountUpTo(S, n) >= 1
<1> DEFINE A == {s \in S : s <= n}
<1> DEFINE B == {s \in S : s <= j}
<1>0. \A s \in S : s \in Nat /\ 1 <= s /\ s <= N
  OBVIOUS
<1>1. IsFiniteSet(S)
  <2>1. IsFiniteSet(1 .. N)
    BY FS_Interval
  <2> QED
    BY <2>1, FS_Subset, Zenon
<1>2. IsFiniteSet(A) /\ IsFiniteSet(B) /\ A \subseteq B
  <2>0. \A s \in S : s <= n => s <= j
    BY <1>0
  <2>1. A \subseteq B /\ B \subseteq S
    BY <2>0, Zenon
  <2> HIDE DEF A, B
  <2> QED
    BY <1>1, <2>1, FS_Subset, Zenon
<1>3. Cardinality(A) \in Nat /\ Cardinality(B) \in Nat /\ Cardinality(A) <= Cardinality(B)
  BY <1>2, FS_CardinalityType, FS_Subset
<1>4. ASSUME NEW s \in S, n < s, s <= j PROVE Cardinality(A) < Cardinality(B)
  <2>1. A # B
    <3>1. s \in B /\ s \notin A
      BY <1>0, <1>4
    <3> QED
      BY <3>1
  <2> HIDE DEF A, B
  <2>2. Cardinality(A) # Cardinality(B)
    BY <1>2, <2>1, FS_Subset
  <2> QED
    BY <1>3, <2>2
<1>5. ASSUME ~(\E s \in S : n < s /\ s <= j) PROVE A = B
  <2>1. \A s \in S : s <= n <=> s <= j
    BY <1>0, <1>5
  <2> QED
    BY <2>1, Zenon
<1>6. ASSUME n \in S PROVE Cardinality(A) >= 1
  <2>1. n \in A
    BY <1>6
  <2> HIDE DEF A
  <2>2. Cardinality(A) # 0
    BY <1>2, <2>1, FS_EmptySet
  <2> QED
    BY <1>3, <2>2
<1>7. CountUpTo(S, n) = Cardinality(A) /\ CountUpTo(S, j) = Cardinality(B)
  BY DEF CountUpTo
<1> HIDE DEF A, B
<1> QED
  BY <1>3, <1>4, <1>5, <1>6, <1>7

----------------------------------------------------------------------------
(* The gathering of events. *)

\* The distance of two times.
LEMMA AbsIs ==
  ASSUME NEW x \in Int
  PROVE  Trk!Abs(x) = (IF x < 0 THEN -x ELSE x) /\ Trk!Abs(-x) = Trk!Abs(x)
  BY DEF Trk!Abs

\* The last of a channel when one more hit is taken, and when it is the first.
LEMMA LastTaken ==
  ASSUME NEW j \in Nat, NEW n \in Nat, n <= j, NEW c, NEW m, MaxOfSet(OfChannel(n .. j, c), m)
  PROVE  MaxOfSet(OfChannel(n .. j + 1, c), IF Hits[j + 1][1] = c THEN j + 1 ELSE m)
<1>1. m = 0 \/ m \in n .. j
  BY DEF MaxOfSet, OfChannel
<1>2. \A k \in n .. j : Hits[k][1] = c => k <= m
  BY DEF MaxOfSet, OfChannel
<1>3. m \in OfChannel(n .. j, c)
  BY DEF MaxOfSet
<1>4. \A k \in n .. j + 1 : k \in n .. j \/ k = j + 1
  OBVIOUS
<1>5. CASE Hits[j + 1][1] = c
  <2>1. j + 1 \in OfChannel(n .. j + 1, c)
    BY <1>5 DEF OfChannel
  <2>2. \A k \in OfChannel(n .. j + 1, c) : k <= j + 1
    BY DEF OfChannel
  <2> QED
    BY <1>5, <2>1, <2>2 DEF MaxOfSet
<1>6. CASE Hits[j + 1][1] # c
  <2>1. m \in OfChannel(n .. j + 1, c)
    BY <1>1, <1>3 DEF OfChannel
  <2>2. \A k \in OfChannel(n .. j + 1, c) : k <= m
    BY <1>1, <1>2, <1>4, <1>6 DEF OfChannel
  <2> QED
    BY <1>6, <2>1, <2>2 DEF MaxOfSet
<1> QED
  BY <1>5, <1>6

\* The first hit begins an event and no gap is seen before it.
LEMMA FirstTaken ==
  ASSUME NEW j \in Nat, NEW c
  PROVE  MaxOfSet(OfChannel(j .. j, c), IF Hits[j][1] = c THEN j ELSE 0)
<1>1. j .. j = {j}
  OBVIOUS
<1> QED
  BY <1>1 DEF MaxOfSet, OfChannel

\* The hits of an event are those up to the next gap.
LEMMA HitsUpToGap ==
  ASSUME TrackFile(tInput), NEW j \in Nat, j + 1 \in Trk!Starts, NEW n \in Trk!Starts, n <= j, ~Later(n, j)
  PROVE  Trk!HitsFrom(n) = n .. j
<1>0. Len(Hits) \in Nat /\ \A s \in Trk!Starts : s \in Nat /\ 1 <= s /\ s <= Len(Hits)
  BY HitsType, StartsType
<1>1. Trk!HitsFrom(n) = {k \in n .. Len(Hits) : \A s \in Trk!Starts : s <= n \/ k < s}
  BY DEF Trk!HitsFrom, Hits
<1>2. ASSUME NEW k \in Trk!HitsFrom(n) PROVE k \in n .. j
  <2>1. k \in n .. Len(Hits) /\ k < j + 1
    BY <1>0, <1>1, <1>2
  <2> QED
    BY <1>0, <2>1
<1>3. ASSUME NEW k \in n .. j PROVE k \in Trk!HitsFrom(n)
  <2>1. k \in n .. Len(Hits)
    BY <1>0
  <2>2. \A s \in Trk!Starts : s <= n \/ k < s
    BY <1>0 DEF Later
  <2> QED
    BY <1>1, <2>1, <2>2
<1> QED
  BY <1>2, <1>3, Zenon

\* What taking a hit does.
LEMMA TakenWhat ==
  ASSUME TrkInv, Trk!TakeHit
  PROVE  /\ tIndex \in Nat /\ tIndex' = tIndex + 1 /\ tIndex + 1 <= Len(Hits) /\ tPrev' = Hits[tIndex + 1][2]
         /\ tIndex + 1 \in Trk!Starts <=> tIndex = 0 \/ Trk!Abs(tPrev - Hits[tIndex + 1][2]) > CoWindow
         /\ row' \in [TrackChannel -> 0 .. tIndex + 1]
         /\ \A c \in TrackChannel :
              row'[c] = IF Hits[tIndex + 1][1] = c THEN tIndex + 1
                        ELSE IF tIndex + 1 \in Trk!Starts THEN 0 ELSE row[c]
         /\ event' = IF tIndex # 0 /\ tIndex + 1 \in Trk!Starts THEN Append(event, row) ELSE event
<1> DEFINE t == Hits[tIndex + 1][2]
<1> DEFINE gap == tIndex # 0 /\ Trk!Abs(tPrev - t) > CoWindow
<1>1. tIndex \in Nat /\ tIndex + 1 <= Len(Hits) /\ Len(Hits) \in Nat /\ row \in [TrackChannel -> 0 .. tIndex]
  BY HitsType DEF TrkInv, Trk!TypeOK, Trk!TakeHit, Hits
<1>2. Hits[tIndex + 1][1] \in TrackChannel /\ t \in Int
  BY <1>1, HitsType DEF TrkInv
<1>3. tIndex + 1 \in Trk!Starts <=> tIndex = 0 \/ Trk!Abs(tPrev - t) > CoWindow
  <2>1. CASE tIndex = 0
    BY <1>1, <2>1, StartsType DEF TrkInv
  <2>2. CASE tIndex # 0
    <3>1. tIndex \in 1 .. Len(Hits) /\ tIndex + 1 \in 2 .. Len(Hits) /\ (tIndex + 1) - 1 = tIndex
      BY <1>1, <2>2
    <3>2. tPrev = Hits[tIndex][2] /\ tPrev \in Int
      BY <2>2, <3>1, HitsType DEF TrkInv, GapsInv
    <3>3. tIndex + 1 \in Trk!Starts <=> Trk!Abs(t - tPrev) > CoWindow
      BY <3>1, <3>2, StartsType DEF TrkInv
    <3>4. Trk!Abs(t - tPrev) = Trk!Abs(tPrev - t)
      <4>1. PICK x \in Int : x = t - tPrev /\ -x = tPrev - t
        BY <1>2, <3>2
      <4> QED
        BY <4>1, AbsIs
    <3> QED
      BY <2>2, <3>3, <3>4
  <2> QED
    BY <2>1, <2>2
<1>4. /\ event' = IF gap THEN Append(event, row) ELSE event
      /\ row' = [IF gap THEN Trk!Empty ELSE row EXCEPT ![Hits[tIndex + 1][1]] = tIndex + 1]
      /\ tPrev' = t /\ tIndex' = tIndex + 1
  BY DEF Trk!TakeHit, Trk!Hit, Trk!Reference, Hits
<1>5. PICK old : old = IF gap THEN Trk!Empty ELSE row
  OBVIOUS
<1>6. old \in [TrackChannel -> 0 .. tIndex]
  BY <1>1, <1>5 DEF Trk!Empty
<1>7. row' = [old EXCEPT ![Hits[tIndex + 1][1]] = tIndex + 1]
  BY <1>4, <1>5
<1>8. row' \in [TrackChannel -> 0 .. tIndex + 1] /\
      \A c \in TrackChannel : row'[c] = IF Hits[tIndex + 1][1] = c THEN tIndex + 1 ELSE old[c]
  BY <1>1, <1>2, <1>6, <1>7
<1>9. ASSUME NEW c \in TrackChannel PROVE old[c] = IF tIndex + 1 \in Trk!Starts THEN 0 ELSE row[c]
  <2>1. CASE tIndex = 0
    BY <1>1, <1>3, <1>5, <2>1 DEF Trk!Empty
  <2>2. CASE tIndex # 0
    BY <1>3, <1>5, <2>2 DEF Trk!Empty
  <2> QED
    BY <2>1, <2>2
<1>10. gap <=> tIndex # 0 /\ tIndex + 1 \in Trk!Starts
  BY <1>3
<1> QED
  BY <1>1, <1>3, <1>4, <1>8, <1>9, <1>10

\* The number of an event, counted by the starts of events.
LEMMA RankFacts ==
  ASSUME TrackFile(tInput), NEW n \in Nat, NEW j \in Nat, n <= j
  PROVE  /\ Rank(n) \in Nat /\ Rank(j) \in Nat /\ Rank(n) <= Rank(j)
         /\ Later(n, j) => Rank(n) < Rank(j)
         /\ ~Later(n, j) => Rank(n) = Rank(j)
         /\ n \in Trk!Starts => Rank(n) >= 1
         /\ j + 1 \in Trk!Starts => Rank(j + 1) = Rank(j) + 1
         /\ j + 1 \notin Trk!Starts => Rank(j + 1) = Rank(j)
         /\ Rank(0) = 0
         /\ j >= Len(Hits) => Rank(j) = Cardinality(Trk!Starts)
<1>1. PICK S, N : S = Trk!Starts /\ N = Len(Hits)
  BY Zenon
<1>2. N \in Nat /\ S \in SUBSET (1 .. N)
  BY <1>1, HitsType, StartsType
<1>3. \A m : Rank(m) = CountUpTo(S, m)
  BY <1>1 DEF Rank, CountUpTo
<1>4. Later(n, j) <=> \E s \in S : n < s /\ s <= j
  BY <1>1 DEF Later
<1>5. CountUpTo(S, n) \in Nat /\ CountUpTo(S, 0) = 0
  BY <1>2, CountStep
<1>6. /\ CountUpTo(S, j) \in Nat
      /\ j + 1 \in S => CountUpTo(S, j + 1) = CountUpTo(S, j) + 1
      /\ j + 1 \notin S => CountUpTo(S, j + 1) = CountUpTo(S, j)
      /\ j >= N => CountUpTo(S, j) = Cardinality(S)
  BY <1>2, CountStep
<1>7. /\ CountUpTo(S, n) <= CountUpTo(S, j)
      /\ Later(n, j) => CountUpTo(S, n) < CountUpTo(S, j)
      /\ ~Later(n, j) => CountUpTo(S, n) = CountUpTo(S, j)
      /\ n \in S => CountUpTo(S, n) >= 1
  BY <1>2, <1>4, CountGrows, Zenon
<1> QED
  BY <1>1, <1>3, <1>5, <1>6, <1>7

\* Taking a hit keeps the events gathered: a gap ends one, any other hit joins it.
LEMMA TakeHitGathers ==
  ASSUME TrkInv, Trk!TakeHit
  PROVE  Gathered(event', row', tIndex + 1)
<1> DEFINE j == tIndex
<1>0. /\ j \in Nat /\ j + 1 <= Len(Hits) /\ TrackFile(tInput) /\ Gathered(event, row, j)
      /\ event \in Seq([TrackChannel -> 0 .. j]) /\ row \in [TrackChannel -> 0 .. j]
  BY TakenWhat DEF TrkInv, GapsInv, Trk!TypeOK
<1>1. \A s \in Trk!Starts : s \in Nat /\ 1 <= s
  BY <1>0, HitsType, StartsType
<1>2. \A c \in TrackChannel :
        row'[c] = IF Hits[j + 1][1] = c THEN j + 1 ELSE IF j + 1 \in Trk!Starts THEN 0 ELSE row[c]
  BY TakenWhat
<1>3. event' = IF j # 0 /\ j + 1 \in Trk!Starts THEN Append(event, row) ELSE event
  BY TakenWhat
<1>4. Rank(j) \in Nat /\ (j + 1 \in Trk!Starts => Rank(j + 1) = Rank(j) + 1)
      /\ (j + 1 \notin Trk!Starts => Rank(j + 1) = Rank(j)) /\ Rank(0) = 0
  BY <1>0, RankFacts
<1>5. ASSUME j + 1 \notin Trk!Starts PROVE Gathered(event', row', j + 1)
  <2>1. j # 0
    BY <1>0, <1>5, TakenWhat
  <2>2. event' = event /\ Len(event') = Rank(j + 1) - 1
    BY <1>0, <1>3, <1>4, <1>5, <2>1 DEF Gathered
  <2>3. ASSUME NEW n \in Trk!Starts, NEW c \in TrackChannel, n <= j + 1
        PROVE  IF Later(n, j + 1) THEN MaxOfSet(OfChannel(Trk!HitsFrom(n), c), event'[Rank(n)][c])
                                  ELSE MaxOfSet(OfChannel(n .. j + 1, c), row'[c])
    <3>1. n \in Nat /\ n <= j
      BY <1>0, <1>1, <1>5, <2>3
    <3>2. Later(n, j + 1) <=> Later(n, j)
      BY <1>0, <1>1, <1>5 DEF Later
    <3>3. CASE Later(n, j)
      BY <1>0, <2>2, <3>1, <3>2, <3>3 DEF Gathered
    <3>4. CASE ~Later(n, j)
      <4>1. MaxOfSet(OfChannel(n .. j, c), row[c])
        BY <1>0, <3>1, <3>4 DEF Gathered
      <4>2. MaxOfSet(OfChannel(n .. j + 1, c), row'[c])
        BY <1>0, <1>2, <1>5, <3>1, <4>1, LastTaken
      <4> QED
        BY <3>2, <3>4, <4>2
    <3> QED
      BY <3>3, <3>4
  <2> QED
    BY <1>0, <2>2, <2>3 DEF Gathered
<1>6. ASSUME j + 1 \in Trk!Starts PROVE Gathered(event', row', j + 1)
  <2>1. Len(event') = Rank(j + 1) - 1
    BY <1>0, <1>3, <1>4, <1>6 DEF Gathered
  <2>2. ASSUME NEW n \in Trk!Starts, NEW c \in TrackChannel, n <= j + 1
        PROVE  IF Later(n, j + 1) THEN MaxOfSet(OfChannel(Trk!HitsFrom(n), c), event'[Rank(n)][c])
                                  ELSE MaxOfSet(OfChannel(n .. j + 1, c), row'[c])
    <3>1. CASE n = j + 1
      <4>1. ~Later(n, j + 1)
        BY <1>0, <1>1, <3>1 DEF Later
      <4>2. MaxOfSet(OfChannel(n .. j + 1, c), row'[c])
        BY <1>0, <1>2, <1>6, <3>1, FirstTaken
      <4> QED
        BY <4>1, <4>2
    <3>2. CASE n # j + 1
      <4>1. n \in Nat /\ 1 <= n /\ n <= j /\ j # 0
        BY <1>0, <1>1, <2>2, <3>2
      <4>2. Later(n, j + 1)
        BY <1>0, <1>6, <4>1 DEF Later
      <4>3. event' = Append(event, row) /\ Len(event) = Rank(j) - 1
        BY <1>0, <1>3, <1>6, <4>1 DEF Gathered
      <4>4. CASE Later(n, j)
        <5>1. Rank(n) \in Nat /\ 1 <= Rank(n) /\ Rank(n) < Rank(j)
          BY <1>0, <4>1, <4>4, RankFacts
        <5>2. event'[Rank(n)] = event[Rank(n)]
          BY <1>0, <1>4, <4>3, <5>1
        <5>3. MaxOfSet(OfChannel(Trk!HitsFrom(n), c), event[Rank(n)][c])
          BY <1>0, <4>1, <4>4 DEF Gathered
        <5> QED
          BY <4>2, <5>2, <5>3
      <4>5. CASE ~Later(n, j)
        <5>1. Rank(n) = Rank(j) /\ Rank(n) \in Nat
          BY <1>0, <4>1, <4>5, RankFacts
        <5>2. event'[Rank(n)] = row
          BY <1>0, <4>3, <5>1
        <5>3. MaxOfSet(OfChannel(n .. j, c), row[c])
          BY <1>0, <4>1, <4>5 DEF Gathered
        <5>4. Trk!HitsFrom(n) = n .. j
          BY <1>0, <1>6, <4>1, <4>5, HitsUpToGap
        <5> QED
          BY <4>2, <5>2, <5>3, <5>4
      <4> QED
        BY <4>4, <4>5
    <3> QED
      BY <3>1, <3>2
  <2> QED
    BY <1>0, <2>1, <2>2 DEF Gathered
<1> QED
  BY <1>5, <1>6

----------------------------------------------------------------------------
(* The invariant. *)

\* What is gathered depends on the hits, the events and the row only.
LEMMA GatheredAfter ==
  ASSUME tInput' = tInput, Gathered(event', row', tIndex')
  PROVE  Gathered(event, row, tIndex)'
  BY Zenon DEF Hits, Gathered, Rank, Later, OfChannel, Trk!HitsFrom, Trk!Starts, Trk!Hit

\* A sequence over a set is one over any larger set.
LEMMA SeqWider ==
  ASSUME NEW S, NEW T, S \subseteq T, NEW s \in Seq(S)
  PROVE  s \in Seq(T)
  OBVIOUS

\* The steps of TrackMerge, one after the other.
LEMMA TakeHitStep ==
  ASSUME TrkInv, Trk!TakeHit
  PROVE  TrkInv'
<1>1. /\ tInput' = tInput /\ tStage = "build" /\ tStage' = tStage /\ clock' = clock
      /\ nTriggers' = nTriggers /\ matched' = matched /\ track' = track /\ out' = out
  BY DEF Trk!TakeHit
<1>2. /\ tIndex \in Nat /\ tIndex' = tIndex + 1 /\ tIndex + 1 <= Len(Hits)
      /\ row' \in [TrackChannel -> 0 .. tIndex'] /\ tPrev' = Hits[tIndex'][2]
  BY TakenWhat
<1>3. event' \in Seq([TrackChannel -> 0 .. tIndex']) /\ Len(event') >= Len(event)
  <2>1. event \in Seq([TrackChannel -> 0 .. tIndex]) /\ row \in [TrackChannel -> 0 .. tIndex]
    BY DEF TrkInv, Trk!TypeOK
  <2>2. PICK S, T : S = [TrackChannel -> 0 .. tIndex] /\ T = [TrackChannel -> 0 .. tIndex']
    BY Zenon
  <2>3. S \subseteq T
    BY <1>2, <2>2
  <2>4. event \in Seq(T) /\ row \in T
    BY <2>1, <2>2, <2>3, SeqWider
  <2>5. event' = Append(event, row) \/ event' = event
    BY TakenWhat
  <2>6. event' \in Seq(T) /\ Len(event') >= Len(event)
    BY <2>4, <2>5
  <2> QED
    BY <2>2, <2>6
<1>4. GapsInv'
  <2>1. Gathered(event, row, tIndex)'
    BY <1>1, <1>2, TakeHitGathers, GatheredAfter
  <2> QED
    BY <1>1, <1>2, <2>1 DEF GapsInv, Hits
<1>5. Trk!TypeOK'
  <2>1. nTriggers <= Len(event) /\ Len(out) <= Len(event) /\ matched \in 0 .. Len(tInput.bco) /\ track \in 0 .. matched
    BY DEF TrkInv, Trk!TypeOK
  <2>2. Len(event) \in Nat /\ Len(out) \in Nat /\ nTriggers \in Nat /\ Len(event') \in Nat
    BY <1>3 DEF TrkInv, Trk!TypeOK, MatchInv
  <2>3. nTriggers <= Len(event') /\ Len(out) <= Len(event')
    BY <1>3, <2>1, <2>2
  <2>4. tIndex' \in 0 .. Len(tInput.hits)
    BY <1>2, HitsType DEF TrkInv, Hits
  <2> QED
    BY <1>1, <1>2, <1>3, <2>1, <2>3, <2>4 DEF Trk!TypeOK
<1>6. MatchInv'
  <2>1. event' = event \/ \A e \in DOMAIN out : TRUE
    OBVIOUS
  <2> QED
    BY <1>1 DEF TrkInv, MatchInv, Trk!EachTriggerOnce, Trk!TrackIsOfTheMatch
<1> QED
  BY <1>1, <1>4, <1>5, <1>6 DEF TrkInv, TrackFile

LEMMA EndOfHitsStep ==
  ASSUME TrkInv, Trk!EndOfHits
  PROVE  TrkInv'
<1>1. /\ tInput' = tInput /\ tIndex' = tIndex /\ tPrev' = tPrev /\ row' = row /\ event' = event
      /\ clock' = clock /\ nTriggers' = nTriggers /\ matched' = matched /\ track' = track /\ out' = out
      /\ tStage' = "merge" /\ tIndex = Len(Hits)
  BY DEF Trk!EndOfHits, Hits
<1>2. GapsInv'
  <2>1. Gathered(event, row, tIndex)'
    BY <1>1, GatheredAfter DEF TrkInv, GapsInv
  <2> QED
    BY <1>1, <2>1 DEF TrkInv, GapsInv, Hits
<1>3. Trk!TypeOK'
  BY <1>1 DEF TrkInv, Trk!TypeOK
<1>4. MatchInv'
  BY <1>1 DEF TrkInv, MatchInv, Trk!EachTriggerOnce, Trk!TrackIsOfTheMatch
<1> QED
  BY <1>1, <1>2, <1>3, <1>4 DEF TrkInv, TrackFile

LEMMA EndOfEventsStep ==
  ASSUME TrkInv, Trk!EndOfEvents
  PROVE  TrkInv'
<1>1. /\ tInput' = tInput /\ tIndex' = tIndex /\ tPrev' = tPrev /\ row' = row /\ event' = event
      /\ clock' = clock /\ nTriggers' = nTriggers /\ matched' = matched /\ track' = track /\ out' = out
      /\ tStage' = "done" /\ tStage = "merge"
  BY DEF Trk!EndOfEvents
<1>2. GapsInv'
  <2>1. Gathered(event, row, tIndex)'
    BY <1>1, GatheredAfter DEF TrkInv, GapsInv
  <2> QED
    BY <1>1, <2>1 DEF TrkInv, GapsInv, Hits
<1>3. Trk!TypeOK'
  BY <1>1 DEF TrkInv, Trk!TypeOK
<1>4. MatchInv'
  BY <1>1 DEF TrkInv, MatchInv, Trk!EachTriggerOnce, Trk!TrackIsOfTheMatch
<1> QED
  BY <1>1, <1>2, <1>3, <1>4 DEF TrkInv, TrackFile

\* A match is a reading after the last one matched.
LEMMA MatchIsLater ==
  ASSUME TrkInv, NEW t
  PROVE  Trk!MatchOf(t) \in {0} \cup (matched + 1 .. Len(tInput.bco))
<1>1. matched \in Nat /\ Len(tInput.bco) \in Nat /\ DOMAIN tInput.bco = 1 .. Len(tInput.bco)
  BY DEF TrkInv, Trk!TypeOK, TrackFile
<1>2. PICK A : A = {p \in Trk!Candidates : Trk!Agree(p, t)}
  BY Zenon
<1>3. A \in SUBSET (0 .. Len(tInput.bco)) /\ \A p \in A : p \in matched + 1 .. Len(tInput.bco)
  <2>1. \A p \in Trk!Candidates : p \in 0 .. Len(tInput.bco) /\ p \in matched + 1 .. Len(tInput.bco)
    BY <1>1 DEF Trk!Candidates, Trk!Reading
  <2> QED
    BY <1>2, <2>1
<1>4. CASE A = {}
  BY <1>2, <1>4 DEF Trk!MatchOf
<1>5. CASE A # {}
  <2>1. Min(A) \in A
    BY <1>1, <1>3, <1>5, NatMin, Zenon DEF MinOf
  <2>2. Trk!Min(A) = Min(A)
    BY DEF Trk!Min, Min
  <2>3. Trk!MatchOf(t) \in {0, Trk!Min(A)}
    BY <1>2 DEF Trk!MatchOf
  <2> QED
    BY <1>3, <2>1, <2>2, <2>3, Zenon
<1> QED
  BY <1>4, <1>5

LEMMA MergeEventStep ==
  ASSUME TrkInv, Trk!MergeEvent
  PROVE  TrkInv'
<1>1. /\ tInput' = tInput /\ tIndex' = tIndex /\ tPrev' = tPrev /\ row' = row /\ event' = event
      /\ tStage' = tStage /\ Len(out) < Len(event)
  BY DEF Trk!MergeEvent
<1>2. GapsInv'
  <2>1. Gathered(event, row, tIndex)'
    BY <1>1, GatheredAfter DEF TrkInv, GapsInv
  <2> QED
    BY <1>1, <2>1 DEF TrkInv, GapsInv, Hits
<1>3. matched \in Nat /\ track \in 0 .. matched /\ Len(tInput.bco) \in Nat /\ matched <= Len(tInput.bco)
      /\ out \in Seq(TrkRow) /\ nTriggers \in Nat /\ nTriggers <= Len(out) /\ Len(out) <= Len(event)
  BY DEF TrkInv, Trk!TypeOK, TrackFile, MatchInv
<1>4. PICK m \in {0} \cup (matched + 1 .. Len(tInput.bco)) :
        /\ nTriggers' \in {nTriggers, nTriggers + 1} /\ matched' = IF m = 0 THEN matched ELSE m
        /\ track' = Trk!TrackAfter(m) /\ out' = Append(out, Trk!Row(m))
  <2> DEFINE h == event[Len(out) + 1][Trigger]
  <2> DEFINE m == IF h = 0 THEN 0 ELSE Trk!MatchOf(Trk!Hit(h)[2])
  <2>1. m \in {0} \cup (matched + 1 .. Len(tInput.bco))
    BY MatchIsLater
  <2>2. /\ nTriggers' \in {nTriggers, nTriggers + 1} /\ matched' = IF m = 0 THEN matched ELSE m
        /\ track' = Trk!TrackAfter(m) /\ out' = Append(out, Trk!Row(m))
    BY DEF Trk!MergeEvent
  <2> HIDE DEF m
  <2> QED
    BY <2>1, <2>2
<1>5. m # 0 => tInput.tracks[m] \in Nat
  <2>1. m # 0 => m \in 1 .. Len(tInput.bco)
    BY <1>3
  <2> QED
    BY <2>1, Zenon DEF TrkInv, TrackFile
<1>6. PICK r \in TrkRow : r = Trk!Row(m) /\ r.match = m /\ r.track = track' /\ r.ntracks = IF m = 0 THEN -1 ELSE tInput.tracks[m]
  <2>1. PICK k \in Int : k = IF m = 0 THEN -1 ELSE tInput.tracks[m]
    BY <1>5
  <2>2. track' \in Nat
    BY <1>3, <1>4 DEF Trk!TrackAfter
  <2>3. Trk!Row(m) = [match |-> m, track |-> track', ntracks |-> k]
    BY <1>4, <2>1 DEF Trk!Row
  <2>4. m \in Nat
    BY <1>3
  <2>5. [match |-> m, track |-> track', ntracks |-> k] \in TrkRow
    BY <2>1, <2>2, <2>4 DEF TrkRow
  <2> QED
    BY <2>1, <2>3, <2>5
<1>7. /\ r.ntracks > 0 => r.track = r.match
      /\ r.match = 0 => r.track = 0 /\ r.ntracks = -1
      /\ r.track # r.match => r.ntracks = 0 /\ r.track < r.match
  BY <1>3, <1>4, <1>5, <1>6 DEF Trk!TrackAfter
<1>8. matched' \in matched .. Len(tInput.bco) /\ track' \in 0 .. matched' /\ r.match <= matched'
  BY <1>3, <1>4, <1>6 DEF Trk!TrackAfter
<1>9. out' \in Seq(TrkRow) /\ Len(out') = Len(out) + 1 /\ out' = Append(out, r)
  BY <1>3, <1>4, <1>6
<1>10. Trk!TypeOK'
  BY <1>1, <1>3, <1>4, <1>8, <1>9 DEF TrkInv, Trk!TypeOK
<1>11. MatchInv'
  <2>1. \A e \in DOMAIN out : out'[e] = out[e] /\ out[e].match \in Nat /\ out[e].match <= matched
    <3>1. SUFFICES ASSUME NEW e \in DOMAIN out
                   PROVE  out'[e] = out[e] /\ out[e].match \in Nat /\ out[e].match <= matched
      OBVIOUS
    <3>2. out[e] \in TrkRow /\ out'[e] = out[e]
      BY <1>3, <1>9
    <3>3. out[e].match <= matched
      BY DEF TrkInv, MatchInv
    <3> QED
      BY <3>2, <3>3 DEF TrkRow
  <2>2. out'[Len(out) + 1] = r /\ DOMAIN out' = DOMAIN out \cup {Len(out) + 1} /\ Len(out) \in Nat /\ DOMAIN out = 1 .. Len(out)
    BY <1>3, <1>9
  <2>3. \A e \in DOMAIN out' : out'[e].match <= matched'
    BY <1>3, <1>8, <2>1, <2>2
  <2>4. Trk!EachTriggerOnce'
    <3>1. SUFFICES ASSUME NEW e \in DOMAIN out', NEW f \in DOMAIN out', e < f, out'[e].match # 0, out'[f].match # 0
                   PROVE  out'[e].match < out'[f].match
      BY DEF Trk!EachTriggerOnce
    <3>2. e \in DOMAIN out
      BY <2>2, <3>1
    <3>3. CASE f \in DOMAIN out
      BY <2>1, <3>1, <3>2, <3>3 DEF TrkInv, MatchInv, Trk!EachTriggerOnce
    <3>4. CASE f = Len(out) + 1
      BY <1>3, <1>4, <1>6, <2>1, <2>2, <3>1, <3>2, <3>4
    <3> QED
      BY <2>2, <3>3, <3>4
  <2>5. Trk!TrackIsOfTheMatch'
    <3>1. SUFFICES ASSUME NEW e \in DOMAIN out'
                   PROVE  /\ out'[e].ntracks > 0 => out'[e].track = out'[e].match
                          /\ out'[e].match = 0 => out'[e].track = 0 /\ out'[e].ntracks = -1
                          /\ out'[e].track # out'[e].match => out'[e].ntracks = 0 /\ out'[e].track < out'[e].match
      BY DEF Trk!TrackIsOfTheMatch
    <3>2. CASE e \in DOMAIN out
      BY <2>1, <3>2 DEF TrkInv, MatchInv, Trk!TrackIsOfTheMatch
    <3>3. CASE e = Len(out) + 1
      BY <1>7, <2>2, <3>3
    <3> QED
      BY <2>2, <3>2, <3>3
  <2> QED
    BY <1>3, <1>4, <1>9, <2>3, <2>4, <2>5 DEF MatchInv
<1> QED
  BY <1>1, <1>2, <1>10, <1>11 DEF TrkInv, TrackFile

\* The invariant of TrackMerge at the beginning and after every step.
LEMMA TrkInit ==
  ASSUME OfflineInit
  PROVE  TrkInv
<1>1. TrackFile(tInput)
  <2>1. CASE tInput \in TrackInputs
    BY <2>1, OfflineAssumption
  <2>2. CASE tInput = NoTriggers
    BY <2>2 DEF NoTriggers, TrackFile
  <2> QED
    BY <2>1, <2>2 DEF OfflineInit
<1>2. Trk!Begin
  BY DEF OfflineInit
<1>3. /\ tStage = "build" /\ tIndex = 0 /\ row = [c \in TrackChannel |-> 0] /\ event = << >>
      /\ nTriggers = 0 /\ matched = 0 /\ track = 0 /\ out = << >>
  BY <1>2 DEF Trk!Begin, Trk!Empty
<1>4. Trk!TypeOK
  BY <1>1, <1>3 DEF Trk!TypeOK, TrackFile
<1>5. GapsInv
  <2>1. \A n \in Trk!Starts : ~(n <= 0)
    BY <1>1, HitsType, StartsType
  <2> QED
    BY <1>3, <2>1 DEF GapsInv, Gathered
<1>6. MatchInv
  BY <1>3 DEF MatchInv, TrkRow, Trk!EachTriggerOnce, Trk!TrackIsOfTheMatch
<1> QED
  BY <1>1, <1>4, <1>5, <1>6 DEF TrkInv

LEMMA TrkStep ==
  ASSUME TrkInv, [OfflineNext]_offlineVars
  PROVE  TrkInv'
<1>1. CASE Trk!Next
  BY <1>1, TakeHitStep, EndOfHitsStep, MergeEventStep, EndOfEventsStep DEF Trk!Next
<1>2. CASE UNCHANGED trkVars
  <2>1. /\ tInput' = tInput /\ tIndex' = tIndex /\ tPrev' = tPrev /\ row' = row /\ event' = event
        /\ clock' = clock /\ nTriggers' = nTriggers /\ matched' = matched /\ track' = track /\ out' = out
        /\ tStage' = tStage
    BY <1>2 DEF trkVars
  <2>2. GapsInv'
    <3>1. Gathered(event, row, tIndex)'
      BY <2>1, GatheredAfter DEF TrkInv, GapsInv
    <3> QED
      BY <2>1, <3>1 DEF TrkInv, GapsInv, Hits
  <2>3. Trk!TypeOK' /\ MatchInv' /\ TrackFile(tInput)'
    BY <2>1 DEF TrkInv, Trk!TypeOK, MatchInv, Trk!EachTriggerOnce, Trk!TrackIsOfTheMatch, TrackFile
  <2> QED
    BY <2>2, <2>3 DEF TrkInv
<1> QED
  BY <1>1, <1>2 DEF OfflineNext, Convert, Merge, Group, offlineVars

\* At the end of the hits, the invariant is what was promised of the events.
LEMMA GapsAreEvents ==
  ASSUME TrkInv
  PROVE  Trk!EventsAreBetweenGaps
<1>1. SUFFICES ASSUME tStage # "build" PROVE
        /\ Len(event) = Trk!Max({1, Trk!Cardinality(Trk!Starts)}) - 1
        /\ \A n \in Trk!Starts : n # Trk!Max(Trk!Starts) =>
             event[Trk!Cardinality({s \in Trk!Starts : s <= n})] =
               [c \in TrackChannel |-> Trk!Max({0} \cup {k \in Trk!HitsFrom(n) : Trk!Hit(k)[1] = c})]
  BY Zenon DEF Trk!EventsAreBetweenGaps
<1>2. tIndex = Len(Hits) /\ Len(Hits) \in Nat /\ TrackFile(tInput) /\ Gathered(event, row, tIndex)
      /\ event \in Seq([TrackChannel -> 0 .. tIndex])
  BY <1>1, HitsType DEF TrkInv, GapsInv, Trk!TypeOK
<1>3. \A s \in Trk!Starts : s \in Nat /\ 1 <= s /\ s <= Len(Hits)
  BY <1>2, HitsType, StartsType
<1>4. Rank(tIndex) = Cardinality(Trk!Starts) /\ Rank(tIndex) \in Nat /\ Rank(0) = 0
  BY <1>2, RankFacts
<1>5. Len(event) = Trk!Max({1, Trk!Cardinality(Trk!Starts)}) - 1
  <2>1. PICK r \in Nat : r = Trk!Cardinality(Trk!Starts) /\ r = Rank(tIndex)
    BY <1>4, TrkCardinality
  <2>2. tIndex = 0 => r = 0
    BY <1>4, <2>1
  <2>3. tIndex # 0 => r >= 1
    <3>1. tIndex # 0 => 1 \in Trk!Starts /\ 1 <= tIndex
      BY <1>2, StartsType
    <3>2. tIndex # 0 => Rank(1) >= 1 /\ Rank(1) \in Nat /\ Rank(1) <= Rank(tIndex)
      BY <1>2, <3>1, RankFacts
    <3> QED
      BY <2>1, <3>2
  <2>4. PICK m \in Nat : m = IF r = 0 THEN 1 ELSE r
    OBVIOUS
  <2>5. MaxOfSet({1, r}, m)
    BY <2>4 DEF MaxOfSet
  <2>6. Trk!Max({1, r}) = m
    BY <2>4, <2>5, TrkMax
  <2>7. Len(event) = IF tIndex = 0 THEN 0 ELSE r - 1
    BY <1>2, <2>1 DEF Gathered
  <2> QED
    BY <2>1, <2>2, <2>3, <2>4, <2>6, <2>7
<1>6. ASSUME NEW n \in Trk!Starts, n # Trk!Max(Trk!Starts)
      PROVE  event[Trk!Cardinality({s \in Trk!Starts : s <= n})] =
               [c \in TrackChannel |-> Trk!Max({0} \cup {k \in Trk!HitsFrom(n) : Trk!Hit(k)[1] = c})]
  <2>1. Trk!Cardinality({s \in Trk!Starts : s <= n}) = Rank(n)
    BY TrkCardinality DEF Rank
  <2>2. Later(n, tIndex)
    <3>1. PICK S, N, m : S = Trk!Starts /\ N = Len(Hits) /\ m = Max(S)
      BY Zenon
    <3>2. N \in Nat /\ S \in SUBSET (0 .. N) /\ S # {}
      BY <1>2, <1>3, <3>1
    <3>3. MaxOfSet(S, m)
      BY <3>1, <3>2, NatMax, Zenon
    <3>4. Trk!Max(S) = m
      BY <3>1 DEF Trk!Max, Max
    <3>5. n # m /\ m \in S /\ n <= m /\ m \in Nat /\ m <= tIndex /\ n \in Nat
      BY <1>2, <1>3, <1>6, <3>1, <3>3, <3>4 DEF MaxOfSet
    <3> QED
      BY <3>1, <3>5 DEF Later
  <2>3. n <= tIndex /\ n \in Nat
    BY <1>2, <1>3
  <2>4. Rank(n) \in DOMAIN event
    <3>1. Rank(n) \in Nat /\ Rank(n) >= 1 /\ Rank(n) < Rank(tIndex)
      BY <1>2, <2>2, <2>3, RankFacts
    <3>2. Len(event) = Rank(tIndex) - 1
      BY <1>2, <1>3, <2>3 DEF Gathered
    <3> QED
      BY <1>2, <1>4, <3>1, <3>2
  <2>5. event[Rank(n)] \in [TrackChannel -> 0 .. tIndex]
    BY <1>2, <2>4
  <2>6. ASSUME NEW c \in TrackChannel
        PROVE  Trk!Max({0} \cup {k \in Trk!HitsFrom(n) : Trk!Hit(k)[1] = c}) = event[Rank(n)][c]
    <3>1. MaxOfSet(OfChannel(Trk!HitsFrom(n), c), event[Rank(n)][c])
      BY <1>2, <2>2, <2>3 DEF Gathered
    <3>2. {0} \cup {k \in Trk!HitsFrom(n) : Trk!Hit(k)[1] = c} = OfChannel(Trk!HitsFrom(n), c)
      BY DEF OfChannel, Trk!Hit, Hits
    <3>3. OfChannel(Trk!HitsFrom(n), c) \in SUBSET Int
      BY <2>3 DEF OfChannel, Trk!HitsFrom
    <3> QED
      BY <3>1, <3>2, <3>3, TrkMax
  <2> QED
    BY <2>1, <2>5, <2>6, Zenon
<1> QED
  BY <1>5, <1>6, Zenon

\* What lies between two gaps is an event, with the last hit of each channel, for
\* any hits (ConvertTOFPETSinglesToEvents.cc:90).
THEOREM GapsMakeEvents == OfflineSpec => []EventsAreBetweenGaps
<1>1. OfflineInit => TrkInv
  BY TrkInit
<1>2. TrkInv /\ [OfflineNext]_offlineVars => TrkInv'
  BY TrkStep
<1>3. TrkInv => EventsAreBetweenGaps
  BY GapsAreEvents DEF TrkInv, EventsAreBetweenGaps
<1> QED
  BY <1>1, <1>2, <1>3, PTL DEF OfflineSpec

\* No trigger of the telescope is given to two events, and a row with tracks has
\* those of its match, whatever the times are (MergeTOFPETWithPixels.cc:374, 402).
THEOREM TriggersOnce == OfflineSpec => [](Trk!EachTriggerOnce /\ Trk!TrackIsOfTheMatch)
<1>1. OfflineInit => TrkInv
  BY TrkInit
<1>2. TrkInv /\ [OfflineNext]_offlineVars => TrkInv'
  BY TrkStep
<1>3. TrkInv => Trk!EachTriggerOnce /\ Trk!TrackIsOfTheMatch
  BY DEF TrkInv, MatchInv
<1> QED
  BY <1>1, <1>2, <1>3, PTL DEF OfflineSpec

----------------------------------------------------------------------------
(* DrsConversion: what is left of the events in a file. *)

\* Words in order, each the event it is of and its place there.
Ascending(f) ==
  /\ f \in Seq(Int \X Int) /\ \A i \in DOMAIN f : f[i][2] >= 1
  /\ \A i, j \in DOMAIN f : i < j => Before(f[i], f[j])
\* The words up to b are those of the events before e, and no others.
BeginsAt(f, e, b) == b \in 0 .. Len(f) /\ \A i \in DOMAIN f : i <= b <=> f[i][1] < e

\* Of such words, one behind another is of a later event or a later word of the same.
LEMMA WordsInOrder ==
  ASSUME NEW f, Ascending(f)
  PROVE  /\ Len(f) \in Nat /\ DOMAIN f = 1 .. Len(f)
         /\ \A i \in 1 .. Len(f) : f[i] = <<f[i][1], f[i][2]>> /\ f[i][1] \in Int /\ f[i][2] \in Int /\ f[i][2] >= 1
         /\ \A i, j \in 1 .. Len(f) : i < j => f[i][1] < f[j][1] \/ (f[i][1] = f[j][1] /\ f[i][2] < f[j][2])
  BY DEF Ascending, Before

\* The first n words of an event are there, and are those behind b.
HasWords(f, e, n) == \A p \in 1 .. n : \E i \in 1 .. Len(f) : f[i] = <<e, p>>
WordsAt(f, e, b, n) == \A p \in 1 .. n : b + p \in 1 .. Len(f) /\ f[b + p] = <<e, p>>

\* The word after a word, if it is there, comes next.
LEMMA NextWord ==
  ASSUME NEW f, Ascending(f), NEW i \in 1 .. Len(f), NEW j \in 1 .. Len(f), NEW e \in Int, NEW p \in Int,
         f[i] = <<e, p>>, f[j] = <<e, p + 1>>
  PROVE  j = i + 1
<1>1. i < j
  <2>1. ASSUME j <= i PROVE FALSE
    <3>1. CASE j = i
      BY <3>1
    <3>2. CASE j < i
      BY <3>2, WordsInOrder
    <3> QED
      BY <2>1, <3>1, <3>2, WordsInOrder
  <2> QED
    BY <2>1, WordsInOrder
<1>2. ASSUME i + 1 < j PROVE FALSE
  <2>1. PICK k \in 1 .. Len(f) : k = i + 1
    BY <1>2, WordsInOrder
  <2>2. k \in Int /\ i < k /\ k < j /\ f[k][1] \in Int /\ f[k][2] \in Int
    BY <1>2, <2>1, WordsInOrder
  <2>3. e < f[k][1] \/ (e = f[k][1] /\ p < f[k][2])
    BY <2>2, WordsInOrder
  <2>4. f[k][1] < e \/ (f[k][1] = e /\ f[k][2] < p + 1)
    BY <2>2, WordsInOrder
  <2> QED
    BY <2>2, <2>3, <2>4
<1> QED
  BY <1>1, <1>2

\* The first words of an event that has them are the first behind its beginning.
LEMMA FirstWords ==
  ASSUME NEW f, Ascending(f), NEW e \in Int, NEW b, BeginsAt(f, e, b), NEW n \in Nat, HasWords(f, e, n)
  PROVE  WordsAt(f, e, b, n)
<1>1. b \in Nat /\ b <= Len(f) /\ Len(f) \in Nat /\ DOMAIN f = 1 .. Len(f)
  BY WordsInOrder DEF BeginsAt
<1> DEFINE Bad == {p \in 1 .. n : ~(b + p \in 1 .. Len(f) /\ f[b + p] = <<e, p>>)}
<1>2. ASSUME Bad # {} PROVE FALSE
  <2>1. Bad \in SUBSET (0 .. n)
    OBVIOUS
  <2> HIDE DEF Bad
  <2>2. PICK k \in Bad : k = 0 \/ k - 1 \notin Bad
    BY <1>2, <2>1, LeastOf
  <2> USE DEF Bad
  <2>3. k \in 1 .. n /\ ~(b + k \in 1 .. Len(f) /\ f[b + k] = <<e, k>>)
    BY <2>2
  <2>4. PICK i \in 1 .. Len(f) : f[i] = <<e, k>>
    BY <2>3 DEF HasWords
  <2>5. CASE k = 1
    <3>1. f[i][1] = e /\ f[i][2] = 1 /\ i > b
      BY <1>1, <2>4, <2>5 DEF BeginsAt
    <3>2. ASSUME b + 1 < i PROVE FALSE
      <4>1. PICK j \in 1 .. Len(f) : j = b + 1
        BY <1>1, <3>1, <3>2
      <4>2. ~(f[j][1] < e) /\ f[j][1] \in Int /\ f[j][2] \in Int /\ f[j][2] >= 1
        <5>1. j \in DOMAIN f /\ ~(j <= b)
          BY <1>1, <4>1
        <5>2. ~(f[j][1] < e)
          BY <5>1 DEF BeginsAt
        <5> QED
          BY <5>2, WordsInOrder
      <4>3. f[j][1] < e \/ (f[j][1] = e /\ f[j][2] < 1)
        BY <3>1, <3>2, <4>1, WordsInOrder
      <4> QED
        BY <4>2, <4>3
    <3>3. i = b + 1
      BY <1>1, <3>1, <3>2
    <3> QED
      BY <2>3, <2>4, <2>5, <3>3
  <2>6. CASE k # 1
    <3>1. PICK m \in 1 .. n : m = k - 1
      BY <2>3, <2>6
    <3>2. b + m \in 1 .. Len(f) /\ f[b + m] = <<e, m>>
      BY <2>2, <2>3, <3>1
    <3>3. PICK h \in 1 .. Len(f) : h = b + m
      BY <3>2
    <3>4. k = m + 1 /\ m \in Int
      BY <2>3, <3>1
    <3>5. f[h] = <<e, m>> /\ f[i] = <<e, m + 1>>
      BY <2>4, <3>2, <3>3, <3>4
    <3>6. i = h + 1
      BY <3>4, <3>5, NextWord, Zenon
    <3> QED
      BY <1>1, <2>3, <2>4, <3>1, <3>3, <3>6
  <2> QED
    BY <2>5, <2>6
<1> QED
  BY <1>2 DEF WordsAt

\* Words of one event are no more than their places are apart.
LEMMA PlacesApart ==
  ASSUME NEW f, Ascending(f), NEW i \in 1 .. Len(f), NEW j \in 1 .. Len(f), i <= j, f[i][1] = f[j][1]
  PROVE  j - i <= f[j][2] - f[i][2]
<1>1. /\ i \in Nat /\ j \in Nat /\ j - i \in Nat /\ Len(f) \in Nat
      /\ \A d \in 0 .. j - i : i + d \in 1 .. Len(f) /\ f[i + d][1] = f[i][1] /\ f[i + d][2] \in Int
  <2>1. i \in Nat /\ j \in Nat /\ j - i \in Nat /\ Len(f) \in Nat
    BY WordsInOrder
  <2>2. ASSUME NEW d \in 0 .. j - i
        PROVE  i + d \in 1 .. Len(f) /\ f[i + d][1] = f[i][1] /\ f[i + d][2] \in Int
    <3>1. PICK k \in 1 .. Len(f) : k = i + d
      BY <2>1
    <3>2. i <= k /\ k <= j
      BY <2>1, <3>1
    <3>3. f[i][1] \in Int /\ f[k][1] \in Int /\ f[j][1] \in Int /\ f[k][2] \in Int
      BY WordsInOrder
    <3>4. f[i][1] <= f[k][1] /\ f[k][1] <= f[j][1]
      <4>1. CASE i < k /\ k < j
        <5>1. f[i][1] < f[k][1] \/ f[i][1] = f[k][1]
          BY <4>1, WordsInOrder
        <5>2. f[k][1] < f[j][1] \/ f[k][1] = f[j][1]
          BY <4>1, WordsInOrder
        <5> QED
          BY <3>3, <5>1, <5>2
      <4>2. CASE i = k \/ k = j
        <5>1. CASE i = k
          BY <3>3, <5>1
        <5>2. CASE k = j
          BY <3>3, <5>2
        <5> QED
          BY <4>2, <5>1, <5>2
      <4> QED
        BY <2>1, <3>2, <4>1, <4>2
    <3> QED
      BY <3>1, <3>3, <3>4
  <2> QED
    BY <2>1, <2>2
<1> DEFINE Bad == {d \in 0 .. j - i : f[i + d][2] - f[i][2] < d}
<1>2. ASSUME Bad # {} PROVE FALSE
  <2>1. Bad \in SUBSET (0 .. j - i)
    OBVIOUS
  <2> HIDE DEF Bad
  <2>2. PICK k \in Bad : k = 0 \/ k - 1 \notin Bad
    BY <1>1, <1>2, <2>1, LeastOf
  <2> USE DEF Bad
  <2>3. k \in 0 .. j - i /\ f[i + k][2] - f[i][2] < k
    BY <2>2
  <2>4. f[i][2] \in Int /\ f[i + 0] = f[i]
    BY <1>1, WordsInOrder
  <2>5. k # 0
    BY <2>3, <2>4
  <2>6. PICK m \in 0 .. j - i : m = k - 1
    BY <1>1, <2>3, <2>5
  <2>7. m \notin Bad
    BY <2>2, <2>5, <2>6
  <2>8. f[i + m][2] < f[i + k][2]
    <3>1. i + m < i + k
      BY <1>1, <2>3, <2>6
    <3>2. f[i + m][1] = f[i + k][1] /\ f[i + m][1] \in Int
      BY <1>1, <2>3, <2>6, WordsInOrder
    <3>3. PICK a \in 1 .. Len(f), b \in 1 .. Len(f) : a = i + m /\ b = i + k
      BY <1>1, <2>3, <2>6
    <3>4. a < b /\ f[a][1] = f[b][1] /\ f[a][1] \in Int
      BY <3>1, <3>2, <3>3
    <3>5. f[a][1] < f[b][1] \/ f[a][2] < f[b][2]
      BY <3>4, WordsInOrder
    <3> QED
      BY <3>3, <3>4, <3>5
  <2>9. PICK x \in Int, y \in Int, z \in Int : x = f[i + m][2] /\ y = f[i + k][2] /\ z = f[i][2]
    BY <1>1, <2>3, <2>4, <2>6
  <2>10. ~(x - z < m)
    BY <2>6, <2>7, <2>9
  <2>11. y - z < k /\ x < y
    BY <2>3, <2>8, <2>9
  <2>12. k \in Int /\ m \in Int
    BY <1>1, <2>3, <2>6
  <2> QED
    BY <2>6, <2>10, <2>11, <2>12
<1>3. PICK d \in 0 .. j - i : d = j - i
  BY <1>1
<1>4. i + d = j /\ d \notin Bad
  <2>1. i + d = j
    BY <1>1, <1>3
  <2>2. d \notin Bad
    BY <1>2, Zenon
  <2> QED
    BY <2>1, <2>2
<1>5. PICK y \in Int, z \in Int : y = f[j][2] /\ z = f[i][2]
  BY WordsInOrder
<1>6. ~(y - z < d)
  BY <1>4, <1>5
<1> QED
  BY <1>1, <1>3, <1>5, <1>6

\* An event ends where the next begins: behind its last word, if it has all, and
\* before the first word of the next.
LEMMA BehindWhole ==
  ASSUME NEW f, Ascending(f), NEW e \in Int, NEW b, BeginsAt(f, e, b), NEW n \in Nat \ {0},
         WordsAt(f, e, b, n),
         \A i \in 1 .. Len(f) : f[i][1] = e => f[i][2] <= n
  PROVE  BeginsAt(f, e + 1, b + n)
<1>1. b \in Nat /\ b <= Len(f) /\ Len(f) \in Nat /\ DOMAIN f = 1 .. Len(f)
  BY WordsInOrder DEF BeginsAt
<1>2. b + n \in 1 .. Len(f) /\ f[b + n] = <<e, n>>
  BY DEF WordsAt
<1>3. ASSUME NEW i \in 1 .. Len(f), i <= b + n PROVE f[i][1] < e + 1
  <2>1. CASE i <= b
    <3>1. f[i][1] < e
      BY <1>1, <2>1 DEF BeginsAt
    <3>2. f[i][1] \in Int
      BY WordsInOrder
    <3> QED
      BY <3>1, <3>2
  <2>2. CASE i > b
    <3>1. PICK p \in 1 .. n : i = b + p
      <4>1. i - b \in 1 .. n /\ i = b + (i - b)
        BY <1>1, <1>3, <2>2
      <4> QED
        BY <4>1
    <3>2. f[i] = <<e, p>>
      BY <3>1 DEF WordsAt
    <3> QED
      BY <3>2
  <2> QED
    BY <1>1, <2>1, <2>2
<1>4. ASSUME NEW i \in 1 .. Len(f), ~(i <= b + n), f[i][1] < e + 1 PROVE FALSE
  <2>1. PICK k \in 1 .. Len(f) : k = b + n
    BY <1>2
  <2>2. f[k][1] = e /\ f[k][2] = n /\ k < i
    BY <1>1, <1>2, <1>4, <2>1
  <2>3. f[k][1] < f[i][1] \/ (f[k][1] = f[i][1] /\ f[k][2] < f[i][2])
    BY <2>2, WordsInOrder
  <2>4. f[i][1] \in Int /\ f[i][2] \in Int
    BY WordsInOrder
  <2> QED
    BY <1>4, <2>2, <2>3, <2>4
<1> QED
  BY <1>1, <1>2, <1>3, <1>4 DEF BeginsAt

LEMMA BeforeFirst ==
  ASSUME NEW f, Ascending(f), NEW e \in Int, NEW j \in 1 .. Len(f), f[j] = <<e, 1>>
  PROVE  BeginsAt(f, e, j - 1)
<1>1. Len(f) \in Nat /\ DOMAIN f = 1 .. Len(f) /\ j - 1 \in 0 .. Len(f) /\ j \in Nat
  BY WordsInOrder
<1>2. ASSUME NEW i \in 1 .. Len(f), i <= j - 1 PROVE f[i][1] < e
  <2>1. i < j /\ f[j][1] = e /\ f[j][2] = 1
    BY <1>1, <1>2
  <2>2. f[i][1] < e \/ (f[i][1] = e /\ f[i][2] < 1)
    BY <2>1, WordsInOrder
  <2>3. f[i][2] \in Int /\ f[i][2] >= 1
    BY WordsInOrder
  <2> QED
    BY <2>2, <2>3
<1>3. ASSUME NEW i \in 1 .. Len(f), ~(i <= j - 1), f[i][1] < e PROVE FALSE
  <2>1. f[j][1] = e /\ f[i][1] \in Int
    BY WordsInOrder
  <2>2. CASE i = j
    BY <1>3, <2>1, <2>2
  <2>3. CASE j < i
    <3>1. f[j][1] < f[i][1] \/ f[j][1] = f[i][1]
      BY <2>3, WordsInOrder
    <3> QED
      BY <1>3, <2>1, <3>1
  <2> QED
    BY <1>1, <1>3, <2>2, <2>3
<1> QED
  BY <1>1, <1>2, <1>3 DEF BeginsAt

\* An event is shorter in the file by what it lost.
LEMMA WordsLeft ==
  ASSUME NEW f, Ascending(f), NEW e \in Int, NEW b, BeginsAt(f, e, b), NEW q, BeginsAt(f, e + 1, q),
         NEW n \in Nat, \A i \in 1 .. Len(f) : f[i][1] = e => f[i][2] <= n,
         NEW L \in SUBSET (1 .. n), \A p \in L : ~(\E i \in 1 .. Len(f) : f[i] = <<e, p>>)
  PROVE  q - b <= n - Cardinality(L)
<1>1. b \in Nat /\ b <= Len(f) /\ Len(f) \in Nat /\ DOMAIN f = 1 .. Len(f) /\ q \in Nat /\ q <= Len(f)
  BY WordsInOrder DEF BeginsAt
<1>2. ASSUME NEW i \in b + 1 .. q PROVE i \in 1 .. Len(f) /\ f[i] = <<e, f[i][2]>> /\ f[i][2] \in (1 .. n) \ L
  <2>1. i \in 1 .. Len(f) /\ i \in DOMAIN f /\ ~(i <= b) /\ i <= q
    BY <1>1
  <2>2. ~(f[i][1] < e) /\ f[i][1] < e + 1
    BY <2>1 DEF BeginsAt
  <2>3. f[i] = <<f[i][1], f[i][2]>> /\ f[i][1] \in Int /\ f[i][2] \in Int /\ f[i][2] >= 1
    BY <2>1, WordsInOrder
  <2>4. f[i][1] = e
    BY <2>2, <2>3
  <2>5. f[i][2] <= n
    BY <2>1, <2>4
  <2>6. f[i][2] \notin L
    BY <2>1, <2>3, <2>4, Zenon
  <2> QED
    BY <2>1, <2>3, <2>4, <2>5, <2>6
<1> DEFINE g == [i \in b + 1 .. q |-> f[i][2]]
<1>3. ASSUME NEW i \in b + 1 .. q, NEW j \in b + 1 .. q, g[i] = g[j] PROVE i = j
  <2>1. f[i][1] = f[j][1] /\ f[i][2] = f[j][2] /\ i \in 1 .. Len(f) /\ j \in 1 .. Len(f) /\ f[i][2] \in Int
    BY <1>2, <1>3
  <2>2. ~(i < j) /\ ~(j < i)
    BY <2>1, WordsInOrder
  <2> QED
    BY <1>1, <2>1, <2>2
<1>4. g \in Injection(b + 1 .. q, (1 .. n) \ L)
  BY <1>2, <1>3 DEF Injection, IsInjective
<1>5. IsFiniteSet(1 .. n) /\ Cardinality(1 .. n) = n
  BY FS_Interval
<1>6. IsFiniteSet(L) /\ IsFiniteSet((1 .. n) \ L) /\ Cardinality((1 .. n) \ L) = n - Cardinality(L) /\ Cardinality(L) \in Nat
  <2>1. PICK S : S = 1 .. n
    OBVIOUS
  <2>2. IsFiniteSet(S) /\ L \in SUBSET S /\ Cardinality(S) = n
    BY <1>5, <2>1
  <2>3. IsFiniteSet(L) /\ Cardinality(L) \in Nat
    BY <2>2, FS_Subset, FS_CardinalityType
  <2>4. IsFiniteSet(S \ L) /\ Cardinality(S \ L) = Cardinality(S) - Cardinality(S \cap L)
    BY <2>2, <2>3, FS_Difference
  <2>5. S \cap L = L
    BY <2>2
  <2> QED
    BY <2>1, <2>2, <2>3, <2>4, <2>5
<1>7. Cardinality(b + 1 .. q) <= n - Cardinality(L)
  BY <1>4, <1>6, FS_Injection
<1>8. Cardinality(b + 1 .. q) = IF b + 1 > q THEN 0 ELSE q - (b + 1) + 1
  BY <1>1, FS_Interval
<1>9. L = (1 .. n) \cap L
  OBVIOUS
<1>10. Cardinality(L) <= n
  BY <1>5, FS_Subset
<1> QED
  BY <1>1, <1>6, <1>7, <1>8, <1>10

\* The zeros of two events that follow each other are at most one event apart, and
\* what follows the zero of the last is less than that.
LEMMA ZerosApart ==
  ASSUME NEW f, Ascending(f), NEW e \in Int, NEW n \in Nat, n >= 4, NEW z \in 1 .. Len(f), f[z] = <<e, 3>>,
         \A i \in 1 .. Len(f) : f[i][1] = e => f[i][2] <= n
  PROVE  /\ \A y \in 1 .. Len(f) : f[y] = <<e + 1, 3>> => z < y /\ y - z <= n
         /\ (\A i \in 1 .. Len(f) : f[i][1] <= e) => Len(f) - z <= n - 3
<1>1. Len(f) \in Nat /\ z \in Nat /\ f[z][1] = e /\ f[z][2] = 3
  BY WordsInOrder
<1>2. ASSUME NEW y \in 1 .. Len(f), f[y] = <<e + 1, 3>> PROVE z < y /\ y - z <= n
  <2>1. y \in Nat /\ f[y][1] = e + 1 /\ f[y][2] = 3
    BY <1>1, <1>2
  <2>2. z < y
    <3>1. ~(y < z)
      BY <1>1, <2>1, WordsInOrder
    <3> QED
      BY <1>1, <2>1, <3>1
  <2>3. \A k \in 1 .. Len(f) : z <= k /\ k <= y => f[k][1] \in {e, e + 1}
    <3> SUFFICES ASSUME NEW k \in 1 .. Len(f), z < k, k < y PROVE f[k][1] \in {e, e + 1}
      BY <1>1, <2>1
    <3>1. /\ \A a \in 1 .. Len(f) : f[a][1] \in Int
          /\ \A a, b \in 1 .. Len(f) : a < b => f[a][1] < f[b][1] \/ f[a][1] = f[b][1]
      BY WordsInOrder
    <3>2. f[k][1] \in Int /\ (f[z][1] < f[k][1] \/ f[z][1] = f[k][1]) /\ (f[k][1] < f[y][1] \/ f[k][1] = f[y][1])
      BY <3>1
    <3> QED
      BY <1>1, <2>1, <3>2
  <2> DEFINE P == {k \in 0 .. y : z < k /\ f[k][1] = e + 1}
  <2>4. y \in P
    BY <2>1, <2>2
  <2>5. PICK k \in P : k = 0 \/ k - 1 \notin P
    <3>1. P \in SUBSET (0 .. y) /\ P # {}
      BY <2>4
    <3> HIDE DEF P
    <3> QED
      BY <2>1, <3>1, LeastOf
  <2>6. k \in 1 .. Len(f) /\ z < k /\ k <= y /\ f[k][1] = e + 1
    BY <1>1, <2>1, <2>5
  <2>7. PICK j \in 1 .. Len(f) : j = k - 1 /\ z <= j
    BY <1>1, <2>6
  <2>8. f[j][1] = e
    <3>1. CASE j = z
      BY <1>1, <3>1
    <3>2. CASE z < j
      <4>1. j \notin P /\ j \in 0 .. y
        BY <1>1, <2>1, <2>5, <2>6, <2>7
      <4>2. f[j][1] # e + 1
        BY <3>2, <4>1
      <4>3. f[j][1] \in {e, e + 1}
        BY <1>1, <2>1, <2>3, <2>6, <2>7
      <4> QED
        BY <4>2, <4>3
    <3> QED
      BY <1>1, <2>7, <3>1, <3>2
  <2>9. j - z <= f[j][2] - f[z][2]
    BY <1>1, <2>7, <2>8, PlacesApart
  <2>10. y - k <= f[y][2] - f[k][2]
    BY <2>1, <2>6, PlacesApart
  <2>11. f[j][2] <= n /\ f[j][2] \in Int /\ f[k][2] \in Int /\ f[k][2] >= 1
    BY <2>6, <2>8, WordsInOrder
  <2>12. PICK u \in Int, v \in Int : u = f[j][2] /\ v = f[k][2]
    BY <2>11
  <2>13. j - z <= u - 3 /\ y - k <= 3 - v /\ u <= n /\ v >= 1
    BY <1>1, <2>1, <2>9, <2>10, <2>11, <2>12
  <2> QED
    BY <1>1, <2>1, <2>2, <2>6, <2>7, <2>13
<1>3. ASSUME \A i \in 1 .. Len(f) : f[i][1] <= e PROVE Len(f) - z <= n - 3
  <2>1. PICK j \in 1 .. Len(f) : j = Len(f) /\ z <= j
    BY <1>1
  <2>2. f[j][1] \in Int /\ f[j][1] <= e /\ e <= f[j][1]
    <3>1. z < j => e <= f[j][1]
      BY <1>1, WordsInOrder
    <3>2. z = j => e <= f[j][1]
      BY <1>1
    <3> QED
      BY <1>1, <1>3, <2>1, <3>1, <3>2, WordsInOrder
  <2>3. f[j][1] = e
    BY <2>2
  <2>4. j - z <= f[j][2] - f[z][2] /\ f[j][2] <= n /\ f[j][2] \in Int
    BY <1>1, <2>1, <2>3, PlacesApart, WordsInOrder
  <2> QED
    BY <1>1, <2>1, <2>4
<1> QED
  BY <1>2, <1>3

----------------------------------------------------------------------------
(* The file of a converter. *)

\* The file is one there can be; its words, its events, the words of groups and
\* the groups in the order they are read.
FileRight == DrsFile(dInput) /\ LossesOnly(dInput)
F == dInput.file
NEvents == Len(dInput.groups)
Units(gs) == IF Len(gs) = 2 THEN Drs!GroupLength + Drs!GroupLength
             ELSE IF Len(gs) = 1 THEN Drs!GroupLength ELSE 0
Turns == {<< >>, <<0>>, <<1>>, <<0, 1>>}

LEMMA DrsCardinality ==
  ASSUME NEW S
  PROVE  Drs!Cardinality(S) = Cardinality(S)
  BY DEF Drs!Cardinality, Cardinality

LEMMA UnitType == Drs!GroupLength \in Nat /\ Drs!GroupLength = 2 + 3 * Triples /\ Triples \in Nat /\ Triples >= 1
  BY OfflineAssumption DEF Drs!GroupLength, OfflineAssumption

LEMMA TurnsJoined ==
  << >> \o << >> = << >> /\ <<0>> \o << >> = <<0>> /\ << >> \o <<1>> = <<1>> /\ <<0>> \o <<1>> = <<0, 1>>
<1>1. \A s, t \in Seq(Int) : /\ s \o t \in Seq(Int) /\ Len(s \o t) = Len(s) + Len(t)
                            /\ \A n \in 1 .. Len(s) + Len(t) : (s \o t)[n] = IF n <= Len(s) THEN s[n] ELSE t[n - Len(s)]
  OBVIOUS
<1>2. /\ << >> \in Seq(Int) /\ <<0>> \in Seq(Int) /\ <<1>> \in Seq(Int) /\ <<0, 1>> \in Seq(Int)
      /\ Len(<< >>) = 0 /\ Len(<<0>>) = 1 /\ Len(<<1>>) = 1 /\ Len(<<0, 1>>) = 2
      /\ (<<0>>)[1] = 0 /\ (<<1>>)[1] = 1 /\ (<<0, 1>>)[1] = 0 /\ (<<0, 1>>)[2] = 1
  OBVIOUS
<1>3. \A s, t \in Seq(Int) : Len(s) = Len(t) /\ (\A n \in 1 .. Len(s) : s[n] = t[n]) => s = t
  OBVIOUS
<1>4. << >> \o << >> = << >>
  BY <1>1, <1>2, <1>3
<1>5. <<0>> \o << >> = <<0>>
  BY <1>1, <1>2, <1>3
<1>6. << >> \o <<1>> = <<1>>
  BY <1>1, <1>2, <1>3
<1>7. <<0>> \o <<1>> = <<0, 1>>
  <2>1. PICK s : s = <<0>> \o <<1>>
    OBVIOUS
  <2>2. s \in Seq(Int) /\ Len(s) = 2 /\ s[1] = 0 /\ s[2] = 1
    BY <1>1, <1>2, <2>1
  <2>3. PICK t : t = <<0, 1>>
    OBVIOUS
  <2>4. t \in Seq(Int) /\ Len(t) = 2 /\ t[1] = 0 /\ t[2] = 1
    BY <1>2, <2>3
  <2>5. s = t
    BY <1>3, <2>2, <2>4
  <2> QED
    BY <2>1, <2>3, <2>5
<1> QED
  BY <1>4, <1>5, <1>6, <1>7

\* The groups of an event in turn, and how many words they have.
LEMMA TurnsOf ==
  ASSUME NEW gs \in SUBSET {0, 1}
  PROVE  /\ Drs!InTurn(gs) \in Turns
         /\ {Drs!InTurn(gs)[n] : n \in DOMAIN Drs!InTurn(gs)} = gs
         /\ Cardinality(gs) * Drs!GroupLength = Units(Drs!InTurn(gs))
<1>1. gs = {} \/ gs = {0} \/ gs = {1} \/ gs = {0, 1}
  <2>1. gs = {x \in {0, 1} : x \in gs}
    OBVIOUS
  <2> QED
    BY <2>1
<1>2. Cardinality({}) = 0 /\ Cardinality({0}) = 1 /\ Cardinality({1}) = 1 /\ Cardinality({0, 1}) = 2
  <2>1. IsFiniteSet({0}) /\ Cardinality({0}) = 1 /\ Cardinality({1}) = 1
    BY FS_Singleton
  <2>2. Cardinality({0} \cup {1}) = 2
    <3>1. 1 \notin {0}
      OBVIOUS
    <3>2. Cardinality({0} \cup {1}) = Cardinality({0}) + 1
      BY <2>1, <3>1, FS_AddElement
    <3> QED
      BY <2>1, <3>2
  <2>3. {0} \cup {1} = {0, 1}
    OBVIOUS
  <2> QED
    BY <2>1, <2>2, <2>3, FS_EmptySet
<1>3. Drs!GroupLength \in Nat
  BY UnitType
<1>4. Drs!InTurn({}) = << >> /\ Drs!InTurn({0}) = <<0>> /\ Drs!InTurn({1}) = <<1>> /\ Drs!InTurn({0, 1}) = <<0, 1>>
  BY TurnsJoined DEF Drs!InTurn
<1>5. Units(<< >>) = 0 /\ Units(<<0>>) = Drs!GroupLength /\ Units(<<1>>) = Drs!GroupLength
      /\ Units(<<0, 1>>) = 2 * Drs!GroupLength
  BY <1>3 DEF Units
<1>6. /\ {(<< >>)[n] : n \in DOMAIN << >>} = {} /\ {(<<0>>)[n] : n \in DOMAIN <<0>>} = {0}
      /\ {(<<1>>)[n] : n \in DOMAIN <<1>>} = {1} /\ {(<<0, 1>>)[n] : n \in DOMAIN <<0, 1>>} = {0, 1}
  OBVIOUS
<1> QED
  <2>1. CASE gs = {}
    BY <1>2, <1>3, <1>4, <1>5, <1>6, <2>1 DEF Turns
  <2>2. CASE gs = {0}
    BY <1>2, <1>3, <1>4, <1>5, <1>6, <2>2 DEF Turns
  <2>3. CASE gs = {1}
    BY <1>2, <1>3, <1>4, <1>5, <1>6, <2>3 DEF Turns
  <2>4. CASE gs = {0, 1}
    BY <1>2, <1>3, <1>4, <1>5, <1>6, <2>4 DEF Turns
  <2> QED
    BY <1>1, <2>1, <2>2, <2>3, <2>4
\* What is known of the file, and of the length of its events.
LEMMA FileFacts ==
  ASSUME FileRight
  PROVE  /\ Ascending(F) /\ Len(F) \in Nat /\ DOMAIN F = 1 .. Len(F)
         /\ NEvents \in Nat /\ NEvents <= Unlimited /\ Unlimited \in Nat
         /\ F \in Seq((1 .. NEvents) \X (Nat \ {0}))
         /\ \A i \in 1 .. Len(F) : /\ F[i][1] \in 1 .. NEvents /\ F[i][2] \in Nat /\ 1 <= F[i][2]
                                   /\ F[i] = <<F[i][1], F[i][2]>> /\ F[i][2] <= Drs!EventLength(F[i][1])
<1>1. /\ F \in Seq((1 .. NEvents) \X (Nat \ {0})) /\ NEvents \in Nat
      /\ \A i, j \in DOMAIN F : i < j => Before(F[i], F[j])
      /\ \A i \in DOMAIN F : F[i][2] <= LengthIn(dInput, F[i][1])
      /\ NEvents <= Unlimited
  BY DEF FileRight, DrsFile, LossesOnly, F, NEvents
<1>2. Len(F) \in Nat /\ DOMAIN F = 1 .. Len(F) /\ \A i \in 1 .. Len(F) : F[i] \in (1 .. NEvents) \X (Nat \ {0})
  BY <1>1
<1>3. F \in Seq(Int \X Int)
  BY <1>1
<1>4. \A i \in 1 .. Len(F) : /\ F[i][1] \in 1 .. NEvents /\ F[i][2] \in Nat /\ 1 <= F[i][2] /\ F[i] = <<F[i][1], F[i][2]>>
  BY <1>2
<1>5. \A e : LengthIn(dInput, e) = Drs!EventLength(e)
  BY DrsCardinality DEF LengthIn, Drs!EventLength
<1>6. Unlimited \in Nat
  BY OfflineAssumption DEF OfflineAssumption
<1> QED
  BY <1>1, <1>2, <1>3, <1>4, <1>5, <1>6 DEF Ascending

\* How long events are, and that dat2rootPixels has both groups in each.
LEMMA EventWords ==
  ASSUME FileRight, NEW e \in 1 .. NEvents
  PROVE  /\ dInput.groups[e] \in SUBSET {0, 1}
         /\ Drs!EventLength(e) = 4 + Units(Drs!InTurn(dInput.groups[e]))
         /\ Drs!EventLength(e) \in Nat /\ Drs!EventLength(e) >= 4
         /\ Drs!Lost(e) \in SUBSET (1 .. Drs!EventLength(e))
         /\ \A p \in 1 .. Drs!EventLength(e) : p \notin Drs!Lost(e) <=> \E i \in 1 .. Len(F) : F[i] = <<e, p>>
         /\ Drs!Pixels => dInput.groups[e] = {0, 1} /\ Drs!EventLength(e) = 4 + Drs!GroupLength + Drs!GroupLength
         /\ ~Drs!Pixels => Drs!Lost(e) = {}
<1>1. dInput.groups[e] \in SUBSET {0, 1} /\ e \in DOMAIN dInput.groups
  BY DEF FileRight, DrsFile, NEvents
<1>2. Drs!EventLength(e) = 4 + Units(Drs!InTurn(dInput.groups[e]))
  <2>1. Cardinality(dInput.groups[e]) * Drs!GroupLength = Units(Drs!InTurn(dInput.groups[e]))
    BY <1>1, TurnsOf
  <2> QED
    BY <2>1, DrsCardinality DEF Drs!EventLength
<1>3. Units(Drs!InTurn(dInput.groups[e])) \in Nat
  BY UnitType DEF Units
<1>4. Drs!Lost(e) \in SUBSET (1 .. Drs!EventLength(e))
  BY DEF Drs!Lost
<1>5. \A p \in 1 .. Drs!EventLength(e) : p \notin Drs!Lost(e) <=> \E i \in 1 .. Len(F) : F[i] = <<e, p>>
  BY FileFacts DEF Drs!Lost, Drs!Range, Drs!file, F
<1>6. Drs!Pixels => dInput.groups[e] = {0, 1}
  BY <1>1 DEF Drs!Pixels, FileRight, LossesOnly
<1>7. ASSUME ~Drs!Pixels PROVE Drs!Lost(e) = {}
  <2>1. LengthIn(dInput, e) = Drs!EventLength(e)
    BY DrsCardinality DEF LengthIn, Drs!EventLength
  <2>2. \A p \in 1 .. Drs!EventLength(e) : \E i \in DOMAIN F : F[i] = <<e, p>>
    BY <1>1, <1>7, <2>1 DEF Drs!Pixels, FileRight, LossesOnly, F
  <2> QED
    BY <1>4, <1>5, <2>2, FileFacts
<1>8. Units(Drs!InTurn({0, 1})) = Drs!GroupLength + Drs!GroupLength
  <2>1. Drs!InTurn({0, 1}) = <<0, 1>>
    BY TurnsJoined DEF Drs!InTurn
  <2> QED
    BY <2>1 DEF Units
<1>9. Drs!EventLength(e) \in Nat /\ Drs!EventLength(e) >= 4
  BY <1>2, <1>3
<1>10. ASSUME Drs!Pixels PROVE Drs!EventLength(e) = 4 + Drs!GroupLength + Drs!GroupLength
  <2>1. Drs!InTurn(dInput.groups[e]) = Drs!InTurn({0, 1})
    BY <1>6, <1>10
  <2>2. PICK g \in Nat : g = Drs!GroupLength
    BY UnitType
  <2>3. Drs!EventLength(e) = 4 + (g + g)
    BY <1>2, <1>8, <2>1, <2>2
  <2> QED
    BY <2>2, <2>3
<1> QED
  BY <1>1, <1>2, <1>4, <1>5, <1>6, <1>7, <1>9, <1>10

\* The words of an event that came whole stand behind each other.
LEMMA WholeThere ==
  ASSUME FileRight, NEW e \in 1 .. NEvents, Drs!Lost(e) = {}, NEW b, BeginsAt(F, e, b)
  PROVE  WordsAt(F, e, b, Drs!EventLength(e)) /\ BeginsAt(F, e + 1, b + Drs!EventLength(e))
<1>1. PICK n \in Nat \ {0} : n = Drs!EventLength(e)
  BY EventWords
<1>2. e \in Int /\ Ascending(F)
  BY FileFacts
<1>3. HasWords(F, e, n)
  BY <1>1, EventWords DEF HasWords
<1>4. WordsAt(F, e, b, n)
  BY <1>2, <1>3, FirstWords
<1>5. \A i \in 1 .. Len(F) : F[i][1] = e => F[i][2] <= n
  BY <1>1, FileFacts
<1>6. BeginsAt(F, e + 1, b + n)
  BY <1>2, <1>4, <1>5, BehindWhole
<1> QED
  BY <1>1, <1>4, <1>6

\* An event whose loss can be noticed: the zero of the next is not behind what is read.
LEMMA DamagedThere ==
  ASSUME FileRight, NEW e \in 1 .. NEvents, e + 1 \in 1 .. NEvents, Drs!Lost(e) # {}, Drs!Noticed(e), Drs!Noticed(e + 1),
         NEW b, BeginsAt(F, e, b)
  PROVE  \E q : /\ BeginsAt(F, e + 1, q) /\ b + 3 <= q /\ q + 3 <= b + Drs!EventLength(e)
                /\ q + 3 \in 1 .. Len(F) /\ F[q + 3][2] = 3
                /\ \A i \in 1 .. Len(F) : b + 4 <= i /\ i < q + 3 => F[i][2] # 3
<1>1. e \in Int /\ e + 1 \in Int /\ Ascending(F) /\ DOMAIN F = 1 .. Len(F) /\ Len(F) \in Nat
      /\ b \in Nat /\ b <= Len(F)
  BY FileFacts DEF BeginsAt
<1>2. ASSUME NEW d \in 1 .. NEvents, Drs!Noticed(d) PROVE HasWords(F, d, 3)
  <2>1. 1 .. 3 \subseteq 1 .. Drs!EventLength(d) /\ Drs!EventLength(d) \in Nat
    BY EventWords
  <2>2. \A p \in 1 .. 3 : p \notin Drs!Lost(d)
    <3>1. CASE Drs!Lost(d) = {}
      BY <3>1
    <3>2. CASE Drs!Lost(d) # {} /\ Drs!Min(Drs!Lost(d)) > 3
      <4>0. PICK n \in Nat : n = Drs!EventLength(d)
        BY <2>1
      <4>1. PICK L : L = Drs!Lost(d) /\ n = Drs!EventLength(d)
        BY <4>0
      <4>2. L \in SUBSET (0 .. n)
        BY <4>1, EventWords
      <4>3. L # {}
        BY <3>2, <4>1
      <4>4. MinOf(L, Min(L))
        BY <4>2, <4>3, NatMin
      <4>5. Min(L) = Drs!Min(Drs!Lost(d))
        BY <4>1 DEF Min, Drs!Min
      <4>6. \A x \in L : x > 3
        <5>1. PICK m : m = Min(L)
          OBVIOUS
        <5>2. m > 3 /\ m \in L /\ \A x \in L : m <= x
          BY <3>2, <4>4, <4>5, <5>1 DEF MinOf
        <5>3. \A x \in L : x \in Nat /\ m \in Nat
          BY <4>2, <5>2
        <5> QED
          BY <5>2, <5>3
      <4> QED
        BY <4>1, <4>6
    <3> QED
      BY <1>2, <3>1, <3>2 DEF Drs!Noticed
  <2> QED
    BY <2>1, <2>2, EventWords DEF HasWords
<1>3. \A p \in 1 .. 3 : b + p \in 1 .. Len(F) /\ F[b + p] = <<e, p>>
  <2>1. 3 \in Nat /\ HasWords(F, e, 3)
    BY <1>2
  <2> QED
    BY <1>1, <2>1, FirstWords DEF WordsAt
<1>4. PICK j \in 1 .. Len(F) : F[j] = <<e + 1, 1>>
  <2>1. HasWords(F, e + 1, 3) /\ 1 \in 1 .. 3
    BY <1>2
  <2> QED
    BY <2>1, Zenon DEF HasWords
<1>5. PICK q \in Int : q = j - 1
  BY <1>1
<1>6. BeginsAt(F, e + 1, q)
  BY <1>1, <1>4, <1>5, BeforeFirst
<1>7. \A p \in 1 .. 3 : q + p \in 1 .. Len(F) /\ F[q + p] = <<e + 1, p>>
  <2>1. 3 \in Nat /\ HasWords(F, e + 1, 3)
    BY <1>2
  <2> QED
    BY <1>1, <1>6, <2>1, FirstWords DEF WordsAt
<1>8. b + 3 <= q
  <2>1. b + 3 \in 1 .. Len(F) /\ F[b + 3][1] < e + 1
    BY <1>1, <1>3
  <2> QED
    BY <1>1, <2>1, <1>6 DEF BeginsAt
<1>9. q + 3 <= b + Drs!EventLength(e)
  <2>1. PICK n \in Nat : n = Drs!EventLength(e)
    BY EventWords
  <2>2. \A i \in 1 .. Len(F) : F[i][1] = e => F[i][2] <= n
    BY <2>1, FileFacts
  <2>3. PICK L : L = Drs!Lost(e)
    OBVIOUS
  <2>4. L \in SUBSET (1 .. n) /\ \A p \in L : ~(\E i \in 1 .. Len(F) : F[i] = <<e, p>>)
    BY <2>1, <2>3, EventWords
  <2>5. q - b <= n - Cardinality(L)
    BY <1>1, <1>6, <2>2, <2>4, WordsLeft
  <2>6. Cardinality(L) >= 3
    BY <2>3, DrsCardinality DEF Drs!Noticed
  <2>7. Cardinality(L) \in Nat
    <3>1. IsFiniteSet(1 .. n)
      BY FS_Interval
    <3>2. IsFiniteSet(L)
      BY <2>4, <3>1, FS_Subset
    <3> QED
      BY <3>2, FS_CardinalityType
  <2> QED
    BY <1>1, <1>5, <2>1, <2>5, <2>6, <2>7
<1>10. ASSUME NEW i \in 1 .. Len(F), b + 4 <= i, i < q + 3 PROVE F[i][2] # 3
  <2>1. CASE i <= q
    <3>1. F[i][1] < e + 1
      BY <1>1, <1>6, <2>1 DEF BeginsAt
    <3>2. PICK k \in 1 .. Len(F) : k = b + 3
      BY <1>3
    <3>3. F[k][1] = e /\ F[k][2] = 3 /\ k < i
      BY <1>1, <1>3, <1>10, <3>2
    <3>4. e < F[i][1] \/ (e = F[i][1] /\ 3 < F[i][2])
      BY <1>1, <3>3, WordsInOrder
    <3>5. F[i][1] \in Int /\ F[i][2] \in Int
      BY <1>1, WordsInOrder
    <3> QED
      BY <1>1, <3>1, <3>4, <3>5
  <2>2. CASE i > q
    <3>1. i = q + 1 \/ i = q + 2
      BY <1>5, <1>10, <2>2
    <3> QED
      BY <1>7, <3>1
  <2> QED
    BY <1>5, <2>1, <2>2
<1>11. q + 3 \in 1 .. Len(F) /\ F[q + 3][2] = 3
  BY <1>7
<1> QED
  BY <1>6, <1>8, <1>9, <1>10, <1>11

----------------------------------------------------------------------------
(* The reading of an event. *)

\* A word that is read; 0 stands for the event of one behind the end of the file.
Word == (0 .. NEvents) \X Nat

\* The groups this event has, by what its header says; the words still to be read.
On == IF Drs!Pixels THEN {0, 1} ELSE dInput.groups[words[2][1]]
ToRead ==
  IF dPlace = "group" THEN Units(groups)
  ELSE IF dPlace = "samples" THEN Units(groups) - 1 - 3 * nTriples
  ELSE IF dPlace \in {"channels", "trailer"} THEN Units(groups) - 1 - 3 * Triples
  ELSE 0

\* The words are those from where the event was begun, unless the file came to its end;
\* behind the header, those that were looked at before they were read are no zeros.
WordsRead ==
  /\ words \in Seq(Word) /\ Len(words) >= 4
  /\ \A p \in 1 .. 4 : words[p] = F[start + p]
  /\ pos = Lesser(start + Len(words), Len(F))
  /\ start + Len(words) <= Len(F) => \A p \in 1 .. Len(words) : words[p] = F[start + p]
  /\ Drs!Pixels => \A i \in 1 .. Len(F) : start + 5 <= i /\ i <= pos => F[i][2] # 3

\* How far the event is.
Progress ==
  /\ groups \in Turns /\ (dPlace = "fill" <=> groups = << >>)
  /\ nTriples \in 0 .. Triples /\ (dPlace = "samples" => nTriples < Triples)
  /\ Len(words) + ToRead = 4 + Units(Drs!InTurn(On))

\* An event is being read.
EventRead == dInput.dat /\ iEvent < Unlimited /\ start + 4 <= Len(F) /\ WordsRead /\ Progress

\* The inductive part about the reading.
ReadInv ==
  /\ FileRight /\ pos \in 0 .. Len(F) /\ start \in 0 .. Len(F) /\ iEvent \in 0 .. Unlimited
  /\ dPlace \in BeingRead \cup {"event", "closed", "crashed"} /\ nTriples \in 0 .. Triples
  /\ dPlace \in BeingRead => EventRead

\* What a read of n words does, with the look ahead of dat2rootPixels or without.
LEMMA ReadOn ==
  ASSUME ReadInv, dPlace \in {"group", "samples", "trailer"}, NEW n \in {1, 3}, Drs!Read(n),
         start' = start, dInput' = dInput
  PROVE  WordsRead' /\ Len(words') = Len(words) + n /\ words'[2] = words[2] /\ words'[1] = words[1]
<1>1. /\ pos \in Nat /\ pos <= Len(F) /\ Len(F) \in Nat /\ start \in Nat /\ start + 4 <= Len(F)
      /\ words \in Seq(Word) /\ Len(words) \in Nat /\ Len(words) >= 4 /\ n \in Nat /\ n <= 3
      /\ pos = Lesser(start + Len(words), Len(F))
  <2>1. EventRead /\ FileRight /\ pos \in 0 .. Len(F) /\ start \in 0 .. Len(F)
    BY DEF ReadInv, BeingRead
  <2>2. WordsRead /\ start + 4 <= Len(F)
    BY <2>1 DEF EventRead
  <2>3. words \in Seq(Word) /\ Len(words) >= 4 /\ pos = Lesser(start + Len(words), Len(F))
    BY <2>2 DEF WordsRead
  <2>4. Len(F) \in Nat
    BY <2>1, FileFacts
  <2>5. pos \in Nat /\ pos <= Len(F)
    <3>1. PICK m \in Nat : m = Len(F)
      BY <2>4
    <3> QED
      BY <2>1, <3>1
  <2>8. start \in Nat
    BY <2>1
  <2>6. Len(words) \in Nat
    BY <2>3
  <2>7. n \in Nat /\ n <= 3
    OBVIOUS
  <2> QED
    BY <2>1, <2>2, <2>3, <2>4, <2>5, <2>6, <2>7, <2>8, Zenon
<1>0. PICK k \in Nat, m \in Nat : k = Len(words) /\ m = Len(F)
  BY <1>1
<1>2. \E b \in Nat : /\ words' = words \o Drs!FromFile(b, n) /\ pos' = Lesser(pos + n, Len(F))
                     /\ pos + n <= Len(F) => b = pos
                     /\ Drs!Pixels => \A i \in 1 .. Len(F) : pos < i /\ i <= pos' => F[i][2] # 3
  <2>1. ASSUME NEW b \in Nat, Drs!Fread(b, n)
        PROVE  words' = words \o Drs!FromFile(b, n) /\ pos' = Lesser(b + n, Len(F))
    <3>1. PICK x \in Int, y \in Int : x = b + n /\ y = Len(F)
      BY <1>1
    <3>2. pos' = Drs!Min({x, y})
      BY <2>1, <3>1 DEF Drs!Fread, Drs!file, F
    <3> QED
      BY <2>1, <3>1, <3>2, MinOfTwo DEF Drs!Fread
  <2>2. CASE ~Drs!Pixels
    <3>1. Drs!Fread(pos, n)
      BY <2>2 DEF Drs!Read
    <3> QED
      BY <1>1, <2>1, <2>2, <3>1
  <2>3. CASE Drs!Pixels
    <3>1. PICK r \in Drs!FoundCorruption(n) : ~r[1] /\ Drs!Fread(r[2], n)
      BY <2>3 DEF Drs!Read
    <3>2. Drs!Zeros(n) = {} /\ r[2] = pos + Drs!Available(n) - n
      <4>1. CASE Drs!Zeros(n) # {}
        <5>1. r = <<TRUE, Drs!SeekBack(Drs!Min(Drs!Zeros(n)))>>
          BY <4>1, Zenon DEF Drs!FoundCorruption
        <5>2. r[1] = TRUE
          BY <5>1
        <5> QED
          BY <3>1, <5>2
      <4>2. CASE Drs!Zeros(n) = {}
        <5>1. r = <<FALSE, pos + Drs!Available(n) - n>> \/ r = <<TRUE, Drs!SeekBack(Len(Drs!file))>>
          BY <4>2, Zenon DEF Drs!FoundCorruption
        <5>2. r # <<TRUE, Drs!SeekBack(Len(Drs!file))>>
          <6>1. ASSUME r = <<TRUE, Drs!SeekBack(Len(Drs!file))>> PROVE FALSE
            <7>1. r[1] = TRUE
              BY <6>1
            <7> QED
              BY <3>1, <7>1
          <6> QED
            BY <6>1
        <5>3. r = <<FALSE, pos + Drs!Available(n) - n>>
          BY <5>1, <5>2
        <5> QED
          BY <4>2, <5>3
      <4> QED
        BY <4>1, <4>2
    <3>3. PICK a \in Int : a = Drs!Available(n) /\ a = Lesser(n, Len(F) - pos)
      <4>1. PICK x \in Int, y \in Int : x = n /\ y = Len(F) - pos
        BY <1>1
      <4>2. Drs!Available(n) = Drs!Min({x, y})
        BY <4>1 DEF Drs!Available, Drs!file, F
      <4>3. Drs!Available(n) = Lesser(x, y)
        BY <4>2, MinOfTwo
      <4>4. Lesser(x, y) \in Int
        BY DEF Lesser
      <4> QED
        BY <4>1, <4>3, <4>4
    <3>4. PICK b \in Nat : b = r[2] /\ b = pos + a - n
      <4>1. pos + a - n \in Nat
        <5>1. a = IF n <= m - pos THEN n ELSE m - pos
          BY <1>0, <3>3 DEF Lesser
        <5>2. pos >= 4 /\ pos <= m
          BY <1>0, <1>1 DEF Lesser
        <5> QED
          BY <1>1, <5>1, <5>2
      <4> QED
        BY <3>2, <3>3, <4>1
    <3>5. words' = words \o Drs!FromFile(b, n) /\ pos' = Lesser(b + n, Len(F))
      BY <2>1, <3>1, <3>4
    <3>6. Lesser(b + n, Len(F)) = Lesser(pos + n, Len(F)) /\ Lesser(pos + n, Len(F)) = pos + a
          /\ (pos + n <= Len(F) => b = pos)
      <4>1. a = IF n <= m - pos THEN n ELSE m - pos
        BY <1>0, <3>3 DEF Lesser
      <4>2. b + n = pos + a
        BY <1>1, <3>3, <3>4
      <4>3. Lesser(pos + n, m) = pos + a /\ Lesser(pos + a, m) = pos + a /\ (pos + n <= m => a = n)
        <5>1. pos <= m /\ pos \in Nat /\ m \in Nat /\ n \in Nat
          BY <1>0, <1>1
        <5>2. CASE n <= m - pos
          BY <4>1, <5>1, <5>2 DEF Lesser
        <5>3. CASE ~(n <= m - pos)
          <6>1. a = m - pos
            BY <4>1, <5>3
          <6>2. pos + a = m /\ pos + n > m
            BY <5>1, <5>3, <6>1
          <6> QED
            BY <5>1, <6>1, <6>2 DEF Lesser
        <5> QED
          BY <5>2, <5>3
      <4>4. pos + n <= m => b = pos
        BY <1>1, <3>3, <3>4, <4>3
      <4> QED
        BY <1>0, <4>2, <4>3, <4>4
    <3>7. ASSUME NEW i \in 1 .. Len(F), pos < i, i <= pos' PROVE F[i][2] # 3
      <4>1. i \in pos + 1 .. pos + a
        BY <1>1, <3>3, <3>5, <3>6, <3>7
      <4>2. i \notin Drs!Zeros(n)
        BY <3>2
      <4> QED
        BY <3>3, <4>1, <4>2 DEF Drs!Zeros, Drs!file, F
    <3> QED
      BY <3>5, <3>6, <3>7
  <2> QED
    BY <2>2, <2>3
<1>3. PICK b \in Nat : /\ words' = words \o Drs!FromFile(b, n) /\ pos' = Lesser(pos + n, Len(F))
                       /\ pos + n <= Len(F) => b = pos
                       /\ Drs!Pixels => \A i \in 1 .. Len(F) : pos < i /\ i <= pos' => F[i][2] # 3
  BY <1>2
<1>4. PICK t : t = Drs!FromFile(b, n)
  OBVIOUS
<1>5. t \in Seq(Word) /\ Len(t) = n /\ \A i \in 1 .. n : b + i <= Len(F) => t[i] = F[b + i]
  <2>1. t = [i \in 1 .. n |-> IF b + i <= Len(F) THEN F[b + i] ELSE <<0, 0>>]
    BY <1>4 DEF Drs!FromFile, Drs!file, Drs!Leftover, F
  <2>2. ASSUME NEW i \in 1 .. n PROVE (IF b + i <= Len(F) THEN F[b + i] ELSE <<0, 0>>) \in Word
    <3>1. NEvents \in Nat /\ F \in Seq((1 .. NEvents) \X (Nat \ {0}))
      BY FileFacts DEF ReadInv
    <3>2. b + i <= Len(F) => b + i \in 1 .. Len(F)
      BY <1>1
    <3>3. b + i <= Len(F) => F[b + i] \in (1 .. NEvents) \X (Nat \ {0})
      BY <3>1, <3>2
    <3> QED
      BY <3>1, <3>3 DEF Word
  <2>3. t \in [1 .. n -> Word]
    BY <2>1, <2>2
  <2> QED
    BY <1>1, <2>1, <2>3
<1>6. words' = words \o t
  BY <1>3, <1>4
<1>7. /\ words' \in Seq(Word) /\ Len(words') = Len(words) + n
      /\ \A p \in 1 .. Len(words) + n : words'[p] = IF p <= Len(words) THEN words[p] ELSE t[p - Len(words)]
  BY <1>1, <1>5, <1>6
<1>8. Len(words') >= 4 /\ \A p \in 1 .. 4 : words'[p] = F[start + p] /\ words'[p] = words[p]
  <2>1. \A p \in 1 .. 4 : words[p] = F[start + p]
    BY DEF ReadInv, EventRead, WordsRead, BeingRead
  <2>2. \A p \in 1 .. 4 : p \in 1 .. k + n /\ p <= k
    BY <1>0, <1>1
  <2>3. \A p \in 1 .. k + n : words'[p] = IF p <= k THEN words[p] ELSE t[p - k]
    BY <1>0, <1>7
  <2>4. \A p \in 1 .. 4 : words'[p] = words[p]
    BY <2>2, <2>3, Zenon
  <2> QED
    BY <1>0, <1>1, <1>7, <2>1, <2>4
<1>9. pos' = Lesser(start + Len(words'), Len(F))
  <2>1. pos' = Lesser(pos + n, m) /\ pos = Lesser(start + k, m) /\ Len(words') = k + n
    BY <1>0, <1>1, <1>3, <1>7
  <2>2. pos' = Lesser(start + (k + n), m)
    BY <1>1, <2>1 DEF Lesser
  <2> QED
    BY <1>0, <2>1, <2>2
<1>10. ASSUME start + Len(words') <= Len(F), NEW p \in 1 .. Len(words') PROVE words'[p] = F[start + p]
  <2>0. start + (k + n) <= m /\ p \in 1 .. k + n
    BY <1>0, <1>7, <1>10
  <2>1. pos = start + k /\ b = pos
    <3>1. pos = Lesser(start + k, m) /\ (pos + n <= m => b = pos)
      BY <1>0, <1>1, <1>3
    <3> QED
      BY <1>1, <2>0, <3>1 DEF Lesser
  <2>2. CASE p <= Len(words)
    <3>1. p \in 1 .. Len(words) /\ start + Len(words) <= Len(F)
      BY <1>0, <1>1, <2>0, <2>2
    <3>2. words[p] = F[start + p]
      BY <3>1 DEF ReadInv, EventRead, WordsRead, BeingRead
    <3> QED
      BY <1>0, <1>7, <2>0, <2>2, <3>2
  <2>3. CASE p > Len(words)
    <3>1. PICK i \in 1 .. n : i = p - k
      <4>1. p - k \in 1 .. n
        BY <1>0, <1>1, <2>0, <2>3
      <4> QED
        BY <4>1
    <3>2. b + i <= Len(F) /\ b + i = start + p
      BY <1>0, <1>1, <2>0, <2>1, <3>1
    <3>3. words'[p] = t[i]
      BY <1>0, <1>7, <2>0, <2>3, <3>1
    <3> QED
      BY <1>5, <3>2, <3>3
  <2> QED
    BY <1>1, <1>7, <2>2, <2>3
<1>11. ASSUME Drs!Pixels, NEW i \in 1 .. Len(F), start + 5 <= i, i <= pos' PROVE F[i][2] # 3
  <2>1. CASE i <= pos
    BY <1>11, <2>1 DEF ReadInv, EventRead, WordsRead, BeingRead
  <2>2. CASE pos < i
    BY <1>3, <1>11, <2>2
  <2> QED
    BY <1>1, <2>1, <2>2
<1>12. F' = F /\ Word' = Word /\ (Drs!Pixels' <=> Drs!Pixels)
  BY DEF F, Word, NEvents, Drs!Pixels
<1>13. WordsRead'
  <2>1. (words \in Seq(Word))' /\ (Len(words) >= 4)' /\ (\A p \in 1 .. 4 : words[p] = F[start + p])'
    BY <1>7, <1>8, <1>12
  <2>2. (pos = Lesser(start + Len(words), Len(F)))'
    BY <1>9, <1>12 DEF Lesser
  <2>3. (start + Len(words) <= Len(F) => \A p \in 1 .. Len(words) : words[p] = F[start + p])'
    BY <1>10, <1>12
  <2>4. (Drs!Pixels => \A i \in 1 .. Len(F) : start + 5 <= i /\ i <= pos => F[i][2] # 3)'
    BY <1>11, <1>12
  <2> QED
    BY <2>1, <2>2, <2>3, <2>4 DEF WordsRead
<1>14. words'[1] = words[1] /\ words'[2] = words[2]
  BY <1>8
<1> QED
  BY <1>7, <1>13, <1>14

\* An event that is given up: the next is begun at the first zero behind what was
\* read, or, when there is nothing left, three words before the end.
GaveUp(n) ==
  /\ dPlace' = "event" /\ iEvent' = iEvent + 1
  /\ \/ pos = Len(F) /\ pos' = Len(F) - 3
     \/ \E z \in 1 .. Len(F) : /\ pos < z /\ z <= pos + n /\ F[z][2] = 3 /\ pos' = z - 3
                               /\ \A i \in 1 .. Len(F) : pos < i /\ i < z => F[i][2] # 3

\* Where the next event is begun, from a read that found a zero or none.
LEMMA WhereGivenUp ==
  ASSUME ReadInv, dPlace \in {"group", "samples", "trailer"}, NEW n \in {1, 3}, Drs!GivenUp(n)
  PROVE  GaveUp(n) /\ Drs!Pixels /\ start + 4 <= pos /\ pos' \in 0 .. Len(F) /\ start < pos'
<1>1. EventRead /\ FileRight /\ pos \in 0 .. Len(F) /\ start \in 0 .. Len(F)
  BY DEF ReadInv, BeingRead
<1>2. PICK m \in Nat : m = Len(F)
  BY <1>1, FileFacts
<1>3. start \in Nat /\ pos \in Nat /\ pos <= m /\ n \in Nat /\ n <= 3
  BY <1>1, <1>2
<1>4. start + 4 <= pos
  <2>1. PICK k \in Nat : k = Len(words) /\ k >= 4 /\ pos = Lesser(start + k, m) /\ start + 4 <= m
    BY <1>1, <1>2 DEF EventRead, WordsRead
  <2> QED
    BY <1>3, <2>1 DEF Lesser
<1>5. PICK r \in Drs!FoundCorruption(n) : r[1] /\ pos' = r[2]
  BY DEF Drs!GivenUp
<1>6. PICK a \in Int : a = Drs!Available(n) /\ a = Lesser(n, m - pos)
  <2>1. PICK x \in Int, y \in Int : x = n /\ y = m - pos
    BY <1>3
  <2>2. Drs!Available(n) = Drs!Min({x, y})
    BY <1>2, <2>1 DEF Drs!Available, Drs!file, F
  <2>3. Drs!Available(n) = Lesser(x, y)
    BY <2>2, MinOfTwo
  <2>4. Lesser(x, y) \in Int
    BY DEF Lesser
  <2> QED
    BY <2>1, <2>3, <2>4
<1>7. a <= n /\ pos + a <= m /\ 0 <= a /\ (a = 0 => pos = m)
  <2>1. CASE n <= m - pos
    BY <1>3, <1>6, <2>1 DEF Lesser
  <2>2. CASE ~(n <= m - pos)
    <3>1. a = m - pos
      BY <1>6, <2>2 DEF Lesser
    <3> QED
      BY <1>3, <2>2, <3>1
  <2> QED
    BY <2>1, <2>2
<1>8. CASE Drs!Zeros(n) # {}
  <2>1. PICK Z : Z = Drs!Zeros(n)
    OBVIOUS
  <2>2. Z = {i \in pos + 1 .. pos + a : F[i][2] = 3}
    BY <1>6, <2>1 DEF Drs!Zeros, Drs!file, F
  <2>3. Z \in SUBSET (0 .. m)
    BY <1>3, <1>7, <2>2
  <2>4. MinOf(Z, Min(Z))
    BY <1>8, <2>1, <2>3, NatMin
  <2>5. PICK z : z = Min(Z)
    OBVIOUS
  <2>6. z \in Z /\ \A x \in Z : z <= x
    BY <2>4, <2>5 DEF MinOf
  <2>7. r = <<TRUE, z - 3>>
    <3>1. r = <<TRUE, Drs!SeekBack(Drs!Min(Z))>>
      BY <1>8, <2>1, Zenon DEF Drs!FoundCorruption
    <3>2. Drs!Min(Z) = z
      BY <2>5 DEF Drs!Min, Min
    <3> QED
      BY <3>1, <3>2 DEF Drs!SeekBack
  <2>8. z \in 1 .. m /\ pos < z /\ z <= pos + n /\ F[z][2] = 3 /\ pos' = z - 3
    <3>1. z \in pos + 1 .. pos + a /\ F[z][2] = 3
      BY <2>2, <2>6
    <3>2. pos' = z - 3
      BY <1>5, <2>7
    <3> QED
      BY <1>3, <1>6, <1>7, <3>1, <3>2
  <2>9. ASSUME NEW i \in 1 .. m, pos < i, i < z, F[i][2] = 3 PROVE FALSE
    <3>1. i \in pos + 1 .. pos + a
      <4>1. z \in pos + 1 .. pos + a
        BY <2>2, <2>6
      <4> QED
        BY <1>3, <1>6, <2>8, <2>9, <4>1
    <3>2. i \in Z
      BY <2>2, <2>9, <3>1
    <3> QED
      BY <2>6, <2>8, <2>9, <3>2
  <2>10. pos' \in 0 .. m /\ start < pos'
    BY <1>3, <1>4, <2>8
  <2> QED
    BY <1>2, <1>4, <2>8, <2>9, <2>10 DEF GaveUp, Drs!GivenUp
<1>9. CASE Drs!Zeros(n) = {}
  <2>1. r = <<FALSE, pos + Drs!Available(n) - n>> \/ (Drs!Available(n) = 0 /\ r = <<TRUE, Drs!SeekBack(Len(Drs!file))>>)
    BY <1>9, Zenon DEF Drs!FoundCorruption
  <2>2. ASSUME r = <<FALSE, pos + Drs!Available(n) - n>> PROVE FALSE
    <3>1. r[1] = FALSE
      BY <2>2
    <3> QED
      BY <1>5, <3>1
  <2>3. a = 0 /\ r = <<TRUE, m - 3>>
    BY <1>2, <1>6, <2>1, <2>2 DEF Drs!SeekBack, Drs!file, F
  <2>4. pos = m /\ pos' = m - 3
    BY <1>5, <1>7, <2>3
  <2> QED
    BY <1>2, <1>3, <1>4, <2>4 DEF GaveUp, Drs!GivenUp
<1> QED
  BY <1>8, <1>9

\* The header of an event.
LEMMA HeaderRead ==
  ASSUME ReadInv, Drs!Header
  PROVE  /\ EventRead' /\ pos' \in 0 .. Len(F) /\ start' \in 0 .. Len(F) /\ dPlace' \in {"group", "fill"} /\ pos + 4 <= Len(F)
         /\ groups' = Drs!InTurn(On') /\ On' \in SUBSET {0, 1}
<1>1. /\ FileRight /\ pos \in 0 .. Len(F) /\ iEvent \in 0 .. Unlimited /\ nTriples \in 0 .. Triples
      /\ start' = pos /\ pos' = pos + 4 /\ words' = Drs!FromFile(pos, 4) /\ groups' = Drs!InTurn(Drs!ActiveGroups)
      /\ dPlace' = (IF groups' = << >> THEN "fill" ELSE "group")
      /\ UNCHANGED <<dInput, iEvent, nTriples>> /\ dInput.dat
  BY DEF ReadInv, Drs!Header
<1>2. PICK m \in Nat : m = Len(F)
  BY <1>1, FileFacts
<1>3. pos \in Nat
  BY <1>1, <1>2
<1>4. ~(iEvent >= Drs!maxEvents) /\ ~(m - pos < 4)
  BY <1>2 DEF Drs!Header, Drs!Done, Drs!file, F
<1>5. pos + 4 <= m
  BY <1>3, <1>4
<1>6. iEvent < Unlimited
  <2>1. PICK n \in Int, u \in Nat : n = dInput.nEvents /\ u = Unlimited /\ n <= u
    BY <1>1, FileFacts DEF FileRight, DrsFile
  <2>2. Drs!maxEvents = IF n < 0 THEN u ELSE n
    BY <2>1 DEF Drs!maxEvents
  <2> QED
    BY <1>1, <1>4, <2>1, <2>2
<1>7. words' = [i \in 1 .. 4 |-> F[pos + i]]
  <2>1. \A i \in 1 .. 4 : pos + i <= Len(F)
    BY <1>2, <1>3, <1>5
  <2> QED
    BY <1>1, <2>1 DEF Drs!FromFile, Drs!file, F
<1>8. \A i \in 1 .. 4 : pos + i \in 1 .. Len(F) /\ F[pos + i] \in Word
  <2>1. ASSUME NEW i \in 1 .. 4 PROVE pos + i \in 1 .. Len(F) /\ F[pos + i] \in Word
    <3>1. pos + i \in 1 .. Len(F)
      BY <1>2, <1>3, <1>5
    <3>2. F[pos + i] \in (1 .. NEvents) \X (Nat \ {0}) /\ NEvents \in Nat
      BY <1>1, <3>1, FileFacts
    <3> QED
      BY <3>1, <3>2 DEF Word
  <2> QED
    BY <2>1
<1>9. words' \in Seq(Word) /\ Len(words') = 4
  <2>1. words' \in [1 .. 4 -> Word]
    BY <1>7, <1>8
  <2> QED
    BY <1>7, <2>1
<1>10. F' = F /\ Word' = Word /\ (Drs!Pixels' <=> Drs!Pixels)
  BY <1>1 DEF F, Word, NEvents, Drs!Pixels
<1>11. WordsRead'
  <2>1. (words \in Seq(Word))' /\ (Len(words) >= 4)'
    BY <1>9, <1>10
  <2>2. (\A p \in 1 .. 4 : words[p] = F[start + p])'
    BY <1>1, <1>7, <1>10
  <2>3. (pos = Lesser(start + Len(words), Len(F)))'
    <3>1. pos + 4 = Lesser(pos + 4, m)
      BY <1>5 DEF Lesser
    <3> QED
      BY <1>1, <1>2, <1>9, <1>10, <3>1
  <2>4. (start + Len(words) <= Len(F) => \A p \in 1 .. Len(words) : words[p] = F[start + p])'
    BY <1>9, <2>2
  <2>5. (Drs!Pixels => \A i \in 1 .. Len(F) : start + 5 <= i /\ i <= pos => F[i][2] # 3)'
    <3>1. ASSUME NEW i \in 1 .. Len(F), pos + 5 <= i, i <= pos + 4 PROVE FALSE
      BY <1>2, <1>3, <3>1
    <3> QED
      BY <1>1, <1>10, <3>1
  <2> QED
    BY <2>1, <2>2, <2>3, <2>4, <2>5 DEF WordsRead
<1>12. Drs!ActiveGroups = On' /\ On' \in SUBSET {0, 1}
  <2>1. words'[2] = F[pos + 2]
    BY <1>7
  <2>2. F[pos + 2][1] \in 1 .. NEvents
    BY <1>1, <1>8, FileFacts
  <2>3. dInput.groups[F[pos + 2][1]] \in SUBSET {0, 1}
    BY <1>1, <2>2, EventWords
  <2>4. On' = IF Drs!Pixels THEN {0, 1} ELSE dInput.groups[F[pos + 2][1]]
    BY <1>1, <1>10, <2>1 DEF On
  <2>5. Drs!ActiveGroups = IF Drs!Pixels THEN {0, 1} ELSE dInput.groups[F[pos + 2][1]]
    BY DEF Drs!ActiveGroups, Drs!file, F
  <2> QED
    BY <2>3, <2>4, <2>5
<1>13. groups' \in Turns /\ groups' = Drs!InTurn(On')
  BY <1>1, <1>12, TurnsOf
<1>14. Progress'
  <2>0. PICK gs : gs = groups'
    OBVIOUS
  <2>1. (groups \in Turns)' /\ (dPlace = "fill" <=> groups = << >>)'
    BY <1>1, <1>13 DEF Turns
  <2>2. (nTriples \in 0 .. Triples)' /\ (dPlace = "samples" => nTriples < Triples)'
    BY <1>1
  <2>3. (Len(words) + ToRead)' = 4 + Units(gs)
    <3>1. ToRead' = Units(gs)
      <4>1. CASE gs = << >>
        <5>1. Units(gs) = 0 /\ dPlace' = "fill"
          BY <1>1, <2>0, <4>1 DEF Units
        <5> QED
          BY <5>1 DEF ToRead
      <4>2. CASE gs # << >>
        <5>1. dPlace' = "group"
          BY <1>1, <2>0, <4>2
        <5>2. Units(groups)' = Units(gs)
          BY <2>0 DEF Units
        <5> QED
          BY <5>1, <5>2 DEF ToRead
      <4> QED
        BY <4>1, <4>2
    <3> QED
      BY <1>9, <3>1
  <2>4. (4 + Units(Drs!InTurn(On)))' = 4 + Units(gs)
    BY <1>13, <2>0 DEF Units, Drs!InTurn
  <2> QED
    BY <2>1, <2>2, <2>3, <2>4 DEF Progress
<1>15. EventRead'
  <2>1. dInput'.dat /\ iEvent' < Unlimited /\ start' + 4 <= Len(F')
    BY <1>1, <1>2, <1>5, <1>6, <1>10
  <2> QED
    BY <1>11, <1>14, <2>1 DEF EventRead
<1>16. pos' \in 0 .. Len(F) /\ start' \in 0 .. Len(F) /\ dPlace' \in {"group", "fill"}
  <2>1. pos' \in 0 .. m /\ start' \in 0 .. m
    BY <1>1, <1>3, <1>5
  <2> QED
    BY <1>1, <1>2, <2>1
<1> QED
  BY <1>2, <1>5, <1>12, <1>13, <1>15, <1>16

\* The words of the groups still to be read, and of those behind the first.
LEMMA TurnsLeft ==
  ASSUME NEW gs \in Turns
  PROVE  /\ Units(gs) \in Nat /\ (gs = << >> => Units(gs) = 0)
         /\ gs # << >> => /\ Tail(gs) \in Turns /\ Units(gs) = Units(Tail(gs)) + Drs!GroupLength
                          /\ Head(gs) \in {0, 1}
<1>1. PICK u \in Nat : u = Drs!GroupLength
  BY UnitType
<1>2. Len(<< >>) = 0 /\ Len(<<0>>) = 1 /\ Len(<<1>>) = 1 /\ Len(<<0, 1>>) = 2
  OBVIOUS
<1>3. Units(<< >>) = 0 /\ Units(<<0>>) = u /\ Units(<<1>>) = u /\ Units(<<0, 1>>) = u + u
  BY <1>1, <1>2 DEF Units
<1>4. Tail(<<0>>) = << >> /\ Tail(<<1>>) = << >> /\ Tail(<<0, 1>>) = <<1>> /\ Head(<<0>>) = 0 /\ Head(<<1>>) = 1 /\ Head(<<0, 1>>) = 0
  OBVIOUS
<1> QED
  <2>1. CASE gs = << >>
    BY <1>3, <2>1
  <2>2. CASE gs = <<0>>
    BY <1>1, <1>3, <1>4, <2>2 DEF Turns
  <2>3. CASE gs = <<1>>
    BY <1>1, <1>3, <1>4, <2>3 DEF Turns
  <2>4. CASE gs = <<0, 1>>
    BY <1>1, <1>3, <1>4, <2>4 DEF Turns
  <2> QED
    BY <2>1, <2>2, <2>3, <2>4 DEF Turns

\* The last word of a group, if it is none of a header, ends the group.
GoesOn ==
  /\ dPlace \in BeingRead /\ dPlace' \in BeingRead
  /\ start' = start /\ iEvent' = iEvent /\ tree' = tree
  /\ words'[1] = words[1] /\ words'[2] = words[2]
  /\ EventRead' /\ pos' \in 0 .. Len(F)

\* The steps that go on with an event leave it one that is read.
LEMMA GoneOn ==
  ASSUME ReadInv, dPlace \in {"group", "samples", "channels", "trailer"}, dPlace' \in BeingRead,
         start' = start, dInput' = dInput, iEvent' = iEvent, tree' = tree,
         WordsRead', words'[1] = words[1], words'[2] = words[2],
         groups' \in Turns, dPlace' = "fill" <=> groups' = << >>,
         nTriples' \in 0 .. Triples, dPlace' = "samples" => nTriples' < Triples,
         Len(words') + ToRead' = Len(words) + ToRead
  PROVE  GoesOn
<1>1. EventRead /\ FileRight /\ start \in 0 .. Len(F) /\ Len(F) \in Nat
  BY FileFacts DEF ReadInv, BeingRead
<1>2. F' = F /\ Word' = Word /\ (Drs!Pixels' <=> Drs!Pixels)
  BY DEF F, Word, NEvents, Drs!Pixels
<1>3. (Drs!InTurn(On))' = Drs!InTurn(On)
  BY <1>2 DEF On, Drs!InTurn
<1>4. Len(words) + ToRead = 4 + Units(Drs!InTurn(On))
  BY <1>1 DEF EventRead, Progress
<1>5. (4 + Units(Drs!InTurn(On)))' = 4 + Units(Drs!InTurn(On))
  BY <1>3 DEF Units, Drs!GroupLength
<1>6. Progress'
  BY <1>4, <1>5 DEF Progress
<1>7. EventRead'
  <2>1. dInput'.dat /\ iEvent' < Unlimited /\ start' + 4 <= Len(F')
    BY <1>1, <1>2 DEF EventRead
  <2> QED
    BY <1>6, <2>1 DEF EventRead
<1>8. pos' \in 0 .. Len(F)
  <2>1. PICK m \in Nat, s \in Nat : m = Len(F) /\ s = start
    BY <1>1
  <2>2. PICK k \in Nat : k = Len(words') /\ pos' = Lesser(s + k, m)
    <3>1. words' \in Seq(Word) /\ pos' = Lesser(start + Len(words'), Len(F))
      BY <1>2 DEF WordsRead, Lesser
    <3>2. Len(words') \in Nat
      BY <3>1
    <3> QED
      BY <2>1, <3>1, <3>2
  <2> QED
    BY <2>1, <2>2 DEF Lesser
<1> QED
  BY <1>7, <1>8 DEF GoesOn, BeingRead

LEMMA GroupHeaderOn ==
  ASSUME ReadInv, Drs!GroupHeader
  PROVE  GoesOn \/ (Drs!GivenUp(1) /\ dPlace = "group")
<1>1. dPlace = "group" /\ start' = start /\ dInput' = dInput
  BY DEF Drs!GroupHeader
<1>2. CASE Drs!GivenUp(1)
  BY <1>1, <1>2
<1>3. CASE Drs!Read(1) /\ nTriples' = 0 /\ dPlace' = "samples" /\ UNCHANGED <<iEvent, groups, channel, tree>>
  <2>1. EventRead
    BY <1>1 DEF ReadInv, BeingRead
  <2>2. WordsRead' /\ Len(words') = Len(words) + 1 /\ words'[2] = words[2] /\ words'[1] = words[1]
    BY <1>1, <1>3, ReadOn
  <2>3. groups \in Turns /\ groups # << >> /\ words \in Seq(Word)
    BY <1>1, <2>1 DEF EventRead, Progress, WordsRead
  <2>4. Units(groups) \in Nat /\ Len(words) \in Nat
    BY <2>3, TurnsLeft
  <2>5. ToRead = Units(groups) /\ ToRead' = Units(groups) - 1 - 3 * 0
    <3>1. Units(groups)' = Units(groups)
      BY <1>3 DEF Units
    <3> QED
      BY <1>1, <1>3, <3>1 DEF ToRead
  <2>6. Len(words') + ToRead' = Len(words) + ToRead
    BY <2>2, <2>4, <2>5
  <2>7. 0 \in 0 .. Triples /\ 0 < Triples
    BY UnitType
  <2> QED
    BY <1>1, <1>3, <2>2, <2>3, <2>6, <2>7, GoneOn DEF BeingRead
<1> QED
  BY <1>2, <1>3 DEF Drs!GroupHeader

LEMMA SamplesOn ==
  ASSUME ReadInv, Drs!ReadSamples
  PROVE  GoesOn \/ (Drs!GivenUp(3) /\ dPlace = "samples")
<1>1. dPlace = "samples" /\ start' = start /\ dInput' = dInput
  BY DEF Drs!ReadSamples
<1>2. CASE Drs!GivenUp(3)
  BY <1>1, <1>2
<1>3. CASE Drs!Read(3) /\ nTriples' = nTriples + 1 /\ dPlace' = (IF nTriples' = Triples THEN "channels" ELSE "samples")
           /\ UNCHANGED <<iEvent, groups, channel, tree>>
  <2>1. EventRead
    BY <1>1 DEF ReadInv, BeingRead
  <2>2. WordsRead' /\ Len(words') = Len(words) + 3 /\ words'[2] = words[2] /\ words'[1] = words[1]
    BY <1>1, <1>3, ReadOn
  <2>3. groups \in Turns /\ groups # << >> /\ words \in Seq(Word) /\ nTriples \in 0 .. Triples /\ nTriples < Triples
    BY <1>1, <2>1 DEF EventRead, Progress, WordsRead
  <2>4. Units(groups) \in Nat /\ Len(words) \in Nat /\ nTriples \in Nat /\ Triples \in Nat
    BY <2>3, TurnsLeft, UnitType
  <2>5. ToRead = Units(groups) - 1 - 3 * nTriples /\ ToRead' = Units(groups) - 1 - 3 * (nTriples + 1)
    <3>1. Units(groups)' = Units(groups)
      BY <1>3 DEF Units
    <3>2. CASE nTriples' = Triples
      BY <1>1, <1>3, <3>1, <3>2 DEF ToRead
    <3>3. CASE nTriples' # Triples
      BY <1>1, <1>3, <3>1, <3>3 DEF ToRead
    <3> QED
      BY <3>2, <3>3
  <2>6. Len(words') + ToRead' = Len(words) + ToRead
    <3>1. PICK u \in Nat, w \in Nat, n \in Nat : u = Units(groups) /\ w = Len(words) /\ n = nTriples
      BY <2>4
    <3>2. u - 1 - 3 * (n + 1) = (u - 1 - 3 * n) - 3
      OBVIOUS
    <3>3. PICK r \in Int : r = ToRead
      BY <2>5, <3>1
    <3>4. ToRead' = r - 3 /\ Len(words') = w + 3
      BY <2>2, <2>5, <3>1, <3>2, <3>3
    <3> QED
      BY <3>1, <3>3, <3>4
  <2>7. nTriples' \in 0 .. Triples /\ (dPlace' = "samples" => nTriples' < Triples)
    BY <1>3, <2>3, <2>4
  <2>8. dPlace' \in {"samples", "channels"}
    BY <1>3
  <2> QED
    BY <1>1, <1>3, <2>2, <2>3, <2>6, <2>7, <2>8, GoneOn DEF BeingRead
<1> QED
  BY <1>2, <1>3 DEF Drs!ReadSamples

LEMMA ChannelsOn ==
  ASSUME ReadInv, Drs!Channels
  PROVE  GoesOn
<1>1. dPlace = "channels" /\ dPlace' = "trailer" /\ UNCHANGED <<dInput, pos, start, iEvent, groups, nTriples, words, tree>>
  BY DEF Drs!Channels
<1>2. EventRead
  BY <1>1 DEF ReadInv, BeingRead
<1>3. WordsRead'
  <2>1. F' = F /\ Word' = Word /\ (Drs!Pixels' <=> Drs!Pixels)
    BY <1>1 DEF F, Word, NEvents, Drs!Pixels
  <2>2. WordsRead
    BY <1>2 DEF EventRead
  <2> QED
    BY <1>1, <2>1, <2>2 DEF WordsRead, Lesser
<1>4. groups \in Turns /\ groups # << >> /\ nTriples \in 0 .. Triples
  BY <1>1, <1>2 DEF EventRead, Progress
<1>5. ToRead' = ToRead
  <2>1. Units(groups)' = Units(groups)
    BY <1>1 DEF Units
  <2> QED
    BY <1>1, <2>1 DEF ToRead
<1> QED
  BY <1>1, <1>3, <1>4, <1>5, GoneOn DEF BeingRead

LEMMA TrailerOn ==
  ASSUME ReadInv, Drs!Trailer
  PROVE  GoesOn \/ (Drs!GivenUp(1) /\ dPlace = "trailer")
<1>1. dPlace = "trailer" /\ start' = start /\ dInput' = dInput
  BY DEF Drs!Trailer
<1>2. CASE Drs!GivenUp(1)
  BY <1>1, <1>2
<1>3. CASE Drs!Read(1) /\ groups' = Tail(groups) /\ dPlace' = (IF groups' = << >> THEN "fill" ELSE "group")
           /\ UNCHANGED <<iEvent, nTriples, channel, tree>>
  <2>1. EventRead
    BY <1>1 DEF ReadInv, BeingRead
  <2>2. WordsRead' /\ Len(words') = Len(words) + 1 /\ words'[2] = words[2] /\ words'[1] = words[1]
    BY <1>1, <1>3, ReadOn
  <2>3. groups \in Turns /\ groups # << >> /\ words \in Seq(Word) /\ nTriples \in 0 .. Triples
    BY <1>1, <2>1 DEF EventRead, Progress, WordsRead
  <2>4. PICK t : t = Tail(groups)
    OBVIOUS
  <2>5. t \in Turns /\ Units(t) \in Nat /\ Len(words) \in Nat /\ Triples \in Nat
        /\ Units(groups) = Units(t) + (2 + 3 * Triples)
    BY <2>3, <2>4, TurnsLeft, UnitType
  <2>6. ToRead = Units(groups) - 1 - 3 * Triples
    BY <1>1 DEF ToRead
  <2>7. ToRead' = Units(t)
    <3>1. CASE t = << >>
      <4>1. dPlace' = "fill" /\ Units(t) = 0
        BY <1>3, <2>4, <2>5, <3>1, TurnsLeft
      <4> QED
        BY <4>1 DEF ToRead
    <3>2. CASE t # << >>
      <4>1. dPlace' = "group" /\ Units(groups)' = Units(t)
        BY <1>3, <2>4, <3>2 DEF Units
      <4> QED
        BY <4>1 DEF ToRead
    <3> QED
      BY <3>1, <3>2
  <2>8. Len(words') + ToRead' = Len(words) + ToRead
    BY <2>2, <2>5, <2>6, <2>7
  <2>9. groups' \in Turns /\ (dPlace' = "fill" <=> groups' = << >>) /\ dPlace' \in {"fill", "group"}
    BY <1>3, <2>4, <2>5
  <2> QED
    BY <1>1, <1>3, <2>2, <2>3, <2>8, <2>9, GoneOn DEF BeingRead
<1> QED
  BY <1>2, <1>3 DEF Drs!Trailer

----------------------------------------------------------------------------
\* What a step does to an event.
\* The kinds of steps of a converter: an event is begun, the file is done with, an
\* event is given up; the others go on with it or store it.
Begun ==
  /\ dPlace = "event" /\ dInput.dat /\ dPlace' \in BeingRead /\ start' = pos /\ pos + 4 <= Len(F)
  /\ iEvent' = iEvent /\ tree' = tree /\ channel' = channel /\ EventRead'
  /\ dPlace' # "trailer" /\ groups' = Drs!InTurn(On') /\ On' \in SUBSET {0, 1}
Stopped ==
  /\ dPlace = "event" /\ dPlace' = "closed" /\ (dInput.dat => Drs!Done)
  /\ UNCHANGED <<dInput, pos, start, iEvent, groups, nTriples, words, channel, tree>>
GivenUpHere(n) ==
  /\ dPlace \in {"group", "samples", "trailer"} /\ (dPlace = "samples" => n = 3) /\ (dPlace # "samples" => n = 1)
  /\ GaveUp(n) /\ Drs!Pixels /\ start + 4 <= pos /\ start < pos'
  /\ start' = start /\ tree' = tree /\ channel' = channel

\* Every step is of one of them, and keeps the inductive part.
LEMMA StepKinds ==
  ASSUME ReadInv, Drs!Next
  PROVE  /\ Begun \/ GoesOn \/ (\E n \in {1, 3} : GivenUpHere(n)) \/ Drs!Fill \/ Drs!RootEvent \/ Stopped
         /\ dInput' = dInput /\ ReadInv'
<1>1. dInput' = dInput
  BY DEF Drs!Next, Drs!Close, Drs!Header, Drs!GroupHeader, Drs!ReadSamples, Drs!Channels, Drs!Trailer,
         Drs!Fill, Drs!RootEvent, Drs!CloseRoot
<1>2. F' = F /\ (FileRight <=> FileRight')
  BY <1>1 DEF F, FileRight, DrsFile, LossesOnly, LengthIn, Before, Drs!GroupLength
<1>3. /\ FileRight /\ pos \in 0 .. Len(F) /\ start \in 0 .. Len(F) /\ iEvent \in 0 .. Unlimited
      /\ dPlace \in BeingRead \cup {"event", "closed", "crashed"} /\ nTriples \in 0 .. Triples
      /\ dPlace \in BeingRead => EventRead
  BY DEF ReadInv
<1>4. ASSUME Drs!Header PROVE Begun /\ ReadInv'
  <2>1. /\ EventRead' /\ pos' \in 0 .. Len(F) /\ start' \in 0 .. Len(F) /\ dPlace' \in BeingRead /\ pos + 4 <= Len(F)
        /\ dPlace' # "trailer" /\ groups' = Drs!InTurn(On') /\ On' \in SUBSET {0, 1}
    BY <1>4, HeaderRead DEF BeingRead
  <2>2. Begun
    BY <1>4, <2>1 DEF Begun, Drs!Header
  <2>3. ReadInv'
    BY <1>2, <1>3, <1>4, <2>1 DEF ReadInv, Drs!Header
  <2> QED
    BY <2>2, <2>3
<1>5. ASSUME GoesOn, nTriples' \in 0 .. Triples PROVE ReadInv'
  BY <1>2, <1>3, <1>5 DEF GoesOn, ReadInv
<1>6. ASSUME GoesOn PROVE nTriples' \in 0 .. Triples
  BY <1>6 DEF GoesOn, EventRead, Progress
<1>7. ASSUME NEW n \in {1, 3}, Drs!GivenUp(n), start' = start,
             dPlace \in {"group", "samples", "trailer"}, dPlace = "samples" => n = 3, dPlace # "samples" => n = 1
      PROVE  GivenUpHere(n) /\ ReadInv'
  <2>1. GaveUp(n) /\ Drs!Pixels /\ start + 4 <= pos /\ pos' \in 0 .. Len(F) /\ start < pos'
    BY <1>7, WhereGivenUp
  <2>2. nTriples' = nTriples /\ tree' = tree /\ channel' = channel /\ dPlace' = "event" /\ iEvent' = iEvent + 1
    BY <1>7 DEF Drs!GivenUp
  <2>3. iEvent' \in 0 .. Unlimited
    <3>1. iEvent < Unlimited /\ Unlimited \in Nat
      BY <1>3, <1>7, FileFacts DEF EventRead, BeingRead
    <3> QED
      BY <1>3, <2>2, <3>1
  <2>4. GivenUpHere(n)
    BY <1>7, <2>1, <2>2 DEF GivenUpHere
  <2>5. ReadInv'
    <3>1. dPlace' \notin BeingRead
      BY <2>2 DEF BeingRead
    <3> QED
      BY <1>2, <1>3, <1>7, <2>1, <2>2, <2>3, <3>1 DEF ReadInv
  <2> QED
    BY <2>4, <2>5
<1>8. ASSUME Drs!Fill PROVE ReadInv'
  <2>1. dPlace = "fill" /\ dPlace' = "event" /\ iEvent' = iEvent + 1 /\ UNCHANGED <<pos, start, nTriples>>
    BY <1>8 DEF Drs!Fill
  <2>2. iEvent' \in 0 .. Unlimited
    <3>1. iEvent < Unlimited /\ Unlimited \in Nat
      BY <1>3, <2>1, FileFacts DEF EventRead, BeingRead
    <3> QED
      BY <1>3, <2>1, <3>1
  <2>3. dPlace' \notin BeingRead
    BY <2>1 DEF BeingRead
  <2> QED
    BY <1>2, <1>3, <2>1, <2>2, <2>3 DEF ReadInv
<1>9. ASSUME Drs!RootEvent PROVE ReadInv'
  <2>1. dPlace = "event" /\ iEvent' = iEvent + 1 /\ UNCHANGED <<pos, dPlace, start, nTriples>>
    BY <1>9 DEF Drs!RootEvent
  <2>2. iEvent' \in 0 .. Unlimited
    <3>1. PICK x \in Int, y \in Int : x = NEvents /\ y = dInput.nEvents
      BY <1>3, FileFacts DEF FileRight, DrsFile
    <3>2. iEvent < Drs!Min({x, y})
      BY <1>9, <3>1 DEF Drs!RootEvent, NEvents
    <3>3. iEvent < Lesser(x, y) /\ x <= Unlimited /\ Unlimited \in Nat
      BY <1>3, <3>1, <3>2, MinOfTwo, FileFacts
    <3>4. iEvent < Unlimited
      BY <1>3, <3>3 DEF Lesser
    <3> QED
      BY <1>3, <2>1, <3>3, <3>4
  <2>3. dPlace' \notin BeingRead
    BY <2>1 DEF BeingRead
  <2> QED
    BY <1>2, <1>3, <2>1, <2>2, <2>3 DEF ReadInv
<1>10. ASSUME Drs!Close \/ Drs!CloseRoot PROVE Stopped /\ ReadInv'
  <2>1. Stopped
    BY <1>10 DEF Stopped, Drs!Close, Drs!CloseRoot
  <2>2. dPlace' \notin BeingRead
    BY <2>1 DEF BeingRead, Stopped
  <2> QED
    BY <1>2, <1>3, <2>1, <2>2 DEF ReadInv, Stopped
<1>11. ASSUME Drs!GroupHeader PROVE (GoesOn \/ GivenUpHere(1)) /\ ReadInv'
  <2>1. GoesOn \/ (Drs!GivenUp(1) /\ dPlace = "group")
    BY <1>11, GroupHeaderOn
  <2>2. start' = start
    BY <1>11 DEF Drs!GroupHeader
  <2> QED
    BY <1>5, <1>6, <1>7, <2>1, <2>2
<1>12. ASSUME Drs!ReadSamples PROVE (GoesOn \/ GivenUpHere(3)) /\ ReadInv'
  <2>1. GoesOn \/ (Drs!GivenUp(3) /\ dPlace = "samples")
    BY <1>12, SamplesOn
  <2>2. start' = start
    BY <1>12 DEF Drs!ReadSamples
  <2> QED
    BY <1>5, <1>6, <1>7, <2>1, <2>2
<1>13. ASSUME Drs!Trailer PROVE (GoesOn \/ GivenUpHere(1)) /\ ReadInv'
  <2>1. GoesOn \/ (Drs!GivenUp(1) /\ dPlace = "trailer")
    BY <1>13, TrailerOn
  <2>2. start' = start
    BY <1>13 DEF Drs!Trailer
  <2> QED
    BY <1>5, <1>6, <1>7, <2>1, <2>2
<1>14. ASSUME Drs!Channels PROVE GoesOn /\ ReadInv'
  BY <1>5, <1>6, <1>14, ChannelsOn
<1> QED
  BY <1>1, <1>4, <1>8, <1>9, <1>10, <1>11, <1>12, <1>13, <1>14, Zenon DEF Drs!Next

\* How many words an event has, of which some are read.
LEMMA LengthToRead ==
  ASSUME ReadInv, dPlace \in BeingRead, NEW e \in 1 .. NEvents, Drs!Pixels \/ words[2][1] = e
  PROVE  Len(words) + ToRead = Drs!EventLength(e) /\ words \in Seq(Word) /\ Len(words) >= 4
<1>1. EventRead /\ FileRight
  BY DEF ReadInv
<1>2. On = dInput.groups[e]
  <2>1. Drs!Pixels => dInput.groups[e] = {0, 1}
    BY <1>1, EventWords
  <2> QED
    BY <2>1 DEF On
<1>3. Len(words) + ToRead = 4 + Units(Drs!InTurn(On)) /\ words \in Seq(Word) /\ Len(words) >= 4
  BY <1>1 DEF EventRead, WordsRead, Progress
<1> QED
  BY <1>1, <1>2, <1>3, EventWords

LEMMA StillToRead ==
  ASSUME ReadInv, NEW n \in {1, 3}, GivenUpHere(n)
  PROVE  ToRead \in Nat /\ n <= ToRead
<1>1. EventRead /\ dPlace \in {"group", "samples", "trailer"} /\ (dPlace = "samples" => n = 3) /\ (dPlace # "samples" => n = 1)
  BY DEF ReadInv, BeingRead, GivenUpHere
<1>2. groups \in Turns /\ groups # << >> /\ nTriples \in 0 .. Triples /\ (dPlace = "samples" => nTriples < Triples)
  BY <1>1 DEF EventRead, Progress
<1>3. PICK u \in Nat, k \in Nat, t \in Nat : u = Units(groups) /\ k = nTriples /\ t = Triples /\ u >= 2 + 3 * t
  <2>1. Units(groups) \in Nat /\ Tail(groups) \in Turns /\ Units(groups) = Units(Tail(groups)) + (2 + 3 * Triples)
        /\ Triples \in Nat /\ nTriples \in Nat
    BY <1>2, TurnsLeft, UnitType
  <2>2. PICK w \in Nat : w = Units(Tail(groups))
    BY <2>1, TurnsLeft
  <2> QED
    BY <2>1, <2>2
<1>4. CASE dPlace = "group"
  BY <1>1, <1>3, <1>4 DEF ToRead
<1>5. CASE dPlace = "samples"
  <2>1. k + 1 <= t
    BY <1>2, <1>3, <1>5
  <2>2. ToRead = u - 1 - 3 * k
    BY <1>3, <1>5 DEF ToRead
  <2> QED
    BY <1>1, <1>3, <1>5, <2>1, <2>2
<1>6. CASE dPlace = "trailer"
  <2>1. ToRead = u - 1 - 3 * t
    BY <1>3, <1>6 DEF ToRead
  <2> QED
    BY <1>1, <1>3, <1>6, <2>1
<1> QED
  BY <1>1, <1>4, <1>5, <1>6

\* An event that is read from its first word on and came whole is stored as that
\* event, and the next is begun at its first word.
LEMMA WholeStored ==
  ASSUME ReadInv, dPlace = "fill", NEW e \in 1 .. NEvents, Drs!Lost(e) = {}, BeginsAt(F, e, start)
  PROVE  Drs!WholeEvent(words) = e /\ BeginsAt(F, e + 1, pos)
<1>1. EventRead /\ FileRight /\ start \in 0 .. Len(F) /\ Len(F) \in Nat
  BY FileFacts DEF ReadInv, BeingRead
<1>2. WordsAt(F, e, start, Drs!EventLength(e)) /\ BeginsAt(F, e + 1, start + Drs!EventLength(e))
  BY <1>1, WholeThere
<1>3. PICK n \in Nat : n = Drs!EventLength(e) /\ n >= 4 /\ n = 4 + Units(Drs!InTurn(dInput.groups[e]))
  BY <1>1, EventWords
<1>4. \A p \in 1 .. n : start + p \in 1 .. Len(F) /\ F[start + p] = <<e, p>>
  BY <1>2, <1>3 DEF WordsAt
<1>5. words[2] = <<e, 2>> /\ words[1] = <<e, 1>>
  <2>1. words[2] = F[start + 2] /\ words[1] = F[start + 1]
    BY <1>1 DEF EventRead, WordsRead
  <2> QED
    BY <1>3, <1>4, <2>1
<1>7. words \in Seq(Word) /\ Len(words) = n
  <2>0. words[2][1] = e
    BY <1>5
  <2>1. Len(words) + ToRead = n /\ words \in Seq(Word) /\ ToRead = 0
    BY <1>3, <2>0, LengthToRead DEF BeingRead, ToRead
  <2> QED
    BY <2>1
<1>8. start + n <= Len(F)
  <2>1. n \in 1 .. n
    BY <1>3
  <2> QED
    BY <1>1, <1>3, <1>4, <2>1
<1>9. \A p \in 1 .. n : words[p] = <<e, p>>
  BY <1>1, <1>4, <1>7, <1>8 DEF EventRead, WordsRead
<1>10. words = [p \in 1 .. n |-> <<e, p>>]
  <2>1. words = [p \in 1 .. n |-> words[p]]
    BY <1>7
  <2> QED
    BY <1>9, <2>1
<1>11. Drs!WholeEvent(words) = e
  <2>1. words[1][1] = e /\ e # 0
    BY <1>1, <1>5, FileFacts
  <2>2. words = [p \in 1 .. Drs!EventLength(e) |-> <<e, p>>]
    BY <1>3, <1>10
  <2> QED
    BY <2>1, <2>2, Zenon DEF Drs!WholeEvent
<1>12. pos = start + n
  BY <1>1, <1>3, <1>7, <1>8 DEF EventRead, WordsRead, Lesser
<1> QED
  BY <1>2, <1>3, <1>11, <1>12

\* One that lost words in a way that can be noticed is not stored.
LEMMA DamagedNotStored ==
  ASSUME ReadInv, dPlace = "fill", NEW e \in 1 .. NEvents, e + 1 \in 1 .. NEvents, Drs!Lost(e) # {},
         Drs!Noticed(e), Drs!Noticed(e + 1), BeginsAt(F, e, start)
  PROVE  FALSE
<1>1. EventRead /\ FileRight /\ start \in 0 .. Len(F) /\ Len(F) \in Nat
  BY FileFacts DEF ReadInv, BeingRead
<1>2. PICK q : /\ BeginsAt(F, e + 1, q) /\ start + 3 <= q /\ q + 3 <= start + Drs!EventLength(e)
               /\ q + 3 \in 1 .. Len(F) /\ F[q + 3][2] = 3
  BY <1>1, DamagedThere
<1>3. Drs!Pixels
  BY <1>1, EventWords
<1>4. PICK n \in Nat : n = Drs!EventLength(e)
  BY <1>1, EventWords
<1>5. Len(words) = n
  <2>1. Len(words) + ToRead = n /\ words \in Seq(Word) /\ ToRead = 0
    BY <1>3, <1>4, LengthToRead DEF BeingRead, ToRead
  <2> QED
    BY <2>1
<1>6. pos = Lesser(start + n, Len(F))
  BY <1>1, <1>5 DEF EventRead, WordsRead
<1>7. q \in Int /\ start + 5 <= q + 3 /\ q + 3 <= pos
  <2>1. q \in Int
    BY <1>1, <1>2 DEF BeginsAt
  <2> QED
    BY <1>1, <1>2, <1>4, <1>6, <2>1 DEF Lesser
<1> QED
  BY <1>1, <1>2, <1>3, <1>7 DEF EventRead, WordsRead

\* An event is only given up when it lost words, and then for the first word of the
\* next one.
LEMMA GivenUpRight ==
  ASSUME ReadInv, NEW n \in {1, 3}, GivenUpHere(n), NEW e \in 1 .. NEvents, BeginsAt(F, e, start)
  PROVE  /\ Drs!Lost(e) # {}
         /\ Drs!Noticed(e) /\ (e + 1 \in 1 .. NEvents => Drs!Noticed(e + 1)) => BeginsAt(F, e + 1, pos')
<1>1. EventRead /\ FileRight /\ start \in 0 .. Len(F) /\ Len(F) \in Nat /\ Drs!Pixels /\ start + 4 <= pos
      /\ pos \in 0 .. Len(F) /\ e \in Nat /\ NEvents \in Nat
  BY FileFacts DEF ReadInv, BeingRead, GivenUpHere
<1>2. GaveUp(n)
  BY DEF GivenUpHere
<1>3. PICK l \in Nat : l = Drs!EventLength(e)
  BY <1>1, EventWords
<1>4. CASE Drs!Lost(e) = {}
  <2>1. WordsAt(F, e, start, l)
    BY <1>1, <1>3, <1>4, WholeThere
  <2>2. \A p \in 1 .. l : start + p \in 1 .. Len(F) /\ F[start + p] = <<e, p>>
    BY <2>1 DEF WordsAt
  <2>3. l >= 4 /\ start + l <= Len(F)
    <3>1. l >= 4
      BY <1>1, <1>3, EventWords
    <3>2. l \in 1 .. l
      BY <3>1
    <3>3. PICK m \in Nat, s \in Nat : m = Len(F) /\ s = start
      BY <1>1
    <3>4. s + l \in 1 .. m
      BY <2>2, <3>2, <3>3
    <3> QED
      BY <3>1, <3>3, <3>4
  <2>4. pos + n <= start + l
    <3>1. PICK r \in Nat : r = ToRead /\ n <= r
      BY StillToRead
    <3>2. Len(words) + r = l /\ words \in Seq(Word)
      BY <1>1, <1>3, <3>1, LengthToRead DEF BeingRead, GivenUpHere
    <3>3. PICK k \in Nat : k = Len(words)
      BY <3>2
    <3>4. pos = Lesser(start + k, Len(F))
      BY <1>1, <3>3 DEF EventRead, WordsRead
    <3> QED
      BY <1>1, <2>3, <3>1, <3>2, <3>3, <3>4 DEF Lesser
  <2>5. pos # Len(F)
    BY <1>1, <2>3, <2>4
  <2>6. PICK z \in 1 .. Len(F) : pos < z /\ z <= pos + n /\ F[z][2] = 3
    BY <1>2, <2>5 DEF GaveUp
  <2>7. PICK p \in Int : p = z - start
    BY <1>1
  <2>8. p \in 1 .. l /\ p > 4
    BY <1>1, <2>4, <2>6, <2>7
  <2>9. F[start + p][2] = p /\ start + p = z
    BY <1>1, <2>2, <2>7, <2>8
  <2> QED
    BY <2>6, <2>8, <2>9
<1>5. ASSUME Drs!Lost(e) # {}, Drs!Noticed(e), e + 1 \in 1 .. NEvents => Drs!Noticed(e + 1) PROVE BeginsAt(F, e + 1, pos')
  <2>1. e + 1 \in 1 .. NEvents
    <3>1. e < Len(dInput.groups)
      BY <1>5 DEF Drs!Noticed
    <3> QED
      BY <1>1, <3>1 DEF NEvents
  <2>2. PICK q : /\ BeginsAt(F, e + 1, q) /\ start + 3 <= q /\ q + 3 \in 1 .. Len(F) /\ F[q + 3][2] = 3
                 /\ \A i \in 1 .. Len(F) : start + 4 <= i /\ i < q + 3 => F[i][2] # 3
    BY <1>1, <1>5, <2>1, DamagedThere
  <2>3. q \in Int
    BY <1>1, <2>2 DEF BeginsAt
  <2>4. pos < q + 3
    <3>1. ~(start + 5 <= q + 3 /\ q + 3 <= pos)
      BY <1>1, <2>2 DEF EventRead, WordsRead
    <3> QED
      BY <1>1, <2>2, <2>3, <3>1
  <2>5. pos # Len(F)
    BY <1>1, <2>2, <2>3, <2>4
  <2>6. PICK z \in 1 .. Len(F) : /\ pos < z /\ F[z][2] = 3 /\ pos' = z - 3
                                 /\ \A i \in 1 .. Len(F) : pos < i /\ i < z => F[i][2] # 3
    BY <1>2, <2>5 DEF GaveUp
  <2>7. ~(z < q + 3)
    BY <1>1, <2>2, <2>6
  <2>8. ~(q + 3 < z)
    BY <2>2, <2>4, <2>6
  <2>9. z = q + 3
    BY <1>1, <2>3, <2>7, <2>8
  <2>10. pos' = q
    BY <2>3, <2>6, <2>9
  <2> QED
    BY <1>5, <2>2, <2>10
<1> QED
  BY <1>4, <1>5

----------------------------------------------------------------------------
(* The rows. *)

\* The type of the row under way and of the rows stored.
ChannelValue == [samples : 0 .. NEvents, times : 0 .. NEvents]
DrsRow == [of : 0 .. NEvents, track : 0 .. Unlimited, channel : [{0, 1} -> ChannelValue]]
DrsInv == ReadInv /\ channel \in [{0, 1} -> ChannelValue] /\ tree \in Seq(DrsRow)

\* What is said of the file stays.
LEMMA FileAfter ==
  ASSUME dInput' = dInput
  PROVE  /\ F' = F /\ NEvents' = NEvents /\ (Drs!Pixels' <=> Drs!Pixels)
         /\ ChannelValue' = ChannelValue /\ DrsRow' = DrsRow /\ (FileRight' <=> FileRight)
  BY DEF F, NEvents, Drs!Pixels, ChannelValue, DrsRow, FileRight, DrsFile, LossesOnly, LengthIn, Before, Drs!GroupLength

\* The last event up to e that had a group on.
LEMMA LastWithIs ==
  ASSUME FileRight, NEW e \in 0 .. NEvents, NEW g
  PROVE  /\ Drs!LastWith(e, g) \in 0 .. e
         /\ e \in 1 .. NEvents /\ g \in dInput.groups[e] => Drs!LastWith(e, g) = e
         /\ e \in 1 .. NEvents /\ g \notin dInput.groups[e] => Drs!LastWith(e, g) = Drs!LastWith(e - 1, g)
         /\ e = 0 => Drs!LastWith(e, g) = 0
<1>1. NEvents \in Nat /\ e \in Nat
  BY FileFacts
<1> DEFINE S(n) == {0} \cup {f \in 1 .. n : g \in dInput.groups[f]}
<1>2. PICK T : T = S(e)
  OBVIOUS
<1>3. T \in SUBSET (0 .. e) /\ T # {}
  BY <1>1, <1>2
<1>4. MaxOfSet(T, Max(T))
  BY <1>1, <1>3, NatMax
<1>5. Drs!LastWith(e, g) = Max(T)
  BY <1>2 DEF Drs!LastWith, Drs!Max, Max
<1>6. PICK m : m = Max(T)
  OBVIOUS
<1>7. m \in T /\ \A x \in T : x <= m
  BY <1>4, <1>6 DEF MaxOfSet
<1>8. ASSUME e \in 1 .. NEvents, g \in dInput.groups[e] PROVE m = e
  <2>1. e \in T
    BY <1>1, <1>2, <1>8
  <2> QED
    BY <1>1, <1>3, <1>7, <2>1
<1>9. ASSUME e \in 1 .. NEvents, g \notin dInput.groups[e] PROVE Drs!LastWith(e - 1, g) = m
  <2>1. \A f : f \in 1 .. e /\ g \in dInput.groups[f] <=> f \in 1 .. e - 1 /\ g \in dInput.groups[f]
    <3>1. ASSUME NEW f \in 1 .. e, g \in dInput.groups[f] PROVE f \in 1 .. e - 1
      <4>1. f # e
        BY <1>9, <3>1
      <4> QED
        BY <1>1, <4>1
    <3>2. 1 .. e - 1 \subseteq 1 .. e
      BY <1>1
    <3> QED
      BY <3>1, <3>2
  <2>2. S(e - 1) = T
    BY <1>2, <2>1, Zenon
  <2> QED
    BY <1>6, <2>2 DEF Drs!LastWith, Drs!Max, Max
<1> QED
  BY <1>1, <1>3, <1>5, <1>6, <1>7, <1>8, <1>9

LEMMA WholeEventType ==
  ASSUME FileRight, words \in Seq(Word), Len(words) >= 4
  PROVE  Drs!WholeEvent(words) \in 0 .. NEvents /\ words[1][1] \in 0 .. NEvents
         /\ (Drs!WholeEvent(words) # 0 => /\ Drs!WholeEvent(words) = words[1][1]
                                          /\ \A p \in 1 .. 4 : words[p] = <<Drs!WholeEvent(words), p>>)
<1>1. Len(words) \in Nat /\ 1 \in 1 .. Len(words) /\ NEvents \in Nat
  BY FileFacts
<1>2. words[1] \in Word
  BY <1>1
<1>3. words[1][1] \in 0 .. NEvents
  BY <1>2 DEF Word
<1>4. PICK e \in 0 .. NEvents : e = words[1][1]
  BY <1>3
<1>5. Drs!WholeEvent(words) = e \/ Drs!WholeEvent(words) = 0
  BY <1>4 DEF Drs!WholeEvent
<1>6. ASSUME Drs!WholeEvent(words) # 0, NEW p \in 1 .. 4 PROVE words[p] = <<e, p>>
  <2>1. e # 0 /\ words = [q \in 1 .. Drs!EventLength(e) |-> <<e, q>>]
    BY <1>4, <1>6, Zenon DEF Drs!WholeEvent
  <2>2. e \in 1 .. NEvents
    BY <1>1, <2>1
  <2>3. PICK n \in Nat : n = Drs!EventLength(e) /\ n >= 4
    BY <2>2, EventWords
  <2>4. p \in 1 .. n
    BY <2>3
  <2> QED
    BY <2>1, <2>3, <2>4
<1> QED
  BY <1>1, <1>3, <1>4, <1>5, <1>6

LEMMA AnalysedType ==
  ASSUME channel \in [{0, 1} -> ChannelValue], NEW g \in {0, 1}, NEW e, NEW s \in 0 .. NEvents
  PROVE  Drs!Analysed(e, g, s) \in ChannelValue
<1>1. channel[g] \in ChannelValue
  OBVIOUS
<1>2. channel[g].times \in 0 .. NEvents
  BY <1>1 DEF ChannelValue
<1> QED
  BY <1>2 DEF Drs!Analysed, ChannelValue

LEMMA RootEventIs ==
  ASSUME ReadInv, Drs!RootEvent
  PROVE  /\ iEvent' = iEvent + 1 /\ iEvent' \in 1 .. NEvents /\ dPlace' = "event" /\ ~dInput.dat
         /\ channel' = [g \in {0, 1} |-> IF Drs!LastWith(iEvent', g) > 0
                                        THEN Drs!Analysed(iEvent', g, Drs!LastWith(iEvent', g)) ELSE channel[g]]
         /\ tree' = Append(tree, [of |-> iEvent', track |-> iEvent, channel |-> channel'])
<1>1. FileRight /\ iEvent \in 0 .. Unlimited
  BY DEF ReadInv
<1>2. iEvent' \in 1 .. NEvents
  <2>1. PICK x \in Int, y \in Int : x = NEvents /\ y = dInput.nEvents
    BY <1>1, FileFacts DEF FileRight, DrsFile
  <2>2. iEvent < Drs!Min({x, y}) /\ iEvent' = iEvent + 1
    BY <2>1 DEF Drs!RootEvent, NEvents
  <2>3. iEvent < Lesser(x, y) /\ Unlimited \in Nat
    BY <1>1, <2>1, <2>2, MinOfTwo, FileFacts
  <2>4. iEvent < x
    BY <1>1, <2>3 DEF Lesser
  <2> QED
    BY <1>1, <2>1, <2>2, <2>3, <2>4
<1>3. channel' = [g \in {0, 1} |-> IF Drs!LastWith(iEvent', g) > 0
                                        THEN Drs!Analysed(iEvent', g, Drs!LastWith(iEvent', g)) ELSE channel[g]]
  BY DEF Drs!RootEvent, Drs!Group, Drs!GroupsOfEntry
<1> QED
  BY <1>2, <1>3 DEF Drs!RootEvent

LEMMA FillIs ==
  ASSUME DrsInv, Drs!Fill
  PROVE  /\ dPlace = "fill" /\ dPlace' = "event" /\ iEvent' = iEvent + 1
         /\ UNCHANGED <<dInput, pos, start, groups, nTriples, words, channel>>
         /\ tree' = Append(tree, [of |-> Drs!WholeEvent(words), track |-> iEvent, channel |-> channel])
         /\ words \in Seq(Word) /\ Len(words) >= 4 /\ FileRight /\ dInput.dat
         /\ pos = Lesser(start + Len(words), Len(F)) /\ \A p \in 1 .. 4 : words[p] = F[start + p]
<1>1. EventRead /\ FileRight
  BY DEF DrsInv, ReadInv, BeingRead, Drs!Fill
<1> QED
  BY <1>1 DEF Drs!Fill, Drs!TrackEvent, EventRead, WordsRead

\* What the analysis does: the channels of the first group to be read.
LEMMA ChannelsIs ==
  ASSUME DrsInv, GoesOn, Drs!Next
  PROVE  \/ /\ channel' = channel /\ dPlace # "channels"
            /\ \/ groups' = groups /\ dPlace # "trailer"
               \/ dPlace = "trailer" /\ dPlace' # "trailer" /\ groups' = Tail(groups)
            /\ dPlace' # "trailer"
         \/ /\ dPlace = "channels" /\ dPlace' = "trailer" /\ groups' = groups /\ Head(groups) \in {0, 1} /\ groups # << >>
            /\ words[1][1] \in 0 .. NEvents
            /\ channel' = [channel EXCEPT ![Head(groups)] = Drs!Analysed(words[1][1], Head(groups), words[1][1])]
<1>1. dPlace \in BeingRead /\ dPlace' \in BeingRead /\ EventRead /\ FileRight /\ dPlace' # "event" /\ dPlace # "event"
  BY DEF DrsInv, ReadInv, GoesOn, BeingRead
<1>2. groups \in Turns /\ (dPlace = "fill" <=> groups = << >>)
  BY <1>1 DEF EventRead, Progress
<1>3. CASE Drs!Channels
  <2>1. Head(groups) \in {0, 1} /\ dPlace = "channels" /\ groups # << >>
    BY <1>2, <1>3, TurnsLeft DEF Drs!Channels
  <2>2. words[1][1] \in 0 .. NEvents
    BY <1>1, WholeEventType DEF EventRead, WordsRead
  <2> QED
    BY <1>3, <2>1, <2>2 DEF Drs!Channels
<1>4. CASE Drs!GroupHeader
  BY <1>1, <1>4 DEF Drs!GroupHeader, Drs!GivenUp
<1>5. CASE Drs!ReadSamples
  BY <1>1, <1>5 DEF Drs!ReadSamples, Drs!GivenUp
<1>6. CASE Drs!Trailer
  BY <1>1, <1>6 DEF Drs!Trailer, Drs!GivenUp
<1> QED
  BY <1>1, <1>3, <1>4, <1>5, <1>6 DEF Drs!Next, Drs!Close, Drs!Header, Drs!Fill, Drs!RootEvent, Drs!CloseRoot

LEMMA RowsType ==
  ASSUME DrsInv, Drs!Next
  PROVE  DrsInv' /\ dInput' = dInput
<1>1. /\ Begun \/ GoesOn \/ (\E n \in {1, 3} : GivenUpHere(n)) \/ Drs!Fill \/ Drs!RootEvent \/ Stopped
      /\ dInput' = dInput /\ ReadInv'
  BY StepKinds DEF DrsInv
<1>2. ChannelValue' = ChannelValue /\ DrsRow' = DrsRow
  BY <1>1, FileAfter
<1>3. ReadInv /\ FileRight /\ channel \in [{0, 1} -> ChannelValue] /\ tree \in Seq(DrsRow) /\ iEvent \in 0 .. Unlimited
  BY DEF DrsInv, ReadInv
<1>4. ASSUME channel' \in [{0, 1} -> ChannelValue], tree' \in Seq(DrsRow) PROVE DrsInv' /\ dInput' = dInput
  BY <1>1, <1>2, <1>4 DEF DrsInv
<1>5. CASE Begun \/ (\E n \in {1, 3} : GivenUpHere(n)) \/ Stopped
  BY <1>3, <1>4, <1>5 DEF Begun, GivenUpHere, Stopped
<1>6. CASE GoesOn
  <2>1. tree' = tree
    BY <1>6 DEF GoesOn
  <2>2. channel' = channel \/ \E g \in {0, 1} : \E e \in 0 .. NEvents : channel' = [channel EXCEPT ![g] = Drs!Analysed(e, g, e)]
    BY <1>6, ChannelsIs
  <2>3. channel' \in [{0, 1} -> ChannelValue]
    BY <1>3, <2>2, AnalysedType
  <2> QED
    BY <1>3, <1>4, <2>1, <2>3
<1>7. CASE Drs!Fill
  <2>1. PICK r : r = [of |-> Drs!WholeEvent(words), track |-> iEvent, channel |-> channel]
    OBVIOUS
  <2>2. r \in DrsRow
    <3>1. Drs!WholeEvent(words) \in 0 .. NEvents
      BY <1>7, FillIs, WholeEventType
    <3> QED
      BY <1>3, <2>1, <3>1 DEF DrsRow
  <2>3. tree' = Append(tree, r) /\ channel' = channel
    BY <1>7, <2>1, FillIs
  <2> QED
    BY <1>3, <1>4, <2>2, <2>3
<1>8. CASE Drs!RootEvent
  <2>1. /\ iEvent' = iEvent + 1 /\ iEvent' \in 1 .. NEvents
        /\ channel' = [g \in {0, 1} |-> IF Drs!LastWith(iEvent', g) > 0
                                        THEN Drs!Analysed(iEvent', g, Drs!LastWith(iEvent', g)) ELSE channel[g]]
        /\ tree' = Append(tree, [of |-> iEvent', track |-> iEvent, channel |-> channel'])
    BY <1>3, <1>8, RootEventIs
  <2>2. PICK e \in 1 .. NEvents : e = iEvent'
    BY <2>1
  <2>3. \A g : Drs!LastWith(e, g) \in 0 .. NEvents
    <3>1. NEvents \in Nat /\ e \in 0 .. NEvents
      BY <1>3, FileFacts
    <3>2. \A g : Drs!LastWith(e, g) \in 0 .. e
      BY <1>3, <3>1, LastWithIs
    <3>3. 0 .. e \subseteq 0 .. NEvents
      BY <3>1
    <3> QED
      BY <3>2, <3>3
  <2>4. \A g \in {0, 1} : Drs!Analysed(e, g, Drs!LastWith(e, g)) \in ChannelValue
    BY <1>3, <2>3, AnalysedType
  <2>5. channel' \in [{0, 1} -> ChannelValue]
    BY <1>3, <2>1, <2>2, <2>4
  <2>6. PICK r : r = [of |-> e, track |-> iEvent, channel |-> channel']
    OBVIOUS
  <2>7. r \in DrsRow
    <3>1. e \in 0 .. NEvents
      BY <1>3, FileFacts
    <3> QED
      BY <1>3, <2>5, <2>6, <3>1 DEF DrsRow
  <2>8. tree' = Append(tree, r)
    BY <2>1, <2>2, <2>6
  <2>9. tree' \in Seq(DrsRow)
    BY <1>3, <2>7, <2>8
  <2> QED
    BY <1>4, <2>5, <2>9
<1> QED
  BY <1>1, <1>5, <1>6, <1>7, <1>8

----------------------------------------------------------------------------
(* The rows of the events that came whole. *)

\* The losses up to an event can be noticed; the events of those that came whole.
SoundTo(e) == \A f \in 1 .. NEvents : f <= e => Drs!Noticed(f)
WholeEvents == {e \in 1 .. NEvents : SoundTo(e) /\ Drs!Lost(e) = {}}

\* The next event is begun, or this one was, at its first word.
InStep ==
  /\ iEvent <= NEvents
  /\ dPlace = "event" => BeginsAt(F, iEvent + 1, pos)
  /\ dPlace \in BeingRead => iEvent + 1 <= NEvents /\ BeginsAt(F, iEvent + 1, start)

\* The rows up to here: no event that came whole is missing, and none is twice.
RowsSoFar ==
  /\ CountUpTo(WholeEvents, iEvent) <= Len(tree)
  /\ \A f \in WholeEvents : f <= iEvent => tree[CountUpTo(WholeEvents, f)].of = f
  /\ SoundTo(iEvent + 1) /\ dPlace \in BeingRead \cup {"event"} =>
       InStep /\ Len(tree) = CountUpTo(WholeEvents, iEvent)
  /\ dPlace = "closed" /\ dInput.nEvents < 0 => \A f \in WholeEvents : f <= iEvent
RowsInv == DrsInv /\ (dInput.dat => RowsSoFar)

LEMMA WholeAfter ==
  ASSUME dInput' = dInput
  PROVE  WholeEvents' = WholeEvents /\ \A e : SoundTo(e)' <=> SoundTo(e)
  BY DEF NEvents, WholeEvents, SoundTo, Drs!Noticed, Drs!Lost, Drs!EventLength, Drs!file, Drs!GroupLength

LEMMA WholeType ==
  ASSUME FileRight
  PROVE  NEvents \in Nat /\ WholeEvents \in SUBSET (1 .. NEvents)
         /\ \A e \in Nat : SoundTo(e + 1) => SoundTo(e)
<1>1. NEvents \in Nat
  BY FileFacts
<1>2. ASSUME NEW e \in Nat, SoundTo(e + 1), NEW f \in 1 .. NEvents, f <= e PROVE Drs!Noticed(f)
  <2>1. f <= e + 1
    BY <1>1, <1>2
  <2> QED
    BY <1>2, <2>1 DEF SoundTo
<1>3. \A e \in Nat : SoundTo(e + 1) => SoundTo(e)
  BY <1>2 DEF SoundTo
<1> QED
  BY <1>1, <1>3 DEF WholeEvents

\* The rows that are there stay, whatever is stored behind them.
LEMMA RowsStay ==
  ASSUME DrsInv, RowsSoFar, NEW s, \A n \in 1 .. Len(tree) : s[n] = tree[n]
  PROVE  /\ \A f \in WholeEvents : f <= iEvent => s[CountUpTo(WholeEvents, f)].of = f
         /\ CountUpTo(WholeEvents, iEvent) \in Nat
         /\ iEvent + 1 \in WholeEvents => CountUpTo(WholeEvents, iEvent + 1) = CountUpTo(WholeEvents, iEvent) + 1
         /\ iEvent + 1 \notin WholeEvents =>
              /\ CountUpTo(WholeEvents, iEvent + 1) = CountUpTo(WholeEvents, iEvent)
              /\ \A f \in WholeEvents : f <= iEvent + 1 => f <= iEvent
<1>1. FileRight /\ tree \in Seq(DrsRow) /\ iEvent \in 0 .. Unlimited
  BY DEF DrsInv, ReadInv
<1>2. PICK N \in Nat : N = NEvents
  BY <1>1, FileFacts
<1>3. PICK W \in SUBSET (1 .. N) : W = WholeEvents
  BY <1>1, <1>2, WholeType
<1>4. iEvent \in Nat /\ Len(tree) \in Nat
  BY <1>1, FileFacts
<1>5. ASSUME NEW f \in W, f <= iEvent PROVE s[CountUpTo(W, f)].of = f
  <2>1. f \in Nat
    OBVIOUS
  <2>2. CountUpTo(W, f) \in Nat /\ CountUpTo(W, f) >= 1
    <3>1. f <= f
      BY <2>1
    <3>2. f \in W => CountUpTo(W, f) >= 1
      BY <2>1, <3>1, CountGrows
    <3>3. CountUpTo(W, f) \in Nat
      BY <2>1, CountStep
    <3> QED
      BY <3>2, <3>3
  <2>3. CountUpTo(W, f) <= CountUpTo(W, iEvent) /\ CountUpTo(W, iEvent) \in Nat
    BY <1>4, <1>5, <2>1, CountStep, CountGrows
  <2>4. CountUpTo(W, iEvent) <= Len(tree) /\ tree[CountUpTo(W, f)].of = f
    BY <1>3, <1>5 DEF RowsSoFar
  <2>5. PICK c \in Nat : c = CountUpTo(W, f) /\ c >= 1 /\ c <= Len(tree)
    BY <1>4, <2>2, <2>3, <2>4
  <2>6. s[c] = tree[c]
    BY <1>4, <2>5
  <2> QED
    BY <2>4, <2>5, <2>6
<1>6. /\ CountUpTo(W, iEvent) \in Nat
      /\ iEvent + 1 \in W => CountUpTo(W, iEvent + 1) = CountUpTo(W, iEvent) + 1
      /\ iEvent + 1 \notin W => CountUpTo(W, iEvent + 1) = CountUpTo(W, iEvent)
  BY <1>4, CountStep
<1>7. ASSUME iEvent + 1 \notin W, NEW f \in W, f <= iEvent + 1 PROVE f <= iEvent
  <2>1. f # iEvent + 1 /\ f \in Nat
    BY <1>7
  <2> QED
    BY <1>4, <1>7, <2>1
<1> QED
  BY <1>3, <1>5, <1>6, <1>7

LEMMA BegunInStep ==
  ASSUME RowsInv, Begun, dInput' = dInput
  PROVE  RowsSoFar'
<1>1. DrsInv /\ ReadInv /\ FileRight /\ RowsSoFar /\ iEvent \in Nat /\ pos \in Nat /\ pos + 4 <= Len(F) /\ Len(F) \in Nat
  <2>1. DrsInv /\ ReadInv /\ FileRight /\ RowsSoFar
    BY DEF RowsInv, DrsInv, ReadInv, Begun
  <2>2. Len(F) \in Nat /\ Unlimited \in Nat
    BY <2>1, FileFacts
  <2> QED
    BY <2>1, <2>2 DEF ReadInv, Begun
<1>2. F' = F /\ NEvents' = NEvents /\ WholeEvents' = WholeEvents /\ \A e : SoundTo(e)' <=> SoundTo(e)
  BY FileAfter, WholeAfter
<1>3. iEvent' = iEvent /\ tree' = tree /\ start' = pos /\ dPlace = "event" /\ dPlace' \in BeingRead
      /\ dPlace' # "event" /\ dPlace' # "closed"
  BY DEF Begun, BeingRead
<1>4. (CountUpTo(WholeEvents, iEvent) <= Len(tree))' /\ (\A f \in WholeEvents : f <= iEvent => tree[CountUpTo(WholeEvents, f)].of = f)'
  BY <1>1, <1>2, <1>3 DEF RowsSoFar, CountUpTo
<1>5. ASSUME SoundTo(iEvent + 1) PROVE iEvent + 1 <= NEvents /\ BeginsAt(F, iEvent + 1, pos) /\ Len(tree) = CountUpTo(WholeEvents, iEvent)
  <2>1. BeginsAt(F, iEvent + 1, pos) /\ Len(tree) = CountUpTo(WholeEvents, iEvent)
    BY <1>1, <1>3, <1>5 DEF RowsSoFar, InStep
  <2>2. PICK i \in 1 .. Len(F) : i = pos + 1
    BY <1>1
  <2>3. ~(F[i][1] < iEvent + 1) /\ F[i][1] \in 1 .. NEvents /\ NEvents \in Nat
    BY <1>1, <2>1, <2>2, FileFacts DEF BeginsAt
  <2> QED
    BY <1>1, <2>1, <2>3
<1>6. SoundTo(iEvent + 1) => InStep' /\ (Len(tree) = CountUpTo(WholeEvents, iEvent))'
  <2>1. ASSUME SoundTo(iEvent + 1) PROVE InStep'
    <3>1. iEvent \in Nat /\ NEvents \in Nat /\ iEvent + 1 <= NEvents
      BY <1>1, <1>5, <2>1, FileFacts
    <3>2. (iEvent <= NEvents)'
      BY <1>2, <1>3, <3>1
    <3>3. (iEvent + 1 <= NEvents /\ BeginsAt(F, iEvent + 1, start))'
      BY <1>2, <1>3, <1>5, <2>1 DEF BeginsAt
    <3> QED
      BY <1>3, <3>2, <3>3 DEF InStep
  <2>2. (Len(tree) = CountUpTo(WholeEvents, iEvent))' <=> Len(tree) = CountUpTo(WholeEvents, iEvent)
    BY <1>2, <1>3 DEF CountUpTo
  <2> QED
    BY <1>5, <2>1, <2>2
<1>7. SoundTo(iEvent + 1)' <=> SoundTo(iEvent + 1)
  BY <1>2, <1>3 DEF SoundTo
<1> QED
  BY <1>3, <1>4, <1>6, <1>7 DEF RowsSoFar

LEMMA StoppedInStep ==
  ASSUME RowsInv, Stopped, dInput.dat
  PROVE  RowsSoFar'
<1>1. DrsInv /\ ReadInv /\ FileRight /\ RowsSoFar /\ pos \in 0 .. Len(F)
  BY DEF RowsInv, DrsInv, ReadInv
<1>2. PICK m \in Nat, n \in Nat, k \in Nat, p \in Nat : m = Len(F) /\ n = NEvents /\ k = iEvent /\ p = pos
  <2>1. Len(F) \in Nat /\ NEvents \in Nat /\ Unlimited \in Nat
    BY <1>1, FileFacts
  <2> QED
    BY <1>1, <2>1 DEF ReadInv
<1>3. F' = F /\ NEvents' = NEvents /\ WholeEvents' = WholeEvents /\ dInput' = dInput
  BY FileAfter, WholeAfter DEF Stopped
<1>4. ASSUME dInput.nEvents < 0, NEW f \in WholeEvents, k < f PROVE FALSE
  <2>1. f \in 1 .. n /\ SoundTo(f) /\ Drs!Lost(f) = {}
    BY <1>2, <1>4 DEF WholeEvents
  <2>2. m - p < 4
    <3>1. Drs!maxEvents = Unlimited
      BY <1>4 DEF Drs!maxEvents
    <3>2. k >= Unlimited \/ m - p < 4
      BY <1>2, <3>1 DEF Stopped, Drs!Done, Drs!file, F
    <3>3. n <= Unlimited /\ Unlimited \in Nat
      BY <1>1, <1>2, FileFacts
    <3> QED
      BY <1>2, <1>4, <2>1, <3>2, <3>3
  <2>3. BeginsAt(F, k + 1, p)
    <3>1. SoundTo(k + 1)
      BY <1>2, <1>4, <2>1 DEF SoundTo
    <3> QED
      BY <1>1, <1>2, <3>1 DEF RowsSoFar, InStep, Stopped
  <2>4. PICK l \in Nat : l = Drs!EventLength(f) /\ l >= 4
    BY <1>1, <1>2, <2>1, EventWords
  <2>5. \A q \in 1 .. l : \E i \in 1 .. Len(F) : F[i] = <<f, q>>
    BY <1>1, <1>2, <2>1, <2>4, EventWords
  <2>6. HasWords(F, f, 4)
    <3>1. 1 .. 4 \subseteq 1 .. l
      BY <2>4
    <3> QED
      BY <2>5, <3>1 DEF HasWords
  <2>7. PICK j \in 1 .. m : F[j] = <<f, 1>>
    <3>1. 1 \in 1 .. 4
      OBVIOUS
    <3> QED
      BY <1>2, <2>6, <3>1, Zenon DEF HasWords
  <2>8. Ascending(F) /\ f \in Int
    BY <1>1, <2>1, FileFacts
  <2>9. BeginsAt(F, f, j - 1)
    BY <1>2, <2>7, <2>8, BeforeFirst
  <2>10. j - 1 + 4 \in 1 .. Len(F)
    <3>1. WordsAt(F, f, j - 1, 4)
      BY <2>6, <2>8, <2>9, FirstWords
    <3> QED
      BY <3>1 DEF WordsAt
  <2>11. p < j
    <3>1. ~(F[j][1] < k + 1)
      BY <1>2, <1>4, <2>1, <2>7
    <3>2. ~(j <= p)
      BY <1>2, <2>3, <3>1, FileFacts, <1>1 DEF BeginsAt
    <3> QED
      BY <1>2, <3>2
  <2> QED
    BY <1>2, <2>2, <2>7, <2>10, <2>11
<1>5. ASSUME dInput.nEvents < 0, NEW f \in WholeEvents PROVE f <= k
  <2>1. f \in Nat
    BY <1>1, WholeType
  <2>2. ~(k < f)
    BY <1>4, <1>5
  <2> QED
    BY <1>2, <2>1, <2>2
<1>6. (CountUpTo(WholeEvents, iEvent) <= Len(tree))' /\ (\A f \in WholeEvents : f <= iEvent => tree[CountUpTo(WholeEvents, f)].of = f)'
  BY <1>1, <1>3 DEF RowsSoFar, CountUpTo, Stopped
<1>7. dPlace' = "closed" /\ "closed" \notin BeingRead \cup {"event"}
  BY DEF Stopped, BeingRead
<1>8. (dPlace = "closed" /\ dInput.nEvents < 0 => \A f \in WholeEvents : f <= iEvent)'
  BY <1>2, <1>3, <1>5 DEF Stopped
<1> QED
  BY <1>6, <1>7, <1>8 DEF RowsSoFar

LEMMA FilledInStep ==
  ASSUME RowsInv, Drs!Fill
  PROVE  RowsSoFar'
<1>1. DrsInv /\ ReadInv /\ FileRight /\ RowsSoFar /\ dInput.dat /\ tree \in Seq(DrsRow)
  BY FillIs DEF RowsInv, DrsInv
<1>2. PICK n \in Nat, k \in Nat, t \in Nat : n = NEvents /\ k = iEvent /\ t = Len(tree)
  <2>1. Len(tree) \in Nat /\ NEvents \in Nat /\ Unlimited \in Nat
    BY <1>1, FileFacts
  <2> QED
    BY <1>1, <2>1 DEF ReadInv
<1>3. PICK r : r = [of |-> Drs!WholeEvent(words), track |-> iEvent, channel |-> channel]
  OBVIOUS
<1>4. /\ dPlace = "fill" /\ dPlace' = "event" /\ iEvent' = k + 1 /\ dInput' = dInput /\ pos' = pos
      /\ tree' = Append(tree, r)
  BY <1>1, <1>2, <1>3, FillIs
<1>5. Len(tree') = t + 1 /\ tree'[t + 1] = r /\ \A i \in 1 .. t : tree'[i] = tree[i]
  BY <1>1, <1>2, <1>4
<1>6. F' = F /\ NEvents' = NEvents /\ WholeEvents' = WholeEvents /\ \A e : SoundTo(e)' <=> SoundTo(e)
  BY <1>4, FileAfter, WholeAfter
<1>7. PICK W : W = WholeEvents
  OBVIOUS
<1>8. /\ \A f \in W : f <= k => tree'[CountUpTo(W, f)].of = f
      /\ CountUpTo(W, k) \in Nat
      /\ k + 1 \in W => CountUpTo(W, k + 1) = CountUpTo(W, k) + 1
      /\ k + 1 \notin W => /\ CountUpTo(W, k + 1) = CountUpTo(W, k)
                           /\ \A f \in W : f <= k + 1 => f <= k
  BY <1>1, <1>2, <1>5, <1>7, RowsStay
<1>9. CountUpTo(W, k) <= t
  BY <1>1, <1>2, <1>7 DEF RowsSoFar
<1>10. ASSUME SoundTo(k + 1)
       PROVE  k + 1 \in 1 .. n /\ BeginsAt(F, k + 1, start) /\ t = CountUpTo(W, k) /\ Drs!Noticed(k + 1)
  <2>1. InStep /\ t = CountUpTo(W, k)
    BY <1>1, <1>2, <1>4, <1>7, <1>10 DEF RowsSoFar, BeingRead
  <2>2. k + 1 <= n /\ BeginsAt(F, k + 1, start)
    BY <1>2, <1>4, <2>1 DEF InStep, BeingRead
  <2>3. k + 1 \in 1 .. n
    BY <1>2, <2>2
  <2> QED
    BY <1>2, <1>10, <2>1, <2>2, <2>3 DEF SoundTo
<1>11. CASE k + 1 \in W
  <2>1. SoundTo(k + 1) /\ Drs!Lost(k + 1) = {}
    BY <1>7, <1>11 DEF WholeEvents
  <2>2. r.of = k + 1 /\ BeginsAt(F, k + 1 + 1, pos)
    BY <1>1, <1>2, <1>3, <1>4, <1>10, <2>1, WholeStored
  <2>3. CountUpTo(W, k + 1) = t + 1
    BY <1>8, <1>10, <1>11, <2>1
  <2>4. ASSUME NEW f \in W, f <= k + 1 PROVE tree'[CountUpTo(W, f)].of = f
    <3>1. CASE f = k + 1
      BY <1>5, <2>2, <2>3, <3>1
    <3>2. CASE f # k + 1
      <4>1. f \in Nat
        BY <1>1, <1>7, WholeType
      <4>2. f <= k
        BY <1>2, <2>4, <3>2, <4>1
      <4> QED
        BY <1>8, <4>2
    <3> QED
      BY <3>1, <3>2
  <2>5. InStep'
    <3>1. (iEvent <= NEvents)'
      BY <1>2, <1>4, <1>6, <1>10, <2>1
    <3>2. (BeginsAt(F, iEvent + 1, pos))'
      BY <1>4, <1>6, <2>2 DEF BeginsAt
    <3>3. dPlace' \notin BeingRead
      BY <1>4 DEF BeingRead
    <3> QED
      BY <3>1, <3>2, <3>3 DEF InStep
  <2>6. (CountUpTo(WholeEvents, iEvent))' = t + 1
    BY <1>4, <1>6, <1>7, <2>3 DEF CountUpTo
  <2>7. (\A f \in WholeEvents : f <= iEvent => tree[CountUpTo(WholeEvents, f)].of = f)'
    BY <1>4, <1>6, <1>7, <2>4 DEF CountUpTo
  <2>8. (CountUpTo(WholeEvents, iEvent) <= Len(tree))' /\ (Len(tree) = CountUpTo(WholeEvents, iEvent))'
    BY <1>2, <1>5, <2>6
  <2>9. dPlace' = "event"
    BY <1>4
  <2> QED
    BY <2>5, <2>7, <2>8, <2>9 DEF RowsSoFar
<1>12. CASE k + 1 \notin W
  <2>1. CountUpTo(W, k + 1) <= t + 1
    BY <1>2, <1>8, <1>9, <1>12
  <2>2. \A f \in W : f <= k + 1 => tree'[CountUpTo(W, f)].of = f
    BY <1>8, <1>12
  <2>3. ~SoundTo(k + 1 + 1)
    <3>1. ASSUME SoundTo(k + 1 + 1) PROVE FALSE
      <4>1. SoundTo(k + 1)
        BY <1>1, <3>1, WholeType
      <4>2. Drs!Lost(k + 1) # {}
        BY <1>2, <1>7, <1>10, <1>12, <4>1 DEF WholeEvents
      <4>3. k + 1 < n
        BY <1>2, <1>10, <4>1, <4>2 DEF Drs!Noticed, NEvents
      <4>4. k + 1 + 1 \in 1 .. n
        BY <4>3
      <4>5. Drs!Noticed(k + 1 + 1)
        BY <1>2, <3>1, <4>4 DEF SoundTo
      <4> QED
        BY <1>1, <1>2, <1>4, <1>10, <4>1, <4>2, <4>4, <4>5, DamagedNotStored
    <3> QED
      BY <3>1
  <2>4. ~SoundTo(iEvent + 1)'
    BY <1>4, <1>6, <2>3 DEF SoundTo
  <2>5. (CountUpTo(WholeEvents, iEvent) <= Len(tree))'
    BY <1>4, <1>5, <1>6, <1>7, <2>1 DEF CountUpTo
  <2>6. (\A f \in WholeEvents : f <= iEvent => tree[CountUpTo(WholeEvents, f)].of = f)'
    BY <1>4, <1>6, <1>7, <2>2 DEF CountUpTo
  <2>7. (SoundTo(iEvent + 1) /\ dPlace \in BeingRead \cup {"event"} => InStep /\ Len(tree) = CountUpTo(WholeEvents, iEvent))'
    BY <2>4
  <2>8. (dPlace = "closed" /\ dInput.nEvents < 0 => \A f \in WholeEvents : f <= iEvent)'
    BY <1>4
  <2> QED
    BY <2>5, <2>6, <2>7, <2>8 DEF RowsSoFar
<1> QED
  BY <1>11, <1>12

LEMMA GivenUpInStep ==
  ASSUME RowsInv, NEW n \in {1, 3}, GivenUpHere(n), dInput' = dInput
  PROVE  RowsSoFar'
<1>1. DrsInv /\ ReadInv /\ FileRight /\ RowsSoFar /\ dInput.dat /\ tree \in Seq(DrsRow)
  BY DEF RowsInv, DrsInv, ReadInv, GivenUpHere, BeingRead, EventRead
<1>2. PICK N \in Nat, k \in Nat : N = NEvents /\ k = iEvent
  <2>1. NEvents \in Nat /\ Unlimited \in Nat
    BY <1>1, FileFacts
  <2> QED
    BY <1>1, <2>1 DEF ReadInv
<1>3. dPlace' = "event" /\ iEvent' = k + 1 /\ tree' = tree /\ dPlace \in BeingRead
  BY <1>2 DEF GivenUpHere, GaveUp, BeingRead
<1>4. F' = F /\ NEvents' = NEvents /\ WholeEvents' = WholeEvents /\ \A e : SoundTo(e)' <=> SoundTo(e)
  BY FileAfter, WholeAfter
<1>5. PICK W : W = WholeEvents
  OBVIOUS
<1>6. /\ \A f \in W : f <= k => tree[CountUpTo(W, f)].of = f
      /\ k + 1 \notin W => /\ CountUpTo(W, k + 1) = CountUpTo(W, k)
                           /\ \A f \in W : f <= k + 1 => f <= k
  BY <1>1, <1>2, <1>5, RowsStay
<1>7. ASSUME SoundTo(k + 1)
      PROVE  k + 1 \in 1 .. N /\ BeginsAt(F, k + 1, start) /\ Len(tree) = CountUpTo(W, k) /\ Drs!Noticed(k + 1)
  <2>1. InStep /\ Len(tree) = CountUpTo(W, k)
    BY <1>1, <1>2, <1>3, <1>5, <1>7 DEF RowsSoFar
  <2>2. k + 1 <= N /\ BeginsAt(F, k + 1, start)
    BY <1>2, <1>3, <2>1 DEF InStep
  <2>3. k + 1 \in 1 .. N
    BY <1>2, <2>2
  <2> QED
    BY <1>2, <1>7, <2>1, <2>2, <2>3 DEF SoundTo
<1>8. k + 1 \notin W
  <2>1. ASSUME k + 1 \in W PROVE FALSE
    <3>1. SoundTo(k + 1) /\ Drs!Lost(k + 1) = {}
      BY <1>5, <2>1 DEF WholeEvents
    <3> QED
      BY <1>1, <1>2, <1>7, <3>1, GivenUpRight
  <2> QED
    BY <2>1
<1>9. ASSUME SoundTo(k + 1 + 1) PROVE BeginsAt(F, k + 1 + 1, pos') /\ Len(tree) = CountUpTo(W, k + 1) /\ k + 1 <= N
  <2>1. SoundTo(k + 1)
    BY <1>1, <1>9, WholeType
  <2>2. k + 1 + 1 \in 1 .. NEvents => Drs!Noticed(k + 1 + 1)
    BY <1>2, <1>9 DEF SoundTo
  <2>3. BeginsAt(F, k + 1 + 1, pos')
    BY <1>1, <1>2, <1>7, <2>1, <2>2, GivenUpRight
  <2> QED
    BY <1>6, <1>7, <1>8, <2>1, <2>3
<1>10. SoundTo(iEvent + 1)' => InStep' /\ (Len(tree) = CountUpTo(WholeEvents, iEvent))'
  <2>1. SoundTo(iEvent + 1)' <=> SoundTo(k + 1 + 1)
    BY <1>3, <1>4 DEF SoundTo
  <2>2. ASSUME SoundTo(k + 1 + 1) PROVE InStep'
    <3>1. (iEvent <= NEvents)'
      BY <1>2, <1>3, <1>4, <1>9, <2>2
    <3>2. (BeginsAt(F, iEvent + 1, pos))'
      BY <1>3, <1>4, <1>9, <2>2 DEF BeginsAt
    <3>3. dPlace' \notin BeingRead
      BY <1>3 DEF BeingRead
    <3> QED
      BY <3>1, <3>2, <3>3 DEF InStep
  <2>3. SoundTo(k + 1 + 1) => (Len(tree) = CountUpTo(WholeEvents, iEvent))'
    BY <1>3, <1>4, <1>5, <1>9 DEF CountUpTo
  <2> QED
    BY <2>1, <2>2, <2>3
<1>11. (CountUpTo(WholeEvents, iEvent) <= Len(tree))'
  <2>1. CountUpTo(W, k + 1) <= Len(tree)
    BY <1>1, <1>2, <1>5, <1>6, <1>8 DEF RowsSoFar
  <2> QED
    BY <1>3, <1>4, <1>5, <2>1 DEF CountUpTo
<1>12. (\A f \in WholeEvents : f <= iEvent => tree[CountUpTo(WholeEvents, f)].of = f)'
  BY <1>3, <1>4, <1>5, <1>6, <1>8 DEF CountUpTo
<1> QED
  BY <1>3, <1>10, <1>11, <1>12 DEF RowsSoFar

\* Every step of a converter keeps it.
LEMMA RowsStep ==
  ASSUME RowsInv, Drs!Next
  PROVE  RowsInv' /\ dInput' = dInput
<1>1. DrsInv /\ (dInput.dat => RowsSoFar)
  BY DEF RowsInv
<1>2. DrsInv' /\ dInput' = dInput
  BY <1>1, RowsType
<1>3. Begun \/ GoesOn \/ (\E n \in {1, 3} : GivenUpHere(n)) \/ Drs!Fill \/ Drs!RootEvent \/ Stopped
  BY <1>1, StepKinds DEF DrsInv
<1>4. CASE Begun
  BY <1>2, <1>4, BegunInStep DEF RowsInv
<1>5. CASE GoesOn
  <2>1. F' = F /\ NEvents' = NEvents /\ WholeEvents' = WholeEvents /\ \A e : SoundTo(e)' <=> SoundTo(e)
    BY <1>2, FileAfter, WholeAfter
  <2>2. dPlace \in BeingRead /\ dPlace' \in BeingRead /\ dPlace' # "closed" /\ dPlace' # "event"
        /\ start' = start /\ iEvent' = iEvent /\ tree' = tree
    BY <1>5 DEF GoesOn, BeingRead
  <2>3. ASSUME RowsSoFar PROVE RowsSoFar'
    <3>1. (CountUpTo(WholeEvents, iEvent) <= Len(tree))' /\ (\A f \in WholeEvents : f <= iEvent => tree[CountUpTo(WholeEvents, f)].of = f)'
      BY <2>1, <2>2, <2>3 DEF RowsSoFar, CountUpTo
    <3>2. SoundTo(iEvent + 1)' <=> SoundTo(iEvent + 1)
      BY <2>1, <2>2 DEF SoundTo
    <3>3. InStep => InStep'
      BY <2>1, <2>2 DEF InStep, BeginsAt
    <3>4. (Len(tree) = CountUpTo(WholeEvents, iEvent))' <=> Len(tree) = CountUpTo(WholeEvents, iEvent)
      BY <2>1, <2>2 DEF CountUpTo
    <3> QED
      BY <2>2, <2>3, <3>1, <3>2, <3>3, <3>4 DEF RowsSoFar
  <2> QED
    BY <1>1, <1>2, <2>3 DEF RowsInv
<1>6. CASE \E n \in {1, 3} : GivenUpHere(n)
  BY <1>2, <1>6, GivenUpInStep DEF RowsInv
<1>7. CASE Drs!Fill
  BY <1>2, <1>7, FilledInStep DEF RowsInv
<1>8. CASE Drs!RootEvent
  BY <1>2, <1>8 DEF RowsInv, Drs!RootEvent
<1>9. CASE Stopped
  BY <1>2, <1>9, StoppedInStep DEF RowsInv
<1> QED
  BY <1>3, <1>4, <1>5, <1>6, <1>7, <1>8, <1>9

LEMMA FilesRight ==
  ASSUME OfflineInit
  PROVE  FileRight
<1>1. CASE dInput \in DrsInputs
  BY <1>1, OfflineAssumption, LossesAssumption DEF FileRight
<1>2. CASE dInput = NoFile
  <2>1. Unlimited \in Nat
    BY OfflineAssumption DEF OfflineAssumption
  <2>2. /\ dInput.program = "dat2rootPixels" /\ dInput.dat = TRUE /\ dInput.nEvents = -1 /\ dInput.file = << >>
        /\ dInput.groups = << >> /\ dInput.flat = {}
    BY <1>2 DEF NoFile
  <2>3. DrsFile(dInput)
    <3>1. \A S : << >> \in Seq(S)
      OBVIOUS
    <3>2. dInput.groups \in Seq(SUBSET {0, 1}) /\ dInput.file \in Seq((1 .. Len(dInput.groups)) \X (Nat \ {0}))
      BY <2>2, <3>1, Zenon
    <3>3. dInput.nEvents \in Int /\ dInput.nEvents <= Unlimited
      BY <2>1, <2>2
    <3> QED
      BY <2>2, <3>2, <3>3 DEF DrsFile
  <2>4. LossesOnly(dInput)
    BY <2>1, <2>2 DEF LossesOnly
  <2> QED
    BY <2>3, <2>4 DEF FileRight
<1> QED
  BY <1>1, <1>2 DEF OfflineInit

LEMMA RowsInit ==
  ASSUME OfflineInit
  PROVE  RowsInv
<1>1. FileRight
  BY FilesRight
<1>2. /\ pos = 0 /\ start = 0 /\ iEvent = 0 /\ dPlace = Drs!Opened /\ nTriples = 0
      /\ channel = [g \in {0, 1} |-> [samples |-> 0, times |-> 0]] /\ tree = << >>
  BY DEF OfflineInit, Drs!Begin, Drs!Group, Drs!Nothing
<1>3. PICK n \in Nat, m \in Nat, u \in Nat, t \in Nat : n = NEvents /\ m = Len(F) /\ u = Unlimited /\ t = Triples
  BY <1>1, FileFacts, UnitType
<1>4. dPlace \in {"event", "crashed"} /\ dPlace \notin BeingRead
  BY <1>2 DEF Drs!Opened, BeingRead
<1>5. DrsInv
  <2>1. ReadInv
    BY <1>1, <1>2, <1>3, <1>4 DEF ReadInv
  <2>2. channel \in [{0, 1} -> ChannelValue] /\ tree \in Seq(DrsRow)
    BY <1>2, <1>3 DEF ChannelValue
  <2> QED
    BY <2>1, <2>2 DEF DrsInv
<1>6. CountUpTo(WholeEvents, 0) = 0 /\ WholeEvents \in SUBSET (1 .. n)
  <2>1. WholeEvents \in SUBSET (1 .. n)
    BY <1>1, <1>3, WholeType
  <2> QED
    BY <2>1, CountStep
<1>7. BeginsAt(F, 1, 0)
  <2>1. \A i \in 1 .. Len(F) : ~(i <= 0) /\ ~(F[i][1] < 1)
    BY <1>1, <1>3, FileFacts
  <2>2. DOMAIN F = 1 .. Len(F) /\ 0 \in 0 .. Len(F)
    BY <1>1, <1>3, FileFacts
  <2> QED
    BY <2>1, <2>2 DEF BeginsAt
<1>8. RowsSoFar
  <2>1. \A f \in WholeEvents : ~(f <= 0)
    BY <1>6
  <2>2. Len(tree) = 0 /\ iEvent = 0 /\ 0 <= n /\ 0 + 1 = 1
    BY <1>2, <1>3
  <2>3. InStep
    BY <1>2, <1>3, <1>4, <1>7, <2>2 DEF InStep
  <2>4. dPlace # "closed"
    BY <1>4
  <2> QED
    BY <1>6, <2>1, <2>2, <2>3, <2>4 DEF RowsSoFar
<1> QED
  BY <1>5, <1>8 DEF RowsInv

LEMMA DrsUnchanged ==
  ASSUME UNCHANGED drsVars
  PROVE  /\ ReadInv' <=> ReadInv
         /\ DrsInv' <=> DrsInv
         /\ RowsSoFar' <=> RowsSoFar
         /\ RowsInv' <=> RowsInv
<1>1. /\ dInput' = dInput /\ pos' = pos /\ dPlace' = dPlace /\ start' = start /\ iEvent' = iEvent /\ groups' = groups
      /\ nTriples' = nTriples /\ words' = words /\ channel' = channel /\ tree' = tree
  BY DEF drsVars
<1>2. /\ F' = F /\ NEvents' = NEvents /\ (Drs!Pixels' <=> Drs!Pixels)
      /\ ChannelValue' = ChannelValue /\ DrsRow' = DrsRow /\ (FileRight' <=> FileRight)
  BY <1>1, FileAfter
<1>3. WholeEvents' = WholeEvents /\ \A e : SoundTo(e)' <=> SoundTo(e)
  BY <1>1, WholeAfter
<1>4. EventRead' <=> EventRead
  <2>1. WordsRead' <=> WordsRead
    BY <1>1, <1>2 DEF WordsRead, Word, Lesser
  <2>2. Progress' <=> Progress
    BY <1>1, <1>2 DEF Progress, ToRead, Units, On, Drs!InTurn, Drs!GroupLength
  <2> QED
    BY <1>1, <1>2, <2>1, <2>2 DEF EventRead
<1>5. ReadInv' <=> ReadInv
  BY <1>1, <1>2, <1>4 DEF ReadInv
<1>6. DrsInv' <=> DrsInv
  BY <1>1, <1>2, <1>5 DEF DrsInv
<1>7. RowsSoFar' <=> RowsSoFar
  <2>1. InStep' <=> InStep
    BY <1>1, <1>2 DEF InStep, BeginsAt
  <2>2. SoundTo(iEvent + 1)' <=> SoundTo(iEvent + 1)
    BY <1>1, <1>3 DEF SoundTo
  <2>3. (CountUpTo(WholeEvents, iEvent) <= Len(tree))' <=> CountUpTo(WholeEvents, iEvent) <= Len(tree)
    BY <1>1, <1>3 DEF CountUpTo
  <2>4. (\A f \in WholeEvents : f <= iEvent => tree[CountUpTo(WholeEvents, f)].of = f)'
        <=> \A f \in WholeEvents : f <= iEvent => tree[CountUpTo(WholeEvents, f)].of = f
    BY <1>1, <1>3 DEF CountUpTo
  <2>5. (Len(tree) = CountUpTo(WholeEvents, iEvent))' <=> Len(tree) = CountUpTo(WholeEvents, iEvent)
    BY <1>1, <1>3 DEF CountUpTo
  <2>6. (dPlace = "closed" /\ dInput.nEvents < 0 => \A f \in WholeEvents : f <= iEvent)'
        <=> (dPlace = "closed" /\ dInput.nEvents < 0 => \A f \in WholeEvents : f <= iEvent)
    BY <1>1, <1>3
  <2>7. (dPlace \in BeingRead \cup {"event"})' <=> dPlace \in BeingRead \cup {"event"}
    BY <1>1
  <2> QED
    BY <2>1, <2>2, <2>3, <2>4, <2>5, <2>6, <2>7, Zenon DEF RowsSoFar
<1>8. RowsInv' <=> RowsInv
  BY <1>1, <1>6, <1>7 DEF RowsInv
<1> QED
  BY <1>5, <1>6, <1>7, <1>8

LEMMA DrsTypes ==
  ASSUME DrsInv
  PROVE  Drs!TypeOK
<1>1. ReadInv /\ FileRight /\ channel \in [{0, 1} -> ChannelValue] /\ tree \in Seq(DrsRow) /\ Len(F) \in Nat
  BY FileFacts DEF DrsInv, ReadInv
<1>2. pos \in 0 .. Len(F) /\ start \in 0 .. Len(F) /\ iEvent \in 0 .. Unlimited /\ nTriples \in 0 .. Triples
  BY <1>1 DEF ReadInv
<1>3. dPlace \in {"event", "group", "samples", "channels", "trailer", "fill", "closed", "crashed"}
  BY <1>1 DEF ReadInv, BeingRead
<1>4. channel \in [Drs!Group -> [samples : 0 .. Len(dInput.groups), times : 0 .. Len(dInput.groups)]]
  BY <1>1 DEF ChannelValue, Drs!Group, NEvents
<1>5. \A r \in Drs!Range(tree) : r.of \in 0 .. Len(dInput.groups)
  <2>1. \A i \in DOMAIN tree : tree[i] \in DrsRow
    BY <1>1
  <2> QED
    BY <2>1 DEF Drs!Range, DrsRow, NEvents
<1> QED
  BY <1>2, <1>3, <1>4, <1>5 DEF Drs!TypeOK, Drs!file, F

\* It is what the rows have to be once the file is closed.
LEMMA RowsAreWhole ==
  ASSUME RowsInv
  PROVE  RowsAreTheWholeEvents
<1>1. DrsInv /\ FileRight
  BY DEF RowsInv, DrsInv, ReadInv
<1>2. ASSUME dPlace = "closed", dInput.dat, dInput.nEvents < 0
      PROVE  LET whole == {e \in Drs!Sound : Drs!Lost(e) = {}}
             IN /\ Len(tree) >= Drs!Cardinality(whole)
                /\ \A e \in whole : tree[Drs!Cardinality({f \in whole : f <= e})].of = e
  <2>1. {e \in Drs!Sound : Drs!Lost(e) = {}} = WholeEvents
    <3>1. NEvents \in Nat
      BY <1>1, FileFacts
    <3>2. ASSUME NEW e \in 1 .. NEvents PROVE (\A f \in 1 .. e : Drs!Noticed(f)) <=> SoundTo(e)
      <4>1. \A f : f \in 1 .. e <=> f \in 1 .. NEvents /\ f <= e
        BY <3>1, <3>2
      <4> QED
        BY <4>1 DEF SoundTo
    <3> QED
      BY <3>2 DEF WholeEvents, Drs!Sound, Drs!Event, NEvents
  <2>2. RowsSoFar
    BY <1>2 DEF RowsInv
  <2>3. PICK n \in Nat, k \in Nat, t \in Nat, W \in SUBSET (1 .. NEvents) : n = NEvents /\ W = WholeEvents /\ k = iEvent /\ t = Len(tree) /\ W \in SUBSET (1 .. n)
    <3>1. NEvents \in Nat /\ WholeEvents \in SUBSET (1 .. NEvents)
      BY <1>1, WholeType
    <3>2. iEvent \in Nat /\ Len(tree) \in Nat
      BY <1>1, FileFacts DEF DrsInv, ReadInv
    <3> QED
      BY <3>1, <3>2
  <2>4. \A f \in W : f <= k /\ tree[CountUpTo(W, f)].of = f
    BY <1>2, <2>2, <2>3 DEF RowsSoFar
  <2>5. CountUpTo(W, k) = Cardinality(W)
    <3>1. {f \in W : f <= k} = W
      BY <2>4, Zenon
    <3> QED
      BY <3>1 DEF CountUpTo
  <2>6. t >= Cardinality(W)
    <3>1. CountUpTo(W, k) <= t /\ CountUpTo(W, k) \in Nat
      BY <2>2, <2>3, CountStep DEF RowsSoFar
    <3> QED
      BY <2>3, <2>5, <3>1
  <2>7. \A e \in W : tree[Cardinality({f \in W : f <= e})].of = e
    BY <2>4 DEF CountUpTo
  <2>8. \A S : Drs!Cardinality(S) = Cardinality(S)
    BY DrsCardinality
  <2> QED
    BY <2>1, <2>3, <2>6, <2>7, <2>8
<1>3. Drs!RowsAreTheWholeEvents
  BY <1>2 DEF Drs!RowsAreTheWholeEvents
<1> QED
  BY <1>1, <1>3, DrsTypes DEF RowsAreTheWholeEvents

\* The rows are the events that came whole, once each and in order, for any file that
\* only lost words, as long as no loss goes unnoticed (found_corruption, dat2rootPixels.cc:36).
THEOREM WholeEventsStored == OfflineSpec => []RowsAreTheWholeEvents
<1>1. OfflineInit => RowsInv
  BY RowsInit
<1>2. RowsInv /\ [OfflineNext]_offlineVars => RowsInv'
  <2> SUFFICES ASSUME RowsInv, [OfflineNext]_offlineVars PROVE RowsInv'
    OBVIOUS
  <2>1. CASE Drs!Next
    BY <2>1, RowsStep
  <2>2. CASE UNCHANGED drsVars
    BY <2>2, DrsUnchanged
  <2> QED
    BY <2>1, <2>2 DEF OfflineNext, Convert, Merge, Group, offlineVars
<1>3. RowsInv => RowsAreTheWholeEvents
  BY RowsAreWhole
<1> QED
  BY <1>1, <1>2, <1>3, PTL DEF OfflineSpec

----------------------------------------------------------------------------
(* The tracks of the rows. *)

\* The next event, and the one that is read, is begun at most three words before the
\* zero of the event whose number it has.
ZeroBehind(e, b) == \E z \in 1 .. Len(F) : F[z] = <<e, 3>> /\ b < z /\ z <= b + 3
\* The inductive part about the tracks.
TrackSoFar ==
  /\ dPlace = "event" => Len(F) - pos < 4 \/ ZeroBehind(iEvent + 1, pos)
  /\ dPlace \in BeingRead => ZeroBehind(iEvent + 1, start)
TrackInv ==
  /\ RowsInv
  /\ dInput.dat /\ Drs!Pixels /\ Drs!Recognized => TrackSoFar
  /\ Drs!TrackOfOwnEvent

LEMMA RecognizedAfter ==
  ASSUME dInput' = dInput
  PROVE  (Drs!Recognized' <=> Drs!Recognized) /\ \A e, b : ZeroBehind(e, b)' <=> ZeroBehind(e, b)
  BY DEF Drs!Recognized, Drs!Event, Drs!Lost, Drs!EventLength, Drs!file, Drs!GroupLength, ZeroBehind, F

LEMMA ZeroThere ==
  ASSUME FileRight, Drs!Recognized, NEW e \in 1 .. NEvents
  PROVE  \E i \in 1 .. Len(F) : F[i] = <<e, 3>>
<1>1. 3 \in 1 .. Drs!EventLength(e)
  BY EventWords
<1>2. 3 \notin Drs!Lost(e)
  BY DEF Drs!Recognized, Drs!Event, NEvents
<1> QED
  BY <1>1, <1>2, EventWords

LEMMA NoZeroRead ==
  ASSUME ReadInv, Drs!Recognized, Drs!Pixels, dPlace \in BeingRead, NEW z \in 1 .. Len(F), F[z][2] = 3,
         start < z, z <= start + 3, NEW i \in 1 .. Len(F), z < i, i <= pos
  PROVE  F[i][2] # 3
<1>1. EventRead /\ FileRight /\ Len(F) \in Nat /\ start \in Nat /\ DOMAIN F = 1 .. Len(F)
  BY FileFacts DEF ReadInv
<1>2. CASE start + 5 <= i
  BY <1>1, <1>2 DEF EventRead, WordsRead, ReadInv
<1>3. CASE i < start + 5
  <2>7. z + 3 \in Int /\ Len(F) \in Int
    BY <1>1
  <2>1. PICK x \in Int, y \in Int : x = z + 3 /\ y = Len(F)
    BY <2>7, Zenon
  <2>2. Drs!Min({x, y}) = Lesser(x, y)
    BY MinOfTwo
  <2>3. \A j \in z + 1 .. Drs!Min({x, y}) : F[j][2] # 3
    BY <1>1, <2>1 DEF Drs!Recognized, Drs!file, F
  <2>4. i <= Lesser(x, y) /\ z + 1 <= i /\ Lesser(x, y) \in Int
    BY <1>1, <1>3, <2>1 DEF Lesser
  <2>5. i \in z + 1 .. Lesser(x, y)
    BY <1>1, <2>4
  <2> QED
    BY <2>2, <2>3, <2>5
<1> QED
  BY <1>1, <1>2, <1>3

\* The first zero behind that of an event is the one of the next.
LEMMA NextZero ==
  ASSUME FileRight, Drs!Recognized, NEW e \in Nat, NEW z \in 1 .. Len(F), F[z] = <<e, 3>>,
         NEW y \in 1 .. Len(F), z < y, F[y][2] = 3, \A i \in 1 .. Len(F) : z < i /\ i < y => F[i][2] # 3
  PROVE  F[y] = <<e + 1, 3>>
<1>1. Ascending(F) /\ Len(F) \in Nat /\ NEvents \in Nat
  BY FileFacts
<1>2. PICK d \in 1 .. NEvents : d = F[y][1] /\ F[y] = <<d, 3>>
  BY FileFacts
<1>3. e < d
  <2>1. F[z][1] = e /\ F[z][2] = 3
    OBVIOUS
  <2>2. F[z][1] < F[y][1] \/ (F[z][1] = F[y][1] /\ F[z][2] < F[y][2])
    BY <1>1, WordsInOrder
  <2> QED
    BY <1>2, <2>1, <2>2
<1>4. e + 1 \in 1 .. NEvents
  BY <1>1, <1>2, <1>3
<1>5. PICK w \in 1 .. Len(F) : F[w] = <<e + 1, 3>>
  BY <1>4, ZeroThere
<1>6. F[w][1] = e + 1 /\ F[w][2] = 3
  BY <1>5
<1>7. z < w
  <2>1. ASSUME w < z PROVE FALSE
    <3>1. F[w][1] < F[z][1] \/ (F[w][1] = F[z][1] /\ F[w][2] < F[z][2])
      BY <1>1, <2>1, WordsInOrder
    <3> QED
      BY <1>6, <3>1
  <2>2. w # z
    BY <1>6
  <2> QED
    BY <1>1, <2>1, <2>2
<1>8. y <= w
  BY <1>1, <1>6, <1>7
<1>9. ASSUME y < w PROVE FALSE
  <2>1. F[y][1] < F[w][1] \/ (F[y][1] = F[w][1] /\ F[y][2] < F[w][2])
    BY <1>1, <1>9, WordsInOrder
  <2> QED
    BY <1>2, <1>3, <1>6, <2>1
<1>10. y = w
  BY <1>1, <1>8, <1>9
<1> QED
  BY <1>5, <1>10

LEMMA GivenUpTrack ==
  ASSUME ReadInv, NEW n \in {1, 3}, GivenUpHere(n), Drs!Recognized, TrackSoFar
  PROVE  Len(F) - pos' < 4 \/ ZeroBehind(iEvent + 1 + 1, pos')
<1>1. /\ EventRead /\ FileRight /\ Len(F) \in Nat /\ start \in Nat /\ pos \in Nat /\ dPlace \in BeingRead /\ Drs!Pixels
      /\ iEvent \in Nat /\ start + 4 <= pos
  BY FileFacts DEF ReadInv, BeingRead, GivenUpHere
<1>2. PICK z \in 1 .. Len(F) : F[z] = <<iEvent + 1, 3>> /\ start < z /\ z <= start + 3
  BY <1>1 DEF TrackSoFar, ZeroBehind
<1>3. CASE pos' = Len(F) - 3
  BY <1>1, <1>3
<1>4. CASE \E y \in 1 .. Len(F) : /\ pos < y /\ y <= pos + n /\ F[y][2] = 3 /\ pos' = y - 3
                                  /\ \A i \in 1 .. Len(F) : pos < i /\ i < y => F[i][2] # 3
  <2>1. PICK y \in 1 .. Len(F) : /\ pos < y /\ F[y][2] = 3 /\ pos' = y - 3
                                 /\ \A i \in 1 .. Len(F) : pos < i /\ i < y => F[i][2] # 3
    BY <1>4
  <2>2. ASSUME NEW i \in 1 .. Len(F), z < i, i < y PROVE F[i][2] # 3
    <3>1. CASE pos < i
      BY <2>1, <2>2, <3>1
    <3>2. CASE i <= pos
      <4>1. F[z][2] = 3
        BY <1>2
      <4> QED
        BY <1>1, <1>2, <2>2, <3>2, <4>1, NoZeroRead
    <3> QED
      BY <1>1, <3>1, <3>2
  <2>3. z < y
    BY <1>1, <1>2, <2>1
  <2>4. iEvent + 1 \in Nat
    BY <1>1
  <2>5. F[y] = <<iEvent + 1 + 1, 3>>
    BY <1>1, <1>2, <2>1, <2>2, <2>3, <2>4, NextZero
  <2>6. pos' < y /\ y <= pos' + 3
    BY <2>1
  <2> QED
    BY <2>5, <2>6 DEF ZeroBehind
<1> QED
  BY <1>3, <1>4 DEF GivenUpHere, GaveUp

LEMMA StoredTrack ==
  ASSUME ReadInv, dPlace = "fill", Drs!Pixels, Drs!Recognized, TrackSoFar
  PROVE  /\ Len(F) - pos < 4 \/ ZeroBehind(iEvent + 1 + 1, pos)
         /\ Drs!WholeEvent(words) # 0 => Drs!WholeEvent(words) = iEvent + 1
<1>1. /\ EventRead /\ FileRight /\ Len(F) \in Nat /\ start \in Nat /\ pos \in Nat /\ dPlace \in BeingRead
      /\ iEvent \in Nat /\ NEvents \in Nat /\ Ascending(F)
  BY FileFacts DEF ReadInv, BeingRead
<1>2. PICK z \in 1 .. Len(F) : F[z] = <<iEvent + 1, 3>> /\ start < z /\ z <= start + 3
  BY <1>1 DEF TrackSoFar, ZeroBehind
<1>3. PICK e \in 1 .. NEvents : e = iEvent + 1 /\ F[z][1] = e /\ F[z][2] = 3
  BY <1>1, <1>2, FileFacts
<1>4. PICK l \in Nat : l = Drs!EventLength(e) /\ l >= 4
  BY <1>1, EventWords
<1>5. pos = Lesser(start + l, Len(F))
  <2>1. Len(words) + ToRead = l /\ words \in Seq(Word) /\ ToRead = 0
    BY <1>1, <1>4, LengthToRead DEF ToRead
  <2>2. Len(words) = l
    BY <2>1
  <2> QED
    BY <1>1, <2>2 DEF EventRead, WordsRead
<1>6. /\ \A y \in 1 .. Len(F) : F[y] = <<e + 1, 3>> => z < y /\ y - z <= l
      /\ (\A i \in 1 .. Len(F) : F[i][1] <= e) => Len(F) - z <= l - 3
  <2>1. \A i \in 1 .. Len(F) : F[i][1] = e => F[i][2] <= l
    BY <1>1, <1>4, FileFacts
  <2>2. F[z] = <<e, 3>> /\ e \in Int
    BY <1>2, <1>3
  <2> QED
    BY <1>1, <1>4, <2>1, <2>2, ZerosApart
<1>7. Len(F) - pos < 4 \/ ZeroBehind(e + 1, pos)
  <2>1. CASE e + 1 \in 1 .. NEvents
    <3>1. PICK w \in 1 .. Len(F) : F[w] = <<e + 1, 3>>
      BY <1>1, <2>1, ZeroThere
    <3>2. z < w /\ w - z <= l /\ F[w][2] = 3
      BY <1>6, <3>1
    <3>3. pos < w
      <4>1. ~(w <= pos)
        BY <1>1, <1>2, <1>3, <3>2, NoZeroRead
      <4> QED
        BY <1>1, <4>1
    <3>4. w <= pos + 3 \/ Len(F) = pos
      BY <1>1, <1>2, <1>4, <1>5, <3>2 DEF Lesser
    <3> QED
      BY <1>1, <3>1, <3>3, <3>4 DEF ZeroBehind
  <2>2. CASE e + 1 \notin 1 .. NEvents
    <3>1. \A i \in 1 .. Len(F) : F[i][1] <= e
      <4>1. e = NEvents
        BY <1>1, <2>2
      <4> QED
        BY <1>1, <4>1, FileFacts
    <3>2. Len(F) - z <= l - 3
      BY <1>6, <3>1
    <3> QED
      BY <1>1, <1>2, <1>4, <1>5, <3>2 DEF Lesser
  <2> QED
    BY <2>1, <2>2
<1>8. ASSUME Drs!WholeEvent(words) # 0 PROVE Drs!WholeEvent(words) = e
  <2>1. words \in Seq(Word) /\ Len(words) >= 4 /\ \A p \in 1 .. 4 : words[p] = F[start + p]
    BY <1>1 DEF EventRead, WordsRead
  <2>2. \A p \in 1 .. 4 : words[p] = <<Drs!WholeEvent(words), p>>
    BY <1>1, <1>8, <2>1, WholeEventType
  <2>3. PICK p \in 1 .. 4 : p = z - start
    BY <1>1, <1>2
  <2>4. start + p = z
    BY <1>1, <2>3
  <2>5. F[z] = <<Drs!WholeEvent(words), p>>
    BY <2>1, <2>2, <2>4
  <2> QED
    BY <1>3, <2>5
<1> QED
  BY <1>3, <1>7, <1>8

\* Without the look ahead nothing is lost, and the events are in step with the rows.
LEMMA AllWhole ==
  ASSUME RowsInv, ~Drs!Pixels, dInput.dat
  PROVE  /\ \A e : SoundTo(e)
         /\ dPlace \in BeingRead => /\ iEvent + 1 \in 1 .. NEvents /\ words[1] = <<iEvent + 1, 1>> /\ words[2] = <<iEvent + 1, 2>>
<1>1. ReadInv /\ FileRight /\ RowsSoFar /\ iEvent \in 0 .. Unlimited
  BY DEF RowsInv, DrsInv, ReadInv
<1>2. NEvents \in Nat /\ iEvent \in Nat
  BY <1>1, FileFacts
<1>3. \A e : SoundTo(e)
  <2>1. \A e \in 1 .. NEvents : Drs!Lost(e) = {}
    BY <1>1, EventWords
  <2> QED
    BY <2>1 DEF SoundTo, Drs!Noticed
<1>4. ASSUME dPlace \in BeingRead PROVE iEvent + 1 \in 1 .. NEvents /\ words[1] = <<iEvent + 1, 1>> /\ words[2] = <<iEvent + 1, 2>>
  <2>1. iEvent + 1 <= NEvents /\ BeginsAt(F, iEvent + 1, start)
    BY <1>1, <1>3, <1>4 DEF RowsSoFar, InStep
  <2>2. PICK e \in 1 .. NEvents : e = iEvent + 1
    BY <1>2, <2>1
  <2>3. Drs!Lost(e) = {} /\ Drs!EventLength(e) \in Nat /\ Drs!EventLength(e) >= 4
    BY <1>1, EventWords
  <2>4. WordsAt(F, e, start, Drs!EventLength(e))
    BY <1>1, <2>1, <2>2, <2>3, WholeThere
  <2>5. 1 \in 1 .. Drs!EventLength(e) /\ 2 \in 1 .. Drs!EventLength(e)
    BY <2>3
  <2>6. F[start + 1] = <<e, 1>> /\ F[start + 2] = <<e, 2>>
    BY <2>4, <2>5 DEF WordsAt
  <2>7. words[1] = F[start + 1] /\ words[2] = F[start + 2]
    BY <1>1, <1>4 DEF ReadInv, EventRead, WordsRead
  <2> QED
    BY <2>2, <2>6, <2>7
<1> QED
  BY <1>3, <1>4

LEMMA TrackStep ==
  ASSUME TrackInv, Drs!Next
  PROVE  TrackInv' /\ dInput' = dInput
<1>1. RowsInv /\ DrsInv /\ ReadInv /\ FileRight /\ tree \in Seq(DrsRow)
      /\ (dInput.dat /\ Drs!Pixels /\ Drs!Recognized => TrackSoFar) /\ Drs!TrackOfOwnEvent
  BY DEF TrackInv, RowsInv, DrsInv, ReadInv
<1>2. RowsInv' /\ dInput' = dInput
  BY <1>1, RowsStep
<1>3. F' = F /\ (Drs!Pixels' <=> Drs!Pixels) /\ (Drs!Recognized' <=> Drs!Recognized)
      /\ \A e, b : ZeroBehind(e, b)' <=> ZeroBehind(e, b)
  BY <1>2, FileAfter, RecognizedAfter
<1>4. ASSUME TrackSoFar \/ ~(dInput.dat /\ Drs!Pixels /\ Drs!Recognized), tree' = tree,
             dInput.dat /\ Drs!Pixels /\ Drs!Recognized => TrackSoFar'
      PROVE  TrackInv' /\ dInput' = dInput
  <2>1. Drs!TrackOfOwnEvent'
    BY <1>1, <1>3, <1>4 DEF Drs!TrackOfOwnEvent, Drs!Range
  <2> QED
    BY <1>2, <1>3, <1>4, <2>1 DEF TrackInv
<1>5. Begun \/ GoesOn \/ (\E n \in {1, 3} : GivenUpHere(n)) \/ Drs!Fill \/ Drs!RootEvent \/ Stopped
  BY <1>1, StepKinds
<1>6. CASE Begun
  <2>1. dPlace = "event" /\ dPlace' \in BeingRead /\ dPlace' # "event" /\ start' = pos /\ iEvent' = iEvent /\ tree' = tree
        /\ ~(Len(F) - pos < 4)
    <3>1. Len(F) \in Nat /\ pos \in 0 .. Len(F)
      BY <1>1, FileFacts DEF ReadInv
    <3>2. pos + 4 <= Len(F)
      BY <1>6 DEF Begun
    <3>3. ~(Len(F) - pos < 4)
      BY <3>1, <3>2
    <3> QED
      BY <1>6, <3>3 DEF Begun, BeingRead
  <2>2. ASSUME TrackSoFar PROVE TrackSoFar'
    <3>1. ZeroBehind(iEvent + 1, pos)
      BY <2>1, <2>2 DEF TrackSoFar
    <3>2. ZeroBehind(iEvent + 1, start)'
      BY <1>3, <2>1, <3>1 DEF ZeroBehind
    <3> QED
      BY <2>1, <3>2 DEF TrackSoFar
  <2> QED
    BY <1>1, <1>4, <2>1, <2>2
<1>7. CASE GoesOn
  <2>1. dPlace \in BeingRead /\ dPlace' \in BeingRead /\ dPlace' # "event" /\ start' = start /\ iEvent' = iEvent /\ tree' = tree
    BY <1>7 DEF GoesOn, BeingRead
  <2>2. ASSUME TrackSoFar PROVE TrackSoFar'
    <3>1. ZeroBehind(iEvent + 1, start)
      BY <2>1, <2>2 DEF TrackSoFar
    <3>2. ZeroBehind(iEvent + 1, start)'
      BY <1>3, <2>1, <3>1 DEF ZeroBehind
    <3> QED
      BY <2>1, <3>2 DEF TrackSoFar
  <2> QED
    BY <1>1, <1>4, <2>1, <2>2
<1>8. CASE \E n \in {1, 3} : GivenUpHere(n)
  <2>1. PICK n \in {1, 3} : GivenUpHere(n)
    BY <1>8
  <2>2. dPlace' = "event" /\ dPlace' \notin BeingRead /\ iEvent' = iEvent + 1 /\ tree' = tree
    BY <2>1 DEF GivenUpHere, GaveUp, BeingRead
  <2>3. ASSUME TrackSoFar, Drs!Recognized PROVE TrackSoFar'
    <3>1. Len(F) - pos' < 4 \/ ZeroBehind(iEvent + 1 + 1, pos')
      BY <1>1, <2>1, <2>3, GivenUpTrack
    <3>2. (Len(F) - pos < 4 \/ ZeroBehind(iEvent + 1, pos))'
      BY <1>3, <2>2, <3>1 DEF ZeroBehind
    <3> QED
      BY <2>2, <3>2 DEF TrackSoFar
  <2> QED
    BY <1>1, <1>4, <2>2, <2>3
<1>9. CASE Stopped
  <2>1. dPlace' = "closed" /\ dPlace' \notin BeingRead /\ tree' = tree
    BY <1>9 DEF Stopped, BeingRead
  <2>2. TrackSoFar'
    BY <2>1 DEF TrackSoFar
  <2> QED
    BY <1>1, <1>4, <2>1, <2>2
<1>10. ASSUME NEW r, tree' = Append(tree, r), Drs!Recognized => (r.of # 0 => r.track = r.of - 1)
       PROVE  Drs!TrackOfOwnEvent'
  <2>1. Len(tree) \in Nat /\ DOMAIN tree' = 1 .. Len(tree) + 1 /\ DOMAIN tree = 1 .. Len(tree)
        /\ \A i \in 1 .. Len(tree) + 1 : tree'[i] = IF i <= Len(tree) THEN tree[i] ELSE r
    BY <1>1, <1>10
  <2>2. \A x \in Drs!Range(tree') : x \in Drs!Range(tree) \/ x = r
    <3>1. ASSUME NEW i \in DOMAIN tree' PROVE tree'[i] \in Drs!Range(tree) \/ tree'[i] = r
      <4>1. CASE i <= Len(tree)
        <5>1. i \in DOMAIN tree /\ tree'[i] = tree[i]
          BY <2>1, <3>1, <4>1
        <5> QED
          BY <5>1 DEF Drs!Range
      <4>2. CASE ~(i <= Len(tree))
        BY <2>1, <3>1, <4>2
      <4> QED
        BY <4>1, <4>2
    <3> QED
      BY <3>1 DEF Drs!Range
  <2>3. Drs!Recognized' => \A x \in Drs!Range(tree') : x.of # 0 => x.track = x.of - 1
    BY <1>1, <1>3, <1>10, <2>2, Zenon DEF Drs!TrackOfOwnEvent
  <2> QED
    BY <2>3 DEF Drs!TrackOfOwnEvent, Drs!Range
<1>11. CASE Drs!Fill
  <2>1. PICK r : r = [of |-> Drs!WholeEvent(words), track |-> iEvent, channel |-> channel]
    OBVIOUS
  <2>2. dPlace = "fill" /\ dPlace' = "event" /\ dPlace' \notin BeingRead /\ iEvent' = iEvent + 1 /\ pos' = pos
        /\ tree' = Append(tree, r) /\ dInput.dat /\ words \in Seq(Word) /\ Len(words) >= 4
    BY <1>1, <1>11, <2>1, FillIs DEF BeingRead
  <2>3. ASSUME Drs!Recognized, r.of # 0 PROVE r.of = iEvent + 1
    <3>1. CASE Drs!Pixels
      BY <1>1, <2>1, <2>2, <2>3, <3>1, StoredTrack
    <3>2. CASE ~Drs!Pixels
      <4>1. words[1] = <<iEvent + 1, 1>>
        BY <1>1, <2>2, <3>2, AllWhole DEF BeingRead
      <4>2. r.of = words[1][1]
        BY <1>1, <2>1, <2>2, <2>3, WholeEventType
      <4> QED
        BY <4>1, <4>2
    <3> QED
      BY <3>1, <3>2
  <2>4. Drs!TrackOfOwnEvent'
    <3>1. ASSUME Drs!Recognized, r.of # 0 PROVE r.track = r.of - 1
      <4>1. r.of = iEvent + 1 /\ r.track = iEvent
        BY <2>1, <2>3, <3>1
      <4>2. iEvent \in Nat
        BY <1>1, FileFacts DEF ReadInv
      <4> QED
        BY <4>1, <4>2
    <3> QED
      BY <1>10, <2>2, <3>1
  <2>5. ASSUME Drs!Pixels, Drs!Recognized PROVE TrackSoFar'
    <3>1. Len(F) - pos < 4 \/ ZeroBehind(iEvent + 1 + 1, pos)
      BY <1>1, <2>2, <2>5, StoredTrack
    <3>2. (Len(F) - pos < 4 \/ ZeroBehind(iEvent + 1, pos))'
      BY <1>3, <2>2, <3>1 DEF ZeroBehind
    <3> QED
      BY <2>2, <3>2 DEF TrackSoFar
  <2> QED
    BY <1>2, <1>3, <2>4, <2>5 DEF TrackInv
<1>12. CASE Drs!RootEvent
  <2>1. PICK r : r = [of |-> iEvent', track |-> iEvent, channel |-> channel']
    OBVIOUS
  <2>2. tree' = Append(tree, r) /\ ~dInput.dat /\ iEvent' = iEvent + 1
    BY <1>1, <1>12, <2>1, RootEventIs
  <2>3. r.track = r.of - 1
    <3>1. iEvent \in Nat
      BY <1>1, FileFacts DEF ReadInv
    <3> QED
      BY <2>1, <2>2, <3>1
  <2>4. Drs!TrackOfOwnEvent'
    BY <1>10, <2>2, <2>3
  <2> QED
    BY <1>2, <2>2, <2>4 DEF TrackInv
<1> QED
  BY <1>5, <1>6, <1>7, <1>8, <1>9, <1>11, <1>12

LEMMA TrackInit ==
  ASSUME OfflineInit
  PROVE  TrackInv
<1>1. RowsInv
  BY RowsInit
<1>2. FileRight /\ pos = 0 /\ iEvent = 0 /\ dPlace = Drs!Opened /\ tree = << >>
  BY FilesRight DEF OfflineInit, Drs!Begin
<1>3. dPlace \in {"event", "crashed"} /\ dPlace \notin BeingRead
  BY <1>2 DEF Drs!Opened, BeingRead
<1>4. Drs!TrackOfOwnEvent
  BY <1>2 DEF Drs!TrackOfOwnEvent, Drs!Range
<1>5. ASSUME Drs!Recognized PROVE Len(F) - pos < 4 \/ ZeroBehind(iEvent + 1, pos)
  <2>1. Len(F) \in Nat /\ NEvents \in Nat /\ Ascending(F)
    BY <1>2, FileFacts
  <2>2. CASE Len(F) = 0
    BY <1>2, <2>2
  <2>3. CASE Len(F) # 0
    <3>1. 1 \in 1 .. Len(F)
      BY <2>1, <2>3
    <3>2. F[1][1] \in 1 .. NEvents /\ F[1][2] \in Nat /\ F[1][2] >= 1
      BY <1>2, <3>1, FileFacts
    <3>3. 1 \in 1 .. NEvents
      BY <2>1, <3>2
    <3>4. PICK z \in 1 .. Len(F) : F[z] = <<1, 3>>
      BY <1>2, <1>5, <3>3, ZeroThere
    <3>5. F[z][1] = 1 /\ F[z][2] = 3 /\ 1 <= z
      BY <2>1, <3>4
    <3>6. F[1][1] = 1
      <4>1. CASE z = 1
        BY <3>5, <4>1
      <4>2. CASE 1 < z
        <5>1. F[1][1] < F[z][1] \/ (F[1][1] = F[z][1] /\ F[1][2] < F[z][2])
          BY <2>1, <3>1, <4>2, WordsInOrder
        <5> QED
          BY <3>2, <3>5, <5>1
      <4> QED
        BY <2>1, <3>5, <4>1, <4>2
    <3>7. z - 1 <= F[z][2] - F[1][2]
      BY <2>1, <3>1, <3>5, <3>6, PlacesApart
    <3>8. 0 < z /\ z <= 3
      BY <2>1, <3>2, <3>5, <3>7
    <3> QED
      BY <1>2, <3>4, <3>8 DEF ZeroBehind
  <2> QED
    BY <2>2, <2>3
<1>6. Drs!Recognized => TrackSoFar
  BY <1>3, <1>5 DEF TrackSoFar
<1> QED
  BY <1>1, <1>4, <1>6 DEF TrackInv

LEMMA TrackUnchanged ==
  ASSUME TrackInv, UNCHANGED drsVars
  PROVE  TrackInv'
<1>1. dInput' = dInput /\ pos' = pos /\ dPlace' = dPlace /\ start' = start /\ iEvent' = iEvent /\ tree' = tree
  BY DEF drsVars
<1>2. RowsInv'
  BY DrsUnchanged DEF TrackInv
<1>3. F' = F /\ (Drs!Pixels' <=> Drs!Pixels) /\ (Drs!Recognized' <=> Drs!Recognized)
  BY <1>1, FileAfter, RecognizedAfter
<1>4. TrackSoFar => TrackSoFar'
  BY <1>1, <1>3 DEF TrackSoFar, ZeroBehind
<1>5. Drs!TrackOfOwnEvent'
  BY <1>1, <1>3 DEF TrackInv, Drs!TrackOfOwnEvent, Drs!Range
<1> QED
  BY <1>1, <1>2, <1>3, <1>4, <1>5 DEF TrackInv

----------------------------------------------------------------------------
(* The samples and the times of the rows. *)

\* The times of a group are those of an event of which there are words up to b.
Old(c, b) == c.times = 0 \/ \E i \in 1 .. Len(F) : i <= b /\ F[i][1] = c.times

\* A group whose samples of this event have been read and analysed.
Finished(g) == g \in On /\ ~((\E n \in DOMAIN groups : groups[n] = g) /\ ~(dPlace = "trailer" /\ g = Head(groups)))

\* A group with the samples of event e, and times of it or, without a pulse, of before.
OfThisEvent(c, e, g) == c.samples = e /\ (c.times = e \/ (<<e, g>> \in dInput.flat /\ Old(c, start)))
\* The groups while an event is read, at every place, and those of datroot2root.
ValuesRead ==
  /\ \A n \in DOMAIN groups : groups[n] \in On
  /\ \A g \in {0, 1} :
       IF Finished(g) THEN OfThisEvent(channel[g], words[1][1], g)
       ELSE Old(channel[g], start) /\ (~Drs!Pixels => channel[g].samples = Drs!LastWith(iEvent, g))
ValuesSoFar ==
  /\ dPlace = "event" =>
       \A g \in {0, 1} : Old(channel[g], pos) /\ (~Drs!Pixels => channel[g].samples = Drs!LastWith(iEvent, g))
  /\ dPlace \in BeingRead => ValuesRead
RootValues ==
  \A g \in {0, 1} : channel[g].times <= iEvent /\ channel[g].samples = Drs!LastWith(iEvent, g)
\* The inductive part about samples and times.
ValueInv ==
  /\ RowsInv
  /\ IF dInput.dat THEN ValuesSoFar ELSE iEvent <= NEvents /\ RootValues
  /\ Drs!ValuesOfOwnEvent

\* What a row has to have.
RowValues(r) ==
  r.of # 0 => \A g \in {0, 1} :
    /\ ~Drs!Pixels => r.channel[g].samples = Drs!LastWith(r.of, g)
    /\ g \in dInput.groups[r.of] =>
         /\ r.channel[g].samples = r.of
         /\ r.channel[g].times = r.of \/ (<<r.of, g>> \in dInput.flat /\ r.channel[g].times < r.of)

LEMMA RowValuesAre == Drs!ValuesOfOwnEvent <=> \A r \in Drs!Range(tree) : RowValues(r)
  BY DEF Drs!ValuesOfOwnEvent, RowValues, Drs!Group, Drs!Pixels

LEMMA ValuesAfter ==
  ASSUME dInput' = dInput
  PROVE  /\ \A e, g : Drs!LastWith(e, g)' = Drs!LastWith(e, g)
         /\ \A r : RowValues(r)' <=> RowValues(r)
         /\ \A c, b : Old(c, b)' <=> Old(c, b)
  BY DEF Drs!LastWith, RowValues, Drs!Pixels, Old, F, Drs!Max

\* One row more.
LEMMA RowAppended ==
  ASSUME DrsInv, dInput' = dInput, Drs!ValuesOfOwnEvent, NEW r, tree' = Append(tree, r), RowValues(r)
  PROVE  Drs!ValuesOfOwnEvent'
<1>1. tree \in Seq(DrsRow)
  BY DEF DrsInv
<1>2. Len(tree) \in Nat /\ DOMAIN tree' = 1 .. Len(tree) + 1 /\ DOMAIN tree = 1 .. Len(tree)
      /\ \A i \in 1 .. Len(tree) + 1 : tree'[i] = IF i <= Len(tree) THEN tree[i] ELSE r
  BY <1>1
<1>3. ASSUME NEW i \in DOMAIN tree' PROVE tree'[i] \in Drs!Range(tree) \/ tree'[i] = r
  <2>1. CASE i <= Len(tree)
    <3>1. i \in DOMAIN tree /\ tree'[i] = tree[i]
      BY <1>2, <1>3, <2>1
    <3> QED
      BY <3>1 DEF Drs!Range
  <2>2. CASE ~(i <= Len(tree))
    BY <1>2, <1>3, <2>2
  <2> QED
    BY <2>1, <2>2
<1>4. \A x \in Drs!Range(tree') : RowValues(x)
  <2>1. \A i \in DOMAIN tree' : RowValues(tree'[i])
    BY <1>3, RowValuesAre, Zenon
  <2> QED
    BY <2>1 DEF Drs!Range
<1>5. \A e, g : Drs!LastWith(e, g)' = Drs!LastWith(e, g)
  BY ValuesAfter
<1>6. (\A x \in Drs!Range(tree) : RowValues(x))'
  <2>1. \A x : RowValues(x) => RowValues(x)'
    BY <1>5 DEF RowValues, Drs!Pixels
  <2> QED
    BY <1>4, <2>1 DEF Drs!Range
<1> QED
  BY <1>5, <1>6 DEF RowValues, Drs!ValuesOfOwnEvent, Drs!Group, Drs!Pixels

\* Further on in the file, what is old is old; so is what was read since.
LEMMA OldLater ==
  ASSUME FileRight, NEW b \in Nat, NEW c \in Nat, b <= c, NEW v
  PROVE  Old(v, b) => Old(v, c)
<1>1. Len(F) \in Nat
  BY FileFacts
<1> QED
  BY <1>1 DEF Old

LEMMA ReadIsOld ==
  ASSUME DrsInv, EventRead, dPlace \in BeingRead, NEW g \in {0, 1}, ValuesRead, NEW c \in Nat, start + 1 <= c
  PROVE  Old(channel[g], c)
<1>1. FileRight /\ Len(F) \in Nat /\ start \in Nat /\ start + 4 <= Len(F) /\ words[1] = F[start + 1]
  <2>1. FileRight /\ start \in 0 .. Len(F)
    BY DEF DrsInv, ReadInv
  <2>2. Len(F) \in Nat
    BY <2>1, FileFacts
  <2>3. words[1] = F[start + 1]
    BY DEF EventRead, WordsRead
  <2> QED
    BY <2>1, <2>2, <2>3 DEF EventRead
<1>2. Old(channel[g], start) \/ channel[g].times = words[1][1]
  BY DEF ValuesRead, OfThisEvent
<1>3. start <= c
  BY <1>1
<1>4. CASE Old(channel[g], start)
  BY <1>1, <1>3, <1>4, OldLater
<1>5. CASE channel[g].times = words[1][1]
  <2>1. start + 1 \in 1 .. Len(F)
    BY <1>1
  <2> QED
    BY <1>1, <1>5, <2>1 DEF Old
<1> QED
  BY <1>2, <1>4, <1>5

\* The values of a row that is stored are those of its event.
LEMMA StoredValues ==
  ASSUME RowsInv, dPlace = "fill", dInput.dat, ValuesRead
  PROVE  /\ RowValues([of |-> Drs!WholeEvent(words), track |-> iEvent, channel |-> channel])
         /\ ~Drs!Pixels => \A g \in {0, 1} : channel[g].samples = Drs!LastWith(iEvent + 1, g)
<1>1. DrsInv /\ ReadInv /\ EventRead /\ FileRight /\ Len(F) \in Nat /\ NEvents \in Nat /\ start \in 0 .. Len(F)
      /\ channel \in [{0, 1} -> ChannelValue] /\ dPlace \in BeingRead /\ Ascending(F)
  BY FileFacts DEF RowsInv, DrsInv, ReadInv, BeingRead
<1>2. words \in Seq(Word) /\ Len(words) >= 4 /\ (\A p \in 1 .. 4 : words[p] = F[start + p]) /\ start + 4 <= Len(F)
      /\ start \in Nat
  BY <1>1 DEF EventRead, WordsRead
<1>3. \A g : Finished(g) <=> g \in On
  <2>1. groups = << >>
    BY <1>1 DEF EventRead, Progress
  <2>2. DOMAIN groups = {}
    BY <2>1
  <2> QED
    BY <2>2 DEF Finished
<1>4. ASSUME NEW f \in 1 .. NEvents, words[1] = <<f, 1>>, words[2] = <<f, 2>>, NEW g \in {0, 1}, g \in dInput.groups[f]
      PROVE  /\ channel[g].samples = f
             /\ channel[g].times = f \/ (<<f, g>> \in dInput.flat /\ channel[g].times < f)
  <2>1. g \in On
    BY <1>4 DEF On
  <2>2. OfThisEvent(channel[g], f, g)
    <3>1. words[1][1] = f
      BY <1>4
    <3> QED
      BY <1>3, <2>1, <3>1 DEF ValuesRead
  <2>3. ASSUME Old(channel[g], start) PROVE channel[g].times < f
    <3>1. CASE channel[g].times = 0
      BY <1>1, <1>4, <3>1
    <3>2. CASE \E i \in 1 .. Len(F) : i <= start /\ F[i][1] = channel[g].times
      <4>1. PICK i \in 1 .. Len(F) : i <= start /\ F[i][1] = channel[g].times
        BY <3>2
      <4>2. PICK j \in 1 .. Len(F) : j = start + 1
        BY <1>1, <1>2
      <4>3. F[j] = <<f, 1>> /\ i < j
        BY <1>1, <1>2, <1>4, <4>1, <4>2
      <4>4. F[i][1] < F[j][1] \/ (F[i][1] = F[j][1] /\ F[i][2] < F[j][2])
        BY <1>1, <4>3, WordsInOrder
      <4>5. F[i][2] \in Nat /\ F[i][2] >= 1 /\ F[j][1] = f /\ F[j][2] = 1
        BY <1>1, <4>3, FileFacts
      <4> QED
        BY <4>1, <4>4, <4>5
    <3> QED
      BY <2>3, <3>1, <3>2 DEF Old
  <2> QED
    BY <2>2, <2>3 DEF OfThisEvent
<1>5. ASSUME ~Drs!Pixels
      PROVE  /\ iEvent + 1 \in 1 .. NEvents /\ words[1] = <<iEvent + 1, 1>> /\ words[2] = <<iEvent + 1, 2>>
             /\ \A g \in {0, 1} : channel[g].samples = Drs!LastWith(iEvent + 1, g)
  <2>1. iEvent + 1 \in 1 .. NEvents /\ words[1] = <<iEvent + 1, 1>> /\ words[2] = <<iEvent + 1, 2>>
    BY <1>1, <1>5, AllWhole
  <2>2. iEvent \in Nat
    BY <1>1, FileFacts DEF ReadInv
  <2>3. PICK f \in 1 .. NEvents : f = iEvent + 1 /\ f \in 0 .. NEvents /\ f - 1 = iEvent
    BY <1>1, <2>1, <2>2
  <2>4. ASSUME NEW g \in {0, 1} PROVE channel[g].samples = Drs!LastWith(f, g)
    <3>1. CASE g \in dInput.groups[f]
      <4>1. channel[g].samples = f
        BY <1>4, <2>1, <2>3, <3>1
      <4> QED
        BY <1>1, <2>3, <3>1, <4>1, LastWithIs
    <3>2. CASE g \notin dInput.groups[f]
      <4>1. g \notin On
        <5>1. words[2][1] = f
          BY <2>1, <2>3
        <5> QED
          BY <1>5, <3>2, <5>1 DEF On
      <4>2. channel[g].samples = Drs!LastWith(iEvent, g)
        BY <1>3, <1>5, <4>1 DEF ValuesRead
      <4>3. Drs!LastWith(f, g) = Drs!LastWith(f - 1, g)
        BY <1>1, <2>3, <3>2, LastWithIs
      <4> QED
        BY <2>3, <4>2, <4>3
    <3> QED
      BY <3>1, <3>2
  <2> QED
    BY <2>1, <2>3, <2>4
<1>6. ASSUME Drs!WholeEvent(words) # 0
      PROVE  \A g \in {0, 1} :
               /\ ~Drs!Pixels => channel[g].samples = Drs!LastWith(Drs!WholeEvent(words), g)
               /\ g \in dInput.groups[Drs!WholeEvent(words)] =>
                    /\ channel[g].samples = Drs!WholeEvent(words)
                    /\ channel[g].times = Drs!WholeEvent(words)
                       \/ (<<Drs!WholeEvent(words), g>> \in dInput.flat /\ channel[g].times < Drs!WholeEvent(words))
  <2>1. PICK f \in 1 .. NEvents : f = Drs!WholeEvent(words)
    <3>1. Drs!WholeEvent(words) \in 0 .. NEvents
      BY <1>1, <1>2, WholeEventType
    <3> QED
      BY <1>1, <1>6, <3>1
  <2>2. \A p \in 1 .. 4 : words[p] = <<f, p>>
    BY <1>1, <1>2, <1>6, <2>1, WholeEventType
  <2>3. words[1] = <<f, 1>> /\ words[2] = <<f, 2>>
    BY <2>2
  <2>4. ~Drs!Pixels => f = iEvent + 1
    BY <1>5, <2>3
  <2>5. ~Drs!Pixels => \A g \in {0, 1} : channel[g].samples = Drs!LastWith(f, g)
    BY <1>5, <2>4
  <2> QED
    BY <1>4, <2>1, <2>3, <2>5
<1> QED
  BY <1>5, <1>6 DEF RowValues

\* Each kind of step keeps them.
LEMMA BegunValues ==
  ASSUME DrsInv, Begun, dInput' = dInput, ValuesSoFar
  PROVE  ValuesRead'
<1>1. /\ dPlace = "event" /\ start' = pos /\ iEvent' = iEvent /\ channel' = channel /\ dPlace' # "trailer"
      /\ groups' = Drs!InTurn(On') /\ On' \in SUBSET {0, 1}
  BY DEF Begun
<1>2. {groups'[n] : n \in DOMAIN groups'} = On'
  BY <1>1, TurnsOf
<1>3. (\A n \in DOMAIN groups : groups[n] \in On)'
  BY <1>2
<1>4. \A g : ~Finished(g)'
  <2>1. \A g \in On' : \E n \in DOMAIN groups' : groups'[n] = g
    BY <1>2
  <2> QED
    BY <1>1, <2>1 DEF Finished
<1>5. /\ \A e, g : Drs!LastWith(e, g)' = Drs!LastWith(e, g)
      /\ \A c, b : Old(c, b)' <=> Old(c, b)
  BY ValuesAfter
<1>6. \A g \in {0, 1} : Old(channel[g], pos) /\ (~Drs!Pixels => channel[g].samples = Drs!LastWith(iEvent, g))
  BY <1>1 DEF ValuesSoFar
<1>7. (\A g \in {0, 1} : Old(channel[g], start) /\ (~Drs!Pixels => channel[g].samples = Drs!LastWith(iEvent, g)))'
  <2>1. F' = F /\ (Drs!Pixels' <=> Drs!Pixels)
    BY FileAfter
  <2>2. (\A g \in {0, 1} : Old(channel[g], start))'
    BY <1>1, <1>6, <2>1 DEF Old
  <2>3. (\A g \in {0, 1} : ~Drs!Pixels => channel[g].samples = Drs!LastWith(iEvent, g))'
    BY <1>1, <1>5, <1>6, <2>1
  <2> QED
    BY <2>2, <2>3
<1> QED
  BY <1>3, <1>4, <1>7 DEF ValuesRead

LEMMA TurnsApart ==
  ASSUME NEW gs \in Turns, gs # << >>, NEW g
  PROVE  (\E n \in DOMAIN Tail(gs) : Tail(gs)[n] = g) <=> (\E n \in DOMAIN gs : gs[n] = g) /\ g # Head(gs)
<1>1. Tail(<<0>>) = << >> /\ Tail(<<1>>) = << >> /\ Tail(<<0, 1>>) = <<1>> /\ Head(<<0>>) = 0 /\ Head(<<1>>) = 1 /\ Head(<<0, 1>>) = 0
  OBVIOUS
<1>2. /\ ~ \E n \in DOMAIN << >> : (<< >>)[n] = g
      /\ (\E n \in DOMAIN <<0>> : (<<0>>)[n] = g) <=> g = 0
      /\ (\E n \in DOMAIN <<1>> : (<<1>>)[n] = g) <=> g = 1
      /\ (\E n \in DOMAIN <<0, 1>> : (<<0, 1>>)[n] = g) <=> g = 0 \/ g = 1
  <2>1. DOMAIN << >> = {} /\ DOMAIN <<0>> = {1} /\ DOMAIN <<1>> = {1} /\ DOMAIN <<0, 1>> = {1, 2}
    OBVIOUS
  <2>2. (<<0>>)[1] = 0 /\ (<<1>>)[1] = 1 /\ (<<0, 1>>)[1] = 0 /\ (<<0, 1>>)[2] = 1
    OBVIOUS
  <2> QED
    BY <2>1, <2>2
<1>3. CASE gs = <<0>>
  BY <1>1, <1>2, <1>3
<1>4. CASE gs = <<1>>
  BY <1>1, <1>2, <1>4
<1>5. CASE gs = <<0, 1>>
  BY <1>1, <1>2, <1>5
<1> QED
  BY <1>3, <1>4, <1>5 DEF Turns

LEMMA GoneOnValues ==
  ASSUME DrsInv, GoesOn, Drs!Next, dInput' = dInput, ValuesRead
  PROVE  ValuesRead'
<1>1. dPlace \in BeingRead /\ start' = start /\ iEvent' = iEvent /\ words'[1] = words[1] /\ words'[2] = words[2]
  BY DEF GoesOn
<1>2. EventRead /\ groups \in Turns /\ (dPlace = "fill" <=> groups = << >>) /\ channel \in [{0, 1} -> ChannelValue]
  BY <1>1 DEF DrsInv, ReadInv, EventRead, Progress
<1>3. F' = F /\ (Drs!Pixels' <=> Drs!Pixels) /\ \A e, g : Drs!LastWith(e, g)' = Drs!LastWith(e, g)
  BY FileAfter, ValuesAfter
<1>4. On' = On
  BY <1>1, <1>3 DEF On
<1>5. ASSUME \A n \in DOMAIN groups' : \E m \in DOMAIN groups : groups[m] = groups'[n]
      PROVE  (\A n \in DOMAIN groups : groups[n] \in On)'
  BY <1>4, <1>5 DEF ValuesRead
<1>6. ASSUME NEW g \in {0, 1}, channel'[g] = channel[g], Finished(g)' <=> Finished(g)
      PROVE  (IF Finished(g) THEN OfThisEvent(channel[g], words[1][1], g)
              ELSE Old(channel[g], start) /\ (~Drs!Pixels => channel[g].samples = Drs!LastWith(iEvent, g)))'
  <2>1. IF Finished(g) THEN OfThisEvent(channel[g], words[1][1], g)
        ELSE Old(channel[g], start) /\ (~Drs!Pixels => channel[g].samples = Drs!LastWith(iEvent, g))
    BY DEF ValuesRead
  <2>2. CASE Finished(g)
    BY <1>1, <1>3, <1>6, <2>1, <2>2 DEF OfThisEvent, Old
  <2>3. CASE ~Finished(g)
    BY <1>1, <1>3, <1>6, <2>1, <2>3 DEF Old
  <2> QED
    BY <2>2, <2>3
<1>7. CASE channel' = channel /\ groups' = groups /\ dPlace # "trailer" /\ dPlace' # "trailer"
  <2>1. \A g : Finished(g)' <=> Finished(g)
    BY <1>4, <1>7 DEF Finished
  <2>2. (\A n \in DOMAIN groups : groups[n] \in On)'
    BY <1>5, <1>7
  <2> QED
    BY <1>6, <1>7, <2>1, <2>2 DEF ValuesRead
<1>8. CASE channel' = channel /\ dPlace = "trailer" /\ dPlace' # "trailer" /\ groups' = Tail(groups)
  <2>1. groups # << >>
    BY <1>2, <1>8
  <2>2. \A g : (\E n \in DOMAIN groups' : groups'[n] = g) <=> (\E n \in DOMAIN groups : groups[n] = g) /\ g # Head(groups)
    BY <1>2, <1>8, <2>1, TurnsApart
  <2>3. \A g : Finished(g)' <=> Finished(g)
    BY <1>4, <1>8, <2>2 DEF Finished
  <2>4. (\A n \in DOMAIN groups : groups[n] \in On)'
    BY <1>5, <2>2
  <2> QED
    BY <1>6, <1>8, <2>3, <2>4 DEF ValuesRead
<1>9. CASE /\ dPlace = "channels" /\ dPlace' = "trailer" /\ groups' = groups /\ Head(groups) \in {0, 1} /\ groups # << >>
           /\ channel' = [channel EXCEPT ![Head(groups)] = Drs!Analysed(words[1][1], Head(groups), words[1][1])]
  <2>1. PICK h \in {0, 1} : h = Head(groups)
    BY <1>9
  <2>2. h \in On /\ \E n \in DOMAIN groups : groups[n] = h
    <3>1. 1 \in DOMAIN groups /\ groups[1] = Head(groups)
      <4>1. groups = <<0>> \/ groups = <<1>> \/ groups = <<0, 1>>
        BY <1>2, <1>9 DEF Turns
      <4> QED
        BY <4>1
    <3> QED
      BY <2>1, <3>1 DEF ValuesRead
  <2>3. ~Finished(h) /\ Finished(h)'
    BY <1>4, <1>9, <2>1, <2>2 DEF Finished
  <2>4. \A g : g # h => (Finished(g)' <=> Finished(g))
    BY <1>4, <1>9, <2>1 DEF Finished
  <2>5. \A g \in {0, 1} : g # h => channel'[g] = channel[g]
    BY <1>2, <1>9, <2>1
  <2>6. OfThisEvent(channel[h], words[1][1], h)'
    <3>1. PICK e : e = words[1][1]
      OBVIOUS
    <3>2. channel'[h] = [samples |-> e, times |-> IF <<e, h>> \in dInput.flat THEN channel[h].times ELSE e]
      BY <1>2, <1>9, <2>1, <3>1 DEF Drs!Analysed
    <3>3. Old(channel[h], start)
      BY <2>3 DEF ValuesRead
    <3>4. channel'[h].samples = e
      BY <3>2
    <3>5. CASE <<e, h>> \in dInput.flat
      <4>1. channel'[h].times = channel[h].times
        BY <3>2, <3>5
      <4>2. Old(channel[h], start)'
        BY <1>1, <1>3, <3>3, <4>1 DEF Old
      <4> QED
        BY <1>1, <3>1, <3>4, <3>5, <4>2 DEF OfThisEvent
    <3>6. CASE <<e, h>> \notin dInput.flat
      <4>1. channel'[h].times = e
        BY <3>2, <3>6
      <4> QED
        BY <1>1, <3>1, <3>4, <4>1 DEF OfThisEvent
    <3> QED
      BY <3>5, <3>6
  <2>7. (\A n \in DOMAIN groups : groups[n] \in On)'
    BY <1>5, <1>9
  <2>8. ASSUME NEW g \in {0, 1}
        PROVE  (IF Finished(g) THEN OfThisEvent(channel[g], words[1][1], g)
                ELSE Old(channel[g], start) /\ (~Drs!Pixels => channel[g].samples = Drs!LastWith(iEvent, g)))'
    <3>1. CASE g = h
      BY <2>3, <2>6, <3>1
    <3>2. CASE g # h
      BY <1>6, <2>4, <2>5, <3>2
    <3> QED
      BY <3>1, <3>2
  <2> QED
    BY <2>7, <2>8 DEF ValuesRead
<1> QED
  BY <1>7, <1>8, <1>9, ChannelsIs

LEMMA RootRow ==
  ASSUME DrsInv, Drs!RootEvent, iEvent <= NEvents, RootValues, Drs!ValuesOfOwnEvent, dInput' = dInput
  PROVE  iEvent' <= NEvents /\ RootValues' /\ Drs!ValuesOfOwnEvent'
<1>1. ReadInv /\ FileRight /\ NEvents \in Nat /\ channel \in [{0, 1} -> ChannelValue]
  BY FileFacts DEF DrsInv, ReadInv
<1>2. /\ iEvent' = iEvent + 1 /\ iEvent' \in 1 .. NEvents
      /\ channel' = [g \in {0, 1} |-> IF Drs!LastWith(iEvent', g) > 0
                                      THEN Drs!Analysed(iEvent', g, Drs!LastWith(iEvent', g)) ELSE channel[g]]
      /\ tree' = Append(tree, [of |-> iEvent', track |-> iEvent, channel |-> channel'])
  BY <1>1, RootEventIs
<1>3. PICK e \in 1 .. NEvents : e = iEvent' /\ e - 1 = iEvent /\ e \in 0 .. NEvents /\ e - 1 \in 0 .. NEvents
  <2>1. iEvent \in Nat
    BY <1>1, FileFacts DEF ReadInv
  <2> QED
    BY <1>1, <1>2, <2>1
<1>4. ASSUME NEW g \in {0, 1}
      PROVE  /\ channel'[g].samples = Drs!LastWith(e, g) /\ channel'[g].times <= e
             /\ g \in dInput.groups[e] =>
                  channel'[g].samples = e /\ (channel'[g].times = e \/ (<<e, g>> \in dInput.flat /\ channel'[g].times < e))
  <2>1. channel'[g] = IF Drs!LastWith(e, g) > 0 THEN Drs!Analysed(e, g, Drs!LastWith(e, g)) ELSE channel[g]
    BY <1>2, <1>3
  <2>2. PICK l \in Nat, p \in Nat, t \in Nat : l = Drs!LastWith(e, g) /\ p = Drs!LastWith(e - 1, g) /\ t = channel[g].times
    <3>1. channel[g] \in ChannelValue
      BY <1>1
    <3>2. channel[g].times \in Nat
      BY <1>1, <3>1 DEF ChannelValue
    <3>3. Drs!LastWith(e, g) \in 0 .. e /\ Drs!LastWith(e - 1, g) \in 0 .. e - 1
      BY <1>1, <1>3, LastWithIs
    <3> QED
      BY <3>2, <3>3
  <2>3. /\ l <= e /\ (g \in dInput.groups[e] => l = e) /\ (g \notin dInput.groups[e] => l = p)
    <3>1. /\ Drs!LastWith(e, g) \in 0 .. e /\ (g \in dInput.groups[e] => Drs!LastWith(e, g) = e)
          /\ (g \notin dInput.groups[e] => Drs!LastWith(e, g) = Drs!LastWith(e - 1, g))
      BY <1>1, <1>3, LastWithIs
    <3> QED
      BY <2>2, <3>1
  <2>4. t <= e - 1 /\ channel[g].samples = p
    BY <1>3, <2>2 DEF RootValues
  <2>5. CASE l > 0
    <3>1. channel'[g] = [samples |-> l, times |-> IF <<e, g>> \in dInput.flat THEN t ELSE l]
      BY <2>1, <2>2, <2>5 DEF Drs!Analysed
    <3>2. channel'[g].samples = l /\ channel'[g].times = IF <<e, g>> \in dInput.flat THEN t ELSE l
      BY <3>1
    <3> QED
      BY <2>2, <2>3, <2>4, <3>2
  <2>6. CASE ~(l > 0)
    <3>1. l = 0 /\ channel'[g] = channel[g] /\ g \notin dInput.groups[e]
      BY <2>1, <2>2, <2>3, <2>6
    <3> QED
      BY <2>2, <2>3, <2>4, <3>1
  <2> QED
    BY <2>2, <2>5, <2>6
<1>5. PICK r : r = [of |-> e, track |-> iEvent, channel |-> channel']
  OBVIOUS
<1>6. RowValues(r)
  <2>1. r.of = e /\ r.channel = channel'
    BY <1>5
  <2> QED
    BY <1>4, <2>1 DEF RowValues
<1>7. Drs!ValuesOfOwnEvent'
  BY <1>2, <1>3, <1>5, <1>6, RowAppended
<1>8. RootValues'
  <2>1. \A x, g : Drs!LastWith(x, g)' = Drs!LastWith(x, g)
    BY ValuesAfter
  <2> QED
    BY <1>3, <1>4, <2>1 DEF RootValues
<1> QED
  BY <1>2, <1>7, <1>8

LEMMA ValueStep ==
  ASSUME ValueInv, Drs!Next
  PROVE  ValueInv' /\ dInput' = dInput
<1>1. RowsInv /\ DrsInv /\ ReadInv /\ FileRight /\ Drs!ValuesOfOwnEvent /\ tree \in Seq(DrsRow)
      /\ (dInput.dat => ValuesSoFar) /\ (~dInput.dat => iEvent <= NEvents /\ RootValues)
  BY DEF ValueInv, RowsInv, DrsInv, ReadInv
<1>2. RowsInv' /\ dInput' = dInput
  BY <1>1, RowsStep
<1>3. /\ F' = F /\ NEvents' = NEvents /\ (Drs!Pixels' <=> Drs!Pixels)
      /\ \A e, g : Drs!LastWith(e, g)' = Drs!LastWith(e, g)
      /\ \A c, b : Old(c, b)' <=> Old(c, b)
  BY <1>2, FileAfter, ValuesAfter
<1>4. ASSUME tree' = tree PROVE Drs!ValuesOfOwnEvent'
  BY <1>1, <1>2, <1>3, <1>4 DEF Drs!ValuesOfOwnEvent, Drs!Range, Drs!Group
<1>5. dPlace \in BeingRead => dInput.dat /\ EventRead
  BY <1>1 DEF ReadInv, EventRead
<1>6. Begun \/ GoesOn \/ (\E n \in {1, 3} : GivenUpHere(n)) \/ Drs!Fill \/ Drs!RootEvent \/ Stopped
  BY <1>1, StepKinds
<1>7. CASE Begun
  <2>1. ValuesRead'
    BY <1>1, <1>2, <1>7, BegunValues DEF Begun
  <2>2. dInput.dat /\ dPlace' # "event" /\ tree' = tree
    BY <1>7 DEF Begun, BeingRead
  <2> QED
    BY <1>2, <1>4, <2>1, <2>2 DEF ValueInv, ValuesSoFar
<1>8. CASE GoesOn
  <2>1. dPlace \in BeingRead /\ dPlace' # "event" /\ tree' = tree
    BY <1>8 DEF GoesOn, BeingRead
  <2>2. ValuesRead'
    BY <1>1, <1>2, <1>5, <1>8, <2>1, GoneOnValues DEF ValuesSoFar
  <2> QED
    BY <1>2, <1>4, <1>5, <2>1, <2>2 DEF ValueInv, ValuesSoFar
<1>9. ASSUME dPlace \in BeingRead, dPlace' = "event", channel' = channel, pos' \in Nat, start + 1 <= pos',
             ~Drs!Pixels => \A g \in {0, 1} : channel[g].samples = Drs!LastWith(iEvent', g), Drs!ValuesOfOwnEvent'
      PROVE  ValueInv' /\ dInput' = dInput
  <2>1. ValuesRead /\ EventRead
    BY <1>1, <1>5, <1>9 DEF ValuesSoFar
  <2>2. \A g \in {0, 1} : Old(channel[g], pos')
    BY <1>1, <1>9, <2>1, ReadIsOld
  <2>3. (\A g \in {0, 1} : Old(channel[g], pos) /\ (~Drs!Pixels => channel[g].samples = Drs!LastWith(iEvent, g)))'
    <3>1. (\A g \in {0, 1} : Old(channel[g], pos))'
      BY <1>3, <1>9, <2>2 DEF Old
    <3>2. (\A g \in {0, 1} : ~Drs!Pixels => channel[g].samples = Drs!LastWith(iEvent, g))'
      BY <1>3, <1>9
    <3> QED
      BY <3>1, <3>2
  <2>4. dPlace' \notin BeingRead
    BY <1>9 DEF BeingRead
  <2>5. ValuesSoFar'
    BY <2>3, <2>4 DEF ValuesSoFar
  <2> QED
    BY <1>2, <1>5, <1>9, <2>5 DEF ValueInv
<1>10. CASE \E n \in {1, 3} : GivenUpHere(n)
  <2>1. PICK n \in {1, 3} : GivenUpHere(n)
    BY <1>10
  <2>2. dPlace \in BeingRead /\ dPlace' = "event" /\ channel' = channel /\ tree' = tree /\ Drs!Pixels /\ start < pos'
    BY <2>1 DEF GivenUpHere, GaveUp, BeingRead
  <2>3. pos' \in Nat /\ start + 1 <= pos'
    <3>1. pos' \in 0 .. Len(F) /\ start \in 0 .. Len(F) /\ Len(F) \in Nat
      BY <1>1, <1>2, <1>3, FileFacts DEF RowsInv, DrsInv, ReadInv
    <3> QED
      BY <2>2, <3>1
  <2> QED
    BY <1>4, <1>9, <2>2, <2>3
<1>11. CASE Drs!Fill
  <2>1. PICK r : r = [of |-> Drs!WholeEvent(words), track |-> iEvent, channel |-> channel]
    OBVIOUS
  <2>2. /\ dPlace = "fill" /\ dPlace \in BeingRead /\ dPlace' = "event" /\ iEvent' = iEvent + 1 /\ pos' = pos /\ channel' = channel
        /\ tree' = Append(tree, r) /\ dInput.dat /\ words \in Seq(Word) /\ Len(words) >= 4
        /\ pos = Lesser(start + Len(words), Len(F))
    BY <1>1, <1>11, <2>1, FillIs DEF BeingRead
  <2>3. ValuesRead
    BY <1>1, <2>2 DEF ValuesSoFar
  <2>4. RowValues(r) /\ (~Drs!Pixels => \A g \in {0, 1} : channel[g].samples = Drs!LastWith(iEvent + 1, g))
    BY <1>1, <2>1, <2>2, <2>3, StoredValues
  <2>5. pos' \in Nat /\ start + 1 <= pos'
    <3>1. start \in Nat /\ start + 4 <= Len(F) /\ Len(F) \in Nat
      BY <1>1, <1>5, <2>2, FileFacts DEF ReadInv, EventRead
    <3>2. PICK k \in Nat : k = Len(words) /\ k >= 4
      BY <2>2
    <3> QED
      BY <2>2, <3>1, <3>2 DEF Lesser
  <2>6. Drs!ValuesOfOwnEvent'
    BY <1>1, <1>2, <2>2, <2>4, RowAppended
  <2> QED
    BY <1>9, <2>2, <2>4, <2>5, <2>6
<1>12. CASE Drs!RootEvent
  <2>1. ~dInput.dat
    BY <1>12 DEF Drs!RootEvent
  <2>2. iEvent' <= NEvents /\ RootValues' /\ Drs!ValuesOfOwnEvent'
    BY <1>1, <1>2, <1>12, <2>1, RootRow
  <2> QED
    BY <1>2, <1>3, <2>1, <2>2 DEF ValueInv
<1>13. CASE Stopped
  <2>1. dPlace' = "closed" /\ "closed" \notin BeingRead /\ iEvent' = iEvent /\ channel' = channel /\ tree' = tree
    BY <1>13 DEF Stopped, BeingRead
  <2>2. ValuesSoFar'
    BY <2>1 DEF ValuesSoFar
  <2>3. RootValues => RootValues'
    BY <1>3, <2>1 DEF RootValues
  <2> QED
    BY <1>1, <1>2, <1>3, <1>4, <2>1, <2>2, <2>3 DEF ValueInv
<1> QED
  BY <1>6, <1>7, <1>8, <1>10, <1>11, <1>12, <1>13

LEMMA ValueInit ==
  ASSUME OfflineInit
  PROVE  ValueInv
<1>1. RowsInv /\ FileRight
  BY RowsInit, FilesRight
<1>2. /\ pos = 0 /\ iEvent = 0 /\ dPlace = Drs!Opened /\ tree = << >>
      /\ channel = [g \in {0, 1} |-> [samples |-> 0, times |-> 0]]
  BY DEF OfflineInit, Drs!Begin, Drs!Group, Drs!Nothing
<1>3. dPlace \notin BeingRead /\ NEvents \in Nat
  BY <1>1, <1>2, FileFacts DEF Drs!Opened, BeingRead
<1>4. \A g : Drs!LastWith(0, g) = 0
  BY <1>1, <1>3, LastWithIs
<1>5. \A g \in {0, 1} : channel[g].samples = 0 /\ channel[g].times = 0
  BY <1>2
<1>6. Drs!ValuesOfOwnEvent
  BY <1>2 DEF Drs!ValuesOfOwnEvent, Drs!Range
<1>7. ValuesSoFar /\ RootValues /\ iEvent <= NEvents
  BY <1>2, <1>3, <1>4, <1>5 DEF ValuesSoFar, RootValues, Old
<1> QED
  BY <1>1, <1>6, <1>7 DEF ValueInv

LEMMA ValueUnchanged ==
  ASSUME ValueInv, UNCHANGED drsVars
  PROVE  ValueInv'
<1>1. /\ dInput' = dInput /\ pos' = pos /\ dPlace' = dPlace /\ start' = start /\ iEvent' = iEvent /\ tree' = tree
      /\ groups' = groups /\ words' = words /\ channel' = channel
  BY DEF drsVars
<1>2. RowsInv'
  BY DrsUnchanged DEF ValueInv
<1>3. F' = F /\ NEvents' = NEvents /\ (Drs!Pixels' <=> Drs!Pixels) /\ \A e, g : Drs!LastWith(e, g)' = Drs!LastWith(e, g)
  BY <1>1, FileAfter, ValuesAfter
<1>4. Drs!ValuesOfOwnEvent => Drs!ValuesOfOwnEvent'
  BY <1>1, <1>3 DEF Drs!ValuesOfOwnEvent, Drs!Range, Drs!Group
<1>5. RootValues => RootValues'
  BY <1>1, <1>3 DEF RootValues
<1>6. ValuesRead => ValuesRead'
  <2>1. \A g : Finished(g)' <=> Finished(g)
    BY <1>1, <1>3 DEF Finished, On
  <2>2. On' = On
    BY <1>1, <1>3 DEF On
  <2> QED
    BY <1>1, <1>3, <2>1, <2>2 DEF ValuesRead, OfThisEvent, Old
<1>7. ValuesSoFar => ValuesSoFar'
  BY <1>1, <1>3, <1>6 DEF ValuesSoFar, Old
<1> QED
  BY <1>1, <1>2, <1>3, <1>4, <1>5, <1>7 DEF ValueInv

\* A row that is an event has the track, the samples and the times of that event, for
\* any file that only lost words (iEvent, dat2rootPixels.cc:363; dat2root.cc:329).
THEOREM RowsOfOneEvent == OfflineSpec => []RowsAreOfOneEvent
<1>1. OfflineInit => TrackInv /\ ValueInv
  BY TrackInit, ValueInit
<1>2. TrackInv /\ ValueInv /\ [OfflineNext]_offlineVars => TrackInv' /\ ValueInv'
  <2> SUFFICES ASSUME TrackInv, ValueInv, [OfflineNext]_offlineVars PROVE TrackInv' /\ ValueInv'
    OBVIOUS
  <2>1. CASE Drs!Next
    BY <2>1, TrackStep, ValueStep
  <2>2. CASE UNCHANGED drsVars
    BY <2>2, TrackUnchanged, ValueUnchanged
  <2> QED
    BY <2>1, <2>2 DEF OfflineNext, Convert, Merge, Group, offlineVars
<1>3. TrackInv /\ ValueInv => RowsAreOfOneEvent
  BY DEF TrackInv, ValueInv, RowsAreOfOneEvent
<1> QED
  BY <1>1, <1>2, <1>3, PTL DEF OfflineSpec

----------------------------------------------------------------------------
(* TrackMerge: the times of the triggers. *)

\* When a hit is, and which trigger it is of; which trigger a reading is of, and when
\* a trigger is.
HitTime(k) == Hits[k][2]
Of(k) == Hits[k][3]
Seen(p) == tInput.bco[p][2]
TimeOf(g) == tInput.when[g]
Shots == Fired(tInput)
NTriggers == Len(tInput.when)
NReadings == Len(tInput.bco)
TrackRight == TrackFile(tInput) /\ TriggersApart(tInput)

LEMMA LimitsType ==
  /\ Near \in Nat /\ Far \in Nat /\ Pause \in Nat /\ Wrap \in Nat /\ Jitter \in Nat
  /\ Jitter < Near /\ Jitter < Far /\ Far + Near + 2 * Jitter <= Pause
  BY OfflineAssumption, TriggersAssumption DEF OfflineAssumption, TriggersAssumption

\* What there is to hits and readings.
LEMMA TriggerTypes ==
  ASSUME TrackRight
  PROVE  /\ Len(Hits) \in Nat /\ NTriggers \in Nat /\ NReadings \in Nat
         /\ Shots \in SUBSET (1 .. Len(Hits)) /\ Trk!Reading = 1 .. NReadings
         /\ \A g \in 1 .. NTriggers : TimeOf(g) \in Int
         /\ \A k \in Shots : HitTime(k) \in Int /\ Of(k) \in 1 .. NTriggers
         /\ \A p \in 1 .. NReadings : Seen(p) \in 1 .. NTriggers
<1>1. /\ tInput.when \in Seq(Int) /\ \A n \in Fired(tInput) : tInput.hits[n][3] \in DOMAIN tInput.when
      /\ \A p \in DOMAIN tInput.bco : tInput.bco[p][2] \in DOMAIN tInput.when
      /\ tInput.hits \in Seq(TrackChannel \X Int \X Int) /\ tInput.bco \in Seq(Int \X Int)
  BY DEF TrackRight, TriggersApart, TrackFile
<1>2. /\ Len(Hits) \in Nat /\ NTriggers \in Nat /\ NReadings \in Nat
      /\ DOMAIN tInput.when = 1 .. NTriggers /\ DOMAIN tInput.bco = 1 .. NReadings /\ DOMAIN Hits = 1 .. Len(Hits)
  BY <1>1 DEF Hits, NTriggers, NReadings
<1>3. \A g \in 1 .. NTriggers : TimeOf(g) \in Int
  BY <1>1, <1>2 DEF TimeOf
<1>4. Shots \in SUBSET (1 .. Len(Hits))
  BY <1>2 DEF Shots, Fired, Hits
<1>5. \A k \in Shots : HitTime(k) \in Int /\ Of(k) \in 1 .. NTriggers
  <2>1. \A k \in 1 .. Len(Hits) : Hits[k][2] \in Int
    BY <1>1, <1>2 DEF Hits
  <2> QED
    BY <1>1, <1>2, <1>4, <2>1 DEF HitTime, Of, Shots, Hits
<1>6. \A p \in 1 .. NReadings : Seen(p) \in 1 .. NTriggers
  BY <1>1, <1>2 DEF Seen
<1>7. Trk!Reading = 1 .. NReadings
  BY <1>2 DEF Trk!Reading
<1> QED
  BY <1>2, <1>3, <1>4, <1>5, <1>6, <1>7

\* Hits and readings are in the order of their triggers, which are apart, and the times
\* between hits are those between their triggers but for the jitter.
LEMMA TriggerOrder ==
  ASSUME TrackRight
  PROVE  /\ \A f, g \in 1 .. NTriggers : f < g => TimeOf(g) - TimeOf(f) >= Near + Jitter
         /\ \A j, k \in Shots : (HitTime(k) - TimeOf(Of(k))) - (HitTime(j) - TimeOf(Of(j))) <= Jitter
         /\ \A j, k \in Shots : j < k => HitTime(j) <= HitTime(k) /\ Of(j) <= Of(k)
         /\ \A p, q \in 1 .. NReadings : p < q => Seen(p) < Seen(q)
<1>1. DOMAIN tInput.when = 1 .. NTriggers /\ DOMAIN tInput.bco = 1 .. NReadings
  BY DEF TrackRight, TriggersApart, TrackFile, NTriggers, NReadings
<1>2. \A f, g \in DOMAIN tInput.when : f < g => tInput.when[g] - tInput.when[f] >= Near + Jitter
  BY DEF TrackRight, TriggersApart
<1>3. \A m, n \in Fired(tInput) :
        /\ Delay(tInput, m) - Delay(tInput, n) <= Jitter
        /\ m < n => tInput.hits[m][2] <= tInput.hits[n][2] /\ tInput.hits[m][3] <= tInput.hits[n][3]
  BY DEF TrackRight, TriggersApart
<1>4. \A p, q \in DOMAIN tInput.bco : p < q => tInput.bco[p][2] < tInput.bco[q][2]
  BY DEF TrackRight, TriggersApart
<1>5. \A f, g \in 1 .. NTriggers : f < g => TimeOf(g) - TimeOf(f) >= Near + Jitter
  BY <1>1, <1>2 DEF TimeOf
<1>6. \A j, k \in Shots : (HitTime(k) - TimeOf(Of(k))) - (HitTime(j) - TimeOf(Of(j))) <= Jitter
  BY <1>3 DEF Shots, Delay, HitTime, Of, TimeOf, Hits
<1>7. \A j, k \in Shots : j < k => HitTime(j) <= HitTime(k) /\ Of(j) <= Of(k)
  BY <1>3 DEF Shots, HitTime, Of, Hits
<1>8. \A p, q \in 1 .. NReadings : p < q => Seen(p) < Seen(q)
  BY <1>1, <1>4 DEF Seen
<1> QED
  BY <1>5, <1>6, <1>7, <1>8

\* Two hits: the same with the numbers named, as the steps below need it.
LEMMA BetweenShots ==
  ASSUME TrackRight, NEW j \in Shots, NEW k \in Shots
  PROVE  /\ HitTime(k) - HitTime(j) <= TimeOf(Of(k)) - TimeOf(Of(j)) + Jitter
         /\ HitTime(k) - HitTime(j) >= TimeOf(Of(k)) - TimeOf(Of(j)) - Jitter
<1>1. PICK a \in Int, b \in Int, c \in Int, d \in Int : a = HitTime(k) /\ b = HitTime(j) /\ c = TimeOf(Of(k)) /\ d = TimeOf(Of(j))
  BY TriggerTypes
<1>2. (a - c) - (b - d) <= Jitter /\ (b - d) - (a - c) <= Jitter
  BY <1>1, TriggerOrder
<1> QED
  BY <1>1, <1>2, LimitsType

LEMMA ShotsInOrder ==
  ASSUME TrackRight, NEW j \in Shots, NEW k \in Shots
  PROVE  /\ j \in Nat /\ k \in Nat /\ Of(j) \in Nat /\ Of(k) \in Nat /\ HitTime(j) \in Int /\ HitTime(k) \in Int
         /\ j <= k => Of(j) <= Of(k) /\ HitTime(j) <= HitTime(k)
<1>1. j \in Nat /\ k \in Nat /\ Of(j) \in Nat /\ Of(k) \in Nat /\ HitTime(j) \in Int /\ HitTime(k) \in Int
  BY TriggerTypes
<1>2. j <= k => j = k \/ j < k
  BY <1>1
<1> QED
  BY <1>1, <1>2, TriggerOrder

\* Later triggers are later, and the other way round.
LEMMA LaterTriggers ==
  ASSUME TrackRight, NEW f \in 1 .. NTriggers, NEW g \in 1 .. NTriggers
  PROVE  /\ f <= g => TimeOf(f) <= TimeOf(g)
         /\ TimeOf(f) < TimeOf(g) => f < g
         /\ TimeOf(g) - TimeOf(f) < Near + Jitter /\ TimeOf(f) - TimeOf(g) < Near + Jitter => f = g
<1>1. PICK a \in Int, b \in Int : a = TimeOf(f) /\ b = TimeOf(g)
  BY TriggerTypes
<1>2. (f < g => b - a >= Near + Jitter) /\ (g < f => a - b >= Near + Jitter)
  BY <1>1, TriggerOrder
<1>3. f \in Int /\ g \in Int /\ (f = g => a = b)
  BY <1>1
<1>4. f <= g => a <= b
  BY <1>2, <1>3, LimitsType
<1>5. a < b => f < g
  BY <1>2, <1>3, LimitsType
<1>6. b - a < Near + Jitter /\ a - b < Near + Jitter => f = g
  BY <1>2, <1>3, LimitsType
<1> QED
  BY <1>1, <1>4, <1>5, <1>6

\* The time of a reading is that since the first, also when the counter wrapped
\* (MergeTOFPETWithPixels.cc:231).
LEMMA TrackerTimeIs ==
  ASSUME TrackRight, NEW p \in 1 .. NReadings
  PROVE  Trk!TrackerTime(p) = TimeOf(Seen(p)) - TimeOf(Seen(1))
<1>1. 1 \in 1 .. NReadings /\ NReadings \in Nat
  BY TriggerTypes
<1>2. PICK w \in Int, v \in Int : w = TimeOf(Seen(p)) /\ v = TimeOf(Seen(1))
  BY <1>1, TriggerTypes
<1>3. DOMAIN tInput.bco = 1 .. NReadings
  BY DEF TrackRight, TrackFile, NReadings
<1>4. \A q \in DOMAIN tInput.bco : /\ Since(tInput, q) < Wrap /\ tInput.bco[q][1] \in 0 .. Wrap - 1
                                   /\ tInput.bco[q][1] - tInput.bco[1][1] \in {Since(tInput, q), Since(tInput, q) - Wrap}
  BY DEF TrackRight, TriggersApart
<1>5. PICK c \in Int, d \in Int : c = tInput.bco[p][1] /\ d = tInput.bco[1][1]
  BY <1>1, <1>3, <1>4
<1>6. Since(tInput, p) = w - v
  BY <1>2 DEF Since, TimeOf, Seen
<1>7. w - v < Wrap /\ c - d \in {w - v, w - v - Wrap} /\ 0 <= c /\ c < Wrap /\ 0 <= d /\ d < Wrap
  BY <1>1, <1>3, <1>4, <1>5, <1>6, LimitsType
<1>8. w - v >= 0
  <2>1. p = 1 => w = v
    BY <1>2
  <2>2. p # 1 => Seen(1) < Seen(p) /\ Seen(1) \in 1 .. NTriggers /\ Seen(p) \in 1 .. NTriggers
    BY <1>1, TriggerOrder, TriggerTypes
  <2>3. p # 1 => v <= w
    BY <1>2, <2>2, LaterTriggers
  <2> QED
    BY <1>2, <2>1, <2>3
<1>9. Trk!TrackerTime(p) = c - d + (IF c < d THEN Wrap ELSE 0)
  BY <1>5 DEF Trk!TrackerTime, Trk!Counter
<1> QED
  BY <1>2, <1>7, <1>8, <1>9, LimitsType

----------------------------------------------------------------------------
(* TrackMerge: the last pause. *)

\* For readings p and r: r is the last up to p before which there was a pause.
LastBreak(r, p) ==
  /\ r \in 1 .. p /\ Trk!PauseBeforeReading(r)
  /\ \A q \in 1 .. p : Trk!PauseBeforeReading(q) => q <= r

\* There was a pause before a reading when there was one since the reading before.
LEMMA BreakIs ==
  ASSUME TrackRight, NEW p \in 1 .. NReadings
  PROVE  /\ Trk!PauseBeforeReading(1)
         /\ p # 1 => (Trk!PauseBeforeReading(p) <=> Trk!TrackerTime(p) - Trk!TrackerTime(p - 1) > Pause)
<1>1. Trk!Reading = 1 .. NReadings /\ NReadings \in Nat
  BY TriggerTypes
<1>2. Trk!PauseBeforeReading(1)
  BY <1>1 DEF Trk!PauseBeforeReading
<1>3. ASSUME p # 1
      PROVE  Trk!PauseBeforeReading(p) <=> Trk!TrackerTime(p) - Trk!TrackerTime(p - 1) > Pause
  <2>1. p - 1 \in 1 .. NReadings /\ 1 \in 1 .. NReadings
    BY <1>1, <1>3
  <2>2. PICK w \in Int, v \in Int, u \in Int : w = TimeOf(Seen(p)) /\ v = TimeOf(Seen(p - 1)) /\ u = TimeOf(Seen(1))
    BY <2>1, TriggerTypes
  <2>3. Trk!TrackerTime(p) = w - u /\ Trk!TrackerTime(p - 1) = v - u
    BY <2>1, <2>2, TrackerTimeIs
  <2>4. Trk!PauseBeforeReading(p) <=> \A q \in 1 .. NReadings : q < p => w - TimeOf(Seen(q)) > Pause
    BY <1>1, <2>2 DEF Trk!PauseBeforeReading, Trk!TrueTime, TimeOf, Seen
  <2>5. ASSUME w - v > Pause, NEW q \in 1 .. NReadings, q < p PROVE w - TimeOf(Seen(q)) > Pause
    <3>1. PICK t \in Int : t = TimeOf(Seen(q))
      BY TriggerTypes
    <3>2. Seen(q) <= Seen(p - 1) /\ Seen(q) \in 1 .. NTriggers /\ Seen(p - 1) \in 1 .. NTriggers
      <4>1. q = p - 1 \/ q < p - 1
        BY <1>1, <2>5
      <4>2. Seen(q) \in 1 .. NTriggers /\ Seen(p - 1) \in 1 .. NTriggers
        BY <2>1, TriggerTypes
      <4> QED
        BY <2>1, <4>1, <4>2, TriggerOrder
    <3>3. t <= v
      BY <2>2, <3>1, <3>2, LaterTriggers
    <3> QED
      BY <2>5, <3>1, <3>3, LimitsType
  <2>6. w - v > Pause <=> \A q \in 1 .. NReadings : q < p => w - TimeOf(Seen(q)) > Pause
    <3>1. p - 1 < p
      BY <1>1
    <3> QED
      BY <2>1, <2>2, <2>5, <3>1
  <2>7. w - u - (v - u) = w - v
    BY <2>2
  <2> QED
    BY <2>3, <2>4, <2>6, <2>7
<1> QED
  BY <1>2, <1>3

\* The index the program keeps is that of the last pause.
LEMMA ResetIndexIs ==
  ASSUME TrackRight, NEW p \in 1 .. NReadings
  PROVE  LastBreak(Trk!ResetIndex(p), p)
<1>1. NReadings \in Nat /\ p \in Nat
  BY TriggerTypes
<1>2. PICK S : S = {1} \cup {j \in 2 .. p : Trk!TrackerTime(j) - Trk!TrackerTime(j - 1) > Pause}
  BY Zenon
<1>3. \A q \in 1 .. p : q \in S <=> Trk!PauseBeforeReading(q)
  <2> SUFFICES ASSUME NEW q \in 1 .. p PROVE q \in S <=> Trk!PauseBeforeReading(q)
    OBVIOUS
  <2>1. q \in 1 .. NReadings
    BY <1>1
  <2>2. CASE q = 1
    BY <1>2, <2>1, <2>2, BreakIs
  <2>3. CASE q # 1
    <3>1. q \in 2 .. p
      BY <1>1, <2>3
    <3> QED
      BY <1>2, <2>1, <2>3, <3>1, BreakIs
  <2> QED
    BY <2>2, <2>3
<1>4. S \in SUBSET (1 .. p) /\ S \in SUBSET (0 .. p) /\ S # {} /\ S \in SUBSET Int
  BY <1>1, <1>2
<1>5. MaxOfSet(S, Max(S))
  BY <1>1, <1>4, NatMax
<1>6. Trk!Max(S) = Max(S)
  BY <1>4, <1>5, TrkMax
<1>7. Trk!ResetIndex(p) = Max(S)
  BY <1>2, <1>6 DEF Trk!ResetIndex
<1>8. PICK r : r = Max(S) /\ r \in S /\ \A x \in S : x <= r
  BY <1>5 DEF MaxOfSet
<1> QED
  BY <1>3, <1>4, <1>7, <1>8 DEF LastBreak

\* Of hits: f is the first of the events' triggers; k is the last up to h before which
\* there was a pause.
FirstShot(f) == f \in Trk!TriggerHits /\ \A j \in Trk!TriggerHits : f <= j
LastPause(k, h) ==
  /\ k \in Trk!TriggerHits /\ k <= h /\ Trk!PauseBefore(k)
  /\ \A j \in Trk!TriggerHits : j <= h /\ Trk!PauseBefore(j) => j <= k
\* The triggers of the events are hits of the trigger channel.
ShotsRight == TrackRight /\ Trk!TriggerHits \in SUBSET Shots

\* What is seen alike.
LEMMA SeenAlike ==
  ASSUME ShotsRight, NEW h \in Trk!TriggerHits, Trk!SamePauses(h)
  PROVE  /\ \A j \in Trk!TriggerHits : j <= h /\ Trk!PauseBefore(j) =>
              \E q \in 1 .. NReadings : Seen(q) = Of(j) /\ Trk!PauseBeforeReading(q)
         /\ \A q \in 1 .. NReadings : Seen(q) <= Of(h) /\ Trk!PauseBeforeReading(q) =>
              \E j \in Trk!TriggerHits : j <= h /\ Trk!PauseBefore(j) /\ Of(j) = Seen(q)
<1>1. Trk!Reading = 1 .. NReadings
  BY TriggerTypes DEF ShotsRight
<1>2. {Of(k) : k \in {j \in Trk!TriggerHits : j <= h /\ Trk!PauseBefore(j)}}
      = {Seen(p) : p \in {q \in 1 .. NReadings : Seen(q) <= Of(h) /\ Trk!PauseBeforeReading(q)}}
  BY <1>1 DEF Trk!SamePauses, Trk!Hit, Of, Seen, Hits
<1>3. ASSUME NEW j \in Trk!TriggerHits, j <= h, Trk!PauseBefore(j)
      PROVE  \E q \in 1 .. NReadings : Seen(q) = Of(j) /\ Trk!PauseBeforeReading(q)
  <2>1. Of(j) \in {Of(k) : k \in {i \in Trk!TriggerHits : i <= h /\ Trk!PauseBefore(i)}}
    BY <1>3
  <2> QED
    BY <1>2, <2>1
<1>4. ASSUME NEW q \in 1 .. NReadings, Seen(q) <= Of(h), Trk!PauseBeforeReading(q)
      PROVE  \E j \in Trk!TriggerHits : j <= h /\ Trk!PauseBefore(j) /\ Of(j) = Seen(q)
  <2>1. Seen(q) \in {Seen(p) : p \in {i \in 1 .. NReadings : Seen(i) <= Of(h) /\ Trk!PauseBeforeReading(i)}}
    BY <1>4
  <2> QED
    BY <1>2, <2>1
<1> QED
  BY <1>3, <1>4

\* The first trigger both have is the first of each.
LEMMA FirstAlike ==
  ASSUME ShotsRight, NEW h \in Trk!TriggerHits, Trk!SamePauses(h), NEW f, FirstShot(f)
  PROVE  1 \in 1 .. NReadings /\ Seen(1) = Of(f)
<1>1. /\ f \in Trk!TriggerHits /\ f \in Shots /\ h \in Shots /\ f \in Nat /\ h \in Nat /\ f <= h
      /\ Of(f) \in Nat /\ Of(h) \in Nat /\ NReadings \in Nat
  BY TriggerTypes DEF FirstShot, ShotsRight
<1>2. Trk!PauseBefore(f)
  <2>1. \A j \in Trk!TriggerHits : j \in Nat /\ ~(j < f)
    BY <1>1, TriggerTypes DEF FirstShot, ShotsRight
  <2> QED
    BY <2>1 DEF Trk!PauseBefore
<1>3. PICK q \in 1 .. NReadings : Seen(q) = Of(f)
  BY <1>1, <1>2, SeenAlike
<1>4. 1 \in 1 .. NReadings /\ Seen(1) \in Nat /\ Seen(1) <= Seen(q)
  <2>1. 1 \in 1 .. NReadings /\ (q = 1 \/ 1 < q)
    BY <1>1
  <2>2. Seen(1) \in Nat /\ Seen(q) \in Nat
    BY <2>1, TriggerTypes DEF ShotsRight
  <2> QED
    BY <2>1, <2>2, TriggerOrder DEF ShotsRight
<1>5. Of(f) <= Of(h)
  <2>1. f = h \/ f < h
    BY <1>1
  <2> QED
    BY <1>1, <2>1, TriggerOrder DEF ShotsRight
<1>6. Trk!PauseBeforeReading(1)
  BY <1>4, BreakIs DEF ShotsRight
<1>7. PICK j \in Trk!TriggerHits : Of(j) = Seen(1)
  <2>1. Seen(1) <= Of(h)
    BY <1>1, <1>3, <1>4, <1>5
  <2> QED
    BY <1>4, <1>6, <2>1, SeenAlike
<1>8. Of(f) <= Of(j)
  <2>1. j \in Shots /\ j \in Nat /\ Of(j) \in Nat /\ f <= j
    BY <1>7, TriggerTypes DEF FirstShot, ShotsRight
  <2>2. f = j \/ f < j
    BY <1>1, <2>1
  <2> QED
    BY <1>1, <2>1, <2>2, TriggerOrder DEF ShotsRight
<1> QED
  BY <1>1, <1>3, <1>4, <1>7, <1>8

\* The last pause before a hit, and that before a reading which may be of it, are the
\* same: between two pauses there is more than the times can be off.
LEMMA SameBreak ==
  ASSUME ShotsRight, NEW h \in Trk!TriggerHits, Trk!SamePauses(h), NEW f, FirstShot(f),
         NEW k, LastPause(k, h), NEW p \in 1 .. NReadings, NEW r, LastBreak(r, p),
         \/ Seen(p) = Of(h)
         \/ LET d == (TimeOf(Seen(r)) - TimeOf(Seen(1))) - (HitTime(k) - HitTime(f))
            IN d < Far + Near /\ -d < Far + Near
  PROVE  Seen(r) = Of(k)
<1>0. TrackRight /\ k \in Trk!TriggerHits /\ k \in Shots /\ f \in Shots /\ h \in Shots /\ k <= h
      /\ Trk!PauseBefore(k) /\ NReadings \in Nat /\ r \in 1 .. p /\ r \in 1 .. NReadings
      /\ Trk!PauseBeforeReading(r)
  BY TriggerTypes DEF FirstShot, ShotsRight, LastPause, LastBreak
<1>1. 1 \in 1 .. NReadings /\ Seen(1) = Of(f)
  BY FirstAlike
<1>2. PICK b \in 1 .. NTriggers, c \in 1 .. NTriggers, g \in 1 .. NTriggers, x \in 1 .. NTriggers :
        b = Of(k) /\ c = Seen(r) /\ g = Of(h) /\ x = Seen(1)
  BY <1>0, <1>1, TriggerTypes
<1>3. PICK tb \in Int, tc \in Int, tx \in Int, ak \in Int, af \in Int :
        tb = TimeOf(b) /\ tc = TimeOf(c) /\ tx = TimeOf(x) /\ ak = HitTime(k) /\ af = HitTime(f)
  BY <1>0, <1>2, TriggerTypes
<1>4. ak - af <= tb - tx + Jitter /\ ak - af >= tb - tx - Jitter
  BY <1>0, <1>1, <1>2, <1>3, BetweenShots
<1>5. PICK q \in 1 .. NReadings : Seen(q) = b /\ Trk!PauseBeforeReading(q)
  BY <1>0, <1>2, SeenAlike
<1>6. b \in Nat /\ c \in Nat /\ g \in Nat /\ b <= g
  BY <1>0, <1>2, ShotsInOrder
<1>7. CASE q = r
  BY <1>2, <1>5, <1>7
<1>8. CASE q < r
  <2>1. tc - tb > Pause
    BY <1>0, <1>2, <1>3, <1>5, <1>8, TriggerTypes DEF Trk!PauseBeforeReading, Trk!TrueTime, TimeOf, Seen
  <2>2. ~(Seen(p) = Of(h))
    <3>1. ASSUME Seen(p) = Of(h) PROVE FALSE
      <4>1. c <= g
        <5>1. r = p \/ r < p
          BY <1>0
        <5> QED
          BY <1>0, <1>2, <1>6, <3>1, <5>1, TriggerOrder
      <4>2. PICK j \in Trk!TriggerHits : j <= h /\ Trk!PauseBefore(j) /\ Of(j) = c
        BY <1>0, <1>2, <4>1, SeenAlike
      <4>3. j <= k /\ j \in Shots
        BY <4>2 DEF LastPause, ShotsRight
      <4>4. Of(j) <= Of(k)
        BY <1>0, <4>3, ShotsInOrder
      <4>5. tc <= tb
        BY <1>0, <1>2, <1>3, <4>2, <4>4, LaterTriggers
      <4> QED
        BY <2>1, <4>5, LimitsType
    <3> QED
      BY <3>1
  <2>3. tc - tx - (ak - af) < Far + Near
    BY <1>2, <1>3, <2>2
  <2> QED
    BY <1>4, <2>1, <2>3, LimitsType
<1>9. CASE r < q
  <2>1. c < b
    BY <1>0, <1>2, <1>5, <1>9, TriggerOrder
  <2>2. PICK j \in Trk!TriggerHits : j <= h /\ Trk!PauseBefore(j) /\ Of(j) = c
    <3>1. c <= g
      BY <1>6, <2>1
    <3> QED
      BY <1>0, <1>2, <3>1, SeenAlike
  <2>3. j \in Shots /\ j < k
    <3>1. j \in Shots /\ j <= k /\ j # k
      BY <1>2, <1>6, <2>1, <2>2 DEF LastPause, ShotsRight
    <3>2. j \in Nat /\ k \in Nat
      BY <1>0, <3>1, ShotsInOrder
    <3> QED
      BY <3>1, <3>2
  <2>4. PICK aj \in Int : aj = HitTime(j)
    BY <1>0, <2>3, TriggerTypes
  <2>5. ak - aj > Pause
    BY <1>0, <1>3, <2>2, <2>3, <2>4 DEF Trk!PauseBefore, Trk!Hit, HitTime, Hits
  <2>6. ak - aj <= tb - tc + Jitter
    BY <1>0, <1>2, <1>3, <2>2, <2>3, <2>4, BetweenShots
  <2>7. tb - tc > Pause - Jitter
    BY <1>3, <2>4, <2>5, <2>6, LimitsType
  <2>8. ~(Seen(p) = Of(h))
    <3>1. ASSUME Seen(p) = Of(h) PROVE FALSE
      <4>1. q <= p
        <5>1. ~(p < q)
          <6>1. p < q => Seen(p) < Seen(q)
            BY <1>0, TriggerOrder
          <6> QED
            BY <1>2, <1>5, <1>6, <3>1, <6>1
        <5> QED
          BY <1>0, <5>1
      <4>2. q <= r
        BY <1>0, <1>5, <4>1 DEF LastBreak
      <4> QED
        BY <1>0, <1>9, <4>2
    <3> QED
      BY <3>1
  <2>9. (ak - af) - (tc - tx) < Far + Near
    BY <1>2, <1>3, <2>8
  <2> QED
    BY <1>4, <2>7, <2>9, LimitsType
<1> QED
  BY <1>0, <1>7, <1>8, <1>9

\* What the program compares for reading p and hit h, when the last pauses are those
\* of r and k.
OnRun(p, h, f) == (TimeOf(Seen(p)) - TimeOf(Seen(1))) - (HitTime(h) - HitTime(f))
SincePause(p, h, r, k, f) ==
  ((TimeOf(Seen(p)) - TimeOf(Seen(1))) - (TimeOf(Seen(r)) - TimeOf(Seen(1))))
  - ((HitTime(h) - HitTime(f)) - (HitTime(k) - HitTime(f)))

\* A reading that agrees is of the hit's own trigger.
LEMMA OwnTrigger ==
  ASSUME ShotsRight, NEW h \in Trk!TriggerHits, Trk!SamePauses(h), NEW f, FirstShot(f),
         NEW k, LastPause(k, h), NEW p \in 1 .. NReadings, NEW r, LastBreak(r, p),
         OnRun(p, h, f) < Far, -OnRun(p, h, f) < Far,
         SincePause(p, h, r, k, f) < Near, -SincePause(p, h, r, k, f) < Near
  PROVE  Seen(p) = Of(h)
<1>0. TrackRight /\ k \in Shots /\ f \in Shots /\ h \in Shots /\ r \in 1 .. NReadings /\ NReadings \in Nat
  BY TriggerTypes DEF FirstShot, ShotsRight, LastPause, LastBreak
<1>1. 1 \in 1 .. NReadings
  BY FirstAlike
<1>2. PICK tp \in Int, tr \in Int, tx \in Int, ah \in Int, ak \in Int, af \in Int :
        tp = TimeOf(Seen(p)) /\ tr = TimeOf(Seen(r)) /\ tx = TimeOf(Seen(1)) /\ ah = HitTime(h) /\ ak = HitTime(k) /\ af = HitTime(f)
  BY <1>0, <1>1, TriggerTypes
<1>3. (tp - tx) - (ah - af) < Far /\ -((tp - tx) - (ah - af)) < Far
  BY <1>2 DEF OnRun
<1>4. (tp - tr) - (ah - ak) < Near /\ -((tp - tr) - (ah - ak)) < Near
  BY <1>2 DEF SincePause
<1>5. (tr - tx) - (ak - af) < Far + Near /\ -((tr - tx) - (ak - af)) < Far + Near
  BY <1>2, <1>3, <1>4, LimitsType
<1>6. Seen(r) = Of(k)
  BY <1>2, <1>5, SameBreak
<1>7. PICK th \in Int : th = TimeOf(Of(h))
  BY <1>0, TriggerTypes
<1>8. ah - ak <= th - tr + Jitter /\ ah - ak >= th - tr - Jitter
  BY <1>0, <1>2, <1>6, <1>7, BetweenShots
<1>9. tp - th < Near + Jitter /\ th - tp < Near + Jitter
  BY <1>2, <1>4, <1>7, <1>8, LimitsType
<1>10. Seen(p) \in 1 .. NTriggers /\ Of(h) \in 1 .. NTriggers
  BY <1>0, TriggerTypes
<1> QED
  BY <1>0, <1>2, <1>7, <1>9, <1>10, LaterTriggers

\* The reading of the hit's own trigger agrees.
LEMMA OwnAgrees ==
  ASSUME ShotsRight, NEW h \in Trk!TriggerHits, Trk!SamePauses(h), NEW f, FirstShot(f),
         NEW k, LastPause(k, h), NEW p \in 1 .. NReadings, NEW r, LastBreak(r, p), Seen(p) = Of(h)
  PROVE  /\ OnRun(p, h, f) < Far /\ -OnRun(p, h, f) < Far
         /\ SincePause(p, h, r, k, f) < Near /\ -SincePause(p, h, r, k, f) < Near
<1>0. TrackRight /\ k \in Shots /\ f \in Shots /\ h \in Shots /\ r \in 1 .. NReadings /\ NReadings \in Nat
  BY TriggerTypes DEF FirstShot, ShotsRight, LastPause, LastBreak
<1>1. 1 \in 1 .. NReadings /\ Seen(1) = Of(f)
  BY FirstAlike
<1>2. PICK tp \in Int, tr \in Int, tx \in Int, ah \in Int, ak \in Int, af \in Int :
        tp = TimeOf(Seen(p)) /\ tr = TimeOf(Seen(r)) /\ tx = TimeOf(Seen(1)) /\ ah = HitTime(h) /\ ak = HitTime(k) /\ af = HitTime(f)
  BY <1>0, <1>1, TriggerTypes
<1>3. Seen(r) = Of(k)
  BY SameBreak
<1>4. ah - ak <= tp - tr + Jitter /\ ah - ak >= tp - tr - Jitter
  BY <1>0, <1>2, <1>3, BetweenShots
<1>5. ah - af <= tp - tx + Jitter /\ ah - af >= tp - tx - Jitter
  BY <1>0, <1>1, <1>2, BetweenShots
<1>6. OnRun(p, h, f) = (tp - tx) - (ah - af) /\ SincePause(p, h, r, k, f) = ((tp - tx) - (tr - tx)) - ((ah - af) - (ak - af))
  BY <1>2 DEF OnRun, SincePause
<1> QED
  BY <1>2, <1>4, <1>5, <1>6, LimitsType

----------------------------------------------------------------------------
(* TrackMerge: the hits that trigger the events. *)

\* The hit that triggered an event, 0 if none did, and those of the events written.
Shot(e) == event[e][Trigger]
DoneShots == {Shot(e) : e \in DOMAIN out} \ {0}

\* They are in order.
ShotsInv ==
  /\ TriggersApart(tInput)
  /\ \A e \in DOMAIN event : Shot(e) # 0 => Shot(e) \in Shots
  /\ row[Trigger] # 0 => row[Trigger] \in Shots
  /\ \A e, f \in DOMAIN event : e < f /\ Shot(f) # 0 => Shot(e) < Shot(f)
  /\ \A e \in DOMAIN event : row[Trigger] # 0 => Shot(e) < row[Trigger]

LEMMA ShotTypes ==
  ASSUME TrkInv
  PROVE  /\ Trigger \in TrackChannel /\ tIndex \in Nat
         /\ Len(event) \in Nat /\ DOMAIN event = 1 .. Len(event)
         /\ Len(out) \in Nat /\ DOMAIN out = 1 .. Len(out) /\ Len(out) <= Len(event)
         /\ row[Trigger] \in 0 .. tIndex
         /\ \A e \in DOMAIN event : Shot(e) \in 0 .. tIndex
<1>1. Trigger \in TrackChannel
  BY OfflineAssumption DEF OfflineAssumption
<1>2. /\ event \in Seq([TrackChannel -> 0 .. tIndex]) /\ row \in [TrackChannel -> 0 .. tIndex]
      /\ Len(out) <= Len(event) /\ out \in Seq(TrkRow)
  BY DEF TrkInv, Trk!TypeOK, MatchInv
<1>3. tIndex \in Nat
  BY HitsType DEF TrkInv, Trk!TypeOK, Hits
<1>4. Len(event) \in Nat /\ DOMAIN event = 1 .. Len(event) /\ Len(out) \in Nat /\ DOMAIN out = 1 .. Len(out)
  BY <1>2
<1>5. \A e \in DOMAIN event : event[e] \in [TrackChannel -> 0 .. tIndex]
  BY <1>2
<1> QED
  BY <1>1, <1>2, <1>3, <1>4, <1>5 DEF Shot

LEMMA ShotsRightNow ==
  ASSUME TrkInv, ShotsInv
  PROVE  ShotsRight
<1>1. TrackRight
  BY DEF TrkInv, ShotsInv, TrackRight
<1>2. \A j \in Trk!TriggerHits : j \in Shots
  BY DEF Trk!TriggerHits, ShotsInv, Shot
<1> QED
  BY <1>1, <1>2 DEF ShotsRight

LEMMA ShotsTakeHit ==
  ASSUME TrkInv, ShotsInv, Trk!TakeHit
  PROVE  ShotsInv'
<1>1. tInput' = tInput
  BY DEF Trk!TakeHit
<1>2. Shots' = Shots
  BY <1>1 DEF Shots
<1>3. PICK i \in Nat, n \in Nat, w \in Nat : i = tIndex /\ n = Len(event) /\ w = row[Trigger] /\ w <= i /\ i + 1 <= Len(Hits)
  <2>1. tIndex \in Nat /\ tIndex + 1 <= Len(Hits)
    BY TakenWhat
  <2>2. Len(event) \in Nat /\ row[Trigger] \in 0 .. tIndex
    BY ShotTypes
  <2>3. row[Trigger] \in Nat /\ row[Trigger] <= tIndex
    BY <2>1, <2>2
  <2> QED
    BY <2>1, <2>2, <2>3
<1>4. row'[Trigger] = IF Hits[i + 1][1] = Trigger THEN i + 1 ELSE IF i + 1 \in Trk!Starts THEN 0 ELSE w
  BY <1>3, ShotTypes, TakenWhat
<1>5. Hits[i + 1][1] = Trigger => i + 1 \in Shots
  <2>1. Len(Hits) \in Nat /\ DOMAIN tInput.hits = 1 .. Len(Hits)
    BY DEF TrkInv, TrackFile, Hits
  <2> QED
    BY <1>3, <2>1 DEF Shots, Fired, Hits
<1>6. CASE event' = event /\ (i = 0 \/ i + 1 \notin Trk!Starts)
  <2>1. \A e \in DOMAIN event : event'[e][Trigger] = Shot(e) /\ Shot(e) \in 0 .. i
    BY <1>3, <1>6, ShotTypes DEF Shot
  <2>2. row'[Trigger] \in {i + 1, w, 0}
    BY <1>4
  <2>3. row'[Trigger] # 0 => row'[Trigger] \in Shots
    BY <1>3, <1>4, <1>5 DEF ShotsInv
  <2>4. \A e \in DOMAIN event : row'[Trigger] # 0 => Shot(e) < row'[Trigger]
    BY <1>3, <2>1, <2>2 DEF ShotsInv
  <2>5. /\ \A e \in DOMAIN event : Shot(e) # 0 => Shot(e) \in Shots
        /\ \A e, f \in DOMAIN event : e < f /\ Shot(f) # 0 => Shot(e) < Shot(f)
    BY DEF ShotsInv
  <2> QED
    BY <1>1, <1>2, <1>6, <2>3, <2>4, <2>5 DEF ShotsInv, Shot
<1>7. CASE event' = Append(event, row) /\ i + 1 \in Trk!Starts
  <2>1. /\ DOMAIN event' = 1 .. n + 1 /\ DOMAIN event = 1 .. n /\ event'[n + 1] = row
        /\ \A e \in 1 .. n : event'[e] = event[e]
    <3>1. event \in Seq([TrackChannel -> 0 .. tIndex])
      BY DEF TrkInv, Trk!TypeOK
    <3> QED
      BY <1>3, <1>7, <3>1
  <2>2. \A e \in 1 .. n : event'[e][Trigger] = Shot(e) /\ Shot(e) \in 0 .. i
    BY <1>3, <2>1, ShotTypes DEF Shot
  <2>3. event'[n + 1][Trigger] = w
    BY <1>3, <2>1
  <2>4. row'[Trigger] \in {i + 1, 0} /\ (row'[Trigger] # 0 => row'[Trigger] \in Shots)
    BY <1>4, <1>5, <1>7
  <2>5. \A e \in 1 .. n + 1 : event'[e][Trigger] \in 0 .. i /\ (event'[e][Trigger] # 0 => event'[e][Trigger] \in Shots)
    <3>1. \A e \in 1 .. n + 1 : e \in 1 .. n \/ e = n + 1
      BY <1>3
    <3> QED
      BY <1>3, <2>1, <2>2, <2>3, <3>1 DEF ShotsInv
  <2>6. ASSUME NEW e \in 1 .. n + 1, NEW f \in 1 .. n + 1, e < f, event'[f][Trigger] # 0
        PROVE  event'[e][Trigger] < event'[f][Trigger]
    <3>1. e \in 1 .. n /\ (f \in 1 .. n \/ f = n + 1)
      BY <1>3, <2>6
    <3>2. CASE f \in 1 .. n
      BY <2>1, <2>2, <2>6, <3>1, <3>2 DEF ShotsInv
    <3>3. CASE f = n + 1
      BY <1>3, <2>1, <2>2, <2>3, <2>6, <3>1, <3>3 DEF ShotsInv
    <3> QED
      BY <3>1, <3>2, <3>3
  <2>7. \A e \in 1 .. n + 1 : row'[Trigger] # 0 => event'[e][Trigger] < row'[Trigger]
    BY <1>3, <2>4, <2>5
  <2> QED
    BY <1>1, <1>2, <2>1, <2>4, <2>5, <2>6, <2>7 DEF ShotsInv, Shot
<1> QED
  BY <1>3, <1>6, <1>7, TakenWhat

----------------------------------------------------------------------------
(* TrackMerge: the clock of the chips, and what is matched. *)

\* The clock after the events that are written: f is the first trigger, k the last with
\* a pause before it, l the last. Until the first pause the reset time is absolute.
ClockIs(k, l, f) ==
  /\ FirstShot(f) /\ LastPause(k, l) /\ l \in DoneShots /\ \A j \in DoneShots : j <= l
  /\ clock = [first |-> HitTime(f), previous |-> HitTime(l), reset |-> IF k = f THEN HitTime(f) ELSE HitTime(k) - HitTime(f)]
ClockInv ==
  /\ tStage = "build" => out = << >>
  /\ nTriggers = 0 <=> DoneShots = {}
  /\ DoneShots # {} => \E k, l, f \in Trk!TriggerHits : ClockIs(k, l, f)

\* A match is not far ahead of its hit.
NotAhead(p, h) == \A f : FirstShot(f) => OnRun(p, h, f) < Far
\* What event e may be matched with: never far ahead, and what is promised where the
\* times can be compared.
RightFor(e, m) ==
  /\ m # 0 => m \in 1 .. NReadings /\ Shot(e) # 0 /\ NotAhead(m, Shot(e))
  /\ m # 0 /\ Trk!Comparable(Shot(e)) => Seen(m) = Of(Shot(e))
  /\ /\ Trk!Comparable(Shot(e))
     /\ \E p \in 1 .. NReadings : Seen(p) = Of(Shot(e))
     /\ \A j \in Trk!TriggerHits : j < Shot(e) => Of(j) # Of(Shot(e))
     => m # 0
ResultInv ==
  /\ \A e \in DOMAIN out : RightFor(e, out[e].match)
  /\ matched # 0 => \E e \in DOMAIN out : out[e].match = matched
TimesInv == TrkInv /\ ShotsInv /\ ClockInv /\ ResultInv

\* What is said of the hits of the events stays when these do.
LEMMA ShotsAfter ==
  ASSUME tInput' = tInput, event' = event
  PROVE  /\ Trk!TriggerHits' = Trk!TriggerHits
         /\ \A e, m : RightFor(e, m)' <=> RightFor(e, m)
         /\ \A k : /\ HitTime(k)' = HitTime(k)
                   /\ FirstShot(k)' <=> FirstShot(k)
                   /\ Trk!PauseBefore(k)' <=> Trk!PauseBefore(k)
                   /\ Trk!Comparable(k)' <=> Trk!Comparable(k)
                   /\ \A h : /\ LastPause(k, h)' <=> LastPause(k, h)
                             /\ NotAhead(k, h)' <=> NotAhead(k, h)
<1>1. Trk!TriggerHits' = Trk!TriggerHits
  BY DEF Trk!TriggerHits
<1>2. \A k : HitTime(k)' = HitTime(k) /\ TimeOf(k)' = TimeOf(k) /\ Seen(k)' = Seen(k)
  BY DEF HitTime, Hits, TimeOf, Seen
<1>3. \A k : Trk!PauseBefore(k)' <=> Trk!PauseBefore(k)
  BY <1>1 DEF Trk!PauseBefore, Trk!Hit
<1>4. \A k : FirstShot(k)' <=> FirstShot(k)
  BY <1>1 DEF FirstShot
<1>5. \A k, h : LastPause(k, h)' <=> LastPause(k, h)
  BY <1>1, <1>3 DEF LastPause
<1>6. \A k, h : NotAhead(k, h)' <=> NotAhead(k, h)
  BY <1>2, <1>4 DEF NotAhead, OnRun, HitTime, Hits, TimeOf, Seen
<1>7. \A k : Trk!SamePauses(k)' <=> Trk!SamePauses(k)
  <2>1. Trk!Reading' = Trk!Reading /\ \A q : Trk!TrueTime(q)' = Trk!TrueTime(q)
    BY DEF Trk!Reading, Trk!TrueTime
  <2>2. \A q : Trk!PauseBeforeReading(q)' <=> Trk!PauseBeforeReading(q)
    BY <2>1 DEF Trk!PauseBeforeReading
  <2> SUFFICES ASSUME NEW h PROVE Trk!SamePauses(h)' <=> Trk!SamePauses(h)
    OBVIOUS
  <2>3. {j \in Trk!TriggerHits : j <= h /\ Trk!PauseBefore(j)}' = {j \in Trk!TriggerHits : j <= h /\ Trk!PauseBefore(j)}
    BY <1>1, <1>3, Zenon
  <2>4. {q \in Trk!Reading : tInput.bco[q][2] <= Trk!Hit(h)[3] /\ Trk!PauseBeforeReading(q)}'
        = {q \in Trk!Reading : tInput.bco[q][2] <= Trk!Hit(h)[3] /\ Trk!PauseBeforeReading(q)}
    BY <2>1, <2>2, Zenon DEF Trk!Hit
  <2> QED
    BY <2>3, <2>4, Zenon DEF Trk!SamePauses, Trk!Hit
<1>8. \A k : Trk!Comparable(k)' <=> Trk!Comparable(k)
  BY <1>1, <1>3, <1>7 DEF Trk!Comparable
<1>9. \A e, m : RightFor(e, m)' <=> RightFor(e, m)
  <2>1. NReadings' = NReadings /\ \A e : Shot(e)' = Shot(e)
    BY DEF NReadings, Shot
  <2>2. \A k : Of(k)' = Of(k) /\ Seen(k)' = Seen(k)
    BY DEF Of, Hits, Seen
  <2> SUFFICES ASSUME NEW e, NEW m PROVE RightFor(e, m)' <=> RightFor(e, m)
    OBVIOUS
  <2>3. NotAhead(m, Shot(e))' <=> NotAhead(m, Shot(e))
    BY <2>1, <1>6 DEF Shot
  <2>4. Trk!Comparable(Shot(e))' <=> Trk!Comparable(Shot(e))
    BY <2>1, <1>8 DEF Shot
  <2> QED
    BY <1>1, <2>1, <2>2, <2>3, <2>4 DEF RightFor
<1> QED
  BY <1>1, <1>2, <1>3, <1>4, <1>5, <1>6, <1>8, <1>9

\* The triggers of the events behind those written are behind those written.
LEMMA DoneFirst ==
  ASSUME TrkInv, ShotsInv, NEW n \in DOMAIN event, n = Len(out) + 1, Shot(n) # 0
  PROVE  /\ Shot(n) \in Trk!TriggerHits /\ Trk!TriggerHits \in SUBSET (Nat \ {0})
         /\ \A j \in DoneShots : j \in Trk!TriggerHits /\ j < Shot(n)
         /\ \A j \in Trk!TriggerHits : j \in DoneShots \/ j >= Shot(n)
<1>1. /\ Len(event) \in Nat /\ DOMAIN event = 1 .. Len(event) /\ Len(out) \in Nat
      /\ DOMAIN out = 1 .. Len(out) /\ Len(out) <= Len(event) /\ tIndex \in Nat
      /\ \A e \in DOMAIN event : Shot(e) \in 0 .. tIndex
  BY ShotTypes
<1>2. Trk!TriggerHits = {Shot(e) : e \in DOMAIN event} \ {0}
  BY DEF Trk!TriggerHits, Shot
<1>3. Trk!TriggerHits \in SUBSET (Nat \ {0}) /\ Shot(n) \in Trk!TriggerHits
  BY <1>1, <1>2
<1>4. ASSUME NEW j \in DoneShots PROVE j \in Trk!TriggerHits /\ j < Shot(n)
  <2>1. PICK e \in DOMAIN out : j = Shot(e) /\ j # 0
    BY DEF DoneShots
  <2>2. e \in DOMAIN event /\ e < n
    BY <1>1, <2>1
  <2> QED
    BY <1>2, <2>1, <2>2 DEF ShotsInv
<1>5. ASSUME NEW j \in Trk!TriggerHits PROVE j \in DoneShots \/ j >= Shot(n)
  <2>1. PICK e \in DOMAIN event : j = Shot(e) /\ j # 0
    BY <1>2
  <2>2. CASE e < n
    <3>1. e \in DOMAIN out
      BY <1>1, <2>2
    <3> QED
      BY <2>1, <3>1 DEF DoneShots
  <2>3. CASE e = n
    BY <1>1, <2>1, <2>3
  <2>4. CASE n < e
    BY <1>1, <2>1, <2>4 DEF ShotsInv
  <2> QED
    BY <1>1, <2>2, <2>3, <2>4
<1> QED
  BY <1>3, <1>4, <1>5

\* What a trigger at time a does to the clock.
LEMMA RecordSet ==
  ASSUME NEW x, NEW y, NEW z, NEW a, NEW w
  PROVE  [[first |-> x, previous |-> y, reset |-> z] EXCEPT !.previous = a, !.reset = w]
         = [first |-> x, previous |-> a, reset |-> w]
<1>1. PICK c : c = [first |-> x, previous |-> y, reset |-> z]
  OBVIOUS
<1>2. DOMAIN c = {"first", "previous", "reset"} /\ c["first"] = x /\ c["previous"] = y /\ c["reset"] = z
  BY <1>1
<1>3. c \in [{"first", "previous", "reset"} -> {x, y, z}]
  BY <1>1
<1>4. PICK d : d = [c EXCEPT !["previous"] = a]
  OBVIOUS
<1>5. d = [i \in {"first", "previous", "reset"} |-> IF i = "previous" THEN a ELSE c[i]]
  BY <1>2, <1>3, <1>4
<1>6. PICK e : e = [d EXCEPT !["reset"] = w]
  OBVIOUS
<1>7. e = [i \in {"first", "previous", "reset"} |-> IF i = "reset" THEN w ELSE d[i]]
  BY <1>5, <1>6
<1>8. e = [first |-> x, previous |-> a, reset |-> w]
  BY <1>2, <1>5, <1>7
<1>9. [c EXCEPT !.previous = a, !.reset = w] = [[c EXCEPT !["previous"] = a] EXCEPT !["reset"] = w]
  OBVIOUS
<1> QED
  BY <1>1, <1>4, <1>6, <1>8, <1>9

LEMMA TickIs ==
  ASSUME NEW x, NEW y, NEW z, NEW a, Trk!FirstTrigger(a) = [first |-> x, previous |-> y, reset |-> z]
  PROVE  Trk!Tick(a) = [first |-> x, previous |-> a, reset |-> IF a - y > Pause THEN a - x ELSE z]
<1>1. PICK c : c = [first |-> x, previous |-> y, reset |-> z]
  OBVIOUS
<1>2. c.first = x /\ c.previous = y /\ c.reset = z
  BY <1>1
<1>3. Trk!Tick(a) = [c EXCEPT !.previous = a, !.reset = IF a - c.previous > Pause THEN a - c.first ELSE @]
  BY <1>1 DEF Trk!Tick
<1>4. Trk!Tick(a) = [c EXCEPT !.previous = a, !.reset = IF a - y > Pause THEN a - x ELSE z]
  BY <1>2, <1>3
<1> QED
  BY <1>1, <1>4, RecordSet

\* After a trigger the clock is that of the events up to it.
LEMMA ClockStep ==
  ASSUME TrkInv, ShotsInv, ClockInv, NEW n \in DOMAIN event, n = Len(out) + 1, Shot(n) # 0
  PROVE  \E k, f \in Trk!TriggerHits :
           /\ FirstShot(f) /\ LastPause(k, Shot(n))
           /\ Trk!Tick(HitTime(Shot(n))) = [first |-> HitTime(f), previous |-> HitTime(Shot(n)),
                                       reset |-> IF k = f THEN HitTime(f) ELSE HitTime(k) - HitTime(f)]
           /\ Trk!Elapsed(HitTime(Shot(n))) = HitTime(Shot(n)) - HitTime(f)
           /\ nTriggers = 0 <=> Shot(n) = f
           /\ nTriggers = 0 => DoneShots = {}
<1>0. PICK h : h = Shot(n)
  OBVIOUS
<1>1. ShotsRight /\ TrackRight /\ h \in Shots /\ h \in Trk!TriggerHits /\ Trk!TriggerHits \in SUBSET Shots
  BY <1>0, ShotsRightNow, DoneFirst DEF ShotsRight
<1>2. PICK a \in Int : a = HitTime(h)
  BY <1>1, TriggerTypes
<1>3. /\ Trk!TriggerHits \in SUBSET (Nat \ {0})
      /\ \A j \in DoneShots : j \in Trk!TriggerHits /\ j < h
      /\ \A j \in Trk!TriggerHits : j \in DoneShots \/ j >= h
  BY <1>0, DoneFirst
<1>4. Pause \in Nat
  BY LimitsType
<1>5. CASE nTriggers = 0
  <2>1. DoneShots = {}
    BY <1>5 DEF ClockInv
  <2>2. \A j \in Trk!TriggerHits : j >= h /\ ~(j < h)
    <3>1. h \in Nat /\ \A j \in Trk!TriggerHits : j \in Nat /\ j >= h
      BY <1>1, <1>3, <2>1
    <3> QED
      BY <3>1
  <2>3. FirstShot(h)
    BY <1>1, <1>3, <2>2 DEF FirstShot
  <2>4. LastPause(h, h)
    BY <1>1, <1>3, <2>2 DEF LastPause, Trk!PauseBefore
  <2>5. Trk!FirstTrigger(a) = [first |-> a, previous |-> a, reset |-> a]
    BY <1>5 DEF Trk!FirstTrigger
  <2>6. Trk!Tick(a) = [first |-> a, previous |-> a, reset |-> a]
    <3>1. Trk!Tick(a) = [first |-> a, previous |-> a, reset |-> IF a - a > Pause THEN a - a ELSE a]
      BY <2>5, TickIs
    <3>2. ~(a - a > Pause)
      BY <1>2, <1>4
    <3> QED
      BY <3>1, <3>2
  <2>7. Trk!Elapsed(a) = a - a
    BY <2>5 DEF Trk!Elapsed
  <2> QED
    BY <1>0, <1>1, <1>2, <1>5, <2>1, <2>3, <2>4, <2>6, <2>7
<1>6. CASE nTriggers # 0
  <2>1. PICK k \in Trk!TriggerHits, l \in Trk!TriggerHits, f \in Trk!TriggerHits : ClockIs(k, l, f)
    BY <1>6 DEF ClockInv
  <2>2. /\ FirstShot(f) /\ LastPause(k, l) /\ l \in DoneShots /\ l < h /\ f <= l /\ k <= l
        /\ k \in Nat /\ l \in Nat /\ f \in Nat /\ h \in Nat
        /\ \A j \in DoneShots : j <= l
    BY <1>1, <1>3, <2>1 DEF ClockIs, FirstShot, LastPause
  <2>3. PICK ak \in Int, al \in Int, af \in Int, z \in Int :
          ak = HitTime(k) /\ al = HitTime(l) /\ af = HitTime(f) /\ z = IF k = f THEN HitTime(f) ELSE HitTime(k) - HitTime(f)
    <3>1. HitTime(k) \in Int /\ HitTime(l) \in Int /\ HitTime(f) \in Int
      BY <1>1, TriggerTypes
    <3>2. (IF k = f THEN HitTime(f) ELSE HitTime(k) - HitTime(f)) \in Int
      BY <3>1
    <3> QED
      BY <3>1, <3>2
  <2>4. clock = [first |-> af, previous |-> al, reset |-> z]
    BY <2>1, <2>3 DEF ClockIs
  <2>5. Trk!FirstTrigger(a) = clock
    BY <1>6 DEF Trk!FirstTrigger
  <2>6. Trk!Tick(a) = [first |-> af, previous |-> a, reset |-> IF a - al > Pause THEN a - af ELSE z]
    BY <2>4, <2>5, TickIs
  <2>7. Trk!Elapsed(a) = a - af
    BY <2>4, <2>5 DEF Trk!Elapsed
  <2>8. Trk!PauseBefore(h) <=> a - al > Pause
    <3>1. \A j \in Trk!TriggerHits : j < h => HitTime(j) \in Int /\ HitTime(j) <= al
      <4> SUFFICES ASSUME NEW j \in Trk!TriggerHits, j < h PROVE HitTime(j) \in Int /\ HitTime(j) <= al
        OBVIOUS
      <4>1. j \in DoneShots /\ j \in Nat
        BY <1>3, <2>2
      <4>2. j <= l /\ j \in Shots /\ l \in Shots
        BY <1>1, <2>2, <4>1
      <4> QED
        BY <1>1, <2>3, <4>2, ShotsInOrder
    <3>2. Trk!PauseBefore(h) <=> \A j \in Trk!TriggerHits : j < h => a - HitTime(j) > Pause
      BY <1>2 DEF Trk!PauseBefore, Trk!Hit, HitTime, Hits
    <3>3. a - al > Pause => \A j \in Trk!TriggerHits : j < h => a - HitTime(j) > Pause
      BY <1>4, <2>3, <3>1
    <3> QED
      BY <2>2, <2>3, <3>2, <3>3
  <2>9. h # f
    BY <2>2
  <2>10. CASE a - al > Pause
    <3>1. LastPause(h, h)
      <4>1. Trk!PauseBefore(h) /\ h <= h
        BY <2>2, <2>8, <2>10
      <4> QED
        BY <1>1, <4>1 DEF LastPause
    <3>2. Trk!Tick(a) = [first |-> af, previous |-> a, reset |-> a - af]
      BY <2>6, <2>10
    <3> QED
      BY <1>0, <1>1, <1>2, <1>6, <2>2, <2>3, <2>7, <2>9, <3>1, <3>2
  <2>11. CASE ~(a - al > Pause)
    <3>1. LastPause(k, h)
      <4>1. ASSUME NEW j \in Trk!TriggerHits, j <= h, Trk!PauseBefore(j) PROVE j <= k
        <5>1. j # h
          BY <2>8, <2>11, <4>1
        <5>2. j \in DoneShots
          BY <1>3, <2>2, <4>1, <5>1
        <5> QED
          BY <2>2, <4>1, <5>2 DEF LastPause
      <4> QED
        BY <2>2, <4>1 DEF LastPause
    <3>2. Trk!Tick(a) = [first |-> af, previous |-> a, reset |-> z]
      BY <2>6, <2>11
    <3> QED
      BY <1>0, <1>1, <1>2, <1>6, <2>1, <2>2, <2>3, <2>7, <2>9, <3>1, <3>2
  <2> QED
    BY <2>10, <2>11
<1> QED
  BY <1>5, <1>6

\* What Agree compares.
LEMMA AgreeIs ==
  ASSUME ShotsRight, NEW h, NEW f, NEW k, NEW p \in 1 .. NReadings, h \in Shots, f \in Shots, k \in Shots,
         Trk!Elapsed(HitTime(h)) = HitTime(h) - HitTime(f),
         nTriggers # 0 => Trk!Tick(HitTime(h)).reset = HitTime(k) - HitTime(f), nTriggers = 0 => k = h /\ f = h
  PROVE  \E r \in 1 .. NReadings :
           /\ LastBreak(r, p)
           /\ Trk!Agree(p, HitTime(h)) <=>
                /\ OnRun(p, h, f) < Far /\ -OnRun(p, h, f) < Far
                /\ SincePause(p, h, r, k, f) < Near /\ -SincePause(p, h, r, k, f) < Near
<1>1. PICK r \in 1 .. NReadings : r = Trk!ResetIndex(p) /\ LastBreak(r, p)
  <2>1. LastBreak(Trk!ResetIndex(p), p) /\ NReadings \in Nat
    BY ResetIndexIs, TriggerTypes DEF ShotsRight
  <2>2. Trk!ResetIndex(p) \in 1 .. NReadings
    BY <2>1 DEF LastBreak
  <2> QED
    BY <2>1, <2>2
<1>2. 1 \in 1 .. NReadings
  BY TriggerTypes DEF ShotsRight
<1>3. PICK tp \in Int, tr \in Int, tx \in Int, ah \in Int, ak \in Int, af \in Int :
        tp = TimeOf(Seen(p)) /\ tr = TimeOf(Seen(r)) /\ tx = TimeOf(Seen(1)) /\ ah = HitTime(h) /\ ak = HitTime(k) /\ af = HitTime(f)
  BY <1>2, TriggerTypes DEF ShotsRight
<1>4. Trk!TrackerTime(p) = tp - tx /\ Trk!TrackerTime(r) = tr - tx
  BY <1>3, TrackerTimeIs DEF ShotsRight
<1>5. Trk!TrackerTimeResetted(p) = (tp - tx) - (tr - tx)
  BY <1>1, <1>4 DEF Trk!TrackerTimeResetted
<1>6. Trk!Elapsed(ah) = ah - af /\ Trk!ElapsedResetted(ah) = (ah - af) - (ak - af)
  <2>1. CASE nTriggers = 0
    BY <1>3, <2>1 DEF Trk!ElapsedResetted
  <2>2. CASE nTriggers # 0
    BY <1>3, <2>2 DEF Trk!ElapsedResetted
  <2> QED
    BY <1>3, <2>1, <2>2
<1>7. PICK u \in Int, v \in Int : u = (tp - tx) - (ah - af) /\ v = ((tp - tx) - (tr - tx)) - ((ah - af) - (ak - af))
  OBVIOUS
<1>8. Trk!Agree(p, ah) <=> Trk!Abs(u) < Far /\ Trk!Abs(v) < Near
  BY <1>4, <1>5, <1>6, <1>7 DEF Trk!Agree
<1>9. OnRun(p, h, f) = u /\ SincePause(p, h, r, k, f) = v
  BY <1>3, <1>7 DEF OnRun, SincePause
<1>10. (Trk!Abs(u) < Far <=> u < Far /\ -u < Far) /\ (Trk!Abs(v) < Near <=> v < Near /\ -v < Near)
  BY LimitsType DEF Trk!Abs
<1> QED
  BY <1>1, <1>3, <1>8, <1>9, <1>10

\* The match agrees, and there is one when a reading agrees: none before the first that
\* agrees is too far ahead.
LEMMA MatchAgrees ==
  ASSUME TrkInv, ShotsInv, NEW t, Trk!Elapsed(t) \in Int
  PROVE  /\ Trk!MatchOf(t) # 0 =>
              /\ Trk!MatchOf(t) \in 1 .. NReadings /\ Trk!MatchOf(t) > matched /\ Trk!Agree(Trk!MatchOf(t), t)
         /\ \A p \in 1 .. NReadings : p > matched /\ Trk!Agree(p, t) =>
              Trk!MatchOf(t) # 0 /\ Trk!MatchOf(t) <= p
<1>1. TrackRight /\ NReadings \in Nat /\ Trk!Reading = 1 .. NReadings /\ matched \in Nat
  BY ShotsRightNow, TriggerTypes DEF ShotsRight, TrkInv, Trk!TypeOK
<1>2. PICK A : A = {p \in Trk!Candidates : Trk!Agree(p, t)}
  BY Zenon
<1>3. \A p : p \in A <=> p \in 1 .. NReadings /\ p > matched /\ Trk!Agree(p, t)
  BY <1>1, <1>2 DEF Trk!Candidates
<1>4. A \in SUBSET (0 .. NReadings)
  BY <1>1, <1>3
<1>5. CASE A = {}
  BY <1>2, <1>3, <1>5 DEF Trk!MatchOf
<1>6. CASE A # {}
  <2>1. PICK m : m = Min(A) /\ MinOf(A, m)
    BY <1>1, <1>4, <1>6, NatMin
  <2>2. m \in A /\ \A p \in A : m <= p
    BY <2>1 DEF MinOf
  <2>3. Trk!Min(A) = m
    BY <2>1 DEF Trk!Min, Min
  <2>4. m \in 1 .. NReadings /\ m > matched /\ Trk!Agree(m, t)
    BY <1>3, <2>2
  <2>5. ASSUME NEW q \in Trk!Candidates, Trk!TrackerTime(q) - Trk!Elapsed(t) > Far PROVE q > m
    <3>1. q \in 1 .. NReadings
      BY <1>1 DEF Trk!Candidates
    <3>2. PICK x \in 1 .. NTriggers, y \in 1 .. NTriggers, z \in 1 .. NTriggers : x = Seen(m) /\ y = Seen(q) /\ z = Seen(1)
      <4>1. 1 \in 1 .. NReadings
        BY <1>1, <2>4
      <4> QED
        BY <1>1, <2>4, <3>1, <4>1, TriggerTypes
    <3>3. PICK tx \in Int, ty \in Int, tz \in Int, e \in Int :
            tx = TimeOf(x) /\ ty = TimeOf(y) /\ tz = TimeOf(z) /\ e = Trk!Elapsed(t)
      BY <1>1, TriggerTypes
    <3>4. Trk!TrackerTime(m) = tx - tz /\ Trk!TrackerTime(q) = ty - tz
      BY <1>1, <2>4, <3>1, <3>2, <3>3, TrackerTimeIs
    <3>5. Trk!Abs(tx - tz - e) < Far
      BY <2>4, <3>3, <3>4 DEF Trk!Agree
    <3>6. tx - tz - e < Far
      BY <3>3, <3>5, LimitsType DEF Trk!Abs
    <3>7. tx < ty
      BY <2>5, <3>3, <3>4, <3>6, LimitsType
    <3>8. x < y
      BY <1>1, <3>3, <3>7, LaterTriggers
    <3>9. ~(q < m) /\ q # m
      BY <1>1, <2>4, <3>1, <3>2, <3>8, TriggerOrder
    <3> QED
      BY <1>1, <2>4, <3>1, <3>9
  <2>6. Trk!MatchOf(t) = m
    BY <1>2, <1>6, <2>3, <2>5 DEF Trk!MatchOf
  <2>7. m # 0
    BY <2>4
  <2> QED
    BY <1>3, <2>2, <2>4, <2>6, <2>7
<1> QED
  BY <1>5, <1>6

\* Up to an earlier hit, the pauses were seen alike as well.
LEMMA AlikeBefore ==
  ASSUME ShotsRight, NEW h \in Trk!TriggerHits, Trk!SamePauses(h), NEW g \in Trk!TriggerHits, g < h
  PROVE  Trk!SamePauses(g)
<1>1. TrackRight /\ Trk!TriggerHits \in SUBSET Shots /\ Trk!Reading = 1 .. NReadings
  BY TriggerTypes DEF ShotsRight
<1>2. h \in Nat /\ g \in Nat /\ Of(g) \in Nat /\ Of(h) \in Nat /\ Of(g) <= Of(h)
  BY <1>1, ShotsInOrder
<1>3. ASSUME NEW j \in Trk!TriggerHits, j <= g, Trk!PauseBefore(j)
      PROVE  \E q \in 1 .. NReadings : Seen(q) = Of(j) /\ Seen(q) <= Of(g) /\ Trk!PauseBeforeReading(q)
  <2>1. j \in Nat /\ Of(j) \in Nat /\ Of(j) <= Of(g)
    BY <1>1, <1>3, ShotsInOrder
  <2>2. j <= h
    BY <1>2, <1>3, <2>1
  <2> QED
    BY <1>3, <2>1, <2>2, SeenAlike
<1>4. ASSUME NEW q \in 1 .. NReadings, Seen(q) <= Of(g), Trk!PauseBeforeReading(q)
      PROVE  \E j \in Trk!TriggerHits : j <= g /\ Trk!PauseBefore(j) /\ Of(j) = Seen(q)
  <2>1. Seen(q) \in Nat /\ Seen(q) <= Of(h)
    <3>1. Seen(q) \in 1 .. NTriggers /\ NTriggers \in Nat
      BY <1>1, TriggerTypes
    <3> QED
      BY <1>2, <1>4, <3>1
  <2>2. PICK j \in Trk!TriggerHits : j <= h /\ Trk!PauseBefore(j) /\ Of(j) = Seen(q)
    BY <1>4, <2>1, SeenAlike
  <2>3. j \in Nat /\ Of(j) \in Nat
    BY <1>1, ShotsInOrder
  <2>4. ~(g < j)
    <3>1. ASSUME g < j PROVE FALSE
      <4>1. Of(g) <= Of(j)
        BY <1>1, <2>3, <3>1, ShotsInOrder
      <4>2. Of(g) = Of(j)
        BY <1>2, <1>4, <2>2, <2>3, <4>1
      <4>3. PICK a \in Int, b \in Int, u \in Int : a = HitTime(j) /\ b = HitTime(g) /\ u = TimeOf(Of(j))
        BY <1>1, TriggerTypes
      <4>4. a - b > Pause
        BY <2>2, <3>1, <4>3 DEF Trk!PauseBefore, Trk!Hit, HitTime, Hits
      <4>5. a - b <= u - u + Jitter
        BY <1>1, <4>2, <4>3, BetweenShots
      <4> QED
        BY <4>3, <4>4, <4>5, LimitsType
    <3> QED
      BY <3>1
  <2> QED
    BY <1>2, <2>2, <2>3, <2>4
<1>5. PICK L : L = {Of(k) : k \in {j \in Trk!TriggerHits : j <= g /\ Trk!PauseBefore(j)}}
  OBVIOUS
<1>6. PICK R : R = {Seen(p) : p \in {q \in 1 .. NReadings : Seen(q) <= Of(g) /\ Trk!PauseBeforeReading(q)}}
  OBVIOUS
<1>7. \A x : x \in L => x \in R
  BY <1>3, <1>5, <1>6
<1>8. \A x : x \in R => x \in L
  BY <1>4, <1>5, <1>6
<1>9. L = R
  BY <1>7, <1>8
<1> QED
  BY <1>1, <1>5, <1>6, <1>9 DEF Trk!SamePauses, Trk!Hit, Of, Seen, Hits

\* Comparable in terms of the first trigger and the last pause.
LEMMA ComparableIs ==
  ASSUME ShotsRight, NEW h \in Trk!TriggerHits, NEW f, FirstShot(f), NEW k, LastPause(k, h)
  PROVE  Trk!Comparable(h) <=> Trk!SamePauses(h) /\ (h = f \/ k # f)
<1>1. Trk!TriggerHits \in SUBSET Nat /\ 0 \notin Trk!TriggerHits
  <2>1. \A j \in Trk!TriggerHits : j \in Shots /\ j # 0
    BY DEF ShotsRight, Trk!TriggerHits
  <2> QED
    BY <2>1, TriggerTypes DEF ShotsRight
<1>2. Trk!Min(Trk!TriggerHits) = f
  <2>1. f \in Trk!TriggerHits /\ \A j \in Trk!TriggerHits : f <= j
    BY DEF FirstShot
  <2>2. \A x \in Trk!TriggerHits : (\A y \in Trk!TriggerHits : x <= y) => x = f
    BY <1>1, <2>1
  <2> QED
    BY <2>1, <2>2, Zenon DEF Trk!Min
<1>3. ASSUME NEW j \in Trk!TriggerHits, j <= h, j # f, Trk!PauseBefore(j) PROVE k # f
  <2>1. j <= k /\ f <= j /\ j \in Nat /\ k \in Nat /\ f \in Nat
    BY <1>1, <1>3 DEF LastPause, FirstShot
  <2> QED
    BY <1>3, <2>1
<1>4. k \in Trk!TriggerHits /\ k <= h /\ Trk!PauseBefore(k)
  BY DEF LastPause
<1> QED
  BY <1>1, <1>2, <1>3, <1>4 DEF Trk!Comparable

\* A reading that agrees is not far ahead.
LEMMA AgreesOnRun ==
  ASSUME ShotsRight, NEW h \in Shots, NEW f \in Shots, NEW p \in 1 .. NReadings,
         Trk!Elapsed(HitTime(h)) = HitTime(h) - HitTime(f), Trk!Agree(p, HitTime(h))
  PROVE  OnRun(p, h, f) < Far
<1>1. 1 \in 1 .. NReadings
  BY TriggerTypes DEF ShotsRight
<1>2. PICK tp \in Int, tx \in Int, ah \in Int, af \in Int :
        tp = TimeOf(Seen(p)) /\ tx = TimeOf(Seen(1)) /\ ah = HitTime(h) /\ af = HitTime(f)
  BY <1>1, TriggerTypes DEF ShotsRight
<1>3. Trk!TrackerTime(p) = tp - tx
  BY <1>2, TrackerTimeIs DEF ShotsRight
<1>4. Trk!Abs((tp - tx) - (ah - af)) < Far
  BY <1>2, <1>3 DEF Trk!Agree
<1>5. (tp - tx) - (ah - af) < Far
  BY <1>2, <1>4, LimitsType DEF Trk!Abs
<1> QED
  BY <1>2, <1>5 DEF OnRun

\* What was not far ahead of a hit is before the pause after it.
LEMMA BeforePause ==
  ASSUME NEW m \in Int, NEW f \in Int, NEW k \in Int, NEW g \in Int, NEW a \in Int, NEW b \in Int,
         (m - f) - (g - b) < Far, a - g > Pause, a - b <= k - f + Jitter
  PROVE  m < k
  BY LimitsType

\* A reading of a hit that can be compared is behind those matched before, when no hit
\* before is of the same trigger.
LEMMA OwnIsLater ==
  ASSUME TimesInv, NEW n \in DOMAIN event, n = Len(out) + 1, Shot(n) # 0,
         NEW f, FirstShot(f), NEW k, LastPause(k, Shot(n)), nTriggers = 0 <=> Shot(n) = f,
         nTriggers = 0 => DoneShots = {}, Trk!Comparable(Shot(n)),
         NEW p \in 1 .. NReadings, Seen(p) = Of(Shot(n)),
         \A j \in Trk!TriggerHits : j < Shot(n) => Of(j) # Of(Shot(n))
  PROVE  p > matched
<1>0. PICK h : h = Shot(n)
  OBVIOUS
<1>1. TrkInv /\ ShotsInv /\ ResultInv /\ ShotsRight /\ TrackRight /\ Trk!TriggerHits \in SUBSET Shots
      /\ matched \in Nat /\ p \in Nat /\ NReadings \in Nat /\ p >= 1
  BY ShotsRightNow, TriggerTypes DEF TimesInv, ShotsRight, TrkInv, Trk!TypeOK
<1>2. CASE matched = 0
  BY <1>1, <1>2
<1>3. CASE matched # 0
  <2>1. PICK e \in DOMAIN out : out[e].match = matched
    BY <1>1, <1>3 DEF ResultInv
  <2>2. PICK g : g = Shot(e)
    OBVIOUS
  <2>3. matched \in 1 .. NReadings /\ g # 0 /\ NotAhead(matched, g)
    BY <1>1, <1>3, <2>1, <2>2 DEF ResultInv, RightFor
  <2>4. g \in DoneShots
    BY <2>2, <2>3 DEF DoneShots
  <2>5. g \in Trk!TriggerHits /\ g < h /\ h \in Trk!TriggerHits
    BY <1>0, <1>1, <2>4, DoneFirst
  <2>6. f \in Trk!TriggerHits /\ k \in Trk!TriggerHits /\ k <= h /\ Trk!PauseBefore(k)
    BY <1>0 DEF FirstShot, LastPause
  <2>7. /\ g \in Nat /\ h \in Nat /\ k \in Nat /\ f \in Nat
        /\ Of(g) \in Nat /\ Of(h) \in Nat /\ Of(k) \in Nat /\ Of(g) <= Of(h) /\ Of(k) <= Of(h)
    <3>1. g \in Shots /\ h \in Shots /\ k \in Shots /\ f \in Shots
      BY <1>1, <2>5, <2>6
    <3>2. g \in Nat /\ h \in Nat /\ k \in Nat /\ f \in Nat /\ Of(g) \in Nat /\ Of(h) \in Nat /\ Of(k) \in Nat
      BY <1>1, <3>1, ShotsInOrder
    <3>3. g <= h
      BY <2>5, <3>2
    <3> QED
      BY <1>1, <2>6, <3>1, <3>2, <3>3, ShotsInOrder
  <2>8. Of(g) < Of(h)
    BY <1>0, <2>5, <2>7
  <2>9. Seen(p) \in Nat /\ Seen(matched) \in Nat
    BY <1>1, <2>3, TriggerTypes
  <2>10. Seen(matched) < Of(h)
    <3>1. CASE Trk!Comparable(g)
      <4>1. Seen(matched) = Of(g)
        BY <1>1, <1>3, <2>1, <2>2, <3>1 DEF ResultInv, RightFor
      <4> QED
        BY <2>8, <4>1
    <3>2. CASE ~Trk!Comparable(g)
      <4>1. h # f /\ Trk!SamePauses(h) /\ k # f
        <5>1. h # f
          BY <1>0, <2>4
        <5> QED
          BY <1>0, <1>1, <2>5, <5>1, ComparableIs
      <4>2. g < k
        <5>1. ASSUME k <= g PROVE FALSE
          <6>1. LastPause(k, g)
            <7>1. \A j \in Trk!TriggerHits : j \in Nat /\ (j <= g => j <= h)
              <8>1. \A j \in Trk!TriggerHits : j \in Nat
                BY <1>1, ShotsInOrder
              <8> QED
                BY <2>5, <2>7, <8>1
            <7> QED
              BY <1>0, <2>6, <5>1, <7>1 DEF LastPause
          <6>2. Trk!SamePauses(g)
            BY <1>1, <2>5, <4>1, AlikeBefore
          <6> QED
            BY <1>1, <2>5, <3>2, <4>1, <6>1, <6>2, ComparableIs
        <5> QED
          BY <2>7, <5>1
      <4>3. g \in Shots /\ k \in Shots /\ f \in Shots
        BY <1>1, <2>5, <2>6
      <4>4. 1 \in 1 .. NReadings /\ Seen(1) = Of(f)
        BY <1>1, <2>5, <4>1, FirstAlike
      <4>5. PICK tm \in Int, tf \in Int, tk \in Int, ag \in Int, ak \in Int, af \in Int :
              /\ tm = TimeOf(Seen(matched)) /\ tf = TimeOf(Of(f)) /\ tk = TimeOf(Of(k))
              /\ ag = HitTime(g) /\ ak = HitTime(k) /\ af = HitTime(f)
        BY <1>1, <2>3, <4>3, TriggerTypes
      <4>6. (tm - tf) - (ag - af) < Far
        BY <2>3, <4>4, <4>5 DEF NotAhead, OnRun
      <4>7. ak - ag > Pause
        BY <2>5, <2>6, <4>2, <4>5 DEF Trk!PauseBefore, Trk!Hit, HitTime, Hits
      <4>8. ak - af <= tk - tf + Jitter
        BY <1>1, <4>3, <4>5, BetweenShots
      <4>9. tm < tk
        BY <4>6, <4>7, <4>8, LimitsType, BeforePause
      <4>10. Seen(matched) \in 1 .. NTriggers /\ Of(k) \in 1 .. NTriggers
        BY <1>1, <2>3, <4>3, TriggerTypes
      <4>11. Seen(matched) < Of(k)
        BY <1>1, <4>5, <4>9, <4>10, LaterTriggers
      <4> QED
        BY <2>7, <2>9, <4>11
    <3> QED
      BY <3>1, <3>2
  <2>11. ~(p < matched) /\ p # matched
    <3>1. p < matched => Seen(p) < Seen(matched)
      BY <1>1, <2>3, TriggerOrder
    <3> QED
      BY <1>0, <2>7, <2>9, <2>10, <3>1
  <2> QED
    BY <1>1, <2>11
<1> QED
  BY <1>2, <1>3

\* What an event with a trigger is matched with.
LEMMA RightMatch ==
  ASSUME TimesInv, NEW n \in DOMAIN event, n = Len(out) + 1, Shot(n) # 0,
         NEW m, m = Trk!MatchOf(HitTime(Shot(n)))
  PROVE  RightFor(n, m)
<1>0. PICK h : h = Shot(n)
  OBVIOUS
<1>1. /\ TrkInv /\ ShotsInv /\ ClockInv /\ ShotsRight /\ Trk!TriggerHits \in SUBSET Shots
      /\ h \in Trk!TriggerHits /\ h \in Shots
  BY <1>0, ShotsRightNow, DoneFirst DEF TimesInv, ShotsRight
<1>2. PICK k \in Trk!TriggerHits, f \in Trk!TriggerHits :
        /\ FirstShot(f) /\ LastPause(k, h)
        /\ Trk!Tick(HitTime(h)) = [first |-> HitTime(f), previous |-> HitTime(h), reset |-> IF k = f THEN HitTime(f) ELSE HitTime(k) - HitTime(f)]
        /\ Trk!Elapsed(HitTime(h)) = HitTime(h) - HitTime(f)
        /\ nTriggers = 0 <=> h = f
        /\ nTriggers = 0 => DoneShots = {}
  BY <1>0, <1>1, ClockStep
<1>3. k \in Shots /\ f \in Shots /\ \A j \in Trk!TriggerHits : j \in Nat
  BY <1>1, ShotsInOrder DEF ShotsRight
<1>4. Trk!Elapsed(HitTime(h)) \in Int
  <2>1. HitTime(h) \in Int /\ HitTime(f) \in Int
    BY <1>1, <1>3, TriggerTypes DEF ShotsRight
  <2> QED
    BY <1>2, <2>1
<1>5. m # 0 => m \in 1 .. NReadings /\ m > matched /\ Trk!Agree(m, HitTime(h))
  BY <1>0, <1>1, <1>4, MatchAgrees
<1>6. ASSUME m # 0 PROVE NotAhead(m, h)
  <2> SUFFICES ASSUME NEW x, FirstShot(x) PROVE OnRun(m, h, x) < Far
    BY DEF NotAhead
  <2>1. x = f
    <3>1. x \in Trk!TriggerHits /\ x <= f /\ f <= x
      BY <1>2 DEF FirstShot
    <3> QED
      BY <1>3, <3>1
  <2> QED
    BY <1>1, <1>2, <1>3, <1>5, <1>6, <2>1, AgreesOnRun
<1>7. ASSUME Trk!Comparable(h), NEW p \in 1 .. NReadings
      PROVE  \E r \in 1 .. NReadings :
               /\ LastBreak(r, p)
               /\ Trk!Agree(p, HitTime(h)) <=>
                    /\ OnRun(p, h, f) < Far /\ -OnRun(p, h, f) < Far
                    /\ SincePause(p, h, r, k, f) < Near /\ -SincePause(p, h, r, k, f) < Near
  <2>1. nTriggers # 0 => Trk!Tick(HitTime(h)).reset = HitTime(k) - HitTime(f)
    <3>1. nTriggers # 0 => k # f
      BY <1>1, <1>2, <1>7, ComparableIs
    <3>2. Trk!Tick(HitTime(h)).reset = IF k = f THEN HitTime(f) ELSE HitTime(k) - HitTime(f)
      BY <1>2
    <3> QED
      BY <3>1, <3>2
  <2>2. nTriggers = 0 => k = h /\ f = h
    <3>1. f <= k /\ k <= h
      BY <1>2 DEF FirstShot, LastPause
    <3> QED
      BY <1>2, <1>3, <3>1
  <2> QED
    BY <1>1, <1>2, <1>3, <2>1, <2>2, AgreeIs
<1>8. Trk!Comparable(h) => Trk!SamePauses(h)
  BY DEF Trk!Comparable
<1>9. ASSUME m # 0, Trk!Comparable(h) PROVE Seen(m) = Of(h)
  <2>1. m \in 1 .. NReadings /\ Trk!Agree(m, HitTime(h))
    BY <1>5, <1>9
  <2>2. PICK r \in 1 .. NReadings :
          /\ LastBreak(r, m) /\ OnRun(m, h, f) < Far /\ -OnRun(m, h, f) < Far
          /\ SincePause(m, h, r, k, f) < Near /\ -SincePause(m, h, r, k, f) < Near
    BY <1>7, <1>9, <2>1
  <2> QED
    BY <1>1, <1>2, <1>8, <1>9, <2>1, <2>2, OwnTrigger
<1>10. ASSUME Trk!Comparable(h), NEW p \in 1 .. NReadings, Seen(p) = Of(h),
              \A j \in Trk!TriggerHits : j < h => Of(j) # Of(h)
       PROVE  m # 0
  <2>1. PICK r \in 1 .. NReadings :
          /\ LastBreak(r, p)
          /\ Trk!Agree(p, HitTime(h)) <=>
               /\ OnRun(p, h, f) < Far /\ -OnRun(p, h, f) < Far
               /\ SincePause(p, h, r, k, f) < Near /\ -SincePause(p, h, r, k, f) < Near
    BY <1>7, <1>10
  <2>2. Trk!Agree(p, HitTime(h))
    BY <1>1, <1>2, <1>8, <1>10, <2>1, OwnAgrees
  <2>3. p > matched
    BY <1>0, <1>2, <1>10, OwnIsLater
  <2> QED
    BY <1>0, <1>1, <1>4, <2>2, <2>3, MatchAgrees
<1> QED
  BY <1>0, <1>5, <1>6, <1>9, <1>10 DEF RightFor

\* TrackMerge: the invariant of the times at the beginning and after every step.
LEMMA TimesInit ==
  ASSUME OfflineInit
  PROVE  TimesInv
<1>1. TrkInv
  BY TrkInit
<1>2. TriggersApart(tInput)
  <2>1. CASE tInput \in TrackInputs
    BY <2>1, TriggersAssumption
  <2>2. CASE tInput = NoTriggers
    BY <2>2 DEF NoTriggers, TriggersApart, Fired
  <2> QED
    BY <2>1, <2>2 DEF OfflineInit
<1>3. /\ tStage = "build" /\ row = [c \in TrackChannel |-> 0] /\ event = << >>
      /\ nTriggers = 0 /\ matched = 0 /\ out = << >>
  BY DEF OfflineInit, Trk!Begin, Trk!Empty
<1>4. ShotsInv
  BY <1>2, <1>3, ShotTypes, OfflineAssumption DEF ShotsInv, OfflineAssumption
<1>5. DoneShots = {}
  BY <1>3 DEF DoneShots
<1> QED
  BY <1>1, <1>3, <1>4, <1>5 DEF TimesInv, ClockInv, ResultInv

\* Nothing is matched while the hits are taken.
LEMMA TimesTakeHit ==
  ASSUME TimesInv, Trk!TakeHit
  PROVE  TimesInv'
<1>1. tStage = "build" /\ tStage' = tStage /\ nTriggers' = nTriggers /\ matched' = matched /\ out' = out
  BY DEF Trk!TakeHit
<1>2. out = << >>
  BY <1>1 DEF TimesInv, ClockInv
<1>3. DoneShots = {} /\ DoneShots' = {}
  BY <1>1, <1>2 DEF DoneShots
<1>4. ClockInv'
  BY <1>1, <1>2, <1>3 DEF TimesInv, ClockInv
<1>5. ResultInv'
  BY <1>1, <1>2 DEF TimesInv, ResultInv
<1> QED
  BY <1>4, <1>5, TakeHitStep, ShotsTakeHit DEF TimesInv

\* Where the events, the rows and the clock stay, so does the invariant.
LEMMA TimesStay ==
  ASSUME TimesInv, TrkInv', tInput' = tInput, row' = row, event' = event, clock' = clock,
         nTriggers' = nTriggers, matched' = matched, out' = out, tStage' # "build" \/ tStage' = tStage
  PROVE  TimesInv'
<1>1. ShotsInv'
  BY DEF TimesInv, ShotsInv, Shots, Shot
<1>2. DoneShots' = DoneShots
  BY DEF DoneShots, Shot
<1>3. ClockInv'
  <2>1. \A k, l, f : ClockIs(k, l, f)' <=> ClockIs(k, l, f)
    BY <1>2, ShotsAfter DEF ClockIs
  <2> QED
    BY <1>2, <2>1, ShotsAfter DEF TimesInv, ClockInv
<1>4. ResultInv'
  BY ShotsAfter DEF TimesInv, ResultInv
<1> QED
  BY <1>1, <1>3, <1>4 DEF TimesInv

LEMMA TimesMergeEvent ==
  ASSUME TimesInv, Trk!MergeEvent
  PROVE  TimesInv'
<1>1. /\ tInput' = tInput /\ row' = row /\ event' = event /\ tStage = "merge" /\ tStage' = tStage
      /\ Len(out) < Len(event)
  BY DEF Trk!MergeEvent
<1>2. TrkInv /\ ShotsInv /\ ClockInv /\ ResultInv /\ TrkInv'
  BY MergeEventStep DEF TimesInv
<1>3. nTriggers \in Nat /\ out \in Seq(TrkRow) /\ Len(out) \in Nat /\ DOMAIN out = 1 .. Len(out)
  BY <1>2 DEF TrkInv, MatchInv
<1>4. PICK n \in DOMAIN event : n = Len(out) + 1
  BY <1>1, <1>2, <1>3, ShotTypes
<1>5. PICK m : /\ m = IF Shot(n) = 0 THEN 0 ELSE Trk!MatchOf(HitTime(Shot(n)))
               /\ matched' = (IF m = 0 THEN matched ELSE m) /\ out' = Append(out, Trk!Row(m))
               /\ IF Shot(n) = 0 THEN clock' = clock /\ nTriggers' = nTriggers
                                 ELSE clock' = Trk!Tick(HitTime(Shot(n))) /\ nTriggers' = nTriggers + 1
  BY <1>4 DEF Trk!MergeEvent, Shot, HitTime, Hits, Trk!Hit
<1>6. /\ DOMAIN out' = DOMAIN out \cup {n} /\ out'[n].match = m
      /\ \A e \in DOMAIN out : out'[e] = out[e]
  <2>1. PICK w \in TrkRow : w = Trk!Row(m)
    <3>1. out' \in Seq(TrkRow) /\ Len(out') = Len(out) + 1 /\ out'[Len(out) + 1] = Trk!Row(m)
      BY <1>2, <1>3, <1>5 DEF TrkInv, MatchInv
    <3> QED
      BY <1>3, <3>1
  <2>2. w.match = m
    BY <2>1 DEF Trk!Row
  <2> QED
    BY <1>3, <1>4, <1>5, <2>1, <2>2
<1>7. ShotsInv'
  BY <1>1, <1>2 DEF ShotsInv, Shots, Shot
<1>8. \A j : j \in DoneShots' <=> j \in DoneShots \/ (j = Shot(n) /\ j # 0)
  BY <1>1, <1>6 DEF DoneShots, Shot
<1>9. ClockInv'
  <2>1. CASE Shot(n) = 0
    <3>1. DoneShots' = DoneShots
      BY <1>8, <2>1
    <3>2. \A k, l, f : ClockIs(k, l, f)' <=> ClockIs(k, l, f)
      BY <1>1, <1>5, <2>1, <3>1, ShotsAfter DEF ClockIs
    <3> QED
      BY <1>1, <1>2, <1>5, <2>1, <3>1, <3>2, ShotsAfter DEF ClockInv
  <2>2. CASE Shot(n) # 0
    <3>1. PICK h : h = Shot(n)
      OBVIOUS
    <3>2. PICK k \in Trk!TriggerHits, f \in Trk!TriggerHits :
            /\ FirstShot(f) /\ LastPause(k, h)
            /\ Trk!Tick(HitTime(h)) = [first |-> HitTime(f), previous |-> HitTime(h), reset |-> IF k = f THEN HitTime(f) ELSE HitTime(k) - HitTime(f)]
      BY <1>2, <1>4, <2>2, <3>1, ClockStep
    <3>3. h \in Trk!TriggerHits /\ h \in DoneShots' /\ \A j \in DoneShots' : j <= h
      <4>1. h \in Trk!TriggerHits /\ h \in Nat /\ \A j \in DoneShots : j \in Nat /\ j < h
        BY <1>2, <1>4, <2>2, <3>1, DoneFirst
      <4> QED
        BY <1>8, <2>2, <3>1, <4>1
    <3>4. clock' = [first |-> HitTime(f), previous |-> HitTime(h), reset |-> IF k = f THEN HitTime(f) ELSE HitTime(k) - HitTime(f)]
      BY <1>5, <2>2, <3>1, <3>2
    <3>5. ClockIs(k, h, f)'
      BY <1>1, <3>2, <3>3, <3>4, ShotsAfter DEF ClockIs
    <3>6. nTriggers' # 0 /\ DoneShots' # {}
      BY <1>3, <1>5, <2>2, <3>3
    <3>7. k \in Trk!TriggerHits' /\ h \in Trk!TriggerHits' /\ f \in Trk!TriggerHits'
      BY <1>1, <3>2, <3>3, ShotsAfter
    <3> QED
      BY <1>1, <3>5, <3>6, <3>7 DEF ClockInv
  <2> QED
    BY <2>1, <2>2
<1>10. ResultInv'
  <2>1. RightFor(n, m)
    <3>1. CASE Shot(n) = 0
      <4>1. m = 0 /\ ~Trk!Comparable(Shot(n))
        BY <1>5, <3>1 DEF Trk!Comparable
      <4> QED
        BY <4>1 DEF RightFor
    <3>2. CASE Shot(n) # 0
      BY <1>4, <1>5, <3>2, RightMatch
    <3> QED
      BY <3>1, <3>2
  <2>2. \A e \in DOMAIN out' : RightFor(e, out'[e].match)
    BY <1>2, <1>6, <2>1 DEF ResultInv
  <2>3. \A e, x : RightFor(e, x)' <=> RightFor(e, x)
    BY <1>1, ShotsAfter
  <2>4. matched' # 0 => \E e \in DOMAIN out' : out'[e].match = matched'
    BY <1>2, <1>5, <1>6 DEF ResultInv
  <2> QED
    BY <2>2, <2>3, <2>4 DEF ResultInv
<1> QED
  BY <1>2, <1>7, <1>9, <1>10 DEF TimesInv

LEMMA TimesStep ==
  ASSUME TimesInv, [OfflineNext]_offlineVars
  PROVE  TimesInv'
<1>1. TrkInv'
  BY TrkStep DEF TimesInv
<1>2. CASE Trk!EndOfHits \/ Trk!EndOfEvents \/ UNCHANGED trkVars
  <2>1. /\ tInput' = tInput /\ row' = row /\ event' = event /\ clock' = clock
        /\ nTriggers' = nTriggers /\ matched' = matched /\ out' = out
        /\ tStage' # "build" \/ tStage' = tStage
    BY <1>2 DEF Trk!EndOfHits, Trk!EndOfEvents, trkVars
  <2> QED
    BY <1>1, <2>1, TimesStay
<1> QED
  BY <1>2, TimesTakeHit, TimesMergeEvent
  DEF OfflineNext, Convert, Merge, Group, offlineVars, Trk!Next

\* At any point, the events written so far have what was promised.
LEMMA MatchesAreRight ==
  ASSUME TimesInv
  PROVE  Trk!MatchIsOwnTrigger /\ Trk!SeenByBothIsMatched
<1>1. \A e \in DOMAIN out : RightFor(e, out[e].match)
  BY DEF TimesInv, ResultInv
<1>2. Trk!Reading = 1 .. NReadings
  BY ShotsRightNow, TriggerTypes DEF TimesInv, ShotsRight
<1>3. Trk!MatchIsOwnTrigger
  BY <1>1 DEF Trk!MatchIsOwnTrigger, RightFor, Shot, Seen, Of, Hits, Trk!Hit
<1>4. ASSUME NEW e \in DOMAIN out, Trk!Comparable(Shot(e)),
             NEW p \in Trk!Reading, tInput.bco[p][2] = Trk!Hit(Shot(e))[3],
             ~\E j \in Trk!TriggerHits : j < Shot(e) /\ Trk!Hit(j)[3] = Trk!Hit(Shot(e))[3]
      PROVE  out[e].match # 0
  <2>1. p \in 1 .. NReadings /\ Seen(p) = Of(Shot(e))
    BY <1>2, <1>4 DEF Seen, Of, Hits, Trk!Hit
  <2>2. \A j \in Trk!TriggerHits : j < Shot(e) => Of(j) # Of(Shot(e))
    BY <1>4 DEF Of, Hits, Trk!Hit
  <2> QED
    BY <1>1, <1>4, <2>1, <2>2 DEF RightFor
<1>5. Trk!SeenByBothIsMatched
  BY <1>4 DEF Trk!SeenByBothIsMatched, Shot
<1> QED
  BY <1>3, <1>5

\* Where the times of both sides can be compared, no event has the reading of another
\* trigger, for any hits and readings whose times are off by less than the windows
\* allow; and none is given twice (MergeTOFPETWithPixels.cc:336, 374).
THEOREM MatchesAreOwn == OfflineSpec => []MatchIsOwnTrigger
<1>1. OfflineInit => TimesInv
  BY TimesInit
<1>2. TimesInv /\ [OfflineNext]_offlineVars => TimesInv'
  BY TimesStep
<1>3. TimesInv => MatchIsOwnTrigger
  BY MatchesAreRight DEF TimesInv, TrkInv, MatchInv, MatchIsOwnTrigger
<1> QED
  BY <1>1, <1>2, <1>3, PTL DEF OfflineSpec

\* There, a trigger that both sides saw is matched: no reading before its own agrees or
\* is too far ahead, and none behind it was taken before (MergeTOFPETWithPixels.cc:359).
THEOREM NoneIsMissed == OfflineSpec => []SeenByBothIsMatched
<1>1. OfflineInit => TimesInv
  BY TimesInit
<1>2. TimesInv /\ [OfflineNext]_offlineVars => TimesInv'
  BY TimesStep
<1>3. TimesInv => SeenByBothIsMatched
  BY MatchesAreRight DEF SeenByBothIsMatched
<1> QED
  BY <1>1, <1>2, <1>3, PTL DEF OfflineSpec
=============================================================================
