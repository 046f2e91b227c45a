---------------------------- MODULE Calibration ----------------------------
(***************************************************************************)
(* process_tdc_calibration and process_qdc_calibration: sort the events    *)
(* into a file for each ASIC, calibrate each ASIC in a process of its own  *)
(* (the processes share the calibration table), write the table.           *)
(*                                                                         *)
(* The parent reads the names of the files with fscanf while it forks, and *)
(* a stream open over a fork is shared: a worker that leaves through       *)
(* exit(0) gives back what its copy of the stream had read ahead, by       *)
(* moving the file offset it shares with its parent. Offsets count lines.  *)
(*                                                                         *)
(* What the fits find is fixed by the data: the converters they accept,    *)
(* and the offset of the ASIC in either branch, T and E (one number for    *)
(* all its converters of the branch).                                      *)
(***************************************************************************)
EXTENDS Integers, FiniteSets, FiniteSetsExt, Sequences, SequencesExt

CONSTANTS
  Asic,         \* a set of naturals: the ASIC IDs
  Channel, Tac, \* channels of an ASIC; converters of a channel, by turns T and E
  Worker,       \* bound: processes at once
  MaxFiles,     \* bound: descriptors a process may have open
  MaxDeaths,    \* bound: workers that are killed or abort
  MaxForkFailures   \* bound: forks that find no memory or too many processes

ASSUME CalibrationAssumption ==
  /\ Asic \subseteq Nat /\ IsFiniteSet(Asic) /\ MaxFiles \in Nat /\ MaxFiles >= Cardinality(Asic)
  /\ Channel \subseteq Nat /\ IsFiniteSet(Channel) /\ Tac \subseteq Nat /\ IsFiniteSet(Tac)
  /\ IsFiniteSet(Worker) /\ MaxDeaths \in Nat /\ MaxForkFailures \in Nat

VARIABLES
  tool,         \* which of the two programs this is
  maxWorkers,
  events,       \* the raw data: the ASICs that sent events
  fits,         \* the converters each ASIC's data gives a good fit for
  files, list,  \* the temporary data files, and the file that lists them
  pc,           \* what the parent does
  ahead, eof,   \* its stream on the list: lines read ahead, end of file seen
  offset,       \* offset of the list file, shared with the workers
  nWorkers, nFiles, asic,
  worker,
  valid, t0,    \* the calibration table, shared by all processes
  output,       \* the table as it was written
  died, shared, rewound, forkFailures   \* history: see Die, Fork, Leave, ForkFails

parentVars == <<pc, ahead, eof, nWorkers, nFiles, asic>>
inputVars == <<tool, maxWorkers, events, fits>>
tableVars == <<valid, t0>>
historyVars == <<died, shared, rewound, forkFailures>>
vars == <<inputVars, files, list, parentVars, offset, worker, tableVars, output, historyVars>>

Converter == Channel \X Tac
Branch == {0, 1}
TrueT0(a) == [b \in Branch |-> a * (b + 1)]
NoT0 == [b \in Branch |-> 0]
NoOutput == [unit |-> NoT0]
NoWorker == [asic |-> -1, pc |-> "none", iter |-> 0, found |-> NoT0, ahead |-> << >>]

Init ==
  /\ tool \in {"tdc", "qdc"} /\ maxWorkers \in 0 .. Cardinality(Worker)
  /\ events \in SUBSET Asic
  /\ fits \in [Asic -> {Converter, Converter \ {<<Min(Channel), Min(Tac)>>}}]
  /\ \A a \in Asic \ events : fits[a] = Converter
  /\ files = {} /\ list = << >>
  /\ pc = "sort" /\ ahead = << >> /\ eof = FALSE /\ offset = 0
  /\ nWorkers = 0 /\ nFiles = 0 /\ asic = -1
  /\ worker = [w \in Worker |-> NoWorker]
  /\ valid = [a \in Asic |-> {}] /\ t0 = [a \in Asic |-> NoT0]
  /\ output = NoOutput /\ died = {} /\ shared = {} /\ rewound = FALSE
  /\ forkFailures = 0

----------------------------------------------------------------------------
(* Sorting: a file for each ASIC that has an event, all of them listed. *)

\* The list of the ASICs of F, by their IDs.
ListsOf(F) ==
  {l \in [1 .. Cardinality(F) -> F] : \A i, j \in DOMAIN l : i < j => l[i] < l[j]}

TdcSort == tool = "tdc" /\ files' = events /\ list' \in ListsOf(files')

\* Events go through ProcessHit first, and those it finds invalid are left out.
QdcSort == tool = "qdc" /\ files' \in SUBSET events /\ list' \in ListsOf(files')

Sort ==
  /\ pc = "sort" /\ pc' = "list"
  /\ TdcSort \/ QdcSort
  /\ UNCHANGED <<inputVars, ahead, eof, nWorkers, nFiles, asic, offset, worker,
                 tableVars, output, historyVars>>

----------------------------------------------------------------------------
(* The parent: calibrateAllAsics. *)

Rest == SubSeq(list, offset + 1, Len(list))

\* fscanf returns with a line. The blank that ends its format makes it look for
\* what follows, so that it reads on at once when that line was the last one it had.
TakeLine(lines) ==
  /\ lines # << >>
  /\ asic' = Head(lines)
  /\ ahead' = IF Len(lines) = 1 /\ ahead # << >> THEN Rest ELSE Tail(lines)
  /\ eof' = (ahead' = << >>)
  /\ offset' = IF Len(lines) = 1 \/ ahead = << >> THEN Len(list) ELSE offset

\* At the end of the file a C library may return what it found there before, or
\* read again.
ReadLine ==
  /\ pc = "list"
  /\ IF ahead # << >> THEN TakeLine(ahead) ELSE TakeLine(Rest)
  /\ pc' = "fork"
  /\ UNCHANGED <<inputVars, files, list, nWorkers, nFiles, worker, tableVars, output, historyVars>>

EndOfList ==
  /\ pc = "list" /\ ahead = << >> /\ (eof \/ Rest = << >>)
  /\ pc' = "drain"
  /\ UNCHANGED <<inputVars, files, list, ahead, eof, nWorkers, nFiles, asic, offset,
                 worker, tableVars, output, historyVars>>

\* The parent never closes the data files it opens for its workers.
OpenFails ==
  /\ pc = "fork" /\ nFiles = MaxFiles
  /\ pc' = "failed"
  /\ UNCHANGED <<inputVars, files, list, ahead, eof, nWorkers, nFiles, asic, offset,
                 worker, tableVars, output, historyVars>>

Fork(w) ==
  /\ pc = "fork" /\ nFiles < MaxFiles /\ worker[w] = NoWorker
  /\ nFiles' = nFiles + 1 /\ nWorkers' = nWorkers + 1
  /\ worker' = [worker EXCEPT ![w] =
                  [asic |-> asic, pc |-> "fit", iter |-> 0, found |-> NoT0, ahead |-> ahead]]
  /\ shared' = IF \E x \in Worker : worker[x].asic = asic /\ worker[x].pc # "zombie"
               THEN shared \cup {asic} ELSE shared
  /\ pc' = "wait"
  /\ UNCHANGED <<inputVars, files, list, ahead, eof, asic, offset, tableVars, output,
                 died, rewound, forkFailures>>

\* fork() returns -1, which is not the child's 0, and the parent counts a worker.
ForkFails ==
  /\ pc = "fork" /\ nFiles < MaxFiles /\ forkFailures < MaxForkFailures
  /\ nFiles' = nFiles + 1 /\ nWorkers' = nWorkers + 1
  /\ forkFailures' = forkFailures + 1
  /\ pc' = "wait"
  /\ UNCHANGED <<inputVars, files, list, ahead, eof, asic, offset, worker, tableVars, output,
                 died, shared, rewound>>

\* Mutant of Reap: a worker that is gone still counts.
ReapUncounted(w) ==
  /\ worker[w].pc = "zombie"
  /\ worker' = [worker EXCEPT ![w] = NoWorker]
  /\ UNCHANGED nWorkers

Reap(w) ==
  /\ worker[w].pc = "zombie"
  /\ worker' = [worker EXCEPT ![w] = NoWorker]
  /\ nWorkers' = nWorkers - 1

\* Mutant of WaitWhile: an error of wait is tried again.
WaitForever(busy, next) ==
  \/ /\ ~busy /\ pc' = next
     /\ UNCHANGED <<nWorkers, worker>>
  \/ /\ busy /\ \E w \in Worker : Reap(w)
     /\ UNCHANGED pc

\* Waiting with no child left is an error, and ends the program.
WaitWhile(busy, next) ==
  \/ /\ ~busy /\ pc' = next
     /\ UNCHANGED <<nWorkers, worker>>
  \/ /\ busy /\ \E w \in Worker : Reap(w)
     /\ UNCHANGED pc
  \/ /\ busy /\ \A w \in Worker : worker[w] = NoWorker
     /\ pc' = "failed"
     /\ UNCHANGED <<nWorkers, worker>>

\* Mutant of Drained: the last worker is not waited for.
DrainedButOne == nWorkers <= 1

Drained == nWorkers = 0

Wait ==
  /\ \/ pc = "wait" /\ WaitWhile(nWorkers >= maxWorkers, "list")
     \/ pc = "drain" /\ WaitWhile(~Drained, "adjust")
  /\ UNCHANGED <<inputVars, files, list, ahead, eof, nFiles, asic, offset, tableVars, output, historyVars>>

----------------------------------------------------------------------------
(* A worker: calibrateAsic. *)

Goto(w, next) == worker' = [worker EXCEPT ![w].pc = next]

TdcFit(w) ==
  LET a == worker[w].asic IN
  /\ tool = "tdc"
  /\ valid' = [valid EXCEPT ![a] = @ \cup fits[a]]
  /\ t0' = [t0 EXCEPT ![a] = NoT0]
  /\ Goto(w, "measure")

QdcFit(w) ==
  LET a == worker[w].asic IN
  /\ tool = "qdc"
  /\ valid' = [valid EXCEPT ![a] = @ \cup fits[a]]
  /\ Goto(w, "exit")
  /\ UNCHANGED t0

\* Mutant of Residual: the t0 found so far is not taken off.
ResidualOfRaw(a) == TrueT0(a)

\* One pass over the events gives how far they are from the table's t0.
Residual(a) == [b \in Branch |-> TrueT0(a)[b] - t0[a][b]]

Measure(w) ==
  /\ worker[w].pc = "measure"
  /\ worker' = [worker EXCEPT ![w].found = Residual(worker[w].asic),
                              ![w].pc = IF worker[w].iter = 3 THEN "zero" ELSE "correct"]
  /\ UNCHANGED tableVars

Correct(w) ==
  LET a == worker[w].asic IN
  /\ worker[w].pc = "correct"
  /\ t0' = [t0 EXCEPT ![a] = [b \in Branch |-> @[b] + worker[w].found[b]]]
  /\ worker' = [worker EXCEPT ![w].iter = @ + 1, ![w].pc = "measure", ![w].found = NoT0]
  /\ UNCHANGED valid

\* Mutant of WholeChannels: only the last converter decides.
ChannelsByLast(V) == {x \in V : <<x[1], Max(Tac)>> \in V}

\* A channel with a converter that is not calibrated is taken out.
WholeChannels(V) == {x \in V : \A tac \in Tac : <<x[1], tac>> \in V}

ZeroChannels(w) ==
  LET a == worker[w].asic IN
  /\ worker[w].pc = "zero"
  /\ valid' = [valid EXCEPT ![a] = WholeChannels(@)]
  /\ Goto(w, "exit")
  /\ UNCHANGED t0

Calibrate(w) ==
  /\ \/ worker[w].pc = "fit" /\ (TdcFit(w) \/ QdcFit(w))
     \/ Measure(w) \/ Correct(w) \/ ZeroChannels(w)
  /\ UNCHANGED <<inputVars, files, list, parentVars, offset, output, historyVars>>

\* exit(0) moves the offset back over the lines read ahead, if it can.
Leave(w) ==
  LET back == offset - Len(worker[w].ahead) IN
  /\ worker[w].pc = "exit"
  /\ offset' = IF back >= 0 THEN back ELSE offset
  /\ rewound' = (rewound \/ offset' # offset)
  /\ worker' = [worker EXCEPT ![w] = [NoWorker EXCEPT !.pc = "zombie"]]
  /\ UNCHANGED <<inputVars, files, list, parentVars, tableVars, output, died, shared,
                 forkFailures>>

\* An assertion that fails, a signal, or no memory left. The parent does not look
\* at how a worker ended.
Die(w) ==
  /\ worker[w].pc \notin {"none", "zombie"} /\ Cardinality(died) < MaxDeaths
  /\ died' = died \cup {worker[w].asic}
  /\ worker' = [worker EXCEPT ![w] = [NoWorker EXCEPT !.pc = "zombie"]]
  /\ UNCHANGED <<inputVars, files, list, parentVars, offset, tableVars, output,
                 shared, rewound, forkFailures>>

----------------------------------------------------------------------------
(* The end of the program. *)

\* The calibrated converters of an ASIC in a branch, and those of all.
ValidOf(a, b) == {x \in valid[a] : x[2] % 2 = b}
NValid(b) == SumFunction([a \in Asic |-> Cardinality(ValidOf(a, b))])

\* In either branch, the average of t0 over the calibrated converters becomes zero.
\* Times are then in units of 1 / NValid, to stay integers.
AdjustCalibrationTable ==
  /\ pc = "adjust"
  /\ LET sum(b) == SumFunction([a \in Asic |-> Cardinality(ValidOf(a, b)) * t0[a][b]])
     IN t0' = IF tool = "tdc"
              THEN [a \in Asic |-> [b \in Branch |-> NValid(b) * t0[a][b] - sum(b)]] ELSE t0
  /\ pc' = "write"
  /\ UNCHANGED <<inputVars, files, list, ahead, eof, nWorkers, nFiles, asic, offset, worker,
                 valid, output, historyVars>>

WriteCalibrationTable ==
  /\ pc = "write"
  /\ output' = [valid |-> valid, t0 |-> t0, unit |-> [b \in Branch |-> NValid(b)]]
  /\ pc' = "delete"
  /\ UNCHANGED <<inputVars, files, list, ahead, eof, nWorkers, nFiles, asic, offset, worker,
                 tableVars, historyVars>>

DeleteTemporaryFiles ==
  /\ pc = "delete"
  /\ files' = files \ ToSet(list)
  /\ pc' = "done"
  /\ UNCHANGED <<inputVars, list, ahead, eof, nWorkers, nFiles, asic, offset, worker,
                 tableVars, output, historyVars>>

Parent ==
  \/ Sort \/ ReadLine \/ EndOfList \/ OpenFails \/ ForkFails \/ Wait
  \/ \E w \in Worker : Fork(w)
  \/ AdjustCalibrationTable \/ WriteCalibrationTable \/ DeleteTemporaryFiles

Next == Parent \/ \E w \in Worker : Calibrate(w) \/ Leave(w) \/ Die(w)

Spec ==
  /\ Init /\ [][Next]_vars
  /\ WF_vars(Parent)
  /\ \A w \in Worker : WF_vars(Calibrate(w) \/ Leave(w))

----------------------------------------------------------------------------
Running == {w \in Worker : worker[w].pc \notin {"none", "zombie"}}

TypeOK ==
  /\ files \subseteq Asic /\ ToSet(ahead) \subseteq ToSet(list)
  /\ ToSet(list) \subseteq Asic
  /\ pc \in {"sort", "list", "fork", "wait", "drain", "adjust", "write", "delete",
             "done", "failed"}
  /\ offset \in 0 .. Len(list) /\ nFiles \in 0 .. MaxFiles
  /\ nWorkers = Cardinality({w \in Worker : worker[w] # NoWorker}) + forkFailures
  /\ nWorkers <= Max({maxWorkers, 1})
  /\ valid \in [Asic -> SUBSET Converter] /\ t0 \in [Asic -> [Branch -> Int]]

\* Nobody writes to the table once it is being adjusted and written: the parent
\* has waited for as many workers as it has forked, the dead ones too. It waits as
\* well for one that it could not fork, and so writes no table without its ASIC.
TableIsFinal ==
  pc \in {"adjust", "write", "delete", "done"} => Running = {} /\ forkFailures = 0

\* The table that is written holds, for each ASIC none of whose workers died, the
\* converters with a good fit in channels where all have one (for the charge, each
\* converter with a good fit), and nothing of an ASIC without data. No worker changes
\* what another found, in whichever order they ran.
CalibratedRight ==
  output # NoOutput =>
    \A a \in Asic \ died : output.valid[a] =
      IF a \notin ToSet(list) THEN {}
      ELSE {x \in fits[a] : tool = "tdc" => {x[1]} \X Tac \subseteq fits[a]}

\* The offsets between ASICs, which make times of two of them comparable, are
\* those of the data in either branch, for all ASICs that no two workers had at once.
OffsetsRight ==
  output # NoOutput /\ tool = "tdc" =>
    \A a, c \in {x \in Asic \ (died \cup shared) : output.valid[x] # {}} : \A b \in Branch :
      output.t0[a][b] - output.t0[c][b] = output.unit[b] * (TrueT0(a)[b] - TrueT0(c)[b])

\* With memory for a worker, only a worker that could not be forked and the lines
\* that another gave back can make it fail.
FailsOnlyAfterRewind == pc = "failed" => maxWorkers = 0 \/ rewound \/ forkFailures > 0

\* The parent knows its workers, but for those it could not fork: it neither waits
\* for more than it has counted nor goes on before the last.
ParentKnowsWorkers == TypeOK /\ TableIsFinal /\ FailsOnlyAfterRewind

\* The programs end: they do not wait for a worker that is gone, nor read their
\* list forever.
CalibrationEnds == <>(pc \in {"done", "failed"})

\* configuration.template.sh runs the two programs one after the other, to have
\* the table of each in the end.
CalibrationSucceeds == pc = "failed" => maxWorkers = 0
=============================================================================
