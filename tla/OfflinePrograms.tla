-------------------------- MODULE OfflinePrograms --------------------------
(***************************************************************************)
(* The programs that work on files after the run, one of them in a           *)
(* behaviour: the conversion of a digitizer file, the events of the chips    *)
(* and their tracks, and the handling of a block of hits.                    *)
(***************************************************************************)
EXTENDS Integers, Sequences, FiniteSetsExt

CONSTANTS
  DrsInputs, Triples, Unlimited,              \* see DrsConversion
  TrackInputs, TrackChannel, Trigger, Jitter, \* see TrackMerge; how far times are off
  CoWindow, Near, Far, Pause, Wrap,
  HitInputs, HitChannel,                      \* see HitChain
  Coarse, Frame, Overlap, Correction

VARIABLES
  program,
  dInput, pos, dPlace, start, iEvent, groups, nTriples, words, channel, tree,
  tInput, tStage, tIndex, tPrev, row, event, clock, nTriggers, matched, track, out,
  hInput, hStage, config, raw, hits, hIndex, taken, photons, rejected, pairs, rows

drsVars == <<dInput, pos, dPlace, start, iEvent, groups, nTriples, words, channel, tree>>
trkVars == <<tInput, tStage, tIndex, tPrev, row, event, clock, nTriggers, matched, track, out>>
hitVars == <<hInput, hStage, config, raw, hits, hIndex, taken, photons, rejected, pairs, rows>>
offlineVars == <<program, drsVars, trkVars, hitVars>>

Drs == INSTANCE DrsConversion WITH input <- dInput, pc <- dPlace, Inputs <- DrsInputs
Trk == INSTANCE TrackMerge WITH input <- tInput, stage <- tStage, i <- tIndex,
                                Inputs <- TrackInputs, Channel <- TrackChannel
Hit == INSTANCE HitChain WITH input <- hInput, stage <- hStage, i <- hIndex,
                              Inputs <- HitInputs, Channel <- HitChannel

----------------------------------------------------------------------------
(* The files. *)

DrsFile(in) ==
  /\ in.program \in {"dat2root", "dat2rootPixels", "datroot2root"}
  /\ in.dat \in BOOLEAN /\ (in.program # "datroot2root" => in.dat)
  /\ in.nEvents \in Int /\ in.nEvents <= Unlimited
  /\ in.groups \in Seq(SUBSET {0, 1}) /\ in.flat \subseteq Nat \X {0, 1}
  /\ in.file \in Seq((1 .. Len(in.groups)) \X (Nat \ {0}))

\* Words of the events are lost, and nothing else happens to a file: what is left is
\* in order. Only dat2rootPixels, for which all events have both groups, can do with less
\* than all.
LengthIn(in, e) == 4 + Cardinality(in.groups[e]) * Drs!GroupLength
Before(v, w) == v[1] < w[1] \/ (v[1] = w[1] /\ v[2] < w[2])
LossesOnly(in) ==
  /\ Len(in.groups) <= Unlimited
  /\ \A i, j \in DOMAIN in.file : i < j => Before(in.file[i], in.file[j])
  /\ \A i \in DOMAIN in.file : in.file[i][2] <= LengthIn(in, in.file[i][1])
  /\ IF in.program = "dat2rootPixels"
       THEN \A e \in DOMAIN in.groups : in.groups[e] = {0, 1}
       ELSE \A e \in DOMAIN in.groups : \A p \in 1 .. LengthIn(in, e) :
              \E i \in DOMAIN in.file : in.file[i] = <<e, p>>

\* A hit: its channel, its time and the trigger it is truly of. Every reading has
\* tracks.
TrackFile(in) ==
  /\ in.hits \in Seq(TrackChannel \X Int \X Int)
  /\ in.bco \in Seq(Int \X Int)
  /\ 1 .. Len(in.bco) \subseteq DOMAIN in.tracks /\ \A n \in DOMAIN in.tracks : in.tracks[n] \in Nat

\* Triggers are further apart than their times are uncertain; both sides see them in
\* order, the chips with a delay that is the same but for the jitter, and the counter
\* of the telescope wraps once at most.
Fired(in) == {n \in DOMAIN in.hits : in.hits[n][1] = Trigger}
Delay(in, n) == in.hits[n][2] - in.when[in.hits[n][3]]
Since(in, p) == in.when[in.bco[p][2]] - in.when[in.bco[1][2]]
TriggersApart(in) ==
  /\ in.when \in Seq(Int)
  /\ \A f, g \in DOMAIN in.when : f < g => in.when[g] - in.when[f] >= Near + Jitter
  /\ \A n \in Fired(in) : in.hits[n][3] \in DOMAIN in.when
  /\ \A m, n \in Fired(in) :
       /\ Delay(in, m) - Delay(in, n) <= Jitter
       /\ m < n => in.hits[m][2] <= in.hits[n][2] /\ in.hits[m][3] <= in.hits[n][3]
  /\ \A p \in DOMAIN in.bco :
       /\ in.bco[p][2] \in DOMAIN in.when /\ Since(in, p) < Wrap
       /\ in.bco[p][1] \in 0 .. Wrap - 1
       /\ in.bco[p][1] - in.bco[1][1] \in {Since(in, p), Since(in, p) - Wrap}
  /\ \A p, q \in DOMAIN in.bco : p < q => in.bco[p][2] < in.bco[q][2]

TableLine == [channel : HitChannel, shift : 0 .. Correction, region : Nat, x : Int]
RawHits == [valid : BOOLEAN, time : Int, channel : HitChannel, energy : Int]
HitFile(in) ==
  /\ in.program \in {"singles", "coincidence"} /\ in.qdcMode \in BOOLEAN
  /\ in.tdc \in Seq(TableLine) /\ in.qdc \in Seq(TableLine) /\ in.map \in Seq(TableLine)
  /\ in.settings.groupWindow \in Nat /\ in.settings.coincidenceWindow \in Nat
  /\ in.settings.radius \in Int /\ in.settings.maxHits \in Nat \ {0}
  /\ in.settings.minEnergy \in Int /\ in.settings.maxEnergy \in Int
  /\ in.block \in Seq(RawHits)

\* The times are out of order by less than the coarse time and what the calibration
\* takes off, for which the overlap has to be enough (CoarseSorter.hpp:13).
ASSUME OfflineAssumption ==
  /\ Triples \in Nat \ {0} /\ Unlimited \in Nat
  /\ Trigger \in TrackChannel /\ {CoWindow, Near, Far, Pause, Wrap} \subseteq Nat
  /\ Coarse \in Nat \ {0} /\ Frame \in Nat \ {0} /\ Overlap \in Nat /\ Correction \in Nat
  /\ Coarse + Correction <= Overlap \div 2 + 1
  /\ \A in \in DrsInputs : DrsFile(in)
  /\ \A in \in TrackInputs : TrackFile(in)
  /\ \A in \in HitInputs : HitFile(in)

\* Of the digitizer, for what its rows are and not for how it is read.
ASSUME LossesAssumption == \A in \in DrsInputs : LossesOnly(in)

\* Of the triggers, for whose reading is found: 0.5 ms, 0.1 s and 1 s in the code.
ASSUME TriggersAssumption ==
  /\ Jitter \in Nat /\ Jitter < Near /\ Jitter < Far /\ Far + Near + 2 * Jitter <= Pause
  /\ \A in \in TrackInputs : TriggersApart(in)

----------------------------------------------------------------------------
\* A program that does not run has an empty input and does nothing with it.
NoFile == [program |-> "dat2rootPixels", dat |-> TRUE, nEvents |-> -1, file |-> << >>,
           groups |-> << >>, flat |-> {}]
NoTriggers == [hits |-> << >>, bco |-> << >>, tracks |-> << >>, when |-> << >>]
NoBlock ==
  [program |-> "coincidence", qdcMode |-> FALSE, tdc |-> << >>, qdc |-> << >>, map |-> << >>,
   trigger |-> << >>, block |-> << >>,
   settings |-> [groupWindow |-> 0, coincidenceWindow |-> 0, radius |-> 0, minEnergy |-> 0,
                 maxEnergy |-> 0, maxHits |-> 1]]

OfflineInit ==
  /\ \/ program = "drs" /\ dInput \in DrsInputs /\ tInput = NoTriggers /\ hInput = NoBlock
     \/ program = "track" /\ dInput = NoFile /\ tInput \in TrackInputs /\ hInput = NoBlock
     \/ program = "hits" /\ dInput = NoFile /\ tInput = NoTriggers /\ hInput \in HitInputs
  /\ Drs!Begin /\ Trk!Begin /\ Hit!Begin

Convert == program = "drs" /\ Drs!Next /\ UNCHANGED <<program, trkVars, hitVars>>
Merge == program = "track" /\ Trk!Next /\ UNCHANGED <<program, drsVars, hitVars>>
Group == program = "hits" /\ Hit!Next /\ UNCHANGED <<program, drsVars, trkVars>>
OfflineNext == Convert \/ Merge \/ Group

OfflineSpec == OfflineInit /\ [][OfflineNext]_offlineVars

----------------------------------------------------------------------------
(* Properties. *)

\* The rows are the events that came whole, as long as no loss goes unnoticed
\* (found_corruption, dat2rootPixels.cc:41).
RowsAreTheWholeEvents == Drs!TypeOK /\ Drs!RowsAreTheWholeEvents

\* A row that is an event has the track, the samples and the times of that event
\* (iEvent, dat2rootPixels.cc:363; the loop over channels, dat2root.cc:329).
RowsAreOfOneEvent == Drs!TrackOfOwnEvent /\ Drs!ValuesOfOwnEvent

\* Every event is begun further on in the file (fseek in found_corruption).
AlwaysForward == Drs!AlwaysForward

\* What lies between two gaps is an event (ConvertTOFPETSinglesToEvents.cc:96).
EventsAreBetweenGaps == Trk!TypeOK /\ Trk!EventsAreBetweenGaps

\* The trigger given to an event is its own and given once, and its track the one
\* shown (MergeTOFPETWithPixels.cc:374, 379, 402).
MatchIsOwnTrigger == Trk!MatchIsOwnTrigger /\ Trk!EachTriggerOnce /\ Trk!TrackIsOfTheMatch

\* A trigger seen by both is matched, from the first pause on
\* (TOFPETPreviousResetTime, MergeTOFPETWithPixels.cc:336).
SeenByBothIsMatched == Trk!SeenByBothIsMatched

\* Hits that are one photon are found together, in a block that is sorted only to
\* the tolerance (CoarseSorter.hpp:13, SimpleGrouper.cpp:105).
PhotonsAreApart == Hit!TypeOK /\ Hit!SortedToTolerance /\ Hit!PhotonsAreApart

\* Ending the search early misses a coincidence behind a photon that lags only
\* (CoincidenceGrouper.cpp:36).
CoincidencesFound == Hit!CoincidencesFound
=============================================================================
