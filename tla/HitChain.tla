----------------------------- MODULE HitChain -----------------------------
(***************************************************************************)
(* What convert_raw_to_singles and convert_raw_to_coincidence do to one      *)
(* block of raw hits: the tables of the configuration are loaded             *)
(* (base/SystemConfig.cpp), and the block is sorted by coarse time,          *)
(* calibrated, and for coincidences grouped into photons and paired          *)
(* (base/CoarseSorter.cpp, ProcessHit.cpp, SimpleGrouper.cpp,                *)
(* CoincidenceGrouper.cpp); then its rows are added to the file. The         *)
(* hand-over of the block from one handler to the next is EventPipeline.     *)
(*                                                                         *)
(* Times are in units of the clock, energies in the hit's own. The TDC       *)
(* correction of a channel is one shift of its times.                        *)
(***************************************************************************)
EXTENDS Integers, Sequences, FiniteSetsExt

CONSTANTS
  Inputs,      \* the program; qdcMode; the lines of the tables; the settings of the
               \* software trigger; the raw hits of a block
  Channel,
  Coarse,      \* 4 clocks in the code
  Frame,       \* 1024
  Overlap,     \* 40
  Correction   \* bound: what the TDC calibration of a channel takes off a time

VARIABLES
  input,
  stage,       \* "load", the handler that has the block, "done", "exited"
  config,      \* of each channel: shift, calibrated, region, position
  raw,         \* the hits, sorted
  hits,        \* calibrated
  i,           \* hits the grouper went over
  taken,
  photons,     \* those that passed
  rejected,    \* the flagged ones, which the grouper counts only
  pairs,
  rows         \* of the data file: the hits a row is of
vars == <<input, stage, config, raw, hits, i, taken, photons, rejected, pairs, rows>>

Abs(x) == IF x < 0 THEN -x ELSE x

\* A channel no table names.
NullChannel == [shift |-> 0, tdc |-> FALSE, qdc |-> FALSE, region |-> -1, x |-> 0]

set == input.settings   \* sw_trigger_... in the code

\* The elements of a finite set one after the other (SetToSortSeq of SequencesExt,
\* written out).
InOrder(S, before(_, _)) ==
  [n \in 1 .. Cardinality(S) |-> CHOOSE c \in S : Cardinality({d \in S : before(d, c)}) = n - 1]

Begin ==
  /\ stage = "load" /\ config = [c \in Channel |-> NullChannel]
  /\ raw = << >> /\ hits = << >> /\ i = 0 /\ taken = {}
  /\ photons = << >> /\ rejected = << >> /\ pairs = {} /\ rows = << >>

Init == input \in Inputs /\ Begin

\* The handlers a block passes; "group" is both groupers.
Chain == IF input.program = "singles" THEN <<"sort", "process", "write", "done">>
                                      ELSE <<"sort", "process", "group", "write", "done">>
After(s) == Chain[1 + CHOOSE n \in DOMAIN Chain : Chain[n] = s]

----------------------------------------------------------------------------
(* The tables. A channel or a pair of regions named twice has its last line.    *)

LinesOf(lines, c) == {n \in DOMAIN lines : lines[n].channel = c}
Named(lines, c) == LinesOf(lines, c) # {}
Line(lines, c) == lines[Max(LinesOf(lines, c))]

LoadTDC(c, cfg) ==
  IF Named(input.tdc, c) THEN [cfg EXCEPT !.tdc = TRUE, !.shift = Line(input.tdc, c).shift] ELSE cfg

\* A run taken in time-over-threshold mode is read without the charge tables.
LoadsQDC == input.qdcMode

LoadQDC(c, cfg) ==
  IF LoadsQDC /\ Named(input.qdc, c) THEN [cfg EXCEPT !.qdc = TRUE] ELSE cfg

LoadChannelMap(c, cfg) ==
  IF Named(input.map, c)
    THEN [cfg EXCEPT !.region = Line(input.map, c).region, !.x = Line(input.map, c).x] ELSE cfg

\* A line of the trigger map that is not one of pairs ends the program.
Readable(l) == l.kind \in {"M", "C"} /\ l.regions[1] >= 0 /\ l.regions[2] >= 0

Load ==
  /\ stage = "load"
  /\ stage' = IF \A l \in Range(input.trigger) : Readable(l) THEN Chain[1] ELSE "exited"
  /\ config' = [c \in Channel |-> LoadChannelMap(c, LoadQDC(c, LoadTDC(c, config[c])))]
  /\ UNCHANGED <<input, raw, hits, i, taken, photons, rejected, pairs, rows>>

\* A line of the trigger map sets both tables, for both orders of its regions.
PairLines(r, s) == {n \in DOMAIN input.trigger : Range(input.trigger[n].regions) = {r, s}}
Allowed(kind, r, s) ==
  PairLines(r, s) # {} /\ input.trigger[Max(PairLines(r, s))].kind = kind

----------------------------------------------------------------------------
(* CoarseSorter and ProcessHit. *)

\* Mutant of Earlier: only the frames are compared.
EarlierFrame(h, k) == h.time \div Frame < k.time \div Frame

Earlier(h, k) ==
  h.time \div Frame < k.time \div Frame \/ h.time \div Coarse < k.time \div Coarse

\* std::sort keeps no order between hits that compare equal.
Sort ==
  /\ stage = "sort" /\ stage' = After("sort")
  /\ \E order \in {f \in [DOMAIN input.block -> DOMAIN input.block] : IsInjective(f)} :
       /\ \A j, k \in DOMAIN order : j < k => ~Earlier(input.block[order[k]], input.block[order[j]])
       /\ raw' = [n \in DOMAIN order |-> input.block[order[n]]]
  /\ UNCHANGED <<input, config, hits, i, taken, photons, rejected, pairs, rows>>

\* Mutant of Accepted: a channel without a place is let through.
AcceptedAnywhere(h) == h.valid /\ config[h.channel].tdc /\ (input.qdcMode => config[h.channel].qdc)

\* eventFlags = 0
Accepted(h) ==
  /\ h.valid /\ config[h.channel].tdc
  /\ input.qdcMode => config[h.channel].qdc
  /\ config[h.channel].region # -1

Calibrated(h) ==
  LET cc == config[h.channel] IN
  [time |-> h.time - cc.shift, energy |-> h.energy, region |-> cc.region, x |-> cc.x]

ProcessHit ==
  /\ stage = "process" /\ stage' = After("process")
  /\ LET accepted == InOrder({n \in DOMAIN raw : Accepted(raw[n])}, <)
     IN hits' = [n \in DOMAIN accepted |-> Calibrated(raw[accepted[n]])]
  /\ UNCHANGED <<input, config, raw, i, taken, photons, rejected, pairs, rows>>

----------------------------------------------------------------------------
(* SimpleGrouper. *)

\* A hit that can be of the same photon.
Joins(h, k) ==
  /\ Allowed("M", k.region, h.region)
  /\ Abs(h.time - k.time) <= set.groupWindow
  /\ Abs(h.x - k.x) <= set.radius

\* Mutant of GroupReach: the search ends at the window.
GroupReachExact == set.groupWindow

\* The time after a hit at which the search for more of its photon ends.
GroupReach == Overlap + set.groupWindow

\* The search ends at the first hit, not yet taken, that is past the reach.
Searched(n) ==
  LET free == (n + 1 .. Len(hits)) \ taken
      past == {j \in free : hits[j].time - hits[n].time > GroupReach}
  IN {j \in free : \A p \in past : j < p}
Members(n) == {j \in Searched(n) : Joins(hits[n], hits[j])}

\* Of more hits than the array is for, those after it are taken and left out.
Kept(n) == {n} \cup {j \in Members(n) : Cardinality({k \in Members(n) : k < j}) < set.maxHits - 1}

\* The first of the highest energy; the hits are sorted by energy, and equal ones
\* not exchanged.
Brightest(ns) ==
  Min({n \in ns : \A k \in ns : hits[k].energy <= hits[n].energy})

Photon(n) == [hits |-> Kept(n), of |-> Brightest(Kept(n))]
Excess(n) == Cardinality(Members(n)) + 1 > set.maxHits
Passes(n) ==
  LET e == hits[Photon(n).of].energy IN ~Excess(n) /\ set.minEnergy <= e /\ e <= set.maxEnergy

GroupHit ==
  /\ stage = "group" /\ i < Len(hits)
  /\ i' = i + 1
  /\ IF i + 1 \in taken THEN UNCHANGED <<taken, photons, rejected>>
     ELSE /\ taken' = taken \cup {i + 1} \cup Members(i + 1)
          /\ IF Passes(i + 1)
               THEN photons' = Append(photons, Photon(i + 1)) /\ UNCHANGED rejected
               ELSE rejected' = Append(rejected, Photon(i + 1)) /\ UNCHANGED photons
  /\ UNCHANGED <<input, stage, config, raw, hits, pairs, rows>>

----------------------------------------------------------------------------
(* CoincidenceGrouper. *)

PhotonHit(p) == hits[photons[p].of]

\* Mutant of PairReach: the search ends at the window.
PairReachExact == set.coincidenceWindow

PairReach == Overlap + set.coincidenceWindow

InReach(p) ==
  LET after == p + 1 .. Len(photons)
      past == {q \in after : PhotonHit(q).time - PhotonHit(p).time > PairReach}
  IN {q \in after : \A r \in past : q < r}

Coincide(p, q) ==
  /\ Allowed("C", PhotonHit(p).region, PhotonHit(q).region)
  /\ Abs(PhotonHit(p).time - PhotonHit(q).time) <= set.coincidenceWindow

GroupCoincidences ==
  /\ stage = "group" /\ i = Len(hits) /\ stage' = After("group")
  /\ pairs' = {c \in (DOMAIN photons) \X (DOMAIN photons) : c[2] \in InReach(c[1]) /\ Coincide(c[1], c[2])}
  /\ UNCHANGED <<input, config, raw, hits, i, taken, photons, rejected, rows>>

----------------------------------------------------------------------------
(* The file. Of a photon it gets the first hit, which is the brightest.         *)

SingleRow(n) == <<n>>

\* The photon of the higher region comes first.
CoincidenceRow(c) ==
  LET p == c[1]
      q == c[2]
  IN IF PhotonHit(p).region > PhotonHit(q).region THEN <<photons[p].of, photons[q].of>>
                                                  ELSE <<photons[q].of, photons[p].of>>

\* The coincidences are in the order the loops over two photons find them.
Write ==
  /\ stage = "write" /\ stage' = After("write")
  /\ LET found == InOrder(pairs, LAMBDA c, d : c[1] < d[1] \/ (c[1] = d[1] /\ c[2] < d[2]))
     IN rows' = IF input.program = "singles" THEN [n \in DOMAIN hits |-> SingleRow(n)]
                                             ELSE [n \in DOMAIN found |-> CoincidenceRow(found[n])]
  /\ UNCHANGED <<input, config, raw, hits, i, taken, photons, rejected, pairs>>

Next == Load \/ Sort \/ ProcessHit \/ GroupHit \/ GroupCoincidences \/ Write

Spec == Init /\ [][Next]_vars

----------------------------------------------------------------------------
(* Properties. *)

\* Every hit handed to the grouper has a region, which the tables of pairs are
\* indexed with (SystemConfig.hpp:69).
TypeOK ==
  /\ stage \in {"load", "sort", "process", "group", "write", "done", "exited"}
  /\ raw \in Seq(Range(input.block)) /\ Len(hits) <= Len(raw)
  /\ \A h \in Range(hits) : h.region \in Nat
  /\ i \in 0 .. Len(hits) /\ taken \subseteq DOMAIN hits
  /\ \A row \in Range(rows) : Range(row) \subseteq DOMAIN hits

\* What follows the sorter relies on times that are at most half the overlap out of
\* order (CoarseSorter.hpp:13), before and after the calibration.
SortedToTolerance ==
  \A s \in {raw, hits} : \A j, k \in DOMAIN s : j < k => s[k].time + Overlap \div 2 >= s[j].time

Seed(p) == Min(p.hits)

\* No two photons share a hit or could have been one: the first hits of any two, passed
\* or not, do not join, so ending the search early has missed none (SimpleGrouper.cpp:105).
PhotonsAreApart ==
  LET all == photons \o rejected IN
  \A p, q \in Range(all) :
    p # q => p.hits \cap q.hits = {} /\ ~Joins(hits[Seed(p)], hits[Seed(q)])

\* How far calibrated hits are out of order, and how long after the first hit of a photon
\* its brightest is.
Disorder == Coarse - 1 + Correction
Lag(p) == PhotonHit(p).time - hits[Seed(photons[p])].time

Written(p, q) == \E row \in Range(rows) : Range(row) = {photons[p].of, photons[q].of}

\* A photon in between that lags so much more that the search ends before the second.
PassedOver(p, q) == \E r \in p + 1 .. q - 1 : Lag(r) - Lag(q) > Overlap - Disorder

\* The rows are of coincidences, each once. Photons are in the order of their first hits
\* and have the times of their brightest, so the early end of the search can miss a
\* coincidence (CoincidenceGrouper.cpp:36), but only behind a photon that lags more than
\* the overlap is for; which none does if the overlap allows for the group window.
CoincidencesFound ==
  stage = "done" /\ input.program = "coincidence" =>
    LET due == {c \in (DOMAIN photons) \X (DOMAIN photons) : c[1] < c[2] /\ Coincide(c[1], c[2])} IN
    /\ \A m, n \in DOMAIN rows : Range(rows[m]) = Range(rows[n]) => m = n
    /\ \A row \in Range(rows) : \E c \in due : Range(row) = {photons[c[1]].of, photons[c[2]].of}
    /\ \A c \in due : Written(c[1], c[2]) \/ PassedOver(c[1], c[2])
    /\ Overlap >= set.groupWindow + 2 * Disorder => \A c \in due : Written(c[1], c[2])
=============================================================================
