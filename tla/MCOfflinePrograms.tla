------------------------- MODULE MCOfflinePrograms -------------------------
(***************************************************************************)
(* The files on which OfflinePrograms is checked.                            *)
(***************************************************************************)
EXTENDS OfflinePrograms, SequencesExt

----------------------------------------------------------------------------
(* Digitizer files of three events.                                           *)

BothOn == <<{0, 1}, {0, 1}, {0, 1}>>
Whole(gs) ==
  FlattenSeq([e \in DOMAIN gs |-> [p \in 1 .. 4 + Cardinality(gs[e]) * 8 |-> <<e, p>>]])
Cut(s, i, k) == SubSeq(s, 1, i - 1) \o SubSeq(s, i + k, Len(s))
Job(prog, dat, n, f, gs, flat) ==
  [program |-> prog, dat |-> dat, nEvents |-> n, file |-> f, groups |-> gs, flat |-> flat]
Damaged(f) == Job("dat2rootPixels", TRUE, -1, f, BothOn, {})

\* Words lost once, words lost twice, a file cut short; and groups switched on and
\* off between the events, with channels without a pulse.
MCDrsInputs ==
  LET w == Whole(BothOn) IN
  {Damaged(Cut(w, i, k)) : i \in 1 .. 60, k \in 1 .. 21}
  \cup {Damaged(Cut(Cut(w, j, l), i, k)) : i \in 1 .. 20, j \in 23 .. 38, k, l \in {1, 3}}
  \cup {Damaged(SubSeq(w, 1, n)) : n \in 0 .. 60}
  \cup {Job(prog[1], prog[2], n, Whole(gs), gs, flat) :
          prog \in {<<"dat2root", TRUE>>, <<"datroot2root", TRUE>>, <<"datroot2root", FALSE>>},
          n \in {-1, 2},
          gs \in {<<a, b, c>> : a, b, c \in SUBSET {0, 1}},
          flat \in {{}, {<<2, 0>>}, {<<2, 1>>, <<3, 0>>}}}

----------------------------------------------------------------------------
(* Triggers in two spills and a last one: any of the first five is missed by   *)
(* the chips, the telescope or both, and some fire twice.                      *)

When == <<0, 5, 10, 40, 45, 65>>
Times(S) == SelectSeq(<<1, 2, 3, 4, 5, 6>>, LAMBDA g : g \in S)
Hits(S, t0, twice) ==
  FlattenSeq([n \in DOMAIN Times(S) |->
    LET g == Times(S)[n]
        t == t0 + When[g]
    IN << <<"crystal", t, g>>, <<"trigger", t + 1, g>> >>
       \o (IF g \in {2, 3} THEN << <<"crystal", t + 2, g>> >> ELSE << >>)
       \o (IF g \in twice THEN << <<"trigger", t + 3, g>> >> ELSE << >>)])
Bco(S, b0) ==
  [n \in DOMAIN Times(S) |-> <<(b0 + When[Times(S)[n]]) % 1000, Times(S)[n]>>]
MCTrackInputs ==
  {[hits |-> Hits(S \cup {6}, t0, twice) \o << <<"crystal", t0 + 80, 7>> >>,
    bco |-> Bco(R \cup {6}, b0), tracks |-> [n \in 1 .. 6 |-> n % 3],
    when |-> When] :
     S \in SUBSET (1 .. 5), R \in {X \in SUBSET (1 .. 5) : Cardinality(X) >= 2},
     t0 \in {4, 50}, b0 \in {0, 967}, twice \in {{}, {1, 4}}}

----------------------------------------------------------------------------
(* Blocks of four hits that are close in time and space.                       *)

Table ==
  << [channel |-> "a", shift |-> 2, region |-> 0, x |-> 0],
     [channel |-> "b", shift |-> 0, region |-> 0, x |-> 1],
     [channel |-> "c", shift |-> 1, region |-> 1, x |-> 5],
     [channel |-> "d", shift |-> 0, region |-> 0, x |-> 9] >>
TriggerMap ==
  << [regions |-> <<0, 1>>, kind |-> "M"], [regions |-> <<0, 0>>, kind |-> "M"],
     [regions |-> <<1, 0>>, kind |-> "C"] >>
Settings(w) ==
  [groupWindow |-> w, coincidenceWindow |-> 2, radius |-> 1, minEnergy |-> 1, maxEnergy |-> 4, maxHits |-> 2]
RawHit(t, c, e) == [valid |-> TRUE, time |-> t, channel |-> c, energy |-> e]
Blocks ==
  {<<RawHit(t1, cs[1], 3), RawHit(t2, cs[2], 2), RawHit(t3, cs[3], e3), RawHit(t4, cs[4], 2)>> :
     t1 \in 2 .. 4, t2, t3 \in 2 .. 8, t4 \in {5, 9, 14}, e3 \in {1, 5},
     cs \in {<<"a", "b", "c", "d">>, <<"c", "a", "b", "b">>, <<"b", "a", "c", "a">>}}
\* A photon whose brightest hit is late, between the two of a coincidence.
Late ==
  {<<RawHit(1, "c", e), RawHit(t, "a", 3), RawHit(5, "d", e), RawHit(late, "d", 4)>> :
     t \in {3, 4}, late \in 8 .. 12, e \in {1, 4}}
NoHits == [NoBlock EXCEPT !.settings = Settings(2), !.map = Table]
MCHitInputs ==
  {[program |-> "coincidence", qdcMode |-> FALSE, tdc |-> Table, qdc |-> << >>,
    map |-> Table, trigger |-> TriggerMap, settings |-> Settings(2), block |-> b] : b \in Blocks}
  \cup {[program |-> "coincidence", qdcMode |-> FALSE, tdc |-> Table, qdc |-> << >>,
         map |-> Table, trigger |-> TriggerMap, settings |-> Settings(w), block |-> b] :
           w \in {2, 6}, b \in Late}
  \cup {[program |-> prog, qdcMode |-> q, tdc |-> SubSeq(Table, 1, n), qdc |-> SubSeq(Table, 2, 4),
         map |-> SubSeq(Table, m, 4), trigger |-> TriggerMap, settings |-> Settings(1),
         block |-> <<RawHit(t, "a", 3), RawHit(3, "c", 2), RawHit(t, "d", 2)>>] :
           prog \in {"singles", "coincidence"}, q \in BOOLEAN, n \in {2, 4}, m \in {1, 2}, t \in 2 .. 4}
  \cup {[NoHits EXCEPT !.trigger = TriggerMap \o << [regions |-> rs, kind |-> "M"] >>] :
          rs \in {<<-1, 0>>, <<1, 1>>}}
=============================================================================
