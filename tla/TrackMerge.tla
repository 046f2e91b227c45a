---------------------------- MODULE TrackMerge ----------------------------
(***************************************************************************)
(* From single hits of the TOFPET chips to events with a track of the pixel  *)
(* telescope: ConvertTOFPETSinglesToEvents gathers the hits between two gaps,*)
(* and MergeTOFPETWithPixels finds for the trigger of each event the one of  *)
(* the telescope, by the time since the run began and the time since the     *)
(* last pause (Coincidence_Utilities).                                       *)
(*                                                                         *)
(* All times are in one unit: the factors between the clocks, and what they  *)
(* drift, are left out. The trigger a hit or a reading of the telescope's    *)
(* counter is truly of is carried along, unread by the programs.             *)
(***************************************************************************)
EXTENDS Integers, Sequences, FiniteSetsExt

CONSTANTS
  Inputs,     \* hits: <<channel, time, true trigger>>; bco: <<counter, true trigger>>;
              \* tracks: of each reading; when: the time each trigger is truly at
  Channel, Trigger,             \* the channel of the trigger, 32 in the code
  CoWindow, Near, Far, Pause,   \* 500 ns, 0.5 ms, 0.1 s, 1 s
  Wrap                          \* 2^48

VARIABLES
  input,
  stage,      \* "build", "merge", "done"
  i,          \* the hits taken
  tPrev,
  row,        \* the event being gathered: the last hit of each channel, 0 none
  event,      \* events written
  clock,      \* FirstEventTimeTOFPET, previousTimestamp, TOFPETPreviousResetTime
  nTriggers,  \* TriggerIndexTOFPET
  matched,    \* PreviouslyMatchedTriggerNumber, counted from 1 here
  track,      \* the trigger whose track the output variables hold
  out         \* rows: the event, the match, ntracks and the track
vars == <<input, stage, i, tPrev, row, event, clock, nTriggers, matched, track, out>>

Hit(n) == input.hits[n]
Empty == [c \in Channel |-> 0]
Abs(x) == IF x < 0 THEN -x ELSE x

Begin ==
  /\ stage = "build" /\ i = 0 /\ tPrev = 0 /\ row = Empty /\ event = << >>
  /\ clock = [first |-> 0, previous |-> 0, reset |-> 0]
  /\ nTriggers = 0 /\ matched = 0 /\ track = 0 /\ out = << >>

Init == input \in Inputs /\ Begin

----------------------------------------------------------------------------
(* ConvertTOFPETSinglesToEvents. *)

\* Mutant of Reference: the window is that of the event's first hit.
FirstOfEvent(gap, t) == IF gap \/ i = 0 THEN t ELSE tPrev

\* The hit the next one is compared with.
Reference(gap, t) == t

TakeHit ==
  /\ stage = "build" /\ i < Len(input.hits)
  /\ i' = i + 1
  /\ LET t == Hit(i + 1)[2]
         gap == i # 0 /\ Abs(tPrev - t) > CoWindow
     IN /\ event' = IF gap THEN Append(event, row) ELSE event
        /\ row' = [IF gap THEN Empty ELSE row EXCEPT ![Hit(i + 1)[1]] = i + 1]
        /\ tPrev' = Reference(gap, t)
  /\ UNCHANGED <<input, stage, clock, nTriggers, matched, track, out>>

\* The event still being gathered is not written.
EndOfHits ==
  /\ stage = "build" /\ i = Len(input.hits)
  /\ stage' = "merge"
  /\ UNCHANGED <<input, i, tPrev, row, event, clock, nTriggers, matched, track, out>>

----------------------------------------------------------------------------
(* MergeTOFPETWithPixels. *)

Reading == DOMAIN input.bco
Counter(p) == input.bco[p][1]

\* Mutant of TrackerTime: a counter that wrapped is not noticed.
TrackerTimeNoWrap(p) == Counter(p) - Counter(1)

TrackerTime(p) ==
  Counter(p) - Counter(1) + (IF Counter(p) < Counter(1) THEN Wrap ELSE 0)

\* The time since the last pause of the telescope.
ResetIndex(p) == Max({1} \cup {j \in 2 .. p : TrackerTime(j) - TrackerTime(j - 1) > Pause})
TrackerTimeResetted(p) == TrackerTime(p) - TrackerTime(ResetIndex(p))

\* What the first trigger sets, and what every trigger does. The time of the last
\* pause is absolute at first, and from the first pause on since the first trigger.
FirstTrigger(t) ==
  IF nTriggers = 0 THEN [first |-> t, previous |-> t, reset |-> t] ELSE clock
Tick(t) ==
  LET c == FirstTrigger(t) IN
  [c EXCEPT !.previous = t, !.reset = IF t - c.previous > Pause THEN t - c.first ELSE @]

Elapsed(t) == t - FirstTrigger(t).first
ElapsedResetted(t) == IF nTriggers = 0 THEN 0 ELSE Elapsed(t) - Tick(t).reset

\* Mutant of Agree: the time since the pause is not looked at.
AgreeOnRun(p, t) == Abs(TrackerTime(p) - Elapsed(t)) < Far

Agree(p, t) == /\ Abs(TrackerTime(p) - Elapsed(t)) < Far
               /\ Abs(TrackerTimeResetted(p) - ElapsedResetted(t)) < Near

\* Mutant of Candidates: the readings already matched are searched again.
AllReadings == Reading

Candidates == {p \in Reading : p > matched}

\* The first reading that agrees, unless one before it is too far ahead: 0 if none.
MatchOf(t) ==
  LET agree == {p \in Candidates : Agree(p, t)}
      ahead == {p \in Candidates : TrackerTime(p) - Elapsed(t) > Far}
  IN IF agree # {} /\ \A p \in ahead : p > Min(agree) THEN Min(agree) ELSE 0

\* Mutant of TrackAfter: an event without a match leaves the last track in place.
KeepTrack(m) == IF m # 0 /\ input.tracks[m] > 0 THEN m ELSE track

\* A match whose trigger has no track leaves the last one in place.
TrackAfter(m) == IF m = 0 THEN 0 ELSE IF input.tracks[m] > 0 THEN m ELSE track

Row(m) == [match |-> m, track |-> TrackAfter(m), ntracks |-> IF m = 0 THEN -1 ELSE input.tracks[m]]

MergeEvent ==
  /\ stage = "merge" /\ Len(out) < Len(event)
  /\ LET h == event[Len(out) + 1][Trigger]
         t == Hit(h)[2]
         m == IF h = 0 THEN 0 ELSE MatchOf(t)
     IN /\ IF h = 0 THEN UNCHANGED <<clock, nTriggers>>
           ELSE clock' = Tick(t) /\ nTriggers' = nTriggers + 1
        /\ matched' = IF m = 0 THEN matched ELSE m
        /\ track' = TrackAfter(m)
        /\ out' = Append(out, Row(m))
  /\ UNCHANGED <<input, stage, i, tPrev, row, event>>

EndOfEvents ==
  /\ stage = "merge" /\ Len(out) = Len(event)
  /\ stage' = "done"
  /\ UNCHANGED <<input, i, tPrev, row, event, clock, nTriggers, matched, track, out>>

Next == TakeHit \/ EndOfHits \/ MergeEvent \/ EndOfEvents

Spec == Init /\ [][Next]_vars

----------------------------------------------------------------------------
(* Properties. *)

TypeOK ==
  /\ stage \in {"build", "merge", "done"} /\ i \in 0 .. Len(input.hits)
  /\ row \in [Channel -> 0 .. i] /\ event \in Seq([Channel -> 0 .. i])
  /\ matched \in 0 .. Len(input.bco) /\ track \in 0 .. matched
  /\ nTriggers <= Len(event) /\ Len(out) <= Len(event)

\* The first hits after the gaps, and the hits of each event.
Starts == {n \in 1 .. Len(input.hits) :
             n = 1 \/ Abs(Hit(n)[2] - Hit(n - 1)[2]) > CoWindow}
HitsFrom(n) == {k \in n .. Len(input.hits) : \A s \in Starts : s <= n \/ k < s}

\* An event is what lies between two gaps of more than the window, however long it
\* is, with the last hit of each channel; what comes after the last gap is lost
\* (ConvertTOFPETSinglesToEvents.cc:90).
EventsAreBetweenGaps ==
  stage # "build" =>
    /\ Len(event) = Max({1, Cardinality(Starts)}) - 1
    /\ \A n \in Starts : n # Max(Starts) =>
         event[Cardinality({s \in Starts : s <= n})] =
           [c \in Channel |-> Max({0} \cup {k \in HitsFrom(n) : Hit(k)[1] = c})]

\* The hits of the triggers that were written, in order.
TriggerHits == {event[e][Trigger] : e \in DOMAIN event} \ {0}

\* No trigger of the telescope is given to two events, and they are given in order,
\* also when the trigger channel fires twice (PreviouslyMatchedTriggerNumber).
EachTriggerOnce ==
  \A e, f \in DOMAIN out : e < f /\ out[e].match # 0 /\ out[f].match # 0 =>
    out[e].match < out[f].match

\* A pause before a hit, as the chips saw it, and before a reading.
PauseBefore(k) == \A j \in TriggerHits : j < k => Hit(k)[2] - Hit(j)[2] > Pause
TrueTime(p) == input.when[input.bco[p][2]]
PauseBeforeReading(p) == \A q \in Reading : q < p => TrueTime(p) - TrueTime(q) > Pause

\* Up to hit h, both saw the first trigger after every pause.
SamePauses(h) ==
  {Hit(k)[3] : k \in {j \in TriggerHits : j <= h /\ PauseBefore(j)}}
  = {input.bco[p][2] : p \in {q \in Reading : input.bco[q][2] <= Hit(h)[3] /\ PauseBeforeReading(q)}}

\* Where the times since the last pause may be compared: at the first trigger, and from
\* the first pause on. Between them the time of the last pause is absolute, so that
\* a wrong reading may be taken (TOFPETPreviousResetTime, MergeTOFPETWithPixels.cc:336).
Comparable(h) ==
  /\ h # 0 /\ SamePauses(h)
  /\ \/ h = Min(TriggerHits)
     \/ \E k \in TriggerHits : k <= h /\ k # Min(TriggerHits) /\ PauseBefore(k)

\* Where the times can be compared, an event is matched with the reading of its own
\* trigger or with none.
MatchIsOwnTrigger ==
  \A e \in DOMAIN out : out[e].match # 0 /\ Comparable(event[e][Trigger]) =>
    input.bco[out[e].match][2] = Hit(event[e][Trigger])[3]

\* There, every trigger that both saw finds its match, but for one that fires again.
SeenByBothIsMatched ==
  \A e \in DOMAIN out :
    LET h == event[e][Trigger]
    IN /\ Comparable(h)
       /\ \E p \in Reading : input.bco[p][2] = Hit(h)[3]
       /\ ~\E j \in TriggerHits : j < h /\ Hit(j)[3] = Hit(h)[3]
       => out[e].match # 0

\* A row with tracks has the track of its match and one without a match has none;
\* only a match without a track shows the track of an event before.
TrackIsOfTheMatch ==
  \A e \in DOMAIN out :
    /\ out[e].ntracks > 0 => out[e].track = out[e].match
    /\ out[e].match = 0 => out[e].track = 0 /\ out[e].ntracks = -1
    /\ out[e].track # out[e].match => out[e].ntracks = 0 /\ out[e].track < out[e].match
=============================================================================
