--------------------------- MODULE DrsConversion ---------------------------
(***************************************************************************)
(* The programs that turn the binary file of the DRS4 digitizer into a tree *)
(* of events: dat2root, dat2rootPixels, which adds the tracks of the pixel  *)
(* telescope and tries to survive lost words, and datroot2root, which also  *)
(* works over a tree written before (DRS/dat2root.cc, dat2rootPixels.cc,    *)
(* datroot2root.cc).                                                        *)
(*                                                                         *)
(* An event in the file is four header words, of which the third is zero    *)
(* and no other word is, and for every group that is on a header word, the  *)
(* samples in threes of words, and a trailing word. A word is the event it  *)
(* is of and its place there, so that a file with words lost or cut short   *)
(* is a sequence of such pairs with some missing, and a row of the tree can *)
(* be compared with the event it should be. The channels of a group stand   *)
(* for one that is in the configuration.                                    *)
(***************************************************************************)
EXTENDS Integers, Sequences, FiniteSetsExt

CONSTANTS
  Triples,    \* three-word reads in a group, 1024 + 128 in the code
  Inputs,     \* program, nEvents, file, groups of each event, events without a pulse
  Unlimited   \* bound: what nEvents < 0 stands for, 999999 in the code

Group == {0, 1}          \* 0 .. 3 in the code

VARIABLES
  input,
  pos,          \* the position in the file
  pc,           \* "event", "group", "samples", "channels", "trailer", "fill", "closed", "crashed"
  start,        \* where this event was begun
  iEvent,
  groups,       \* the groups of this event yet to be read
  nTriples,     \* what has been read of the samples of this one
  words,        \* the words read for this event
  channel,      \* of each group: the event its samples and fitted times are of
  tree          \* rows: the event the words are of, 0 when they are not one event's;
                \* the event whose track it has; the channels
vars == <<input, pos, pc, start, iEvent, groups, nTriples, words, channel, tree>>

file == input.file
Pixels == input.program = "dat2rootPixels"
GroupLength == 2 + 3 * Triples
EventLength(e) == 4 + Cardinality(input.groups[e]) * GroupLength
Nothing == [samples |-> 0, times |-> 0]
Leftover == <<0, 0>>       \* what a failed read leaves in the buffer
maxEvents == IF input.nEvents < 0 THEN Unlimited ELSE input.nEvents

\* datroot2root asks the tree of its input how many entries it has, and for a
\* .dat file there is no tree.
Opened == IF input.program = "datroot2root" /\ input.dat THEN "crashed" ELSE "event"

Begin ==
  /\ pos = 0 /\ start = 0 /\ iEvent = 0 /\ pc = Opened
  /\ groups = << >> /\ nTriples = 0 /\ words = << >>
  /\ channel = [g \in Group |-> Nothing] /\ tree = << >>

Init == input \in Inputs /\ Begin

----------------------------------------------------------------------------
(* Reading. *)

Available(n) == Min({n, Len(file) - pos})
FromFile(p, n) ==
  [i \in 1 .. n |-> IF p + i <= Len(file) THEN file[p + i] ELSE Leftover]
Fread(p, n) == /\ pos' = Min({p + n, Len(file)})
               /\ words' = words \o FromFile(p, n)

Zeros(n) == {i \in pos + 1 .. pos + Available(n) : file[i][2] = 3}

\* Mutant of SeekBack: back to where this event was begun.
SeekBackToEvent(i) == start

\* A zero is the third word of a header.
SeekBack(i) == i - 3

\* found_corruption(n), what it answers and where it leaves the file: at the end
\* of the file it goes back n words, as many as it wanted to read, and what it
\* looks at when it could not read any is not initialized.
FoundCorruption(n) ==
  IF Zeros(n) # {} THEN {<<TRUE, SeekBack(Min(Zeros(n)))>>}
  ELSE {<<FALSE, pos + Available(n) - n>>}
       \cup (IF Available(n) = 0 THEN {<<TRUE, SeekBack(Len(file))>>} ELSE {})

\* The event goes on with n more words.
Read(n) ==
  IF Pixels THEN \E r \in FoundCorruption(n) : ~r[1] /\ Fread(r[2], n) ELSE Fread(pos, n)

\* A header where the event should go on: the event is discarded.
GivenUp(n) ==
  /\ Pixels
  /\ \E r \in FoundCorruption(n) : r[1] /\ pos' = r[2]
  /\ pc' = "event" /\ iEvent' = iEvent + 1
  /\ UNCHANGED <<groups, nTriples, words, channel, tree>>

----------------------------------------------------------------------------
(* The event loop over a file. *)

Done == iEvent >= maxEvents \/ Len(file) - pos < 4

Close ==
  /\ pc = "event" /\ input.dat /\ Done
  /\ pc' = "closed"
  /\ UNCHANGED <<input, pos, start, iEvent, groups, nTriples, words, channel, tree>>

\* dat2rootPixels takes the first two groups to be on, whatever the mask says.
ActiveGroups == IF Pixels THEN {0, 1} ELSE input.groups[file[pos + 2][1]]

\* The groups that are on, in the order they are read.
InTurn(gs) == (IF 0 \in gs THEN <<0>> ELSE << >>) \o (IF 1 \in gs THEN <<1>> ELSE << >>)

Header ==
  /\ pc = "event" /\ input.dat /\ ~Done
  /\ start' = pos /\ pos' = pos + 4 /\ words' = FromFile(pos, 4)
  /\ groups' = InTurn(ActiveGroups)
  /\ pc' = IF groups' = << >> THEN "fill" ELSE "group"
  /\ UNCHANGED <<input, iEvent, nTriples, channel, tree>>

GroupHeader ==
  /\ pc = "group"
  /\ \/ /\ Read(1)
        /\ nTriples' = 0 /\ pc' = "samples"
        /\ UNCHANGED <<iEvent, groups, channel, tree>>
     \/ GivenUp(1)
  /\ UNCHANGED <<input, start>>

\* Eight channels in the first triples, the trigger channel in the others.
ReadSamples ==
  /\ pc = "samples"
  /\ \/ /\ Read(3)
        /\ nTriples' = nTriples + 1
        /\ pc' = IF nTriples' = Triples THEN "channels" ELSE "samples"
        /\ UNCHANGED <<iEvent, groups, channel, tree>>
     \/ GivenUp(3)
  /\ UNCHANGED <<input, start>>

\* Mutant of Analysed: a channel without a pulse is passed over.
AnalysedUnlessFlat(e, g, samples) ==
  IF <<e, g>> \in input.flat THEN channel[g] ELSE [samples |-> samples, times |-> samples]

\* Without a pulse (xmin = 0) no edge is fitted, and the times are what the stack
\* still has of the channel before.
Analysed(e, g, samples) ==
  [samples |-> samples, times |-> IF <<e, g>> \in input.flat THEN channel[g].times ELSE samples]

Channels ==
  /\ pc = "channels"
  /\ LET e == words[1][1]
         g == Head(groups)
     IN channel' = [channel EXCEPT ![g] = Analysed(e, g, e)]
  /\ pc' = "trailer"
  /\ UNCHANGED <<input, pos, start, iEvent, groups, nTriples, words, tree>>

Trailer ==
  /\ pc = "trailer"
  /\ \/ /\ Read(1)
        /\ groups' = Tail(groups)
        /\ pc' = IF groups' = << >> THEN "fill" ELSE "group"
        /\ UNCHANGED <<iEvent, nTriples, channel, tree>>
     \/ GivenUp(1)
  /\ UNCHANGED <<input, start>>

\* The event a sequence of words is the whole of, if any.
WholeEvent(ws) ==
  LET e == ws[1][1]
  IN IF e # 0 /\ ws = [p \in 1 .. EventLength(e) |-> <<e, p>>] THEN e ELSE 0

\* Mutant of TrackEvent: the events stored are counted, not all.
StoredEvents == Len(tree)

\* The track of a row is the one with its trigger number, the count of events.
TrackEvent == iEvent

Fill ==
  /\ pc = "fill"
  /\ tree' = Append(tree, [of |-> WholeEvent(words), track |-> TrackEvent, channel |-> channel])
  /\ pc' = "event" /\ iEvent' = iEvent + 1
  /\ UNCHANGED <<input, pos, start, groups, nTriples, words, channel>>

----------------------------------------------------------------------------
(* datroot2root over the tree of a first conversion. There a group keeps the    *)
(* time axis and the samples of the last event that had it on.                 *)

LastWith(e, g) == Max({0} \cup {f \in 1 .. e : g \in input.groups[f]})

\* The groups of an entry are those with a time axis.
GroupsOfEntry(e) == {g \in Group : LastWith(e, g) > 0}

RootEvent ==
  /\ pc = "event" /\ ~input.dat
  /\ iEvent < Min({Len(input.groups), input.nEvents})
  /\ iEvent' = iEvent + 1
  /\ channel' = [g \in Group |-> IF g \in GroupsOfEntry(iEvent')
                                 THEN Analysed(iEvent', g, LastWith(iEvent', g)) ELSE channel[g]]
  /\ tree' = Append(tree, [of |-> iEvent', track |-> iEvent, channel |-> channel'])
  /\ UNCHANGED <<input, pos, pc, start, groups, nTriples, words>>

\* The number of events asked for is not made unlimited here.
CloseRoot ==
  /\ pc = "event" /\ ~input.dat
  /\ iEvent >= Min({Len(input.groups), input.nEvents})
  /\ pc' = "closed"
  /\ UNCHANGED <<input, pos, start, iEvent, groups, nTriples, words, channel, tree>>

Next ==
  Close \/ Header \/ GroupHeader \/ ReadSamples \/ Channels \/ Trailer \/ Fill
  \/ RootEvent \/ CloseRoot

Spec == Init /\ [][Next]_vars

----------------------------------------------------------------------------
(* Properties. *)

TypeOK ==
  /\ pos \in 0 .. Len(file) /\ start \in 0 .. Len(file)
  /\ pc \in {"event", "group", "samples", "channels", "trailer", "fill", "closed", "crashed"}
  /\ iEvent \in 0 .. Unlimited /\ nTriples \in 0 .. Triples
  /\ channel \in [Group -> [samples : 0 .. Len(input.groups), times : 0 .. Len(input.groups)]]
  /\ \A r \in Range(tree) : r.of \in 0 .. Len(input.groups)

Event == 1 .. Len(input.groups)
Lost(e) == {p \in 1 .. EventLength(e) : <<e, p>> \notin Range(file)}

\* The reader has no means to notice the loss of one or two words, or of the zero of
\* the header, or any loss at the end of the file. Sound are the events before the
\* first with such a loss.
Noticed(e) == Lost(e) = {} \/ (Cardinality(Lost(e)) >= 3 /\ Min(Lost(e)) > 3 /\ e < Len(input.groups))
Sound == {e \in Event : \A f \in 1 .. e : Noticed(f)}

\* As long as no event has lost words in a way that cannot be noticed, the rows are
\* the events that came whole, once each and in order; a damaged event is left out
\* and takes no event after it along (found_corruption, dat2rootPixels.cc:36).
RowsAreTheWholeEvents ==
  pc = "closed" /\ input.dat /\ input.nEvents < 0 =>
    LET whole == {e \in Sound : Lost(e) = {}}
    IN /\ Len(tree) >= Cardinality(whole)
       /\ \A e \in whole : tree[Cardinality({f \in whole : f <= e})].of = e

\* Every event still has the zero it is recognized by, and no header runs into the
\* zero of the next event.
Recognized ==
  /\ \A e \in Event : 3 \notin Lost(e)
  /\ \A i \in DOMAIN file : file[i][2] = 3 =>
       \A j \in i + 1 .. Min({i + 3, Len(file)}) : file[j][2] # 3

\* A row that is a whole event has the track of that event, also behind events that
\* were discarded or stored garbled (iEvent counts them all, dat2rootPixels.cc:363),
\* as long as events can be told apart.
TrackOfOwnEvent ==
  Recognized =>
    \A r \in Range(tree) : r.of # 0 => r.track = r.of - 1

\* The samples of a row are those of its event in the groups that were on in it, and
\* the last the group had in the others; the fitted times are of the same event,
\* or of an earlier one of the same group when there was no pulse to fit.
ValuesOfOwnEvent ==
  \A r \in Range(tree) : r.of # 0 => \A g \in Group :
    /\ input.program # "dat2rootPixels" => r.channel[g].samples = LastWith(r.of, g)
    /\ g \in input.groups[r.of] =>
         /\ r.channel[g].samples = r.of
         /\ r.channel[g].times = r.of \/ (<<r.of, g>> \in input.flat /\ r.channel[g].times < r.of)

\* However the file is damaged, every event is begun further on in it than the one
\* before: going back to a header never makes the programs read it for ever.
AlwaysForward == [][pc = "event" /\ pc' = "group" => iEvent = 0 \/ pos > start]_vars
=============================================================================
