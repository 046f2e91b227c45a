---------------------------- MODULE FrameStream ----------------------------
(***************************************************************************)
(* What a data acquisition run promises the program that reads it, with no *)
(* ring, pointers or threads: a bounded queue of frames, known by their    *)
(* IDs. Frames enter it in the order of their IDs, some of the hardware's  *)
(* missing; each is taken out at most once, in the same order; the reader  *)
(* may throw away all there is, and starting or stopping a run empties the *)
(* queue. Where frames may be spoiled, one that is keeps its place: it may *)
(* be spoiled from the start, or become so while it waits.                 *)
(***************************************************************************)
EXTENDS Integers, Sequences

CONSTANTS Capacity, MaySpoil

VARIABLES queue,    \* the frames that wait for the reader: ID, and if whole
          taken     \* the last frame the reader has taken

Nothing == [id |-> -1, whole |-> FALSE]

Init == queue = << >> /\ taken = Nothing

\* The newest frame of the run that has been stored and not thrown away.
Newest == IF queue = << >> THEN taken ELSE queue[Len(queue)]

Store == /\ Len(queue) < Capacity
         /\ Len(queue') = Len(queue) + 1
         /\ queue' = Append(queue, queue'[Len(queue')])
         /\ queue'[Len(queue')].id > Newest.id
         /\ queue'[Len(queue')].whole \/ MaySpoil
         /\ UNCHANGED taken

Spoil == /\ MaySpoil
         /\ DOMAIN queue' = DOMAIN queue
         /\ \A i \in DOMAIN queue :
              queue'[i] \in {queue[i], [queue[i] EXCEPT !.whole = FALSE]}
         /\ UNCHANGED taken

Take == /\ queue # << >>
        /\ taken' = Head(queue)
        /\ queue' = Tail(queue)

DiscardAll == queue' = << >> /\ UNCHANGED taken

Reset == queue' = << >> /\ taken' = Nothing

Next == Store \/ Spoil \/ Take \/ DiscardAll \/ Reset

Spec == Init /\ [][Next]_<<queue, taken>>

============================================================================
