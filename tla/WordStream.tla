----------------------------- MODULE WordStream -----------------------------
(***************************************************************************)
(* What a DAQ card promises the thread that calls getWords, with no        *)
(* buffers or threads: the words of the card come out once each and in the *)
(* order they came in, and each transfer that failed is reported once, at  *)
(* its place between them.                                                 *)
(***************************************************************************)
EXTENDS Integers, Sequences

CONSTANT Failure          \* stands in the queue for a failed transfer

VARIABLES queue,          \* what has come in and not been taken out
          nWords,         \* how many words have come in
          out             \* what has been taken out: how many words, the last
                          \* of them, and the failures (mod 2)

Init == queue = << >> /\ nWords = 0 /\ out = [words |-> 0, last |-> 0, failures |-> 0]

Arrive == /\ nWords' >= nWords
          /\ queue' = queue \o [i \in 1 .. nWords' - nWords |-> nWords + i]
          /\ UNCHANGED out

Fail == queue' = Append(queue, Failure) /\ UNCHANGED <<nWords, out>>

Deliver == /\ \E k \in 1 .. Len(queue) :
                /\ \A i \in 1 .. k : queue[i] # Failure
                /\ queue' = SubSeq(queue, k + 1, Len(queue))
                /\ out' = [out EXCEPT !.words = out.words + k, !.last = queue[k]]
           /\ UNCHANGED nWords

Report == /\ queue # << >> /\ Head(queue) = Failure
          /\ queue' = Tail(queue)
          /\ out' = [out EXCEPT !.failures = 1 - out.failures]
          /\ UNCHANGED nWords

\* The card is shut down.
Close == queue' = << >> /\ UNCHANGED <<nWords, out>>

Next == Arrive \/ Fail \/ Deliver \/ Report \/ Close

Spec == Init /\ [][Next]_<<queue, nWords, out>>

============================================================================
