---------------------------- MODULE EventStream ----------------------------
(***************************************************************************)
(* What a conversion program promises about the blocks of events it reads  *)
(* from the raw data file, with no pool, threads or stages: within a step  *)
(* every block read is written exactly once, in the order it was read, and *)
(* the step is closed only when all of them have been written.             *)
(***************************************************************************)
EXTENDS Integers, Sequences

VARIABLES nRead,      \* how many blocks of this step have been read
          written     \* the blocks written in this step, in order

Init == nRead = 0 /\ written = << >>

Read == nRead' = nRead + 1 /\ UNCHANGED written

Write == /\ Len(written) < nRead
         /\ written' = Append(written, Len(written) + 1)
         /\ UNCHANGED nRead

CloseStep == /\ Len(written) = nRead
             /\ nRead' = 0 /\ written' = << >>

Next == Read \/ Write \/ CloseStep

Spec == Init /\ [][Next]_<<nRead, written>>

============================================================================
