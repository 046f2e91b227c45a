---------------------------- MODULE MCCommandLink ----------------------------
(* Two FEB/Ds. *)
EXTENDS CommandLink

CONSTANTS f1, f2

MCFebs == {f1, f2}

=============================================================================
