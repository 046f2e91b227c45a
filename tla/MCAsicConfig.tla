---------------------------- MODULE MCAsicConfig ----------------------------
(* Two ASICs and one configuration of the script. *)
EXTENDS AsicConfig

CONSTANTS a1, a2, user

MCAsics == {a1, a2}
MCUserConfigs == {user}

=============================================================================
