--------------------------- MODULE MCCommandLink ---------------------------
(* Instances of CommandLink for TLC.                                       *)
EXTENDS CommandLink

=============================================================================
