---------------------------- MODULE MCDKGHandler ----------------------------
(* Rounds of 13 blocks with phases of 2, up to the first blocks of the     *)
(* second round, and two versions of each block that names a quorum.       *)
EXTENDS DKGHandler, TLC
=============================================================================
