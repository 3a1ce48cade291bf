------------------------------- MODULE MCDKG -------------------------------
(* One session of four members, one of which simulates errors.  Honest     *)
(* members can be exchanged: nothing orders them.                          *)
EXTENDS DKG, TLC

Symmetry == Permutations(Honest)
=============================================================================
