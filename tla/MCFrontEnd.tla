----------------------------- MODULE MCFrontEnd -----------------------------
(* Instances of FrontEnd for TLC.                                          *)
EXTENDS FrontEnd, TLC

Processes == Permutations(Daemon)
=============================================================================
