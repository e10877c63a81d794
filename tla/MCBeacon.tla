------------------------------ MODULE MCBeacon ------------------------------
(* Instances of Beacon for TLC. A tick stands for six seconds or so.       *)
EXTENDS Beacon
=============================================================================
