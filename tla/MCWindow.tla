------------------------------ MODULE MCWindow ------------------------------
(* Instances of Window for TLC.                                            *)
EXTENDS Window

CONSTANTS c1, c2

(* Two offers of one person, one of another.                               *)
MCConvOf == [t \in Transfer |-> IF t = 3 THEN c2 ELSE c1]
=============================================================================
