------------------------------ MODULE MCRoster ------------------------------
(* Instances of Roster for TLC: ann at daemon a, bob at daemon b, a front   *)
(* end for bob; bob is in a room.                                          *)
EXTENDS Roster, TLC

CONSTANTS a, b,     \* daemons
          ann, bob, \* persons
          room,     \* a room
          sb        \* bob's front end

MCIdentity == [d \in Daemon |-> IF d = a THEN ann ELSE bob]
MCScreenOf == [s \in Screen |-> b]
MCJoined == [d \in Daemon |-> IF d = b THEN {room} ELSE {}]
=============================================================================
