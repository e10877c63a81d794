------------------------------ MODULE MCRelay ------------------------------
(* Instances of Relay for TLC.                                             *)
EXTENDS Relay, TLC

CONSTANTS a, b, b2,     \* daemons; b2 is a second daemon of b's person
          m1, m2,       \* messages
          ann, bob,     \* persons
          direct        \* the one-to-one conversation of the two

MCIdentity == [d \in Daemon |-> IF d = a THEN ann ELSE bob]

(* Everything is said by a; each of the two says something; each of the     *)
(* daemons of bob says something.                                           *)
OneAuthor == [m \in Msg |-> a]
TwoAuthors == [m \in Msg |-> IF m = m1 THEN a ELSE b]
BothOfBob == [m \in Msg |-> IF m = m1 THEN b ELSE b2]

(* A one-to-one conversation goes to the sender, then to the other.        *)
MCConvOf == [m \in Msg |-> direct]
MCRecipients == [m \in Msg |-> IF Author[m] = a THEN <<ann, bob>> ELSE <<bob, ann>>]

ConnSymmetry == Permutations(Conn)
ConnMsgSymmetry == Permutations(Conn) \cup Permutations(Msg)
=============================================================================
