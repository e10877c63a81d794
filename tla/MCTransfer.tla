----------------------------- MODULE MCTransfer -----------------------------
(* Instances of Transfer for TLC: ann, at daemon a, offers bob, at daemon   *)
(* b, a file or two.                                                       *)
EXTENDS Transfer, TLC

CONSTANTS a, b,      \* daemons
          ann, bob,  \* persons
          t1,        \* a transfer
          sa, sb     \* front ends

MCIdentity == [d \in Daemon |-> IF d = a THEN ann ELSE bob]
MCScreenOf == [s \in Screen |-> IF s = sa THEN a ELSE b]
MCSender == [t \in Transfer |-> a]
MCTarget == [t \in Transfer |-> bob]
MCBlocked == [d \in Daemon |-> {}]

(* What the theorems on saved files take.                                  *)
ASSUME OneEach == OneFrontEnd /\ OneDaemon

(* Two files, or a link that breaks.                                       *)
MCOneIfBroken == breaks > 0 => \E t \in Transfer : row[Sender[t]][t] = NoRow

MCSymmetry == Permutations(Conn) \cup Permutations(Transfer)
=============================================================================
