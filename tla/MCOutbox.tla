------------------------------ MODULE MCOutbox ------------------------------
(* Instances of Outbox for TLC.                                            *)
EXTENDS Outbox

CONSTANTS m1, m2, \* our messages
          o1      \* a message of somebody else

(* The clock of this machine is set back between the two.                  *)
MCSent == [m \in Msg |-> CASE m = m1 -> 2 [] m = m2 -> 1 [] OTHER -> 3]

(* Bound: what becomes of a journal after it has swallowed a line is left.  *)
MCNothingSwallowed == ~file.swallowed
=============================================================================
