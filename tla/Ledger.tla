------------------------------- MODULE Ledger -------------------------------
(***************************************************************************)
(* What the server promises about order, and nothing about how: numbers    *)
(* are handed out one after the other, a message is filed under a number   *)
(* that was handed out for it and keeps it, and a client only ever learns  *)
(* of a filed message, under a number that was handed out for it.          *)
(*                                                                         *)
(* "The server's job is ordering" (chatserver/server.go). Relay implements *)
(* this specification.                                                     *)
(***************************************************************************)
EXTENDS Naturals, Sequences

CONSTANTS
    Reader, \* who may hold copies: client daemons
    Msg     \* message ids

VARIABLES
    minted, \* the message each number was handed out for
    filed,  \* the number a message is filed under, 0 if it is not
    copies  \* the number each reader's copy of a message bears, 0 if none

vars == <<minted, filed, copies>>

(* This number was handed out for that message. *)
Names(n, m) == n \in DOMAIN minted /\ minted[n] = m

Init ==
    /\ minted = <<>>
    /\ filed = [m \in Msg |-> 0]
    /\ copies = [r \in Reader |-> [m \in Msg |-> 0]]

(* The next number is handed out. *)
Mint(m) ==
    /\ minted' = Append(minted, m)
    /\ UNCHANGED <<filed, copies>>

(* A message is filed, for good. *)
File(m) ==
    /\ filed[m] = 0
    /\ \E n \in DOMAIN minted : Names(n, m) /\ filed' = [filed EXCEPT ![m] = n]
    /\ UNCHANGED <<minted, copies>>

(* A reader hears of a filed message, or hears another of its numbers. *)
Learn(r, m) ==
    /\ filed[m] # 0
    /\ \E n \in DOMAIN minted : Names(n, m) /\ copies' = [copies EXCEPT ![r][m] = n]
    /\ UNCHANGED <<minted, filed>>

Next ==
    \/ \E m \in Msg : Mint(m) \/ File(m)
    \/ \E r \in Reader, m \in Msg : Learn(r, m)

Spec == Init /\ [][Next]_vars
=============================================================================
