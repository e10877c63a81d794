------------------------------- MODULE Beacon -------------------------------
(***************************************************************************)
(* How a client daemon finds the server and keeps trying it: the beacon    *)
(* (Beacon.Run on both sides), what the daemon makes of what it hears      *)
(* (serverAppeared, nudge) and the loop that keeps one session running     *)
(* (linkLoop). The server stops, crashes and is started again, perhaps at  *)
(* another address; announcements are lost, and arrive once per interface. *)
(*                                                                         *)
(* Time is counted in ticks. A packet arrives or is lost within the tick   *)
(* it was sent in, in order. How long linkLoop sleeps is left open, and so *)
(* is how long it takes to notice that a session is over.                  *)
(***************************************************************************)
EXTENDS Integers, Sequences

CONSTANTS
    Addr,        \* addresses the server may have
    None,        \* no address
    Interval,    \* BeaconInterval, in ticks
    Expiry,      \* BeaconExpiry, in ticks
    SweepEvery,  \* Expiry / 4, in ticks
    Copies,      \* interfaces an announcement may arrive on
    MaxLost,     \* bound: announcements lost in a row
    MaxStarts    \* bound: how many times the server is started

ASSUME BeaconAssumption ==
    /\ None \notin Addr /\ {Interval, Expiry, SweepEvery, Copies} \subseteq Nat \ {0}
    /\ MaxLost \in Nat /\ MaxStarts \in Nat
    /\ (MaxLost + 1) * Interval <= Expiry  \* "Three missed announcements"

VARIABLES
    up, addr,   \* is the server running, and where
    starts,     \* how many times it was started
    sinceSent,  \* ticks since it announced itself
    lost,       \* announcements lost in a row
    net,        \* packets that have arrived and are not yet handled
    known,      \* does Run's map `last` have the server?
    from,       \* the start of the server that was heard last
    age,        \* ticks since it was heard
    sinceSweep, \* ticks since Run looked for servers that went quiet
    told,       \* what the events said of the server last: "none", "appeared",
                \* "left", or "again" when it left and had not appeared
    heard,      \* Daemon.heard
    nudging,    \* has serverAppeared still to nudge?
    wake,       \* is there a token in Daemon.wake?
    link,       \* linkLoop: "choosing", "dialling", "connected" or "asleep"
    target,     \* the address it chose last
    peer        \* the start of the server it is connected to

server == <<up, addr, starts, sinceSent, lost>>
listener == <<known, from, age, sinceSweep, told>>
found == <<heard, nudging>>
loop == <<link, target, peer>>
vars == <<server, net, listener, found, wake, loop>>

Init ==
    /\ up = FALSE /\ addr = None /\ starts = 0 /\ sinceSent = 0 /\ lost = 0 /\ net = <<>>
    /\ known = FALSE /\ from = 0 /\ age = 0 /\ sinceSweep = 0 /\ told = "none"
    /\ heard = None /\ nudging = FALSE /\ wake = FALSE
    /\ link = "choosing" /\ target = None /\ peer = 0

----------------------------------------------------------------------------
(* The server.                                                             *)

Packet(bye) == [bye |-> bye, addr |-> addr, start |-> starts]

(* One packet on every interface; the network loses some, or all of them.  *)
Sends(k, p) == net' = net \o [i \in 1 .. k |-> p]

Start(a) ==
    /\ ~up /\ starts < MaxStarts
    /\ up' = TRUE /\ addr' = a /\ starts' = starts + 1 /\ sinceSent' = Interval /\ lost' = 0
    /\ UNCHANGED <<net, listener, found, wake, loop>>

(* At once when it starts, then with every tick of the ticker.             *)
Announce(k) ==
    /\ up /\ sinceSent = Interval /\ sinceSent' = 0
    /\ lost' = IF k = 0 THEN lost + 1 ELSE 0
    /\ lost' <= MaxLost
    /\ Sends(k, Packet(FALSE))
    /\ UNCHANGED <<up, addr, starts, listener, found, wake, loop>>

(* A goodbye, best effort.                                                 *)
Stop(k) ==
    /\ up /\ up' = FALSE /\ Sends(k, Packet(TRUE))
    /\ UNCHANGED <<addr, starts, sinceSent, lost, listener, found, wake, loop>>

Crash ==
    /\ up /\ up' = FALSE
    /\ UNCHANGED <<addr, starts, sinceSent, lost, net, listener, found, wake, loop>>

----------------------------------------------------------------------------
(* The client's side of Beacon.Run, and Daemon.serverAppeared.             *)

Leaves == told' = IF told = "appeared" THEN "left" ELSE "again"

(* Mutant of HearBye: whoever says goodbye has left.                       *)
HearAnyBye ==
    /\ net # <<>> /\ Head(net).bye /\ ~nudging
    /\ known' = FALSE /\ Leaves
    /\ net' = Tail(net)
    /\ UNCHANGED <<server, from, age, sinceSweep, found, wake, loop>>

HearBye ==
    /\ net # <<>> /\ Head(net).bye /\ ~nudging
    /\ known' = FALSE /\ IF known THEN Leaves ELSE UNCHANGED told
    /\ net' = Tail(net)
    /\ UNCHANGED <<server, from, age, sinceSweep, found, wake, loop>>

(* Mutant of Appeared: the first server that was heard is the server.      *)
AppearedFirst(a) == heard' = IF heard = None THEN a ELSE heard

Appeared(a) == heard' = a

(* The address is taken over under the lock, the nudge follows.            *)
Hear ==
    /\ net # <<>> /\ ~Head(net).bye /\ ~nudging
    /\ known' = TRUE /\ from' = Head(net).start /\ age' = 0 /\ told' = "appeared"
    /\ Appeared(Head(net).addr) /\ nudging' = (heard' # heard)
    /\ net' = Tail(net)
    /\ UNCHANGED <<server, sinceSweep, wake, loop>>

(* Mutant of Nudge: a nudge is for a loop that is asleep.                  *)
NudgeSleeper ==
    /\ nudging /\ nudging' = FALSE /\ wake' = (link = "asleep")
    /\ UNCHANGED <<server, net, listener, heard, loop>>

Nudge ==
    /\ nudging /\ nudging' = FALSE /\ wake' = TRUE
    /\ UNCHANGED <<server, net, listener, heard, loop>>

(* Mutant of Quiet: two announcements that are late are enough.            *)
QuietSoon == age > 2 * Interval

Quiet == age > Expiry

(* Mutant of Sweep: the server is forgotten and nobody is told.            *)
SweepSilently ==
    /\ sinceSweep = SweepEvery /\ ~nudging /\ sinceSweep' = 0
    /\ known' = (known /\ ~Quiet)
    /\ UNCHANGED <<server, net, from, age, told, found, wake, loop>>

Sweep ==
    /\ sinceSweep = SweepEvery /\ ~nudging /\ sinceSweep' = 0
    /\ known' = (known /\ ~Quiet)
    /\ IF known /\ Quiet THEN Leaves ELSE UNCHANGED told
    /\ UNCHANGED <<server, net, from, age, found, wake, loop>>

(* Nothing that is due waits for the next tick.                            *)
Tick ==
    /\ net = <<>> /\ ~nudging /\ sinceSweep < SweepEvery /\ (up => sinceSent < Interval)
    /\ sinceSent' = IF up THEN sinceSent + 1 ELSE sinceSent
    /\ sinceSweep' = sinceSweep + 1
    /\ age' = IF known /\ age <= Expiry THEN age + 1 ELSE age
    /\ UNCHANGED <<up, addr, starts, lost, net, known, from, told, found, wake, loop>>

----------------------------------------------------------------------------
(* Daemon.linkLoop.                                                        *)

Choose ==
    /\ link = "choosing" /\ target' = heard
    /\ link' = IF heard = None THEN "asleep" ELSE "dialling"
    /\ UNCHANGED <<server, net, listener, found, wake, peer>>

Enrolled ==
    /\ link = "dialling" /\ up /\ addr = target /\ link' = "connected" /\ peer' = starts
    /\ UNCHANGED <<server, net, listener, found, wake, target>>

DialFails ==
    /\ link = "dialling" /\ ~(up /\ addr = target) /\ link' = "asleep"
    /\ UNCHANGED <<server, net, listener, found, wake, target, peer>>

SessionEnds ==
    /\ link = "connected" /\ ~(up /\ starts = peer) /\ link' = "asleep"
    /\ UNCHANGED <<server, net, listener, found, wake, target, peer>>

Woken ==
    /\ link = "asleep" /\ wake /\ wake' = FALSE /\ link' = "choosing"
    /\ UNCHANGED <<server, net, listener, found, target, peer>>

SleptEnough ==
    /\ link = "asleep" /\ link' = "choosing"
    /\ UNCHANGED <<server, net, listener, found, wake, target, peer>>

----------------------------------------------------------------------------
Linking == Choose \/ Enrolled \/ DialFails \/ SessionEnds \/ Woken \/ SleptEnough
Listening == HearBye \/ Hear \/ Nudge \/ Sweep
Announcing == \E k \in 0 .. Copies : Announce(k)

Next ==
    \/ \E a \in Addr : Start(a)
    \/ Announcing \/ Listening \/ Linking \/ Tick
    \/ \E k \in 0 .. Copies : Stop(k)
    \/ Crash

Spec == Init /\ [][Next]_vars

(* Time goes on and every goroutine with it. Nobody has to start the       *)
(* server, and it may stop or crash at any time.                           *)
FairSpec ==
    Spec /\ WF_vars(Announcing) /\ WF_vars(Listening) /\ WF_vars(Linking) /\ WF_vars(Tick)

----------------------------------------------------------------------------
(* Properties.                                                             *)

(* The type invariant. No sweep and no announcement is overdue.            *)
TypeOK ==
    /\ up \in BOOLEAN /\ addr \in Addr \cup {None} /\ starts \in 0 .. MaxStarts
    /\ sinceSent \in 0 .. Interval /\ lost \in 0 .. MaxLost
    /\ net \in Seq([bye : BOOLEAN, addr : Addr, start : 1 .. MaxStarts])
    /\ known \in BOOLEAN /\ from \in 0 .. MaxStarts /\ age \in 0 .. Expiry + 1
    /\ sinceSweep \in 0 .. SweepEvery /\ told \in {"none", "appeared", "left", "again"}
    /\ heard \in Addr \cup {None} /\ nudging \in BOOLEAN /\ wake \in BOOLEAN
    /\ link \in {"choosing", "dialling", "connected", "asleep"}
    /\ target \in Addr \cup {None} /\ peer \in 0 .. MaxStarts
    /\ known <=> told = "appeared"

(* "a server that has just come up is reached in the moment it announces   *)
(* rather than at the end of a long sleep" (linkLoop): it does not sleep   *)
(* over an address it has not tried, whenever that address was heard.      *)
NoNudgeIsLost == link = "asleep" /\ target # heard => wake \/ nudging

(* "A server that stops announcing, or that says goodbye, is delivered to  *)
(* DiscoveryEvents.Left exactly once, until it appears again."             *)
LeftOnce == told # "again"

(* "Three missed announcements: one lost packet ... must not make the      *)
(* server blink out": a server that was heard since it was started, and    *)
(* runs, does not leave.                                                   *)
StaysFound == [][told' = "left" /\ told # "left" => ~(up /\ from = starts)]_vars

(* A server that stays up is connected to in the end and for good, at      *)
(* whichever address it is now.                                            *)
Reached == <>[]up => <>[](link = "connected" /\ peer = starts)

(* A server that stays away is reported to have left, if it was reported   *)
(* to have appeared.                                                       *)
Missed == <>[]~up => <>[](told # "appeared")
=============================================================================
