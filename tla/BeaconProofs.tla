---------------------------- MODULE BeaconProofs ----------------------------
(***************************************************************************)
(* Of Beacon: types, that no nudge is lost, that a server leaves once, and *)
(* that a server that runs and was heard does not leave, for any interval, *)
(* any number of announcements lost within an expiry, and any number of    *)
(* starts at any addresses.                                                *)
(***************************************************************************)
EXTENDS Beacon, TLAPS

Packets == [bye : BOOLEAN, addr : Addr, start : 1 .. MaxStarts]

(* A server that runs is somewhere.                                        *)
RunsSomewhere == up => addr \in Addr /\ starts >= 1

(* From the moment an address is chosen until the next is, a change of the *)
(* address that was heard leaves its token, or is about to.                *)
TokenWaits == link # "choosing" /\ target # heard => wake \/ nudging

(* What has arrived was sent in this order, after what was heard last; a   *)
(* goodbye of the present start means that the server has stopped.         *)
InOrder ==
    /\ \A i \in 1 .. Len(net) :
           /\ from <= net[i].start /\ net[i].start <= starts
           /\ net[i].bye /\ net[i].start = starts => ~up
    /\ \A i, j \in 1 .. Len(net) : i <= j => net[i].start <= net[j].start
    /\ from <= starts

(* The server that runs was heard no longer ago than it is since the last  *)
(* announcement that was not lost, or the next one is here already.        *)
HeardLately ==
    up /\ known /\ from = starts =>
        \/ age <= lost * Interval + sinceSent
        \/ net # <<>> /\ age <= Expiry

IInv == TypeOK /\ RunsSomewhere /\ TokenWaits /\ LeftOnce /\ InOrder /\ HeardLately

----------------------------------------------------------------------------
(* The constants, one by one.                                              *)
LEMMA Bounds ==
  /\ Interval \in Nat /\ Interval >= 1 /\ Expiry \in Nat /\ SweepEvery \in Nat /\ SweepEvery >= 1
  /\ Copies \in Nat /\ MaxLost \in Nat /\ MaxStarts \in Nat
  /\ None \notin Addr /\ (MaxLost + 1) * Interval <= Expiry
  BY BeaconAssumption

(* Within an interval of the announcement after those that were lost, the  *)
(* expiry has not passed.                                                  *)
LEMMA NotYetExpired ==
  ASSUME NEW l \in 0 .. MaxLost, NEW s \in 0 .. Interval
  PROVE  l * Interval + s \in Nat /\ l * Interval + s <= Expiry
         /\ (l + 1) * Interval = l * Interval + Interval
  <1>1. l * Interval <= MaxLost * Interval
      BY Bounds, Z3
  <1>2. (MaxLost + 1) * Interval = MaxLost * Interval + Interval
      BY Bounds
  <1>3. (l + 1) * Interval = l * Interval + Interval
      BY Bounds
  <1>4. l * Interval \in Nat /\ MaxLost * Interval \in Nat
      BY Bounds
  <1> QED
      BY <1>1, <1>2, <1>3, <1>4, Bounds

(* An announcement or a goodbye stands behind all that has arrived.        *)
LEMMA SendsBehind ==
  ASSUME NEW S, net \in Seq(S), NEW p \in S, NEW k \in Nat, Sends(k, p)
  PROVE  /\ net' \in Seq(S) /\ Len(net') = Len(net) + k
         /\ \A i \in 1 .. Len(net') : net'[i] = IF i <= Len(net) THEN net[i] ELSE p
  BY DEF Sends

(* The rest of the queue, when its head is taken.                          *)
LEMMA RestOf ==
  ASSUME NEW S, net \in Seq(S), net # <<>>, net' = Tail(net)
  PROVE  /\ Head(net) \in S /\ Head(net) = net[1] /\ Len(net) >= 1
         /\ net' \in Seq(S) /\ Len(net') = Len(net) - 1
         /\ \A i \in 1 .. Len(net') : net'[i] = net[i + 1]
  OBVIOUS

(* What a running server sends is a packet.                                *)
LEMMA PacketTyped ==
  ASSUME TypeOK, RunsSomewhere, up, NEW b \in BOOLEAN
  PROVE  /\ Packet(b) \in Packets
         /\ Packet(b).bye = b /\ Packet(b).start = starts
  BY Bounds DEF TypeOK, RunsSomewhere, Packet, Packets

----------------------------------------------------------------------------
LEMMA InitIInv == Init => IInv
  <1> SUFFICES ASSUME Init PROVE IInv
      OBVIOUS
  <1>1. TypeOK
      <2>1. /\ starts \in 0 .. MaxStarts /\ sinceSent \in 0 .. Interval /\ lost \in 0 .. MaxLost
            /\ from \in 0 .. MaxStarts /\ age \in 0 .. Expiry + 1 /\ sinceSweep \in 0 .. SweepEvery
            /\ peer \in 0 .. MaxStarts
          BY Bounds DEF Init
      <2>2. net \in Seq([bye : BOOLEAN, addr : Addr, start : 1 .. MaxStarts])
          BY DEF Init
      <2> QED
          BY <2>1, <2>2 DEF Init, TypeOK
  <1>2. InOrder
      BY DEF Init, InOrder
  <1> QED
      BY <1>1, <1>2 DEF Init, IInv, RunsSomewhere, TokenWaits, LeftOnce, HeardLately

(* Every step keeps the types: what arrives was sent by a running server,   *)
(* which is somewhere, and a server that is known has not left again.      *)
LEMMA TypeStep ==
  ASSUME TypeOK, RunsSomewhere, LeftOnce, [Next]_vars
  PROVE  TypeOK'
  <1> USE Bounds DEF TypeOK, server, listener, found, loop, vars
  <1>1. ASSUME NEW a \in Addr, Start(a) PROVE TypeOK'
      BY <1>1 DEF Start
  <1>2. ASSUME NEW k \in 0 .. Copies, Announce(k) PROVE TypeOK'
      <2>0. k \in Nat
          OBVIOUS
      <2>1. Sends(k, Packet(FALSE)) /\ up
          BY <1>2, Zenon DEF Announce
      <2>2. net' \in Seq(Packets)
          BY <2>0, <2>1, PacketTyped, SendsBehind DEF Packets
      <2> QED
          BY <1>2, <2>2 DEF Announce, Packets
  <1>3. ASSUME NEW k \in 0 .. Copies, Stop(k) PROVE TypeOK'
      <2>0. k \in Nat
          OBVIOUS
      <2>1. Sends(k, Packet(TRUE)) /\ up
          BY <1>3, Zenon DEF Stop
      <2>2. net' \in Seq(Packets)
          BY <2>0, <2>1, PacketTyped, SendsBehind DEF Packets
      <2> QED
          BY <1>3, <2>2 DEF Stop, Packets
  <1>4. CASE Crash
      BY <1>4 DEF Crash
  <1>5. CASE HearBye
      <2>1. net' \in Seq(Packets) /\ Head(net) \in Packets
          BY <1>5, RestOf DEF HearBye, Packets
      <2> QED
          BY <1>5, <2>1 DEF HearBye, Leaves, Packets
  <1>6. CASE Hear
      <2>1. net' \in Seq(Packets) /\ Head(net) \in Packets
          BY <1>6, RestOf DEF Hear, Packets
      <2> QED
          BY <1>6, <2>1 DEF Hear, Appeared, Packets
  <1>7. CASE Nudge
      BY <1>7 DEF Nudge
  <1>8. CASE Sweep
      BY <1>8 DEF Sweep, Quiet, Leaves
  <1>9. CASE Tick
      BY <1>9 DEF Tick
  <1>10. CASE Choose
      BY <1>10 DEF Choose
  <1>11. CASE Enrolled
      BY <1>11 DEF Enrolled
  <1>12. CASE DialFails
      BY <1>12 DEF DialFails
  <1>13. CASE SessionEnds
      BY <1>13 DEF SessionEnds
  <1>14. CASE Woken
      BY <1>14 DEF Woken
  <1>15. CASE SleptEnough
      BY <1>15 DEF SleptEnough
  <1>16. CASE UNCHANGED vars
      BY <1>16
  <1> QED
      BY <1>1, <1>2, <1>3, <1>4, <1>5, <1>6, <1>7, <1>8, <1>9, <1>10, <1>11, <1>12, <1>13, <1>14, <1>15, <1>16
      DEF Next, Linking, Listening, Announcing

(* The one step that takes over an address is about to nudge, and the step *)
(* that takes the token leads to the choice of an address.                 *)
LEMMA SmallStep ==
  ASSUME TypeOK, RunsSomewhere, TokenWaits, LeftOnce, [Next]_vars
  PROVE  (RunsSomewhere /\ TokenWaits /\ LeftOnce)'
  <1> USE Bounds DEF TypeOK, RunsSomewhere, TokenWaits, LeftOnce, server, listener, found, loop, vars
  <1>1. ASSUME NEW a \in Addr, Start(a) PROVE (RunsSomewhere /\ TokenWaits /\ LeftOnce)'
      BY <1>1 DEF Start
  <1>2. ASSUME NEW k \in 0 .. Copies, Announce(k) PROVE (RunsSomewhere /\ TokenWaits /\ LeftOnce)'
      BY <1>2 DEF Announce
  <1>3. ASSUME NEW k \in 0 .. Copies, Stop(k) PROVE (RunsSomewhere /\ TokenWaits /\ LeftOnce)'
      BY <1>3 DEF Stop
  <1>4. CASE Crash
      BY <1>4 DEF Crash
  <1>5. CASE HearBye
      BY <1>5 DEF HearBye, Leaves
  <1>6. CASE Hear
      BY <1>6 DEF Hear, Appeared
  <1>7. CASE Nudge
      BY <1>7 DEF Nudge
  <1>8. CASE Sweep
      BY <1>8 DEF Sweep, Quiet, Leaves
  <1>9. CASE Tick
      BY <1>9 DEF Tick
  <1>10. CASE Choose
      BY <1>10 DEF Choose
  <1>11. CASE Enrolled
      BY <1>11 DEF Enrolled
  <1>12. CASE DialFails
      BY <1>12 DEF DialFails
  <1>13. CASE SessionEnds
      BY <1>13 DEF SessionEnds
  <1>14. CASE Woken
      BY <1>14 DEF Woken
  <1>15. CASE SleptEnough
      BY <1>15 DEF SleptEnough
  <1>16. CASE UNCHANGED vars
      BY <1>16
  <1> QED
      BY <1>1, <1>2, <1>3, <1>4, <1>5, <1>6, <1>7, <1>8, <1>9, <1>10, <1>11, <1>12, <1>13, <1>14, <1>15, <1>16
      DEF Next, Linking, Listening, Announcing

(* The order of what arrives: a packet goes behind the others, and bears   *)
(* the last start there was.                                               *)
LEMMA OrderStep ==
  ASSUME TypeOK, RunsSomewhere, InOrder, [Next]_vars
  PROVE  InOrder'
  <1> USE Bounds
  <1>0. /\ starts \in Nat /\ from \in Nat /\ net \in Seq(Packets)
        /\ \A i \in 1 .. Len(net) : net[i].start \in Nat /\ net[i].bye \in BOOLEAN
      <2>1. starts \in Nat /\ from \in Nat /\ net \in Seq(Packets)
          BY DEF TypeOK, Packets
      <2>2. \A i \in 1 .. Len(net) : net[i] \in Packets
          BY <2>1
      <2>3. \A p \in Packets : p.start \in Nat /\ p.bye \in BOOLEAN
          BY DEF Packets
      <2> QED
          BY <2>1, <2>2, <2>3
  <1>a. ASSUME NEW k \in Nat, NEW b \in BOOLEAN, Sends(k, Packet(b)), up, b => ~up', b \/ up',
               starts' = starts, from' = from
        PROVE  InOrder'
      <2>1. Packet(b) \in Packets /\ Packet(b).bye = b /\ Packet(b).start = starts
          BY <1>a, PacketTyped
      <2>2. /\ Len(net') = Len(net) + k
            /\ \A i \in 1 .. Len(net') : net'[i] = IF i <= Len(net) THEN net[i] ELSE Packet(b)
          BY <1>0, <1>a, <2>1, SendsBehind
      <2>3. \A i \in 1 .. Len(net') :
               /\ from <= net'[i].start /\ net'[i].start <= starts
               /\ net'[i].bye /\ net'[i].start = starts => ~up'
          BY <1>0, <1>a, <2>1, <2>2 DEF InOrder
      <2>4. \A i, j \in 1 .. Len(net') : i <= j => net'[i].start <= net'[j].start
          BY <1>0, <2>1, <2>2 DEF InOrder
      <2> QED
          BY <1>a, <2>3, <2>4 DEF InOrder
  <1>b. ASSUME net # <<>>, net' = Tail(net), starts' = starts, up' = up,
               from' = from \/ from' = Head(net).start
        PROVE  InOrder'
      <2>1. /\ Head(net) = net[1] /\ Len(net) >= 1 /\ Len(net') = Len(net) - 1
            /\ \A i \in 1 .. Len(net') : net'[i] = net[i + 1]
          BY <1>0, <1>b, RestOf
      <2>2. 1 \in 1 .. Len(net) /\ \A i \in 1 .. Len(net') : i + 1 \in 1 .. Len(net)
          BY <1>0, <2>1
      <2>3. from' <= starts /\ \A i \in 1 .. Len(net') : from' <= net'[i].start
          BY <1>0, <1>b, <2>1, <2>2 DEF InOrder
      <2>4. \A i \in 1 .. Len(net') :
               net'[i].start <= starts /\ (net'[i].bye /\ net'[i].start = starts => ~up)
          BY <2>1, <2>2 DEF InOrder
      <2>5. \A i, j \in 1 .. Len(net') : i <= j => net'[i].start <= net'[j].start
          BY <2>1, <2>2 DEF InOrder
      <2> QED
          BY <1>b, <2>3, <2>4, <2>5 DEF InOrder
  <1>c. ASSUME UNCHANGED <<net, starts, from>>, up' = up \/ ~up'
        PROVE  InOrder'
      BY <1>c DEF InOrder
  <1>1. ASSUME NEW a \in Addr, Start(a) PROVE InOrder'
      BY <1>0, <1>1 DEF Start, InOrder, listener
  <1>2. ASSUME NEW k \in 0 .. Copies, Announce(k) PROVE InOrder'
      <2>0. k \in Nat
          OBVIOUS
      <2>1. Sends(k, Packet(FALSE)) /\ up /\ UNCHANGED <<up, starts, from>>
          BY <1>2, Zenon DEF Announce, listener
      <2> QED
          BY <1>a, <2>0, <2>1
  <1>3. ASSUME NEW k \in 0 .. Copies, Stop(k) PROVE InOrder'
      <2>0. k \in Nat
          OBVIOUS
      <2>1. Sends(k, Packet(TRUE)) /\ up /\ ~up' /\ UNCHANGED <<starts, from>>
          BY <1>3, Zenon DEF Stop, listener
      <2> QED
          BY <1>a, <2>0, <2>1
  <1>4. CASE Crash
      BY <1>c, <1>4 DEF Crash, listener
  <1>5. CASE HearBye
      BY <1>b, <1>5 DEF HearBye, server
  <1>6. CASE Hear
      BY <1>b, <1>6 DEF Hear, server
  <1>7. CASE Nudge
      BY <1>c, <1>7 DEF Nudge, server, listener
  <1>8. CASE Sweep
      BY <1>c, <1>8 DEF Sweep, server
  <1>9. CASE Tick
      BY <1>c, <1>9 DEF Tick
  <1>10. CASE Linking
      BY <1>c, <1>10
      DEF Linking, Choose, Enrolled, DialFails, SessionEnds, Woken, SleptEnough, server, listener
  <1>11. CASE UNCHANGED vars
      BY <1>c, <1>11 DEF vars, server, listener
  <1> QED
      BY <1>1, <1>2, <1>3, <1>4, <1>5, <1>6, <1>7, <1>8, <1>9, <1>10, <1>11
      DEF Next, Listening, Announcing

(* The age of the server: an announcement that is lost accounts for an     *)
(* interval, and one that is not is heard before the next tick.            *)
LEMMA HeardStep ==
  ASSUME TypeOK, RunsSomewhere, InOrder, HeardLately, [Next]_vars
  PROVE  HeardLately'
  <1> USE Bounds
  <1>0. /\ starts \in Nat /\ from \in Nat /\ from <= starts /\ age \in Nat /\ Expiry \in Nat
        /\ lost \in 0 .. MaxLost /\ sinceSent \in 0 .. Interval
        /\ net \in Seq(Packets)
      BY DEF TypeOK, InOrder, Packets
  <1>1. /\ lost * Interval + sinceSent \in Nat /\ lost * Interval + sinceSent <= Expiry
        /\ (lost + 1) * Interval = lost * Interval + Interval /\ lost * Interval \in Nat
      <2>1. lost * Interval + 0 \in Nat
          BY <1>0, NotYetExpired
      <2> QED
          BY <1>0, <2>1, NotYetExpired
  <1>2. up /\ known /\ from = starts => age <= Expiry
      BY <1>0, <1>1 DEF HeardLately
  <1>c. ASSUME UNCHANGED <<starts, sinceSent, lost, net, from, age>>,
               up' = up \/ ~up', known' = known \/ ~known'
        PROVE  HeardLately'
      BY <1>c DEF HeardLately
  <1>3. ASSUME NEW a \in Addr, Start(a) PROVE HeardLately'
      BY <1>0, <1>3 DEF Start, HeardLately, listener
  <1>4. ASSUME NEW k \in 0 .. Copies, Announce(k) PROVE HeardLately'
      <2>0. k \in Nat
          OBVIOUS
      <2>1. /\ Sends(k, Packet(FALSE)) /\ UNCHANGED <<up, starts, known, from, age>>
            /\ sinceSent = Interval /\ sinceSent' = 0 /\ lost' = IF k = 0 THEN lost + 1 ELSE 0
          BY <1>4, Zenon DEF Announce, listener
      <2>2. CASE k = 0
          <3>1. lost' * Interval + sinceSent' = lost * Interval + sinceSent
              BY <1>0, <1>1, <2>1, <2>2
          <3>2. net' = net
              BY <1>0, <2>1, <2>2 DEF Sends
          <3> QED
              BY <2>1, <3>1, <3>2 DEF HeardLately
      <2>3. CASE k # 0
          <3>0. up
              BY <1>4, Zenon DEF Announce
          <3>1. Len(net') = Len(net) + k
              BY <1>0, <2>0, <2>1, <3>0, PacketTyped, SendsBehind
          <3> QED
              BY <1>0, <1>2, <2>0, <2>1, <2>3, <3>1 DEF HeardLately
      <2> QED
          BY <2>2, <2>3
  <1>5. ASSUME NEW k \in 0 .. Copies, Stop(k) PROVE HeardLately'
      <2>1. ~up'
          BY <1>5, Zenon DEF Stop
      <2> QED
          BY <2>1 DEF HeardLately
  <1>6. CASE Crash
      BY <1>6 DEF Crash, HeardLately
  <1>7. CASE HearBye
      BY <1>7 DEF HearBye, HeardLately
  <1>8. CASE Hear
      <2>1. age' = 0 /\ UNCHANGED <<lost, sinceSent>>
          BY <1>8 DEF Hear, server
      <2> QED
          BY <1>1, <2>1 DEF HeardLately
  <1>9. CASE Nudge
      BY <1>c, <1>9 DEF Nudge, server, listener
  <1>10. CASE Sweep
      BY <1>c, <1>10 DEF Sweep, server, TypeOK
  <1>11. CASE Tick
      <2>1. /\ net = <<>> /\ UNCHANGED <<up, starts, lost, known, from>>
            /\ sinceSent' = IF up THEN sinceSent + 1 ELSE sinceSent
            /\ age' = IF known /\ age <= Expiry THEN age + 1 ELSE age
          BY <1>11 DEF Tick
      <2> SUFFICES ASSUME up', known', from' = starts'
                   PROVE  age' <= lost' * Interval + sinceSent'
          BY DEF HeardLately
      <2>2. age <= lost * Interval + sinceSent
          BY <2>1 DEF HeardLately
      <2>3. lost' * Interval + sinceSent' = lost * Interval + sinceSent + 1
          BY <1>0, <1>1, <2>1
      <2> QED
          BY <1>0, <1>1, <2>1, <2>2, <2>3
  <1>12. CASE Linking
      BY <1>c, <1>12
      DEF Linking, Choose, Enrolled, DialFails, SessionEnds, Woken, SleptEnough, server, listener
  <1>13. CASE UNCHANGED vars
      BY <1>c, <1>13 DEF vars, server, listener
  <1> QED
      BY <1>3, <1>4, <1>5, <1>6, <1>7, <1>8, <1>9, <1>10, <1>11, <1>12, <1>13
      DEF Next, Listening, Announcing

----------------------------------------------------------------------------
LEMMA NextIInv == IInv /\ [Next]_vars => IInv'
  BY TypeStep, SmallStep, OrderStep, HeardStep DEF IInv

LEMMA Invariance == Spec => []IInv
  BY InitIInv, NextIInv, PTL DEF Spec

(* TypeOK holds in every state: in particular what the events told last    *)
(* and Run's map agree on whether the server is there.                     *)
THEOREM TypeCorrect == Spec => []TypeOK
  <1>1. IInv => TypeOK
      BY DEF IInv
  <1> QED
      BY <1>1, Invariance, PTL

(* linkLoop never sleeps over an address it has not tried, whenever        *)
(* serverAppeared took it over.                                            *)
THEOREM NudgesAreKept == Spec => []NoNudgeIsLost
  <1>1. IInv => NoNudgeIsLost
      BY DEF IInv, TokenWaits, NoNudgeIsLost
  <1> QED
      BY <1>1, Invariance, PTL

(* Beacon.Run reports a server to have left once, until it appears again.  *)
THEOREM LeavesOnce == Spec => []LeftOnce
  <1>1. IInv => LeftOnce
      BY DEF IInv
  <1> QED
      BY <1>1, Invariance, PTL

(* Beacon.Run never reports a server to have left that runs and was heard  *)
(* since it was started, as long as no more announcements in a row are     *)
(* lost than fit in an expiry.                                             *)
THEOREM RunningStays == Spec => StaysFound
  <1>1. ASSUME IInv, [Next]_vars, told' = "left", told # "left"
        PROVE  ~(up /\ from = starts)
      <2> SUFFICES ASSUME up, from = starts PROVE FALSE
          OBVIOUS
      <2> USE <1>1, Bounds DEF IInv
      <2>1. CASE HearBye
          <3>1. Head(net).bye /\ net # <<>>
              BY <2>1 DEF HearBye
          <3>2. Head(net) = net[1] /\ 1 \in 1 .. Len(net) /\ net[1].start \in Nat /\ starts \in Nat
              <4>1. net \in Seq(Packets) /\ starts \in Nat
                  BY DEF TypeOK, Packets
              <4>2. Head(net) = net[1] /\ 1 \in 1 .. Len(net) /\ net[1] \in Packets
                  BY <3>1, <4>1
              <4> QED
                  BY <4>1, <4>2 DEF Packets
          <3> QED
              BY <3>1, <3>2 DEF InOrder
      <2>2. CASE Sweep
          <3>1. known /\ age > Expiry
              BY <2>2 DEF Sweep, Quiet
          <3>2. lost * Interval + sinceSent \in Nat /\ lost * Interval + sinceSent <= Expiry
              BY NotYetExpired DEF TypeOK
          <3>3. age \in Nat
              BY DEF TypeOK
          <3> QED
              BY <3>1, <3>2, <3>3 DEF HeardLately
      <2>3. CASE Hear
          BY <2>3 DEF Hear
      <2>4. ASSUME NEW k \in 0 .. Copies, Announce(k) \/ Stop(k) PROVE FALSE
          <3>1. told' = told
              BY <2>4, Zenon DEF Announce, Stop, listener
          <3> QED
              BY <3>1
      <2>5. CASE UNCHANGED told
          BY <2>5
      <2> QED
          BY <2>1, <2>2, <2>3, <2>4, <2>5
          DEF Next, Announcing, Listening, Linking, Start, Crash, Nudge, Tick, Choose, Enrolled,
              DialFails, SessionEnds, Woken, SleptEnough, listener, vars
  <1>2. IInv /\ [Next]_vars => [told' = "left" /\ told # "left" => ~(up /\ from = starts)]_vars
      BY <1>1
  <1> QED
      BY <1>2, Invariance, PTL DEF Spec, StaysFound
=============================================================================
