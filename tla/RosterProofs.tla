---------------------------- MODULE RosterProofs ----------------------------
(***************************************************************************)
(* Of Roster: types, and that nobody is shown without a session, for any   *)
(* daemons, persons, rooms, front ends and connections, whatever breaks.   *)
(***************************************************************************)
EXTENDS Roster, TLAPS

(* What somebody has looked at: entries of some persons.                   *)
Looks == UNION {[P -> Entry] : P \in SUBSET Person}
Frame == [t : {"welcome", "roster"}, peers : Looks]

Goroutine ==
    [at : Places, then : {"free", "roster", "read"}, owner : Daemon \cup {None},
     said : Entry, seen : Looks]

(* A goroutine that serves somebody knows whom.                            *)
HandlerOK ==
    /\ handler \in [Conn -> Goroutine]
    /\ \A c \in Conn : /\ handler[c].at = "free" => handler[c] = Idle
                       /\ handler[c].at # "free" => handler[c].owner \in Daemon

FramesOK == toClient \in [Conn -> Seq(Frame)] /\ toServer \in [Conn -> Seq(Call)]

StoreOK == entry \in [Person -> Entry] /\ conns \subseteq Conn

SessionOK ==
    /\ phase \in [Daemon -> {"down", "hello", "live", "dropped"}]
    /\ link \in [Daemon -> Conn \cup {None}]
    /\ view \in [Daemon -> [Person -> Entry]]

CallsOK ==
    /\ self \in [Daemon -> Entry]
    /\ screen \in [Screen -> Call \cup {NoCall} \cup [t : {"self"}, who : Entry]]

IInv ==
    /\ StoreOK /\ HandlerOK /\ FramesOK /\ SessionOK /\ CallsOK
    /\ open \in [Conn -> BOOLEAN] /\ events \in 0 .. MaxEvents
    /\ NoSessionNobodyShown

----------------------------------------------------------------------------
(* Changes of an entry.                                                    *)
LEMMA Entries ==
  /\ Stranger \in Entry
  /\ \A e \in Entry : e.presence \in Presence /\ e.rooms \subseteq Room
  /\ \A e \in Entry, p \in Presence : [e EXCEPT !.presence = p] \in Entry
  /\ \A e \in Entry, rs \in SUBSET Room : [e EXCEPT !.rooms = rs] \in Entry
  /\ \A e, f \in Entry : Merged(e, f) \in Entry
  BY DEF Stranger, Entry, Presence, Merged

(* Looks at nobody, and at some of the roster.                             *)
LEMMA LooksTyped ==
  /\ <<>> \in Looks
  /\ \A f \in Looks : /\ DOMAIN f \subseteq Person
                      /\ \A p \in DOMAIN f : f[p] \in Entry
  <1>1. <<>> \in [{} -> Entry]
      OBVIOUS
  <1>2. <<>> \in Looks
      BY <1>1 DEF Looks
  <1>3. ASSUME NEW f \in Looks
        PROVE  DOMAIN f \subseteq Person /\ \A p \in DOMAIN f : f[p] \in Entry
      <2>1. PICK P \in SUBSET Person : f \in [P -> Entry]
          BY DEF Looks
      <2> QED
          BY <2>1
  <1> QED
      BY <1>2, <1>3

(* What is shown of a person is an entry.                                  *)
LEMMA ShownTyped ==
  ASSUME StoreOK
  PROVE  /\ \A p \in Person : Shown(p) \in Entry
         /\ \A P \in SUBSET Person : [p \in P |-> Shown(p)] \in Looks
  <1>1. \A p \in Person : Shown(p) \in Entry
      BY Entries DEF StoreOK, Shown, Presence
  <1>2. ASSUME NEW P \in SUBSET Person PROVE [p \in P |-> Shown(p)] \in Looks
      <2>1. [p \in P |-> Shown(p)] \in [P -> Entry]
          BY <1>1
      <2> QED
          BY <2>1 DEF Looks
  <1> QED
      BY <1>1, <1>2

(* Who is at the other end of a connection that is served.                 *)
LEMMA PeerTyped ==
  ASSUME HandlerOK, NEW c \in Conn, handler[c].at # "free"
  PROVE  Peer(c) \in Person
  BY ConstantsAssumption DEF HandlerOK, Peer

(* A goroutine that is nowhere, and one that goes on.                      *)
LEMMA Goroutines ==
  /\ Idle \in Goroutine
  /\ \A g \in Goroutine : g.seen \in Looks /\ g.said \in Entry
  /\ \A g \in Goroutine, a \in Places : [g EXCEPT !.at = a] \in Goroutine
  BY LooksTyped, Entries DEF Idle, Goroutine, Places

(* What is queued for a client is a frame.                                 *)
LEMMA Queued ==
  ASSUME FramesOK, NEW c \in Conn, NEW f \in Frame
  PROVE  Queue(c, f) \in [Conn -> Seq(Frame)]
  BY DEF FramesOK, Queue

(* What a client has said.                                                 *)
LEMMA Taken ==
  ASSUME FramesOK, NEW c \in Conn, NEW type, Takes(c, type)
  PROVE  /\ toServer' \in [Conn -> Seq(Call)]
         /\ type = "presence" => Head(toServer[c]).presence \in Presence
         /\ type \in {"join", "leave"} => Head(toServer[c]).room \in Room
  <1>1. toServer[c] \in Seq(Call) /\ toServer[c] # <<>> /\ Head(toServer[c]).t = type
      BY DEF Takes, FramesOK
  <1>2. Head(toServer[c]) \in Call /\ Tail(toServer[c]) \in Seq(Call)
      BY <1>1
  <1> QED
      BY <1>1, <1>2 DEF Takes, FramesOK, Call

(* What has been sent to a client.                                         *)
LEMMA ReadFrame ==
  ASSUME FramesOK, SessionOK, NEW d \in Daemon, NEW type, Reads(d, type)
  PROVE  /\ toClient' \in [Conn -> Seq(Frame)] /\ link[d] \in Conn
         /\ Head(toClient[link[d]]).peers \in Looks
  <1>1. link[d] \in Conn
      BY DEF Reads, SessionOK
  <1>2. toClient[link[d]] \in Seq(Frame) /\ toClient[link[d]] # <<>>
      BY <1>1 DEF Reads, FramesOK
  <1>3. Head(toClient[link[d]]) \in Frame /\ Tail(toClient[link[d]]) \in Seq(Frame)
      BY <1>2
  <1> QED
      BY <1>1, <1>3 DEF Reads, FramesOK, Frame

----------------------------------------------------------------------------
LEMMA InitIInv == Init => IInv
  <1> SUFFICES ASSUME Init PROVE IInv
      OBVIOUS
  <1> USE ConstantsAssumption, Entries DEF Init
  <1>1. StoreOK
      BY DEF StoreOK
  <1>2. HandlerOK
      BY Goroutines DEF HandlerOK, Idle
  <1>3. FramesOK
      BY DEF FramesOK
  <1>4. SessionOK /\ NoSessionNobodyShown
      BY DEF SessionOK, NoSessionNobodyShown, Stranger
  <1>5. CallsOK
      BY DEF CallsOK, Entry, Presence
  <1>6. open \in [Conn -> BOOLEAN] /\ events \in 0 .. MaxEvents
      OBVIOUS
  <1> QED
      BY <1>1, <1>2, <1>3, <1>4, <1>5, <1>6 DEF IInv

(* The roster of the server: what a client says of itself, or offline.     *)
LEMMA StoreStep ==
  ASSUME StoreOK, HandlerOK, FramesOK, [Next]_vars
  PROVE  StoreOK'
  <1>a. ASSUME UNCHANGED <<entry, conns>> PROVE StoreOK'
      BY <1>a DEF StoreOK
  <1>b. ASSUME NEW c \in Conn, handler[c].at # "free" PROVE Recorded(c) \in [Person -> Entry]
      <2>1. handler[c].said \in Entry
          BY Goroutines DEF HandlerOK
      <2>2. "online" \in Presence
          BY DEF Presence
      <2> QED
          BY <2>1, <2>2, Entries DEF Recorded, StoreOK
  <1>1. ASSUME NEW c \in Conn, Enrol(c) PROVE StoreOK'
      BY <1>1, <1>b DEF Enrol, StoreOK
  <1>2. ASSUME NEW c \in Conn, EnrolFails(c) PROVE StoreOK'
      BY <1>2, <1>b DEF EnrolFails, StoreOK
  <1>3. ASSUME NEW c \in Conn, Register(c) \/ HangUp(c) PROVE StoreOK'
      BY <1>3 DEF Register, HangUp, StoreOK
  <1>4. ASSUME NEW c \in Conn,
               Look(c) \/ Tell(c) \/ ReadRoster(c) \/ SendRoster(c) \/ TakeRoom(c) \/ Leave(c)
        PROVE  StoreOK'
      BY <1>4, <1>a DEF Look, Tell, ReadRoster, SendRoster, TakeRoom, Leave
  <1>5. ASSUME NEW c \in Conn, TakePresence(c) PROVE StoreOK'
      <2>1. Head(toServer[c]).presence \in Presence
          BY <1>5, Taken DEF TakePresence
      <2> QED
          BY <1>5, <2>1, Entries DEF TakePresence, StoreOK
  <1>6. ASSUME NEW c \in Conn, SetRooms(c) PROVE StoreOK'
      <2>1. handler[c].said.rooms \in SUBSET Room
          BY Goroutines, Entries DEF HandlerOK
      <2> QED
          BY <1>6, <2>1, Entries DEF SetRooms, StoreOK
  <1>7. ASSUME NEW c \in Conn, MarkOffline(c) PROVE StoreOK'
      <2>1. "offline" \in Presence
          BY DEF Presence
      <2> QED
          BY <1>7, <2>1, Entries DEF MarkOffline, StoreOK
  <1>8. ASSUME NEW c \in Conn, Break(c) PROVE StoreOK'
      BY <1>8, <1>a DEF Break, server
  <1>9. ASSUME NEW d \in Daemon, Reading(d) PROVE StoreOK'
      BY <1>9, <1>a DEF Reading, ReadWelcome, OnRoster, Drop, MarkEveryoneOffline, server
  <1>10. ASSUME NEW d \in Daemon, NEW c \in Conn, Dial(d, c) PROVE StoreOK'
      BY <1>10, <1>a DEF Dial
  <1>11. ASSUME NEW s \in Screen, Calling(s) \/ SetSelf(s) \/ Write(s) PROVE StoreOK'
      BY <1>11, <1>a
      DEF Calling, SetPresence, JoinRoom, LeaveRoom, Starts, SetSelf, Write, server
  <1>12. CASE UNCHANGED vars
      BY <1>12, <1>a DEF vars, server
  <1> QED
      BY <1>1, <1>2, <1>3, <1>4, <1>5, <1>6, <1>7, <1>8, <1>9, <1>10, <1>11, <1>12
      DEF Next, Serving

(* The goroutines: one that serves a connection keeps its owner until it   *)
(* has let go of it.                                                       *)
LEMMA HandlerStep ==
  ASSUME StoreOK, HandlerOK, FramesOK, SessionOK, CallsOK, [Next]_vars
  PROVE  HandlerOK'
  <1>a. ASSUME UNCHANGED handler PROVE HandlerOK'
      BY <1>a DEF HandlerOK
  <1>b. ASSUME NEW c \in Conn, handler' = [handler EXCEPT ![c] = Idle] PROVE HandlerOK'
      BY <1>b, Goroutines DEF HandlerOK, Idle
  <1>c. ASSUME NEW c \in Conn, NEW g \in Goroutine, handler' = [handler EXCEPT ![c] = g],
               g.at # "free", g.owner = handler[c].owner, handler[c].at # "free"
        PROVE  HandlerOK'
      BY <1>c DEF HandlerOK
  <1>d. \A c \in Conn : handler[c] \in Goroutine
      BY DEF HandlerOK
  <1>1. ASSUME NEW c \in Conn, Enrol(c) \/ HangUp(c) PROVE HandlerOK'
      <2> DEFINE g(a) == [handler[c] EXCEPT !.at = a]
      <2>1. \E a \in {"register", "leave"} : handler' = [handler EXCEPT ![c] = g(a)]
          BY <1>1 DEF Enrol, HangUp, At
      <2>2. \A a \in {"register", "leave"} :
               g(a) \in Goroutine /\ g(a).at # "free" /\ g(a).owner = handler[c].owner
          BY <1>d DEF Goroutine, Places
      <2>3. handler[c].at # "free"
          BY <1>1 DEF Enrol, HangUp
      <2> QED
          BY <1>c, <2>1, <2>2, <2>3
  <1>2. ASSUME NEW c \in Conn, EnrolFails(c) PROVE HandlerOK'
      BY <1>2, <1>b DEF EnrolFails
  <1>3. ASSUME NEW c \in Conn, Register(c) PROVE HandlerOK'
      <2> DEFINE g == [handler[c] EXCEPT !.at = "look", !.then = "roster"]
      <2>1. handler' = [handler EXCEPT ![c] = g] /\ handler[c].at # "free"
          BY <1>3, <1>d DEF Register, Goroutine
      <2>2. g \in Goroutine /\ g.at # "free" /\ g.owner = handler[c].owner
          BY <1>d DEF Goroutine, Places
      <2> QED
          BY <1>c, <2>1, <2>2
  <1>4. ASSUME NEW c \in Conn, Look(c) PROVE HandlerOK'
      <2> DEFINE f == [p \in {Peer(c)} |-> Shown(p)]
      <2> DEFINE g == [handler[c] EXCEPT !.at = "tell", !.seen = f]
      <2>1. handler' = [handler EXCEPT ![c] = g] /\ handler[c].at # "free"
          BY <1>4, <1>d DEF Look, Goroutine
      <2>2. f \in Looks
          BY <2>1, PeerTyped, ShownTyped
      <2>3. g \in Goroutine /\ g.at # "free" /\ g.owner = handler[c].owner
          <3> HIDE DEF f
          <3> QED
              BY <1>d, <2>2 DEF Goroutine, Places
      <2> QED
          BY <1>c, <2>1, <2>3
  <1>5. ASSUME NEW c \in Conn, Tell(c) PROVE HandlerOK'
      <2> DEFINE g == [handler[c] EXCEPT !.at = handler[c].then, !.seen = <<>>]
      <2>1. handler[c].at # "free"
            /\ handler' = [handler EXCEPT ![c] = IF @.then = "free" THEN Idle ELSE g]
          BY <1>5, <1>d DEF Tell, Goroutine
      <2>2. handler[c].then # "free" => g \in Goroutine /\ g.at # "free" /\ g.owner = handler[c].owner
          BY <1>d, LooksTyped DEF Goroutine, Places
      <2>3. CASE handler[c].then = "free"
          BY <1>b, <2>1, <2>3
      <2>4. CASE handler[c].then # "free"
          <3>1. handler' = [handler EXCEPT ![c] = g]
              BY <2>1, <2>4
          <3> QED
              BY <1>c, <2>1, <2>2, <2>4, <3>1
      <2> QED
          BY <2>3, <2>4
  <1>6. ASSUME NEW c \in Conn, ReadRoster(c) PROVE HandlerOK'
      <2> DEFINE f == [p \in Person |-> Shown(p)]
      <2> DEFINE g == [handler[c] EXCEPT !.at = "send", !.seen = f]
      <2>1. handler' = [handler EXCEPT ![c] = g] /\ handler[c].at # "free"
          BY <1>6, <1>d DEF ReadRoster, Goroutine
      <2>2. f \in Looks
          BY ShownTyped
      <2>3. g \in Goroutine /\ g.at # "free" /\ g.owner = handler[c].owner
          <3> HIDE DEF f
          <3> QED
              BY <1>d, <2>2 DEF Goroutine, Places
      <2> QED
          BY <1>c, <2>1, <2>3
  <1>7. ASSUME NEW c \in Conn, SendRoster(c) PROVE HandlerOK'
      <2> DEFINE g == [handler[c] EXCEPT !.at = "read", !.seen = <<>>, !.said = Stranger]
      <2>1. handler' = [handler EXCEPT ![c] = g] /\ handler[c].at # "free"
          BY <1>7, <1>d DEF SendRoster, Goroutine
      <2>2. g \in Goroutine /\ g.at # "free" /\ g.owner = handler[c].owner
          BY <1>d, LooksTyped, Entries DEF Goroutine, Places
      <2> QED
          BY <1>c, <2>1, <2>2
  <1>8. ASSUME NEW c \in Conn, TakePresence(c) PROVE HandlerOK'
      <2> DEFINE g == [handler[c] EXCEPT !.at = "look", !.then = "read"]
      <2>1. handler' = handler \/ handler' = [handler EXCEPT ![c] = g]
          BY <1>8, <1>d DEF TakePresence, Goroutine
      <2>2. g \in Goroutine /\ g.at # "free" /\ g.owner = handler[c].owner /\ handler[c].at # "free"
          BY <1>8, <1>d DEF TakePresence, Takes, Goroutine, Places
      <2> QED
          BY <1>a, <1>c, <2>1, <2>2
  <1>9. ASSUME NEW c \in Conn, TakeRoom(c) PROVE HandlerOK'
      <2> DEFINE g(rs) == [handler[c] EXCEPT !.at = "rooms", !.said = [@ EXCEPT !.rooms = rs]]
      <2>0. handler[c].at # "free"
          BY <1>9 DEF TakeRoom, Takes
      <2>1. entry[Peer(c)].rooms \subseteq Room
          BY <2>0, PeerTyped, Entries DEF StoreOK
      <2>2. \/ Takes(c, "join") \/ Takes(c, "leave")
          BY <1>9 DEF TakeRoom
      <2>3. Head(toServer[c]).room \in Room
          BY <2>2, Taken
      <2>a. \A rs : [handler EXCEPT ![c].at = "rooms", ![c].said.rooms = rs]
                        = [handler EXCEPT ![c] = g(rs)]
          BY <1>d DEF Goroutine, HandlerOK
      <2>b. \A rs, r : rs \subseteq Room /\ r \in Room =>
                           rs \cup {r} \in SUBSET Room /\ rs \ {r} \in SUBSET Room
          OBVIOUS
      <2>c. \/ handler' = handler
            \/ \E rs \in {entry[Peer(c)].rooms \cup {Head(toServer[c]).room},
                          entry[Peer(c)].rooms \ {Head(toServer[c]).room}} :
                   handler' = [handler EXCEPT ![c].at = "rooms", ![c].said.rooms = rs]
          BY <1>9 DEF TakeRoom
      <2>4. handler' = handler \/ \E rs \in SUBSET Room : handler' = [handler EXCEPT ![c] = g(rs)]
          BY <2>1, <2>3, <2>a, <2>b, <2>c
      <2>5. \A rs \in SUBSET Room : g(rs) \in Goroutine /\ g(rs).at # "free"
                                    /\ g(rs).owner = handler[c].owner
          BY <1>d, Entries DEF Goroutine, Places
      <2> QED
          BY <1>a, <1>c, <2>0, <2>4, <2>5
  <1>10. ASSUME NEW c \in Conn, SetRooms(c) PROVE HandlerOK'
      <2> DEFINE g == [handler[c] EXCEPT !.at = "look", !.then = "read", !.said = Stranger]
      <2>1. handler' = [handler EXCEPT ![c] = g] /\ handler[c].at # "free"
          BY <1>10, <1>d DEF SetRooms, Goroutine
      <2>2. g \in Goroutine /\ g.at # "free" /\ g.owner = handler[c].owner
          BY <1>d, Entries DEF Goroutine, Places
      <2> QED
          BY <1>c, <2>1, <2>2
  <1>11. ASSUME NEW c \in Conn, Leave(c) PROVE HandlerOK'
      <2> DEFINE g == [handler[c] EXCEPT !.at = "mark"]
      <2>1. handler[c].at # "free"
            /\ (handler' = [handler EXCEPT ![c] = g] \/ handler' = [handler EXCEPT ![c] = Idle])
          BY <1>11, <1>d DEF Leave, Goroutine
      <2>2. g \in Goroutine /\ g.at # "free" /\ g.owner = handler[c].owner
          BY <1>d DEF Goroutine, Places
      <2> QED
          BY <1>b, <1>c, <2>1, <2>2
  <1>12. ASSUME NEW c \in Conn, MarkOffline(c) PROVE HandlerOK'
      <2> DEFINE g == [handler[c] EXCEPT !.at = "look", !.then = "free"]
      <2>1. handler' = [handler EXCEPT ![c] = g] /\ handler[c].at # "free"
          BY <1>12, <1>d DEF MarkOffline, Goroutine
      <2>2. g \in Goroutine /\ g.at # "free" /\ g.owner = handler[c].owner
          BY <1>d DEF Goroutine, Places
      <2> QED
          BY <1>c, <2>1, <2>2
  <1>13. ASSUME NEW d \in Daemon, NEW c \in Conn, Dial(d, c) PROVE HandlerOK'
      <2> DEFINE g == [Idle EXCEPT !.at = "hello", !.owner = d, !.said = self[d]]
      <2>1. handler' = [handler EXCEPT ![c] = g]
          BY <1>13, <1>d, Zenon DEF Dial
      <2>2. g \in Goroutine /\ g.at # "free" /\ g.owner = d
          BY LooksTyped DEF Idle, Goroutine, Places, CallsOK
      <2> QED
          BY <2>1, <2>2 DEF HandlerOK
  <1>14. ASSUME NEW c \in Conn, Break(c) PROVE HandlerOK'
      BY <1>14, <1>a DEF Break, server
  <1>15. ASSUME NEW d \in Daemon, Reading(d) PROVE HandlerOK'
      BY <1>15, <1>a DEF Reading, ReadWelcome, OnRoster, Drop, MarkEveryoneOffline, server
  <1>16. ASSUME NEW s \in Screen, Calling(s) \/ SetSelf(s) \/ Write(s) PROVE HandlerOK'
      BY <1>16, <1>a
      DEF Calling, SetPresence, JoinRoom, LeaveRoom, Starts, SetSelf, Write, server
  <1>17. CASE UNCHANGED vars
      BY <1>17, <1>a DEF vars, server
  <1> QED
      BY <1>1, <1>2, <1>3, <1>4, <1>5, <1>6, <1>7, <1>8, <1>9, <1>10, <1>11, <1>12, <1>13, <1>14,
         <1>15, <1>16, <1>17
      DEF Next, Serving

(* What is on the way was a frame when it was sent.                        *)
LEMMA FramesStep ==
  ASSUME StoreOK, HandlerOK, FramesOK, SessionOK, CallsOK, [Next]_vars
  PROVE  FramesOK'
  <1>a. ASSUME UNCHANGED <<toServer, toClient>> PROVE FramesOK'
      BY <1>a DEF FramesOK
  <1>b. \A c \in Conn : RosterFrame(handler[c].seen) \in Frame
      BY Goroutines DEF HandlerOK, RosterFrame, Frame
  <1>1. ASSUME NEW c \in Conn, Enrol(c) PROVE FramesOK'
      <2>1. Welcome \in Frame
          BY LooksTyped DEF Welcome, Frame
      <2>2. toClient' = Queue(c, Welcome) /\ UNCHANGED toServer
          BY <1>1 DEF Enrol
      <2> QED
          BY <2>1, <2>2, Queued DEF FramesOK
  <1>2. ASSUME NEW c \in Conn,
               \/ EnrolFails(c) \/ Register(c) \/ Look(c) \/ ReadRoster(c) \/ SetRooms(c)
               \/ Leave(c) \/ MarkOffline(c)
        PROVE  FramesOK'
      BY <1>2, <1>a DEF EnrolFails, Register, Look, ReadRoster, SetRooms, Leave, MarkOffline
  <1>3. ASSUME NEW c \in Conn, Tell(c) PROVE FramesOK'
      <2>1. \A t \in Conn : Queue(t, RosterFrame(handler[c].seen))[t] \in Seq(Frame)
          BY <1>b, Queued
      <2>2. toClient' \in [Conn -> Seq(Frame)] /\ UNCHANGED toServer
          BY <1>3, <2>1 DEF Tell, FramesOK
      <2> QED
          BY <2>2 DEF FramesOK
  <1>4. ASSUME NEW c \in Conn, SendRoster(c) PROVE FramesOK'
      <2>1. toClient' = Queue(c, RosterFrame(handler[c].seen)) /\ UNCHANGED toServer
          BY <1>4 DEF SendRoster
      <2> QED
          BY <1>b, <2>1, Queued DEF FramesOK
  <1>5. ASSUME NEW c \in Conn, TakePresence(c) \/ TakeRoom(c) PROVE FramesOK'
      <2>1. (\E type : Takes(c, type)) /\ UNCHANGED toClient
          BY <1>5, Zenon DEF TakePresence, TakeRoom
      <2> QED
          BY <2>1, Taken DEF FramesOK
  <1>6. ASSUME NEW c \in Conn, HangUp(c) PROVE FramesOK'
      BY <1>6 DEF HangUp, FramesOK
  <1>7. ASSUME NEW c \in Conn, Break(c) PROVE FramesOK'
      BY <1>7, <1>a DEF Break
  <1>8. ASSUME NEW d \in Daemon, ReadWelcome(d) \/ OnRoster(d) PROVE FramesOK'
      <2>1. (\E type : Reads(d, type)) /\ UNCHANGED toServer
          BY <1>8, Zenon DEF ReadWelcome, OnRoster
      <2> QED
          BY <2>1, ReadFrame DEF FramesOK
  <1>9. ASSUME NEW d \in Daemon, Drop(d) PROVE FramesOK'
      <2>1. toClient' = [toClient EXCEPT ![link[d]] = <<>>] /\ UNCHANGED toServer
          BY <1>9 DEF Drop
      <2>2. \A c : [toClient EXCEPT ![c] = <<>>] \in [Conn -> Seq(Frame)]
          <3>1. <<>> \in Seq(Frame)
              OBVIOUS
          <3> QED
              BY <3>1 DEF FramesOK
      <2> QED
          BY <2>1, <2>2 DEF FramesOK
  <1>10. ASSUME NEW d \in Daemon, MarkEveryoneOffline(d) PROVE FramesOK'
      BY <1>10, <1>a DEF MarkEveryoneOffline
  <1>11. ASSUME NEW d \in Daemon, NEW c \in Conn, Dial(d, c) PROVE FramesOK'
      BY <1>11, <1>a, Zenon DEF Dial
  <1>12. ASSUME NEW s \in Screen, Calling(s) \/ SetSelf(s) PROVE FramesOK'
      BY <1>12, <1>a DEF Calling, SetPresence, JoinRoom, LeaveRoom, Starts, SetSelf
  <1>13. ASSUME NEW s \in Screen, Write(s) PROVE FramesOK'
      <2>1. screen[s] \in Call
          BY <1>13 DEF Write, CallsOK, NoCall
      <2>2. toServer' \in [Conn -> Seq(Call)] /\ UNCHANGED toClient
          BY <1>13, <2>1 DEF Write, FramesOK
      <2> QED
          BY <2>2 DEF FramesOK
  <1>14. CASE UNCHANGED vars
      BY <1>14, <1>a DEF vars
  <1> QED
      BY <1>1, <1>2, <1>3, <1>4, <1>5, <1>6, <1>7, <1>8, <1>9, <1>10, <1>11, <1>12, <1>13, <1>14
      DEF Next, Serving, Reading

(* The sessions: what is shown of somebody changes with a frame of the     *)
(* session, while it lasts, and once more at its end.                      *)
LEMMA SessionStep ==
  ASSUME FramesOK, SessionOK, NoSessionNobodyShown, [Next]_vars
  PROVE  SessionOK' /\ NoSessionNobodyShown'
  <1>a. ASSUME UNCHANGED <<phase, link, view>> PROVE SessionOK' /\ NoSessionNobodyShown'
      BY <1>a DEF SessionOK, NoSessionNobodyShown
  <1>1. ASSUME NEW c \in Conn, Serving(c) PROVE SessionOK' /\ NoSessionNobodyShown'
      <2>1. UNCHANGED <<session, view>>
          BY <1>1, Zenon DEF Serving, Enrol, EnrolFails, Register, Look, Tell, ReadRoster, SendRoster,
             TakePresence, TakeRoom, SetRooms, HangUp, Leave, MarkOffline
      <2> QED
          BY <1>a, <2>1 DEF session
  <1>2. ASSUME NEW c \in Conn, Break(c) PROVE SessionOK' /\ NoSessionNobodyShown'
      BY <1>2, <1>a DEF Break, session
  <1>3. ASSUME NEW d \in Daemon, ReadWelcome(d) PROVE SessionOK' /\ NoSessionNobodyShown'
      BY <1>3 DEF ReadWelcome, SessionOK, NoSessionNobodyShown
  <1>4. ASSUME NEW d \in Daemon, OnRoster(d) PROVE SessionOK' /\ NoSessionNobodyShown'
      <2> DEFINE peers == Head(toClient[link[d]]).peers
      <2> DEFINE shows == [p \in Person |-> IF p \in DOMAIN peers \ {Identity[d]}
                                            THEN Merged(view[d][p], peers[p]) ELSE view[d][p]]
      <2>1. peers \in Looks
          BY <1>4, ReadFrame DEF OnRoster
      <2>2. \A p \in DOMAIN peers : peers[p] \in Entry
          BY <2>1, LooksTyped
      <2>3. \A p \in Person : view[d][p] \in Entry
          BY DEF SessionOK
      <2>4. shows \in [Person -> Entry]
          <3> HIDE DEF peers
          <3> QED
              BY <2>2, <2>3, Entries
      <2>5. /\ view' = [view EXCEPT ![d] = shows]
            /\ phase[d] = "live" /\ UNCHANGED <<phase, link>>
          BY <1>4 DEF OnRoster, session, SessionOK
      <2> HIDE DEF shows
      <2>6. view' \in [Daemon -> [Person -> Entry]] /\ \A e \in Daemon : e # d => view'[e] = view[e]
          BY <2>4, <2>5 DEF SessionOK
      <2> QED
          BY <2>5, <2>6 DEF SessionOK, NoSessionNobodyShown
  <1>5. ASSUME NEW d \in Daemon, Drop(d) PROVE SessionOK' /\ NoSessionNobodyShown'
      BY <1>5 DEF Drop, SessionOK, NoSessionNobodyShown
  <1>6. ASSUME NEW d \in Daemon, MarkEveryoneOffline(d) PROVE SessionOK' /\ NoSessionNobodyShown'
      <2> DEFINE shows == [p \in Person |-> IF view[d][p] = Stranger THEN view[d][p]
                                            ELSE [view[d][p] EXCEPT !.presence = "offline"]]
      <2>1. \A p \in Person : view[d][p] \in Entry
          BY DEF SessionOK
      <2>2. "offline" \in Presence
          BY DEF Presence
      <2>3. shows \in [Person -> Entry]
          BY <2>1, <2>2, Entries
      <2>4. \A p \in Person : shows[p].presence \in {"offline", "none"}
          BY <2>1 DEF Stranger, Entry
      <2>5. /\ view' = [view EXCEPT ![d] = shows]
            /\ phase' = [phase EXCEPT ![d] = "down"] /\ UNCHANGED link
          BY <1>6 DEF MarkEveryoneOffline, SessionOK
      <2> HIDE DEF shows
      <2>6. /\ view' \in [Daemon -> [Person -> Entry]] /\ view'[d] = shows
            /\ \A e \in Daemon : e # d => view'[e] = view[e] /\ phase'[e] = phase[e]
          BY <2>3, <2>5 DEF SessionOK
      <2> QED
          BY <2>4, <2>5, <2>6 DEF SessionOK, NoSessionNobodyShown
  <1>7. ASSUME NEW d \in Daemon, NEW c \in Conn, Dial(d, c) PROVE SessionOK' /\ NoSessionNobodyShown'
      <2>1. /\ phase[d] = "down" /\ phase' = [phase EXCEPT ![d] = "hello"]
            /\ link' = [link EXCEPT ![d] = c] /\ UNCHANGED view
          BY <1>7, Zenon DEF Dial
      <2> QED
          BY <2>1 DEF SessionOK, NoSessionNobodyShown
  <1>8. ASSUME NEW s \in Screen, Calling(s) \/ SetSelf(s) \/ Write(s)
        PROVE  SessionOK' /\ NoSessionNobodyShown'
      BY <1>8, <1>a
      DEF Calling, SetPresence, JoinRoom, LeaveRoom, Starts, SetSelf, Write, session
  <1>9. CASE UNCHANGED vars
      BY <1>9, <1>a DEF vars, session
  <1> QED
      BY <1>1, <1>2, <1>3, <1>4, <1>5, <1>6, <1>7, <1>8, <1>9 DEF Next, Reading

(* The calls of the front ends, and what a daemon says of itself.          *)
LEMMA CallsStep ==
  ASSUME CallsOK, [Next]_vars
  PROVE  CallsOK'
  <1>a. ASSUME UNCHANGED <<self, screen>> PROVE CallsOK'
      BY <1>a DEF CallsOK
  <1>b. \A s \in Screen : ScreenOf[s] \in Daemon /\ Mine(s) \in Entry
      BY ConstantsAssumption DEF Mine, CallsOK
  <1>c. ASSUME NEW s \in Screen, NEW call \in Call \cup [t : {"self"}, who : Entry], Starts(s, call)
        PROVE  screen' \in [Screen -> Call \cup {NoCall} \cup [t : {"self"}, who : Entry]]
      BY <1>c DEF Starts, CallsOK
  <1>1. ASSUME NEW c \in Conn, Serving(c) \/ Break(c) PROVE CallsOK'
      <2>1. UNCHANGED <<self, screen>>
          BY <1>1, Zenon DEF Serving, Enrol, EnrolFails, Register, Look, Tell, ReadRoster, SendRoster,
             TakePresence, TakeRoom, SetRooms, HangUp, Leave, MarkOffline, Break
      <2> QED
          BY <1>a, <2>1
  <1>2. ASSUME NEW d \in Daemon, Reading(d) \/ \E c \in Conn : Dial(d, c) PROVE CallsOK'
      <2>1. UNCHANGED <<self, screen>>
          BY <1>2, Zenon DEF Reading, ReadWelcome, OnRoster, Drop, MarkEveryoneOffline, Dial
      <2> QED
          BY <1>a, <2>1
  <1>3. ASSUME NEW s \in Screen, NEW p \in Says, SetPresence(s, p) PROVE CallsOK'
      <2>1. [Mine(s) EXCEPT !.presence = p] \in Entry
          BY <1>b, ConstantsAssumption, Entries DEF Presence
      <2>2. [t |-> "self", who |-> [Mine(s) EXCEPT !.presence = p]] \in [t : {"self"}, who : Entry]
          BY <2>1
      <2> QED
          BY <1>3, <1>c, <2>2 DEF SetPresence, CallsOK
  <1>4. ASSUME NEW s \in Screen, SetSelf(s) PROVE CallsOK'
      <2>1. screen[s] \in [t : {"self"}, who : Entry]
          BY <1>4 DEF SetSelf, CallsOK, Call, NoCall
      <2>2. screen[s].who \in Entry /\ screen[s].who.presence \in Presence
          BY <2>1, Entries
      <2>3. [t |-> "presence", presence |-> screen[s].who.presence] \in Call
          BY <2>2 DEF Call
      <2>4. self' \in [Daemon -> Entry]
          BY <1>4, <1>b, <2>2 DEF SetSelf, CallsOK
      <2> QED
          BY <1>4, <2>3, <2>4 DEF SetSelf, CallsOK
  <1>5. ASSUME NEW s \in Screen, NEW r \in Room, JoinRoom(s, r) \/ LeaveRoom(s, r) PROVE CallsOK'
      <2>1. [t |-> "join", room |-> r] \in Call /\ [t |-> "leave", room |-> r] \in Call
          BY DEF Call
      <2>2. \A rs \in SUBSET Room : rs \cup {r} \in SUBSET Room /\ rs \ {r} \in SUBSET Room
          OBVIOUS
      <2>3. \A e \in Entry : e.rooms \in SUBSET Room
          BY Entries
      <2>4. \A d \in Daemon : self[d] \in Entry
          BY DEF CallsOK
      <2>5. \E rs \in SUBSET Room : self' = [self EXCEPT ![ScreenOf[s]] = [@ EXCEPT !.rooms = rs]]
          <3>1. Mine(s).rooms \in SUBSET Room
              BY <1>b, <2>3
          <3>2. CASE JoinRoom(s, r)
              BY <2>2, <3>1, <3>2 DEF JoinRoom, Mine
          <3>3. CASE LeaveRoom(s, r)
              BY <2>2, <3>1, <3>3 DEF LeaveRoom, Mine
          <3> QED
              BY <1>5, <3>2, <3>3
      <2>6. self' \in [Daemon -> Entry]
          <3>1. PICK rs \in SUBSET Room : self' = [self EXCEPT ![ScreenOf[s]] = [@ EXCEPT !.rooms = rs]]
              BY <2>5
          <3>2. [self[ScreenOf[s]] EXCEPT !.rooms = rs] \in Entry
              BY <1>b, <2>4, Entries
          <3> QED
              BY <3>1, <3>2 DEF CallsOK
      <2>7. screen' \in [Screen -> Call \cup {NoCall} \cup [t : {"self"}, who : Entry]]
          BY <1>5, <1>c, <2>1 DEF JoinRoom, LeaveRoom
      <2> QED
          BY <2>6, <2>7 DEF CallsOK
  <1>6. ASSUME NEW s \in Screen, Write(s) PROVE CallsOK'
      BY <1>6 DEF Write, CallsOK
  <1>7. CASE UNCHANGED vars
      BY <1>7, <1>a DEF vars
  <1> QED
      BY <1>1, <1>2, <1>3, <1>4, <1>5, <1>6, <1>7 DEF Next, Calling

(* The sockets, and what is counted.                                       *)
LEMMA SocketStep ==
  ASSUME open \in [Conn -> BOOLEAN], events \in 0 .. MaxEvents, [Next]_vars
  PROVE  open' \in [Conn -> BOOLEAN] /\ events' \in 0 .. MaxEvents
  <1>0. MaxEvents \in Nat
      BY ConstantsAssumption
  <1>1. ASSUME NEW c \in Conn, Serving(c) PROVE UNCHANGED <<open, events>>
      BY <1>1, Zenon DEF Serving, Enrol, EnrolFails, Register, Look, Tell, ReadRoster, SendRoster,
         TakePresence, TakeRoom, SetRooms, HangUp, Leave, MarkOffline
  <1>2. ASSUME NEW c \in Conn, Break(c)
        PROVE  open' \in [Conn -> BOOLEAN] /\ events' \in 0 .. MaxEvents
      BY <1>0, <1>2 DEF Break
  <1>3. ASSUME NEW d \in Daemon, Reading(d) PROVE UNCHANGED <<open, events>>
      BY <1>3, Zenon DEF Reading, ReadWelcome, OnRoster, Drop, MarkEveryoneOffline
  <1>4. ASSUME NEW d \in Daemon, NEW c \in Conn, Dial(d, c)
        PROVE  open' \in [Conn -> BOOLEAN] /\ UNCHANGED events
      <2>1. open' = [open EXCEPT ![c] = TRUE] /\ UNCHANGED events
          BY <1>4, Zenon DEF Dial
      <2> QED
          BY <2>1
  <1>5. ASSUME NEW s \in Screen, Calling(s)
        PROVE  UNCHANGED open /\ events' \in 0 .. MaxEvents
      <2>1. UNCHANGED open /\ events < MaxEvents /\ events' = events + 1
          BY <1>5, Zenon DEF Calling, SetPresence, JoinRoom, LeaveRoom, Starts
      <2> QED
          BY <1>0, <2>1
  <1>6. ASSUME NEW s \in Screen, SetSelf(s) \/ Write(s) PROVE UNCHANGED <<open, events>>
      BY <1>6, Zenon DEF SetSelf, Write
  <1>7. CASE UNCHANGED vars
      BY <1>7 DEF vars
  <1>8. \/ UNCHANGED <<open, events>>
        \/ open' \in [Conn -> BOOLEAN] /\ events' \in 0 .. MaxEvents
        \/ UNCHANGED open /\ events' \in 0 .. MaxEvents
        \/ open' \in [Conn -> BOOLEAN] /\ UNCHANGED events
      BY <1>1, <1>2, <1>3, <1>4, <1>5, <1>6, <1>7, Zenon DEF Next, vars
  <1> QED
      BY <1>8, Zenon

----------------------------------------------------------------------------
LEMMA NextIInv == IInv /\ [Next]_vars => IInv'
  BY StoreStep, HandlerStep, FramesStep, SessionStep, CallsStep, SocketStep DEF IInv

LEMMA Invariance == Spec => []IInv
  BY InitIInv, NextIInv, PTL DEF Spec

(* TypeOK holds in every state: in particular a goroutine of the server    *)
(* that has let go of its connection keeps nothing of it, and what is      *)
(* cached of a person is an entry, whatever is merged.                     *)
THEOREM TypeCorrect == Spec => []TypeOK
  <1>1. ASSUME IInv PROVE TypeOK
      <2> USE <1>1 DEF IInv
      <2>1. \A c \in Conn :
              /\ handler[c].at \in Places /\ handler[c].then \in {"free", "roster", "read"}
              /\ handler[c].owner \in Daemon \cup {None} /\ handler[c].said \in Entry
              /\ DOMAIN handler[c].seen \subseteq Person
              /\ handler[c].at = "free" => handler[c] = Idle
          <3>1. \A g \in Goroutine :
                  /\ g.at \in Places /\ g.then \in {"free", "roster", "read"}
                  /\ g.owner \in Daemon \cup {None} /\ g.said \in Entry
                  /\ DOMAIN g.seen \subseteq Person
              BY LooksTyped DEF Goroutine
          <3> QED
              BY <3>1 DEF HandlerOK
      <2>2. \A c \in Conn : \A i \in DOMAIN toClient[c] : toClient[c][i].t \in {"welcome", "roster"}
          <3>1. \A c \in Conn : toClient[c] \in Seq(Frame)
              BY DEF FramesOK
          <3>2. \A c \in Conn : \A i \in DOMAIN toClient[c] : toClient[c][i] \in Frame
              BY <3>1
          <3> QED
              BY <3>2 DEF Frame
      <2> QED
          BY <2>1, <2>2 DEF TypeOK, StoreOK, FramesOK, SessionOK, CallsOK
  <1> QED
      BY <1>1, Invariance, PTL

(* A client daemon without a session shows nobody as present, whatever     *)
(* frames of the session before are still on their way, and however it     *)
(* ended (session and markEveryoneOffline).                                *)
THEOREM ShowsNobodyAlone == Spec => []NoSessionNobodyShown
  <1>1. IInv => NoSessionNobodyShown
      BY DEF IInv
  <1> QED
      BY <1>1, Invariance, PTL
=============================================================================
