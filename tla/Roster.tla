------------------------------- MODULE Roster -------------------------------
(***************************************************************************)
(* Who is there, and in which rooms: the roster of the server (Store.peers, *)
(* shown through the connections that are open), the roster every client    *)
(* daemon caches of it, and the calls of the front ends that change what a  *)
(* client says of itself.                                                  *)
(*                                                                         *)
(* Critical sections are steps. The exceptions: an enrolment up to its      *)
(* welcome, a look at roster entries together with the connections of their *)
(* people, and the frame a server goroutine then queues on every            *)
(* connection. Messages are Relay's subject: of the enrolment the hello,    *)
(* the welcome and the roster are left, of join and leave the list of rooms.*)
(***************************************************************************)
EXTENDS Integers, Sequences, FiniteSets

CONSTANTS
    Daemon,    \* client daemons
    Person,    \* identities
    Identity,  \* the identity a daemon enrols under
    Room,      \* rooms
    Joined,    \* the rooms of a daemon's identity file, at first
    Screen,    \* goroutines that serve a front end's calls
    ScreenOf,  \* the daemon a front end is attached to
    Conn,      \* connection slots
    None,
    First,     \* bound: the daemons whose enrolment the others wait for
    Says,      \* bound: what a front end's call may set as the presence
    MaxEvents, \* bound: how many calls are made and connections break
    Faulty     \* bound: the daemons whose connections may break

ASSUME ConstantsAssumption ==
    /\ Identity \in [Daemon -> Person] /\ Joined \in [Daemon -> SUBSET Room]
    /\ ScreenOf \in [Screen -> Daemon] /\ Says \subseteq {"online", "away"}
    /\ None \notin Daemon \cup Conn \cup Person
    /\ MaxEvents \in Nat /\ Faulty \subseteq Daemon /\ First \subseteq Daemon

VARIABLES
    entry,    \* Store.peers of the server
    conns,    \* Server.conns
    handler,  \* the goroutine of a connection (a record, see Idle)
    open,     \* is the socket open at both ends?
    toServer, toClient, \* frames in flight
    phase,    \* the session of a daemon
    link,     \* the connection of the session
    self,     \* Store.self of a daemon: its presence and its rooms
    view,     \* Store.peers of a daemon
    screen,   \* what a front end's call still has to do, if any
    events    \* calls made and connections broken

server == <<entry, conns, handler>>
session == <<phase, link>>
vars == <<server, open, toServer, toClient, session, self, view, screen, events>>

(* What is known of a person; "none" is a person nobody has heard of.       *)
Presence == {"online", "away", "offline", "none"}
Entry == [presence : Presence, rooms : SUBSET Room]
Stranger == [presence |-> "none", rooms |-> {}]

(* The state of a goroutine of the server:                                 *)
(*   at     where it is; then: where it goes on after a broadcast           *)
(*   owner  the daemon at the other end                                     *)
(*   said   what the hello or the last frame asks for                       *)
(*   seen   the roster entries it has looked at and not yet sent            *)
Idle == [at |-> "free", then |-> "free", owner |-> None, said |-> Stranger, seen |-> <<>>]

(* What a front end's call has still to do.                                *)
NoCall == [t |-> "none"]

Welcome == [t |-> "welcome", peers |-> <<>>]
RosterFrame(peers) == [t |-> "roster", peers |-> peers]

Peer(c) == Identity[handler[c].owner]
ConnsOf(p) == {c \in conns : Peer(c) = p}
At(c, place) == handler' = [handler EXCEPT ![c].at = place]
Queue(c, f) == [toClient EXCEPT ![c] = IF open[c] THEN Append(@, f) ELSE @]

(* Presence is what the server can see, not what was last claimed.         *)
Shown(p) == IF ConnsOf(p) = {} /\ entry[p].presence # "none"
            THEN [entry[p] EXCEPT !.presence = "offline"] ELSE entry[p]

----------------------------------------------------------------------------
Init ==
    /\ entry = [p \in Person |-> Stranger] /\ conns = {}
    /\ handler = [c \in Conn |-> Idle] /\ open = [c \in Conn |-> FALSE]
    /\ toServer = [c \in Conn |-> <<>>] /\ toClient = [c \in Conn |-> <<>>]
    /\ phase = [d \in Daemon |-> "down"] /\ link = [d \in Daemon |-> None]
    /\ self = [d \in Daemon |-> [presence |-> "online", rooms |-> Joined[d]]]
    /\ view = [d \in Daemon |-> [p \in Person |-> Stranger]]
    /\ screen = [s \in Screen |-> NoCall]
    /\ events = 0

----------------------------------------------------------------------------
(* The server: one goroutine per connection.                               *)

(* handleConn up to the welcome: the client's own list of rooms wins, and   *)
(* nobody enrols as offline.                                               *)
Recorded(c) ==
    [entry EXCEPT ![Peer(c)] =
        [handler[c].said EXCEPT !.presence = IF @ = "offline" THEN "online" ELSE @]]

Enrol(c) ==
    /\ handler[c].at = "hello"
    /\ entry' = Recorded(c)
    /\ toClient' = Queue(c, Welcome)
    /\ At(c, "register")
    /\ UNCHANGED <<conns, open, toServer, session, self, view, screen, events>>

(* The hello does not arrive, or the welcome cannot be written.            *)
EnrolFails(c) ==
    /\ handler[c].at = "hello" /\ ~open[c]
    /\ entry' \in {entry, Recorded(c)}
    /\ handler' = [handler EXCEPT ![c] = Idle]
    /\ UNCHANGED <<conns, open, toServer, toClient, session, self, view, screen, events>>

Register(c) ==
    /\ handler[c].at = "register"
    /\ conns' = conns \cup {c}
    /\ handler' = [handler EXCEPT ![c].at = "look", ![c].then = "roster"]
    /\ UNCHANGED <<entry, open, toServer, toClient, session, self, view, screen, events>>

(* broadcastPeer: a look at the entry, ...                                 *)
Look(c) ==
    /\ handler[c].at = "look"
    /\ handler' = [handler EXCEPT ![c].at = "tell", ![c].seen = [p \in {Peer(c)} |-> Shown(p)]]
    /\ UNCHANGED <<entry, conns, open, toServer, toClient, session, self, view, screen, events>>

(* Mutant of Tell: the goroutine that leaves is not done with.             *)
TellAndStay(c) ==
    /\ handler[c].at = "tell"
    /\ toClient' = [t \in Conn |-> IF t \in conns THEN Queue(t, RosterFrame(handler[c].seen))[t]
                                   ELSE toClient[t]]
    /\ At(c, handler[c].then)
    /\ UNCHANGED <<entry, conns, open, toServer, session, self, view, screen, events>>

(* ... and what was seen goes to every connection.                         *)
Tell(c) ==
    /\ handler[c].at = "tell"
    /\ toClient' = [t \in Conn |-> IF t \in conns THEN Queue(t, RosterFrame(handler[c].seen))[t]
                                   ELSE toClient[t]]
    /\ handler' = [handler EXCEPT ![c] = IF @.then = "free" THEN Idle
                                         ELSE [@ EXCEPT !.at = handler[c].then, !.seen = <<>>]]
    /\ UNCHANGED <<entry, conns, open, toServer, session, self, view, screen, events>>

(* backfill: the whole roster, looked at ...                               *)
ReadRoster(c) ==
    /\ handler[c].at = "roster"
    /\ handler' = [handler EXCEPT ![c].at = "send", ![c].seen = [p \in Person |-> Shown(p)]]
    /\ UNCHANGED <<entry, conns, open, toServer, toClient, session, self, view, screen, events>>

(* ... and sent to the one who enrolled.                                   *)
SendRoster(c) ==
    /\ handler[c].at = "send"
    /\ toClient' = Queue(c, RosterFrame(handler[c].seen))
    /\ handler' = [handler EXCEPT ![c].at = "read", ![c].seen = <<>>, ![c].said = Stranger]
    /\ UNCHANGED <<entry, conns, open, toServer, session, self, view, screen, events>>

Takes(c, type) ==
    /\ handler[c].at = "read" /\ toServer[c] # <<>> /\ Head(toServer[c]).t = type
    /\ toServer' = [toServer EXCEPT ![c] = Tail(@)]

(* Mutant of TakePresence: recorded, and nobody told.                      *)
TakePresenceSilently(c) ==
    /\ Takes(c, "presence")
    /\ entry' = [entry EXCEPT ![Peer(c)].presence = Head(toServer[c]).presence]
    /\ UNCHANGED <<handler, conns, open, toClient, session, self, view, screen, events>>

(* A presence that is new is recorded and broadcast.                       *)
TakePresence(c) ==
    LET new == Head(toServer[c]).presence
    IN /\ Takes(c, "presence")
       /\ entry' = [entry EXCEPT ![Peer(c)].presence = new]
       /\ handler' = IF new = entry[Peer(c)].presence THEN handler
                     ELSE [handler EXCEPT ![c].at = "look", ![c].then = "read"]
       /\ UNCHANGED <<conns, open, toClient, session, self, view, screen, events>>

(* onJoin and onLeave: the list as it is, with or without the room, ...     *)
TakeRoom(c) ==
    LET f == Head(toServer[c])
        rooms == entry[Peer(c)].rooms
        Writes(new) == handler' = [handler EXCEPT ![c].at = "rooms", ![c].said.rooms = new]
    IN /\ \/ /\ Takes(c, "join")
             /\ IF f.room \in rooms THEN UNCHANGED handler ELSE Writes(rooms \cup {f.room})
          \/ Takes(c, "leave") /\ Writes(rooms \ {f.room})
       /\ UNCHANGED <<entry, conns, open, toClient, session, self, view, screen, events>>

(* ... and setRooms, then the broadcast.                                   *)
SetRooms(c) ==
    /\ handler[c].at = "rooms"
    /\ entry' = [entry EXCEPT ![Peer(c)].rooms = handler[c].said.rooms]
    /\ handler' = [handler EXCEPT ![c].at = "look", ![c].then = "read", ![c].said = Stranger]
    /\ UNCHANGED <<conns, open, toServer, toClient, session, self, view, screen, events>>

(* The connection is gone: unregister, ...                                 *)
HangUp(c) ==
    /\ handler[c].at = "read" /\ ~open[c]
    /\ conns' = conns \ {c}
    /\ At(c, "leave")
    /\ toServer' = [toServer EXCEPT ![c] = <<>>]
    /\ UNCHANGED <<entry, open, toClient, session, self, view, screen, events>>

(* Mutant of Leave: the last one does not look back either.                *)
LeaveAnyway(c) ==
    /\ handler[c].at = "leave"
    /\ handler' = [handler EXCEPT ![c] = Idle]
    /\ UNCHANGED <<entry, conns, open, toServer, toClient, session, self, view, screen, events>>

(* ... a look whether it was the last, ...                                 *)
Leave(c) ==
    /\ handler[c].at = "leave"
    /\ handler' = [handler EXCEPT ![c] = IF ConnsOf(Peer(c)) = {} THEN [@ EXCEPT !.at = "mark"]
                                         ELSE Idle]
    /\ UNCHANGED <<entry, conns, open, toServer, toClient, session, self, view, screen, events>>

(* ... and if so, offline, whoever has enrolled since.                     *)
MarkOffline(c) ==
    /\ handler[c].at = "mark"
    /\ entry' = [entry EXCEPT ![Peer(c)].presence = "offline"]
    /\ handler' = [handler EXCEPT ![c].at = "look", ![c].then = "free"]
    /\ UNCHANGED <<conns, open, toServer, toClient, session, self, view, screen, events>>

----------------------------------------------------------------------------
(* A client daemon: its session.                                           *)

(* A slot for the next connection: they are all alike.                     *)
Slot == CHOOSE c \in Conn : handler[c] = Idle /\ \A e \in Daemon : link[e] # c

(* Somebody who watches: enrolled, with the roster sent to them.           *)
Watching(d) == phase[d] = "live" /\ open[link[d]] /\ handler[link[d]].at = "read"

(* The hello says who we are now; calls that come before the welcome has    *)
(* been read find no link to write to.                                     *)
Dial(d, c) ==
    /\ phase[d] = "down" /\ handler[c] = Idle /\ \A e \in Daemon : link[e] # c
    /\ c = Slot /\ \A e \in First \ {d} : Watching(e)
    /\ phase' = [phase EXCEPT ![d] = "hello"] /\ link' = [link EXCEPT ![d] = c]
    /\ handler' = [handler EXCEPT ![c].at = "hello", ![c].owner = d, ![c].said = self[d]]
    /\ open' = [open EXCEPT ![c] = TRUE]
    /\ UNCHANGED <<entry, conns, toServer, toClient, self, view, screen, events>>

Reads(d, type) ==
    LET c == link[d]
    IN /\ c # None /\ toClient[c] # <<>> /\ Head(toClient[c]).t = type
       /\ toClient' = [toClient EXCEPT ![c] = Tail(@)]

ReadWelcome(d) ==
    /\ phase[d] = "hello" /\ Reads(d, "welcome")
    /\ phase' = [phase EXCEPT ![d] = "live"]
    /\ UNCHANGED <<server, open, toServer, link, self, view, screen, events>>

(* PutPeer of an entry that came over the wire. A list of rooms that is     *)
(* empty is not sent ("omitempty"), and PutPeer keeps what is not there.    *)
Merged(old, new) ==
    IF new.presence = "none" THEN old
    ELSE [presence |-> new.presence, rooms |-> IF new.rooms = {} THEN old.rooms ELSE new.rooms]

(* onRoster: everybody but us.                                             *)
OnRoster(d) ==
    LET peers == Head(toClient[link[d]]).peers
    IN /\ phase[d] = "live" /\ Reads(d, "roster")
       /\ view' = [view EXCEPT ![d] = [p \in Person |->
                      IF p \in DOMAIN peers \ {Identity[d]} THEN Merged(@[p], peers[p]) ELSE @[p]]]
       /\ UNCHANGED <<server, open, toServer, session, self, screen, events>>

(* Mutant of Drop: back to dialling at once.                               *)
DropUnmarked(d) ==
    /\ phase[d] \in {"hello", "live"} /\ ~open[link[d]]
    /\ phase' = [phase EXCEPT ![d] = "down"] /\ link' = [link EXCEPT ![d] = None]
    /\ toClient' = [toClient EXCEPT ![link[d]] = <<>>]
    /\ UNCHANGED <<server, open, toServer, self, view, screen, events>>

(* The session ends: the link is gone first, ...                           *)
Drop(d) ==
    /\ phase[d] \in {"hello", "live"} /\ ~open[link[d]]
    /\ phase' = [phase EXCEPT ![d] = IF @ = "live" THEN "dropped" ELSE "down"]
    /\ link' = [link EXCEPT ![d] = None]
    /\ toClient' = [toClient EXCEPT ![link[d]] = <<>>]
    /\ UNCHANGED <<server, open, toServer, self, view, screen, events>>

(* ... then everyone we know of is offline.                                *)
MarkEveryoneOffline(d) ==
    /\ phase[d] = "dropped"
    /\ view' = [view EXCEPT ![d] = [p \in Person |->
                   IF @[p] = Stranger THEN @[p] ELSE [@[p] EXCEPT !.presence = "offline"]]]
    /\ phase' = [phase EXCEPT ![d] = "down"]
    /\ UNCHANGED <<server, open, toServer, toClient, link, self, screen, events>>

----------------------------------------------------------------------------
(* The calls of the front ends: first what the daemon keeps, ...           *)

Starts(s, call) ==
    /\ screen[s] = NoCall /\ events < MaxEvents
    /\ events' = events + 1
    /\ screen' = [screen EXCEPT ![s] = call]
    /\ UNCHANGED <<server, open, toServer, toClient, session, view>>

Mine(s) == self[ScreenOf[s]]

(* SetPresence reads the whole identity and puts it back.                  *)
SetPresence(s, p) ==
    Starts(s, [t |-> "self", who |-> [Mine(s) EXCEPT !.presence = p]]) /\ UNCHANGED self

SetSelf(s) ==
    /\ screen[s].t = "self"
    /\ self' = [self EXCEPT ![ScreenOf[s]] = screen[s].who]
    /\ screen' = [screen EXCEPT ![s] = [t |-> "presence", presence |-> screen[s].who.presence]]
    /\ UNCHANGED <<server, open, toServer, toClient, session, view, events>>

JoinRoom(s, r) ==
    /\ Starts(s, [t |-> "join", room |-> r])
    /\ self' = [self EXCEPT ![ScreenOf[s]].rooms = @ \cup {r}]

LeaveRoom(s, r) ==
    /\ r \in Mine(s).rooms
    /\ Starts(s, [t |-> "leave", room |-> r])
    /\ self' = [self EXCEPT ![ScreenOf[s]].rooms = @ \ {r}]

(* ... then the frame, if there is a link.                                 *)
Write(s) ==
    LET d == ScreenOf[s]
    IN /\ screen[s].t \in {"presence", "join", "leave"}
       /\ toServer' = [c \in Conn |->
                          IF c = link[d] /\ phase[d] = "live" /\ open[c]
                          THEN Append(toServer[c], screen[s]) ELSE toServer[c]]
       /\ screen' = [screen EXCEPT ![s] = NoCall]
       /\ UNCHANGED <<server, open, toClient, session, self, view, events>>

----------------------------------------------------------------------------
Break(c) ==
    /\ events < MaxEvents /\ open[c] /\ handler[c].owner \in Faulty
    /\ events' = events + 1
    /\ open' = [open EXCEPT ![c] = FALSE]
    /\ UNCHANGED <<server, toServer, toClient, session, self, view, screen>>

Serving(c) ==
    \/ Enrol(c) \/ EnrolFails(c) \/ Register(c) \/ Look(c) \/ Tell(c)
    \/ ReadRoster(c) \/ SendRoster(c) \/ TakePresence(c) \/ TakeRoom(c) \/ SetRooms(c)
    \/ HangUp(c) \/ Leave(c) \/ MarkOffline(c)

Reading(d) == ReadWelcome(d) \/ OnRoster(d) \/ Drop(d) \/ MarkEveryoneOffline(d)

Calling(s) ==
    \/ \E p \in Says : SetPresence(s, p)
    \/ \E r \in Room : JoinRoom(s, r) \/ LeaveRoom(s, r)

Next ==
    \/ \E c \in Conn : Serving(c) \/ Break(c)
    \/ \E d \in Daemon : Reading(d) \/ \E c \in Conn : Dial(d, c)
    \/ \E s \in Screen : Calling(s) \/ SetSelf(s) \/ Write(s)

Spec == Init /\ [][Next]_vars

(* Goroutines run. Nobody has to call, or to come back: a laptop that lost  *)
(* its power does not dial.                                                *)
Fairness ==
    /\ \A c \in Conn : WF_vars(Serving(c))
    /\ \A d \in Daemon : WF_vars(Reading(d))
    /\ \A s \in Screen : WF_vars(SetSelf(s) \/ Write(s))

FairSpec == Spec /\ Fairness

----------------------------------------------------------------------------
(* Properties.                                                             *)

Places == {"free", "hello", "register", "look", "tell", "roster", "send", "read", "rooms",
           "leave", "mark"}
Call == [t : {"presence"}, presence : Presence] \cup [t : {"join", "leave"}, room : Room]

(* Every variable has its type: among others, a goroutine that is done with *)
(* its connection has let go of it.                                        *)
TypeOK ==
    /\ entry \in [Person -> Entry] /\ conns \subseteq Conn
    /\ \A c \in Conn :
          /\ handler[c].at \in Places /\ handler[c].then \in {"free", "roster", "read"}
          /\ handler[c].owner \in Daemon \cup {None} /\ handler[c].said \in Entry
          /\ DOMAIN handler[c].seen \subseteq Person
          /\ handler[c].at = "free" => handler[c] = Idle
    /\ open \in [Conn -> BOOLEAN] /\ toServer \in [Conn -> Seq(Call)]
    /\ \A c \in Conn : \A i \in DOMAIN toClient[c] : toClient[c][i].t \in {"welcome", "roster"}
    /\ phase \in [Daemon -> {"down", "hello", "live", "dropped"}]
    /\ link \in [Daemon -> Conn \cup {None}]
    /\ self \in [Daemon -> Entry] /\ view \in [Daemon -> [Person -> Entry]]
    /\ screen \in [Screen -> Call \cup {NoCall} \cup [t : {"self"}, who : Entry]]
    /\ events \in 0..MaxEvents

(* "It cannot see anybody, and a status bar that implied otherwise would be *)
(* telling the one lie it must not tell" (docs/protocol.md; session and     *)
(* markEveryoneOffline of chatclientd): without a session nobody is shown.  *)
NoSessionNobodyShown ==
    \A d \in Daemon, p \in Person :
        phase[d] \in {"down", "hello"} => view[d][p].presence \in {"offline", "none"}

Others(d) == Person \ {Identity[d]}

(* "Somebody whose laptop lost power is offline without having said so"     *)
(* (docs/protocol.md; the clean-up of handleConn): when the last connection *)
(* of a person goes, who watches comes to see them offline, or back.        *)
GoneIsShownGone ==
    \A d \in Daemon : \A p \in Others(d) :
        ( /\ Watching(d) /\ ConnsOf(p) = {}
          /\ \E c \in Conn : handler[c].at = "leave" /\ Peer(c) = p )
        ~> (view[d][p].presence = "offline" \/ ConnsOf(p) # {} \/ ~Watching(d))

(* "Relayed to everybody as a roster update" (docs/protocol.md): when a     *)
(* person says something new, who watches comes to see it.                  *)
SaidIsShown ==
    \A d \in Daemon : \A p \in Others(d) :
        ( /\ Watching(d)
          /\ \E c \in ConnsOf(p) :
                /\ handler[c].at = "read" /\ toServer[c] # <<>>
                /\ Head(toServer[c]).t = "presence"
                /\ Head(toServer[c]).presence # entry[p].presence )
        ~> (view[d][p].presence = Shown(p).presence \/ ~Watching(d))

=============================================================================
