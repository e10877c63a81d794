------------------------------ MODULE Transfer ------------------------------
(***************************************************************************)
(* Sending a file: the table of transfers of every client daemon           *)
(* (chatclientd), the goroutine that pushes a file, the calls of the front *)
(* ends, and the relay in the middle (chatserver) with its own table, its  *)
(* clock and the clean-up of connections that went away.                   *)
(*                                                                         *)
(* Critical sections are steps: what a goroutine read in one of them may   *)
(* be stale in the next. The exceptions: onChunk of the client, whose      *)
(* look-up, write and count are one step; a file that is closed together   *)
(* with the change of its row; and a server goroutine that takes the       *)
(* connections of a person and queues a frame on each.                     *)
(*                                                                         *)
(* A file is Chunks pieces, and its digest matches when all of them are    *)
(* there in order. Enrolment is one step here: it is Relay's subject.      *)
(***************************************************************************)
EXTENDS Integers, Sequences, FiniteSets

CONSTANTS
    Daemon,        \* client daemons
    Person,        \* identities
    Identity,      \* the identity a daemon enrols under
    Transfer,      \* transfer ids
    Sender,        \* the daemon that offers a transfer
    Target,        \* the person it is offered to
    Chunks,        \* pieces of a file
    MaxPaths,      \* bound: file names in a download directory
    MaxOpen,       \* chat.MaxOpenTransfers
    Screen,        \* goroutines that serve a front end's calls
    ScreenOf,      \* the daemon a front end is attached to
    Conn,          \* connection slots
    Clock,         \* the housekeeping goroutine of the server
    Blocked,       \* the people a daemon's person has blocked
    None,
    OffersExpire,  \* may two minutes pass before an offer is answered?
    FilesMayFail,  \* may reading or writing a file fail?
    MaxBreaks,     \* bound: how many connections break
    Faulty         \* bound: the daemons this happens to

ASSUME ConstantsAssumption ==
    /\ Identity \in [Daemon -> Person]
    /\ Sender \in [Transfer -> Daemon] /\ Target \in [Transfer -> Person]
    /\ \A t \in Transfer : Identity[Sender[t]] # Target[t]
    /\ ScreenOf \in [Screen -> Daemon] /\ Blocked \in [Daemon -> SUBSET Person]
    /\ Chunks \in Nat /\ MaxPaths \in Nat \ {0} /\ MaxOpen \in Nat \ {0}
    /\ None \notin Daemon \cup Conn \cup Transfer \cup (1..MaxPaths) /\ Clock \notin Conn
    /\ OffersExpire \in BOOLEAN /\ FilesMayFail \in BOOLEAN
    /\ MaxBreaks \in Nat /\ Faulty \subseteq Daemon

Path == 1..MaxPaths
Whole == [i \in 1..Chunks |-> i - 1]

VARIABLES
    relay,    \* Server.xfers: state and how many chunks went through
    conns,    \* Server.conns
    handler,  \* the goroutine of a connection: where it is, whose it is, what it took
    pending,  \* frames a server goroutine still has to send, and to whom
    open,     \* is the socket open at both ends?
    toServer, toClient, \* frames in flight
    link,     \* Daemon.conn
    reader,   \* the goroutine that reads it: where it is, and with what
    row,      \* transfers.byID
    file,     \* transfers.open: the path an open file writes to
    disk,     \* the download directory: what each existing file holds
    pusher,   \* pushFile
    screen,   \* the calls of the front ends
    breaks    \* how many connections broke

server == <<relay, conns, handler, pending>>
wires == <<open, toServer, toClient>>
client == <<link, reader, row, file, disk, pusher, screen>>
vars == <<server, wires, client, breaks>>

NoRelay == [state |-> "none", sent |-> 0]
NoRow == [state |-> "none", path |-> None, got |-> 0]
Free == [at |-> "free", owner |-> None, id |-> None]
Reading == [at |-> "read", id |-> None, path |-> None]
Quiet == [at |-> "no", off |-> 0]
Waiting == [at |-> "idle", id |-> None, path |-> None]

Ended == {"done", "declined", "failed", "cancelled"}
Live == {"offered", "incoming", "running"}

----------------------------------------------------------------------------
(* Frames and who they go to.                                              *)

Frame == [t : {"offer", "accept", "decline", "chunk", "done"}, id : Transfer, n : Nat]
FrameOf(type, t, n) == [t |-> type, id |-> t, n |-> n]
To(p, f) == [to |-> p, frame |-> f]

Peer(c) == Identity[handler[c].owner]
From(t) == Identity[Sender[t]]
ConnsOf(p) == {c \in conns : Peer(c) = p}
Incoming(d, t) == d # Sender[t]

(* Daemon.write: no link, no write; a broken one may swallow the frame.    *)
Write(d, f) ==
    toServer' = [c \in Conn |-> IF c = link[d] /\ open[c] THEN Append(toServer[c], f)
                                ELSE toServer[c]]
WriteFails(d) == link[d] \notin {c \in Conn : open[c]}

(* transfers.active.                                                       *)
Active(d, p) ==
    Cardinality({t \in Transfer : /\ row[d][t].state \in Live
                                  /\ p = IF Incoming(d, t) THEN From(t) ELSE Target[t]})

(* failTransfer: the file is closed, the row says so, the server is not     *)
(* told and what was written stays.                                         *)
Fail(d, t) ==
    /\ row' = [row EXCEPT ![d][t].state = "failed"]
    /\ file' = [file EXCEPT ![d][t] = None]

Removed(d, p) == [disk EXCEPT ![d] = [q \in DOMAIN disk[d] \ {p} |-> disk[d][q]]]

----------------------------------------------------------------------------
Init ==
    /\ relay = [t \in Transfer |-> NoRelay] /\ conns = {}
    /\ handler = [c \in Conn |-> Free] /\ pending = [g \in Conn \cup {Clock} |-> <<>>]
    /\ open = [c \in Conn |-> FALSE]
    /\ toServer = [c \in Conn |-> <<>>] /\ toClient = [c \in Conn |-> <<>>]
    /\ link = [d \in Daemon |-> None] /\ reader = [d \in Daemon |-> [Reading EXCEPT !.at = "down"]]
    /\ row = [d \in Daemon |-> [t \in Transfer |-> NoRow]]
    /\ file = [d \in Daemon |-> [t \in Transfer |-> None]]
    /\ disk = [d \in Daemon |-> <<>>]
    /\ pusher = [t \in Transfer |-> Quiet] /\ screen = [s \in Screen |-> Waiting]
    /\ breaks = 0

----------------------------------------------------------------------------
(* The server. A goroutine takes the next frame when it has sent what the   *)
(* last one made it send.                                                   *)

Takes(c, type) ==
    /\ handler[c].at = "read" /\ pending[c] = <<>> /\ toServer[c] # <<>>
    /\ Head(toServer[c]).t = type
    /\ toServer' = [toServer EXCEPT ![c] = Tail(@)]

(* Mutant of TransfersOf: only what this person receives.                  *)
ReceiptsOf(p) == {t \in Transfer : relay[t].state # "none" /\ p = Target[t]}

(* What one person is part of.                                             *)
TransfersOf(p) == {t \in Transfer : relay[t].state # "none" /\ p \in {From(t), Target[t]}}

Refuse(c, f) == toClient' = [toClient EXCEPT ![c] = IF open[c] THEN Append(@, f) ELSE @]

(* onOffer: somebody who is not connected refuses at once.                 *)
OnOffer(c) ==
    LET f == Head(toServer[c])
    IN /\ Takes(c, "offer")
       /\ IF ConnsOf(Target[f.id]) = {}
             THEN Refuse(c, FrameOf("decline", f.id, 0)) /\ UNCHANGED handler
             ELSE /\ handler' = [handler EXCEPT ![c].at = "book", ![c].id = f.id]
                  /\ UNCHANGED toClient
       /\ UNCHANGED <<relay, conns, pending, open, client, breaks>>

(* Then, under the lock, it is recorded, unless it is known or one too many. *)
Book(c) ==
    LET t == handler[c].id
        known == relay[t].state # "none"
        full == Cardinality(TransfersOf(Peer(c))) >= MaxOpen
        carried == ~known /\ ~full
    IN /\ handler[c].at = "book"
       /\ handler' = [handler EXCEPT ![c].at = "read", ![c].id = None]
       /\ IF carried THEN relay' = [relay EXCEPT ![t].state = "offered"]
                     ELSE UNCHANGED relay
       /\ pending' = [pending EXCEPT ![c] =
                         IF carried THEN <<To(Target[t], FrameOf("offer", t, 0))>> ELSE <<>>]
       /\ IF ~known /\ full THEN Refuse(c, FrameOf("decline", t, 0)) ELSE UNCHANGED toClient
       /\ UNCHANGED <<conns, open, toServer, client, breaks>>

(* The frames that are dropped: unknown, not theirs to send, too late.      *)
Pass(c, t, new, frames) ==
    /\ relay' = [relay EXCEPT ![t] = new]
    /\ pending' = [pending EXCEPT ![c] = frames]
    /\ UNCHANGED <<conns, handler, open, toClient, client, breaks>>

OnAccept(c) ==
    LET t == Head(toServer[c]).id
    IN /\ Takes(c, "accept")
       /\ IF Target[t] = Peer(c) /\ relay[t].state = "offered"
             THEN Pass(c, t, [relay[t] EXCEPT !.state = "running"],
                       <<To(From(t), FrameOf("accept", t, 0))>>)
             ELSE Pass(c, t, relay[t], <<>>)

OnDecline(c) ==
    LET t == Head(toServer[c]).id
        other == IF From(t) = Peer(c) THEN Target[t] ELSE From(t)
    IN /\ Takes(c, "decline")
       /\ IF relay[t].state # "none" /\ Peer(c) \in {From(t), Target[t]}
             THEN Pass(c, t, NoRelay, <<To(other, FrameOf("decline", t, 0))>>)
             ELSE Pass(c, t, relay[t], <<>>)

(* onChunk: the right sender, an accepted transfer, in order, never more    *)
(* than was offered.                                                        *)
OnChunk(c) ==
    LET f == Head(toServer[c])
        t == f.id
    IN /\ Takes(c, "chunk")
       /\ IF From(t) # Peer(c) \/ relay[t].state # "running"
             THEN Pass(c, t, relay[t], <<>>)
             ELSE IF f.n # relay[t].sent \/ relay[t].sent >= Chunks
                  THEN Pass(c, t, NoRelay, <<To(From(t), FrameOf("decline", t, 0)),
                                             To(Target[t], FrameOf("decline", t, 0))>>)
                  ELSE Pass(c, t, [relay[t] EXCEPT !.sent = @ + 1], <<To(Target[t], f)>>)

OnDone(c) ==
    LET t == Head(toServer[c]).id
    IN /\ Takes(c, "done")
       /\ IF relay[t].state # "none" /\ From(t) = Peer(c)
             THEN Pass(c, t, NoRelay, <<To(Target[t], Head(toServer[c]))>>)
             ELSE Pass(c, t, relay[t], <<>>)

(* sendTo, after the lock is released: every connection of one person.      *)
Deliver(g) ==
    LET s == Head(pending[g])
    IN /\ pending[g] # <<>>
       /\ toClient' = [c \in Conn |-> IF c \in ConnsOf(s.to) /\ open[c]
                                      THEN Append(toClient[c], s.frame) ELSE toClient[c]]
       /\ pending' = [pending EXCEPT ![g] = Tail(@)]
       /\ UNCHANGED <<relay, conns, handler, open, toServer, client, breaks>>

(* expireOffers: the offer was not answered, both ends are told.           *)
Expire(t) ==
    /\ OffersExpire /\ pending[Clock] = <<>> /\ relay[t].state = "offered"
    /\ relay' = [relay EXCEPT ![t] = NoRelay]
    /\ pending' = [pending EXCEPT ![Clock] = <<To(From(t), FrameOf("decline", t, 0)),
                                               To(Target[t], FrameOf("decline", t, 0))>>]
    /\ UNCHANGED <<conns, handler, wires, client, breaks>>

(* The read fails: first the connection is unregistered, ...               *)
HangUp(c) ==
    /\ handler[c].at = "read" /\ pending[c] = <<>> /\ ~open[c]
    /\ conns' = conns \ {c}
    /\ handler' = [handler EXCEPT ![c].at = "leave"]
    /\ toServer' = [toServer EXCEPT ![c] = <<>>]
    /\ UNCHANGED <<relay, pending, open, toClient, client, breaks>>

(* ... then everything its person was part of is ended, and the other side  *)
(* is told.                                                                 *)
FailTransfersOf(c) ==
    LET gone == TransfersOf(Peer(c))
        Other(t) == IF From(t) = Peer(c) THEN Target[t] ELSE From(t)
    IN /\ handler[c].at = "leave"
       /\ relay' = [t \in Transfer |-> IF t \in gone THEN NoRelay ELSE relay[t]]
       /\ \E order \in [1..Cardinality(gone) -> gone] :
             /\ \A t \in gone : \E i \in DOMAIN order : order[i] = t
             /\ pending' = [pending EXCEPT ![c] =
                   [i \in DOMAIN order |-> To(Other(order[i]), FrameOf("decline", order[i], 0))]]
       /\ handler' = [handler EXCEPT ![c] = Free]
       /\ UNCHANGED <<conns, wires, client, breaks>>

----------------------------------------------------------------------------
(* The client daemon: its link.                                            *)

(* A session begins: enrolled at both ends.                                *)
Enrol(d, c) ==
    /\ link[d] = None /\ reader[d].at = "down"
    /\ handler[c] = Free /\ pending[c] = <<>> /\ \A e \in Daemon : link[e] # c
    /\ handler' = [handler EXCEPT ![c].at = "read", ![c].owner = d]
    /\ conns' = conns \cup {c}
    /\ open' = [open EXCEPT ![c] = TRUE]
    /\ link' = [link EXCEPT ![d] = c]
    /\ reader' = [reader EXCEPT ![d] = Reading]
    /\ UNCHANGED <<relay, pending, toServer, toClient, row, file, disk, pusher, screen, breaks>>

(* It ends: the link is gone first, ...                                    *)
Drop(d) ==
    /\ reader[d].at = "read" /\ ~open[link[d]]
    /\ link' = [link EXCEPT ![d] = None]
    /\ toClient' = [toClient EXCEPT ![link[d]] = <<>>]
    /\ reader' = [reader EXCEPT ![d].at = "dropped"]
    /\ UNCHANGED <<server, open, toServer, row, file, disk, pusher, screen, breaks>>

(* ... then what was in flight failed.                                     *)
FailLiveTransfers(d) ==
    LET lost == {t \in Transfer : row[d][t].state \in Live}
    IN /\ reader[d].at = "dropped"
       /\ row' = [row EXCEPT ![d] = [t \in Transfer |->
                     IF t \in lost THEN [@[t] EXCEPT !.state = "failed"] ELSE @[t]]]
       /\ file' = [file EXCEPT ![d] = [t \in Transfer |-> IF t \in lost THEN None ELSE @[t]]]
       /\ reader' = [reader EXCEPT ![d].at = "down"]
       /\ UNCHANGED <<server, wires, link, disk, pusher, screen, breaks>>

(* The next frame, of this type, about this transfer.                      *)
Reads(d, type, t) ==
    LET c == link[d]
    IN /\ reader[d].at = "read" /\ toClient[c] # <<>>
       /\ Head(toClient[c]).t = type /\ Head(toClient[c]).id = t
       /\ toClient' = [toClient EXCEPT ![c] = Tail(@)]

(* onOffer: a row and nothing else, or a refusal. (AutoAcceptFiles makes   *)
(* the call of Accept itself, from a goroutine that is one more Screen.)    *)
ReadOffer(d, t) ==
    /\ Reads(d, "offer", t)
    /\ IF From(t) \in Blocked[d] \/ Active(d, From(t)) >= MaxOpen
          THEN Write(d, FrameOf("decline", t, 0)) /\ UNCHANGED row
          ELSE /\ row' = [row EXCEPT ![d][t] = [NoRow EXCEPT !.state = "incoming"]]
               /\ UNCHANGED toServer
    /\ UNCHANGED <<server, open, link, reader, file, disk, pusher, screen, breaks>>

(* onAccepted looks at the row, ...                                        *)
ReadAccept(d, t) ==
    /\ Reads(d, "accept", t)
    /\ reader' = IF row[d][t].state = "offered" /\ ~Incoming(d, t)
                    THEN [reader EXCEPT ![d].at = "start", ![d].id = t] ELSE reader
    /\ UNCHANGED <<server, open, toServer, link, row, file, disk, pusher, screen, breaks>>

(* ... and then sets it running, and pushFile going.                       *)
StartPush(d) ==
    LET t == reader[d].id
    IN /\ reader[d].at = "start"
       /\ row' = [row EXCEPT ![d][t].state = "running"]
       /\ pusher' = [pusher EXCEPT ![t] = [at |-> "look", off |-> 0]]
       /\ reader' = [reader EXCEPT ![d] = Reading]
       /\ UNCHANGED <<server, wires, link, file, disk, screen, breaks>>

(* onDeclined, in whatever state the row is; a receiver keeps nothing.      *)
ReadDecline(d, t) ==
    LET r == row[d][t]
        drop == Incoming(d, t) /\ r.path # None
    IN /\ Reads(d, "decline", t)
       /\ IF r.state = "none" THEN UNCHANGED <<row, file, disk>>
          ELSE /\ row' = [row EXCEPT ![d][t] = [r EXCEPT !.state = "declined",
                             !.path = IF drop THEN None ELSE @]]
               /\ file' = [file EXCEPT ![d][t] = None]
               /\ disk' = IF drop THEN Removed(d, r.path) ELSE disk
       /\ UNCHANGED <<server, open, toServer, link, reader, pusher, screen, breaks>>

(* onChunk: only for a running row with an open file, only the next piece,  *)
(* never more than was offered.                                             *)
ReadChunk(d, t) ==
    LET r == row[d][t]
        n == Head(toClient[link[d]]).n
        p == file[d][t]
    IN /\ Reads(d, "chunk", t)
       /\ \/ (~Incoming(d, t) \/ r.state # "running") /\ UNCHANGED <<row, file, disk>>
          \/ /\ Incoming(d, t) /\ r.state = "running"
             /\ p = None \/ n # r.got \/ r.got >= Chunks \/ FilesMayFail
             /\ Fail(d, t) /\ UNCHANGED disk
          \/ /\ Incoming(d, t) /\ r.state = "running"
             /\ p # None /\ n = r.got /\ r.got < Chunks
             /\ disk' = IF p \in DOMAIN disk[d] THEN [disk EXCEPT ![d][p] = Append(@, n)] ELSE disk
             /\ row' = [row EXCEPT ![d][t].got = @ + 1]
             /\ UNCHANGED file
       /\ UNCHANGED <<server, open, toServer, link, reader, pusher, screen, breaks>>

(* onDone: a look at the row, and the file is closed.                      *)
ReadDone(d, t) ==
    /\ Reads(d, "done", t)
    /\ IF row[d][t].state = "none" \/ ~Incoming(d, t) THEN UNCHANGED <<file, reader>>
       ELSE /\ file' = [file EXCEPT ![d][t] = None]
            /\ reader' = [reader EXCEPT ![d] = [at |-> "verify", id |-> t, path |-> row[d][t].path]]
    /\ UNCHANGED <<server, open, toServer, link, row, disk, pusher, screen, breaks>>

(* Mutant of DigestDiffers: nothing is recomputed.                         *)
NeverDiffers(d, p) == FALSE

DigestDiffers(d, p) == IF p \in DOMAIN disk[d] THEN disk[d][p] # Whole ELSE TRUE

(* If the row named a file, the digest of what is there now is compared; a   *)
(* file that does not match is deleted.                                     *)
Verify(d) ==
    LET t == reader[d].id
        p == reader[d].path
    IN /\ reader[d].at = "verify"
       /\ IF p # None /\ DigestDiffers(d, p)
             THEN Fail(d, t) /\ disk' = Removed(d, p) /\ reader' = [reader EXCEPT ![d] = Reading]
             ELSE UNCHANGED <<row, file, disk>> /\ reader' = [reader EXCEPT ![d].at = "finish"]
       /\ UNCHANGED <<server, wires, link, pusher, screen, breaks>>

(* The row is done, whatever it was in the meantime.                       *)
Finish(d) ==
    LET t == reader[d].id
    IN /\ reader[d].at = "finish"
       /\ row' = [row EXCEPT ![d][t].state = "done", ![d][t].got = Chunks]
       /\ reader' = [reader EXCEPT ![d] = Reading]
       /\ UNCHANGED <<server, wires, link, file, disk, pusher, screen, breaks>>

----------------------------------------------------------------------------
(* pushFile, a goroutine of the sender.                                    *)

(* Mutant of PushLook: one piece too many.                                 *)
PushLookOver(t) ==
    /\ pusher[t].at = "look"
    /\ pusher' = [pusher EXCEPT ![t].at = IF row[Sender[t]][t].state # "running" THEN "no"
                                          ELSE IF pusher[t].off <= Chunks THEN "chunk" ELSE "done"]
    /\ UNCHANGED <<server, wires, link, reader, row, file, disk, screen, breaks>>

(* It looks at its row before every piece, ...                             *)
PushLook(t) ==
    LET going == row[Sender[t]][t].state = "running"
    IN /\ pusher[t].at = "look"
       /\ pusher' = [pusher EXCEPT ![t].at = IF ~going THEN "no"
                                             ELSE IF pusher[t].off < Chunks THEN "chunk" ELSE "done"]
       /\ UNCHANGED <<server, wires, link, reader, row, file, disk, screen, breaks>>

(* ... and writes the piece, or fails.                                     *)
PushChunk(t) ==
    LET d == Sender[t]
        off == pusher[t].off
    IN /\ pusher[t].at = "chunk"
       /\ \/ /\ link[d] # None /\ Write(d, FrameOf("chunk", t, off))
             /\ pusher' = [pusher EXCEPT ![t] = [at |-> "look", off |-> off + 1]]
             /\ row' = [row EXCEPT ![d][t].got = off + 1]
             /\ UNCHANGED file
          \/ /\ WriteFails(d) \/ FilesMayFail
             /\ Fail(d, t) /\ UNCHANGED toServer
             /\ pusher' = [pusher EXCEPT ![t] = Quiet]
       /\ UNCHANGED <<server, open, toClient, link, reader, disk, screen, breaks>>

(* Mutant of PushDone: the last frame is left out.                         *)
PushNothing(t) ==
    /\ pusher[t].at = "done"
    /\ pusher' = [pusher EXCEPT ![t].at = "close"]
    /\ UNCHANGED <<server, wires, link, reader, row, file, disk, screen, breaks>>

(* After the last it says so, whether or not that is written, ...          *)
PushDone(t) ==
    LET d == Sender[t]
    IN /\ pusher[t].at = "done"
       /\ Write(d, FrameOf("done", t, Chunks))
       /\ pusher' = [pusher EXCEPT ![t].at = "close"]
       /\ UNCHANGED <<server, open, toClient, link, reader, row, file, disk, screen, breaks>>

(* ... and the row is done, whatever it was in the meantime.               *)
PushClose(t) ==
    /\ pusher[t].at = "close"
    /\ row' = [row EXCEPT ![Sender[t]][t].state = "done"]
    /\ pusher' = [pusher EXCEPT ![t] = Quiet]
    /\ UNCHANGED <<server, wires, link, reader, file, disk, screen, breaks>>

----------------------------------------------------------------------------
(* The calls of the front ends. Each serves one call at a time.            *)

Step(s, at) == screen' = [screen EXCEPT ![s].at = at]

(* Offer, on a daemon that is connected: a look at the table, ...          *)
Offer(s, t) ==
    LET d == ScreenOf[s]
    IN /\ screen[s].at = "idle" /\ d = Sender[t] /\ row[d][t].state = "none"
       /\ link[d] # None /\ Active(d, Target[t]) < MaxOpen
       /\ \A other \in Screen : screen[other].id # t \/ screen[other].at # "hash"
       /\ screen' = [screen EXCEPT ![s] = [Waiting EXCEPT !.at = "hash", !.id = t]]
       /\ UNCHANGED <<server, wires, link, reader, row, file, disk, pusher, breaks>>

(* ... the digest and a row, whatever the table holds by now, ...          *)
OfferPut(s) ==
    /\ screen[s].at = "hash"
    /\ row' = [row EXCEPT ![ScreenOf[s]][screen[s].id].state = "offered"]
    /\ Step(s, "offer")
    /\ UNCHANGED <<server, wires, link, reader, file, disk, pusher, breaks>>

(* A frame that cannot be written fails a transfer, but for a refusal.      *)
Tell(s, at, type) ==
    LET d == ScreenOf[s]
        t == screen[s].id
    IN /\ screen[s].at = at
       /\ \/ link[d] # None /\ Write(d, FrameOf(type, t, 0)) /\ UNCHANGED <<row, file>>
          \/ WriteFails(d) /\ UNCHANGED toServer
             /\ IF type = "decline" THEN UNCHANGED <<row, file>> ELSE Fail(d, t)
       /\ screen' = [screen EXCEPT ![s] = Waiting]
       /\ UNCHANGED <<server, open, toClient, link, reader, disk, pusher, breaks>>

(* ... and the frame.                                                      *)
OfferTell(s) == Tell(s, "offer", "offer")

(* A front end shows a row that waits for an answer, and calls with what    *)
(* its person chose.                                                        *)
Choose(s, t) ==
    LET state == row[ScreenOf[s]][t].state
    IN /\ screen[s].at = "idle"
       /\ \E call \in {"accept", "decline"} :
             /\ state = "incoming" \/ (call = "decline" /\ state = "offered")
             /\ screen' = [screen EXCEPT ![s] = [Waiting EXCEPT !.at = call, !.id = t]]
       /\ UNCHANGED <<server, wires, link, reader, row, file, disk, pusher, breaks>>

(* Accept: a look at the row, ...                                          *)
AcceptLook(s) ==
    /\ screen[s].at = "accept"
    /\ IF row[ScreenOf[s]][screen[s].id].state = "incoming" THEN Step(s, "create")
       ELSE screen' = [screen EXCEPT ![s] = Waiting]
    /\ UNCHANGED <<server, wires, link, reader, row, file, disk, pusher, breaks>>

(* Mutant of AcceptCreate: the first name, though there may be a file.     *)
AcceptCreateOver(s) ==
    LET d == ScreenOf[s]
    IN /\ screen[s].at = "create"
       /\ disk' = [disk EXCEPT ![d] = [q \in DOMAIN @ \cup {1} |-> IF q = 1 THEN <<>> ELSE @[q]]]
       /\ file' = [file EXCEPT ![d][screen[s].id] = 1]
       /\ screen' = [screen EXCEPT ![s].at = "run", ![s].path = 1]
       /\ UNCHANGED <<server, wires, link, reader, row, pusher, breaks>>

(* ... a file under a fresh name, ...                                      *)
AcceptCreate(s) ==
    LET d == ScreenOf[s]
    IN /\ screen[s].at = "create"
       /\ \E p \in Path \ DOMAIN disk[d] :
             /\ \A q \in Path \ DOMAIN disk[d] : p <= q
             /\ disk' = [disk EXCEPT ![d] = [q \in DOMAIN @ \cup {p} |->
                                                IF q = p THEN <<>> ELSE @[q]]]
             /\ file' = [file EXCEPT ![d][screen[s].id] = p]
             /\ screen' = [screen EXCEPT ![s].at = "run", ![s].path = p]
       /\ UNCHANGED <<server, wires, link, reader, row, pusher, breaks>>

(* ... the row set running, whatever it is by now, ...                     *)
AcceptRun(s) ==
    /\ screen[s].at = "run"
    /\ row' = [row EXCEPT ![ScreenOf[s]][screen[s].id] =
                  [state |-> "running", path |-> screen[s].path, got |-> 0]]
    /\ Step(s, "answer")
    /\ UNCHANGED <<server, wires, link, reader, file, disk, pusher, breaks>>

(* ... and the answer.                                                     *)
AcceptTell(s) == Tell(s, "answer", "accept")

(* Decline, in whatever state the row is; a receiver keeps nothing.         *)
Decline(s) ==
    LET d == ScreenOf[s]
        t == screen[s].id
        r == row[d][t]
        drop == Incoming(d, t) /\ r.path # None
    IN /\ screen[s].at = "decline"
       /\ row' = [row EXCEPT ![d][t] = [r EXCEPT !.state = "cancelled",
                                                 !.path = IF drop THEN None ELSE @]]
       /\ file' = [file EXCEPT ![d][t] = None]
       /\ disk' = IF drop THEN Removed(d, r.path) ELSE disk
       /\ Step(s, "refuse")
       /\ UNCHANGED <<server, wires, link, reader, pusher, breaks>>

DeclineTell(s) == Tell(s, "refuse", "decline")

----------------------------------------------------------------------------
Break(c) ==
    /\ breaks < MaxBreaks /\ open[c] /\ handler[c].owner \in Faulty
    /\ breaks' = breaks + 1
    /\ open' = [open EXCEPT ![c] = FALSE]
    /\ UNCHANGED <<server, toServer, toClient, client>>

Relaying(c) ==
    \/ OnOffer(c) \/ Book(c) \/ OnAccept(c) \/ OnDecline(c) \/ OnChunk(c) \/ OnDone(c)
    \/ Deliver(c) \/ HangUp(c) \/ FailTransfersOf(c)

Linked(d) ==
    \/ Drop(d) \/ FailLiveTransfers(d) \/ StartPush(d) \/ Verify(d) \/ Finish(d)
    \/ \E t \in Transfer : \/ ReadOffer(d, t) \/ ReadAccept(d, t) \/ ReadDecline(d, t)
                           \/ ReadChunk(d, t) \/ ReadDone(d, t)

Pushing(t) == PushLook(t) \/ PushChunk(t) \/ PushDone(t) \/ PushClose(t)

Calling(s) ==
    \/ OfferPut(s) \/ OfferTell(s) \/ AcceptLook(s) \/ AcceptCreate(s) \/ AcceptRun(s) \/ AcceptTell(s)
    \/ Decline(s) \/ DeclineTell(s)

Next ==
    \/ \E c \in Conn : Relaying(c) \/ Break(c)
    \/ Deliver(Clock) \/ \E t \in Transfer : Expire(t) \/ Pushing(t)
    \/ \E d \in Daemon : Linked(d) \/ \E c \in Conn : Enrol(d, c)
    \/ \E s \in Screen : Calling(s) \/ \E t \in Transfer : Offer(s, t) \/ Choose(s, t)

Spec == Init /\ [][Next]_vars

(* Goroutines run, the ticker of the housekeeper ticks. Nobody has to offer *)
(* or to answer an offer, and a link need not come back.                    *)
Fairness ==
    /\ \A c \in Conn : WF_vars(Relaying(c))
    /\ WF_vars(Deliver(Clock)) /\ \A t \in Transfer : WF_vars(Expire(t)) /\ WF_vars(Pushing(t))
    /\ \A d \in Daemon : WF_vars(Linked(d))
    /\ \A s \in Screen : WF_vars(Calling(s))

FairSpec == Spec /\ Fairness

----------------------------------------------------------------------------
(* Properties.                                                             *)

States == Live \cup Ended \cup {"none"}

(* Every variable has its type: among others, neither the server, nor a row,*)
(* nor a pusher ever counts more pieces than the file has (onChunk of       *)
(* chatserver and of chatclientd, pushFile).                                *)
TypeOK ==
    /\ relay \in [Transfer -> [state : {"none", "offered", "running"}, sent : 0..Chunks]]
    /\ conns \subseteq Conn
    /\ handler \in [Conn -> [at : {"free", "read", "book", "leave"},
                             owner : Daemon \cup {None}, id : Transfer \cup {None}]]
    /\ pending \in [Conn \cup {Clock} -> Seq([to : Person, frame : Frame])]
    /\ open \in [Conn -> BOOLEAN]
    /\ toServer \in [Conn -> Seq(Frame)] /\ toClient \in [Conn -> Seq(Frame)]
    /\ link \in [Daemon -> Conn \cup {None}]
    /\ reader \in [Daemon -> [at : {"down", "read", "start", "verify", "finish", "dropped"},
                              id : Transfer \cup {None}, path : Path \cup {None}]]
    /\ row \in [Daemon -> [Transfer -> [state : States, path : Path \cup {None}, got : 0..Chunks]]]
    /\ file \in [Daemon -> [Transfer -> Path \cup {None}]]
    /\ \A d \in Daemon : DOMAIN disk[d] \subseteq Path /\ \A p \in DOMAIN disk[d] : disk[d][p] \in Seq(Nat)
    /\ pusher \in [Transfer -> [at : {"no", "look", "chunk", "done", "close"}, off : 0..Chunks]]
    /\ screen \in [Screen -> [at : {"idle", "hash", "offer", "accept", "create", "run", "answer",
                                    "decline", "refuse"},
                              id : Transfer \cup {None}, path : Path \cup {None}]]
    /\ breaks \in Nat

(* "The SHA-256 is recomputed on arrival and a file that does not match is  *)
(* deleted" (docs/protocol.md): a received file that a row calls done is    *)
(* whole, however the link came and went while it was under way.            *)
SavedIsWhole ==
    \A d \in Daemon, t \in Transfer :
        LET r == row[d][t]
        IN (r.state = "done" /\ r.path \in DOMAIN disk[d]) => disk[d][r.path] = Whole

(* "Both ends have to be connected" (chatserver/relay.go): while the server *)
(* carries a running transfer, each end has a connection, or had one whose  *)
(* clean-up, still to come, will end the transfer.                          *)
RunningHasBothEnds ==
    \A t \in Transfer, p \in Person :
        (relay[t].state = "running" /\ p \in {From(t), Target[t]}) =>
            \E c \in Conn : handler[c].at # "free" /\ Peer(c) = p

(* "The server keeps nothing": what it carries, it carries for a while. An  *)
(* offer is answered or expires, a running transfer is pushed to its end or *)
(* fails.                                                                   *)
EveryRelayEnds == \A t \in Transfer : relay[t].state # "none" ~> relay[t].state = "none"

(* On links that hold, a transfer the server saw accepted arrives whole,    *)
(* unless one of its ends says no while it is under way, which the receiver *)
(* is told (pushFile, onChunk and onDone of chatclientd, onChunk and onDone *)
(* of chatserver).                                                          *)
Arrived(d, t) ==
    LET r == row[d][t]
    IN Incoming(d, t) /\ r.state = "done" /\ r.path \in DOMAIN disk[d] /\ disk[d][r.path] = Whole

AcceptedArrives ==
    \A t \in Transfer :
        relay[t].state = "running" ~>
            \/ breaks > 0
            \/ \E d \in Daemon : Arrived(d, t) \/ row[d][t].state \in {"cancelled", "declined"}

(* One front end at a daemon at a time, and one daemon of a person: nobody  *)
(* answers an offer twice.                                                  *)
OneFrontEnd == \A r, s \in Screen : ScreenOf[r] = ScreenOf[s] => r = s
OneDaemon == \A d, e \in Daemon : Identity[d] = Identity[e] => d = e

(* What has arrived stays: no other file of the directory is written over   *)
(* it, no late refusal, piece or lost link deletes it or takes it back      *)
(* (Accept, Decline, onChunk and onDone of chatclientd, chat.UniquePath).   *)
SavedStays ==
    [][\A d \in Daemon, t \in Transfer : Arrived(d, t) => Arrived(d, t)']_vars

=============================================================================
