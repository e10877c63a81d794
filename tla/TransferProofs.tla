--------------------------- MODULE TransferProofs ---------------------------
(***************************************************************************)
(* Of Transfer: types, that a transfer the server carries has both its     *)
(* ends, and that what has arrived is whole and stays so, for any daemons, *)
(* persons, transfers, front ends and connections, any sizes and limits,   *)
(* and whatever breaks, fails or expires. What is said of saved files takes *)
(* one front end at a daemon and one daemon of a person.                   *)
(***************************************************************************)
EXTENDS Transfer, FiniteSetTheorems, TLAPS

Parcel == [to : Person, frame : Frame]
Relayed == [state : {"none", "offered", "running"}, sent : 0 .. Chunks]
Goroutine == [at : {"free", "read", "book", "leave"}, owner : Daemon \cup {None},
              id : Transfer \cup {None}]
Row == [state : States, path : Path \cup {None}, got : 0 .. Chunks]
Reader == [at : {"down", "read", "start", "verify", "finish", "dropped"},
           id : Transfer \cup {None}, path : Path \cup {None}]
Pusher == [at : {"no", "look", "chunk", "done", "close"}, off : 0 .. Chunks]
Call == [at : {"idle", "hash", "offer", "accept", "create", "run", "answer", "decline", "refuse"},
         id : Transfer \cup {None}, path : Path \cup {None}]

(* What the server carries. Transfers may be without end: what is carried  *)
(* at a time is not, so that a clean-up can name all of it.                *)
Carried == {t \in Transfer : relay[t].state # "none"}

RelayOK == relay \in [Transfer -> Relayed] /\ IsFiniteSet(Carried)

(* A goroutine serves a daemon, and books a transfer.                      *)
HandlerOK ==
    /\ conns \subseteq Conn /\ handler \in [Conn -> Goroutine]
    /\ \A c \in Conn : /\ handler[c].at # "free" => handler[c].owner \in Daemon
                       /\ handler[c].at = "book" => handler[c].id \in Transfer

FramesOK ==
    /\ pending \in [Conn \cup {Clock} -> Seq(Parcel)]
    /\ toServer \in [Conn -> Seq(Frame)] /\ toClient \in [Conn -> Seq(Frame)]

(* A goroutine that reads has what it reads from, and what it does after a *)
(* frame is about a transfer.                                              *)
LinksOK ==
    /\ open \in [Conn -> BOOLEAN] /\ breaks \in Nat
    /\ link \in [Daemon -> Conn \cup {None}] /\ reader \in [Daemon -> Reader]
    /\ \A d \in Daemon :
          /\ reader[d].at \notin {"down", "dropped"} => link[d] \in Conn
          /\ reader[d].at \in {"start", "verify", "finish"} => reader[d].id \in Transfer

RowsOK == row \in [Daemon -> [Transfer -> Row]]
FilesOK == file \in [Daemon -> [Transfer -> Path \cup {None}]]

DisksOK ==
    /\ disk = [d \in Daemon |-> disk[d]]
    /\ \A d \in Daemon : /\ DOMAIN disk[d] \subseteq Path
                         /\ \A p \in DOMAIN disk[d] : disk[d][p] \in Seq(Nat)

PushingOK ==
    /\ pusher \in [Transfer -> Pusher]
    /\ \A t \in Transfer : pusher[t].at = "chunk" => pusher[t].off < Chunks

(* A call is about a transfer, an offer about one of the caller's own.     *)
CallsOK ==
    /\ screen \in [Screen -> Call]
    /\ \A s \in Screen :
          /\ screen[s].at # "idle" => screen[s].id \in Transfer
          /\ screen[s].at \in {"hash", "offer"} => ScreenOf[s] = Sender[screen[s].id]

Typed == RelayOK /\ HandlerOK /\ FramesOK /\ LinksOK /\ RowsOK /\ FilesOK /\ DisksOK
         /\ PushingOK /\ CallsOK

(* A socket that is open is served, by a goroutine that knows whose it is. *)
Served ==
    /\ \A c \in Conn : open[c] => handler[c].at \in {"read", "book"}
    /\ \A d \in Daemon : link[d] \in Conn /\ open[link[d]] => handler[link[d]].owner = d

(* What has not been taken was sent by the one who is served, and the      *)
(* offers among it are the sender's own.                                   *)
OffersAreOwn ==
    \A c \in Conn :
        /\ handler[c].at \notin {"read", "book"} => toServer[c] = <<>>
        /\ \A i \in 1 .. Len(toServer[c]) :
               toServer[c][i].t = "offer" => From(toServer[c][i].id) = Peer(c)
        /\ handler[c].at = "book" => From(handler[c].id) = Peer(c)

HasEnd(p) == \E c \in Conn : handler[c].at # "free" /\ Peer(c) = p

(* What the server carries has a sender, and a receiver if it is running.  *)
CarriedHasEnds ==
    \A t \in Transfer :
        /\ relay[t].state # "none" => HasEnd(From(t))
        /\ relay[t].state = "running" => HasEnd(Target[t])

IInv == Typed /\ Served /\ OffersAreOwn /\ CarriedHasEnds

----------------------------------------------------------------------------
(* The constants, one by one.                                              *)
LEMMA Bounds ==
  /\ Chunks \in Nat /\ MaxBreaks \in Nat /\ Clock \notin Conn
  /\ \A d \in Daemon : Identity[d] \in Person
  /\ \A t \in Transfer : From(t) \in Person /\ Target[t] \in Person
  BY ConstantsAssumption DEF From

(* What each kind of step leaves alone.                                    *)
LEMMA ServerLeaves ==
  /\ \A c \in Conn : Relaying(c) => UNCHANGED <<open, client, breaks>>
  /\ Deliver(Clock) => UNCHANGED <<relay, conns, handler, open, toServer, client, breaks>>
  /\ \A t \in Transfer : Expire(t) => UNCHANGED <<conns, handler, wires, client, breaks>>
  <1>1. ASSUME NEW c \in Conn, Relaying(c) PROVE UNCHANGED <<open, client, breaks>>
      <2>1. ASSUME Takes(c, "offer") /\ OnOffer(c) PROVE UNCHANGED <<open, client, breaks>>
          BY <2>1, Zenon DEF OnOffer
      <2>2. OnOffer(c) => UNCHANGED <<open, client, breaks>>
          BY <2>1, Zenon DEF OnOffer
      <2>3. OnAccept(c) \/ OnDecline(c) \/ OnChunk(c) \/ OnDone(c) => UNCHANGED <<open, client, breaks>>
          BY Zenon DEF OnAccept, OnDecline, OnChunk, OnDone, Pass
      <2>4. Book(c) \/ Deliver(c) \/ HangUp(c) \/ FailTransfersOf(c)
                => UNCHANGED <<open, client, breaks>>
          BY Zenon DEF Book, Deliver, HangUp, FailTransfersOf, wires
      <2> QED
          BY <1>1, <2>2, <2>3, <2>4, Zenon DEF Relaying
  <1> QED
      BY <1>1, Zenon DEF Deliver, Expire

(* What the steps of each part leave alone.                                *)
LEMMA ClientLeaves ==
  /\ \A d \in Daemon : Linked(d) => UNCHANGED <<server, open, screen, breaks>>
  /\ \A t \in Transfer :
        Pushing(t) => UNCHANGED <<server, open, toClient, link, reader, disk, screen, breaks>>
  /\ \A s \in Screen : Calling(s) => UNCHANGED <<server, open, toClient, link, reader, pusher, breaks>>
  /\ \A s \in Screen, t \in Transfer :
        Offer(s, t) \/ Choose(s, t)
            => UNCHANGED <<server, wires, link, reader, row, file, disk, pusher, breaks>>
  /\ \A d \in Daemon, c \in Conn :
        Enrol(d, c) => UNCHANGED <<relay, pending, toServer, toClient, row, file, disk, pusher, screen, breaks>>
  /\ \A c \in Conn : Break(c) => UNCHANGED <<server, toServer, toClient, client>>
  <1>1. ASSUME NEW d \in Daemon, Linked(d) PROVE UNCHANGED <<server, open, screen, breaks>>
      BY <1>1, Zenon DEF Linked, Drop, FailLiveTransfers, StartPush, Verify, Finish, ReadOffer,
         ReadAccept, ReadDecline, ReadChunk, ReadDone, wires
  <1>2. ASSUME NEW t \in Transfer, Pushing(t)
        PROVE  UNCHANGED <<server, open, toClient, link, reader, disk, screen, breaks>>
      BY <1>2, Zenon DEF Pushing, PushLook, PushChunk, PushDone, PushClose, wires
  <1>3. ASSUME NEW s \in Screen, Calling(s)
        PROVE  UNCHANGED <<server, open, toClient, link, reader, pusher, breaks>>
      BY <1>3, Zenon DEF Calling, OfferPut, OfferTell, AcceptLook, AcceptCreate, AcceptRun, AcceptTell,
         Decline, DeclineTell, Tell, wires
  <1> QED
      BY <1>1, <1>2, <1>3, Zenon DEF Offer, Choose, Enrol, Break

----------------------------------------------------------------------------
(* The server's steps.                                                     *)

(* The record of one transfer changes.                                     *)
LEMMA RelayChanges ==
  ASSUME RelayOK, NEW t \in Transfer, NEW new \in Relayed, relay' = [relay EXCEPT ![t] = new]
  PROVE  RelayOK'
  <1>1. relay' \in [Transfer -> Relayed] /\ Carried' \in SUBSET (Carried \cup {t})
      BY DEF RelayOK, Carried
  <1>2. IsFiniteSet(Carried \cup {t})
      BY FS_AddElement DEF RelayOK
  <1> QED
      BY <1>1, <1>2, FS_Subset DEF RelayOK

(* Frames and parcels are well formed.                                     *)
LEMMA FrameTyped ==
  ASSUME NEW type \in {"offer", "accept", "decline", "chunk", "done"}, NEW t \in Transfer, NEW n \in Nat
  PROVE  FrameOf(type, t, n) \in Frame
  BY DEF FrameOf, Frame

LEMMA ParcelTyped ==
  ASSUME NEW p \in Person, NEW f \in Frame
  PROVE  To(p, f) \in Parcel
  BY DEF To, Parcel

(* What is taken, and what is left of it.                                  *)
LEMMA Taken ==
  ASSUME FramesOK, NEW c \in Conn, NEW type, Takes(c, type)
  PROVE  /\ handler[c].at = "read" /\ toServer[c] \in Seq(Frame) /\ toServer[c] # <<>>
         /\ Head(toServer[c]) \in Frame /\ Head(toServer[c]).t = type
         /\ Head(toServer[c]).id \in Transfer
         /\ toServer' = [toServer EXCEPT ![c] = Tail(@)]
         /\ toServer' \in [Conn -> Seq(Frame)]
  <1>1. /\ handler[c].at = "read" /\ toServer[c] \in Seq(Frame) /\ toServer[c] # <<>>
        /\ Head(toServer[c]).t = type /\ toServer' = [toServer EXCEPT ![c] = Tail(@)]
      BY DEF Takes, FramesOK
  <1>2. Head(toServer[c]) \in Frame /\ Tail(toServer[c]) \in Seq(Frame)
      BY <1>1
  <1> QED
      BY <1>1, <1>2 DEF FramesOK, Frame

(* A refusal is one more frame to a client, or none.                       *)
LEMMA Refused ==
  ASSUME FramesOK, NEW c \in Conn, NEW f \in Frame, Refuse(c, f)
  PROVE  toClient' \in [Conn -> Seq(Frame)]
  BY DEF FramesOK, Refuse

(* What a frame changes of a transfer: what was not carried is not carried *)
(* after it, and what runs after it ran before, or was offered to the one  *)
(* who accepts it.                                                         *)
Allowed(c, t, new) ==
    /\ new.state # "none" => relay[t].state # "none"
    /\ new.state = "running" => relay[t].state = "running" \/ Target[t] = Peer(c)

(* The four handlers that pass a frame on change one record.               *)
LEMMA Passed ==
  ASSUME RelayOK, FramesOK, NEW c \in Conn,
         OnAccept(c) \/ OnDecline(c) \/ OnChunk(c) \/ OnDone(c)
  PROVE  /\ \E type : Takes(c, type)
         /\ \E t \in Transfer, new \in Relayed, frames \in Seq(Parcel) :
                Pass(c, t, new, frames) /\ Allowed(c, t, new)
  <1> DEFINE t == Head(toServer[c]).id
  <1> DEFINE f == Head(toServer[c])
  <1>1. \E type : Takes(c, type)
      BY Zenon DEF OnAccept, OnDecline, OnChunk, OnDone
  <1>2. t \in Transfer /\ f \in Frame
      BY <1>1, Taken
  <1> HIDE DEF t, f
  <1>3. /\ relay[t] \in Relayed /\ NoRelay \in Relayed
        /\ [relay[t] EXCEPT !.state = "running"] \in Relayed
        /\ relay[t].sent < Chunks => [relay[t] EXCEPT !.sent = @ + 1] \in Relayed
      BY <1>2, Bounds DEF RelayOK, Relayed, NoRelay
  <1>4. \A p \in Person : /\ To(p, FrameOf("decline", t, 0)) \in Parcel
                          /\ To(p, FrameOf("accept", t, 0)) \in Parcel
                          /\ To(p, f) \in Parcel
      BY <1>2, FrameTyped, ParcelTyped
  <1>5. /\ <<>> \in Seq(Parcel)
        /\ \A x, y \in Parcel : <<x>> \in Seq(Parcel) /\ <<x, y>> \in Seq(Parcel)
      OBVIOUS
  <1>6. From(t) \in Person /\ Target[t] \in Person
      BY <1>2, Bounds
  <1>7. NoRelay.state = "none"
      BY DEF NoRelay
  <1> DEFINE Result == \E u \in Transfer, new \in Relayed, frames \in Seq(Parcel) :
                           Pass(c, u, new, frames) /\ Allowed(c, u, new)
  <1>8. Pass(c, t, relay[t], <<>>) => Result
      BY <1>2, <1>3, <1>5 DEF Allowed
  <1>r. ASSUME NEW new \in Relayed, NEW frames \in Seq(Parcel), Pass(c, t, new, frames), Allowed(c, t, new)
        PROVE  Result
      BY <1>2, <1>r
  <1> HIDE DEF Result
  <1>9. ASSUME OnAccept(c) PROVE Result
      <2> DEFINE new == [relay[t] EXCEPT !.state = "running"]
      <2>1. \/ Pass(c, t, relay[t], <<>>)
            \/ /\ Target[t] = Peer(c) /\ relay[t].state = "offered"
               /\ Pass(c, t, new, <<To(From(t), FrameOf("accept", t, 0))>>)
          BY <1>9, Zenon DEF OnAccept, t
      <2>2. Target[t] = Peer(c) /\ relay[t].state = "offered" => Allowed(c, t, new)
          BY DEF Allowed
      <2>3. new \in Relayed /\ <<To(From(t), FrameOf("accept", t, 0))>> \in Seq(Parcel)
          BY <1>3, <1>4, <1>5, <1>6
      <2> QED
          BY <1>8, <1>r, <2>1, <2>2, <2>3
  <1>10. ASSUME OnDecline(c) PROVE Result
      <2> DEFINE other == IF From(t) = Peer(c) THEN Target[t] ELSE From(t)
      <2>1. \/ Pass(c, t, relay[t], <<>>)
            \/ Pass(c, t, NoRelay, <<To(other, FrameOf("decline", t, 0))>>)
          BY <1>10, Zenon DEF OnDecline, t
      <2>2. other \in Person
          BY <1>6
      <2>3. <<To(other, FrameOf("decline", t, 0))>> \in Seq(Parcel)
          BY <1>4, <1>5, <2>2
      <2>4. Allowed(c, t, NoRelay)
          BY <1>7 DEF Allowed
      <2> QED
          BY <1>3, <1>8, <1>r, <2>1, <2>3, <2>4
  <1>11. ASSUME OnChunk(c) PROVE Result
      <2> DEFINE new == [relay[t] EXCEPT !.sent = @ + 1]
      <2> DEFINE both == <<To(From(t), FrameOf("decline", t, 0)), To(Target[t], FrameOf("decline", t, 0))>>
      <2>1. \/ Pass(c, t, relay[t], <<>>)
            \/ Pass(c, t, NoRelay, both)
            \/ ~(relay[t].sent >= Chunks) /\ Pass(c, t, new, <<To(Target[t], f)>>)
          BY <1>11, Zenon DEF OnChunk, t, f
      <2>2. both \in Seq(Parcel) /\ <<To(Target[t], f)>> \in Seq(Parcel)
          BY <1>4, <1>5, <1>6
      <2>3. Allowed(c, t, NoRelay)
          BY <1>7 DEF Allowed
      <2>4. ~(relay[t].sent >= Chunks) => new \in Relayed
          BY <1>3, Bounds DEF Relayed
      <2>5. Allowed(c, t, new)
          BY <1>3 DEF Allowed, Relayed
      <2> QED
          BY <1>3, <1>8, <1>r, <2>1, <2>2, <2>3, <2>4, <2>5
  <1>12. ASSUME OnDone(c) PROVE Result
      <2>1. \/ Pass(c, t, relay[t], <<>>)
            \/ Pass(c, t, NoRelay, <<To(Target[t], f)>>)
          BY <1>12, Zenon DEF OnDone, t, f
      <2>2. <<To(Target[t], f)>> \in Seq(Parcel)
          BY <1>4, <1>5, <1>6
      <2>3. Allowed(c, t, NoRelay)
          BY <1>7 DEF Allowed
      <2> QED
          BY <1>3, <1>8, <1>r, <2>1, <2>2, <2>3
  <1> QED
      BY <1>1, <1>9, <1>10, <1>11, <1>12 DEF Result

(* The table of the server: what an offer books, what frames change, and   *)
(* what a clock or a clean-up takes out.                                   *)
LEMMA RelayStep ==
  ASSUME RelayOK, HandlerOK, FramesOK, [Next]_vars
  PROVE  RelayOK'
  <1>a. ASSUME UNCHANGED relay PROVE RelayOK'
      BY <1>a DEF RelayOK, Carried
  <1>b. NoRelay \in Relayed
      BY Bounds DEF NoRelay, Relayed
  <1>1. ASSUME NEW c \in Conn, OnOffer(c) \/ Deliver(c) \/ HangUp(c) PROVE RelayOK'
      BY <1>1, <1>a DEF OnOffer, Deliver, HangUp
  <1>2. ASSUME NEW c \in Conn, OnAccept(c) \/ OnDecline(c) \/ OnChunk(c) \/ OnDone(c) PROVE RelayOK'
      BY <1>2, Passed, RelayChanges DEF Pass
  <1>3. ASSUME NEW c \in Conn, Book(c) PROVE RelayOK'
      <2> DEFINE t == handler[c].id
      <2>1. t \in Transfer
          BY <1>3 DEF Book, HandlerOK
      <2>2. [relay[t] EXCEPT !.state = "offered"] \in Relayed
          BY <2>1 DEF RelayOK, Relayed
      <2>3. \/ UNCHANGED relay
            \/ relay' = [relay EXCEPT ![t] = [relay[t] EXCEPT !.state = "offered"]]
          BY <1>3, <2>1 DEF Book, RelayOK
      <2> QED
          BY <1>a, <2>1, <2>2, <2>3, RelayChanges
  <1>4. ASSUME NEW c \in Conn, FailTransfersOf(c) PROVE RelayOK'
      <2>1. relay' = [t \in Transfer |-> IF t \in TransfersOf(Peer(c)) THEN NoRelay ELSE relay[t]]
          BY <1>4 DEF FailTransfersOf
      <2>2. relay' \in [Transfer -> Relayed] /\ Carried' \in SUBSET Carried
          BY <1>b, <2>1 DEF RelayOK, Carried, NoRelay
      <2> QED
          BY <2>2, FS_Subset DEF RelayOK
  <1>5. ASSUME NEW t \in Transfer, Expire(t) PROVE RelayOK'
      BY <1>5, <1>b, RelayChanges DEF Expire
  <1>6. CASE Deliver(Clock)
      BY <1>6, <1>a DEF Deliver
  <1>7. ASSUME NEW c \in Conn, Break(c) PROVE RelayOK'
      BY <1>7, <1>a, ClientLeaves DEF server
  <1>8. ASSUME NEW t \in Transfer, Pushing(t) PROVE RelayOK'
      BY <1>8, <1>a, ClientLeaves DEF server
  <1>9. ASSUME NEW d \in Daemon, Linked(d) \/ \E c \in Conn : Enrol(d, c) PROVE RelayOK'
      BY <1>9, <1>a, ClientLeaves DEF server
  <1>10. ASSUME NEW s \in Screen, Calling(s) \/ \E t \in Transfer : Offer(s, t) \/ Choose(s, t)
         PROVE  RelayOK'
      BY <1>10, <1>a, ClientLeaves DEF server
  <1>11. CASE UNCHANGED vars
      BY <1>11, <1>a DEF vars, server
  <1> QED
      BY <1>1, <1>2, <1>3, <1>4, <1>5, <1>6, <1>7, <1>8, <1>9, <1>10, <1>11 DEF Next, Relaying

(* The goroutines of the connections.                                      *)
LEMMA HandlerStep ==
  ASSUME RelayOK, HandlerOK, FramesOK, [Next]_vars
  PROVE  HandlerOK'
  <1>a. ASSUME UNCHANGED <<conns, handler>> PROVE HandlerOK'
      BY <1>a DEF HandlerOK
  <1>b. \A c \in Conn : handler[c] \in Goroutine
      BY DEF HandlerOK
  <1>1. ASSUME NEW c \in Conn, OnOffer(c) PROVE HandlerOK'
      <2> DEFINE t == Head(toServer[c]).id
      <2>1. Takes(c, "offer")
          BY <1>1, Zenon DEF OnOffer
      <2>2. t \in Transfer /\ handler[c].at = "read"
          BY <2>1, Taken
      <2>3. \/ UNCHANGED handler
            \/ handler' = [handler EXCEPT ![c].at = "book", ![c].id = t]
          BY <1>1, Zenon DEF OnOffer
      <2>4. UNCHANGED conns
          BY <1>1 DEF OnOffer
      <2> HIDE DEF t
      <2> QED
          BY <1>a, <1>b, <2>2, <2>3, <2>4 DEF HandlerOK, Goroutine
  <1>2. ASSUME NEW c \in Conn, OnAccept(c) \/ OnDecline(c) \/ OnChunk(c) \/ OnDone(c) PROVE HandlerOK'
      BY <1>2, <1>a, Passed DEF Pass
  <1>3. ASSUME NEW c \in Conn, Book(c) PROVE HandlerOK'
      <2>1. handler' = [handler EXCEPT ![c].at = "read", ![c].id = None] /\ UNCHANGED conns
            /\ handler[c].at = "book"
          BY <1>3, Zenon DEF Book
      <2> QED
          BY <1>b, <2>1 DEF HandlerOK, Goroutine
  <1>4. ASSUME NEW c \in Conn, Deliver(c) PROVE HandlerOK'
      BY <1>4, <1>a DEF Deliver
  <1>5. ASSUME NEW c \in Conn, HangUp(c) PROVE HandlerOK'
      BY <1>5, <1>b DEF HangUp, HandlerOK, Goroutine
  <1>6. ASSUME NEW c \in Conn, FailTransfersOf(c) PROVE HandlerOK'
      <2>1. handler' = [handler EXCEPT ![c] = Free] /\ UNCHANGED conns
          BY <1>6, Zenon DEF FailTransfersOf
      <2>2. Free \in Goroutine /\ Free.at = "free"
          BY DEF Free, Goroutine
      <2> QED
          BY <2>1, <2>2 DEF HandlerOK
  <1>7. ASSUME NEW d \in Daemon, NEW c \in Conn, Enrol(d, c) PROVE HandlerOK'
      <2>1. /\ handler' = [handler EXCEPT ![c].at = "read", ![c].owner = d]
            /\ conns' = conns \cup {c} /\ handler[c] = Free
          BY <1>7, Zenon DEF Enrol
      <2> QED
          BY <1>b, <2>1 DEF HandlerOK, Goroutine, Free
  <1>8. ASSUME NEW t \in Transfer, Expire(t) \/ Pushing(t) PROVE HandlerOK'
      BY <1>8, <1>a, ServerLeaves, ClientLeaves DEF server
  <1>9. CASE Deliver(Clock)
      BY <1>9, <1>a DEF Deliver
  <1>10. ASSUME NEW c \in Conn, Break(c) PROVE HandlerOK'
      BY <1>10, <1>a, ClientLeaves DEF server
  <1>11. ASSUME NEW d \in Daemon, Linked(d) PROVE HandlerOK'
      BY <1>11, <1>a, ClientLeaves DEF server
  <1>12. ASSUME NEW s \in Screen, Calling(s) \/ \E t \in Transfer : Offer(s, t) \/ Choose(s, t)
         PROVE  HandlerOK'
      BY <1>12, <1>a, ClientLeaves DEF server
  <1>13. CASE UNCHANGED vars
      BY <1>13, <1>a DEF vars, server
  <1> QED
      BY <1>1, <1>2, <1>3, <1>4, <1>5, <1>6, <1>7, <1>8, <1>9, <1>10, <1>11, <1>12, <1>13
      DEF Next, Relaying

(* What a client writes.                                                   *)
LEMMA Written ==
  ASSUME FramesOK, NEW d \in Daemon, NEW f \in Frame, Write(d, f)
  PROVE  toServer' \in [Conn -> Seq(Frame)]
  BY DEF FramesOK, Write

(* A daemon whose goroutine reads takes the next frame.                    *)
LEMMA ReadFrame ==
  ASSUME FramesOK, LinksOK, NEW d \in Daemon, NEW type, NEW t, Reads(d, type, t)
  PROVE  /\ reader[d].at = "read" /\ link[d] \in Conn
         /\ toClient' \in [Conn -> Seq(Frame)] /\ Head(toClient[link[d]]).n \in Nat
  <1>1. reader[d].at = "read" /\ link[d] \in Conn
      BY DEF Reads, LinksOK
  <1>2. toClient[link[d]] \in Seq(Frame) /\ toClient[link[d]] # <<>>
      BY <1>1 DEF Reads, FramesOK
  <1>3. Head(toClient[link[d]]) \in Frame /\ Tail(toClient[link[d]]) \in Seq(Frame)
      BY <1>2
  <1> QED
      BY <1>1, <1>3 DEF Reads, FramesOK, Frame

(* The order in which a clean-up tells the other sides.                    *)
LEMMA CleanUpTyped ==
  ASSUME RelayOK, NEW c \in Conn, FailTransfersOf(c)
  PROVE  \E frames \in Seq(Parcel) : pending' = [pending EXCEPT ![c] = frames]
  <1> DEFINE gone == TransfersOf(Peer(c))
  <1> DEFINE Other(t) == IF From(t) = Peer(c) THEN Target[t] ELSE From(t)
  <1>1. PICK order \in [1 .. Cardinality(gone) -> gone] :
            pending' = [pending EXCEPT ![c] =
                [i \in DOMAIN order |-> To(Other(order[i]), FrameOf("decline", order[i], 0))]]
      BY Zenon DEF FailTransfersOf
  <1>2. gone \in SUBSET Carried
      BY DEF TransfersOf, Carried
  <1>3. IsFiniteSet(gone)
      BY <1>2, FS_Subset DEF RelayOK
  <1>4. Cardinality(gone) \in Nat
      BY <1>3, FS_CardinalityType
  <1>5. \A t \in gone : To(Other(t), FrameOf("decline", t, 0)) \in Parcel
      <2>1. \A t \in gone : t \in Transfer
          BY DEF TransfersOf
      <2> QED
          BY <2>1, Bounds, FrameTyped, ParcelTyped
  <1> DEFINE frames == [i \in DOMAIN order |-> To(Other(order[i]), FrameOf("decline", order[i], 0))]
  <1>6. frames \in [1 .. Cardinality(gone) -> Parcel]
      <2> HIDE DEF gone, Other
      <2> QED
          BY <1>5
  <1>7. frames \in Seq(Parcel)
      <2> HIDE DEF gone, frames
      <2> QED
          BY <1>4, <1>6
  <1> QED
      BY <1>1, <1>7

(* What is on the way, and what a goroutine has still to send.             *)
LEMMA FramesStep ==
  ASSUME RelayOK, HandlerOK, FramesOK, LinksOK, PushingOK, CallsOK, [Next]_vars
  PROVE  FramesOK'
  <1> USE Bounds
  <1>a. ASSUME UNCHANGED <<pending, toServer, toClient>> PROVE FramesOK'
      BY <1>a DEF FramesOK
  <1>b. ASSUME NEW d \in Daemon, NEW f \in Frame, Write(d, f), UNCHANGED <<pending, toClient>>
        PROVE  FramesOK'
      BY <1>b, Written DEF FramesOK
  <1>c. ASSUME NEW g \in Conn \cup {Clock}, Deliver(g) PROVE FramesOK'
      <2>1. pending[g] \in Seq(Parcel) /\ pending[g] # <<>>
          BY <1>c DEF Deliver, FramesOK
      <2>2. Head(pending[g]) \in Parcel /\ Tail(pending[g]) \in Seq(Parcel)
          BY <2>1
      <2>3. Head(pending[g]).frame \in Frame
          BY <2>2 DEF Parcel
      <2>4. toClient' \in [Conn -> Seq(Frame)]
          <3>1. toClient' = [c \in Conn |-> IF c \in ConnsOf(Head(pending[g]).to) /\ open[c]
                                            THEN Append(toClient[c], Head(pending[g]).frame)
                                            ELSE toClient[c]]
              BY <1>c, Zenon DEF Deliver
          <3> QED
              BY <2>3, <3>1 DEF FramesOK
      <2> QED
          BY <1>c, <2>2, <2>4 DEF Deliver, FramesOK
  <1>1. ASSUME NEW c \in Conn, OnOffer(c) PROVE FramesOK'
      <2>1. Takes(c, "offer")
          BY <1>1, Zenon DEF OnOffer
      <2>2. FrameOf("decline", Head(toServer[c]).id, 0) \in Frame
          BY <2>1, Taken, FrameTyped
      <2>3. UNCHANGED toClient \/ Refuse(c, FrameOf("decline", Head(toServer[c]).id, 0))
          BY <1>1, Zenon DEF OnOffer
      <2>4. UNCHANGED pending
          BY <1>1, Zenon DEF OnOffer
      <2> QED
          BY <2>1, <2>2, <2>3, <2>4, Taken, Refused DEF FramesOK
  <1>2. ASSUME NEW c \in Conn, OnAccept(c) \/ OnDecline(c) \/ OnChunk(c) \/ OnDone(c) PROVE FramesOK'
      <2>1. toServer' \in [Conn -> Seq(Frame)]
          BY <1>2, Passed, Taken
      <2>2. \E frames \in Seq(Parcel) : pending' = [pending EXCEPT ![c] = frames]
          BY <1>2, Passed DEF Pass
      <2>3. UNCHANGED toClient
          BY <1>2, Passed DEF Pass
      <2> QED
          BY <2>1, <2>2, <2>3 DEF FramesOK
  <1>3. ASSUME NEW c \in Conn, Book(c) PROVE FramesOK'
      <2> DEFINE t == handler[c].id
      <2>1. t \in Transfer
          BY <1>3 DEF Book, HandlerOK
      <2>2. FrameOf("decline", t, 0) \in Frame /\ To(Target[t], FrameOf("offer", t, 0)) \in Parcel
          BY <2>1, FrameTyped, ParcelTyped
      <2>3. \/ pending' = [pending EXCEPT ![c] = <<To(Target[t], FrameOf("offer", t, 0))>>]
            \/ pending' = [pending EXCEPT ![c] = <<>>]
          BY <1>3 DEF Book
      <2>4. pending' \in [Conn \cup {Clock} -> Seq(Parcel)]
          <3>1. /\ <<To(Target[t], FrameOf("offer", t, 0))>> \in Seq(Parcel)
                /\ <<>> \in Seq(Parcel)
              BY <2>2
          <3> HIDE DEF t
          <3> QED
              BY <2>3, <3>1 DEF FramesOK
      <2>5. UNCHANGED toClient \/ Refuse(c, FrameOf("decline", t, 0))
          BY <1>3, Zenon DEF Book
      <2>6. UNCHANGED toServer
          BY <1>3, Zenon DEF Book
      <2> QED
          BY <2>2, <2>4, <2>5, <2>6, Refused DEF FramesOK
  <1>4. ASSUME NEW c \in Conn, Deliver(c) PROVE FramesOK'
      BY <1>4, <1>c
  <1>5. ASSUME NEW c \in Conn, HangUp(c) PROVE FramesOK'
      <2>1. <<>> \in Seq(Frame)
          OBVIOUS
      <2> QED
          BY <1>5, <2>1 DEF HangUp, FramesOK
  <1>6. ASSUME NEW c \in Conn, FailTransfersOf(c) PROVE FramesOK'
      <2>1. UNCHANGED <<toServer, toClient>>
          BY <1>6, Zenon DEF FailTransfersOf, wires
      <2> QED
          BY <1>6, <2>1, CleanUpTyped DEF FramesOK
  <1>7. CASE Deliver(Clock)
      BY <1>7, <1>c
  <1>8. ASSUME NEW t \in Transfer, Expire(t) PROVE FramesOK'
      <2>1. /\ To(From(t), FrameOf("decline", t, 0)) \in Parcel
            /\ To(Target[t], FrameOf("decline", t, 0)) \in Parcel
          BY FrameTyped, ParcelTyped
      <2>2. /\ pending' = [pending EXCEPT ![Clock] = <<To(From(t), FrameOf("decline", t, 0)),
                                                       To(Target[t], FrameOf("decline", t, 0))>>]
            /\ UNCHANGED <<toServer, toClient>>
          BY <1>8, Zenon DEF Expire, wires
      <2>3. \A x, y \in Parcel : <<x, y>> \in Seq(Parcel)
          OBVIOUS
      <2> QED
          BY <2>1, <2>2, <2>3 DEF FramesOK
  <1>9. ASSUME NEW t \in Transfer, Pushing(t) PROVE FramesOK'
      <2>1. UNCHANGED <<pending, toClient>>
          BY <1>9, ClientLeaves DEF server
      <2>2. CASE UNCHANGED toServer
          BY <1>a, <2>1, <2>2
      <2>3. CASE PushChunk(t) /\ ~UNCHANGED toServer
          <3>1. Write(Sender[t], FrameOf("chunk", t, pusher[t].off))
              BY <2>3, Zenon DEF PushChunk
          <3>2. pusher[t].off \in Nat /\ Sender[t] \in Daemon
              BY ConstantsAssumption DEF PushingOK, Pusher
          <3>3. FrameOf("chunk", t, pusher[t].off) \in Frame
              BY <3>2, FrameTyped
          <3> QED
              BY <1>b, <2>1, <3>1, <3>2, <3>3
      <2>4. CASE PushDone(t)
          <3>1. Write(Sender[t], FrameOf("done", t, Chunks))
              BY <2>4, Zenon DEF PushDone
          <3>2. FrameOf("done", t, Chunks) \in Frame /\ Sender[t] \in Daemon
              BY FrameTyped, ConstantsAssumption
          <3> QED
              BY <1>b, <2>1, <3>1, <3>2
      <2> QED
          BY <1>9, <2>2, <2>3, <2>4, Zenon DEF Pushing, PushLook, PushClose, wires
  <1>10. ASSUME NEW d \in Daemon, NEW t \in Transfer,
                \/ ReadOffer(d, t) \/ ReadAccept(d, t) \/ ReadDecline(d, t) \/ ReadChunk(d, t)
                \/ ReadDone(d, t)
         PROVE  FramesOK'
      <2>1. \E type : Reads(d, type, t)
          BY <1>10, Zenon DEF ReadOffer, ReadAccept, ReadDecline, ReadChunk, ReadDone
      <2>2. UNCHANGED toServer \/ Write(d, FrameOf("decline", t, 0))
          BY <1>10, Zenon DEF ReadOffer, ReadAccept, ReadDecline, ReadChunk, ReadDone
      <2>3. UNCHANGED pending
          BY <1>10, Zenon DEF ReadOffer, ReadAccept, ReadDecline, ReadChunk, ReadDone, server
      <2>4. FrameOf("decline", t, 0) \in Frame
          BY FrameTyped
      <2> QED
          BY <2>1, <2>2, <2>3, <2>4, ReadFrame, Written DEF FramesOK
  <1>11. ASSUME NEW d \in Daemon, Drop(d) PROVE FramesOK'
      <2>1. <<>> \in Seq(Frame)
          OBVIOUS
      <2>2. toClient' = [toClient EXCEPT ![link[d]] = <<>>] /\ UNCHANGED <<pending, toServer>>
          BY <1>11, Zenon DEF Drop, server
      <2> QED
          BY <2>1, <2>2 DEF FramesOK
  <1>12. ASSUME NEW d \in Daemon, FailLiveTransfers(d) \/ StartPush(d) \/ Verify(d) \/ Finish(d)
         PROVE  FramesOK'
      BY <1>12, <1>a, Zenon DEF FailLiveTransfers, StartPush, Verify, Finish, server, wires
  <1>13. ASSUME NEW d \in Daemon, NEW c \in Conn, Enrol(d, c) PROVE FramesOK'
      BY <1>13, <1>a, ClientLeaves
  <1>14. ASSUME NEW c \in Conn, Break(c) PROVE FramesOK'
      BY <1>14, <1>a, ClientLeaves DEF server
  <1>15. ASSUME NEW s \in Screen, Calling(s) PROVE FramesOK'
      <2>1. UNCHANGED <<pending, toClient>>
          BY <1>15, ClientLeaves DEF server
      <2>2. ASSUME NEW at \in {"offer", "answer", "refuse"}, NEW type \in {"offer", "accept", "decline"},
                   Tell(s, at, type)
            PROVE  FramesOK'
          <3>1. screen[s].id \in Transfer /\ ScreenOf[s] \in Daemon
              BY <2>2, ConstantsAssumption DEF Tell, CallsOK
          <3>2. FrameOf(type, screen[s].id, 0) \in Frame
              BY <3>1, FrameTyped
          <3>3. UNCHANGED toServer \/ Write(ScreenOf[s], FrameOf(type, screen[s].id, 0))
              BY <2>2, Zenon DEF Tell
          <3> QED
              BY <1>a, <1>b, <2>1, <3>1, <3>2, <3>3
      <2>3. CASE OfferPut(s) \/ AcceptLook(s) \/ AcceptCreate(s) \/ AcceptRun(s) \/ Decline(s)
          <3>1. UNCHANGED toServer
              BY <2>3, Zenon DEF OfferPut, AcceptLook, AcceptCreate, AcceptRun, Decline, wires
          <3> QED
              BY <1>a, <2>1, <3>1
      <2> QED
          BY <1>15, <2>2, <2>3 DEF Calling, OfferTell, AcceptTell, DeclineTell
  <1>16. ASSUME NEW s \in Screen, NEW t \in Transfer, Offer(s, t) \/ Choose(s, t) PROVE FramesOK'
      BY <1>16, <1>a, ClientLeaves DEF server, wires
  <1>17. CASE UNCHANGED vars
      BY <1>17, <1>a DEF vars, server, wires
  <1> QED
      BY <1>1, <1>2, <1>3, <1>4, <1>5, <1>6, <1>7, <1>8, <1>9, <1>10, <1>11, <1>12, <1>13, <1>14,
         <1>15, <1>16, <1>17
      DEF Next, Relaying, Linked

(* The links of the daemons, and who reads them.                           *)
LEMMA LinksStep ==
  ASSUME LinksOK, RowsOK, FramesOK, [Next]_vars
  PROVE  LinksOK'
  <1> USE Bounds
  <1>a. ASSUME UNCHANGED <<open, breaks, link, reader>> PROVE LinksOK'
      BY <1>a DEF LinksOK
  <1>r. \A d \in Daemon : reader[d] \in Reader
      BY DEF LinksOK
  <1>b. ASSUME NEW d \in Daemon, NEW r \in Reader, UNCHANGED <<open, breaks, link>>,
               reader' = [reader EXCEPT ![d] = r],
               r.at \notin {"down", "dropped"} => link[d] \in Conn,
               r.at \in {"start", "verify", "finish"} => r.id \in Transfer
        PROVE  LinksOK'
      BY <1>b DEF LinksOK
  <1>n. Reading \in Reader /\ Reading.at = "read"
      BY DEF Reading, Reader
  <1>1. ASSUME NEW c \in Conn, Relaying(c) PROVE LinksOK'
      BY <1>1, <1>a, ServerLeaves DEF client
  <1>2. ASSUME NEW c \in Conn, Break(c) PROVE LinksOK'
      <2>1. /\ breaks' = breaks + 1 /\ open' = [open EXCEPT ![c] = FALSE]
            /\ UNCHANGED <<link, reader>>
          BY <1>2, Zenon DEF Break, client
      <2> QED
          BY <2>1 DEF LinksOK
  <1>3. CASE Deliver(Clock)
      BY <1>3, <1>a, ServerLeaves DEF client
  <1>4. ASSUME NEW t \in Transfer, Expire(t) \/ Pushing(t) PROVE LinksOK'
      BY <1>4, <1>a, ServerLeaves, ClientLeaves DEF client, wires
  <1>5. ASSUME NEW d \in Daemon, Drop(d) PROVE LinksOK'
      BY <1>5, <1>r DEF Drop, LinksOK, Reader
  <1>6. ASSUME NEW d \in Daemon, FailLiveTransfers(d) PROVE LinksOK'
      BY <1>6, <1>r DEF FailLiveTransfers, LinksOK, Reader, wires
  <1>7. ASSUME NEW d \in Daemon, StartPush(d) \/ Finish(d) PROVE LinksOK'
      <2>1. /\ reader' = [reader EXCEPT ![d] = Reading] /\ UNCHANGED <<open, breaks, link>>
            /\ reader[d].at \in {"start", "finish"}
          BY <1>7, Zenon DEF StartPush, Finish, wires
      <2>2. link[d] \in Conn
          BY <2>1 DEF LinksOK
      <2> QED
          BY <1>b, <1>n, <2>1, <2>2
  <1>8. ASSUME NEW d \in Daemon, Verify(d) PROVE LinksOK'
      <2>1. /\ \/ reader' = [reader EXCEPT ![d] = Reading]
               \/ reader' = [reader EXCEPT ![d].at = "finish"]
            /\ UNCHANGED <<open, breaks, link>> /\ reader[d].at = "verify"
          BY <1>8, Zenon DEF Verify, wires
      <2>2. link[d] \in Conn /\ reader[d].id \in Transfer
          BY <2>1 DEF LinksOK
      <2>3. [reader[d] EXCEPT !.at = "finish"] \in Reader
          BY <1>r DEF Reader
      <2>4. CASE reader' = [reader EXCEPT ![d] = Reading]
          BY <1>b, <1>n, <2>1, <2>2, <2>4
      <2>5. CASE reader' = [reader EXCEPT ![d].at = "finish"]
          BY <1>r, <2>1, <2>2, <2>5 DEF LinksOK, Reader
      <2> QED
          BY <2>1, <2>4, <2>5
  <1>9. ASSUME NEW d \in Daemon, NEW t \in Transfer,
               ReadOffer(d, t) \/ ReadDecline(d, t) \/ ReadChunk(d, t)
        PROVE  LinksOK'
      <2>1. UNCHANGED <<open, breaks, link, reader>>
          BY <1>9, Zenon DEF ReadOffer, ReadDecline, ReadChunk
      <2> QED
          BY <1>a, <2>1
  <1>10. ASSUME NEW d \in Daemon, NEW t \in Transfer, ReadAccept(d, t) PROVE LinksOK'
      <2>1. /\ reader' = reader \/ reader' = [reader EXCEPT ![d].at = "start", ![d].id = t]
            /\ UNCHANGED <<open, breaks, link>> /\ reader[d].at = "read"
          BY <1>10, Zenon DEF ReadAccept, Reads
      <2>2. link[d] \in Conn
          BY <2>1 DEF LinksOK
      <2> QED
          BY <1>a, <1>r, <2>1, <2>2 DEF LinksOK, Reader
  <1>11. ASSUME NEW d \in Daemon, NEW t \in Transfer, ReadDone(d, t) PROVE LinksOK'
      <2> DEFINE r == [at |-> "verify", id |-> t, path |-> row[d][t].path]
      <2>1. /\ reader' = reader \/ reader' = [reader EXCEPT ![d] = r]
            /\ UNCHANGED <<open, breaks, link>> /\ reader[d].at = "read"
          BY <1>11, Zenon DEF ReadDone, Reads
      <2>4. row[d][t].path \in Path \cup {None}
          BY DEF RowsOK, Row
      <2>2. link[d] \in Conn /\ r \in Reader
          BY <2>1, <2>4 DEF LinksOK, Reader
      <2>3. r.at = "verify" /\ r.id = t
          OBVIOUS
      <2> HIDE DEF r
      <2> QED
          BY <1>a, <1>b, <2>1, <2>2, <2>3
  <1>12. ASSUME NEW d \in Daemon, NEW c \in Conn, Enrol(d, c) PROVE LinksOK'
      BY <1>12, <1>n DEF Enrol, LinksOK
  <1>13. ASSUME NEW s \in Screen, Calling(s) PROVE LinksOK'
      BY <1>13, <1>a, ClientLeaves
  <1>14. ASSUME NEW s \in Screen, NEW t \in Transfer, Offer(s, t) \/ Choose(s, t) PROVE LinksOK'
      BY <1>14, <1>a, ClientLeaves DEF wires
  <1>15. CASE UNCHANGED vars
      BY <1>15, <1>a DEF vars, wires, client
  <1> QED
      BY <1>1, <1>2, <1>3, <1>4, <1>5, <1>6, <1>7, <1>8, <1>9, <1>10, <1>11, <1>12, <1>13, <1>14,
         <1>15
      DEF Next, Linked

(* The tables of the daemons.                                              *)
LEMMA RowStep ==
  ASSUME RowsOK, FramesOK, LinksOK, PushingOK, CallsOK, [Next]_vars
  PROVE  RowsOK'
  <1> USE Bounds
  <1>a. ASSUME UNCHANGED row PROVE RowsOK'
      BY <1>a DEF RowsOK
  <1>r. \A d \in Daemon, t \in Transfer : row[d][t] \in Row
      BY DEF RowsOK
  <1>b. ASSUME NEW d \in Daemon, NEW t \in Transfer, NEW r \in Row, row' = [row EXCEPT ![d][t] = r]
        PROVE  RowsOK'
      BY <1>b DEF RowsOK
  <1>c. ASSUME NEW d \in Daemon, NEW t \in Transfer, NEW state \in States,
               row' = [row EXCEPT ![d][t].state = state]
        PROVE  RowsOK'
      <2> DEFINE r == [row[d][t] EXCEPT !.state = state]
      <2>1. r \in Row
          BY <1>r DEF Row
      <2>2. row' = [row EXCEPT ![d][t] = r]
          BY <1>c DEF RowsOK
      <2> QED
          BY <1>b, <2>1, <2>2
  <1>d. ASSUME NEW d \in Daemon, NEW t \in Transfer, Fail(d, t) PROVE RowsOK'
      <2>1. "failed" \in States
          BY DEF States, Ended
      <2> QED
          BY <1>c, <1>d, <2>1, Zenon DEF Fail
  <1>e. ASSUME NEW d \in Daemon, NEW t \in Transfer, NEW state \in States, NEW p \in Path \cup {None},
               row' = [row EXCEPT ![d][t] = [row[d][t] EXCEPT !.state = state, !.path = p]]
        PROVE  RowsOK'
      <2>1. [row[d][t] EXCEPT !.state = state, !.path = p] \in Row
          BY <1>r DEF Row
      <2> QED
          BY <1>b, <1>e, <2>1
  <1>s. \A x \in {"offered", "incoming", "running", "done", "declined", "failed", "cancelled", "none"} :
            x \in States
      BY DEF States, Live, Ended
  <1>1. ASSUME NEW c \in Conn, Relaying(c) \/ Break(c) PROVE RowsOK'
      BY <1>1, <1>a, ServerLeaves, ClientLeaves DEF client
  <1>2. CASE Deliver(Clock)
      BY <1>2, <1>a, ServerLeaves DEF client
  <1>3. ASSUME NEW t \in Transfer, Expire(t) PROVE RowsOK'
      BY <1>3, <1>a, ServerLeaves DEF client
  <1>4. ASSUME NEW t \in Transfer, Pushing(t) PROVE RowsOK'
      <2>1. Sender[t] \in Daemon
          BY ConstantsAssumption
      <2>2. CASE PushLook(t) \/ PushDone(t)
          <3>1. UNCHANGED row
              BY <2>2, Zenon DEF PushLook, PushDone
          <3> QED
              BY <1>a, <3>1
      <2>3. CASE PushClose(t)
          BY <1>c, <1>s, <2>1, <2>3 DEF PushClose
      <2>4. CASE PushChunk(t)
          <3>1. pusher[t].at = "chunk"
              BY <2>4, Zenon DEF PushChunk
          <3>2. pusher[t].off + 1 \in 0 .. Chunks
              BY <3>1 DEF PushingOK, Pusher
          <3>3. \/ row' = [row EXCEPT ![Sender[t]][t].got = pusher[t].off + 1]
                \/ Fail(Sender[t], t)
              BY <2>4, Zenon DEF PushChunk
          <3>4. [row[Sender[t]][t] EXCEPT !.got = pusher[t].off + 1] \in Row
              BY <1>r, <2>1, <3>2 DEF Row
          <3>5. CASE row' = [row EXCEPT ![Sender[t]][t].got = pusher[t].off + 1]
              <4>1. row' = [row EXCEPT ![Sender[t]][t] =
                                [row[Sender[t]][t] EXCEPT !.got = pusher[t].off + 1]]
                  BY <2>1, <3>5 DEF RowsOK
              <4> QED
                  BY <1>b, <2>1, <3>4, <4>1
          <3> QED
              BY <1>d, <2>1, <3>3, <3>5
      <2> QED
          BY <1>4, <2>2, <2>3, <2>4 DEF Pushing
  <1>5. ASSUME NEW d \in Daemon, Drop(d) PROVE RowsOK'
      BY <1>5, <1>a DEF Drop
  <1>6. ASSUME NEW d \in Daemon, FailLiveTransfers(d) PROVE RowsOK'
      <2> DEFINE lost == {t \in Transfer : row[d][t].state \in Live}
      <2>1. row' = [row EXCEPT ![d] = [t \in Transfer |->
                       IF t \in lost THEN [row[d][t] EXCEPT !.state = "failed"] ELSE row[d][t]]]
          BY <1>6 DEF FailLiveTransfers, RowsOK
      <2>2. \A t \in Transfer : [row[d][t] EXCEPT !.state = "failed"] \in Row
          BY <1>r, <1>s DEF Row
      <2> HIDE DEF lost
      <2> QED
          BY <1>r, <2>1, <2>2 DEF RowsOK
  <1>7. ASSUME NEW d \in Daemon, StartPush(d) PROVE RowsOK'
      <2>1. row' = [row EXCEPT ![d][reader[d].id].state = "running"] /\ reader[d].at = "start"
          BY <1>7, Zenon DEF StartPush
      <2>2. reader[d].id \in Transfer
          BY <2>1 DEF LinksOK
      <2> QED
          BY <1>c, <1>s, <2>1, <2>2
  <1>8. ASSUME NEW d \in Daemon, Verify(d) PROVE RowsOK'
      <2>1. reader[d].id \in Transfer
          BY <1>8 DEF Verify, LinksOK
      <2>2. UNCHANGED row \/ Fail(d, reader[d].id)
          BY <1>8, Zenon DEF Verify
      <2> QED
          BY <1>a, <1>d, <2>1, <2>2
  <1>9. ASSUME NEW d \in Daemon, Finish(d) PROVE RowsOK'
      <2> DEFINE t == reader[d].id
      <2>1. t \in Transfer
          BY <1>9 DEF Finish, LinksOK
      <2>2. row' = [row EXCEPT ![d][t].state = "done", ![d][t].got = Chunks]
          BY <1>9, Zenon DEF Finish
      <2> HIDE DEF t
      <2>5. Chunks \in 0 .. Chunks
          BY Bounds
      <2>3. [row[d][t] EXCEPT !.state = "done", !.got = Chunks] \in Row
          BY <1>r, <1>s, <2>1, <2>5 DEF Row
      <2>4. row' = [row EXCEPT ![d][t] = [row[d][t] EXCEPT !.state = "done", !.got = Chunks]]
          BY <2>1, <2>2 DEF RowsOK
      <2> QED
          BY <1>b, <2>1, <2>3, <2>4
  <1>10. ASSUME NEW d \in Daemon, NEW t \in Transfer, ReadOffer(d, t) PROVE RowsOK'
      <2>1. UNCHANGED row \/ row' = [row EXCEPT ![d][t] = [NoRow EXCEPT !.state = "incoming"]]
          BY <1>10, Zenon DEF ReadOffer
      <2>2. [NoRow EXCEPT !.state = "incoming"] \in Row
          BY <1>s DEF NoRow, Row
      <2> QED
          BY <1>a, <1>b, <2>1, <2>2
  <1>11. ASSUME NEW d \in Daemon, NEW t \in Transfer, ReadAccept(d, t) \/ ReadDone(d, t) PROVE RowsOK'
      <2>1. UNCHANGED row
          BY <1>11, Zenon DEF ReadAccept, ReadDone
      <2> QED
          BY <1>a, <2>1
  <1>12. ASSUME NEW d \in Daemon, NEW t \in Transfer, ReadDecline(d, t) PROVE RowsOK'
      <2> DEFINE p == IF Incoming(d, t) /\ row[d][t].path # None THEN None ELSE row[d][t].path
      <2>1. UNCHANGED row \/ row' = [row EXCEPT ![d][t] = [row[d][t] EXCEPT !.state = "declined", !.path = p]]
          BY <1>12 DEF ReadDecline
      <2>2. p \in Path \cup {None}
          BY <1>r DEF Row
      <2> HIDE DEF p
      <2> QED
          BY <1>a, <1>e, <1>s, <2>1, <2>2
  <1>13. ASSUME NEW d \in Daemon, NEW t \in Transfer, ReadChunk(d, t) PROVE RowsOK'
      <2>1. \/ UNCHANGED row
            \/ Fail(d, t)
            \/ row' = [row EXCEPT ![d][t].got = @ + 1] /\ row[d][t].got < Chunks
          BY <1>13, Zenon DEF ReadChunk
      <2>2. CASE row' = [row EXCEPT ![d][t].got = @ + 1] /\ row[d][t].got < Chunks
          <3>1. [row[d][t] EXCEPT !.got = @ + 1] \in Row
              BY <1>r, <2>2 DEF Row
          <3>2. row' = [row EXCEPT ![d][t] = [row[d][t] EXCEPT !.got = @ + 1]]
              BY <2>2 DEF RowsOK
          <3> QED
              BY <1>b, <3>1, <3>2
      <2> QED
          BY <1>a, <1>d, <2>1, <2>2
  <1>14. ASSUME NEW d \in Daemon, NEW c \in Conn, Enrol(d, c) PROVE RowsOK'
      BY <1>14, <1>a, ClientLeaves
  <1>15. ASSUME NEW s \in Screen, Calling(s) PROVE RowsOK'
      <2> DEFINE d == ScreenOf[s]
      <2> DEFINE t == screen[s].id
      <2>1. d \in Daemon /\ (screen[s].at # "idle" => t \in Transfer)
          BY ConstantsAssumption DEF CallsOK
      <2>2. CASE OfferPut(s)
          <3>1. row' = [row EXCEPT ![d][t].state = "offered"] /\ screen[s].at = "hash"
              BY <2>2, Zenon DEF OfferPut
          <3> HIDE DEF d, t
          <3> QED
              BY <1>c, <1>s, <2>1, <3>1
      <2>3. CASE AcceptLook(s) \/ AcceptCreate(s)
          <3>1. UNCHANGED row
              BY <2>3, Zenon DEF AcceptLook, AcceptCreate
          <3> QED
              BY <1>a, <3>1
      <2>4. CASE AcceptRun(s)
          <3>1. /\ row' = [row EXCEPT ![d][t] = [state |-> "running", path |-> screen[s].path, got |-> 0]]
                /\ screen[s].at = "run"
              BY <2>4, Zenon DEF AcceptRun
          <3>2. [state |-> "running", path |-> screen[s].path, got |-> 0] \in Row
              <4>1. screen[s].path \in Path \cup {None}
                  BY DEF CallsOK, Call
              <4> QED
                  BY <1>s, <4>1 DEF Row
          <3> HIDE DEF d, t
          <3> QED
              BY <1>b, <2>1, <3>1, <3>2
      <2>5. CASE Decline(s)
          <3> DEFINE p == IF Incoming(d, t) /\ row[d][t].path # None THEN None ELSE row[d][t].path
          <3>1. /\ row' = [row EXCEPT ![d][t] = [row[d][t] EXCEPT !.state = "cancelled", !.path = p]]
                /\ screen[s].at = "decline"
              BY <2>5 DEF Decline
          <3> HIDE DEF d, t
          <3>2. p \in Path \cup {None}
              BY <1>r, <2>1, <3>1 DEF Row
          <3> HIDE DEF p
          <3> QED
              BY <1>e, <1>s, <2>1, <3>1, <3>2
      <2>6. ASSUME NEW at \in {"offer", "answer", "refuse"}, NEW type, Tell(s, at, type) PROVE RowsOK'
          <3>1. screen[s].at = at /\ (UNCHANGED row \/ Fail(d, t))
              BY <2>6, Zenon DEF Tell
          <3> HIDE DEF d, t
          <3> QED
              BY <1>a, <1>d, <2>1, <2>6, <3>1
      <2> QED
          BY <1>15, <2>2, <2>3, <2>4, <2>5, <2>6 DEF Calling, OfferTell, AcceptTell, DeclineTell
  <1>16. ASSUME NEW s \in Screen, NEW t \in Transfer, Offer(s, t) \/ Choose(s, t) PROVE RowsOK'
      BY <1>16, <1>a, ClientLeaves
  <1>17. CASE UNCHANGED vars
      BY <1>17, <1>a DEF vars, client
  <1> QED
      BY <1>1, <1>2, <1>3, <1>4, <1>5, <1>6, <1>7, <1>8, <1>9, <1>10, <1>11, <1>12, <1>13, <1>14,
         <1>15, <1>16, <1>17
      DEF Next, Linked

(* An open file has a path of the directory.                               *)
LEMMA FilesStep ==
  ASSUME FilesOK, LinksOK, CallsOK, [Next]_vars
  PROVE  FilesOK'
  <1>a. ASSUME UNCHANGED file PROVE FilesOK'
      BY <1>a DEF FilesOK
  <1>b. ASSUME NEW d \in Daemon, NEW t \in Transfer, NEW p \in Path \cup {None},
               file' = [file EXCEPT ![d][t] = p]
        PROVE  FilesOK'
      BY <1>b DEF FilesOK
  <1>d. ASSUME NEW d \in Daemon, NEW t \in Transfer, Fail(d, t) PROVE FilesOK'
      BY <1>b, <1>d, Zenon DEF Fail
  <1>1. ASSUME NEW c \in Conn, Relaying(c) \/ Break(c) PROVE FilesOK'
      BY <1>1, <1>a, ServerLeaves, ClientLeaves DEF client
  <1>2. CASE Deliver(Clock)
      BY <1>2, <1>a, ServerLeaves DEF client
  <1>3. ASSUME NEW t \in Transfer, Expire(t) PROVE FilesOK'
      BY <1>3, <1>a, ServerLeaves DEF client
  <1>4. ASSUME NEW t \in Transfer, Pushing(t) PROVE FilesOK'
      <2>1. Sender[t] \in Daemon
          BY ConstantsAssumption
      <2>2. UNCHANGED file \/ Fail(Sender[t], t)
          BY <1>4, Zenon DEF Pushing, PushLook, PushChunk, PushDone, PushClose
      <2> QED
          BY <1>a, <1>d, <2>1, <2>2
  <1>5. ASSUME NEW d \in Daemon, Drop(d) \/ StartPush(d) \/ Finish(d) PROVE FilesOK'
      <2>1. UNCHANGED file
          BY <1>5, Zenon DEF Drop, StartPush, Finish
      <2> QED
          BY <1>a, <2>1
  <1>6. ASSUME NEW d \in Daemon, FailLiveTransfers(d) PROVE FilesOK'
      <2> DEFINE lost == {t \in Transfer : row[d][t].state \in Live}
      <2>1. file' = [file EXCEPT ![d] = [t \in Transfer |-> IF t \in lost THEN None ELSE file[d][t]]]
          BY <1>6 DEF FailLiveTransfers, FilesOK
      <2> HIDE DEF lost
      <2> QED
          BY <2>1 DEF FilesOK
  <1>7. ASSUME NEW d \in Daemon, Verify(d) PROVE FilesOK'
      <2>1. reader[d].id \in Transfer
          BY <1>7 DEF Verify, LinksOK
      <2>2. UNCHANGED file \/ Fail(d, reader[d].id)
          BY <1>7, Zenon DEF Verify
      <2> QED
          BY <1>a, <1>d, <2>1, <2>2
  <1>8. ASSUME NEW d \in Daemon, NEW t \in Transfer,
               \/ ReadOffer(d, t) \/ ReadAccept(d, t) \/ ReadDecline(d, t) \/ ReadChunk(d, t)
               \/ ReadDone(d, t)
        PROVE  FilesOK'
      <2>1. UNCHANGED file \/ Fail(d, t) \/ file' = [file EXCEPT ![d][t] = None]
          BY <1>8, Zenon DEF ReadOffer, ReadAccept, ReadDecline, ReadChunk, ReadDone
      <2> QED
          BY <1>a, <1>b, <1>d, <2>1
  <1>9. ASSUME NEW d \in Daemon, NEW c \in Conn, Enrol(d, c) PROVE FilesOK'
      BY <1>9, <1>a, ClientLeaves
  <1>10. ASSUME NEW s \in Screen, Calling(s) PROVE FilesOK'
      <2> DEFINE d == ScreenOf[s]
      <2> DEFINE t == screen[s].id
      <2>1. d \in Daemon /\ (screen[s].at # "idle" => t \in Transfer)
          BY ConstantsAssumption DEF CallsOK
      <2>2. CASE OfferPut(s) \/ AcceptLook(s) \/ AcceptRun(s)
          <3>1. UNCHANGED file
              BY <2>2, Zenon DEF OfferPut, AcceptLook, AcceptRun
          <3> QED
              BY <1>a, <3>1
      <2>3. CASE AcceptCreate(s)
          <3>1. PICK p \in Path : screen[s].at = "create" /\ file' = [file EXCEPT ![d][t] = p]
              BY <2>3, Zenon DEF AcceptCreate
          <3> HIDE DEF d, t
          <3> QED
              BY <1>b, <2>1, <3>1
      <2>4. CASE Decline(s)
          <3>1. screen[s].at = "decline" /\ file' = [file EXCEPT ![d][t] = None]
              BY <2>4, Zenon DEF Decline
          <3> HIDE DEF d, t
          <3> QED
              BY <1>b, <2>1, <3>1
      <2>5. ASSUME NEW at \in {"offer", "answer", "refuse"}, NEW type, Tell(s, at, type) PROVE FilesOK'
          <3>1. screen[s].at = at /\ (UNCHANGED file \/ Fail(d, t))
              BY <2>5, Zenon DEF Tell
          <3> HIDE DEF d, t
          <3> QED
              BY <1>a, <1>d, <2>1, <2>5, <3>1
      <2> QED
          BY <1>10, <2>2, <2>3, <2>4, <2>5 DEF Calling, OfferTell, AcceptTell, DeclineTell
  <1>11. ASSUME NEW s \in Screen, NEW t \in Transfer, Offer(s, t) \/ Choose(s, t) PROVE FilesOK'
      BY <1>11, <1>a, ClientLeaves
  <1>12. CASE UNCHANGED vars
      BY <1>12, <1>a DEF vars, client
  <1> QED
      BY <1>1, <1>2, <1>3, <1>4, <1>5, <1>6, <1>7, <1>8, <1>9, <1>10, <1>11, <1>12 DEF Next, Linked

(* What a directory holds is pieces under paths.                           *)
LEMMA DisksStep ==
  ASSUME DisksOK, FilesOK, FramesOK, LinksOK, [Next]_vars
  PROVE  DisksOK'
  <1>a. ASSUME UNCHANGED disk PROVE DisksOK'
      BY <1>a DEF DisksOK
  <1>b. ASSUME NEW d \in Daemon, NEW content, disk' = [disk EXCEPT ![d] = content],
               DOMAIN content \subseteq Path, \A p \in DOMAIN content : content[p] \in Seq(Nat)
        PROVE  DisksOK'
      BY <1>b DEF DisksOK
  <1>c. ASSUME NEW d \in Daemon, NEW p, disk' = Removed(d, p) PROVE DisksOK'
      <2> DEFINE content == [q \in DOMAIN disk[d] \ {p} |-> disk[d][q]]
      <2>1. DOMAIN content \subseteq Path /\ \A q \in DOMAIN content : content[q] \in Seq(Nat)
          BY DEF DisksOK
      <2>2. disk' = [disk EXCEPT ![d] = content]
          BY <1>c DEF Removed
      <2> HIDE DEF content
      <2> QED
          BY <1>b, <2>1, <2>2
  <1>1. ASSUME NEW c \in Conn, Relaying(c) \/ Break(c) PROVE DisksOK'
      BY <1>1, <1>a, ServerLeaves, ClientLeaves DEF client
  <1>2. CASE Deliver(Clock)
      BY <1>2, <1>a, ServerLeaves DEF client
  <1>3. ASSUME NEW t \in Transfer, Expire(t) \/ Pushing(t) PROVE DisksOK'
      BY <1>3, <1>a, ServerLeaves, ClientLeaves DEF client
  <1>4. ASSUME NEW d \in Daemon, Drop(d) \/ FailLiveTransfers(d) \/ StartPush(d) \/ Finish(d)
        PROVE  DisksOK'
      <2>1. UNCHANGED disk
          BY <1>4, Zenon DEF Drop, FailLiveTransfers, StartPush, Finish
      <2> QED
          BY <1>a, <2>1
  <1>5. ASSUME NEW d \in Daemon, Verify(d) PROVE DisksOK'
      BY <1>5, <1>a, <1>c, Zenon DEF Verify
  <1>6. ASSUME NEW d \in Daemon, NEW t \in Transfer, ReadOffer(d, t) \/ ReadAccept(d, t) \/ ReadDone(d, t)
        PROVE  DisksOK'
      <2>1. UNCHANGED disk
          BY <1>6, Zenon DEF ReadOffer, ReadAccept, ReadDone
      <2> QED
          BY <1>a, <2>1
  <1>7. ASSUME NEW d \in Daemon, NEW t \in Transfer, ReadDecline(d, t) PROVE DisksOK'
      BY <1>7, <1>a, <1>c, Zenon DEF ReadDecline
  <1>8. ASSUME NEW d \in Daemon, NEW t \in Transfer, ReadChunk(d, t) PROVE DisksOK'
      <2> DEFINE n == Head(toClient[link[d]]).n
      <2> DEFINE p == file[d][t]
      <2>1. n \in Nat
          BY <1>8, ReadFrame, Zenon DEF ReadChunk
      <2> DEFINE w == [disk EXCEPT ![d][p] = Append(@, n)]
      <2>2. UNCHANGED disk \/ disk' = IF p \in DOMAIN disk[d] THEN w ELSE disk
          BY <1>8, Zenon DEF ReadChunk
      <2>3. CASE p \in DOMAIN disk[d] /\ disk' = w
          <3> DEFINE content == [disk[d] EXCEPT ![p] = Append(@, n)]
          <3> HIDE DEF n, p
          <3>1. DOMAIN content = DOMAIN disk[d]
              OBVIOUS
          <3>2. disk[d][p] \in Seq(Nat)
              BY <2>3 DEF DisksOK
          <3>3. Append(disk[d][p], n) \in Seq(Nat)
              BY <2>1, <3>2
          <3>4. \A q \in DOMAIN content : content[q] \in Seq(Nat)
              BY <2>3, <3>3 DEF DisksOK
          <3>5. disk' = [disk EXCEPT ![d] = content]
              BY <2>3 DEF DisksOK
          <3> HIDE DEF content
          <3> QED
              BY <1>b, <3>1, <3>4, <3>5 DEF DisksOK
      <2> HIDE DEF n, p, w
      <2> QED
          BY <1>a, <2>2, <2>3
  <1>9. ASSUME NEW d \in Daemon, NEW c \in Conn, Enrol(d, c) PROVE DisksOK'
      BY <1>9, <1>a, ClientLeaves
  <1>10. ASSUME NEW s \in Screen, Calling(s) PROVE DisksOK'
      <2> DEFINE d == ScreenOf[s]
      <2>1. d \in Daemon
          BY ConstantsAssumption
      <2>2. CASE OfferPut(s) \/ AcceptLook(s) \/ AcceptRun(s) \/ OfferTell(s) \/ AcceptTell(s) \/ DeclineTell(s)
          <3>1. UNCHANGED disk
              BY <2>2, Zenon DEF OfferPut, AcceptLook, AcceptRun, OfferTell, AcceptTell, DeclineTell, Tell
          <3> QED
              BY <1>a, <3>1
      <2>3. CASE AcceptCreate(s)
          <3>1. PICK p \in Path : disk' = [disk EXCEPT ![d] = [q \in DOMAIN @ \cup {p} |->
                                                                 IF q = p THEN <<>> ELSE @[q]]]
              BY <2>3, Zenon DEF AcceptCreate
          <3> DEFINE content == [q \in DOMAIN disk[d] \cup {p} |-> IF q = p THEN <<>> ELSE disk[d][q]]
          <3>2. disk' = [disk EXCEPT ![d] = content]
              BY <2>1, <3>1 DEF DisksOK
          <3>3. <<>> \in Seq(Nat)
              OBVIOUS
          <3>4. DOMAIN content \subseteq Path /\ \A q \in DOMAIN content : content[q] \in Seq(Nat)
              BY <2>1, <3>3 DEF DisksOK
          <3> HIDE DEF content, d
          <3> QED
              BY <1>b, <2>1, <3>2, <3>4
      <2>4. CASE Decline(s)
          <3>1. UNCHANGED disk \/ disk' = Removed(d, row[d][screen[s].id].path)
              BY <2>4, Zenon DEF Decline
          <3> HIDE DEF d
          <3> QED
              BY <1>a, <1>c, <2>1, <3>1
      <2> QED
          BY <1>10, <2>2, <2>3, <2>4 DEF Calling
  <1>11. ASSUME NEW s \in Screen, NEW t \in Transfer, Offer(s, t) \/ Choose(s, t) PROVE DisksOK'
      BY <1>11, <1>a, ClientLeaves
  <1>12. CASE UNCHANGED vars
      BY <1>12, <1>a DEF vars, client
  <1> QED
      BY <1>1, <1>2, <1>3, <1>4, <1>5, <1>6, <1>7, <1>8, <1>9, <1>10, <1>11, <1>12 DEF Next, Linked

(* No pusher counts more pieces than the file has.                         *)
LEMMA PushStep ==
  ASSUME PushingOK, LinksOK, [Next]_vars
  PROVE  PushingOK'
  <1> USE Bounds
  <1>a. ASSUME UNCHANGED pusher PROVE PushingOK'
      BY <1>a DEF PushingOK
  <1>b. ASSUME NEW t \in Transfer, NEW p \in Pusher, pusher' = [pusher EXCEPT ![t] = p],
               p.at = "chunk" => p.off < Chunks
        PROVE  PushingOK'
      BY <1>b DEF PushingOK
  <1>p. \A t \in Transfer : pusher[t] \in Pusher
      BY DEF PushingOK
  <1>q. Quiet \in Pusher /\ Quiet.at = "no" /\ [at |-> "look", off |-> 0] \in Pusher
      BY DEF Quiet, Pusher
  <1>1. ASSUME NEW c \in Conn, Relaying(c) \/ Break(c) PROVE PushingOK'
      BY <1>1, <1>a, ServerLeaves, ClientLeaves DEF client
  <1>2. CASE Deliver(Clock)
      BY <1>2, <1>a, ServerLeaves DEF client
  <1>3. ASSUME NEW t \in Transfer, Expire(t) PROVE PushingOK'
      BY <1>3, <1>a, ServerLeaves DEF client
  <1>4. ASSUME NEW t \in Transfer, Pushing(t) PROVE PushingOK'
      <2>1. CASE PushLook(t)
          <3> DEFINE at == IF row[Sender[t]][t].state # "running" THEN "no"
                           ELSE IF pusher[t].off < Chunks THEN "chunk" ELSE "done"
          <3> DEFINE p == [pusher[t] EXCEPT !.at = at]
          <3>1. pusher' = [pusher EXCEPT ![t] = p]
              BY <2>1 DEF PushLook
          <3>2. p \in Pusher /\ (p.at = "chunk" => p.off < Chunks)
              BY <1>p DEF Pusher
          <3> HIDE DEF p
          <3> QED
              BY <1>b, <3>1, <3>2
      <2>2. CASE PushChunk(t)
          <3>1. /\ pusher[t].at = "chunk"
                /\ \/ pusher' = [pusher EXCEPT ![t] = [at |-> "look", off |-> pusher[t].off + 1]]
                   \/ pusher' = [pusher EXCEPT ![t] = Quiet]
              BY <2>2, Zenon DEF PushChunk
          <3>2. [at |-> "look", off |-> pusher[t].off + 1] \in Pusher
              BY <1>p, <3>1 DEF PushingOK, Pusher
          <3> QED
              BY <1>b, <1>q, <3>1, <3>2
      <2>3. CASE PushDone(t)
          <3>1. pusher' = [pusher EXCEPT ![t].at = "close"]
              BY <2>3, Zenon DEF PushDone
          <3> QED
              BY <1>p, <3>1 DEF PushingOK, Pusher
      <2>4. CASE PushClose(t)
          <3>1. pusher' = [pusher EXCEPT ![t] = Quiet]
              BY <2>4, Zenon DEF PushClose
          <3> QED
              BY <1>b, <1>q, <3>1
      <2> QED
          BY <1>4, <2>1, <2>2, <2>3, <2>4 DEF Pushing
  <1>5. ASSUME NEW d \in Daemon, StartPush(d) PROVE PushingOK'
      <2>1. /\ pusher' = [pusher EXCEPT ![reader[d].id] = [at |-> "look", off |-> 0]]
            /\ reader[d].at = "start"
          BY <1>5, Zenon DEF StartPush
      <2>2. reader[d].id \in Transfer
          BY <2>1 DEF LinksOK
      <2> QED
          BY <1>b, <1>q, <2>1, <2>2
  <1>6. ASSUME NEW d \in Daemon, Drop(d) \/ FailLiveTransfers(d) \/ Verify(d) \/ Finish(d)
        PROVE  PushingOK'
      <2>1. UNCHANGED pusher
          BY <1>6, Zenon DEF Drop, FailLiveTransfers, Verify, Finish
      <2> QED
          BY <1>a, <2>1
  <1>7. ASSUME NEW d \in Daemon, NEW t \in Transfer,
               \/ ReadOffer(d, t) \/ ReadAccept(d, t) \/ ReadDecline(d, t) \/ ReadChunk(d, t)
               \/ ReadDone(d, t)
        PROVE  PushingOK'
      <2>1. UNCHANGED pusher
          BY <1>7, Zenon DEF ReadOffer, ReadAccept, ReadDecline, ReadChunk, ReadDone
      <2> QED
          BY <1>a, <2>1
  <1>8. ASSUME NEW d \in Daemon, NEW c \in Conn, Enrol(d, c) PROVE PushingOK'
      BY <1>8, <1>a, ClientLeaves
  <1>9. ASSUME NEW s \in Screen, Calling(s) \/ \E t \in Transfer : Offer(s, t) \/ Choose(s, t)
        PROVE  PushingOK'
      BY <1>9, <1>a, ClientLeaves
  <1>10. CASE UNCHANGED vars
      BY <1>10, <1>a DEF vars, client
  <1> QED
      BY <1>1, <1>2, <1>3, <1>4, <1>5, <1>6, <1>7, <1>8, <1>9, <1>10 DEF Next, Linked

(* The calls of the front ends.                                            *)
LEMMA CallsStep ==
  ASSUME CallsOK, [Next]_vars
  PROVE  CallsOK'
  <1>a. ASSUME UNCHANGED screen PROVE CallsOK'
      BY <1>a DEF CallsOK
  <1>s. \A s \in Screen : screen[s] \in Call
      BY DEF CallsOK
  <1>b. ASSUME NEW s \in Screen, NEW call \in Call, screen' = [screen EXCEPT ![s] = call],
               call.at # "idle" => call.id \in Transfer,
               call.at \in {"hash", "offer"} => ScreenOf[s] = Sender[call.id]
        PROVE  CallsOK'
      BY <1>b DEF CallsOK
  <1>w. Waiting \in Call /\ Waiting.at = "idle"
      BY DEF Waiting, Call
  <1>1. ASSUME NEW c \in Conn, Relaying(c) \/ Break(c) PROVE CallsOK'
      BY <1>1, <1>a, ServerLeaves, ClientLeaves DEF client
  <1>2. CASE Deliver(Clock)
      BY <1>2, <1>a, ServerLeaves DEF client
  <1>3. ASSUME NEW t \in Transfer, Expire(t) \/ Pushing(t) PROVE CallsOK'
      BY <1>3, <1>a, ServerLeaves, ClientLeaves DEF client
  <1>4. ASSUME NEW d \in Daemon, Linked(d) \/ \E c \in Conn : Enrol(d, c) PROVE CallsOK'
      BY <1>4, <1>a, ClientLeaves
  <1>5. ASSUME NEW s \in Screen, Calling(s) PROVE CallsOK'
      <2>1. ASSUME NEW at \in {"create", "answer", "refuse"}, Step(s, at), screen[s].at # "idle"
            PROVE  CallsOK'
          <3>1. [screen[s] EXCEPT !.at = at] \in Call
              BY <1>s DEF Call
          <3>2. screen' = [screen EXCEPT ![s].at = at]
              BY <2>1 DEF Step
          <3> QED
              BY <1>s, <2>1, <3>1, <3>2 DEF CallsOK, Call
      <2>2. CASE screen' = [screen EXCEPT ![s] = Waiting]
          BY <1>b, <1>w, <2>2
      <2>3. CASE OfferPut(s)
          <3>1. screen[s].at = "hash" /\ screen' = [screen EXCEPT ![s].at = "offer"]
              BY <2>3, Zenon DEF OfferPut, Step
          <3> QED
              BY <1>s, <3>1 DEF CallsOK, Call
      <2>4. CASE OfferTell(s) \/ AcceptTell(s) \/ DeclineTell(s)
          BY <2>2, <2>4, Zenon DEF OfferTell, AcceptTell, DeclineTell, Tell
      <2>5. CASE AcceptLook(s)
          <3>1. screen[s].at = "accept" /\ (Step(s, "create") \/ screen' = [screen EXCEPT ![s] = Waiting])
              BY <2>5, Zenon DEF AcceptLook
          <3> QED
              BY <2>1, <2>2, <3>1
      <2>6. CASE AcceptCreate(s)
          <3>1. PICK p \in Path : /\ screen[s].at = "create"
                                  /\ screen' = [screen EXCEPT ![s].at = "run", ![s].path = p]
              BY <2>6, Zenon DEF AcceptCreate
          <3> DEFINE call == [screen[s] EXCEPT !.at = "run", !.path = p]
          <3>2. call \in Call /\ call.at = "run" /\ call.id = screen[s].id
              BY <1>s DEF Call
          <3>3. call.id \in Transfer
              BY <3>1, <3>2 DEF CallsOK
          <3>4. screen' = [screen EXCEPT ![s] = call]
              BY <3>1
          <3> HIDE DEF call
          <3> QED
              BY <1>b, <3>2, <3>3, <3>4
      <2>7. CASE AcceptRun(s)
          <3>1. screen[s].at = "run" /\ Step(s, "answer")
              BY <2>7, Zenon DEF AcceptRun
          <3> QED
              BY <2>1, <3>1
      <2>8. CASE Decline(s)
          <3>1. screen[s].at = "decline" /\ Step(s, "refuse")
              BY <2>8, Zenon DEF Decline
          <3> QED
              BY <2>1, <3>1
      <2> QED
          BY <1>5, <2>3, <2>4, <2>5, <2>6, <2>7, <2>8 DEF Calling
  <1>6. ASSUME NEW s \in Screen, NEW t \in Transfer, Offer(s, t) PROVE CallsOK'
      <2> DEFINE call == [Waiting EXCEPT !.at = "hash", !.id = t]
      <2>1. screen' = [screen EXCEPT ![s] = call] /\ ScreenOf[s] = Sender[t]
          BY <1>6, Zenon DEF Offer
      <2>2. call \in Call /\ call.at = "hash" /\ call.id = t
          BY <1>w DEF Call, Waiting
      <2> HIDE DEF call
      <2> QED
          BY <1>b, <2>1, <2>2
  <1>7. ASSUME NEW s \in Screen, NEW t \in Transfer, Choose(s, t) PROVE CallsOK'
      <2>1. PICK at \in {"accept", "decline"} :
                screen' = [screen EXCEPT ![s] = [Waiting EXCEPT !.at = at, !.id = t]]
          BY <1>7, Zenon DEF Choose
      <2> DEFINE call == [Waiting EXCEPT !.at = at, !.id = t]
      <2>2. call \in Call /\ call.at = at /\ call.id = t
          BY <1>w DEF Call, Waiting
      <2>3. screen' = [screen EXCEPT ![s] = call]
          BY <2>1
      <2> HIDE DEF call
      <2> QED
          BY <1>b, <2>2, <2>3
  <1>8. CASE UNCHANGED vars
      BY <1>8, <1>a DEF vars, client
  <1> QED
      BY <1>1, <1>2, <1>3, <1>4, <1>5, <1>6, <1>7, <1>8 DEF Next

----------------------------------------------------------------------------
(* Who is at the ends.                                                     *)

(* A socket that is open is served, for the daemon that opened it.         *)
LEMMA ServedStep ==
  ASSUME RelayOK, HandlerOK, FramesOK, LinksOK, Served, [Next]_vars
  PROVE  Served'
  <1>a. ASSUME UNCHANGED <<open, link, handler>> PROVE Served'
      BY <1>a DEF Served
  <1>b. ASSUME NEW c \in Conn, UNCHANGED <<open, link>>,
               NEW g, handler' = [handler EXCEPT ![c] = g],
               open[c] => g.at \in {"read", "book"} /\ g.owner = handler[c].owner
        PROVE  Served'
      BY <1>b DEF Served, HandlerOK, LinksOK
  <1>h. \A c \in Conn : handler[c] \in Goroutine
      BY DEF HandlerOK
  <1>1. ASSUME NEW c \in Conn, Relaying(c) PROVE Served'
      <2>1. UNCHANGED <<open, link>>
          BY <1>1, ServerLeaves DEF client
      <2>2. CASE OnOffer(c)
          <3> DEFINE t == Head(toServer[c]).id
          <3> DEFINE g == [handler[c] EXCEPT !.at = "book", !.id = t]
          <3>1. UNCHANGED handler \/ handler' = [handler EXCEPT ![c].at = "book", ![c].id = t]
              BY <2>2, Zenon DEF OnOffer
          <3> HIDE DEF t
          <3>2. UNCHANGED handler \/ handler' = [handler EXCEPT ![c] = g]
              BY <3>1, <1>h DEF HandlerOK, Goroutine
          <3>3. g.at = "book" /\ g.owner = handler[c].owner
              BY <1>h DEF Goroutine
          <3> HIDE DEF g
          <3> QED
              BY <1>a, <1>b, <2>1, <3>2, <3>3
      <2>3. CASE Book(c)
          <3> DEFINE g == [handler[c] EXCEPT !.at = "read", !.id = None]
          <3>1. handler' = [handler EXCEPT ![c].at = "read", ![c].id = None]
              BY <2>3, Zenon DEF Book
          <3>2. handler' = [handler EXCEPT ![c] = g]
              BY <3>1, <1>h DEF HandlerOK, Goroutine
          <3>3. g.at = "read" /\ g.owner = handler[c].owner
              BY <1>h DEF Goroutine
          <3> HIDE DEF g
          <3> QED
              BY <1>b, <2>1, <3>2, <3>3
      <2>4. CASE OnAccept(c) \/ OnDecline(c) \/ OnChunk(c) \/ OnDone(c)
          BY <1>a, <2>1, <2>4, Passed DEF Pass
      <2>5. CASE Deliver(c)
          BY <1>a, <2>1, <2>5 DEF Deliver
      <2>6. CASE HangUp(c)
          <3>1. handler' = [handler EXCEPT ![c] = [handler[c] EXCEPT !.at = "leave"]] /\ ~open[c]
              BY <2>6, Zenon DEF HangUp
          <3> DEFINE g == [handler[c] EXCEPT !.at = "leave"]
          <3> HIDE DEF g
          <3> QED
              BY <1>b, <2>1, <3>1 DEF g
      <2>7. CASE FailTransfersOf(c)
          <3>1. handler' = [handler EXCEPT ![c] = Free] /\ handler[c].at = "leave"
              BY <2>7, Zenon DEF FailTransfersOf
          <3> QED
              BY <1>b, <2>1, <3>1 DEF Served
      <2> QED
          BY <1>1, <2>2, <2>3, <2>4, <2>5, <2>6, <2>7 DEF Relaying
  <1>2. ASSUME NEW c \in Conn, Break(c) PROVE Served'
      <2>1. open' = [open EXCEPT ![c] = FALSE] /\ UNCHANGED <<handler, link>>
          BY <1>2, Zenon DEF Break, server, client
      <2> QED
          BY <2>1 DEF Served, LinksOK
  <1>3. CASE Deliver(Clock)
      BY <1>3, <1>a, ServerLeaves DEF client
  <1>4. ASSUME NEW t \in Transfer, Expire(t) \/ Pushing(t) PROVE Served'
      BY <1>4, <1>a, ServerLeaves, ClientLeaves DEF client, server, wires
  <1>5. ASSUME NEW d \in Daemon, Linked(d) PROVE Served'
      <2>1. UNCHANGED <<handler, open>>
          BY <1>5, ClientLeaves DEF server
      <2>2. UNCHANGED link \/ link' = [link EXCEPT ![d] = None]
          BY <1>5, Zenon DEF Linked, Drop, FailLiveTransfers, StartPush, Verify, Finish, ReadOffer,
             ReadAccept, ReadDecline, ReadChunk, ReadDone
      <2>3. None \notin Conn
          BY ConstantsAssumption
      <2> QED
          BY <1>a, <2>1, <2>2, <2>3 DEF Served, LinksOK
  <1>6. ASSUME NEW d \in Daemon, NEW c \in Conn, Enrol(d, c) PROVE Served'
      <2>1. /\ handler' = [handler EXCEPT ![c].at = "read", ![c].owner = d]
            /\ open' = [open EXCEPT ![c] = TRUE] /\ link' = [link EXCEPT ![d] = c]
            /\ \A e \in Daemon : link[e] # c
          BY <1>6, Zenon DEF Enrol
      <2>2. handler'[c].at = "read" /\ handler'[c].owner = d
          BY <1>h, <2>1 DEF HandlerOK, Goroutine
      <2>3. \A k \in Conn : k # c => handler'[k] = handler[k] /\ open'[k] = open[k]
          BY <2>1 DEF HandlerOK, LinksOK
      <2>4. \A e \in Daemon : link'[e] = IF e = d THEN c ELSE link[e]
          BY <2>1 DEF LinksOK
      <2>5. \A k \in Conn : open'[k] => handler'[k].at \in {"read", "book"}
          BY <2>2, <2>3 DEF Served
      <2>6. \A e \in Daemon : link'[e] \in Conn /\ open'[link'[e]] => handler'[link'[e]].owner = e
          <3> TAKE e \in Daemon
          <3>1. CASE e = d
              BY <2>2, <2>4, <3>1
          <3>2. CASE e # d
              <4>1. link'[e] = link[e] /\ link[e] # c
                  BY <2>1, <2>4, <3>2
              <4>2. link[e] \in Conn => /\ handler'[link[e]] = handler[link[e]]
                                        /\ open'[link[e]] = open[link[e]]
                  BY <2>3, <4>1
              <4>3. link[e] \in Conn /\ open[link[e]] => handler[link[e]].owner = e
                  BY DEF Served
              <4> QED
                  BY <4>1, <4>2, <4>3
          <3> QED
              BY <3>1, <3>2
      <2> QED
          BY <2>5, <2>6, Zenon DEF Served
  <1>7. ASSUME NEW s \in Screen, Calling(s) \/ \E t \in Transfer : Offer(s, t) \/ Choose(s, t)
        PROVE  Served'
      BY <1>7, <1>a, ClientLeaves DEF server, wires
  <1>8. CASE UNCHANGED vars
      BY <1>8, <1>a DEF vars, server, wires, client
  <1> QED
      BY <1>1, <1>2, <1>3, <1>4, <1>5, <1>6, <1>7, <1>8 DEF Next

(* What changes of a goroutine besides whose it is: where it is.           *)
LEMMA PeerStays ==
  ASSUME HandlerOK, NEW c \in Conn, handler'[c].owner = handler[c].owner
  PROVE  Peer(c)' = Peer(c)
  BY DEF Peer

(* What is on the way is the client's own, and its offers are too.         *)
LEMMA OwnStep ==
  ASSUME RelayOK, HandlerOK, FramesOK, LinksOK, PushingOK, CallsOK, Served, OffersAreOwn, [Next]_vars
  PROVE  OffersAreOwn'
  <1> DEFINE Own(c) == /\ handler[c].at \notin {"read", "book"} => toServer[c] = <<>>
                       /\ \A i \in 1 .. Len(toServer[c]) :
                              toServer[c][i].t = "offer" => From(toServer[c][i].id) = Peer(c)
                       /\ handler[c].at = "book" => From(handler[c].id) = Peer(c)
  <1>o. (\A c \in Conn : Own(c)) /\ ((\A c \in Conn : Own(c)') => OffersAreOwn')
      BY DEF OffersAreOwn
  <1>h. \A c \in Conn : handler[c] \in Goroutine
      BY DEF HandlerOK
  <1>a. ASSUME NEW c \in Conn, toServer'[c] = toServer[c], handler'[c] = handler[c] PROVE Own(c)'
      BY <1>a, <1>o DEF Peer, From
  <1>b. ASSUME UNCHANGED <<toServer, handler>> PROVE OffersAreOwn'
      BY <1>a, <1>b, <1>o
  <1>e. ASSUME NEW c \in Conn, toServer'[c] = <<>>, handler'[c].at # "book" PROVE Own(c)'
      BY <1>e
  <1>t. ASSUME NEW c \in Conn, toServer[c] \in Seq(Frame), toServer[c] # <<>>,
               toServer'[c] = Tail(toServer[c]), handler'[c].owner = handler[c].owner,
               handler'[c].at \in {"read", "book"},
               handler'[c].at = "book" => From(handler'[c].id) = Peer(c)
        PROVE  Own(c)'
      <2>1. Peer(c)' = Peer(c)
          BY <1>t, PeerStays
      <2>2. \A i \in 1 .. Len(toServer'[c]) : /\ i + 1 \in 1 .. Len(toServer[c])
                                              /\ toServer'[c][i] = toServer[c][i + 1]
          BY <1>t
      <2>3. \A i \in 1 .. Len(toServer'[c]) :
                toServer'[c][i].t = "offer" => From(toServer'[c][i].id) = Peer(c)
          BY <1>o, <2>2
      <2> QED
          BY <1>t, <2>1, <2>3 DEF From
  <1>w. ASSUME NEW d \in Daemon, NEW f \in Frame, Write(d, f), UNCHANGED handler,
               f.t = "offer" => Sender[f.id] = d
        PROVE  OffersAreOwn'
      <2>1. ASSUME NEW c \in Conn PROVE Own(c)'
          <3>1. CASE c = link[d] /\ open[c]
              <4>1. handler[c].owner = d /\ handler[c].at \in {"read", "book"}
                  BY <3>1 DEF Served
              <4>2. toServer[c] \in Seq(Frame) /\ toServer'[c] = Append(toServer[c], f)
                  BY <1>w, <3>1 DEF Write, FramesOK
              <4>3. \A i \in 1 .. Len(toServer'[c]) :
                        \/ i \in 1 .. Len(toServer[c]) /\ toServer'[c][i] = toServer[c][i]
                        \/ toServer'[c][i] = f
                  BY <4>2
              <4>4. f.t = "offer" => From(f.id) = Peer(c)
                  BY <1>w, <4>1 DEF From, Peer
              <4>5. \A i \in 1 .. Len(toServer'[c]) :
                        toServer'[c][i].t = "offer" => From(toServer'[c][i].id) = Peer(c)
                  BY <1>o, <4>3, <4>4
              <4>6. handler' = handler /\ Peer(c)' = Peer(c)
                  BY <1>w DEF Peer
              <4> QED
                  BY <1>o, <4>1, <4>5, <4>6 DEF From
          <3>2. CASE ~(c = link[d] /\ open[c])
              BY <1>a, <1>w, <3>2 DEF Write
          <3> QED
              BY <3>1, <3>2
      <2> QED
          BY <1>o, <2>1
  <1> HIDE DEF Own
  <1>f. \A type \in {"accept", "decline", "chunk", "done"}, t \in Transfer, n \in Nat :
            FrameOf(type, t, n) \in Frame /\ FrameOf(type, t, n).t # "offer"
      BY FrameTyped DEF FrameOf
  <1>1. ASSUME NEW c \in Conn, Relaying(c) PROVE OffersAreOwn'
      <2>1. CASE OnOffer(c)
          <3> DEFINE t == Head(toServer[c]).id
          <3>1. Takes(c, "offer")
              BY <2>1, Zenon DEF OnOffer
          <3>2. /\ handler[c].at = "read" /\ toServer[c] \in Seq(Frame) /\ toServer[c] # <<>>
                /\ Head(toServer[c]).t = "offer" /\ t \in Transfer
                /\ toServer' = [toServer EXCEPT ![c] = Tail(@)]
              BY <3>1, Taken
          <3>3. From(t) = Peer(c)
              <4>1. 1 \in 1 .. Len(toServer[c]) /\ toServer[c][1] = Head(toServer[c])
                  BY <3>2
              <4> QED
                  BY <3>2, <4>1 DEF OffersAreOwn
          <3>4. UNCHANGED handler \/ handler' = [handler EXCEPT ![c].at = "book", ![c].id = t]
              BY <2>1, Zenon DEF OnOffer
          <3> HIDE DEF t
          <3>5. /\ handler'[c].owner = handler[c].owner /\ handler'[c].at \in {"read", "book"}
                /\ handler'[c].at = "book" => handler'[c].id = t
              BY <1>h, <3>2, <3>4 DEF HandlerOK, Goroutine
          <3>6. \A k \in Conn \ {c} : toServer'[k] = toServer[k] /\ handler'[k] = handler[k]
              BY <3>2, <3>4 DEF HandlerOK, FramesOK
          <3>7. toServer'[c] = Tail(toServer[c])
              BY <3>2 DEF FramesOK
          <3>8. Own(c)'
              BY <1>t, <3>2, <3>3, <3>5, <3>7
          <3> QED
              BY <1>a, <1>o, <3>6, <3>8
      <2>2. CASE OnAccept(c) \/ OnDecline(c) \/ OnChunk(c) \/ OnDone(c)
          <3>1. UNCHANGED handler
              BY <2>2, Passed DEF Pass
          <3>2. /\ handler[c].at = "read" /\ toServer[c] \in Seq(Frame) /\ toServer[c] # <<>>
                /\ toServer' = [toServer EXCEPT ![c] = Tail(@)]
              BY <2>2, Passed, Taken
          <3>3. toServer'[c] = Tail(toServer[c]) /\ \A k \in Conn \ {c} : toServer'[k] = toServer[k]
              BY <3>2 DEF FramesOK
          <3>4. Own(c)'
              BY <1>t, <3>1, <3>2, <3>3
          <3> QED
              BY <1>a, <1>o, <3>1, <3>3, <3>4
      <2>3. CASE Book(c)
          <3>1. /\ handler' = [handler EXCEPT ![c].at = "read", ![c].id = None]
                /\ UNCHANGED toServer /\ handler[c].at = "book"
              BY <2>3, Zenon DEF Book
          <3>2. handler'[c].at = "read" /\ handler'[c].owner = handler[c].owner
              BY <1>h, <3>1 DEF HandlerOK, Goroutine
          <3>3. Peer(c)' = Peer(c)
              BY <3>2, PeerStays
          <3>4. Own(c)'
              BY <1>o, <3>1, <3>2, <3>3 DEF Own, From
          <3>5. \A k \in Conn \ {c} : handler'[k] = handler[k]
              BY <3>1 DEF HandlerOK
          <3> QED
              BY <1>a, <1>o, <3>1, <3>4, <3>5
      <2>4. CASE Deliver(c)
          BY <1>b, <2>4 DEF Deliver
      <2>5. CASE HangUp(c)
          <3>1. /\ handler' = [handler EXCEPT ![c].at = "leave"]
                /\ toServer' = [toServer EXCEPT ![c] = <<>>]
              BY <2>5, Zenon DEF HangUp
          <3>2. handler'[c].at = "leave" /\ toServer'[c] = <<>>
              BY <1>h, <3>1 DEF HandlerOK, Goroutine, FramesOK
          <3>3. \A k \in Conn \ {c} : toServer'[k] = toServer[k] /\ handler'[k] = handler[k]
              BY <3>1 DEF HandlerOK, FramesOK
          <3> QED
              BY <1>a, <1>e, <1>o, <3>2, <3>3
      <2>6. CASE FailTransfersOf(c)
          <3>1. /\ handler' = [handler EXCEPT ![c] = Free] /\ handler[c].at = "leave"
                /\ UNCHANGED toServer
              BY <2>6, Zenon DEF FailTransfersOf, wires
          <3>2. handler'[c].at = "free" /\ toServer'[c] = <<>>
              BY <3>1 DEF HandlerOK, Free, OffersAreOwn
          <3>3. \A k \in Conn \ {c} : handler'[k] = handler[k]
              BY <3>1 DEF HandlerOK
          <3> QED
              BY <1>a, <1>e, <1>o, <3>1, <3>2, <3>3
      <2> QED
          BY <1>1, <2>1, <2>2, <2>3, <2>4, <2>5, <2>6 DEF Relaying
  <1>2. ASSUME NEW c \in Conn, Break(c) PROVE OffersAreOwn'
      BY <1>2, <1>b, ClientLeaves DEF server
  <1>3. CASE Deliver(Clock)
      BY <1>3, <1>b, ServerLeaves
  <1>4. ASSUME NEW t \in Transfer, Expire(t) PROVE OffersAreOwn'
      BY <1>4, <1>b, ServerLeaves DEF wires
  <1>5. ASSUME NEW t \in Transfer, Pushing(t) PROVE OffersAreOwn'
      <2>1. UNCHANGED handler
          BY <1>5, ClientLeaves DEF server
      <2>2. \/ UNCHANGED toServer
            \/ Write(Sender[t], FrameOf("chunk", t, pusher[t].off))
            \/ Write(Sender[t], FrameOf("done", t, Chunks))
          BY <1>5, Zenon DEF Pushing, PushLook, PushChunk, PushDone, PushClose, wires
      <2>3. pusher[t].off \in Nat /\ Sender[t] \in Daemon /\ Chunks \in Nat
          BY ConstantsAssumption DEF PushingOK, Pusher
      <2> QED
          BY <1>b, <1>f, <1>w, <2>1, <2>2, <2>3
  <1>6. ASSUME NEW d \in Daemon, Linked(d) PROVE OffersAreOwn'
      <2>1. UNCHANGED handler
          BY <1>6, ClientLeaves DEF server
      <2>2. UNCHANGED toServer \/ \E t \in Transfer : Write(d, FrameOf("decline", t, 0))
          BY <1>6, Zenon DEF Linked, Drop, FailLiveTransfers, StartPush, Verify, Finish, ReadOffer,
             ReadAccept, ReadDecline, ReadChunk, ReadDone, wires
      <2> QED
          BY <1>b, <1>f, <1>w, <2>1, <2>2
  <1>7. ASSUME NEW d \in Daemon, NEW c \in Conn, Enrol(d, c) PROVE OffersAreOwn'
      <2>1. /\ handler' = [handler EXCEPT ![c].at = "read", ![c].owner = d] /\ handler[c] = Free
            /\ UNCHANGED toServer
          BY <1>7, Zenon DEF Enrol
      <2>2. handler'[c].at = "read" /\ toServer'[c] = <<>>
          BY <1>h, <2>1 DEF HandlerOK, Goroutine, Free, OffersAreOwn
      <2>3. \A k \in Conn \ {c} : handler'[k] = handler[k]
          BY <2>1 DEF HandlerOK
      <2> QED
          BY <1>a, <1>e, <1>o, <2>1, <2>2, <2>3
  <1>8. ASSUME NEW s \in Screen, Calling(s) PROVE OffersAreOwn'
      <2>1. UNCHANGED handler
          BY <1>8, ClientLeaves DEF server
      <2>2. \/ UNCHANGED toServer
            \/ screen[s].at = "offer" /\ Write(ScreenOf[s], FrameOf("offer", screen[s].id, 0))
            \/ screen[s].at = "answer" /\ Write(ScreenOf[s], FrameOf("accept", screen[s].id, 0))
            \/ screen[s].at = "refuse" /\ Write(ScreenOf[s], FrameOf("decline", screen[s].id, 0))
          BY <1>8, Zenon DEF Calling, OfferPut, OfferTell, AcceptLook, AcceptCreate, AcceptRun, AcceptTell,
             Decline, DeclineTell, Tell, wires
      <2>3. ScreenOf[s] \in Daemon /\ (screen[s].at # "idle" => screen[s].id \in Transfer)
          BY ConstantsAssumption DEF CallsOK
      <2>4. CASE screen[s].at = "offer" /\ Write(ScreenOf[s], FrameOf("offer", screen[s].id, 0))
          <3>1. FrameOf("offer", screen[s].id, 0) \in Frame
              BY <2>3, <2>4, FrameTyped
          <3>2. FrameOf("offer", screen[s].id, 0).id = screen[s].id /\ Sender[screen[s].id] = ScreenOf[s]
              BY <2>4 DEF FrameOf, CallsOK
          <3> QED
              BY <1>w, <2>1, <2>3, <2>4, <3>1, <3>2
      <2> QED
          BY <1>b, <1>f, <1>w, <2>1, <2>2, <2>3, <2>4
  <1>9. ASSUME NEW s \in Screen, NEW t \in Transfer, Offer(s, t) \/ Choose(s, t) PROVE OffersAreOwn'
      BY <1>9, <1>b, ClientLeaves DEF server, wires
  <1>10. CASE UNCHANGED vars
      BY <1>10, <1>b DEF vars, server, wires
  <1> QED
      BY <1>1, <1>2, <1>3, <1>4, <1>5, <1>6, <1>7, <1>8, <1>9, <1>10 DEF Next

(* What is carried has a sender that is connected, what runs a receiver.   *)
LEMMA EndsStep ==
  ASSUME RelayOK, HandlerOK, FramesOK, OffersAreOwn, CarriedHasEnds, [Next]_vars
  PROVE  CarriedHasEnds'
  <1>h. \A c \in Conn : handler[c] \in Goroutine
      BY DEF HandlerOK
  <1>k. ASSUME NEW p, HasEnd(p),
               \A c \in Conn : handler[c].at # "free" /\ Peer(c) = p =>
                                handler'[c].at # "free" /\ handler'[c].owner = handler[c].owner
        PROVE  HasEnd(p)'
      <2>1. PICK c \in Conn : handler[c].at # "free" /\ Peer(c) = p
          BY <1>k DEF HasEnd
      <2>2. handler'[c].at # "free" /\ Peer(c)' = p
          BY <1>k, <2>1, PeerStays
      <2> QED
          BY <2>2 DEF HasEnd
  <1>e. ASSUME \A c \in Conn : handler[c].at # "free" =>
                                handler'[c].at # "free" /\ handler'[c].owner = handler[c].owner,
               NEW t \in Transfer, NEW new \in Relayed, relay' = [relay EXCEPT ![t] = new],
               new.state # "none" => HasEnd(From(t)),
               new.state = "running" => HasEnd(Target[t])
        PROVE  CarriedHasEnds'
      <2>1. \A p : HasEnd(p) => HasEnd(p)'
          BY <1>e, <1>k
      <2>2. ASSUME NEW u \in Transfer
            PROVE  /\ relay'[u].state # "none" => HasEnd(From(u))
                   /\ relay'[u].state = "running" => HasEnd(Target[u])
          BY <1>e DEF CarriedHasEnds, RelayOK
      <2> QED
          BY <2>1, <2>2 DEF CarriedHasEnds, From
  <1>a. ASSUME \A c \in Conn : handler[c].at # "free" =>
                                handler'[c].at # "free" /\ handler'[c].owner = handler[c].owner,
               UNCHANGED relay
        PROVE  CarriedHasEnds'
      <2>1. \A p : HasEnd(p) => HasEnd(p)'
          BY <1>a, <1>k
      <2> QED
          BY <1>a, <2>1 DEF CarriedHasEnds, From
  <1>u. ASSUME UNCHANGED <<relay, handler>> PROVE CarriedHasEnds'
      BY <1>a, <1>u
  <1>i. \A t \in Transfer : /\ relay[t].state # "none" => HasEnd(From(t))
                            /\ relay[t].state = "running" => HasEnd(Target[t])
      BY DEF CarriedHasEnds
  <1>n. NoRelay \in Relayed /\ NoRelay.state = "none"
      BY Bounds DEF NoRelay, Relayed
  <1>1. ASSUME NEW c \in Conn, Relaying(c) PROVE CarriedHasEnds'
      <2>1. CASE OnOffer(c)
          <3> DEFINE t == Head(toServer[c]).id
          <3>1. Takes(c, "offer") /\ UNCHANGED relay
              BY <2>1, Zenon DEF OnOffer
          <3>2. UNCHANGED handler \/ handler' = [handler EXCEPT ![c].at = "book", ![c].id = t]
              BY <2>1, Zenon DEF OnOffer
          <3> HIDE DEF t
          <3>3. \A k \in Conn : handler[k].at # "free" =>
                                 handler'[k].at # "free" /\ handler'[k].owner = handler[k].owner
              BY <1>h, <3>2 DEF HandlerOK, Goroutine
          <3> QED
              BY <1>a, <3>1, <3>3
      <2>2. CASE OnAccept(c) \/ OnDecline(c) \/ OnChunk(c) \/ OnDone(c)
          <3>1. PICK t \in Transfer, new \in Relayed :
                    /\ relay' = [relay EXCEPT ![t] = new] /\ UNCHANGED handler /\ Allowed(c, t, new)
              BY <2>2, Passed DEF Pass
          <3>2. handler[c].at = "read"
              BY <2>2, Passed, Taken
          <3>3. HasEnd(Peer(c))
              BY <3>2 DEF HasEnd
          <3>4. /\ new.state # "none" => HasEnd(From(t))
                /\ new.state = "running" => HasEnd(Target[t])
              BY <1>i, <3>1, <3>3 DEF Allowed
          <3> QED
              BY <1>e, <3>1, <3>4
      <2>3. CASE Book(c)
          <3> DEFINE t == handler[c].id
          <3> DEFINE new == [relay[t] EXCEPT !.state = "offered"]
          <3>1. /\ handler' = [handler EXCEPT ![c].at = "read", ![c].id = None]
                /\ handler[c].at = "book"
                /\ UNCHANGED relay \/ relay' = [relay EXCEPT ![t].state = "offered"]
              BY <2>3, Zenon DEF Book
          <3>2. t \in Transfer /\ From(t) = Peer(c)
              BY <3>1 DEF HandlerOK, OffersAreOwn
          <3>3. \A k \in Conn : handler[k].at # "free" =>
                                 handler'[k].at # "free" /\ handler'[k].owner = handler[k].owner
              BY <1>h, <3>1 DEF HandlerOK, Goroutine
          <3>4. new \in Relayed /\ new.state = "offered"
              BY <3>2 DEF RelayOK, Relayed
          <3>5. relay' = relay \/ relay' = [relay EXCEPT ![t] = new]
              BY <3>1, <3>2 DEF RelayOK
          <3>6. HasEnd(From(t))
              BY <3>1, <3>2 DEF HasEnd
          <3> HIDE DEF t, new
          <3> QED
              BY <1>a, <1>e, <3>2, <3>3, <3>4, <3>5, <3>6
      <2>4. CASE Deliver(c)
          BY <1>u, <2>4 DEF Deliver
      <2>5. CASE HangUp(c)
          <3>1. handler' = [handler EXCEPT ![c].at = "leave"] /\ UNCHANGED relay
              BY <2>5, Zenon DEF HangUp
          <3>2. \A k \in Conn : handler[k].at # "free" =>
                                 handler'[k].at # "free" /\ handler'[k].owner = handler[k].owner
              BY <1>h, <3>1 DEF HandlerOK, Goroutine
          <3> QED
              BY <1>a, <3>1, <3>2
      <2>6. CASE FailTransfersOf(c)
          <3>1. /\ handler' = [handler EXCEPT ![c] = Free]
                /\ relay' = [t \in Transfer |-> IF t \in TransfersOf(Peer(c)) THEN NoRelay ELSE relay[t]]
              BY <2>6, Zenon DEF FailTransfersOf
          <3>2. \A p : p # Peer(c) /\ HasEnd(p) => HasEnd(p)'
              <4>1. \A k \in Conn \ {c} : handler'[k] = handler[k]
                  BY <3>1 DEF HandlerOK
              <4> QED
                  BY <1>k, <4>1
          <3>3. ASSUME NEW t \in Transfer, relay'[t].state # "none"
                PROVE  relay'[t] = relay[t] /\ Peer(c) \notin {From(t), Target[t]}
              BY <1>n, <3>1, <3>3 DEF TransfersOf
          <3>4. ASSUME NEW t \in Transfer
                PROVE  /\ relay'[t].state # "none" => HasEnd(From(t))'
                       /\ relay'[t].state = "running" => HasEnd(Target[t])'
              <4>1. From(t)' = From(t)
                  BY DEF From
              <4> QED
                  BY <1>i, <3>2, <3>3, <4>1
          <3> QED
              BY <3>4 DEF CarriedHasEnds
      <2> QED
          BY <1>1, <2>1, <2>2, <2>3, <2>4, <2>5, <2>6 DEF Relaying
  <1>2. ASSUME NEW c \in Conn, Break(c) PROVE CarriedHasEnds'
      BY <1>2, <1>u, ClientLeaves DEF server
  <1>3. CASE Deliver(Clock)
      BY <1>3, <1>u, ServerLeaves
  <1>4. ASSUME NEW t \in Transfer, Expire(t) PROVE CarriedHasEnds'
      <2>1. relay' = [relay EXCEPT ![t] = NoRelay] /\ UNCHANGED handler
          BY <1>4, Zenon DEF Expire
      <2> QED
          BY <1>e, <1>n, <2>1
  <1>5. ASSUME NEW t \in Transfer, Pushing(t) PROVE CarriedHasEnds'
      BY <1>5, <1>u, ClientLeaves DEF server
  <1>6. ASSUME NEW d \in Daemon, Linked(d) PROVE CarriedHasEnds'
      BY <1>6, <1>u, ClientLeaves DEF server
  <1>7. ASSUME NEW d \in Daemon, NEW c \in Conn, Enrol(d, c) PROVE CarriedHasEnds'
      <2>1. /\ handler' = [handler EXCEPT ![c].at = "read", ![c].owner = d] /\ handler[c] = Free
            /\ UNCHANGED relay
          BY <1>7, Zenon DEF Enrol
      <2>2. \A k \in Conn : handler[k].at # "free" =>
                             handler'[k].at # "free" /\ handler'[k].owner = handler[k].owner
          BY <2>1 DEF HandlerOK, Free
      <2> QED
          BY <1>a, <2>1, <2>2
  <1>8. ASSUME NEW s \in Screen, Calling(s) \/ \E t \in Transfer : Offer(s, t) \/ Choose(s, t)
        PROVE  CarriedHasEnds'
      BY <1>8, <1>u, ClientLeaves DEF server
  <1>9. CASE UNCHANGED vars
      BY <1>9, <1>u DEF vars, server
  <1> QED
      BY <1>1, <1>2, <1>3, <1>4, <1>5, <1>6, <1>7, <1>8, <1>9 DEF Next

----------------------------------------------------------------------------
(* The inductive invariant.                                                *)
LEMMA InitIInv ==
  ASSUME Init
  PROVE  IInv
  <1> USE Bounds
  <1>1. RelayOK
      <2>1. Carried = {}
          BY DEF Init, Carried, NoRelay
      <2> QED
          BY <2>1, FS_EmptySet DEF Init, RelayOK, NoRelay, Relayed
  <1>2. HandlerOK /\ Served
      <2>1. Free \in Goroutine /\ Free.at = "free"
          BY DEF Free, Goroutine
      <2>2. None \notin Conn
          BY ConstantsAssumption
      <2> QED
          BY <2>1, <2>2 DEF Init, HandlerOK, Served
  <1>3. FramesOK
      <2>1. <<>> \in Seq(Parcel) /\ <<>> \in Seq(Frame)
          OBVIOUS
      <2> QED
          BY <2>1 DEF Init, FramesOK
  <1>4. LinksOK
      <2>1. [Reading EXCEPT !.at = "down"] \in Reader /\ [Reading EXCEPT !.at = "down"].at = "down"
          BY DEF Reading, Reader
      <2> QED
          BY <2>1 DEF Init, LinksOK
  <1>5. RowsOK /\ FilesOK
      <2>1. NoRow \in Row
          BY DEF NoRow, Row, States
      <2> QED
          BY <2>1 DEF Init, RowsOK, FilesOK
  <1>6. DisksOK
      BY DEF Init, DisksOK
  <1>7. PushingOK /\ CallsOK
      <2>1. Quiet \in Pusher /\ Quiet.at = "no" /\ Waiting \in Call /\ Waiting.at = "idle"
          BY DEF Quiet, Pusher, Waiting, Call
      <2> QED
          BY <2>1 DEF Init, PushingOK, CallsOK
  <1>8. OffersAreOwn
      BY DEF Init, OffersAreOwn, Free
  <1>9. CarriedHasEnds
      BY DEF Init, CarriedHasEnds, NoRelay
  <1> QED
      BY <1>1, <1>2, <1>3, <1>4, <1>5, <1>6, <1>7, <1>8, <1>9 DEF IInv, Typed

LEMMA NextIInv ==
  ASSUME IInv, [Next]_vars
  PROVE  IInv'
  <1> USE DEF IInv, Typed
  <1>1. RelayOK' /\ HandlerOK' /\ FramesOK' /\ LinksOK'
      BY RelayStep, HandlerStep, FramesStep, LinksStep
  <1>2. RowsOK' /\ FilesOK' /\ DisksOK' /\ PushingOK' /\ CallsOK'
      BY RowStep, FilesStep, DisksStep, PushStep, CallsStep
  <1>3. Served' /\ OffersAreOwn' /\ CarriedHasEnds'
      BY ServedStep, OwnStep, EndsStep
  <1> QED
      BY <1>1, <1>2, <1>3

LEMMA Invariance == Spec => []IInv
  BY InitIInv, NextIInv, PTL DEF Spec

(* Every variable always has its type: no row and no pusher ever counts    *)
(* more pieces than a file has, and no goroutine is left without the       *)
(* transfer it works on (onAccepted, onDone, pushFile and Accept of        *)
(* chatclientd/files.go, onOffer of chatserver/relay.go).                  *)
THEOREM TypeCorrect == Spec => []TypeOK
  <1>1. IInv => TypeOK
      BY DEF IInv, Typed, RelayOK, HandlerOK, FramesOK, LinksOK, RowsOK, FilesOK, DisksOK, PushingOK,
         CallsOK, Relayed, Goroutine, Parcel, Reader, Row, Pusher, Call, TypeOK
  <1> QED
      BY <1>1, Invariance, PTL

(* "Both ends have to be connected" (chatserver/relay.go): of every        *)
(* transfer the server carries as running, each end is connected, or was,  *)
(* and the clean-up that ends the transfer is still to come (onAccept,     *)
(* onOffer, failTransfersOf).                                              *)
THEOREM BothEndsAreThere == Spec => []RunningHasBothEnds
  <1>1. IInv => RunningHasBothEnds
      BY DEF IInv, CarriedHasEnds, HasEnd, RunningHasBothEnds
  <1> QED
      BY <1>1, Invariance, PTL

----------------------------------------------------------------------------
(* Where what is said of a transfer is on its way.                         *)

Receives(d, t) == Identity[d] = Target[t]

(* What the server has sent to a daemon that is not read yet, and what a   *)
(* goroutine of the server has still to send.                              *)
Inbox(d) == IF link[d] \in Conn THEN toClient[link[d]] ELSE <<>>
Frames(q) == [i \in 1 .. Len(q) |-> q[i].frame]

About(f, type, t) == f.t = type /\ f.id = t
Has(q, type, t) == \E i \in 1 .. Len(q) : About(q[i], type, t)
Once(q, type, t) == \A i, j \in 1 .. Len(q) : About(q[i], type, t) /\ About(q[j], type, t) => i = j

(* A queue of which some was taken, or that was lost.                      *)
Shrinks(q, r) == r = q \/ (q # <<>> /\ r = Tail(q)) \/ r = <<>>

(* What is left of a queue was in it, and nothing is there twice.          *)
LEMMA ShrinksKeeps ==
  ASSUME NEW T, NEW q \in Seq(T), NEW r, Shrinks(q, r)
  PROVE  /\ \A i \in 1 .. Len(r) : \E j \in 1 .. Len(q) : r[i] = q[j]
         /\ \A type, t : Has(r, type, t) => Has(q, type, t)
         /\ \A type, t : Once(q, type, t) => Once(r, type, t)
  <1>1. CASE r = q
      BY <1>1 DEF Has
  <1>2. CASE r = <<>>
      BY <1>2 DEF Has, Once
  <1>3. CASE q # <<>> /\ r = Tail(q)
      <2>1. /\ Len(r) = Len(q) - 1 /\ Len(q) \in Nat
            /\ \A i \in 1 .. Len(r) : i + 1 \in 1 .. Len(q) /\ r[i] = q[i + 1]
          BY <1>3
      <2>2. \A type, t : Has(r, type, t) => Has(q, type, t)
          BY <2>1 DEF Has
      <2>3. \A type, t : Once(q, type, t) => Once(r, type, t)
          <3> SUFFICES ASSUME NEW type, NEW t, Once(q, type, t),
                              NEW i \in 1 .. Len(r), NEW j \in 1 .. Len(r),
                              About(r[i], type, t), About(r[j], type, t)
                       PROVE  i = j
              BY Zenon DEF Once
          <3>1. i + 1 = j + 1
              BY <2>1 DEF Once
          <3> QED
              BY <2>1, <3>1
      <2> QED
          BY <2>1, <2>2, <2>3
  <1> QED
      BY <1>1, <1>2, <1>3 DEF Shrinks

(* The one frame of its kind is taken: none is left.                       *)
LEMMA TakenOnce ==
  ASSUME NEW T, NEW q \in Seq(T), q # <<>>, NEW type, NEW t, About(Head(q), type, t), Once(q, type, t)
  PROVE  Has(q, type, t) /\ ~Has(Tail(q), type, t)
  <1>1. /\ 1 \in 1 .. Len(q) /\ q[1] = Head(q) /\ Len(Tail(q)) = Len(q) - 1 /\ Len(q) \in Nat
        /\ \A i \in 1 .. Len(Tail(q)) : i + 1 \in 1 .. Len(q) /\ i + 1 # 1 /\ Tail(q)[i] = q[i + 1]
      OBVIOUS
  <1>2. Has(q, type, t)
      BY <1>1 DEF Has
  <1>3. ~Has(Tail(q), type, t)
      BY <1>1 DEF Has, Once
  <1> QED
      BY <1>2, <1>3

(* What a queue holds when one frame more is in it.                        *)
LEMMA Appended ==
  ASSUME NEW T, NEW q \in Seq(T), NEW f \in T
  PROVE  /\ \A i \in 1 .. Len(Append(q, f)) : Append(q, f)[i] = f \/ \E j \in 1 .. Len(q) : Append(q, f)[i] = q[j]
         /\ \A type, t : Has(Append(q, f), type, t) <=> Has(q, type, t) \/ About(f, type, t)
         /\ \A type, t : Once(q, type, t) /\ (About(f, type, t) => ~Has(q, type, t))
                             => Once(Append(q, f), type, t)
  <1> DEFINE r == Append(q, f)
  <1>1. /\ Len(r) = Len(q) + 1 /\ Len(q) \in Nat /\ r[Len(r)] = f
        /\ \A i \in 1 .. Len(r) : i \in 1 .. Len(q) \/ i = Len(r)
        /\ \A i \in 1 .. Len(q) : i \in 1 .. Len(r) /\ r[i] = q[i] /\ i # Len(r)
      OBVIOUS
  <1> HIDE DEF r
  <1>2. \A type, t : Has(r, type, t) <=> Has(q, type, t) \/ About(f, type, t)
      BY <1>1 DEF Has
  <1>3. ASSUME NEW type, NEW t, Once(q, type, t), About(f, type, t) => ~Has(q, type, t)
        PROVE  Once(r, type, t)
      BY <1>1, <1>3 DEF Once, Has
  <1>4. \A i \in 1 .. Len(r) : r[i] = f \/ \E j \in 1 .. Len(q) : r[i] = q[j]
      BY <1>1
  <1> QED
      BY <1>2, <1>3, <1>4 DEF r

(* The frames of parcels.                                                  *)
LEMMA FramesTyped ==
  ASSUME NEW q \in Seq(Parcel)
  PROVE  /\ Frames(q) \in Seq(Frame) /\ Len(Frames(q)) = Len(q)
         /\ \A i \in 1 .. Len(q) : Frames(q)[i] = q[i].frame /\ q[i].to \in Person /\ q[i].frame \in Frame
         /\ q # <<>> => /\ Frames(q) # <<>> /\ Head(Frames(q)) = Head(q).frame
                        /\ Frames(Tail(q)) = Tail(Frames(q))
  <1>1. Len(q) \in Nat /\ \A i \in 1 .. Len(q) : q[i] \in Parcel
      OBVIOUS
  <1>2. Frames(q) \in [1 .. Len(q) -> Frame]
      BY <1>1 DEF Frames, Parcel
  <1>3. /\ Frames(q) \in Seq(Frame) /\ Len(Frames(q)) = Len(q)
        /\ \A i \in 1 .. Len(q) : Frames(q)[i] = q[i].frame /\ q[i].to \in Person /\ q[i].frame \in Frame
      BY <1>1, <1>2 DEF Frames, Parcel
  <1>4. ASSUME q # <<>>
        PROVE  /\ Frames(q) # <<>> /\ Head(Frames(q)) = Head(q).frame
               /\ Frames(Tail(q)) = Tail(Frames(q))
      <2>1. /\ Tail(q) \in Seq(Parcel) /\ Len(Tail(q)) = Len(q) - 1 /\ 1 \in 1 .. Len(q)
            /\ \A i \in 1 .. Len(q) - 1 : Tail(q)[i] = q[i + 1] /\ i + 1 \in 1 .. Len(q)
          BY <1>4
      <2>2. Frames(q) # <<>> /\ Head(Frames(q)) = Head(q).frame
          BY <1>3, <1>4
      <2>3. /\ Len(Tail(Frames(q))) = Len(q) - 1 /\ Tail(Frames(q)) \in Seq(Frame)
            /\ \A i \in 1 .. Len(q) - 1 : Tail(Frames(q))[i] = Frames(q)[i + 1]
          BY <1>3, <2>2
      <2>4. /\ Frames(Tail(q)) = [i \in 1 .. Len(q) - 1 |-> Tail(q)[i].frame]
            /\ Tail(Frames(q)) = [i \in 1 .. Len(q) - 1 |-> Tail(Frames(q))[i]]
          BY <2>1, <2>3 DEF Frames
      <2>5. \A i \in 1 .. Len(q) - 1 : Tail(q)[i].frame = Tail(Frames(q))[i]
          BY <1>3, <2>1, <2>3
      <2> QED
          BY <2>2, <2>4, <2>5
  <1> QED
      BY <1>3, <1>4

Goroutines == Conn \cup {Clock}
Asks(s, ats, t) == screen[s].at \in ats /\ screen[s].id = t
Books(c, t) == handler[c].at = "book" /\ handler[c].id = t
Concludes(d, t) == reader[d].at \in {"verify", "finish"} /\ reader[d].id = t

(* An offer before the server has it, wherever it is.                      *)
Asked(k, x, t) ==
    \/ k = "call" /\ x \in Screen /\ Asks(x, {"hash", "offer"}, t)
    \/ k = "wire" /\ x \in Conn /\ Has(toServer[x], "offer", t)
    \/ k = "book" /\ x \in Conn /\ Books(x, t)

(* What the server says of a transfer, until its receiver is through with  *)
(* it.                                                                     *)
Told(type, k, x, t) ==
    \/ k = "queue" /\ x \in Goroutines /\ Has(Frames(pending[x]), type, t)
    \/ k = "wire" /\ x \in Daemon /\ Has(Inbox(x), type, t)
    \/ k = "reader" /\ type = "done" /\ x \in Daemon /\ Concludes(x, t)

Asking(t) == \E k, x : Asked(k, x, t)
Telling(type, t) == \E k, x : Told(type, k, x, t)

(* The receiver is about to be told that the transfer is off.              *)
Refusing(t) ==
    \/ \E g \in Goroutines : \E i \in 1 .. Len(pending[g]) :
           pending[g][i].to = Target[t] /\ About(pending[g][i].frame, "decline", t)
    \/ \E d \in Daemon : Receives(d, t) /\ Has(Inbox(d), "decline", t)

(* The server has heard of the end of a transfer, or will not hear of it.  *)
Off(t) == relay[t].state = "none" /\ ~Telling("done", t) /\ ~Refusing(t)

Undecided(d, t) ==
    \/ row[d][t].state \in {"none", "incoming"}
    \/ \E s \in Screen : ScreenOf[s] = d /\ Asks(s, {"accept", "create", "run", "decline", "refuse"}, t)
Decided(t) == \A d \in Daemon : Receives(d, t) => ~Undecided(d, t)

(* A sign that the receiver has said yes.                                  *)
Yes == {"accept", "chunk", "done"}
Accepting(t) ==
    \/ \E c \in Conn, type \in Yes : Has(toServer[c], type, t)
    \/ \E g \in Goroutines, type \in Yes : Has(Frames(pending[g]), type, t)
    \/ \E d \in Daemon, type \in Yes : Has(Inbox(d), type, t)
    \/ \E d \in Daemon : reader[d].at = "start" /\ reader[d].id = t
    \/ \E d \in Daemon : Concludes(d, t)
    \/ pusher[t].at # "no"
    \/ \E d \in Daemon : Receives(d, t) /\ row[d][t].state = "done"

(* A socket is open only where somebody listens.                           *)
Wired ==
    \A c \in Conn :
        /\ open[c] => \E d \in Daemon : link[d] = c
        /\ (\A d \in Daemon : link[d] # c) => toClient[c] = <<>>

(* A goroutine that books or cleans up has sent what it had to.            *)
SentAll == \A c \in Conn : handler[c].at \in {"book", "leave"} => pending[c] = <<>>

(* Who has a row of a transfer, who a call about it, who works on it.      *)
EndsOnly ==
    /\ \A d \in Daemon, t \in Transfer :
        /\ row[d][t].state # "none" => d = Sender[t] \/ Receives(d, t)
        /\ row[d][t].state = "offered" => d = Sender[t]
        /\ row[d][t].state = "incoming" => Receives(d, t)
        /\ row[d][t].path # None => Receives(d, t) /\ ~Undecided(d, t)
    /\ \A s \in Screen :
        /\ screen[s].at \notin {"idle", "hash"} => row[ScreenOf[s]][screen[s].id].state # "none"
        /\ screen[s].at = "hash" => row[ScreenOf[s]][screen[s].id].state = "none"
        /\ screen[s].at \in {"accept", "create", "run", "answer"} => Receives(ScreenOf[s], screen[s].id)
    /\ \A d \in Daemon :
        /\ reader[d].at = "start" => d = Sender[reader[d].id] /\ row[d][reader[d].id].state # "none"
        /\ reader[d].at \in {"verify", "finish"} => Receives(d, reader[d].id)
    /\ \A t \in Transfer : pusher[t].at # "no" => row[Sender[t]][t].state # "none"

(* Who has accepted has no other call about it to come, and says it once.  *)
AcceptedIsDecided ==
    \A t \in Transfer :
        /\ Accepting(t) => Decided(t)
        /\ \A s \in Screen : Asks(s, {"answer"}, t) => Decided(t) /\ ~Accepting(t)

(* Offers and ends are told to the receiver.                               *)
Aimed ==
    /\ \A g \in Goroutines : \A i \in 1 .. Len(pending[g]) :
           pending[g][i].frame.t \in {"offer", "done"} => pending[g][i].to = Target[pending[g][i].frame.id]
    /\ \A d \in Daemon : \A i \in 1 .. Len(Inbox(d)) :
           Inbox(d)[i].t \in {"offer", "done"} => Receives(d, Inbox(d)[i].id)

(* There is one of them at most, in one place.                             *)
AskedOnce(t) ==
    /\ \A k, x, l, y : Asked(k, x, t) /\ Asked(l, y, t) => k = l /\ x = y
    /\ \A c \in Conn : Once(toServer[c], "offer", t)
ToldOnce(type, t) ==
    /\ \A k, x, l, y : Told(type, k, x, t) /\ Told(type, l, y, t) => k = l /\ x = y
    /\ \A g \in Goroutines : Once(Frames(pending[g]), type, t)
    /\ \A d \in Daemon : Once(Inbox(d), type, t)

(* The receiver has not heard of it.                                       *)
Unread(t) == \A d \in Daemon : Receives(d, t) => row[d][t].state = "none"

OfferOnce ==
    \A t \in Transfer :
        /\ AskedOnce(t) /\ ToldOnce("offer", t)
        /\ Asking(t) => Off(t) /\ ~Telling("offer", t)
        /\ Asking(t) \/ Telling("offer", t) => Unread(t)
        /\ row[Sender[t]][t].state = "none" =>
               /\ Off(t) /\ ~Telling("offer", t) /\ Unread(t)
               /\ \A k, x : Asked(k, x, t) => k = "call" /\ screen[x].at = "hash"

EndOnce ==
    \A t \in Transfer :
        /\ ToldOnce("done", t)
        /\ Telling("done", t) => ~Refusing(t)
        /\ Telling("done", t) \/ Refusing(t) => relay[t].state = "none"
        /\ \A d \in Daemon : Receives(d, t) /\ row[d][t].state = "done" => Off(t)

(* The path of a transfer that is over and failed is nobody's.             *)
Claims(d, t, p) ==
    \/ file[d][t] = p
    \/ \E s \in Screen : ScreenOf[s] = d /\ Asks(s, {"run"}, t) /\ screen[s].path = p
    \/ row[d][t].path = p /\ ~(row[d][t].state = "failed" /\ Off(t))

ClaimedOnce ==
    \A d \in Daemon, t \in Transfer, p \in Path :
        Claims(d, t, p) => /\ p \in DOMAIN disk[d]
                           /\ \A u \in Transfer : Claims(d, u, p) => u = t

Saved ==
    /\ \A d \in Daemon :
        reader[d].at \in {"verify", "finish"} =>
            /\ reader[d].path = row[d][reader[d].id].path /\ file[d][reader[d].id] = None
            /\ reader[d].at = "finish" /\ reader[d].path # None => disk[d][reader[d].path] = Whole
    /\ \A d \in Daemon, t \in Transfer :
         Receives(d, t) /\ row[d][t].state = "done" =>
            /\ file[d][t] = None
            /\ row[d][t].path # None => disk[d][row[d][t].path] = Whole

SInv == /\ IInv /\ Wired /\ SentAll /\ EndsOnly /\ AcceptedIsDecided /\ Aimed /\ OfferOnce /\ EndOnce
        /\ ClaimedOnce /\ Saved

(* Refuse and Deliver reach sockets that are open.                         *)
LEMMA WiredStep ==
  ASSUME RelayOK, HandlerOK, FramesOK, LinksOK, Wired, [Next]_vars
  PROVE  Wired'
  <1>a. ASSUME UNCHANGED <<open, link>>,
               \A c \in Conn : toClient'[c] = toClient[c] \/ open[c] \/ \E d \in Daemon : link[d] = c
        PROVE  Wired'
      BY <1>a DEF Wired
  <1>b. ASSUME UNCHANGED <<open, link, toClient>> PROVE Wired'
      BY <1>a, <1>b
  <1>1. ASSUME NEW c \in Conn, Relaying(c) PROVE Wired'
      <2>1. UNCHANGED <<open, link>>
          BY <1>1, ServerLeaves DEF client
      <2>2. ASSUME NEW f, Refuse(c, f) PROVE Wired'
          BY <1>a, <2>1, <2>2 DEF Refuse, FramesOK
      <2>3. CASE OnOffer(c) \/ Book(c)
          <3>1. UNCHANGED toClient \/ \E f : Refuse(c, f)
              BY <2>3, Zenon DEF OnOffer, Book
          <3> QED
              BY <1>b, <2>1, <2>2, <3>1
      <2>4. CASE Deliver(c)
          BY <1>a, <2>1, <2>4 DEF Deliver
      <2>5. CASE OnAccept(c) \/ OnDecline(c) \/ OnChunk(c) \/ OnDone(c)
          BY <1>b, <2>1, <2>5, Passed DEF Pass
      <2>6. CASE HangUp(c) \/ FailTransfersOf(c)
          BY <1>b, <2>1, <2>6, Zenon DEF HangUp, FailTransfersOf, wires
      <2> QED
          BY <1>1, <2>3, <2>4, <2>5, <2>6 DEF Relaying
  <1>2. ASSUME NEW c \in Conn, Break(c) PROVE Wired'
      <2>1. UNCHANGED <<toClient, link>> /\ open' = [open EXCEPT ![c] = FALSE]
          BY <1>2 DEF Break, client
      <2> QED
          BY <2>1 DEF Wired, LinksOK
  <1>3. CASE Deliver(Clock)
      BY <1>3, <1>a DEF Deliver, client
  <1>4. ASSUME NEW t \in Transfer, Expire(t) PROVE Wired'
      BY <1>4, <1>b DEF Expire, wires, client
  <1>5. ASSUME NEW t \in Transfer, Pushing(t) PROVE Wired'
      BY <1>5, <1>b, ClientLeaves
  <1>6. ASSUME NEW d \in Daemon, Linked(d) PROVE Wired'
      <2>1. CASE Drop(d)
          <3>1. /\ reader[d].at = "read" /\ ~open[link[d]] /\ link' = [link EXCEPT ![d] = None]
                /\ toClient' = [toClient EXCEPT ![link[d]] = <<>>] /\ UNCHANGED open
              BY <2>1 DEF Drop
          <3>2. link[d] \in Conn
              BY <3>1 DEF LinksOK
          <3>3. ASSUME NEW c \in Conn, c # link[d]
                PROVE  /\ open'[c] => \E e \in Daemon : link'[e] = c
                       /\ (\A e \in Daemon : link'[e] # c) => toClient'[c] = <<>>
              <4>1. toClient'[c] = toClient[c] /\ open'[c] = open[c]
                  BY <3>1, <3>2, <3>3 DEF FramesOK
              <4>2. \A e \in Daemon : link[e] = c => link'[e] = c
                  BY <3>1, <3>3 DEF LinksOK
              <4> QED
                  BY <4>1, <4>2 DEF Wired
          <3>4. ~open'[link[d]] /\ toClient'[link[d]] = <<>>
              BY <3>1, <3>2 DEF FramesOK
          <3> QED
              BY <3>3, <3>4 DEF Wired
      <2>2. CASE FailLiveTransfers(d) \/ StartPush(d) \/ Verify(d) \/ Finish(d)
          BY <1>b, <2>2, Zenon DEF FailLiveTransfers, StartPush, Verify, Finish, wires
      <2>3. ASSUME NEW t \in Transfer, ReadOffer(d, t) \/ ReadAccept(d, t) \/ ReadDecline(d, t)
                                       \/ ReadChunk(d, t) \/ ReadDone(d, t)
            PROVE  Wired'
          <3>1. (\E type : Reads(d, type, t)) /\ UNCHANGED <<open, link>>
              BY <2>3, Zenon DEF ReadOffer, ReadAccept, ReadDecline, ReadChunk, ReadDone
          <3>2. toClient' = [toClient EXCEPT ![link[d]] = Tail(@)]
              BY <3>1, Zenon DEF Reads
          <3> QED
              BY <1>a, <3>1, <3>2 DEF FramesOK
      <2> QED
          BY <1>6, <2>1, <2>2, <2>3 DEF Linked
  <1>7. ASSUME NEW d \in Daemon, NEW c \in Conn, Enrol(d, c) PROVE Wired'
      <2>1. /\ link[d] = None /\ open' = [open EXCEPT ![c] = TRUE] /\ link' = [link EXCEPT ![d] = c]
            /\ UNCHANGED toClient
          BY <1>7 DEF Enrol
      <2>2. link'[d] = c /\ \A e \in Daemon : e # d => link'[e] = link[e]
          BY <2>1 DEF LinksOK
      <2>3. \A k \in Conn : k # c => open'[k] = open[k]
          BY <2>1 DEF LinksOK
      <2>4. None \notin Conn
          BY ConstantsAssumption
      <2> QED
          BY <2>1, <2>2, <2>3, <2>4 DEF Wired
  <1>8. ASSUME NEW s \in Screen, Calling(s) PROVE Wired'
      BY <1>8, <1>b, ClientLeaves
  <1>9. ASSUME NEW s \in Screen, NEW t \in Transfer, Offer(s, t) \/ Choose(s, t) PROVE Wired'
      BY <1>9, <1>b, ClientLeaves DEF wires
  <1>10. CASE UNCHANGED vars
      BY <1>10, <1>b DEF vars, wires, client
  <1> QED
      BY <1>1, <1>2, <1>3, <1>4, <1>5, <1>6, <1>7, <1>8, <1>9, <1>10 DEF Next

----------------------------------------------------------------------------
(* What a step does to the queues.                                         *)

(* A frame that a goroutine is about to send was caused by the end it is   *)
(* about, by what one of the ends sent, or by the booking of an offer.     *)
Caused(s) ==
    LET t == s.frame.id
        type == s.frame.t
    IN /\ t \in Transfer
       /\ type = "offer" => /\ s.to = Target[t] /\ relay[t].state = "none"
                            /\ \E c \in Conn : Books(c, t) /\ handler'[c].at # "book"
       /\ type = "done" => s.to = Target[t]
       /\ type \in {"decline", "done"} => relay[t].state # "none" /\ relay'[t].state = "none"
       /\ type \in Yes => \E c \in Conn : Has(toServer[c], type, t)

Puts(g, frames) ==
    /\ pending[g] = <<>> /\ pending' = [pending EXCEPT ![g] = frames]
    /\ \A d \in Daemon :
          \/ Inbox(d)' = Inbox(d)
          \/ \E u \in Transfer : From(u) = Identity[d] /\ Inbox(d)' = Append(Inbox(d), FrameOf("decline", u, 0))
    /\ Len(frames) > 1 => \A i \in 1 .. Len(frames) : frames[i].frame.t = "decline"
    /\ \A i \in 1 .. Len(frames) : Caused(frames[i])

Sends(g) ==
    LET s == Head(pending[g])
    IN /\ pending[g] # <<>> /\ pending' = [pending EXCEPT ![g] = Tail(@)]
       /\ \A d \in Daemon : \/ Inbox(d)' = Inbox(d)
                            \/ Identity[d] = s.to /\ Inbox(d)' = Append(Inbox(d), s.frame)

Hears == UNCHANGED pending /\ \A d \in Daemon : Shrinks(Inbox(d), Inbox(d)')

(* A client's steps read from its inbox or lose it.                        *)
LEMMA ClientHears ==
  ASSUME FramesOK, LinksOK, Wired,
         \/ \E d \in Daemon : Linked(d) \/ \E c \in Conn : Enrol(d, c)
         \/ \E t \in Transfer : Pushing(t)
         \/ \E s \in Screen : Calling(s) \/ \E t \in Transfer : Offer(s, t) \/ Choose(s, t)
         \/ \E c \in Conn : Break(c)
         \/ UNCHANGED vars
  PROVE  Hears
  <1>a. ASSUME UNCHANGED <<pending, link, toClient>> PROVE Hears
      BY <1>a DEF Hears, Inbox, Shrinks
  <1>1. ASSUME NEW d \in Daemon, Linked(d) PROVE Hears
      <2>0. UNCHANGED pending
          BY <1>1, ClientLeaves DEF server
      <2>1. CASE Drop(d)
          <3>1. /\ link' = [link EXCEPT ![d] = None] /\ toClient' = [toClient EXCEPT ![link[d]] = <<>>]
                /\ None \notin Conn
              BY <2>1, ConstantsAssumption DEF Drop
          <3>2. ASSUME NEW e \in Daemon PROVE Shrinks(Inbox(e), Inbox(e)')
              <4>1. CASE e = d
                  BY <3>1, <4>1 DEF LinksOK, Inbox, Shrinks
              <4>2. CASE e # d
                  <5>1. link'[e] = link[e]
                      BY <3>1, <4>2 DEF LinksOK
                  <5>2. link[e] \in Conn => toClient'[link[e]] = toClient[link[e]] \/ toClient'[link[e]] = <<>>
                      BY <3>1 DEF FramesOK
                  <5> QED
                      BY <5>1, <5>2 DEF Inbox, Shrinks
              <4> QED
                  BY <4>1, <4>2
          <3> QED
              BY <2>0, <3>2 DEF Hears
      <2>2. CASE FailLiveTransfers(d) \/ StartPush(d) \/ Verify(d) \/ Finish(d)
          BY <1>a, <2>0, <2>2, Zenon DEF FailLiveTransfers, StartPush, Verify, Finish, wires
      <2>3. ASSUME NEW t \in Transfer, ReadOffer(d, t) \/ ReadAccept(d, t) \/ ReadDecline(d, t)
                                       \/ ReadChunk(d, t) \/ ReadDone(d, t)
            PROVE  Hears
          <3>1. (\E type : Reads(d, type, t)) /\ UNCHANGED link
              BY <2>3, Zenon DEF ReadOffer, ReadAccept, ReadDecline, ReadChunk, ReadDone
          <3>2. toClient' = [toClient EXCEPT ![link[d]] = Tail(@)] /\ toClient[link[d]] # <<>>
              BY <3>1, Zenon DEF Reads
          <3>3. ASSUME NEW c \in Conn
                PROVE  \/ toClient'[c] = toClient[c]
                       \/ toClient[c] # <<>> /\ toClient'[c] = Tail(toClient[c])
              BY <3>2 DEF FramesOK
          <3> QED
              BY <2>0, <3>1, <3>3 DEF Hears, Inbox, Shrinks
      <2> QED
          BY <1>1, <2>1, <2>2, <2>3 DEF Linked
  <1>2. ASSUME NEW d \in Daemon, NEW c \in Conn, Enrol(d, c) PROVE Hears
      <2>1. /\ link' = [link EXCEPT ![d] = c] /\ UNCHANGED <<pending, toClient>>
            /\ \A e \in Daemon : link[e] # c
          BY <1>2 DEF Enrol
      <2>2. toClient[c] = <<>>
          BY <2>1 DEF Wired
      <2> QED
          BY <2>1, <2>2 DEF LinksOK, Hears, Inbox, Shrinks
  <1>3. ASSUME NEW t \in Transfer, Pushing(t) PROVE Hears
      BY <1>3, <1>a, ClientLeaves DEF server
  <1>4. ASSUME NEW s \in Screen, Calling(s) PROVE Hears
      BY <1>4, <1>a, ClientLeaves DEF server
  <1>5. ASSUME NEW s \in Screen, NEW t \in Transfer, Offer(s, t) \/ Choose(s, t) PROVE Hears
      BY <1>5, <1>a, ClientLeaves DEF server, wires
  <1>6. ASSUME NEW c \in Conn, Break(c) PROVE Hears
      BY <1>6, <1>a, ClientLeaves DEF server, client
  <1>7. CASE UNCHANGED vars
      BY <1>7, <1>a DEF vars, server, wires, client
  <1> QED
      BY <1>1, <1>2, <1>3, <1>4, <1>5, <1>6, <1>7

(* A frame for a connection goes into the inbox of who is at its end.      *)
LEMMA InboxOf ==
  ASSUME LinksOK, FramesOK, Served, NEW d \in Daemon, NEW c \in Conn, open[c], link[d] = c
  PROVE  Peer(c) = Identity[d]
  BY DEF Served, Peer

(* A refusal by a handler reaches the daemon that offered, or nobody.      *)
LEMMA RefusedTo ==
  ASSUME LinksOK, FramesOK, Served, UNCHANGED link, NEW c \in Conn, NEW t \in Transfer,
         From(t) = Peer(c), Refuse(c, FrameOf("decline", t, 0))
  PROVE  \A d \in Daemon :
            \/ Inbox(d)' = Inbox(d)
            \/ \E u \in Transfer : From(u) = Identity[d] /\ Inbox(d)' = Append(Inbox(d), FrameOf("decline", u, 0))
  <1> SUFFICES ASSUME NEW d \in Daemon, Inbox(d)' # Inbox(d)
               PROVE  From(t) = Identity[d] /\ Inbox(d)' = Append(Inbox(d), FrameOf("decline", t, 0))
      OBVIOUS
  <1>1. link[d] = c /\ open[c]
      BY DEF Inbox, Refuse, FramesOK, LinksOK
  <1>2. Inbox(d)' = Append(Inbox(d), FrameOf("decline", t, 0))
      BY <1>1 DEF Inbox, Refuse, FramesOK
  <1> QED
      BY <1>1, <1>2, InboxOf

(* What a server goroutine takes is about a transfer.                      *)
LEMMA TakenHas ==
  ASSUME FramesOK, NEW c \in Conn, NEW type, Takes(c, type)
  PROVE  Head(toServer[c]).id \in Transfer /\ Has(toServer[c], type, Head(toServer[c]).id)
  <1>1. toServer[c] \in Seq(Frame) /\ toServer[c] # <<>> /\ Head(toServer[c]).t = type
      BY Taken
  <1>2. 1 \in 1 .. Len(toServer[c]) /\ toServer[c][1] = Head(toServer[c])
      BY <1>1
  <1> QED
      BY <1>1, <1>2, Taken DEF Has, About

(* Deliver puts one frame into the inboxes of one person.                  *)
LEMMA Delivers ==
  ASSUME FramesOK, LinksOK, HandlerOK, Served, NEW g \in Goroutines, Deliver(g)
  PROVE  Sends(g)
  <1> DEFINE s == Head(pending[g])
  <1>1. /\ pending[g] # <<>> /\ pending' = [pending EXCEPT ![g] = Tail(@)] /\ UNCHANGED link
        /\ toClient' = [c \in Conn |-> IF c \in ConnsOf(s.to) /\ open[c]
                                       THEN Append(toClient[c], s.frame) ELSE toClient[c]]
      BY DEF Deliver, client
  <1> HIDE DEF s
  <1>2. ASSUME NEW d \in Daemon
        PROVE  Inbox(d)' = Inbox(d) \/ (Identity[d] = s.to /\ Inbox(d)' = Append(Inbox(d), s.frame))
      <2>1. CASE link[d] \in Conn /\ link[d] \in ConnsOf(s.to) /\ open[link[d]]
          <3>1. Peer(link[d]) = Identity[d]
              BY <2>1, InboxOf
          <3> QED
              BY <1>1, <2>1, <3>1 DEF Inbox, ConnsOf
      <2>2. CASE ~(link[d] \in Conn /\ link[d] \in ConnsOf(s.to) /\ open[link[d]])
          BY <1>1, <2>2 DEF Inbox
      <2> QED
          BY <2>1, <2>2
  <1> QED
      BY <1>1, <1>2 DEF Sends, s

(* A handler that passes something on, or nothing.                         *)
LEMMA PassPuts ==
  ASSUME FramesOK, NEW c \in Conn, NEW t, NEW new, NEW frames, Pass(c, t, new, frames),
         pending[c] = <<>>,
         Len(frames) > 1 => \A i \in 1 .. Len(frames) : frames[i].frame.t = "decline",
         \A i \in 1 .. Len(frames) : Caused(frames[i])
  PROVE  Puts(c, frames)
  <1>1. pending' = [pending EXCEPT ![c] = frames] /\ UNCHANGED <<toClient, link>>
      BY DEF Pass, client
  <1>2. \A d \in Daemon : Inbox(d)' = Inbox(d)
      BY <1>1 DEF Inbox
  <1> QED
      BY <1>1, <1>2 DEF Puts

(* What the frames that the handlers pass on are caused by.                *)
LEMMA EndCaused ==
  ASSUME NEW t \in Transfer, NEW p, NEW n, relay[t].state # "none", relay'[t].state = "none"
  PROVE  Caused(To(p, FrameOf("decline", t, n)))
  BY DEF Caused, To, FrameOf, Yes

(* A step of the server leaves what is said alone, or sends one frame, or  *)
(* decides to send some.                                                   *)
LEMMA ServerPuts ==
  ASSUME RelayOK, HandlerOK, FramesOK, LinksOK, Served, OffersAreOwn, SentAll,
         \/ \E c \in Conn : Relaying(c)
         \/ Deliver(Clock) \/ \E t \in Transfer : Expire(t)
  PROVE  \/ Hears
         \/ \E g \in Goroutines : Sends(g)
         \/ \E g \in Goroutines, frames \in Seq(Parcel) : Puts(g, frames)
  <1> USE Bounds
  <1>n. /\ <<>> \in Seq(Parcel) /\ Len(<<>>) = 0
        /\ \A s \in Parcel : <<s>> \in Seq(Parcel) /\ Len(<<s>>) = 1 /\ \A i \in 1 .. 1 : <<s>>[i] = s
        /\ \A r, s \in Parcel : <<r, s>> \in Seq(Parcel) /\ Len(<<r, s>>) = 2
                                /\ \A i \in 1 .. 2 : <<r, s>>[i] \in {r, s}
      OBVIOUS
  <1>g. Conn \subseteq Goroutines /\ Clock \in Goroutines
      BY DEF Goroutines
  <1>1. ASSUME NEW g \in Goroutines, Deliver(g) PROVE Sends(g)
      BY <1>1, Delivers
  <1>2. ASSUME NEW c \in Conn, OnOffer(c) PROVE Hears \/ Puts(c, <<>>)
      <2> DEFINE t == Head(toServer[c]).id
      <2>1. Takes(c, "offer") /\ UNCHANGED <<pending, link>>
          BY <1>2, Zenon DEF OnOffer, client
      <2>2. t \in Transfer /\ From(t) = Peer(c)
          <3>1. /\ toServer[c] \in Seq(Frame) /\ toServer[c] # <<>> /\ t \in Transfer
                /\ Head(toServer[c]).t = "offer"
              BY <2>1, Taken
          <3>2. 1 \in 1 .. Len(toServer[c]) /\ toServer[c][1] = Head(toServer[c])
              BY <3>1
          <3> QED
              BY <3>1, <3>2 DEF OffersAreOwn
      <2>3. CASE UNCHANGED toClient
          BY <2>1, <2>3 DEF Hears, Inbox, Shrinks
      <2>4. CASE Refuse(c, FrameOf("decline", t, 0))
          <3>1. pending[c] = <<>> /\ pending' = [pending EXCEPT ![c] = <<>>]
              BY <2>1 DEF Takes, FramesOK
          <3> HIDE DEF t
          <3>2. \A d \in Daemon :
                  \/ Inbox(d)' = Inbox(d)
                  \/ \E u \in Transfer : From(u) = Identity[d]
                                         /\ Inbox(d)' = Append(Inbox(d), FrameOf("decline", u, 0))
              BY <2>1, <2>2, <2>4, RefusedTo
          <3> QED
              BY <1>n, <3>1, <3>2 DEF Puts
      <2>5. UNCHANGED toClient \/ Refuse(c, FrameOf("decline", t, 0))
          BY <1>2, Zenon DEF OnOffer
      <2> QED
          BY <2>3, <2>4, <2>5
  <1>3. ASSUME NEW c \in Conn, Book(c) PROVE \E frames \in Seq(Parcel) : Puts(c, frames)
      <2> DEFINE t == handler[c].id
      <2> DEFINE carried == ~(relay[t].state # "none") /\ ~(Cardinality(TransfersOf(Peer(c))) >= MaxOpen)
      <2> DEFINE frames == IF carried THEN <<To(Target[t], FrameOf("offer", t, 0))>> ELSE <<>>
      <2>1. /\ handler[c].at = "book" /\ UNCHANGED link
            /\ handler' = [handler EXCEPT ![c].at = "read", ![c].id = None]
            /\ pending' = [pending EXCEPT ![c] = frames]
            /\ UNCHANGED toClient \/ Refuse(c, FrameOf("decline", t, 0))
          BY <1>3, Zenon DEF Book, client
      <2>2. t \in Transfer /\ From(t) = Peer(c) /\ pending[c] = <<>>
          BY <2>1 DEF HandlerOK, OffersAreOwn, SentAll
      <2>3. \A d \in Daemon :
              \/ Inbox(d)' = Inbox(d)
              \/ \E u \in Transfer : From(u) = Identity[d]
                                     /\ Inbox(d)' = Append(Inbox(d), FrameOf("decline", u, 0))
          <3>1. CASE UNCHANGED toClient
              BY <2>1, <3>1 DEF Inbox
          <3>2. CASE Refuse(c, FrameOf("decline", t, 0))
              <4> HIDE DEF t
              <4> QED
                  BY <2>1, <2>2, <3>2, RefusedTo
          <3> QED
              BY <2>1, <3>1, <3>2
      <2> HIDE DEF t
      <2>4. Caused(To(Target[t], FrameOf("offer", t, 0))) \/ ~carried
          <3> SUFFICES ASSUME carried PROVE Caused(To(Target[t], FrameOf("offer", t, 0)))
              OBVIOUS
          <3>1. relay[t].state = "none" /\ Books(c, t)
              BY <2>1 DEF Books, t
          <3>2. handler'[c].at # "book"
              BY <2>1 DEF HandlerOK, Goroutine
          <3> QED
              BY <2>2, <3>1, <3>2 DEF Caused, To, FrameOf, Yes
      <2>5. To(Target[t], FrameOf("offer", t, 0)) \in Parcel
          BY <2>2, FrameTyped, ParcelTyped
      <2> HIDE DEF carried
      <2>6. frames \in Seq(Parcel) /\ Puts(c, frames)
          <3>1. CASE carried
              <4>1. frames = <<To(Target[t], FrameOf("offer", t, 0))>>
                  BY <3>1
              <4>2. /\ frames \in Seq(Parcel) /\ Len(frames) = 1
                    /\ \A i \in 1 .. Len(frames) : frames[i] = To(Target[t], FrameOf("offer", t, 0))
                  BY <1>n, <2>5, <4>1
              <4> HIDE DEF frames
              <4>3. Caused(To(Target[t], FrameOf("offer", t, 0)))
                  BY <2>4, <3>1
              <4>4. \A i \in 1 .. Len(frames) : Caused(frames[i])
                  BY <4>2, <4>3
              <4> QED
                  BY <2>1, <2>2, <2>3, <4>2, <4>4 DEF Puts
          <3>2. CASE ~carried
              <4>1. frames = <<>>
                  BY <3>2
              <4> HIDE DEF frames
              <4> QED
                  BY <1>n, <2>1, <2>2, <2>3, <4>1 DEF Puts
          <3> QED
              BY <3>1, <3>2
      <2> QED
          BY <2>6
  <1> DEFINE Handled(c) == \E frames \in Seq(Parcel) : Puts(c, frames)
  <1>p. ASSUME NEW c \in Conn, NEW t, NEW new, Pass(c, t, new, <<>>), pending[c] = <<>> PROVE Handled(c)
      <2>1. Puts(c, <<>>)
          BY <1>n, <1>p, PassPuts
      <2> QED
          BY <1>n, <2>1
  <1>q. ASSUME NEW c \in Conn, NEW t, NEW new, NEW s \in Parcel, Pass(c, t, new, <<s>>),
               pending[c] = <<>>, Caused(s)
        PROVE  Handled(c)
      <2> DEFINE frames == <<s>>
      <2>1. frames \in Seq(Parcel) /\ Len(frames) = 1 /\ \A i \in 1 .. Len(frames) : frames[i] = s
          BY <1>n
      <2>2. Pass(c, t, new, frames)
          BY <1>q
      <2> HIDE DEF frames
      <2>4. \A i \in 1 .. Len(frames) : Caused(frames[i])
          BY <1>q, <2>1
      <2>5. Len(frames) > 1 => \A i \in 1 .. Len(frames) : frames[i].frame.t = "decline"
          BY <2>1
      <2>3. Puts(c, frames)
          BY <1>q, <2>2, <2>4, <2>5, PassPuts
      <2> QED
          BY <2>1, <2>3
  <1>r. ASSUME NEW c \in Conn, NEW t, NEW new, NEW r \in Parcel, NEW s \in Parcel,
               Pass(c, t, new, <<r, s>>), pending[c] = <<>>, Caused(r), Caused(s),
               r.frame.t = "decline", s.frame.t = "decline"
        PROVE  Handled(c)
      <2> DEFINE frames == <<r, s>>
      <2>1. frames \in Seq(Parcel) /\ Len(frames) = 2 /\ \A i \in 1 .. Len(frames) : frames[i] \in {r, s}
          BY <1>n
      <2>2. Pass(c, t, new, frames)
          BY <1>r
      <2> HIDE DEF frames
      <2>3. Puts(c, frames)
          BY <1>r, <2>1, <2>2, PassPuts
      <2> QED
          BY <2>1, <2>3
  <1>f. \A type \in {"offer", "accept", "decline", "chunk", "done"}, t \in Transfer, n \in Nat, p \in Person :
            /\ To(p, FrameOf(type, t, n)) \in Parcel
            /\ To(p, FrameOf(type, t, n)).to = p
            /\ To(p, FrameOf(type, t, n)).frame = FrameOf(type, t, n)
            /\ FrameOf(type, t, n).t = type /\ FrameOf(type, t, n).id = t
      BY FrameTyped, ParcelTyped DEF To, FrameOf
  <1>m. ASSUME NEW c \in Conn, NEW t \in Transfer, NEW new, NEW frames, Pass(c, t, new, frames)
        PROVE  relay'[t] = new
      BY <1>m DEF Pass, RelayOK
  <1>4. ASSUME NEW c \in Conn, OnAccept(c) PROVE Handled(c)
      <2> DEFINE t == Head(toServer[c]).id
      <2>1. Takes(c, "accept") /\ pending[c] = <<>>
          BY <1>4, Zenon DEF OnAccept, Takes
      <2>2. t \in Transfer /\ Has(toServer[c], "accept", t)
          BY <2>1, TakenHas
      <2>3. \/ Pass(c, t, [relay[t] EXCEPT !.state = "running"], <<To(From(t), FrameOf("accept", t, 0))>>)
            \/ Pass(c, t, relay[t], <<>>)
          BY <1>4, Zenon DEF OnAccept
      <2> HIDE DEF t, Handled
      <2>4. To(From(t), FrameOf("accept", t, 0)) \in Parcel /\ Caused(To(From(t), FrameOf("accept", t, 0)))
          BY <1>f, <2>2 DEF Caused, Yes
      <2> QED
          BY <1>p, <1>q, <2>1, <2>3, <2>4
  <1>5. ASSUME NEW c \in Conn, OnDecline(c) PROVE Handled(c)
      <2> DEFINE t == Head(toServer[c]).id
      <2> DEFINE other == IF From(t) = Peer(c) THEN Target[t] ELSE From(t)
      <2>1. Takes(c, "decline") /\ pending[c] = <<>>
          BY <1>5, Zenon DEF OnDecline, Takes
      <2>2. t \in Transfer
          BY <2>1, TakenHas
      <2>3. \/ relay[t].state # "none" /\ Pass(c, t, NoRelay, <<To(other, FrameOf("decline", t, 0))>>)
            \/ Pass(c, t, relay[t], <<>>)
          BY <1>5, Zenon DEF OnDecline
      <2>4. other \in Person
          BY <2>2
      <2> HIDE DEF t, other, Handled
      <2>5. CASE relay[t].state # "none" /\ Pass(c, t, NoRelay, <<To(other, FrameOf("decline", t, 0))>>)
          <3>1. relay'[t].state = "none"
              BY <1>m, <2>2, <2>5 DEF NoRelay
          <3>2. /\ To(other, FrameOf("decline", t, 0)) \in Parcel
                /\ Caused(To(other, FrameOf("decline", t, 0)))
              BY <1>f, <2>2, <2>4, <2>5, <3>1, EndCaused
          <3> QED
              BY <1>q, <2>1, <2>5, <3>2
      <2> QED
          BY <1>p, <2>1, <2>3, <2>5
  <1>6. ASSUME NEW c \in Conn, OnChunk(c) PROVE Handled(c)
      <2> DEFINE f == Head(toServer[c])
      <2> DEFINE t == f.id
      <2>1. Takes(c, "chunk") /\ pending[c] = <<>>
          BY <1>6, Zenon DEF OnChunk, Takes
      <2>2. t \in Transfer /\ Has(toServer[c], "chunk", t) /\ f \in Frame /\ f.t = "chunk"
          BY <2>1, Taken, TakenHas
      <2>3. \/ Pass(c, t, relay[t], <<>>)
            \/ /\ relay[t].state = "running"
               /\ Pass(c, t, NoRelay, <<To(From(t), FrameOf("decline", t, 0)),
                                        To(Target[t], FrameOf("decline", t, 0))>>)
            \/ Pass(c, t, [relay[t] EXCEPT !.sent = @ + 1], <<To(Target[t], f)>>)
          BY <1>6, Zenon DEF OnChunk
      <2> HIDE DEF t, Handled
      <2>4. To(Target[t], f) \in Parcel /\ Caused(To(Target[t], f))
          <3>1. f.id = t
              BY DEF t
          <3> HIDE DEF f
          <3>2. To(Target[t], f) \in Parcel /\ To(Target[t], f).frame = f
              BY <2>2, ParcelTyped DEF To
          <3> QED
              BY <2>2, <3>1, <3>2 DEF Caused, Yes
      <2> HIDE DEF f
      <2>5. CASE /\ relay[t].state = "running"
                 /\ Pass(c, t, NoRelay, <<To(From(t), FrameOf("decline", t, 0)),
                                          To(Target[t], FrameOf("decline", t, 0))>>)
          <3>1. relay'[t].state = "none" /\ relay[t].state # "none"
              BY <1>m, <2>2, <2>5 DEF NoRelay
          <3>2. \A p \in Person : /\ To(p, FrameOf("decline", t, 0)) \in Parcel
                                  /\ To(p, FrameOf("decline", t, 0)).frame.t = "decline"
                                  /\ Caused(To(p, FrameOf("decline", t, 0)))
              BY <1>f, <2>2, <3>1, EndCaused
          <3> QED
              BY <1>r, <2>1, <2>2, <2>5, <3>2
      <2> QED
          BY <1>p, <1>q, <2>1, <2>3, <2>4, <2>5
  <1>7. ASSUME NEW c \in Conn, OnDone(c) PROVE Handled(c)
      <2> DEFINE f == Head(toServer[c])
      <2> DEFINE t == f.id
      <2>1. Takes(c, "done") /\ pending[c] = <<>>
          BY <1>7, Zenon DEF OnDone, Takes
      <2>2. t \in Transfer /\ Has(toServer[c], "done", t) /\ f \in Frame /\ f.t = "done"
          BY <2>1, Taken, TakenHas
      <2>3. \/ Pass(c, t, relay[t], <<>>)
            \/ relay[t].state # "none" /\ Pass(c, t, NoRelay, <<To(Target[t], f)>>)
          BY <1>7, Zenon DEF OnDone
      <2>a. f.id = t
          OBVIOUS
      <2> HIDE DEF t, f, Handled
      <2>4. CASE relay[t].state # "none" /\ Pass(c, t, NoRelay, <<To(Target[t], f)>>)
          <3>1. relay'[t].state = "none"
              BY <1>m, <2>2, <2>4 DEF NoRelay
          <3>2. To(Target[t], f) \in Parcel /\ To(Target[t], f).frame = f /\ To(Target[t], f).to = Target[t]
              BY <2>2, ParcelTyped DEF To
          <3>3. Caused(To(Target[t], f))
              BY <2>2, <2>4, <2>a, <3>1, <3>2 DEF Caused, Yes
          <3> QED
              BY <1>q, <2>1, <2>4, <3>2, <3>3
      <2> QED
          BY <1>p, <2>1, <2>3, <2>4
  <1>8. ASSUME NEW c \in Conn, HangUp(c) PROVE Hears
      <2>1. UNCHANGED <<pending, toClient, link>>
          BY <1>8, Zenon DEF HangUp, client
      <2> QED
          BY <2>1 DEF Hears, Inbox, Shrinks
  <1>9. ASSUME NEW t \in Transfer, Expire(t)
        PROVE  \E frames \in Seq(Parcel) : Puts(Clock, frames)
      <2> DEFINE r == To(From(t), FrameOf("decline", t, 0))
      <2> DEFINE s == To(Target[t], FrameOf("decline", t, 0))
      <2> DEFINE frames == <<r, s>>
      <2>1. /\ pending[Clock] = <<>> /\ relay[t].state = "offered"
            /\ relay' = [relay EXCEPT ![t] = NoRelay]
            /\ pending' = [pending EXCEPT ![Clock] = frames] /\ UNCHANGED <<toClient, link>>
          BY <1>9 DEF Expire, wires, client
      <2>2. relay'[t].state = "none" /\ relay[t].state # "none"
          BY <2>1 DEF RelayOK, NoRelay
      <2>3. /\ r \in Parcel /\ s \in Parcel /\ Caused(r) /\ Caused(s)
            /\ r.frame.t = "decline" /\ s.frame.t = "decline"
          BY <1>f, <2>2, EndCaused
      <2> HIDE DEF r, s
      <2>4. frames \in Seq(Parcel) /\ Len(frames) = 2 /\ \A i \in 1 .. Len(frames) : frames[i] \in {r, s}
          BY <1>n, <2>3
      <2> HIDE DEF frames
      <2>5. \A d \in Daemon : Inbox(d)' = Inbox(d)
          BY <2>1 DEF Inbox
      <2> QED
          BY <2>1, <2>3, <2>4, <2>5 DEF Puts
  <1>10. ASSUME NEW c \in Conn, FailTransfersOf(c) PROVE Handled(c)
      <2> DEFINE gone == TransfersOf(Peer(c))
      <2> DEFINE Other(t) == IF From(t) = Peer(c) THEN Target[t] ELSE From(t)
      <2>1. /\ handler[c].at = "leave"
            /\ relay' = [t \in Transfer |-> IF t \in gone THEN NoRelay ELSE relay[t]]
            /\ UNCHANGED <<toClient, link>>
          BY <1>10, Zenon DEF FailTransfersOf, wires, client
      <2>2. PICK order \in [1 .. Cardinality(gone) -> gone] :
                pending' = [pending EXCEPT ![c] =
                    [i \in DOMAIN order |-> To(Other(order[i]), FrameOf("decline", order[i], 0))]]
          BY <1>10, Zenon DEF FailTransfersOf
      <2>3. \A t \in gone : t \in Transfer /\ relay[t].state # "none"
          BY DEF TransfersOf
      <2>4. IsFiniteSet(gone)
          <3>1. gone \in SUBSET Carried
              BY DEF TransfersOf, Carried
          <3> QED
              BY <3>1, FS_Subset DEF RelayOK
      <2>5. Cardinality(gone) \in Nat
          BY <2>4, FS_CardinalityType
      <2>6. \A t \in gone : relay'[t].state = "none" /\ Other(t) \in Person
          BY <2>1, <2>3 DEF NoRelay
      <2> HIDE DEF gone, Other
      <2>7. \A t \in gone : /\ To(Other(t), FrameOf("decline", t, 0)) \in Parcel
                            /\ To(Other(t), FrameOf("decline", t, 0)).frame.t = "decline"
                            /\ Caused(To(Other(t), FrameOf("decline", t, 0)))
          BY <1>f, <2>3, <2>6, EndCaused
      <2> DEFINE frames == [i \in DOMAIN order |-> To(Other(order[i]), FrameOf("decline", order[i], 0))]
      <2>8. /\ frames \in [1 .. Cardinality(gone) -> Parcel]
            /\ \A i \in 1 .. Cardinality(gone) : frames[i].frame.t = "decline" /\ Caused(frames[i])
          BY <2>7
      <2>a. pending' = [pending EXCEPT ![c] = frames]
          BY <2>2
      <2> HIDE DEF frames
      <2>9. /\ frames \in Seq(Parcel)
            /\ \A i \in 1 .. Len(frames) : frames[i].frame.t = "decline" /\ Caused(frames[i])
          BY <2>5, <2>8
      <2>10. \A d \in Daemon : Inbox(d)' = Inbox(d)
          BY <2>1 DEF Inbox
      <2> QED
          BY <2>1, <2>9, <2>10, <2>a DEF Puts, SentAll
  <1> HIDE DEF Handled
  <1>h. \A c \in Conn : Handled(c) => \E g \in Goroutines, frames \in Seq(Parcel) : Puts(g, frames)
      BY <1>g DEF Handled
  <1>11. ASSUME NEW c \in Conn, Relaying(c)
         PROVE  \/ Hears \/ Sends(c)
                \/ \E g \in Goroutines, frames \in Seq(Parcel) : Puts(g, frames)
      <2>1. CASE OnOffer(c)
          BY <1>2, <1>g, <1>n, <2>1
      <2>2. CASE Book(c)
          BY <1>3, <1>g, <2>2
      <2>3. CASE OnAccept(c) \/ OnDecline(c) \/ OnChunk(c) \/ OnDone(c) \/ FailTransfersOf(c)
          BY <1>4, <1>5, <1>6, <1>7, <1>10, <1>h, <2>3
      <2>4. CASE Deliver(c) \/ HangUp(c)
          BY <1>1, <1>8, <1>g, <2>4
      <2> QED
          BY <1>11, <2>1, <2>2, <2>3, <2>4 DEF Relaying
  <1> QED
      BY <1>1, <1>9, <1>11, <1>g

(* What every step does to the queues.                                     *)
LEMMA QueuesMove ==
  ASSUME IInv, Wired, SentAll, [Next]_vars
  PROVE  \/ Hears
         \/ \E g \in Goroutines : Sends(g)
         \/ \E g \in Goroutines, frames \in Seq(Parcel) : Puts(g, frames)
  BY ServerPuts, ClientHears DEF Next, IInv, Typed

(* What a client writes says where its writer is.                          *)
Wrote(f) ==
    /\ f \in Frame
    /\ f.t = "offer" => \E s \in Screen : OfferTell(s) /\ Asks(s, {"offer"}, f.id)
    /\ f.t = "accept" => \E s \in Screen : AcceptTell(s) /\ Asks(s, {"answer"}, f.id)
    /\ f.t \in {"chunk", "done"} => pusher[f.id].at # "no"

(* What a connection to the server carries was there before, or was written*)
(* now.                                                                    *)
LEMMA WrittenBy ==
  ASSUME IInv, [Next]_vars
  PROVE  \A c \in Conn : \/ Shrinks(toServer[c], toServer'[c])
                         \/ \E f : Wrote(f) /\ toServer'[c] = Append(toServer[c], f)
  <1> DEFINE Goal == \A c \in Conn : \/ Shrinks(toServer[c], toServer'[c])
                                     \/ \E f : Wrote(f) /\ toServer'[c] = Append(toServer[c], f)
  <1> USE Bounds DEF IInv, Typed
  <1>a. ASSUME UNCHANGED toServer PROVE Goal
      BY <1>a DEF Shrinks
  <1>w. ASSUME NEW d \in Daemon, NEW f, Wrote(f), Write(d, f) PROVE Goal
      <2>1. toServer' = [c \in Conn |-> IF c = link[d] /\ open[c] THEN Append(toServer[c], f)
                                        ELSE toServer[c]]
          BY <1>w, Zenon DEF Write
      <2> QED
          BY <1>w, <2>1 DEF Shrinks
  <1>t. ASSUME NEW c \in Conn, NEW type, Takes(c, type) PROVE Goal
      <2>1. toServer' = [toServer EXCEPT ![c] = Tail(@)] /\ toServer[c] # <<>>
          BY <1>t, Taken
      <2> QED
          BY <2>1 DEF FramesOK, Shrinks
  <1>f. \A type \in {"offer", "accept", "decline", "chunk", "done"}, t \in Transfer, n \in Nat :
            /\ FrameOf(type, t, n) \in Frame
            /\ FrameOf(type, t, n).t = type /\ FrameOf(type, t, n).id = t
      BY FrameTyped DEF FrameOf
  <1> HIDE DEF Goal
  <1>1. ASSUME NEW c \in Conn, Relaying(c) PROVE Goal
      <2>1. CASE OnOffer(c) \/ OnAccept(c) \/ OnDecline(c) \/ OnChunk(c) \/ OnDone(c)
          <3>1. \E type : Takes(c, type)
              BY <2>1, Zenon DEF OnOffer, OnAccept, OnDecline, OnChunk, OnDone
          <3> QED
              BY <1>t, <3>1
      <2>2. CASE Book(c) \/ Deliver(c) \/ FailTransfersOf(c)
          BY <1>a, <2>2, Zenon DEF Book, Deliver, FailTransfersOf, wires
      <2>3. CASE HangUp(c)
          <3>1. toServer' = [toServer EXCEPT ![c] = <<>>]
              BY <2>3, Zenon DEF HangUp
          <3> QED
              BY <3>1 DEF FramesOK, Shrinks, Goal
      <2> QED
          BY <1>1, <2>1, <2>2, <2>3 DEF Relaying
  <1>2. ASSUME NEW c \in Conn, Break(c) PROVE Goal
      BY <1>2, <1>a, ClientLeaves
  <1>3. ASSUME Deliver(Clock) PROVE Goal
      BY <1>3, <1>a, ServerLeaves
  <1>4. ASSUME NEW t \in Transfer, Expire(t) PROVE Goal
      BY <1>4, <1>a, ServerLeaves DEF wires
  <1>5. ASSUME NEW t \in Transfer, Pushing(t) PROVE Goal
      <2>1. \/ UNCHANGED toServer
            \/ /\ pusher[t].at # "no"
               /\ \/ Write(Sender[t], FrameOf("chunk", t, pusher[t].off))
                  \/ Write(Sender[t], FrameOf("done", t, Chunks))
          BY <1>5, Zenon DEF Pushing, PushLook, PushChunk, PushDone, PushClose, wires
      <2>2. pusher[t].off \in Nat /\ Sender[t] \in Daemon /\ Chunks \in Nat
          BY ConstantsAssumption DEF PushingOK, Pusher
      <2>3. \A type \in {"chunk", "done"}, n \in Nat :
                pusher[t].at # "no" => Wrote(FrameOf(type, t, n))
          BY <1>f DEF Wrote
      <2> QED
          BY <1>a, <1>w, <2>1, <2>2, <2>3
  <1>6. ASSUME NEW d \in Daemon, Linked(d) PROVE Goal
      <2>1. UNCHANGED toServer \/ \E t \in Transfer : Write(d, FrameOf("decline", t, 0))
          BY <1>6, Zenon DEF Linked, Drop, FailLiveTransfers, StartPush, Verify, Finish, ReadOffer,
             ReadAccept, ReadDecline, ReadChunk, ReadDone, wires
      <2>2. \A t \in Transfer : Wrote(FrameOf("decline", t, 0))
          BY <1>f DEF Wrote
      <2> QED
          BY <1>a, <1>w, <2>1, <2>2
  <1>7. ASSUME NEW d \in Daemon, NEW c \in Conn, Enrol(d, c) PROVE Goal
      BY <1>7, <1>a, ClientLeaves
  <1>8. ASSUME NEW s \in Screen, Calling(s) PROVE Goal
      <2>1. \/ UNCHANGED toServer
            \/ OfferTell(s) /\ screen[s].at = "offer" /\ Write(ScreenOf[s], FrameOf("offer", screen[s].id, 0))
            \/ AcceptTell(s) /\ screen[s].at = "answer" /\ Write(ScreenOf[s], FrameOf("accept", screen[s].id, 0))
            \/ screen[s].at = "refuse" /\ Write(ScreenOf[s], FrameOf("decline", screen[s].id, 0))
          BY <1>8, Zenon DEF Calling, OfferPut, OfferTell, AcceptLook, AcceptCreate, AcceptRun, AcceptTell,
             Decline, DeclineTell, Tell, wires
      <2>2. ScreenOf[s] \in Daemon /\ (screen[s].at # "idle" => screen[s].id \in Transfer)
          BY ConstantsAssumption DEF CallsOK
      <2>3. CASE OfferTell(s) /\ screen[s].at = "offer" /\ Write(ScreenOf[s], FrameOf("offer", screen[s].id, 0))
          <3>1. Wrote(FrameOf("offer", screen[s].id, 0))
              BY <1>f, <2>2, <2>3 DEF Wrote, Asks
          <3> QED
              BY <1>w, <2>2, <2>3, <3>1
      <2>4. CASE AcceptTell(s) /\ screen[s].at = "answer" /\ Write(ScreenOf[s], FrameOf("accept", screen[s].id, 0))
          <3>1. Wrote(FrameOf("accept", screen[s].id, 0))
              BY <1>f, <2>2, <2>4 DEF Wrote, Asks
          <3> QED
              BY <1>w, <2>2, <2>4, <3>1
      <2>5. CASE screen[s].at = "refuse" /\ Write(ScreenOf[s], FrameOf("decline", screen[s].id, 0))
          <3>1. Wrote(FrameOf("decline", screen[s].id, 0))
              BY <1>f, <2>2, <2>5 DEF Wrote
          <3> QED
              BY <1>w, <2>2, <2>5, <3>1
      <2> QED
          BY <1>a, <2>1, <2>3, <2>4, <2>5
  <1>9. ASSUME NEW s \in Screen, NEW t \in Transfer, Offer(s, t) \/ Choose(s, t) PROVE Goal
      BY <1>9, <1>a, ClientLeaves DEF wires
  <1>10. ASSUME UNCHANGED vars PROVE Goal
      BY <1>10, <1>a DEF vars, wires
  <1>11. Goal
      BY <1>1, <1>2, <1>3, <1>4, <1>5, <1>6, <1>7, <1>8, <1>9, <1>10 DEF Next
  <1> QED
      BY <1>11 DEF Goal

(* What a server goroutine starts to book was the next frame of its queue. *)
LEMMA BooksFrom ==
  ASSUME IInv, [Next]_vars, NEW c \in Conn, NEW t \in Transfer, Books(c, t)', ~Books(c, t)
  PROVE  OnOffer(c) /\ Takes(c, "offer") /\ Head(toServer[c]).id = t
  <1> USE DEF IInv, Typed
  <1>h. \A k \in Conn : handler[k] \in Goroutine
      BY DEF HandlerOK
  <1>a. handler' # handler
      BY DEF Books
  <1>b. ASSUME NEW k \in Conn, NEW g, handler' = [handler EXCEPT ![k] = g], g.at # "book" PROVE FALSE
      BY <1>b DEF Books, HandlerOK
  <1>1. ASSUME NEW k \in Conn, Relaying(k) PROVE OnOffer(c) /\ Takes(c, "offer") /\ Head(toServer[c]).id = t
      <2>1. CASE OnOffer(k)
          <3>1. Takes(k, "offer") /\ handler' = [handler EXCEPT ![k].at = "book", ![k].id = Head(toServer[k]).id]
              BY <1>a, <2>1, Zenon DEF OnOffer
          <3>2. c = k /\ handler'[k].id = Head(toServer[k]).id
              BY <1>h, <3>1 DEF HandlerOK, Books, Goroutine
          <3> QED
              BY <2>1, <3>1, <3>2 DEF Books
      <2>2. CASE Book(k)
          <3>1. handler' = [handler EXCEPT ![k].at = "read", ![k].id = None]
              BY <2>2, Zenon DEF Book
          <3>2. handler' = [handler EXCEPT ![k] = [handler[k] EXCEPT !.at = "read", !.id = None]]
                /\ [handler[k] EXCEPT !.at = "read", !.id = None].at = "read"
              BY <1>h, <3>1 DEF HandlerOK, Goroutine
          <3> QED
              BY <1>b, <3>2
      <2>3. CASE OnAccept(k) \/ OnDecline(k) \/ OnChunk(k) \/ OnDone(k)
          BY <1>a, <2>3, Passed DEF Pass
      <2>4. CASE Deliver(k)
          BY <1>a, <2>4 DEF Deliver
      <2>5. CASE HangUp(k)
          <3>1. handler' = [handler EXCEPT ![k].at = "leave"]
              BY <2>5, Zenon DEF HangUp
          <3>2. handler' = [handler EXCEPT ![k] = [handler[k] EXCEPT !.at = "leave"]]
                /\ [handler[k] EXCEPT !.at = "leave"].at = "leave"
              BY <1>h, <3>1 DEF HandlerOK, Goroutine
          <3> QED
              BY <1>b, <3>2
      <2>6. CASE FailTransfersOf(k)
          <3>1. handler' = [handler EXCEPT ![k] = Free] /\ Free.at # "book"
              BY <2>6, Zenon DEF FailTransfersOf, Free
          <3> QED
              BY <1>b, <3>1
      <2> QED
          BY <1>1, <2>1, <2>2, <2>3, <2>4, <2>5, <2>6 DEF Relaying
  <1>2. ASSUME NEW d \in Daemon, NEW k \in Conn, Enrol(d, k) PROVE FALSE
      <2>1. handler' = [handler EXCEPT ![k].at = "read", ![k].owner = d]
          BY <1>2, Zenon DEF Enrol
      <2>2. handler' = [handler EXCEPT ![k] = [handler[k] EXCEPT !.at = "read", !.owner = d]]
            /\ [handler[k] EXCEPT !.at = "read", !.owner = d].at = "read"
          BY <1>h, <2>1 DEF HandlerOK, Goroutine
      <2> QED
          BY <1>b, <2>2
  <1>3. UNCHANGED handler \/ (\E k \in Conn : Relaying(k)) \/ \E d \in Daemon, k \in Conn : Enrol(d, k)
      BY ServerLeaves, ClientLeaves DEF Next, vars, server, wires
  <1> QED
      BY <1>a, <1>1, <1>2, <1>3

(* What becomes of a call.                                                 *)
Calls(s) ==
    LET d == ScreenOf[s]
        r == screen[s]
        q == screen'[s]
    IN \/ q = r
       \/ q.at = "idle"
       \/ \E t \in Transfer : Offer(s, t) /\ q.at = "hash" /\ q.id = t /\ d = Sender[t]
                              /\ row[d][t].state = "none"
       \/ OfferPut(s) /\ r.at = "hash" /\ q.at = "offer" /\ q.id = r.id
       \/ \E t \in Transfer : Choose(s, t) /\ q.at \in {"accept", "decline"} /\ q.id = t
             /\ (row[d][t].state = "incoming" \/ (q.at = "decline" /\ row[d][t].state = "offered"))
       \/ r.at = "accept" /\ q.at = "create" /\ q.id = r.id
       \/ AcceptCreate(s) /\ r.at = "create" /\ q.at = "run" /\ q.id = r.id
       \/ AcceptRun(s) /\ r.at = "run" /\ q.at = "answer" /\ q.id = r.id
       \/ Decline(s) /\ r.at = "decline" /\ q.at = "refuse" /\ q.id = r.id

(* A call goes on by a step of its own front end.                          *)
LEMMA CallsMove ==
  ASSUME IInv, [Next]_vars
  PROVE  \A s \in Screen : Calls(s)
  <1> USE DEF IInv, Typed
  <1>c. \A s \in Screen : screen[s] \in Call
      BY DEF CallsOK
  <1>a. ASSUME UNCHANGED screen PROVE \A s \in Screen : Calls(s)
      BY <1>a DEF Calls
  <1>o. ASSUME NEW s \in Screen, NEW v, screen' = [screen EXCEPT ![s] = v], Calls(s)
        PROVE  \A r \in Screen : Calls(r)
      <2>1. \A r \in Screen : r # s => screen'[r] = screen[r]
          BY <1>o DEF CallsOK
      <2>2. \A r \in Screen : r # s => Calls(r)
          BY <2>1, Zenon DEF Calls
      <2> QED
          BY <1>o, <2>2
  <1>s. \A s \in Screen : \A at : Step(s, at) => /\ screen' = [screen EXCEPT ![s] = [screen[s] EXCEPT !.at = at]]
                                                 /\ screen'[s].at = at /\ screen'[s].id = screen[s].id
      BY <1>c DEF CallsOK, Step, Call
  <1>w. Waiting.at = "idle"
      BY DEF Waiting
  <1>v. \A s \in Screen : \A v : screen' = [screen EXCEPT ![s] = v] => screen'[s] = v
      BY DEF CallsOK
  <1>1. ASSUME NEW s \in Screen, Calling(s) PROVE \A r \in Screen : Calls(r)
      <2>1. CASE OfferPut(s)
          <3>1. Step(s, "offer") /\ screen[s].at = "hash"
              BY <2>1, Zenon DEF OfferPut
          <3>2. Calls(s)
              BY <2>1, <3>1, <1>s, Zenon DEF Calls
          <3> QED
              BY <1>o, <1>s, <3>1, <3>2
      <2>2. CASE AcceptLook(s)
          <3>1. screen[s].at = "accept" /\ (Step(s, "create") \/ screen' = [screen EXCEPT ![s] = Waiting])
              BY <2>2, Zenon DEF AcceptLook
          <3>2. CASE Step(s, "create")
              <4>1. Calls(s)
                  BY <3>1, <3>2, <1>s, Zenon DEF Calls
              <4> QED
                  BY <1>o, <1>s, <3>2, <4>1
          <3>3. CASE screen' = [screen EXCEPT ![s] = Waiting]
              <4>1. Calls(s)
                  BY <1>v, <1>w, <3>3 DEF Calls
              <4> QED
                  BY <1>o, <3>3, <4>1
          <3> QED
              BY <3>1, <3>2, <3>3
      <2>3. CASE AcceptCreate(s)
          <3>1. screen[s].at = "create" /\ \E p : screen' = [screen EXCEPT ![s].at = "run", ![s].path = p]
              BY <2>3, Zenon DEF AcceptCreate
          <3>2. PICK p : screen' = [screen EXCEPT ![s].at = "run", ![s].path = p]
              BY <3>1
          <3>3. /\ screen' = [screen EXCEPT ![s] = [screen[s] EXCEPT !.at = "run", !.path = p]]
                /\ screen'[s].at = "run" /\ screen'[s].id = screen[s].id
              BY <1>c, <3>2 DEF CallsOK, Call
          <3>4. Calls(s)
              BY <2>3, <3>1, <3>3, Zenon DEF Calls
          <3> QED
              BY <1>o, <3>3, <3>4
      <2>4. CASE AcceptRun(s)
          <3>1. Step(s, "answer") /\ screen[s].at = "run"
              BY <2>4, Zenon DEF AcceptRun
          <3>2. Calls(s)
              BY <2>4, <3>1, <1>s, Zenon DEF Calls
          <3> QED
              BY <1>o, <1>s, <3>1, <3>2
      <2>5. CASE Decline(s)
          <3>1. Step(s, "refuse") /\ screen[s].at = "decline"
              BY <2>5, Zenon DEF Decline
          <3>2. Calls(s)
              BY <2>5, <3>1, <1>s, Zenon DEF Calls
          <3> QED
              BY <1>o, <1>s, <3>1, <3>2
      <2>6. CASE OfferTell(s) \/ AcceptTell(s) \/ DeclineTell(s)
          <3>1. screen' = [screen EXCEPT ![s] = Waiting]
              BY <2>6, Zenon DEF OfferTell, AcceptTell, DeclineTell, Tell
          <3>2. Calls(s)
              BY <1>v, <1>w, <3>1 DEF Calls
          <3> QED
              BY <1>o, <3>1, <3>2
      <2> QED
          BY <1>1, <2>1, <2>2, <2>3, <2>4, <2>5, <2>6 DEF Calling
  <1>2. ASSUME NEW s \in Screen, NEW t \in Transfer, Offer(s, t) PROVE \A r \in Screen : Calls(r)
      <2>1. /\ screen' = [screen EXCEPT ![s] = [Waiting EXCEPT !.at = "hash", !.id = t]]
            /\ ScreenOf[s] = Sender[t] /\ row[ScreenOf[s]][t].state = "none"
          BY <1>2, Zenon DEF Offer
      <2>0. screen'[s] = [Waiting EXCEPT !.at = "hash", !.id = t]
          BY <2>1, <1>v, Zenon
      <2>2. screen'[s].at = "hash" /\ screen'[s].id = t
          BY <2>0 DEF Waiting
      <2>3. Calls(s)
          BY <1>2, <2>1, <2>2, Zenon DEF Calls
      <2> QED
          BY <1>o, <2>1, <2>3
  <1>3. ASSUME NEW s \in Screen, NEW t \in Transfer, Choose(s, t) PROVE \A r \in Screen : Calls(r)
      <2>1. PICK call \in {"accept", "decline"} :
                /\ row[ScreenOf[s]][t].state = "incoming"
                       \/ (call = "decline" /\ row[ScreenOf[s]][t].state = "offered")
                /\ screen' = [screen EXCEPT ![s] = [Waiting EXCEPT !.at = call, !.id = t]]
          BY <1>3, Zenon DEF Choose
      <2>0. screen'[s] = [Waiting EXCEPT !.at = call, !.id = t]
          BY <2>1, <1>v, Zenon
      <2>2. screen'[s].at = call /\ screen'[s].id = t
          BY <2>0 DEF Waiting
      <2>3. Calls(s)
          BY <1>3, <2>1, <2>2, Zenon DEF Calls
      <2> QED
          BY <1>o, <2>1, <2>3
  <1>4. \/ UNCHANGED screen
        \/ \E s \in Screen : Calling(s) \/ \E t \in Transfer : Offer(s, t) \/ Choose(s, t)
      BY ServerLeaves, ClientLeaves DEF Next, vars, client
  <1> QED
      BY <1>a, <1>1, <1>2, <1>3, <1>4

----------------------------------------------------------------------------
(* An offer before the server has it is in one place.                      *)
LEMMA AskStep ==
  ASSUME IInv, EndsOnly, OfferOnce, [Next]_vars, NEW t \in Transfer
  PROVE  /\ AskedOnce(t)'
         /\ Asking(t)' => Asking(t) \/ \E s \in Screen : Offer(s, t)
         /\ \A k, x : Asked(k, x, t)' =>
               \/ k = "call" /\ screen'[x].at = "hash"
               \/ \E l, y : Asked(l, y, t) /\ ~(l = "call" /\ screen[y].at = "hash")
               \/ \E s \in Screen : OfferPut(s) /\ screen[s].id = t
         /\ \A c \in Conn : Books(c, t) /\ handler'[c].at # "book" => ~Asking(t)'
  <1> DEFINE Calling1(x) == x \in Screen /\ Asks(x, {"hash", "offer"}, t)
  <1>s. AskedOnce(t)
      BY DEF OfferOnce
  <1>q. \A c \in Conn : toServer[c] \in Seq(Frame)
      BY DEF IInv, Typed, FramesOK
  <1>1. ASSUME NEW x \in Screen, Asks(x, {"hash", "offer"}, t)'
        PROVE  \/ Asks(x, {"hash", "offer"}, t) /\ screen'[x] = screen[x]
               \/ Offer(x, t) /\ screen'[x].at = "hash"
               \/ OfferPut(x) /\ screen[x].id = t /\ Asks(x, {"hash", "offer"}, t)
      BY <1>1, CallsMove, Zenon DEF Asks, Calls
  <1>2. ASSUME NEW c \in Conn, Has(toServer'[c], "offer", t), ~Has(toServer[c], "offer", t)
        PROVE  \E s \in Screen : Asked("call", s, t) /\ OfferTell(s) /\ Asks(s, {"offer"}, t)
      <2>1. CASE Shrinks(toServer[c], toServer'[c])
          BY <1>2, <1>q, <2>1, ShrinksKeeps
      <2>2. CASE \E f : Wrote(f) /\ toServer'[c] = Append(toServer[c], f)
          <3>1. PICK f : Wrote(f) /\ toServer'[c] = Append(toServer[c], f)
              BY <2>2
          <3>2. f \in Frame /\ About(f, "offer", t)
              BY <1>2, <1>q, <3>1, Appended DEF Wrote
          <3>3. PICK s \in Screen : OfferTell(s) /\ Asks(s, {"offer"}, t)
              BY <3>1, <3>2 DEF Wrote, About
          <3>4. Asked("call", s, t)
              BY <3>3 DEF Asked, Asks
          <3> QED
              BY <3>3, <3>4
      <2> QED
          BY <2>1, <2>2, WrittenBy
  <1>3. ASSUME NEW c \in Conn, Books(c, t)', ~Books(c, t)
        PROVE  /\ OnOffer(c) /\ Asked("wire", c, t) /\ UNCHANGED screen
               /\ ~Has(toServer'[c], "offer", t)
      <2>1. OnOffer(c) /\ Takes(c, "offer") /\ Head(toServer[c]).id = t
          BY <1>3, BooksFrom
      <2>2. toServer[c] # <<>> /\ About(Head(toServer[c]), "offer", t) /\ UNCHANGED screen
          BY <2>1, Zenon DEF Takes, About, OnOffer, client
      <2>3. Has(toServer[c], "offer", t) /\ ~Has(Tail(toServer[c]), "offer", t)
          BY <1>q, <1>s, <2>2, TakenOnce DEF AskedOnce
      <2>4. toServer' = [toServer EXCEPT ![c] = Tail(@)]
          BY <2>1, Zenon DEF Takes
      <2>5. toServer'[c] = Tail(toServer[c])
          BY <2>4 DEF IInv, Typed, FramesOK
      <2> QED
          BY <2>1, <2>2, <2>3, <2>5 DEF Asked
  <1> DEFINE Kept(k, x) == Asked(k, x, t) /\ (k = "call" => screen'[x] = screen[x] \/ (OfferPut(x) /\ screen[x].id = t))
             New(k, x) == k = "call" /\ x \in Screen /\ Offer(x, t) /\ screen'[x].at = "hash"
             Sent(k, x) == k = "wire" /\ x \in Conn /\ Has(toServer'[x], "offer", t) /\ ~Has(toServer[x], "offer", t)
             Begun(k, x) == k = "book" /\ x \in Conn /\ Books(x, t)' /\ ~Books(x, t)
  <1>4. ASSUME NEW k, NEW x, Asked(k, x, t)'
        PROVE  Kept(k, x) \/ New(k, x) \/ Sent(k, x) \/ Begun(k, x)
      <2>1. CASE k = "call" /\ x \in Screen /\ Asks(x, {"hash", "offer"}, t)'
          BY <2>1, <1>1 DEF Asked
      <2>2. CASE k = "wire" /\ x \in Conn /\ Has(toServer'[x], "offer", t)
          BY <2>2 DEF Asked
      <2>3. CASE k = "book" /\ x \in Conn /\ Books(x, t)'
          BY <2>3 DEF Asked
      <2> QED
          BY <1>4, <2>1, <2>2, <2>3 DEF Asked
  <1>5. ASSUME NEW x, New("call", x)
        PROVE  /\ \A k, y : ~Asked(k, y, t) /\ ~Sent(k, y) /\ ~Begun(k, y)
               /\ \A k, y : New(k, y) => y = x
      <2>1. /\ x \in Screen /\ Offer(x, t) /\ row[Sender[t]][t].state = "none" /\ UNCHANGED <<toServer, handler>>
            /\ \A y \in Screen : screen[y].id # t \/ screen[y].at # "hash"
            /\ screen[x].at = "idle" /\ screen' = [screen EXCEPT ![x] = [Waiting EXCEPT !.at = "hash", !.id = t]]
          BY <1>5, Zenon DEF Offer, wires, server
      <2>2. \A k, y : Asked(k, y, t) => k = "call" /\ screen[y].at = "hash"
          BY <2>1 DEF OfferOnce
      <2>3. ASSUME NEW k, NEW y PROVE ~Asked(k, y, t)
          BY <2>1, <2>2 DEF Asked, Asks
      <2>4. \A k, y : ~Sent(k, y) /\ ~Begun(k, y)
          BY <2>1 DEF Books
      <2>5. ASSUME NEW k, NEW y, New(k, y), y # x PROVE FALSE
          <3>1. screen'[y] = screen[y] /\ screen[y].at = "idle"
              BY <2>1, <2>5, Zenon DEF IInv, Typed, CallsOK, Offer
          <3> QED
              BY <2>5, <3>1
      <2> QED
          BY <2>3, <2>4, <2>5
  <1>6. ASSUME NEW x, Sent("wire", x)
        PROVE  /\ \A k, y : ~(Kept(k, y) /\ Asked(k, y, t)') /\ ~New(k, y) /\ ~Begun(k, y)
               /\ \A k, y : Sent(k, y) => y = x
               /\ \E s \in Screen : Asked("call", s, t) /\ screen[s].at = "offer"
      <2>1. PICK s \in Screen : Asked("call", s, t) /\ OfferTell(s) /\ Asks(s, {"offer"}, t)
          BY <1>2, <1>6
      <2>2. /\ screen' = [screen EXCEPT ![s] = Waiting] /\ UNCHANGED handler
            /\ \/ Write(ScreenOf[s], FrameOf("offer", screen[s].id, 0))
               \/ UNCHANGED toServer
          BY <2>1, Zenon DEF OfferTell, Tell, server
      <2>3. screen'[s].at = "idle" /\ screen[s].at = "offer" /\ screen[s].id = t
          BY <2>1, <2>2 DEF Waiting, Asks, IInv, Typed, CallsOK
      <2>4. \A y \in Conn : toServer'[y] = toServer[y] \/ y = link[ScreenOf[s]]
          BY <2>2 DEF Write
      <2>5. \A k, y : Sent(k, y) => y = link[ScreenOf[s]]
          BY <2>4
      <2>6. \A k, y : ~Begun(k, y)
          BY <2>2 DEF Books
      <2>7. ASSUME NEW k, NEW y, Kept(k, y), Asked(k, y, t)' PROVE FALSE
          <3>1. k = "call" /\ y = s
              BY <1>s, <2>1, <2>7, Zenon DEF AskedOnce
          <3>2. screen'[y].at \in {"hash", "offer"}
              BY <2>7, <3>1 DEF Asked, Asks
          <3> QED
              BY <2>3, <3>1, <3>2
      <2>8. \A k, y : ~New(k, y)
          BY <1>5, <2>1
      <2> QED
          BY <1>6, <2>1, <2>3, <2>5, <2>6, <2>7, <2>8
  <1>7. ASSUME NEW x, Begun("book", x)
        PROVE  /\ \A k, y : ~(Kept(k, y) /\ Asked(k, y, t)') /\ ~New(k, y)
               /\ \A k, y : Begun(k, y) => y = x
               /\ Asked("wire", x, t)
      <2>1. Asked("wire", x, t) /\ ~Has(toServer'[x], "offer", t)
          BY <1>3, <1>7
      <2>2. \A k, y : Begun(k, y) => y = x
          BY <1>3, <1>s, <2>1, Zenon DEF AskedOnce
      <2>3. ASSUME NEW k, NEW y, Kept(k, y), Asked(k, y, t)' PROVE FALSE
          <3>1. k = "wire" /\ y = x
              BY <1>s, <2>1, <2>3, Zenon DEF AskedOnce
          <3> QED
              BY <2>1, <2>3, <3>1 DEF Asked
      <2>4. \A k, y : ~New(k, y)
          BY <1>5, <2>1
      <2> QED
          BY <2>1, <2>2, <2>3, <2>4
  <1>8. ASSUME NEW c \in Conn PROVE Once(toServer'[c], "offer", t)
      <2>1. CASE Shrinks(toServer[c], toServer'[c])
          BY <1>q, <1>s, <2>1, ShrinksKeeps DEF AskedOnce
      <2>2. ASSUME NEW f, Wrote(f), toServer'[c] = Append(toServer[c], f) PROVE Once(toServer'[c], "offer", t)
          <3>1. f \in Frame
              BY <2>2 DEF Wrote
          <3>2. About(f, "offer", t) => ~Has(toServer[c], "offer", t)
              <4> SUFFICES ASSUME About(f, "offer", t), Has(toServer[c], "offer", t) PROVE FALSE
                  OBVIOUS
              <4>1. PICK s \in Screen : Asks(s, {"offer"}, t)
                  BY <2>2 DEF Wrote, About
              <4>2. Asked("call", s, t) /\ Asked("wire", c, t)
                  BY <4>1 DEF Asked, Asks
              <4> QED
                  BY <1>s, <4>2 DEF AskedOnce
          <3>3. Once(toServer[c], "offer", t)
              BY <1>s DEF AskedOnce
          <3> QED
              BY <1>q, <2>2, <3>1, <3>2, <3>3, Appended
      <2> QED
          BY <2>1, <2>2, WrittenBy
  <1>n. \A k, x : /\ New(k, x) => k = "call"
                  /\ Sent(k, x) => k = "wire"
                  /\ Begun(k, x) => k = "book"
      OBVIOUS
  <1> HIDE DEF New, Sent, Begun
  <1>9. ASSUME NEW k, NEW x, NEW l, NEW y, Asked(k, x, t)', Asked(l, y, t)' PROVE k = l /\ x = y
      <2>1. CASE Kept(k, x) /\ Kept(l, y)
          BY <1>s, <2>1, Zenon DEF AskedOnce
      <2>2. CASE New(k, x) \/ New(l, y)
          BY <1>4, <1>5, <1>9, <1>n, <2>2
      <2>3. CASE Sent(k, x) \/ Sent(l, y)
          BY <1>4, <1>6, <1>9, <1>n, <2>3
      <2>4. CASE Begun(k, x) \/ Begun(l, y)
          BY <1>4, <1>6, <1>7, <1>9, <1>n, <2>4
      <2> QED
          BY <1>4, <1>9, <2>1, <2>2, <2>3, <2>4
  <1>10. AskedOnce(t)'
      BY <1>8, <1>9 DEF AskedOnce
  <1>11. ASSUME NEW k, NEW x, Asked(k, x, t)'
         PROVE  /\ Asking(t) \/ \E s \in Screen : Offer(s, t)
                /\ \/ k = "call" /\ screen'[x].at = "hash"
                   \/ \E l, y : Asked(l, y, t) /\ ~(l = "call" /\ screen[y].at = "hash")
                   \/ \E s \in Screen : OfferPut(s) /\ screen[s].id = t
      <2>1. CASE Kept(k, x)
          <3>1. Asking(t)
              BY <2>1 DEF Asking
          <3>2. k = "call" => x \in Screen
              BY <2>1 DEF Asked
          <3> QED
              BY <2>1, <3>1, <3>2
      <2>2. CASE New(k, x)
          BY <2>2 DEF New
      <2>3. CASE Sent(k, x)
          <3>1. PICK s \in Screen : Asked("call", s, t) /\ screen[s].at = "offer"
              BY <1>6, <1>n, <2>3
          <3> QED
              BY <3>1 DEF Asking
      <2>4. CASE Begun(k, x)
          <3>1. Asked("wire", x, t)
              BY <1>7, <1>n, <2>4
          <3> QED
              BY <3>1 DEF Asking
      <2> QED
          BY <1>4, <1>11, <2>1, <2>2, <2>3, <2>4
  <1>12. ASSUME NEW c \in Conn, Books(c, t), handler'[c].at # "book", NEW k, NEW x, Asked(k, x, t)'
         PROVE  FALSE
      <2>1. Asked("book", c, t)
          BY <1>12 DEF Asked
      <2>2. CASE Kept(k, x)
          <3>1. k = "book" /\ x = c
              BY <1>s, <2>1, <2>2, Zenon DEF AskedOnce
          <3> QED
              BY <1>12, <3>1 DEF Asked, Books
      <2>3. CASE New(k, x)
          BY <1>5, <1>n, <2>1, <2>3
      <2>4. CASE Sent(k, x)
          <3>1. PICK s \in Screen : Asked("call", s, t)
              BY <1>6, <1>n, <2>4
          <3> QED
              BY <1>s, <2>1, <3>1 DEF AskedOnce
      <2>5. CASE Begun(k, x)
          <3>1. Asked("wire", x, t)
              BY <1>7, <1>n, <2>5
          <3> QED
              BY <1>s, <2>1, <3>1 DEF AskedOnce
      <2> QED
          BY <1>4, <1>12, <2>2, <2>3, <2>4, <2>5
  <1> QED
      BY <1>10, <1>11, <1>12, Zenon DEF Asking

(* A handler begins to book or to clean up when it has nothing left to     *)
(* send.                                                                   *)
LEMMA SentAllStep ==
  ASSUME IInv, SentAll, [Next]_vars
  PROVE  SentAll'
  <1> USE DEF IInv, Typed
  <1>h. \A k \in Conn : handler[k] \in Goroutine
      BY DEF HandlerOK
  <1> DEFINE Busy(c) == handler[c].at \in {"book", "leave"}
  <1>a. ASSUME NEW k \in Goroutines, NEW v, pending' = [pending EXCEPT ![k] = v],
               \A c \in Conn : Busy(c)' => Busy(c) /\ c # k
        PROVE  SentAll'
      BY <1>a DEF SentAll, FramesOK, Goroutines
  <1>b. ASSUME UNCHANGED pending, \A c \in Conn : Busy(c)' => Busy(c) \/ pending[c] = <<>> PROVE SentAll'
      BY <1>b DEF SentAll
  <1>e. ASSUME NEW k \in Conn, NEW v, handler' = [handler EXCEPT ![k] = v] PROVE \A c \in Conn : Busy(c)' => Busy(c) \/ c = k
      BY <1>e DEF HandlerOK
  <1>n. ASSUME NEW k \in Conn, NEW v, handler' = [handler EXCEPT ![k] = v], v.at \notin {"book", "leave"}
        PROVE  \A c \in Conn : Busy(c)' => Busy(c) /\ c # k
      BY <1>n DEF HandlerOK
  <1>1. ASSUME NEW k \in Conn, Relaying(k) PROVE SentAll'
      <2>1. CASE OnOffer(k)
          <3>1. /\ pending[k] = <<>> /\ UNCHANGED pending
                /\ \/ UNCHANGED handler
                   \/ handler' = [handler EXCEPT ![k].at = "book", ![k].id = Head(toServer[k]).id]
              BY <2>1, Zenon DEF OnOffer, Takes
          <3>2. \A c \in Conn : Busy(c)' => Busy(c) \/ c = k
              BY <3>1 DEF HandlerOK
          <3> QED
              BY <1>b, <3>1, <3>2
      <2>2. CASE Book(k)
          <3>1. /\ handler' = [handler EXCEPT ![k].at = "read", ![k].id = None]
                /\ \E v : pending' = [pending EXCEPT ![k] = v]
              BY <2>2, Zenon DEF Book
          <3>2. handler' = [handler EXCEPT ![k] = [handler[k] EXCEPT !.at = "read", !.id = None]]
                /\ [handler[k] EXCEPT !.at = "read", !.id = None].at = "read"
              BY <1>h, <3>1 DEF HandlerOK, Goroutine
          <3>3. \A c \in Conn : Busy(c)' => Busy(c) /\ c # k
              BY <1>n, <3>2
          <3> QED
              BY <1>a, <3>1, <3>3 DEF Goroutines
      <2>3. CASE OnAccept(k) \/ OnDecline(k) \/ OnChunk(k) \/ OnDone(k)
          <3>1. (\E type : Takes(k, type)) /\ UNCHANGED handler /\ \E v : pending' = [pending EXCEPT ![k] = v]
              BY <2>3, Passed DEF Pass
          <3>2. handler[k].at = "read"
              BY <3>1 DEF Takes
          <3> QED
              BY <1>a, <3>1, <3>2 DEF Goroutines
      <2>4. CASE Deliver(k)
          <3>1. pending[k] # <<>> /\ UNCHANGED handler /\ pending' = [pending EXCEPT ![k] = Tail(pending[k])]
              BY <2>4 DEF Deliver
          <3> QED
              BY <1>a, <3>1 DEF SentAll, Goroutines
      <2>5. CASE HangUp(k)
          <3>1. pending[k] = <<>> /\ UNCHANGED pending /\ handler' = [handler EXCEPT ![k].at = "leave"]
              BY <2>5, Zenon DEF HangUp
          <3>2. \A c \in Conn : Busy(c)' => Busy(c) \/ c = k
              BY <3>1 DEF HandlerOK
          <3> QED
              BY <1>b, <3>1, <3>2
      <2>6. CASE FailTransfersOf(k)
          <3>1. /\ handler' = [handler EXCEPT ![k] = Free] /\ Free.at = "free"
                /\ \E v : pending' = [pending EXCEPT ![k] = v]
              BY <2>6, CleanUpTyped, Zenon DEF FailTransfersOf, Free
          <3>2. \A c \in Conn : Busy(c)' => Busy(c) /\ c # k
              BY <1>n, <3>1
          <3> QED
              BY <1>a, <3>1, <3>2 DEF Goroutines
      <2> QED
          BY <1>1, <2>1, <2>2, <2>3, <2>4, <2>5, <2>6 DEF Relaying
  <1>2. ASSUME Deliver(Clock) \/ \E t \in Transfer : Expire(t) PROVE SentAll'
      <2>1. UNCHANGED handler /\ \E v : pending' = [pending EXCEPT ![Clock] = v]
          BY <1>2, Zenon DEF Deliver, Expire
      <2> QED
          BY <1>a, <2>1, Bounds DEF Goroutines
  <1>3. ASSUME NEW d \in Daemon, NEW k \in Conn, Enrol(d, k) PROVE SentAll'
      <2>1. handler' = [handler EXCEPT ![k].at = "read", ![k].owner = d] /\ UNCHANGED pending
          BY <1>3, Zenon DEF Enrol
      <2>2. handler' = [handler EXCEPT ![k] = [handler[k] EXCEPT !.at = "read", !.owner = d]]
            /\ [handler[k] EXCEPT !.at = "read", !.owner = d].at = "read"
          BY <1>h, <2>1 DEF HandlerOK, Goroutine
      <2>3. \A c \in Conn : Busy(c)' => Busy(c) /\ c # k
          BY <1>n, <2>2
      <2> QED
          BY <1>b, <2>1, <2>3
  <1>4. \/ UNCHANGED <<handler, pending>>
        \/ \E k \in Conn : Relaying(k)
        \/ Deliver(Clock) \/ \E t \in Transfer : Expire(t)
        \/ \E d \in Daemon, k \in Conn : Enrol(d, k)
      BY ClientLeaves DEF Next, vars, server
  <1>5. CASE UNCHANGED <<handler, pending>>
      BY <1>5, <1>b
  <1> QED
      BY <1>1, <1>2, <1>3, <1>4, <1>5

----------------------------------------------------------------------------
(* What a step does to a row.                                              *)
RowMove(d, t) ==
    LET r == row[d][t]
        q == row'[d][t]
    IN \/ q.state = r.state /\ q.path = r.path
       \/ /\ q.path = r.path
          /\ \/ /\ q.state = "offered"
                /\ \E s \in Screen : OfferPut(s) /\ Asks(s, {"hash"}, t) /\ ScreenOf[s] = d
             \/ q.state \in {"running", "failed", "done"} /\ d = Sender[t] /\ r.state # "none"
             \/ q.state = "failed" /\ r.state \in Live
             \/ q.state = "failed" /\ Verify(d) /\ reader[d].id = t
             \/ /\ q.state = "failed"
                /\ \E s \in Screen : AcceptTell(s) /\ Asks(s, {"answer"}, t) /\ ScreenOf[s] = d
             \/ q.state = "done" /\ Finish(d) /\ reader[d].id = t
       \/ /\ q.path = None
          /\ \/ q.state = "incoming" /\ ReadOffer(d, t)
             \/ q.state = "declined" /\ ReadDecline(d, t) /\ r.state # "none"
             \/ /\ q.state = "cancelled"
                /\ \E s \in Screen : Decline(s) /\ Asks(s, {"decline"}, t) /\ ScreenOf[s] = d
       \/ /\ q.state = "running"
          /\ \E s \in Screen : /\ AcceptRun(s) /\ Asks(s, {"run"}, t) /\ ScreenOf[s] = d
                               /\ q.path = screen[s].path

(* A row changes by one of the steps of RowMove.                           *)
LEMMA RowMoves ==
  ASSUME IInv, EndsOnly, [Next]_vars
  PROVE  \A d \in Daemon, t \in Transfer : RowMove(d, t)
  <1> DEFINE Goal == \A d \in Daemon, t \in Transfer : RowMove(d, t)
             Others(d, t) == \A e \in Daemon, u \in Transfer : e # d \/ u # t => row'[e][u] = row[e][u]
  <1>r. row \in [Daemon -> [Transfer -> Row]] /\ None \notin Daemon
      BY ConstantsAssumption DEF IInv, Typed, RowsOK
  <1>p. \A d \in Daemon, t \in Transfer : ~Incoming(d, t) => row[d][t].path = None
      BY ConstantsAssumption DEF EndsOnly, Incoming, Receives
  <1>k. \A s \in Screen : /\ ScreenOf[s] \in Daemon
                          /\ screen[s].at # "idle" => screen[s].id \in Transfer
                          /\ screen[s].at \in {"hash", "offer"} => ScreenOf[s] = Sender[screen[s].id]
      BY ConstantsAssumption DEF IInv, Typed, CallsOK
  <1>l. \A d \in Daemon : reader[d].at \in {"start", "verify", "finish"} => reader[d].id \in Transfer
      BY DEF IInv, Typed, LinksOK
  <1>n. \A t \in Transfer : Sender[t] \in Daemon
      BY ConstantsAssumption
  <1>a. ASSUME UNCHANGED row PROVE Goal
      BY <1>a DEF RowMove
  <1>o. ASSUME NEW d \in Daemon, NEW t \in Transfer, Others(d, t), RowMove(d, t) PROVE Goal
      <2>1. ASSUME NEW e \in Daemon, NEW u \in Transfer, e # d \/ u # t PROVE RowMove(e, u)
          <3>1. row'[e][u] = row[e][u]
              BY <1>o, <2>1
          <3> QED
              BY <3>1, Zenon DEF RowMove
      <2> QED
          BY <1>o, <2>1
  <1>s. ASSUME NEW d \in Daemon, NEW t \in Transfer, NEW x, row' = [row EXCEPT ![d][t].state = x]
        PROVE  row'[d][t].state = x /\ row'[d][t].path = row[d][t].path /\ Others(d, t)
      BY <1>r, <1>s DEF Row
  <1>g. ASSUME NEW d \in Daemon, NEW t \in Transfer, NEW x, row' = [row EXCEPT ![d][t].got = x]
        PROVE  row'[d][t].state = row[d][t].state /\ row'[d][t].path = row[d][t].path /\ Others(d, t)
      BY <1>r, <1>g DEF Row
  <1>v. ASSUME NEW d \in Daemon, NEW t \in Transfer, NEW x, row' = [row EXCEPT ![d][t] = x]
        PROVE  row'[d][t] = x /\ Others(d, t)
      BY <1>r, <1>v
  <1> HIDE DEF Goal, Others
  <1>f. ASSUME NEW d \in Daemon, NEW t \in Transfer, Fail(d, t)
        PROVE  row'[d][t].state = "failed" /\ row'[d][t].path = row[d][t].path /\ Others(d, t)
      <2>1. row' = [row EXCEPT ![d][t].state = "failed"]
          BY <1>f, Zenon DEF Fail
      <2> QED
          BY <1>s, <2>1
  <1>1. ASSUME NEW d \in Daemon, Linked(d) PROVE Goal
      <2>1. CASE Drop(d)
          BY <1>a, <2>1, Zenon DEF Drop
      <2>2. CASE FailLiveTransfers(d)
          <3>1. row' = [row EXCEPT ![d] = [t \in Transfer |->
                     IF row[d][t].state \in Live THEN [@[t] EXCEPT !.state = "failed"] ELSE @[t]]]
              BY <2>2 DEF FailLiveTransfers
          <3>2. ASSUME NEW e \in Daemon, NEW t \in Transfer PROVE RowMove(e, t)
              <4>1. \/ row'[e][t] = row[e][t]
                    \/ row[e][t].state \in Live /\ row'[e][t] = [row[e][t] EXCEPT !.state = "failed"]
                  BY <1>r, <3>1
              <4>2. row[e][t] \in Row
                  BY <1>r
              <4> QED
                  BY <4>1, <4>2 DEF RowMove, Row
          <3> QED
              BY <3>2 DEF Goal
      <2>3. CASE StartPush(d)
          <3>1. /\ reader[d].at = "start" /\ reader[d].id \in Transfer
                /\ row' = [row EXCEPT ![d][reader[d].id].state = "running"]
              BY <1>l, <2>3 DEF StartPush
          <3>2. d = Sender[reader[d].id] /\ row[d][reader[d].id].state # "none"
              BY <3>1 DEF EndsOnly
          <3>3. /\ row'[d][reader[d].id].state = "running" /\ Others(d, reader[d].id)
                /\ row'[d][reader[d].id].path = row[d][reader[d].id].path
              BY <1>r, <3>1 DEF Row, Others
          <3>4. RowMove(d, reader[d].id)
              BY <3>2, <3>3, Zenon DEF RowMove
          <3> QED
              BY <1>o, <3>1, <3>3, <3>4
      <2>4. CASE Verify(d)
          <3>1. reader[d].at = "verify" /\ reader[d].id \in Transfer /\ (UNCHANGED row \/ Fail(d, reader[d].id))
              BY <1>l, <2>4, Zenon DEF Verify
          <3>2. CASE Fail(d, reader[d].id)
              <4>1. RowMove(d, reader[d].id)
                  BY <1>f, <2>4, <3>1, <3>2 DEF RowMove
              <4> QED
                  BY <1>f, <1>o, <3>1, <3>2, <4>1
          <3> QED
              BY <1>a, <3>1, <3>2
      <2>5. CASE Finish(d)
          <3>1. /\ reader[d].at = "finish" /\ reader[d].id \in Transfer
                /\ row' = [row EXCEPT ![d][reader[d].id].state = "done", ![d][reader[d].id].got = Chunks]
              BY <1>l, <2>5 DEF Finish
          <3>2. /\ row'[d][reader[d].id].state = "done" /\ row'[d][reader[d].id].path = row[d][reader[d].id].path
                /\ Others(d, reader[d].id)
              <4> DEFINE v == [row[d][reader[d].id] EXCEPT !.state = "done", !.got = Chunks]
              <4>1. row' = [row EXCEPT ![d][reader[d].id] = v]
                  BY <1>r, <3>1
              <4>2. v.state = "done" /\ v.path = row[d][reader[d].id].path
                  BY <1>r, <3>1 DEF Row
              <4> HIDE DEF v
              <4>3. row'[d][reader[d].id] = v /\ Others(d, reader[d].id)
                  BY <1>v, <3>1, <4>1
              <4> QED
                  BY <4>2, <4>3
          <3>3. RowMove(d, reader[d].id)
              BY <2>5, <3>2, Zenon DEF RowMove
          <3> QED
              BY <1>o, <3>1, <3>2, <3>3
      <2>6. ASSUME NEW t \in Transfer, ReadOffer(d, t) PROVE Goal
          <3>1. UNCHANGED row \/ row' = [row EXCEPT ![d][t] = [NoRow EXCEPT !.state = "incoming"]]
              BY <2>6, Zenon DEF ReadOffer
          <3>2. CASE row' = [row EXCEPT ![d][t] = [NoRow EXCEPT !.state = "incoming"]]
              <4>1. row'[d][t] = [NoRow EXCEPT !.state = "incoming"] /\ Others(d, t)
                  BY <1>v, <3>2
              <4>2. row'[d][t].state = "incoming" /\ row'[d][t].path = None
                  BY <4>1 DEF NoRow
              <4>3. RowMove(d, t)
                  BY <2>6, <4>2 DEF RowMove
              <4> QED
                  BY <1>o, <4>1, <4>3
          <3> QED
              BY <1>a, <3>1, <3>2
      <2>7. ASSUME NEW t \in Transfer, ReadAccept(d, t) \/ ReadDone(d, t) PROVE Goal
          BY <1>a, <2>7, Zenon DEF ReadAccept, ReadDone
      <2>8. ASSUME NEW t \in Transfer, ReadDecline(d, t) PROVE Goal
          <3> DEFINE p == IF Incoming(d, t) /\ row[d][t].path # None THEN None ELSE row[d][t].path
                     v == [row[d][t] EXCEPT !.state = "declined", !.path = p]
          <3>1. UNCHANGED row \/ (row[d][t].state # "none" /\ row' = [row EXCEPT ![d][t] = v])
              BY <2>8, Zenon DEF ReadDecline
          <3>2. p = None
              BY <1>p
          <3>3. v.state = "declined" /\ v.path = None
              BY <1>r, <3>2 DEF Row
          <3> HIDE DEF v
          <3>4. CASE row[d][t].state # "none" /\ row' = [row EXCEPT ![d][t] = v]
              <4>1. Others(d, t) /\ row'[d][t] = v
                  BY <1>v, <3>4
              <4>2. RowMove(d, t)
                  BY <2>8, <3>3, <3>4, <4>1 DEF RowMove
              <4> QED
                  BY <1>o, <4>1, <4>2
          <3> QED
              BY <1>a, <3>1, <3>4
      <2>9. ASSUME NEW t \in Transfer, ReadChunk(d, t) PROVE Goal
          <3>1. \/ UNCHANGED row
                \/ row[d][t].state = "running" /\ Fail(d, t)
                \/ row' = [row EXCEPT ![d][t].got = @ + 1]
              BY <2>9, Zenon DEF ReadChunk
          <3>2. CASE row[d][t].state = "running" /\ Fail(d, t)
              <4>1. RowMove(d, t)
                  BY <1>f, <3>2 DEF RowMove, Live
              <4> QED
                  BY <1>f, <1>o, <3>2, <4>1
          <3>3. CASE row' = [row EXCEPT ![d][t].got = @ + 1]
              <4>1. row' = [row EXCEPT ![d][t].got = row[d][t].got + 1]
                  BY <3>3
              <4>2. RowMove(d, t)
                  BY <1>g, <4>1 DEF RowMove
              <4> QED
                  BY <1>g, <1>o, <4>1, <4>2
          <3> QED
              BY <1>a, <3>1, <3>2, <3>3
      <2> QED
          BY <1>1, <2>1, <2>2, <2>3, <2>4, <2>5, <2>6, <2>7, <2>8, <2>9 DEF Linked
  <1>2. ASSUME NEW t \in Transfer, Pushing(t) PROVE Goal
      <2>1. \/ UNCHANGED row
            \/ /\ pusher[t].at # "no"
               /\ \/ row' = [row EXCEPT ![Sender[t]][t].got = pusher[t].off + 1]
                  \/ Fail(Sender[t], t)
                  \/ row' = [row EXCEPT ![Sender[t]][t].state = "done"]
          BY <1>2, Zenon DEF Pushing, PushLook, PushChunk, PushDone, PushClose
      <2>2. CASE pusher[t].at # "no" /\ row' = [row EXCEPT ![Sender[t]][t].got = pusher[t].off + 1]
          <3>1. RowMove(Sender[t], t)
              BY <1>g, <1>n, <2>2 DEF RowMove
          <3> QED
              BY <1>g, <1>n, <1>o, <2>2, <3>1
      <2>3. CASE pusher[t].at # "no" /\ Fail(Sender[t], t)
          <3>1. RowMove(Sender[t], t)
              BY <1>f, <1>n, <2>3 DEF RowMove, EndsOnly
          <3> QED
              BY <1>f, <1>n, <1>o, <2>3, <3>1
      <2>4. CASE pusher[t].at # "no" /\ row' = [row EXCEPT ![Sender[t]][t].state = "done"]
          <3>1. /\ row'[Sender[t]][t].state = "done" /\ Others(Sender[t], t)
                /\ row'[Sender[t]][t].path = row[Sender[t]][t].path
              BY <1>r, <1>n, <2>4 DEF Row, Others
          <3>2. row[Sender[t]][t].state # "none"
              BY <2>4 DEF EndsOnly
          <3>3. RowMove(Sender[t], t)
              BY <3>1, <3>2, Zenon DEF RowMove
          <3> QED
              BY <1>n, <1>o, <3>1, <3>3
      <2> QED
          BY <1>a, <2>1, <2>2, <2>3, <2>4
  <1>3. ASSUME NEW s \in Screen, Calling(s) PROVE Goal
      <2> DEFINE d == ScreenOf[s]
                 t == screen[s].id
      <2>0. d \in Daemon /\ (screen[s].at # "idle" => t \in Transfer)
          BY <1>k
      <2> HIDE DEF d, t
      <2>1. CASE OfferPut(s)
          <3>1. screen[s].at = "hash" /\ row' = [row EXCEPT ![d][t].state = "offered"]
              BY <2>1 DEF OfferPut, d, t
          <3>2. row'[d][t].state = "offered" /\ row'[d][t].path = row[d][t].path /\ Others(d, t)
              BY <1>s, <2>0, <3>1
          <3>3. Asks(s, {"hash"}, t) /\ ScreenOf[s] = d
              BY <3>1 DEF Asks, d, t
          <3>4. RowMove(d, t)
              BY <2>1, <3>2, <3>3 DEF RowMove
          <3> QED
              BY <1>o, <2>0, <3>1, <3>2, <3>4
      <2>2. CASE OfferTell(s)
          <3>1. screen[s].at = "offer" /\ (UNCHANGED row \/ Fail(d, t))
              BY <2>2, Zenon DEF OfferTell, Tell, d, t
          <3>2. d = Sender[t] /\ row[d][t].state # "none"
              BY <1>k, <3>1 DEF EndsOnly, d, t
          <3>3. CASE Fail(d, t)
              <4>1. RowMove(d, t)
                  BY <1>f, <2>0, <3>1, <3>2, <3>3 DEF RowMove
              <4> QED
                  BY <1>f, <1>o, <2>0, <3>1, <3>3, <4>1
          <3> QED
              BY <1>a, <3>1, <3>3
      <2>3. CASE AcceptLook(s) \/ AcceptCreate(s) \/ DeclineTell(s)
          BY <1>a, <2>3, Zenon DEF AcceptLook, AcceptCreate, DeclineTell, Tell
      <2>4. CASE AcceptRun(s)
          <3>1. screen[s].at = "run" /\ row' = [row EXCEPT ![d][t] = [state |-> "running", path |-> screen[s].path, got |-> 0]]
              BY <2>4 DEF AcceptRun, d, t
          <3>2. row'[d][t] = [state |-> "running", path |-> screen[s].path, got |-> 0] /\ Others(d, t)
              BY <1>v, <2>0, <3>1
          <3>3. RowMove(d, t)
              <4>1. row'[d][t].state = "running" /\ row'[d][t].path = screen[s].path
                  BY <3>2
              <4>2. Asks(s, {"run"}, t) /\ ScreenOf[s] = d
                  BY <3>1 DEF Asks, d, t
              <4> QED
                  BY <2>4, <4>1, <4>2, Zenon DEF RowMove
          <3>4. d \in Daemon /\ t \in Transfer /\ Others(d, t)
              BY <2>0, <3>1, <3>2
          <3> QED
              BY <1>o, <3>3, <3>4
      <2>5. CASE AcceptTell(s)
          <3>1. screen[s].at = "answer" /\ (UNCHANGED row \/ Fail(d, t))
              BY <2>5, Zenon DEF AcceptTell, Tell, d, t
          <3>3. CASE Fail(d, t)
              <4>1. RowMove(d, t)
                  BY <1>f, <2>0, <2>5, <3>1, <3>3 DEF RowMove, Asks, d, t
              <4> QED
                  BY <1>f, <1>o, <2>0, <3>1, <3>3, <4>1
          <3> QED
              BY <1>a, <3>1, <3>3
      <2>6. CASE Decline(s)
          <3> DEFINE p == IF Incoming(d, t) /\ row[d][t].path # None THEN None ELSE row[d][t].path
                     v == [row[d][t] EXCEPT !.state = "cancelled", !.path = p]
          <3>1. screen[s].at = "decline" /\ row' = [row EXCEPT ![d][t] = v]
              BY <2>6, Zenon DEF Decline, d, t
          <3>2. p = None
              BY <1>p, <2>0, <3>1
          <3>3. v.state = "cancelled" /\ v.path = None
              BY <1>r, <2>0, <3>1, <3>2 DEF Row
          <3> HIDE DEF v
          <3>4. Others(d, t) /\ row'[d][t] = v
              BY <1>v, <2>0, <3>1
          <3>5. RowMove(d, t)
              BY <2>6, <3>1, <3>3, <3>4 DEF RowMove, Asks, d, t
          <3> QED
              BY <1>o, <2>0, <3>1, <3>4, <3>5
      <2> QED
          BY <1>3, <2>1, <2>2, <2>3, <2>4, <2>5, <2>6 DEF Calling
  <1>4. \/ UNCHANGED row
        \/ \E d \in Daemon : Linked(d)
        \/ \E t \in Transfer : Pushing(t)
        \/ \E s \in Screen : Calling(s)
      BY ServerLeaves, ClientLeaves DEF Next, vars, client
  <1>5. Goal
      BY <1>a, <1>1, <1>2, <1>3, <1>4
  <1> QED
      BY <1>5 DEF Goal

(* Accept creates a file under a name that is not in the directory.        *)
LEMMA CreateFresh ==
  ASSUME IInv, NEW s \in Screen, AcceptCreate(s)
  PROVE  \E p \in Path :
            /\ screen[s].at = "create" /\ screen[s].id \in Transfer /\ ScreenOf[s] \in Daemon
            /\ p \notin DOMAIN disk[ScreenOf[s]] /\ p \in DOMAIN disk'[ScreenOf[s]]
            /\ \A d \in Daemon : \A q \in DOMAIN disk[d] : q \in DOMAIN disk'[d] /\ disk'[d][q] = disk[d][q]
            /\ file'[ScreenOf[s]][screen[s].id] = p
            /\ \A d \in Daemon, t \in Transfer :
                  d # ScreenOf[s] \/ t # screen[s].id => file'[d][t] = file[d][t]
            /\ screen'[s].path = p /\ screen'[s].at = "run"
            /\ \A r \in Screen : r # s => screen'[r] = screen[r]
  <1> DEFINE d == ScreenOf[s]
             t == screen[s].id
  <1>0. d \in Daemon
      BY ConstantsAssumption
  <1> HIDE DEF d
  <1>1. PICK p \in Path \ DOMAIN disk[d] :
            /\ disk' = [disk EXCEPT ![d] = [q \in DOMAIN @ \cup {p} |-> IF q = p THEN <<>> ELSE @[q]]]
            /\ file' = [file EXCEPT ![d][t] = p]
            /\ screen' = [screen EXCEPT ![s].at = "run", ![s].path = p]
      BY DEF AcceptCreate, d
  <1>2. screen[s].at = "create" /\ t \in Transfer
      BY DEF AcceptCreate, IInv, Typed, CallsOK
  <1>3. /\ p \in DOMAIN disk'[d]
        /\ \A e \in Daemon : \A q \in DOMAIN disk[e] : q \in DOMAIN disk'[e] /\ disk'[e][q] = disk[e][q]
      <2> DEFINE old == disk[d]
                 new == [q \in DOMAIN old \cup {p} |-> IF q = p THEN <<>> ELSE old[q]]
      <2>1. disk' = [disk EXCEPT ![d] = new]
          BY <1>1
      <2>2. p \in DOMAIN new /\ \A q \in DOMAIN old : q \in DOMAIN new /\ new[q] = old[q]
          BY <1>1
      <2> HIDE DEF new
      <2>3. DOMAIN disk = Daemon
          BY DEF IInv, Typed, DisksOK
      <2>4. disk'[d] = new /\ \A e \in Daemon : e # d => disk'[e] = disk[e]
          BY <1>0, <2>1, <2>3
      <2> QED
          BY <2>2, <2>4
  <1>4. /\ file'[d][t] = p
        /\ \A e \in Daemon, u \in Transfer : e # d \/ u # t => file'[e][u] = file[e][u]
      BY <1>0, <1>1, <1>2 DEF IInv, Typed, FilesOK
  <1>5. screen[s] \in Call
      BY DEF IInv, Typed, CallsOK
  <1>6. screen'[s].path = p /\ screen'[s].at = "run"
      BY <1>1, <1>5 DEF IInv, Typed, CallsOK, Call
  <1>7. \A r \in Screen : r # s => screen'[r] = screen[r]
      BY <1>1 DEF IInv, Typed, CallsOK
  <1> QED
      BY <1>0, <1>1, <1>2, <1>3, <1>4, <1>6, <1>7 DEF d

(* A file is opened by an accept, and closed for good.                     *)
FileMove(d, t) ==
    \/ file'[d][t] = file[d][t] \/ file'[d][t] = None
    \/ \E s \in Screen : AcceptCreate(s) /\ Asks(s, {"create"}, t) /\ ScreenOf[s] = d

(* Only Accept opens a file.                                               *)
LEMMA FileMoves ==
  ASSUME IInv, [Next]_vars
  PROVE  \A d \in Daemon, t \in Transfer : FileMove(d, t)
  <1> DEFINE Goal == \A d \in Daemon, t \in Transfer : FileMove(d, t)
  <1>t. file \in [Daemon -> [Transfer -> Path \cup {None}]]
      BY DEF IInv, Typed, FilesOK
  <1>a. ASSUME UNCHANGED file PROVE Goal
      BY <1>a DEF FileMove
  <1>n. ASSUME NEW d, NEW t, file' = [file EXCEPT ![d][t] = None] PROVE Goal
      BY <1>t, <1>n DEF FileMove
  <1>c. ASSUME NEW s \in Screen, AcceptCreate(s) PROVE Goal
      BY <1>c, CreateFresh DEF FileMove, Asks
  <1> HIDE DEF Goal
  <1>1. ASSUME NEW d \in Daemon, Linked(d) PROVE Goal
      <2>1. CASE FailLiveTransfers(d)
          <3>1. \E lost : file' = [file EXCEPT ![d] = [t \in Transfer |-> IF t \in lost THEN None ELSE @[t]]]
              BY <2>1 DEF FailLiveTransfers
          <3> QED
              BY <1>t, <3>1 DEF Goal, FileMove
      <2>2. CASE \/ Drop(d) \/ StartPush(d) \/ Verify(d) \/ Finish(d)
                 \/ \E t \in Transfer : \/ ReadOffer(d, t) \/ ReadAccept(d, t) \/ ReadDecline(d, t)
                                        \/ ReadChunk(d, t) \/ ReadDone(d, t)
          <3>1. UNCHANGED file \/ \E t : file' = [file EXCEPT ![d][t] = None]
              BY <2>2, Zenon DEF Drop, StartPush, Verify, Finish, ReadOffer, ReadAccept, ReadDecline, ReadChunk,
                 ReadDone, Fail
          <3> QED
              BY <1>a, <1>n, <3>1
      <2> QED
          BY <1>1, <2>1, <2>2, Zenon DEF Linked
  <1>2. ASSUME NEW t \in Transfer, Pushing(t) PROVE Goal
      <2>1. UNCHANGED file \/ file' = [file EXCEPT ![Sender[t]][t] = None]
          BY <1>2, Zenon DEF Pushing, PushLook, PushChunk, PushDone, PushClose, Fail
      <2> QED
          BY <1>a, <1>n, <2>1
  <1>3. ASSUME NEW s \in Screen, Calling(s) PROVE Goal
      <2>1. UNCHANGED file \/ AcceptCreate(s) \/ \E d, t : file' = [file EXCEPT ![d][t] = None]
          BY <1>3, Zenon DEF Calling, OfferPut, OfferTell, AcceptLook, AcceptRun, AcceptTell, Decline,
             DeclineTell, Tell, Fail
      <2> QED
          BY <1>a, <1>c, <1>n, <2>1
  <1>4. \/ UNCHANGED file
        \/ \E d \in Daemon : Linked(d)
        \/ \E t \in Transfer : Pushing(t)
        \/ \E s \in Screen : Calling(s)
      BY ServerLeaves, ClientLeaves DEF Next, vars, client
  <1>5. Goal
      BY <1>a, <1>1, <1>2, <1>3, <1>4
  <1> QED
      BY <1>5 DEF Goal

(* What becomes of a file that is in the directory.                        *)
DiskMove(d, p) ==
    \/ p \in DOMAIN disk'[d] /\ disk'[d][p] = disk[d][p]
    \/ p \in DOMAIN disk'[d] /\ \E t \in Transfer : ReadChunk(d, t) /\ file[d][t] = p
    \/ \E t \in Transfer : ReadDecline(d, t) /\ row[d][t].path = p
    \/ Verify(d) /\ reader[d].path = p
    \/ \E s \in Screen : Decline(s) /\ ScreenOf[s] = d /\ row[d][screen[s].id].path = p

(* What a file holds is changed by a piece, and it is deleted by a refusal *)
(* or a digest that differs.                                               *)
LEMMA DiskMoves ==
  ASSUME IInv, [Next]_vars
  PROVE  \A d \in Daemon : \A p \in DOMAIN disk[d] : DiskMove(d, p)
  <1> DEFINE Goal == \A d \in Daemon : \A p \in DOMAIN disk[d] : DiskMove(d, p)
  <1>t. DOMAIN disk = Daemon /\ \A d \in Daemon : \A p \in DOMAIN disk[d] : disk[d][p] \in Seq(Nat)
      BY DEF IInv, Typed, DisksOK
  <1>a. ASSUME UNCHANGED disk PROVE Goal
      BY <1>a DEF DiskMove
  <1>r. ASSUME NEW d \in Daemon, NEW q, disk' = Removed(d, q)
        PROVE  \A e \in Daemon : \A p \in DOMAIN disk[e] :
                  (e = d /\ p = q) \/ (p \in DOMAIN disk'[e] /\ disk'[e][p] = disk[e][p])
      <2>1. disk' = [disk EXCEPT ![d] = [p \in DOMAIN disk[d] \ {q} |-> disk[d][p]]]
          BY <1>r DEF Removed
      <2>2. disk'[d] = [p \in DOMAIN disk[d] \ {q} |-> disk[d][p]]
          BY <1>t, <2>1
      <2>3. \A e \in Daemon : e # d => disk'[e] = disk[e]
          BY <1>t, <2>1
      <2>4. \A p \in DOMAIN disk[d] : p # q => p \in DOMAIN disk'[d] /\ disk'[d][p] = disk[d][p]
          BY <2>2
      <2> QED
          BY <2>3, <2>4
  <1>m. ASSUME NEW d \in Daemon, NEW q, disk' = Removed(d, q), q \in DOMAIN disk[d] => DiskMove(d, q)
        PROVE  Goal
      <2>1. ASSUME NEW e \in Daemon, NEW p \in DOMAIN disk[e] PROVE DiskMove(e, p)
          <3>1. CASE e = d /\ p = q
              BY <1>m, <2>1, <3>1
          <3>2. CASE p \in DOMAIN disk'[e] /\ disk'[e][p] = disk[e][p]
              BY <3>2 DEF DiskMove
          <3> QED
              BY <1>r, <1>m, <2>1, <3>1, <3>2
      <2> QED
          BY <2>1
  <1>c. ASSUME NEW s \in Screen, AcceptCreate(s) PROVE Goal
      BY <1>c, CreateFresh DEF DiskMove
  <1>1. ASSUME NEW d \in Daemon, Linked(d) PROVE Goal
      <2>1. CASE Verify(d)
          <3>1. UNCHANGED disk \/ disk' = Removed(d, reader[d].path)
              BY <2>1, Zenon DEF Verify
          <3>2. DiskMove(d, reader[d].path)
              BY <2>1 DEF DiskMove
          <3> QED
              BY <1>a, <1>m, <3>1, <3>2
      <2>2. ASSUME NEW t \in Transfer, ReadDecline(d, t) PROVE Goal
          <3>1. UNCHANGED disk \/ disk' = Removed(d, row[d][t].path)
              BY <2>2, Zenon DEF ReadDecline
          <3>2. DiskMove(d, row[d][t].path)
              BY <2>2 DEF DiskMove
          <3> QED
              BY <1>a, <1>m, <3>1, <3>2
      <2>3. ASSUME NEW t \in Transfer, ReadChunk(d, t) PROVE Goal
          <3>1. \/ UNCHANGED disk
                \/ \E n : disk' = [disk EXCEPT ![d][file[d][t]] = Append(@, n)]
              BY <2>3, Zenon DEF ReadChunk
          <3>2. ASSUME NEW n, disk' = [disk EXCEPT ![d][file[d][t]] = Append(@, n)] PROVE Goal
              <4>1. \A e \in Daemon : /\ DOMAIN disk'[e] = DOMAIN disk[e]
                                      /\ \A p \in DOMAIN disk[e] : e # d \/ p # file[d][t] => disk'[e][p] = disk[e][p]
                  BY <1>t, <3>2
              <4> QED
                  BY <2>3, <4>1 DEF DiskMove
          <3> QED
              BY <1>a, <3>1, <3>2
      <2>4. CASE \/ Drop(d) \/ FailLiveTransfers(d) \/ StartPush(d) \/ Finish(d)
                 \/ \E t \in Transfer : ReadOffer(d, t) \/ ReadAccept(d, t) \/ ReadDone(d, t)
          <3>1. UNCHANGED disk
              BY <2>4, Zenon DEF Drop, FailLiveTransfers, StartPush, Finish, ReadOffer, ReadAccept, ReadDone
          <3> QED
              BY <1>a, <3>1
      <2> HIDE DEF Goal
      <2> QED
          BY <1>1, <2>1, <2>2, <2>3, <2>4, Zenon DEF Linked
  <1>2. ASSUME NEW s \in Screen, Calling(s) PROVE Goal
      <2>1. ScreenOf[s] \in Daemon
          BY ConstantsAssumption
      <2>2. CASE Decline(s)
          <3>1. UNCHANGED disk \/ disk' = Removed(ScreenOf[s], row[ScreenOf[s]][screen[s].id].path)
              BY <2>2, Zenon DEF Decline
          <3>2. DiskMove(ScreenOf[s], row[ScreenOf[s]][screen[s].id].path)
              BY <2>2 DEF DiskMove
          <3> QED
              BY <1>a, <1>m, <2>1, <3>1, <3>2
      <2>3. UNCHANGED disk \/ AcceptCreate(s) \/ Decline(s)
          BY <1>2, Zenon DEF Calling, OfferPut, OfferTell, AcceptLook, AcceptRun, AcceptTell, DeclineTell, Tell
      <2> HIDE DEF Goal
      <2> QED
          BY <1>a, <1>c, <2>2, <2>3
  <1>3. \/ UNCHANGED disk
        \/ \E d \in Daemon : Linked(d)
        \/ \E s \in Screen : Calling(s)
      BY ServerLeaves, ClientLeaves DEF Next, vars, client
  <1> HIDE DEF Goal
  <1>4. Goal
      BY <1>a, <1>1, <1>2, <1>3
  <1> QED
      BY <1>4 DEF Goal

----------------------------------------------------------------------------
(* The server carries a transfer from the booking of its offer on.         *)
LEMMA RelayMoves ==
  ASSUME IInv, [Next]_vars, NEW t \in Transfer, relay[t].state = "none", relay'[t].state # "none"
  PROVE  \E c \in Conn : Books(c, t) /\ handler'[c].at # "book"
  <1> USE DEF IInv, Typed
  <1>1. ASSUME NEW c \in Conn, Relaying(c) PROVE Book(c) /\ Books(c, t) /\ handler'[c].at # "book"
      <2>1. CASE OnOffer(c) \/ Deliver(c) \/ HangUp(c)
          <3>1. UNCHANGED relay
              BY <2>1, Zenon DEF OnOffer, Deliver, HangUp
          <3> QED
              BY <3>1
      <2>2. CASE OnAccept(c) \/ OnDecline(c) \/ OnChunk(c) \/ OnDone(c)
          <3>1. PICK u \in Transfer, new \in Relayed, frames \in Seq(Parcel) :
                    Pass(c, u, new, frames) /\ Allowed(c, u, new)
              BY <2>2, Passed
          <3> QED
              BY <3>1 DEF Pass, Allowed, RelayOK
      <2>3. CASE Book(c)
          <3>1. /\ handler[c].at = "book" /\ handler[c].id \in Transfer
                /\ \/ UNCHANGED relay
                   \/ relay' = [relay EXCEPT ![handler[c].id].state = "offered"]
                /\ handler' = [handler EXCEPT ![c].at = "read", ![c].id = None]
              BY <2>3, Zenon DEF Book, HandlerOK
          <3>2. handler[c].id = t
              BY <3>1 DEF RelayOK
          <3>3. handler[c] \in Goroutine
              BY DEF HandlerOK
          <3>4. handler'[c].at = "read"
              BY <3>1, <3>3 DEF HandlerOK, Goroutine
          <3> QED
              BY <2>3, <3>1, <3>2, <3>4 DEF Books
      <2>4. CASE FailTransfersOf(c)
          BY <2>4 DEF FailTransfersOf, NoRelay
      <2> QED
          BY <1>1, <2>1, <2>2, <2>3, <2>4 DEF Relaying
  <1>2. ASSUME NEW u \in Transfer, Expire(u) PROVE FALSE
      BY <1>2 DEF Expire, NoRelay, RelayOK
  <1>3. \/ UNCHANGED relay
        \/ \E c \in Conn : Relaying(c)
        \/ \E u \in Transfer : Expire(u)
      BY ServerLeaves, ClientLeaves DEF Next, vars, server
  <1> QED
      BY <1>1, <1>2, <1>3

(* What the goroutine that reads a link takes up.                          *)
ReaderMove(d) ==
    \/ reader'[d] = reader[d]
    \/ reader'[d].at \in {"down", "read", "dropped"}
    \/ \E t \in Transfer : /\ ReadAccept(d, t) /\ row[d][t].state = "offered" /\ ~Incoming(d, t)
                           /\ reader'[d].at = "start" /\ reader'[d].id = t
    \/ \E t \in Transfer : /\ ReadDone(d, t) /\ file'[d][t] = None /\ UNCHANGED row
                           /\ reader'[d].at = "verify" /\ reader'[d].id = t /\ reader'[d].path = row[d][t].path
    \/ /\ Verify(d) /\ reader[d].at = "verify" /\ UNCHANGED <<row, file, disk>>
       /\ reader'[d].at = "finish" /\ reader'[d].id = reader[d].id /\ reader'[d].path = reader[d].path
       /\ reader[d].path = None \/ ~DigestDiffers(d, reader[d].path)

(* What the goroutine of a link is about to do follows from what it has    *)
(* read.                                                                   *)
LEMMA ReaderMoves ==
  ASSUME IInv, [Next]_vars
  PROVE  \A d \in Daemon : ReaderMove(d)
  <1> USE DEF IInv, Typed
  <1> DEFINE Goal == \A d \in Daemon : ReaderMove(d)
  <1>r. \A d \in Daemon : reader[d] \in Reader
      BY DEF LinksOK
  <1>a. ASSUME UNCHANGED reader PROVE Goal
      BY <1>a DEF ReaderMove
  <1>o. ASSUME NEW d \in Daemon, NEW v, reader' = [reader EXCEPT ![d] = v], reader'[d] = v => ReaderMove(d)
        PROVE  Goal
      <2>1. reader'[d] = v /\ \A e \in Daemon : e # d => reader'[e] = reader[e]
          BY <1>o DEF LinksOK
      <2>2. \A e \in Daemon : e # d => ReaderMove(e)
          BY <2>1, Zenon DEF ReaderMove
      <2> QED
          BY <1>o, <2>1, <2>2
  <1>i. Reading.at = "read"
      BY DEF Reading
  <1> HIDE DEF Goal
  <1>1. ASSUME NEW d \in Daemon, Linked(d) PROVE Goal
      <2>1. CASE Drop(d) \/ FailLiveTransfers(d)
          <3>1. \E x \in {"dropped", "down"} : reader' = [reader EXCEPT ![d].at = x]
              BY <2>1, Zenon DEF Drop, FailLiveTransfers
          <3>2. PICK x \in {"dropped", "down"} : reader' = [reader EXCEPT ![d] = [reader[d] EXCEPT !.at = x]]
              BY <3>1
          <3>3. [reader[d] EXCEPT !.at = x].at = x
              BY <1>r DEF Reader
          <3> QED
              BY <1>o, <3>2, <3>3 DEF ReaderMove
      <2>2. CASE StartPush(d) \/ Finish(d)
          <3>1. reader' = [reader EXCEPT ![d] = Reading]
              BY <2>2, Zenon DEF StartPush, Finish
          <3> QED
              BY <1>i, <1>o, <3>1 DEF ReaderMove
      <2>3. CASE Verify(d)
          <3>1. CASE reader' = [reader EXCEPT ![d] = Reading]
              BY <1>i, <1>o, <3>1 DEF ReaderMove
          <3>2. CASE /\ ~(reader[d].path # None /\ DigestDiffers(d, reader[d].path))
                     /\ UNCHANGED <<row, file, disk>> /\ reader' = [reader EXCEPT ![d].at = "finish"]
              <4>1. reader' = [reader EXCEPT ![d] = [reader[d] EXCEPT !.at = "finish"]] /\ reader[d].at = "verify"
                  BY <2>3, <3>2 DEF Verify
              <4> DEFINE v == [reader[d] EXCEPT !.at = "finish"]
              <4>2. v.at = "finish" /\ v.id = reader[d].id /\ v.path = reader[d].path
                  BY <1>r DEF Reader
              <4>3. reader' = [reader EXCEPT ![d] = v]
                  BY <4>1
              <4> HIDE DEF v
              <4>4. reader'[d] = v => ReaderMove(d)
                  BY <2>3, <3>2, <4>1, <4>2, Zenon DEF ReaderMove
              <4> QED
                  BY <1>o, <4>3, <4>4
          <3> QED
              BY <2>3, <3>1, <3>2, Zenon DEF Verify
      <2>4. ASSUME NEW t \in Transfer, ReadOffer(d, t) \/ ReadDecline(d, t) \/ ReadChunk(d, t) PROVE Goal
          BY <1>a, <2>4, Zenon DEF ReadOffer, ReadDecline, ReadChunk
      <2>5. ASSUME NEW t \in Transfer, ReadAccept(d, t) PROVE Goal
          <3>1. CASE UNCHANGED reader
              BY <1>a, <3>1
          <3>2. CASE /\ row[d][t].state = "offered" /\ ~Incoming(d, t)
                     /\ reader' = [reader EXCEPT ![d].at = "start", ![d].id = t]
              <4> DEFINE v == [reader[d] EXCEPT !.at = "start", !.id = t]
              <4>1. reader' = [reader EXCEPT ![d] = v]
                  BY <1>r, <3>2 DEF LinksOK, Reader
              <4>2. v.at = "start" /\ v.id = t
                  BY <1>r DEF Reader
              <4> HIDE DEF v
              <4>3. reader'[d] = v => ReaderMove(d)
                  BY <2>5, <3>2, <4>2, Zenon DEF ReaderMove
              <4> QED
                  BY <1>o, <4>1, <4>3
          <3> QED
              BY <2>5, <3>1, <3>2, Zenon DEF ReadAccept
      <2>6. ASSUME NEW t \in Transfer, ReadDone(d, t) PROVE Goal
          <3>1. CASE UNCHANGED reader
              BY <1>a, <3>1
          <3>2. CASE /\ file' = [file EXCEPT ![d][t] = None] /\ UNCHANGED row
                     /\ reader' = [reader EXCEPT ![d] = [at |-> "verify", id |-> t, path |-> row[d][t].path]]
              <4>1. file'[d][t] = None
                  BY <3>2 DEF FilesOK
              <4> DEFINE v == [at |-> "verify", id |-> t, path |-> row[d][t].path]
              <4>2. v.at = "verify" /\ v.id = t /\ v.path = row[d][t].path
                  OBVIOUS
              <4>3. reader' = [reader EXCEPT ![d] = v]
                  BY <3>2
              <4> HIDE DEF v
              <4>4. reader'[d] = v => ReaderMove(d)
                  BY <2>6, <3>2, <4>1, <4>2, Zenon DEF ReaderMove
              <4> QED
                  BY <1>o, <4>3, <4>4
          <3> QED
              BY <2>6, <3>1, <3>2, Zenon DEF ReadDone
      <2> QED
          BY <1>1, <2>1, <2>2, <2>3, <2>4, <2>5, <2>6, Zenon DEF Linked
  <1>2. ASSUME NEW d \in Daemon, NEW c \in Conn, Enrol(d, c) PROVE Goal
      <2>1. reader' = [reader EXCEPT ![d] = Reading]
          BY <1>2, Zenon DEF Enrol
      <2> QED
          BY <1>i, <1>o, <2>1 DEF ReaderMove
  <1>3. \/ UNCHANGED reader
        \/ \E d \in Daemon : Linked(d) \/ \E c \in Conn : Enrol(d, c)
      BY ServerLeaves, ClientLeaves DEF Next, vars, client
  <1>4. Goal
      BY <1>a, <1>1, <1>2, <1>3
  <1> QED
      BY <1>4 DEF Goal

(* A file is pushed once its sender's reader has set it running.           *)
LEMMA PushMoves ==
  ASSUME IInv, [Next]_vars, NEW t \in Transfer, pusher[t].at = "no", pusher'[t].at # "no"
  PROVE  \E d \in Daemon : StartPush(d) /\ reader[d].at = "start" /\ reader[d].id = t
  <1> USE DEF IInv, Typed
  <1>1. ASSUME NEW d \in Daemon, Linked(d) PROVE StartPush(d) /\ reader[d].at = "start" /\ reader[d].id = t
      <2>1. UNCHANGED pusher \/ StartPush(d)
          BY <1>1, Zenon DEF Linked, Drop, FailLiveTransfers, Verify, Finish, ReadOffer, ReadAccept, ReadDecline,
             ReadChunk, ReadDone
      <2>2. CASE StartPush(d)
          <3>1. /\ reader[d].at = "start"
                /\ pusher' = [pusher EXCEPT ![reader[d].id] = [at |-> "look", off |-> 0]]
              BY <2>2 DEF StartPush
          <3> QED
              BY <2>2, <3>1 DEF PushingOK
      <2> QED
          BY <2>1, <2>2
  <1>2. ASSUME NEW u \in Transfer, Pushing(u) PROVE FALSE
      <2>1. pusher[u].at # "no" /\ \E v : pusher' = [pusher EXCEPT ![u] = v]
          BY <1>2, Zenon DEF Pushing, PushLook, PushChunk, PushDone, PushClose
      <2> QED
          BY <2>1 DEF PushingOK
  <1>3. \/ UNCHANGED pusher
        \/ \E d \in Daemon : Linked(d)
        \/ \E u \in Transfer : Pushing(u)
      BY ServerLeaves, ClientLeaves DEF Next, vars, client
  <1> QED
      BY <1>1, <1>2, <1>3

(* Why a frame is about to be sent.                                        *)
LEMMA PutsWhy ==
  ASSUME OfferOnce, EndOnce, NEW g \in Goroutines, NEW frames \in Seq(Parcel), Puts(g, frames),
         NEW type, NEW t \in Transfer, Has(Frames(frames), type, t)
  PROVE  /\ pending[g] = <<>> /\ frames # <<>> /\ pending' = [pending EXCEPT ![g] = frames]
         /\ type = "offer" => /\ ~Telling("offer", t)
                              /\ \E c \in Conn : Books(c, t) /\ handler'[c].at # "book"
         /\ type \in {"decline", "done"} => relay[t].state # "none" /\ relay'[t].state = "none"
         /\ type = "done" => ~Telling("done", t) /\ ~Refusing(t)
         /\ type \in Yes => \E c \in Conn : Has(toServer[c], type, t)
         /\ type # "decline" => Len(frames) = 1
  <1>1. PICK i \in 1 .. Len(frames) : About(frames[i].frame, type, t)
      BY FramesTyped DEF Has
  <1>2. Caused(frames[i]) /\ frames[i].frame.t = type /\ frames[i].frame.id = t /\ frames # <<>>
      BY <1>1 DEF Puts, About
  <1>3. type = "offer" => \E c \in Conn : Books(c, t) /\ handler'[c].at # "book"
      BY <1>2 DEF Caused
  <1>4. type = "offer" => ~Telling("offer", t)
      <2> SUFFICES ASSUME type = "offer" PROVE ~Telling("offer", t)
          OBVIOUS
      <2>1. PICK c \in Conn : Books(c, t)
          BY <1>3
      <2>2. Asking(t)
          BY <2>1, Zenon DEF Asking, Asked
      <2> QED
          BY <2>2 DEF OfferOnce
  <1>5. type \in {"decline", "done"} => relay[t].state # "none" /\ relay'[t].state = "none"
      BY <1>2 DEF Caused
  <1>6. type = "done" => ~Telling("done", t) /\ ~Refusing(t)
      BY <1>5 DEF EndOnce
  <1>7. type \in Yes => \E c \in Conn : Has(toServer[c], type, t)
      BY <1>2 DEF Caused
  <1>8. type # "decline" => Len(frames) = 1
      <2>1. Len(frames) \in Nat /\ Len(frames) >= 1
          BY <1>1
      <2>2. Len(frames) > 1 => \A j \in 1 .. Len(frames) : frames[j].frame.t = "decline"
          BY DEF Puts
      <2>3. type # "decline" => ~(Len(frames) > 1)
          BY <1>1, <1>2, <2>2
      <2>4. \A n \in Nat : n >= 1 /\ ~(n > 1) => n = 1
          OBVIOUS
      <2> QED
          BY <2>1, <2>3, <2>4, Zenon
  <1> QED
      BY <1>2, <1>3, <1>4, <1>5, <1>6, <1>7, <1>8 DEF Puts

(* What is sent comes out of the queue.                                    *)
LEMMA SendsWhat ==
  ASSUME IInv, NEW g \in Goroutines, Sends(g)
  PROVE  /\ pending[g] \in Seq(Parcel) /\ Head(pending[g]) \in Parcel
         /\ Frames(pending[g]) \in Seq(Frame) /\ Frames(pending[g]) # <<>>
         /\ Head(Frames(pending[g])) = Head(pending[g]).frame
         /\ pending'[g] = Tail(pending[g]) /\ Frames(pending'[g]) = Tail(Frames(pending[g]))
         /\ \A h \in Goroutines : h # g => pending'[h] = pending[h]
         /\ 1 \in 1 .. Len(pending[g]) /\ pending[g][1] = Head(pending[g])
         /\ \A type, t : About(Head(pending[g]).frame, type, t) => Has(Frames(pending[g]), type, t)
  <1>1. pending[g] \in Seq(Parcel) /\ pending[g] # <<>>
      BY DEF IInv, Typed, FramesOK, Goroutines, Sends
  <1>2. pending'[g] = Tail(pending[g]) /\ \A h \in Goroutines : h # g => pending'[h] = pending[h]
      BY DEF IInv, Typed, FramesOK, Goroutines, Sends
  <1>3. Head(pending[g]) \in Parcel /\ 1 \in 1 .. Len(pending[g]) /\ pending[g][1] = Head(pending[g])
      BY <1>1
  <1>4. /\ Frames(pending[g]) \in Seq(Frame) /\ Frames(pending[g]) # <<>>
        /\ Head(Frames(pending[g])) = Head(pending[g]).frame
        /\ Frames(Tail(pending[g])) = Tail(Frames(pending[g]))
        /\ Len(Frames(pending[g])) = Len(pending[g]) /\ Frames(pending[g])[1] = pending[g][1].frame
      BY <1>1, <1>3, FramesTyped
  <1>5. \A type, t : About(Head(pending[g]).frame, type, t) => Has(Frames(pending[g]), type, t)
      BY <1>3, <1>4 DEF Has
  <1> QED
      BY <1>1, <1>2, <1>3, <1>4, <1>5

(* An inbox holds frames.                                                  *)
LEMMA InboxTyped ==
  ASSUME IInv
  PROVE  \A d \in Daemon : Inbox(d) \in Seq(Frame)
  BY DEF IInv, Typed, FramesOK, Inbox

(* A frame that the goroutine of a link reads is the next of its inbox.    *)
LEMMA ReadFrom ==
  ASSUME IInv, NEW d \in Daemon, NEW t \in Transfer, NEW type, Reads(d, type, t), UNCHANGED link
  PROVE  /\ reader[d].at = "read" /\ Inbox(d) # <<>> /\ About(Head(Inbox(d)), type, t)
         /\ Inbox(d)' = Tail(Inbox(d)) /\ Has(Inbox(d), type, t)
  <1>1. /\ reader[d].at = "read" /\ toClient[link[d]] # <<>> /\ Head(toClient[link[d]]).t = type
        /\ Head(toClient[link[d]]).id = t /\ toClient' = [toClient EXCEPT ![link[d]] = Tail(toClient[link[d]])]
      BY DEF Reads
  <1>2. link[d] \in Conn
      BY <1>1 DEF IInv, Typed, LinksOK
  <1>3. Inbox(d) # <<>> /\ About(Head(Inbox(d)), type, t) /\ Inbox(d)' = Tail(Inbox(d))
      BY <1>1, <1>2 DEF Inbox, About, IInv, Typed, FramesOK
  <1>4. 1 \in 1 .. Len(Inbox(d)) /\ Inbox(d)[1] = Head(Inbox(d))
      BY <1>3, InboxTyped
  <1> QED
      BY <1>1, <1>3, <1>4 DEF Has

(* An offer or an end that is told is in one place, until its receiver is  *)
(* through with it.                                                        *)
LEMMA ToldStep ==
  ASSUME OneDaemon, IInv, Wired, SentAll, Aimed, OfferOnce, EndOnce, [Next]_vars,
         NEW t \in Transfer, NEW type \in {"offer", "done"}
  PROVE  /\ ToldOnce(type, t)'
         /\ Telling(type, t)' => \/ Telling(type, t)
                                 \/ \E g \in Goroutines, frames \in Seq(Parcel) :
                                        Puts(g, frames) /\ Has(Frames(frames), type, t)
         /\ type = "offer" => \A d \in Daemon : ReadOffer(d, t) => ~Telling(type, t)'
         /\ type = "done" => \A d \in Daemon : Concludes(d, t) /\ ~Concludes(d, t)' => ~Telling(type, t)'
  <1>s. ToldOnce(type, t)
      BY DEF OfferOnce, EndOnce
  <1>i. \A d \in Daemon : Inbox(d) \in Seq(Frame)
      BY InboxTyped
  <1>p. \A g \in Goroutines : pending[g] \in Seq(Parcel)
      BY DEF IInv, Typed, FramesOK, Goroutines
  <1>d. DOMAIN pending = Goroutines
      BY DEF IInv, Typed, FramesOK, Goroutines
  <1>m. \/ Hears
        \/ \E g \in Goroutines : Sends(g)
        \/ \E g \in Goroutines, frames \in Seq(Parcel) : Puts(g, frames)
      BY QueuesMove
  <1>f. \A u \in Transfer : FrameOf("decline", u, 0) \in Frame /\ ~About(FrameOf("decline", u, 0), type, t)
      BY FrameTyped DEF FrameOf, About
  <1> DEFINE New(k, x) == k = "queue" /\ x \in Goroutines /\ \E frames \in Seq(Parcel) :
                              Puts(x, frames) /\ Has(Frames(frames), type, t)
             Moved(k, x) == k = "wire" /\ x \in Daemon /\ \E g \in Goroutines :
                              /\ Sends(g) /\ About(Head(pending[g]).frame, type, t)
                              /\ Identity[x] = Head(pending[g]).to
             Heard(k, x) == k = "reader" /\ x \in Daemon /\ type = "done" /\ ReadDone(x, t) /\ ~Concludes(x, t)
  <1>1. ASSUME NEW x \in Goroutines, Has(Frames(pending'[x]), type, t), ~Has(Frames(pending[x]), type, t)
        PROVE  New("queue", x)
      <2>1. CASE Hears
          BY <1>1, <2>1 DEF Hears
      <2>2. ASSUME NEW g \in Goroutines, Sends(g) PROVE FALSE
          <3>1. x = g
              BY <1>1, <2>2, SendsWhat
          <3>2. Shrinks(Frames(pending[x]), Frames(pending'[x]))
              BY <2>2, <3>1, SendsWhat DEF Shrinks
          <3> QED
              BY <1>1, <2>2, <3>1, <3>2, SendsWhat, ShrinksKeeps
      <2>3. ASSUME NEW g \in Goroutines, NEW frames \in Seq(Parcel), Puts(g, frames) PROVE New("queue", x)
          <3>1. x = g /\ pending'[x] = frames
              BY <1>1, <1>d, <2>3 DEF Puts
          <3> QED
              BY <1>1, <2>3, <3>1
      <2> QED
          BY <1>m, <2>1, <2>2, <2>3
  <1>2. ASSUME NEW x \in Daemon, Has(Inbox(x)', type, t), ~Has(Inbox(x), type, t) PROVE Moved("wire", x)
      <2>1. CASE Hears
          BY <1>2, <1>i, <2>1, ShrinksKeeps DEF Hears
      <2>2. ASSUME NEW g \in Goroutines, Sends(g) PROVE Moved("wire", x)
          <3>1. Identity[x] = Head(pending[g]).to /\ Inbox(x)' = Append(Inbox(x), Head(pending[g]).frame)
              BY <1>2, <2>2 DEF Sends
          <3>2. Head(pending[g]).frame \in Frame
              BY <2>2, SendsWhat DEF Parcel
          <3>3. About(Head(pending[g]).frame, type, t)
              BY <1>2, <1>i, <3>1, <3>2, Appended
          <3> QED
              BY <2>2, <3>1, <3>3
      <2>3. ASSUME NEW g \in Goroutines, NEW frames \in Seq(Parcel), Puts(g, frames) PROVE FALSE
          <3>1. PICK u \in Transfer : Inbox(x)' = Append(Inbox(x), FrameOf("decline", u, 0))
              BY <1>2, <2>3 DEF Puts
          <3> QED
              BY <1>2, <1>f, <1>i, <3>1, Appended
      <2> QED
          BY <1>m, <2>1, <2>2, <2>3
  <1>3. ASSUME NEW x \in Daemon, Concludes(x, t)', ~Concludes(x, t) PROVE ReadDone(x, t)
      BY <1>3, ReaderMoves DEF ReaderMove, Concludes
  <1>4. ASSUME NEW k, NEW x, Told(type, k, x, t)'
        PROVE  Told(type, k, x, t) \/ New(k, x) \/ Moved(k, x) \/ Heard(k, x)
      <2>1. CASE k = "queue" /\ x \in Goroutines /\ Has(Frames(pending'[x]), type, t)
          BY <1>1, <2>1 DEF Told
      <2>2. CASE k = "wire" /\ x \in Daemon /\ Has(Inbox(x)', type, t)
          BY <1>2, <2>2 DEF Told
      <2>3. CASE k = "reader" /\ type = "done" /\ x \in Daemon /\ Concludes(x, t)'
          BY <1>3, <2>3 DEF Told
      <2> QED
          BY <1>4, <2>1, <2>2, <2>3 DEF Told
  <1> DEFINE Kept(k, x) == Told(type, k, x, t) /\ Told(type, k, x, t)'
  <1>5. ASSUME NEW x, New("queue", x)
        PROVE  /\ \A k, y : ~Told(type, k, y, t) /\ ~Moved(k, y) /\ ~Heard(k, y)
               /\ \A k, y : New(k, y) => y = x
      <2>1. PICK frames \in Seq(Parcel) : Puts(x, frames) /\ Has(Frames(frames), type, t)
          BY <1>5
      <2>2. x \in Goroutines /\ frames # <<>> /\ pending' = [pending EXCEPT ![x] = frames] /\ ~Telling(type, t)
          BY <1>5, <2>1, PutsWhy
      <2>3. \A k, y : ~Told(type, k, y, t)
          BY <2>2 DEF Telling
      <2>4. ASSUME NEW k, NEW y, Moved(k, y) PROVE FALSE
          <3>1. PICK g \in Goroutines : Sends(g) /\ About(Head(pending[g]).frame, type, t)
              BY <2>4
          <3>2. Told(type, "queue", g, t)
              BY <3>1, SendsWhat DEF Told
          <3> QED
              BY <2>3, <3>2
      <2>5. ASSUME NEW k, NEW y, Heard(k, y) PROVE FALSE
          <3>1. Reads(y, "done", t) /\ UNCHANGED link /\ y \in Daemon
              BY <2>5, Zenon DEF ReadDone
          <3>2. Told(type, "wire", y, t)
              BY <2>5, <3>1, ReadFrom DEF Told
          <3> QED
              BY <2>3, <3>2
      <2>6. ASSUME NEW k, NEW y, New(k, y) PROVE y = x
          <3>1. PICK more \in Seq(Parcel) : Puts(y, more) /\ Has(Frames(more), type, t)
              BY <2>6
          <3>2. y \in Goroutines /\ more # <<>> /\ pending[y] = <<>> /\ pending' = [pending EXCEPT ![y] = more]
              BY <2>6, <3>1, PutsWhy
          <3>3. pending'[y] = more
              BY <1>d, <3>2
          <3>4. y # x => pending'[y] = pending[y]
              BY <1>d, <2>2, <3>2
          <3> QED
              BY <3>2, <3>3, <3>4
      <2> QED
          BY <2>3, <2>4, <2>5, <2>6
  <1>6. ASSUME NEW x, Moved("wire", x)
        PROVE  /\ \A k, y : ~Kept(k, y) /\ ~Heard(k, y) /\ (Moved(k, y) => y = x)
               /\ \E g : Told(type, "queue", g, t)
               /\ ~Has(Inbox(x), type, t)
      <2>1. PICK g \in Goroutines : /\ Sends(g) /\ About(Head(pending[g]).frame, type, t)
                                    /\ Identity[x] = Head(pending[g]).to
          BY <1>6
      <2>2. Told(type, "queue", g, t)
          BY <2>1, SendsWhat DEF Told
      <2>3. ~Told(type, "queue", g, t)'
          <3>1. Once(Frames(pending[g]), type, t)
              BY <1>s DEF ToldOnce
          <3>2. ~Has(Tail(Frames(pending[g])), type, t)
              BY <2>1, <3>1, SendsWhat, TakenOnce
          <3> QED
              BY <2>1, <3>2, SendsWhat DEF Told
      <2>4. \A k, y : ~Kept(k, y)
          BY <1>s, <2>2, <2>3, Zenon DEF ToldOnce
      <2>5. ASSUME NEW k, NEW y, Heard(k, y) PROVE FALSE
          <3>1. Reads(y, "done", t) /\ UNCHANGED link /\ y \in Daemon
              BY <2>5, Zenon DEF ReadDone
          <3>2. Told(type, "wire", y, t)
              BY <2>5, <3>1, ReadFrom DEF Told
          <3> QED
              BY <1>s, <2>2, <3>2 DEF ToldOnce
      <2>6. ASSUME NEW k, NEW y, Moved(k, y) PROVE Identity[y] = Target[t] /\ y \in Daemon
          <3>1. PICK h \in Goroutines : /\ Sends(h) /\ About(Head(pending[h]).frame, type, t)
                                        /\ Identity[y] = Head(pending[h]).to
              BY <2>6
          <3>2. Head(pending[h]).to = Target[t]
              BY <3>1, SendsWhat DEF Aimed, About
          <3> QED
              BY <2>6, <3>1, <3>2
      <2>7. \A k, y : Moved(k, y) => y = x
          BY <1>6, <2>6 DEF OneDaemon
      <2>8. ~Has(Inbox(x), type, t)
          BY <1>6, <1>s, <2>2 DEF ToldOnce, Told
      <2> QED
          BY <2>2, <2>4, <2>5, <2>7, <2>8
  <1>7. ASSUME NEW x, Heard("reader", x)
        PROVE  /\ \A k, y : ~Kept(k, y) /\ (Heard(k, y) => y = x)
               /\ Told(type, "wire", x, t)
      <2>1. Reads(x, "done", t) /\ UNCHANGED link /\ x \in Daemon
          BY <1>7, Zenon DEF ReadDone
      <2>2. Told(type, "wire", x, t) /\ About(Head(Inbox(x)), type, t) /\ Inbox(x) # <<>> /\ Inbox(x)' = Tail(Inbox(x))
          BY <1>7, <2>1, ReadFrom DEF Told
      <2>3. ~Told(type, "wire", x, t)'
          <3>1. Once(Inbox(x), type, t)
              BY <1>s, <2>1 DEF ToldOnce
          <3>2. ~Has(Tail(Inbox(x)), type, t)
              BY <1>i, <2>1, <2>2, <3>1, TakenOnce
          <3> QED
              BY <2>2, <3>2 DEF Told
      <2>4. \A k, y : ~Kept(k, y)
          BY <1>s, <2>2, <2>3, Zenon DEF ToldOnce
      <2>5. ASSUME NEW k, NEW y, Heard(k, y) PROVE y = x
          <3>1. Reads(y, "done", t) /\ UNCHANGED link /\ y \in Daemon
              BY <2>5, Zenon DEF ReadDone
          <3>2. Told(type, "wire", y, t)
              BY <2>5, <3>1, ReadFrom DEF Told
          <3> QED
              BY <1>s, <2>2, <3>2, Zenon DEF ToldOnce
      <2> QED
          BY <2>2, <2>4, <2>5
  <1>8. ASSUME NEW g \in Goroutines PROVE Once(Frames(pending'[g]), type, t)
      <2>0. Once(Frames(pending[g]), type, t)
          BY <1>s DEF ToldOnce
      <2>1. CASE Hears
          BY <2>0, <2>1 DEF Hears
      <2>2. ASSUME NEW h \in Goroutines, Sends(h) PROVE Once(Frames(pending'[g]), type, t)
          <3>1. CASE g = h
              <4>1. Shrinks(Frames(pending[g]), Frames(pending'[g]))
                  BY <2>2, <3>1, SendsWhat DEF Shrinks
              <4> QED
                  BY <2>0, <2>2, <3>1, <4>1, SendsWhat, ShrinksKeeps
          <3>2. CASE g # h
              BY <2>0, <2>2, <3>2, SendsWhat
          <3> QED
              BY <3>1, <3>2
      <2>3. ASSUME NEW h \in Goroutines, NEW frames \in Seq(Parcel), Puts(h, frames)
            PROVE  Once(Frames(pending'[g]), type, t)
          <3>1. CASE g = h
              <4>1. pending'[g] = frames
                  BY <1>d, <2>3, <3>1 DEF Puts
              <4>2. Has(Frames(frames), type, t) => Len(frames) = 1
                  BY <2>3, PutsWhy
              <4>3. Len(Frames(frames)) = Len(frames)
                  BY FramesTyped
              <4> QED
                  BY <4>1, <4>2, <4>3 DEF Once, Has
          <3>2. CASE g # h
              <4>1. pending'[g] = pending[g]
                  BY <1>d, <2>3, <3>2 DEF Puts
              <4> QED
                  BY <2>0, <4>1
          <3> QED
              BY <3>1, <3>2
      <2> QED
          BY <1>m, <2>1, <2>2, <2>3
  <1>9. ASSUME NEW d \in Daemon PROVE Once(Inbox(d)', type, t)
      <2>0. Once(Inbox(d), type, t)
          BY <1>s DEF ToldOnce
      <2>1. CASE Hears
          BY <1>i, <2>0, <2>1, ShrinksKeeps DEF Hears
      <2>2. ASSUME NEW g \in Goroutines, Sends(g) PROVE Once(Inbox(d)', type, t)
          <3>1. CASE Inbox(d)' = Inbox(d)
              BY <2>0, <3>1
          <3>2. CASE Identity[d] = Head(pending[g]).to /\ Inbox(d)' = Append(Inbox(d), Head(pending[g]).frame)
              <4>1. Head(pending[g]).frame \in Frame
                  BY <2>2, SendsWhat DEF Parcel
              <4>2. About(Head(pending[g]).frame, type, t) => ~Has(Inbox(d), type, t)
                  BY <1>6, <2>2, <3>2
              <4> QED
                  BY <1>i, <2>0, <3>2, <4>1, <4>2, Appended
          <3> QED
              BY <2>2, <3>1, <3>2 DEF Sends
      <2>3. ASSUME NEW g \in Goroutines, NEW frames \in Seq(Parcel), Puts(g, frames)
            PROVE  Once(Inbox(d)', type, t)
          <3>1. CASE Inbox(d)' = Inbox(d)
              BY <2>0, <3>1
          <3>2. ASSUME NEW u \in Transfer, Inbox(d)' = Append(Inbox(d), FrameOf("decline", u, 0))
                PROVE  Once(Inbox(d)', type, t)
              BY <1>f, <1>i, <2>0, <3>2, Appended
          <3> QED
              BY <2>3, <3>1, <3>2 DEF Puts
      <2> QED
          BY <1>m, <2>1, <2>2, <2>3
  <1>n. \A k, x : /\ New(k, x) => k = "queue"
                  /\ Moved(k, x) => k = "wire"
                  /\ Heard(k, x) => k = "reader"
      OBVIOUS
  <1>w. \A k, x : New(k, x) => \E g \in Goroutines, frames \in Seq(Parcel) :
                                   Puts(g, frames) /\ Has(Frames(frames), type, t)
      OBVIOUS
  <1> HIDE DEF New, Moved, Heard
  <1>10. ASSUME NEW k, NEW x, NEW l, NEW y, Told(type, k, x, t)', Told(type, l, y, t)' PROVE k = l /\ x = y
      <2>1. CASE Told(type, k, x, t) /\ Told(type, l, y, t)
          BY <1>s, <2>1, Zenon DEF ToldOnce
      <2>2. CASE New(k, x) \/ New(l, y)
          BY <1>4, <1>5, <1>10, <1>n, <2>2
      <2>3. CASE Moved(k, x) \/ Moved(l, y)
          BY <1>4, <1>5, <1>6, <1>10, <1>n, <2>3
      <2>4. CASE Heard(k, x) \/ Heard(l, y)
          BY <1>4, <1>5, <1>6, <1>7, <1>10, <1>n, <2>4
      <2> QED
          BY <1>4, <1>10, <2>1, <2>2, <2>3, <2>4
  <1>11. ToldOnce(type, t)'
      BY <1>8, <1>9, <1>10 DEF ToldOnce
  <1>12. ASSUME NEW k, NEW x, Told(type, k, x, t)'
         PROVE  \/ Telling(type, t)
                \/ \E g \in Goroutines, frames \in Seq(Parcel) : Puts(g, frames) /\ Has(Frames(frames), type, t)
      BY <1>4, <1>6, <1>7, <1>12, <1>n, <1>w, Zenon DEF Telling
  <1>13. ASSUME NEW d \in Daemon, type = "offer", ReadOffer(d, t), NEW k, NEW x, Told(type, k, x, t)' PROVE FALSE
      <2>1. Reads(d, "offer", t) /\ UNCHANGED link
          BY <1>13, Zenon DEF ReadOffer
      <2>2. Told(type, "wire", d, t) /\ About(Head(Inbox(d)), type, t) /\ Inbox(d) # <<>> /\ Inbox(d)' = Tail(Inbox(d))
          BY <1>13, <2>1, ReadFrom DEF Told
      <2>3. ~Told(type, "wire", d, t)'
          <3>1. Once(Inbox(d), type, t)
              BY <1>s DEF ToldOnce
          <3>2. ~Has(Tail(Inbox(d)), type, t)
              BY <1>i, <2>2, <3>1, TakenOnce
          <3> QED
              BY <2>2, <3>2 DEF Told
      <2>4. \A l, y : ~Kept(l, y)
          BY <1>s, <2>2, <2>3, Zenon DEF ToldOnce
      <2>5. \A l, y : ~New(l, y)
          BY <1>5, <1>n, <2>2
      <2>6. \A l, y : ~Moved(l, y)
          <3> SUFFICES ASSUME NEW l, NEW y, Moved(l, y) PROVE FALSE
              OBVIOUS
          <3>1. PICK g : Told(type, "queue", g, t)
              BY <1>6, <1>n
          <3> QED
              BY <1>s, <2>2, <3>1 DEF ToldOnce
      <2>7. \A l, y : ~Heard(l, y)
          BY <1>13 DEF Heard
      <2> QED
          BY <1>4, <1>13, <2>4, <2>5, <2>6, <2>7
  <1>14. ASSUME NEW d \in Daemon, type = "done", Concludes(d, t), ~Concludes(d, t)', NEW k, NEW x, Told(type, k, x, t)'
         PROVE  FALSE
      <2>1. Told(type, "reader", d, t) /\ ~Told(type, "reader", d, t)'
          BY <1>14 DEF Told
      <2>2. \A l, y : ~Kept(l, y)
          BY <1>s, <2>1, Zenon DEF ToldOnce
      <2>3. \A l, y : ~New(l, y)
          BY <1>5, <1>n, <2>1
      <2>4. \A l, y : ~Moved(l, y)
          <3> SUFFICES ASSUME NEW l, NEW y, Moved(l, y) PROVE FALSE
              OBVIOUS
          <3>1. PICK g : Told(type, "queue", g, t)
              BY <1>6, <1>n
          <3> QED
              BY <1>s, <2>1, <3>1 DEF ToldOnce
      <2>5. \A l, y : ~Heard(l, y)
          <3> SUFFICES ASSUME NEW l, NEW y, Heard(l, y) PROVE FALSE
              OBVIOUS
          <3>1. Told(type, "wire", y, t)
              BY <1>7, <1>n
          <3> QED
              BY <1>s, <2>1, <3>1 DEF ToldOnce
      <2> QED
          BY <1>4, <1>14, <2>2, <2>3, <2>4, <2>5
  <1> QED
      BY <1>11, <1>12, <1>13, <1>14, Zenon DEF Telling

(* The receiver is told that a transfer is off by what ends it.            *)
LEMMA RefusingStep ==
  ASSUME IInv, Wired, SentAll, [Next]_vars, NEW t \in Transfer, Refusing(t)'
  PROVE  \/ Refusing(t)
         \/ \E g \in Goroutines, frames \in Seq(Parcel) : Puts(g, frames) /\ Has(Frames(frames), "decline", t)
  <1> DEFINE ToIt(q) == \E i \in 1 .. Len(q) : q[i].to = Target[t] /\ About(q[i].frame, "decline", t)
             Started == \E g \in Goroutines, frames \in Seq(Parcel) : Puts(g, frames) /\ Has(Frames(frames), "decline", t)
  <1>i. \A d \in Daemon : Inbox(d) \in Seq(Frame)
      BY InboxTyped
  <1>d. DOMAIN pending = Goroutines
      BY DEF IInv, Typed, FramesOK, Goroutines
  <1>r. Refusing(t) <=> \/ \E g \in Goroutines : ToIt(pending[g])
                        \/ \E d \in Daemon : Receives(d, t) /\ Has(Inbox(d), "decline", t)
      BY Zenon DEF Refusing
  <1>q. \/ \E g \in Goroutines : ToIt(pending'[g])
        \/ \E d \in Daemon : Receives(d, t) /\ Has(Inbox(d)', "decline", t)
      BY Zenon DEF Refusing, Receives
  <1>m. \/ Hears
        \/ \E g \in Goroutines : Sends(g)
        \/ \E g \in Goroutines, frames \in Seq(Parcel) : Puts(g, frames)
      BY QueuesMove
  <1>1. ASSUME NEW g \in Goroutines, ToIt(pending'[g]) PROVE ToIt(pending[g]) \/ Started
      <2>1. CASE Hears
          BY <1>1, <2>1 DEF Hears
      <2>2. ASSUME NEW h \in Goroutines, Sends(h) PROVE ToIt(pending[g])
          <3>1. CASE g = h
              <4>1. pending[g] \in Seq(Parcel) /\ pending'[g] = Tail(pending[g]) /\ pending[g] # <<>>
                  BY <2>2, <3>1, SendsWhat DEF Sends
              <4>2. \A i \in 1 .. Len(pending'[g]) : i + 1 \in 1 .. Len(pending[g]) /\ pending'[g][i] = pending[g][i + 1]
                  BY <4>1
              <4> QED
                  BY <1>1, <4>2
          <3>2. CASE g # h
              BY <1>1, <2>2, <3>2, SendsWhat
          <3> QED
              BY <3>1, <3>2
      <2>3. ASSUME NEW h \in Goroutines, NEW frames \in Seq(Parcel), Puts(h, frames) PROVE ToIt(pending[g]) \/ Started
          <3>1. CASE g = h
              <4>1. pending'[g] = frames
                  BY <1>d, <2>3, <3>1 DEF Puts
              <4>2. Has(Frames(frames), "decline", t)
                  BY <1>1, <4>1, FramesTyped DEF Has
              <4> QED
                  BY <2>3, <4>2
          <3>2. CASE g # h
              <4>1. pending'[g] = pending[g]
                  BY <1>d, <2>3, <3>2 DEF Puts
              <4> QED
                  BY <1>1, <4>1
          <3> QED
              BY <3>1, <3>2
      <2> QED
          BY <1>m, <2>1, <2>2, <2>3
  <1>2. ASSUME NEW d \in Daemon, Receives(d, t), Has(Inbox(d)', "decline", t)
        PROVE  Has(Inbox(d), "decline", t) \/ \E g \in Goroutines : ToIt(pending[g])
      <2>1. CASE Hears
          BY <1>2, <1>i, <2>1, ShrinksKeeps DEF Hears
      <2>2. ASSUME NEW h \in Goroutines, Sends(h)
            PROVE  Has(Inbox(d), "decline", t) \/ \E g \in Goroutines : ToIt(pending[g])
          <3>1. CASE Inbox(d)' = Inbox(d)
              BY <1>2, <3>1
          <3>2. CASE Identity[d] = Head(pending[h]).to /\ Inbox(d)' = Append(Inbox(d), Head(pending[h]).frame)
              <4>1. Head(pending[h]).frame \in Frame
                  BY <2>2, SendsWhat DEF Parcel
              <4>2. Has(Inbox(d), "decline", t) \/ About(Head(pending[h]).frame, "decline", t)
                  BY <1>2, <1>i, <3>2, <4>1, Appended
              <4>3. 1 \in 1 .. Len(pending[h]) /\ pending[h][1] = Head(pending[h])
                  BY <2>2, SendsWhat
              <4> QED
                  BY <1>2, <3>2, <4>2, <4>3 DEF Receives
          <3> QED
              BY <2>2, <3>1, <3>2 DEF Sends
      <2>3. ASSUME NEW h \in Goroutines, NEW frames \in Seq(Parcel), Puts(h, frames)
            PROVE  Has(Inbox(d), "decline", t)
          <3>1. CASE Inbox(d)' = Inbox(d)
              BY <1>2, <3>1
          <3>2. ASSUME NEW u \in Transfer, From(u) = Identity[d],
                       Inbox(d)' = Append(Inbox(d), FrameOf("decline", u, 0))
                PROVE  Has(Inbox(d), "decline", t)
              <4>1. u # t
                  BY <1>2, <3>2, ConstantsAssumption DEF Receives, From
              <4>2. ~About(FrameOf("decline", u, 0), "decline", t)
                  BY <4>1 DEF About, FrameOf
              <4> QED
                  BY <1>2, <1>i, <3>2, <4>2, FrameTyped, Appended
          <3> QED
              BY <2>3, <3>1, <3>2 DEF Puts
      <2> QED
          BY <1>m, <2>1, <2>2, <2>3
  <1> QED
      BY <1>r, <1>q, <1>1, <1>2, Zenon

(* What is off stays off, until it is offered anew.                        *)
LEMMA OffStays ==
  ASSUME OneDaemon, IInv, Wired, SentAll, Aimed, OfferOnce, EndOnce, [Next]_vars, NEW t \in Transfer, Off(t)
  PROVE  Off(t)' \/ \E c \in Conn : Books(c, t) /\ handler'[c].at # "book"
  <1>1. relay'[t].state = "none" \/ \E c \in Conn : Books(c, t) /\ handler'[c].at # "book"
      BY RelayMoves DEF Off
  <1>2. ~Telling("done", t)'
      <2>1. ~Telling("done", t) /\ relay[t].state = "none"
          BY DEF Off
      <2>2. \A g \in Goroutines, frames \in Seq(Parcel) : ~(Puts(g, frames) /\ Has(Frames(frames), "done", t))
          BY <2>1, PutsWhy
      <2> QED
          BY <2>1, <2>2, ToldStep
  <1>3. ~Refusing(t)'
      <2>1. ~Refusing(t) /\ relay[t].state = "none"
          BY DEF Off
      <2>2. \A g \in Goroutines, frames \in Seq(Parcel) : ~(Puts(g, frames) /\ Has(Frames(frames), "decline", t))
          BY <2>1, PutsWhy
      <2> QED
          BY <2>1, <2>2, RefusingStep
  <1> QED
      BY <1>1, <1>2, <1>3 DEF Off

(* Offers and ends go to the person the transfer is for.                   *)
LEMMA AimedStep ==
  ASSUME IInv, Wired, SentAll, Aimed, [Next]_vars
  PROVE  Aimed'
  <1> DEFINE Right(s) == s.frame.t \in {"offer", "done"} => s.to = Target[s.frame.id]
             Mine(d, f) == f.t \in {"offer", "done"} => Receives(d, f.id)
  <1>i. \A d \in Daemon : Inbox(d) \in Seq(Frame)
      BY InboxTyped
  <1>d. DOMAIN pending = Goroutines
      BY DEF IInv, Typed, FramesOK, Goroutines
  <1>g. ASSUME NEW g \in Goroutines, NEW i \in 1 .. Len(pending[g]) PROVE Right(pending[g][i])
      BY DEF Aimed
  <1>b. ASSUME NEW d \in Daemon, NEW i \in 1 .. Len(Inbox(d)) PROVE Mine(d, Inbox(d)[i])
      BY DEF Aimed
  <1> HIDE DEF Right, Mine
  <1>a. ASSUME \A g \in Goroutines : \A i \in 1 .. Len(pending'[g]) : Right(pending'[g][i]),
               \A d \in Daemon : \A i \in 1 .. Len(Inbox(d)') : Mine(d, Inbox(d)'[i])
        PROVE  Aimed'
      BY <1>a, Zenon DEF Aimed, Right, Mine, Receives
  <1>1. CASE Hears
      <2>1. \A g \in Goroutines : \A i \in 1 .. Len(pending'[g]) : Right(pending'[g][i])
          BY <1>1, <1>g DEF Hears
      <2>2. \A d \in Daemon : \A i \in 1 .. Len(Inbox(d)') : Mine(d, Inbox(d)'[i])
          BY <1>1, <1>b, <1>i, ShrinksKeeps DEF Hears
      <2> QED
          BY <1>a, <2>1, <2>2
  <1>2. ASSUME NEW h \in Goroutines, Sends(h) PROVE Aimed'
      <2>1. ASSUME NEW g \in Goroutines, NEW i \in 1 .. Len(pending'[g]) PROVE Right(pending'[g][i])
          <3>1. CASE g = h
              <4>1. pending[g] \in Seq(Parcel) /\ pending'[g] = Tail(pending[g]) /\ pending[g] # <<>>
                  BY <1>2, <3>1, SendsWhat DEF Sends
              <4>2. i + 1 \in 1 .. Len(pending[g]) /\ pending'[g][i] = pending[g][i + 1]
                  BY <2>1, <4>1
              <4> QED
                  BY <1>g, <4>2
          <3>2. CASE g # h
              BY <1>2, <1>g, <2>1, <3>2, SendsWhat
          <3> QED
              BY <3>1, <3>2
      <2>2. ASSUME NEW d \in Daemon, NEW i \in 1 .. Len(Inbox(d)') PROVE Mine(d, Inbox(d)'[i])
          <3>1. CASE Inbox(d)' = Inbox(d)
              BY <1>b, <2>2, <3>1
          <3>2. CASE Identity[d] = Head(pending[h]).to /\ Inbox(d)' = Append(Inbox(d), Head(pending[h]).frame)
              <4>1. Head(pending[h]).frame \in Frame /\ Right(Head(pending[h]))
                  BY <1>2, <1>g, SendsWhat DEF Parcel
              <4>2. Mine(d, Head(pending[h]).frame)
                  BY <3>2, <4>1 DEF Right, Mine, Receives
              <4>3. Inbox(d)'[i] = Head(pending[h]).frame \/ \E j \in 1 .. Len(Inbox(d)) : Inbox(d)'[i] = Inbox(d)[j]
                  BY <1>i, <2>2, <3>2, <4>1, Appended
              <4> QED
                  BY <1>b, <4>2, <4>3
          <3> QED
              BY <1>2, <3>1, <3>2 DEF Sends
      <2> QED
          BY <1>a, <2>1, <2>2
  <1>3. ASSUME NEW h \in Goroutines, NEW frames \in Seq(Parcel), Puts(h, frames) PROVE Aimed'
      <2>1. ASSUME NEW g \in Goroutines, NEW i \in 1 .. Len(pending'[g]) PROVE Right(pending'[g][i])
          <3>1. CASE g = h
              <4>1. pending'[g] = frames
                  BY <1>3, <1>d, <3>1 DEF Puts
              <4>2. Caused(frames[i])
                  BY <1>3, <2>1, <4>1 DEF Puts
              <4> QED
                  BY <4>1, <4>2 DEF Caused, Right
          <3>2. CASE g # h
              <4>1. pending'[g] = pending[g]
                  BY <1>3, <1>d, <3>2 DEF Puts
              <4> QED
                  BY <1>g, <2>1, <4>1
          <3> QED
              BY <3>1, <3>2
      <2>2. ASSUME NEW d \in Daemon, NEW i \in 1 .. Len(Inbox(d)') PROVE Mine(d, Inbox(d)'[i])
          <3>1. CASE Inbox(d)' = Inbox(d)
              BY <1>b, <2>2, <3>1
          <3>2. ASSUME NEW u \in Transfer, Inbox(d)' = Append(Inbox(d), FrameOf("decline", u, 0))
                PROVE  Mine(d, Inbox(d)'[i])
              <4>1. FrameOf("decline", u, 0) \in Frame /\ Mine(d, FrameOf("decline", u, 0))
                  BY FrameTyped DEF Mine, FrameOf
              <4>2. Inbox(d)'[i] = FrameOf("decline", u, 0) \/ \E j \in 1 .. Len(Inbox(d)) : Inbox(d)'[i] = Inbox(d)[j]
                  BY <1>i, <2>2, <3>2, <4>1, Appended
              <4> QED
                  BY <1>b, <4>1, <4>2
          <3> QED
              BY <1>3, <3>1, <3>2 DEF Puts
      <2> QED
          BY <1>a, <2>1, <2>2
  <1> QED
      BY <1>1, <1>2, <1>3, QueuesMove

----------------------------------------------------------------------------
(* What a step does for rows that hold nothing.                            *)
LEMMA LeavesNone ==
  ASSUME IInv, EndsOnly, AcceptedIsDecided, [Next]_vars, NEW d \in Daemon, NEW t \in Transfer
  PROVE  /\ row[d][t].state # "none" => row'[d][t].state # "none"
         /\ row[d][t].state = "none" /\ row'[d][t].state # "none" =>
               \/ ReadOffer(d, t)
               \/ \E s \in Screen : OfferPut(s) /\ Asks(s, {"hash"}, t) /\ ScreenOf[s] = d
  <1>1. RowMove(d, t)
      BY RowMoves
  <1>2. ASSUME Concludes(d, t) PROVE row[d][t].state # "none"
      <2>1. Accepting(t) /\ Receives(d, t)
          BY <1>2 DEF Accepting, EndsOnly, Concludes
      <2> QED
          BY <2>1, Zenon DEF AcceptedIsDecided, Decided, Undecided
  <1>3. ASSUME NEW s \in Screen, NEW at \in {"answer", "run", "decline"}, Asks(s, {at}, t), ScreenOf[s] = d
        PROVE  row[d][t].state # "none"
      BY <1>3 DEF EndsOnly, Asks
  <1>4. Verify(d) \/ Finish(d) => reader[d].at \in {"verify", "finish"}
      BY DEF Verify, Finish
  <1> QED
      BY <1>1, <1>2, <1>3, <1>4 DEF RowMove, Concludes, Live

(* Who has decided about a transfer does not decide anew.                  *)
LEMMA DecidedStays ==
  ASSUME IInv, EndsOnly, Aimed, OfferOnce, [Next]_vars, NEW d \in Daemon, NEW t \in Transfer,
         Receives(d, t), ~Undecided(d, t)
  PROVE  ~Undecided(d, t)'
  <1>1. row[d][t].state \notin {"none", "incoming"} /\ d # Sender[t]
      BY ConstantsAssumption DEF Undecided, Receives
  <1>2. ~ReadOffer(d, t)
      <2> SUFFICES ASSUME ReadOffer(d, t) PROVE FALSE
          OBVIOUS
      <2>1. Reads(d, "offer", t) /\ UNCHANGED link
          BY Zenon DEF ReadOffer
      <2>2. Told("offer", "wire", d, t)
          BY <2>1, ReadFrom DEF Told
      <2>3. Unread(t)
          BY <2>2, Zenon DEF OfferOnce, Telling
      <2> QED
          BY <1>1, <2>3 DEF Unread
  <1>3. row'[d][t].state \notin {"none", "incoming"}
      <2>1. RowMove(d, t)
          BY RowMoves
      <2> QED
          BY <1>1, <1>2, <2>1 DEF RowMove
  <1>4. ASSUME NEW s \in Screen, ScreenOf[s] = d, Asks(s, {"accept", "create", "run", "decline", "refuse"}, t)'
        PROVE  FALSE
      <2>1. Calls(s) /\ ~Asks(s, {"accept", "create", "run", "decline", "refuse"}, t)
          BY <1>4, CallsMove DEF Undecided
      <2>2. ASSUME NEW u \in Transfer,
                   row[d][u].state = "incoming" \/ row[d][u].state = "offered", screen'[s].id = u
            PROVE  FALSE
          <3>1. u = t /\ row[d][t].state = "offered"
              BY <1>1, <1>4, <2>2 DEF Asks
          <3> QED
              BY <1>1, <3>1 DEF EndsOnly
      <2> QED
          BY <1>4, <2>1, <2>2 DEF Calls, Asks
  <1> QED
      BY <1>3, <1>4 DEF Undecided

(* A sign that the receiver has said yes comes of one before, or of its    *)
(* answer.                                                                 *)
LEMMA AcceptingStep ==
  ASSUME IInv, Wired, SentAll, EndsOnly, OfferOnce, EndOnce, [Next]_vars, NEW t \in Transfer, Accepting(t)'
  PROVE  Accepting(t) \/ \E s \in Screen : AcceptTell(s) /\ Asks(s, {"answer"}, t)
  <1> DEFINE Goal == Accepting(t) \/ \E s \in Screen : AcceptTell(s) /\ Asks(s, {"answer"}, t)
  <1>i. \A d \in Daemon : Inbox(d) \in Seq(Frame)
      BY InboxTyped
  <1>d. DOMAIN pending = Goroutines
      BY DEF IInv, Typed, FramesOK, Goroutines
  <1>q. \A c \in Conn : toServer[c] \in Seq(Frame)
      BY DEF IInv, Typed, FramesOK
  <1>s. /\ \A c \in Conn, type \in Yes : Has(toServer[c], type, t) => Goal
        /\ \A g \in Goroutines, type \in Yes : Has(Frames(pending[g]), type, t) => Goal
        /\ \A d \in Daemon, type \in Yes : Has(Inbox(d), type, t) => Goal
        /\ \A d \in Daemon : reader[d].at = "start" /\ reader[d].id = t => Goal
        /\ \A d \in Daemon : Concludes(d, t) => Goal
        /\ pusher[t].at # "no" => Goal
        /\ \A d \in Daemon : Receives(d, t) /\ row[d][t].state = "done" => Goal
      BY Zenon DEF Accepting
  <1>y. "accept" \in Yes /\ "done" \in Yes /\ "decline" \notin Yes
      BY DEF Yes
  <1>t. \A s \in Screen : AcceptTell(s) /\ Asks(s, {"answer"}, t) => Goal
      OBVIOUS
  <1> HIDE DEF Goal
  <1>1. ASSUME NEW c \in Conn, NEW type \in Yes, Has(toServer'[c], type, t) PROVE Goal
      <2>1. CASE Shrinks(toServer[c], toServer'[c])
          BY <1>1, <1>q, <1>s, <2>1, ShrinksKeeps
      <2>2. ASSUME NEW f, Wrote(f), toServer'[c] = Append(toServer[c], f) PROVE Goal
          <3>1. Has(toServer[c], type, t) \/ About(f, type, t)
              BY <1>1, <1>q, <2>2, Appended DEF Wrote
          <3>2. CASE About(f, type, t)
              BY <1>s, <1>t, <2>2, <3>2 DEF Wrote, About, Yes
          <3> QED
              BY <1>s, <3>1, <3>2
      <2> QED
          BY <2>1, <2>2, WrittenBy
  <1>m. \/ Hears
        \/ \E g \in Goroutines : Sends(g)
        \/ \E g \in Goroutines, frames \in Seq(Parcel) : Puts(g, frames)
      BY QueuesMove
  <1>2. ASSUME NEW g \in Goroutines, NEW type \in Yes, Has(Frames(pending'[g]), type, t) PROVE Goal
      <2>1. CASE Hears
          BY <1>2, <1>s, <2>1 DEF Hears
      <2>2. ASSUME NEW h \in Goroutines, Sends(h) PROVE Goal
          <3>1. Shrinks(Frames(pending[g]), Frames(pending'[g])) \/ pending'[g] = pending[g]
              BY <2>2, SendsWhat DEF Shrinks
          <3>2. g = h => Frames(pending[g]) \in Seq(Frame)
              BY <2>2, SendsWhat
          <3>3. g # h => pending'[g] = pending[g]
              BY <2>2, SendsWhat
          <3> QED
              BY <1>2, <1>s, <3>1, <3>2, <3>3, ShrinksKeeps
      <2>3. ASSUME NEW h \in Goroutines, NEW frames \in Seq(Parcel), Puts(h, frames) PROVE Goal
          <3>1. CASE g = h
              <4>1. Has(Frames(frames), type, t)
                  BY <1>2, <1>d, <2>3, <3>1 DEF Puts
              <4>2. \E c \in Conn : Has(toServer[c], type, t)
                  BY <2>3, <4>1, PutsWhy
              <4> QED
                  BY <1>s, <4>2
          <3>2. CASE g # h
              BY <1>2, <1>d, <1>s, <2>3, <3>2 DEF Puts
          <3> QED
              BY <3>1, <3>2
      <2> QED
          BY <1>m, <2>1, <2>2, <2>3
  <1>3. ASSUME NEW d \in Daemon, NEW type \in Yes, Has(Inbox(d)', type, t) PROVE Goal
      <2>1. CASE Hears
          BY <1>3, <1>i, <1>s, <2>1, ShrinksKeeps DEF Hears
      <2>2. ASSUME NEW h \in Goroutines, Sends(h) PROVE Goal
          <3>1. CASE Inbox(d)' = Inbox(d)
              BY <1>3, <1>s, <3>1
          <3>2. CASE Inbox(d)' = Append(Inbox(d), Head(pending[h]).frame)
              <4>1. Head(pending[h]).frame \in Frame
                  BY <2>2, SendsWhat DEF Parcel
              <4>2. Has(Inbox(d), type, t) \/ About(Head(pending[h]).frame, type, t)
                  BY <1>3, <1>i, <3>2, <4>1, Appended
              <4>3. About(Head(pending[h]).frame, type, t) => Has(Frames(pending[h]), type, t)
                  BY <2>2, SendsWhat
              <4> QED
                  BY <1>s, <4>2, <4>3
          <3> QED
              BY <2>2, <3>1, <3>2 DEF Sends
      <2>3. ASSUME NEW h \in Goroutines, NEW frames \in Seq(Parcel), Puts(h, frames) PROVE Goal
          <3>1. CASE Inbox(d)' = Inbox(d)
              BY <1>3, <1>s, <3>1
          <3>2. ASSUME NEW u \in Transfer, Inbox(d)' = Append(Inbox(d), FrameOf("decline", u, 0)) PROVE Goal
              <4>1. FrameOf("decline", u, 0) \in Frame /\ ~About(FrameOf("decline", u, 0), type, t)
                  BY <1>y, FrameTyped DEF FrameOf, About
              <4> QED
                  BY <1>3, <1>i, <1>s, <3>2, <4>1, Appended
          <3> QED
              BY <2>3, <3>1, <3>2 DEF Puts
      <2> QED
          BY <1>m, <2>1, <2>2, <2>3
  <1>4. ASSUME NEW d \in Daemon, (reader'[d].at = "start" /\ reader'[d].id = t) \/ Concludes(d, t)' PROVE Goal
      <2>1. ReaderMove(d)
          BY ReaderMoves
      <2>2. CASE reader'[d] = reader[d]
          BY <1>4, <1>s, <2>2 DEF Concludes
      <2>3. ASSUME NEW u \in Transfer, ReadAccept(d, u), reader'[d].id = u PROVE Goal
          <3>1. u = t
              BY <1>4, <2>3 DEF Concludes
          <3>2. Reads(d, "accept", t) /\ UNCHANGED link
              BY <2>3, <3>1, Zenon DEF ReadAccept
          <3> QED
              BY <1>s, <1>y, <3>2, ReadFrom
      <2>4. ASSUME NEW u \in Transfer, ReadDone(d, u), reader'[d].id = u PROVE Goal
          <3>1. u = t
              BY <1>4, <2>4 DEF Concludes
          <3>2. Reads(d, "done", t) /\ UNCHANGED link
              BY <2>4, <3>1, Zenon DEF ReadDone
          <3> QED
              BY <1>s, <1>y, <3>2, ReadFrom
      <2>5. CASE reader[d].at = "verify" /\ reader'[d].id = reader[d].id
          BY <1>4, <1>s, <2>5 DEF Concludes
      <2> QED
          BY <1>4, <2>1, <2>2, <2>3, <2>4, <2>5 DEF ReaderMove, Concludes
  <1>5. ASSUME pusher'[t].at # "no" PROVE Goal
      BY <1>5, <1>s, PushMoves
  <1>6. ASSUME NEW d \in Daemon, Receives(d, t), row'[d][t].state = "done" PROVE Goal
      <2>1. RowMove(d, t) /\ d # Sender[t]
          BY <1>6, RowMoves, ConstantsAssumption DEF Receives
      <2>2. Finish(d) => reader[d].at = "finish"
          BY DEF Finish
      <2> QED
          BY <1>6, <1>s, <2>1, <2>2 DEF RowMove, Concludes
  <1> QED
      BY <1>1, <1>2, <1>3, <1>4, <1>5, <1>6, Zenon DEF Accepting, Goal, Receives

----------------------------------------------------------------------------
(* The parts of the invariant, one by one.                                 *)

(* Nobody but the two ends comes to have a row, a call or work to do about *)
(* it.                                                                     *)
LEMMA EndsOnlyStep ==
  ASSUME OneFrontEnd, SInv, [Next]_vars
  PROVE  EndsOnly'
  <1> USE DEF SInv
  <1>k. \A s \in Screen : /\ ScreenOf[s] \in Daemon
                          /\ screen[s].at # "idle" => screen[s].id \in Transfer
                          /\ screen'[s].at # "idle" => screen'[s].id \in Transfer
                          /\ screen[s].at \in {"hash", "offer"} => ScreenOf[s] = Sender[screen[s].id]
      BY ConstantsAssumption, CallsStep DEF IInv, Typed, CallsOK
  <1>l. \A d \in Daemon : /\ reader[d].at \in {"start", "verify", "finish"} => reader[d].id \in Transfer
                          /\ reader'[d].at \in {"start", "verify", "finish"} => reader'[d].id \in Transfer
      BY LinksStep DEF IInv, Typed, LinksOK
  <1>n. \A t \in Transfer : Sender[t] \in Daemon /\ ~Receives(Sender[t], t)
      BY ConstantsAssumption DEF Receives
  <1>c. \A s \in Screen : Calls(s)
      BY CallsMove
  <1>m. \A d \in Daemon, t \in Transfer : row[d][t].state # "none" => row'[d][t].state # "none"
      BY LeavesNone
  <1>o. ASSUME NEW d \in Daemon, NEW t \in Transfer, ReadOffer(d, t) PROVE Receives(d, t) /\ Telling("offer", t)
      <2>1. Reads(d, "offer", t) /\ UNCHANGED link
          BY <1>o, Zenon DEF ReadOffer
      <2>2. Has(Inbox(d), "offer", t)
          BY <2>1, ReadFrom
      <2>3. Receives(d, t)
          BY <2>2 DEF Aimed, Has, About
      <2>4. Told("offer", "wire", d, t)
          BY <2>2 DEF Told
      <2> QED
          BY <2>3, <2>4 DEF Telling
  <1>1. ASSUME NEW d \in Daemon, NEW t \in Transfer
        PROVE  /\ row'[d][t].state # "none" => d = Sender[t] \/ Receives(d, t)
               /\ row'[d][t].state = "offered" => d = Sender[t]
               /\ row'[d][t].state = "incoming" => Receives(d, t)
      <2>1. /\ row[d][t].state # "none" => d = Sender[t] \/ Receives(d, t)
            /\ row[d][t].state = "offered" => d = Sender[t]
            /\ row[d][t].state = "incoming" => Receives(d, t)
          BY DEF EndsOnly
      <2>2. ASSUME NEW s \in Screen, Asks(s, {"hash"}, t), ScreenOf[s] = d PROVE d = Sender[t]
          BY <1>k, <2>2 DEF Asks
      <2>3. row[d][t].state = "none" /\ row'[d][t].state # "none" =>
               ReadOffer(d, t) \/ \E s \in Screen : Asks(s, {"hash"}, t) /\ ScreenOf[s] = d
          BY LeavesNone
      <2>4. row'[d][t].state # "none" => d = Sender[t] \/ Receives(d, t)
          BY <1>o, <2>1, <2>2, <2>3
      <2>5. RowMove(d, t)
          BY RowMoves
      <2>6. row'[d][t].state \in {"offered", "incoming"} =>
               \/ row[d][t].state = row'[d][t].state
               \/ row'[d][t].state = "offered" /\ \E s \in Screen : Asks(s, {"hash"}, t) /\ ScreenOf[s] = d
               \/ row'[d][t].state = "incoming" /\ ReadOffer(d, t)
          BY <2>5 DEF RowMove
      <2> QED
          BY <1>o, <2>1, <2>2, <2>4, <2>6
  <1>2. ASSUME NEW d \in Daemon, NEW t \in Transfer, row'[d][t].path # None
        PROVE  Receives(d, t) /\ ~Undecided(d, t)'
      <2>1. RowMove(d, t)
          BY RowMoves
      <2>2. CASE row'[d][t].path = row[d][t].path
          <3>1. Receives(d, t) /\ ~Undecided(d, t)
              BY <1>2, <2>2 DEF EndsOnly
          <3> QED
              BY <3>1, DecidedStays
      <2>3. ASSUME NEW s \in Screen, AcceptRun(s), Asks(s, {"run"}, t), ScreenOf[s] = d, row'[d][t].state = "running"
            PROVE  Receives(d, t) /\ ~Undecided(d, t)'
          <3>1. Receives(d, t)
              BY <2>3 DEF EndsOnly, Asks
          <3>2. screen'[s].at = "answer"
              BY <2>3 DEF AcceptRun, Step, IInv, Typed, CallsOK, Call
          <3>3. \A r \in Screen : ScreenOf[r] = d => r = s
              BY <2>3 DEF OneFrontEnd
          <3> QED
              BY <2>3, <3>1, <3>2, <3>3 DEF Undecided, Asks
      <2> QED
          BY <1>2, <2>1, <2>2, <2>3 DEF RowMove
  <1>3. ASSUME NEW s \in Screen, screen'[s].at \notin {"idle", "hash"}
        PROVE  row'[ScreenOf[s]][screen'[s].id].state # "none"
      <2> DEFINE d == ScreenOf[s]
                 t == screen'[s].id
      <2>0. d \in Daemon /\ t \in Transfer
          BY <1>k, <1>3
      <2>1. CASE OfferPut(s) /\ screen[s].at = "hash" /\ t = screen[s].id
          <3>1. row' = [row EXCEPT ![d][t].state = "offered"]
              BY <2>1 DEF OfferPut
          <3> QED
              BY <2>0, <3>1 DEF IInv, Typed, RowsOK, Row
      <2>2. CASE screen[s].at \notin {"idle", "hash"} /\ t = screen[s].id
          <3>1. row[d][t].state # "none"
              BY <2>2 DEF EndsOnly
          <3> QED
              BY <1>m, <2>0, <3>1
      <2>3. CASE row[d][t].state \in {"incoming", "offered"}
          BY <1>m, <2>0, <2>3
      <2>4. Calls(s)
          BY <1>c
      <2>5. \/ screen[s].at \notin {"idle", "hash"} /\ t = screen[s].id
            \/ OfferPut(s) /\ screen[s].at = "hash" /\ t = screen[s].id
            \/ row[d][t].state \in {"incoming", "offered"}
          BY <1>3, <2>4 DEF Calls
      <2> QED
          BY <2>1, <2>2, <2>3, <2>5
  <1>4. ASSUME NEW s \in Screen, screen'[s].at = "hash" PROVE row'[ScreenOf[s]][screen'[s].id].state = "none"
      <2> DEFINE d == ScreenOf[s]
                 t == screen'[s].id
      <2>0. d \in Daemon /\ t \in Transfer
          BY <1>k, <1>4
      <2>1. CASE screen'[s] = screen[s]
          <3>1. d = Sender[t] /\ row[d][t].state = "none" /\ Asked("call", s, t)
              BY <1>k, <1>4, <2>1 DEF EndsOnly, Asked, Asks
          <3>2. ~ReadOffer(d, t)
              BY <1>n, <1>o, <2>0, <3>1
          <3>3. ASSUME NEW r \in Screen, OfferPut(r), Asks(r, {"hash"}, t) PROVE FALSE
              <4>1. Asked("call", r, t)
                  BY <3>3 DEF Asked, Asks
              <4>2. r = s
                  BY <2>0, <3>1, <4>1 DEF OfferOnce, AskedOnce
              <4>3. screen'[s].at = "offer"
                  BY <3>3, <4>2 DEF OfferPut, Step, IInv, Typed, CallsOK, Call
              <4> QED
                  BY <1>4, <4>3
          <3> QED
              BY <2>0, <3>1, <3>2, <3>3, LeavesNone
      <2>2. CASE \E u \in Transfer : Offer(s, u) /\ t = u /\ row[d][u].state = "none"
          <3>1. UNCHANGED row
              BY <2>2, Zenon DEF Offer
          <3> QED
              BY <2>2, <3>1
      <2>3. Calls(s)
          BY <1>c
      <2> QED
          BY <1>4, <2>1, <2>2, <2>3 DEF Calls
  <1>5. ASSUME NEW s \in Screen, screen'[s].at \in {"accept", "create", "run", "answer"}
        PROVE  Receives(ScreenOf[s], screen'[s].id)
      <2>1. Calls(s)
          BY <1>c
      <2>2. \/ screen[s].at \in {"accept", "create", "run", "answer"} /\ screen'[s].id = screen[s].id
            \/ screen'[s].id \in Transfer /\ row[ScreenOf[s]][screen'[s].id].state = "incoming"
          BY <1>5, <2>1 DEF Calls
      <2> QED
          BY <1>k, <2>2 DEF EndsOnly
  <1>6. ASSUME NEW d \in Daemon
        PROVE  /\ reader'[d].at = "start" => d = Sender[reader'[d].id] /\ row'[d][reader'[d].id].state # "none"
               /\ reader'[d].at \in {"verify", "finish"} => Receives(d, reader'[d].id)
      <2>1. ReaderMove(d)
          BY ReaderMoves
      <2>2. CASE reader'[d] = reader[d]
          BY <1>l, <1>m, <2>2 DEF EndsOnly
      <2>3. ASSUME NEW t \in Transfer, row[d][t].state = "offered", ~Incoming(d, t),
                   reader'[d].at = "start", reader'[d].id = t
            PROVE  d = Sender[reader'[d].id] /\ row'[d][reader'[d].id].state # "none"
          BY <1>m, <2>3 DEF Incoming
      <2>4. ASSUME NEW t \in Transfer, ReadDone(d, t), reader'[d].id = t PROVE Receives(d, reader'[d].id)
          <3>1. Reads(d, "done", t) /\ UNCHANGED link
              BY <2>4, Zenon DEF ReadDone
          <3>2. Has(Inbox(d), "done", t)
              BY <3>1, ReadFrom
          <3> QED
              BY <2>4, <3>2 DEF Aimed, Has, About
      <2>5. CASE reader[d].at = "verify" /\ reader'[d].at = "finish" /\ reader'[d].id = reader[d].id
          BY <2>5 DEF EndsOnly
      <2> QED
          BY <2>1, <2>2, <2>3, <2>4, <2>5 DEF ReaderMove
  <1>7. ASSUME NEW t \in Transfer, pusher'[t].at # "no" PROVE row'[Sender[t]][t].state # "none"
      <2>1. row[Sender[t]][t].state # "none"
          BY <1>7, PushMoves DEF EndsOnly
      <2> QED
          BY <1>m, <1>n, <2>1
  <1> QED
      <2>1. ASSUME NEW d \in Daemon, NEW t \in Transfer
            PROVE  (/\ row[d][t].state # "none" => d = Sender[t] \/ Receives(d, t)
                    /\ row[d][t].state = "offered" => d = Sender[t]
                    /\ row[d][t].state = "incoming" => Receives(d, t)
                    /\ row[d][t].path # None => Receives(d, t) /\ ~Undecided(d, t))'
          BY <1>1, <1>2, Zenon DEF Receives
      <2>2. ASSUME NEW s \in Screen
            PROVE  (/\ screen[s].at \notin {"idle", "hash"} => row[ScreenOf[s]][screen[s].id].state # "none"
                    /\ screen[s].at = "hash" => row[ScreenOf[s]][screen[s].id].state = "none"
                    /\ screen[s].at \in {"accept", "create", "run", "answer"} =>
                          Receives(ScreenOf[s], screen[s].id))'
          BY <1>3, <1>4, <1>5, Zenon DEF Receives
      <2>3. ASSUME NEW d \in Daemon
            PROVE  (/\ reader[d].at = "start" => d = Sender[reader[d].id] /\ row[d][reader[d].id].state # "none"
                    /\ reader[d].at \in {"verify", "finish"} => Receives(d, reader[d].id))'
          BY <1>6, Zenon DEF Receives
      <2>4. \A t \in Transfer : (pusher[t].at # "no" => row[Sender[t]][t].state # "none")'
          BY <1>7, Zenon
      <2> QED
          BY <2>1, <2>2, <2>3, <2>4, Zenon DEF EndsOnly

(* An answer is the only one, and comes before what it leads to.           *)
LEMMA DecidedStep ==
  ASSUME OneFrontEnd, OneDaemon, SInv, [Next]_vars
  PROVE  AcceptedIsDecided'
  <1> USE DEF SInv
  <1>d. ASSUME NEW t \in Transfer, Decided(t) PROVE Decided(t)'
      <2> SUFFICES ASSUME NEW d \in Daemon, Receives(d, t) PROVE ~Undecided(d, t)'
          BY DEF Decided, Receives
      <2>1. ~Undecided(d, t)
          BY <1>d DEF Decided
      <2> QED
          BY <2>1, DecidedStays
  <1>s. ASSUME NEW r \in Screen, NEW s \in Screen, NEW t \in Transfer,
               Receives(ScreenOf[r], t), Receives(ScreenOf[s], t)
        PROVE  r = s
      BY <1>s, ConstantsAssumption DEF Receives, OneDaemon, OneFrontEnd
  <1>w. ASSUME NEW s \in Screen, AcceptTell(s) PROVE screen'[s].at = "idle"
      BY <1>w DEF AcceptTell, Tell, Waiting, IInv, Typed, CallsOK
  <1>r. \A s \in Screen, t \in Transfer : Asks(s, {"answer", "run"}, t) => Receives(ScreenOf[s], t)
      BY DEF EndsOnly, Asks
  <1>1. ASSUME NEW t \in Transfer, Accepting(t)' PROVE Decided(t)'
      <2>1. Accepting(t) \/ \E s \in Screen : Asks(s, {"answer"}, t)
          BY <1>1, AcceptingStep
      <2>2. Decided(t)
          BY <2>1 DEF AcceptedIsDecided
      <2> QED
          BY <1>d, <2>2
  <1>2. ASSUME NEW t \in Transfer, NEW s \in Screen, Asks(s, {"answer"}, t)' PROVE Decided(t)' /\ ~Accepting(t)'
      <2>1. Calls(s)
          BY CallsMove
      <2>2. CASE screen'[s] = screen[s]
          <3>1. Asks(s, {"answer"}, t) /\ screen'[s].at = "answer"
              BY <1>2, <2>2 DEF Asks
          <3>2. Decided(t) /\ ~Accepting(t) /\ Receives(ScreenOf[s], t)
              BY <1>r, <3>1 DEF AcceptedIsDecided, Asks
          <3>3. ASSUME NEW r \in Screen, AcceptTell(r), Asks(r, {"answer"}, t) PROVE FALSE
              <4>1. r = s
                  BY <1>r, <1>s, <3>2, <3>3 DEF Asks
              <4> QED
                  BY <1>w, <3>1, <3>3, <4>1
          <3> QED
              BY <1>d, <3>2, <3>3, AcceptingStep
      <2>3. CASE AcceptRun(s) /\ Asks(s, {"run"}, t)
          <3>1. Receives(ScreenOf[s], t) /\ ScreenOf[s] \in Daemon /\ Undecided(ScreenOf[s], t)
              BY <1>r, <2>3, ConstantsAssumption DEF Asks, Undecided
          <3>2. ~Accepting(t)
              BY <3>1 DEF AcceptedIsDecided, Decided
          <3>3. ASSUME NEW r \in Screen, AcceptTell(r), Asks(r, {"answer"}, t) PROVE FALSE
              <4>1. r = s
                  BY <1>r, <1>s, <3>1, <3>3 DEF Asks
              <4> QED
                  BY <2>3, <3>3, <4>1 DEF Asks
          <3>4. ~Accepting(t)'
              BY <3>2, <3>3, AcceptingStep
          <3>5. ASSUME NEW d \in Daemon, Receives(d, t) PROVE ~Undecided(d, t)'
              <4>1. d = ScreenOf[s]
                  BY <3>1, <3>5 DEF Receives, OneDaemon
              <4>2. \A r \in Screen : ScreenOf[r] = d => r = s
                  BY <4>1 DEF OneFrontEnd
              <4>3. screen[s].id = t /\ row' = [row EXCEPT ![d][t] = [state |-> "running", path |-> screen[s].path, got |-> 0]]
                  BY <2>3, <4>1 DEF AcceptRun, Asks
              <4>4. row'[d][t].state = "running"
                  BY <4>3 DEF IInv, Typed, RowsOK
              <4> QED
                  BY <1>2, <4>2, <4>4 DEF Undecided, Asks
          <3> QED
              BY <3>4, <3>5 DEF Decided, Receives
      <2> QED
          BY <1>2, <2>1, <2>2, <2>3 DEF Calls, Asks
  <1> QED
      BY <1>1, <1>2 DEF AcceptedIsDecided

(* What is offered is off until the server books it, and nobody has read   *)
(* of it until then.                                                       *)
LEMMA OfferOnceStep ==
  ASSUME OneDaemon, SInv, [Next]_vars
  PROVE  OfferOnce'
  <1> USE DEF SInv
  <1> SUFFICES ASSUME NEW t \in Transfer
               PROVE  /\ AskedOnce(t)' /\ ToldOnce("offer", t)'
                      /\ Asking(t)' => Off(t)' /\ ~Telling("offer", t)'
                      /\ Asking(t)' \/ Telling("offer", t)' => Unread(t)'
                      /\ row'[Sender[t]][t].state = "none" =>
                             /\ Off(t)' /\ ~Telling("offer", t)' /\ Unread(t)'
                             /\ \A k, x : Asked(k, x, t)' => k = "call" /\ screen'[x].at = "hash"
      BY Zenon DEF OfferOnce
  <1>n. Sender[t] \in Daemon
      BY ConstantsAssumption
  <1>1. AskedOnce(t)' /\ ToldOnce("offer", t)'
      BY AskStep, ToldStep
  <1>2. ASSUME NEW c \in Conn, Books(c, t), handler'[c].at # "book" PROVE Asking(t) /\ ~Asking(t)' /\ row[Sender[t]][t].state # "none"
      <2>1. Asked("book", c, t)
          BY <1>2 DEF Asked
      <2>2. Asking(t)
          BY <2>1 DEF Asking
      <2>3. row[Sender[t]][t].state # "none"
          BY <2>1 DEF OfferOnce
      <2> QED
          BY <1>2, <2>2, <2>3, AskStep
  <1>3. ASSUME NEW s \in Screen, Offer(s, t)
        PROVE  Off(t) /\ ~Telling("offer", t) /\ Unread(t) /\ ~(\E d \in Daemon : ReadOffer(d, t))
      <2>1. /\ row[Sender[t]][t].state = "none" /\ screen[s].at = "idle"
            /\ screen' = [screen EXCEPT ![s] = [Waiting EXCEPT !.at = "hash", !.id = t]]
          BY <1>3, Zenon DEF Offer
      <2>2. screen'[s].at = "hash"
          BY <2>1 DEF IInv, Typed, CallsOK, Waiting
      <2>3. \A d \in Daemon : ~ReadOffer(d, t)
          BY <2>1, <2>2, Zenon DEF ReadOffer
      <2> QED
          BY <2>1, <2>3 DEF OfferOnce
  <1>4. ASSUME NEW d \in Daemon, ReadOffer(d, t) PROVE Telling("offer", t)
      <2>1. Reads(d, "offer", t) /\ UNCHANGED link
          BY <1>4, Zenon DEF ReadOffer
      <2>2. Told("offer", "wire", d, t)
          BY <2>1, ReadFrom DEF Told
      <2> QED
          BY <2>2 DEF Telling
  <1>5. Telling("offer", t)' => Telling("offer", t) \/ \E c \in Conn : Books(c, t) /\ handler'[c].at # "book"
      BY ToldStep, PutsWhy
  <1>6. ASSUME Asking(t)' PROVE Off(t)' /\ ~Telling("offer", t)'
      <2>1. Asking(t) \/ \E s \in Screen : Offer(s, t)
          BY <1>6, AskStep
      <2>2. Off(t) /\ ~Telling("offer", t)
          BY <1>3, <2>1 DEF OfferOnce
      <2>3. ~\E c \in Conn : Books(c, t) /\ handler'[c].at # "book"
          BY <1>2, <1>6
      <2> QED
          BY <1>5, <2>2, <2>3, OffStays
  <1>7. ASSUME Unread(t), \A d \in Daemon : ~ReadOffer(d, t) PROVE Unread(t)'
      <2> SUFFICES ASSUME NEW d \in Daemon, Receives(d, t) PROVE row'[d][t].state = "none"
          BY DEF Unread, Receives
      <2>1. row[d][t].state = "none"
          BY <1>7 DEF Unread
      <2>2. ASSUME NEW s \in Screen, Asks(s, {"hash"}, t), ScreenOf[s] = d PROVE FALSE
          <3>1. d = Sender[t]
              BY <2>2 DEF IInv, Typed, CallsOK, Asks
          <3> QED
              BY <3>1, ConstantsAssumption DEF Receives
      <2> QED
          BY <1>7, <2>1, <2>2, LeavesNone
  <1>8. ASSUME Asking(t)' \/ Telling("offer", t)' PROVE Unread(t)'
      <2>1. Asking(t) \/ Telling("offer", t) \/ \E s \in Screen : Offer(s, t)
          BY <1>2, <1>5, <1>8, AskStep
      <2>2. Unread(t)
          BY <1>3, <2>1 DEF OfferOnce
      <2>3. ASSUME NEW d \in Daemon, ReadOffer(d, t) PROVE FALSE
          <3>1. Telling("offer", t) /\ ~Telling("offer", t)'
              BY <1>4, <2>3, ToldStep
          <3>2. ~Asking(t)
              BY <3>1 DEF OfferOnce
          <3>3. ~Asking(t)'
              BY <1>3, <2>3, <3>2, AskStep
          <3> QED
              BY <1>8, <3>1, <3>3
      <2> QED
          BY <1>7, <2>2, <2>3
  <1>9. ASSUME row'[Sender[t]][t].state = "none"
        PROVE  /\ Off(t)' /\ ~Telling("offer", t)' /\ Unread(t)'
               /\ \A k, x : Asked(k, x, t)' => k = "call" /\ screen'[x].at = "hash"
      <2>1. row[Sender[t]][t].state = "none"
          BY <1>9, <1>n, LeavesNone
      <2>2. /\ Off(t) /\ ~Telling("offer", t) /\ Unread(t)
            /\ \A k, x : Asked(k, x, t) => k = "call" /\ screen[x].at = "hash"
          BY <2>1 DEF OfferOnce
      <2>3. ~\E c \in Conn : Books(c, t) /\ handler'[c].at # "book"
          BY <1>2, <2>1
      <2>4. Off(t)' /\ ~Telling("offer", t)'
          BY <1>5, <2>2, <2>3, OffStays
      <2>5. Unread(t)'
          BY <1>4, <1>7, <2>2
      <2>6. ASSUME NEW s \in Screen, OfferPut(s), screen[s].id = t PROVE FALSE
          <3>1. /\ row' = [row EXCEPT ![ScreenOf[s]][t].state = "offered"]
                /\ screen[s].at = "hash"
              BY <2>6 DEF OfferPut
          <3>2. ScreenOf[s] = Sender[t]
              BY <2>6, <3>1 DEF IInv, Typed, CallsOK
          <3>3. row'[Sender[t]][t].state = "offered"
              BY <1>n, <3>1, <3>2 DEF IInv, Typed, RowsOK, Row
          <3> QED
              BY <1>9, <3>3
      <2>7. ASSUME NEW k, NEW x, Asked(k, x, t)' PROVE k = "call" /\ screen'[x].at = "hash"
          <3>1. \/ k = "call" /\ screen'[x].at = "hash"
                \/ \E l, y : Asked(l, y, t) /\ ~(l = "call" /\ screen[y].at = "hash")
                \/ \E s \in Screen : OfferPut(s) /\ screen[s].id = t
              BY <2>7, AskStep
          <3> QED
              BY <2>2, <2>6, <3>1
      <2> QED
          BY <2>4, <2>5, <2>7
  <1> QED
      BY <1>1, <1>6, <1>8, <1>9

(* Who has read of a transfer is not told of it again: what is off is over.*)
LEMMA OverStays ==
  ASSUME OneDaemon, SInv, [Next]_vars, NEW d \in Daemon, NEW t \in Transfer,
         Receives(d, t), row[d][t].state # "none"
  PROVE  /\ Off(t) => Off(t)'
         /\ relay[t].state = "none" => relay'[t].state = "none"
  <1> USE DEF SInv
  <1>1. ASSUME NEW c \in Conn, Books(c, t) PROVE FALSE
      <2>1. Asked("book", c, t)
          BY <1>1 DEF Asked
      <2>2. Unread(t)
          BY <2>1, Zenon DEF OfferOnce, Asking
      <2> QED
          BY <2>2 DEF Unread
  <1> QED
      BY <1>1, OffStays, RelayMoves

(* An end is told once, and then nothing else is.                          *)
LEMMA EndOnceStep ==
  ASSUME OneDaemon, SInv, [Next]_vars
  PROVE  EndOnce'
  <1> USE DEF SInv
  <1> SUFFICES ASSUME NEW t \in Transfer
               PROVE  /\ ToldOnce("done", t)'
                      /\ Telling("done", t)' => ~Refusing(t)'
                      /\ Telling("done", t)' \/ Refusing(t)' => relay'[t].state = "none"
                      /\ \A d \in Daemon : Receives(d, t) /\ row'[d][t].state = "done" => Off(t)'
      BY Zenon DEF EndOnce, Receives
  <1> DEFINE Begins(type) == \E g \in Goroutines, frames \in Seq(Parcel) :
                                 Puts(g, frames) /\ Has(Frames(frames), type, t)
  <1>1. /\ ToldOnce("done", t)'
        /\ Telling("done", t)' => Telling("done", t) \/ Begins("done")
      BY ToldStep
  <1>2. Refusing(t)' => Refusing(t) \/ Begins("decline")
      BY RefusingStep
  <1>3. Begins("done") => relay[t].state # "none" /\ relay'[t].state = "none" /\ ~Refusing(t)
      BY PutsWhy
  <1>4. Begins("decline") => relay[t].state # "none" /\ relay'[t].state = "none"
      BY PutsWhy
  <1>5. Begins("done") => ~Begins("decline")
      <2> SUFFICES ASSUME NEW g \in Goroutines, NEW frames \in Seq(Parcel), Puts(g, frames), Has(Frames(frames), "done", t),
                          NEW h \in Goroutines, NEW more \in Seq(Parcel), Puts(h, more), Has(Frames(more), "decline", t)
                   PROVE  FALSE
          OBVIOUS
      <2>1. /\ pending[g] = <<>> /\ frames # <<>> /\ pending' = [pending EXCEPT ![g] = frames] /\ Len(frames) = 1
            /\ pending[h] = <<>> /\ more # <<>> /\ pending' = [pending EXCEPT ![h] = more]
          BY PutsWhy
      <2>2. frames = more
          BY <2>1 DEF IInv, Typed, FramesOK, Goroutines
      <2>3. PICK i \in 1 .. Len(frames) : About(frames[i].frame, "done", t)
          BY FramesTyped DEF Has
      <2>4. PICK j \in 1 .. Len(frames) : About(frames[j].frame, "decline", t)
          BY <2>2, FramesTyped DEF Has
      <2>5. i = j
          BY <2>1, <2>3, <2>4
      <2> QED
          BY <2>3, <2>4, <2>5 DEF About
  <1>6. Telling("done", t)' => ~Refusing(t)'
      BY <1>1, <1>2, <1>3, <1>4, <1>5 DEF EndOnce
  <1>7. ASSUME Telling("done", t) \/ Refusing(t) PROVE relay'[t].state = "none"
      <2>1. relay[t].state = "none"
          BY <1>7 DEF EndOnce
      <2>2. ASSUME NEW c \in Conn, Books(c, t) PROVE FALSE
          <3>1. Asked("book", c, t)
              BY <2>2 DEF Asked
          <3>2. Off(t)
              BY <3>1, Zenon DEF OfferOnce, Asking
          <3> QED
              BY <1>7, <3>2 DEF Off
      <2> QED
          BY <2>1, <2>2, RelayMoves
  <1>8. Telling("done", t)' \/ Refusing(t)' => relay'[t].state = "none"
      BY <1>1, <1>2, <1>3, <1>4, <1>7
  <1>9. ASSUME NEW d \in Daemon, Receives(d, t), row'[d][t].state = "done" PROVE Off(t)'
      <2>1. RowMove(d, t) /\ d # Sender[t]
          BY <1>9, RowMoves, ConstantsAssumption DEF Receives
      <2>2. CASE row[d][t].state = "done"
          <3>1. Off(t)
              BY <1>9, <2>2 DEF EndOnce
          <3> QED
              BY <1>9, <2>2, <3>1, OverStays
      <2>3. CASE Finish(d) /\ reader[d].id = t
          <3>1. reader[d].at = "finish" /\ reader' = [reader EXCEPT ![d] = Reading]
              BY <2>3 DEF Finish
          <3>2. Concludes(d, t) /\ ~Concludes(d, t)'
              BY <2>3, <3>1 DEF Concludes, Reading, IInv, Typed, LinksOK
          <3>3. Told("done", "reader", d, t)
              BY <3>2 DEF Told
          <3>4. Telling("done", t)
              BY <3>3 DEF Telling
          <3>5. ~Telling("done", t)'
              BY <3>2, ToldStep
          <3>6. relay[t].state = "none" /\ ~Refusing(t)
              BY <3>4 DEF EndOnce
          <3>7. ~Refusing(t)'
              BY <1>2, <1>4, <3>6
          <3> QED
              BY <1>7, <3>4, <3>5, <3>7 DEF Off
      <2> QED
          BY <1>9, <2>1, <2>2, <2>3 DEF RowMove
  <1> QED
      BY <1>1, <1>6, <1>8, <1>9

(* No file is none.                                                        *)
LEMMA NoneIsNoPath == None \notin Path
  BY ConstantsAssumption DEF Path

(* Whoever is through with a transfer, or about to be, has said yes.       *)
LEMMA ConcludesDecided ==
  ASSUME SInv, NEW d \in Daemon, NEW t \in Transfer,
         Concludes(d, t) \/ (Receives(d, t) /\ row[d][t].state = "done")
  PROVE  /\ Receives(d, t) /\ ~Undecided(d, t) /\ Accepting(t)
         /\ Concludes(d, t) => Telling("done", t) /\ ~Off(t)
  <1>1. Receives(d, t) /\ Accepting(t)
      BY DEF SInv, EndsOnly, Concludes, Accepting
  <1>2. ~Undecided(d, t)
      BY <1>1 DEF SInv, AcceptedIsDecided, Decided
  <1>3. Concludes(d, t) => Told("done", "reader", d, t)
      BY DEF Told
  <1> QED
      BY <1>1, <1>2, <1>3 DEF Telling, Off

(* What removes a file or writes to it works for a transfer that claims it.*)
LEMMA Touches ==
  ASSUME SInv, [Next]_vars, NEW d \in Daemon, NEW p \in DOMAIN disk[d],
         ~(p \in DOMAIN disk'[d] /\ disk'[d][p] = disk[d][p])
  PROVE  \E t \in Transfer :
            /\ Claims(d, t, p)
            /\ \/ ReadChunk(d, t) /\ file[d][t] = p /\ p \in DOMAIN disk'[d]
               \/ ReadDecline(d, t) /\ row[d][t].path = p /\ Refusing(t)
               \/ Verify(d) /\ Concludes(d, t) /\ row[d][t].path = p
  <1> USE DEF SInv
  <1>p. p # None
      BY NoneIsNoPath DEF IInv, Typed, DisksOK
  <1>1. DiskMove(d, p)
      BY DiskMoves
  <1>2. ASSUME NEW t \in Transfer, ReadDecline(d, t), row[d][t].path = p
        PROVE  Claims(d, t, p) /\ Refusing(t)
      <2>1. Reads(d, "decline", t) /\ UNCHANGED link
          BY <1>2, Zenon DEF ReadDecline
      <2>2. Has(Inbox(d), "decline", t)
          BY <2>1, ReadFrom
      <2>3. Receives(d, t)
          BY <1>2, <1>p DEF EndsOnly
      <2>4. Refusing(t)
          BY <2>2, <2>3 DEF Refusing
      <2> QED
          BY <1>2, <2>4 DEF Claims, Off
  <1>3. ASSUME Verify(d), reader[d].path = p
        PROVE  \E t \in Transfer : Claims(d, t, p) /\ Concludes(d, t) /\ row[d][t].path = p
      <2>1. reader[d].at = "verify" /\ reader[d].id \in Transfer
          BY <1>3 DEF Verify, IInv, Typed, LinksOK
      <2>2. row[d][reader[d].id].path = p /\ Concludes(d, reader[d].id)
          BY <1>3, <2>1 DEF Saved, Concludes
      <2>3. ~Off(reader[d].id)
          BY <2>1, <2>2, ConcludesDecided
      <2> QED
          BY <2>1, <2>2, <2>3 DEF Claims
  <1>4. ASSUME NEW s \in Screen, Decline(s), ScreenOf[s] = d, row[d][screen[s].id].path = p PROVE FALSE
      <2>1. screen[s].at = "decline" /\ screen[s].id \in Transfer
          BY <1>4 DEF Decline, IInv, Typed, CallsOK
      <2>2. Undecided(d, screen[s].id)
          BY <1>4, <2>1 DEF Undecided, Asks
      <2> QED
          BY <1>4, <1>p, <2>1, <2>2 DEF EndsOnly
  <1> QED
      BY <1>1, <1>2, <1>3, <1>4 DEF DiskMove, Claims

(* A claim is kept from the creation of the file on.                       *)
LEMMA ClaimsFrom ==
  ASSUME OneDaemon, SInv, [Next]_vars, NEW d \in Daemon, NEW t \in Transfer, NEW p \in Path, Claims(d, t, p)'
  PROVE  \/ Claims(d, t, p)
         \/ \E s \in Screen : /\ AcceptCreate(s) /\ Asks(s, {"create"}, t) /\ ScreenOf[s] = d
                              /\ p \notin DOMAIN disk[d] /\ p \in DOMAIN disk'[d]
  <1> USE DEF SInv
  <1>p. p # None
      BY NoneIsNoPath
  <1>1. CASE file'[d][t] = p
      <2>1. CASE file'[d][t] = file[d][t]
          BY <1>1, <2>1 DEF Claims
      <2>2. ASSUME NEW s \in Screen, AcceptCreate(s), Asks(s, {"create"}, t), ScreenOf[s] = d
            PROVE  p \notin DOMAIN disk[d] /\ p \in DOMAIN disk'[d]
          BY <1>1, <2>2, CreateFresh DEF Asks
      <2> QED
          BY <1>1, <1>p, <2>1, <2>2, FileMoves DEF FileMove
  <1>2. ASSUME NEW s \in Screen, ScreenOf[s] = d, Asks(s, {"run"}, t)', screen'[s].path = p
        PROVE  \/ Claims(d, t, p)
               \/ /\ AcceptCreate(s) /\ Asks(s, {"create"}, t)
                  /\ p \notin DOMAIN disk[d] /\ p \in DOMAIN disk'[d]
      <2>1. Calls(s)
          BY CallsMove
      <2>2. CASE screen'[s] = screen[s]
          BY <1>2, <2>2 DEF Claims, Asks
      <2>3. CASE AcceptCreate(s) /\ screen'[s].id = screen[s].id
          BY <1>2, <2>3, CreateFresh DEF Asks
      <2> QED
          BY <1>2, <2>1, <2>2, <2>3 DEF Calls, Asks
  <1>3. ASSUME row'[d][t].path = p, ~(row'[d][t].state = "failed" /\ Off(t)') PROVE Claims(d, t, p)
      <2>1. RowMove(d, t)
          BY RowMoves
      <2>2. ASSUME NEW s \in Screen, Asks(s, {"run"}, t), ScreenOf[s] = d, row'[d][t].path = screen[s].path
            PROVE  Claims(d, t, p)
          BY <1>3, <2>2 DEF Claims
      <2>3. CASE row'[d][t].path = row[d][t].path
          <3> SUFFICES ASSUME row[d][t].state = "failed", Off(t) PROVE FALSE
              BY <1>3, <2>3 DEF Claims
          <3>1. Receives(d, t) /\ ~Undecided(d, t) /\ d # Sender[t]
              BY <1>3, <1>p, <2>3, ConstantsAssumption DEF EndsOnly, Receives
          <3>2. Off(t)'
              BY <3>1, OverStays
          <3>3. row'[d][t].state # "failed"
              BY <1>3, <3>2
          <3>4. ~Concludes(d, t)
              BY ConcludesDecided
          <3>5. ~Finish(d) \/ reader[d].id # t
              BY <3>4 DEF Finish, Concludes
          <3>6. ASSUME NEW s \in Screen, Asks(s, {"hash"}, t), ScreenOf[s] = d PROVE FALSE
              BY <3>1, <3>6 DEF IInv, Typed, CallsOK, Asks
          <3>7. ASSUME NEW s \in Screen, Asks(s, {"run"}, t), ScreenOf[s] = d PROVE FALSE
              BY <3>1, <3>7 DEF Undecided, Asks
          <3> QED
              BY <1>3, <1>p, <2>1, <3>1, <3>3, <3>5, <3>6, <3>7 DEF RowMove
      <2> QED
          BY <1>3, <1>p, <2>1, <2>2, <2>3 DEF RowMove
  <1> QED
      BY <1>1, <1>2, <1>3, Zenon DEF Claims

(* A path that is claimed is claimed once, and there is a file: a path     *)
(* becomes somebody's when Accept takes a name that is free.               *)
LEMMA ClaimedStep ==
  ASSUME OneFrontEnd, OneDaemon, SInv, [Next]_vars
  PROVE  ClaimedOnce'
  <1> USE DEF SInv
  <1> SUFFICES ASSUME NEW d \in Daemon, NEW t \in Transfer, NEW p \in Path, Claims(d, t, p)'
               PROVE  p \in DOMAIN disk'[d] /\ \A u \in Transfer : Claims(d, u, p)' => u = t
      BY Zenon DEF ClaimedOnce
  <1>p. p # None
      BY NoneIsNoPath
  <1>c. \A u \in Transfer : Claims(d, u, p) => p \in DOMAIN disk[d] /\ \A v \in Transfer : Claims(d, v, p) => v = u
      BY DEF ClaimedOnce
  <1>1. ASSUME NEW u \in Transfer, Claims(d, u, p)' PROVE u = t
      <2>1. CASE Claims(d, t, p) \/ Claims(d, u, p)
          BY <1>1, <1>c, <2>1, ClaimsFrom
      <2>2. ASSUME NEW r \in Screen, Asks(r, {"create"}, t), ScreenOf[r] = d,
                   NEW s \in Screen, Asks(s, {"create"}, u), ScreenOf[s] = d
            PROVE  u = t
          BY <2>2 DEF OneFrontEnd, Asks
      <2> QED
          BY <1>1, <2>1, <2>2, ClaimsFrom
  <1>2. ASSUME p \notin DOMAIN disk'[d] PROVE FALSE
      <2>1. Claims(d, t, p)
          BY <1>2, ClaimsFrom
      <2>2. PICK u \in Transfer : /\ Claims(d, u, p)
                                  /\ \/ ReadDecline(d, u) /\ row[d][u].path = p
                                     \/ Verify(d) /\ Concludes(d, u) /\ row[d][u].path = p
          BY <1>2, <1>c, <2>1, Touches
      <2>3. u = t /\ row[d][t].path = p
          BY <1>c, <2>1, <2>2
      <2>4. Receives(d, t) /\ ~Undecided(d, t) /\ d # Sender[t] /\ row[d][t].state # "none"
          BY <1>p, <2>3, ConstantsAssumption DEF EndsOnly, Receives, Undecided
      <2>5. ~\E s \in Screen : ScreenOf[s] = d /\ Asks(s, {"run"}, t)
          BY <2>4 DEF Undecided, Asks
      <2>6. UNCHANGED screen
          BY <2>2, ClientLeaves, Zenon DEF Linked
      <2>7. CASE ReadDecline(d, t)
          <3>1. RowMove(d, t) /\ file' = [file EXCEPT ![d][t] = None]
              BY <2>4, <2>7, RowMoves, Zenon DEF ReadDecline
          <3>2. file'[d][t] = None
              BY <3>1 DEF IInv, Typed, FilesOK
          <3>3. row'[d][t].path = None
              <4> DEFINE v == [row[d][t] EXCEPT !.state = "declined", !.path = None]
              <4>1. row' = [row EXCEPT ![d][t] = [row[d][t] EXCEPT !.state = "declined",
                        !.path = IF Incoming(d, t) /\ row[d][t].path # None THEN None ELSE row[d][t].path]]
                  BY <2>4, <2>7, Zenon DEF ReadDecline
              <4>2. Incoming(d, t) /\ row[d][t].path # None
                  BY <1>p, <2>3, <2>4 DEF Incoming
              <4>3. row' = [row EXCEPT ![d][t] = v]
                  BY <4>1, <4>2
              <4>4. v.path = None
                  BY DEF IInv, Typed, RowsOK, Row
              <4> HIDE DEF v
              <4>5. row'[d][t] = v
                  BY <4>3 DEF IInv, Typed, RowsOK
              <4> QED
                  BY <4>4, <4>5
          <3>4. ~(file'[d][t] = p) /\ ~(row'[d][t].path = p)
              BY <1>p, <3>2, <3>3
          <3>5. ~\E s \in Screen : ScreenOf[s] = d /\ Asks(s, {"run"}, t)'
              BY <2>5, <2>6 DEF Asks
          <3> QED
              BY <3>4, <3>5, Zenon DEF Claims
      <2>8. CASE Verify(d) /\ Concludes(d, t)
          <3>1. disk' # disk
              BY <1>2, <1>c, <2>1
          <3>2. Fail(d, reader[d].id) /\ reader' = [reader EXCEPT ![d] = Reading] /\ reader[d].id = t
              BY <2>8, <3>1, Zenon DEF Verify, Concludes
          <3>3. file'[d][t] = None /\ row'[d][t].state = "failed"
              BY <3>2 DEF Fail, IInv, Typed, FilesOK, RowsOK, Row
          <3>4. reader'[d].at = "read"
              BY <3>2 DEF Reading, IInv, Typed, LinksOK
          <3>5. ~Telling("done", t)'
              BY <2>8, <3>4, ToldStep DEF Concludes
          <3>6. relay[t].state = "none" /\ ~Refusing(t)
              BY <2>8, ConcludesDecided DEF EndOnce
          <3>7. ~Refusing(t)'
              BY <3>6, RefusingStep, PutsWhy
          <3>8. relay'[t].state = "none"
              BY <2>4, <3>6, OverStays
          <3>9. Off(t)'
              BY <3>5, <3>7, <3>8 DEF Off
          <3>10. ~\E s \in Screen : ScreenOf[s] = d /\ Asks(s, {"run"}, t)'
              BY <2>5, <2>6 DEF Asks
          <3>11. ~(file'[d][t] = p)
              BY <1>p, <3>3
          <3> QED
              BY <3>3, <3>9, <3>10, <3>11, Zenon DEF Claims
      <2> QED
          BY <2>2, <2>3, <2>7, <2>8
  <1> QED
      BY <1>1, <1>2

----------------------------------------------------------------------------
(* What has arrived is touched by nobody.                                  *)
LEMMA DoneStays ==
  ASSUME SInv, [Next]_vars, NEW d \in Daemon, NEW t \in Transfer, Receives(d, t), row[d][t].state = "done"
  PROVE  /\ row'[d][t].state = "done" /\ row'[d][t].path = row[d][t].path /\ file'[d][t] = None
         /\ row[d][t].path # None => /\ row[d][t].path \in DOMAIN disk'[d]
                                     /\ disk'[d][row[d][t].path] = disk[d][row[d][t].path]
  <1> USE DEF SInv
  <1>1. ~Undecided(d, t) /\ Accepting(t) /\ Off(t) /\ file[d][t] = None /\ d # Sender[t]
      BY ConcludesDecided, ConstantsAssumption DEF EndOnce, Saved, Receives
  <1>2. ~Concludes(d, t)
      BY <1>1, ConcludesDecided
  <1>3. ASSUME NEW s \in Screen, ScreenOf[s] = d,
               Asks(s, {"hash"}, t) \/ Asks(s, {"create"}, t) \/ Asks(s, {"run"}, t) \/ Asks(s, {"decline"}, t)
        PROVE  FALSE
      <2>1. ~Asks(s, {"hash"}, t)
          BY <1>1, <1>3 DEF IInv, Typed, CallsOK, Asks
      <2> QED
          BY <1>1, <1>3, <2>1 DEF Undecided, Asks
  <1>4. ASSUME NEW s \in Screen, Asks(s, {"answer"}, t) PROVE FALSE
      BY <1>1, <1>4 DEF AcceptedIsDecided
  <1>5. ~ReadOffer(d, t)
      <2> SUFFICES ASSUME ReadOffer(d, t) PROVE FALSE
          OBVIOUS
      <2>1. Reads(d, "offer", t) /\ UNCHANGED link
          BY Zenon DEF ReadOffer
      <2>2. Told("offer", "wire", d, t)
          BY <2>1, ReadFrom DEF Told
      <2>3. Unread(t)
          BY <2>2, Zenon DEF OfferOnce, Telling
      <2> QED
          BY <2>3 DEF Unread
  <1>6. ~ReadDecline(d, t)
      <2> SUFFICES ASSUME ReadDecline(d, t) PROVE FALSE
          OBVIOUS
      <2>1. Reads(d, "decline", t) /\ UNCHANGED link
          BY Zenon DEF ReadDecline
      <2>2. Has(Inbox(d), "decline", t)
          BY <2>1, ReadFrom
      <2>3. Refusing(t)
          BY <2>2 DEF Refusing
      <2> QED
          BY <1>1, <2>3 DEF Off
  <1>7. Verify(d) \/ Finish(d) => reader[d].id # t
      BY <1>2 DEF Verify, Finish, Concludes
  <1>8. row'[d][t].state = "done" /\ row'[d][t].path = row[d][t].path
      BY <1>1, <1>3, <1>4, <1>5, <1>6, <1>7, RowMoves DEF RowMove, Live
  <1>9. file'[d][t] = None
      BY <1>1, <1>3, FileMoves DEF FileMove
  <1>10. ASSUME row[d][t].path # None
         PROVE  /\ row[d][t].path \in DOMAIN disk'[d]
                /\ disk'[d][row[d][t].path] = disk[d][row[d][t].path]
      <2> DEFINE p == row[d][t].path
      <2>0. p \in Path
          BY <1>10 DEF IInv, Typed, RowsOK, Row
      <2>1. Claims(d, t, p)
          BY DEF Claims
      <2> HIDE DEF p
      <2>2. p \in DOMAIN disk[d] /\ \A u \in Transfer : Claims(d, u, p) => u = t
          BY <2>0, <2>1 DEF ClaimedOnce
      <2>3. ASSUME ~(p \in DOMAIN disk'[d] /\ disk'[d][p] = disk[d][p]) PROVE FALSE
          <3>1. PICK u \in Transfer :
                    /\ Claims(d, u, p)
                    /\ file[d][u] = p \/ Refusing(u) \/ Concludes(d, u)
              BY <2>2, <2>3, Touches
          <3>2. u = t
              BY <2>2, <3>1
          <3>3. p # None /\ ~Refusing(t)
              BY <1>1, <1>10 DEF Off, p
          <3> QED
              BY <1>1, <1>2, <3>1, <3>2, <3>3
      <2> QED
          BY <2>3 DEF p
  <1> QED
      BY <1>8, <1>9, <1>10

(* A row is done after a look at the file nobody has open any more.        *)
LEMMA SavedStep ==
  ASSUME OneDaemon, SInv, [Next]_vars
  PROVE  Saved'
  <1> USE DEF SInv
  <1>1. ASSUME NEW d \in Daemon, reader'[d].at \in {"verify", "finish"}
        PROVE  /\ reader'[d].path = row'[d][reader'[d].id].path /\ file'[d][reader'[d].id] = None
               /\ reader'[d].at = "finish" /\ reader'[d].path # None => disk'[d][reader'[d].path] = Whole
      <2> DEFINE t == reader[d].id
                 p == reader[d].path
      <2>1. CASE reader'[d] = reader[d]
          <3>1. t \in Transfer /\ Concludes(d, t) /\ reader[d].at # "read"
              BY <1>1, <2>1 DEF IInv, Typed, LinksOK, Concludes
          <3> HIDE DEF t
          <3>2. ~Undecided(d, t) /\ ~Off(t)
              BY <3>1, ConcludesDecided
          <3>3. p = row[d][t].path /\ file[d][t] = None
              BY <1>1, <2>1 DEF Saved, t
          <3>4. ASSUME NEW s \in Screen, ScreenOf[s] = d,
                       Asks(s, {"create"}, t) \/ Asks(s, {"run"}, t) \/ Asks(s, {"decline"}, t)
                PROVE  FALSE
              BY <3>2, <3>4 DEF Undecided, Asks
          <3>5. ASSUME NEW u \in Transfer, ReadOffer(d, u) \/ ReadDecline(d, u) \/ ReadChunk(d, u) PROVE FALSE
              <4>1. \E type : Reads(d, type, u)
                  BY <3>5, Zenon DEF ReadOffer, ReadDecline, ReadChunk
              <4> QED
                  BY <3>1, <4>1 DEF Reads
          <3>6. row'[d][t].path = p
              BY <3>1, <3>3, <3>4, <3>5, RowMoves DEF RowMove
          <3>7. file'[d][t] = None
              BY <3>1, <3>3, <3>4, FileMoves DEF FileMove
          <3>8. ASSUME reader[d].at = "finish", p # None PROVE disk'[d][p] = Whole
              <4>1. disk[d][p] = Whole
                  BY <3>8 DEF Saved
              <4>2. p \in Path
                  BY <3>8 DEF IInv, Typed, LinksOK, Reader
              <4>3. Claims(d, t, p)
                  BY <3>2, <3>3 DEF Claims
              <4> HIDE DEF p
              <4>4. p \in DOMAIN disk[d]
                  BY <3>1, <4>2, <4>3 DEF ClaimedOnce
              <4>5. ~Verify(d)
                  BY <3>8 DEF Verify
              <4> QED
                  BY <3>5, <4>1, <4>4, <4>5, Touches
          <3> QED
              BY <2>1, <3>6, <3>7, <3>8 DEF t
      <2>2. ASSUME NEW u \in Transfer, file'[d][u] = None, UNCHANGED row, reader'[d].at = "verify",
                   reader'[d].id = u, reader'[d].path = row[d][u].path
            PROVE  /\ reader'[d].path = row'[d][reader'[d].id].path /\ file'[d][reader'[d].id] = None
                   /\ reader'[d].at # "finish"
          BY <2>2
      <2>3. CASE /\ Verify(d) /\ reader[d].at = "verify" /\ UNCHANGED <<row, file, disk>>
                 /\ reader'[d].at = "finish" /\ reader'[d].id = reader[d].id /\ reader'[d].path = reader[d].path
                 /\ reader[d].path = None \/ ~DigestDiffers(d, reader[d].path)
          <3>1. p = row[d][t].path /\ file[d][t] = None
              BY <2>3 DEF Saved
          <3>2. p # None => disk[d][p] = Whole
              BY <2>3 DEF DigestDiffers
          <3> QED
              BY <2>3, <3>1, <3>2
      <2>4. ReaderMove(d)
          BY ReaderMoves
      <2> HIDE DEF t, p
      <2> QED
          BY <1>1, <2>1, <2>2, <2>3, <2>4 DEF ReaderMove
  <1>2. ASSUME NEW d \in Daemon, NEW t \in Transfer, Receives(d, t), row'[d][t].state = "done"
        PROVE  /\ file'[d][t] = None
               /\ row'[d][t].path # None => disk'[d][row'[d][t].path] = Whole
      <2>1. CASE row[d][t].state = "done"
          <3>1. row[d][t].path # None => disk[d][row[d][t].path] = Whole
              BY <1>2, <2>1 DEF Saved
          <3> QED
              BY <1>2, <2>1, <3>1, DoneStays
      <2>2. CASE Finish(d) /\ reader[d].id = t /\ row'[d][t].path = row[d][t].path
          <3>1. reader[d].at = "finish" /\ UNCHANGED <<file, disk>>
              BY <2>2 DEF Finish
          <3>2. /\ reader[d].path = row[d][t].path /\ file[d][t] = None
                /\ reader[d].path # None => disk[d][reader[d].path] = Whole
              BY <2>2, <3>1 DEF Saved
          <3> QED
              BY <2>2, <3>1, <3>2
      <2>3. RowMove(d, t) /\ d # Sender[t]
          BY <1>2, RowMoves, ConstantsAssumption DEF Receives
      <2> QED
          BY <1>2, <2>1, <2>2, <2>3 DEF RowMove
  <1> QED
      BY <1>1, <1>2, Zenon DEF Saved, Receives

----------------------------------------------------------------------------
(* The parts together. At first nothing is open, said or claimed.          *)
LEMMA InitSInv ==
  ASSUME Init
  PROVE  SInv
  <1>i. Init
      OBVIOUS
  <1> USE DEF Init
  <1>1. IInv
      BY InitIInv
  <1>n. None \notin Conn
      BY ConstantsAssumption
  <1>a. /\ \A d \in Daemon : Inbox(d) = <<>>
        /\ \A g \in Goroutines : pending[g] = <<>> /\ Frames(pending[g]) = <<>>
        /\ \A c \in Conn : toServer[c] = <<>> /\ handler[c].at = "free" /\ open[c] = FALSE
        /\ \A s \in Screen : screen[s].at = "idle"
        /\ \A d \in Daemon : reader[d].at = "down" /\ link[d] = None
        /\ \A t \in Transfer : pusher[t].at = "no" /\ relay[t].state = "none"
        /\ \A d \in Daemon, t \in Transfer : /\ row[d][t].state = "none" /\ row[d][t].path = None
                                             /\ file[d][t] = None
      BY <1>n DEF Inbox, Goroutines, Frames, Free, Waiting, Reading, Quiet, NoRelay, NoRow
  <1>c. \A c \in Conn : toClient[c] = <<>>
      OBVIOUS
  <1>h. \A type, t : ~Has(<<>>, type, t) /\ Once(<<>>, type, t)
      BY DEF Has, Once
  <1>s. \A t \in Transfer : Sender[t] \in Daemon
      BY ConstantsAssumption
  <1> USE <1>i
  <1> HIDE DEF Init
  <1>2. \A k, x, t : ~Asked(k, x, t)
      BY <1>a, <1>h DEF Asked, Asks, Books
  <1>3. \A type, k, x, t : ~Told(type, k, x, t)
      BY <1>a, <1>h DEF Told, Concludes
  <1>4. \A t : ~Refusing(t)
      BY <1>a, <1>h DEF Refusing
  <1>5. \A t \in Transfer : Off(t)
      BY <1>a, <1>3, <1>4 DEF Off, Telling
  <1>6. Wired /\ SentAll
      BY <1>a, <1>c DEF Wired, SentAll, Goroutines
  <1>7. EndsOnly
      BY <1>a DEF EndsOnly
  <1>8. \A t \in Transfer : ~Accepting(t)
      BY <1>a, <1>h DEF Accepting, Concludes
  <1>9. AcceptedIsDecided
      BY <1>8, <1>a DEF AcceptedIsDecided, Asks
  <1>10. Aimed
      BY <1>a DEF Aimed
  <1>11. OfferOnce
      BY <1>a, <1>h, <1>2, <1>3, <1>5 DEF OfferOnce, AskedOnce, ToldOnce, Asking, Telling, Unread
  <1>12. EndOnce
      BY <1>a, <1>h, <1>3, <1>4, <1>5 DEF EndOnce, ToldOnce, Telling
  <1>13. ClaimedOnce
      BY <1>a, NoneIsNoPath DEF ClaimedOnce, Claims, Asks
  <1>14. Saved
      BY <1>a DEF Saved
  <1> QED
      BY <1>1, <1>6, <1>7, <1>9, <1>10, <1>11, <1>12, <1>13, <1>14 DEF SInv

(* They hold one another up: a step keeps each of them because all hold.    *)
LEMMA NextSInv ==
  ASSUME OneFrontEnd, OneDaemon, SInv, [Next]_vars
  PROVE  SInv'
  <1>1. IInv /\ Wired /\ SentAll /\ EndsOnly /\ AcceptedIsDecided /\ Aimed /\ OfferOnce /\ EndOnce
      BY DEF SInv
  <1>2. IInv' /\ Wired' /\ SentAll' /\ Aimed'
      BY <1>1, NextIInv, WiredStep, SentAllStep, AimedStep DEF IInv, Typed
  <1>3. EndsOnly' /\ AcceptedIsDecided'
      BY EndsOnlyStep, DecidedStep
  <1>4. OfferOnce' /\ EndOnce'
      BY OfferOnceStep, EndOnceStep
  <1>5. ClaimedOnce' /\ Saved'
      BY ClaimedStep, SavedStep
  <1> QED
      BY <1>2, <1>3, <1>4, <1>5 DEF SInv

(* With one front end at a daemon and one daemon of a person, a received   *)
(* file that a row calls done is whole (onChunk, onDone and Accept of      *)
(* chatclientd/files.go).                                                  *)
THEOREM SavedFilesAreWhole ==
  ASSUME OneFrontEnd, OneDaemon
  PROVE  Spec => []SavedIsWhole
  <1>1. SInv => SavedIsWhole
      <2> SUFFICES ASSUME SInv, NEW d \in Daemon, NEW t \in Transfer,
                          row[d][t].state = "done", row[d][t].path \in DOMAIN disk[d]
                   PROVE  disk[d][row[d][t].path] = Whole
          BY DEF SavedIsWhole
      <2>1. row[d][t].path # None
          BY NoneIsNoPath DEF SInv, IInv, Typed, DisksOK
      <2>2. Receives(d, t)
          BY <2>1 DEF SInv, EndsOnly
      <2> QED
          BY <2>1, <2>2 DEF SInv, Saved
  <1> QED
      BY <1>1, InitSInv, NextSInv, PTL DEF Spec

(* "An incoming file never overwrites something already on disk"            *)
(* (chat/transfer.go): a file that is being written is there, and it is not *)
(* one that another transfer writes to or has saved, though names are free  *)
(* again when a file was refused or did not match (Accept, Decline, onDone).*)
WritesApart ==
    \A d \in Daemon, t \in Transfer :
        file[d][t] # None =>
            /\ file[d][t] \in DOMAIN disk[d]
            /\ \A u \in Transfer \ {t} :
                  file[d][t] # file[d][u] /\ (row[d][u].state = "done" => file[d][t] # row[d][u].path)

(* Under the same conditions a file that is being written is there, and    *)
(* belongs to one transfer (Accept, Decline and onDone of chatclientd).    *)
THEOREM WritersStayApart ==
  ASSUME OneFrontEnd, OneDaemon
  PROVE  Spec => []WritesApart
  <1>1. SInv => WritesApart
      <2> SUFFICES ASSUME SInv, NEW d \in Daemon, NEW t \in Transfer, file[d][t] # None
                   PROVE  /\ file[d][t] \in DOMAIN disk[d]
                          /\ \A u \in Transfer \ {t} :
                                /\ file[d][t] # file[d][u]
                                /\ row[d][u].state = "done" => file[d][t] # row[d][u].path
          BY DEF WritesApart
      <2>1. file[d][t] \in Path /\ Claims(d, t, file[d][t])
          BY DEF SInv, IInv, Typed, FilesOK, Claims
      <2>2. /\ file[d][t] \in DOMAIN disk[d]
            /\ \A u \in Transfer : Claims(d, u, file[d][t]) => u = t
          BY <2>1 DEF SInv, ClaimedOnce
      <2>3. ASSUME NEW u \in Transfer,
                   file[d][t] = file[d][u] \/ (row[d][u].state = "done" /\ file[d][t] = row[d][u].path)
            PROVE  u = t
          BY <2>2, <2>3 DEF Claims
      <2> QED
          BY <2>2, <2>3
  <1> QED
      BY <1>1, InitSInv, NextSInv, PTL DEF Spec

(* Under the same conditions a file that has arrived stays as it is.       *)
THEOREM SavedFilesStay ==
  ASSUME OneFrontEnd, OneDaemon
  PROVE  Spec => SavedStays
  <1>1. SInv /\ [Next]_vars => [\A d \in Daemon, t \in Transfer : Arrived(d, t) => Arrived(d, t)']_vars
      <2> SUFFICES ASSUME SInv, [Next]_vars, NEW d \in Daemon, NEW t \in Transfer, Arrived(d, t)
                   PROVE  Arrived(d, t)'
          OBVIOUS
      <2>1. /\ d # Sender[t] /\ row[d][t].state = "done" /\ row[d][t].path \in DOMAIN disk[d]
            /\ disk[d][row[d][t].path] = Whole
          BY DEF Arrived, Incoming
      <2>2. row[d][t].path # None
          BY <2>1, NoneIsNoPath DEF SInv, IInv, Typed, DisksOK
      <2>3. Receives(d, t)
          BY <2>1 DEF SInv, EndsOnly
      <2> QED
          BY <2>1, <2>2, <2>3, DoneStays DEF Arrived, Incoming
  <1> QED
      BY <1>1, InitSInv, NextSInv, PTL DEF Spec, SavedStays
=============================================================================
