------------------------------- MODULE Relay -------------------------------
(***************************************************************************)
(* Ordering, storing and relaying messages: one chatserver.Server, the     *)
(* goroutine it runs for every connection, and the link of every client    *)
(* daemon (chatclientd.Daemon) with its cursor.                            *)
(*                                                                         *)
(* What is modelled: enrolment and resume (hello, welcome, backfill,       *)
(* synced), onMessage with its separate critical sections (Have, NextSeq,  *)
(* Append, one snapshot of the connections per recipient, one queue write  *)
(* per connection), the reading side of the client (advance, Append,       *)
(* Confirm, flushQueue), composing while the link is up, half up or down,  *)
(* connections that break at any moment with frames in flight both ways,   *)
(* and client daemons that are killed and come back with the cursor file.  *)
(*                                                                         *)
(* What is abstracted: a message is a model value with a fixed author and  *)
(* conversation, and its recipients (the members of a room, the two ends   *)
(* of a direct conversation) do not change; the outgoing channel of a      *)
(* connection, its writeLoop and the TCP stream are one FIFO; presence,    *)
(* typing and file transfer travel beside this and are not here.           *)
(***************************************************************************)
EXTENDS Integers, Sequences, FiniteSets

CONSTANTS
    Daemon,        \* client daemons
    Person,        \* identities (chat.PeerID)
    Conv,          \* conversations, as the server names them
    Msg,           \* message ids
    Conn,          \* connection slots: the server's clientConn values
    None,          \* "no message", "no connection", "no daemon"
    Identity,      \* the identity a daemon enrols under
    Author,        \* the daemon that composes a message
    ConvOf,        \* the conversation a message is composed in
    Recipients,    \* who a message goes to, in the order route lists them
    BacklogWindow, \* messages per conversation after a reset
    MaxBacklog,    \* the longest delta one resume replays
    DiskMayFail,   \* may Store.Append fail after it filed the message?
    MaxBreaks,     \* bound: how many connections break
    MaxKills,      \* bound: how many daemons are killed
    Faulty         \* bound: the daemons this happens to

ASSUME ConstantsAssumption ==
    /\ Identity \in [Daemon -> Person]
    /\ Author \in [Msg -> Daemon]
    /\ ConvOf \in [Msg -> Conv]
    /\ Recipients \in [Msg -> Seq(Person)]
    /\ None \notin Msg \cup Conn \cup Daemon
    /\ BacklogWindow \in Nat \ {0} /\ MaxBacklog \in Nat \ {0}
    /\ DiskMayFail \in BOOLEAN
    /\ MaxBreaks \in Nat /\ MaxKills \in Nat /\ Faulty \subseteq Daemon

VARIABLES
    store,    \* Server.Store: the number a filed message has, 0 if not filed
    nextSeq,  \* Store.nextSeq
    minted,   \* history: the message each number was minted for
    conns,    \* Server.conns: the registered connections
    handler,  \* the goroutine of each connection (a record, see Idle)
    open,     \* is the socket open at both ends?
    toServer, \* composed messages on their way to the server
    toClient, \* frames on their way to the client
    daemon,   \* each client daemon (a record, see Fresh)
    cache,    \* the number of every message a daemon caches, 0 if none
    breaks,   \* how many connections broke
    kills     \* how many daemons were killed

vars == <<store, nextSeq, minted, conns, handler, open, toServer, toClient,
          daemon, cache, breaks, kills>>

(* The state of the goroutine that serves a connection:                    *)
(*   at      where it is                                                   *)
(*   owner   the daemon at the other end                                   *)
(*   cursor  the cursor of the hello                                       *)
(*   seq     the server's sequence, read before the welcome                *)
(*   reset   what the welcome said; window: backfill's own copy of it      *)
(*   backlog stored messages that are still to be replayed                 *)
(*   msg     the message it is filing; num: the number minted for it       *)
(*   people  recipients it has not come to; targets: the connections of    *)
(*           the current one that it has not sent to                       *)
Idle == [at |-> "free", owner |-> None, cursor |-> 0, seq |-> 0,
         reset |-> FALSE, window |-> FALSE, backlog |-> {},
         msg |-> None, num |-> 0, people |-> <<>>, targets |-> {}]

(* The state of a client daemon:                                           *)
(*   phase     "down", "hello" (waiting for the welcome) or "live"         *)
(*   link      the connection of the session                               *)
(*   cursor    Daemon.cursor; saved: the cursor file                       *)
(*   drafts    its own messages, in the order they were composed           *)
(*   unwritten those that Send has filed and not yet written               *)
(*   flush     what flushQueue still has to write                          *)
Fresh == [phase |-> "down", link |-> None, cursor |-> 0, saved |-> 0,
          drafts |-> <<>>, unwritten |-> {}, flush |-> {}]

----------------------------------------------------------------------------
(* Frames. As in chatwire, a frame is one flat record of which each type    *)
(* uses some fields.                                                        *)

Frame == [t : {"welcome", "msg", "seq", "synced", "error"},
          id : Msg \cup {None}, seq : Nat, reset : BOOLEAN]

WelcomeFrame(r) == [t |-> "welcome", id |-> None, seq |-> 0, reset |-> r]
MsgFrame(m, n) == [t |-> "msg", id |-> m, seq |-> n, reset |-> FALSE]
SeqFrame(m, n) == [t |-> "seq", id |-> m, seq |-> n, reset |-> FALSE]
SyncedFrame(n) == [t |-> "synced", id |-> None, seq |-> n, reset |-> FALSE]
ErrorFrame == [t |-> "error", id |-> None, seq |-> 0, reset |-> FALSE]

Larger(a, b) == IF a > b THEN a ELSE b

----------------------------------------------------------------------------
(* Helpers of the server.                                                  *)

Peer(c) == Identity[handler[c].owner]

(* convFor: may this identity see that message?                            *)
MayRead(p, m) == \E i \in DOMAIN Recipients[m] : Recipients[m][i] = p

(* Mutant of ConnsOf: one connection per identity.                         *)
OneConnOf(p) ==
    LET mine == {c \in conns : Peer(c) = p}
    IN IF mine = {} THEN {} ELSE {CHOOSE c \in mine : TRUE}

(* Server.to: every live connection of one identity, at one moment.        *)
ConnsOf(p) == {c \in conns : Peer(c) = p}

(* clientConn.send: a closed connection swallows the frame.                *)
Send(c, f) ==
    toClient' = [toClient EXCEPT ![c] = IF open[c] THEN Append(@, f) ELSE @]

(* Mutant of VisibleSince: a bound that is off by one.                     *)
VisibleAfterNext(p, n) ==
    {[id |-> m, seq |-> store[m]] : m \in {x \in Msg : store[x] > n + 1 /\ MayRead(p, x)}}

(* visibleSince: what Store.Since returns, filtered by convFor.            *)
VisibleSince(p, n) ==
    {[id |-> m, seq |-> store[m]] : m \in {x \in Msg : store[x] > n /\ MayRead(p, x)}}

(* recentWindow: of each conversation, the messages with fewer than        *)
(* BacklogWindow messages behind them.                                     *)
RecentWindow(p) ==
    LET visible == VisibleSince(p, 0)
        After(s) == {t \in visible : ConvOf[t.id] = ConvOf[s.id] /\ t.seq > s.seq}
    IN {s \in visible : Cardinality(After(s)) < BacklogWindow}

(* Helpers of a client.                                                    *)

Own(d, m) == Identity[Author[m]] = Identity[d]
Composed(d) == {daemon[d].drafts[i] : i \in DOMAIN daemon[d].drafts}
Holds(d, m) == cache[d][m] # 0 \/ m \in Composed(d)

(* Store.Queued: own messages the server has not confirmed, and its order.  *)
(* Whether one is shown as queued or as sending is left out.               *)
Queued(d) == {m \in Composed(d) : cache[d][m] = 0}
Before(d, a, b) == \E i, j \in DOMAIN daemon[d].drafts :
                       i < j /\ daemon[d].drafts[i] = a /\ daemon[d].drafts[j] = b

(* Daemon.write: on a socket that is already broken the frame goes nowhere. *)
Write(c, m) ==
    toServer' = [toServer EXCEPT ![c] = IF open[c] THEN Append(@, m) ELSE @]

----------------------------------------------------------------------------
Init ==
    /\ store = [m \in Msg |-> 0] /\ nextSeq = 0 /\ minted = <<>>
    /\ conns = {}
    /\ handler = [c \in Conn |-> Idle]
    /\ open = [c \in Conn |-> FALSE]
    /\ toServer = [c \in Conn |-> <<>>] /\ toClient = [c \in Conn |-> <<>>]
    /\ daemon = [d \in Daemon |-> Fresh]
    /\ cache = [d \in Daemon |-> [m \in Msg |-> 0]]
    /\ breaks = 0 /\ kills = 0

----------------------------------------------------------------------------
(* Enrolment, on the server: handleConn up to its read loop.               *)

(* The hello is read, the sequence is read and the welcome is written       *)
(* before anybody else knows of the connection.                             *)
Enrol(c) ==
    LET abandon == handler[c].cursor > nextSeq
    IN /\ handler[c].at = "hello"
       /\ handler' = [handler EXCEPT ![c].at = "register", ![c].seq = nextSeq,
                                     ![c].reset = abandon]
       /\ Send(c, WelcomeFrame(abandon))
       /\ UNCHANGED <<store, nextSeq, minted, conns, open, toServer, daemon, cache, breaks, kills>>

(* The hello does not arrive, or the welcome cannot be written: the         *)
(* connection is closed and was never registered.                           *)
EnrolFails(c) ==
    /\ handler[c].at = "hello" /\ ~open[c]
    /\ handler' = [handler EXCEPT ![c] = Idle]
    /\ UNCHANGED <<store, nextSeq, minted, conns, open, toServer, toClient, daemon,
                   cache, breaks, kills>>

Register(c) ==
    /\ handler[c].at = "register"
    /\ conns' = conns \cup {c}
    /\ handler' = [handler EXCEPT ![c].at = "backfill"]
    /\ UNCHANGED <<store, nextSeq, minted, open, toServer, toClient, daemon, cache, breaks, kills>>

(* backfill reads what was missed; the reads of a window, one per           *)
(* conversation, are taken as one. A delta over MaxBacklog is abandoned for *)
(* a window only here, after the welcome has been written.                  *)
Backfill(c) ==
    LET missed == VisibleSince(Peer(c), handler[c].cursor)
        abandon == handler[c].reset \/ Cardinality(missed) > MaxBacklog
    IN /\ handler[c].at = "backfill"
       /\ handler' = [handler EXCEPT ![c].at = "replay", ![c].window = abandon,
                          ![c].backlog = IF abandon THEN RecentWindow(Peer(c)) ELSE missed]
       /\ UNCHANGED <<store, nextSeq, minted, conns, open, toServer, toClient, daemon,
                      cache, breaks, kills>>

(* It is replayed oldest first, ...                                        *)
Replay(c) ==
    /\ handler[c].at = "replay"
    /\ \E s \in handler[c].backlog :
          /\ \A t \in handler[c].backlog : s.seq <= t.seq
          /\ Send(c, MsgFrame(s.id, s.seq))
          /\ handler' = [handler EXCEPT ![c].backlog = @ \ {s}]
    /\ UNCHANGED <<store, nextSeq, minted, conns, open, toServer, daemon, cache, breaks, kills>>

(* Mutants of Synced: a sequence that is one off, either way.              *)
SyncedWith(c, n) ==
    /\ handler[c].at = "replay" /\ handler[c].backlog = {}
    /\ Send(c, SyncedFrame(n))
    /\ handler' = [handler EXCEPT ![c].at = "read"]
    /\ UNCHANGED <<store, nextSeq, minted, conns, open, toServer, daemon, cache, breaks, kills>>
SyncedOneShort(c) == SyncedWith(c, handler[c].seq - 1)
SyncedOneOver(c) == SyncedWith(c, handler[c].seq + 1)

(* ... and ends with the sequence that was read before the welcome.        *)
Synced(c) ==
    /\ handler[c].at = "replay" /\ handler[c].backlog = {}
    /\ Send(c, SyncedFrame(handler[c].seq))
    /\ handler' = [handler EXCEPT ![c].at = "read"]
    /\ UNCHANGED <<store, nextSeq, minted, conns, open, toServer, daemon, cache, breaks, kills>>

----------------------------------------------------------------------------
(* onMessage, one critical section at a time.                              *)

(* A resend: the sender is told the number the message already has.        *)
AnswerResend(c) ==
    LET m == Head(toServer[c])
    IN /\ handler[c].at = "read" /\ toServer[c] # <<>> /\ store[m] # 0
       /\ Send(c, SeqFrame(m, store[m]))
       /\ toServer' = [toServer EXCEPT ![c] = Tail(@)]
       /\ UNCHANGED <<store, nextSeq, minted, conns, handler, open, daemon, cache, breaks, kills>>

(* Store.Have says no.                                                     *)
TakeMessage(c) ==
    LET m == Head(toServer[c])
    IN /\ handler[c].at = "read" /\ toServer[c] # <<>> /\ store[m] = 0
       /\ handler' = [handler EXCEPT ![c].at = "mint", ![c].msg = m]
       /\ toServer' = [toServer EXCEPT ![c] = Tail(@)]
       /\ UNCHANGED <<store, nextSeq, minted, conns, open, toClient, daemon, cache, breaks, kills>>

(* Mutant of Mint: the counter is left to Append, which only raises it.    *)
MintWithoutCounting(c) ==
    /\ handler[c].at = "mint"
    /\ minted' = Append(minted, handler[c].msg)
    /\ handler' = [handler EXCEPT ![c].at = "append", ![c].num = nextSeq + 1]
    /\ UNCHANGED <<store, nextSeq, conns, open, toServer, toClient, daemon, cache, breaks, kills>>

(* Store.NextSeq.                                                          *)
Mint(c) ==
    /\ handler[c].at = "mint"
    /\ nextSeq' = nextSeq + 1
    /\ minted' = Append(minted, handler[c].msg)
    /\ handler' = [handler EXCEPT ![c].at = "append", ![c].num = nextSeq + 1]
    /\ UNCHANGED <<store, conns, open, toServer, toClient, daemon, cache, breaks, kills>>

(* A goroutine back at its read.                                           *)
Listening(h) == [h EXCEPT !.at = "read", !.msg = None, !.num = 0, !.targets = {}]

(* Mutant of FileInMemory: the second filing wins.                         *)
FileOver(m, n) == store' = [store EXCEPT ![m] = n] /\ nextSeq' = Larger(nextSeq, n)

(* Store.Append, in memory: a message that is already filed keeps its       *)
(* number, and the caller does not look at which of the two happened.       *)
FileInMemory(m, n) ==
    IF store[m] # 0 THEN UNCHANGED <<store, nextSeq>>
    ELSE /\ store' = [store EXCEPT ![m] = n]
         /\ nextSeq' = Larger(nextSeq, n)

File(c) ==
    LET m == handler[c].msg
    IN /\ handler[c].at = "append"
       /\ FileInMemory(m, handler[c].num)
       /\ handler' = [handler EXCEPT ![c].at = "fanout", ![c].people = Recipients[m]]
       /\ UNCHANGED <<minted, conns, open, toServer, toClient, daemon, cache, breaks, kills>>

(* Mutant of FileFails: the journal first, and its error ignored.          *)
FileFailsUnnoticed(c) ==
    LET m == handler[c].msg
    IN /\ DiskMayFail
       /\ handler[c].at = "append" /\ store[m] = 0
       /\ handler' = [handler EXCEPT ![c].at = "fanout", ![c].people = Recipients[m]]
       /\ UNCHANGED <<store, nextSeq, minted, conns, open, toServer, toClient, daemon,
                      cache, breaks, kills>>

(* The journal line cannot be written: the message stays filed in memory,   *)
(* the sender is refused and nobody else is told.                           *)
FileFails(c) ==
    /\ DiskMayFail
    /\ handler[c].at = "append" /\ store[handler[c].msg] = 0
    /\ FileInMemory(handler[c].msg, handler[c].num)
    /\ Send(c, ErrorFrame)
    /\ handler' = [handler EXCEPT ![c] = Listening(@)]
    /\ UNCHANGED <<minted, conns, open, toServer, daemon, cache, breaks, kills>>

(* fanOut: one recipient at a time; the connections are read under the      *)
(* lock, the frames are queued after it is released.                        *)
FanOut(c) ==
    /\ handler[c].at = "fanout" /\ handler[c].targets = {} /\ handler[c].people # <<>>
    /\ handler' = [handler EXCEPT ![c].people = Tail(@),
                                  ![c].targets = ConnsOf(Head(handler[c].people))]
    /\ UNCHANGED <<store, nextSeq, minted, conns, open, toServer, toClient, daemon,
                   cache, breaks, kills>>

RelayTo(c, t) ==
    /\ handler[c].at = "fanout" /\ t \in handler[c].targets
    /\ Send(t, MsgFrame(handler[c].msg, handler[c].num))
    /\ handler' = [handler EXCEPT ![c].targets = @ \ {t}]
    /\ UNCHANGED <<store, nextSeq, minted, conns, open, toServer, daemon, cache, breaks, kills>>

(* Then every connection of the sender is told the number, and the          *)
(* goroutine goes back to its read.                                         *)
AnswerSender(c) ==
    LET sender == ConnsOf(Peer(c))
    IN /\ handler[c].at = "fanout" /\ handler[c].targets = {} /\ handler[c].people = <<>>
       /\ handler' = [handler EXCEPT ![c] = IF sender = {} THEN Listening(@)
                                            ELSE [@ EXCEPT !.at = "answer", !.targets = sender]]
       /\ UNCHANGED <<store, nextSeq, minted, conns, open, toServer, toClient, daemon,
                      cache, breaks, kills>>

Answer(c, t) ==
    LET h == handler[c]
        left == h.targets \ {t}
    IN /\ h.at = "answer" /\ t \in h.targets
       /\ Send(t, SeqFrame(h.msg, h.num))
       /\ handler' = [handler EXCEPT ![c] = IF left = {} THEN Listening(h)
                                            ELSE [h EXCEPT !.targets = left]]
       /\ UNCHANGED <<store, nextSeq, minted, conns, open, toServer, daemon, cache, breaks, kills>>

(* The read fails and the goroutine ends. What the client wrote and was not *)
(* read is lost with the connection; how much, the network decides.         *)
HangUp(c) ==
    /\ handler[c].at = "read" /\ ~open[c]
    /\ conns' = conns \ {c}
    /\ handler' = [handler EXCEPT ![c] = Idle]
    /\ toServer' = [toServer EXCEPT ![c] = <<>>]
    /\ UNCHANGED <<store, nextSeq, minted, open, toClient, daemon, cache, breaks, kills>>

----------------------------------------------------------------------------
(* The client daemon: one session of linkLoop after another.               *)

(* Nobody holds on to the last connection that was in this slot.           *)
Unreferenced(c) ==
    /\ \A e \in Daemon : daemon[e].link # c
    /\ \A g \in Conn : c \notin handler[g].targets

(* session: dial, and send the hello with the cursor of this moment.       *)
Dial(d, c) ==
    /\ daemon[d].phase = "down"
    /\ handler[c].at = "free" /\ Unreferenced(c)
    /\ handler' = [handler EXCEPT ![c].at = "hello", ![c].owner = d,
                                  ![c].cursor = daemon[d].cursor]
    /\ open' = [open EXCEPT ![c] = TRUE]
    /\ daemon' = [daemon EXCEPT ![d].phase = "hello", ![d].link = c]
    /\ UNCHANGED <<store, nextSeq, minted, conns, toServer, toClient, cache, breaks, kills>>

(* The read loop takes the next frame, which is of this type.              *)
NextFrame(d) == Head(toClient[daemon[d].link])
Reads(d, type) ==
    LET c == daemon[d].link
    IN /\ c # None /\ toClient[c] # <<>> /\ daemon[d].flush = {}
       /\ Head(toClient[c]).t = type
       /\ toClient' = [toClient EXCEPT ![c] = Tail(@)]

(* The welcome: a reset throws the cursor away, and from here on Send       *)
(* writes to the connection.                                                *)
ReadWelcome(d) ==
    /\ daemon[d].phase = "hello" /\ Reads(d, "welcome")
    /\ daemon' = [daemon EXCEPT ![d].phase = "live",
                                ![d].cursor = IF NextFrame(d).reset THEN 0 ELSE @]
    /\ UNCHANGED <<store, nextSeq, minted, conns, handler, open, toServer, cache, breaks, kills>>

(* Daemon.onMessage: the cursor first, then the cache. Our own message is   *)
(* confirmed or filed, either way under this number; anybody else's is      *)
(* filed once.                                                              *)
ReadMessage(d) ==
    LET f == NextFrame(d)
    IN /\ daemon[d].phase = "live" /\ Reads(d, "msg")
       /\ daemon' = [daemon EXCEPT ![d].cursor = Larger(@, f.seq)]
       /\ cache' = [cache EXCEPT ![d][f.id] = IF Own(d, f.id) \/ @ = 0 THEN f.seq ELSE @]
       /\ UNCHANGED <<store, nextSeq, minted, conns, handler, open, toServer, breaks, kills>>

(* FrameSeq: Confirm overwrites the number of a message we hold.           *)
ReadSeq(d) ==
    LET f == NextFrame(d)
    IN /\ daemon[d].phase = "live" /\ Reads(d, "seq")
       /\ daemon' = [daemon EXCEPT ![d].cursor = Larger(@, f.seq)]
       /\ cache' = [cache EXCEPT ![d][f.id] = IF Holds(d, f.id) THEN f.seq ELSE @]
       /\ UNCHANGED <<store, nextSeq, minted, conns, handler, open, toServer, breaks, kills>>

(* Mutant of ReadSynced: what waits is left to the next message.           *)
ReadSyncedOnly(d) ==
    LET n == Larger(daemon[d].cursor, NextFrame(d).seq)
    IN /\ daemon[d].phase = "live" /\ Reads(d, "synced")
       /\ daemon' = [daemon EXCEPT ![d].cursor = n, ![d].saved = n]
       /\ UNCHANGED <<store, nextSeq, minted, conns, handler, open, toServer, cache, breaks, kills>>

(* FrameSynced: the cursor is saved, and what waits is flushed.            *)
ReadSynced(d) ==
    LET n == Larger(daemon[d].cursor, NextFrame(d).seq)
    IN /\ daemon[d].phase = "live" /\ Reads(d, "synced")
       /\ daemon' = [daemon EXCEPT ![d].cursor = n, ![d].saved = n, ![d].flush = Queued(d)]
       /\ UNCHANGED <<store, nextSeq, minted, conns, handler, open, toServer, cache, breaks, kills>>

(* FrameError names no message: there is nothing to mark.                  *)
ReadError(d) ==
    /\ daemon[d].phase = "live" /\ Reads(d, "error")
    /\ UNCHANGED <<store, nextSeq, minted, conns, handler, open, toServer, daemon,
                   cache, breaks, kills>>

(* flushQueue writes the oldest that is left, ...                          *)
FlushOne(d) ==
    /\ \E m \in daemon[d].flush :
          /\ \A o \in daemon[d].flush : ~Before(d, o, m)
          /\ Write(daemon[d].link, m)
          /\ daemon' = [daemon EXCEPT ![d].flush = @ \ {m}]
    /\ UNCHANGED <<store, nextSeq, minted, conns, handler, open, toClient, cache, breaks, kills>>

(* ... and gives up at the first write that fails.                         *)
FlushFails(d) ==
    /\ daemon[d].flush # {} /\ ~open[daemon[d].link]
    /\ daemon' = [daemon EXCEPT ![d].flush = {}]
    /\ UNCHANGED <<store, nextSeq, minted, conns, handler, open, toServer, toClient,
                   cache, breaks, kills>>

(* The read fails: the session is over. One that got past its welcome       *)
(* saves the cursor.                                                        *)
Drop(d) ==
    /\ daemon[d].phase # "down" /\ ~open[daemon[d].link] /\ daemon[d].flush = {}
    /\ daemon' = [daemon EXCEPT ![d].phase = "down", ![d].link = None,
                     ![d].saved = IF daemon[d].phase = "live" THEN daemon[d].cursor ELSE @]
    /\ toClient' = [toClient EXCEPT ![daemon[d].link] = <<>>]
    /\ UNCHANGED <<store, nextSeq, minted, conns, handler, open, toServer, cache, breaks, kills>>

(* Send: the message is in the cache and queued before anything is written. *)
Compose(d, m) ==
    /\ Author[m] = d /\ ~Holds(d, m)
    /\ daemon' = [daemon EXCEPT ![d].drafts = Append(@, m), ![d].unwritten = @ \cup {m}]
    /\ UNCHANGED <<store, nextSeq, minted, conns, handler, open, toServer, toClient,
                   cache, breaks, kills>>

(* sendMessage, on the goroutine of the front end that called Send.        *)
WriteComposed(d, m) ==
    /\ m \in daemon[d].unwritten
    /\ daemon' = [daemon EXCEPT ![d].unwritten = @ \ {m}]
    /\ IF daemon[d].phase = "live" THEN Write(daemon[d].link, m) ELSE UNCHANGED toServer
    /\ UNCHANGED <<store, nextSeq, minted, conns, handler, open, toClient, cache, breaks, kills>>

----------------------------------------------------------------------------
(* Faults.                                                                 *)

(* The network breaks a connection, or an end times out on it.             *)
Break(c) ==
    /\ breaks < MaxBreaks /\ open[c] /\ handler[c].owner \in Faulty
    /\ breaks' = breaks + 1
    /\ open' = [open EXCEPT ![c] = FALSE]
    /\ UNCHANGED <<store, nextSeq, minted, conns, handler, toServer, toClient, daemon,
                   cache, kills>>

(* A daemon is killed and started again: the history is on disk, the cursor *)
(* is what the file says.                                                   *)
Kill(d) ==
    LET c == daemon[d].link
    IN /\ kills < MaxKills /\ d \in Faulty /\ daemon[d].phase # "down"
       /\ kills' = kills + 1
       /\ open' = [open EXCEPT ![c] = FALSE]
       /\ toClient' = [toClient EXCEPT ![c] = <<>>]
       /\ daemon' = [daemon EXCEPT ![d] = [Fresh EXCEPT !.cursor = daemon[d].saved,
                                              !.saved = daemon[d].saved,
                                              !.drafts = daemon[d].drafts]]
       /\ UNCHANGED <<store, nextSeq, minted, conns, handler, toServer, cache, breaks>>

----------------------------------------------------------------------------
Enrolment(c) ==
    \/ Enrol(c) \/ EnrolFails(c) \/ Register(c)
    \/ Backfill(c) \/ Replay(c) \/ Synced(c)

Filing(c) ==
    \/ AnswerResend(c) \/ TakeMessage(c) \/ Mint(c) \/ File(c) \/ FileFails(c)
    \/ FanOut(c) \/ AnswerSender(c)
    \/ \E t \in Conn : RelayTo(c, t) \/ Answer(c, t)

Reading(d) ==
    \/ ReadWelcome(d) \/ ReadMessage(d) \/ ReadSeq(d) \/ ReadSynced(d) \/ ReadError(d)
    \/ FlushOne(d) \/ FlushFails(d) \/ Drop(d)

Next ==
    \/ \E c \in Conn : Enrolment(c) \/ Filing(c) \/ HangUp(c) \/ Break(c)
    \/ \E d \in Daemon : Reading(d) \/ Kill(d)
    \/ \E d \in Daemon, c \in Conn : Dial(d, c)
    \/ \E d \in Daemon, m \in Msg : Compose(d, m) \/ WriteComposed(d, m)

Spec == Init /\ [][Next]_vars

(* Go schedules every goroutine, linkLoop dials for ever, and a write or a  *)
(* read on a broken connection ends in an error. Nobody has to compose,     *)
(* and nothing has to break.                                                *)
Fairness ==
    /\ \A c \in Conn : WF_vars(Enrolment(c)) /\ WF_vars(Filing(c)) /\ WF_vars(HangUp(c))
    /\ \A d \in Daemon : WF_vars(Reading(d)) /\ WF_vars(\E c \in Conn : Dial(d, c))
    /\ \A d \in Daemon, m \in Msg : WF_vars(WriteComposed(d, m))

FairSpec == Spec /\ Fairness

----------------------------------------------------------------------------
(* Properties.                                                             *)

Places == {"free", "hello", "register", "backfill", "replay", "read", "mint",
           "append", "fanout", "answer"}

Goroutine == [at : Places, owner : Daemon \cup {None}, cursor : Nat, seq : Nat,
              reset : BOOLEAN, window : BOOLEAN, backlog : SUBSET [id : Msg, seq : Nat],
              msg : Msg \cup {None}, num : Nat, people : Seq(Person), targets : SUBSET Conn]

Client == [phase : {"down", "hello", "live"}, link : Conn \cup {None}, cursor : Nat,
           saved : Nat, drafts : Seq(Msg), unwritten : SUBSET Msg, flush : SUBSET Msg]

(* Every variable has its type: among others, no number or cursor that is   *)
(* computed from another is ever negative, and a goroutine never files      *)
(* "no message" (the records of Server, clientConn and Daemon).             *)
TypeOK ==
    /\ store \in [Msg -> Nat] /\ nextSeq \in Nat /\ minted \in Seq(Msg)
    /\ conns \subseteq Conn /\ handler \in [Conn -> Goroutine] /\ open \in [Conn -> BOOLEAN]
    /\ toServer \in [Conn -> Seq(Msg)] /\ toClient \in [Conn -> Seq(Frame)]
    /\ daemon \in [Daemon -> Client] /\ cache \in [Daemon -> [Msg -> Nat]]
    /\ breaks \in Nat /\ kills \in Nat

(* Where a message appears under a number: in the server's store, in a      *)
(* goroutine that is filing it, in a backlog, in a frame on the wire, in    *)
(* the cache of a daemon.                                                   *)
Filed(m, n) == n # 0 /\ store[m] = n
BeingFiled(m, n) == n # 0 /\ \E c \in Conn : handler[c].msg = m /\ handler[c].num = n
Replayed(m, n) == \E c \in Conn : [id |-> m, seq |-> n] \in handler[c].backlog
OnTheWire(m, n) == \E c \in Conn : \E i \in DOMAIN toClient[c] :
                       /\ toClient[c][i].t \in {"msg", "seq"}
                       /\ toClient[c][i].id = m /\ toClient[c][i].seq = n
Cached(m, n) == n # 0 /\ \E d \in Daemon : cache[d][m] = n

Bears(m, n) == Filed(m, n) \/ BeingFiled(m, n) \/ Replayed(m, n) \/ OnTheWire(m, n) \/ Cached(m, n)

(* A sequence number names one message, wherever it is seen: on the server, *)
(* on the wire, in any cache. "One machine decided that order" (Append's    *)
(* comment in chat/store.go) means nothing less.                            *)
SeqNamesOneMessage ==
    \A a, b \in Msg : \A n \in 1..nextSeq : Bears(a, n) /\ Bears(b, n) => a = b

(* The server, its goroutines and its clients together keep one ledger:     *)
(* whatever the interleaving, a number is handed out once, a message is     *)
(* filed once and under a number minted for it, and a client's cache        *)
(* changes only to such a number of a filed message.                        *)
Book == INSTANCE Ledger WITH Reader <- Daemon, filed <- store, copies <- cache
KeepsALedger == Book!Spec

(* What a client was told of, the server has filed: a message is appended   *)
(* to the store before anybody hears of it (onMessage), so a delivered      *)
(* message can be asked for again.                                          *)
CopiesAreFiled ==
    \A m \in Msg, n \in 1..nextSeq :
        Replayed(m, n) \/ OnTheWire(m, n) \/ Cached(m, n) => store[m] # 0

(* No client of this server holds a cursor the server has not reached, so   *)
(* none is ever told to throw its cursor away (reset in handleConn).        *)
CursorIsBelievable ==
    /\ \A d \in Daemon : daemon[d].saved <= daemon[d].cursor /\ daemon[d].cursor <= nextSeq
    /\ \A c \in Conn : ~handler[c].reset

(* "... the alternative is a window in which a message is sent neither way" *)
(* (backfill, chatserver/server.go): on a connection that is up and is      *)
(* replaying a delta, every filed message above the cursor of the hello is  *)
(* in the client's cache, on its way, or about to be sent.                  *)
Coming(c, m) ==
    \/ Holds(handler[c].owner, m)
    \/ handler[c].at = "backfill"
    \/ \E s \in handler[c].backlog : s.id = m
    \/ \E i \in DOMAIN toClient[c] : toClient[c][i].t = "msg" /\ toClient[c][i].id = m
    \/ \E g \in Conn : /\ handler[g].at = "fanout" /\ handler[g].msg = m
                       /\ \/ \E i \in DOMAIN handler[g].people : handler[g].people[i] = Peer(c)
                          \/ c \in handler[g].targets

NothingFallsBetween ==
    \A c \in conns, m \in Msg :
        ( /\ open[c] /\ daemon[handler[c].owner].link = c /\ ~handler[c].window
          /\ MayRead(Peer(c), m) /\ store[m] > handler[c].cursor )
        => Coming(c, m)

(* "Everyone who is not [connected] gets it from their cursor when they     *)
(* come back" (fanOut, chatserver/handle.go): a daemon without a link holds *)
(* every message filed at or below the cursor it will resume from.          *)
ResumeLosesNothing ==
    \A d \in Daemon, m \in Msg :
        ( /\ daemon[d].phase = "down" /\ MayRead(Identity[d], m)
          /\ store[m] # 0 /\ store[m] <= daemon[d].cursor )
        => Holds(d, m)

(* A composed message is delivered: the server's number for it comes back,  *)
(* however the connections break in between (flushQueue after synced).      *)
ComposedIsConfirmed ==
    \A m \in Msg : m \in Composed(Author[m]) ~> cache[Author[m]][m] # 0

(* A filed message reaches every daemon of everybody who may read it.       *)
FiledReachesEverybody ==
    \A d \in Daemon, m \in Msg :
        store[m] # 0 /\ MayRead(Identity[d], m) ~> cache[d][m] # 0

=============================================================================
