------------------------------- MODULE Outbox -------------------------------
(***************************************************************************)
(* One conversation in the store of a client daemon (chat.Store): the      *)
(* ordered list in memory, the journal of lines on disk, and the           *)
(* goroutines that change the one and append to the other in two steps.    *)
(* A front end composes (Daemon.Send), the link confirms, receives and     *)
(* flushes (Daemon.apply, flushQueue), a front end marks as read, and the  *)
(* daemon is killed and reads its journal again (Store.loadLog).           *)
(*                                                                         *)
(* What is abstracted: the server is the list of what it has sequenced,    *)
(* answers in the order in which it is asked (Relay models how it does     *)
(* not), and replays all that is above the cursor; nobody is blocked; the  *)
(* lines the daemon writes about itself (systemMessage) are not here.      *)
(***************************************************************************)
EXTENDS Integers, Sequences, FiniteSets, SequencesExt

CONSTANTS
    Own,       \* messages composed here
    Others,    \* messages of somebody else
    Sent,      \* the senders' clocks, which need not agree with anything
    MayFail,   \* the messages of ours whose line the disk may refuse
    MaxCalls,  \* bound: how many calls of Send are under way at once
    MaxFaults  \* bound: how many links break and daemons are killed

Msg == Own \cup Others

ASSUME OutboxAssumption ==
    /\ Own \cap Others = {} /\ Msg # {}
    /\ Sent \in [Msg -> Nat] /\ \A m, n \in Msg : Sent[m] = Sent[n] => m = n
    /\ MayFail \subseteq Own
    /\ MaxCalls \in Nat /\ MaxFaults \in Nat

VARIABLES
    alive,    \* is the daemon running?
    list,     \* Store.msgs of the conversation, in the order it is shown
    unread,   \* Store.unread of the conversation
    file,     \* the journal
    send,     \* where the call that composed each message is
    marking,  \* has MarkRead still to write its line?
    net,      \* the link: "down", "up", or "broken" and not yet noticed
    line,     \* the lines the link's goroutine has still to write: one or none
    flush,    \* what flushQueue has still to write
    cursor,   \* Daemon.cursor
    saved,    \* the cursor file
    ledger,   \* the messages the server has sequenced, in that order
    toDaemon, \* frames on their way to the daemon
    faults

store == <<list, unread>>
link == <<net, line, flush>>
vars == <<alive, store, file, send, marking, link, cursor, saved, ledger, toDaemon, faults>>

----------------------------------------------------------------------------
(* The list in memory.                                                     *)

Copy(m, seq, state, read) == [id |-> m, seq |-> seq, state |-> state, read |-> read]
Ids(l) == {l[i].id : i \in DOMAIN l}
IndexOf(l, m) == CHOOSE i \in DOMAIN l : l[i].id = m

(* The order every copy displays: what has no number yet comes last.       *)
Before(x, y) ==
    \/ x.seq # 0 /\ y.seq = 0
    \/ x.seq # 0 /\ x.seq < y.seq
    \/ x.seq = y.seq /\ Sent[x.id] < Sent[y.id]

InsertOrdered(l, c) ==
    LET places == {i \in 1 .. Len(l) + 1 : i \in DOMAIN l => ~Before(l[i], c)}
    IN InsertAt(l, Min(places), c)

SetState(l, m, state) == [l EXCEPT ![IndexOf(l, m)].state = state]

(* Mutant of Confirmed: the number does not move the message.              *)
ConfirmedInPlace(l, m, seq) ==
    [l EXCEPT ![IndexOf(l, m)].seq = seq, ![IndexOf(l, m)].state = "delivered"]

(* The number may move it: it is taken out and put where it belongs.       *)
Confirmed(l, m, seq) ==
    LET i == IndexOf(l, m)
    IN InsertOrdered(RemoveAt(l, i), [l[i] EXCEPT !.seq = seq, !.state = "delivered"])

(* The members of a finite set, in the order that op gives them.           *)
Sorted(S, op(_, _)) ==
    CHOOSE f \in [1 .. Cardinality(S) -> S] : \A i, j \in DOMAIN f : i < j => op(f[i], f[j])

(* Mutant of Queued: what was on the wire when a link broke stays there.   *)
QueuedOnly(l) ==
    LET ours == Sorted({i \in DOMAIN l : l[i].id \in Own /\ l[i].state = "queued"}, <)
    IN [k \in DOMAIN ours |-> l[ours[k]].id]

Queued(l) ==
    LET ours == Sorted({i \in DOMAIN l : l[i].id \in Own /\ l[i].state \in {"queued", "sending"}}, <)
    IN [k \in DOMAIN ours |-> l[ours[k]].id]

----------------------------------------------------------------------------
(* The journal: what its lines come to for each message, for the lines of  *)
(* different messages may stand in any order. A line files a message       *)
(* ("m"), gives it a state ("s") or a number ("q"), or says that all is    *)
(* read ("r"). What amends a message counts before its own line as well.   *)
(* What follows a torn line lands on that line, and neither can be parsed: *)
(* the journal is torn, and then it has swallowed a whole line.            *)

Line(k, m, seq, state) == [k |-> k, id |-> m, seq |-> seq, state |-> state]
MsgLine(c) == Line("m", c.id, c.seq, c.state)
ReadLine == Line("r", CHOOSE m \in Msg : TRUE, 0, "none")

Filed(f, l) ==
    [f EXCEPT ![l.id] =
        [here |-> TRUE, seq |-> IF @.seq = 0 THEN l.seq ELSE @.seq,
         state |-> IF @.state = "none" THEN l.state ELSE @.state]]

(* Mutant of Numbered: a line that amends a number gives the state only.   *)
StateOnly(f, l) == [f EXCEPT ![l.id].state = l.state]

Numbered(f, l) == [f EXCEPT ![l.id].seq = l.seq, ![l.id].state = l.state]

Written(f, l) ==
    IF f.torn THEN [f EXCEPT !.torn = FALSE, !.swallowed = TRUE]
    ELSE CASE l.k = "m" -> [f EXCEPT !.of = Filed(@, l)]
           [] l.k = "q" -> [f EXCEPT !.of = Numbered(@, l)]
           [] l.k = "s" -> [f EXCEPT !.of[l.id].state = l.state]
           [] l.k = "r" -> [f EXCEPT !.read = TRUE]

Blank == [of |-> [m \in Msg |-> [here |-> FALSE, seq |-> 0, state |-> "none"]],
          read |-> FALSE, torn |-> FALSE, swallowed |-> FALSE]
OnFile(f, m) == f.of[m].here

(* Mutant of LoadedState: what was on the wire counts as delivered.        *)
LoadedAsDelivered(f, m) == IF f.of[m].state = "sending" THEN "delivered" ELSE f.of[m].state

(* What was in flight when the daemon stopped is queued again.             *)
LoadedState(f, m) ==
    IF m \in Own /\ f.of[m].state = "sending" THEN "queued" ELSE f.of[m].state

Loaded(f) ==
    LET kept == {m \in Msg : OnFile(f, m)}
    IN Sorted({Copy(m, f.of[m].seq, LoadedState(f, m), m \in Own \/ f.read) : m \in kept}, Before)

(* Mutant of LoadedUnread: a conversation that was read is counted anew.   *)
LoadedAsUnread(f) == Cardinality({m \in Others : OnFile(f, m)})

LoadedUnread(f) == IF f.read THEN 0 ELSE Cardinality({m \in Others : OnFile(f, m)})

----------------------------------------------------------------------------
Init ==
    /\ alive = TRUE /\ list = <<>> /\ unread = 0 /\ file = Blank
    /\ send = [m \in Own |-> "idle"] /\ marking = FALSE
    /\ net = "down" /\ line = <<>> /\ flush = <<>> /\ cursor = 0 /\ saved = 0
    /\ ledger = <<>> /\ toDaemon = <<>>
    /\ faults = 0

At(m, place) == send' = [send EXCEPT ![m] = place]

----------------------------------------------------------------------------
(* The server gives a message its number and answers with it; a resend is  *)
(* answered with the number of the first time. It happens with the write:  *)
(* nobody here sees how long it takes, and a message that is lost on the   *)
(* way is a write into a link that is broken.                              *)

Frame(t, m, seq) == [t |-> t, id |-> m, seq |-> seq]
NumberOf(m) == CHOOSE i \in DOMAIN ledger : ledger[i] = m

Sequence(m) ==
    LET held == m \in Range(ledger)
    IN /\ ledger' = IF held THEN ledger ELSE Append(ledger, m)
       /\ toDaemon' = Append(toDaemon, Frame("seq", m, IF held THEN NumberOf(m) ELSE Len(ledger) + 1))

----------------------------------------------------------------------------
(* Daemon.Send, one call per message: into memory, onto disk, onto the     *)
(* wire if there is one, and only then is it marked as on the wire.        *)

UnderWay == {m \in Own : send[m] \in {"filed", "kept", "wired", "marked"}}

(* Mutant of Compose: the call begins before memory has the message.       *)
ComposeLater(m) ==
    /\ alive /\ send[m] = "idle" /\ Cardinality(UnderWay) < MaxCalls
    /\ At(m, "filed")
    /\ UNCHANGED <<alive, store, file, marking, link, cursor, saved, ledger, toDaemon, faults>>

Compose(m) ==
    /\ alive /\ send[m] = "idle" /\ Cardinality(UnderWay) < MaxCalls
    /\ list' = InsertOrdered(list, Copy(m, 0, "queued", TRUE))
    /\ At(m, "filed")
    /\ UNCHANGED <<alive, unread, file, marking, link, cursor, saved, ledger, toDaemon, faults>>

(* Mutant of Keep: the line is left for later.                             *)
KeepLater(m) ==
    /\ send[m] = "filed" /\ At(m, "kept")
    /\ UNCHANGED <<alive, store, file, marking, link, cursor, saved, ledger, toDaemon, faults>>

Keep(m) ==
    /\ send[m] = "filed" /\ At(m, "kept")
    /\ file' = Written(file, Line("m", m, 0, "queued"))
    /\ UNCHANGED <<alive, store, marking, link, cursor, saved, ledger, toDaemon, faults>>

(* The disk refuses the line, and Send says so: the message is in memory.  *)
Refuse(m) ==
    /\ send[m] = "filed" /\ m \in MayFail /\ At(m, "refused")
    /\ UNCHANGED <<alive, store, file, marking, link, cursor, saved, ledger, toDaemon, faults>>

(* A write into a connection that is already dead may seem to succeed.     *)
SendMessage(m) ==
    /\ send[m] = "kept"
    /\ \/ net = "up" /\ At(m, "wired") /\ Sequence(m)
       \/ net = "broken" /\ At(m, "wired") /\ UNCHANGED <<ledger, toDaemon>>
       \/ net \in {"down", "broken"} /\ At(m, "done") /\ UNCHANGED <<ledger, toDaemon>>
    /\ UNCHANGED <<alive, store, file, marking, link, cursor, saved, faults>>

Mark(m) ==
    /\ send[m] = "wired" /\ At(m, "marked")
    /\ list' = SetState(list, m, "sending")
    /\ UNCHANGED <<alive, unread, file, marking, link, cursor, saved, ledger, toDaemon, faults>>

MarkLine(m) ==
    /\ send[m] = "marked" /\ At(m, "done")
    /\ file' = Written(file, Line("s", m, 0, "sending"))
    /\ UNCHANGED <<alive, store, marking, link, cursor, saved, ledger, toDaemon, faults>>

----------------------------------------------------------------------------
(* The link's goroutine: one frame after the other, each folded into       *)
(* memory first and written to the journal next.                           *)

Idle == alive /\ line = <<>> /\ flush = <<>>
Larger(a, b) == IF a > b THEN a ELSE b

Reading(t) ==
    /\ Idle /\ net = "up" /\ toDaemon # <<>> /\ Head(toDaemon).t = t
    /\ toDaemon' = Tail(toDaemon)
    /\ cursor' = Larger(cursor, Head(toDaemon).seq)

(* The server's answer, or our own message coming back.                    *)
Confirm(m, seq) ==
    /\ m \in Ids(list)
    /\ list' = Confirmed(list, m, seq)
    /\ line' = <<Line("q", m, seq, "delivered")>>
    /\ UNCHANGED unread

(* Mutant of Receive: what arrives is not written to the journal.          *)
ReceiveUnfiled(c) ==
    /\ list' = IF c.id \in Ids(list) THEN list ELSE InsertOrdered(list, c)
    /\ unread' = IF c.id \in Own \cup Ids(list) THEN unread ELSE unread + 1
    /\ UNCHANGED line

(* Store.Append of what arrives: what we hold already is dropped.          *)
Receive(c) ==
    /\ list' = IF c.id \in Ids(list) THEN list ELSE InsertOrdered(list, c)
    /\ line' = IF c.id \in Ids(list) THEN <<>> ELSE <<MsgLine(c)>>
    /\ unread' = IF c.id \in Own \cup Ids(list) THEN unread ELSE unread + 1

ReadSeq ==
    /\ Reading("seq")
    /\ LET f == Head(toDaemon)
       IN \/ Confirm(f.id, f.seq)
          \/ f.id \notin Ids(list) /\ UNCHANGED <<store, line>>
    /\ UNCHANGED <<alive, file, send, marking, net, flush, saved, ledger, faults>>

ReadMessage ==
    /\ Reading("msg")
    /\ LET f == Head(toDaemon)
       IN \/ f.id \in Own /\ Confirm(f.id, f.seq)
          \/ f.id \in Own \ Ids(list) /\ Receive(Copy(f.id, f.seq, "delivered", TRUE))
          \/ f.id \in Others /\ Receive(Copy(f.id, f.seq, "none", FALSE))
    /\ UNCHANGED <<alive, file, send, marking, net, flush, saved, ledger, faults>>

ReadSynced ==
    /\ Reading("synced")
    /\ saved' = cursor' /\ flush' = Queued(list)
    /\ UNCHANGED <<alive, store, file, send, marking, net, line, ledger, faults>>

WriteLine ==
    /\ alive /\ line # <<>>
    /\ file' = Written(file, Head(line)) /\ line' = <<>>
    /\ UNCHANGED <<alive, store, send, marking, net, flush, cursor, saved, ledger, toDaemon, faults>>

(* Mutant of FlushNext: what is written is taken for delivered.            *)
FlushAsDelivered ==
    /\ alive /\ line = <<>> /\ flush # <<>>
    /\ \/ /\ net \in {"up", "broken"}
          /\ list' = SetState(list, Head(flush), "delivered")
          /\ line' = <<Line("s", Head(flush), 0, "delivered")>>
          /\ IF net = "up" THEN Sequence(Head(flush)) ELSE UNCHANGED <<ledger, toDaemon>>
          /\ flush' = Tail(flush)
       \/ /\ net = "broken" /\ flush' = <<>>
          /\ UNCHANGED <<list, line, ledger, toDaemon>>
    /\ UNCHANGED <<alive, unread, file, send, marking, net, cursor, saved, faults>>

(* flushQueue: writing and marking are one step here, for the answer is    *)
(* read by this goroutine. A write that fails ends the walk.               *)
FlushNext ==
    /\ alive /\ line = <<>> /\ flush # <<>>
    /\ \/ /\ net \in {"up", "broken"}
          /\ list' = SetState(list, Head(flush), "sending")
          /\ line' = <<Line("s", Head(flush), 0, "sending")>>
          /\ IF net = "up" THEN Sequence(Head(flush)) ELSE UNCHANGED <<ledger, toDaemon>>
          /\ flush' = Tail(flush)
       \/ /\ net = "broken" /\ flush' = <<>>
          /\ UNCHANGED <<list, line, ledger, toDaemon>>
    /\ UNCHANGED <<alive, unread, file, send, marking, net, cursor, saved, faults>>

(* The end of a session, once the goroutine has noticed.                   *)
Drop ==
    /\ Idle /\ net = "broken"
    /\ net' = "down" /\ saved' = cursor
    /\ UNCHANGED <<alive, store, file, send, marking, line, flush, cursor, ledger, toDaemon, faults>>

----------------------------------------------------------------------------
(* Store.MarkRead, for a front end.                                        *)
MarkRead ==
    /\ alive /\ ~marking /\ list # <<>>
    /\ list' = [i \in DOMAIN list |-> [list[i] EXCEPT !.read = TRUE]]
    /\ unread' = 0 /\ marking' = (unread > 0)
    /\ UNCHANGED <<alive, file, send, link, cursor, saved, ledger, toDaemon, faults>>

MarkReadLine ==
    /\ marking /\ marking' = FALSE
    /\ file' = Written(file, ReadLine)
    /\ UNCHANGED <<alive, store, send, link, cursor, saved, ledger, toDaemon, faults>>

----------------------------------------------------------------------------
(* Other people, the network and the disk.                                  *)

Speak(o) ==
    /\ o \notin Range(ledger)
    /\ ledger' = Append(ledger, o)
    /\ toDaemon' = IF net = "up" THEN Append(toDaemon, Frame("msg", o, Len(ledger) + 1)) ELSE toDaemon
    /\ UNCHANGED <<alive, store, file, send, marking, link, cursor, saved, faults>>

Connect ==
    /\ Idle /\ net = "down" /\ net' = "up"
    /\ toDaemon' = [i \in 1 .. Len(ledger) - cursor |->
                        Frame("msg", ledger[cursor + i], cursor + i)]
                   \o <<Frame("synced", CHOOSE m \in Msg : TRUE, Len(ledger))>>
    /\ UNCHANGED <<alive, store, file, send, marking, line, flush, cursor, saved, ledger, faults>>

Break ==
    /\ net = "up" /\ faults < MaxFaults
    /\ net' = "broken" /\ toDaemon' = <<>> /\ faults' = faults + 1
    /\ UNCHANGED <<alive, store, file, send, marking, line, flush, cursor, saved, ledger>>

----------------------------------------------------------------------------
(* The daemon is killed between any two steps, perhaps in the middle of a  *)
(* line, and reads its journal when it is started again.                   *)

Pending == marking \/ line # <<>> \/ \E m \in Own : send[m] \in {"filed", "marked"}

Kill ==
    /\ alive /\ faults < MaxFaults /\ faults' = faults + 1
    /\ alive' = FALSE /\ list' = <<>> /\ unread' = 0
    /\ \/ UNCHANGED file
       \/ Pending /\ file' = [file EXCEPT !.torn = TRUE]
    /\ send' = [m \in Own |-> IF send[m] \in {"idle", "done", "refused"} THEN send[m] ELSE "gone"]
    /\ marking' = FALSE /\ net' = "down" /\ line' = <<>> /\ flush' = <<>> /\ cursor' = 0
    /\ toDaemon' = <<>>
    /\ UNCHANGED <<saved, ledger>>

Restart ==
    /\ ~alive /\ alive' = TRUE
    /\ list' = Loaded(file) /\ unread' = LoadedUnread(file) /\ cursor' = saved
    /\ UNCHANGED <<file, send, marking, link, saved, ledger, toDaemon, faults>>

----------------------------------------------------------------------------
Sending(m) == Keep(m) \/ Refuse(m) \/ SendMessage(m) \/ Mark(m) \/ MarkLine(m)
Linking == ReadSeq \/ ReadMessage \/ ReadSynced \/ WriteLine \/ FlushNext \/ Drop \/ Connect

Next ==
    \/ \E m \in Own : Compose(m) \/ Sending(m)
    \/ Linking
    \/ \E o \in Others : Speak(o)
    \/ MarkRead \/ MarkReadLine
    \/ Break \/ Kill \/ Restart

Spec == Init /\ [][Next]_vars

(* Goroutines and the server get on with what they have begun, the link is *)
(* dialled again, and a daemon that died is started again. Nobody has to   *)
(* compose or speak.                                                       *)
FairSpec ==
    /\ Spec
    /\ \A m \in Own : WF_vars(Sending(m))
    /\ WF_vars(Linking) /\ WF_vars(MarkReadLine) /\ WF_vars(Restart)

----------------------------------------------------------------------------
(* Properties.                                                             *)

State == {"queued", "sending", "delivered", "none"}
CopyType == [id : Msg, seq : Nat, state : State, read : BOOLEAN]
LineType == [k : {"m", "s", "q", "r"}, id : Msg, seq : Nat, state : State]
FileType == [of : [Msg -> [here : BOOLEAN, seq : Nat, state : State]],
             read : BOOLEAN, torn : BOOLEAN, swallowed : BOOLEAN]

(* The type invariant; what a goroutine works on is there.                 *)
TypeOK ==
    /\ alive \in BOOLEAN /\ marking \in BOOLEAN
    /\ list \in Seq(CopyType) /\ unread \in Nat /\ file \in FileType
    /\ send \in [Own -> {"idle", "filed", "kept", "wired", "marked", "done", "refused", "gone"}]
    /\ net \in {"down", "up", "broken"} /\ line \in Seq(LineType) /\ flush \in Seq(Own)
    /\ cursor \in Nat /\ saved \in Nat
    /\ ledger \in Seq(Msg)
    /\ toDaemon \in Seq([t : {"msg", "seq", "synced"}, id : Msg, seq : Nat])
    /\ faults \in 0 .. MaxFaults
    /\ UnderWay # {} => alive
    /\ alive => UnderWay \subseteq Ids(list)

(* "Ordering is the server's sequence number, then the sender's clock"      *)
(* (Store.Append): the list a front end is given is in that order, and has *)
(* nothing twice, whatever was confirmed, resent or read back meanwhile.   *)
ShownInOrder ==
    \A i, j \in DOMAIN list : i < j => Before(list[i], list[j]) /\ list[i].id # list[j].id

(* A torn line is nobody's yet: it becomes somebody's when a whole line    *)
(* lands on it, and only then is something lost that was promised.         *)
Promised == ~file.swallowed

(* "what they typed is not lost" (Daemon.Send): a message that Send has    *)
(* accepted is in the journal, and in memory while there is one, through   *)
(* broken links, restarts and a line torn by the last of them.             *)
AcceptedIsKept ==
    Promised => \A m \in Own :
        send[m] = "done" => OnFile(file, m) /\ (alive => m \in Ids(list))

(* "Nothing optimistically assumes delivery" (docs/protocol.md): what is   *)
(* shown as delivered, now or after a restart, the server has sequenced.   *)
DeliveredIsFiled ==
    /\ \A i \in DOMAIN list : list[i].state = "delivered" => list[i].id \in Range(ledger)
    /\ \A m \in Own :
           OnFile(file, m) /\ LoadedState(file, m) = "delivered" => m \in Range(ledger)

(* Nothing is left to be written, and nobody was refused a line.           *)
Quiet == alive /\ Promised /\ ~Pending /\ \A m \in Own : send[m] # "refused"

(* The lines of one conversation may be written in another order than the  *)
(* one in which memory changed; once all are written, the journal still    *)
(* holds the messages of the list, in its order, with their numbers.       *)
JournalIsTheList ==
    Quiet => /\ Len(Loaded(file)) = Len(list)
             /\ \A i \in DOMAIN list :
                    Loaded(file)[i].id = list[i].id /\ Loaded(file)[i].seq = list[i].seq

(* The cursor file runs ahead of the journal for nobody else's message:    *)
(* the resume after a restart begins behind all that was lost.             *)
CursorIsBacked ==
    Promised => \A i \in 1 .. saved :
        ledger[i] \in Others => OnFile(file, ledger[i])

(* The badge counts the messages that are shown as unread.                 *)
BadgeIsTheUnread ==
    unread = Cardinality({i \in DOMAIN list : ~list[i].read})

(* What Send has accepted reaches the server, through broken links and     *)
(* restarts, without being composed again, unless its line is swallowed.   *)
AcceptedIsSequenced ==
    \A m \in Own : send[m] = "done" ~> (m \in Range(ledger) \/ ~Promised)
=============================================================================
