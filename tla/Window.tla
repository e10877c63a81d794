------------------------------- MODULE Window -------------------------------
(***************************************************************************)
(* The window of the graphical front end (chatui.session) and what it      *)
(* shows of a client daemon: events arrive on the client's reader, are     *)
(* posted to the one goroutine that may touch the window, and are handled  *)
(* there later, by calls that read the daemon again. Calls made for the    *)
(* person run beside it (async, markReadQuietly). The daemon goes away and *)
(* comes back (FrontEnd has how), without its transfers.                   *)
(*                                                                         *)
(* What is abstracted: a conversation is how many messages it has and how  *)
(* many of them are unread; conversations are with people, and are there   *)
(* from the start; names, presence, typing and the status line are left    *)
(* out. An event is on its way as soon as what it tells has changed, and   *)
(* the event that MarkRead sends and the window's own reload are one. A    *)
(* handler reads the daemon once: what changes between two of its calls    *)
(* has an event of its own.                                                *)
(***************************************************************************)
EXTENDS Integers, Sequences, FiniteSets, FiniteSetsExt

CONSTANTS
    Conv,       \* conversations
    Home,       \* the one the window opens on
    Transfer,   \* numbers of transfers offered to us, in the order of their time
    ConvOf,     \* the conversation of each
    None,
    MaxMsgs,    \* bound: how many messages arrive
    MaxRestarts, \* bound: how many times the daemon goes away
    MaxSteps,   \* bound: how many things the person does
    MaxQueue    \* bound: how much is posted when the daemon changes something

ASSUME WindowAssumption ==
    /\ Home \in Conv /\ IsFiniteSet(Transfer) /\ Transfer \subseteq Nat
    /\ ConvOf \in [Transfer -> Conv] /\ None \notin Conv \cup Transfer
    /\ {MaxMsgs, MaxRestarts, MaxSteps, MaxQueue} \subseteq Nat

VARIABLES
    up,       \* is there a daemon the window's client is attached to?
    held,     \* how many messages of each conversation the daemon holds
    unread,   \* how many of them count as unread
    row,      \* the daemon's row of each transfer
    restarts,
    queue,    \* what is posted to the window's goroutine
    current,  \* the conversation that is selected
    sidebar,  \* the unread counts the list shows
    screen,   \* the transcript: whose it is, and how many messages it shows
    rows,     \* the window's copies of the rows
    bar,      \* the offer the strip names, if it is visible
    asking,   \* the offer a dialog asks about
    marking,  \* the conversations markReadQuietly is about to mark
    answering, \* the answers that are on their way to the daemon
    steps

daemon == <<up, held, unread, row, restarts>>
shown == <<current, sidebar, screen, rows, bar, asking>>
calls == <<marking, answering, steps>>
vars == <<daemon, queue, shown, calls>>

(* The oldest offer that waits in a conversation.                          *)
Pending(rs, c) ==
    LET waiting == {t \in Transfer : rs[t] = "incoming" /\ ConvOf[t] = c}
    IN IF waiting = {} THEN None ELSE Min(waiting)

Init ==
    /\ up = TRUE /\ held = [c \in Conv |-> 0] /\ unread = [c \in Conv |-> 0]
    /\ row = [t \in Transfer |-> "none"] /\ restarts = 0 /\ queue = <<>>
    /\ current = Home /\ sidebar = unread /\ screen = [conv |-> Home, n |-> 0]
    /\ rows = row /\ bar = None /\ asking = None /\ marking = {} /\ answering = {} /\ steps = 0

Event(k, c, t, r) == [kind |-> k, conv |-> c, tr |-> t, row |-> r]
Plain(k) == Event(k, None, None, "none")

----------------------------------------------------------------------------
(* The daemon. What happens while nobody is attached is told to nobody.    *)

Small == Len(queue) < MaxQueue
Emit(e) == queue' = IF up THEN Append(queue, e) ELSE queue

(* Mutant of Message: a message that is held already is counted.           *)
MessageAgain(c) ==
    /\ Small
    /\ unread' = [unread EXCEPT ![c] = @ + 1]
    /\ Emit(Event("message", c, None, "none"))
    /\ UNCHANGED <<up, held, row, restarts, shown, calls>>

Message(c) ==
    /\ Small /\ MapThenSumSet(LAMBDA x : held[x], Conv) < MaxMsgs
    /\ held' = [held EXCEPT ![c] = @ + 1] /\ unread' = [unread EXCEPT ![c] = @ + 1]
    /\ Emit(Event("message", c, None, "none"))
    /\ UNCHANGED <<up, row, restarts, shown, calls>>

RowBecomes(t, r) ==
    /\ row' = [row EXCEPT ![t] = r]
    /\ Emit(Event("transfer", ConvOf[t], t, r))

Offer(t) ==
    /\ Small /\ up /\ row[t] = "none" /\ restarts = 0 /\ RowBecomes(t, "incoming")
    /\ UNCHANGED <<up, held, unread, restarts, shown, calls>>

(* The sender withdraws, or the file has come, or the link was lost.       *)
Over(t) ==
    /\ Small /\ row[t] \in {"incoming", "running"} /\ RowBecomes(t, "over")
    /\ UNCHANGED <<up, held, unread, restarts, shown, calls>>

(* The daemon keeps its transfers in memory only.                          *)
Detach ==
    /\ Small /\ up /\ restarts < MaxRestarts
    /\ up' = FALSE /\ restarts' = restarts + 1 /\ row' = [t \in Transfer |-> "none"]
    /\ queue' = Append(queue, Plain("down"))
    /\ UNCHANGED <<held, unread, shown, calls>>

Attach ==
    /\ ~up /\ up' = TRUE /\ queue' = Append(queue, Plain("up"))
    /\ UNCHANGED <<held, unread, row, restarts, shown, calls>>

----------------------------------------------------------------------------
(* Loading: a call fails while there is nobody to answer it, and leaves    *)
(* what is shown.                                                          *)

ReloadConvs == sidebar' = IF up THEN unread ELSE sidebar

ReloadMessages(c) ==
    screen' = IF up THEN [conv |-> c, n |-> held[c]] ELSE screen

DrawOfferBar(rs, c) == bar' = Pending(rs, c)

(* Mutant of ReloadTransfers: the strip is left as it is.                  *)
TakeTransfers == rows' = (IF up THEN row ELSE rows) /\ UNCHANGED bar

ReloadTransfers ==
    IF up THEN rows' = row /\ DrawOfferBar(row, current) ELSE UNCHANGED <<rows, bar>>

----------------------------------------------------------------------------
(* What is posted, one after the other (onEvent).                          *)

Handling(k) == queue # <<>> /\ Head(queue).kind = k /\ queue' = Tail(queue)

(* Mutant of OnMessage: who looks at it has still to read it.              *)
OnMessageUnread ==
    /\ Handling("message") /\ ReloadConvs
    /\ IF Head(queue).conv = current
       THEN /\ ReloadMessages(current)
            /\ IF up THEN DrawOfferBar(rows, current) ELSE UNCHANGED bar
       ELSE UNCHANGED <<screen, bar>>
    /\ UNCHANGED <<daemon, current, rows, asking, calls>>

OnMessage ==
    /\ Handling("message") /\ ReloadConvs
    /\ IF Head(queue).conv = current
       THEN /\ ReloadMessages(current) /\ marking' = marking \cup {current}
            /\ IF up THEN DrawOfferBar(rows, current) ELSE UNCHANGED bar
       ELSE UNCHANGED <<screen, bar, marking>>
    /\ UNCHANGED <<daemon, current, rows, asking, answering, steps>>

OnPeers ==
    /\ Handling("peers") /\ ReloadConvs
    /\ UNCHANGED <<daemon, current, screen, rows, bar, asking, calls>>

(* The row the event carries is taken over, whatever is newer.             *)
OnTransfer ==
    /\ Handling("transfer")
    /\ rows' = [rows EXCEPT ![Head(queue).tr] = Head(queue).row]
    /\ DrawOfferBar(rows', current) /\ ReloadMessages(current)
    /\ UNCHANGED <<daemon, current, sidebar, asking, calls>>

(* The end of an answer.                                                   *)
OnAnswered ==
    /\ Handling("answered") /\ ReloadTransfers
    /\ UNCHANGED <<daemon, current, sidebar, screen, asking, calls>>

OnDown ==
    /\ Handling("down")
    /\ UNCHANGED <<daemon, shown, calls>>

(* Mutant of OnUp: the window goes on with what it shows.                  *)
OnUpAgain ==
    /\ Handling("up")
    /\ UNCHANGED <<daemon, shown, calls>>

(* reloadAll.                                                              *)
OnUp ==
    /\ Handling("up") /\ ReloadTransfers /\ ReloadConvs /\ ReloadMessages(current)
    /\ UNCHANGED <<daemon, current, asking, calls>>

----------------------------------------------------------------------------
(* The person, and the calls made for the person.                          *)
Doing == steps < MaxSteps /\ steps' = steps + 1

Select(c) ==
    /\ asking = None /\ Doing /\ c # current /\ current' = c
    /\ ReloadMessages(c) /\ marking' = marking \cup {c}
    /\ IF up THEN DrawOfferBar(rows, c) ELSE UNCHANGED bar
    /\ UNCHANGED <<daemon, queue, sidebar, rows, asking, answering>>

MarkReadQuietly(c) ==
    /\ c \in marking /\ marking' = marking \ {c}
    /\ unread' = [unread EXCEPT ![c] = IF up THEN 0 ELSE @]
    /\ Emit(Plain("peers"))
    /\ UNCHANGED <<up, held, row, restarts, shown, answering, steps>>

(* acceptOffer and declineOffer answer the offer that waits here.          *)
Answer(yes) ==
    answering' = IF Pending(rows, current) = None THEN answering
                 ELSE answering \cup {[tr |-> Pending(rows, current), yes |-> yes]}

PressButton(yes) ==
    /\ asking = None /\ Doing /\ bar # None /\ Answer(yes)
    /\ UNCHANGED <<daemon, queue, shown, marking>>

(* Return on the row of a message that announced a file.                   *)
ActivateMessage(t) ==
    /\ asking = None /\ Doing /\ rows[t] = "incoming" /\ screen.conv = ConvOf[t] /\ asking' = t
    /\ UNCHANGED <<daemon, queue, current, sidebar, screen, rows, bar, marking, answering>>

Confirm(yes) ==
    /\ asking # None /\ asking' = None /\ Answer(yes)
    /\ UNCHANGED <<daemon, queue, current, sidebar, screen, rows, bar, marking, steps>>

(* What the daemon makes of it, and the end of the call.                   *)
Answered(a) ==
    /\ a \in answering /\ answering' = answering \ {a}
    /\ \/ /\ up /\ row[a.tr] = "incoming"
          /\ LET r == IF a.yes THEN "running" ELSE "over"
             IN /\ row' = [row EXCEPT ![a.tr] = r]
                /\ queue' = queue \o <<Event("transfer", ConvOf[a.tr], a.tr, r), Plain("answered")>>
       \/ /\ ~(up /\ row[a.tr] = "incoming")
          /\ queue' = Append(queue, Plain("answered")) /\ UNCHANGED row
    /\ UNCHANGED <<up, held, unread, restarts, shown, marking, steps>>

----------------------------------------------------------------------------
Handlers == OnMessage \/ OnPeers \/ OnTransfer \/ OnAnswered \/ OnDown \/ OnUp
Calling ==
    \/ \E c \in Conv : MarkReadQuietly(c)
    \/ \E a \in [tr : Transfer, yes : BOOLEAN] : Answered(a)

Person ==
    \/ \E c \in Conv : Select(c)
    \/ \E t \in Transfer : ActivateMessage(t)
    \/ \E yes \in BOOLEAN : PressButton(yes) \/ Confirm(yes)

Next ==
    \/ \E c \in Conv : Message(c)
    \/ \E t \in Transfer : Offer(t) \/ Over(t)
    \/ Detach \/ Attach \/ Handlers \/ Calling \/ Person

Spec == Init /\ [][Next]_vars

(* The window's loop and the calls get on. Nobody has to say, offer or do  *)
(* anything, and the daemon may stay away.                                 *)
FairSpec == Spec /\ WF_vars(Handlers) /\ WF_vars(Calling)

----------------------------------------------------------------------------
(* Properties.                                                             *)

(* The type invariant. Nothing is unread that is not there.                *)
TypeOK ==
    /\ up \in BOOLEAN /\ held \in [Conv -> Nat] /\ unread \in [Conv -> Nat]
    /\ \A c \in Conv : unread[c] <= held[c]
    /\ row \in [Transfer -> {"none", "incoming", "running", "over"}]
    /\ restarts \in 0 .. MaxRestarts
    /\ current \in Conv /\ sidebar \in [Conv -> Nat] /\ screen \in [conv : Conv, n : Nat]
    /\ rows \in [Transfer -> {"none", "incoming", "running", "over"}]
    /\ bar \in Transfer \cup {None} /\ asking \in Transfer \cup {None}
    /\ marking \subseteq Conv /\ answering \subseteq [tr : Transfer, yes : BOOLEAN]
    /\ steps \in 0 .. MaxSteps

(* The strip names the offer its buttons would answer, on every way the    *)
(* selection and the rows can change; but for a call that fails while the  *)
(* daemon is away.                                                         *)
BarIsPending == restarts = 0 => bar = Pending(rows, current)

(* In the end, if the daemon is there, the window shows what the daemon    *)
(* holds, though events were lost with it, and though the rows they carry  *)
(* are older than the ones the window has read meanwhile.                  *)
Settles ==
    <>[]up => <>[](/\ sidebar = unread /\ screen = [conv |-> current, n |-> held[current]]
                   /\ rows = row /\ bar = Pending(row, current))

(* "The window is open on this conversation, so the user is looking at it: *)
(* do not let it accrue an unread badge" (onEvent), while the daemon does  *)
(* not go away.                                                            *)
LookedAtIsRead == <>[](restarts = 0 => unread[current] = 0)

(* "On a row that announced a file it answers the offer" (activateMessage):*)
(* the answer is to the file the dialog asks about.                        *)
AskedIsAnswered ==
    [][asking # None /\ asking' = None =>
           \A a \in answering' \ answering : a.tr = asking]_vars
=============================================================================
