---------------------------- MODULE RelayProofs ----------------------------
(***************************************************************************)
(* What holds of Relay for any number of daemons, persons, messages and    *)
(* connections, however often connections break and daemons are killed:    *)
(* numbers name one message, clients only hear of filed messages, no       *)
(* cursor is ahead of the server, Relay implements Ledger, and nothing     *)
(* falls between a backlog and the live stream.                            *)
(***************************************************************************)
EXTENDS RelayTypes

----------------------------------------------------------------------------
(* Numbers. The inductive invariant says of every place where a number can  *)
(* be, that it was minted for the message it stands beside and, once it has *)
(* left the goroutine that is filing it, that the message is filed; and     *)
(* that no cursor, on either side, is ahead of the counter.                 *)

Names(n, m) == n \in 1..Len(minted) /\ minted[n] = m

Numbered == {s \in [id : Msg, seq : Nat] : Names(s.seq, s.id) /\ store[s.id] # 0}

GoodRoutine ==
    {h \in Filer :
        /\ IF h.at \in {"append", "fanout", "answer"} THEN Names(h.num, h.msg) ELSE h.num = 0
        /\ h.at \in {"fanout", "answer"} => store[h.msg] # 0
        /\ h.backlog \subseteq Numbered
        /\ h.cursor <= nextSeq /\ h.seq <= nextSeq /\ ~h.reset}

GoodFrame ==
    {f \in Frame :
        /\ f.t \in {"msg", "seq"} => f.id \in Msg /\ Names(f.seq, f.id) /\ store[f.id] # 0
        /\ f.seq <= nextSeq /\ ~f.reset}

GoodClient == {e \in Client : e.saved <= e.cursor /\ e.cursor <= nextSeq}

GoodStore == \A m \in Msg : store[m] # 0 => Names(store[m], m)

GoodCache ==
    \A d \in Daemon, m \in Msg : cache[d][m] # 0 => Names(cache[d][m], m) /\ store[m] # 0

LedgerInv ==
    /\ TypeInv /\ nextSeq = Len(minted) /\ GoodStore /\ GoodCache
    /\ handler \in [Conn -> GoodRoutine]
    /\ toClient \in [Conn -> Seq(GoodFrame)]
    /\ daemon \in [Daemon -> GoodClient]

(* Numbers are only added, and a filed message stays filed: then whatever   *)
(* was good stays good.                                                     *)
Grows ==
    /\ nextSeq' = Len(minted') /\ Len(minted) <= Len(minted')
    /\ \A n \in 1..Len(minted) : minted'[n] = minted[n]
    /\ \A m \in Msg : store[m] # 0 => store'[m] # 0

(* What is good stays good when numbers are minted, messages are filed and nothing is taken back. *)
LEMMA GoodStaysGood ==
  ASSUME LedgerInv, TypeInv', Grows
  PROVE  /\ \A n, m : Names(n, m) => Names(n, m)'
         /\ Numbered \subseteq Numbered' /\ GoodRoutine \subseteq GoodRoutine'
         /\ GoodFrame \subseteq GoodFrame' /\ GoodClient \subseteq GoodClient'
         /\ toClient \in [Conn -> Seq(GoodFrame')]
         /\ UNCHANGED store => GoodStore'
         /\ UNCHANGED cache => GoodCache'
<1>t. /\ minted \in Seq(Msg) /\ minted' \in Seq(Msg) /\ nextSeq \in Nat /\ nextSeq' \in Nat
      /\ nextSeq = Len(minted) /\ nextSeq <= nextSeq'
  BY DEF LedgerInv, TypeInv, TypeOK, Grows
<1>1. \A n, m : Names(n, m) => Names(n, m)'
  BY <1>t DEF Names, Grows
<1>2. \A s \in [id : Msg, seq : Nat] : s.id \in Msg /\ s.seq \in Nat
  OBVIOUS
<1>3. Numbered \subseteq Numbered'
  BY <1>1, <1>2 DEF Numbered, Grows
<1>4. \A h \in Filer : /\ h.cursor \in Nat /\ h.seq \in Nat
                       /\ h.at \in {"fanout", "answer"} => h.msg \in Msg
  BY DEF Filer, Goroutine
<1>5. GoodRoutine \subseteq GoodRoutine'
  <2> SUFFICES ASSUME NEW h \in GoodRoutine PROVE h \in GoodRoutine'
    OBVIOUS
  <2>1. h \in Filer /\ h.backlog \subseteq Numbered' /\ ~h.reset
    BY <1>3 DEF GoodRoutine
  <2>2. h.cursor <= nextSeq' /\ h.seq <= nextSeq'
    BY <1>t, <1>4 DEF GoodRoutine
  <2>3. h.at \in {"fanout", "answer"} => store'[h.msg] # 0
    BY <1>4 DEF GoodRoutine, Grows
  <2>4. IF h.at \in {"append", "fanout", "answer"} THEN Names(h.num, h.msg)' ELSE h.num = 0
    BY <1>1 DEF GoodRoutine
  <2> QED BY <2>1, <2>2, <2>3, <2>4 DEF GoodRoutine
<1>6. GoodFrame \subseteq GoodFrame'
  <2> SUFFICES ASSUME NEW f \in GoodFrame PROVE f \in GoodFrame'
    OBVIOUS
  <2>1. f \in Frame /\ f.seq \in Nat /\ f.seq <= nextSeq' /\ ~f.reset
    BY <1>t, FrameParts DEF GoodFrame
  <2>2. f.t \in {"msg", "seq"} => f.id \in Msg /\ Names(f.seq, f.id)' /\ store'[f.id] # 0
    BY <1>1 DEF GoodFrame, Grows
  <2> QED BY <2>1, <2>2 DEF GoodFrame
<1>7. GoodClient \subseteq GoodClient'
  BY <1>t, ClientParts DEF GoodClient
<1>8. toClient \in [Conn -> Seq(GoodFrame')]
  <2>1. \A q \in Seq(GoodFrame) : q \in Seq(GoodFrame')
    BY <1>6
  <2>2. toClient \in [Conn -> Seq(GoodFrame)]
    BY DEF LedgerInv
  <2> QED BY <2>1, <2>2
<1>9. UNCHANGED store => GoodStore'
  BY <1>t DEF LedgerInv, GoodStore, Names, Grows
<1>10. UNCHANGED cache => GoodCache'
  BY <1>t DEF LedgerInv, GoodCache, Names, Grows
<1> QED BY <1>1, <1>3, <1>5, <1>6, <1>7, <1>8, <1>9, <1>10

(* The initial state satisfies the inductive invariant.                    *)
LEMMA LedgerInit == Init => LedgerInv
<1> SUFFICES ASSUME Init PROVE LedgerInv
  OBVIOUS
<1>1. TypeInv
  BY TypeInit
<1>2. nextSeq = 0 /\ minted = <<>>
  BY DEF Init
<1>3. Idle \in GoodRoutine
  <2>1. Idle \in Filer
    BY DEF Idle, Filer, Goroutine, Places
  <2> QED BY <1>2, <2>1 DEF Idle, GoodRoutine
<1>4. Fresh \in GoodClient
  BY <1>2 DEF Fresh, GoodClient, Client
<1>5. toClient \in [Conn -> Seq(GoodFrame)]
  BY DEF Init
<1>6. handler \in [Conn -> GoodRoutine] /\ daemon \in [Daemon -> GoodClient]
  BY <1>3, <1>4 DEF Init
<1>7. \A m \in Msg : store[m] = 0 /\ \A d \in Daemon : cache[d][m] = 0
  BY DEF Init
<1> QED BY <1>1, <1>2, <1>5, <1>6, <1>7 DEF LedgerInv, GoodStore, GoodCache

(* A step that mints nothing and files nothing.                            *)
Quiet == UNCHANGED <<store, nextSeq, minted>>

(* A step that mints nothing and files nothing keeps the ledger as it is.  *)
LEMMA QuietStep ==
  ASSUME LedgerInv, TypeInv', Quiet,
         handler' \in [Conn -> GoodRoutine], toClient' \in [Conn -> Seq(GoodFrame)],
         daemon' \in [Daemon -> GoodClient],
         \A d \in Daemon, m \in Msg :
            cache'[d][m] # 0 => Names(cache'[d][m], m) /\ store[m] # 0
  PROVE  LedgerInv'
<1>2. GoodRoutine' = GoodRoutine /\ GoodFrame' = GoodFrame /\ GoodClient' = GoodClient
  BY DEF Quiet, Names, Numbered, GoodRoutine, GoodFrame, GoodClient
<1>3. nextSeq' = Len(minted') /\ GoodStore'
  BY DEF Quiet, LedgerInv, GoodStore, Names
<1>4. GoodCache'
  BY DEF Quiet, GoodCache, Names
<1> QED BY <1>2, <1>3, <1>4 DEF LedgerInv

(* The steps of the server keep the inductive invariant and are steps of the ledger. *)
LEMMA LedgerStepServer ==
  ASSUME LedgerInv, TypeInv', NEW c \in Conn, Enrolment(c) \/ Filing(c) \/ HangUp(c) \/ Break(c)
  PROVE  LedgerInv' /\ [Book!Next]_(Book!vars)
<1> DEFINE h == handler[c]
<1>t. /\ handler \in [Conn -> GoodRoutine] /\ toClient \in [Conn -> Seq(GoodFrame)]
      /\ daemon \in [Daemon -> GoodClient] /\ nextSeq \in Nat /\ nextSeq = Len(minted)
      /\ \A d \in Daemon, m \in Msg : cache[d][m] # 0 => Names(cache[d][m], m) /\ store[m] # 0
      /\ store \in [Msg -> Nat] /\ minted \in Seq(Msg)
      /\ \A m \in Msg : store[m] # 0 => Names(store[m], m)
  BY DEF LedgerInv, TypeInv, TypeOK, GoodStore, GoodCache
<1>h. /\ h \in GoodRoutine /\ h \in Filer
      /\ h.cursor \in Nat /\ h.seq \in Nat /\ h.num \in Nat /\ h.msg \in Msg \cup {None}
      /\ h.at \in {"mint", "append", "fanout", "answer"} => h.msg \in Msg
      /\ h.cursor <= nextSeq /\ h.seq <= nextSeq /\ ~h.reset /\ h.backlog \subseteq Numbered
      /\ h.at \in {"append", "fanout", "answer"} => Names(h.num, h.msg)
      /\ h.at \in {"fanout", "answer"} => store[h.msg] # 0
  BY <1>t, FilerParts DEF GoodRoutine
<1>i. Idle \in GoodRoutine
  <2>1. Idle \in Filer
    BY DEF Idle, Filer, Goroutine, Places
  <2> QED BY <1>t, <2>1 DEF Idle, GoodRoutine
<1>q. ASSUME Quiet, UNCHANGED <<daemon, cache>>, handler' \in [Conn -> GoodRoutine],
             toClient' \in [Conn -> Seq(GoodFrame)]
      PROVE  LedgerInv' /\ [Book!Next]_(Book!vars)
  <2>1. LedgerInv'
    BY <1>q, <1>t, QuietStep
  <2>2. UNCHANGED Book!vars
    BY <1>q DEF Quiet, Book!vars
  <2> QED BY <2>1, <2>2
<1>f. \A m \in Msg, n \in Nat : Names(n, m) /\ store[m] # 0 =>
         MsgFrame(m, n) \in GoodFrame /\ SeqFrame(m, n) \in GoodFrame
  <2>1. \A m \in Msg, n \in Nat : Names(n, m) => n <= nextSeq
    BY <1>t DEF Names
  <2> QED BY <1>t, <2>1, FramesTyped DEF MsgFrame, SeqFrame, GoodFrame
(* A goroutine that goes back to reading keeps what is good of it.         *)
<1>l. \A g \in GoodRoutine : Listening(g) \in GoodRoutine
  <2> TAKE g \in GoodRoutine
  <2>1. g \in Goroutine
    BY DEF GoodRoutine, Filer
  <2>2. Listening(g) \in Goroutine
    BY <2>1 DEF Goroutine, Places, Listening
  <2>3. /\ Listening(g).at = "read" /\ Listening(g).num = 0 /\ Listening(g).backlog = g.backlog
        /\ Listening(g).cursor = g.cursor /\ Listening(g).seq = g.seq /\ Listening(g).reset = g.reset
    BY <2>1 DEF Goroutine, Listening
  <2> QED BY <2>2, <2>3 DEF GoodRoutine, Filer
<1>1. CASE Enrol(c)
  <2>1. \A g \in GoodRoutine, n \in Nat : g.at = "hello" /\ n <= nextSeq =>
           [g EXCEPT !.at = "register", !.seq = n, !.reset = FALSE] \in GoodRoutine
    BY DEF GoodRoutine, Filer, Goroutine, Places
  <2>0. nextSeq <= nextSeq
    BY <1>t
  <2>2. (h.cursor > nextSeq) = FALSE
    BY <1>t, <1>h
  <2>3. handler' = [handler EXCEPT ![c].at = "register", ![c].seq = nextSeq, ![c].reset = FALSE]
        /\ Send(c, WelcomeFrame(FALSE)) /\ h.at = "hello"
    BY <1>1, <2>2 DEF Enrol
  <2>7. [h EXCEPT !.at = "register", !.seq = nextSeq, !.reset = FALSE] \in GoodRoutine
    BY <1>t, <1>h, <2>0, <2>1, <2>3
  <2>4. handler' \in [Conn -> GoodRoutine]
    BY <1>t, <2>3, <2>7
  <2>5. WelcomeFrame(FALSE) \in GoodFrame
    <3>1. WelcomeFrame(FALSE) \in Frame
      BY FramesTyped
    <3>2. 0 <= nextSeq
      BY <1>t
    <3> QED BY <3>1, <3>2 DEF WelcomeFrame, GoodFrame
  <2>6. toClient' \in [Conn -> Seq(GoodFrame)]
    BY <1>t, <2>3, <2>5, SendTyped
  <2> QED BY <1>1, <1>q, <2>4, <2>6 DEF Enrol, Quiet
<1>2. CASE EnrolFails(c) \/ HangUp(c)
  <2>1. handler' = [handler EXCEPT ![c] = Idle] /\ UNCHANGED <<toClient, daemon, cache>> /\ Quiet
    BY <1>2 DEF EnrolFails, HangUp, Quiet
  <2> QED BY <1>t, <1>i, <1>q, <2>1
<1>3. CASE Register(c)
  <2>1. \A g \in GoodRoutine : g.at = "register" => [g EXCEPT !.at = "backfill"] \in GoodRoutine
    BY DEF GoodRoutine, Filer, Goroutine, Places
  <2>2. handler' \in [Conn -> GoodRoutine]
    BY <1>3, <1>t, <1>h, <2>1 DEF Register
  <2> QED BY <1>3, <1>t, <1>q, <2>2 DEF Register, Quiet
<1>4. CASE Backfill(c)
  <2> DEFINE missed == VisibleSince(Peer(c), h.cursor)
             abandon == h.reset \/ Cardinality(missed) > MaxBacklog
             got == IF abandon THEN RecentWindow(Peer(c)) ELSE missed
  <2>1. \A g \in GoodRoutine, w \in BOOLEAN, b \in SUBSET Numbered :
           g.at = "backfill" =>
              [g EXCEPT !.at = "replay", !.window = w, !.backlog = b] \in GoodRoutine
    <3> TAKE g \in GoodRoutine, w \in BOOLEAN, b \in SUBSET Numbered
    <3> DEFINE g2 == [g EXCEPT !.at = "replay", !.window = w, !.backlog = b]
    <3>1. g \in Goroutine /\ b \in SUBSET [id : Msg, seq : Nat]
      BY DEF GoodRoutine, Filer, Numbered
    <3>2. g2 \in Goroutine
      BY <3>1 DEF Goroutine, Places
    <3>3. /\ g2.at = "replay" /\ g2.backlog = b /\ g2.num = g.num
          /\ g2.cursor = g.cursor /\ g2.seq = g.seq /\ g2.reset = g.reset
      BY <3>1 DEF Goroutine
    <3> HIDE DEF g2
    <3>4. g.at = "backfill" => g.num = 0
      BY DEF GoodRoutine
    <3>5. g.cursor <= nextSeq /\ g.seq <= nextSeq /\ ~g.reset
      BY DEF GoodRoutine
    <3>6. g.at = "backfill" => g2 \in GoodRoutine
      BY <3>2, <3>3, <3>4, <3>5 DEF GoodRoutine, Filer
    <3> QED BY <3>6 DEF g2
  <2>2. \A p, n : n \in Nat => VisibleSince(p, n) \subseteq Numbered
    BY <1>t DEF VisibleSince, Numbered
  <2>3. RecentWindow(Peer(c)) \subseteq Numbered
    BY <2>2 DEF RecentWindow
  <2>4. abandon \in BOOLEAN /\ got \in SUBSET Numbered
    BY <1>h, <2>2, <2>3
  <2>5. handler' = [handler EXCEPT ![c].at = "replay", ![c].window = abandon, ![c].backlog = got]
        /\ h.at = "backfill"
    BY <1>4 DEF Backfill
  <2>6. handler' \in [Conn -> GoodRoutine]
    BY <1>t, <1>h, <2>1, <2>4, <2>5
  <2> QED BY <1>4, <1>t, <1>q, <2>6 DEF Backfill, Quiet
<1>5. CASE Replay(c)
  <2>1. \A g \in GoodRoutine : \A s : [g EXCEPT !.backlog = @ \ {s}] \in GoodRoutine
    BY DEF GoodRoutine, Filer, Goroutine
  <2>2. PICK s \in h.backlog : /\ Send(c, MsgFrame(s.id, s.seq))
                               /\ handler' = [handler EXCEPT ![c].backlog = @ \ {s}]
    BY <1>5 DEF Replay
  <2>3. handler' \in [Conn -> GoodRoutine]
    BY <1>t, <1>h, <2>1, <2>2
  <2>4. s.id \in Msg /\ s.seq \in Nat /\ Names(s.seq, s.id) /\ store[s.id] # 0
    BY <1>h DEF Numbered
  <2>5. toClient' \in [Conn -> Seq(GoodFrame)]
    BY <1>t, <1>f, <2>2, <2>4, SendTyped
  <2> QED BY <1>5, <1>q, <2>3, <2>5 DEF Replay, Quiet
<1>6. CASE Synced(c)
  <2>1. \A g \in GoodRoutine : g.at = "replay" => [g EXCEPT !.at = "read"] \in GoodRoutine
    BY DEF GoodRoutine, Filer, Goroutine, Places
  <2>2. handler' \in [Conn -> GoodRoutine]
    BY <1>6, <1>t, <1>h, <2>1 DEF Synced
  <2>3. SyncedFrame(h.seq) \in GoodFrame
    BY <1>t, <1>h, FramesTyped DEF SyncedFrame, GoodFrame
  <2>4. toClient' \in [Conn -> Seq(GoodFrame)]
    BY <1>6, <1>t, <2>3, SendTyped DEF Synced
  <2> QED BY <1>6, <1>q, <2>2, <2>4 DEF Synced, Quiet
<1>7. CASE AnswerResend(c)
  <2> DEFINE m == Head(toServer[c])
  <2>1. m \in Msg
    BY <1>7, Queue DEF AnswerResend, LedgerInv, TypeInv, TypeOK
  <2>2. SeqFrame(m, store[m]) \in GoodFrame
    BY <1>7, <1>t, <1>f, <2>1 DEF AnswerResend
  <2>3. toClient' \in [Conn -> Seq(GoodFrame)]
    BY <1>7, <1>t, <2>2, SendTyped DEF AnswerResend
  <2> QED BY <1>7, <1>t, <1>q, <2>3 DEF AnswerResend, Quiet
<1>8. CASE TakeMessage(c)
  <2>1. \A g \in GoodRoutine, m \in Msg :
           g.at = "read" => [g EXCEPT !.at = "mint", !.msg = m] \in GoodRoutine
    BY DEF GoodRoutine, Filer, Goroutine, Places
  <2>2. Head(toServer[c]) \in Msg
    BY <1>8, Queue DEF TakeMessage, LedgerInv, TypeInv, TypeOK
  <2>3. handler' \in [Conn -> GoodRoutine]
    BY <1>8, <1>t, <1>h, <2>1, <2>2 DEF TakeMessage
  <2> QED BY <1>8, <1>t, <1>q, <2>3 DEF TakeMessage, Quiet
<1>9. CASE FanOut(c)
  <2>1. \A g \in GoodRoutine, q \in Seq(Person), s \in SUBSET Conn :
           [g EXCEPT !.people = q, !.targets = s] \in GoodRoutine
    BY DEF GoodRoutine, Filer, Goroutine
  <2>2. Tail(h.people) \in Seq(Person) /\ ConnsOf(Head(h.people)) \in SUBSET Conn
    BY <1>9, <1>h, FilerParts, Queue DEF FanOut, ConnsOf, LedgerInv, TypeInv, TypeOK
  <2>3. handler' \in [Conn -> GoodRoutine]
    BY <1>9, <1>t, <1>h, <2>1, <2>2 DEF FanOut
  <2> QED BY <1>9, <1>t, <1>q, <2>3 DEF FanOut, Quiet
<1>10. CASE AnswerSender(c)
  <2>1. \A g \in GoodRoutine, s \in SUBSET Conn :
           g.at = "fanout" => /\ Listening(g) \in GoodRoutine
                              /\ [g EXCEPT !.at = "answer", !.targets = s] \in GoodRoutine
    <3> TAKE g \in GoodRoutine, s \in SUBSET Conn
    <3> DEFINE g2 == [g EXCEPT !.at = "answer", !.targets = s]
    <3>1. g \in Goroutine
      BY DEF GoodRoutine, Filer
    <3>2. g2 \in Goroutine
      BY <3>1 DEF Goroutine, Places
    <3>3. /\ g2.at = "answer" /\ g2.backlog = g.backlog /\ g2.num = g.num /\ g2.msg = g.msg
          /\ g2.cursor = g.cursor /\ g2.seq = g.seq /\ g2.reset = g.reset
      BY <3>1 DEF Goroutine
    <3> HIDE DEF g2
    <3>4. g.at = "fanout" => g2 \in GoodRoutine
      BY <3>2, <3>3 DEF GoodRoutine, Filer
    <3> QED BY <1>l, <3>4 DEF g2
  <2>2. ConnsOf(Peer(c)) \in SUBSET Conn
    BY DEF ConnsOf, LedgerInv, TypeInv, TypeOK
  <2>3. handler' \in [Conn -> GoodRoutine]
    BY <1>10, <1>t, <1>h, <2>1, <2>2 DEF AnswerSender
  <2> QED BY <1>10, <1>t, <1>q, <2>3 DEF AnswerSender, Quiet
<1>11. CASE \E t \in Conn : RelayTo(c, t)
  <2>1. PICK t \in Conn : RelayTo(c, t)
    BY <1>11
  <2>2. \A g \in GoodRoutine : \A x : [g EXCEPT !.targets = @ \ {x}] \in GoodRoutine
    BY DEF GoodRoutine, Filer, Goroutine
  <2>3. handler' \in [Conn -> GoodRoutine]
    BY <1>t, <1>h, <2>1, <2>2 DEF RelayTo
  <2>4. MsgFrame(h.msg, h.num) \in GoodFrame
    BY <1>h, <1>f, <2>1 DEF RelayTo
  <2>5. toClient' \in [Conn -> Seq(GoodFrame)]
    BY <1>t, <2>1, <2>4, SendTyped DEF RelayTo
  <2> QED BY <1>q, <2>1, <2>3, <2>5 DEF RelayTo, Quiet
<1>12. CASE \E t \in Conn : Answer(c, t)
  <2>1. PICK t \in Conn : Answer(c, t)
    BY <1>12
  <2> DEFINE left == h.targets \ {t}
             r == IF left = {} THEN Listening(h) ELSE [h EXCEPT !.targets = left]
  <2>2. \A g \in GoodRoutine : \A x : g.at = "answer" =>
           /\ Listening(g) \in GoodRoutine
           /\ [g EXCEPT !.targets = g.targets \ {x}] \in GoodRoutine
    <3>1. \A g \in GoodRoutine : \A x : [g EXCEPT !.targets = g.targets \ {x}] \in GoodRoutine
      BY DEF GoodRoutine, Filer, Goroutine
    <3> QED BY <1>l, <3>1
  <2>3. handler' = [handler EXCEPT ![c] = r] /\ h.at = "answer"
    BY <2>1 DEF Answer
  <2>4. r \in GoodRoutine
    BY <1>h, <2>2, <2>3
  <2>5. handler' \in [Conn -> GoodRoutine]
    BY <1>t, <2>3, <2>4, OneEntry
  <2>6. SeqFrame(h.msg, h.num) \in GoodFrame
    BY <1>h, <1>f, <2>3
  <2>7. toClient' \in [Conn -> Seq(GoodFrame)]
    BY <1>t, <2>1, <2>6, SendTyped DEF Answer
  <2> QED BY <1>q, <2>1, <2>5, <2>7 DEF Answer, Quiet
<1>13. CASE Break(c)
  BY <1>13, <1>t, <1>q DEF Break, Quiet
<1>14. CASE Mint(c)
  <2>1. h.msg \in Msg /\ h.at = "mint"
    BY <1>14, <1>h DEF Mint
  <2>2. minted' = Append(minted, h.msg) /\ nextSeq' = nextSeq + 1
    BY <1>14 DEF Mint
  <2>4. /\ Len(minted') = Len(minted) + 1 /\ nextSeq + 1 \in 1..Len(minted')
        /\ minted'[nextSeq + 1] = h.msg /\ \A n \in 1..Len(minted) : minted'[n] = minted[n]
    BY <1>t, <2>1, <2>2
  <2>3. Grows
    <3>1. UNCHANGED store
      BY <1>14 DEF Mint
    <3> QED BY <1>t, <2>2, <2>4, <3>1 DEF Grows
  <2>5. \A g \in GoodRoutine', n \in Nat :
           g.at = "mint" /\ g.msg \in Msg /\ n \in 1..Len(minted') /\ minted'[n] = g.msg =>
              [g EXCEPT !.at = "append", !.num = n] \in GoodRoutine'
    BY DEF GoodRoutine, Filer, Goroutine, Places, Names
  <2>u. UNCHANGED <<store, toClient, daemon, cache>>
    BY <1>14 DEF Mint
  <2>6. handler \in [Conn -> GoodRoutine'] /\ daemon' \in [Daemon -> GoodClient']
        /\ toClient' \in [Conn -> Seq(GoodFrame')] /\ GoodStore' /\ GoodCache'
    <3>1. /\ GoodRoutine \subseteq GoodRoutine' /\ GoodClient \subseteq GoodClient'
          /\ toClient \in [Conn -> Seq(GoodFrame')] /\ GoodStore' /\ GoodCache'
      BY <2>3, <2>u, GoodStaysGood
    <3> QED BY <1>t, <2>u, <3>1
  <2>7. [h EXCEPT !.at = "append", !.num = nextSeq + 1] \in GoodRoutine'
    <3>1. h \in GoodRoutine' /\ nextSeq + 1 \in Nat
      BY <1>t, <2>6
    <3> HIDE DEF h
    <3> QED BY <2>1, <2>4, <2>5, <3>1
  <2>8. handler' \in [Conn -> GoodRoutine']
    BY <1>14, <2>6, <2>7 DEF Mint
  <2>11. LedgerInv'
    BY <2>3, <2>6, <2>8 DEF LedgerInv, Grows
  <2>12. Book!Mint(h.msg)
    BY <1>14, <2>2 DEF Mint, Book!Mint
  <2> QED BY <2>1, <2>11, <2>12 DEF Book!Next
<1>15. CASE File(c) \/ FileFails(c)
  <2>1. h.msg \in Msg /\ h.at = "append" /\ Names(h.num, h.msg) /\ FileInMemory(h.msg, h.num)
        /\ UNCHANGED <<minted, daemon, cache>>
    BY <1>15, <1>h DEF File, FileFails
  <2>2. nextSeq' = nextSeq /\ h.num # 0
    BY <1>t, <1>h, <2>1 DEF Names, FileInMemory, Larger
  <2>3. store'[h.msg] # 0 /\ \A m \in Msg : store[m] # 0 => store'[m] = store[m]
    BY <1>t, <2>1, <2>2 DEF FileInMemory
  <2>4. Grows
    BY <1>t, <2>1, <2>2, <2>3 DEF Grows
  <2>5. handler \in [Conn -> GoodRoutine'] /\ daemon' \in [Daemon -> GoodClient']
        /\ toClient \in [Conn -> Seq(GoodFrame')] /\ GoodCache'
    <3>1. /\ GoodRoutine \subseteq GoodRoutine' /\ GoodClient \subseteq GoodClient'
          /\ toClient \in [Conn -> Seq(GoodFrame')] /\ GoodCache'
      BY <2>1, <2>4, GoodStaysGood
    <3> QED BY <1>t, <2>1, <3>1
  <2>6. GoodStore'
    BY <1>t, <2>1, <2>2 DEF FileInMemory, Names, GoodStore
  <2>7. handler' \in [Conn -> GoodRoutine'] /\ toClient' \in [Conn -> Seq(GoodFrame')]
    <3>1. CASE File(c)
      <4>1. \A g \in GoodRoutine', q \in Seq(Person) :
               g.at = "append" /\ g.msg \in Msg /\ store'[g.msg] # 0 =>
                  [g EXCEPT !.at = "fanout", !.people = q] \in GoodRoutine'
        BY DEF GoodRoutine, Filer, Goroutine, Places
      <4>2. Recipients[h.msg] \in Seq(Person)
        BY <2>1, ConstantsAssumption DEF ConstantsAssumption
      <4>3. handler' \in [Conn -> GoodRoutine']
        BY <3>1, <2>1, <2>3, <2>5, <4>1, <4>2 DEF File
      <4> QED BY <3>1, <2>5, <4>3 DEF File
    <3>2. CASE FileFails(c)
      <4>1. \A g \in GoodRoutine' : Listening(g) \in GoodRoutine'
        BY DEF GoodRoutine, Filer, Goroutine, Places, Listening
      <4>2. handler' \in [Conn -> GoodRoutine']
        BY <3>2, <2>5, <4>1 DEF FileFails
      <4>3. ErrorFrame \in GoodFrame'
        BY <1>t, <2>2, FramesTyped DEF GoodFrame, ErrorFrame
      <4> QED BY <3>2, <2>5, <4>2, <4>3, SendTyped DEF FileFails
    <3> QED BY <1>15, <3>1, <3>2
  <2>9. LedgerInv'
    BY <2>4, <2>5, <2>6, <2>7 DEF LedgerInv, Grows
  <2>10. Book!File(h.msg) \/ UNCHANGED Book!vars
    <3>1. CASE store[h.msg] # 0
      BY <2>1, <3>1 DEF FileInMemory, Book!vars
    <3>2. CASE store[h.msg] = 0
      BY <1>t, <2>1, <3>2 DEF FileInMemory, Names, Book!File, Book!Names
    <3> QED BY <3>1, <3>2
  <2> QED BY <2>1, <2>9, <2>10 DEF Book!Next
<1> QED
  BY <1>1, <1>2, <1>3, <1>4, <1>5, <1>6, <1>7, <1>8, <1>9, <1>10, <1>11, <1>12, <1>13,
     <1>14, <1>15 DEF Enrolment, Filing

(* The steps of the client daemons and the faults do as well.              *)
LEMMA LedgerStepClient ==
  ASSUME LedgerInv, TypeInv', NEW d \in Daemon,
         \/ Reading(d) \/ Kill(d)
         \/ \E c \in Conn : Dial(d, c)
         \/ \E m \in Msg : Compose(d, m) \/ WriteComposed(d, m)
  PROVE  LedgerInv' /\ [Book!Next]_(Book!vars)
<1> DEFINE e == daemon[d]
<1>t. /\ handler \in [Conn -> GoodRoutine] /\ toClient \in [Conn -> Seq(GoodFrame)]
      /\ daemon \in [Daemon -> GoodClient] /\ nextSeq \in Nat /\ nextSeq = Len(minted)
      /\ store \in [Msg -> Nat] /\ cache \in [Daemon -> [Msg -> Nat]] /\ minted \in Seq(Msg)
      /\ \A x \in Daemon, m \in Msg : cache[x][m] # 0 => Names(cache[x][m], m) /\ store[m] # 0
  BY DEF LedgerInv, TypeInv, TypeOK, GoodCache
<1>e. /\ e \in GoodClient /\ e \in Client /\ e.link \in Conn \cup {None}
      /\ e.cursor \in Nat /\ e.saved \in Nat /\ e.saved <= e.cursor /\ e.cursor <= nextSeq
  BY <1>t, ClientParts DEF GoodClient
<1>u. Quiet /\ (UNCHANGED <<store, minted, cache>> => UNCHANGED Book!vars)
  BY DEF Quiet, Book!vars, Reading, ReadWelcome, ReadMessage, ReadSeq, ReadSynced, ReadError,
         FlushOne, FlushFails, Drop, Kill, Dial, Compose, WriteComposed
<1>q. ASSUME UNCHANGED cache, handler' \in [Conn -> GoodRoutine],
             toClient' \in [Conn -> Seq(GoodFrame)], daemon' \in [Daemon -> GoodClient]
      PROVE  LedgerInv' /\ [Book!Next]_(Book!vars)
  <2>1. LedgerInv'
    BY <1>q, <1>t, <1>u, QuietStep
  <2> QED BY <1>q, <1>u, <2>1 DEF Quiet
<1>r. ASSUME NEW type, Reads(d, type)
      PROVE  /\ NextFrame(d) \in GoodFrame /\ NextFrame(d).t = type
             /\ NextFrame(d).seq \in Nat /\ NextFrame(d).seq <= nextSeq /\ ~NextFrame(d).reset
             /\ toClient' \in [Conn -> Seq(GoodFrame)]
  <2>1. e.link \in Conn /\ toClient[e.link] # <<>> /\ NextFrame(d).t = type
        /\ toClient' = [toClient EXCEPT ![e.link] = Tail(@)]
    BY <1>r, <1>e DEF Reads, NextFrame
  <2>2. Head(toClient[e.link]) \in GoodFrame /\ Tail(toClient[e.link]) \in Seq(GoodFrame)
    BY <2>1, <1>t, Queue
  <2>3. NextFrame(d) \in GoodFrame
    BY <2>2 DEF NextFrame
  <2>4. NextFrame(d).seq \in Nat /\ NextFrame(d).seq <= nextSeq /\ ~NextFrame(d).reset
    BY <2>3, FrameParts DEF GoodFrame
  <2>5. toClient' \in [Conn -> Seq(GoodFrame)]
    BY <1>t, <2>1, <2>2
  <2> QED BY <2>1, <2>3, <2>4, <2>5
<1>1. CASE \E c \in Conn : Dial(d, c)
  <2>1. PICK c \in Conn : Dial(d, c)
    BY <1>1
  <2>2. \A g \in GoodRoutine, n \in Nat : g.at = "free" /\ n <= nextSeq =>
           [g EXCEPT !.at = "hello", !.owner = d, !.cursor = n] \in GoodRoutine
    BY DEF GoodRoutine, Filer, Goroutine, Places
  <2>3. \A x \in GoodClient : [x EXCEPT !.phase = "hello", !.link = c] \in GoodClient
    BY DEF GoodClient, Client
  <2>4. [handler[c] EXCEPT !.at = "hello", !.owner = d, !.cursor = e.cursor] \in GoodRoutine
    BY <1>t, <1>e, <2>1, <2>2 DEF Dial
  <2>5. [e EXCEPT !.phase = "hello", !.link = c] \in GoodClient
    BY <1>e, <2>3
  <2>6. handler' \in [Conn -> GoodRoutine]
    BY <2>1, <2>4, <1>t DEF Dial
  <2>7. daemon' \in [Daemon -> GoodClient]
    BY <2>1, <2>5, <1>t DEF Dial
  <2> QED BY <2>1, <2>6, <2>7, <1>t, <1>q DEF Dial
<1>2. CASE ReadWelcome(d)
  <2>1. \A x \in GoodClient : [x EXCEPT !.phase = "live"] \in GoodClient
    BY DEF GoodClient, Client
  <2>2. ~NextFrame(d).reset /\ toClient' \in [Conn -> Seq(GoodFrame)]
    BY <1>2, <1>r DEF ReadWelcome
  <2>3. \A x \in GoodClient : [x EXCEPT !.phase = "live", !.cursor = x.cursor] \in GoodClient
    BY DEF GoodClient, Client
  <2>4. [e EXCEPT !.phase = "live", !.cursor = e.cursor] \in GoodClient
    BY <1>e, <2>3
  <2>5. daemon' = [daemon EXCEPT ![d] = [e EXCEPT !.phase = "live", !.cursor = e.cursor]]
    BY <1>2, <2>2 DEF ReadWelcome
  <2>6. daemon' \in [Daemon -> GoodClient]
    BY <1>t, <2>4, <2>5
  <2> QED BY <1>2, <1>t, <1>q, <2>2, <2>6 DEF ReadWelcome
<1>3. CASE ReadMessage(d) \/ ReadSeq(d)
  <2> DEFINE f == NextFrame(d)
  <2>1. /\ f \in GoodFrame /\ f.t \in {"msg", "seq"} /\ f.seq \in Nat /\ f.seq <= nextSeq
        /\ toClient' \in [Conn -> Seq(GoodFrame)]
    BY <1>3, <1>r DEF ReadMessage, ReadSeq
  <2>2. f.id \in Msg /\ Names(f.seq, f.id) /\ store[f.id] # 0
    BY <2>1 DEF GoodFrame
  <2>3. daemon' = [daemon EXCEPT ![d].cursor = Larger(@, f.seq)]
    BY <1>3 DEF ReadMessage, ReadSeq
  <2>4. \A x \in GoodClient, n \in Nat : x.cursor <= n /\ n <= nextSeq =>
           [x EXCEPT !.cursor = n] \in GoodClient
    <3>1. \A x \in Client, n \in Nat :
             LET y == [x EXCEPT !.cursor = n]
             IN y \in Client /\ y.cursor = n /\ y.saved = x.saved
      BY DEF Client
    <3>2. \A x \in GoodClient, n \in Nat : x.cursor <= n => x.saved <= n /\ x \in Client
      BY ClientParts DEF GoodClient
    <3> QED BY <3>1, <3>2 DEF GoodClient
  <2> DEFINE n == Larger(e.cursor, f.seq)
  <2>n. n \in Nat /\ e.cursor <= n /\ n <= nextSeq
    BY <1>e, <1>t, <2>1 DEF Larger
  <2>5. daemon' \in [Daemon -> GoodClient]
    <3>1. [e EXCEPT !.cursor = n] \in GoodClient
      BY <1>e, <2>4, <2>n
    <3>2. daemon' = [daemon EXCEPT ![d] = [e EXCEPT !.cursor = n]]
      BY <2>3
    <3> QED BY <1>t, <3>1, <3>2
  <2>6. UNCHANGED cache \/ cache' = [cache EXCEPT ![d][f.id] = f.seq]
    <3>1. CASE ReadMessage(d)
      BY <3>1, <1>t DEF ReadMessage
    <3>2. CASE ReadSeq(d)
      BY <3>2, <1>t DEF ReadSeq
    <3> QED BY <1>3, <3>1, <3>2
  <2>7. handler' = handler
    BY <1>3 DEF ReadMessage, ReadSeq
  <2>8. CASE UNCHANGED cache
    BY <1>t, <1>q, <2>1, <2>5, <2>7, <2>8
  <2>9. CASE cache' = [cache EXCEPT ![d][f.id] = f.seq]
    <3>1. \A x \in Daemon, m \in Msg :
             cache'[x][m] # 0 => Names(cache'[x][m], m) /\ store[m] # 0
      BY <1>t, <2>2, <2>9
    <3>2. LedgerInv'
      BY <1>t, <1>u, <2>1, <2>5, <2>7, <3>1, QuietStep
    <3>3. Book!Learn(d, f.id)
      <4>1. f.seq \in DOMAIN minted /\ Book!Names(f.seq, f.id)
        BY <1>t, <2>2 DEF Names, Book!Names
      <4>2. UNCHANGED <<minted, store>>
        BY <1>u DEF Quiet
      <4> HIDE DEF f
      <4> QED BY <4>1, <4>2, <2>2, <2>9 DEF Book!Learn
    <3> QED BY <2>2, <3>2, <3>3 DEF Book!Next
  <2> QED BY <2>6, <2>8, <2>9
<1>4. CASE ReadSynced(d)
  <2> DEFINE n == Larger(e.cursor, NextFrame(d).seq)
  <2>1. NextFrame(d).seq \in Nat /\ NextFrame(d).seq <= nextSeq
        /\ toClient' \in [Conn -> Seq(GoodFrame)]
    BY <1>4, <1>r DEF ReadSynced
  <2>2. n \in Nat /\ n <= nextSeq
    BY <1>t, <1>e, <2>1 DEF Larger
  <2> DEFINE y == [e EXCEPT !.cursor = n, !.saved = n, !.flush = Queued(d)]
  <2>3. \A x \in Client, k \in Nat, q \in SUBSET Msg :
           LET z == [x EXCEPT !.cursor = k, !.saved = k, !.flush = q]
           IN z \in Client /\ z.cursor = k /\ z.saved = k
    BY DEF Client
  <2>4. Queued(d) \in SUBSET Msg /\ n <= n
    BY <1>e, <2>2, ClientParts DEF Queued, Composed
  <2>r. y \in Client /\ y.cursor = n /\ y.saved = n
    BY <1>e, <2>2, <2>3, <2>4
  <2>5. y \in GoodClient
    BY <2>2, <2>4, <2>r DEF GoodClient
  <2>6. daemon' \in [Daemon -> GoodClient]
    BY <1>4, <1>t, <2>5 DEF ReadSynced
  <2> QED BY <1>4, <1>t, <1>q, <2>1, <2>6 DEF ReadSynced
<1>5. CASE ReadError(d)
  BY <1>5, <1>t, <1>q, <1>r DEF ReadError
<1>6. CASE FlushOne(d)
  <2>1. \A x \in GoodClient : \A m : [x EXCEPT !.flush = @ \ {m}] \in GoodClient
    BY DEF GoodClient, Client
  <2>2. PICK m \in e.flush : daemon' = [daemon EXCEPT ![d].flush = @ \ {m}]
    BY <1>6 DEF FlushOne
  <2>3. daemon' \in [Daemon -> GoodClient]
    BY <1>t, <1>e, <2>1, <2>2
  <2> QED BY <1>6, <1>t, <1>q, <2>3 DEF FlushOne
<1>7. CASE FlushFails(d)
  <2>1. \A x \in GoodClient : [x EXCEPT !.flush = {}] \in GoodClient
    BY DEF GoodClient, Client
  <2>2. daemon' \in [Daemon -> GoodClient]
    BY <1>7, <1>t, <1>e, <2>1 DEF FlushFails
  <2> QED BY <1>7, <1>t, <1>q, <2>2 DEF FlushFails
<1>8. CASE Drop(d)
  <2>1. \A x \in GoodClient, k \in Nat : k <= x.cursor =>
           [x EXCEPT !.phase = "down", !.link = None, !.saved = k] \in GoodClient
    BY DEF GoodClient, Client
  <2> DEFINE k == IF e.phase = "live" THEN e.cursor ELSE e.saved
  <2>k. k \in Nat /\ k <= e.cursor
    BY <1>e
  <2>2. [e EXCEPT !.phase = "down", !.link = None, !.saved = k] \in GoodClient
    BY <1>e, <2>1, <2>k
  <2>3. daemon' \in [Daemon -> GoodClient]
    BY <1>8, <1>t, <2>2 DEF Drop
  <2>4. <<>> \in Seq(GoodFrame)
    OBVIOUS
  <2>5. toClient' \in [Conn -> Seq(GoodFrame)]
    BY <1>8, <1>t, <2>4, AnyEntry DEF Drop
  <2> QED BY <1>8, <1>t, <1>q, <2>3, <2>5 DEF Drop
<1>9. CASE \E m \in Msg : Compose(d, m)
  <2>1. PICK m \in Msg : Compose(d, m)
    BY <1>9
  <2>2. \A x \in GoodClient, q \in Seq(Msg), u \in SUBSET Msg :
           [x EXCEPT !.drafts = q, !.unwritten = u] \in GoodClient
    BY DEF GoodClient, Client
  <2>3. Append(e.drafts, m) \in Seq(Msg) /\ e.unwritten \cup {m} \in SUBSET Msg
    BY <1>e, ClientParts, Queue
  <2>4. [e EXCEPT !.drafts = Append(@, m), !.unwritten = @ \cup {m}] \in GoodClient
    BY <1>e, <2>2, <2>3
  <2>5. daemon' \in [Daemon -> GoodClient]
    BY <1>t, <2>1, <2>4 DEF Compose
  <2> QED BY <1>t, <1>q, <2>1, <2>5 DEF Compose
<1>10. CASE \E m \in Msg : WriteComposed(d, m)
  <2>1. PICK m \in Msg : WriteComposed(d, m)
    BY <1>10
  <2>2. \A x \in GoodClient : [x EXCEPT !.unwritten = @ \ {m}] \in GoodClient
    BY DEF GoodClient, Client
  <2>3. daemon' \in [Daemon -> GoodClient]
    BY <1>t, <1>e, <2>1, <2>2 DEF WriteComposed
  <2> QED BY <1>t, <1>q, <2>1, <2>3 DEF WriteComposed
<1>11. CASE Kill(d)
  <2> DEFINE y == [Fresh EXCEPT !.cursor = e.saved, !.saved = e.saved, !.drafts = e.drafts]
  <2>1. \A k \in Nat, q \in Seq(Msg) :
           LET x == [Fresh EXCEPT !.cursor = k, !.saved = k, !.drafts = q]
           IN x \in Client /\ x.cursor = k /\ x.saved = k
    BY DEF Fresh, Client
  <2>2. e.saved <= nextSeq /\ e.saved <= e.saved /\ e.drafts \in Seq(Msg)
    BY <1>t, <1>e, ClientParts
  <2>r. y \in Client /\ y.cursor = e.saved /\ y.saved = e.saved
    BY <1>e, <2>1, <2>2
  <2>3. y \in GoodClient
    BY <2>2, <2>r DEF GoodClient
  <2>4. daemon' \in [Daemon -> GoodClient]
    BY <1>11, <1>t, <2>3 DEF Kill
  <2>5. <<>> \in Seq(GoodFrame)
    OBVIOUS
  <2>6. toClient' \in [Conn -> Seq(GoodFrame)]
    BY <1>11, <1>t, <2>5, AnyEntry DEF Kill
  <2> QED BY <1>11, <1>t, <1>q, <2>4, <2>6 DEF Kill
<1> QED
  BY <1>1, <1>2, <1>3, <1>4, <1>5, <1>6, <1>7, <1>8, <1>9, <1>10, <1>11 DEF Reading

(* Every step of Relay does.                                               *)
LEMMA LedgerStep ==
  ASSUME LedgerInv, [Next]_vars
  PROVE  LedgerInv' /\ [Book!Next]_(Book!vars)
<1>1. TypeInv'
  BY TypeStep DEF LedgerInv
<1>2. CASE UNCHANGED vars
  <2>1. Quiet /\ UNCHANGED <<handler, toClient, daemon, cache>>
    BY <1>2 DEF vars, Quiet
  <2>2. LedgerInv'
    BY <1>1, <2>1, QuietStep DEF LedgerInv, GoodCache
  <2> QED BY <2>1, <2>2 DEF Quiet, Book!vars
<1>3. CASE Next
  BY <1>1, <1>3, LedgerStepServer, LedgerStepClient DEF Next
<1> QED BY <1>2, <1>3

----------------------------------------------------------------------------
(* What follows.                                                           *)

(* The server, its goroutines and the clients together keep a ledger.      *)
THEOREM ImplementsLedger == Spec => KeepsALedger
<1>1. Init => LedgerInv /\ Book!Init
  BY LedgerInit DEF Init, Book!Init
<1> QED BY <1>1, LedgerStep, PTL DEF Spec, KeepsALedger, Book!Spec

(* The inductive invariant holds in every reachable state.                 *)
LEMMA LedgerAlways == Spec => []LedgerInv
  BY LedgerInit, LedgerStep, PTL DEF Spec

(* A sequence number never names two messages, wherever it is seen.        *)
THEOREM OneMessagePerNumber == Spec => []SeqNamesOneMessage
<1>1. LedgerInv => SeqNamesOneMessage
  <2> SUFFICES ASSUME LedgerInv PROVE SeqNamesOneMessage
    OBVIOUS
  <2>1. /\ handler \in [Conn -> GoodRoutine] /\ toClient \in [Conn -> Seq(GoodFrame)]
        /\ GoodStore /\ GoodCache /\ store \in [Msg -> Nat]
    BY DEF LedgerInv, TypeInv, TypeOK
  <2>2. ASSUME NEW m \in Msg, NEW n, n # 0, Bears(m, n) PROVE Names(n, m)
    <3>1. CASE Filed(m, n)
      BY <3>1, <2>1 DEF Filed, GoodStore
    <3>2. CASE BeingFiled(m, n)
      BY <3>2, <2>1 DEF BeingFiled, GoodRoutine
    <3>3. CASE Replayed(m, n)
      <4>1. PICK c \in Conn : [id |-> m, seq |-> n] \in handler[c].backlog
        BY <3>3 DEF Replayed
      <4>2. [id |-> m, seq |-> n] \in Numbered
        BY <2>1, <4>1 DEF GoodRoutine
      <4> QED BY <4>2 DEF Numbered
    <3>4. CASE OnTheWire(m, n)
      <4>1. PICK c \in Conn : \E i \in DOMAIN toClient[c] :
               toClient[c][i].t \in {"msg", "seq"} /\ toClient[c][i].id = m /\ toClient[c][i].seq = n
        BY <3>4 DEF OnTheWire
      <4>2. \A i \in DOMAIN toClient[c] : toClient[c][i] \in GoodFrame
        BY <2>1
      <4> QED BY <4>1, <4>2 DEF GoodFrame
    <3>5. CASE Cached(m, n)
      BY <3>5, <2>1 DEF Cached, GoodCache
    <3> QED BY <2>2, <3>1, <3>2, <3>3, <3>4, <3>5 DEF Bears
  <2> QED BY <2>2 DEF SeqNamesOneMessage, Names
<1> QED BY <1>1, LedgerAlways, PTL

(* Whatever a client was told of, the server has filed.                    *)
THEOREM CopiesFiled == Spec => []CopiesAreFiled
<1>1. LedgerInv => CopiesAreFiled
  <2> SUFFICES ASSUME LedgerInv, NEW m \in Msg, NEW n \in 1..nextSeq,
                      Replayed(m, n) \/ OnTheWire(m, n) \/ Cached(m, n)
               PROVE  store[m] # 0
    BY DEF CopiesAreFiled
  <2>1. /\ handler \in [Conn -> GoodRoutine] /\ toClient \in [Conn -> Seq(GoodFrame)] /\ GoodCache
    BY DEF LedgerInv
  <2>2. CASE Replayed(m, n)
    <3>1. PICK c \in Conn : [id |-> m, seq |-> n] \in handler[c].backlog
      BY <2>2 DEF Replayed
    <3>2. [id |-> m, seq |-> n] \in Numbered
      BY <2>1, <3>1 DEF GoodRoutine
    <3> QED BY <3>2 DEF Numbered
  <2>3. CASE OnTheWire(m, n)
    <3>1. PICK c \in Conn : \E i \in DOMAIN toClient[c] :
             toClient[c][i].t \in {"msg", "seq"} /\ toClient[c][i].id = m
      BY <2>3 DEF OnTheWire
    <3>2. \A i \in DOMAIN toClient[c] : toClient[c][i] \in GoodFrame
      BY <2>1
    <3> QED BY <3>1, <3>2 DEF GoodFrame
  <2>4. CASE Cached(m, n)
    BY <2>4, <2>1 DEF Cached, GoodCache
  <2> QED BY <2>2, <2>3, <2>4
<1> QED BY <1>1, LedgerAlways, PTL

(* No client ever holds a cursor ahead of the server, and none is reset.   *)
THEOREM CursorsBelievable == Spec => []CursorIsBelievable
<1>1. LedgerInv => CursorIsBelievable
  BY DEF LedgerInv, CursorIsBelievable, GoodClient, GoodRoutine
<1> QED BY <1>1, LedgerAlways, PTL

----------------------------------------------------------------------------
(* No window between backlog and live stream. A connection belongs to one   *)
(* daemon at a time, a goroutine that serves somebody knows whom, and it is *)
(* registered before it reads the backlog. With that, the property is       *)
(* inductive: what is coming to a client only moves from one place of       *)
(* Coming to the next, and what is filed anew is about to be fanned out.    *)

LinksInv ==
    /\ \A d, e \in Daemon : daemon[d].link = daemon[e].link /\ daemon[d].link # None => d = e
    /\ \A c \in Conn : handler[c].at # "free" => handler[c].owner \in Daemon
    /\ \A c \in conns : handler[c].at \notin {"free", "hello", "register"}

(* What is owed to a connection, and the places where it may be.            *)
Owed(c, m) ==
    /\ open[c] /\ daemon[handler[c].owner].link = c /\ ~handler[c].window
    /\ MayRead(Peer(c), m) /\ store[m] > handler[c].cursor
Listed(c, m) == \E s \in handler[c].backlog : s.id = m
Sent(c, m) == \E i \in DOMAIN toClient[c] : toClient[c][i].t = "msg" /\ toClient[c][i].id = m
Telling(g, c, m) ==
    /\ handler[g].at = "fanout" /\ handler[g].msg = m
    /\ \/ \E i \in DOMAIN handler[g].people : handler[g].people[i] = Peer(c)
       \/ c \in handler[g].targets

(* The places of Coming, by their names.                                    *)
LEMMA ComingIs ==
  ASSUME NEW c, NEW m
  PROVE  /\ Coming(c, m) <=> \/ Holds(handler[c].owner, m) \/ handler[c].at = "backfill"
                             \/ Listed(c, m) \/ Sent(c, m) \/ \E g \in Conn : Telling(g, c, m)
         /\ Coming(c, m)' <=> \/ Holds(handler[c].owner, m)' \/ handler'[c].at = "backfill"
                              \/ Listed(c, m)' \/ Sent(c, m)' \/ \E g \in Conn : Telling(g, c, m)'
BY DEF Coming, Listed, Sent, Telling

(* A frame that is on its way stays so when another is put behind it, and a *)
(* message that is sent on an open connection is on its way.                *)
LEMMA StaysSent ==
  ASSUME LedgerInv, NEW t \in Conn, NEW f \in Frame, Send(t, f)
  PROVE  /\ \A c \in Conn : \A m : Sent(c, m) => Sent(c, m)'
         /\ f.t = "msg" /\ open[t] => Sent(t, f.id)'
<1>1. toClient \in [Conn -> Seq(Frame)]
  BY DEF LedgerInv, TypeInv, TypeOK
<1>2. \A c \in Conn : toClient'[c] = toClient[c] \/ toClient'[c] = Append(toClient[c], f)
  BY <1>1 DEF Send
<1>3. ASSUME NEW q \in Seq(Frame)
      PROVE  /\ \A i \in DOMAIN q : i \in DOMAIN Append(q, f) /\ Append(q, f)[i] = q[i]
             /\ Len(q) + 1 \in DOMAIN Append(q, f) /\ Append(q, f)[Len(q) + 1] = f
  OBVIOUS
<1>4. ASSUME NEW c \in Conn, NEW m, Sent(c, m) PROVE Sent(c, m)'
  <2>1. CASE toClient'[c] = toClient[c]
    BY <1>4, <2>1 DEF Sent
  <2>2. CASE toClient'[c] = Append(toClient[c], f)
    BY <1>1, <1>3, <1>4, <2>2 DEF Sent
  <2> QED BY <1>2, <2>1, <2>2
<1>5. ASSUME f.t = "msg", open[t] PROVE Sent(t, f.id)'
  <2>1. toClient'[t] = Append(toClient[t], f)
    BY <1>1, <1>5 DEF Send
  <2> QED BY <1>1, <1>3, <1>5, <2>1 DEF Sent
<1> QED BY <1>4, <1>5

(* The steps of a goroutine of the server. Only a file that fails to be     *)
(* written leaves a message filed that nobody is told of.                   *)
LEMMA ComingStepServer ==
  ASSUME LedgerInv, LinksInv, NothingFallsBetween, ~DiskMayFail, NEW g \in Conn,
         Enrolment(g) \/ Filing(g) \/ HangUp(g) \/ Break(g)
  PROVE  NothingFallsBetween'
<1> DEFINE h == handler[g]
<1>t. /\ handler \in [Conn -> Filer] /\ conns \subseteq Conn /\ store \in [Msg -> Nat]
      /\ open \in [Conn -> BOOLEAN] /\ h \in Filer
  BY DEF LedgerInv, TypeInv, TypeOK
<1>p. h.people \in Seq(Person)
  BY <1>t, FilerParts
<1>l. \A c \in conns : handler[c].at \notin {"free", "hello", "register"}
  BY DEF LinksInv
<1> SUFFICES ASSUME NEW c \in conns', NEW m \in Msg, Owed(c, m)'
             PROVE  Coming(c, m)'
  BY DEF NothingFallsBetween, Owed
<1>u. /\ UNCHANGED <<daemon, cache>> /\ conns' \subseteq conns \cup {g}
      /\ \A x \in Conn : x # g => handler'[x] = handler[x]
  BY <1>t DEF Enrolment, Enrol, EnrolFails, Register, Backfill, Replay, Synced, Filing, AnswerResend,
              TakeMessage, Mint, File, FileFails, FanOut, RelayTo, AnswerSender, Answer, HangUp, Break
<1>c. c \in Conn /\ (c \in conns \/ c = g)
  BY <1>t, <1>u
<1>k. ASSUME c \in conns, UNCHANGED <<store[m], open[c]>>,
             /\ handler'[c].owner = handler[c].owner /\ handler'[c].cursor = handler[c].cursor
             /\ handler'[c].window = handler[c].window,
             handler[c].at = "backfill" => handler'[c].at = "backfill",
             Sent(c, m) => Sent(c, m)', Listed(c, m) => Listed(c, m)' \/ Sent(c, m)',
             Telling(g, c, m) => Telling(g, c, m)' \/ Sent(c, m)'
      PROVE  Coming(c, m)'
  <2>1. Owed(c, m)
    BY <1>k, <1>u DEF Owed, Peer
  <2>2. Coming(c, m)
    BY <1>k, <2>1 DEF NothingFallsBetween, Owed
  <2>3. Holds(handler[c].owner, m) => Holds(handler[c].owner, m)'
    BY <1>k, <1>u DEF Holds, Composed
  <2>4. \A x \in Conn : x # g /\ Telling(x, c, m) => Telling(x, c, m)'
    BY <1>k, <1>u DEF Telling, Peer
  <2> QED BY <1>k, <2>2, <2>3, <2>4, ComingIs
(* Of the other connections, a goroutine that is not fanning out keeps all. *)
<1>o. ASSUME c # g, UNCHANGED <<store[m], open[c]>>, h.at # "fanout", Sent(c, m) => Sent(c, m)'
      PROVE  Coming(c, m)'
  <2>1. handler'[c] = handler[c] /\ c \in conns /\ ~Telling(g, c, m)
    BY <1>o, <1>u, <1>c DEF Telling
  <2>2. Listed(c, m) => Listed(c, m)'
    BY <2>1 DEF Listed
  <2> QED BY <1>k, <1>o, <2>1, <2>2
<1>1. CASE Enrol(g)
  <2>0. (h.cursor > nextSeq) \in BOOLEAN
    OBVIOUS
  <2>1. WelcomeFrame(h.cursor > nextSeq) \in Frame
    BY <2>0, FramesTyped
  <2>2. Sent(c, m) => Sent(c, m)'
    BY <1>1, <1>c, <2>1, StaysSent DEF Enrol
  <2>3. c # g
    BY <1>1, <1>l DEF Enrol
  <2> QED BY <1>1, <1>o, <2>2, <2>3 DEF Enrol
<1>2. CASE EnrolFails(g) \/ HangUp(g)
  <2>1. c # g /\ h.at # "fanout" /\ UNCHANGED <<store, open, toClient>>
    BY <1>2, <1>l DEF EnrolFails, HangUp
  <2> QED BY <1>o, <2>1 DEF Sent
<1>3. CASE Register(g)
  <2>1. h.at = "register" /\ UNCHANGED <<store, open, toClient>> /\ handler'[g].at = "backfill"
    BY <1>3, <1>t DEF Register
  <2>2. CASE c = g
    BY <2>1, <2>2, ComingIs
  <2>3. CASE c # g
    BY <1>o, <2>1, <2>3 DEF Sent
  <2> QED BY <2>2, <2>3
<1>4. CASE Backfill(g)
  <2>1. h.at = "backfill" /\ UNCHANGED <<store, open, toClient>>
    BY <1>4 DEF Backfill
  <2>2. CASE c = g
    <3> DEFINE missed == VisibleSince(Peer(g), h.cursor)
               abandon == h.reset \/ Cardinality(missed) > MaxBacklog
    <3>1. handler'[g] = [h EXCEPT !.at = "replay", !.window = abandon,
                                  !.backlog = IF abandon THEN RecentWindow(Peer(g)) ELSE missed]
      BY <1>4, <1>t DEF Backfill
    <3>2. \A x \in Filer : \A w, b : LET y == [x EXCEPT !.at = "replay", !.window = w, !.backlog = b]
             IN y.window = w /\ y.backlog = b /\ y.owner = x.owner /\ y.cursor = x.cursor
      BY DEF Filer, Goroutine
    <3>3. /\ handler'[g].window = abandon /\ handler'[g].owner = h.owner
          /\ handler'[g].cursor = h.cursor
          /\ handler'[g].backlog = IF abandon THEN RecentWindow(Peer(g)) ELSE missed
      BY <1>t, <3>1, <3>2
    <3>4. handler'[g].backlog = missed
      BY <2>2, <3>3 DEF Owed
    <3>5. MayRead(Peer(g), m) /\ store[m] > h.cursor
      BY <2>1, <2>2, <3>3 DEF Owed, Peer, MayRead
    <3>6. [id |-> m, seq |-> store[m]] \in missed
      BY <3>5 DEF VisibleSince
    <3>7. Listed(c, m)'
      BY <2>2, <3>4, <3>6 DEF Listed
    <3> QED BY <3>7, ComingIs
  <2>3. CASE c # g
    BY <1>o, <2>1, <2>3 DEF Sent
  <2> QED BY <2>2, <2>3
<1>5. CASE Replay(g)
  <2>1. PICK s \in h.backlog : /\ Send(g, MsgFrame(s.id, s.seq))
                               /\ handler' = [handler EXCEPT ![g].backlog = @ \ {s}]
    BY <1>5 DEF Replay
  <2>2. s.id \in Msg /\ s.seq \in Nat
    BY <1>t, FilerParts
  <2>3. MsgFrame(s.id, s.seq) \in Frame /\ MsgFrame(s.id, s.seq).t = "msg" /\ MsgFrame(s.id, s.seq).id = s.id
    BY <2>2, FramesTyped DEF MsgFrame
  <2>4. (Sent(c, m) => Sent(c, m)') /\ (open[g] => Sent(g, s.id)')
    BY <1>c, <2>1, <2>3, StaysSent
  <2>5. UNCHANGED <<store, open>> /\ h.at = "replay" /\ open'[c]
    BY <1>5 DEF Replay, Owed
  <2>6. CASE c = g
    <3>1. \A x \in Filer : LET y == [x EXCEPT !.backlog = @ \ {s}]
             IN /\ y.backlog = x.backlog \ {s} /\ y.owner = x.owner /\ y.cursor = x.cursor
                /\ y.window = x.window
      BY DEF Filer, Goroutine
    <3>2. handler'[g] = [h EXCEPT !.backlog = @ \ {s}]
      BY <1>t, <2>1
    <3>3. /\ handler'[g].backlog = h.backlog \ {s} /\ handler'[g].owner = h.owner
          /\ handler'[g].cursor = h.cursor /\ handler'[g].window = h.window
      BY <1>t, <3>1, <3>2
    <3>4. Listed(c, m) => Listed(c, m)' \/ Sent(c, m)'
      BY <2>4, <2>5, <2>6, <3>3 DEF Listed
    <3>5. ~Telling(g, c, m) /\ c \in conns
      <4>1. g \in conns' /\ UNCHANGED conns
        BY <1>5, <2>6 DEF Replay
      <4> QED BY <2>5, <2>6, <4>1 DEF Telling
    <3> QED BY <1>k, <2>4, <2>5, <2>6, <3>3, <3>4, <3>5
  <2>7. CASE c # g
    BY <1>o, <2>4, <2>5, <2>7
  <2> QED BY <2>6, <2>7
(* From here on the goroutine keeps owner, cursor, window and backlog.      *)
<1>w. ASSUME UNCHANGED <<conns, store, open>>, h.at # "backfill",
             /\ handler'[g].owner = h.owner /\ handler'[g].cursor = h.cursor
             /\ handler'[g].window = h.window /\ handler'[g].backlog = h.backlog,
             Sent(c, m) => Sent(c, m)',
             Telling(g, c, m) => Telling(g, c, m)' \/ Sent(c, m)'
      PROVE  Coming(c, m)'
  <2>1. /\ handler'[c].owner = handler[c].owner /\ handler'[c].cursor = handler[c].cursor
        /\ handler'[c].window = handler[c].window /\ handler'[c].backlog = handler[c].backlog
        /\ handler[c].at = "backfill" => handler'[c].at = "backfill"
    BY <1>w, <1>u, <1>c
  <2>2. Listed(c, m) => Listed(c, m)'
    BY <2>1 DEF Listed
  <2>3. c \in conns
    BY <1>w
  <2> QED BY <1>k, <1>w, <2>1, <2>2, <2>3
<1>6. CASE Synced(g)
  <2>1. \A x \in Filer : LET y == [x EXCEPT !.at = "read"]
           IN /\ y.backlog = x.backlog /\ y.owner = x.owner /\ y.cursor = x.cursor /\ y.window = x.window
    BY DEF Filer, Goroutine
  <2>2. /\ handler'[g].owner = h.owner /\ handler'[g].cursor = h.cursor
        /\ handler'[g].window = h.window /\ handler'[g].backlog = h.backlog
    BY <1>6, <1>t, <2>1 DEF Synced
  <2>3. SyncedFrame(h.seq) \in Frame
    BY <1>t, FilerParts, FramesTyped
  <2>4. Sent(c, m) => Sent(c, m)'
    BY <1>6, <1>c, <2>3, StaysSent DEF Synced
  <2>5. h.at = "replay" /\ ~Telling(g, c, m)
    BY <1>6 DEF Synced, Telling
  <2> QED BY <1>6, <1>w, <2>2, <2>4, <2>5 DEF Synced
<1>7. CASE AnswerResend(g)
  <2>1. Head(toServer[g]) \in Msg
    BY <1>7, Queue DEF AnswerResend, LedgerInv, TypeInv, TypeOK
  <2>2. SeqFrame(Head(toServer[g]), store[Head(toServer[g])]) \in Frame
    BY <1>t, <2>1, FramesTyped
  <2>3. Sent(c, m) => Sent(c, m)'
    BY <1>7, <1>c, <2>2, StaysSent DEF AnswerResend
  <2>4. h.at = "read" /\ ~Telling(g, c, m)
    BY <1>7 DEF AnswerResend, Telling
  <2> QED BY <1>7, <1>w, <2>3, <2>4 DEF AnswerResend
<1>8. CASE TakeMessage(g) \/ Mint(g)
  <2>1. \A x \in Filer : \A a, b, n :
           /\ LET y == [x EXCEPT !.at = a, !.msg = b]
              IN /\ y.backlog = x.backlog /\ y.owner = x.owner /\ y.cursor = x.cursor
                 /\ y.window = x.window
           /\ LET y == [x EXCEPT !.at = a, !.num = n]
              IN /\ y.backlog = x.backlog /\ y.owner = x.owner /\ y.cursor = x.cursor
                 /\ y.window = x.window
    BY DEF Filer, Goroutine
  <2>2. \/ handler'[g] = [h EXCEPT !.at = "mint", !.msg = Head(toServer[g])]
        \/ handler'[g] = [h EXCEPT !.at = "append", !.num = nextSeq + 1]
    BY <1>8, <1>t DEF TakeMessage, Mint
  <2>3. /\ handler'[g].owner = h.owner /\ handler'[g].cursor = h.cursor
        /\ handler'[g].window = h.window /\ handler'[g].backlog = h.backlog
    <3>1. CASE handler'[g] = [h EXCEPT !.at = "mint", !.msg = Head(toServer[g])]
      BY <1>t, <2>1, <3>1
    <3>2. CASE handler'[g] = [h EXCEPT !.at = "append", !.num = nextSeq + 1]
      BY <1>t, <2>1, <3>2
    <3> QED BY <2>2, <3>1, <3>2
  <2>4. /\ h.at \in {"read", "mint"} /\ UNCHANGED <<conns, store, open, toClient>>
    BY <1>8 DEF TakeMessage, Mint
  <2> QED BY <1>w, <2>3, <2>4 DEF Telling, Sent
<1>9. CASE File(g)
  <2>1. /\ h.at = "append" /\ handler'[g] = [h EXCEPT !.at = "fanout", !.people = Recipients[h.msg]]
        /\ UNCHANGED <<conns, open, toClient>>
    BY <1>9, <1>t DEF File
  <2>2. \A x \in Filer : \A a, b : LET y == [x EXCEPT !.at = a, !.people = b]
           IN /\ y.backlog = x.backlog /\ y.owner = x.owner /\ y.cursor = x.cursor
              /\ y.window = x.window /\ y.at = a /\ y.people = b /\ y.msg = x.msg
    BY DEF Filer, Goroutine
  <2>3. /\ handler'[g].owner = h.owner /\ handler'[g].cursor = h.cursor
        /\ handler'[g].window = h.window /\ handler'[g].backlog = h.backlog
        /\ handler'[g].at = "fanout" /\ handler'[g].people = Recipients[h.msg] /\ handler'[g].msg = h.msg
    BY <1>t, <2>1, <2>2
  <2>4. CASE m = h.msg
    <3>1. MayRead(Peer(c), m)'
      BY DEF Owed
    <3>2. \E i \in DOMAIN Recipients[m] : Recipients[m][i] = Peer(c)'
      BY <3>1 DEF MayRead
    <3>3. Telling(g, c, m)'
      BY <2>3, <2>4, <3>2 DEF Telling
    <3> QED BY <3>3, ComingIs
  <2>5. CASE m # h.msg
    <3>1. store'[m] = store[m]
      BY <1>9, <1>t, <2>5 DEF File, FileInMemory
    <3>2. /\ handler'[c].owner = handler[c].owner /\ handler'[c].cursor = handler[c].cursor
          /\ handler'[c].window = handler[c].window /\ handler'[c].backlog = handler[c].backlog
          /\ handler[c].at = "backfill" => handler'[c].at = "backfill"
      BY <1>u, <1>c, <2>1, <2>3
    <3>3. /\ Listed(c, m) => Listed(c, m)'
          /\ Sent(c, m) => Sent(c, m)'
          /\ ~Telling(g, c, m)
      BY <2>1, <3>2 DEF Listed, Sent, Telling
    <3>4. c \in conns /\ UNCHANGED <<store[m], open[c]>>
      BY <2>1, <3>1
    <3> QED BY <1>k, <3>2, <3>3, <3>4
  <2> QED BY <2>4, <2>5
<1>10. CASE FanOut(g)
  <2>1. /\ h.at = "fanout" /\ h.targets = {} /\ h.people # <<>>
        /\ handler'[g] = [h EXCEPT !.people = Tail(@), !.targets = ConnsOf(Head(h.people))]
        /\ UNCHANGED <<conns, store, open, toClient>>
    BY <1>10, <1>t DEF FanOut
  <2>2. \A x \in Filer : \A a, b : LET y == [x EXCEPT !.people = a, !.targets = b]
           IN /\ y.backlog = x.backlog /\ y.owner = x.owner /\ y.cursor = x.cursor
              /\ y.window = x.window /\ y.at = x.at /\ y.msg = x.msg /\ y.people = a /\ y.targets = b
    BY DEF Filer, Goroutine
  <2>3. /\ handler'[g].owner = h.owner /\ handler'[g].cursor = h.cursor
        /\ handler'[g].window = h.window /\ handler'[g].backlog = h.backlog
        /\ handler'[g].at = h.at /\ handler'[g].msg = h.msg
        /\ handler'[g].people = Tail(h.people) /\ handler'[g].targets = ConnsOf(Head(h.people))
    BY <1>t, <2>1, <2>2
  <2>4. Peer(c)' = Peer(c) /\ c \in conns
    BY <1>u, <1>c, <2>1, <2>3 DEF Peer
  <2>5. ASSUME Telling(g, c, m) PROVE Telling(g, c, m)'
    <3>1. PICK i \in DOMAIN h.people : h.people[i] = Peer(c)
      BY <2>1, <2>5 DEF Telling
    <3>2. CASE i = 1
      <4>1. Head(h.people) = Peer(c)
        BY <1>p, <2>1, <3>1, <3>2
      <4>2. c \in ConnsOf(Head(h.people))
        BY <2>4, <4>1 DEF ConnsOf
      <4> QED BY <2>1, <2>3, <2>5, <4>2 DEF Telling
    <3>3. CASE i # 1
      <4>1. i - 1 \in DOMAIN Tail(h.people) /\ Tail(h.people)[i - 1] = Peer(c)
        <5>1. \A q \in Seq(Person) : \A k \in DOMAIN q : k # 1 =>
                 k - 1 \in DOMAIN Tail(q) /\ Tail(q)[k - 1] = q[k]
          OBVIOUS
        <5>2. i - 1 \in DOMAIN Tail(h.people) /\ Tail(h.people)[i - 1] = h.people[i]
          BY <1>p, <3>1, <3>3, <5>1
        <5> QED BY <3>1, <5>2
      <4> QED BY <2>3, <2>4, <2>5, <4>1 DEF Telling
    <3> QED BY <3>2, <3>3
  <2> QED BY <1>w, <2>1, <2>3, <2>5 DEF Sent
<1>11. CASE \E t \in Conn : RelayTo(g, t)
  <2>1. PICK t \in Conn : RelayTo(g, t)
    BY <1>11
  <2>2. /\ h.at = "fanout" /\ t \in h.targets /\ Send(t, MsgFrame(h.msg, h.num))
        /\ handler'[g] = [h EXCEPT !.targets = @ \ {t}] /\ UNCHANGED <<conns, store, open>>
    BY <2>1, <1>t DEF RelayTo
  <2>3. \A x \in Filer : LET y == [x EXCEPT !.targets = @ \ {t}]
           IN /\ y.backlog = x.backlog /\ y.owner = x.owner /\ y.cursor = x.cursor
              /\ y.window = x.window /\ y.at = x.at /\ y.msg = x.msg /\ y.people = x.people
              /\ y.targets = x.targets \ {t}
    BY DEF Filer, Goroutine
  <2>4. /\ handler'[g].owner = h.owner /\ handler'[g].cursor = h.cursor
        /\ handler'[g].window = h.window /\ handler'[g].backlog = h.backlog
        /\ handler'[g].at = h.at /\ handler'[g].msg = h.msg
        /\ handler'[g].people = h.people /\ handler'[g].targets = h.targets \ {t}
    BY <1>t, <2>2, <2>3
  <2>5. h.msg \in Msg /\ h.num \in Nat
    BY <1>t, <2>2, FilerParts
  <2>6. /\ MsgFrame(h.msg, h.num) \in Frame /\ MsgFrame(h.msg, h.num).t = "msg"
        /\ MsgFrame(h.msg, h.num).id = h.msg
    BY <2>5, FramesTyped DEF MsgFrame
  <2>7. (Sent(c, m) => Sent(c, m)') /\ (open[t] => Sent(t, h.msg)')
    BY <1>c, <2>2, <2>6, StaysSent
  <2>8. Peer(c)' = Peer(c) /\ open[c]
    BY <1>u, <1>c, <2>2, <2>4 DEF Peer, Owed
  <2>9. Telling(g, c, m) => Telling(g, c, m)' \/ Sent(c, m)'
    BY <2>2, <2>4, <2>7, <2>8 DEF Telling
  <2> QED BY <1>w, <2>2, <2>4, <2>7, <2>9
<1>12. CASE AnswerSender(g)
  <2> DEFINE sender == ConnsOf(Peer(g))
  <2>1. /\ h.at = "fanout" /\ h.targets = {} /\ h.people = <<>>
        /\ handler'[g] = IF sender = {} THEN Listening(h)
                                        ELSE [h EXCEPT !.at = "answer", !.targets = sender]
        /\ UNCHANGED <<conns, store, open, toClient>>
    BY <1>12, <1>t DEF AnswerSender
  <2>2. \A x \in Filer : \A b :
           /\ LET y == [x EXCEPT !.at = "answer", !.targets = b]
              IN /\ y.backlog = x.backlog /\ y.owner = x.owner /\ y.cursor = x.cursor
                 /\ y.window = x.window
           /\ LET y == Listening(x)
              IN /\ y.backlog = x.backlog /\ y.owner = x.owner /\ y.cursor = x.cursor
                 /\ y.window = x.window
    BY DEF Filer, Goroutine, Listening
  <2>3. /\ handler'[g].owner = h.owner /\ handler'[g].cursor = h.cursor
        /\ handler'[g].window = h.window /\ handler'[g].backlog = h.backlog
    BY <1>t, <2>1, <2>2
  <2> QED BY <1>w, <2>1, <2>3 DEF Telling, Sent
<1>13. CASE \E t \in Conn : Answer(g, t)
  <2>1. PICK t \in Conn : Answer(g, t)
    BY <1>13
  <2> DEFINE left == h.targets \ {t}
  <2>2. /\ h.at = "answer" /\ Send(t, SeqFrame(h.msg, h.num)) /\ UNCHANGED <<conns, store, open>>
        /\ handler'[g] = IF left = {} THEN Listening(h) ELSE [h EXCEPT !.targets = left]
    BY <2>1, <1>t DEF Answer
  <2>3. \A x \in Filer : \A b :
           /\ LET y == [x EXCEPT !.targets = b]
              IN /\ y.backlog = x.backlog /\ y.owner = x.owner /\ y.cursor = x.cursor
                 /\ y.window = x.window
           /\ LET y == Listening(x)
              IN /\ y.backlog = x.backlog /\ y.owner = x.owner /\ y.cursor = x.cursor
                 /\ y.window = x.window
    BY DEF Filer, Goroutine, Listening
  <2>4. /\ handler'[g].owner = h.owner /\ handler'[g].cursor = h.cursor
        /\ handler'[g].window = h.window /\ handler'[g].backlog = h.backlog
    BY <1>t, <2>2, <2>3
  <2>5. SeqFrame(h.msg, h.num) \in Frame
    BY <1>t, <2>2, FilerParts, FramesTyped
  <2>6. Sent(c, m) => Sent(c, m)'
    BY <1>c, <2>2, <2>5, StaysSent
  <2> QED BY <1>w, <2>2, <2>4, <2>6 DEF Telling
<1>14. CASE Break(g)
  <2>1. UNCHANGED <<conns, store, handler, toClient>>
    BY <1>14 DEF Break
  <2>2. UNCHANGED open[c]
    BY <2>1, <1>14, <1>t, <1>c DEF Break, Owed
  <2>3. c \in conns /\ UNCHANGED <<store[m], open[c]>> /\ handler'[c] = handler[c]
    BY <2>1, <2>2
  <2>4. Sent(c, m) => Sent(c, m)'
    BY <2>1 DEF Sent
  <2>5. Listed(c, m) => Listed(c, m)' \/ Sent(c, m)'
    BY <2>1 DEF Listed
  <2>6. Telling(g, c, m) => Telling(g, c, m)' \/ Sent(c, m)'
    BY <2>1 DEF Telling, Peer
  <2> QED BY <1>k, <2>3, <2>4, <2>5, <2>6
<1> QED
  BY <1>1, <1>2, <1>3, <1>4, <1>5, <1>6, <1>7, <1>8, <1>9, <1>10, <1>11, <1>12, <1>13, <1>14
     DEF Enrolment, Filing, FileFails

(* The steps of a client daemon: what it reads, it holds from then on.      *)
LEMMA ComingStepClient ==
  ASSUME LedgerInv, LinksInv, NothingFallsBetween, NEW d \in Daemon,
         \/ Reading(d) \/ Kill(d) \/ \E c \in Conn : Dial(d, c)
         \/ \E m \in Msg : Compose(d, m) \/ WriteComposed(d, m)
  PROVE  NothingFallsBetween'
<1> DEFINE e == daemon[d]
<1>t. /\ conns \subseteq Conn /\ open \in [Conn -> BOOLEAN] /\ handler \in [Conn -> Filer]
      /\ toClient \in [Conn -> Seq(GoodFrame)] /\ toClient \in [Conn -> Seq(Frame)]
      /\ daemon \in [Daemon -> Client] /\ e \in Client /\ cache \in [Daemon -> [Msg -> Nat]]
      /\ None \notin Conn
  BY ConstantsAssumption DEF LedgerInv, TypeInv, TypeOK
<1>u. /\ \A x, y \in Daemon : daemon[x].link = daemon[y].link /\ daemon[x].link # None => x = y
      /\ \A c \in Conn : handler[c].at # "free" => handler[c].owner \in Daemon
      /\ \A c \in conns : handler[c].at \notin {"free", "hello", "register"}
  BY DEF LinksInv
<1> SUFFICES ASSUME NEW c \in conns', NEW m \in Msg, Owed(c, m)'
             PROVE  Coming(c, m)'
  BY DEF NothingFallsBetween, Owed
<1>s. UNCHANGED <<conns, store>>
  BY DEF Reading, ReadWelcome, ReadMessage, ReadSeq, ReadSynced, ReadError, FlushOne, FlushFails, Drop,
         Kill, Dial, Compose, WriteComposed
<1>p. c \in Conn /\ c \in conns /\ handler[c].owner \in Daemon /\ handler[c].at # "free"
  BY <1>t, <1>u, <1>s
<1>o. PICK o \in Daemon : handler[c].owner = o
  BY <1>p
<1>c. c \in Conn /\ c \in conns /\ o \in Daemon /\ handler[c].owner = o /\ handler[c].at # "free"
  BY <1>p, <1>o
<1>k. ASSUME handler'[c] = handler[c], open'[c] => open[c], daemon[o].link = c,
             Holds(o, m) => Holds(o, m)', Sent(c, m) => Sent(c, m)' \/ Holds(o, m)',
             \A g \in Conn : handler[g].at = "fanout" => handler'[g] = handler[g]
      PROVE  Coming(c, m)'
  <2>1. Owed(c, m)
    BY <1>c, <1>k, <1>s DEF Owed, Peer
  <2>2. Coming(c, m)
    BY <1>c, <2>1 DEF NothingFallsBetween, Owed
  <2>3. Listed(c, m) => Listed(c, m)'
    BY <1>k DEF Listed
  <2>4. \A g \in Conn : Telling(g, c, m) => Telling(g, c, m)'
    BY <1>k DEF Telling, Peer
  <2> QED BY <1>c, <1>k, <2>2, <2>3, <2>4, ComingIs
(* What is composed stays composed, what is cached stays cached.            *)
<1>h. ASSUME daemon'[o].drafts = daemon[o].drafts, cache[o][m] # 0 => cache'[o][m] # 0
      PROVE  Holds(o, m) => Holds(o, m)'
  BY <1>h DEF Holds, Composed
(* A step that leaves the goroutines and the links as they are.             *)
<1>w. ASSUME UNCHANGED handler, UNCHANGED open, daemon'[o].link = daemon[o].link,
             Holds(o, m) => Holds(o, m)', Sent(c, m) => Sent(c, m)' \/ Holds(o, m)'
      PROVE  Coming(c, m)'
  <2>1. daemon[o].link = c
    BY <1>c, <1>w DEF Owed
  <2> QED BY <1>k, <1>w, <2>1
(* The frame that is read is the one that is gone.                          *)
<1>r. ASSUME NEW type, Reads(d, type), Sent(c, m)
      PROVE  \/ Sent(c, m)'
             \/ e.link = c /\ NextFrame(d).t = "msg" /\ NextFrame(d).id = m /\ type = "msg"
  <2>1. CASE e.link # c
    <3>1. toClient'[c] = toClient[c]
      BY <1>r, <1>t, <1>c, <2>1 DEF Reads
    <3> QED BY <1>r, <3>1 DEF Sent
  <2>2. CASE e.link = c
    <3>1. /\ toClient[c] \in Seq(Frame) /\ toClient[c] # <<>> /\ toClient'[c] = Tail(toClient[c])
          /\ Head(toClient[c]).t = type /\ NextFrame(d) = Head(toClient[c])
      BY <1>r, <1>t, <1>c, <2>2 DEF Reads, NextFrame
    <3>2. PICK i \in DOMAIN toClient[c] : toClient[c][i].t = "msg" /\ toClient[c][i].id = m
      BY <1>r DEF Sent
    <3>3. CASE i = 1
      BY <2>2, <3>1, <3>2, <3>3
    <3>4. CASE i # 1
      <4>1. \A q \in Seq(Frame) : \A k \in DOMAIN q : k # 1 =>
               k - 1 \in DOMAIN Tail(q) /\ Tail(q)[k - 1] = q[k]
        OBVIOUS
      <4>2. i - 1 \in DOMAIN Tail(toClient[c]) /\ Tail(toClient[c])[i - 1] = toClient[c][i]
        BY <3>1, <3>2, <3>4, <4>1
      <4> QED BY <3>1, <3>2, <4>2 DEF Sent
    <3> QED BY <3>3, <3>4
  <2> QED BY <2>1, <2>2
<1>1. CASE ReadMessage(d) \/ ReadSeq(d)
  <2> DEFINE f == NextFrame(d)
  <2>1. /\ daemon' = [daemon EXCEPT ![d].cursor = Larger(@, f.seq)] /\ UNCHANGED <<handler, open>>
        /\ Reads(d, "msg") \/ Reads(d, "seq")
    BY <1>1 DEF ReadMessage, ReadSeq
  <2>2. \A x \in Client : \A n : LET y == [x EXCEPT !.cursor = n]
           IN y.drafts = x.drafts /\ y.link = x.link
    BY DEF Client
  <2>3. daemon'[o].drafts = daemon[o].drafts /\ daemon'[o].link = daemon[o].link
    <3>1. CASE o = d
      BY <1>t, <2>1, <2>2, <3>1
    <3>2. CASE o # d
      BY <1>t, <1>c, <2>1, <3>2
    <3> QED BY <3>1, <3>2
  <2>4. f \in GoodFrame /\ f.t \in {"msg", "seq"}
    <3>1. e.link \in Conn /\ toClient[e.link] # <<>> /\ f.t \in {"msg", "seq"}
      BY <1>t, <2>1, ClientParts DEF Reads, NextFrame
    <3> QED BY <1>t, <3>1, Queue DEF NextFrame
  <2>5. f.id \in Msg /\ f.seq # 0
    BY <2>4 DEF GoodFrame, Names
  <2>6. cache[o][m] # 0 => cache'[o][m] # 0
    <3>1. UNCHANGED cache \/ cache' = [cache EXCEPT ![d][f.id] = f.seq]
      <4>1. CASE ReadMessage(d)
        BY <4>1, <1>t DEF ReadMessage
      <4>2. CASE ReadSeq(d)
        BY <4>2, <1>t DEF ReadSeq
      <4> QED BY <1>1, <4>1, <4>2
    <3>2. CASE UNCHANGED cache
      BY <3>2
    <3>3. CASE cache' = [cache EXCEPT ![d][f.id] = f.seq]
      <4>1. \A x \in Daemon, k \in Msg :
               cache'[x][k] = IF x = d /\ k = f.id THEN f.seq ELSE cache[x][k]
        BY <1>t, <2>5, <3>3
      <4> HIDE DEF f
      <4> QED BY <1>c, <2>5, <4>1
    <3> QED BY <3>1, <3>2, <3>3
  <2>7. Holds(o, m) => Holds(o, m)'
    BY <1>h, <2>3, <2>6
  <2>8. ASSUME Sent(c, m), ~Sent(c, m)' PROVE Holds(o, m)'
    <3>1. e.link = c /\ f.t = "msg" /\ f.id = m
      BY <1>r, <2>1, <2>8
    <3>2. o = d
      <4>1. daemon[o].link = c
        BY <1>c, <2>1, <2>3 DEF Owed
      <4> QED BY <1>t, <1>u, <1>c, <3>1, <4>1
    <3>3. ReadMessage(d)
      BY <1>1, <3>1 DEF ReadSeq, Reads, NextFrame
    <3>4. cache'[d][m] # 0
      <4>1. cache' = [cache EXCEPT ![d][m] = IF Own(d, m) \/ cache[d][m] = 0 THEN f.seq ELSE cache[d][m]]
        BY <3>1, <3>3 DEF ReadMessage
      <4> HIDE DEF f
      <4> QED BY <1>t, <2>5, <4>1
    <3> QED BY <3>2, <3>4 DEF Holds
  <2> QED BY <1>w, <2>1, <2>3, <2>7, <2>8
(* Of the others, all but Drop, Kill and Dial keep link and drafts, or add  *)
(* to the drafts.                                                           *)
<1>v. ASSUME UNCHANGED <<handler, open, cache>>, daemon'[o].link = daemon[o].link,
             daemon'[o].drafts = daemon[o].drafts, Sent(c, m) => Sent(c, m)'
      PROVE  Coming(c, m)'
  <2>1. cache[o][m] # 0 => cache'[o][m] # 0
    BY <1>v
  <2>2. Holds(o, m) => Holds(o, m)'
    BY <1>h, <1>v, <2>1
  <2> QED BY <1>v, <1>w, <2>2
<1>2. CASE ReadWelcome(d) \/ ReadSynced(d)
  <2>1. \A x \in Client : \A n, q :
           /\ LET y == [x EXCEPT !.phase = "live", !.cursor = n] IN y.drafts = x.drafts /\ y.link = x.link
           /\ LET y == [x EXCEPT !.cursor = n, !.saved = n, !.flush = q]
              IN y.drafts = x.drafts /\ y.link = x.link
    BY DEF Client
  <2>2. daemon'[d].drafts = e.drafts /\ daemon'[d].link = e.link
    <3>1. CASE ReadWelcome(d)
      <4>1. PICK n : daemon'[d] = [e EXCEPT !.phase = "live", !.cursor = n]
        BY <1>t, <3>1 DEF ReadWelcome
      <4> QED BY <1>t, <2>1, <4>1
    <3>2. CASE ReadSynced(d)
      <4>1. PICK n, q : daemon'[d] = [e EXCEPT !.cursor = n, !.saved = n, !.flush = q]
        BY <1>t, <3>2 DEF ReadSynced
      <4> QED BY <1>t, <2>1, <4>1
    <3> QED BY <1>2, <3>1, <3>2
  <2>3. /\ \A x \in Daemon : x # d => daemon'[x] = daemon[x]
        /\ UNCHANGED <<handler, open, cache>>
        /\ Reads(d, "welcome") \/ Reads(d, "synced")
    BY <1>2, <1>t DEF ReadWelcome, ReadSynced
  <2>4. daemon'[o].drafts = daemon[o].drafts /\ daemon'[o].link = daemon[o].link
    BY <1>c, <2>2, <2>3
  <2>5. Sent(c, m) => Sent(c, m)'
    BY <1>r, <2>3
  <2> QED BY <1>v, <2>3, <2>4, <2>5
<1>3. CASE ReadError(d)
  <2>1. Sent(c, m) => Sent(c, m)'
    BY <1>r, <1>3 DEF ReadError
  <2> QED BY <1>v, <1>3, <2>1 DEF ReadError
<1>4. CASE FlushOne(d) \/ FlushFails(d) \/ \E k \in Msg : WriteComposed(d, k)
  <2>1. /\ \E q : \/ daemon' = [daemon EXCEPT ![d] = [e EXCEPT !.flush = q]]
                  \/ daemon' = [daemon EXCEPT ![d] = [e EXCEPT !.unwritten = q]]
        /\ UNCHANGED <<handler, open, cache, toClient>>
    BY <1>4 DEF FlushOne, FlushFails, WriteComposed
  <2>2. \A x \in Client : \A q :
           /\ LET y == [x EXCEPT !.flush = q] IN y.drafts = x.drafts /\ y.link = x.link
           /\ LET y == [x EXCEPT !.unwritten = q] IN y.drafts = x.drafts /\ y.link = x.link
    BY DEF Client
  <2>3. PICK q : \/ daemon' = [daemon EXCEPT ![d] = [e EXCEPT !.flush = q]]
                 \/ daemon' = [daemon EXCEPT ![d] = [e EXCEPT !.unwritten = q]]
    BY <2>1
  <2>4. /\ daemon'[d].drafts = e.drafts /\ daemon'[d].link = e.link
        /\ \A x \in Daemon : x # d => daemon'[x] = daemon[x]
    <3>1. CASE daemon' = [daemon EXCEPT ![d] = [e EXCEPT !.flush = q]]
      BY <1>t, <2>2, <3>1
    <3>2. CASE daemon' = [daemon EXCEPT ![d] = [e EXCEPT !.unwritten = q]]
      BY <1>t, <2>2, <3>2
    <3> QED BY <2>3, <3>1, <3>2
  <2>5. daemon'[o].drafts = daemon[o].drafts /\ daemon'[o].link = daemon[o].link
    BY <1>c, <2>4
  <2> QED BY <1>v, <2>1, <2>5 DEF Sent
<1>5. CASE \E k \in Msg : Compose(d, k)
  <2>1. PICK k \in Msg : Compose(d, k)
    BY <1>5
  <2>2. /\ daemon' = [daemon EXCEPT ![d] = [e EXCEPT !.drafts = Append(@, k), !.unwritten = @ \cup {k}]]
        /\ UNCHANGED <<handler, open, cache, toClient>>
    BY <2>1 DEF Compose
  <2>3. \A x \in Client : LET y == [x EXCEPT !.drafts = Append(@, k), !.unwritten = @ \cup {k}]
           IN y.drafts = Append(x.drafts, k) /\ y.link = x.link
    BY DEF Client
  <2>4. /\ daemon'[o].link = daemon[o].link
        /\ daemon'[o].drafts = daemon[o].drafts \/ daemon'[o].drafts = Append(daemon[o].drafts, k)
    <3>1. CASE o = d
      BY <1>t, <2>2, <2>3, <3>1
    <3>2. CASE o # d
      BY <1>t, <1>c, <2>2, <3>2
    <3> QED BY <3>1, <3>2
  <2>5. Composed(o) \subseteq Composed(o)'
    <3>1. \A q \in Seq(Msg) : \A i \in DOMAIN q :
             i \in DOMAIN Append(q, k) /\ Append(q, k)[i] = q[i]
      OBVIOUS
    <3>2. daemon[o].drafts \in Seq(Msg)
      BY <1>t, <1>c, ClientParts
    <3>3. \A i \in DOMAIN daemon[o].drafts :
             i \in DOMAIN daemon'[o].drafts /\ daemon'[o].drafts[i] = daemon[o].drafts[i]
      BY <2>4, <3>1, <3>2
    <3> QED BY <3>3 DEF Composed
  <2>6. Holds(o, m) => Holds(o, m)'
    BY <2>2, <2>5 DEF Holds
  <2> QED BY <1>w, <2>2, <2>4, <2>6 DEF Sent
<1>6. CASE Drop(d) \/ Kill(d)
  <2>1. /\ e.link = c => o = d
        /\ toClient' = [toClient EXCEPT ![e.link] = <<>>] /\ UNCHANGED <<handler, cache>>
        /\ open'[c] => open[c]
        /\ \A x \in Daemon : x # d => daemon'[x] = daemon[x]
        /\ daemon'[d].link = None
    <3>1. \A x \in Client : \A n : LET y == [x EXCEPT !.phase = "down", !.link = None, !.saved = n]
             IN y.link = None
      BY DEF Client
    <3>2. \A n, q : LET y == [Fresh EXCEPT !.cursor = n, !.saved = n, !.drafts = q] IN y.link = None
      BY DEF Fresh
    <3>3. \A x \in Daemon : x # d => daemon'[x] = daemon[x]
      BY <1>6, <1>t DEF Drop, Kill
    <3>4. daemon'[d].link = None
      <4>1. CASE Drop(d)
        <5>1. \E n : daemon'[d] = [e EXCEPT !.phase = "down", !.link = None, !.saved = n]
          BY <1>t, <4>1 DEF Drop
        <5> QED BY <1>t, <3>1, <5>1
      <4>2. CASE Kill(d)
        <5>1. daemon'[d] = [Fresh EXCEPT !.cursor = e.saved, !.saved = e.saved, !.drafts = e.drafts]
          BY <1>t, <4>2 DEF Kill
        <5> QED BY <3>2, <5>1
      <4> QED BY <1>6, <4>1, <4>2
    <3>5. /\ toClient' = [toClient EXCEPT ![e.link] = <<>>] /\ UNCHANGED <<handler, cache>>
          /\ open' = open \/ open' = [open EXCEPT ![e.link] = FALSE]
      BY <1>6 DEF Drop, Kill
    <3>6. open'[c] => open[c]
      BY <1>t, <1>c, <3>5
    <3>7. e.link = c => o = d
      <4>1. daemon'[o].link = c
        BY <1>c, <3>5 DEF Owed
      <4>2. o # d
        BY <1>t, <1>c, <3>4, <4>1
      <4>3. daemon[o].link = c /\ daemon[o].link # None
        BY <1>t, <1>c, <3>3, <4>1, <4>2
      <4>4. daemon[d].link = daemon[o].link => o = d
        BY <1>u, <1>c, <4>3
      <4> QED BY <4>3, <4>4
    <3> QED BY <3>3, <3>4, <3>5, <3>6, <3>7
  <2>2. daemon'[o].link = c
    BY <1>c, <2>1 DEF Owed
  <2>3. o # d
    BY <1>t, <1>c, <2>1, <2>2
  <2>4. daemon'[o] = daemon[o] /\ e.link # c
    BY <1>c, <2>1, <2>3
  <2>5. toClient'[c] = toClient[c]
    BY <1>t, <1>c, <2>1, <2>4
  <2>6. Holds(o, m) => Holds(o, m)'
    BY <2>1, <2>4 DEF Holds, Composed
  <2>7. Sent(c, m) => Sent(c, m)'
    BY <2>5 DEF Sent
  <2> QED BY <1>k, <2>1, <2>2, <2>4, <2>6, <2>7
<1>7. CASE \E x \in Conn : Dial(d, x)
  <2>1. PICK x \in Conn : Dial(d, x)
    BY <1>7
  <2>2. /\ handler[x].at = "free" /\ open' = [open EXCEPT ![x] = TRUE] /\ UNCHANGED <<toClient, cache>>
        /\ \A g \in Conn : g # x => handler'[g] = handler[g]
        /\ daemon' = [daemon EXCEPT ![d] = [e EXCEPT !.phase = "hello", !.link = x]]
    BY <2>1, <1>t DEF Dial
  <2>3. \A y \in Client : LET z == [y EXCEPT !.phase = "hello", !.link = x]
           IN z.link = x /\ z.drafts = y.drafts
    BY DEF Client
  <2>4. c # x /\ handler'[c] = handler[c] /\ open'[c] = open[c]
    BY <1>t, <1>c, <2>2
  <2>5. daemon'[d].link = x
    BY <1>t, <2>2, <2>3
  <2>6. daemon'[o].link = c
    BY <1>c, <2>4 DEF Owed
  <2>7. o # d /\ daemon'[o] = daemon[o]
    BY <1>t, <1>c, <2>2, <2>4, <2>5, <2>6
  <2>8. Holds(o, m) => Holds(o, m)'
    BY <2>2, <2>7 DEF Holds, Composed
  <2>9. \A g \in Conn : handler[g].at = "fanout" => handler'[g] = handler[g]
    BY <2>2
  <2>10. Sent(c, m) => Sent(c, m)'
    BY <2>2 DEF Sent
  <2> QED BY <1>k, <2>4, <2>6, <2>7, <2>8, <2>9, <2>10
<1> QED
  BY <1>1, <1>2, <1>3, <1>4, <1>5, <1>6, <1>7 DEF Reading

(* A step of a goroutine keeps its daemon, and only Register registers.     *)
LEMMA LinksStepServer ==
  ASSUME TypeInv, LinksInv, NEW g \in Conn, Enrolment(g) \/ Filing(g) \/ HangUp(g) \/ Break(g)
  PROVE  LinksInv'
<1> DEFINE h == handler[g]
<1>t. handler \in [Conn -> Filer] /\ h \in Filer /\ conns \subseteq Conn
  BY DEF TypeInv, TypeOK
<1>u. /\ \A x, y \in Daemon : daemon[x].link = daemon[y].link /\ daemon[x].link # None => x = y
      /\ \A c \in Conn : handler[c].at # "free" => handler[c].owner \in Daemon
      /\ \A c \in conns : handler[c].at \notin {"free", "hello", "register"}
  BY DEF LinksInv
(* The goroutine goes on, registered or to be registered, ...               *)
<1>k. ASSUME UNCHANGED daemon, \A c \in Conn : c # g => handler'[c] = handler[c],
             handler'[g].owner = h.owner, h.at # "free",
             \/ conns' = conns /\ handler'[g].at \notin {"free", "hello", "register"}
             \/ conns' = conns /\ h.at = "hello"
             \/ conns' \subseteq conns \cup {g} /\ handler'[g].at = "backfill"
      PROVE  LinksInv'
  <2>1. \A c \in Conn : handler'[c].at # "free" => handler'[c].owner \in Daemon
    BY <1>k, <1>u
  <2>2. \A c \in conns' : handler'[c].at \notin {"free", "hello", "register"}
    BY <1>k, <1>u, <1>t
  <2> QED BY <1>k, <1>u, <2>1, <2>2 DEF LinksInv
(* ... or ends.                                                             *)
<1>1. CASE EnrolFails(g) \/ HangUp(g)
  <2>1. /\ UNCHANGED daemon /\ handler' = [handler EXCEPT ![g] = Idle] /\ conns' \subseteq conns
        /\ g \notin conns'
    BY <1>1, <1>u DEF EnrolFails, HangUp
  <2>2. handler'[g].at = "free" /\ \A c \in Conn : c # g => handler'[c] = handler[c]
    BY <1>t, <2>1 DEF Idle
  <2>3. \A c \in Conn : handler'[c].at # "free" => handler'[c].owner \in Daemon
    BY <1>u, <2>2
  <2>4. \A c \in conns' : handler'[c].at \notin {"free", "hello", "register"}
    BY <1>t, <1>u, <2>1, <2>2
  <2> QED BY <1>u, <2>1, <2>3, <2>4 DEF LinksInv
<1>2. CASE UNCHANGED <<handler, conns, daemon>>
  BY <1>2 DEF LinksInv
(* What becomes of at and owner in a goroutine that is changed.             *)
<1>r. \A x \in Filer : \A a, b, k, w :
        /\ LET y == [x EXCEPT !.at = a, !.seq = b, !.reset = k] IN y.at = a /\ y.owner = x.owner
        /\ LET y == [x EXCEPT !.at = a] IN y.at = a /\ y.owner = x.owner
        /\ LET y == [x EXCEPT !.at = a, !.window = b, !.backlog = k] IN y.at = a /\ y.owner = x.owner
        /\ LET y == [x EXCEPT !.at = a, !.msg = b] IN y.at = a /\ y.owner = x.owner
        /\ LET y == [x EXCEPT !.at = a, !.num = b] IN y.at = a /\ y.owner = x.owner
        /\ LET y == [x EXCEPT !.at = a, !.people = b] IN y.at = a /\ y.owner = x.owner
        /\ LET y == [x EXCEPT !.at = a, !.targets = b] IN y.at = a /\ y.owner = x.owner
        /\ LET y == [x EXCEPT !.backlog = b] IN y.at = x.at /\ y.owner = x.owner
        /\ LET y == [x EXCEPT !.targets = b] IN y.at = x.at /\ y.owner = x.owner
        /\ LET y == [x EXCEPT !.people = a, !.targets = b] IN y.at = x.at /\ y.owner = x.owner
        /\ Listening(x).at = "read" /\ Listening(x).owner = x.owner
  BY DEF Filer, Goroutine, Listening
<1>3. CASE Enrol(g)
  <2>1. handler'[g].owner = h.owner /\ UNCHANGED <<conns, daemon>> /\ h.at = "hello"
    BY <1>3, <1>t, <1>r DEF Enrol
  <2>2. \A c \in Conn : c # g => handler'[c] = handler[c]
    BY <1>3, <1>t DEF Enrol
  <2> QED BY <1>k, <2>1, <2>2
<1>4. CASE Register(g)
  <2>1. /\ handler'[g].owner = h.owner /\ handler'[g].at = "backfill" /\ UNCHANGED daemon
        /\ h.at = "register" /\ conns' = conns \cup {g}
    BY <1>4, <1>t, <1>r DEF Register
  <2>2. \A c \in Conn : c # g => handler'[c] = handler[c]
    BY <1>4, <1>t DEF Register
  <2> QED BY <1>k, <2>1, <2>2
<1>5. CASE Backfill(g) \/ Replay(g) \/ Synced(g)
  <2>1. /\ handler'[g].owner = h.owner /\ handler'[g].at \in {"replay", "read"}
        /\ h.at \in {"backfill", "replay"} /\ UNCHANGED <<conns, daemon>>
        /\ \A c \in Conn : c # g => handler'[c] = handler[c]
    <3>1. CASE Backfill(g)
      BY <3>1, <1>t, <1>r DEF Backfill
    <3>2. CASE Replay(g)
      <4>1. PICK s \in h.backlog : handler' = [handler EXCEPT ![g] = [h EXCEPT !.backlog = h.backlog \ {s}]]
        BY <3>2 DEF Replay
      <4>2. handler'[g] = [h EXCEPT !.backlog = h.backlog \ {s}]
        BY <1>t, <4>1
      <4>3. handler'[g].at = h.at /\ handler'[g].owner = h.owner
        BY <1>t, <1>r, <4>2
      <4> QED BY <3>2, <1>t, <4>1, <4>3 DEF Replay
    <3>3. CASE Synced(g)
      BY <3>3, <1>t, <1>r DEF Synced
    <3> QED BY <1>5, <3>1, <3>2, <3>3
  <2> QED BY <1>k, <2>1
<1>6. CASE TakeMessage(g) \/ Mint(g) \/ File(g) \/ FileFails(g)
  <2>1. /\ handler'[g].owner = h.owner /\ handler'[g].at \in {"mint", "append", "fanout", "read"}
        /\ h.at \in {"read", "mint", "append"} /\ UNCHANGED <<conns, daemon>>
        /\ \A c \in Conn : c # g => handler'[c] = handler[c]
    <3>1. CASE TakeMessage(g)
      BY <3>1, <1>t, <1>r DEF TakeMessage
    <3>2. CASE Mint(g)
      BY <3>2, <1>t, <1>r DEF Mint
    <3>3. CASE File(g)
      BY <3>3, <1>t, <1>r DEF File
    <3>4. CASE FileFails(g)
      BY <3>4, <1>t, <1>r DEF FileFails
    <3> QED BY <1>6, <3>1, <3>2, <3>3, <3>4
  <2> QED BY <1>k, <2>1
<1>7. CASE FanOut(g) \/ AnswerSender(g) \/ \E t \in Conn : RelayTo(g, t) \/ Answer(g, t)
  <2>1. /\ handler'[g].owner = h.owner /\ handler'[g].at \in {"fanout", "answer", "read"}
        /\ h.at \in {"fanout", "answer"} /\ UNCHANGED <<conns, daemon>>
        /\ \A c \in Conn : c # g => handler'[c] = handler[c]
    <3>1. CASE FanOut(g)
      <4>1. handler'[g] = [h EXCEPT !.people = Tail(h.people), !.targets = ConnsOf(Head(h.people))]
        BY <3>1, <1>t DEF FanOut
      <4>2. handler'[g].at = h.at /\ handler'[g].owner = h.owner
        BY <1>t, <1>r, <4>1
      <4> QED BY <3>1, <1>t, <4>2 DEF FanOut
    <3>2. CASE AnswerSender(g)
      <4>1. \/ handler'[g] = Listening(h)
            \/ \E b : handler'[g] = [h EXCEPT !.at = "answer", !.targets = b]
        BY <3>2, <1>t DEF AnswerSender
      <4>2. handler'[g].at \in {"read", "answer"} /\ handler'[g].owner = h.owner
        <5>1. CASE handler'[g] = Listening(h)
          BY <1>t, <1>r, <5>1
        <5>2. CASE \E b : handler'[g] = [h EXCEPT !.at = "answer", !.targets = b]
          <6>1. PICK b : handler'[g] = [h EXCEPT !.at = "answer", !.targets = b]
            BY <5>2
          <6> QED BY <1>t, <1>r, <6>1
        <5> QED BY <4>1, <5>1, <5>2
      <4> QED BY <3>2, <1>t, <4>2 DEF AnswerSender
    <3>3. CASE \E t \in Conn : RelayTo(g, t)
      <4>1. PICK t \in Conn : RelayTo(g, t)
        BY <3>3
      <4>2. handler'[g] = [h EXCEPT !.targets = h.targets \ {t}]
        BY <4>1, <1>t DEF RelayTo
      <4>3. handler'[g].at = h.at /\ handler'[g].owner = h.owner
        BY <1>t, <1>r, <4>2
      <4> QED BY <1>t, <4>1, <4>3 DEF RelayTo
    <3>4. CASE \E t \in Conn : Answer(g, t)
      <4>1. PICK t \in Conn : Answer(g, t)
        BY <3>4
      <4>2. handler'[g] = Listening(h) \/ handler'[g] = [h EXCEPT !.targets = h.targets \ {t}]
        BY <4>1, <1>t DEF Answer
      <4>3. handler'[g].at \in {"read", h.at} /\ handler'[g].owner = h.owner
        <5>1. CASE handler'[g] = Listening(h)
          BY <1>t, <1>r, <5>1
        <5>2. CASE handler'[g] = [h EXCEPT !.targets = h.targets \ {t}]
          BY <1>t, <1>r, <5>2
        <5> QED BY <4>2, <5>1, <5>2
      <4> QED BY <1>t, <4>1, <4>3 DEF Answer
    <3> QED BY <1>7, <3>1, <3>2, <3>3, <3>4
  <2> QED BY <1>k, <2>1
<1>8. CASE AnswerResend(g) \/ Break(g)
  <2>1. UNCHANGED <<handler, conns, daemon>>
    BY <1>8 DEF AnswerResend, Break
  <2> QED BY <1>2, <2>1
<1> QED
  BY <1>1, <1>3, <1>4, <1>5, <1>6, <1>7, <1>8 DEF Enrolment, Filing

(* Dial takes a connection nobody holds, Drop and Kill give it back.        *)
LEMMA LinksStepClient ==
  ASSUME TypeInv, LinksInv, NEW d \in Daemon,
         \/ Reading(d) \/ Kill(d) \/ \E c \in Conn : Dial(d, c)
         \/ \E m \in Msg : Compose(d, m) \/ WriteComposed(d, m)
  PROVE  LinksInv'
<1> DEFINE e == daemon[d]
<1>t. /\ handler \in [Conn -> Filer] /\ daemon \in [Daemon -> Client] /\ e \in Client
      /\ None \notin Conn /\ conns \subseteq Conn
  BY ConstantsAssumption DEF TypeInv, TypeOK
<1>u. /\ \A x, y \in Daemon : daemon[x].link = daemon[y].link /\ daemon[x].link # None => x = y
      /\ \A c \in Conn : handler[c].at # "free" => handler[c].owner \in Daemon
      /\ \A c \in conns : handler[c].at \notin {"free", "hello", "register"}
  BY DEF LinksInv
<1>r. \A x \in Client : \A a, b, k, l :
        /\ LET y == [x EXCEPT !.phase = a, !.cursor = b] IN y.link = x.link
        /\ LET y == [x EXCEPT !.cursor = a] IN y.link = x.link
        /\ LET y == [x EXCEPT !.cursor = a, !.saved = b, !.flush = k] IN y.link = x.link
        /\ LET y == [x EXCEPT !.flush = a] IN y.link = x.link
        /\ LET y == [x EXCEPT !.unwritten = a] IN y.link = x.link
        /\ LET y == [x EXCEPT !.drafts = a, !.unwritten = b] IN y.link = x.link
        /\ LET y == [x EXCEPT !.phase = a, !.link = None, !.saved = b] IN y.link = None
        /\ LET y == [x EXCEPT !.phase = a, !.link = l] IN y.link = l
  BY DEF Client
<1>k. ASSUME \A x \in Daemon : x # d => daemon'[x] = daemon[x],
             daemon'[d].link \in {e.link, None}, UNCHANGED <<handler, conns>>
      PROVE  LinksInv'
  <2>1. \A x \in Daemon : daemon'[x].link \in {daemon[x].link, None}
    BY <1>k
  <2> QED BY <1>k, <1>u, <2>1 DEF LinksInv
<1>1. CASE \/ Reading(d) \/ Kill(d) \/ \E m \in Msg : Compose(d, m) \/ WriteComposed(d, m)
  <2>1. (\A x \in Daemon : x # d => daemon'[x] = daemon[x]) /\ UNCHANGED <<handler, conns>>
    BY <1>1, <1>t DEF Reading, ReadWelcome, ReadMessage, ReadSeq, ReadSynced, ReadError, FlushOne,
       FlushFails, Drop, Kill, Compose, WriteComposed
  <2>2. daemon'[d].link \in {e.link, None}
    <3>1. CASE ReadWelcome(d) \/ ReadMessage(d) \/ ReadSeq(d)
      <4>1. \/ \E b : daemon'[d] = [e EXCEPT !.phase = "live", !.cursor = b]
            \/ \E b : daemon'[d] = [e EXCEPT !.cursor = b]
        BY <3>1, <1>t DEF ReadWelcome, ReadMessage, ReadSeq
      <4>2. CASE \E b : daemon'[d] = [e EXCEPT !.phase = "live", !.cursor = b]
        <5>1. PICK b : daemon'[d] = [e EXCEPT !.phase = "live", !.cursor = b]
          BY <4>2
        <5> QED BY <1>t, <1>r, <5>1
      <4>3. CASE \E b : daemon'[d] = [e EXCEPT !.cursor = b]
        <5>1. PICK b : daemon'[d] = [e EXCEPT !.cursor = b]
          BY <4>3
        <5> QED BY <1>t, <1>r, <5>1
      <4> QED BY <4>1, <4>2, <4>3
    <3>2. CASE ReadSynced(d)
      <4>1. PICK n, q : daemon'[d] = [e EXCEPT !.cursor = n, !.saved = n, !.flush = q]
        BY <3>2, <1>t DEF ReadSynced
      <4> QED BY <1>t, <1>r, <4>1
    <3>3. CASE ReadError(d)
      BY <3>3 DEF ReadError
    <3>4. CASE FlushOne(d) \/ FlushFails(d)
      <4>1. PICK q : daemon'[d] = [e EXCEPT !.flush = q]
        BY <3>4, <1>t DEF FlushOne, FlushFails
      <4> QED BY <1>t, <1>r, <4>1
    <3>5. CASE Drop(d)
      <4>1. PICK n : daemon'[d] = [e EXCEPT !.phase = "down", !.link = None, !.saved = n]
        BY <3>5, <1>t DEF Drop
      <4> QED BY <1>t, <1>r, <4>1
    <3>6. CASE Kill(d)
      <4>1. daemon'[d] = [Fresh EXCEPT !.cursor = e.saved, !.saved = e.saved, !.drafts = e.drafts]
        BY <3>6, <1>t DEF Kill
      <4> QED BY <4>1 DEF Fresh
    <3>7. CASE \E m \in Msg : Compose(d, m)
      <4>1. PICK m \in Msg : Compose(d, m)
        BY <3>7
      <4>2. daemon'[d] = [e EXCEPT !.drafts = Append(e.drafts, m), !.unwritten = e.unwritten \cup {m}]
        BY <4>1, <1>t DEF Compose
      <4> QED BY <1>t, <1>r, <4>2
    <3>8. CASE \E m \in Msg : WriteComposed(d, m)
      <4>1. PICK q : daemon'[d] = [e EXCEPT !.unwritten = q]
        BY <3>8, <1>t DEF WriteComposed
      <4> QED BY <1>t, <1>r, <4>1
    <3> QED BY <1>1, <3>1, <3>2, <3>3, <3>4, <3>5, <3>6, <3>7, <3>8 DEF Reading
  <2> QED BY <1>k, <2>1, <2>2
<1>2. CASE \E c \in Conn : Dial(d, c)
  <2>1. PICK c \in Conn : Dial(d, c)
    BY <1>2
  <2>2. /\ handler[c].at = "free" /\ \A x \in Daemon : daemon[x].link # c
        /\ UNCHANGED conns
        /\ handler'[c] = [handler[c] EXCEPT !.at = "hello", !.owner = d, !.cursor = e.cursor]
        /\ daemon'[d] = [e EXCEPT !.phase = "hello", !.link = c]
        /\ \A x \in Daemon : x # d => daemon'[x] = daemon[x]
        /\ \A g \in Conn : g # c => handler'[g] = handler[g]
    BY <2>1, <1>t DEF Dial, Unreferenced
  <2>3. daemon'[d].link = c
    BY <1>t, <1>r, <2>2
  <2>4. handler'[c].owner = d
    <3>1. \A x \in Filer : \A n : LET y == [x EXCEPT !.at = "hello", !.owner = d, !.cursor = n]
             IN y.owner = d
      BY DEF Filer, Goroutine
    <3> QED BY <1>t, <2>2, <3>1
  <2>5. \A x, y \in Daemon : daemon'[x].link = daemon'[y].link /\ daemon'[x].link # None => x = y
    <3> SUFFICES ASSUME NEW x \in Daemon, NEW y \in Daemon,
                        daemon'[x].link = daemon'[y].link, daemon'[x].link # None
                 PROVE  x = y
      OBVIOUS
    <3>1. \A z \in Daemon : z # d => daemon'[z].link = daemon[z].link /\ daemon'[z].link # c
      BY <2>2
    <3> QED BY <1>u, <2>3, <3>1
  <2>6. \A g \in Conn : handler'[g].at # "free" => handler'[g].owner \in Daemon
    BY <1>u, <2>2, <2>4
  <2>7. \A g \in conns' : handler'[g].at \notin {"free", "hello", "register"}
    BY <1>t, <1>u, <2>2
  <2> QED BY <2>5, <2>6, <2>7 DEF LinksInv
<1> QED BY <1>1, <1>2

(* Together: what ComingStepServer and ComingStepClient need, and keep.     *)
ComingInv == LedgerInv /\ LinksInv /\ NothingFallsBetween

(* While the disk takes what is written to it.                              *)
LEMMA ComingStep ==
  ASSUME ~DiskMayFail, ComingInv, [Next]_vars
  PROVE  ComingInv'
<1>1. LedgerInv'
  BY LedgerStep DEF ComingInv
<1>2. TypeInv
  BY DEF ComingInv, LedgerInv
<1>3. CASE Next
  <2>1. CASE \E c \in Conn : Enrolment(c) \/ Filing(c) \/ HangUp(c) \/ Break(c)
    BY <1>1, <1>2, <2>1, ComingStepServer, LinksStepServer DEF ComingInv
  <2>2. CASE \E d \in Daemon : \/ Reading(d) \/ Kill(d) \/ \E c \in Conn : Dial(d, c)
                              \/ \E m \in Msg : Compose(d, m) \/ WriteComposed(d, m)
    BY <1>1, <1>2, <2>2, ComingStepClient, LinksStepClient DEF ComingInv
  <2> QED BY <1>3, <2>1, <2>2 DEF Next
<1>4. CASE UNCHANGED vars
  <2>1. LinksInv'
    BY <1>4 DEF ComingInv, LinksInv, vars
  <2>2. ASSUME NEW c \in conns', NEW m \in Msg, Owed(c, m)' PROVE Coming(c, m)'
    <3>1. Owed(c, m) /\ c \in conns
      BY <1>4, <2>2 DEF Owed, Peer, vars
    <3>2. Coming(c, m)
      BY <3>1 DEF ComingInv, NothingFallsBetween, Owed
    <3> QED BY <1>4, <3>2 DEF Coming, Holds, Composed, Peer, vars
  <2>3. NothingFallsBetween'
    BY <2>2 DEF NothingFallsBetween, Owed
  <2> QED BY <1>1, <2>1, <2>3 DEF ComingInv
<1> QED BY <1>3, <1>4

(* "... the alternative is a window in which a message is sent neither way" *)
(* (backfill): as long as the disk takes what is written to it, there is no *)
(* such window, for any number of messages, of goroutines that fan out, of  *)
(* connections of a person, and of links that break and daemons that are    *)
(* killed.                                                                  *)
THEOREM NoWindow == ASSUME ~DiskMayFail PROVE Spec => []NothingFallsBetween
<1>1. Init => ComingInv
  <2> SUFFICES ASSUME Init PROVE ComingInv
    OBVIOUS
  <2>1. LedgerInv
    BY LedgerInit
  <2>2. LinksInv /\ NothingFallsBetween
    BY DEF Init, Idle, Fresh, LinksInv, NothingFallsBetween
  <2> QED BY <2>1, <2>2 DEF ComingInv
<1>2. ComingInv /\ [Next]_vars => ComingInv'
  BY ComingStep
<1>3. ComingInv => NothingFallsBetween
  BY DEF ComingInv
<1> QED BY <1>1, <1>2, <1>3, PTL DEF Spec
=============================================================================
