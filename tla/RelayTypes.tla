----------------------------- MODULE RelayTypes -----------------------------
(***************************************************************************)
(* Type correctness of Relay, for any number of daemons, persons, messages *)
(* and connections, and the lemmas on records, queues and frames that the  *)
(* proofs of RelayProofs use too.                                          *)
(***************************************************************************)
EXTENDS Relay, TLAPS

----------------------------------------------------------------------------
(* Types. A goroutine in the middle of onMessage has a message: without    *)
(* that, what Mint appends and what File looks up would have no type.      *)

Filer == {h \in Goroutine : h.at \in {"mint", "append", "fanout", "answer"} => h.msg \in Msg}

TypeInv == TypeOK /\ handler \in [Conn -> Filer]

(* The parts of a goroutine, of a client and of a frame have their types.  *)
LEMMA FilerParts ==
  ASSUME NEW h \in Filer
  PROVE  /\ h.cursor \in Nat /\ h.seq \in Nat /\ h.num \in Nat
         /\ h.backlog \in SUBSET [id : Msg, seq : Nat]
         /\ h.msg \in Msg \cup {None} /\ h.people \in Seq(Person) /\ h.targets \in SUBSET Conn
         /\ h.at \in {"mint", "append", "fanout", "answer"} => h.msg \in Msg
  BY DEF Filer, Goroutine

(* The record of a daemon has all its fields, each of its type.            *)
LEMMA ClientParts ==
  ASSUME NEW e \in Client
  PROVE  /\ e.link \in Conn \cup {None} /\ e.cursor \in Nat /\ e.saved \in Nat
         /\ e.drafts \in Seq(Msg) /\ e.unwritten \in SUBSET Msg /\ e.flush \in SUBSET Msg
  BY DEF Client

(* The record of a frame has all its fields, each of its type.             *)
LEMMA FrameParts ==
  ASSUME NEW f \in Frame
  PROVE  f.id \in Msg \cup {None} /\ f.seq \in Nat /\ f.reset \in BOOLEAN
  BY DEF Frame

(* Every frame a goroutine builds is a frame.                              *)
LEMMA FramesTyped ==
  /\ \A r \in BOOLEAN : WelcomeFrame(r) \in Frame
  /\ \A m \in Msg \cup {None}, n \in Nat : MsgFrame(m, n) \in Frame /\ SeqFrame(m, n) \in Frame
  /\ \A n \in Nat : SyncedFrame(n) \in Frame
  /\ ErrorFrame \in Frame
  BY DEF WelcomeFrame, MsgFrame, SeqFrame, SyncedFrame, ErrorFrame, Frame

(* Taking from the front of a queue and putting at its end.                *)
LEMMA Queue ==
  ASSUME NEW S, NEW q \in Seq(S)
  PROVE  /\ \A x \in S : Append(q, x) \in Seq(S)
         /\ q # <<>> => Head(q) \in S /\ Tail(q) \in Seq(S)
  OBVIOUS

(* clientConn.send leaves a sequence of frames on every connection.        *)
LEMMA SendTyped ==
  ASSUME NEW S, NEW c \in Conn, NEW f \in S, toClient \in [Conn -> Seq(S)], Send(c, f)
  PROVE  toClient' \in [Conn -> Seq(S)]
  BY DEF Send

(* One entry of a function of records is replaced.                         *)
LEMMA OneEntry ==
  ASSUME NEW D, NEW R, NEW f \in [D -> R], NEW x \in D, NEW r \in R
  PROVE  [f EXCEPT ![x] = r] \in [D -> R]
  OBVIOUS

(* The same, for a place that need not be one of the function's.           *)
LEMMA AnyEntry ==
  ASSUME NEW D, NEW R, NEW f \in [D -> R], NEW x, NEW r, x \in D => r \in R
  PROVE  [f EXCEPT ![x] = r] \in [D -> R]
  OBVIOUS

(* Daemon.write leaves a sequence of messages on every connection.         *)
LEMMA WriteTyped ==
  ASSUME NEW c, NEW m \in Msg, toServer \in [Conn -> Seq(Msg)], Write(c, m)
  PROVE  toServer' \in [Conn -> Seq(Msg)]
<1> DEFINE q == IF open[c] THEN Append(toServer[c], m) ELSE toServer[c]
<1>1. toServer' = [toServer EXCEPT ![c] = q]
  BY DEF Write
<1>2. c \in Conn => q \in Seq(Msg)
  BY Queue
<1> QED BY <1>1, <1>2, AnyEntry

(* A backlog and a window are sets of numbered messages.                   *)
LEMMA BacklogTyped ==
  ASSUME TypeInv, NEW p, NEW n \in Nat
  PROVE  /\ VisibleSince(p, n) \in SUBSET [id : Msg, seq : Nat]
         /\ RecentWindow(p) \in SUBSET [id : Msg, seq : Nat]
  BY DEF TypeInv, TypeOK, VisibleSince, RecentWindow

(* The initial state has its type.                                         *)
LEMMA TypeInit == Init => TypeInv
<1> SUFFICES ASSUME Init PROVE TypeInv
  OBVIOUS
<1>1. Idle \in Filer
  BY DEF Idle, Filer, Goroutine, Places
<1>2. Fresh \in Client
  BY DEF Fresh, Client
<1> QED
  BY <1>1, <1>2 DEF Init, TypeInv, TypeOK, Filer

(* The steps of a goroutine.                                               *)
LEMMA TypeStepServer ==
  ASSUME TypeInv, NEW c \in Conn, Enrolment(c) \/ Filing(c) \/ HangUp(c) \/ Break(c)
  PROVE  TypeInv'
<1> DEFINE h == handler[c]
<1>h. h \in Filer /\ h \in Goroutine
  BY DEF TypeInv, Filer
<1>p. /\ h.cursor \in Nat /\ h.seq \in Nat /\ h.num \in Nat
      /\ h.backlog \in SUBSET [id : Msg, seq : Nat]
      /\ h.msg \in Msg \cup {None} /\ h.people \in Seq(Person) /\ h.targets \in SUBSET Conn
      /\ h.at \in {"mint", "append", "fanout", "answer"} => h.msg \in Msg
  BY <1>h, FilerParts
<1>t. /\ store \in [Msg -> Nat] /\ nextSeq \in Nat /\ minted \in Seq(Msg)
      /\ conns \subseteq Conn /\ handler \in [Conn -> Filer] /\ open \in [Conn -> BOOLEAN]
      /\ toServer \in [Conn -> Seq(Msg)] /\ toClient \in [Conn -> Seq(Frame)]
      /\ daemon \in [Daemon -> Client] /\ cache \in [Daemon -> [Msg -> Nat]]
      /\ breaks \in Nat /\ kills \in Nat
  BY DEF TypeInv, TypeOK
<1>s. SUFFICES /\ store' \in [Msg -> Nat] /\ nextSeq' \in Nat /\ minted' \in Seq(Msg)
               /\ conns' \subseteq Conn /\ handler' \in [Conn -> Filer] /\ open' \in [Conn -> BOOLEAN]
               /\ toServer' \in [Conn -> Seq(Msg)] /\ toClient' \in [Conn -> Seq(Frame)]
               /\ daemon' \in [Daemon -> Client] /\ cache' \in [Daemon -> [Msg -> Nat]]
               /\ breaks' \in Nat /\ kills' \in Nat
  BY DEF TypeInv, TypeOK, Filer
<1>1. CASE Enrol(c)
  <2>1. \A g \in Filer, n \in Nat, r \in BOOLEAN :
           [g EXCEPT !.at = "register", !.seq = n, !.reset = r] \in Filer
    <3> TAKE g \in Filer, n \in Nat, r \in BOOLEAN
    <3> DEFINE g2 == [g EXCEPT !.at = "register", !.seq = n, !.reset = r]
    <3>1. g \in Goroutine
      BY DEF Filer
    <3>2. g2 \in Goroutine
      BY <3>1 DEF Goroutine, Places
    <3>3. g2.at = "register"
      BY <3>1 DEF Goroutine
    <3> QED BY <3>2, <3>3 DEF Filer
  <2> DEFINE abandon == h.cursor > nextSeq
  <2>0. abandon \in BOOLEAN
    BY <1>t, <1>p
  <2>2. [h EXCEPT !.at = "register", !.seq = nextSeq, !.reset = abandon] \in Filer
    BY <1>t, <1>h, <2>0, <2>1
  <2>3. Send(c, WelcomeFrame(abandon)) /\ WelcomeFrame(abandon) \in Frame
    BY <1>1, <2>0, FramesTyped DEF Enrol
  <2>4. toClient' \in [Conn -> Seq(Frame)]
    BY <1>t, <2>3, SendTyped
  <2>5. handler' \in [Conn -> Filer]
    BY <1>1, <1>t, <2>2 DEF Enrol
  <2> QED BY <1>1, <1>t, <2>4, <2>5 DEF Enrol
<1>2. CASE EnrolFails(c)
  <2>1. Idle \in Filer
    BY DEF Idle, Filer, Goroutine, Places
  <2> QED BY <1>2, <1>t, <2>1 DEF EnrolFails
<1>3. CASE Register(c)
  <2>1. \A g \in Filer : [g EXCEPT !.at = "backfill"] \in Filer
    BY DEF Filer, Goroutine, Places
  <2> QED BY <1>3, <1>t, <1>h, <2>1 DEF Register
<1>4. CASE Backfill(c)
  <2>1. \A g \in Filer, w \in BOOLEAN, b \in SUBSET [id : Msg, seq : Nat] :
           [g EXCEPT !.at = "replay", !.window = w, !.backlog = b] \in Filer
    BY DEF Filer, Goroutine, Places
  <2> DEFINE missed == VisibleSince(Peer(c), h.cursor)
             abandon == h.reset \/ Cardinality(missed) > MaxBacklog
  <2>2. abandon \in BOOLEAN
    OBVIOUS
  <2>3. (IF abandon THEN RecentWindow(Peer(c)) ELSE missed) \in SUBSET [id : Msg, seq : Nat]
    BY <1>p, BacklogTyped
  <2>4. handler' \in [Conn -> Filer]
    BY <1>4, <1>t, <1>h, <2>1, <2>2, <2>3 DEF Backfill
  <2> QED BY <1>4, <1>t, <2>4 DEF Backfill
<1>5. CASE Replay(c)
  <2>1. \A g \in Filer : \A s : [g EXCEPT !.backlog = @ \ {s}] \in Filer
    BY DEF Filer, Goroutine
  <2>2. PICK s \in h.backlog : /\ Send(c, MsgFrame(s.id, s.seq))
                               /\ handler' = [handler EXCEPT ![c].backlog = @ \ {s}]
    BY <1>5 DEF Replay
  <2>3. handler' \in [Conn -> Filer]
    BY <1>t, <1>h, <2>1, <2>2
  <2>4. toClient' \in [Conn -> Seq(Frame)]
    BY <1>t, <1>p, <2>2, FramesTyped, SendTyped
  <2> QED BY <1>5, <1>t, <2>3, <2>4 DEF Replay
<1>6. CASE Synced(c)
  <2>1. \A g \in Filer : [g EXCEPT !.at = "read"] \in Filer
    BY DEF Filer, Goroutine, Places
  <2>2. toClient' \in [Conn -> Seq(Frame)]
    BY <1>6, <1>t, <1>p, FramesTyped, SendTyped DEF Synced
  <2> QED BY <1>6, <1>t, <1>h, <2>1, <2>2 DEF Synced
<1>7. CASE AnswerResend(c)
  <2>1. Head(toServer[c]) \in Msg /\ Tail(toServer[c]) \in Seq(Msg)
    BY <1>7, <1>t, Queue DEF AnswerResend
  <2>2. toClient' \in [Conn -> Seq(Frame)]
    BY <1>7, <1>t, <2>1, FramesTyped, SendTyped DEF AnswerResend
  <2> QED BY <1>7, <1>t, <2>1, <2>2 DEF AnswerResend
<1>8. CASE TakeMessage(c)
  <2>1. \A g \in Filer, m \in Msg : [g EXCEPT !.at = "mint", !.msg = m] \in Filer
    BY DEF Filer, Goroutine, Places
  <2>2. Head(toServer[c]) \in Msg /\ Tail(toServer[c]) \in Seq(Msg)
    BY <1>8, <1>t, Queue DEF TakeMessage
  <2> QED BY <1>8, <1>t, <1>h, <2>1, <2>2 DEF TakeMessage
<1>9. CASE Mint(c)
  <2>1. \A g \in Filer, n \in Nat :
           g.msg \in Msg => [g EXCEPT !.at = "append", !.num = n] \in Filer
    BY DEF Filer, Goroutine, Places
  <2>2. h.msg \in Msg
    BY <1>9, <1>p DEF Mint
  <2>3. nextSeq + 1 \in Nat
    BY <1>t
  <2>4. handler' \in [Conn -> Filer]
    BY <1>9, <1>t, <1>h, <2>1, <2>2, <2>3 DEF Mint
  <2>5. minted' \in Seq(Msg)
    BY <1>9, <1>t, <2>2, Queue DEF Mint
  <2> QED BY <1>9, <1>t, <2>3, <2>4, <2>5 DEF Mint
<1>10. CASE File(c)
  <2>1. \A g \in Filer, q \in Seq(Person) :
           g.msg \in Msg => [g EXCEPT !.at = "fanout", !.people = q] \in Filer
    BY DEF Filer, Goroutine, Places
  <2>2. h.msg \in Msg /\ Recipients[h.msg] \in Seq(Person)
    BY <1>10, <1>p, ConstantsAssumption DEF File, ConstantsAssumption
  <2>3. handler' \in [Conn -> Filer]
    BY <1>10, <1>t, <1>h, <2>1, <2>2 DEF File
  <2>4. store' \in [Msg -> Nat] /\ nextSeq' \in Nat
    BY <1>10, <1>t, <1>p DEF File, FileInMemory, Larger
  <2> QED BY <1>10, <1>t, <2>3, <2>4 DEF File
<1>11. CASE FileFails(c)
  <2>1. \A g \in Filer : Listening(g) \in Filer
    BY DEF Filer, Goroutine, Places, Listening
  <2>2. handler' \in [Conn -> Filer]
    BY <1>11, <1>t, <1>h, <2>1 DEF FileFails
  <2>3. store' \in [Msg -> Nat] /\ nextSeq' \in Nat
    BY <1>11, <1>t, <1>p DEF FileFails, FileInMemory, Larger
  <2>4. toClient' \in [Conn -> Seq(Frame)]
    BY <1>11, <1>t, FramesTyped, SendTyped DEF FileFails
  <2> QED BY <1>11, <1>t, <2>2, <2>3, <2>4 DEF FileFails
<1>12. CASE FanOut(c)
  <2>1. \A g \in Filer, q \in Seq(Person), s \in SUBSET Conn :
           [g EXCEPT !.people = q, !.targets = s] \in Filer
    BY DEF Filer, Goroutine
  <2>2. Tail(h.people) \in Seq(Person)
    BY <1>12, <1>p, Queue DEF FanOut
  <2>3. \A p : ConnsOf(p) \in SUBSET Conn
    BY <1>t DEF ConnsOf
  <2>4. handler' \in [Conn -> Filer]
    BY <1>12, <1>t, <1>h, <2>1, <2>2, <2>3 DEF FanOut
  <2> QED BY <1>12, <1>t, <2>4 DEF FanOut
<1>13. CASE AnswerSender(c)
  <2>1. \A g \in Filer, s \in SUBSET Conn :
           g.msg \in Msg => /\ Listening(g) \in Filer
                            /\ [g EXCEPT !.at = "answer", !.targets = s] \in Filer
    BY DEF Filer, Goroutine, Places, Listening
  <2>2. h.msg \in Msg
    BY <1>13, <1>p DEF AnswerSender
  <2>3. ConnsOf(Peer(c)) \in SUBSET Conn
    BY <1>t DEF ConnsOf
  <2>4. handler' \in [Conn -> Filer]
    BY <1>13, <1>t, <1>h, <2>1, <2>2, <2>3 DEF AnswerSender
  <2> QED BY <1>13, <1>t, <2>4 DEF AnswerSender
<1>14. CASE \E t \in Conn : RelayTo(c, t)
  <2>0. PICK t \in Conn : RelayTo(c, t)
    BY <1>14
  <2>1. \A g \in Filer : \A x : [g EXCEPT !.targets = @ \ {x}] \in Filer
    BY DEF Filer, Goroutine
  <2>2. toClient' \in [Conn -> Seq(Frame)]
    BY <2>0, <1>t, <1>p, FramesTyped, SendTyped DEF RelayTo
  <2>3. handler' \in [Conn -> Filer]
    BY <2>0, <1>t, <1>h, <2>1 DEF RelayTo
  <2> QED BY <2>0, <1>t, <2>2, <2>3 DEF RelayTo
<1>15. CASE \E t \in Conn : Answer(c, t)
  <2>0. PICK t \in Conn : Answer(c, t)
    BY <1>15
  <2>1. \A g \in Filer : \A x : /\ Listening(g) \in Filer
                            /\ [g EXCEPT !.targets = g.targets \ {x}] \in Filer
    <3>1. \A g \in Filer : \A x : [g EXCEPT !.targets = g.targets \ {x}] \in Filer
      BY DEF Filer, Goroutine
    <3>2. \A g \in Goroutine : Listening(g) \in Goroutine /\ Listening(g).at = "read"
      BY DEF Goroutine, Places, Listening
    <3>3. \A g \in Filer : Listening(g) \in Filer
      BY <3>2 DEF Filer
    <3> QED BY <3>1, <3>3
  <2>2. toClient' \in [Conn -> Seq(Frame)]
    BY <2>0, <1>t, <1>p, FramesTyped, SendTyped DEF Answer
  <2>3. handler' \in [Conn -> Filer]
    <3> DEFINE left == h.targets \ {t}
               r == IF left = {} THEN Listening(h) ELSE [h EXCEPT !.targets = left]
    <3>1. handler' = [handler EXCEPT ![c] = r]
      BY <2>0, <1>t DEF Answer
    <3>2. r \in Filer
      BY <1>h, <2>1
    <3> QED BY <3>1, <3>2, <1>t, OneEntry
  <2> QED BY <2>0, <1>t, <2>2, <2>3 DEF Answer
<1>16. CASE HangUp(c)
  <2>1. Idle \in Filer
    BY DEF Idle, Filer, Goroutine, Places
  <2>2. toServer' \in [Conn -> Seq(Msg)]
    BY <1>16, <1>t DEF HangUp
  <2> QED BY <1>16, <1>t, <2>1, <2>2 DEF HangUp
<1>17. CASE Break(c)
  <2>1. breaks' \in Nat
    BY <1>17, <1>t DEF Break
  <2> QED BY <1>17, <1>t, <2>1 DEF Break
<1> QED
  BY <1>1, <1>2, <1>3, <1>4, <1>5, <1>6, <1>7, <1>8, <1>9, <1>10, <1>11, <1>12, <1>13,
     <1>14, <1>15, <1>16, <1>17 DEF Enrolment, Filing

(* The steps of a daemon, and its end.                                     *)
LEMMA TypeStepClient ==
  ASSUME TypeInv, NEW d \in Daemon,
         \/ Reading(d) \/ Kill(d)
         \/ \E c \in Conn : Dial(d, c)
         \/ \E m \in Msg : Compose(d, m) \/ WriteComposed(d, m)
  PROVE  TypeInv'
<1> DEFINE e == daemon[d]
<1>t. /\ store \in [Msg -> Nat] /\ nextSeq \in Nat /\ minted \in Seq(Msg)
      /\ conns \subseteq Conn /\ handler \in [Conn -> Filer] /\ open \in [Conn -> BOOLEAN]
      /\ toServer \in [Conn -> Seq(Msg)] /\ toClient \in [Conn -> Seq(Frame)]
      /\ daemon \in [Daemon -> Client] /\ cache \in [Daemon -> [Msg -> Nat]]
      /\ breaks \in Nat /\ kills \in Nat
  BY DEF TypeInv, TypeOK
<1>e. e \in Client
  BY <1>t
<1>p. /\ e.link \in Conn \cup {None} /\ e.cursor \in Nat /\ e.saved \in Nat
      /\ e.drafts \in Seq(Msg) /\ e.unwritten \in SUBSET Msg /\ e.flush \in SUBSET Msg
  BY <1>e, ClientParts
<1>s. SUFFICES /\ store' \in [Msg -> Nat] /\ nextSeq' \in Nat /\ minted' \in Seq(Msg)
               /\ conns' \subseteq Conn /\ handler' \in [Conn -> Filer] /\ open' \in [Conn -> BOOLEAN]
               /\ toServer' \in [Conn -> Seq(Msg)] /\ toClient' \in [Conn -> Seq(Frame)]
               /\ daemon' \in [Daemon -> Client] /\ cache' \in [Daemon -> [Msg -> Nat]]
               /\ breaks' \in Nat /\ kills' \in Nat
  BY DEF TypeInv, TypeOK, Filer
<1>r. ASSUME NEW type, Reads(d, type)
      PROVE  NextFrame(d).seq \in Nat /\ toClient' \in [Conn -> Seq(Frame)]
  <2>1. e.link \in Conn /\ toClient[e.link] # <<>>
        /\ toClient' = [toClient EXCEPT ![e.link] = Tail(@)]
    BY <1>r, <1>p DEF Reads
  <2>2. Head(toClient[e.link]) \in Frame /\ Tail(toClient[e.link]) \in Seq(Frame)
    BY <2>1, <1>t, Queue
  <2>3. NextFrame(d).seq \in Nat
    BY <2>2, FrameParts DEF NextFrame
  <2> QED BY <2>1, <2>2, <2>3, <1>t
<1>1. CASE \E c \in Conn : Dial(d, c)
  <2>1. PICK c \in Conn : Dial(d, c)
    BY <1>1
  <2>2. \A g \in Filer, n \in Nat :
           [g EXCEPT !.at = "hello", !.owner = d, !.cursor = n] \in Filer
    BY DEF Filer, Goroutine, Places
  <2>3. \A x \in Client : [x EXCEPT !.phase = "hello", !.link = c] \in Client
    BY DEF Client
  <2>4. [handler[c] EXCEPT !.at = "hello", !.owner = d, !.cursor = e.cursor] \in Filer
    BY <1>t, <1>p, <2>2
  <2>5. [e EXCEPT !.phase = "hello", !.link = c] \in Client
    BY <1>e, <2>3
  <2>6. handler' \in [Conn -> Filer]
    BY <2>1, <2>4, <1>t DEF Dial
  <2>7. daemon' \in [Daemon -> Client]
    BY <2>1, <2>5, <1>t DEF Dial
  <2> QED BY <2>1, <2>6, <2>7, <1>t DEF Dial
<1>2. CASE ReadWelcome(d)
  <2>1. \A x \in Client, n \in Nat : [x EXCEPT !.phase = "live", !.cursor = n] \in Client
    BY DEF Client
  <2>2. [e EXCEPT !.phase = "live", !.cursor = IF NextFrame(d).reset THEN 0 ELSE @] \in Client
    BY <1>e, <1>p, <2>1
  <2>3. daemon' \in [Daemon -> Client]
    BY <1>2, <1>t, <2>2 DEF ReadWelcome
  <2>4. toClient' \in [Conn -> Seq(Frame)]
    BY <1>2, <1>r DEF ReadWelcome
  <2> QED BY <1>2, <1>t, <2>3, <2>4 DEF ReadWelcome
<1>3. CASE ReadMessage(d) \/ ReadSeq(d)
  <2>1. \A x \in Client, n \in Nat : [x EXCEPT !.cursor = Larger(@, n)] \in Client
    BY DEF Client, Larger
  <2>2. NextFrame(d).seq \in Nat /\ toClient' \in [Conn -> Seq(Frame)]
    BY <1>3, <1>r DEF ReadMessage, ReadSeq
  <2>3. daemon' = [daemon EXCEPT ![d].cursor = Larger(@, NextFrame(d).seq)]
    BY <1>3 DEF ReadMessage, ReadSeq
  <2>4. daemon' \in [Daemon -> Client]
    BY <1>e, <1>t, <2>1, <2>2, <2>3
  <2>5. cache' \in [Daemon -> [Msg -> Nat]]
    <3>1. CASE ReadMessage(d)
      BY <3>1, <1>t, <2>2 DEF ReadMessage
    <3>2. CASE ReadSeq(d)
      BY <3>2, <1>t, <2>2 DEF ReadSeq
    <3> QED BY <1>3, <3>1, <3>2
  <2> QED BY <1>3, <1>t, <2>2, <2>4, <2>5 DEF ReadMessage, ReadSeq
<1>4. CASE ReadSynced(d)
  <2> DEFINE n == Larger(e.cursor, NextFrame(d).seq)
  <2>1. \A x \in Client, k \in Nat, q \in SUBSET Msg :
           [x EXCEPT !.cursor = k, !.saved = k, !.flush = q] \in Client
    BY DEF Client
  <2>2. NextFrame(d).seq \in Nat /\ toClient' \in [Conn -> Seq(Frame)]
    BY <1>4, <1>r DEF ReadSynced
  <2>3. n \in Nat
    BY <2>2, <1>p DEF Larger
  <2>4. Queued(d) \in SUBSET Msg
    BY <1>p DEF Queued, Composed
  <2>5. [e EXCEPT !.cursor = n, !.saved = n, !.flush = Queued(d)] \in Client
    BY <1>e, <2>1, <2>3, <2>4
  <2>6. daemon' \in [Daemon -> Client]
    BY <1>4, <1>t, <2>5 DEF ReadSynced
  <2> QED BY <1>4, <1>t, <2>2, <2>6 DEF ReadSynced
<1>5. CASE ReadError(d)
  <2>1. toClient' \in [Conn -> Seq(Frame)]
    BY <1>5, <1>r DEF ReadError
  <2> QED BY <1>5, <1>t, <2>1 DEF ReadError
<1>6. CASE FlushOne(d)
  <2>1. \A x \in Client, m \in Msg : [x EXCEPT !.flush = @ \ {m}] \in Client
    BY DEF Client
  <2>2. PICK m \in e.flush : /\ Write(e.link, m)
                             /\ daemon' = [daemon EXCEPT ![d].flush = @ \ {m}]
    BY <1>6 DEF FlushOne
  <2>3. daemon' \in [Daemon -> Client]
    BY <1>e, <1>t, <1>p, <2>1, <2>2
  <2>4. toServer' \in [Conn -> Seq(Msg)]
    BY <1>t, <1>p, <2>2, WriteTyped
  <2> QED BY <1>6, <1>t, <2>3, <2>4 DEF FlushOne
<1>7. CASE FlushFails(d)
  <2>1. \A x \in Client : [x EXCEPT !.flush = {}] \in Client
    BY DEF Client
  <2> QED BY <1>7, <1>e, <1>t, <2>1 DEF FlushFails
<1>8. CASE Drop(d)
  <2>1. \A x \in Client, k \in Nat :
           [x EXCEPT !.phase = "down", !.link = None, !.saved = k] \in Client
    BY DEF Client
  <2>2. [e EXCEPT !.phase = "down", !.link = None,
                  !.saved = IF e.phase = "live" THEN e.cursor ELSE @] \in Client
    BY <1>e, <1>p, <2>1
  <2>3. daemon' \in [Daemon -> Client]
    BY <1>8, <1>t, <2>2 DEF Drop
  <2>4. toClient' \in [Conn -> Seq(Frame)]
    <3>1. <<>> \in Seq(Frame)
      OBVIOUS
    <3> QED BY <1>8, <1>t, <3>1, AnyEntry DEF Drop
  <2> QED BY <1>8, <1>t, <2>3, <2>4 DEF Drop
<1>9. CASE \E m \in Msg : Compose(d, m)
  <2>1. PICK m \in Msg : Compose(d, m)
    BY <1>9
  <2>2. \A x \in Client, q \in Seq(Msg), u \in SUBSET Msg :
           [x EXCEPT !.drafts = q, !.unwritten = u] \in Client
    BY DEF Client
  <2>3. Append(e.drafts, m) \in Seq(Msg)
    BY <1>p, Queue
  <2>4. [e EXCEPT !.drafts = Append(@, m), !.unwritten = @ \cup {m}] \in Client
    BY <1>e, <1>p, <2>2, <2>3
  <2>5. daemon' \in [Daemon -> Client]
    BY <1>t, <2>1, <2>4 DEF Compose
  <2> QED BY <1>t, <2>1, <2>5 DEF Compose
<1>10. CASE \E m \in Msg : WriteComposed(d, m)
  <2>1. PICK m \in Msg : WriteComposed(d, m)
    BY <1>10
  <2>2. \A x \in Client : [x EXCEPT !.unwritten = @ \ {m}] \in Client
    BY DEF Client
  <2>3. daemon' \in [Daemon -> Client]
    BY <1>e, <1>t, <2>1, <2>2 DEF WriteComposed
  <2>4. toServer' \in [Conn -> Seq(Msg)]
    BY <1>t, <2>1, WriteTyped DEF WriteComposed
  <2> QED BY <1>t, <2>1, <2>3, <2>4 DEF WriteComposed
<1>11. CASE Kill(d)
  <2>1. \A k \in Nat, q \in Seq(Msg) :
           [Fresh EXCEPT !.cursor = k, !.saved = k, !.drafts = q] \in Client
    BY DEF Fresh, Client
  <2>2. [Fresh EXCEPT !.cursor = e.saved, !.saved = e.saved, !.drafts = e.drafts] \in Client
    BY <1>p, <2>1
  <2>3. daemon' \in [Daemon -> Client]
    BY <1>11, <1>t, <2>2 DEF Kill
  <2>4. toClient' \in [Conn -> Seq(Frame)]
    <3>1. <<>> \in Seq(Frame)
      OBVIOUS
    <3> QED BY <1>11, <1>t, <3>1, AnyEntry DEF Kill
  <2>5. open' \in [Conn -> BOOLEAN] /\ kills' \in Nat
    BY <1>11, <1>t, AnyEntry DEF Kill
  <2> QED BY <1>11, <1>t, <2>3, <2>4, <2>5 DEF Kill
<1> QED
  BY <1>1, <1>2, <1>3, <1>4, <1>5, <1>6, <1>7, <1>8, <1>9, <1>10, <1>11 DEF Reading

(* No step breaks the type invariant.                                      *)
LEMMA TypeStep == TypeInv /\ [Next]_vars => TypeInv'
<1>1. ASSUME TypeInv, UNCHANGED vars PROVE TypeInv'
  BY <1>1 DEF TypeInv, TypeOK, vars
<1>2. ASSUME TypeInv, Next PROVE TypeInv'
  BY <1>2, TypeStepServer, TypeStepClient DEF Next
<1> QED BY <1>1, <1>2

(* Every variable keeps its type.                                          *)
THEOREM TypeCorrect == Spec => []TypeOK
<1>1. TypeInv => TypeOK
  BY DEF TypeInv
<1> QED BY <1>1, TypeInit, TypeStep, PTL DEF Spec
=============================================================================
