---------------------------- MODULE OutboxProofs ----------------------------
(***************************************************************************)
(* Of Outbox: types, the order in which a conversation is shown, and what  *)
(* memory, journal, cursor file and server know of each other's messages,  *)
(* for any messages and clocks, any number of calls at once, and any       *)
(* number of broken links and killed daemons.                              *)
(***************************************************************************)
EXTENDS Outbox, SequenceTheorems, FiniteSetTheorems, WellFoundedInduction, TLAPS

FrameType == [t : {"msg", "seq", "synced"}, id : Msg, seq : Nat]
Places == {"idle", "filed", "kept", "wired", "marked", "done", "refused", "gone"}

DaemonOK ==
    /\ alive \in BOOLEAN /\ marking \in BOOLEAN
    /\ send \in [Own -> Places] /\ net \in {"down", "up", "broken"}
    /\ cursor \in Nat /\ saved \in Nat /\ faults \in 0 .. MaxFaults

(* A daemon that is not running has nothing but what is on disk.           *)
DeadOK ==
    ~alive => /\ list = <<>> /\ unread = 0 /\ line = <<>> /\ flush = <<>> /\ toDaemon = <<>>
              /\ ~marking /\ net = "down" /\ cursor = 0 /\ UnderWay = {}

ListOK == list \in Seq(CopyType)
FileOK == file \in FileType /\ IsFiniteSet({m \in Msg : OnFile(file, m)})

(* What the link's goroutine works on is in memory.                        *)
LineOK ==
    /\ line \in Seq(LineType) /\ Len(line) <= 1
    /\ line # <<>> => line[1].id \in Ids(list)

FlushOK == flush \in Seq(Own) /\ \A i \in DOMAIN flush : flush[i] \in Ids(list)

(* The server numbers nothing twice; a frame carries the number its        *)
(* message has, and none is higher than what was given away.               *)
LedgerOK ==
    /\ ledger \in Seq(Msg)
    /\ \A i, j \in DOMAIN ledger : ledger[i] = ledger[j] => i = j

NumberIn(l, m, seq) == seq \in DOMAIN l /\ l[seq] = m
Numbers(m, seq) == NumberIn(ledger, m, seq)

FramesOK ==
    /\ toDaemon \in Seq(FrameType)
    /\ \A i \in DOMAIN toDaemon :
          /\ toDaemon[i].seq <= Len(ledger)
          /\ toDaemon[i].t # "synced" => Numbers(toDaemon[i].id, toDaemon[i].seq)

(* A call is about a message that memory has, and before its call nobody   *)
(* has heard of a message.                                                 *)
CallsOK ==
    /\ alive => UnderWay \subseteq Ids(list)
    /\ \A m \in Own : send[m] = "idle" =>
          m \notin Ids(list) /\ ~OnFile(file, m) /\ m \notin Range(ledger)

Typed == DaemonOK /\ DeadOK /\ ListOK /\ FileOK /\ LineOK /\ FlushOK /\ LedgerOK /\ FramesOK /\ CallsOK

(* The list is in order, and names nothing twice.                          *)
Ordered(l) == \A i, j \in DOMAIN l : i < j => Before(l[i], l[j]) /\ l[i].id # l[j].id

(* What counts as delivered, in memory, on disk or on the way there.       *)
DeliveredOK ==
    /\ \A c \in Range(list) : c.state = "delivered" => c.id \in Range(ledger)
    /\ \A m \in Msg : file.of[m].state = "delivered" => m \in Range(ledger)
    /\ line # <<>> => (line[1].state = "delivered" => line[1].id \in Range(ledger))

(* A line that is not swallowed is in the journal, and what is there was   *)
(* accepted; what is there is read back.                                   *)
KeptOK ==
    Promised => \A m \in Own :
        /\ send[m] \in {"kept", "wired", "marked", "done"} => OnFile(file, m)
        /\ send[m] = "done" /\ alive => m \in Ids(list)

(* What somebody else wrote and memory holds is in the journal, or is the  *)
(* very line to be written.                                                *)
Written1(m) == OnFile(file, m) \/ (line # <<>> /\ line[1].k = "m" /\ line[1].id = m)
OthersOK == Promised => \A m \in Others \cap Ids(list) : Written1(m)

CursorOK ==
    /\ saved <= Len(ledger) /\ cursor <= Len(ledger) /\ (alive => saved <= cursor)
    /\ Promised => \A i \in 1 .. saved : ledger[i] \in Others => OnFile(file, ledger[i])
    /\ Promised => \A i \in 1 .. cursor : ledger[i] \in Others => Written1(ledger[i])

(* A session leaves nothing out: what the cursor has not passed is on its  *)
(* way, and nothing before it will make the cursor pass it.                *)
ReplayOK ==
    net = "up" => \A j \in cursor + 1 .. Len(ledger) : ledger[j] \in Others =>
        \E k \in DOMAIN toDaemon :
            /\ toDaemon[k].t = "msg" /\ toDaemon[k].id = ledger[j] /\ toDaemon[k].seq = j
            /\ \A i \in 1 .. k - 1 : toDaemon[i].seq < j

(* The numbers in memory, on disk and on the way there are the server's; a *)
(* number that is to be written is in memory.                              *)
NumberedOK ==
    /\ \A c \in Range(list) : c.seq # 0 => Numbers(c.id, c.seq)
    /\ \A m \in Msg : file.of[m].seq # 0 => Numbers(m, file.of[m].seq)
    /\ line # <<>> /\ line[1].k \in {"m", "q"} =>
          /\ Numbers(line[1].id, line[1].seq)
          /\ \A c \in Range(list) : c.id = line[1].id => c.seq = line[1].seq

(* What the journal says of a message is what memory says, or is about to  *)
(* be written.                                                             *)
Owed(c) == line # <<>> /\ line[1].k \in {"m", "q"} /\ line[1].id = c.id /\ line[1].seq = c.seq
JournalOK ==
    alive /\ Promised =>
        /\ \A m \in Msg : OnFile(file, m) => m \in Ids(list)
        /\ \A m \in Ids(list) : Written1(m) \/ (m \in Own /\ send[m] \in {"filed", "refused"})
        /\ \A c \in Range(list) : file.of[c.id].seq = c.seq \/ Owed(c)

UnreadIds(l) == {c.id : c \in {d \in Range(l) : ~d.read}}
BadgeOK == IsFiniteSet(UnreadIds(list)) /\ unread = Cardinality(UnreadIds(list))

IInv == /\ Typed /\ Ordered(list) /\ DeliveredOK /\ KeptOK /\ OthersOK /\ CursorOK /\ ReplayOK
        /\ NumberedOK /\ JournalOK /\ BadgeOK

----------------------------------------------------------------------------
(* The order.                                                              *)

(* The least of some natural numbers is one of them.                       *)
LEMMA LeastIsOne ==
  ASSUME NEW S, S \subseteq Nat, S # {}
  PROVE  Min(S) \in S /\ \A y \in S : Min(S) <= y
  <1>1. PICK x \in S : \A y \in S : <<y, x>> \notin OpToRel(<, Nat)
      BY NatLessThanWellFounded, WFMin
  <1>2. \A y \in S : ~ (y < x)
      BY <1>1, Zenon DEF OpToRel
  <1>3. \A y \in S : x =< y
      BY <1>2
  <1> QED
      BY <1>3 DEF Min

LEMMA Clocks ==
  /\ \A m \in Msg : Sent[m] \in Nat
  /\ \A m, n \in Msg : Sent[m] = Sent[n] => m = n
  BY OutboxAssumption

LEMMA BeforeTransitive ==
  ASSUME NEW x \in CopyType, NEW y \in CopyType, NEW z \in CopyType, Before(x, y), Before(y, z)
  PROVE  Before(x, z)
  BY Clocks DEF Before, CopyType

LEMMA BeforeTotal ==
  ASSUME NEW x \in CopyType, NEW y \in CopyType, x.id # y.id
  PROVE  Before(x, y) <=> ~Before(y, x)
  BY Clocks DEF Before, CopyType

(* The order looks at who a copy is of, and at its number.                 *)
LEMMA BeforeLooksAt ==
  ASSUME NEW x, NEW y, NEW u, NEW v, x.id = u.id, x.seq = u.seq, y.id = v.id, y.seq = v.seq
  PROVE  Before(x, y) <=> Before(u, v)
  BY DEF Before

----------------------------------------------------------------------------
(* The list.                                                               *)

LEMMA Members ==
  ASSUME NEW l \in Seq(CopyType)
  PROVE  /\ DOMAIN l = 1 .. Len(l) /\ Len(l) \in Nat
         /\ \A i \in DOMAIN l : l[i] \in CopyType /\ l[i] \in Range(l) /\ l[i].id \in Ids(l)
         /\ \A c \in Range(l) : c \in CopyType /\ c.id \in Ids(l) /\ \E i \in DOMAIN l : l[i] = c
         /\ \A m \in Ids(l) : m \in Msg /\ \E c \in Range(l) : c.id = m
  <1>5. DOMAIN l = 1 .. Len(l) /\ Len(l) \in Nat /\ \A i \in DOMAIN l : l[i] \in CopyType
      OBVIOUS
  <1>6. \A c \in CopyType : c.id \in Msg
      BY DEF CopyType
  <1>1. /\ DOMAIN l = 1 .. Len(l) /\ Len(l) \in Nat
        /\ \A i \in DOMAIN l : l[i] \in CopyType /\ l[i].id \in Msg
      BY <1>5, <1>6
  <1>2. \A i \in DOMAIN l : l[i] \in Range(l) /\ l[i].id \in Ids(l)
      BY DEF Range, Ids
  <1>3. \A c \in Range(l) : c \in CopyType /\ c.id \in Ids(l) /\ \E i \in DOMAIN l : l[i] = c
      BY <1>1, <1>2 DEF Range
  <1>4. ASSUME NEW m \in Ids(l) PROVE m \in Msg /\ \E c \in Range(l) : c.id = m
      <2>1. PICK i \in DOMAIN l : l[i].id = m
          BY DEF Ids
      <2> QED
          BY <1>1, <1>2, <2>1
  <1> QED
      BY <1>1, <1>2, <1>3, <1>4

(* In a list in order a message has one copy.                              *)
LEMMA OneCopy ==
  ASSUME NEW l \in Seq(CopyType), Ordered(l), NEW c \in Range(l), NEW d \in Range(l), c.id = d.id
  PROVE  c = d
  <1>1. PICK i, j \in DOMAIN l : l[i] = c /\ l[j] = d
      BY DEF Range
  <1>2. i \in Nat /\ j \in Nat
      BY <1>1
  <1> QED
      BY <1>1, <1>2 DEF Ordered

(* Where a copy is inserted, and what moves.                               *)
PlacedAt(l, p, c) == SubSeq(l, 1, p - 1) \o <<c>> \o SubSeq(l, p, Len(l))

(* r is l with c at p: what was before p stays, the rest moves by one.      *)
HasAt(l, p, c, r) ==
    /\ r \in Seq(CopyType) /\ Len(r) = Len(l) + 1
    /\ r[p] = c
    /\ \A i \in 1 .. p - 1 : r[i] = l[i]
    /\ \A i \in p + 1 .. Len(l) + 1 : r[i] = l[i - 1]

LEMMA InsertShape ==
  ASSUME NEW l \in Seq(CopyType), NEW c \in CopyType
  PROVE  \E p \in 1 .. Len(l) + 1 :
            /\ InsertOrdered(l, c) = PlacedAt(l, p, c)
            /\ \A i \in 1 .. p - 1 : Before(l[i], c)
            /\ p <= Len(l) => ~Before(l[p], c)
  <1> DEFINE places == {i \in 1 .. Len(l) + 1 : i \in DOMAIN l => ~Before(l[i], c)}
  <1> DEFINE p == Min(places)
  <1>1. Len(l) + 1 \in places /\ places \subseteq Nat
      OBVIOUS
  <1>2. p \in places /\ \A y \in places : p <= y
      BY <1>1, LeastIsOne
  <1>3. InsertOrdered(l, c) = PlacedAt(l, p, c)
      BY DEF InsertOrdered, InsertAt, PlacedAt
  <1>4. p \in 1 .. Len(l) + 1 /\ (p <= Len(l) => ~Before(l[p], c))
      BY <1>2
  <1>5. \A i \in 1 .. p - 1 : Before(l[i], c)
      <2> TAKE i \in 1 .. p - 1
      <2>1. i \in 1 .. Len(l) + 1 /\ i \in DOMAIN l /\ ~(p <= i)
          BY <1>4
      <2>2. i \notin places
          BY <1>2, <2>1
      <2> QED
          BY <2>1, <2>2
  <1> HIDE DEF p
  <1> QED
      BY <1>3, <1>4, <1>5

LEMMA Inserted ==
  ASSUME NEW l \in Seq(CopyType), NEW c \in CopyType, NEW p \in 1 .. Len(l) + 1,
         NEW r, r = PlacedAt(l, p, c)
  PROVE  HasAt(l, p, c, r)
  <1> DEFINE u == SubSeq(l, 1, p - 1)
  <1> DEFINE v == SubSeq(l, p, Len(l))
  <1>1. Len(l) \in Nat /\ p \in Nat
      OBVIOUS
  <1>2. u \in Seq(CopyType) /\ Len(u) = p - 1 /\ \A i \in 1 .. p - 1 : u[i] = l[i]
      BY <1>1, SubSeqProperties
  <1>3. v \in Seq(CopyType) /\ Len(v) = Len(l) - p + 1 /\ \A i \in 1 .. Len(l) - p + 1 : v[i] = l[p + i - 1]
      BY <1>1, SubSeqProperties
  <1> DEFINE w == u \o <<c>>
  <1>4. r = w \o v
      BY DEF PlacedAt
  <1> HIDE DEF v
  <1>5. /\ w \in Seq(CopyType) /\ Len(w) = p /\ w[p] = c
        /\ \A i \in 1 .. p - 1 : w[i] = l[i]
      <2> HIDE DEF u
      <2> QED
          BY <1>1, <1>2
  <1> HIDE DEF u, w
  <1>6. /\ w \o v \in Seq(CopyType) /\ Len(w \o v) = Len(w) + Len(v)
        /\ \A i \in 1 .. Len(w) + Len(v) : (w \o v)[i] = IF i <= Len(w) THEN w[i] ELSE v[i - Len(w)]
      BY <1>3, <1>5, ConcatProperties
  <1>9. Len(w) + Len(v) = Len(l) + 1
      BY <1>1, <1>3, <1>5
  <1>7. /\ r \in Seq(CopyType) /\ Len(r) = Len(l) + 1
        /\ \A i \in 1 .. Len(l) + 1 : r[i] = IF i <= p THEN w[i] ELSE v[i - p]
      BY <1>4, <1>5, <1>6, <1>9
  <1>8. \A i \in p + 1 .. Len(l) + 1 : i - p \in 1 .. Len(l) - p + 1 /\ p + (i - p) - 1 = i - 1
      BY <1>1
  <1>10. \A i \in p + 1 .. Len(l) + 1 : i \in 1 .. Len(l) + 1 /\ ~(i <= p)
      BY <1>1
  <1>11. \A i \in p + 1 .. Len(l) + 1 : r[i] = l[i - 1]
      BY <1>3, <1>7, <1>8, <1>10
  <1>12. \A i \in 1 .. p : i \in 1 .. Len(l) + 1 /\ i <= p
      BY <1>1
  <1>13. p \in 1 .. p /\ \A i \in 1 .. p - 1 : i \in 1 .. p
      BY <1>1
  <1> QED
      BY <1>5, <1>7, <1>11, <1>12, <1>13 DEF HasAt

(* A new message keeps the list in order, and the list gains that message. *)
LEMMA InsertKeepsOrder ==
  ASSUME NEW l \in Seq(CopyType), Ordered(l), NEW c \in CopyType, c.id \notin Ids(l)
  PROVE  /\ InsertOrdered(l, c) \in Seq(CopyType)
         /\ Ordered(InsertOrdered(l, c))
         /\ Range(InsertOrdered(l, c)) = Range(l) \cup {c}
         /\ Ids(InsertOrdered(l, c)) = Ids(l) \cup {c.id}
  <1> DEFINE r == InsertOrdered(l, c)
  <1>1. PICK p \in 1 .. Len(l) + 1 :
            /\ r = PlacedAt(l, p, c)
            /\ \A i \in 1 .. p - 1 : Before(l[i], c)
            /\ p <= Len(l) => ~Before(l[p], c)
      BY InsertShape
  <1> HIDE DEF r
  <1>2. /\ r \in Seq(CopyType) /\ Len(r) = Len(l) + 1 /\ r[p] = c
        /\ \A i \in 1 .. p - 1 : r[i] = l[i]
        /\ \A i \in p + 1 .. Len(l) + 1 : r[i] = l[i - 1]
      <2>1. p \in 1 .. Len(l) + 1 /\ r = PlacedAt(l, p, c)
          BY <1>1
      <2>2. HasAt(l, p, c, r)
          BY <2>1, Inserted
      <2> QED
          BY <2>1, <2>2 DEF HasAt
  <1>3. Len(l) \in Nat /\ p \in Nat /\ DOMAIN r = 1 .. Len(l) + 1 /\ DOMAIN l = 1 .. Len(l)
      BY <1>2
  <1>4. \A i \in DOMAIN l : l[i] \in CopyType /\ l[i].id # c.id
      BY Members
  <1>5. \A i \in p .. Len(l) : Before(c, l[i])
      <2> SUFFICES ASSUME NEW i \in p .. Len(l) PROVE Before(c, l[i])
          OBVIOUS
      <2>1. p \in DOMAIN l /\ i \in DOMAIN l /\ p <= Len(l)
          BY <1>3
      <2>2. Before(c, l[p])
          BY <1>1, <1>4, <2>1, BeforeTotal
      <2>3. CASE i = p
          BY <2>2, <2>3
      <2>4. CASE i # p
          <3>1. p < i
              BY <1>3, <2>4
          <3>2. Before(l[p], l[i])
              BY <2>1, <3>1 DEF Ordered
          <3> QED
              BY <1>4, <2>1, <2>2, <3>2, BeforeTransitive
      <2> QED
          BY <2>3, <2>4
  <1>6. Ordered(r)
      <2> SUFFICES ASSUME NEW i \in DOMAIN r, NEW j \in DOMAIN r, i < j
                   PROVE  Before(r[i], r[j]) /\ r[i].id # r[j].id
          BY DEF Ordered
      <2>1. CASE j < p
          <3>1. r[i] = l[i] /\ r[j] = l[j] /\ i \in DOMAIN l /\ j \in DOMAIN l
              BY <1>2, <1>3, <2>1
          <3> QED
              BY <3>1 DEF Ordered
      <2>2. CASE j = p
          <3>1. r[i] = l[i] /\ r[j] = c /\ i \in DOMAIN l /\ i \in 1 .. p - 1
              BY <1>2, <1>3, <2>2
          <3> QED
              BY <1>1, <1>4, <3>1
      <2>3. CASE i = p
          <3>1. r[i] = c /\ r[j] = l[j - 1] /\ j - 1 \in DOMAIN l /\ j - 1 \in p .. Len(l)
              BY <1>2, <1>3, <2>3
          <3> QED
              BY <1>4, <1>5, <3>1
      <2>4. CASE i < p /\ p < j
          <3>1. /\ r[i] = l[i] /\ r[j] = l[j - 1] /\ i \in DOMAIN l /\ j - 1 \in DOMAIN l
                /\ i < j - 1
              BY <1>2, <1>3, <2>4
          <3> QED
              BY <3>1 DEF Ordered
      <2>5. CASE p < i
          <3>1. /\ r[i] = l[i - 1] /\ r[j] = l[j - 1] /\ i - 1 \in DOMAIN l /\ j - 1 \in DOMAIN l
                /\ i - 1 < j - 1
              BY <1>2, <1>3, <2>5
          <3> QED
              BY <3>1 DEF Ordered
      <2> QED
          BY <1>3, <2>1, <2>2, <2>3, <2>4, <2>5
  <1>7. Range(r) = Range(l) \cup {c}
      <2>1. ASSUME NEW i \in DOMAIN r PROVE r[i] \in Range(l) \cup {c}
          <3>1. r[i] = c \/ (i \in DOMAIN l /\ r[i] = l[i]) \/ (i - 1 \in DOMAIN l /\ r[i] = l[i - 1])
              BY <1>2, <1>3
          <3> QED
              BY <3>1, Members
      <2>2. ASSUME NEW i \in DOMAIN l PROVE l[i] \in Range(r)
          <3>1. \/ i \in DOMAIN r /\ r[i] = l[i]
                \/ i + 1 \in DOMAIN r /\ r[i + 1] = l[i]
              BY <1>2, <1>3
          <3> QED
              BY <3>1 DEF Range
      <2>3. c \in Range(r)
          BY <1>2, <1>3 DEF Range
      <2> QED
          BY <2>1, <2>2, <2>3 DEF Range
  <1>8. Ids(r) = Ids(l) \cup {c.id}
      <2>1. \A s : Ids(s) = {x.id : x \in Range(s)}
          BY DEF Ids, Range
      <2> QED
          BY <1>7, <2>1
  <1> QED
      BY <1>2, <1>6, <1>7, <1>8 DEF r

LEMMA IndexIs ==
  ASSUME NEW l \in Seq(CopyType), NEW m \in Ids(l)
  PROVE  IndexOf(l, m) \in DOMAIN l /\ l[IndexOf(l, m)].id = m
  <1>1. \E i \in DOMAIN l : l[i].id = m
      BY DEF Ids
  <1> QED
      BY <1>1 DEF IndexOf

(* A list without one of its copies.                                       *)
LEMMA Removed ==
  ASSUME NEW l \in Seq(CopyType), Ordered(l), NEW i \in DOMAIN l
  PROVE  /\ RemoveAt(l, i) \in Seq(CopyType) /\ Ordered(RemoveAt(l, i))
         /\ Range(RemoveAt(l, i)) = Range(l) \ {l[i]}
         /\ l[i].id \notin Ids(RemoveAt(l, i))
  <1> DEFINE u == SubSeq(l, 1, i - 1)
  <1> DEFINE v == SubSeq(l, i + 1, Len(l))
  <1> DEFINE r == RemoveAt(l, i)
  <1>1. Len(l) \in Nat /\ i \in Nat /\ i <= Len(l) /\ 1 <= i
      OBVIOUS
  <1>2. u \in Seq(CopyType) /\ Len(u) = i - 1 /\ \A j \in 1 .. i - 1 : u[j] = l[j]
      BY <1>1, SubSeqProperties
  <1>3. v \in Seq(CopyType) /\ Len(v) = Len(l) - i /\ \A j \in 1 .. Len(l) - i : v[j] = l[i + j]
      BY <1>1, SubSeqProperties
  <1>4. r = u \o v
      BY DEF RemoveAt
  <1> HIDE DEF u, v, r
  <1>c. /\ r \in Seq(CopyType) /\ Len(r) = i - 1 + (Len(l) - i)
        /\ \A j \in 1 .. i - 1 + (Len(l) - i) : r[j] = IF j <= i - 1 THEN u[j] ELSE v[j - (i - 1)]
      BY <1>2, <1>3, <1>4, ConcatProperties
  <1>5. r \in Seq(CopyType) /\ Len(r) = Len(l) - 1
      BY <1>1, <1>c
  <1>6. \A j \in 1 .. i - 1 : r[j] = l[j]
      BY <1>1, <1>2, <1>c
  <1>7. \A j \in i .. Len(l) - 1 : r[j] = l[j + 1]
      <2> TAKE j \in i .. Len(l) - 1
      <2>1. r[j] = v[j - (i - 1)]
          BY <1>1, <1>c
      <2>2. j - (i - 1) \in 1 .. Len(l) - i /\ i + (j - (i - 1)) = j + 1
          BY <1>1
      <2> QED
          BY <1>3, <2>1, <2>2
  <1> DEFINE from(j) == IF j < i THEN j ELSE j + 1
  <1>8. \A j \in DOMAIN r : from(j) \in DOMAIN l \ {i} /\ r[j] = l[from(j)] /\ from(j) \in Nat /\ j \in Nat
      BY <1>1, <1>5, <1>6, <1>7
  <1>9. \A j \in DOMAIN l \ {i} : \E k \in DOMAIN r : from(k) = j
      <2> TAKE j \in DOMAIN l \ {i}
      <2>1. CASE j < i
          BY <1>1, <1>5, <2>1
      <2>2. CASE j > i
          <3>1. j - 1 \in DOMAIN r /\ from(j - 1) = j
              BY <1>1, <1>5, <2>2
          <3> QED
              BY <3>1
      <2> QED
          BY <1>1, <2>1, <2>2
  <1>10. \A j, k \in Nat : j < k => from(j) < from(k)
      BY <1>1
  <1> HIDE DEF from
  <1>11. Ordered(r)
      BY <1>8, <1>10 DEF Ordered
  <1>12. \A j \in DOMAIN l : j # i => l[j].id # l[i].id /\ l[j] # l[i]
      BY <1>1 DEF Ordered
  <1>13. Range(r) = Range(l) \ {l[i]}
      <2>1. \A j \in DOMAIN r : r[j] \in Range(l) \ {l[i]}
          BY <1>8, <1>12 DEF Range
      <2>2. ASSUME NEW c \in Range(l) \ {l[i]} PROVE c \in Range(r)
          <3>1. PICK j \in DOMAIN l : l[j] = c
              BY DEF Range
          <3>2. PICK k \in DOMAIN r : from(k) = j
              BY <1>9, <3>1
          <3> QED
              BY <1>8, <3>1, <3>2 DEF Range
      <2> QED
          BY <2>1, <2>2 DEF Range
  <1>14. l[i].id \notin Ids(r)
      BY <1>8, <1>12 DEF Ids
  <1> QED
      BY <1>5, <1>11, <1>13, <1>14 DEF r

(* One copy of a list takes the place of another of the same message.      *)
Replaced(l, r, old, new) ==
    /\ old \in Range(l) /\ new \in CopyType /\ new.id = old.id /\ new.read = old.read
    /\ r \in Seq(CopyType) /\ Ordered(r)
    /\ Range(r) = (Range(l) \ {old}) \cup {new} /\ Ids(r) = Ids(l)

LEMMA ConfirmedReplaces ==
  ASSUME NEW l \in Seq(CopyType), Ordered(l), NEW m \in Ids(l), NEW seq \in Nat
  PROVE  \E old \in Range(l), new \in CopyType :
            /\ Replaced(l, Confirmed(l, m, seq), old, new)
            /\ new.id = m /\ new.seq = seq /\ new.state = "delivered"
  <1> DEFINE i == IndexOf(l, m)
  <1> DEFINE old == l[i]
  <1> DEFINE new == [old EXCEPT !.seq = seq, !.state = "delivered"]
  <1> DEFINE rest == RemoveAt(l, i)
  <1> DEFINE r == InsertOrdered(rest, new)
  <1>1. i \in DOMAIN l /\ old.id = m
      BY IndexIs
  <1>2. old \in Range(l) /\ old \in CopyType
      BY <1>1, Members
  <1>3. Confirmed(l, m, seq) = r
      BY DEF Confirmed
  <1> HIDE DEF i
  <1>4. /\ rest \in Seq(CopyType) /\ Ordered(rest) /\ Range(rest) = Range(l) \ {old}
        /\ m \notin Ids(rest)
      BY <1>1, Removed
  <1> HIDE DEF rest, old
  <1>5. /\ new \in CopyType /\ new.id = m /\ new.seq = seq /\ new.state = "delivered"
        /\ new.read = old.read
      BY <1>1, <1>2 DEF CopyType, State
  <1> HIDE DEF new
  <1>6. r \in Seq(CopyType) /\ Ordered(r) /\ Range(r) = Range(rest) \cup {new}
      BY <1>4, <1>5, InsertKeepsOrder
  <1> HIDE DEF r
  <1>7. Ids(r) = Ids(l)
      <2>1. \A s : Ids(s) = {x.id : x \in Range(s)}
          BY DEF Ids, Range
      <2>2. Range(r) = (Range(l) \ {old}) \cup {new} /\ new.id = old.id /\ old \in Range(l)
          BY <1>1, <1>2, <1>4, <1>5, <1>6
      <2> QED
          BY <2>1, <2>2
  <1> QED
      BY <1>1, <1>2, <1>3, <1>4, <1>5, <1>6, <1>7 DEF Replaced

LEMMA SetStateReplaces ==
  ASSUME NEW l \in Seq(CopyType), Ordered(l), NEW m \in Ids(l), NEW state \in State
  PROVE  \E old \in Range(l), new \in CopyType :
            /\ Replaced(l, SetState(l, m, state), old, new)
            /\ new.id = m /\ new.seq = old.seq /\ new.state = state
  <1> DEFINE i == IndexOf(l, m)
  <1> DEFINE old == l[i]
  <1> DEFINE new == [old EXCEPT !.state = state]
  <1> DEFINE r == SetState(l, m, state)
  <1>1. i \in DOMAIN l /\ old.id = m
      BY IndexIs
  <1>2. old \in Range(l) /\ old \in CopyType
      BY <1>1, Members
  <1>3. r = [l EXCEPT ![i] = new]
      BY DEF SetState
  <1> HIDE DEF i, r
  <1>4. /\ new \in CopyType /\ new.id = m /\ new.seq = old.seq /\ new.state = state
        /\ new.read = old.read
      BY <1>1, <1>2 DEF CopyType
  <1> HIDE DEF new
  <1>6. DOMAIN r = DOMAIN l /\ \A j \in DOMAIN l : r[j] = IF j = i THEN new ELSE l[j]
      BY <1>3
  <1>5. r \in Seq(CopyType) /\ DOMAIN r = DOMAIN l
      <2>1. DOMAIN r = 1 .. Len(l) /\ Len(l) \in Nat
          BY <1>6, Members
      <2>2. i \in 1 .. Len(l)
          BY <1>1, <1>6, <2>1
      <2>3. r \in Seq(CopyType)
          BY ONLY l \in Seq(CopyType), <1>3, <1>4, <2>2, ExceptSeq
      <2> QED
          BY <1>6, <2>3
  <1>7. \A j \in DOMAIN l : r[j].id = l[j].id /\ r[j].seq = l[j].seq
      BY <1>1, <1>4, <1>6
  <1>8. Ordered(r)
      BY <1>5, <1>7, BeforeLooksAt DEF Ordered
  <1>9. Ids(r) = Ids(l)
      BY <1>5, <1>7 DEF Ids
  <1>10. Range(r) = (Range(l) \ {old}) \cup {new}
      <2>1. \A j \in DOMAIN l : j # i => l[j] # old
          <3>1. i \in Nat /\ \A j \in DOMAIN l : j \in Nat
              BY <1>1
          <3>2. \A j \in DOMAIN l : j # i => l[j].id # l[i].id
              BY <1>1, <3>1 DEF Ordered
          <3> QED
              BY <3>2
      <2> QED
          BY <1>1, <1>5, <1>6, <2>1 DEF Range
  <1> HIDE DEF old
  <1>11. old \in Range(l) /\ new \in CopyType /\ new.id = old.id /\ new.read = old.read
      BY <1>1, <1>2, <1>4
  <1>12. Replaced(l, r, old, new)
      BY <1>5, <1>8, <1>9, <1>10, <1>11, Zenon DEF Replaced
  <1> QED
      BY <1>4, <1>11, <1>12, Zenon DEF r

(* All of it is read.                                                      *)
LEMMA ReadKeepsOrder ==
  ASSUME NEW l \in Seq(CopyType), Ordered(l),
         NEW r, r = [i \in DOMAIN l |-> [l[i] EXCEPT !.read = TRUE]]
  PROVE  /\ r \in Seq(CopyType) /\ Ordered(r) /\ Ids(r) = Ids(l)
         /\ \A d \in Range(r) : d.read /\ \E c \in Range(l) : c.id = d.id /\ c.seq = d.seq /\ c.state = d.state
  <1>1. DOMAIN l = 1 .. Len(l) /\ Len(l) \in Nat /\ \A i \in DOMAIN l : l[i] \in CopyType /\ l[i] \in Range(l)
      BY Members
  <1>2. \A c \in CopyType : LET d == [c EXCEPT !.read = TRUE]
                            IN d \in CopyType /\ d.read /\ d.id = c.id /\ d.seq = c.seq /\ d.state = c.state
      BY DEF CopyType
  <1>3. DOMAIN r = DOMAIN l /\ \A i \in DOMAIN l : /\ r[i] \in CopyType /\ r[i].read /\ r[i].id = l[i].id
                                                  /\ r[i].seq = l[i].seq /\ r[i].state = l[i].state
      BY <1>1, <1>2
  <1>4. r \in Seq(CopyType)
      BY <1>1, <1>3, IsASeq
  <1>5. Ordered(r)
      <2> SUFFICES ASSUME NEW i \in DOMAIN l, NEW j \in DOMAIN l, i < j
                   PROVE  Before(r[i], r[j]) /\ r[i].id # r[j].id
          BY <1>3 DEF Ordered
      <2>1. Before(l[i], l[j]) /\ l[i].id # l[j].id
          BY DEF Ordered
      <2>2. Before(r[i], r[j]) <=> Before(l[i], l[j])
          BY <1>3, BeforeLooksAt
      <2> QED
          BY <1>3, <2>1, <2>2
  <1>6. Ids(r) = Ids(l)
      BY <1>3 DEF Ids
  <1>7. \A d \in Range(r) : \E i \in DOMAIN l : d = r[i]
      BY <1>3 DEF Range
  <1>8. ASSUME NEW d \in Range(r)
        PROVE  d.read /\ \E c \in Range(l) : c.id = d.id /\ c.seq = d.seq /\ c.state = d.state
      <2>1. PICK i \in DOMAIN l : d = r[i]
          BY <1>7
      <2>2. l[i] \in Range(l) /\ d.read /\ l[i].id = d.id /\ l[i].seq = d.seq /\ l[i].state = d.state
          BY <1>1, <1>3, <2>1
      <2> QED
          BY <2>2
  <1> QED
      BY <1>4, <1>5, <1>6, <1>8

----------------------------------------------------------------------------
(* Sorting.                                                                *)

(* A finite set with a strict total order can be written down in order: at *)
(* the place of its rank, one more than there are before it.               *)
LEMMA CanBeSorted ==
  ASSUME NEW S, IsFiniteSet(S), NEW R,
         \A x \in S : <<x, x>> \notin R,
         \A x, y \in S : x # y => <<x, y>> \in R \/ <<y, x>> \in R,
         \A x, y, z \in S : <<x, y>> \in R /\ <<y, z>> \in R => <<x, z>> \in R
  PROVE  \E f \in [1 .. Cardinality(S) -> S] :
            \A i, j \in 1 .. Cardinality(S) : i < j => <<f[i], f[j]>> \in R
  <1> DEFINE n == Cardinality(S)
  <1> DEFINE Below(x) == {y \in S : <<y, x>> \in R}
  <1> DEFINE rank == [x \in S |-> Cardinality(Below(x)) + 1]
  <1>1. n \in Nat
      BY FS_CardinalityType
  <1>2. ASSUME NEW x \in S
        PROVE  /\ IsFiniteSet(Below(x)) /\ Cardinality(Below(x)) \in Nat
               /\ IsFiniteSet(Below(x) \cup {x}) /\ Cardinality(Below(x) \cup {x}) = rank[x]
               /\ rank[x] \in 1 .. n
      <2>1. Below(x) \in SUBSET S /\ Below(x) \cup {x} \in SUBSET S /\ x \notin Below(x)
          OBVIOUS
      <2>2. IsFiniteSet(Below(x))
          BY <2>1, FS_Subset
      <2>3. Cardinality(Below(x)) \in Nat
          BY <2>2, FS_CardinalityType
      <2>4. IsFiniteSet(Below(x) \cup {x}) /\ Cardinality(Below(x) \cup {x}) = Cardinality(Below(x)) + 1
          BY <2>1, <2>2, FS_AddElement
      <2>5. Cardinality(Below(x) \cup {x}) <= n
          BY <2>1, FS_Subset
      <2>6. rank[x] = Cardinality(Below(x)) + 1
          OBVIOUS
      <2> HIDE DEF rank, Below, n
      <2> QED
          BY <1>1, <2>2, <2>3, <2>4, <2>5, <2>6
  <1>3. ASSUME NEW x \in S, NEW y \in S, <<x, y>> \in R
        PROVE  rank[x] < rank[y]
      <2>1. Below(x) \cup {x} \in SUBSET Below(y)
          BY <1>3
      <2>2. Cardinality(Below(x) \cup {x}) <= Cardinality(Below(y))
          BY <1>2, <2>1, FS_Subset
      <2>3. rank[y] = Cardinality(Below(y)) + 1
          OBVIOUS
      <2>4. rank[x] <= Cardinality(Below(y)) /\ rank[x] \in 1 .. n
          BY <1>2, <2>2
      <2>5. Cardinality(Below(y)) \in Nat
          BY <1>2
      <2> HIDE DEF rank, Below, n
      <2> QED
          BY <1>1, <2>3, <2>4, <2>5
  <1> HIDE DEF Below, n
  <1>4. rank \in [S -> 1 .. n]
      BY <1>2
  <1> HIDE DEF rank
  <1>5. \A x, y \in S : rank[x] = rank[y] => x = y
      <2> SUFFICES ASSUME NEW x \in S, NEW y \in S, rank[x] = rank[y], x # y PROVE FALSE
          OBVIOUS
      <2>1. rank[x] \in 1 .. n /\ rank[y] \in 1 .. n
          BY <1>4
      <2>2. <<x, y>> \in R \/ <<y, x>> \in R
          OBVIOUS
      <2>3. rank[x] < rank[y] \/ rank[y] < rank[x]
          BY <1>3, <2>2
      <2> QED
          BY <1>1, <2>1, <2>3
  <1>6. rank \in Injection(S, 1 .. n)
      BY <1>4, <1>5 DEF Injection, IsInjective
  <1>7. IsFiniteSet(1 .. n) /\ Cardinality(1 .. n) = n
      BY <1>1, FS_Interval
  <1>8. rank \in Surjection(S, 1 .. n)
      BY <1>6, <1>7, FS_Injection DEF n
  <1>9. \A i \in 1 .. n : \E x \in S : rank[x] = i
      BY <1>8 DEF Surjection
  <1> DEFINE f == [i \in 1 .. n |-> CHOOSE x \in S : rank[x] = i]
  <1>10. \A i \in 1 .. n : f[i] \in S /\ rank[f[i]] = i
      BY <1>9
  <1>11. f \in [1 .. n -> S]
      BY <1>10
  <1> HIDE DEF f
  <1>12. ASSUME NEW i \in 1 .. n, NEW j \in 1 .. n, i < j PROVE <<f[i], f[j]>> \in R
      <2>1. f[i] # f[j] /\ ~(rank[f[j]] < rank[f[i]])
          BY <1>1, <1>10, <1>12
      <2> QED
          BY <1>3, <1>10, <2>1
  <1> QED
      BY <1>11, <1>12 DEF n

(* What is in order takes all of the set.                                  *)
LEMMA SortedIsAll ==
  ASSUME NEW S, IsFiniteSet(S), NEW f \in [1 .. Cardinality(S) -> S],
         \A i, j \in 1 .. Cardinality(S) : i < j => f[i] # f[j]
  PROVE  Range(f) = S
  <1> DEFINE n == Cardinality(S)
  <1>1. n \in Nat
      BY FS_CardinalityType
  <1>2. IsFiniteSet(1 .. n) /\ Cardinality(1 .. n) = n
      BY <1>1, FS_Interval
  <1>3. \A i, j \in 1 .. n : f[i] = f[j] => i = j
      BY <1>1
  <1>4. f \in Injection(1 .. n, S)
      BY <1>3 DEF Injection, IsInjective
  <1>5. f \in Surjection(1 .. n, S)
      BY <1>2, <1>4, FS_Injection
  <1> QED
      BY <1>5 DEF Surjection, Range

(* What is queued or on the wire, read off the list, is on the list.       *)
LEMMA QueuedIsListed ==
  ASSUME NEW l \in Seq(CopyType)
  PROVE  Queued(l) \in Seq(Own) /\ \A k \in DOMAIN Queued(l) : Queued(l)[k] \in Ids(l)
  <1> DEFINE P == {i \in DOMAIN l : l[i].id \in Own /\ l[i].state \in {"queued", "sending"}}
  <1> DEFINE ours == Sorted(P, <)
  <1> DEFINE R == {p \in P \X P : p[1] < p[2]}
  <1> DEFINE q == Queued(l)
  <1>1. DOMAIN l = 1 .. Len(l) /\ Len(l) \in Nat
      BY Members
  <1>2. P \in SUBSET (1 .. Len(l)) /\ \A i \in P : i \in DOMAIN l /\ l[i].id \in Own
      BY <1>1
  <1>3. q = [k \in DOMAIN ours |-> l[ours[k]].id]
      BY DEF Queued
  <1> HIDE DEF P, q
  <1> DEFINE n == Cardinality(P)
  <1>4. IsFiniteSet(P) /\ n \in Nat
      <2>1. 1 \in Int /\ Len(l) \in Int
          BY <1>1
      <2>2. IsFiniteSet(1 .. Len(l))
          BY <2>1, FS_Interval
      <2>3. IsFiniteSet(P)
          BY <1>2, <2>2, FS_Subset
      <2> QED
          BY <2>3, FS_CardinalityType
  <1>5. \A x, y \in P : <<x, y>> \in R <=> x < y
      OBVIOUS
  <1> HIDE DEF R
  <1>6. \A x, y \in P : x \in Nat /\ y \in Nat
      BY <1>1, <1>2
  <1>7. /\ \A x \in P : <<x, x>> \notin R
        /\ \A x, y \in P : x # y => <<x, y>> \in R \/ <<y, x>> \in R
        /\ \A x, y, z \in P : <<x, y>> \in R /\ <<y, z>> \in R => <<x, z>> \in R
      BY <1>5, <1>6
  <1>8. \E f \in [1 .. Cardinality(P) -> P] : \A i, j \in 1 .. Cardinality(P) : i < j => <<f[i], f[j]>> \in R
      BY ONLY <1>4, <1>7, CanBeSorted
  <1>9. \E f \in [1 .. Cardinality(P) -> P] : \A i, j \in DOMAIN f : i < j => f[i] < f[j]
      BY <1>5, <1>8
  <1>10. ours \in [1 .. Cardinality(P) -> P]
      BY <1>9 DEF Sorted
  <1> HIDE DEF ours
  <1>11. /\ DOMAIN q = 1 .. n
         /\ \A k \in 1 .. n : q[k] = l[ours[k]].id /\ ours[k] \in P
      BY <1>3, <1>10
  <1>12. q = [k \in 1 .. n |-> l[ours[k]].id]
      BY <1>3, <1>10
  <1> HIDE DEF n
  <1>13. q \in Seq(Own)
      <2>1. \A k \in 1 .. n : l[ours[k]].id \in Own
          BY <1>2, <1>11
      <2> QED
          BY <1>4, <1>12, <2>1
  <1>14. \A k \in DOMAIN q : q[k] \in Ids(l)
      BY <1>2, <1>11 DEF Ids
  <1> QED
      BY <1>13, <1>14 DEF q

(* Copies of as many messages are put into the order of the list.          *)
LEMMA SortedCopies ==
  ASSUME NEW C, IsFiniteSet(C), C \subseteq CopyType, \A x, y \in C : x.id = y.id => x = y,
         NEW r, r = Sorted(C, Before)
  PROVE  r \in Seq(CopyType) /\ Ordered(r) /\ Range(r) = C /\ Len(r) = Cardinality(C)
  <1> DEFINE n == Cardinality(C)
  <1> DEFINE R == {p \in C \X C : Before(p[1], p[2])}
  <1>1. n \in Nat
      BY FS_CardinalityType
  <1>2. \A x, y \in C : <<x, y>> \in R <=> Before(x, y)
      OBVIOUS
  <1> HIDE DEF R
  <1>3. \A x \in CopyType : ~Before(x, x)
      <2> TAKE x \in CopyType
      <2>1. x.seq \in Nat /\ x.id \in Msg
          BY DEF CopyType
      <2>2. Sent[x.id] \in Nat
          BY <2>1, Clocks
      <2>3. ~(x.seq < x.seq) /\ ~(Sent[x.id] < Sent[x.id])
          BY <2>1, <2>2
      <2> QED
          BY <2>3, Zenon DEF Before
  <1>4. \A x \in C : <<x, x>> \notin R
      BY <1>2, <1>3
  <1>5. \A x, y \in C : x # y => <<x, y>> \in R \/ <<y, x>> \in R
      BY <1>2, BeforeTotal
  <1>6. \A x, y, z \in C : <<x, y>> \in R /\ <<y, z>> \in R => <<x, z>> \in R
      <2> SUFFICES ASSUME NEW x \in C, NEW y \in C, NEW z \in C, <<x, y>> \in R, <<y, z>> \in R
                   PROVE  <<x, z>> \in R
          OBVIOUS
      <2>1. x \in CopyType /\ y \in CopyType /\ z \in CopyType /\ Before(x, y) /\ Before(y, z)
          BY <1>2
      <2> QED
          BY <1>2, <2>1, BeforeTransitive
  <1>7. \E f \in [1 .. n -> C] : \A i, j \in 1 .. n : i < j => <<f[i], f[j]>> \in R
      BY <1>4, <1>5, <1>6, CanBeSorted
  <1>8. \E f \in [1 .. n -> C] : \A i, j \in DOMAIN f : i < j => Before(f[i], f[j])
      BY <1>2, <1>7
  <1>9. r \in [1 .. n -> C] /\ \A i, j \in DOMAIN r : i < j => Before(r[i], r[j])
      BY <1>8 DEF Sorted
  <1>11. \A i, j \in 1 .. n : i < j => r[i] # r[j]
      <2> HIDE DEF n
      <2> QED
          BY <1>3, <1>9
  <1>12. Range(r) = C
      BY ONLY IsFiniteSet(C), <1>9, <1>11, SortedIsAll
  <1> HIDE DEF n
  <1>10. r \in Seq(CopyType) /\ DOMAIN r = 1 .. n /\ Len(r) = n
      BY <1>1, <1>9
  <1>13. Ordered(r)
      <2>1. \A i \in DOMAIN r : r[i] \in C
          BY <1>9
      <2>2. \A i, j \in DOMAIN r : i < j => r[i].id # r[j].id
          BY <1>10, <1>11, <2>1
      <2> QED
          BY <1>9, <2>2, Zenon DEF Ordered
  <1> QED
      BY <1>10, <1>12, <1>13 DEF n

(* What is read back from the journal.                                     *)
CopyOf(f, m) == Copy(m, f.of[m].seq, LoadedState(f, m), m \in Own \/ f.read)
Kept(f) == {m \in Msg : OnFile(f, m)}

LEMMA LoadedIs ==
  ASSUME NEW f \in FileType, IsFiniteSet(Kept(f)), NEW r, r = Loaded(f)
  PROVE  /\ r \in Seq(CopyType) /\ Ordered(r) /\ Len(r) = Cardinality(Kept(f))
         /\ Range(r) = {CopyOf(f, m) : m \in Kept(f)} /\ Ids(r) = Kept(f)
  <1> DEFINE C == {CopyOf(f, m) : m \in Kept(f)}
  <1>1. \A m \in Kept(f) : m \in Msg /\ CopyOf(f, m) \in CopyType /\ CopyOf(f, m).id = m
      BY DEF FileType, CopyType, State, CopyOf, Copy, LoadedState, Kept
  <1> DEFINE g == [m \in Kept(f) |-> CopyOf(f, m)]
  <1>2. g \in Bijection(Kept(f), C)
      BY <1>1 DEF Bijection, Injection, IsInjective, Surjection
  <1>3. IsFiniteSet(C) /\ Cardinality(C) = Cardinality(Kept(f))
      BY <1>2, FS_Bijection DEF ExistsBijection
  <1>4. C \subseteq CopyType /\ \A x, y \in C : x.id = y.id => x = y
      BY <1>1
  <1>5. r = Sorted(C, Before)
      BY DEF Loaded, CopyOf, Kept
  <1> HIDE DEF C, g
  <1>6. r \in Seq(CopyType) /\ Ordered(r) /\ Range(r) = C /\ Len(r) = Cardinality(C)
      BY <1>3, <1>4, <1>5, SortedCopies
  <1>7. Ids(r) = {c.id : c \in Range(r)}
      BY DEF Ids, Range
  <1>8. Ids(r) = Kept(f)
      BY <1>1, <1>6, <1>7 DEF C
  <1> QED
      BY <1>3, <1>6, <1>8 DEF C

----------------------------------------------------------------------------
(* The journal.                                                            *)

(* What a line changes of what its journal says.                           *)
LEMMA WrittenIs ==
  ASSUME NEW f \in FileType, IsFiniteSet(Kept(f)), NEW l \in LineType,
         NEW g, g = Written(f, l)
  PROVE  /\ g \in FileType /\ IsFiniteSet(Kept(g))
         /\ g.swallowed = (f.swallowed \/ f.torn)
         /\ \A m \in Msg :
               /\ OnFile(f, m) => OnFile(g, m)
               /\ OnFile(g, m) => OnFile(f, m) \/ (l.k = "m" /\ l.id = m)
               /\ \/ g.of[m].seq = f.of[m].seq
                  \/ l.k \in {"m", "q"} /\ l.id = m /\ g.of[m].seq = l.seq
               /\ \/ g.of[m].state = f.of[m].state
                  \/ l.k \in {"m", "q", "s"} /\ l.id = m /\ g.of[m].state = l.state
         /\ ~g.swallowed /\ l.k = "m" =>
               /\ OnFile(g, l.id)
               /\ g.of[l.id].seq = IF f.of[l.id].seq = 0 THEN l.seq ELSE f.of[l.id].seq
         /\ ~g.swallowed /\ l.k = "q" => g.of[l.id].seq = l.seq
  <1> DEFINE Entry == [here : BOOLEAN, seq : Nat, state : State]
  <1>1. /\ f.of \in [Msg -> Entry] /\ f.read \in BOOLEAN /\ f.torn \in BOOLEAN
        /\ f.swallowed \in BOOLEAN
      BY DEF FileType
  <1>2. l.k \in {"m", "s", "q", "r"} /\ l.id \in Msg /\ l.seq \in Nat /\ l.state \in State
      BY DEF LineType
  <1>3. CASE f.torn
      <2>1. g = [f EXCEPT !.torn = FALSE, !.swallowed = TRUE]
          BY <1>3 DEF Written
      <2>2. g \in FileType /\ g.of = f.of /\ g.swallowed = TRUE
          BY <2>1 DEF FileType
      <2>3. Kept(g) = Kept(f)
          BY <2>2 DEF Kept, OnFile
      <2> QED
          BY <1>3, <2>2, <2>3 DEF OnFile
  <1>4. CASE ~f.torn /\ l.k = "r"
      <2>1. g = [f EXCEPT !.read = TRUE]
          BY <1>4 DEF Written
      <2>2. g \in FileType /\ g.of = f.of /\ g.swallowed = f.swallowed
          BY <2>1 DEF FileType
      <2>3. Kept(g) = Kept(f)
          BY <2>2 DEF Kept, OnFile
      <2>9. g.swallowed = (f.swallowed \/ f.torn)
          BY <1>1, <1>4, <2>2
      <2> QED
          BY <1>4, <2>2, <2>3, <2>9 DEF OnFile
  <1>5. CASE ~f.torn /\ l.k = "s"
      <2>1. g = [f EXCEPT !.of[l.id].state = l.state]
          BY <1>5 DEF Written
      <2>2. /\ g.of = [f.of EXCEPT ![l.id].state = l.state] /\ g.swallowed = f.swallowed
            /\ g = [f EXCEPT !.of = g.of]
          BY <2>1 DEF FileType
      <2>3. /\ g.of \in [Msg -> Entry]
            /\ \A m \in Msg : g.of[m].here = f.of[m].here /\ g.of[m].seq = f.of[m].seq
            /\ \A m \in Msg : g.of[m].state = IF m = l.id THEN l.state ELSE f.of[m].state
          BY <1>1, <1>2, <2>2
      <2>4. g \in FileType
          BY <2>2, <2>3 DEF FileType
      <2>5. Kept(g) = Kept(f)
          BY <2>3 DEF Kept, OnFile
      <2>9. g.swallowed = (f.swallowed \/ f.torn)
          BY <1>1, <1>5, <2>2
      <2> QED
          BY <1>5, <2>3, <2>4, <2>5, <2>9 DEF OnFile
  <1>6. CASE ~f.torn /\ l.k = "q"
      <2>1. g = [f EXCEPT !.of = Numbered(@, l)]
          BY <1>6 DEF Written
      <2>2. /\ g.of = [f.of EXCEPT ![l.id].seq = l.seq, ![l.id].state = l.state]
            /\ g.swallowed = f.swallowed /\ g = [f EXCEPT !.of = g.of]
          BY <2>1 DEF FileType, Numbered
      <2>3. /\ g.of \in [Msg -> Entry]
            /\ \A m \in Msg : g.of[m].here = f.of[m].here
            /\ \A m \in Msg : g.of[m].seq = IF m = l.id THEN l.seq ELSE f.of[m].seq
            /\ \A m \in Msg : g.of[m].state = IF m = l.id THEN l.state ELSE f.of[m].state
          BY <1>1, <1>2, <2>2
      <2>4. g \in FileType
          BY <2>2, <2>3 DEF FileType
      <2>5. Kept(g) = Kept(f)
          BY <2>3 DEF Kept, OnFile
      <2>9. g.swallowed = (f.swallowed \/ f.torn)
          BY <1>1, <1>6, <2>2
      <2> QED
          BY <1>2, <1>6, <2>3, <2>4, <2>5, <2>9 DEF OnFile
  <1>7. CASE ~f.torn /\ l.k = "m"
      <2> DEFINE e == f.of[l.id]
      <2> DEFINE new == [here |-> TRUE, seq |-> IF e.seq = 0 THEN l.seq ELSE e.seq,
                         state |-> IF e.state = "none" THEN l.state ELSE e.state]
      <2>1. g = [f EXCEPT !.of = Filed(@, l)]
          BY <1>7 DEF Written
      <2>2. /\ g.of = [f.of EXCEPT ![l.id] = new]
            /\ g.swallowed = f.swallowed /\ g = [f EXCEPT !.of = g.of]
          BY <2>1 DEF FileType, Filed
      <2>3. e \in Entry /\ new \in Entry
          BY <1>1, <1>2
      <2>4. /\ g.of \in [Msg -> Entry]
            /\ \A m \in Msg : g.of[m] = IF m = l.id THEN new ELSE f.of[m]
          BY <1>1, <1>2, <2>2, <2>3
      <2>5. g \in FileType
          BY <2>2, <2>4 DEF FileType
      <2>6. Kept(g) = Kept(f) \cup {l.id}
          BY <1>2, <2>4 DEF Kept, OnFile
      <2>7. IsFiniteSet(Kept(g))
          BY <2>6, FS_AddElement
      <2>9. g.swallowed = (f.swallowed \/ f.torn)
          BY <1>1, <1>7, <2>2
      <2> QED
          BY <1>2, <1>7, <2>4, <2>5, <2>7, <2>9 DEF OnFile
  <1> QED
      BY <1>2, <1>3, <1>4, <1>5, <1>6, <1>7

(* One copy in the place of another leaves the badge as it is.             *)
LEMMA ReplacedUnread ==
  ASSUME NEW l, NEW r, NEW old, NEW new, Replaced(l, r, old, new)
  PROVE  UnreadIds(r) = UnreadIds(l)
  BY DEF Replaced, UnreadIds

(* A line reaches the file.                                                *)
LEMMA WritesFile ==
  ASSUME FileOK, NEW l \in LineType, file' = Written(file, l)
  PROVE  /\ FileOK' /\ (Promised' => Promised)
         /\ \A m \in Msg :
               /\ OnFile(file, m) => OnFile(file', m)
               /\ OnFile(file', m) => OnFile(file, m) \/ (l.k = "m" /\ l.id = m)
               /\ \/ file'.of[m].seq = file.of[m].seq
                  \/ l.k \in {"m", "q"} /\ l.id = m /\ file'.of[m].seq = l.seq
               /\ \/ file'.of[m].state = file.of[m].state
                  \/ l.k \in {"m", "q", "s"} /\ l.id = m /\ file'.of[m].state = l.state
         /\ Promised' /\ l.k = "m" =>
               /\ OnFile(file', l.id)
               /\ file'.of[l.id].seq = IF file.of[l.id].seq = 0 THEN l.seq ELSE file.of[l.id].seq
         /\ Promised' /\ l.k = "q" => file'.of[l.id].seq = l.seq
  <1>1. file \in FileType /\ IsFiniteSet(Kept(file))
      BY DEF FileOK, Kept
  <1> DEFINE f == file
  <1> DEFINE g == file'
  <1>2. f \in FileType /\ IsFiniteSet(Kept(f)) /\ g = Written(f, l)
      BY <1>1
  <1> HIDE DEF f, g
  <1>3. /\ g \in FileType /\ IsFiniteSet(Kept(g))
        /\ g.swallowed = (f.swallowed \/ f.torn)
        /\ \A m \in Msg :
              /\ OnFile(f, m) => OnFile(g, m)
              /\ OnFile(g, m) => OnFile(f, m) \/ (l.k = "m" /\ l.id = m)
              /\ \/ g.of[m].seq = f.of[m].seq
                 \/ l.k \in {"m", "q"} /\ l.id = m /\ g.of[m].seq = l.seq
              /\ \/ g.of[m].state = f.of[m].state
                 \/ l.k \in {"m", "q", "s"} /\ l.id = m /\ g.of[m].state = l.state
        /\ ~g.swallowed /\ l.k = "m" =>
              /\ OnFile(g, l.id)
              /\ g.of[l.id].seq = IF f.of[l.id].seq = 0 THEN l.seq ELSE f.of[l.id].seq
        /\ ~g.swallowed /\ l.k = "q" => g.of[l.id].seq = l.seq
      BY ONLY <1>2, l \in LineType, WrittenIs
  <1>4. Promised' => Promised
      BY <1>3 DEF Promised, f, g
  <1>5. FileOK'
      BY <1>3 DEF FileOK, Kept, g
  <1> QED
      BY <1>3, <1>4, <1>5, Zenon DEF f, g, Promised

----------------------------------------------------------------------------
(* The server.                                                             *)

(* What has a number keeps it.                                             *)
Stays ==
    /\ Len(ledger) <= Len(ledger') /\ Range(ledger) \subseteq Range(ledger')
    /\ \A i \in DOMAIN ledger : i \in DOMAIN ledger' /\ ledger'[i] = ledger[i]
    /\ \A m, seq : Numbers(m, seq) => NumberIn(ledger', m, seq)

Grown(m) ==
    /\ LedgerOK' /\ Stays /\ Range(ledger') = Range(ledger) \cup {m}
    /\ \A i \in DOMAIN ledger' : i \in DOMAIN ledger \/ ledger'[i] = m

LEMMA Appends ==
  ASSUME LedgerOK, NEW m \in Msg, m \notin Range(ledger), ledger' = Append(ledger, m)
  PROVE  Grown(m) /\ Len(ledger') = Len(ledger) + 1 /\ NumberIn(ledger', m, Len(ledger) + 1)
  <1>1. ledger \in Seq(Msg) /\ Len(ledger) \in Nat /\ DOMAIN ledger = 1 .. Len(ledger)
      BY DEF LedgerOK
  <1>2. /\ ledger' \in Seq(Msg) /\ Len(ledger') = Len(ledger) + 1
        /\ DOMAIN ledger' = 1 .. Len(ledger) + 1
        /\ \A i \in 1 .. Len(ledger) : ledger'[i] = ledger[i]
        /\ ledger'[Len(ledger) + 1] = m
      BY <1>1
  <1>3. \A i \in 1 .. Len(ledger) : ledger[i] # m
      BY <1>1 DEF Range
  <1>4. LedgerOK'
      <2> SUFFICES ASSUME NEW i \in 1 .. Len(ledger) + 1, NEW j \in 1 .. Len(ledger) + 1,
                          ledger'[i] = ledger'[j]
                   PROVE  i = j
          BY <1>2 DEF LedgerOK
      <2>1. CASE i \in 1 .. Len(ledger) /\ j \in 1 .. Len(ledger)
          BY <1>1, <1>2, <2>1 DEF LedgerOK
      <2>2. CASE i = Len(ledger) + 1 \/ j = Len(ledger) + 1
          <3>1. i \in 1 .. Len(ledger) \/ i = Len(ledger) + 1
              BY <1>1
          <3>2. j \in 1 .. Len(ledger) \/ j = Len(ledger) + 1
              BY <1>1
          <3> QED
              BY <1>2, <1>3, <2>2, <3>1, <3>2
      <2> QED
          BY <1>1, <2>1, <2>2
  <1>5. Range(ledger') = Range(ledger) \cup {m}
      <2>1. \A i \in 1 .. Len(ledger) : i \in 1 .. Len(ledger) + 1
          BY <1>1
      <2>2. \A i \in 1 .. Len(ledger) + 1 : i \in 1 .. Len(ledger) \/ i = Len(ledger) + 1
          BY <1>1
      <2>3. Len(ledger) + 1 \in 1 .. Len(ledger) + 1
          BY <1>1
      <2> QED
          BY <1>1, <1>2, <2>1, <2>2, <2>3 DEF Range
  <1>6. \A i \in DOMAIN ledger : i \in DOMAIN ledger' /\ ledger'[i] = ledger[i]
      BY <1>1, <1>2
  <1>7. \A i \in DOMAIN ledger' : i \in DOMAIN ledger \/ ledger'[i] = m
      BY <1>1, <1>2
  <1>8. \A n, seq : Numbers(n, seq) => NumberIn(ledger', n, seq)
      BY <1>6 DEF Numbers, NumberIn
  <1>9. Len(ledger) <= Len(ledger') /\ NumberIn(ledger', m, Len(ledger) + 1)
      BY <1>1, <1>2 DEF Numbers, NumberIn
  <1>10. Stays
      BY <1>5, <1>6, <1>8, <1>9 DEF Stays
  <1> QED
      BY <1>2, <1>4, <1>5, <1>7, <1>9, <1>10 DEF Grown

LEMMA NothingChanged ==
  ASSUME UNCHANGED ledger, LedgerOK
  PROVE  Stays /\ LedgerOK'
  BY DEF Stays, LedgerOK, Numbers, NumberIn

(* A frame more, about a message with that number.                         *)
LEMMA FrameAdded ==
  ASSUME FramesOK, LedgerOK, LedgerOK', Stays, NEW x \in FrameType, x.seq <= Len(ledger'),
         x.t # "synced" => NumberIn(ledger', x.id, x.seq), toDaemon' = Append(toDaemon, x)
  PROVE  /\ FramesOK' /\ toDaemon'[Len(toDaemon) + 1] = x
         /\ Len(toDaemon') = Len(toDaemon) + 1 /\ Len(toDaemon) \in Nat
         /\ \A k \in DOMAIN toDaemon : k \in DOMAIN toDaemon' /\ toDaemon'[k] = toDaemon[k]
  <1>1. toDaemon \in Seq(FrameType) /\ Len(toDaemon) \in Nat /\ DOMAIN toDaemon = 1 .. Len(toDaemon)
      BY DEF FramesOK
  <1>2. /\ toDaemon' \in Seq(FrameType) /\ Len(toDaemon') = Len(toDaemon) + 1
        /\ DOMAIN toDaemon' = 1 .. Len(toDaemon) + 1
        /\ \A i \in 1 .. Len(toDaemon) : toDaemon'[i] = toDaemon[i]
        /\ toDaemon'[Len(toDaemon) + 1] = x
      BY <1>1
  <1>3. ASSUME NEW k \in DOMAIN toDaemon
        PROVE  /\ toDaemon[k].seq <= Len(ledger')
               /\ toDaemon[k].t # "synced" => NumberIn(ledger', toDaemon[k].id, toDaemon[k].seq)
      <2>1. toDaemon[k].seq \in Nat /\ toDaemon[k].seq <= Len(ledger)
          <3>1. toDaemon[k] \in FrameType
              BY <1>1
          <3>2. toDaemon[k].seq \in Nat
              BY <3>1 DEF FrameType
          <3> QED
              BY <3>2 DEF FramesOK
      <2>2. Len(ledger) \in Nat /\ Len(ledger') \in Nat /\ Len(ledger) <= Len(ledger')
          BY DEF LedgerOK, Stays
      <2>3. toDaemon[k].t # "synced" => Numbers(toDaemon[k].id, toDaemon[k].seq)
          BY DEF FramesOK
      <2> QED
          BY <2>1, <2>2, <2>3 DEF Stays, Numbers
  <1>4. \A k \in 1 .. Len(toDaemon) + 1 : k \in DOMAIN toDaemon \/ k = Len(toDaemon) + 1
      BY <1>1
  <1>5. FramesOK'
      <2> SUFFICES ASSUME NEW k \in DOMAIN toDaemon'
                   PROVE  /\ toDaemon'[k].seq <= Len(ledger')
                          /\ toDaemon'[k].t # "synced" => NumberIn(ledger', toDaemon'[k].id, toDaemon'[k].seq)
          BY <1>2 DEF FramesOK, Numbers
      <2>1. CASE k \in DOMAIN toDaemon
          BY <1>1, <1>2, <1>3, <2>1
      <2>2. CASE k = Len(toDaemon) + 1
          BY <1>2, <2>2
      <2> QED
          BY <1>2, <1>4, <2>1, <2>2
  <1> QED
      BY <1>1, <1>2, <1>5

LEMMA SequenceIs ==
  ASSUME LedgerOK, FramesOK, NEW m \in Msg, Sequence(m)
  PROVE  /\ Grown(m) /\ FramesOK'
         /\ \A k \in DOMAIN toDaemon : k \in DOMAIN toDaemon' /\ toDaemon'[k] = toDaemon[k]
  <1>1. CASE m \in Range(ledger)
      <2>1. ledger' = ledger /\ toDaemon' = Append(toDaemon, Frame("seq", m, NumberOf(m)))
          BY <1>1 DEF Sequence
      <2>2. \E i \in DOMAIN ledger : ledger[i] = m
          BY <1>1 DEF Range
      <2>3. NumberOf(m) \in DOMAIN ledger /\ ledger[NumberOf(m)] = m
          BY <2>2 DEF NumberOf
      <2>4. Stays /\ LedgerOK' /\ Grown(m)
          BY <1>1, <2>1, NothingChanged DEF Grown
      <2> DEFINE x == Frame("seq", m, NumberOf(m))
      <2>5. DOMAIN ledger = 1 .. Len(ledger) /\ Len(ledger) \in Nat
          BY DEF LedgerOK
      <2>6. x \in FrameType /\ x.seq <= Len(ledger) /\ Numbers(x.id, x.seq)
          BY <2>3, <2>5 DEF Frame, FrameType, Numbers, NumberIn
      <2>7. x.seq <= Len(ledger') /\ NumberIn(ledger', x.id, x.seq)
          BY <2>1, <2>4, <2>6 DEF Stays
      <2> HIDE DEF x
      <2>8. toDaemon' = Append(toDaemon, x)
          BY <2>1 DEF x
      <2> QED
          BY <2>4, <2>6, <2>7, <2>8, FrameAdded
  <1>2. CASE m \notin Range(ledger)
      <2> DEFINE x == Frame("seq", m, Len(ledger) + 1)
      <2>1. ledger' = Append(ledger, m) /\ toDaemon' = Append(toDaemon, x)
          BY <1>2 DEF Sequence
      <2>2. Grown(m) /\ Len(ledger') = Len(ledger) + 1 /\ NumberIn(ledger', m, Len(ledger) + 1)
          BY <1>2, <2>1, Appends
      <2>3. LedgerOK' /\ Stays
          BY <2>2 DEF Grown
      <2>4. Len(ledger) \in Nat
          BY DEF LedgerOK
      <2>5. x \in FrameType /\ x.seq <= Len(ledger') /\ NumberIn(ledger', x.id, x.seq)
          BY <2>2, <2>4 DEF Frame, FrameType
      <2> HIDE DEF x
      <2> QED
          BY <2>1, <2>2, <2>3, <2>5, FrameAdded
  <1> QED
      BY <1>1, <1>2

(* What we sent has no part in what is replayed.                           *)
LEMMA ReplayGoesOn ==
  ASSUME ReplayOK, LedgerOK, LedgerOK', FramesOK, DaemonOK, NEW m \in Own, Grown(m), UNCHANGED <<net, cursor>>,
         \A k \in DOMAIN toDaemon : k \in DOMAIN toDaemon' /\ toDaemon'[k] = toDaemon[k]
  PROVE  ReplayOK'
  <1> SUFFICES ASSUME net = "up", NEW j \in cursor + 1 .. Len(ledger'), ledger'[j] \in Others
               PROVE  \E k \in DOMAIN toDaemon' :
                        /\ toDaemon'[k].t = "msg" /\ toDaemon'[k].id = ledger'[j] /\ toDaemon'[k].seq = j
                        /\ \A i \in 1 .. k - 1 : toDaemon'[i].seq < j
      BY DEF ReplayOK
  <1>1. /\ cursor \in Nat /\ Len(ledger) \in Nat /\ Len(ledger') \in Nat
        /\ DOMAIN ledger = 1 .. Len(ledger) /\ DOMAIN ledger' = 1 .. Len(ledger')
        /\ DOMAIN toDaemon = 1 .. Len(toDaemon) /\ Len(toDaemon) \in Nat
      BY DEF DaemonOK, LedgerOK, FramesOK
  <1>2. ledger'[j] # m
      BY OutboxAssumption
  <1>3. j \in DOMAIN ledger'
      BY <1>1
  <1>4. j \in DOMAIN ledger /\ ledger'[j] = ledger[j]
      BY <1>2, <1>3 DEF Grown, Stays
  <1>5. j \in cursor + 1 .. Len(ledger)
      BY <1>1, <1>4
  <1>6. PICK k \in DOMAIN toDaemon :
            /\ toDaemon[k].t = "msg" /\ toDaemon[k].id = ledger[j] /\ toDaemon[k].seq = j
            /\ \A i \in 1 .. k - 1 : toDaemon[i].seq < j
      BY <1>4, <1>5 DEF ReplayOK
  <1>7. \A i \in 1 .. k - 1 : i \in DOMAIN toDaemon
      BY <1>1
  <1> QED
      BY <1>4, <1>6, <1>7

(* The link's goroutine takes a frame: a message of somebody else that the *)
(* cursor passes by it is the frame itself.                                *)
LEMMA FrameTaken ==
  ASSUME DaemonOK, LedgerOK, FramesOK, ReplayOK, CursorOK, NEW t, Reading(t),
         UNCHANGED <<net, ledger>>
  PROVE  /\ FramesOK' /\ ReplayOK'
         /\ Head(toDaemon) \in FrameType /\ Head(toDaemon).t = t
         /\ t # "synced" => Numbers(Head(toDaemon).id, Head(toDaemon).seq)
         /\ cursor' \in Nat /\ cursor <= cursor' /\ cursor' <= Len(ledger)
         /\ \A i \in 1 .. cursor' : ledger[i] \in Others =>
               i \in 1 .. cursor \/ (t = "msg" /\ Head(toDaemon).id = ledger[i])
  <1> DEFINE h == Head(toDaemon)
  <1> DEFINE n == Len(toDaemon)
  <1>1. /\ toDaemon \in Seq(FrameType) /\ n \in Nat /\ n >= 1 /\ DOMAIN toDaemon = 1 .. n
        /\ h = toDaemon[1] /\ toDaemon[1] \in FrameType /\ h.t = t
      BY DEF FramesOK, Reading
  <1>2. /\ Len(toDaemon') = n - 1 /\ toDaemon' \in Seq(FrameType) /\ DOMAIN toDaemon' = 1 .. n - 1
        /\ \A k \in 1 .. n - 1 : toDaemon'[k] = toDaemon[k + 1]
      <2>1. toDaemon' = Tail(toDaemon)
          BY DEF Reading
      <2> QED
          BY <1>1, <2>1
  <1> HIDE DEF n, h
  <1>3. cursor \in Nat /\ Len(ledger) \in Nat /\ cursor <= Len(ledger) /\ DOMAIN ledger = 1 .. Len(ledger)
      BY DEF DaemonOK, LedgerOK, CursorOK
  <1>4. h.seq \in Nat /\ h.seq <= Len(ledger) /\ (t # "synced" => Numbers(h.id, h.seq))
      <2>1. h.seq \in Nat
          BY <1>1 DEF FrameType
      <2>2. 1 \in DOMAIN toDaemon
          BY <1>1
      <2> QED
          BY <1>1, <2>1, <2>2 DEF FramesOK
  <1>5. cursor' = IF cursor > h.seq THEN cursor ELSE h.seq
      BY DEF Reading, Larger, h
  <1>6. cursor' \in Nat /\ cursor <= cursor' /\ h.seq <= cursor' /\ cursor' <= Len(ledger)
      BY <1>3, <1>4, <1>5
  <1>7. FramesOK'
      <2>1. \A k \in 1 .. n - 1 : k + 1 \in DOMAIN toDaemon /\ k + 1 \in 1 .. n
          BY <1>1
      <2>2. \A k \in 1 .. n - 1 :
                /\ toDaemon'[k].seq <= Len(ledger)
                /\ toDaemon'[k].t # "synced" => Numbers(toDaemon'[k].id, toDaemon'[k].seq)
          BY <1>2, <2>1 DEF FramesOK
      <2> QED
          BY <1>2, <2>2 DEF FramesOK, Numbers
  (* What is above the cursor is on its way, at k.                         *)
  <1> DEFINE Coming(j, k) == /\ k \in 1 .. n
                             /\ toDaemon[k].t = "msg" /\ toDaemon[k].id = ledger[j] /\ toDaemon[k].seq = j
                             /\ \A i \in 1 .. k - 1 : toDaemon[i].seq < j
  <1>8. \A j \in cursor + 1 .. Len(ledger) : ledger[j] \in Others => \E k \in 1 .. n : Coming(j, k)
      BY <1>1 DEF ReplayOK, Reading
  <1>9. ASSUME NEW j \in cursor + 1 .. Len(ledger), NEW k, Coming(j, k)
        PROVE  \/ k = 1 /\ t = "msg" /\ h.id = ledger[j] /\ h.seq = j
               \/ k > 1 /\ h.seq < j
      <2>1. CASE k = 1
          BY <1>1, <1>9, <2>1
      <2>2. CASE k > 1
          <3>1. 1 \in 1 .. k - 1
              BY <1>1, <1>9, <2>2
          <3> QED
              BY <1>1, <1>9, <2>2, <3>1
      <2> QED
          BY <1>1, <1>9, <2>1, <2>2
  <1>10. \A i \in 1 .. cursor' : ledger[i] \in Others =>
             i \in 1 .. cursor \/ (t = "msg" /\ h.id = ledger[i])
      <2> SUFFICES ASSUME NEW i \in 1 .. cursor', ledger[i] \in Others, i \notin 1 .. cursor
                   PROVE  t = "msg" /\ h.id = ledger[i]
          OBVIOUS
      <2>1. i \in cursor + 1 .. Len(ledger) /\ i \in Nat /\ i <= h.seq
          BY <1>3, <1>4, <1>5, <1>6
      <2>2. PICK k \in 1 .. n : Coming(i, k)
          BY <1>8, <2>1
      <2> HIDE DEF Coming
      <2>3. ~(h.seq < i)
          BY <1>4, <2>1
      <2> QED
          BY <1>9, <2>1, <2>2, <2>3
  <1>11. ReplayOK'
      <2> SUFFICES ASSUME NEW j \in cursor' + 1 .. Len(ledger), ledger[j] \in Others
                   PROVE  \E k \in 1 .. n - 1 :
                            /\ toDaemon'[k].t = "msg" /\ toDaemon'[k].id = ledger[j] /\ toDaemon'[k].seq = j
                            /\ \A i \in 1 .. k - 1 : toDaemon'[i].seq < j
          BY <1>2 DEF ReplayOK
      <2> DEFINE c == cursor'
      <2> DEFINE s == h.seq
      <2> DEFINE e == Len(ledger)
      <2>6. c \in Nat /\ cursor <= c /\ s <= c /\ j \in c + 1 .. e /\ s \in Nat /\ e \in Nat
          BY <1>3, <1>4, <1>6
      <2> HIDE DEF c, s, e
      <2>7. j \in cursor + 1 .. e /\ j \in Nat /\ j > s
          BY ONLY <1>3, <2>6
      <2>1. j \in cursor + 1 .. Len(ledger) /\ j \in Nat /\ j > h.seq
          BY <2>7 DEF s, e
      <2>2. PICK k \in 1 .. n : Coming(j, k)
          BY <1>8, <2>1
      <2>3. k > 1
          <3> HIDE DEF Coming
          <3>1. h.seq # j
              BY <1>4, <2>1
          <3> QED
              BY <1>9, <2>1, <2>2, <3>1
      <2>4. k - 1 \in 1 .. n - 1 /\ (k - 1) + 1 = k
          BY <1>1, <2>3
      <2>5. \A i \in 1 .. (k - 1) - 1 : i \in 1 .. n - 1 /\ i + 1 \in 1 .. k - 1
          BY <1>1, <2>3
      <2> QED
          BY <1>2, <2>2, <2>4, <2>5
  <1> QED
      BY <1>1, <1>4, <1>6, <1>7, <1>10, <1>11 DEF h

----------------------------------------------------------------------------
(* What a step does not touch.                                             *)

LEMMA UndisturbedTypes ==
  /\ DaemonOK /\ UNCHANGED <<alive, marking, send, net, cursor, saved, faults>> => DaemonOK'
  /\ alive /\ UNCHANGED alive => DeadOK'
  /\ ListOK /\ UNCHANGED list => ListOK'
  /\ FileOK /\ UNCHANGED file => FileOK'
  /\ LineOK /\ UNCHANGED line /\ Ids(list) \subseteq Ids(list') => LineOK'
  /\ FlushOK /\ UNCHANGED flush /\ Ids(list) \subseteq Ids(list') => FlushOK'
  /\ LedgerOK /\ UNCHANGED ledger => LedgerOK'
  /\ FramesOK /\ UNCHANGED <<toDaemon, ledger>> => FramesOK'
  /\ CallsOK /\ UNCHANGED <<alive, send, list, file, ledger>> => CallsOK'
  <1>1. DaemonOK /\ UNCHANGED <<alive, marking, send, net, cursor, saved, faults>> => DaemonOK'
      BY Zenon DEF DaemonOK
  <1>2. alive /\ UNCHANGED alive => DeadOK'
      BY DEF DeadOK
  <1>3. ListOK /\ UNCHANGED list => ListOK'
      BY Zenon DEF ListOK
  <1>4. FileOK /\ UNCHANGED file => FileOK'
      BY Zenon DEF FileOK
  <1>5. LineOK /\ UNCHANGED line /\ Ids(list) \subseteq Ids(list') => LineOK'
      BY DEF LineOK
  <1>6. FlushOK /\ UNCHANGED flush /\ Ids(list) \subseteq Ids(list') => FlushOK'
      BY DEF FlushOK
  <1>7. LedgerOK /\ UNCHANGED ledger => LedgerOK'
      BY Zenon DEF LedgerOK
  <1>8. FramesOK /\ UNCHANGED <<toDaemon, ledger>> => FramesOK'
      BY DEF FramesOK, Numbers
  <1>9. CallsOK /\ UNCHANGED <<alive, send, list, file, ledger>> => CallsOK'
      BY DEF CallsOK, UnderWay
  <1> QED
      BY <1>1, <1>2, <1>3, <1>4, <1>5, <1>6, <1>7, <1>8, <1>9, Zenon

LEMMA Undisturbed ==
  /\ DeliveredOK /\ UNCHANGED <<list, file, line>> /\ Stays => DeliveredOK'
  /\ KeptOK /\ UNCHANGED <<send, alive, list, file>> => KeptOK'
  /\ OthersOK /\ UNCHANGED <<list, file, line>> => OthersOK'
  /\ LedgerOK /\ LedgerOK' /\ DaemonOK /\ CursorOK /\ Stays
        /\ UNCHANGED <<alive, file, line, cursor, saved>> => CursorOK'
  /\ ReplayOK /\ UNCHANGED <<net, cursor, ledger, toDaemon>> => ReplayOK'
  /\ NumberedOK /\ UNCHANGED <<list, file, line>> /\ Stays => NumberedOK'
  /\ JournalOK /\ UNCHANGED <<alive, file, list, line, send>> => JournalOK'
  /\ BadgeOK /\ UNCHANGED <<list, unread>> => BadgeOK'
  <1>1. DeliveredOK /\ UNCHANGED <<list, file, line>> /\ Stays => DeliveredOK'
      BY DEF DeliveredOK, Stays
  <1>2. KeptOK /\ UNCHANGED <<send, alive, list, file>> => KeptOK'
      BY DEF KeptOK, Promised
  <1>3. OthersOK /\ UNCHANGED <<list, file, line>> => OthersOK'
      BY DEF OthersOK, Promised, Written1
  <1>4. LedgerOK /\ LedgerOK' /\ DaemonOK /\ CursorOK /\ Stays
           /\ UNCHANGED <<alive, file, line, cursor, saved>> => CursorOK'
      <2> SUFFICES ASSUME LedgerOK, LedgerOK', DaemonOK, CursorOK, Stays,
                          UNCHANGED <<alive, file, line, cursor, saved>>
                   PROVE  CursorOK'
          OBVIOUS
      <2>1. /\ Len(ledger) \in Nat /\ Len(ledger') \in Nat /\ Len(ledger) <= Len(ledger')
            /\ DOMAIN ledger = 1 .. Len(ledger) /\ saved \in Nat /\ cursor \in Nat
            /\ saved <= Len(ledger) /\ cursor <= Len(ledger)
          BY DEF LedgerOK, DaemonOK, Stays, CursorOK
      <2>2. \A i \in 1 .. cursor : i \in DOMAIN ledger /\ ledger'[i] = ledger[i]
          BY <2>1 DEF Stays
      <2>3. \A i \in 1 .. saved : i \in DOMAIN ledger /\ ledger'[i] = ledger[i]
          BY <2>1 DEF Stays
      <2> QED
          BY <2>1, <2>2, <2>3 DEF CursorOK, Promised, Written1
  <1>5. ReplayOK /\ UNCHANGED <<net, cursor, ledger, toDaemon>> => ReplayOK'
      BY DEF ReplayOK
  <1>6. NumberedOK /\ UNCHANGED <<list, file, line>> /\ Stays => NumberedOK'
      BY DEF NumberedOK, Stays, Numbers
  <1>7. JournalOK /\ UNCHANGED <<alive, file, list, line, send>> => JournalOK'
      BY DEF JournalOK, Promised, Written1, Owed
  <1>8. BadgeOK /\ UNCHANGED <<list, unread>> => BadgeOK'
      BY Zenon DEF BadgeOK
  <1> QED
      BY <1>1, <1>2, <1>3, <1>4, <1>5, <1>6, <1>7, <1>8, Zenon

(* Who is at work is running.                                              *)
LEMMA AtWork ==
  ASSUME DaemonOK, DeadOK, CallsOK
  PROVE  /\ \A m \in Own : send[m] \in {"filed", "kept", "wired", "marked"} => alive /\ m \in Ids(list)
         /\ marking \/ line # <<>> \/ net = "up" => alive
  BY DEF DeadOK, CallsOK, UnderWay, DaemonOK

----------------------------------------------------------------------------
(* The steps.                                                              *)

LEMMA Parts ==
  IInv => /\ DaemonOK /\ DeadOK /\ ListOK /\ FileOK /\ LineOK /\ FlushOK /\ LedgerOK /\ FramesOK
          /\ CallsOK /\ Ordered(list) /\ DeliveredOK /\ KeptOK /\ OthersOK /\ CursorOK /\ ReplayOK
          /\ NumberedOK /\ JournalOK /\ BadgeOK
          /\ list \in Seq(CopyType)
  BY Zenon DEF IInv, Typed, ListOK

(* Nobody has heard of a message before its call.                          *)
LEMMA Unheard ==
  ASSUME CallsOK, NumberedOK, NEW m \in Own, send[m] = "idle"
  PROVE  /\ m \in Msg /\ m \notin Others /\ m \notin Ids(list) /\ ~OnFile(file, m)
         /\ m \notin Range(ledger) /\ file.of[m].seq = 0
  <1>1. m \in Msg /\ m \notin Others
      BY OutboxAssumption DEF Msg
  <1>2. m \notin Ids(list) /\ ~OnFile(file, m) /\ m \notin Range(ledger)
      BY Zenon DEF CallsOK
  <1>3. file.of[m].seq # 0 => m \in Range(ledger)
      BY <1>1 DEF NumberedOK, Numbers, NumberIn, Range
  <1> QED
      BY <1>1, <1>2, <1>3

LEMMA ComposeKeeps ==
  ASSUME IInv, NEW m \in Own, Compose(m)
  PROVE  IInv'
  <1> DEFINE c == Copy(m, 0, "queued", TRUE)
  <1>1. /\ alive /\ send[m] = "idle" /\ list' = InsertOrdered(list, c)
        /\ send' = [send EXCEPT ![m] = "filed"]
      BY Zenon DEF Compose, At
  <1>2. UNCHANGED <<alive, unread, file, marking, net, line, flush, cursor, saved, ledger, toDaemon, faults>>
      BY Zenon DEF Compose, link
  <1>3. /\ m \in Msg /\ m \notin Others /\ m \notin Ids(list) /\ file.of[m].seq = 0
        /\ m \notin Range(ledger)
      BY <1>1, Parts, Unheard
  <1>4. /\ c \in CopyType /\ c.id = m /\ c.seq = 0 /\ c.state = "queued" /\ c.read = TRUE
      BY <1>3 DEF Copy, CopyType, State
  <1> HIDE DEF c
  <1>5. /\ list' \in Seq(CopyType) /\ Ordered(list')
        /\ Range(list') = Range(list) \cup {c} /\ Ids(list') = Ids(list) \cup {m}
      BY <1>1, <1>3, <1>4, Parts, InsertKeepsOrder
  <1>6. Stays /\ Ids(list) \subseteq Ids(list')
      BY <1>2, <1>5, Parts, NothingChanged
  <1>7. send \in [Own -> Places] /\ send' \in [Own -> Places] /\ send'[m] = "filed"
        /\ \A n \in Own : n # m => send'[n] = send[n]
      BY <1>1, Parts DEF DaemonOK, Places
  <1>8. DaemonOK'
      BY <1>2, <1>7, Parts DEF DaemonOK
  <1>9. DeadOK' /\ FileOK' /\ LineOK' /\ FlushOK' /\ LedgerOK' /\ FramesOK'
      BY <1>1, <1>2, <1>6, Parts, UndisturbedTypes
  <1>10. ListOK'
      BY <1>5 DEF ListOK
  <1>11. CallsOK'
      <2>1. UnderWay' \subseteq UnderWay \cup {m}
          BY <1>7 DEF UnderWay
      <2>2. UnderWay' \subseteq Ids(list')
          BY <1>1, <1>5, <2>1, Parts DEF CallsOK
      <2>3. ASSUME NEW n \in Own, send'[n] = "idle"
            PROVE  n \notin Ids(list') /\ ~OnFile(file', n) /\ n \notin Range(ledger')
          <3>1. n # m /\ send[n] = "idle"
              BY <1>7, <2>3
          <3> QED
              BY <1>2, <1>5, <3>1, Parts DEF CallsOK
      <2> QED
          BY <2>2, <2>3 DEF CallsOK
  <1>12. DeliveredOK'
      BY <1>2, <1>4, <1>5, Parts DEF DeliveredOK
  <1>13. KeptOK'
      <2> SUFFICES ASSUME Promised, NEW n \in Own
                   PROVE  /\ send'[n] \in {"kept", "wired", "marked", "done"} => OnFile(file, n)
                          /\ send'[n] = "done" => n \in Ids(list')
          BY <1>2 DEF KeptOK, Promised
      <2> QED
          BY <1>1, <1>6, <1>7, Parts DEF KeptOK
  <1>14. OthersOK'
      BY <1>2, <1>3, <1>5, Parts DEF OthersOK, Promised, Written1
  <1>15. CursorOK' /\ ReplayOK'
      BY <1>2, <1>6, <1>9, Parts, Undisturbed
  <1>16. NumberedOK'
      <2>1. line # <<>> => line[1].id # m
          BY <1>3, Parts DEF LineOK
      <2> QED
          BY <1>2, <1>4, <1>5, <2>1, Parts DEF NumberedOK, Numbers
  <1>17. JournalOK'
      <2> SUFFICES ASSUME Promised
                   PROVE  /\ \A n \in Msg : OnFile(file, n) => n \in Ids(list')
                          /\ \A n \in Ids(list') : Written1(n) \/ (n \in Own /\ send'[n] \in {"filed", "refused"})
                          /\ \A d \in Range(list') : file.of[d.id].seq = d.seq \/ Owed(d)
          BY <1>2 DEF JournalOK, Promised, Written1, Owed
      <2>1. /\ \A n \in Msg : OnFile(file, n) => n \in Ids(list)
            /\ \A n \in Ids(list) : Written1(n) \/ (n \in Own /\ send[n] \in {"filed", "refused"})
            /\ \A d \in Range(list) : file.of[d.id].seq = d.seq \/ Owed(d)
          BY <1>1, Parts DEF JournalOK
      <2>2. \A n \in Ids(list') : Written1(n) \/ (n \in Own /\ send'[n] \in {"filed", "refused"})
          <3>1. \A n \in Ids(list) : n # m
              BY <1>3
          <3> QED
              BY <1>5, <1>7, <2>1, <3>1
      <2>3. file.of[c.id].seq = c.seq
          BY <1>3, <1>4
      <2> QED
          BY <1>5, <2>1, <2>2, <2>3
  <1>18. BadgeOK'
      <2>1. UnreadIds(list') = UnreadIds(list)
          BY <1>4, <1>5 DEF UnreadIds
      <2> QED
          BY <1>2, <2>1, Parts DEF BadgeOK
  <1> QED
      BY <1>5, <1>8, <1>9, <1>10, <1>11, <1>12, <1>13, <1>14, <1>15, <1>16, <1>17, <1>18, Zenon
         DEF IInv, Typed

(* A line that gives no number is written at once.                         *)
LEMMA FilingKeeps ==
  ASSUME IInv, alive, NEW l \in LineType, l.k # "q", l.seq = 0, l.state # "delivered",
         l.k = "m" => l.id \in Ids(list), file' = Written(file, l), DaemonOK',
         UNCHANGED <<alive, list, unread, net, line, flush, cursor, saved, ledger, toDaemon, faults>>,
         \A n \in Own : \/ send'[n] = send[n]
                        \/ send[n] = "filed" /\ send'[n] = "kept" /\ l.k = "m" /\ l.id = n
                        \/ send[n] = "marked" /\ send'[n] = "done"
  PROVE  IInv'
  <1>1. /\ FileOK' /\ (Promised' => Promised)
        /\ \A m \in Msg :
              /\ OnFile(file, m) => OnFile(file', m)
              /\ OnFile(file', m) => OnFile(file, m) \/ (l.k = "m" /\ l.id = m)
              /\ file'.of[m].seq = file.of[m].seq \/ (l.k = "m" /\ l.id = m /\ file'.of[m].seq = 0)
              /\ file'.of[m].state = file.of[m].state \/ file'.of[m].state # "delivered"
        /\ Promised' /\ l.k = "m" =>
              /\ OnFile(file', l.id)
              /\ file'.of[l.id].seq = IF file.of[l.id].seq = 0 THEN 0 ELSE file.of[l.id].seq
      BY Parts, WritesFile
  <1>2. \A m \in Msg : Promised' => file'.of[m].seq = file.of[m].seq
      BY <1>1
  <1>3. Own \subseteq Msg /\ Ids(list) \subseteq Msg /\ \A c \in Range(list) : c.id \in Msg
      BY Parts, Members DEF Msg
  <1>4. Stays /\ LedgerOK' /\ Ids(list') = Ids(list)
      BY Parts, NothingChanged
  <1>5. \A n \in Own : n \in UnderWay => n \in Ids(list)
      BY Parts DEF CallsOK
  <1>6. DeadOK' /\ ListOK' /\ LineOK' /\ FlushOK' /\ FramesOK'
      BY <1>4, Parts, UndisturbedTypes
  <1>7. CallsOK'
      <2>1. UnderWay' \subseteq UnderWay
          BY DEF UnderWay
      <2>2. UnderWay' \subseteq Ids(list')
          BY <1>4, <1>5, <2>1 DEF UnderWay
      <2>3. ASSUME NEW n \in Own, send'[n] = "idle"
            PROVE  n \notin Ids(list') /\ ~OnFile(file', n) /\ n \notin Range(ledger')
          <3>1. send[n] = "idle"
              BY <2>3
          <3>2. n \notin Ids(list) /\ ~OnFile(file, n) /\ n \notin Range(ledger)
              BY <3>1, Parts DEF CallsOK
          <3> QED
              BY <1>1, <1>3, <3>2
      <2> QED
          BY <2>2, <2>3 DEF CallsOK
  <1>8. DeliveredOK'
      BY <1>1, Parts DEF DeliveredOK
  <1>9. KeptOK'
      <2> SUFFICES ASSUME Promised', NEW n \in Own
                   PROVE  /\ send'[n] \in {"kept", "wired", "marked", "done"} => OnFile(file', n)
                          /\ send'[n] = "done" => n \in Ids(list)
          BY DEF KeptOK
      <2>1. /\ send[n] \in {"kept", "wired", "marked", "done"} => OnFile(file, n)
            /\ send[n] = "done" => n \in Ids(list)
          BY <1>1, Parts DEF KeptOK
      <2>2. send[n] = "marked" => n \in Ids(list)
          BY <1>5 DEF UnderWay
      <2> QED
          BY <1>1, <1>3, <2>1, <2>2
  <1>10. \A m \in Msg : Written1(m) => Written1(m)'
      BY <1>1 DEF Written1
  <1>11. OthersOK'
      BY <1>1, <1>3, <1>10, Parts DEF OthersOK
  <1>12. CursorOK'
      <2>1. \A i \in 1 .. cursor : ledger[i] \in Msg
          BY Parts DEF CursorOK, LedgerOK, DaemonOK
      <2>2. \A i \in 1 .. saved : ledger[i] \in Msg
          BY Parts DEF CursorOK, LedgerOK, DaemonOK
      <2>3. Promised' => \A i \in 1 .. cursor : ledger[i] \in Others => Written1(ledger[i])
          BY <1>1, Parts DEF CursorOK
      <2>4. Promised' => \A i \in 1 .. saved : ledger[i] \in Others => OnFile(file, ledger[i])
          BY <1>1, Parts DEF CursorOK
      <2>5. Promised' => \A i \in 1 .. cursor : ledger'[i] \in Others =>
                OnFile(file', ledger'[i]) \/ (line' # <<>> /\ line'[1].k = "m" /\ line'[1].id = ledger'[i])
          BY <1>1, <2>1, <2>3 DEF Written1
      <2>6. Promised' => \A i \in 1 .. saved : ledger'[i] \in Others => OnFile(file', ledger'[i])
          BY <1>1, <2>2, <2>4
      <2>7. saved <= Len(ledger) /\ cursor <= Len(ledger) /\ (alive => saved <= cursor)
          BY Parts DEF CursorOK
      <2> QED
          BY <2>5, <2>6, <2>7 DEF CursorOK, Written1
  <1>13. ReplayOK' /\ BadgeOK'
      BY Parts, Undisturbed
  <1>14. NumberedOK'
      <2>1. \A m \in Msg : file'.of[m].seq # 0 => Numbers(m, file'.of[m].seq)
          BY <1>1, Parts DEF NumberedOK
      <2> QED
          BY <2>1, Parts DEF NumberedOK, Numbers
  <1>15. JournalOK'
      <2> SUFFICES ASSUME Promised'
                   PROVE  /\ \A m \in Msg : OnFile(file', m) => m \in Ids(list)
                          /\ \A m \in Ids(list) : Written1(m)' \/ (m \in Own /\ send'[m] \in {"filed", "refused"})
                          /\ \A c \in Range(list) : file'.of[c.id].seq = c.seq \/ Owed(c)
          BY DEF JournalOK, Owed
      <2>1. /\ \A m \in Msg : OnFile(file, m) => m \in Ids(list)
            /\ \A m \in Ids(list) : Written1(m) \/ (m \in Own /\ send[m] \in {"filed", "refused"})
            /\ \A c \in Range(list) : file.of[c.id].seq = c.seq \/ Owed(c)
          BY <1>1, Parts DEF JournalOK
      <2>2. \A m \in Ids(list) : Written1(m)' \/ (m \in Own /\ send'[m] \in {"filed", "refused"})
          <3>1. l.k = "m" => Written1(l.id)'
              BY <1>1 DEF Written1
          <3> QED
              BY <1>3, <1>10, <2>1, <3>1
      <2> QED
          BY <1>1, <1>2, <1>3, <2>1, <2>2
  <1>16. Ordered(list)'
      BY Parts DEF Ordered, Before
  <1> QED
      BY <1>1, <1>4, <1>6, <1>7, <1>8, <1>9, <1>11, <1>12, <1>13, <1>14, <1>15, <1>16, Zenon
         DEF IInv, Typed

LEMMA LinesTyped ==
  /\ \A m \in Own : /\ Line("m", m, 0, "queued") \in LineType
                    /\ Line("s", m, 0, "sending") \in LineType
  /\ ReadLine \in LineType /\ ReadLine.k = "r" /\ ReadLine.seq = 0 /\ ReadLine.state = "none"
  <1>1. (CHOOSE m \in Msg : TRUE) \in Msg
      BY OutboxAssumption
  <1> QED
      BY <1>1 DEF Line, LineType, State, ReadLine, Msg

LEMMA KeepKeeps ==
  ASSUME IInv, NEW m \in Own, Keep(m)
  PROVE  IInv'
  <1> DEFINE l == Line("m", m, 0, "queued")
  <1>1. /\ send[m] = "filed" /\ send' = [send EXCEPT ![m] = "kept"] /\ file' = Written(file, l)
        /\ UNCHANGED <<alive, list, unread, marking, net, line, flush, cursor, saved, ledger, toDaemon, faults>>
      BY Zenon DEF Keep, At, store, link
  <1>2. l \in LineType /\ l.k = "m" /\ l.id = m /\ l.seq = 0 /\ l.state = "queued"
      BY LinesTyped DEF Line
  <1>3. alive /\ m \in Ids(list)
      BY <1>1, Parts, AtWork
  <1>4. send \in [Own -> Places] /\ send' \in [Own -> Places] /\ send'[m] = "kept"
        /\ \A n \in Own : n # m => send'[n] = send[n]
      BY <1>1, Parts DEF DaemonOK, Places
  <1>5. DaemonOK'
      BY <1>1, <1>4, Parts DEF DaemonOK
  <1> HIDE DEF l
  <1> QED
      BY <1>1, <1>2, <1>3, <1>4, <1>5, FilingKeeps

LEMMA MarkLineKeeps ==
  ASSUME IInv, NEW m \in Own, MarkLine(m)
  PROVE  IInv'
  <1> DEFINE l == Line("s", m, 0, "sending")
  <1>1. /\ send[m] = "marked" /\ send' = [send EXCEPT ![m] = "done"] /\ file' = Written(file, l)
        /\ UNCHANGED <<alive, list, unread, marking, net, line, flush, cursor, saved, ledger, toDaemon, faults>>
      BY Zenon DEF MarkLine, At, store, link
  <1>2. l \in LineType /\ l.k = "s" /\ l.seq = 0 /\ l.state = "sending"
      BY LinesTyped DEF Line
  <1>3. alive
      BY <1>1, Parts, AtWork
  <1>4. send \in [Own -> Places] /\ send' \in [Own -> Places] /\ send'[m] = "done"
        /\ \A n \in Own : n # m => send'[n] = send[n]
      BY <1>1, Parts DEF DaemonOK, Places
  <1>5. DaemonOK'
      BY <1>1, <1>4, Parts DEF DaemonOK
  <1> HIDE DEF l
  <1> QED
      BY <1>1, <1>2, <1>3, <1>4, <1>5, FilingKeeps

LEMMA MarkReadLineKeeps ==
  ASSUME IInv, MarkReadLine
  PROVE  IInv'
  <1> DEFINE l == ReadLine
  <1>1. /\ marking /\ marking' = FALSE /\ file' = Written(file, l)
        /\ UNCHANGED <<alive, list, unread, send, net, line, flush, cursor, saved, ledger, toDaemon, faults>>
      BY Zenon DEF MarkReadLine, store, link
  <1>2. l \in LineType /\ l.k = "r" /\ l.seq = 0 /\ l.state = "none"
      BY LinesTyped
  <1>3. alive
      BY <1>1, Parts, AtWork
  <1>4. DaemonOK'
      BY <1>1, Parts DEF DaemonOK
  <1> HIDE DEF l
  <1> QED
      BY <1>1, <1>2, <1>3, <1>4, FilingKeeps

LEMMA WriteLineKeeps ==
  ASSUME IInv, WriteLine
  PROVE  IInv'
  <1> DEFINE l == line[1]
  <1>1. /\ alive /\ line # <<>> /\ file' = Written(file, Head(line)) /\ line' = <<>>
        /\ UNCHANGED <<alive, list, unread, send, marking, net, flush, cursor, saved, ledger, toDaemon, faults>>
      BY Zenon DEF WriteLine, store
  <1>2. line \in Seq(LineType) /\ Len(line) <= 1 /\ l.id \in Ids(list)
      BY <1>1, Parts DEF LineOK
  <1>3. l \in LineType /\ file' = Written(file, l)
      BY <1>1, <1>2
  <1>4. /\ l.k \in {"m", "q"} => /\ Numbers(l.id, l.seq)
                                 /\ \A c \in Range(list) : c.id = l.id => c.seq = l.seq
        /\ l.state = "delivered" => l.id \in Range(ledger)
        /\ \A m : Written1(m) <=> OnFile(file, m) \/ (l.k = "m" /\ l.id = m)
        /\ \A c : Owed(c) <=> l.k \in {"m", "q"} /\ l.id = c.id /\ l.seq = c.seq
        /\ \A m : Written1(m)' <=> OnFile(file', m)
      <2>1. /\ l.k \in {"m", "q"} => /\ Numbers(l.id, l.seq)
                                     /\ \A c \in Range(list) : c.id = l.id => c.seq = l.seq
            /\ l.state = "delivered" => l.id \in Range(ledger)
          BY <1>1, Parts DEF NumberedOK, DeliveredOK
      <2>2. /\ \A m : Written1(m) <=> OnFile(file, m) \/ (l.k = "m" /\ l.id = m)
            /\ \A c : Owed(c) <=> l.k \in {"m", "q"} /\ l.id = c.id /\ l.seq = c.seq
          BY <1>1 DEF Written1, Owed
      <2>3. \A m : Written1(m)' <=> OnFile(file', m)
          BY <1>1 DEF Written1
      <2> QED
          BY <2>1, <2>2, <2>3
  <1> HIDE DEF l
  <1>5. /\ FileOK' /\ (Promised' => Promised)
        /\ \A m \in Msg :
              /\ OnFile(file, m) => OnFile(file', m)
              /\ OnFile(file', m) => OnFile(file, m) \/ (l.k = "m" /\ l.id = m)
              /\ \/ file'.of[m].seq = file.of[m].seq
                 \/ l.k \in {"m", "q"} /\ l.id = m /\ file'.of[m].seq = l.seq
              /\ \/ file'.of[m].state = file.of[m].state
                 \/ l.k \in {"m", "q", "s"} /\ l.id = m /\ file'.of[m].state = l.state
        /\ Promised' /\ l.k = "m" =>
              /\ OnFile(file', l.id)
              /\ file'.of[l.id].seq = IF file.of[l.id].seq = 0 THEN l.seq ELSE file.of[l.id].seq
        /\ Promised' /\ l.k = "q" => file'.of[l.id].seq = l.seq
      BY <1>3, Parts, WritesFile
  <1>6. Own \subseteq Msg /\ Ids(list) \subseteq Msg /\ \A c \in Range(list) : c.id \in Msg /\ c.id \in Ids(list)
      BY Parts, Members DEF Msg
  <1>7. Stays /\ LedgerOK'
      BY <1>1, Parts, NothingChanged
  <1>8. DaemonOK' /\ DeadOK' /\ ListOK' /\ FlushOK' /\ FramesOK'
      BY <1>1, Parts, UndisturbedTypes
  <1>9. LineOK'
      <2>1. <<>> \in Seq(LineType) /\ Len(<<>>) <= 1
          OBVIOUS
      <2> QED
          BY <1>1, <2>1 DEF LineOK
  <1>10. CallsOK'
      <2>1. \A n \in Own : send[n] = "idle" => n \notin Ids(list) /\ ~OnFile(file', n) /\ n \notin Range(ledger)
          BY <1>2, <1>5, <1>6, Parts DEF CallsOK
      <2> QED
          BY <1>1, <2>1, Parts DEF CallsOK, UnderWay
  <1>11. DeliveredOK'
      <2>1. \A m \in Msg : file'.of[m].state = "delivered" => m \in Range(ledger)
          BY <1>4, <1>5, Parts DEF DeliveredOK
      <2> QED
          BY <1>1, <2>1, Parts DEF DeliveredOK
  <1>12. KeptOK'
      BY <1>1, <1>5, <1>6, Parts DEF KeptOK
  <1>13. \A m \in Msg : Promised' /\ Written1(m) => OnFile(file', m)
      BY <1>4, <1>5
  <1>14. OthersOK'
      BY <1>1, <1>4, <1>5, <1>6, <1>13, Parts DEF OthersOK
  <1>15. CursorOK'
      <2>1. \A i \in 1 .. cursor : ledger[i] \in Msg
          BY Parts DEF CursorOK, LedgerOK, DaemonOK
      <2>2. \A i \in 1 .. saved : ledger[i] \in Msg
          BY Parts DEF CursorOK, LedgerOK, DaemonOK
      <2>3. Promised' => \A i \in 1 .. cursor : ledger[i] \in Others => OnFile(file', ledger[i])
          BY <1>5, <1>13, <2>1, Parts DEF CursorOK
      <2>4. Promised' => \A i \in 1 .. saved : ledger[i] \in Others => OnFile(file', ledger[i])
          BY <1>5, <2>2, Parts DEF CursorOK
      <2>5. saved <= Len(ledger) /\ cursor <= Len(ledger) /\ (alive => saved <= cursor)
          BY Parts DEF CursorOK
      <2> QED
          BY <1>1, <2>3, <2>4, <2>5 DEF CursorOK, Written1
  <1>16. ReplayOK' /\ BadgeOK'
      BY <1>1, Parts, Undisturbed
  <1>17. NumberedOK'
      <2>1. \A m \in Msg : file'.of[m].seq # 0 => Numbers(m, file'.of[m].seq)
          BY <1>4, <1>5, Parts DEF NumberedOK
      <2> QED
          BY <1>1, <2>1, Parts DEF NumberedOK, Numbers
  <1>18. JournalOK'
      <2> SUFFICES ASSUME Promised'
                   PROVE  /\ \A m \in Msg : OnFile(file', m) => m \in Ids(list)
                          /\ \A m \in Ids(list) : OnFile(file', m) \/ (m \in Own /\ send[m] \in {"filed", "refused"})
                          /\ \A c \in Range(list) : file'.of[c.id].seq = c.seq
          BY <1>1, <1>4 DEF JournalOK
      <2>1. /\ \A m \in Msg : OnFile(file, m) => m \in Ids(list)
            /\ \A m \in Ids(list) : Written1(m) \/ (m \in Own /\ send[m] \in {"filed", "refused"})
            /\ \A c \in Range(list) : file.of[c.id].seq = c.seq \/ Owed(c)
          BY <1>1, <1>5, Parts DEF JournalOK
      <2>2. \A m \in Msg : OnFile(file', m) => m \in Ids(list)
          BY <1>2, <1>5, <2>1
      <2>3. \A m \in Ids(list) : OnFile(file', m) \/ (m \in Own /\ send[m] \in {"filed", "refused"})
          BY <1>6, <1>13, <2>1
      <2>4. ASSUME NEW c \in Range(list)
            PROVE  file'.of[c.id].seq = c.seq
          <3>1. CASE l.id # c.id \/ l.k \notin {"m", "q"}
              <4>1. file'.of[c.id].seq = file.of[c.id].seq /\ ~Owed(c)
                  BY <1>4, <1>5, <1>6, <3>1
              <4> QED
                  BY <2>1, <4>1
          <3>2. CASE l.id = c.id /\ l.k = "q"
              BY <1>4, <1>5, <3>2
          <3>3. CASE l.id = c.id /\ l.k = "m"
              <4>1. c.seq = l.seq /\ Numbers(c.id, l.seq)
                  BY <1>4, <3>3
              <4>2. file.of[c.id].seq # 0 => Numbers(c.id, file.of[c.id].seq)
                  BY <1>6, Parts DEF NumberedOK
              <4>3. file.of[c.id].seq # 0 => file.of[c.id].seq = l.seq
                  BY <4>1, <4>2, Parts DEF Numbers, NumberIn, LedgerOK
              <4> QED
                  BY <1>5, <3>3, <4>1, <4>3
          <3> QED
              BY <3>1, <3>2, <3>3
      <2> QED
          BY <2>2, <2>3, <2>4
  <1>19. Ordered(list)'
      BY <1>1, Parts DEF Ordered, Before
  <1> QED
      BY <1>5, <1>7, <1>8, <1>9, <1>10, <1>11, <1>12, <1>14, <1>15, <1>16, <1>17, <1>18, <1>19, Zenon
         DEF IInv, Typed

(* A call goes on, and perhaps the server hears of its message.            *)
LEMMA CallGoesOn ==
  ASSUME IInv, NEW m \in Own, alive, m \in Ids(list), NEW place \in {"wired", "done", "refused"},
         send[m] \in {"filed", "kept"}, place \in {"wired", "done"} => send[m] = "kept",
         place = "refused" => send[m] = "filed",
         send' = [send EXCEPT ![m] = place],
         UNCHANGED <<alive, list, unread, file, marking, net, line, flush, cursor, saved, faults>>,
         Sequence(m) \/ UNCHANGED <<ledger, toDaemon>>
  PROVE  IInv'
  <1>1. send \in [Own -> Places] /\ send' \in [Own -> Places] /\ send'[m] = place
        /\ \A n \in Own : n # m => send'[n] = send[n]
      BY Parts DEF DaemonOK, Places
  <1>2. m \in Msg
      BY DEF Msg
  <1>3. /\ Stays /\ LedgerOK' /\ FramesOK' /\ ReplayOK'
        /\ Range(ledger') \subseteq Range(ledger) \cup {m}
      <2>1. CASE Sequence(m)
          <3>1. /\ Grown(m) /\ FramesOK'
                /\ \A k \in DOMAIN toDaemon : k \in DOMAIN toDaemon' /\ toDaemon'[k] = toDaemon[k]
              BY <1>2, <2>1, Parts, SequenceIs
          <3>2. Stays /\ LedgerOK' /\ Range(ledger') = Range(ledger) \cup {m}
              BY <3>1 DEF Grown
          <3>3. ReplayOK'
              BY <3>1, <3>2, Parts, ReplayGoesOn
          <3> QED
              BY <3>1, <3>2, <3>3
      <2>2. CASE UNCHANGED <<ledger, toDaemon>>
          BY <2>2, Parts, NothingChanged, UndisturbedTypes, Undisturbed
      <2> QED
          BY <2>1, <2>2
  <1>4. DaemonOK'
      BY <1>1, Parts DEF DaemonOK
  <1>5. DeadOK' /\ ListOK' /\ FileOK' /\ LineOK' /\ FlushOK'
      BY Parts, UndisturbedTypes
  <1>6. DeliveredOK' /\ OthersOK' /\ CursorOK' /\ NumberedOK' /\ BadgeOK'
      BY <1>3, Parts, Undisturbed
  <1>7. CallsOK'
      <2>1. UnderWay' \subseteq UnderWay
          BY <1>1 DEF UnderWay
      <2>2. UnderWay' \subseteq Ids(list')
          BY <2>1, Parts DEF CallsOK
      <2>3. ASSUME NEW n \in Own, send'[n] = "idle"
            PROVE  n \notin Ids(list') /\ ~OnFile(file', n) /\ n \notin Range(ledger')
          <3>1. n # m /\ send[n] = "idle"
              BY <1>1, <2>3
          <3> QED
              BY <1>3, <3>1, Parts DEF CallsOK
      <2> QED
          BY <2>2, <2>3 DEF CallsOK
  <1>8. KeptOK'
      <2> SUFFICES ASSUME Promised, NEW n \in Own
                   PROVE  /\ send'[n] \in {"kept", "wired", "marked", "done"} => OnFile(file, n)
                          /\ send'[n] = "done" => n \in Ids(list)
          BY DEF KeptOK, Promised
      <2>1. /\ send[n] \in {"kept", "wired", "marked", "done"} => OnFile(file, n)
            /\ send[n] = "done" => n \in Ids(list)
          BY Parts DEF KeptOK
      <2> QED
          BY <1>1, <2>1
  <1>9. JournalOK'
      <2> SUFFICES ASSUME Promised
                   PROVE  /\ \A n \in Msg : OnFile(file, n) => n \in Ids(list)
                          /\ \A n \in Ids(list) : Written1(n) \/ (n \in Own /\ send'[n] \in {"filed", "refused"})
                          /\ \A c \in Range(list) : file.of[c.id].seq = c.seq \/ Owed(c)
          BY DEF JournalOK, Promised, Written1, Owed
      <2>1. /\ \A n \in Msg : OnFile(file, n) => n \in Ids(list)
            /\ \A n \in Ids(list) : Written1(n) \/ (n \in Own /\ send[n] \in {"filed", "refused"})
            /\ \A c \in Range(list) : file.of[c.id].seq = c.seq \/ Owed(c)
          BY Parts DEF JournalOK
      <2>2. place # "refused" => Written1(m)
          BY Parts DEF KeptOK, Written1
      <2> QED
          BY <1>1, <2>1, <2>2
  <1>10. Ordered(list)'
      BY Parts DEF Ordered, Before
  <1> QED
      BY <1>3, <1>4, <1>5, <1>6, <1>7, <1>8, <1>9, <1>10, Zenon DEF IInv, Typed

LEMMA RefuseKeeps ==
  ASSUME IInv, NEW m \in Own, Refuse(m)
  PROVE  IInv'
  <1>1. /\ send[m] = "filed" /\ send' = [send EXCEPT ![m] = "refused"]
        /\ UNCHANGED <<alive, list, unread, file, marking, net, line, flush, cursor, saved, ledger, toDaemon, faults>>
      BY Zenon DEF Refuse, At, store, link
  <1>2. alive /\ m \in Ids(list)
      BY <1>1, Parts, AtWork
  <1> QED
      BY <1>1, <1>2, CallGoesOn

LEMMA SendMessageKeeps ==
  ASSUME IInv, NEW m \in Own, SendMessage(m)
  PROVE  IInv'
  <1>1. /\ send[m] = "kept"
        /\ send' = [send EXCEPT ![m] = "wired"] \/ send' = [send EXCEPT ![m] = "done"]
        /\ Sequence(m) \/ UNCHANGED <<ledger, toDaemon>>
        /\ UNCHANGED <<alive, list, unread, file, marking, net, line, flush, cursor, saved, faults>>
      BY Zenon DEF SendMessage, At, store, link
  <1>2. alive /\ m \in Ids(list)
      BY <1>1, Parts, AtWork
  <1>3. CASE send' = [send EXCEPT ![m] = "wired"]
      BY <1>1, <1>2, <1>3, CallGoesOn
  <1>4. CASE send' = [send EXCEPT ![m] = "done"]
      BY <1>1, <1>2, <1>4, CallGoesOn
  <1> QED
      BY <1>1, <1>3, <1>4

(* A copy is marked as on the wire: what is shown of it is not what the    *)
(* journal and the server go by.                                           *)
LEMMA Restated ==
  ASSUME IInv, alive, NEW old \in Range(list), NEW new \in CopyType,
         Replaced(list, list', old, new), new.seq = old.seq, new.state = "sending",
         Stays, Range(ledger') \subseteq Range(ledger) \cup Ids(list),
         UNCHANGED <<alive, unread, file>>,
         \/ UNCHANGED line
         \/ line = <<>> /\ line' # <<>> /\ line'[1].k = "s" /\ line'[1].state = "sending",
         \A n \in Own : send'[n] = send[n] \/ (send[n] = "wired" /\ send'[n] = "marked")
  PROVE  /\ ListOK' /\ Ordered(list)' /\ Ids(list') = Ids(list) /\ CallsOK' /\ DeliveredOK'
         /\ KeptOK' /\ OthersOK' /\ NumberedOK' /\ JournalOK' /\ BadgeOK'
  <1>1. /\ list' \in Seq(CopyType) /\ Ordered(list') /\ Ids(list') = Ids(list)
        /\ Range(list') = (Range(list) \ {old}) \cup {new} /\ new.id = old.id
      BY DEF Replaced
  <1>2. UnreadIds(list') = UnreadIds(list)
      BY ReplacedUnread
  <1>3. ListOK' /\ Ordered(list)' /\ BadgeOK'
      BY <1>1, <1>2, Parts DEF ListOK, BadgeOK
  <1>4. \A m : Written1(m) <=> Written1(m)'
      BY DEF Written1
  <1>5. \A c : Owed(c) <=> Owed(c)'
      BY DEF Owed
  <1>6. CallsOK'
      <2>1. UnderWay' \subseteq UnderWay
          BY DEF UnderWay
      <2>2. UnderWay' \subseteq Ids(list')
          BY <1>1, <2>1, Parts DEF CallsOK
      <2>3. ASSUME NEW n \in Own, send'[n] = "idle"
            PROVE  n \notin Ids(list') /\ ~OnFile(file', n) /\ n \notin Range(ledger')
          <3>1. send[n] = "idle"
              BY <2>3
          <3> QED
              BY <1>1, <3>1, Parts DEF CallsOK
      <2> QED
          BY <2>2, <2>3 DEF CallsOK
  <1>7. DeliveredOK'
      BY <1>1, Parts DEF DeliveredOK, Stays
  <1>8. KeptOK'
      <2> SUFFICES ASSUME Promised, NEW n \in Own
                   PROVE  /\ send'[n] \in {"kept", "wired", "marked", "done"} => OnFile(file, n)
                          /\ send'[n] = "done" => n \in Ids(list')
          BY DEF KeptOK, Promised
      <2>1. /\ send[n] \in {"kept", "wired", "marked", "done"} => OnFile(file, n)
            /\ send[n] = "done" => n \in Ids(list)
          BY Parts DEF KeptOK
      <2> QED
          BY <1>1, <2>1
  <1>9. OthersOK'
      <2>1. Promised' => \A m \in Others \cap Ids(list) : Written1(m)
          BY Parts DEF OthersOK, Promised
      <2> QED
          BY <1>1, <1>4, <2>1 DEF OthersOK
  <1>10. NumberedOK'
      <2>1. \A c \in Range(list') : \E d \in Range(list) : c.id = d.id /\ c.seq = d.seq
          BY <1>1
      <2>2. \A c \in Range(list') : c.seq # 0 => Numbers(c.id, c.seq)
          BY <2>1, Parts DEF NumberedOK
      <2>3. line' # <<>> /\ line'[1].k \in {"m", "q"} => UNCHANGED line
          OBVIOUS
      <2>4. line' # <<>> /\ line'[1].k \in {"m", "q"} =>
                /\ Numbers(line'[1].id, line'[1].seq)
                /\ \A c \in Range(list') : c.id = line'[1].id => c.seq = line'[1].seq
          BY <2>1, <2>3, Parts DEF NumberedOK
      <2>5. \A m \in Msg : file'.of[m].seq # 0 => Numbers(m, file'.of[m].seq)
          BY Parts DEF NumberedOK
      <2> QED
          BY <2>2, <2>4, <2>5 DEF NumberedOK, Numbers, Stays
  <1>11. JournalOK'
      <2> SUFFICES ASSUME Promised
                   PROVE  /\ \A n \in Msg : OnFile(file, n) => n \in Ids(list')
                          /\ \A n \in Ids(list') : Written1(n) \/ (n \in Own /\ send'[n] \in {"filed", "refused"})
                          /\ \A c \in Range(list') : file.of[c.id].seq = c.seq \/ Owed(c)
          BY <1>4, <1>5 DEF JournalOK, Promised
      <2>1. /\ \A n \in Msg : OnFile(file, n) => n \in Ids(list)
            /\ \A n \in Ids(list) : Written1(n) \/ (n \in Own /\ send[n] \in {"filed", "refused"})
            /\ \A c \in Range(list) : file.of[c.id].seq = c.seq \/ Owed(c)
          BY Parts DEF JournalOK
      <2>2. file.of[new.id].seq = new.seq \/ Owed(new)
          BY <1>1, <2>1 DEF Owed
      <2> QED
          BY <1>1, <2>1, <2>2
  <1> QED
      BY <1>1, <1>3, <1>6, <1>7, <1>8, <1>9, <1>10, <1>11

LEMMA MarkKeeps ==
  ASSUME IInv, NEW m \in Own, Mark(m)
  PROVE  IInv'
  <1>1. /\ send[m] = "wired" /\ send' = [send EXCEPT ![m] = "marked"]
        /\ list' = SetState(list, m, "sending")
        /\ UNCHANGED <<alive, unread, file, marking, net, line, flush, cursor, saved, ledger, toDaemon, faults>>
      BY Zenon DEF Mark, At, link
  <1>2. alive /\ m \in Ids(list)
      BY <1>1, Parts, AtWork
  <1>3. "sending" \in State
      BY DEF State
  <1>4. PICK old \in Range(list), new \in CopyType :
            /\ Replaced(list, list', old, new)
            /\ new.id = m /\ new.seq = old.seq /\ new.state = "sending"
      BY <1>1, <1>2, <1>3, Parts, SetStateReplaces
  <1>5. send \in [Own -> Places] /\ send' \in [Own -> Places] /\ send'[m] = "marked"
        /\ \A n \in Own : n # m => send'[n] = send[n]
      BY <1>1, Parts DEF DaemonOK, Places
  <1>6. Stays /\ LedgerOK'
      BY <1>1, Parts, NothingChanged
  <1>7. /\ ListOK' /\ Ordered(list)' /\ Ids(list') = Ids(list) /\ CallsOK' /\ DeliveredOK'
        /\ KeptOK' /\ OthersOK' /\ NumberedOK' /\ JournalOK' /\ BadgeOK'
      BY <1>1, <1>2, <1>4, <1>5, <1>6, Restated
  <1>8. DaemonOK'
      BY <1>1, <1>5, Parts DEF DaemonOK
  <1>9. DeadOK' /\ FileOK' /\ LineOK' /\ FlushOK' /\ FramesOK'
      BY <1>1, <1>2, <1>7, Parts, UndisturbedTypes
  <1>10. CursorOK' /\ ReplayOK'
      BY <1>1, <1>6, Parts, Undisturbed
  <1> QED
      BY <1>6, <1>7, <1>8, <1>9, <1>10, Zenon DEF IInv, Typed

LEMMA FlushNextKeeps ==
  ASSUME IInv, FlushNext
  PROVE  IInv'
  <1>1. /\ alive /\ line = <<>> /\ flush # <<>>
        /\ UNCHANGED <<alive, unread, file, send, marking, net, cursor, saved, faults>>
      BY Zenon DEF FlushNext
  <1>2. DaemonOK' /\ FileOK' /\ DeadOK'
      BY <1>1, Parts, UndisturbedTypes
  <1>3. CASE /\ list' = SetState(list, Head(flush), "sending")
             /\ line' = <<Line("s", Head(flush), 0, "sending")>>
             /\ Sequence(Head(flush)) \/ UNCHANGED <<ledger, toDaemon>>
             /\ flush' = Tail(flush)
      <2>1. PICK m \in Own : m = Head(flush) /\ m \in Ids(list)
          BY <1>1, Parts DEF FlushOK
      <2>2. /\ list' = SetState(list, m, "sending") /\ line' = <<Line("s", m, 0, "sending")>>
            /\ Sequence(m) \/ UNCHANGED <<ledger, toDaemon>>
          BY <1>3, <2>1
      <2>3. m \in Msg
          BY DEF Msg
      <2>4. /\ Stays /\ LedgerOK' /\ FramesOK' /\ ReplayOK'
            /\ Range(ledger') \subseteq Range(ledger) \cup {m}
          <3>1. CASE Sequence(m)
              <4>1. /\ Grown(m) /\ FramesOK'
                    /\ \A k \in DOMAIN toDaemon : k \in DOMAIN toDaemon' /\ toDaemon'[k] = toDaemon[k]
                  BY <2>3, <3>1, Parts, SequenceIs
              <4>2. Stays /\ LedgerOK' /\ Range(ledger') = Range(ledger) \cup {m}
                  BY <4>1 DEF Grown
              <4>3. ReplayOK'
                  BY <1>1, <4>1, <4>2, Parts, ReplayGoesOn
              <4> QED
                  BY <4>1, <4>2, <4>3
          <3>2. CASE UNCHANGED <<ledger, toDaemon>>
              BY <1>1, <3>2, Parts, NothingChanged, UndisturbedTypes, Undisturbed
          <3> QED
              BY <2>2, <3>1, <3>2
      <2>5. "sending" \in State
          BY DEF State
      <2>6. PICK old \in Range(list), new \in CopyType :
                /\ Replaced(list, list', old, new)
                /\ new.id = m /\ new.seq = old.seq /\ new.state = "sending"
          BY <2>1, <2>2, <2>5, Parts, SetStateReplaces
      <2>7. /\ line' \in Seq(LineType) /\ Len(line') = 1 /\ line' # <<>> /\ line'[1].k = "s"
            /\ line'[1].id = m /\ line'[1].state = "sending"
          <3> DEFINE l == Line("s", m, 0, "sending")
          <3>1. l \in LineType
              BY LinesTyped
          <3>2. l.k = "s" /\ l.id = m /\ l.state = "sending"
              BY DEF Line
          <3>3. line' = <<l>>
              BY <2>2
          <3> HIDE DEF l
          <3> QED
              BY <3>1, <3>2, <3>3
      <2>8. /\ ListOK' /\ Ordered(list)' /\ Ids(list') = Ids(list) /\ CallsOK' /\ DeliveredOK'
            /\ KeptOK' /\ OthersOK' /\ NumberedOK' /\ JournalOK' /\ BadgeOK'
          BY <1>1, <2>1, <2>4, <2>6, <2>7, Restated
      <2>9. LineOK'
          BY <2>1, <2>7, <2>8 DEF LineOK
      <2>10. FlushOK'
          <3>1. /\ flush' \in Seq(Own) /\ \A i \in DOMAIN flush' : i + 1 \in DOMAIN flush /\ flush'[i] = flush[i + 1]
              BY <1>1, <1>3, Parts DEF FlushOK
          <3> QED
              BY <2>8, <3>1, Parts DEF FlushOK
      <2>11. CursorOK'
          <3>1. \A m1 : Written1(m1) <=> Written1(m1)'
              BY <1>1, <2>7 DEF Written1
          <3>2. /\ Len(ledger) \in Nat /\ Len(ledger') \in Nat /\ Len(ledger) <= Len(ledger')
                /\ DOMAIN ledger = 1 .. Len(ledger) /\ saved \in Nat /\ cursor \in Nat
                /\ saved <= Len(ledger) /\ cursor <= Len(ledger)
              BY <2>4, Parts DEF LedgerOK, DaemonOK, Stays, CursorOK
          <3>3. \A i \in 1 .. cursor : i \in DOMAIN ledger /\ ledger'[i] = ledger[i]
              BY <2>4, <3>2 DEF Stays
          <3>4. \A i \in 1 .. saved : i \in DOMAIN ledger /\ ledger'[i] = ledger[i]
              BY <2>4, <3>2 DEF Stays
          <3>5. \A i \in 1 .. cursor : Written1(ledger[i]) <=> OnFile(file, ledger[i])
              BY <1>1 DEF Written1
          <3> QED
              BY <1>1, <3>2, <3>3, <3>4, <3>5, Parts DEF CursorOK, Promised, Written1
      <2> QED
          BY <1>2, <2>4, <2>8, <2>9, <2>10, <2>11, Zenon DEF IInv, Typed
  <1>4. CASE flush' = <<>> /\ UNCHANGED <<list, line, ledger, toDaemon>>
      <2>1. FlushOK'
          BY <1>4 DEF FlushOK
      <2>2. Stays /\ LedgerOK' /\ Ids(list') = Ids(list)
          BY <1>4, Parts, NothingChanged
      <2>3. ListOK' /\ LineOK' /\ FramesOK' /\ CallsOK'
          BY <1>1, <1>4, <2>2, Parts, UndisturbedTypes
      <2>4. /\ DeliveredOK' /\ KeptOK' /\ OthersOK' /\ CursorOK' /\ ReplayOK' /\ NumberedOK' /\ JournalOK'
            /\ BadgeOK'
          BY <1>1, <1>4, <2>2, Parts, Undisturbed
      <2>5. Ordered(list)'
          BY <1>4, Parts DEF Ordered, Before
      <2> QED
          BY <1>2, <2>1, <2>2, <2>3, <2>4, <2>5, Zenon DEF IInv, Typed
  <1> QED
      BY <1>3, <1>4, Zenon DEF FlushNext

(* What every frame does that the link's goroutine takes.                  *)
Took(t) ==
    /\ Reading(t)
    /\ UNCHANGED <<alive, file, send, marking, net, ledger, faults>>

LEMMA TakenIs ==
  ASSUME IInv, NEW t, Took(t)
  PROVE  /\ alive /\ line = <<>> /\ flush = <<>>
         /\ Head(toDaemon) \in FrameType
         /\ Head(toDaemon).id \in Msg /\ Head(toDaemon).seq \in Nat
         /\ t # "synced" => Numbers(Head(toDaemon).id, Head(toDaemon).seq)
         /\ FramesOK' /\ ReplayOK' /\ LedgerOK' /\ FileOK' /\ DeadOK' /\ Stays
         /\ saved' \in {saved, cursor'} => DaemonOK' /\ saved' <= cursor' /\ cursor' <= Len(ledger')
         /\ \A i \in 1 .. cursor' : ledger[i] \in Others =>
               i \in 1 .. cursor \/ (t = "msg" /\ Head(toDaemon).id = ledger[i])
         /\ \A m : Written1(m) <=> OnFile(file, m)
         /\ \A c : ~Owed(c)
  <1>1. /\ alive /\ line = <<>> /\ flush = <<>> /\ Reading(t)
        /\ UNCHANGED <<alive, file, send, marking, net, ledger, faults>>
      BY Zenon DEF Took, Reading, Idle
  <1>2. /\ FramesOK' /\ ReplayOK'
        /\ Head(toDaemon) \in FrameType
        /\ t # "synced" => Numbers(Head(toDaemon).id, Head(toDaemon).seq)
        /\ cursor' \in Nat /\ cursor <= cursor' /\ cursor' <= Len(ledger)
        /\ \A i \in 1 .. cursor' : ledger[i] \in Others =>
              i \in 1 .. cursor \/ (t = "msg" /\ Head(toDaemon).id = ledger[i])
      BY <1>1, Parts, FrameTaken
  <1>3. Head(toDaemon).id \in Msg /\ Head(toDaemon).seq \in Nat
      BY <1>2 DEF FrameType
  <1>4. LedgerOK' /\ FileOK' /\ DeadOK' /\ Stays
      BY <1>1, Parts, UndisturbedTypes, NothingChanged
  <1>5. cursor \in Nat /\ saved \in Nat /\ saved <= cursor
      BY <1>1, Parts DEF DaemonOK, CursorOK
  <1>6. saved' \in {saved, cursor'} => saved' \in Nat /\ saved' <= cursor' /\ cursor' <= Len(ledger')
      BY <1>1, <1>2, <1>5
  <1>7. saved' \in Nat => DaemonOK'
      BY <1>1, <1>2, Parts DEF DaemonOK
  <1>8. \A m : Written1(m) <=> OnFile(file, m)
      BY <1>1 DEF Written1
  <1>9. \A c : ~Owed(c)
      BY <1>1 DEF Owed
  <1> QED
      BY <1>1, <1>2, <1>3, <1>4, <1>6, <1>7, <1>8, <1>9

(* The number of one of our own messages, or of one the server answers to. *)
LEMMA ConfirmKeeps ==
  ASSUME IInv, NEW t \in {"seq", "msg"}, Took(t), NEW m, NEW seq, m = Head(toDaemon).id,
         seq = Head(toDaemon).seq, t = "msg" => m \in Own, Confirm(m, seq),
         UNCHANGED <<flush, saved>>
  PROVE  IInv'
  <1>1. /\ alive /\ line = <<>> /\ m \in Msg /\ seq \in Nat /\ Numbers(m, seq)
        /\ FramesOK' /\ ReplayOK' /\ LedgerOK' /\ FileOK' /\ DeadOK' /\ Stays
        /\ DaemonOK' /\ saved' <= cursor' /\ cursor' <= Len(ledger')
        /\ \A i \in 1 .. cursor' : ledger[i] \in Others => i \in 1 .. cursor \/ (t = "msg" /\ m = ledger[i])
        /\ \A n : Written1(n) <=> OnFile(file, n)
        /\ \A c : ~Owed(c)
      BY TakenIs
  <1>2. UNCHANGED <<alive, file, send, marking, net, ledger, faults, unread, flush, saved>>
      BY DEF Took, Confirm
  <1>3. m \in Ids(list) /\ list' = Confirmed(list, m, seq)
      BY DEF Confirm
  <1>4. PICK old \in Range(list), new \in CopyType :
            /\ Replaced(list, list', old, new)
            /\ new.id = m /\ new.seq = seq /\ new.state = "delivered"
      BY <1>1, <1>3, Parts, ConfirmedReplaces
  <1>5. /\ list' \in Seq(CopyType) /\ Ordered(list') /\ Ids(list') = Ids(list)
        /\ Range(list') = (Range(list) \ {old}) \cup {new} /\ old.id = m
      BY <1>4 DEF Replaced
  <1>6. new \in Range(list') /\ \A c \in Range(list') : c.id = m => c = new
      BY <1>4, <1>5, OneCopy
  <1>7. /\ line' \in Seq(LineType) /\ Len(line') <= 1 /\ line' # <<>>
        /\ line'[1].k = "q" /\ line'[1].id = m /\ line'[1].seq = seq
      <2> DEFINE l == Line("q", m, seq, "delivered")
      <2>1. l \in LineType /\ l.k = "q" /\ l.id = m /\ l.seq = seq
          BY <1>1 DEF Line, LineType, State
      <2>2. line' = <<l>>
          BY DEF Confirm
      <2> HIDE DEF l
      <2> QED
          BY <2>1, <2>2
  <1>8. m \in Range(ledger)
      BY <1>1 DEF Numbers, NumberIn, Range
  <1>9. ListOK' /\ Ordered(list)'
      BY <1>5 DEF ListOK
  <1>10. LineOK'
      BY <1>3, <1>5, <1>7 DEF LineOK
  <1>11. FlushOK' /\ CallsOK'
      BY <1>2, <1>5, Parts DEF FlushOK, CallsOK, UnderWay
  <1>12. DeliveredOK'
      BY <1>2, <1>4, <1>5, <1>7, <1>8, Parts DEF DeliveredOK
  <1>13. KeptOK'
      BY <1>2, <1>5, Parts DEF KeptOK, Promised
  <1>14. OthersOK'
      BY <1>1, <1>2, <1>5, Parts DEF OthersOK, Promised, Written1
  <1>15. CursorOK'
      <2>1. \A i \in 1 .. cursor' : ledger[i] \in Others => i \in 1 .. cursor
          BY <1>1, OutboxAssumption
      <2> QED
          BY <1>1, <1>2, <2>1, Parts DEF CursorOK, Promised, Written1
  <1>16. NumberedOK'
      <2>1. \A c \in Range(list') : c.seq # 0 => Numbers(c.id, c.seq)
          BY <1>1, <1>4, <1>5, Parts DEF NumberedOK
      <2>2. \A n \in Msg : file.of[n].seq # 0 => Numbers(n, file.of[n].seq)
          BY Parts DEF NumberedOK
      <2>3. \A c \in Range(list') : c.id = m => c.seq = seq
          BY <1>4, <1>6
      <2> QED
          BY <1>1, <1>2, <1>7, <2>1, <2>2, <2>3 DEF NumberedOK, Numbers
  <1>17. JournalOK'
      <2> SUFFICES ASSUME Promised
                   PROVE  /\ \A n \in Msg : OnFile(file, n) => n \in Ids(list')
                          /\ \A n \in Ids(list') : OnFile(file, n) \/ (n \in Own /\ send[n] \in {"filed", "refused"})
                          /\ \A c \in Range(list') : file.of[c.id].seq = c.seq \/ c = new
          BY <1>2, <1>4, <1>7 DEF JournalOK, Promised, Written1, Owed
      <2> QED
          BY <1>1, <1>5, Parts DEF JournalOK
  <1>18. BadgeOK'
      BY <1>2, <1>4, ReplacedUnread, Parts DEF BadgeOK
  <1> QED
      BY <1>1, <1>9, <1>10, <1>11, <1>12, <1>13, <1>14, <1>15, <1>16, <1>17, <1>18, Zenon DEF IInv, Typed

(* A frame that changes nothing we hold.                                   *)
LEMMA SkipKeeps ==
  ASSUME IInv, NEW t, Took(t), UNCHANGED <<list, unread, line, flush, saved>>,
         t = "msg" => Head(toDaemon).id \in Ids(list)
  PROVE  IInv'
  <1> DEFINE m == Head(toDaemon).id
  <1>1. /\ alive /\ line = <<>> /\ m \in Msg
        /\ FramesOK' /\ ReplayOK' /\ LedgerOK' /\ FileOK' /\ DeadOK' /\ Stays
        /\ DaemonOK' /\ saved' <= cursor' /\ cursor' <= Len(ledger')
        /\ \A i \in 1 .. cursor' : ledger[i] \in Others => i \in 1 .. cursor \/ (t = "msg" /\ m = ledger[i])
        /\ \A n : Written1(n) <=> OnFile(file, n)
      BY TakenIs
  <1> HIDE DEF m
  <1>2. UNCHANGED <<alive, file, send, marking, net, ledger, faults>>
      BY DEF Took
  <1>3. ListOK' /\ LineOK' /\ FlushOK' /\ CallsOK'
      BY <1>2, Parts, UndisturbedTypes
  <1>4. DeliveredOK' /\ KeptOK' /\ OthersOK' /\ NumberedOK' /\ JournalOK' /\ BadgeOK'
      BY <1>1, <1>2, Parts, Undisturbed
  <1>5. CursorOK'
      <2>1. Promised => \A i \in 1 .. cursor' : ledger[i] \in Others => OnFile(file, ledger[i])
          <3> SUFFICES ASSUME Promised, NEW i \in 1 .. cursor', ledger[i] \in Others
                       PROVE  OnFile(file, ledger[i])
              OBVIOUS
          <3>1. CASE i \in 1 .. cursor
              BY <1>1, <3>1, Parts DEF CursorOK
          <3>2. CASE t = "msg" /\ m = ledger[i]
              BY <1>1, <3>2, Parts DEF OthersOK, m
          <3> QED
              BY <1>1, <3>1, <3>2
      <2> QED
          BY <1>1, <1>2, <2>1, Parts DEF CursorOK, Promised, Written1
  <1>6. Ordered(list)'
      BY Parts DEF Ordered, Before
  <1> QED
      BY <1>1, <1>3, <1>4, <1>5, <1>6, Zenon DEF IInv, Typed

(* A message that arrives.                                                 *)
LEMMA ReceiveKeeps ==
  ASSUME IInv, Took("msg"), NEW c \in CopyType, c.id = Head(toDaemon).id,
         c.seq = Head(toDaemon).seq, c.read = (c.id \in Own), Receive(c), UNCHANGED <<flush, saved>>
  PROVE  IInv'
  <1>1. CASE c.id \in Ids(list)
      <2>1. UNCHANGED <<list, unread>> /\ line' = <<>>
          BY <1>1 DEF Receive
      <2>2. line = <<>>
          BY TakenIs
      <2> QED
          BY <1>1, <2>1, <2>2, SkipKeeps
  <1>2. CASE c.id \notin Ids(list)
      <2>1. /\ alive /\ line = <<>> /\ Numbers(c.id, c.seq)
            /\ FramesOK' /\ ReplayOK' /\ LedgerOK' /\ FileOK' /\ DeadOK' /\ Stays
            /\ DaemonOK' /\ saved' <= cursor' /\ cursor' <= Len(ledger')
            /\ \A i \in 1 .. cursor' : ledger[i] \in Others => i \in 1 .. cursor \/ c.id = ledger[i]
            /\ \A n : Written1(n) <=> OnFile(file, n)
            /\ \A d : ~Owed(d)
          BY TakenIs
      <2>2. UNCHANGED <<alive, file, send, marking, net, ledger, faults, flush, saved>>
          BY DEF Took
      <2>3. /\ list' = InsertOrdered(list, c) /\ line' = <<MsgLine(c)>>
            /\ unread' = IF c.id \in Own THEN unread ELSE unread + 1
          BY <1>2 DEF Receive
      <2>4. /\ c.id \in Msg /\ c.seq \in Nat /\ c.state \in State
          BY DEF CopyType
      <2>5. /\ list' \in Seq(CopyType) /\ Ordered(list')
            /\ Range(list') = Range(list) \cup {c} /\ Ids(list') = Ids(list) \cup {c.id}
          BY <1>2, <2>3, Parts, InsertKeepsOrder
      <2>6. /\ line' \in Seq(LineType) /\ Len(line') <= 1 /\ line' # <<>>
            /\ line'[1].k = "m" /\ line'[1].id = c.id /\ line'[1].seq = c.seq
          <3> DEFINE l == MsgLine(c)
          <3>1. l \in LineType /\ l.k = "m" /\ l.id = c.id /\ l.seq = c.seq
              BY <2>4 DEF MsgLine, Line, LineType
          <3>2. line' = <<l>>
              BY <2>3
          <3> HIDE DEF l
          <3> QED
              BY <3>1, <3>2
      <2>7. c.id \in Range(ledger)
          BY <2>1 DEF Numbers, NumberIn, Range
      <2>8. \A d \in Range(list) : d.id # c.id
          BY <1>2, Parts, Members
      <2>9. ListOK' /\ Ordered(list)' /\ LineOK'
          BY <2>5, <2>6 DEF ListOK, LineOK
      <2>10. FlushOK'
          BY <2>2, <2>5, Parts DEF FlushOK
      <2>11. CallsOK'
          BY <2>2, <2>5, <2>7, Parts DEF CallsOK, UnderWay
      <2>12. DeliveredOK'
          BY <2>2, <2>5, <2>6, <2>7, Parts DEF DeliveredOK
      <2>13. KeptOK'
          BY <2>2, <2>5, Parts DEF KeptOK, Promised
      <2>14. Written1(c.id)' /\ \A n : Written1(n) => Written1(n)'
          <3>1. \A n : Written1(n) => Written1(n)'
              BY <2>1, <2>2 DEF Written1
          <3>2. Written1(c.id)'
              BY <2>6 DEF Written1
          <3> QED
              BY <3>1, <3>2
      <2>15. OthersOK'
          BY <2>2, <2>5, <2>14, Parts DEF OthersOK, Promised
      <2>16. CursorOK'
          <3>1. Promised => \A i \in 1 .. cursor' : ledger[i] \in Others =>
                    OnFile(file, ledger[i]) \/ ledger[i] = c.id
              BY <2>1, Parts DEF CursorOK
          <3>2. Promised => \A i \in 1 .. saved : ledger[i] \in Others => OnFile(file, ledger[i])
              BY Parts DEF CursorOK
          <3>3. saved' <= Len(ledger')
              BY <2>1, <2>2, Parts DEF CursorOK
          <3> QED
              BY <2>1, <2>2, <2>6, <3>1, <3>2, <3>3 DEF CursorOK, Promised, Written1
      <2>17. NumberedOK'
          <3>1. \A d \in Range(list') : d.seq # 0 => Numbers(d.id, d.seq)
              BY <2>1, <2>5, Parts DEF NumberedOK
          <3>2. \A n \in Msg : file.of[n].seq # 0 => Numbers(n, file.of[n].seq)
              BY Parts DEF NumberedOK
          <3>3. \A d \in Range(list') : d.id = c.id => d.seq = c.seq
              BY <2>5, <2>8
          <3> QED
              BY <2>1, <2>2, <2>6, <3>1, <3>2, <3>3 DEF NumberedOK, Numbers
      <2>18. JournalOK'
          <3> SUFFICES ASSUME Promised
                       PROVE  /\ \A n \in Msg : OnFile(file, n) => n \in Ids(list')
                              /\ \A n \in Ids(list') : \/ OnFile(file, n) \/ n = c.id
                                                       \/ n \in Own /\ send[n] \in {"filed", "refused"}
                              /\ \A d \in Range(list') : file.of[d.id].seq = d.seq \/ d = c
              BY <2>2, <2>6 DEF JournalOK, Promised, Written1, Owed
          <3> QED
              BY <2>1, <2>5, Parts DEF JournalOK
      <2>19. BadgeOK'
          <3>1. IsFiniteSet(UnreadIds(list)) /\ unread = Cardinality(UnreadIds(list))
              BY Parts DEF BadgeOK
          <3>2. CASE c.id \in Own
              <4>1. UnreadIds(list') = UnreadIds(list) /\ unread' = unread
                  BY <2>3, <2>5, <3>2 DEF UnreadIds
              <4> QED
                  BY <3>1, <4>1 DEF BadgeOK
          <3>3. CASE c.id \notin Own
              <4>1. UnreadIds(list') = UnreadIds(list) \cup {c.id} /\ unread' = unread + 1
                  BY <2>3, <2>5, <3>3 DEF UnreadIds
              <4>2. c.id \notin UnreadIds(list)
                  BY <2>8 DEF UnreadIds
              <4> DEFINE U == UnreadIds(list)
              <4> HIDE DEF U
              <4>3. IsFiniteSet(U) /\ c.id \notin U
                  BY <3>1, <4>2 DEF U
              <4>4. IsFiniteSet(U \cup {c.id}) /\ Cardinality(U \cup {c.id}) = Cardinality(U) + 1
                  BY ONLY <4>3, FS_AddElement
              <4> QED
                  BY <3>1, <4>1, <4>4 DEF BadgeOK, U
          <3> QED
              BY <3>2, <3>3
      <2> QED
          BY <2>1, <2>9, <2>10, <2>11, <2>12, <2>13, <2>15, <2>16, <2>17, <2>18, <2>19, Zenon
             DEF IInv, Typed
  <1> QED
      BY <1>1, <1>2

LEMMA ReadSeqKeeps ==
  ASSUME IInv, ReadSeq
  PROVE  IInv'
  <1>1. Took("seq") /\ UNCHANGED <<flush, saved>>
      BY Zenon DEF ReadSeq, Took
  <1>2. PICK m, seq : m = Head(toDaemon).id /\ seq = Head(toDaemon).seq
      OBVIOUS
  <1>3. Confirm(m, seq) \/ UNCHANGED <<list, unread, line>>
      BY <1>2, Zenon DEF ReadSeq, store
  <1> QED
      BY <1>1, <1>2, <1>3, ConfirmKeeps, SkipKeeps

LEMMA ReadMessageKeeps ==
  ASSUME IInv, ReadMessage
  PROVE  IInv'
  <1>1. Took("msg") /\ UNCHANGED <<flush, saved>>
      BY Zenon DEF ReadMessage, Took
  <1>2. PICK m, seq : m = Head(toDaemon).id /\ seq = Head(toDaemon).seq
      OBVIOUS
  <1>3. \/ m \in Own /\ Confirm(m, seq)
        \/ m \in Own /\ Receive(Copy(m, seq, "delivered", TRUE))
        \/ m \in Others /\ Receive(Copy(m, seq, "none", FALSE))
      BY <1>2 DEF ReadMessage
  <1>4. m \in Msg /\ seq \in Nat
      BY <1>1, <1>2, TakenIs
  <1>5. CASE m \in Own /\ Confirm(m, seq)
      BY <1>1, <1>2, <1>5, ConfirmKeeps
  <1>6. CASE m \in Own /\ Receive(Copy(m, seq, "delivered", TRUE))
      <2> DEFINE c == Copy(m, seq, "delivered", TRUE)
      <2>1. c \in CopyType /\ c.id = m /\ c.seq = seq /\ c.read = TRUE /\ (m \in Own) = TRUE
          BY <1>4, <1>6 DEF Copy, CopyType, State
      <2>2. Receive(c)
          BY <1>6
      <2> HIDE DEF c
      <2> QED
          BY <1>1, <1>2, <2>1, <2>2, ReceiveKeeps
  <1>7. CASE m \in Others /\ Receive(Copy(m, seq, "none", FALSE))
      <2> DEFINE c == Copy(m, seq, "none", FALSE)
      <2>1. c \in CopyType /\ c.id = m /\ c.seq = seq /\ c.read = FALSE /\ (m \in Own) = FALSE
          BY <1>4, <1>7, OutboxAssumption DEF Copy, CopyType, State
      <2>2. Receive(c)
          BY <1>7
      <2> HIDE DEF c
      <2> QED
          BY <1>1, <1>2, <2>1, <2>2, ReceiveKeeps
  <1> QED
      BY <1>3, <1>5, <1>6, <1>7

LEMMA ReadSyncedKeeps ==
  ASSUME IInv, ReadSynced
  PROVE  IInv'
  <1>1. Took("synced") /\ UNCHANGED <<list, unread, line>> /\ saved' = cursor' /\ flush' = Queued(list)
      BY Zenon DEF ReadSynced, Took, store
  <1>2. /\ alive /\ line = <<>>
        /\ FramesOK' /\ ReplayOK' /\ LedgerOK' /\ FileOK' /\ DeadOK' /\ Stays
        /\ DaemonOK' /\ saved' <= cursor' /\ cursor' <= Len(ledger')
        /\ \A i \in 1 .. cursor' : ledger[i] \in Others => i \in 1 .. cursor
        /\ \A n : Written1(n) <=> OnFile(file, n)
      BY <1>1, TakenIs
  <1>3. UNCHANGED <<alive, file, send, marking, net, ledger, faults>>
      BY <1>1 DEF Took
  <1>4. ListOK' /\ LineOK' /\ CallsOK'
      BY <1>1, <1>3, Parts, UndisturbedTypes
  <1>5. FlushOK'
      BY <1>1, Parts, QueuedIsListed DEF FlushOK
  <1>6. DeliveredOK' /\ KeptOK' /\ OthersOK' /\ NumberedOK' /\ JournalOK' /\ BadgeOK'
      BY <1>1, <1>2, <1>3, Parts, Undisturbed
  <1>7. CursorOK'
      <2>1. Promised => \A i \in 1 .. cursor' : ledger[i] \in Others => OnFile(file, ledger[i])
          BY <1>2, Parts DEF CursorOK
      <2> QED
          BY <1>1, <1>2, <1>3, <2>1 DEF CursorOK, Promised, Written1
  <1>8. Ordered(list)'
      BY <1>1, Parts DEF Ordered, Before
  <1> QED
      BY <1>2, <1>4, <1>5, <1>6, <1>7, <1>8, Zenon DEF IInv, Typed

LEMMA DropKeeps ==
  ASSUME IInv, Drop
  PROVE  IInv'
  <1>1. /\ alive /\ line = <<>> /\ net' = "down" /\ saved' = cursor
        /\ UNCHANGED <<alive, list, unread, file, send, marking, line, flush, cursor, ledger, toDaemon, faults>>
      BY Zenon DEF Drop, Idle, store
  <1>2. Stays /\ Ids(list') = Ids(list)
      BY <1>1, Parts, NothingChanged
  <1>3. DaemonOK'
      BY <1>1, Parts DEF DaemonOK
  <1>4. DeadOK' /\ ListOK' /\ FileOK' /\ LineOK' /\ FlushOK' /\ LedgerOK' /\ FramesOK' /\ CallsOK'
      BY <1>1, <1>2, Parts, UndisturbedTypes
  <1>5. DeliveredOK' /\ KeptOK' /\ OthersOK' /\ NumberedOK' /\ JournalOK' /\ BadgeOK'
      BY <1>1, <1>2, Parts, Undisturbed
  <1>6. CursorOK'
      <2>1. cursor \in Nat
          BY Parts DEF DaemonOK
      <2>2. \A n : Written1(n) <=> OnFile(file, n)
          BY <1>1 DEF Written1
      <2> QED
          BY <1>1, <2>1, <2>2, Parts DEF CursorOK, Promised, Written1
  <1>7. ReplayOK'
      BY <1>1 DEF ReplayOK
  <1>8. Ordered(list)'
      BY <1>1, Parts DEF Ordered, Before
  <1> QED
      BY <1>3, <1>4, <1>5, <1>6, <1>7, <1>8, Zenon DEF IInv, Typed

LEMMA MarkReadKeeps ==
  ASSUME IInv, MarkRead
  PROVE  IInv'
  <1>1. /\ alive /\ list' = [i \in DOMAIN list |-> [list[i] EXCEPT !.read = TRUE]]
        /\ unread' = 0 /\ marking' = (unread > 0)
        /\ UNCHANGED <<alive, file, send, net, line, flush, cursor, saved, ledger, toDaemon, faults>>
      BY Zenon DEF MarkRead, link
  <1>2. /\ list' \in Seq(CopyType) /\ Ordered(list') /\ Ids(list') = Ids(list)
        /\ \A d \in Range(list') :
              d.read /\ \E c \in Range(list) : c.id = d.id /\ c.seq = d.seq /\ c.state = d.state
      BY <1>1, Parts, ReadKeepsOrder
  <1>3. Stays /\ Ids(list) \subseteq Ids(list')
      BY <1>1, <1>2, Parts, NothingChanged
  <1>4. DaemonOK'
      BY <1>1, Parts DEF DaemonOK
  <1>5. ListOK' /\ Ordered(list)'
      BY <1>2 DEF ListOK
  <1>6. DeadOK' /\ FileOK' /\ LineOK' /\ FlushOK' /\ LedgerOK' /\ FramesOK'
      BY <1>1, <1>3, Parts, UndisturbedTypes
  <1>7. CallsOK'
      BY <1>1, <1>2, Parts DEF CallsOK, UnderWay
  <1>8. DeliveredOK'
      BY <1>1, <1>2, Parts DEF DeliveredOK
  <1>9. KeptOK' /\ OthersOK'
      BY <1>1, <1>2, Parts DEF KeptOK, OthersOK, Promised, Written1
  <1>10. CursorOK' /\ ReplayOK'
      BY <1>1, <1>3, <1>6, Parts, Undisturbed
  <1>11. NumberedOK'
      <2>1. \A d \in Range(list') : d.seq # 0 => Numbers(d.id, d.seq)
          BY <1>2, Parts DEF NumberedOK
      <2>2. line # <<>> /\ line[1].k \in {"m", "q"} =>
                \A d \in Range(list') : d.id = line[1].id => d.seq = line[1].seq
          BY <1>2, Parts DEF NumberedOK
      <2> QED
          BY <1>1, <2>1, <2>2, Parts DEF NumberedOK, Numbers
  <1>12. JournalOK'
      <2> SUFFICES ASSUME Promised
                   PROVE  /\ \A n \in Msg : OnFile(file, n) => n \in Ids(list)
                          /\ \A n \in Ids(list) : Written1(n) \/ (n \in Own /\ send[n] \in {"filed", "refused"})
                          /\ \A d \in Range(list') : file.of[d.id].seq = d.seq \/ Owed(d)
          BY <1>1, <1>2 DEF JournalOK, Promised, Written1, Owed
      <2>1. /\ \A n \in Msg : OnFile(file, n) => n \in Ids(list)
            /\ \A n \in Ids(list) : Written1(n) \/ (n \in Own /\ send[n] \in {"filed", "refused"})
            /\ \A c \in Range(list) : file.of[c.id].seq = c.seq \/ Owed(c)
          BY <1>1, Parts DEF JournalOK
      <2>2. \A c, d : c.id = d.id /\ c.seq = d.seq => (Owed(c) <=> Owed(d))
          BY DEF Owed
      <2>3. ASSUME NEW d \in Range(list') PROVE file.of[d.id].seq = d.seq \/ Owed(d)
          <3>1. PICK c \in Range(list) : c.id = d.id /\ c.seq = d.seq
              BY <1>2
          <3>2. file.of[c.id].seq = c.seq \/ Owed(c)
              BY <2>1
          <3> QED
              BY <2>2, <3>1, <3>2
      <2> QED
          BY <2>1, <2>3
  <1>13. BadgeOK'
      <2>1. UnreadIds(list') = {}
          BY <1>2 DEF UnreadIds
      <2> QED
          BY <1>1, <2>1, FS_EmptySet DEF BadgeOK
  <1> QED
      BY <1>4, <1>5, <1>6, <1>7, <1>8, <1>9, <1>10, <1>11, <1>12, <1>13, Zenon DEF IInv, Typed

LEMMA SpeakKeeps ==
  ASSUME IInv, NEW o \in Others, Speak(o)
  PROVE  IInv'
  <1>1. /\ o \notin Range(ledger) /\ ledger' = Append(ledger, o)
        /\ toDaemon' = IF net = "up" THEN Append(toDaemon, Frame("msg", o, Len(ledger) + 1)) ELSE toDaemon
        /\ UNCHANGED <<alive, list, unread, file, send, marking, net, line, flush, cursor, saved, faults>>
      BY Zenon DEF Speak, store, link
  <1>2. o \in Msg /\ o \notin Own
      BY OutboxAssumption DEF Msg
  <1>3. Grown(o) /\ Len(ledger') = Len(ledger) + 1 /\ NumberIn(ledger', o, Len(ledger) + 1)
      BY <1>1, <1>2, Parts, Appends
  <1>4. LedgerOK' /\ Stays /\ Range(ledger') = Range(ledger) \cup {o}
      BY <1>3 DEF Grown
  <1>5. /\ Len(ledger) \in Nat /\ DOMAIN ledger = 1 .. Len(ledger)
        /\ DOMAIN ledger' = 1 .. Len(ledger) + 1 /\ cursor \in Nat
      BY <1>3, <1>4, Parts DEF LedgerOK, DaemonOK
  <1>6. DaemonOK' /\ ListOK' /\ FileOK' /\ LineOK' /\ FlushOK'
      BY <1>1, Parts, UndisturbedTypes
  <1>7. DeadOK'
      BY <1>1, Parts DEF DeadOK, UnderWay
  <1>8. CallsOK'
      BY <1>1, <1>2, <1>4, Parts DEF CallsOK, UnderWay
  <1>9. FramesOK' /\ ReplayOK'
      <2>1. CASE net # "up"
          <3>1. toDaemon' = toDaemon /\ net' # "up"
              BY <1>1, <2>1
          <3>2. ReplayOK'
              BY <3>1 DEF ReplayOK
          <3>3. ASSUME NEW k \in DOMAIN toDaemon
                PROVE  /\ toDaemon[k].seq <= Len(ledger')
                       /\ toDaemon[k].t # "synced" => NumberIn(ledger', toDaemon[k].id, toDaemon[k].seq)
              <4>1. toDaemon[k] \in FrameType
                  BY Parts DEF FramesOK
              <4>2. toDaemon[k].seq \in Nat
                  BY <4>1 DEF FrameType
              <4>3. /\ toDaemon[k].seq <= Len(ledger)
                    /\ toDaemon[k].t # "synced" => Numbers(toDaemon[k].id, toDaemon[k].seq)
                  BY Parts DEF FramesOK
              <4> QED
                  BY <1>3, <1>4, <1>5, <4>2, <4>3 DEF Stays
          <3> QED
              BY <3>1, <3>2, <3>3, Parts DEF FramesOK, Numbers
      <2>2. CASE net = "up"
          <3> DEFINE x == Frame("msg", o, Len(ledger) + 1)
          <3>1. toDaemon' = Append(toDaemon, x)
              BY <1>1, <2>2
          <3>2. /\ x \in FrameType /\ x.t = "msg" /\ x.id = o /\ x.seq = Len(ledger) + 1
                /\ x.seq <= Len(ledger') /\ NumberIn(ledger', x.id, x.seq)
              BY <1>2, <1>3, <1>5 DEF Frame, FrameType
          <3> HIDE DEF x
          <3>3. /\ FramesOK' /\ toDaemon'[Len(toDaemon) + 1] = x
                /\ Len(toDaemon') = Len(toDaemon) + 1 /\ Len(toDaemon) \in Nat
                /\ \A k \in DOMAIN toDaemon : k \in DOMAIN toDaemon' /\ toDaemon'[k] = toDaemon[k]
              BY <1>4, <3>1, <3>2, Parts, FrameAdded
          <3>4. DOMAIN toDaemon = 1 .. Len(toDaemon) /\ DOMAIN toDaemon' = 1 .. Len(toDaemon) + 1
              BY <3>3, Parts DEF FramesOK
          <3>5. ReplayOK'
              <4> SUFFICES ASSUME NEW j \in cursor + 1 .. Len(ledger) + 1, ledger'[j] \in Others
                           PROVE  \E k \in DOMAIN toDaemon' :
                                    /\ toDaemon'[k].t = "msg" /\ toDaemon'[k].id = ledger'[j]
                                    /\ toDaemon'[k].seq = j
                                    /\ \A i \in 1 .. k - 1 : toDaemon'[i].seq < j
                  BY <1>1, <1>3 DEF ReplayOK
              <4>1. CASE j = Len(ledger) + 1
                  <5>1. ledger'[j] = o
                      BY <1>3, <4>1 DEF NumberIn
                  <5>2. ASSUME NEW i \in 1 .. Len(toDaemon) PROVE toDaemon'[i].seq < j
                      <6>1. i \in DOMAIN toDaemon /\ toDaemon'[i] = toDaemon[i] /\ toDaemon[i] \in FrameType
                          BY <3>3, <3>4, Parts DEF FramesOK
                      <6>2. toDaemon[i].seq \in Nat /\ toDaemon[i].seq <= Len(ledger)
                          BY <6>1, Parts DEF FramesOK, FrameType
                      <6> QED
                          BY <1>5, <4>1, <6>1, <6>2
                  <5>3. /\ Len(toDaemon) + 1 \in DOMAIN toDaemon'
                        /\ \A i \in 1 .. (Len(toDaemon) + 1) - 1 : i \in 1 .. Len(toDaemon)
                      BY <3>3, <3>4
                  <5> QED
                      BY <3>2, <3>3, <4>1, <5>1, <5>2, <5>3
              <4>2. CASE j # Len(ledger) + 1
                  <5>1. j \in cursor + 1 .. Len(ledger) /\ j \in DOMAIN ledger
                      BY <1>5, <4>2
                  <5>2. ledger'[j] = ledger[j]
                      BY <1>4, <5>1 DEF Stays
                  <5>3. PICK k \in DOMAIN toDaemon :
                            /\ toDaemon[k].t = "msg" /\ toDaemon[k].id = ledger[j] /\ toDaemon[k].seq = j
                            /\ \A i \in 1 .. k - 1 : toDaemon[i].seq < j
                      BY <2>2, <5>1, <5>2, Parts DEF ReplayOK
                  <5>4. \A i \in 1 .. k - 1 : i \in DOMAIN toDaemon
                      BY <3>3, <3>4
                  <5> QED
                      BY <3>3, <5>2, <5>3, <5>4
              <4> QED
                  BY <4>1, <4>2
          <3> QED
              BY <3>3, <3>5
      <2> QED
          BY <2>1, <2>2
  <1>10. DeliveredOK' /\ KeptOK' /\ OthersOK' /\ CursorOK' /\ NumberedOK' /\ JournalOK' /\ BadgeOK'
      BY <1>1, <1>4, Parts, Undisturbed
  <1>11. Ordered(list)'
      BY <1>1, Parts DEF Ordered, Before
  <1> QED
      BY <1>4, <1>6, <1>7, <1>8, <1>9, <1>10, <1>11, Zenon DEF IInv, Typed

LEMMA ConnectKeeps ==
  ASSUME IInv, Connect
  PROVE  IInv'
  <1> DEFINE n == Len(ledger) - cursor
  <1> DEFINE u == [i \in 1 .. n |-> Frame("msg", ledger[cursor + i], cursor + i)]
  <1> DEFINE x == Frame("synced", CHOOSE m \in Msg : TRUE, Len(ledger))
  <1>1. /\ alive /\ net' = "up" /\ toDaemon' = u \o <<x>>
        /\ UNCHANGED <<alive, list, unread, file, send, marking, line, flush, cursor, saved, ledger, faults>>
      BY Zenon DEF Connect, Idle, store
  <1>2. /\ Len(ledger) \in Nat /\ DOMAIN ledger = 1 .. Len(ledger) /\ cursor \in Nat
        /\ cursor <= Len(ledger) /\ n \in Nat /\ \A i \in DOMAIN ledger : ledger[i] \in Msg
      BY Parts DEF LedgerOK, DaemonOK, CursorOK
  <1>3. \A i \in 1 .. n : /\ u[i] \in FrameType /\ u[i].t = "msg" /\ cursor + i \in DOMAIN ledger
                          /\ u[i].id = ledger[cursor + i] /\ u[i].seq = cursor + i
      BY <1>2 DEF Frame, FrameType
  <1>4. u \in Seq(FrameType) /\ Len(u) = n
      <2> HIDE DEF n
      <2>1. DOMAIN u = 1 .. n /\ u = [i \in 1 .. n |-> u[i]]
          OBVIOUS
      <2> HIDE DEF u
      <2>2. \A i \in 1 .. n : u[i] \in FrameType
          BY <1>3
      <2> QED
          BY ONLY <1>2, <2>1, <2>2, n \in Nat
  <1>5. x \in FrameType /\ x.t = "synced" /\ x.seq = Len(ledger)
      <2>1. (CHOOSE m \in Msg : TRUE) \in Msg
          BY OutboxAssumption
      <2> QED
          BY <1>2, <2>1 DEF Frame, FrameType
  <1> HIDE DEF n, u, x
  <1>6. /\ toDaemon' \in Seq(FrameType) /\ Len(toDaemon') = n + 1 /\ DOMAIN toDaemon' = 1 .. n + 1
        /\ \A i \in 1 .. n : toDaemon'[i] = u[i]
        /\ toDaemon'[n + 1] = x
      BY <1>1, <1>2, <1>4, <1>5
  <1>7. \A i \in 1 .. n + 1 : i \in 1 .. n \/ i = n + 1
      BY <1>2
  <1>8. FramesOK'
      <2> SUFFICES ASSUME NEW k \in 1 .. n + 1
                   PROVE  /\ toDaemon'[k].seq <= Len(ledger)
                          /\ toDaemon'[k].t # "synced" => NumberIn(ledger, toDaemon'[k].id, toDaemon'[k].seq)
          BY <1>1, <1>6 DEF FramesOK, Numbers
      <2>1. CASE k \in 1 .. n
          BY <1>2, <1>3, <1>6, <2>1 DEF NumberIn
      <2>2. CASE k = n + 1
          BY <1>2, <1>5, <1>6, <2>2
      <2> QED
          BY <1>7, <2>1, <2>2
  <1>9. ReplayOK'
      <2> SUFFICES ASSUME NEW j \in cursor + 1 .. Len(ledger)
                   PROVE  \E k \in 1 .. n + 1 :
                            /\ toDaemon'[k].t = "msg" /\ toDaemon'[k].id = ledger[j] /\ toDaemon'[k].seq = j
                            /\ \A i \in 1 .. k - 1 : toDaemon'[i].seq < j
          BY <1>1, <1>6 DEF ReplayOK
      <2>1. j - cursor \in 1 .. n /\ cursor + (j - cursor) = j /\ j - cursor \in 1 .. n + 1
          BY <1>2 DEF n
      <2>2. \A i \in 1 .. (j - cursor) - 1 : i \in 1 .. n /\ cursor + i < j
          BY <1>2, <2>1
      <2> QED
          BY <1>3, <1>6, <2>1, <2>2
  <1>10. Stays
      BY <1>1, Parts, NothingChanged
  <1>11. DaemonOK'
      BY <1>1, Parts DEF DaemonOK
  <1>12. DeadOK' /\ ListOK' /\ FileOK' /\ LineOK' /\ FlushOK' /\ LedgerOK' /\ CallsOK'
      BY <1>1, Parts, UndisturbedTypes
  <1>13. DeliveredOK' /\ KeptOK' /\ OthersOK' /\ CursorOK' /\ NumberedOK' /\ JournalOK' /\ BadgeOK'
      BY <1>1, <1>10, <1>12, Parts, Undisturbed
  <1>14. Ordered(list)'
      BY <1>1, Parts DEF Ordered, Before
  <1> QED
      BY <1>8, <1>9, <1>11, <1>12, <1>13, <1>14, Zenon DEF IInv, Typed

LEMMA BreakKeeps ==
  ASSUME IInv, Break
  PROVE  IInv'
  <1>1. /\ net = "up" /\ faults < MaxFaults /\ net' = "broken" /\ toDaemon' = <<>> /\ faults' = faults + 1
        /\ UNCHANGED <<alive, list, unread, file, send, marking, line, flush, cursor, saved, ledger>>
      BY Zenon DEF Break, store
  <1>2. alive
      BY <1>1, Parts, AtWork
  <1>3. Stays
      BY <1>1, Parts, NothingChanged
  <1>4. DaemonOK'
      BY <1>1, Parts, OutboxAssumption DEF DaemonOK
  <1>5. FramesOK' /\ ReplayOK'
      <2>1. <<>> \in Seq(FrameType)
          OBVIOUS
      <2> QED
          BY <1>1, <2>1 DEF FramesOK, ReplayOK
  <1>6. DeadOK' /\ ListOK' /\ FileOK' /\ LineOK' /\ FlushOK' /\ LedgerOK' /\ CallsOK'
      BY <1>1, <1>2, Parts, UndisturbedTypes
  <1>7. DeliveredOK' /\ KeptOK' /\ OthersOK' /\ CursorOK' /\ NumberedOK' /\ JournalOK' /\ BadgeOK'
      BY <1>1, <1>3, <1>6, Parts, Undisturbed
  <1>8. Ordered(list)'
      BY <1>1, Parts DEF Ordered, Before
  <1> QED
      BY <1>4, <1>5, <1>6, <1>7, <1>8, Zenon DEF IInv, Typed

LEMMA KillKeeps ==
  ASSUME IInv, Kill
  PROVE  IInv'
  <1>1. /\ alive /\ faults < MaxFaults /\ faults' = faults + 1 /\ alive' = FALSE
        /\ list' = <<>> /\ unread' = 0
        /\ file' = file \/ file' = [file EXCEPT !.torn = TRUE]
        /\ send' = [m \in Own |-> IF send[m] \in {"idle", "done", "refused"} THEN send[m] ELSE "gone"]
        /\ marking' = FALSE /\ net' = "down" /\ line' = <<>> /\ flush' = <<>> /\ cursor' = 0
        /\ toDaemon' = <<>> /\ UNCHANGED <<saved, ledger>>
      BY Zenon DEF Kill
  <1>0. /\ ~alive' /\ alive' \in BOOLEAN /\ marking' = FALSE /\ net' = "down"
        /\ list' = <<>> /\ line' = <<>> /\ flush' = <<>> /\ toDaemon' = <<>>
        /\ unread' = 0 /\ cursor' = 0 /\ saved' = saved /\ ledger' = ledger
      <2>1. /\ alive' = FALSE /\ marking' = FALSE /\ net' = "down"
            /\ list' = <<>> /\ line' = <<>> /\ flush' = <<>> /\ toDaemon' = <<>>
            /\ unread' = 0 /\ cursor' = 0
          BY <1>1, Zenon
      <2>2. saved' = saved /\ ledger' = ledger
          BY <1>1, Zenon
      <2>3. ~alive' /\ alive' \in BOOLEAN
          BY <2>1
      <2> QED
          BY <2>1, <2>2, <2>3, Zenon
  <1>2. /\ file' \in FileType /\ file'.of = file.of /\ file'.swallowed = file.swallowed
      BY <1>1, Parts DEF FileOK, FileType
  <1>3. (\A m : OnFile(file', m) <=> OnFile(file, m)) /\ (Promised' <=> Promised)
      BY <1>2 DEF OnFile, Promised
  <1>4. /\ send \in [Own -> Places] /\ send' \in [Own -> Places]
        /\ \A m \in Own : /\ send'[m] \in {"idle", "done", "refused", "gone"}
                          /\ send'[m] \in {"idle", "done", "refused"} => send[m] = send'[m]
      BY <1>1, Parts DEF DaemonOK, Places
  <1>5. /\ <<>> \in Seq(CopyType) /\ <<>> \in Seq(LineType) /\ <<>> \in Seq(Own) /\ <<>> \in Seq(FrameType)
        /\ Len(<<>>) = 0 /\ DOMAIN <<>> = {}
      OBVIOUS
  <1>6. Ids(<<>>) = {} /\ Range(<<>>) = {} /\ UnreadIds(<<>>) = {} /\ Ordered(<<>>)
      BY <1>5 DEF Ids, Range, UnreadIds, Ordered
  <1>7. DaemonOK'
      <2>1. faults \in 0 .. MaxFaults /\ saved \in Nat /\ MaxFaults \in Nat
          BY Parts, OutboxAssumption DEF DaemonOK
      <2>2. faults' \in 0 .. MaxFaults
          <3>1. faults < MaxFaults /\ faults' = faults + 1
              BY <1>1, Zenon
          <3> QED
              BY ONLY <2>1, <3>1
      <2> QED
          BY <1>0, <1>4, <2>1, <2>2 DEF DaemonOK
  <1>8. DeadOK'
      <2>1. UnderWay' = {}
          BY <1>4 DEF UnderWay
      <2> QED
          BY <1>0, <2>1 DEF DeadOK
  <1>9. ListOK' /\ LineOK' /\ FlushOK' /\ FramesOK' /\ Ordered(list)'
      BY <1>0, <1>5, <1>6 DEF ListOK, LineOK, FlushOK, FramesOK
  <1>10. FileOK'
      <2>1. {m \in Msg : OnFile(file', m)} = {m \in Msg : OnFile(file, m)}
          BY <1>3
      <2> QED
          BY <1>2, <2>1, Parts DEF FileOK
  <1>11. LedgerOK' /\ Stays
      BY <1>1, Parts, NothingChanged
  <1>12. CallsOK'
      <2>1. \A m \in Own : send'[m] = "idle" => ~OnFile(file', m) /\ m \notin Range(ledger)
          BY <1>3, <1>4, Parts DEF CallsOK
      <2> QED
          BY <1>0, <1>6, <2>1 DEF CallsOK
  <1>13. DeliveredOK'
      BY <1>0, <1>2, <1>6, Parts DEF DeliveredOK
  <1>14. KeptOK'
      BY <1>1, <1>3, <1>4, Parts DEF KeptOK
  <1>15. OthersOK' /\ JournalOK' /\ ReplayOK'
      BY <1>0, <1>6 DEF OthersOK, JournalOK, ReplayOK
  <1>16. CursorOK'
      <2>1. Promised' => \A i \in 1 .. saved : ledger[i] \in Others => OnFile(file', ledger[i])
          BY <1>3, Parts DEF CursorOK
      <2>2. saved <= Len(ledger) /\ 0 <= Len(ledger)
          BY Parts DEF CursorOK, LedgerOK
      <2> QED
          BY <1>0, <2>1, <2>2 DEF CursorOK
  <1>17. NumberedOK'
      <2>1. \A m \in Msg : file'.of[m].seq # 0 => Numbers(m, file'.of[m].seq)
          BY <1>2, Parts DEF NumberedOK
      <2> QED
          BY <1>0, <1>6, <2>1 DEF NumberedOK, Numbers
  <1>18. BadgeOK'
      BY <1>0, <1>6, FS_EmptySet DEF BadgeOK
  <1> QED
      BY <1>7, <1>8, <1>9, <1>10, <1>11, <1>12, <1>13, <1>14, <1>15, <1>16, <1>17, <1>18, Zenon
         DEF IInv, Typed

LEMMA RestartKeeps ==
  ASSUME IInv, Restart
  PROVE  IInv'
  <1>1. /\ ~alive /\ alive' = TRUE /\ list' = Loaded(file) /\ unread' = LoadedUnread(file)
        /\ cursor' = saved
        /\ UNCHANGED <<file, send, marking, net, line, flush, saved, ledger, toDaemon, faults>>
      BY Zenon DEF Restart, link
  <1>2. /\ line = <<>> /\ flush = <<>> /\ net = "down" /\ UnderWay = {}
      BY <1>1, Parts DEF DeadOK
  <1>3. file \in FileType /\ IsFiniteSet(Kept(file))
      BY Parts DEF FileOK, Kept
  <1>4. /\ list' \in Seq(CopyType) /\ Ordered(list')
        /\ Range(list') = {CopyOf(file, m) : m \in Kept(file)} /\ Ids(list') = Kept(file)
      BY <1>1, <1>3, LoadedIs
  <1>5. \A m \in Kept(file) : m \in Msg /\ OnFile(file, m)
      BY DEF Kept
  <1>6. \A c \in Range(list') : /\ c.id \in Kept(file) /\ c.seq = file.of[c.id].seq
                                /\ c.state = "delivered" => file.of[c.id].state = "delivered"
                                /\ c.read = (c.id \in Own \/ file.read)
      BY <1>4 DEF CopyOf, Copy, LoadedState
  <1>7. \A m : Written1(m)' <=> OnFile(file, m)
      BY <1>1, <1>2 DEF Written1
  <1>8. DaemonOK'
      BY <1>1, Parts DEF DaemonOK
  <1>9. DeadOK' /\ ListOK' /\ Ordered(list)'
      BY <1>1, <1>4 DEF DeadOK, ListOK
  <1>10. FileOK' /\ LedgerOK' /\ FramesOK'
      BY <1>1, Parts, UndisturbedTypes
  <1>11. LineOK' /\ FlushOK'
      BY <1>1, <1>2, Parts DEF LineOK, FlushOK
  <1>12. CallsOK'
      <2>1. UnderWay' = {}
          BY <1>1, <1>2 DEF UnderWay
      <2> QED
          BY <1>1, <1>4, <1>5, <2>1, Parts DEF CallsOK
  <1>13. DeliveredOK'
      BY <1>1, <1>2, <1>5, <1>6, Parts DEF DeliveredOK
  <1>14. KeptOK'
      <2>1. Own \subseteq Msg
          BY DEF Msg
      <2> QED
          BY <1>1, <1>4, <2>1, Parts DEF KeptOK, Kept, Promised
  <1>15. OthersOK'
      BY <1>4, <1>5, <1>7 DEF OthersOK
  <1>16. CursorOK'
      <2>1. saved \in Nat
          BY Parts DEF DaemonOK
      <2> QED
          BY <1>1, <2>1, Parts DEF CursorOK, Promised, Written1
  <1>17. ReplayOK'
      BY <1>1, <1>2 DEF ReplayOK
  <1>18. NumberedOK'
      BY <1>1, <1>2, <1>5, <1>6, Parts DEF NumberedOK, Numbers
  <1>19. JournalOK'
      <2>1. \A m \in Msg : OnFile(file, m) => m \in Ids(list')
          BY <1>4 DEF Kept
      <2> QED
          BY <1>1, <1>4, <1>5, <1>6, <1>7, <2>1 DEF JournalOK
  <1>20. BadgeOK'
      <2> DEFINE U == {m \in Others : OnFile(file, m)}
      <2>1. \A m \in Kept(file) : m \in Own \/ m \in Others
          BY <1>5 DEF Msg
      <2>2. UnreadIds(list') = {m \in Kept(file) : ~(m \in Own \/ file.read)}
          <3>1. \A m \in Kept(file) : CopyOf(file, m).id = m /\ CopyOf(file, m).read = (m \in Own \/ file.read)
              BY DEF CopyOf, Copy
          <3>2. \A c \in Range(list') : \E m \in Kept(file) : c = CopyOf(file, m)
              BY <1>4
          <3>3. \A m \in Kept(file) : CopyOf(file, m) \in Range(list')
              BY <1>4
          <3>4. ASSUME NEW n \in UnreadIds(list')
                PROVE  n \in Kept(file) /\ ~(n \in Own \/ file.read)
              <4>1. PICK c \in Range(list') : n = c.id /\ ~c.read
                  BY DEF UnreadIds
              <4> QED
                  BY <1>6, <4>1
          <3>5. ASSUME NEW n \in Kept(file), ~(n \in Own \/ file.read)
                PROVE  n \in UnreadIds(list')
              <4>1. CopyOf(file, n) \in Range(list') /\ CopyOf(file, n).id = n /\ ~CopyOf(file, n).read
                  BY <3>1, <3>3, <3>5
              <4> QED
                  BY <4>1 DEF UnreadIds
          <3> QED
              BY <3>4, <3>5
      <2>3. CASE file.read
          <3>1. UnreadIds(list') = {} /\ unread' = 0
              BY <1>1, <2>2, <2>3 DEF LoadedUnread
          <3> QED
              BY <3>1, FS_EmptySet DEF BadgeOK
      <2>4. CASE ~file.read
          <3>1. UnreadIds(list') = U
              BY <2>1, <2>2, <2>4, OutboxAssumption DEF Kept, Msg
          <3>2. U \in SUBSET Kept(file)
              BY DEF Kept, Msg
          <3>3. IsFiniteSet(U)
              BY <1>3, <3>2, FS_Subset
          <3>4. unread' = Cardinality(U)
              BY <1>1, <2>4 DEF LoadedUnread
          <3> QED
              BY <3>1, <3>3, <3>4 DEF BadgeOK
      <2> QED
          BY <2>3, <2>4
  <1> QED
      BY <1>8, <1>9, <1>10, <1>11, <1>12, <1>13, <1>14, <1>15, <1>16, <1>17, <1>18, <1>19, <1>20, Zenon
         DEF IInv, Typed

----------------------------------------------------------------------------
(* The invariant.                                                          *)

LEMMA InitIInv ==
  ASSUME Init
  PROVE  IInv
  <1>1. /\ alive = TRUE /\ list = <<>> /\ unread = 0 /\ file = Blank
        /\ send = [m \in Own |-> "idle"] /\ marking = FALSE
        /\ net = "down" /\ line = <<>> /\ flush = <<>> /\ cursor = 0 /\ saved = 0
        /\ ledger = <<>> /\ toDaemon = <<>> /\ faults = 0
      BY Zenon DEF Init
  <1>2. /\ <<>> \in Seq(CopyType) /\ <<>> \in Seq(LineType) /\ <<>> \in Seq(Own) /\ <<>> \in Seq(FrameType)
        /\ <<>> \in Seq(Msg) /\ Len(<<>>) = 0 /\ DOMAIN <<>> = {}
      OBVIOUS
  <1>3. Ids(<<>>) = {} /\ Range(<<>>) = {} /\ UnreadIds(<<>>) = {} /\ Ordered(<<>>)
      BY <1>2 DEF Ids, Range, UnreadIds, Ordered
  <1>4. /\ file \in FileType
        /\ \A m \in Msg : ~OnFile(file, m) /\ file.of[m].seq = 0 /\ file.of[m].state = "none"
      BY <1>1 DEF Blank, FileType, State, OnFile
  <1>5. Own \subseteq Msg
      BY DEF Msg
  <1>6. \A m \in Own : send[m] = "idle"
      BY <1>1
  <1>7. DaemonOK
      <2>1. send \in [Own -> Places]
          BY <1>1 DEF Places
      <2>2. 0 \in 0 .. MaxFaults
          BY OutboxAssumption
      <2>3. alive \in BOOLEAN /\ marking \in BOOLEAN /\ net \in {"down", "up", "broken"}
          BY <1>1, Zenon
      <2> QED
          BY <1>1, <2>1, <2>2, <2>3 DEF DaemonOK
  <1>8. DeadOK /\ ListOK /\ LineOK /\ FlushOK /\ FramesOK /\ LedgerOK
      BY <1>1, <1>2 DEF DeadOK, ListOK, LineOK, FlushOK, FramesOK, LedgerOK
  <1>9. FileOK
      <2>1. {m \in Msg : OnFile(file, m)} = {}
          BY <1>4
      <2> QED
          BY <1>4, <2>1, FS_EmptySet DEF FileOK
  <1>10. CallsOK
      <2>1. UnderWay = {}
          BY <1>6 DEF UnderWay
      <2> QED
          BY <1>1, <1>3, <1>4, <1>5, <2>1 DEF CallsOK
  <1>11. DeliveredOK
      BY <1>1, <1>3, <1>4 DEF DeliveredOK
  <1>12. KeptOK
      BY <1>6 DEF KeptOK
  <1>13. OthersOK /\ ReplayOK
      BY <1>1, <1>3 DEF OthersOK, ReplayOK
  <1>14. CursorOK
      BY <1>1, <1>2 DEF CursorOK
  <1>15. NumberedOK
      BY <1>1, <1>3, <1>4 DEF NumberedOK
  <1>16. JournalOK
      BY <1>1, <1>3, <1>4 DEF JournalOK
  <1>17. BadgeOK
      BY <1>1, <1>3, FS_EmptySet DEF BadgeOK
  <1> QED
      BY <1>1, <1>3, <1>7, <1>8, <1>9, <1>10, <1>11, <1>12, <1>13, <1>14, <1>15, <1>16, <1>17, Zenon
         DEF IInv, Typed

LEMMA NextIInv ==
  ASSUME IInv, [Next]_vars
  PROVE  IInv'
  <1>1. ASSUME NEW m \in Own, Compose(m) \/ Sending(m) PROVE IInv'
      BY <1>1, ComposeKeeps, KeepKeeps, RefuseKeeps, SendMessageKeeps, MarkKeeps, MarkLineKeeps DEF Sending
  <1>2. ASSUME Linking PROVE IInv'
      BY <1>2, ReadSeqKeeps, ReadMessageKeeps, ReadSyncedKeeps, WriteLineKeeps, FlushNextKeeps, DropKeeps,
         ConnectKeeps DEF Linking
  <1>3. ASSUME NEW o \in Others, Speak(o) PROVE IInv'
      BY <1>3, SpeakKeeps
  <1>4. ASSUME UNCHANGED vars PROVE IInv'
      <2>1. UNCHANGED <<alive, list, unread, file, send, marking, net, line, flush, cursor, saved, ledger,
                        toDaemon, faults>>
          BY <1>4, Zenon DEF vars, store, link
      <2>2. Stays /\ Ids(list') = Ids(list)
          BY <2>1, Parts, NothingChanged
      <2>3. DaemonOK' /\ ListOK' /\ FileOK' /\ LineOK' /\ FlushOK' /\ LedgerOK' /\ FramesOK' /\ CallsOK'
          BY <2>1, <2>2, Parts, UndisturbedTypes
      <2>4. DeadOK'
          BY <2>1, Parts DEF DeadOK, UnderWay
      <2>5. /\ DeliveredOK' /\ KeptOK' /\ OthersOK' /\ CursorOK' /\ ReplayOK' /\ NumberedOK'
            /\ JournalOK' /\ BadgeOK'
          BY <2>1, <2>2, <2>3, Parts, Undisturbed
      <2>6. Ordered(list)'
          BY <2>1, Parts DEF Ordered, Before
      <2> QED
          BY <2>3, <2>4, <2>5, <2>6, Zenon DEF IInv, Typed
  <1>5. \/ \E m \in Own : Compose(m) \/ Sending(m)
        \/ Linking \/ \E o \in Others : Speak(o)
        \/ MarkRead \/ MarkReadLine \/ Break \/ Kill \/ Restart \/ UNCHANGED vars
      BY DEF Next
  <1> QED
      BY <1>1, <1>2, <1>3, <1>4, <1>5, MarkReadKeeps, MarkReadLineKeeps, BreakKeeps, KillKeeps, RestartKeeps

THEOREM Invariance == Spec => []IInv
  <1>1. Init => IInv
      BY InitIInv
  <1>2. IInv /\ [Next]_vars => IInv'
      BY NextIInv
  <1> QED
      BY <1>1, <1>2, PTL DEF Spec

----------------------------------------------------------------------------
(* What it comes to.                                                       *)

(* The types, and what a goroutine works on is there.                      *)
THEOREM TypeCorrect == Spec => []TypeOK
  <1>1. IInv => TypeOK
      <2> SUFFICES ASSUME IInv PROVE TypeOK
          OBVIOUS
      <2>1. BadgeOK => unread \in Nat
          BY FS_CardinalityType DEF BadgeOK
      <2>2. UnderWay # {} => alive
          BY Parts DEF DeadOK
      <2> QED
          BY <2>1, <2>2, Parts
             DEF TypeOK, DaemonOK, Places, FileOK, LineOK, FlushOK, LedgerOK, FramesOK, FrameType, CallsOK
  <1> QED
      BY <1>1, Invariance, PTL

(* The list is in the order every copy displays, and has nothing twice,    *)
(* whatever was confirmed, resent or read back (Store.Append, Confirm).    *)
THEOREM OrderIsKept == Spec => []ShownInOrder
  <1>1. IInv => ShownInOrder
      BY Parts DEF Ordered, ShownInOrder
  <1> QED
      BY <1>1, Invariance, PTL

(* What Send has accepted is in the journal, and in memory (Daemon.Send),  *)
(* until a whole line has landed on a torn one.                            *)
THEOREM NothingTypedIsLost == Spec => []AcceptedIsKept
  <1>1. IInv => AcceptedIsKept
      BY Parts DEF KeptOK, AcceptedIsKept
  <1> QED
      BY <1>1, Invariance, PTL

(* What is shown as delivered, now or after a restart, has been sequenced. *)
THEOREM DeliveredWasSequenced == Spec => []DeliveredIsFiled
  <1>1. IInv => DeliveredIsFiled
      <2> SUFFICES ASSUME IInv PROVE DeliveredIsFiled
          OBVIOUS
      <2>1. \A i \in DOMAIN list : list[i] \in Range(list)
          BY Parts, Members
      <2>2. \A m \in Own : m \in Msg /\ (LoadedState(file, m) = "delivered" => file.of[m].state = "delivered")
          BY DEF Msg, LoadedState
      <2> QED
          BY <2>1, <2>2, Parts DEF DeliveredOK, DeliveredIsFiled
  <1> QED
      BY <1>1, Invariance, PTL

(* The cursor file runs ahead of the journal for nobody else's message.    *)
THEOREM ResumeBeginsBehind == Spec => []CursorIsBacked
  <1>1. IInv => CursorIsBacked
      BY Parts DEF CursorOK, CursorIsBacked
  <1> QED
      BY <1>1, Invariance, PTL

(* A list in order has a place for each of its messages.                   *)
LEMMA PlacesAreMessages ==
  ASSUME NEW l \in Seq(CopyType), Ordered(l), NEW P, P \subseteq DOMAIN l
  PROVE  IsFiniteSet(P) /\ Cardinality({l[i].id : i \in P}) = Cardinality(P)
  <1> DEFINE T == {l[i].id : i \in P}
  <1> DEFINE g == [i \in P |-> l[i].id]
  <1>1. DOMAIN l = 1 .. Len(l) /\ Len(l) \in Nat /\ 1 \in Int /\ Len(l) \in Int
      BY Members
  <1>2. IsFiniteSet(1 .. Len(l))
      BY <1>1, FS_Interval
  <1>3. IsFiniteSet(P)
      BY <1>1, <1>2, FS_Subset
  <1>4. \A i, j \in P : l[i].id = l[j].id => i = j
      <2> SUFFICES ASSUME NEW i \in P, NEW j \in P, i # j PROVE l[i].id # l[j].id
          OBVIOUS
      <2>1. i \in DOMAIN l /\ j \in DOMAIN l /\ (i < j \/ j < i)
          BY <1>1
      <2> QED
          BY <2>1 DEF Ordered
  <1>5. g \in Bijection(P, T)
      BY <1>4 DEF Bijection, Injection, IsInjective, Surjection
  <1> QED
      BY <1>3, <1>5, FS_Bijection DEF ExistsBijection

(* The badge counts the messages that are shown as unread.                 *)
THEOREM BadgeIsRight == Spec => []BadgeIsTheUnread
  <1>1. IInv => BadgeIsTheUnread
      <2> SUFFICES ASSUME IInv PROVE BadgeIsTheUnread
          OBVIOUS
      <2> DEFINE P == {i \in DOMAIN list : ~list[i].read}
      <2>1. UnreadIds(list) = {list[i].id : i \in P}
          BY DEF UnreadIds, Range
      <2>2. P \subseteq DOMAIN list
          OBVIOUS
      <2>3. Cardinality({list[i].id : i \in P}) = Cardinality(P)
          <3> HIDE DEF P
          <3> QED
              BY <2>2, Parts, PlacesAreMessages
      <2> QED
          BY <2>1, <2>3, Parts DEF BadgeOK, BadgeIsTheUnread
  <1> QED
      BY <1>1, Invariance, PTL

(* Two lists in order of the same messages with the same numbers show them *)
(* at the same places: otherwise take the first place where they do not.   *)
LEMMA OneOrder ==
  ASSUME NEW l \in Seq(CopyType), Ordered(l), NEW r \in Seq(CopyType), Ordered(r),
         \A c \in Range(l) : \E d \in Range(r) : d.id = c.id /\ d.seq = c.seq,
         \A d \in Range(r) : \E c \in Range(l) : c.id = d.id /\ c.seq = d.seq
  PROVE  \A i \in DOMAIN l : i \in DOMAIN r /\ r[i].id = l[i].id /\ r[i].seq = l[i].seq
  <1> DEFINE Same(i, j) == /\ i \in DOMAIN l /\ j \in DOMAIN r
                           /\ r[j].id = l[i].id /\ r[j].seq = l[i].seq
  <1>1. /\ DOMAIN l = 1 .. Len(l) /\ Len(l) \in Nat /\ DOMAIN r = 1 .. Len(r) /\ Len(r) \in Nat
        /\ \A i \in DOMAIN l : l[i] \in CopyType /\ l[i] \in Range(l)
        /\ \A j \in DOMAIN r : r[j] \in CopyType /\ r[j] \in Range(r)
        /\ \A c \in Range(l) : \E i \in DOMAIN l : l[i] = c
        /\ \A d \in Range(r) : \E j \in DOMAIN r : r[j] = d
      BY Members
  <1>2. \A i \in DOMAIN l : \E j \in DOMAIN r : Same(i, j)
      <2> TAKE i \in DOMAIN l
      <2>1. PICK d \in Range(r) : d.id = l[i].id /\ d.seq = l[i].seq
          BY <1>1
      <2>2. PICK j \in DOMAIN r : r[j] = d
          BY <1>1
      <2> QED
          BY <2>1, <2>2
  <1>3. \A j \in DOMAIN r : \E i \in DOMAIN l : Same(i, j)
      <2> TAKE j \in DOMAIN r
      <2>1. PICK c \in Range(l) : c.id = r[j].id /\ c.seq = r[j].seq
          BY <1>1
      <2>2. PICK i \in DOMAIN l : l[i] = c
          BY <1>1
      <2> QED
          BY <2>1, <2>2
  <1>4. ASSUME NEW i \in DOMAIN l, NEW k \in DOMAIN l, NEW j \in DOMAIN r, NEW n \in DOMAIN r,
               Same(i, j), Same(k, n), i < k
        PROVE  j < n
      <2>1. Before(l[i], l[k]) /\ l[i].id # l[k].id
          BY <1>4 DEF Ordered
      <2>2. Before(r[j], r[n]) /\ r[j].id # r[n].id
          BY <1>4, <2>1, BeforeLooksAt
      <2>3. ~Before(r[n], r[j])
          BY <1>1, <2>2, BeforeTotal
      <2>4. ~(n < j) /\ n # j
          BY <2>2, <2>3 DEF Ordered
      <2> QED
          BY <1>1, <2>4
  <1>5. ASSUME NEW i \in DOMAIN l, NEW k \in DOMAIN l, NEW j \in DOMAIN r, NEW n \in DOMAIN r,
               Same(i, j), Same(k, n), j < n
        PROVE  i < k
      <2>1. ~(k < i)
          <3>1. k < i => n < j
              BY <1>4, <1>5
          <3> QED
              BY <1>1, <1>5, <3>1
      <2>2. r[j].id # r[n].id
          BY <1>5 DEF Ordered
      <2>3. k # i
          BY <1>5, <2>2
      <2> QED
          BY <1>1, <2>1, <2>3
  <1> DEFINE S == {i \in DOMAIN l : ~Same(i, i)}
  <1>6. CASE S = {}
      BY <1>6
  <1>7. CASE S # {}
      <2> DEFINE i == Min(S)
      <2>1. S \subseteq Nat
          BY <1>1
      <2>2. i \in S /\ \A k \in S : i <= k
          BY <1>7, <2>1, LeastIsOne
      <2> HIDE DEF i
      <2>3. i \in DOMAIN l /\ i \in Nat /\ 1 <= i /\ ~Same(i, i)
          BY <1>1, <2>2
      <2>4. \A k \in DOMAIN l : k < i => Same(k, k)
          <3> TAKE k \in DOMAIN l
          <3>1. k < i => ~(i <= k)
              BY <1>1, <2>3
          <3> QED
              BY <2>2, <3>1
      <2>5. PICK j \in DOMAIN r : Same(i, j)
          BY <1>2, <2>3
      <2> HIDE DEF S
      <2>6. j # i
          BY <2>3, <2>5
      <2>7. CASE j < i
          <3>1. j \in DOMAIN l
              BY <1>1, <2>3, <2>7
          <3>2. Same(j, j)
              BY <2>4, <2>7, <3>1
          <3> HIDE DEF Same
          <3>3. j < j
              BY <1>4, <2>3, <2>5, <2>7, <3>1, <3>2
          <3> QED
              BY <1>1, <3>3
      <2>8. CASE i < j
          <3>1. i \in DOMAIN r
              BY <1>1, <2>3, <2>8
          <3>2. PICK k \in DOMAIN l : Same(k, i)
              BY <1>3, <3>1
          <3> HIDE DEF Same
          <3>3. k < i
              BY <1>5, <2>3, <2>5, <2>8, <3>1, <3>2
          <3>4. Same(k, k) /\ k \in DOMAIN r
              BY <2>4, <3>3 DEF Same
          <3>5. k < k
              BY <1>5, <3>1, <3>2, <3>3, <3>4
          <3> QED
              BY <1>1, <3>5
      <2>9. j < i \/ i < j
          <3> HIDE DEF Same
          <3> QED
              BY <1>1, <2>3, <2>6
      <2> QED
          BY <2>7, <2>8, <2>9
  <1> QED
      BY <1>6, <1>7

(* Once all lines are written, in whatever order, the journal holds the    *)
(* messages of the list, in its order, with their numbers.                 *)
THEOREM JournalFollows == Spec => []JournalIsTheList
  <1>1. IInv => JournalIsTheList
      <2> SUFFICES ASSUME IInv, Quiet
                   PROVE  /\ Len(Loaded(file)) = Len(list)
                          /\ \A i \in DOMAIN list :
                                 Loaded(file)[i].id = list[i].id /\ Loaded(file)[i].seq = list[i].seq
          BY DEF JournalIsTheList
      <2> DEFINE r == Loaded(file)
      <2>1. file \in FileType /\ IsFiniteSet(Kept(file)) /\ list \in Seq(CopyType) /\ Ordered(list)
          BY Parts DEF FileOK, Kept
      <2>2. /\ r \in Seq(CopyType) /\ Ordered(r)
            /\ Range(r) = {CopyOf(file, m) : m \in Kept(file)}
          BY <2>1, LoadedIs
      <2> HIDE DEF r
      <2>3. /\ alive /\ Promised /\ line = <<>>
            /\ \A m \in Own : send[m] \notin {"filed", "refused"}
          BY DEF Quiet, Pending
      <2>4. /\ \A m \in Msg : OnFile(file, m) => m \in Ids(list)
            /\ \A m \in Ids(list) : OnFile(file, m)
            /\ \A c \in Range(list) : file.of[c.id].seq = c.seq
          BY <2>3, Parts DEF JournalOK, Written1, Owed
      <2>5. \A m \in Kept(file) : /\ m \in Ids(list) /\ CopyOf(file, m).id = m
                                  /\ CopyOf(file, m).seq = file.of[m].seq
          BY <2>4 DEF Kept, CopyOf, Copy
      <2>6. \A c \in Range(list) : \E d \in Range(r) : d.id = c.id /\ d.seq = c.seq
          <3> TAKE c \in Range(list)
          <3>1. c.id \in Ids(list) /\ c.id \in Msg
              BY <2>1, Members
          <3>2. c.id \in Kept(file)
              BY <2>4, <3>1 DEF Kept
          <3>3. CopyOf(file, c.id) \in Range(r)
              BY <2>2, <3>2
          <3> QED
              BY <2>4, <2>5, <3>2, <3>3
      <2>7. \A d \in Range(r) : \E c \in Range(list) : c.id = d.id /\ c.seq = d.seq
          <3> TAKE d \in Range(r)
          <3>1. PICK m \in Kept(file) : d = CopyOf(file, m)
              BY <2>2
          <3>2. m \in Ids(list) /\ d.id = m /\ d.seq = file.of[m].seq
              BY <2>5, <3>1
          <3>3. PICK c \in Range(list) : c.id = m
              BY <2>1, <3>2, Members
          <3> QED
              BY <2>4, <3>2, <3>3
      <2>8. \A i \in DOMAIN list : i \in DOMAIN r /\ r[i].id = list[i].id /\ r[i].seq = list[i].seq
          BY <2>1, <2>2, <2>6, <2>7, OneOrder
      <2>9. \A i \in DOMAIN r : i \in DOMAIN list
          BY <2>1, <2>2, <2>6, <2>7, OneOrder
      <2>10. Len(r) = Len(list)
          BY <2>1, <2>2, <2>8, <2>9
      <2> QED
          BY <2>8, <2>10 DEF r
  <1> QED
      BY <1>1, Invariance, PTL
=============================================================================
