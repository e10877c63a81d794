---------------------------- MODULE WindowProofs ----------------------------
(***************************************************************************)
(* Of Window: types, and that the strip names the offer its buttons would  *)
(* answer, for any conversations, any transfers and any number of          *)
(* messages, of restarts and of things the person does.                    *)
(***************************************************************************)
EXTENDS Window, TLAPS, WellFoundedInduction

RowState == {"none", "incoming", "running", "over"}

(* What is posted: an event of a transfer names the transfer, and the row  *)
(* it had.                                                                 *)
Posted ==
    {e \in [kind : {"message", "peers", "transfer", "answered", "down", "up"},
            conv : Conv \cup {None}, tr : Transfer \cup {None}, row : RowState] :
         e.kind = "transfer" => e.tr \in Transfer}

(* Until the daemon goes away for the first time there is one.             *)
NeverAway == restarts = 0 => up

(* The types, in parts.                                                    *)
DaemonTyped ==
    /\ up \in BOOLEAN /\ held \in [Conv -> Nat] /\ unread \in [Conv -> Nat]
    /\ \A c \in Conv : unread[c] <= held[c]
    /\ row \in [Transfer -> RowState] /\ restarts \in 0 .. MaxRestarts

ShownTyped ==
    /\ current \in Conv /\ sidebar \in [Conv -> Nat] /\ screen \in [conv : Conv, n : Nat]
    /\ rows \in [Transfer -> RowState]
    /\ bar \in Transfer \cup {None} /\ asking \in Transfer \cup {None}

CallsTyped ==
    /\ marking \subseteq Conv /\ answering \subseteq [tr : Transfer, yes : BOOLEAN]
    /\ steps \in 0 .. MaxSteps

IInv == TypeOK /\ queue \in Seq(Posted) /\ NeverAway /\ BarIsPending

----------------------------------------------------------------------------
(* The least of some natural numbers is one of them.                       *)
LEMMA LeastIsOne ==
  ASSUME NEW S, S \subseteq Nat, S # {}
  PROVE  Min(S) \in S
  <1>1. PICK x \in S : \A y \in S : <<y, x>> \notin OpToRel(<, Nat)
      BY NatLessThanWellFounded, WFMin
  <1>2. \A y \in S : ~ (y < x)
      BY <1>1, Zenon DEF OpToRel
  <1>3. \A y \in S : x =< y
      BY <1>2
  <1> QED
      BY <1>3 DEF Min

(* The offer that waits is a transfer, if there is one.                    *)
LEMMA PendingTyped ==
  ASSUME NEW rs, NEW c
  PROVE  Pending(rs, c) \in Transfer \cup {None}
  <1> DEFINE waiting == {t \in Transfer : rs[t] = "incoming" /\ ConvOf[t] = c}
  <1>1. waiting # {} => Min(waiting) \in waiting
      BY LeastIsOne, WindowAssumption
  <1> QED
      BY <1>1 DEF Pending

(* What is posted is an event.                                             *)
LEMMA Events ==
  /\ \A c \in Conv : Event("message", c, None, "none") \in Posted
  /\ \A t \in Transfer, r \in RowState : Event("transfer", ConvOf[t], t, r) \in Posted
  BY WindowAssumption DEF Event, Posted, RowState

LEMMA PlainEvents ==
  \A k \in {"peers", "answered", "down", "up"} : Plain(k) \in Posted
  BY DEF Plain, Event, Posted, RowState

LEMMA Emitted ==
  ASSUME queue \in Seq(Posted), NEW e \in Posted, Emit(e)
  PROVE  queue' \in Seq(Posted)
  BY DEF Emit

(* What is handled was posted, and the rest is left.                       *)
LEMMA Handled ==
  ASSUME queue \in Seq(Posted), NEW k, Handling(k)
  PROVE  /\ queue' \in Seq(Posted) /\ Head(queue) \in Posted
         /\ Head(queue).row \in RowState
         /\ k = "transfer" => Head(queue).tr \in Transfer
  <1>1. queue' \in Seq(Posted) /\ Head(queue) \in Posted /\ Head(queue).kind = k
      BY DEF Handling
  <1> QED
      BY <1>1 DEF Posted

(* An answer is to a transfer.                                             *)
LEMMA AnswerTyped ==
  ASSUME CallsTyped, NEW yes \in BOOLEAN, Answer(yes)
  PROVE  answering' \subseteq [tr : Transfer, yes : BOOLEAN]
  <1>1. Pending(rows, current) # None => Pending(rows, current) \in Transfer
      BY PendingTyped
  <1> QED
      BY <1>1 DEF Answer, CallsTyped

----------------------------------------------------------------------------
LEMMA InitIInv == Init => IInv
  <1> SUFFICES ASSUME Init PROVE IInv
      OBVIOUS
  <1> USE WindowAssumption DEF Init
  <1>1. TypeOK
      BY DEF TypeOK
  <1>2. queue \in Seq(Posted) /\ NeverAway
      BY DEF NeverAway
  <1>3. BarIsPending
      BY DEF BarIsPending, Pending
  <1> QED
      BY <1>1, <1>2, <1>3 DEF IInv

(* The types, of what the daemon holds, of what is shown, and of the calls. *)
LEMMA TypeParts == TypeOK <=> DaemonTyped /\ ShownTyped /\ CallsTyped
  BY DEF TypeOK, DaemonTyped, ShownTyped, CallsTyped, RowState

LEMMA Bounds == MaxRestarts \in Nat /\ MaxSteps \in Nat
  BY WindowAssumption

(* A step of the daemon: one conversation, one row, or all the rows.       *)
LEMMA DaemonSteps ==
  ASSUME DaemonTyped
  PROVE  /\ UNCHANGED daemon => DaemonTyped'
         /\ \A c \in Conv :
              /\ UNCHANGED <<up, row, restarts>> /\ held' = [held EXCEPT ![c] = @ + 1]
              /\ unread' = [unread EXCEPT ![c] = @ + 1]
              => DaemonTyped'
         /\ \A c \in Conv :
              /\ UNCHANGED <<up, row, restarts, held>>
              /\ unread' = [unread EXCEPT ![c] = IF up THEN 0 ELSE @]
              => DaemonTyped'
         /\ \A t \in Transfer, r \in RowState :
              /\ UNCHANGED <<up, held, unread, restarts>> /\ row' = [row EXCEPT ![t] = r]
              => DaemonTyped'
  <1> USE DEF DaemonTyped
  <1>1. UNCHANGED daemon => DaemonTyped'
      BY DEF daemon
  <1>2. ASSUME NEW c \in Conv, UNCHANGED <<up, row, restarts>>, held' = [held EXCEPT ![c] = @ + 1],
               unread' = [unread EXCEPT ![c] = @ + 1]
        PROVE  DaemonTyped'
      <2>1. held' \in [Conv -> Nat] /\ unread' \in [Conv -> Nat]
          BY <1>2
      <2>2. \A x \in Conv : unread'[x] <= held'[x]
          BY <1>2
      <2> QED
          BY <1>2, <2>1, <2>2
  <1>3. ASSUME NEW c \in Conv, UNCHANGED <<up, row, restarts, held>>,
               unread' = [unread EXCEPT ![c] = IF up THEN 0 ELSE @]
        PROVE  DaemonTyped'
      <2>1. unread' \in [Conv -> Nat]
          BY <1>3
      <2>2. \A x \in Conv : unread'[x] <= held'[x]
          BY <1>3
      <2> QED
          BY <1>3, <2>1, <2>2
  <1>4. ASSUME NEW t \in Transfer, NEW r \in RowState, UNCHANGED <<up, held, unread, restarts>>,
               row' = [row EXCEPT ![t] = r]
        PROVE  DaemonTyped'
      <2>1. row' \in [Transfer -> RowState]
          BY <1>4
      <2> QED
          BY <1>4, <2>1
  <1> QED
      BY <1>1, <1>2, <1>3, <1>4

(* The daemon's part of every step.                                        *)
LEMMA DaemonStep ==
  ASSUME DaemonTyped, [Next]_vars
  PROVE  DaemonTyped'
  <1>1. ASSUME NEW c \in Conv, Message(c) PROVE DaemonTyped'
      <2>1. /\ held' = [held EXCEPT ![c] = @ + 1] /\ unread' = [unread EXCEPT ![c] = @ + 1]
            /\ UNCHANGED <<up, row, restarts>>
          BY <1>1, Zenon DEF Message
      <2> QED
          BY <2>1, DaemonSteps
  <1>2. ASSUME NEW t \in Transfer, Offer(t) \/ Over(t) PROVE DaemonTyped'
      <2>1. \E r \in RowState : row' = [row EXCEPT ![t] = r]
          BY <1>2 DEF Offer, Over, RowBecomes, RowState
      <2>2. UNCHANGED <<up, held, unread, restarts>>
          BY <1>2 DEF Offer, Over
      <2> QED
          BY <2>1, <2>2, DaemonSteps
  <1>3. CASE Detach
      <2>1. up' \in BOOLEAN /\ row' \in [Transfer -> RowState]
          BY <1>3 DEF Detach, RowState
      <2>2. restarts' \in 0 .. MaxRestarts /\ UNCHANGED <<held, unread>>
          BY <1>3, Bounds DEF Detach, DaemonTyped
      <2> QED
          BY <2>1, <2>2 DEF DaemonTyped
  <1>4. CASE Attach
      BY <1>4 DEF Attach, DaemonTyped
  <1>5. CASE Handlers
      <2>1. UNCHANGED daemon
          BY <1>5 DEF Handlers, OnMessage, OnPeers, OnTransfer, OnAnswered, OnDown, OnUp
      <2> QED
          BY <2>1, DaemonSteps
  <1>6. ASSUME NEW c \in Conv, MarkReadQuietly(c) PROVE DaemonTyped'
      BY <1>6, DaemonSteps DEF MarkReadQuietly
  <1>7. ASSUME NEW a \in [tr : Transfer, yes : BOOLEAN], Answered(a) PROVE DaemonTyped'
      <2>1. \/ \E r \in RowState : row' = [row EXCEPT ![a.tr] = r]
            \/ UNCHANGED row
          BY <1>7 DEF Answered, RowState
      <2>2. UNCHANGED <<up, held, unread, restarts>> /\ a.tr \in Transfer
          BY <1>7 DEF Answered
      <2> QED
          BY <2>1, <2>2, DaemonSteps DEF daemon
  <1>8. CASE Person
      <2>1. UNCHANGED daemon
          BY <1>8, Zenon DEF Person, Select, PressButton, ActivateMessage, Confirm
      <2> QED
          BY <2>1, DaemonSteps
  <1>9. CASE UNCHANGED vars
      BY <1>9, DaemonSteps DEF vars
  <1> QED
      BY <1>1, <1>2, <1>3, <1>4, <1>5, <1>6, <1>7, <1>8, <1>9 DEF Next, Calling

(* What is posted was an event when it was posted.                         *)
LEMMA QueueStep ==
  ASSUME DaemonTyped, queue \in Seq(Posted), [Next]_vars
  PROVE  queue' \in Seq(Posted)
  <1>1. ASSUME NEW c \in Conv, Message(c) PROVE queue' \in Seq(Posted)
      <2>1. Emit(Event("message", c, None, "none"))
          BY <1>1, Zenon DEF Message
      <2> QED
          BY <2>1, Emitted, Events
  <1>2. ASSUME NEW t \in Transfer, Offer(t) \/ Over(t) PROVE queue' \in Seq(Posted)
      BY <1>2, Emitted, Events DEF Offer, Over, RowBecomes, RowState
  <1>3. CASE Detach
      BY <1>3, PlainEvents DEF Detach
  <1>4. CASE Attach
      BY <1>4, PlainEvents DEF Attach
  <1>5. CASE Handlers
      <2>1. \E k : Handling(k)
          BY <1>5, Zenon DEF Handlers, OnMessage, OnPeers, OnTransfer, OnAnswered, OnDown, OnUp
      <2> QED
          BY <2>1, Handled
  <1>6. ASSUME NEW c \in Conv, MarkReadQuietly(c) PROVE queue' \in Seq(Posted)
      BY <1>6, Emitted, PlainEvents DEF MarkReadQuietly
  <1>7. ASSUME NEW a \in [tr : Transfer, yes : BOOLEAN], Answered(a) PROVE queue' \in Seq(Posted)
      <2>1. \A r \in RowState : Event("transfer", ConvOf[a.tr], a.tr, r) \in Posted
          BY Events
      <2>2. \/ queue' = Append(queue, Plain("answered"))
            \/ \E r \in RowState :
                 queue' = queue \o <<Event("transfer", ConvOf[a.tr], a.tr, r), Plain("answered")>>
          BY <1>7 DEF Answered, RowState
      <2>3. \A e, f \in Posted : queue \o <<e, f>> \in Seq(Posted)
          OBVIOUS
      <2>4. Plain("answered") \in Posted
          BY PlainEvents
      <2>5. queue' = Append(queue, Plain("answered")) => queue' \in Seq(Posted)
          BY <2>4
      <2> QED
          BY <2>1, <2>2, <2>3, <2>4, <2>5
  <1>8. CASE Person
      BY <1>8, Zenon DEF Person, Select, PressButton, ActivateMessage, Confirm
  <1>9. CASE UNCHANGED vars
      BY <1>9 DEF vars
  <1> QED
      BY <1>1, <1>2, <1>3, <1>4, <1>5, <1>6, <1>7, <1>8, <1>9 DEF Next, Calling

(* What is shown comes from the daemon or from an event.                   *)
LEMMA ShownStep ==
  ASSUME DaemonTyped, ShownTyped, queue \in Seq(Posted), [Next]_vars
  PROVE  ShownTyped'
  <1>0. \A rs, c : Pending(rs, c) \in Transfer \cup {None}
      BY PendingTyped
  <1>a. ASSUME UNCHANGED shown PROVE ShownTyped'
      BY <1>a DEF shown, ShownTyped
  <1>b. ASSUME NEW c \in Conv, ReloadMessages(c) PROVE screen' \in [conv : Conv, n : Nat]
      BY <1>b DEF ReloadMessages, DaemonTyped, ShownTyped
  <1>c. ASSUME ReloadConvs PROVE sidebar' \in [Conv -> Nat]
      BY <1>c DEF ReloadConvs, DaemonTyped, ShownTyped
  <1>d. ASSUME ReloadTransfers
        PROVE  rows' \in [Transfer -> RowState] /\ bar' \in Transfer \cup {None}
      BY <1>0, <1>d DEF ReloadTransfers, DrawOfferBar, DaemonTyped, ShownTyped
  <1>1. ASSUME NEW c \in Conv, Message(c) PROVE ShownTyped'
      <2>1. UNCHANGED shown
          BY <1>1, Zenon DEF Message
      <2> QED
          BY <1>a, <2>1
  <1>2. ASSUME NEW t \in Transfer, Offer(t) \/ Over(t) PROVE ShownTyped'
      BY <1>a, <1>2 DEF Offer, Over
  <1>3. CASE Detach \/ Attach \/ OnDown
      BY <1>a, <1>3 DEF Detach, Attach, OnDown
  <1>4. CASE OnMessage
      <2>1. sidebar' \in [Conv -> Nat]
          BY <1>4, <1>c DEF OnMessage
      <2>2. screen' \in [conv : Conv, n : Nat]
          BY <1>4, <1>b DEF OnMessage, ShownTyped
      <2>3. bar' \in Transfer \cup {None}
          BY <1>0, <1>4 DEF OnMessage, DrawOfferBar, ShownTyped
      <2> QED
          BY <1>4, <2>1, <2>2, <2>3 DEF OnMessage, ShownTyped
  <1>5. CASE OnPeers
      BY <1>5, <1>c DEF OnPeers, ShownTyped
  <1>6. CASE OnTransfer
      <2>0. Handling("transfer")
          BY <1>6 DEF OnTransfer
      <2>1. Head(queue).tr \in Transfer /\ Head(queue).row \in RowState
          BY <2>0, Handled
      <2>2. rows' \in [Transfer -> RowState] /\ screen' \in [conv : Conv, n : Nat]
          BY <1>6, <1>b, <2>1 DEF OnTransfer, ShownTyped
      <2>3. bar' \in Transfer \cup {None}
          BY <1>0, <1>6 DEF OnTransfer, DrawOfferBar
      <2> QED
          BY <1>6, <2>2, <2>3 DEF OnTransfer, ShownTyped
  <1>7. CASE OnAnswered
      BY <1>7, <1>d DEF OnAnswered, ShownTyped
  <1>8. CASE OnUp
      BY <1>8, <1>b, <1>c, <1>d DEF OnUp, ShownTyped
  <1>9. CASE Calling
      BY <1>a, <1>9, Zenon DEF Calling, MarkReadQuietly, Answered
  <1>10. ASSUME NEW c \in Conv, Select(c) PROVE ShownTyped'
      <2>1. screen' \in [conv : Conv, n : Nat]
          BY <1>10, <1>b DEF Select
      <2>2. bar' \in Transfer \cup {None}
          BY <1>0, <1>10 DEF Select, DrawOfferBar, ShownTyped
      <2> QED
          BY <1>10, <2>1, <2>2 DEF Select, ShownTyped
  <1>11. ASSUME NEW yes \in BOOLEAN, PressButton(yes) PROVE ShownTyped'
      BY <1>a, <1>11 DEF PressButton
  <1>12. ASSUME NEW t \in Transfer, ActivateMessage(t) PROVE ShownTyped'
      BY <1>12 DEF ActivateMessage, ShownTyped
  <1>13. ASSUME NEW yes \in BOOLEAN, Confirm(yes) PROVE ShownTyped'
      BY <1>13 DEF Confirm, ShownTyped
  <1>14. CASE UNCHANGED vars
      BY <1>a, <1>14 DEF vars
  <1> QED
      BY <1>1, <1>2, <1>3, <1>4, <1>5, <1>6, <1>7, <1>8, <1>9, <1>10, <1>11, <1>12, <1>13, <1>14
      DEF Next, Handlers, Person

(* Calls are about conversations and transfers there are.                  *)
LEMMA CallsStep ==
  ASSUME ShownTyped, CallsTyped, [Next]_vars
  PROVE  CallsTyped'
  <1>a. ASSUME UNCHANGED calls PROVE CallsTyped'
      BY <1>a DEF calls, CallsTyped
  <1>b. ASSUME Doing PROVE steps' \in 0 .. MaxSteps
      BY <1>b, Bounds DEF Doing, CallsTyped
  <1>1. ASSUME NEW c \in Conv, Message(c) PROVE CallsTyped'
      <2>1. UNCHANGED calls
          BY <1>1, Zenon DEF Message
      <2> QED
          BY <1>a, <2>1
  <1>2. ASSUME NEW t \in Transfer, Offer(t) \/ Over(t) PROVE CallsTyped'
      BY <1>a, <1>2 DEF Offer, Over
  <1>3. CASE Detach \/ Attach \/ OnPeers \/ OnTransfer \/ OnAnswered \/ OnDown \/ OnUp
      BY <1>a, <1>3 DEF Detach, Attach, OnPeers, OnTransfer, OnAnswered, OnDown, OnUp
  <1>4. CASE OnMessage
      BY <1>4 DEF OnMessage, CallsTyped, ShownTyped
  <1>5. ASSUME NEW c \in Conv, MarkReadQuietly(c) PROVE CallsTyped'
      BY <1>5 DEF MarkReadQuietly, CallsTyped
  <1>6. ASSUME NEW a, Answered(a) PROVE CallsTyped'
      <2>1. answering' \subseteq answering /\ UNCHANGED <<marking, steps>>
          BY <1>6 DEF Answered
      <2> QED
          BY <2>1 DEF CallsTyped
  <1>7. ASSUME NEW c \in Conv, Select(c) PROVE CallsTyped'
      BY <1>7, <1>b DEF Select, CallsTyped
  <1>8. ASSUME NEW yes \in BOOLEAN, PressButton(yes) PROVE CallsTyped'
      BY <1>8, <1>b, AnswerTyped DEF PressButton, CallsTyped
  <1>9. ASSUME NEW t \in Transfer, ActivateMessage(t) PROVE CallsTyped'
      BY <1>9, <1>b DEF ActivateMessage, CallsTyped
  <1>10. ASSUME NEW yes \in BOOLEAN, Confirm(yes) PROVE CallsTyped'
      BY <1>10, AnswerTyped DEF Confirm, CallsTyped
  <1>11. CASE UNCHANGED vars
      BY <1>a, <1>11 DEF vars
  <1> QED
      BY <1>1, <1>2, <1>3, <1>4, <1>5, <1>6, <1>7, <1>8, <1>9, <1>10, <1>11
      DEF Next, Handlers, Calling, Person

(* Whatever changes the window's rows or the selection draws the strip     *)
(* again, as long as there is a daemon to answer the call that it waits    *)
(* for: which there is, until it goes away.                                *)
LEMMA BarStep ==
  ASSUME TypeOK, NeverAway, BarIsPending, [Next]_vars
  PROVE  NeverAway' /\ BarIsPending'
  <1> USE WindowAssumption DEF NeverAway, BarIsPending, daemon, shown, calls, vars
  <1>a. ASSUME UNCHANGED <<current, rows, bar>>, restarts' = restarts, up' = up \/ up'
        PROVE  NeverAway' /\ BarIsPending'
      BY <1>a
  <1>b. ASSUME UNCHANGED <<restarts, up>>, restarts = 0 => bar' = Pending(rows', current')
        PROVE  NeverAway' /\ BarIsPending'
      BY <1>b
  <1>1. ASSUME NEW c \in Conv, Message(c) PROVE NeverAway' /\ BarIsPending'
      BY <1>a, <1>1 DEF Message
  <1>2. ASSUME NEW t \in Transfer, Offer(t) \/ Over(t) PROVE NeverAway' /\ BarIsPending'
      BY <1>a, <1>2 DEF Offer, Over
  <1>3. CASE Detach
      BY <1>3 DEF Detach, TypeOK
  <1>4. CASE Attach
      BY <1>a, <1>4 DEF Attach
  <1>5. CASE OnMessage
      BY <1>b, <1>5 DEF OnMessage, DrawOfferBar
  <1>6. CASE OnPeers \/ OnDown
      BY <1>a, <1>6 DEF OnPeers, OnDown
  <1>7. CASE OnTransfer
      BY <1>b, <1>7 DEF OnTransfer, DrawOfferBar
  <1>8. CASE OnAnswered \/ OnUp
      BY <1>b, <1>8 DEF OnAnswered, OnUp, ReloadTransfers, DrawOfferBar
  <1>9. ASSUME NEW c \in Conv, MarkReadQuietly(c) PROVE NeverAway' /\ BarIsPending'
      BY <1>a, <1>9 DEF MarkReadQuietly
  <1>10. ASSUME NEW a, Answered(a) PROVE NeverAway' /\ BarIsPending'
      BY <1>a, <1>10 DEF Answered
  <1>11. ASSUME NEW c \in Conv, Select(c) PROVE NeverAway' /\ BarIsPending'
      BY <1>b, <1>11 DEF Select, DrawOfferBar
  <1>12. ASSUME NEW yes, PressButton(yes) \/ Confirm(yes) PROVE NeverAway' /\ BarIsPending'
      BY <1>a, <1>12 DEF PressButton, Confirm
  <1>13. ASSUME NEW t, ActivateMessage(t) PROVE NeverAway' /\ BarIsPending'
      BY <1>a, <1>13 DEF ActivateMessage
  <1>14. CASE UNCHANGED vars
      BY <1>a, <1>14
  <1> QED
      BY <1>1, <1>2, <1>3, <1>4, <1>5, <1>6, <1>7, <1>8, <1>9, <1>10, <1>11, <1>12, <1>13, <1>14
      DEF Next, Handlers, Calling, Person

----------------------------------------------------------------------------
LEMMA NextIInv == IInv /\ [Next]_vars => IInv'
  <1> SUFFICES ASSUME IInv, [Next]_vars PROVE IInv'
      OBVIOUS
  <1>1. /\ TypeOK /\ DaemonTyped /\ ShownTyped /\ CallsTyped
        /\ queue \in Seq(Posted) /\ NeverAway /\ BarIsPending
      BY TypeParts DEF IInv
  <1>2. (DaemonTyped /\ ShownTyped /\ CallsTyped)'
      BY <1>1, DaemonStep, ShownStep, CallsStep
  <1>3. TypeOK'
      BY <1>2 DEF TypeOK, DaemonTyped, ShownTyped, CallsTyped, RowState
  <1> QED
      BY <1>1, <1>3, QueueStep, BarStep DEF IInv

LEMMA Invariance == Spec => []IInv
  BY InitIInv, NextIInv, PTL DEF Spec

(* TypeOK holds in every state: in particular nothing counts as unread     *)
(* that is not there, and the strip and the dialog name an offer.          *)
THEOREM TypeCorrect == Spec => []TypeOK
  <1>1. IInv => TypeOK
      BY DEF IInv
  <1> QED
      BY <1>1, Invariance, PTL

(* drawOfferBar is called wherever s.transfers or s.current changes: while *)
(* the daemon has not gone away, the strip names the offer that the        *)
(* buttons on it would answer.                                             *)
THEOREM StripIsRight == Spec => []BarIsPending
  <1>1. IInv => BarIsPending
      BY DEF IInv
  <1> QED
      BY <1>1, Invariance, PTL
=============================================================================
