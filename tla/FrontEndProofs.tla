-------------------------- MODULE FrontEndProofs --------------------------
(***************************************************************************)
(* Of FrontEnd: every variable keeps its type and a lock file has one      *)
(* holder, nobody is left in a daemon that goes, and somebody answers      *)
(* every call of an open front end, for any number of daemons and calls.   *)
(***************************************************************************)
EXTENDS FrontEnd, TLAPS

(* A connection that is still to be handled is to a daemon that has been   *)
(* serving and has not exited.                                             *)
AcceptedByLiving ==
    \A d \in Daemon : conn[d] = "accepted" => place[d] \in {"serving"} \cup Stopping

(* Who dials again has seen the end of the connection before, and that one *)
(* is still the current one: nobody waits for an answer there.             *)
RedialsAfterTheEnd ==
    ~closed /\ redial # "none" => cur # None /\ conn[cur] = "read"

IInv ==
    /\ TypeOK /\ NobodyIsLeft /\ SomebodyAnswers
    /\ AcceptedByLiving /\ RedialsAfterTheEnd

----------------------------------------------------------------------------
LEMMA InitIInv == Init => IInv
  <1> SUFFICES ASSUME Init PROVE IInv
      OBVIOUS
  <1> USE FrontEndAssumption DEF Init
  <1>1. TypeOK
      <2>1. inode \in [Daemon -> 0 .. lastFile] /\ lockPath \in 0 .. lastFile /\ lastFile \in Nat
          OBVIOUS
      <2>2. \A d \in Daemon : place[d] \notin Holding
          BY DEF Holding, Stopping
      <2> QED
          BY <2>1, <2>2 DEF TypeOK, Holding, Stopping
  <1>2. NobodyIsLeft /\ AcceptedByLiving
      BY DEF NobodyIsLeft, AcceptedByLiving
  <1>3. SomebodyAnswers
      <2> SUFFICES ASSUME NEW c \in Call PROVE call[c] \notin Daemon
          BY DEF SomebodyAnswers
      <2> QED
          BY DEF Init
  <1> QED
      BY <1>1, <1>2, <1>3 DEF IInv, RedialsAfterTheEnd
(* A daemon locks a file only when nobody holds it, and a file never comes *)
(* back under the name it was removed from: types and one holder.          *)
LEMMA TypeStep ==
  ASSUME TypeOK, [Next]_vars
  PROVE  TypeOK'
  <1> USE FrontEndAssumption DEF TypeOK, Goes, Holding, Stopping, door, dialling, client, vars
  <1>1. ASSUME NEW d \in Daemon, Open(d) PROVE TypeOK'
      BY <1>1 DEF Open
  <1>2. ASSUME NEW d \in Daemon, Lock(d) PROVE TypeOK'
      BY <1>2 DEF Lock, Held
  <1>3. ASSUME NEW d \in Daemon, Refused(d) PROVE TypeOK'
      BY <1>3 DEF Refused, Held
  <1>4. ASSUME NEW d \in Daemon, Listen(d) PROVE TypeOK'
      BY <1>4 DEF Listen
  <1>5. ASSUME NEW d \in Daemon, CloseListener(d) PROVE TypeOK'
      BY <1>5 DEF CloseListener
  <1>6. ASSUME NEW d \in Daemon, CloseClients(d) PROVE TypeOK'
      BY <1>6 DEF CloseClients
  <1>7. ASSUME NEW d \in Daemon, Unlink(d) PROVE TypeOK'
      BY <1>7 DEF Unlink
  <1>8. ASSUME NEW d \in Daemon, Release(d) PROVE TypeOK'
      BY <1>8 DEF Release, Exit
  <1>9. ASSUME NEW d \in Daemon, Kill(d) PROVE TypeOK'
      BY <1>9 DEF Kill, Exit
  <1>10. ASSUME NEW d \in Daemon, HandleConn(d) PROVE TypeOK'
      BY <1>10 DEF HandleConn
  <1>11. ASSUME NEW d \in Daemon, Dropped(d) PROVE TypeOK'
      BY <1>11 DEF Dropped, DroppedCalls
  <1>12. ASSUME NEW d \in Daemon, Dial(d) PROVE TypeOK'
      BY <1>12 DEF Dial, Connect
  <1>13. ASSUME NEW d \in Daemon, Redialled(d) PROVE TypeOK'
      BY <1>13 DEF Redialled, Connect
  <1>14. CASE Redial
      BY <1>14 DEF Redial
  <1>15. CASE RedialFails
      BY <1>15 DEF RedialFails
  <1>16. CASE Tell
      BY <1>16 DEF Tell
  <1>17. CASE Close
      BY <1>17 DEF Close
  <1>18. ASSUME NEW c \in Call, Ask(c) PROVE TypeOK'
      BY <1>18 DEF Ask
  <1>19. ASSUME NEW c \in Call, Answer(c) PROVE TypeOK'
      BY <1>19 DEF Answer
  <1>20. CASE UNCHANGED vars
      BY <1>20
  <1> QED
      BY <1>1, <1>2, <1>3, <1>4, <1>5, <1>6, <1>7, <1>8, <1>9, <1>10, <1>11, <1>12, <1>13, <1>14, <1>15, <1>16, <1>17, <1>18, <1>19, <1>20 DEF Next, Start, Stop, Reading, Dialling

(* A connection is attached where closed was looked at under the lock, and *)
(* closeClients shuts what is attached (handleConn, closeClients).         *)
LEMMA NobodyLeftStep ==
  ASSUME TypeOK, NobodyIsLeft, AcceptedByLiving, [Next]_vars
  PROVE  NobodyIsLeft'
  <1> USE FrontEndAssumption DEF TypeOK, NobodyIsLeft, AcceptedByLiving, Goes, Stopping, door, dialling, client, vars
  <1>1. ASSUME NEW d \in Daemon, Open(d) PROVE NobodyIsLeft'
      BY <1>1 DEF Open
  <1>2. ASSUME NEW d \in Daemon, Lock(d) PROVE NobodyIsLeft'
      BY <1>2 DEF Lock
  <1>3. ASSUME NEW d \in Daemon, Refused(d) PROVE NobodyIsLeft'
      BY <1>3 DEF Refused
  <1>4. ASSUME NEW d \in Daemon, Listen(d) PROVE NobodyIsLeft'
      BY <1>4 DEF Listen
  <1>5. ASSUME NEW d \in Daemon, CloseListener(d) PROVE NobodyIsLeft'
      BY <1>5 DEF CloseListener
  <1>6. ASSUME NEW d \in Daemon, CloseClients(d) PROVE NobodyIsLeft'
      BY <1>6 DEF CloseClients
  <1>7. ASSUME NEW d \in Daemon, Unlink(d) PROVE NobodyIsLeft'
      BY <1>7 DEF Unlink
  <1>8. ASSUME NEW d \in Daemon, Release(d) PROVE NobodyIsLeft'
      BY <1>8 DEF Release, Exit
  <1>9. ASSUME NEW d \in Daemon, Kill(d) PROVE NobodyIsLeft'
      BY <1>9 DEF Kill, Exit
  <1>10. ASSUME NEW d \in Daemon, HandleConn(d) PROVE NobodyIsLeft'
      BY <1>10 DEF HandleConn, Alive, Starting, Holding
  <1>11. ASSUME NEW d \in Daemon, Dropped(d) PROVE NobodyIsLeft'
      BY <1>11 DEF Dropped, DroppedCalls
  <1>12. ASSUME NEW d \in Daemon, Dial(d) PROVE NobodyIsLeft'
      BY <1>12 DEF Dial, Connect
  <1>13. ASSUME NEW d \in Daemon, Redialled(d) PROVE NobodyIsLeft'
      BY <1>13 DEF Redialled, Connect
  <1>14. CASE Redial
      BY <1>14 DEF Redial
  <1>15. CASE RedialFails
      BY <1>15 DEF RedialFails
  <1>16. CASE Tell
      BY <1>16 DEF Tell
  <1>17. CASE Close
      BY <1>17 DEF Close
  <1>18. ASSUME NEW c \in Call, Ask(c) PROVE NobodyIsLeft'
      BY <1>18 DEF Ask
  <1>19. ASSUME NEW c \in Call, Answer(c) PROVE NobodyIsLeft'
      BY <1>19 DEF Answer
  <1>20. CASE UNCHANGED vars
      BY <1>20
  <1> QED
      BY <1>1, <1>2, <1>3, <1>4, <1>5, <1>6, <1>7, <1>8, <1>9, <1>10, <1>11, <1>12, <1>13, <1>14, <1>15, <1>16, <1>17, <1>18, <1>19, <1>20 DEF Next, Start, Stop, Reading, Dialling

(* Only a daemon that serves is connected to, and an exit shuts all.       *)
LEMMA AcceptedStep ==
  ASSUME TypeOK, AcceptedByLiving, [Next]_vars
  PROVE  AcceptedByLiving'
  <1> USE FrontEndAssumption DEF TypeOK, AcceptedByLiving, Goes, Stopping, door, dialling, client, vars
  <1>1. ASSUME NEW d \in Daemon, Open(d) PROVE AcceptedByLiving'
      BY <1>1 DEF Open
  <1>2. ASSUME NEW d \in Daemon, Lock(d) PROVE AcceptedByLiving'
      BY <1>2 DEF Lock
  <1>3. ASSUME NEW d \in Daemon, Refused(d) PROVE AcceptedByLiving'
      BY <1>3 DEF Refused
  <1>4. ASSUME NEW d \in Daemon, Listen(d) PROVE AcceptedByLiving'
      BY <1>4 DEF Listen
  <1>5. ASSUME NEW d \in Daemon, CloseListener(d) PROVE AcceptedByLiving'
      BY <1>5 DEF CloseListener
  <1>6. ASSUME NEW d \in Daemon, CloseClients(d) PROVE AcceptedByLiving'
      BY <1>6 DEF CloseClients
  <1>7. ASSUME NEW d \in Daemon, Unlink(d) PROVE AcceptedByLiving'
      BY <1>7 DEF Unlink
  <1>8. ASSUME NEW d \in Daemon, Release(d) PROVE AcceptedByLiving'
      BY <1>8 DEF Release, Exit
  <1>9. ASSUME NEW d \in Daemon, Kill(d) PROVE AcceptedByLiving'
      BY <1>9 DEF Kill, Exit
  <1>10. ASSUME NEW d \in Daemon, HandleConn(d) PROVE AcceptedByLiving'
      BY <1>10 DEF HandleConn
  <1>11. ASSUME NEW d \in Daemon, Dropped(d) PROVE AcceptedByLiving'
      BY <1>11 DEF Dropped, DroppedCalls
  <1>12. ASSUME NEW d \in Daemon, Dial(d) PROVE AcceptedByLiving'
      BY <1>12 DEF Dial, Connect, Listening
  <1>13. ASSUME NEW d \in Daemon, Redialled(d) PROVE AcceptedByLiving'
      BY <1>13 DEF Redialled, Connect, Listening
  <1>14. CASE Redial
      BY <1>14 DEF Redial
  <1>15. CASE RedialFails
      BY <1>15 DEF RedialFails
  <1>16. CASE Tell
      BY <1>16 DEF Tell
  <1>17. CASE Close
      BY <1>17 DEF Close
  <1>18. ASSUME NEW c \in Call, Ask(c) PROVE AcceptedByLiving'
      BY <1>18 DEF Ask
  <1>19. ASSUME NEW c \in Call, Answer(c) PROVE AcceptedByLiving'
      BY <1>19 DEF Answer
  <1>20. CASE UNCHANGED vars
      BY <1>20
  <1> QED
      BY <1>1, <1>2, <1>3, <1>4, <1>5, <1>6, <1>7, <1>8, <1>9, <1>10, <1>11, <1>12, <1>13, <1>14, <1>15, <1>16, <1>17, <1>18, <1>19, <1>20 DEF Next, Start, Stop, Reading, Dialling

(* A call waits on the current connection; the reader that sees its end    *)
(* releases the calls, and only then may another become the current one.   *)
LEMMA AnswersStep ==
  ASSUME TypeOK, SomebodyAnswers, RedialsAfterTheEnd, [Next]_vars
  PROVE  SomebodyAnswers'
  <1> USE FrontEndAssumption DEF TypeOK, SomebodyAnswers, RedialsAfterTheEnd, door, dialling, client, vars
  <1>1. ASSUME NEW d \in Daemon, Open(d) PROVE SomebodyAnswers'
      BY <1>1 DEF Open
  <1>2. ASSUME NEW d \in Daemon, Lock(d) PROVE SomebodyAnswers'
      BY <1>2 DEF Lock
  <1>3. ASSUME NEW d \in Daemon, Refused(d) PROVE SomebodyAnswers'
      BY <1>3 DEF Refused
  <1>4. ASSUME NEW d \in Daemon, Listen(d) PROVE SomebodyAnswers'
      BY <1>4 DEF Listen
  <1>5. ASSUME NEW d \in Daemon, CloseListener(d) PROVE SomebodyAnswers'
      BY <1>5 DEF CloseListener
  <1>6. ASSUME NEW d \in Daemon, CloseClients(d) PROVE SomebodyAnswers'
      BY <1>6 DEF CloseClients
  <1>7. ASSUME NEW d \in Daemon, Unlink(d) PROVE SomebodyAnswers'
      BY <1>7 DEF Unlink
  <1>8. ASSUME NEW d \in Daemon, Release(d) PROVE SomebodyAnswers'
      BY <1>8 DEF Release, Exit
  <1>9. ASSUME NEW d \in Daemon, Kill(d) PROVE SomebodyAnswers'
      BY <1>9 DEF Kill, Exit
  <1>10. ASSUME NEW d \in Daemon, HandleConn(d) PROVE SomebodyAnswers'
      BY <1>10 DEF HandleConn
  <1>11. ASSUME NEW d \in Daemon, Dropped(d) PROVE SomebodyAnswers'
      <2>1. CASE cur = d
          <3>1. DroppedCalls(d)
              BY <1>11, <2>1 DEF Dropped
          <3>2. \A c \in Call : call'[c] \notin Daemon
              BY <3>1 DEF DroppedCalls
          <3> QED
              BY <3>2
      <2>2. CASE cur # d
          BY <1>11, <2>2 DEF Dropped
      <2> QED
          BY <2>1, <2>2
  <1>12. ASSUME NEW d \in Daemon, Dial(d) PROVE SomebodyAnswers'
      BY <1>12 DEF Dial, Connect
  <1>13. ASSUME NEW d \in Daemon, Redialled(d) PROVE SomebodyAnswers'
      BY <1>13 DEF Redialled, Connect
  <1>14. CASE Redial
      BY <1>14 DEF Redial
  <1>15. CASE RedialFails
      BY <1>15 DEF RedialFails
  <1>16. CASE Tell
      BY <1>16 DEF Tell
  <1>17. CASE Close
      BY <1>17 DEF Close
  <1>18. ASSUME NEW c \in Call, Ask(c) PROVE SomebodyAnswers'
      BY <1>18 DEF Ask
  <1>19. ASSUME NEW c \in Call, Answer(c) PROVE SomebodyAnswers'
      BY <1>19 DEF Answer
  <1>20. CASE UNCHANGED vars
      BY <1>20
  <1> QED
      BY <1>1, <1>2, <1>3, <1>4, <1>5, <1>6, <1>7, <1>8, <1>9, <1>10, <1>11, <1>12, <1>13, <1>14, <1>15, <1>16, <1>17, <1>18, <1>19, <1>20 DEF Next, Start, Stop, Reading, Dialling

(* dropped starts the goroutine that dials, and a connection that ended    *)
(* stays the current one until that goroutine has another.                *)
LEMMA RedialStep ==
  ASSUME TypeOK, RedialsAfterTheEnd, [Next]_vars
  PROVE  RedialsAfterTheEnd'
  <1> USE FrontEndAssumption DEF TypeOK, RedialsAfterTheEnd, door, dialling, client, vars
  <1>1. ASSUME NEW d \in Daemon, Open(d) PROVE RedialsAfterTheEnd'
      BY <1>1 DEF Open
  <1>2. ASSUME NEW d \in Daemon, Lock(d) PROVE RedialsAfterTheEnd'
      BY <1>2 DEF Lock
  <1>3. ASSUME NEW d \in Daemon, Refused(d) PROVE RedialsAfterTheEnd'
      BY <1>3 DEF Refused
  <1>4. ASSUME NEW d \in Daemon, Listen(d) PROVE RedialsAfterTheEnd'
      BY <1>4 DEF Listen
  <1>5. ASSUME NEW d \in Daemon, CloseListener(d) PROVE RedialsAfterTheEnd'
      BY <1>5 DEF CloseListener
  <1>6. ASSUME NEW d \in Daemon, CloseClients(d) PROVE RedialsAfterTheEnd'
      BY <1>6 DEF CloseClients
  <1>7. ASSUME NEW d \in Daemon, Unlink(d) PROVE RedialsAfterTheEnd'
      BY <1>7 DEF Unlink
  <1>8. ASSUME NEW d \in Daemon, Release(d) PROVE RedialsAfterTheEnd'
      BY <1>8 DEF Release, Exit
  <1>9. ASSUME NEW d \in Daemon, Kill(d) PROVE RedialsAfterTheEnd'
      BY <1>9 DEF Kill, Exit
  <1>10. ASSUME NEW d \in Daemon, HandleConn(d) PROVE RedialsAfterTheEnd'
      BY <1>10 DEF HandleConn
  <1>11. ASSUME NEW d \in Daemon, Dropped(d) PROVE RedialsAfterTheEnd'
      BY <1>11 DEF Dropped, DroppedCalls
  <1>12. ASSUME NEW d \in Daemon, Dial(d) PROVE RedialsAfterTheEnd'
      BY <1>12 DEF Dial, Connect
  <1>13. ASSUME NEW d \in Daemon, Redialled(d) PROVE RedialsAfterTheEnd'
      BY <1>13 DEF Redialled, Connect
  <1>14. CASE Redial
      BY <1>14 DEF Redial
  <1>15. CASE RedialFails
      BY <1>15 DEF RedialFails
  <1>16. CASE Tell
      BY <1>16 DEF Tell
  <1>17. CASE Close
      BY <1>17 DEF Close
  <1>18. ASSUME NEW c \in Call, Ask(c) PROVE RedialsAfterTheEnd'
      BY <1>18 DEF Ask
  <1>19. ASSUME NEW c \in Call, Answer(c) PROVE RedialsAfterTheEnd'
      BY <1>19 DEF Answer
  <1>20. CASE UNCHANGED vars
      BY <1>20
  <1> QED
      BY <1>1, <1>2, <1>3, <1>4, <1>5, <1>6, <1>7, <1>8, <1>9, <1>10, <1>11, <1>12, <1>13, <1>14, <1>15, <1>16, <1>17, <1>18, <1>19, <1>20 DEF Next, Start, Stop, Reading, Dialling

----------------------------------------------------------------------------
LEMMA NextIInv == IInv /\ [Next]_vars => IInv'
  BY TypeStep, NobodyLeftStep, AcceptedStep, AnswersStep, RedialStep DEF IInv

(* The inductive invariant, of which the theorems are parts.               *)
LEMMA Invariance == Spec => []IInv
  BY InitIInv, NextIInv, PTL DEF Spec

(* Every variable keeps its type, and of the daemons that hold one lock    *)
(* file there is one (lockSocket): what OneServes lacks is that the file   *)
(* they hold is the same.                                                  *)
THEOREM TypeCorrect == Spec => []TypeOK
  <1>1. IInv => TypeOK
      BY DEF IInv
  <1> QED
      BY <1>1, Invariance, PTL

(* No connection is left attached to a daemon that is past closeClients    *)
(* (handleConn and closeClients, rpc.go).                                  *)
THEOREM NobodyIsLeftEver == Spec => []NobodyIsLeft
  <1>1. IInv => NobodyIsLeft
      BY DEF IInv
  <1> QED
      BY <1>1, Invariance, PTL

(* A call of an open front end waits for the daemon it is connected to,    *)
(* and its reader has still to run (call, dropped and redial, client.go).  *)
THEOREM SomebodyAnswersAlways == Spec => []SomebodyAnswers
  <1>1. IInv => SomebodyAnswers
      BY DEF IInv
  <1> QED
      BY <1>1, Invariance, PTL
=============================================================================
