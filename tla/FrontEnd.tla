------------------------------ MODULE FrontEnd ------------------------------
(***************************************************************************)
(* The door between a front end and the client daemon on one machine: the  *)
(* lock file and the Unix socket (listenSocket, lockSocket), the daemon's  *)
(* RPC server as far as connections go (ListenAndServe, Serve, handleConn, *)
(* closeClients), and the front end's client (chat.Client), which calls,   *)
(* loses its connection and dials again. Daemons are started, stopped and  *)
(* killed at any time; each member of Daemon is one process, started once. *)
(*                                                                         *)
(* What is abstracted: what the calls ask and what is pushed to the front  *)
(* end (Window has that), the twenty seconds after which a call gives up,  *)
(* and the time between two attempts to dial.                              *)
(***************************************************************************)
EXTENDS Naturals, FiniteSets

CONSTANTS
    Daemon,  \* processes of the client daemon
    Call,    \* calls the front end makes
    None     \* no daemon

ASSUME FrontEndAssumption ==
    None \notin Daemon /\ Daemon \cap {"new", "done"} = {} /\ IsFiniteSet(Daemon)

VARIABLES
    place,    \* how far each daemon has come
    inode,    \* the lock file each daemon has opened; 0 for none
    lockPath, \* the file that socket.lock names now; 0 for none
    lastFile, \* the last lock file created
    sockPath, \* the daemon whose socket the path names
    conn,     \* the front end's connection to each daemon
    cur,      \* Client.conn: the daemon it leads to
    upNow,    \* Client.upNow
    shown,    \* what the front end was told last (onState)
    redial,   \* the goroutine that dials: "none", "waiting" or "dialling"
    telling,  \* how many goroutines are about to tell that it is up
    closed,   \* Client.closed
    call      \* each call: "new", "done", or the daemon it waits for

door == <<place, inode, lockPath, lastFile, sockPath>>
dialling == <<redial, telling, closed>>
client == <<cur, upNow, shown, dialling>>
vars == <<door, conn, client, call>>

----------------------------------------------------------------------------
Starting == {"opened", "locked"}
Stopping == {"unlistened", "dropped", "unlinked"}
Holding == {"locked", "serving"} \cup Stopping
Alive(d) == place[d] \in {"opened"} \cup Holding
Held(i) == \E d \in Daemon : inode[d] = i /\ place[d] \in Holding

(* A connection to the path reaches a process that still listens.          *)
Listening(d) == sockPath = d /\ place[d] = "serving"

Init ==
    /\ place = [d \in Daemon |-> "off"] /\ inode = [d \in Daemon |-> 0]
    /\ lockPath = 0 /\ lastFile = 0 /\ sockPath = None
    /\ conn = [d \in Daemon |-> "none"] /\ cur = None /\ upNow = FALSE /\ shown = FALSE
    /\ redial = "none" /\ telling = 0 /\ closed = FALSE
    /\ call = [c \in Call |-> "new"]

Goes(d, to) == place' = [place EXCEPT ![d] = to]

(* The kernel closes what a process held, and the front end can see it.    *)
Exit(d) ==
    /\ Goes(d, "gone")
    /\ conn' = [conn EXCEPT ![d] = IF @ = "none" THEN @ ELSE IF @ = "read" THEN @ ELSE "shut"]

----------------------------------------------------------------------------
(* listenSocket: open the lock file, lock it, take the path, listen.       *)

Open(d) ==
    /\ place[d] = "off" /\ Goes(d, "opened")
    /\ IF lockPath = 0
       THEN lastFile' = lastFile + 1 /\ lockPath' = lastFile' /\ inode' = [inode EXCEPT ![d] = lastFile']
       ELSE inode' = [inode EXCEPT ![d] = lockPath] /\ UNCHANGED <<lockPath, lastFile>>
    /\ UNCHANGED <<sockPath, conn, client, call>>

(* Mutant of Lock: the lock is not asked for, the file is enough.          *)
LockBlindly(d) ==
    /\ place[d] = "opened" /\ Goes(d, "locked")
    /\ UNCHANGED <<inode, lockPath, lastFile, sockPath, conn, client, call>>

Lock(d) ==
    /\ place[d] = "opened" /\ ~Held(inode[d]) /\ Goes(d, "locked")
    /\ UNCHANGED <<inode, lockPath, lastFile, sockPath, conn, client, call>>

Refused(d) ==
    /\ place[d] = "opened" /\ Held(inode[d]) /\ Goes(d, "gone")
    /\ UNCHANGED <<inode, lockPath, lastFile, sockPath, conn, client, call>>

(* Whatever the path names is taken for stale and removed.                 *)
Listen(d) ==
    /\ place[d] = "locked" /\ Goes(d, "serving") /\ sockPath' = d
    /\ UNCHANGED <<inode, lockPath, lastFile, conn, client, call>>

----------------------------------------------------------------------------
(* ListenAndServe, once it is asked to stop. Closing a listener unlinks    *)
(* the path, whatever it names by then; so does removing the lock file,    *)
(* which comes before the lock is released.                                *)

CloseListener(d) ==
    /\ place[d] = "serving" /\ Goes(d, "unlistened") /\ sockPath' = None
    /\ UNCHANGED <<inode, lockPath, lastFile, conn, client, call>>

CloseClients(d) ==
    /\ place[d] = "unlistened" /\ Goes(d, "dropped")
    /\ conn' = [conn EXCEPT ![d] = IF @ = "attached" THEN "shut" ELSE @]
    /\ UNCHANGED <<inode, lockPath, lastFile, sockPath, client, call>>

Unlink(d) ==
    /\ place[d] = "dropped" /\ Goes(d, "unlinked") /\ lockPath' = 0
    /\ UNCHANGED <<inode, lastFile, sockPath, conn, client, call>>

Release(d) ==
    /\ place[d] = "unlinked" /\ Exit(d)
    /\ UNCHANGED <<inode, lockPath, lastFile, sockPath, client, call>>

(* The files stay where they are.                                          *)
Kill(d) ==
    /\ Alive(d) /\ Exit(d)
    /\ UNCHANGED <<inode, lockPath, lastFile, sockPath, client, call>>

(* Mutant of HandleConn: registered without a look at closed.              *)
HandleAnyConn(d) ==
    /\ conn[d] = "accepted" /\ Alive(d) /\ conn' = [conn EXCEPT ![d] = "attached"]
    /\ UNCHANGED <<door, client, call>>

(* Accepting a connection and registering it are two steps: between them   *)
(* closeClients may have run.                                              *)
HandleConn(d) ==
    /\ conn[d] = "accepted" /\ Alive(d)
    /\ conn' = [conn EXCEPT ![d] = IF place[d] \in {"dropped", "unlinked"} THEN "shut" ELSE "attached"]
    /\ UNCHANGED <<door, client, call>>

----------------------------------------------------------------------------
(* The client of the front end.                                            *)

(* Client.connect reaches whoever listens.                                 *)
Connect(d) ==
    /\ Listening(d) /\ conn[d] = "none"
    /\ conn' = [conn EXCEPT ![d] = "accepted"] /\ cur' = d /\ upNow' = TRUE

Dial(d) ==
    /\ cur = None /\ ~closed /\ Connect(d)
    /\ shown' = TRUE
    /\ UNCHANGED <<door, dialling, call>>

(* Mutant of DroppedCalls: the calls are left to wait.                     *)
CallsLeft(d) == UNCHANGED call

(* Every call in flight is answered.                                       *)
DroppedCalls(d) == call' = [c \in Call |-> IF call[c] \in Daemon THEN "done" ELSE call[c]]

(* Client.dropped, when the reader has seen the end of its connection.     *)
Dropped(d) ==
    /\ conn[d] = "shut" /\ conn' = [conn EXCEPT ![d] = "read"]
    /\ IF cur = d
       THEN /\ DroppedCalls(d) /\ upNow' = FALSE
            /\ shown' = IF closed THEN shown ELSE FALSE
            /\ redial' = IF closed THEN redial ELSE "waiting"
       ELSE UNCHANGED <<call, upNow, shown, redial>>
    /\ UNCHANGED <<door, cur, telling, closed>>

(* Client.redial: is it closed? Then dial, for ever, then tell.            *)
Redial ==
    /\ redial = "waiting" /\ redial' = IF closed THEN "none" ELSE "dialling"
    /\ UNCHANGED <<door, conn, cur, upNow, shown, telling, closed, call>>

RedialFails ==
    /\ redial = "dialling" /\ ~(\E d \in Daemon : Listening(d)) /\ redial' = "waiting"
    /\ UNCHANGED <<door, conn, cur, upNow, shown, telling, closed, call>>

Redialled(d) ==
    /\ redial = "dialling" /\ Connect(d)
    /\ redial' = "none" /\ telling' = telling + 1
    /\ UNCHANGED <<door, shown, closed, call>>

(* Mutant of Tell: nobody is told that it is up again.                     *)
TellNobody ==
    /\ telling > 0 /\ telling' = telling - 1
    /\ UNCHANGED <<door, conn, cur, upNow, shown, redial, closed, call>>

Tell ==
    /\ telling > 0 /\ telling' = telling - 1 /\ shown' = TRUE
    /\ UNCHANGED <<door, conn, cur, upNow, redial, closed, call>>

(* Client.call: a write into a connection that was shut fails at once.     *)
Ask(c) ==
    /\ call[c] = "new"
    /\ call' = [call EXCEPT ![c] =
                   IF closed \/ cur = None \/ conn[cur] \in {"shut", "read"} THEN "done" ELSE cur]
    /\ UNCHANGED <<door, conn, client>>

(* The daemon's answer finds the call that waits for it (Client.deliver).  *)
Answer(c) ==
    /\ call[c] \in Daemon /\ conn[call[c]] = "attached"
    /\ call' = [call EXCEPT ![c] = "done"]
    /\ UNCHANGED <<door, conn, client>>

(* The connection is taken out before it is closed: its reader finds that  *)
(* it is not the current one any more.                                     *)
Close ==
    /\ ~closed /\ closed' = TRUE /\ cur' = None
    /\ conn' = IF cur = None THEN conn ELSE [conn EXCEPT ![cur] = "shut"]
    /\ UNCHANGED <<door, upNow, shown, redial, telling, call>>

----------------------------------------------------------------------------
Start(d) == Lock(d) \/ Refused(d) \/ Listen(d)
Stop(d) == CloseClients(d) \/ Unlink(d) \/ Release(d)
Reading(d) == HandleConn(d) \/ Dropped(d)
Dialling == Redial \/ RedialFails \/ \E d \in Daemon : Redialled(d)

Next ==
    \/ \E d \in Daemon : \/ Open(d) \/ Start(d) \/ CloseListener(d) \/ Stop(d) \/ Kill(d)
                         \/ Reading(d) \/ Dial(d)
    \/ Dialling \/ Tell \/ Close
    \/ \E c \in Call : Ask(c) \/ Answer(c)

Spec == Init /\ [][Next]_vars

(* Every goroutine gets on. Nobody has to start, stop or kill a daemon, to *)
(* open or close a front end, or to ask. A dial is tried for ever, and     *)
(* meets in the end a path that is served again and again.                 *)
FairSpec ==
    /\ Spec
    /\ \A d \in Daemon : WF_vars(Start(d)) /\ WF_vars(Stop(d)) /\ WF_vars(Reading(d))
    /\ SF_vars(\E d \in Daemon : Redialled(d)) /\ WF_vars(Dialling) /\ WF_vars(Tell)
    /\ \A c \in Call : WF_vars(Answer(c))

----------------------------------------------------------------------------
(* Properties.                                                             *)

(* The type invariant. One lock file is locked by one daemon at most.      *)
TypeOK ==
    /\ place \in [Daemon -> {"off", "opened", "gone"} \cup Holding]
    /\ inode \in [Daemon -> 0 .. lastFile] /\ lastFile \in Nat /\ lockPath \in 0 .. lastFile
    /\ sockPath \in Daemon \cup {None} /\ cur \in Daemon \cup {None}
    /\ conn \in [Daemon -> {"none", "accepted", "attached", "shut", "read"}]
    /\ upNow \in BOOLEAN /\ shown \in BOOLEAN /\ closed \in BOOLEAN
    /\ redial \in {"none", "waiting", "dialling"} /\ telling \in Nat
    /\ call \in [Call -> {"new", "done"} \cup Daemon]
    /\ \A d, e \in Daemon :
           place[d] \in Holding /\ place[e] \in Holding /\ inode[d] = inode[e] => d = e

(* "A connection that registered after closeClients ran would be left      *)
(* attached to a daemon that is gone, and the front end would sit there    *)
(* believing it was connected" (rpc.go): no connection is.                 *)
NobodyIsLeft ==
    \A d \in Daemon : conn[d] = "attached" => place[d] \in {"serving", "unlistened"}

(* A call that waits in a front end that is open waits for the connection  *)
(* the front end has, whose reader has not seen its end: it will be        *)
(* answered by the daemon or released by dropped, not by the timeout.      *)
SomebodyAnswers ==
    ~closed => \A c \in Call : call[c] \in Daemon => cur = call[c] /\ conn[cur] # "read"

(* "A Client reconnects by itself": if some daemon serves for good, a      *)
(* front end that was opened and stays open is attached to it for good,    *)
(* and was told so last.                                                   *)
Served == \E d \in Daemon : Listening(d)
Opened == ~closed /\ (cur # None \/ redial # "none")
Attached == cur # None /\ conn[cur] = "attached" /\ place[cur] = "serving" /\ upNow /\ shown
Reattaches == <>[](Served /\ Opened) => <>[]Attached

(* "a lock file stops a second daemon stealing the path from a running     *)
(* one" (socklock.go).                                                     *)
OneServes == \A d, e \in Daemon : place[d] = "serving" /\ place[e] = "serving" => d = e
=============================================================================
