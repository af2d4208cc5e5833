------------------------------- MODULE Server -------------------------------
(***************************************************************************)
(* The life of the server's connections: the acceptor on the main thread   *)
(* (serverlistener.cpp) builds a connection in a borrowed block and starts *)
(* its listener, which serves logins through the database pool and, at the *)
(* end of the stream, runs the destructor of its own object                *)
(* (clientconnection.cpp:41-54); SIGTERM interrupts the main thread and    *)
(* takes the pool of blocks away (main.cpp:55-69). What a connection       *)
(* serves besides, and notices to others, are the subject of ChatServer.   *)
(***************************************************************************)
EXTENDS MysqlPool, Sequences

CONSTANTS
  Fds,    \* descriptors of accepted sockets, numbers
  Blocks, \* of the acceptor's pool, in the order it lends them
  Asking, \* bound: connections whose clients log in
  None

(* A connection is named by its listener thread.                           *)
Conns == Threads
BlockSet == {Blocks[i] : i \in DOMAIN Blocks}
ASSUME ServerAssumption ==
  /\ Blocks \in Seq(BlockSet)
  /\ \A i, j \in DOMAIN Blocks : Blocks[i] = Blocks[j] => i = j
  /\ Fds \subseteq Nat /\ None \notin Fds \cup BlockSet \cup Conns

VARIABLES
  process,  \* "runs", or how it ended
  main,     \* where the main thread stands
  cur,      \* the connection the acceptor works on
  pc,       \* where the listener of a connection stands
  fd,       \* _sockfd; None after a failed accept()
  block,    \* the block of the connection
  free,     \* the stack of the pool of blocks
  openFds,  \* descriptors in use
  closed,   \* connections whose client has gone
  sessions, \* _sockfd_session_map: descriptor to the connection logged in
  joinable  \* blocks whose _listener_t holds a thread that is not detached
connVars == <<fd, block, free, openFds, closed, sessions, joinable>>
vars == <<process, main, cur, pc, connVars, mysqlVars>>

Init ==
  /\ MysqlInit
  /\ process = "runs" /\ main = "accept" /\ cur = None
  /\ pc = [c \in Conns |-> "none"] /\ fd = [c \in Conns |-> None]
  /\ block = [c \in Conns |-> None] /\ free = Blocks
  /\ openFds = {} /\ closed = {} /\ sessions = [f \in Fds |-> None] /\ joinable = {}

Goto(c, p) == pc' = [pc EXCEPT ![c] = p]

(* The process ends, and all it had with it.                               *)
End(how) ==
  /\ process' = how
  /\ main' = "accept" /\ cur' = None /\ free' = Blocks /\ openFds' = {} /\ closed' = {}
  /\ pc' = [c \in Conns |-> "none"] /\ fd' = [c \in Conns |-> None]
  /\ block' = [c \in Conns |-> None] /\ sessions' = [f \in Fds |-> None] /\ joinable' = {}
  /\ count' = 0 /\ phase' = [t \in Threads |-> "none"] /\ reg' = [t \in Threads |-> 0]
  /\ overlapped' = FALSE
Crash == End("crashed")

-----------------------------------------------------------------------------
(* ServerListener::startListener.                                          *)

(* accept() gives the lowest descriptor that is free, or fails, which is   *)
(* only logged.                                                            *)
Lowest == {f \in Fds \ openFds : \A g \in Fds \ openFds : f <= g}
Unused == {c \in Conns : pc[c] = "none"}

Accept ==
  /\ main = "accept" /\ main' = "build" /\ Unused # {}
  /\ \E f \in Lowest \cup {None} : LET c == CHOOSE c \in Unused : TRUE IN
       /\ cur' = c /\ fd' = [fd EXCEPT ![c] = f]
       /\ openFds' = openFds \cup ({f} \ {None})
  /\ UNCHANGED <<process, pc, block, free, closed, sessions, joinable, mysqlVars>>

(* borrow(), the constructor with an empty _listener_t, setRestoreFunc();  *)
(* the thread may run to its end before it is assigned or detached.        *)
Build ==
  /\ main = "build" /\ main' = "assign"
  /\ free # <<>>
  /\ block' = [block EXCEPT ![cur] = Head(free)]
  /\ joinable' = joinable \ {Head(free)}
  /\ free' = Tail(free)
  /\ Goto(cur, "recv")
  /\ UNCHANGED <<process, cur, fd, openFds, closed, sessions, mysqlVars>>

Assign ==
  /\ main = "assign" /\ main' = "detach"
  /\ joinable' = joinable \cup {block[cur]}
  /\ UNCHANGED <<process, cur, pc, fd, block, free, openFds, closed, sessions, mysqlVars>>

Detach ==
  /\ main = "detach" /\ main' = "accept"
  /\ joinable' = joinable \ {block[cur]} /\ cur' = None
  /\ UNCHANGED <<process, pc, fd, block, free, openFds, closed, sessions, mysqlVars>>

Acceptor == Accept \/ Build \/ Assign \/ Detach

-----------------------------------------------------------------------------
(* _doListen.                                                              *)

Serving == {"recv", "login", "refused"}

Leave(c) ==
  /\ pc[c] \in Serving /\ c \notin closed
  /\ closed' = closed \cup {c}
  /\ UNCHANGED <<process, main, cur, pc, fd, block, free, openFds, sessions, joinable, mysqlVars>>

(* A login asks the database; until its connection is given back it is not *)
(* answered. (A second login on a connection is left out.)                 *)
Login(c) ==
  /\ c \in Asking /\ pc[c] = "recv" /\ c \notin closed /\ fd[c] # None /\ sessions[fd[c]] = None
  /\ Call(c) /\ Goto(c, "login")
  /\ UNCHANGED <<process, main, cur, connVars>>

Grab(c) ==
  /\ pc[c] = "login"
  /\ Pass(c) \/ IncRead(c) \/ IncWrite(c)
  /\ UNCHANGED <<process, main, cur, pc, connVars>>

(* The database refuses a connection: the exception of grab() is caught by *)
(* nobody.                                                                 *)
NoDatabase(c) == phase[c] = "use" /\ Crash

Query(c) ==
  /\ pc[c] = "login"
  /\ \E ok \in BOOLEAN : Use(c, ok) /\ Goto(c, IF ok THEN "login" ELSE "refused")
  /\ UNCHANGED <<process, main, cur, connVars>>

Release(c) ==
  /\ DecRead(c) \/ DecWrite(c)
  /\ UNCHANGED <<process, main, cur, pc, connVars>>

(* The name and password were right: a session, under the descriptor. Or   *)
(* they were not: the client deletes its connection (fxclient.cpp:117).    *)
Answer(c) ==
  /\ pc[c] \in {"login", "refused"} /\ phase[c] = "none"
  /\ Goto(c, "recv")
  /\ IF pc[c] = "login"
     THEN sessions' = [sessions EXCEPT ![fd[c]] = c] /\ UNCHANGED closed
     ELSE closed' = closed \cup {c} /\ UNCHANGED sessions
  /\ UNCHANGED <<process, main, cur, fd, block, free, openFds, joinable, mysqlVars>>

-----------------------------------------------------------------------------
(* ~ClientConnection, in the order of its statements; at the end the       *)
(* members are destroyed, _listener_t once more.                           *)
(* Mutation: the socket is closed first.                                   *)
CloseFirst == <<"close", "disconnected", "thread", "restore", "members", "gone">>
Destructor == <<"disconnected", "thread", "close", "restore", "members", "gone">>

Statement(c, s) ==
  \E i \in 1..Len(Destructor) - 1 :
    Destructor[i] = s /\ pc[c] = s /\ Goto(c, Destructor[i + 1])

EndOfStream(c) ==
  /\ pc[c] = "recv" /\ (c \in closed \/ fd[c] = None)
  /\ Goto(c, Destructor[1])
  /\ UNCHANGED <<process, main, cur, connVars, mysqlVars>>

(* UserSession::connectionDisconnected.                                    *)
Disconnected(c) ==
  /\ Statement(c, "disconnected")
  /\ sessions' = [f \in Fds |-> IF f = fd[c] THEN None ELSE sessions[f]]
  /\ UNCHANGED <<process, main, cur, fd, block, free, openFds, closed, joinable, mysqlVars>>

(* ~thread() of what is in the block: std::terminate() if it is joinable.  *)
EndThread(c, s) ==
  IF block[c] \in joinable
  THEN pc[c] = s /\ Crash
  ELSE Statement(c, s) /\ UNCHANGED <<process, main, cur, connVars, mysqlVars>>

Close(c) ==
  /\ Statement(c, "close")
  /\ openFds' = openFds \ {fd[c]}
  /\ UNCHANGED <<process, main, cur, fd, block, free, closed, sessions, joinable, mysqlVars>>

(* Mutation: the block is not given back.                                  *)
KeepBlock(b) == UNCHANGED free

GiveBack(b) == free' = <<b>> \o free

(* ServerListener::restore, through the pointer to the only instance.      *)
Restore(c) ==
  IF main = "exit"
  THEN pc[c] = "restore" /\ Crash
  ELSE /\ Statement(c, "restore")
       /\ GiveBack(block[c])
       /\ UNCHANGED <<process, main, cur, fd, block, openFds, closed, sessions, joinable, mysqlVars>>

Listener(c) ==
  \/ Login(c) \/ Grab(c) \/ NoDatabase(c) \/ Query(c) \/ Release(c) \/ Answer(c)
  \/ EndOfStream(c) \/ Disconnected(c) \/ EndThread(c, "thread") \/ Close(c)
  \/ Restore(c) \/ EndThread(c, "members")

-----------------------------------------------------------------------------
(* handleSigterm, on the main thread, which goes no further: it destroys   *)
(* the pool of blocks and forgets the instance, then exits.                *)
Sigterm ==
  /\ main # "exit" /\ main' = "exit" /\ cur' = None
  /\ UNCHANGED <<process, pc, connVars, mysqlVars>>
Exit == main = "exit" /\ End("quit")

Next ==
  /\ process = "runs"
  /\ \/ Acceptor \/ Sigterm \/ Exit
     \/ \E c \in Conns : Listener(c) \/ Leave(c)

(* Some thread that can go on does; clients need not log in or leave.      *)
Works(c) == \/ Grab(c) \/ Query(c) \/ Release(c) \/ Answer(c) \/ EndOfStream(c)
            \/ Disconnected(c) \/ EndThread(c, "thread") \/ Close(c) \/ Restore(c)
            \/ EndThread(c, "members")
Fairness == WF_vars(process = "runs" /\ \E c \in Conns : Works(c))
Spec == Init /\ [][Next]_vars /\ Fairness

-----------------------------------------------------------------------------
TypeOK ==
  /\ MysqlTypeOK
  /\ process \in {"runs", "quit", "crashed"}
  /\ main \in {"accept", "build", "assign", "detach", "exit"}
  /\ cur \in Conns \cup {None}
  /\ pc \in [Conns -> Serving \cup {"none", "disconnected", "thread", "close", "restore",
                                    "members", "gone"}]
  /\ fd \in [Conns -> Fds \cup {None}] /\ block \in [Conns -> BlockSet \cup {None}]
  /\ free \in Seq(BlockSet) /\ openFds \subseteq Fds /\ closed \subseteq Conns
  /\ sessions \in [Fds -> Conns \cup {None}] /\ joinable \subseteq BlockSet

(* A descriptor number is used again as soon as it is closed. A session in *)
(* the table of descriptors belongs to the connection that has the number  *)
(* now and lives: nobody's session is found, or erased, under a number     *)
(* that has passed to another (clientconnection.cpp:44-46).                *)
FdOwner ==
  \A f \in Fds : sessions[f] # None =>
    LET c == sessions[f]
    IN  f \in openFds /\ fd[c] = f /\ pc[c] \in Serving \cup {"disconnected"}

(* However accepts, ends of streams and the signal meet, each block is     *)
(* lent to one connection that has not given it back, or free, once.       *)
Lent(c) == block[c] # None /\ pc[c] \notin {"members", "gone"}
BlocksSound ==
  \A b \in BlockSet :
    Cardinality({c \in Conns : Lent(c) /\ block[c] = b})
      + Cardinality({i \in DOMAIN free : free[i] = b}) = 1

(* Connections whose clients have gone are let go, however many queries    *)
(* fail meanwhile and however many wait for the database, unless the       *)
(* server ends or the count of database connections was torn.              *)
Gone(c) == pc[c] = "gone"
Ends == []<>(closed \subseteq {c \in Conns : Gone(c)} \/ process # "runs" \/ overlapped)
=============================================================================
