----------------------------- MODULE ChatServer -----------------------------
(***************************************************************************)
(* The chat server at run time: one listener thread per connection         *)
(* (ClientConnection::_doListen), the operations it calls (fxserver.cpp),  *)
(* the worker threads that push presence notices (_change_online), and the *)
(* session tables they all share without a lock (UserSession).             *)
(*                                                                         *)
(* A listener locks its own connection's _send_mutex when a message has    *)
(* arrived and keeps it until the reply is sent; whoever pushes a message  *)
(* to a connection locks that connection's mutex too.  Every access to a   *)
(* table, a session, a mutex or a socket that another thread can see is a  *)
(* step of its own.                                                        *)
(***************************************************************************)
EXTENDS UserSession, FiniteSets

CONSTANTS
  Requests,    \* Requests[c]: the requests client c may send
  Closing,     \* the clients that may close their connection
  SerialLogin, \* TRUE: a client logs in only while no other login is served
  ToLoggedIn,  \* TRUE: messages are sent only to users who are logged in
  MaxReqs,     \* bound of the model: requests of one client
  NoReq        \* nothing sent

VARIABLES
  chan,    \* chan[c]: the request on its way from client c to the server
  peer,    \* client c: "none", "ready", "waiting" for a reply, or "closed"
  sent,    \* sent[c]: number of requests client c has sent
  as,      \* as[c]: the user client c has been told it is logged in as
  view,    \* view[c]: the users client c believes to be online
  listed,  \* clients that have received the online list
  got,     \* got[c]: the messages pushed to client c
  shut,    \* connections whose socket closeSocket() has shut down
  lock,    \* lock[c]: the listener that owns _send_mutex of connection c
  pc,      \* where the listener of c is
  req,     \* req[c]: the request it serves
  mine,    \* mine[c]: the session object its code holds a pointer to
  old,     \* old[c]: the session that destroySessionByUid works on
  subject, \* subject[c]: userid of _change_online
  todo,    \* todo[c]: connections _change_online has not yet visited
  work,    \* work[c]: connections whose worker thread has not finished
  target,  \* target[c]: the connection whose mutex _send_message waits for
  list,    \* list[c]: the result of getOnlineList
  fault    \* "none"; "null": the process died on a null pointer;
           \* "freed": it died using a destroyed connection

clientVars == <<chan, peer, sent, as, view, listed, got>>
localVars  == <<req, mine, old, subject, todo, work, target, list>>
vars == <<sessionVars, clientVars, shut, lock, pc, localVars, fault>>

Request ==
  [op : {"login"}, user : Users] \cup [op : {"send"}, to : Users]
    \cup [op : {"online", "other", "stub", "short"}]

Pushed == [kind : {"online", "offline", "chat"}, user : Users]

ASSUME ServerAssumption ==
  /\ Requests \in [Conns -> SUBSET Request]
  /\ Closing \subseteq Conns
  /\ SerialLogin \in BOOLEAN /\ ToLoggedIn \in BOOLEAN
  /\ MaxReqs \in Nat
  /\ NoReq \notin Request

PC == {"none", "recv", "login", "notify", "replace", "erase", "insuid",
       "inssock", "online", "lookup", "golock", "waitlock", "push", "unpush",
       "reply", "disc", "detach", "erasesock", "destroy", "gone"}

TypeOK ==
  /\ SessionTypeOK
  /\ chan \in [Conns -> Request \cup {NoReq}]
  /\ peer \in [Conns -> {"none", "ready", "waiting", "closed"}]
  /\ sent \in [Conns -> 0 .. MaxReqs]
  /\ as \in [Conns -> Users \cup {NoUser}]
  /\ view \in [Conns -> SUBSET Users]
  /\ listed \in SUBSET Conns
  /\ got \in [Conns -> SUBSET Pushed]
  /\ shut \in SUBSET Conns
  /\ lock \in [Conns -> Conns \cup {Null}]
  /\ pc \in [Conns -> PC]
  /\ req \in [Conns -> Request \cup {NoReq}]
  /\ mine \in [Conns -> Blocks \cup {Null}]
  /\ old \in [Conns -> Blocks \cup {Null}]
  /\ subject \in [Conns -> Users \cup {NoUser}]
  /\ todo \in [Conns -> Seq(Conns \cup {Null})]
  /\ work \in [Conns -> SUBSET Conns]
  /\ target \in [Conns -> Conns \cup {Null}]
  /\ list \in [Conns -> SUBSET Users]
  /\ fault \in {"none", "null", "freed"}

Init ==
  /\ SessionInit
  /\ chan = [c \in Conns |-> NoReq]
  /\ peer = [c \in Conns |-> "none"]
  /\ sent = [c \in Conns |-> 0]
  /\ as = [c \in Conns |-> NoUser]
  /\ view = [c \in Conns |-> {}]
  /\ listed = {}
  /\ got = [c \in Conns |-> {}]
  /\ shut = {}
  /\ lock = [c \in Conns |-> Null]
  /\ pc = [c \in Conns |-> "none"]
  /\ req = [c \in Conns |-> NoReq]
  /\ mine = [c \in Conns |-> Null]
  /\ old = [c \in Conns |-> Null]
  /\ subject = [c \in Conns |-> NoUser]
  /\ todo = [c \in Conns |-> <<>>]
  /\ work = [c \in Conns |-> {}]
  /\ target = [c \in Conns |-> Null]
  /\ list = [c \in Conns |-> {}]
  /\ fault = "none"

-----------------------------------------------------------------------------
(* Shorthands for the steps of listener c.                                 *)
Running     == fault = "none"
At(c, l)    == Running /\ pc[c] = l
Goto(c, l)  == pc' = [pc EXCEPT ![c] = l]
Crash(why)  == fault' = why
NoFault     == UNCHANGED fault

(* A thread dies on a null pointer, and the process with it.               *)
NullCrash ==
  /\ Crash("null")
  /\ UNCHANGED <<sessionVars, clientVars, shut, lock, pc, localVars>>

(* The socket still carries messages to the client.                        *)
Open(d) == peer[d] \in {"ready", "waiting"} /\ d \notin shut
Destroyed(d) == pc[d] = "gone"

(* recv() of MSG_PEEK returns 0 or an error.                               *)
(* Mutation: only the error is noticed.                                    *)
EofIfShut(c) == chan[c] = NoReq /\ c \in shut
Eof(c) == chan[c] = NoReq /\ (peer[c] = "closed" \/ c \in shut)

(* lock() of the listener's own connection c.                              *)
(* Mutation: the request is served without it.                             *)
NoOwnLock(c) == UNCHANGED lock
OwnLock(c) == lock[c] = Null /\ lock' = [lock EXCEPT ![c] = c]

(* unlock() of connection d.                                               *)
(* Mutation: the mutex stays locked.                                       *)
StillLocked(d) == UNCHANGED lock
Unlock(d) == lock' = [lock EXCEPT ![d] = Null]

(* closeSocket() of a session's connection, if it has one.                 *)
(* Mutation: the old connection is left open.                              *)
LeaveSocket(b) == UNCHANGED shut
CloseSocket(b) == shut' = shut \cup ({ConnOf(b)} \ {Null})

(* sendMsg of a pushed message m on connection d: delivered if the socket  *)
(* is open, else send() fails and the message is lost.                     *)
Push(d, m) ==
  IF Open(d)
  THEN /\ got' = [got EXCEPT ![d] = @ \cup {m}]
       /\ view' = [view EXCEPT ![d] = CASE m.kind = "online"  -> @ \cup {m.user}
                                        [] m.kind = "offline" -> @ \ {m.user}
                                        [] OTHER              -> @]
       /\ UNCHANGED <<chan, peer, sent, as, listed>>
  ELSE UNCHANGED clientVars

(* The same on a connection that may have been destroyed: its buffer pool  *)
(* and its descriptor are freed, so the process dies or the message is     *)
(* lost.  (That another connection meanwhile got the same descriptor is    *)
(* left out.)                                                              *)
PushMaybeFreed(d, m) ==
  IF Destroyed(d)
  THEN UNCHANGED clientVars /\ fault' \in {"none", "freed"}
  ELSE Push(d, m) /\ NoFault

-----------------------------------------------------------------------------
(* The clients and the network.                                            *)

(* ServerListener accepts a connection and starts its listener.            *)
Accept(c) ==
  /\ Running
  /\ peer[c] = "none"
  /\ peer' = [peer EXCEPT ![c] = "ready"]
  /\ Goto(c, "recv")
  /\ UNCHANGED <<sessionVars, chan, sent, as, view, listed, got, shut, lock, localVars, fault>>

LoginServed ==
  \E d \in Conns : \/ chan[d] # NoReq /\ chan[d].op = "login"
                   \/ req[d] # NoReq /\ req[d].op = "login"

(* FxClient sends one request and waits for its reply.  It logs in first,  *)
(* once; it never sends a message to its own user.                         *)
ClientRequest(c) ==
  /\ Running
  /\ peer[c] = "ready" /\ c \notin shut
  /\ sent[c] < MaxReqs
  /\ \E r \in Requests[c] :
       /\ (r.op = "login") <=> (as[c] = NoUser)
       /\ r.op = "login" /\ SerialLogin => ~LoginServed
       /\ r.op = "send" => r.to # as[c]
       /\ r.op = "send" /\ ToLoggedIn => \E d \in Conns : as[d] = r.to /\ Open(d)
       /\ chan' = [chan EXCEPT ![c] = r]
  /\ peer' = [peer EXCEPT ![c] = "waiting"]
  /\ sent' = [sent EXCEPT ![c] = @ + 1]
  /\ UNCHANGED <<sessionVars, as, view, listed, got, shut, lock, pc, localVars, fault>>

ClientClose(c) ==
  /\ Running
  /\ c \in Closing
  /\ peer[c] \in {"ready", "waiting"}
  /\ peer' = [peer EXCEPT ![c] = "closed"]
  /\ UNCHANGED <<sessionVars, chan, sent, as, view, listed, got, shut, lock, pc, localVars, fault>>

-----------------------------------------------------------------------------
(* _doListen.                                                              *)

(* recv(MSG_PEEK) finds a request; the listener takes its mutex, reads the *)
(* request and enters doOperation.                                         *)
Receive(c) ==
  /\ At(c, "recv")
  /\ chan[c] # NoReq
  /\ OwnLock(c)
  /\ req' = [req EXCEPT ![c] = chan[c]]
  /\ chan' = [chan EXCEPT ![c] = NoReq]
  /\ Goto(c, CASE chan[c].op = "login"  -> "login"
               [] chan[c].op = "online" -> "online"
               [] chan[c].op = "send"   -> "lookup"
               [] OTHER                 -> "reply")
  /\ UNCHANGED <<sessionVars, peer, sent, as, view, listed, got, shut,
                 mine, old, subject, todo, work, target, list, fault>>

(* recv finds the end of the stream, or an error: the listener waits for   *)
(* its mutex, releases it and runs the destructor.                         *)
ReceiveEof(c) ==
  /\ At(c, "recv")
  /\ Eof(c)
  /\ lock[c] = Null
  /\ Goto(c, "disc")
  /\ UNCHANGED <<sessionVars, clientVars, shut, lock, localVars, fault>>

(* What the client learns from the reply to its request.                   *)
Learn(c) ==
  /\ peer' = [peer EXCEPT ![c] = "ready"]
  /\ as' = [as EXCEPT ![c] = IF req[c].op = "login" THEN req[c].user ELSE @]
  /\ view' = [view EXCEPT ![c] = @ \cup list[c]]
  /\ listed' = IF req[c].op = "online" THEN listed \cup {c} ELSE listed

(* _doSend(returnMsg) and unlock.  The stub operations report success and  *)
(* leave returnMsg null; a message too short ends the connection.          *)
Reply(c) ==
  /\ At(c, "reply")
  /\ IF req[c].op = "stub"
     THEN NullCrash
     ELSE /\ IF Open(c) THEN Learn(c) ELSE UNCHANGED <<peer, as, view, listed>>
          /\ Unlock(c)
          /\ Goto(c, IF req[c].op = "short" THEN "disc" ELSE "recv")
          /\ req' = [req EXCEPT ![c] = NoReq]
          /\ mine' = [mine EXCEPT ![c] = Null]
          /\ old' = [old EXCEPT ![c] = Null]
          /\ target' = [target EXCEPT ![c] = Null]
          /\ list' = [list EXCEPT ![c] = {}]
          /\ UNCHANGED <<sessionVars, chan, sent, got, shut, subject, todo, work, fault>>

-----------------------------------------------------------------------------
(* _change_online.                                                         *)

(* Its beginning: the connections of all online sessions, of sess.         *)
StartNotices(c, u, sess) ==
  /\ subject' = [subject EXCEPT ![c] = u]
  /\ todo' = [todo EXCEPT ![c] = OnlineConnections(sess)]
  /\ Goto(c, "notify")

(* A connection that belongs to the user the notice is about gets none.    *)
IsSubject(c, b) == UserOf(b) = subject[c]

(* Mutation: the threads are detached instead of joined.                   *)
NoJoin(c) == TRUE
WorkersDone(c) == work[c] = {}

(* The loop: find the user of the next connection again, through the other *)
(* map; start a worker thread for it unless it is the subject's own.       *)
VisitNext(c) ==
  /\ At(c, "notify")
  /\ todo[c] # <<>>
  /\ LET d == Head(todo[c])
         b == IF d = Null THEN Null ELSE sockSession[d]
     IN  IF b \in {Null, Absent}
         THEN NullCrash
         ELSE /\ work' = [work EXCEPT ![c] =
                            IF IsSubject(c, b) THEN @ ELSE @ \cup {d}]
              /\ todo' = [todo EXCEPT ![c] = Tail(@)]
              /\ UNCHANGED <<sessionVars, clientVars, shut, lock, pc, req, mine,
                             old, subject, target, list, fault>>

(* A worker thread (___sendmsg) from lock to unlock.  What it touches in   *)
(* between is only connection d, so its critical section is one step.      *)
Worker(c, d) ==
  /\ Running
  /\ d \in work[c]
  /\ lock[d] = Null
  /\ PushMaybeFreed(d, [kind |-> IF req[c] # NoReq THEN "online" ELSE "offline",
                        user |-> subject[c]])
  /\ work' = [work EXCEPT ![c] = @ \ {d}]
  /\ UNCHANGED <<sessionVars, shut, lock, pc, req, mine, old, subject, todo,
                 target, list>>

(* All threads are joined: createSession or connectionDisconnected goes on. *)
Joined(c) ==
  /\ At(c, "notify")
  /\ todo[c] = <<>> /\ WorkersDone(c)
  /\ Goto(c, IF req[c] # NoReq THEN "replace" ELSE "detach")
  /\ subject' = [subject EXCEPT ![c] = NoUser]
  /\ UNCHANGED <<sessionVars, clientVars, shut, lock, req, mine, old, todo,
                 work, target, list, fault>>

-----------------------------------------------------------------------------
(* _login: createSession and destroySessionByUid.                          *)

(* A block is borrowed, the session constructed and set online; the notice *)
(* to the others starts before the maps know the session.                  *)
Login(c) ==
  /\ At(c, "login")
  /\ IF WalkHitsNull
     THEN NullCrash
     ELSE /\ freeBlocks # <<>>
          /\ mine' = [mine EXCEPT ![c] = Head(freeBlocks)]
          /\ freeBlocks' = Tail(freeBlocks)
          /\ session' = [session EXCEPT ![Head(freeBlocks)] = NewSession(c, req[c].user)]
          /\ StartNotices(c, req[c].user, session)
          /\ UNCHANGED <<uidSession, sockSession, clientVars, shut, lock, req, old,
                         work, target, list, fault>>

(* An earlier session of the user: shut its socket down and give its block *)
(* back, while both maps still lead to it.                                 *)
Replace(c) ==
  LET b == uidSession[req[c].user] IN
  /\ At(c, "replace")
  /\ CASE b = Absent ->
            /\ Goto(c, "insuid")
            /\ UNCHANGED <<sessionVars, clientVars, shut, lock, localVars, fault>>
       [] b = Null -> NullCrash
       [] OTHER ->
            /\ CloseSocket(b)
            /\ freeBlocks' = <<b>> \o freeBlocks
            /\ old' = [old EXCEPT ![c] = b]
            /\ Goto(c, "erase")
            /\ UNCHANGED <<uidSession, sockSession, session, clientVars, lock, req,
                           mine, subject, todo, work, target, list, fault>>

(* Erase the user, then the socket found in the restored block.            *)
EraseOld(c) ==
  /\ At(c, "erase")
  /\ uidSession' = Erase(uidSession, req[c].user)
  /\ sockSession' = IF ConnOf(old[c]) = Null THEN sockSession
                    ELSE Erase(sockSession, ConnOf(old[c]))
  /\ Goto(c, "insuid")
  /\ UNCHANGED <<session, freeBlocks, clientVars, shut, lock, localVars, fault>>

InsertUid(c) ==
  /\ At(c, "insuid")
  /\ uidSession' = Insert(uidSession, req[c].user, mine[c])
  /\ Goto(c, "inssock")
  /\ UNCHANGED <<sockSession, session, freeBlocks, clientVars, shut, lock, localVars, fault>>

(* Mutation: the socket map is not told.                                   *)
InsertSockNot(c) ==
  /\ At(c, "inssock")
  /\ Goto(c, "reply")
  /\ UNCHANGED <<sessionVars, clientVars, shut, lock, localVars, fault>>

InsertSock(c) ==
  /\ At(c, "inssock")
  /\ sockSession' = Insert(sockSession, c, mine[c])
  /\ Goto(c, "reply")
  /\ UNCHANGED <<uidSession, session, freeBlocks, clientVars, shut, lock, localVars, fault>>

-----------------------------------------------------------------------------
(* _get_online_users.                                                      *)
GetOnline(c) ==
  /\ At(c, "online")
  /\ IF WalkHitsNull
     THEN NullCrash
     ELSE /\ list' = [list EXCEPT ![c] = OnlineUsers(session)]
          /\ Goto(c, "reply")
          /\ UNCHANGED <<sessionVars, clientVars, shut, lock, req, mine, old, subject,
                         todo, work, target, fault>>

-----------------------------------------------------------------------------
(* _send_message.                                                          *)

(* getSessionByUid inserts a null pointer for a user without session.      *)
Lookup(c) ==
  LET b == SessionByUid(req[c].to) IN
  /\ At(c, "lookup")
  /\ uidSession' = Touch(uidSession, req[c].to)
  /\ IF b \in {Absent, Null}
     THEN Goto(c, "reply") /\ UNCHANGED mine
     ELSE Goto(c, "golock") /\ mine' = [mine EXCEPT ![c] = b]
  /\ UNCHANGED <<sockSession, session, freeBlocks, clientVars, shut, lock, req, old,
                 subject, todo, work, target, list, fault>>

(* s->connection() is read, and read again for each of the calls below.    *)
GoLock(c) ==
  /\ At(c, "golock")
  /\ IF ConnOf(mine[c]) = Null
     THEN NullCrash
     ELSE /\ target' = [target EXCEPT ![c] = ConnOf(mine[c])]
          /\ Goto(c, "waitlock")
          /\ UNCHANGED <<sessionVars, clientVars, shut, lock, req, mine, old, subject,
                         todo, work, list, fault>>

WaitLock(c) ==
  /\ At(c, "waitlock")
  /\ lock[target[c]] = Null
  /\ lock' = [lock EXCEPT ![target[c]] = c]
  /\ Goto(c, "push")
  /\ UNCHANGED <<sessionVars, clientVars, shut, localVars, fault>>

PushChat(c) ==
  /\ At(c, "push")
  /\ IF ConnOf(mine[c]) = Null
     THEN NullCrash
     ELSE /\ PushMaybeFreed(ConnOf(mine[c]), [kind |-> "chat", user |-> req[c].to])
          /\ Goto(c, "unpush")
          /\ UNCHANGED <<sessionVars, shut, lock, localVars>>

(* pool()->clear() and unlock().                                           *)
UnPush(c) ==
  /\ At(c, "unpush")
  /\ IF ConnOf(mine[c]) = Null
     THEN NullCrash
     ELSE /\ Unlock(ConnOf(mine[c]))
          /\ Goto(c, "reply")
          /\ UNCHANGED <<sessionVars, clientVars, shut, localVars, fault>>

-----------------------------------------------------------------------------
(* ~ClientConnection and connectionDisconnected.                           *)
Disconnect(c) ==
  LET b == sockSession[c]
      sess == Offline(b)
  IN
  /\ At(c, "disc")
  /\ CASE b = Absent ->
            /\ Goto(c, "destroy")
            /\ UNCHANGED <<sessionVars, clientVars, shut, lock, localVars, fault>>
       [] b = Null \/ (b # Absent /\ WalkHitsNull) -> NullCrash
       [] OTHER ->
            /\ session' = sess
            /\ mine' = [mine EXCEPT ![c] = b]
            /\ StartNotices(c, UserOf(b), sess)
            /\ UNCHANGED <<uidSession, sockSession, freeBlocks, clientVars, shut, lock,
                           req, old, work, target, list, fault>>

(* us->_connection = nullptr, through the pointer read before the notices. *)
Detach(c) ==
  /\ At(c, "detach")
  /\ session' = [session EXCEPT ![mine[c]].con = Null]
  /\ Goto(c, "erasesock")
  /\ UNCHANGED <<uidSession, sockSession, freeBlocks, clientVars, shut, lock, localVars, fault>>

EraseSock(c) ==
  /\ At(c, "erasesock")
  /\ sockSession' = Erase(sockSession, c)
  /\ mine' = [mine EXCEPT ![c] = Null]
  /\ Goto(c, "destroy")
  /\ UNCHANGED <<uidSession, session, freeBlocks, clientVars, shut, lock, req, old,
                 subject, todo, work, target, list, fault>>

(* The socket is closed, the buffer pool freed, the block restored.        *)
Destroy(c) ==
  /\ At(c, "destroy")
  /\ Goto(c, "gone")
  /\ peer' = [peer EXCEPT ![c] = "closed"]
  /\ UNCHANGED <<sessionVars, chan, sent, as, view, listed, got, shut, lock, localVars, fault>>

-----------------------------------------------------------------------------
(* What the threads of the server do for connection c.                     *)
Listener(c) ==
  \/ Receive(c) \/ ReceiveEof(c) \/ Reply(c)
  \/ VisitNext(c) \/ Joined(c)
  \/ Login(c) \/ Replace(c) \/ EraseOld(c) \/ InsertUid(c) \/ InsertSock(c)
  \/ GetOnline(c)
  \/ Lookup(c) \/ GoLock(c) \/ WaitLock(c) \/ PushChat(c) \/ UnPush(c)
  \/ Disconnect(c) \/ Detach(c) \/ EraseSock(c) \/ Destroy(c)

Server == \E c \in Conns : Listener(c) \/ \E d \in Conns : Worker(c, d)

Client == \E c \in Conns : Accept(c) \/ ClientRequest(c) \/ ClientClose(c)

Next == Server \/ Client

Spec == Init /\ [][Next]_vars

(* The machine keeps running some thread of the server while one can run;  *)
(* with a bounded number of requests this lets every thread go on that     *)
(* can.  Clients need never send or close.                                 *)
FairSpec == Spec /\ WF_vars(Server)

-----------------------------------------------------------------------------
(* Properties.                                                             *)

(* The listener of c has left its loop.                                    *)
Leaving(c) ==
  \/ pc[c] \in {"disc", "detach", "erasesock", "destroy", "gone"}
  \/ pc[c] = "notify" /\ req[c] = NoReq

LoggedIn(c) == as[c] # NoUser /\ Open(c) /\ ~Leaving(c)

(* A client that has been told its login succeeded, and whose socket is    *)
(* open, is what both tables lead to: its user's entry and its socket's    *)
(* entry are one session, online, with its connection.                     *)
Registered ==
  \A c \in Conns : LoggedIn(c) =>
    /\ uidSession[as[c]] \in Blocks
    /\ sockSession[c] = uidSession[as[c]]
    /\ session[sockSession[c]] = NewSession(c, as[c])

(* The online list never misses a logged-in user.                          *)
ListComplete == \A c \in Conns : LoggedIn(c) => as[c] \in OnlineUsers(session)

(* Nothing is pushed to a client before the reply to its login: its mutex  *)
(* is held from the request to the reply.                                  *)
NoEarlyPush == \A c \in Conns : as[c] = NoUser => got[c] = {}

(* Of two clients that are logged in, the later one was announced to the   *)
(* earlier one before its login was answered.                              *)
OneIsTold ==
  \A c, d \in Conns :
    LoggedIn(c) /\ LoggedIn(d) /\ as[c] # as[d]
      => \/ [kind |-> "online", user |-> as[c]] \in got[d]
         \/ [kind |-> "online", user |-> as[d]] \in got[c]

(* A chat message reaches only clients logged in as its addressee.         *)
Addressed ==
  \A c \in Conns : \A m \in got[c] : m.kind = "chat" => m.user = as[c]

(* A session object still leads to connection c.                           *)
Known(c) == \E b \in Blocks : session[b].con = c

(* A user is logged in on one connection the server knows: a second login  *)
(* has shut the first one down before it is answered.  (The destructor of  *)
(* an earlier connection may have cleared the pointer to one, through a    *)
(* session it kept while the block changed hands: Detach.)                 *)
SingleLogin ==
  \A c, d \in Conns :
    /\ LoggedIn(c) /\ LoggedIn(d) /\ as[c] = as[d]
    /\ Known(c) /\ Known(d)
    => c = d

(* Blocks of the session pool: none is free twice, and no entry of the     *)
(* user map leads to a free one, except while destroySessionByUid stands   *)
(* between the return of the block and the erasure of the entry.           *)
BlocksSound ==
  /\ IsInjective(freeBlocks)
  /\ \A u \in Users : uidSession[u] \in Range(freeBlocks) =>
       \E c \in Conns : pc[c] = "erase" /\ old[c] = uidSession[u]

(* No thread has anything to do.                                           *)
Quiet ==
  /\ fault = "none"
  /\ \A c \in Conns : \/ pc[c] \in {"none", "gone"}
                      \/ pc[c] = "recv" /\ chan[c] = NoReq /\ Open(c)

(* When the server has come to rest, a client that fetched the online list *)
(* after its login believes exactly the logged-in users to be online: list *)
(* and notices together miss no arrival and no departure.                  *)
ViewExact ==
  Quiet => \A c \in Conns : LoggedIn(c) /\ c \in listed =>
    view[c] \ {as[c]} = {as[d] : d \in {e \in Conns : LoggedIn(e)}} \ {as[c]}

(* No request, and no order of requests, ends the server process.          *)
Alive == fault = "none"

(* Every request is answered, unless its client has gone or the server has *)
(* died.                                                                   *)
Answered ==
  \A c \in Conns : peer[c] = "waiting" ~> (peer[c] # "waiting" \/ c \in shut \/ fault # "none")

(* After a client has closed its connection the server lets go of it.      *)
Released ==
  \A c \in Conns : peer[c] = "closed" ~> (pc[c] = "gone" \/ fault # "none")
=============================================================================
