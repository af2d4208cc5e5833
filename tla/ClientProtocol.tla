--------------------------- MODULE ClientProtocol ---------------------------
(***************************************************************************)
(* The chat client (client/src): the threads that send a request and take  *)
(* the next message of the stream for its reply (FxClient::login,          *)
(* getUserList, getOnline, sendMsg), the thread that listens for notices   *)
(* on the same socket (ListenThread::run), the main window they feed, and  *)
(* the local database that outlives the process.                           *)
(*                                                                         *)
(* The server answers requests in order and may send a notice between any  *)
(* two messages; what it promises is the subject of ChatServer.  Qt keeps  *)
(* what it has read from the socket in a buffer, and waitForReadyRead()    *)
(* returns only when it has read more.                                     *)
(***************************************************************************)
EXTENDS Naturals, Sequences, FiniteSets

CONSTANTS
  Self, Others,  \* the user of this client, the other users
  Listed,        \* all of them, in the order of the server's list
  Null,          \* a null pointer, a free mutex, no request
  MaxStarts, MaxMoves, MaxSends, MaxTimeouts  \* bounds of the model

Users == {Self} \cup Others
Kinds == {"login", "list", "online", "sendMsg", "toOnline", "toOffline", "chat"}
ASSUME ClientAssumption ==
  /\ IsFiniteSet(Others) /\ Self \notin Others
  /\ Null \notin Users \cup Kinds \cup {"requester", "listener"}
  /\ Listed \in Seq(Users) /\ Len(Listed) = Cardinality(Users)
  /\ {Listed[i] : i \in DOMAIN Listed} = Users
  /\ MaxStarts \in Nat /\ MaxMoves \in Nat /\ MaxSends \in Nat /\ MaxTimeouts \in Nat

VARIABLES
  link, logged, up, asked, wire, \* the network and the server
  ready,      \* messages in Qt's buffer (bytesAvailable)
  holder,     \* of _using_mutex; _operating is TRUE while there is one
  stage,      \* how far the program has come
  job, rpc,   \* the request under way and where its thread stands
  lpc,        \* where the listen thread stands
  events,     \* signals queued for the main thread
  users, online,       \* _users, ___tmp_online_user_vector
  contacts, shown,     \* ContactManager's map, the contacts shown online
  rows, stamp,         \* tables fx_user and status of the local database
  starts, moves, sends, timeouts, \* counters for the bounds
  overtaken,  \* history: a request took a message that is not its reply
  late,       \* history: a wait for a message has ended without one
  spoiled     \* history: the user list was overtaken, or cut by an exit

network  == <<link, logged, up, asked, wire>>
window   == <<users, online, contacts, shown>>
database == <<rows, stamp>>
bounds   == <<starts, moves, sends, timeouts>>
history  == <<overtaken, late, spoiled>>
vars == <<network, ready, holder, stage, job, rpc, lpc, events, window, database, bounds, history>>

Message(k, val) == [kind |-> k, val |-> val]
Messages == [kind : Kinds \cup {"finished"}, val : SUBSET Users]
Queue == Seq(Messages)

NetworkOK ==
  /\ link \in {"up", "down"} /\ logged \in BOOLEAN /\ up \subseteq Others
  /\ asked \in Seq(Kinds) /\ wire \in Queue /\ ready \in Queue /\ events \in Queue
ThreadsOK ==
  /\ holder \in {Null, "requester", "listener"}
  /\ stage \in {"off", "dialog", "list", "online", "starting", "started", "wait", "shown"}
  /\ job \in Kinds \cup {Null} /\ rpc \in {"idle", "lock", "receive", "insert", "stamp"}
  /\ lpc \in {"off", "poll", "woken", "lock", "receive", "dead"}
WindowOK ==
  /\ (users = Null \/ users \subseteq Users) /\ (online = Null \/ online \subseteq Users)
  /\ contacts \subseteq Users /\ shown \subseteq contacts /\ rows \subseteq Users
HistoryOK ==
  /\ stamp \in BOOLEAN /\ overtaken \in BOOLEAN /\ late \in BOOLEAN /\ spoiled \in BOOLEAN
BoundsOK ==
  /\ starts \in 0..MaxStarts /\ moves \in 0..MaxMoves
  /\ sends \in 0..MaxSends /\ timeouts \in 0..MaxTimeouts
TypeOK == NetworkOK /\ ThreadsOK /\ WindowOK /\ HistoryOK /\ BoundsOK

-----------------------------------------------------------------------------
(* A connection without anything on it, a process without any state.       *)
Connection(l) ==
  /\ link' = l /\ logged' = FALSE /\ asked' = <<>> /\ wire' = <<>> /\ ready' = <<>>

Process(s) ==
  /\ stage' = s /\ job' = Null /\ rpc' = "idle" /\ lpc' = "off" /\ events' = <<>>
  /\ users' = Null /\ online' = Null /\ contacts' = {} /\ shown' = {}
  /\ holder' = Null /\ overtaken' = FALSE /\ late' = FALSE

Init ==
  /\ link = "up" /\ logged = FALSE /\ up \in SUBSET Others /\ asked = <<>> /\ wire = <<>>
  /\ ready = <<>> /\ holder = Null /\ stage = "off" /\ job = Null /\ rpc = "idle"
  /\ lpc = "off" /\ events = <<>> /\ users = Null /\ online = Null
  /\ contacts = {} /\ shown = {} /\ rows = {} /\ stamp = FALSE
  /\ starts = 0 /\ moves = 0 /\ sends = 0 /\ timeouts = 0
  /\ overtaken = FALSE /\ late = FALSE /\ spoiled = FALSE

(* The process ends: a user quits, or a null pointer is used. Only the     *)
(* database stays; the rows of a list are inserted one by one.             *)
Exit ==
  /\ Process("off") /\ Connection("up")
  /\ spoiled' = (spoiled \/ (~stamp /\ rows \notin {{}, Users}))
  /\ UNCHANGED <<up, database, bounds>>

Quit == stage # "off" /\ Exit

(* main and Login; connectToHost() may find no server.                     *)
Start ==
  /\ stage = "off" /\ starts < MaxStarts
  /\ Process("dialog")
  /\ \E l \in {"up", "down"} : Connection(l)
  /\ starts' = starts + 1
  /\ UNCHANGED <<up, database, moves, sends, timeouts, spoiled>>

-----------------------------------------------------------------------------
(* The server and the other users.                                         *)

Reply(k) ==
  CASE k = "login"  -> {Message(k, {Self}), Message(k, {})}  \* welcome or refused
    [] k = "list"   -> {Message(k, Users)}
    [] k = "online" -> {Message(k, up \cup {Self})}
    [] OTHER        -> {Message(k, {})}

Answer ==
  /\ link = "up" /\ asked # <<>>
  /\ \E m \in Reply(Head(asked)) :
       /\ wire' = Append(wire, m)
       /\ logged' = (logged \/ (m.kind = "login" /\ m.val # {}))
  /\ asked' = Tail(asked)
  /\ UNCHANGED <<link, up, ready, holder, stage, job, rpc, lpc, events, window,
                 database, bounds, history>>

(* A user comes or goes, or one who is there writes to this client.        *)
Move(u) ==
  /\ moves < MaxMoves
  /\ moves' = moves + 1
  /\ \E k \in {"toOnline", "toOffline", "chat"} :
       /\ (k = "toOnline") <=> (u \notin up)
       /\ up' = CASE k = "toOnline" -> up \cup {u} [] k = "toOffline" -> up \ {u} [] OTHER -> up
       /\ wire' = IF logged THEN Append(wire, Message(k, {u})) ELSE wire
  /\ UNCHANGED <<link, logged, asked, ready, holder, stage, job, rpc, lpc, events, window,
                 database, starts, sends, timeouts, history>>

Disconnect ==
  /\ link = "up" /\ stage # "off"
  /\ link' = "down" /\ logged' = FALSE /\ asked' = <<>>
  /\ UNCHANGED <<up, wire, ready, holder, stage, job, rpc, lpc, events, window,
                 database, bounds, history>>

-----------------------------------------------------------------------------
(* Requests. The login thread runs login(), then its successor initData(): *)
(* getUserList(), getOnline(); the main thread runs sendMsg().             *)

Begin(k) ==
  /\ rpc = "idle"
  /\ CASE k = "login"   -> stage = "dialog"
       [] k = "sendMsg" -> stage = "shown" /\ sends < MaxSends
       [] OTHER         -> stage = k
  /\ job' = k /\ rpc' = "lock"
  /\ sends' = IF k = "sendMsg" THEN sends + 1 ELSE sends
  /\ UNCHANGED <<network, ready, holder, stage, lpc, events, window, database,
                 starts, moves, timeouts, history>>

(* getOnline() takes no lock, and gives it back.                           *)
Locks(k) == k # "online"
MayLock(k) == Locks(k) => holder = Null

(* The calling thread goes on to the next stage, with or without an answer.*)
After(k, ok) == CASE k = "login"  -> IF ok THEN "list" ELSE "dialog"
                  [] k = "list"   -> "online"
                  [] k = "online" -> "starting"
                  [] OTHER        -> stage

Return(ok) ==
  /\ stage' = After(job, ok)
  /\ holder' = Null /\ job' = Null /\ rpc' = "idle"

(* lock() and send(). A message of too many packages is not sent, which    *)
(* send() does not tell; a write to a lost connection fails.               *)
Request ==
  /\ rpc = "lock" /\ MayLock(job)
  /\ job = "list" => ~stamp
  /\ IF link = "down"
     THEN Return(FALSE) /\ UNCHANGED <<asked, late>>
     ELSE /\ holder' = IF Locks(job) THEN "requester" ELSE holder
          /\ rpc' = "receive"
          /\ \/ asked' = Append(asked, job) /\ UNCHANGED late
             \/ job = "sendMsg" /\ late' = TRUE /\ UNCHANGED asked
          /\ UNCHANGED <<stage, job>>
  /\ UNCHANGED <<link, logged, up, wire, ready, lpc, events, window, database, bounds,
                 overtaken, spoiled>>

(* getUserList() with a date of the last update: the local rows are taken. *)
ReadDatabase ==
  /\ rpc = "lock" /\ MayLock(job) /\ job = "list" /\ stamp
  /\ users' = rows
  /\ Return(TRUE)
  /\ UNCHANGED <<network, ready, lpc, events, online, contacts, shown, database, bounds, history>>

(* whileread() has Qt read when there are too few bytes.                   *)
ReadMore ==
  /\ rpc = "receive" \/ lpc = "receive"
  /\ ready = <<>> /\ wire # <<>>
  /\ ready' = wire /\ wire' = <<>>
  /\ UNCHANGED <<link, logged, up, asked, holder, stage, job, rpc, lpc, events, window,
                 database, bounds, history>>

(* A refused login deletes the connection; the next one makes another.     *)
Refused ==
  /\ \E l \in {"up", "down"} : Connection(l)
  /\ Return(FALSE)
  /\ UNCHANGED <<up, users, online, spoiled>>

(* What each request makes of message m, the next one in the stream.       *)
TakeLogin(m) ==
  IF m.kind = "login" /\ m.val # {}
  THEN Return(TRUE) /\ ready' = Tail(ready) /\ UNCHANGED <<network, users, online, spoiled>>
  ELSE Refused

TakeList(m) ==
  /\ users' = IF m.kind = "list" THEN m.val ELSE users
  /\ rpc' = IF m.kind = "list" /\ rows = {} THEN "insert" ELSE "stamp"
  /\ spoiled' = (spoiled \/ m.kind # "list")
  /\ ready' = Tail(ready)
  /\ UNCHANGED <<network, online, holder, stage, job>>

TakeOnline(m) ==
  /\ online' = CASE m.kind = "online" -> m.val
                 [] m.kind = "list"   -> {}   \* objects, read as the number 0
                 [] OTHER             -> online
  /\ ready' = Tail(ready)
  /\ Return(TRUE)
  /\ UNCHANGED <<network, users, spoiled>>

TakeSent(m) ==
  Return(TRUE) /\ ready' = Tail(ready) /\ UNCHANGED <<network, users, online, spoiled>>

Take ==
  /\ rpc = "receive" /\ ready # <<>>
  /\ overtaken' = (overtaken \/ Head(ready).kind # job)
  /\ CASE job = "login"  -> TakeLogin(Head(ready))
       [] job = "list"   -> TakeList(Head(ready))
       [] job = "online" -> TakeOnline(Head(ready))
       [] OTHER          -> TakeSent(Head(ready))
  /\ UNCHANGED <<lpc, events, contacts, shown, database, bounds, late>>

(* No message for 4 seconds. The header is then what the buffer held: of a *)
(* body that does not come either (an error), or of none (an empty message,*)
(* in which getUserList and getOnline follow a null pointer).              *)
Waited == /\ ready = <<>> /\ wire = <<>>
          /\ asked # <<>> => timeouts < MaxTimeouts
Count  == timeouts' = IF asked # <<>> THEN timeouts + 1 ELSE timeouts

TimeOut ==
  /\ rpc = "receive" /\ Waited
  /\ \/ /\ Count /\ late' = TRUE
        /\ IF job = "login"
           THEN Refused
           ELSE Return(FALSE) /\ UNCHANGED <<network, ready, users, online, spoiled>>
        /\ UNCHANGED <<lpc, events, contacts, shown, database, starts, moves, sends, overtaken>>
     \/ job \in {"list", "online"} /\ Exit

(* Mutation: the batch ends after its first row.                           *)
InsertOne ==
  /\ rpc = "insert"
  /\ rows' = rows \cup {Listed[Cardinality(rows) + 1]}
  /\ rpc' = "stamp"
  /\ UNCHANGED <<network, ready, holder, stage, job, lpc, events, window, stamp, bounds, history>>

(* addUsers inserts row by row and stops at one that is there already;     *)
(* its result is not looked at before the date of the update is set.       *)
Insert ==
  /\ rpc = "insert"
  /\ rows' = rows \cup {Listed[Cardinality(rows) + 1]}
  /\ rpc' = IF rows' = Users THEN "stamp" ELSE rpc
  /\ UNCHANGED <<network, ready, holder, stage, job, lpc, events, window, stamp, bounds, history>>

Stamp ==
  /\ rpc = "stamp"
  /\ stamp' = TRUE
  /\ Return(TRUE)
  /\ UNCHANGED <<network, ready, lpc, events, window, rows, bounds, history>>

-----------------------------------------------------------------------------
(* ListenThread::run.                                                      *)

(* Mutation: the thread is started before getOnline().                     *)
StartListenEarly ==
  /\ stage \in {"online", "starting"} /\ lpc = "off"
  /\ stage' = (IF stage = "starting" THEN "started" ELSE stage) /\ lpc' = "poll"
  /\ UNCHANGED <<network, ready, holder, job, rpc, events, window, database, bounds, history>>

(* initData starts the thread; the signal that it has ended is queued by   *)
(* the thread that ran it.                                                 *)
StartListenMsg ==
  /\ stage = "starting"
  /\ stage' = "started" /\ lpc' = "poll"
  /\ UNCHANGED <<network, ready, holder, job, rpc, events, window, database, bounds, history>>

Finished ==
  /\ stage = "started"
  /\ stage' = "wait" /\ events' = Append(events, Message("finished", {}))
  /\ UNCHANGED <<network, ready, holder, job, rpc, lpc, window, database, bounds, history>>

(* waitForReadyRead(-1): new data, or no connection.                       *)
Wake ==
  /\ lpc = "poll"
  /\ wire # <<>> \/ (link = "down" /\ ready # <<>>)
  /\ ready' = ready \o wire /\ wire' = <<>>
  /\ lpc' = "woken"
  /\ UNCHANGED <<link, logged, up, asked, holder, stage, job, rpc, events, window,
                 database, bounds, history>>

(* Mutation: haveMsg() is not asked again.                                 *)
CheckBlind ==
  /\ lpc = "woken"
  /\ lpc' = IF holder # Null THEN "poll" ELSE "lock"
  /\ UNCHANGED <<network, ready, holder, stage, job, rpc, events, window, database, bounds, history>>

(* operating() and haveMsg(), without the lock.                            *)
Check ==
  /\ lpc = "woken"
  /\ lpc' = IF holder # Null \/ ready = <<>> THEN "poll" ELSE "lock"
  /\ UNCHANGED <<network, ready, holder, stage, job, rpc, events, window, database, bounds, history>>

ListenLock ==
  /\ lpc = "lock" /\ holder = Null
  /\ holder' = "listener" /\ lpc' = "receive"
  /\ UNCHANGED <<network, ready, stage, job, rpc, events, window, database, bounds, history>>

(* Mutation: unlock() is forgotten when a message has been handed on.      *)
KeepLock == lpc' = "poll" /\ UNCHANGED holder

ListenUnlock == lpc' = "poll" /\ holder' = Null

(* A notice becomes a signal, another message is dropped.                  *)
ListenTake ==
  /\ lpc = "receive" /\ ready # <<>>
  /\ events' = IF Head(ready).kind \in {"toOnline", "toOffline", "chat"}
               THEN Append(events, Head(ready)) ELSE events
  /\ ready' = Tail(ready)
  /\ ListenUnlock
  /\ UNCHANGED <<network, stage, job, rpc, window, database, bounds, history>>

(* As TimeOut: an error ends the thread, with the mutex locked; an empty   *)
(* message is dropped, or taken for a notice without a user.               *)
ListenTimeOut ==
  /\ lpc = "receive" /\ Waited
  /\ \/ /\ Count /\ late' = TRUE
        /\ (lpc' = "dead" /\ UNCHANGED holder) \/ ListenUnlock
        /\ UNCHANGED <<network, ready, stage, job, rpc, events, window, database,
                       starts, moves, sends, overtaken, spoiled>>
     \/ Exit

-----------------------------------------------------------------------------
(* The main thread handles one signal, when it is not in sendMsg().        *)

ShownFirst == {u \in users : u = Self \/ u \in online}

(* initUi: a contact per user, online if the vector says so.               *)
InitUi ==
  IF users = Null \/ (online = Null /\ users \ {Self} # {})
  THEN Exit
  ELSE /\ contacts' = users
       /\ shown' = ShownFirst
       /\ stage' = "shown" /\ events' = Tail(events)
       /\ UNCHANGED <<network, ready, holder, job, rpc, lpc, users, online, database, bounds, history>>

(* toOnline, toOffline: the contact of a user who is not in the map is a   *)
(* null pointer.                                                           *)
(* Mutation: toOffline handled as toOnline.                                *)
ShowOnline(e) == shown' = shown \cup e.val
Show(e) == shown' = IF e.kind = "toOnline" THEN shown \cup e.val ELSE shown \ e.val

Presence(e) ==
  IF e.val \subseteq contacts
  THEN /\ Show(e) /\ events' = Tail(events)
       /\ UNCHANGED <<network, ready, holder, stage, job, rpc, lpc, users, online, contacts,
                      database, bounds, history>>
  ELSE Exit

(* receiveMsg looks the sender's name up and shows the text.               *)
ShowChat ==
  IF users = Null
  THEN Exit
  ELSE /\ events' = Tail(events)
       /\ UNCHANGED <<network, ready, holder, stage, job, rpc, lpc, window, database, bounds, history>>

Event ==
  /\ events # <<>> /\ job # "sendMsg"
  /\ CASE Head(events).kind = "finished" -> InitUi
       [] Head(events).kind = "chat"     -> ShowChat
       [] OTHER                          -> Presence(Head(events))

-----------------------------------------------------------------------------
Begins   == \E k \in {"login", "list", "online", "sendMsg"} : Begin(k)
Requests == Request \/ ReadDatabase \/ Take \/ TimeOut \/ Insert \/ Stamp
Listens  == Wake \/ Check \/ ListenLock \/ ListenTake \/ ListenTimeOut

Next ==
  \/ Start \/ Quit \/ Answer \/ Disconnect \/ \E u \in Others : Move(u)
  \/ Begins \/ Requests \/ ReadMore
  \/ StartListenMsg \/ Finished \/ Listens
  \/ Event

(* Threads go on when they can, the network and the server work; nobody    *)
(* is obliged to log in, to write, to come or to go.                       *)
Fairness ==
  /\ WF_vars(Answer) /\ WF_vars(ReadMore) /\ WF_vars(Requests)
  /\ WF_vars(Listens) /\ WF_vars(Event)
Spec == Init /\ [][Next]_vars /\ Fairness

-----------------------------------------------------------------------------
(* getOnline() gives back a mutex it has not taken (fxclient.cpp:252); it  *)
(* is nobody else's at that time, in particular not the listen thread's.   *)
OwnUnlock == job = "online" => holder = Null /\ lpc = "off"

(* haveMsg() is asked without the lock, and a request may take the message *)
(* it has seen (fxclient.cpp:427-435). The listen thread still never waits *)
(* for nothing: while every wait has been answered, another message is     *)
(* there or due, apart from the one that the request under way will take.  *)
ListenerFed ==
  lpc \in {"lock", "receive"} /\ ~late /\ link = "up" =>
    Len(ready) + Len(wire) + Len(asked) > (IF rpc = "receive" THEN 1 ELSE 0)

(* If no message came late and none but its reply was taken by a request,  *)
(* then, when all that was sent has been handled, the window shows online  *)
(* the users who are, list and notices taken together.                     *)
Quiet == wire = <<>> /\ ready = <<>> /\ events = <<>> /\ lpc \notin {"receive", "dead"}
ViewCurrent ==
  stage = "shown" /\ logged /\ Quiet /\ ~overtaken /\ ~late =>
    shown \cap Others = up \cap contacts

(* The local database is trusted from the date of the update on            *)
(* (fxclient.cpp:188). A client that ends at any point and starts again    *)
(* has all users in it then, unless it ended within addUsers or took       *)
(* another message for the list.                                           *)
CacheComplete == stamp /\ ~spoiled => rows = Users

(* A request ends, with its reply or without, while the listen thread does *)
(* not end with the mutex (fxclient.cpp:438).                              *)
RequestEnds == (rpc # "idle" /\ lpc # "dead") ~> (rpc = "idle" \/ lpc = "dead")
=============================================================================
