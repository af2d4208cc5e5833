# A verification model of the FXChat server and client

FXChat is a chat system: a C++ server (`server/src`) that keeps one listener
thread per client connection, and a Qt client (`client/src`). This directory
holds TLA+ models of its concurrent core, its allocators, its wire protocol and
its client, the TLC runs that check them, and TLAPS proofs of the safety
properties those runs check. `PROJECT.json` is the index: components, runs, the source lines each
definition stands for, findings, hazards, theorems.

## 1. The system

| Component | State | Operations | Talks to |
|---|---|---|---|
| `BlockedMemoryPool` | stack of free blocks, next pool, mutex | borrow, restore, clear | called by acceptor (connections) and listeners (sessions, destructors) |
| `LinearMemoryPool` | bump pointer, next pool; "non thread safe" | borrow, clear | one per connection, used by its listener and by every thread that pushes to it |
| `UserSession` | map by user id, map by socket, session objects, pool; no lock | create, destroy, disconnect, lookups, online list | FxServer, ClientConnection's destructor |
| `ClientConnection` | socket, send mutex, buffer pool, listener thread | `_doListen`, `_doRead`, `_doParse`, `_doSend`, close, destructor | FxServer, UserSession, the acceptor's pool |
| `FxServer` | none | login, user list, online list, send message, presence notices, four empty operations | UserSession, UserManager, other connections |
| `ServerListener`, `main` | listening socket, pool of connections | accept loop, restore, clear on SIGTERM | ClientConnection |
| `FxMessage` | parameter list, body length | `toPackages`, `_make_header`, `bodyStr` | both ends of the wire |
| `fxcjson` | none; memory from a buffer pool | print a list, parse a text | FxServer prints, FxClient parses |
| `MysqlConnectionPool`, `MysqlConnector`, `UserManager` | count of connections in use | grab, release; queries | called by listeners at login, list and send |
| `Config` | key/value map | load, get | all |
| Client: `FxConnection`, `FxClient`, `ListenThread` | socket, mutex, buffer pool | requests with reply, listening for notices | server, main window |
| Client: main window, login, chat window, `ClientDB` | contacts shown, SQLite tables | presence view, cached user list, chat log | FxClient |

How they interact. The acceptor borrows a block, constructs a
`ClientConnection` in it and starts its listener. The listener waits for a
message, locks the connection's `_send_mutex`, calls `FxServer::doOperation`,
sends the reply, unlocks, and clears the connection's buffer pool. An operation
may reach *other* connections: a login or a disconnection starts a worker thread
for each connection online, which locks that connection's mutex and pushes a
notice; a chat message is pushed by the sender's listener itself. The session
tables are shared by all listeners with no lock at all. When the stream ends the
listener runs the destructor of its own connection, which gives the block it
lives in back to the acceptor. In the client, requests and the listen thread
take turns on one socket by one mutex; what is received goes to the main thread
as a queue of signals.

What is hard, and what each component must guarantee:

* **Mutexes of connections** are taken while another one is held (own first,
  then the addressee's or, through joined workers, everybody's): every request
  is answered (`Answered`), a closed connection is let go (`Released`).
* **Session tables**: every access is its own step. A login that was answered is
  in both tables with its connection (`Registered`), of the connections that a
  session still points to a user has one (`SingleLogin`), blocks are not free while
  the user map leads to them (`BlocksSound`), the list misses nobody
  (`ListComplete`).
* **Presence**: list and notices are two sources of one view. Of two users one
  is told of the other (`OneIsTold`), at rest every view is exact (`ViewExact`),
  nothing is pushed before the login reply (`NoEarlyPush`).
* **Messages** reach only their addressee (`Addressed`); no request ends the
  server (`Alive`).
* **Block pool**: one user per block, no leak, no needless growth, no deadlock
  in the chain of mutexes (`NoDoubleLend`, `NothingLost`, `GrowthBound`,
  `RootReleased`).
* **Buffer pool**: no byte is lent twice (`ChunksDisjoint`), none behind the
  buffer (`ChunksInside`), also while the listener clears the pool it no longer
  has the mutex for; who has the mutex keeps its memory (`SectionSafe`), nothing
  is carried over to the next message (`StartsEmpty`), the packages of two
  messages do not mix (`Whole`).
* **Text of messages**: the scanner finds the fields that were written
  (`TextReceived`), a printed list fits the memory borrowed for it (`TextFits`)
  and is read back as the list (`ReplyReceived`).
* **Wire protocol**: the packages of a message tile its buffer (`Paged`), a
  reader stays within the buffer it borrowed (`InBuffer`), what is read is what
  was sent (`Intact`), and it is read (`Delivered`).
* **Life of a connection**: one owner per block (`BlocksSound` of `Server`) and
  per descriptor (`FdOwner`), the count of database connections is exact
  (`CountExact`), and a connection whose client is gone ends (`Ends`).
* **Client**: a request ends (`RequestEnds`), the listen thread does not wait
  for a message that somebody else took (`ListenerFed`), the mutex is given back
  by who may (`OwnUnlock`), the window shows who is online (`ViewCurrent`), and a
  user list is complete from the date of its update on, wherever the program was
  cut off (`CacheComplete`).

## 2. Modules

Definitions whose comment begins with "Mutation" are faulty variants of the
definition that follows; each property is shown to fail when its variant takes
the place of the original.

Server, memory:

* `BlockLending` - the abstract allocator: a set of blocks per thread, lent
  first pool first, given back by who has them.
* `BlockedMemoryPool` - the code: arrays `borrowable`, counters `avaliable`, the
  chain `npools`, the mutexes, and a program counter per thread. `Enter` is
  `_operating.lock()`; `BorrowHere`, `BorrowNext`, `RestoreHere`, `RestoreNext`,
  `RestoreDelete` are the branches of `borrow()` and `restore()`; `Leave` is the
  unlock and the return into the calling pool. An address is a pair of pool and
  slot, or foreign.
* `LinearMemoryPool` - the buffer of a connection: `parts` is the chain with the
  size and the pointer of each part, `chunks` is what was lent since `clear()`.
  Here `borrow()` and `clear()` are atomic.
* `SendPath` extends it by who calls it, step by step: `Lock`, `Look`/`Take` (the
  walk of `borrow()`), `Send`/`EndSend` (`_doSend`), `Drop`/`Reset` (the two
  halves of `clear()`), `Unlock`. The listener unlocks first and clears then
  (clientconnection.cpp:123-125); a thread that pushes clears first.
* `Requests` - what the server makes of a request: `Handle` gives the answer of
  each operation, what it borrows in which order, and how many packages it sends.
* `RequestPath` - `SendPath` with a listener that serves `Requests`: every section
  of it is `Handle` of a message that a program wrote and of what the database and
  the session tables hold (`RequestAssumption`). `MCSendPath` is its instance.

Server, run time:

* `UserSession` - the session tables and their accesses as operators.
* `ChatServer` - clients, listeners, operations and workers over `UserSession`.
  `pc[c]` is where the listener of connection c stands; one action per access
  that another thread can observe. `Receive`/`ReceiveEof`/`Reply` are
  `_doListen`; `Login`, `Replace`, `EraseOld`, `InsertUid`, `InsertSock` are
  `createSession` with `destroySessionByUid`; `VisitNext`, `Worker`, `Joined` are
  `_change_online`; `Lookup`, `GoLock`, `WaitLock`, `PushChat`, `UnPush` are
  `_send_message`; `Disconnect`, `Detach`, `EraseSock`, `Destroy` are the
  destructor. A `std::map` entry is absent, a block, or null, since `operator[]`
  inserts null.
* `MysqlPool` - `grab()` and `release()`: the test of the count (`Pass`), and the
  increment and decrement as a read and a write each (`IncRead`, `IncWrite`,
  `DecRead`, `DecWrite`); the count wraps at `Word`.
* `Server` extends it by the life of a connection: `Accept`, `Build`, `Assign`,
  `Detach` are the acceptor's loop with the `std::thread` it keeps in the block;
  `Login` to `Answer` a login through the database pool; `Disconnected`,
  `EndThread`, `Close`, `Restore` the statements of the destructor and of the
  members' destructors after it; `Sigterm`, `Exit` the signal handler.

Wire:

* `HeaderCodec` - the two bytes of a number in a header: `Put` writes (through
  `htons` and `_make_header`), `Get` reads (signed chars, `ntohs`).
* `Packaging` - `toPackages`: one step per call of `_add_to_body`, `Cross` at a
  border (with its recursion as the next step), `Fit` otherwise; `buffer`,
  `packages` and `plengths` are the code's.
* `WireProtocol` - `Packaging` composed with the stream and a reader: `Send...` is
  `FxConnection::send` and `_doSend`, `Arrive` the network, `Read...` is `_doRead`
  of the server (`recv()` gives what is there) or of the client (`whileread`
  waits for all or times out), chosen by `reader`. `got` is what `_doRead` returned.
* `Characters` - the characters (`Chars`), texts, and fields of a message.
* `MessageText` - what `FxMessage` writes as the text of a body, and the scanner
  of `_doParse` (the same on both sides), character by character.
* `JsonText` - the unformatted printer of `fxcjson` with the size it borrows for
  each piece, and the parser as far as it reads what the printer writes. The code
  recurs from a list into its elements; here the functions for one depth are made of
  those for the depth below (`Recursive`), down from `Depth`.

Client:

* `ClientProtocol` - the request under way (`job`, `rpc`), the listen thread
  (`lpc`), the queue of signals, the window, the database, and a server that
  answers in order with notices in between. `Request`, `Take`, `TimeOut` are the
  common shape of `login`, `getUserList`, `getOnline` and `sendMsg`; `Insert` and
  `Stamp` are `addUsers` and the date of the update; `Wake`, `Check`,
  `ListenLock`, `ListenTake` are `ListenThread::run`; `InitUi`, `Presence` and
  `ShowChat` the slots of the main window. `Exit` and `Start` end the program at
  any point and start it again with the database it had.

Proofs are in `BlockedMemoryPoolProofs`, `WireProtocolProofs`, `SendPathProofs`
(with those of `LinearMemoryPool`), `ServerProofs` (with those of `MysqlPool`),
`ClientProofs`, `ChatServerProofs`, and `RequestProofs` with `Loop` (section 4);
`MC...` are the instances for TLC.

### What the models leave out

`ChatServer`. A request arrives whole; its name, password and body are left out. A
login with a wrong password, the full user list and a failed parameter check are
answered without touching shared state and are all the request `other`. A
client sends one request at a time and takes messages for what they are (its
confusions are in `ClientProtocol`). A worker's critical section is one step:
between lock and unlock it touches its connection only. Table walks
(`getOnlineList`, `getAllOnlineConnections`) and each map operation are atomic;
the memory corruption that unsynchronised `std::map` updates may cause is not
modelled, so what is shown holds of executions in which the maps survive. Using a
destroyed connection may end the process or lose the message. The numbers of
descriptors are never reused (they are in `Server`).

`SendPath`. Memory is sizes and positions, without contents. The steps of `clear()`
that another thread can tell apart are the end of the chain and the reset of the
pointer. A thread that goes on in a part that has been destroyed has undefined
behaviour: the model ends there (`UseFreed`). `disturbed` remembers in whose section
the listener's late `clear()` fell; it changes nothing. A reader's buffer, a
parse and an answer are borrowed in the order of the code; sizes of objects are
those of a 64-bit build.

`Characters`, `MessageText`, `JsonText`, `Requests`, `RequestPath`. A word counts as one
character where only its place matters, "body" always. `Control` stands for one
character below 32 without a letter of its own; numbers are naturals up to 2^31 - 1,
which ids are. A member of `login_pack` or `msg_pack` that no
parameter sets is what the memory held before: null or not (`left`), and an
operation that goes on with it is `undefined`. Parsing is of what the printer
writes; the printer prints objects, arrays, strings and whole numbers.

`WireProtocol`. A message is its function number and the ends of its fields; byte i
of its body is a number of its own, so lost, doubled and displaced bytes are all
seen. A message has at least one field with a name, which is so for every message
the code builds. One direction of a connection is modelled: a client waits for the
reply before it sends again (`SendReplied`), the server goes on. Where the code
reads a header it never received (the server after a close between two packages,
the client after a timeout), its value is whatever the buffer held; there the
model ends (`blind`), and the properties speak of executions up to that point. A
reset that also loses bytes in flight is a close after them.

`MysqlPool`, `Server`. A query is one step that may fail. mysql++'s own pool is a
library. Unequal to the code, a second login on one connection is left out. When the
process ends the state is what a new one would have. A listener that meets the null
instance pointer after the signal ends the process (`Crash`), as does a `std::thread`
that is destroyed while joinable.

`ClientProtocol`. A message is its kind and a set of users; how it is cut is the
subject of `WireProtocol`. Timeouts fall where nothing is left to read. Widgets
are the map of contacts and the set shown online. `overtaken`, `late` and `spoiled`
are history: that a request took a message which is not its reply, that a wait
ended without one, that a cut fell within `addUsers`. They change nothing.

## 3. Runs

| Run | Instance | Shows |
|---|---|---|
| `pool` | 2 threads, 2 blocks per pool, chain of 3, 2 blocks each, 1 foreign address | `NoDoubleLend` `NothingLost` `GrowthBound` `RootReleased`, that it implements `BlockLending` (`RefinesLending`), and `TypeOK` and `IInv`, the invariant of the proofs |
| `chat_presence` | 3 users, logins one at a time, two may close at any time | `OneIsTold` `ViewExact` `ListComplete` |
| `chat_send` | 3 users, everything overlaps, messages from lower to higher user ids, one may close | `TypeOK` `Registered` `NoEarlyPush` `Addressed` `Answered` `Released` |
| `chat_relogin` | one user on up to four connections, one of them perhaps of another user, short messages, operations without a body | `SingleLogin` `BlocksSound` |
| `wire` | 2 messages out of 6, packages of 3 bytes, at most 3 packages, either reader, the sender may close at any time | `TypeOK` `Paged` `InBuffer` `Intact` `Delivered` |
| `buffers` | a listener that serves 2 of 16 requests, two threads that push one message each, the socket may fail | `ChunksDisjoint` `ChunksInside` `SectionSafe` `StartsEmpty` `Whole` `TextReceived` `ReplyReceived` `TextFits` |
| `client` | a client and two other users, two starts of the program, two moves of others, one message, one late answer, connection lost at any time | `OwnUnlock` `ListenerFed` `ViewCurrent` `CacheComplete` `RequestEnds` |
| `server` | 3 connections, 2 descriptors, 3 blocks, two that log in, queries may fail, SIGTERM at any time | `CountExact` `FdOwner` `BlocksSound` `Ends` |

Four runs end in a violation and record a disagreement between the code and what
the repository says of it:

* `chat_deadlock` - A and B write to each other; A's listener holds A's mutex and
  waits for B's, B's the reverse. Neither request is ever answered.
* `chat_misdelivered` - `s->connection()` is read again after the wait for the
  mutex; meanwhile the session block belongs to somebody else.
* `chat_offline` - a message to a user without session leaves null in the table;
  the next login walks over it.
* `wire_short` - a package of a longer message reaches the server in two pieces;
  the second `recv()` is asked for a whole package, takes the next header for
  body, and `_doRead` returns a message that was never sent.

In the byte order the code and the document (line 5, big endian) disagree as
well: `_make_header` writes the high byte of a value that `htons` has already
swapped, so numbers travel low byte first. Both ends do it alike, and
`HeaderRoundTrip` shows that it is harmless. Line 3 of the document allows a
block of 32768 bytes; the code's limit is 32760, and `HeaderLimit` shows that
32768 could not be announced.

Further weaknesses were met that no document promises otherwise, so no run
records them:

* Two logins of different users overlap: each takes its snapshot of online
  connections before the other session is in the table, and a client that has its
  list already never learns of the other user. `chat_presence` is about serial
  logins. Two overlapping logins of the *same* user break `SingleLogin`.
* The operations without a body report success and leave no message, which the
  reply dereferences (`Reply`); a null entry inserted while the addressee logs in
  again keeps `insert()` from registering the new session.
* `connectionDisconnected` waits for its notices and then clears the connection of the
  session it found before; after two more logins of the user the block is another
  session's (usersession.cpp:94). The login after that cannot shut the older
  connection down, and its client, still logged in, is missing from the online list
  while the entry is replaced: on the instance of `chat_relogin` TLC finds
  `ListComplete` violated. It is checked and proved where every user has one client.
* The listener's late `clear()` can take the memory of a thread that pushes a
  message (`SectionSafe` without its exception fails), although
  linearmemorypool.h:11 says the pool is not thread safe.
* Where `UseFreed`, `NoDatabase`, `Crash` of a joinable thread and `Exit` of the
  client stand, the program ends; the models go on from there or stop.
* Outside the models: the object of a part made for a large request is destroyed but
  its memory never freed (linearmemorypool.cpp:45), SO_REUSEADDR is set when the socket is closed
  (serverlistener.cpp:47), the check of the pid file is switched off
  (main.cpp:147).

**Bounds.** `ChatServer`: each client sends at most `MaxReqs` = 2 requests, login
and one more; three connections give one actor, one peer and one disturber, which
is what the interleavings in the list of hazards need. The misdelivery needs a
fourth, and so do successive logins of one user: with three, the third login ends
before the destructor of the first connection writes through its old pointer, and
the weakness noted above is out of reach; `chat_relogin` has four. Session blocks are as many as connections, so the session pool
never grows there; growth is the subject of `pool`, where two threads that hold two
blocks each outgrow one pool of two, and the third pool is reached by nobody, which
`GrowthBound` shows. `MaxPools` disables `BorrowNext` at the last pool; no run
reaches that guard except through a faulty variant. `SerialLogin` restricts
clients to one login at a time and `ToLoggedIn` to messages to logged-in users;
each is a condition of the run, and the violating runs and the list above show what
happens without it.

In `wire` the six messages fill one package, fill two, end a field on a border,
stretch one field over three packages, and exceed `BlockMax`. The stream may cut
what was written anywhere, except a message of several packages on its way to the
server (`SplitPaged` = FALSE), the case `wire_short` shows to fail. `MaxMsgs` = 2
lets the second message follow the first while it is still being read.

In `buffers` the base size is 128 and the least part 32, so that one request needs
parts of either size, including one above the base size; packages hold 40 bytes, so
that replies need one or several. Two turns of the listener are the least in which
what the first leaves meets the second; each of the two other threads pushes once,
and both can meet the same late `clear()`. `MCSizes` is only an upper set of what
is asked for. The requests have every operation, lists that are empty or hold names
with quotes, backslashes, newlines and a control character, a missing, a repeated
and an empty parameter, and a line that begins with a colon. `MCChars` has the
characters and words of these requests; `Depth` = 3 is that of the deepest reply, a
list of users, each an object with members.

In `client` the program starts twice, so the second start meets what the first left
in the database at every point; two moves let two notices fall anywhere, or one
user come and go; one timeout is a reply that is late, while replies that never come
are not bounded. The list's order has the client's own user in the middle.

In `server` three connections and two descriptors make a descriptor pass on while a
third connection waits for it, or be refused; `Limit` = 0 lets one connection use
the database and the others wait (`grab()` waits while the count is above the
limit); `Word` = 16 is more than the threads, as 2^32 is, and lets a torn count wrap.

All runs but `pool` switch the deadlock check off: clients stop after their requests
(`ChatServer`, `ClientProtocol`, `Server`), the sender after its messages, threads
after their turns, or the process has ended.

**Fairness.** `BlockedMemoryPool`: weak fairness of each thread's steps inside
the pool (`std::mutex` and the scheduler let a thread that can run, run; none
for callers). Weak fairness is enough for `RootReleased` although a mutex
promises no queue: the property is about release, not about each waiter's turn.
`ChatServer`: only that the server does something when some thread of it can;
requests are finite, so that already lets each thread go on. No fairness for
clients: they may stay silent for ever. `WireProtocol`: the sender's thread runs
on, the network delivers, the reader reads what is there; nothing makes a sender
close or a client's patience end. `ClientProtocol`: the server answers, Qt reads
what has arrived, the threads and the main thread go on when they can; nobody has
to log in, to write, to come, to go or to quit. `Server`: some listener that can go
on does; not the acceptor, not clients, not the signal. `SendPath` states none, its
properties being about safety.

## 4. Proofs

TLC shows a property on an instance; the theorems hold for every value of the
constants under the `ASSUME`s of the module they are about. Each proof has an
inductive invariant, one lemma per action that the action keeps it, and one theorem
per property that follows from it.

**`BlockedMemoryPoolProofs`**, for every set of threads, block count, chain length
and number of held blocks: `TypeCorrect`, `NoBlockLentTwice`, `NoBlockLost`,
`ChainWithinDemand`, `Implements` (`Spec => RefinesLending`). `NoDoubleLend` is not inductive: that
`RestoreHere` pushes a block which is on no stack needs to know that the argument is
still lent (`ArgInv`), that it has not been pushed by another thread in between, and
that the mutex of the pool is the thread's (`LockInv`). That the push stays within
the array (`StackRoom`) is a counting argument: the stack holds distinct blocks of
its own pool and lacks at least the one being restored, so it is not full.
`Implements` needs `Exhausted`: the pools a borrower has passed are still empty when
it lends, because it still holds their mutexes.
`ChainWithinDemand` counts: a thread that creates pool p + 1 has the mutexes of pools
1 to p and has found them empty (`Exhausted`), so each of their p times `BMax` blocks
is held by some thread (`NothingLost`). No thread holds more than `MaxHeld`, and the
one that borrows holds fewer (`HeldBound`), so there are fewer of them than threads
times `MaxHeld` (`Demand`). Here `Threads` has to be finite.

**`SendPathProofs`**, first part: `LinearMemoryPool`, for every base size and sequence of requests:
`NeverLentTwice`, `NeverOutside`. What was lent lies below the pointer of its part
(`BelowPointer`) and the pointer within the part (`PointerInside`), so the next
chunk, which begins at the pointer, is new.

Second part: `SendPath`, for any number of threads that push, any sections and sizes:
`NeverTwiceInSections`, `NeverOutsideInSections`, `OnlyLateClears`,
`EmptyForListener`, `MessagesWhole`. `borrow()` looks at a part and takes from it
in another step, with the listener's `clear()` possibly between. `RoomInv`: a part
that had room keeps it, since everybody else is kept out by the mutex and the
listener only makes room, or the part is gone. `PoolClear` follows how far whoever
clears has come; with it the listener begins with the first part alone, although a
pusher may have run between its unlock and the end of its `clear()`. `WireInv` says
what the last package on the socket tells of the section under way.

**`ServerProofs`**, first part: `MysqlPool`, for every number of threads, limit and width: `CountIsExact`
and `NoWrap`. While no two threads have changed the count at once, at most one is
between its read and its write, and what it has read is the present count
(`OneChanges`, `RegCurrent`); the rest is cardinality.

Second part: `Server`, for every number of connections, descriptors and blocks:
`TypeCorrect`, `DescriptorOwner`, `OneOwnerPerBlock`, and `CountExactInServer`, which
reuses the invariant of the first part. A session is found under a descriptor
only while its connection holds it, because the destructor removes the session
before it closes the socket (`FdInv` and the order of `Destructor`); a block is on
the stack once or lent to one connection whose destructor has not given it back
(`BlockInv`).

**`ClientProofs`**, for every set of other users, order of the list and every bound:
`ClientTypes`, `UnlockHarmless`, `ListenerIsFed`, `CacheIsComplete`,
`ViewIsCurrent`. `StageInv` ties request, stage of the program, listen thread and
mutex together: there is no listen thread before `getOnline` has ended, which makes its unlock harmless. `ListenerFed`
is inductive with it: a request adds one message that is due for the one it takes.
`CacheInv` follows the rows from the empty table to all users.
`ViewIsCurrent` is about one stream: signals queued, bytes that Qt has, and bytes on
the wire, in this order (`Stream`), along which messages only travel, are taken at a
border, or are handled at the front. Of every user the last word in it, a notice or
the list of `getOnline`, is the truth (`TruthInv`); and where it says nothing of a
user, the window already has the truth, or the vector from which it will be made
(`KnownInv`). A message that leaves the middle of the stream must therefore not be a
notice, which is what `~overtaken` says of a request and the listen thread's `if` of
itself. `FreshInv` supplies the beginning: nothing is on the way when a login is
answered, and no login is asked after that.

**`ChatServerProofs`** has four invariants, each under what it needs. Without any
assumption, for any requests in any order: `ChatTypes`. Types alone are not
inductive: that `session'[mine[c]]` is a session needs the pointer to be one, so
`TypeInv` says what the place of a listener tells of its pointers (`Local`) and that
a queue of connections holds connections or null (`Reached`).

Where logins come one at a time (`SerialLogin`) and users log in again, close and
write as they like: `SessionsSound` and `LoginMovesOver`. `LoginInv` follows the one
login under way: the block it constructs is on no stack and in no table until it is
inserted (`OwnBlock`); no other session leads to the connection (`OneSession`); when
the earlier session has been dealt with, nobody the server knows is logged in as the
user any more (`Alone`); and the entry of a user who is logged in leads to that
connection's session, or is null (`Entry`). A destructor that writes through a stale
pointer only makes a session forget its connection, so it disturbs none of this, and
that is why `SingleLogin` asks for `Known`.

Where requests overlap in any way: `LoggedInRegistered`, `LoggedInListed`,
`LoginReplyFirst`, `ChatToAddressee`. They assume `Regular`: messages to users
who are logged in (`ToLoggedIn`), and one connection per user; `chat_misdelivered`
and `chat_offline` show that these are needed. The invariant `ChatInv` has
for each connection what its listener's place says of its request (`ReqOf`), of its
session (`MineOf`), of the addressee's mutex (`TargetOf`), and of table entries that
lead to it (`OwnerOf`, `SockOf`); and, of all, that tables lead to sessions of their
own (`TableInv`) and only to connections whose login came that far (`PastInv`).
A step of one connection keeps the parts of all others by one argument (`Frame` and
`AllParts`): it changes a session only if it is the connection's own or free, and an
entry only if there was none. What then remains for each action are its own parts.
The mutex is what makes `Addressed` hold: a listener that waits for the addressee's
mutex gets it only when that connection serves no request, so it is not in the
middle of a login (`Addressee`).

Where every user has one client and logins come one at a time (`Regular` and
`SerialLogin`; other requests, departures and notices overlap as they like):
`OneHearsOfTheOther` and `ViewsExact`. Neither property is inductive, because a
notice, the reply to `online` and the tables are three views of the same fact that
change at different steps. `PresenceInv` accounts for the difference.
`Believes`: what a client believes or is about to be told of a user is in the table,
or will be because a login has announced it (`Placing`), or is about to be taken back
by a destructor whose round has not reached this client yet (`Parting`, `Pending`).
`Misses`: once a client has the list, everybody in the table is in its view.
`Announced`: before a login enters the table of users, its notice has reached all who
are logged in, or is on the way; that is the order of `createSession`, which makes
`InsertUid` harmless. `OnlineEntry` and `InTables` say that an online entry has a
connection that has not begun to leave, so that a notice of departure never takes
away somebody who is there. Most steps are seen by no client (`Unseen`,
`UnseenKeeps`); what is left are the two beginnings of a round (`Login`,
`Disconnect`), a visit, a worker, the entry in the table, the list and the reply. The
reply to a login is where `SerialLogin` is needed: the new client is owed no
notice of a login that began before, as there is none.

**`WireProtocolProofs`**, for every block size the header can carry, every package
limit, set of messages and either reader: `WireTypeOK`, `WirePaged`, `WireInBuffer`,
`WireIntact`, `WireWhole`. The sender's part (`PackInv`) is arithmetic: with k
borders crossed, package k + 1 begins where k full ones end, `current` is what is in
it, and what the buffer holds is the header of each package and the text up to `pos`.
The reader's part needs to say where in the stream it stands. `StreamInv` does it with
one sequence T, all the bytes written so far: the message k begins after `base[k]` in
it (`Lines`), what is in flight and what has arrived are the adjacent pieces of T that
follow what was read (`Carries`), the sender stands at its end (`Stands`), and the
reader at a header, within the body that header announced, or between two packages
(`Reads`). What it decodes at a header is then what the sender wrote there, by
`HeaderRoundTrip`. The two theorems about the reader are about executions in which
packages are not split, or the reader is the client's, which waits for the whole
package, or every message fits one package (`Unsplit`, `Borders`); `wire_short` shows
that otherwise they are false. `WireWhole` is the case of a network that splits none.

`HeaderRoundTrip`: every number below 2^15 is read as it was written, although the
reader adds up signed bytes. `HeaderLimit`: no number from 2^15 on is. The sign of the
first byte is lost in the reduction modulo 2^16; that of the second, the high byte of
the number, borrows from the first, and is why 2^15 is the limit.

**`Loop`** and **`RequestProofs`**, for every set of characters, depth, message,
database and schedule of the threads: `Received` (`TextReceived`), `ReplyRead`
(`ReplyReceived`) and `Fitting` (`TextFits`). These are about what loops over data
leave, so they need induction over the data. The loops of `MessageText` and
`JsonText` are recursive functions, and `Loop` shows, from the definition of such a
function alone, that it unfolds run by run (`AfterZero`, `AfterNext`): the functions
for n and n + 1 runs agree as far as both go, by induction in the form
`SetInduction` (a set of naturals with 0 and every successor is all of them), which
follows from the library's least elements. Each loop is then an instance of `Loop`.

`Holds(t, p, u)`, the text t has u after its first p characters, is what the rest is
said in. *Scanner*: in the text of a message line k begins where the lines before it
end; over a line the scanner finds colon and newline and has one field more
(`LineScanned`), at a body it takes what is left (`BodyScanned`), at a line without a
name it stops. So a message of clean fields is read as written (`CleanParsed`),
and any other up to its first body or nameless line (`ScanReceived`).
`LengthCounted`: what `addParam` counts is the length of that text.
*Printer and parser* (`ValuesRead`): wherever a text holds what is printed for a value,
and no digit follows it, the parser returns that value and the place behind it. It is
proved by induction on the depth, and in it for strings (each escape is undone, and
no quote, written with a backslash, ends the string), for numbers (the digits of n
are those of n / 10 and the remainder), and for lists element by element: a comma or the
end follows each, so a number in a list is not followed by a digit, and
the loop has rounds enough because each element takes two characters at least.
*Sizes*: `Size` is more than what is written of a value, by the same induction;
for a number because 21 is more than the digits of an int and its terminator.

What ties this to the behaviours is `DoingInv`: a thread is at none or at one of its own
sections; the listener's are `Handle` of a message, by `RequestAssumption`. Each
operation's reply is a list of clean fields (`HandleGood`), since the printer escapes
newlines; so the client scans what the server wrote. The assumptions
(`CharsAssumption`, `WordsAssumption`, `DepthAssumption`, `RequestAssumption`) say
that the letters the code uses are characters, that the byte which ends a text is
not, and that lists are no deeper than `Depth`.

Only model-checked: liveness, which is out of the prover's reach: `RootReleased`,
`Answered`, `Released`, `Delivered`, `RequestEnds`, `Ends`.

## 5. What could follow

A composition of `ClientProtocol` and `ChatServer` over one wire, with the order of
reply and notice taken from the server's mutex instead of chosen freely: `ViewsExact`
speaks of what a client has been told, `ViewIsCurrent` of what it makes of it, and
both are proved on their own.

## 6. Not modelled

`spdlog` is vendored and about two thirds of the lines under `src/`; it logs and
nothing else, so no property is about it. Widgets, chat windows, the chat log and
the list of recent contacts have no protocol of their own. The functions of `fxcjson`
for numbers with fractions, formatted output, comparison and duplication are called by
nobody. The text of SQL and of log messages, the parsing of the configuration file and
`trim()`, the pid file, the command that stops the server and daemonising are plain
input and output. `ChatLogManager` is an empty class.
`destroySessionBySockFd` and `confirmConnection` are never called; `clear()` of the
block pool is called only by its destructor. The client's heart beat is an empty
thread.
