---------------------------- MODULE ClientProofs ----------------------------
(* Proofs about ClientProtocol: whatever the users, the lists and the      *)
(* bounds, the client's threads keep to their stages, its local database   *)
(* to its promise, its listen thread never waits for nothing, and its      *)
(* window shows who is there.                                              *)
EXTENDS ClientProtocol, TLAPS, FiniteSetTheorems

(* How far the program has come says which request may run, and who has    *)
(* the mutex says where the threads stand.                                 *)
AtStage ==
  \/ job = "login" /\ stage = "dialog"
  \/ job = "list" /\ stage = "list"
  \/ job = "online" /\ stage = "online"
  \/ job = "sendMsg" /\ stage = "shown"

StageInv ==
  /\ rpc = "idle" <=> job = Null
  /\ rpc # "idle" => AtStage
  /\ rpc \in {"insert", "stamp"} => job = "list"
  /\ stage \in {"off", "dialog", "list", "online", "starting"} => lpc = "off"
  /\ holder = "requester" <=> rpc \in {"receive", "insert", "stamp"} /\ Locks(job)
  /\ holder = "listener" <=> lpc \in {"receive", "dead"}

(* initData ends once.                                                     *)
EventInv ==
  /\ \A i \in DOMAIN events : events[i].kind = "finished" => stage = "wait"
  /\ \A i, j \in DOMAIN events :
       events[i].kind = "finished" /\ events[j].kind = "finished" => i = j

(* A list that is not complete is being inserted, or was cut off.          *)
CacheInv ==
  /\ rpc = "insert" => rows # Users
  /\ rpc \in {"receive", "insert", "stamp"} /\ job = "list" => ~stamp
  /\ ~spoiled /\ rpc # "insert" => rows \in {{}, Users}
  /\ ~spoiled /\ rpc = "stamp" => rows = Users
  /\ CacheComplete

ClientInv == TypeOK /\ StageInv /\ EventInv /\ CacheInv /\ ListenerFed

-----------------------------------------------------------------------------
(* The messages of a stream keep their type, however the stream is cut.    *)
LEMMA SeqFacts ==
  ASSUME NEW S, NEW q \in Seq(S)
  PROVE  /\ Len(q) \in Nat /\ DOMAIN q = 1..Len(q)
         /\ \A i \in 1..Len(q) : q[i] \in S
         /\ <<>> \in Seq(S) /\ Len(<<>>) = 0
         /\ \A r \in Seq(S) : q \o r \in Seq(S) /\ Len(q \o r) = Len(q) + Len(r)
         /\ \A m \in S : Append(q, m) \in Seq(S) /\ Len(Append(q, m)) = Len(q) + 1
         /\ q # <<>> => /\ Head(q) \in S /\ Tail(q) \in Seq(S)
                        /\ Len(Tail(q)) = Len(q) - 1 /\ Len(q) > 0 /\ Head(q) = q[1]
                        /\ \A i \in 1..Len(q) - 1 : Tail(q)[i] = q[i + 1]
<1>1. \A r \in Seq(S) : q \o r \in Seq(S) /\ Len(q \o r) = Len(q) + Len(r)
  OBVIOUS
<1>2. \A m \in S : Append(q, m) \in Seq(S) /\ Len(Append(q, m)) = Len(q) + 1
  OBVIOUS
<1>3. ASSUME q # <<>>
      PROVE  /\ Head(q) \in S /\ Tail(q) \in Seq(S)
             /\ Len(Tail(q)) = Len(q) - 1 /\ Len(q) > 0 /\ Head(q) = q[1]
             /\ \A i \in 1..Len(q) - 1 : Tail(q)[i] = q[i + 1]
  BY <1>3
<1>4. /\ Len(q) \in Nat /\ DOMAIN q = 1..Len(q) /\ (\A i \in 1..Len(q) : q[i] \in S)
      /\ <<>> \in Seq(S) /\ Len(<<>>) = 0
  OBVIOUS
<1> QED
  BY <1>1, <1>2, <1>3, <1>4

LEMMA QueueFacts ==
  ASSUME NEW q \in Queue
  PROVE  /\ Len(q) \in Nat /\ DOMAIN q = 1..Len(q)
         /\ \A i \in 1..Len(q) : q[i] \in Messages
         /\ \A r \in Queue : q \o r \in Queue /\ Len(q \o r) = Len(q) + Len(r)
         /\ \A m \in Messages :
              /\ Append(q, m) \in Queue /\ Len(Append(q, m)) = Len(q) + 1
              /\ \A i \in 1..Len(q) + 1 : Append(q, m)[i] = IF i <= Len(q) THEN q[i] ELSE m
         /\ q # <<>> => /\ Head(q) \in Messages /\ Tail(q) \in Queue
                        /\ Len(Tail(q)) = Len(q) - 1 /\ Len(q) > 0 /\ Head(q) = q[1]
                        /\ \A i \in 1..Len(q) - 1 : Tail(q)[i] = q[i + 1]
<1>1. \A m \in Messages : \A i \in 1..Len(q) + 1 :
        Append(q, m)[i] = IF i <= Len(q) THEN q[i] ELSE m
  BY DEF Queue
<1> QED
  BY <1>1, SeqFacts DEF Queue

LEMMA EmptyQueue == <<>> \in Queue /\ <<>> \in Seq(Kinds) /\ Len(<<>>) = 0
  BY DEF Queue

LEMMA MessageType ==
  ASSUME NEW k \in Kinds \cup {"finished"}, NEW val \in SUBSET Users
  PROVE  Message(k, val) \in Messages
  BY DEF Message, Messages

LEMMA Limits ==
  MaxStarts \in Nat /\ MaxMoves \in Nat /\ MaxSends \in Nat /\ MaxTimeouts \in Nat
  BY ClientAssumption

LEMMA NoValue == Null \notin Users \cup Kinds \cup {"requester", "listener"}
  BY ClientAssumption

LEMMA UsersFinite == IsFiniteSet(Users) /\ Self \in Users /\ Others \subseteq Users
  BY ClientAssumption, FS_AddElement DEF Users

(* The row that addUsers inserts next is one of the list.                  *)
LEMMA NextRow ==
  ASSUME NEW R \in SUBSET Users, R # Users
  PROVE  Listed[Cardinality(R) + 1] \in Users
<1>1. Cardinality(R) < Cardinality(Users) /\ Cardinality(R) \in Nat /\ Cardinality(Users) \in Nat
  BY UsersFinite, FS_Subset, FS_CardinalityType
<1>2. Cardinality(R) + 1 \in 1..Len(Listed)
  BY <1>1, ClientAssumption
<1> QED
  BY <1>2, ClientAssumption

-----------------------------------------------------------------------------
LEMMA ClientInit == Init => ClientInv
<1> SUFFICES ASSUME Init PROVE ClientInv
  OBVIOUS
<1>1. TypeOK
  <2>1. NetworkOK
    BY EmptyQueue DEF Init, NetworkOK
  <2>2. ThreadsOK
    BY NoValue DEF Init, ThreadsOK
  <2>3. WindowOK /\ HistoryOK
    BY DEF Init, WindowOK, HistoryOK
  <2>4. BoundsOK
    BY Limits DEF Init, BoundsOK
  <2> QED
    BY <2>1, <2>2, <2>3, <2>4 DEF TypeOK
<1>2. StageInv
  BY NoValue DEF Init, StageInv
<1>3. EventInv /\ CacheInv /\ ListenerFed
  BY DEF Init, EventInv, CacheInv, CacheComplete, ListenerFed
<1> QED
  BY <1>1, <1>2, <1>3 DEF ClientInv

(* The process ends, whatever it was doing: the database alone stays.      *)
LEMMA ExitInv ==
  ASSUME ClientInv, Exit
  PROVE  ClientInv'
<1>1. /\ stage' = "off" /\ job' = Null /\ rpc' = "idle" /\ lpc' = "off" /\ events' = <<>>
      /\ users' = Null /\ online' = Null /\ contacts' = {} /\ shown' = {} /\ holder' = Null
      /\ overtaken' = FALSE /\ late' = FALSE
      /\ link' = "up" /\ logged' = FALSE /\ asked' = <<>> /\ wire' = <<>> /\ ready' = <<>>
      /\ spoiled' = (spoiled \/ (~stamp /\ rows \notin {{}, Users}))
      /\ UNCHANGED <<up, rows, stamp, starts, moves, sends, timeouts>>
  BY DEF Exit, Process, Connection, database, bounds
<1>2. TypeOK'
  <2>1. NetworkOK'
    BY <1>1, EmptyQueue DEF ClientInv, TypeOK, NetworkOK
  <2>2. ThreadsOK'
    BY <1>1 DEF ThreadsOK
  <2>3. WindowOK' /\ HistoryOK' /\ BoundsOK'
    BY <1>1 DEF ClientInv, TypeOK, WindowOK, HistoryOK, BoundsOK
  <2> QED
    BY <2>1, <2>2, <2>3 DEF TypeOK
<1>3. StageInv'
  BY <1>1, NoValue DEF StageInv
<1>4. EventInv' /\ ListenerFed'
  BY <1>1 DEF EventInv, ListenerFed
<1>5. CacheInv'
  BY <1>1 DEF ClientInv, StageInv, CacheInv, CacheComplete
<1> QED
  BY <1>2, <1>3, <1>4, <1>5 DEF ClientInv

LEMMA StartInv ==
  ASSUME ClientInv, Start
  PROVE  ClientInv'
<1>1. /\ stage' = "dialog" /\ job' = Null /\ rpc' = "idle" /\ lpc' = "off" /\ events' = <<>>
      /\ users' = Null /\ online' = Null /\ contacts' = {} /\ shown' = {} /\ holder' = Null
      /\ overtaken' = FALSE /\ late' = FALSE
      /\ link' \in {"up", "down"} /\ logged' = FALSE /\ asked' = <<>> /\ wire' = <<>> /\ ready' = <<>>
      /\ starts' = starts + 1 /\ starts < MaxStarts /\ stage = "off"
      /\ UNCHANGED <<up, rows, stamp, moves, sends, timeouts, spoiled>>
  BY DEF Start, Process, Connection, database
<1>2. TypeOK'
  <2>1. NetworkOK'
    BY <1>1, EmptyQueue DEF ClientInv, TypeOK, NetworkOK
  <2>2. ThreadsOK'
    BY <1>1 DEF ThreadsOK
  <2>3. WindowOK' /\ HistoryOK'
    BY <1>1 DEF ClientInv, TypeOK, WindowOK, HistoryOK
  <2>4. BoundsOK'
    BY <1>1, Limits DEF ClientInv, TypeOK, BoundsOK
  <2> QED
    BY <2>1, <2>2, <2>3, <2>4 DEF TypeOK
<1>3. StageInv'
  BY <1>1, NoValue DEF StageInv
<1>4. EventInv' /\ ListenerFed'
  BY <1>1 DEF EventInv, ListenerFed
<1>5. CacheInv'
  BY <1>1 DEF ClientInv, StageInv, AtStage, CacheInv, CacheComplete
<1> QED
  BY <1>2, <1>3, <1>4, <1>5 DEF ClientInv

(* What the server may answer is a message, and not the end of initData.   *)
LEMMA ReplyType ==
  ASSUME NetworkOK, NEW k \in Kinds, NEW m \in Reply(k)
  PROVE  m \in Messages /\ m.kind \in Kinds
<1>1. {Self} \in SUBSET Users /\ {} \in SUBSET Users /\ Users \in SUBSET Users
      /\ up \cup {Self} \in SUBSET Users
  BY UsersFinite DEF NetworkOK
<1>2. \E val \in SUBSET Users : m = Message(k, val)
  BY <1>1 DEF Reply
<1>3. PICK val \in SUBSET Users : m = Message(k, val)
  BY <1>2
<1> QED
  BY <1>3, MessageType DEF Message

-----------------------------------------------------------------------------
(* The server, the other users and the network: they only bring messages,  *)
(* or take the connection away.                                            *)
LEMMA AnswerInv ==
  ASSUME ClientInv, Answer
  PROVE  ClientInv'
<1>0. NetworkOK /\ asked # <<>> /\ Head(asked) \in Kinds
  BY SeqFacts DEF Answer, ClientInv, TypeOK, NetworkOK
<1>1. PICK m \in Reply(Head(asked)) :
        wire' = Append(wire, m) /\ logged' = (logged \/ (m.kind = "login" /\ m.val # {}))
  BY DEF Answer
<1>2. /\ asked' = Tail(asked) /\ m \in Messages
      /\ UNCHANGED <<link, up, ready, holder, stage, job, rpc, lpc, events, users, online, contacts,
                     shown, rows, stamp, overtaken, late, spoiled, starts, moves, sends, timeouts>>
  BY <1>0, <1>1, ReplyType DEF Answer, window, database, bounds, history
<1>3. /\ asked' \in Seq(Kinds) /\ Len(asked') = Len(asked) - 1 /\ Len(asked) \in Nat /\ Len(asked) > 0
      /\ wire' \in Queue /\ Len(wire') = Len(wire) + 1 /\ Len(wire) \in Nat /\ Len(ready) \in Nat
  BY <1>0, <1>1, <1>2, SeqFacts, QueueFacts DEF NetworkOK
<1>4. logged' \in BOOLEAN
  BY <1>1
<1>5. NetworkOK'
  BY <1>0, <1>2, <1>3, <1>4 DEF NetworkOK
<1>6. ThreadsOK' /\ WindowOK' /\ HistoryOK' /\ BoundsOK'
  BY <1>2 DEF ClientInv, TypeOK, ThreadsOK, WindowOK, HistoryOK, BoundsOK
<1>7. StageInv' /\ EventInv' /\ CacheInv'
  BY <1>2 DEF ClientInv, StageInv, AtStage, Locks, EventInv, CacheInv, CacheComplete
<1>8. ListenerFed'
  BY <1>2, <1>3 DEF ClientInv, ListenerFed
<1> QED
  BY <1>5, <1>6, <1>7, <1>8 DEF ClientInv, TypeOK

LEMMA MoveInv ==
  ASSUME ClientInv, NEW u \in Others, Move(u)
  PROVE  ClientInv'
<1>1. PICK k \in {"toOnline", "toOffline", "chat"} :
        /\ up' = CASE k = "toOnline" -> up \cup {u} [] k = "toOffline" -> up \ {u} [] OTHER -> up
        /\ wire' = IF logged THEN Append(wire, Message(k, {u})) ELSE wire
  BY DEF Move
<1>2. /\ moves < MaxMoves /\ moves' = moves + 1
      /\ UNCHANGED <<link, logged, asked, ready, holder, stage, job, rpc, lpc, events, users, online,
                     contacts, shown, rows, stamp, overtaken, late, spoiled, starts, sends, timeouts>>
  BY DEF Move, window, database, history
<1>3. Message(k, {u}) \in Messages
  <2>1. k \in Kinds \cup {"finished"} /\ {u} \in SUBSET Users
    BY UsersFinite DEF Kinds
  <2> QED
    BY <2>1, MessageType
<1>4. /\ wire' \in Queue /\ Len(wire') >= Len(wire) /\ Len(wire') \in Nat /\ Len(wire) \in Nat
      /\ Len(ready) \in Nat /\ Len(asked) \in Nat
  BY <1>1, <1>3, SeqFacts, QueueFacts DEF ClientInv, TypeOK, NetworkOK
<1>5. up' \subseteq Others
  BY <1>1 DEF ClientInv, TypeOK, NetworkOK
<1>6. NetworkOK'
  BY <1>2, <1>4, <1>5 DEF ClientInv, TypeOK, NetworkOK
<1>7. ThreadsOK' /\ WindowOK' /\ HistoryOK'
  BY <1>2 DEF ClientInv, TypeOK, ThreadsOK, WindowOK, HistoryOK
<1>8. BoundsOK'
  BY <1>2, Limits DEF ClientInv, TypeOK, BoundsOK
<1>9. StageInv' /\ EventInv' /\ CacheInv'
  BY <1>2 DEF ClientInv, StageInv, AtStage, Locks, EventInv, CacheInv, CacheComplete
<1>10. ListenerFed'
  BY <1>2, <1>4 DEF ClientInv, ListenerFed
<1> QED
  BY <1>6, <1>7, <1>8, <1>9, <1>10 DEF ClientInv, TypeOK

LEMMA DisconnectInv ==
  ASSUME ClientInv, Disconnect
  PROVE  ClientInv'
<1>1. /\ link' = "down" /\ logged' = FALSE /\ asked' = <<>>
      /\ UNCHANGED <<up, wire, ready, events, holder, stage, job, rpc, lpc, users, online,
                    contacts, shown, rows, stamp, overtaken, late, spoiled, starts, moves, sends,
                    timeouts>>
  BY DEF Disconnect, window, database, bounds, history
<1>2. ThreadsOK' /\ WindowOK' /\ HistoryOK' /\ BoundsOK'
  BY <1>1 DEF ClientInv, TypeOK, ThreadsOK, WindowOK, HistoryOK, BoundsOK
<1>3. NetworkOK'
  BY <1>1, EmptyQueue DEF ClientInv, TypeOK, NetworkOK
<1>4. StageInv'
  BY <1>1 DEF ClientInv, StageInv, AtStage, Locks
<1>5. EventInv'
  BY <1>1 DEF ClientInv, EventInv
<1>6. CacheInv'
  BY <1>1 DEF ClientInv, CacheInv, CacheComplete
<1>7. ListenerFed'
  BY <1>1 DEF ClientInv, ListenerFed, StageInv, AtStage, Locks
<1> QED
  BY <1>2, <1>3, <1>4, <1>5, <1>6, <1>7 DEF ClientInv, TypeOK

-----------------------------------------------------------------------------
(* Requests.                                                               *)
LEMMA BeginInv ==
  ASSUME ClientInv, NEW k \in {"login", "list", "online", "sendMsg"}, Begin(k)
  PROVE  ClientInv'
<1>1. /\ rpc = "idle" /\ rpc' = "lock" /\ job' = k
      /\ CASE k = "login" -> stage = "dialog" [] k = "sendMsg" -> stage = "shown" /\ sends < MaxSends
           [] OTHER -> stage = k
      /\ sends' = IF k = "sendMsg" THEN sends + 1 ELSE sends
      /\ UNCHANGED <<link, logged, up, asked, wire, ready, holder, stage, lpc, events, users, online,
                     contacts, shown, rows, stamp, overtaken, late, spoiled, starts, moves, timeouts>>
  BY DEF Begin, network, window, database, history
<1>2. k \in Kinds /\ k # Null
  BY NoValue DEF Kinds
<1>3. NetworkOK' /\ WindowOK' /\ HistoryOK'
  BY <1>1 DEF ClientInv, TypeOK, NetworkOK, WindowOK, HistoryOK
<1>4. ThreadsOK'
  BY <1>1, <1>2 DEF ClientInv, TypeOK, ThreadsOK
<1>5. BoundsOK'
  BY <1>1, Limits DEF ClientInv, TypeOK, BoundsOK
<1>6. StageInv'
  BY <1>1, <1>2 DEF ClientInv, StageInv, AtStage, Locks
<1>7. EventInv' /\ CacheInv' /\ ListenerFed'
  BY <1>1 DEF ClientInv, EventInv, CacheInv, CacheComplete, ListenerFed
<1> QED
  BY <1>3, <1>4, <1>5, <1>6, <1>7 DEF ClientInv, TypeOK

(* A request under way returns: its thread goes on, and gives back the      *)
(* mutex, which no other thread has.                                       *)
LEMMA ReturnStage ==
  ASSUME ClientInv, NEW ok \in BOOLEAN, Return(ok), rpc # "idle", rpc = "lock" => MayLock(job),
         UNCHANGED <<lpc, events>>
  PROVE  ThreadsOK' /\ StageInv' /\ EventInv'
<1>1. stage' = After(job, ok) /\ holder' = Null /\ job' = Null /\ rpc' = "idle"
      /\ lpc' = lpc /\ events' = events
  BY DEF Return
<1>2. AtStage /\ stage # "wait"
  BY DEF ClientInv, StageInv, AtStage
<1>3. \/ stage' \in {"dialog", "list", "online", "starting"} /\ lpc = "off"
      \/ stage' = "shown"
  BY <1>1, <1>2 DEF ClientInv, StageInv, AtStage, After
<1>4. lpc \notin {"receive", "dead"}
  BY <1>2, NoValue DEF ClientInv, TypeOK, ThreadsOK, StageInv, AtStage, MayLock, Locks
<1>5. ThreadsOK'
  BY <1>1, <1>3 DEF ClientInv, TypeOK, ThreadsOK
<1>6. StageInv'
  BY <1>1, <1>3, <1>4, NoValue DEF StageInv
<1>7. EventInv'
  BY <1>1, <1>2 DEF ClientInv, EventInv
<1> QED
  BY <1>5, <1>6, <1>7

LEMMA RequestInv ==
  ASSUME ClientInv, Request
  PROVE  ClientInv'
<1>1. /\ rpc = "lock" /\ MayLock(job) /\ (job = "list" => ~stamp)
      /\ UNCHANGED <<link, logged, up, wire, ready, lpc, events, users, online, contacts, shown,
                     rows, stamp, starts, moves, sends, timeouts, overtaken, spoiled>>
  BY DEF Request, window, database, bounds
<1>2. WindowOK' /\ BoundsOK'
  BY <1>1 DEF ClientInv, TypeOK, WindowOK, BoundsOK
<1>3. CASE link = "down"
  <2>1. Return(FALSE) /\ UNCHANGED <<asked, late>>
    BY <1>3 DEF Request
  <2>2. NetworkOK' /\ HistoryOK'
    BY <1>1, <2>1 DEF ClientInv, TypeOK, NetworkOK, HistoryOK
  <2>3. ThreadsOK' /\ StageInv' /\ EventInv'
    BY <1>1, <2>1, ReturnStage
  <2>4. CacheInv'
    BY <1>1, <2>1 DEF ClientInv, CacheInv, CacheComplete, Return
  <2>5. ListenerFed'
    BY <1>1, <1>3 DEF ListenerFed
  <2> QED
    BY <1>2, <2>2, <2>3, <2>4, <2>5 DEF ClientInv, TypeOK
<1>4. CASE link # "down"
  <2>1. /\ holder' = IF Locks(job) THEN "requester" ELSE holder
        /\ rpc' = "receive" /\ stage' = stage /\ job' = job
        /\ \/ asked' = Append(asked, job) /\ late' = late
           \/ asked' = asked /\ late' = TRUE
    BY <1>4 DEF Request
  <2>2. job \in Kinds /\ AtStage
    BY <1>1 DEF ClientInv, TypeOK, ThreadsOK, StageInv
  <2>3. /\ asked' \in Seq(Kinds) /\ Len(asked) \in Nat /\ Len(wire) \in Nat /\ Len(ready) \in Nat
    BY <2>1, <2>2, SeqFacts, QueueFacts DEF ClientInv, TypeOK, NetworkOK
  <2>4. NetworkOK'
    BY <1>1, <2>3 DEF ClientInv, TypeOK, NetworkOK
  <2>5. HistoryOK'
    BY <1>1, <2>1 DEF ClientInv, TypeOK, HistoryOK
  <2>6. ThreadsOK'
    BY <1>1, <2>1 DEF ClientInv, TypeOK, ThreadsOK
  <2>7. StageInv'
    BY <1>1, <2>1, NoValue DEF ClientInv, StageInv, AtStage, MayLock, Locks
  <2>8. EventInv' /\ CacheInv'
    BY <1>1, <2>1 DEF ClientInv, EventInv, CacheInv, CacheComplete
  <2>9. ListenerFed'
    <3> SUFFICES ASSUME lpc' \in {"lock", "receive"}, ~late', link' = "up"
                 PROVE  Len(ready') + Len(wire') + Len(asked') > 1
      BY <2>1 DEF ListenerFed
    <3>1. ~late /\ Len(asked') = Len(asked) + 1
      <4>1. asked' = Append(asked, job) /\ late' = late
        BY <2>1
      <4> QED
        BY <4>1, <2>2, SeqFacts DEF ClientInv, TypeOK, NetworkOK
    <3>2. Len(ready) + Len(wire) + Len(asked) > 0
      BY <1>1, <3>1 DEF ClientInv, ListenerFed
    <3> QED
      BY <1>1, <2>3, <3>1, <3>2
  <2> QED
    BY <1>2, <2>4, <2>5, <2>6, <2>7, <2>8, <2>9 DEF ClientInv, TypeOK
<1> QED
  BY <1>3, <1>4

LEMMA ReadDatabaseInv ==
  ASSUME ClientInv, ReadDatabase
  PROVE  ClientInv'
<1>1. /\ rpc = "lock" /\ MayLock(job) /\ users' = rows /\ Return(TRUE) /\ rpc' = "idle"
      /\ UNCHANGED <<link, logged, up, asked, wire, ready, lpc, events, online, contacts, shown,
                     rows, stamp, overtaken, late, spoiled, starts, moves, sends, timeouts>>
  BY DEF ReadDatabase, Return, network, database, bounds, history
<1>2. NetworkOK' /\ WindowOK' /\ HistoryOK' /\ BoundsOK'
  BY <1>1 DEF ClientInv, TypeOK, NetworkOK, WindowOK, HistoryOK, BoundsOK
<1>3. ThreadsOK' /\ StageInv' /\ EventInv'
  BY <1>1, ReturnStage
<1>4. CacheInv' /\ ListenerFed'
  BY <1>1 DEF ClientInv, CacheInv, CacheComplete, ListenerFed
<1> QED
  BY <1>2, <1>3, <1>4 DEF ClientInv, TypeOK

LEMMA ReadMoreInv ==
  ASSUME ClientInv, ReadMore
  PROVE  ClientInv'
<1>1. /\ ready = <<>> /\ ready' = wire /\ wire' = <<>>
      /\ UNCHANGED <<link, logged, up, asked, holder, stage, job, rpc, lpc, events, users, online,
                     contacts, shown, rows, stamp, overtaken, late, spoiled, starts, moves, sends,
                     timeouts>>
  BY DEF ReadMore, window, database, bounds, history
<1>2. NetworkOK'
  BY <1>1, EmptyQueue DEF ClientInv, TypeOK, NetworkOK
<1>3. ThreadsOK' /\ WindowOK' /\ HistoryOK' /\ BoundsOK'
  BY <1>1 DEF ClientInv, TypeOK, ThreadsOK, WindowOK, HistoryOK, BoundsOK
<1>4. StageInv' /\ EventInv' /\ CacheInv'
  BY <1>1 DEF ClientInv, StageInv, AtStage, Locks, EventInv, CacheInv, CacheComplete
<1>5. ListenerFed'
  <2>1. Len(ready) = 0 /\ Len(wire) \in Nat /\ Len(wire') = 0
    BY <1>1, EmptyQueue, QueueFacts DEF ClientInv, TypeOK, NetworkOK
  <2>2. Len(asked) \in Nat
    BY SeqFacts DEF ClientInv, TypeOK, NetworkOK
  <2> QED
    BY <1>1, <2>1, <2>2 DEF ClientInv, ListenerFed
<1> QED
  BY <1>2, <1>3, <1>4, <1>5 DEF ClientInv, TypeOK

(* A refused login takes the connection away; nobody listens yet.          *)
LEMMA RefusedInv ==
  ASSUME ClientInv, Refused, rpc = "receive", job = "login",
         overtaken' \in BOOLEAN, late' \in BOOLEAN, BoundsOK',
         UNCHANGED <<lpc, events, contacts, shown, rows, stamp>>
  PROVE  ClientInv'
<1>1. /\ link' \in {"up", "down"} /\ logged' = FALSE /\ asked' = <<>> /\ wire' = <<>> /\ ready' = <<>>
      /\ Return(FALSE) /\ UNCHANGED <<up, users, online, spoiled>>
  BY DEF Refused, Connection
<1>2. NetworkOK'
  BY <1>1, EmptyQueue DEF ClientInv, TypeOK, NetworkOK
<1>3. WindowOK' /\ HistoryOK'
  BY <1>1 DEF ClientInv, TypeOK, WindowOK, HistoryOK
<1>4. ThreadsOK' /\ StageInv' /\ EventInv'
  BY <1>1, ReturnStage
<1>5. CacheInv'
  BY <1>1 DEF ClientInv, CacheInv, CacheComplete, Return
<1>6. lpc = "off"
  BY NoValue DEF ClientInv, StageInv, AtStage
<1>7. ListenerFed'
  BY <1>6 DEF ListenerFed
<1> QED
  BY <1>2, <1>3, <1>4, <1>5, <1>7 DEF ClientInv, TypeOK

(* A message is taken and another one is still there, or due, if the       *)
(* listen thread has been promised one.                                    *)
LEMMA TakeFed ==
  ASSUME ClientInv, rpc = "receive", ready # <<>>, ready' = Tail(ready), rpc' # "receive",
         UNCHANGED <<link, wire, asked, lpc, late>>
  PROVE  ListenerFed'
<1>1. /\ Len(ready') = Len(ready) - 1 /\ Len(ready) \in Nat /\ Len(wire) \in Nat
      /\ Len(asked) \in Nat
  BY SeqFacts, QueueFacts DEF ClientInv, TypeOK, NetworkOK
<1> QED
  BY <1>1 DEF ClientInv, ListenerFed

LEMMA TakeInv ==
  ASSUME ClientInv, Take
  PROVE  ClientInv'
<1> DEFINE m == Head(ready)
<1>1. /\ rpc = "receive" /\ ready # <<>> /\ overtaken' = (overtaken \/ m.kind # job)
      /\ UNCHANGED <<lpc, events, contacts, shown, rows, stamp, starts, moves, sends, timeouts, late>>
  BY DEF Take, database, bounds
<1>2. /\ m \in Messages /\ m.val \subseteq Users /\ Tail(ready) \in Queue
      /\ overtaken' \in BOOLEAN
  BY <1>1, QueueFacts DEF ClientInv, TypeOK, NetworkOK, HistoryOK, Messages
<1>3. BoundsOK' /\ late' \in BOOLEAN
  BY <1>1 DEF ClientInv, TypeOK, BoundsOK, HistoryOK
<1>4. \/ job = "login" /\ TakeLogin(m)
      \/ job = "list" /\ TakeList(m)
      \/ job = "online" /\ TakeOnline(m)
      \/ job = "sendMsg" /\ TakeSent(m)
  BY <1>1 DEF Take, ClientInv, StageInv, AtStage
<1> HIDE DEF m
(* A reply that ends the request: login welcome, online list, sent.        *)
<1>5. ASSUME Return(TRUE), ready' = Tail(ready), UNCHANGED <<network, users, spoiled>>,
             online' = online \/ online' \subseteq Users
      PROVE  ClientInv'
  <2>1. UNCHANGED <<link, logged, up, asked, wire>>
    BY <1>5 DEF network
  <2>2. NetworkOK'
    BY <1>1, <1>2, <1>5, <2>1 DEF ClientInv, TypeOK, NetworkOK
  <2>3. WindowOK' /\ HistoryOK'
    BY <1>1, <1>2, <1>5 DEF ClientInv, TypeOK, WindowOK, HistoryOK
  <2>4. ThreadsOK' /\ StageInv' /\ EventInv'
    BY <1>1, <1>5, ReturnStage
  <2>5. CacheInv'
    BY <1>1, <1>5 DEF ClientInv, CacheInv, CacheComplete, Return
  <2>6. rpc' # "receive"
    BY <1>5 DEF Return
  <2>7. ListenerFed'
    BY <1>1, <1>5, <2>1, <2>6, TakeFed
  <2> QED
    BY <1>3, <2>2, <2>3, <2>4, <2>5, <2>7 DEF ClientInv, TypeOK
<1>6. CASE job = "login" /\ TakeLogin(m)
  <2>1. CASE Refused
    BY <1>1, <1>2, <1>3, <1>6, <2>1, RefusedInv
  <2> QED
    BY <1>5, <1>6, <2>1 DEF TakeLogin
<1>7. CASE job = "list" /\ TakeList(m)
  <2>1. /\ users' = (IF m.kind = "list" THEN m.val ELSE users)
        /\ rpc' = (IF m.kind = "list" /\ rows = {} THEN "insert" ELSE "stamp")
        /\ spoiled' = (spoiled \/ m.kind # "list")
        /\ ready' = Tail(ready)
        /\ UNCHANGED <<link, logged, up, asked, wire, online, holder, stage, job>>
    BY <1>7 DEF TakeList, network
  <2>2. NetworkOK' /\ WindowOK'
    BY <1>1, <1>2, <2>1 DEF ClientInv, TypeOK, NetworkOK, WindowOK
  <2>3. ThreadsOK'
    BY <1>1, <2>1 DEF ClientInv, TypeOK, ThreadsOK
  <2>4. HistoryOK'
    BY <1>1, <1>2, <2>1 DEF ClientInv, TypeOK, HistoryOK
  <2>5. StageInv' /\ EventInv'
    BY <1>1, <1>7, <2>1, NoValue DEF ClientInv, StageInv, AtStage, Locks, EventInv
  <2>6. CacheInv'
    BY <1>1, <1>7, <2>1, UsersFinite DEF ClientInv, CacheInv, CacheComplete
  <2>7. ListenerFed'
    BY <1>1, <2>1, TakeFed
  <2> QED
    BY <1>3, <2>2, <2>3, <2>4, <2>5, <2>6, <2>7 DEF ClientInv, TypeOK
<1>8. CASE job = "online" /\ TakeOnline(m)
  <2>1. online' = online \/ online' \subseteq Users
    BY <1>2, <1>8 DEF TakeOnline
  <2> QED
    BY <1>5, <1>8, <2>1 DEF TakeOnline
<1>9. CASE job = "sendMsg" /\ TakeSent(m)
  BY <1>5, <1>9 DEF TakeSent
<1> QED
  BY <1>4, <1>6, <1>7, <1>8, <1>9

(* Waiting for a message ends.                                             *)
LEMMA CountOK ==
  ASSUME ClientInv, Waited, Count, UNCHANGED <<starts, moves, sends>>
  PROVE  BoundsOK'
<1>1. \/ timeouts' = timeouts
      \/ timeouts' = timeouts + 1 /\ timeouts < MaxTimeouts
  BY DEF Waited, Count
<1> QED
  BY <1>1, Limits DEF ClientInv, TypeOK, BoundsOK

LEMMA TimeOutInv ==
  ASSUME ClientInv, TimeOut
  PROVE  ClientInv'
<1>1. CASE Exit
  BY <1>1, ExitInv
<1>2. CASE ~Exit
  <2>1. /\ rpc = "receive" /\ Waited /\ Count /\ late' = TRUE
        /\ UNCHANGED <<lpc, events, contacts, shown, rows, stamp, starts, moves, sends, overtaken>>
        /\ IF job = "login"
           THEN Refused
           ELSE Return(FALSE) /\ UNCHANGED <<network, ready, users, online, spoiled>>
    BY <1>2 DEF TimeOut, database
  <2>2. BoundsOK' /\ late' \in BOOLEAN /\ overtaken' \in BOOLEAN
    BY <2>1, CountOK DEF ClientInv, TypeOK, HistoryOK
  <2>3. CASE job = "login"
    BY <2>1, <2>2, <2>3, RefusedInv
  <2>4. CASE job # "login"
    <3>1. Return(FALSE) /\ UNCHANGED <<link, logged, up, asked, wire, ready, users, online, spoiled>>
      BY <2>1, <2>4 DEF network
    <3>2. NetworkOK' /\ WindowOK' /\ HistoryOK'
      BY <2>1, <3>1 DEF ClientInv, TypeOK, NetworkOK, WindowOK, HistoryOK
    <3>3. ThreadsOK' /\ StageInv' /\ EventInv'
      BY <2>1, <3>1, ReturnStage
    <3>4. CacheInv' /\ ListenerFed'
      BY <2>1, <3>1 DEF ClientInv, CacheInv, CacheComplete, ListenerFed, Return
    <3> QED
      BY <2>2, <3>2, <3>3, <3>4 DEF ClientInv, TypeOK
  <2> QED
    BY <2>3, <2>4
<1> QED
  BY <1>1, <1>2

(* addUsers: the list is complete before its date is set.                  *)
LEMMA InsertInv ==
  ASSUME ClientInv, Insert
  PROVE  ClientInv'
<1>1. /\ rpc = "insert" /\ rows' = rows \cup {Listed[Cardinality(rows) + 1]}
      /\ rpc' = (IF rows' = Users THEN "stamp" ELSE rpc)
      /\ UNCHANGED <<link, logged, up, asked, wire, ready, holder, stage, job, lpc, events, users, online,
                     contacts, shown, stamp, overtaken, late, spoiled, starts, moves, sends, timeouts>>
  BY DEF Insert, network, window, bounds, history
<1>2. rows' \subseteq Users
  BY <1>1, NextRow DEF ClientInv, TypeOK, WindowOK, CacheInv
<1>3. NetworkOK' /\ HistoryOK' /\ BoundsOK'
  BY <1>1 DEF ClientInv, TypeOK, NetworkOK, HistoryOK, BoundsOK
<1>4. WindowOK'
  BY <1>1, <1>2 DEF ClientInv, TypeOK, WindowOK
<1>5. ThreadsOK'
  BY <1>1 DEF ClientInv, TypeOK, ThreadsOK
<1>6. StageInv' /\ EventInv' /\ ListenerFed'
  BY <1>1 DEF ClientInv, StageInv, AtStage, Locks, EventInv, ListenerFed
<1>7. CacheInv'
  BY <1>1 DEF ClientInv, StageInv, CacheInv, CacheComplete
<1> QED
  BY <1>3, <1>4, <1>5, <1>6, <1>7 DEF ClientInv, TypeOK

LEMMA StampInv ==
  ASSUME ClientInv, Stamp
  PROVE  ClientInv'
<1>1. /\ rpc = "stamp" /\ stamp' = TRUE /\ Return(TRUE)
      /\ UNCHANGED <<link, logged, up, asked, wire, ready, lpc, events, users, online, contacts, shown,
                     rows, overtaken, late, spoiled, starts, moves, sends, timeouts>>
  BY DEF Stamp, network, window, bounds, history
<1>2. NetworkOK' /\ WindowOK' /\ HistoryOK' /\ BoundsOK'
  BY <1>1 DEF ClientInv, TypeOK, NetworkOK, WindowOK, HistoryOK, BoundsOK
<1>3. ThreadsOK' /\ StageInv' /\ EventInv'
  BY <1>1, ReturnStage
<1>4. CacheInv' /\ ListenerFed'
  BY <1>1 DEF ClientInv, CacheInv, CacheComplete, ListenerFed, Return
<1> QED
  BY <1>2, <1>3, <1>4 DEF ClientInv, TypeOK

-----------------------------------------------------------------------------
(* The listen thread.                                                      *)

LEMMA StartListenInv ==
  ASSUME ClientInv, StartListenMsg
  PROVE  ClientInv'
<1>1. /\ stage = "starting" /\ stage' = "started" /\ lpc' = "poll"
      /\ UNCHANGED <<link, logged, up, asked, wire, ready, events, holder, job, rpc, users,
                    online, contacts, shown, rows, stamp, overtaken, late, spoiled, starts,
                    moves, sends, timeouts>>
  BY DEF StartListenMsg, network, window, database, bounds, history
<1>2. NetworkOK' /\ WindowOK' /\ HistoryOK' /\ BoundsOK'
  BY <1>1 DEF ClientInv, TypeOK, NetworkOK, WindowOK, HistoryOK, BoundsOK
<1>3. ThreadsOK'
  BY <1>1 DEF ClientInv, TypeOK, ThreadsOK
<1>4. StageInv'
  BY <1>1, NoValue DEF ClientInv, StageInv, AtStage, Locks
<1>5. EventInv'
  BY <1>1 DEF ClientInv, EventInv
<1>6. CacheInv'
  BY <1>1 DEF ClientInv, CacheInv, CacheComplete
<1>7. ListenerFed'
  BY <1>1 DEF ClientInv, ListenerFed, StageInv, AtStage, Locks
<1> QED
  BY <1>2, <1>3, <1>4, <1>5, <1>6, <1>7 DEF ClientInv, TypeOK

LEMMA FinishedInv ==
  ASSUME ClientInv, Finished
  PROVE  ClientInv'
<1>1. /\ stage = "started" /\ stage' = "wait" /\ events' = Append(events, Message("finished", {}))
      /\ UNCHANGED <<link, logged, up, asked, wire, ready, holder, job, rpc, lpc, users, online, contacts,
                     shown, rows, stamp, overtaken, late, spoiled, starts, moves, sends, timeouts>>
  BY DEF Finished, network, window, database, bounds, history
<1>2. Message("finished", {}) \in Messages
  BY MessageType
<1>3. /\ events' \in Queue /\ Len(events') = Len(events) + 1 /\ Len(events) \in Nat
      /\ DOMAIN events = 1..Len(events) /\ DOMAIN events' = 1..Len(events')
      /\ \A i \in 1..Len(events) : events'[i] = events[i]
  BY <1>1, <1>2, QueueFacts DEF ClientInv, TypeOK, NetworkOK
<1>4. NetworkOK'
  BY <1>1, <1>3 DEF ClientInv, TypeOK, NetworkOK
<1>5. ThreadsOK'
  BY <1>1 DEF ClientInv, TypeOK, ThreadsOK
<1>6. WindowOK' /\ HistoryOK' /\ BoundsOK'
  BY <1>1 DEF ClientInv, TypeOK, WindowOK, HistoryOK, BoundsOK
<1>7. StageInv'
  BY <1>1 DEF ClientInv, StageInv, AtStage, Locks
<1>8. EventInv'
  <2>1. \A i \in 1..Len(events) : events'[i].kind # "finished"
    BY <1>1, <1>3 DEF ClientInv, EventInv
  <2> QED
    BY <1>1, <1>3, <2>1 DEF EventInv
<1>9. CacheInv' /\ ListenerFed'
  BY <1>1 DEF ClientInv, CacheInv, CacheComplete, ListenerFed
<1> QED
  BY <1>4, <1>5, <1>6, <1>7, <1>8, <1>9 DEF ClientInv, TypeOK

LEMMA WakeInv ==
  ASSUME ClientInv, Wake
  PROVE  ClientInv'
<1>1. /\ lpc = "poll" /\ lpc' = "woken" /\ ready' = ready \o wire /\ wire' = <<>>
      /\ UNCHANGED <<link, logged, up, asked, holder, stage, job, rpc, events, users, online, contacts,
                     shown, rows, stamp, overtaken, late, spoiled, starts, moves, sends, timeouts>>
  BY DEF Wake, window, database, bounds, history
<1>2. NetworkOK'
  BY <1>1, EmptyQueue, QueueFacts DEF ClientInv, TypeOK, NetworkOK
<1>3. ThreadsOK'
  BY <1>1 DEF ClientInv, TypeOK, ThreadsOK
<1>4. WindowOK' /\ HistoryOK' /\ BoundsOK'
  BY <1>1 DEF ClientInv, TypeOK, WindowOK, HistoryOK, BoundsOK
<1>5. StageInv' /\ EventInv' /\ CacheInv' /\ ListenerFed'
  BY <1>1 DEF ClientInv, StageInv, AtStage, Locks, EventInv, CacheInv, CacheComplete, ListenerFed
<1> QED
  BY <1>2, <1>3, <1>4, <1>5 DEF ClientInv, TypeOK

(* haveMsg() is asked when no request has the mutex: nobody else is about  *)
(* to take what it sees.                                                   *)
LEMMA CheckInv ==
  ASSUME ClientInv, Check
  PROVE  ClientInv'
<1>1. /\ lpc = "woken" /\ lpc' = (IF holder # Null \/ ready = <<>> THEN "poll" ELSE "lock")
      /\ UNCHANGED <<link, logged, up, asked, wire, ready, holder, stage, job, rpc, events, users, online,
                     contacts, shown, rows, stamp, overtaken, late, spoiled, starts, moves, sends,
                     timeouts>>
  BY DEF Check, network, window, database, bounds, history
<1>2. NetworkOK' /\ WindowOK' /\ HistoryOK' /\ BoundsOK'
  BY <1>1 DEF ClientInv, TypeOK, NetworkOK, WindowOK, HistoryOK, BoundsOK
<1>3. ThreadsOK'
  BY <1>1 DEF ClientInv, TypeOK, ThreadsOK
<1>4. StageInv' /\ EventInv' /\ CacheInv'
  BY <1>1 DEF ClientInv, StageInv, AtStage, Locks, EventInv, CacheInv, CacheComplete
<1>5. ListenerFed'
  <2> SUFFICES ASSUME lpc' = "lock" PROVE Len(ready) + Len(wire) + Len(asked) > (IF rpc = "receive" THEN 1 ELSE 0)
    BY <1>1 DEF ListenerFed
  <2>1. rpc # "receive"
    BY <1>1, NoValue DEF ClientInv, StageInv, AtStage, Locks
  <2>2. Len(ready) > 0 /\ Len(ready) \in Nat /\ Len(wire) \in Nat
    BY <1>1, QueueFacts DEF ClientInv, TypeOK, NetworkOK
  <2>3. Len(asked) \in Nat
    BY SeqFacts DEF ClientInv, TypeOK, NetworkOK
  <2> QED
    BY <2>1, <2>2, <2>3
<1> QED
  BY <1>2, <1>3, <1>4, <1>5 DEF ClientInv, TypeOK

LEMMA ListenLockInv ==
  ASSUME ClientInv, ListenLock
  PROVE  ClientInv'
<1>1. /\ lpc = "lock" /\ holder = Null /\ holder' = "listener" /\ lpc' = "receive"
      /\ UNCHANGED <<link, logged, up, asked, wire, ready, stage, job, rpc, events, users, online,
                     contacts, shown, rows, stamp, overtaken, late, spoiled, starts, moves, sends,
                     timeouts>>
  BY DEF ListenLock, network, window, database, bounds, history
<1>2. NetworkOK' /\ WindowOK' /\ HistoryOK' /\ BoundsOK'
  BY <1>1 DEF ClientInv, TypeOK, NetworkOK, WindowOK, HistoryOK, BoundsOK
<1>3. ThreadsOK'
  BY <1>1 DEF ClientInv, TypeOK, ThreadsOK
<1>4. StageInv'
  BY <1>1, NoValue DEF ClientInv, StageInv, AtStage, Locks
<1>5. EventInv' /\ CacheInv' /\ ListenerFed'
  BY <1>1 DEF ClientInv, EventInv, CacheInv, CacheComplete, ListenerFed
<1> QED
  BY <1>2, <1>3, <1>4, <1>5 DEF ClientInv, TypeOK

(* A notice is a new event, never the end of initData.                     *)
LEMMA ListenTakeInv ==
  ASSUME ClientInv, ListenTake
  PROVE  ClientInv'
<1> DEFINE m == Head(ready)
<1>1. /\ lpc = "receive" /\ ready # <<>> /\ ready' = Tail(ready) /\ lpc' = "poll" /\ holder' = Null
      /\ \/ events' = events
         \/ m.kind \in {"toOnline", "toOffline", "chat"} /\ events' = Append(events, m)
      /\ UNCHANGED <<link, logged, up, asked, wire, stage, job, rpc, users, online, contacts, shown,
                     rows, stamp, overtaken, late, spoiled, starts, moves, sends, timeouts>>
  BY DEF ListenTake, ListenUnlock, network, window, database, bounds, history
<1>2. m \in Messages /\ ready' \in Queue
  BY <1>1, QueueFacts DEF ClientInv, TypeOK, NetworkOK
<1> HIDE DEF m
<1>3. events' \in Queue /\ EventInv'
  <2>1. CASE events' = events
    BY <1>1, <2>1 DEF ClientInv, TypeOK, NetworkOK, EventInv
  <2>2. CASE m.kind \in {"toOnline", "toOffline", "chat"} /\ events' = Append(events, m)
    <3>1. /\ events' \in Queue /\ Len(events') = Len(events) + 1 /\ Len(events) \in Nat
          /\ DOMAIN events = 1..Len(events)
          /\ \A i \in 1..Len(events) + 1 : events'[i] = IF i <= Len(events) THEN events[i] ELSE m
      BY <1>2, <2>2, QueueFacts DEF ClientInv, TypeOK, NetworkOK
    <3>2. DOMAIN events' = 1..Len(events) + 1
      BY <3>1, QueueFacts
    <3>3. \A i \in DOMAIN events' : events'[i].kind = "finished" =>
            i \in DOMAIN events /\ events[i].kind = "finished"
      BY <2>2, <3>1, <3>2
    <3> QED
      BY <1>1, <3>1, <3>3 DEF ClientInv, EventInv
  <2> QED
    BY <1>1, <2>1, <2>2
<1>4. NetworkOK'
  BY <1>1, <1>2, <1>3 DEF ClientInv, TypeOK, NetworkOK
<1>5. WindowOK' /\ HistoryOK' /\ BoundsOK'
  BY <1>1 DEF ClientInv, TypeOK, WindowOK, HistoryOK, BoundsOK
<1>6. ThreadsOK'
  BY <1>1 DEF ClientInv, TypeOK, ThreadsOK
<1>7. StageInv'
  BY <1>1, NoValue DEF ClientInv, StageInv, AtStage, Locks
<1>8. CacheInv' /\ ListenerFed'
  BY <1>1 DEF ClientInv, CacheInv, CacheComplete, ListenerFed
<1> QED
  BY <1>3, <1>4, <1>5, <1>6, <1>7, <1>8 DEF ClientInv, TypeOK

LEMMA ListenTimeOutInv ==
  ASSUME ClientInv, ListenTimeOut
  PROVE  ClientInv'
<1>1. CASE Exit
  BY <1>1, ExitInv
<1>2. CASE ~Exit
  <2>1. /\ lpc = "receive" /\ Waited /\ Count /\ late' = TRUE
        /\ \/ lpc' = "dead" /\ holder' = holder
           \/ lpc' = "poll" /\ holder' = Null
        /\ UNCHANGED <<link, logged, up, asked, wire, ready, stage, job, rpc, events, users, online,
                       contacts, shown, rows, stamp, starts, moves, sends, overtaken, spoiled>>
    BY <1>2 DEF ListenTimeOut, ListenUnlock, network, window, database
  <2>2. NetworkOK' /\ WindowOK' /\ HistoryOK'
    BY <2>1 DEF ClientInv, TypeOK, NetworkOK, WindowOK, HistoryOK
  <2>3. BoundsOK'
    BY <2>1, CountOK
  <2>4. ThreadsOK'
    BY <2>1 DEF ClientInv, TypeOK, ThreadsOK
  <2>5. StageInv'
    BY <2>1, NoValue DEF ClientInv, StageInv, AtStage, Locks
  <2>6. EventInv' /\ CacheInv' /\ ListenerFed'
    BY <2>1 DEF ClientInv, EventInv, CacheInv, CacheComplete, ListenerFed
  <2> QED
    BY <2>2, <2>3, <2>4, <2>5, <2>6 DEF ClientInv, TypeOK
<1> QED
  BY <1>1, <1>2

-----------------------------------------------------------------------------
(* The main thread.                                                        *)

(* The rest of the events after the first, which is the only end.          *)
LEMMA RestOfEvents ==
  ASSUME ClientInv, events # <<>>, events' = Tail(events)
  PROVE  /\ events' \in Queue
         /\ stage' = stage => EventInv'
         /\ Head(events).kind = "finished" => stage = "wait" /\ EventInv'
<1>1. /\ events' \in Queue /\ Len(events) \in Nat /\ Len(events) > 0 /\ Len(events') = Len(events) - 1
      /\ DOMAIN events = 1..Len(events) /\ Head(events) = events[1]
      /\ \A i \in 1..Len(events) - 1 : events'[i] = events[i + 1]
  BY QueueFacts DEF ClientInv, TypeOK, NetworkOK
<1>2. DOMAIN events' = 1..Len(events) - 1
  BY <1>1, QueueFacts
<1>3. \A i \in DOMAIN events' : i + 1 \in DOMAIN events /\ events'[i] = events[i + 1] /\ i + 1 # 1
  BY <1>1, <1>2
<1>4. EventInv
  BY DEF ClientInv
<1>5. ASSUME stage' = stage PROVE EventInv'
  <2>1. \A i \in DOMAIN events' : events'[i].kind = "finished" => stage' = "wait"
    BY <1>3, <1>4, <1>5 DEF EventInv
  <2>2. \A i, j \in DOMAIN events' : events'[i].kind = "finished" /\ events'[j].kind = "finished" => i + 1 = j + 1
    BY <1>3, <1>4 DEF EventInv
  <2>3. \A i, j \in DOMAIN events' : i + 1 = j + 1 => i = j
    BY <1>2
  <2> QED
    BY <2>1, <2>2, <2>3 DEF EventInv
<1>6. ASSUME Head(events).kind = "finished" PROVE stage = "wait" /\ EventInv'
  <2>1. 1 \in DOMAIN events /\ events[1].kind = "finished"
    BY <1>1, <1>6
  <2>2. \A i \in DOMAIN events' : events'[i].kind # "finished"
    BY <1>3, <1>4, <2>1 DEF EventInv
  <2> QED
    BY <1>4, <2>1, <2>2 DEF EventInv
<1> QED
  BY <1>1, <1>5, <1>6

LEMMA InitUiInv ==
  ASSUME ClientInv, InitUi, events # <<>>, Head(events).kind = "finished"
  PROVE  ClientInv'
<1>1. CASE users = Null \/ (online = Null /\ users \ {Self} # {})
  BY <1>1, ExitInv DEF InitUi
<1>2. CASE ~(users = Null \/ (online = Null /\ users \ {Self} # {}))
  <2>1. /\ users # Null /\ contacts' = users /\ shown' = ShownFirst /\ stage' = "shown"
        /\ events' = Tail(events)
        /\ UNCHANGED <<link, logged, up, asked, wire, ready, holder, job, rpc, lpc, users, online, rows,
                       stamp, overtaken, late, spoiled, starts, moves, sends, timeouts>>
    BY <1>2 DEF InitUi, network, database, bounds, history
  <2>2. events' \in Queue /\ stage = "wait" /\ EventInv'
    BY <2>1, RestOfEvents
  <2>3. NetworkOK'
    BY <2>1, <2>2 DEF ClientInv, TypeOK, NetworkOK
  <2>4. WindowOK' /\ HistoryOK' /\ BoundsOK'
    BY <2>1 DEF ClientInv, TypeOK, WindowOK, HistoryOK, BoundsOK, ShownFirst
  <2>5. ThreadsOK'
    BY <2>1 DEF ClientInv, TypeOK, ThreadsOK
  <2>6. StageInv'
    BY <2>1, <2>2 DEF ClientInv, StageInv, AtStage, Locks
  <2>7. CacheInv' /\ ListenerFed'
    BY <2>1 DEF ClientInv, CacheInv, CacheComplete, ListenerFed
  <2> QED
    BY <2>2, <2>3, <2>4, <2>5, <2>6, <2>7 DEF ClientInv, TypeOK
<1> QED
  BY <1>1, <1>2

LEMMA NoticeInv ==
  ASSUME ClientInv, events # <<>>, Presence(Head(events)) \/ ShowChat
  PROVE  ClientInv'
<1>1. CASE Exit
  BY <1>1, ExitInv
<1>2. CASE ~Exit
  <2> DEFINE e == Head(events)
  <2>1. /\ events' = Tail(events)
        /\ \/ shown' = shown \cup e.val /\ e.val \subseteq contacts
           \/ shown' = shown \ e.val
           \/ shown' = shown
        /\ UNCHANGED <<link, logged, up, asked, wire, ready, holder, stage, job, rpc, lpc, users, online,
                       contacts, rows, stamp, overtaken, late, spoiled, starts, moves, sends, timeouts>>
    BY <1>2 DEF Presence, Show, ShowChat, network, window, database, bounds, history
  <2> HIDE DEF e
  <2>2. events' \in Queue /\ EventInv'
    BY <2>1, RestOfEvents
  <2>3. NetworkOK'
    BY <2>1, <2>2 DEF ClientInv, TypeOK, NetworkOK
  <2>4. WindowOK'
    BY <2>1 DEF ClientInv, TypeOK, WindowOK
  <2>5. ThreadsOK' /\ HistoryOK' /\ BoundsOK'
    BY <2>1 DEF ClientInv, TypeOK, ThreadsOK, HistoryOK, BoundsOK
  <2>6. StageInv' /\ CacheInv' /\ ListenerFed'
    BY <2>1 DEF ClientInv, StageInv, AtStage, Locks, CacheInv, CacheComplete, ListenerFed
  <2> QED
    BY <2>2, <2>3, <2>4, <2>5, <2>6 DEF ClientInv, TypeOK
<1> QED
  BY <1>1, <1>2

LEMMA EventStep ==
  ASSUME ClientInv, Event
  PROVE  ClientInv'
<1>1. CASE Head(events).kind = "finished"
  BY <1>1, InitUiInv DEF Event
<1>2. CASE Head(events).kind # "finished"
  BY <1>2, NoticeInv DEF Event
<1> QED
  BY <1>1, <1>2

LEMMA ClientStep ==
  ASSUME ClientInv, [Next]_vars
  PROVE  ClientInv'
<1>1. CASE UNCHANGED vars
  <2>1. UNCHANGED <<link, logged, up, asked, wire, ready, holder, stage, job, rpc, lpc, events, users,
                    online, contacts, shown, rows, stamp, overtaken, late, spoiled, starts, moves, sends,
                    timeouts>>
    BY <1>1 DEF vars, network, window, database, bounds, history
  <2>2. TypeOK'
    BY <2>1 DEF ClientInv, TypeOK, NetworkOK, ThreadsOK, WindowOK, HistoryOK, BoundsOK
  <2>3. StageInv' /\ EventInv' /\ CacheInv' /\ ListenerFed'
    BY <2>1 DEF ClientInv, StageInv, AtStage, Locks, EventInv, CacheInv, CacheComplete, ListenerFed
  <2> QED
    BY <2>2, <2>3 DEF ClientInv
<1>2. CASE Start \/ Quit \/ Answer \/ Disconnect \/ \E u \in Others : Move(u)
  BY <1>2, StartInv, ExitInv, AnswerInv, DisconnectInv, MoveInv DEF Quit
<1>3. CASE Begins \/ Requests \/ ReadMore
  BY <1>3, BeginInv, RequestInv, ReadDatabaseInv, TakeInv, TimeOutInv, InsertInv, StampInv, ReadMoreInv
  DEF Begins, Requests
<1>4. CASE StartListenMsg \/ Finished \/ Listens
  BY <1>4, StartListenInv, FinishedInv, WakeInv, CheckInv, ListenLockInv, ListenTakeInv, ListenTimeOutInv
  DEF Listens
<1>5. CASE Event
  BY <1>5, EventStep
<1> QED
  BY <1>1, <1>2, <1>3, <1>4, <1>5 DEF Next

LEMMA ClientInvariant == Spec => []ClientInv
  BY ClientInit, ClientStep, PTL DEF Spec

-----------------------------------------------------------------------------
(* The client's variables keep their types, however many users there are   *)
(* and however often it starts, is cut off or must wait.                   *)
THEOREM ClientTypes == Spec => []TypeOK
<1>1. ClientInv => TypeOK
  BY DEF ClientInv
<1> QED
  BY <1>1, ClientInvariant, PTL

(* The mutex that getOnline() gives back without having taken it           *)
(* (fxclient.cpp:252) is free: the listen thread does not run before       *)
(* initData has returned from it, and requests follow one another.         *)
THEOREM UnlockHarmless == Spec => []OwnUnlock
<1>1. ASSUME ClientInv PROVE OwnUnlock
  <2> SUFFICES ASSUME job = "online" PROVE holder = Null /\ lpc = "off"
    BY DEF OwnUnlock
  <2>1. rpc # "idle" /\ lpc = "off"
    BY <1>1, NoValue DEF ClientInv, StageInv, AtStage, Kinds
  <2>2. holder # "requester" /\ holder # "listener"
    BY <1>1, <2>1 DEF ClientInv, StageInv, Locks
  <2> QED
    BY <1>1, <2>1, <2>2 DEF ClientInv, TypeOK, ThreadsOK
<1> QED
  BY <1>1, ClientInvariant, PTL

(* The check of haveMsg() outside the mutex (fxclient.cpp:427-435) does    *)
(* not make the listen thread wait for a message that a request has taken. *)
THEOREM ListenerIsFed == Spec => []ListenerFed
<1>1. ClientInv => ListenerFed
  BY DEF ClientInv
<1> QED
  BY <1>1, ClientInvariant, PTL

(* The date of the last update is stored after the last row of the list    *)
(* (fxclient.cpp:179-188), so a database that has it has every user,       *)
(* wherever the process was cut off, except within addUsers.               *)
THEOREM CacheIsComplete == Spec => []CacheComplete
<1>1. ClientInv => CacheComplete
  BY DEF ClientInv, CacheInv
<1> QED
  BY <1>1, ClientInvariant, PTL

-----------------------------------------------------------------------------
(* What the messages on their way to the window say of user u: a notice    *)
(* that he came or left, and the reply to getOnline(), which counts until  *)
(* a notice of him follows.                                                *)
Of(m, u)     == m.kind \in {"toOnline", "toOffline"} /\ u \in m.val
Tells(m, u)  == Of(m, u) \/ m.kind = "online"
Claims(m, u) == IF m.kind = "online" THEN u \in m.val ELSE m.kind = "toOnline"
LastWord(q, u, i) == \A j \in DOMAIN q : j > i => ~Of(q[j], u)
Silent(q, u) == \A j \in DOMAIN q : ~Of(q[j], u)
Truthful(q, P) ==
  \A u \in Others : \A i \in DOMAIN q :
    Tells(q[i], u) /\ LastWord(q, u, i) => (Claims(q[i], u) <=> u \in P)

Unread == ready \o wire
Stream == events \o Unread

(* A connection starts without a message, and login is asked first.        *)
FreshInv ==
  /\ stage \in {"off", "dialog"} /\ rpc # "receive" => asked = <<>> /\ Unread = <<>> /\ ~logged
  /\ stage = "dialog" /\ rpc = "receive" =>
       asked = <<>> \/ (asked = <<"login">> /\ Unread = <<>> /\ ~logged)
  /\ link = "down" => ~logged
  /\ \A i \in DOMAIN asked : asked[i] \in {"list", "online", "sendMsg"} \/
                             (asked[i] = "login" /\ stage = "dialog")
  /\ stage \in {"off", "dialog", "list", "online", "starting"} => events = <<>>

(* The last word on a user is the truth, and where nothing is said of him  *)
(* the window, or the vector it will be made from, has it already.         *)
Known(u) ==
  /\ stage \in {"starting", "started", "wait"} => (u \in online <=> u \in up)
  /\ stage = "shown" /\ u \in contacts => (u \in shown <=> u \in up)
TruthInv == logged /\ ~overtaken => Truthful(Stream, up)
KnownInv ==
  logged /\ ~overtaken /\ ~late => \A u \in Others : Silent(Stream, u) => Known(u)

(* Signals are notices and the end of initData; before it there is no      *)
(* contact.                                                                *)
SignalInv ==
  /\ \A i \in DOMAIN events : events[i].kind \in {"toOnline", "toOffline", "chat", "finished"}
  /\ stage # "shown" => contacts = {}

ViewInv == FreshInv /\ TruthInv /\ KnownInv

-----------------------------------------------------------------------------
(* Streams of two parts, element by element.                               *)
LEMMA QueueConcat ==
  ASSUME NEW q \in Queue, NEW r \in Queue
  PROVE  /\ q \o r \in Queue /\ Len(q \o r) = Len(q) + Len(r) /\ DOMAIN (q \o r) = 1..Len(q) + Len(r)
         /\ \A i \in 1..Len(q) : (q \o r)[i] = q[i]
         /\ \A i \in 1..Len(r) : (q \o r)[Len(q) + i] = r[i]
<1>1. q \o r \in Queue /\ Len(q \o r) = Len(q) + Len(r) /\ DOMAIN (q \o r) = 1..Len(q) + Len(r)
  BY DEF Queue
<1>2. \A i \in 1..Len(q) : (q \o r)[i] = q[i]
  BY DEF Queue
<1>3. \A i \in 1..Len(r) : (q \o r)[Len(q) + i] = r[i]
  BY DEF Queue
<1> QED
  BY <1>1, <1>2, <1>3

LEMMA QueueEqual ==
  ASSUME NEW q \in Queue, NEW r \in Queue, Len(q) = Len(r), \A i \in 1..Len(q) : q[i] = r[i]
  PROVE  q = r
  BY DEF Queue

LEMMA ConcatEmpty ==
  ASSUME NEW q \in Queue
  PROVE  q \o <<>> = q /\ <<>> \o q = q
<1>1. <<>> \in Queue /\ Len(<<>>) = 0
  BY EmptyQueue
<1>2. q \o <<>> = q
  <2>1. q \o <<>> \in Queue /\ Len(q \o <<>>) = Len(q)
    BY <1>1, QueueConcat, QueueFacts
  <2>2. \A i \in 1..Len(q) : (q \o <<>>)[i] = q[i]
    BY <1>1, QueueConcat
  <2> QED
    BY <2>1, <2>2, QueueEqual
<1>3. <<>> \o q = q
  <2>1. <<>> \o q \in Queue /\ Len(<<>> \o q) = Len(q)
    BY <1>1, QueueConcat, QueueFacts
  <2>2. \A i \in 1..Len(q) : (<<>> \o q)[i] = q[i]
    <3> TAKE i \in 1..Len(q)
    <3>1. (<<>> \o q)[0 + i] = q[i]
      BY <1>1, QueueConcat
    <3>2. 0 + i = i
      BY QueueFacts
    <3> QED
      BY <3>1, <3>2
  <2> QED
    BY <2>1, <2>2, QueueEqual
<1> QED
  BY <1>2, <1>3

(* A new message at the end of a stream of two parts.                      *)
LEMMA ConcatAppend ==
  ASSUME NEW q \in Queue, NEW r \in Queue, NEW m \in Messages
  PROVE  q \o Append(r, m) = Append(q \o r, m)
<1>1. Append(r, m) \in Queue /\ Len(Append(r, m)) = Len(r) + 1 /\ Len(q) \in Nat /\ Len(r) \in Nat
      /\ \A i \in 1..Len(r) + 1 : Append(r, m)[i] = IF i <= Len(r) THEN r[i] ELSE m
  BY QueueFacts
<1>2. q \o r \in Queue /\ Len(q \o r) = Len(q) + Len(r)
  BY QueueConcat
<1>3. Append(q \o r, m) \in Queue /\ Len(Append(q \o r, m)) = Len(q) + Len(r) + 1
      /\ \A i \in 1..Len(q) + Len(r) + 1 :
           Append(q \o r, m)[i] = IF i <= Len(q) + Len(r) THEN (q \o r)[i] ELSE m
  <2>1. PICK s \in Queue : s = q \o r
    BY <1>2
  <2>2. Append(s, m) \in Queue /\ Len(Append(s, m)) = Len(s) + 1
        /\ \A i \in 1..Len(s) + 1 : Append(s, m)[i] = IF i <= Len(s) THEN s[i] ELSE m
    BY QueueFacts
  <2>3. Len(s) = Len(q) + Len(r)
    BY <1>2, <2>1
  <2> QED
    BY <2>1, <2>2, <2>3
<1>4. q \o Append(r, m) \in Queue /\ Len(q \o Append(r, m)) = Len(q) + Len(r) + 1
  BY <1>1, QueueConcat
<1>5. ASSUME NEW i \in 1..Len(q) + Len(r) + 1
      PROVE  (q \o Append(r, m))[i] = Append(q \o r, m)[i]
  <2>1. CASE i <= Len(q)
    BY <2>1, <1>1, <1>3, QueueConcat
  <2>2. CASE i > Len(q)
    <3>1. PICK k \in 1..Len(r) + 1 : i = Len(q) + k
      <4>1. i - Len(q) \in 1..Len(r) + 1 /\ i = Len(q) + (i - Len(q))
        BY <2>2, <1>1
      <4> QED
        BY <4>1
    <3>2. (q \o Append(r, m))[i] = Append(r, m)[k]
      BY <3>1, <1>1, QueueConcat
    <3>3. CASE k <= Len(r)
      <4>1. (q \o r)[i] = r[k] /\ i <= Len(q) + Len(r)
        BY <3>1, <3>3, <1>1, QueueConcat
      <4> QED
        BY <4>1, <3>2, <3>3, <1>1, <1>3
    <3>4. CASE k > Len(r)
      <4>1. i > Len(q) + Len(r)
        BY <3>1, <3>4, <1>1
      <4> QED
        BY <4>1, <3>2, <3>4, <1>1, <1>3
    <3> QED
      BY <3>3, <3>4, <1>1
  <2> QED
    BY <2>1, <2>2, <1>1
<1> QED
  BY <1>3, <1>4, <1>5, QueueEqual

(* The first message of a stream of two parts is taken.                    *)
LEMMA ConcatTail ==
  ASSUME NEW q \in Queue, NEW r \in Queue, q # <<>>
  PROVE  /\ Tail(q) \o r = Tail(q \o r) /\ q \o r # <<>> /\ Head(q \o r) = Head(q)
<1>1. Tail(q) \in Queue /\ Len(Tail(q)) = Len(q) - 1 /\ Len(q) > 0 /\ Head(q) = q[1] /\ Len(q) \in Nat
      /\ Len(r) \in Nat /\ \A i \in 1..Len(q) - 1 : Tail(q)[i] = q[i + 1]
  BY QueueFacts
<1>2. q \o r \in Queue /\ Len(q \o r) = Len(q) + Len(r)
  BY QueueConcat
<1>3. q \o r # <<>>
  BY <1>1, <1>2, EmptyQueue
<1>4. Tail(q \o r) \in Queue /\ Len(Tail(q \o r)) = Len(q) + Len(r) - 1 /\ Head(q \o r) = (q \o r)[1]
      /\ \A i \in 1..Len(q) + Len(r) - 1 : Tail(q \o r)[i] = (q \o r)[i + 1]
  <2>1. PICK s \in Queue : s = q \o r
    BY <1>2
  <2>2. s # <<>>
    BY <1>3, <2>1
  <2>3. Tail(s) \in Queue /\ Len(Tail(s)) = Len(s) - 1 /\ Head(s) = s[1]
        /\ \A i \in 1..Len(s) - 1 : Tail(s)[i] = s[i + 1]
    BY <2>2, QueueFacts
  <2>4. Len(s) = Len(q) + Len(r)
    BY <1>2, <2>1
  <2> QED
    BY <2>1, <2>3, <2>4
<1>5. Head(q \o r) = Head(q)
  BY <1>1, <1>4, QueueConcat
<1>6. Tail(q) \o r \in Queue /\ Len(Tail(q) \o r) = Len(q) - 1 + Len(r)
  BY <1>1, QueueConcat
<1>7. ASSUME NEW i \in 1..Len(q) - 1 + Len(r)
      PROVE  (Tail(q) \o r)[i] = Tail(q \o r)[i]
  <2>0. Tail(q \o r)[i] = (q \o r)[i + 1]
    BY <1>1, <1>4
  <2>1. CASE i <= Len(q) - 1
    <3>1. (Tail(q) \o r)[i] = Tail(q)[i] /\ Tail(q)[i] = q[i + 1]
      BY <2>1, <1>1, QueueConcat
    <3>2. (q \o r)[i + 1] = q[i + 1]
      BY <2>1, <1>1, QueueConcat
    <3> QED
      BY <2>0, <3>1, <3>2
  <2>2. CASE i > Len(q) - 1
    <3>1. PICK k \in 1..Len(r) : i = Len(q) - 1 + k
      <4>1. i - (Len(q) - 1) \in 1..Len(r) /\ i = Len(q) - 1 + (i - (Len(q) - 1))
        BY <2>2, <1>1
      <4> QED
        BY <4>1
    <3>2. (Tail(q) \o r)[i] = r[k]
      BY <3>1, <1>1, QueueConcat
    <3>3. (q \o r)[Len(q) + k] = r[k] /\ i + 1 = Len(q) + k
      BY <3>1, <1>1, QueueConcat
    <3> QED
      BY <2>0, <3>2, <3>3
  <2> QED
    BY <2>1, <2>2, <1>1
<1>8. Tail(q) \o r = Tail(q \o r)
  BY <1>1, <1>4, <1>6, <1>7, QueueEqual
<1> QED
  BY <1>3, <1>5, <1>8

(* The listen thread moves a message from one part to the other.           *)
LEMMA ConcatShift ==
  ASSUME NEW q \in Queue, NEW r \in Queue, r # <<>>
  PROVE  Append(q, Head(r)) \o Tail(r) = q \o r
<1>1. Tail(r) \in Queue /\ Len(Tail(r)) = Len(r) - 1 /\ Len(r) > 0 /\ Head(r) = r[1] /\ Len(r) \in Nat
      /\ Len(q) \in Nat /\ Head(r) \in Messages /\ \A i \in 1..Len(r) - 1 : Tail(r)[i] = r[i + 1]
  BY QueueFacts
<1>2. PICK a \in Queue : a = Append(q, Head(r))
  BY <1>1, QueueFacts
<1>3. Len(a) = Len(q) + 1 /\ \A i \in 1..Len(q) + 1 : a[i] = IF i <= Len(q) THEN q[i] ELSE Head(r)
  BY <1>1, <1>2, QueueFacts
<1>4. a \o Tail(r) \in Queue /\ Len(a \o Tail(r)) = Len(q) + Len(r)
  <2>1. PICK t \in Queue : t = Tail(r)
    BY <1>1
  <2>2. a \o t \in Queue /\ Len(a \o t) = Len(a) + Len(t)
    BY QueueConcat
  <2>3. Len(a) + Len(t) = Len(q) + Len(r)
    BY <1>1, <1>3, <2>1
  <2> QED
    BY <2>1, <2>2, <2>3
<1>5. q \o r \in Queue /\ Len(q \o r) = Len(q) + Len(r)
  BY QueueConcat
<1>6. ASSUME NEW i \in 1..Len(q) + Len(r)
      PROVE  (a \o Tail(r))[i] = (q \o r)[i]
  <2>1. CASE i <= Len(q)
    <3>1. (a \o Tail(r))[i] = a[i] /\ a[i] = q[i]
      BY <2>1, <1>1, <1>3, QueueConcat
    <3>2. (q \o r)[i] = q[i]
      BY <2>1, QueueConcat
    <3> QED
      BY <3>1, <3>2
  <2>2. CASE i = Len(q) + 1
    <3>1. (a \o Tail(r))[i] = a[i] /\ a[i] = r[1]
      BY <2>2, <1>1, <1>3, QueueConcat
    <3>2. (q \o r)[i] = r[1]
      BY <2>2, <1>1, QueueConcat
    <3> QED
      BY <3>1, <3>2
  <2>3. CASE i > Len(q) + 1
    <3>1. PICK k \in 1..Len(r) - 1 : i = Len(q) + 1 + k
      <4>1. i - (Len(q) + 1) \in 1..Len(r) - 1 /\ i = Len(q) + 1 + (i - (Len(q) + 1))
        BY <2>3, <1>1
      <4> QED
        BY <4>1
    <3>2. (a \o Tail(r))[Len(a) + k] = Tail(r)[k] /\ Tail(r)[k] = r[k + 1]
      BY <3>1, <1>1, QueueConcat
    <3>3. (q \o r)[Len(q) + (k + 1)] = r[k + 1]
      BY <3>1, <1>1, QueueConcat
    <3>4. Len(a) + k = i /\ Len(q) + (k + 1) = i
      BY <3>1, <1>1, <1>3
    <3>5. (a \o Tail(r))[i] = r[k + 1]
      BY <3>2, <3>4
    <3>6. (q \o r)[i] = r[k + 1]
      BY <3>3, <3>4
    <3> QED
      BY <3>5, <3>6
  <2>4. i <= Len(q) \/ i = Len(q) + 1 \/ i > Len(q) + 1
    BY <1>1
  <2> QED
    BY <2>1, <2>2, <2>3, <2>4
<1> QED
  BY <1>2, <1>4, <1>5, <1>6, QueueEqual

(* A stream of truth stays one when it is cut at its front, ...            *)
LEMMA TruthTail ==
  ASSUME NEW q \in Queue, q # <<>>, NEW P, Truthful(q, P)
  PROVE  Truthful(Tail(q), P)
<1> SUFFICES ASSUME NEW u \in Others, NEW i \in DOMAIN Tail(q), Tells(Tail(q)[i], u),
                    LastWord(Tail(q), u, i)
             PROVE  Claims(Tail(q)[i], u) <=> u \in P
  BY DEF Truthful
<1>1. Tail(q) \in Queue /\ Len(Tail(q)) = Len(q) - 1 /\ Len(q) > 0 /\ Len(q) \in Nat
      /\ DOMAIN q = 1..Len(q) /\ \A j \in 1..Len(q) - 1 : Tail(q)[j] = q[j + 1]
  BY QueueFacts
<1>2. DOMAIN Tail(q) = 1..Len(q) - 1
  BY <1>1, QueueFacts
<1>3. i + 1 \in DOMAIN q /\ q[i + 1] = Tail(q)[i]
  BY <1>1, <1>2
<1>4. LastWord(q, u, i + 1)
  <2> SUFFICES ASSUME NEW j \in DOMAIN q, j > i + 1
               PROVE  ~Of(q[j], u)
    BY DEF LastWord
  <2>1. j - 1 \in DOMAIN Tail(q) /\ j - 1 > i /\ Tail(q)[j - 1] = q[(j - 1) + 1] /\ (j - 1) + 1 = j
    BY <1>1, <1>2
  <2>2. ~Of(Tail(q)[j - 1], u)
    BY <2>1 DEF LastWord
  <2> QED
    BY <2>1, <2>2
<1>5. Claims(q[i + 1], u) <=> u \in P
  <2>1. Tells(q[i + 1], u)
    BY <1>3
  <2> QED
    BY <1>3, <1>4, <2>1 DEF Truthful
<1> QED
  BY <1>3, <1>5

(* ... when a message that is no notice is taken from its middle, ...      *)
LEMMA TruthDrop ==
  ASSUME NEW e \in Queue, NEW q \in Queue, q # <<>>, \A u \in Others : ~Of(Head(q), u)
  PROVE  /\ \A u \in Others : Silent(e \o Tail(q), u) <=> Silent(e \o q, u)
         /\ \A P : Truthful(e \o q, P) => Truthful(e \o Tail(q), P)
         /\ (\A u \in Others : ~Tells(Head(q), u)) =>
              \A P : Truthful(e \o Tail(q), P) => Truthful(e \o q, P)
<1>1. Tail(q) \in Queue /\ Len(Tail(q)) = Len(q) - 1 /\ Len(q) > 0 /\ Len(q) \in Nat /\ Len(e) \in Nat
      /\ Head(q) = q[1] /\ \A j \in 1..Len(q) - 1 : Tail(q)[j] = q[j + 1]
  BY QueueFacts
<1>2. PICK s \in Queue : s = e \o q
  BY QueueConcat
<1>3. PICK t \in Queue : t = e \o Tail(q)
  BY <1>1, QueueConcat
<1>4. DOMAIN s = 1..Len(e) + Len(q) /\ (\A i \in 1..Len(e) : s[i] = e[i])
      /\ (\A i \in 1..Len(q) : s[Len(e) + i] = q[i])
  BY <1>2, QueueConcat
<1>5. DOMAIN t = 1..Len(e) + Len(q) - 1 /\ (\A i \in 1..Len(e) : t[i] = e[i])
      /\ (\A i \in 1..Len(q) - 1 : t[Len(e) + i] = q[i + 1])
  <2>1. DOMAIN t = 1..Len(e) + Len(Tail(q)) /\ (\A i \in 1..Len(e) : t[i] = e[i])
        /\ (\A i \in 1..Len(Tail(q)) : t[Len(e) + i] = Tail(q)[i])
    BY <1>1, <1>3, QueueConcat
  <2>2. Len(e) + Len(Tail(q)) = Len(e) + Len(q) - 1
    BY <1>1
  <2>3. \A i \in 1..Len(q) - 1 : t[Len(e) + i] = q[i + 1]
    BY <1>1, <2>1
  <2> QED
    BY <2>1, <2>2, <2>3
<1>6. \A i \in 1..Len(e) : t[i] = s[i]
  BY <1>4, <1>5
<1>7. \A i \in DOMAIN t : i > Len(e) => t[i] = s[i + 1]
  <2> SUFFICES ASSUME NEW i \in DOMAIN t, i > Len(e)
               PROVE  t[i] = s[i + 1]
    OBVIOUS
  <2>1. PICK k \in 1..Len(q) - 1 : i = Len(e) + k
    <3>1. i - Len(e) \in 1..Len(q) - 1 /\ i = Len(e) + (i - Len(e))
      BY <1>1, <1>5
    <3> QED
      BY <3>1
  <2>2. t[Len(e) + k] = q[k + 1]
    BY <1>5
  <2>3. k + 1 \in 1..Len(q) /\ i + 1 = Len(e) + (k + 1)
    BY <1>1, <2>1
  <2>4. s[Len(e) + (k + 1)] = q[k + 1]
    BY <1>4, <2>3
  <2> QED
    BY <2>1, <2>2, <2>3, <2>4
<1>8. Len(e) + 1 \in DOMAIN s /\ s[Len(e) + 1] = Head(q)
  BY <1>1, <1>4
<1>9. \A i \in DOMAIN t : i \in Int /\ (i <= Len(e) => i \in DOMAIN s)
                          /\ (i > Len(e) => i + 1 \in DOMAIN s)
  BY <1>1, <1>4, <1>5
<1>10. \A j \in DOMAIN s : \/ j \in 1..Len(e) /\ j \in DOMAIN t
                           \/ j = Len(e) + 1
                           \/ j > Len(e) + 1 /\ j - 1 \in DOMAIN t /\ j - 1 > Len(e) /\ j = (j - 1) + 1
  BY <1>1, <1>4, <1>5
<1>11. ASSUME NEW u \in Others, Silent(t, u)
       PROVE  Silent(s, u)
  <2> SUFFICES ASSUME NEW j \in DOMAIN s
               PROVE  ~Of(s[j], u)
    BY DEF Silent
  <2>1. CASE j \in 1..Len(e) /\ j \in DOMAIN t
    BY <2>1, <1>6, <1>11 DEF Silent
  <2>2. CASE j = Len(e) + 1
    BY <2>2, <1>8
  <2>3. CASE j > Len(e) + 1 /\ j - 1 \in DOMAIN t /\ j - 1 > Len(e) /\ j = (j - 1) + 1
    <3>1. t[j - 1] = s[(j - 1) + 1]
      BY <2>3, <1>7
    <3>2. ~Of(t[j - 1], u)
      BY <2>3, <1>11 DEF Silent
    <3> QED
      BY <2>3, <3>1, <3>2
  <2> QED
    BY <2>1, <2>2, <2>3, <1>10
<1>12. ASSUME NEW P, Truthful(s, P)
       PROVE  Truthful(t, P)
  <2> SUFFICES ASSUME NEW u \in Others, NEW i \in DOMAIN t, Tells(t[i], u), LastWord(t, u, i)
               PROVE  Claims(t[i], u) <=> u \in P
    BY DEF Truthful
  <2>1. CASE i <= Len(e)
    <3>1. i \in DOMAIN s /\ s[i] = t[i]
      BY <2>1, <1>6, <1>5, <1>9
    <3>2. LastWord(s, u, i)
      <4> SUFFICES ASSUME NEW j \in DOMAIN s, j > i
                   PROVE  ~Of(s[j], u)
        BY DEF LastWord
      <4>1. CASE j \in 1..Len(e) /\ j \in DOMAIN t
        BY <4>1, <1>6 DEF LastWord
      <4>2. CASE j = Len(e) + 1
        BY <4>2, <1>8
      <4>3. CASE j > Len(e) + 1 /\ j - 1 \in DOMAIN t /\ j - 1 > Len(e) /\ j = (j - 1) + 1
        <5>1. t[j - 1] = s[(j - 1) + 1]
          BY <4>3, <1>7
        <5>2. j - 1 > i
          BY <4>3, <2>1, <1>1, <1>9
        <5>3. ~Of(t[j - 1], u)
          BY <4>3, <5>2 DEF LastWord
        <5> QED
          BY <4>3, <5>1, <5>3
      <4> QED
        BY <4>1, <4>2, <4>3, <1>10
    <3>3. Claims(s[i], u) <=> u \in P
      <4>1. Tells(s[i], u)
        BY <3>1
      <4> QED
        BY <3>1, <3>2, <4>1, <1>12 DEF Truthful
    <3> QED
      BY <3>1, <3>3
  <2>2. CASE i > Len(e)
    <3>1. i + 1 \in DOMAIN s /\ s[i + 1] = t[i]
      BY <2>2, <1>7, <1>9
    <3>2. LastWord(s, u, i + 1)
      <4> SUFFICES ASSUME NEW j \in DOMAIN s, j > i + 1
                   PROVE  ~Of(s[j], u)
        BY DEF LastWord
      <4>1. j > Len(e) + 1 /\ j - 1 \in DOMAIN t /\ j - 1 > i /\ j - 1 > Len(e) /\ j = (j - 1) + 1
        BY <2>2, <1>1, <1>4, <1>5
      <4>2. t[j - 1] = s[(j - 1) + 1]
        BY <4>1, <1>7
      <4>3. ~Of(t[j - 1], u)
        BY <4>1 DEF LastWord
      <4> QED
        BY <4>1, <4>2, <4>3
    <3>3. Claims(s[i + 1], u) <=> u \in P
      <4>1. Tells(s[i + 1], u)
        BY <3>1
      <4> QED
        BY <3>1, <3>2, <4>1, <1>12 DEF Truthful
    <3> QED
      BY <3>1, <3>3
  <2> QED
    BY <2>1, <2>2, <1>1, <1>9
<1>13. ASSUME NEW P, Truthful(t, P), \A u \in Others : ~Tells(Head(q), u)
       PROVE  Truthful(s, P)
  <2> SUFFICES ASSUME NEW u \in Others, NEW i \in DOMAIN s, Tells(s[i], u), LastWord(s, u, i)
               PROVE  Claims(s[i], u) <=> u \in P
    BY DEF Truthful
  <2>1. CASE i \in 1..Len(e) /\ i \in DOMAIN t
    <3>1. s[i] = t[i]
      BY <2>1, <1>6
    <3>2. LastWord(t, u, i)
      <4> SUFFICES ASSUME NEW j \in DOMAIN t, j > i
                   PROVE  ~Of(t[j], u)
        BY DEF LastWord
      <4>1. CASE j <= Len(e)
        <5>1. j \in DOMAIN s /\ s[j] = t[j]
          BY <4>1, <1>4, <1>5, <1>6, <1>9
        <5> QED
          BY <5>1 DEF LastWord
      <4>2. CASE j > Len(e)
        <5>1. j + 1 \in DOMAIN s /\ s[j + 1] = t[j] /\ j + 1 > i
          BY <4>2, <1>1, <1>5, <1>7, <1>9, <2>1
        <5> QED
          BY <5>1 DEF LastWord
      <4> QED
        BY <4>1, <4>2, <1>1, <1>9
    <3>3. Tells(t[i], u)
      BY <3>1
    <3>4. Claims(t[i], u) <=> u \in P
      BY <2>1, <3>2, <3>3, <1>13 DEF Truthful
    <3> QED
      BY <3>1, <3>4
  <2>2. CASE i = Len(e) + 1
    BY <2>2, <1>8, <1>13
  <2>3. CASE i > Len(e) + 1 /\ i - 1 \in DOMAIN t /\ i - 1 > Len(e) /\ i = (i - 1) + 1
    <3>1. t[i - 1] = s[i]
      <4>1. t[i - 1] = s[(i - 1) + 1]
        BY <2>3, <1>7
      <4> QED
        BY <2>3, <4>1
    <3>2. LastWord(t, u, i - 1)
      <4> SUFFICES ASSUME NEW j \in DOMAIN t, j > i - 1
                   PROVE  ~Of(t[j], u)
        BY DEF LastWord
      <4>1. j > Len(e) /\ j + 1 > i
        BY <2>3, <1>1, <1>4, <1>9
      <4>2. j + 1 \in DOMAIN s /\ s[j + 1] = t[j]
        BY <4>1, <1>7, <1>9
      <4> QED
        BY <4>1, <4>2 DEF LastWord
    <3>3. Tells(t[i - 1], u)
      BY <3>1
    <3>4. Claims(t[i - 1], u) <=> u \in P
      BY <2>3, <3>2, <3>3, <1>13 DEF Truthful
    <3> QED
      BY <3>1, <3>4
  <2> QED
    BY <2>1, <2>2, <2>3, <1>10
<1>14. ASSUME NEW u \in Others, Silent(s, u)
       PROVE  Silent(t, u)
  <2> SUFFICES ASSUME NEW i \in DOMAIN t
               PROVE  ~Of(t[i], u)
    BY DEF Silent
  <2>1. CASE i <= Len(e)
    <3>1. i \in DOMAIN s /\ t[i] = s[i]
      BY <2>1, <1>5, <1>6, <1>9
    <3> QED
      BY <3>1, <1>14 DEF Silent
  <2>2. CASE i > Len(e)
    <3>1. i + 1 \in DOMAIN s /\ t[i] = s[i + 1]
      BY <2>2, <1>7, <1>9
    <3> QED
      BY <3>1, <1>14 DEF Silent
  <2> QED
    BY <2>1, <2>2, <1>1, <1>9
<1> QED
  BY <1>2, <1>3, <1>11, <1>12, <1>13, <1>14

(* ... and when what is added to it is true.                               *)
LEMMA TruthAppend ==
  ASSUME NEW q \in Queue, NEW m \in Messages, NEW P, NEW R, Truthful(q, P),
         \A u \in Others : Of(m, u) \/ (u \in P <=> u \in R),
         \A u \in Others : Tells(m, u) => (Claims(m, u) <=> u \in R)
  PROVE  Truthful(Append(q, m), R)
<1>1. PICK s \in Queue : s = Append(q, m)
  BY QueueFacts
<1>2. Len(q) \in Nat /\ DOMAIN q = 1..Len(q) /\ Len(s) = Len(q) + 1
      /\ \A i \in 1..Len(q) + 1 : s[i] = IF i <= Len(q) THEN q[i] ELSE m
  BY <1>1, QueueFacts
<1>3. DOMAIN s = 1..Len(q) + 1
  BY <1>2, QueueFacts
<1>4. s[Len(q) + 1] = m /\ Len(q) + 1 \in DOMAIN s
  BY <1>2, <1>3
<1>5. \A i \in DOMAIN q : i \in DOMAIN s /\ s[i] = q[i] /\ Len(q) + 1 > i
  BY <1>2, <1>3
<1>6. ASSUME NEW u \in Others, NEW i \in DOMAIN s, Tells(s[i], u), LastWord(s, u, i)
      PROVE  Claims(s[i], u) <=> u \in R
  <2>1. CASE i = Len(q) + 1
    BY <2>1, <1>4, <1>6
  <2>2. CASE i \in DOMAIN q
    <3>1. ~Of(m, u)
      BY <2>2, <1>4, <1>5, <1>6 DEF LastWord
    <3>2. LastWord(q, u, i) /\ Tells(q[i], u)
      BY <2>2, <1>5, <1>6 DEF LastWord
    <3>3. Claims(q[i], u) <=> u \in P
      BY <2>2, <3>2 DEF Truthful
    <3>4. u \in P <=> u \in R
      BY <3>1
    <3> QED
      BY <2>2, <1>5, <3>3, <3>4
  <2>3. i = Len(q) + 1 \/ i \in DOMAIN q
    BY <1>2, <1>3
  <2> QED
    BY <2>1, <2>2, <2>3
<1> QED
  BY <1>1, <1>6 DEF Truthful

LEMMA SilentAppend ==
  ASSUME NEW q \in Queue, NEW m \in Messages, NEW u, Silent(Append(q, m), u)
  PROVE  Silent(q, u) /\ ~Of(m, u)
<1>1. PICK s \in Queue : s = Append(q, m)
  BY QueueFacts
<1>2. Len(q) \in Nat /\ DOMAIN q = 1..Len(q) /\ Len(s) = Len(q) + 1
      /\ \A i \in 1..Len(q) + 1 : s[i] = IF i <= Len(q) THEN q[i] ELSE m
  BY <1>1, QueueFacts
<1>3. DOMAIN s = 1..Len(q) + 1
  BY <1>2, QueueFacts
<1>4. s[Len(q) + 1] = m /\ Len(q) + 1 \in DOMAIN s
  BY <1>2, <1>3
<1>5. \A i \in DOMAIN q : i \in DOMAIN s /\ s[i] = q[i]
  BY <1>2, <1>3
<1> QED
  BY <1>1, <1>4, <1>5 DEF Silent

(* The first message of a stream that says nothing more of a user is the   *)
(* last word on him.                                                       *)
LEMMA SilentTail ==
  ASSUME NEW q \in Queue, q # <<>>, NEW u \in Others, Silent(Tail(q), u)
  PROVE  /\ ~Of(Head(q), u) => Silent(q, u)
         /\ \A P : Truthful(q, P) /\ Tells(Head(q), u) => (Claims(Head(q), u) <=> u \in P)
<1>1. Tail(q) \in Queue /\ Len(Tail(q)) = Len(q) - 1 /\ Len(q) > 0 /\ Len(q) \in Nat /\ Head(q) = q[1]
      /\ DOMAIN q = 1..Len(q) /\ \A j \in 1..Len(q) - 1 : Tail(q)[j] = q[j + 1]
  BY QueueFacts
<1>2. DOMAIN Tail(q) = 1..Len(q) - 1
  BY <1>1, QueueFacts
<1>3. ASSUME NEW j \in DOMAIN q, j > 1
      PROVE  ~Of(q[j], u)
  <2>1. j - 1 \in DOMAIN Tail(q) /\ Tail(q)[j - 1] = q[(j - 1) + 1] /\ (j - 1) + 1 = j
    BY <1>1, <1>2, <1>3
  <2>2. ~Of(Tail(q)[j - 1], u)
    BY <2>1 DEF Silent
  <2> QED
    BY <2>1, <2>2
<1>4. LastWord(q, u, 1) /\ 1 \in DOMAIN q
  BY <1>1, <1>3 DEF LastWord
<1>5. ASSUME ~Of(Head(q), u) PROVE Silent(q, u)
  <2>1. \A j \in DOMAIN q : j = 1 \/ j > 1
    BY <1>1
  <2> QED
    BY <1>1, <1>3, <1>5, <2>1 DEF Silent
<1>6. ASSUME NEW P, Truthful(q, P), Tells(Head(q), u)
      PROVE  Claims(Head(q), u) <=> u \in P
  BY <1>1, <1>4, <1>6 DEF Truthful
<1> QED
  BY <1>5, <1>6

LEMMA TruthEmpty ==
  ASSUME NEW P PROVE Truthful(<<>>, P)
  BY DEF Truthful

LEMMA StreamType ==
  ASSUME NetworkOK
  PROVE  Unread \in Queue /\ Stream \in Queue /\ wire \in Queue /\ ready \in Queue /\ events \in Queue
  BY QueueConcat DEF NetworkOK, Unread, Stream

(* A connection without anything on it.                                    *)
LEMMA ResetView ==
  ASSUME stage' \in {"off", "dialog"}, rpc' = "idle", logged' = FALSE, asked' = <<>>,
         wire' = <<>>, ready' = <<>>, events' = <<>>
  PROVE  ViewInv'
<1>1. Unread' = <<>>
  BY EmptyQueue, ConcatEmpty DEF Unread
<1> QED
  BY <1>1 DEF ViewInv, FreshInv, TruthInv, KnownInv

LEMMA ExitView ==
  ASSUME Exit
  PROVE  ViewInv'
  BY ResetView DEF Exit, Process, Connection

LEMMA StartView ==
  ASSUME Start
  PROVE  ViewInv'
  BY ResetView DEF Start, Process, Connection

LEMMA RefusedView ==
  ASSUME ClientInv, ViewInv, job = "login", rpc = "receive", Refused, UNCHANGED events
  PROVE  ViewInv'
<1>1. stage = "dialog" /\ events = <<>>
  BY DEF ClientInv, StageInv, AtStage, ViewInv, FreshInv
<1>2. logged' = FALSE /\ asked' = <<>> /\ wire' = <<>> /\ ready' = <<>> /\ rpc' = "idle"
      /\ stage' = "dialog" /\ events' = <<>>
  BY <1>1 DEF Refused, Connection, Return, After
<1> QED
  BY <1>2, ResetView

(* What is said stays true while it only travels.                          *)
LEMMA SameStream ==
  ASSUME ViewInv, Stream' = Stream, UNCHANGED <<logged, up, online, contacts, shown>>,
         ~overtaken' => ~overtaken, ~late' => ~late,
         \/ stage' = stage
         \/ stage' \notin {"starting", "started", "wait", "shown"}
         \/ stage \in {"starting", "started"} /\ stage' \in {"started", "wait"}
         \/ ~logged
         \/ late'
  PROVE  TruthInv' /\ KnownInv'
<1>1. TruthInv'
  BY DEF ViewInv, TruthInv
<1>2. KnownInv'
  <2> SUFFICES ASSUME logged', ~overtaken', ~late', NEW u \in Others, Silent(Stream, u)
               PROVE  Known(u)'
    BY DEF KnownInv
  <2>1. Known(u)
    BY DEF ViewInv, KnownInv
  <2> QED
    BY <2>1 DEF Known
<1> QED
  BY <1>1, <1>2

(* A message that is no notice is taken, and nothing else happens to the   *)
(* stream.                                                                 *)
LEMMA OneTaken ==
  ASSUME ClientInv, ViewInv, ready # <<>>, ready' = Tail(ready),
         UNCHANGED <<wire, events, logged, up, online, contacts, shown>>,
         ~overtaken' => ~overtaken /\ \A u \in Others : ~Of(Head(ready), u), ~late' => ~late,
         \/ stage' = stage
         \/ stage' \notin {"starting", "started", "wait", "shown"}
  PROVE  TruthInv' /\ KnownInv'
<1>1. wire \in Queue /\ ready \in Queue /\ events \in Queue /\ Unread \in Queue
  BY StreamType DEF ClientInv, TypeOK
<1>2. Unread # <<>> /\ Unread' = Tail(Unread) /\ Head(Unread) = Head(ready)
  BY <1>1, ConcatTail DEF Unread
<1>3. Stream' = events \o Tail(Unread)
  BY <1>2 DEF Stream
<1>4. ASSUME ~overtaken'
      PROVE  /\ \A u \in Others : Silent(Stream', u) => Silent(Stream, u)
             /\ Truthful(Stream, up) => Truthful(Stream', up)
  <2>1. \A u \in Others : ~Of(Head(Unread), u)
    BY <1>2, <1>4
  <2>2. /\ \A u \in Others : Silent(events \o Tail(Unread), u) => Silent(events \o Unread, u)
        /\ \A P : Truthful(events \o Unread, P) => Truthful(events \o Tail(Unread), P)
    BY <1>1, <1>2, <2>1, TruthDrop
  <2> QED
    BY <1>3, <2>2 DEF Stream
<1>5. TruthInv'
  BY <1>4 DEF ViewInv, TruthInv
<1>6. KnownInv'
  <2> SUFFICES ASSUME logged', ~overtaken', ~late', NEW u \in Others, Silent(Stream', u)
               PROVE  Known(u)'
    BY DEF KnownInv
  <2>1. Known(u)
    BY <1>4 DEF ViewInv, KnownInv
  <2> QED
    BY <2>1 DEF Known
<1> QED
  BY <1>5, <1>6

-----------------------------------------------------------------------------
LEMMA AnswerView ==
  ASSUME ClientInv, ViewInv, Answer
  PROVE  ViewInv'
<1>0. NetworkOK /\ asked # <<>> /\ Head(asked) \in Kinds /\ asked \in Seq(Kinds)
  BY SeqFacts DEF Answer, ClientInv, TypeOK, NetworkOK
<1>1. PICK m \in Reply(Head(asked)) :
        wire' = Append(wire, m) /\ logged' = (logged \/ (m.kind = "login" /\ m.val # {}))
  BY DEF Answer
<1>2. /\ asked' = Tail(asked) /\ m \in Messages /\ link = "up"
      /\ UNCHANGED <<link, up, ready, stage, rpc, events, online, contacts, shown, overtaken, late>>
  BY <1>0, <1>1, ReplyType DEF Answer, window, history
<1>3. wire \in Queue /\ ready \in Queue /\ events \in Queue /\ Unread \in Queue /\ Stream \in Queue
  BY <1>0, StreamType
<1>4. Unread' = Append(Unread, m)
  BY <1>1, <1>2, <1>3, ConcatAppend DEF Unread
<1>5. Stream' = Append(Stream, m)
  BY <1>2, <1>3, <1>4, ConcatAppend DEF Stream
<1>6. m.kind = Head(asked) /\ (m.kind = "online" => m.val = up \cup {Self})
  BY <1>1 DEF Reply, Message
<1>7. Head(asked) \in {"list", "online", "sendMsg"} \/ (Head(asked) = "login" /\ stage = "dialog")
  <2>1. Head(asked) = asked[1] /\ 1 \in DOMAIN asked
    BY <1>0, SeqFacts
  <2> QED
    BY <2>1 DEF ViewInv, FreshInv
<1>8. \A u \in Others : Tells(m, u) => (Claims(m, u) <=> u \in up)
  <2>1. Self \notin Others
    BY ClientAssumption
  <2> QED
    BY <1>6, <1>7, <2>1 DEF Of, Tells, Claims
<1>9. FreshInv'
  <2>1. stage \notin {"off", "dialog"} \/ (stage = "dialog" /\ rpc = "receive")
    BY <1>0 DEF ClientInv, StageInv, AtStage, ViewInv, FreshInv
  <2>2. stage = "dialog" => asked' = <<>>
    <3>1. asked = <<"login">> => Tail(asked) = <<>>
      OBVIOUS
    <3> QED
      BY <1>0, <1>2, <2>1, <3>1 DEF ViewInv, FreshInv
  <2>3. stage # "dialog" => logged' = logged
    BY <1>1, <1>6, <1>7 DEF ClientInv, TypeOK, NetworkOK
  <2>4. \A i \in DOMAIN asked' : asked'[i] \in {"list", "online", "sendMsg"} \/
                                (asked'[i] = "login" /\ stage = "dialog")
    <3> TAKE i \in DOMAIN asked'
    <3>1. asked'[i] = asked[i + 1] /\ i + 1 \in DOMAIN asked
      <4>1. Tail(asked) \in Seq(Kinds) /\ Len(Tail(asked)) = Len(asked) - 1 /\ Len(asked) \in Nat
            /\ DOMAIN asked = 1..Len(asked) /\ \A k \in 1..Len(asked) - 1 : Tail(asked)[k] = asked[k + 1]
        BY <1>0, SeqFacts
      <4>2. DOMAIN Tail(asked) = 1..Len(asked) - 1
        BY <4>1, SeqFacts
      <4> QED
        BY <1>2, <4>1, <4>2
    <3> QED
      BY <3>1 DEF ViewInv, FreshInv
  <2> QED
    BY <1>2, <2>1, <2>2, <2>4 DEF ViewInv, FreshInv
<1>10. ASSUME logged', ~overtaken'
       PROVE  Truthful(Stream', up)
  <2>1. CASE logged
    BY <2>1, <1>2, <1>3, <1>5, <1>8, <1>10, TruthAppend DEF ViewInv, TruthInv
  <2>2. CASE ~logged
    <3>1. Head(asked) = "login" /\ stage = "dialog" /\ rpc = "receive"
      BY <2>2, <1>0, <1>1, <1>6, <1>7, <1>10 DEF ViewInv, FreshInv
    <3>2. events = <<>> /\ Unread = <<>>
      BY <1>0, <3>1 DEF ViewInv, FreshInv
    <3>3. Stream = <<>>
      BY <3>2, EmptyQueue, ConcatEmpty DEF Stream
    <3> QED
      BY <1>2, <1>3, <1>5, <1>8, <3>3, TruthEmpty, TruthAppend
  <2> QED
    BY <2>1, <2>2
<1>11. TruthInv'
  BY <1>2, <1>10 DEF TruthInv
<1>12. KnownInv'
  <2> SUFFICES ASSUME logged', ~overtaken', ~late', NEW u \in Others, Silent(Stream', u)
               PROVE  Known(u)'
    BY DEF KnownInv
  <2>1. CASE stage = "dialog"
    BY <2>1, <1>2 DEF Known
  <2>2. CASE stage # "dialog"
    <3>1. logged
      BY <2>2, <1>1, <1>6, <1>7
    <3>2. Silent(Stream, u)
      BY <1>2, <1>3, <1>5, SilentAppend
    <3>3. Known(u)
      BY <3>1, <3>2, <1>2 DEF ViewInv, KnownInv
    <3> QED
      BY <3>3, <1>2 DEF Known
  <2> QED
    BY <2>1, <2>2
<1> QED
  BY <1>9, <1>11, <1>12 DEF ViewInv

LEMMA MoveView ==
  ASSUME ClientInv, ViewInv, NEW u \in Others, Move(u)
  PROVE  ViewInv'
<1>1. PICK k \in {"toOnline", "toOffline", "chat"} :
        /\ (k = "toOnline") <=> (u \notin up)
        /\ up' = CASE k = "toOnline" -> up \cup {u} [] k = "toOffline" -> up \ {u} [] OTHER -> up
        /\ wire' = IF logged THEN Append(wire, Message(k, {u})) ELSE wire
  BY DEF Move
<1>2. UNCHANGED <<link, logged, asked, ready, stage, rpc, events, online, contacts, shown, overtaken, late>>
  BY DEF Move, window, history
<1>3. CASE ~logged
  <2>1. wire' = wire
    BY <1>1, <1>3
  <2>2. Unread' = Unread
    BY <1>2, <2>1 DEF Unread
  <2>3. FreshInv'
    BY <1>2, <2>2 DEF ViewInv, FreshInv
  <2>4. TruthInv' /\ KnownInv'
    BY <1>2, <1>3 DEF TruthInv, KnownInv
  <2> QED
    BY <2>3, <2>4 DEF ViewInv
<1>4. CASE logged
  <2>1. PICK m : m = Message(k, {u})
    OBVIOUS
  <2>2. m.kind = k /\ m.val = {u}
    BY <2>1 DEF Message
  <2>3. m \in Messages
    <3>1. k \in Kinds \cup {"finished"} /\ {u} \in SUBSET Users
      BY UsersFinite DEF Kinds
    <3> QED
      BY <2>1, <3>1, MessageType
  <2>4. wire' = Append(wire, m)
    BY <1>1, <1>4, <2>1
  <2>5. wire \in Queue /\ ready \in Queue /\ events \in Queue /\ Unread \in Queue /\ Stream \in Queue
    BY StreamType DEF ClientInv, TypeOK
  <2>6. Unread' = Append(Unread, m)
    BY <1>2, <2>3, <2>4, <2>5, ConcatAppend DEF Unread
  <2>7. Stream' = Append(Stream, m)
    BY <1>2, <2>3, <2>5, <2>6, ConcatAppend DEF Stream
  <2>8. FreshInv'
    BY <1>2, <1>4 DEF ViewInv, FreshInv
  <2>9. \A v \in Others : Of(m, v) \/ (v \in up <=> v \in up')
    BY <1>1, <2>2 DEF Of
  <2>10. \A v \in Others : Tells(m, v) => (Claims(m, v) <=> v \in up')
    BY <1>1, <2>2 DEF Of, Tells, Claims
  <2>11. TruthInv'
    BY <1>2, <1>4, <2>3, <2>5, <2>7, <2>9, <2>10, TruthAppend DEF ViewInv, TruthInv
  <2>12. KnownInv'
    <3> SUFFICES ASSUME ~overtaken', ~late', NEW v \in Others, Silent(Stream', v)
                 PROVE  Known(v)'
      BY DEF KnownInv
    <3>1. Silent(Stream, v) /\ ~Of(m, v)
      BY <2>3, <2>5, <2>7, SilentAppend
    <3>2. Known(v)
      BY <1>2, <1>4, <3>1 DEF ViewInv, KnownInv
    <3>3. v \in up <=> v \in up'
      BY <2>9, <3>1
    <3> QED
      BY <1>2, <3>2, <3>3 DEF Known
  <2> QED
    BY <2>8, <2>11, <2>12 DEF ViewInv
<1> QED
  BY <1>3, <1>4

LEMMA DisconnectView ==
  ASSUME ViewInv, Disconnect
  PROVE  ViewInv'
<1>1. /\ logged' = FALSE /\ asked' = <<>> /\ stage # "off"
      /\ UNCHANGED <<wire, ready, events, stage, rpc>>
  BY DEF Disconnect, window, database, bounds, history
<1>2. Unread' = Unread
  BY <1>1 DEF Unread
<1> QED
  BY <1>1, <1>2 DEF ViewInv, FreshInv, TruthInv, KnownInv

-----------------------------------------------------------------------------
LEMMA BeginView ==
  ASSUME ClientInv, ViewInv, NEW k \in {"login", "list", "online", "sendMsg"}, Begin(k)
  PROVE  ViewInv'
<1>1. /\ rpc = "idle" /\ rpc' = "lock"
      /\ UNCHANGED <<link, logged, up, asked, wire, ready, stage, events, online, contacts, shown,
                     overtaken, late>>
  BY DEF Begin, network, window, history
<1>2. Unread' = Unread /\ Stream' = Stream
  BY <1>1 DEF Unread, Stream
<1>3. FreshInv'
  BY <1>1, <1>2 DEF ViewInv, FreshInv
<1>4. TruthInv' /\ KnownInv'
  BY <1>1, <1>2, SameStream
<1> QED
  BY <1>3, <1>4 DEF ViewInv

(* A request returns, with the stream as it was.                           *)
LEMMA ReturnView ==
  ASSUME ClientInv, ViewInv, NEW ok \in BOOLEAN, Return(ok), rpc # "idle", ~ok => job # "login" \/ rpc = "lock",
         ok => job \in {"list", "sendMsg"},
         UNCHANGED <<link, logged, up, asked, wire, ready, events, online, contacts, shown, overtaken>>,
         late' = late \/ late', ~ok => ~logged \/ late'
  PROVE  ViewInv'
<1>1. stage' = After(job, ok) /\ rpc' = "idle" /\ AtStage
  BY DEF Return, ClientInv, StageInv
<1>2. Unread' = Unread /\ Stream' = Stream
  BY DEF Unread, Stream
<1>3. FreshInv'
  <2>1. job = "login" => stage' = stage /\ rpc # "receive"
    BY <1>1 DEF AtStage, After, ClientInv, StageInv
  <2>2. job # "login" => stage # "dialog" /\ stage' \notin {"off", "dialog"}
    BY <1>1 DEF AtStage, After
  <2>3. stage' \in {"off", "dialog", "list", "online", "starting"} =>
          stage \in {"off", "dialog", "list", "online", "starting"}
    BY <1>1 DEF AtStage, After
  <2> QED
    BY <1>1, <1>2, <2>1, <2>2, <2>3 DEF ViewInv, FreshInv
<1>4. TruthInv' /\ KnownInv'
  <2>1. ok => stage' = stage \/ stage' \notin {"starting", "started", "wait", "shown"}
    BY <1>1 DEF AtStage, After
  <2>2. ~late' => ~late
    OBVIOUS
  <2> QED
    BY <1>2, <2>1, <2>2, SameStream
<1> QED
  BY <1>3, <1>4 DEF ViewInv

LEMMA RequestView ==
  ASSUME ClientInv, ViewInv, Request
  PROVE  ViewInv'
<1>1. /\ rpc = "lock"
      /\ UNCHANGED <<link, logged, up, wire, ready, events, online, contacts, shown, overtaken>>
  BY DEF Request, window
<1>2. CASE link = "down"
  <2>1. Return(FALSE) /\ UNCHANGED <<asked, late>>
    BY <1>2 DEF Request
  <2>2. ~logged
    BY <1>2 DEF ViewInv, FreshInv
  <2> QED
    BY <1>1, <2>1, <2>2, ReturnView
<1>3. CASE link # "down"
  <2>1. /\ rpc' = "receive" /\ stage' = stage
        /\ \/ asked' = Append(asked, job) /\ late' = late
           \/ asked' = asked /\ late' = TRUE /\ job = "sendMsg"
    BY <1>3 DEF Request
  <2>2. job \in Kinds /\ AtStage
    BY <1>1 DEF ClientInv, TypeOK, ThreadsOK, StageInv
  <2>3. Unread' = Unread /\ Stream' = Stream
    BY <1>1 DEF Unread, Stream
  <2>4. stage = "dialog" => asked' = <<"login">> /\ Unread' = <<>> /\ ~logged'
    <3> SUFFICES ASSUME stage = "dialog"
                 PROVE  asked' = <<"login">> /\ Unread' = <<>> /\ ~logged'
      OBVIOUS
    <3>1. asked = <<>> /\ Unread = <<>> /\ ~logged
      BY <1>1 DEF ViewInv, FreshInv
    <3>2. job = "login"
      BY <2>2 DEF AtStage
    <3> QED
      BY <1>1, <2>1, <2>3, <3>1, <3>2
  <2>5. \A i \in DOMAIN asked' : asked'[i] \in {"list", "online", "sendMsg"} \/
                                (asked'[i] = "login" /\ stage = "dialog")
    <3>1. CASE asked' = asked
      BY <3>1 DEF ViewInv, FreshInv
    <3>2. CASE asked' = Append(asked, job)
      <4>1. asked \in Seq(Kinds)
        BY DEF ClientInv, TypeOK, NetworkOK
      <4>2. DOMAIN asked' = 1..Len(asked) + 1 /\ DOMAIN asked = 1..Len(asked)
            /\ \A i \in 1..Len(asked) + 1 : asked'[i] = IF i <= Len(asked) THEN asked[i] ELSE job
        BY <2>2, <3>2, <4>1
      <4>3. TAKE i \in DOMAIN asked'
      <4>4. CASE i \in DOMAIN asked
        BY <4>2, <4>4 DEF ViewInv, FreshInv
      <4>5. CASE i \notin DOMAIN asked
        <5>1. asked'[i] = job
          BY <4>1, <4>2, <4>5
        <5> QED
          BY <2>2, <5>1 DEF AtStage
      <4> QED
        BY <4>4, <4>5
    <3> QED
      BY <2>1, <3>1, <3>2
  <2>6. FreshInv'
    BY <1>1, <2>1, <2>3, <2>4, <2>5 DEF ViewInv, FreshInv
  <2>7. ~late' => ~late
    BY <2>1
  <2>8. TruthInv' /\ KnownInv'
    BY <1>1, <2>1, <2>3, <2>7, SameStream
  <2> QED
    BY <2>6, <2>8 DEF ViewInv
<1> QED
  BY <1>2, <1>3

LEMMA ReadDatabaseView ==
  ASSUME ClientInv, ViewInv, ReadDatabase
  PROVE  ViewInv'
<1>1. /\ rpc = "lock" /\ job = "list" /\ Return(TRUE)
      /\ UNCHANGED <<link, logged, up, asked, wire, ready, events, online, contacts, shown, overtaken, late>>
  BY DEF ReadDatabase, network, history
<1> QED
  BY <1>1, ReturnView

LEMMA StampView ==
  ASSUME ClientInv, ViewInv, Stamp
  PROVE  ViewInv'
<1>1. /\ rpc = "stamp" /\ Return(TRUE)
      /\ UNCHANGED <<link, logged, up, asked, wire, ready, events, online, contacts, shown, overtaken, late>>
  BY DEF Stamp, network, window, history
<1>2. job = "list"
  BY <1>1 DEF ClientInv, StageInv
<1> QED
  BY <1>1, <1>2, ReturnView

(* Steps that touch neither the stream nor how far the program has come.   *)
LEMMA StillView ==
  ASSUME ClientInv, ViewInv, rpc' = rpc \/ stage \notin {"off", "dialog"}, late' = late \/ late',
         Unread' = Unread,
         UNCHANGED <<link, logged, up, asked, stage, events, online, contacts, shown, overtaken>>
  PROVE  ViewInv'
<1>1. Stream' = Stream
  BY DEF Stream
<1>2. FreshInv'
  BY DEF ViewInv, FreshInv
<1>3. ~late' => ~late
  OBVIOUS
<1>4. TruthInv' /\ KnownInv'
  BY <1>1, <1>3, SameStream
<1> QED
  BY <1>2, <1>4 DEF ViewInv

LEMMA InsertView ==
  ASSUME ClientInv, ViewInv, Insert
  PROVE  ViewInv'
<1>1. /\ rpc = "insert"
      /\ UNCHANGED <<link, logged, up, asked, wire, ready, stage, events, online, contacts, shown,
                     overtaken, late>>
  BY DEF Insert, network, window, history
<1>2. stage \notin {"off", "dialog"}
  BY <1>1 DEF ClientInv, StageInv, AtStage
<1>3. Unread' = Unread
  BY <1>1 DEF Unread
<1> QED
  BY <1>1, <1>2, <1>3, StillView

LEMMA ReadMoreView ==
  ASSUME ClientInv, ViewInv, ReadMore
  PROVE  ViewInv'
<1>1. /\ ready = <<>> /\ ready' = wire /\ wire' = <<>>
      /\ UNCHANGED <<link, logged, up, asked, stage, rpc, events, online, contacts, shown, overtaken, late>>
  BY DEF ReadMore, window, history
<1>2. wire \in Queue
  BY StreamType DEF ClientInv, TypeOK
<1>3. Unread' = Unread
  BY <1>1, <1>2, ConcatEmpty DEF Unread
<1> QED
  BY <1>1, <1>3, StillView

LEMMA WakeView ==
  ASSUME ClientInv, ViewInv, Wake
  PROVE  ViewInv'
<1>1. /\ ready' = Unread /\ wire' = <<>>
      /\ UNCHANGED <<link, logged, up, asked, stage, rpc, events, online, contacts, shown, overtaken, late>>
  BY DEF Wake, window, history, Unread
<1>2. Unread \in Queue
  BY StreamType DEF ClientInv, TypeOK
<1>3. Unread' = ready' \o wire'
  BY DEF Unread
<1>4. Unread' = Unread
  BY <1>1, <1>2, <1>3, ConcatEmpty
<1> QED
  BY <1>1, <1>4, StillView

LEMMA CheckView ==
  ASSUME ClientInv, ViewInv, Check \/ ListenLock
  PROVE  ViewInv'
<1>1. UNCHANGED <<link, logged, up, asked, wire, ready, stage, rpc, events, online, contacts, shown,
                  overtaken, late>>
  BY DEF Check, ListenLock, network, window, history
<1>2. Unread' = Unread
  BY <1>1 DEF Unread
<1> QED
  BY <1>1, <1>2, StillView

LEMMA StartListenView ==
  ASSUME ClientInv, ViewInv, StartListenMsg
  PROVE  ViewInv'
<1>1. /\ stage = "starting" /\ stage' = "started"
      /\ UNCHANGED <<link, logged, up, asked, wire, ready, rpc, events, online, contacts, shown,
                     overtaken, late>>
  BY DEF StartListenMsg, network, window, history
<1>2. Unread' = Unread /\ Stream' = Stream
  BY <1>1 DEF Unread, Stream
<1>3. FreshInv'
  BY <1>1, <1>2 DEF ViewInv, FreshInv
<1>4. TruthInv' /\ KnownInv'
  BY <1>1, <1>2, SameStream
<1> QED
  BY <1>3, <1>4 DEF ViewInv

(* The signal that initData has ended says nothing of any user.            *)
LEMMA FinishedView ==
  ASSUME ClientInv, ViewInv, Finished
  PROVE  ViewInv'
<1>1. PICK m \in Messages : m = Message("finished", {})
  BY MessageType
<1>2. /\ stage = "started" /\ stage' = "wait" /\ events' = Append(events, m)
      /\ UNCHANGED <<link, logged, up, asked, wire, ready, rpc, online, contacts, shown, overtaken, late>>
  BY <1>1 DEF Finished, network, window, history
<1>3. \A u \in Others : ~Of(m, u) /\ ~Tells(m, u)
  BY <1>1 DEF Message, Of, Tells
<1>4. Unread \in Queue /\ events \in Queue
  BY StreamType DEF ClientInv, TypeOK
<1>5. Unread' = Unread
  BY <1>2 DEF Unread
<1>6. PICK x \in Queue : x # <<>> /\ Head(x) = m /\ Tail(x) = Unread
  <2>1. <<m>> \in Queue /\ <<m>> # <<>> /\ Head(<<m>>) = m /\ Tail(<<m>>) = <<>>
    BY DEF Queue
  <2>2. PICK y \in Queue : y # <<>> /\ Head(y) = m /\ Tail(y) = <<>>
    BY <2>1
  <2>3. Tail(y) \o Unread = Tail(y \o Unread) /\ y \o Unread # <<>> /\ Head(y \o Unread) = Head(y)
        /\ y \o Unread \in Queue
    BY <1>4, <2>2, ConcatTail, QueueConcat
  <2>4. <<>> \o Unread = Unread
    BY <1>4, ConcatEmpty
  <2>5. Tail(y \o Unread) = Unread
    BY <2>2, <2>3, <2>4
  <2> QED
    BY <2>2, <2>3, <2>5
<1>7. Stream' = events \o x /\ Stream = events \o Tail(x)
  BY <1>2, <1>4, <1>5, <1>6, ConcatShift DEF Stream
<1>8. Truthful(Stream, up) => Truthful(Stream', up)
  BY <1>3, <1>4, <1>6, <1>7, TruthDrop
<1>9. \A u \in Others : Silent(Stream', u) => Silent(Stream, u)
  BY <1>3, <1>4, <1>6, <1>7, TruthDrop
<1>10. FreshInv'
  BY <1>2, <1>5 DEF ViewInv, FreshInv
<1>11. TruthInv'
  BY <1>2, <1>8 DEF ViewInv, TruthInv
<1>12. KnownInv'
  BY <1>2, <1>9 DEF ViewInv, KnownInv, Known
<1> QED
  BY <1>10, <1>11, <1>12 DEF ViewInv

LEMMA TakeView ==
  ASSUME ClientInv, ViewInv, Take
  PROVE  ViewInv'
<1>1. /\ rpc = "receive" /\ ready # <<>>
      /\ overtaken' = (overtaken \/ Head(ready).kind # job)
      /\ UNCHANGED <<events, contacts, shown, up, late>>
  <2>1. /\ rpc = "receive" /\ ready # <<>> /\ overtaken' = (overtaken \/ Head(ready).kind # job)
        /\ UNCHANGED <<events, contacts, shown, late>>
    BY DEF Take
  <2>2. up' = up
    BY DEF Take, TakeLogin, TakeList, TakeOnline, TakeSent, Refused, network
  <2> QED
    BY <2>1, <2>2
<1>2. AtStage /\ overtaken \in BOOLEAN
  BY <1>1 DEF ClientInv, TypeOK, HistoryOK, StageInv
<1>3. wire \in Queue /\ ready \in Queue /\ events \in Queue /\ Unread \in Queue
  BY StreamType DEF ClientInv, TypeOK
<1>4. Unread # <<>> /\ Head(Unread) = Head(ready) /\ Tail(ready) \o wire = Tail(Unread)
  BY <1>1, <1>3, ConcatTail DEF Unread
<1>5. ~overtaken' => ~overtaken /\ Head(ready).kind = job
  BY <1>1, <1>2
<1>6. job \notin {"toOnline", "toOffline"}
  BY <1>2 DEF AtStage
<1>7. ~overtaken' => ~overtaken /\ \A u \in Others : ~Of(Head(ready), u)
  BY <1>5, <1>6 DEF Of
<1>8. CASE job = "login"
  <2>1. TakeLogin(Head(ready))
    BY <1>8 DEF Take
  <2>2. CASE Head(ready).kind = "login" /\ Head(ready).val # {}
    <3>1. Return(TRUE) /\ ready' = Tail(ready) /\ UNCHANGED <<network, users, online>>
      BY <2>1, <2>2 DEF TakeLogin
    <3>2. stage = "dialog" /\ stage' = "list" /\ rpc' = "idle"
          /\ UNCHANGED <<link, logged, up, asked, wire, online>>
      BY <1>2, <1>8, <3>1 DEF AtStage, Return, After, network
    <3>3. asked = <<>>
      BY <1>1, <1>4, <3>2 DEF ViewInv, FreshInv
    <3>4. FreshInv'
      BY <1>1, <3>2, <3>3 DEF ViewInv, FreshInv
    <3>5. TruthInv' /\ KnownInv'
      BY <1>1, <1>7, <3>1, <3>2, OneTaken
    <3> QED
      BY <3>4, <3>5 DEF ViewInv
  <2>3. CASE ~(Head(ready).kind = "login" /\ Head(ready).val # {})
    <3>1. Refused
      BY <2>1, <2>3 DEF TakeLogin
    <3> QED
      BY <1>1, <1>8, <3>1, RefusedView
  <2> QED
    BY <2>2, <2>3
<1>9. CASE job = "list"
  <2>1. TakeList(Head(ready))
    BY <1>9 DEF Take
  <2>2. ready' = Tail(ready) /\ UNCHANGED <<link, logged, up, asked, wire, online, stage>>
    BY <2>1 DEF TakeList, network
  <2>3. stage = "list"
    BY <1>2, <1>9 DEF AtStage
  <2>4. FreshInv'
    BY <1>1, <2>2, <2>3 DEF ViewInv, FreshInv
  <2>5. TruthInv' /\ KnownInv'
    BY <1>1, <1>7, <2>2, OneTaken
  <2> QED
    BY <2>4, <2>5 DEF ViewInv
<1>10. CASE job = "sendMsg"
  <2>1. TakeSent(Head(ready))
    BY <1>10 DEF Take
  <2>2. ready' = Tail(ready) /\ Return(TRUE) /\ UNCHANGED <<link, logged, up, asked, wire, online>>
    BY <2>1 DEF TakeSent, network
  <2>3. stage = "shown" /\ stage' = stage
    BY <1>2, <1>10, <2>2 DEF AtStage, Return, After
  <2>4. FreshInv'
    BY <1>1, <2>2, <2>3 DEF ViewInv, FreshInv
  <2>5. TruthInv' /\ KnownInv'
    BY <1>1, <1>7, <2>2, <2>3, OneTaken
  <2> QED
    BY <2>4, <2>5 DEF ViewInv
<1>11. CASE job = "online"
  <2>1. TakeOnline(Head(ready))
    BY <1>11 DEF Take
  <2>2. /\ ready' = Tail(ready) /\ Return(TRUE) /\ UNCHANGED <<link, logged, up, asked, wire>>
        /\ (Head(ready).kind = "online" => online' = Head(ready).val)
    BY <2>1 DEF TakeOnline, network
  <2>3. stage = "online" /\ stage' = "starting" /\ events = <<>>
    <3>1. stage = "online" /\ stage' = "starting"
      BY <1>2, <1>11, <2>2 DEF AtStage, Return, After
    <3> QED
      BY <3>1 DEF ViewInv, FreshInv
  <2>4. FreshInv'
    BY <1>1, <2>2, <2>3 DEF ViewInv, FreshInv
  <2>5. Stream = Unread
    BY <1>3, <2>3, ConcatEmpty DEF Stream
  <2>6. Stream' = Tail(Stream) /\ Stream \in Queue /\ Stream # <<>> /\ Head(Stream) = Head(ready)
    <3>1. Unread' = Tail(Unread)
      BY <1>4, <2>2 DEF Unread
    <3>2. Unread' \in Queue
      BY <1>3, <1>4, <3>1, QueueFacts
    <3>3. Stream' = <<>> \o Unread'
      BY <1>1, <2>3 DEF Stream
    <3>4. Stream' = Unread'
      BY <3>2, <3>3, ConcatEmpty
    <3> QED
      BY <1>3, <1>4, <2>5, <3>1, <3>4
  <2>7. TruthInv'
    BY <1>1, <1>7, <2>2, <2>6, TruthTail DEF ViewInv, TruthInv
  <2>8. KnownInv'
    <3> SUFFICES ASSUME logged', ~overtaken', NEW u \in Others, Silent(Stream', u)
                 PROVE  Known(u)'
      BY DEF KnownInv
    <3>1. Head(ready).kind = "online" /\ ~overtaken /\ logged
      BY <1>5, <1>11, <2>2
    <3>2. Tells(Head(Stream), u) /\ (Claims(Head(Stream), u) <=> u \in online')
      BY <2>2, <2>6, <3>1 DEF Tells, Claims
    <3>3. Truthful(Stream, up)
      BY <3>1 DEF ViewInv, TruthInv
    <3>4. Claims(Head(Stream), u) <=> u \in up
      BY <2>6, <3>2, <3>3, SilentTail
    <3> QED
      BY <1>1, <2>3, <3>2, <3>4 DEF Known
  <2> QED
    BY <2>4, <2>7, <2>8 DEF ViewInv
<1> QED
  BY <1>2, <1>8, <1>9, <1>10, <1>11 DEF AtStage

LEMMA TimeOutView ==
  ASSUME ClientInv, ViewInv, TimeOut
  PROVE  ViewInv'
<1>1. CASE Exit
  BY <1>1, ExitView
<1>2. CASE ~Exit
  <2>1. /\ rpc = "receive" /\ late' = TRUE
        /\ UNCHANGED <<events, contacts, shown, overtaken>>
        /\ IF job = "login" THEN Refused
           ELSE Return(FALSE) /\ UNCHANGED <<network, ready, users, online, spoiled>>
    BY <1>2 DEF TimeOut
  <2>2. CASE job = "login"
    BY <2>1, <2>2, RefusedView
  <2>3. CASE job # "login"
    <3>1. Return(FALSE) /\ UNCHANGED <<link, logged, up, asked, wire, ready, online>>
      BY <2>1, <2>3 DEF network
    <3> QED
      BY <2>1, <2>3, <3>1, ReturnView
  <2> QED
    BY <2>2, <2>3
<1> QED
  BY <1>1, <1>2

-----------------------------------------------------------------------------
LEMMA SignalKept ==
  ASSUME ClientInv, SignalInv, UNCHANGED contacts,
         events' = events \/ (events # <<>> /\ events' = Tail(events)),
         stage' = stage \/ stage # "shown" \/ contacts' = {}
  PROVE  SignalInv'
<1>1. events \in Queue
  BY DEF ClientInv, TypeOK, NetworkOK
<1>2. \A i \in DOMAIN events' : events'[i].kind \in {"toOnline", "toOffline", "chat", "finished"}
  <2>1. CASE events' = events
    BY <2>1 DEF SignalInv
  <2>2. CASE events # <<>> /\ events' = Tail(events)
    <3>1. Tail(events) \in Queue /\ Len(Tail(events)) = Len(events) - 1 /\ Len(events) \in Nat
          /\ DOMAIN events = 1..Len(events) /\ \A i \in 1..Len(events) - 1 : Tail(events)[i] = events[i + 1]
      BY <1>1, <2>2, QueueFacts
    <3>2. DOMAIN Tail(events) = 1..Len(events) - 1
      BY <3>1, QueueFacts
    <3>3. \A i \in DOMAIN Tail(events) : i + 1 \in DOMAIN events /\ Tail(events)[i] = events[i + 1]
      BY <3>1, <3>2
    <3> QED
      BY <2>2, <3>3 DEF SignalInv
  <2> QED
    BY <2>1, <2>2
<1> QED
  BY <1>2 DEF SignalInv

LEMMA SignalAdded ==
  ASSUME ClientInv, SignalInv, UNCHANGED contacts, NEW m \in Messages, events' = Append(events, m),
         m.kind \in {"toOnline", "toOffline", "chat", "finished"}, stage' = stage \/ stage # "shown"
  PROVE  SignalInv'
<1>1. events \in Queue
  BY DEF ClientInv, TypeOK, NetworkOK
<1>2. PICK q \in Queue : q = Append(events, m)
  BY <1>1, QueueFacts
<1>3. Len(events) \in Nat /\ DOMAIN events = 1..Len(events) /\ Len(q) = Len(events) + 1
      /\ \A i \in 1..Len(events) + 1 : q[i] = IF i <= Len(events) THEN events[i] ELSE m
  BY <1>1, <1>2, QueueFacts
<1>4. \A i \in DOMAIN q : q[i] = m \/ (i \in DOMAIN events /\ q[i] = events[i])
  <2>1. DOMAIN q = 1..Len(events) + 1
    BY <1>3, QueueFacts
  <2> QED
    BY <1>3, <2>1
<1> QED
  BY <1>2, <1>4 DEF SignalInv

LEMMA SignalStep ==
  ASSUME ClientInv, SignalInv, [Next]_vars
  PROVE  SignalInv'
<1>1. ASSUME Exit \/ Start PROVE SignalInv'
  BY <1>1 DEF Exit, Start, Process, SignalInv
<1>2. ASSUME UNCHANGED <<events, stage, contacts>> PROVE SignalInv'
  BY <1>2, SignalKept
<1>3. CASE UNCHANGED vars
  BY <1>2, <1>3 DEF vars, window
<1>4. CASE Start \/ Quit \/ Answer \/ Disconnect \/ \E u \in Others : Move(u)
  <2>1. CASE Start \/ Quit
    BY <1>1, <2>1 DEF Quit
  <2>2. CASE Answer \/ Disconnect \/ \E u \in Others : Move(u)
    BY <1>2, <2>2 DEF Answer, Disconnect, Move, window
  <2> QED
    BY <1>4, <2>1, <2>2
<1>5. ASSUME NEW ok \in BOOLEAN, Return(ok), rpc # "idle", UNCHANGED <<events, contacts>>
      PROVE  SignalInv'
  <2>1. AtStage /\ stage' = After(job, ok)
    BY <1>5 DEF ClientInv, StageInv, Return
  <2>2. stage' = stage \/ stage # "shown"
    BY <2>1 DEF AtStage, After
  <2> QED
    BY <1>5, <2>2, SignalKept
<1>6. CASE Begins \/ ReadMore \/ Insert
  BY <1>2, <1>6 DEF Begins, Begin, ReadMore, Insert, window
<1>7. CASE Request \/ ReadDatabase \/ Stamp
  <2>1. rpc # "idle" /\ UNCHANGED <<events, contacts>>
    BY <1>7 DEF Request, ReadDatabase, Stamp, window
  <2>2. Return(FALSE) \/ Return(TRUE) \/ stage' = stage
    BY <1>7 DEF Request, ReadDatabase, Stamp
  <2> QED
    BY <1>2, <1>5, <2>1, <2>2
<1>8. CASE Take
  <2>1. rpc # "idle" /\ UNCHANGED <<events, contacts>>
    BY <1>8 DEF Take
  <2>2. Return(FALSE) \/ Return(TRUE) \/ stage' = stage
    BY <1>8 DEF Take, TakeLogin, TakeList, TakeOnline, TakeSent, Refused
  <2> QED
    BY <1>2, <1>5, <2>1, <2>2
<1>9. CASE TimeOut
  <2>1. CASE Exit
    BY <1>1, <2>1
  <2>2. CASE ~Exit
    <3>1. rpc # "idle" /\ UNCHANGED <<events, contacts>>
      BY <1>9, <2>2 DEF TimeOut
    <3>2. Return(FALSE)
      BY <1>9, <2>2 DEF TimeOut, Refused
    <3> QED
      BY <1>5, <3>1, <3>2
  <2> QED
    BY <2>1, <2>2
<1>10. CASE StartListenMsg
  <2>1. UNCHANGED <<events, contacts>> /\ stage # "shown"
    BY <1>10 DEF StartListenMsg, window
  <2> QED
    BY <2>1, SignalKept
<1>11. CASE Finished
  <2>1. PICK m \in Messages : m = Message("finished", {})
    BY MessageType
  <2>2. events' = Append(events, m) /\ m.kind = "finished" /\ stage # "shown" /\ contacts' = contacts
    BY <1>11, <2>1 DEF Finished, Message, window
  <2> QED
    BY <2>2, SignalAdded
<1>12. CASE Wake \/ Check \/ ListenLock
  BY <1>2, <1>12 DEF Wake, Check, ListenLock, window
<1>13. CASE ListenTake
  <2>1. ready # <<>> /\ UNCHANGED <<stage, contacts>>
        /\ events' = IF Head(ready).kind \in {"toOnline", "toOffline", "chat"}
                     THEN Append(events, Head(ready)) ELSE events
    BY <1>13 DEF ListenTake, window
  <2>2. Head(ready) \in Messages
    BY <2>1, QueueFacts DEF ClientInv, TypeOK, NetworkOK
  <2>3. CASE Head(ready).kind \in {"toOnline", "toOffline", "chat"}
    BY <2>1, <2>2, <2>3, SignalAdded
  <2>4. CASE Head(ready).kind \notin {"toOnline", "toOffline", "chat"}
    BY <1>2, <2>1, <2>4
  <2> QED
    BY <2>3, <2>4
<1>14. CASE ListenTimeOut
  <2>1. Exit \/ UNCHANGED <<events, stage, contacts>>
    BY <1>14 DEF ListenTimeOut, window
  <2> QED
    BY <1>1, <1>2, <2>1
<1>15. CASE Event
  <2>1. CASE Exit
    BY <1>1, <2>1
  <2>2. CASE ~Exit
    <3>1. events # <<>> /\ events' = Tail(events)
      BY <1>15, <2>2 DEF Event, InitUi, ShowChat, Presence
    <3>2. stage' = "shown" \/ UNCHANGED <<stage, contacts>>
      BY <1>15, <2>2 DEF Event, InitUi, ShowChat, Presence, window
    <3>3. CASE UNCHANGED <<stage, contacts>>
      BY <3>1, <3>3, SignalKept
    <3>4. CASE stage' = "shown"
      <4>1. events \in Queue
        BY DEF ClientInv, TypeOK, NetworkOK
      <4>2. Tail(events) \in Queue /\ Len(Tail(events)) = Len(events) - 1 /\ Len(events) \in Nat
            /\ DOMAIN events = 1..Len(events) /\ \A i \in 1..Len(events) - 1 : Tail(events)[i] = events[i + 1]
        BY <3>1, <4>1, QueueFacts
      <4>3. DOMAIN Tail(events) = 1..Len(events) - 1
        BY <4>2, QueueFacts
      <4>4. \A i \in DOMAIN Tail(events) : i + 1 \in DOMAIN events /\ Tail(events)[i] = events[i + 1]
        BY <4>2, <4>3
      <4> QED
        BY <3>1, <3>4, <4>4 DEF SignalInv
    <3> QED
      BY <3>2, <3>3, <3>4
  <2> QED
    BY <2>1, <2>2
<1> QED
  BY <1>3, <1>4, <1>6, <1>7, <1>8, <1>9, <1>10, <1>11, <1>12, <1>13, <1>14, <1>15
  DEF Next, Requests, Listens

LEMMA ListenTakeView ==
  ASSUME ClientInv, ViewInv, ListenTake
  PROVE  ViewInv'
<1>1. /\ lpc = "receive" /\ ready # <<>> /\ ready' = Tail(ready)
      /\ events' = IF Head(ready).kind \in {"toOnline", "toOffline", "chat"}
                   THEN Append(events, Head(ready)) ELSE events
      /\ UNCHANGED <<link, logged, up, asked, wire, stage, rpc, online, contacts, shown, overtaken, late>>
  BY DEF ListenTake, network, window, history
<1>2. stage \notin {"off", "dialog", "list", "online", "starting"}
  BY <1>1 DEF ClientInv, StageInv
<1>3. FreshInv'
  BY <1>1, <1>2 DEF ViewInv, FreshInv
<1>4. CASE Head(ready).kind \in {"toOnline", "toOffline", "chat"}
  <2>1. wire \in Queue /\ ready \in Queue /\ events \in Queue /\ Unread \in Queue
    BY StreamType DEF ClientInv, TypeOK
  <2>2. Unread # <<>> /\ Head(Unread) = Head(ready) /\ Unread' = Tail(Unread)
    BY <1>1, <2>1, ConcatTail DEF Unread
  <2>3. events' = Append(events, Head(Unread))
    BY <1>1, <1>4, <2>2
  <2>4. Stream' = Stream
    BY <2>1, <2>2, <2>3, ConcatShift DEF Stream
  <2>5. TruthInv' /\ KnownInv'
    BY <1>1, <2>4, SameStream
  <2> QED
    BY <1>3, <2>5 DEF ViewInv
<1>5. CASE Head(ready).kind \notin {"toOnline", "toOffline", "chat"}
  <2>1. events' = events /\ \A u \in Others : ~Of(Head(ready), u)
    BY <1>1, <1>5 DEF Of
  <2>2. TruthInv' /\ KnownInv'
    BY <1>1, <2>1, OneTaken
  <2> QED
    BY <1>3, <2>2 DEF ViewInv
<1> QED
  BY <1>4, <1>5

LEMMA ListenTimeOutView ==
  ASSUME ClientInv, ViewInv, ListenTimeOut
  PROVE  ViewInv'
<1>1. CASE Exit
  BY <1>1, ExitView
<1>2. CASE ~Exit
  <2>1. /\ late' = TRUE
        /\ UNCHANGED <<link, logged, up, asked, wire, ready, stage, rpc, events, online, contacts, shown,
                       overtaken>>
    BY <1>2 DEF ListenTimeOut, network, window
  <2>2. Unread' = Unread
    BY <2>1 DEF Unread
  <2> QED
    BY <2>1, <2>2, StillView
<1> QED
  BY <1>1, <1>2

(* The main thread handles the signal at the front of the stream.          *)
LEMMA EventView ==
  ASSUME ClientInv, ViewInv, SignalInv, Event
  PROVE  ViewInv'
<1>1. CASE Exit
  BY <1>1, ExitView
<1>2. CASE ~Exit
  <2>1. /\ events # <<>> /\ events' = Tail(events)
        /\ UNCHANGED <<link, logged, up, asked, wire, ready, rpc, online, overtaken, late>>
    BY <1>2 DEF Event, InitUi, ShowChat, Presence, network, window, history
  <2>2. wire \in Queue /\ ready \in Queue /\ events \in Queue /\ Unread \in Queue /\ Stream \in Queue
    BY StreamType DEF ClientInv, TypeOK
  <2>3. PICK e \in Messages : e = Head(events)
    BY <2>1, <2>2, QueueFacts
  <2>4. Unread' = Unread
    BY <2>1 DEF Unread
  <2>5. Stream' = Tail(Stream) /\ Stream # <<>> /\ Head(Stream) = e
    BY <2>1, <2>2, <2>3, <2>4, ConcatTail DEF Stream
  <2>6. stage \notin {"off", "dialog", "list", "online", "starting"}
    BY <2>1 DEF ViewInv, FreshInv
  <2>7. stage' = stage \/ stage' = "shown"
    BY <1>2 DEF Event, InitUi, ShowChat, Presence
  <2>8. FreshInv'
    BY <2>1, <2>4, <2>6, <2>7 DEF ViewInv, FreshInv
  <2>9. TruthInv'
    BY <2>1, <2>2, <2>5, TruthTail DEF ViewInv, TruthInv
  <2>10. 1 \in DOMAIN events /\ e = events[1]
    BY <2>1, <2>2, <2>3, QueueFacts
  <2>11. e.kind \in {"toOnline", "toOffline", "chat", "finished"}
    BY <2>10 DEF SignalInv
  <2>12. KnownInv'
    <3> SUFFICES ASSUME logged, ~overtaken, ~late, NEW u \in Others, Silent(Stream', u)
                 PROVE  Known(u)'
      BY <2>1 DEF KnownInv
    <3>1. ~Of(e, u) => Known(u)
      BY <2>2, <2>5, SilentTail DEF ViewInv, KnownInv
    <3>2. CASE e.kind = "finished"
      <4>1. stage = "wait"
        BY <2>10, <3>2 DEF ClientInv, EventInv
      <4>2. u \in online <=> u \in up
        BY <3>1, <3>2, <4>1 DEF Known, Of
      <4>3. InitUi
        BY <2>3, <3>2 DEF Event
      <4>4. contacts' = users /\ shown' = ShownFirst /\ stage' = "shown"
        BY <1>2, <4>3 DEF InitUi
      <4>5. u # Self
        BY ClientAssumption
      <4> QED
        BY <2>1, <4>2, <4>4, <4>5 DEF Known, ShownFirst
    <3>3. CASE e.kind = "chat"
      <4>1. ShowChat
        BY <2>3, <3>3 DEF Event
      <4>2. UNCHANGED <<stage, contacts, shown>>
        BY <1>2, <4>1 DEF ShowChat, window
      <4>3. Known(u)
        BY <3>1, <3>3 DEF Of
      <4> QED
        BY <2>1, <4>2, <4>3 DEF Known
    <3>4. CASE e.kind \in {"toOnline", "toOffline"}
      <4>1. Presence(e)
        BY <2>3, <3>4 DEF Event
      <4>2. e.val \subseteq contacts /\ Show(e) /\ UNCHANGED <<stage, contacts>>
        BY <1>2, <4>1 DEF Presence
      <4>3. shown' = IF e.kind = "toOnline" THEN shown \cup e.val ELSE shown \ e.val
        BY <4>2 DEF Show
      <4>4. CASE u \in e.val
        <5>1. Tells(Head(Stream), u) /\ (Claims(Head(Stream), u) <=> e.kind = "toOnline")
          BY <2>5, <3>4, <4>4 DEF Tells, Of, Claims
        <5>2. Truthful(Stream, up)
          BY DEF ViewInv, TruthInv
        <5>3. e.kind = "toOnline" <=> u \in up
          BY <2>2, <2>5, <5>1, <5>2, SilentTail
        <5>4. stage = "shown"
          BY <4>2, <4>4 DEF SignalInv
        <5>5. u \in shown' <=> e.kind = "toOnline"
          BY <4>3, <4>4
        <5> QED
          BY <2>1, <4>2, <5>3, <5>4, <5>5 DEF Known
      <4>5. CASE u \notin e.val
        <5>1. Known(u)
          BY <3>1, <4>5 DEF Of
        <5>2. u \in shown' <=> u \in shown
          BY <4>3, <4>5
        <5> QED
          BY <2>1, <4>2, <5>1, <5>2 DEF Known
      <4> QED
        BY <4>4, <4>5
    <3> QED
      BY <2>11, <3>2, <3>3, <3>4
  <2> QED
    BY <2>8, <2>9, <2>12 DEF ViewInv
<1> QED
  BY <1>1, <1>2

-----------------------------------------------------------------------------
LEMMA ViewInit == Init => ViewInv /\ SignalInv
<1> SUFFICES ASSUME Init PROVE ViewInv /\ SignalInv
  OBVIOUS
<1>1. Unread = <<>>
  BY EmptyQueue, ConcatEmpty DEF Init, Unread
<1> QED
  BY <1>1 DEF Init, ViewInv, FreshInv, TruthInv, KnownInv, SignalInv

LEMMA ViewStep ==
  ASSUME ClientInv, ViewInv, SignalInv, [Next]_vars
  PROVE  ViewInv'
<1>1. CASE UNCHANGED vars
  <2>1. UNCHANGED <<link, logged, up, asked, wire, ready, stage, rpc, events, online, contacts, shown,
                    overtaken, late>>
    BY <1>1 DEF vars, network, window, history
  <2>2. Unread' = Unread
    BY <2>1 DEF Unread
  <2> QED
    BY <2>1, <2>2, StillView
<1>2. CASE Start \/ Quit \/ Answer \/ Disconnect \/ \E u \in Others : Move(u)
  BY <1>2, StartView, ExitView, AnswerView, DisconnectView, MoveView DEF Quit
<1>3. CASE Begins \/ Requests \/ ReadMore
  BY <1>3, BeginView, RequestView, ReadDatabaseView, TakeView, TimeOutView, InsertView, StampView,
     ReadMoreView DEF Begins, Requests
<1>4. CASE StartListenMsg \/ Finished \/ Listens
  BY <1>4, StartListenView, FinishedView, WakeView, CheckView, ListenTakeView, ListenTimeOutView
  DEF Listens
<1>5. CASE Event
  BY <1>5, EventView
<1> QED
  BY <1>1, <1>2, <1>3, <1>4, <1>5 DEF Next

LEMMA ViewInvariant == Spec => []ViewInv
<1>1. ClientInv /\ ViewInv /\ SignalInv /\ [Next]_vars => (ViewInv /\ SignalInv)'
  BY ViewStep, SignalStep
<1> QED
  BY <1>1, ViewInit, ClientInvariant, PTL DEF Spec

-----------------------------------------------------------------------------
(* Whatever the order in which the server's notices, its reply to          *)
(* getOnline() (fxclient.cpp:205) and the signals of the listen thread are *)
(* handled (mainwindow.cpp:164-168): once all that was sent has been       *)
(* handled, the main window shows online the contacts who are, unless a    *)
(* request took a message that was not its reply or came away without one. *)
THEOREM ViewIsCurrent == Spec => []ViewCurrent
<1>1. ASSUME ViewInv, TypeOK PROVE ViewCurrent
  <2> SUFFICES ASSUME stage = "shown", logged, wire = <<>>, ready = <<>>, events = <<>>,
                      ~overtaken, ~late
               PROVE  shown \cap Others = up \cap contacts
    BY DEF ViewCurrent, Quiet
  <2>1. Unread = <<>>
    BY EmptyQueue, ConcatEmpty DEF Unread
  <2>2. Stream = <<>>
    BY <2>1, EmptyQueue, ConcatEmpty DEF Stream
  <2>3. \A u \in Others : u \in contacts => (u \in shown <=> u \in up)
    <3> TAKE u \in Others
    <3>1. Silent(Stream, u)
      BY <2>2 DEF Silent
    <3> QED
      BY <1>1, <3>1 DEF ViewInv, KnownInv, Known
  <2>4. up \subseteq Others /\ shown \subseteq contacts
    BY <1>1 DEF TypeOK, NetworkOK, WindowOK
  <2> QED
    BY <2>3, <2>4
<1> QED
  BY <1>1, ViewInvariant, ClientTypes, PTL
=============================================================================
