---------------------------- MODULE ServerProofs ----------------------------
(* Proofs about MysqlPool, for every set of threads, every limit and every *)
(* width of the count of database connections in use, and about Server:    *)
(* whatever the number of connections, descriptors and blocks, descriptors *)
(* and blocks have one owner at a time, and the count is exact while no    *)
(* two threads change it.                                                  *)
EXTENDS Server, FiniteSetTheorems, TLAPS

-----------------------------------------------------------------------------
(* MysqlPool: the count alone.                                             *)

(* While no two threads have changed the count at once, the one that is    *)
(* about to write has read the present count.                              *)
OneChanges == \A t, u \in Changing : t = u
RegCurrent == \A t \in Changing : reg[t] = count

CountInv == MysqlTypeOK /\ (~overlapped => OneChanges /\ RegCurrent /\ CountExact)

USE MysqlAssumption

-----------------------------------------------------------------------------
(* Below the width of the count, ++ and -- do not wrap.                    *)
LEMMA Increment ==
  ASSUME NEW n \in Nat, NEW w \in Nat, n + 1 < w
  PROVE  (n + 1) % w = n + 1
  OBVIOUS

LEMMA Decrement ==
  ASSUME NEW n \in Nat \ {0}, NEW w \in Nat, n < w
  PROVE  (n + w - 1) % w = n - 1
  OBVIOUS

LEMMA InRange ==
  ASSUME NEW n \in Nat, NEW w \in Nat \ {0}
  PROVE  n % w \in 0..w - 1
  OBVIOUS

(* A set of threads has fewer members than the count has values.           *)
LEMMA FewThreads ==
  ASSUME NEW S \in SUBSET Threads
  PROVE  IsFiniteSet(S) /\ Cardinality(S) \in Nat /\ Cardinality(S) < Word
<1>1. IsFiniteSet(S) /\ Cardinality(S) <= Cardinality(Threads)
  BY FS_Subset
<1>2. Cardinality(S) \in Nat /\ Cardinality(Threads) \in Nat
  BY <1>1, FS_CardinalityType
<1> QED
  BY <1>1, <1>2

LEMMA WordPositive == Word \in Nat \ {0}
<1>1. Cardinality(Threads) \in Nat
  BY FS_CardinalityType
<1> QED
  BY <1>1

-----------------------------------------------------------------------------
LEMMA InitInv == MysqlInit => CountInv
<1> SUFFICES ASSUME MysqlInit PROVE CountInv
  OBVIOUS
<1>1. MysqlTypeOK
  <2>1. count \in 0..Word - 1 /\ 0 \in 0..Word - 1
    BY WordPositive DEF MysqlInit
  <2>2. phase \in [Threads -> Phases] /\ reg \in [Threads -> 0..Word - 1]
    BY <2>1 DEF MysqlInit, Phases
  <2>3. overlapped \in BOOLEAN
    BY DEF MysqlInit
  <2> QED
    BY <2>1, <2>2, <2>3 DEF MysqlTypeOK
<1>2. Changing = {} /\ Counted = {}
  BY DEF MysqlInit, Changing, Counted
<1>3. CountExact
  BY <1>2, FS_EmptySet DEF MysqlInit, CountExact
<1> QED
  BY <1>1, <1>2, <1>3 DEF CountInv, OneChanges, RegCurrent

(* Steps that change neither the count nor who is counted or changing it.  *)
LEMMA StillInv ==
  ASSUME CountInv, MysqlTypeOK', UNCHANGED <<count, reg, overlapped>>,
         Changing' = Changing, Counted' = Counted
  PROVE  CountInv'
  BY DEF CountInv, OneChanges, RegCurrent, CountExact

LEMMA CallInv ==
  ASSUME CountInv, NEW t \in Threads, Call(t)
  PROVE  CountInv'
<1>1. MysqlTypeOK'
  BY DEF CountInv, MysqlTypeOK, Call, Go, Phases
<1>2. Changing' = Changing /\ Counted' = Counted
  BY DEF CountInv, MysqlTypeOK, Call, Go, Changing, Counted
<1> QED
  BY <1>1, <1>2, StillInv DEF Call

LEMMA PassInv ==
  ASSUME CountInv, NEW t \in Threads, Pass(t)
  PROVE  CountInv'
<1>1. MysqlTypeOK'
  BY DEF CountInv, MysqlTypeOK, Pass, Go, Phases
<1>2. Changing' = Changing /\ Counted' = Counted
  BY DEF CountInv, MysqlTypeOK, Pass, Go, Changing, Counted
<1> QED
  BY <1>1, <1>2, StillInv DEF Pass

(* The query and its result, or exception, leave the connection taken.     *)
LEMMA UseInv ==
  ASSUME CountInv, NEW t \in Threads, NEW ok \in BOOLEAN, Use(t, ok)
  PROVE  CountInv'
<1>0. phase[t] = "use" /\ Go(t, "dec") /\ UNCHANGED <<count, reg, overlapped>>
  BY DEF Use, Failed
<1>1. MysqlTypeOK'
  BY <1>0 DEF CountInv, MysqlTypeOK, Go, Phases
<1>2. Changing' = Changing /\ Counted' = Counted
  BY <1>0 DEF CountInv, MysqlTypeOK, Go, Changing, Counted
<1> QED
  BY <1>0, <1>1, <1>2, StillInv

(* A thread that reads the count is the only one changing it, or the       *)
(* history says otherwise.                                                 *)
LEMMA ReadInv ==
  ASSUME CountInv, NEW t \in Threads, NEW from \in Phases, NEW to \in {"incWrite", "decWrite"},
         Read(t, from, to), Counted' = Counted
  PROVE  CountInv'
<1>1. MysqlTypeOK'
  BY DEF CountInv, MysqlTypeOK, Read, Go, Phases
<1>2. SUFFICES ASSUME ~overlapped' PROVE OneChanges' /\ RegCurrent' /\ CountExact'
  BY <1>1 DEF CountInv
<1>3. ~overlapped /\ Changing = {}
  BY <1>2 DEF Read
<1>4. Changing' = {t} /\ reg'[t] = count'
  BY <1>3 DEF CountInv, MysqlTypeOK, Read, Go, Changing
<1>5. CountExact'
  BY <1>3 DEF CountInv, CountExact, Read
<1> QED
  BY <1>4, <1>5 DEF OneChanges, RegCurrent

LEMMA IncReadInv ==
  ASSUME CountInv, NEW t \in Threads, IncRead(t)
  PROVE  CountInv'
<1>1. Counted' = Counted
  BY DEF CountInv, MysqlTypeOK, IncRead, Read, Go, Counted
<1> QED
  BY <1>1, ReadInv DEF IncRead, Phases

LEMMA DecReadInv ==
  ASSUME CountInv, NEW t \in Threads, DecRead(t)
  PROVE  CountInv'
<1>1. Counted' = Counted
  BY DEF CountInv, MysqlTypeOK, DecRead, Read, Go, Counted
<1> QED
  BY <1>1, ReadInv DEF DecRead, Phases

(* The increment counts one thread more, and does not wrap.                *)
LEMMA IncWriteInv ==
  ASSUME CountInv, NEW t \in Threads, IncWrite(t)
  PROVE  CountInv'
<1>0. phase[t] = "incWrite" /\ phase' = [phase EXCEPT ![t] = "use"]
      /\ count' = (reg[t] + 1) % Word /\ reg' = [reg EXCEPT ![t] = 0] /\ overlapped' = overlapped
  BY DEF IncWrite, Write, Go
<1>1. MysqlTypeOK'
  <2>1. reg[t] + 1 \in Nat
    BY DEF CountInv, MysqlTypeOK
  <2>2. (reg[t] + 1) % Word \in 0..Word - 1
    BY <2>1, InRange, WordPositive
  <2> QED
    BY <1>0, <2>2 DEF CountInv, MysqlTypeOK, Phases
<1>2. SUFFICES ASSUME ~overlapped PROVE OneChanges' /\ RegCurrent' /\ CountExact'
  BY <1>0, <1>1 DEF CountInv
<1>3. t \in Changing /\ reg[t] = count /\ count = Cardinality(Counted) /\ OneChanges
  BY <1>0, <1>2 DEF CountInv, RegCurrent, CountExact, Changing
<1>4. Changing' = {}
  <2>1. Changing = {t}
    BY <1>3 DEF OneChanges
  <2> QED
    BY <1>0, <2>1 DEF CountInv, MysqlTypeOK, Changing
<1>5. Counted' = Counted \cup {t} /\ t \notin Counted
  BY <1>0 DEF CountInv, MysqlTypeOK, Counted
<1>6. Cardinality(Counted') = count + 1
  <2>1. IsFiniteSet(Counted)
    BY FewThreads DEF Counted
  <2> QED
    BY <1>3, <1>5, <2>1, FS_AddElement
<1>7. count + 1 < Word
  <2>1. Counted' \in SUBSET Threads
    BY DEF Counted
  <2> QED
    BY <1>6, <2>1, FewThreads
<1>8. count' = count + 1
  <2>1. count \in Nat
    BY DEF CountInv, MysqlTypeOK
  <2> QED
    BY <1>0, <1>3, <1>7, <2>1, Increment
<1> QED
  BY <1>4, <1>6, <1>8 DEF OneChanges, RegCurrent, CountExact

(* The decrement counts one thread less; it was counted, so the count was  *)
(* not zero.                                                               *)
LEMMA DecWriteInv ==
  ASSUME CountInv, NEW t \in Threads, DecWrite(t)
  PROVE  CountInv'
<1>0. phase[t] = "decWrite" /\ phase' = [phase EXCEPT ![t] = "none"]
      /\ count' = (reg[t] + Word - 1) % Word /\ reg' = [reg EXCEPT ![t] = 0]
      /\ overlapped' = overlapped
  BY DEF DecWrite, Write, Go
<1>1. MysqlTypeOK'
  <2>1. reg[t] + Word - 1 \in Nat
    BY WordPositive DEF CountInv, MysqlTypeOK
  <2> QED
    BY <1>0, <2>1, InRange, WordPositive DEF CountInv, MysqlTypeOK, Phases
<1>2. SUFFICES ASSUME ~overlapped PROVE OneChanges' /\ RegCurrent' /\ CountExact'
  BY <1>0, <1>1 DEF CountInv
<1>3. t \in Changing /\ reg[t] = count /\ count = Cardinality(Counted) /\ OneChanges
  BY <1>0, <1>2 DEF CountInv, RegCurrent, CountExact, Changing
<1>4. Changing' = {}
  <2>1. Changing = {t}
    BY <1>3 DEF OneChanges
  <2> QED
    BY <1>0, <2>1 DEF CountInv, MysqlTypeOK, Changing
<1>5. Counted' = Counted \ {t} /\ t \in Counted
  BY <1>0 DEF CountInv, MysqlTypeOK, Counted
<1>6. IsFiniteSet(Counted) /\ Cardinality(Counted) \in Nat
  BY FewThreads DEF Counted
<1>7. Cardinality(Counted') = count - 1
  BY <1>3, <1>5, <1>6, FS_RemoveElement
<1>8. count \in Nat \ {0} /\ count < Word
  <2>1. Cardinality(Counted) # 0
    BY <1>5, <1>6, FS_EmptySet
  <2> QED
    BY <1>3, <1>6, <2>1 DEF CountInv, MysqlTypeOK
<1>9. count' = count - 1
  BY <1>0, <1>3, <1>8, Decrement
<1> QED
  BY <1>4, <1>7, <1>9 DEF OneChanges, RegCurrent, CountExact

LEMMA NextInv ==
  ASSUME CountInv, [MysqlNext]_mysqlVars
  PROVE  CountInv'
<1>1. ASSUME NEW t \in Threads, MysqlStep(t) PROVE CountInv'
  BY <1>1, CallInv, PassInv, IncReadInv, IncWriteInv, DecReadInv, DecWriteInv, UseInv DEF MysqlStep
<1>2. CASE UNCHANGED mysqlVars
  BY <1>2 DEF mysqlVars, CountInv, MysqlTypeOK, OneChanges, RegCurrent, CountExact, Changing, Counted
<1> QED
  BY <1>1, <1>2 DEF MysqlNext

LEMMA CountInvariant == MysqlSpec => []CountInv
  BY InitInv, NextInv, PTL DEF MysqlSpec

-----------------------------------------------------------------------------
(* For every number of threads the count is exact as long as no two of     *)
(* them change it at the same time (mysqlconnectionpool.cpp:35, 41).       *)
THEOREM CountIsExact == MysqlSpec => []CountExact
<1>1. CountInv => CountExact
  BY DEF CountInv, CountExact
<1> QED
  BY <1>1, CountInvariant, PTL

(* It then does not wrap below zero, which would let nobody pass grab()    *)
(* again.                                                                  *)
THEOREM NoWrap == MysqlSpec => [](~overlapped => count <= Cardinality(Threads))
<1>1. CountInv => (~overlapped => count <= Cardinality(Threads))
  <2>1. Cardinality(Counted) <= Cardinality(Threads)
    BY FS_Subset DEF Counted
  <2> QED
    BY <2>1 DEF CountInv, CountExact
<1> QED
  BY <1>1, CountInvariant, PTL

-----------------------------------------------------------------------------
(* Server: connections, descriptors and blocks.                            *)
HIDE MysqlAssumption

(* Where the main thread stands says what it holds, and where a listener   *)
(* stands says what its connection has.                                    *)
Building == main = "build"
Placed   == main \in {"assign", "detach"}
StageInv ==
  /\ Building => cur \in Conns /\ pc[cur] = "none"
  /\ Placed => cur \in Conns /\ pc[cur] # "none"
  /\ \A c \in Conns :
       /\ pc[c] = "none" <=> block[c] = None
       /\ pc[c] = "none" /\ fd[c] # None => main = "exit" \/ (Building /\ c = cur)
       /\ pc[c] \in {"login", "refused"} => fd[c] # None

(* A connection has its descriptor until it closes it, and has it alone.   *)
Holds(c) == fd[c] # None /\ pc[c] \notin {"restore", "members", "gone"}
FdInv ==
  /\ \A c \in Conns : Holds(c) => fd[c] \in openFds
  /\ \A c, d \in Conns : Holds(c) /\ Holds(d) /\ fd[c] = fd[d] => c = d

(* A block is on the stack once, or lent to one connection.                *)
BlockInv ==
  /\ \A i, j \in DOMAIN free : free[i] = free[j] => i = j
  /\ \A c \in Conns : Lent(c) => \A i \in DOMAIN free : free[i] # block[c]
  /\ \A c, d \in Conns : Lent(c) /\ Lent(d) /\ block[c] = block[d] => c = d
  /\ \A b \in BlockSet : (\E c \in Conns : Lent(c) /\ block[c] = b)
                           \/ (\E i \in DOMAIN free : free[i] = b)

ServerInv == TypeOK /\ StageInv /\ FdInv /\ FdOwner /\ BlockInv

-----------------------------------------------------------------------------
(* The statements of the destructor, in their order.                       *)
LEMMA Order ==
  ASSUME NEW c \in Conns, NEW s, Statement(c, s)
  PROVE  /\ pc[c] = s
         /\ \/ s = "disconnected" /\ Goto(c, "thread")
            \/ s = "thread" /\ Goto(c, "close")
            \/ s = "close" /\ Goto(c, "restore")
            \/ s = "restore" /\ Goto(c, "members")
            \/ s = "members" /\ Goto(c, "gone")
<1>1. PICK i \in 1..5 : Destructor[i] = s /\ pc[c] = s /\ Goto(c, Destructor[i + 1])
  BY DEF Statement, Destructor
<1>2. i \in {1, 2, 3, 4, 5}
  BY <1>1
<1>3. CASE i = 1
  BY <1>1, <1>3 DEF Destructor
<1>4. CASE i = 2
  BY <1>1, <1>4 DEF Destructor
<1>5. CASE i = 3
  BY <1>1, <1>5 DEF Destructor
<1>6. CASE i = 4
  BY <1>1, <1>6 DEF Destructor
<1>7. CASE i = 5
  BY <1>1, <1>7 DEF Destructor
<1> QED
  BY <1>2, <1>3, <1>4, <1>5, <1>6, <1>7

(* With all blocks on the stack and no connection, as at the start and     *)
(* after the end.                                                          *)
LEMMA EmptyInv ==
  ASSUME pc = [c \in Conns |-> "none"], fd = [c \in Conns |-> None],
         block = [c \in Conns |-> None], free = Blocks, main = "accept", cur = None,
         sessions = [f \in Fds |-> None]
  PROVE  StageInv /\ FdInv /\ FdOwner /\ BlockInv
<1>1. StageInv
  BY DEF StageInv, Building, Placed
<1>2. FdInv
  BY DEF FdInv, Holds
<1>3. FdOwner
  BY DEF FdOwner
<1>4. BlockInv
  BY ServerAssumption DEF BlockInv, Lent, BlockSet
<1> QED
  BY <1>1, <1>2, <1>3, <1>4

LEMMA ServerInit == Init => ServerInv
<1> SUFFICES ASSUME Init PROVE ServerInv
  OBVIOUS
<1>1. MysqlTypeOK
  BY InitInv DEF Init, CountInv
<1>2. TypeOK
  BY <1>1, ServerAssumption DEF Init, TypeOK, Serving
<1> QED
  BY <1>2, EmptyInv DEF Init, ServerInv

LEMMA EndInv ==
  ASSUME ServerInv, NEW how \in {"quit", "crashed"}, End(how)
  PROVE  ServerInv'
<1>0. 0 \in 0..Word - 1
  BY WordPositive
<1>1. MysqlTypeOK'
  BY <1>0 DEF End, MysqlTypeOK, Phases
<1>2. TypeOK'
  BY <1>1, ServerAssumption DEF End, TypeOK, Serving
<1>3. StageInv'
  BY DEF End, StageInv, Building, Placed
<1>4. FdInv'
  BY DEF End, FdInv, Holds
<1>5. FdOwner'
  BY DEF End, FdOwner
<1>6. BlockInv'
  BY ServerAssumption DEF End, BlockInv, Lent, BlockSet
<1> QED
  BY <1>2, <1>3, <1>4, <1>5, <1>6 DEF ServerInv

-----------------------------------------------------------------------------
(* One lemma per action: what it can disturb.                              *)
LEMMA AcceptInv ==
  ASSUME ServerInv, Accept
  PROVE  ServerInv'
<1> DEFINE c == CHOOSE x \in Unused : TRUE
<1>1. PICK f \in Lowest \cup {None} :
        /\ cur' = c /\ fd' = [fd EXCEPT ![c] = f] /\ openFds' = openFds \cup ({f} \ {None})
  BY DEF Accept
<1>2. c \in Conns /\ pc[c] = "none" /\ (f # None => f \in Fds \ openFds)
  BY DEF Accept, Unused, Lowest
<1>3. /\ main = "accept" /\ main' = "build"
      /\ UNCHANGED <<process, pc, block, free, closed, sessions, joinable, mysqlVars>>
  BY DEF Accept
<1>a. MysqlTypeOK'
  BY <1>3 DEF ServerInv, TypeOK, MysqlTypeOK, mysqlVars
<1> HIDE DEF c
<1>4. TypeOK'
  BY <1>1, <1>2, <1>3, <1>a, ServerAssumption DEF ServerInv, TypeOK
<1>5. StageInv'
  BY <1>1, <1>2, <1>3 DEF ServerInv, TypeOK, StageInv, Building, Placed
<1>6. FdInv'
  BY <1>1, <1>2, <1>3, ServerAssumption DEF ServerInv, TypeOK, FdInv, Holds
<1>7. FdOwner'
  BY <1>1, <1>2, <1>3, ServerAssumption DEF ServerInv, TypeOK, FdOwner, Serving
<1>8. BlockInv'
  BY <1>3 DEF ServerInv, BlockInv, Lent
<1> QED
  BY <1>4, <1>5, <1>6, <1>7, <1>8 DEF ServerInv

LEMMA BuildInv ==
  ASSUME ServerInv, Build
  PROVE  ServerInv'
<1> DEFINE b == Head(free)
<1>1. /\ main = "build" /\ main' = "assign" /\ free # <<>>
      /\ block' = [block EXCEPT ![cur] = b] /\ joinable' = joinable \ {b} /\ free' = Tail(free)
      /\ pc' = [pc EXCEPT ![cur] = "recv"]
      /\ UNCHANGED <<process, cur, fd, openFds, closed, sessions, mysqlVars>>
  BY DEF Build, Goto
<1>2. cur \in Conns /\ pc[cur] = "none" /\ block[cur] = None
  BY <1>1 DEF ServerInv, StageInv, Building
<1>3. /\ b = free[1] /\ b \in BlockSet /\ free' \in Seq(BlockSet)
      /\ Len(free') = Len(free) - 1 /\ \A i \in 1..Len(free) - 1 : free'[i] = free[i + 1]
      /\ Len(free) \in Nat \ {0}
  BY <1>1 DEF ServerInv, TypeOK
<1>a. MysqlTypeOK'
  BY <1>1 DEF ServerInv, TypeOK, MysqlTypeOK, mysqlVars
<1> HIDE DEF b
<1>4. TypeOK'
  BY <1>1, <1>2, <1>3, <1>a, ServerAssumption DEF ServerInv, TypeOK, Serving
<1>5. StageInv'
  BY <1>1, <1>2, <1>3, ServerAssumption DEF ServerInv, TypeOK, StageInv, Building, Placed
<1>6. FdInv'
  BY <1>1, <1>2 DEF ServerInv, TypeOK, FdInv, Holds
<1>7. FdOwner'
  BY <1>1, <1>2 DEF ServerInv, TypeOK, FdOwner, Serving
<1>8. BlockInv'
  <2>1. DOMAIN free = 1..Len(free) /\ DOMAIN free' = 1..Len(free) - 1
    BY <1>1, <1>3 DEF ServerInv, TypeOK
  <2>2. \A c \in Conns : Lent(c)' <=> Lent(c) \/ c = cur
    BY <1>1, <1>2, <1>3, ServerAssumption DEF ServerInv, TypeOK, Lent
  <2>3. \A c \in Conns : c # cur => block'[c] = block[c]
    BY <1>1 DEF ServerInv, TypeOK
  <2>4. block'[cur] = b
    BY <1>1, <1>2 DEF ServerInv, TypeOK
  <2>5. \A i, j \in DOMAIN free' : free'[i] = free'[j] => i = j
    BY <1>3, <2>1 DEF ServerInv, BlockInv
  <2>6. \A c \in Conns : Lent(c)' => \A i \in DOMAIN free' : free'[i] # block'[c]
    BY <1>3, <2>1, <2>2, <2>3, <2>4 DEF ServerInv, BlockInv
  <2>7. \A c, d \in Conns : Lent(c)' /\ Lent(d)' /\ block'[c] = block'[d] => c = d
    BY <1>3, <2>1, <2>2, <2>3, <2>4 DEF ServerInv, BlockInv
  <2>8. ASSUME NEW x \in BlockSet
        PROVE  (\E c \in Conns : Lent(c)' /\ block'[c] = x) \/ (\E i \in DOMAIN free' : free'[i] = x)
    <3>1. CASE x = b
      BY <3>1, <1>2, <2>2, <2>4
    <3>2. CASE \E c \in Conns : Lent(c) /\ block[c] = x
      BY <3>2, <1>2, <2>2, <2>3 DEF Lent
    <3>3. CASE x # b /\ \E i \in DOMAIN free : free[i] = x
      <4>1. PICK i \in 1..Len(free) : free[i] = x /\ i # 1
        BY <3>3, <1>3, <2>1
      <4>2. i - 1 \in 1..Len(free) - 1 /\ free'[i - 1] = x
        BY <4>1, <1>3
      <4> QED
        BY <4>2, <2>1
    <3> QED
      BY <3>1, <3>2, <3>3 DEF ServerInv, BlockInv
  <2> QED
    BY <2>5, <2>6, <2>7, <2>8 DEF BlockInv
<1> QED
  BY <1>4, <1>5, <1>6, <1>7, <1>8 DEF ServerInv

LEMMA AssignInv ==
  ASSUME ServerInv, Assign
  PROVE  ServerInv'
<1>1. /\ main = "assign" /\ main' = "detach" /\ joinable' = joinable \cup {block[cur]}
      /\ UNCHANGED <<process, cur, pc, fd, block, free, openFds, closed, sessions, mysqlVars>>
  BY DEF Assign
<1>2. cur \in Conns /\ block[cur] \in BlockSet
  BY <1>1 DEF ServerInv, TypeOK, StageInv, Placed
<1>3. MysqlTypeOK'
  BY <1>1 DEF ServerInv, TypeOK, MysqlTypeOK, mysqlVars
<1>4. TypeOK'
  BY <1>1, <1>2, <1>3 DEF ServerInv, TypeOK
<1>5. StageInv' /\ FdInv' /\ FdOwner' /\ BlockInv'
  BY <1>1 DEF ServerInv, StageInv, Building, Placed, FdInv, Holds, FdOwner, BlockInv, Lent
<1> QED
  BY <1>4, <1>5 DEF ServerInv

LEMMA DetachInv ==
  ASSUME ServerInv, Detach
  PROVE  ServerInv'
<1>1. /\ main = "detach" /\ main' = "accept" /\ joinable' = joinable \ {block[cur]} /\ cur' = None
      /\ UNCHANGED <<process, pc, fd, block, free, openFds, closed, sessions, mysqlVars>>
  BY DEF Detach
<1>2. MysqlTypeOK'
  BY <1>1 DEF ServerInv, TypeOK, MysqlTypeOK, mysqlVars
<1>3. TypeOK'
  BY <1>1, <1>2 DEF ServerInv, TypeOK
<1>4. StageInv' /\ FdInv' /\ FdOwner' /\ BlockInv'
  BY <1>1 DEF ServerInv, StageInv, Building, Placed, FdInv, Holds, FdOwner, BlockInv, Lent
<1> QED
  BY <1>3, <1>4 DEF ServerInv

(* A connection waits for, and uses, the database; nothing it has changes. *)
LEMMA DatabaseInv ==
  ASSUME ServerInv, NEW c \in Conns, NEW p \in Serving, MysqlTypeOK',
         pc[c] \in Serving, fd[c] # None, Goto(c, p), UNCHANGED <<process, main, cur, connVars>>
  PROVE  ServerInv'
<1>1. /\ pc' = [pc EXCEPT ![c] = p] /\ p \in {"recv", "login", "refused"}
      /\ pc[c] \in {"recv", "login", "refused"}
      /\ UNCHANGED <<process, main, cur, fd, block, free, openFds, closed, sessions, joinable>>
  BY DEF Goto, Serving, connVars
<1>2. TypeOK'
  BY <1>1 DEF ServerInv, TypeOK, Serving
<1>3. StageInv'
  BY <1>1 DEF ServerInv, TypeOK, StageInv, Building, Placed
<1>4. FdInv'
  BY <1>1 DEF ServerInv, TypeOK, FdInv, Holds
<1>5. FdOwner'
  BY <1>1 DEF ServerInv, TypeOK, FdOwner, Serving
<1>6. \A d \in Conns : Lent(d)' <=> Lent(d)
  BY <1>1 DEF ServerInv, TypeOK, Lent
<1>7. BlockInv'
  BY <1>1, <1>6 DEF ServerInv, BlockInv
<1> QED
  BY <1>2, <1>3, <1>4, <1>5, <1>7 DEF ServerInv

LEMMA AnswerInv ==
  ASSUME ServerInv, NEW c \in Conns, Answer(c)
  PROVE  ServerInv'
<1>1. /\ pc[c] \in {"login", "refused"} /\ pc' = [pc EXCEPT ![c] = "recv"]
      /\ \/ sessions' = [sessions EXCEPT ![fd[c]] = c] /\ UNCHANGED closed
         \/ closed' = closed \cup {c} /\ UNCHANGED sessions
      /\ UNCHANGED <<process, main, cur, fd, block, free, openFds, joinable, mysqlVars>>
  BY DEF Answer, Goto
<1>2. fd[c] \in Fds /\ fd[c] \in openFds
  BY <1>1 DEF ServerInv, TypeOK, StageInv, FdInv, Holds
<1>3. MysqlTypeOK'
  BY <1>1 DEF ServerInv, TypeOK, MysqlTypeOK, mysqlVars
<1>4. TypeOK'
  BY <1>1, <1>2, <1>3 DEF ServerInv, TypeOK, Serving
<1>5. StageInv'
  BY <1>1 DEF ServerInv, TypeOK, StageInv, Building, Placed
<1>6. FdInv'
  BY <1>1 DEF ServerInv, TypeOK, FdInv, Holds
<1>7. FdOwner'
  BY <1>1, <1>2 DEF ServerInv, TypeOK, FdOwner, Serving
<1>8. \A d \in Conns : Lent(d)' <=> Lent(d)
  BY <1>1 DEF ServerInv, TypeOK, Lent
<1>9. BlockInv'
  BY <1>1, <1>8 DEF ServerInv, BlockInv
<1> QED
  BY <1>4, <1>5, <1>6, <1>7, <1>9 DEF ServerInv

LEMMA LeaveInv ==
  ASSUME ServerInv, NEW c \in Conns, Leave(c)
  PROVE  ServerInv'
<1>1. /\ closed' = closed \cup {c}
      /\ UNCHANGED <<process, main, cur, pc, fd, block, free, openFds, sessions, joinable, mysqlVars>>
  BY DEF Leave
<1>2. MysqlTypeOK'
  BY <1>1 DEF ServerInv, TypeOK, MysqlTypeOK, mysqlVars
<1>3. TypeOK'
  BY <1>1, <1>2 DEF ServerInv, TypeOK
<1>4. StageInv' /\ FdInv' /\ FdOwner' /\ BlockInv'
  BY <1>1 DEF ServerInv, StageInv, Building, Placed, FdInv, Holds, FdOwner, BlockInv, Lent
<1> QED
  BY <1>3, <1>4 DEF ServerInv

LEMMA EndOfStreamInv ==
  ASSUME ServerInv, NEW c \in Conns, EndOfStream(c)
  PROVE  ServerInv'
<1>1. /\ pc[c] = "recv" /\ pc' = [pc EXCEPT ![c] = "disconnected"]
      /\ UNCHANGED <<process, main, cur, fd, block, free, openFds, closed, sessions, joinable, mysqlVars>>
  BY DEF EndOfStream, Goto, Destructor, connVars
<1>2. MysqlTypeOK'
  BY <1>1 DEF ServerInv, TypeOK, MysqlTypeOK, mysqlVars
<1>3. TypeOK'
  BY <1>1, <1>2 DEF ServerInv, TypeOK
<1>4. StageInv' /\ FdInv' /\ FdOwner'
  BY <1>1 DEF ServerInv, TypeOK, StageInv, Building, Placed, FdInv, Holds, FdOwner, Serving
<1>5. \A d \in Conns : Lent(d)' <=> Lent(d)
  BY <1>1 DEF ServerInv, TypeOK, Lent
<1>6. BlockInv'
  BY <1>1, <1>5 DEF ServerInv, BlockInv
<1> QED
  BY <1>3, <1>4, <1>6 DEF ServerInv

(* The session goes before the descriptor can be used again.               *)
LEMMA DisconnectedInv ==
  ASSUME ServerInv, NEW c \in Conns, Disconnected(c)
  PROVE  ServerInv'
<1>1. /\ pc[c] = "disconnected" /\ pc' = [pc EXCEPT ![c] = "thread"]
      /\ sessions' = [f \in Fds |-> IF f = fd[c] THEN None ELSE sessions[f]]
      /\ UNCHANGED <<process, main, cur, fd, block, free, openFds, closed, joinable, mysqlVars>>
  BY Order DEF Disconnected, Goto
<1>2. MysqlTypeOK'
  BY <1>1 DEF ServerInv, TypeOK, MysqlTypeOK, mysqlVars
<1>3. TypeOK'
  BY <1>1, <1>2 DEF ServerInv, TypeOK
<1>4. StageInv' /\ FdInv'
  BY <1>1 DEF ServerInv, TypeOK, StageInv, Building, Placed, FdInv, Holds
<1>5. FdOwner'
  BY <1>1, ServerAssumption DEF ServerInv, TypeOK, FdOwner, Serving
<1>6. \A d \in Conns : Lent(d)' <=> Lent(d)
  BY <1>1 DEF ServerInv, TypeOK, Lent
<1>7. BlockInv'
  BY <1>1, <1>6 DEF ServerInv, BlockInv
<1> QED
  BY <1>3, <1>4, <1>5, <1>7 DEF ServerInv

LEMMA EndThreadInv ==
  ASSUME ServerInv, NEW c \in Conns, NEW s \in {"thread", "members"}, EndThread(c, s)
  PROVE  ServerInv'
<1>1. CASE block[c] \in joinable
  BY <1>1, EndInv DEF EndThread, Crash
<1>2. CASE block[c] \notin joinable
  <2>1. /\ \/ pc[c] = "thread" /\ pc' = [pc EXCEPT ![c] = "close"]
           \/ pc[c] = "members" /\ pc' = [pc EXCEPT ![c] = "gone"]
        /\ UNCHANGED <<process, main, cur, fd, block, free, openFds, closed, sessions, joinable, mysqlVars>>
    BY <1>2, Order DEF EndThread, Goto, connVars
  <2>2. MysqlTypeOK'
    BY <2>1 DEF ServerInv, TypeOK, MysqlTypeOK, mysqlVars
  <2>3. TypeOK'
    BY <2>1, <2>2 DEF ServerInv, TypeOK
  <2>4. StageInv' /\ FdInv'
    <3>1. (pc[c] = "thread" /\ pc'[c] = "close") \/ (pc[c] = "members" /\ pc'[c] = "gone")
      BY <2>1 DEF ServerInv, TypeOK
    <3>2. \A d \in Conns : d # c => pc'[d] = pc[d]
      BY <2>1 DEF ServerInv, TypeOK
    <3>3. StageInv'
      BY <2>1, <3>1, <3>2 DEF ServerInv, StageInv, Building, Placed
    <3>4. \A d \in Conns : Holds(d)' => Holds(d)
      BY <2>1, <3>1, <3>2 DEF Holds
    <3>5. FdInv'
      BY <2>1, <3>4 DEF ServerInv, FdInv
    <3> QED
      BY <3>3, <3>5
  <2>5. FdOwner'
    BY <2>1 DEF ServerInv, TypeOK, FdOwner, Serving
  <2>6. \A d \in Conns : Lent(d)' <=> Lent(d)
    BY <2>1 DEF ServerInv, TypeOK, Lent
  <2>7. BlockInv'
    BY <2>1, <2>6 DEF ServerInv, BlockInv
  <2> QED
    BY <2>3, <2>4, <2>5, <2>7 DEF ServerInv
<1> QED
  BY <1>1, <1>2

LEMMA CloseInv ==
  ASSUME ServerInv, NEW c \in Conns, Close(c)
  PROVE  ServerInv'
<1>1. /\ pc[c] = "close" /\ pc' = [pc EXCEPT ![c] = "restore"] /\ openFds' = openFds \ {fd[c]}
      /\ UNCHANGED <<process, main, cur, fd, block, free, closed, sessions, joinable, mysqlVars>>
  BY Order DEF Close, Goto
<1>2. MysqlTypeOK'
  BY <1>1 DEF ServerInv, TypeOK, MysqlTypeOK, mysqlVars
<1>3. TypeOK'
  BY <1>1, <1>2 DEF ServerInv, TypeOK
<1>4. StageInv' /\ FdInv'
  BY <1>1 DEF ServerInv, TypeOK, StageInv, Building, Placed, FdInv, Holds
<1>5. FdOwner'
  <2> SUFFICES ASSUME NEW f \in Fds, sessions[f] # None
               PROVE  LET d == sessions[f]
                      IN  f \in openFds' /\ fd[d] = f /\ pc'[d] \in Serving \cup {"disconnected"}
    BY <1>1 DEF FdOwner
  <2> DEFINE d == sessions[f]
  <2>1. d \in Conns /\ f \in openFds /\ fd[d] = f /\ pc[d] \in Serving \cup {"disconnected"}
    BY DEF ServerInv, TypeOK, FdOwner
  <2>2. d # c
    BY <1>1, <2>1 DEF Serving
  <2>3. fd[c] # f
    BY <1>1, <2>1, <2>2, ServerAssumption DEF ServerInv, FdInv, Holds, Serving
  <2> QED
    BY <1>1, <2>1, <2>2, <2>3 DEF ServerInv, TypeOK
<1>6. \A d \in Conns : Lent(d)' <=> Lent(d)
  BY <1>1 DEF ServerInv, TypeOK, Lent
<1>7. BlockInv'
  BY <1>1, <1>6 DEF ServerInv, BlockInv
<1> QED
  BY <1>3, <1>4, <1>5, <1>7 DEF ServerInv

(* The block goes back on the stack; it was on it nowhere.                 *)
LEMMA RestoreInv ==
  ASSUME ServerInv, NEW c \in Conns, Restore(c)
  PROVE  ServerInv'
<1>1. CASE main = "exit"
  BY <1>1, EndInv DEF Restore, Crash
<1>2. CASE main # "exit"
  <2> DEFINE b == block[c]
  <2>1. /\ pc[c] = "restore" /\ pc' = [pc EXCEPT ![c] = "members"] /\ free' = <<b>> \o free
        /\ UNCHANGED <<process, main, cur, fd, block, openFds, closed, sessions, joinable, mysqlVars>>
    BY <1>2, Order DEF Restore, GiveBack, Goto
  <2>2. b \in BlockSet /\ b # None /\ Lent(c)
    BY <2>1, ServerAssumption DEF ServerInv, TypeOK, StageInv, Lent
  <2>3. /\ free' \in Seq(BlockSet) /\ Len(free) \in Nat /\ Len(free') = Len(free) + 1
        /\ free'[1] = b /\ \A i \in 1..Len(free) : free'[i + 1] = free[i]
        /\ DOMAIN free = 1..Len(free) /\ DOMAIN free' = 1..Len(free) + 1
    BY <2>1, <2>2 DEF ServerInv, TypeOK
  <2>4. MysqlTypeOK'
    BY <2>1 DEF ServerInv, TypeOK, MysqlTypeOK, mysqlVars
  <2> HIDE DEF b
  <2>5. TypeOK'
    BY <2>1, <2>3, <2>4 DEF ServerInv, TypeOK
  <2>6. StageInv' /\ FdInv'
    BY <2>1 DEF ServerInv, TypeOK, StageInv, Building, Placed, FdInv, Holds
  <2>7. FdOwner'
    BY <2>1 DEF ServerInv, TypeOK, FdOwner, Serving
  <2>8. \A d \in Conns : Lent(d)' <=> Lent(d) /\ d # c
    BY <2>1 DEF ServerInv, TypeOK, Lent
  <2>9. \A i \in 1..Len(free) + 1 : i # 1 => i - 1 \in 1..Len(free) /\ free'[i] = free[i - 1]
    <3> SUFFICES ASSUME NEW i \in 1..Len(free) + 1, i # 1
                 PROVE  i - 1 \in 1..Len(free) /\ free'[i] = free[i - 1]
      OBVIOUS
    <3>1. i - 1 \in 1..Len(free) /\ (i - 1) + 1 = i
      BY <2>3
    <3> QED
      BY <3>1, <2>3
  <2>10. BlockInv'
    <3>1. \A i \in DOMAIN free : free[i] # b
      BY <2>2 DEF ServerInv, BlockInv, b
    <3>2. ASSUME NEW i \in DOMAIN free', NEW j \in DOMAIN free', free'[i] = free'[j]
          PROVE  i = j
      <4>1. i \in 1..Len(free) + 1 /\ j \in 1..Len(free) + 1 /\ DOMAIN free = 1..Len(free) /\ free'[1] = b
        BY <2>3
      <4>2. CASE i # 1 /\ j # 1
        <5>1. PICK k \in DOMAIN free, l \in DOMAIN free :
                k = i - 1 /\ l = j - 1 /\ free'[i] = free[k] /\ free'[j] = free[l]
          BY <2>9, <4>1, <4>2
        <5>2. k = l
          BY <3>2, <5>1 DEF ServerInv, BlockInv
        <5> QED
          BY <4>1, <5>1, <5>2
      <4>3. CASE i = 1 \/ j = 1
        BY <2>9, <3>1, <3>2, <4>1, <4>3
      <4> QED
        BY <4>2, <4>3
    <3>3. \A d \in Conns : Lent(d)' => block[d] # b
      BY <2>2, <2>8 DEF ServerInv, BlockInv, b
    <3>4. \A d \in Conns : Lent(d)' => \A i \in DOMAIN free' : free'[i] # block'[d]
      BY <2>1, <2>3, <2>8, <2>9, <3>3 DEF ServerInv, BlockInv
    <3>5. \A d, e \in Conns : Lent(d)' /\ Lent(e)' /\ block'[d] = block'[e] => d = e
      BY <2>1, <2>8 DEF ServerInv, BlockInv
    <3>6. ASSUME NEW x \in BlockSet
          PROVE  (\E d \in Conns : Lent(d)' /\ block'[d] = x) \/ (\E i \in DOMAIN free' : free'[i] = x)
      <4>1. CASE x = b
        BY <4>1, <2>3
      <4>2. CASE x # b /\ \E d \in Conns : Lent(d) /\ block[d] = x
        BY <4>2, <2>1, <2>8 DEF b
      <4>3. CASE \E i \in DOMAIN free : free[i] = x
        <5>1. PICK i \in 1..Len(free) : free[i] = x
          BY <4>3, <2>3
        <5>2. i + 1 \in DOMAIN free' /\ free'[i + 1] = x
          BY <5>1, <2>3
        <5> QED
          BY <5>2
      <4> QED
        BY <4>1, <4>2, <4>3 DEF ServerInv, BlockInv
    <3> QED
      BY <3>2, <3>4, <3>5, <3>6 DEF BlockInv
  <2> QED
    BY <2>5, <2>6, <2>7, <2>10 DEF ServerInv
<1> QED
  BY <1>1, <1>2

LEMMA SigtermInv ==
  ASSUME ServerInv, Sigterm
  PROVE  ServerInv'
<1>1. /\ main' = "exit" /\ cur' = None
      /\ UNCHANGED <<process, pc, fd, block, free, openFds, closed, sessions, joinable, mysqlVars>>
  BY DEF Sigterm, connVars
<1>2. MysqlTypeOK'
  BY <1>1 DEF ServerInv, TypeOK, MysqlTypeOK, mysqlVars
<1>3. TypeOK'
  BY <1>1, <1>2 DEF ServerInv, TypeOK
<1>4. StageInv' /\ FdInv' /\ FdOwner' /\ BlockInv'
  BY <1>1 DEF ServerInv, StageInv, Building, Placed, FdInv, Holds, FdOwner, BlockInv, Lent
<1> QED
  BY <1>3, <1>4 DEF ServerInv

-----------------------------------------------------------------------------
(* What the connections do with the database keeps its count; the end of   *)
(* the process sets it back.                                               *)
LEMMA EndCount ==
  ASSUME NEW how, End(how)
  PROVE  CountInv'
<1>1. MysqlTypeOK'
  <2>1. 0 \in 0..Word - 1
    BY WordPositive
  <2> QED
    BY <2>1 DEF End, MysqlTypeOK, Phases
<1>2. Changing' = {} /\ Counted' = {}
  BY DEF End, Changing, Counted
<1>3. CountExact'
  BY <1>2, FS_EmptySet DEF End, CountExact
<1> QED
  BY <1>1, <1>2, <1>3 DEF CountInv, OneChanges, RegCurrent

LEMMA StepCount ==
  ASSUME CountInv, [Next]_vars
  PROVE  CountInv'
<1>1. CASE \E t \in Threads : MysqlStep(t)
  BY <1>1, NextInv DEF MysqlNext
<1>2. CASE UNCHANGED mysqlVars
  BY <1>2, NextInv
<1>3. CASE \E how \in {"quit", "crashed"} : End(how)
  BY <1>3, EndCount
<1>4. ASSUME NEW c \in Conns, Listener(c)
      PROVE  (\E t \in Threads : MysqlStep(t)) \/ UNCHANGED mysqlVars
                \/ \E how \in {"quit", "crashed"} : End(how)
  <2>1. CASE Login(c) \/ Grab(c) \/ Query(c) \/ Release(c)
    BY <2>1 DEF Login, Grab, Query, Release, MysqlStep, Conns
  <2>2. CASE NoDatabase(c) \/ EndThread(c, "thread") \/ EndThread(c, "members") \/ Restore(c)
    BY <2>2 DEF NoDatabase, EndThread, Restore, Crash
  <2>3. CASE Answer(c) \/ EndOfStream(c) \/ Disconnected(c) \/ Close(c)
    BY <2>3 DEF Answer, EndOfStream, Disconnected, Close
  <2> QED
    BY <1>4, <2>1, <2>2, <2>3 DEF Listener
<1>5. ASSUME Acceptor \/ Sigterm \/ \E c \in Conns : Leave(c)
      PROVE  UNCHANGED mysqlVars
  BY <1>5 DEF Acceptor, Accept, Build, Assign, Detach, Sigterm, Leave
<1>6. CASE UNCHANGED vars
  BY <1>2, <1>6 DEF vars
<1> QED
  BY <1>1, <1>2, <1>3, <1>4, <1>5, <1>6 DEF Next, Exit

(* The four steps of a login that concern the database.                    *)
LEMMA LoginInv ==
  ASSUME ServerInv, CountInv', NEW c \in Conns, Login(c) \/ Grab(c) \/ Query(c) \/ Release(c)
  PROVE  ServerInv'
<1>0. pc \in [Conns -> Serving \cup {"none", "disconnected", "thread", "close", "restore",
                                    "members", "gone"}]
  BY DEF ServerInv, TypeOK
<1>1. MysqlTypeOK'
  BY DEF CountInv
<1>2. CASE Login(c)
  BY <1>1, <1>2, DatabaseInv DEF Login, Serving
<1>3. CASE Grab(c) \/ Query(c)
  <2>1. fd[c] # None /\ pc[c] = "login"
    BY <1>3 DEF Grab, Query, ServerInv, StageInv
  <2>2. \E p \in Serving : Goto(c, p)
    BY <1>0, <1>3, <2>1 DEF Grab, Query, Goto, Serving
  <2> QED
    BY <1>1, <1>3, <2>1, <2>2, DatabaseInv DEF Grab, Query, Serving
<1>4. CASE Release(c)
  <2>1. UNCHANGED <<process, main, cur, pc, connVars>>
    BY <1>4 DEF Release
  <2>2. TypeOK'
    BY <1>1, <2>1 DEF ServerInv, TypeOK, connVars
  <2>3. StageInv' /\ FdInv' /\ FdOwner' /\ BlockInv'
    BY <2>1 DEF connVars, ServerInv, StageInv, Building, Placed, FdInv, Holds, FdOwner, BlockInv, Lent
  <2> QED
    BY <2>2, <2>3 DEF ServerInv
<1> QED
  BY <1>2, <1>3, <1>4

LEMMA StepInv ==
  ASSUME ServerInv, CountInv', [Next]_vars
  PROVE  ServerInv'
<1>1. ASSUME NEW c \in Conns, Listener(c) PROVE ServerInv'
  <2>1. CASE NoDatabase(c)
    BY <2>1, EndInv DEF NoDatabase, Crash
  <2> QED
    BY <1>1, <2>1, LoginInv, AnswerInv, EndOfStreamInv, DisconnectedInv, EndThreadInv, CloseInv, RestoreInv
    DEF Listener
<1>2. CASE Acceptor
  BY <1>2, AcceptInv, BuildInv, AssignInv, DetachInv DEF Acceptor
<1>3. CASE Exit
  BY <1>3, EndInv DEF Exit
<1>4. CASE UNCHANGED vars
  <2>1. MysqlTypeOK'
    BY DEF CountInv
  <2>2. TypeOK'
    BY <1>4, <2>1 DEF vars, connVars, ServerInv, TypeOK
  <2>3. StageInv' /\ FdInv' /\ FdOwner' /\ BlockInv'
    BY <1>4 DEF vars, connVars, ServerInv, StageInv, Building, Placed, FdInv, Holds, FdOwner, BlockInv, Lent
  <2> QED
    BY <2>2, <2>3 DEF ServerInv
<1> QED
  BY <1>1, <1>2, <1>3, <1>4, SigtermInv, LeaveInv DEF Next

LEMMA ServerInvariant == Spec => [](ServerInv /\ CountInv)
<1>1. Init => CountInv
  BY InitInv DEF Init
<1>2. ServerInv /\ CountInv /\ [Next]_vars => ServerInv' /\ CountInv'
  BY StepInv, StepCount
<1> QED
  BY <1>1, <1>2, ServerInit, PTL DEF Spec

-----------------------------------------------------------------------------
(* Every variable of the server keeps its type, however many connections   *)
(* there are (serverlistener.cpp, clientconnection.cpp).                   *)
THEOREM TypeCorrect == Spec => []TypeOK
<1>1. ServerInv => TypeOK
  BY DEF ServerInv
<1> QED
  BY <1>1, ServerInvariant, PTL

(* No session is left under a descriptor that has passed to another        *)
(* connection: the destructor ends the session before it closes the        *)
(* descriptor (clientconnection.cpp:44-46).                                *)
THEOREM DescriptorOwner == Spec => []FdOwner
<1>1. ServerInv => FdOwner
  BY DEF ServerInv
<1> QED
  BY <1>1, ServerInvariant, PTL

(* A block is on the acceptor's stack once or lent to one connection,      *)
(* whatever accepts, ends of streams and SIGTERM do (serverlistener.cpp:56,*)
(* 105).                                                                   *)
THEOREM OneOwnerPerBlock == Spec => []BlocksSound
<1>1. ASSUME ServerInv PROVE BlocksSound
  <2> SUFFICES ASSUME NEW b \in BlockSet
               PROVE  Cardinality({c \in Conns : Lent(c) /\ block[c] = b})
                        + Cardinality({i \in DOMAIN free : free[i] = b}) = 1
    BY DEF BlocksSound
  <2>0. BlockInv
    BY <1>1 DEF ServerInv
  <2>1. CASE \E c \in Conns : Lent(c) /\ block[c] = b
    <3>1. PICK c \in Conns : Lent(c) /\ block[c] = b
      BY <2>1
    <3>2. {d \in Conns : Lent(d) /\ block[d] = b} = {c}
      BY <2>0, <3>1 DEF BlockInv
    <3>3. {i \in DOMAIN free : free[i] = b} = {}
      BY <2>0, <3>1 DEF BlockInv
    <3>4. Cardinality({c}) = 1 /\ Cardinality({}) = 0
      BY FS_EmptySet, FS_Singleton
    <3> QED
      BY <3>2, <3>3, <3>4
  <2>2. CASE ~\E c \in Conns : Lent(c) /\ block[c] = b
    <3>1. PICK i \in DOMAIN free : free[i] = b
      BY <2>0, <2>2 DEF BlockInv
    <3>2. {c \in Conns : Lent(c) /\ block[c] = b} = {}
      BY <2>2
    <3>3. {j \in DOMAIN free : free[j] = b} = {i}
      BY <2>0, <3>1 DEF BlockInv
    <3>4. Cardinality({i}) = 1 /\ Cardinality({}) = 0
      BY FS_EmptySet, FS_Singleton
    <3> QED
      BY <3>2, <3>3, <3>4
  <2> QED
    BY <2>1, <2>2
<1> QED
  BY <1>1, ServerInvariant, PTL

(* In the server, too, the count of database connections is exact while    *)
(* no two threads change it at once (mysqlconnectionpool.cpp:35, 41).      *)
THEOREM CountExactInServer == Spec => []CountExact
<1>1. CountInv => CountExact
  BY DEF CountInv, CountExact
<1> QED
  BY <1>1, ServerInvariant, PTL
=============================================================================
