--------------------------- MODULE SendPathProofs ---------------------------
(* Proofs about LinearMemoryPool, for every base size and every sequence   *)
(* of requests, and about SendPath, for any number of threads that push    *)
(* messages and any sections: what the buffer pool and the socket of a     *)
(* connection keep although the listener clears the pool unlocked.         *)
EXTENDS SendPath, TLAPS

-----------------------------------------------------------------------------
(* LinearMemoryPool: the pool alone.                                       *)

PartType == [size : Nat, used : Nat]

LinearTypeOK ==
  /\ parts \in Seq(PartType) /\ parts # <<>>
  /\ chunks \subseteq Chunk

(* What has been lent lies below the pointer of its part, and the pointer  *)
(* within the buffer.                                                      *)
BelowPointer ==
  \A c \in chunks : c.part \in 1..Len(parts) /\ c.from + c.size <= parts[c.part].used
PointerInside == \A i \in 1..Len(parts) : parts[i].used <= parts[i].size

LinearInv == LinearTypeOK /\ BelowPointer /\ PointerInside /\ ChunksDisjoint

USE LinearAssumption

(* A new part can hold the request it is created for.                      *)
LEMMA NewPartRoom ==
  ASSUME NEW n \in Nat
  PROVE  NewPart(n) \in PartType /\ NewPart(n).used = 0 /\ Fits(NewPart(n), n)
  BY DEF NewPart, Clamp, Fits, PartType

LEMMA InitInv == LinearInit => LinearInv
<1> SUFFICES ASSUME LinearInit PROVE LinearInv
  OBVIOUS
<1> DEFINE p == [size |-> Clamp(Base), used |-> 0]
<1>1. p \in PartType
  BY DEF Clamp, PartType
<1>2. parts = <<p>> /\ parts \in Seq(PartType) /\ Len(parts) = 1 /\ parts[1] = p
  BY <1>1 DEF LinearInit
<1>3. p.used <= p.size
  BY DEF Clamp
<1> QED
  BY <1>2, <1>3 DEF LinearInit, LinearInv, LinearTypeOK, BelowPointer, PointerInside, ChunksDisjoint

(* A step that lends n bytes at the pointer of part i of a chain ps, which *)
(* has the parts of the chain before it and perhaps a new one.             *)
LEMMA BumpInv ==
  ASSUME LinearInv, NEW n \in Nat, NEW ps \in Seq(PartType), NEW i \in 1..Len(ps),
         Len(parts) <= Len(ps),
         \A j \in 1..Len(parts) : ps[j] = parts[j],
         \A j \in 1..Len(ps) : ps[j].used <= ps[j].size,
         Fits(ps[i], n),
         parts' = Bump(ps, i, n),
         chunks' = chunks \cup {ChunkAt(ps, i, n)}
  PROVE  LinearInv'
<1> DEFINE k == ChunkAt(ps, i, n)
           q == [ps EXCEPT ![i].used = @ + n]
<1>1. /\ ps[i] \in PartType
      /\ ps[i].used \in Nat /\ ps[i].size \in Nat
      /\ n + ps[i].used <= ps[i].size
  <2>1. ps[i] \in PartType
    OBVIOUS
  <2>2. ps[i].used \in Nat /\ ps[i].size \in Nat
    BY <2>1 DEF PartType
  <2> QED
    BY <2>1, <2>2 DEF Fits
<1>2. k = [part |-> i, from |-> ps[i].used, size |-> n] /\ k \in Chunk
  BY <1>1 DEF ChunkAt, Chunk
<1>3. /\ parts' = q /\ q \in Seq(PartType) /\ Len(q) = Len(ps)
      /\ \A j \in 1..Len(ps) : q[j].size = ps[j].size
      /\ \A j \in 1..Len(ps) : j # i => q[j] = ps[j]
      /\ q[i].used = ps[i].used + n
  <2>1. parts' = q
    BY DEF Bump
  <2>2. [ps[i] EXCEPT !.used = @ + n] \in PartType
    BY <1>1 DEF PartType
  <2>3. q = [ps EXCEPT ![i] = [ps[i] EXCEPT !.used = @ + n]]
    OBVIOUS
  <2>4. q \in Seq(PartType) /\ Len(q) = Len(ps)
    BY <2>2, <2>3
  <2>5. /\ \A j \in 1..Len(ps) : j # i => q[j] = ps[j]
        /\ q[i] = [ps[i] EXCEPT !.used = @ + n]
    BY <2>3
  <2>6. q[i].size = ps[i].size /\ q[i].used = ps[i].used + n
    BY <2>5, <1>1 DEF PartType
  <2> QED
    BY <2>1, <2>4, <2>5, <2>6
<1>4. \A c \in chunks : /\ c \in Chunk /\ c.part \in 1..Len(ps)
                        /\ c.from + c.size <= ps[c.part].used
  BY DEF LinearInv, LinearTypeOK, BelowPointer
<1>5. LinearTypeOK'
  <2>1. q # <<>>
    BY <1>3
  <2> QED
    BY <1>2, <1>3, <2>1 DEF LinearInv, LinearTypeOK
<1>6. BelowPointer'
  <2> SUFFICES ASSUME NEW c \in chunks'
               PROVE  c.part \in 1..Len(q) /\ c.from + c.size <= q[c.part].used
    BY <1>3 DEF BelowPointer
  <2>1. CASE c = k
    BY <2>1, <1>1, <1>2, <1>3
  <2>2. CASE c \in chunks /\ c.part = i
    <3>1. c.from \in Nat /\ c.size \in Nat
      BY <2>2, <1>4 DEF Chunk
    <3> QED
      BY <2>2, <3>1, <1>1, <1>3, <1>4
  <2>3. CASE c \in chunks /\ c.part # i
    BY <2>3, <1>3, <1>4
  <2> QED
    BY <2>1, <2>2, <2>3
<1>7. PointerInside'
  BY <1>1, <1>3 DEF PointerInside
<1>8. ChunksDisjoint'
  <2>1. ASSUME NEW c \in chunks PROVE ~Overlap(c, k) /\ ~Overlap(k, c)
    <3>1. c.from \in Nat /\ c.size \in Nat /\ c.part = i => c.from + c.size <= ps[i].used
      BY <1>4 DEF Chunk
    <3>2. c.from \in Nat /\ c.size \in Nat
      BY <1>4 DEF Chunk
    <3> QED
      BY <1>1, <1>2, <3>1, <3>2 DEF Overlap
  <2> QED
    BY <2>1 DEF ChunksDisjoint, LinearInv
<1> QED
  BY <1>5, <1>6, <1>7, <1>8 DEF LinearInv

LEMMA BorrowInv ==
  ASSUME LinearInv, NEW n \in Sizes, Borrow(n)
  PROVE  LinearInv'
<1>0. n \in Nat
  OBVIOUS
<1>1. PICK i \in 1..Len(parts) + 1 :
        /\ PartFor(parts, n, i)
        /\ LET ps == IF i > Len(parts) THEN Append(parts, NewPart(n)) ELSE parts
           IN  /\ parts' = Bump(ps, i, n)
               /\ chunks' = chunks \cup {ChunkAt(ps, i, n)}
  BY DEF Borrow
<1>2. parts \in Seq(PartType) /\ PointerInside
  BY DEF LinearInv, LinearTypeOK
<1>3. CASE i > Len(parts)
  <2> DEFINE ps == Append(parts, NewPart(n))
  <2>1. /\ ps \in Seq(PartType) /\ Len(ps) = Len(parts) + 1
        /\ \A j \in 1..Len(parts) : ps[j] = parts[j]
        /\ ps[Len(parts) + 1] = NewPart(n)
    BY <1>0, <1>2, NewPartRoom
  <2>2. i = Len(parts) + 1 /\ i \in 1..Len(ps)
    BY <1>2, <1>3, <2>1
  <2>3. \A j \in 1..Len(ps) : ps[j].used <= ps[j].size
    <3>1. NewPart(n).used <= NewPart(n).size
      BY <1>0, NewPartRoom DEF PartType
    <3> QED
      BY <1>2, <2>1, <3>1 DEF PointerInside
  <2>4. Fits(ps[i], n)
    BY <1>0, <2>1, <2>2, NewPartRoom
  <2>5. parts' = Bump(ps, i, n) /\ chunks' = chunks \cup {ChunkAt(ps, i, n)}
    BY <1>1, <1>3
  <2> HIDE DEF ps
  <2>6. Len(parts) <= Len(ps)
    BY <1>2, <2>1
  <2> QED
    BY <1>0, <2>1, <2>2, <2>3, <2>4, <2>5, <2>6, BumpInv
<1>4. CASE i <= Len(parts)
  <2>1. i \in 1..Len(parts) /\ Fits(parts[i], n)
    BY <1>1, <1>2, <1>4 DEF PartFor
  <2>2. parts' = Bump(parts, i, n) /\ chunks' = chunks \cup {ChunkAt(parts, i, n)}
    BY <1>1, <1>2, <1>4
  <2> QED
    BY <1>0, <1>2, <2>1, <2>2, BumpInv DEF PointerInside
<1> QED
  BY <1>2, <1>3, <1>4

LEMMA ClearInv ==
  ASSUME LinearInv, Clear
  PROVE  LinearInv'
<1> DEFINE p == [parts[1] EXCEPT !.used = 0]
<1>1. parts[1] \in PartType
  BY DEF LinearInv, LinearTypeOK
<1>2. p \in PartType /\ p.used = 0 /\ p.size \in Nat
  BY <1>1 DEF PartType
<1>3. parts' = <<p>> /\ <<p>> \in Seq(PartType) /\ Len(<<p>>) = 1 /\ <<p>>[1] = p
  BY <1>2 DEF Clear
<1> HIDE DEF p
<1> QED
  BY <1>2, <1>3 DEF Clear, LinearInv, LinearTypeOK, BelowPointer, PointerInside, ChunksDisjoint

LEMMA LinearInvariant == LinearSpec => []LinearInv
<1>1. LinearInv /\ [LinearNext]_linearVars => LinearInv'
  <2> SUFFICES ASSUME LinearInv, [LinearNext]_linearVars PROVE LinearInv'
    OBVIOUS
  <2>1. CASE Clear
    BY <2>1, ClearInv
  <2>2. CASE \E n \in Sizes : Borrow(n)
    BY <2>2, BorrowInv
  <2>3. CASE UNCHANGED linearVars
    BY <2>3 DEF linearVars, LinearInv, LinearTypeOK, BelowPointer, PointerInside, ChunksDisjoint
  <2> QED
    BY <2>1, <2>2, <2>3 DEF LinearNext
<1> QED
  BY InitInv, <1>1, PTL DEF LinearSpec

(* Memory that has been lent since the last clear() is lent once: true of  *)
(* borrow() and clear() called one after the other, in any order and with  *)
(* any sizes (linearmemorypool.cpp:34-76).                                 *)
THEOREM NeverLentTwice == LinearSpec => []ChunksDisjoint
<1>1. LinearInv => ChunksDisjoint
  BY DEF LinearInv
<1> QED
  BY <1>1, LinearInvariant, PTL

(* All of it lies in the buffer of an existing part, so a write within a   *)
(* chunk never reaches the pool object behind the buffer.                  *)
THEOREM NeverOutside == LinearSpec => []ChunksInside
<1>1. LinearInv => ChunksInside
  <2> SUFFICES ASSUME LinearInv, NEW c \in chunks
               PROVE  c.part \in 1..Len(parts) /\ c.from + c.size <= parts[c.part].size
    BY DEF ChunksInside
  <2>1. /\ c.part \in 1..Len(parts)
        /\ c.from + c.size <= parts[c.part].used
        /\ parts[c.part].used <= parts[c.part].size
    BY DEF LinearInv, BelowPointer, PointerInside
  <2>2. c.from \in Nat /\ c.size \in Nat /\ parts[c.part] \in PartType
    BY <2>1 DEF LinearInv, LinearTypeOK, Chunk
  <2> QED
    BY <2>1, <2>2 DEF PartType
<1> QED
  BY <1>1, LinearInvariant, PTL

-----------------------------------------------------------------------------
(* SendPath: the threads that use the pool and the socket.                 *)
HIDE LinearAssumption

Inside == {"look", "take"}  \* in a section, borrowing or sending

(* Who has the mutex: a pusher until it has cleared the pool, the listener  *)
(* only until it unlocks.                                                   *)
InSection(t) == pc[t] \in Inside \cup {"unlock"} \/ (t # Listener /\ pc[t] \in {"drop", "reset"})

ThreadType ==
  /\ pc \in [Threads -> Inside \cup {"idle", "unlock", "drop", "reset"}]
  /\ at \in [Threads -> Nat \ {0}]
  /\ mine \in [Threads -> Seq(Chunk)]
  /\ sent \in [Threads -> Nat]
  /\ disturbed \subseteq Threads /\ holder \in Threads \cup {None}
  /\ DOMAIN doing = Threads

LockInv ==
  /\ \A t \in Threads : InSection(t) <=> holder = t
  /\ \A t \in Threads : pc[t] \in Inside =>
       doing[t] \in Sections(t) /\ Len(mine[t]) <= Len(doing[t].needs)
  /\ \A t \in Threads : ~InSection(t) => mine[t] = <<>> /\ sent[t] = 0

(* A part that had room when it was looked at has room when it is taken.    *)
RoomInv ==
  \A t \in Threads : pc[t] = "take" =>
    ~Done(t) /\ (at[t] <= Len(parts) => Fits(parts[at[t]], Needed(t)))

(* The chunks of a section that was not disturbed.                          *)
MineInv == \A t \in Threads : pc[t] \in Inside /\ t \notin disturbed => Safe(t)

(* How far the pool has been cleared, by whoever has it.                    *)
Fresh == [size |-> Clamp(Base), used |-> 0]
PoolClear ==
  /\ parts[1].size = Clamp(Base)
  /\ \A t \in Pushers : /\ pc[t] = "reset" => Len(parts) = 1
                        /\ pc[t] = "unlock" => parts = <<Fresh>>
  /\ holder = None /\ pc[Listener] = "idle" => parts = <<Fresh>>
  /\ holder = None /\ pc[Listener] = "reset" => Len(parts) = 1
  /\ pc[Listener] \in Inside /\ mine[Listener] = <<>> /\ pc[Listener] = "look" /\ at[Listener] = 1
       => parts = <<Fresh>>

(* What the last package on the socket says of the section under way.       *)
Package == [thread : Threads, no : Nat, sum : Nat]
LastOne  == wire[Len(wire)]
Complete == wire # <<>> => LastOne.no = LastOne.sum
Partial(t) == pc[t] \in Inside /\ sent[t] > 0
WireInv ==
  /\ wire \in Seq(Package) /\ Whole
  /\ socket = "up" /\ (\A t \in Threads : ~Partial(t)) => Complete
  /\ \A t \in Threads : socket = "up" /\ Partial(t) =>
       wire # <<>> /\ LastOne = [thread |-> t, no |-> sent[t], sum |-> doing[t].packages]

SendInv == LinearInv /\ ThreadType /\ LockInv /\ RoomInv /\ MineInv /\ PoolClear /\ WireInv

-----------------------------------------------------------------------------
LEMMA NeededNat ==
  ASSUME ThreadType, LockInv, NEW t \in Threads, pc[t] \in Inside
  PROVE  /\ doing[t].needs \in Seq(Nat) /\ doing[t].packages \in Nat
         /\ mine[t] \in Seq(Chunk) /\ Len(mine[t]) \in Nat
         /\ Len(mine[t]) <= Len(doing[t].needs)
         /\ ~Done(t) => Needed(t) \in Nat /\ Len(mine[t]) < Len(doing[t].needs)
<1>1. doing[t] \in Sections(t) /\ Len(mine[t]) <= Len(doing[t].needs)
  BY DEF LockInv
<1>2. doing[t].needs \in Seq(Nat) /\ doing[t].packages \in Nat
  BY <1>1, SendAssumption
<1>3. mine[t] \in Seq(Chunk) /\ Len(mine[t]) \in Nat /\ Len(doing[t].needs) \in Nat
  BY <1>2 DEF ThreadType
<1>4. ~Done(t) => Len(mine[t]) + 1 \in 1..Len(doing[t].needs)
  BY <1>1, <1>3 DEF Done
<1> QED
  BY <1>1, <1>2, <1>3, <1>4 DEF Needed

(* At most one thread is in its section.                                    *)
LEMMA Alone ==
  ASSUME LockInv, NEW t \in Threads, NEW u \in Threads, InSection(t), InSection(u)
  PROVE  t = u /\ holder = t
  BY DEF LockInv

LEMMA SendInit == Init => SendInv
<1> SUFFICES ASSUME Init PROVE SendInv
  OBVIOUS
<1>1. LinearInv
  BY InitInv DEF Init
<1>2. ThreadType
  BY DEF Init, ThreadType, Inside
<1>3. LockInv /\ RoomInv /\ MineInv
  BY SendAssumption DEF Init, LockInv, RoomInv, MineInv, InSection, Inside
<1>4. PoolClear
  BY DEF Init, LinearInit, PoolClear, Fresh, Inside, Threads
<1>5. WireInv
  BY DEF Init, WireInv, Whole, Complete, Partial, Inside
<1> QED
  BY <1>1, <1>2, <1>3, <1>4, <1>5 DEF SendInv

(* A step that leaves the pool alone keeps what is true of the pool.        *)
LEMMA SamePool ==
  ASSUME LinearInv, UNCHANGED linearVars
  PROVE  LinearInv'
  BY DEF linearVars, LinearInv, LinearTypeOK, BelowPointer, PointerInside, ChunksDisjoint

(* A step that sends nothing, and neither starts nor ends a message that is *)
(* under way, keeps what is true of the socket.                             *)
LEMMA SameWire ==
  ASSUME WireInv, UNCHANGED <<wire, socket>>,
         \A t \in Threads : Partial(t)' <=> Partial(t),
         \A t \in Threads : Partial(t) => sent'[t] = sent[t] /\ doing'[t] = doing[t]
  PROVE  WireInv'
<1>1. /\ (wire \in Seq(Package) /\ Whole)'
      /\ (socket = "up" /\ (\A t \in Threads : ~Partial(t)) => Complete)'
  BY DEF WireInv, Whole, Complete, LastOne
<1>2. \A t \in Threads : (socket = "up" /\ Partial(t) =>
        wire # <<>> /\ LastOne = [thread |-> t, no |-> sent[t], sum |-> doing[t].packages])'
  BY DEF WireInv, LastOne
<1> QED
  BY <1>1, <1>2 DEF WireInv

LEMMA AppendFacts ==
  ASSUME NEW S, NEW s \in Seq(S), NEW e \in S
  PROVE  /\ Append(s, e) \in Seq(S) /\ Len(Append(s, e)) = Len(s) + 1 /\ Append(s, e) # <<>>
         /\ Append(s, e)[Len(s) + 1] = e
         /\ \A i \in 1..Len(s) : Append(s, e)[i] = s[i]
         /\ DOMAIN Append(s, e) = 1..Len(s) + 1 /\ DOMAIN s = 1..Len(s) /\ Len(s) \in Nat
  OBVIOUS

(* The chain grows by an empty part.                                        *)
LEMMA GrowInv ==
  ASSUME LinearInv, NEW n \in Nat, parts' = Append(parts, NewPart(n)), UNCHANGED chunks
  PROVE  LinearInv'
<1> DEFINE p == NewPart(n)
<1>1. p \in PartType /\ p.used = 0 /\ p.used <= p.size
  BY NewPartRoom DEF PartType
<1>2. parts \in Seq(PartType) /\ parts # <<>>
  BY DEF LinearInv, LinearTypeOK
<1> HIDE DEF p
<1>3. /\ parts' \in Seq(PartType) /\ parts' # <<>> /\ Len(parts') = Len(parts) + 1
      /\ \A j \in 1..Len(parts) : parts'[j] = parts[j]
      /\ parts'[Len(parts) + 1] = p
  BY <1>1, <1>2 DEF p
<1>4. LinearTypeOK' /\ ChunksDisjoint'
  BY <1>3 DEF LinearInv, LinearTypeOK, ChunksDisjoint
<1>5. BelowPointer'
  BY <1>2, <1>3 DEF LinearInv, BelowPointer
<1>6. PointerInside'
  BY <1>1, <1>2, <1>3 DEF LinearInv, PointerInside
<1> QED
  BY <1>4, <1>5, <1>6 DEF LinearInv

(* The chain is cut behind its first part.                                  *)
LEMMA CutInv ==
  ASSUME LinearInv, parts' = <<parts[1]>>, chunks' = {c \in chunks : c.part = 1}
  PROVE  LinearInv'
<1>1. parts[1] \in PartType /\ parts[1].used <= parts[1].size /\ 1 \in 1..Len(parts)
  BY DEF LinearInv, LinearTypeOK, PointerInside
<1>2. parts' \in Seq(PartType) /\ parts' # <<>> /\ Len(parts') = 1 /\ parts'[1] = parts[1]
  BY <1>1
<1> QED
  BY <1>1, <1>2 DEF LinearInv, LinearTypeOK, BelowPointer, PointerInside, ChunksDisjoint

(* The pointer of the first part is reset, and with it its chunks are gone. *)
LEMMA ResetInv ==
  ASSUME LinearInv, parts' = Cleared, chunks' = {c \in chunks : c.part > 1}
  PROVE  LinearInv'
<1> DEFINE p == [parts[1] EXCEPT !.used = 0]
<1>1. parts \in Seq(PartType) /\ 1 \in 1..Len(parts) /\ parts[1] \in PartType
  BY DEF LinearInv, LinearTypeOK
<1>2. p \in PartType /\ p.used = 0 /\ p.used <= p.size
  BY <1>1 DEF PartType
<1>3. parts' = [parts EXCEPT ![1] = p]
  BY DEF Cleared
<1> HIDE DEF p
<1>4. /\ parts' \in Seq(PartType) /\ Len(parts') = Len(parts) /\ parts'[1] = p
      /\ \A j \in 1..Len(parts) : j # 1 => parts'[j] = parts[j]
  BY <1>1, <1>2, <1>3
<1>5. LinearTypeOK' /\ ChunksDisjoint'
  BY <1>1, <1>4 DEF LinearInv, LinearTypeOK, ChunksDisjoint
<1>6. BelowPointer'
  BY <1>1, <1>4 DEF LinearInv, LinearTypeOK, BelowPointer, Chunk
<1>7. PointerInside'
  BY <1>1, <1>2, <1>4 DEF LinearInv, PointerInside
<1> QED
  BY <1>5, <1>6, <1>7 DEF LinearInv

(* Whoever locks finds nobody else in a section.                           *)
LEMMA LockKeeps ==
  ASSUME SendInv, NEW t \in Threads, Lock(t)
  PROVE  SendInv'
<1>a. pc[t] = "idle" /\ \A u \in Threads : ~InSection(u) /\ mine[u] = <<>> /\ sent[u] = 0
  BY SendAssumption DEF SendInv, LockInv, Lock, Free
<1>b. /\ \A u \in Threads : pc'[u] = IF u = t THEN "look" ELSE pc[u]
      /\ UNCHANGED <<parts, chunks, at, mine, sent, wire, socket, disturbed>> /\ holder' = t
  BY DEF SendInv, ThreadType, Lock, linearVars
<1>c. PICK s \in Sections(t) : doing' = [doing EXCEPT ![t] = s]
  BY DEF Lock
<1>d. /\ s.needs \in Seq(Nat) /\ doing'[t] = s
      /\ \A u \in Threads : InSection(u)' <=> u = t
      /\ \A u \in Threads : pc'[u] \in Inside => u = t
  BY <1>a, <1>b, <1>c, SendAssumption DEF SendInv, ThreadType, InSection, Inside
<1>1. LinearInv'
  BY SamePool DEF SendInv, Lock
<1>2. ThreadType'
  BY DEF SendInv, ThreadType, Inside, Lock
<1>3. LockInv'
  BY <1>a, <1>b, <1>d DEF LockInv
<1>4. RoomInv'
  BY DEF SendInv, ThreadType, RoomInv, Done, Needed, linearVars, Lock
<1>5. MineInv'
  <2>1. mine'[t] = <<>> /\ DOMAIN mine'[t] = {} /\ Range(mine'[t]) = {}
    BY <1>a, <1>b DEF Range
  <2> QED
    BY <1>d, <2>1 DEF MineInv, Safe
<1>6. PoolClear'
  BY <1>a, <1>b, <1>d, SendAssumption DEF SendInv, LockInv, Lock, Free, PoolClear, Fresh,
     InSection, Inside, Threads
<1>7. WireInv'
  BY <1>a, <1>b, SameWire DEF SendInv, Partial, Inside
<1> QED
  BY <1>1, <1>2, <1>3, <1>4, <1>5, <1>6, <1>7 DEF SendInv

(* A look at a part of the chain may add one.                              *)
LEMMA LookKeeps ==
  ASSUME SendInv, NEW t \in Threads, Look(t)
  PROVE  SendInv'
<1>a. InSection(t) /\ holder = t /\ \A u \in Threads : InSection(u) => u = t
  BY Alone DEF SendInv, LockInv, InSection, Inside, Look
<1>b. /\ pc[t] = "look" /\ at[t] \in 1..Len(parts) /\ Needed(t) \in Nat
      /\ UNCHANGED <<chunks, holder, doing, mine, sent, wire, socket, disturbed>>
      /\ parts \in Seq(PartType)
  BY NeededNat DEF SendInv, ThreadType, LinearInv, LinearTypeOK, Look, Inside
<1>c. \/ Fits(parts[at[t]], Needed(t)) /\ UNCHANGED <<parts, at>> /\ pc' = [pc EXCEPT ![t] = "take"]
      \/ /\ at' = [at EXCEPT ![t] = @ + 1] /\ UNCHANGED pc
         /\ parts' = parts \/ parts' = Append(parts, NewPart(Needed(t)))
  BY DEF Look
<1>d. /\ \A u \in Threads : u # t => pc'[u] = pc[u] /\ at'[u] = at[u]
      /\ \A u \in Threads : pc'[u] \in Inside <=> pc[u] \in Inside
      /\ \A u \in Threads : InSection(u)' <=> InSection(u)
      /\ \A u \in Threads : pc'[u] \in Inside => u = t
  BY <1>a, <1>b, <1>c DEF SendInv, ThreadType, InSection, Inside
<1>e. parts'[1] = parts[1]
  <2>1. 1 \in 1..Len(parts)
    BY <1>b DEF SendInv, LinearInv, LinearTypeOK
  <2>2. NewPart(Needed(t)) \in PartType
    BY <1>b, NewPartRoom
  <2> QED
    BY <1>b, <1>c, <2>1, <2>2
<1>1. LinearInv'
  <2>1. CASE parts' = parts
    BY <1>b, <2>1, SamePool DEF SendInv, linearVars
  <2>2. CASE parts' = Append(parts, NewPart(Needed(t)))
    BY <1>b, <2>2, GrowInv DEF SendInv
  <2> QED
    BY <1>c, <2>1, <2>2
<1>2. ThreadType'
  <2>1. pc' \in [Threads -> Inside \cup {"idle", "unlock", "drop", "reset"}]
    BY <1>c DEF SendInv, ThreadType, Inside
  <2>2. at' \in [Threads -> Nat \ {0}]
    <3>1. at \in [Threads -> Nat \ {0}] /\ at[t] + 1 \in Nat \ {0}
      BY DEF SendInv, ThreadType
    <3>2. at' = at \/ at' = [at EXCEPT ![t] = at[t] + 1]
      BY <1>c
    <3> QED
      BY <3>1, <3>2
  <2> QED
    BY <1>b, <2>1, <2>2 DEF SendInv, ThreadType
<1>3. LockInv'
  BY <1>b, <1>d DEF SendInv, LockInv
<1>4. RoomInv'
  <2>1. \A u \in Threads : pc'[u] = "take" => u = t /\ pc'[t] # "look"
    BY <1>d DEF Inside
  <2> QED
    BY <1>b, <1>c, <2>1 DEF RoomInv, Done, Needed, Look
<1>5. MineInv'
  BY DEF SendInv, ThreadType, MineInv, Safe, Inside, linearVars, Look
<1>6. PoolClear'
  <2>1. \A u \in Threads : pc'[u] \in {"reset", "unlock"} => u = Listener
    BY <1>a, <1>b, <1>c, <1>d DEF SendInv, ThreadType, InSection, Inside
  <2>2. pc'[Listener] = "look" => at'[Listener] # 1
    BY <1>b, <1>c, <1>d DEF SendInv, ThreadType, Inside, Threads
  <2> QED
    BY <1>a, <1>b, <1>d, <1>e, <2>1, <2>2, SendAssumption DEF SendInv, PoolClear, Fresh,
       Threads
<1>7. WireInv'
  BY <1>b, <1>d, SameWire DEF SendInv, Partial
<1> QED
  BY <1>1, <1>2, <1>3, <1>4, <1>5, <1>6, <1>7 DEF SendInv

(* What is taken lies at the pointer, above all that was lent.             *)
LEMMA TakeKeeps ==
  ASSUME SendInv, NEW t \in Threads, Take(t)
  PROVE  SendInv'
<1>a. InSection(t) /\ holder = t /\ \A u \in Threads : InSection(u) => u = t
  BY Alone DEF SendInv, LockInv, InSection, Inside, Take
<1> DEFINE n == Needed(t)
           k == ChunkAt(parts, at[t], n)
<1>b. /\ pc[t] = "take" /\ at[t] \in 1..Len(parts) /\ n \in Nat /\ Fits(parts[at[t]], n)
      /\ Len(mine[t]) < Len(doing[t].needs) /\ mine[t] \in Seq(Chunk)
      /\ Len(doing[t].needs) \in Nat
      /\ UNCHANGED <<holder, doing, sent, wire, socket, disturbed>>
      /\ parts \in Seq(PartType)
  BY NeededNat DEF SendInv, ThreadType, RoomInv, LinearInv, LinearTypeOK, Take, Inside
<1>c. /\ mine' = [mine EXCEPT ![t] = Append(@, k)] /\ chunks' = chunks \cup {k}
      /\ parts' = Bump(parts, at[t], n) /\ at' = [at EXCEPT ![t] = 1]
      /\ pc' = [pc EXCEPT ![t] = "look"]
  BY DEF Take
<1>d. /\ \A u \in Threads : u # t => pc'[u] = pc[u] /\ mine'[u] = mine[u]
      /\ pc'[t] = "look" /\ mine'[t] = Append(mine[t], k)
      /\ \A u \in Threads : pc'[u] \in Inside <=> pc[u] \in Inside
      /\ \A u \in Threads : InSection(u)' <=> InSection(u)
      /\ \A u \in Threads : pc'[u] \in Inside => u = t
  BY <1>a, <1>b, <1>c DEF SendInv, ThreadType, InSection, Inside
<1>e. k \in Chunk
  <2>1. parts[at[t]] \in PartType
    BY <1>b
  <2> QED
    BY <1>b, <2>1 DEF ChunkAt, Chunk, PartType
<1> HIDE DEF n, k
<1>f. /\ Append(mine[t], k) \in Seq(Chunk) /\ Len(Append(mine[t], k)) = Len(mine[t]) + 1
      /\ Append(mine[t], k)[Len(mine[t]) + 1] = k
      /\ \A i \in 1..Len(mine[t]) : Append(mine[t], k)[i] = mine[t][i]
      /\ DOMAIN Append(mine[t], k) = 1..Len(mine[t]) + 1 /\ DOMAIN mine[t] = 1..Len(mine[t])
      /\ Len(mine[t]) \in Nat /\ Append(mine[t], k) # <<>>
  BY <1>b, <1>e, AppendFacts
<1>1. LinearInv'
  <2>1. \A j \in 1..Len(parts) : parts[j].used <= parts[j].size
    BY DEF SendInv, LinearInv, PointerInside
  <2>2. chunks' = chunks \cup {ChunkAt(parts, at[t], n)}
    BY <1>c DEF k
  <2>3. LinearInv /\ Len(parts) <= Len(parts)
    BY <1>b DEF SendInv
  <2> QED
    BY <1>b, <1>c, <2>1, <2>2, <2>3, BumpInv
<1>2. ThreadType'
  BY <1>b, <1>c, <1>f DEF SendInv, ThreadType, Inside
<1>3. LockInv'
  <2>1. Len(mine'[t]) <= Len(doing[t].needs)
    BY <1>b, <1>d, <1>f
  <2> QED
    BY <1>a, <1>b, <1>d, <2>1 DEF SendInv, LockInv
<1>4. RoomInv'
  <2>1. \A u \in Threads : pc'[u] = "take" => FALSE
    BY <1>d DEF Inside
  <2> QED
    BY <2>1 DEF RoomInv
<1>5. MineInv'
  <2> SUFFICES ASSUME t \notin disturbed PROVE Safe(t)'
    BY <1>b, <1>d DEF MineInv
  <2>1. Safe(t)
    BY <1>b DEF SendInv, MineInv, Inside
  <2>2. \A c \in chunks : ~Overlap(c, k) /\ ~Overlap(k, c)
    <3> SUFFICES ASSUME NEW c \in chunks PROVE ~Overlap(c, k) /\ ~Overlap(k, c)
      OBVIOUS
    <3>1. c.from \in Nat /\ c.size \in Nat /\ c.from + c.size <= parts[c.part].used
      BY DEF SendInv, LinearInv, LinearTypeOK, Chunk, BelowPointer
    <3>2. k = [part |-> at[t], from |-> parts[at[t]].used, size |-> n]
      BY DEF k, ChunkAt
    <3>3. parts[at[t]].used \in Nat
      <4>1. parts[at[t]] \in PartType
        BY <1>b
      <4> QED
        BY <4>1 DEF PartType
    <3> QED
      BY <1>b, <3>1, <3>2, <3>3 DEF Overlap
  <2>3. \A i \in DOMAIN mine[t] : mine[t][i] \in chunks
    BY <2>1 DEF Safe, Range
  <2>4. \A i \in DOMAIN mine'[t] : mine'[t][i] \in chunks'
    BY <1>c, <1>d, <1>f, <2>3
  <2>5. ASSUME NEW i \in DOMAIN mine'[t], NEW j \in DOMAIN mine'[t], i # j
        PROVE  ~Overlap(mine'[t][i], mine'[t][j])
    <3>1. CASE i \in 1..Len(mine[t]) /\ j \in 1..Len(mine[t])
      BY <1>d, <1>f, <2>1, <2>5, <3>1 DEF Safe
    <3>2. CASE i = Len(mine[t]) + 1
      BY <1>d, <1>f, <2>2, <2>3, <2>5, <3>2
    <3>3. CASE j = Len(mine[t]) + 1
      BY <1>d, <1>f, <2>2, <2>3, <2>5, <3>3
    <3> QED
      BY <1>d, <1>f, <3>1, <3>2, <3>3
  <2> QED
    BY <2>4, <2>5 DEF Safe, Range
<1>6. PoolClear'
  <2>1. parts'[1].size = parts[1].size
    <3>1. \A j \in 1..Len(parts) : parts[j] \in PartType
      BY <1>b
    <3>2. 1 \in 1..Len(parts)
      BY DEF SendInv, LinearInv, LinearTypeOK
    <3> QED
      BY <1>b, <1>c, <3>1, <3>2 DEF Bump, PartType
  <2>2. \A u \in Threads : pc'[u] \in {"reset", "unlock"} => u = Listener
    BY <1>a, <1>d DEF SendInv, ThreadType, InSection, Inside
  <2> QED
    BY <1>a, <1>b, <1>d, <1>f, <2>1, <2>2, SendAssumption DEF SendInv, PoolClear, Fresh,
       Threads
<1>7. WireInv'
  BY <1>b, <1>d, SameWire DEF SendInv, Partial
<1> QED
  BY <1>1, <1>2, <1>3, <1>4, <1>5, <1>6, <1>7 DEF SendInv

(* The end of the model.                                                   *)
LEMMA UseFreedKeeps ==
  ASSUME SendInv, NEW t \in Threads, UseFreed(t)
  PROVE  SendInv'
<1>1. LinearInv'
  BY SamePool DEF SendInv, UseFreed
<1>2. ThreadType'
  BY DEF SendInv, ThreadType, Inside, UseFreed
<1>3. LockInv'
  BY SendAssumption DEF SendInv, ThreadType, LockInv, InSection, Inside, UseFreed
<1>4. RoomInv'
  BY DEF SendInv, ThreadType, RoomInv, Done, Needed, linearVars, UseFreed
<1>5. MineInv'
  BY DEF SendInv, ThreadType, MineInv, Safe, Inside, linearVars, UseFreed
<1>6. PoolClear'
  BY SendAssumption DEF SendInv, ThreadType, LockInv, PoolClear, Fresh, InSection, Inside,
     Threads, linearVars, UseFreed
<1>7. WireInv'
  BY SameWire DEF SendInv, ThreadType, LockInv, Partial, InSection, Inside, UseFreed
<1> QED
  BY <1>1, <1>2, <1>3, <1>4, <1>5, <1>6, <1>7 DEF SendInv

(* A package follows the one before it.                                    *)
LEMMA SendKeeps ==
  ASSUME SendInv, NEW t \in Threads, Send(t)
  PROVE  SendInv'
<1>a. InSection(t) /\ holder = t /\ \A u \in Threads : InSection(u) => u = t
  BY Alone DEF SendInv, LockInv, InSection, Inside, Send
<1>b. /\ pc[t] = "look" /\ sent[t] \in Nat /\ socket = "up" /\ doing[t].packages \in Nat
      /\ UNCHANGED <<parts, chunks, holder, pc, doing, at, mine, socket, disturbed>>
      /\ sent' = [sent EXCEPT ![t] = @ + 1] /\ sent[t] < doing[t].packages
      /\ wire' = Append(wire, [thread |-> t, no |-> sent[t] + 1, sum |-> doing[t].packages])
      /\ wire \in Seq(Package)
  BY NeededNat DEF SendInv, ThreadType, WireInv, Send, linearVars, Inside
<1>1. LinearInv'
  BY SamePool DEF SendInv, Send
<1>2. ThreadType'
  BY DEF SendInv, ThreadType, Inside, Send
<1>3. LockInv'
  BY SendAssumption DEF SendInv, ThreadType, LockInv, InSection, Inside, Send
<1>4. RoomInv'
  BY DEF SendInv, ThreadType, RoomInv, Done, Needed, linearVars, Send
<1>5. MineInv'
  BY DEF SendInv, ThreadType, MineInv, Safe, Inside, linearVars, Send
<1>6. PoolClear'
  BY SendAssumption DEF SendInv, ThreadType, LockInv, PoolClear, Fresh, InSection, Inside,
     Threads, linearVars, Send
<1>7. WireInv'
  <2> DEFINE m == [thread |-> t, no |-> sent[t] + 1, sum |-> doing[t].packages]
  <2>1. /\ m \in Package /\ m.no = sent[t] + 1 /\ m.sum = doing[t].packages
        /\ sent'[t] = sent[t] + 1 /\ \A u \in Threads : u # t => sent'[u] = sent[u]
    BY <1>b DEF Package, SendInv, ThreadType
  <2>2. /\ wire' \in Seq(Package) /\ Len(wire') = Len(wire) + 1 /\ wire' # <<>>
        /\ Len(wire) \in Nat /\ wire'[Len(wire) + 1] = m
        /\ \A i \in 1..Len(wire) : wire'[i] = wire[i]
    BY <1>b, <2>1
  <2>3. \A u \in Threads : pc[u] \in Inside => u = t
    BY <1>a DEF InSection
  <2>4. LastOne' = m /\ \A u \in Threads : Partial(u)' <=> u = t
    BY <1>b, <2>1, <2>2, <2>3 DEF LastOne, Partial, Inside
  <2>5. Len(wire) > 0 => IF m.no = 1 THEN LastOne.no = LastOne.sum
                                     ELSE m = [LastOne EXCEPT !.no = @ + 1]
    <3>1. CASE sent[t] = 0
      <4>1. \A u \in Threads : ~Partial(u)
        BY <2>3, <3>1 DEF Partial
      <4> QED
        BY <1>b, <2>1, <3>1, <4>1 DEF SendInv, WireInv, Complete
    <3>2. CASE sent[t] # 0
      <4>1. Partial(t)
        BY <1>b, <3>2 DEF Partial, Inside
      <4>2. LastOne = [thread |-> t, no |-> sent[t], sum |-> doing[t].packages]
        BY <1>b, <4>1 DEF SendInv, WireInv
      <4> QED
        BY <1>b, <2>1, <3>2, <4>2
    <3> QED
      BY <3>1, <3>2
  <2> HIDE DEF m
  <2>6. Whole'
    <3> SUFFICES ASSUME NEW i \in 2..Len(wire')
                 PROVE  IF wire'[i].no = 1 THEN wire'[i - 1].no = wire'[i - 1].sum
                        ELSE wire'[i] = [wire'[i - 1] EXCEPT !.no = @ + 1]
      BY DEF Whole
    <3>1. CASE i = Len(wire) + 1
      BY <2>2, <2>5, <3>1 DEF LastOne
    <3>2. CASE i # Len(wire) + 1
      <4>1. i \in 2..Len(wire) /\ wire'[i] = wire[i] /\ wire'[i - 1] = wire[i - 1]
        BY <2>2, <3>2
      <4> QED
        BY <4>1 DEF SendInv, WireInv, Whole
    <3> QED
      BY <3>1, <3>2
  <2>7. ASSUME NEW u \in Threads, Partial(u)'
        PROVE  LastOne' = [thread |-> u, no |-> sent'[u], sum |-> doing'[u].packages]
    BY <1>b, <2>1, <2>4, <2>7 DEF m
  <2> QED
    BY <2>2, <2>4, <2>6, <2>7 DEF WireInv, Complete
<1> QED
  BY <1>1, <1>2, <1>3, <1>4, <1>5, <1>6, <1>7 DEF SendInv

(* A message that ends is complete, unless the socket is down.             *)
LEMMA EndSendKeeps ==
  ASSUME SendInv, NEW t \in Threads, EndSend(t)
  PROVE  SendInv'
<1>a. InSection(t) /\ holder = t /\ \A u \in Threads : InSection(u) => u = t
  BY Alone DEF SendInv, LockInv, InSection, Inside, EndSend
<1>b. /\ pc[t] = "look" /\ SentAll(t)
      /\ UNCHANGED <<parts, chunks, holder, doing, at, mine, sent, wire, socket, disturbed>>
      /\ \A u \in Threads : u # t => pc'[u] = pc[u]
      /\ pc'[t] = IF t = Listener THEN "unlock" ELSE "drop"
      /\ pc' \in [Threads -> Inside \cup {"idle", "unlock", "drop", "reset"}]
  BY DEF SendInv, ThreadType, EndSend, AfterSend, linearVars, Inside
<1>c. /\ \A u \in Threads : pc'[u] \notin Inside /\ (pc[u] \in Inside => u = t)
      /\ \A u \in Threads : InSection(u)' <=> InSection(u)
  BY <1>a, <1>b DEF InSection, Inside
<1>1. LinearInv'
  BY SamePool DEF SendInv, EndSend
<1>2. ThreadType'
  BY <1>b DEF SendInv, ThreadType
<1>3. LockInv'
  BY <1>b, <1>c DEF SendInv, LockInv
<1>4. RoomInv'
  BY <1>c DEF RoomInv, Inside
<1>5. MineInv'
  BY <1>c DEF MineInv
<1>6. PoolClear'
  <2>1. \A u \in Pushers : pc'[u] \notin {"reset", "unlock"}
    BY <1>a, <1>b, SendAssumption DEF InSection, Threads
  <2> QED
    BY <1>a, <1>b, <1>c, <2>1, SendAssumption DEF SendInv, PoolClear, Fresh, Threads
<1>7. WireInv'
  <2>1. socket = "up" => Complete
    <3>1. CASE Partial(t)
      BY <1>b, <3>1 DEF SendInv, WireInv, Complete, SentAll
    <3>2. CASE ~Partial(t)
      BY <1>c, <3>2 DEF SendInv, WireInv, Partial
    <3> QED
      BY <3>1, <3>2
  <2> QED
    BY <1>b, <1>c, <2>1 DEF SendInv, WireInv, Whole, Complete, LastOne, Partial
<1> QED
  BY <1>1, <1>2, <1>3, <1>4, <1>5, <1>6, <1>7 DEF SendInv

(* A late drop marks the holder's section.                                 *)
LEMMA DropKeeps ==
  ASSUME SendInv, NEW t \in Threads, Drop(t)
  PROVE  SendInv'
<1>a. /\ pc[t] = "drop" /\ parts' = <<parts[1]>> /\ chunks' = {c \in chunks : c.part = 1}
      /\ UNCHANGED <<holder, doing, at, mine, sent, wire, socket>>
      /\ \A u \in Threads : pc'[u] = IF u = t THEN "reset" ELSE pc[u]
      /\ pc' \in [Threads -> Inside \cup {"idle", "unlock", "drop", "reset"}]
      /\ Len(parts') = 1 /\ parts'[1] = parts[1]
  BY DEF SendInv, ThreadType, Drop, Inside
<1>b. /\ disturbed' \subseteq Threads /\ disturbed \subseteq disturbed'
      /\ t = Listener /\ holder # None => holder \in disturbed'
  BY DEF SendInv, ThreadType, Drop, Disturb
<1>c. /\ \A u \in Threads : pc'[u] \in Inside <=> pc[u] \in Inside
      /\ \A u \in Threads : InSection(u)' <=> InSection(u)
      /\ \A u \in Threads : pc[u] \in Inside => t = Listener /\ holder = u
  BY <1>a, SendAssumption, Alone DEF SendInv, LockInv, InSection, Inside, Threads
<1>1. LinearInv'
  BY <1>a, CutInv DEF SendInv
<1>2. ThreadType'
  BY <1>a, <1>b DEF SendInv, ThreadType
<1>3. LockInv'
  BY <1>a, <1>c DEF SendInv, LockInv
<1>4. RoomInv'
  <2> SUFFICES ASSUME NEW u \in Threads, pc'[u] = "take"
               PROVE  (~Done(u) /\ (at[u] <= Len(parts) => Fits(parts[at[u]], Needed(u))))'
    BY DEF RoomInv
  <2>1. pc[u] = "take" /\ at[u] \in Nat \ {0} /\ Len(parts) \in Nat /\ Len(parts) # 0
    BY <1>a DEF SendInv, ThreadType, LinearInv, LinearTypeOK
  <2>2. ~Done(u) /\ (at[u] <= Len(parts) => Fits(parts[at[u]], Needed(u)))
    BY <2>1 DEF SendInv, RoomInv
  <2> QED
    BY <1>a, <2>1, <2>2 DEF Done, Needed
<1>5. MineInv'
  <2> SUFFICES ASSUME NEW u \in Threads, pc'[u] \in Inside, u \notin disturbed' PROVE FALSE
    BY DEF MineInv
  <2> QED
    BY <1>b, <1>c, SendAssumption
<1>6. PoolClear'
  BY <1>a, <1>b, <1>c, SendAssumption DEF SendInv, PoolClear, Fresh, InSection, Inside,
     LockInv, Threads
<1>7. WireInv'
  BY <1>a, <1>c, SameWire DEF SendInv, Partial
<1> QED
  BY <1>1, <1>2, <1>3, <1>4, <1>5, <1>6, <1>7 DEF SendInv

(* A late reset marks the holder's section.                                *)
LEMMA ResetKeeps ==
  ASSUME SendInv, NEW t \in Threads, Reset(t)
  PROVE  SendInv'
<1>a. /\ pc[t] = "reset" /\ parts' = Cleared /\ chunks' = {c \in chunks : c.part > 1}
      /\ UNCHANGED <<holder, doing, at, mine, sent, wire, socket>>
      /\ \A u \in Threads :
           pc'[u] = IF u = t THEN (IF t = Listener THEN "idle" ELSE "unlock") ELSE pc[u]
      /\ pc' \in [Threads -> Inside \cup {"idle", "unlock", "drop", "reset"}]
  BY DEF SendInv, ThreadType, Reset, Inside
<1>b. /\ disturbed' \subseteq Threads /\ disturbed \subseteq disturbed'
      /\ t = Listener /\ holder # None => holder \in disturbed'
  BY DEF SendInv, ThreadType, Reset, Disturb
<1>c. /\ \A u \in Threads : pc'[u] \in Inside <=> pc[u] \in Inside
      /\ \A u \in Threads : InSection(u)' <=> InSection(u)
      /\ \A u \in Threads : pc[u] \in Inside => t = Listener /\ holder = u
  BY <1>a, SendAssumption, Alone DEF SendInv, LockInv, InSection, Inside, Threads
<1>d. /\ parts \in Seq(PartType) /\ Len(parts) \in Nat /\ 1 \in 1..Len(parts) /\ parts[1] \in PartType
      /\ parts[1].size = Clamp(Base)
  BY DEF SendInv, LinearInv, LinearTypeOK, PoolClear
<1> DEFINE p == [parts[1] EXCEPT !.used = 0]
<1>e. p = Fresh /\ p \in PartType
  BY <1>d DEF Fresh, PartType
<1>f. parts' = [parts EXCEPT ![1] = p]
  BY <1>a DEF Cleared
<1> HIDE DEF p
<1>g. /\ parts' \in Seq(PartType) /\ Len(parts') = Len(parts) /\ parts'[1] = Fresh
      /\ \A j \in 1..Len(parts) : j # 1 => parts'[j] = parts[j]
      /\ Len(parts) = 1 => parts' = <<Fresh>>
  BY <1>d, <1>e, <1>f
<1>1. LinearInv'
  BY <1>a, ResetInv DEF SendInv
<1>2. ThreadType'
  BY <1>a, <1>b DEF SendInv, ThreadType
<1>3. LockInv'
  BY <1>a, <1>c DEF SendInv, LockInv
<1>4. RoomInv'
  <2> SUFFICES ASSUME NEW u \in Threads, pc'[u] = "take"
               PROVE  (~Done(u) /\ (at[u] <= Len(parts) => Fits(parts[at[u]], Needed(u))))'
    BY DEF RoomInv
  <2>1. pc[u] = "take" /\ at[u] \in Nat \ {0}
    BY <1>a DEF SendInv, ThreadType
  <2>2. ~Done(u) /\ (at[u] <= Len(parts) => Fits(parts[at[u]], Needed(u)))
    BY <2>1 DEF SendInv, RoomInv
  <2>3. Needed(u) \in Nat
    BY <2>1, <2>2, NeededNat DEF SendInv, Inside
  <2>4. ASSUME at[u] <= Len(parts) PROVE Fits(parts'[at[u]], Needed(u))
    <3>1. CASE at[u] = 1
      BY <1>d, <1>g, <2>2, <2>3, <2>4, <3>1 DEF Fits, Fresh, PartType
    <3>2. CASE at[u] # 1
      BY <1>d, <1>g, <2>1, <2>2, <2>4, <3>2
    <3> QED
      BY <3>1, <3>2
  <2> QED
    BY <1>a, <1>g, <2>1, <2>2, <2>4 DEF Done, Needed
<1>5. MineInv'
  <2> SUFFICES ASSUME NEW u \in Threads, pc'[u] \in Inside, u \notin disturbed' PROVE FALSE
    BY DEF MineInv
  <2> QED
    BY <1>b, <1>c, SendAssumption
<1>6. PoolClear'
  <2>1. parts'[1].size = Clamp(Base)
    BY <1>g DEF Fresh
  <2>2. \A u \in Pushers : /\ pc'[u] = "reset" => Len(parts') = 1
                           /\ pc'[u] = "unlock" => parts' = <<Fresh>>
    BY <1>a, <1>g, SendAssumption DEF SendInv, PoolClear, Fresh, Threads
  <2>3. holder = None /\ pc'[Listener] \in {"idle", "reset"} => parts' = <<Fresh>>
    <3>1. CASE t = Listener
      BY <1>a, <1>g, <3>1 DEF SendInv, PoolClear
    <3>2. CASE t # Listener
      BY <1>a, <3>2, SendAssumption DEF SendInv, LockInv, InSection
    <3> QED
      BY <3>1, <3>2
  <2>4. pc'[Listener] \notin Inside
    BY <1>a, <1>c, SendAssumption DEF SendInv, LockInv, InSection, Inside, Threads
  <2>5. Len(<<Fresh>>) = 1 /\ Fresh' = Fresh
    BY DEF Fresh
  <2> QED
    BY <1>a, <2>1, <2>2, <2>3, <2>4, <2>5 DEF PoolClear
<1>7. WireInv'
  BY <1>a, <1>c, SameWire DEF SendInv, Partial
<1> QED
  BY <1>1, <1>2, <1>3, <1>4, <1>5, <1>6, <1>7 DEF SendInv

(* A section ends, and its chunks are nobody's.                            *)
LEMMA UnlockKeeps ==
  ASSUME SendInv, NEW t \in Threads, Unlock(t)
  PROVE  SendInv'
<1>1. LinearInv'
  BY SamePool DEF SendInv, Unlock
<1>2. ThreadType'
  BY DEF SendInv, ThreadType, Inside, Unlock
<1>3. LockInv'
  BY SendAssumption DEF SendInv, ThreadType, LockInv, InSection, Inside, Unlock
<1>4. RoomInv'
  BY DEF SendInv, ThreadType, RoomInv, Done, Needed, linearVars, Unlock
<1>5. MineInv'
  BY DEF SendInv, ThreadType, MineInv, Safe, Inside, linearVars, Unlock
<1>6. PoolClear'
  BY SendAssumption DEF SendInv, ThreadType, LockInv, PoolClear, Fresh, InSection, Inside,
     Threads, linearVars, Unlock
<1>7. WireInv'
  BY SameWire DEF SendInv, ThreadType, LockInv, Partial, InSection, Inside, Unlock
<1> QED
  BY <1>1, <1>2, <1>3, <1>4, <1>5, <1>6, <1>7 DEF SendInv

(* The socket goes down.                                                   *)
LEMMA FailKeeps ==
  ASSUME SendInv, Fail
  PROVE  SendInv'
<1>1. LinearInv'
  BY SamePool DEF SendInv, Fail
<1>2. ThreadType'
  BY DEF SendInv, ThreadType, Inside, Fail
<1>3. LockInv'
  BY SendAssumption DEF SendInv, ThreadType, LockInv, InSection, Inside, Fail
<1>4. RoomInv'
  BY DEF SendInv, ThreadType, RoomInv, Done, Needed, linearVars, Fail
<1>5. MineInv'
  BY DEF SendInv, ThreadType, MineInv, Safe, Inside, linearVars, Fail
<1>6. PoolClear'
  BY SendAssumption DEF SendInv, ThreadType, LockInv, PoolClear, Fresh, InSection, Inside,
     Threads, linearVars, Fail
<1>7. WireInv'
  BY DEF SendInv, WireInv, Whole, Complete, LastOne, Partial, linearVars, Fail
<1> QED
  BY <1>1, <1>2, <1>3, <1>4, <1>5, <1>6, <1>7 DEF SendInv

LEMMA SendStep == SendInv /\ [Next]_vars => SendInv'
<1> SUFFICES ASSUME SendInv, [Next]_vars PROVE SendInv'
  OBVIOUS
<1>1. CASE UNCHANGED vars
  BY <1>1 DEF vars, sendVars, linearVars, SendInv, LinearInv, LinearTypeOK, BelowPointer,
     PointerInside, ChunksDisjoint, ThreadType, LockInv, InSection, RoomInv, Done, Needed, MineInv,
     Safe, PoolClear, WireInv, Whole, Complete, Partial, LastOne
<1>2. CASE Fail
  BY <1>2, FailKeeps
<1>3. CASE \E t \in Threads : Step(t)
  BY <1>3, LockKeeps, LookKeeps, TakeKeeps, UseFreedKeeps, SendKeeps, EndSendKeeps,
     DropKeeps,
     ResetKeeps, UnlockKeeps DEF Step
<1> QED
  BY <1>1, <1>2, <1>3 DEF Next

LEMMA SendInvariant == Spec => []SendInv
  BY SendInit, SendStep, PTL DEF Spec

-----------------------------------------------------------------------------
(* borrow() never hands out a byte twice, although the listener clears the  *)
(* pool while a pusher borrows from it (linearmemorypool.cpp:34-76,         *)
(* clientconnection.cpp:125).                                               *)
THEOREM NeverTwiceInSections == Spec => []ChunksDisjoint
<1>1. SendInv => ChunksDisjoint
  BY DEF SendInv, LinearInv
<1> QED
  BY <1>1, SendInvariant, PTL

(* What is lent lies in a part that exists, late clears included.           *)
THEOREM NeverOutsideInSections == Spec => []ChunksInside
<1>1. SendInv => ChunksInside
  <2> SUFFICES ASSUME SendInv, NEW c \in chunks
               PROVE  c.part \in 1..Len(parts) /\ c.from + c.size <= parts[c.part].size
    BY DEF ChunksInside
  <2>1. /\ c.part \in 1..Len(parts)
        /\ c.from + c.size <= parts[c.part].used
        /\ parts[c.part].used <= parts[c.part].size
    BY DEF SendInv, LinearInv, BelowPointer, PointerInside
  <2>2. c.from \in Nat /\ c.size \in Nat /\ parts[c.part] \in PartType
    BY <2>1 DEF SendInv, LinearInv, LinearTypeOK, Chunk
  <2> QED
    BY <2>1, <2>2 DEF PartType
<1> QED
  BY <1>1, SendInvariant, PTL

(* Only the listener's late clear() can take memory from a thread that      *)
(* holds the send mutex; from the listener nobody takes any.                *)
THEOREM OnlyLateClears == Spec => []SectionSafe
<1>1. SendInv => SectionSafe
  BY DEF SendInv, MineInv, SectionSafe, Using, Inside
<1> QED
  BY <1>1, SendInvariant, PTL

(* The listener begins every message with an empty pool, so the memory of a *)
(* connection does not grow from message to message.                        *)
THEOREM EmptyForListener == Spec => []StartsEmpty
<1>1. SendInv => StartsEmpty
  BY DEF SendInv, PoolClear, StartsEmpty, Fresh, Inside
<1> QED
  BY <1>1, SendInvariant, PTL

(* The packages of one message follow each other on the socket, for any     *)
(* number of threads that send on it (fxserver.cpp, ___sendmsg).            *)
THEOREM MessagesWhole == Spec => []Whole
<1>1. SendInv => Whole
  BY DEF SendInv, WireInv
<1> QED
  BY <1>1, SendInvariant, PTL
=============================================================================
