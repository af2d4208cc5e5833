----------------------- MODULE BlockedMemoryPoolProofs -----------------------
(***************************************************************************)
(* Proofs about BlockedMemoryPool: its invariant is inductive, for every   *)
(* number of threads, blocks per pool and chain length, and with it the    *)
(* pool implements BlockLending.                                           *)
(***************************************************************************)
EXTENDS BlockedMemoryPool, FunctionTheorems, FiniteSetTheorems, TLAPS

(* The cardinality of 1 .. n.                                              *)
LEMMA FirstNumbers ==
  ASSUME NEW n \in Nat
  PROVE  IsFiniteSet(1 .. n) /\ Cardinality(1 .. n) = n
<1>1. 1 \in Int /\ n \in Int
  OBVIOUS
<1>2. IsFiniteSet(1 .. n) /\ Cardinality(1 .. n) = IF 1 > n THEN 0 ELSE n - 1 + 1
  BY <1>1, FS_Interval
<1> QED BY <1>2

(* The blocks of one pool are BMax many.                                   *)
LEMMA PoolCardinality ==
  ASSUME NEW p \in PoolIds
  PROVE  IsFiniteSet(BlocksOf(p)) /\ Cardinality(BlocksOf(p)) = BMax
<1> USE DEF BlocksOf, Slots
<1> DEFINE f == [i \in 1 .. BMax |-> <<p, i - 1>>]
<1>1. f \in Bijection(1 .. BMax, BlocksOf(p))
  <2>1. f \in [1 .. BMax -> BlocksOf(p)]
    BY PoolAssumption
  <2>2. \A i, j \in 1 .. BMax : f[i] = f[j] => i = j
    BY PoolAssumption
  <2>3. \A b \in BlocksOf(p) : \E i \in 1 .. BMax : f[i] = b
    <3> SUFFICES ASSUME NEW b \in BlocksOf(p)
                 PROVE  \E i \in 1 .. BMax : f[i] = b
      OBVIOUS
    <3>1. PICK k \in Slots : b = <<p, k>>
      OBVIOUS
    <3>2. k + 1 \in 1 .. BMax /\ f[k + 1] = b
      BY <3>1, PoolAssumption
    <3> QED BY <3>2
  <2> QED BY <2>1, <2>2, <2>3, Fun_IsBij
<1>2. IsFiniteSet(1 .. BMax) /\ Cardinality(1 .. BMax) = BMax
  BY FirstNumbers, PoolAssumption
<1>3. ExistsBijection(1 .. BMax, BlocksOf(p))
  BY <1>1 DEF ExistsBijection
<1> QED BY <1>1, <1>2, <1>3, FS_Bijection

(* A stack that does not hold block b of its pool has room for it: this is *)
(* why restore() never writes past _borrowable.                            *)
LEMMA StackRoom ==
  ASSUME TypeOK, NoDoubleLend,
         NEW p \in 1 .. npools, NEW b \in BlocksOf(p),
         \A i \in Live(p) : borrowable[p][i] # b
  PROVE  avaliable[p] < BMax
<1> USE DEF PoolIds
<1> DEFINE S == {borrowable[p][i] : i \in Live(p)}
           g == [i \in 1 .. avaliable[p] |-> borrowable[p][i - 1]]
<1>0. npools \in Nat /\ p \in PoolIds /\ avaliable[p] \in 0 .. BMax /\ BMax \in Nat
  <2>1. npools \in 1 .. MaxPools /\ MaxPools \in Nat /\ BMax \in Nat
    BY TypeOK, PoolAssumption DEF TypeOK
  <2>2. p \in PoolIds
    BY <2>1
  <2>3. avaliable \in [PoolIds -> 0 .. BMax]
    BY TypeOK DEF TypeOK
  <2> QED BY <2>1, <2>2, <2>3
<1>1. S \subseteq BlocksOf(p) \ {b}
  BY <1>0, NoDoubleLend DEF NoDoubleLend
<1>2. IsFiniteSet(BlocksOf(p)) /\ Cardinality(BlocksOf(p)) = BMax
  BY <1>0, PoolCardinality
<1>3. IsFiniteSet(BlocksOf(p) \ {b}) /\ Cardinality(BlocksOf(p) \ {b}) = BMax - 1
  BY <1>2, FS_RemoveElement
<1>4. g \in Bijection(1 .. avaliable[p], S)
  <2>1. \A i \in 1 .. avaliable[p] : i - 1 \in Live(p)
    BY <1>0 DEF Live
  <2>2. g \in [1 .. avaliable[p] -> S]
    BY <2>1
  <2>3. \A i, j \in 1 .. avaliable[p] : g[i] = g[j] => i = j
    <3> SUFFICES ASSUME NEW i \in 1 .. avaliable[p], NEW j \in 1 .. avaliable[p],
                        g[i] = g[j]
                 PROVE  i = j
      OBVIOUS
    <3>1. i - 1 = j - 1
      BY <2>1, NoDoubleLend DEF NoDoubleLend
    <3> QED BY <3>1, <1>0
  <2>4. \A s \in S : \E i \in 1 .. avaliable[p] : g[i] = s
    <3> SUFFICES ASSUME NEW s \in S
                 PROVE  \E i \in 1 .. avaliable[p] : g[i] = s
      OBVIOUS
    <3>0. PICK k \in Live(p) : s = borrowable[p][k]
      OBVIOUS
    <3>1. k + 1 \in 1 .. avaliable[p] /\ (k + 1) - 1 = k
      BY <1>0 DEF Live
    <3> QED BY <3>0, <3>1
  <2> QED BY <2>2, <2>3, <2>4, Fun_IsBij
<1>5. Cardinality(S) = avaliable[p]
  <2>1. IsFiniteSet(1 .. avaliable[p]) /\ Cardinality(1 .. avaliable[p]) = avaliable[p]
    BY <1>0, FirstNumbers
  <2> QED BY <1>4, <2>1, FS_Bijection DEF ExistsBijection
<1>6. Cardinality(S) <= BMax - 1
  BY <1>1, <1>3, FS_Subset
<1> QED BY <1>0, <1>5, <1>6

-----------------------------------------------------------------------------
(* Two threads that own the mutex of one pool are the same thread.         *)
LEMMA OneOwner ==
  ASSUME LockInv, NEW t \in Threads, NEW u \in Threads, NEW p \in PoolIds,
         Owns(t, p), Owns(u, p)
  PROVE  t = u
BY LockInv DEF LockInv

LEMMA InitBlockInv == Init => BlockInv
<1> SUFFICES ASSUME Init PROVE BlockInv
  OBVIOUS
<1> USE PoolAssumption DEF Init, PoolIds, Slots, Blocks, BlocksOf
<1>0. 1 \in PoolIds /\ None \notin Threads
  OBVIOUS
<1>1. TypeOK
  BY <1>0 DEF TypeOK, DefaultStack
<1>2. LockInv
  BY <1>0 DEF LockInv, Owns
<1>3. Exhausted /\ ArgInv /\ ChainInv
  BY DEF Exhausted, ArgInv, ChainInv
<1>4. NoDoubleLend
  BY <1>0 DEF NoDoubleLend, DefaultStack, Live
<1>5. NothingLost
  BY <1>0 DEF NothingLost, DefaultStack, Live
<1> QED BY <1>1, <1>2, <1>3, <1>4, <1>5 DEF BlockInv

(* Calls, lock and unlock touch neither stacks nor loans.                  *)
LEMMA CallBorrowInv ==
  ASSUME BlockInv, NEW t \in Threads, CallBorrow(t)
  PROVE  BlockInv'
<1>1. TypeOK'
  BY BlockInv, CallBorrow(t), PoolAssumption DEF BlockInv, CallBorrow, TypeOK, PoolIds
<1>2. LockInv'
  BY BlockInv, CallBorrow(t), PoolAssumption DEF BlockInv, CallBorrow, TypeOK, LockInv, Owns, PoolIds
<1>3. Exhausted'
  BY BlockInv, CallBorrow(t), PoolAssumption DEF BlockInv, CallBorrow, TypeOK, Exhausted, PoolIds
<1>4. ArgInv'
  BY BlockInv, CallBorrow(t) DEF BlockInv, CallBorrow, TypeOK, ArgInv
<1>5. ChainInv' /\ NoDoubleLend' /\ NothingLost'
  BY BlockInv, CallBorrow(t)
  DEF BlockInv, CallBorrow, ChainInv, NoDoubleLend, NothingLost, Live
<1> QED BY <1>1, <1>2, <1>3, <1>4, <1>5 DEF BlockInv

LEMMA CallRestoreInv ==
  ASSUME BlockInv, NEW t \in Threads, CallRestore(t)
  PROVE  BlockInv'
<1>1. TypeOK'
  BY BlockInv, CallRestore(t), PoolAssumption DEF BlockInv, CallRestore, TypeOK, PoolIds
<1>2. LockInv'
  BY BlockInv, CallRestore(t), PoolAssumption DEF BlockInv, CallRestore, TypeOK, LockInv, Owns, PoolIds
<1>3. Exhausted'
  BY BlockInv, CallRestore(t), PoolAssumption DEF BlockInv, CallRestore, TypeOK, Exhausted, PoolIds
<1>4. ArgInv'
  <2>1. \A a \in held[t] : 1 <= a[1]
    BY BlockInv, PoolAssumption DEF BlockInv, TypeOK, Blocks, PoolIds
  <2> QED BY <2>1, BlockInv, CallRestore(t) DEF BlockInv, CallRestore, TypeOK, ArgInv
<1>5. ChainInv' /\ NoDoubleLend' /\ NothingLost'
  BY BlockInv, CallRestore(t)
  DEF BlockInv, CallRestore, ChainInv, NoDoubleLend, NothingLost, Live
<1> QED BY <1>1, <1>2, <1>3, <1>4, <1>5 DEF BlockInv

LEMMA EnterInv ==
  ASSUME BlockInv, NEW t \in Threads, Enter(t)
  PROVE  BlockInv'
<1>1. TypeOK'
  BY BlockInv, Enter(t), PoolAssumption DEF BlockInv, Enter, Unlocked, TypeOK, PoolIds
<1>2. LockInv'
  BY BlockInv, Enter(t), PoolAssumption DEF BlockInv, Enter, Unlocked, TypeOK, LockInv, Owns, PoolIds
<1>3. Exhausted'
  BY BlockInv, Enter(t), PoolAssumption DEF BlockInv, Enter, Unlocked, TypeOK, Exhausted, PoolIds
<1>4. ArgInv'
  BY BlockInv, Enter(t) DEF BlockInv, Enter, Unlocked, TypeOK, ArgInv
<1>5. ChainInv' /\ NoDoubleLend' /\ NothingLost'
  BY BlockInv, Enter(t)
  DEF BlockInv, Enter, Unlocked, ChainInv, NoDoubleLend, NothingLost, Live
<1> QED BY <1>1, <1>2, <1>3, <1>4, <1>5 DEF BlockInv

LEMMA LeaveInv ==
  ASSUME BlockInv, NEW t \in Threads, Leave(t)
  PROVE  BlockInv'
<1>0. /\ \A u \in Threads :
            pc'[u] \in {"enter", "inside"}
              => pc[u] \in {"enter", "inside"} /\ at'[u] = at[u] /\ arg'[u] = arg[u]
      /\ UNCHANGED <<avaliable, op, held>>
  BY BlockInv, Leave(t) DEF BlockInv, TypeOK, Leave
<1>1. TypeOK'
  <2>1. at' \in [Threads -> 1 .. npools]
    <3>1. npools \in Nat /\ at \in [Threads -> 1 .. npools]
      BY BlockInv, PoolAssumption DEF BlockInv, TypeOK, PoolIds
    <3>2. at[t] # 1 => at[t] - 1 \in 1 .. npools
      BY <3>1
    <3> QED BY <3>1, <3>2, Leave(t) DEF Leave
  <2>2. /\ lock' \in [PoolIds -> Threads \cup {None}]
        /\ pc' \in [Threads -> {"idle", "enter", "inside", "leave"}]
        /\ arg' \in [Threads -> Blocks \cup Foreign \cup {None}]
    BY BlockInv, Leave(t) DEF BlockInv, Leave, TypeOK
  <2> QED BY <2>1, <2>2, BlockInv, Leave(t) DEF BlockInv, Leave, TypeOK
<1>2. LockInv'
  BY BlockInv, Leave(t), PoolAssumption DEF BlockInv, Leave, TypeOK, LockInv, Owns, PoolIds
<1>3. Exhausted'
  BY <1>0 DEF BlockInv, Exhausted
<1>4. ArgInv'
  BY <1>0 DEF BlockInv, ArgInv
<1>5. ChainInv' /\ NoDoubleLend' /\ NothingLost'
  BY BlockInv, Leave(t)
  DEF BlockInv, Leave, ChainInv, NoDoubleLend, NothingLost, Live
<1> QED BY <1>1, <1>2, <1>3, <1>4, <1>5 DEF BlockInv

LEMMA RestoreNextInv ==
  ASSUME BlockInv, NEW t \in Threads, RestoreNext(t)
  PROVE  BlockInv'
<1>1. TypeOK'
  BY BlockInv, RestoreNext(t), PoolAssumption DEF BlockInv, RestoreNext, InPool, TypeOK, PoolIds
<1>2. LockInv'
  BY BlockInv, RestoreNext(t), PoolAssumption DEF BlockInv, RestoreNext, InPool, TypeOK, LockInv, Owns, PoolIds
<1>3. Exhausted'
  BY BlockInv, RestoreNext(t), PoolAssumption DEF BlockInv, RestoreNext, InPool, TypeOK, Exhausted, PoolIds
<1>4. ArgInv'
  <2>1. ASSUME arg[t] \in held[t], at[t] <= arg[t][1]
        PROVE  at[t] + 1 <= arg[t][1]
    <3>1. arg[t] \in Blocks /\ at[t] \in Nat /\ arg[t] \notin BlocksOf(at[t])
      BY <2>1, BlockInv, RestoreNext(t), PoolAssumption
      DEF BlockInv, TypeOK, RestoreNext, InPool, PoolIds
    <3>2. arg[t][1] \in Nat /\ arg[t][1] # at[t]
      BY <3>1, PoolAssumption DEF Blocks, BlocksOf, PoolIds
    <3> QED BY <2>1, <3>1, <3>2
  <2> QED BY <2>1, BlockInv, RestoreNext(t) DEF BlockInv, RestoreNext, InPool, TypeOK, ArgInv
<1>5. ChainInv' /\ NoDoubleLend' /\ NothingLost'
  BY BlockInv, RestoreNext(t)
  DEF BlockInv, RestoreNext, InPool, ChainInv, NoDoubleLend, NothingLost, Live
<1> QED BY <1>1, <1>2, <1>3, <1>4, <1>5 DEF BlockInv

(* The end of the chain is reached only with a foreign address: a block    *)
(* that was lent is never deleted.                                         *)
LEMMA DeletesForeign ==
  ASSUME BlockInv, NEW t \in Threads, RestoreDelete(t)
  PROVE  arg[t] \in Foreign /\ held' = held
<1>1. arg[t] \in Foreign
  <2> SUFFICES ASSUME arg[t] \notin Foreign PROVE FALSE
    OBVIOUS
  <2>1. arg[t] \in held[t] /\ at[t] <= arg[t][1]
    BY BlockInv, RestoreDelete(t) DEF BlockInv, ArgInv, RestoreDelete, InPool
  <2>2. arg[t] \in Blocks /\ arg[t][1] <= npools /\ npools \in PoolIds
    BY <2>1, BlockInv DEF BlockInv, TypeOK, ChainInv
  <2>3. at[t] = npools /\ arg[t] \notin BlocksOf(at[t])
    BY RestoreDelete(t) DEF RestoreDelete, InPool
  <2>4. arg[t][1] = npools
    BY <2>1, <2>2, <2>3, PoolAssumption DEF Blocks, PoolIds
  <2> QED BY <2>2, <2>3, <2>4 DEF Blocks, BlocksOf
<1>2. held' = held
  BY <1>1, BlockInv, RestoreDelete(t), PoolAssumption DEF BlockInv, TypeOK, RestoreDelete, InPool
<1> QED BY <1>1, <1>2

LEMMA RestoreDeleteInv ==
  ASSUME BlockInv, NEW t \in Threads, RestoreDelete(t)
  PROVE  BlockInv'
<1>0. held' = held
  BY DeletesForeign, BlockInv, RestoreDelete(t)
<1>1. TypeOK'
  BY <1>0, BlockInv, RestoreDelete(t), PoolAssumption DEF BlockInv, RestoreDelete, TypeOK, PoolIds
<1>2. LockInv'
  BY <1>0, BlockInv, RestoreDelete(t), PoolAssumption DEF BlockInv, RestoreDelete, TypeOK, LockInv, Owns, PoolIds
<1>3. Exhausted'
  BY <1>0, BlockInv, RestoreDelete(t), PoolAssumption DEF BlockInv, RestoreDelete, TypeOK, Exhausted, PoolIds
<1>4. ArgInv'
  BY <1>0, BlockInv, RestoreDelete(t) DEF BlockInv, RestoreDelete, TypeOK, ArgInv
<1>5. ChainInv' /\ NoDoubleLend' /\ NothingLost'
  <2>1. UNCHANGED <<borrowable, avaliable, npools, held>>
    BY <1>0, RestoreDelete(t) DEF RestoreDelete, InPool
  <2> QED BY <2>1, BlockInv DEF BlockInv, ChainInv, NoDoubleLend, NothingLost, Live
<1> QED BY <1>1, <1>2, <1>3, <1>4, <1>5 DEF BlockInv

-----------------------------------------------------------------------------
(* The steps that move blocks.                                             *)
LEMMA BorrowHereInv ==
  ASSUME BlockInv, NEW t \in Threads, BorrowHere(t)
  PROVE  BlockInv'
<1>a. PICK p, k, b : p = at[t] /\ k = avaliable[p] - 1 /\ b = borrowable[p][k]
  OBVIOUS
<1>0. /\ p \in PoolIds /\ p \in 1 .. npools /\ p \in Nat /\ npools \in Nat
      /\ avaliable[p] \in 1 .. BMax /\ k \in Slots /\ k \in Live(p) /\ BMax \in Nat
      /\ k \in 0 .. BMax /\ avaliable[p] = k + 1
  <2>1. p \in 1 .. npools /\ npools \in 1 .. MaxPools
    BY <1>a, BlockInv DEF BlockInv, TypeOK, PoolIds
  <2>2. p \in PoolIds /\ p \in Nat /\ npools \in Nat
    BY <2>1, PoolAssumption DEF PoolIds
  <2>3. avaliable[p] \in 0 .. BMax /\ BMax \in Nat
    BY <2>2, BlockInv, PoolAssumption DEF BlockInv, TypeOK
  <2>4. avaliable[p] # 0
    BY <1>a, BorrowHere(t) DEF BorrowHere, Empty
  <2> QED BY <1>a, <2>1, <2>2, <2>3, <2>4 DEF Slots, Live
<1>1. b \in BlocksOf(p) /\ b \in Blocks /\ \A u \in Threads : b \notin held[u]
  BY <1>a, <1>0, BlockInv DEF BlockInv, NoDoubleLend, BlocksOf, Blocks
<1>2. /\ held' = [held EXCEPT ![t] = held[t] \cup {b}]
      /\ avaliable' = [avaliable EXCEPT ![p] = k]
      /\ pc' = [pc EXCEPT ![t] = "leave"]
      /\ UNCHANGED <<borrowable, npools, lock, op, at, arg>>
      /\ pc[t] = "inside"
  BY <1>a, BorrowHere(t) DEF BorrowHere, Empty, Pop
<1>3. TypeOK'
  <2>1. avaliable' \in [PoolIds -> 0 .. BMax]
    BY <1>0, <1>2, BlockInv DEF BlockInv, TypeOK
  <2>2. held' \in [Threads -> SUBSET Blocks]
    BY <1>1, <1>2, BlockInv DEF BlockInv, TypeOK
  <2>3. pc' \in [Threads -> {"idle", "enter", "inside", "leave"}]
    BY <1>2, BlockInv DEF BlockInv, TypeOK
  <2> QED BY <1>2, <2>1, <2>2, <2>3, BlockInv DEF BlockInv, TypeOK
<1>4. LockInv'
  BY <1>2, BlockInv DEF BlockInv, TypeOK, LockInv, Owns
<1>5. Exhausted'
  BY <1>0, <1>2, BlockInv DEF BlockInv, TypeOK, Exhausted
<1>6. ArgInv'
  BY <1>2, BlockInv DEF BlockInv, TypeOK, ArgInv
<1>7. ChainInv'
  <2>1. b[1] <= npools
    BY <1>0, <1>1 DEF BlocksOf
  <2> QED BY <1>2, <2>1, BlockInv DEF BlockInv, TypeOK, ChainInv
<1>8. Live(p)' = Live(p) \ {k} /\ \A q \in PoolIds \ {p} : Live(q)' = Live(q)
  <2>1. avaliable'[p] = k /\ \A q \in PoolIds \ {p} : avaliable'[q] = avaliable[q]
    BY <1>0, <1>2, BlockInv DEF BlockInv, TypeOK
  <2>2. Live(p)' = 0 .. k - 1 /\ Live(p) = 0 .. k
    BY <2>1, <1>0 DEF Live
  <2> QED BY <2>1, <2>2, <1>0 DEF Live
<1>9. held \in [Threads -> SUBSET Blocks]
  BY BlockInv DEF BlockInv, TypeOK
<1>10. \A q \in 1 .. npools : q \in PoolIds
  BY BlockInv, PoolAssumption DEF BlockInv, TypeOK, PoolIds
<1>11. NoDoubleLend'
  <2>1. \A u, v \in Threads : u # v => held'[u] \cap held'[v] = {}
    BY <1>1, <1>2, <1>9, BlockInv DEF BlockInv, NoDoubleLend
  <2>2. ASSUME NEW q \in 1 .. npools, NEW i \in Live(q)'
        PROVE  i \in Live(q) /\ borrowable[q][i] # b
    <3>1. CASE q = p
      BY <3>1, <1>a, <1>0, <1>8, BlockInv DEF BlockInv, NoDoubleLend
    <3>2. CASE q # p
      <4>1. i \in Live(q) /\ borrowable[q][i] \in BlocksOf(q)
        BY <3>2, <1>8, <1>10, BlockInv DEF BlockInv, NoDoubleLend
      <4> QED BY <4>1, <3>2, <1>1 DEF BlocksOf
    <3> QED BY <3>1, <3>2
  <2> QED BY <2>1, <2>2, <1>2, <1>9, BlockInv DEF BlockInv, NoDoubleLend
<1>12. NothingLost'
  <2> SUFFICES ASSUME NEW q \in 1 .. npools, NEW c \in BlocksOf(q)
               PROVE  \/ \E i \in Live(q)' : borrowable[q][i] = c
                      \/ \E u \in Threads : c \in held'[u]
    BY <1>2 DEF NothingLost
  <2>1. CASE c = b
    BY <2>1, <1>2, <1>9
  <2>2. CASE c # b /\ \E i \in Live(q) : borrowable[q][i] = c
    <3>1. PICK i \in Live(q) : borrowable[q][i] = c
      BY <2>2
    <3>2. i \in Live(q)'
      BY <3>1, <2>2, <1>a, <1>8, <1>10
    <3> QED BY <3>1, <3>2
  <2>3. CASE \E u \in Threads : c \in held[u]
    BY <2>3, <1>2, <1>9
  <2> QED BY <2>1, <2>2, <2>3, BlockInv DEF BlockInv, NothingLost
<1> QED BY <1>3, <1>4, <1>5, <1>6, <1>7, <1>11, <1>12 DEF BlockInv

LEMMA BorrowNextInv ==
  ASSUME BlockInv, NEW t \in Threads, BorrowNext(t)
  PROVE  BlockInv'
<1>a. PICK p : p = at[t]
  OBVIOUS
<1>0. /\ p \in PoolIds /\ p \in Nat /\ p <= npools /\ npools \in Nat
      /\ p + 1 \in PoolIds /\ MaxPools \in Nat /\ BMax \in Nat \ {0}
  BY <1>a, BlockInv, BorrowNext(t), PoolAssumption DEF BlockInv, TypeOK, BorrowNext, Empty, PoolIds
<1>1. /\ pc[t] = "inside" /\ op[t] = "borrow" /\ avaliable[p] = 0
      /\ at' = [at EXCEPT ![t] = p + 1]
      /\ pc' = [pc EXCEPT ![t] = "enter"]
      /\ UNCHANGED <<lock, op, arg, held>>
  BY <1>a, BorrowNext(t) DEF BorrowNext, Empty
<1>2. \/ /\ p < npools
         /\ UNCHANGED <<npools, avaliable, borrowable>>
      \/ /\ p = npools
         /\ npools' = p + 1
         /\ avaliable' = [avaliable EXCEPT ![p + 1] = BMax]
         /\ borrowable' = [borrowable EXCEPT ![p + 1] = DefaultStack(p + 1)]
  BY <1>a, <1>0, BorrowNext(t) DEF BorrowNext, Empty
<1>3. TypeOK'
  <2>1. DefaultStack(p + 1) \in [Slots -> Blocks]
    BY <1>0 DEF DefaultStack, Blocks
  <2>2. npools' \in PoolIds /\ npools' >= npools /\ p + 1 \in 1 .. npools'
    BY <1>0, <1>2, BlockInv DEF BlockInv, TypeOK, PoolIds
  <2>3. at' \in [Threads -> 1 .. npools']
    <3>1. at \in [Threads -> 1 .. npools] /\ npools' \in Nat
      BY <2>2, <1>0, BlockInv DEF BlockInv, TypeOK, PoolIds
    <3>2. \A u \in Threads : at[u] \in 1 .. npools'
      BY <3>1, <2>2, <1>0
    <3> QED BY <3>1, <3>2, <2>2, <1>1
  <2>4. avaliable' \in [PoolIds -> 0 .. BMax]
    <3>1. BMax \in 0 .. BMax /\ avaliable \in [PoolIds -> 0 .. BMax]
      BY <1>0, BlockInv DEF BlockInv, TypeOK
    <3> QED BY <3>1, <1>0, <1>2
  <2>5. borrowable' \in [PoolIds -> [Slots -> Blocks]]
    BY <1>2, <2>1, BlockInv DEF BlockInv, TypeOK
  <2> QED BY <1>1, <2>2, <2>3, <2>4, <2>5, BlockInv DEF BlockInv, TypeOK
<1>4. LockInv'
  BY <1>a, <1>0, <1>1, BlockInv DEF BlockInv, TypeOK, LockInv, Owns, PoolIds
<1>5. Exhausted'
  <2>1. ASSUME NEW u \in Threads, op[u] = "borrow", pc'[u] \in {"enter", "inside"},
               NEW q \in PoolIds, q < at'[u]
        PROVE  avaliable[q] = 0 /\ q <= npools
    <3>1. CASE u = t
      <4>1. q <= p
        BY <3>1, <2>1, <1>0, <1>1, BlockInv DEF BlockInv, TypeOK, PoolIds
      <4>2. CASE q = p
        BY <4>2, <1>0, <1>1
      <4>3. CASE q < p
        BY <4>3, <1>a, <1>0, <1>1, BlockInv DEF BlockInv, Exhausted, PoolIds
      <4> QED BY <4>1, <4>2, <4>3, <1>0 DEF PoolIds
    <3>2. CASE u # t
      <4>1. pc[u] \in {"enter", "inside"} /\ q < at[u] /\ at[u] \in 1 .. npools
        BY <3>2, <2>1, <1>1, BlockInv DEF BlockInv, TypeOK
      <4> QED BY <4>1, <2>1, <1>0, BlockInv DEF BlockInv, Exhausted, PoolIds
    <3> QED BY <3>1, <3>2
  <2>2. \A q \in PoolIds : q <= npools => avaliable'[q] = avaliable[q]
    BY <1>0, <1>2, BlockInv DEF BlockInv, TypeOK, PoolIds
  <2> QED BY <2>1, <2>2, <1>1 DEF Exhausted
<1>6. ArgInv'
  BY <1>1, BlockInv DEF BlockInv, TypeOK, ArgInv
<1>7. ChainInv'
  <2>1. \A u \in Threads : \A c \in held[u] : c[1] \in Nat
    BY BlockInv DEF BlockInv, TypeOK, Blocks, PoolIds
  <2> QED BY <1>0, <1>1, <1>2, <2>1, BlockInv DEF BlockInv, ChainInv
<1>8. CASE p < npools /\ UNCHANGED <<npools, avaliable, borrowable>>
  <2>1. NoDoubleLend' /\ NothingLost'
    BY <1>8, <1>1, BlockInv DEF BlockInv, NoDoubleLend, NothingLost, Live
  <2> QED BY <1>3, <1>4, <1>5, <1>6, <1>7, <2>1 DEF BlockInv
<1>9. CASE /\ p = npools
           /\ npools' = p + 1
           /\ avaliable' = [avaliable EXCEPT ![p + 1] = BMax]
           /\ borrowable' = [borrowable EXCEPT ![p + 1] = DefaultStack(p + 1)]
  <2>1. /\ Live(p + 1)' = Slots
        /\ borrowable'[p + 1] = DefaultStack(p + 1)
    BY <1>0, <1>9, BlockInv DEF BlockInv, TypeOK, Live, Slots
  <2>2. \A q \in 1 .. npools : /\ Live(q)' = Live(q)
                               /\ borrowable'[q] = borrowable[q]
    BY <1>0, <1>9, BlockInv DEF BlockInv, TypeOK, Live, PoolIds
  <2>3. \A q \in 1 .. npools' : q \in 1 .. npools \/ q = p + 1
    BY <1>0, <1>9
  <2>4. \A i \in Slots : /\ borrowable'[p + 1][i] = <<p + 1, i>>
                         /\ \A u \in Threads : <<p + 1, i>> \notin held[u]
    BY <2>1, <1>0, <1>9, BlockInv DEF DefaultStack, BlockInv, ChainInv
  <2>5. NoDoubleLend'
    <3>1. ASSUME NEW q \in 1 .. npools', NEW i \in Live(q)'
          PROVE  /\ borrowable'[q][i] \in BlocksOf(q)
                 /\ \A u \in Threads : borrowable'[q][i] \notin held[u]
                 /\ \A j \in Live(q)' : borrowable'[q][i] = borrowable'[q][j] => i = j
      <4>1. CASE q \in 1 .. npools
        BY <4>1, <2>2, BlockInv DEF BlockInv, NoDoubleLend
      <4>2. CASE q = p + 1
        <5>1. i \in Slots /\ borrowable'[q][i] = <<q, i>>
          BY <4>2, <2>1, <2>4
        <5>2. \A j \in Live(q)' : borrowable'[q][j] = <<q, j>>
          BY <4>2, <2>1, <2>4
        <5>3. \A u \in Threads : <<q, i>> \notin held[u]
          BY <4>2, <5>1, <2>4
        <5> QED BY <5>1, <5>2, <5>3 DEF BlocksOf
      <4> QED BY <4>1, <4>2, <2>3
    <3> QED BY <3>1, <1>1, BlockInv DEF BlockInv, NoDoubleLend
  <2>6. NothingLost'
    <3> SUFFICES ASSUME NEW q \in 1 .. npools', NEW c \in BlocksOf(q)
                 PROVE  \/ \E i \in Live(q)' : borrowable'[q][i] = c
                        \/ \E u \in Threads : c \in held'[u]
      BY DEF NothingLost
    <3>1. CASE q \in 1 .. npools
      BY <3>1, <2>2, <1>1, BlockInv DEF BlockInv, NothingLost
    <3>2. CASE q = p + 1
      BY <3>2, <2>1, <2>4 DEF BlocksOf
    <3> QED BY <3>1, <3>2, <2>3
  <2> QED BY <1>3, <1>4, <1>5, <1>6, <1>7, <2>5, <2>6 DEF BlockInv
<1> QED BY <1>2, <1>8, <1>9

LEMMA RestoreHereInv ==
  ASSUME BlockInv, NEW t \in Threads, RestoreHere(t)
  PROVE  BlockInv'
<1>a. PICK p, n, a : p = at[t] /\ n = avaliable[p] /\ a = arg[t]
  OBVIOUS
<1>0. /\ p \in PoolIds /\ p \in 1 .. npools /\ p \in Nat /\ npools \in Nat
      /\ n \in 0 .. BMax /\ BMax \in Nat \ {0}
      /\ \A q \in 1 .. npools : q \in PoolIds
  BY <1>a, BlockInv, PoolAssumption DEF BlockInv, TypeOK, PoolIds
<1>1. /\ pc[t] = "inside" /\ op[t] = "restore" /\ a \in BlocksOf(p)
      /\ borrowable' = [borrowable EXCEPT ![p][n] = a]
      /\ avaliable' = [avaliable EXCEPT ![p] = n + 1]
      /\ held' = [held EXCEPT ![t] = held[t] \ {a}]
      /\ pc' = [pc EXCEPT ![t] = "leave"]
      /\ UNCHANGED <<npools, lock, op, at, arg>>
  BY <1>a, RestoreHere(t) DEF RestoreHere, InPool, Push
<1>2. a \in Blocks /\ a \in held[t]
  <2>1. a \in Blocks
    BY <1>0, <1>1 DEF Blocks, BlocksOf
  <2>2. a \notin Foreign
    BY <2>1, PoolAssumption
  <2> QED BY <1>a, <1>1, <2>1, <2>2, BlockInv DEF BlockInv, ArgInv
<1>3. n \in Slots
  <2>1. \A i \in Live(p) : borrowable[p][i] # a
    BY <1>0, <1>2, BlockInv DEF BlockInv, NoDoubleLend
  <2>2. n < BMax
    BY <2>1, <1>a, <1>0, <1>1, BlockInv, StackRoom DEF BlockInv
  <2> QED BY <2>2, <1>0 DEF Slots
<1>4. /\ borrowable \in [PoolIds -> [Slots -> Blocks]]
      /\ held \in [Threads -> SUBSET Blocks]
      /\ avaliable \in [PoolIds -> 0 .. BMax]
  BY BlockInv DEF BlockInv, TypeOK
<1>5. TypeOK'
  <2>1. n + 1 \in 0 .. BMax
    BY <1>0, <1>3 DEF Slots
  <2>2. avaliable' \in [PoolIds -> 0 .. BMax]
    BY <2>1, <1>0, <1>1, <1>4
  <2>3. borrowable' \in [PoolIds -> [Slots -> Blocks]]
    BY <1>0, <1>1, <1>2, <1>4
  <2>4. held' \in [Threads -> SUBSET Blocks]
    BY <1>1, <1>4
  <2>5. pc' \in [Threads -> {"idle", "enter", "inside", "leave"}]
    BY <1>1, BlockInv DEF BlockInv, TypeOK
  <2> QED BY <1>1, <2>2, <2>3, <2>4, <2>5, BlockInv DEF BlockInv, TypeOK
<1>6. LockInv'
  BY <1>1, BlockInv DEF BlockInv, TypeOK, LockInv, Owns
<1>7. Exhausted'
  <2>1. ASSUME NEW u \in Threads, op[u] = "borrow", pc[u] \in {"enter", "inside"}
        PROVE  ~(p < at[u])
    <3> SUFFICES ASSUME p < at[u] PROVE FALSE
      OBVIOUS
    <3>0. at[u] \in Nat
      BY BlockInv, PoolAssumption DEF BlockInv, TypeOK, PoolIds
    <3>1. Owns(u, p)
      BY <2>1, <3>0, <1>0 DEF Owns
    <3>2. Owns(t, p)
      BY <1>a, <1>0, <1>1 DEF Owns
    <3>3. u = t
      BY <3>1, <3>2, <1>0, BlockInv, OneOwner DEF BlockInv
    <3> QED BY <3>3, <2>1, <1>1
  <2>2. \A u \in Threads : pc'[u] \in {"enter", "inside"} => pc[u] \in {"enter", "inside"}
    BY <1>1, BlockInv DEF BlockInv, TypeOK
  <2>3. \A q \in PoolIds : q # p => avaliable'[q] = avaliable[q]
    BY <1>1, <1>4
  <2> QED BY <1>1, <2>1, <2>2, <2>3, BlockInv DEF BlockInv, Exhausted
<1>8. ArgInv'
  <2>1. \A u \in Threads : u # t => a \notin held[u]
    BY <1>2, BlockInv DEF BlockInv, NoDoubleLend
  <2>2. \A u \in Threads : u # t => pc'[u] = pc[u] /\ held'[u] = held[u]
    BY <1>1, <1>4, BlockInv DEF BlockInv, TypeOK
  <2>3. pc'[t] = "leave"
    BY <1>1, BlockInv DEF BlockInv, TypeOK
  <2> QED BY <1>1, <2>1, <2>2, <2>3, BlockInv DEF BlockInv, ArgInv
<1>9. ChainInv'
  BY <1>1, <1>4, BlockInv DEF BlockInv, ChainInv
<1>10. /\ Live(p)' = Live(p) \cup {n} /\ n \notin Live(p)
       /\ \A q \in PoolIds \ {p} : Live(q)' = Live(q)
  <2>1. avaliable'[p] = n + 1 /\ \A q \in PoolIds \ {p} : avaliable'[q] = avaliable[q]
    BY <1>0, <1>1, <1>4
  <2>2. Live(p)' = 0 .. (n + 1) - 1 /\ Live(p) = 0 .. n - 1
    BY <2>1, <1>a DEF Live
  <2>3. 0 .. (n + 1) - 1 = (0 .. n - 1) \cup {n} /\ n \notin 0 .. n - 1
    BY <1>0
  <2>4. \A q \in PoolIds \ {p} : Live(q)' = Live(q)
    BY <2>1 DEF Live
  <2> QED BY <2>2, <2>3, <2>4
<1>11. /\ borrowable'[p][n] = a
       /\ \A i \in Live(p) : borrowable'[p][i] = borrowable[p][i]
       /\ \A q \in PoolIds \ {p} : borrowable'[q] = borrowable[q]
  <2>1. Live(p) \subseteq Slots
    BY <1>a, <1>0 DEF Live, Slots
  <2> QED BY <2>1, <1>0, <1>1, <1>3, <1>4, <1>10
<1>12. NoDoubleLend'
  <2>1. \A u, v \in Threads : u # v => held'[u] \cap held'[v] = {}
    BY <1>1, <1>4, BlockInv DEF BlockInv, NoDoubleLend
  <2>2. \A u \in Threads : a \notin held'[u] /\ held'[u] \subseteq held[u]
    BY <1>1, <1>2, <1>4, BlockInv DEF BlockInv, NoDoubleLend
  <2>3. ASSUME NEW q \in 1 .. npools, NEW i \in Live(q)'
        PROVE  /\ borrowable'[q][i] \in BlocksOf(q)
               /\ \A u \in Threads : borrowable'[q][i] \notin held'[u]
               /\ \A j \in Live(q)' : borrowable'[q][i] = borrowable'[q][j] => i = j
    <3>1. CASE q # p
      BY <3>1, <1>0, <1>10, <1>11, <2>2, BlockInv DEF BlockInv, NoDoubleLend
    <3>2. CASE q = p
      <4>1. \A j \in Live(p) : /\ borrowable'[p][j] \in BlocksOf(p)
                               /\ borrowable'[p][j] # a
                               /\ \A u \in Threads : borrowable'[p][j] \notin held'[u]
        BY <1>0, <1>2, <1>11, <2>2, BlockInv DEF BlockInv, NoDoubleLend
      <4>2. \A j, l \in Live(p) : borrowable'[p][j] = borrowable'[p][l] => j = l
        BY <1>0, <1>11, BlockInv DEF BlockInv, NoDoubleLend
      <4> QED BY <3>2, <4>1, <4>2, <1>1, <1>10, <1>11, <2>2
    <3> QED BY <3>1, <3>2
  <2> QED BY <2>1, <2>3, <1>1 DEF NoDoubleLend
<1>13. NothingLost'
  <2> SUFFICES ASSUME NEW q \in 1 .. npools, NEW c \in BlocksOf(q)
               PROVE  \/ \E i \in Live(q)' : borrowable'[q][i] = c
                      \/ \E u \in Threads : c \in held'[u]
    BY <1>1 DEF NothingLost
  <2>1. CASE c = a
    <3>1. q = p
      BY <2>1, <1>1 DEF BlocksOf
    <3> QED BY <2>1, <3>1, <1>10, <1>11
  <2>2. CASE \E i \in Live(q) : borrowable[q][i] = c
    <3>1. PICK i \in Live(q) : borrowable[q][i] = c
      BY <2>2
    <3>2. i \in Live(q)' /\ borrowable'[q][i] = c
      BY <3>1, <1>0, <1>10, <1>11
    <3> QED BY <3>2
  <2>3. CASE c # a /\ \E u \in Threads : c \in held[u]
    BY <2>3, <1>1, <1>4
  <2> QED BY <2>1, <2>2, <2>3, BlockInv DEF BlockInv, NothingLost
<1> QED BY <1>5, <1>6, <1>7, <1>8, <1>9, <1>12, <1>13 DEF BlockInv

-----------------------------------------------------------------------------
(* Where the blocks are is inductive.                                      *)
LEMMA NextBlockInv == BlockInv /\ [Next]_vars => BlockInv'
<1> SUFFICES ASSUME BlockInv, [Next]_vars PROVE BlockInv'
  OBVIOUS
<1>1. ASSUME NEW t \in Threads, CallBorrow(t) PROVE BlockInv'
  BY <1>1, CallBorrowInv
<1>2. ASSUME NEW t \in Threads, CallRestore(t) PROVE BlockInv'
  BY <1>2, CallRestoreInv
<1>3. ASSUME NEW t \in Threads, Step(t) PROVE BlockInv'
  <2>1. CASE Enter(t)         BY <2>1, EnterInv
  <2>2. CASE BorrowHere(t)    BY <2>2, BorrowHereInv
  <2>3. CASE BorrowNext(t)    BY <2>3, BorrowNextInv
  <2>4. CASE RestoreHere(t)   BY <2>4, RestoreHereInv
  <2>5. CASE RestoreNext(t)   BY <2>5, RestoreNextInv
  <2>6. CASE RestoreDelete(t) BY <2>6, RestoreDeleteInv
  <2>7. CASE Leave(t)         BY <2>7, LeaveInv
  <2> QED BY <1>3, <2>1, <2>2, <2>3, <2>4, <2>5, <2>6, <2>7 DEF Step
<1>4. CASE UNCHANGED vars
  BY <1>4 DEF vars, BlockInv, TypeOK, LockInv, Owns, Exhausted, ArgInv, ChainInv,
              NoDoubleLend, NothingLost, Live
<1> QED BY <1>1, <1>2, <1>3, <1>4 DEF Next

-----------------------------------------------------------------------------
(* What the threads hold, and how long the chain grows.                    *)
LEMMA InitInv == Init => IInv
<1> SUFFICES ASSUME Init PROVE IInv
  OBVIOUS
<1>1. HeldBound
  <2>1. \A t \in Threads : held[t] = {} /\ pc[t] = "idle"
    BY DEF Init
  <2>2. IsFiniteSet({}) /\ Cardinality({}) = 0
    BY FS_EmptySet
  <2> QED BY <2>1, <2>2, PoolAssumption DEF HeldBound
<1>2. GrowthBound
  BY DEF Init, GrowthBound
<1> QED BY <1>1, <1>2, InitBlockInv DEF IInv

(* Every block of D is with one of T's threads, each of which has at most  *)
(* M; t has fewer than M.  Then D has fewer than |T| * M blocks: a block   *)
(* is told from the others by its owner and its place among the owner's.   *)
LEMMA Demand ==
  ASSUME NEW T, IsFiniteSet(T), NEW M \in Nat, NEW D, NEW H,
         \A u \in T : IsFiniteSet(H[u]) /\ Cardinality(H[u]) <= M,
         \A b \in D : \E u \in T : b \in H[u],
         NEW t \in T, Cardinality(H[t]) < M
  PROVE  Cardinality(D) < Cardinality(T) * M
<1> DEFINE N(u) == Cardinality(H[u])
           F(u) == CHOOSE f : f \in Bijection(1 .. N(u), H[u])
           owner(b) == CHOOSE u \in T : b \in H[u]
           place(b) == CHOOSE i \in 1 .. N(owner(b)) : F(owner(b))[i] = b
           P == T \X (1 .. M)
           Q == P \ {<<t, M>>}
           g == [b \in D |-> <<owner(b), place(b)>>]
<1>1. ASSUME NEW u \in T
      PROVE  N(u) \in Nat /\ F(u) \in Bijection(1 .. N(u), H[u])
  <2>1. N(u) \in Nat /\ ExistsBijection(1 .. N(u), H[u])
    BY FS_CardinalityType
  <2>2. \E f : f \in Bijection(1 .. N(u), H[u])
    BY <2>1 DEF ExistsBijection
  <2> QED BY <2>1, <2>2
<1>2. ASSUME NEW b \in D
      PROVE  /\ owner(b) \in T
             /\ place(b) \in 1 .. N(owner(b))
             /\ F(owner(b))[place(b)] = b
  <2>1. owner(b) \in T /\ b \in H[owner(b)]
    OBVIOUS
  <2>2. F(owner(b)) \in Surjection(1 .. N(owner(b)), H[owner(b)])
    BY <2>1, <1>1 DEF Bijection
  <2>3. \E i \in 1 .. N(owner(b)) : F(owner(b))[i] = b
    BY <2>1, <2>2 DEF Surjection
  <2> QED BY <2>1, <2>3
<1>3. ASSUME NEW b \in D
      PROVE  <<owner(b), place(b)>> \in Q
  <2>1. owner(b) \in T /\ N(owner(b)) \in Nat /\ N(owner(b)) <= M
    BY <1>1, <1>2
  <2>2. place(b) \in 1 .. M
    <3>1. place(b) \in 1 .. N(owner(b))
      BY <1>2
    <3>2. PICK n \in Nat : n = N(owner(b)) /\ n <= M
      BY <2>1
    <3>3. ASSUME NEW i \in 1 .. n PROVE i \in 1 .. M
      <4>1. M \in Nat /\ n \in Nat /\ n <= M /\ i \in 1 .. n
        BY <3>2
      <4> HIDE DEF N, F, owner, place, P, Q, g
      <4> QED BY <4>1
    <3> QED BY <3>1, <3>2, <3>3
  <2>3. <<owner(b), place(b)>> # <<t, M>>
    <3> SUFFICES ASSUME owner(b) = t, place(b) = M PROVE FALSE
      OBVIOUS
    <3>1. place(b) \in 1 .. N(owner(b))
      BY <1>2
    <3>2. M \in 1 .. N(t)
      BY <3>1
    <3>3. PICK n \in Nat : n = N(t) /\ n < M
      BY <1>1
    <3> QED BY <3>2, <3>3
  <2>4. <<owner(b), place(b)>> \in P
    <3> HIDE DEF owner, place, N, F
    <3> QED BY <2>1, <2>2
  <2> QED BY <2>3, <2>4
<1>4. ASSUME NEW b \in D, NEW c \in D, owner(b) = owner(c), place(b) = place(c)
      PROVE  b = c
  <2>1. F(owner(b))[place(b)] = b /\ F(owner(c))[place(c)] = c
    BY <1>2
  <2>2. F(owner(b)) = F(owner(c))
    BY <1>4
  <2> HIDE DEF F, place, owner
  <2> QED BY <1>4, <2>1, <2>2
<1>5. g \in Injection(D, Q)
  <2> HIDE DEF owner, place, Q
  <2>1. g \in [D -> Q]
    BY <1>3
  <2>2. \A b, c \in D : g[b] = g[c] => b = c
    BY <1>4
  <2> QED BY <2>1, <2>2, Fun_IsInj
<1>6. IsFiniteSet(Q) /\ Cardinality(Q) = Cardinality(T) * M - 1
  <2>1. IsFiniteSet(P) /\ Cardinality(P) = Cardinality(T) * M
    <3>1. IsFiniteSet(1 .. M) /\ Cardinality(1 .. M) = M
      BY FirstNumbers
    <3>2. IsFiniteSet(P) /\ Cardinality(P) = Cardinality(T) * Cardinality(1 .. M)
      BY <3>1, FS_Product
    <3> QED BY <3>1, <3>2
  <2>2. <<t, M>> \in P
    <3>1. N(t) \in Nat /\ N(t) < M
      BY <1>1
    <3>2. M \in 1 .. M
      BY <3>1
    <3> QED BY <3>2
  <2>3. IsFiniteSet(Q) /\ Cardinality(Q) = Cardinality(P) - 1
    <3> HIDE DEF P
    <3> QED BY <2>1, <2>2, FS_RemoveElement
  <2> QED BY <2>1, <2>3
<1>7. IsFiniteSet(D) /\ Cardinality(D) <= Cardinality(Q)
  BY <1>5, <1>6, FS_Injection
<1>8. Cardinality(D) \in Nat /\ Cardinality(T) * M \in Nat
  BY <1>7, FS_CardinalityType
<1> QED BY <1>6, <1>7, <1>8

(* The blocks of the first n pools.                                        *)
LEMMA ChainCardinality ==
  ASSUME NEW n \in Nat
  PROVE  Cardinality((1 .. n) \X Slots) = n * BMax
<1>1. 0 \in Int /\ BMax - 1 \in Int /\ BMax \in Nat \ {0}
  BY PoolAssumption
<1>2. IsFiniteSet(Slots) /\ Cardinality(Slots) = BMax
  BY <1>1, FS_Interval DEF Slots
<1>3. IsFiniteSet(1 .. n) /\ Cardinality(1 .. n) = n
  BY FirstNumbers
<1>4. Cardinality((1 .. n) \X Slots) = Cardinality(1 .. n) * Cardinality(Slots)
  BY <1>2, <1>3, FS_Product
<1> QED BY <1>2, <1>3, <1>4

(* What a thread holds after any step, but the last of borrow(), it held   *)
(* before.                                                                 *)
LEMMA NextHeldBound ==
  ASSUME BlockInv, HeldBound, [Next]_vars
  PROVE  HeldBound'
<1>0. /\ held \in [Threads -> SUBSET Blocks]
      /\ pc \in [Threads -> {"idle", "enter", "inside", "leave"}]
      /\ op \in [Threads -> {"borrow", "restore"}]
      /\ MaxHeld \in Nat
  BY PoolAssumption DEF BlockInv, TypeOK
<1>1. ASSUME NEW t \in Threads, CallBorrow(t)
      PROVE  HeldBound'
  BY <1>0, <1>1 DEF HeldBound, CallBorrow
<1>2. ASSUME NEW t \in Threads, CallRestore(t)
      PROVE  HeldBound'
  BY <1>0, <1>2 DEF HeldBound, CallRestore
<1>3. ASSUME NEW t \in Threads, Enter(t) \/ BorrowNext(t) \/ RestoreNext(t)
      PROVE  HeldBound'
  BY <1>0, <1>3 DEF HeldBound, Enter, Unlocked, BorrowNext, Empty, RestoreNext, InPool
<1>4. ASSUME NEW t \in Threads, Leave(t)
      PROVE  HeldBound'
  BY <1>0, <1>4 DEF HeldBound, Leave
<1>5. ASSUME NEW t \in Threads, RestoreDelete(t)
      PROVE  HeldBound'
  <2>1. held' = held
    BY <1>5, DeletesForeign
  <2> QED BY <1>0, <1>5, <2>1 DEF HeldBound, RestoreDelete, InPool
<1>6. ASSUME NEW t \in Threads, RestoreHere(t)
      PROVE  HeldBound'
  <2>1. /\ held' = [held EXCEPT ![t] = held[t] \ {arg[t]}]
        /\ pc' = [pc EXCEPT ![t] = "leave"] /\ op' = op
    BY <1>6 DEF RestoreHere, InPool, Push
  <2>2. /\ IsFiniteSet(held[t] \ {arg[t]})
        /\ Cardinality(held[t] \ {arg[t]}) <= Cardinality(held[t])
    <3>1. IsFiniteSet(held[t]) /\ held[t] \ {arg[t]} \in SUBSET held[t]
      BY DEF HeldBound
    <3> QED BY <3>1, FS_Subset
  <2>3. Cardinality(held[t]) \in Nat /\ Cardinality(held[t] \ {arg[t]}) \in Nat
    BY <2>2, FS_CardinalityType DEF HeldBound
  <2> QED BY <1>0, <2>1, <2>2, <2>3 DEF HeldBound
<1>7. ASSUME NEW t \in Threads, BorrowHere(t)
      PROVE  HeldBound'
  <2>a. PICK b : b = borrowable[at[t]][avaliable[at[t]] - 1]
    OBVIOUS
  <2>1. /\ held' = [held EXCEPT ![t] = held[t] \cup {b}]
        /\ pc' = [pc EXCEPT ![t] = "leave"] /\ op' = op
        /\ pc[t] = "inside" /\ op[t] = "borrow"
    BY <1>7, <2>a DEF BorrowHere, Empty, Pop
  <2>2. IsFiniteSet(held[t]) /\ Cardinality(held[t]) < MaxHeld
    BY <2>1 DEF HeldBound
  <2>3. Cardinality(held[t]) \in Nat
    BY <2>2, FS_CardinalityType
  <2>4. IsFiniteSet(held[t] \cup {b}) /\ Cardinality(held[t] \cup {b}) <= MaxHeld
    <3>1. /\ IsFiniteSet(held[t] \cup {b})
          /\ Cardinality(held[t] \cup {b}) =
               IF b \in held[t] THEN Cardinality(held[t]) ELSE Cardinality(held[t]) + 1
      BY <2>2, FS_AddElement
    <3>2. PICK n : n = Cardinality(held[t])
      OBVIOUS
    <3>3. n \in Nat /\ n < MaxHeld
      BY <2>2, <2>3, <3>2
    <3>4. n <= MaxHeld /\ n + 1 <= MaxHeld
      BY <3>3, <1>0
    <3> QED BY <3>1, <3>2, <3>4
  <2> QED BY <1>0, <2>1, <2>4 DEF HeldBound
<1>8. CASE UNCHANGED vars
  BY <1>8 DEF HeldBound, vars
<1> QED BY <1>1, <1>2, <1>3, <1>4, <1>5, <1>6, <1>7, <1>8 DEF Next, Step

(* A pool is added by a thread that has room for another block, when the   *)
(* threads hold every block of the pools that exist.                       *)
LEMMA BorrowNextGrowth ==
  ASSUME BlockInv, HeldBound, GrowthBound, NEW t \in Threads, BorrowNext(t)
  PROVE  GrowthBound'
<1>0. at[t] \in 1 .. npools /\ npools \in Nat /\ npools \in PoolIds
  BY PoolAssumption DEF BlockInv, TypeOK, PoolIds
<1>1. CASE npools' = npools
  BY <1>1 DEF GrowthBound
<1>2. CASE npools' = npools + 1 /\ at[t] = npools
  <2> DEFINE D == (1 .. npools) \X Slots
  <2>1. pc[t] = "inside" /\ op[t] = "borrow" /\ avaliable[npools] = 0
    BY <1>2 DEF BorrowNext, Empty
  <2>2. \A q \in 1 .. npools : q \in PoolIds /\ avaliable[q] = 0
    <3> SUFFICES ASSUME NEW q \in 1 .. npools
                 PROVE  q \in PoolIds /\ avaliable[q] = 0
      OBVIOUS
    <3>1. q \in PoolIds
      BY <1>0, PoolAssumption DEF PoolIds
    <3>2. q < at[t] => avaliable[q] = 0
      BY <2>1, <3>1 DEF BlockInv, Exhausted
    <3> QED BY <3>1, <3>2, <1>0, <1>2, <2>1
  <2>3. \A b \in D : \E u \in Threads : b \in held[u]
    <3> SUFFICES ASSUME NEW q \in 1 .. npools, NEW i \in Slots
                 PROVE  \E u \in Threads : <<q, i>> \in held[u]
      OBVIOUS
    <3>1. Live(q) = {}
      BY <2>2 DEF Live
    <3>2. <<q, i>> \in BlocksOf(q)
      BY DEF BlocksOf
    <3> QED BY <3>1, <3>2 DEF BlockInv, NothingLost
  <2>4. \A u \in Threads : IsFiniteSet(held[u]) /\ Cardinality(held[u]) <= MaxHeld
    BY DEF HeldBound
  <2>5. Cardinality(held[t]) < MaxHeld
    BY <2>1 DEF HeldBound
  <2>6. Cardinality(D) < Cardinality(Threads) * MaxHeld
    <3> HIDE DEF D
    <3> QED BY <2>3, <2>4, <2>5, PoolAssumption, Demand
  <2>7. Cardinality(D) = npools * BMax
    BY <1>0, ChainCardinality
  <2>8. npools' - 1 = npools
    BY <1>0, <1>2
  <2> QED BY <2>6, <2>7, <2>8 DEF GrowthBound
<1> QED BY <1>1, <1>2 DEF BorrowNext

LEMMA NextInv == IInv /\ [Next]_vars => IInv'
<1> SUFFICES ASSUME IInv, [Next]_vars PROVE IInv'
  OBVIOUS
<1>0. BlockInv /\ HeldBound /\ GrowthBound
  BY DEF IInv
<1>1. BlockInv' /\ HeldBound'
  BY <1>0, NextBlockInv, NextHeldBound
<1>2. GrowthBound'
  <2>1. ASSUME NEW t \in Threads, BorrowNext(t) PROVE GrowthBound'
    BY <1>0, <2>1, BorrowNextGrowth
  <2>2. ASSUME NEW t \in Threads,
               CallBorrow(t) \/ CallRestore(t) \/ (Step(t) /\ ~BorrowNext(t))
        PROVE  npools' = npools
    BY <2>2 DEF CallBorrow, CallRestore, Step, Enter, Unlocked, BorrowHere, Empty, Pop,
                RestoreHere, InPool, Push, RestoreNext, RestoreDelete, Leave
  <2>3. CASE npools' = npools
    BY <1>0, <2>3 DEF GrowthBound
  <2> QED BY <2>1, <2>2, <2>3 DEF Next, vars
<1> QED BY <1>1, <1>2 DEF IInv

(* Every reachable state of the pool, with any number of threads, blocks   *)
(* and pools, satisfies the invariant.                                     *)
THEOREM Invariance == Spec => []IInv
BY InitInv, NextInv, PTL DEF Spec

(* _avaliable never leaves 0 .. _bmax: restore() writes inside the array   *)
(* _borrowable and borrow() reads inside it.                               *)
THEOREM TypeCorrect == Spec => []TypeOK
<1>1. IInv => TypeOK
  BY DEF IInv, BlockInv
<1> QED BY <1>1, Invariance, PTL

(* No two users of the pool ever have the same block.                      *)
THEOREM NoBlockLentTwice == Spec => []NoDoubleLend
<1>1. IInv => NoDoubleLend
  BY DEF IInv, BlockInv
<1> QED BY <1>1, Invariance, PTL

(* No block ever leaks.                                                    *)
THEOREM NoBlockLost == Spec => []NothingLost
<1>1. IInv => NothingLost
  BY DEF IInv, BlockInv
<1> QED BY <1>1, Invariance, PTL

(* The chain never grows past what the threads could need at once, however *)
(* their calls overlap.                                                    *)
THEOREM ChainWithinDemand == Spec => []GrowthBound
<1>1. IInv => GrowthBound
  BY DEF IInv
<1> QED BY <1>1, Invariance, PTL

-----------------------------------------------------------------------------
(* Refinement: popping and pushing are the lending steps, all else stutters. *)
LEMMA BorrowHereLends ==
  ASSUME BlockInv, NEW t \in Threads, BorrowHere(t)
  PROVE  Lending!Borrow(t)
<1>a. PICK p, b : p = at[t] /\ b = borrowable[p][avaliable[p] - 1]
  OBVIOUS
<1>0. p \in PoolIds /\ p \in 1 .. npools /\ npools \in Nat /\ avaliable[p] - 1 \in Live(p)
  BY <1>a, BlockInv, BorrowHere(t), PoolAssumption
  DEF BlockInv, TypeOK, BorrowHere, Empty, Pop, PoolIds, Live
<1>1. b \in BlocksOf(p) /\ \A u \in Threads : b \notin held[u]
  BY <1>a, <1>0, BlockInv DEF BlockInv, NoDoubleLend
<1>2. b \in PoolIds \X Slots /\ b[1] = p
  BY <1>0, <1>1 DEF BlocksOf
<1>3. \A q \in PoolIds, i \in Slots : q < p => \E u \in Threads : <<q, i>> \in held[u]
  <2> SUFFICES ASSUME NEW q \in PoolIds, NEW i \in Slots, q < p
               PROVE  \E u \in Threads : <<q, i>> \in held[u]
    OBVIOUS
  <2>1. avaliable[q] = 0
    BY <1>a, BlockInv, BorrowHere(t) DEF BlockInv, Exhausted, BorrowHere, Empty, Pop
  <2>2. Live(q) = {}
    BY <2>1 DEF Live
  <2>3. q \in 1 .. npools /\ <<q, i>> \in BlocksOf(q)
    BY <1>0, PoolAssumption DEF PoolIds, BlocksOf
  <2> QED BY <2>2, <2>3, BlockInv DEF BlockInv, NothingLost
<1>4. held' = [held EXCEPT ![t] = held[t] \cup {b}]
  BY <1>a, BorrowHere(t) DEF BorrowHere, Empty, Pop
<1> QED BY <1>1, <1>2, <1>3, <1>4 DEF Lending!Borrow, Lending!Blocks, Lending!Free

LEMMA RestoreHereGivesBack ==
  ASSUME BlockInv, NEW t \in Threads, RestoreHere(t)
  PROVE  Lending!GiveBack(t)
<1>1. arg[t] \in Blocks
  <2>1. arg[t] \in BlocksOf(at[t]) /\ at[t] \in PoolIds
    BY BlockInv, RestoreHere(t), PoolAssumption DEF BlockInv, TypeOK, RestoreHere, InPool, Push, PoolIds
  <2> QED BY <2>1 DEF Blocks, BlocksOf
<1>2. arg[t] \in held[t]
  BY <1>1, BlockInv, RestoreHere(t), PoolAssumption DEF BlockInv, ArgInv, RestoreHere, InPool, Push
<1> QED BY <1>2, RestoreHere(t) DEF RestoreHere, InPool, Push, Lending!GiveBack

(* borrow() and restore(), with their chain of stacks and mutexes, lend    *)
(* each block to one thread at a time and use a further pool only while    *)
(* the earlier ones are exhausted.                                         *)
THEOREM Implements == Spec => RefinesLending
<1>1. Init => Lending!Init
  BY DEF Init, Lending!Init
<1>2. IInv /\ [Next]_vars => [Lending!Next]_held
  <2> SUFFICES ASSUME IInv, [Next]_vars PROVE [Lending!Next]_held
    OBVIOUS
  <2>1. ASSUME NEW t \in Threads, CallBorrow(t) \/ CallRestore(t)
        PROVE  held' = held
    BY <2>1 DEF CallBorrow, CallRestore
  <2>2. ASSUME NEW t \in Threads, Step(t)
        PROVE  [Lending!Next]_held
    <3>1. CASE BorrowHere(t)
      BY <3>1, BorrowHereLends DEF IInv, Lending!Next
    <3>2. CASE RestoreHere(t)
      BY <3>2, RestoreHereGivesBack DEF IInv, Lending!Next
    <3>3. CASE RestoreDelete(t)
      BY <3>3, DeletesForeign DEF IInv
    <3>4. CASE Enter(t) \/ BorrowNext(t) \/ RestoreNext(t) \/ Leave(t)
      BY <3>4 DEF Enter, Unlocked, BorrowNext, Empty, RestoreNext, InPool, Leave
    <3> QED BY <2>2, <3>1, <3>2, <3>3, <3>4 DEF Step
  <2>3. CASE UNCHANGED vars
    BY <2>3 DEF vars
  <2> QED BY <2>1, <2>2, <2>3 DEF Next
<1> QED BY <1>1, <1>2, Invariance, PTL DEF Spec, RefinesLending, Lending!Spec
=============================================================================
