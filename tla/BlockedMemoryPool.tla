-------------------------- MODULE BlockedMemoryPool --------------------------
(***************************************************************************)
(* BlockedMemoryPool (server/src/blockedmemorypool.cpp), the allocator of  *)
(* client connections and user sessions, under concurrent callers.         *)
(*                                                                         *)
(* A pool owns BMax blocks and a LIFO stack of the borrowable ones; a pool *)
(* whose stack is empty forwards to a next pool, created on first use.     *)
(* borrow() and restore() keep their own pool's mutex while they recurse   *)
(* into the next pool, so a thread that works on pool n holds the locks of *)
(* pools 1..n.  Each lock, each stack operation and each unlock is a step. *)
(***************************************************************************)
EXTENDS Naturals, FiniteSets

CONSTANTS
  Threads,    \* threads that call the pool (acceptor and listener threads)
  BMax,       \* _bmax, blocks per pool
  MaxPools,   \* bound of the model: length the chain may reach
  MaxHeld,    \* bound of the model: blocks one thread keeps at a time
  Foreign,    \* addresses that no pool of the chain contains
  None        \* no owner, no argument

PoolIds == 1 .. MaxPools
Slots   == 0 .. BMax - 1
Blocks  == PoolIds \X Slots
BlocksOf(p) == {p} \X Slots

ASSUME PoolAssumption ==
  /\ IsFiniteSet(Threads)
  /\ BMax \in Nat \ {0}
  /\ MaxPools \in Nat \ {0}
  /\ MaxHeld \in Nat
  /\ None \notin Threads
  /\ None \notin Foreign
  /\ None \notin Blocks
  /\ Foreign \cap Blocks = {}

VARIABLES
  borrowable,  \* borrowable[p][i]: entry i of pool p's array _borrowable
  avaliable,   \* avaliable[p]: _avaliable, the entries in use
  npools,      \* pools in the chain; _next of pool npools is nullptr
  lock,        \* lock[p]: the thread that owns _operating of pool p
  pc,          \* where a thread is: outside, at the lock, inside, leaving
  op,          \* the call it executes
  at,          \* the pool whose borrow() or restore() it executes
  arg,         \* the address it restores
  held         \* held[t]: blocks lent to thread t

vars == <<borrowable, avaliable, npools, lock, pc, op, at, arg, held>>

-----------------------------------------------------------------------------
(* The stack a constructed pool starts with.                               *)
DefaultStack(p) == [i \in Slots |-> <<p, i>>]

(* Mutation: the chain is not consulted before the last block is out.      *)
EmptyButOne(p) == avaliable[p] <= 1
Empty(p) == avaliable[p] = 0

(* Mutation: the stack pointer does not move.                              *)
PopForgotten(p) == UNCHANGED avaliable
Pop(p) == avaliable' = [avaliable EXCEPT ![p] = avaliable[p] - 1]

(* Mutation: the stack pointer moves before the write.                     *)
PushAbove(p, a) ==
  /\ borrowable' = [borrowable EXCEPT ![p][avaliable[p] + 1] = a]
  /\ avaliable' = [avaliable EXCEPT ![p] = avaliable[p] + 1]
Push(p, a) ==
  /\ borrowable' = [borrowable EXCEPT ![p][avaliable[p]] = a]
  /\ avaliable' = [avaliable EXCEPT ![p] = avaliable[p] + 1]

(* Mutation: only the lower end of the pool's memory is compared.          *)
AboveStart(a, p) == a \in Blocks /\ a[1] >= p
InPool(a, p) == a \in BlocksOf(p)

(* Mutation: lock() returns although another thread owns the mutex.        *)
NoMutex(p) == TRUE
Unlocked(p) == lock[p] = None

Init ==
  /\ borrowable = [p \in PoolIds |-> DefaultStack(p)]
  /\ avaliable = [p \in PoolIds |-> IF p = 1 THEN BMax ELSE 0]
  /\ npools = 1
  /\ lock = [p \in PoolIds |-> None]
  /\ pc = [t \in Threads |-> "idle"]
  /\ op = [t \in Threads |-> "borrow"]
  /\ at = [t \in Threads |-> 1]
  /\ arg = [t \in Threads |-> None]
  /\ held = [t \in Threads |-> {}]

(* A caller enters borrow() of the first pool.                             *)
CallBorrow(t) ==
  /\ pc[t] = "idle"
  /\ Cardinality(held[t]) < MaxHeld
  /\ pc' = [pc EXCEPT ![t] = "enter"]
  /\ op' = [op EXCEPT ![t] = "borrow"]
  /\ at' = [at EXCEPT ![t] = 1]
  /\ UNCHANGED <<borrowable, avaliable, npools, lock, arg, held>>

(* A caller enters restore() of the first pool with a block it was lent,   *)
(* or with an address the chain does not contain.                          *)
CallRestore(t) ==
  /\ pc[t] = "idle"
  /\ \E a \in held[t] \cup Foreign : arg' = [arg EXCEPT ![t] = a]
  /\ pc' = [pc EXCEPT ![t] = "enter"]
  /\ op' = [op EXCEPT ![t] = "restore"]
  /\ at' = [at EXCEPT ![t] = 1]
  /\ UNCHANGED <<borrowable, avaliable, npools, lock, held>>

(* _operating.lock()                                                       *)
Enter(t) ==
  /\ pc[t] = "enter"
  /\ Unlocked(at[t])
  /\ lock' = [lock EXCEPT ![at[t]] = t]
  /\ pc' = [pc EXCEPT ![t] = "inside"]
  /\ UNCHANGED <<borrowable, avaliable, npools, op, at, arg, held>>

(* borrow() with a block on the stack: the top one is lent.                *)
BorrowHere(t) ==
  LET p == at[t] IN
  /\ pc[t] = "inside" /\ op[t] = "borrow"
  /\ ~Empty(p)
  /\ held' = [held EXCEPT ![t] = held[t] \cup {borrowable[p][avaliable[p] - 1]}]
  /\ Pop(p)
  /\ pc' = [pc EXCEPT ![t] = "leave"]
  /\ UNCHANGED <<borrowable, npools, lock, op, at, arg>>

(* borrow() with an empty stack: create the next pool if there is none,    *)
(* and recurse into it with this pool's mutex still locked.                *)
BorrowNext(t) ==
  LET p == at[t] IN
  /\ pc[t] = "inside" /\ op[t] = "borrow"
  /\ Empty(p)
  /\ p < MaxPools
  /\ IF p = npools
     THEN /\ npools' = p + 1
          /\ avaliable' = [avaliable EXCEPT ![p + 1] = BMax]
          /\ borrowable' = [borrowable EXCEPT ![p + 1] = DefaultStack(p + 1)]
     ELSE UNCHANGED <<npools, avaliable, borrowable>>
  /\ at' = [at EXCEPT ![t] = p + 1]
  /\ pc' = [pc EXCEPT ![t] = "enter"]
  /\ UNCHANGED <<lock, op, arg, held>>

(* restore() of an address of this pool: it becomes the top of the stack.  *)
RestoreHere(t) ==
  LET p == at[t] IN
  /\ pc[t] = "inside" /\ op[t] = "restore"
  /\ InPool(arg[t], p)
  /\ Push(p, arg[t])
  /\ held' = [held EXCEPT ![t] = held[t] \ {arg[t]}]
  /\ pc' = [pc EXCEPT ![t] = "leave"]
  /\ UNCHANGED <<npools, lock, op, at, arg>>

(* restore() of an address that may be in the next pool.                   *)
RestoreNext(t) ==
  /\ pc[t] = "inside" /\ op[t] = "restore"
  /\ ~InPool(arg[t], at[t])
  /\ at[t] < npools
  /\ at' = [at EXCEPT ![t] = at[t] + 1]
  /\ pc' = [pc EXCEPT ![t] = "enter"]
  /\ UNCHANGED <<borrowable, avaliable, npools, lock, op, arg, held>>

(* Mutation: the search for the owner starts over, with the mutexes held.  *)
RestoreSearch(t) ==
  /\ pc[t] = "inside" /\ op[t] = "restore"
  /\ ~InPool(arg[t], at[t])
  /\ at[t] = npools
  /\ UNCHANGED vars

(* restore() at the end of the chain: warn and delete the address.  It is  *)
(* no longer anybody's.                                                    *)
RestoreDelete(t) ==
  /\ pc[t] = "inside" /\ op[t] = "restore"
  /\ ~InPool(arg[t], at[t])
  /\ at[t] = npools
  /\ held' = [held EXCEPT ![t] = held[t] \ {arg[t]}]
  /\ pc' = [pc EXCEPT ![t] = "leave"]
  /\ UNCHANGED <<borrowable, avaliable, npools, lock, op, at, arg>>

(* _operating.unlock() and return to the calling pool, or to the caller.   *)
Leave(t) ==
  /\ pc[t] = "leave"
  /\ lock' = [lock EXCEPT ![at[t]] = None]
  /\ IF at[t] = 1
     THEN /\ pc' = [pc EXCEPT ![t] = "idle"]
          /\ arg' = [arg EXCEPT ![t] = None]
          /\ UNCHANGED at
     ELSE /\ at' = [at EXCEPT ![t] = at[t] - 1]
          /\ UNCHANGED <<pc, arg>>
  /\ UNCHANGED <<borrowable, avaliable, npools, op, held>>

(* What a thread inside the pool does next.                                *)
Step(t) ==
  \/ Enter(t)
  \/ BorrowHere(t)
  \/ BorrowNext(t)
  \/ RestoreHere(t)
  \/ RestoreNext(t)
  \/ RestoreDelete(t)
  \/ Leave(t)

Next == \E t \in Threads : CallBorrow(t) \/ CallRestore(t) \/ Step(t)

Spec == Init /\ [][Next]_vars

(* A thread inside the pool is scheduled; callers need never call.         *)
FairSpec == Spec /\ \A t \in Threads : WF_vars(Step(t))
-----------------------------------------------------------------------------
(* Properties.                                                             *)

(* Type invariant: in particular _avaliable stays within the array, so the *)
(* writes of restore() stay within _borrowable.                            *)
TypeOK ==
  /\ npools \in PoolIds
  /\ borrowable \in [PoolIds -> [Slots -> Blocks]]
  /\ avaliable \in [PoolIds -> 0 .. BMax]
  /\ lock \in [PoolIds -> Threads \cup {None}]
  /\ pc \in [Threads -> {"idle", "enter", "inside", "leave"}]
  /\ op \in [Threads -> {"borrow", "restore"}]
  /\ at \in [Threads -> 1 .. npools]
  /\ arg \in [Threads -> Blocks \cup Foreign \cup {None}]
  /\ held \in [Threads -> SUBSET Blocks]

(* The entries of pool p's stack that are in use.                          *)
Live(p) == 0 .. avaliable[p] - 1

(* A block has one user: it is lent to at most one thread, and while it is *)
(* lent it is on no stack, so no later borrow() can return it; and a stack *)
(* never holds a block twice, nor a block of another pool.                 *)
NoDoubleLend ==
  /\ \A t, u \in Threads : t # u => held[t] \cap held[u] = {}
  /\ \A p \in 1 .. npools : \A i \in Live(p) :
       /\ borrowable[p][i] \in BlocksOf(p)
       /\ \A t \in Threads : borrowable[p][i] \notin held[t]
       /\ \A j \in Live(p) : borrowable[p][i] = borrowable[p][j] => i = j

(* No leak: every block of every pool of the chain is on its pool's stack  *)
(* or lent to a thread, between any two steps of any calls.                *)
NothingLost ==
  \A p \in 1 .. npools : \A b \in BlocksOf(p) :
    \/ \E i \in Live(p) : borrowable[p][i] = b
    \/ \E t \in Threads : b \in held[t]

(* The chain is no longer than the demand requires: however calls overlap, *)
(* the last pool exists only if the blocks of the others could not serve   *)
(* all threads at once.                                                    *)
GrowthBound ==
  npools > 1 => (npools - 1) * BMax < Cardinality(Threads) * MaxHeld

(* A thread that got into the first pool gets out again, whatever others   *)
(* do: the chain of mutexes is always taken in one order.                  *)
RootReleased == \A t \in Threads : lock[1] = t ~> lock[1] # t

(* borrow() and restore() with their locks implement a lending of blocks   *)
(* one at a time, first pool first.                                        *)
Lending == INSTANCE BlockLending WITH lent <- held
RefinesLending == Lending!Spec

-----------------------------------------------------------------------------
(* The parts of the inductive invariant.                                   *)

(* The mutexes thread t owns: those of the pools it passed on its way in,  *)
(* and that of the pool it is in.                                          *)
Owns(t, p) ==
  \/ pc[t] = "enter" /\ p < at[t]
  \/ pc[t] \in {"inside", "leave"} /\ p <= at[t]

LockInv == \A t \in Threads, p \in PoolIds : lock[p] = t <=> Owns(t, p)

(* A thread that borrows has found every pool before its own empty, and    *)
(* they still are.                                                         *)
Exhausted ==
  \A t \in Threads :
    op[t] = "borrow" /\ pc[t] \in {"enter", "inside"}
      => \A p \in PoolIds : p < at[t] => avaliable[p] = 0

(* What is being restored is still lent to the caller, or foreign.         *)
ArgInv ==
  \A t \in Threads :
    op[t] = "restore" /\ pc[t] \in {"enter", "inside"}
      => \/ arg[t] \in Foreign
         \/ arg[t] \in held[t] /\ at[t] <= arg[t][1]

(* Pools not yet created lend nothing.                                     *)
ChainInv == \A t \in Threads : \A b \in held[t] : b[1] <= npools

(* No thread holds more than MaxHeld blocks, and one that is about to get  *)
(* a further block holds fewer.                                            *)
HeldBound ==
  \A t \in Threads :
    /\ IsFiniteSet(held[t])
    /\ Cardinality(held[t]) <= MaxHeld
    /\ op[t] = "borrow" /\ pc[t] \in {"enter", "inside"}
         => Cardinality(held[t]) < MaxHeld

(* Where every block is.                                                   *)
BlockInv ==
  /\ TypeOK
  /\ LockInv
  /\ Exhausted
  /\ ArgInv
  /\ ChainInv
  /\ NoDoubleLend
  /\ NothingLost

IInv == BlockInv /\ HeldBound /\ GrowthBound
=============================================================================
