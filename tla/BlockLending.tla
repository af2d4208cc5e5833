---------------------------- MODULE BlockLending ----------------------------
(***************************************************************************)
(* What a pool of equal blocks promises to its callers, whatever its locks *)
(* and stacks look like: a block is lent to one thread at a time, and a    *)
(* block of a later pool of the chain is lent only while every block of    *)
(* the earlier pools is out ("申请超过块数限制的内存时会新建一个...",      *)
(* blockedmemorypool.h: a further pool serves the demand above the limit). *)
(***************************************************************************)
EXTENDS Naturals

CONSTANTS Threads,   \* the callers
          PoolIds,   \* positions in the chain of pools, 1 first
          Slots      \* block numbers within one pool

VARIABLE lent        \* lent[t]: the blocks thread t has borrowed

Blocks == PoolIds \X Slots

Free(b) == \A t \in Threads : b \notin lent[t]

Init == lent = [t \in Threads |-> {}]

Borrow(t) ==
  \E b \in Blocks :
    /\ Free(b)
    /\ \A p \in PoolIds, i \in Slots : p < b[1] => ~Free(<<p, i>>)
    /\ lent' = [lent EXCEPT ![t] = lent[t] \cup {b}]

GiveBack(t) ==
  \E b \in lent[t] : lent' = [lent EXCEPT ![t] = lent[t] \ {b}]

Next == \E t \in Threads : Borrow(t) \/ GiveBack(t)

Spec == Init /\ [][Next]_lent
=============================================================================
