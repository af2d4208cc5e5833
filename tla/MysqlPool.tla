----------------------------- MODULE MysqlPool -----------------------------
(* The limit of database connections in use (mysqlconnectionpool.cpp) as   *)
(* the queries of usermanager.cpp meet it, each on its own thread. The     *)
(* count is tested, incremented and decremented without a lock; the pool   *)
(* of mysql++ beneath has one and creates connections as they are needed.  *)
EXTENDS Integers, FiniteSets

CONSTANTS
  Threads, \* that may query
  Limit,   \* in use before grab() waits: 8
  Word     \* 2^32: conns_in_use_ is an unsigned int

ASSUME MysqlAssumption ==
  /\ IsFiniteSet(Threads)
  /\ Limit \in Nat
  /\ Word \in Nat /\ Cardinality(Threads) < Word

VARIABLES
  count,     \* conns_in_use_
  phase,     \* where a thread stands in grab(), its query or release()
  reg,       \* the count a thread has read and will write back changed
  overlapped \* history: two threads were changing the count at once
mysqlVars == <<count, phase, reg, overlapped>>

Phases == {"none", "wait", "inc", "incWrite", "use", "dec", "decWrite"}

MysqlTypeOK ==
  /\ count \in 0..Word - 1
  /\ phase \in [Threads -> Phases]
  /\ reg \in [Threads -> 0..Word - 1]
  /\ overlapped \in BOOLEAN

MysqlInit ==
  /\ count = 0
  /\ phase = [t \in Threads |-> "none"]
  /\ reg = [t \in Threads |-> 0]
  /\ overlapped = FALSE

Go(t, p) == phase' = [phase EXCEPT ![t] = p]
Changing == {t \in Threads : phase[t] \in {"incWrite", "decWrite"}}

(* A query calls grab().                                                   *)
Call(t) ==
  /\ phase[t] = "none" /\ Go(t, "wait")
  /\ UNCHANGED <<count, reg, overlapped>>

(* The loop of grab(); while there are too many, the thread sleeps.        *)
Pass(t) ==
  /\ phase[t] = "wait" /\ count <= Limit /\ Go(t, "inc")
  /\ UNCHANGED <<count, reg, overlapped>>

(* ++conns_in_use_ and --conns_in_use_: read, then write.                  *)
Read(t, from, to) ==
  /\ phase[t] = from /\ Go(t, to)
  /\ reg' = [reg EXCEPT ![t] = count]
  /\ overlapped' = (overlapped \/ Changing # {})
  /\ UNCHANGED count

Write(t, from, to, n) ==
  /\ phase[t] = from /\ Go(t, to)
  /\ count' = n
  /\ reg' = [reg EXCEPT ![t] = 0]
  /\ UNCHANGED overlapped

IncRead(t)  == Read(t, "inc", "incWrite")
IncWrite(t) == Write(t, "incWrite", "use", (reg[t] + 1) % Word)
DecRead(t)  == Read(t, "dec", "decWrite")
DecWrite(t) == Write(t, "decWrite", "none", (reg[t] + Word - 1) % Word)

(* Mutation: a query that fails returns without release().                 *)
FailedKeeps(t) == Go(t, "none")

(* A failed query is caught and reaches release() like any other.          *)
Failed(t) == Go(t, "dec")

(* ConnectionPool::grab gives a connection; the query has a result or an   *)
(* exception; ConnectionPool::release takes the connection back.           *)
Use(t, ok) ==
  /\ phase[t] = "use"
  /\ IF ok THEN Go(t, "dec") ELSE Failed(t)
  /\ UNCHANGED <<count, reg, overlapped>>

MysqlStep(t) ==
  \/ Call(t) \/ Pass(t) \/ IncRead(t) \/ IncWrite(t)
  \/ DecRead(t) \/ DecWrite(t) \/ \E ok \in BOOLEAN : Use(t, ok)

MysqlNext == \E t \in Threads : MysqlStep(t)
MysqlSpec == MysqlInit /\ [][MysqlNext]_mysqlVars

-----------------------------------------------------------------------------
(* Threads whose increment is written and whose decrement is not.          *)
Counted == {t \in Threads : phase[t] \in {"use", "dec", "decWrite"}}

(* The count is the number of connections taken, as long as no two threads *)
(* change it at the same time; it never wraps below zero then.             *)
CountExact == ~overlapped => count = Cardinality(Counted)
=============================================================================
